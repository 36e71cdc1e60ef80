CONSTANTS
    MaxParts = 2
    KeepaliveAnswers = TRUE
    MaxCommands = 3
    MaxUnread = 4
SPECIFICATION FairSpec
INVARIANTS TypeOK FirstByteBlocks
PROPERTIES OwnAnswer CommandEnds
