CONSTANTS
    MaxParts = 2
    KeepaliveAnswers = FALSE
    MaxCommands = 3
    MaxUnread = 4
SPECIFICATION Spec
PROPERTY Serialized
