CONSTANTS
    Alphabet <- SomeAlphabet
    Files <- SomeFiles
    LoadSize = 21
    Typed <- SomeTyped
    Chars <- SomeChars
    Keys <- SomeKeys
    Default <- SomeDefault
    Values <- SomeValues
    Authored <- SomeAuthored
    Rubbish <- SomeRubbish
    LineSize = 8
    Octets <- SomeOctets
    Numbers <- SomeNumbers
    MaxSent = 2
SPECIFICATION AllSpec
INVARIANTS LoadKeepsDefinitions BuildSubstitutes EndsAgree NumbersSurvive
PROPERTY SettingsSurvive
CHECK_DEADLOCK FALSE
