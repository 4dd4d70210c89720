CONSTANTS
    MaxRecords = 5
    Top = 3
    MaxSize = 2
    BlockSize = 2
    Faults = 1
    Crashes = 1
    Changes = 1
    LoggerTop = 2
    Sizes = {0, 1, 2}
    MaxEntries = 3
    Capacity = 5
    Breaks = 3
    Fds = 3
    Objects = {o1, o2}
    Failures = 1
    Handlers = {h1, h2}
    MaxHandlers = 3
    Million = 16
    Wrap = 1000
    Rates = {1, 4, 16}
    MinSleep = 2
    Horizon = 36
    MaxPaced = 26
    Interrupts = 1
    Strings <- MCStrings
    Texts <- MCTexts
SPECIFICATION MCSpec
INVARIANTS FilesInOrder OnlyOldestLost GotAsRecorded SystemAgrees RateHeld Base64Exact
PROPERTIES RollReportsLoss ImplementsRotatedLog
CHECK_DEADLOCK FALSE
