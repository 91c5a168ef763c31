SPECIFICATION RunningSpec
CONSTANTS
    Tasks <- OneTask
    MaxRuns = 1
    MaxPics = 2
    PicsUpTo <- SmallSets
    Folder <- OwnFolder
    ScanLimit = 2
    BusyLimit = 1
    DownloadLimit = 1
    UserOps = {"add"}
    Faults = {"page"}
    MaxCrashes = 0
CHECK_DEADLOCK FALSE
INVARIANTS
    FinishedIsComplete
