SPECIFICATION RunningSpec
CONSTANTS
    Tasks <- TwoTasks
    MaxRuns = 4
    MaxPics = 1
    PicsUpTo <- TinySets
    Folder <- OwnFolder
    ScanLimit = 2
    BusyLimit = 0
    DownloadLimit = 1
    UserOps = {"add", "delete"}
    Faults = {}
    MaxCrashes = 0
CHECK_DEADLOCK FALSE
INVARIANTS
    DeletedIsNotScanned
