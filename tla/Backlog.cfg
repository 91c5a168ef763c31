SPECIFICATION ResumedSpec
CONSTANTS
    Tasks <- OneTask
    MaxRuns = 5
    MaxPics = 0
    PicsUpTo <- EmptySets
    Folder <- OwnFolder
    ScanLimit = 2
    BusyLimit = 1
    DownloadLimit = 1
    UserOps = {"add", "addAgain"}
    Faults = {}
    MaxCrashes = 0
CHECK_DEADLOCK FALSE
INVARIANTS
    ScanBacklogIsBounded
