SPECIFICATION RunningSpec
CONSTANTS
    Tasks <- OneTask
    MaxRuns = 2
    MaxPics = 2
    PicsUpTo <- SmallSets
    Folder <- OwnFolder
    ScanLimit = 2
    BusyLimit = 1
    DownloadLimit = 1
    UserOps = {"add", "cancelAll", "redownload", "delete", "restartAll", "clearData", "addAgain"}
    Faults = {}
    MaxCrashes = 0
CHECK_DEADLOCK FALSE
INVARIANTS
    PipelineInv
PROPERTIES
    KeepsLibrary
