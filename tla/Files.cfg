SPECIFICATION RunningSpec
CONSTANTS
    Tasks <- OneTask
    MaxRuns = 2
    MaxPics = 1
    PicsUpTo <- TinySets
    Folder <- OwnFolder
    ScanLimit = 2
    BusyLimit = 1
    DownloadLimit = 1
    UserOps = {"add", "redownloadForce", "deleteFiles", "stopAndDelete", "finishAll", "clearFolder", "clearCategory", "clearRoot", "clearDataFiles", "removeSelected", "addAgainForce"}
    Faults = {"page", "source"}
    MaxCrashes = 0
CHECK_DEADLOCK FALSE
PROPERTIES
    DeletedStaysDeleted
