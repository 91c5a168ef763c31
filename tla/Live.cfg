SPECIFICATION FairWaitingSpec
CONSTANTS
    Tasks <- FourTasks
    MaxRuns = 4
    MaxPics = 1
    PicsUpTo <- LastEmpty
    Folder <- OwnFolder
    ScanLimit = 2
    BusyLimit = 1
    DownloadLimit = 1
    UserOps = {"add"}
    Faults = {}
    MaxCrashes = 0
CHECK_DEADLOCK FALSE
PROPERTIES
    EveryTaskFinishes
    EveryTaskIsScanned
