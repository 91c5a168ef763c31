SPECIFICATION Spec
CONSTANTS
    Tasks <- OneTask
    MaxRuns = 2
    MaxPics = 2
    PicsUpTo <- SmallSets
    Folder <- OwnFolder
    ScanLimit = 2
    BusyLimit = 1
    DownloadLimit = 1
    UserOps = {"add"}
    Faults = {"picture", "folder", "source", "urlList"}
    MaxCrashes = 1
CHECK_DEADLOCK FALSE
INVARIANTS
    TypeOK
    FinishedIsOnDisk
    LastPictureIsSeen
    StartedIsWorkedOn
    FinishedIsComplete
