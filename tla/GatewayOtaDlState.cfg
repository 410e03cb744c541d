CONSTANTS
    Images <- MCImages
    BinBlocks = 1
    ReservedBlocks = 1
    OtaBlocks = 2
    SectorBlocks = 1
    MaxInvalid = 1
    MaxContinue = 1
    CounterMod = 256
    QueueSlots = 1
    FirstVersion <- MCFirstVersion
    Broken = Broken
    Erased = Erased
    Garbage = Garbage
    Nothing = Nothing
    Faults = {"corrupt"}
    Repeated = {}
    MaxEvents = 3
SPECIFICATION Spec
INVARIANT DownloadingReported
CHECK_DEADLOCK FALSE
