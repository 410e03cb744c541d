CONSTANTS
    Images <- MCImages
    BinBlocks = 1
    ReservedBlocks = 1
    OtaBlocks = 2
    SectorBlocks = 1
    MaxInvalid = 1
    MaxContinue = 1
    CounterMod = 2
    QueueSlots = 1
    FirstVersion <- MCFirstVersion
    Broken = Broken
    Erased = Erased
    Garbage = Garbage
    Nothing = Nothing
    Faults = {"corrupt", "stop", "end", "clear", "restart", "lost", "power"}
    Repeated <- MCRepeated
    MaxEvents = 2
SPECIFICATION FairSpec
INVARIANTS TypeOK MaskBacked NeverBroken ReportedImageIntact
CHECK_DEADLOCK FALSE
PROPERTIES UpgradesAsPromised TimerGoesOff Upgraded
