\* A ring of three, two pins, and any number of interruptions.
SPECIFICATION FairSpec
CONSTANTS
    Size = 3
    Pins = {2, 3}
    StaticPin = 2
    Widths = {0, 50}
    MaxMessages = 4
    MaxCommands = 2
INVARIANTS
    TypeOK
    PulseEnds
PROPERTIES
    RingIsLog
    NotTwice
    StoredIsRead
