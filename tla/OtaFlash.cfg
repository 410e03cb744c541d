\* Two pages of two words each, an old image, and a power failure.
SPECIFICATION Spec
CONSTANTS
    Bits = {1, 2}
    Sector = 8
    FlashSize = 16
    Mod = 64
    Chunk = 5
    Contents <- oldContents
    EraseAreas <- images
    ReadAreas <- areas
    Starts <- starts
    Payloads <- blocks
    MaxCalls = 3
    MaxFailures = 1
INVARIANTS
    TypeOK
    WrittenExactly
    EraseCovers
    ReadBack
PROPERTIES
    NeighboursKept
    EraseOnly
