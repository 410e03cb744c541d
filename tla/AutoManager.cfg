\* Two subsystems, and every strategy of a scan.
SPECIFICATION FairSpec
CONSTANTS
    Freqs = {f1, f2, f3}
    Subsystems = {s1, s2}
    Strategies = {0, 1, 2}
    Rssi = {1, 2}
    MaxFails = 6
INVARIANTS
    TypeOK
    StrongestFirst
    ReaderMeetsWholeNodes
    ConnectsWhereHeard
PROPERTIES
    KeepsTrying
