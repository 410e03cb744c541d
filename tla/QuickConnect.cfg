\* Two frequencies and two modes, four commands of any kind.
SPECIFICATION FairSpec
CONSTANTS
    f1 = f1
    f2 = f2
    m1 = m1
    m2 = m2
    Freqs = {f1, f2}
    Modes = {m1, m2}
    Networks <- MCNetworks
    MaxCommands = 4
    MaxLost = 1
INVARIANTS
    TypeOK
    OnceAfterStop
    StopCloses
PROPERTIES
    InitOnlyClosed
    Joins
    Tuned
