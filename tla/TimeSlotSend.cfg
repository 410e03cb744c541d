\* Two senders, every frame reported, the slot changes once during a wait.
SPECIFICATION Spec
CONSTANTS
    Senders = {at, handler}
    Server = at
    Pof = 3
    Slots = {0, 1, 2}
    WokenUp = TRUE
    EveryFrame = TRUE
    Calm = TRUE
INVARIANTS
    TypeOK
    SentInSlot
    LoneSenderServed
