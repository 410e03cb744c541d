CONSTANTS
    t1 = t1
    t2 = t2
    Tasks <- MCTasks
    Manager = Manager
    AutoConnect = FALSE
    QueueSlots = 2
    AuthAttempts = 2
    MaxLost = 0
    OutOfMemory = TRUE
SPECIFICATION FairSpec
INVARIANTS TypeOK ConnectedServed
PROPERTIES EndReturns HandlersLeave
