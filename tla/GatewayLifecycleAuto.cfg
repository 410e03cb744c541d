CONSTANTS
    t1 = t1
    t2 = t2
    Tasks <- MCTasks
    Manager = Manager
    AutoConnect = TRUE
    QueueSlots = 2
    AuthAttempts = 3
    MaxLost = 1
    OutOfMemory = TRUE
SPECIFICATION Spec
INVARIANTS ReleaseWaits
