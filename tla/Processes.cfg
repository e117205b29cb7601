SPECIFICATION Spec
CONSTANTS
    MAX_TERM = 2
    NUM_TOTAL_PROC = 4
    NULL = NULL
    Commands = {"elf", "bad", "clear"}
    TickAt <- ShieldedTicks
    CtrlCAt <- ShieldedCtrlC
    MAX_DEPTH = 1
INVARIANTS
    TypeOK
    ScheduledDistinct
    SuspendedBusy
    SuspendedIntact
    CurrentIntact
    ParentWaits
    SlotsAccounted
    NoFault
PROPERTIES
    ReleasedByOwner
    ImplementsStacks
