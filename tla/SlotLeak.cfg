SPECIFICATION Spec
CONSTANTS
    MAX_TERM = 3
    NUM_TOTAL_PROC = 6
    NULL = NULL
    Commands = {"elf", "empty"}
    TickAt <- ShieldedTicks
    CtrlCAt = {}
    MAX_DEPTH = 1
INVARIANTS
    BusyHasProcess
