SPECIFICATION Spec
CONSTANTS
    MAX_TERM = 1
    NUM_TOTAL_PROC = 2
    NULL = NULL
    Commands = {"elf"}
    TickAt <- ShieldedTicks
    CtrlCAt = {}
    MAX_DEPTH = 20
INVARIANTS
    StackClearOfPcb
