SPECIFICATION Spec
CONSTANTS
    MAX_TERM = 2
    NUM_TOTAL_PROC = 3
    NULL = NULL
    Commands = {"elf", "bad", "empty", "clear"}
    TickAt <- Labels
    CtrlCAt <- Labels
    MAX_DEPTH = 1
INVARIANTS
    ExecuteNotPreempted
