SPECIFICATION Spec
CONSTANTS
    MAX_TERM = 3
    NUM_TOTAL_PROC = 4
    NULL = NULL
    Commands = {"elf", "bad", "clear"}
    TickAt = {"boot", "user", "io", "return", "spin", "fault", "exec", "load", "setup", "launch"}
    CtrlCAt = {"user", "io", "return", "exec"}
    MAX_DEPTH = 1
INVARIANTS
    SafetyInv
