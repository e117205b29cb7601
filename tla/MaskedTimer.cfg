SPECIFICATION FairSpec
CONSTANTS
    MAX_TERM = 2
    NUM_TOTAL_PROC = 3
    NULL = NULL
    Commands = {"elf", "bad"}
    TickAt <- ShieldedTicks
    CtrlCAt = {}
    MAX_DEPTH = 1
PROPERTIES
    EveryTerminalRuns
