SPECIFICATION FairSpec
CONSTANTS
    MAX_TERM = 2
    NUM_TOTAL_PROC = 3
    NULL = NULL
    Commands = {"elf", "clear"}
    TickAt <- ShieldedTicks
    CtrlCAt = {}
    MAX_DEPTH = 1
PROPERTIES
    EveryTerminalRuns
    HaltReturns
