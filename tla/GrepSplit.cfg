SPECIFICATION ProgramsSpec
CONSTANTS
    Procs = {1, 2}
    NUM_FD = 4
    BLOCK = 2
    num_of_blocks = 9
    Dentries <- Directory
    Inodes <- DiskInodes
    Names = {}
    Counts = {}
    WORD = 65536
    UINT = 256
    HEX = 2
    ALIGN = 3
    Shell = 1
    Child = 2
    LINE = 7
    SHELL_BUF = 10
    NAME = 3
    SPARE = 2
    ARGS = 6
    CAT_BUF = 4
    BUFSIZE = 3
    LIMITS <- SomeLimits
    Exit <- ExitName
    Clear <- Clear2
    Dot <- DotName
    Longer <- LongerName
    Shorter <- ShorterName
    Elf = 127
    ProgramAt <- Kinds
    Sessions <- AllSessions
    Answers <- SomeAnswers
    Stale = {10, 88}
    Messages <- SomeMessages
INVARIANT GrepAlways
CHECK_DEADLOCK FALSE
