SPECIFICATION Spec
CONSTANTS
    Procs = {p1}
    NUM_FD = 4
    BLOCK = 2
    num_of_blocks = 5
    NAME = 2
    Dentries <- SmallDirectory
    Inodes <- SmallInodes
    Names <- SmallNames
    Counts <- SmallCounts
    WORD = 65536
INVARIANTS
    PosWithinFile
PROPERTIES
    ImplementsFileReads
