SPECIFICATION Spec
CONSTANTS
    Procs = {p1}
    NUM_FD = 8
    BLOCK = 2
    num_of_blocks = 5
    NAME = 2
    Dentries <- BadDirectory
    Inodes <- BadInodes
    Names <- BadNames
    Counts = {1, 2, 3}
    WORD = 65536
INVARIANTS
    DataFromImage
