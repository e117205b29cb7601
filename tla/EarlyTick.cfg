SPECIFICATION Spec
CONSTANTS
    Procs = {p1, p2}
    Readers = {p1, p2}
    Freqs = {2}
    Calls = {"key"}
    OpenAt <- CodePoints
INVARIANTS
    ReadAwaitsTick
