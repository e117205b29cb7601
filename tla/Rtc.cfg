SPECIFICATION FairSpec
CONSTANTS
    Procs = {p1, p2}
    Readers = {p1}
    Freqs = {2}
    Calls = {"open", "write"}
    OpenAt <- ShieldedPoints
INVARIANTS
    ServedByOne
    ClockAlive
    ReadAwaitsTick
PROPERTIES
    ReadReturns
