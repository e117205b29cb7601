SPECIFICATION Spec
CONSTANTS
    Procs = {p1, p2}
    Readers = {p1}
    Freqs <- EveryFreq
    Calls = {"open", "write", "key", "kill"}
    OpenAt <- CodePoints
INVARIANTS
    TypeOK
    RateAsAsked
