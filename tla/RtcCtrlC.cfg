SPECIFICATION FairSpec
CONSTANTS
    Procs = {p1, p2}
    Readers = {p1}
    Freqs = {2}
    Calls = {"kill"}
    OpenAt <- CodePoints
PROPERTIES
    ReadReturns
