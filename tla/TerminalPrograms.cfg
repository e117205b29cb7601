SPECIFICATION FairSpec
CONSTANTS
    NUM_COLS = 2
    NUM_ROWS = 2
    MAX_TERM = 2
    BUF_SIZE = 1
    Scancodes = {30, 28, 29, 46, 56, 58, 60}
    Counts = {1}
    Texts <- Newlines
    ARCHITECT <- Refusal
    Calls = {"clear", "child"}
    OpenAt <- ShieldedPoints
    MAX_ROW = 2
INVARIANTS
    OpenHasRoom
PROPERTIES
    ReadReturns
    ImplementsLineInput
