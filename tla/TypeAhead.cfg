SPECIFICATION Spec
CONSTANTS
    NUM_COLS = 3
    NUM_ROWS = 2
    MAX_TERM = 1
    BUF_SIZE = 2
    Scancodes = {30, 28}
    Counts = {2}
    Texts = {}
    ARCHITECT <- Refusal
    Calls = {}
    OpenAt <- CodePoints
    MAX_ROW = 2
INVARIANTS
    OnlyTyped
