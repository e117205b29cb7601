SPECIFICATION Spec
CONSTANTS
    NUM_COLS = 80
    NUM_ROWS = 24
    MAX_TERM = 1
    BUF_SIZE = 128
    Scancodes = {30}
    Counts = {}
    Texts <- Characters
    ARCHITECT <- Refusal
    Calls = {}
    OpenAt <- ShieldedPoints
    MAX_ROW = 24
INVARIANTS
    CursorOnScreen
