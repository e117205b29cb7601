SPECIFICATION Spec
CONSTANTS
    NUM_COLS = 2
    NUM_ROWS = 2
    MAX_TERM = 2
    BUF_SIZE = 2
    Scancodes = {30, 28, 56, 60}
    Counts = {1}
    Texts = {}
    ARCHITECT <- Refusal
    Calls = {}
    OpenAt <- ShieldedPoints
    MAX_ROW = 2
INVARIANTS
    NeverTorn
