SPECIFICATION Spec
CONSTANTS
    NUM_COLS = 2
    NUM_ROWS = 2
    MAX_TERM = 2
    BUF_SIZE = 2
    Scancodes = {30, 28, 14, 29, 38, 42, 56, 59, 60}
    Counts = {1}
    Texts <- Prompts
    ARCHITECT <- Refusal
    Calls = {}
    OpenAt <- ShieldedPoints
    MAX_ROW = 2
INVARIANTS
    TypeOK
    CursorRight
PROPERTIES
    ImplementsLineInput
