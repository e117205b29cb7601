SPECIFICATION Spec
CONSTANTS
    SLOTS = 3
    SCREEN = 9
    WORD = 4
    COLS = 3
    OFFSET = 1
    WAIT = 7
    FRAME_LEN = 2
    Extra <- ExtraBlinker
    Texts <- ShortTexts
    Blinkers <- SomeBlinkers
    Sites <- SomeSites
    Syncs <- SomeSyncs
INVARIANTS
    ListIsPool
    ScreenRight
PROPERTIES
    ImplementsBlinkList
    FishEnds
CHECK_DEADLOCK FALSE
