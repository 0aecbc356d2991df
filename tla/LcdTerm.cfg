SPECIFICATION Spec
CONSTANTS
    Cols = 3
    Rows = 2
    LINEBUF_MAX = 3
    Codes = {8, 65}
    Packets = TRUE
INVARIANTS OneCursor BottomRow LineShown EveryKeyTaken
PROPERTIES TextSuspended
