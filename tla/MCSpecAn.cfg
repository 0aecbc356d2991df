SPECIFICATION Spec
CONSTANTS
    Ch <- MCCh
    Levels <- MCLevels
    MAX_VSCROLL = 4
INVARIANTS BandKept StepBackUndoes OnAir HoldIsFresh BarExact PictureTrue
