SPECIFICATION Spec
CONSTANTS
    MaxWindows = 3
    ScreenW = 280
    ScreenH = 180
    MaxId = 4
    ZWord = 100
    MaxZ = 8
    Coords <- OneCoord
    Extents <- OneExtent
    Sides = {"Left"}
INVARIANTS FocusAgrees FocusedIsTopmost
PROPERTY FocusOrderKept
CHECK_DEADLOCK FALSE
