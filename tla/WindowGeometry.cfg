SPECIFICATION Spec
CONSTANTS
    MaxWindows = 1
    ScreenW = 1024
    ScreenH = 768
    MaxId = 2
    ZWord = 3
    MaxZ = 3
    Coords <- EdgeCoords
    Extents <- EdgeExtents
    Sides = {"Left", "Right", "Top", "Bottom"}
INVARIANTS OnScreen ModeIsRegion ControlsReachable
PROPERTY GeometryRemembered
CHECK_DEADLOCK FALSE
