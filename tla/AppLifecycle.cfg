SPECIFICATION Spec
CONSTANTS
    files = files
    notes = notes
    browser = browser
    Apps <- SomeApps
    NetApps <- OnlineApps
    MaxRunning = 2
    MaxRuntime = 3
    MaxProcesses = 2
    MaxSurfaces = 3
    MaxWindows = 2
    MaxWindowId = 3
    IdWord = 100
    MaxId = 4
    TickWord = 1
INVARIANTS RegistriesCoupled NoProcessLeak ManagerAgreesWithRuntime
PROPERTIES SuccessIsVisible FailureLeavesNothing CloseTakesOwnWindow SurfaceFocusKept
SYMMETRY Alike
CHECK_DEADLOCK FALSE
