SPECIFICATION Spec
CONSTANTS
    MaxProcesses = 3
    IdWord = 6
    MaxId = 5
    TickWord = 2
    MaxThreads = 4
    MaxThreadId = 6
    HeapSize = 64
    HeapWord = 128
    Requests = {0, 1, 15, 16, 17, 32, 63, 64, 65, 100, 127}
    Names = {"/", "etc", "home", "x63"}
    LongNames = {"x64", "x65"}
    Cut <- CutNames
    NoName = ""
    MaxNodes = 4
    DeskSlots = 3
    Screens <- SomeScreens
    Cascade = 2
    MaxDeskId = 5
INVARIANTS ProcessTableSound ThreadTableSound BlocksDisjoint DesktopSound
PROPERTIES EachIsTicked NoOvertaking DirectoryKept
CHECK_DEADLOCK FALSE
