SPECIFICATION Spec
CONSTANTS
    MaxInterfaces = 2
    MaxDevices = 3
    Kinds = {"rtl8139", "other"}
INVARIANT BootShowsCards
