SPECIFICATION BootSpec
CONSTANTS
    MaxInterfaces = 2
    MaxDevices = 3
    Kinds = {"rtl8139", "virtio", "other"}
    BusSlots = 2
    Functions = 3
    MaxPresent = 4
    HaltPolls = 3
    ResetPolls = 3
    RunPolls = 3
INVARIANT ReportExact
PROPERTIES ProbeEnds EnumerationComplete BringUpSticks RunsWhenReset
