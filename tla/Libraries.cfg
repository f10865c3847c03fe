SPECIFICATION LSpec
CONSTANTS
    MaxEntries = 4
    Values = {"n", "native", "web", "bogus", "yes", "p", "p.pea", "q.exe"}
    ExtensionOf <- MCExtensionOf
    Lines <- MCAllLines
    MaxText = 6
    Disks <- MCDisks
    Paths = {"p.pea", "q.exe", "p"}
    Certs <- MCCerts
    NoCert = NoCert
    Validity = 4
    MaxTime = 6
INVARIANTS AgreesWithParser HeldIsFlagsOfOne TrustedIsSound FailClosed BuildHasHost
PROPERTY ResultIsTold
