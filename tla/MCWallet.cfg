\* Enough keys for an account, its recovery on the other phone, and one more.
CONSTANTS
    d1 = d1
    d2 = d2
    Devices <- TwoDevices
    MaxKeys = 3
    MaxFaults = 1
SPECIFICATION Spec
SYMMETRY DeviceSymmetry
CHECK_DEADLOCK FALSE
INVARIANTS
    KeyFits
    WordKept
PROPERTIES
    OnlyGivenUp
