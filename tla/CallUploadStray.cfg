SPECIFICATION Spec
CONSTANTS
    Upload = {u1}
    Client = {c1}
    Inputs <- MCInputs
    KeyFiles = {k1}
    SaveModes = {FALSE}
    MaxBytes = 5
    Faults = {}
    MaxFaults = 0
    MaxCrashes = 0
    MaxRequests = 0
    Edited = Edited
    None = None
    BlockSize = 2
    NoKey = NoKey
    NoDigest = NoDigest
    OwnKey = k1
    OtherKey = k2
    Keys = {k1, k2}
INVARIANT UploadIsNotKept
CHECK_DEADLOCK FALSE
