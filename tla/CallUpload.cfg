SPECIFICATION FairSpec
CONSTANTS
    Upload = {u1, u2}
    Client = {c1}
    Inputs <- MCInputs
    SaveModes = {TRUE, FALSE}
    MaxBytes = 5
    Faults = {"stt", "db", "commit", "unlink"}
    MaxFaults = 2
    MaxCrashes = 1
    MaxRequests = 1
    Edited = Edited
    None = None
    BlockSize = 2
    KeyFiles = {k1, NoKey}
    NoKey = NoKey
    NoDigest = NoDigest
    OwnKey = k1
    OtherKey = k2
    Keys = {k1, k2}
INVARIANT TypeOK
INVARIANT RowIsOfItsRecording
INVARIANT ListedAudioPlays
INVARIANT NothingIsKept
INVARIANT CallEndsAfterItStarts
INVARIANT AnswerIsRecorded
PROPERTY UploadIsAnswered
 
CHECK_DEADLOCK FALSE
