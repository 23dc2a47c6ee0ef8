\* A call is deleted while a segment of it is corrected.
CONSTANTS
    creator = creator
    deleter = deleter
    None = None
    Full = Full
    Client = {creator, deleter}
    Operations <- CreateAndDeleteCall
    Call = {x}
    Segment = {s1}
    Cut = {c1}
    Text = {t1}
    MaxCreates = 1
    StoreFaults = {}
    Job = {}
    ModelName = {}
    JobFaults = {}
SPECIFICATION Spec
INVARIANT DeletedClipsAreGone
CHECK_DEADLOCK FALSE
