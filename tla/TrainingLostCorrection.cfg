\* A segment is corrected again while a job runs.
CONSTANTS
    creator = creator
    deleter = deleter
    None = None
    Full = Full
    Client = {creator}
    Operations <- CreateOnly
    Call = {x}
    Segment = {s1}
    Cut = {c1}
    Text = {t1, t2}
    MaxCreates = 2
    StoreFaults = {}
    Job = {j1}
    ModelName = {m1}
    JobFaults = {}
SPECIFICATION Spec
INVARIANT UsedTextWasLearned
CHECK_DEADLOCK FALSE
