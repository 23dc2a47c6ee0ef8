\* Two clients correct the same segment, and one deletes, while a job runs; every kind of failure.
CONSTANTS
    creator = creator
    deleter = deleter
    None = None
    Full = Full
    Client = {creator, deleter}
    Operations <- TwoCreators
    Call = {x}
    Segment = {s1}
    Cut = {c1}
    Text = {t1}
    MaxCreates = 3
    StoreFaults = {"db", "ffmpeg", "unlink"}
    Job = {j1}
    ModelName = {m1}
    JobFaults = {"docker", "container", "evaluate", "db", "crash"}
SPECIFICATION Spec
INVARIANT TypeOK
INVARIANT QueuedWithinCreators
INVARIANT UsedIsFromAJob
INVARIANT CompletedMarksAll
CHECK_DEADLOCK FALSE
