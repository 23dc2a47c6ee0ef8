\* Two jobs, under the same name or different ones, and two deletions of a call; the process does
\* not stop.
CONSTANTS
    creator = creator
    deleter = deleter
    None = None
    Full = Full
    Client = {creator, deleter}
    Operations <- TwoDeleters
    Call = {x}
    Segment = {s1}
    Cut = {c1}
    Text = {t1}
    MaxCreates = 1
    StoreFaults = {"db", "unlink"}
    Job = {j1, j2}
    ModelName = {m1, m2}
    JobFaults = {"container", "evaluate", "db"}
SPECIFICATION FairSpec
 
INVARIANT CompletedHasItsModel
PROPERTY JobEnds
CHECK_DEADLOCK FALSE
