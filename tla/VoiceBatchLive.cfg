\* Failures of the processing itself; nothing crashes.
CONSTANTS
    watch = watch
    cli = cli
    a = a
    b = b
    s = s
    t = t
    None = None
    NoLimit = NoLimit
    Worker = {watch, cli}
    Watcher = {watch}
    Limit <- WatchAndCli
    Rec = {a, b}
    Name <- TwoNames
    NameOf <- DistinctTwo
    Stem = {s, t}
    StemOf <- OwnStem
    MaxTime = 1
    Faults = {"stt", "text", "move", "lock_open"}
SPECIFICATION FairSpec
INVARIANT NoLeakedLock
INVARIANT RowHasTranscript
PROPERTY EveryFileHandled
PROPERTY FinishedIsRecorded
PROPERTY RefinesFairLifecycle
