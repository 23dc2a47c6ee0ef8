\* The watcher is killed at work and started again.
CONSTANTS
    watch = watch
    cli = cli
    a = a
    b = b
    s = s
    t = t
    None = None
    NoLimit = NoLimit
    Worker = {watch}
    Watcher = {watch}
    Limit <- WatchOnly
    Rec = {a, b}
    Name <- TwoNames
    NameOf <- DistinctTwo
    Stem = {s, t}
    StemOf <- OwnStem
    MaxTime = 1
    Faults = {"crash"}
SPECIFICATION FairSpec
PROPERTY WaitingIsPickedUp
