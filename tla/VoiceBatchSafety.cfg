\* The watcher and a command-line run, every kind of failure, two names
\* with one stem.
CONSTANTS
    watch = watch
    cli = cli
    a = a
    b = b
    s = s
    t = t
    None = None
    NoLimit = NoLimit
    Worker = {watch, cli}
    Watcher = {watch}
    Limit <- WatchAndCli
    Rec = {a, b}
    Name <- TwoNames
    NameOf <- DistinctTwo
    Stem = {s, t}
    StemOf <- SharedStem
    MaxTime = 1
    Faults = {"stt", "text", "move", "db", "db_unknown", "lock_open", "lock_write", "unlock", "quarantine", "crash"}
SPECIFICATION Spec
INVARIANT TypeOK
INVARIANT LockExclusion
INVARIANT NothingLost
INVARIANT RowMatchesAudio
INVARIANT NoDuplicateRow
PROPERTY RefinesLifecycle
