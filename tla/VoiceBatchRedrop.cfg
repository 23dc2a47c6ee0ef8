\* One worker; a name that is used again.
CONSTANTS
    watch = watch
    cli = cli
    a = a
    b = b
    s = s
    t = t
    None = None
    NoLimit = NoLimit
    Worker = {watch}
    Watcher = {watch}
    Limit <- WatchOnly
    Rec = {a, b}
    Name <- OneName
    NameOf <- SameName
    Stem = {s, t}
    StemOf <- OneStem
    MaxTime = 2
    Faults = {"stt", "text", "move", "db", "crash"}
SPECIFICATION Spec
INVARIANT NothingLost
INVARIANT RowMatchesAudio
INVARIANT RowHasTranscript
