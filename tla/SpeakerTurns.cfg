SPECIFICATION Spec
CONSTANTS
    Recordings <- MCRecordings
    Diarizations <- MCDiarizations
    MergeGap = 180
    ContextGap = 280
    PauseGap = 320
    AckGap = 4000
    FragmentSpan = 480
    NearGap = 400
    ShortTurn = 480
    ShortText = 12
    RefineTurn = 320
    RefineText = 8
    RefineMargin = 3
    BurstSpan = 1000
    DenseSpan = 800
    DenseText = 30
    MCKinds = {"ivr", "greet", "yes", "okay", "info", "ask", "cust"}
    MCDoubleKinds = {"info", "agent", "cust"}
    MCStereoKinds = {"yes", "ask", "info", "cust"}
    MCGaps = {80, 240, 400}
INVARIANT TypeOK
INVARIANT SpokenOrder
INVARIANT ContentKept
INVARIANT ClipsAreDisjoint
INVARIANT OverlapWins
INVARIANT ClearRoleWins
INVARIANT MergedMaximally
CHECK_DEADLOCK FALSE
