\* Two lines of one market.
SPECIFICATION LiveSpec
CONSTANTS
    Event = {1}
    Key = {"a", "b"}
    Market = {"m", "n"}
    Line = {1, 2}
    Slot = {1}
    Scope = {1, 2}
    Lined = {1, 2}
    Price = {100}
    Qty = {1}
    Thread = {t1, t2}
    KeyEvent <- AllEvent1
    MarketEvent <- MarketsEvent1
    ScopeEvent <- ScopesEvent1
    LineMarket <- SameMarket
    NoKey = "none"
    Updates <- Published
    Bodies <- RestBodies
    Modes <- LinesInOrder
    SlotKey <- TwoLines
    KeyScope <- OwnScope
    RefreshWhen = {"up", "lost"}
    MayEmpty = TRUE
    MaxChange = 3
    MaxReceive = 3
    MaxReconcile = 2
    MaxEpoch = 2
SYMMETRY Threads
\* The exchange makes a bounded number of changes, and then all is still.
CHECK_DEADLOCK FALSE
PROPERTIES RestIsBase
