\* The client refreshes while the stream is down.
SPECIFICATION LiveSpec
CONSTANTS
    Event = {1}
    Key = {"a", "b"}
    Market = {"m", "n"}
    Line = {1}
    Slot = {1, 2}
    Scope = {1, 2}
    Lined = {}
    Price = {100}
    Qty = {1}
    Thread = {t1, t2}
    KeyEvent <- AllEvent1
    MarketEvent <- MarketsEvent1
    ScopeEvent <- ScopesEvent1
    LineMarket <- OneLineMarket
    NoKey = "none"
    Updates <- Published
    Bodies <- RestBodies
    Modes <- JustByPrice
    SlotKey <- OneLine
    KeyScope <- SameScope
    RefreshWhen = {"up", "lost", "down"}
    MayEmpty = TRUE
    MaxChange = 2
    MaxReceive = 2
    MaxReconcile = 2
    MaxEpoch = 2
SYMMETRY Threads
\* The exchange makes a bounded number of changes, and then all is still.
CHECK_DEADLOCK FALSE
INVARIANTS Converged
