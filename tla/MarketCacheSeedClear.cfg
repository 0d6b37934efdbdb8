\* A thread seeds an event that another thread clears.
SPECIFICATION Spec
CONSTANTS
    Event = {1, 2}
    Key <- FenceKey
    Market = {}
    Line = {}
    Slot = {1}
    Scope = {"moneyline"}
    Lined = {}
    Price = {100}
    Qty = {1}
    Thread = {t1, t2}
    KeyEvent <- FenceKeyEvent
    MarketEvent <- FenceMarketEvent
    ScopeEvent <- FenceScopeEvent
    LineMarket <- FenceLineMarket
    NoKey = "none"
    Updates <- FenceUpdates
    Bodies <- FenceBodies
    MaxReceive = 0
    MaxReconcile = 2
    MaxEpoch = 1
SYMMETRY Threads
\* A cache that nobody calls any more stands still.
CHECK_DEADLOCK FALSE

PROPERTIES ClearForgetsSeed
