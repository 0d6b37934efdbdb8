\* One event, one thread: what the journal of feed writes preserves.
SPECIFICATION Spec
CONSTANTS
    Event = {1}
    Key <- JournalKey
    Market = {"m"}
    Line = {1}
    Slot = {1, 2}
    Scope = {"moneyline", "line"}
    Lined = {"line"}
    Price = {100, 120}
    Qty = {1, 2}
    Thread = {t1}
    KeyEvent <- JournalKeyEvent
    MarketEvent <- JournalMarketEvent
    ScopeEvent <- JournalScopeEvent
    LineMarket <- JournalLineMarket
    NoKey = "none"
    Updates <- JournalUpdates
    Bodies <- JournalBodies
    MaxReceive = 3
    MaxReconcile = 2
    MaxEpoch = 1
\* A cache that nobody calls any more stands still.
CHECK_DEADLOCK FALSE
INVARIANTS TypeOK LiveKeysKnown
PROPERTIES VersionsTellSnapshots FeedWritesSurvive RestIsBase
