\* Two threads on a market path and a plain path, with delays that cross.
SPECIFICATION Spec
CONSTANTS
    Caller = {c1, c2}
    Path = {markets, orders}
    MarketPath = {markets}
    Interval = 1
    Spacing = 2
    Delay <- Delays
    MaxTime = 3
    MaxCooldown = 2
SYMMETRY Threads
\* The clock stops at its bound.
CHECK_DEADLOCK FALSE
INVARIANTS TypeOK RequestsSpaced CooldownsKept NobodyOversleeps
