\* One call at a time and a failing network: is a lost feed noticed, and does a stream
\* that was started get ready?
SPECIFICATION FairSpec
CONSTANTS
    Event = {e1, e2}
    Caller = {c1}
    MaxWorker = 2
    MaxGeneration = 2
    MaxFailure = 1
\* A stream that was closed stands still.
CHECK_DEADLOCK FALSE
INVARIANTS LossIsNoticed
PROPERTIES EventuallyReady CancelledEnds
