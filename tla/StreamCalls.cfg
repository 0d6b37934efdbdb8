\* Two calls at a time, over three changes of the subscription.
SPECIFICATION Spec
CONSTANTS
    Event = {e1, e2}
    Caller = {c1, c2}
    MaxWorker = 2
    MaxGeneration = 3
    MaxFailure = 0
SYMMETRY Interchangeable
\* A stream that was closed stands still.
CHECK_DEADLOCK FALSE
INVARIANTS TypeOK ReadyMeansSubscribed LossIsNoticed CurrentSocketStaysOpen StoppedIsDisconnected
PROPERTIES ReplacedIsHarmless
