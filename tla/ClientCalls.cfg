\* Two threads that make most calls while tokens age and are revoked.
SPECIFICATION FairSpec
CONSTANTS
    Caller = {c1, c2}
    Call <- MostCalls
    MaxRetry = 1
    MaxToken = 3
    Nobody = Nobody
\* The threads make one call each.
CHECK_DEADLOCK FALSE
INVARIANTS TypeOK CarriedOnce OutcomeTruthful SendsBounded RetryCarriesAnotherToken
PROPERTIES RenewedWhenNeeded EveryCallEnds
