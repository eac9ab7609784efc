SPECIFICATION FairSpec
CONSTANTS
    Events = {e1, e2}
    Workers = {w1, w2}
    BatchSize = 1
    MaxRetries = 2
    MaxFaults = 2
INVARIANTS
    DlqMatchesOutbox
PROPERTIES
    OnlyLatestClaimReports
    EveryEventResolved
CHECK_DEADLOCK FALSE
