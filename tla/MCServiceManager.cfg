\* Two services, callbacks that return nil or an error, shutdown at any time.
CONSTANTS
    Services <- MCServices
    Outcomes = {"ok", "err"}
    MaxRuns = 2
SPECIFICATION Spec
INVARIANT TypeOK
INVARIANT StopExactlyOncePerCycle
PROPERTY CancelLeadsToExit
PROPERTY LifecycleRefinement
\* Once every manager has returned the daemon has nothing left to run.
CHECK_DEADLOCK FALSE
