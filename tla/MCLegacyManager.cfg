\* Two services, every response a callback can give.
CONSTANTS
    Services <- MCServices
    ServiceOrder <- MCOrder
    Policy <- MCPolicy
    Responses <- MCResponses
SPECIFICATION Spec
INVARIANT TypeOK
INVARIANT CompleteAfterAllReturned
PROPERTY ShutdownReachesAll
\* The manager stops when every service has returned, or when a close
\* panics; a service looping on a Done context stutters.
CHECK_DEADLOCK FALSE
