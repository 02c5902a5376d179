\* startService's exit path and shutdown race on the unlocked isShutdown test.
CONSTANTS
    Services <- MCServices
    ServiceOrder <- MCOrder
    Policy <- MCPolicy
    Responses <- MCResponses
SPECIFICATION Spec
INVARIANT ShutdownClosedOnce
CHECK_DEADLOCK FALSE
