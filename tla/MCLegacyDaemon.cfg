\* The multi_service example: a server running once, a poller running
\* until stopped; signals, notifications and listen failures from outside.
CONSTANTS
    Services <- MCServices
    ServiceOrder <- MCOrder
    Runner <- MCRunner
    Policy <- MCPolicy
    MaxPollCount = 1
SPECIFICATION Spec
INVARIANT TypeOK
INVARIANT StopExactlyOnce
INVARIANT LogStopAfterServices
PROPERTY DaemonReturns
\* daemon.Start returns; and with a signal lost, a service may wait for
\* ever on a notification that does not come.
CHECK_DEADLOCK FALSE
