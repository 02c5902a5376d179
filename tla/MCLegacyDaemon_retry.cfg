\* The poller under RetryUntilSuccessPolicy: Stop runs twice.
CONSTANTS
    Services <- MCServices
    ServiceOrder <- MCOrder
    Runner <- MCRunner
    Policy <- MCRetryPolicy
    MaxPollCount = 1
SPECIFICATION Spec
INVARIANT StopExactlyOnce
\* daemon.Start returns; and with a signal lost, a service may wait for
\* ever on a notification that does not come.
CHECK_DEADLOCK FALSE
