\* Close racing Subscribe and Unsubscribe calls, with timeouts at any point.
CONSTANTS
    Clients <- MCClients
    Groups <- MCGroups
    GroupOf <- MCGroupOf
    ErrIfExists <- MCErrIfExists
    MaxCalls = 2
    MaxChans = 4
SPECIFICATION Spec
INVARIANT TypeOK
INVARIANT CloseClosesAll
PROPERTY CallsReturn
\* Every client stops after MaxCalls calls and Close is one-shot, so the
\* topic reaches a final state; a panic also ends the program.
CHECK_DEADLOCK FALSE
