\* Close called while other goroutines are inside Subscribe or Unsubscribe.
CONSTANTS
    Clients <- MCClients
    Groups <- MCGroups
    GroupOf <- MCGroupOf
    ErrIfExists <- MCErrIfExists
    MaxCalls = 2
    MaxChans = 4
SPECIFICATION Spec
INVARIANT NoSendOnClosed
