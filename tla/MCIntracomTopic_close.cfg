\* Clients with groups of their own subscribing while the topic is closed.
CONSTANTS
    Clients <- MCClients
    Groups <- MCGroups
    GroupOf <- OwnGroup
    ErrIfExists = FALSE
    BufferSize = 1
    MaxPublish = 1
    MaxSubs = 2
SPECIFICATION Spec
INVARIANT CloseClosesAll
CHECK_DEADLOCK FALSE
