\* Two clients subscribing as one consumer group (ErrIfExists false, as every
\* watcher in service_context.go does), no Close.
CONSTANTS
    Clients <- MCClients
    Groups <- MCGroups
    GroupOf <- SharedGroup
    ErrIfExists = FALSE
    BufferSize = 1
    MaxPublish = 1
    MaxSubs = 2
SPECIFICATION Spec
INVARIANT GroupHasOneChannel
CHECK_DEADLOCK FALSE
