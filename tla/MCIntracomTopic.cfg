\* Two clients with groups of their own, buffers of one, two messages.
CONSTANTS
    Clients <- MCClients
    Groups <- MCGroups
    GroupOf <- OwnGroup
    ErrIfExists = FALSE
    BufferSize = 1
    MaxPublish = 2
    MaxSubs = 3
SPECIFICATION Spec
INVARIANT TypeOK
INVARIANT DeliveryOrder
PROPERTY LatestDelivered
\* The broadcaster blocks on publishC once MaxPublish messages were sent
\* and clients stop once their subscriber instances are used up.
CHECK_DEADLOCK FALSE
