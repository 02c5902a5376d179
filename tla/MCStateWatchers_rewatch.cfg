\* A watch cancelled and the same watch made again: one consumer group.
CONSTANTS
    Watches <- ReWatches
    Groups <- MCGroups
    GroupOf <- SameGroup
    Kind <- ReKind
    Action <- ReAction
    Target <- ReTarget
    Names <- ReNames
    FilterMode <- ReFilterMode
    FilterNames <- ReFilterNames
    Before <- SecondAfterFirst
    Snapshots <- OneSnapshot
    MaxPublish = 1
    MaxSubs = 2
SPECIFICATION Spec
INVARIANT NoStaleEmission
CHECK_DEADLOCK FALSE
