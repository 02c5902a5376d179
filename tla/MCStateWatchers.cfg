\* WatchAllServices and WatchAnyServices, own consumer groups, two snapshots.
CONSTANTS
    Watches <- MCWatches
    Groups <- MCGroups
    GroupOf <- OwnGroups
    Kind <- MCKind
    Action <- MCAction
    Target <- MCTarget
    Names <- MCNames
    FilterMode <- MCFilterMode
    FilterNames <- MCFilterNames
    Before <- NoOrder
    Snapshots <- TwoSnapshots
    MaxPublish = 2
    MaxSubs = 2
SPECIFICATION Spec
INVARIANT TypeOK
INVARIANT EmittedSatisfiesWatch
PROPERTY LatestMatchEmitted
\* Every goroutine can end: watches return, the broadcaster waits on
\* publishC once the snapshots are out.
CHECK_DEADLOCK FALSE
