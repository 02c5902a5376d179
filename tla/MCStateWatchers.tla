--------------------------- MODULE MCStateWatchers ---------------------------
(***************************************************************************)
(* Model-checking instance of StateWatchers over two services a and b.     *)
(***************************************************************************)
EXTENDS StateWatchers

MCWatches == {"w1", "w2"}
MCGroups == {"g1", "g2"}

\* Two watches of one service, each its own consumer group:
\* w1 = WatchAllServices(Entering, Run, "a", "b"),
\* w2 = WatchAnyServices(Exiting, Init, "a", "b").
OwnGroups == [w \in MCWatches |-> IF w = "w1" THEN "g1" ELSE "g2"]
MCKind == [w \in MCWatches |-> IF w = "w1" THEN "all" ELSE "any"]
MCAction == [w \in MCWatches |-> IF w = "w1" THEN "Entering" ELSE "Exiting"]
MCTarget == [w \in MCWatches |-> IF w = "w1" THEN "Run" ELSE "Init"]
MCNames == [w \in MCWatches |-> <<"a", "b">>]
MCFilterMode == [w \in MCWatches |-> "None"]
MCFilterNames == [w \in MCWatches |-> {}]
NoOrder == [w \in MCWatches |-> {}]

\* b is still initialising, then both run.
TwoSnapshots == << [n \in {"a", "b"} |-> IF n = "a" THEN "Run" ELSE "Init"],
                   [n \in {"a", "b"} |-> "Run"] >>

\* Re-watching: WatchAllStates({Mode: Include, Names: {a}}) cancelled, then
\* the same call made again by the same service: the same consumer group.
ReWatches == {"w1", "w2"}
SameGroup == [w \in ReWatches |-> "g1"]
ReKind == [w \in ReWatches |-> "states"]
ReAction == [w \in ReWatches |-> "Entering"]
ReTarget == [w \in ReWatches |-> "Run"]
ReNames == [w \in ReWatches |-> <<"a">>]
ReFilterMode == [w \in ReWatches |-> "Include"]
ReFilterNames == [w \in ReWatches |-> {"a"}]
SecondAfterFirst == [w \in ReWatches |-> IF w = "w2" THEN {"w1"} ELSE {}]
OneSnapshot == << [n \in {"a", "b"} |-> "Run"] >>
=============================================================================
