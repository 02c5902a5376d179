-------------------------- MODULE MCIntracomTopic --------------------------
(***************************************************************************)
(* Model-checking instance of IntracomTopic.                               *)
(***************************************************************************)
EXTENDS IntracomTopic

MCClients == {"c1", "c2"}
MCGroups == {"g1", "g2"}

\* Each client subscribes as a group of its own.
OwnGroup == [c \in MCClients |-> IF c = "c1" THEN "g1" ELSE "g2"]

\* Both clients subscribe as the same group (one service issuing one watch twice).
SharedGroup == [c \in MCClients |-> "g1"]
=============================================================================
