-------------------------- MODULE MCIntracomTopicReq --------------------------
EXTENDS IntracomTopicReq

\* Two clients sharing one consumer group: each may read the channel the
\* other's Subscribe created, and unsubscribe it from under the other.
MCClients == {"c1", "c2"}
MCGroups == {"g1"}
MCGroupOf == [c \in MCClients |-> "g1"]
\* c1 subscribes with ErrIfExists, c2 without.
MCErrIfExists == [c \in MCClients |-> c = "c1"]

====
