---------------------------- MODULE IntracomTopic ----------------------------
(***************************************************************************)
(* The intracom topic of src/intracom/topic.go: a subscriber map guarded   *)
(* by an RWMutex, an atomic `closed` flag, and one broadcaster goroutine   *)
(* that ranges over the publish channel and fans every message out to the  *)
(* subscribers registered at that moment, one goroutine per subscriber,    *)
(* waiting for all of them (wg.Wait) before taking the next message.       *)
(*                                                                         *)
(* Subscribers are instances 1..MaxSubs (newSubscriber); subscribers[g] is *)
(* the instance registered for consumer group g, 0 if none.  The           *)
(* subscriber type itself (newSubscriber, send, close) is not in src/; its *)
(* delivery follows spec 4.1 for BufferPolicy DropOldest, the policy every *)
(* caller in the repository uses.                                          *)
(*                                                                         *)
(* Clients are goroutines that Subscribe for their group GroupOf[c], read  *)
(* the returned channel until it is closed, and may Unsubscribe.  Every    *)
(* locked section is one step; the steps of a call are cut where the code  *)
(* releases the lock or reads `closed` outside it.                         *)
(***************************************************************************)
EXTENDS Naturals, Sequences, SequencesExt

CONSTANTS
    Clients,      \* goroutines using the topic
    Groups,       \* consumer group names
    GroupOf,      \* GroupOf[c]: the consumer group client c subscribes as
    ErrIfExists,  \* SubscriberConfig.ErrIfExists of every Subscribe call
    BufferSize,   \* SubscriberConfig.BufferSize
    MaxPublish,   \* bound: number of messages published (messages are 1..MaxPublish)
    MaxSubs       \* bound: number of subscriber instances ever created

ASSUME GroupOf \in [Clients -> Groups]
ASSUME ErrIfExists \in BOOLEAN
ASSUME BufferSize \in Nat \ {0} /\ MaxPublish \in Nat /\ MaxSubs \in Nat \ {0}

Subs == 1..MaxSubs
NoSub == 0

VARIABLES
    closed,       \* topic.closed (atomic.Bool)
    subscribers,  \* topic.subscribers: [Groups -> Subs \cup {NoSub}]
    nsubs,        \* subscriber instances created so far
    queue,        \* queue[i]: messages buffered in subscriber i's channel
    chClosed,     \* chClosed[i]: subscriber i's channel has been closed
    cpc,          \* cpc[c]: where client c is
    held,         \* held[c]: the subscriber channel client c reads, NoSub if none
    upc,          \* upc[c]: client c's Unsubscribe call, run by another goroutine
    bpc,          \* broadcaster: "recv" (ranging over publishC) or "wait" (wg.Wait)
    pending,      \* <<i, m>>: the send goroutine of message m to i has not finished
    published,    \* messages published so far
    closerPc,     \* the goroutine calling Close: "idle", "lock", "done", "again"
    sentTo,       \* history: sentTo[i] is the last message delivered to i's buffer
    recvd         \* history: recvd[i] is the last message read from i's channel

vars == <<closed, subscribers, nsubs, queue, chClosed, cpc, held, upc, bpc,
          pending, published, closerPc, sentTo, recvd>>

ClientPCs == {"idle", "sub_lookup", "sub_insert", "reading"}

Init ==
    /\ closed = FALSE
    /\ subscribers = [g \in Groups |-> NoSub]
    /\ nsubs = 0
    /\ queue = [i \in Subs |-> <<>>]
    /\ chClosed = [i \in Subs |-> FALSE]
    /\ cpc = [c \in Clients |-> "idle"]
    /\ held = [c \in Clients |-> NoSub]
    /\ upc = [c \in Clients |-> "idle"]
    /\ bpc = "recv"
    /\ pending = {}
    /\ published = 0
    /\ closerPc = "idle"
    /\ sentTo = [i \in Subs |-> 0]
    /\ recvd = [i \in Subs |-> 0]

-----------------------------------------------------------------------------
(* Subscribe(conf)                                                         *)

\* if t.closed.Load() { return error }
SubscribeCheckClosed(c) ==
    /\ cpc[c] = "idle"
    /\ cpc' = [cpc EXCEPT ![c] = IF closed THEN "idle" ELSE "sub_lookup"]
    /\ UNCHANGED <<closed, subscribers, nsubs, queue, chClosed, held, upc, bpc,
                   pending, published, closerPc, sentTo, recvd>>

\* Under RLock: an existing group is an error or its channel; else unlock.
SubscribeLookup(c) ==
    LET g == GroupOf[c] IN
    /\ cpc[c] = "sub_lookup"
    /\ IF subscribers[g] # NoSub
       THEN IF ErrIfExists
            THEN /\ cpc' = [cpc EXCEPT ![c] = "idle"]
                 /\ UNCHANGED held
            ELSE /\ cpc' = [cpc EXCEPT ![c] = "reading"]
                 /\ held' = [held EXCEPT ![c] = subscribers[g]]
       ELSE /\ cpc' = [cpc EXCEPT ![c] = "sub_insert"]
            /\ UNCHANGED held
    /\ UNCHANGED <<closed, subscribers, nsubs, queue, chClosed, upc, bpc,
                   pending, published, closerPc, sentTo, recvd>>

\* newSubscriber(conf); under Lock: t.subscribers[group] = sub.
SubscribeInsert(c) ==
    LET i == nsubs + 1 IN
    /\ cpc[c] = "sub_insert"
    /\ nsubs < MaxSubs
    /\ nsubs' = i
    /\ subscribers' = [subscribers EXCEPT ![GroupOf[c]] = i]
    /\ held' = [held EXCEPT ![c] = i]
    /\ cpc' = [cpc EXCEPT ![c] = "reading"]
    /\ UNCHANGED <<closed, queue, chClosed, upc, bpc, pending, published,
                   closerPc, sentTo, recvd>>

\* The caller's `case states, open := <-sub`: a value, or the close.
Receive(c) ==
    LET i == held[c] IN
    /\ cpc[c] = "reading"
    /\ \/ /\ queue[i] # <<>>
          /\ recvd' = [recvd EXCEPT ![i] = Head(queue[i])]
          /\ queue' = [queue EXCEPT ![i] = Tail(@)]
          /\ UNCHANGED <<cpc, held>>
       \/ /\ queue[i] = <<>>
          /\ chClosed[i]
          /\ cpc' = [cpc EXCEPT ![c] = "idle"]
          /\ held' = [held EXCEPT ![c] = NoSub]
          /\ UNCHANGED <<queue, recvd>>
    /\ UNCHANGED <<closed, subscribers, nsubs, chClosed, upc, bpc, pending,
                   published, closerPc, sentTo>>

-----------------------------------------------------------------------------
(* Unsubscribe(consumer) for the group of a channel client c is reading,   *)
(* called from another goroutine while the reader goes on reading.         *)

\* if t.closed.Load() { return error }
UnsubscribeCheckClosed(c) ==
    /\ cpc[c] = "reading"
    /\ upc[c] = "idle"
    /\ ~closed
    /\ upc' = [upc EXCEPT ![c] = "lock"]
    /\ UNCHANGED <<closed, subscribers, nsubs, queue, chClosed, cpc, held, bpc,
                   pending, published, closerPc, sentTo, recvd>>

\* Under Lock: unknown group is an error; else sub.close(), delete.
UnsubscribeLocked(c) ==
    LET g == GroupOf[c] IN
    /\ upc[c] = "lock"
    /\ upc' = [upc EXCEPT ![c] = "idle"]
    /\ IF subscribers[g] # NoSub
       THEN /\ chClosed' = [chClosed EXCEPT ![subscribers[g]] = TRUE]
            /\ subscribers' = [subscribers EXCEPT ![g] = NoSub]
       ELSE UNCHANGED <<chClosed, subscribers>>
    /\ UNCHANGED <<closed, nsubs, queue, cpc, held, bpc, pending, published,
                   closerPc, sentTo, recvd>>

-----------------------------------------------------------------------------
(* Close()                                                                 *)

\* if t.closed.Swap(true) { return error }; a second Close is the error path.
CloseSwap ==
    /\ closerPc \in {"idle", "done"}
    /\ closed' = TRUE
    /\ closerPc' = IF closed THEN "again" ELSE "lock"
    /\ UNCHANGED <<subscribers, nsubs, queue, chClosed, cpc, held, upc, bpc,
                   pending, published, sentTo, recvd>>

\* Under Lock: close and delete every registered subscriber.
CloseLocked ==
    /\ closerPc = "lock"
    /\ chClosed' = [i \in Subs |-> chClosed[i] \/ i \in Range(subscribers)]
    /\ subscribers' = [g \in Groups |-> NoSub]
    /\ closerPc' = "done"
    /\ UNCHANGED <<closed, nsubs, queue, cpc, held, upc, bpc, pending,
                   published, sentTo, recvd>>

-----------------------------------------------------------------------------
(* broadcast(publishC)                                                     *)

\* for msg := range publishC; under RLock start a send goroutine per subscriber.
BroadcastReceive ==
    LET m == published + 1 IN
    /\ bpc = "recv"
    /\ published < MaxPublish
    /\ published' = m
    /\ pending' = pending \cup {<<i, m>> : i \in Range(subscribers) \ {NoSub}}
    /\ bpc' = "wait"
    /\ UNCHANGED <<closed, subscribers, nsubs, queue, chClosed, cpc, held, upc,
                   closerPc, sentTo, recvd>>

\* Faulty variants of the DropOldest send: an off-by-one in the overflow
\* test, and DropNewest (the incoming message is the one discarded).
DropOldestSendOffByOne(q, m) ==
    IF Len(q) <= BufferSize THEN Append(q, m) ELSE Append(Tail(q), m)

DropNewestSend(q, m) ==
    IF Len(q) < BufferSize THEN Append(q, m) ELSE q

\* sub.send(msg) with DropOldest (spec 4.1): a full buffer loses its oldest.
DropOldestSend(q, m) ==
    IF Len(q) < BufferSize THEN Append(q, m) ELSE Append(Tail(q), m)

\* One send goroutine; a subscriber closed meanwhile takes nothing.
SubscriberSend(i, m) ==
    /\ <<i, m>> \in pending
    /\ pending' = pending \ {<<i, m>>}
    /\ IF chClosed[i]
       THEN UNCHANGED <<queue, sentTo>>
       ELSE /\ queue' = [queue EXCEPT ![i] = DropOldestSend(@, m)]
            /\ sentTo' = [sentTo EXCEPT ![i] = m]
    /\ UNCHANGED <<closed, subscribers, nsubs, chClosed, cpc, held, upc, bpc,
                   published, closerPc, recvd>>

\* Faulty variant: the broadcaster goes on without wg.Wait().
BroadcastNoWait ==
    /\ bpc = "wait"
    /\ bpc' = "recv"
    /\ UNCHANGED <<closed, subscribers, nsubs, queue, chClosed, cpc, held, upc,
                   pending, published, closerPc, sentTo, recvd>>

\* wg.Wait(): every send goroutine of this message has finished.
BroadcastWaitDone ==
    /\ bpc = "wait"
    /\ pending = {}
    /\ bpc' = "recv"
    /\ UNCHANGED <<closed, subscribers, nsubs, queue, chClosed, cpc, held, upc,
                   pending, published, closerPc, sentTo, recvd>>

-----------------------------------------------------------------------------
Client(c) ==
    \/ SubscribeCheckClosed(c)
    \/ SubscribeLookup(c)
    \/ SubscribeInsert(c)
    \/ Receive(c)
    \/ UnsubscribeCheckClosed(c)
    \/ UnsubscribeLocked(c)

Broadcaster ==
    \/ BroadcastReceive
    \/ \E p \in pending : SubscriberSend(p[1], p[2])
    \/ BroadcastWaitDone

Next ==
    \/ \E c \in Clients : Client(c)
    \/ Broadcaster
    \/ CloseSwap
    \/ CloseLocked

(***************************************************************************)
(* Fairness: the broadcaster and its send goroutines are always scheduled, *)
(* a call that has started runs to its end, and a reader blocked on its   *)
(* channel takes what is there.  Whether a client starts a Subscribe or an *)
(* Unsubscribe, and whether the topic is closed, is the callers' choice    *)
(* and gets no fairness.                                                   *)
(***************************************************************************)
Fairness ==
    /\ WF_vars(Broadcaster)
    /\ \A c \in Clients :
          /\ WF_vars(SubscribeLookup(c))
          /\ WF_vars(SubscribeInsert(c))
          /\ WF_vars(UnsubscribeLocked(c))
          /\ WF_vars(Receive(c))
    /\ WF_vars(CloseLocked)

Spec == Init /\ [][Next]_vars /\ Fairness

-----------------------------------------------------------------------------
(***************************************************************************)
(* Properties.                                                             *)
(***************************************************************************)

\* Types; a subscriber's buffer never holds more than BufferSize messages
\* (spec 8: with DropOldest the channel depth never exceeds BufferSize).
TypeOK ==
    /\ closed \in BOOLEAN
    /\ subscribers \in [Groups -> Subs \cup {NoSub}]
    /\ nsubs \in 0..MaxSubs
    /\ queue \in [Subs -> BoundedSeq(1..MaxPublish, BufferSize)]
    /\ chClosed \in [Subs -> BOOLEAN]
    /\ cpc \in [Clients -> ClientPCs]
    /\ held \in [Clients -> Subs \cup {NoSub}]
    /\ bpc \in {"recv", "wait"}
    /\ upc \in [Clients -> {"idle", "lock"}]
    /\ pending \subseteq Subs \X (1..MaxPublish)
    /\ published \in 0..MaxPublish
    /\ closerPc \in {"idle", "lock", "done", "again"}

(***************************************************************************)
(* Per-subscriber order (spec 4.1): every subscriber's buffer holds        *)
(* messages in publication order, all newer than what its reader has       *)
(* already taken.  The fan-out goroutines of one message run concurrently; *)
(* only the broadcaster's wg.Wait keeps two messages to one subscriber     *)
(* from overtaking each other.                                             *)
(***************************************************************************)
DeliveryOrder ==
    \A i \in Subs :
        /\ IsSorted(queue[i], <)
        /\ queue[i] # <<>> => recvd[i] < Head(queue[i])

(***************************************************************************)
(* Spec 8, BufferSize = 1 with DropOldest: a slow consumer eventually sees *)
(* the most recent message.  Every message delivered to a subscriber's     *)
(* buffer is eventually read, or overtaken by a newer one that is read.    *)
(***************************************************************************)
LatestDelivered ==
    \A i \in Subs, n \in 1..MaxPublish : sentTo[i] = n ~> recvd[i] >= n

(***************************************************************************)
(* Spec 4.1: a consumer group has one delivery channel; a second Subscribe *)
(* for an existing group fails (ErrIfExists) or returns the same channel.  *)
(* So two clients of one group reading open channels read the same one.   *)
(***************************************************************************)
GroupHasOneChannel ==
    \A c1, c2 \in Clients :
        /\ GroupOf[c1] = GroupOf[c2]
        /\ held[c1] # NoSub /\ held[c2] # NoSub
        /\ ~chClosed[held[c1]] /\ ~chClosed[held[c2]]
        => held[c1] = held[c2]

(***************************************************************************)
(* Spec 4.1: Close closes all delivery channels; once Close has returned,  *)
(* every subscriber channel handed out is closed, so no reader waits on    *)
(* the topic forever.                                                      *)
(***************************************************************************)
CloseClosesAll ==
    closerPc \in {"done", "again"} => \A i \in 1..nsubs : chClosed[i]
=============================================================================
