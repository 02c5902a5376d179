---------------------------- MODULE StateWatchers ----------------------------
(***************************************************************************)
(* The watch operations of a service context (src/service_context.go,      *)
(* identical in src/unnamed/part_000): WatchAllServices, WatchAnyServices  *)
(* and WatchAllStates, composed with the states topic they read, the       *)
(* IntracomTopic model of src/intracom/topic.go.                           *)
(*                                                                         *)
(* Each watch w is a goroutine that Subscribes to the topic as consumer    *)
(* group GroupOf[w] (ErrIfExists false, BufferSize 1, DropOldest) and      *)
(* then loops on a select between its context's Done and the subscriber   *)
(* channel; a snapshot that passes the watch's filter is sent on the       *)
(* watch's own channel `ch` (capacity 1) in a select against Done.  The    *)
(* goroutine returns on Done, on a closed subscriber channel, or when      *)
(* Subscribe fails; it never Unsubscribes and never closes `ch`.           *)
(*                                                                         *)
(* Published message m of the topic is the m-th snapshot the daemon        *)
(* publishes, Snapshots[m]: a ServiceStates map from service names to      *)
(* states.  The daemon's aggregator that produces them is not in src/.     *)
(***************************************************************************)
EXTENDS Naturals, Sequences, FiniteSets, SequencesExt

CONSTANTS
    Watches,      \* the watch goroutines (topic clients)
    Groups,       \* consumer group names
    GroupOf,      \* internalStatesConsumer(action, target, sc.name) of each watch
    Kind,         \* Kind[w] \in {"all", "any", "states"}: which Watch* method
    Action,       \* ServiceAction of an all/any watch
    Target,       \* target State of an all/any watch
    Names,        \* Names[w]: the `services ...string` argument, a sequence
    FilterMode,   \* ServiceFilter.Mode of a "states" watch
    FilterNames,  \* ServiceFilter.Names of a "states" watch, a set
    Before,       \* Before[w]: watches that have returned before w is created
    Snapshots,    \* Snapshots[m]: the m-th published ServiceStates
    MaxPublish,   \* bound: number of snapshots published
    MaxSubs       \* bound: subscriber instances

ServiceStatesVals == {"Init", "Idle", "Run", "Stop", "Exit"}
Actions == {"Entering", "Exiting"}
Modes == {"None", "Include", "Exclude"}

ASSUME Kind \in [Watches -> {"all", "any", "states"}]
ASSUME Action \in [Watches -> Actions] /\ Target \in [Watches -> ServiceStatesVals]
ASSUME FilterMode \in [Watches -> Modes]
ASSUME Len(Snapshots) = MaxPublish

VARIABLES
    \* the topic (IntracomTopic)
    closed, subscribers, nsubs, queue, chClosed, cpc, held, upc, bpc,
    pending, published, closerPc, sentTo, recvd,
    \* the watches
    wpc,          \* wpc[w]: "none", "subscribe", "loop", "send", "returned"
    staged,       \* staged[w]: the filtered snapshot being sent on ch
    out,          \* out[w]: the contents of the watch's channel ch (cap 1)
    wcancelled,   \* the watch's context is done (cancelFn or the service's)
    startedAt,    \* history: snapshots published when the Watch call was made
    lastEmitted   \* history: the newest snapshot number sent on ch, 0 if none

topicVars == <<closed, subscribers, nsubs, queue, chClosed, cpc, held, upc,
               bpc, pending, published, closerPc, sentTo, recvd>>
watchVars == <<wpc, staged, out, wcancelled, startedAt, lastEmitted>>
vars == <<topicVars, watchVars>>

T == INSTANCE IntracomTopic
        WITH Clients <- Watches, ErrIfExists <- FALSE, BufferSize <- 1

NoEntry == [m |-> 0, states |-> <<>>]

-----------------------------------------------------------------------------
(* The filters, as the loops of the three goroutines compute them.         *)

\* Faulty variant: Exiting tests val == target, like Entering.
SatisfiesExitingEq(a, t, v) == v = t

\* case Entering: val == target; case Exiting: val != target (ok required).
Satisfies(a, t, v) == IF a = "Entering" THEN v = t ELSE v # t

\* interestedServices: the named services present and satisfying the action.
Interested(w, snap) ==
    LET keep == {n \in Range(Names[w]) :
                    n \in DOMAIN snap /\ Satisfies(Action[w], Target[w], snap[n])}
    IN  [n \in keep |-> snap[n]]

\* filteredInterests of WatchAllStates: Include keeps the named services,
\* Exclude the others; no names or mode None forwards the snapshot.
Filtered(w, snap) ==
    IF FilterNames[w] = {} \/ FilterMode[w] = "None" THEN snap
    ELSE LET keep == {n \in DOMAIN snap :
                        IF FilterMode[w] = "Include" THEN n \in FilterNames[w]
                                                     ELSE n \notin FilterNames[w]}
         IN  [n \in keep |-> snap[n]]

\* What the goroutine would send for snapshot snap, and whether it sends:
\* all: len(interestedServices) == len(services); any: len > 0; states: always.
WatchOutput(w, snap) ==
    IF Kind[w] = "states" THEN Filtered(w, snap) ELSE Interested(w, snap)

Emits(w, snap) ==
    CASE Kind[w] = "all" -> Cardinality(DOMAIN Interested(w, snap)) = Len(Names[w])
      [] Kind[w] = "any" -> DOMAIN Interested(w, snap) # {}
      [] OTHER -> TRUE

-----------------------------------------------------------------------------
Init ==
    /\ T!Init
    /\ wpc = [w \in Watches |-> "none"]
    /\ staged = [w \in Watches |-> NoEntry]
    /\ out = [w \in Watches |-> <<>>]
    /\ wcancelled = [w \in Watches |-> FALSE]
    /\ startedAt = [w \in Watches |-> 0]
    /\ lastEmitted = [w \in Watches |-> 0]

\* sc.WatchX(...): make ch, WithCancel, and `go func`.
StartWatch(w) ==
    /\ wpc[w] = "none"
    /\ \A v \in Before[w] : wpc[v] = "returned"
    /\ wpc' = [wpc EXCEPT ![w] = "subscribe"]
    /\ startedAt' = [startedAt EXCEPT ![w] = published]
    /\ UNCHANGED <<topicVars, staged, out, wcancelled, lastEmitted>>

\* sc.icStates.Subscribe(...): closed check; on error log and return.
WatchSubscribeCheck(w) ==
    /\ wpc[w] = "subscribe"
    /\ T!SubscribeCheckClosed(w)
    /\ wpc' = IF closed THEN [wpc EXCEPT ![w] = "returned"] ELSE wpc
    /\ UNCHANGED <<staged, out, wcancelled, startedAt, lastEmitted>>

\* Faulty variant: a lookup that finds no group is taken as subscribed.
WatchSubscribeLookupNoInsert(w) ==
    /\ wpc[w] = "subscribe"
    /\ T!SubscribeLookup(w)
    /\ wpc' = [wpc EXCEPT ![w] = "loop"]
    /\ UNCHANGED <<staged, out, wcancelled, startedAt, lastEmitted>>

\* Subscribe's lookup: an existing group hands back its channel.
WatchSubscribeLookup(w) ==
    /\ wpc[w] = "subscribe"
    /\ T!SubscribeLookup(w)
    /\ wpc' = IF cpc'[w] = "reading" THEN [wpc EXCEPT ![w] = "loop"] ELSE wpc
    /\ UNCHANGED <<staged, out, wcancelled, startedAt, lastEmitted>>

\* Subscribe's insert of a new subscriber for the group.
WatchSubscribeInsert(w) ==
    /\ wpc[w] = "subscribe"
    /\ T!SubscribeInsert(w)
    /\ wpc' = [wpc EXCEPT ![w] = "loop"]
    /\ UNCHANGED <<staged, out, wcancelled, startedAt, lastEmitted>>

\* case states, open := <-sub: a closed channel returns; a snapshot that
\* passes the filter is staged for the send on ch.
WatchReceive(w) ==
    LET i == held[w]
        m == Head(queue[i])
    IN
    /\ wpc[w] = "loop"
    /\ T!Receive(w)
    /\ IF queue[i] = <<>>
       THEN /\ wpc' = [wpc EXCEPT ![w] = "returned"]
            /\ UNCHANGED staged
       ELSE IF Emits(w, Snapshots[m])
            THEN /\ wpc' = [wpc EXCEPT ![w] = "send"]
                 /\ staged' = [staged EXCEPT ![w] =
                                 [m |-> m, states |-> WatchOutput(w, Snapshots[m])]]
            ELSE UNCHANGED <<wpc, staged>>
    /\ UNCHANGED <<out, wcancelled, startedAt, lastEmitted>>

\* Faulty variant: a non-blocking send that drops the snapshot when ch is full.
WatchSendDropWhenFull(w) ==
    /\ wpc[w] = "send"
    /\ IF out[w] = <<>>
       THEN /\ out' = [out EXCEPT ![w] = <<staged[w]>>]
            /\ lastEmitted' = [lastEmitted EXCEPT ![w] = staged[w].m]
       ELSE UNCHANGED <<out, lastEmitted>>
    /\ wpc' = [wpc EXCEPT ![w] = "loop"]
    /\ UNCHANGED <<topicVars, staged, wcancelled, startedAt>>

\* case ch <- interestedServices: blocks while ch holds a value.
WatchSend(w) ==
    /\ wpc[w] = "send"
    /\ out[w] = <<>>
    /\ out' = [out EXCEPT ![w] = <<staged[w]>>]
    /\ lastEmitted' = [lastEmitted EXCEPT ![w] = staged[w].m]
    /\ wpc' = [wpc EXCEPT ![w] = "loop"]
    /\ UNCHANGED <<topicVars, staged, wcancelled, startedAt>>

\* case <-ctx.Done(): return (in either select); the deferred cancel().
WatchCtxDone(w) ==
    /\ wpc[w] \in {"loop", "send"}
    /\ wcancelled[w]
    /\ wpc' = [wpc EXCEPT ![w] = "returned"]
    /\ UNCHANGED <<topicVars, staged, out, wcancelled, startedAt, lastEmitted>>

\* The service calls the returned cancelFn (or its own context ends).
CancelWatch(w) ==
    /\ wpc[w] # "none"
    /\ ~wcancelled[w]
    /\ wcancelled' = [wcancelled EXCEPT ![w] = TRUE]
    /\ UNCHANGED <<topicVars, wpc, staged, out, startedAt, lastEmitted>>

\* The service takes a snapshot from the watch channel.
ReadOut(w) ==
    /\ out[w] # <<>>
    /\ out' = [out EXCEPT ![w] = Tail(@)]
    /\ UNCHANGED <<topicVars, wpc, staged, wcancelled, startedAt, lastEmitted>>

Watch(w) ==
    \/ StartWatch(w)
    \/ WatchSubscribeCheck(w)
    \/ WatchSubscribeLookup(w)
    \/ WatchSubscribeInsert(w)
    \/ WatchReceive(w)
    \/ WatchSend(w)
    \/ WatchCtxDone(w)

\* The daemon publishes snapshots and closes the states topic at shutdown.
Topic ==
    /\ \/ T!Broadcaster
       \/ T!CloseSwap
       \/ T!CloseLocked
    /\ UNCHANGED watchVars

Next ==
    \/ \E w \in Watches : Watch(w) \/ CancelWatch(w) \/ ReadOut(w)
    \/ Topic

(***************************************************************************)
(* Fairness: the broadcaster and the watch goroutines are scheduled, and   *)
(* a service reads the channel its watch returned (a Watch* caller ranges  *)
(* over it).  Starting, cancelling and closing are the services' and the   *)
(* daemon's choice.                                                        *)
(***************************************************************************)
Fairness ==
    /\ WF_vars(T!Broadcaster /\ UNCHANGED watchVars)
    /\ WF_vars(T!CloseLocked /\ UNCHANGED watchVars)
    /\ \A w \in Watches :
          /\ WF_vars(WatchSubscribeCheck(w))
          /\ WF_vars(WatchSubscribeLookup(w))
          /\ WF_vars(WatchSubscribeInsert(w))
          /\ WF_vars(WatchReceive(w))
          /\ WF_vars(WatchSend(w))
          /\ WF_vars(WatchCtxDone(w))
          /\ WF_vars(ReadOut(w))

Spec == Init /\ [][Next]_vars /\ Fairness

-----------------------------------------------------------------------------
(* Properties.                                                             *)

Entries == [m : 0..MaxPublish, states : UNION {[D -> ServiceStatesVals] :
                                   D \in SUBSET DOMAIN Snapshots[1]}]

\* Types; a watch that loops on its subscription holds a subscriber channel.
TypeOK ==
    /\ T!TypeOK
    /\ wpc \in [Watches -> {"none", "subscribe", "loop", "send", "returned"}]
    /\ \A w \in Watches : wpc[w] \in {"loop", "send"} => held[w] # T!NoSub
    /\ staged \in [Watches -> Entries \cup {NoEntry}]
    /\ out \in [Watches -> BoundedSeq(Entries, 1)]
    /\ wcancelled \in [Watches -> BOOLEAN]
    /\ startedAt \in [Watches -> 0..MaxPublish]
    /\ lastEmitted \in [Watches -> 0..MaxPublish]

(***************************************************************************)
(* Spec 4.2 as reference definitions: what a watch may deliver for a       *)
(* snapshot (Entering: the state equals the target; Exiting: the service   *)
(* is present and its state differs), and the map it delivers.             *)
(***************************************************************************)
SpecPredicate(w, snap, n) ==
    /\ n \in DOMAIN snap
    /\ Action[w] = "Entering" => snap[n] = Target[w]
    /\ Action[w] = "Exiting" => snap[n] # Target[w]

SpecDelivers(w, snap) ==
    CASE Kind[w] = "all" -> \A n \in Range(Names[w]) : SpecPredicate(w, snap, n)
      [] Kind[w] = "any" -> \E n \in Range(Names[w]) : SpecPredicate(w, snap, n)
      [] OTHER -> TRUE

SpecContent(w, snap) ==
    IF Kind[w] = "states"
    THEN CASE FilterMode[w] = "None" \/ FilterNames[w] = {} -> snap
           [] FilterMode[w] = "Include" ->
                [n \in DOMAIN snap \cap FilterNames[w] |-> snap[n]]
           [] OTHER -> [n \in DOMAIN snap \ FilterNames[w] |-> snap[n]]
    ELSE [n \in {k \in Range(Names[w]) : SpecPredicate(w, snap, k)} |-> snap[n]]

(***************************************************************************)
(* Every snapshot a watch puts on its channel is one spec 4.2 says it      *)
(* delivers, restricted to the services spec 4.2 says it contains: the Go  *)
(* loops over `services` (a len comparison of a map against a slice for    *)
(* WatchAllServices) agree with the set-based definitions.                 *)
(***************************************************************************)
EmittedSatisfiesWatch ==
    \A w \in Watches : \A k \in 1..Len(out[w]) :
        LET e == out[w][k] IN
        /\ SpecDelivers(w, Snapshots[e.m])
        /\ e.states = SpecContent(w, Snapshots[e.m])

(***************************************************************************)
(* Spec 8 (BufferSize 1 + DropOldest: a slow consumer eventually sees the  *)
(* most recent message) through the watch: once the last snapshot reaches  *)
(* a live watch whose filter it passes, the watch eventually emits it,     *)
(* unless the watch is cancelled.                                          *)
(***************************************************************************)
LatestMatchEmitted ==
    \A w \in Watches :
        (/\ wpc[w] \in {"loop", "send"}
         /\ sentTo[held[w]] = MaxPublish
         /\ Emits(w, Snapshots[MaxPublish]))
        ~> (lastEmitted[w] = MaxPublish \/ wcancelled[w])

(***************************************************************************)
(* Spec 4.2: cancelling a watch unsubscribes its consumer group, and a     *)
(* group receives what is published while it is subscribed; so a watch    *)
(* never emits a snapshot that was published before the Watch call.       *)
(***************************************************************************)
NoStaleEmission ==
    \A w \in Watches : lastEmitted[w] # 0 => lastEmitted[w] > startedAt[w]
=============================================================================
