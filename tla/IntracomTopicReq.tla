--------------------------- MODULE IntracomTopicReq ---------------------------
(***************************************************************************)
(* The request-channel generation of the intracom topic                   *)
(* (src/unnamed/part_004): the subscriber map is owned by one broadcaster  *)
(* goroutine, and Subscribe, Unsubscribe and Close reach it as requests on *)
(* requestC, a channel of capacity 1.  Each call makes its own responseC   *)
(* of capacity 1 and waits on it.  Subscribe and Unsubscribe first read    *)
(* the atomic `closed` flag and give up when their context is done;        *)
(* Close swaps `closed`, sends its request with no timeout, waits for the  *)
(* answer, then closes requestC and publishC.                              *)
(*                                                                         *)
(* The broadcaster (SyncBroadcaster.Broadcast) is not in src/: its         *)
(* handling of the three requests follows spec 4.1 (one owner of the map;  *)
(* an existing group is an error under ErrIfExists, else its channel;     *)
(* unsubscribe closes the group's channel; close closes every channel and  *)
(* rejects later requests; the loop ends when requestC is closed).        *)
(*                                                                         *)
(* A response carries the number of the call it answers: a call that timed *)
(* out has dropped its responseC, so a later answer to it reaches nobody.  *)
(***************************************************************************)
EXTENDS Naturals, Sequences

CONSTANTS
    Clients,          \* goroutines calling Subscribe and Unsubscribe
    Groups,           \* consumer group names
    GroupOf,          \* GroupOf[c]: the consumer group client c subscribes as
    ErrIfExists,      \* ErrIfExists[c]: SubscriberConfig.ErrIfExists of c's Subscribe calls
    MaxCalls,         \* bound: calls each client makes
    MaxChans          \* bound: delivery channels the broadcaster creates

ASSUME GroupOf \in [Clients -> Groups]
ASSUME ErrIfExists \in [Clients -> BOOLEAN]
ASSUME MaxCalls \in Nat \ {0} /\ MaxChans \in Nat \ {0}

RequestCap == 1       \* make(chan any, 1)
Chans == 1..MaxChans
NoChan == 0
NoResp == [call |-> 0, ch |-> NoChan]

VARIABLES
    closed,       \* topic.closed (atomic.Bool)
    requestC,     \* requests buffered in requestC, oldest first
    reqClosed,    \* close(t.requestC) and close(t.publishC) have run
    subs,         \* the broadcaster's map: [Groups -> Chans \cup {NoChan}]
    nchans,       \* delivery channels created so far
    chOpen,       \* chOpen[i]: delivery channel i is open
    bClosed,      \* the broadcaster has handled the close request
    bpc,          \* broadcaster: "run" or "exited"
    cpc,          \* cpc[c]: where client c is in its current call
    calls,        \* calls[c]: calls client c has started (its current call's number)
    resp,         \* resp[c]: the answer in client c's current responseC
    held,         \* held[c]: the delivery channel client c reads, NoChan if none
    clpc,         \* the goroutine calling Close
    closeResp,    \* the close request's responseC holds the answer
    crashed       \* a goroutine panicked (send on closed channel)

vars == <<closed, requestC, reqClosed, subs, nchans, chOpen, bClosed, bpc,
          cpc, calls, resp, held, clpc, closeResp, crashed>>

ClientPCs == {"idle", "sub_send", "sub_wait", "unsub_send", "unsub_wait"}
Request == [op : {"sub", "unsub"}, c : Clients, call : 1..MaxCalls]
           \cup [op : {"close"}]

Init ==
    /\ closed = FALSE
    /\ requestC = <<>>
    /\ reqClosed = FALSE
    /\ subs = [g \in Groups |-> NoChan]
    /\ nchans = 0
    /\ chOpen = [i \in Chans |-> FALSE]
    /\ bClosed = FALSE
    /\ bpc = "run"
    /\ cpc = [c \in Clients |-> "idle"]
    /\ calls = [c \in Clients |-> 0]
    /\ resp = [c \in Clients |-> NoResp]
    /\ held = [c \in Clients |-> NoChan]
    /\ clpc = "idle"
    /\ closeResp = FALSE
    /\ crashed = FALSE

-----------------------------------------------------------------------------
(* Client calls.  A select with a send on requestC: the send proceeds when *)
(* requestC has room, and panics once requestC is closed.                  *)

\* The send case of the request select; panics when requestC is closed.
SendRequest(c, req, next) ==
    \/ /\ reqClosed
       /\ crashed' = TRUE
       /\ UNCHANGED <<requestC, cpc>>
    \/ /\ ~reqClosed
       /\ Len(requestC) < RequestCap
       /\ requestC' = Append(requestC, req)
       /\ cpc' = [cpc EXCEPT ![c] = next]
       /\ UNCHANGED crashed

clientVars == <<cpc, calls, resp, held>>
bcVars == <<subs, nchans, chOpen, bClosed, bpc>>

\* Mutant: Subscribe reuses one responseC instead of making one per call.
SubscribeCheckReuseResp(c) ==
    /\ cpc[c] = "idle" /\ calls[c] < MaxCalls
    /\ held[c] \in {NoChan} \cup {i \in Chans : ~chOpen[i]}
    /\ cpc' = [cpc EXCEPT ![c] = IF closed THEN "idle" ELSE "sub_send"]
    /\ UNCHANGED <<closed, requestC, reqClosed, bcVars, calls, resp, held, clpc, closeResp, crashed>>

\* Subscribe: if t.closed.Load() { return error }; else make responseC.
SubscribeCheck(c) ==
    /\ cpc[c] = "idle" /\ calls[c] < MaxCalls
    /\ held[c] \in {NoChan} \cup {i \in Chans : ~chOpen[i]}   \* none, or seen closed
    /\ calls' = [calls EXCEPT ![c] = @ + 1]
    /\ resp' = [resp EXCEPT ![c] = NoResp]
    /\ cpc' = [cpc EXCEPT ![c] = IF closed THEN "idle" ELSE "sub_send"]
    /\ UNCHANGED <<closed, requestC, reqClosed, bcVars, held, clpc, closeResp, crashed>>

\* First select of Subscribe: send subscribeRequest{conf, responseC}.
SubscribeSend(c) ==
    /\ cpc[c] = "sub_send"
    /\ SendRequest(c, [op |-> "sub", c |-> c, call |-> calls[c]], "sub_wait")
    /\ UNCHANGED <<closed, reqClosed, bcVars, calls, resp, held, clpc, closeResp>>

\* Second select of Subscribe: res := <-responseC; return res.ch, res.err.
SubscribeRecv(c) ==
    /\ cpc[c] = "sub_wait" /\ resp[c].call = calls[c]
    /\ held' = [held EXCEPT ![c] = resp[c].ch]
    /\ cpc' = [cpc EXCEPT ![c] = "idle"]
    /\ UNCHANGED <<closed, requestC, reqClosed, bcVars, calls, resp, clpc, closeResp, crashed>>

\* Unsubscribe(consumer, ch) of the channel client c holds.
UnsubscribeCheck(c) ==
    /\ cpc[c] = "idle" /\ held[c] # NoChan /\ calls[c] < MaxCalls
    /\ calls' = [calls EXCEPT ![c] = @ + 1]
    /\ resp' = [resp EXCEPT ![c] = NoResp]
    /\ cpc' = [cpc EXCEPT ![c] = IF closed THEN "idle" ELSE "unsub_send"]
    /\ UNCHANGED <<closed, requestC, reqClosed, bcVars, held, clpc, closeResp, crashed>>

UnsubscribeSend(c) ==
    /\ cpc[c] = "unsub_send"
    /\ SendRequest(c, [op |-> "unsub", c |-> c, call |-> calls[c]], "unsub_wait")
    /\ UNCHANGED <<closed, reqClosed, bcVars, calls, resp, held, clpc, closeResp>>

\* resp := <-responseC; return resp.err.  The caller lets go of the channel.
UnsubscribeRecv(c) ==
    /\ cpc[c] = "unsub_wait" /\ resp[c].call = calls[c]
    /\ held' = [held EXCEPT ![c] = NoChan]
    /\ cpc' = [cpc EXCEPT ![c] = "idle"]
    /\ UNCHANGED <<closed, requestC, reqClosed, bcVars, calls, resp, clpc, closeResp, crashed>>

\* case <-ctx.Done(): in either select of either call ("timed out 1/2").
\* Subscribe's ctx is the caller's; Unsubscribe's is a 2 s WithTimeout.
CallTimeout(c) ==
    /\ cpc[c] \in ClientPCs \ {"idle"}
    /\ cpc' = [cpc EXCEPT ![c] = "idle"]
    /\ UNCHANGED <<closed, requestC, reqClosed, bcVars, calls, resp, held, clpc, closeResp, crashed>>

-----------------------------------------------------------------------------
(* Close()                                                                 *)

\* if t.closed.Swap(true) { return error }.  A second Close returns the error.
CloseSwap ==
    /\ clpc \in {"idle", "done"}
    /\ closed' = TRUE
    /\ clpc' = IF closed THEN "again" ELSE "send"
    /\ UNCHANGED <<requestC, reqClosed, bcVars, clientVars, closeResp, crashed>>

\* t.requestC <- closeRequest{responseC}: blocks while requestC is full.
CloseSend ==
    /\ clpc = "send" /\ Len(requestC) < RequestCap
    /\ requestC' = Append(requestC, [op |-> "close"])
    /\ clpc' = "wait"
    /\ UNCHANGED <<closed, reqClosed, bcVars, clientVars, closeResp, crashed>>

\* Mutant: the channels are closed without waiting for the answer.
CloseFinishNoWait ==
    /\ clpc = "wait"
    /\ reqClosed' = TRUE
    /\ clpc' = "done"
    /\ UNCHANGED <<closed, requestC, bcVars, clientVars, closeResp, crashed>>

\* <-responseC; close(t.requestC); close(t.publishC); return nil
CloseFinish ==
    /\ clpc = "wait" /\ closeResp
    /\ reqClosed' = TRUE
    /\ clpc' = "done"
    /\ UNCHANGED <<closed, requestC, bcVars, clientVars, closeResp, crashed>>

-----------------------------------------------------------------------------
(* The broadcaster's request loop (spec 4.1).                              *)

\* Answer call `call` of client c with channel ch.
Answer(c, call, ch) ==
    resp' = [resp EXCEPT ![c] = [call |-> call, ch |-> ch]]

\* subscribeRequest: an existing group is an error under ErrIfExists, else
\* its channel; a new group gets a new channel; rejected after close.
HandleSubscribe(r) ==
    LET g == GroupOf[r.c] IN
    \/ /\ bClosed \/ (subs[g] # NoChan /\ ErrIfExists[r.c])
       /\ Answer(r.c, r.call, NoChan)
       /\ UNCHANGED <<subs, nchans, chOpen>>
    \/ /\ ~bClosed /\ subs[g] # NoChan /\ ~ErrIfExists[r.c]
       /\ Answer(r.c, r.call, subs[g])
       /\ UNCHANGED <<subs, nchans, chOpen>>
    \/ /\ ~bClosed /\ subs[g] = NoChan /\ nchans < MaxChans
       /\ nchans' = nchans + 1
       /\ subs' = [subs EXCEPT ![g] = nchans + 1]
       /\ chOpen' = [chOpen EXCEPT ![nchans + 1] = TRUE]
       /\ Answer(r.c, r.call, nchans + 1)

\* unsubscribeRequest: remove the group and close its channel.
HandleUnsubscribe(r) ==
    LET g == GroupOf[r.c] IN
    /\ IF ~bClosed /\ subs[g] # NoChan
          THEN /\ chOpen' = [chOpen EXCEPT ![subs[g]] = FALSE]
               /\ subs' = [subs EXCEPT ![g] = NoChan]
          ELSE UNCHANGED <<chOpen, subs>>
    /\ Answer(r.c, r.call, NoChan)
    /\ UNCHANGED nchans

\* Mutant: the channels are closed but the closer is never answered.
HandleCloseNoAnswer ==
    /\ chOpen' = [i \in Chans |-> FALSE]
    /\ subs' = [g \in Groups |-> NoChan]
    /\ bClosed' = TRUE
    /\ UNCHANGED <<nchans, resp, closeResp>>

\* closeRequest: close every channel, empty the map, answer the closer.
HandleClose ==
    /\ chOpen' = [i \in Chans |-> FALSE]
    /\ subs' = [g \in Groups |-> NoChan]
    /\ bClosed' = TRUE
    /\ closeResp' = TRUE
    /\ UNCHANGED <<nchans, resp>>

BroadcastRequest ==
    /\ bpc = "run" /\ requestC # <<>>
    /\ LET r == Head(requestC) IN
         CASE r.op = "sub"   -> HandleSubscribe(r) /\ UNCHANGED <<bClosed, closeResp>>
           [] r.op = "unsub" -> HandleUnsubscribe(r) /\ UNCHANGED <<bClosed, closeResp>>
           [] r.op = "close" -> HandleClose
    /\ requestC' = Tail(requestC)
    /\ UNCHANGED <<closed, reqClosed, bpc, cpc, calls, held, clpc, crashed>>

\* The range over requestC ends once it is closed and drained.
BroadcastExit ==
    /\ bpc = "run" /\ reqClosed /\ requestC = <<>>
    /\ bpc' = "exited"
    /\ UNCHANGED <<closed, requestC, reqClosed, subs, nchans, chOpen, bClosed,
                   clientVars, clpc, closeResp, crashed>>

-----------------------------------------------------------------------------
Client(c) ==
    \/ SubscribeCheck(c) \/ SubscribeSend(c) \/ SubscribeRecv(c)
    \/ UnsubscribeCheck(c) \/ UnsubscribeSend(c) \/ UnsubscribeRecv(c)
    \/ CallTimeout(c)

Next ==
    /\ ~crashed
    /\ \/ \E c \in Clients : Client(c)
       \/ CloseSwap \/ CloseSend \/ CloseFinish
       \/ BroadcastRequest \/ BroadcastExit

(* Fairness: the broadcaster and the closer are always scheduled; a client *)
(* blocked on a full requestC is queued by the Go runtime and gets its     *)
(* turn (SF); a client waiting on its responseC is woken by the answer.    *)
(* Timeouts and new calls are the environment's choice and get none.       *)
Fairness ==
    /\ WF_vars(BroadcastRequest) /\ WF_vars(BroadcastExit)
    /\ SF_vars(CloseSend) /\ WF_vars(CloseFinish)
    /\ \A c \in Clients :
          /\ SF_vars(SubscribeSend(c)) /\ SF_vars(UnsubscribeSend(c))
          /\ WF_vars(SubscribeRecv(c)) /\ WF_vars(UnsubscribeRecv(c))

Spec == Init /\ [][Next]_vars /\ Fairness

-----------------------------------------------------------------------------
\* Every variable has its type; in particular every request in requestC
\* belongs to a call that was started (numbered 1..MaxCalls), so each
\* answer can go to the responseC of that call only.
TypeOK ==
    /\ closed \in BOOLEAN /\ reqClosed \in BOOLEAN /\ bClosed \in BOOLEAN
    /\ requestC \in Seq(Request) /\ Len(requestC) <= RequestCap
    /\ subs \in [Groups -> Chans \cup {NoChan}]
    /\ nchans \in 0..MaxChans /\ chOpen \in [Chans -> BOOLEAN]
    /\ bpc \in {"run", "exited"}
    /\ cpc \in [Clients -> ClientPCs] /\ calls \in [Clients -> 0..MaxCalls]
    /\ resp \in [Clients -> [call : 0..MaxCalls, ch : Chans \cup {NoChan}]]
    /\ held \in [Clients -> Chans \cup {NoChan}]
    /\ clpc \in {"idle", "send", "wait", "done", "again"}
    /\ closeResp \in BOOLEAN /\ crashed \in BOOLEAN

\* No goroutine panics: Subscribe and Unsubscribe never send on requestC
\* after Close has closed it.
NoSendOnClosed == ~crashed

\* Once Close has returned, every delivery channel is closed, including
\* the channel of a Subscribe that timed out after its request was taken,
\* and the map is empty; requests still in requestC cannot reopen one.
CloseClosesAll ==
    clpc \in {"done", "again"} =>
        /\ \A i \in Chans : ~chOpen[i]
        /\ \A g \in Groups : subs[g] = NoChan

\* Every Subscribe and Unsubscribe call returns even if its context never
\* ends, and a Close that has passed the Swap returns, unless the program
\* has panicked first.
CallsReturn ==
    /\ \A c \in Clients : cpc[c] # "idle" ~> (cpc[c] = "idle" \/ crashed)
    /\ clpc = "send" ~> (clpc = "done" \/ crashed)

====
