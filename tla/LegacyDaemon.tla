----------------------------- MODULE LegacyDaemon -----------------------------
(***************************************************************************)
(* The *ServiceContext generation of the daemon: the manager at the end of *)
(* src/service_context.go (NewManager, startService, start, shutdown), the *)
(* daemon of src/unnamed/part_003 (Start, signalWatcher) that drives it,   *)
(* and the two services of the multi_service example as its runners: the   *)
(* API server (src/unnamed/part_002) and the API poller                    *)
(* (src/examples/multi_service/polling_service.go).                        *)
(*                                                                         *)
(* Goroutines: the daemon's main routine (d.wg.Wait), its signalWatcher    *)
(* ("sw"), its manager routine (manager.start, then close(d.stopCh)), the  *)
(* manager's stop-watching goroutine ("mg", <-m.stopCh; m.shutdown();      *)
(* m.cancelCtx()), and one startService goroutine per service.  Both "mg"  *)
(* and "sw" run manager.shutdown, a range over the services that reads     *)
(* isShutdown and then calls serviceCtx.shutdown().                        *)
(*                                                                         *)
(* The ServiceContext type (shutdown, setIsStopped, notifyStateChange,     *)
(* ShutdownSignal, ChangeState) is not in src/: shutdown is taken as spec  *)
(* section 5 states the legacy flags, mutex-guarded and idempotent; state  *)
(* notifications reach a service's ChangeState channel from the            *)
(* environment.  Log sends are left out (a log consumer is assumed).       *)
(***************************************************************************)
EXTENDS Naturals, FiniteSets

CONSTANTS
    Services,     \* the services handed to NewManager
    ServiceOrder, \* m.services, the slice both loops range over
    Runner,       \* Runner[s] \in {"api", "poll"}: the example service s runs
    Policy,       \* Policy[s]: serviceCtx.opts.runPolicy
    MaxPollCount  \* APIPollingService.maxPollCount (5 in the example)

\* RunPolicy values (service_options.go).
Policies == {"until_stopped", "run_once_success", "run_once_unbiased"}
States == {"Init", "Idle", "Run", "Stop", "Exit"}
Callers == {"mg", "sw"}

ASSUME Runner \in [Services -> {"api", "poll"}]
ASSUME Policy \in [Services -> Policies]
ASSUME MaxPollCount \in Nat

VARIABLES
    spc,           \* spc[s]: "new", "loop", "idle", "run" (inside a callback), "done"
    resp,          \* resp[s]: svcResp, [next, err]
    pollCount,     \* pollCount[s]: the local counter of the poller's Run
    isStopped,     \* serviceCtx.isStopped
    isShutdown,    \* serviceCtx.isShutdown (its shutdownC and stateC closed)
    stops,         \* history: Stop callbacks run for s
    wg,            \* m.wg
    mpc,           \* the daemon's manager routine: "launch", "wait", "returned", "done"
    launched,      \* services whose startService goroutine was started
    gpc,           \* gpc["mg"], gpc["sw"]: the two goroutines that run manager.shutdown
    todo,          \* todo[c]: services caller c's shutdown loop has not visited
    cancelled,     \* m.ctx is done
    mStopClosed,   \* m.stopCh closed (start's defer)
    dStopClosed,   \* d.stopCh closed (the manager routine's defer)
    stopLogClosed, \* d.stopLogCh closed
    dwg,           \* d.wg
    mainDone,      \* daemon.Start has returned
    signal         \* "none", "caught" by signalWatcher, or "lost"

vars == <<spc, resp, pollCount, isStopped, isShutdown, stops, wg, mpc, launched,
          gpc, todo, cancelled, mStopClosed, dStopClosed, stopLogClosed, dwg,
          mainDone, signal>>
svcVars == <<spc, resp, pollCount, isStopped, isShutdown, stops>>
mgrVars == <<wg, mpc, launched>>
ctlVars == <<gpc, todo, cancelled, mStopClosed, dStopClosed, stopLogClosed, dwg,
             mainDone, signal>>

Resp(n, e) == [next |-> n, err |-> e]

\* First service of the slice in a set, the order `range` visits.
NextInOrder(S) ==
    ServiceOrder[CHOOSE i \in DOMAIN ServiceOrder :
                    /\ ServiceOrder[i] \in S
                    /\ \A j \in 1..(i - 1) : ServiceOrder[j] \notin S]

\* serviceCtx.shutdown(): under its mutex, close shutdownC and stateC once.
CtxShutdown(s) == isShutdown' = [isShutdown EXCEPT ![s] = TRUE]

\* NewService (isStopped true); daemon.Start has run d.wg.Add(2) and started
\* signalWatcher and the manager routine, whose start() has started "mg".
Init ==
    /\ spc = [s \in Services |-> "new"]
    /\ resp = [s \in Services |-> Resp("Init", FALSE)]
    /\ pollCount = [s \in Services |-> 0]
    /\ isStopped = [s \in Services |-> TRUE]
    /\ isShutdown = [s \in Services |-> FALSE]
    /\ stops = [s \in Services |-> 0]
    /\ wg = 0
    /\ mpc = "launch"
    /\ launched = {}
    /\ gpc = [c \in Callers |-> IF c = "mg" THEN "wait" ELSE "start"]
    /\ todo = [c \in Callers |-> {}]
    /\ cancelled = FALSE
    /\ mStopClosed = FALSE
    /\ dStopClosed = FALSE
    /\ stopLogClosed = FALSE
    /\ dwg = 2
    /\ mainDone = FALSE
    /\ signal = "none"

-----------------------------------------------------------------------------
(* manager.start and the daemon's manager routine                          *)

\* Faulty variant: the goroutine is started without m.wg.Add(1).
StartServiceNoAdd ==
    LET s == NextInOrder(Services \ launched) IN
    /\ mpc = "launch"
    /\ launched' = launched \cup {s}
    /\ spc' = [spc EXCEPT ![s] = "loop"]
    /\ isStopped' = [isStopped EXCEPT ![s] = FALSE]
    /\ mpc' = IF launched' = Services THEN "wait" ELSE "launch"
    /\ UNCHANGED <<resp, pollCount, isShutdown, stops, wg, ctlVars>>

\* Faulty variant: startService does not reset isStopped.
StartServiceStillStopped ==
    LET s == NextInOrder(Services \ launched) IN
    /\ mpc = "launch"
    /\ wg' = wg + 1
    /\ launched' = launched \cup {s}
    /\ spc' = [spc EXCEPT ![s] = "loop"]
    /\ mpc' = IF launched' = Services THEN "wait" ELSE "launch"
    /\ UNCHANGED <<resp, pollCount, isStopped, isShutdown, stops, ctlVars>>

\* m.wg.Add(1); go m.startService(service), whose first statements are
\* setIsStopped(false) and svcResp = NewResponse(nil, InitState).
StartService ==
    LET s == NextInOrder(Services \ launched) IN
    /\ mpc = "launch"
    /\ wg' = wg + 1
    /\ launched' = launched \cup {s}
    /\ spc' = [spc EXCEPT ![s] = "loop"]
    /\ isStopped' = [isStopped EXCEPT ![s] = FALSE]
    /\ mpc' = IF launched' = Services THEN "wait" ELSE "launch"
    /\ UNCHANGED <<resp, pollCount, isShutdown, stops, ctlVars>>

\* m.wg.Wait(); return, and start's deferred close(m.stopCh).
WaitDone ==
    /\ mpc = "wait"
    /\ wg = 0
    /\ mpc' = "returned"
    /\ mStopClosed' = TRUE
    /\ UNCHANGED <<svcVars, wg, launched, gpc, todo, cancelled, dStopClosed,
                   stopLogClosed, dwg, mainDone, signal>>

\* The manager routine's defer: close(d.stopCh); d.wg.Done().
ManagerRoutineDefer ==
    /\ mpc = "returned"
    /\ mpc' = "done"
    /\ dStopClosed' = TRUE
    /\ dwg' = dwg - 1
    /\ UNCHANGED <<svcVars, wg, launched, gpc, todo, cancelled, mStopClosed,
                   stopLogClosed, mainDone, signal>>

-----------------------------------------------------------------------------
(* startService: one action per case of the switch on svcResp.NextState.   *)
(* Init of both example services returns NewResponse(nil, IdleState); Idle *)
(* and Run block, so they are entered here and return in the runner       *)
(* actions below.                                                          *)

\* The example services' Init and Stop callbacks; the server's and the
\* poller's are the same.
InitCallback == Resp("Idle", FALSE)
StopCallback == Resp("Exit", FALSE)

CallInit(s) ==
    /\ spc[s] = "loop" /\ resp[s].next = "Init"
    /\ resp' = [resp EXCEPT ![s] = InitCallback]
    /\ UNCHANGED <<spc, pollCount, isStopped, isShutdown, stops, mgrVars, ctlVars>>

CallIdle(s) ==
    /\ spc[s] = "loop" /\ resp[s].next = "Idle"
    /\ spc' = [spc EXCEPT ![s] = "idle"]
    /\ UNCHANGED <<resp, pollCount, isStopped, isShutdown, stops, mgrVars, ctlVars>>

CallRun(s) ==
    /\ spc[s] = "loop" /\ resp[s].next = "Run"
    /\ spc' = [spc EXCEPT ![s] = "run"]
    /\ pollCount' = [pollCount EXCEPT ![s] = 0]
    /\ UNCHANGED <<resp, isStopped, isShutdown, stops, mgrVars, ctlVars>>

\* case StopState: Stop (it returns NewResponse(nil, ExitState));
\* setIsStopped(true); svcResp.NextState = ExitState.
CallStop(s) ==
    /\ spc[s] = "loop" /\ resp[s].next = "Stop"
    /\ stops' = [stops EXCEPT ![s] = @ + 1]
    /\ isStopped' = [isStopped EXCEPT ![s] = TRUE]
    /\ resp' = [resp EXCEPT ![s] = StopCallback]
    /\ UNCHANGED <<spc, pollCount, isShutdown, mgrVars, ctlVars>>

\* case ExitState: Stop unless isStopped, then serviceCtx.shutdown() and
\* return, with the deferred m.wg.Done().
ExitPath(s) ==
    /\ spc[s] = "loop" /\ resp[s].next = "Exit"
    /\ IF ~isStopped[s]
       THEN /\ stops' = [stops EXCEPT ![s] = @ + 1]
            /\ isStopped' = [isStopped EXCEPT ![s] = TRUE]
       ELSE UNCHANGED <<stops, isStopped>>
    /\ CtxShutdown(s)
    /\ spc' = [spc EXCEPT ![s] = "done"]
    /\ wg' = wg - 1
    /\ UNCHANGED <<resp, pollCount, mpc, launched, ctlVars>>

\* Run returned r; the run policies (lines 402-422).  RunOncePolicy forces
\* Exit.  RetryUntilSuccessPolicy, after a Run without error, runs Stop and
\* setIsStopped(true), but it assigns the shadowing `svcResp :=` of Stop's
\* response: the loop goes on with Run's own response.
RunReturn(s, r) ==
    /\ resp' = [resp EXCEPT ![s] = IF Policy[s] = "run_once_unbiased"
                                   THEN [r EXCEPT !.next = "Exit"] ELSE r]
    /\ IF Policy[s] = "run_once_success" /\ ~r.err
       THEN /\ stops' = [stops EXCEPT ![s] = @ + 1]
            /\ isStopped' = [isStopped EXCEPT ![s] = TRUE]
       ELSE UNCHANGED <<stops, isStopped>>
    /\ spc' = [spc EXCEPT ![s] = "loop"]

-----------------------------------------------------------------------------
(* The example services' Idle and Run.                                     *)

\* Idle of both: case <-c.ShutdownSignal(): NewResponse(nil, StopState).
IdleShutdown(s) ==
    /\ spc[s] = "idle" /\ isShutdown[s]
    /\ resp' = [resp EXCEPT ![s] = Resp("Stop", FALSE)]
    /\ spc' = [spc EXCEPT ![s] = "loop"]
    /\ UNCHANGED <<pollCount, isStopped, isShutdown, stops, mgrVars, ctlVars>>

\* API server Idle: its 20s timer fires, NewResponse(nil, RunState).
ApiIdleTimer(s) ==
    /\ spc[s] = "idle" /\ Runner[s] = "api"
    /\ resp' = [resp EXCEPT ![s] = Resp("Run", FALSE)]
    /\ spc' = [spc EXCEPT ![s] = "loop"]
    /\ UNCHANGED <<pollCount, isStopped, isShutdown, stops, mgrVars, ctlVars>>

\* Poller Idle: RunState arrives on c.ChangeState() (any other state loops).
PollIdleNotified(s) ==
    /\ spc[s] = "idle" /\ Runner[s] = "poll" /\ ~isShutdown[s]
    /\ resp' = [resp EXCEPT ![s] = Resp("Run", FALSE)]
    /\ spc' = [spc EXCEPT ![s] = "loop"]
    /\ UNCHANGED <<pollCount, isStopped, isShutdown, stops, mgrVars, ctlVars>>

\* Run of both after the shutdown signal: the poller's ShutdownSignal case,
\* and the server's ListenAndServe returning ErrServerClosed once its
\* goroutine has seen the signal and shut the server down.
RunShutdown(s) ==
    /\ spc[s] = "run" /\ isShutdown[s]
    /\ RunReturn(s, Resp("Stop", FALSE))
    /\ UNCHANGED <<pollCount, isShutdown, mgrVars, ctlVars>>

\* API server Run: ListenAndServe fails, NewResponse(err, IdleState).
ApiListenFail(s) ==
    /\ spc[s] = "run" /\ Runner[s] = "api"
    /\ RunReturn(s, Resp("Idle", TRUE))
    /\ UNCHANGED <<pollCount, isShutdown, mgrVars, ctlVars>>

\* Poller Run: StopState arrives on c.ChangeState(), NewResponse(nil, ExitState).
PollRunNotified(s) ==
    /\ spc[s] = "run" /\ Runner[s] = "poll" /\ ~isShutdown[s]
    /\ RunReturn(s, Resp("Exit", FALSE))
    /\ UNCHANGED <<pollCount, isShutdown, mgrVars, ctlVars>>

\* Poller Run, timer.C: past maxPollCount return NewResponse(nil, StopState),
\* else a successful poll increments pollCount (a failed Get only resets
\* the timer and changes nothing).
PollTick(s) ==
    /\ spc[s] = "run" /\ Runner[s] = "poll"
    /\ IF pollCount[s] > MaxPollCount
       THEN /\ RunReturn(s, Resp("Stop", FALSE))
            /\ UNCHANGED pollCount
       ELSE /\ pollCount' = [pollCount EXCEPT ![s] = @ + 1]
            /\ UNCHANGED <<spc, resp, isStopped, stops>>
    /\ UNCHANGED <<isShutdown, mgrVars, ctlVars>>

Service(s) ==
    \/ CallInit(s) \/ CallIdle(s) \/ CallRun(s) \/ CallStop(s) \/ ExitPath(s)
    \/ IdleShutdown(s) \/ ApiIdleTimer(s) \/ RunShutdown(s) \/ PollTick(s)

\* What the environment decides: notifications and a failing listener.
ServiceEnv(s) == PollIdleNotified(s) \/ PollRunNotified(s) \/ ApiListenFail(s)

-----------------------------------------------------------------------------
(* manager.shutdown, run by "mg" and by "sw": for each service in order,   *)
(* `if !serviceCtx.isShutdown` (read without the mutex), then              *)
(* serviceCtx.shutdown().                                                  *)

\* Where caller c goes once its loop is over.
AfterShutdown(c) == IF c = "mg" THEN "cancel" ELSE "wait_manager"

\* Faulty variant: `return` at the first service already shut down.
ScanCheckBreak(c) ==
    LET s == NextInOrder(todo[c]) IN
    /\ gpc[c] = "scan"
    /\ IF todo[c] = {} \/ isShutdown[s]
       THEN gpc' = [gpc EXCEPT ![c] = AfterShutdown(c)]
       ELSE gpc' = [gpc EXCEPT ![c] = "call"]
    /\ UNCHANGED <<svcVars, mgrVars, todo, cancelled, mStopClosed, dStopClosed,
                   stopLogClosed, dwg, mainDone, signal>>

ScanCheck(c) ==
    LET s == NextInOrder(todo[c]) IN
    /\ gpc[c] = "scan"
    /\ CASE todo[c] = {} ->
              gpc' = [gpc EXCEPT ![c] = AfterShutdown(c)] /\ UNCHANGED todo
         [] isShutdown[s] ->
              todo' = [todo EXCEPT ![c] = @ \ {s}] /\ UNCHANGED gpc
         [] OTHER ->
              gpc' = [gpc EXCEPT ![c] = "call"] /\ UNCHANGED todo
    /\ UNCHANGED <<svcVars, mgrVars, cancelled, mStopClosed, dStopClosed,
                   stopLogClosed, dwg, mainDone, signal>>

ScanCall(c) ==
    LET s == NextInOrder(todo[c]) IN
    /\ gpc[c] = "call"
    /\ CtxShutdown(s)
    /\ todo' = [todo EXCEPT ![c] = @ \ {s}]
    /\ gpc' = [gpc EXCEPT ![c] = "scan"]
    /\ UNCHANGED <<spc, resp, pollCount, isStopped, stops, mgrVars, cancelled,
                   mStopClosed, dStopClosed, stopLogClosed, dwg, mainDone, signal>>

\* Entering manager.shutdown: the loop starts over every service.
BeginShutdown(c) ==
    /\ gpc' = [gpc EXCEPT ![c] = "scan"]
    /\ todo' = [todo EXCEPT ![c] = Services]

-----------------------------------------------------------------------------
(* The manager's stop-watching goroutine                                   *)

\* <-m.stopCh; m.shutdown().
MgWake ==
    /\ gpc["mg"] = "wait" /\ mStopClosed
    /\ BeginShutdown("mg")
    /\ UNCHANGED <<svcVars, mgrVars, cancelled, mStopClosed, dStopClosed,
                   stopLogClosed, dwg, mainDone, signal>>

\* m.cancelCtx().
MgCancel ==
    /\ gpc["mg"] = "cancel"
    /\ gpc' = [gpc EXCEPT !["mg"] = "done"]
    /\ cancelled' = TRUE
    /\ UNCHANGED <<svcVars, mgrVars, todo, mStopClosed, dStopClosed,
                   stopLogClosed, dwg, mainDone, signal>>

-----------------------------------------------------------------------------
(* signalWatcher and daemon.Start                                          *)

\* signal.Notify(signalC, SIGINT, SIGTERM) and into the select loop.
SwNotify ==
    /\ gpc["sw"] = "start"
    /\ gpc' = [gpc EXCEPT !["sw"] = "select"]
    /\ UNCHANGED <<svcVars, mgrVars, todo, cancelled, mStopClosed, dStopClosed,
                   stopLogClosed, dwg, mainDone, signal>>

\* case <-d.stopCh: return; the deferred d.manager.shutdown().
SwStopCh ==
    /\ gpc["sw"] = "select" /\ dStopClosed
    /\ BeginShutdown("sw")
    /\ UNCHANGED <<svcVars, mgrVars, cancelled, mStopClosed, dStopClosed,
                   stopLogClosed, dwg, mainDone, signal>>

\* A SIGINT or SIGTERM.  signal.Notify does not block sending on the
\* unbuffered signalC: the signal reaches the watcher only while it waits in
\* the select, and is dropped otherwise.
Signal ==
    /\ signal = "none"
    /\ IF gpc["sw"] = "select"
       THEN /\ signal' = "caught"
            /\ BeginShutdown("sw")
       ELSE /\ signal' = "lost"
            /\ UNCHANGED <<gpc, todo>>
    /\ UNCHANGED <<svcVars, mgrVars, cancelled, mStopClosed, dStopClosed,
                   stopLogClosed, dwg, mainDone>>

\* Faulty variant: the watcher does not wait for the manager.
SwWaitManagerNoWait ==
    /\ gpc["sw"] = "wait_manager"
    /\ gpc' = [gpc EXCEPT !["sw"] = "done"]
    /\ stopLogClosed' = TRUE
    /\ dwg' = dwg - 1
    /\ UNCHANGED <<svcVars, mgrVars, todo, cancelled, mStopClosed, dStopClosed,
                   mainDone, signal>>

\* <-d.manager.ctx.Done(); <-d.manager.stopCh; close(d.stopLogCh);
\* d.wg.Done().  Both channels only ever close, so waiting on one and then
\* the other is waiting until both are closed.
SwWaitManager ==
    /\ gpc["sw"] = "wait_manager"
    /\ cancelled /\ mStopClosed
    /\ gpc' = [gpc EXCEPT !["sw"] = "done"]
    /\ stopLogClosed' = TRUE
    /\ dwg' = dwg - 1
    /\ UNCHANGED <<svcVars, mgrVars, todo, cancelled, mStopClosed, dStopClosed,
                   mainDone, signal>>

\* d.wg.Wait(); return err.
DaemonReturn ==
    /\ ~mainDone /\ dwg = 0
    /\ mainDone' = TRUE
    /\ UNCHANGED <<svcVars, mgrVars, gpc, todo, cancelled, mStopClosed,
                   dStopClosed, stopLogClosed, dwg, signal>>

Watcher == SwNotify \/ SwStopCh \/ SwWaitManager
Shutdown(c) == ScanCheck(c) \/ ScanCall(c)

Next ==
    \/ StartService \/ WaitDone \/ ManagerRoutineDefer
    \/ \E s \in Services : Service(s) \/ ServiceEnv(s)
    \/ \E c \in Callers : Shutdown(c)
    \/ MgWake \/ MgCancel
    \/ Watcher \/ Signal
    \/ DaemonReturn

(***************************************************************************)
(* Every goroutine that can run is eventually scheduled, and timers fire.  *)
(* Go's select picks a ready case at random, so an Idle select whose       *)
(* shutdown case is ready infinitely often takes it (strong fairness): the *)
(* server's Idle may leave for Run and fail to listen in between.  Signals,*)
(* notifications and a failing listener are the environment's and are not *)
(* assumed.                                                                *)
(***************************************************************************)
Fairness ==
    /\ WF_vars(StartService) /\ WF_vars(WaitDone) /\ WF_vars(ManagerRoutineDefer)
    /\ \A s \in Services : WF_vars(Service(s)) /\ SF_vars(IdleShutdown(s))
    /\ \A c \in Callers : WF_vars(Shutdown(c))
    /\ WF_vars(MgWake) /\ WF_vars(MgCancel) /\ WF_vars(Watcher)
    /\ WF_vars(DaemonReturn)

Spec == Init /\ [][Next]_vars /\ Fairness

-----------------------------------------------------------------------------
(* Properties.                                                             *)

\* Types; neither WaitGroup counter goes negative (Go panics if it does).
TypeOK ==
    /\ spc \in [Services -> {"new", "loop", "idle", "run", "done"}]
    /\ resp \in [Services -> [next : States, err : BOOLEAN]]
    /\ pollCount \in [Services -> 0..(MaxPollCount + 1)]
    /\ isStopped \in [Services -> BOOLEAN]
    /\ isShutdown \in [Services -> BOOLEAN]
    /\ stops \in [Services -> Nat]
    /\ wg \in 0..Cardinality(Services)
    /\ mpc \in {"launch", "wait", "returned", "done"}
    /\ launched \subseteq Services
    /\ gpc \in [Callers -> {"start", "select", "wait", "scan", "call", "cancel",
                            "wait_manager", "done"}]
    /\ todo \in [Callers -> SUBSET Services]
    /\ dwg \in 0..2
    /\ signal \in {"none", "caught", "lost"}

(***************************************************************************)
(* Stop runs exactly once for every service: never twice, and a            *)
(* startService goroutine that has returned ran it.  The exit path runs    *)
(* Stop only when isStopped is false, which startService resets at its     *)
(* start; the Stop case and RetryUntilSuccessPolicy set it.                *)
(***************************************************************************)
StopExactlyOnce ==
    \A s \in Services :
        /\ stops[s] <= 1
        /\ spc[s] = "done" => stops[s] = 1

(***************************************************************************)
(* signalWatcher closes stopLogCh, ending the daemon's logging, only after *)
(* every service goroutine has returned: it waits for m.ctx (cancelled by  *)
(* "mg" after m.stopCh) and for m.stopCh (closed when start's wg.Wait      *)
(* returned), so no service can still log.                                 *)
(***************************************************************************)
LogStopAfterServices ==
    stopLogClosed => \A s \in Services : spc[s] = "done"

(***************************************************************************)
(* A caught signal, or every service returning on its own, leads to        *)
(* daemon.Start returning: the watcher's manager.shutdown reaches every    *)
(* service, the services' Idle and Run leave on the shutdown signal, and   *)
(* the chain m.stopCh, m.ctx, d.stopCh, d.wg completes.                    *)
(***************************************************************************)
DaemonReturns ==
    (signal = "caught" \/ \A s \in Services : spc[s] = "done") ~> mainDone
=============================================================================
