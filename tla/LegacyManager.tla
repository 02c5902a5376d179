---------------------------- MODULE LegacyManager ----------------------------
(***************************************************************************)
(* The older ServiceConfig generation of the manager: src/manager.go with  *)
(* the flags of src/service_config.go.                                     *)
(*                                                                         *)
(* manager.start spawns a goroutine that waits on stopCh and then runs     *)
(* manager.shutdown, then wg.Add(1); go startService(s) for every service  *)
(* in slice order, then wg.Wait() and close(completeCh).  startService     *)
(* loops: a select on m.ctx.Done() with a default branch that runs the     *)
(* callback of svcResp.NextState.  A response with NextState Exit and no   *)
(* error takes the exit path: Stop unless isStopped, then close ShutdownC  *)
(* and StateC unless isShutdown.  shutdown closes ShutdownC and StateC of  *)
(* every service whose isShutdown is false.  Both read isShutdown without  *)
(* the ServiceConfig mutex; the check and the close are separate steps.    *)
(*                                                                         *)
(* Closing a closed channel panics; neither goroutine recovers, so the     *)
(* process dies: `crashed` and every action is disabled.  Log sends on     *)
(* logC are left out.  The daemon of this generation (closing stopCh,      *)
(* cancelling m.ctx) is not in src/; it is the environment here.           *)
(***************************************************************************)
EXTENDS Naturals, FiniteSets

CONSTANTS
    Services,    \* the services, launched in the order ServiceOrder
    ServiceOrder,\* the manager's services slice, a sequence of Services
    Policy,      \* Policy[s]: svcCfg.opts.runPolicy
    Responses    \* ServiceResponses the callbacks may return: [next, err]

States == {"Init", "Idle", "Run", "Stop", "Exit"}
Policies == {"until_stopped", "run_once_unbiased", "run_once_success"}

ASSUME Policy \in [Services -> Policies]
ASSUME Responses \subseteq [next : States, err : BOOLEAN]

VARIABLES
    spc,          \* spc[s]: where service s's startService goroutine is
    resp,         \* resp[s]: svcResp, the response last returned
    isStopped,    \* svcCfg.isStopped
    isShutdown,   \* svcCfg.isShutdown
    chClosed,     \* ShutdownC (and StateC) of s have been closed
    wg,           \* the manager's WaitGroup counter
    mpc,          \* manager.start: "launch", "wait", "done"
    launched,     \* services whose goroutine has been started
    gpc,          \* the stop-watching goroutine: "wait", "scan", "close", "done"
    todo,         \* services the shutdown loop has not visited
    cancelled,    \* m.ctx is done
    stopClosed,   \* m.stopCh has been closed
    completeClosed, \* m.completeCh has been closed
    crashed,      \* a close of a closed channel panicked
    stops         \* history: Stop callbacks run for s

vars == <<spc, resp, isStopped, isShutdown, chClosed, wg, mpc, launched, gpc,
          todo, cancelled, stopClosed, completeClosed, crashed, stops>>

SPCs == {"new", "loop", "exit_stop", "exit_check", "exit_close", "done"}

\* First element of the services slice in a set, the order `range` visits.
NextInOrder(S) ==
    ServiceOrder[CHOOSE i \in DOMAIN ServiceOrder :
                    /\ ServiceOrder[i] \in S
                    /\ \A j \in 1..(i - 1) : ServiceOrder[j] \notin S]

\* NewServiceConfig: isStopped starts TRUE, isShutdown FALSE.
Init ==
    /\ spc = [s \in Services |-> "new"]
    /\ resp = [s \in Services |-> [next |-> "Init", err |-> FALSE]]
    /\ isStopped = [s \in Services |-> TRUE]
    /\ isShutdown = [s \in Services |-> FALSE]
    /\ chClosed = [s \in Services |-> FALSE]
    /\ wg = 0
    /\ mpc = "launch"
    /\ launched = {}
    /\ gpc = "wait"
    /\ todo = {}
    /\ cancelled = FALSE
    /\ stopClosed = FALSE
    /\ completeClosed = FALSE
    /\ crashed = FALSE
    /\ stops = [s \in Services |-> 0]

-----------------------------------------------------------------------------
(* manager.start                                                           *)

\* m.wg.Add(1); go m.startService(service), for the next service in order.
StartService ==
    LET s == NextInOrder(Services \ launched) IN
    /\ ~crashed
    /\ mpc = "launch"
    /\ wg' = wg + 1
    /\ launched' = launched \cup {s}
    /\ spc' = [spc EXCEPT ![s] = "loop"]
    /\ mpc' = IF launched' = Services THEN "wait" ELSE "launch"
    /\ UNCHANGED <<resp, isStopped, isShutdown, chClosed, gpc, todo, cancelled,
                   stopClosed, completeClosed, crashed, stops>>

\* Faulty variant: wg.Wait() returns with one goroutine still counted.
WaitDoneOffByOne ==
    /\ ~crashed
    /\ mpc = "wait"
    /\ wg <= 1
    /\ completeClosed' = TRUE
    /\ mpc' = "done"
    /\ UNCHANGED <<spc, resp, isStopped, isShutdown, chClosed, wg, launched,
                   gpc, todo, cancelled, stopClosed, crashed, stops>>

\* m.wg.Wait(); close(m.completeCh).
WaitDone ==
    /\ ~crashed
    /\ mpc = "wait"
    /\ wg = 0
    /\ completeClosed' = TRUE
    /\ mpc' = "done"
    /\ UNCHANGED <<spc, resp, isStopped, isShutdown, chClosed, wg, launched,
                   gpc, todo, cancelled, stopClosed, crashed, stops>>

-----------------------------------------------------------------------------
(* startService                                                            *)

\* `return` out of startService: the deferred m.wg.Done().
Return(s) ==
    /\ spc' = [spc EXCEPT ![s] = "done"]
    /\ wg' = wg - 1

\* case <-m.ctx.Done(): svcResp = NewResponse(nil, ExitState).  The select
\* then loops; with m.ctx done it takes this case again on every iteration
\* and never reaches the exit path in `default`, so after the first time the
\* goroutine spins without changing state (a stuttering step).
CtxDone(s) ==
    /\ ~crashed
    /\ spc[s] = "loop"
    /\ cancelled
    /\ resp[s] # [next |-> "Exit", err |-> FALSE]
    /\ resp' = [resp EXCEPT ![s] = [next |-> "Exit", err |-> FALSE]]
    /\ UNCHANGED <<spc, isStopped, isShutdown, chClosed, wg, mpc, launched, gpc,
                   todo, cancelled, stopClosed, completeClosed, crashed, stops>>

\* Run policies applied to Run's response r (lines 56-74): the response
\* the loop goes on with.  RetryUntilSuccessPolicy runs Stop itself.
AfterRun(s, r) ==
    CASE Policy[s] = "run_once_unbiased" -> [r EXCEPT !.next = "Exit"]
      [] Policy[s] = "run_once_success" /\ ~r.err -> [next |-> "Exit", err |-> FALSE]
      [] OTHER -> r

\* ServiceConfig.setIsStopped: the flag written under cfg.mu.
setIsStopped(s, v) == isStopped' = [isStopped EXCEPT ![s] = v]

StopInRetry(s, r) == Policy[s] = "run_once_success" /\ ~r.err

\* Lines 87-116 after a callback: an error loops again (`continue`), Exit
\* with no error takes the exit path, anything else loops.
AfterCallback(s, r) ==
    spc' = [spc EXCEPT ![s] = IF ~r.err /\ r.next = "Exit" THEN "exit_stop"
                                                          ELSE "loop"]

\* default: the callback of svcResp.NextState.  A response Exit that
\* carries an error has no case in the switch and `continue`s for ever:
\* like the Done case it only stutters, so it is not a step here.
Step(s) ==
    /\ ~crashed
    /\ spc[s] = "loop"
    /\ ~cancelled
    /\ resp[s].next # "Exit"
    /\ \E r \in Responses :
        CASE resp[s].next \in {"Init", "Idle"} ->
                /\ resp' = [resp EXCEPT ![s] = r]
                /\ AfterCallback(s, r)
                /\ UNCHANGED <<isStopped, wg, stops>>
          [] resp[s].next = "Run" ->
                /\ resp' = [resp EXCEPT ![s] = AfterRun(s, r)]
                /\ AfterCallback(s, AfterRun(s, r))
                /\ IF StopInRetry(s, r)
                   THEN /\ stops' = [stops EXCEPT ![s] = @ + 1]
                        /\ setIsStopped(s, TRUE)
                   ELSE UNCHANGED <<isStopped, stops>>
                /\ UNCHANGED wg
          [] resp[s].next = "Stop" ->
                \* service.stop(), its error only logged; setIsStopped(true); return
                /\ UNCHANGED resp
                /\ stops' = [stops EXCEPT ![s] = @ + 1]
                /\ setIsStopped(s, TRUE)
                /\ Return(s)
    /\ UNCHANGED <<isShutdown, chClosed, mpc, launched, gpc, todo, cancelled,
                   stopClosed, completeClosed, crashed>>

\* if !svcCfg.isStopped { service.stop(); svcCfg.setIsStopped(true) }
ExitStop(s) ==
    /\ ~crashed
    /\ spc[s] = "exit_stop"
    /\ IF ~isStopped[s]
       THEN /\ stops' = [stops EXCEPT ![s] = @ + 1]
            /\ setIsStopped(s, TRUE)
       ELSE UNCHANGED <<stops, isStopped>>
    /\ spc' = [spc EXCEPT ![s] = "exit_check"]
    /\ UNCHANGED <<resp, isShutdown, chClosed, wg, mpc, launched, gpc, todo,
                   cancelled, stopClosed, completeClosed, crashed>>

\* if !svcCfg.isShutdown, read without the mutex; else log and return.
ExitCheckShutdown(s) ==
    /\ ~crashed
    /\ spc[s] = "exit_check"
    /\ IF isShutdown[s]
       THEN Return(s)
       ELSE /\ spc' = [spc EXCEPT ![s] = "exit_close"]
            /\ UNCHANGED wg
    /\ UNCHANGED <<resp, isStopped, isShutdown, chClosed, mpc, launched, gpc,
                   todo, cancelled, stopClosed, completeClosed, crashed, stops>>

\* close(ShutdownC); close(StateC); setIsShutdown(true); return.  A channel
\* closed meanwhile by shutdown makes close panic.
\* Faulty variant: an explicit m.wg.Done() before the deferred one.
ExitCloseDoneTwice(s) ==
    /\ ~crashed
    /\ spc[s] = "exit_close"
    /\ crashed' = chClosed[s]
    /\ chClosed' = [chClosed EXCEPT ![s] = TRUE]
    /\ isShutdown' = [isShutdown EXCEPT ![s] = TRUE]
    /\ spc' = [spc EXCEPT ![s] = "done"]
    /\ wg' = wg - 2
    /\ UNCHANGED <<resp, isStopped, mpc, launched, gpc, todo, cancelled,
                   stopClosed, completeClosed, stops>>

ExitClose(s) ==
    /\ ~crashed
    /\ spc[s] = "exit_close"
    /\ crashed' = chClosed[s]
    /\ chClosed' = [chClosed EXCEPT ![s] = TRUE]
    /\ isShutdown' = [isShutdown EXCEPT ![s] = TRUE]
    /\ Return(s)
    /\ UNCHANGED <<resp, isStopped, mpc, launched, gpc, todo, cancelled,
                   stopClosed, completeClosed, stops>>

-----------------------------------------------------------------------------
(* The stop-watching goroutine of start and manager.shutdown               *)

\* <-m.stopCh; m.shutdown() starts its range over m.services.
ShutdownWake ==
    /\ ~crashed
    /\ gpc = "wait"
    /\ stopClosed
    /\ gpc' = "scan"
    /\ todo' = Services
    /\ UNCHANGED <<spc, resp, isStopped, isShutdown, chClosed, wg, mpc,
                   launched, cancelled, stopClosed, completeClosed, crashed, stops>>

\* Faulty variant: `return` instead of skipping a service already shut down.
ShutdownCheckBreak ==
    LET s == NextInOrder(todo) IN
    /\ ~crashed
    /\ gpc = "scan"
    /\ IF todo = {} \/ isShutdown[s]
       THEN /\ gpc' = "done"
            /\ UNCHANGED todo
       ELSE /\ gpc' = "close"
            /\ UNCHANGED todo
    /\ UNCHANGED <<spc, resp, isStopped, isShutdown, chClosed, wg, mpc,
                   launched, cancelled, stopClosed, completeClosed, crashed, stops>>

\* if !svcCfg.isShutdown, read without the mutex, for the next service.
ShutdownCheck ==
    LET s == NextInOrder(todo) IN
    /\ ~crashed
    /\ gpc = "scan"
    /\ IF todo = {}
       THEN /\ gpc' = "done"
            /\ UNCHANGED todo
       ELSE IF isShutdown[s]
            THEN /\ todo' = todo \ {s}
                 /\ UNCHANGED gpc
            ELSE /\ gpc' = "close"
                 /\ UNCHANGED todo
    /\ UNCHANGED <<spc, resp, isStopped, isShutdown, chClosed, wg, mpc,
                   launched, cancelled, stopClosed, completeClosed, crashed, stops>>

\* close(ShutdownC); setIsShutdown(true); close(StateC).
ShutdownClose ==
    LET s == NextInOrder(todo) IN
    /\ ~crashed
    /\ gpc = "close"
    /\ crashed' = chClosed[s]
    /\ chClosed' = [chClosed EXCEPT ![s] = TRUE]
    /\ isShutdown' = [isShutdown EXCEPT ![s] = TRUE]
    /\ todo' = todo \ {s}
    /\ gpc' = "scan"
    /\ UNCHANGED <<spc, resp, isStopped, wg, mpc, launched, cancelled,
                   stopClosed, completeClosed, stops>>

-----------------------------------------------------------------------------
(* The daemon of this generation (not in src/): it closes stopCh to ask    *)
(* for a shutdown and cancels m.ctx when it catches a signal.              *)

CloseStopCh ==
    /\ ~crashed
    /\ ~stopClosed
    /\ stopClosed' = TRUE
    /\ UNCHANGED <<spc, resp, isStopped, isShutdown, chClosed, wg, mpc,
                   launched, gpc, todo, cancelled, completeClosed, crashed, stops>>

CancelCtx ==
    /\ ~crashed
    /\ ~cancelled
    /\ cancelled' = TRUE
    /\ UNCHANGED <<spc, resp, isStopped, isShutdown, chClosed, wg, mpc,
                   launched, gpc, todo, stopClosed, completeClosed, crashed, stops>>

-----------------------------------------------------------------------------
Service(s) ==
    \/ CtxDone(s)
    \/ Step(s)
    \/ ExitStop(s)
    \/ ExitCheckShutdown(s)
    \/ ExitClose(s)

Shutdown == ShutdownWake \/ ShutdownCheck \/ ShutdownClose

Next ==
    \/ StartService
    \/ WaitDone
    \/ \E s \in Services : Service(s)
    \/ Shutdown
    \/ CloseStopCh
    \/ CancelCtx

\* Goroutines are scheduled; what the daemon does and when is not assumed.
Fairness ==
    /\ WF_vars(StartService)
    /\ WF_vars(WaitDone)
    /\ \A s \in Services : WF_vars(Service(s))
    /\ WF_vars(Shutdown)

Spec == Init /\ [][Next]_vars /\ Fairness

-----------------------------------------------------------------------------
(* Properties.                                                             *)

\* Types; the WaitGroup counter never goes negative (Go panics if it does).
TypeOK ==
    /\ spc \in [Services -> SPCs]
    /\ resp \in [Services -> [next : States, err : BOOLEAN]]
    /\ isStopped \in [Services -> BOOLEAN]
    /\ isShutdown \in [Services -> BOOLEAN]
    /\ chClosed \in [Services -> BOOLEAN]
    /\ wg \in 0..Cardinality(Services)
    /\ mpc \in {"launch", "wait", "done"}
    /\ launched \subseteq Services
    /\ gpc \in {"wait", "scan", "close", "done"}
    /\ todo \subseteq Services
    /\ stops \in [Services -> Nat]

(***************************************************************************)
(* manager.start closes completeCh only after every startService          *)
(* goroutine has returned: wg.Add runs before each `go`, wg.Done on every  *)
(* return path, so wg.Wait cannot pass while a service still runs.         *)
(***************************************************************************)
CompleteAfterAllReturned ==
    completeClosed => \A s \in Services : spc[s] = "done"

(***************************************************************************)
(* Once the daemon closes stopCh, every service's ShutdownC is eventually  *)
(* closed (or the process has died), whether shutdown closes it or the     *)
(* service closed it on its own exit path first and shutdown skips it.     *)
(***************************************************************************)
ShutdownReachesAll ==
    stopClosed ~> (crashed \/ \A s \in Services : chClosed[s])

(***************************************************************************)
(* Spec 6 (legacy paths): isStopped and isShutdown are guarded by a mutex  *)
(* and flipped idempotently, so ShutdownC is closed once and close never   *)
(* panics, whichever of startService's exit path and shutdown comes first. *)
(***************************************************************************)
ShutdownClosedOnce == ~crashed
=============================================================================
