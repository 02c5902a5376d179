--------------------------- MODULE ServiceManager ---------------------------
(***************************************************************************)
(* RunContinuousManager.Manage (src/service_manager.go), one goroutine per *)
(* service, each driving its runner's Init/Idle/Run/Stop callbacks and     *)
(* reporting every state it is about to enter through updateState.         *)
(*                                                                         *)
(* The loop is cut at its suspension points, one pc value per point:       *)
(*   "report"      top of the loop: updateState(ds.Name, state)            *)
(*   "select"      select { <-sctx.Done() | <-timeout.C }                  *)
(*   "final_stop"  after the loop: if !hasStopped { Runner.Stop }          *)
(*   "final_report" updateState(ds.Name, StateExit)                        *)
(*   "done"        Manage has returned (normally or from a recovered panic)*)
(* A callback is a single step whose outcome is chosen from Outcomes: it   *)
(* returns nil ("ok"), an error ("err"), or panics ("panic").  The timer   *)
(* is abstracted to "fires eventually"; its duration (StartupDelay,        *)
(* DefaultDelay, StateTimeouts) only changes when, never whether.          *)
(*                                                                         *)
(* updateState is modelled by its effect on what observers see: reported[s]*)
(* is the last state service s reported.  The composition with the        *)
(* supervisor's aggregator and the state topic is in later modules.        *)
(***************************************************************************)
EXTENDS Naturals

CONSTANTS
    Services,   \* the services registered with the daemon
    Outcomes,   \* the outcomes a callback may have: a subset of {"ok","err","panic"}
    MaxRuns     \* bound on Run callbacks per service (the loop is unbounded)

ASSUME Outcomes \subseteq {"ok", "err", "panic"} /\ "ok" \in Outcomes
ASSUME MaxRuns \in Nat \ {0}

VARIABLES
    cancelled,  \* the daemon root context (parent of every sctx) is cancelled
    pc,         \* pc[s]: where Manage of service s is, see above
    state,      \* Manage's local variable `state`
    hasStopped, \* Manage's local variable `hasStopped`
    reported,   \* last state s passed to updateState ("None" before the first)
    lastCall,   \* history: last callback invoked, and the state then reported
    stops,      \* history: Stop callbacks since the last Init callback
    runs        \* history: Run callbacks so far (bounded by MaxRuns)

vars == <<cancelled, pc, state, hasStopped, reported, lastCall, stops, runs>>

States    == {"Init", "Idle", "Run", "Stop", "Exit"}
Callbacks == {"Init", "Idle", "Run", "Stop"}
PCs       == {"report", "select", "final_stop", "final_report", "done"}

\* Faulty variant: Run goes straight back to Init, skipping the cleanup Stop.
SuccessorRunToInit ==
    [ Init |-> [ok |-> "Idle", err |-> "Stop"],
      Idle |-> [ok |-> "Run",  err |-> "Stop"],
      Run  |-> [ok |-> "Init", err |-> "Init"],
      Stop |-> [ok |-> "Init", err |-> "Init"] ]

(***************************************************************************)
(* The switch in the timer branch of Manage, as a table: the state entered *)
(* next after the callback of `state` returned nil or an error.            *)
(***************************************************************************)
Successor ==
    [ Init |-> [ok |-> "Idle", err |-> "Stop"],
      Idle |-> [ok |-> "Run",  err |-> "Stop"],
      Run  |-> [ok |-> "Stop", err |-> "Stop"],
      Stop |-> [ok |-> "Init", err |-> "Init"] ]

\* Bookkeeping of the history variables when callback cb of s is invoked.
Invoke(s, cb) ==
    /\ lastCall' = [lastCall EXCEPT ![s] = [cb |-> cb, seen |-> reported[s]]]
    /\ stops' = [stops EXCEPT ![s] = IF cb = "Init" THEN 0
                                     ELSE IF cb = "Stop" THEN @ + 1 ELSE @]
    /\ runs' = [runs EXCEPT ![s] = IF cb = "Run" THEN @ + 1 ELSE @]

Init ==
    /\ cancelled = FALSE
    /\ pc = [s \in Services |-> "report"]
    /\ state = [s \in Services |-> "Init"]
    /\ hasStopped = [s \in Services |-> FALSE]
    /\ reported = [s \in Services |-> "None"]
    /\ lastCall = [s \in Services |-> [cb |-> "None", seen |-> "None"]]
    /\ stops = [s \in Services |-> 0]
    /\ runs = [s \in Services |-> 0]

\* The daemon cancels the root context (shutdown on an OS signal).
Cancel ==
    /\ ~cancelled
    /\ cancelled' = TRUE
    /\ UNCHANGED <<pc, state, hasStopped, reported, lastCall, stops, runs>>

\* Top of the loop: updateState(ds.Name, state).
UpdateState(s) ==
    /\ pc[s] = "report"
    /\ reported' = [reported EXCEPT ![s] = state[s]]
    /\ pc' = [pc EXCEPT ![s] = "select"]
    /\ UNCHANGED <<cancelled, state, hasStopped, lastCall, stops, runs>>

\* Faulty variants of SelectDone: `continue` without `state = StateExit`;
\* and an unconditional `for {` loop that goes on reporting after Exit.
SelectDoneKeepsState(s) ==
    /\ pc[s] = "select"
    /\ cancelled
    /\ pc' = [pc EXCEPT ![s] = "report"]
    /\ UNCHANGED <<cancelled, state, hasStopped, reported, lastCall, stops, runs>>

SelectDoneLoopsOn(s) ==
    /\ pc[s] = "select"
    /\ cancelled
    /\ state' = [state EXCEPT ![s] = "Exit"]
    /\ pc' = [pc EXCEPT ![s] = "report"]
    /\ UNCHANGED <<cancelled, hasStopped, reported, lastCall, stops, runs>>

\* case <-sctx.Done(): state = StateExit; continue (the loop condition fails).
SelectDone(s) ==
    /\ pc[s] = "select"
    /\ cancelled
    /\ state' = [state EXCEPT ![s] = "Exit"]
    /\ pc' = [pc EXCEPT ![s] = "final_stop"]
    /\ UNCHANGED <<cancelled, hasStopped, reported, lastCall, stops, runs>>

(***************************************************************************)
(* case <-timeout.C: clear hasStopped, run the callback of `state`, move   *)
(* to its successor (setting hasStopped after Stop) and reset the timer.   *)
(* A panic unwinds Manage: the deferred recover logs it and Manage returns.*)
(* Go's select may take this branch even when sctx.Done() is also ready.   *)
(***************************************************************************)
SelectTimer(s) ==
    /\ pc[s] = "select"
    /\ state[s] = "Run" => runs[s] < MaxRuns
    /\ Invoke(s, state[s])
    /\ \E o \in Outcomes :
          IF o = "panic"
          THEN /\ pc' = [pc EXCEPT ![s] = "done"]
               /\ hasStopped' = [hasStopped EXCEPT ![s] = FALSE]
               /\ UNCHANGED state
          ELSE /\ pc' = [pc EXCEPT ![s] = "report"]
               /\ state' = [state EXCEPT ![s] = Successor[state[s]][o]]
               /\ hasStopped' = [hasStopped EXCEPT ![s] = (state[s] = "Stop")]
    /\ UNCHANGED <<cancelled, reported>>

\* Faulty variant: Stop after the loop without the `if !hasStopped` guard.
FinalStopAlways(s) ==
    /\ pc[s] = "final_stop"
    /\ Invoke(s, "Stop")
    /\ \E o \in Outcomes :
          pc' = [pc EXCEPT ![s] = IF o = "panic" THEN "done" ELSE "final_report"]
    /\ UNCHANGED <<cancelled, state, hasStopped, reported>>

\* After the loop: if !hasStopped { ds.Runner.Stop(sctx) }.
FinalStop(s) ==
    /\ pc[s] = "final_stop"
    /\ IF hasStopped[s]
       THEN /\ pc' = [pc EXCEPT ![s] = "final_report"]
            /\ UNCHANGED <<lastCall, stops, runs>>
       ELSE /\ Invoke(s, "Stop")
            /\ \E o \in Outcomes :
                  pc' = [pc EXCEPT ![s] = IF o = "panic" THEN "done"
                                                         ELSE "final_report"]
    /\ UNCHANGED <<cancelled, state, hasStopped, reported>>

\* updateState(ds.Name, StateExit); Manage returns.
FinalReport(s) ==
    /\ pc[s] = "final_report"
    /\ reported' = [reported EXCEPT ![s] = "Exit"]
    /\ pc' = [pc EXCEPT ![s] = "done"]
    /\ UNCHANGED <<cancelled, state, hasStopped, lastCall, stops, runs>>

Manage(s) ==
    \/ UpdateState(s)
    \/ SelectDone(s)
    \/ SelectTimer(s)
    \/ FinalStop(s)
    \/ FinalReport(s)

Next == Cancel \/ \E s \in Services : Manage(s)

(***************************************************************************)
(* Fairness.  Every Manage goroutine is scheduled (weak fairness on its    *)
(* steps).  When both cases of the select are ready Go picks one uniformly *)
(* at random, so a Done case that is enabled infinitely often is           *)
(* eventually taken: strong fairness on SelectDone.  Cancel is the         *)
(* environment's choice and gets no fairness.                              *)
(***************************************************************************)
Fairness ==
    \A s \in Services :
        /\ WF_vars(UpdateState(s))
        /\ WF_vars(SelectTimer(s))
        /\ WF_vars(FinalStop(s))
        /\ WF_vars(FinalReport(s))
        /\ SF_vars(SelectDone(s))

Spec == Init /\ [][Next]_vars /\ Fairness

-----------------------------------------------------------------------------
(***************************************************************************)
(* Properties.                                                             *)
(***************************************************************************)

\* Types, with `state` typed per program point: inside the loop it is
\* always a state with a callback, Exit only after the loop.
TypeOK ==
    /\ \A s \in Services : pc[s] \in {"report", "select"} => state[s] \in Callbacks
    /\ cancelled \in BOOLEAN
    /\ pc \in [Services -> PCs]
    /\ state \in [Services -> States]
    /\ hasStopped \in [Services -> BOOLEAN]
    /\ reported \in [Services -> States \cup {"None"}]
    /\ lastCall \in [Services -> [cb : Callbacks \cup {"None"},
                                  seen : States \cup {"None"}]]
    /\ stops \in [Services -> Nat]
    /\ runs \in [Services -> 0..MaxRuns]

(***************************************************************************)
(* Stop exactly once per cycle (spec 4.3 and 8): between two Init          *)
(* callbacks, and between the last Init and the Exit report, Stop runs at  *)
(* most once, and a service that reported Exit ran Stop exactly once in    *)
(* its last cycle.  This is what hasStopped, its reset in the timer branch *)
(* and the `if !hasStopped` after the loop are for.                        *)
(***************************************************************************)
StopExactlyOncePerCycle ==
    \A s \in Services :
        /\ stops[s] <= 1
        /\ reported[s] = "Exit" => stops[s] = 1 /\ lastCall[s].cb = "Stop"

(***************************************************************************)
(* Shutdown: once the root context is cancelled, every manager eventually  *)
(* reports Exit, even one looping through Init errors (spec 8: cancelling  *)
(* the root drives every manager to Exit).                                 *)
(***************************************************************************)
AllExited == \A s \in Services : reported[s] = "Exit"

CancelLeadsToExit == cancelled ~> AllExited

(***************************************************************************)
(* Refinement: the states Manage reports follow the lifecycle table of     *)
(* ServiceLifecycle, with Exit terminal.                                   *)
(***************************************************************************)
Lifecycle == INSTANCE ServiceLifecycle WITH status <- reported

LifecycleRefinement == Lifecycle!Spec

=============================================================================
