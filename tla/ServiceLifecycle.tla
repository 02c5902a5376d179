-------------------------- MODULE ServiceLifecycle --------------------------
(***************************************************************************)
(* Abstract specification of what the daemon promises an observer of one  *)
(* service's reported state (spec section 4.3, transition table): the     *)
(* reported state of every service moves only along the edges of the     *)
(* lifecycle table, Exit can be reached from anywhere, and Exit is        *)
(* terminal.  Nothing here says why a transition is taken (callback       *)
(* errors, timers, cancellation): that is the business of ServiceManager, *)
(* which is shown to implement this module.                               *)
(***************************************************************************)
CONSTANTS Services

VARIABLE status

\* "None" is the reported state before the service's first report.
States == {"Init", "Idle", "Run", "Stop", "Exit"}

\* The lifecycle table of spec section 4.3, as a set of edges.
Edges ==
    { <<"None", "Init">>,
      <<"Init", "Idle">>, <<"Init", "Stop">>,
      <<"Idle", "Run">>,  <<"Idle", "Stop">>,
      <<"Run", "Stop">>,
      <<"Stop", "Init">> }
    \cup { <<s, "Exit">> : s \in {"None", "Init", "Idle", "Run", "Stop"} }

Init == status = [s \in Services |-> "None"]

Enter(s, t) ==
    /\ <<status[s], t>> \in Edges
    /\ status' = [status EXCEPT ![s] = t]

Next == \E s \in Services, t \in States : Enter(s, t)

Spec == Init /\ [][Next]_status
=============================================================================
