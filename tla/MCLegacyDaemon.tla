---------------------------- MODULE MCLegacyDaemon ----------------------------
(***************************************************************************)
(* Model-checking instance of LegacyDaemon: the multi_service example, an *)
(* API server and a poller, under a run policy per service.               *)
(***************************************************************************)
EXTENDS LegacyDaemon

MCServices == {"api", "poll"}
MCOrder == <<"api", "poll">>
MCRunner == [s \in MCServices |-> s]

\* The server runs once; the poller runs until stopped.
MCPolicy == [s \in MCServices |-> IF s = "api" THEN "run_once_unbiased"
                                               ELSE "until_stopped"]

\* The poller runs until its first successful Run.
MCRetryPolicy == [s \in MCServices |-> IF s = "api" THEN "run_once_unbiased"
                                                    ELSE "run_once_success"]
=============================================================================
