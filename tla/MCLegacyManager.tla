--------------------------- MODULE MCLegacyManager ---------------------------
(***************************************************************************)
(* Model-checking instance of LegacyManager: two services, one with        *)
(* RetryUntilSuccessPolicy and one with RunOncePolicy, and callbacks that  *)
(* may return any next state with or without an error.                     *)
(***************************************************************************)
EXTENDS LegacyManager

MCServices == {"s1", "s2"}
MCOrder == <<"s1", "s2">>
MCPolicy == [s \in MCServices |-> IF s = "s1" THEN "run_once_success"
                                              ELSE "run_once_unbiased"]
MCResponses == [next : States, err : BOOLEAN]
=============================================================================
