------------------------- MODULE MCServiceManager -------------------------
(***************************************************************************)
(* Model-checking instance of ServiceManager: two services, callbacks that *)
(* succeed or fail (the panic outcome is modelled but not run), two Run    *)
(* callbacks per service so that the Stop -> Init loop back is taken.      *)
(***************************************************************************)
EXTENDS ServiceManager

MCServices == {"s1", "s2"}

=============================================================================
