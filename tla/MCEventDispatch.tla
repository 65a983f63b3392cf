--------------------------- MODULE MCEventDispatch ---------------------------
(* Three threads with two operations each on a one-shot listener and one that is   *)
(* waited for.                                                                      *)
EXTENDS EventDispatch
=============================================================================
