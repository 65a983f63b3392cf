-------------------------- MODULE MCSubscriptions --------------------------
(***************************************************************************)
(* Subscribers, one event, requests and connections by name.               *)
(***************************************************************************)
EXTENDS Subscriptions, TLC

CONSTANTS s1, s2, e1, q1, q2, c1, c2
=============================================================================
