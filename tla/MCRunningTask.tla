--------------------------- MODULE MCRunningTask ---------------------------
(***************************************************************************)
(* Instances of RunningTask: collect is the shape of the collect and       *)
(* cleanup workflow, an action, a command, an event and an action again;   *)
(* strict stops at the first error and waits for an event.                 *)
(***************************************************************************)
EXTENDS RunningTask, TLC

CONSTANTS collector, tagger

Collect == <<"perform", "execute", "emit", "perform">>
CollectOnError == [i \in 1..4 |-> "Continue"]
Strict == <<"perform", "wait", "perform">>
StrictOnError == <<"Continue", "Continue", "Stop">>
Short == <<"perform", "perform">>
ShortOnError == <<"Continue", "Continue">>

\* One subscriber handles all actions, the other one the first.
MCOffered == [s \in Subs |-> {i \in 1..N : Action[i] = "perform" /\ (s = collector \/ i = 1)}]

\* The tagger answers its action once more, or late; or nobody does.
MCUnasked == [s \in Subs |-> IF s = tagger THEN {1} ELSE {}]
MCAsked == [s \in Subs |-> {}]
=============================================================================
