------------------------- MODULE MCWorkerTaskQueue -------------------------
(***************************************************************************)
(* Two worker connections and two tasks.  w1 takes any "tag" task, w2 only *)
(* tasks of one cloud: it is the more specific choice for t1 and cannot    *)
(* take t2, which is on hold while w1 is away.                             *)
(***************************************************************************)
EXTENDS WorkerTaskQueue, TLC

CONSTANTS w1, w2, t1, t2, tag, validate

MCName == t1 :> tag @@ t2 :> tag
MCAttrs == t1 :> ("cloud" :> "aws") @@ t2 :> ("cloud" :> "gcp")
MCPerforms == [w \in Workers |-> IF w = w2 THEN {tag, validate} ELSE {tag}]
MCFilter == [w \in Workers |-> IF w = w2 THEN "cloud" :> {"aws"} ELSE << >>]
=============================================================================
