--------------------------- MODULE MCGraphUpdate ---------------------------
(***************************************************************************)
(* A graph with two accounts, the first one with volumes.  The batch b      *)
(* replaces both accounts, x only the first one: b adds a volume and       *)
(* changes the second account, x changes the first account and puts the    *)
(* other volume in place of the first one.  Each is an update, an insert   *)
(* or a delete relative to what the other one leaves.                      *)
(***************************************************************************)
EXTENDS GraphUpdate, TLC

CONSTANTS root, acc, acc2, vol1, vol2, b, x

MCAbove == root :> {root} @@ acc :> {root, acc} @@ acc2 :> {root, acc2}
             @@ vol1 :> {root, acc, vol1} @@ vol2 :> {root, acc, vol2}
MCStored == root :> 1 @@ acc :> 1 @@ acc2 :> 1 @@ vol1 :> 1

Graphs == b :> (root :> 2 @@ acc :> 1 @@ acc2 :> 2 @@ vol1 :> 1 @@ vol2 :> 2)
            @@ x :> (root :> 1 @@ acc :> 2 @@ vol2 :> 1)

MCRoots == [u \in Updates |-> IF u = b THEN <<acc, acc2>> ELSE <<acc>>]
MCPayload == [u \in Updates |-> Graphs[u]]
=============================================================================
