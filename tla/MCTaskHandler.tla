--------------------------- MODULE MCTaskHandler ---------------------------
(***************************************************************************)
(* A job, which waits for its previous run, a workflow of two steps that   *)
(* replaces its previous run and one of one step that skips.               *)
(***************************************************************************)
EXTENDS TaskHandler, TLC

CONSTANTS job, flow, once, r1, r2, r3

Surpass == job :> "Wait" @@ flow :> "Replace" @@ once :> "Skip"

MCKind == [d \in Descs |-> IF d = job THEN "job" ELSE "workflow"]
MCOnSurpass == [d \in Descs |-> Surpass[d]]
MCSteps == [d \in Descs |-> IF d \in {job, once} THEN 1 ELSE 2]

\* Run ids are interchangeable (used for safety only).
MCSymmetry == Permutations(Runs)
=============================================================================
