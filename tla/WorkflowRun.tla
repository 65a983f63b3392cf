---------------------------- MODULE WorkflowRun ----------------------------
(***************************************************************************)
(* What a run of a workflow promises to whoever has triggered it: its      *)
(* steps are taken in order, the command of a step is executed before the  *)
(* step is left, a restart takes the run up at the step that was stored,   *)
(* and a run is forgotten only when it is over, and then for ever.         *)
(***************************************************************************)
EXTENDS Naturals

CONSTANTS
    Last,       \* the last step; a run that has left it is over
    Commands    \* the steps with a command that has to be executed

VARIABLES
    at,         \* the step the run is in
    failed,     \* the run was ended by an error or a timeout
    known,      \* the run is in memory
    kept,       \* the run is in the database
    saved,      \* the step a restart takes it up at
    executed    \* the steps whose command was executed

vars == <<at, failed, known, kept, saved, executed>>

Over == Last + 1
Between(i, j) == {c \in Commands : i <= c /\ c < j}

Init ==
    /\ at \in 1..Over /\ Between(1, at) = {}
    /\ saved = at /\ executed = {}
    /\ failed = FALSE /\ known = TRUE /\ kept = TRUE

\* One or more steps are left behind, all their commands executed.
Advance ==
    /\ known /\ ~failed
    /\ \E j \in 1..Over :
         at < j /\ Between(at, j) \subseteq executed /\ at' = j
    /\ UNCHANGED <<failed, known, kept, saved, executed>>

\* A command is executed after those of all steps before, and not before its step is entered.
Execute ==
    /\ known
    /\ \E c \in Commands :
         /\ c <= at /\ (failed \/ Between(1, c) \subseteq executed)
         /\ executed' = executed \cup {c}
    /\ UNCHANGED <<at, failed, known, kept, saved>>

Save ==
    /\ known /\ kept /\ at # Over
    /\ saved' = at
    /\ UNCHANGED <<at, failed, known, kept, executed>>

\* The run is ended before its time.  The database hears of it now or later.
Fail ==
    /\ known /\ at # Over
    /\ at' = Over /\ failed' = TRUE
    /\ kept' \in {kept, FALSE}
    /\ UNCHANGED <<known, saved, executed>>

\* A run that is over is forgotten: by the database, then by the memory as well.
Forget ==
    /\ known /\ at = Over
    /\ kept' = FALSE /\ known' \in {known, FALSE}
    /\ UNCHANGED <<at, failed, saved, executed>>

\* The process starts anew.  No command is passed over on the way, and a failure that the
\* database has not heard of is undone.
Restart ==
    /\ known /\ kept
    /\ \E j \in saved..Over : Between(saved, j) = {} /\ at' = j
    /\ failed' = FALSE
    /\ UNCHANGED <<known, kept, saved, executed>>

Next == Advance \/ Execute \/ Save \/ Fail \/ Forget \/ Restart

Spec == Init /\ [][Next]_vars
=============================================================================
