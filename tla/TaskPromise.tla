---------------------------- MODULE TaskPromise ----------------------------
(***************************************************************************)
(* What the worker task queue promises to a caller that hands it a task    *)
(* and waits for the task's future (WorkerTask.callback): the task is tried *)
(* at most MaxAttempts times, it gets at most one verdict, a result only    *)
(* comes from a task that was tried, and a verdict always comes.            *)
(***************************************************************************)
EXTENDS Naturals

CONSTANTS Tasks, MaxAttempts

VARIABLES
    verdict,    \* verdict[t]: "none" | "pending" | "result" | "error"
    attempts    \* attempts[t]: how often t was given to some worker

vars == <<verdict, attempts>>

Init == /\ verdict = [t \in Tasks |-> "none"]
        /\ attempts = [t \in Tasks |-> 0]

\* A task is submitted; the queue may give it to a worker right away.
Submit(t) == /\ verdict[t] = "none"
             /\ verdict' = [verdict EXCEPT ![t] = "pending"]
             /\ \E n \in {0, 1} : attempts' = [attempts EXCEPT ![t] = n]

Attempt(t) == /\ verdict[t] = "pending"
              /\ attempts[t] < MaxAttempts
              /\ attempts' = [attempts EXCEPT ![t] = @ + 1]
              /\ UNCHANGED verdict

Answer(t) == /\ verdict[t] = "pending"
             /\ attempts[t] > 0
             /\ verdict' = [verdict EXCEPT ![t] = "result"]
             /\ UNCHANGED attempts

\* Several tasks may fail in the same step: one pass of the periodic check
\* gives up all tasks that no worker took in time.
Fail == \E T \in (SUBSET Tasks) \ {{}} :
          /\ \A t \in T : verdict[t] = "pending"
          /\ verdict' = [t \in Tasks |-> IF t \in T THEN "error" ELSE verdict[t]]
          /\ UNCHANGED attempts

Next == \/ \E t \in Tasks : Submit(t) \/ Attempt(t) \/ Answer(t)
        \/ Fail

Spec == Init /\ [][Next]_vars
=============================================================================
