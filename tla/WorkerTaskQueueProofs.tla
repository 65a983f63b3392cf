----------------------- MODULE WorkerTaskQueueProofs -----------------------
(***************************************************************************)
(* The worker task queue loses no task, leaves no task with a worker that  *)
(* is gone and tries each task at most MaxRetries + 1 times, for any set   *)
(* of workers, tasks, names and filters.                                   *)
(***************************************************************************)
EXTENDS WorkerTaskQueue, FiniteSetTheorems, TLAPS

-----------------------------------------------------------------------------
(* The inductive invariant *)

\* A locked loop only visits entries that exist: the retry loops visit tasks
\* in progress, the last loop of the check visits tasks on hold.
TodoInv == /\ phase = "idle" => todo = {}
           /\ phase \in {"detach", "check"} => todo \subseteq Outstanding
           /\ phase = "assign" => todo \subseteq Unassigned

\* A task that was never added was never dispatched, one in progress was.
FreshInv == /\ \A t \in Tasks : callback[t] = "none" => dispatched[t] = 0
            /\ \A t \in Outstanding : dispatched[t] > 0

IInv == TypeOK /\ TodoInv /\ NoLostTask /\ AtMatchingWorker /\ AttemptsBounded /\ FreshInv

-----------------------------------------------------------------------------
(* What the building blocks of the actions do to the books *)

\* The worker that is chosen is attached and matches the task.
LEMMA ChosenMatches ==
    ASSUME NEW t \in Tasks, NEW w \in subscriptions(t)
    PROVE  /\ w \in Workers
           /\ attached[w] = "on"
           /\ Name[t] \in Performs[w]
           /\ can_perform(w, t)
  BY DEF subscriptions, same_filter_len, matching_subscriptions, worker_by_task_name

\* Giving a task to a worker.
LEMMA AssignFact ==
    ASSUME TypeOK, NEW t \in Tasks, NEW w \in Workers, NEW r \in 0..MaxRetries,
           Assign(t, w, r)
    PROVE  /\ work_count' \in [Workers -> Int]
           /\ queue' \in [Workers -> Seq(Tasks)]
           /\ dispatched' \in [Tasks -> Nat]
           /\ dispatched'[t] = dispatched[t] + 1
           /\ \A u \in Tasks : u # t => dispatched'[u] = dispatched[u]
           /\ Outstanding' = Outstanding \cup {t}
           /\ outstanding_tasks' \in [Outstanding' -> InProgress]
           /\ outstanding_tasks'[t].worker = w
           /\ outstanding_tasks'[t].retry_counter = r
           /\ \A u \in Outstanding : u # t => outstanding_tasks'[u] = outstanding_tasks[u]
  <1> DEFINE e == [worker |-> w, retry_counter |-> r, late |-> FALSE]
  <1>1. e \in InProgress /\ e.worker = w /\ e.retry_counter = r
    BY DEF InProgress
  <1>2. outstanding_tasks' = Put(outstanding_tasks, t, e)
    BY DEF Assign
  <1>3. outstanding_tasks \in [DOMAIN outstanding_tasks -> InProgress]
    BY DEF TypeOK, Outstanding
  <1> HIDE DEF e
  <1>4. /\ DOMAIN outstanding_tasks' = DOMAIN outstanding_tasks \cup {t}
        /\ outstanding_tasks' \in [DOMAIN outstanding_tasks \cup {t} -> InProgress]
        /\ outstanding_tasks'[t] = e
        /\ \A u \in DOMAIN outstanding_tasks : u # t => outstanding_tasks'[u] = outstanding_tasks[u]
    BY <1>1, <1>2, <1>3 DEF Put
  <1>5. /\ work_count' \in [Workers -> Int]
        /\ queue' \in [Workers -> Seq(Tasks)]
        /\ dispatched' \in [Tasks -> Nat]
        /\ dispatched'[t] = dispatched[t] + 1
        /\ \A u \in Tasks : u # t => dispatched'[u] = dispatched[u]
    BY DEF TypeOK, Assign
  <1> QED
    BY <1>1, <1>4, <1>5 DEF Outstanding

\* Taking a task off the list of outstanding tasks.
LEMMA PopOutstanding ==
    ASSUME TypeOK, NEW t \in Tasks,
           outstanding_tasks' = Pop(outstanding_tasks, {t})
    PROVE  /\ Outstanding' = Outstanding \ {t}
           /\ outstanding_tasks' \in [Outstanding' -> InProgress]
           /\ \A u \in Outstanding' : outstanding_tasks'[u] = outstanding_tasks[u]
  <1>1. outstanding_tasks \in [DOMAIN outstanding_tasks -> InProgress]
    BY DEF TypeOK, Outstanding
  <1> QED
    BY <1>1 DEF Outstanding, Pop

\* Putting a task on hold.
LEMMA HoldFact ==
    ASSUME TypeOK, NEW t \in Tasks, NEW r \in 0..MaxRetries, Hold(t, r)
    PROVE  /\ Outstanding' = Outstanding \ {t}
           /\ outstanding_tasks' \in [Outstanding' -> InProgress]
           /\ \A u \in Outstanding' : outstanding_tasks'[u] = outstanding_tasks[u]
           /\ Unassigned' = Unassigned \cup {t}
           /\ unassigned_tasks' \in [Unassigned' -> OnHold]
           /\ t \notin Unassigned => unassigned_tasks'[t].retry_counter = r
           /\ \A u \in Unassigned : unassigned_tasks'[u] = unassigned_tasks[u]
           /\ UNCHANGED <<queue, work_count, dispatched>>
  <1> DEFINE e == [retry_counter |-> r, late |-> FALSE]
  <1>1. e \in OnHold /\ e.retry_counter = r
    BY DEF OnHold
  <1>2. unassigned_tasks \in [DOMAIN unassigned_tasks -> OnHold]
    BY DEF TypeOK, Unassigned
  <1>3. /\ Outstanding' = Outstanding \ {t}
        /\ outstanding_tasks' \in [Outstanding' -> InProgress]
        /\ \A u \in Outstanding' : outstanding_tasks'[u] = outstanding_tasks[u]
    BY PopOutstanding DEF Hold
  <1>4. UNCHANGED <<queue, work_count, dispatched>>
    BY DEF Hold
  <1>5. CASE t \in Unassigned
    <2>1. unassigned_tasks' = unassigned_tasks
      BY <1>5 DEF Hold
    <2> QED
      BY <1>2, <1>3, <1>4, <1>5, <2>1 DEF Unassigned
  <1>6. CASE t \notin Unassigned
    <2>1. unassigned_tasks' = Put(unassigned_tasks, t, e)
      BY <1>6 DEF Hold
    <2> HIDE DEF e
    <2>2. /\ DOMAIN unassigned_tasks' = DOMAIN unassigned_tasks \cup {t}
          /\ unassigned_tasks' \in [DOMAIN unassigned_tasks \cup {t} -> OnHold]
          /\ unassigned_tasks'[t] = e
          /\ \A u \in DOMAIN unassigned_tasks : u # t => unassigned_tasks'[u] = unassigned_tasks[u]
      BY <1>1, <1>2, <2>1 DEF Put
    <2> QED
      BY <1>1, <1>3, <1>4, <1>6, <2>2 DEF Unassigned
  <1> QED
    BY <1>5, <1>6
\* One more attempt stays within the bound when the counter was raised before.
LEMMA AssignBounded ==
    ASSUME TypeOK, AttemptsBounded, NEW t \in Tasks, NEW w \in Workers,
           NEW r \in 0..MaxRetries, Assign(t, w, r), dispatched[t] <= r,
           t \notin Unassigned', Unassigned' \subseteq Unassigned,
           \A u \in Unassigned' : unassigned_tasks'[u] = unassigned_tasks[u]
    PROVE  AttemptsBounded'
  <1>1. /\ dispatched'[t] = dispatched[t] + 1
        /\ \A u \in Tasks : u # t => dispatched'[u] = dispatched[u]
        /\ Outstanding' = Outstanding \cup {t}
        /\ outstanding_tasks'[t].retry_counter = r
        /\ \A u \in Outstanding : u # t => outstanding_tasks'[u] = outstanding_tasks[u]
    BY AssignFact
  <1>2. Outstanding \subseteq Tasks /\ Unassigned \subseteq Tasks /\ dispatched \in [Tasks -> Nat]
    BY DEF TypeOK
  <1>3. r \in Nat /\ r <= MaxRetries /\ dispatched[t] \in Nat /\ MaxRetries \in Nat
    BY <1>2 DEF MaxRetries
  <1>4. ASSUME NEW u \in Tasks PROVE dispatched'[u] <= MaxRetries + 1
    BY <1>1, <1>2, <1>3 DEF AttemptsBounded
  <1>5. ASSUME NEW u \in Outstanding'
        PROVE  dispatched'[u] <= outstanding_tasks'[u].retry_counter + 1
    BY <1>1, <1>2, <1>3 DEF AttemptsBounded
  <1>6. ASSUME NEW u \in Unassigned'
        PROVE  dispatched'[u] <= unassigned_tasks'[u].retry_counter
    BY <1>1, <1>2 DEF AttemptsBounded
  <1> QED
    BY <1>4, <1>5, <1>6 DEF AttemptsBounded

-----------------------------------------------------------------------------
(* Every action preserves the invariant *)

\* A worker attaches.
LEMMA AttachStep ==
    ASSUME IInv, NEW w \in Workers, attach(w)
    PROVE  IInv'
  BY DEF IInv, attach, TypeOK, TodoInv, NoLostTask, AtMatchingWorker, AttemptsBounded,
         FreshInv, Outstanding, Unassigned

\* The tasks of the worker that leaves are exactly the ones on the to-do list.
LEMMA DetachStep ==
    ASSUME IInv, NEW w \in Workers, detach(w)
    PROVE  IInv'
  <1> USE DEF IInv, Outstanding, Unassigned
  <1>1. TypeOK' /\ TodoInv'
    BY DEF detach, TypeOK, TodoInv, open_tasks
  <1>2. NoLostTask' /\ AttemptsBounded' /\ FreshInv'
    BY DEF detach, NoLostTask, AttemptsBounded, FreshInv
  <1>3. AtMatchingWorker'
    <2> SUFFICES ASSUME NEW t \in Outstanding, ~(phase' = "detach" /\ t \in todo')
                 PROVE  LET v == outstanding_tasks[t].worker
                        IN  attached'[v] = "on" /\ Name[t] \in Performs[v] /\ can_perform(v, t)
      BY DEF AtMatchingWorker, detach, can_perform
    <2>1. t \notin open_tasks(w)
      BY DEF detach, open_tasks
    <2>2. outstanding_tasks[t].worker # w
      BY <2>1 DEF open_tasks
    <2> QED
      BY <2>2 DEF detach, AtMatchingWorker, TypeOK, InProgress
  <1> QED
    BY <1>1, <1>2, <1>3

\* A worker takes a task from its queue.
LEMMA SendStep ==
    ASSUME IInv, NEW w \in Workers, send(w)
    PROVE  IInv'
  <1> USE DEF IInv, Outstanding, Unassigned
  <1>1. Head(queue[w]) \in Tasks /\ Tail(queue[w]) \in Seq(Tasks)
    BY DEF send, TypeOK
  <1>2. TypeOK'
    BY <1>1 DEF send, TypeOK
  <1>3. TodoInv' /\ NoLostTask' /\ AttemptsBounded' /\ FreshInv' /\ AtMatchingWorker'
    BY DEF send, TodoInv, NoLostTask, AttemptsBounded, FreshInv, AtMatchingWorker, can_perform
  <1> QED
    BY <1>2, <1>3

\* A first call of __add_task puts a new task either at a worker or on hold.
LEMMA AddTaskStep ==
    ASSUME IInv, NEW t \in Tasks, add_task(t)
    PROVE  IInv'
  <1> USE DEF IInv
  <1>1. /\ phase = "idle" /\ callback[t] = "none"
        /\ callback' = [callback EXCEPT ![t] = "pending"]
        /\ UNCHANGED <<attached, received, phase, todo>>
    BY DEF add_task
  <1>2. t \notin Outstanding /\ t \notin Unassigned /\ dispatched[t] = 0 /\ todo = {}
    BY <1>1 DEF NoLostTask, FreshInv, TodoInv
  <1>3. 0 \in 0..MaxRetries
    BY DEF MaxRetries
  <1>4. CASE \E w \in subscriptions(t) : Assign(t, w, 0) /\ UNCHANGED unassigned_tasks
    <2> PICK w \in subscriptions(t) : Assign(t, w, 0) /\ UNCHANGED unassigned_tasks
      BY <1>4
    <2>1. w \in Workers /\ attached[w] = "on" /\ Name[t] \in Performs[w] /\ can_perform(w, t)
      BY ChosenMatches
    <2>2. /\ work_count' \in [Workers -> Int]
          /\ queue' \in [Workers -> Seq(Tasks)]
          /\ dispatched' \in [Tasks -> Nat]
          /\ dispatched'[t] = dispatched[t] + 1
          /\ \A u \in Tasks : u # t => dispatched'[u] = dispatched[u]
          /\ Outstanding' = Outstanding \cup {t}
          /\ outstanding_tasks' \in [Outstanding' -> InProgress]
          /\ outstanding_tasks'[t].worker = w
          /\ outstanding_tasks'[t].retry_counter = 0
          /\ \A u \in Outstanding : u # t => outstanding_tasks'[u] = outstanding_tasks[u]
      BY <1>3, <2>1, AssignFact
    <2>3. Unassigned' = Unassigned /\ unassigned_tasks' = unassigned_tasks
      BY DEF Unassigned
    <2>4. TypeOK'
      BY <1>1, <2>2, <2>3 DEF TypeOK
    <2>5. TodoInv'
      BY <1>1, <1>2 DEF TodoInv
    <2>6. NoLostTask'
      BY <1>1, <1>2, <2>2, <2>3 DEF NoLostTask, TypeOK
    <2>7. AtMatchingWorker'
      BY <1>1, <1>2, <2>1, <2>2 DEF AtMatchingWorker, can_perform
    <2>8. AttemptsBounded'
      BY <1>2, <1>3, <2>1, <2>3, AssignBounded
    <2>9. FreshInv'
      BY <1>1, <2>2 DEF FreshInv, TypeOK
    <2> QED
      BY <2>4, <2>5, <2>6, <2>7, <2>8, <2>9
  <1>5. CASE matching_subscriptions(t) = {} /\ Hold(t, 0)
    <2>1. /\ Outstanding' = Outstanding \ {t}
          /\ outstanding_tasks' \in [Outstanding' -> InProgress]
          /\ \A u \in Outstanding' : outstanding_tasks'[u] = outstanding_tasks[u]
          /\ Unassigned' = Unassigned \cup {t}
          /\ unassigned_tasks' \in [Unassigned' -> OnHold]
          /\ t \notin Unassigned => unassigned_tasks'[t].retry_counter = 0
          /\ \A u \in Unassigned : unassigned_tasks'[u] = unassigned_tasks[u]
          /\ UNCHANGED <<queue, work_count, dispatched>>
      BY <1>3, <1>5, HoldFact
    <2>2. TypeOK'
      BY <1>1, <2>1 DEF TypeOK
    <2>3. TodoInv' /\ NoLostTask'
      BY <1>1, <1>2, <2>1 DEF TodoInv, NoLostTask, TypeOK
    <2>4. AtMatchingWorker'
      BY <1>1, <1>2, <2>1 DEF AtMatchingWorker, can_perform
    <2>5. AttemptsBounded' /\ FreshInv'
      BY <1>1, <1>2, <2>1 DEF AttemptsBounded, FreshInv, TypeOK
    <2> QED
      BY <2>2, <2>3, <2>4, <2>5
  <1> QED
    BY <1>4, <1>5 DEF add_task, add

\* A task that leaves the list gets its verdict in the same step.
LEMMA SettleKeeps ==
    ASSUME IInv, NEW t \in Outstanding, NEW value \in {"result", "error"},
           outstanding_tasks' = Pop(outstanding_tasks, {t}),
           work_count' \in [Workers -> Int],
           set_future_result({t}, value), todo' = todo \ {t}, phase' \in {phase, "idle"},
           phase' # "assign", phase' = "idle" => todo' = {},
           UNCHANGED <<attached, unassigned_tasks, queue, received, dispatched>>
    PROVE  IInv'
  <1> USE DEF IInv
  <1>1. /\ t \in Tasks
        /\ Outstanding' = Outstanding \ {t}
        /\ outstanding_tasks' \in [Outstanding' -> InProgress]
        /\ \A u \in Outstanding' : outstanding_tasks'[u] = outstanding_tasks[u]
    BY PopOutstanding DEF TypeOK
  <1>2. Unassigned' = Unassigned
    BY DEF Unassigned
  <1>3. /\ callback' \in [Tasks -> {"none", "pending", "result", "error"}]
        /\ callback'[t] \notin {"pending", "none"}
        /\ \A u \in Tasks : u # t => callback'[u] = callback[u]
    BY <1>1 DEF set_future_result, TypeOK, NoLostTask
  <1>4. TypeOK'
    BY <1>1, <1>2, <1>3 DEF TypeOK
  <1>5. TodoInv'
    BY <1>1 DEF TodoInv, TypeOK
  <1>6. NoLostTask'
    BY <1>1, <1>2, <1>3 DEF NoLostTask, TypeOK
  <1>7. AtMatchingWorker'
    <2> SUFFICES ASSUME NEW u \in Outstanding', ~(phase' = "detach" /\ u \in todo')
                 PROVE  LET v == outstanding_tasks'[u].worker
                        IN  attached'[v] = "on" /\ Name[u] \in Performs[v] /\ can_perform(v, u)
      BY DEF AtMatchingWorker, can_perform
    <2> QED
      BY <1>1 DEF AtMatchingWorker, TodoInv
  <1>8. AttemptsBounded' /\ FreshInv'
    BY <1>1, <1>2, <1>3 DEF AttemptsBounded, FreshInv
  <1> QED
    BY <1>4, <1>5, <1>6, <1>7, <1>8

\* Answers and errors of workers: anything but the assigned worker is ignored.
LEMMA AnswerStep ==
    ASSUME IInv, NEW w \in Workers, NEW t \in Tasks,
           acknowledge_task(w, t) \/ error_task(w, t)
    PROVE  IInv'
  <1>1. PICK value \in {"result", "error"} : settle(w, t, value)
    BY DEF acknowledge_task, error_task
  <1>2. /\ phase = "idle"
        /\ UNCHANGED <<attached, unassigned_tasks, queue, received, dispatched, phase, todo>>
    BY DEF acknowledge_task, error_task
  <1>3. todo = {}
    BY <1>2 DEF IInv, TodoInv
  <1>4. t \in Outstanding
    BY <1>1 DEF settle, open_tasks
  <1>5. work_count' \in [Workers -> Int]
    BY <1>1 DEF settle, IInv, TypeOK
  <1> QED
    BY <1>1, <1>2, <1>3, <1>4, <1>5, SettleKeeps DEF settle

\* A retry either starts an attempt with a higher counter, holds the task with
\* that counter, or gives up and settles the future.
LEMMA RetryStep ==
    ASSUME IInv, NEW t \in Tasks, retry_tasks(t)
    PROVE  IInv'
  <1> USE DEF IInv
  <1> DEFINE c == outstanding_tasks[t].retry_counter
  <1>1. /\ phase \in {"detach", "check"} /\ t \in todo /\ todo' = todo \ {t}
        /\ phase' \in {phase, "idle"} /\ (phase' = "idle" => todo' = {})
        /\ (phase' = "detach" => phase = "detach") /\ phase' # "assign"
        /\ UNCHANGED <<attached, received>>
    BY DEF retry_tasks
  <1>2. t \in Outstanding /\ t \notin Unassigned /\ callback[t] = "pending"
    BY <1>1 DEF TodoInv, NoLostTask
  <1>3. outstanding_tasks[t] \in InProgress /\ c \in 0..MaxRetries
    BY <1>2 DEF TypeOK, InProgress
  <1>4. dispatched[t] <= c + 1
    BY <1>2 DEF AttemptsBounded
  <1>5. CASE c < MaxRetries /\ add(t, c + 1) /\ UNCHANGED callback
    <2>1. c + 1 \in 0..MaxRetries
      BY <1>3, <1>5 DEF MaxRetries
    <2>2. CASE \E w \in subscriptions(t) : Assign(t, w, c + 1) /\ UNCHANGED unassigned_tasks
      <3> PICK w \in subscriptions(t) : Assign(t, w, c + 1) /\ UNCHANGED unassigned_tasks
        BY <2>2
      <3>1. w \in Workers /\ attached[w] = "on" /\ Name[t] \in Performs[w] /\ can_perform(w, t)
        BY ChosenMatches
      <3> HIDE DEF c
      <3>2. /\ work_count' \in [Workers -> Int]
            /\ queue' \in [Workers -> Seq(Tasks)]
            /\ dispatched' \in [Tasks -> Nat]
            /\ dispatched'[t] = dispatched[t] + 1
            /\ \A u \in Tasks : u # t => dispatched'[u] = dispatched[u]
            /\ Outstanding' = Outstanding \cup {t}
            /\ outstanding_tasks' \in [Outstanding' -> InProgress]
            /\ outstanding_tasks'[t].worker = w
            /\ \A u \in Outstanding : u # t => outstanding_tasks'[u] = outstanding_tasks[u]
        BY <2>1, <3>1, AssignFact
      <3>3. Unassigned' = Unassigned /\ unassigned_tasks' = unassigned_tasks
        BY DEF Unassigned
      <3>4. TypeOK'
        BY <1>1, <1>5, <3>2, <3>3 DEF TypeOK
      <3>5. TodoInv' /\ NoLostTask'
        BY <1>1, <1>2, <1>5, <3>2, <3>3 DEF TodoInv, NoLostTask
      <3>6. AtMatchingWorker'
        <4> SUFFICES ASSUME NEW u \in Outstanding', ~(phase' = "detach" /\ u \in todo')
                     PROVE  LET v == outstanding_tasks'[u].worker
                            IN  attached'[v] = "on" /\ Name[u] \in Performs[v] /\ can_perform(v, u)
          BY DEF AtMatchingWorker, can_perform
        <4>1. CASE u = t
          BY <1>1, <3>1, <3>2, <4>1
        <4>2. CASE u # t
          BY <1>1, <3>2, <4>2 DEF AtMatchingWorker
        <4> QED
          BY <4>1, <4>2
      <3>7. AttemptsBounded'
        BY <1>2, <1>4, <2>1, <3>1, <3>3, AssignBounded
      <3>8. FreshInv'
        BY <1>2, <1>5, <3>2 DEF FreshInv, TypeOK
      <3> QED
        BY <3>4, <3>5, <3>6, <3>7, <3>8
    <2>3. CASE matching_subscriptions(t) = {} /\ Hold(t, c + 1)
      <3> HIDE DEF c
      <3>1. /\ Outstanding' = Outstanding \ {t}
            /\ outstanding_tasks' \in [Outstanding' -> InProgress]
            /\ \A u \in Outstanding' : outstanding_tasks'[u] = outstanding_tasks[u]
            /\ Unassigned' = Unassigned \cup {t}
            /\ unassigned_tasks' \in [Unassigned' -> OnHold]
            /\ t \notin Unassigned => unassigned_tasks'[t].retry_counter = c + 1
            /\ \A u \in Unassigned : unassigned_tasks'[u] = unassigned_tasks[u]
            /\ UNCHANGED <<queue, work_count, dispatched>>
        BY <2>1, <2>3, HoldFact
      <3>2. TypeOK'
        BY <1>1, <1>5, <3>1 DEF TypeOK
      <3>3. TodoInv' /\ NoLostTask'
        BY <1>1, <1>2, <1>5, <3>1 DEF TodoInv, NoLostTask
      <3>4. AtMatchingWorker'
        <4> SUFFICES ASSUME NEW u \in Outstanding', ~(phase' = "detach" /\ u \in todo')
                     PROVE  LET v == outstanding_tasks'[u].worker
                            IN  attached'[v] = "on" /\ Name[u] \in Performs[v] /\ can_perform(v, u)
          BY DEF AtMatchingWorker, can_perform
        <4> QED
          BY <1>1, <3>1 DEF AtMatchingWorker
      <3>5. AttemptsBounded' /\ FreshInv'
        BY <1>2, <1>4, <1>5, <3>1 DEF AttemptsBounded, FreshInv
      <3> QED
        BY <3>2, <3>3, <3>4, <3>5
    <2> QED
      BY <1>5, <2>2, <2>3 DEF add
  <1>6. CASE give_up(t)
    <2>1. work_count' \in [Workers -> Int]
      BY <1>6, <1>3 DEF give_up, TypeOK, InProgress
    <2> QED
      BY <1>1, <1>2, <1>6, <2>1, SettleKeeps DEF give_up
  <1> QED
    BY <1>5, <1>6 DEF retry_tasks, retry

\* The check starts with the tasks that are overdue.
LEMMA CheckStarts ==
    ASSUME IInv, check_outdated_unassigned_tasks
    PROVE  IInv'
  <1> USE DEF IInv, Outstanding, Unassigned
  <1>1. TypeOK' /\ TodoInv'
    BY DEF check_outdated_unassigned_tasks, TypeOK, TodoInv
  <1>2. NoLostTask' /\ AttemptsBounded' /\ FreshInv' /\ AtMatchingWorker'
    BY DEF check_outdated_unassigned_tasks, NoLostTask, AttemptsBounded, FreshInv,
           AtMatchingWorker, can_perform
  <1> QED
    BY <1>1, <1>2

\* Tasks on hold past their deadline get their verdict and leave together.
LEMMA ExpireUnassignedStep ==
    ASSUME IInv, expire_unassigned
    PROVE  IInv'
  <1> USE DEF IInv
  <1> DEFINE E == {t \in Unassigned : unassigned_tasks[t].late}
  <1>1. /\ phase = "check" /\ todo = {} /\ set_future_result(E, "error")
        /\ unassigned_tasks' = Pop(unassigned_tasks, E)
        /\ todo' = Unassigned \ E /\ phase' \in {"idle", "assign"}
        /\ phase' = "idle" => todo' = {}
        /\ UNCHANGED <<attached, work_count, outstanding_tasks, queue, received, dispatched>>
    BY DEF expire_unassigned
  <1>2. E \subseteq Unassigned
    OBVIOUS
  <1> HIDE DEF E
  <1>3. /\ Unassigned' = Unassigned \ E
        /\ unassigned_tasks' \in [Unassigned' -> OnHold]
        /\ \A u \in Unassigned' : unassigned_tasks'[u] = unassigned_tasks[u]
    BY <1>1 DEF Unassigned, Pop, TypeOK
  <1>4. Outstanding' = Outstanding
    BY <1>1 DEF Outstanding
  <1>5. /\ callback' \in [Tasks -> {"none", "pending", "result", "error"}]
        /\ \A u \in E : callback'[u] = "error"
        /\ \A u \in Tasks \ E : callback'[u] = callback[u]
    BY <1>1, <1>2 DEF set_future_result, TypeOK, NoLostTask
  <1>6. TypeOK' /\ TodoInv'
    BY <1>1, <1>2, <1>3, <1>4, <1>5 DEF TypeOK, TodoInv
  <1>7. NoLostTask'
    BY <1>2, <1>3, <1>4, <1>5 DEF NoLostTask, TypeOK
  <1>8. AtMatchingWorker'
    BY <1>1, <1>4 DEF AtMatchingWorker, can_perform
  <1>9. AttemptsBounded' /\ FreshInv'
    BY <1>1, <1>2, <1>3, <1>4, <1>5 DEF AttemptsBounded, FreshInv
  <1> QED
    BY <1>6, <1>7, <1>8, <1>9

\* A task on hold finds a worker or stays on hold.
LEMMA AssignUnassignedStep ==
    ASSUME IInv, NEW t \in Tasks, assign_unassigned(t)
    PROVE  IInv'
  <1> USE DEF IInv
  <1> DEFINE c == unassigned_tasks[t].retry_counter
  <1>1. /\ phase = "assign" /\ t \in todo /\ todo' = todo \ {t}
        /\ phase' \in {"assign", "idle"} /\ (phase' = "idle" => todo' = {})
        /\ UNCHANGED <<attached, received, callback>>
    BY DEF assign_unassigned
  <1>2. t \in Unassigned /\ t \notin Outstanding /\ callback[t] = "pending"
    BY <1>1 DEF TodoInv, NoLostTask
  <1>3. c \in 0..MaxRetries /\ dispatched[t] <= c
    BY <1>2 DEF TypeOK, OnHold, AttemptsBounded
  <1>4. CASE \E w \in subscriptions(t) :
               Assign(t, w, c) /\ unassigned_tasks' = Pop(unassigned_tasks, {t})
    <2> PICK w \in subscriptions(t) :
               Assign(t, w, c) /\ unassigned_tasks' = Pop(unassigned_tasks, {t})
      BY <1>4
    <2>1. w \in Workers /\ attached[w] = "on" /\ Name[t] \in Performs[w] /\ can_perform(w, t)
      BY ChosenMatches
    <2> HIDE DEF c
    <2>2. /\ work_count' \in [Workers -> Int]
          /\ queue' \in [Workers -> Seq(Tasks)]
          /\ dispatched' \in [Tasks -> Nat]
          /\ dispatched'[t] = dispatched[t] + 1
          /\ \A u \in Tasks : u # t => dispatched'[u] = dispatched[u]
          /\ Outstanding' = Outstanding \cup {t}
          /\ outstanding_tasks' \in [Outstanding' -> InProgress]
          /\ outstanding_tasks'[t].worker = w
          /\ \A u \in Outstanding : u # t => outstanding_tasks'[u] = outstanding_tasks[u]
      BY <1>3, <2>1, AssignFact
    <2>3. /\ Unassigned' = Unassigned \ {t}
          /\ unassigned_tasks' \in [Unassigned' -> OnHold]
          /\ \A u \in Unassigned' : unassigned_tasks'[u] = unassigned_tasks[u]
      BY DEF Unassigned, Pop, TypeOK
    <2>4. TypeOK'
      BY <1>1, <2>2, <2>3 DEF TypeOK
    <2>5. TodoInv' /\ NoLostTask'
      BY <1>1, <1>2, <2>2, <2>3 DEF TodoInv, NoLostTask, TypeOK
    <2>6. AtMatchingWorker'
      BY <1>1, <2>1, <2>2 DEF AtMatchingWorker, can_perform
    <2>7. AttemptsBounded'
      BY <1>3, <2>1, <2>3, AssignBounded
    <2>8. FreshInv'
      BY <1>1, <1>2, <2>2 DEF FreshInv, TypeOK
    <2> QED
      BY <2>4, <2>5, <2>6, <2>7, <2>8
  <1>5. CASE matching_subscriptions(t) = {} /\ Hold(t, c)
    <2> HIDE DEF c
    <2>1. /\ Outstanding' = Outstanding \ {t}
          /\ outstanding_tasks' \in [Outstanding' -> InProgress]
          /\ \A u \in Outstanding' : outstanding_tasks'[u] = outstanding_tasks[u]
          /\ Unassigned' = Unassigned \cup {t}
          /\ unassigned_tasks' \in [Unassigned' -> OnHold]
          /\ \A u \in Unassigned : unassigned_tasks'[u] = unassigned_tasks[u]
          /\ UNCHANGED <<queue, work_count, dispatched>>
      BY <1>3, <1>5, HoldFact
    <2>2. TypeOK' /\ TodoInv'
      BY <1>1, <1>2, <2>1 DEF TypeOK, TodoInv
    <2>3. NoLostTask' /\ AttemptsBounded' /\ FreshInv'
      BY <1>1, <1>2, <2>1 DEF NoLostTask, AttemptsBounded, FreshInv
    <2>4. AtMatchingWorker'
      BY <1>1, <1>2, <2>1 DEF AtMatchingWorker, can_perform
    <2> QED
      BY <2>2, <2>3, <2>4
  <1> QED
    BY <1>4, <1>5 DEF assign_unassigned

\* A deadline that passes only raises a flag.
LEMMA ExpireStep ==
    ASSUME IInv, NEW t \in Tasks, Expire(t)
    PROVE  IInv'
  <1> USE DEF IInv, Outstanding, Unassigned
  <1>1. /\ phase = "idle"
        /\ UNCHANGED <<attached, work_count, queue, received, callback, dispatched, phase, todo>>
    BY DEF Expire
  <1>2. CASE /\ t \in Outstanding
             /\ outstanding_tasks' = [outstanding_tasks EXCEPT ![t].late = TRUE]
             /\ UNCHANGED unassigned_tasks
    <2>1. /\ DOMAIN outstanding_tasks' = DOMAIN outstanding_tasks
          /\ outstanding_tasks' \in [Outstanding -> InProgress]
          /\ \A u \in Outstanding :
               /\ outstanding_tasks'[u].worker = outstanding_tasks[u].worker
               /\ outstanding_tasks'[u].retry_counter = outstanding_tasks[u].retry_counter
      BY <1>2 DEF TypeOK, InProgress
    <2>2. TypeOK' /\ TodoInv' /\ NoLostTask' /\ AttemptsBounded' /\ FreshInv'
      BY <1>1, <1>2, <2>1 DEF TypeOK, TodoInv, NoLostTask, AttemptsBounded, FreshInv
    <2>3. AtMatchingWorker'
      BY <1>1, <2>1 DEF AtMatchingWorker, can_perform
    <2> QED
      BY <2>2, <2>3
  <1>3. CASE /\ t \in Unassigned
             /\ unassigned_tasks' = [unassigned_tasks EXCEPT ![t].late = TRUE]
             /\ UNCHANGED outstanding_tasks
    <2>1. /\ DOMAIN unassigned_tasks' = DOMAIN unassigned_tasks
          /\ unassigned_tasks' \in [Unassigned -> OnHold]
          /\ \A u \in Unassigned :
               unassigned_tasks'[u].retry_counter = unassigned_tasks[u].retry_counter
      BY <1>3 DEF TypeOK, OnHold
    <2>2. TypeOK' /\ TodoInv' /\ NoLostTask' /\ AttemptsBounded' /\ FreshInv'
      BY <1>1, <1>3, <2>1 DEF TypeOK, TodoInv, NoLostTask, AttemptsBounded, FreshInv
    <2>3. AtMatchingWorker'
      BY <1>1, <1>3 DEF AtMatchingWorker, can_perform
    <2> QED
      BY <2>2, <2>3
  <1> QED
    BY <1>2, <1>3 DEF Expire

-----------------------------------------------------------------------------
(* Theorems *)

\* The queue starts empty.
LEMMA InitIInv == Init => IInv
  BY DEF Init, IInv, TypeOK, TodoInv, NoLostTask, AtMatchingWorker, AttemptsBounded,
         FreshInv, Outstanding, Unassigned, MaxRetries

\* Every step keeps the inductive invariant.
LEMMA NextIInv == IInv /\ [Next]_vars => IInv'
  <1> SUFFICES ASSUME IInv, [Next]_vars PROVE IInv'
    OBVIOUS
  <1>1. ASSUME NEW w \in Workers, attach(w) \/ detach(w) \/ send(w) PROVE IInv'
    BY <1>1, AttachStep, DetachStep, SendStep
  <1>2. ASSUME NEW t \in Tasks, add_task(t) \/ Expire(t) PROVE IInv'
    BY <1>2, AddTaskStep, ExpireStep
  <1>3. ASSUME NEW w \in Workers, NEW t \in Tasks, acknowledge_task(w, t) \/ error_task(w, t)
        PROVE  IInv'
    BY <1>3, AnswerStep
  <1>4. CASE CheckStep
    BY <1>4, CheckStarts, RetryStep, AssignUnassignedStep, ExpireUnassignedStep DEF CheckStep
  <1>5. CASE UNCHANGED vars
    BY <1>5 DEF vars, IInv, TypeOK, TodoInv, NoLostTask, AtMatchingWorker, AttemptsBounded,
               FreshInv, Outstanding, Unassigned, can_perform
  <1> QED
    BY <1>1, <1>2, <1>3, <1>4, <1>5 DEF Next

\* The inductive invariant holds in every reachable state.
LEMMA Invariance == Spec => []IInv
  BY InitIInv, NextIInv, PTL DEF Spec

\* Every variable of the queue keeps its type.
THEOREM TypeCorrect == Spec => []TypeOK
  <1>1. IInv => TypeOK
    BY DEF IInv
  <1> QED
    BY <1>1, Invariance, PTL

\* No interleaving of attach, detach, add, answer and check loses a task whose
\* caller still waits, or keeps one whose future is done.
THEOREM TasksNeverLost == Spec => []NoLostTask
  <1>1. IInv => NoLostTask
    BY DEF IInv
  <1> QED
    BY <1>1, Invariance, PTL

\* Every task in progress is at an attached worker that can perform it.
THEOREM TasksAtMatchingWorkers == Spec => []AtMatchingWorker
  <1>1. IInv => AtMatchingWorker
    BY DEF IInv
  <1> QED
    BY <1>1, Invariance, PTL

\* A task is dispatched at most MaxRetries + 1 times.
THEOREM AttemptsAreBounded == Spec => []AttemptsBounded
  <1>1. IInv => AttemptsBounded
    BY DEF IInv
  <1> QED
    BY <1>1, Invariance, PTL

-----------------------------------------------------------------------------
(* What workers have at hand: queues, sockets and counters *)

\* No task is given to a worker; some may be taken away.
Shrinks ==
    /\ Outstanding' \subseteq Outstanding
    /\ \A u \in Outstanding' : outstanding_tasks'[u].worker = outstanding_tasks[u].worker

\* What a step does to the tasks at worker v, and how its counter has to follow.
LEMMA CountFollows ==
    ASSUME NEW S, NEW T, NEW n \in Int, NEW m \in Int, IsFiniteSet(S), Cardinality(S) <= n,
           \/ T \subseteq S /\ m = n
           \/ (\E t : T \subseteq S \cup {t}) /\ m = n + 1
           \/ (\E t \in S : T \subseteq S \ {t}) /\ m = n - 1
    PROVE  Cardinality(T) <= m
  <1>1. Cardinality(S) \in Nat
    BY FS_CardinalityType
  <1>2. CASE T \subseteq S /\ m = n
    <2>1. Cardinality(T) <= Cardinality(S) /\ Cardinality(T) \in Nat
      BY <1>2, FS_Subset, FS_CardinalityType
    <2> QED
      BY <1>1, <1>2, <2>1
  <1>3. CASE (\E t : T \subseteq S \cup {t}) /\ m = n + 1
    <2>1. PICK t : T \subseteq S \cup {t}
      BY <1>3
    <2>2. /\ IsFiniteSet(S \cup {t}) /\ Cardinality(S \cup {t}) \in Nat
          /\ Cardinality(S \cup {t}) <= Cardinality(S) + 1
      BY <1>1, FS_AddElement
    <2>3. Cardinality(T) <= Cardinality(S \cup {t}) /\ Cardinality(T) \in Nat
      BY <2>1, <2>2, FS_Subset, FS_CardinalityType
    <2> QED
      BY <1>1, <1>3, <2>2, <2>3
  <1>4. CASE (\E t \in S : T \subseteq S \ {t}) /\ m = n - 1
    <2>1. PICK t \in S : T \subseteq S \ {t}
      BY <1>4
    <2>2. IsFiniteSet(S \ {t}) /\ Cardinality(S \ {t}) = Cardinality(S) - 1
      BY FS_RemoveElement
    <2>3. Cardinality(T) <= Cardinality(S \ {t}) /\ Cardinality(T) \in Nat
      BY <2>1, <2>2, FS_Subset, FS_CardinalityType
    <2> QED
      BY <1>1, <1>4, <2>2, <2>3
  <1> QED
    BY <1>2, <1>3, <1>4

\* A worker has finitely many tasks.
LEMMA OpenFinite ==
    ASSUME TypeOK, NEW w \in Workers
    PROVE  IsFiniteSet(open_tasks(w))
  <1>1. open_tasks(w) \subseteq Tasks
    BY DEF open_tasks, TypeOK
  <1> QED
    BY <1>1, FiniteTasksAssumption, FS_Subset

\* The counter still covers the tasks of every worker when tasks are only taken away and
\* the counter of a worker is lowered for at most one of them.
LEMMA ShrinkCovers ==
    ASSUME TypeOK, TypeOK', WorkCountCovers, Shrinks, attached' = attached,
           \/ work_count' = work_count
           \/ \E t \in Outstanding \ Outstanding' :
                work_count' = [work_count EXCEPT ![outstanding_tasks[t].worker] = @ - 1]
    PROVE  WorkCountCovers'
  <1> SUFFICES ASSUME NEW v \in Workers, attached[v] = "on"
               PROVE  Cardinality(open_tasks(v)') <= work_count'[v]
    BY DEF WorkCountCovers
  <1> DEFINE S == open_tasks(v)
             T == open_tasks(v)'
  <1>1. /\ IsFiniteSet(S) /\ Cardinality(S) <= work_count[v]
        /\ work_count[v] \in Int /\ work_count'[v] \in Int
    BY OpenFinite DEF WorkCountCovers, TypeOK
  <1>2. T \subseteq S
    BY DEF Shrinks, open_tasks
  <1>3. CASE work_count'[v] = work_count[v]
    <2> HIDE DEF S, T
    <2>1. Cardinality(T) <= work_count'[v]
      BY <1>1, <1>2, <1>3, CountFollows
    <2> QED
      BY <2>1 DEF T
  <1>4. CASE work_count'[v] # work_count[v]
    <2>1. PICK t \in Outstanding \ Outstanding' :
                 work_count' = [work_count EXCEPT ![outstanding_tasks[t].worker] = @ - 1]
      BY <1>4
    <2>2. outstanding_tasks[t].worker = v /\ work_count'[v] = work_count[v] - 1
      BY <1>4, <2>1 DEF TypeOK
    <2>3. \E u \in S : T \subseteq S \ {u}
      BY <1>2, <2>1, <2>2 DEF open_tasks
    <2> HIDE DEF S, T
    <2>4. Cardinality(T) <= work_count'[v]
      BY <1>1, <2>2, <2>3, CountFollows
    <2> QED
      BY <2>4 DEF T
  <1> QED
    BY <1>3, <1>4

\* A task that is given to a worker is counted there.
LEMMA AssignCovers ==
    ASSUME TypeOK, TypeOK', WorkCountCovers, NEW t \in Tasks, NEW w \in Workers,
           NEW r \in 0..MaxRetries, Assign(t, w, r), attached' = attached
    PROVE  WorkCountCovers'
  <1> SUFFICES ASSUME NEW v \in Workers, attached[v] = "on"
               PROVE  Cardinality(open_tasks(v)') <= work_count'[v]
    BY DEF WorkCountCovers
  <1> DEFINE S == open_tasks(v)
             T == open_tasks(v)'
  <1>1. /\ IsFiniteSet(S) /\ Cardinality(S) <= work_count[v]
        /\ work_count[v] \in Int /\ work_count'[v] \in Int
    BY OpenFinite DEF WorkCountCovers, TypeOK
  <1>2. /\ Outstanding' = Outstanding \cup {t} /\ outstanding_tasks'[t].worker = w
        /\ \A u \in Outstanding : u # t => outstanding_tasks'[u] = outstanding_tasks[u]
    BY AssignFact
  <1>3. CASE v = w
    <2>1. work_count'[v] = work_count[v] + 1
      BY <1>3 DEF Assign, TypeOK
    <2>2. \E u : T \subseteq S \cup {u}
      BY <1>2 DEF open_tasks
    <2> HIDE DEF S, T
    <2>3. Cardinality(T) <= work_count'[v]
      BY <1>1, <2>1, <2>2, CountFollows
    <2> QED
      BY <2>3 DEF T
  <1>4. CASE v # w
    <2>1. work_count'[v] = work_count[v]
      BY <1>4 DEF Assign, TypeOK
    <2>2. T \subseteq S
      BY <1>2, <1>4 DEF open_tasks
    <2> HIDE DEF S, T
    <2>3. Cardinality(T) <= work_count'[v]
      BY <1>1, <2>1, <2>2, CountFollows
    <2> QED
      BY <2>3 DEF T
  <1> QED
    BY <1>3, <1>4

\* What has been handed over stays so when nothing is given out and nothing sent.
LEMMA ShrinkHandedOver ==
    ASSUME HandedOver, Shrinks, UNCHANGED <<queue, received>>
    PROVE  HandedOver'
  BY DEF HandedOver, Shrinks

\* A task is put into the queue of the worker it is booked for.
LEMMA AssignHandedOver ==
    ASSUME TypeOK, HandedOver, NEW t \in Tasks, NEW w \in Workers, NEW r \in 0..MaxRetries,
           Assign(t, w, r), UNCHANGED received
    PROVE  HandedOver'
  <1>1. /\ Outstanding' = Outstanding \cup {t} /\ outstanding_tasks'[t].worker = w
        /\ \A u \in Outstanding : u # t => outstanding_tasks'[u] = outstanding_tasks[u]
    BY AssignFact
  <1>2. \A v \in Workers : queue[v] \in Seq(Tasks)
    BY DEF TypeOK
  <1>3. queue' = [queue EXCEPT ![w] = Append(@, t)] /\ queue \in [Workers -> Seq(Tasks)]
    BY DEF Assign, TypeOK
  <1>4. /\ \E i \in DOMAIN queue'[w] : queue'[w][i] = t
        /\ \A v \in Workers : \A i \in DOMAIN queue[v] :
             i \in DOMAIN queue'[v] /\ queue'[v][i] = queue[v][i]
    <2>1. queue'[w] = Append(queue[w], t) /\ \A v \in Workers : v # w => queue'[v] = queue[v]
      BY <1>3
    <2>2. /\ Len(queue[w]) + 1 \in DOMAIN Append(queue[w], t)
          /\ Append(queue[w], t)[Len(queue[w]) + 1] = t
          /\ \A i \in DOMAIN queue[w] :
               i \in DOMAIN Append(queue[w], t) /\ Append(queue[w], t)[i] = queue[w][i]
      BY <1>2
    <2> QED
      BY <2>1, <2>2
  <1>5. \A u \in Outstanding : outstanding_tasks[u].worker \in Workers
    BY DEF TypeOK, InProgress
  <1> QED
    BY <1>1, <1>4, <1>5 DEF HandedOver

\* The task at the head of a queue is sent.
LEMMA SendHandedOver ==
    ASSUME TypeOK, HandedOver, NEW w \in Workers, send(w)
    PROVE  HandedOver'
  <1>1. queue[w] \in Seq(Tasks) /\ queue[w] # << >> /\ received \in [Workers -> SUBSET Tasks]
        /\ queue \in [Workers -> Seq(Tasks)]
    BY DEF send, TypeOK
  <1>2. /\ received'[w] = received[w] \cup {Head(queue[w])} /\ queue'[w] = Tail(queue[w])
        /\ \A v \in Workers : v # w => received'[v] = received[v] /\ queue'[v] = queue[v]
        /\ UNCHANGED outstanding_tasks
    BY <1>1 DEF send
  <1>3. ASSUME NEW i \in DOMAIN queue[w]
        PROVE  \/ queue[w][i] \in received'[w]
               \/ \E j \in DOMAIN queue'[w] : queue'[w][j] = queue[w][i]
    <2>1. CASE i = 1
      BY <1>1, <1>2, <2>1
    <2>2. CASE i # 1
      <3>1. /\ i - 1 \in DOMAIN Tail(queue[w]) /\ Tail(queue[w])[i - 1] = queue[w][i]
        BY <1>1, <2>2
      <3> QED
        BY <1>2, <3>1
    <2> QED
      BY <2>1, <2>2
  <1>4. \A u \in Outstanding : outstanding_tasks[u].worker \in Workers
    BY DEF TypeOK, InProgress
  <1>5. Outstanding' = Outstanding
    BY <1>2 DEF Outstanding
  <1> SUFFICES ASSUME NEW t \in Outstanding, NEW v \in Workers, v = outstanding_tasks[t].worker
               PROVE  t \in received'[v] \/ \E i \in DOMAIN queue'[v] : queue'[v][i] = t
    BY <1>2, <1>4, <1>5 DEF HandedOver
  <1>6. t \in received[v] \/ \E i \in DOMAIN queue[v] : queue[v][i] = t
    BY DEF HandedOver
  <1>7. CASE v = w
    BY <1>2, <1>3, <1>6, <1>7
  <1>8. CASE v # w
    BY <1>2, <1>6, <1>8
  <1> QED
    BY <1>7, <1>8

\* The steps that only take tasks away.
LEMMA ShrinkingSteps ==
    ASSUME IInv,
           \/ \E w \in Workers : attach(w) \/ detach(w) \/ send(w)
           \/ \E t \in Tasks : Expire(t)
           \/ \E w \in Workers, t \in Tasks : acknowledge_task(w, t) \/ error_task(w, t)
           \/ check_outdated_unassigned_tasks \/ expire_unassigned
           \/ \E t \in Tasks : give_up(t)
           \/ \E t \in Tasks, r \in 0..MaxRetries : Hold(t, r)
           \/ UNCHANGED vars
    PROVE  Shrinks
  <1> USE DEF IInv
  <1>1. CASE UNCHANGED outstanding_tasks
    BY <1>1 DEF Shrinks, Outstanding
  <1>2. CASE \E t \in Tasks : outstanding_tasks' = Pop(outstanding_tasks, {t})
    BY <1>2, PopOutstanding DEF Shrinks
  <1>3. ASSUME NEW t \in Tasks, Expire(t) PROVE Shrinks
    <2>1. CASE t \in Outstanding /\ outstanding_tasks' = [outstanding_tasks EXCEPT ![t].late = TRUE]
      BY <2>1 DEF TypeOK, InProgress, Shrinks, Outstanding
    <2> QED
      BY <1>1, <1>3, <2>1 DEF Expire
  <1> QED
    BY <1>1, <1>2, <1>3 DEF attach, detach, send, acknowledge_task, error_task, settle,
       check_outdated_unassigned_tasks, expire_unassigned, give_up, Hold, vars

\* Every step but those of Assign.
LEMMA OtherHandedOver ==
    ASSUME IInv, IInv', HandedOver, WorkCountCovers, Shrinks, UNCHANGED <<queue, received, attached>>,
           \/ UNCHANGED work_count
           \/ \E t \in Outstanding \ Outstanding' :
                work_count' = [work_count EXCEPT ![outstanding_tasks[t].worker] = @ - 1]
    PROVE  HandedOver' /\ WorkCountCovers'
  BY ShrinkHandedOver, ShrinkCovers DEF IInv

\* __add_task with a worker or without one.
LEMMA AddCovers ==
    ASSUME IInv, IInv', HandedOver, WorkCountCovers, NEW t \in Tasks, NEW r \in 0..MaxRetries,
           (\E w \in subscriptions(t) : Assign(t, w, r)) \/ Hold(t, r),
           UNCHANGED <<attached, received>>
    PROVE  HandedOver' /\ WorkCountCovers'
  <1>1. CASE \E w \in subscriptions(t) : Assign(t, w, r)
    <2>1. PICK w \in Workers : Assign(t, w, r)
      BY <1>1, ChosenMatches
    <2> QED
      BY <2>1, AssignHandedOver, AssignCovers DEF IInv
  <1>2. CASE Hold(t, r)
    <2>1. UNCHANGED <<queue, work_count>> /\ Shrinks
      BY <1>2, ShrinkingSteps DEF Hold
    <2> QED
      BY <2>1, OtherHandedOver
  <1> QED
    BY <1>1, <1>2

\* A worker that attaches has no task yet, and one that leaves is not counted any more.
LEMMA AttachCovers ==
    ASSUME IInv, WorkCountCovers, NEW w \in Workers, attach(w) \/ detach(w)
    PROVE  WorkCountCovers'
  <1> USE DEF IInv
  <1>1. /\ UNCHANGED outstanding_tasks /\ attached \in [Workers -> {"new", "on", "off"}]
        /\ work_count \in [Workers -> Int] /\ work_count' = [work_count EXCEPT ![w] = 0]
        /\ phase = "idle"
    BY DEF attach, detach, TypeOK
  <1>2. ASSUME NEW v \in Workers PROVE open_tasks(v)' = open_tasks(v)
    BY <1>1 DEF open_tasks, Outstanding
  <1>3. CASE detach(w)
    <2>1. attached' = [attached EXCEPT ![w] = "off"]
      BY <1>3 DEF detach
    <2> QED
      BY <1>1, <1>2, <2>1 DEF WorkCountCovers
  <1>4. CASE attach(w)
    <2>1. attached' = [attached EXCEPT ![w] = "on"] /\ attached[w] = "new"
      BY <1>4 DEF attach
    <2>2. open_tasks(w) = {}
      BY <1>1, <2>1 DEF open_tasks, AtMatchingWorker
    <2>3. Cardinality({}) = 0
      BY FS_EmptySet
    <2>4. ASSUME NEW v \in Workers, attached'[v] = "on"
          PROVE  Cardinality(open_tasks(v)') <= work_count'[v]
      <3>1. CASE v = w
        BY <1>1, <1>2, <2>2, <2>3, <3>1
      <3>2. CASE v # w
        BY <1>1, <1>2, <2>1, <2>4, <3>2 DEF WorkCountCovers
      <3> QED
        BY <3>1, <3>2
    <2> QED
      BY <2>4 DEF WorkCountCovers
  <1> QED
    BY <1>3, <1>4

\* Every step hands tasks over and counts them.
LEMMA NextHandedOver ==
    ASSUME IInv, HandedOver, WorkCountCovers, [Next]_vars
    PROVE  HandedOver' /\ WorkCountCovers'
  <1>1. IInv'
    BY NextIInv
  <1>2. ASSUME NEW w \in Workers, attach(w) \/ detach(w)
        PROVE  HandedOver' /\ WorkCountCovers'
    <2>1. Shrinks /\ UNCHANGED <<queue, received>>
      BY <1>2, ShrinkingSteps DEF attach, detach
    <2> QED
      BY <1>2, <2>1, AttachCovers, ShrinkHandedOver
  <1>3. ASSUME NEW w \in Workers, send(w)
        PROVE  HandedOver' /\ WorkCountCovers'
    <2>1. Shrinks /\ UNCHANGED <<attached, work_count>>
      BY <1>3, ShrinkingSteps DEF send
    <2> QED
      BY <1>1, <1>3, <2>1, SendHandedOver, ShrinkCovers DEF IInv
  <1>4. ASSUME NEW t \in Tasks, add_task(t)
        PROVE  HandedOver' /\ WorkCountCovers'
    <2>1. 0 \in 0..MaxRetries
      BY DEF MaxRetries
    <2>2. /\ (\E w \in subscriptions(t) : Assign(t, w, 0)) \/ Hold(t, 0)
          /\ UNCHANGED <<attached, received>>
      BY <1>4 DEF add_task, add
    <2> QED
      BY <1>1, <2>1, <2>2, AddCovers
  <1>5. ASSUME NEW t \in Tasks, Expire(t)
        PROVE  HandedOver' /\ WorkCountCovers'
    <2>1. Shrinks /\ UNCHANGED <<queue, received, attached, work_count>>
      BY <1>5, ShrinkingSteps DEF Expire
    <2> QED
      BY <1>1, <2>1, OtherHandedOver
  <1>6. ASSUME NEW w \in Workers, NEW t \in Tasks, acknowledge_task(w, t) \/ error_task(w, t)
        PROVE  HandedOver' /\ WorkCountCovers'
    <2>1. Shrinks /\ UNCHANGED <<queue, received, attached>>
      BY <1>6, ShrinkingSteps DEF acknowledge_task, error_task
    <2>2. /\ t \in Outstanding /\ outstanding_tasks[t].worker = w
          /\ outstanding_tasks' = Pop(outstanding_tasks, {t})
          /\ work_count' = [work_count EXCEPT ![w] = @ - 1]
      BY <1>6 DEF acknowledge_task, error_task, settle, open_tasks
    <2>3. t \notin Outstanding'
      BY <2>2 DEF Outstanding, Pop
    <2> QED
      BY <1>1, <2>1, <2>2, <2>3, OtherHandedOver
  <1>7. ASSUME NEW t \in Tasks, retry_tasks(t)
        PROVE  HandedOver' /\ WorkCountCovers'
    <2> DEFINE c == outstanding_tasks[t].retry_counter
    <2>1. /\ t \in Outstanding /\ c \in 0..MaxRetries /\ UNCHANGED <<attached, received>>
      BY <1>7 DEF retry_tasks, IInv, TodoInv, TypeOK, InProgress
    <2>2. CASE c < MaxRetries /\ add(t, c + 1)
      <3>1. c + 1 \in 0..MaxRetries
        BY <2>1, <2>2 DEF MaxRetries
      <3>2. (\E w \in subscriptions(t) : Assign(t, w, c + 1)) \/ Hold(t, c + 1)
        BY <2>2 DEF add
      <3> HIDE DEF c
      <3> QED
        BY <1>1, <2>1, <3>1, <3>2, AddCovers
    <2>3. CASE give_up(t)
      <3>1. Shrinks /\ UNCHANGED queue
        BY <2>3, ShrinkingSteps DEF give_up
      <3>2. /\ t \in Outstanding \ Outstanding'
            /\ work_count' = [work_count EXCEPT ![outstanding_tasks[t].worker] = @ - 1]
        BY <2>1, <2>3 DEF give_up, Outstanding, Pop
      <3> QED
        BY <1>1, <2>1, <3>1, <3>2, OtherHandedOver
    <2> QED
      BY <1>7, <2>2, <2>3 DEF retry_tasks, retry
  <1>8. ASSUME NEW t \in Tasks, assign_unassigned(t)
        PROVE  HandedOver' /\ WorkCountCovers'
    <2> DEFINE c == unassigned_tasks[t].retry_counter
    <2>1. c \in 0..MaxRetries /\ UNCHANGED <<attached, received>>
      BY <1>8 DEF assign_unassigned, IInv, TodoInv, TypeOK, OnHold
    <2>2. (\E w \in subscriptions(t) : Assign(t, w, c)) \/ Hold(t, c)
      BY <1>8 DEF assign_unassigned
    <2> HIDE DEF c
    <2> QED
      BY <1>1, <2>1, <2>2, AddCovers
  <1>9. CASE check_outdated_unassigned_tasks \/ expire_unassigned \/ UNCHANGED vars
    <2>1. Shrinks /\ UNCHANGED <<queue, received, attached, work_count>>
      BY <1>9, ShrinkingSteps DEF check_outdated_unassigned_tasks, expire_unassigned, vars
    <2> QED
      BY <1>1, <2>1, OtherHandedOver
  <1> QED
    BY <1>2, <1>3, <1>4, <1>5, <1>6, <1>7, <1>8, <1>9 DEF Next, CheckStep

\* A task in progress waits in the queue of its worker or was sent to it, and the counter
\* of an attached worker covers its tasks.
LEMMA HandedOverInvariance == Spec => [](HandedOver /\ WorkCountCovers)
  <1>1. Init => HandedOver /\ WorkCountCovers
    <2> SUFFICES ASSUME Init PROVE HandedOver /\ WorkCountCovers
      OBVIOUS
    <2>1. Outstanding = {} /\ \A w \in Workers : attached[w] # "on"
      BY DEF Init, Outstanding
    <2> QED
      BY <2>1 DEF HandedOver, WorkCountCovers
  <1>2. IInv /\ HandedOver /\ WorkCountCovers /\ [Next]_vars => HandedOver' /\ WorkCountCovers'
    BY NextHandedOver
  <1> QED
    BY <1>1, <1>2, Invariance, PTL DEF Spec

\* The books never name a worker that was not given the task: HandedOver holds in every
\* state of the queue.
THEOREM TasksAreHandedOver == Spec => []HandedOver
  BY HandedOverInvariance, PTL

\* The counter that picks the least busy worker never undercounts an attached worker, so
\* it never becomes negative: WorkCountCovers holds in every state.
THEOREM CountersCoverTasks == Spec => []WorkCountCovers
  BY HandedOverInvariance, PTL

-----------------------------------------------------------------------------
(* The queue implements TaskPromise *)

\* Every step of the queue is a step of the promise or none.
LEMMA PromiseStep == IInv /\ [Next]_vars => [Promise!Next]_(Promise!vars)
  <1> SUFFICES ASSUME IInv, [Next]_vars PROVE [Promise!Next]_(Promise!vars)
    OBVIOUS
  <1> USE DEF IInv
  <1>1. ASSUME NEW w \in Workers, attach(w) \/ detach(w) \/ send(w)
        PROVE  UNCHANGED Promise!vars
    BY <1>1 DEF attach, detach, send, Promise!vars
  <1>2. ASSUME NEW t \in Tasks, add_task(t) PROVE Promise!Submit(t)
    <2>1. dispatched[t] = 0 /\ dispatched \in [Tasks -> Nat] /\ callback[t] = "none"
      BY <1>2 DEF FreshInv, TypeOK, add_task
    <2>2. \E n \in {0, 1} : dispatched' = [dispatched EXCEPT ![t] = n]
      <3>1. CASE dispatched' = dispatched
        BY <2>1, <3>1
      <3>2. CASE dispatched' = [dispatched EXCEPT ![t] = @ + 1]
        BY <2>1, <3>2
      <3> QED
        BY <1>2, <3>1, <3>2 DEF add_task, add, Assign, Hold
    <2> QED
      BY <1>2, <2>1, <2>2 DEF add_task, Promise!Submit
  <1>3. ASSUME NEW t \in Tasks, Expire(t) PROVE UNCHANGED Promise!vars
    BY <1>3 DEF Expire, Promise!vars
  <1>4. ASSUME NEW t \in Outstanding, set_future_result({t}, "result"), UNCHANGED dispatched
        PROVE  Promise!Answer(t)
    <2>1. t \in Tasks /\ callback[t] = "pending" /\ dispatched[t] > 0
      BY DEF TypeOK, NoLostTask, FreshInv
    <2>2. callback' = [callback EXCEPT ![t] = "result"]
      BY <1>4, <2>1 DEF set_future_result, TypeOK
    <2> QED
      BY <1>4, <2>1, <2>2 DEF Promise!Answer
  <1>5. ASSUME NEW E \in SUBSET (Outstanding \cup Unassigned), E # {},
               set_future_result(E, "error"), UNCHANGED dispatched
        PROVE  Promise!Fail
    <2>1. E \in (SUBSET Tasks) \ {{}} /\ \A t \in E : callback[t] = "pending"
      BY <1>5 DEF TypeOK, NoLostTask
    <2>2. callback' = [t \in Tasks |-> IF t \in E THEN "error" ELSE callback[t]]
      BY <1>5, <2>1 DEF set_future_result, TypeOK
    <2> QED
      BY <1>5, <2>1, <2>2 DEF Promise!Fail
  <1>6. ASSUME NEW w \in Workers, NEW t \in Tasks, acknowledge_task(w, t) \/ error_task(w, t)
        PROVE  Promise!Answer(t) \/ Promise!Fail
    BY <1>4, <1>5, <1>6 DEF acknowledge_task, error_task, settle, open_tasks
  <1>7. ASSUME NEW t \in Outstanding \cup Unassigned, NEW w \in Workers, NEW r \in 0..MaxRetries,
               dispatched[t] <= r, Assign(t, w, r), UNCHANGED callback
        PROVE  Promise!Attempt(t)
    BY <1>7 DEF Assign, Promise!Attempt, NoLostTask, TypeOK, MaxRetries
  <1>8. ASSUME NEW t \in Tasks, retry_tasks(t)
        PROVE  Promise!Attempt(t) \/ Promise!Fail \/ UNCHANGED Promise!vars
    <2> DEFINE c == outstanding_tasks[t].retry_counter
    <2>1. t \in Outstanding /\ c \in 0..MaxRetries /\ dispatched[t] <= c + 1
      BY <1>8 DEF retry_tasks, TodoInv, TypeOK, InProgress, AttemptsBounded
    <2>2. CASE c < MaxRetries /\ add(t, c + 1) /\ UNCHANGED callback
      <3>1. c + 1 \in 0..MaxRetries
        BY <2>1, <2>2 DEF MaxRetries
      <3> HIDE DEF c
      <3>2. CASE \E w \in subscriptions(t) : Assign(t, w, c + 1)
        BY <1>7, <2>1, <2>2, <3>1, <3>2, ChosenMatches
      <3>3. CASE Hold(t, c + 1)
        BY <2>2, <3>3 DEF Hold, Promise!vars
      <3> QED
        BY <2>2, <3>2, <3>3 DEF add
    <2>3. CASE give_up(t)
      BY <1>5, <2>1, <2>3 DEF give_up
    <2> QED
      BY <1>8, <2>2, <2>3 DEF retry_tasks, retry
  <1>9. CASE check_outdated_unassigned_tasks
    BY <1>9 DEF check_outdated_unassigned_tasks, Promise!vars
  <1>10. CASE expire_unassigned
    <2> DEFINE E == {t \in Unassigned : unassigned_tasks[t].late}
    <2>1. set_future_result(E, "error") /\ UNCHANGED dispatched
      BY <1>10 DEF expire_unassigned
    <2>2. E \in SUBSET (Outstanding \cup Unassigned)
      OBVIOUS
    <2> HIDE DEF E
    <2>3. CASE E = {}
      BY <2>1, <2>3 DEF set_future_result, Promise!vars, TypeOK
    <2>4. CASE E # {}
      BY <1>5, <2>1, <2>2, <2>4 DEF Promise!Next
    <2> QED
      BY <2>3, <2>4
  <1>11. ASSUME NEW t \in Tasks, assign_unassigned(t)
         PROVE  Promise!Attempt(t) \/ UNCHANGED Promise!vars
    <2> DEFINE c == unassigned_tasks[t].retry_counter
    <2>1. t \in Unassigned /\ c \in 0..MaxRetries /\ dispatched[t] <= c /\ UNCHANGED callback
      BY <1>11 DEF assign_unassigned, TodoInv, TypeOK, OnHold, AttemptsBounded
    <2>2. (\E w \in subscriptions(t) : Assign(t, w, c)) \/ Hold(t, c)
      BY <1>11 DEF assign_unassigned
    <2> HIDE DEF c
    <2>3. CASE \E w \in subscriptions(t) : Assign(t, w, c)
      BY <1>7, <2>1, <2>3, ChosenMatches, <1>11
    <2>4. CASE Hold(t, c)
      BY <2>1, <2>4 DEF Hold, Promise!vars
    <2> QED
      BY <2>2, <2>3, <2>4
  <1>12. CASE UNCHANGED vars
    BY <1>12 DEF vars, Promise!vars
  <1> QED
    BY <1>1, <1>2, <1>3, <1>6, <1>8, <1>9, <1>10, <1>11, <1>12
       DEF Next, CheckStep, Promise!Next

\* Whatever workers do, a caller sees the behaviour of TaskPromise: at most
\* MaxRetries + 1 attempts, one verdict, a result only after an attempt.
THEOREM QueueImplementsPromise == Spec => PromiseKept
  <1>1. Init => Promise!Init
    BY DEF Init, Promise!Init
  <1> QED
    BY <1>1, PromiseStep, Invariance, PTL DEF Spec, PromiseKept, Promise!Spec
=============================================================================
