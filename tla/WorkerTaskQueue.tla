-------------------------- MODULE WorkerTaskQueue --------------------------
(***************************************************************************)
(* core/worker_task_queue.py: tasks are handed to attached workers, retried *)
(* when the worker goes away or misses the deadline, kept on hold while no  *)
(* worker matches, and every caller waits for the task's future.            *)
(*                                                                          *)
(* Every method runs under one asyncio lock.  The only caller of attach     *)
(* (web/api.py) uses unbounded queues, so no method suspends while it holds *)
(* the lock and each call is atomic on the event loop.  The loops inside    *)
(* detach and the periodic check are modelled one iteration per step:       *)
(* while `phase` is not "idle" no other method may start.                   *)
(*                                                                          *)
(* Abstracted: attrs, names and filters are small functions; a deadline is  *)
(* the flag `late` that time may raise at any moment; the order of lists    *)
(* and dicts, which only breaks ties, is left open.                         *)
(***************************************************************************)
EXTENDS Integers, Sequences, FiniteSets

CONSTANTS
    Workers,      \* worker connections (a fresh uuid per websocket)
    Tasks,        \* task ids (uuids)
    Names,        \* the well known task names
    Name,         \* Name[t]: the name of task t
    Attrs,        \* Attrs[t]: function from attribute names to values
    Performs,     \* Performs[w]: the set of names worker w attaches to
    Filter        \* Filter[w]: function from attribute names to sets of values

ASSUME NameAssumption == Name \in [Tasks -> Names]
ASSUME PerformsAssumption == Performs \in [Workers -> (SUBSET Names) \ {{}}]
ASSUME FiniteTasksAssumption == IsFiniteSet(Tasks)

VARIABLES
    attached,            \* worker connections: "new" | "on" | "off"
    work_count,          \* defaultdict: a missing entry reads as 0
    outstanding_tasks,   \* task id -> worker, retry_counter, late
    unassigned_tasks,    \* task id -> retry_counter, late
    queue,               \* queue[w]: tasks put for w and not sent yet
    received,            \* received[w]: tasks sent to w over its websocket
    callback,            \* the future of each task
    dispatched,          \* history: how often each task was put in a queue
    phase,               \* which locked loop is under way
    todo                 \* the tasks the loop still has to visit

vars == <<attached, work_count, outstanding_tasks, unassigned_tasks, queue,
          received, callback, dispatched, phase, todo>>

MaxRetries == 3

Outstanding == DOMAIN outstanding_tasks
Unassigned == DOMAIN unassigned_tasks

\* f with key k set to v, and f without the keys in S: dict assignment and pop.
Put(f, k, v) == [x \in DOMAIN f \cup {k} |-> IF x = k THEN v ELSE f[x]]
Pop(f, S) == [x \in DOMAIN f \ S |-> f[x]]

\* worker_by_task_name[name]: the subscriptions that exist for a name.
worker_by_task_name(n) == {w \in Workers : attached[w] = "on" /\ n \in Performs[w]}

\* The tasks that are in progress at worker w.
open_tasks(w) == {t \in Outstanding : outstanding_tasks[t].worker = w}

Init == /\ attached = [w \in Workers |-> "new"]
        /\ work_count = [w \in Workers |-> 0]
        /\ outstanding_tasks = [t \in {} |-> 0]
        /\ unassigned_tasks = [t \in {} |-> 0]
        /\ queue = [w \in Workers |-> << >>]
        /\ received = [w \in Workers |-> {}]
        /\ callback = [t \in Tasks |-> "none"]
        /\ dispatched = [t \in Tasks |-> 0]
        /\ phase = "idle"
        /\ todo = {}

-----------------------------------------------------------------------------
(* Choosing a worker *)

\* Every criterion of the worker's filter is met by an attribute of the task;
\* attributes the filter does not name are ignored.
can_perform(w, t) ==
    \A n \in DOMAIN Filter[w] :
        n \in DOMAIN Attrs[t] /\ Attrs[t][n] \in Filter[w][n]

matching_subscriptions(t) ==
    {w \in worker_by_task_name(Name[t]) : can_perform(w, t)}

\* The number of criteria in the filter of w.
FilterLen(w) == Cardinality(DOMAIN Filter[w])

same_filter_len(t) ==
    {w \in matching_subscriptions(t) :
        \A v \in matching_subscriptions(t) : FilterLen(v) <= FilterLen(w)}

\* The workers with the lowest work_count among the most specific ones.
subscriptions(t) ==
    {w \in same_filter_len(t) :
        \A v \in same_filter_len(t) : work_count[w] <= work_count[v]}

\* Mutations: the task is booked but never put; the counter is not raised.
Assign_without_put(t, w, retry) ==
    /\ outstanding_tasks' =
         Put(outstanding_tasks, t, [worker |-> w, retry_counter |-> retry, late |-> FALSE])
    /\ work_count' = [work_count EXCEPT ![w] = @ + 1]
    /\ dispatched' = [dispatched EXCEPT ![t] = @ + 1]
    /\ UNCHANGED queue

Assign_without_count(t, w, retry) ==
    /\ outstanding_tasks' =
         Put(outstanding_tasks, t, [worker |-> w, retry_counter |-> retry, late |-> FALSE])
    /\ queue' = [queue EXCEPT ![w] = Append(@, t)]
    /\ dispatched' = [dispatched EXCEPT ![t] = @ + 1]
    /\ UNCHANGED work_count

\* The first branch of __add_task: t goes to worker w.
Assign(t, w, retry) ==
    /\ outstanding_tasks' =
         Put(outstanding_tasks, t, [worker |-> w, retry_counter |-> retry, late |-> FALSE])
    /\ queue' = [queue EXCEPT ![w] = Append(@, t)]
    /\ work_count' = [work_count EXCEPT ![w] = @ + 1]
    /\ dispatched' = [dispatched EXCEPT ![t] = @ + 1]

\* Mutation: the task is taken off the list and not put on hold.
Hold_nothing(t, retry) ==
    /\ outstanding_tasks' = Pop(outstanding_tasks, {t})
    /\ UNCHANGED <<unassigned_tasks, queue, work_count, dispatched>>

\* The second branch of __add_task: no worker, t is put on hold (an entry
\* that is already there keeps its deadline).
Hold(t, retry) ==
    /\ outstanding_tasks' = Pop(outstanding_tasks, {t})
    /\ unassigned_tasks' =
         IF t \in Unassigned THEN unassigned_tasks
         ELSE Put(unassigned_tasks, t, [retry_counter |-> retry, late |-> FALSE])
    /\ UNCHANGED <<queue, work_count, dispatched>>

\* __add_task as add_task and __retry_tasks call it.
add(t, retry) ==
    \/ \E w \in subscriptions(t) : Assign(t, w, retry) /\ UNCHANGED unassigned_tasks
    \/ matching_subscriptions(t) = {} /\ Hold(t, retry)

\* set_future_result: a future that is done keeps its value.
set_future_result(T, value) ==
    callback' = [t \in Tasks |-> IF t \in T /\ callback[t] = "pending"
                                 THEN value ELSE callback[t]]

-----------------------------------------------------------------------------
(* The methods *)

attach(w) ==
    /\ phase = "idle"
    /\ attached[w] = "new"
    /\ attached' = [attached EXCEPT ![w] = "on"]
    /\ work_count' = [work_count EXCEPT ![w] = 0]
    /\ UNCHANGED <<outstanding_tasks, unassigned_tasks, queue, received, callback,
                   dispatched, phase, todo>>

\* Mutation: the open tasks of a worker that leaves are not retried.
detach_without_retry(w) ==
    /\ phase = "idle"
    /\ attached[w] = "on"
    /\ attached' = [attached EXCEPT ![w] = "off"]
    /\ work_count' = [work_count EXCEPT ![w] = 0]
    /\ UNCHANGED <<outstanding_tasks, unassigned_tasks, queue, received, callback,
                   dispatched, phase, todo>>

\* The finally block of attach: the subscriptions and the counter go, then
\* the open tasks of the worker are retried under the same lock.
detach(w) ==
    /\ phase = "idle"
    /\ attached[w] = "on"
    /\ attached' = [attached EXCEPT ![w] = "off"]
    /\ work_count' = [work_count EXCEPT ![w] = 0]
    /\ todo' = open_tasks(w)
    /\ phase' = IF open_tasks(w) = {} THEN "idle" ELSE "detach"
    /\ UNCHANGED <<outstanding_tasks, unassigned_tasks, queue, received, callback,
                   dispatched>>

add_task(t) ==
    /\ phase = "idle"
    /\ callback[t] = "none"
    /\ callback' = [callback EXCEPT ![t] = "pending"]
    /\ add(t, 0)
    /\ UNCHANGED <<attached, received, phase, todo>>

\* send() of the websocket handler takes the next task and sends it.
send(w) ==
    /\ phase = "idle"
    /\ attached[w] = "on"
    /\ queue[w] # << >>
    /\ received' = [received EXCEPT ![w] = @ \cup {Head(queue[w])}]
    /\ queue' = [queue EXCEPT ![w] = Tail(@)]
    /\ UNCHANGED <<attached, work_count, outstanding_tasks, unassigned_tasks, callback,
                   dispatched, phase, todo>>

\* Mutation: the answered task stays in the list of outstanding tasks.
settle_without_pop(w, t, value) ==
    /\ t \in open_tasks(w)
    /\ work_count' = [work_count EXCEPT ![w] = @ - 1]
    /\ set_future_result({t}, value)
    /\ UNCHANGED outstanding_tasks

\* __acknowledge_task and __error_task: only the worker the task is assigned
\* to now may settle it; anything else is logged and ignored.
settle(w, t, value) ==
    /\ t \in open_tasks(w)
    /\ outstanding_tasks' = Pop(outstanding_tasks, {t})
    /\ work_count' = [work_count EXCEPT ![w] = @ - 1]
    /\ set_future_result({t}, value)

\* A worker answers a task it was sent: in time, late, or a second time.
acknowledge_task(w, t) ==
    /\ phase = "idle"
    /\ t \in received[w]
    /\ settle(w, t, "result")
    /\ UNCHANGED <<attached, unassigned_tasks, queue, received, dispatched, phase, todo>>

error_task(w, t) ==
    /\ phase = "idle"
    /\ t \in received[w]
    /\ settle(w, t, "error")
    /\ UNCHANGED <<attached, unassigned_tasks, queue, received, dispatched, phase, todo>>

-----------------------------------------------------------------------------
(* The locked loops *)

give_up(t) ==
    /\ outstanding_tasks' = Pop(outstanding_tasks, {t})
    /\ work_count' = [work_count EXCEPT ![outstanding_tasks[t].worker] = @ - 1]
    /\ set_future_result({t}, "error")
    /\ UNCHANGED <<unassigned_tasks, queue, dispatched>>

\* Mutation: the retry counter is handed on as it is.
retry_uncounted(t) ==
    \/ /\ outstanding_tasks[t].retry_counter < MaxRetries
       /\ add(t, outstanding_tasks[t].retry_counter)
       /\ UNCHANGED callback
    \/ /\ outstanding_tasks[t].retry_counter >= MaxRetries
       /\ give_up(t)

\* What __retry_tasks does with one task of its list.
retry(t) ==
    \/ /\ outstanding_tasks[t].retry_counter < MaxRetries
       /\ add(t, outstanding_tasks[t].retry_counter + 1)
       /\ UNCHANGED callback
    \/ /\ outstanding_tasks[t].retry_counter >= MaxRetries
       /\ give_up(t)

\* One iteration of __retry_tasks.
retry_tasks(t) ==
    /\ phase \in {"detach", "check"}
    /\ t \in todo
    /\ todo' = todo \ {t}
    /\ retry(t)
    /\ phase' = IF phase = "detach" /\ todo' = {} THEN "idle" ELSE phase
    /\ UNCHANGED <<attached, received>>

\* Mutation: outstanding tasks past their deadline are not collected.
check_only_unassigned ==
    /\ phase = "idle"
    /\ phase' = "check"
    /\ todo' = {}
    /\ UNCHANGED <<attached, work_count, outstanding_tasks, unassigned_tasks, queue,
                   received, callback, dispatched>>

\* check_outdated_unassigned_tasks takes its two snapshots and the lock.  The
\* tasks on hold that are late stay late until expire_unassigned.
check_outdated_unassigned_tasks ==
    /\ phase = "idle"
    /\ phase' = "check"
    /\ todo' = {t \in Outstanding : outstanding_tasks[t].late}
    /\ UNCHANGED <<attached, work_count, outstanding_tasks, unassigned_tasks, queue,
                   received, callback, dispatched>>

\* After the retries: tasks nobody took in time fail, the others are tried.
expire_unassigned ==
    LET expired == {t \in Unassigned : unassigned_tasks[t].late}
    IN  /\ phase = "check"
        /\ todo = {}
        /\ set_future_result(expired, "error")
        /\ unassigned_tasks' = Pop(unassigned_tasks, expired)
        /\ todo' = Unassigned \ expired
        /\ phase' = IF todo' = {} THEN "idle" ELSE "assign"
        /\ UNCHANGED <<attached, work_count, outstanding_tasks, queue, received,
                       dispatched>>

\* One iteration of the last loop: a task that finds a worker is off hold.
assign_unassigned(t) ==
    /\ phase = "assign"
    /\ t \in todo
    /\ \/ \E w \in subscriptions(t) :
            /\ Assign(t, w, unassigned_tasks[t].retry_counter)
            /\ unassigned_tasks' = Pop(unassigned_tasks, {t})
       \/ matching_subscriptions(t) = {} /\ Hold(t, unassigned_tasks[t].retry_counter)
    /\ todo' = todo \ {t}
    /\ phase' = IF todo' = {} THEN "idle" ELSE "assign"
    /\ UNCHANGED <<attached, received, callback>>

\* Time: the deadline of an entry passes.
Expire(t) ==
    /\ phase = "idle"
    /\ \/ /\ t \in Outstanding
          /\ ~outstanding_tasks[t].late
          /\ outstanding_tasks' = [outstanding_tasks EXCEPT ![t].late = TRUE]
          /\ UNCHANGED unassigned_tasks
       \/ /\ t \in Unassigned
          /\ ~unassigned_tasks[t].late
          /\ unassigned_tasks' = [unassigned_tasks EXCEPT ![t].late = TRUE]
          /\ UNCHANGED outstanding_tasks
    /\ UNCHANGED <<attached, work_count, queue, received, callback, dispatched,
                   phase, todo>>

-----------------------------------------------------------------------------
CheckStep == \/ check_outdated_unassigned_tasks
             \/ \E t \in Tasks : retry_tasks(t) \/ assign_unassigned(t)
             \/ expire_unassigned

Next == \/ \E w \in Workers : attach(w) \/ detach(w) \/ send(w)
        \/ \E t \in Tasks : add_task(t) \/ Expire(t)
        \/ \E w \in Workers, t \in Tasks : acknowledge_task(w, t) \/ error_task(w, t)
        \/ CheckStep

\* The periodic check runs every 5 seconds and deadlines pass (strongly fair:
\* time is only held up while a locked loop runs); nothing is assumed of
\* workers or callers.
Fairness == /\ WF_vars(CheckStep)
            /\ \A t \in Tasks : SF_vars(Expire(t))

Spec == Init /\ [][Next]_vars
FairSpec == Spec /\ Fairness

-----------------------------------------------------------------------------
(* Properties *)

InProgress == [worker : Workers, retry_counter : 0..MaxRetries, late : BOOLEAN]
OnHold == [retry_counter : 0..MaxRetries, late : BOOLEAN]

\* Every variable has the type its Python counterpart has.
TypeOK == /\ attached \in [Workers -> {"new", "on", "off"}]
          /\ work_count \in [Workers -> Int]
          /\ Outstanding \subseteq Tasks
          /\ outstanding_tasks \in [Outstanding -> InProgress]
          /\ Unassigned \subseteq Tasks
          /\ unassigned_tasks \in [Unassigned -> OnHold]
          /\ queue \in [Workers -> Seq(Tasks)]
          /\ received \in [Workers -> SUBSET Tasks]
          /\ callback \in [Tasks -> {"none", "pending", "result", "error"}]
          /\ dispatched \in [Tasks -> Nat]
          /\ phase \in {"idle", "detach", "check", "assign"}
          /\ todo \subseteq Tasks

\* A caller that still waits for its future has its task either at a worker
\* or on hold, never in both places, and a task whose future is done is in
\* neither: no sequence of attach, detach, answer and check loses a task or
\* keeps working on one that is settled.
NoLostTask ==
    /\ Outstanding \cap Unassigned = {}
    /\ \A t \in Tasks : callback[t] = "pending" <=> t \in Outstanding \cup Unassigned

\* A task in progress belongs to a worker that is attached to its name and
\* whose filter it meets; only the retries that a detach has still to make
\* are excepted.
AtMatchingWorker ==
    \A t \in Outstanding :
        \/ phase = "detach" /\ t \in todo
        \/ LET w == outstanding_tasks[t].worker
           IN  attached[w] = "on" /\ Name[t] \in Performs[w] /\ can_perform(w, t)

\* A task in progress was really handed over: it waits in the queue of its
\* worker or has been sent to it.
HandedOver ==
    \A t \in Outstanding :
        LET w == outstanding_tasks[t].worker
        IN  t \in received[w] \/ \E i \in DOMAIN queue[w] : queue[w][i] = t

\* A task is put into a queue at most MaxRetries + 1 times whatever mixture of
\* worker loss, timeouts and holding it goes through, because every new
\* attempt has a higher retry counter than the one before.
AttemptsBounded ==
    /\ \A t \in Tasks : dispatched[t] <= MaxRetries + 1
    /\ \A t \in Outstanding : dispatched[t] <= outstanding_tasks[t].retry_counter + 1
    /\ \A t \in Unassigned : dispatched[t] <= unassigned_tasks[t].retry_counter

\* The work_count of an attached worker never falls below the number of tasks
\* it has in progress, so it cannot become negative either.
WorkCountCovers ==
    \A w \in Workers : attached[w] = "on" => Cardinality(open_tasks(w)) <= work_count[w]

\* Every caller gets an answer: the future of a task that was added is done
\* some day, even if workers never answer, come and go, or never exist.
EveryTaskResolved ==
    \A t \in Tasks : callback[t] = "pending" ~> callback[t] \in {"result", "error"}

\* The queue keeps the promise of TaskPromise to its callers.
Promise == INSTANCE TaskPromise WITH verdict <- callback, attempts <- dispatched,
                                     MaxAttempts <- MaxRetries + 1
PromiseKept == Promise!Spec
=============================================================================
