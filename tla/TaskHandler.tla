---------------------------- MODULE TaskHandler ----------------------------
(***************************************************************************)
(* core/task/task_handler.py: which runs of which task descriptions exist,  *)
(* from trigger to removal.  The handler is a set of coroutines on one      *)
(* event loop: a step below is the code between two awaits that really      *)
(* suspend (database calls, the CLI command, awaiting update_task).         *)
(*                                                                          *)
(* A run is seen as a counter over the steps of its description; what moves *)
(* it from one step to the next is the subject of RunningTask.  A job has   *)
(* one ExecuteCommand step and stops on timeout; the steps of a workflow    *)
(* wait for answers and go on after a timeout.                              *)
(***************************************************************************)
EXTENDS Naturals, FiniteSets, Functions

CONSTANTS
    Descs,        \* ids of task descriptions
    Runs,         \* ids of runs; every start takes a fresh one
    NoRun,        \* the watcher is at no run
    Kind,         \* Kind[d]: "job" | "workflow"
    OnSurpass,    \* OnSurpass[d]: "Skip" | "Parallel" | "Replace" | "Wait"
    Steps,        \* Steps[d]: number of steps
    MaxTriggers,  \* bound on the number of triggers
    Faults        \* what may happen: subset of
                  \* {"fail", "delete", "refuse", "crash"}

ASSUME DescAssumption ==
    /\ Kind \in [Descs -> {"job", "workflow"}]
    /\ OnSurpass \in [Descs -> {"Skip", "Parallel", "Replace", "Wait"}]
    /\ Steps \in [Descs -> Nat \ {0}]
    /\ \A d \in Descs : Kind[d] = "job" => Steps[d] = 1

ASSUME BoundAssumption ==
    /\ NoRun \notin Runs
    /\ MaxTriggers \in Nat
    /\ Faults \subseteq {"fail", "delete", "refuse", "crash"}

VARIABLES
    known,            \* ids in task_descriptions
    run,              \* the RunningTask objects: run id -> record
    tasks,            \* ids in self.tasks
    db,               \* running_task_db: run id -> persisted step
    start_when_done,  \* descriptions with a queued invocation
    starting,         \* runs whose insert start_task_directly awaits
    replacing,        \* runs ended by a Replace whose store is awaited
    removing,         \* delete_job at work: description -> runs still to delete
    deleting,         \* runs delete_job has ended, whose row delete is awaited
    refused,          \* history: runs whose row delete raised an exception
    watcher,          \* the coroutine of check_overdue_tasks
    triggered         \* history: how often each description was triggered

vars == <<known, run, tasks, db, start_when_done, starting, replacing, removing,
          deleting, refused, watcher, triggered>>

\* RunningTask.is_active: the machine is not in its end state.
is_active(r) == run[r].step <= Steps[run[r].desc]
End(d) == Steps[d] + 1

RunsOf(d) == {r \in DOMAIN run : run[r].desc = d}
Fresh == Runs \ DOMAIN run

\* What the watcher does next; `at` names the await it is in.
Watcher(at, todo, cur) == [at |-> at, todo |-> todo, cur |-> cur]
Idle == Watcher("idle", {}, NoRun)

\* The loop of the watcher only lets other coroutines run at its awaits.
Free == watcher.at # "loop"

Init == /\ known = Descs
        /\ run = [r \in {} |-> 0]
        /\ tasks = {}
        /\ db = [r \in {} |-> 0]
        /\ start_when_done = {}
        /\ starting = {}
        /\ replacing = {}
        /\ removing = [d \in {} |-> {}]
        /\ deleting = {}
        /\ refused = {}
        /\ watcher = Idle
        /\ triggered = [d \in Descs |-> 0]

-----------------------------------------------------------------------------
(* Starting runs *)

\* Mutation: the machine is still in its start state.
NewRun_unmoved(d) == [desc |-> d, step |-> 0, update_task |-> "none", late |-> FALSE, alive |-> TRUE]

\* RunningTask.empty: the machine has moved into the first step.
NewRun(d) == [desc |-> d, step |-> 1, update_task |-> "none", late |-> FALSE, alive |-> TRUE]

\* start_task_directly up to the insert.
start_task_directly(d, r) ==
    /\ r \in Fresh
    /\ run' = [x \in DOMAIN run \cup {r} |-> IF x = r THEN NewRun(d) ELSE run[x]]

\* Mutation: the run is registered but not stored.
insert_unpersisted(r) ==
    /\ tasks' = tasks \cup {r}
    /\ run' = [run EXCEPT ![r].update_task = "running"]
    /\ UNCHANGED db

\* After the insert: the run is registered and its first commands execute.
insert(r) ==
    /\ db' = [x \in DOMAIN db \cup {r} |-> IF x = r THEN run[r].step ELSE db[x]]
    /\ tasks' = tasks \cup {r}
    /\ run' = [run EXCEPT ![r].update_task = "running"]

\* store_running_task_state: an active run is updated, an ended one deleted.
store_running_task_state(r) ==
    IF is_active(r) THEN [db EXCEPT ![r] = run[r].step]
    ELSE IF r \in tasks THEN [x \in DOMAIN db \ {r} |-> db[x]]
    ELSE db

\* The runs of d that start_task takes for an existing run.
existing(d) == {r \in RunsOf(d) \cap tasks : is_active(r)}

\* start_task, called for an event, a cron trigger or an API or CLI request.
start_task(d) ==
    /\ Free
    /\ d \in known
    /\ SumFunction(triggered) < MaxTriggers
    /\ triggered' = [triggered EXCEPT ![d] = @ + 1]
    /\ \/ /\ existing(d) = {} \/ OnSurpass[d] = "Parallel"
          /\ \E r \in Fresh : start_task_directly(d, r) /\ starting' = starting \cup {r}
          /\ UNCHANGED <<start_when_done, replacing>>
       \/ /\ existing(d) # {} /\ OnSurpass[d] = "Skip"
          /\ UNCHANGED <<run, starting, start_when_done, replacing>>
       \/ /\ OnSurpass[d] = "Replace"
          /\ \E r \in existing(d) :
               /\ run' = [run EXCEPT ![r].step = End(d)]
               /\ replacing' = replacing \cup {r}
          /\ UNCHANGED <<starting, start_when_done>>
       \/ /\ existing(d) # {} /\ OnSurpass[d] = "Wait"
          /\ start_when_done' = start_when_done \cup {d}
          /\ UNCHANGED <<run, starting, replacing>>
    /\ UNCHANGED <<known, tasks, db, removing, watcher, deleting, refused>>

\* Replace goes on when the state of the old run is stored: it is ended, so
\* its row is deleted if it is still registered.
replaced(r) ==
    /\ Free
    /\ r \in replacing
    /\ replacing' = replacing \ {r}
    /\ db' = store_running_task_state(r)
    /\ \E n \in Fresh : /\ start_task_directly(run[r].desc, n)
                        /\ starting' = starting \cup {n}
    /\ UNCHANGED <<known, tasks, start_when_done, removing, watcher, triggered, deleting,
                   refused>>

inserted(r) ==
    /\ Free
    /\ r \in starting
    /\ starting' = starting \ {r}
    /\ insert(r)
    /\ UNCHANGED <<known, start_when_done, replacing, removing, watcher, triggered,
                   deleting, refused>>

-----------------------------------------------------------------------------
(* Running commands: execute_task_commands and its chained update_task *)

\* A step of r is over: the commands of the next state are appended to the
\* chain.  Behind a chain that failed nothing is executed any more.
advance(r) ==
    run' = [run EXCEPT ![r].step = @ + 1,
                       ![r].late = FALSE,
                       ![r].update_task = IF @ = "failed" THEN "failed" ELSE "running"]

\* All commands of the chain are executed.  The state is stored and the run is
\* told the results: the command of a job was its last step.
execute_task_commands(r) ==
    /\ Free
    /\ r \in DOMAIN run
    /\ run[r].update_task = "running"
    /\ IF run[r].alive THEN db' = store_running_task_state(r) ELSE UNCHANGED db
    /\ IF run[r].alive /\ is_active(r) /\ Kind[run[r].desc] = "job"
       THEN advance(r)
       ELSE run' = [run EXCEPT ![r].update_task = "done"]
    /\ UNCHANGED <<known, tasks, start_when_done, starting, replacing, removing, watcher,
                   triggered, deleting, refused>>

\* The CLI command of a job raises: the asyncio task holds the exception.
command_fails(r) ==
    /\ Free
    /\ "fail" \in Faults
    /\ r \in DOMAIN run
    /\ run[r].update_task = "running"
    /\ is_active(r) /\ Kind[run[r].desc] = "job"
    /\ run' = [run EXCEPT ![r].update_task = "failed"]
    /\ UNCHANGED <<known, tasks, db, start_when_done, starting, replacing, removing,
                   watcher, triggered, deleting, refused>>

\* handle_action_result: the last answer a workflow step was waiting for.
handle_action_result(r) ==
    /\ Free
    /\ r \in tasks
    /\ is_active(r) /\ Kind[run[r].desc] = "workflow"
    /\ advance(r)
    /\ UNCHANGED <<known, tasks, db, start_when_done, starting, replacing, removing,
                   watcher, triggered, deleting, refused>>

\* The current step of r has lasted longer than its timeout.
Overdue(r) ==
    /\ Free
    /\ r \in tasks
    /\ is_active(r) /\ ~run[r].late
    /\ run' = [run EXCEPT ![r].late = TRUE]
    /\ UNCHANGED <<known, tasks, db, start_when_done, starting, replacing, removing,
                   watcher, triggered, deleting, refused>>

-----------------------------------------------------------------------------
(* check_overdue_tasks, a Periodic *)

\* Mutation: only active runs are looked at.
check_overdue_active ==
    /\ watcher = Idle
    /\ watcher' = Watcher("loop", {r \in tasks : is_active(r)}, NoRun)
    /\ UNCHANGED <<known, run, tasks, db, start_when_done, starting, replacing, removing,
                   triggered, deleting, refused>>

check_overdue_tasks ==
    /\ watcher = Idle
    /\ watcher' = Watcher("loop", tasks, NoRun)
    /\ UNCHANGED <<known, run, tasks, db, start_when_done, starting, replacing, removing,
                   triggered, deleting, refused>>

\* The loop takes the next run of its snapshot.  A run that timed out goes on
\* to its next step (workflow) or is ended (job); a run that is not active,
\* now or before, is cleaned up after its update_task.
check_visit(r) ==
    LET late == is_active(r) /\ run[r].late
        stop == late /\ Kind[run[r].desc] = "job"
        todo == watcher.todo \ {r}
    IN  /\ watcher.at = "loop"
        /\ r \in watcher.todo
        /\ IF late /\ ~stop THEN advance(r)
           ELSE IF stop THEN run' = [run EXCEPT ![r].step = End(run[r].desc)]
           ELSE UNCHANGED run
        /\ watcher' = IF stop THEN Watcher("store", todo, r)
                      ELSE IF run'[r].step = End(run[r].desc) THEN Watcher("update_task", todo, r)
                      ELSE Watcher("loop", todo, NoRun)
        /\ UNCHANGED <<known, tasks, db, start_when_done, starting, replacing, removing,
                       triggered, deleting, refused>>

\* The state of the run it has ended is stored: its row is deleted.
check_stored ==
    /\ watcher.at = "store"
    /\ db' = store_running_task_state(watcher.cur)
    /\ watcher' = [watcher EXCEPT !.at = "update_task"]
    /\ UNCHANGED <<known, run, tasks, start_when_done, starting, replacing, removing,
                   triggered, deleting, refused>>

\* Awaiting update_task returns, raises its exception, which Periodic catches
\* (the rest of the loop is lost), or raises CancelledError, which it does not.
\* Then delete_running_task takes the run out of tasks.
check_update_task ==
    LET r == watcher.cur
    IN  /\ watcher.at = "update_task"
        /\ \/ /\ run[r].update_task \in {"none", "done"}
              /\ tasks' = tasks \ {r}
              /\ run' = [run EXCEPT ![r].alive = FALSE]
              /\ watcher' = [watcher EXCEPT !.at = "delete"]
           \/ /\ run[r].update_task = "failed"
              /\ watcher' = Idle
              /\ UNCHANGED <<tasks, run>>
           \/ /\ run[r].update_task = "cancelled"
              /\ watcher' = [watcher EXCEPT !.at = "dead"]
              /\ UNCHANGED <<tasks, run>>
        /\ UNCHANGED <<known, db, start_when_done, starting, replacing, removing,
                       triggered, deleting, refused>>

\* running_task_db.delete: the row is gone, or the call raises, which
\* delete_running_task suppresses.
delete_row(r) ==
    \/ db' = [x \in DOMAIN db \ {r} |-> db[x]] /\ UNCHANGED refused
    \/ "refuse" \in Faults /\ refused' = refused \cup {r} /\ UNCHANGED db

\* Mutations: the queued invocation stays queued when it is started; it is
\* forgotten.
check_deleted_keeps_queue ==
    LET d == run[watcher.cur].desc
    IN  /\ watcher.at = "delete"
        /\ delete_row(watcher.cur)
        /\ IF d \in start_when_done
           THEN \E n \in Fresh : /\ start_task_directly(d, n)
                                 /\ watcher' = Watcher("insert", watcher.todo, n)
           ELSE watcher' = Watcher("loop", watcher.todo, NoRun) /\ UNCHANGED run
        /\ UNCHANGED <<known, tasks, start_when_done, starting, replacing, removing,
                       triggered, deleting>>

check_deleted_starts_none ==
    /\ watcher.at = "delete"
    /\ delete_row(watcher.cur)
    /\ watcher' = Watcher("loop", watcher.todo, NoRun)
    /\ UNCHANGED <<known, run, tasks, start_when_done, starting, replacing, removing,
                   triggered, deleting>>

\* The delete of the row is over; a queued invocation of the description is started.
check_deleted ==
    LET d == run[watcher.cur].desc
    IN  /\ watcher.at = "delete"
        /\ delete_row(watcher.cur)
        /\ \/ /\ d \in start_when_done
              /\ start_when_done' = start_when_done \ {d}
              /\ \E n \in Fresh : /\ start_task_directly(d, n)
                                  /\ watcher' = Watcher("insert", watcher.todo, n)
           \/ /\ d \notin start_when_done
              /\ watcher' = Watcher("loop", watcher.todo, NoRun)
              /\ UNCHANGED <<run, start_when_done>>
        /\ UNCHANGED <<known, tasks, starting, replacing, removing, triggered, deleting>>

check_inserted ==
    /\ watcher.at = "insert"
    /\ insert(watcher.cur)
    /\ watcher' = Watcher("event", watcher.todo, NoRun)
    /\ UNCHANGED <<known, start_when_done, starting, replacing, removing, triggered,
                   deleting, refused>>

\* The TaskStarted event is sent; then the loop goes on.
check_started ==
    /\ watcher.at = "event"
    /\ watcher' = Watcher("loop", watcher.todo, NoRun)
    /\ UNCHANGED <<known, run, tasks, db, start_when_done, starting, replacing, removing,
                   triggered, deleting, refused>>

check_done ==
    /\ watcher.at = "loop"
    /\ watcher.todo = {}
    /\ watcher' = Idle
    /\ UNCHANGED <<known, run, tasks, db, start_when_done, starting, replacing, removing,
                   triggered, deleting, refused>>

-----------------------------------------------------------------------------
(* Jobs come and go *)

delete_job(d) ==
    /\ Free
    /\ "delete" \in Faults
    /\ d \in known \ DOMAIN removing /\ Kind[d] = "job"
    /\ removing' = [x \in DOMAIN removing \cup {d} |->
                      IF x = d THEN RunsOf(d) \cap tasks ELSE removing[x]]
    /\ UNCHANGED <<known, run, tasks, db, start_when_done, starting, replacing, watcher,
                   triggered, deleting, refused>>

\* Mutation: the run is unregistered but not ended.
delete_running_task_unended(d, r) ==
    /\ Free
    /\ d \in DOMAIN removing
    /\ r \in removing[d] /\ RunsOf(d) \cap deleting = {}
    /\ removing' = [removing EXCEPT ![d] = @ \ {r}]
    /\ tasks' = tasks \ {r}
    /\ deleting' = deleting \cup {r}
    /\ UNCHANGED <<known, run, db, start_when_done, starting, replacing, watcher,
                   triggered, refused>>

\* One delete_running_task of delete_job, which takes one run after the other: the
\* run is unregistered, its command cancelled and the run ended.
delete_running_task(d, r) ==
    /\ Free
    /\ d \in DOMAIN removing
    /\ r \in removing[d] /\ RunsOf(d) \cap deleting = {}
    /\ removing' = [removing EXCEPT ![d] = @ \ {r}]
    /\ tasks' = tasks \ {r}
    /\ run' = [run EXCEPT ![r].alive = FALSE,
                          ![r].step = End(run[r].desc),
                          ![r].update_task = IF @ = "running" THEN "cancelled" ELSE @]
    /\ deleting' = deleting \cup {r}
    /\ UNCHANGED <<known, db, start_when_done, starting, replacing, watcher, triggered,
                   refused>>

\* ... and then its row deleted, which is awaited.
row_deleted(r) ==
    /\ Free
    /\ r \in deleting
    /\ deleting' = deleting \ {r}
    /\ delete_row(r)
    /\ UNCHANGED <<known, run, tasks, start_when_done, starting, replacing, removing,
                   watcher, triggered>>

\* The description goes last, with its triggers; the waiting queue is not touched.
job_deleted(d) ==
    /\ Free
    /\ d \in DOMAIN removing
    /\ removing[d] = {} /\ RunsOf(d) \cap deleting = {}
    /\ known' = known \ {d}
    /\ removing' = [x \in DOMAIN removing \ {d} |-> removing[x]]
    /\ UNCHANGED <<run, tasks, db, start_when_done, starting, replacing, watcher,
                   triggered, deleting, refused>>

add_job(d) ==
    /\ Free
    /\ d \in Descs \ known
    /\ known' = known \cup {d}
    /\ UNCHANGED <<run, tasks, db, start_when_done, starting, replacing, removing, watcher,
                   triggered, deleting, refused>>

-----------------------------------------------------------------------------
(* Crash and start_interrupted_tasks *)

\* The steps a restored run may be in: a workflow step that waits for nobody
\* any more is left at once, and what it would emit is dropped.
restored_steps(r) == IF Kind[run[r].desc] = "job" THEN {db[r]} ELSE db[r]..End(run[r].desc)

\* The process dies and comes back: what is in the database is restored, a
\* command is executed again, the waiting queue is lost.  Rows of descriptions
\* that do not exist any more are deleted.
start_interrupted_tasks ==
    LET restored == {r \in DOMAIN db : run[r].desc \in known}
        forgotten(r) == [run[r] EXCEPT !.step = End(run[r].desc), !.update_task = "none",
                                       !.alive = FALSE]
    IN  /\ "crash" \in Faults
        /\ \E step \in [restored -> UNION {restored_steps(r) : r \in restored}] :
             /\ \A r \in restored : step[r] \in restored_steps(r)
             /\ run' = [r \in DOMAIN run |->
                  IF r \notin restored THEN forgotten(r)
                  ELSE [desc |-> run[r].desc, step |-> step[r], alive |-> TRUE,
                        late |-> FALSE,
                        update_task |-> IF Kind[run[r].desc] = "job" THEN "running" ELSE "none"]]
        /\ tasks' = restored
        /\ db' = [r \in restored |-> db[r]]
        /\ start_when_done' = {}
        /\ starting' = {}
        /\ replacing' = {}
        /\ removing' = [d \in {} |-> {}]
        /\ deleting' = {}
        /\ refused' = {}
        /\ watcher' = Idle
        /\ UNCHANGED <<known, triggered>>

-----------------------------------------------------------------------------
WatcherStep == \/ check_overdue_tasks \/ check_stored \/ check_update_task \/ check_deleted
               \/ check_inserted \/ check_started \/ check_done
               \/ \E r \in Runs : check_visit(r)

Next == \/ \E d \in Descs : start_task(d) \/ delete_job(d) \/ job_deleted(d) \/ add_job(d)
        \/ \E r \in Runs : \/ replaced(r) \/ inserted(r)
                           \/ execute_task_commands(r) \/ command_fails(r)
                           \/ handle_action_result(r) \/ Overdue(r) \/ row_deleted(r)
        \/ \E d \in Descs, r \in Runs : delete_running_task(d, r)
        \/ WatcherStep
        \/ start_interrupted_tasks

Spec == Init /\ [][Next]_vars

\* The event loop serves every coroutine whose await is over, and time passes.
\* Fairness is strong because the loop of the watcher holds up the others for
\* a moment in every pass.  Commands come to an end, as the CLI itself has no
\* timeout; subscribers need not answer.
Resumes(r) == inserted(r) \/ replaced(r) \/ execute_task_commands(r)

Fairness == /\ WF_vars(WatcherStep)
            /\ \A r \in Runs : SF_vars(Resumes(r)) /\ SF_vars(Overdue(r))

FairSpec == Spec /\ Fairness

-----------------------------------------------------------------------------
(* Properties *)

RunRecord == [desc : Descs, step : Nat \ {0}, late : BOOLEAN, alive : BOOLEAN,
              update_task : {"none", "running", "done", "failed", "cancelled"}]

\* Every variable has the type its Python counterpart has.
TypeOK == /\ known \subseteq Descs
          /\ DOMAIN run \subseteq Runs
          /\ run \in [DOMAIN run -> RunRecord]
          /\ tasks \subseteq DOMAIN run
          /\ starting \subseteq DOMAIN run
          /\ replacing \subseteq DOMAIN run
          /\ DOMAIN db \subseteq DOMAIN run
          /\ db \in [DOMAIN db -> Nat \ {0}]
          /\ start_when_done \subseteq Descs
          /\ DOMAIN removing \subseteq Descs
          /\ removing \in [DOMAIN removing -> SUBSET DOMAIN run]
          /\ deleting \subseteq DOMAIN run
          /\ refused \subseteq DOMAIN run
          /\ watcher \in [at : {"idle", "loop", "store", "update_task", "delete", "insert", "event", "dead"},
                          todo : SUBSET DOMAIN run, cur : DOMAIN run \cup {NoRun}]
          /\ triggered \in [Descs -> Nat]

\* A run that is registered and active has a row in the database, so that
\* update_state finds it and a restart restores it; the row never claims a
\* step the run has not reached.  This survives Replace, timeouts, deletion
\* of the job, crashes and restarts in any order.
ActiveRunsPersisted ==
    \A r \in tasks : is_active(r) => r \in DOMAIN db /\ db[r] <= run[r].step

\* One trigger causes at most one run: runs started directly, after a wait and
\* as replacements together with the queued invocation never exceed the
\* number of triggers.
RunsHaveTriggers ==
    \A d \in Descs :
        Cardinality(RunsOf(d)) + Cardinality(start_when_done \cap {d})
          + Cardinality(replacing \cap RunsOf(d)) <= triggered[d]

\* An invocation that waits has a registered run, or one that the watcher is
\* removing right now, whose end will start it.
QueuedBehindRun ==
    \A d \in start_when_done :
        \/ RunsOf(d) \cap tasks # {}
        \/ watcher.at = "delete" /\ run[watcher.cur].desc = d

\* A run that the watcher or delete_job has unregistered stays away: it is
\* not active, and it has a row that a restart would bring back only as long
\* as the delete of that row is awaited, or when that delete was refused, which
\* delete_running_task suppresses.  No state stored late, by a chain of
\* commands, by a Replace or by the other remover, makes such a row.
UnregisteredStaysAway ==
    \A r \in DOMAIN run \ (tasks \cup starting) :
        ~(watcher.at = "insert" /\ r = watcher.cur) =>
            /\ ~is_active(r)
            /\ r \in DOMAIN db => \/ r \in deleting \cup refused
                                  \/ watcher.at = "delete" /\ r = watcher.cur

\* A queued invocation is started some day: the run it waits for ends, is
\* removed by the watcher and makes room ("the invocation will wait for the
\* current run to finish").
QueuedInvocationServed ==
    \A d \in Descs : d \in start_when_done ~> d \notin start_when_done

\* Every registered run comes to an end and is unregistered by the watcher,
\* even if no subscriber ever answers.
EveryRunRemoved == \A r \in Runs : r \in tasks ~> r \notin tasks

\* The help of the jobs command: "there will be no parallel execution of jobs
\* with the same identifier at any moment in time".
NoParallelRuns ==
    \A d \in Descs : OnSurpass[d] = "Wait" => Cardinality(existing(d)) <= 1
=============================================================================
