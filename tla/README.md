# TLA+ models of the resoto core

The repository is a cloud inventory: workers collect resources from cloud
providers and send them to the core (`resotocore`), which keeps them in a graph
database, answers queries, runs workflows and jobs over them, and hands out work;
workers also tag and clean up resources. This directory models the core, the
collect and cleanup runs of the workers with the plugins they are made of, and
the event dispatch of the shared library. TLC checks the models on small
instances; TLAPS proves the safety properties of eight of the nine specifications, and
what two of them implement, for all instances.

## 1. Inventory

The core is one Python process with one asyncio event loop. What is atomic is
the code between two awaits that really suspend. Everything else interleaves:
REST requests, websocket handlers, periodic tasks (`Periodic` in `util.py`), CLI
commands, the child processes that merge graphs, and the database.

| Component | State | Operations | Talks to |
|---|---|---|---|
| Worker task queue (`core/worker_task_queue.py`) | attached workers with names and filters, `work_count`, tasks outstanding and unassigned, one queue per worker, the future of each task | `attach`/detach, `add_task`, `acknowledge_task`, `error_task`, periodic check | websocket handler `handle_work_tasks`, CLI commands that await the future |
| Task handler (`core/task/task_handler.py`) | descriptions, running tasks, rows of running tasks, waiting invocations | `start_task` (Skip, Parallel, Replace, Wait), `execute_task_commands`, answers, `check_overdue_tasks`, `add_job`, `delete_job`, `start_interrupted_tasks` | message bus, CLI, `runningtaskdb`, subscription handler, scheduler |
| Running task (`core/task/task_description.py`) | state machine of one run, messages received, subscribers waited for, chain of commands | entering and leaving steps, `handle_done`, `handle_error`, `handle_event`, timeouts, `pending_action_for` | task handler, `runningtaskdb` |
| Subscription handler (`core/task/subscribers.py`) | subscribers in memory and in the database, `not_connected_since` | add, update and remove subscriptions, cleaner, `start` | message bus, `Api.handle_subscribed`, task handler |
| Message bus (`core/message_bus.py`) | listeners, `active_listener` | `subscribe`, `emit` | all of the above |
| Graph merge (`core/db/graphdb.py`, `core/model/db_updater.py`, `core/db/db_access.py`) | node and edge collections, marks of updates in progress, temporary collections, child processes | `merge_graph`, `commit_batch_update`, `abort_update`, `check_outdated_updates`, the supervising request | REST API, database, child process |
| CLI (`core/cli/`) | sessions, forked tasks, jobs, templates, backup | evaluate an input, execute its lines, update nodes, tag, http, reap | graph, worker task queue, task handler, template expander |
| Queries (`core/query/model.py`, `core/db/arango_query.py`) | none | combine, rewrite and execute a query | CLI, REST API, database |
| Tags (`resotoworker/tag.py`, tag methods of all resource classes) | tags in the core and in the cloud | change a tag, write the answer of the worker to the node | CLI, worker task queue, cloud |
| Collector plugins (`plugins/*`) | the graph of an account, region or project | one function per kind of resource | cloud, graph of the worker |
| Collect run (`resotoworker/collect.py`, `resotolib/baseplugin.py`) | threads of plugins, accounts and regions, the graph | collect, merge, resolve deferred connections, send | plugins, core |
| Merge graphs (`core/model/graph_access.py`) | none | `check_complete`, `merge_graphs`: split an incoming graph at its replace nodes | graph merge |
| Cleanup (`resotolib/cleaner.py`, `baseresources.py`, resource classes, cleanup plugins) | marks in the core, resources and attachments in the cloud | mark, protect, pre_clean, clean by level, patch | core, cloud, workflows |
| resotolib events (`event.py`, `utils.py`) | listeners, reader-writer lock | `dispatch_event`, add, remove and list listeners | every Python client |
| Model handler (`core/model/model_handler.py`) | cached model | `load_model`, `update_model` | database |
| resotolib clients (`core/actions.py`, `core/tasks.py`) | websocket, queue, worker threads | connect, receive, process, reply | core |
| REST rendering, kinds, certificates, analytics, shell, metrics, deployment | see section 7 | | |

Where it is hard:

- *Await in the middle.* A handler checks something, awaits the database, and
  acts on what it checked: `start_task`, `update_subscriptions`, `update_model`,
  the cleaner of subscribers.
- *Loss and repetition.* Workers disappear with open tasks, subscribers answer
  late or twice, requests are cut off while their child process goes on.
- *Restart.* Running tasks and subscribers are restored from rows that may be
  older than the memory that was lost.
- *Answers that carry old state.* A tag task sends a node to a worker and writes
  back what comes in; a cleanup run works on the marks it read at its start.
- *Order.* Collectors find each other's resources only if they run in the order of
  a table; resources are deleted only if what is in their way is deleted first.
- *Functions with many cases.* Commands of a line are folded into one query, and a
  received graph is split into parts: small inputs have unobvious combinations.
- *Timeouts that are the only way on.* Futures, steps, runs, marks and dead
  subscribers all depend on one periodic check each.

What makes each component correct: no task is lost, doubled or tried for ever
(queue); a trigger causes one run, runs end, are persisted as long as they are
active and never come back afterwards (task handler); commands are issued in the
order of the steps, a step is passed only with its answers or its timeout (running
task); memory follows the database and dead subscribers disappear
(subscriptions); a subgraph is replaced as a whole or not at all and nothing stays
locked (graph merge); a line returns what its commands return one after the other,
core and cloud agree on tags, every input ends (CLI); relations are found, nothing
loses its way to the root, only complete clouds are replaced (collect); protected
resources stay and marked ones go (cleanup); writers are alone and operations end
(events).

## 2. Modules

| Module | Models |
|---|---|
| `TaskPromise` | abstract specification: what a caller of the worker queue is promised |
| `WorkerTaskQueue` | the queue; implements `TaskPromise` |
| `TaskHandler` | which runs of which descriptions exist, from trigger to removal |
| `WorkflowRun` | abstract specification: what a run of a workflow promises over errors and restarts |
| `RunningTask` | one run in detail: steps, commands, answers, row, restart, connections; implements `WorkflowRun` |
| `Subscriptions` | subscribers in memory and database, connections, cleaner |
| `GraphUpdate` | merging graphs: child process, request, batches, check |
| `RWLock` | the reader-writer lock of resotolib, one step per lock operation |
| `EventDispatch` | listeners, dispatch and the lock that guards them; extends `RWLock` |
| `Collectors` | the graph of a worker and the steps collectors take on it |
| `AwsCollectors`, `GcpCollectors`, `OtherCollectors` | the collectors of the plugins as sequences of such steps |
| `GraphAccess` | how the core splits a received graph; extends `Collectors` |
| `Collect` | a collect run from the collectors to the core; composes the five above |
| `AwsResources` | what the resource classes do in pre_delete, delete and tag methods |
| `Cleanup` | marks, plugins, workers and cloud; composes `AwsResources` with the collectors |
| `GraphQuery` | queries: how they are put together and what they return |
| `Tagging` | the change of a tag by a worker and the update of the node |
| `CliCommands` | the commands of the CLI as functions on streams; extends `GraphQuery`, `Tagging` |
| `Cli` | sessions that evaluate and execute inputs at the same time |
| `WorkerTaskQueueProofs`, `EventDispatchProofs`, `SubscriptionsProofs`, `TaskHandlerProofs`, `RunningTaskProofs`, `CleanupProofs`, `GraphUpdateProofs`, `CliProofs` | the TLAPS proofs about the module of that name |
| `MC...` | instances for TLC; each has one or more `.cfg` files |

`PROJECT.json` maps every definition to the lines it stands for. Operators whose
comment begins with "Mutation" are deliberately wrong variants of the definition
that follows; no specification uses them. They document which change of the code
each property would notice.

### How state and actions correspond to the code

**WorkerTaskQueue.** One variable per field of the class; dicts are functions
over their current keys. Every method holds one asyncio lock and, as the only
caller of `attach` passes an unbounded queue, never suspends inside, so a call is
atomic. The loops of the finally block of `attach` and of the check are one
iteration per step under the variable `phase`, during which nothing else runs.
A deadline is a flag `late` that `Expire` raises at any time. The order of equal
candidates is left open. `send` is the websocket handler that takes a task from
the queue of its worker.

**TaskHandler.** A run is a counter over its steps. `starting`, `replacing`, `removing`,
`deleting` and `watcher.at` are the awaits in which a coroutine can be suspended.
`delete_running_task` unregisters, cancels and ends a run in one step, then the delete of its row
is awaited (`deleting`, or `watcher.at = "delete"`). The delete may raise (fault `"refuse"`),
which the code suppresses: the row stays, and `refused` records it. Other errors of the database
are not modelled. The loop of the watcher takes one run per step and lets others run only where it
awaits (`Free`). `start_interrupted_tasks` is a crash followed by the restart; it may restore a
workflow at a later step than its row because `restored` steps that wait for nobody are left at
once. Left out: answers to runs that have ended (no effect), the optional wait step of jobs, and
the TaskEnded event whose await lies between steps that are merged into one.

**RunningTask.** `wi` is the machine, `chain` the batches of commands in the order `update_task`
chains them, `row` the stored state. Each step has a message type of its own, so that steps and
message types need not be told apart. The events task_start and task_end, which nobody in the
model listens to, are left out. Subscribers connect in two steps (`handle_subscribed` looks up
pending actions, `subscribe` puts the connection on the bus); anything they do or fail to do is
allowed. An answer is taken for any step at any time, as `listen_to_events` does: `Unasked` says
which steps a subscriber may answer without having the action, such as those of an earlier
connection. `command_fails` is a command of the CLI that raises: its batch is neither stored nor
passed, whatever is chained behind it waits, and the watcher does not get past it; only a restart
does. The row of a removed run is deleted in the same step here; `TaskHandler` has the await in
between. `missed` records the actions issued between the two steps of a connection. `RunKept` maps
the machine, its row and the executed commands to the variables of `WorkflowRun`; messages,
subscribers and the chain of batches have no counterpart there.

**Subscriptions.** A change is `Change` (computed from memory), `write`, `load`,
`assign`, each after an await. The cleaner takes one missing subscriber per step
and suspends only in a removal. Ages are "none", "young" and "old".

**GraphUpdate.** `child` is the merge process with the place it has reached, `proc` the coroutines
of the requests, of the REST call that commits or aborts a batch, and of the periodic check. A
node is an id with the hash of its content and an edge is known by the node it leads to, as the
graph is a tree of which the roots of updates are nodes. The comparison reads the graph part by
part (`prepare_nodes`, `prepare_edges`), the result is written directly, through a temporary
collection, or staged for a commit. `move_temp_to_proper` is one transaction of the database. Each
update has a change id of its own; clients commit only batches that were accepted. A mark becomes
outdated only after its request and child are gone, because it takes 4 hours while a request lasts
one hour at most. The roots of one update are not nested: a root below another one is part of the
graph of that one (`graph_access.py`, lines 446-452). `called` is a history variable, the batches
for which commit or abort was called. A direct update writes one kind of document after the other
outside of a transaction; errors, the death of the process and an interrupted request may break it
off anywhere, which `torn`, another history variable, records (`BreakOff`). It also records an
update that goes on writing after an abort took its mark, since another update may then work on
the same root. The transaction in which an update looks for conflicts and writes its mark is taken
as serializable.

**EventDispatch.** Python threads interleave anywhere, so every acquire and release
of the five locks inside of `RWLock` is a step (`at[t]` is the line a thread has
reached); the switches count readers and writers. A dispatcher copies the table under
the read lock and goes through the copy without it. Every registration has a number and a lock
of its own, as each entry of the table has. `hangs` holds the threads of blocking
listeners that have not returned; `join` may time out.

**Collectors.** A collector function is the sequence of its graph steps in program
order: add a node, add an edge, search and connect if found, defer a connection. One
node stands for all resources of a kind. `Collected` applies the steps to a graph;
a configuration says which kinds are absent and which collectors are switched off. The order
of the collectors is that of the tables in `AWSAccountCollector.__init__` and
`GCPProjectCollector.__init__`.

**Collect.** Each region, account and plugin is a thread with a graph of its own; a
failure cuts a collector after any of its steps (`FailuresOf`) and costs what the code lets it
cost. `merge_graph` removes what `sanitize` removes, sends the graph, and the core
accepts or rejects it by `GraphAccess`.

**Cleanup.** A landscape is the graph the collectors make of the kinds present in it. `core` holds
the three flags, `stored` the resources in the graph of the core, `status` and `attached` are the
cloud. A workflow goes from `collect` over the plugins to `cleanup`; `due` holds for every plugin
and worker the messages it has not yet read, in their order, so that one that is late takes its
step in the next run. `collect` replaces the graph: what is gone from the cloud disappears, with
its mark, though it may be found a last time; of any resource that has changed the metadata, hence
`protected` and `cleaned`, is replaced by that of the collector, which knows of neither
(`export.py:226-235`, `graphdb.py:571-579`), while the desired section with `clean` stays. Which
resources have changed is left open. A collect finds everything that is there, or fails and
changes nothing: partial graphs are the subject of `Collect`. Depths, edges and what is found in
the cloud are those of the landscape, of the moment the graph is stored. A worker's run is a
snapshot (`plan`, `kept`), one step per `pre_clean` and per `clean`, and a patch. `InLevel` is the
loop over depths; within a level the order is open, as a pool of threads works on it. Which
deletions the cloud accepts is external (`Accepts`, `Blockers`).

**Cli.** `load` is the workload: the graph and the inputs of the sessions. A session evaluates its
input (`evaluate_cli_command`: names, aliases, positions, query parts combined by `create_query`),
then executes its lines. Commands without effects are functions (`CliCommands`); those that change
nodes or call someone take one step per chunk, request or task. `tasks` are tag tasks from the
queue to the written node (`worker_tags`, `read_node`, `write_node`), `forked` and `reaping` those
of `tag --nowait`. `torn` is a history variable: nodes whose tag tasks overlapped, that were sent
to a worker in a document the core had changed since, or whose task was answered by an error, or
not at all, after the cloud had changed. A request of a tag is done, refused, or raises before or
behind the change of the cloud (`Failures` in `Tagging`: the labels of GCP are set by one request
and read again by a second one, and the answer of any request may be lost). Abstractions: a stream
is computed command by command, so nothing cuts the stream behind a command that changes nodes;
what a worker does after the timeout of its task is part of the timeout step.

**GraphQuery.** A graph gives each node a kind and one value. Terms, navigation, with
clause, sort, limit and aggregation keep the order in which the generated AQL applies
them; a traversal is that of ArangoDB (breadth first, every vertex once). The two traversals of
`inout` are joined by a UNION, which keeps what both of them find twice.

## 3. Runs

| Run | Expect | Instance | What it shows |
|---|---|---|---|
| `worker_queue` | pass | 2 workers, one with a filter, 2 tasks, 3 retries | `NoLostTask`, `AtMatchingWorker`, `HandedOver`, `AttemptsBounded`, `WorkCountCovers`; the queue implements `TaskPromise`; every future is resolved (`EveryTaskResolved`) |
| `task_handler` | pass | a job that waits and a two step workflow that is replaced, 3 runs, 3 triggers, failing commands, crashes, the job deleted and added again, deletes of rows that are refused | `ActiveRunsPersisted`, `RunsHaveTriggers`, `UnregisteredStaysAway` |
| `task_live` | pass | a job and a workflow that skips, 3 runs, no faults | `QueuedInvocationServed`, `EveryRunRemoved` |
| `running_task` | pass | action, command, event, action; 2 subscribers that disconnect, one of which answers unasked, a command that fails, 1 restart; 4 million states | `CommandsInOrder`, `ExecutedBeforePassed`, `RowIsCurrent`, `ActionsReachSubscribers`, `PassedWithAnswers`; the run implements `WorkflowRun` (`RunKept`) |
| `running_task_live` | pass | action, wait for an event, action that stops on error; subscriptions that change, 1 restart | `RunEnds` |
| `subscriptions` | pass | 2 subscribers, a request beside the cleaner, 2 connections, 1 restart | `SyncedWithoutOverlap`, `AloneTakesEffect`, `ListenersAreOpen`, `DeadSubscriberRemoved` |
| `graph_update` | pass | a batch of two accounts and an update of one of them, direct or not, one error or dead process, requests interrupted anywhere, one commit or abort; 824 000 states | `ReplacedAsWhole`, `StagedIsKept`, `EveryMarkRemoved` |
| `collect` | pass | AWS with two regions, GCP, Kubernetes, six small clouds, with kinds absent and collectors off; one failure anywhere | `RelationsFound`, `Rooted`, `FinishedAreReplaced`, `CollectEnds` |
| `cleanup` | pass | thirteen landscapes, one or two workers, one fault anywhere, collect and cleanup without end; 189 000 states | `CleanedIsGone`, `OneRunSuffices`, `ProtectedStays`, `MarkedIsRemoved` |
| `events` | pass | 3 threads, a blocking and a one-shot listener, 3 operations | `Exclusive`, `NewReadersWait`, `OperationsEnd` |
| `cli` | pass | all lines of up to three query parts (from 19, resp. 12) on two graphs; 24 inputs with every command at right and wrong places; 7 pairs of sessions at the same nodes, with tags of two keys and requests that fail before or behind the change; 73 000 states | `CombinedIsPiped`, `TagsInSync`, `LinesEnd` |
| `cli_protect` | violation | one session tags a resource, one protects it | finding 1 |

Further configurations are kept beside the runs and show what does not hold (section 5):
`MCTaskHandlerParallel.cfg`, `MCTaskHandlerFail.cfg`, `MCRunningTaskClock.cfg`,
`MCSubscriptionsSync.cfg`, `MCGraphUpdateDirect.cfg`, `MCCleanupProtect.cfg`, `MCCliCount.cfg` and
`MCEventDispatchOnce.cfg`. `TypeOK`, where a module has one, can be added to any of its
configurations.

### Bounds

- *Queue*: two workers are enough for a task to move, for a choice by filter and
  by load, and for a time with no matching worker; two tasks for one to be in the
  way of the other in every loop. `MaxRetries` is the code's own 3. There is no
  other bound: the state space is finite.
- *Task handler*: three triggers are what a surpassing behaviour needs to surpass
  itself (one runs, one waits or replaces, one comes in between); `Runs` has as many
  ids as there are triggers, so that a start is never blocked.
- *Running task*: `MaxChain` bounds the batches that timeouts may pile up behind a command that is
  still running, and unasked answers; other answers and results are not bounded by it. One
  restart, after which everything else may happen again. In `running_task_live` no command fails
  and nobody answers unasked: a run whose command fails stays until a restart, as
  `MCTaskHandlerFail.cfg` shows.
- *Subscriptions*: `MaxRequests` is 2 (3 for the violation); the cleaner is not
  bounded and overlaps with the requests.
- *Graph update*: one fault and one call of commit or abort, anywhere. The
  two updates are chosen such that each changes, inserts and deletes relative to
  what the other one leaves. The second account is replaced by the batch only, so that a direct
  update of the first one can be seen to leave it alone wherever it is broken off.
- *Collect*: one failure (`MaxFailures`) at any step of any collector; two regions, so
  that one is merged after the other failed; two attempts of a GCP project.
- *Cleanup*: one fault (`MaxFaults`); two workers compete in two landscapes, in one of them at
  resources that block each other. The workflow runs again and again without a bound.
- *Events*: three operations (`MaxOps`) let two dispatchers meet a third thread that changes the table.
- *CLI*: `ChunkSize` is 2 (1000 in the code) and `TaskLimit` 2 (100), so that both limits are
  reached by the three elements a line has. `TermDepth`, the nesting of terms up to which they are
  rewritten, is more than three parts can build. Three parts are enough for a part to change what
  the two before it mean together; two graphs for paths with and without shortcuts.

Run ids are symmetric in `task_handler`; no run with a temporal property uses
symmetry. Deadlock is switched off in `running_task_live`, `graph_update` and the
runs of the CLI only: there the run, all updates or all inputs are over at the end
and nothing is left to do.

### Fairness

- The event loop resumes every coroutine whose await is over. This is weak
  fairness where nothing else can disable the step, and strong fairness where a loop
  that does not suspend (the watcher, the cleaner, the locked loops of the queue)
  holds up the others for a moment in every pass.
- Periodic tasks run again and again, and time passes: deadlines, ages and grace
  periods end.
- CLI commands end. The core has no timeout for them; see the observations.
- Threads of the library go on if they can; listeners need not return. The threads of a
  collector plugin may hang: only the join of the worker is bounded.
- The cleanup workflow comes again and its steps end at their timeout; workers, plugins and
  the cloud go on unless they fail, and a deletion the cloud accepted completes.
- A tag task is answered or times out: that is what `PromiseKept` and `EveryTaskResolved`
  say of the worker task queue.
- Each request of a merge, the REST call and the check for outdated updates is one coroutine and goes on
  step by step; so does each merge process that has not died.
- Otherwise nothing is assumed of workers, subscribers, events, clients and requests: they
  need not answer, connect, commit or abort.

## 4. Proofs

Eight modules hold theorems, one for each specification but `Collect`. Each extends
the specification it is about, so a theorem and a run speak of the same definitions; every
theorem holds for all values of the constants that satisfy the named assumptions, and TLC
evaluates those assumptions in the runs. Where a theorem needs more than that, the hypothesis
is written in its `ASSUME` and explained below.

| Module | Theorem | States |
|---|---|---|
| `WorkerTaskQueueProofs` | `TypeCorrect` | `[]TypeOK`, which no run needs to check any more |
| | `TasksNeverLost` | `[]NoLostTask` |
| | `TasksAtMatchingWorkers` | `[]AtMatchingWorker` |
| | `AttemptsAreBounded` | `[]AttemptsBounded` |
| | `TasksAreHandedOver` | `[]HandedOver` |
| | `CountersCoverTasks` | `[]WorkCountCovers` |
| | `QueueImplementsPromise` | `PromiseKept`, the refinement of `TaskPromise` |
| `EventDispatchProofs` | `LockInvariant`, `WritersAreAlone` | `[]Exclusive` |
| | `WaitingWritersComeFirst` | `NewReadersWait`, an action property |
| `SubscriptionsProofs` | `SyncInvariant`, `MemoryFollowsDatabase` | `[]SyncedWithoutOverlap` |
| | `ChangesAloneTakeEffect` | `AloneTakesEffect`, an action property |
| | `ListenersHaveConnections` | `[]ListenersAreOpen` |
| `TaskHandlerProofs` | `HandlerInvariant`, `ActiveRunsAreRestorable` | `[]ActiveRunsPersisted` |
| | `UnregisteredRunsStayAway` | `[]UnregisteredStaysAway` |
| | `RunsAreTriggered` | `[]RunsHaveTriggers` |
| `RunningTaskProofs` | `RunInvariant`, `TypesAreKept` | `[]TypeOK` |
| | `CommandsAreIssuedInOrder` | `[]CommandsInOrder` |
| | `CommandsAreExecuted` | `[]ExecutedBeforePassed` |
| | `RowsFollowRuns` | `[]RowIsCurrent` |
| | `StepsHaveTheirAnswers` | `PassedWithAnswers`, an action property |
| | `ActionsAreDelivered` | `[]ActionsReachSubscribers`, when no subscriber resubscribes |
| | `RunImplementsWorkflow` | `RunKept`, the refinement of `WorkflowRun` |
| `CleanupProofs` | `CleanInvariant`, `CleanedResourcesAreGone` | `[]CleanedIsGone` |
| | `ProtectedResourcesStay` | `ProtectedStays`, an action property |
| | `OrderInvariant`, `OneRunIsEnough` | `[]OneRunSuffices` |
| `GraphUpdateProofs` | `StageInvariant`, `StagedBatchesAreKept` | `[]StagedIsKept` |
| | `ReplaceInvariant`, `RootsAreReplacedAsWhole` | `[]ReplacedAsWhole` |
| `CliProofs` | `TagInvariant`, `TagsOfCoreAndCloudAgree` | `[]TagsInSync` |

Every proof has the same plan: lemmas about the building blocks, one lemma per action (or per
group of actions that touch the same state), one that joins them over `Next`, and the temporal
theorem. What follows is the inductive invariant of each module, and why it is needed.

**WorkerTaskQueue.** `IInv` joins the properties with two facts they need. `TodoInv`: a locked
loop only visits tasks that are still in the book it works on; without it a retry could be made
for a task that is not in progress. `FreshInv`: a task that was never added was never
dispatched, and one in progress was; the first is needed for the bound on attempts, the second
for the refinement, where only a task that was tried may have a result. `HandedOver` and
`WorkCountCovers` are inductive together with `IInv`: the counter of a worker is compared with
the number of its tasks, so the tasks must be finitely many (`FiniteTasksAssumption`). The
refinement is proved per step: every step of the queue is a submit, an attempt, an answer, a
failure of some tasks, or a stutter of the promise.

**EventDispatch.** `LockInv` says for each of the five locks of `RWLock` at which lines a
thread holds it (`Owned`) and that each switch counts the threads between its acquire and its
release (`Counted`). Mutual exclusion alone is not inductive: the first reader takes the lock
of the table for all the others, and only the count says that the last one gives it back.
`IdleInv` (a thread without an operation is outside of the lock) is needed because
`EventDispatch` starts the calls.

**Subscriptions.** `SyncInv` says what a change that runs alone can rely on after each of its
awaits: memory and database are equal until it writes (`BeforeWrite`), then the database holds
its document (`AfterWrite`), and the snapshot it assigns is what the database holds
(`SnapshotIsFresh`). `AloneInv` ties the history variables `alone` and `overlap` to the
coroutines in flight.

**TaskHandler.** `HandlerInv` says that the books agree: which runs the coroutines hold
(`WatcherInv`), that a run whose start is suspended in an await is in no other book yet
(`UnbornInv`), that a row outlives its run only while its delete is awaited or when it was
refused, and that runs, the queued invocation and replacements of a description were each paid for
by a trigger (`TriggerInv`, with the cardinality theorems).

**RunningTask.** `RunInv` relates machine, chain and row. `ChainInv`: a batch knows only steps
that were executed, and only the first can be stored already. `RowInv`: the row is never ahead of
the machine, knows of it only executed steps, and what the row lacks is in a batch that will be
stored; this is what a restart relies on. `OrderInv` is the order of commands together with the
fact that nothing was sent for a step the run has not reached. A run leaves several steps at once,
to the first that waits for somebody; that this least step exists is a least-element argument
(`WFMin`, `NatLessThanWellFounded`). `ActionsAreDelivered` uses `LinkInv` on top: a connection
carries all message types its subscriber offers or none, and who is waited for was sent the action
or will find it when it subscribes. Its hypothesis is that `"resubscribe"` is not among `Faults`:
a subscriber that changes its message types while an action is pending may listen to something
else. The run `running_task` has the same restriction. Unasked answers cost the proofs nothing, as
an answer is only counted for the step it names; a command that fails (`FailStep`) changes the
head of the chain in a field no other part of the invariant depends on.

The refinement of `WorkflowRun` needs `GoneInv` besides: a run that was removed from memory is
over, and neither a batch nor its row is left, so no restart brings it back. Each step of the
run is then one of the abstract run or a stutter: moving to the next state is `Advance`, as
`MachineInv` has the commands of the states that are left; a batch that is stored is `Save`;
an error or an overdue step is `Fail`; and `RowInv` makes a restart a `Restart` at the saved step.

**Cleanup.** `CleanInv` says that a resource the core or a worker has down as cleaned is not in
the cloud any more. `ProtectedResourcesStay` follows from `SafeStep`: a resource is `Safe` if it
is protected and no run has still to come to it that read it without protection. A run that starts
later reads the protection, one that is under way either has it in its snapshot or is past it, and
the marks and patches of plugins do not touch the flag; only a collect can take it back, and that
step is what the property excepts.

`OneRunIsEnough` rests on `RunsInv`. `Prepared`: whatever the run has prepared holds no attachment
that its `pre_delete` could undo. `Tried`: whatever the only worker has tried and not deleted has
a `Reason` that lasts: it cannot be deleted at all, it is attached, or something blocks it that is
not below it, is not gone at once, or was tried before and is there. `clean` establishes the last
part because a level is begun when all deeper ones are done, and because what is below a resource
is deeper (`DeeperBelow`). For the conclusion take the deepest resource that could have been deleted
and is there: what blocks it is deeper, was tried and is there, a contradiction. The facts about
depth come from `LandscapeAssumption` (the graph is finite, every node is on a walk from the root, and
no walk has as many steps as there are nodes, which is to say there is no cycle; with one
`set_max_depth` would not end): `LevelFact` solves the equation of the levels by walks, `ReachedFact`
shows that the recursion of `ReachedFrom` gives the least set that no step leaves, and maxima and
inductions are least-element arguments (`LeastNumber`).

**Cli.** `TagInv` says for every node whose class keeps its word (`Honest`) and that is not in
`torn`: at most one tag task of it is under way; until the worker takes it, core, cloud and the
document the worker is sent agree; from then on the answer has the tags of the cloud; and without
a task core and cloud agree. `WorkerFact` is the building block: for every request the resource
classes make for their tags and every way it may fail, a worker that was sent the tags of the
cloud answers the tags the cloud has afterwards, and an error means an unchanged cloud unless it
is late (`Sound`); a late one puts the node into `torn`. `GraphAssumption` says that the graph of
a workload has nodes with kinds. The queries of a line only matter in that they name nodes of the
core.

**GraphUpdate.** `StageInv` (`Good`, `Intact`): as long as neither commit nor abort was called,
the staged batch of an accepted update is all that its child wrote, and whoever handles another
update has a different change id in hand. `called` is a history variable that says for which
batches one was called.

`ReplaceInv` is the largest invariant of the project. An update reads the graph part by part
while others write, so each update carries what its plan is worth (`Merging`): every planned
operation is right for the part it compared (`Sound`), the parts of a marked update are all
covered (`Compared`), documents to update or delete exist (`Present`), the kinds of operation
already written are executed (`Writing`), and other marked updates do not see these writes
(`Toward`, `Sees`). Marks exclude each other per root (`MarksInv`). The theorem has no hypothesis on
the instance; what does not hold of the code is excepted by the property itself, root by root (`Clean`):

- A root one of whose direct updates was broken off (`torn`). It may be half written, which
  `MCGraphUpdateDirect.cfg` shows (section 5). Nothing is excepted for roots it does not replace
  itself, and no batch or update through a temporary collection is ever the reason of an exception.
- A root with another one above or below it (`Separate`). The check for
  conflicts looks for the new roots among the roots and parents of changes in progress
  (`graphdb.py`, line 1021) and not the other way round, so an update above a root in progress
  is let through.

### Only model-checked

- All liveness properties: fairness and ENABLED are outside of what the provers do.
- `RelationsFound`, `Rooted` and `FinishedAreReplaced` of `Collect`: they evaluate the graphs
  that the concrete sequences of collector steps compute, by recursion over these sequences.
- `CombinedIsPiped` of `Cli`: it compares what the evaluation of a combined query returns with
  the results of its parts one after the other, for every graph and every query: an induction
  over queries, which the provers cannot be given.

## 5. Findings

1. `cli_protect`: the answer of a tag task replaces the whole metadata section of the node by the
   one the worker was sent (`command.py:2374`), without a check of the revision. A resource that is
   protected meanwhile is unprotected again, against the help of `protect` (`command.py:1621`).

TLC also refutes these, each with the configuration named:

- `MCTaskHandlerParallel.cfg`, `NoParallelRuns`: `start_task` looks for an existing run in
  `self.tasks`, but a starting run is entered there only after its insert was awaited. Two
  triggers in that window start two runs of a job, against the help of the jobs command
  (`core/cli/command.py:2027`).
- `MCTaskHandlerFail.cfg`, `QueuedInvocationServed`: when the command of a job raises, the
  exception stays in `update_task`. The watcher awaits it in every pass before it would remove
  the run, so the run stays and the invocation that waits for it is never started
  (`core/cli/command.py:2026`).
- `MCRunningTaskClock.cfg`, `RestartKeepsClock`: `update_state` does not store
  `step_started_at`; a restored run measures the current step from the time it was inserted
  (`task_description.py:719`, `runningtaskdb.py:38`).
- `MCSubscriptionsSync.cfg`, `MemoryInSync`: of two overlapping changes the older snapshot may
  replace the memory last (`subscribers.py:19`).
- `MCGraphUpdateDirect.cfg`, `ReplacedAlways`: `update_directly` opens a transaction but writes
  outside of it; a direct update that is broken off leaves its root half written
  (`graphdb.py:741-758`, 793).
- `MCCleanupProtect.cfg`, `ProtectedForEver`: a collect sends `protected` as false
  (`export.py:226-235`), and the core replaces the metadata of a node that has changed, while the
  mark for cleanup stays (`graphdb.py:571-579`, 744-750). A protected resource is then deleted by
  the next cleanup. `plugins/protect_snowflakes/README.md:38` says: "Once set to `True` it can not
  be changed back to `False`".
- `MCCliCount.cfg`, `CountIsPiped`: `query ... | count prop` is folded into an aggregation, whose
  result is counted by `aggregate_to_count` without the property (`cli.py:286`, `command.py:948`):
  it always reports 0 unmatched. The count command reports elements without the property as
  unmatched (`command.py:749-750`, 766-767), as its help (`command.py:707-719`) and
  `command_test.py:237-240` say.
- `MCEventDispatchOnce.cfg`, `OneShotOnce`: the lock of a one-shot listener is free again once
  the first dispatcher has removed the listener; a second one that copied the table before
  calls it again (`event.py:83`).

Further observations, visible in the models and without a run of their own:

- The watcher starts a waiting invocation whenever a run of the description is
  removed, even beside a newer run that is active (`task_handler.py:493`).
- The watcher awaits the command of an overdue job before it is cancelled, so a
  command that never ends is never killed and holds up the watcher
  (`task_handler.py:489`, `command.py:2028`).
- `delete_running_task` suppresses the exceptions of the delete of the row: a crash during that
  delete, or a delete that fails, leaves a row from which a restart brings the removed run back
  (`task_handler.py:339-341`).
- `delete_job` cancels a command the watcher may be awaiting; CancelledError is not an
  Exception, so the watcher ends (`task_handler.py:335`, `util.py`).
- `pending_action_for` compares whole `Subscriber` objects: one that changed another
  subscription since is waited for but not given its action (`task_description.py:713`).
- A failed run whose row is not deleted yet is taken up again after a restart, without its
  failure: `failed` is no part of the row. `WorkflowRun` allows it (`Restart`).
- Two connections of one subscriber are both accepted if the second one comes
  during the handshake of the first (`api.py:359`).
- The cleaner decides on a list and on timestamps from the start of its pass and may
  remove a subscriber that has just connected (`subscribers.py:119`).
- `work_count` is not lowered when a task is retried elsewhere, so the worker with the
  least work is not always chosen (`worker_task_queue.py:176`).
- Conflicts between updates are detected in one direction only
  (`graphdb.py:1021`); a child that outlives the abort of its update leaves a temporary
  collection that nothing removes; a batch id used twice makes the second request
  delete what the first one has staged.

CLI and queries:

- `tail` on a query that is sorted already returns the first elements, and in
  general its result is reversed (`cli.py:294`); `head -0` is no limit in a query;
  `count | head` limits what is counted. `CombinedIsPiped` leaves these out by
  `Expressible`.
- `head 5 | head 10` gives 10; a search after `head` is and-ed before the limit. Such lines
  (`Loosened`) return more than their commands one after the other; `CombinedIsPiped` asks that
  they return no less. It compares the order of the elements too, except behind `tail`, `count`
  and a `with` clause, and of a count the totals only if every element has the property
  (`MCCliCount.cfg`).
- `successors | successors` becomes one traversal `[2:2]`, which misses nodes that
  can also be reached in one step. On graphs with shortcuts `CombinedIsPiped` only
  asks for a part of the result.
- With predicates on ancestors a limit is applied before and after the merge, with a
  `with` clause before it (`query/model.py`: "the logic of the query is not
  changed").
- `json ["id1"] | set_desired` raises because `"id" in "id1"` (`command.py:1428`).
- The retries of `http` are shared by all requests of a stream and never reset.
- The answer of a tag task has no revision; `update_node` reads and writes in two
  requests. What is written to a node between load and answer is lost (`clean`,
  `set_metadata`, `protect`), and overlapping tag tasks may leave core and cloud
  apart (`torn`).
- `update_label` of GCP sets the labels and then reads the resource again; if the read raises, the
  worker answers an error although the cloud has changed, and the core keeps the old tags (gcp
  `utils.py:261-263`). The answer of any request that is lost has the same effect (`torn`).
- `update_tag` of Kubernetes resources returns NotImplemented, which counts as
  success: the tag is shown and never set; vSphere deletes a tag by setting it to
  "". `TagsInSync` leaves both out.
- The tag command sends the worker the document its query has read; if the tags of the node were
  changed since, the answer takes them back in the core, not in the cloud (`command.py:2347-2363`).
- A template that is added in the first line of an input is unknown to its second
  line.
- A restore ends the service even if it failed.

Collect:

- A deferred connection is dropped whether its resource was found or not; with a
  list of links GCP and Kubernetes defer nothing once one is found.
- `collect_iam_groups` pages with `list_policies`; the retry of `collect_resources`
  never fires; two collectors of GCP (`global_network_endpoint_groups`,
  `global_forwarding_rules`) are never called.
- A partial graph of AWS replaces the whole cloud in the core; after its timeout the
  thread of a plugin goes on.
- An on-premises server in a known location lands in the default region, and a
  timeout there ends the plugin with a TypeError.

Cleanup:

- `AWSIAMUser` and `AWSIAMGroup.pre_delete` look for policies among their
  successors, but the collectors draw the edge from the policy: nothing is detached
  and the deletion fails for ever. `MarkedIsRemoved` asks only for resources whose
  attachments some class undoes (`Detachable`).
- With two workers one run need not be enough: a worker whose plan was read before a resource
  was marked is refused what the other worker makes deletable a moment later; the resource stays until
  the next run. `OneRunSuffices` is stated for a single worker, `MarkedIsRemoved` for any number.
- A backend service of GCP below a url map needs a second run; a failed cleanup of
  one worker patches `cleaned` to false after the success of another.
- The VPC plugin compares `instance_status` with "shutting-down", which collectors
  map to "busy"; `not in ("terminated")` is a test for a substring; the query of
  `protect_snowflakes` ignores the account.

Events:

- A dispatcher that does not get the lock of a one-shot listener releases it; the
  release of its owner then raises and its remaining listeners are skipped. Reading
  the table creates a key under the read lock, which may end `list_event_listeners`
  with "dictionary changed size".

## 6. Plan

Done: `WorkerTaskQueue` with `TaskPromise`, `TaskHandler`, `RunningTask` with `WorkflowRun`,
`Subscriptions`, `GraphUpdate`, `EventDispatch` on `RWLock`, `Collect` with the collectors and
`GraphAccess`, `Cleanup` with the resource classes and plugins, `Cli` with queries, commands and
tags; the proofs of section 4.

Possible extensions: `ModelHandler` (cached model and overlapping updates), `CoreClient` (the
reconnecting threads of resotolib composed with `WorkerTaskQueue`), and `GraphUpdate` with nested
roots taken from `GraphAccess` to study the direction of the conflict check.

Theorems left: `Rooted` of `Collect`, which needs that every step of a collector keeps new nodes
below the root, along the sequences of all plugins; `ReplacedAsWhole` for nested roots, excepting
only those below an update in progress; type correctness of `GraphUpdate` in full, of which the
proofs use a part (`Shape`).

## 7. Not modelled

- The grammar of the query language, array and function terms, kinds and their coercion,
  rendering: functions of data without state or interleavings, tested by the repository.
- Graph administration in `graphdb.py`; a restart of the core in the middle of a merge;
  updates that share a change id.
- Registering triggers with the scheduler, parsing of jobs, orderly `stop()`: a trigger may
  come at any time in `TaskHandler`.
- Attributes, prices and metrics of resources; export formats of graphs; the configuration of
  ages and accounts of the cleanup plugins other than as a choice of resources.
- The model handler and the client threads of resotolib: see section 6. Any behaviour of a
  client is allowed by `WorkerTaskQueue`, `RunningTask` and `Subscriptions`.
- Authentication, certificates, analytics, process setup: I/O and cryptography.
- The tag validator, resotoshell, resotometrics and deployment: thin clients or data.
