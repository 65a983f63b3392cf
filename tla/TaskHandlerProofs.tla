------------------------- MODULE TaskHandlerProofs -------------------------
(***************************************************************************)
(* The books of the task handler: active runs can be restored, runs that   *)
(* were unregistered stay away and every run has its trigger, for any      *)
(* descriptions, runs and kinds of surpassing, over crashes and deletions. *)
(***************************************************************************)
EXTENDS TaskHandler, FiniteSetTheorems, TLAPS

-----------------------------------------------------------------------------
(* The inductive invariant *)

\* The watcher holds a run only between its awaits, and the run it removes is
\* over, as are those delete_job removes.
WatcherInv ==
    /\ watcher.at \in {"idle", "loop", "event"} => watcher.cur = NoRun
    /\ watcher.at \in {"store", "update_task", "delete"} =>
         watcher.cur \in DOMAIN run \ starting /\ ~is_active(watcher.cur)
    /\ watcher.at = "insert" => watcher.cur \in DOMAIN run \ starting
    /\ \A r \in deleting : ~is_active(r)

\* The delete of the row of r is awaited, or was refused.
StillHasRow(r) == r \in deleting \cup refused \/ (watcher.at = "delete" /\ r = watcher.cur)

\* Runs whose insert is awaited: nobody else knows them yet.
Unborn == starting \cup {r \in {watcher.cur} : watcher.at = "insert"}

UnbornInv ==
    \A r \in Unborn :
        /\ r \notin tasks /\ r \notin DOMAIN db /\ r \notin watcher.todo
        /\ \A d \in DOMAIN removing : r \notin removing[d]
        /\ run[r].update_task = "none"

BooksInv == WatcherInv /\ UnbornInv /\ ActiveRunsPersisted /\ UnregisteredStaysAway

\* Only finitely many runs have been started, however many ids there are.
TriggerInv == IsFiniteSet(DOMAIN run) /\ RunsHaveTriggers

HandlerInv == TypeOK /\ BooksInv /\ TriggerInv

-----------------------------------------------------------------------------
(* What the building blocks of the actions do to the runs *)

\* One run goes on, or is ended: if it is active afterwards, it was and has not gone back.
Moved(r) ==
    /\ DOMAIN run' = DOMAIN run /\ run' \in [DOMAIN run -> RunRecord]
    /\ \A x \in DOMAIN run : x # r => run'[x] = run[x]
    /\ run'[r].desc = run[r].desc
    /\ run'[r].step <= Steps[run[r].desc] => run[r].step <= run'[r].step

\* A new run.
Started(n, d) ==
    /\ n \in Runs \ DOMAIN run
    /\ DOMAIN run' = DOMAIN run \cup {n} /\ run' \in [DOMAIN run \cup {n} -> RunRecord]
    /\ \A x \in DOMAIN run : run'[x] = run[x]
    /\ run'[n].desc = d /\ run'[n].update_task = "none"

\* The end of a description comes after all of its steps.
LEMMA EndTyped ==
    ASSUME NEW d \in Descs
    PROVE  End(d) \in Nat \ {0} /\ ~(End(d) <= Steps[d])
  BY DescAssumption DEF End

\* start_task_directly makes a new run.
LEMMA StartFact ==
    ASSUME TypeOK, NEW d \in Descs, NEW n \in Fresh, start_task_directly(d, n)
    PROVE  Started(n, d)
  BY DEF TypeOK, start_task_directly, Started, Fresh, NewRun, RunRecord

\* The fields of a run that the handler sets.
LEMMA AdvanceFact ==
    ASSUME TypeOK, NEW r \in DOMAIN run, advance(r)
    PROVE  Moved(r) /\ run'[r].step = run[r].step + 1
  <1>1. run[r] \in RunRecord
    BY DEF TypeOK
  <1>2. DOMAIN run' = DOMAIN run /\ \A x \in DOMAIN run : x # r => run'[x] = run[x]
    BY <1>1 DEF advance, TypeOK
  <1>3. run' \in [DOMAIN run -> RunRecord]
    BY <1>1 DEF advance, RunRecord, TypeOK
  <1>4. run'[r].desc = run[r].desc /\ run'[r].step = run[r].step + 1
    BY <1>1 DEF advance, RunRecord, TypeOK
  <1> QED
    BY <1>1, <1>2, <1>3, <1>4 DEF Moved, RunRecord

\* Only update_task of a run changes.
LEMMA UpdateTaskFact ==
    ASSUME TypeOK, NEW r \in DOMAIN run, NEW u \in {"none", "running", "done", "failed", "cancelled"},
           run' = [run EXCEPT ![r].update_task = u]
    PROVE  Moved(r) /\ run'[r].step = run[r].step
  <1>1. run[r] \in RunRecord
    BY DEF TypeOK
  <1>2. DOMAIN run' = DOMAIN run /\ \A x \in DOMAIN run : x # r => run'[x] = run[x]
    BY <1>1 DEF TypeOK
  <1>3. run' \in [DOMAIN run -> RunRecord]
    BY <1>1 DEF RunRecord, TypeOK
  <1>4. run'[r].desc = run[r].desc /\ run'[r].step = run[r].step
    BY <1>1 DEF RunRecord, TypeOK
  <1> QED
    BY <1>1, <1>2, <1>3, <1>4 DEF Moved, RunRecord

\* A run gets overdue.
LEMMA LateFact ==
    ASSUME TypeOK, NEW r \in DOMAIN run, run' = [run EXCEPT ![r].late = TRUE]
    PROVE  Moved(r) /\ run'[r].step = run[r].step
  <1>1. run[r] \in RunRecord
    BY DEF TypeOK
  <1>2. DOMAIN run' = DOMAIN run /\ \A x \in DOMAIN run : x # r => run'[x] = run[x]
    BY <1>1 DEF TypeOK
  <1>3. run' \in [DOMAIN run -> RunRecord]
    BY <1>1 DEF RunRecord, TypeOK
  <1>4. run'[r].desc = run[r].desc /\ run'[r].step = run[r].step
    BY <1>1 DEF RunRecord, TypeOK
  <1> QED
    BY <1>1, <1>2, <1>3, <1>4 DEF Moved, RunRecord

\* A run is no longer kept alive.
LEMMA AliveFact ==
    ASSUME TypeOK, NEW r \in DOMAIN run, run' = [run EXCEPT ![r].alive = FALSE]
    PROVE  Moved(r) /\ run'[r].step = run[r].step
  <1>1. run[r] \in RunRecord
    BY DEF TypeOK
  <1>2. DOMAIN run' = DOMAIN run /\ \A x \in DOMAIN run : x # r => run'[x] = run[x]
    BY <1>1 DEF TypeOK
  <1>3. run' \in [DOMAIN run -> RunRecord]
    BY <1>1 DEF RunRecord, TypeOK
  <1>4. run'[r].desc = run[r].desc /\ run'[r].step = run[r].step
    BY <1>1 DEF RunRecord, TypeOK
  <1> QED
    BY <1>1, <1>2, <1>3, <1>4 DEF Moved, RunRecord

\* A run is moved to its end.
LEMMA EndFact ==
    ASSUME TypeOK, NEW r \in DOMAIN run, run' = [run EXCEPT ![r].step = End(run[r].desc)]
    PROVE  Moved(r) /\ run'[r].step = End(run[r].desc)
  <1>1. run[r] \in RunRecord /\ run[r].desc \in Descs
    BY DEF TypeOK, RunRecord
  <1>2. End(run[r].desc) \in Nat \ {0} /\ ~(End(run[r].desc) <= Steps[run[r].desc])
    BY <1>1, EndTyped
  <1>3. DOMAIN run' = DOMAIN run /\ \A x \in DOMAIN run : x # r => run'[x] = run[x]
    BY <1>1 DEF TypeOK
  <1>4. run' \in [DOMAIN run -> RunRecord]
    BY <1>1, <1>2 DEF RunRecord, TypeOK
  <1>5. run'[r].desc = run[r].desc /\ run'[r].step = End(run[r].desc)
    BY <1>1, <1>2 DEF RunRecord, TypeOK
  <1> QED
    BY <1>1, <1>2, <1>3, <1>4, <1>5 DEF Moved

\* A run whose description is deleted is moved to its end.
LEMMA DeleteFact ==
    ASSUME TypeOK, NEW r \in DOMAIN run, 
           run' = [run EXCEPT ![r].alive = FALSE,
                              ![r].step = End(run[r].desc),
                              ![r].update_task = IF @ = "running" THEN "cancelled" ELSE @]
    PROVE  Moved(r) /\ run'[r].step = End(run[r].desc)
  <1>1. run[r] \in RunRecord /\ run[r].desc \in Descs
    BY DEF TypeOK, RunRecord
  <1>2. End(run[r].desc) \in Nat \ {0} /\ ~(End(run[r].desc) <= Steps[run[r].desc])
    BY <1>1, EndTyped
  <1>3. DOMAIN run' = DOMAIN run /\ \A x \in DOMAIN run : x # r => run'[x] = run[x]
    BY <1>1 DEF TypeOK
  <1>4. run' \in [DOMAIN run -> RunRecord]
    BY <1>1, <1>2 DEF RunRecord, TypeOK
  <1>5. run'[r].desc = run[r].desc /\ run'[r].step = End(run[r].desc)
    BY <1>1, <1>2 DEF RunRecord, TypeOK
  <1> QED
    BY <1>1, <1>2, <1>3, <1>4, <1>5 DEF Moved

\* Storing the state of a run never adds a row, keeps those of other runs and that of
\* an active one, and deletes the row of a registered run that is over.
LEMMA StoreFact ==
    ASSUME TypeOK, NEW r \in DOMAIN run, db' = store_running_task_state(r)
    PROVE  /\ DOMAIN db' \subseteq DOMAIN db /\ db' \in [DOMAIN db' -> Nat \ {0}]
           /\ \A x \in DOMAIN db : x # r => x \in DOMAIN db' /\ db'[x] = db[x]
           /\ is_active(r) /\ r \in DOMAIN db => r \in DOMAIN db' /\ db'[r] = run[r].step
           /\ ~is_active(r) /\ r \in tasks => r \notin DOMAIN db'
  <1>1. run[r].step \in Nat \ {0} /\ db \in [DOMAIN db -> Nat \ {0}]
    BY DEF TypeOK, RunRecord
  <1> QED
    BY <1>1 DEF store_running_task_state

\* The row of r may go, and those of other runs stay; if it does not go, this is noted.
RowDeleted(r) ==
    /\ DOMAIN db' \subseteq DOMAIN db /\ db' \in [DOMAIN db' -> Nat \ {0}]
    /\ \A x \in DOMAIN db \ {r} : x \in DOMAIN db' /\ db'[x] = db[x]
    /\ refused \subseteq refused' /\ refused' \subseteq DOMAIN run
    /\ r \in DOMAIN db' => r \in refused'

\* Deleting a row.
LEMMA DeleteRow ==
    ASSUME TypeOK, NEW r \in DOMAIN run, delete_row(r)
    PROVE  RowDeleted(r)
  BY DEF TypeOK, delete_row, RowDeleted

\* The insert: the row says where the run is.
LEMMA InsertFact ==
    ASSUME TypeOK, NEW r \in DOMAIN run, insert(r)
    PROVE  /\ Moved(r) /\ run'[r].step = run[r].step
           /\ DOMAIN db' = DOMAIN db \cup {r} /\ db' \in [DOMAIN db' -> Nat \ {0}]
           /\ db'[r] = run[r].step /\ \A x \in DOMAIN db : x # r => db'[x] = db[x]
           /\ tasks' = tasks \cup {r}
  <1>1. run[r].step \in Nat \ {0} /\ db \in [DOMAIN db -> Nat \ {0}]
    BY DEF TypeOK, RunRecord
  <1>2. Moved(r) /\ run'[r].step = run[r].step
    BY UpdateTaskFact DEF insert
  <1> QED
    BY <1>1, <1>2 DEF insert

\* What storing the state of r may do to the rows.
RowsKept(r) ==
    /\ DOMAIN db' \subseteq DOMAIN db /\ db' \in [DOMAIN db' -> Nat \ {0}]
    /\ \A x \in DOMAIN db : x # r => x \in DOMAIN db' /\ db'[x] = db[x]
    /\ is_active(r) /\ r \in DOMAIN db => r \in DOMAIN db' /\ db'[r] \in {db[r], run[r].step}

\* Storing the state of a run leaves the other rows alone.
LEMMA RowsKeptFact ==
    ASSUME TypeOK, NEW r \in DOMAIN run, db' = db \/ db' = store_running_task_state(r)
    PROVE  RowsKept(r)
  BY StoreFact DEF RowsKept, TypeOK

-----------------------------------------------------------------------------
(* Steps that move one run and leave the books of the handler alone *)

\* A run that moves on stays in the books it is in.
LEMMA MoveKeeps ==
    ASSUME TypeOK, BooksInv, NEW r \in DOMAIN run, r \notin Unborn, Moved(r), RowsKept(r),
           UNCHANGED <<tasks, starting, removing, watcher, deleting, refused>>
    PROVE  BooksInv'
  <1>1. ASSUME NEW x \in DOMAIN run, is_active(x)'
        PROVE  is_active(x) /\ run[x].step <= run'[x].step
    <2>1. run[x].step \in Nat /\ run'[x].step \in Nat /\ run[x].desc \in Descs /\ Steps[run[x].desc] \in Nat
      BY DescAssumption DEF TypeOK, Moved, RunRecord
    <2> QED
      BY <1>1, <2>1 DEF Moved, is_active
  <1>2. DOMAIN run' = DOMAIN run /\ Unborn' = Unborn /\ DOMAIN db' \subseteq DOMAIN db
    BY DEF Moved, RowsKept, Unborn
  <1>3. WatcherInv'
    BY <1>1, <1>2 DEF WatcherInv, BooksInv, TypeOK
  <1>4. UnbornInv'
    <2>1. \A x \in Unborn : run'[x] = run[x]
      BY DEF Moved, Unborn, BooksInv, WatcherInv, TypeOK
    <2> QED
      BY <1>2, <2>1 DEF UnbornInv, BooksInv
  <1>5. ActiveRunsPersisted'
    <2> SUFFICES ASSUME NEW x \in tasks, is_active(x)'
                 PROVE  x \in DOMAIN db' /\ db'[x] <= run'[x].step
      BY DEF ActiveRunsPersisted
    <2>1. x \in DOMAIN run /\ is_active(x) /\ run[x].step <= run'[x].step
      BY <1>1 DEF TypeOK
    <2>2. x \in DOMAIN db /\ db[x] <= run[x].step
      BY <2>1 DEF ActiveRunsPersisted, BooksInv
    <2>3. x \in DOMAIN db' /\ db'[x] \in {db[x], run[x].step}
      BY <2>1, <2>2 DEF RowsKept
    <2>4. db[x] \in Nat /\ run[x].step \in Nat /\ run'[x].step \in Nat
      BY <2>1, <2>2 DEF TypeOK, Moved, RunRecord
    <2> QED
      BY <2>1, <2>2, <2>3, <2>4
  <1>6. UnregisteredStaysAway'
    BY <1>1, <1>2 DEF UnregisteredStaysAway, BooksInv
  <1> QED
    BY <1>3, <1>4, <1>5, <1>6 DEF BooksInv

\* The types after such a step.
LEMMA MoveTyped ==
    ASSUME TypeOK, NEW r \in DOMAIN run, Moved(r), RowsKept(r), tasks' \subseteq tasks,
           known' \subseteq Descs, start_when_done' \subseteq Descs, replacing' \subseteq DOMAIN run,
           triggered' \in [Descs -> Nat], UNCHANGED <<starting, removing, watcher, deleting, refused>>
    PROVE  TypeOK'
  BY DEF TypeOK, Moved, RowsKept

\* A run whose commands execute, or that is registered, is not one that is being born.
LEMMA BornFact ==
    ASSUME TypeOK, BooksInv, NEW r \in DOMAIN run, r \in tasks \/ run[r].update_task # "none"
    PROVE  r \notin Unborn
  BY DEF BooksInv, UnbornInv

\* The steps of a run by itself keep the invariant.
LEMMA RunStepsKeep ==
    ASSUME TypeOK, BooksInv, NEW r \in Runs,
           execute_task_commands(r) \/ command_fails(r) \/ handle_action_result(r) \/ Overdue(r)
    PROVE  TypeOK' /\ BooksInv'
  <1>1. /\ UNCHANGED <<known, tasks, start_when_done, starting, replacing, removing, watcher, triggered,
                       deleting, refused>>
        /\ r \in DOMAIN run
        /\ db' = db \/ db' = store_running_task_state(r)
    BY DEF execute_task_commands, command_fails, handle_action_result, Overdue, TypeOK
  <1>2. r \in tasks \/ run[r].update_task # "none"
    BY DEF execute_task_commands, command_fails, handle_action_result, Overdue
  <1>3. Moved(r)
    <2>1. \/ advance(r)
          \/ \E u \in {"none", "running", "done", "failed", "cancelled"} :
               run' = [run EXCEPT ![r].update_task = u]
          \/ run' = [run EXCEPT ![r].late = TRUE]
      BY DEF execute_task_commands, command_fails, handle_action_result, Overdue
    <2> QED
      BY <1>1, <2>1, AdvanceFact, UpdateTaskFact, LateFact
  <1>4. RowsKept(r) /\ r \notin Unborn
    BY <1>1, <1>2, RowsKeptFact, BornFact
  <1>5. TypeOK'
    BY <1>1, <1>3, <1>4, MoveTyped DEF TypeOK
  <1> QED
    BY <1>1, <1>3, <1>4, <1>5, MoveKeeps

-----------------------------------------------------------------------------
(* Starting runs *)

\* A run is created and its insert awaited, by start_task or by the watcher.
LEMMA BirthKeeps ==
    ASSUME TypeOK, BooksInv, NEW d \in Descs, NEW n, Started(n, d),
           DOMAIN db' \subseteq DOMAIN db, ActiveRunsPersisted', UNCHANGED <<tasks, removing, deleting>>,
           \/ starting' = starting \cup {n} /\ UNCHANGED <<watcher, refused>>
           \/ /\ UNCHANGED starting /\ watcher.at = "delete" /\ refused \subseteq refused'
              /\ watcher.cur \notin DOMAIN db' \/ watcher.cur \in refused'
              /\ watcher' = Watcher("insert", watcher.todo, n)
    PROVE  BooksInv'
  <1>1. /\ n \notin DOMAIN run /\ n \notin tasks /\ n \notin starting /\ n \notin DOMAIN db
        /\ n \notin watcher.todo /\ \A e \in DOMAIN removing : n \notin removing[e]
        /\ watcher.cur # n /\ NoRun # n
    BY BoundAssumption DEF Started, TypeOK
  <1>2. /\ DOMAIN run' = DOMAIN run \cup {n}
        /\ \A x \in DOMAIN run : run'[x] = run[x]
        /\ run'[n].update_task = "none"
    BY DEF Started
  <1>3. \A x \in DOMAIN run : is_active(x)' <=> is_active(x)
    BY <1>2 DEF is_active
  <1>4. /\ watcher'.todo = watcher.todo
        /\ (watcher'.at = watcher.at /\ watcher'.cur = watcher.cur) \/ watcher'.at = "insert"
        /\ watcher'.at = "insert" => watcher'.cur \in DOMAIN run' \ starting'
    BY <1>1, <1>2 DEF Watcher, BooksInv, WatcherInv, TypeOK
  <1>5. WatcherInv'
    BY <1>1, <1>2, <1>3, <1>4 DEF WatcherInv, BooksInv, TypeOK
  <1>6. Unborn' = Unborn \cup {n} /\ Unborn \subseteq DOMAIN run
    <2>1. CASE starting' = starting \cup {n} /\ UNCHANGED watcher
      BY <2>1 DEF Unborn, BooksInv, WatcherInv, TypeOK
    <2>2. CASE /\ UNCHANGED starting /\ watcher.at = "delete"
               /\ watcher' = Watcher("insert", watcher.todo, n)
      BY <2>2 DEF Unborn, Watcher, TypeOK
    <2> QED
      BY <2>1, <2>2
  <1>7. UnbornInv'
    BY <1>1, <1>2, <1>4, <1>6 DEF UnbornInv, BooksInv
  <1>8. UnregisteredStaysAway'
    <2> SUFFICES ASSUME NEW x \in DOMAIN run' \ (tasks' \cup starting'),
                        ~(watcher'.at = "insert" /\ x = watcher'.cur)
                 PROVE  ~is_active(x)' /\ (x \in DOMAIN db' => StillHasRow(x)')
      BY DEF UnregisteredStaysAway, StillHasRow
    <2>1. x \in DOMAIN run /\ x \notin tasks \cup starting /\ ~(watcher.at = "insert" /\ x = watcher.cur)
      BY <1>2 DEF Watcher
    <2>2. ~is_active(x) /\ (x \in DOMAIN db => StillHasRow(x))
      BY <2>1 DEF UnregisteredStaysAway, StillHasRow, BooksInv
    <2>3. x \in DOMAIN db' => StillHasRow(x)'
      BY <2>2 DEF StillHasRow
    <2> QED
      BY <1>3, <2>1, <2>2, <2>3
  <1> QED
    BY <1>5, <1>7, <1>8 DEF BooksInv

\* The active runs keep their rows when a run is created.
LEMMA BirthPersisted ==
    ASSUME TypeOK, BooksInv, NEW d, NEW n, Started(n, d), UNCHANGED tasks,
           \A x \in DOMAIN db : is_active(x) => x \in DOMAIN db' /\ db'[x] \in {db[x], run[x].step}
    PROVE  ActiveRunsPersisted'
  <1> SUFFICES ASSUME NEW x \in tasks, is_active(x)'
               PROVE  x \in DOMAIN db' /\ db'[x] <= run'[x].step
    BY DEF ActiveRunsPersisted
  <1>1. x \in DOMAIN run /\ run'[x] = run[x] /\ is_active(x)
    BY DEF Started, TypeOK, is_active
  <1>2. x \in DOMAIN db /\ db[x] <= run[x].step /\ db[x] \in Nat /\ run[x].step \in Nat
    BY <1>1 DEF ActiveRunsPersisted, BooksInv, TypeOK, RunRecord
  <1> QED
    BY <1>1, <1>2

\* A run is registered after its insert.
LEMMA InsertKeeps ==
    ASSUME TypeOK, BooksInv, NEW r \in DOMAIN run, insert(r), UNCHANGED <<removing, deleting, refused>>,
           \/ r \in starting /\ starting' = starting \ {r} /\ UNCHANGED watcher
           \/ /\ watcher.at = "insert" /\ r = watcher.cur /\ UNCHANGED starting
              /\ watcher' = Watcher("event", watcher.todo, NoRun)
    PROVE  BooksInv'
  <1>1. /\ Moved(r) /\ run'[r].step = run[r].step
        /\ DOMAIN db' = DOMAIN db \cup {r} /\ db' \in [DOMAIN db' -> Nat \ {0}]
        /\ db'[r] = run[r].step /\ \A x \in DOMAIN db : x # r => db'[x] = db[x]
        /\ tasks' = tasks \cup {r}
    BY InsertFact
  <1>2. r \in Unborn
    BY DEF Unborn
  <1>3. Unborn' = Unborn \ {r} /\ Unborn \subseteq DOMAIN run
    <2>1. CASE r \in starting /\ starting' = starting \ {r} /\ UNCHANGED watcher
      BY <2>1 DEF Unborn, BooksInv, WatcherInv, TypeOK
    <2>2. CASE /\ watcher.at = "insert" /\ r = watcher.cur /\ UNCHANGED starting
               /\ watcher' = Watcher("event", watcher.todo, NoRun)
      BY <2>2 DEF Unborn, BooksInv, WatcherInv, TypeOK, Watcher
    <2> QED
      BY <2>1, <2>2
  <1>4. DOMAIN run' = DOMAIN run /\ \A x \in DOMAIN run : is_active(x)' <=> is_active(x)
    BY <1>1 DEF Moved, is_active
  <1>5. watcher'.todo = watcher.todo /\ starting' \subseteq starting
    BY DEF Watcher, TypeOK
  <1>6. \/ watcher' = watcher /\ watcher.cur \in DOMAIN run \cup {NoRun}
        \/ watcher'.at = "event" /\ watcher'.cur = NoRun
    BY DEF Watcher, TypeOK
  <1>7. WatcherInv'
    BY <1>1, <1>4, <1>5, <1>6 DEF WatcherInv, BooksInv, TypeOK
  <1>8. UnbornInv'
    <2>1. \A x \in Unborn' : x # r /\ x \in Unborn /\ run'[x] = run[x]
      BY <1>1, <1>3 DEF Moved
    <2> QED
      BY <1>1, <1>5, <2>1 DEF UnbornInv, BooksInv
  <1>9. ActiveRunsPersisted'
    <2> SUFFICES ASSUME NEW x \in tasks', is_active(x)'
                 PROVE  x \in DOMAIN db' /\ db'[x] <= run'[x].step
      BY DEF ActiveRunsPersisted
    <2>1. CASE x = r
      BY <1>1, <2>1 DEF Moved, TypeOK, RunRecord
    <2>2. CASE x # r
      <3>1. x \in tasks /\ x \in DOMAIN run /\ is_active(x) /\ run'[x] = run[x]
        BY <1>1, <1>4, <2>2 DEF Moved, TypeOK
      <3> QED
        BY <1>1, <2>2, <3>1 DEF ActiveRunsPersisted, BooksInv
    <2> QED
      BY <2>1, <2>2
  <1>10. UnregisteredStaysAway'
    <2> SUFFICES ASSUME NEW x \in DOMAIN run' \ (tasks' \cup starting'),
                        ~(watcher'.at = "insert" /\ x = watcher'.cur)
                 PROVE  ~is_active(x)' /\ (x \in DOMAIN db' => StillHasRow(x)')
      BY DEF UnregisteredStaysAway, StillHasRow
    <2>1. x \in DOMAIN run /\ x # r /\ x \notin tasks
      BY <1>1, <1>4
    <2>2. x \notin starting /\ ~(watcher.at = "insert" /\ x = watcher.cur)
      BY <2>1 DEF Watcher
    <2>3. ~is_active(x) /\ (x \in DOMAIN db => StillHasRow(x))
      BY <2>1, <2>2 DEF UnregisteredStaysAway, StillHasRow, BooksInv
    <2>4. StillHasRow(x) => StillHasRow(x)'
      BY <2>1 DEF StillHasRow
    <2> QED
      BY <1>1, <1>4, <2>1, <2>3, <2>4
  <1> QED
    BY <1>7, <1>8, <1>9, <1>10 DEF BooksInv

\* A run that is born has its type, and so has what comes with it.
LEMMA BirthTyped ==
    ASSUME TypeOK, NEW d \in Descs, NEW n, Started(n, d),
           DOMAIN db' \subseteq DOMAIN db, db' \in [DOMAIN db' -> Nat \ {0}],
           starting' \subseteq starting \cup {n}, replacing' \subseteq replacing,
           start_when_done' \subseteq start_when_done, triggered' \in [Descs -> Nat],
           \/ UNCHANGED watcher
           \/ watcher' = Watcher("insert", watcher.todo, n),
           UNCHANGED <<known, tasks, removing, deleting>>, refused' \subseteq DOMAIN run
    PROVE  TypeOK'
  BY DEF TypeOK, Started, Watcher

\* start_task ignores the trigger, starts a run, or begins to replace one.
LEMMA StartTaskKeeps ==
    ASSUME TypeOK, BooksInv, NEW d \in Descs, start_task(d)
    PROVE  TypeOK' /\ BooksInv'
  <1>0. /\ triggered' \in [Descs -> Nat]
        /\ UNCHANGED <<known, tasks, db, removing, watcher, deleting, refused>>
    BY DEF start_task, TypeOK
  <1>1. ASSUME NEW n \in Fresh, start_task_directly(d, n), starting' = starting \cup {n},
               UNCHANGED <<start_when_done, replacing>>
        PROVE  TypeOK' /\ BooksInv'
    <2>1. Started(n, d)
      BY <1>1, StartFact
    <2>2. ActiveRunsPersisted'
      BY <1>0, <2>1, BirthPersisted
    <2>3. BooksInv'
      BY <1>0, <1>1, <2>1, <2>2, BirthKeeps
    <2>4. TypeOK'
      BY <1>0, <1>1, <2>1, BirthTyped DEF TypeOK
    <2> QED
      BY <2>3, <2>4
  <1>2. ASSUME NEW r \in existing(d), run' = [run EXCEPT ![r].step = End(d)],
               replacing' = replacing \cup {r}, UNCHANGED <<starting, start_when_done>>
        PROVE  TypeOK' /\ BooksInv'
    <2>1. r \in DOMAIN run /\ r \in tasks /\ run[r].desc = d
      BY DEF existing, RunsOf
    <2>2. Moved(r) /\ RowsKept(r) /\ r \notin Unborn
      BY <1>0, <1>2, <2>1, EndFact, RowsKeptFact, BornFact
    <2> QED
      BY <1>0, <1>2, <2>1, <2>2, MoveKeeps, MoveTyped DEF TypeOK
  <1>3. ASSUME UNCHANGED <<run, starting, replacing>>, start_when_done' \subseteq Descs
        PROVE  TypeOK' /\ BooksInv'
    BY <1>0, <1>3 DEF TypeOK, BooksInv, WatcherInv, UnbornInv, Unborn, ActiveRunsPersisted,
       UnregisteredStaysAway, is_active
  <1> QED
    BY <1>1, <1>2, <1>3 DEF start_task, TypeOK

\* A run that surpasses another one is started once the other is stored.
LEMMA ReplacedKeeps ==
    ASSUME TypeOK, BooksInv, NEW r \in Runs, replaced(r)
    PROVE  TypeOK' /\ BooksInv'
  <1>1. r \in DOMAIN run /\ run[r].desc \in Descs /\ db' = store_running_task_state(r)
    BY DEF replaced, TypeOK, RunRecord
  <1>2. PICK n \in Fresh : start_task_directly(run[r].desc, n) /\ starting' = starting \cup {n}
    BY DEF replaced
  <1>3. Started(n, run[r].desc)
    BY <1>1, <1>2, StartFact
  <1>4. /\ DOMAIN db' \subseteq DOMAIN db /\ db' \in [DOMAIN db' -> Nat \ {0}]
        /\ \A x \in DOMAIN db : is_active(x) => x \in DOMAIN db' /\ db'[x] \in {db[x], run[x].step}
    BY <1>1, StoreFact
  <1>5. UNCHANGED <<known, tasks, start_when_done, removing, watcher, triggered, deleting, refused>>
        /\ replacing' \subseteq replacing
    BY DEF replaced
  <1>6. ActiveRunsPersisted'
    BY <1>3, <1>4, <1>5, BirthPersisted
  <1>7. BooksInv'
    BY <1>1, <1>2, <1>3, <1>4, <1>5, <1>6, BirthKeeps
  <1>8. TypeOK'
    BY <1>1, <1>2, <1>3, <1>4, <1>5, BirthTyped DEF TypeOK
  <1> QED
    BY <1>7, <1>8

\* A run is entered into the tables after its insert.
LEMMA InsertTyped ==
    ASSUME TypeOK, NEW r \in DOMAIN run, insert(r), starting' \subseteq starting,
           \/ UNCHANGED watcher
           \/ watcher' = Watcher("event", watcher.todo, NoRun),
           UNCHANGED <<known, start_when_done, replacing, removing, triggered, deleting, refused>>
    PROVE  TypeOK'
  <1>1. /\ DOMAIN run' = DOMAIN run /\ run' \in [DOMAIN run -> RunRecord]
        /\ DOMAIN db' = DOMAIN db \cup {r} /\ db' \in [DOMAIN db' -> Nat \ {0}]
        /\ tasks' = tasks \cup {r}
    BY InsertFact DEF Moved
  <1>2. watcher' \in [at : {"idle", "loop", "store", "update_task", "delete", "insert", "event", "dead"},
                      todo : SUBSET DOMAIN run, cur : DOMAIN run \cup {NoRun}]
    BY DEF TypeOK, Watcher
  <1> QED
    BY <1>1, <1>2 DEF TypeOK

\* start_task goes on after the insert of a run.
LEMMA InsertedKeeps ==
    ASSUME TypeOK, BooksInv, NEW r \in Runs, inserted(r)
    PROVE  TypeOK' /\ BooksInv'
  <1>1. /\ r \in DOMAIN run /\ r \in starting /\ starting' = starting \ {r} /\ insert(r)
        /\ UNCHANGED <<known, start_when_done, replacing, removing, watcher, triggered, deleting, refused>>
    BY DEF inserted, TypeOK
  <1>2. BooksInv'
    BY <1>1, InsertKeeps
  <1>3. TypeOK'
    BY <1>1, InsertTyped
  <1> QED
    BY <1>2, <1>3

-----------------------------------------------------------------------------
(* The watcher *)

\* Steps of the watcher that change no run, no row and nothing that is registered.
LEMMA WatcherMoves ==
    ASSUME TypeOK, BooksInv, UNCHANGED <<known, run, tasks, db, start_when_done, starting, replacing,
                                         removing, triggered, deleting, refused>>,
           watcher'.todo \subseteq tasks \cup watcher.todo, watcher'.cur = NoRun,
           watcher.at \in {"idle", "loop", "event"}, watcher' \in [at : {"idle", "loop", "event"}, todo : SUBSET DOMAIN run,
                                              cur : DOMAIN run \cup {NoRun}]
    PROVE  TypeOK' /\ BooksInv'
  <1>1. TypeOK'
    BY DEF TypeOK
  <1>2. Unborn' = starting /\ starting \subseteq Unborn
    BY DEF Unborn
  <1>3. WatcherInv' /\ UnbornInv'
    BY <1>2 DEF WatcherInv, UnbornInv, BooksInv, is_active
  <1>4. ActiveRunsPersisted' /\ UnregisteredStaysAway'
    BY DEF BooksInv, ActiveRunsPersisted, UnregisteredStaysAway, is_active
  <1> QED
    BY <1>1, <1>3, <1>4 DEF BooksInv

\* The loops of the watcher take the next run.
LEMMA LoopsKeep ==
    ASSUME TypeOK, BooksInv, check_overdue_tasks \/ check_started \/ check_done
    PROVE  TypeOK' /\ BooksInv'
  <1>1. UNCHANGED <<known, run, tasks, db, start_when_done, starting, replacing, removing, triggered,
                    deleting, refused>>
    BY DEF check_overdue_tasks, check_started, check_done
  <1>2. /\ watcher'.todo \subseteq tasks \cup watcher.todo /\ watcher'.cur = NoRun
        /\ watcher' \in [at : {"idle", "loop", "event"}, todo : SUBSET DOMAIN run,
                          cur : DOMAIN run \cup {NoRun}]
    BY DEF check_overdue_tasks, check_started, check_done, Watcher, Idle, TypeOK
  <1>3. watcher.at \in {"idle", "loop", "event"}
    BY DEF check_overdue_tasks, check_started, check_done, Watcher, Idle
  <1> QED
    BY <1>1, <1>2, <1>3, WatcherMoves

\* The loop visits a run: it was registered once, so it is not being born.
LEMMA VisitKeeps ==
    ASSUME TypeOK, BooksInv, NEW r \in Runs, check_visit(r)
    PROVE  TypeOK' /\ BooksInv'
  <1> DEFINE todo == watcher.todo \ {r}
  <1>1. /\ watcher.at = "loop" /\ watcher.cur = NoRun /\ r \in watcher.todo /\ r \in DOMAIN run
        /\ UNCHANGED <<known, tasks, db, start_when_done, starting, replacing, removing, triggered,
                       deleting, refused>>
    BY DEF check_visit, BooksInv, WatcherInv, TypeOK
  <1>2. r \notin Unborn /\ r \notin starting /\ Unborn = starting /\ r # NoRun
    BY <1>1, BoundAssumption DEF BooksInv, UnbornInv, Unborn
  <1>3. run[r].desc \in Descs /\ Steps[run[r].desc] \in Nat /\ run[r].step \in Nat
        /\ End(run[r].desc) \in Nat /\ ~(End(run[r].desc) <= Steps[run[r].desc])
    BY <1>1, EndTyped, DescAssumption DEF TypeOK, RunRecord
  <1>4. Moved(r)
    <2>1. advance(r) \/ run' = [run EXCEPT ![r].step = End(run[r].desc)] \/ UNCHANGED run
      BY DEF check_visit
    <2>2. CASE UNCHANGED run
      BY <1>1, <1>3, <2>2 DEF Moved, TypeOK
    <2> QED
      BY <1>1, <2>1, <2>2, AdvanceFact, EndFact
  <1>5. /\ watcher'.todo = todo /\ watcher'.at \in {"store", "update_task", "loop"}
        /\ \/ watcher'.at = "loop" /\ watcher'.cur = NoRun
           \/ watcher'.at # "loop" /\ watcher'.cur = r /\ run'[r].step = End(run[r].desc)
        /\ watcher' \in [at : {"store", "update_task", "loop"}, todo : SUBSET DOMAIN run,
                          cur : DOMAIN run \cup {NoRun}]
    <2>1. run' = [run EXCEPT ![r].step = End(run[r].desc)] => run'[r].step = End(run[r].desc)
      BY <1>1, EndFact
    <2> QED
      BY <1>1, <2>1 DEF check_visit, Watcher, TypeOK
  <1>6. TypeOK'
    BY <1>1, <1>4, <1>5 DEF TypeOK, Moved
  <1>7. ASSUME NEW x \in DOMAIN run, is_active(x)'
        PROVE  is_active(x) /\ run[x].step <= run'[x].step
    <2>1. run[x].step \in Nat /\ run'[x].step \in Nat /\ run[x].desc \in Descs /\ Steps[run[x].desc] \in Nat
      BY <1>4, DescAssumption DEF TypeOK, Moved, RunRecord
    <2> QED
      BY <1>4, <1>7, <2>1 DEF Moved, is_active
  <1>8. Unborn' = Unborn /\ DOMAIN run' = DOMAIN run
    BY <1>1, <1>2, <1>4, <1>5 DEF Unborn, Moved
  <1>10. WatcherInv'
    <2>1. watcher'.at # "loop" => ~is_active(r)'
      BY <1>3, <1>4, <1>5 DEF is_active, Moved
    <2> QED
      BY <1>1, <1>2, <1>5, <1>7, <1>8, <2>1 DEF WatcherInv, BooksInv, TypeOK
  <1>11. UnbornInv'
    <2>1. \A x \in Unborn : run'[x] = run[x]
      BY <1>2, <1>4 DEF Moved, TypeOK
    <2> QED
      BY <1>1, <1>5, <1>8, <2>1 DEF UnbornInv, BooksInv
  <1>12. ActiveRunsPersisted'
    <2> SUFFICES ASSUME NEW x \in tasks, is_active(x)'
                 PROVE  x \in DOMAIN db /\ db[x] <= run'[x].step
      BY <1>1 DEF ActiveRunsPersisted
    <2>1. x \in DOMAIN run /\ is_active(x) /\ run[x].step <= run'[x].step
      BY <1>7 DEF TypeOK
    <2>2. x \in DOMAIN db /\ db[x] <= run[x].step
      BY <2>1 DEF ActiveRunsPersisted, BooksInv
    <2>3. db[x] \in Nat /\ run[x].step \in Nat /\ run'[x].step \in Nat
      BY <1>4, <2>1, <2>2 DEF TypeOK, Moved, RunRecord
    <2> QED
      BY <2>1, <2>2, <2>3
  <1>13. UnregisteredStaysAway'
    <2> SUFFICES ASSUME NEW x \in DOMAIN run \ (tasks \cup starting)
                 PROVE  ~is_active(x)' /\ (x \in DOMAIN db => x \in deleting \cup refused)
      BY <1>1, <1>8 DEF UnregisteredStaysAway
    <2> QED
      BY <1>1, <1>7 DEF BooksInv, UnregisteredStaysAway
  <1> QED
    BY <1>6, <1>10, <1>11, <1>12, <1>13 DEF BooksInv

\* The watcher goes on after it has stored an overdue run.
LEMMA StoredKeeps ==
    ASSUME TypeOK, BooksInv, check_stored
    PROVE  TypeOK' /\ BooksInv'
  <1> DEFINE r == watcher.cur
  <1>1. /\ watcher.at = "store" /\ r \in DOMAIN run /\ ~is_active(r)
        /\ db' = store_running_task_state(r)
        /\ UNCHANGED <<known, run, tasks, start_when_done, starting, replacing, removing, triggered,
                       deleting, refused>>
    BY DEF check_stored, BooksInv, WatcherInv
  <1>2. /\ watcher'.at = "update_task" /\ watcher'.todo = watcher.todo /\ watcher'.cur = r
        /\ watcher' \in [at : {"update_task"}, todo : SUBSET DOMAIN run, cur : DOMAIN run \cup {NoRun}]
    BY DEF check_stored, TypeOK
  <1>3. /\ DOMAIN db' \subseteq DOMAIN db /\ db' \in [DOMAIN db' -> Nat \ {0}]
        /\ \A x \in DOMAIN db : x # r => x \in DOMAIN db' /\ db'[x] = db[x]
    BY <1>1, StoreFact
  <1>4. TypeOK'
    BY <1>1, <1>2, <1>3 DEF TypeOK
  <1>5. Unborn' = Unborn /\ Unborn = starting
    BY <1>1, <1>2 DEF Unborn
  <1>6. WatcherInv'
    BY <1>1, <1>2, <1>3 DEF WatcherInv, BooksInv, is_active
  <1>7. UnbornInv'
    BY <1>1, <1>2, <1>3, <1>5 DEF UnbornInv, BooksInv
  <1>8. ActiveRunsPersisted'
    BY <1>1, <1>3 DEF ActiveRunsPersisted, BooksInv, is_active
  <1>9. UnregisteredStaysAway'
    BY <1>1, <1>2, <1>3 DEF UnregisteredStaysAway, BooksInv, is_active
  <1> QED
    BY <1>4, <1>6, <1>7, <1>8, <1>9 DEF BooksInv

\* The watcher goes on after the commands of a run are over.
LEMMA UpdateTaskKeeps ==
    ASSUME TypeOK, BooksInv, check_update_task
    PROVE  TypeOK' /\ BooksInv'
  <1> DEFINE r == watcher.cur
  <1>1. /\ watcher.at = "update_task" /\ r \in DOMAIN run /\ ~is_active(r) /\ r \notin starting
        /\ UNCHANGED <<known, db, start_when_done, starting, replacing, removing, triggered, deleting,
                       refused>>
    BY DEF check_update_task, BooksInv, WatcherInv
  <1>2. CASE tasks' = tasks \ {r} /\ run' = [run EXCEPT ![r].alive = FALSE]
             /\ watcher' = [watcher EXCEPT !.at = "delete"]
    <2>1. Moved(r) /\ run'[r].step = run[r].step
      BY <1>1, <1>2, AliveFact
    <2>2. /\ DOMAIN run' = DOMAIN run
          /\ \A x \in DOMAIN run : is_active(x)' <=> is_active(x)
          /\ \A x \in DOMAIN run : x # r => run'[x] = run[x]
      BY <2>1 DEF Moved, is_active
    <2>3. /\ watcher'.at = "delete" /\ watcher'.todo = watcher.todo /\ watcher'.cur = r
          /\ watcher' \in [at : {"delete"}, todo : SUBSET DOMAIN run, cur : DOMAIN run \cup {NoRun}]
      BY <1>2 DEF TypeOK
    <2>4. TypeOK'
      BY <1>1, <1>2, <2>1, <2>3 DEF TypeOK, Moved
    <2>5. Unborn' = Unborn /\ Unborn = starting
      BY <1>1, <2>3 DEF Unborn
    <2>6. WatcherInv'
      BY <1>1, <2>2, <2>3 DEF WatcherInv, BooksInv, TypeOK
    <2>7. UnbornInv'
      BY <1>1, <1>2, <2>2, <2>3, <2>5 DEF UnbornInv, BooksInv, TypeOK
    <2>8. ActiveRunsPersisted'
      BY <1>1, <1>2, <2>2 DEF ActiveRunsPersisted, BooksInv, TypeOK
    <2>9. UnregisteredStaysAway'
      BY <1>1, <1>2, <2>2, <2>3 DEF UnregisteredStaysAway, BooksInv
    <2> QED
      BY <2>4, <2>6, <2>7, <2>8, <2>9 DEF BooksInv
  <1>3. CASE watcher' = Idle /\ UNCHANGED <<tasks, run>>
    <2>1. /\ watcher'.at = "idle" /\ watcher'.todo = {} /\ watcher'.cur = NoRun
          /\ watcher' \in [at : {"idle"}, todo : SUBSET DOMAIN run, cur : DOMAIN run \cup {NoRun}]
      BY <1>3 DEF Idle, Watcher
    <2>2. TypeOK'
      BY <1>1, <1>3, <2>1 DEF TypeOK
    <2>3. Unborn' = Unborn /\ Unborn = starting
      BY <1>1, <2>1 DEF Unborn
    <2>4. WatcherInv' /\ UnbornInv' /\ ActiveRunsPersisted'
      BY <1>1, <1>3, <2>1, <2>3 DEF WatcherInv, UnbornInv, ActiveRunsPersisted, BooksInv, is_active
    <2>5. UnregisteredStaysAway'
      BY <1>1, <1>3, <2>1 DEF UnregisteredStaysAway, BooksInv, is_active
    <2> QED
      BY <2>2, <2>4, <2>5 DEF BooksInv
  <1>4. CASE watcher' = [watcher EXCEPT !.at = "dead"] /\ UNCHANGED <<tasks, run>>
    <2>1. /\ watcher'.at = "dead" /\ watcher'.todo = watcher.todo /\ watcher'.cur = r
          /\ watcher' \in [at : {"dead"}, todo : SUBSET DOMAIN run, cur : DOMAIN run \cup {NoRun}]
      BY <1>4 DEF TypeOK
    <2>2. TypeOK'
      BY <1>1, <1>4, <2>1 DEF TypeOK
    <2>3. Unborn' = Unborn /\ Unborn = starting
      BY <1>1, <2>1 DEF Unborn
    <2>4. WatcherInv' /\ UnbornInv' /\ ActiveRunsPersisted' /\ UnregisteredStaysAway'
      BY <1>1, <1>4, <2>1, <2>3 DEF WatcherInv, UnbornInv, ActiveRunsPersisted, UnregisteredStaysAway,
         BooksInv, is_active
    <2> QED
      BY <2>2, <2>4 DEF BooksInv
  <1> QED
    BY <1>2, <1>3, <1>4 DEF check_update_task

\* The watcher goes on after it has deleted the row of a run.
LEMMA DeletedKeeps ==
    ASSUME TypeOK, BooksInv, check_deleted
    PROVE  TypeOK' /\ BooksInv'
  <1> DEFINE r == watcher.cur
             d == run[r].desc
  <1>1. /\ watcher.at = "delete" /\ r \in DOMAIN run /\ ~is_active(r)
        /\ UNCHANGED <<known, tasks, starting, replacing, removing, triggered, deleting>>
    BY DEF check_deleted, BooksInv, WatcherInv
  <1>2. RowDeleted(r)
    BY <1>1, DeleteRow DEF check_deleted
  <1>3. d \in Descs
    BY <1>1 DEF TypeOK, RunRecord
  <1>4. ASSUME NEW n \in Fresh, start_task_directly(d, n), start_when_done' = start_when_done \ {d},
               watcher' = Watcher("insert", watcher.todo, n)
        PROVE  TypeOK' /\ BooksInv'
    <2>1. Started(n, d)
      BY <1>3, <1>4, StartFact
    <2>2. ActiveRunsPersisted'
      BY <1>1, <1>2, <2>1, BirthPersisted DEF RowDeleted
    <2>3. BooksInv'
      BY <1>1, <1>2, <1>3, <1>4, <2>1, <2>2, BirthKeeps DEF RowDeleted
    <2>4. TypeOK'
      BY <1>1, <1>2, <1>3, <1>4, <2>1, BirthTyped DEF TypeOK, RowDeleted
    <2> QED
      BY <2>3, <2>4
  <1>5. CASE watcher' = Watcher("loop", watcher.todo, NoRun) /\ UNCHANGED <<run, start_when_done>>
    <2>1. /\ watcher'.at = "loop" /\ watcher'.todo = watcher.todo /\ watcher'.cur = NoRun
          /\ watcher' \in [at : {"loop"}, todo : SUBSET DOMAIN run, cur : DOMAIN run \cup {NoRun}]
      BY <1>5 DEF Watcher, TypeOK
    <2>2. TypeOK'
      BY <1>1, <1>2, <1>5, <2>1 DEF TypeOK, RowDeleted
    <2>3. Unborn' = Unborn /\ Unborn = starting
      BY <1>1, <2>1 DEF Unborn
    <2>4. WatcherInv' /\ UnbornInv' /\ ActiveRunsPersisted'
      BY <1>1, <1>2, <1>5, <2>1, <2>3 DEF WatcherInv, UnbornInv, ActiveRunsPersisted, BooksInv, is_active, RowDeleted
    <2>5. UnregisteredStaysAway'
      BY <1>1, <1>2, <1>5, <2>1 DEF UnregisteredStaysAway, BooksInv, is_active, RowDeleted
    <2> QED
      BY <2>2, <2>4, <2>5 DEF BooksInv
  <1> QED
    BY <1>4, <1>5 DEF check_deleted

\* The watcher goes on after the insert of a run that waited.
LEMMA CheckInsertedKeeps ==
    ASSUME TypeOK, BooksInv, check_inserted
    PROVE  TypeOK' /\ BooksInv'
  <1>1. /\ watcher.at = "insert" /\ watcher.cur \in DOMAIN run /\ insert(watcher.cur)
        /\ watcher' = Watcher("event", watcher.todo, NoRun)
        /\ UNCHANGED <<known, start_when_done, starting, replacing, removing, triggered, deleting, refused>>
    BY DEF check_inserted, BooksInv, WatcherInv
  <1> QED
    BY <1>1, InsertKeeps, InsertTyped

-----------------------------------------------------------------------------
(* Jobs come and go *)

\* Jobs are deleted and added.
LEMMA DescriptionsKeep ==
    ASSUME TypeOK, BooksInv, NEW d \in Descs, delete_job(d) \/ job_deleted(d) \/ add_job(d)
    PROVE  TypeOK' /\ BooksInv'
  <1>1. UNCHANGED <<run, tasks, db, start_when_done, starting, replacing, watcher, triggered, deleting,
                    refused>>
        /\ known' \subseteq Descs
    BY DEF delete_job, job_deleted, add_job, TypeOK
  <1>2. /\ DOMAIN removing' \subseteq Descs
        /\ removing' \in [DOMAIN removing' -> SUBSET DOMAIN run]
        /\ \A e \in DOMAIN removing' : removing'[e] \subseteq tasks \/ (e \in DOMAIN removing /\ removing'[e] = removing[e])
    <2>1. removing \in [DOMAIN removing -> SUBSET DOMAIN run] /\ tasks \subseteq DOMAIN run
          /\ DOMAIN removing \subseteq Descs
      BY DEF TypeOK
    <2> QED
      BY <2>1 DEF delete_job, job_deleted, add_job
  <1>3. TypeOK'
    BY <1>1, <1>2 DEF TypeOK
  <1>4. UnbornInv'
    BY <1>1, <1>2 DEF UnbornInv, Unborn, BooksInv
  <1>5. WatcherInv' /\ ActiveRunsPersisted' /\ UnregisteredStaysAway'
    BY <1>1 DEF WatcherInv, ActiveRunsPersisted, UnregisteredStaysAway, BooksInv, is_active
  <1> QED
    BY <1>3, <1>4, <1>5 DEF BooksInv

\* A run is unregistered and ended, wherever the watcher is with it.
LEMMA DeleteRunningKeeps ==
    ASSUME TypeOK, BooksInv, NEW d \in Descs, NEW r \in Runs, delete_running_task(d, r)
    PROVE  TypeOK' /\ BooksInv'
  <1>1. /\ d \in DOMAIN removing /\ r \in removing[d] /\ r \in DOMAIN run
        /\ removing' = [removing EXCEPT ![d] = @ \ {r}] /\ tasks' = tasks \ {r}
        /\ deleting' = deleting \cup {r}
        /\ UNCHANGED <<known, db, start_when_done, starting, replacing, watcher, triggered, refused>>
    BY DEF delete_running_task, TypeOK
  <1>2. Moved(r) /\ run'[r].step = End(run[r].desc)
    BY <1>1, DeleteFact DEF delete_running_task
  <1>4. ~is_active(r)'
    BY <1>1, <1>2, EndTyped DEF is_active, Moved, TypeOK, RunRecord
  <1>5. /\ DOMAIN removing' = DOMAIN removing
        /\ removing' \in [DOMAIN removing' -> SUBSET DOMAIN run]
        /\ \A e \in DOMAIN removing : removing'[e] \subseteq removing[e]
    BY <1>1 DEF TypeOK
  <1>6. /\ DOMAIN run' = DOMAIN run
        /\ \A x \in DOMAIN run : x # r => run'[x] = run[x] /\ (is_active(x)' <=> is_active(x))
    BY <1>2 DEF Moved, is_active
  <1>7. TypeOK'
    BY <1>1, <1>2, <1>5 DEF TypeOK, Moved
  <1>8. Unborn' = Unborn /\ r \notin Unborn /\ Unborn \subseteq DOMAIN run
    BY <1>1 DEF Unborn, UnbornInv, BooksInv, WatcherInv, TypeOK
  <1>9. WatcherInv'
    BY <1>1, <1>4, <1>6 DEF WatcherInv, BooksInv, TypeOK
  <1>10. UnbornInv'
    BY <1>1, <1>5, <1>6, <1>8 DEF UnbornInv, BooksInv
  <1>11. ActiveRunsPersisted'
    BY <1>1, <1>6 DEF ActiveRunsPersisted, BooksInv, TypeOK
  <1>12. UnregisteredStaysAway'
    BY <1>1, <1>4, <1>6 DEF UnregisteredStaysAway, BooksInv
  <1> QED
    BY <1>7, <1>9, <1>10, <1>11, <1>12 DEF BooksInv

\* The delete of its row is over, with or without success.
LEMMA RowDeletedKeeps ==
    ASSUME TypeOK, BooksInv, NEW r \in Runs, row_deleted(r)
    PROVE  TypeOK' /\ BooksInv'
  <1>1. /\ r \in deleting /\ r \in DOMAIN run /\ deleting' = deleting \ {r}
        /\ UNCHANGED <<known, run, tasks, start_when_done, starting, replacing, removing, watcher, triggered>>
    BY DEF row_deleted, TypeOK
  <1>2. RowDeleted(r)
    BY <1>1, DeleteRow DEF row_deleted
  <1>3. TypeOK'
    BY <1>1, <1>2 DEF TypeOK, RowDeleted
  <1>4. WatcherInv' /\ UnbornInv'
    BY <1>1, <1>2 DEF WatcherInv, UnbornInv, Unborn, BooksInv, is_active, RowDeleted
  <1>5. ActiveRunsPersisted'
    BY <1>1, <1>2 DEF ActiveRunsPersisted, BooksInv, is_active, RowDeleted, WatcherInv
  <1>6. UnregisteredStaysAway'
    BY <1>1, <1>2 DEF UnregisteredStaysAway, BooksInv, is_active, RowDeleted
  <1> QED
    BY <1>3, <1>4, <1>5, <1>6 DEF BooksInv

-----------------------------------------------------------------------------
(* Crash and restart *)

\* What a restart makes of the runs.
LEMMA RestartFact ==
    ASSUME TypeOK, start_interrupted_tasks
    PROVE  /\ DOMAIN run' = DOMAIN run /\ run' \in [DOMAIN run -> RunRecord]
           /\ \A r \in DOMAIN run : run'[r].desc = run[r].desc
           /\ tasks' \subseteq DOMAIN db /\ DOMAIN db' = tasks' /\ db' \in [DOMAIN db' -> Nat \ {0}]
           /\ \A r \in tasks' : db'[r] <= run'[r].step
           /\ \A r \in DOMAIN run \ tasks' : run'[r].step = End(run[r].desc)
  <1> DEFINE restored == {r \in DOMAIN db : run[r].desc \in known}
             forgotten(r) == [run[r] EXCEPT !.step = End(run[r].desc), !.update_task = "none",
                                            !.alive = FALSE]
             again(r, n) == [desc |-> run[r].desc, step |-> n, alive |-> TRUE, late |-> FALSE,
                             update_task |-> IF Kind[run[r].desc] = "job" THEN "running" ELSE "none"]
  <1>1. PICK step \in [restored -> UNION {restored_steps(r) : r \in restored}] :
             /\ \A r \in restored : step[r] \in restored_steps(r)
             /\ run' = [r \in DOMAIN run |-> IF r \notin restored THEN forgotten(r)
                                             ELSE again(r, step[r])]
    BY DEF start_interrupted_tasks
  <1>2. tasks' = restored /\ db' = [r \in restored |-> db[r]] /\ restored \subseteq DOMAIN run
    BY DEF start_interrupted_tasks, TypeOK
  <1>3. ASSUME NEW r \in DOMAIN run
        PROVE  run[r] \in RunRecord /\ run[r].desc \in Descs /\ End(run[r].desc) \in Nat \ {0}
    <2>1. run[r] \in RunRecord /\ run[r].desc \in Descs
      BY DEF TypeOK, RunRecord
    <2> QED
      BY <2>1, EndTyped
  <1>4. ASSUME NEW r \in restored
        PROVE  step[r] \in Nat \ {0} /\ db[r] \in Nat \ {0} /\ db[r] <= step[r]
    <2>1. db[r] \in Nat \ {0} /\ step[r] \in restored_steps(r) /\ r \in DOMAIN run
      BY <1>1, <1>2 DEF TypeOK
    <2>2. End(run[r].desc) \in Nat
      BY <1>3, <2>1
    <2> QED
      BY <2>1, <2>2 DEF restored_steps
  <1>5. ASSUME NEW r \in DOMAIN run \ restored
        PROVE  run'[r] \in RunRecord /\ run'[r].desc = run[r].desc /\ run'[r].step = End(run[r].desc)
    <2>1. run'[r] = forgotten(r)
      BY <1>1
    <2>2. forgotten(r) \in RunRecord
      BY <1>3 DEF RunRecord
    <2>3. forgotten(r).desc = run[r].desc /\ forgotten(r).step = End(run[r].desc)
      BY <1>3 DEF RunRecord
    <2> HIDE DEF forgotten
    <2> QED
      BY <2>1, <2>2, <2>3
  <1>6. ASSUME NEW r \in restored
        PROVE  run'[r] \in RunRecord /\ run'[r].desc = run[r].desc /\ run'[r].step = step[r]
    <2>1. run'[r] = again(r, step[r]) /\ r \in DOMAIN run
      BY <1>1, <1>2
    <2>2. again(r, step[r]) \in RunRecord
      BY <1>3, <1>4, <2>1 DEF RunRecord
    <2> QED
      BY <2>1, <2>2
  <1>7. DOMAIN run' = DOMAIN run /\ run' \in [DOMAIN run -> RunRecord]
    BY <1>1, <1>5, <1>6
  <1> HIDE DEF restored
  <1> QED
    BY <1>2, <1>4, <1>5, <1>6, <1>7, restored \subseteq DOMAIN db DEF restored

\* A crash and the restart after it.
LEMMA RestartKeeps ==
    ASSUME TypeOK, BooksInv, start_interrupted_tasks
    PROVE  TypeOK' /\ BooksInv'
  <1>1. /\ start_when_done' = {} /\ starting' = {} /\ replacing' = {} /\ watcher' = Idle
        /\ removing' = [d \in {} |-> {}] /\ deleting' = {} /\ refused' = {}
        /\ UNCHANGED <<known, triggered>>
    BY DEF start_interrupted_tasks
  <1>2. /\ watcher'.at = "idle" /\ watcher'.todo = {} /\ watcher'.cur = NoRun
        /\ watcher' \in [at : {"idle"}, todo : SUBSET DOMAIN run, cur : DOMAIN run \cup {NoRun}]
    BY <1>1 DEF Idle, Watcher
  <1>3. TypeOK'
    BY <1>1, <1>2, RestartFact DEF TypeOK
  <1>4. Unborn' = {}
    BY <1>1, <1>2 DEF Unborn
  <1>5. WatcherInv' /\ UnbornInv' /\ ActiveRunsPersisted'
    BY <1>1, <1>2, <1>4, RestartFact DEF WatcherInv, UnbornInv, ActiveRunsPersisted
  <1>6. UnregisteredStaysAway'
    <2> SUFFICES ASSUME NEW r \in DOMAIN run', r \notin tasks'
                 PROVE  ~is_active(r)' /\ r \notin DOMAIN db'
      BY DEF UnregisteredStaysAway
    <2>1. r \in DOMAIN run /\ run[r].desc \in Descs /\ run'[r].desc = run[r].desc
          /\ run'[r].step = End(run[r].desc)
      BY RestartFact DEF TypeOK, RunRecord
    <2> QED
      BY <2>1, RestartFact, EndTyped DEF is_active
  <1> QED
    BY <1>3, <1>5, <1>6 DEF BooksInv

\* Every step keeps the types and the books.
LEMMA BooksConsecution ==
    ASSUME TypeOK, BooksInv, [Next]_vars
    PROVE  TypeOK' /\ BooksInv'
  <1>1. CASE UNCHANGED vars
    BY <1>1 DEF vars, TypeOK, BooksInv, WatcherInv, UnbornInv, Unborn, ActiveRunsPersisted,
       UnregisteredStaysAway, is_active
  <1> QED
    BY <1>1, StartTaskKeeps, DescriptionsKeep, ReplacedKeeps, InsertedKeeps, RunStepsKeep,
       DeleteRunningKeeps, RowDeletedKeeps, LoopsKeep, VisitKeeps, StoredKeeps, UpdateTaskKeeps, DeletedKeeps,
       CheckInsertedKeeps, RestartKeeps DEF Next, WatcherStep

-----------------------------------------------------------------------------
(* Runs and their triggers *)

\* How much a set can grow or shrink by one element.
LEMMA Counting ==
    ASSUME NEW S, NEW T, IsFiniteSet(S)
    PROVE  /\ Cardinality(S) \in Nat
           /\ T \subseteq S => Cardinality(T) \in Nat /\ Cardinality(T) <= Cardinality(S)
           /\ \A n : T \subseteq S \cup {n} => Cardinality(T) \in Nat /\ Cardinality(T) <= Cardinality(S) + 1
           /\ \A n \in S : T \subseteq S \ {n} => Cardinality(T) \in Nat /\ Cardinality(T) <= Cardinality(S) - 1
  <1>1. Cardinality(S) \in Nat
    BY FS_CardinalityType
  <1>2. ASSUME T \subseteq S
        PROVE  Cardinality(T) \in Nat /\ Cardinality(T) <= Cardinality(S)
    BY <1>2, FS_Subset, FS_CardinalityType
  <1>3. ASSUME NEW n, T \subseteq S \cup {n}
        PROVE  Cardinality(T) \in Nat /\ Cardinality(T) <= Cardinality(S) + 1
    <2>1. /\ IsFiniteSet(S \cup {n}) /\ Cardinality(S \cup {n}) \in Nat
          /\ Cardinality(S \cup {n}) <= Cardinality(S) + 1
      BY <1>1, FS_AddElement
    <2>2. IsFiniteSet(T) /\ Cardinality(T) <= Cardinality(S \cup {n})
      BY <1>3, <2>1, FS_Subset
    <2> QED
      BY <1>1, <2>1, <2>2, FS_CardinalityType
  <1>4. ASSUME NEW n \in S, T \subseteq S \ {n}
        PROVE  Cardinality(T) \in Nat /\ Cardinality(T) <= Cardinality(S) - 1
    <2>1. IsFiniteSet(S \ {n}) /\ Cardinality(S \ {n}) = Cardinality(S) - 1
      BY FS_RemoveElement
    <2>2. IsFiniteSet(T) /\ Cardinality(T) <= Cardinality(S \ {n})
      BY <1>4, <2>1, FS_Subset
    <2> QED
      BY <1>1, <2>1, <2>2, FS_CardinalityType
  <1> QED
    BY <1>1, <1>2, <1>3, <1>4

\* Runs, queued invocation and pending replacements of one description, before (R, W, P)
\* and after (Rn, Wn, Pn) a step: each addition is paid for.
LEMMA Sums ==
    ASSUME NEW R, NEW Rn, NEW W, NEW Wn, NEW P, NEW Pn, NEW t \in Nat, NEW tn,
           IsFiniteSet(R), IsFiniteSet(W), IsFiniteSet(P),
           Cardinality(R) + Cardinality(W) + Cardinality(P) <= t,
           \/ Rn \subseteq R /\ Wn \subseteq W /\ Pn \subseteq P /\ tn = t
           \/ Rn \subseteq R /\ (\E n : Wn \subseteq W \cup {n}) /\ Pn \subseteq P /\ tn = t + 1
           \/ Rn \subseteq R /\ Wn \subseteq W /\ (\E n : Pn \subseteq P \cup {n}) /\ tn = t + 1
    PROVE  Cardinality(Rn) + Cardinality(Wn) + Cardinality(Pn) <= tn
  <1>0. Cardinality(R) \in Nat /\ Cardinality(W) \in Nat /\ Cardinality(P) \in Nat
    BY FS_CardinalityType
  <1>1. CASE Rn \subseteq R /\ Wn \subseteq W /\ Pn \subseteq P /\ tn = t
    <2>1. Cardinality(Rn) \in Nat /\ Cardinality(Rn) <= Cardinality(R)
      BY <1>1, Counting
    <2>2. Cardinality(Wn) \in Nat /\ Cardinality(Wn) <= Cardinality(W)
      BY <1>1, Counting
    <2>3. Cardinality(Pn) \in Nat /\ Cardinality(Pn) <= Cardinality(P)
      BY <1>1, Counting
    <2> QED
      BY <1>0, <1>1, <2>1, <2>2, <2>3
  <1>3. CASE Rn \subseteq R /\ (\E n : Wn \subseteq W \cup {n}) /\ Pn \subseteq P /\ tn = t + 1
    <2>1. Cardinality(Rn) \in Nat /\ Cardinality(Rn) <= Cardinality(R)
      BY <1>3, Counting
    <2>2. Cardinality(Wn) \in Nat /\ Cardinality(Wn) <= Cardinality(W) + 1
      BY <1>3, Counting
    <2>3. Cardinality(Pn) \in Nat /\ Cardinality(Pn) <= Cardinality(P)
      BY <1>3, Counting
    <2> QED
      BY <1>0, <1>3, <2>1, <2>2, <2>3
  <1>4. CASE Rn \subseteq R /\ Wn \subseteq W /\ (\E n : Pn \subseteq P \cup {n}) /\ tn = t + 1
    <2>1. Cardinality(Rn) \in Nat /\ Cardinality(Rn) <= Cardinality(R)
      BY <1>4, Counting
    <2>2. Cardinality(Wn) \in Nat /\ Cardinality(Wn) <= Cardinality(W)
      BY <1>4, Counting
    <2>3. Cardinality(Pn) \in Nat /\ Cardinality(Pn) <= Cardinality(P) + 1
      BY <1>4, Counting
    <2> QED
      BY <1>0, <1>4, <2>1, <2>2, <2>3
  <1> QED
    BY <1>1, <1>3, <1>4

\* The sum of a description is one of finite sets.
LEMMA Budget ==
    ASSUME TypeOK, TriggerInv, NEW d \in Descs
    PROVE  /\ IsFiniteSet(RunsOf(d)) /\ IsFiniteSet(start_when_done \cap {d})
           /\ IsFiniteSet(replacing \cap RunsOf(d))
           /\ Cardinality(RunsOf(d)) + Cardinality(start_when_done \cap {d})
                + Cardinality(replacing \cap RunsOf(d)) <= triggered[d]
           /\ triggered[d] \in Nat
  <1>1. IsFiniteSet(RunsOf(d))
    BY FS_Subset DEF TriggerInv, RunsOf
  <1>2. IsFiniteSet(replacing \cap RunsOf(d))
    BY <1>1, FS_Subset
  <1>3. IsFiniteSet({d}) /\ start_when_done \cap {d} \in SUBSET {d}
    BY FS_Singleton
  <1>4. IsFiniteSet(start_when_done \cap {d})
    BY <1>3, FS_Subset
  <1> QED
    BY <1>1, <1>2, <1>4 DEF TriggerInv, RunsHaveTriggers, TypeOK

\* A step that starts no run, queues nothing and ends nothing for a replacement.
LEMMA QuietTriggers ==
    ASSUME TypeOK, TriggerInv, DOMAIN run' = DOMAIN run,
           \A r \in DOMAIN run : run'[r].desc = run[r].desc,
           start_when_done' \subseteq start_when_done, replacing' \subseteq replacing,
           UNCHANGED triggered
    PROVE  TriggerInv'
  <1> SUFFICES ASSUME NEW d \in Descs
               PROVE  Cardinality(RunsOf(d)') + Cardinality(start_when_done' \cap {d})
                        + Cardinality(replacing' \cap RunsOf(d)') <= triggered[d]
    BY DEF TriggerInv, RunsHaveTriggers
  <1>1. /\ RunsOf(d)' \subseteq RunsOf(d)
        /\ start_when_done' \cap {d} \subseteq start_when_done \cap {d}
        /\ replacing' \cap RunsOf(d)' \subseteq replacing \cap RunsOf(d)
    BY DEF RunsOf
  <1>2. /\ IsFiniteSet(RunsOf(d)) /\ IsFiniteSet(start_when_done \cap {d})
        /\ IsFiniteSet(replacing \cap RunsOf(d))
        /\ Cardinality(RunsOf(d)) + Cardinality(start_when_done \cap {d})
             + Cardinality(replacing \cap RunsOf(d)) <= triggered[d]
        /\ triggered[d] \in Nat
    BY Budget
  <1> QED
    BY <1>1, <1>2, Sums

\* A run is started: for a trigger, for the invocation that waited or for the run it replaces.
LEMMA BirthTriggers ==
    ASSUME TypeOK, TriggerInv, NEW e \in Descs, NEW n, Started(n, e),
           start_when_done' \subseteq start_when_done, replacing' \subseteq replacing,
           \/ triggered' = [triggered EXCEPT ![e] = @ + 1]
           \/ UNCHANGED triggered /\ e \in start_when_done /\ e \notin start_when_done'
           \/ UNCHANGED triggered /\ \E r \in replacing : run[r].desc = e /\ r \notin replacing'
    PROVE  TriggerInv'
  <1>1. IsFiniteSet(DOMAIN run')
    BY FS_AddElement DEF TriggerInv, Started
  <1> SUFFICES ASSUME NEW d \in Descs
               PROVE  Cardinality(RunsOf(d)') + Cardinality(start_when_done' \cap {d})
                        + Cardinality(replacing' \cap RunsOf(d)') <= triggered'[d]
    BY <1>1 DEF TriggerInv, RunsHaveTriggers
  <1> DEFINE R  == RunsOf(d)               Rn == RunsOf(d)'
             W  == start_when_done \cap {d}  Wn == start_when_done' \cap {d}
             P  == replacing \cap R          Pn == replacing' \cap Rn
  <1>2. /\ IsFiniteSet(R) /\ IsFiniteSet(W) /\ IsFiniteSet(P)
        /\ Cardinality(R) + Cardinality(W) + Cardinality(P) <= triggered[d]
        /\ triggered[d] \in Nat
    BY Budget
  <1>3. /\ Rn \subseteq R \cup {n} /\ Wn \subseteq W /\ Pn \subseteq P
        /\ d # e => Rn \subseteq R
    BY DEF RunsOf, Started, TypeOK
  <1>4. /\ d = e /\ e \in start_when_done /\ e \notin start_when_done' => d \in W /\ Wn \subseteq W \ {d}
        /\ \A r \in replacing : d = e /\ run[r].desc = e /\ r \notin replacing' => r \in P /\ Pn \subseteq P \ {r}
    BY <1>3 DEF RunsOf, TypeOK
  <1> HIDE DEF R, Rn, W, Wn, P, Pn
  <1>5. /\ Cardinality(Rn) \in Nat /\ Cardinality(Rn) <= Cardinality(R) + 1
        /\ d # e => Cardinality(Rn) <= Cardinality(R)
    BY <1>2, <1>3, Counting
  <1>6. /\ Cardinality(Wn) \in Nat /\ Cardinality(Wn) <= Cardinality(W)
        /\ d = e /\ e \in start_when_done /\ e \notin start_when_done' =>
             Cardinality(Wn) <= Cardinality(W) - 1
    BY <1>2, <1>3, <1>4, Counting
  <1>7. /\ Cardinality(Pn) \in Nat /\ Cardinality(Pn) <= Cardinality(P)
        /\ d = e /\ (\E r \in replacing : run[r].desc = e /\ r \notin replacing') =>
             Cardinality(Pn) <= Cardinality(P) - 1
    BY <1>2, <1>3, <1>4, Counting
  <1>8. Cardinality(R) \in Nat /\ Cardinality(W) \in Nat /\ Cardinality(P) \in Nat
    BY <1>2, FS_CardinalityType
  <1>9. /\ triggered'[d] = triggered[d] \/ triggered'[d] = triggered[d] + 1
        /\ d = e => \/ triggered'[d] = triggered[d] + 1
                    \/ e \in start_when_done /\ e \notin start_when_done'
                    \/ \E r \in replacing : run[r].desc = e /\ r \notin replacing'
    BY DEF TypeOK
  <1>10. Cardinality(Rn) + Cardinality(Wn) + Cardinality(Pn) <= triggered'[d]
    BY <1>2, <1>5, <1>6, <1>7, <1>8, <1>9
  <1> QED
    BY <1>10 DEF R, Rn, W, Wn, P, Pn

\* A trigger that queues an invocation, or ends a run that is to be replaced.
LEMMA TriggerCounted ==
    ASSUME TypeOK, TriggerInv, NEW e \in Descs, DOMAIN run' = DOMAIN run,
           \A r \in DOMAIN run : run'[r].desc = run[r].desc,
           triggered' = [triggered EXCEPT ![e] = @ + 1],
           \/ start_when_done' = start_when_done \cup {e} /\ UNCHANGED replacing
           \/ /\ UNCHANGED start_when_done
              /\ \E r \in RunsOf(e) : replacing' = replacing \cup {r}
           \/ UNCHANGED <<start_when_done, replacing>>
    PROVE  TriggerInv'
  <1> SUFFICES ASSUME NEW d \in Descs
               PROVE  Cardinality(RunsOf(d)') + Cardinality(start_when_done' \cap {d})
                        + Cardinality(replacing' \cap RunsOf(d)') <= triggered'[d]
    BY DEF TriggerInv, RunsHaveTriggers
  <1>1. RunsOf(d)' \subseteq RunsOf(d)
    BY DEF RunsOf
  <1>2. /\ IsFiniteSet(RunsOf(d)) /\ IsFiniteSet(start_when_done \cap {d})
        /\ IsFiniteSet(replacing \cap RunsOf(d))
        /\ Cardinality(RunsOf(d)) + Cardinality(start_when_done \cap {d})
             + Cardinality(replacing \cap RunsOf(d)) <= triggered[d]
        /\ triggered[d] \in Nat
    BY Budget
  <1>3. CASE d # e
    <2>1. triggered'[d] = triggered[d]
      BY <1>3 DEF TypeOK
    <2>2. /\ start_when_done' \cap {d} \subseteq start_when_done \cap {d}
          /\ replacing' \cap RunsOf(d)' \subseteq replacing \cap RunsOf(d)
      BY <1>3 DEF RunsOf
    <2> QED
      BY <1>1, <1>2, <2>1, <2>2, Sums
  <1>4. CASE d = e /\ UNCHANGED replacing
    <2>1. triggered'[d] = triggered[d] + 1
      BY <1>4 DEF TypeOK
    <2>2. /\ \E x : start_when_done' \cap {d} \subseteq (start_when_done \cap {d}) \cup {x}
          /\ replacing' \cap RunsOf(d)' \subseteq replacing \cap RunsOf(d)
      BY <1>1, <1>4
    <2> QED
      BY <1>1, <1>2, <2>1, <2>2, Sums
  <1>5. CASE d = e /\ UNCHANGED start_when_done /\ \E r \in RunsOf(e) : replacing' = replacing \cup {r}
    <2>1. triggered'[d] = triggered[d] + 1
      BY <1>5 DEF TypeOK
    <2>2. \E r : replacing' \cap RunsOf(d)' \subseteq (replacing \cap RunsOf(d)) \cup {r}
      BY <1>1, <1>5
    <2>3. start_when_done' \cap {d} \subseteq start_when_done \cap {d}
      BY <1>5
    <2> QED
      BY <1>1, <1>2, <2>1, <2>2, <2>3, Sums
  <1> QED
    BY <1>3, <1>4, <1>5

\* start_task spends its trigger on a run, on the queue or on a replacement, or drops it.
LEMMA StartTaskTriggers ==
    ASSUME TypeOK, TriggerInv, NEW d \in Descs, start_task(d)
    PROVE  TriggerInv'
  <1>1. triggered' = [triggered EXCEPT ![d] = @ + 1]
    BY DEF start_task
  <1>2. CASE /\ \E r \in Fresh : start_task_directly(d, r)
             /\ UNCHANGED <<start_when_done, replacing>>
    <2>1. PICK n \in Fresh : Started(n, d)
      BY <1>2, StartFact
    <2> QED
      BY <1>1, <1>2, <2>1, BirthTriggers
  <1>3. CASE /\ UNCHANGED <<run, replacing>>
             /\ start_when_done' = start_when_done \cup {d} \/ UNCHANGED start_when_done
    BY <1>1, <1>3, TriggerCounted
  <1>4. CASE /\ \E r \in existing(d) : /\ run' = [run EXCEPT ![r].step = End(d)]
                                       /\ replacing' = replacing \cup {r}
             /\ UNCHANGED start_when_done
    <2>1. PICK r \in existing(d) : /\ run' = [run EXCEPT ![r].step = End(d)]
                                   /\ replacing' = replacing \cup {r}
      BY <1>4
    <2>2. r \in DOMAIN run /\ run[r].desc = d /\ r \in RunsOf(d)
      BY DEF existing, RunsOf
    <2>3. Moved(r)
      BY <2>1, <2>2, EndFact
    <2> QED
      BY <1>1, <1>4, <2>1, <2>2, <2>3, TriggerCounted DEF Moved
  <1> QED
    BY <1>2, <1>3, <1>4 DEF start_task

\* Replace and the watcher start runs that were paid for when they were triggered.
LEMMA LaterTriggers ==
    ASSUME TypeOK, BooksInv, TriggerInv, (\E r \in Runs : replaced(r)) \/ check_deleted
    PROVE  TriggerInv'
  <1>1. CASE \E r \in Runs : replaced(r)
    <2>1. PICK r \in Runs : replaced(r)
      BY <1>1
    <2>2. r \in replacing /\ run[r].desc \in Descs
      BY <2>1 DEF replaced, TypeOK, RunRecord
    <2>3. PICK n \in Fresh : Started(n, run[r].desc)
      BY <2>1, <2>2, StartFact DEF replaced
    <2>4. /\ replacing' = replacing \ {r} /\ UNCHANGED <<start_when_done, triggered>>
      BY <2>1 DEF replaced
    <2> QED
      BY <2>2, <2>3, <2>4, BirthTriggers
  <1>2. CASE check_deleted
    <2>1. watcher.cur \in DOMAIN run /\ run[watcher.cur].desc \in Descs
      BY <1>2 DEF check_deleted, BooksInv, WatcherInv, TypeOK, RunRecord
    <2>2. UNCHANGED <<replacing, triggered>>
      BY <1>2 DEF check_deleted
    <2>3. CASE UNCHANGED <<run, start_when_done>>
      BY <2>2, <2>3, QuietTriggers
    <2>4. CASE /\ run[watcher.cur].desc \in start_when_done
               /\ start_when_done' = start_when_done \ {run[watcher.cur].desc}
               /\ \E n \in Fresh : start_task_directly(run[watcher.cur].desc, n)
      <3>1. PICK n \in Fresh : Started(n, run[watcher.cur].desc)
        BY <2>1, <2>4, StartFact
      <3> QED
        BY <2>1, <2>2, <2>4, <3>1, BirthTriggers
    <2> QED
      BY <1>2, <2>3, <2>4 DEF check_deleted
  <1> QED
    BY <1>1, <1>2

\* No other step starts a run, queues an invocation or asks for a replacement.
LEMMA OtherTriggers ==
    ASSUME TypeOK, BooksInv, TriggerInv,
           \/ \E d \in Descs : delete_job(d) \/ job_deleted(d) \/ add_job(d)
           \/ \E r \in Runs : \/ inserted(r) \/ execute_task_commands(r) \/ command_fails(r)
                              \/ handle_action_result(r) \/ Overdue(r) \/ check_visit(r)
           \/ \E d \in Descs, r \in Runs : delete_running_task(d, r)
           \/ \E r \in Runs : row_deleted(r)
           \/ check_overdue_tasks \/ check_stored \/ check_update_task
           \/ check_inserted \/ check_started \/ check_done \/ start_interrupted_tasks
    PROVE  TriggerInv'
  <1>1. CASE \E r \in Runs : Moved(r)
    <2>1. DOMAIN run' = DOMAIN run /\ \A r \in DOMAIN run : run'[r].desc = run[r].desc
      BY <1>1 DEF Moved
    <2>2. /\ start_when_done' \subseteq start_when_done /\ replacing' \subseteq replacing
          /\ UNCHANGED triggered
      BY DEF delete_job, job_deleted, add_job, inserted, execute_task_commands, command_fails,
         handle_action_result, Overdue, check_visit, delete_running_task, row_deleted, check_overdue_tasks,
         check_stored, check_update_task, check_inserted, check_started, check_done,
         start_interrupted_tasks
    <2> QED
      BY <2>1, <2>2, QuietTriggers
  <1>2. CASE UNCHANGED run
    <2>1. /\ start_when_done' \subseteq start_when_done /\ replacing' \subseteq replacing
          /\ UNCHANGED triggered
      BY DEF delete_job, job_deleted, add_job, inserted, execute_task_commands, command_fails,
         handle_action_result, Overdue, check_visit, delete_running_task, row_deleted, check_overdue_tasks,
         check_stored, check_update_task, check_inserted, check_started, check_done,
         start_interrupted_tasks
    <2> QED
      BY <1>2, <2>1, QuietTriggers
  <1>3. CASE start_interrupted_tasks
    <2>1. start_when_done' = {} /\ replacing' = {} /\ UNCHANGED triggered
      BY <1>3 DEF start_interrupted_tasks
    <2> QED
      BY <1>3, <2>1, RestartFact, QuietTriggers
  <1>4. ASSUME NEW r \in Runs,
               inserted(r) \/ execute_task_commands(r) \/ command_fails(r)
                 \/ handle_action_result(r) \/ Overdue(r)
        PROVE  Moved(r)
    <2>1. r \in DOMAIN run
      BY <1>4 DEF inserted, execute_task_commands, command_fails, handle_action_result, Overdue,
         TypeOK
    <2>2. \/ advance(r)
          \/ \E u \in {"none", "running", "done", "failed", "cancelled"} :
               run' = [run EXCEPT ![r].update_task = u]
          \/ run' = [run EXCEPT ![r].late = TRUE]
      BY <1>4 DEF inserted, insert, execute_task_commands, command_fails, handle_action_result,
         Overdue
    <2> QED
      BY <2>1, <2>2, AdvanceFact, UpdateTaskFact, LateFact
  <1>5. ASSUME NEW r \in Runs, check_visit(r)
        PROVE  UNCHANGED run \/ Moved(r)
    <2>1. r \in DOMAIN run
      BY <1>5 DEF check_visit, TypeOK
    <2>2. UNCHANGED run \/ advance(r) \/ run' = [run EXCEPT ![r].step = End(run[r].desc)]
      BY <1>5 DEF check_visit
    <2> QED
      BY <2>1, <2>2, AdvanceFact, EndFact
  <1>6. ASSUME NEW d \in Descs, NEW r \in Runs, delete_running_task(d, r)
        PROVE  Moved(r)
    BY <1>6, DeleteFact DEF delete_running_task, TypeOK
  <1>7. ASSUME check_update_task \/ check_inserted
        PROVE  UNCHANGED run \/ \E r \in Runs : Moved(r)
    <2>1. watcher.cur \in DOMAIN run /\ watcher.cur \in Runs
      BY <1>7 DEF check_update_task, check_inserted, BooksInv, WatcherInv, TypeOK
    <2>2. \/ UNCHANGED run
          \/ run' = [run EXCEPT ![watcher.cur].alive = FALSE]
          \/ run' = [run EXCEPT ![watcher.cur].update_task = "running"]
      BY <1>7 DEF check_update_task, check_inserted, insert
    <2> QED
      BY <2>1, <2>2, AliveFact, UpdateTaskFact
  <1>8. ASSUME \/ \E d \in Descs : delete_job(d) \/ job_deleted(d) \/ add_job(d)
               \/ \E r \in Runs : row_deleted(r)
               \/ check_overdue_tasks \/ check_stored \/ check_started \/ check_done
        PROVE  UNCHANGED run
    BY <1>8 DEF delete_job, job_deleted, add_job, row_deleted, check_overdue_tasks, check_stored,
       check_started, check_done
  <1> QED
    BY <1>1, <1>2, <1>3, <1>4, <1>5, <1>6, <1>7, <1>8

\* Every step keeps the sums.
LEMMA TriggerConsecution ==
    ASSUME TypeOK, BooksInv, TriggerInv, [Next]_vars
    PROVE  TriggerInv'
  <1>1. CASE UNCHANGED vars
    BY <1>1, QuietTriggers DEF vars
  <1> QED
    BY <1>1, StartTaskTriggers, LaterTriggers, OtherTriggers DEF Next, WatcherStep

-----------------------------------------------------------------------------
(* The theorems *)

\* The invariant holds in every state, whatever the descriptions, the number of runs and
\* the faults.
THEOREM HandlerInvariant == Spec => []HandlerInv
  <1>1. Init => HandlerInv
    <2> SUFFICES ASSUME Init PROVE HandlerInv
      OBVIOUS
    <2>1. /\ run = [r \in {} |-> 0] /\ DOMAIN run = {} /\ db = [r \in {} |-> 0] /\ DOMAIN db = {}
          /\ DOMAIN removing = {} /\ removing = [d \in {} |-> {}]
          /\ watcher.at = "idle" /\ watcher.todo = {} /\ watcher.cur = NoRun
          /\ watcher = [at |-> "idle", todo |-> {}, cur |-> NoRun]
      BY DEF Init, Idle, Watcher
    <2>2. TypeOK
      BY <2>1 DEF Init, TypeOK
    <2>3. BooksInv
      BY <2>1 DEF Init, BooksInv, WatcherInv, UnbornInv, Unborn, ActiveRunsPersisted,
         UnregisteredStaysAway
    <2>4. TriggerInv
      <3>1. IsFiniteSet({}) /\ Cardinality({}) = 0
        BY FS_EmptySet
      <3>2. ASSUME NEW d \in Descs
            PROVE  Cardinality(RunsOf(d)) + Cardinality(start_when_done \cap {d})
                     + Cardinality(replacing \cap RunsOf(d)) <= triggered[d]
        <4>1. /\ RunsOf(d) = {} /\ start_when_done \cap {d} = {} /\ replacing \cap RunsOf(d) = {}
              /\ triggered[d] = 0
          BY <2>1 DEF Init, RunsOf
        <4> QED
          BY <3>1, <4>1
      <3> QED
        BY <2>1, <3>1, <3>2 DEF TriggerInv, RunsHaveTriggers
    <2> QED
      BY <2>2, <2>3, <2>4 DEF HandlerInv
  <1>2. HandlerInv /\ [Next]_vars => HandlerInv'
    BY BooksConsecution, TriggerConsecution DEF HandlerInv
  <1> QED
    BY <1>1, <1>2, PTL DEF Spec

\* A registered run that is active can be restored after a crash: ActiveRunsPersisted
\* holds in every state.
THEOREM ActiveRunsAreRestorable == Spec => []ActiveRunsPersisted
  <1>1. HandlerInv => ActiveRunsPersisted
    BY DEF HandlerInv, BooksInv
  <1> QED
    BY <1>1, HandlerInvariant, PTL

\* A run that the watcher or delete_job has removed does not go on, and nothing but a row
\* whose delete is pending or was refused can bring it back after a restart:
\* UnregisteredStaysAway holds in every state.
THEOREM UnregisteredRunsStayAway == Spec => []UnregisteredStaysAway
  <1>1. HandlerInv => UnregisteredStaysAway
    BY DEF HandlerInv, BooksInv
  <1> QED
    BY <1>1, HandlerInvariant, PTL

\* There are never more runs, queued invocations and pending replacements of a task than
\* it was triggered: RunsHaveTriggers holds in every state.
THEOREM RunsAreTriggered == Spec => []RunsHaveTriggers
  <1>1. HandlerInv => RunsHaveTriggers
    BY DEF HandlerInv, TriggerInv
  <1> QED
    BY <1>1, HandlerInvariant, PTL
=============================================================================
