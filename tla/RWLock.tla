------------------------------- MODULE RWLock -------------------------------
(***************************************************************************)
(* The reader-writer lock of resotolib, built from three locks and two     *)
(* "light switches": counters whose first user takes a lock and whose last *)
(* user returns it.  Writers have priority: the first of them takes        *)
(* no_readers, which every new reader needs to pass.                       *)
(*                                                                         *)
(* One step takes or returns one lock.  at[t] is the line a thread is at;  *)
(* "reading" and "writing" are the code under the lock.                    *)
(***************************************************************************)
EXTENDS Naturals, FiniteSets

CONSTANT Threads

VARIABLES
    held,      \* the locks that are taken
    readers,   \* counter of the read switch
    writers,   \* counter of the write switch
    at         \* at[t]: where thread t is

lockVars == <<held, readers, writers, at>>

Locks == {"readers_queue", "no_readers", "no_writers", "read_mutex", "write_mutex"}

Lines ==
    {"out",
     "queue", "pass_no_readers", "read_switch", "first_reader", "switched", "passed", "unqueue",
     "reading", "unread_switch", "unread",
     "write_switch", "first_writer", "write_switched", "enter_writing",
     "writing", "unwrite_switch", "unwrite"}

LockInit ==
    /\ held = {}
    /\ readers = 0 /\ writers = 0
    /\ at = [t \in Threads |-> "out"]

Take(t, from, lock, to) ==
    /\ at[t] = from
    /\ lock \notin held
    /\ held' = held \cup {lock}
    /\ at' = [at EXCEPT ![t] = to]

Return(t, from, lock, to) ==
    /\ at[t] = from
    /\ held' = held \ {lock}
    /\ at' = [at EXCEPT ![t] = to]

-----------------------------------------------------------------------------
(* Readers *)

\* Mutation: readers do not have to pass no_readers.
AcquireUnqueued(t) ==
    \/ Take(t, "queue", "readers_queue", "read_switch") /\ UNCHANGED <<readers, writers>>
    \/ /\ Take(t, "read_switch", "read_mutex", IF readers = 0 THEN "first_reader" ELSE "switched")
       /\ readers' = readers + 1 /\ UNCHANGED writers
    \/ Take(t, "first_reader", "no_writers", "switched") /\ UNCHANGED <<readers, writers>>
    \/ Return(t, "switched", "read_mutex", "unqueue") /\ UNCHANGED <<readers, writers>>
    \/ Return(t, "unqueue", "readers_queue", "reading") /\ UNCHANGED <<readers, writers>>

reader_acquire(t) ==
    \/ Take(t, "queue", "readers_queue", "pass_no_readers") /\ UNCHANGED <<readers, writers>>
    \/ Take(t, "pass_no_readers", "no_readers", "read_switch") /\ UNCHANGED <<readers, writers>>
    \/ /\ Take(t, "read_switch", "read_mutex", IF readers = 0 THEN "first_reader" ELSE "switched")
       /\ readers' = readers + 1 /\ UNCHANGED writers
    \/ Take(t, "first_reader", "no_writers", "switched") /\ UNCHANGED <<readers, writers>>
    \/ Return(t, "switched", "read_mutex", "passed") /\ UNCHANGED <<readers, writers>>
    \/ Return(t, "passed", "no_readers", "unqueue") /\ UNCHANGED <<readers, writers>>
    \/ Return(t, "unqueue", "readers_queue", "reading") /\ UNCHANGED <<readers, writers>>

\* The mutex of the switch is not returned before the lock it guards is.
reader_release(t) ==
    \/ /\ Take(t, "unread_switch", "read_mutex", "unread")
       /\ readers' = readers - 1 /\ UNCHANGED writers
    \/ /\ at[t] = "unread"
       /\ held' = held \ (IF readers = 0 THEN {"no_writers", "read_mutex"} ELSE {"read_mutex"})
       /\ at' = [at EXCEPT ![t] = "out"]
       /\ UNCHANGED <<readers, writers>>

-----------------------------------------------------------------------------
(* Writers *)

\* Mutation: every writer is let in by the switch.
AcquireUnlocked(t) ==
    \/ /\ Take(t, "write_switch", "write_mutex", IF writers = 0 THEN "first_writer" ELSE "write_switched")
       /\ writers' = writers + 1 /\ UNCHANGED readers
    \/ Take(t, "first_writer", "no_readers", "write_switched") /\ UNCHANGED <<readers, writers>>
    \/ Return(t, "write_switched", "write_mutex", "writing") /\ UNCHANGED <<readers, writers>>

writer_acquire(t) ==
    \/ /\ Take(t, "write_switch", "write_mutex", IF writers = 0 THEN "first_writer" ELSE "write_switched")
       /\ writers' = writers + 1 /\ UNCHANGED readers
    \/ Take(t, "first_writer", "no_readers", "write_switched") /\ UNCHANGED <<readers, writers>>
    \/ Return(t, "write_switched", "write_mutex", "enter_writing") /\ UNCHANGED <<readers, writers>>
    \/ Take(t, "enter_writing", "no_writers", "writing") /\ UNCHANGED <<readers, writers>>

\* After the body of the writer no_writers is returned, then the switch is left.
writer_release(t) ==
    \/ /\ Take(t, "unwrite_switch", "write_mutex", "unwrite")
       /\ writers' = writers - 1 /\ UNCHANGED readers
    \/ /\ at[t] = "unwrite"
       /\ held' = held \ (IF writers = 0 THEN {"no_readers", "write_mutex"} ELSE {"write_mutex"})
       /\ at' = [at EXCEPT ![t] = "out"]
       /\ UNCHANGED <<readers, writers>>

LockStep(t) == reader_acquire(t) \/ reader_release(t) \/ writer_acquire(t) \/ writer_release(t)

-----------------------------------------------------------------------------
(* Properties *)

\* Threads that have passed the lock and not returned it
Readers == {t \in Threads : at[t] \in {"passed", "unqueue", "reading", "unread_switch"}}
Writers == {t \in Threads : at[t] = "writing"}

\* A writer is alone under the lock: no other writer, and no reader.
Exclusive == \A w \in Writers : Readers = {} /\ Writers = {w}

\* A writer that waits for readers to leave only waits for those that are there: no
\* reader enters as long as it waits, which the lock promises to its writers.
NewReadersWait ==
    [][(\E w \in Threads : at[w] = "enter_writing") => Readers' \subseteq Readers]_at
=============================================================================
