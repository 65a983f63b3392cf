------------------------- MODULE EventDispatchProofs -------------------------
(***************************************************************************)
(* The reader-writer lock of resotolib excludes writers from everybody     *)
(* else and keeps new readers out while a writer waits, for any set of     *)
(* threads and listeners and any number of operations.                     *)
(***************************************************************************)
EXTENDS EventDispatch, FiniteSetTheorems, TLAPS

-----------------------------------------------------------------------------
(* The inductive invariant *)

\* Threads between taking and returning a lock that one thread holds
Queued == {t \in Threads : at[t] \in {"pass_no_readers", "read_switch", "first_reader",
                                      "switched", "passed", "unqueue"}}
InReadSwitch == {t \in Threads : at[t] \in {"first_reader", "switched", "unread"}}
InWriteSwitch == {t \in Threads : at[t] \in {"first_writer", "write_switched", "unwrite"}}

\* Threads a switch has counted
CountedReading == {t \in Threads : at[t] \in {"first_reader", "switched", "passed", "unqueue",
                                              "reading", "unread_switch"}}
CountedWriting == {t \in Threads : at[t] \in {"first_writer", "write_switched", "enter_writing",
                                              "writing", "unwrite_switch"}}

\* The reader that holds no_readers to enter, and the writers that hold it together
Entering == {t \in Threads : at[t] \in {"read_switch", "first_reader", "switched", "passed"}}
WritersHold == {t \in Threads : at[t] \in {"write_switched", "enter_writing", "writing",
                                           "unwrite_switch", "unwrite"}}

\* The readers that hold no_writers together
ReadersHold == {t \in Threads : at[t] \in {"switched", "passed", "unqueue", "reading",
                                           "unread_switch", "unread"}}

LockTypeOK ==
    /\ held \subseteq Locks
    /\ readers \in Nat /\ writers \in Nat
    /\ at \in [Threads -> Lines]

\* A lock that one thread holds: it is taken, and no other thread is past it.
HeldAlone(lock, S) == \A t \in S : lock \in held /\ \A u \in S : u = t

\* A lock that a group holds: it is taken, and nobody is in the other group.
HeldAgainst(lock, S, others) == \A t \in S : lock \in held /\ others = {}

\* A switch counts the threads that have entered it and have not begun to leave.
Counted ==
    /\ IsFiniteSet(CountedReading) /\ readers = Cardinality(CountedReading)
    /\ IsFiniteSet(CountedWriting) /\ writers = Cardinality(CountedWriting)

Owned ==
    /\ HeldAlone("readers_queue", Queued)
    /\ HeldAlone("read_mutex", InReadSwitch)
    /\ HeldAlone("write_mutex", InWriteSwitch)
    /\ HeldAlone("no_writers", Writers)
    /\ HeldAgainst("no_readers", Entering, WritersHold)
    /\ HeldAgainst("no_readers", WritersHold, Entering)
    /\ HeldAgainst("no_writers", ReadersHold, Writers)

LockInv == LockTypeOK /\ Owned /\ Counted

\* A thread that does nothing is nowhere in the lock.
IdleInv ==
    /\ DOMAIN op = Threads
    /\ \A t \in Threads : op[t] = "none" => at[t] = "out"

-----------------------------------------------------------------------------
(* Threads move from line to line *)

\* What a move of one thread changes.
LEMMA Move ==
    ASSUME LockTypeOK, NEW t \in Threads, NEW to \in Lines, at' = [at EXCEPT ![t] = to]
    PROVE  /\ at' \in [Threads -> Lines]
           /\ at'[t] = to
           /\ \A u \in Threads : u # t => at'[u] = at[u]
  BY DEF LockTypeOK

\* A switch whose counter is zero has counted nobody, and one that has counted a
\* thread is not at zero.
LEMMA CounterZero ==
    ASSUME Counted
    PROVE  /\ readers = 0 <=> CountedReading = {}
           /\ writers = 0 <=> CountedWriting = {}
           /\ readers \in Nat /\ writers \in Nat
  BY FS_EmptySet, FS_CardinalityType DEF Counted

\* The counters follow the threads that enter and leave the switches.
LEMMA CountersKept ==
    ASSUME Counted, UNCHANGED <<readers, writers>>,
           CountedReading' = CountedReading, CountedWriting' = CountedWriting
    PROVE  Counted'
  BY DEF Counted

\* A thread enters or leaves the switch of the readers.
LEMMA ReaderCounted ==
    ASSUME Counted, NEW t, UNCHANGED writers, CountedWriting' = CountedWriting,
           \/ readers' = readers + 1 /\ t \notin CountedReading /\ CountedReading' = CountedReading \cup {t}
           \/ readers' = readers - 1 /\ t \in CountedReading /\ CountedReading' = CountedReading \ {t}
    PROVE  Counted' /\ readers' \in Nat
  BY FS_AddElement, FS_RemoveElement, FS_CardinalityType DEF Counted

\* A thread enters or leaves the switch of the writers.
LEMMA WriterCounted ==
    ASSUME Counted, NEW t, UNCHANGED readers, CountedReading' = CountedReading,
           \/ writers' = writers + 1 /\ t \notin CountedWriting /\ CountedWriting' = CountedWriting \cup {t}
           \/ writers' = writers - 1 /\ t \in CountedWriting /\ CountedWriting' = CountedWriting \ {t}
    PROVE  Counted' /\ writers' \in Nat
  BY FS_AddElement, FS_RemoveElement, FS_CardinalityType DEF Counted

\* How the sets of threads include each other.
LEMMA Inclusions ==
    /\ Entering \subseteq Queued
    /\ CountedReading \subseteq ReadersHold \cup InReadSwitch
    /\ ReadersHold \subseteq CountedReading \cup InReadSwitch
    /\ CountedWriting \subseteq WritersHold \cup InWriteSwitch
    /\ WritersHold \subseteq CountedWriting \cup InWriteSwitch
  BY DEF Entering, Queued, CountedReading, ReadersHold, InReadSwitch, CountedWriting, WritersHold,
         InWriteSwitch

-----------------------------------------------------------------------------
(* Every step of the lock preserves the invariant.  For each step: which sets of    *)
(* threads it changes, the counters, and who holds which lock.                       *)

\* Entering as a reader
LEMMA ReaderAcquires ==
    ASSUME LockInv, NEW t \in Threads, reader_acquire(t)
    PROVE  LockInv'
  <1>0. LockTypeOK /\ Owned /\ Counted
    BY DEF LockInv
  <1>1. CASE Take(t, "queue", "readers_queue", "pass_no_readers") /\ UNCHANGED <<readers, writers>>
    <2>1. at[t] = "queue" /\ at' = [at EXCEPT ![t] = "pass_no_readers"] /\ "pass_no_readers" \in Lines
      BY <1>1 DEF Take, Lines
    <2>2. /\ UNCHANGED <<InReadSwitch, InWriteSwitch, CountedReading, CountedWriting, Entering,
                           WritersHold, ReadersHold, Writers>>
          /\ t \notin Queued /\ Queued' = Queued \cup {t}
      BY <1>0, <2>1, Move DEF Queued, InReadSwitch, InWriteSwitch, CountedReading, CountedWriting,
         Entering, WritersHold, ReadersHold, Writers
    <2>3. Counted' /\ LockTypeOK'
      BY <1>0, <1>1, <2>1, <2>2, Move, CountersKept DEF Take, LockTypeOK, Locks
    <2> QED
      BY <1>0, <1>1, <2>2, <2>3, Inclusions DEF Take, LockInv, Owned, HeldAlone, HeldAgainst
  <1>2. CASE Take(t, "pass_no_readers", "no_readers", "read_switch") /\ UNCHANGED <<readers,
                                                                                    writers>>
    <2>1. at[t] = "pass_no_readers" /\ at' = [at EXCEPT ![t] = "read_switch"] /\ "read_switch" \in Lines
      BY <1>2 DEF Take, Lines
    <2>2. /\ UNCHANGED <<Queued, InReadSwitch, InWriteSwitch, CountedReading, CountedWriting,
                           WritersHold, ReadersHold, Writers>>
          /\ t \notin Entering /\ Entering' = Entering \cup {t}
          /\ t \in Queued
      BY <1>0, <2>1, Move DEF Queued, InReadSwitch, InWriteSwitch, CountedReading, CountedWriting,
         Entering, WritersHold, ReadersHold, Writers
    <2>3. Counted' /\ LockTypeOK'
      BY <1>0, <1>2, <2>1, <2>2, Move, CountersKept DEF Take, LockTypeOK, Locks
    <2> QED
      BY <1>0, <1>2, <2>2, <2>3, Inclusions DEF Take, LockInv, Owned, HeldAlone, HeldAgainst
  <1>3. CASE readers = 0 /\ Take(t, "read_switch", "read_mutex", "first_reader")
             /\ readers' = readers + 1 /\ UNCHANGED writers
    <2>1. at[t] = "read_switch" /\ at' = [at EXCEPT ![t] = "first_reader"] /\ "first_reader" \in Lines
      BY <1>3 DEF Take, Lines
    <2>2. /\ UNCHANGED <<Queued, InWriteSwitch, CountedWriting, Entering,
                           WritersHold, ReadersHold, Writers>>
          /\ t \notin InReadSwitch /\ InReadSwitch' = InReadSwitch \cup {t}
          /\ t \notin CountedReading /\ CountedReading' = CountedReading \cup {t}
          /\ t \in Queued /\ t \in Entering
      BY <1>0, <2>1, Move DEF Queued, InReadSwitch, InWriteSwitch, CountedReading, CountedWriting,
         Entering, WritersHold, ReadersHold, Writers
    <2>3. Counted' /\ LockTypeOK'
      BY <1>0, <1>3, <2>1, <2>2, Move, ReaderCounted DEF Take, LockTypeOK, Locks
    <2> QED
      BY <1>0, <1>3, <2>2, <2>3, Inclusions DEF Take, LockInv, Owned, HeldAlone, HeldAgainst
  <1>4. CASE readers # 0 /\ Take(t, "read_switch", "read_mutex", "switched")
             /\ readers' = readers + 1 /\ UNCHANGED writers
    <2>1. at[t] = "read_switch" /\ at' = [at EXCEPT ![t] = "switched"] /\ "switched" \in Lines
      BY <1>4 DEF Take, Lines
    <2>2. /\ UNCHANGED <<Queued, InWriteSwitch, CountedWriting, Entering,
                           WritersHold, Writers>>
          /\ t \notin InReadSwitch /\ InReadSwitch' = InReadSwitch \cup {t}
          /\ t \notin CountedReading /\ CountedReading' = CountedReading \cup {t}
          /\ t \notin ReadersHold /\ ReadersHold' = ReadersHold \cup {t}
          /\ t \in Queued /\ t \in Entering
      BY <1>0, <2>1, Move DEF Queued, InReadSwitch, InWriteSwitch, CountedReading, CountedWriting,
         Entering, WritersHold, ReadersHold, Writers
    <2>3. Counted' /\ LockTypeOK'
      BY <1>0, <1>4, <2>1, <2>2, Move, ReaderCounted DEF Take, LockTypeOK, Locks
    <2> QED
      BY <1>0, <1>4, <2>2, <2>3, Inclusions, CounterZero DEF Take, LockInv, Owned, HeldAlone,
         HeldAgainst
  <1>5. CASE Take(t, "first_reader", "no_writers", "switched") /\ UNCHANGED <<readers, writers>>
    <2>1. at[t] = "first_reader" /\ at' = [at EXCEPT ![t] = "switched"] /\ "switched" \in Lines
      BY <1>5 DEF Take, Lines
    <2>2. /\ UNCHANGED <<Queued, InReadSwitch, InWriteSwitch, CountedReading, CountedWriting,
                           Entering, WritersHold, Writers>>
          /\ t \notin ReadersHold /\ ReadersHold' = ReadersHold \cup {t}
          /\ t \in Queued /\ t \in InReadSwitch /\ t \in CountedReading /\ t \in Entering
      BY <1>0, <2>1, Move DEF Queued, InReadSwitch, InWriteSwitch, CountedReading, CountedWriting,
         Entering, WritersHold, ReadersHold, Writers
    <2>3. Counted' /\ LockTypeOK'
      BY <1>0, <1>5, <2>1, <2>2, Move, CountersKept DEF Take, LockTypeOK, Locks
    <2> QED
      BY <1>0, <1>5, <2>2, <2>3, Inclusions DEF Take, LockInv, Owned, HeldAlone, HeldAgainst
  <1>6. CASE Return(t, "switched", "read_mutex", "passed") /\ UNCHANGED <<readers, writers>>
    <2>1. at[t] = "switched" /\ at' = [at EXCEPT ![t] = "passed"] /\ "passed" \in Lines
      BY <1>6 DEF Return, Lines
    <2>2. /\ UNCHANGED <<Queued, InWriteSwitch, CountedReading, CountedWriting, Entering,
                           WritersHold, ReadersHold, Writers>>
          /\ t \in InReadSwitch /\ InReadSwitch' = InReadSwitch \ {t}
          /\ t \in Queued /\ t \in CountedReading /\ t \in Entering /\ t \in ReadersHold
      BY <1>0, <2>1, Move DEF Queued, InReadSwitch, InWriteSwitch, CountedReading, CountedWriting,
         Entering, WritersHold, ReadersHold, Writers
    <2>3. Counted' /\ LockTypeOK'
      BY <1>0, <1>6, <2>1, <2>2, Move, CountersKept DEF Return, LockTypeOK, Locks
    <2> QED
      BY <1>0, <1>6, <2>2, <2>3, Inclusions DEF Return, LockInv, Owned, HeldAlone, HeldAgainst
  <1>7. CASE Return(t, "passed", "no_readers", "unqueue") /\ UNCHANGED <<readers, writers>>
    <2>1. at[t] = "passed" /\ at' = [at EXCEPT ![t] = "unqueue"] /\ "unqueue" \in Lines
      BY <1>7 DEF Return, Lines
    <2>2. /\ UNCHANGED <<Queued, InReadSwitch, InWriteSwitch, CountedReading, CountedWriting,
                           WritersHold, ReadersHold, Writers>>
          /\ t \in Entering /\ Entering' = Entering \ {t}
          /\ t \in Queued /\ t \in CountedReading /\ t \in ReadersHold
      BY <1>0, <2>1, Move DEF Queued, InReadSwitch, InWriteSwitch, CountedReading, CountedWriting,
         Entering, WritersHold, ReadersHold, Writers
    <2>3. Counted' /\ LockTypeOK'
      BY <1>0, <1>7, <2>1, <2>2, Move, CountersKept DEF Return, LockTypeOK, Locks
    <2> QED
      BY <1>0, <1>7, <2>2, <2>3, Inclusions DEF Return, LockInv, Owned, HeldAlone, HeldAgainst
  <1>8. CASE Return(t, "unqueue", "readers_queue", "reading") /\ UNCHANGED <<readers, writers>>
    <2>1. at[t] = "unqueue" /\ at' = [at EXCEPT ![t] = "reading"] /\ "reading" \in Lines
      BY <1>8 DEF Return, Lines
    <2>2. /\ UNCHANGED <<InReadSwitch, InWriteSwitch, CountedReading, CountedWriting, Entering,
                           WritersHold, ReadersHold, Writers>>
          /\ t \in Queued /\ Queued' = Queued \ {t}
          /\ t \in CountedReading /\ t \in ReadersHold
      BY <1>0, <2>1, Move DEF Queued, InReadSwitch, InWriteSwitch, CountedReading, CountedWriting,
         Entering, WritersHold, ReadersHold, Writers
    <2>3. Counted' /\ LockTypeOK'
      BY <1>0, <1>8, <2>1, <2>2, Move, CountersKept DEF Return, LockTypeOK, Locks
    <2> QED
      BY <1>0, <1>8, <2>2, <2>3, Inclusions DEF Return, LockInv, Owned, HeldAlone, HeldAgainst
  <1> QED
    BY <1>0, <1>1, <1>2, <1>3, <1>4, <1>5, <1>6, <1>7, <1>8 DEF reader_acquire, Take, LockTypeOK

\* Leaving as a reader
LEMMA ReaderReleases ==
    ASSUME LockInv, NEW t \in Threads, reader_release(t)
    PROVE  LockInv'
  <1>0. LockTypeOK /\ Owned /\ Counted
    BY DEF LockInv
  <1>1. CASE /\ Take(t, "unread_switch", "read_mutex", "unread")
             /\ readers' = readers - 1 /\ UNCHANGED writers
    <2>1. at[t] = "unread_switch" /\ at' = [at EXCEPT ![t] = "unread"] /\ "unread" \in Lines
      BY <1>1 DEF Take, Lines
    <2>2. /\ UNCHANGED <<Queued, InWriteSwitch, CountedWriting, Entering,
                           WritersHold, ReadersHold, Writers>>
          /\ t \notin InReadSwitch /\ InReadSwitch' = InReadSwitch \cup {t}
          /\ t \in CountedReading /\ CountedReading' = CountedReading \ {t}
          /\ t \in ReadersHold
      BY <1>0, <2>1, Move DEF Queued, InReadSwitch, InWriteSwitch, CountedReading, CountedWriting,
         Entering, WritersHold, ReadersHold, Writers
    <2>3. Counted' /\ LockTypeOK'
      BY <1>0, <1>1, <2>1, <2>2, Move, ReaderCounted DEF Take, LockTypeOK, Locks
    <2> QED
      BY <1>0, <1>1, <2>2, <2>3, Inclusions DEF Take, LockInv, Owned, HeldAlone, HeldAgainst
  <1>2. CASE /\ at[t] = "unread"
             /\ held' = held \ (IF readers = 0 THEN {"no_writers",
               "read_mutex"} ELSE {"read_mutex"})
             /\ at' = [at EXCEPT ![t] = "out"]
             /\ UNCHANGED <<readers, writers>>
    <2>1. at[t] = "unread" /\ at' = [at EXCEPT ![t] = "out"] /\ "out" \in Lines
      BY <1>2 DEF lockVars, Lines
    <2>2. /\ UNCHANGED <<Queued, InWriteSwitch, CountedReading, CountedWriting,
                           Entering, WritersHold, Writers>>
          /\ t \in InReadSwitch /\ InReadSwitch' = InReadSwitch \ {t}
          /\ t \in ReadersHold /\ ReadersHold' = ReadersHold \ {t}
      BY <1>0, <2>1, Move DEF Queued, InReadSwitch, InWriteSwitch, CountedReading, CountedWriting,
         Entering, WritersHold, ReadersHold, Writers
    <2>3. Counted' /\ LockTypeOK'
      BY <1>0, <1>2, <2>1, <2>2, Move, CountersKept DEF lockVars, LockTypeOK, Locks
    <2> QED
      BY <1>0, <1>2, <2>2, <2>3, Inclusions, CounterZero DEF lockVars, LockInv, Owned, HeldAlone,
         HeldAgainst
  <1> QED
    BY <1>0, <1>1, <1>2 DEF reader_release, Take, LockTypeOK

\* Entering as a writer
LEMMA WriterAcquires ==
    ASSUME LockInv, NEW t \in Threads, writer_acquire(t)
    PROVE  LockInv'
  <1>0. LockTypeOK /\ Owned /\ Counted
    BY DEF LockInv
  <1>1. CASE writers = 0 /\ Take(t, "write_switch", "write_mutex", "first_writer")
             /\ writers' = writers + 1 /\ UNCHANGED readers
    <2>1. at[t] = "write_switch" /\ at' = [at EXCEPT ![t] = "first_writer"] /\ "first_writer" \in Lines
      BY <1>1 DEF Take, Lines
    <2>2. /\ UNCHANGED <<Queued, InReadSwitch, CountedReading, Entering,
                           WritersHold, ReadersHold, Writers>>
          /\ t \notin InWriteSwitch /\ InWriteSwitch' = InWriteSwitch \cup {t}
          /\ t \notin CountedWriting /\ CountedWriting' = CountedWriting \cup {t}
      BY <1>0, <2>1, Move DEF Queued, InReadSwitch, InWriteSwitch, CountedReading, CountedWriting,
         Entering, WritersHold, ReadersHold, Writers
    <2>3. Counted' /\ LockTypeOK'
      BY <1>0, <1>1, <2>1, <2>2, Move, WriterCounted DEF Take, LockTypeOK, Locks
    <2> QED
      BY <1>0, <1>1, <2>2, <2>3, Inclusions DEF Take, LockInv, Owned, HeldAlone, HeldAgainst
  <1>2. CASE writers # 0 /\ Take(t, "write_switch", "write_mutex", "write_switched")
             /\ writers' = writers + 1 /\ UNCHANGED readers
    <2>1. at[t] = "write_switch" /\ at' = [at EXCEPT ![t] = "write_switched"] /\ "write_switched" \in Lines
      BY <1>2 DEF Take, Lines
    <2>2. /\ UNCHANGED <<Queued, InReadSwitch, CountedReading, Entering,
                           ReadersHold, Writers>>
          /\ t \notin InWriteSwitch /\ InWriteSwitch' = InWriteSwitch \cup {t}
          /\ t \notin CountedWriting /\ CountedWriting' = CountedWriting \cup {t}
          /\ t \notin WritersHold /\ WritersHold' = WritersHold \cup {t}
      BY <1>0, <2>1, Move DEF Queued, InReadSwitch, InWriteSwitch, CountedReading, CountedWriting,
         Entering, WritersHold, ReadersHold, Writers
    <2>3. Counted' /\ LockTypeOK'
      BY <1>0, <1>2, <2>1, <2>2, Move, WriterCounted DEF Take, LockTypeOK, Locks
    <2> QED
      BY <1>0, <1>2, <2>2, <2>3, Inclusions, CounterZero DEF Take, LockInv, Owned, HeldAlone,
         HeldAgainst
  <1>3. CASE Take(t, "first_writer", "no_readers", "write_switched") /\ UNCHANGED <<readers,
                                                                                    writers>>
    <2>1. at[t] = "first_writer" /\ at' = [at EXCEPT ![t] = "write_switched"] /\ "write_switched" \in Lines
      BY <1>3 DEF Take, Lines
    <2>2. /\ UNCHANGED <<Queued, InReadSwitch, InWriteSwitch, CountedReading, CountedWriting,
                           Entering, ReadersHold, Writers>>
          /\ t \notin WritersHold /\ WritersHold' = WritersHold \cup {t}
          /\ t \in InWriteSwitch /\ t \in CountedWriting
      BY <1>0, <2>1, Move DEF Queued, InReadSwitch, InWriteSwitch, CountedReading, CountedWriting,
         Entering, WritersHold, ReadersHold, Writers
    <2>3. Counted' /\ LockTypeOK'
      BY <1>0, <1>3, <2>1, <2>2, Move, CountersKept DEF Take, LockTypeOK, Locks
    <2> QED
      BY <1>0, <1>3, <2>2, <2>3, Inclusions DEF Take, LockInv, Owned, HeldAlone, HeldAgainst
  <1>4. CASE Return(t, "write_switched", "write_mutex", "enter_writing") /\ UNCHANGED <<readers,
                                                                                        writers>>
    <2>1. at[t] = "write_switched" /\ at' = [at EXCEPT ![t] = "enter_writing"] /\ "enter_writing" \in Lines
      BY <1>4 DEF Return, Lines
    <2>2. /\ UNCHANGED <<Queued, InReadSwitch, CountedReading, CountedWriting, Entering,
                           WritersHold, ReadersHold, Writers>>
          /\ t \in InWriteSwitch /\ InWriteSwitch' = InWriteSwitch \ {t}
          /\ t \in CountedWriting /\ t \in WritersHold
      BY <1>0, <2>1, Move DEF Queued, InReadSwitch, InWriteSwitch, CountedReading, CountedWriting,
         Entering, WritersHold, ReadersHold, Writers
    <2>3. Counted' /\ LockTypeOK'
      BY <1>0, <1>4, <2>1, <2>2, Move, CountersKept DEF Return, LockTypeOK, Locks
    <2> QED
      BY <1>0, <1>4, <2>2, <2>3, Inclusions DEF Return, LockInv, Owned, HeldAlone, HeldAgainst
  <1>5. CASE Take(t, "enter_writing", "no_writers", "writing") /\ UNCHANGED <<readers, writers>>
    <2>1. at[t] = "enter_writing" /\ at' = [at EXCEPT ![t] = "writing"] /\ "writing" \in Lines
      BY <1>5 DEF Take, Lines
    <2>2. /\ UNCHANGED <<Queued, InReadSwitch, InWriteSwitch, CountedReading, CountedWriting,
                           Entering, WritersHold, ReadersHold>>
          /\ t \notin Writers /\ Writers' = Writers \cup {t}
          /\ t \in CountedWriting /\ t \in WritersHold
      BY <1>0, <2>1, Move DEF Queued, InReadSwitch, InWriteSwitch, CountedReading, CountedWriting,
         Entering, WritersHold, ReadersHold, Writers
    <2>3. Counted' /\ LockTypeOK'
      BY <1>0, <1>5, <2>1, <2>2, Move, CountersKept DEF Take, LockTypeOK, Locks
    <2> QED
      BY <1>0, <1>5, <2>2, <2>3, Inclusions DEF Take, LockInv, Owned, HeldAlone, HeldAgainst
  <1> QED
    BY <1>0, <1>1, <1>2, <1>3, <1>4, <1>5 DEF writer_acquire, Take, LockTypeOK

\* Leaving as a writer
LEMMA WriterReleases ==
    ASSUME LockInv, NEW t \in Threads, writer_release(t)
    PROVE  LockInv'
  <1>0. LockTypeOK /\ Owned /\ Counted
    BY DEF LockInv
  <1>1. CASE /\ Take(t, "unwrite_switch", "write_mutex", "unwrite")
             /\ writers' = writers - 1 /\ UNCHANGED readers
    <2>1. at[t] = "unwrite_switch" /\ at' = [at EXCEPT ![t] = "unwrite"] /\ "unwrite" \in Lines
      BY <1>1 DEF Take, Lines
    <2>2. /\ UNCHANGED <<Queued, InReadSwitch, CountedReading, Entering,
                           WritersHold, ReadersHold, Writers>>
          /\ t \notin InWriteSwitch /\ InWriteSwitch' = InWriteSwitch \cup {t}
          /\ t \in CountedWriting /\ CountedWriting' = CountedWriting \ {t}
          /\ t \in WritersHold
      BY <1>0, <2>1, Move DEF Queued, InReadSwitch, InWriteSwitch, CountedReading, CountedWriting,
         Entering, WritersHold, ReadersHold, Writers
    <2>3. Counted' /\ LockTypeOK'
      BY <1>0, <1>1, <2>1, <2>2, Move, WriterCounted DEF Take, LockTypeOK, Locks
    <2> QED
      BY <1>0, <1>1, <2>2, <2>3, Inclusions DEF Take, LockInv, Owned, HeldAlone, HeldAgainst
  <1>2. CASE /\ at[t] = "unwrite"
             /\ held' = held \ (IF writers = 0 THEN {"no_readers",
               "write_mutex"} ELSE {"write_mutex"})
             /\ at' = [at EXCEPT ![t] = "out"]
             /\ UNCHANGED <<readers, writers>>
    <2>1. at[t] = "unwrite" /\ at' = [at EXCEPT ![t] = "out"] /\ "out" \in Lines
      BY <1>2 DEF lockVars, Lines
    <2>2. /\ UNCHANGED <<Queued, InReadSwitch, CountedReading, CountedWriting,
                           Entering, ReadersHold, Writers>>
          /\ t \in InWriteSwitch /\ InWriteSwitch' = InWriteSwitch \ {t}
          /\ t \in WritersHold /\ WritersHold' = WritersHold \ {t}
      BY <1>0, <2>1, Move DEF Queued, InReadSwitch, InWriteSwitch, CountedReading, CountedWriting,
         Entering, WritersHold, ReadersHold, Writers
    <2>3. Counted' /\ LockTypeOK'
      BY <1>0, <1>2, <2>1, <2>2, Move, CountersKept DEF lockVars, LockTypeOK, Locks
    <2> QED
      BY <1>0, <1>2, <2>2, <2>3, Inclusions, CounterZero DEF lockVars, LockInv, Owned, HeldAlone,
         HeldAgainst
  <1> QED
    BY <1>0, <1>1, <1>2 DEF writer_release, Take, LockTypeOK

\* The threads' operations end what they do under the lock, and begin outside it.
LEMMA EndsReading ==
    ASSUME LockInv, NEW t \in Threads, EndReading(t)
    PROVE  LockInv'
  <1>0. LockTypeOK /\ Owned /\ Counted
    BY DEF LockInv
  <1>1. at[t] = "reading" /\ at' = [at EXCEPT ![t] = "unread_switch"] /\ "unread_switch" \in Lines
    BY DEF EndReading, Lines
  <1>2. UNCHANGED <<Queued, InReadSwitch, InWriteSwitch, CountedReading, CountedWriting, Entering,
                    WritersHold, ReadersHold, Writers>>
    BY <1>0, <1>1, Move DEF Queued, InReadSwitch, InWriteSwitch, CountedReading, CountedWriting,
       Entering, WritersHold, ReadersHold, Writers
  <1>3. UNCHANGED <<held, readers, writers>> /\ LockTypeOK'
    BY <1>0, <1>1, Move DEF EndReading, LockTypeOK
  <1> QED
    BY <1>0, <1>2, <1>3, CountersKept DEF LockInv, Owned, HeldAlone, HeldAgainst

\* writer_release gives the locks back.
LEMMA EndsWriting ==
    ASSUME LockInv, NEW t \in Threads, EndWriting(t)
    PROVE  LockInv'
  <1>0. LockTypeOK /\ Owned /\ Counted
    BY DEF LockInv
  <1>1. at[t] = "writing" /\ at' = [at EXCEPT ![t] = "unwrite_switch"] /\ "unwrite_switch" \in Lines
    BY DEF EndWriting, Lines
  <1>2. /\ UNCHANGED <<Queued, InReadSwitch, InWriteSwitch, CountedReading, CountedWriting,
                       Entering, WritersHold, ReadersHold>>
        /\ t \in Writers /\ Writers' = Writers \ {t}
    BY <1>0, <1>1, Move DEF Queued, InReadSwitch, InWriteSwitch, CountedReading, CountedWriting,
       Entering, WritersHold, ReadersHold, Writers
  <1>3. UNCHANGED <<readers, writers>> /\ held' = held \ {"no_writers"} /\ LockTypeOK'
    BY <1>0, <1>1, Move DEF EndWriting, LockTypeOK
  <1> QED
    BY <1>0, <1>2, <1>3, CountersKept DEF LockInv, Owned, HeldAlone, HeldAgainst

\* An operation begins to acquire the lock for reading or writing.
LEMMA Enters ==
    ASSUME LockInv, NEW t \in Threads, at[t] = "out", NEW line \in {"write_switch", "queue"},
           at' = [at EXCEPT ![t] = line], UNCHANGED <<held, readers, writers>>
    PROVE  LockInv'
  <1>0. LockTypeOK /\ Owned /\ Counted
    BY DEF LockInv
  <1>1. line \in Lines
    BY DEF Lines
  <1>2. UNCHANGED <<Queued, InReadSwitch, InWriteSwitch, CountedReading, CountedWriting, Entering,
                    WritersHold, ReadersHold, Writers>>
    BY <1>0, <1>1, Move DEF Queued, InReadSwitch, InWriteSwitch, CountedReading, CountedWriting,
       Entering, WritersHold, ReadersHold, Writers
  <1>3. LockTypeOK'
    BY <1>0, <1>1, Move DEF LockTypeOK
  <1> QED
    BY <1>0, <1>2, <1>3, CountersKept DEF LockInv, Owned, HeldAlone, HeldAgainst

\* A step that leaves the lock alone.
LEMMA LockUntouched ==
    ASSUME LockInv, UNCHANGED lockVars
    PROVE  LockInv'
  BY DEF LockInv, LockTypeOK, Owned, Counted, HeldAlone, HeldAgainst, lockVars, Queued,
     InReadSwitch, InWriteSwitch, CountedReading, CountedWriting, Entering, WritersHold,
     ReadersHold, Writers

-----------------------------------------------------------------------------
(* Every operation of the dispatcher preserves the invariant *)

\* A step of one thread leaves the idle threads out of the lock.
LEMMA IdleKept ==
    ASSUME LockTypeOK, IdleInv, NEW t \in Threads, NEW o,
           op' = [op EXCEPT ![t] = o],
           \/ o # "none" /\ \E line \in Lines : at' = [at EXCEPT ![t] = line]
           \/ at[t] = "out" /\ UNCHANGED at
           \/ o # "none" /\ UNCHANGED at
    PROVE  IdleInv'
  BY DEF IdleInv, LockTypeOK

\* A thread in the lock does something, and goes on doing it.
LEMMA BusyKept ==
    ASSUME LockTypeOK, IdleInv, NEW t \in Threads, at[t] # "out" \/ op[t] # "none", UNCHANGED op,
           \E line \in Lines : at' = [at EXCEPT ![t] = line]
    PROVE  IdleInv'
  BY DEF IdleInv, LockTypeOK

\* A step inside of the lock moves its own thread only, and not one outside.
LEMMA LockStepMoves ==
    ASSUME LockTypeOK, NEW t \in Threads, LockStep(t)
    PROVE  /\ at[t] # "out"
           /\ \E line \in Lines : at' = [at EXCEPT ![t] = line]
  BY DEF LockStep, reader_acquire, reader_release, writer_acquire, writer_release, Take, Return,
     Lines

\* Every step keeps the invariant of the lock.
LEMMA Consecution ==
    ASSUME LockInv, IdleInv, [Next]_vars
    PROVE  LockInv' /\ IdleInv'
  <1> USE DEF IdleInv
  <1>0. LockTypeOK
    BY DEF LockInv
  <1>a. ASSUME NEW t \in Threads, NEW o, NEW line \in {"write_switch", "queue"},
               o # "none", Begin(t, o, line)
        PROVE  LockInv' /\ IdleInv'
    <2>1. at[t] = "out" /\ line \in Lines /\ op' = [op EXCEPT ![t] = o]
          /\ at' = [at EXCEPT ![t] = line] /\ UNCHANGED <<held, readers, writers>>
      BY <1>a DEF Begin, Lines
    <2> QED
      BY <1>0, <1>a, <2>1, Enters, IdleKept
  <1>1. ASSUME NEW t \in Threads, Start(t)
        PROVE  LockInv' /\ IdleInv'
    BY <1>1, <1>a DEF Start, add_event_listener, remove_event_listener, dispatch_event,
                      list_event_listeners
  <1>2. ASSUME NEW t \in Threads, LockStep(t), UNCHANGED op
        PROVE  LockInv' /\ IdleInv'
    <2>1. LockInv'
      BY <1>2, ReaderAcquires, ReaderReleases, WriterAcquires, WriterReleases DEF LockStep
    <2> QED
      BY <1>0, <1>2, <2>1, LockStepMoves, BusyKept
  <1>3. ASSUME NEW t \in Threads, insert(t) \/ delete(t)
        PROVE  LockInv' /\ IdleInv'
    <2>1. EndWriting(t) /\ UNCHANGED op
      BY <1>3 DEF insert, delete
    <2>2. at[t] # "out" /\ \E line \in Lines : at' = [at EXCEPT ![t] = line]
      BY <2>1 DEF EndWriting, Lines
    <2> QED
      BY <1>0, <2>1, <2>2, EndsWriting, BusyKept
  <1>4. ASSUME NEW t \in Threads, listing(t)
        PROVE  LockInv' /\ IdleInv'
    <2>1. /\ UNCHANGED lockVars
          /\ \E o : o # "none" /\ op' = [op EXCEPT ![t] = o]
      BY <1>4 DEF listing
    <2> QED
      BY <1>0, <2>1, LockUntouched, IdleKept DEF lockVars
  <1>5. ASSUME NEW t \in Threads, listed(t)
        PROVE  LockInv' /\ IdleInv'
    <2>1. EndReading(t) /\ op' = [op EXCEPT ![t] = "list_done"]
      BY <1>5 DEF listed
    <2>2. \E line \in Lines : at' = [at EXCEPT ![t] = line]
      BY <2>1 DEF EndReading, Lines
    <2> QED
      BY <1>0, <2>1, <2>2, EndsReading, IdleKept
  <1>6. ASSUME NEW t \in Threads, copy_listeners(t)
        PROVE  LockInv' /\ IdleInv'
    <2>1. EndReading(t) /\ UNCHANGED op
      BY <1>6 DEF copy_listeners
    <2>2. at[t] # "out" /\ \E line \in Lines : at' = [at EXCEPT ![t] = line]
      BY <2>1 DEF EndReading, Lines
    <2> QED
      BY <1>0, <2>1, <2>2, EndsReading, BusyKept
  <1>7. ASSUME NEW t \in Threads, call_listener(t)
        PROVE  LockInv' /\ IdleInv'
    <2>1. /\ op[t] = "dispatch" /\ at[t] = "out"
          /\ UNCHANGED <<held, readers, writers, op>>
          /\ UNCHANGED at \/ at' = [at EXCEPT ![t] = "write_switch"]
      BY <1>7 DEF call_listener
    <2>2. CASE UNCHANGED at
      BY <2>1, <2>2, LockUntouched DEF lockVars
    <2>3. CASE at' = [at EXCEPT ![t] = "write_switch"]
      <3>1. "write_switch" \in Lines /\ op[t] # "none"
        BY <2>1 DEF Lines
      <3> QED
        BY <1>0, <2>1, <2>3, <3>1, Enters, BusyKept
    <2> QED
      BY <2>1, <2>2, <2>3
  <1>8. ASSUME NEW t \in Threads, release(t) \/ join(t)
        PROVE  LockInv' /\ IdleInv'
    <2>1. UNCHANGED <<lockVars, op>>
      BY <1>8 DEF release, join
    <2> QED
      BY <2>1, LockUntouched DEF lockVars
  <1>9. ASSUME NEW t \in Threads, Done(t)
        PROVE  LockInv' /\ IdleInv'
    <2>1. UNCHANGED lockVars /\ at[t] = "out" /\ op' = [op EXCEPT ![t] = "none"]
      BY <1>9 DEF Done
    <2> QED
      BY <1>0, <2>1, LockUntouched, IdleKept DEF lockVars
  <1>10. ASSUME NEW t, NEW r, listener_returns(t, r)
         PROVE  LockInv' /\ IdleInv'
    <2>1. UNCHANGED <<lockVars, op>>
      BY <1>10 DEF listener_returns
    <2> QED
      BY <2>1, LockUntouched DEF lockVars
  <1>11. CASE UNCHANGED vars
    BY <1>11, LockUntouched DEF vars, lockVars
  <1> QED
    BY <1>1, <1>2, <1>3, <1>4, <1>5, <1>6, <1>7, <1>8, <1>9, <1>10, <1>11 DEF Next, Step, Idle

-----------------------------------------------------------------------------
(* Theorems *)

\* The books of the lock are right at all times: who holds which of its five locks,
\* and how many threads each switch has let in.
THEOREM LockInvariant == Spec => [](LockInv /\ IdleInv)
  <1>1. Init => LockInv /\ IdleInv
    <2> SUFFICES ASSUME Init PROVE LockInv /\ IdleInv
      OBVIOUS
    <2>1. LockTypeOK /\ IdleInv /\ readers = 0 /\ writers = 0
      BY DEF Init, LockInit, LockTypeOK, IdleInv, Lines
    <2>2. Queued = {} /\ InReadSwitch = {} /\ InWriteSwitch = {} /\ CountedReading = {} /\ CountedWriting = {}
          /\ Entering = {} /\ WritersHold = {} /\ ReadersHold = {} /\ Writers = {}
      BY DEF Init, LockInit, Queued, InReadSwitch, InWriteSwitch, CountedReading, CountedWriting,
         Entering, WritersHold, ReadersHold, Writers
    <2>3. Owned
      BY <2>2 DEF Owned, HeldAlone, HeldAgainst
    <2>4. Counted
      BY <2>1, <2>2, FS_EmptySet DEF Counted
    <2> QED
      BY <2>1, <2>3, <2>4 DEF LockInv
  <1>2. LockInv /\ IdleInv /\ [Next]_vars => LockInv' /\ IdleInv'
    BY Consecution
  <1> QED
    BY <1>1, <1>2, PTL DEF Spec

\* A writer of the table of listeners is alone under the lock: no second writer and no
\* reader, however many threads use it and whatever they do.
THEOREM WritersAreAlone == Spec => []Exclusive
  <1>1. LockInv => Exclusive
    <2>1. Readers \subseteq ReadersHold
      BY DEF Readers, ReadersHold
    <2> QED
      BY <2>1 DEF LockInv, Owned, HeldAlone, HeldAgainst, Exclusive
  <1> QED
    BY <1>1, LockInvariant, PTL

\* No reader gets in as long as a writer waits for the readers to leave: the writers'
\* priority that the two switches are there for.
THEOREM WaitingWritersComeFirst == Spec => NewReadersWait
  <1> DEFINE A == (\E w \in Threads : at[w] = "enter_writing") => Readers' \subseteq Readers
  <1>1. LockInv /\ IdleInv /\ [Next]_vars => [A]_at
    <2> SUFFICES ASSUME LockInv, IdleInv, [Next]_vars, NEW w \in Threads, at[w] = "enter_writing",
                        NEW t \in Readers', at' # at
                 PROVE  t \in Readers
      BY DEF Readers
    <2>1. LockTypeOK /\ t \in Threads /\ t \notin Entering
      BY DEF LockInv, Owned, HeldAgainst, Readers, WritersHold
    <2>2. at[t] # "switched"
      BY <2>1 DEF Entering
    <2>3. CASE \E u \in Threads : LockStep(u)
      <3>1. PICK u \in Threads : LockStep(u)
        BY <2>3
      <3>2. CASE u # t
        BY <2>1, <3>1, <3>2, LockStepMoves, Move DEF Readers
      <3>3. CASE u = t
        BY <2>1, <2>2, <3>1, <3>3 DEF Readers, LockTypeOK, LockStep, reader_acquire, reader_release,
           writer_acquire, writer_release, Take, Return
      <3> QED
        BY <3>2, <3>3
    <2>4. CASE \E u \in Threads : EndReading(u) \/ EndWriting(u)
      BY <2>1, <2>4 DEF Readers, LockTypeOK, EndReading, EndWriting
    <2>5. CASE \E u \in Threads : \E line \in {"write_switch",
      "queue"} : at' = [at EXCEPT ![u] = line]
      BY <2>1, <2>5 DEF Readers, LockTypeOK
    <2>6. \/ \E u \in Threads : \/ LockStep(u) \/ EndReading(u) \/ EndWriting(u)
                                 \/ \E line \in {"write_switch",
                                   "queue"} : at' = [at EXCEPT ![u] = line]
          \/ UNCHANGED at
      BY DEF Next, vars, lockVars, Idle, Start, Step, add_event_listener, remove_event_listener,
         dispatch_event, list_event_listeners, Begin, insert, delete, listing, listed,
         copy_listeners,
         call_listener, release, join, Done, listener_returns
    <2> QED
      BY <2>3, <2>4, <2>5, <2>6
  <1> QED
    BY <1>1, LockInvariant, PTL DEF Spec, NewReadersWait
=============================================================================
