------------------------ MODULE SubscriptionsProofs ------------------------
(***************************************************************************)
(* Memory and database of the subscription handler agree unless changes    *)
(* overlap, a change that runs alone takes effect and repairs what         *)
(* overlapping ones have left, and the listeners of the message bus are    *)
(* connected, for any subscribers, events, requests and connections.       *)
(***************************************************************************)
EXTENDS Subscriptions, TLAPS

-----------------------------------------------------------------------------
(* The inductive invariant *)

OpType == [at : {"idle", "write", "load", "assign"}, sub : Subs \cup {NoSub},
           doc : SUBSET Events, delete : BOOLEAN, alone : BOOLEAN, snapshot : Tables]

Typed == /\ mem \in Tables /\ db \in Tables
         /\ op \in [Ops -> OpType]
         /\ conn \in [Conns -> [at : {"closed", "prepare", "open"}, sub : Subs \cup {NoSub}]]
         /\ missing \subseteq Subs
         /\ \A q \in Ops : op[q].at # "idle" => op[q].sub \in Subs
         /\ overlap \in BOOLEAN

\* A change that runs alone is the only one there is; without overlap each one is.
AloneInv == /\ \A q \in Ops : op[q].alone => InFlight = {q}
            /\ ~overlap => \A q \in InFlight : op[q].alone

\* Before the write, memory and database are what they were when memory was read.
BeforeWrite == \A q \in Ops : op[q].alone /\ op[q].at = "write" /\ ~overlap => mem = db

\* The database holds the change, and differs from memory in nothing else.
Written(q) == /\ op[q].sub \in DOMAIN db <=> ~op[q].delete
              /\ ~op[q].delete => db[op[q].sub] = op[q].doc
              /\ ~overlap => Without(db, op[q].sub) = Without(mem, op[q].sub)

AfterWrite == \A q \in Ops : op[q].alone /\ op[q].at \in {"load", "assign"} => Written(q)

\* What was read back is still what the database holds.
SnapshotIsFresh == \A q \in Ops : op[q].alone /\ op[q].at = "assign" => op[q].snapshot = db

SyncInv == /\ Typed /\ AloneInv /\ SyncedWithoutOverlap
           /\ BeforeWrite /\ AfterWrite /\ SnapshotIsFresh

-----------------------------------------------------------------------------
(* Tables of subscribers *)

\* The empty table
LEMMA NoneIsTable == None \in Tables
  BY DEF None, Tables

\* An operation that is not under way
LEMMA NoOpTyped == NoOp \in OpType /\ NoOp.at = "idle" /\ ~NoOp.alone
  BY NoneIsTable DEF NoOp, OpType

\* Adding, replacing and deleting an entry, and what all that leaves alone.
LEMMA WithTable ==
    ASSUME NEW f \in Tables, NEW s \in Subs, NEW v \in SUBSET Events
    PROVE  /\ With(f, s, v) \in Tables
           /\ s \in DOMAIN With(f, s, v) /\ With(f, s, v)[s] = v
           /\ Without(With(f, s, v), s) = Without(f, s)
  BY DEF With, Without, Tables

\* A table without one of its entries
LEMMA WithoutTable ==
    ASSUME NEW f \in Tables, NEW s \in Subs
    PROVE  /\ Without(f, s) \in Tables
           /\ s \notin DOMAIN Without(f, s)
           /\ Without(Without(f, s), s) = Without(f, s)
  <1>1. DOMAIN f \in SUBSET Subs /\ f \in [DOMAIN f -> SUBSET Events]
    BY DEF Tables
  <1>2. /\ DOMAIN Without(f, s) = DOMAIN f \ {s}
        /\ Without(f, s) \in [DOMAIN f \ {s} -> SUBSET Events]
        /\ \A x \in DOMAIN f \ {s} : Without(f, s)[x] = f[x]
    BY <1>1 DEF Without
  <1>3. Without(f, s) \in Tables
    BY <1>1, <1>2 DEF Tables
  <1>4. Without(Without(f, s), s) = Without(f, s)
    BY <1>2 DEF Without
  <1> QED
    BY <1>2, <1>3, <1>4

\* What memory lists for a subscriber are events.
LEMMA SubscribedTyped ==
    ASSUME Typed, NEW s \in Subs
    PROVE  Subscribed(s) \in SUBSET Events
  BY DEF Typed, Tables, Subscribed

-----------------------------------------------------------------------------
(* Every step preserves the invariant *)

\* A change begins.
LEMMA ChangeKeeps ==
    ASSUME SyncInv, NEW q \in Ops, op[q].at = "idle", NEW s \in Subs, NEW doc \in SUBSET Events,
           NEW delete \in BOOLEAN, Change(q, s, doc, delete), UNCHANGED <<mem, db, conn>>,
           missing' \subseteq Subs
    PROVE  SyncInv'
  <1> DEFINE new == [at |-> "write", sub |-> s, doc |-> doc, delete |-> delete,
                     alone |-> InFlight = {}, snapshot |-> None]
  <1>1. new \in OpType /\ new.at = "write" /\ new.sub = s /\ (new.alone <=> InFlight = {})
    BY NoneIsTable DEF OpType
  <1>2. op'[q] = new /\ \A x \in Ops \ {q} : op'[x] = [op[x] EXCEPT !.alone = FALSE]
    BY DEF Change
  <1> HIDE DEF new
  <1>3. ASSUME NEW x \in Ops \ {q}
        PROVE  op'[x] \in OpType /\ op'[x].at = op[x].at /\ op'[x].sub = op[x].sub /\ ~op'[x].alone
    <2>1. op[x] \in OpType /\ op'[x] = [op[x] EXCEPT !.alone = FALSE]
      BY <1>2 DEF SyncInv, Typed
    <2> QED
      BY <2>1 DEF OpType
  <1>4. op' \in [Ops -> OpType] /\ overlap' \in BOOLEAN
    BY <1>1, <1>2, <1>3 DEF Change
  <1>5. InFlight' = InFlight \cup {q} /\ q \notin InFlight
    BY <1>1, <1>2, <1>3 DEF InFlight
  <1>6. overlap' <=> (overlap \/ InFlight # {})
    BY DEF Change
  <1>7. AloneInv'
    BY <1>1, <1>2, <1>3, <1>5, <1>6 DEF AloneInv, SyncInv
  <1>8. Typed'
    BY <1>1, <1>2, <1>3, <1>4 DEF SyncInv, Typed
  <1>9. BeforeWrite'
    BY <1>1, <1>2, <1>3, <1>6 DEF BeforeWrite, SyncInv, SyncedWithoutOverlap
  <1>10. AfterWrite' /\ SnapshotIsFresh'
    BY <1>1, <1>2, <1>3 DEF AfterWrite, SnapshotIsFresh
  <1> QED
    BY <1>5, <1>7, <1>8, <1>9, <1>10 DEF SyncInv, SyncedWithoutOverlap

\* A change is written to the database.
LEMMA WriteKeeps ==
    ASSUME SyncInv, NEW q \in Ops, write(q)
    PROVE  SyncInv'
  <1>0. Typed /\ AloneInv /\ BeforeWrite /\ AfterWrite /\ SnapshotIsFresh
    BY DEF SyncInv
  <1>1. /\ op' = [op EXCEPT ![q].at = "load"] /\ op[q].at = "write" /\ q \in InFlight
        /\ UNCHANGED <<mem, conn, missing, overlap>>
    BY DEF write, InFlight
  <1>2. /\ op'[q] = [op[q] EXCEPT !.at = "load"] /\ op'[q] \in OpType /\ op'[q].at = "load"
        /\ op'[q].sub = op[q].sub /\ op'[q].doc = op[q].doc /\ op'[q].delete = op[q].delete
        /\ op'[q].alone = op[q].alone
        /\ \A x \in Ops \ {q} : op'[x] = op[x]
        /\ op' \in [Ops -> OpType]
    BY <1>0, <1>1 DEF Typed, OpType
  <1>3. InFlight' = InFlight
    BY <1>1, <1>2 DEF InFlight
  <1>4. op[q].sub \in Subs /\ op[q].doc \in SUBSET Events /\ op[q].delete \in BOOLEAN /\ db \in Tables
    BY <1>0, <1>1 DEF Typed, OpType
  <1>5. /\ db' \in Tables
        /\ op[q].sub \in DOMAIN db' <=> ~op[q].delete
        /\ ~op[q].delete => db'[op[q].sub] = op[q].doc
        /\ Without(db', op[q].sub) = Without(db, op[q].sub)
    BY <1>4, WithTable, WithoutTable DEF write
  <1>6. Typed'
    BY <1>0, <1>1, <1>2, <1>5 DEF Typed
  <1>7. AloneInv'
    BY <1>0, <1>1, <1>2, <1>3 DEF AloneInv
  <1>8. \A x \in Ops \ {q} : ~op'[x].alone
    BY <1>0, <1>1, <1>2 DEF AloneInv
  <1>9. AfterWrite'
    BY <1>0, <1>1, <1>2, <1>5, <1>8 DEF AfterWrite, BeforeWrite, Written
  <1>10. BeforeWrite' /\ SnapshotIsFresh'
    BY <1>1, <1>2, <1>8 DEF BeforeWrite, SnapshotIsFresh
  <1>11. SyncedWithoutOverlap'
    BY <1>1, <1>3 DEF SyncedWithoutOverlap
  <1> QED
    BY <1>6, <1>7, <1>9, <1>10, <1>11 DEF SyncInv

\* The database is read again after a change.
LEMMA LoadKeeps ==
    ASSUME SyncInv, NEW q \in Ops, load(q)
    PROVE  SyncInv'
  <1>0. Typed /\ AloneInv /\ BeforeWrite /\ AfterWrite /\ SnapshotIsFresh
    BY DEF SyncInv
  <1>1. /\ op' = [op EXCEPT ![q].at = "assign", ![q].snapshot = db] /\ op[q].at = "load"
        /\ q \in InFlight /\ UNCHANGED <<mem, db, conn, missing, overlap>>
    BY DEF load, InFlight
  <1> DEFINE new == [[op[q] EXCEPT !.at = "assign"] EXCEPT !.snapshot = db]
  <1>a. /\ op[q] \in OpType /\ db \in Tables
        /\ op' = [op EXCEPT ![q] = new]
    BY <1>0, <1>1 DEF Typed
  <1>b. /\ new \in OpType /\ new.at = "assign" /\ new.snapshot = db /\ new.sub = op[q].sub
        /\ new.doc = op[q].doc /\ new.delete = op[q].delete /\ new.alone = op[q].alone
    BY <1>a DEF OpType
  <1> HIDE DEF new
  <1>2. /\ op'[q] \in OpType /\ op'[q].at = "assign" /\ op'[q].snapshot = db
        /\ op'[q].sub = op[q].sub /\ op'[q].doc = op[q].doc /\ op'[q].delete = op[q].delete
        /\ op'[q].alone = op[q].alone
        /\ \A x \in Ops \ {q} : op'[x] = op[x]
        /\ op' \in [Ops -> OpType]
    BY <1>0, <1>a, <1>b DEF Typed
  <1>3. InFlight' = InFlight
    BY <1>1, <1>2 DEF InFlight
  <1>4. Typed' /\ AloneInv'
    BY <1>0, <1>1, <1>2, <1>3 DEF Typed, AloneInv
  <1>5. AfterWrite' /\ BeforeWrite' /\ SnapshotIsFresh'
    BY <1>0, <1>1, <1>2 DEF AfterWrite, BeforeWrite, SnapshotIsFresh, Written
  <1>6. SyncedWithoutOverlap'
    BY <1>1, <1>3 DEF SyncedWithoutOverlap
  <1> QED
    BY <1>4, <1>5, <1>6 DEF SyncInv

\* What was read replaces the table in memory.
LEMMA AssignKeeps ==
    ASSUME SyncInv, NEW q \in Ops, assign(q)
    PROVE  SyncInv'
  <1>0. Typed /\ AloneInv /\ BeforeWrite /\ AfterWrite /\ SnapshotIsFresh
    BY DEF SyncInv
  <1>1. /\ op' = [op EXCEPT ![q] = NoOp] /\ op[q].at = "assign" /\ mem' = op[q].snapshot
        /\ (overlap' <=> overlap /\ ~op[q].alone) /\ overlap' \in BOOLEAN
        /\ q \in InFlight /\ UNCHANGED <<db, conn, missing>>
    BY DEF assign, load_from_db, InFlight
  <1>2. /\ op'[q] = NoOp /\ op'[q].at = "idle" /\ ~op'[q].alone
        /\ \A x \in Ops \ {q} : op'[x] = op[x]
        /\ op' \in [Ops -> OpType]
    BY <1>0, <1>1, NoOpTyped DEF Typed
  <1>3. InFlight' = InFlight \ {q}
    BY <1>1, <1>2 DEF InFlight
  <1>4. Typed'
    BY <1>0, <1>1, <1>2 DEF Typed, OpType
  <1>5. \A x \in Ops : ~op'[x].alone
    BY <1>0, <1>1, <1>2 DEF AloneInv
  <1>6. AloneInv'
    BY <1>0, <1>1, <1>2, <1>3, <1>5 DEF AloneInv
  <1>7. AfterWrite' /\ BeforeWrite' /\ SnapshotIsFresh'
    BY <1>5 DEF AfterWrite, BeforeWrite, SnapshotIsFresh
  <1>8. SyncedWithoutOverlap'
    BY <1>0, <1>1, <1>3 DEF SyncedWithoutOverlap, SnapshotIsFresh, AloneInv
  <1> QED
    BY <1>4, <1>6, <1>7, <1>8 DEF SyncInv

\* A restart leaves nothing under way.
LEMMA StartKeeps ==
    ASSUME SyncInv, start
    PROVE  SyncInv'
  <1>1. op' \in [Ops -> OpType] /\ \A q \in Ops : op'[q].at = "idle" /\ ~op'[q].alone
    BY NoOpTyped DEF start
  <1>2. Typed'
    BY <1>1 DEF start, SyncInv, Typed, Closed
  <1> QED
    BY <1>1, <1>2 DEF start, SyncInv, AloneInv, InFlight, SyncedWithoutOverlap, BeforeWrite,
       AfterWrite, SnapshotIsFresh

\* Connections, timestamps and the rest do not matter.
LEMMA OtherKeeps ==
    ASSUME SyncInv, UNCHANGED <<mem, db, op, overlap>>, missing' \subseteq Subs,
           conn' \in [Conns -> [at : {"closed", "prepare", "open"}, sub : Subs \cup {NoSub}]]
    PROVE  SyncInv'
  BY DEF SyncInv, Typed, AloneInv, InFlight, SyncedWithoutOverlap, BeforeWrite, AfterWrite,
         SnapshotIsFresh, Written

\* Every step keeps the invariant.
LEMMA Consecution ==
    ASSUME SyncInv, [Next]_vars
    PROVE  SyncInv'
  <1>0. Typed
    BY DEF SyncInv
  <1>1. ASSUME NEW q \in Reqs, NEW s \in Subs, NEW e \in Events,
               add_subscription(q, s, e) \/ remove_subscription(q, s, e)
        PROVE  SyncInv'
    <2>1. /\ q \in Ops /\ op[q].at = "idle" /\ UNCHANGED <<mem, db, conn, missing>>
          /\ missing' \subseteq Subs
      BY <1>0, <1>1 DEF add_subscription, remove_subscription, Request, Ops, Typed
    <2>2. \E doc \in SUBSET Events, delete \in BOOLEAN : Change(q, s, doc, delete)
      BY <1>0, <1>1, SubscribedTyped DEF add_subscription, remove_subscription
    <2> QED
      BY <2>1, <2>2, ChangeKeeps
  <1>2. ASSUME NEW q \in Reqs, NEW s \in Subs, NEW es \in SUBSET Events,
               update_subscriptions(q, s, es) \/ remove_subscriber(q, s)
        PROVE  SyncInv'
    <2>1. /\ q \in Ops /\ op[q].at = "idle" /\ UNCHANGED <<mem, db, conn, missing>>
          /\ missing' \subseteq Subs
      BY <1>0, <1>2 DEF update_subscriptions, remove_subscriber, Request, Ops, Typed
    <2>2. \E doc \in SUBSET Events, delete \in BOOLEAN : Change(q, s, doc, delete)
      BY <1>2 DEF update_subscriptions, remove_subscriber
    <2> QED
      BY <2>1, <2>2, ChangeKeeps
  <1>3. ASSUME NEW q \in Ops, OpStep(q)
        PROVE  SyncInv'
    BY <1>3, WriteKeeps, LoadKeeps, AssignKeeps DEF OpStep
  <1>4. ASSUME NEW c \in Conns, NEW s \in Subs, handle_subscribed(c, s)
        PROVE  SyncInv'
    BY <1>0, <1>4, OtherKeeps DEF handle_subscribed, Typed
  <1>5. ASSUME NEW c \in Conns, subscribe(c) \/ unsubscribe(c)
        PROVE  SyncInv'
    BY <1>0, <1>5, OtherKeeps DEF subscribe, unsubscribe, Typed, Closed
  <1>6. ASSUME NEW s \in Subs, Age(s)
        PROVE  SyncInv'
    BY <1>0, <1>6, OtherKeeps DEF Age, Typed
  <1>7. CASE check_outdated_handler
    <2>1. DOMAIN mem \subseteq Subs
      BY <1>0 DEF Typed, Tables
    <2> QED
      BY <1>0, <1>7, <2>1, OtherKeeps DEF check_outdated_handler, Typed
  <1>8. ASSUME NEW s \in Subs, outdated(s)
        PROVE  SyncInv'
    <2>1. /\ Cleaner \in Ops /\ op[Cleaner].at = "idle" /\ UNCHANGED <<mem, db, conn>>
          /\ missing' \subseteq Subs
      BY <1>0, <1>8 DEF outdated, Ops, Typed
    <2>2. UNCHANGED <<op, overlap>> \/ Change(Cleaner, s, {}, TRUE)
      BY <1>8 DEF outdated
    <2>3. CASE Change(Cleaner, s, {}, TRUE)
      <3>1. {} \in SUBSET Events /\ TRUE \in BOOLEAN
        OBVIOUS
      <3> QED
        BY <2>1, <2>3, <3>1, ChangeKeeps
    <2>4. CASE UNCHANGED <<op, overlap>>
      BY <1>0, <2>1, <2>4, OtherKeeps DEF Typed
    <2> QED
      BY <2>2, <2>3, <2>4
  <1>9. CASE start
    BY <1>9, StartKeeps
  <1>10. CASE UNCHANGED vars
    BY <1>0, <1>10, OtherKeeps DEF vars, Typed
  <1>11. CASE GraceEnds
    BY <1>0, <1>11, OtherKeeps DEF GraceEnds, Typed
  <1> QED
    BY <1>1, <1>2, <1>3, <1>4, <1>5, <1>6, <1>7, <1>8, <1>9, <1>10, <1>11 DEF Next, CleanerStep

-----------------------------------------------------------------------------
(* Theorems *)

\* The books of the handler at every await of every change.
THEOREM SyncInvariant == Spec => []SyncInv
  <1>1. Init => SyncInv
    <2> SUFFICES ASSUME Init PROVE SyncInv
      OBVIOUS
    <2>1. op \in [Ops -> OpType] /\ \A q \in Ops : op[q].at = "idle" /\ ~op[q].alone
      BY NoOpTyped DEF Init
    <2>2. Typed
      BY <2>1, NoneIsTable DEF Init, Typed, Closed
    <2> QED
      BY <2>1, <2>2 DEF Init, SyncInv, AloneInv, InFlight, SyncedWithoutOverlap, BeforeWrite,
         AfterWrite, SnapshotIsFresh
  <1>2. SyncInv /\ [Next]_vars => SyncInv'
    BY Consecution
  <1> QED
    BY <1>1, <1>2, PTL DEF Spec

\* Memory and database agree whenever no change is under way and none has overlapped
\* with another since a change last ran alone, for any number of subscribers, of
\* requests at once, and of restarts.
THEOREM MemoryFollowsDatabase == Spec => []SyncedWithoutOverlap
  BY SyncInvariant, PTL DEF SyncInv

\* A change that runs alone takes effect as it was computed, over its three awaits, and
\* leaves the other subscribers as they were.
THEOREM ChangesAloneTakeEffect == Spec => AloneTakesEffect
  <1> DEFINE A == \A q \in Ops : op[q].at = "assign" /\ op'[q].at = "idle" /\ op[q].alone =>
                    /\ op[q].sub \in DOMAIN mem' <=> ~op[q].delete
                    /\ ~op[q].delete => mem'[op[q].sub] = op[q].doc
                    /\ ~overlap => Without(mem', op[q].sub) = Without(mem, op[q].sub)
  <1>1. SyncInv /\ [Next]_vars => [A]_vars
    <2> SUFFICES ASSUME SyncInv, Next, NEW q \in Ops, op[q].at = "assign", op'[q].at = "idle",
                        op[q].alone
                 PROVE  /\ op[q].sub \in DOMAIN mem' <=> ~op[q].delete
                        /\ ~op[q].delete => mem'[op[q].sub] = op[q].doc
                        /\ ~overlap => Without(mem', op[q].sub) = Without(mem, op[q].sub)
      OBVIOUS
    <2>1. op[q].snapshot = db /\ Written(q)
      BY DEF SyncInv, SnapshotIsFresh, AfterWrite
    <2>2. mem' = db
      <3>1. CASE assign(q)
        BY <2>1, <3>1 DEF assign, load_from_db
      <3>2. CASE start
        BY <3>2 DEF start
      <3>3. op'[q].at = op[q].at \/ assign(q) \/ start
        <4>0. op \in [Ops -> OpType]
          BY DEF SyncInv, Typed
        <4>1. ASSUME NEW p \in Ops, NEW s, NEW doc, NEW delete, Change(p, s, doc, delete), p # q
              PROVE  op'[q].at = op[q].at
          BY <4>0, <4>1 DEF Change, OpType
        <4>2. ASSUME NEW p \in Reqs, Request(p)
              PROVE  p # q /\ p \in Ops
          BY <4>2 DEF Request, Ops
        <4>3. ASSUME NEW p \in Ops, OpStep(p)
              PROVE  op'[q].at = op[q].at \/ assign(q)
          BY <4>0, <4>3 DEF OpStep, write, load, assign, OpType
        <4>4. ASSUME NEW s \in Subs, outdated(s)
              PROVE  op'[q].at = op[q].at
          <5>1. Cleaner \in Ops /\ Cleaner # q
            BY <4>4 DEF outdated, Ops
          <5> QED
            BY <4>1, <4>4, <5>1 DEF outdated
        <4> QED
          BY <4>1, <4>2, <4>3, <4>4 DEF Next, add_subscription, remove_subscription,
             update_subscriptions, remove_subscriber, handle_subscribed, subscribe, unsubscribe, Age,
             GraceEnds, CleanerStep, check_outdated_handler
      <3> QED
        BY <3>1, <3>2, <3>3
    <2> QED
      BY <2>1, <2>2 DEF Written
  <1> QED
    BY <1>1, SyncInvariant, PTL DEF Spec, AloneTakesEffect

\* Whoever the message bus lists as listening has an open connection: closing one
\* connection of a subscriber that has two takes it off the list, never the reverse.
THEOREM ListenersHaveConnections == Spec => []ListenersAreOpen
  <1> DEFINE Inv == /\ conn \in [Conns -> [at : {"closed", "prepare", "open"}, sub : Subs \cup {NoSub}]]
                    /\ ListenersAreOpen
  <1>1. Init => Inv
    BY DEF Init, ListenersAreOpen, Closed
  <1>2. Inv /\ [Next]_vars => Inv'
    <2> SUFFICES ASSUME Inv, [Next]_vars PROVE Inv'
      OBVIOUS
    <2>1. ASSUME NEW c \in Conns, NEW s \in Subs, handle_subscribed(c, s)
          PROVE  Inv'
      BY <2>1 DEF handle_subscribed, ListenersAreOpen
    <2>2. ASSUME NEW c \in Conns, subscribe(c)
          PROVE  Inv'
      BY <2>2 DEF subscribe, ListenersAreOpen
    <2>3. ASSUME NEW c \in Conns, unsubscribe(c)
          PROVE  Inv'
      BY <2>3 DEF unsubscribe, ListenersAreOpen, Closed
    <2>4. CASE start
      BY <2>4 DEF start, ListenersAreOpen, Closed
    <2>5. CASE UNCHANGED <<conn, active_listener>>
      BY <2>5 DEF ListenersAreOpen
    <2> QED
      BY <2>1, <2>2, <2>3, <2>4, <2>5 DEF Next, vars, OpStep, CleanerStep, Request,
         add_subscription, remove_subscription, update_subscriptions, remove_subscriber, write, load,
         assign, Age, GraceEnds, check_outdated_handler, outdated
  <1> QED
    BY <1>1, <1>2, PTL DEF Spec
=============================================================================
