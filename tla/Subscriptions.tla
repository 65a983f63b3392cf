--------------------------- MODULE Subscriptions ---------------------------
(***************************************************************************)
(* core/task/subscribers.py with the websocket connections of               *)
(* core/web/api.py and core/message_bus.py: which subscribers exist, in     *)
(* memory and in the database, which of them are connected, and the cleaner *)
(* that removes the ones that are not.                                      *)
(*                                                                          *)
(* Every change is a coroutine: it reads memory, writes the database, reads *)
(* it back and replaces the memory, and suspends before each of the last    *)
(* three.                                                                   *)
(***************************************************************************)
EXTENDS Naturals, FiniteSets

CONSTANTS
    Subs,         \* ids of subscribers
    Events,       \* message types
    Reqs,         \* slots for concurrent REST requests
    Cleaner,      \* the operation of the cleaner, not a member of Reqs
    Conns,        \* slots for websocket connections
    NoSub,        \* no subscriber
    MaxRequests,  \* bound on the number of REST requests
    MaxRestarts   \* bound on restarts

ASSUME SlotAssumption == Cleaner \notin Reqs /\ NoSub \notin Subs
ASSUME BoundAssumption == MaxRequests \in Nat /\ MaxRestarts \in Nat

VARIABLES
    mem,                  \* _subscribers_by_id: id -> message types
    db,                   \* the collection of subscribers
    op,                   \* the changes that are under way
    conn,                 \* the websocket connections
    active_listener,      \* MessageBus.active_listener
    not_connected_since,  \* "none", "young", or "old": more than 3 minutes ago
    missing,              \* what the pass of the cleaner still has to look at
    grace,                \* the first 5 minutes after the start
    requests, restarts,   \* how many there have been
    overlap               \* history: a change did not run alone, none has since

vars == <<mem, db, op, conn, active_listener, not_connected_since, missing, grace,
          requests, restarts, overlap>>

Ops == Reqs \cup {Cleaner}
None == [s \in {} |-> {}]
With(f, s, v) == [x \in DOMAIN f \cup {s} |-> IF x = s THEN v ELSE f[x]]
Without(f, s) == [x \in DOMAIN f \ {s} |-> f[x]]

NoOp == [at |-> "idle", sub |-> NoSub, doc |-> {}, delete |-> FALSE, alone |-> FALSE,
         snapshot |-> None]
Closed == [at |-> "closed", sub |-> NoSub]

Init == /\ mem = None
        /\ db = None
        /\ op = [q \in Ops |-> NoOp]
        /\ conn = [c \in Conns |-> Closed]
        /\ active_listener = {}
        /\ not_connected_since = [s \in Subs |-> "none"]
        /\ missing = {}
        /\ grace = TRUE
        /\ requests = 0
        /\ restarts = 0
        /\ overlap = FALSE

InFlight == {q \in Ops : op[q].at # "idle"}
Subscribed(s) == IF s \in DOMAIN mem THEN mem[s] ELSE {}

\* The loop of the cleaner lets other coroutines run only while it removes a
\* subscriber.
Free == missing = {} \/ op[Cleaner].at # "idle"

-----------------------------------------------------------------------------
(* Changes: memory is read, then the database is written and read back *)

\* The change starts with the document, or the deletion, it computed from memory.
Change(q, s, doc, delete) ==
    /\ op' = [x \in Ops |->
                IF x = q THEN [at |-> "write", sub |-> s, doc |-> doc, delete |-> delete,
                               alone |-> InFlight = {}, snapshot |-> None]
                ELSE [op[x] EXCEPT !.alone = FALSE]]
    /\ overlap' = (overlap \/ InFlight # {})

Request(q) == /\ Free
              /\ op[q].at = "idle"
              /\ requests < MaxRequests
              /\ requests' = requests + 1
              /\ UNCHANGED <<mem, db, conn, active_listener, not_connected_since, missing, grace,
                             restarts>>

add_subscription(q, s, e) ==
    /\ Request(q)
    /\ e \notin Subscribed(s)
    /\ Change(q, s, Subscribed(s) \cup {e}, FALSE)

\* A subscriber without subscriptions is deleted.
remove_subscription(q, s, e) ==
    /\ Request(q)
    /\ e \in Subscribed(s)
    /\ Change(q, s, Subscribed(s) \ {e}, Subscribed(s) = {e})

update_subscriptions(q, s, es) ==
    /\ Request(q)
    /\ s \in DOMAIN mem => mem[s] # es
    /\ Change(q, s, es, FALSE)

remove_subscriber(q, s) ==
    /\ Request(q)
    /\ s \in DOMAIN mem
    /\ Change(q, s, {}, TRUE)

\* Mutation: the document is merged into the one that is there.
write_merged(q) ==
    LET s == op[q].sub
        old == IF s \in DOMAIN db THEN db[s] ELSE {}
    IN  /\ Free
        /\ op[q].at = "write"
        /\ db' = IF op[q].delete THEN Without(db, s) ELSE With(db, s, old \cup op[q].doc)
        /\ op' = [op EXCEPT ![q].at = "load"]
        /\ UNCHANGED <<mem, conn, active_listener, not_connected_since, missing, grace, requests,
                       restarts, overlap>>

\* The database is written.
write(q) ==
    /\ Free
    /\ op[q].at = "write"
    /\ db' = IF op[q].delete THEN Without(db, op[q].sub) ELSE With(db, op[q].sub, op[q].doc)
    /\ op' = [op EXCEPT ![q].at = "load"]
    /\ UNCHANGED <<mem, conn, active_listener, not_connected_since, missing, grace, requests,
                   restarts, overlap>>

\* __load_from_db reads the collection ...
load(q) ==
    /\ Free
    /\ op[q].at = "load"
    /\ op' = [op EXCEPT ![q].at = "assign", ![q].snapshot = db]
    /\ UNCHANGED <<mem, db, conn, active_listener, not_connected_since, missing, grace,
                   requests, restarts, overlap>>

\* Mutation: only the subscriber of the change is taken over.
load_from_db_own(q) ==
    mem' = IF op[q].sub \in DOMAIN op[q].snapshot THEN With(mem, op[q].sub, op[q].snapshot[op[q].sub])
           ELSE mem

load_from_db(q) == mem' = op[q].snapshot

\* ... and replaces what is in memory.  The cleaner then forgets the subscriber.
assign(q) ==
    LET s == op[q].sub
    IN  /\ Free
        /\ op[q].at = "assign"
        /\ load_from_db(q)
        /\ op' = [op EXCEPT ![q] = NoOp]
        /\ not_connected_since' = IF q = Cleaner THEN [not_connected_since EXCEPT ![s] = "none"]
                                  ELSE not_connected_since
        /\ overlap' = (overlap /\ ~op[q].alone)
        /\ UNCHANGED <<db, conn, active_listener, missing, grace, requests, restarts>>

-----------------------------------------------------------------------------
(* Connections *)

\* handle_subscribed: the checks, before the handshake of the websocket.
handle_subscribed(c, s) ==
    /\ Free
    /\ conn[c].at = "closed"
    /\ s \notin active_listener
    /\ Subscribed(s) # {}
    /\ conn' = [conn EXCEPT ![c] = [at |-> "prepare", sub |-> s]]
    /\ UNCHANGED <<mem, db, op, active_listener, not_connected_since, missing, grace, requests,
                   restarts, overlap>>

\* Mutation: the connection is listed instead of its subscriber.
subscribe_conn(c) ==
    /\ Free
    /\ conn[c].at = "prepare"
    /\ conn' = [conn EXCEPT ![c].at = "open"]
    /\ active_listener' = active_listener \cup {c}
    /\ UNCHANGED <<mem, db, op, not_connected_since, missing, grace, requests, restarts, overlap>>

\* MessageBus.subscribe
subscribe(c) ==
    /\ Free
    /\ conn[c].at = "prepare"
    /\ conn' = [conn EXCEPT ![c].at = "open"]
    /\ active_listener' = active_listener \cup {conn[c].sub}
    /\ UNCHANGED <<mem, db, op, not_connected_since, missing, grace, requests, restarts, overlap>>

\* Mutation: the listener is not taken off the books.
unsubscribe_keeps(c) ==
    /\ Free
    /\ conn[c].at = "open"
    /\ conn' = [conn EXCEPT ![c] = Closed]
    /\ UNCHANGED <<mem, db, op, active_listener, not_connected_since, missing, grace, requests,
                   restarts, overlap>>

\* The finally block of MessageBus.subscribe.
unsubscribe(c) ==
    /\ Free
    /\ conn[c].at = "open"
    /\ conn' = [conn EXCEPT ![c] = Closed]
    /\ active_listener' = active_listener \ {conn[c].sub}
    /\ UNCHANGED <<mem, db, op, not_connected_since, missing, grace, requests, restarts, overlap>>

-----------------------------------------------------------------------------
(* The cleaner, a Periodic *)

\* The pass starts: connected subscribers are forgotten, the others collected.
check_outdated_handler ==
    /\ ~grace
    /\ missing = {} /\ op[Cleaner].at = "idle"
    /\ not_connected_since' = [s \in Subs |-> IF s \in active_listener THEN "none"
                                              ELSE not_connected_since[s]]
    /\ missing' = DOMAIN mem \ active_listener
    /\ UNCHANGED <<mem, db, op, conn, active_listener, grace, requests, restarts, overlap>>

\* Mutation: the timestamp is taken anew in every pass.
outdated_restamped(s) ==
    /\ op[Cleaner].at = "idle"
    /\ s \in missing
    /\ missing' = missing \ {s}
    /\ not_connected_since' = [not_connected_since EXCEPT ![s] = "young"]
    /\ UNCHANGED <<mem, db, op, conn, active_listener, grace, requests, restarts, overlap>>

\* One subscriber of the pass: removed if its timestamp is old and memory still
\* has it, stamped if it has none.
outdated(s) ==
    /\ op[Cleaner].at = "idle"
    /\ s \in missing
    /\ missing' = missing \ {s}
    /\ \/ /\ not_connected_since[s] = "old" /\ s \in DOMAIN mem
          /\ Change(Cleaner, s, {}, TRUE)
          /\ UNCHANGED not_connected_since
       \/ /\ not_connected_since[s] = "old" /\ s \notin DOMAIN mem
          /\ not_connected_since' = [not_connected_since EXCEPT ![s] = "none"]
          /\ UNCHANGED <<op, overlap>>
       \/ /\ not_connected_since[s] = "young"
          /\ UNCHANGED <<op, overlap, not_connected_since>>
       \/ /\ not_connected_since[s] = "none"
          /\ not_connected_since' = [not_connected_since EXCEPT ![s] = "young"]
          /\ UNCHANGED <<op, overlap>>
    /\ UNCHANGED <<mem, db, conn, active_listener, grace, requests, restarts>>

\* Time passes: a timestamp gets old, the grace period ends.
Age(s) ==
    /\ Free
    /\ not_connected_since[s] = "young"
    /\ not_connected_since' = [not_connected_since EXCEPT ![s] = "old"]
    /\ UNCHANGED <<mem, db, op, conn, active_listener, missing, grace, requests, restarts,
                   overlap>>

GraceEnds ==
    /\ Free
    /\ grace
    /\ grace' = FALSE
    /\ UNCHANGED <<mem, db, op, conn, active_listener, not_connected_since, missing, requests,
                   restarts, overlap>>

\* The process dies and start() loads the subscribers from the database.
start ==
    /\ restarts < MaxRestarts
    /\ restarts' = restarts + 1
    /\ mem' = db
    /\ op' = [q \in Ops |-> NoOp]
    /\ conn' = [c \in Conns |-> Closed]
    /\ active_listener' = {}
    /\ not_connected_since' = [s \in Subs |-> "none"]
    /\ missing' = {}
    /\ grace' = TRUE
    /\ overlap' = FALSE
    /\ UNCHANGED <<db, requests>>

OpStep(q) == write(q) \/ load(q) \/ assign(q)
CleanerStep == check_outdated_handler \/ \E s \in Subs : outdated(s)

Next == \/ \E q \in Reqs, s \in Subs :
             \/ \E e \in Events : add_subscription(q, s, e) \/ remove_subscription(q, s, e)
             \/ \E es \in SUBSET Events : update_subscriptions(q, s, es)
             \/ remove_subscriber(q, s)
        \/ \E q \in Ops : OpStep(q)
        \/ \E c \in Conns : (\E s \in Subs : handle_subscribed(c, s)) \/ subscribe(c) \/ unsubscribe(c)
        \/ \E s \in Subs : Age(s)
        \/ GraceEnds \/ CleanerStep \/ start

Spec == Init /\ [][Next]_vars

\* The event loop serves every coroutine, the cleaner runs and time passes;
\* fairness is strong because the loop of the cleaner holds up the others for a
\* moment in every pass.
Fairness == /\ \A q \in Ops : SF_vars(OpStep(q))
            /\ WF_vars(CleanerStep) /\ SF_vars(GraceEnds)
            /\ \A s \in Subs : SF_vars(Age(s))

FairSpec == Spec /\ Fairness

-----------------------------------------------------------------------------
(* Properties *)

Tables == UNION {[ss -> SUBSET Events] : ss \in SUBSET Subs}

\* Every variable has the type its Python counterpart has.
TypeOK == /\ mem \in Tables /\ db \in Tables
          /\ \A q \in Ops : /\ op[q].at \in {"idle", "write", "load", "assign"}
                            /\ op[q].sub \in Subs \cup {NoSub}
                            /\ op[q].snapshot \in Tables
          /\ conn \in [Conns -> [at : {"closed", "prepare", "open"}, sub : Subs \cup {NoSub}]]
          /\ active_listener \subseteq Subs /\ missing \subseteq Subs
          /\ not_connected_since \in [Subs -> {"none", "young", "old"}]

\* Changes that do not overlap leave memory and database the same, and a change
\* that runs alone repairs what overlapping ones have left behind.
SyncedWithoutOverlap == InFlight = {} /\ ~overlap => mem = db

\* A change that runs alone takes effect as it was computed, although memory was
\* read three awaits before it is replaced, and changes no other subscriber
\* unless it repairs what overlapping changes have left behind.
AloneTakesEffect ==
    [][\A q \in Ops : op[q].at = "assign" /\ op'[q].at = "idle" /\ op[q].alone =>
          /\ op[q].sub \in DOMAIN mem' <=> ~op[q].delete
          /\ ~op[q].delete => mem'[op[q].sub] = op[q].doc
          /\ ~overlap => Without(mem', op[q].sub) = Without(mem, op[q].sub)]_vars

\* Whoever is listed as listening has an open connection: the cleaner never
\* spares a subscriber that is gone.
ListenersAreOpen ==
    active_listener \subseteq {conn[c].sub : c \in {x \in Conns : conn[x].at = "open"}}

\* A subscriber that stays away is removed, once nothing else changes it.
DeadSubscriberRemoved ==
    \A s \in Subs :
        <>[](s \notin active_listener /\ \A q \in Reqs : op[q].at = "idle") => <>[](s \notin DOMAIN mem)

\* "SubscriptionHandler maintains all subscriptions in memory and syncs its
\* internal state with the underlying db."
MemoryInSync == InFlight = {} => mem = db
=============================================================================
