---------------------------- MODULE EventDispatch ----------------------------
(***************************************************************************)
(* Event listeners of resotolib.  Threads register and unregister          *)
(* listeners, dispatch an event to all of them, and list them; the table   *)
(* of listeners is guarded by the reader-writer lock.  A dispatcher copies *)
(* the table under the lock, and goes through its copy without it: other   *)
(* threads may change the table, and dispatch the same event, meanwhile.   *)
(*                                                                         *)
(* A listener may be registered again after it was removed.  Every         *)
(* registration has a lock of its own, which the copies share.             *)
(***************************************************************************)
EXTENDS RWLock, Sequences, FiniteSetsExt

CONSTANTS
    Listeners,   \* listeners of the event
    OneShot,     \* those that are registered as one-shot listeners
    Blocking,    \* those dispatchers wait for
    Changing,    \* those that are registered and removed by the threads
    MaxOps       \* bound on the operations of all threads

ASSUME EventAssumption == OneShot \cup Blocking \cup Changing \subseteq Listeners /\ MaxOps \in Nat

VARIABLES
    key,       \* whether the event is a key of the table
    table,     \* the registrations in the table: <<number, listener>>
    locked,    \* registrations whose lock is taken
    made,      \* number of registrations made so far
    op,        \* op[t]: what thread t does, "none" if nothing
    todo,      \* todo[t]: registrations of its copy a dispatcher has not dealt with
    cur,       \* cur[t]: the registration it deals with
    waits,     \* waits[t]: registrations whose listener thread it waits for
    called,    \* listeners called: <<dispatcher, registration>>
    hangs,     \* threads of blocking listeners that have not returned: <<dispatcher, registration>>
    ops,       \* number of operations begun
    raised     \* threads an exception has ended the operation of

callVars == <<key, table, locked, made, todo, cur, waits, called, hangs, raised>>
vars == <<lockVars, callVars, op, ops>>

None == <<0, "none">>
registered(l) == \E r \in table : r[2] = l

Init ==
    /\ LockInit
    /\ made = Cardinality(Listeners)
    /\ table \in {R \in SUBSET ((1..made) \X Listeners) :
                    Cardinality(R) = made /\ {r[1] : r \in R} = 1..made /\ {r[2] : r \in R} = Listeners}
    /\ key = TRUE /\ locked = {}
    /\ op = [t \in Threads |-> "none"]
    /\ todo = [t \in Threads |-> {}]
    /\ cur = [t \in Threads |-> None]
    /\ waits = [t \in Threads |-> {}]
    /\ called = {} /\ hangs = {} /\ raised = {}
    /\ ops = 0

\* A thread begins an operation with the lock it needs first.
Begin(t, o, line) ==
    /\ op[t] = "none" /\ ops < MaxOps
    /\ op' = [op EXCEPT ![t] = o]
    /\ ops' = ops + 1
    /\ at' = [at EXCEPT ![t] = line]
    /\ UNCHANGED <<held, readers, writers>>

\* The body under the lock is over: the lock is returned next.
EndReading(t) ==
    /\ at[t] = "reading"
    /\ at' = [at EXCEPT ![t] = "unread_switch"]
    /\ UNCHANGED <<held, readers, writers>>

EndWriting(t) ==
    /\ at[t] = "writing"
    /\ at' = [at EXCEPT ![t] = "unwrite_switch"]
    /\ held' = held \ {"no_writers"}
    /\ UNCHANGED <<readers, writers>>

-----------------------------------------------------------------------------
(* add_event_listener, remove_event_listener, list_event_listeners *)

add_event_listener(t, l) ==
    /\ Begin(t, "add", "write_switch")
    /\ cur' = [cur EXCEPT ![t] = <<0, l>>]
    /\ UNCHANGED <<key, table, locked, made, todo, waits, called, hangs, raised>>

insert(t) ==
    LET l == cur[t][2]
    IN  /\ op[t] = "add" /\ EndWriting(t)
        /\ IF registered(l) THEN UNCHANGED <<key, table, made>>
           ELSE /\ made' = made + 1
                /\ table' = table \cup {<<made + 1, l>>}
                /\ key' = TRUE
        /\ cur' = [cur EXCEPT ![t] = None]
        /\ UNCHANGED <<op, ops, locked, todo, waits, called, hangs, raised>>

remove_event_listener(t, l) ==
    /\ Begin(t, "remove", "write_switch")
    /\ cur' = [cur EXCEPT ![t] = <<0, l>>]
    /\ UNCHANGED <<key, table, locked, made, todo, waits, called, hangs, raised>>

\* The key goes with the last of its listeners.
delete(t) ==
    /\ op[t] = "remove" \/ (op[t] = "dispatch" /\ cur[t] # None)
    /\ EndWriting(t)
    /\ table' = {r \in table : r[2] # cur[t][2]}
    /\ key' = (key /\ (table' # {} \/ ~registered(cur[t][2])))
    /\ cur' = IF op[t] = "remove" THEN [cur EXCEPT ![t] = None] ELSE cur
    /\ UNCHANGED <<op, ops, locked, made, todo, waits, called, hangs, raised>>

list_event_listeners(t) ==
    /\ Begin(t, "list", "queue")
    /\ UNCHANGED callVars

\* The generator goes on with the iteration of the dictionary at its own pace; a key
\* that was added meanwhile ends it with an exception.
listing(t) ==
    /\ op[t] = "list" /\ at[t] = "reading"
    /\ op' = [op EXCEPT ![t] = IF key THEN "listing" ELSE "listing_nothing"]
    /\ UNCHANGED <<lockVars, callVars, ops>>

listed(t) ==
    /\ op[t] \in {"listing", "listing_nothing"} /\ EndReading(t)
    /\ op' = [op EXCEPT ![t] = "list_done"]
    /\ raised' = IF op[t] = "listing_nothing" /\ key THEN raised \cup {t} ELSE raised
    /\ UNCHANGED <<key, table, locked, made, todo, cur, waits, called, hangs, ops>>

-----------------------------------------------------------------------------
(* dispatch_event *)

\* Without the key there is nobody to call; it is looked up before the lock is taken.
dispatch_event(t) ==
    /\ key
    /\ Begin(t, "dispatch", "queue")
    /\ UNCHANGED callVars

\* Indexing the defaultdict brings back a key that was removed since.
copy_listeners(t) ==
    /\ op[t] = "dispatch" /\ EndReading(t)
    /\ todo' = [todo EXCEPT ![t] = table]
    /\ key' = TRUE
    /\ UNCHANGED <<op, ops, table, locked, made, cur, waits, called, hangs, raised>>

Call(t, r) ==
    /\ called' = called \cup {<<t, r>>}
    /\ IF r[2] \in Blocking
       THEN hangs' = hangs \cup {<<t, r>>} /\ waits' = [waits EXCEPT ![t] = @ \cup {r}]
       ELSE UNCHANGED <<hangs, waits>>

\* The listeners are called in the order they were registered in.  A one-shot
\* listener is called by the dispatcher that gets its lock, and then removed by
\* each of them.
call_listener(t) ==
    LET r == CHOOSE r \in todo[t] : \A s \in todo[t] : r[1] <= s[1]
    IN  /\ op[t] = "dispatch" /\ at[t] = "out" /\ cur[t] = None /\ todo[t] # {}
        /\ todo' = [todo EXCEPT ![t] = @ \ {r}]
        /\ \/ /\ r[2] \notin OneShot
              /\ Call(t, r)
              /\ UNCHANGED <<at, cur, locked>>
           \/ /\ r[2] \in OneShot /\ r \notin locked
              /\ Call(t, r)
              /\ locked' = locked \cup {r}
              /\ cur' = [cur EXCEPT ![t] = r]
              /\ at' = [at EXCEPT ![t] = "write_switch"]
           \/ /\ r[2] \in OneShot /\ r \in locked
              /\ cur' = [cur EXCEPT ![t] = r]
              /\ at' = [at EXCEPT ![t] = "write_switch"]
              /\ UNCHANGED <<called, hangs, waits, locked>>
        /\ UNCHANGED <<held, readers, writers, key, table, made, op, ops, raised>>

\* The lock of a one-shot listener is returned whether this thread took it or not;
\* if it is free by now, the exception ends the dispatch.
release(t) ==
    LET r == cur[t]
    IN  /\ op[t] = "dispatch" /\ at[t] = "out" /\ r # None
        /\ locked' = locked \ {r}
        /\ cur' = [cur EXCEPT ![t] = None]
        /\ IF r \in locked THEN UNCHANGED <<todo, waits, raised>>
           ELSE /\ todo' = [todo EXCEPT ![t] = {}]
                /\ waits' = [waits EXCEPT ![t] = {}]
                /\ raised' = raised \cup {t}
        /\ UNCHANGED <<lockVars, key, table, made, called, hangs, op, ops>>

\* Mutation: a dispatcher waits for its listeners without a timeout.
join_forever(t) ==
    /\ op[t] = "dispatch" /\ at[t] = "out" /\ cur[t] = None /\ todo[t] = {}
    /\ \E r \in waits[t] : <<t, r>> \notin hangs /\ waits' = [waits EXCEPT ![t] = @ \ {r}]
    /\ UNCHANGED <<lockVars, key, table, locked, made, todo, cur, called, hangs, raised, op, ops>>

\* thread.join returns when the listener has, or after its timeout.
join(t) ==
    /\ op[t] = "dispatch" /\ at[t] = "out" /\ cur[t] = None /\ todo[t] = {}
    /\ \E r \in waits[t] : waits' = [waits EXCEPT ![t] = @ \ {r}]
    /\ UNCHANGED <<lockVars, key, table, locked, made, todo, cur, called, hangs, raised, op, ops>>

\* A listener thread returns, if it does.
listener_returns(t, r) ==
    /\ <<t, r>> \in hangs
    /\ hangs' = hangs \ {<<t, r>>}
    /\ UNCHANGED <<lockVars, key, table, locked, made, todo, cur, waits, called, raised, op, ops>>

-----------------------------------------------------------------------------

\* The operation is over when its last lock is returned and nothing is left to do.
Done(t) ==
    /\ op[t] \in {"add", "remove", "list_done", "dispatch"} /\ at[t] = "out"
    /\ cur[t] = None /\ todo[t] = {} /\ waits[t] = {}
    /\ op' = [op EXCEPT ![t] = "none"]
    /\ UNCHANGED <<lockVars, callVars, ops>>

Step(t) ==
    \/ LockStep(t) /\ UNCHANGED <<callVars, op, ops>>
    \/ insert(t) \/ delete(t)
    \/ listing(t) \/ listed(t)
    \/ copy_listeners(t) \/ call_listener(t) \/ release(t) \/ join(t)
    \/ Done(t)

Start(t) ==
    \/ \E l \in Changing : add_event_listener(t, l) \/ remove_event_listener(t, l)
    \/ dispatch_event(t) \/ list_event_listeners(t)

\* All operations are over: the bound is reached.
Idle == ops = MaxOps /\ (\A t \in Threads : op[t] = "none") /\ UNCHANGED vars

Next ==
    \/ Idle
    \/ \E t \in Threads : Start(t) \/ Step(t)
    \/ \E h \in hangs : listener_returns(h[1], h[2])

\* A thread that can go on does; whether listeners return is up to them.
Fairness == \A t \in Threads : WF_vars(Step(t))

Spec == Init /\ [][Next]_vars /\ Fairness

-----------------------------------------------------------------------------
(* Properties *)

\* Every operation ends, however threads wait for each other and whether listeners
\* return or not.
OperationsEnd == []<>(\A t \in Threads : op[t] = "none")

\* A one-shot listener is called once for its registration.
OneShotOnce == \A c, d \in called : c[2] = d[2] /\ c[2][2] \in OneShot => c = d
=============================================================================
