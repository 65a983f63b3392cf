---------------------------- MODULE GraphUpdate ----------------------------
(***************************************************************************)
(* Merging a graph into the database: core/db/graphdb.py with the process   *)
(* that does it (core/model/db_updater.py), the requests that commit and    *)
(* abort batches and the periodic check for outdated updates               *)
(* (core/db/db_access.py).                                                  *)
(*                                                                          *)
(* A request (its parent process) starts a child process, which marks the   *)
(* update, compares the incoming graph with the stored one and writes the   *)
(* difference: directly, through a temporary collection, or, for a batch,   *)
(* into a temporary collection that a later request commits.  If the        *)
(* request gets no result it aborts the update and only then ends the       *)
(* child, so child, request, commit and check all work on the same          *)
(* documents at the same time.                                              *)
(*                                                                          *)
(* The graph is a tree: an edge is known by the node it leads to, a node by *)
(* its id and the hash of its content.  Every update has a change id of its *)
(* own, so an update stands for its change id.                              *)
(***************************************************************************)
EXTENDS Naturals, FiniteSets, Sequences, SequencesExt

CONSTANTS
    Nodes,         \* ids of nodes
    Above,         \* Above[n]: n and its ancestors
    Stored,        \* the stored nodes before the first update: id -> hash
    Updates,       \* the updates
    Batches,       \* the ones that are batches
    Roots,         \* Roots[u]: the nodes marked with replace=true, in order
    Payload,       \* Payload[u]: the incoming graph: id -> hash
    Rest,          \* the request that commits or aborts a batch
    Cleaner,       \* the periodic check for outdated updates
    MaxFaults,     \* bound on errors of the database and deaths of processes
    MaxCalls       \* bound on commits and aborts of batches

Below(r) == {n \in Nodes : r \in Above[n]}
RootsOf(u) == Range(Roots[u])
IsTable(f) == DOMAIN f \subseteq Nodes /\ f \in [DOMAIN f -> Nat]

\* The parent graph: all nodes on the way to a root, the root included.
ParentNodes(u) == UNION {Above[r] : r \in RootsOf(u)}

ASSUME TreeAssumption ==
    /\ Above \in [Nodes -> SUBSET Nodes]
    /\ \A n \in Nodes : n \in Above[n] /\ \A m \in Above[n] : Above[m] \subseteq Above[n]
    /\ \A n \in Nodes : \A l, m \in Above[n] : l \in Above[m] \/ m \in Above[l]
    /\ "parents" \notin Nodes
    /\ IsTable(Stored)

ASSUME UpdateAssumption ==
    /\ Batches \subseteq Updates
    /\ DOMAIN Payload = Updates
    /\ \A u \in Updates :
         /\ IsTable(Payload[u])
         /\ Roots[u] \in Seq(Nodes) /\ RootsOf(u) \subseteq Nodes
         /\ \A r, s \in RootsOf(u) : r \in Above[s] => r = s
         /\ ParentNodes(u) \subseteq DOMAIN Payload[u]
         /\ DOMAIN Payload[u] \subseteq ParentNodes(u) \cup UNION {Below(r) : r \in RootsOf(u)}
    /\ {Rest, Cleaner} \cap Updates = {}

ASSUME BoundAssumption == MaxFaults \in Nat /\ MaxCalls \in Nat

VARIABLES
    size,      \* "large": the update has 100000 changes or more
    graph,     \* the node and edge collections
    marks,     \* the collection of updates in progress
    outdated,  \* the marks whose `created` is too long ago
    temp,      \* the temporary collections: update -> staged operations
    child,     \* the merge processes
    plan,      \* the operations a child has computed so far
    proc,      \* requests, Rest and Cleaner: where they are and at which update
    result,    \* what the request of an update returned
    faults, calls,  \* how many there have been
    applied,   \* history: what each root was last replaced with
    called,    \* history: the updates for which commit or abort was called
    torn       \* history: the direct updates that were broken off

vars == <<size, graph, marks, outdated, temp, child, plan, proc, result, faults, calls,
          applied, called, torn>>

\* Large updates and batches are written to a temporary collection first.
Direct(u) == u \notin Batches /\ size[u] = "small"

Procs == Updates \cup {Rest, Cleaner}

\* A node has an edge from its parent unless it is the root of the graph.
Linked(ns) == {n \in ns : Above[n] # {n}}

\* The collections are written in this order, directly or in one transaction.
Kinds == <<"node_insert", "node_update", "node_delete", "edge_insert", "edge_delete">>
Op(kind, n, hash) == [kind |-> kind, node |-> n, hash |-> hash]
Ops(kind, ns, hash) == {Op(kind, n, hash[n]) : n \in ns}
Targets(ops, kind) == {o.node : o \in {x \in ops : x.kind = kind}}

\* Writing the documents of one kind; inserts replace what is there.
Write(g, ops, kind) ==
    LET ns == Targets(ops, kind)
        hash(n) == (CHOOSE o \in ops : o.kind = kind /\ o.node = n).hash
        nodes == g.nodes
    IN  CASE kind = "node_insert" ->
               [g EXCEPT !.nodes = [n \in DOMAIN nodes \cup ns |-> IF n \in ns THEN hash(n) ELSE nodes[n]]]
          [] kind = "node_update" ->
               [g EXCEPT !.nodes = [n \in DOMAIN nodes |-> IF n \in ns THEN hash(n) ELSE nodes[n]]]
          [] kind = "node_delete" -> [g EXCEPT !.nodes = [n \in DOMAIN nodes \ ns |-> nodes[n]]]
          [] kind = "edge_insert" -> [g EXCEPT !.edges = @ \cup ns]
          [] kind = "edge_delete" -> [g EXCEPT !.edges = @ \ ns]

\* A document that is to be updated or deleted does not exist.
Missing(g, ops, kind) ==
    CASE kind \in {"node_update", "node_delete"} -> ~(Targets(ops, kind) \subseteq DOMAIN g.nodes)
      [] kind = "edge_delete" -> ~(Targets(ops, kind) \subseteq g.edges)
      [] OTHER -> FALSE

\* What the collections are before documents of a kind are written.
Before(g, ops, kind) ==
    LET inserted == Write(g, ops, "node_insert")
        updated  == Write(inserted, ops, "node_update")
        deleted  == Write(updated, ops, "node_delete")
    IN  CASE kind = "node_insert" -> g
          [] kind = "node_update" -> inserted
          [] kind = "node_delete" -> updated
          [] kind = "edge_insert" -> deleted
          [] kind = "edge_delete" -> Write(deleted, ops, "edge_insert")

WriteAll(g, ops) == Write(Before(g, ops, "edge_delete"), ops, "edge_delete")

\* What is stored below a root, the root included.
Content(g, r) == [nodes |-> [n \in DOMAIN g.nodes \cap Below(r) |-> g.nodes[n]],
                  edges |-> g.edges \cap Below(r)]
Whole(ns) == [nodes |-> ns, edges |-> Linked(DOMAIN ns)]

Init == /\ size \in [Updates -> {"small", "large"}]
        /\ \A u \in Batches : size[u] = "large"
        /\ graph = Whole(Stored)
        /\ marks = {}
        /\ outdated = {}
        /\ temp = [u \in {} |-> {}]
        /\ child = [u \in Updates |-> [at |-> "none", todo |-> <<>>]]
        /\ plan = [u \in Updates |-> {}]
        /\ proc = [p \in Procs |-> [at |-> "idle", update |-> p]]
        /\ result = [u \in Updates |-> "none"]
        /\ faults = 0
        /\ calls = 0
        /\ applied = [r \in UNION {RootsOf(u) : u \in Updates} |-> Content(Whole(Stored), r)]
        /\ called = {}
        /\ torn = {}

Child(u, at, todo) == child' = [child EXCEPT ![u] = [at |-> at, todo |-> todo]]
Proc(p, at) == proc' = [proc EXCEPT ![p].at = at]

\* The roots of u have their new content.
Replaced(u) == applied' = [r \in DOMAIN applied |->
                             IF r \in RootsOf(u) THEN Content(Whole(Payload[u]), r) ELSE applied[r]]

\* A direct update that is not written completely
half_written(u) == child[u].at = "direct" /\ child[u].todo # <<>>
BreakOff(u, broken) == torn' = IF broken THEN torn \cup {u} ELSE torn

-----------------------------------------------------------------------------
(* The child: DbUpdaterProcess and GraphDB.merge_graph *)

\* An active change that has one of the new roots among its parents or roots.
query_active_change(u) == {v \in marks : RootsOf(u) \cap (ParentNodes(v) \cup RootsOf(v)) # {}}

\* One transaction: the update is marked, or rejected outside of the try block.
mark_update(u) ==
    /\ child[u].at = "mark"
    /\ \/ /\ query_active_change(u) = {}
          /\ u \notin marks
          /\ marks' = marks \cup {u}
          /\ outdated' = outdated \ {u}
          /\ Child(u, "nodes", <<"parents">> \o Roots[u])
       \/ /\ query_active_change(u) # {}
          /\ Child(u, "error", <<>>)
          /\ UNCHANGED <<marks, outdated>>
    /\ UNCHANGED <<size, graph, temp, plan, proc, result, faults, calls, applied, called, torn>>

\* The part of the incoming and the stored graph that is compared.
Part(u, g) == IF g = "parents" THEN ParentNodes(u) ELSE Below(g)

\* Stored nodes of the part are updated if the hash differs and deleted if they
\* are not in the incoming graph; the others are inserted.  The nodes of the
\* parent graph count as visited when a root is compared.
prepare_nodes(u) ==
    LET g       == Head(child[u].todo)
        given   == DOMAIN Payload[u] \cap Part(u, g)
        stored  == DOMAIN graph.nodes \cap Part(u, g)
        visited == IF g = "parents" THEN {} ELSE ParentNodes(u)
    IN  /\ child[u].at = "nodes"
        /\ plan' = [plan EXCEPT ![u] = @
             \cup Ops("node_insert", given \ (stored \cup visited), Payload[u])
             \cup Ops("node_update", {n \in given \cap stored : graph.nodes[n] # Payload[u][n]},
               Payload[u])
             \cup Ops("node_delete", stored \ given, graph.nodes)]
        /\ Child(u, "edges", child[u].todo)
        /\ UNCHANGED <<size, graph, marks, outdated, temp, proc, result, faults, calls, applied,
                       called, torn>>

\* The edges inside of the part, likewise; then the next part, or the changes
\* are written.  The mark is refreshed before that.
prepare_edges(u) ==
    LET g      == Head(child[u].todo)
        part   == Linked(Part(u, g)) \ {g}
        given  == DOMAIN Payload[u] \cap part
        stored == graph.edges \cap part
        rest   == Tail(child[u].todo)
        zero   == [n \in Nodes |-> 0]
    IN  /\ child[u].at = "edges"
        /\ plan' = [plan EXCEPT ![u] = @ \cup Ops("edge_insert", given \ stored, zero)
                                         \cup Ops("edge_delete", stored \ given, zero)]
        /\ IF rest # <<>> THEN Child(u, "nodes", rest)
           ELSE IF Direct(u) THEN Child(u, "direct", Kinds)
           ELSE Child(u, "get_tmp", <<>>)
        /\ outdated' = IF rest = <<>> THEN outdated \ {u} ELSE outdated
        /\ UNCHANGED <<size, graph, marks, temp, proc, result, faults, calls, applied, called, torn>>

\* update_directly: every request is executed by itself, only the removal of
\* the mark is part of the transaction.
update_directly(u) ==
    LET kind == Head(child[u].todo)
        rest == Tail(child[u].todo)
    IN  /\ child[u].at = "direct"
        /\ child[u].todo # <<>>
        /\ graph' = Write(graph, plan[u], kind)
        /\ IF Missing(graph, plan[u], kind) THEN Child(u, "unmark", <<>>) ELSE Child(u, "direct",
          rest)
        /\ IF rest = <<>> THEN Replaced(u) ELSE UNCHANGED applied
        /\ BreakOff(u, Missing(graph, plan[u], kind))
        /\ UNCHANGED <<size, marks, outdated, temp, plan, proc, result, faults, calls, called>>

updated_directly(u) ==
    /\ child[u].at = "direct"
    /\ child[u].todo = <<>>
    /\ marks' = marks \ {u}
    /\ Child(u, "ok", <<>>)
    /\ UNCHANGED <<size, graph, outdated, temp, plan, proc, result, faults, calls, applied, called, torn>>

\* An existing collection is used as it is.
get_tmp_collection(u) ==
    /\ child[u].at = "get_tmp"
    /\ temp' = [v \in DOMAIN temp \cup {u} |-> IF v \in DOMAIN temp THEN temp[v] ELSE {}]
    /\ Child(u, "store", <<>>)
    /\ UNCHANGED <<size, graph, marks, outdated, plan, proc, result, faults, calls, applied,
                   called, torn>>

\* store_to_tmp_collection: an error if the collection has been deleted.  A
\* batch is done; its mark is refreshed.
store_to_tmp_collection(u) ==
    /\ child[u].at = "store"
    /\ \/ /\ u \in DOMAIN temp
          /\ temp' = [temp EXCEPT ![u] = @ \cup plan[u]]
          /\ Child(u, IF u \in Batches THEN "ok" ELSE "move", <<>>)
          /\ outdated' = IF u \in Batches THEN outdated \ {u} ELSE outdated
       \/ /\ u \notin DOMAIN temp
          /\ Child(u, IF u \in Batches THEN "unmark" ELSE "drop", <<"failed">>)
          /\ UNCHANGED <<temp, outdated>>
    /\ UNCHANGED <<size, graph, marks, plan, proc, result, faults, calls, applied, called, torn>>

\* Mutation: the mark is not needed.
movable_unmarked(u) ==
    /\ u \in DOMAIN temp
    /\ \A kind \in Range(Kinds) : ~Missing(Before(graph, temp[u], kind), temp[u], kind)

\* The transaction of move_temp_to_proper succeeds: everything it updates or
\* removes exists, the mark included.
movable(u) ==
    /\ u \in DOMAIN temp
    /\ u \in marks
    /\ \A kind \in Range(Kinds) : ~Missing(Before(graph, temp[u], kind), temp[u], kind)

\* All or nothing.
move_temp_to_proper(u) ==
    IF movable(u)
    THEN /\ graph' = WriteAll(graph, temp[u])
         /\ marks' = marks \ {u}
         /\ Replaced(u)
    ELSE UNCHANGED <<graph, marks, applied>>

update_via_temp_collection(u) ==
    /\ child[u].at = "move"
    /\ move_temp_to_proper(u)
    /\ Child(u, "drop", IF movable(u) THEN <<>> ELSE <<"failed">>)
    /\ UNCHANGED <<size, outdated, temp, plan, proc, result, faults, calls, called, torn>>

\* The finally block; deleting a collection that is gone is an error, too.
delete_temp_collection(u) ==
    /\ child[u].at = "drop"
    /\ temp' = [v \in DOMAIN temp \ {u} |-> temp[v]]
    /\ Child(u, IF child[u].todo = <<>> /\ u \in DOMAIN temp THEN "ok" ELSE "unmark", <<>>)
    /\ UNCHANGED <<size, graph, marks, outdated, plan, proc, result, faults, calls, applied,
                   called, torn>>

\* The exception handler of merge_graph.
delete_marked_update(u) ==
    /\ child[u].at = "unmark"
    /\ marks' = marks \ {u}
    /\ Child(u, "error", <<>>)
    /\ UNCHANGED <<size, graph, outdated, temp, plan, proc, result, faults, calls, applied, called, torn>>

\* Mutation: the errors of the concurrent writes are ignored.
db_error_ignored(u) ==
    /\ faults < MaxFaults
    /\ faults' = faults + 1
    /\ child[u].at = "store"
    /\ u \in DOMAIN temp
    /\ \E done \in SUBSET Range(Kinds) :
         temp' = [temp EXCEPT ![u] = @ \cup {o \in plan[u] : o.kind \in done}]
    /\ Child(u, IF u \in Batches THEN "ok" ELSE "move", <<>>)
    /\ UNCHANGED <<size, graph, marks, outdated, plan, proc, result, calls, applied, called, torn>>

\* A request of the child to the database fails: before the try block, inside of
\* it, in the finally block or in the exception handler.  The writes of
\* store_to_tmp_collection run concurrently: some of them may have been executed.
db_error(u) ==
    /\ faults < MaxFaults
    /\ faults' = faults + 1
    /\ \/ /\ child[u].at \in {"mark", "unmark"}
          /\ Child(u, "error", <<>>)
          /\ UNCHANGED temp
       \/ /\ child[u].at \in {"nodes", "edges", "direct", "get_tmp", "drop"}
          /\ Child(u, "unmark", <<>>)
          /\ UNCHANGED temp
       \/ /\ child[u].at = "store"
          /\ u \in DOMAIN temp
          /\ \E done \in SUBSET Range(Kinds) :
               temp' = [temp EXCEPT ![u] = @ \cup {o \in plan[u] : o.kind \in done}]
          /\ Child(u, IF u \in Batches THEN "unmark" ELSE "drop", <<"failed">>)
       \/ /\ child[u].at = "move"
          /\ Child(u, "drop", <<"failed">>)
          /\ UNCHANGED temp
    /\ BreakOff(u, half_written(u))
    /\ UNCHANGED <<size, graph, marks, outdated, plan, proc, result, calls, applied, called>>

\* The process dies, for lack of memory or with the host.
die(u) ==
    /\ faults < MaxFaults
    /\ faults' = faults + 1
    /\ child[u].at \notin {"none", "ok", "error", "dead"}
    /\ Child(u, "dead", <<>>)
    /\ BreakOff(u, half_written(u))
    /\ UNCHANGED <<size, graph, marks, outdated, temp, plan, proc, result, calls, applied, called>>

-----------------------------------------------------------------------------
(* The request: merge_graph_process *)

\* The child is started and reads what the client sends.
merge_graph_process(u) ==
    /\ proc[u].at = "idle"
    /\ Proc(u, "waiting")
    /\ Child(u, "read", <<>>)
    /\ UNCHANGED <<size, graph, marks, outdated, temp, plan, result, faults, calls, applied,
                   called, torn>>

\* Everything is sent: MergeGraph.
send_to_child(u) ==
    /\ proc[u].at = "waiting"
    /\ child[u].at = "read"
    /\ Child(u, "mark", <<>>)
    /\ UNCHANGED <<size, graph, marks, outdated, temp, plan, proc, result, faults, calls, applied,
                   called, torn>>

\* read_forever returns the result of the child, or raises its error.
read_results(u) ==
    /\ proc[u].at = "waiting"
    /\ \/ /\ child[u].at = "ok"
          /\ result' = [result EXCEPT ![u] = "ok"]
          /\ Proc(u, "kill")
       \/ /\ child[u].at \in {"error", "dead"}
          /\ Proc(u, "look")
          /\ UNCHANGED result
    /\ UNCHANGED <<size, graph, marks, outdated, temp, child, plan, faults, calls, applied, called, torn>>

\* The client goes away or the deadline passes, whatever the child is doing.
interrupt(u) ==
    /\ proc[u].at = "waiting"
    /\ Proc(u, "look")
    /\ UNCHANGED <<size, graph, marks, outdated, temp, child, plan, result, faults, calls, applied,
                   called, torn>>

\* After that the child gets a poison pill and is terminated and killed; until
\* then it goes on.
kill(u) ==
    /\ proc[u].at = "kill"
    /\ Proc(u, "done")
    /\ Child(u, "dead", <<>>)
    /\ result' = [result EXCEPT ![u] = IF @ = "ok" THEN "ok" ELSE "error"]
    /\ BreakOff(u, half_written(u))
    /\ UNCHANGED <<size, graph, marks, outdated, temp, plan, faults, calls, applied, called>>

-----------------------------------------------------------------------------
(* abort_update, called by the request, the REST API and the check *)

\* Where a caller goes on after abort_update.
resume(p) == IF p \in Updates THEN "kill" ELSE "idle"

abort_update(p) ==
    /\ proc[p].at = "look"
    /\ Proc(p, IF proc[p].update \in DOMAIN temp THEN "drop" ELSE "unmark")
    /\ UNCHANGED <<size, graph, marks, outdated, temp, child, plan, result, faults, calls, applied,
                   called, torn>>

\* An exception in an abort or a commit: the call ends.  In the finally block of
\* a request it also ends the rest of the block: the child is not killed.
raises(p) ==
    /\ Proc(p, IF p \in Updates THEN "done" ELSE "idle")
    /\ result' = IF p \in Updates THEN [result EXCEPT ![p] = "error"] ELSE result

\* Deleting a collection that is gone meanwhile raises.
abort_drop(p) ==
    LET u == proc[p].update
    IN  /\ proc[p].at = "drop"
        /\ temp' = [v \in DOMAIN temp \ {u} |-> temp[v]]
        /\ \/ u \in DOMAIN temp /\ Proc(p, "unmark") /\ UNCHANGED result
           \/ u \notin DOMAIN temp /\ raises(p)
        /\ UNCHANGED <<size, graph, marks, outdated, child, plan, faults, calls, applied, called, torn>>

\* A request to the database fails.
call_error(p) ==
    /\ faults < MaxFaults
    /\ faults' = faults + 1
    /\ proc[p].at \in {"look", "drop", "unmark", "commit", "committed"}
    /\ raises(p)
    /\ UNCHANGED <<size, graph, marks, outdated, temp, child, plan, calls, applied, called, torn>>

\* From here on other updates may replace the same roots, whatever the child of
\* this one is doing.
abort_unmark(p) ==
    LET u == proc[p].update
    IN  /\ proc[p].at = "unmark"
        /\ marks' = marks \ {u}
        /\ Proc(p, resume(p))
        /\ BreakOff(u, Direct(u) /\ child[u].at \in {"nodes", "edges", "direct"})
        /\ UNCHANGED <<size, graph, outdated, temp, child, plan, result, faults, calls, applied,
                       called>>

\* A client commits a batch that was accepted, or aborts one at any time.  The
\* code does not check that the merge of the batch is over.
commit_batch_update(u) ==
    /\ proc[Rest].at = "idle"
    /\ calls < MaxCalls
    /\ calls' = calls + 1
    /\ u \in Batches
    /\ proc[u].at = "done" /\ result[u] = "ok"
    /\ u \in DOMAIN temp
    /\ proc' = [proc EXCEPT ![Rest] = [at |-> "commit", update |-> u]]
    /\ called' = called \cup {u}
    /\ UNCHANGED <<size, graph, marks, outdated, temp, child, plan, result, faults, applied, torn>>

abort_batch(u) ==
    /\ proc[Rest].at = "idle"
    /\ calls < MaxCalls
    /\ calls' = calls + 1
    /\ u \in Batches
    /\ proc' = [proc EXCEPT ![Rest] = [at |-> "look", update |-> u]]
    /\ called' = called \cup {u}
    /\ UNCHANGED <<size, graph, marks, outdated, temp, child, plan, result, faults, applied, torn>>

commit_move ==
    LET u == proc[Rest].update
    IN  /\ proc[Rest].at = "commit"
        /\ move_temp_to_proper(u)
        /\ Proc(Rest, IF movable(u) THEN "committed" ELSE "idle")
        /\ UNCHANGED <<size, outdated, temp, child, plan, result, faults, calls, called, torn>>

commit_drop ==
    /\ proc[Rest].at = "committed"
    /\ temp' = [v \in DOMAIN temp \ {proc[Rest].update} |-> temp[v]]
    /\ Proc(Rest, "idle")
    /\ UNCHANGED <<size, graph, marks, outdated, child, plan, result, faults, calls, applied,
                   called, torn>>

\* Time: a mark gets older than update_outdated.  This takes longer than a
\* request may last (merge_max_wait_time), so the child is gone by then.
Outdated(u) ==
    /\ u \in marks \ outdated
    /\ proc[u].at = "done"
    /\ child[u].at \in {"ok", "error", "dead"}
    /\ outdated' = outdated \cup {u}
    /\ UNCHANGED <<size, graph, marks, temp, child, plan, proc, result, faults, calls, applied,
                   called, torn>>

\* Mutation: batches are left alone.
check_outdated_single(u) ==
    /\ proc[Cleaner].at = "idle"
    /\ u \in marks \cap outdated
    /\ u \notin Batches
    /\ proc' = [proc EXCEPT ![Cleaner] = [at |-> "look", update |-> u]]
    /\ called' = called \cup {u}
    /\ UNCHANGED <<size, graph, marks, outdated, temp, child, plan, result, faults, calls, applied, torn>>

\* The check finds an outdated update and aborts it.
check_outdated_updates(u) ==
    /\ proc[Cleaner].at = "idle"
    /\ u \in marks \cap outdated
    /\ proc' = [proc EXCEPT ![Cleaner] = [at |-> "look", update |-> u]]
    /\ called' = called \cup {u}
    /\ UNCHANGED <<size, graph, marks, outdated, temp, child, plan, result, faults, calls, applied, torn>>

-----------------------------------------------------------------------------
merge_graph(u) == \/ mark_update(u) \/ prepare_nodes(u) \/ prepare_edges(u)
                  \/ update_directly(u) \/ updated_directly(u)
                  \/ get_tmp_collection(u) \/ store_to_tmp_collection(u)
                  \/ update_via_temp_collection(u) \/ delete_temp_collection(u)
                  \/ delete_marked_update(u)

request(u) == merge_graph_process(u) \/ send_to_child(u) \/ read_results(u) \/ kill(u)

aborting(p) == abort_update(p) \/ abort_drop(p) \/ abort_unmark(p)

Next == \/ \E u \in Updates : \/ merge_graph(u) \/ request(u) \/ interrupt(u)
                              \/ db_error(u) \/ die(u) \/ Outdated(u)
                              \/ commit_batch_update(u) \/ abort_batch(u)
                              \/ check_outdated_updates(u)
        \/ \E p \in Procs : aborting(p) \/ call_error(p)
        \/ commit_move \/ commit_drop

Spec == Init /\ [][Next]_vars

\* Processes and coroutines go on, time passes and the check runs; clients need
\* not commit or abort anything.  A request takes one step at a time, and so do
\* Rest and Cleaner.
Fairness ==
    /\ \A u \in Updates :
         /\ WF_vars(merge_graph(u))
         /\ WF_vars(send_to_child(u) \/ read_results(u) \/ aborting(u) \/ kill(u))
         /\ WF_vars(Outdated(u))
    /\ WF_vars(aborting(Rest) \/ commit_move \/ commit_drop)
    /\ WF_vars(aborting(Cleaner) \/ \E u \in Updates : check_outdated_updates(u))

FairSpec == Spec /\ Fairness

-----------------------------------------------------------------------------
(* Properties *)

OpType == [kind : Range(Kinds), node : Nodes, hash : Nat]

\* Every variable has the type of the documents and objects it stands for.
TypeOK == /\ IsTable(graph.nodes) /\ graph.edges \subseteq Nodes
          /\ marks \subseteq Updates /\ outdated \subseteq Updates
          /\ DOMAIN temp \subseteq Updates
          /\ \A u \in DOMAIN temp : temp[u] \subseteq OpType
          /\ \A u \in Updates : plan[u] \subseteq OpType
          /\ \A u \in Updates : child[u].at \in {"none", "read", "mark", "nodes", "edges", "direct",
               "get_tmp", "store", "move", "drop", "unmark", "ok", "error", "dead"}
          /\ \A p \in Procs : /\ proc[p].update \in Procs
                              /\ proc[p].at \in {"idle", "waiting", "look", "drop", "unmark",
                                "kill",
                                                 "done", "commit", "committed"}
          /\ result \in [Updates -> {"none", "ok", "error"}]
          /\ torn \subseteq Updates

\* No update has a root strictly above or below r.
Separate(r) == \A u \in Updates : \A s \in RootsOf(u) : r \in Above[s] \/ s \in Above[r] => r = s

\* A root is replaced as a whole or not at all: unless a direct update of it is
\* being written, the graph below it is exactly what the last update, or batch,
\* that went through has put there - whatever is interrupted, aborted, or
\* committed late.  A direct update writes outside of a transaction: if it is
\* broken off, or goes on without its mark, nothing is said of its own roots, but
\* no other root is touched.
ReplacedAsWhole ==
    \A r \in DOMAIN applied :
        /\ Separate(r)
        /\ \A u \in Updates : r \in RootsOf(u) => u \notin torn /\ child[u].at # "direct"
        => Content(graph, r) = applied[r]

\* The same of the roots of direct updates, too, which merge_graph does not keep.
ReplacedAlways ==
    \A r \in DOMAIN applied :
        (\A u \in Updates : r \in RootsOf(u) => child[u].at # "direct")
          => Content(graph, r) = applied[r]

\* A batch that was accepted stays complete, and can be committed, until commit or
\* abort is called for it; an abort that failed half-way has deleted all of it or
\* nothing.  No other update takes part of it.
StagedIsKept ==
    \A u \in Batches : result[u] = "ok" =>
        \/ u \in DOMAIN temp /\ temp[u] = plan[u]
        \/ u \notin DOMAIN temp /\ u \in called

\* No mark blocks its nodes for good: every update in progress is finished,
\* aborted, or found by the check some day, and when all updates have been
\* requested no mark is left.
EveryMarkRemoved == <>[](marks = {})
=============================================================================
