------------------------- MODULE GraphUpdateProofs -------------------------
(***************************************************************************)
(* What a merge of graphs keeps whatever the trees, the updates, and the   *)
(* number of errors and calls: an accepted batch stays complete until it   *)
(* is committed or aborted, and a root is replaced as a whole.             *)
(***************************************************************************)
EXTENDS GraphUpdate, TLAPS, SequenceTheorems

-----------------------------------------------------------------------------
(* The inductive invariant *)

\* The tables keep their keys, and their records their fields.
Shape ==
    /\ DOMAIN child = Updates
    /\ \A u \in Updates : child[u] = [at |-> child[u].at, todo |-> child[u].todo]
    /\ DOMAIN proc = Procs
    /\ \A p \in Procs : proc[p] = [at |-> proc[p].at, update |-> proc[p].update]
    /\ DOMAIN plan = Updates
    /\ DOMAIN result = Updates

\* Rest and Cleaner are only at updates for which they were called.
Callers ==
    \A p \in {Rest, Cleaner} : proc[p].at # "idle" => proc[p].update \in called

\* Where the child is before it has a temporary collection
Early == {"none", "read", "mark", "nodes", "edges", "direct", "get_tmp"}

\* The collection of u holds all of the plan; or it was deleted, after a call for u
\* or by its own request, which then did not accept it.
Intact(u) ==
    \/ u \in DOMAIN temp /\ temp[u] = plan[u]
    \/ /\ u \notin DOMAIN temp
       /\ u \in called \/ (proc[u].at \in {"unmark", "kill", "done"} /\ result[u] # "ok")

\* What child, request and temporary collection of u have to do with each other.
Good(u) ==
    /\ proc[u].update = u
    /\ proc[u].at = "idle" => child[u].at = "none"
    /\ child[u].at \in Early => u \notin DOMAIN temp
    /\ child[u].at = "store" /\ u \in DOMAIN temp => temp[u] = {}
    /\ result[u] = "ok" => proc[u].at \in {"kill", "done"} /\ child[u].at \in {"ok", "dead"}
    /\ u \in Batches => child[u].at \notin {"direct", "move", "drop"}
    /\ u \in Batches /\ (child[u].at = "ok" \/ result[u] = "ok") => Intact(u)

StageInv == Shape /\ Callers /\ \A u \in Updates : Good(u)

-----------------------------------------------------------------------------
(* The frame of a step *)

\* Nothing of v changes, though commit or abort may be called for it.
Same(v) ==
    /\ child'[v] = child[v] /\ proc'[v] = proc[v] /\ plan'[v] = plan[v] /\ result'[v] = result[v]
    /\ v \in DOMAIN temp' <=> v \in DOMAIN temp
    /\ v \in DOMAIN temp => temp'[v] = temp[v]

\* What is said of an update that a step does not touch stays true.
LEMMA SameIsGood ==
    ASSUME NEW v \in Updates, Good(v), Same(v), called \subseteq called'
    PROVE  Good(v)'
  BY DEF Good, Same, Intact

\* The step of a child: only its own record, plan and collection change.
ChildStep(u, a, t) ==
    /\ child' = [child EXCEPT ![u] = [at |-> a, todo |-> t]]
    /\ UNCHANGED <<proc, result, called>>
    /\ plan' = plan \/ (child[u].at \in {"nodes", "edges"} /\ \E S : plan' = [plan EXCEPT ![u] = S])
    /\ \A v \in Updates \ {u} : /\ v \in DOMAIN temp' <=> v \in DOMAIN temp
                                /\ v \in DOMAIN temp => temp'[v] = temp[v]

\* A step of the child of u keeps the invariant if it does so for u.
LEMMA ChildKeeps ==
    ASSUME StageInv, NEW u \in Updates, NEW a, NEW t, ChildStep(u, a, t),
           a \in Early => child[u].at \in Early /\ u \notin DOMAIN temp',
           child[u].at # "none" /\ a # "none",
           a = "store" /\ u \in DOMAIN temp' => temp'[u] = {},
           u \in Batches => a \notin {"direct", "move", "drop"},
           u \in Batches /\ a = "ok" =>
             \/ u \in DOMAIN temp' /\ temp'[u] = plan[u] /\ plan' = plan,
           child[u].at \notin {"ok", "dead"}
    PROVE  StageInv'
  <1>1. Shape'
    BY DEF StageInv, Shape, ChildStep
  <1>2. Callers'
    BY DEF StageInv, Callers, ChildStep
  <1>3. child'[u] = [at |-> a, todo |-> t]
    BY DEF StageInv, Shape, ChildStep
  <1>4. \A v \in Updates \ {u} : Same(v)
    BY DEF StageInv, Shape, ChildStep, Same
  <1>5. Good(u)
    BY DEF StageInv
  <1>6. Good(u)'
    BY <1>3, <1>5 DEF Good, Intact, ChildStep
  <1>7. \A v \in Updates : Good(v)'
    BY <1>4, <1>6, SameIsGood DEF StageInv, ChildStep
  <1> QED
    BY <1>1, <1>2, <1>7 DEF StageInv

\* The steps of merge_graph in the child, its errors and its death.
LEMMA MergeStep ==
    ASSUME StageInv, NEW u \in Updates, merge_graph(u)
    PROVE  StageInv'
  <1>0. Good(u)
    BY DEF StageInv
  <1>1. CASE mark_update(u)
    <2>1. PICK a, t : /\ a \in {"nodes", "error"}
                      /\ child' = [child EXCEPT ![u] = [at |-> a, todo |-> t]]
      BY <1>1 DEF mark_update, Child
    <2>2. ChildStep(u, a, t) /\ child[u].at = "mark" /\ temp' = temp
      BY <1>1, <2>1 DEF mark_update, ChildStep
    <2> QED
      BY <1>0, <2>1, <2>2, ChildKeeps DEF Good, Early
  <1>2. CASE prepare_nodes(u)
    <2>1. PICK t : t = child[u].todo
      OBVIOUS
    <2>2. child[u].at = "nodes" /\ child' = [child EXCEPT ![u] = [at |-> "edges", todo |-> t]]
      BY <1>2, <2>1 DEF prepare_nodes, Child
    <2>3. UNCHANGED <<proc, result, called, temp>> /\ \E S : plan' = [plan EXCEPT ![u] = S]
      BY <1>2 DEF prepare_nodes
    <2>4. ChildStep(u, "edges", t)
      BY <2>2, <2>3 DEF ChildStep
    <2> QED
      BY <1>0, <2>2, <2>3, <2>4, ChildKeeps DEF Good, Early
  <1>3. CASE prepare_edges(u)
    <2>1. PICK a, t : /\ a \in {"nodes", "direct", "get_tmp"} /\ (u \in Batches => a # "direct")
                      /\ child' = [child EXCEPT ![u] = [at |-> a, todo |-> t]]
      BY <1>3 DEF prepare_edges, Child, Direct
    <2>2. child[u].at = "edges" /\ UNCHANGED <<proc, result, called, temp>>
      BY <1>3 DEF prepare_edges
    <2>3. \E S : plan' = [plan EXCEPT ![u] = S]
      BY <1>3 DEF prepare_edges
    <2>4. ChildStep(u, a, t)
      BY <2>1, <2>2, <2>3 DEF ChildStep
    <2> QED
      BY <1>0, <2>1, <2>2, <2>4, ChildKeeps DEF Good, Early
  <1>4. CASE update_directly(u)
    <2>1. PICK a, t : /\ a \in {"unmark", "direct"}
                      /\ child' = [child EXCEPT ![u] = [at |-> a, todo |-> t]]
      <3>1. \/ child' = [child EXCEPT ![u] = [at |-> "unmark", todo |-> <<>>]]
            \/ child' = [child EXCEPT ![u] = [at |-> "direct", todo |-> Tail(child[u].todo)]]
        BY <1>4, Zenon DEF update_directly, Child
      <3> QED
        BY <3>1
    <2>2. ChildStep(u, a, t) /\ child[u].at = "direct" /\ temp' = temp
      BY <1>4, <2>1 DEF update_directly, ChildStep
    <2> QED
      BY <1>0, <2>1, <2>2, ChildKeeps DEF Good, Early
  <1>5. CASE updated_directly(u)
    <2>1. ChildStep(u, "ok", <<>>) /\ child[u].at = "direct" /\ temp' = temp
      BY <1>5 DEF updated_directly, ChildStep, Child
    <2> QED
      BY <1>0, <2>1, ChildKeeps DEF Good, Early
  <1>6. CASE get_tmp_collection(u)
    <2>1. child[u].at = "get_tmp" /\ u \notin DOMAIN temp
      BY <1>0, <1>6 DEF get_tmp_collection, Good, Early
    <2>2. temp' = [v \in DOMAIN temp \cup {u} |-> IF v \in DOMAIN temp THEN temp[v] ELSE {}]
      BY <1>6 DEF get_tmp_collection
    <2>3. ChildStep(u, "store", <<>>)
      BY <1>6, <2>2 DEF get_tmp_collection, ChildStep, Child
    <2> QED
      BY <2>1, <2>2, <2>3, ChildKeeps DEF Early
  <1>7. CASE store_to_tmp_collection(u)
    <2>1. child[u].at = "store" /\ UNCHANGED <<proc, result, called, plan>>
      BY <1>7 DEF store_to_tmp_collection
    <2>2. CASE u \in DOMAIN temp
      <3>1. PICK a : a = IF u \in Batches THEN "ok" ELSE "move"
        OBVIOUS
      <3>2. child' = [child EXCEPT ![u] = [at |-> a, todo |-> <<>>]]
        BY <1>7, <2>2, <3>1 DEF store_to_tmp_collection, Child
      <3>3. temp' = [temp EXCEPT ![u] = temp[u] \cup plan[u]] /\ temp[u] = {}
        BY <1>0, <1>7, <2>1, <2>2 DEF store_to_tmp_collection, Good
      <3>4. ChildStep(u, a, <<>>)
        BY <2>1, <3>2, <3>3 DEF ChildStep
      <3>5. temp'[u] = plan[u] /\ u \in DOMAIN temp'
        BY <2>2, <3>3
      <3> QED
        BY <2>1, <3>1, <3>4, <3>5, ChildKeeps DEF Early
    <2>3. CASE u \notin DOMAIN temp
      <3>1. PICK a : a = IF u \in Batches THEN "unmark" ELSE "drop"
        OBVIOUS
      <3>2. child' = [child EXCEPT ![u] = [at |-> a, todo |-> <<"failed">>]] /\ temp' = temp
        BY <1>7, <2>3, <3>1 DEF store_to_tmp_collection, Child
      <3>3. ChildStep(u, a, <<"failed">>)
        BY <2>1, <3>2 DEF ChildStep
      <3> QED
        BY <2>1, <3>1, <3>2, <3>3, ChildKeeps DEF Early
    <2> QED
      BY <2>2, <2>3
  <1>8. CASE update_via_temp_collection(u)
    <2>1. PICK t : child' = [child EXCEPT ![u] = [at |-> "drop", todo |-> t]]
      BY <1>8 DEF update_via_temp_collection, Child
    <2>2. child[u].at = "move" /\ UNCHANGED <<proc, result, called, temp, plan>>
      BY <1>8 DEF update_via_temp_collection
    <2>3. ChildStep(u, "drop", t)
      BY <2>1, <2>2 DEF ChildStep
    <2> QED
      BY <1>0, <2>2, <2>3, ChildKeeps DEF Good, Early
  <1>9. CASE delete_temp_collection(u)
    <2>1. PICK a : a \in {"ok", "unmark"} /\ child' = [child EXCEPT ![u] = [at |-> a, todo |-> <<>>]]
      BY <1>9 DEF delete_temp_collection, Child
    <2>2. child[u].at = "drop" /\ UNCHANGED <<proc, result, called, plan>>
      BY <1>9 DEF delete_temp_collection
    <2>3. temp' = [v \in DOMAIN temp \ {u} |-> temp[v]]
      BY <1>9 DEF delete_temp_collection
    <2>4. ChildStep(u, a, <<>>)
      BY <2>1, <2>2, <2>3 DEF ChildStep
    <2> QED
      BY <1>0, <2>1, <2>2, <2>4, ChildKeeps DEF Good, Early
  <1>10. CASE delete_marked_update(u)
    <2>1. ChildStep(u, "error", <<>>) /\ child[u].at = "unmark"
      BY <1>10 DEF delete_marked_update, ChildStep, Child
    <2> QED
      BY <2>1, ChildKeeps DEF Early
  <1> QED
    BY <1>1, <1>2, <1>3, <1>4, <1>5, <1>6, <1>7, <1>8, <1>9, <1>10 DEF merge_graph

\* Errors of the database and the death of the child.
LEMMA FaultStep ==
    ASSUME StageInv, NEW u \in Updates, db_error(u) \/ die(u)
    PROVE  StageInv'
  <1>0. Good(u)
    BY DEF StageInv
  <1>1. CASE die(u)
    <2>1. ChildStep(u, "dead", <<>>) /\ child[u].at \notin {"none", "ok", "error", "dead"}
      BY <1>1 DEF die, ChildStep, Child
    <2> QED
      BY <2>1, ChildKeeps DEF Early
  <1>2. CASE db_error(u)
    <2>1. UNCHANGED <<proc, result, called, plan>>
      BY <1>2 DEF db_error
    <2>2. CASE child[u].at = "store"
      <3>1. PICK a : a = IF u \in Batches THEN "unmark" ELSE "drop"
        OBVIOUS
      <3>2. child' = [child EXCEPT ![u] = [at |-> a, todo |-> <<"failed">>]]
        BY <1>2, <2>2, <3>1 DEF db_error, Child
      <3>3. \E S : temp' = [temp EXCEPT ![u] = S]
        BY <1>2, <2>2 DEF db_error
      <3>4. ChildStep(u, a, <<"failed">>)
        BY <2>1, <3>2, <3>3 DEF ChildStep
      <3> QED
        BY <2>2, <3>1, <3>4, ChildKeeps DEF Early
    <2>3. CASE child[u].at # "store"
      <3>1. PICK a, t : /\ a \in {"error", "unmark", "drop"}
                        /\ a = "drop" => child[u].at = "move"
                        /\ child' = [child EXCEPT ![u] = [at |-> a, todo |-> t]]
        BY <1>2, <2>3 DEF db_error, Child
      <3>2. /\ temp' = temp
            /\ child[u].at \in {"mark", "unmark", "nodes", "edges", "direct", "get_tmp", "drop", "move"}
        BY <1>2, <2>3 DEF db_error
      <3>3. ChildStep(u, a, t)
        BY <2>1, <3>1, <3>2 DEF ChildStep
      <3> QED
        BY <1>0, <3>1, <3>2, <3>3, ChildKeeps DEF Early, Good
    <2> QED
      BY <2>2, <2>3
  <1> QED
    BY <1>1, <1>2

-----------------------------------------------------------------------------
(* Requests, and the callers of commit and abort *)

\* A step of Rest or Cleaner: it may delete the collection of an update it is called for.
CallerStep(p, a, x) ==
    /\ proc' = [proc EXCEPT ![p] = [at |-> a, update |-> x]]
    /\ UNCHANGED <<child, plan, result>>
    /\ called \subseteq called'
    /\ a # "idle" => x \in called'
    /\ \/ temp' = temp
       \/ \E w \in called : temp' = [v \in DOMAIN temp \ {w} |-> temp[v]]

\* A step of Rest or Cleaner keeps the invariant.
LEMMA CallerKeeps ==
    ASSUME StageInv, NEW p \in {Rest, Cleaner}, NEW a, NEW x, CallerStep(p, a, x)
    PROVE  StageInv'
  <1>1. p \in Procs /\ p \notin Updates
    BY UpdateAssumption DEF Procs
  <1>2. proc'[p] = [at |-> a, update |-> x] /\ \A q \in Procs : q # p => proc'[q] = proc[q]
    BY <1>1 DEF StageInv, Shape, CallerStep
  <1>3. Shape'
    BY <1>2 DEF StageInv, Shape, CallerStep
  <1>4. Rest \in Procs /\ Cleaner \in Procs
    BY DEF Procs
  <1>5. Callers'
    BY <1>2, <1>4 DEF StageInv, Callers, CallerStep
  <1>6. ASSUME NEW v \in Updates PROVE Good(v)'
    <2>1. Good(v) /\ proc'[v] = proc[v]
      BY <1>1, <1>2 DEF StageInv, Procs
    <2>2. CASE temp' = temp
      BY <2>1, <2>2, SameIsGood DEF CallerStep, Same
    <2>3. CASE \E w \in called : temp' = [x_1 \in DOMAIN temp \ {w} |-> temp[x_1]]
      <3>1. PICK w \in called : temp' = [x_1 \in DOMAIN temp \ {w} |-> temp[x_1]]
        BY <2>3
      <3>2. CASE v # w
        BY <2>1, <3>1, <3>2, SameIsGood DEF CallerStep, Same
      <3>3. CASE v = w
        <4>1. v \notin DOMAIN temp' /\ v \in called'
          BY <3>1, <3>3 DEF CallerStep
        <4> QED
          BY <2>1, <4>1 DEF Good, Intact, CallerStep
      <3> QED
        BY <3>2, <3>3
    <2> QED
      BY <2>2, <2>3 DEF CallerStep
  <1> QED
    BY <1>3, <1>5, <1>6 DEF StageInv

\* A step of the request of u
RequestStep(u, a) ==
    /\ proc' = [proc EXCEPT ![u] = [at |-> a, update |-> u]]
    /\ UNCHANGED <<plan, called>>
    /\ child' = child \/ \E b, t : child' = [child EXCEPT ![u] = [at |-> b, todo |-> t]]
    /\ result' = result \/ \E r : result' = [result EXCEPT ![u] = r]
    /\ temp' = temp \/ temp' = [v \in DOMAIN temp \ {u} |-> temp[v]]

\* A step of the request of u keeps the invariant if it does so for u.
LEMMA RequestKeeps ==
    ASSUME StageInv, NEW u \in Updates, NEW a, RequestStep(u, a), Good(u)'
    PROVE  StageInv'
  <1>1. u \in Procs /\ Rest \in Procs /\ Cleaner \in Procs /\ u # Rest /\ u # Cleaner
    BY UpdateAssumption DEF Procs
  <1>2. proc'[u] = [at |-> a, update |-> u] /\ \A q \in Procs : q # u => proc'[q] = proc[q]
    BY <1>1 DEF StageInv, Shape, RequestStep
  <1>3. Shape'
    BY <1>2 DEF StageInv, Shape, RequestStep
  <1>4. Callers'
    BY <1>1, <1>2 DEF StageInv, Callers, RequestStep
  <1>5. \A v \in Updates \ {u} : Same(v)
    BY <1>2 DEF StageInv, Shape, RequestStep, Same, Procs
  <1>6. \A v \in Updates : Good(v)'
    BY <1>5, SameIsGood DEF StageInv, RequestStep
  <1> QED
    BY <1>3, <1>4, <1>6 DEF StageInv

\* Setting the place of a process
LEMMA ProcFact ==
    ASSUME StageInv, NEW p \in Procs, NEW a, Proc(p, a)
    PROVE  proc' = [proc EXCEPT ![p] = [at |-> a, update |-> proc[p].update]]
  <1>1. [proc[p] EXCEPT !.at = a] = [at |-> a, update |-> proc[p].update]
    BY DEF StageInv, Shape
  <1> QED
    BY <1>1 DEF Proc

\* The steps of a request
LEMMA RequestSteps ==
    ASSUME StageInv, NEW u \in Updates, request(u) \/ interrupt(u)
    PROVE  StageInv'
  <1>0. Good(u) /\ u \in Procs /\ proc[u].update = u /\ DOMAIN proc = Procs /\ DOMAIN child = Updates
        /\ DOMAIN result = Updates
    BY DEF StageInv, Procs, Good, Shape
  <1>1. CASE merge_graph_process(u)
    <2>1. /\ proc' = [proc EXCEPT ![u] = [at |-> "waiting", update |-> u]]
          /\ child' = [child EXCEPT ![u] = [at |-> "read", todo |-> <<>>]]
          /\ UNCHANGED <<plan, called, result, temp>> /\ proc[u].at = "idle"
      BY <1>0, <1>1, ProcFact DEF merge_graph_process, Child
    <2>2. RequestStep(u, "waiting")
      BY <2>1 DEF RequestStep
    <2>3. Good(u)'
      BY <1>0, <2>1 DEF Good, Early
    <2> QED
      BY <2>2, <2>3, RequestKeeps
  <1>2. CASE send_to_child(u)
    <2>1. ChildStep(u, "mark", <<>>) /\ child[u].at = "read" /\ temp' = temp
      BY <1>2 DEF send_to_child, ChildStep, Child
    <2> QED
      BY <1>0, <2>1, ChildKeeps DEF Good, Early
  <1>3. CASE read_results(u)
    <2>1. UNCHANGED <<child, plan, called, temp>> /\ proc[u].at = "waiting"
      BY <1>3 DEF read_results
    <2>2. CASE child[u].at = "ok"
      <3>1. /\ proc' = [proc EXCEPT ![u] = [at |-> "kill", update |-> u]]
            /\ result' = [result EXCEPT ![u] = "ok"]
        BY <1>0, <1>3, <2>2, ProcFact DEF read_results
      <3>2. RequestStep(u, "kill")
        BY <2>1, <3>1 DEF RequestStep
      <3>3. Good(u)'
        BY <1>0, <2>1, <2>2, <3>1 DEF Good, Early, Intact
      <3> QED
        BY <3>2, <3>3, RequestKeeps
    <2>3. CASE child[u].at # "ok"
      <3>1. /\ proc' = [proc EXCEPT ![u] = [at |-> "look", update |-> u]]
            /\ result' = result
        BY <1>0, <1>3, <2>3, ProcFact DEF read_results
      <3>2. RequestStep(u, "look")
        BY <2>1, <3>1 DEF RequestStep
      <3>3. Good(u)'
        BY <1>0, <2>1, <2>3, <3>1 DEF Good, Early, Intact
      <3> QED
        BY <3>2, <3>3, RequestKeeps
    <2> QED
      BY <2>2, <2>3
  <1>4. CASE kill(u)
    <2>1. /\ proc' = [proc EXCEPT ![u] = [at |-> "done", update |-> u]]
          /\ child' = [child EXCEPT ![u] = [at |-> "dead", todo |-> <<>>]]
          /\ UNCHANGED <<plan, called, temp>> /\ proc[u].at = "kill"
      BY <1>0, <1>4, ProcFact DEF kill, Child
    <2>2. PICK r : r = IF result[u] = "ok" THEN "ok" ELSE "error"
      OBVIOUS
    <2>3. result' = [result EXCEPT ![u] = r]
      BY <1>4, <2>2 DEF kill
    <2>4. RequestStep(u, "done")
      BY <2>1, <2>3 DEF RequestStep
    <2>5. Good(u)'
      BY <1>0, <2>1, <2>2, <2>3 DEF Good, Early, Intact
    <2> QED
      BY <2>4, <2>5, RequestKeeps
  <1>5. CASE interrupt(u)
    <2>1. /\ proc' = [proc EXCEPT ![u] = [at |-> "look", update |-> u]]
          /\ UNCHANGED <<child, plan, called, temp, result>> /\ proc[u].at = "waiting"
      BY <1>0, <1>5, ProcFact DEF interrupt
    <2>2. RequestStep(u, "look")
      BY <2>1 DEF RequestStep
    <2>3. Good(u)'
      BY <1>0, <2>1 DEF Good, Early, Intact
    <2> QED
      BY <2>2, <2>3, RequestKeeps
  <1> QED
    BY <1>1, <1>2, <1>3, <1>4, <1>5 DEF request

\* Commit, abort, and the check, in the hands of Rest and Cleaner
LEMMA CallerSteps ==
    ASSUME StageInv, NEW p \in {Rest, Cleaner}, aborting(p) \/ call_error(p)
    PROVE  StageInv'
  <1>0. p \in Procs /\ p \notin Updates /\ (proc[p].at # "idle" => proc[p].update \in called)
    BY UpdateAssumption DEF Procs, StageInv, Callers
  <1>1. PICK x : x = proc[p].update
    OBVIOUS
  <1>2. CASE abort_update(p)
    <2>1. PICK a : /\ a \in {"drop", "unmark"} /\ Proc(p, a)
      BY <1>2 DEF abort_update
    <2>2. /\ UNCHANGED <<child, plan, result, called, temp>> /\ proc[p].at = "look"
      BY <1>2 DEF abort_update
    <2>3. CallerStep(p, a, x)
      BY <1>0, <1>1, <2>1, <2>2, ProcFact DEF CallerStep
    <2> QED
      BY <2>3, CallerKeeps
  <1>3. CASE abort_drop(p)
    <2>1. /\ UNCHANGED <<child, plan, called>> /\ proc[p].at = "drop"
          /\ temp' = [v \in DOMAIN temp \ {x} |-> temp[v]]
      BY <1>1, <1>3 DEF abort_drop
    <2>2. PICK a : a \in {"unmark", "idle"} /\ Proc(p, a)
      BY <1>0, <1>3 DEF abort_drop, raises
    <2>3. result' = result
      BY <1>0, <1>3 DEF abort_drop, raises
    <2>4. CallerStep(p, a, x)
      BY <1>0, <1>1, <2>1, <2>2, <2>3, ProcFact DEF CallerStep
    <2> QED
      BY <2>4, CallerKeeps
  <1>4. CASE abort_unmark(p)
    <2>1. Proc(p, "idle") /\ UNCHANGED <<child, plan, result, called, temp>>
      BY <1>0, <1>4 DEF abort_unmark, resume
    <2>2. CallerStep(p, "idle", x)
      BY <1>0, <1>1, <2>1, ProcFact DEF CallerStep
    <2> QED
      BY <2>2, CallerKeeps
  <1>5. CASE call_error(p)
    <2>1. Proc(p, "idle") /\ UNCHANGED <<child, plan, result, called, temp>>
      BY <1>0, <1>5 DEF call_error, raises
    <2>2. CallerStep(p, "idle", x)
      BY <1>0, <1>1, <2>1, ProcFact DEF CallerStep
    <2> QED
      BY <2>2, CallerKeeps
  <1> QED
    BY <1>2, <1>3, <1>4, <1>5 DEF aborting

\* A request that aborts its own update: it does not accept it any more.
LEMMA AbortingSteps ==
    ASSUME StageInv, NEW u \in Updates, aborting(u) \/ call_error(u)
    PROVE  StageInv'
  <1>0. Good(u) /\ u \in Procs /\ proc[u].update = u /\ DOMAIN proc = Procs /\ DOMAIN result = Updates
    BY DEF StageInv, Procs, Good, Shape
  <1>1. CASE abort_update(u)
    <2>1. PICK a : /\ a \in {"drop", "unmark"} /\ Proc(u, a)
      BY <1>1 DEF abort_update
    <2>2. /\ UNCHANGED <<child, plan, result, called, temp>> /\ proc[u].at = "look"
      BY <1>1 DEF abort_update
    <2>3. proc' = [proc EXCEPT ![u] = [at |-> a, update |-> u]]
      BY <1>0, <2>1, ProcFact
    <2>4. RequestStep(u, a)
      BY <2>2, <2>3 DEF RequestStep
    <2>5. Good(u)'
      BY <1>0, <2>1, <2>2, <2>3 DEF Good, Early, Intact
    <2> QED
      BY <2>4, <2>5, RequestKeeps
  <1>2. CASE abort_drop(u)
    <2>1. /\ UNCHANGED <<child, plan, called>> /\ proc[u].at = "drop"
          /\ temp' = [v \in DOMAIN temp \ {u} |-> temp[v]]
      BY <1>0, <1>2 DEF abort_drop
    <2>2. PICK a, r : /\ a \in {"unmark", "done"} /\ Proc(u, a) /\ r # "ok"
                      /\ result' = result \/ result' = [result EXCEPT ![u] = r]
      BY <1>0, <1>2 DEF abort_drop, raises
    <2>3. proc' = [proc EXCEPT ![u] = [at |-> a, update |-> u]]
      BY <1>0, <2>2, ProcFact
    <2>4. RequestStep(u, a)
      BY <2>1, <2>2, <2>3 DEF RequestStep
    <2>5. u \notin DOMAIN temp'
      BY <2>1
    <2>6. Good(u)'
      BY <1>0, <2>1, <2>2, <2>3, <2>5 DEF Good, Early, Intact
    <2> QED
      BY <2>4, <2>6, RequestKeeps
  <1>3. CASE abort_unmark(u)
    <2>1. Proc(u, "kill") /\ UNCHANGED <<child, plan, result, called, temp>> /\ proc[u].at = "unmark"
      BY <1>3 DEF abort_unmark, resume
    <2>2. proc' = [proc EXCEPT ![u] = [at |-> "kill", update |-> u]]
      BY <1>0, <2>1, ProcFact
    <2>3. RequestStep(u, "kill")
      BY <2>1, <2>2 DEF RequestStep
    <2>4. Good(u)'
      BY <1>0, <2>1, <2>2 DEF Good, Early, Intact
    <2> QED
      BY <2>3, <2>4, RequestKeeps
  <1>4. CASE call_error(u)
    <2>1. /\ Proc(u, "done") /\ UNCHANGED <<child, plan, called, temp>>
          /\ result' = [result EXCEPT ![u] = "error"]
          /\ proc[u].at \in {"look", "drop", "unmark", "commit", "committed"}
      BY <1>4 DEF call_error, raises
    <2>2. proc' = [proc EXCEPT ![u] = [at |-> "done", update |-> u]]
      BY <1>0, <2>1, ProcFact
    <2>3. RequestStep(u, "done")
      BY <2>1, <2>2 DEF RequestStep
    <2>4. Good(u)'
      BY <1>0, <2>1, <2>2 DEF Good, Early, Intact
    <2> QED
      BY <2>3, <2>4, RequestKeeps
  <1> QED
    BY <1>1, <1>2, <1>3, <1>4 DEF aborting

\* The calls, what follows a commit, and time
LEMMA CallSteps ==
    ASSUME StageInv,
           \/ \E u \in Updates : \/ commit_batch_update(u) \/ abort_batch(u)
                                 \/ check_outdated_updates(u) \/ Outdated(u)
           \/ commit_move \/ commit_drop
    PROVE  StageInv'
  <1>1. ASSUME NEW u \in Updates, commit_batch_update(u) PROVE StageInv'
    <2>1. CallerStep(Rest, "commit", u)
      BY <1>1 DEF commit_batch_update, CallerStep
    <2> QED
      BY <2>1, CallerKeeps
  <1>2. ASSUME NEW u \in Updates, abort_batch(u) PROVE StageInv'
    <2>1. CallerStep(Rest, "look", u)
      BY <1>2 DEF abort_batch, CallerStep
    <2> QED
      BY <2>1, CallerKeeps
  <1>3. ASSUME NEW u \in Updates, check_outdated_updates(u) PROVE StageInv'
    <2>1. CallerStep(Cleaner, "look", u)
      BY <1>3 DEF check_outdated_updates, CallerStep
    <2> QED
      BY <2>1, CallerKeeps
  <1>4. ASSUME NEW u \in Updates, Outdated(u) PROVE StageInv'
    BY <1>4 DEF Outdated, StageInv, Shape, Callers, Good, Intact
  <1>5. Rest \in Procs
    BY DEF Procs
  <1>6. PICK x : x = proc[Rest].update
    OBVIOUS
  <1>7. CASE commit_move
    <2>1. PICK a : a \in {"committed", "idle"} /\ Proc(Rest, a)
      BY <1>7 DEF commit_move
    <2>2. UNCHANGED <<child, plan, result, called, temp>> /\ proc[Rest].at = "commit"
      BY <1>7 DEF commit_move
    <2>3. x \in called
      BY <1>6, <2>2 DEF StageInv, Callers
    <2>4. CallerStep(Rest, a, x)
      BY <1>5, <1>6, <2>1, <2>2, <2>3, ProcFact DEF CallerStep
    <2> QED
      BY <2>4, CallerKeeps
  <1>8. CASE commit_drop
    <2>1. /\ Proc(Rest, "idle") /\ UNCHANGED <<child, plan, result, called>>
          /\ proc[Rest].at = "committed" /\ temp' = [v \in DOMAIN temp \ {x} |-> temp[v]]
      BY <1>6, <1>8 DEF commit_drop
    <2>2. x \in called
      BY <1>6, <2>1 DEF StageInv, Callers
    <2>3. CallerStep(Rest, "idle", x)
      BY <1>5, <1>6, <2>1, <2>2, ProcFact DEF CallerStep
    <2> QED
      BY <2>3, CallerKeeps
  <1> QED
    BY <1>1, <1>2, <1>3, <1>4, <1>7, <1>8

\* Initially there is no temporary collection, and nobody is called.
LEMMA InitStaged == Init => StageInv
  <1> SUFFICES ASSUME Init PROVE StageInv
    OBVIOUS
  <1>1. \A u \in Updates : u \in Procs
    BY DEF Procs
  <1>2. Shape /\ Callers
    BY UpdateAssumption DEF Init, Shape, Callers, Procs
  <1>3. \A u \in Updates : Good(u)
    BY <1>1 DEF Init, Good
  <1> QED
    BY <1>2, <1>3 DEF StageInv

\* Every step of a child, a request, a caller of commit or abort, and of time keeps
\* the invariant.
LEMMA StageStep ==
    ASSUME StageInv, [Next]_vars
    PROVE  StageInv'
  <1>1. CASE UNCHANGED vars
    BY <1>1 DEF vars, StageInv, Shape, Callers, Good, Intact
  <1>2. CASE Next
    BY <1>2, MergeStep, FaultStep, RequestSteps, CallerSteps, AbortingSteps, CallSteps DEF Next, Procs
  <1> QED
    BY <1>1, <1>2

-----------------------------------------------------------------------------
(* Theorems *)

\* Child, request and temporary collection of every update fit together in every
\* state: a collection holds nothing, or all of the plan once it is stored.
THEOREM StageInvariant == Spec => []StageInv
  BY StageStep, InitStaged, PTL DEF Spec

\* An accepted batch stays complete until commit or abort is called for it: neither
\* its own request nor another update, nor a failed abort, leaves a part of it.
THEOREM StagedBatchesAreKept == Spec => []StagedIsKept
  <1>1. StageInv => StagedIsKept
    BY UpdateAssumption DEF StageInv, Good, Intact, StagedIsKept
  <1> QED
    BY <1>1, StageInvariant, PTL

-----------------------------------------------------------------------------
(***************************************************************************)
(* A root is replaced as a whole or not at all, for any trees and updates,  *)
(* and any number of faults and calls: the roots are clean, which no other  *)
(* root is nested with and no direct update was broken off at.              *)
(***************************************************************************)

\* A root of which ReplacedAsWhole speaks
Clean(r) == Separate(r) /\ \A u \in Updates : r \in RootsOf(u) => u \notin torn

\* What u replaces, all that it may write, and what it replaces below clean roots
Mine(u) == UNION {Below(r) : r \in RootsOf(u)}
Scope(u) == ParentNodes(u) \cup Mine(u)
Kept(u) == {n \in Nodes : \E r \in RootsOf(u) : Clean(r) /\ n \in Below(r)}

-----------------------------------------------------------------------------
(* Plans and graphs *)

\* Every operation leads towards the incoming graph.
Sound(u, ops) ==
    \A o \in ops :
        /\ o.node \in Scope(u)
        /\ o.kind \in {"node_insert", "node_update", "node_delete", "edge_insert", "edge_delete"}
        /\ o.kind \in {"node_insert", "node_update"} =>
             o.node \in DOMAIN Payload[u] /\ o.hash = Payload[u][o.node]
        /\ o.kind \in {"node_delete", "edge_delete"} => o.node \notin DOMAIN Payload[u]
        /\ o.kind = "edge_insert" => o.node \in Linked(DOMAIN Payload[u])

\* A graph has nodes with a hash, and edges to nodes that have a parent.
IsGraph(g) ==
    /\ g = [nodes |-> g.nodes, edges |-> g.edges]
    /\ g.nodes = [n \in DOMAIN g.nodes |-> g.nodes[n]]
    /\ DOMAIN g.nodes \subseteq Nodes
    /\ g.edges \subseteq Linked(Nodes)

\* Node n, or the edge to it, is as in the incoming graph or has an operation.
NodePlanned(u, ops, g, n) ==
    IF n \in DOMAIN Payload[u]
    THEN \/ n \in Targets(ops, "node_insert")
         \/ n \in DOMAIN g.nodes /\ (g.nodes[n] = Payload[u][n] \/ n \in Targets(ops, "node_update"))
    ELSE n \notin DOMAIN g.nodes \/ n \in Targets(ops, "node_delete")

EdgePlanned(u, ops, g, n) ==
    IF n \in Linked(DOMAIN Payload[u])
    THEN n \in Targets(ops, "edge_insert") \/ n \in g.edges
    ELSE n \notin g.edges \/ n \in Targets(ops, "edge_delete")

\* h is g after some operations of u.
Toward(u, g, h) ==
    \A n \in Nodes :
        /\ n \notin Scope(u) => /\ n \in DOMAIN h.nodes <=> n \in DOMAIN g.nodes
                                /\ n \in DOMAIN g.nodes => h.nodes[n] = g.nodes[n]
                                /\ n \in h.edges <=> n \in g.edges
        /\ n \in DOMAIN Payload[u] =>
             /\ n \in DOMAIN g.nodes => n \in DOMAIN h.nodes
             /\ n \in DOMAIN h.nodes => \/ h.nodes[n] = Payload[u][n]
                                        \/ n \in DOMAIN g.nodes /\ h.nodes[n] = g.nodes[n]
             /\ n \in g.edges => n \in h.edges
        /\ n \notin DOMAIN Payload[u] =>
             /\ n \in DOMAIN h.nodes => n \in DOMAIN g.nodes
             /\ n \in h.edges => n \in g.edges

\* The operations of a kind on the nodes of K have been executed on g.
Executed(K, u, ops, g, kind) ==
    \A n \in Targets(ops, kind) \cap K :
        CASE kind = "node_insert" -> n \in DOMAIN g.nodes /\ g.nodes[n] = Payload[u][n]
          [] kind = "node_update" -> n \in DOMAIN g.nodes => g.nodes[n] = Payload[u][n]
          [] kind = "node_delete" -> n \notin DOMAIN g.nodes
          [] kind = "edge_insert" -> n \in g.edges
          [] kind = "edge_delete" -> n \notin g.edges

-----------------------------------------------------------------------------
(* The inductive invariant *)

Ended == {"ok", "error", "dead"}

\* A root has at most one update that is marked.
MarksInv ==
    /\ marks \subseteq Updates
    /\ \A u, v \in marks : u # v => RootsOf(u) \cap RootsOf(v) = {}

\* A direct update that is not broken off keeps its mark until it is written.
DirectInv(u) ==
    /\ child[u].at = "direct" => Direct(u)
    /\ Direct(u) /\ u \notin torn /\ child[u].at \in {"nodes", "edges", "direct"} => u \in marks

\* Only batches that were accepted are committed.
CallersInv ==
    /\ \A p \in {Rest, Cleaner} : proc[p].at # "idle" => proc[p].update \in Updates
    /\ proc[Rest].at = "commit" => proc[Rest].update \in Batches /\ result[proc[Rest].update] = "ok"

\* The parts of u, and what it replaces below clean roots in each of them.
Parts(u) == {"parents"} \cup RootsOf(u)
Owned(u, g) ==
    Kept(u) \cap (IF g = "parents" THEN ParentNodes(u) ELSE Below(g) \ ParentNodes(u))

PartNodes(u, g) == \A n \in Owned(u, g) : NodePlanned(u, plan[u], graph, n)
PartEdges(u, g) == \A n \in Owned(u, g) : EdgePlanned(u, plan[u], graph, n)

\* How far the comparison is
Comparing(u) ==
    child[u].at \in {"nodes", "edges"} =>
        /\ child[u].todo \in Seq(Parts(u)) /\ child[u].todo # <<>>
        /\ u \in marks =>
             /\ \A g \in Parts(u) : g \notin Range(child[u].todo) => PartNodes(u, g) /\ PartEdges(u, g)
             /\ child[u].at = "edges" => PartNodes(u, Head(child[u].todo))

\* The comparison is over, and the plan may be executed.
Compared(u) ==
    (child[u].at \in {"direct", "get_tmp", "store", "move", "ok"} \/ result[u] = "ok") /\ u \in marks =>
        \A g \in Parts(u) : PartNodes(u, g) /\ PartEdges(u, g)

\* How far a direct update is written
KindsLeft ==
    {Kinds, <<"node_update", "node_delete", "edge_insert", "edge_delete">>,
     <<"node_delete", "edge_insert", "edge_delete">>, <<"edge_insert", "edge_delete">>,
     <<"edge_delete">>, <<>>}

Writing(u) ==
    child[u].at = "direct" =>
        /\ child[u].todo \in KindsLeft
        /\ \A kind \in Range(Kinds) : kind \notin Range(child[u].todo) =>
             Executed(Kept(u), u, plan[u], graph, kind)

Merging(u) ==
    /\ Sound(u, plan[u])
    /\ child[u].at \in {"none", "read", "mark"} => plan[u] = {}
    /\ DirectInv(u) /\ Comparing(u) /\ Compared(u) /\ Writing(u)
    /\ child[u].at = "move" /\ u \in DOMAIN temp => temp[u] = plan[u]
    /\ child[u].at = "drop" /\ child[u].todo = <<>> => u \notin marks

\* ReplacedAsWhole, and also for a direct update that has written everything.
AppliedInv ==
    /\ DOMAIN applied = UNION {RootsOf(u) : u \in Updates}
    /\ \A r \in DOMAIN applied :
         /\ Clean(r)
         /\ \A u \in Updates : r \in RootsOf(u) /\ child[u].at = "direct" => child[u].todo = <<>>
         => Content(graph, r) = applied[r]

ReplaceInv ==
    /\ StageInv /\ IsGraph(graph) /\ MarksInv /\ CallersInv /\ AppliedInv /\ torn \subseteq Updates
    /\ \A u \in Updates : Merging(u)

-----------------------------------------------------------------------------
(* Facts about trees, writes and plans *)

\* What is below a clean root is out of the scope of the updates that have other roots.
LEMMA OutOfScope ==
    ASSUME NEW u \in Updates, NEW r \in Nodes, Separate(r), r \notin RootsOf(u), NEW n \in Below(r)
    PROVE  n \notin Scope(u)
  <1>1. /\ n \in Nodes /\ r \in Above[n]
        /\ \A s \in RootsOf(u) : s \in Nodes
    BY UpdateAssumption DEF Below
  <1>2. n \notin Mine(u)
    BY <1>1, TreeAssumption DEF Separate, Mine, Below
  <1>3. n \notin ParentNodes(u)
    BY <1>1, TreeAssumption DEF Separate, ParentNodes
  <1> QED
    BY <1>2, <1>3 DEF Scope

\* As updates are broken off, less is said.
LEMMA KeptShrinks ==
    ASSUME torn \subseteq torn', NEW u \in Updates
    PROVE  /\ \A r : Clean(r)' => Clean(r)
           /\ Kept(u)' \subseteq Kept(u)
           /\ Kept(u) \subseteq Nodes /\ Kept(u) \subseteq Mine(u)
           /\ u \in torn' => Kept(u)' = {}
           /\ \A g : Owned(u, g)' \subseteq Owned(u, g)
  <1>1. \A r : Clean(r)' => Clean(r)
    BY DEF Clean, Separate
  <1>2. Kept(u)' \subseteq Kept(u)
    BY <1>1 DEF Kept
  <1>3. Kept(u) \subseteq Nodes /\ Kept(u) \subseteq Mine(u)
    BY DEF Kept, Mine
  <1>4. u \in torn' => Kept(u)' = {}
    BY DEF Kept, Clean
  <1>5. \A g : Owned(u, g)' \subseteq Owned(u, g)
    BY <1>2 DEF Owned
  <1> QED
    BY <1>1, <1>2, <1>3, <1>4, <1>5

\* The nodes an operation of a kind is about
LEMMA TargetFact ==
    ASSUME NEW ops, NEW kind, NEW n
    PROVE  n \in Targets(ops, kind) <=> \E o \in ops : o.kind = kind /\ o.node = n
  BY DEF Targets

\* Writing the operations of one kind leads towards the incoming graph.
LEMMA WriteFact ==
    ASSUME NEW u \in Updates, NEW ops, Sound(u, ops), NEW g, IsGraph(g), NEW h, NEW kind, NEW K,
           kind \in {"node_insert", "node_update", "node_delete", "edge_insert", "edge_delete"},
           h = Write(g, ops, kind)
    PROVE  IsGraph(h) /\ Toward(u, g, h) /\ Executed(K, u, ops, h, kind)
  <1> DEFINE ns == Targets(ops, kind)
             hash(n) == (CHOOSE o \in ops : o.kind = kind /\ o.node = n).hash
  <1>0. /\ DOMAIN Payload[u] \subseteq Nodes
        /\ Scope(u) \subseteq Nodes
    BY UpdateAssumption, TreeAssumption DEF IsTable, Scope, Mine, ParentNodes, Below
  <1>1. \A n \in ns : n \in Scope(u) /\ n \in Nodes
    BY <1>0, TargetFact DEF Sound
  <1>2. /\ kind \in {"node_insert", "node_update"} =>
             \A n \in ns : n \in DOMAIN Payload[u] /\ hash(n) = Payload[u][n]
        /\ kind \in {"node_delete", "edge_delete"} => \A n \in ns : n \notin DOMAIN Payload[u]
        /\ kind = "edge_insert" => \A n \in ns : n \in Linked(DOMAIN Payload[u])
    BY TargetFact DEF Sound
  <1> HIDE DEF ns, hash
  <1>3. CASE kind = "node_insert"
    <2>1. h = [g EXCEPT !.nodes = [n \in DOMAIN g.nodes \cup ns |->
                                     IF n \in ns THEN hash(n) ELSE g.nodes[n]]]
      BY <1>3 DEF Write, ns, hash
    <2>2. /\ h.nodes = [n \in DOMAIN g.nodes \cup ns |-> IF n \in ns THEN hash(n) ELSE g.nodes[n]]
          /\ h.edges = g.edges
          /\ h = [nodes |-> h.nodes, edges |-> h.edges]
      BY <2>1 DEF IsGraph
    <2>3. IsGraph(h)
      BY <1>1, <2>2 DEF IsGraph
    <2>4. Toward(u, g, h)
      BY <1>1, <1>2, <1>3, <2>2 DEF Toward
    <2>5. Executed(K, u, ops, h, kind)
      BY <1>2, <1>3, <2>2 DEF Executed, ns
    <2> QED
      BY <2>3, <2>4, <2>5
  <1>4. CASE kind = "node_update"
    <2>1. h = [g EXCEPT !.nodes = [n \in DOMAIN g.nodes |-> IF n \in ns THEN hash(n) ELSE g.nodes[n]]]
      BY <1>4 DEF Write, ns, hash
    <2>2. /\ h.nodes = [n \in DOMAIN g.nodes |-> IF n \in ns THEN hash(n) ELSE g.nodes[n]]
          /\ h.edges = g.edges
          /\ h = [nodes |-> h.nodes, edges |-> h.edges]
      BY <2>1 DEF IsGraph
    <2>3. IsGraph(h)
      BY <1>1, <2>2 DEF IsGraph
    <2>4. Toward(u, g, h)
      BY <1>1, <1>2, <1>4, <2>2 DEF Toward
    <2>5. Executed(K, u, ops, h, kind)
      BY <1>2, <1>4, <2>2 DEF Executed, ns
    <2> QED
      BY <2>3, <2>4, <2>5
  <1>5. CASE kind = "node_delete"
    <2>1. h = [g EXCEPT !.nodes = [n \in DOMAIN g.nodes \ ns |-> g.nodes[n]]]
      BY <1>5 DEF Write, ns, hash
    <2>2. /\ h.nodes = [n \in DOMAIN g.nodes \ ns |-> g.nodes[n]]
          /\ h.edges = g.edges
          /\ h = [nodes |-> h.nodes, edges |-> h.edges]
      BY <2>1 DEF IsGraph
    <2>3. IsGraph(h)
      BY <1>1, <2>2 DEF IsGraph
    <2>4. Toward(u, g, h)
      BY <1>1, <1>2, <1>5, <2>2 DEF Toward
    <2>5. Executed(K, u, ops, h, kind)
      BY <1>2, <1>5, <2>2 DEF Executed, ns
    <2> QED
      BY <2>3, <2>4, <2>5
  <1>6. CASE kind = "edge_insert"
    <2>1. h = [g EXCEPT !.edges = g.edges \cup ns]
      BY <1>6 DEF Write, ns, hash
    <2>2. h.nodes = g.nodes /\ h.edges = g.edges \cup ns /\ h = [nodes |-> h.nodes, edges |-> h.edges]
      BY <2>1 DEF IsGraph
    <2>3. IsGraph(h)
      BY <1>0, <1>2, <1>6, <2>2 DEF IsGraph, Linked
    <2>4. Toward(u, g, h)
      BY <1>1, <1>2, <1>6, <2>2 DEF Toward, Linked
    <2>5. Executed(K, u, ops, h, kind)
      BY <1>2, <1>6, <2>2 DEF Executed, ns
    <2> QED
      BY <2>3, <2>4, <2>5
  <1>7. CASE kind = "edge_delete"
    <2>1. h = [g EXCEPT !.edges = g.edges \ ns]
      BY <1>7 DEF Write, ns, hash
    <2>2. h.nodes = g.nodes /\ h.edges = g.edges \ ns /\ h = [nodes |-> h.nodes, edges |-> h.edges]
      BY <2>1 DEF IsGraph
    <2>3. IsGraph(h)
      BY <2>2 DEF IsGraph
    <2>4. Toward(u, g, h)
      BY <1>1, <1>2, <1>7, <2>2 DEF Toward
    <2>5. Executed(K, u, ops, h, kind)
      BY <1>2, <1>7, <2>2 DEF Executed, ns
    <2> QED
      BY <2>3, <2>4, <2>5
  <1> QED
    BY <1>3, <1>4, <1>5, <1>6, <1>7

\* Operations of u do not lead away again.
LEMMA TowardOn ==
    ASSUME NEW u \in Updates, NEW f, NEW g, NEW h, Toward(u, f, g), Toward(u, g, h)
    PROVE  Toward(u, f, h)
  BY DEF Toward

\* What has been executed stays so when more operations of u follow.
LEMMA ExecutedOn ==
    ASSUME NEW u \in Updates, NEW ops, Sound(u, ops), NEW g, NEW h, Toward(u, g, h), NEW kind, NEW K,
           K \subseteq Nodes,
           kind \in {"node_insert", "node_update", "node_delete", "edge_insert", "edge_delete"},
           Executed(K, u, ops, g, kind)
    PROVE  Executed(K, u, ops, h, kind)
  <1> SUFFICES ASSUME NEW n \in Targets(ops, kind) \cap K
               PROVE  CASE kind = "node_insert" -> n \in DOMAIN h.nodes /\ h.nodes[n] = Payload[u][n]
                        [] kind = "node_update" -> n \in DOMAIN h.nodes => h.nodes[n] = Payload[u][n]
                        [] kind = "node_delete" -> n \notin DOMAIN h.nodes
                        [] kind = "edge_insert" -> n \in h.edges
                        [] kind = "edge_delete" -> n \notin h.edges
    BY DEF Executed
  <1>1. PICK o \in ops : o.kind = kind /\ o.node = n
    BY TargetFact
  <1>2. n \in Nodes
    OBVIOUS
  <1>3. CASE kind = "node_insert"
    BY <1>1, <1>2, <1>3 DEF Sound, Toward, Executed
  <1>4. CASE kind = "node_update"
    BY <1>1, <1>2, <1>4 DEF Sound, Toward, Executed
  <1>5. CASE kind = "node_delete"
    BY <1>1, <1>2, <1>5 DEF Sound, Toward, Executed
  <1>6. CASE kind = "edge_insert"
    BY <1>1, <1>2, <1>6 DEF Sound, Toward, Executed, Linked
  <1>7. CASE kind = "edge_delete"
    BY <1>1, <1>2, <1>7 DEF Sound, Toward, Executed
  <1> QED
    BY <1>3, <1>4, <1>5, <1>6, <1>7

\* What is planned stays so, too.
LEMMA PlannedOn ==
    ASSUME NEW u \in Updates, NEW ops, NEW g, NEW h, Toward(u, g, h), NEW n \in Nodes
    PROVE  /\ NodePlanned(u, ops, g, n) => NodePlanned(u, ops, h, n)
           /\ EdgePlanned(u, ops, g, n) /\ h.edges \subseteq Linked(Nodes) => EdgePlanned(u, ops, h, n)
  <1>1. NodePlanned(u, ops, g, n) => NodePlanned(u, ops, h, n)
    BY DEF NodePlanned, Toward
  <1>2. EdgePlanned(u, ops, g, n) /\ h.edges \subseteq Linked(Nodes) => EdgePlanned(u, ops, h, n)
    BY DEF EdgePlanned, Toward, Linked
  <1> QED
    BY <1>1, <1>2

\* A graph on which a plan has been executed that covers everything below r
\* holds the incoming graph there.
LEMMA Finish ==
    ASSUME NEW u \in Updates, NEW ops, NEW h, IsGraph(h), NEW r \in RootsOf(u),
           NEW K, Below(r) \subseteq K,
           \A n \in Below(r) : NodePlanned(u, ops, h, n) /\ EdgePlanned(u, ops, h, n),
           Executed(K, u, ops, h, "node_insert"), Executed(K, u, ops, h, "node_update"),
           Executed(K, u, ops, h, "node_delete"), Executed(K, u, ops, h, "edge_insert"),
           Executed(K, u, ops, h, "edge_delete")
    PROVE  Content(h, r) = Content(Whole(Payload[u]), r)
  <1>2. \A n \in Below(r) : n \in DOMAIN h.nodes <=> n \in DOMAIN Payload[u]
    BY DEF NodePlanned, Executed
  <1>3. \A n \in Below(r) : n \in DOMAIN Payload[u] => h.nodes[n] = Payload[u][n]
    BY <1>2 DEF NodePlanned, Executed
  <1>4. \A n \in Below(r) : n \in h.edges <=> n \in Linked(DOMAIN Payload[u])
    BY DEF EdgePlanned, Executed
  <1>5. DOMAIN h.nodes \cap Below(r) = DOMAIN Payload[u] \cap Below(r)
    BY <1>2
  <1>6. [n \in DOMAIN h.nodes \cap Below(r) |-> h.nodes[n]]
          = [n \in DOMAIN Payload[u] \cap Below(r) |-> Payload[u][n]]
    BY <1>3, <1>5
  <1>7. h.edges \cap Below(r) = Linked(DOMAIN Payload[u]) \cap Below(r)
    BY <1>4
  <1> QED
    BY <1>6, <1>7 DEF Content, Whole

\* A transaction leads towards the incoming graph, and puts it below every root for
\* which the plan is complete.
LEMMA WriteAllFact ==
    ASSUME NEW u \in Updates, NEW ops, Sound(u, ops), NEW g, IsGraph(g), NEW h, h = WriteAll(g, ops)
    PROVE  /\ IsGraph(h) /\ Toward(u, g, h)
           /\ \A r \in RootsOf(u) :
                (\A n \in Below(r) : NodePlanned(u, ops, g, n) /\ EdgePlanned(u, ops, g, n))
                  => Content(h, r) = Content(Whole(Payload[u]), r)
  <1> DEFINE ALL == {"node_insert", "node_update", "node_delete", "edge_insert", "edge_delete"}
  <1>1. PICK g1 : g1 = Write(g, ops, "node_insert")
    OBVIOUS
  <1>2. PICK g2 : g2 = Write(g1, ops, "node_update")
    OBVIOUS
  <1>3. PICK g3 : g3 = Write(g2, ops, "node_delete")
    OBVIOUS
  <1>4. PICK g4 : g4 = Write(g3, ops, "edge_insert")
    OBVIOUS
  <1>5. h = Write(g4, ops, "edge_delete")
    BY <1>1, <1>2, <1>3, <1>4 DEF WriteAll, Before
  <1>6. IsGraph(g1) /\ Toward(u, g, g1) /\ Executed(Nodes, u, ops, g1, "node_insert")
    BY <1>1, WriteFact
  <1>7. IsGraph(g2) /\ Toward(u, g1, g2) /\ Executed(Nodes, u, ops, g2, "node_update")
    BY <1>2, <1>6, WriteFact
  <1>8. IsGraph(g3) /\ Toward(u, g2, g3) /\ Executed(Nodes, u, ops, g3, "node_delete")
    BY <1>3, <1>7, WriteFact
  <1>9. IsGraph(g4) /\ Toward(u, g3, g4) /\ Executed(Nodes, u, ops, g4, "edge_insert")
    BY <1>4, <1>8, WriteFact
  <1>10. IsGraph(h) /\ Toward(u, g4, h) /\ Executed(Nodes, u, ops, h, "edge_delete")
    BY <1>5, <1>9, WriteFact
  <1>11. Toward(u, g3, h) /\ Toward(u, g2, h) /\ Toward(u, g1, h) /\ Toward(u, g, h)
    <2>1. Toward(u, g3, h)
      BY <1>9, <1>10, TowardOn
    <2>2. Toward(u, g2, h)
      BY <1>8, <2>1, TowardOn
    <2>3. Toward(u, g1, h)
      BY <1>7, <2>2, TowardOn
    <2>4. Toward(u, g, h)
      BY <1>6, <2>3, TowardOn
    <2> QED
      BY <2>1, <2>2, <2>3, <2>4
  <1>12. /\ Executed(Nodes, u, ops, h, "node_insert") /\ Executed(Nodes, u, ops, h, "node_update")
         /\ Executed(Nodes, u, ops, h, "node_delete") /\ Executed(Nodes, u, ops, h, "edge_insert")
    <2>1. Executed(Nodes, u, ops, h, "node_insert")
      BY <1>6, <1>11, ExecutedOn
    <2>2. Executed(Nodes, u, ops, h, "node_update")
      BY <1>7, <1>11, ExecutedOn
    <2>3. Executed(Nodes, u, ops, h, "node_delete")
      BY <1>8, <1>11, ExecutedOn
    <2>4. Executed(Nodes, u, ops, h, "edge_insert")
      BY <1>9, <1>10, ExecutedOn
    <2> QED
      BY <2>1, <2>2, <2>3, <2>4
  <1>13. ASSUME NEW r \in RootsOf(u),
                \A n \in Below(r) : NodePlanned(u, ops, g, n) /\ EdgePlanned(u, ops, g, n)
         PROVE  Content(h, r) = Content(Whole(Payload[u]), r)
    <2>1. h.edges \subseteq Linked(Nodes)
      BY <1>10 DEF IsGraph
    <2>2. Below(r) \subseteq Nodes
      BY DEF Below
    <2>3. \A n \in Below(r) : NodePlanned(u, ops, h, n) /\ EdgePlanned(u, ops, h, n)
      BY <1>11, <1>13, <2>1, <2>2, PlannedOn
    <2> QED
      BY <1>10, <1>12, <2>2, <2>3, Finish
  <1> QED
    BY <1>10, <1>11, <1>13

-----------------------------------------------------------------------------
(* The frame of a step *)

\* What v replaces below clean roots is left alone in the graph.
Sees(v) ==
    \A n \in Kept(v) : /\ n \in DOMAIN graph'.nodes <=> n \in DOMAIN graph.nodes
                       /\ n \in DOMAIN graph.nodes => graph'.nodes[n] = graph.nodes[n]
                       /\ n \in graph'.edges <=> n \in graph.edges

\* A step that leaves the graph alone is seen by nobody.
LEMMA SeesSame ==
    ASSUME graph' = graph, NEW v
    PROVE  Sees(v)
  BY DEF Sees

\* Operations of u are not seen by another update that is marked: either u is marked
\* as well, and has other roots, or it was broken off and its roots are not clean.
LEMMA OthersSee ==
    ASSUME MarksInv, NEW u \in Updates, u \in marks \/ u \in torn, NEW v \in marks, u # v,
           Toward(u, graph, graph')
    PROVE  Sees(v)
  <1>1. v \in Updates
    BY DEF MarksInv
  <1>2. ASSUME NEW n \in Kept(v)
        PROVE  n \in Nodes /\ n \notin Scope(u)
    <2>1. PICK r \in RootsOf(v) : Clean(r) /\ n \in Below(r)
      BY <1>2 DEF Kept
    <2>2. r \in Nodes /\ Separate(r) /\ r \notin RootsOf(u)
      BY <1>1, <2>1, UpdateAssumption DEF Clean, MarksInv
    <2>3. n \notin Scope(u)
      BY <2>1, <2>2, OutOfScope
    <2> QED
      BY <2>1, <2>3 DEF Below
  <1> QED
    BY <1>2 DEF Sees, Toward

\* What is owned is replaced.
LEMMA OwnedIsKept ==
    ASSUME NEW u, NEW g
    PROVE  Owned(u, g) \subseteq Kept(u) /\ Owned(u, g) \subseteq Nodes
  BY DEF Owned, Kept

\* The kinds of operations
LEMMA KindsFact ==
    Range(Kinds) = {"node_insert", "node_update", "node_delete", "edge_insert", "edge_delete"}
  BY DEF Range, Kinds

\* Whether operations have been executed only depends on the nodes in question.
LEMMA ExecutedSame ==
    ASSUME NEW u, NEW ops, NEW g, NEW h, NEW kind \in Range(Kinds), NEW K, Executed(K, u, ops, g, kind),
           NEW L, L \subseteq K,
           \A n \in L : /\ n \in DOMAIN h.nodes <=> n \in DOMAIN g.nodes
                        /\ n \in DOMAIN g.nodes => h.nodes[n] = g.nodes[n]
                        /\ n \in h.edges <=> n \in g.edges
    PROVE  Executed(L, u, ops, h, kind)
  <1>1. CASE kind = "node_insert"
    BY <1>1 DEF Executed
  <1>2. CASE kind = "node_update"
    BY <1>2 DEF Executed
  <1>3. CASE kind = "node_delete"
    BY <1>3 DEF Executed
  <1>4. CASE kind = "edge_insert"
    BY <1>4 DEF Executed
  <1>5. CASE kind = "edge_delete"
    BY <1>5 DEF Executed
  <1> QED
    BY <1>1, <1>2, <1>3, <1>4, <1>5, KindsFact

\* Nothing of v changes, though its temporary collection may be deleted.
Stays(v) ==
    /\ child'[v] = child[v] /\ plan'[v] = plan[v] /\ result'[v] = result[v]
    /\ v \in DOMAIN temp' => v \in DOMAIN temp /\ temp'[v] = temp[v]

\* A direct update that is under way keeps its mark, or it is broken off.
KeepsMark(v) ==
    Direct(v) /\ child[v].at \in {"nodes", "edges", "direct"} => v \in marks' \/ v \in torn'

\* A plan that grows stays as complete as it is.
LEMMA PlannedMore ==
    ASSUME NEW u, NEW ops, NEW more, ops \subseteq more, NEW g, NEW n
    PROVE  /\ NodePlanned(u, ops, g, n) => NodePlanned(u, more, g, n)
           /\ EdgePlanned(u, ops, g, n) => EdgePlanned(u, more, g, n)
  <1>1. \A kind : n \in Targets(ops, kind) => n \in Targets(more, kind)
    BY TargetFact
  <1> QED
    BY <1>1 DEF NodePlanned, EdgePlanned

\* A part that is planned stays so when the plan grows and what u replaces is left alone.
LEMMA PartsStay ==
    ASSUME NEW u \in Updates, NEW g, Sees(u), torn \subseteq torn', plan[u] \subseteq plan'[u]
    PROVE  /\ PartNodes(u, g) => PartNodes(u, g)'
           /\ PartEdges(u, g) => PartEdges(u, g)'
  <1>1. PICK more, gr : more = plan'[u] /\ gr = graph'
    OBVIOUS
  <1>2. Owned(u, g)' \subseteq Owned(u, g) /\ Owned(u, g) \subseteq Kept(u)
    BY KeptShrinks, OwnedIsKept
  <1>3. \A n : /\ NodePlanned(u, plan[u], graph, n) => NodePlanned(u, more, graph, n)
               /\ EdgePlanned(u, plan[u], graph, n) => EdgePlanned(u, more, graph, n)
    BY <1>1, PlannedMore
  <1>4. \A n \in Owned(u, g) : /\ NodePlanned(u, more, graph, n) => NodePlanned(u, more, gr, n)
                               /\ EdgePlanned(u, more, graph, n) => EdgePlanned(u, more, gr, n)
    BY <1>1, <1>2 DEF Sees, NodePlanned, EdgePlanned
  <1> QED
    BY <1>1, <1>2, <1>3, <1>4 DEF PartNodes, PartEdges

\* What is said of an update that a step does not touch stays true.
LEMMA MergingSame ==
    ASSUME NEW v \in Updates, Merging(v), Stays(v), size' = size, torn \subseteq torn',
           v \in marks' => v \in marks /\ Sees(v), KeepsMark(v)
    PROVE  Merging(v)'
  <1>1. child'[v] = child[v] /\ plan'[v] = plan[v] /\ result'[v] = result[v]
    BY DEF Stays
  <1>2. Direct(v)' <=> Direct(v)
    BY DEF Direct
  <1>3. Sound(v, plan'[v])
    BY <1>1 DEF Merging
  <1>4. DirectInv(v)'
    BY <1>1, <1>2 DEF Merging, DirectInv, KeepsMark
  <1>5. ASSUME v \in marks', NEW g
        PROVE  /\ PartNodes(v, g) => PartNodes(v, g)'
               /\ PartEdges(v, g) => PartEdges(v, g)'
    BY <1>1, <1>5, PartsStay
  <1>6. Comparing(v)'
    BY <1>1, <1>5 DEF Merging, Comparing
  <1>7. Compared(v)'
    BY <1>1, <1>5 DEF Merging, Compared
  <1>8. Writing(v)'
    <2>1. CASE child[v].at = "direct"
      <3>1. v \in torn' => Kept(v)' = {}
        BY KeptShrinks
      <3>2. ASSUME NEW kind \in Range(Kinds), Executed(Kept(v), v, plan[v], graph, kind)
            PROVE  Executed(Kept(v)', v, plan'[v], graph', kind)
        <4>1. Kept(v)' \subseteq Kept(v)
          BY KeptShrinks
        <4>2. CASE v \in torn'
          BY <3>1, <4>2 DEF Executed
        <4>3. CASE v \notin torn'
          <5>1. v \in marks'
            BY <2>1, <4>3 DEF Merging, DirectInv, KeepsMark
          <5>2. Executed(Kept(v)', v, plan[v], graph', kind)
            BY <3>2, <4>1, <5>1, ExecutedSame DEF Sees
          <5> QED
            BY <1>1, <5>2
        <4> QED
          BY <4>2, <4>3
      <3> QED
        BY <1>1, <2>1, <3>2 DEF Merging, Writing
    <2>2. CASE child[v].at # "direct"
      BY <1>1, <2>2 DEF Writing
    <2> QED
      BY <2>1, <2>2
  <1> QED
    BY <1>1, <1>3, <1>4, <1>6, <1>7, <1>8 DEF Merging, Stays

\* A step that does not write the graph keeps the invariant if it does so for the
\* update it is a step of.
LEMMA QuietKeeps ==
    ASSUME ReplaceInv, StageInv', UNCHANGED <<size, graph, applied>>, marks' \subseteq marks,
           torn \subseteq torn', torn' \subseteq Updates,
           NEW u \in Updates, \A v \in Updates \ {u} : Stays(v) /\ KeepsMark(v), Merging(u)',
           child[u].at = "direct" => child'[u] = child[u] \/ child[u].todo = <<>> \/ u \in torn',
           CallersInv'
    PROVE  ReplaceInv'
  <1>1. IsGraph(graph') /\ MarksInv'
    BY DEF ReplaceInv, MarksInv
  <1>2. \A v \in Updates : Merging(v)'
    <2>1. \A v \in Updates : Sees(v)
      BY SeesSame
    <2> QED
      BY <2>1, MergingSame DEF ReplaceInv
  <1>3. AppliedInv'
    <2>1. \A v \in Updates : child[v].at = "direct" =>
            child'[v] = child[v] \/ child[v].todo = <<>> \/ v \in torn'
      BY DEF Stays
    <2>2. ASSUME NEW r \in DOMAIN applied, Clean(r)',
                 \A v \in Updates : r \in RootsOf(v) /\ child'[v].at = "direct" => child'[v].todo = <<>>
          PROVE  Content(graph, r) = applied[r]
      <3>1. Clean(r) /\ \A v \in Updates : r \in RootsOf(v) => v \notin torn'
        BY <2>2, KeptShrinks DEF Clean
      <3>2. \A v \in Updates : r \in RootsOf(v) /\ child[v].at = "direct" => child[v].todo = <<>>
        BY <2>1, <2>2, <3>1
      <3> QED
        BY <2>2, <3>1, <3>2 DEF ReplaceInv, AppliedInv
    <2> QED
      BY <2>2 DEF ReplaceInv, AppliedInv
  <1> QED
    BY <1>1, <1>2, <1>3 DEF ReplaceInv

\* Rest and Cleaner stay where they are.
LEMMA CallersStay ==
    ASSUME ReplaceInv, NEW u \in Updates, \A v \in Updates \ {u} : Stays(v),
           proc'[Rest] = proc[Rest], proc'[Cleaner] = proc[Cleaner],
           result[u] = "ok" => result'[u] = "ok"
    PROVE  CallersInv'
  <1>1. \A v \in Updates : result[v] = "ok" => result'[v] = "ok"
    BY DEF Stays
  <1> QED
    BY <1>1, UpdateAssumption DEF ReplaceInv, CallersInv

\* A step that writes operations of u into the graph: what is below its clean roots
\* is complete afterwards, or it is not yet through, or none of its roots is clean.
LEMMA WriteKeeps ==
    ASSUME ReplaceInv, StageInv', size' = size, NEW u \in Updates, u \in marks \/ u \in torn,
           Toward(u, graph, graph'), IsGraph(graph'), marks' \subseteq marks,
           torn \subseteq torn', torn' \subseteq Updates,
           \A v \in Updates \ {u} : Stays(v) /\ (v \in marks => v \in marks'),
           Merging(u)', CallersInv', Replaced(u) \/ applied' = applied,
           \/ /\ \A r \in RootsOf(u) : Clean(r) => Content(graph', r) = Content(Whole(Payload[u]), r)
              /\ Replaced(u)
           \/ applied' = applied /\ child'[u].at = "direct" /\ child'[u].todo # <<>>
           \/ u \in torn'
    PROVE  ReplaceInv'
  <1>0. MarksInv
    BY DEF ReplaceInv
  <1>1. MarksInv'
    BY <1>0 DEF MarksInv
  <1>2. \A v \in Updates : Merging(v)'
    <2>1. ASSUME NEW v \in Updates, v # u
          PROVE  Merging(v)'
      <3>1. v \in marks' => v \in marks /\ Sees(v)
        BY <1>0, <2>1, OthersSee
      <3>2. KeepsMark(v)
        BY <2>1 DEF ReplaceInv, Merging, DirectInv, KeepsMark
      <3> QED
        BY <2>1, <3>1, <3>2, MergingSame DEF ReplaceInv
    <2> QED
      BY <2>1
  <1>3. AppliedInv'
    <2>1. DOMAIN applied' = DOMAIN applied
      BY DEF Replaced
    <2>2. ASSUME NEW r \in DOMAIN applied, Clean(r)',
                 \A v \in Updates : r \in RootsOf(v) /\ child'[v].at = "direct" => child'[v].todo = <<>>
          PROVE  Content(graph', r) = applied'[r]
      <3>0. Clean(r) /\ \A v \in Updates : r \in RootsOf(v) => v \notin torn'
        BY <2>2, KeptShrinks DEF Clean
      <3>1. CASE r \in RootsOf(u)
        BY <2>2, <3>0, <3>1 DEF Replaced
      <3>2. CASE r \notin RootsOf(u)
        <4>1. applied'[r] = applied[r]
          BY <2>2, <3>2 DEF Replaced
        <4>2. Content(graph, r) = applied[r]
          <5>1. \A v \in Updates : r \in RootsOf(v) => child'[v] = child[v]
            BY <3>2 DEF Stays
          <5> QED
            BY <2>2, <3>0, <5>1 DEF ReplaceInv, AppliedInv
        <4>3. \A n \in Below(r) : n \notin Scope(u) /\ n \in Nodes
          <5>1. r \in Nodes /\ Separate(r)
            BY <2>2, <3>0, UpdateAssumption DEF ReplaceInv, AppliedInv, Clean
          <5>2. \A n \in Below(r) : n \notin Scope(u)
            BY <3>2, <5>1, OutOfScope
          <5> QED
            BY <5>2 DEF Below
        <4>4. /\ DOMAIN graph'.nodes \cap Below(r) = DOMAIN graph.nodes \cap Below(r)
              /\ \A n \in DOMAIN graph.nodes \cap Below(r) : graph'.nodes[n] = graph.nodes[n]
              /\ graph'.edges \cap Below(r) = graph.edges \cap Below(r)
          BY <4>3 DEF Toward
        <4>5. Content(graph', r) = Content(graph, r)
          BY <4>4 DEF Content
        <4> QED
          BY <4>1, <4>2, <4>5
      <3> QED
        BY <3>1, <3>2
    <2> QED
      BY <2>1, <2>2 DEF ReplaceInv, AppliedInv
  <1> QED
    BY <1>1, <1>2, <1>3 DEF ReplaceInv

-----------------------------------------------------------------------------
(* The comparison *)

\* The operations that a comparison adds to a plan
LEMMA OpsFact ==
    ASSUME NEW kind, NEW ns, NEW hash, NEW o \in Ops(kind, ns, hash)
    PROVE  o.kind = kind /\ o.node \in ns /\ o.hash = hash[o.node]
  BY DEF Ops, Op

\* They are about exactly the nodes they are made for.
LEMMA OpsTargets ==
    ASSUME NEW kind, NEW ns, NEW hash, NEW k
    PROVE  /\ Targets(Ops(kind, ns, hash), kind) = ns
           /\ k # kind => Targets(Ops(kind, ns, hash), k) = {}
  <1>1. \A n \in ns : Op(kind, n, hash[n]) \in Ops(kind, ns, hash)
    BY DEF Ops
  <1>2. \A n \in ns : Op(kind, n, hash[n]).kind = kind /\ Op(kind, n, hash[n]).node = n
    BY DEF Op
  <1>3. \A n \in ns : n \in Targets(Ops(kind, ns, hash), kind)
    BY <1>1, <1>2, TargetFact
  <1>4. \A j : \A n \in Targets(Ops(kind, ns, hash), j) : j = kind /\ n \in ns
    BY OpsFact, TargetFact
  <1> QED
    BY <1>3, <1>4

\* The targets of a plan to which operations are added
LEMMA TargetsMore ==
    ASSUME NEW ops, NEW add, NEW kind
    PROVE  Targets(ops \cup add, kind) = Targets(ops, kind) \cup Targets(add, kind)
  <1>1. \A n : n \in Targets(ops \cup add, kind)
                 <=> n \in Targets(ops, kind) \cup Targets(add, kind)
    BY TargetFact
  <1> QED
    BY <1>1

\* The parts lie within the scope of an update, and belong to the tree.
LEMMA PartFact ==
    ASSUME NEW u \in Updates, NEW g \in Parts(u)
    PROVE  /\ Part(u, g) \subseteq Scope(u) /\ Owned(u, g) \subseteq Part(u, g)
           /\ Part(u, g) \subseteq Nodes
           /\ g = "parents" => Part(u, g) \subseteq DOMAIN Payload[u]
  <1>1. "parents" \notin RootsOf(u) /\ RootsOf(u) \subseteq Nodes
    BY UpdateAssumption, TreeAssumption
  <1>2. CASE g = "parents"
    BY <1>1, <1>2, UpdateAssumption, TreeAssumption DEF Part, Scope, Owned, ParentNodes
  <1>3. CASE g # "parents"
    BY <1>1, <1>3 DEF Part, Scope, Owned, Parts, Mine, Below
  <1> QED
    BY <1>2, <1>3

\* What prepare_nodes adds to the plan for a part
NodesAdded(u, g, ops, gr, more) ==
    LET given   == DOMAIN Payload[u] \cap Part(u, g)
        stored  == DOMAIN gr.nodes \cap Part(u, g)
        visited == IF g = "parents" THEN {} ELSE ParentNodes(u)
    IN  more = ops \cup Ops("node_insert", given \ (stored \cup visited), Payload[u])
                   \cup Ops("node_update", {n \in given \cap stored : gr.nodes[n] # Payload[u][n]},
                            Payload[u])
                   \cup Ops("node_delete", stored \ given, gr.nodes)

\* prepare_nodes: afterwards every node of the part is planned.
LEMMA NodesCompared ==
    ASSUME NEW u \in Updates, NEW g \in Parts(u), NEW ops, Sound(u, ops), NEW gr, NEW more,
           NodesAdded(u, g, ops, gr, more)
    PROVE  /\ Sound(u, more) /\ ops \subseteq more
           /\ \A n \in Owned(u, g) : NodePlanned(u, more, gr, n)
  <1> PICK given, stored, visited :
          /\ given = DOMAIN Payload[u] \cap Part(u, g) /\ stored = DOMAIN gr.nodes \cap Part(u, g)
          /\ visited = IF g = "parents" THEN {} ELSE ParentNodes(u)
    OBVIOUS
  <1> PICK changed : changed = {n \in given \cap stored : gr.nodes[n] # Payload[u][n]}
    OBVIOUS
  <1> more = ops \cup Ops("node_insert", given \ (stored \cup visited), Payload[u])
                 \cup Ops("node_update", changed, Payload[u])
                 \cup Ops("node_delete", stored \ given, gr.nodes)
    BY DEF NodesAdded
  <1> DEFINE new == given \ (stored \cup visited)
             A == Ops("node_insert", new, Payload[u])
             B == Ops("node_update", changed, Payload[u])
             C == Ops("node_delete", stored \ given, gr.nodes)
  <1>0. /\ Part(u, g) \subseteq Scope(u) /\ Owned(u, g) \subseteq Part(u, g)
        /\ g = "parents" => Part(u, g) \subseteq DOMAIN Payload[u]
    BY PartFact
  <1>1. \A o \in A : o.kind = "node_insert" /\ o.node \in new /\ o.hash = Payload[u][o.node]
    BY OpsFact
  <1>2. \A o \in B : o.kind = "node_update" /\ o.node \in changed /\ o.hash = Payload[u][o.node]
    BY OpsFact
  <1>3. \A o \in C : o.kind = "node_delete" /\ o.node \in stored \ given
    BY OpsFact
  <1>4. more = ops \cup A \cup B \cup C
    OBVIOUS
  <1>5. /\ Targets(more, "node_insert") = Targets(ops, "node_insert") \cup new
        /\ Targets(more, "node_update") = Targets(ops, "node_update") \cup changed
        /\ Targets(more, "node_delete") = Targets(ops, "node_delete") \cup (stored \ given)
    <2>1. ASSUME NEW k
          PROVE  Targets(more, k) = ((Targets(ops, k) \cup Targets(A, k)) \cup Targets(B, k))
                                      \cup Targets(C, k)
      <3> HIDE DEF A, B, C
      <3>1. /\ Targets(((ops \cup A) \cup B) \cup C, k)
                 = Targets((ops \cup A) \cup B, k) \cup Targets(C, k)
            /\ Targets((ops \cup A) \cup B, k) = Targets(ops \cup A, k) \cup Targets(B, k)
            /\ Targets(ops \cup A, k) = Targets(ops, k) \cup Targets(A, k)
        BY TargetsMore
      <3> QED
        BY <1>4, <3>1, Zenon
    <2>2. Targets(A, "node_insert") = new /\ \A k : k # "node_insert" => Targets(A, k) = {}
      <3> HIDE DEF new
      <3> QED
        BY OpsTargets, Zenon
    <2>3. Targets(B, "node_update") = changed /\ \A k : k # "node_update" => Targets(B, k) = {}
      BY OpsTargets, Zenon
    <2>4. Targets(C, "node_delete") = stored \ given /\ \A k : k # "node_delete" => Targets(C, k) = {}
      BY OpsTargets, Zenon
    <2> HIDE DEF A, B, C, new
    <2>5. /\ Targets(A, "node_update") = {} /\ Targets(A, "node_delete") = {}
          /\ Targets(A, "edge_delete") = {} /\ Targets(B, "node_insert") = {}
          /\ Targets(B, "node_delete") = {} /\ Targets(B, "edge_delete") = {}
          /\ Targets(C, "node_insert") = {} /\ Targets(C, "node_update") = {}
          /\ Targets(C, "edge_delete") = {}
      BY <2>2, <2>3, <2>4
    <2>6. Targets(more, "node_insert") = Targets(ops, "node_insert") \cup new
      BY <2>1, <2>2, <2>5
    <2>7. Targets(more, "node_update") = Targets(ops, "node_update") \cup changed
      BY <2>1, <2>3, <2>5
    <2>8. Targets(more, "node_delete") = Targets(ops, "node_delete") \cup (stored \ given)
      BY <2>1, <2>4, <2>5
    <2> QED
      BY <2>6, <2>7, <2>8
  <1> HIDE DEF A, B, C
  <1>6. Sound(u, more)
    <2>1. ASSUME NEW o \in A \cup B \cup C
          PROVE  /\ o.node \in Scope(u)
                 /\ o.kind \in {"node_insert", "node_update", "node_delete"}
                 /\ o.kind \in {"node_insert", "node_update"} =>
                      o.node \in DOMAIN Payload[u] /\ o.hash = Payload[u][o.node]
                 /\ o.kind = "node_delete" => o.node \notin DOMAIN Payload[u]
      BY <1>0, <1>1, <1>2, <1>3
    <2> QED
      BY <1>4, <2>1 DEF Sound
  <1>7. \A n \in Owned(u, g) : NodePlanned(u, more, gr, n)
    <2>1. ASSUME NEW n \in Owned(u, g) PROVE n \in Part(u, g) /\ n \notin visited
      BY <1>0 DEF Owned
    <2> QED
      BY <1>5, <2>1 DEF NodePlanned
  <1> QED
    BY <1>4, <1>6, <1>7

\* What prepare_edges adds
EdgesAdded(u, g, ops, gr, more) ==
    LET part   == Linked(Part(u, g)) \ {g}
        given  == DOMAIN Payload[u] \cap part
        stored == gr.edges \cap part
        zero   == [n \in Nodes |-> 0]
    IN  more = ops \cup Ops("edge_insert", given \ stored, zero)
                   \cup Ops("edge_delete", stored \ given, zero)

\* prepare_edges: afterwards every edge of the part is planned.
LEMMA EdgesCompared ==
    ASSUME NEW u \in Updates, NEW g \in Parts(u), NEW ops, Sound(u, ops), NEW gr,
           gr.edges \subseteq Linked(Nodes), NEW more, EdgesAdded(u, g, ops, gr, more)
    PROVE  /\ Sound(u, more) /\ ops \subseteq more
           /\ \A n \in Owned(u, g) : EdgePlanned(u, more, gr, n)
  <1> PICK part : part = Linked(Part(u, g)) \ {g}
    OBVIOUS
  <1> PICK given, stored, zero : /\ given = DOMAIN Payload[u] \cap part /\ stored = gr.edges \cap part
                                 /\ zero = [n \in Nodes |-> 0]
    OBVIOUS
  <1> more = ops \cup Ops("edge_insert", given \ stored, zero)
                 \cup Ops("edge_delete", stored \ given, zero)
    BY DEF EdgesAdded
  <1> DEFINE A == Ops("edge_insert", given \ stored, zero)
             B == Ops("edge_delete", stored \ given, zero)
  <1>0. /\ Part(u, g) \subseteq Scope(u) /\ Owned(u, g) \subseteq Part(u, g)
        /\ Part(u, g) \subseteq Nodes
    BY PartFact
  <1>1. \A o \in A : o.kind = "edge_insert" /\ o.node \in given \ stored
    BY OpsFact
  <1>2. \A o \in B : o.kind = "edge_delete" /\ o.node \in stored \ given
    BY OpsFact
  <1>3. more = ops \cup A \cup B
    OBVIOUS
  <1>4. /\ Targets(more, "edge_insert") = Targets(ops, "edge_insert") \cup (given \ stored)
        /\ Targets(more, "edge_delete") = Targets(ops, "edge_delete") \cup (stored \ given)
    <2>1. ASSUME NEW k
          PROVE  Targets(more, k) = (Targets(ops, k) \cup Targets(A, k)) \cup Targets(B, k)
      <3> HIDE DEF A, B
      <3>1. /\ Targets((ops \cup A) \cup B, k) = Targets(ops \cup A, k) \cup Targets(B, k)
            /\ Targets(ops \cup A, k) = Targets(ops, k) \cup Targets(A, k)
        BY TargetsMore
      <3> QED
        BY <1>3, <3>1, Zenon
    <2>2. Targets(A, "edge_insert") = given \ stored /\ \A k : k # "edge_insert" => Targets(A, k) = {}
      BY OpsTargets, Zenon
    <2>3. Targets(B, "edge_delete") = stored \ given /\ \A k : k # "edge_delete" => Targets(B, k) = {}
      BY OpsTargets, Zenon
    <2> HIDE DEF A, B
    <2>4. /\ Targets(A, "edge_delete") = {} /\ Targets(A, "node_update") = {}
          /\ Targets(A, "node_delete") = {} /\ Targets(B, "edge_insert") = {}
          /\ Targets(B, "node_update") = {} /\ Targets(B, "node_delete") = {}
      BY <2>2, <2>3
    <2>5. Targets(more, "edge_insert") = Targets(ops, "edge_insert") \cup (given \ stored)
      BY <2>1, <2>2, <2>4
    <2>6. Targets(more, "edge_delete") = Targets(ops, "edge_delete") \cup (stored \ given)
      BY <2>1, <2>3, <2>4
    <2> QED
      BY <2>5, <2>6
  <1> HIDE DEF A, B
  <1>5. Sound(u, more)
    <2>1. ASSUME NEW o \in A \cup B
          PROVE  /\ o.node \in Scope(u)
                 /\ o.kind \in {"edge_insert", "edge_delete"}
                 /\ o.kind = "edge_delete" => o.node \notin DOMAIN Payload[u]
                 /\ o.kind = "edge_insert" => o.node \in Linked(DOMAIN Payload[u])
      BY <1>0, <1>1, <1>2 DEF Linked
    <2> QED
      BY <1>3, <2>1 DEF Sound
  <1>6. \A n \in Owned(u, g) : EdgePlanned(u, more, gr, n)
    <2>1. ASSUME NEW n \in Owned(u, g) PROVE n \in Part(u, g) /\ n # g
      <3>1. g # "parents" => g \in ParentNodes(u)
        BY UpdateAssumption, TreeAssumption DEF Parts, ParentNodes
      <3>2. "parents" \notin Nodes
        BY TreeAssumption
      <3> QED
        BY <1>0, <3>1, <3>2 DEF Owned
    <2> QED
      BY <1>0, <1>4, <2>1 DEF EdgePlanned, Linked
  <1> QED
    BY <1>3, <1>5, <1>6

-----------------------------------------------------------------------------
(* The steps of a child that do not write *)

\* A step of the child of u leaves the other updates alone.
LEMMA ChildFrame ==
    ASSUME StageInv, NEW u \in Updates, NEW a, NEW t, ChildStep(u, a, t)
    PROVE  /\ child'[u] = [at |-> a, todo |-> t] /\ proc' = proc /\ result' = result
           /\ \A v \in Updates \ {u} : Stays(v)
  <1>1. child'[u] = [at |-> a, todo |-> t] /\ \A v \in Updates \ {u} : child'[v] = child[v]
    BY DEF StageInv, Shape, ChildStep
  <1>2. \A v \in Updates \ {u} : plan'[v] = plan[v]
    BY DEF StageInv, Shape, ChildStep
  <1> QED
    BY <1>1, <1>2 DEF ChildStep, Stays

\* Such a step keeps the invariant if it does so for u.
LEMMA ChildQuiet ==
    ASSUME ReplaceInv, StageInv', NEW u \in Updates, NEW a, NEW t, ChildStep(u, a, t),
           UNCHANGED <<size, graph, applied>>, marks' \subseteq marks, marks \subseteq marks' \cup {u},
           torn \subseteq torn', torn' \subseteq torn \cup {u},
           child[u].at # "direct" \/ child[u].todo = <<>> \/ u \in torn', Merging(u)'
    PROVE  ReplaceInv'
  <1>1. /\ proc' = proc /\ result' = result /\ torn' \subseteq Updates
        /\ \A v \in Updates \ {u} : Stays(v)
    BY ChildFrame DEF ReplaceInv
  <1>2. \A v \in Updates \ {u} : KeepsMark(v)
    BY DEF ReplaceInv, Merging, DirectInv, KeepsMark
  <1>3. CallersInv'
    BY <1>1, CallersStay
  <1> QED
    BY <1>1, <1>2, <1>3, QuietKeeps

\* What a step of the child of u that changes neither plan nor graph has to keep for u
LEMMA ChildMerging ==
    ASSUME ReplaceInv, NEW u \in Updates, NEW a, NEW t, ChildStep(u, a, t),
           UNCHANGED <<size, graph, plan>>, marks' \subseteq marks, torn \subseteq torn',
           child[u].at \notin Ended,
           a \notin {"nodes", "edges", "direct"},
           a \in {"get_tmp", "store", "move", "ok"} /\ u \in marks' =>
             child[u].at \in {"direct", "get_tmp", "store", "move"},
           a = "move" /\ u \in DOMAIN temp' => temp'[u] = plan[u],
           a = "drop" /\ t = <<>> => u \notin marks',
           (a = "mark" /\ child[u].at = "read") \/ a \notin {"none", "read", "mark"}
    PROVE  Merging(u)'
  <1>0. Merging(u) /\ Good(u)
    BY DEF ReplaceInv, StageInv
  <1>1. child'[u].at = a /\ child'[u].todo = t /\ proc' = proc /\ result' = result
    <2>1. child'[u] = [at |-> a, todo |-> t] /\ proc' = proc /\ result' = result
      BY ChildFrame DEF ReplaceInv
    <2> QED
      BY <2>1
  <1>2. result[u] # "ok"
    BY <1>0 DEF Good, Ended
  <1>3. DirectInv(u)'
    BY <1>1 DEF DirectInv
  <1>4. Comparing(u)' /\ Writing(u)'
    BY <1>1 DEF Comparing, Writing
  <1>5. Compared(u)'
    <2>1. \A g : (PartNodes(u, g) => PartNodes(u, g)') /\ (PartEdges(u, g) => PartEdges(u, g)')
      BY SeesSame, PartsStay
    <2> QED
      BY <1>0, <1>1, <1>2, <2>1 DEF Merging, Compared
  <1> QED
    BY <1>0, <1>1, <1>3, <1>4, <1>5 DEF Merging

\* The steps of the child that write and compare nothing
LEMMA PlainSteps ==
    ASSUME ReplaceInv, StageInv', NEW u \in Updates,
           \/ send_to_child(u) \/ updated_directly(u) \/ get_tmp_collection(u)
           \/ store_to_tmp_collection(u) \/ delete_temp_collection(u) \/ delete_marked_update(u)
    PROVE  ReplaceInv'
  <1>0. Good(u) /\ Merging(u)
    BY DEF ReplaceInv, StageInv
  <1>1. CASE send_to_child(u)
    <2>1. /\ ChildStep(u, "mark", <<>>) /\ child[u].at = "read"
          /\ UNCHANGED <<size, graph, plan, applied, marks, torn>>
      BY <1>1 DEF send_to_child, ChildStep, Child
    <2>2. Merging(u)'
      BY <2>1, ChildMerging DEF Ended
    <2> QED
      BY <2>1, <2>2, ChildQuiet DEF Ended
  <1>2. CASE updated_directly(u)
    <2>1. /\ ChildStep(u, "ok", <<>>) /\ child[u].at = "direct" /\ child[u].todo = <<>>
          /\ UNCHANGED <<size, graph, plan, applied, torn>> /\ marks' = marks \ {u}
      BY <1>2 DEF updated_directly, ChildStep, Child
    <2>2. Merging(u)'
      BY <2>1, ChildMerging DEF Ended
    <2> QED
      BY <2>1, <2>2, ChildQuiet DEF Ended
  <1>3. CASE get_tmp_collection(u)
    <2>1. temp' = [v \in DOMAIN temp \cup {u} |-> IF v \in DOMAIN temp THEN temp[v] ELSE {}]
      BY <1>3 DEF get_tmp_collection
    <2>2. /\ ChildStep(u, "store", <<>>) /\ child[u].at = "get_tmp"
          /\ UNCHANGED <<size, graph, plan, applied, marks, torn>>
      BY <1>3, <2>1 DEF get_tmp_collection, ChildStep, Child
    <2>3. Merging(u)'
      BY <2>2, ChildMerging DEF Ended
    <2> QED
      BY <2>2, <2>3, ChildQuiet DEF Ended
  <1>4. CASE store_to_tmp_collection(u)
    <2>1. child[u].at = "store" /\ UNCHANGED <<proc, result, called, plan, size, graph, applied, marks, torn>>
      BY <1>4 DEF store_to_tmp_collection
    <2>2. CASE u \in DOMAIN temp
      <3>1. PICK a : a = IF u \in Batches THEN "ok" ELSE "move"
        OBVIOUS
      <3>2. child' = [child EXCEPT ![u] = [at |-> a, todo |-> <<>>]]
        BY <1>4, <2>2, <3>1 DEF store_to_tmp_collection, Child
      <3>3. temp' = [temp EXCEPT ![u] = temp[u] \cup plan[u]] /\ temp[u] = {}
        BY <1>0, <1>4, <2>1, <2>2 DEF store_to_tmp_collection, Good
      <3>4. ChildStep(u, a, <<>>)
        BY <2>1, <3>2, <3>3 DEF ChildStep
      <3>5. temp'[u] = plan[u]
        BY <2>2, <3>3
      <3>6. Merging(u)'
        BY <2>1, <3>1, <3>4, <3>5, ChildMerging DEF Ended
      <3> QED
        BY <2>1, <3>4, <3>6, ChildQuiet DEF Ended
    <2>3. CASE u \notin DOMAIN temp
      <3>1. PICK a : a = IF u \in Batches THEN "unmark" ELSE "drop"
        OBVIOUS
      <3>2. child' = [child EXCEPT ![u] = [at |-> a, todo |-> <<"failed">>]] /\ temp' = temp
        BY <1>4, <2>3, <3>1 DEF store_to_tmp_collection, Child
      <3>3. ChildStep(u, a, <<"failed">>)
        BY <2>1, <3>2 DEF ChildStep
      <3>4. <<"failed">> # <<>>
        OBVIOUS
      <3>5. Merging(u)'
        BY <2>1, <3>1, <3>3, <3>4, ChildMerging DEF Ended
      <3> QED
        BY <2>1, <3>3, <3>5, ChildQuiet DEF Ended
    <2> QED
      BY <2>2, <2>3
  <1>5. CASE delete_temp_collection(u)
    <2>1. PICK a : /\ a = IF child[u].todo = <<>> /\ u \in DOMAIN temp THEN "ok" ELSE "unmark"
                   /\ child' = [child EXCEPT ![u] = [at |-> a, todo |-> <<>>]]
      BY <1>5 DEF delete_temp_collection, Child
    <2>2. child[u].at = "drop" /\ UNCHANGED <<proc, result, called, plan, size, graph, applied, marks, torn>>
      BY <1>5 DEF delete_temp_collection
    <2>3. temp' = [v \in DOMAIN temp \ {u} |-> temp[v]]
      BY <1>5 DEF delete_temp_collection
    <2>4. ChildStep(u, a, <<>>)
      BY <2>1, <2>2, <2>3 DEF ChildStep
    <2>5. a = "ok" => u \notin marks
      BY <1>0, <2>1, <2>2 DEF Merging
    <2>6. Merging(u)'
      BY <2>1, <2>2, <2>4, <2>5, ChildMerging DEF Ended
    <2> QED
      BY <2>2, <2>4, <2>6, ChildQuiet DEF Ended
  <1>6. CASE delete_marked_update(u)
    <2>1. /\ ChildStep(u, "error", <<>>) /\ child[u].at = "unmark"
          /\ UNCHANGED <<size, graph, plan, applied, torn>> /\ marks' = marks \ {u}
      BY <1>6 DEF delete_marked_update, ChildStep, Child
    <2>2. Merging(u)'
      BY <2>1, ChildMerging DEF Ended
    <2> QED
      BY <2>1, <2>2, ChildQuiet DEF Ended
  <1> QED
    BY <1>1, <1>2, <1>3, <1>4, <1>5, <1>6

\* Errors of the database and the death of the child, which break off a direct update
LEMMA FaultSteps ==
    ASSUME ReplaceInv, StageInv', NEW u \in Updates, db_error(u) \/ die(u)
    PROVE  ReplaceInv'
  <1>0. Good(u) /\ Merging(u)
    BY DEF ReplaceInv, StageInv
  <1>1. /\ torn \subseteq torn' /\ torn' \subseteq torn \cup {u}
        /\ child[u].at # "direct" \/ child[u].todo = <<>> \/ u \in torn'
    BY DEF db_error, die, BreakOff, half_written
  <1>2. CASE die(u)
    <2>1. /\ ChildStep(u, "dead", <<>>) /\ child[u].at \notin {"none", "ok", "error", "dead"}
          /\ UNCHANGED <<size, graph, plan, applied, marks>>
      BY <1>2 DEF die, ChildStep, Child
    <2>2. Merging(u)'
      BY <1>1, <2>1, ChildMerging DEF Ended
    <2> QED
      BY <1>1, <2>1, <2>2, ChildQuiet DEF Ended
  <1>3. CASE db_error(u)
    <2>1. UNCHANGED <<proc, result, called, plan, size, graph, applied, marks>>
      BY <1>3 DEF db_error
    <2>2. <<"failed">> # <<>>
      OBVIOUS
    <2>3. CASE child[u].at = "store"
      <3>1. PICK a : a = IF u \in Batches THEN "unmark" ELSE "drop"
        OBVIOUS
      <3>2. child' = [child EXCEPT ![u] = [at |-> a, todo |-> <<"failed">>]]
        BY <1>3, <2>3, <3>1 DEF db_error, Child
      <3>3. \E S : temp' = [temp EXCEPT ![u] = S]
        BY <1>3, <2>3 DEF db_error
      <3>4. ChildStep(u, a, <<"failed">>)
        BY <2>1, <3>2, <3>3 DEF ChildStep
      <3>5. Merging(u)'
        BY <1>1, <2>1, <2>2, <2>3, <3>1, <3>4, ChildMerging DEF Ended
      <3> QED
        BY <1>1, <2>1, <2>3, <3>4, <3>5, ChildQuiet DEF Ended
    <2>4. CASE child[u].at # "store"
      <3>1. PICK a, t : /\ a \in {"error", "unmark", "drop"}
                        /\ a = "drop" => t = <<"failed">>
                        /\ child' = [child EXCEPT ![u] = [at |-> a, todo |-> t]]
        BY <1>3, <2>4 DEF db_error, Child
      <3>2. /\ temp' = temp
            /\ child[u].at \in {"mark", "unmark", "nodes", "edges", "direct", "get_tmp", "drop", "move"}
        BY <1>3, <2>4 DEF db_error
      <3>3. ChildStep(u, a, t)
        BY <2>1, <3>1, <3>2 DEF ChildStep
      <3>4. Merging(u)'
        BY <1>1, <2>1, <2>2, <3>1, <3>2, <3>3, ChildMerging DEF Ended
      <3> QED
        BY <1>1, <2>1, <3>2, <3>3, <3>4, ChildQuiet DEF Ended
    <2> QED
      BY <2>3, <2>4
  <1> QED
    BY <1>2, <1>3

-----------------------------------------------------------------------------
(* Marking and comparing *)

\* A sequence without its head
LEMMA TailRange ==
    ASSUME NEW S, NEW s \in Seq(S), s # <<>>
    PROVE  /\ Tail(s) \in Seq(S) /\ Head(s) \in S
           /\ \A x \in Range(s) : x = Head(s) \/ x \in Range(Tail(s))
  <1>1. Tail(s) \in Seq(S) /\ Head(s) \in S /\ Len(s) \in Nat /\ Len(s) > 0
    OBVIOUS
  <1>2. DOMAIN s = 1..Len(s) /\ DOMAIN Tail(s) = 1..(Len(s) - 1)
    BY <1>1
  <1>3. ASSUME NEW x \in Range(s) PROVE x = Head(s) \/ x \in Range(Tail(s))
    <2>1. PICK i \in 1..Len(s) : x = s[i]
      BY <1>2, <1>3 DEF Range
    <2>2. CASE i = 1
      BY <2>1, <2>2
    <2>3. CASE i # 1
      <3>1. i - 1 \in DOMAIN Tail(s) /\ Tail(s)[i - 1] = s[i]
        BY <1>1, <1>2, <2>1, <2>3
      <3> QED
        BY <2>1, <3>1 DEF Range
    <2> QED
      BY <2>2, <2>3
  <1> QED
    BY <1>1, <1>3

\* An update is marked if no other one has a common root, and has to compare all parts.
LEMMA MarkStep ==
    ASSUME ReplaceInv, StageInv', NEW u \in Updates, mark_update(u)
    PROVE  ReplaceInv'
  <1>0. Good(u) /\ Merging(u) /\ child[u].at = "mark"
        /\ UNCHANGED <<size, graph, plan, applied, temp, proc, result, called, torn>>
    BY DEF ReplaceInv, StageInv, mark_update
  <1>1. CASE query_active_change(u) # {}
    <2>1. ChildStep(u, "error", <<>>) /\ marks' = marks
      BY <1>0, <1>1 DEF mark_update, ChildStep, Child
    <2>2. Merging(u)'
      BY <1>0, <2>1, ChildMerging DEF Ended
    <2> QED
      BY <1>0, <2>1, <2>2, ChildQuiet DEF Ended
  <1>2. CASE query_active_change(u) = {}
    <2>1. PICK t : t = <<"parents">> \o Roots[u]
      OBVIOUS
    <2>2. /\ marks' = marks \cup {u} /\ u \notin marks
          /\ child' = [child EXCEPT ![u] = [at |-> "nodes", todo |-> t]]
      BY <1>2, <2>1 DEF mark_update, Child
    <2>3. ChildStep(u, "nodes", t)
      BY <1>0, <2>2 DEF ChildStep
    <2>4. child'[u].at = "nodes" /\ child'[u].todo = t /\ \A v \in Updates \ {u} : Stays(v)
      <3>1. child'[u] = [at |-> "nodes", todo |-> t] /\ \A v \in Updates \ {u} : Stays(v)
        BY <2>3, ChildFrame DEF ReplaceInv
      <3> QED
        BY <3>1
    <2>5. MarksInv'
      <3>1. \A v \in marks : RootsOf(u) \cap RootsOf(v) = {}
        BY <1>2 DEF query_active_change
      <3> QED
        BY <2>2, <3>1 DEF ReplaceInv, MarksInv
    <2>6. ASSUME NEW v \in Updates, v # u PROVE Merging(v)'
      <3>1. v \in marks' <=> v \in marks
        BY <2>2, <2>6
      <3>2. KeepsMark(v)
        BY <1>0, <3>1 DEF ReplaceInv, Merging, DirectInv, KeepsMark
      <3> QED
        BY <1>0, <2>4, <2>6, <3>1, <3>2, MergingSame, SeesSame DEF ReplaceInv
    <2>7. Merging(u)'
      <3>1. t \in Seq(Parts(u)) /\ t # <<>> /\ \A g \in Parts(u) : g \in Range(t)
        <4>1. Roots[u] \in Seq(Nodes) /\ Len(Roots[u]) \in Nat
              /\ DOMAIN Roots[u] = 1..Len(Roots[u])
          BY UpdateAssumption
        <4>2. \A i \in 1..Len(Roots[u]) : Roots[u][i] \in RootsOf(u)
          BY <4>1 DEF RootsOf, Range
        <4>3. Len(t) = Len(Roots[u]) + 1 /\ t[1] = "parents"
              /\ \A i \in 1..Len(Roots[u]) : t[i + 1] = Roots[u][i]
          BY <2>1, <4>1
        <4>4. DOMAIN t = 1..(Len(Roots[u]) + 1)
          BY <2>1, <4>1
        <4>5. \A i \in 1..(Len(Roots[u]) + 1) : t[i] \in Parts(u)
          <5>1. ASSUME NEW i \in 1..(Len(Roots[u]) + 1), i # 1
                PROVE  t[i] \in Parts(u)
            <6>1. i - 1 \in 1..Len(Roots[u]) /\ (i - 1) + 1 = i
              BY <4>1, <5>1
            <6> QED
              BY <4>2, <4>3, <6>1 DEF Parts
          <5> QED
            BY <4>3, <5>1 DEF Parts
        <4>6. t \in Seq(Parts(u))
          <5>1. Roots[u] \in Seq(Parts(u))
            BY <4>1, <4>2, SeqDef DEF Parts
          <5>2. <<"parents">> \in Seq(Parts(u))
            BY DEF Parts
          <5> QED
            BY <2>1, <5>1, <5>2, ConcatProperties
        <4>7. ASSUME NEW g \in RootsOf(u) PROVE g \in Range(t)
          <5>1. PICK i \in 1..Len(Roots[u]) : g = Roots[u][i]
            BY <4>1 DEF RootsOf, Range
          <5>2. i + 1 \in DOMAIN t /\ t[i + 1] = g
            BY <4>1, <4>3, <4>4, <5>1
          <5> QED
            BY <5>2 DEF Range
        <4>8. "parents" \in Range(t)
          BY <4>1, <4>3, <4>4 DEF Range
        <4> QED
          BY <4>3, <4>4, <4>6, <4>7, <4>8 DEF Parts
      <3>2. plan[u] = {} /\ plan'[u] = {} /\ result[u] # "ok"
        BY <1>0 DEF Merging, Good
      <3>3. Sound(u, plan[u])'
        BY <3>2 DEF Sound
      <3>4. DirectInv(u)'
        BY <1>0, <2>2, <2>4 DEF Merging, DirectInv, Direct, Ended
      <3>5. Comparing(u)' /\ Compared(u)'
        BY <1>0, <2>4, <3>1, <3>2 DEF Comparing, Compared
      <3>6. Writing(u)'
        BY <2>4 DEF Writing
      <3> QED
        BY <2>4, <3>3, <3>4, <3>5, <3>6 DEF Merging
    <2>8. CallersInv'
      BY <1>0, <2>4, CallersStay DEF Ended
    <2>9. AppliedInv'
      <3>1. \A v \in Updates : child[v].at = "direct" => child'[v] = child[v]
        BY <1>0, <2>4 DEF Stays
      <3> QED
        BY <1>0, <3>1 DEF ReplaceInv, AppliedInv, Clean, Separate
    <2> QED
      BY <1>0, <2>5, <2>6, <2>7, <2>8, <2>9 DEF ReplaceInv
  <1> QED
    BY <1>1, <1>2

\* The nodes of a part are compared.
LEMMA PrepareNodesStep ==
    ASSUME ReplaceInv, StageInv', NEW u \in Updates, prepare_nodes(u)
    PROVE  ReplaceInv'
  <1>0. Good(u) /\ Merging(u) /\ child[u].at = "nodes"
        /\ UNCHANGED <<size, graph, marks, applied, temp, proc, result, called, torn>>
    BY DEF ReplaceInv, StageInv, prepare_nodes
  <1>1. PICK t, g : t = child[u].todo /\ g = Head(t)
    OBVIOUS
  <1>2. t \in Seq(Parts(u)) /\ t # <<>> /\ g \in Parts(u)
    BY <1>0, <1>1, TailRange DEF Merging, Comparing
  <1>3. PICK more : NodesAdded(u, g, plan[u], graph, more)
    BY DEF NodesAdded
  <1>6. /\ plan' = [plan EXCEPT ![u] = more]
        /\ child' = [child EXCEPT ![u] = [at |-> "edges", todo |-> t]]
    BY <1>1, <1>3 DEF prepare_nodes, Child, NodesAdded
  <1>7. Sound(u, plan[u])
    BY <1>0 DEF Merging
  <1>8. /\ Sound(u, more) /\ plan[u] \subseteq more
        /\ \A n \in Owned(u, g) : NodePlanned(u, more, graph, n)
    BY <1>2, <1>3, <1>7, NodesCompared
  <1>9. ChildStep(u, "edges", t)
    BY <1>0, <1>6 DEF ChildStep
  <1>10. child'[u].at = "edges" /\ child'[u].todo = t /\ plan'[u] = more /\ result[u] # "ok"
    BY <1>0, <1>6 DEF ReplaceInv, StageInv, Shape, Good
  <1>11. Merging(u)'
    <2>1. Sound(u, plan'[u])
      BY <1>8, <1>10
    <2>2. DirectInv(u)'
      BY <1>0, <1>10 DEF Merging, DirectInv, Direct, Ended
    <2>3. Comparing(u)'
      <3>1. \A h : (PartNodes(u, h) => PartNodes(u, h)') /\ (PartEdges(u, h) => PartEdges(u, h)')
        BY <1>0, <1>8, <1>10, SeesSame, PartsStay
      <3>2. PartNodes(u, g)'
        BY <1>0, <1>8, <1>10, KeptShrinks DEF PartNodes
      <3> QED
        BY <1>0, <1>1, <1>2, <1>10, <3>1, <3>2 DEF Merging, Comparing
    <2>4. Compared(u)' /\ Writing(u)'
      BY <1>0, <1>10 DEF Compared, Writing
    <2> QED
      BY <1>10, <2>1, <2>2, <2>3, <2>4 DEF Merging
  <1> QED
    BY <1>0, <1>9, <1>11, ChildQuiet DEF Ended


\* The edges of a part are compared; after the last part the plan is complete.
LEMMA PrepareEdgesStep ==
    ASSUME ReplaceInv, StageInv', NEW u \in Updates, prepare_edges(u)
    PROVE  ReplaceInv'
  <1>0. Good(u) /\ Merging(u) /\ child[u].at = "edges"
        /\ UNCHANGED <<size, graph, marks, applied, temp, proc, result, called, torn>>
    BY DEF ReplaceInv, StageInv, prepare_edges
  <1>1. PICK t, g, rest : t = child[u].todo /\ g = Head(t) /\ rest = Tail(t)
    OBVIOUS
  <1>2. /\ t \in Seq(Parts(u)) /\ t # <<>> /\ g \in Parts(u) /\ rest \in Seq(Parts(u))
        /\ \A h \in Range(t) : h = g \/ h \in Range(rest)
    BY <1>0, <1>1, TailRange DEF Merging, Comparing
  <1>3. PICK more : EdgesAdded(u, g, plan[u], graph, more)
    BY DEF EdgesAdded
  <1>4. PICK a, todo :
          /\ child' = [child EXCEPT ![u] = [at |-> a, todo |-> todo]]
          /\ \/ a = "nodes" /\ todo = rest /\ rest # <<>>
             \/ a = "direct" /\ todo = Kinds /\ Direct(u) /\ rest = <<>>
             \/ a = "get_tmp" /\ ~Direct(u) /\ rest = <<>>
    BY <1>1 DEF prepare_edges, Child
  <1>5. plan' = [plan EXCEPT ![u] = more]
    BY <1>1, <1>3 DEF prepare_edges, EdgesAdded
  <1>6. Sound(u, plan[u]) /\ graph.edges \subseteq Linked(Nodes)
    BY <1>0 DEF ReplaceInv, Merging, IsGraph
  <1>7. /\ Sound(u, more) /\ plan[u] \subseteq more
        /\ \A n \in Owned(u, g) : EdgePlanned(u, more, graph, n)
    BY <1>2, <1>3, <1>6, EdgesCompared
  <1>8. ChildStep(u, a, todo)
    BY <1>0, <1>4, <1>5 DEF ChildStep
  <1>9. child'[u].at = a /\ child'[u].todo = todo /\ plan'[u] = more /\ result[u] # "ok"
    BY <1>0, <1>4, <1>5 DEF ReplaceInv, StageInv, Shape, Good
  <1>10. u \in marks => \A h \in Parts(u) : h \notin Range(rest) => PartNodes(u, h)' /\ PartEdges(u, h)'
    <2>1. \A h : (PartNodes(u, h) => PartNodes(u, h)') /\ (PartEdges(u, h) => PartEdges(u, h)')
      BY <1>0, <1>7, <1>9, SeesSame, PartsStay
    <2>2. PartEdges(u, g)'
      BY <1>0, <1>7, <1>9, KeptShrinks DEF PartEdges
    <2>3. u \in marks => /\ PartNodes(u, g)
                         /\ \A h \in Parts(u) : h \notin Range(t) => PartNodes(u, h) /\ PartEdges(u, h)
      BY <1>0, <1>1 DEF Merging, Comparing
    <2>4. ASSUME u \in marks, NEW h \in Parts(u), h \notin Range(rest)
          PROVE  PartNodes(u, h)' /\ PartEdges(u, h)'
      <3>1. CASE h = g
        BY <2>1, <2>2, <2>3, <2>4, <3>1
      <3>2. CASE h # g
        BY <1>2, <2>1, <2>3, <2>4, <3>2
      <3> QED
        BY <3>1, <3>2
    <2> QED
      BY <2>4
  <1>11. rest = <<>> => Range(rest) = {}
    BY DEF Range
  <1>12. Merging(u)'
    <2>1. Sound(u, plan'[u])
      BY <1>7, <1>9
    <2>2. DirectInv(u)'
      BY <1>0, <1>4, <1>9 DEF Merging, DirectInv, Direct, Ended
    <2>3. Comparing(u)'
      BY <1>0, <1>2, <1>4, <1>9, <1>10 DEF Comparing
    <2>4. Compared(u)'
      BY <1>0, <1>4, <1>9, <1>10, <1>11 DEF Compared
    <2>5. Writing(u)'
      BY <1>4, <1>9 DEF Writing, KindsLeft
    <2> QED
      BY <1>4, <1>9, <2>1, <2>2, <2>3, <2>4, <2>5 DEF Merging
  <1> QED
    BY <1>0, <1>8, <1>12, ChildQuiet DEF Ended


-----------------------------------------------------------------------------
(* The steps that write *)

\* A plan that covers all parts covers everything below the clean roots.
LEMMA Covered ==
    ASSUME NEW u \in Updates, \A g \in Parts(u) : PartNodes(u, g) /\ PartEdges(u, g),
           NEW r \in RootsOf(u), Clean(r), NEW n \in Below(r)
    PROVE  NodePlanned(u, plan[u], graph, n) /\ EdgePlanned(u, plan[u], graph, n)
  <1>1. r \in Parts(u) /\ "parents" \in Parts(u) /\ r # "parents" /\ n \in Kept(u)
    BY UpdateAssumption, TreeAssumption DEF Parts, Kept, Below
  <1>2. CASE n \in ParentNodes(u)
    <2>1. n \in Owned(u, "parents")
      BY <1>1, <1>2 DEF Owned
    <2> QED
      BY <1>1, <2>1 DEF PartNodes, PartEdges
  <1>3. CASE n \notin ParentNodes(u)
    <2>1. n \in Owned(u, r)
      BY <1>1, <1>3 DEF Owned
    <2> QED
      BY <1>1, <2>1 DEF PartNodes, PartEdges
  <1> QED
    BY <1>2, <1>3

\* The kinds that a direct update has left to write
LEMMA SuffixFact ==
    ASSUME NEW t \in KindsLeft, t # <<>>, NEW kind, kind = Head(t), NEW rest, rest = Tail(t)
    PROVE  /\ kind \in Range(Kinds) /\ kind \in Range(t) /\ kind \notin Range(rest)
           /\ rest \in KindsLeft
           /\ Range(rest) \subseteq Range(t)
           /\ \A k \in Range(Kinds) : k \in Range(rest) \/ k \notin Range(t) \/ k = kind
  <1>1. CASE t = Kinds
    <2>1. rest = <<"node_update", "node_delete", "edge_insert", "edge_delete">>
      BY <1>1 DEF Kinds
    <2> QED
      BY <1>1, <2>1 DEF Kinds, Range, KindsLeft
  <1>2. CASE t = <<"node_update", "node_delete", "edge_insert", "edge_delete">>
    <2>1. rest = <<"node_delete", "edge_insert", "edge_delete">>
      BY <1>2
    <2> QED
      BY <1>2, <2>1 DEF Kinds, Range, KindsLeft
  <1>3. CASE t = <<"node_delete", "edge_insert", "edge_delete">>
    <2>1. rest = <<"edge_insert", "edge_delete">>
      BY <1>3
    <2> QED
      BY <1>3, <2>1 DEF Kinds, Range, KindsLeft
  <1>4. CASE t = <<"edge_insert", "edge_delete">>
    <2>1. rest = <<"edge_delete">>
      BY <1>4
    <2> QED
      BY <1>4, <2>1 DEF Kinds, Range, KindsLeft
  <1>5. CASE t = <<"edge_delete">>
    <2>1. rest = <<>>
      BY <1>5
    <2> QED
      BY <1>5, <2>1 DEF Kinds, Range, KindsLeft
  <1> QED
    BY <1>1, <1>2, <1>3, <1>4, <1>5 DEF KindsLeft

\* A direct update writes the operations of one kind, and with the last one the
\* incoming graph is below its clean roots.
LEMMA DirectStep ==
    ASSUME ReplaceInv, StageInv', NEW u \in Updates, update_directly(u)
    PROVE  ReplaceInv'
  <1>0. /\ Good(u) /\ Merging(u) /\ child[u].at = "direct" /\ IsGraph(graph) /\ Sound(u, plan[u])
        /\ UNCHANGED <<size, marks, temp, plan, proc, result, called>>
        /\ result[u] # "ok"
    BY DEF ReplaceInv, StageInv, update_directly, Merging, Good
  <1>1. PICK t, kind, rest : t = child[u].todo /\ kind = Head(t) /\ rest = Tail(t)
    OBVIOUS
  <1>2. t \in KindsLeft /\ t # <<>> /\ Direct(u) /\ (u \in marks \/ u \in torn)
    BY <1>0, <1>1 DEF update_directly, Merging, Writing, DirectInv
  <1>3. /\ kind \in Range(Kinds) /\ kind \in Range(t) /\ kind \notin Range(rest)
        /\ rest \in KindsLeft
        /\ \A k \in Range(Kinds) : k \in Range(rest) \/ k \notin Range(t) \/ k = kind
    BY <1>1, <1>2, SuffixFact
  <1>4. /\ graph' = Write(graph, plan[u], kind)
        /\ IF rest = <<>> THEN Replaced(u) ELSE applied' = applied
    BY <1>1 DEF update_directly
  <1>5. IsGraph(graph') /\ Toward(u, graph, graph') /\ Executed(Kept(u), u, plan[u], graph', kind)
    BY <1>0, <1>3, <1>4, WriteFact, KindsFact
  <1>6. Kept(u) \subseteq Nodes
    BY DEF Kept
  <1>7. CASE Missing(graph, plan[u], kind)
    <2>1. /\ child' = [child EXCEPT ![u] = [at |-> "unmark", todo |-> <<>>]]
          /\ torn' = torn \cup {u}
      BY <1>1, <1>7 DEF update_directly, Child, BreakOff
    <2>2. ChildStep(u, "unmark", <<>>)
      BY <1>0, <2>1 DEF ChildStep
    <2>3. child'[u] = [at |-> "unmark", todo |-> <<>>] /\ \A v \in Updates \ {u} : Stays(v)
      BY <2>2, ChildFrame DEF ReplaceInv
    <2>4. child'[u].at = "unmark"
      BY <2>3
    <2>5. Merging(u)'
      <3>1. Sound(u, plan'[u])
        BY <1>0
      <3>2. DirectInv(u)' /\ Comparing(u)' /\ Compared(u)' /\ Writing(u)'
        BY <1>0, <2>4 DEF DirectInv, Comparing, Compared, Writing
      <3> QED
        BY <2>4, <3>1, <3>2 DEF Merging
    <2>6. CallersInv'
      BY <1>0, <2>3, CallersStay
    <2>7. torn \subseteq torn' /\ torn' \subseteq Updates /\ u \in torn'
      BY <2>1 DEF ReplaceInv
    <2> QED
      BY <1>0, <1>2, <1>4, <1>5, <2>3, <2>5, <2>6, <2>7, WriteKeeps
  <1>8. CASE ~Missing(graph, plan[u], kind)
    <2>1. child' = [child EXCEPT ![u] = [at |-> "direct", todo |-> rest]] /\ torn' = torn
      BY <1>1, <1>8 DEF update_directly, Child, BreakOff
    <2>2. ChildStep(u, "direct", rest)
      BY <1>0, <2>1 DEF ChildStep
    <2>3. /\ child'[u].at = "direct" /\ child'[u].todo = rest
          /\ \A v \in Updates \ {u} : Stays(v)
      <3>1. child'[u] = [at |-> "direct", todo |-> rest] /\ \A v \in Updates \ {u} : Stays(v)
        BY <2>2, ChildFrame DEF ReplaceInv
      <3> QED
        BY <3>1
    <2>4. \A k \in Range(Kinds) : k \notin Range(rest) => Executed(Kept(u), u, plan[u], graph', k)
      <3>1. ASSUME NEW k \in Range(Kinds), k \notin Range(rest)
            PROVE  Executed(Kept(u), u, plan[u], graph', k)
        <4>1. CASE k = kind
          BY <1>5, <4>1
        <4>2. CASE k # kind
          <5>1. Executed(Kept(u), u, plan[u], graph, k)
            BY <1>0, <1>1, <1>3, <3>1, <4>2 DEF Merging, Writing
          <5> QED
            BY <1>0, <1>5, <1>6, <5>1, ExecutedOn, KindsFact
        <4> QED
          BY <4>1, <4>2
      <3> QED
        BY <3>1
    <2>5. Kept(u)' = Kept(u) /\ \A g : Owned(u, g)' = Owned(u, g)
      BY <2>1 DEF Kept, Clean, Separate, Owned
    <2>6. Merging(u)'
      <3>1. Sound(u, plan'[u])
        BY <1>0
      <3>2. DirectInv(u)'
        BY <1>0, <1>2, <2>1, <2>3 DEF Merging, DirectInv, Direct
      <3>3. Comparing(u)'
        BY <2>3 DEF Comparing
      <3>4. Compared(u)'
        <4>1. CASE u \in marks
          <5>1. \A g \in Parts(u) : PartNodes(u, g) /\ PartEdges(u, g)
            BY <1>0, <4>1 DEF Merging, Compared
          <5>2. ASSUME NEW g \in Parts(u) PROVE PartNodes(u, g)' /\ PartEdges(u, g)'
            <6>1. \A n \in Owned(u, g) : n \in Nodes
              BY OwnedIsKept
            <6>2. graph'.edges \subseteq Linked(Nodes)
              BY <1>5 DEF IsGraph
            <6>3. \A n \in Owned(u, g) : /\ NodePlanned(u, plan[u], graph', n)
                                         /\ EdgePlanned(u, plan[u], graph', n)
              BY <1>5, <5>1, <6>1, <6>2, PlannedOn DEF PartNodes, PartEdges
            <6> QED
              BY <1>0, <2>5, <6>3 DEF PartNodes, PartEdges
          <5> QED
            BY <5>2 DEF Compared
        <4>2. CASE u \notin marks
          BY <1>0, <4>2 DEF Compared
        <4> QED
          BY <4>1, <4>2
      <3>5. Writing(u)'
        BY <1>0, <1>3, <2>3, <2>4, <2>5 DEF Writing
      <3> QED
        BY <2>3, <3>1, <3>2, <3>3, <3>4, <3>5 DEF Merging
    <2>7. ASSUME rest = <<>>, NEW r \in RootsOf(u), Clean(r)
          PROVE  Content(graph', r) = Content(Whole(Payload[u]), r)
      <3>1. \A g \in Parts(u) : PartNodes(u, g) /\ PartEdges(u, g)
        BY <1>0, <1>2, <2>7 DEF Merging, Compared, Clean
      <3>2. \A n \in Below(r) : NodePlanned(u, plan[u], graph, n) /\ EdgePlanned(u, plan[u], graph, n)
        BY <2>7, <3>1, Covered
      <3>3. graph'.edges \subseteq Linked(Nodes) /\ Below(r) \subseteq Nodes /\ Below(r) \subseteq Kept(u)
        BY <1>5, <2>7 DEF IsGraph, Below, Kept
      <3>4. \A n \in Below(r) : NodePlanned(u, plan[u], graph', n) /\ EdgePlanned(u, plan[u], graph', n)
        BY <1>5, <3>2, <3>3, PlannedOn
      <3>5. Range(rest) = {}
        BY <2>7 DEF Range
      <3> QED
        BY <1>5, <2>4, <3>3, <3>4, <3>5, Finish, KindsFact
    <2>8. CallersInv'
      BY <1>0, <2>3, CallersStay
    <2>9. torn \subseteq torn' /\ torn' \subseteq Updates
      BY <2>1 DEF ReplaceInv
    <2> QED
      BY <1>0, <1>2, <1>4, <1>5, <2>3, <2>6, <2>7, <2>8, <2>9, WriteKeeps
  <1> QED
    BY <1>7, <1>8

\* The transaction of move_temp_to_proper: the plan is complete, for u has kept its
\* mark, and the collection holds all of it.
LEMMA MoveFact ==
    ASSUME ReplaceInv, NEW u \in Updates, move_temp_to_proper(u), movable(u),
           temp[u] = plan[u], child[u].at = "move" \/ result[u] = "ok"
    PROVE  /\ u \in marks /\ marks' = marks \ {u} /\ Replaced(u)
           /\ Toward(u, graph, graph') /\ IsGraph(graph')
           /\ \A r \in RootsOf(u) : Clean(r) => Content(graph', r) = Content(Whole(Payload[u]), r)
  <1>1. u \in marks /\ marks' = marks \ {u} /\ Replaced(u) /\ graph' = WriteAll(graph, plan[u])
    BY DEF move_temp_to_proper, movable
  <1>2. Sound(u, plan[u]) /\ IsGraph(graph) /\ Compared(u)
    BY DEF ReplaceInv, Merging
  <1>3. \A g \in Parts(u) : PartNodes(u, g) /\ PartEdges(u, g)
    BY <1>1, <1>2 DEF Compared
  <1>4. \A r \in RootsOf(u) : Clean(r) => \A n \in Below(r) :
          NodePlanned(u, plan[u], graph, n) /\ EdgePlanned(u, plan[u], graph, n)
    BY <1>3, Covered
  <1>5. /\ IsGraph(graph') /\ Toward(u, graph, graph')
        /\ \A r \in RootsOf(u) :
             (\A n \in Below(r) : NodePlanned(u, plan[u], graph, n) /\ EdgePlanned(u, plan[u], graph, n))
               => Content(graph', r) = Content(Whole(Payload[u]), r)
    BY <1>1, <1>2, WriteAllFact
  <1> QED
    BY <1>1, <1>4, <1>5

\* An update that is not marked any more and neither compares nor writes
LEMMA MovedMerging ==
    ASSUME NEW u \in Updates, Merging(u), plan' = plan, u \notin marks',
           child'[u].at \notin {"none", "read", "mark", "nodes", "edges", "direct", "move"}
    PROVE  Merging(u)'
  <1>1. Sound(u, plan'[u])
    BY DEF Merging
  <1>2. DirectInv(u)' /\ Comparing(u)' /\ Compared(u)' /\ Writing(u)'
    BY DEF DirectInv, Comparing, Compared, Writing
  <1> QED
    BY <1>1, <1>2 DEF Merging

\* A large update is moved from its temporary collection, all or nothing.
LEMMA MoveStep ==
    ASSUME ReplaceInv, StageInv', NEW u \in Updates, update_via_temp_collection(u)
    PROVE  ReplaceInv'
  <1>0. /\ Good(u) /\ Merging(u) /\ child[u].at = "move"
        /\ UNCHANGED <<size, temp, plan, proc, result, called, torn>>
    BY DEF ReplaceInv, StageInv, update_via_temp_collection
  <1>1. CASE movable(u)
    <2>1. child' = [child EXCEPT ![u] = [at |-> "drop", todo |-> <<>>]]
      BY <1>1 DEF update_via_temp_collection, Child
    <2>2. ChildStep(u, "drop", <<>>)
      BY <1>0, <2>1 DEF ChildStep
    <2>3. child'[u] = [at |-> "drop", todo |-> <<>>] /\ \A v \in Updates \ {u} : Stays(v)
      BY <2>2, ChildFrame DEF ReplaceInv
    <2>4. child'[u].at = "drop"
      BY <2>3
    <2>5. temp[u] = plan[u] /\ move_temp_to_proper(u)
      BY <1>0, <1>1 DEF movable, Merging, update_via_temp_collection
    <2>6. /\ u \in marks /\ marks' = marks \ {u} /\ Replaced(u)
          /\ Toward(u, graph, graph') /\ IsGraph(graph')
          /\ \A r \in RootsOf(u) : Clean(r) => Content(graph', r) = Content(Whole(Payload[u]), r)
      BY <1>0, <1>1, <2>5, MoveFact
    <2>7. Merging(u)'
      BY <1>0, <2>4, <2>6, MovedMerging
    <2>8. CallersInv'
      BY <1>0, <2>3, CallersStay
    <2>9. torn \subseteq torn' /\ torn' \subseteq Updates
      BY <1>0 DEF ReplaceInv
    <2> QED
      BY <1>0, <2>3, <2>6, <2>7, <2>8, <2>9, WriteKeeps
  <1>2. CASE ~movable(u)
    <2>1. /\ child' = [child EXCEPT ![u] = [at |-> "drop", todo |-> <<"failed">>]]
          /\ UNCHANGED <<graph, marks, applied>>
      BY <1>2 DEF update_via_temp_collection, move_temp_to_proper, Child
    <2>2. ChildStep(u, "drop", <<"failed">>)
      BY <1>0, <2>1 DEF ChildStep
    <2>3. <<"failed">> # <<>>
      OBVIOUS
    <2>4. Merging(u)'
      BY <1>0, <2>1, <2>2, <2>3, ChildMerging DEF Ended
    <2> QED
      BY <1>0, <2>1, <2>2, <2>4, ChildQuiet DEF Ended
  <1> QED
    BY <1>1, <1>2


-----------------------------------------------------------------------------
(* Rest, Cleaner and the requests *)

\* A step of Rest or Cleaner moves nobody else.
LEMMA CallerFrame ==
    ASSUME StageInv, NEW p \in {Rest, Cleaner}, NEW a, NEW x,
           proc' = [proc EXCEPT ![p] = [at |-> a, update |-> x]]
    PROVE  /\ proc'[p].at = a /\ proc'[p].update = x
           /\ \A q \in {Rest, Cleaner} : q # p => proc'[q] = proc[q]
           /\ \A v \in Updates : proc'[v] = proc[v]
  <1>1. p \in Procs /\ p \notin Updates /\ Updates \subseteq Procs /\ {Rest, Cleaner} \subseteq Procs
    BY UpdateAssumption DEF Procs
  <1>2. proc'[p] = [at |-> a, update |-> x] /\ \A q \in Procs : q # p => proc'[q] = proc[q]
    BY <1>1 DEF StageInv, Shape
  <1>3. proc'[p].at = a /\ proc'[p].update = x
    BY <1>2
  <1> QED
    BY <1>1, <1>2, <1>3

\* Rest or Cleaner goes to an update, and Rest commits only what was accepted.
LEMMA CallersGo ==
    ASSUME ReplaceInv, NEW p \in {Rest, Cleaner}, NEW a, NEW x,
           proc' = [proc EXCEPT ![p] = [at |-> a, update |-> x]], UNCHANGED <<child, result>>,
           a # "idle" => x \in Updates, a = "commit" => x \in Batches /\ result[x] = "ok"
    PROVE  CallersInv'
  <1>1. /\ proc'[p].at = a /\ proc'[p].update = x
        /\ \A q \in {Rest, Cleaner} : q # p => proc'[q] = proc[q]
    BY CallerFrame DEF ReplaceInv
  <1>2. ASSUME NEW q \in {Rest, Cleaner}
        PROVE  /\ proc'[q].at # "idle" => proc'[q].update \in Updates
               /\ q = Rest /\ proc'[q].at = "commit" =>
                    proc'[q].update \in Batches /\ result'[proc'[q].update] = "ok"
    <2>1. CASE q = p
      BY <1>1, <2>1
    <2>2. CASE q # p
      <3>1. proc'[q] = proc[q]
        BY <1>1, <2>2
      <3> QED
        BY <3>1 DEF ReplaceInv, CallersInv
    <2> QED
      BY <2>1, <2>2
  <1> QED
    BY <1>2 DEF CallersInv

\* Where all updates stay the invariant does.
LEMMA AllStay ==
    ASSUME ReplaceInv, StageInv', UNCHANGED <<size, graph, applied>>, marks' \subseteq marks,
           torn \subseteq torn', torn' \subseteq Updates,
           \A v \in Updates : Stays(v) /\ KeepsMark(v), CallersInv'
    PROVE  ReplaceInv'
  <1>1. IsGraph(graph') /\ MarksInv'
    BY DEF ReplaceInv, MarksInv
  <1>2. \A v \in Updates : Merging(v)'
    <2>1. \A v \in Updates : Sees(v)
      BY SeesSame
    <2> QED
      BY <2>1, MergingSame DEF ReplaceInv
  <1>3. AppliedInv'
    <2>1. \A v \in Updates : child'[v] = child[v]
      BY DEF Stays
    <2>2. \A r : Clean(r)' => Clean(r)
      BY DEF Clean, Separate
    <2> QED
      BY <2>1, <2>2 DEF ReplaceInv, AppliedInv
  <1> QED
    BY <1>1, <1>2, <1>3 DEF ReplaceInv

\* A step of Rest or Cleaner that does not write the graph
LEMMA CallerQuiet ==
    ASSUME ReplaceInv, StageInv', NEW p \in {Rest, Cleaner}, NEW a, NEW x \in Updates,
           proc' = [proc EXCEPT ![p] = [at |-> a, update |-> x]],
           UNCHANGED <<size, graph, applied, child, plan, result>>,
           \A v \in Updates : v \in DOMAIN temp' => v \in DOMAIN temp /\ temp'[v] = temp[v],
           marks' \subseteq marks, marks \subseteq marks' \cup {x}, KeepsMark(x),
           torn \subseteq torn', torn' \subseteq torn \cup {x},
           a = "commit" => x \in Batches /\ result[x] = "ok"
    PROVE  ReplaceInv'
  <1>1. CallersInv'
    BY CallersGo
  <1>2. \A v \in Updates : Stays(v)
    BY CallerFrame DEF ReplaceInv, Stays
  <1>3. ASSUME NEW v \in Updates PROVE KeepsMark(v)
    <2>1. CASE v = x
      BY <2>1
    <2>2. CASE v # x
      BY <2>2 DEF ReplaceInv, Merging, DirectInv, KeepsMark
    <2> QED
      BY <2>1, <2>2
  <1>4. torn' \subseteq Updates
    BY DEF ReplaceInv
  <1> QED
    BY <1>1, <1>2, <1>3, <1>4, AllStay

\* A mark that stays
LEMMA MarkStays ==
    ASSUME ReplaceInv, NEW v \in Updates, v \in marks => v \in marks', torn \subseteq torn'
    PROVE  KeepsMark(v)
  BY DEF ReplaceInv, Merging, DirectInv, KeepsMark

\* Rest and Cleaner abort an update.
LEMMA CallerAborts ==
    ASSUME ReplaceInv, StageInv', NEW p \in {Rest, Cleaner}, aborting(p) \/ call_error(p)
    PROVE  ReplaceInv'
  <1>0. p \in Procs /\ p \notin Updates /\ UNCHANGED <<size, graph, applied, child, plan>>
    BY UpdateAssumption DEF Procs, aborting, call_error, abort_update, abort_drop, abort_unmark
  <1>1. PICK x : x = proc[p].update
    OBVIOUS
  <1>2. x \in Updates
    <2>1. proc[p].at # "idle"
      BY DEF aborting, call_error, abort_update, abort_drop, abort_unmark
    <2> QED
      BY <1>1, <2>1 DEF ReplaceInv, CallersInv
  <1>3. CASE abort_update(p)
    <2>1. PICK a : a \in {"drop", "unmark"} /\ Proc(p, a)
      BY <1>3 DEF abort_update
    <2>2. proc' = [proc EXCEPT ![p] = [at |-> a, update |-> x]]
      BY <1>0, <1>1, <2>1, ProcFact DEF ReplaceInv
    <2>3. UNCHANGED <<marks, temp, result, torn>>
      BY <1>3 DEF abort_update
    <2> QED
      BY <1>0, <1>2, <2>1, <2>2, <2>3, MarkStays, CallerQuiet
  <1>4. CASE abort_drop(p)
    <2>1. PICK a : a \in {"idle", "unmark"} /\ Proc(p, a)
      BY <1>0, <1>4 DEF abort_drop, raises
    <2>2. proc' = [proc EXCEPT ![p] = [at |-> a, update |-> x]]
      BY <1>0, <1>1, <2>1, ProcFact DEF ReplaceInv
    <2>3. UNCHANGED <<marks, result, torn>> /\ temp' = [v \in DOMAIN temp \ {x} |-> temp[v]]
      BY <1>0, <1>1, <1>4 DEF abort_drop, raises
    <2> QED
      BY <1>0, <1>2, <2>1, <2>2, <2>3, MarkStays, CallerQuiet
  <1>5. CASE abort_unmark(p)
    <2>1. Proc(p, "idle")
      BY <1>0, <1>5 DEF abort_unmark, resume
    <2>2. proc' = [proc EXCEPT ![p] = [at |-> "idle", update |-> x]]
      BY <1>0, <1>1, <2>1, ProcFact DEF ReplaceInv
    <2>3. UNCHANGED <<temp, result>> /\ marks' = marks \ {x}
      BY <1>1, <1>5 DEF abort_unmark
    <2>4. torn \subseteq torn' /\ torn' \subseteq torn \cup {x} /\ KeepsMark(x)
      BY <1>1, <1>5 DEF abort_unmark, BreakOff, KeepsMark
    <2> QED
      BY <1>0, <1>2, <2>2, <2>3, <2>4, CallerQuiet
  <1>6. CASE call_error(p)
    <2>1. Proc(p, "idle")
      BY <1>0, <1>6 DEF call_error, raises
    <2>2. proc' = [proc EXCEPT ![p] = [at |-> "idle", update |-> x]]
      BY <1>0, <1>1, <2>1, ProcFact DEF ReplaceInv
    <2>3. UNCHANGED <<temp, result, marks, torn>>
      BY <1>0, <1>6 DEF call_error, raises
    <2> QED
      BY <1>0, <1>2, <2>2, <2>3, MarkStays, CallerQuiet
  <1> QED
    BY <1>3, <1>4, <1>5, <1>6 DEF aborting

\* Commits and aborts of batches are called, and the check for outdated updates.
LEMMA CallStep ==
    ASSUME ReplaceInv, StageInv', NEW u \in Updates,
           \/ commit_batch_update(u) \/ abort_batch(u) \/ check_outdated_updates(u) \/ Outdated(u)
    PROVE  ReplaceInv'
  <1>0. UNCHANGED <<size, graph, applied, child, plan, result, temp, marks, torn>>
    BY DEF commit_batch_update, abort_batch, check_outdated_updates, Outdated
  <1>1. CASE commit_batch_update(u)
    <2>1. /\ proc' = [proc EXCEPT ![Rest] = [at |-> "commit", update |-> u]]
          /\ u \in Batches /\ result[u] = "ok"
      BY <1>1 DEF commit_batch_update
    <2> QED
      BY <1>0, <2>1, MarkStays, CallerQuiet
  <1>2. CASE abort_batch(u)
    <2>1. proc' = [proc EXCEPT ![Rest] = [at |-> "look", update |-> u]]
      BY <1>2 DEF abort_batch
    <2> QED
      BY <1>0, <2>1, MarkStays, CallerQuiet
  <1>3. CASE check_outdated_updates(u)
    <2>1. proc' = [proc EXCEPT ![Cleaner] = [at |-> "look", update |-> u]]
      BY <1>3 DEF check_outdated_updates
    <2> QED
      BY <1>0, <2>1, MarkStays, CallerQuiet
  <1>4. CASE Outdated(u)
    <2>1. proc' = proc /\ torn' \subseteq Updates
      BY <1>0, <1>4 DEF Outdated, ReplaceInv
    <2>2. \A v \in Updates : Stays(v) /\ KeepsMark(v)
      BY <1>0, MarkStays DEF Stays
    <2>3. CallersInv'
      BY <1>0, <2>1 DEF ReplaceInv, CallersInv
    <2> QED
      BY <1>0, <2>1, <2>2, <2>3, AllStay
  <1> QED
    BY <1>1, <1>2, <1>3, <1>4

\* A batch is committed, all or nothing; then its collection is deleted.
LEMMA CommitStep ==
    ASSUME ReplaceInv, StageInv', commit_move \/ commit_drop
    PROVE  ReplaceInv'
  <1>0. Rest \in Procs /\ Rest \in {Rest, Cleaner} /\ UNCHANGED <<size, child, plan, result, torn>>
    BY DEF Procs, commit_move, commit_drop
  <1>1. PICK x : x = proc[Rest].update
    OBVIOUS
  <1>2. x \in Updates
    <2>1. proc[Rest].at # "idle"
      BY DEF commit_move, commit_drop
    <2> QED
      BY <1>1, <2>1 DEF ReplaceInv, CallersInv
  <1>3. CASE commit_drop
    <2>1. Proc(Rest, "idle") /\ UNCHANGED <<graph, marks, applied>>
          /\ temp' = [v \in DOMAIN temp \ {x} |-> temp[v]]
      BY <1>1, <1>3 DEF commit_drop
    <2>2. proc' = [proc EXCEPT ![Rest] = [at |-> "idle", update |-> x]]
      BY <1>0, <1>1, <2>1, ProcFact DEF ReplaceInv
    <2> QED
      BY <1>0, <1>2, <2>1, <2>2, MarkStays, CallerQuiet
  <1>4. CASE commit_move /\ ~movable(x)
    <2>1. Proc(Rest, "idle") /\ UNCHANGED <<graph, marks, applied, temp>>
      BY <1>1, <1>4 DEF commit_move, move_temp_to_proper
    <2>2. proc' = [proc EXCEPT ![Rest] = [at |-> "idle", update |-> x]]
      BY <1>0, <1>1, <2>1, ProcFact DEF ReplaceInv
    <2> QED
      BY <1>0, <1>2, <2>1, <2>2, MarkStays, CallerQuiet
  <1>5. CASE commit_move /\ movable(x)
    <2>1. Proc(Rest, "committed") /\ move_temp_to_proper(x) /\ temp' = temp /\ proc[Rest].at = "commit"
      BY <1>1, <1>5 DEF commit_move
    <2>2. proc' = [proc EXCEPT ![Rest] = [at |-> "committed", update |-> x]]
      BY <1>0, <1>1, <2>1, ProcFact DEF ReplaceInv
    <2>3. x \in Batches /\ result[x] = "ok"
      BY <1>1, <2>1 DEF ReplaceInv, CallersInv
    <2>4. Good(x) /\ Merging(x)
      BY <1>2 DEF ReplaceInv, StageInv
    <2>5. temp[x] = plan[x]
      BY <1>5, <2>3, <2>4 DEF Good, Intact, movable
    <2>6. /\ x \in marks /\ marks' = marks \ {x} /\ Replaced(x)
          /\ Toward(x, graph, graph') /\ IsGraph(graph')
          /\ \A r \in RootsOf(x) : Clean(r) => Content(graph', r) = Content(Whole(Payload[x]), r)
      BY <1>2, <1>5, <2>1, <2>3, <2>5, MoveFact
    <2>7. Merging(x)'
      <3>1. child'[x].at \in {"ok", "dead"}
        BY <1>0, <2>3, <2>4 DEF Good
      <3> QED
        BY <1>0, <1>2, <2>4, <2>6, <3>1, MovedMerging
    <2>8. CallersInv'
      BY <1>0, <1>2, <2>2, CallersGo
    <2>9. (\A v \in Updates \ {x} : Stays(v)) /\ torn \subseteq torn' /\ torn' \subseteq Updates
      BY <1>0, <2>1 DEF Stays, ReplaceInv
    <2> QED
      BY <1>0, <1>2, <2>6, <2>7, <2>8, <2>9, WriteKeeps
  <1> QED
    BY <1>3, <1>4, <1>5

\* A step of the request of u moves nobody else.
LEMMA RequestFrame ==
    ASSUME StageInv, NEW u \in Updates, NEW a, RequestStep(u, a)
    PROVE  /\ proc'[u].at = a /\ proc'[Rest] = proc[Rest] /\ proc'[Cleaner] = proc[Cleaner]
           /\ \A v \in Updates \ {u} : Stays(v)
  <1>1. u \in Procs /\ u # Rest /\ u # Cleaner /\ Updates \subseteq Procs /\ {Rest, Cleaner} \subseteq Procs
    BY UpdateAssumption DEF Procs
  <1>2. proc'[u] = [at |-> a, update |-> u] /\ \A q \in Procs : q # u => proc'[q] = proc[q]
    BY <1>1 DEF StageInv, Shape, RequestStep
  <1>3. proc'[u].at = a
    BY <1>2
  <1>4. ASSUME NEW v \in Updates \ {u} PROVE Stays(v)
    <2>1. child'[v] = child[v] /\ result'[v] = result[v] /\ plan'[v] = plan[v]
      BY DEF StageInv, Shape, RequestStep
    <2>2. v \in DOMAIN temp' => v \in DOMAIN temp /\ temp'[v] = temp[v]
      BY DEF RequestStep
    <2> QED
      BY <1>1, <1>2, <2>1, <2>2 DEF Stays
  <1> QED
    BY <1>1, <1>2, <1>3, <1>4

\* A step of the request that leaves the child alone
LEMMA RequestQuiet ==
    ASSUME ReplaceInv, StageInv', NEW u \in Updates, NEW a, RequestStep(u, a),
           UNCHANGED <<size, graph, applied, child>>, marks' \subseteq marks, marks \subseteq marks' \cup {u},
           u \in DOMAIN temp' => u \in DOMAIN temp /\ temp'[u] = temp[u],
           torn \subseteq torn', torn' \subseteq torn \cup {u}, KeepsMark(u),
           result'[u] = "ok" => result[u] = "ok" \/ child[u].at = "ok",
           result[u] = "ok" => result'[u] = "ok"
    PROVE  ReplaceInv'
  <1>0. Merging(u) /\ plan' = plan /\ torn' \subseteq Updates
    BY DEF ReplaceInv, RequestStep
  <1>1. /\ proc'[u].at = a /\ proc'[Rest] = proc[Rest] /\ proc'[Cleaner] = proc[Cleaner]
        /\ \A v \in Updates \ {u} : Stays(v)
    BY RequestFrame DEF ReplaceInv
  <1>2. \A v \in Updates \ {u} : KeepsMark(v)
    BY DEF ReplaceInv, Merging, DirectInv, KeepsMark
  <1>3. CallersInv'
    BY <1>1, CallersStay
  <1>4. Merging(u)'
    <2>1. Sound(u, plan'[u])
      BY <1>0 DEF Merging
    <2>2. DirectInv(u)'
      BY <1>0 DEF Merging, DirectInv, Direct, KeepsMark
    <2>3. \A g : (PartNodes(u, g) => PartNodes(u, g)') /\ (PartEdges(u, g) => PartEdges(u, g)')
      BY <1>0, SeesSame, PartsStay
    <2>4. Comparing(u)'
      BY <1>0, <2>3 DEF Merging, Comparing
    <2>5. Compared(u)'
      BY <1>0, <2>3 DEF Merging, Compared
    <2>6. Writing(u)'
      <3>1. Kept(u)' \subseteq Kept(u)
        BY KeptShrinks
      <3>2. \A kind \in Range(Kinds) :
              Executed(Kept(u), u, plan[u], graph, kind) => Executed(Kept(u)', u, plan[u], graph, kind)
        BY <3>1, ExecutedSame
      <3> QED
        BY <1>0, <3>2 DEF Merging, Writing
    <2> QED
      BY <1>0, <2>1, <2>2, <2>4, <2>5, <2>6 DEF Merging
  <1> QED
    BY <1>0, <1>1, <1>2, <1>3, <1>4, QuietKeeps

\* The steps of merge_graph_process.  A direct update is broken off when its child is
\* killed before everything is written.
LEMMA ProcessSteps ==
    ASSUME ReplaceInv, StageInv', NEW u \in Updates,
           \/ merge_graph_process(u) \/ read_results(u) \/ interrupt(u) \/ kill(u)
    PROVE  ReplaceInv'
  <1>0. /\ Good(u) /\ Merging(u) /\ u \in Procs /\ proc[u].update = u
        /\ DOMAIN child = Updates /\ DOMAIN result = Updates
    BY DEF ReplaceInv, StageInv, Shape, Procs, Good
  <1>1. UNCHANGED <<size, graph, applied, plan, temp, marks, called>>
    BY DEF merge_graph_process, read_results, interrupt, kill
  <1>2. CASE merge_graph_process(u)
    <2>0. torn' = torn /\ torn' \subseteq Updates
      BY <1>2 DEF merge_graph_process, ReplaceInv
    <2>1. /\ proc' = [proc EXCEPT ![u] = [at |-> "waiting", update |-> u]]
          /\ child' = [child EXCEPT ![u] = [at |-> "read", todo |-> <<>>]]
          /\ result' = result /\ proc[u].at = "idle"
      BY <1>0, <1>2, ProcFact DEF ReplaceInv, merge_graph_process, Child
    <2>2. RequestStep(u, "waiting")
      BY <1>1, <2>1 DEF RequestStep
    <2>3. /\ proc'[u].at = "waiting" /\ proc'[Rest] = proc[Rest] /\ proc'[Cleaner] = proc[Cleaner]
          /\ \A v \in Updates \ {u} : Stays(v)
      BY <2>2, RequestFrame DEF ReplaceInv
    <2>4. child[u].at = "none" /\ child'[u].at = "read" /\ result[u] # "ok" /\ plan[u] = {}
      BY <1>0, <2>1 DEF Good, Merging
    <2>5. \A v \in Updates \ {u} : KeepsMark(v)
      BY <1>1, <2>0, MarkStays
    <2>6. CallersInv'
      BY <2>1, <2>3, CallersStay
    <2>7. Merging(u)'
      <3>1. Sound(u, plan'[u])
        BY <1>0, <1>1 DEF Merging
      <3>2. DirectInv(u)' /\ Comparing(u)' /\ Compared(u)' /\ Writing(u)'
        BY <2>1, <2>4 DEF DirectInv, Comparing, Compared, Writing
      <3> QED
        BY <1>1, <2>4, <3>1, <3>2 DEF Merging
    <2> QED
      BY <1>1, <2>0, <2>3, <2>4, <2>5, <2>6, <2>7, QuietKeeps
  <1>3. CASE read_results(u)
    <2>1. PICK a :
            /\ Proc(u, a) /\ child' = child /\ torn' = torn
            /\ \/ result' = [result EXCEPT ![u] = "ok"] /\ child[u].at = "ok"
               \/ result' = result /\ child[u].at \in {"error", "dead"}
      BY <1>3 DEF read_results
    <2>2. proc' = [proc EXCEPT ![u] = [at |-> a, update |-> u]]
      BY <1>0, <2>1, ProcFact DEF ReplaceInv
    <2>3. RequestStep(u, a)
      BY <1>1, <2>1, <2>2 DEF RequestStep
    <2>4. (result'[u] = "ok" => result[u] = "ok" \/ child[u].at = "ok")
          /\ (result[u] = "ok" => result'[u] = "ok")
      BY <1>0, <2>1
    <2> QED
      BY <1>1, <2>1, <2>3, <2>4, MarkStays, RequestQuiet
  <1>4. CASE interrupt(u)
    <2>1. Proc(u, "look") /\ child' = child /\ result' = result /\ torn' = torn
      BY <1>4 DEF interrupt
    <2>2. proc' = [proc EXCEPT ![u] = [at |-> "look", update |-> u]]
      BY <1>0, <2>1, ProcFact DEF ReplaceInv
    <2>3. RequestStep(u, "look")
      BY <1>1, <2>1, <2>2 DEF RequestStep
    <2> QED
      BY <1>1, <2>1, <2>3, MarkStays, RequestQuiet
  <1>5. CASE kill(u)
    <2>1. /\ Proc(u, "done") /\ proc[u].at = "kill"
          /\ child' = [child EXCEPT ![u] = [at |-> "dead", todo |-> <<>>]]
          /\ result' = [result EXCEPT ![u] = IF result[u] = "ok" THEN "ok" ELSE "error"]
      BY <1>5 DEF kill, Child
    <2>2. proc' = [proc EXCEPT ![u] = [at |-> "done", update |-> u]]
      BY <1>0, <2>1, ProcFact DEF ReplaceInv
    <2>3. RequestStep(u, "done")
      BY <1>1, <2>1, <2>2 DEF RequestStep
    <2>4. /\ proc'[u].at = "done" /\ proc'[Rest] = proc[Rest] /\ proc'[Cleaner] = proc[Cleaner]
          /\ \A v \in Updates \ {u} : Stays(v)
      BY <2>3, RequestFrame DEF ReplaceInv
    <2>5. child'[u].at = "dead" /\ (result[u] = "ok" <=> result'[u] = "ok")
      BY <1>0, <2>1
    <2>6. /\ torn \subseteq torn' /\ torn' \subseteq Updates
          /\ child[u].at = "direct" => child[u].todo = <<>> \/ u \in torn'
      BY <1>5 DEF kill, BreakOff, half_written, ReplaceInv
    <2>7. \A v \in Updates \ {u} : KeepsMark(v)
      BY <1>1, <2>6, MarkStays
    <2>8. CallersInv'
      BY <2>4, <2>5, CallersStay
    <2>9. Merging(u)'
      <3>1. Sound(u, plan'[u])
        BY <1>0, <1>1 DEF Merging
      <3>2. DirectInv(u)' /\ Comparing(u)' /\ Writing(u)'
        BY <2>5 DEF DirectInv, Comparing, Writing
      <3>3. \A g : (PartNodes(u, g) => PartNodes(u, g)') /\ (PartEdges(u, g) => PartEdges(u, g)')
        BY <1>1, <2>6, SeesSame, PartsStay
      <3>4. Compared(u)'
        BY <1>0, <1>1, <2>5, <3>3 DEF Merging, Compared
      <3> QED
        BY <2>5, <3>1, <3>2, <3>4 DEF Merging
    <2> QED
      BY <1>1, <2>4, <2>6, <2>7, <2>8, <2>9, QuietKeeps
  <1> QED
    BY <1>2, <1>3, <1>4, <1>5

\* A request aborts its update.
LEMMA RequestAborts ==
    ASSUME ReplaceInv, StageInv', NEW u \in Updates, aborting(u) \/ call_error(u)
    PROVE  ReplaceInv'
  <1>0. Good(u) /\ Merging(u) /\ u \in Procs /\ proc[u].update = u /\ DOMAIN result = Updates
    BY DEF ReplaceInv, StageInv, Shape, Procs, Good
  <1>1. UNCHANGED <<size, graph, applied, child, plan, called>>
    BY DEF aborting, call_error, abort_update, abort_drop, abort_unmark
  <1>2. proc[u].at \in {"look", "drop", "unmark", "commit", "committed"} /\ result[u] # "ok"
    BY <1>0 DEF aborting, call_error, abort_update, abort_drop, abort_unmark, Good
  <1>3. torn \subseteq torn' /\ torn' \subseteq torn \cup {u} /\ KeepsMark(u)
    <2>1. CASE abort_unmark(u)
      BY <1>0, <2>1 DEF abort_unmark, BreakOff, KeepsMark
    <2>2. CASE ~abort_unmark(u)
      <3>1. torn' = torn /\ marks' = marks
        BY <2>2 DEF aborting, call_error, abort_update, abort_drop
      <3> QED
        BY <3>1, MarkStays
    <2> QED
      BY <2>1, <2>2
  <1>4. PICK a : Proc(u, a)
    BY DEF aborting, call_error, abort_update, abort_drop, abort_unmark, raises
  <1>5. proc' = [proc EXCEPT ![u] = [at |-> a, update |-> u]]
    BY <1>0, <1>4, ProcFact DEF ReplaceInv
  <1>6. result' = result \/ result' = [result EXCEPT ![u] = "error"]
    BY DEF aborting, call_error, abort_update, abort_drop, abort_unmark, raises
  <1>7. temp' = temp \/ temp' = [v \in DOMAIN temp \ {u} |-> temp[v]]
    BY <1>0 DEF aborting, call_error, abort_update, abort_drop, abort_unmark
  <1>8. marks' = marks \/ marks' = marks \ {u}
    BY <1>0 DEF aborting, call_error, abort_update, abort_drop, abort_unmark
  <1>9. RequestStep(u, a)
    BY <1>1, <1>5, <1>6, <1>7 DEF RequestStep
  <1>10. result'[u] # "ok"
    BY <1>0, <1>2, <1>6
  <1>11. u \in DOMAIN temp' => u \in DOMAIN temp /\ temp'[u] = temp[u]
    BY <1>7
  <1> QED
    BY <1>1, <1>2, <1>3, <1>8, <1>9, <1>10, <1>11, RequestQuiet

-----------------------------------------------------------------------------
(* Theorems *)

\* At first nothing is under way, and every root has what is stored below it.
LEMMA InitReplaced == Init => ReplaceInv
  <1> SUFFICES ASSUME Init PROVE ReplaceInv
    OBVIOUS
  <1>1. \A u \in Updates : child[u].at = "none" /\ plan[u] = {} /\ result[u] = "none"
                             /\ proc[u].at = "idle"
    BY DEF Init, Procs
  <1>2. StageInv /\ torn \subseteq Updates
    BY InitStaged DEF Init
  <1>3. IsGraph(graph)
    BY TreeAssumption DEF Init, IsGraph, Whole, Linked, IsTable
  <1>4. MarksInv /\ CallersInv
    BY DEF Init, MarksInv, CallersInv, Procs
  <1>5. AppliedInv
    BY DEF Init, AppliedInv
  <1>6. ASSUME NEW u \in Updates PROVE Merging(u)
    BY <1>1 DEF Merging, Sound, DirectInv, Comparing, Compared, Writing
  <1> QED
    BY <1>2, <1>3, <1>4, <1>5, <1>6 DEF ReplaceInv

\* Every step keeps the invariant.
LEMMA ReplaceStep ==
    ASSUME ReplaceInv, [Next]_vars
    PROVE  ReplaceInv'
  <1>1. StageInv'
    BY StageStep DEF ReplaceInv
  <1>2. CASE UNCHANGED vars
    <2>1. UNCHANGED <<size, graph, applied, marks, child, plan, proc, result, temp, torn>>
      BY <1>2 DEF vars
    <2>2. \A v \in Updates : Stays(v) /\ KeepsMark(v)
      BY <2>1, MarkStays DEF Stays
    <2>3. CallersInv'
      BY <2>1 DEF ReplaceInv, CallersInv
    <2>4. torn' \subseteq Updates
      BY <2>1 DEF ReplaceInv
    <2> QED
      BY <1>1, <2>1, <2>2, <2>3, <2>4, AllStay
  <1>3. ASSUME NEW u \in Updates, merge_graph(u) \/ send_to_child(u) PROVE ReplaceInv'
    BY <1>1, <1>3, MarkStep, PrepareNodesStep, PrepareEdgesStep, DirectStep, MoveStep, PlainSteps
       DEF merge_graph
  <1>4. ASSUME NEW u \in Updates, request(u) \/ interrupt(u) PROVE ReplaceInv'
    BY <1>1, <1>3, <1>4, ProcessSteps DEF request
  <1>5. ASSUME NEW u \in Updates, db_error(u) \/ die(u) PROVE ReplaceInv'
    BY <1>1, <1>5, FaultSteps
  <1>6. ASSUME NEW u \in Updates,
               \/ commit_batch_update(u) \/ abort_batch(u) \/ check_outdated_updates(u) \/ Outdated(u)
        PROVE  ReplaceInv'
    BY <1>1, <1>6, CallStep
  <1>7. ASSUME NEW p \in Procs, aborting(p) \/ call_error(p) PROVE ReplaceInv'
    BY <1>1, <1>7, CallerAborts, RequestAborts DEF Procs
  <1>8. CASE commit_move \/ commit_drop
    BY <1>1, <1>8, CommitStep
  <1> QED
    BY <1>2, <1>3, <1>4, <1>5, <1>6, <1>7, <1>8 DEF Next

\* ReplaceInv is an invariant, for any tree, any updates and batches, and any number
\* of faults and calls.
THEOREM ReplaceInvariant == Spec => []ReplaceInv
  <1>1. ReplaceInv /\ [Next]_vars => ReplaceInv'
    BY ReplaceStep, Zenon
  <1> QED
    BY <1>1, InitReplaced, PTL DEF Spec

\* Hence a root is replaced as a whole or not at all, unless a direct update of it was
\* broken off or other updates replace something above or below it; an update that is
\* broken off at other roots does not matter.
THEOREM RootsAreReplacedAsWhole == Spec => []ReplacedAsWhole
  <1>1. ReplaceInv => ReplacedAsWhole
    BY DEF ReplaceInv, AppliedInv, Clean, ReplacedAsWhole
  <1> QED
    BY <1>1, ReplaceInvariant, PTL

=============================================================================
