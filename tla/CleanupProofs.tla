--------------------------- MODULE CleanupProofs ---------------------------
(***************************************************************************)
(* What the core may believe of cleaned and of protected resources, for    *)
(* any landscapes, any number of workers and any number of faults.         *)
(***************************************************************************)
EXTENDS FiniteSetTheorems, Cleanup, TLAPS

-----------------------------------------------------------------------------
(* The inductive invariant *)

\* The records keep their fields, and a worker works on nodes of the graph.
Shape ==
    /\ core = [clean |-> core.clean, protected |-> core.protected, cleaned |-> core.cleaned]
    /\ status \in [Nodes -> {"there", "deleting", "gone"}]
    /\ DOMAIN wk = Workers
    /\ \A w \in Workers :
         wk[w] = [on |-> wk[w].on, plan |-> wk[w].plan, kept |-> wk[w].kept, pre |-> wk[w].pre,
                  todo |-> wk[w].todo, tried |-> wk[w].tried, cleaned |-> wk[w].cleaned]

\* Nothing is left of a terminated instance, and what a run takes for deleted is not there.
GoneInv ==
    /\ \A n \in Nodes : Terminated(n) => status[n] = "gone"
    /\ \A n \in core.cleaned : n \in Nodes /\ status[n] # "there"
    /\ \A w \in Workers : \A n \in wk[w].cleaned : n \in Nodes /\ status[n] # "there"

CleanInv == Shape /\ GoneInv

-----------------------------------------------------------------------------
(* The steps *)

\* What the cloud keeps in every step: nothing that was deleted comes back.
Onwards == /\ conf' = conf
           /\ status' \in [Nodes -> {"there", "deleting", "gone"}]
           /\ \A n \in Nodes : /\ status[n] # "there" => status'[n] # "there"
                               /\ status[n] = "gone" => status'[n] = "gone"

\* The parts of the invariant a step has to keep by itself; nothing comes back
\* into being.
LEMMA Keeps ==
    ASSUME CleanInv, Onwards,
           core' = [clean |-> core'.clean, protected |-> core'.protected, cleaned |-> core'.cleaned],
           \A n \in core'.cleaned : n \in Nodes /\ status'[n] # "there",
           DOMAIN wk' = Workers,
           \A w \in Workers :
             wk'[w] = [on |-> wk'[w].on, plan |-> wk'[w].plan, kept |-> wk'[w].kept, pre |-> wk'[w].pre,
                       todo |-> wk'[w].todo, tried |-> wk'[w].tried, cleaned |-> wk'[w].cleaned],
           \A w \in Workers : \A n \in wk'[w].cleaned : n \in Nodes /\ status'[n] # "there"
    PROVE  CleanInv'
  <1>1. Nodes' = Nodes
    BY DEF Onwards, Nodes
  <1>2. \A n \in Nodes : Terminated(n)' <=> Terminated(n)
    BY DEF Terminated, Onwards
  <1> QED
    BY <1>1, <1>2 DEF CleanInv, Shape, GoneInv, Onwards

\* Collects, users, plugins and the workflow: only flags change, and nothing more is
\* taken for cleaned.
Marks == /\ conf' = conf /\ status' = status /\ attached' = attached /\ wk' = wk
         /\ core' = [clean |-> core'.clean, protected |-> core'.protected, cleaned |-> core'.cleaned]
         /\ core'.cleaned \subseteq core.cleaned

\* The steps of a worker, and of the cloud.
Works == \/ \E w \in Workers : cleanup(w) \/ patch_cleaned(w) \/ crash(w)
         \/ \E w \in Workers : \E n \in Nodes : pre_clean(w, n) \/ clean(w, n)
         \/ \E n \in Nodes : Gone(n)

\* Every step changes the marks in the core or the work of one worker.
LEMMA StepKind ==
    ASSUME CleanInv, [Next]_vars
    PROVE  Marks \/ Works
  <1>0. core = [clean |-> core.clean, protected |-> core.protected, cleaned |-> core.cleaned]
    BY DEF CleanInv, Shape
  <1>1. ASSUME UNCHANGED <<conf, core, status, attached, wk>> PROVE Marks
    BY <1>0, <1>1 DEF Marks
  <1>2. CASE next_step \/ UNCHANGED vars
    BY <1>1, <1>2 DEF next_step, vars
  <1>3. ASSUME UNCHANGED <<conf, status, attached, wk>>, NEW S, core' = [core EXCEPT !.clean = S]
        PROVE  Marks
    <2>1. core' = [clean |-> S, protected |-> core.protected, cleaned |-> core.cleaned]
      BY <1>0, <1>3
    <2> QED
      BY <1>3, <2>1 DEF Marks
  <1>4. ASSUME UNCHANGED <<conf, status, attached, wk>>, NEW S,
               core' = [core EXCEPT !.protected = core.protected \cup S]
        PROVE  Marks
    <2>1. core' = [clean |-> core.clean, protected |-> core.protected \cup S, cleaned |-> core.cleaned]
      BY <1>0, <1>4
    <2> QED
      BY <1>4, <2>1 DEF Marks
  <1>5. ASSUME NEW n \in Nodes, clean_command(n) PROVE Marks
    BY <1>3, <1>5 DEF clean_command
  <1>6. ASSUME NEW n \in Nodes, protect_command(n) PROVE Marks
    BY <1>4, <1>6 DEF protect_command
  <1>7. CASE ByCommand
    <2>1. CASE execute("cleanup_expired", "clean", expired)
      BY <1>3, <2>1 DEF execute
    <2>2. CASE execute("cleanup_untagged", "clean", untagged)
      BY <1>3, <2>2 DEF execute
    <2>3. CASE execute("protect_snowflakes", "protected", snowflakes)
      BY <1>4, <2>3 DEF execute
    <2> QED
      BY <1>7, <2>1, <2>2, <2>3 DEF ByCommand
  <1>8. ASSUME NEW p, do_action(p) PROVE Marks
    <2>1. UNCHANGED <<conf, core, stored, status, attached, phase, wk, faults>>
      BY <1>8, Zenon DEF do_action
    <2> QED
      BY <1>1, <2>1
  <1>9. ASSUME NEW p, patch_nodes(p) PROVE Marks
    BY <1>3, <1>9 DEF patch_nodes
  <1>10. ASSUME NEW w \in Workers, collect(w) PROVE Marks
    <2>1. UNCHANGED <<conf, status, attached, wk>>
      BY <1>10 DEF collect
    <2>2. CASE core' = core
      BY <1>1, <2>1, <2>2
    <2>3. ASSUME NEW here, NEW changed,
                 core' = [clean     |-> core.clean \cap here,
                          protected |-> (core.protected \cap here) \ changed,
                          cleaned   |-> (core.cleaned \cap here) \ changed]
          PROVE  Marks
      BY <2>1, <2>3 DEF Marks
    <2> QED
      BY <1>10, <2>2, <2>3, Zenon DEF collect
  <1> QED
    BY <1>2, <1>5, <1>6, <1>7, <1>8, <1>9, <1>10 DEF Next, Works, run

\* Steps that change marks keep the invariant.
LEMMA MarksStep ==
    ASSUME CleanInv, Marks
    PROVE  CleanInv'
  <1>1. Onwards
    BY DEF Marks, CleanInv, Shape, Onwards
  <1>2. core' = [clean |-> core'.clean, protected |-> core'.protected, cleaned |-> core'.cleaned]
        /\ core'.cleaned \subseteq core.cleaned
    BY DEF Marks
  <1> QED
    BY <1>1, <1>2, Keeps DEF Marks, CleanInv, Shape, GoneInv

\* The fields of the run of a worker.
Run(r) == r = [on |-> r.on, plan |-> r.plan, kept |-> r.kept, pre |-> r.pre, todo |-> r.todo,
               tried |-> r.tried, cleaned |-> r.cleaned]

\* A run keeps its other fields when one of them is changed.
LEMMA TodoField ==
    ASSUME NEW r, Run(r), NEW S, NEW x, x = [r EXCEPT !.todo = S]
    PROVE  Run(x) /\ x.todo = S /\ x.kept = r.kept /\ x.cleaned = r.cleaned
  <1>1. x = [on |-> r.on, plan |-> r.plan, kept |-> r.kept, pre |-> r.pre,
             todo |-> S, tried |-> r.tried, cleaned |-> r.cleaned]
    BY DEF Run
  <1> QED
    BY <1>1 DEF Run

\* The same for the resources it has tried.
LEMMA TriedField ==
    ASSUME NEW r, Run(r), NEW S, NEW x, x = [r EXCEPT !.tried = S]
    PROVE  Run(x) /\ x.todo = r.todo /\ x.kept = r.kept /\ x.cleaned = r.cleaned
  <1>1. x = [on |-> r.on, plan |-> r.plan, kept |-> r.kept, pre |-> r.pre,
             todo |-> r.todo, tried |-> S, cleaned |-> r.cleaned]
    BY DEF Run
  <1> QED
    BY <1>1 DEF Run

\* The same for the resources it has deleted.
LEMMA CleanedField ==
    ASSUME NEW r, Run(r), NEW S, NEW x, x = [r EXCEPT !.cleaned = S]
    PROVE  Run(x) /\ x.todo = r.todo /\ x.kept = r.kept /\ x.cleaned = S
  <1>1. x = [on |-> r.on, plan |-> r.plan, kept |-> r.kept, pre |-> r.pre,
             todo |-> r.todo, tried |-> r.tried, cleaned |-> S]
    BY DEF Run
  <1> QED
    BY <1>1 DEF Run

\* A step of one worker that changes its run to r.
LEMMA WorkerStep ==
    ASSUME CleanInv, Onwards, NEW w \in Workers, NEW r, Run(r), wk' = [wk EXCEPT ![w] = r],
           core' = [clean |-> core'.clean, protected |-> core'.protected, cleaned |-> core'.cleaned],
           \A n \in core'.cleaned : n \in Nodes /\ status'[n] # "there",
           \A n \in r.cleaned : n \in Nodes /\ status'[n] # "there"
    PROVE  CleanInv'
  <1>1. DOMAIN wk = Workers
    BY DEF CleanInv, Shape
  <1>2. DOMAIN wk' = Workers /\ wk'[w] = r /\ \A x \in Workers : x # w => wk'[x] = wk[x]
    BY <1>1
  <1>3. \A x \in Workers : \A n \in wk[x].cleaned : n \in Nodes /\ status'[n] # "there"
    BY DEF CleanInv, GoneInv, Onwards
  <1>4. \A x \in Workers : Run(wk[x])
    BY DEF CleanInv, Shape, Run
  <1>5. \A x \in Workers : Run(wk'[x])
    BY <1>2, <1>4
  <1>6. \A x \in Workers : \A n \in wk'[x].cleaned : n \in Nodes /\ status'[n] # "there"
    BY <1>2, <1>3
  <1> QED
    BY <1>2, <1>5, <1>6, Keeps DEF Run

\* Steps of a worker keep the invariant.
LEMMA WorksStep ==
    ASSUME CleanInv, Works
    PROVE  CleanInv'
  <1>0. /\ core = [clean |-> core.clean, protected |-> core.protected, cleaned |-> core.cleaned]
        /\ status \in [Nodes -> {"there", "deleting", "gone"}] /\ DOMAIN wk = Workers
        /\ \A w \in Workers : Run(wk[w])
    BY DEF CleanInv, Shape, Run
  <1>1. /\ \A n \in core.cleaned : n \in Nodes /\ status[n] # "there"
        /\ \A w \in Workers : \A n \in wk[w].cleaned : n \in Nodes /\ status[n] # "there"
        /\ \A n \in Nodes : Terminated(n) => status[n] = "gone"
    BY DEF CleanInv, GoneInv
  <1>2. Run(NoRun) /\ NoRun.cleaned = {}
    BY DEF Run, NoRun
  <1>3. ASSUME NEW w \in Workers, NEW r, Run(r), r.cleaned \subseteq wk[w].cleaned,
               wk' = [wk EXCEPT ![w] = r], UNCHANGED <<conf, core, status>>
        PROVE  CleanInv'
    <2>1. Onwards
      BY <1>0, <1>3 DEF Onwards
    <2> QED
      BY <1>0, <1>1, <1>3, <2>1, WorkerStep
  <1>4. ASSUME NEW w \in Workers, cleanup(w) PROVE CleanInv'
    <2> DEFINE plan == (core.clean \cap Nodes) \ core.cleaned
               pre == {n \in plan : Class(n).look # "nowhere"}
               r == IF conf.mode = "off" \/ plan = {} THEN NoRun
                    ELSE [NoRun EXCEPT !.on = TRUE, !.plan = plan, !.kept = core.protected,
                                       !.pre = pre, !.todo = plan]
    <2>1. wk' = [wk EXCEPT ![w] = r] /\ UNCHANGED <<conf, core, status>>
      BY <1>4, Zenon DEF cleanup
    <2>2. Run(r) /\ r.cleaned = {}
      <3> HIDE DEF plan, pre
      <3> QED
        BY <1>2 DEF Run, NoRun
    <2> HIDE DEF r
    <2> QED
      BY <1>3, <2>1, <2>2
  <1>5. ASSUME NEW w \in Workers, crash(w) PROVE CleanInv'
    BY <1>2, <1>3, <1>5 DEF crash
  <1>6. ASSUME NEW w \in Workers, NEW n \in Nodes, pre_clean(w, n) PROVE CleanInv'
    <2>1. PICK r : r = [wk[w] EXCEPT !.pre = @ \ {n}]
      OBVIOUS
    <2>2. Run(r) /\ r.cleaned = wk[w].cleaned
      BY <1>0, <2>1 DEF Run
    <2>3. wk' = [wk EXCEPT ![w] = r] /\ UNCHANGED <<conf, core, status>>
      BY <1>6, <2>1 DEF pre_clean
    <2> QED
      BY <1>3, <2>2, <2>3
  <1>7. ASSUME NEW w \in Workers, patch_cleaned(w) PROVE CleanInv'
    <2>1. /\ core' = [core EXCEPT !.cleaned = (@ \ wk[w].tried) \cup (wk[w].cleaned \cap stored)]
          /\ wk' = [wk EXCEPT ![w] = NoRun] /\ UNCHANGED <<conf, status>>
      BY <1>7 DEF patch_cleaned
    <2>2. core' = [clean |-> core.clean, protected |-> core.protected,
                   cleaned |-> (core.cleaned \ wk[w].tried) \cup (wk[w].cleaned \cap stored)]
      BY <1>0, <2>1
    <2>3. Onwards
      BY <1>0, <2>1 DEF Onwards
    <2>4. /\ core' = [clean |-> core'.clean, protected |-> core'.protected, cleaned |-> core'.cleaned]
          /\ \A n \in core'.cleaned : n \in Nodes /\ status'[n] # "there"
      BY <1>1, <2>1, <2>2
    <2> QED
      BY <1>2, <2>1, <2>3, <2>4, WorkerStep
  <1>8. ASSUME NEW w \in Workers, NEW n \in Nodes, clean(w, n) PROVE CleanInv'
    <2> DEFINE refused == conf.mode # "on" \/ ~unless_protected(w, n) \/ phantom(n)
               S == IF delete(n) THEN wk[w].cleaned \cup {n} ELSE wk[w].cleaned
               q == [wk[w] EXCEPT !.todo = wk[w].todo \ {n}]
               f == [wk[w] EXCEPT !.todo = wk[w].todo \ {n}, !.tried = wk[w].tried \cup {n}]
               d == [wk[w] EXCEPT !.todo = wk[w].todo \ {n}, !.tried = wk[w].tried \cup {n},
                                  !.cleaned = S]
               later == IF Class(n).delete = "later" THEN "deleting" ELSE "gone"
    <2>0. conf' = conf /\ core' = core
      BY <1>8 DEF clean
    <2>1. \/ wk' = [wk EXCEPT ![w] = q] /\ status' = status
          \/ wk' = [wk EXCEPT ![w] = f] /\ status' = status
          \/ /\ wk' = [wk EXCEPT ![w] = d]
             /\ status' = IF Deleted(n) THEN [status EXCEPT ![n] = later] ELSE status
      BY <1>8 DEF clean
    <2>2. /\ Run(q) /\ Run(f) /\ Run(d)
          /\ q.cleaned = wk[w].cleaned /\ f.cleaned = wk[w].cleaned /\ d.cleaned = S
      <3> HIDE DEF S
      <3>1. q = [wk[w] EXCEPT !.todo = wk[w].todo \ {n}]
        OBVIOUS
      <3>2. f = [q EXCEPT !.tried = wk[w].tried \cup {n}]
        OBVIOUS
      <3>3. d = [f EXCEPT !.cleaned = S]
        OBVIOUS
      <3> HIDE DEF q, f, d
      <3>4. Run(q) /\ q.cleaned = wk[w].cleaned
        BY <1>0, <3>1, TodoField
      <3>5. Run(f) /\ f.cleaned = wk[w].cleaned
        BY <3>2, <3>4, TriedField
      <3>6. Run(d) /\ d.cleaned = S
        BY <3>3, <3>5, CleanedField
      <3> QED
        BY <3>4, <3>5, <3>6
    <2>3. q.cleaned = wk[w].cleaned /\ f.cleaned = wk[w].cleaned /\ d.cleaned = S
      BY <2>2
    <2>4. later \in {"deleting", "gone"}
      OBVIOUS
    <2> HIDE DEF q, f, d, later
    <2>5. CASE wk' = [wk EXCEPT ![w] = q] /\ status' = status
      BY <1>3, <2>0, <2>2, <2>3, <2>5
    <2>6. CASE wk' = [wk EXCEPT ![w] = f] /\ status' = status
      BY <1>3, <2>0, <2>2, <2>3, <2>6
    <2>7. CASE /\ wk' = [wk EXCEPT ![w] = d]
               /\ status' = IF Deleted(n) THEN [status EXCEPT ![n] = later] ELSE status
      <3>1. Deleted(n) => status[n] = "there"
        BY DEF Deleted, Accepts
      <3>2. Onwards
        BY <1>0, <2>0, <2>4, <2>7, <3>1 DEF Onwards
      <3>3. delete(n) => status'[n] # "there"
        BY <1>0, <1>1, <2>4, <2>7 DEF delete
      <3>4. \A m \in d.cleaned : m \in Nodes /\ status'[m] # "there"
        BY <1>1, <2>3, <3>2, <3>3 DEF Onwards
      <3>5. \A m \in core'.cleaned : m \in Nodes /\ status'[m] # "there"
        BY <1>1, <2>0, <3>2 DEF Onwards
      <3> HIDE DEF S
      <3> QED
        BY <1>0, <2>0, <2>2, <2>7, <3>2, <3>4, <3>5, WorkerStep
    <2> QED
      BY <2>1, <2>5, <2>6, <2>7
  <1>9. ASSUME NEW n \in Nodes, Gone(n) PROVE CleanInv'
    <2>1. /\ status' = [status EXCEPT ![n] = "gone"]
          /\ UNCHANGED <<conf, core, wk>>
      BY <1>9 DEF Gone
    <2>2. Onwards
      BY <1>0, <2>1 DEF Onwards
    <2> QED
      BY <1>0, <1>1, <2>1, <2>2, Keeps DEF Onwards, Run
  <1> QED
    BY <1>4, <1>5, <1>6, <1>7, <1>8, <1>9 DEF Works

\* Initially nothing is taken for cleaned, and what is terminated is gone.
LEMMA InitFact ==
    ASSUME Init
    PROVE  CleanInv
  <1>1. /\ core = [clean |-> {}, protected |-> {}, cleaned |-> {}]
        /\ status = [n \in Nodes |-> IF Terminated(n) THEN "gone" ELSE "there"]
        /\ wk = [w \in Workers |-> NoRun]
    BY DEF Init
  <1>2. Shape
    BY <1>1 DEF Shape, NoRun
  <1>3. GoneInv
    BY <1>1 DEF GoneInv, NoRun
  <1> QED
    BY <1>2, <1>3 DEF CleanInv

-----------------------------------------------------------------------------
(* Protected resources *)

\* Only a collect takes a protection back.
LEMMA FlagStays ==
    ASSUME CleanInv, [Next]_vars, NEW n \in core.protected, n \notin core'.protected
    PROVE  \E w \in Workers : collect(w)
  <1>0. core = [clean |-> core.clean, protected |-> core.protected, cleaned |-> core.cleaned]
    BY DEF CleanInv, Shape
  <1>1. core' # core
    OBVIOUS
  <1>2. \A S : core' # [core EXCEPT !.clean = S] /\ core' # [core EXCEPT !.cleaned = S]
    BY <1>0
  <1>3. \A S : core' # [core EXCEPT !.protected = core.protected \cup S]
    BY <1>0
  <1>4. ~next_step /\ ~UNCHANGED vars
    BY <1>1 DEF next_step, vars
  <1>5. \A m \in Nodes : ~(clean_command(m) \/ protect_command(m) \/ Gone(m))
    BY <1>1, <1>2, <1>3 DEF clean_command, protect_command, Gone
  <1>6. ~ByCommand
    BY <1>2, <1>3 DEF ByCommand, execute
  <1>7. \A p : ~do_action(p)
    BY <1>1, Zenon DEF do_action
  <1>8. \A p : ~patch_nodes(p)
    BY <1>2 DEF patch_nodes
  <1>9. \A w \in Workers : ~cleanup(w)
    BY <1>1, Zenon DEF cleanup
  <1>10. \A w \in Workers : ~patch_cleaned(w) /\ ~crash(w)
    BY <1>1, <1>2 DEF patch_cleaned, crash
  <1>11. \A w \in Workers : \A m \in Nodes : ~pre_clean(w, m) /\ ~clean(w, m)
    BY <1>1 DEF pre_clean, clean
  <1> QED
    BY <1>4, <1>5, <1>6, <1>7, <1>8, <1>9, <1>10, <1>11 DEF Next, run

\* A step of worker w that leaves it with run r, and resource n where it was.
LEMMA SafeByWorker ==
    ASSUME CleanInv, NEW n, Safe(n), conf' = conf, n \in core'.protected,
           NEW w \in Workers, NEW r, wk' = [wk EXCEPT ![w] = r],
           n \notin r.todo \ r.kept, n \in Nodes => status'[n] = status[n]
    PROVE  Safe(n)'
  <1>1. wk'[w] = r /\ \A x \in Workers : x # w => wk'[x] = wk[x]
    BY DEF CleanInv, Shape
  <1>2. Nodes' = Nodes
    BY DEF Nodes
  <1>3. There(n)'
    BY <1>2 DEF Safe, There
  <1>4. \A x \in Workers : n \notin wk'[x].todo \ wk'[x].kept
    BY <1>1 DEF Safe
  <1> QED
    BY <1>3, <1>4 DEF Safe

\* A resource that is protected before and after a step, and that all runs which have
\* still to come to it know to be protected, is kept.
LEMMA SafeStep ==
    ASSUME CleanInv, [Next]_vars, NEW n, Safe(n), n \in core'.protected
    PROVE  Safe(n)'
  <1>0. /\ DOMAIN wk = Workers /\ \A w \in Workers : Run(wk[w])
        /\ status \in [Nodes -> {"there", "deleting", "gone"}]
        /\ core = [clean |-> core.clean, protected |-> core.protected, cleaned |-> core.cleaned]
    BY DEF CleanInv, Shape, Run
  <1>1. CASE Marks
    <2>1. Nodes' = Nodes
      BY <1>1 DEF Marks, Nodes
    <2> QED
      BY <1>1, <2>1 DEF Marks, Safe, There
  <1>2. NoRun.todo = {}
    BY DEF NoRun
  <1>3. ASSUME NEW w \in Workers, cleanup(w) PROVE Safe(n)'
    <2> DEFINE plan == (core.clean \cap Nodes) \ core.cleaned
               pre == {m \in plan : Class(m).look # "nowhere"}
               r == IF conf.mode = "off" \/ plan = {} THEN NoRun
                    ELSE [NoRun EXCEPT !.on = TRUE, !.plan = plan, !.kept = core.protected,
                                       !.pre = pre, !.todo = plan]
    <2>1. wk' = [wk EXCEPT ![w] = r] /\ UNCHANGED <<conf, core, status>>
      BY <1>3, Zenon DEF cleanup
    <2>2. r.todo = {} \/ r.kept = core.protected
      <3> HIDE DEF plan, pre
      <3> QED
        BY <1>2 DEF NoRun
    <2> HIDE DEF r
    <2> QED
      BY <2>1, <2>2, SafeByWorker DEF Safe
  <1>4. ASSUME NEW w \in Workers, patch_cleaned(w) \/ crash(w) PROVE Safe(n)'
    <2>1. wk' = [wk EXCEPT ![w] = NoRun] /\ UNCHANGED <<conf, status>>
      BY <1>4 DEF patch_cleaned, crash
    <2> QED
      BY <1>2, <2>1, SafeByWorker
  <1>5. ASSUME NEW w \in Workers, NEW m \in Nodes, pre_clean(w, m) PROVE Safe(n)'
    <2>1. PICK r : r = [wk[w] EXCEPT !.pre = @ \ {m}]
      OBVIOUS
    <2>2. r.todo = wk[w].todo /\ r.kept = wk[w].kept
      BY <1>0, <2>1 DEF Run
    <2>3. wk' = [wk EXCEPT ![w] = r] /\ UNCHANGED <<conf, core, status>>
      BY <1>5, <2>1 DEF pre_clean
    <2> QED
      BY <2>2, <2>3, SafeByWorker DEF Safe
  <1>6. ASSUME NEW w \in Workers, NEW m \in Nodes, clean(w, m) PROVE Safe(n)'
    <2> DEFINE S == IF delete(m) THEN wk[w].cleaned \cup {m} ELSE wk[w].cleaned
               q == [wk[w] EXCEPT !.todo = wk[w].todo \ {m}]
               f == [wk[w] EXCEPT !.todo = wk[w].todo \ {m}, !.tried = wk[w].tried \cup {m}]
               d == [wk[w] EXCEPT !.todo = wk[w].todo \ {m}, !.tried = wk[w].tried \cup {m},
                                  !.cleaned = S]
               later == IF Class(m).delete = "later" THEN "deleting" ELSE "gone"
    <2>1. UNCHANGED <<conf, core>> /\ m \in wk[w].todo
      BY <1>6 DEF clean, InLevel
    <2>2. \/ wk' = [wk EXCEPT ![w] = q] /\ status' = status
          \/ wk' = [wk EXCEPT ![w] = f] /\ status' = status
          \/ /\ wk' = [wk EXCEPT ![w] = d] /\ m \notin wk[w].kept
             /\ status' = IF Deleted(m) THEN [status EXCEPT ![m] = later] ELSE status
      BY <1>6 DEF clean, unless_protected
    <2>3. /\ q.todo \subseteq wk[w].todo /\ f.todo = q.todo /\ d.todo = q.todo
          /\ q.kept = wk[w].kept /\ f.kept = wk[w].kept /\ d.kept = wk[w].kept
      <3> HIDE DEF S
      <3>1. q = [wk[w] EXCEPT !.todo = wk[w].todo \ {m}]
        OBVIOUS
      <3>2. f = [q EXCEPT !.tried = wk[w].tried \cup {m}]
        OBVIOUS
      <3>3. d = [f EXCEPT !.cleaned = S]
        OBVIOUS
      <3> HIDE DEF q, f, d
      <3>4. Run(q) /\ q.todo = wk[w].todo \ {m} /\ q.kept = wk[w].kept
        BY <1>0, <3>1, TodoField
      <3>5. Run(f) /\ f.todo = q.todo /\ f.kept = q.kept
        BY <3>2, <3>4, TriedField
      <3>6. d.todo = f.todo /\ d.kept = f.kept
        BY <3>3, <3>5, CleanedField
      <3> QED
        BY <3>4, <3>5, <3>6
    <2>4. n \notin wk[w].todo \ wk[w].kept
      BY DEF Safe
    <2> HIDE DEF q, f, d, later
    <2>5. n \in Nodes => status'[n] = status[n]
      BY <1>0, <2>1, <2>2, <2>4
    <2> QED
      BY <2>1, <2>2, <2>3, <2>4, <2>5, SafeByWorker DEF Safe
  <1>7. ASSUME NEW m \in Nodes, Gone(m) PROVE Safe(n)'
    <2>1. /\ status[m] = "deleting" /\ status' = [status EXCEPT ![m] = "gone"]
          /\ UNCHANGED <<conf, core, wk>>
      BY <1>7 DEF Gone
    <2>2. Nodes' = Nodes
      BY <2>1 DEF Nodes
    <2>3. n \in Nodes => status'[n] = "there"
      BY <1>0, <2>1 DEF Safe, There
    <2> QED
      BY <2>1, <2>2, <2>3 DEF Safe, There
  <1> QED
    BY <1>1, <1>3, <1>4, <1>5, <1>6, <1>7, StepKind DEF Works

-----------------------------------------------------------------------------
(* Reaching and depth *)

\* A set of numbers has a least element: induction, for levels and reachable nodes.
LEMMA LeastNumber ==
    ASSUME NEW T \in SUBSET Nat, T # {}
    PROVE  \E x \in T : \A y \in T : x <= y
  <1> DEFINE R == OpToRel(<, Nat)
  <1>1. IsWellFoundedOn(R, Nat)
    BY NatLessThanWellFounded
  <1>2. \A x, y \in Nat : x < y => <<x, y>> \in R
    BY DEF OpToRel
  <1> HIDE DEF R
  <1>3. PICK x \in T : \A y \in T : ~(<<y, x>> \in R)
    BY <1>1, WFMin
  <1>4. \A y \in T : ~(y < x)
    BY <1>2, <1>3
  <1>5. \A y \in T : x <= y
    BY <1>4
  <1> QED
    BY <1>5

\* A finite set of numbers has a greatest element, and Max is that element.
LEMMA GreatestNumber ==
    ASSUME NEW k \in Nat, NEW T \in SUBSET (0..k), T # {}
    PROVE  Max(T) \in T /\ \A y \in T : y <= Max(T)
  <1> DEFINE D == {k - x : x \in T}
  <1>0. \A x \in T : x \in Nat /\ k - x \in Nat
    <2> SUFFICES ASSUME NEW x \in T PROVE x \in Nat /\ k - x \in Nat
      OBVIOUS
    <2>1. x \in 0..k
      OBVIOUS
    <2> QED
      BY <2>1
  <1>1. D \in SUBSET Nat /\ D # {}
    BY <1>0
  <1>2. PICK d \in D : \A y \in D : d <= y
    BY <1>1, LeastNumber
  <1>3. PICK x \in T : d = k - x
    BY <1>2
  <1>4. \A y \in T : x >= y
    <2> SUFFICES ASSUME NEW y \in T PROVE x >= y
      OBVIOUS
    <2>1. k - y \in D
      OBVIOUS
    <2> QED
      BY <1>2, <1>3, <2>1
  <1>5. Max(T) \in T /\ \A y \in T : Max(T) >= y
    BY <1>4 DEF Max
  <1> QED
    BY <1>5

\* Nothing leads out of S.
ClosedUnder(next, S) == \A m \in S : next[m] \subseteq S

\* What is reached from S contains S, is left by no step, and is part of every such set.
LEMMA ReachedFact ==
    ASSUME NEW nodes, IsFiniteSet(nodes), NEW next \in [nodes -> SUBSET nodes], NEW S \in SUBSET nodes
    PROVE  /\ ReachedFrom(nodes, next, S) \in SUBSET nodes
           /\ S \subseteq ReachedFrom(nodes, next, S)
           /\ ClosedUnder(next, ReachedFrom(nodes, next, S))
           /\ \A U \in SUBSET nodes : S \subseteq U /\ ClosedUnder(next, U) =>
                  ReachedFrom(nodes, next, S) \subseteq U
  <1> DEFINE Step(U) == U \cup UNION {next[m] : m \in U}
             Solves(f) == f = [U \in SUBSET nodes |-> IF Step(U) = U THEN U ELSE f[Step(U)]]
             f0 == CHOOSE f : Solves(f)
             Hull(U) == {n \in nodes : \A V \in SUBSET nodes : U \subseteq V /\ ClosedUnder(next, V) => n \in V}
             h == [U \in SUBSET nodes |-> Hull(U)]
  <1>1. ReachedFrom(nodes, next, S) = f0[S]
    BY Zenon DEF ReachedFrom
  <1>2. \A U \in SUBSET nodes : /\ Step(U) \in SUBSET nodes /\ U \subseteq Step(U)
                                /\ Step(U) = U <=> ClosedUnder(next, U)
                                /\ \A V \in SUBSET nodes : U \subseteq V /\ ClosedUnder(next, V) => Step(U) \subseteq V
    BY DEF ClosedUnder
  <1> HIDE DEF Step
  <1>3. \A U \in SUBSET nodes : Hull(U) = IF Step(U) = U THEN U ELSE Hull(Step(U))
    <2> SUFFICES ASSUME NEW U \in SUBSET nodes
                 PROVE  Hull(U) = IF Step(U) = U THEN U ELSE Hull(Step(U))
      OBVIOUS
    <2>1. CASE Step(U) = U
      BY <1>2, <2>1
    <2>2. CASE Step(U) # U
      <3>1. \A V \in SUBSET nodes : ClosedUnder(next, V) => (U \subseteq V <=> Step(U) \subseteq V)
        BY <1>2
      <3> QED
        BY <2>2, <3>1
    <2> QED
      BY <2>1, <2>2
  <1>4. Solves(h)
    <2> HIDE DEF Hull
    <2>1. \A U \in SUBSET nodes : h[U] = IF Step(U) = U THEN U ELSE h[Step(U)]
      BY <1>2, <1>3
    <2> QED
      BY <2>1
  <1>5. Solves(f0)
    <2> HIDE DEF Solves, h
    <2> QED
      BY <1>4
  <1>6. \A U \in SUBSET nodes : f0[U] = IF Step(U) = U THEN U ELSE f0[Step(U)]
    <2> HIDE DEF f0
    <2> QED
      BY <1>5
  <1> DEFINE Good(U) == /\ f0[U] \in SUBSET nodes /\ U \subseteq f0[U] /\ ClosedUnder(next, f0[U])
                        /\ \A V \in SUBSET nodes : U \subseteq V /\ ClosedUnder(next, V) => f0[U] \subseteq V
             Bad == {U \in SUBSET nodes : ~Good(U)}
             Rest(U) == Cardinality(nodes \ U)
             Sizes == {Rest(U) : U \in Bad}
  <1> HIDE DEF f0
  <1>7. \A U \in SUBSET nodes : Rest(U) \in Nat
    BY FS_Difference, FS_CardinalityType
  <1>8. \A U \in SUBSET nodes : Step(U) # U => Rest(Step(U)) < Rest(U)
    <2> SUFFICES ASSUME NEW U \in SUBSET nodes, Step(U) # U PROVE Rest(Step(U)) < Rest(U)
      OBVIOUS
    <2>1. IsFiniteSet(nodes \ U)
      BY FS_Difference
    <2>2. nodes \ Step(U) \subseteq nodes \ U /\ nodes \ Step(U) # nodes \ U
      BY <1>2
    <2>3. /\ Cardinality(nodes \ Step(U)) <= Cardinality(nodes \ U)
          /\ Cardinality(nodes \ Step(U)) # Cardinality(nodes \ U)
      BY <2>1, <2>2, FS_Subset
    <2>4. Cardinality(nodes \ Step(U)) \in Nat /\ Cardinality(nodes \ U) \in Nat
      BY <1>2, <1>7
    <2> QED
      BY <2>3, <2>4
  <1> HIDE DEF Rest
  <1>9. \A U \in SUBSET nodes : Step(U) # U /\ Good(Step(U)) => Good(U)
    BY <1>2, <1>6
  <1>10. \A U \in SUBSET nodes : Step(U) = U => Good(U)
    BY <1>2, <1>6
  <1> HIDE DEF Good
  <1>11. Bad = {}
    <2> SUFFICES ASSUME Bad # {} PROVE FALSE
      OBVIOUS
    <2>1. Sizes \in SUBSET Nat /\ Sizes # {}
      BY <1>7
    <2>2. PICK k \in Sizes : \A y \in Sizes : k <= y
      BY <2>1, LeastNumber
    <2>3. PICK U \in Bad : k = Rest(U)
      BY <2>2
    <2>4. Step(U) # U /\ Step(U) \in Bad
      BY <1>2, <1>9, <1>10, <2>3
    <2>5. Rest(Step(U)) < Rest(U) /\ Rest(Step(U)) \in Sizes
      BY <1>8, <2>3, <2>4
    <2> QED
      BY <1>2, <1>7, <2>2, <2>3, <2>5
  <1> QED
    BY <1>1, <1>11 DEF Good

\* The equation of the levels: a node is d steps from the root if a walk of d steps
\* leads to it.
LEMMA LevelFact ==
    ASSUME NEW c \in Confs
    PROVE  \A d \in Nat : Levels(c)[d] = IF d = 0 THEN {Root}
                                         ELSE UNION {successors(GraphOf[c], m) : m \in Levels(c)[d - 1]}
  <1> DEFINE g == GraphOf[c]
             Solves(f) == f = [d \in Nat |-> IF d = 0 THEN {Root}
                                             ELSE UNION {successors(g, m) : m \in f[d - 1]}]
             f0 == CHOOSE f : Solves(f)
             Walk(p, d) == p[0] = Root /\ \A i \in 0..(d - 1) : <<p[i], p[i + 1]>> \in g.edges
             Ends(d) == {m \in g.nodes : \E p \in [0..d -> g.nodes] : Walk(p, d) /\ p[d] = m}
             h == [d \in Nat |-> Ends(d)]
  <1>1. Levels(c) = f0
    BY Zenon DEF Levels
  <1>2. g.edges \subseteq g.nodes \X g.nodes /\ Root \in g.nodes
    BY LandscapeAssumption
  <1> HIDE DEF g
  <1>3. \A m : successors(g, m) = {n \in g.nodes : <<m, n>> \in g.edges}
    BY <1>2 DEF successors
  <1>4. Ends(0) = {Root}
    <2>1. ASSUME NEW m \in Ends(0) PROVE m = Root
      OBVIOUS
    <2>2. Root \in Ends(0)
      <3> DEFINE p == [i \in 0..0 |-> Root]
      <3>1. p \in [0..0 -> g.nodes] /\ p[0] = Root
        BY <1>2
      <3>2. Walk(p, 0)
        BY <3>1
      <3> QED
        BY <1>2, <3>1, <3>2
    <2> QED
      BY <2>1, <2>2
  <1>5. ASSUME NEW d \in Nat, d # 0, NEW n \in Ends(d)
        PROVE  \E m \in Ends(d - 1) : n \in successors(g, m)
    <2>1. PICK p \in [0..d -> g.nodes] : Walk(p, d) /\ p[d] = n
      BY <1>5
    <2> DEFINE q == [i \in 0..(d - 1) |-> p[i]]
    <2>2. q \in [0..(d - 1) -> g.nodes] /\ q[0] = Root /\ q[d - 1] = p[d - 1]
      BY <1>5, <2>1
    <2>3. Walk(q, d - 1)
      BY <1>5, <2>1, <2>2
    <2>4. d - 1 \in 0..(d - 1) /\ q[d - 1] \in g.nodes
      <3>1. d - 1 \in 0..(d - 1)
        BY <1>5
      <3> QED
        BY <2>2, <3>1
    <2>5. q[d - 1] \in Ends(d - 1)
      <3> HIDE DEF q, Walk
      <3> QED
        BY <2>2, <2>3, <2>4
    <2>6. <<p[d - 1], p[d]>> \in g.edges
      BY <1>5, <2>1
    <2>7. n \in successors(g, q[d - 1])
      BY <1>3, <1>5, <2>1, <2>2, <2>6
    <2> QED
      BY <2>5, <2>7
  <1>6. ASSUME NEW d \in Nat, d # 0, NEW m \in Ends(d - 1), NEW n \in successors(g, m)
        PROVE  n \in Ends(d)
    <2>1. PICK p \in [0..(d - 1) -> g.nodes] : Walk(p, d - 1) /\ p[d - 1] = m
      BY <1>6
    <2> DEFINE q == [i \in 0..d |-> IF i = d THEN n ELSE p[i]]
    <2>2. n \in g.nodes /\ <<m, n>> \in g.edges
      BY <1>3, <1>6
    <2>3. q \in [0..d -> g.nodes] /\ q[d] = n /\ \A i \in 0..(d - 1) : q[i] = p[i]
      BY <1>6, <2>1, <2>2
    <2>4. q[0] = Root
      BY <1>6, <2>1, <2>3
    <2>5. \A i \in 0..(d - 1) : <<q[i], q[i + 1]>> \in g.edges
      <3> SUFFICES ASSUME NEW i \in 0..(d - 1) PROVE <<q[i], q[i + 1]>> \in g.edges
        OBVIOUS
      <3>1. CASE i = d - 1
        <4>1. i + 1 = d /\ q[i] = p[d - 1]
          BY <1>6, <2>3, <3>1
        <4> HIDE DEF q
        <4> QED
          BY <2>1, <2>2, <2>3, <4>1
      <3>2. CASE i # d - 1
        <4>1. i \in 0..((d - 1) - 1) /\ i + 1 \in 0..(d - 1)
          BY <1>6, <3>2
        <4> QED
          BY <2>1, <2>3, <4>1
      <3> QED
        BY <3>1, <3>2
    <2> QED
      BY <2>2, <2>3, <2>4, <2>5
  <1> HIDE DEF Ends
  <1>7. \A d \in Nat : Ends(d) = IF d = 0 THEN {Root} ELSE UNION {successors(g, m) : m \in Ends(d - 1)}
    BY <1>4, <1>5, <1>6
  <1>8. Solves(h)
    <2>1. \A d \in Nat : h[d] = IF d = 0 THEN {Root} ELSE UNION {successors(g, m) : m \in h[d - 1]}
      <3> SUFFICES ASSUME NEW d \in Nat
                   PROVE  h[d] = IF d = 0 THEN {Root} ELSE UNION {successors(g, m) : m \in h[d - 1]}
        OBVIOUS
      <3>1. d # 0 => d - 1 \in Nat
        OBVIOUS
      <3> QED
        BY <1>7, <3>1
    <2> QED
      BY <2>1
  <1>9. Solves(f0)
    <2> HIDE DEF Solves, h
    <2> QED
      BY <1>8
  <1> HIDE DEF f0
  <1>10. \A d \in Nat : f0[d] = IF d = 0 THEN {Root} ELSE UNION {successors(g, m) : m \in f0[d - 1]}
    BY <1>9
  <1> QED
    BY <1>1, <1>10 DEF g

\* A successor is deeper: the longest walk to a node goes on to its successors, and no
\* walk has as many steps as there are nodes.
LEMMA DeeperSuccessor ==
    ASSUME NEW c \in Confs, NEW x \in GraphOf[c].nodes, NEW y \in successors(GraphOf[c], x)
    PROVE  /\ y \in GraphOf[c].nodes
           /\ DepthOf[c][x] \in Nat /\ DepthOf[c][y] \in Nat /\ DepthOf[c][x] < DepthOf[c][y]
  <1> DEFINE g == GraphOf[c]
             k == Cardinality(g.nodes)
  <1>1. /\ IsFiniteSet(g.nodes) /\ g.edges \subseteq g.nodes \X g.nodes
        /\ Levels(c)[k] = {} /\ \A n \in g.nodes : Depths(c, n) # {}
    BY LandscapeAssumption
  <1>2. k \in Nat
    BY <1>1, FS_CardinalityType
  <1>3. y \in g.nodes
    BY <1>1 DEF successors
  <1> HIDE DEF g, k
  <1>4. \A n : Depths(c, n) = {d \in 0..k : n \in Levels(c)[d]}
    BY DEF Depths, k, g
  <1>5. \A n \in g.nodes : /\ DepthOf[c][n] = Max(Depths(c, n)) /\ DepthOf[c][n] \in Depths(c, n)
                           /\ \A d \in Depths(c, n) : d <= DepthOf[c][n]
    <2> SUFFICES ASSUME NEW n \in g.nodes
                 PROVE  /\ DepthOf[c][n] = Max(Depths(c, n)) /\ DepthOf[c][n] \in Depths(c, n)
                        /\ \A d \in Depths(c, n) : d <= DepthOf[c][n]
      OBVIOUS
    <2>1. DepthOf[c][n] = Max(Depths(c, n))
      BY DEF DepthOf, max_graph_depth, g
    <2>2. Depths(c, n) \in SUBSET (0..k) /\ Depths(c, n) # {}
      BY <1>1, <1>4
    <2> QED
      BY <1>2, <2>1, <2>2, GreatestNumber
  <1>6. x \in g.nodes /\ y \in successors(g, x)
    BY DEF g
  <1> DEFINE d == DepthOf[c][x]
  <1>7. d \in 0..k /\ x \in Levels(c)[d]
    BY <1>4, <1>5, <1>6
  <1>8. d \in Nat /\ d < k
    BY <1>1, <1>2, <1>7
  <1>9. y \in Levels(c)[d + 1]
    <2>1. Levels(c)[d + 1] = UNION {successors(g, m) : m \in Levels(c)[(d + 1) - 1]}
      <3> HIDE DEF d
      <3>1. d + 1 \in Nat /\ d + 1 # 0
        BY <1>8
      <3>2. \A e \in Nat : Levels(c)[e] = IF e = 0 THEN {Root}
                                            ELSE UNION {successors(g, m) : m \in Levels(c)[e - 1]}
        BY LevelFact DEF g
      <3> QED
        BY <3>1, <3>2, Zenon
    <2>2. (d + 1) - 1 = d
      BY <1>8
    <2> QED
      BY <1>6, <1>7, <2>1, <2>2
  <1>10. d + 1 \in Depths(c, y)
    BY <1>2, <1>4, <1>8, <1>9
  <1>11. DepthOf[c][y] \in 0..k /\ d + 1 <= DepthOf[c][y]
    BY <1>3, <1>4, <1>5, <1>10
  <1> QED
    BY <1>2, <1>3, <1>8, <1>11 DEF g

\* No node is deeper than there are nodes.
LEMMA DepthBound ==
    ASSUME conf \in Confs, NEW n \in Nodes
    PROVE  DepthOf[conf][n] \in 0..Cardinality(Nodes)
  <1>1. /\ Cardinality(Nodes) \in Nat /\ Depths(conf, n) # {}
        /\ Depths(conf, n) \in SUBSET (0..Cardinality(Nodes))
    BY LandscapeAssumption, FS_CardinalityType DEF Nodes, Depths
  <1>2. DepthOf[conf][n] = Max(Depths(conf, n))
    BY DEF DepthOf, max_graph_depth, Nodes
  <1> QED
    BY <1>1, <1>2, GreatestNumber

\* Whatever is below a node is deeper.
LEMMA DeeperBelow ==
    ASSUME conf \in Confs, NEW n \in Nodes, NEW m \in below(n)
    PROVE  /\ m \in Nodes /\ DepthOf[conf][n] \in Nat /\ DepthOf[conf][m] \in Nat
           /\ DepthOf[conf][n] < DepthOf[conf][m]
  <1> DEFINE g == GraphOf[conf]
             next == [x \in g.nodes |-> successors(g, x)]
             D(x) == DepthOf[conf][x]
             U == {x \in g.nodes : x = n \/ (D(n) \in Nat /\ D(x) \in Nat /\ D(n) < D(x))}
  <1>1. /\ IsFiniteSet(g.nodes) /\ n \in g.nodes
        /\ \A x \in g.nodes : \A y \in successors(g, x) :
             y \in g.nodes /\ D(x) \in Nat /\ D(y) \in Nat /\ D(x) < D(y)
    BY LandscapeAssumption, DeeperSuccessor DEF Nodes
  <1>2. m # n /\ m \in ReachedFrom(g.nodes, next, {n})
    BY DEF below, descendants
  <1> HIDE DEF g, D
  <1>3. next \in [g.nodes -> SUBSET g.nodes]
    BY <1>1
  <1>4. ASSUME NEW x \in U, NEW y \in next[x] PROVE y \in U
    <2>1. x \in g.nodes /\ y \in successors(g, x)
      OBVIOUS
    <2>2. y \in g.nodes /\ D(x) \in Nat /\ D(y) \in Nat /\ D(x) < D(y)
      BY <1>1, <2>1
    <2>3. D(n) \in Nat /\ (x = n \/ D(n) < D(x))
      BY <2>2
    <2> QED
      BY <2>2, <2>3
  <1>5. U \in SUBSET g.nodes /\ {n} \subseteq U /\ ClosedUnder(next, U)
    BY <1>1, <1>4 DEF ClosedUnder
  <1> HIDE DEF next, U
  <1>6. m \in U
    BY <1>1, <1>2, <1>3, <1>5, ReachedFact
  <1> QED
    BY <1>2, <1>6 DEF U, D, g, Nodes

-----------------------------------------------------------------------------
(* The order of the deletions *)

\* The cloud deletes at once unless the class says otherwise; what is attached are nodes.
CloudInv == /\ attached \subseteq {pair \in Attachable : pair \subseteq Nodes}
            /\ \A n \in Nodes : status[n] = "deleting" => Class(n).delete = "later"
            /\ faults \in Nat

\* Messages go to plugins and workers of the landscape.
DueInv == conf \in Confs /\ DOMAIN due = conf.plugins \cup conf.workers

\* Only a worker of the landscape has a run, and it deletes when all are prepared.
Begun(w) == /\ wk[w].on => w \in conf.workers
            /\ ~wk[w].on => wk[w].pre = {}
            /\ wk[w].plan \subseteq Nodes
            /\ wk[w].pre # {} => wk[w].todo = wk[w].plan

\* Whatever the run has prepared holds no attachment its pre_delete can undo.
Prepared(w) ==
    wk[w].on /\ faults = 0 /\ conf.mode = "on" =>
      \A m \in wk[w].plan \ (wk[w].pre \cup wk[w].kept) :
          Class(m).look # "nowhere" =>
            \A pair \in attached : ~(m \in pair /\ pair \subseteq Found(m) \cup {m})

\* Why n is there although its deletion was tried.
Reason(w, n) ==
    \/ phantom(n) \/ Class(n).delete = "never" \/ (n = "vpc" /\ n \in conf.active)
    \/ \E pair \in attached : n \in pair
    \/ \E m \in Blockers(n) : \/ m \notin below(n) \/ Class(m).delete # "call"
                              \/ status[m] = "there" /\ m \notin wk[w].todo

\* What the only worker has tried and not deleted was blocked, and by something that
\* stays, or by something it has tried before.
Tried(w) ==
    conf.workers = {w} /\ wk[w].on /\ wk[w].pre = {} /\ faults = 0 /\ conf.mode = "on" =>
      \A n \in wk[w].plan \ (wk[w].todo \cup wk[w].kept) : status[n] = "there" => Reason(w, n)

RunOf(w) == Begun(w) /\ Prepared(w) /\ Tried(w)

RunsInv == CloudInv /\ DueInv /\ \A w \in Workers : RunOf(w)

\* The graph, and what the graph and the classes decide, does not change.
LEMMA SameGraph ==
    ASSUME conf' = conf
    PROVE  /\ Nodes' = Nodes /\ \A n : Blockers(n)' = Blockers(n) /\ below(n)' = below(n)
           /\ \A n : Found(n)' = Found(n)
  <1>1. Nodes' = Nodes
    BY DEF Nodes
  <1>2. \A n : Blockers(n)' = Blockers(n)
    BY <1>1 DEF Blockers
  <1>3. \A n : below(n)' = below(n)
    BY DEF below
  <1>4. \A n : predecessors(n)' = predecessors(n)
    BY <1>1 DEF predecessors
  <1>5. \A n : Found(n)' = Found(n)
    BY <1>4 DEF Found
  <1> QED
    BY <1>1, <1>2, <1>3, <1>5

\* A step that leaves the run of x alone, and what is there as well if x is the only worker.
LEMMA RunKept ==
    ASSUME NEW x \in Workers, RunOf(x), wk'[x] = wk[x], conf' = conf, attached' \subseteq attached,
           faults' = 0 => faults = 0,
           conf.workers = {x} =>
             attached' = attached /\ \A n \in Nodes : status'[n] = "there" <=> status[n] = "there"
    PROVE  RunOf(x)'
  <1>1. /\ Nodes' = Nodes /\ \A n : Blockers(n)' = Blockers(n) /\ below(n)' = below(n)
        /\ \A n : Found(n)' = Found(n)
    BY SameGraph
  <1>2. Begun(x)'
    BY <1>1 DEF RunOf, Begun
  <1>3. Prepared(x)'
    BY <1>1 DEF RunOf, Prepared
  <1>4. Tried(x)'
    <2> SUFFICES ASSUME conf.workers = {x}, wk[x].on, wk[x].pre = {}, faults' = 0, conf.mode = "on",
                        NEW n \in wk[x].plan \ (wk[x].todo \cup wk[x].kept), status'[n] = "there"
                 PROVE  Reason(x, n)'
      BY DEF Tried
    <2>1. n \in Nodes /\ Blockers(n) \subseteq Nodes
      BY DEF RunOf, Begun, Blockers
    <2>2. Reason(x, n)
      BY <2>1 DEF RunOf, Tried
    <2> QED
      BY <1>1, <2>1, <2>2 DEF Reason
  <1> QED
    BY <1>2, <1>3, <1>4 DEF RunOf

\* The run of w is over.
LEMMA RunEnds ==
    ASSUME NEW w \in Workers, wk'[w] = NoRun
    PROVE  RunOf(w)'
  <1>1. wk'[w].on = FALSE /\ wk'[w].pre = {} /\ wk'[w].plan = {}
    BY DEF NoRun
  <1> QED
    BY <1>1 DEF RunOf, Begun, Prepared, Tried

\* A new run has everything before it.
LEMMA RunBegins ==
    ASSUME CleanInv, DueInv, NEW w \in Workers, cleanup(w)
    PROVE  RunOf(w)'
  <1> DEFINE plan == (core.clean \cap Nodes) \ core.cleaned
             pre == {n \in plan : Class(n).look # "nowhere"}
             q == [NoRun EXCEPT !.on = TRUE, !.plan = plan, !.kept = core.protected, !.pre = pre, !.todo = plan]
             r == IF conf.mode = "off" \/ plan = {} THEN NoRun ELSE q
  <1>0. DOMAIN wk = Workers
    BY DEF CleanInv, Shape
  <1>1. wk' = [wk EXCEPT ![w] = r] /\ UNCHANGED <<conf, attached>> /\ w \in DOMAIN due
    BY Zenon DEF cleanup, Receives
  <1>2. wk'[w] = r
    BY <1>0, <1>1
  <1>3. Nodes' = Nodes
    BY <1>1 DEF Nodes
  <1>4. w \in conf.workers
    BY <1>1, CleanupAssumption DEF DueInv
  <1>5. CASE r = NoRun
    BY <1>2, <1>5, RunEnds
  <1>6. CASE r = q
    <2>1. /\ q.on = TRUE /\ q.plan = plan /\ q.pre = pre /\ q.todo = plan
      <3> HIDE DEF plan, pre
      <3> QED
        BY DEF NoRun
    <2> HIDE DEF q, r
    <2>2. Begun(w)'
      BY <1>1, <1>2, <1>3, <1>4, <1>6, <2>1 DEF Begun
    <2>3. Prepared(w)'
      BY <1>2, <1>6, <2>1 DEF Prepared
    <2>4. Tried(w)'
      BY <1>2, <1>6, <2>1 DEF Tried
    <2> QED
      BY <2>2, <2>3, <2>4 DEF RunOf
  <1> QED
    BY <1>5, <1>6

\* The run has called pre_delete of n.
LEMMA RunPrepares ==
    ASSUME CleanInv, CloudInv, NEW w \in Workers, NEW n \in Nodes, RunOf(w), pre_clean(w, n)
    PROVE  RunOf(w)'
  <1> DEFINE r == wk[w]
             P == r.pre \ {n}
             q == [r EXCEPT !.pre = P]
  <1>0. DOMAIN wk = Workers /\ Run(r)
    BY DEF CleanInv, Shape, Run
  <1>1. /\ n \in r.pre /\ wk' = [wk EXCEPT ![w] = q] /\ UNCHANGED <<conf, status>>
        /\ \/ /\ unless_protected(w, n) /\ conf.mode = "on"
              /\ attached' = {pair \in attached : ~(n \in pair /\ pair \subseteq Found(n) \cup {n})}
              /\ faults' = faults
           \/ attached' = attached /\ faults' = faults /\ (conf.mode # "on" \/ n \in r.kept)
           \/ attached' = attached /\ faults' = faults + 1
    BY DEF pre_clean, unless_protected
  <1>2. wk'[w] = q
    BY <1>0, <1>1
  <1> HIDE DEF P
  <1>3. /\ q.on = r.on /\ q.plan = r.plan /\ q.kept = r.kept /\ q.todo = r.todo
        /\ q.pre = P
    BY <1>0 DEF Run
  <1>4. Nodes' = Nodes /\ \A m : Found(m)' = Found(m)
    BY <1>1, SameGraph
  <1>5. r.on /\ r.todo = r.plan
    BY <1>1 DEF RunOf, Begun
  <1> HIDE DEF q
  <1>6. Begun(w)'
    BY <1>1, <1>2, <1>3, <1>4, <1>5 DEF RunOf, Begun
  <1>7. Tried(w)'
    BY <1>2, <1>3, <1>5 DEF Tried
  <1>8. Prepared(w)'
    <2> SUFFICES ASSUME faults' = 0, conf.mode = "on", NEW m \in r.plan \ (P \cup r.kept),
                        Class(m).look # "nowhere", NEW pair \in attached',
                        m \in pair, pair \subseteq Found(m) \cup {m}
                 PROVE  FALSE
      BY <1>1, <1>2, <1>3, <1>4 DEF Prepared
    <2>1. faults = 0 /\ faults' = faults /\ pair \in attached
      BY <1>1 DEF CloudInv
    <2>2. CASE m = n
      BY <1>1, <2>1, <2>2
    <2>3. CASE m # n
      <3>1. m \in r.plan \ (r.pre \cup r.kept)
        BY <2>3 DEF P
      <3> QED
        BY <1>5, <2>1, <3>1 DEF RunOf, Prepared
    <2> QED
      BY <2>2, <2>3
  <1> QED
    BY <1>6, <1>7, <1>8 DEF RunOf

\* What clean does to the run of w and to the cloud, for one resource n of the level.
CleanEffect(w, n) ==
    /\ wk'[w].on = wk[w].on /\ wk'[w].plan = wk[w].plan /\ wk'[w].kept = wk[w].kept
    /\ wk'[w].pre = wk[w].pre /\ wk'[w].todo = wk[w].todo \ {n}
    /\ \A x \in Workers : x # w => wk'[x] = wk[x]
    /\ \/ /\ conf.mode # "on" \/ n \in wk[w].kept \/ phantom(n)
          /\ UNCHANGED <<status, faults>>
       \/ UNCHANGED faults /\ ~Deleted(n) /\ status' = status
       \/ /\ UNCHANGED faults /\ Deleted(n)
          /\ \/ status' = [status EXCEPT ![n] = "deleting"] /\ Class(n).delete = "later"
             \/ status' = [status EXCEPT ![n] = "gone"]
       \/ faults' = faults + 1 /\ status' = status

\* clean has one of these effects.
LEMMA CleanEffects ==
    ASSUME CleanInv, NEW w \in Workers, NEW n \in Nodes, clean(w, n)
    PROVE  CleanEffect(w, n) /\ UNCHANGED <<conf, attached, due>>
  <1> DEFINE r == wk[w]
             Q == r.todo \ {n}
             T == r.tried \cup {n}
             S == IF delete(n) THEN r.cleaned \cup {n} ELSE r.cleaned
             q == [r EXCEPT !.todo = Q]
             f == [r EXCEPT !.todo = Q, !.tried = T]
             d == [r EXCEPT !.todo = Q, !.tried = T, !.cleaned = S]
             later == IF Class(n).delete = "later" THEN "deleting" ELSE "gone"
             refused == conf.mode # "on" \/ n \in r.kept \/ phantom(n)
  <1>0. DOMAIN wk = Workers /\ Run(r)
    BY DEF CleanInv, Shape, Run
  <1>1. UNCHANGED <<conf, attached, due>>
    BY DEF clean
  <1>2. \/ wk' = [wk EXCEPT ![w] = q] /\ UNCHANGED <<status, faults>> /\ refused
        \/ /\ wk' = [wk EXCEPT ![w] = d] /\ UNCHANGED faults
           /\ status' = IF Deleted(n) THEN [status EXCEPT ![n] = later] ELSE status
        \/ wk' = [wk EXCEPT ![w] = f] /\ faults' = faults + 1 /\ status' = status
    BY DEF clean, unless_protected
  <1>3. \A x : x \in {q, f, d} => /\ x.on = r.on /\ x.plan = r.plan /\ x.kept = r.kept
                                  /\ x.pre = r.pre /\ x.todo = Q
    <2> HIDE DEF Q, T, S
    <2>1. r = [on |-> r.on, plan |-> r.plan, kept |-> r.kept, pre |-> r.pre, todo |-> r.todo,
               tried |-> r.tried, cleaned |-> r.cleaned]
      BY <1>0 DEF Run
    <2> HIDE DEF r
    <2> DEFINE t == [on |-> r.on, plan |-> r.plan, kept |-> r.kept, pre |-> r.pre, todo |-> Q,
                     tried |-> T, cleaned |-> r.cleaned]
    <2>2. q = [on |-> r.on, plan |-> r.plan, kept |-> r.kept, pre |-> r.pre, todo |-> Q,
               tried |-> r.tried, cleaned |-> r.cleaned]
      BY <2>1
    <2>3. f = [q EXCEPT !.tried = T] /\ d = [f EXCEPT !.cleaned = S]
      OBVIOUS
    <2> HIDE DEF q, f, d
    <2>4. f = t
      BY <2>2, <2>3
    <2>5. d = [t EXCEPT !.cleaned = S]
      BY <2>3, <2>4
    <2> QED
      BY <2>2, <2>4, <2>5
  <1> HIDE DEF q, f, d, refused, later
  <1>4. PICK x \in {q, f, d} : wk' = [wk EXCEPT ![w] = x]
    BY <1>2
  <1>5. wk'[w] = x /\ \A y \in Workers : y # w => wk'[y] = wk[y]
    BY <1>0, <1>4
  <1>6. /\ wk'[w].on = r.on /\ wk'[w].plan = r.plan /\ wk'[w].kept = r.kept
        /\ wk'[w].pre = r.pre /\ wk'[w].todo = Q
    BY <1>3, <1>4, <1>5
  <1> QED
    BY <1>1, <1>2, <1>5, <1>6 DEF CleanEffect, refused, later

\* The run has tried to delete n: what is in its way is tried already, if it is below n.
LEMMA RunDeletes ==
    ASSUME CleanInv, CloudInv, DueInv, NEW w \in Workers, NEW n \in Nodes, RunOf(w), clean(w, n)
    PROVE  RunOf(w)'
  <1>0. status \in [Nodes -> {"there", "deleting", "gone"}]
    BY DEF CleanInv, Shape
  <1>1. /\ wk[w].on /\ wk[w].pre = {} /\ n \in wk[w].todo
        /\ \A m \in wk[w].todo : DepthOf[conf][m] <= DepthOf[conf][n]
    BY DEF clean, InLevel
  <1>2. CleanEffect(w, n) /\ UNCHANGED <<conf, attached, due>>
    BY CleanEffects
  <1>3. /\ Nodes' = Nodes /\ \A m : Blockers(m)' = Blockers(m) /\ below(m)' = below(m)
        /\ \A m : Found(m)' = Found(m)
    BY <1>2, SameGraph
  <1>4. /\ wk'[w].on = wk[w].on /\ wk'[w].plan = wk[w].plan /\ wk'[w].kept = wk[w].kept
        /\ wk'[w].pre = wk[w].pre /\ wk'[w].todo = wk[w].todo \ {n}
    BY <1>2 DEF CleanEffect
  <1>5. faults \in Nat /\ (faults' = 0 => faults = 0)
    BY <1>2 DEF CloudInv, CleanEffect
  <1>6. Begun(w)'
    BY <1>1, <1>2, <1>3, <1>4 DEF RunOf, Begun
  <1>7. Prepared(w)'
    BY <1>2, <1>3, <1>4, <1>5 DEF RunOf, Prepared
  <1>8. \A m \in Nodes : m # n => status'[m] = status[m]
    BY <1>0, <1>2 DEF CleanEffect
  <1>9. ASSUME conf.workers = {w}, faults' = 0, conf.mode = "on", n \notin wk[w].kept, status'[n] = "there"
        PROVE  Reason(w, n)'
    <2>1. phantom(n) \/ (~Deleted(n) /\ status' = status)
      BY <1>0, <1>2, <1>5, <1>9 DEF CleanEffect
    <2>2. CASE phantom(n)
      BY <2>2 DEF Reason
    <2>3. CASE ~Deleted(n) /\ status' = status
      <3>1. \/ Class(n).delete = "never" \/ (n = "vpc" /\ n \in conf.active)
            \/ \E m \in Blockers(n) : status[m] # "gone"
            \/ \E pair \in attached : n \in pair
        BY <1>9, <2>3 DEF Deleted, Accepts
      <3>2. ASSUME NEW m \in Blockers(n), status[m] # "gone", m \in below(n), Class(m).delete = "call"
            PROVE  status[m] = "there" /\ m \notin wk[w].todo
        <4>1. m \in Nodes /\ status[m] # "deleting"
          BY <3>2 DEF CloudInv, Blockers
        <4>2. /\ DepthOf[conf][n] \in Nat /\ DepthOf[conf][m] \in Nat
              /\ DepthOf[conf][n] < DepthOf[conf][m]
          BY <3>2, DeeperBelow DEF DueInv
        <4>3. m \notin wk[w].todo
          BY <1>1, <4>2
        <4> QED
          BY <1>0, <3>2, <4>1, <4>3
      <3>3. CASE \E m \in Blockers(n) : status[m] # "gone"
        <4>1. PICK m \in Blockers(n) : status[m] # "gone"
          BY <3>3
        <4>2. m \notin below(n) \/ Class(m).delete # "call" \/ (status'[m] = "there" /\ m \notin wk'[w].todo)
          BY <1>4, <2>3, <3>2, <4>1
        <4> QED
          BY <1>3, <4>1, <4>2 DEF Reason
      <3> QED
        BY <1>2, <3>1, <3>3 DEF Reason
    <2> QED
      BY <2>1, <2>2, <2>3
  <1>10. Tried(w)'
    <2> SUFFICES ASSUME conf.workers = {w}, faults' = 0, conf.mode = "on",
                        NEW m \in wk[w].plan \ ((wk[w].todo \ {n}) \cup wk[w].kept), status'[m] = "there"
                 PROVE  Reason(w, m)'
      BY <1>2, <1>4 DEF Tried
    <2>1. CASE m = n
      BY <1>9, <2>1
    <2>2. CASE m # n
      <3>1. m \in Nodes /\ status[m] = "there" /\ m \notin wk[w].todo
        BY <1>8, <2>2 DEF RunOf, Begun
      <3>2. Reason(w, m)
        BY <1>1, <1>5, <3>1 DEF RunOf, Tried
      <3>3. \A k \in Blockers(m) : status[k] = "there" /\ k \notin wk[w].todo =>
                                   status'[k] = "there" /\ k \notin wk'[w].todo
        BY <1>1, <1>4, <1>8 DEF Blockers
      <3> QED
        BY <1>2, <1>3, <3>2, <3>3 DEF Reason
    <2> QED
      BY <2>1, <2>2
  <1> QED
    BY <1>6, <1>7, <1>10 DEF RunOf

\* No step brings an attachment back, or takes a deletion back.
LEMMA CloudStep ==
    ASSUME CleanInv, CloudInv, [Next]_vars
    PROVE  CloudInv' /\ conf' = conf /\ attached' \subseteq attached /\ (faults' = 0 => faults = 0)
  <1>0. faults \in Nat /\ status \in [Nodes -> {"there", "deleting", "gone"}]
    BY DEF CleanInv, Shape, CloudInv
  <1>1. ASSUME UNCHANGED <<conf, status, attached>>, faults' = faults \/ faults' = faults + 1
        PROVE  CloudInv' /\ conf' = conf /\ attached' \subseteq attached /\ (faults' = 0 => faults = 0)
    <2>1. Nodes' = Nodes
      BY <1>1 DEF Nodes
    <2> QED
      BY <1>0, <1>1, <2>1 DEF CloudInv
  <1>2. CASE next_step \/ UNCHANGED vars
    BY <1>1, <1>2 DEF next_step, vars
  <1>3. ASSUME NEW n \in Nodes, clean_command(n) \/ protect_command(n)
        PROVE  CloudInv' /\ conf' = conf /\ attached' \subseteq attached /\ (faults' = 0 => faults = 0)
    BY <1>1, <1>3 DEF clean_command, protect_command
  <1>4. CASE ByCommand
    BY <1>1, <1>4 DEF ByCommand, execute
  <1>5. ASSUME NEW p, do_action(p) \/ patch_nodes(p)
        PROVE  CloudInv' /\ conf' = conf /\ attached' \subseteq attached /\ (faults' = 0 => faults = 0)
    <2>1. UNCHANGED <<conf, status, attached, faults>>
      BY <1>5, Zenon DEF do_action, patch_nodes
    <2> QED
      BY <1>1, <2>1
  <1>6. ASSUME NEW w \in Workers, collect(w) \/ cleanup(w) \/ patch_cleaned(w) \/ crash(w)
        PROVE  CloudInv' /\ conf' = conf /\ attached' \subseteq attached /\ (faults' = 0 => faults = 0)
    <2>1. UNCHANGED <<conf, status, attached>> /\ (faults' = faults \/ faults' = faults + 1)
      BY <1>6, Zenon DEF collect, cleanup, patch_cleaned, crash
    <2> QED
      BY <1>1, <2>1
  <1>7. ASSUME NEW w \in Workers, NEW n \in Nodes, pre_clean(w, n)
        PROVE  CloudInv' /\ conf' = conf /\ attached' \subseteq attached /\ (faults' = 0 => faults = 0)
    <2>1. /\ UNCHANGED <<conf, status>> /\ attached' \subseteq attached
          /\ faults' = faults \/ faults' = faults + 1
      BY <1>7 DEF pre_clean
    <2>2. Nodes' = Nodes
      BY <2>1 DEF Nodes
    <2> QED
      BY <1>0, <2>1, <2>2 DEF CloudInv
  <1>8. ASSUME NEW w \in Workers, NEW n \in Nodes, clean(w, n)
        PROVE  CloudInv' /\ conf' = conf /\ attached' \subseteq attached /\ (faults' = 0 => faults = 0)
    <2>1. CleanEffect(w, n) /\ UNCHANGED <<conf, attached, due>>
      BY <1>8, CleanEffects
    <2>2. Nodes' = Nodes
      BY <2>1 DEF Nodes
    <2>3. \A m \in Nodes : status'[m] = "deleting" => Class(m).delete = "later"
      BY <1>0, <2>1 DEF CloudInv, CleanEffect
    <2>4. faults' \in Nat /\ (faults' = 0 => faults = 0)
      BY <1>0, <2>1 DEF CleanEffect
    <2> QED
      BY <2>1, <2>2, <2>3, <2>4 DEF CloudInv
  <1>9. ASSUME NEW n \in Nodes, Gone(n)
        PROVE  CloudInv' /\ conf' = conf /\ attached' \subseteq attached /\ (faults' = 0 => faults = 0)
    <2>1. UNCHANGED <<conf, attached, faults>> /\ status' = [status EXCEPT ![n] = "gone"]
      BY <1>9 DEF Gone
    <2>2. Nodes' = Nodes
      BY <2>1 DEF Nodes
    <2> QED
      BY <1>0, <2>1, <2>2 DEF CloudInv
  <1> QED
    BY <1>2, <1>3, <1>4, <1>5, <1>6, <1>7, <1>8, <1>9 DEF Next, run

\* The plugins and workers of the landscape keep their queues of messages.
LEMMA DueStep ==
    ASSUME DueInv, [Next]_vars
    PROVE  DueInv'
  <1>1. conf' = conf /\ DOMAIN due' = DOMAIN due
    <2>1. ASSUME NEW p, NEW step, Receives(p, step) PROVE DOMAIN due' = DOMAIN due
      BY <2>1 DEF Receives
    <2>2. CASE next_step
      BY <2>2 DEF next_step, Sent
    <2>3. CASE ByCommand
      BY <2>1, <2>3 DEF ByCommand, execute
    <2>4. ASSUME NEW p, do_action(p) \/ patch_nodes(p)
          PROVE  conf' = conf /\ ((\E step : Receives(p, step)) \/ due' = due)
      BY <2>4, Zenon DEF do_action, patch_nodes
    <2>5. ASSUME NEW n, clean_command(n) \/ protect_command(n) \/ Gone(n)
          PROVE  conf' = conf /\ due' = due
      BY <2>5 DEF clean_command, protect_command, Gone
    <2>6. ASSUME NEW w, collect(w) \/ cleanup(w) \/ patch_cleaned(w) \/ crash(w)
          PROVE  conf' = conf /\ ((\E step : Receives(w, step)) \/ due' = due)
      BY <2>6, Zenon DEF collect, cleanup, patch_cleaned, crash
    <2>7. ASSUME NEW w, NEW n, pre_clean(w, n) \/ clean(w, n)
          PROVE  conf' = conf /\ due' = due
      BY <2>7 DEF pre_clean, clean
    <2> QED
      BY <2>1, <2>2, <2>3, <2>4, <2>5, <2>6, <2>7 DEF Next, run, vars
  <1> QED
    BY <1>1 DEF DueInv

\* Every step keeps what is known of the runs: a worker changes its own run only, and
\* what is there is changed by workers of the landscape only.
LEMMA RunsStep ==
    ASSUME CleanInv, RunsInv, [Next]_vars
    PROVE  RunsInv'
  <1>0. /\ DOMAIN wk = Workers /\ status \in [Nodes -> {"there", "deleting", "gone"}]
        /\ CloudInv /\ DueInv /\ \A x \in Workers : RunOf(x)
    BY DEF CleanInv, Shape, RunsInv
  <1>1. CloudInv' /\ DueInv' /\ conf' = conf /\ attached' \subseteq attached /\ (faults' = 0 => faults = 0)
    BY <1>0, CloudStep, DueStep
  <1>2. ASSUME NEW x \in Workers PROVE RunOf(x)'
    <2>1. ASSUME wk'[x] = wk[x], attached' = attached,
                 \A n \in Nodes : status'[n] = "there" <=> status[n] = "there"
          PROVE  RunOf(x)'
      BY <1>0, <1>1, <2>1, RunKept
    <2>2. ASSUME NEW w \in Workers, w # x, wk'[x] = wk[x], w \in conf.workers
          PROVE  RunOf(x)'
      BY <1>0, <1>1, <2>2, RunKept
    <2>3. CASE Marks
      BY <2>1, <2>3 DEF Marks
    <2>4. ASSUME NEW n \in Nodes, Gone(n) PROVE RunOf(x)'
      <3>1. /\ status[n] = "deleting" /\ status' = [status EXCEPT ![n] = "gone"]
            /\ UNCHANGED <<attached, wk>>
        BY <2>4 DEF Gone
      <3> QED
        BY <1>0, <2>1, <3>1
    <2>5. ASSUME NEW w \in Workers, cleanup(w) PROVE RunOf(x)'
      <3>1. CASE w = x
        BY <1>0, <2>5, <3>1, RunBegins
      <3>2. CASE w # x
        <4>1. PICK r : wk' = [wk EXCEPT ![w] = r]
          BY <2>5, Zenon DEF cleanup
        <4>2. UNCHANGED <<status, attached>>
          BY <2>5, Zenon DEF cleanup
        <4> QED
          BY <1>0, <2>1, <3>2, <4>1, <4>2
      <3> QED
        BY <3>1, <3>2
    <2>6. ASSUME NEW w \in Workers, patch_cleaned(w) \/ crash(w) PROVE RunOf(x)'
      <3>1. wk' = [wk EXCEPT ![w] = NoRun] /\ UNCHANGED <<status, attached>>
        BY <2>6 DEF patch_cleaned, crash
      <3>2. CASE w = x
        BY <1>0, <3>1, <3>2, RunEnds
      <3>3. CASE w # x
        BY <1>0, <2>1, <3>1, <3>3
      <3> QED
        BY <3>2, <3>3
    <2>7. ASSUME NEW w \in Workers, NEW n \in Nodes, pre_clean(w, n) PROVE RunOf(x)'
      <3>1. CASE w = x
        BY <1>0, <2>7, <3>1, RunPrepares
      <3>2. CASE w # x
        <4>1. PICK r : wk' = [wk EXCEPT ![w] = r]
          BY <2>7 DEF pre_clean
        <4>2. w \in conf.workers
          BY <1>0, <2>7 DEF pre_clean, RunOf, Begun
        <4> QED
          BY <1>0, <2>2, <3>2, <4>1, <4>2
      <3> QED
        BY <3>1, <3>2
    <2>8. ASSUME NEW w \in Workers, NEW n \in Nodes, clean(w, n) PROVE RunOf(x)'
      <3>1. CASE w = x
        BY <1>0, <2>8, <3>1, RunDeletes
      <3>2. CASE w # x
        <4>1. wk'[x] = wk[x]
          BY <2>8, <3>2, CleanEffects DEF CleanEffect
        <4>2. w \in conf.workers
          BY <1>0, <2>8 DEF clean, RunOf, Begun
        <4> QED
          BY <2>2, <3>2, <4>1, <4>2
      <3> QED
        BY <3>1, <3>2
    <2> QED
      BY <2>3, <2>4, <2>5, <2>6, <2>7, <2>8, StepKind DEF Works
  <1> QED
    BY <1>1, <1>2 DEF RunsInv

\* Before the first step no worker has a run.
LEMMA RunsInit ==
    ASSUME Init
    PROVE  RunsInv
  <1>1. /\ conf \in Confs /\ attached = {pair \in Attachable : pair \subseteq Nodes} /\ faults = 0
        /\ status = [n \in Nodes |-> IF Terminated(n) THEN "gone" ELSE "there"]
        /\ DOMAIN due = conf.plugins \cup conf.workers /\ wk = [w \in Workers |-> NoRun]
    BY DEF Init
  <1>2. CloudInv
    BY <1>1 DEF CloudInv
  <1>3. DueInv
    BY <1>1 DEF DueInv
  <1>4. ASSUME NEW w \in Workers PROVE RunOf(w)
    <2>1. wk[w].on = FALSE /\ wk[w].pre = {} /\ wk[w].plan = {}
      BY <1>1 DEF NoRun
    <2> QED
      BY <2>1 DEF RunOf, Begun, Prepared, Tried
  <1> QED
    BY <1>2, <1>3, <1>4 DEF RunsInv

\* An attachment a pre_delete method can undo is one that the method looks for.
LEMMA Looks ==
    ASSUME NEW pair \in Attachable, NEW m \in pair, pair \subseteq Found(m) \cup {m}
    PROVE  Class(m).look # "nowhere"
  <1> SUFFICES ASSUME Class(m).look = "nowhere" PROVE FALSE
    OBVIOUS
  <1>1. Found(m) = {}
    BY DEF Found
  <1>2. pair = {m}
    BY <1>1
  <1>3. m = "security_group"
    BY <1>2 DEF Attachable
  <1>4. Class("security_group").look = "cloud"
    BY DEF Class, AWSEC2SecurityGroup, Tags, Detaches, Deletes
  <1> QED
    BY <1>3, <1>4

\* Of the resources a run has tried, consider the deepest that is there and could have
\* been deleted: what blocked it is deeper, was tried as well and is there.
LEMMA OneRunFact ==
    ASSUME CleanInv, RunsInv
    PROVE  OneRunSuffices
  <1> SUFFICES ASSUME NEW w \in Workers, conf.workers = {w}, wk[w].on, wk[w].pre = {}, faults = 0,
                      NEW n \in wk[w].plan \ (wk[w].todo \cup wk[w].kept), status[n] = "there",
                      Ready(n, wk[w].plan \ wk[w].kept),
                      \A m \in InTheWay(n) : \A k \in Blockers(m) : k \in below(m) /\ Class(k).delete = "call"
               PROVE  FALSE
    BY DEF OneRunSuffices
  <1> DEFINE next == [m \in Nodes |-> Blockers(m) \cup UNION {pair \in attached : m \in pair}]
             S == InTheWay(n)
             T == {m \in S : status[m] = "there"}
             L == T \ wk[w].todo
             D(x) == DepthOf[conf][x]
             k == Cardinality(Nodes)
  <1>0. conf \in Confs /\ IsFiniteSet(Nodes) /\ n \in Nodes /\ wk[w].plan \subseteq Nodes
    BY LandscapeAssumption DEF RunsInv, DueInv, RunOf, Begun, Nodes
  <1>1. /\ conf.mode = "on" /\ T \subseteq wk[w].plan \ wk[w].kept /\ Detachable(T)
        /\ \A m \in T : ~phantom(m) /\ Class(m).delete # "never" /\ ~(m = "vpc" /\ m \in conf.active)
    BY DEF Ready
  <1>2. /\ S \in SUBSET Nodes /\ n \in S
        /\ \A m \in S : Blockers(m) \subseteq S /\ \A pair \in attached : m \in pair => pair \subseteq S
    <2>1. next \in [Nodes -> SUBSET Nodes]
      BY DEF Blockers, RunsInv, CloudInv
    <2>2. S = ReachedFrom(Nodes, next, {n})
      BY DEF InTheWay
    <2> HIDE DEF next, S
    <2>3. S \in SUBSET Nodes /\ n \in S /\ ClosedUnder(next, S)
      BY <1>0, <2>1, <2>2, ReachedFact
    <2> QED
      BY <2>3 DEF ClosedUnder, next
  <1> HIDE DEF S
  <1>3. ASSUME NEW x \in T, NEW pair \in attached, x \in pair PROVE FALSE
    <2>1. PICK m \in pair \cap T : pair \subseteq Found(m) \cup {m}
      BY <1>1, <1>3 DEF Detachable
    <2>2. Class(m).look # "nowhere"
      BY <1>3, <2>1, Looks DEF RunsInv, CloudInv
    <2>3. m \in wk[w].plan \ (wk[w].pre \cup wk[w].kept)
      BY <1>1, <2>1
    <2> QED
      BY <1>1, <1>3, <2>1, <2>2, <2>3 DEF RunsInv, RunOf, Prepared
  <1>4. ASSUME NEW x \in L
        PROVE  \E m \in L : m \in below(x)
    <2>1. x \in wk[w].plan \ (wk[w].todo \cup wk[w].kept) /\ status[x] = "there"
      BY <1>1
    <2>2. Reason(w, x)
      BY <1>1, <2>1 DEF RunsInv, RunOf, Tried
    <2>3. PICK m \in Blockers(x) : \/ m \notin below(x) \/ Class(m).delete # "call"
                                   \/ status[m] = "there" /\ m \notin wk[w].todo
      BY <1>1, <1>3, <2>2 DEF Reason
    <2>4. m \in S /\ m \in below(x) /\ Class(m).delete = "call"
      BY <1>2, <2>3 DEF S
    <2> QED
      BY <2>3, <2>4
  <1>5. \A x \in L : \E m \in L : D(x) \in Nat /\ D(m) \in Nat /\ D(x) < D(m)
    BY <1>0, <1>2, <1>4, DeeperBelow
  <1>6. \A x \in L : D(x) \in 0..k
    BY <1>0, <1>2, DepthBound
  <1>7. n \in L /\ k \in Nat
    BY <1>0, <1>2, FS_CardinalityType
  <1> DEFINE H == {D(x) : x \in L}
  <1> HIDE DEF D, k, L
  <1>8. H \in SUBSET (0..k) /\ H # {}
    BY <1>6, <1>7
  <1>9. Max(H) \in H /\ \A y \in H : y <= Max(H)
    BY <1>7, <1>8, GreatestNumber
  <1>10. PICK x \in L : Max(H) = D(x)
    BY <1>9
  <1>11. PICK m \in L : D(x) \in Nat /\ D(m) \in Nat /\ D(x) < D(m)
    BY <1>5
  <1>12. D(m) <= D(x)
    BY <1>9, <1>10
  <1> QED
    BY <1>11, <1>12

-----------------------------------------------------------------------------
(* Theorems *)

\* The invariant holds in every state of the cleanup: of whatever a worker or the
\* core takes for deleted, the cloud has accepted the deletion.
THEOREM CleanInvariant == Spec => []CleanInv
  <1>1. Init => CleanInv
    BY InitFact
  <1>2. CleanInv /\ [Next]_vars => CleanInv'
    BY StepKind, MarksStep, WorksStep
  <1> QED
    BY <1>1, <1>2, PTL DEF Spec

\* The core takes a resource for cleaned only if it is no longer there: patch_cleaned
\* tells the core of no deletion that failed or was refused.
THEOREM CleanedResourcesAreGone == Spec => []CleanedIsGone
  <1>1. CleanInv => CleanedIsGone
    BY DEF CleanInv, GoneInv, CleanedIsGone
  <1> QED
    BY <1>1, CleanInvariant, PTL

\* A protected resource stays until a collect takes the protection back: every run reads
\* the flag before it deletes, and whatever was read without it is named by Safe.
THEOREM ProtectedResourcesStay == Spec => ProtectedStays
  <1>1. ASSUME CleanInv, [Next]_vars
        PROVE  [\A n \in Protectable : Safe(n) =>
                  Safe(n)' \/ (n \notin core'.protected /\ \E w \in Workers : collect(w))]_vars
    <2> SUFFICES ASSUME NEW n \in Protectable, Safe(n), ~Safe(n)'
                 PROVE  n \notin core'.protected /\ \E w \in Workers : collect(w)
      OBVIOUS
    <2>1. n \notin core'.protected
      BY <1>1, SafeStep
    <2> QED
      BY <1>1, <2>1, FlagStays DEF Safe
  <1> QED
    BY <1>1, CleanInvariant, PTL DEF Spec, ProtectedStays

\* The invariant of the order in which a run deletes: whatever it has prepared is
\* detached, and whatever it has tried in vain was blocked by something that is out of
\* its reach or that it has tried before.
THEOREM OrderInvariant == Spec => []RunsInv
  <1>1. Init => RunsInv
    BY RunsInit
  <1>2. CleanInv /\ RunsInv /\ [Next]_vars => RunsInv'
    BY RunsStep
  <1> QED
    BY <1>1, <1>2, CleanInvariant, PTL DEF Spec

\* One run of the only worker deletes whatever can be deleted, if what blocks a resource
\* is below it: for every graph without cycles the levels Cleaner.cleanup goes through,
\* the longest walks from the root, are an order in which the cloud accepts the deletions.
THEOREM OneRunIsEnough == Spec => []OneRunSuffices
  <1>1. CleanInv /\ RunsInv => OneRunSuffices
    BY OneRunFact
  <1> QED
    BY <1>1, CleanInvariant, OrderInvariant, PTL

=============================================================================
