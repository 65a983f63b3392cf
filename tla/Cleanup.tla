------------------------------- MODULE Cleanup -------------------------------
(***************************************************************************)
(* Cleaning up resources.  The workers collect what is in the cloud; users *)
(* and plugins mark resources in the core; in the cleanup step of the      *)
(* workflow every worker reads the marked ones with the graph around them, *)
(* prepares all of them for their deletion, deletes them level by level    *)
(* from the bottom of the graph, and tells the core what became of them.   *)
(*                                                                         *)
(* The steps of the workflow wait for the plugins and workers they start,  *)
(* but not for ever: one that takes too long still reads and writes later. *)
(* The graph of a landscape is what the collectors of its cloud make of    *)
(* the kinds present in it; the cloud decides which deletions it accepts.  *)
(***************************************************************************)
EXTENDS AwsResources, FiniteSets, FiniteSetsExt, SequencesExt

CONSTANTS
    Confs,      \* landscapes: kinds present and their attributes, plugins switched on
    Workers,    \* workers that are connected to the core
    MaxFaults   \* bound on failed calls to the cloud, crashes and steps that time out

ASSUME CleanupAssumption ==
    MaxFaults \in Nat /\ Workers # {} /\ \A c \in Confs : c.plugins \cap Workers = {}

VARIABLES
    conf,       \* the landscape
    core,       \* flags in the core: the resources marked clean, protected and cleaned
    stored,     \* resources in the graph of the core
    status,     \* status[n]: "there", "deleting" or "gone" in the cloud
    attached,   \* pairs of resources that are attached to each other in the cloud
    phase,      \* the step of the workflow
    due,        \* due[p]: the messages of the core a plugin or worker has not yet read
    pl,         \* pl[p]: what a plugin that has read the graph is going to patch
    wk,         \* wk[w]: the run of a worker
    faults      \* number of faults so far

vars == <<conf, core, stored, status, attached, phase, due, pl, wk, faults>>

Aws == INSTANCE AwsCollectors
Gcp == INSTANCE GcpCollectors

-----------------------------------------------------------------------------
(* The graph of a landscape *)

collectors(c) ==
    IF c.cloud = "aws" THEN Aws!global_collectors \o Aws!region_collectors
    ELSE Gcp!mandatory_collectors \o Gcp!project_collectors

KindsOf(ops) == UNION {About(ops[i]) : i \in DOMAIN ops}

\* A cloud without region and zone: everything is below the root of the account.
landscape(c) ==
    LET cs  == collectors(c)
        ops == FlattenSeq([i \in DOMAIN cs |-> cs[i].ops])
    IN  resolve_deferred_connections(
          Collected(EmptyGraph(Root), ops, (KindsOf(ops) \ {Root}) \ c.present))

GraphOf == [c \in Confs |-> landscape(c)]

\* Levels(c)[d]: the nodes that are reached from the root in d steps
Levels(c) ==
    LET Level[d \in Nat] == IF d = 0 THEN {Root}
                            ELSE UNION {successors(GraphOf[c], m) : m \in Level[d - 1]}
    IN  Level

Depths(c, n) == {d \in 0..Cardinality(GraphOf[c].nodes) : n \in Levels(c)[d]}

\* Mutation: the depth of a node is its distance from the root.
ShortestDepth(c, n) == Min(Depths(c, n))

\* set_max_depth: the longest walk from the root to n counts.
max_graph_depth(c, n) == Max(Depths(c, n))

DepthOf == [c \in Confs |-> [n \in GraphOf[c].nodes |-> max_graph_depth(c, n)]]

\* The walk of set_max_depth ends and comes to every node: collectors hand over rooted
\* graphs without cycles.
ASSUME LandscapeAssumption ==
    \A c \in Confs :
        LET g == GraphOf[c]
        IN  /\ IsFiniteSet(g.nodes) /\ g.edges \subseteq g.nodes \X g.nodes
            /\ Root \in g.nodes /\ Levels(c)[Cardinality(g.nodes)] = {}
            /\ \A n \in g.nodes : Depths(c, n) # {}

Nodes == GraphOf[conf].nodes
below(n) == descendants(GraphOf[conf], n) \ {n}
predecessors(n) == {m \in Nodes : <<m, n>> \in GraphOf[conf].edges}

-----------------------------------------------------------------------------
(* The cloud *)

\* What has to be gone before n can be deleted
Blockers(n) == {m \in Nodes : <<m, n>> \in Blocks}

Accepts(n) ==
    /\ status[n] = "there"
    /\ \A m \in Blockers(n) : status[m] = "gone"
    /\ \A pair \in attached : n \in pair => \E m \in pair \ {n} : status[m] = "gone"

Terminated(n) == n = "instance" /\ n \notin conf.active

\* What the pre_delete method of n finds to detach
Found(n) ==
    LET c == Class(n)
    IN  CASE c.look = "nowhere" -> {}
          [] c.look = "cloud" -> c.kinds
          [] c.look = "above" -> c.kinds \cap predecessors(n)
          [] c.look = "below" -> c.kinds \cap successors(GraphOf[conf], n)

-----------------------------------------------------------------------------
(* Workflow *)

Steps == <<"collect", "post_collect", "cleanup_plan", "post_cleanup_plan", "cleanup">>

\* The action each plugin subscribes to
action ==
    [protect_snowflakes |-> "post_collect", cleanup_expired |-> "cleanup_plan",
     cleanup_untagged |-> "cleanup_plan", cleanup_volumes |-> "cleanup_plan",
     cleanup_aws_loadbalancers |-> "cleanup_plan", cleanup_aws_alarms |-> "cleanup_plan",
     cleanup_aws_vpcs |-> "post_cleanup_plan"]

Subscribers(step) ==
    IF step \in {"collect", "cleanup"} THEN conf.workers ELSE {p \in conf.plugins : action[p] = step}

\* due after every subscriber of the step was sent its message
Sent(step) ==
    [p \in DOMAIN due |-> IF p \in Subscribers(step) THEN Append(due[p], step) ELSE due[p]]

Receives(p, step) ==
    /\ p \in DOMAIN due /\ due[p] # <<>> /\ Head(due[p]) = step
    /\ due' = [due EXCEPT ![p] = Tail(@)]

Idle == [busy |-> FALSE, clean |-> {}, keep |-> {}]
NoRun == [on |-> FALSE, plan |-> {}, kept |-> {}, pre |-> {}, todo |-> {}, tried |-> {}, cleaned |-> {}]

Answered(p) == due[p] = <<>> /\ IF p \in Workers THEN ~wk[p].on ELSE ~pl[p].busy

Init ==
    /\ conf \in Confs
    /\ core = [clean |-> {}, protected |-> {}, cleaned |-> {}]
    /\ stored = Nodes
    /\ status = [n \in Nodes |-> IF Terminated(n) THEN "gone" ELSE "there"]
    /\ attached = {pair \in Attachable : pair \subseteq Nodes}
    /\ phase = 1
    /\ due = [p \in conf.plugins \cup conf.workers |->
                IF p \in Subscribers(Steps[1]) THEN <<Steps[1]>> ELSE <<>>]
    /\ pl = [p \in conf.plugins |-> Idle]
    /\ wk = [w \in Workers |-> NoRun]
    /\ faults = 0

\* The next step starts when all have answered, or when the step has timed out.
next_step ==
    LET next == (phase % Len(Steps)) + 1
        late == \E p \in Subscribers(Steps[phase]) : ~Answered(p)
    IN  /\ phase' = next
        /\ due' = Sent(Steps[next])
        /\ IF late THEN faults < MaxFaults /\ faults' = faults + 1 ELSE UNCHANGED faults
        /\ UNCHANGED <<conf, core, stored, status, attached, pl, wk>>

\* What w has collected replaces the graph in the core.  Of a resource that has changed
\* the metadata is replaced, and no collector knows of flags; the mark is not part of it.
\* What is gone may still be found: a terminated instance, or what was deleted meanwhile.
collect(w) ==
    /\ ~wk[w].on /\ Receives(w, "collect")
    /\ \/ \E found \in SUBSET {n \in stored : status[n] = "gone"},
            changed \in SUBSET (core.protected \cup core.cleaned) :
              LET here == {n \in stored : status[n] # "gone"} \cup found
              IN  /\ stored' = here
                  /\ core' = [clean     |-> core.clean \cap here,
                               protected |-> (core.protected \cap here) \ changed,
                               cleaned   |-> (core.cleaned \cap here) \ changed]
                  /\ UNCHANGED faults
       \/ /\ faults < MaxFaults /\ faults' = faults + 1
          /\ UNCHANGED <<core, stored>>
    /\ UNCHANGED <<conf, status, attached, phase, pl, wk>>

-----------------------------------------------------------------------------
(* Users and plugins that mark by a command of the core *)

clean_command(n) ==
    /\ n \in (conf.doomed \cap stored) \ core.clean
    /\ core' = [core EXCEPT !.clean = @ \cup {n}]
    /\ UNCHANGED <<conf, stored, status, attached, phase, due, pl, wk, faults>>

protect_command(n) ==
    /\ n \in (conf.precious \cap stored) \ core.protected
    /\ core' = [core EXCEPT !.protected = @ \cup {n}]
    /\ UNCHANGED <<conf, stored, status, attached, phase, due, pl, wk, faults>>

expired == conf.expired
untagged == {n \in conf.untagged : n \notin core.protected \cup core.cleaned /\ ~phantom(n)}
snowflakes == conf.snowflakes

execute(p, section, nodes) ==
    /\ p \in conf.plugins /\ Receives(p, action[p])
    /\ core' = [core EXCEPT ![section] = @ \cup (nodes \cap stored)]
    /\ UNCHANGED <<conf, stored, status, attached, phase, pl, wk, faults>>

ByCommand ==
    \/ execute("cleanup_expired", "clean", expired)
    \/ execute("cleanup_untagged", "clean", untagged)
    \/ execute("protect_snowflakes", "protected", snowflakes)

-----------------------------------------------------------------------------
(* Plugins that read the graph and patch the nodes they change *)

volumes_cleanup == {"volume"} \ conf.active

\* Instances above n that are not terminated
Serves(n) == {i \in predecessors(n) \cap stored : i = "instance" /\ ~Terminated(i)}

orphaned(n) ==
    CASE n = "elb" -> Serves(n) = {} /\ n \notin conf.active
      [] n = "alb" -> "target_group" \notin predecessors(n) \cap stored /\ n \notin conf.active
      [] n = "target_group" -> successors(GraphOf[conf], n) \cap stored = {}

\* An ALB whose target groups have no instances goes with its target groups.
unused_alb ==
    LET groups == predecessors("alb") \cap stored \cap {"target_group"}
    IN  IF "alb" \notin conf.active /\ (\A g \in groups : g \notin conf.active /\ Serves(g) = {})
        THEN groups \cup {"alb"} ELSE {}

loadbalancer_cleanup ==
    {n \in {"elb", "alb", "target_group"} \cap stored : orphaned(n)}
      \cup (IF "alb" \in stored THEN unused_alb ELSE {})

alarm_cleanup ==
    IF "instance" \in stored /\ ~Terminated("instance") THEN {} ELSE {"alarm"} \ core.protected

\* Resources the plugin takes away together with their VPC
TargetsOfVpc ==
    {"vpc_peering", "network_acl", "network_interface", "elb", "alb", "target_group", "subnet",
     "security_group", "internet_gateway", "nat_gateway", "route_table", "vpc_endpoint", "elastic_ip"}

vpc_instances ==
    {i \in below("vpc") \cap stored : i = "instance" /\ ~Terminated(i) /\ i \notin core.clean}

vpc_cleanup ==
    IF "vpc" \notin core.clean \ (core.cleaned \cup core.protected) THEN [mark |-> {}, unmark |-> {}]
    ELSE IF vpc_instances # {} THEN [mark |-> {}, unmark |-> {"vpc"}]
    ELSE [mark |-> below("vpc") \cap TargetsOfVpc, unmark |-> {}]

Decision(p) ==
    CASE p = "cleanup_volumes" -> [mark |-> volumes_cleanup, unmark |-> {}]
      [] p = "cleanup_aws_loadbalancers" -> [mark |-> loadbalancer_cleanup, unmark |-> {}]
      [] p = "cleanup_aws_alarms" -> [mark |-> alarm_cleanup, unmark |-> {}]
      [] p = "cleanup_aws_vpcs" -> vpc_cleanup

ByGraph == {"cleanup_volumes", "cleanup_aws_loadbalancers", "cleanup_aws_alarms", "cleanup_aws_vpcs"}

\* BaseResource.clean: the setter does nothing on a protected resource.
do_action(p) ==
    /\ ~pl[p].busy /\ Receives(p, action[p])
    /\ pl' = [pl EXCEPT ![p] = [busy  |-> TRUE,
                                clean |-> (Decision(p).mark \cap stored) \ core.protected,
                                keep  |-> Decision(p).unmark \ core.protected]]
    /\ UNCHANGED <<conf, core, stored, status, attached, phase, wk, faults>>

\* Only attributes that were set are sent: other flags stay as they are in the core.
patch_nodes(p) ==
    /\ pl[p].busy
    /\ core' = [core EXCEPT !.clean = (@ \cup (pl[p].clean \cap stored)) \ pl[p].keep]
    /\ pl' = [pl EXCEPT ![p] = Idle]
    /\ UNCHANGED <<conf, stored, status, attached, phase, due, wk, faults>>

-----------------------------------------------------------------------------
(* The run of a worker *)

\* cleanup: reads the marked nodes with all that is above and below them.
cleanup(w) ==
    LET plan == (core.clean \cap Nodes) \ core.cleaned
    IN  /\ ~wk[w].on /\ Receives(w, "cleanup")
        /\ wk' = [wk EXCEPT ![w] =
                    IF conf.mode = "off" \/ plan = {} THEN NoRun
                    ELSE [NoRun EXCEPT !.on = TRUE, !.plan = plan, !.kept = core.protected,
                                       !.pre = {n \in plan : Class(n).look # "nowhere"},
                                       !.todo = plan]]
        /\ UNCHANGED <<conf, core, stored, status, attached, phase, pl, faults>>

\* Mutation: protected resources are not refused.
UnlessNothing(w, n) == TRUE

\* The flag is the one the run has read.
unless_protected(w, n) == n \notin wk[w].kept

\* Mutation: pre_delete is left out.
PreCleanSkipped(w, n) ==
    /\ n \in wk[w].pre
    /\ wk' = [wk EXCEPT ![w].pre = @ \ {n}]
    /\ UNCHANGED <<conf, core, stored, status, attached, phase, due, pl, faults>>

pre_clean(w, n) ==
    /\ n \in wk[w].pre
    /\ wk' = [wk EXCEPT ![w].pre = @ \ {n}]
    /\ \/ /\ conf.mode = "on" /\ unless_protected(w, n)
          /\ attached' = {pair \in attached : ~(n \in pair /\ pair \subseteq Found(n) \cup {n})}
          /\ UNCHANGED faults
       \/ /\ conf.mode # "on" \/ ~unless_protected(w, n)
          /\ UNCHANGED <<attached, faults>>
       \/ /\ faults < MaxFaults /\ faults' = faults + 1
          /\ UNCHANGED attached
    /\ UNCHANGED <<conf, core, stored, status, phase, due, pl>>

\* The cloud is asked to delete n and accepts.  A class without a delete method and
\* a default VPC refuse themselves.
Deleted(n) ==
    Class(n).delete # "never" /\ ~(n = "vpc" /\ n \in conf.active) /\ Accepts(n)

\* Mutation: delete does not report that the cloud refused.
AlwaysTrue(n) == TRUE

\* Of a terminated instance nothing is left to delete.
delete(n) == Terminated(n) \/ Deleted(n)

\* All of a level are deleted before the next level above it is begun.
InLevel(w) ==
    {n \in wk[w].todo : \A m \in wk[w].todo : DepthOf[conf][m] <= DepthOf[conf][n]}

clean(w, n) ==
    /\ wk[w].on /\ wk[w].pre = {} /\ n \in InLevel(w)
    /\ LET r       == wk[w]
           refused == conf.mode # "on" \/ ~unless_protected(w, n) \/ phantom(n)
           failed  == ~refused /\ faults < MaxFaults /\ ~Terminated(n)
       IN  \/ /\ refused
              /\ wk' = [wk EXCEPT ![w].todo = @ \ {n}]
              /\ UNCHANGED <<status, faults>>
           \/ /\ ~refused
              /\ wk' = [wk EXCEPT ![w] =
                          [r EXCEPT !.todo = r.todo \ {n}, !.tried = r.tried \cup {n},
                                    !.cleaned = IF delete(n) THEN r.cleaned \cup {n} ELSE r.cleaned]]
              /\ status' = IF Deleted(n)
                           THEN [status EXCEPT ![n] = IF Class(n).delete = "later" THEN "deleting"
                                                      ELSE "gone"]
                           ELSE status
              /\ UNCHANGED faults
           \/ /\ failed
              /\ wk' = [wk EXCEPT ![w] = [r EXCEPT !.todo = r.todo \ {n}, !.tried = r.tried \cup {n}]]
              /\ faults' = faults + 1
              /\ UNCHANGED status
    /\ UNCHANGED <<conf, core, stored, attached, phase, due, pl>>

\* The flag "cleaned" of every resource whose deletion was tried, successful or not
patch_cleaned(w) ==
    /\ wk[w].on /\ wk[w].pre = {} /\ wk[w].todo = {}
    /\ core' = [core EXCEPT !.cleaned = (@ \ wk[w].tried) \cup (wk[w].cleaned \cap stored)]
    /\ wk' = [wk EXCEPT ![w] = NoRun]
    /\ UNCHANGED <<conf, stored, status, attached, phase, due, pl, faults>>

\* The worker is restarted, or the core does not take its patch.
crash(w) ==
    /\ wk[w].on /\ faults < MaxFaults
    /\ wk' = [wk EXCEPT ![w] = NoRun]
    /\ faults' = faults + 1
    /\ UNCHANGED <<conf, core, stored, status, attached, phase, due, pl>>

\* The cloud completes a deletion it has accepted.
Gone(n) ==
    /\ status[n] = "deleting"
    /\ status' = [status EXCEPT ![n] = "gone"]
    /\ UNCHANGED <<conf, core, stored, attached, phase, due, pl, wk, faults>>

run(w) == collect(w) \/ cleanup(w) \/ (\E n \in Nodes : pre_clean(w, n) \/ clean(w, n)) \/ patch_cleaned(w)

Next ==
    \/ next_step
    \/ \E n \in Nodes : clean_command(n) \/ protect_command(n) \/ Gone(n)
    \/ ByCommand
    \/ \E p \in conf.plugins \cap ByGraph : do_action(p) \/ patch_nodes(p)
    \/ \E w \in Workers : run(w) \/ crash(w)

\* The workflow is triggered every hour and its steps end by their timeout at the
\* latest; plugins, workers and the cloud go on unless they fail.
Fairness ==
    /\ WF_vars(next_step)
    /\ WF_vars(ByCommand)
    /\ WF_vars(\E p \in conf.plugins \cap ByGraph : do_action(p) \/ patch_nodes(p))
    /\ \A w \in Workers : WF_vars(run(w))
    /\ WF_vars(\E n \in Nodes : Gone(n))

Spec == Init /\ [][Next]_vars /\ Fairness

-----------------------------------------------------------------------------
(* Properties *)

\* Whoever is in the way of n, and in the way of them
InTheWay(n) ==
    ReachedFrom(Nodes, [m \in Nodes |-> Blockers(m) \cup UNION {pair \in attached : m \in pair}], {n})

\* Every attachment among S is undone by the pre_delete method of one of them.
Detachable(S) == \A pair \in attached : pair \cap S # {} => \E m \in pair \cap S : pair \subseteq Found(m) \cup {m}

\* n and all that is in its way are to be deleted, and can be.
Ready(n, doomed) ==
    LET S == {m \in InTheWay(n) : status[m] = "there"}
    IN  /\ conf.mode = "on"
        /\ S \subseteq doomed
        /\ \A m \in S : ~phantom(m) /\ Class(m).delete # "never" /\ ~(m = "vpc" /\ m \in conf.active)
        /\ Detachable(S)

Protectable == UNION {c.precious \cup c.snowflakes : c \in Confs}
There(n) == n \in Nodes => status[n] = "there"

\* n is protected, and no run has still to come to it that has read it without protection.
Safe(n) ==
    n \in core.protected /\ There(n) /\ \A w \in Workers : n \notin wk[w].todo \ wk[w].kept

\* A resource that is protected stays until a collect takes the protection back: whatever
\* marks it, whatever runs are under way and whatever is patched late, no run deletes
\* it, unless the run has read it before it was protected.
ProtectedStays ==
    [][\A n \in Protectable :
         Safe(n) => Safe(n)' \/ (n \notin core'.protected /\ \E w \in Workers : collect(w))]_vars

\* The same without the exception for collects: a resource that was protected while no
\* run was under way is never deleted, as the documentation of protect_snowflakes has it.
ProtectedForEver ==
    \A n \in Protectable :
        []((n \in core.protected /\ There(n) /\ \A w \in Workers : ~wk[w].on) => []There(n))

\* The core takes a resource for cleaned only if the cloud has accepted its
\* deletion: after failed calls, crashes and two workers at it at the same time.
CleanedIsGone == \A n \in core.cleaned : status[n] # "there"

\* One run of the only worker is enough for resources that can be deleted, if what is in
\* their way is part of the run and can be deleted, and whatever blocks a resource is
\* below it in the graph and gone as soon as it is deleted: the levels of the plan are
\* an order in which the cloud accepts the deletions.
OneRunSuffices ==
    \A w \in Workers :
        conf.workers = {w} /\ wk[w].on /\ wk[w].pre = {} /\ faults = 0 =>
          \A n \in wk[w].plan \ (wk[w].todo \cup wk[w].kept) :
              ~( /\ status[n] = "there" /\ Ready(n, wk[w].plan \ wk[w].kept)
                 /\ \A m \in InTheWay(n) : \A k \in Blockers(m) :
                        k \in below(m) /\ Class(k).delete = "call" )

\* Marked resources that are still there although nothing protected or unmarked is
\* in their way
Pending == {n \in core.clean \cap Nodes : status[n] # "gone" /\ Ready(n, core.clean \ core.protected)}

\* What is marked, with everything in its way marked as well, is removed in this
\* cleanup or in a later one: again and again nothing is left to be done.
MarkedIsRemoved == []<>(Pending = {})
=============================================================================
