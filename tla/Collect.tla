------------------------------- MODULE Collect -------------------------------
(***************************************************************************)
(* A collect run of a worker, from the collectors of the clouds up to the  *)
(* graph the core accepts.  Every collector plugin runs in a thread of its *)
(* own and collects its accounts in parallel; an account of AWS collects   *)
(* its regions in parallel.  Each of these threads builds a graph nobody   *)
(* else sees, so collecting it is one step; the graphs are merged in the   *)
(* order in which the threads complete.                                    *)
(*                                                                         *)
(* A collector that fails leaves the steps it has taken until then in its  *)
(* graph.  What the failure costs differs: the rest of the collector (AWS, *)
(* GCP), the region (AWS, not authorized), the account (Kubernetes, GCP    *)
(* after its retries) or the plugin.                                       *)
(***************************************************************************)
EXTENDS GraphAccess, SequencesExt

CONSTANTS
    Confs,         \* configurations: clouds to collect, kinds that are absent in
                   \* them, collectors switched off, kind to merge graphs at
    Accounts,      \* accounts of AWS, projects of GCP, clusters of Kubernetes
    Regions,       \* regions of an AWS account
    MaxFailures,   \* bound on the failures of a run
    MaxAttempts    \* stop_max_attempt_number of GCPProjectCollector.collect

ASSUME CollectAssumption ==
    /\ MaxFailures \in Nat /\ MaxAttempts \in Nat \ {0}
    /\ "global" \notin Regions

VARIABLES
    conf,        \* the configuration of this run
    todo,        \* todo[c][a]: the regions of the account that are not collected yet
    account,     \* account[c][a]: the graph of the account
    state,       \* state[c][a]: where the account is
    attempts,    \* attempts[c][a]: how often its collection was started
    plugin,      \* plugin[c]: the graph of the plugin
    status,      \* status[c]: where the thread of the plugin is
    result,      \* result[c]: what the worker made of the plugin, "waiting" until then
    graph,       \* the graph of the worker
    phase,       \* "collecting", "sent", or "empty" if there was nothing to send
    core,        \* what the core made of the graph
    failures,    \* number of failures so far
    completed    \* collectors that ran to their end, with the place they ran at

vars == <<conf, todo, account, state, attempts, plugin, status, result, graph, phase, core, failures,
          completed>>

Aws   == INSTANCE AwsCollectors
Gcp   == INSTANCE GcpCollectors
Other == INSTANCE OtherCollectors

-----------------------------------------------------------------------------
(* Clouds, places and their collectors *)

WithAccounts == {"aws", "gcp", "k8s"}
Direct == {"slack", "onelogin", "vsphere", "github", "onprem", "example"}

AccountsOf(c) == IF c \in WithAccounts THEN Accounts ELSE {}
RegionsOf(c)  == IF c = "aws" THEN {"global"} \cup Regions ELSE {"all"}

collectors(c, r) ==
    CASE c = "aws" -> IF r = "global" THEN Aws!global_collectors ELSE Aws!region_collectors
      [] c = "gcp" -> Gcp!mandatory_collectors \o Gcp!project_collectors
      [] c = "k8s" -> Other!KubernetesCollector_collect
      [] c = "slack" -> Other!SlackCollectorPlugin_collect
      [] c = "onelogin" -> Other!OneLoginPlugin_collect
      [] c = "vsphere" -> Other!VSphereCollectorPlugin_collect
      [] c = "github" -> Other!GithubCollectorPlugin_collect
      [] c = "onprem" -> Other!OnpremCollectorPlugin_collect
      [] c = "example" -> Other!ExampleCollectorPlugin_collect

\* regions and zones, nodes and namespaces are collected in any case
Mandatory == {"regions", "zones", "nodes", "namespaces"}

Runs(name) == name \notin conf.skipped \/ name \in Mandatory

Cloud(c)         == <<c>>
AccountOf(c, a)  == <<c, a>>
Place_(c, a, r)  == IF c = "aws" THEN <<c, a, r>> ELSE <<c, a>>
Worker           == <<"worker">>

RootOf(place) == <<place, Root>>

\* The kinds of the global region
GlobalKinds ==
    UNION {UNION {About(cs.ops[j]) : j \in DOMAIN cs.ops} : cs \in ToSet(Aws!global_collectors)} \ {Root}

\* Where the resource of a kind is that a collector at this place refers to
At(place, kind) ==
    IF place[1] = "aws" /\ kind \in GlobalKinds THEN <<<<place[1], place[2], "global">>, kind>>
    ELSE <<place, kind>>

Move(place, g) ==
    [nodes    |-> {At(place, n) : n \in g.nodes},
     edges    |-> {<<At(place, e[1]), At(place, e[2])>> : e \in g.edges},
     deletes  |-> {<<At(place, e[1]), At(place, e[2])>> : e \in g.deletes},
     deferred |-> {[src |-> At(place, d.src), dst |-> At(place, d.dst), other |-> At(place, d.other)]
                     : d \in g.deferred}]

-----------------------------------------------------------------------------
(* Failures of a collection: the collector that fails, the steps it has     *)
(* taken and whether the collectors after it still run                      *)

NoFailure == [at |-> 0, steps |-> 0, stop |-> FALSE]

FailuresOf(cs, stops) ==
    {f \in [at : DOMAIN cs, steps : 0..8, stop : stops] :
        f.steps <= Len(cs[f.at].ops) /\ Runs(cs[f.at].name)}

\* No failure, or one if the run has not had enough of them
Outcomes(cs, stops) ==
    {NoFailure} \cup (IF failures < MaxFailures THEN FailuresOf(cs, stops) ELSE {})

Reached(cs, f, i) == Runs(cs[i].name) /\ ~(f.stop /\ i > f.at)

\* What is left of a collector: the steps before its failure
StepsOf(cs, f, i) == IF i = f.at THEN SubSeq(cs[i].ops, 1, f.steps) ELSE cs[i].ops

RunCollectors(cs, f) ==
    LET Run[i \in 1..(Len(cs) + 1), g \in Graphs] ==
          IF i > Len(cs) THEN g
          ELSE Run[i + 1, IF Reached(cs, f, i) THEN Collected(g, StepsOf(cs, f, i), conf.absent)
                          ELSE g]
    IN  Run[1, EmptyGraph(Root)]

Completes(place, cs, f) ==
    completed' = completed \cup
        {[place |-> place, name |-> cs[i].name] : i \in {j \in DOMAIN cs : Reached(cs, f, j) /\ j # f.at}}

\* The steps of a collector that ran at a place
StepsAt(x) ==
    LET cs == collectors(x.place[1], IF Len(x.place) = 3 THEN x.place[3] ELSE "all")
    IN  UNION {ToSet(cs[i].ops) : i \in {j \in DOMAIN cs : cs[j].name = x.name}}

Fails(f) == failures' = failures + (IF f = NoFailure THEN 0 ELSE 1)

-----------------------------------------------------------------------------
Init ==
    /\ conf \in Confs
    /\ todo = [c \in conf.clouds |-> [a \in AccountsOf(c) |-> RegionsOf(c)]]
    /\ account = [c \in conf.clouds |-> [a \in AccountsOf(c) |-> EmptyGraph(RootOf(AccountOf(c, a)))]]
    /\ state = [c \in conf.clouds |-> [a \in AccountsOf(c) |-> "collecting"]]
    /\ attempts = [c \in conf.clouds |-> [a \in AccountsOf(c) |-> 1]]
    /\ plugin = [c \in conf.clouds |-> EmptyGraph(RootOf(Cloud(c)))]
    /\ status = [c \in conf.clouds |-> "running"]
    /\ result = [c \in conf.clouds |-> "waiting"]
    /\ graph = EmptyGraph(RootOf(Worker))
    /\ phase = "collecting"
    /\ core = [state |-> "unchanged", replaced |-> {}]
    /\ failures = 0
    /\ completed = {}

Collecting(c, a) == status[c] = "running" /\ state[c][a] = "collecting"

\* AWSAccountCollector.collect: the global region, then the others in any order;
\* a collector that fails is skipped, or the region if the call is not authorized
collect_resources(c, a, r) ==
    /\ c = "aws" /\ Collecting(c, a)
    /\ r \in todo[c][a]
    /\ r = "global" \/ "global" \notin todo[c][a]
    /\ \E f \in Outcomes(collectors(c, r), BOOLEAN) :
          LET place == Place_(c, a, r)
              g     == Move(place, RunCollectors(collectors(c, r), f))
          IN  /\ account' = [account EXCEPT ![c][a] =
                                merge(@, RootOf(AccountOf(c, a)), g, RootOf(place))]
              /\ Completes(place, collectors(c, r), f)
              /\ Fails(f)
    /\ todo' = [todo EXCEPT ![c][a] = @ \ {r}]
    /\ UNCHANGED <<conf, state, attempts, plugin, status, result, graph, phase, core>>

\* GCPProjectCollector.collect: a collector that fails is skipped
collect_project(c, a) ==
    /\ c = "gcp" /\ Collecting(c, a) /\ todo[c][a] # {}
    /\ \E f \in Outcomes(collectors(c, "all"), {FALSE}) :
          LET cs == collectors(c, "all")
          IN  /\ account' = [account EXCEPT ![c][a] =
                                Move(AccountOf(c, a), Gcp!remove_unreferenced(RunCollectors(cs, f)))]
              /\ Completes(AccountOf(c, a), cs, f)
              /\ Fails(f)
    /\ todo' = [todo EXCEPT ![c][a] = {}]
    /\ UNCHANGED <<conf, state, attempts, plugin, status, result, graph, phase, core>>

\* A socket timeout ends the collection of a project, which starts anew with an
\* empty graph; the project is given up after the last attempt.
retry_project(c, a) ==
    /\ c = "gcp" /\ Collecting(c, a) /\ todo[c][a] # {}
    /\ failures < MaxFailures
    /\ IF attempts[c][a] < MaxAttempts
       THEN attempts' = [attempts EXCEPT ![c][a] = @ + 1] /\ state' = state
       ELSE attempts' = attempts /\ state' = [state EXCEPT ![c][a] = "skipped"]
    /\ failures' = failures + 1
    /\ UNCHANGED <<conf, todo, account, plugin, status, result, graph, phase, core, completed>>

\* KubernetesCollector.collect: any error costs the graph of the cluster
collect_cluster(c, a) ==
    /\ c = "k8s" /\ Collecting(c, a) /\ todo[c][a] # {}
    /\ \E f \in Outcomes(collectors(c, "all"), {TRUE}) :
          LET cs == collectors(c, "all")
          IN  /\ account' = [account EXCEPT ![c][a] = Move(AccountOf(c, a), RunCollectors(cs, f))]
              /\ state' = IF f = NoFailure THEN state ELSE [state EXCEPT ![c][a] = "skipped"]
              /\ Completes(AccountOf(c, a), cs, f)
              /\ Fails(f)
    /\ todo' = [todo EXCEPT ![c][a] = {}]
    /\ UNCHANGED <<conf, attempts, plugin, status, result, graph, phase, core>>

\* The plugin of a cloud without accounts of its own: an error ends its thread
collect_cloud(c) ==
    /\ c \in Direct /\ status[c] = "running"
    /\ \E f \in Outcomes(collectors(c, "all"), {TRUE}) :
          LET cs == collectors(c, "all")
          IN  /\ plugin' = [plugin EXCEPT ![c] = Move(Cloud(c), RunCollectors(cs, f))]
              /\ status' = [status EXCEPT ![c] = IF f = NoFailure THEN "finished" ELSE "failed"]
              /\ Completes(Cloud(c), cs, f)
              /\ Fails(f)
    /\ UNCHANGED <<conf, todo, account, state, attempts, result, graph, phase, core>>

\* collect_account: an error outside of the collectors ends the collection of the
\* account, and what was collected until then is its graph
account_error(c, a) ==
    /\ c = "aws" /\ Collecting(c, a) /\ todo[c][a] # {}
    /\ failures < MaxFailures
    /\ failures' = failures + 1
    /\ todo' = [todo EXCEPT ![c][a] = {}]
    /\ UNCHANGED <<conf, account, state, attempts, plugin, status, result, graph, phase, core, completed>>

\* The thread of an account completes and the plugin merges its graph.
merge_account(c, a) ==
    /\ Collecting(c, a) /\ todo[c][a] = {}
    /\ plugin' = [plugin EXCEPT ![c] =
                     merge(@, RootOf(Cloud(c)), account[c][a], RootOf(AccountOf(c, a)))]
    /\ state' = [state EXCEPT ![c][a] = "merged"]
    /\ UNCHANGED <<conf, todo, account, attempts, status, result, graph, phase, core, failures, completed>>

\* BasePlugin.run: collect returns, or raises
finish(c) ==
    /\ c \in WithAccounts /\ status[c] = "running"
    /\ \A a \in AccountsOf(c) : state[c][a] # "collecting"
    /\ status' = [status EXCEPT ![c] = "finished"]
    /\ UNCHANGED <<conf, todo, account, state, attempts, plugin, result, graph, phase, core, failures, completed>>

raise(c) ==
    /\ status[c] = "running" /\ failures < MaxFailures
    /\ status' = [status EXCEPT ![c] = "failed"]
    /\ failures' = failures + 1
    /\ UNCHANGED <<conf, todo, account, state, attempts, plugin, result, graph, phase, core, completed>>

\* Mutation: the graph of a plugin that did not finish is taken.
collect_unfinished(c) ==
    /\ result[c] = "waiting" /\ status[c] \in {"finished", "failed"}
    /\ result' = [result EXCEPT ![c] = "merged"]
    /\ graph' = merge(graph, RootOf(Worker), plugin[c], RootOf(Cloud(c)))
    /\ UNCHANGED <<conf, todo, account, state, attempts, plugin, status, phase, core, failures, completed>>

\* collect_plugin_graph: the thread of the plugin has ended; its graph is merged if
\* it finished and its graph has no cycle
collect_plugin_graph(c) ==
    /\ result[c] = "waiting" /\ status[c] \in {"finished", "failed"}
    /\ IF status[c] = "finished" /\ is_dag_per_edge_type(plugin[c])
       THEN /\ graph' = merge(graph, RootOf(Worker), plugin[c], RootOf(Cloud(c)))
            /\ result' = [result EXCEPT ![c] = "merged"]
       ELSE /\ graph' = graph
            /\ result' = [result EXCEPT ![c] = IF status[c] = "failed" THEN "ignored" ELSE "cyclic"]
    /\ UNCHANGED <<conf, todo, account, state, attempts, plugin, status, phase, core, failures, completed>>

\* Mutation: the worker waits for the thread of a plugin without a timeout.
wait_forever(c) == FALSE /\ UNCHANGED vars

\* collector.join returns although the thread is alive: the graph is discarded, and
\* the thread goes on.
timeout(c) ==
    /\ result[c] = "waiting" /\ status[c] = "running"
    /\ result' = [result EXCEPT ![c] = "timeout"]
    /\ UNCHANGED <<conf, todo, account, state, attempts, plugin, status, graph, phase, core, failures,
                   completed>>

\* GraphExportIterator: the nodes that are marked to be replaced
AccountKinds == {"team", "onelogin_account", "vsphere_cluster", "github_account",
                 "default_location", "location", "example_account"}

graph_merge_kind(g) ==
    IF conf.mergeKind = "cloud" THEN {RootOf(Cloud(c)) : c \in conf.clouds} \cap g.nodes
    ELSE {n \in g.nodes : n[2] \in AccountKinds \/ (n[2] = Root /\ Len(n[1]) = 2)}

\* The roots of the plugins are clouds: there is no graph root to resolve below the
\* root, and what is left of sanitize is the last try of the deferred connections.
sanitize(g) == resolve_deferred_connections(g)

\* sanitize and send_to_resotocore, once every plugin is done with; without a
\* plugin there is nothing to send
AllEnded == \A c \in conf.clouds : result[c] # "waiting"
NextPhase == IF conf.clouds = {} THEN "empty" ELSE "sent"

collect ==
    /\ phase = "collecting" /\ AllEnded
    /\ phase' = NextPhase
    /\ graph' = IF conf.clouds = {} THEN graph ELSE sanitize(graph)
    /\ UNCHANGED <<conf, todo, account, state, attempts, plugin, status, result, core, failures, completed>>

\* The core receives the graph (the request may as well fail).
merge_graph ==
    /\ phase = "sent" /\ core.state = "unchanged"
    /\ LET split == merge_graphs(graph, graph_merge_kind(graph))
       IN  core' = [state    |-> IF split.accepted THEN "replaced" ELSE "rejected",
                    replaced |-> split.roots]
    /\ UNCHANGED <<conf, todo, account, state, attempts, plugin, status, result, graph, phase, failures,
                   completed>>

Done == phase # "collecting" /\ UNCHANGED vars

Next ==
    \/ \E c \in conf.clouds :
          \/ \E a \in AccountsOf(c) :
                \/ \E r \in RegionsOf(c) : collect_resources(c, a, r)
                \/ collect_project(c, a) \/ retry_project(c, a) \/ collect_cluster(c, a)
                \/ account_error(c, a) \/ merge_account(c, a)
          \/ collect_cloud(c) \/ finish(c) \/ raise(c)
          \/ collect_plugin_graph(c) \/ timeout(c)
    \/ collect \/ merge_graph
    \/ Done

\* The threads of a plugin may hang; the worker's own waiting is bounded by the
\* timeout of join, and it takes what the plugins return.  The formulas name the
\* steps by the one variable each of them is recognised by: Settles the steps
\* collect_plugin_graph, Sends the step collect.
Settles(c) ==
    /\ result[c] = "waiting" /\ status[c] \in {"finished", "failed"}
    /\ \E x \in {"merged", "ignored", "cyclic"} : result' = [result EXCEPT ![c] = x]

Sends == phase = "collecting" /\ AllEnded /\ phase' = NextPhase

Fairness ==
    /\ WF_result(\E c \in conf.clouds : Settles(c))
    /\ WF_vars(\E c \in conf.clouds : timeout(c))
    /\ WF_phase(Sends)

Spec == Init /\ [][Next]_vars /\ Fairness

-----------------------------------------------------------------------------
(* Properties *)

Sent == core.state # "unchanged"

\* Whatever a collector that ran to its end related two resources by is an edge of
\* the graph that is sent, if both resources are in it: search_first and the
\* deferred connections find each other's resources in the order in which the
\* collectors run and their graphs are merged.
RelationsFound ==
    Sent => \A x \in completed : \A o \in StepsAt(x) :
        Links(o) => LET s == At(x.place, o.src)
                        d == At(x.place, o.dst)
                    IN  {s, d} \subseteq graph.nodes => <<s, d>> \in graph.edges

\* "This way we should never have disconnected nodes within the graph"
\* (Graph.add_resource): every resource is reached from the root, whatever failed
\* and whatever was removed.
Rooted == graph.nodes \subseteq descendants(graph, RootOf(Worker))

\* The core replaces exactly the clouds, or accounts, of the plugins that finished in
\* time: no graph of a finished plugin has a cycle or is rejected, and a plugin that
\* failed or hangs leaves its cloud in the core as it is.
FinishedAreReplaced ==
    Sent => LET inTime == {c \in conf.clouds : status[c] = "finished" /\ result[c] # "timeout"}
            IN  /\ core.replaced = UNION {graph_merge_kind(plugin[c]) : c \in inTime}
                /\ core.state = "rejected" <=> core.replaced = {}

\* A collect run comes to its end although the thread of a plugin may hang.
CollectEnds == <>(phase # "collecting")
=============================================================================
