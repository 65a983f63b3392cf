----------------------------- MODULE Collectors -----------------------------
(***************************************************************************)
(* The graph that collectors build (resotolib/graph) and the steps they    *)
(* take on it.  A collector function is the sequence of its graph steps in *)
(* program order; one node stands for the resources of a kind, as a        *)
(* collector treats all resources of a kind alike.                         *)
(***************************************************************************)
EXTENDS Naturals, Sequences

\* The root of the graph a collector is given: the region, project or account.
Root == "root"

\* graph.add_resource(parent, node)
Add(parent, n) == [op |-> "edge", src |-> parent, dst |-> n, other |-> n]
New(n) == Add(Root, n)

\* graph.add_edge(s, d) with both resources at hand
Edge(s, d) == [op |-> "edge", src |-> s, dst |-> d, other |-> d]

\* graph.add_edge(s, d, edge_type=EdgeType.delete)
DeleteEdge(s, d) == [op |-> "delete", src |-> s, dst |-> d, other |-> d]

\* graph.add_edge(s, d) for resources that may have been left out of the graph
Join(s, d) == [op |-> "join", src |-> s, dst |-> d, other |-> d]

\* s = graph.search_first(...); if s: graph.add_edge(s, n), and downwards
Above(s, n) == [op |-> "find", src |-> s, dst |-> n, other |-> s]
Below(n, d) == [op |-> "find", src |-> n, dst |-> d, other |-> d]

\* n.add_deferred_connection(...): the edge to n is drawn when graphs are merged
Later(s, n) == [op |-> "later", src |-> s, dst |-> n, other |-> s]

\* search, and a deferred connection of n if nothing is found
SeekAbove(s, n) == [op |-> "seek", src |-> s, dst |-> n, other |-> s]
SeekBelow(n, d) == [op |-> "seek", src |-> n, dst |-> d, other |-> d]

\* add_resource below the first of the candidates that is in the graph
Place(n, candidates) == [op |-> "place", src |-> n, dst |-> n, other |-> n, at |-> candidates]

\* graph.remove_node(n) unless one of the candidates is in the graph
Drop(n, candidates) == [op |-> "drop", src |-> n, dst |-> n, other |-> n, at |-> candidates]

\* A function that goes through kinds of resources in one of two ways
AboveAll(kinds, n) == [i \in DOMAIN kinds |-> Above(kinds[i], n)]
SeekAll(kinds, n)  == [i \in DOMAIN kinds |-> SeekAbove(kinds[i], n)]

-----------------------------------------------------------------------------
(* Graph *)

EmptyGraph(root) == [nodes |-> {root}, edges |-> {}, deletes |-> {}, deferred |-> {}]

\* networkx adds the end points of an edge that are not nodes yet
add_edge(g, s, d) == [g EXCEPT !.nodes = @ \cup {s, d}, !.edges = @ \cup {<<s, d>>}]

remove_nodes(g, S) ==
    [g EXCEPT !.nodes = @ \ S,
              !.edges = {e \in @ : {e[1], e[2]} \cap S = {}},
              !.deletes = {e \in @ : {e[1], e[2]} \cap S = {}}]

\* The owner of a deferred connection is the resource that does the search.
add_deferred_connection(g, o) ==
    [g EXCEPT !.deferred = @ \cup {[src |-> o.src, dst |-> o.dst, other |-> o.other]}]

owner(d) == IF d.other = d.src THEN d.dst ELSE d.src

Parent(g, candidates) == SelectSeq(candidates, LAMBDA c : c \in g.nodes)[1]

Apply(g, o) ==
    CASE o.op = "edge" -> add_edge(g, o.src, o.dst)
      [] o.op = "delete" -> [g EXCEPT !.deletes = @ \cup {<<o.src, o.dst>>}]
      [] o.op = "join" -> IF {o.src, o.dst} \subseteq g.nodes THEN add_edge(g, o.src, o.dst)
                          ELSE g
      [] o.op = "find" -> IF o.other \in g.nodes THEN add_edge(g, o.src, o.dst) ELSE g
      [] o.op = "seek" -> IF o.other \in g.nodes THEN add_edge(g, o.src, o.dst)
                          ELSE add_deferred_connection(g, o)
      [] o.op = "later" -> add_deferred_connection(g, o)
      [] o.op = "place" -> add_edge(g, Parent(g, o.at), o.dst)
      [] o.op = "drop" -> IF \E i \in DOMAIN o.at : o.at[i] \in g.nodes THEN g
                          ELSE remove_nodes(g, {o.dst})

\* The kinds a step is about: the step does not happen if one of them is absent.
About(o) == {o.src, o.dst}
Links(o) == o.op \in {"edge", "join", "find", "seek", "later"}

Graphs ==
    [nodes : SUBSET STRING, edges : SUBSET (STRING \X STRING), deletes : SUBSET (STRING \X STRING),
     deferred : SUBSET [src : STRING, dst : STRING, other : STRING]]

\* The steps of a function, one after the other
Collected(graph0, ops, absent) ==
    LET Run[i \in 1..(Len(ops) + 1), g \in Graphs] ==
          IF i > Len(ops) THEN g
          ELSE Run[i + 1, IF About(ops[i]) \cap absent = {} THEN Apply(g, ops[i]) ELSE g]
    IN  Run[1, graph0]

successors(g, n) == {e[2] : e \in {x \in g.edges : x[1] = n}}

\* Nodes of some kinds nobody points from are removed.
rmnodes(g, kinds) == remove_nodes(g, {n \in g.nodes \cap kinds : successors(g, n) = {}})

\* What can be reached from S by any number of steps, where next[m] is one step from m
ReachedFrom(nodes, next, S) ==
    LET Reach[U \in SUBSET nodes] ==
          LET T == U \cup UNION {next[m] : m \in U} IN IF T = U THEN U ELSE Reach[T]
    IN  Reach[S]

descendants(g, n) == ReachedFrom(g.nodes, [m \in g.nodes |-> successors(g, m)], {n})

\* Nodes without a predecessor are taken away until none is left.
Acyclic(nodes, edges) ==
    LET Peel[S \in SUBSET nodes] ==
          LET T == {e[2] : e \in {x \in edges : x[1] \in S}} \cap S
          IN  IF T = S THEN S ELSE Peel[T]
    IN  Peel[nodes] = {}

\* A cycle is fine if its edges are not all of one type.
is_dag_per_edge_type(g) == Acyclic(g.nodes, g.edges) /\ Acyclic(g.nodes, g.deletes)

\* Mutation: the edge of a deferred connection is drawn the other way round.
ResolveSwapped(g) ==
    LET found == {d \in g.deferred : {d.src, d.dst} \subseteq g.nodes}
    IN  [g EXCEPT !.edges = @ \cup {<<d.dst, d.src>> : d \in found}, !.deferred = {}]

\* Every deferred connection of a node is tried once and dropped, found or not.
resolve_deferred_connections(g) ==
    LET found == {d \in g.deferred : {d.src, d.dst} \subseteq g.nodes}
    IN  [g EXCEPT !.edges = @ \cup {<<d.src, d.dst>> : d \in found},
                  !.deferred = {d \in @ : owner(d) \notin g.nodes}]

\* Mutation: the roots of the two graphs are not connected.
MergeUnconnected(g, root, h, hRoot) ==
    resolve_deferred_connections(
        [nodes    |-> g.nodes \cup h.nodes,
         edges    |-> g.edges \cup h.edges,
         deletes  |-> g.deletes \cup h.deletes,
         deferred |-> g.deferred \cup h.deferred])

merge(g, root, h, hRoot) ==
    resolve_deferred_connections(
        [nodes    |-> g.nodes \cup h.nodes,
         edges    |-> g.edges \cup h.edges \cup {<<root, hRoot>>},
         deletes  |-> g.deletes \cup h.deletes,
         deferred |-> g.deferred \cup h.deferred])
=============================================================================
