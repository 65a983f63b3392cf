----------------------------- MODULE GraphAccess -----------------------------
(***************************************************************************)
(* What the core makes of a graph a worker sends: the checks of            *)
(* GraphBuilder.check_complete and the split into merge graphs, one below  *)
(* each node that is marked to be replaced.                                *)
(***************************************************************************)
EXTENDS Collectors, FiniteSets

\* Edges of any type count when the graph is walked.
AllEdges(g) == g.edges \cup g.deletes

root_ids(g) == {n \in g.nodes : \A e \in AllEdges(g) : e[2] # n}

\* The nodes at distance 0, 1, ... of n
Levels(g, n) ==
    LET Search[levels \in Seq(SUBSET g.nodes)] ==
          LET seen == UNION {levels[j] : j \in DOMAIN levels}
              next == {e[2] : e \in {x \in AllEdges(g) : x[1] \in levels[Len(levels)]}} \ seen
          IN  IF next = {} THEN levels ELSE Search[Append(levels, next)]
    IN  Search[<<{n}>>]

\* all_shortest_paths(graph, root, node): the nodes on any of them
OnShortestPaths(g, root, node) ==
    LET levels == Levels(g, root)
        depth  == CHOOSE i \in DOMAIN levels : node \in levels[i]
        Up[i \in 1..depth, S \in SUBSET g.nodes] ==
          IF i = 1 THEN S
          ELSE S \cup Up[i - 1, {e[1] : e \in {x \in AllEdges(g) : x[2] \in S}} \cap levels[i - 1]]
    IN  Up[depth, {node}]

\* Replace nodes with the nodes above them; one below another is left out.
replace_roots(g, marked) ==
    LET root  == CHOOSE n \in root_ids(g) : TRUE
        above == [n \in marked |-> OnShortestPaths(g, root, n)]
        outer == {n \in marked : \A m \in marked \ {n} : m \notin above[n]}
    IN  [n \in outer |-> above[n]]

\* All successors of a replace node that are not above it
sub_graph_nodes(g, from, parents) ==
    LET Walk[S \in SUBSET g.nodes] ==
          LET T == S \cup ({e[2] : e \in {x \in AllEdges(g) : x[1] \in S}} \ parents)
          IN  IF T = S THEN S ELSE Walk[T]
    IN  Walk[{from}]

Rejected == [accepted |-> FALSE, roots |-> {}, parts |-> << >>]

\* The merge roots and the nodes of their merge graphs
merge_graphs(g, marked) ==
    IF Cardinality(root_ids(g)) # 1 \/ marked = {} THEN Rejected
    ELSE LET above == replace_roots(g, marked)
             parts == [n \in DOMAIN above |-> sub_graph_nodes(g, n, above[n])]
         IN  IF \E n, m \in DOMAIN parts : n # m /\ parts[n] \cap parts[m] # {}
             THEN Rejected
             ELSE [accepted |-> TRUE, roots |-> DOMAIN parts, parts |-> parts]
=============================================================================
