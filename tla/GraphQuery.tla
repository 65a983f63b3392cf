----------------------------- MODULE GraphQuery -----------------------------
(***************************************************************************)
(* Queries on the graph of resources: how a query is put together from     *)
(* parts (core/query/model.py) and what the database returns for it        *)
(* (core/db/arango_query.py).                                              *)
(*                                                                         *)
(* A graph is a record: "nodes" are numbers in the order of their keys,    *)
(* "kind" and "val" give every node its kind and the value of one reported *)
(* property, "edges" a set of pairs for every type of edge.  An optional   *)
(* value is a sequence of at most one element.  As in the code, the parts  *)
(* of a query are in reverse order: parts[1] is the one evaluated last.    *)
(***************************************************************************)
EXTENDS Integers, Sequences, FiniteSets, FiniteSetsExt, SequencesExt

\* Op(x), x being evaluated once.
Applied(Op(_), x) == CHOOSE y \in {Op(v) : v \in {x}} : TRUE

\* Navigation.Max
NavMax == 10000

Null == 0

-----------------------------------------------------------------------------
(***************************************************************************)
(* Terms.  A predicate compares the property of the node itself or of an   *)
(* ancestor or descendant of a given kind with a value.                    *)
(***************************************************************************)
AllTerm == [op |-> "all"]
IsTerm(kind) == [op |-> "is", kind |-> kind]
Predicate(of, kind, val) == [op |-> "pred", of |-> of, kind |-> kind, val |-> val]
NotTerm(t) == [op |-> "not", term |-> t]
CombinedTerm(l, op, r) == [op |-> op, left |-> l, right |-> r]
MergeTerm(pre, merge, post) == [op |-> "merge", pre |-> pre, merge |-> merge, post |-> post]

AndTerm(l, r) ==
  IF l = AllTerm THEN r ELSE IF r = AllTerm THEN l ELSE CombinedTerm(l, "and", r)

Navigation(start, until, edge, dir) ==
  [start |-> start, until |-> until, edge |-> edge, dir |-> dir]

Part(term) ==
  [term |-> term, tag |-> FALSE, with |-> <<>>, sort |-> <<>>, limit |-> <<>>, nav |-> <<>>]

Query(parts) == [parts |-> parts, aggregate |-> <<>>]

CurrentPart(q) == q.parts[1]

-----------------------------------------------------------------------------
(***************************************************************************)
(* Building a query.                                                       *)
(***************************************************************************)

\* Mutation: joined traversals add up only where they end.
TraverseUntilOnly(q, nav) ==
  LET p == CurrentPart(q)
      old == p.nav[1]
  IN  [q EXCEPT !.parts =
        IF p.nav = <<>> THEN [@ EXCEPT ![1].nav = <<nav>>]
        ELSE IF old.edge = nav.edge /\ old.dir = nav.dir
        THEN [@ EXCEPT ![1].nav = <<[nav EXCEPT !.until = Min({NavMax, @ + old.until})]>>]
        ELSE <<[Part(AllTerm) EXCEPT !.nav = <<nav>>]>> \o @]

\* Query.traverse: two traversals of the same kind in a row become one.
traverse(q, nav) ==
  LET p == CurrentPart(q)
      old == p.nav[1]
      Sum(a, b) == Min({NavMax, a + b})
      Same == old.edge = nav.edge /\ old.dir = nav.dir
      Joined == Navigation(Sum(nav.start, old.start), Sum(nav.until, old.until), nav.edge, nav.dir)
  IN  [q EXCEPT !.parts =
        IF p.nav = <<>> THEN [@ EXCEPT ![1].nav = <<nav>>]
        ELSE IF Same THEN [@ EXCEPT ![1].nav = <<Joined>>]
        ELSE <<[Part(AllTerm) EXCEPT !.nav = <<nav>>]>> \o @]

\* Query.__change_current_part: behind a navigation a new part begins.
Opened(q) ==
  IF CurrentPart(q).nav = <<>> THEN q ELSE [q EXCEPT !.parts = <<Part(AllTerm)>> \o @]

add_sort(q, name, order) ==
  [Opened(q) EXCEPT !.parts[1].sort = Append(@, [name |-> name, order |-> order])]

with_limit(q, num) == [Opened(q) EXCEPT !.parts[1].limit = <<num>>]

\* combine_optional of two optional values: the one that is there, the least of two.
LeastOf(a, b) == IF a = <<>> THEN b ELSE IF b = <<>> THEN a ELSE <<Min({a[1], b[1]})>>

\* The cases in which Query.combine raises.
CombineFails(q, r) ==
  LET l == CurrentPart(q)
      f == Last(r.parts)
  IN  \/ q.aggregate # <<>> /\ r.aggregate # <<>>
      \/ l.nav = <<>> /\ ((l.with # <<>> /\ f.with # <<>>) \/ (l.tag /\ f.tag))

combine(q, r) ==
  LET l == CurrentPart(q)
      f == Last(r.parts)
      joined == [term |-> AndTerm(l.term, f.term), tag |-> l.tag \/ f.tag,
                 with |-> l.with \o f.with, sort |-> l.sort \o f.sort,
                 limit |-> LeastOf(l.limit, f.limit), nav |-> f.nav]
  IN  [parts |-> IF l.nav # <<>> THEN r.parts \o q.parts
                 ELSE Front(r.parts) \o <<joined>> \o Tail(q.parts),
       aggregate |-> q.aggregate \o r.aggregate]

-----------------------------------------------------------------------------
(***************************************************************************)
(* Part.rewrite_for_ancestors_descendants: predicates of ancestors or      *)
(* descendants need these nodes to be merged first.  What does not depend  *)
(* on them is filtered before the merge, the rest behind it.               *)
(***************************************************************************)
\* How deep terms are nested at most, and what a term is made of.
TermDepth == 8

Children(t) ==
  CASE t.op \in {"and", "or"} -> {t.left, t.right}
    [] t.op = "not" -> {t.term}
    [] t.op = "merge" -> {t.pre, t.post}
    [] OTHER -> {}

SubTerms(t) ==
  LET Within[d \in 0..TermDepth] ==
        {t} \cup (IF d = 0 THEN {} ELSE UNION {Children(x) : x \in Within[d - 1]})
  IN  Within[TermDepth]

\* ancestor_descendant_predicates
Foreign(t) == {<<x.of, x.kind>> : x \in {y \in SubTerms(t) : y.op = "pred" /\ y.of # "self"}}

has_ancestor_descendant(t) == Foreign(t) # {}

\* walk_term: the filters before and behind the merge that a term is split into.  The
\* filters of a merge are an "and" of two.
walk_term(t) ==
  LET Split(l, r, left, right) ==
        IF has_ancestor_descendant(l) /\ has_ancestor_descendant(r)
        THEN [before |-> left.before \o right.before, after |-> left.after \o right.after]
        ELSE IF has_ancestor_descendant(l) THEN [left EXCEPT !.before = <<r>> \o @]
        ELSE [right EXCEPT !.before = <<l>> \o @]
      Walk[x \in SubTerms(t)] ==
        CASE x.op = "and" -> Split(x.left, x.right, Walk[x.left], Walk[x.right])
          [] x.op = "merge" -> Split(x.pre, x.post, Walk[x.pre], Walk[x.post])
          [] OTHER -> [before |-> <<>>, after |-> <<x>>]
      All(terms) == FoldLeft(AndTerm, AllTerm, terms)
  IN  [before |-> All(Walk[t].before), after |-> All(Walk[t].after)]

Rewritten(p) ==
  LET f == walk_term(p.term)
  IN  IF has_ancestor_descendant(p.term)
      THEN [p EXCEPT !.term = MergeTerm(f.before, Foreign(f.after), f.after)]
      ELSE p

on_section(q) == [q EXCEPT !.parts = [i \in DOMAIN @ |-> Rewritten(@[i])]]

\* Query.__str__, parsed again by execute_query: a limit of zero is not printed.
Printed(q) ==
  [q EXCEPT !.parts = [i \in DOMAIN @ |->
     IF @[i].limit = <<0>> THEN [@[i] EXCEPT !.limit = <<>>] ELSE @[i]]]

-----------------------------------------------------------------------------
(***************************************************************************)
(* The answer of the database.                                             *)
(***************************************************************************)
Ordered(S) == SetToSortSeq(S, LAMBDA a, b : a < b)

Elements(s) == {s[i] : i \in DOMAIN s}

\* External: a traversal of ArangoDB (bfs, uniqueVertices global) from one node.
\* Every node is met once, at its least distance.
Traversal(g, n, nav) ==
  LET pairs == g.edges[nav.edge]
      Step(S) == IF nav.dir = "out" THEN {e[2] : e \in {x \in pairs : x[1] \in S}}
                                    ELSE {e[1] : e \in {x \in pairs : x[2] \in S}}
      Within[d \in 0..Cardinality(g.nodes)] ==
        IF d = 0 THEN {n}
        ELSE LET S == Within[d - 1] IN S \cup (Step(S) \cap g.nodes)
      Upto(d) == Within[Min({d, Cardinality(g.nodes)})]
  IN  Upto(nav.until) \ (IF nav.start = 0 THEN {} ELSE Upto(nav.start - 1))

\* MergeQuery: the nearest node of the kind above or below, if there is one.
Merged(g, n, path) ==
  LET dir == IF path[1] = "ancestors" THEN "in" ELSE "out"
      At(d) == {m \in Traversal(g, n, Navigation(d, d, "default", dir)) : g.kind[m] = path[2]}
      ds == {d \in 1..Cardinality(g.nodes) : At(d) # {}}
  IN  IF ds = {} THEN {} ELSE {Min(At(Min(ds)))}

\* term: whether a node satisfies a term, the nodes of "merged" being merged to it.
Holds(g, merged, n, t) ==
  LET True[x \in SubTerms(t)] ==
        CASE x.op = "all" -> TRUE
          [] x.op = "is" -> g.kind[n] = x.kind
          [] x.op = "pred" -> IF x.of = "self" THEN g.val[n] = x.val
                              ELSE /\ <<x.of, x.kind>> \in merged
                                   /\ \E m \in Merged(g, n, <<x.of, x.kind>>) : g.val[m] = x.val
          [] x.op = "and" -> True[x.left] /\ True[x.right]
          [] x.op = "or" -> True[x.left] \/ True[x.right]
          [] x.op = "not" -> ~True[x.term]
  IN  True[t]

\* SORT: the first criterion that tells two nodes apart; a tie keeps the order of keys.
Before(g, sort, a, b) ==
  LET Of(name, n) == CASE name = "_key" -> n [] name = "val" -> g.val[n] [] OTHER -> Null
      Differ == {i \in DOMAIN sort : Of(sort[i].name, a) # Of(sort[i].name, b)}
      s == sort[Min(Differ)]
  IN  IF Differ = {} THEN a < b
      ELSE IF s.order = "asc" THEN Of(s.name, a) < Of(s.name, b)
      ELSE Of(s.name, a) > Of(s.name, b)

Take(n, s) == SubSeq(s, 1, Min({n, Len(s)}))

\* filter_statement of a part; a limit of zero is no limit.
filter_statement(g, in, p, t, merged) ==
  LET kept == SelectSeq(in, LAMBDA n : Holds(g, merged, n, t))
      sorted == IF p.sort = <<>> THEN kept
                ELSE SortSeq(kept, LAMBDA a, b : Before(g, p.sort, a, b))
  IN  IF p.limit \in {<<>>, <<0>>} THEN sorted ELSE Take(p.limit[1], sorted)

\* with_clause: counts what a traversal from zero meets; the node itself is always met.
WithHolds(g, n, w) ==
  LET met == {m \in Traversal(g, n, [w.nav EXCEPT !.start = 0]) :
                m = n \/ Holds(g, {}, m, w.term)}
      count == Cardinality(met)
      num == w.num + w.nav.start
  IN  CASE w.op = ">" -> count > num [] w.op = "==" -> count = num

with_clause(g, in, p) ==
  IF p.with = <<>> THEN in ELSE SelectSeq(in, LAMBDA n : WithHolds(g, n, p.with[1]))

\* inout and navigation; the order of RETURN DISTINCT is taken to be the one of keys.  The
\* UNION of both directions keeps what is reached in either of them twice.
navigation(g, in, p) ==
  LET inout(nav) == Ordered(UNION {Traversal(g, n, nav) : n \in Elements(in)})
      nav == p.nav[1]
  IN  IF p.nav = <<>> THEN in
      ELSE IF nav.dir = "inout"
      THEN inout([nav EXCEPT !.dir = "in"]) \o inout([nav EXCEPT !.dir = "out", !.start = Max({1, @})])
      ELSE inout(nav)

\* part: with a merge the part's sort and limit are applied twice, the first time to
\* what the filter before the merge lets through.
FilteredPart(g, in, p) ==
  IF p.term.op = "merge"
  THEN Applied(LAMBDA c : filter_statement(g, c, p, p.term.post, p.term.merge),
               filter_statement(g, in, p, p.term.pre, {}))
  ELSE filter_statement(g, in, p, p.term, {})

EvalPart(g, in, p) ==
  Applied(LAMBDA c : navigation(g, c, p),
          Applied(LAMBDA c : with_clause(g, c, p), FilteredPart(g, in, p)))

\* query_string: all parts from the last to the first, the first one on the nodes of
\* "start"; tagged parts add what they filtered.
query_string(g, start, q) ==
  LET n == Len(q.parts)
      \* what part i is given, and in the end, for i = 0, the result of the first
      In[i \in 0..n] == IF i = n THEN start
                        ELSE Applied(LAMBDA in : EvalPart(g, in, q.parts[i + 1]), In[i + 1])
      tagged == {i \in 1..n : q.parts[i].tag}
      Kept(acc, i) == acc \o FilteredPart(g, In[i], q.parts[i])
  IN  FoldLeft(Kept, <<>>, Ordered(tagged)) \o In[0]

\* aggregate: the number of nodes for every value of the property, or of all nodes.
aggregate(g, in, by) ==
  LET Count(v) == Len(SelectSeq(in, LAMBDA n : g.val[n] = v))
      groups == Ordered({g.val[n] : n \in Elements(in)})
  IN  IF by = "nothing" THEN <<[group |-> Null, count |-> Len(in)]>>
      ELSE [i \in DOMAIN groups |-> [group |-> groups[i], count |-> Count(groups[i])]]

=============================================================================
