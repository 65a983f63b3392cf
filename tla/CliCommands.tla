---------------------------- MODULE CliCommands -----------------------------
(***************************************************************************)
(* The commands of the command line (core/cli/command.py): what they put   *)
(* into the stream and what they make of it.                               *)
(*                                                                         *)
(* A command is a record with its name and its arguments.  The elements of *)
(* a stream are records of different fields: a node, a row of an aggregate,*)
(* an error, a number, a list, and several texts (a string that is the id  *)
(* of a node, a line of a count, any other).  A flow answers a stream, or  *)
(* raises.                                                                 *)
(***************************************************************************)
EXTENDS GraphQuery, Tagging

Node(g, n) == [node |-> n, val |-> g.val[n]]
Text(t) == [text |-> t]
IdText(n, idish) == [id |-> n, idish |-> idish]
Counted(key, count) == [key |-> key, count |-> count]
Total(what, count) == [total |-> what, count |-> count]
Num(k) == [num |-> k]
Elems(s) == [list |-> s]
Failure(n) == [error |-> n]

Is(field, item) == field \in DOMAIN item
IsText(item) == \E f \in {"text", "id", "key", "total"} : Is(f, item)
IsDict(item) == \E f \in {"node", "group", "error"} : Is(f, item)

Stream(s) == [ok |-> TRUE, out |-> s]
Raised == [ok |-> FALSE, out |-> <<>>]

Mapped(in, F(_)) == Stream([i \in DOMAIN in |-> F(in[i])])
Concat(in, F(_)) == Stream(FlattenSeq([i \in DOMAIN in |-> F(in[i])]))

-----------------------------------------------------------------------------
(***************************************************************************)
(* The parts of a query.  "raises" stands for an argument the parser does  *)
(* not understand, a template that is not there and what cannot be         *)
(* combined.                                                               *)
(***************************************************************************)
Raising == [ok |-> FALSE, q |-> Query(<<Part(AllTerm)>>), extra |-> <<>>]

\* A query of the command line, its templates expanded to what the library has for them.
QueryAllPart(st, c, templates) ==
  LET arg == IF c.template = <<>> THEN c.arg ELSE templates[c.template[1]]
  IN  IF c.template # <<>> /\ c.template[1] \notin DOMAIN templates THEN Raising
      ELSE IF CombineFails(st.q, arg) THEN Raising
      ELSE [st EXCEPT !.q = combine(@, arg)]

Traversed(st, c, until, dir) ==
  [st EXCEPT !.q = traverse(@, Navigation(c.origin, until, c.edge, dir))]

PredecessorPart(st, c) == Traversed(st, c, 1, "in")
SuccessorPart(st, c) == Traversed(st, c, 1, "out")
AncestorPart(st, c) == Traversed(st, c, NavMax, "in")
DescendantPart(st, c) == Traversed(st, c, NavMax, "out")

AggregatePart(st, c) == [st EXCEPT !.q.aggregate = <<c.by>>]

HeadPart(st, c) == [st EXCEPT !.q = with_limit(@, c.size)]

\* The sort order of the part that is current before a new one is opened decides.
TailPart(st, c) ==
  [st EXCEPT !.q = with_limit(IF CurrentPart(@).sort = <<>> THEN add_sort(@, "_key", "desc") ELSE @,
                              c.size)]

\* The count of a query is an aggregation, whose rows are turned into lines behind it.
CountPart(st, c) ==
  IF st.q.aggregate # <<>> THEN Raising
  ELSE [st EXCEPT !.q = add_sort([@ EXCEPT !.aggregate = <<c.by>>], "count", "asc"),
                  !.extra = Append(@, [name |-> "aggregate_to_count"])]

-----------------------------------------------------------------------------
(***************************************************************************)
(* Flows that change nothing but the stream.                               *)
(***************************************************************************)
HeadCommand(in, size) == Stream(Take(size, in))

TailCommand(in, size) == Stream(SubSeq(in, 1 + Max({0, Len(in) - size}), Len(in)))

\* Lines in the order of their counts, then how many have the property and how many not.
CountLines(counts, matched, unmatched) ==
  LET Least(a, b) == counts[a] < counts[b] \/ (counts[a] = counts[b] /\ a < b)
      keys == SetToSortSeq(DOMAIN counts, Least)
  IN  [i \in DOMAIN keys |-> Counted(keys[i], counts[keys[i]])]
        \o <<Total("matched", matched), Total("unmatched", unmatched)>>

CountCommand(in, by) ==
  LET Prop(item) == IF Is("node", item) THEN item.val ELSE Null
      having == SelectSeq(in, LAMBDA i : Prop(i) # Null)
      values == {Prop(having[i]) : i \in DOMAIN having}
      counts == [v \in values |-> Len(SelectSeq(having, LAMBDA i : Prop(i) = v))]
  IN  IF by = "nothing" THEN Stream(CountLines(<<>>, Len(in), 0))
      ELSE Stream(CountLines(counts, Len(having), Len(in) - Len(having)))

\* The command is always created without an argument: nothing is reported as unmatched.
AggregateToCountCommand(in) ==
  LET named == SelectSeq(in, LAMBDA r : r.group # Null)
      lines == [i \in DOMAIN named |-> Counted(named[i].group, named[i].count)]
      total == FoldLeft(LAMBDA a, r : a + r.count, 0, in)
  IN  Stream(lines \o <<Total("matched", total), Total("unmatched", 0)>>)

ChunksOf(in, size) ==
  [i \in 1..((Len(in) + size - 1) \div size) |-> SubSeq(in, size * (i - 1) + 1, Min({size * i, Len(in)}))]

ChunkCommand(in, size) ==
  LET chunks == ChunksOf(in, size) IN Mapped(chunks, Elems)

\* A text falls apart into its characters, an object into the names of its properties.
FlattenCommand(in) ==
  Concat(in, LAMBDA i : IF Is("list", i) THEN i.list
                        ELSE IF Is("num", i) THEN <<i>>
                        ELSE IF IsDict(i) THEN <<Text("name"), Text("value")>>
                        ELSE <<Text("character"), Text("character")>>)

UniqCommand(in) ==
  LET first == {i \in DOMAIN in : \A j \in 1..(i - 1) : in[j] # in[i]}
      order == Ordered(first)
  IN  IF \E i \in DOMAIN in : Is("list", in[i]) THEN Raised
      ELSE Stream([k \in DOMAIN order |-> in[order[k]]])

\* A selector of one property: no text and no number has one.
JqCommand(in) ==
  IF \E i \in DOMAIN in : ~IsDict(in[i]) THEN Raised
  ELSE Mapped(in, LAMBDA i : Num(IF Is("node", i) THEN i.val ELSE Null))

FormatCommand(in, format) ==
  CASE format \in {"two formats", "format and string"} -> Raised
    [] format = "nothing" -> Stream(in)
    [] format \in {"renderer", "string"} -> Mapped(in, LAMBDA i : Text("formatted"))

DumpCommand(in) == Stream(in)

ListCommand(in) ==
  Mapped(in, LAMBDA i : IF Is("node", i) THEN Text("line")
                        ELSE IF IsDict(i) \/ IsText(i) THEN i ELSE Text("value"))

\* Only texts can be written.
WriteCommand(in) == IF \A i \in DOMAIN in : IsText(in[i]) THEN Stream(<<Text("path")>>) ELSE Raised

Flow(c, in) ==
  CASE c.name = "head" -> HeadCommand(in, c.size)
    [] c.name = "tail" -> TailCommand(in, c.size)
    [] c.name = "count" -> CountCommand(in, c.by)
    [] c.name = "aggregate_to_count" -> AggregateToCountCommand(in)
    [] c.name = "chunk" -> ChunkCommand(in, c.size)
    [] c.name = "flatten" -> FlattenCommand(in)
    [] c.name = "uniq" -> UniqCommand(in)
    [] c.name = "jq" -> JqCommand(in)
    [] c.name = "format" -> FormatCommand(in, c.format)
    [] c.name = "dump" -> DumpCommand(in)
    [] c.name = "list" -> ListCommand(in)
    [] c.name = "write" -> WriteCommand(in)

-----------------------------------------------------------------------------
(***************************************************************************)
(* Sources that only read.                                                 *)
(***************************************************************************)
ExecuteQueryCommand(g, q) ==
  LET Returned(nodes) ==
        IF q.aggregate # <<>> THEN aggregate(g, nodes, q.aggregate[1])
        ELSE [i \in DOMAIN nodes |-> Node(g, nodes[i])]
  IN  Applied(Returned, Applied(LAMBDA p : query_string(g, Ordered(g.nodes), p), Printed(q)))

EchoCommand == <<Text("message")>>
JsonCommand(c) == c.items
SleepCommand == <<Text("")>>
EnvCommand == <<Text("environment")>>
KindCommand(g, c) ==
  IF c.kind = "all" THEN LET kinds == {g.kind[n] : n \in g.nodes}
                         IN  [i \in 1..Cardinality(kinds) |-> Text("kind")]
  ELSE <<Text("kind")>>
HelpCommand == <<Text("help")>>

-----------------------------------------------------------------------------
(***************************************************************************)
(* Commands that change nodes.                                             *)
(***************************************************************************)
SetDesiredCommand == "desired"
CleanCommand == "clean"
SetMetadataCommand == "metadata"
ProtectCommand == "protected"

Patch(c) ==
  CASE c.name = "set_desired" -> SetDesiredCommand
    [] c.name = "clean" -> CleanCommand
    [] c.name = "set_metadata" -> SetMetadataCommand
    [] c.name = "protect" -> ProtectCommand

\* "id" in item, asked of every element of a chunk: it raises for numbers, and finds the
\* letters in texts, which then cannot be indexed by a name.
ChunkRaises(items) ==
  \E i \in DOMAIN items : LET item == items[i] IN
     Is("num", item) \/ (Is("id", item) /\ item.idish) \/ (Is("text", item) /\ item.text = "line")

\* SetDesiredStateBase.set_desired and SetMetadataStateBase.set_metadata: the nodes a chunk
\* names, those that are in the database being updated.
NodeIds(items) ==
  {items[i].node : i \in {j \in DOMAIN items : Is("node", items[j])}}
    \cup {items[i].id : i \in {j \in DOMAIN items : Is("id", items[j])}}

set_desired(db, c, items) ==
  LET updated == NodeIds(items) \cap DOMAIN db
  IN  [n \in DOMAIN db |-> IF n \in updated THEN update_nodes_section(db[n], Patch(c)) ELSE db[n]]

\* TagCommand.load_by_id_merged: every node is loaded once, however often it is named.
load_by_id_merged(db, items) == Ordered(NodeIds(items) \cap DOMAIN db)

\* Mutation: a request that was repeated often enough is given its retries anew.
HttpRestarted(left, response) ==
  CASE response = "ok" -> [over |-> TRUE, left |-> left]
    [] response = "status" /\ left = 0 -> [over |-> TRUE, left |-> left]
    [] OTHER -> [over |-> FALSE, left |-> IF left = 0 THEN 1 ELSE left - 1]

\* HttpCommand.perform_request, one attempt: whether the request is over, and how often
\* requests of this stream may still be repeated.
HttpCommand(left, response) ==
  CASE response = "ok" -> [over |-> TRUE, left |-> left]
    [] response = "status" /\ left = 0 -> [over |-> TRUE, left |-> left]
    [] OTHER -> [over |-> left - 1 < 0, left |-> left - 1]

=============================================================================
