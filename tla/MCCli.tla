------------------------------- MODULE MCCli --------------------------------
(* Workloads of the command line: every line of up to three query parts on a tree and  *)
(* on a graph with shortcuts, and pairs of sessions whose commands meet at the same    *)
(* nodes.                                                                              *)
EXTENDS Cli

MCGraph(pairs, kinds) ==
  [nodes |-> 1..Len(kinds), kind |-> kinds, val |-> [n \in 1..Len(kinds) |-> <<1, 2, 1, 0, 2>>[n]],
   edges |-> [default |-> pairs, delete |-> {<<3, 4>>}]]

MCTree == MCGraph({<<1, 2>>, <<2, 3>>, <<2, 4>>, <<3, 5>>},
                  <<"account", "region", "instance", "volume", "volume">>)
MCShort == MCGraph({<<1, 2>>, <<2, 3>>, <<1, 3>>, <<3, 5>>, <<2, 4>>, <<4, 5>>},
                   <<"account", "region", "instance", "volume", "volume">>)

MCQuery(part) == [name |-> "query", arg |-> Query(<<part>>), template |-> <<>>]
MCNav(name, origin, edge) == [name |-> name, origin |-> origin, edge |-> edge]
MCSize(name, size) == [name |-> name, size |-> size]
MCBy(name, by) == [name |-> name, by |-> by]

MCWith == [nav |-> Navigation(1, NavMax, "default", "out"), term |-> IsTerm("volume"), op |-> ">", num |-> 0]

MCAll == MCQuery(Part(AllTerm))

MCShortParts ==
  {MCBy("aggregate", "val"), MCBy("count", "nothing"), MCSize("head", 0), MCSize("head", 1), MCNav("ancestors", 1, "default"),
   MCNav("successors", 1, "delete"),
   MCQuery([Part(Predicate("self", "", 2)) EXCEPT !.nav = <<Navigation(0, 1, "default", "inout")>>])}

MCLongParts ==
  {MCQuery(Part(IsTerm("volume"))),
   MCQuery(Part(CombinedTerm(Predicate("self", "", 1), "or", NotTerm(IsTerm("region"))))),
   MCQuery(Part(CombinedTerm(Predicate("self", "", 2), "and", Predicate("ancestors", "account", 1)))),
   MCQuery([Part(AllTerm) EXCEPT !.with = <<MCWith>>]),
   MCQuery([Part(AllTerm) EXCEPT !.sort = <<[name |-> "val", order |-> "desc"]>>]),
   MCNav("successors", 1, "default"), MCNav("successors", 0, "default"),
   MCNav("predecessors", 1, "default"), MCNav("descendants", 0, "default"),
   MCSize("head", 2), MCSize("tail", 2), MCBy("count", "val")}

\* All lines of up to two parts, and of three of those that are changed by what precedes them.
MCLines ==
  UNION {[1..n -> MCLongParts \cup MCShortParts] : n \in 1..2} \cup [1..3 -> MCLongParts]

MCLoad(g, inputs, vanishing) == [graph |-> g, inputs |-> inputs, vanishing |-> vanishing]
MCOne(input) == MCLoad(MCTree, [s \in {"s1"} |-> input], {})

MCQueries ==
  {MCLoad(g, [s \in {"s1"} |-> <<line>>], {}) :
     g \in {MCTree, MCShort}, line \in MCLines}

MCCmd(name) == [name |-> name]
MCJson(items) == [name |-> "json", items |-> items]
MCTagAs(key, val, nowait) == [name |-> "tag", key |-> key, val |-> val, nowait |-> nowait]
MCTag(val, nowait) == MCTagAs("owner", val, nowait)
MCJobs(action) == [name |-> "jobs", action |-> action, job |-> "j1"]
MCJobsAdd(line, trigger) ==
  [name |-> "jobs", action |-> "add", job |-> "j1", line |-> line, trigger |-> trigger]
MCTemplate(action) == [name |-> "templates", action |-> action, template |-> "t1"]
MCTemplateAdd(valid) ==
  [name |-> "templates", action |-> "add", template |-> "t1", valid |-> valid, query |-> MCAll.arg]
MCExpand == [name |-> "query", arg |-> MCAll.arg, template |-> <<"t1">>]
MCSystem(action) == [name |-> "system", action |-> action]
MCFormat(format) == [name |-> "format", format |-> format]
MCHttp(name) == [name |-> name, retries |-> 1]

\* Inputs of one session: every command at its place, wrong places and wrong arguments.
MCInputs ==
  {<<<<MCAll, MCCmd("dump"), MCSize("head", 3), MCSize("tail", 2)>>,
     <<MCAll, MCCmd("dump"), MCBy("count", "val")>>>>,
   <<<<MCCmd("echo"), MCCmd("flatten"), MCCmd("uniq")>>, <<MCCmd("env")>>, <<[name |-> "kind", kind |-> "all"]>>>>,
   <<<<[name |-> "kind", kind |-> "volume"]>>, <<MCCmd("help"), MCCmd("write")>>, <<MCCmd("sleep")>>>>,
   <<<<MCAll, MCSize("chunk", 2), MCCmd("flatten"), MCCmd("jq"), MCCmd("uniq")>>>>,
   <<<<MCAll, MCSize("chunk", 2), MCCmd("uniq")>>>>, <<<<MCCmd("echo"), MCCmd("jq")>>>>,
   <<<<MCAll, MCFormat("renderer"), MCCmd("write")>>, <<MCAll, MCCmd("write")>>>>,
   <<<<MCAll, MCFormat("two formats")>>>>, <<<<MCAll, MCFormat("nothing"), MCFormat("string")>>>>,
   <<<<MCCmd("echo"), MCNav("successors", 1, "default")>>>>, <<<<MCCmd("dump")>>>>, <<<<MCCmd("typo")>>>>,
   <<<<[name |-> "sleep", malformed |-> TRUE]>>>>, <<<<>>>>,
   <<<<[name |-> "file", exists |-> FALSE]>>>>, <<<<[name |-> "file", exists |-> TRUE]>>, <<MCCmd("upload")>>>>,
   <<<<MCJobsAdd(<<MCAll, MCCmd("clean")>>, TRUE)>>, <<MCJobs("deactivate")>>,
     <<[name |-> "start_workflow", job |-> "j1"]>>, <<MCJobs("list")>>, <<MCJobs("delete")>>,
     <<MCJobs("activate")>>, <<[name |-> "start_task", job |-> "j1"]>>>>,
   <<<<MCJobsAdd(<<MCCmd("clean")>>, TRUE)>>>>,
   <<<<MCTemplateAdd(TRUE)>>, <<MCExpand>>>>, <<<<MCTemplateAdd(FALSE)>>>>,
   <<<<MCTemplate("list")>>, <<MCTemplate("delete")>>, <<MCTemplate("show")>>>>,
   <<<<MCSystem("info")>>, <<MCSystem("create")>>, <<[name |-> "match", arg |-> MCAll.arg, template |-> <<>>],
     MCCmd("set_desired")>>, <<MCSystem("restore")>>>>,
   <<<<MCJson(<<IdText(1, FALSE), IdText(2, TRUE), IdText(3, FALSE)>>), MCCmd("set_metadata")>>>>,
   <<<<MCAll, MCHttp("https")>>, <<MCAll, MCSize("head", 1), MCHttp("http")>>>>}

MCTwo(g, a, b, vanishing) == MCLoad(g, ("s1" :> a) @@ ("s2" :> b), vanishing)

MCKinds(a, b) == MCGraph({<<1, 2>>, <<2, 3>>}, <<"account", a, b>>)
MCBoth == <<MCJson(<<IdText(2, FALSE), IdText(3, TRUE), IdText(3, TRUE)>>)>>
MCSecond == <<MCJson(<<IdText(2, FALSE)>>)>>

\* Two sessions at the same nodes.
MCPairs ==
  {MCTwo(MCKinds("instance", "cloudformation_stack"), <<MCBoth \o <<MCTag(1, FALSE)>>, MCSecond \o <<MCTag(Unset, FALSE)>>>>,
         <<MCSecond \o <<MCCmd("clean")>>>>, {3}),
   MCTwo(MCKinds("disk", "bucket"), <<MCBoth \o <<MCTag(1, TRUE)>>>>, <<MCSecond \o <<MCTagAs("stage", 2, FALSE)>>>>, {}),
   MCTwo(MCKinds("instance", "volume"), <<MCBoth \o <<MCTag(1, FALSE)>>>>, <<MCSecond \o <<MCTagAs("stage", 2, FALSE)>>>>, {}),
   MCTwo(MCKinds("gcp_database", "kubernetes_pod"), <<MCBoth \o <<MCTag(1, FALSE)>>, MCBoth \o <<MCTag(Unset, TRUE)>>>>,
         <<<<MCTemplateAdd(TRUE)>>>>, {2}),
   MCTwo(MCKinds("disk", "vsphere_instance"), <<MCBoth \o <<MCTag(1, FALSE)>>, MCBoth \o <<MCTag(Unset, FALSE)>>>>,
         <<MCSecond \o <<MCCmd("protect")>>>>, {}),
   MCTwo(MCKinds("github_repo", "onprem_instance"), <<MCBoth \o <<MCTag(1, TRUE)>>>>, <<<<MCExpand>>>>, {}),
   MCTwo(MCKinds("cloudformation_stack", "s3_bucket"),
         <<MCSecond \o <<MCTag(Unset, FALSE)>>, MCBoth \o <<MCTag(1, TRUE)>>>>, <<<<MCSystem("restore")>>>>, {})}

MCWorkloads == MCQueries \cup {MCOne(input) : input \in MCInputs} \cup MCPairs

\* A resource is tagged in one session and protected in the other.
MCTagAndProtect ==
  {MCTwo(MCKinds("instance", "instance"), <<MCSecond \o <<MCTag(1, FALSE)>>>>,
         <<MCSecond \o <<MCCmd("protect")>>>>, {})}
=============================================================================
