-------------------------------- MODULE Cli ---------------------------------
(***************************************************************************)
(* The command line of the core: inputs of several sessions are evaluated  *)
(* to lines of commands and executed, one line after the other, while      *)
(* workers answer the tasks of the tag command.                            *)
(*                                                                         *)
(* A stream is computed command by command.  A command that changes nodes  *)
(* or calls someone takes several steps: "todo" is what is left of its     *)
(* input, "out" what it has put into the stream.                           *)
(***************************************************************************)
EXTENDS CliCommands, TLC

CONSTANTS
  Keys,         \* the names of tags
  Workloads,    \* what the sessions are about to send, and the graph they find
  ChunkSize,    \* elements that are updated in one request (1000 in the code)
  TaskLimit     \* tag tasks of one line in progress at the same time (100 in the code)

ASSUME CliConstants == ChunkSize \in Nat \ {0} /\ TaskLimit \in Nat \ {0}
ASSUME GraphAssumption == \A w \in Workloads : DOMAIN w.graph = {"nodes", "kind", "val", "edges"}

VARIABLES
  load,       \* the workload: graph, inputs, nodes that may vanish
  db,         \* the documents of the core
  cloud,      \* the tags the resources have in the cloud
  sessions,   \* what every session is doing
  tasks,      \* the tag tasks that are not finished, or finished and not reaped
  forked,     \* CLIDependencies.forked_tasks
  reaping,    \* the task the reaper waits for, if there is one
  templates,  \* the library of templates: queries by their names
  jobs,       \* the jobs by their names
  backup,     \* the documents in the backup
  exiting,    \* a restore has ordered the service to exit
  up,         \* the service is running
  torn        \* history: nodes with tag tasks that overlapped, were outdated, lost their answer
              \* or failed when the cloud had changed

vars == <<load, db, cloud, sessions, tasks, forked, reaping, templates, jobs, backup, exiting, up, torn>>

graph == [load.graph EXCEPT !.nodes = DOMAIN db]

Fresh(n) == [tags |-> [k \in Keys |-> Unset], clean |-> FALSE, wish |-> 0, protected |-> FALSE, note |-> 0]

Session(input) ==
  [st |-> "waiting", input |-> input, uploads |-> {}, lines |-> <<>>, line |-> 1, pos |-> 1,
   items |-> <<>>, todo |-> <<>>, busy |-> FALSE, out |-> <<>>, left |-> 0]

Init ==
  /\ load \in Workloads
  /\ db = [n \in load.graph.nodes |-> Fresh(n)]
  /\ cloud = [n \in load.graph.nodes |-> Fresh(n).tags]
  /\ sessions = [s \in DOMAIN load.inputs |-> Session(load.inputs[s])]
  /\ tasks = {} /\ forked = <<>> /\ reaping = <<>>
  /\ templates = <<>> /\ jobs = <<>>
  /\ backup = db /\ exiting = FALSE /\ up = TRUE /\ torn = {}

-----------------------------------------------------------------------------
(***************************************************************************)
(* Evaluation of an input.                                                 *)
(***************************************************************************)
QueryOnly == {"query", "predecessors", "successors", "ancestors", "descendants", "aggregate"}
QueryParts == QueryOnly \cup {"head", "tail", "count"}
Updates == {"set_desired", "clean", "set_metadata", "protect"}
Pure == {"head", "tail", "count", "aggregate_to_count", "chunk", "flatten", "uniq", "jq", "format",
         "dump", "list", "write"}
Readers == {"execute_query", "echo", "json", "sleep", "env", "kind", "help", "file", "upload"}

\* all_commands: what a command is when it is parsed.
Sources == QueryOnly \cup Readers \cup {"jobs", "templates", "start_task", "system"}
Flows == Pure \cup Updates \cup {"tag", "http"}
all_commands == Sources \cup Flows

aliases == [match |-> "query", start_workflow |-> "start_task", https |-> "http"]

Named(c) == IF c.name \in DOMAIN aliases THEN [c EXCEPT !.name = aliases[c.name]] ELSE c

\* CLI.command: an unknown command raises, and so does one whose argument it cannot parse.
command(c) == c.name \in all_commands /\ "malformed" \notin DOMAIN c

PartOf(st, c) ==
  CASE c.name = "query" -> QueryAllPart(st, c, templates)
    [] c.name = "predecessors" -> PredecessorPart(st, c)
    [] c.name = "successors" -> SuccessorPart(st, c)
    [] c.name = "ancestors" -> AncestorPart(st, c)
    [] c.name = "descendants" -> DescendantPart(st, c)
    [] c.name = "aggregate" -> AggregatePart(st, c)
    [] c.name = "head" -> HeadPart(st, c)
    [] c.name = "tail" -> TailPart(st, c)
    [] c.name = "count" -> CountPart(st, c)

create_query(parts) ==
  LET Built[n \in 0..Len(parts)] ==
        IF n = 0 THEN [ok |-> TRUE, q |-> Query(<<Part(AllTerm)>>), extra |-> <<>>]
        ELSE Applied(LAMBDA st : IF st.ok THEN PartOf(st, parts[n]) ELSE st, Built[n - 1])
  IN  Built[Len(parts)]

\* combine_query_parts and parse_line: the leading query parts become one query.
parse_line(line) ==
  LET commands == [i \in DOMAIN line |-> Named(line[i])]
      rest == {i \in DOMAIN line : commands[i].name \notin QueryParts}
      n == IF rest = {} THEN Len(line) ELSE Min(rest) - 1
      Executed(built) ==
        IF ~built.ok THEN Raised
        ELSE Stream(<<[name |-> "execute_query", query |-> on_section(built.q)]>> \o built.extra
                      \o SubSeq(commands, n + 1, Len(line)))
  IN  IF ~(\A i \in DOMAIN line : command(commands[i])) THEN Raised
      ELSE IF n = 0 THEN Stream(commands)
      ELSE Applied(Executed, create_query(SubSeq(commands, 1, n)))

\* ParsedCommandLine.__post_init__: a source first and flows behind it.
Positioned(commands) ==
  \A i \in DOMAIN commands : commands[i].name \in (IF i = 1 THEN Sources ELSE Flows)

Valid(parsed) == parsed.ok /\ Positioned(parsed.out)

Required(commands) ==
  UNION {IF commands[i].name = "upload" THEN {"file"}
         ELSE IF commands[i].name = "system" /\ commands[i].action = "restore" THEN {"backup"}
         ELSE {} : i \in DOMAIN commands}

\* list_or_gen of the REST API: what is not formatted yet is listed.
list_or_gen(commands) ==
  IF commands = <<>> \/ Last(commands).name \in
       {"jq", "format", "dump", "list", "kind", "jobs", "start_task", "system", "templates"}
  THEN commands ELSE Append(commands, [name |-> "list"])

\* Api.execute: all lines are evaluated before the first one is executed.
evaluate_cli_command(s) ==
  LET input == sessions[s].input
      Evaluated(parsed) ==
        IF ~(\A i \in DOMAIN parsed : Valid(parsed[i])) THEN [sessions[s] EXCEPT !.st = "rejected"]
        ELSE IF UNION {Required(parsed[i].out) : i \in DOMAIN parsed} \subseteq sessions[s].uploads
        THEN [sessions[s] EXCEPT !.st = "running", !.lines = [i \in DOMAIN parsed |-> list_or_gen(parsed[i].out)]]
        ELSE [sessions[s] EXCEPT !.st = "required"]
  IN  /\ sessions[s].st = "waiting"
      /\ sessions' = [sessions EXCEPT ![s] =
           Applied(Evaluated, [i \in DOMAIN input |-> parse_line(input[i])])]
      /\ UNCHANGED <<load, db, cloud, tasks, forked, reaping, templates, jobs, backup, exiting, torn>>

\* External: a client that was told what is required sends the files with its request.
send_files(s) ==
  /\ sessions[s].st = "required"
  /\ sessions' = [sessions EXCEPT ![s].st = "waiting", ![s].uploads = {"file", "backup"}]
  /\ UNCHANGED <<load, db, cloud, tasks, forked, reaping, templates, jobs, backup, exiting, torn>>

-----------------------------------------------------------------------------
(***************************************************************************)
(* Execution of a line.                                                    *)
(***************************************************************************)
Line(s) == sessions[s].lines[sessions[s].line]
Current(s) == Line(s)[sessions[s].pos]

At(s, names) ==
  /\ sessions[s].st = "running" /\ ~sessions[s].busy
  /\ sessions[s].pos <= Len(Line(s)) /\ Current(s).name \in names

\* The session goes on to the next command with a stream, or fails.
Passed(s, result) ==
  LET idle == [sessions[s] EXCEPT !.busy = FALSE, !.todo = <<>>, !.out = <<>>]
      With(stream) == IF stream.ok THEN [idle EXCEPT !.items = stream.out, !.pos = @ + 1]
                      ELSE [idle EXCEPT !.st = "failed"]
  IN  sessions' = [sessions EXCEPT ![s] = Applied(With, result)]

read_source(s) ==
  LET c == Current(s) IN
  /\ At(s, Readers)
  /\ Passed(s, CASE c.name = "execute_query" -> Applied(LAMBDA g : Stream(ExecuteQueryCommand(g, c.query)), graph)
                 [] c.name = "echo" -> Stream(EchoCommand)
                 [] c.name = "json" -> Stream(JsonCommand(c))
                 [] c.name = "sleep" -> Stream(SleepCommand)
                 [] c.name = "env" -> Stream(EnvCommand)
                 [] c.name = "kind" -> Stream(KindCommand(graph, c))
                 [] c.name = "help" -> Stream(HelpCommand)
                 [] c.name = "upload" -> Stream(<<Text("received")>>)
                 [] c.name = "file" -> IF c.exists THEN Stream(<<Text("path")>>) ELSE Raised)
  /\ UNCHANGED <<load, db, cloud, tasks, forked, reaping, templates, jobs, backup, exiting, torn>>

flow(s) ==
  /\ At(s, Pure)
  /\ Passed(s, Flow(Current(s), sessions[s].items))
  /\ UNCHANGED <<load, db, cloud, tasks, forked, reaping, templates, jobs, backup, exiting, torn>>

\* JobsCommand: the command of a job has to be valid when the job is put, and only a job
\* with a trigger is activated or deactivated.
JobsCommand(s) ==
  LET c == Current(s)
      known == c.job \in DOMAIN jobs
      put == c.action = "add" /\ Valid(parse_line(c.line))
      switch == c.action \in {"activate", "deactivate"} /\ known /\ jobs[c.job].trigger
  IN  /\ At(s, {"jobs"})
      /\ jobs' = IF put THEN (c.job :> [trigger |-> c.trigger, active |-> TRUE]) @@ jobs
                 ELSE IF c.action = "delete" THEN [j \in DOMAIN jobs \ {c.job} |-> jobs[j]]
                 ELSE IF switch THEN [jobs EXCEPT ![c.job].active = (c.action = "activate")]
                 ELSE jobs
      /\ Passed(s, IF c.action = "add" /\ ~put THEN Raised
                   ELSE IF c.action \in {"list", "running"}
                   THEN Stream([i \in 1..Cardinality(DOMAIN jobs) |-> Text("job")])
                   ELSE Stream(<<Text("job")>>))
      /\ UNCHANGED <<load, db, cloud, tasks, forked, reaping, templates, backup, exiting, torn>>

\* TemplatesCommand: what is put has to be a query.
TemplatesCommand(s) ==
  LET c == Current(s) IN
  /\ At(s, {"templates"})
  /\ templates' = CASE c.action = "add" /\ c.valid -> (c.template :> c.query) @@ templates
                    [] c.action = "delete" -> [t \in DOMAIN templates \ {c.template} |-> templates[t]]
                    [] OTHER -> templates
  /\ Passed(s, IF c.action = "add" /\ ~c.valid THEN Raised
               ELSE IF c.action = "list"
               THEN Stream([i \in 1..Cardinality(DOMAIN templates) |-> Text("template")])
               ELSE Stream(<<Text("template")>>))
  /\ UNCHANGED <<load, db, cloud, tasks, forked, reaping, jobs, backup, exiting, torn>>

StartTaskCommand(s) ==
  /\ At(s, {"start_task"})
  /\ Passed(s, Stream(<<Text(IF Current(s).job \in DOMAIN jobs THEN "started" ELSE "not started")>>))
  /\ UNCHANGED <<load, db, cloud, tasks, forked, reaping, templates, jobs, backup, exiting, torn>>

\* SystemCommand: "works" when the process that dumps or restores the database succeeds.
\* Whether it does or not, the service is stopped behind a restore.
create_backup(s, works) ==
  /\ At(s, {"system"}) /\ Current(s).action = "create"
  /\ backup' = IF works THEN db ELSE backup
  /\ Passed(s, IF works THEN Stream(<<Text("path")>>) ELSE Raised)
  /\ UNCHANGED <<load, db, cloud, tasks, forked, reaping, templates, jobs, exiting, torn>>

restore_backup(s, works) ==
  /\ At(s, {"system"}) /\ Current(s).action = "restore"
  /\ db' = IF works THEN backup ELSE db
  /\ torn' = IF works THEN DOMAIN backup ELSE torn
  /\ exiting' = TRUE
  /\ Passed(s, IF works THEN Stream(<<Text("restored"), Text("restart")>>) ELSE Raised)
  /\ UNCHANGED <<load, cloud, tasks, forked, reaping, templates, jobs, backup>>

show_system_info(s) ==
  /\ At(s, {"system"}) /\ Current(s).action = "info"
  /\ Passed(s, Stream(<<Text("system")>>))
  /\ UNCHANGED <<load, db, cloud, tasks, forked, reaping, templates, jobs, backup, exiting, torn>>

-----------------------------------------------------------------------------
(***************************************************************************)
(* Commands that take several steps.                                       *)
(***************************************************************************)
Busy(s, names) ==
  sessions[s].st = "running" /\ sessions[s].busy /\ Current(s).name \in names

begin(s) ==
  LET c == Current(s)
      items == sessions[s].items
      nodes == load_by_id_merged(db, items)
  IN  /\ At(s, Updates \cup {"tag", "http"})
      /\ sessions' = [sessions EXCEPT ![s].busy = TRUE, ![s].out = <<>>,
           ![s].left = IF c.name = "http" THEN c.retries ELSE 0,
           ![s].todo = CASE c.name \in Updates -> ChunksOf(items, ChunkSize)
                         [] c.name = "tag" -> [i \in DOMAIN nodes |-> [node |-> nodes[i], doc |-> db[nodes[i]]]]
                         [] c.name = "http" -> items]
      /\ UNCHANGED <<load, db, cloud, tasks, forked, reaping, templates, jobs, backup, exiting, torn>>

\* The chunks of an update are requests of their own; the database serves them in any order.
update_chunk(s, i) ==
  LET chunk == sessions[s].todo[i]
      updated == Ordered(NodeIds(chunk) \cap DOMAIN db)
  IN  /\ Busy(s, Updates)
      /\ IF ChunkRaises(chunk) THEN Passed(s, Raised) /\ UNCHANGED db
         ELSE /\ db' = set_desired(db, Current(s), chunk)
              /\ sessions' = [sessions EXCEPT ![s].todo = RemoveAt(@, i),
                   ![s].out = @ \o [k \in DOMAIN updated |-> Node(graph, updated[k])]]
      /\ UNCHANGED <<load, cloud, tasks, forked, reaping, templates, jobs, backup, exiting, torn>>

\* perform_request: one attempt to call the server.
http_attempt(s, response) ==
  LET r == HttpCommand(sessions[s].left, response) IN
  /\ Busy(s, {"http"}) /\ sessions[s].todo # <<>>
  /\ sessions' = [sessions EXCEPT ![s].left = r.left, ![s].todo = IF r.over THEN Tail(@) ELSE @,
                                  ![s].out = <<Text("sent")>>]
  /\ UNCHANGED <<load, db, cloud, tasks, forked, reaping, templates, jobs, backup, exiting, torn>>

\* The tasks of the current line whose answers are awaited.
Awaited(s) == {t \in tasks : t.s = s /\ ~t.nowait}

Unfinished == {t \in tasks : t.st # "done"}

\* Another task of the node is under way, or has changed the tags since the node was loaded.
Overlaps(item) ==
  \/ \E t \in Unfinished : t.node = item.node
  \/ item.node \in DOMAIN db /\ db[item.node].tags # item.doc.tags

\* SendWorkerTaskCommand.send_to_queue
send_to_queue(s) ==
  LET c == Current(s)
      item == Head(sessions[s].todo)
      task == [s |-> s, line |-> sessions[s].line, node |-> item.node, doc |-> item.doc, key |-> c.key,
               val |-> c.val, nowait |-> c.nowait, st |-> "queued", answer |-> <<>>, read |-> <<>>]
  IN  /\ Busy(s, {"tag"}) /\ sessions[s].todo # <<>>
      /\ Cardinality(Awaited(s)) < TaskLimit
      /\ tasks' = tasks \cup {task}
      /\ forked' = IF c.nowait THEN Append(forked, task) ELSE forked
      /\ sessions' = [sessions EXCEPT ![s].todo = Tail(@),
                        ![s].out = IF c.nowait THEN Append(@, Text("spawned")) ELSE @]
      /\ torn' = IF Overlaps(item) THEN torn \cup {item.node} ELSE torn
      /\ UNCHANGED <<load, db, cloud, reaping, templates, jobs, backup, exiting>>

finish(s) ==
  /\ Busy(s, Updates \cup {"tag", "http"})
  /\ sessions[s].todo = <<>> /\ Awaited(s) = {}
  /\ Passed(s, Stream(sessions[s].out))
  /\ UNCHANGED <<load, db, cloud, tasks, forked, reaping, templates, jobs, backup, exiting, torn>>

\* execute_parsed: the lines are executed one after the other.
next_line(s) ==
  /\ sessions[s].st = "running" /\ sessions[s].pos > Len(Line(s))
  /\ sessions' = [sessions EXCEPT ![s] =
       IF @.line = Len(@.lines) THEN [@ EXCEPT !.st = "done"]
       ELSE [@ EXCEPT !.line = @ + 1, !.pos = 1, !.items = <<>>]]
  /\ UNCHANGED <<load, db, cloud, tasks, forked, reaping, templates, jobs, backup, exiting, torn>>

-----------------------------------------------------------------------------
(***************************************************************************)
(* Tag tasks.                                                              *)
(***************************************************************************)

\* A task changes; one that is awaited disappears with its result, which goes into the stream.
Changed(t, u) ==
  /\ tasks' = (tasks \ {t}) \cup (IF u.st = "done" /\ ~t.nowait THEN {} ELSE {u})
  /\ forked' = [i \in DOMAIN forked |-> IF forked[i] = t THEN u ELSE forked[i]]
  /\ reaping' = [i \in DOMAIN reaping |-> IF reaping[i] = t THEN u ELSE reaping[i]]

Results(t, item) ==
  sessions' = IF t.nowait THEN sessions ELSE [sessions EXCEPT ![t.s].out = Append(@, item)]

Done(t) == [t EXCEPT !.st = "done", !.answer = <<>>, !.read = <<>>]

\* A worker changes the tag and answers; an error of the worker is the error of the task,
\* and the core does not learn of a change that came before the error.
worker_tags(t, failure) ==
  LET r == core_tag_tasks_processor(graph.kind[t.node], cloud[t.node], t.doc, t.key, t.val, failure)
      ok == r.result = "done"
  IN  /\ t.st = "queued"
      /\ cloud' = [cloud EXCEPT ![t.node] = r.cloud]
      /\ Changed(t, IF ok THEN [t EXCEPT !.st = "answered", !.answer = <<r.node>>] ELSE Done(t))
      /\ torn' = IF failure = "late" /\ r.cloud # cloud[t.node] THEN torn \cup {t.node} ELSE torn
      /\ IF ok THEN UNCHANGED sessions ELSE Results(t, Failure(t.node))
      /\ UNCHANGED <<load, db, templates, jobs, backup, exiting>>

\* The task outlives its time; the worker may or may not have reached the cloud.
task_times_out(t, reached) ==
  LET r == core_tag_tasks_processor(graph.kind[t.node], cloud[t.node], t.doc, t.key, t.val, "no") IN
  /\ t.st = "queued"
  /\ cloud' = IF reached THEN [cloud EXCEPT ![t.node] = r.cloud] ELSE cloud
  /\ torn' = torn \cup {t.node}
  /\ Changed(t, Done(t)) /\ Results(t, Failure(t.node))
  /\ UNCHANGED <<load, db, templates, jobs, backup, exiting>>

\* TagCommand.handle_result: the node is read and written in two requests.
read_node(t) ==
  LET there == t.node \in DOMAIN db IN
  /\ t.st = "answered"
  /\ Changed(t, IF there THEN [t EXCEPT !.st = "read", !.read = <<db[t.node]>>] ELSE Done(t))
  /\ IF there THEN UNCHANGED sessions ELSE Results(t, Failure(t.node))
  /\ UNCHANGED <<load, db, cloud, templates, jobs, backup, exiting, torn>>

write_node(t) ==
  LET there == t.node \in DOMAIN db IN
  /\ t.st = "read"
  /\ db' = IF there THEN [db EXCEPT ![t.node] = update_node(t.read[1], t.answer[1])] ELSE db
  /\ Changed(t, Done(t))
  /\ Results(t, IF there THEN Node(graph, t.node) ELSE Failure(t.node))
  /\ UNCHANGED <<load, cloud, templates, jobs, backup, exiting, torn>>

\* reap_tasks: the reaper waits for one forked task after the other.
reap_next ==
  /\ reaping = <<>> /\ forked # <<>>
  /\ reaping' = <<Head(forked)>> /\ forked' = Tail(forked)
  /\ UNCHANGED <<load, db, cloud, sessions, tasks, templates, jobs, backup, exiting, torn>>

reap_tasks ==
  /\ reaping # <<>> /\ reaping[1].st = "done"
  /\ tasks' = tasks \ {reaping[1]} /\ reaping' = <<>>
  /\ UNCHANGED <<load, db, cloud, sessions, forked, templates, jobs, backup, exiting, torn>>

-----------------------------------------------------------------------------

\* CLI.stop: what is forked is cancelled; the process takes the sessions with it.
stop ==
  /\ exiting /\ up
  /\ up' = FALSE
  /\ sessions' = [s \in DOMAIN sessions |->
       IF sessions[s].st \in {"done", "failed", "rejected"} THEN sessions[s]
       ELSE [sessions[s] EXCEPT !.st = "failed", !.busy = FALSE]]
  /\ torn' = torn \cup {t.node : t \in Unfinished}
  /\ tasks' = {} /\ forked' = <<>> /\ reaping' = <<>>
  /\ UNCHANGED <<load, db, cloud, templates, jobs, backup, exiting>>

\* The next collect run replaces the graph by one without the node.
node_vanishes(n) ==
  /\ n \in load.vanishing \cap DOMAIN db
  /\ db' = [m \in DOMAIN db \ {n} |-> db[m]]
  /\ UNCHANGED <<load, cloud, sessions, tasks, forked, reaping, templates, jobs, backup, exiting, torn>>

SessionStep(s) ==
  \/ evaluate_cli_command(s) \/ send_files(s)
  \/ read_source(s) \/ flow(s)
  \/ JobsCommand(s) \/ TemplatesCommand(s) \/ StartTaskCommand(s)
  \/ \E works \in BOOLEAN : create_backup(s, works) \/ restore_backup(s, works)
  \/ show_system_info(s)
  \/ begin(s)
  \/ \E i \in DOMAIN sessions[s].todo : update_chunk(s, i)
  \/ \E r \in {"ok", "status", "exception"} : http_attempt(s, r)
  \/ send_to_queue(s)
  \/ finish(s) \/ next_line(s)

TaskStep ==
  \E t \in tasks :
    \/ \E failure \in Failures : worker_tags(t, failure)
    \/ \E reached \in BOOLEAN : task_times_out(t, reached)
    \/ read_node(t) \/ write_node(t)

ReaperStep == reap_next \/ reap_tasks

Next ==
  \/ /\ up /\ UNCHANGED up
     /\ \/ \E s \in DOMAIN sessions : SessionStep(s)
        \/ TaskStep \/ ReaperStep
        \/ \E n \in DOMAIN db : node_vanishes(n)
  \/ stop

\* A session and the reaper go on when they can; a tag task is answered or times out
\* (PromiseKept and EveryTaskResolved of the worker task queue), and its answer is handled.
Fairness ==
  /\ \A s \in {"s1", "s2"} : WF_vars(up /\ UNCHANGED up /\ s \in DOMAIN sessions /\ SessionStep(s))
  /\ WF_vars(up /\ UNCHANGED up /\ TaskStep)
  /\ WF_vars(up /\ UNCHANGED up /\ ReaperStep)
  /\ WF_vars(stop)

Spec == Init /\ [][Next]_vars /\ Fairness
-----------------------------------------------------------------------------
(***************************************************************************)
(* Properties.                                                             *)
(***************************************************************************)

\* The result of the query parts of a line when every one of them is executed on what the
\* one before it returned.
Piped(line) ==
  LET empty == [ok |-> TRUE, q |-> Query(<<Part(AllTerm)>>), extra |-> <<>>]
      Nodes(S) == [i \in DOMAIN S |-> Node(graph, S[i])]
      Found(in, q) ==
        Applied(Nodes, query_string(graph, [i \in DOMAIN in |-> in[i].node], q))
      One(in, c) ==
        IF c.name \in {"head", "tail", "count"} THEN Flow(c, in).out
        ELSE Applied(LAMBDA q : Found(in, q), on_section(PartOf(empty, c).q))
  IN  FoldLeft(One, Nodes(Ordered(graph.nodes)), line)

Names(line, names) == {i \in DOMAIN line : line[i].name \in names}

\* What the query language can express: a limit ends its part, a count ends the line, tail
\* needs nodes in the order of their keys, and a limit comes before what is merged or counted.
Expressible(line) ==
  /\ \A i \in DOMAIN line :
       /\ line[i].name \in QueryParts \ {"aggregate"}
       /\ line[i].name = "query" => line[i].template = <<>>
       /\ line[i].name = "count" => i = Len(line)
       /\ line[i].name \in {"head", "tail"} =>
            /\ line[i].size > 0
            /\ i < Len(line) => line[i + 1].name \notin {"query", "head", "tail"}
       /\ line[i].name = "tail" =>
            \A j \in 1..(i - 1) :
              /\ line[j].name # "tail"
              /\ line[j].name = "query" => LET p == CurrentPart(line[j].arg)
                                           IN  p.sort = <<>> /\ (p.nav # <<>> => p.nav[1].dir # "inout")
  /\ \A p \in Elements(create_query(line).q.parts) :
       ~p.tag /\ (p.limit # <<>> => p.with = <<>> /\ ~has_ancestor_descendant(p.term))

\* Without shortcuts all paths between two nodes have the same length.
Shortcuts ==
  \E n \in graph.nodes, e \in {"default", "delete"}, d \in {"in", "out"} :
    \E a \in 1..Cardinality(graph.nodes) : \E b \in 1..(a - 1) :
      LET Walk[k \in 0..a] == IF k = 0 THEN {n}
            ELSE UNION {Traversal(graph, m, Navigation(1, 1, e, d)) : m \in Walk[k - 1]}
      IN  Walk[a] \cap Walk[b] # {}

\* A filter or a limit behind a limit lands in the part of that limit, which is then taken
\* of what the filter lets through.
Loosened(line) ==
  /\ \A i \in DOMAIN line :
       /\ line[i].name \in (QueryOnly \ {"aggregate"}) \cup {"head"}
       /\ line[i].name = "query" => line[i].template = <<>>
       /\ line[i].name = "head" => line[i].size > 0
  /\ LET parts == create_query(line).q.parts
         limited == {i \in DOMAIN parts : parts[i].limit # <<>>}
     IN  Cardinality(limited) = 1 /\ \A i \in limited :
           LET p == parts[i] IN p.sort = <<>> /\ p.with = <<>> /\ ~has_ancestor_descendant(p.term)

\* How often a stream has each of its elements.
Tally(items) == [e \in Elements(items) |-> Cardinality({i \in DOMAIN items : items[i] = e})]

CountedOf(items) == SelectSeq(items, LAMBDA e : Is("key", e))
AllMatched(items) == \E i \in DOMAIN items : items[i] = Total("unmatched", 0)

\* What a line returns of what its commands return one after the other: the same in the
\* same order - in any order behind tail, which sorts by key, count and with; of a count the
\* lines, and the totals if every element has the property; no less if filters meet a limit.
SameAnswer(line, items, piped) ==
  IF ~Expressible(line) THEN Elements(piped) \subseteq Elements(items)
  ELSE IF Names(line, {"count"}) # {} /\ ~AllMatched(piped)
  THEN Tally(CountedOf(items)) = Tally(CountedOf(piped))
  ELSE /\ Tally(items) = Tally(piped)
       /\ \/ items = piped \/ Names(line, {"count", "tail"}) # {}
          \/ \E i \in Names(line, {"query"}) : CurrentPart(line[i].arg).with # <<>>

\* The query a line's commands are combined to (create_query, Query.traverse, combine and
\* with_limit) returns what the commands return one after the other.  Traversals joined to
\* one miss what a shortcut reaches in fewer steps, but never return more.
CombinedIsPiped ==
  \A s \in DOMAIN sessions :
    LET line == sessions[s].input[1]
        items == sessions[s].items
    IN  /\ At(s, {"list"}) /\ sessions[s].line = 1 /\ load.vanishing = {}
        /\ Expressible(line) \/ (Loosened(line) /\ ~Shortcuts)
        => \A piped \in {Piped(line)} :
             IF Shortcuts
             THEN Names(line, {"head", "tail", "count"}) = {} => Elements(items) \subseteq Elements(piped)
             ELSE SameAnswer(line, items, piped)

\* A count reports what has not the property as unmatched, whether it is executed by the
\* command or by the query: the help of count says so, and create_query does not.
CountIsPiped ==
  \A s \in DOMAIN sessions :
    LET line == sessions[s].input[1]
    IN  /\ At(s, {"list"}) /\ sessions[s].line = 1 /\ load.vanishing = {} /\ ~Shortcuts
        /\ Expressible(line) /\ Names(line, {"count"}) # {}
        => Elements(sessions[s].items) = Elements(Piped(line))

\* The core shows the tags a resource has in the cloud once its tag tasks are finished,
\* whether they were done, refused or not implemented (handle_result of the tag command, the
\* tag methods of the resources), unless two of them overlapped, one was sent a document
\* that was outdated, an answer was lost, or an error came behind the change of the cloud.
TagsInSync ==
  \A n \in DOMAIN db \ torn :
    \/ \E t \in Unfinished : t.node = n
    \/ Request(graph.kind[n]) \in {"pretends", "custom"}
    \/ db[n].tags = cloud[n]

\* Every input is executed to its end or fails, no answer is awaited for ever, and the
\* reaper takes every forked task (reap_tasks, perform_request, send_to_queue).
LinesEnd ==
  <>[](/\ \A s \in DOMAIN sessions : sessions[s].st \in {"done", "failed", "rejected"}
       /\ tasks = {} /\ forked = <<>> /\ reaping = <<>>)

\* A resource that is protected stays protected: "All objects marked as such will not be
\* cleaned up" (ProtectCommand).  The answer of a tag task brings back an older state.
ProtectStays ==
  [][\A n \in DOMAIN db \cap DOMAIN db' : db[n].protected => db'[n].protected]_vars

=============================================================================
