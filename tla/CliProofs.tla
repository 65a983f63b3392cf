------------------------------ MODULE CliProofs ------------------------------
(***************************************************************************)
(* The tags of core and cloud agree: proof of TagsInSync.                  *)
(***************************************************************************)
EXTENDS Cli, TLAPS

-----------------------------------------------------------------------------
(* What a worker makes of a tag task *)

IsFcn(f) == f = [x \in DOMAIN f |-> f[x]]

Requests == {"key", "stack", "labels", "patch", "custom", "pretends", "refuses", "raises"}

\* The request a class makes for its tags is one of those update_tag distinguishes.
LEMMA TagsFact ==
    /\ \A how : Resource!Deletes(how) = [delete |-> how, look |-> "nowhere", kinds |-> {}, tag |-> "raises"]
    /\ \A how, look, kinds : Resource!Detaches(how, look, kinds).tag = "raises"
    /\ \A how, look, kinds : DOMAIN Resource!Detaches(how, look, kinds) = {"delete", "look", "kinds", "tag"}
    /\ \A r, how : Resource!Tags(r, Resource!Deletes(how)).tag = r
    /\ \A r, how, look, kinds : Resource!Tags(r, Resource!Detaches(how, look, kinds)).tag = r
  <1>1. \A how : Resource!Deletes(how) = [delete |-> how, look |-> "nowhere", kinds |-> {}, tag |-> "raises"]
    BY DEF Resource!Deletes
  <1>2. ASSUME NEW how, NEW look, NEW kinds
        PROVE  /\ Resource!Detaches(how, look, kinds).tag = "raises"
               /\ DOMAIN Resource!Detaches(how, look, kinds) = {"delete", "look", "kinds", "tag"}
    BY <1>1 DEF Resource!Detaches
  <1>3. ASSUME NEW r, NEW how PROVE Resource!Tags(r, Resource!Deletes(how)).tag = r
    BY <1>1 DEF Resource!Tags
  <1>4. ASSUME NEW r, NEW how, NEW look, NEW kinds
        PROVE  Resource!Tags(r, Resource!Detaches(how, look, kinds)).tag = r
    BY <1>2 DEF Resource!Tags
  <1> QED
    BY <1>1, <1>2, <1>3, <1>4

\* Every kind of resource makes one of these requests.
LEMMA RequestFact == ASSUME NEW kind PROVE Request(kind) \in Requests
  <1>1. Resource!Class(kind).tag \in Requests
    BY TagsFact DEF Resource!Class, Requests, Resource!AWSResource, Resource!AWSEC2Instance,
       Resource!AWSEC2KeyPair, Resource!AWSEC2Volume, Resource!AWSEC2Snapshot, Resource!AWSEC2Subnet,
       Resource!AWSEC2ElasticIP, Resource!AWSVPC, Resource!AWSS3Bucket, Resource!AWSELB,
       Resource!AWSALB, Resource!AWSALBTargetGroup, Resource!AWSEC2InternetGateway,
       Resource!AWSEC2NATGateway, Resource!AWSEC2SecurityGroup, Resource!AWSEC2RouteTable,
       Resource!AWSVPCPeeringConnection, Resource!AWSVPCEndpoint, Resource!AWSEC2NetworkAcl,
       Resource!AWSEC2NetworkInterface, Resource!AWSIAMUser, Resource!AWSIAMGroup,
       Resource!AWSIAMRole, Resource!AWSIAMPolicy, Resource!AWSIAMInstanceProfile,
       Resource!AWSIAMAccessKey, Resource!AWSIAMServerCertificate, Resource!AWSCloudFormationStack,
       Resource!AWSEKSCluster, Resource!AWSEKSNodegroup, Resource!AWSAutoScalingGroup,
       Resource!AWSCloudwatchAlarm, Resource!GCPResource, Resource!GCPBucket
  <1> QED
    BY <1>1 DEF Request, Requests, GCPDatabase, GithubResource, OnpremResource,
       KubernetesResource, VSphereInstance

\* What a request returns follows what it leaves in the cloud: the tag is set and nothing
\* else, or the cloud is as it was; it raises behind a change only if the failure is late.
Sound(r, tags, key, val, failure) ==
  /\ r.value \in {"true", "false", "raises"}
  /\ r.cloud \in {tags, [tags EXCEPT ![key] = val]}
  /\ r.value = "true" => r.cloud = [tags EXCEPT ![key] = val]
  /\ r.value = "false" \/ (r.value = "raises" /\ failure # "late") => r.cloud = tags

\* The requests are sound when the worker was sent the tags of the cloud.
LEMMA UpdateFact ==
    ASSUME NEW request \in Requests \ {"pretends", "custom"}, NEW tags, IsFcn(tags), NEW key, NEW val,
           NEW failure \in Failures
    PROVE  Sound(update_tag(request, tags, tags, key, val, failure), tags, key, val, failure)
  <1> USE DEF Sound, Requested, Returns, Failures
  <1>1. CASE request = "key"
    BY <1>1 DEF update_tag
  <1>2. CASE request = "stack"
    BY <1>2 DEF update_tag, _modify_tag, IsFcn
  <1>3. CASE request = "labels"
    BY <1>3 DEF update_tag, update_label
  <1>4. CASE request = "patch"
    BY <1>4 DEF update_tag
  <1>5. CASE request \in {"refuses", "raises"}
    BY <1>5 DEF update_tag
  <1> QED
    BY <1>1, <1>2, <1>3, <1>4, <1>5 DEF Requests

\* A worker that was sent the tags of the cloud answers the tags the cloud has then; an
\* error leaves the cloud as it was, unless it is late.
LEMMA WorkerFact ==
    ASSUME NEW kind, Request(kind) \notin {"pretends", "custom"}, NEW tags, IsFcn(tags),
           NEW doc, doc.tags = tags, NEW key, NEW val, NEW failure \in Failures
    PROVE  LET r == core_tag_tasks_processor(kind, tags, doc, key, val, failure)
           IN  /\ r.result = "done" => r.node.reported = r.cloud
               /\ r.result # "done" /\ failure # "late" => r.cloud = tags
               /\ IsFcn(r.cloud)
  <1> DEFINE node == node_from_dict(doc)
             u == update_tag(Request(kind), tags, node.tags, key, val, failure)
             new == IF val = Unset THEN __delitem__(node.tags, key, u.value)
                    ELSE __setitem__(node.tags, key, val, u.value)
             r == core_tag_tasks_processor(kind, tags, doc, key, val, failure)
  <1>1. node.tags = tags /\ DOMAIN node = {"tags", "protected", "clean"}
    BY DEF node_from_dict
  <1>2. Sound(u, tags, key, val, failure)
    <2> HIDE DEF node
    <2>1. Request(kind) \in Requests \ {"pretends", "custom"}
      BY RequestFact
    <2> QED
      BY <1>1, <2>1, UpdateFact
  <1>3. ~Raises(node.tags, key, val, u.value) => new = u.cloud
    <2> HIDE DEF u, node
    <2> QED
      BY <1>1, <1>2 DEF __delitem__, __setitem__, Raises, Sound
  <1>4. /\ r.result = IF Raises(node.tags, key, val, u.value) THEN "error" ELSE "done"
        /\ r.node.reported = [node EXCEPT !.tags = new].tags
        /\ r.cloud = u.cloud
    BY DEF core_tag_tasks_processor, node_to_dict
  <1>5. [node EXCEPT !.tags = new].tags = new
    <2> HIDE DEF node, new
    <2> QED
      BY <1>1
  <1>6. Raises(node.tags, key, val, u.value) /\ failure # "late" => u.cloud = tags
    <2> HIDE DEF u, node
    <2> QED
      BY <1>1, <1>2 DEF Raises, IsFcn, Sound
  <1>7. IsFcn(u.cloud)
    <2> HIDE DEF u
    <2> QED
      BY <1>2 DEF IsFcn, Sound
  <1> HIDE DEF u, node, new, r
  <1> QED
    BY <1>3, <1>4, <1>5, <1>6, <1>7 DEF r

-----------------------------------------------------------------------------
(* The invariant *)

TaskFields == {"s", "line", "node", "doc", "key", "val", "nowait", "st", "answer", "read"}
DocFields == {"tags", "clean", "wish", "protected", "note"}

\* Documents and tasks have their fields; a document of the core is one of a resource.
Shape ==
  /\ load \in Workloads
  /\ DOMAIN db \subseteq DOMAIN cloud /\ DOMAIN backup \subseteq DOMAIN cloud
  /\ \A n \in DOMAIN db : DOMAIN db[n] = DocFields
  /\ \A n \in DOMAIN backup : DOMAIN backup[n] = DocFields
  /\ \A t \in tasks : DOMAIN t = TaskFields

\* The class of the resource does what it is asked to, or says that it does not.
Honest(n) == Request(load.graph.kind[n]) \notin {"pretends", "custom"}

\* What the one task of a node, if there is one, is worth: until the worker has it, core,
\* cloud and the document it is sent agree; then its answer has the tags of the cloud.
Agrees(n) ==
  /\ IsFcn(cloud[n])
  /\ \A t, u \in Unfinished : t.node = n /\ u.node = n => t = u
  /\ \A t \in Unfinished : t.node = n =>
       IF t.st = "queued" THEN t.doc.tags = cloud[n] /\ db[n].tags = cloud[n]
       ELSE t.answer[1].reported = cloud[n]
  /\ (\A t \in Unfinished : t.node # n) => db[n].tags = cloud[n]

TagInv == Shape /\ \A n \in DOMAIN db \ torn : Honest(n) => Agrees(n)

\* The kinds of the nodes do not change when nodes vanish.
LEMMA KindFact == ASSUME load \in Workloads PROVE graph.kind = load.graph.kind
  BY GraphAssumption DEF graph

\* Documents are fresh and no task exists when the service starts.
LEMMA InitTags == Init => TagInv
  <1> SUFFICES ASSUME Init PROVE TagInv
    OBVIOUS
  <1>1. \A n : DOMAIN Fresh(n) = DocFields /\ IsFcn(Fresh(n).tags)
    BY DEF Fresh, DocFields, IsFcn
  <1>2. Shape
    BY <1>1 DEF Init, Shape
  <1>3. ASSUME NEW n \in DOMAIN db PROVE Agrees(n)
    BY <1>1, <1>3 DEF Init, Agrees, Unfinished
  <1> QED
    BY <1>2, <1>3 DEF TagInv

\* A step that changes none of the documents, tags and unfinished tasks.
LEMMA QuietStep ==
    ASSUME TagInv, UNCHANGED <<load, db, cloud, torn>>, Unfinished' = Unfinished,
           \A t \in tasks' : DOMAIN t = TaskFields, backup' \in {backup, db}
    PROVE  TagInv'
  <1>1. Shape'
    BY DEF TagInv, Shape
  <1>2. \A n : (Honest(n) <=> Honest(n)') /\ (Agrees(n) <=> Agrees(n)')
    BY DEF Honest, Agrees
  <1> QED
    BY <1>1, <1>2 DEF TagInv

\* The steps of a session that touch none of these at all.
LEMMA SessionsStep ==
    ASSUME TagInv, NEW s,
           \/ evaluate_cli_command(s) \/ send_files(s) \/ read_source(s) \/ flow(s)
           \/ JobsCommand(s) \/ TemplatesCommand(s) \/ StartTaskCommand(s)
           \/ \E works \in BOOLEAN : create_backup(s, works)
           \/ show_system_info(s) \/ begin(s) \/ finish(s) \/ next_line(s)
           \/ \E r : http_attempt(s, r)
    PROVE  TagInv'
  <1>1. UNCHANGED <<load, db, cloud, torn, tasks>> /\ backup' \in {backup, db}
    BY DEF evaluate_cli_command, send_files, read_source, flow, JobsCommand, TemplatesCommand,
       StartTaskCommand, create_backup, show_system_info, begin, finish, next_line, http_attempt
  <1> QED
    BY <1>1, QuietStep DEF Unfinished, TagInv, Shape

\* The backup is older than the tags of the cloud may be: all its nodes are torn.
LEMMA RestoreStep ==
    ASSUME TagInv, NEW s, NEW works \in BOOLEAN, restore_backup(s, works)
    PROVE  TagInv'
  <1>1. CASE works
    <2>1. Shape' /\ DOMAIN db' \ torn' = {}
      BY <1>1 DEF restore_backup, TagInv, Shape
    <2> QED
      BY <2>1 DEF TagInv
  <1>2. CASE ~works
    <2>1. UNCHANGED <<load, db, cloud, torn, tasks, backup>>
      BY <1>2 DEF restore_backup
    <2> QED
      BY <2>1, QuietStep DEF Unfinished, TagInv, Shape
  <1> QED
    BY <1>1, <1>2

\* clean, protect and the setters of sections leave the tags alone.
LEMMA ChunkStep ==
    ASSUME TagInv, NEW s, NEW i, update_chunk(s, i)
    PROVE  TagInv'
  <1>1. UNCHANGED <<load, cloud, torn, tasks, backup>>
    BY DEF update_chunk
  <1>2. /\ DOMAIN db' = DOMAIN db
        /\ \A n \in DOMAIN db : DOMAIN db'[n] = DocFields /\ db'[n].tags = db[n].tags
    <2>1. CASE db' = db
      BY <2>1 DEF TagInv, Shape
    <2>2. CASE db' = set_desired(db, Current(s), sessions[s].todo[i])
      <3>1. ASSUME NEW d, NEW patch, DOMAIN d = DocFields
            PROVE  /\ DOMAIN update_nodes_section(d, patch) = DocFields
                   /\ update_nodes_section(d, patch).tags = d.tags
        BY <3>1 DEF update_nodes_section, DocFields
      <3> QED
        BY <2>2, <3>1 DEF set_desired, TagInv, Shape
    <2> QED
      BY <2>1, <2>2 DEF update_chunk
  <1>3. Shape'
    BY <1>1, <1>2 DEF TagInv, Shape
  <1>4. ASSUME NEW n \in DOMAIN db, Agrees(n) PROVE Agrees(n)'
    BY <1>1, <1>2, <1>4 DEF Agrees, Unfinished
  <1>5. \A n : Honest(n) <=> Honest(n)'
    BY <1>1 DEF Honest
  <1> QED
    BY <1>1, <1>2, <1>3, <1>4, <1>5 DEF TagInv

\* A task is sent for a node without another one, and with the tags the core has.
LEMMA SendStep ==
    ASSUME TagInv, NEW s, send_to_queue(s)
    PROVE  TagInv'
  <1> DEFINE c == Current(s)
             item == Head(sessions[s].todo)
             task == [s |-> s, line |-> sessions[s].line, node |-> item.node, doc |-> item.doc,
                      key |-> c.key, val |-> c.val, nowait |-> c.nowait, st |-> "queued",
                      answer |-> <<>>, read |-> <<>>]
  <1>1. /\ UNCHANGED <<load, db, cloud, backup>> /\ tasks' = tasks \cup {task}
        /\ torn' = IF Overlaps(item) THEN torn \cup {item.node} ELSE torn
    BY DEF send_to_queue
  <1>2. /\ DOMAIN task = TaskFields /\ task.node = item.node /\ task.st = "queued"
        /\ task.doc = item.doc
    BY DEF TaskFields
  <1> HIDE DEF task, item, c
  <1>3. Shape' /\ Unfinished' = Unfinished \cup {task}
    BY <1>1, <1>2 DEF TagInv, Shape, Unfinished
  <1>4. ASSUME NEW n \in DOMAIN db' \ torn', Honest(n)' PROVE Agrees(n)'
    <2>1. Agrees(n) /\ n \in DOMAIN db \ torn
      BY <1>1, <1>4 DEF TagInv, Honest
    <2>2. CASE n # task.node
      BY <1>1, <1>2, <1>3, <2>1, <2>2 DEF Agrees
    <2>3. CASE n = task.node
      <3>1. ~Overlaps(item)
        BY <1>1, <1>2, <1>4, <2>3
      <3>2. (\A t \in Unfinished : t.node # n) /\ db[n].tags = task.doc.tags
        BY <1>2, <2>1, <2>3, <3>1 DEF Overlaps
      <3> QED
        BY <1>1, <1>2, <1>3, <2>1, <2>3, <3>2 DEF Agrees
    <2> QED
      BY <2>2, <2>3
  <1> QED
    BY <1>3, <1>4 DEF TagInv

\* A task of a node goes on: nothing changes for other nodes, and for its own node it is
\* enough that the new state of the task is worth what the invariant says.
LEMMA TaskChange ==
    ASSUME TagInv, NEW t \in Unfinished, NEW u, DOMAIN u = TaskFields, u.node = t.node,
           Changed(t, u), UNCHANGED <<load, backup>>, DOMAIN db' = DOMAIN db,
           DOMAIN cloud' = DOMAIN cloud, torn \subseteq torn',
           \A n \in DOMAIN db : DOMAIN db'[n] = DocFields,
           \A n \in DOMAIN db : n # t.node => db'[n] = db[n] /\ cloud'[n] = cloud[n],
           t.node \in DOMAIN db \ torn' /\ Honest(t.node) /\ Agrees(t.node) =>
             /\ IsFcn(cloud'[t.node]) /\ u.st # "queued"
             /\ IF u.st = "done" THEN db'[t.node].tags = cloud'[t.node]
                ELSE u.answer[1].reported = cloud'[t.node]
    PROVE  TagInv'
  <1>1. tasks' = (tasks \ {t}) \cup (IF u.st = "done" /\ ~t.nowait THEN {} ELSE {u})
    BY DEF Changed
  <1>2. Unfinished' = (Unfinished \ {t}) \cup (IF u.st = "done" THEN {} ELSE {u})
    BY <1>1 DEF Unfinished
  <1>3. Shape'
    BY <1>1 DEF TagInv, Shape
  <1>4. ASSUME NEW n \in DOMAIN db' \ torn', Honest(n)' PROVE Agrees(n)'
    <2>1. Agrees(n) /\ n \in DOMAIN db \ torn /\ Honest(n)
      BY <1>4 DEF TagInv, Honest
    <2>2. CASE n # t.node
      <3>1. \A v : v.node = n => (v \in Unfinished <=> v \in Unfinished')
        BY <1>2, <2>2
      <3> QED
        BY <2>1, <2>2, <3>1 DEF Agrees
    <2>3. CASE n = t.node
      <3>1. \A v \in Unfinished' : v.node = n => v = u /\ u.st # "done"
        BY <1>2, <2>1, <2>3 DEF Agrees
      <3>2. u.st # "done" => u \in Unfinished'
        BY <1>2
      <3> QED
        BY <1>4, <2>1, <2>3, <3>1, <3>2 DEF Agrees
    <2> QED
      BY <2>2, <2>3
  <1> QED
    BY <1>3, <1>4 DEF TagInv

\* A finished task keeps its node and its fields.
LEMMA DoneFact ==
    ASSUME NEW t, DOMAIN t = TaskFields
    PROVE  DOMAIN Done(t) = TaskFields /\ Done(t).node = t.node /\ Done(t).st = "done"
  BY DEF Done, TaskFields

\* The worker is sent the tags of the cloud, and answers what it leaves there.
LEMMA WorkerStep ==
    ASSUME TagInv, NEW t \in tasks, NEW failure \in Failures, worker_tags(t, failure)
    PROVE  TagInv'
  <1> DEFINE r == core_tag_tasks_processor(graph.kind[t.node], cloud[t.node], t.doc, t.key, t.val, failure)
             ok == r.result = "done"
             u == IF ok THEN [t EXCEPT !.st = "answered", !.answer = <<r.node>>] ELSE Done(t)
  <1>1. /\ t.st = "queued" /\ cloud' = [cloud EXCEPT ![t.node] = r.cloud] /\ Changed(t, u)
        /\ torn' = IF failure = "late" /\ r.cloud # cloud[t.node] THEN torn \cup {t.node} ELSE torn
        /\ UNCHANGED <<load, db, backup>>
    BY DEF worker_tags
  <1> HIDE DEF r
  <1>2. DOMAIN t = TaskFields /\ t \in Unfinished
    BY <1>1 DEF TagInv, Shape, Unfinished
  <1>3. /\ DOMAIN u = TaskFields /\ u.node = t.node
        /\ ok => u.st = "answered" /\ u.answer[1] = r.node
        /\ ~ok => u.st = "done"
    BY <1>2, DoneFact DEF TaskFields
  <1> HIDE DEF u
  <1>4. ASSUME t.node \in DOMAIN db \ torn', Honest(t.node), Agrees(t.node)
        PROVE  /\ IsFcn(cloud'[t.node]) /\ u.st # "queued"
               /\ IF u.st = "done" THEN db'[t.node].tags = cloud'[t.node]
                  ELSE u.answer[1].reported = cloud'[t.node]
    <2>1. Request(graph.kind[t.node]) \notin {"pretends", "custom"}
      BY <1>4, KindFact DEF Honest, TagInv, Shape
    <2>2. /\ IsFcn(cloud[t.node]) /\ t.doc.tags = cloud[t.node]
          /\ db[t.node].tags = cloud[t.node]
      BY <1>1, <1>2, <1>4 DEF Agrees
    <2>3. /\ ok => r.node.reported = r.cloud
          /\ ~ok /\ failure # "late" => r.cloud = cloud[t.node]
          /\ IsFcn(r.cloud)
      BY <2>1, <2>2, WorkerFact DEF r
    <2>4. cloud'[t.node] = r.cloud
      BY <1>1, <1>4 DEF TagInv, Shape
    <2>5. ~ok => r.cloud = cloud[t.node]
      BY <1>1, <1>4, <2>3
    <2> HIDE DEF ok
    <2> QED
      BY <1>1, <1>3, <2>2, <2>3, <2>4, <2>5
  <1>5. /\ DOMAIN db' = DOMAIN db /\ DOMAIN cloud' = DOMAIN cloud /\ torn \subseteq torn'
        /\ \A n \in DOMAIN db : DOMAIN db'[n] = DocFields
        /\ \A n \in DOMAIN db : n # t.node => db'[n] = db[n] /\ cloud'[n] = cloud[n]
    BY <1>1 DEF TagInv, Shape
  <1> QED
    BY <1>1, <1>2, <1>3, <1>4, <1>5, TaskChange

\* Nobody knows whether a task that has timed out has reached the cloud: its node is torn.
LEMMA TimeoutStep ==
    ASSUME TagInv, NEW t \in tasks, NEW reached \in BOOLEAN, task_times_out(t, reached)
    PROVE  TagInv'
  <1>1. /\ t.st = "queued" /\ Changed(t, Done(t)) /\ UNCHANGED <<load, db, backup>>
        /\ torn' = torn \cup {t.node}
        /\ \E x : cloud' \in {cloud, [cloud EXCEPT ![t.node] = x]}
    BY DEF task_times_out
  <1>2. DOMAIN t = TaskFields /\ t \in Unfinished
    BY <1>1 DEF TagInv, Shape, Unfinished
  <1>3. /\ DOMAIN db' = DOMAIN db /\ DOMAIN cloud' = DOMAIN cloud /\ torn \subseteq torn'
        /\ \A n \in DOMAIN db : DOMAIN db'[n] = DocFields
        /\ \A n \in DOMAIN db : n # t.node => db'[n] = db[n] /\ cloud'[n] = cloud[n]
        /\ t.node \in torn'
    BY <1>1 DEF TagInv, Shape
  <1> QED
    BY <1>1, <1>2, <1>3, DoneFact, TaskChange

\* Between the two requests of handle_result the answer keeps the tags of the cloud.
LEMMA ReadStep ==
    ASSUME TagInv, NEW t \in tasks, read_node(t)
    PROVE  TagInv'
  <1> DEFINE u == IF t.node \in DOMAIN db THEN [t EXCEPT !.st = "read", !.read = <<db[t.node]>>]
                  ELSE Done(t)
  <1>1. t.st = "answered" /\ Changed(t, u) /\ UNCHANGED <<load, db, cloud, backup, torn>>
    BY DEF read_node
  <1>2. DOMAIN t = TaskFields /\ t \in Unfinished
    BY <1>1 DEF TagInv, Shape, Unfinished
  <1>3. /\ DOMAIN u = TaskFields /\ u.node = t.node
        /\ t.node \in DOMAIN db => u.st = "read" /\ u.answer = t.answer
    BY <1>2, DoneFact DEF TaskFields
  <1> HIDE DEF u
  <1>4. ASSUME t.node \in DOMAIN db, Agrees(t.node)
        PROVE  IsFcn(cloud[t.node]) /\ t.answer[1].reported = cloud[t.node]
    BY <1>1, <1>2, <1>4 DEF Agrees
  <1>5. \A n \in DOMAIN db : DOMAIN db'[n] = DocFields
    BY <1>1 DEF TagInv, Shape
  <1> QED
    BY <1>1, <1>2, <1>3, <1>4, <1>5, TaskChange

\* handle_result writes the tags of the answer.
LEMMA WriteStep ==
    ASSUME TagInv, NEW t \in tasks, write_node(t)
    PROVE  TagInv'
  <1>1. /\ t.st = "read" /\ Changed(t, Done(t)) /\ UNCHANGED <<load, cloud, backup, torn>>
        /\ db' = IF t.node \in DOMAIN db
                 THEN [db EXCEPT ![t.node] = update_node(t.read[1], t.answer[1])] ELSE db
    BY DEF write_node
  <1>2. DOMAIN t = TaskFields /\ t \in Unfinished
    BY <1>1 DEF TagInv, Shape, Unfinished
  <1>3. ASSUME t.node \in DOMAIN db, Agrees(t.node)
        PROVE  IsFcn(cloud[t.node]) /\ t.answer[1].reported = cloud[t.node]
    BY <1>1, <1>2, <1>3 DEF Agrees
  <1> DEFINE doc == update_node(t.read[1], t.answer[1])
  <1>4. DOMAIN doc = DocFields /\ doc.tags = t.answer[1].reported
    BY DEF update_node, DocFields
  <1> HIDE DEF doc
  <1>5. /\ DOMAIN db' = DOMAIN db /\ DOMAIN cloud' = DOMAIN cloud /\ torn \subseteq torn'
        /\ \A n \in DOMAIN db : DOMAIN db'[n] = DocFields
        /\ \A n \in DOMAIN db : n # t.node => db'[n] = db[n] /\ cloud'[n] = cloud[n]
        /\ t.node \in DOMAIN db => db'[t.node] = doc
    BY <1>1, <1>4 DEF TagInv, Shape, doc
  <1> QED
    BY <1>1, <1>2, <1>3, <1>4, <1>5, DoneFact, TaskChange

\* The reaper takes only tasks that are finished.
LEMMA ReapStep ==
    ASSUME TagInv, ReaperStep, UNCHANGED up
    PROVE  TagInv'
  <1>1. UNCHANGED <<load, db, cloud, torn, backup>> /\ tasks' \subseteq tasks
    BY DEF ReaperStep, reap_next, reap_tasks
  <1>2. Unfinished' = Unfinished
    BY DEF ReaperStep, reap_next, reap_tasks, Unfinished
  <1> QED
    BY <1>1, <1>2, QuietStep DEF TagInv, Shape

\* What is cancelled when the service stops is torn.
LEMMA StopStep ==
    ASSUME TagInv, stop
    PROVE  TagInv'
  <1>1. /\ UNCHANGED <<load, db, cloud, backup>> /\ tasks' = {}
        /\ torn' = torn \cup {t.node : t \in Unfinished}
    BY DEF stop
  <1>2. Shape' /\ Unfinished' = {}
    BY <1>1 DEF TagInv, Shape, Unfinished
  <1>3. ASSUME NEW n \in DOMAIN db' \ torn', Honest(n)' PROVE Agrees(n)'
    <2>1. Agrees(n) /\ \A t \in Unfinished : t.node # n
      BY <1>1, <1>3 DEF TagInv, Honest
    <2> QED
      BY <1>1, <1>2, <2>1 DEF Agrees
  <1> QED
    BY <1>2, <1>3 DEF TagInv

\* A collect run without the node leaves the others alone.
LEMMA VanishStep ==
    ASSUME TagInv, NEW n \in DOMAIN db, node_vanishes(n)
    PROVE  TagInv'
  <1>1. /\ UNCHANGED <<load, cloud, backup, tasks, torn>>
        /\ db' = [m \in DOMAIN db \ {n} |-> db[m]]
    BY DEF node_vanishes
  <1>2. Shape' /\ Unfinished' = Unfinished
    BY <1>1 DEF TagInv, Shape, Unfinished
  <1>3. ASSUME NEW m \in DOMAIN db' \ torn', Honest(m)' PROVE Agrees(m)'
    <2>1. Agrees(m) /\ db'[m] = db[m]
      BY <1>1, <1>3 DEF TagInv, Honest
    <2> QED
      BY <1>1, <1>2, <2>1 DEF Agrees
  <1> QED
    BY <1>2, <1>3 DEF TagInv

-----------------------------------------------------------------------------
(* The theorems *)

\* As long as no two tag tasks of a node overlap, none is sent an outdated document, no
\* answer is lost and no error comes behind the change, core and cloud agree on the tags or
\* the one task of the node has the difference (begin and send_to_queue of the tag command,
\* core_tag_tasks_processor, handle_result).
THEOREM TagInvariant == Spec => []TagInv
  <1>1. ASSUME TagInv, [Next]_vars PROVE TagInv'
    <2>1. CASE UNCHANGED vars
      BY <1>1, <2>1, QuietStep DEF vars, Unfinished, TagInv, Shape
    <2>2. ASSUME NEW s, SessionStep(s) PROVE TagInv'
      BY <1>1, <2>2, SessionsStep, RestoreStep, ChunkStep, SendStep DEF SessionStep
    <2>3. CASE TaskStep
      BY <1>1, <2>3, WorkerStep, TimeoutStep, ReadStep, WriteStep DEF TaskStep
    <2>4. CASE ReaperStep /\ UNCHANGED up
      BY <1>1, <2>4, ReapStep
    <2>5. ASSUME NEW n \in DOMAIN db, node_vanishes(n) PROVE TagInv'
      BY <1>1, <2>5, VanishStep
    <2>6. CASE stop
      BY <1>1, <2>6, StopStep
    <2> QED
      BY <1>1, <2>1, <2>2, <2>3, <2>4, <2>5, <2>6 DEF Next
  <1> QED
    BY <1>1, InitTags, PTL DEF Spec

\* The core shows the tags a resource has in the cloud once its tag tasks are finished
\* (handle_result of the tag command), for any workload, number of tags and task limit.
THEOREM TagsOfCoreAndCloudAgree == Spec => []TagsInSync
  <1>1. TagInv => TagsInSync
    <2> SUFFICES ASSUME TagInv, NEW n \in DOMAIN db \ torn,
                        ~(\E t \in Unfinished : t.node = n),
                        Request(graph.kind[n]) \notin {"pretends", "custom"}
                 PROVE  db[n].tags = cloud[n]
      BY DEF TagsInSync
    <2>1. Honest(n)
      BY KindFact DEF Honest, TagInv, Shape
    <2> QED
      BY <2>1 DEF TagInv, Agrees
  <1> QED
    BY <1>1, TagInvariant, PTL

=============================================================================
