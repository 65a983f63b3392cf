------------------------------ MODULE Tagging -------------------------------
(***************************************************************************)
(* How a worker changes a tag of a resource (resotoworker/tag.py and the   *)
(* tag methods of the resource classes), and what the core makes of its    *)
(* answer (GraphDB.update_node).                                           *)
(*                                                                         *)
(* A document of the core has the tags of the reported section, the flag   *)
(* "clean" and another property, "wish", of the desired section and the    *)
(* flag "protected" and another property, "note", of the metadata.         *)
(***************************************************************************)
EXTENDS Integers

Resource == INSTANCE AwsResources

\* A tag that is not there, and one that is there without a value.
Unset == 0
Blank == 99

\* The classes of the other plugins; NotImplemented, which the methods of the
\* Kubernetes classes return, counts as true.
GCPDatabase == "patch"
GithubResource == "refuses"
OnpremResource == "refuses"
KubernetesResource == "pretends"
VSphereInstance == "custom"

Request(kind) ==
  CASE kind = "gcp_database" -> GCPDatabase
    [] kind = "github_repo" -> GithubResource
    [] kind = "onprem_instance" -> OnpremResource
    [] kind = "kubernetes_pod" -> KubernetesResource
    [] kind = "vsphere_instance" -> VSphereInstance
    [] OTHER -> Resource!Class(kind).tag

Returns(value, cloud) == [value |-> value, cloud |-> cloud]

\* How a request fails: the cloud refuses it and nothing changes, or it is served and what
\* comes behind it raises.
Failures == {"no", "refused", "late"}

\* A request that changes the tags to "changed", or raises.
Requested(cloud, changed, failure) ==
  Returns(IF failure = "no" THEN "true" ELSE "raises", IF failure = "refused" THEN cloud ELSE changed)

\* AWSCloudFormationStack._modify_tag
_modify_tag(cloud, tags, key, val, failure) ==
  IF tags[key] = val
  THEN Returns(IF val = Unset THEN "raises" ELSE "true", cloud)
  ELSE Requested(cloud, [tags EXCEPT ![key] = val], failure)

\* update_label of GCP: setLabels carries the fingerprint of the labels that were read; it
\* is followed by a get for the new fingerprint, which may raise when the labels are set
\* already (a failure that is "late").
update_label(cloud, tags, key, val, failure) ==
  IF val = Unset /\ tags[key] = Unset THEN Returns("false", cloud)
  ELSE IF tags # cloud THEN Returns("raises", cloud)
  ELSE Requested(cloud, [tags EXCEPT ![key] = val], failure)

\* update_tag and, for the value Unset, delete_tag of a class: what it returns and the
\* tags the resource has in the cloud then.  "tags" are those the worker was sent.
update_tag(request, cloud, tags, key, val, failure) ==
  CASE request = "key" -> Requested(cloud, [cloud EXCEPT ![key] = val], failure)
    [] request = "stack" -> _modify_tag(cloud, tags, key, val, failure)
    [] request = "labels" -> update_label(cloud, tags, key, val, failure)
    [] request = "patch" ->
         Requested(cloud, [k \in DOMAIN cloud |->
           IF k = key THEN val ELSE IF tags[k] # Unset THEN tags[k] ELSE cloud[k]], failure)
    [] request = "custom" ->
         Requested(cloud, [cloud EXCEPT ![key] = IF val = Unset THEN Blank ELSE val], failure)
    [] request = "pretends" -> Returns("true", cloud)
    [] request = "refuses" -> Returns("false", cloud)
    [] request = "raises" -> Returns("raises", cloud)

\* Mutation: the tag is set although the resource refused.
SetAlways(tags, key, val, returned) == [tags EXCEPT ![key] = val]

\* ResourceTagsDict: the tags of the resource follow what the cloud did.
__setitem__(tags, key, val, returned) ==
  IF returned = "true" THEN [tags EXCEPT ![key] = val] ELSE tags

__delitem__(tags, key, returned) ==
  IF returned = "true" THEN [tags EXCEPT ![key] = Unset] ELSE tags

\* Both raise what the request raises; deleting a tag that is not there raises behind it.
Raises(tags, key, val, returned) ==
  returned = "raises" \/ (returned = "true" /\ val = Unset /\ tags[key] = Unset)

-----------------------------------------------------------------------------

\* The resource a worker makes of the document it is sent, and the sections it answers:
\* without a revision, with a new metadata section, and with a desired section only for
\* a resource that is to be cleaned.
node_from_dict(doc) == [tags |-> doc.tags, protected |-> doc.protected, clean |-> doc.clean]

node_to_dict(node) ==
  [reported |-> node.tags,
   metadata |-> [protected |-> node.protected, note |-> Unset],
   desired |-> IF node.clean THEN <<[clean |-> TRUE, wish |-> Unset]>> ELSE <<>>]

\* core_tag_tasks_processor, for one tag: what raises is answered as an error, without the
\* node, whether or not the cloud has changed.
core_tag_tasks_processor(kind, cloud, doc, key, val, failure) ==
  LET node == node_from_dict(doc)
      r == update_tag(Request(kind), cloud, node.tags, key, val, failure)
      tags == IF val = Unset THEN __delitem__(node.tags, key, r.value)
              ELSE __setitem__(node.tags, key, val, r.value)
  IN  [result |-> IF Raises(node.tags, key, val, r.value) THEN "error" ELSE "done",
       node |-> node_to_dict([node EXCEPT !.tags = tags]), cloud |-> r.cloud]

\* update_node_with, replace: the sections of the answer take the place of those read,
\* and all sections are written.
update_node(read, answer) ==
  LET desired == IF answer.desired = <<>> THEN [clean |-> read.clean, wish |-> read.wish]
                 ELSE answer.desired[1]
  IN  [tags |-> answer.reported,
       clean |-> desired.clean, wish |-> desired.wish,
       protected |-> answer.metadata.protected, note |-> answer.metadata.note]

\* update_nodes_section_with: the database merges the patch, document by document.
update_nodes_section(doc, patch) ==
  [doc EXCEPT !.clean = @ \/ patch = "clean", !.wish = IF patch = "desired" THEN 1 ELSE @,
              !.protected = @ \/ patch = "protected", !.note = IF patch = "metadata" THEN 1 ELSE @]

=============================================================================
