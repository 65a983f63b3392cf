--------------------------- MODULE OtherCollectors ---------------------------
(***************************************************************************)
(* The collectors of the smaller clouds.  Each is one collect method; the  *)
(* resources of Kubernetes are collected by one method shared by all kinds.*)
(***************************************************************************)
EXTENDS Collectors

(* Kubernetes *)

\* A resource below its namespace or the cluster, and below its owners, which
\* may be collected later.
KubernetesResource_collect(n, owners) ==
    <<Place(n, <<"namespace", Root>>)>> \o SeekAll(owners, n)

KubernetesCollector_collect ==
    << [name |-> "nodes", ops |-> <<New("node")>>],
       [name |-> "namespaces", ops |-> <<New("namespace")>>],
       [name |-> "deployments", ops |-> KubernetesResource_collect("deployment", << >>)],
       [name |-> "stateful_set", ops |-> KubernetesResource_collect("stateful_set", << >>)],
       [name |-> "replica_set", ops |-> KubernetesResource_collect("replica_set", <<"deployment">>)],
       [name |-> "controller_revision",
        ops |-> KubernetesResource_collect("controller_revision", <<"stateful_set", "daemon_set">>)],
       [name |-> "daemon_set", ops |-> KubernetesResource_collect("daemon_set", << >>)],
       [name |-> "pods",
        ops |-> KubernetesResource_collect("pod", <<"node", "replica_set", "stateful_set", "daemon_set">>)] >>

-----------------------------------------------------------------------------
(* Slack: members are looked up by groups and conversations *)

SlackCollectorPlugin_collect ==
    << [name |-> "slack",
        ops |-> <<New("team"), Add("team", "members"), Add("team", "usergroups"),
                  Add("team", "conversations"), Add("members", "user"),
                  Add("usergroups", "usergroup"), Below("usergroup", "user"),
                  Add("conversations", "conversation"), Above("user", "conversation")>>] >>

(* OneLogin *)

OneLoginPlugin_collect ==
    << [name |-> "onelogin", ops |-> <<New("onelogin_account"), Add("onelogin_account", "onelogin_region"),
                                       Add("onelogin_region", "onelogin_user")>>] >>

(* VSphere *)

VSphereCollectorPlugin_collect ==
    << [name |-> "vsphere", ops |-> <<New("vsphere_cluster"), Add("vsphere_cluster", "data_center"),
                                      Add("data_center", "vsphere_instance")>>] >>

(* GitHub *)

GithubCollectorPlugin_collect ==
    << [name |-> "github", ops |-> <<New("github_account"), Add("github_account", "github_region"),
                                     Add("github_region", "repo"), Add("github_region", "org"),
                                     Add("github_region", "github_user")>>] >>

(* On-prem: a server is put below what was created for it, and below the     *)
(* default region if its location, region and network were known before.     *)

OnpremCollectorPlugin_collect ==
    << [name |-> "onprem",
        ops |-> <<New("default_location"), Add("default_location", "default_region"),
                  New("location"), Add("location", "onprem_region"), Add("onprem_region", "onprem_network"),
                  Place("server", <<"onprem_network", "onprem_region", "location", "default_region">>),
                  Add("default_region", "another_server")>>] >>

(* Example: a volume is deleted before its instance *)

ExampleCollectorPlugin_collect ==
    << [name |-> "example",
        ops |-> <<New("example_account"), Add("example_account", "region1"), Add("example_account", "region2"),
                  Add("region1", "network"), Add("network", "instance1"), Add("region2", "instance2"),
                  Add("region1", "volume1"), Edge("instance1", "volume1"),
                  DeleteEdge("volume1", "instance1"), Add("region2", "volume2"),
                  Add("region1", "custom_resource")>>] >>
=============================================================================
