------------------------------ MODULE MCCollect ------------------------------
(* Collect runs: AWS with two regions, GCP and Kubernetes with one account, and the *)
(* smaller clouds together, with resources missing and collectors switched off.     *)
EXTENDS Collect

MCConf(clouds, absent, skipped, kind) ==
    [clouds |-> clouds, absent |-> absent, skipped |-> skipped, mergeKind |-> kind]

MCConfs ==
    {MCConf({"aws"}, {}, {}, "cloud"), MCConf({"aws"}, {"instance_type"}, {"instances"}, "account"),
     MCConf({"gcp"}, {}, {}, "cloud"), MCConf({"gcp"}, {"zone"}, {}, "account"),
     MCConf({"gcp"}, {"zone", "region"}, {}, "cloud"),
     MCConf({"k8s", "slack"}, {"namespace"}, {"pods"}, "cloud"),
     MCConf({"k8s", "example"}, {}, {}, "account"),
     MCConf({"onprem", "onelogin"}, {}, {}, "account"),
     MCConf({"vsphere", "github"}, {"repo"}, {}, "cloud"),
     MCConf({}, {}, {}, "cloud")}
=============================================================================
