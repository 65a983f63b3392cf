------------------------------ MODULE MCCleanup ------------------------------
(* Landscapes of AWS and GCP: a VPC with its network, load balancers, identities,   *)
(* volumes, and what is in the way of each other in GCP.                            *)
EXTENDS Cleanup

MCConf(cloud, present, active, doomed, precious, plugins, workers) ==
    [cloud |-> cloud, present |-> present, active |-> active, doomed |-> doomed,
     precious |-> precious, plugins |-> plugins, workers |-> workers, mode |-> "on",
     expired |-> {}, untagged |-> {}, snowflakes |-> {}]

MCConfs ==
    {[MCConf("aws", {"vpc", "subnet", "route_table", "internet_gateway", "gateway_quota"}, {}, {}, {"subnet"},
             {"cleanup_expired", "cleanup_aws_vpcs"}, {"w1"})
        EXCEPT !.expired = {"vpc", "gateway_quota"}],
     MCConf("aws", {"vpc", "subnet", "network_interface", "instance"}, {"instance"}, {"vpc", "instance"}, {},
            {"cleanup_aws_vpcs"}, {"w1"}),
     [MCConf("aws", {"instance", "instance_type", "target_group", "alb", "elb", "alarm"}, {}, {}, {"alb"},
             {"cleanup_aws_loadbalancers", "cleanup_aws_alarms", "protect_snowflakes"}, {"w1"})
        EXCEPT !.snowflakes = {"elb"}],
     MCConf("aws", {"instance", "instance_type", "target_group", "alb", "alarm"}, {"instance"}, {"alb"}, {},
             {"cleanup_aws_loadbalancers", "cleanup_aws_alarms"}, {"w1"}),
     [MCConf("aws", {"iam_role", "iam_policy", "iam_instance_profile"}, {}, {}, {"iam_policy", "iam_role"},
             {"cleanup_untagged"}, {"w1"})
        EXCEPT !.untagged = {"iam_role", "iam_policy", "iam_instance_profile"}],
     MCConf("aws", {"iam_user", "iam_access_key", "iam_policy"}, {},
            {"iam_user", "iam_access_key", "iam_policy"}, {}, {}, {"w1"}),
     MCConf("aws", {"volume", "volume_type", "snapshot", "security_group"}, {}, {"security_group"}, {"volume"},
            {"cleanup_volumes"}, {"w1", "w2"}),
     MCConf("aws", {"vpc", "subnet", "route_table"}, {}, {"vpc", "subnet", "route_table"}, {}, {}, {"w1", "w2"}),
     MCConf("gcp", {"network", "subnetwork", "instance", "disk", "bucket"}, {"instance"},
            {"network", "subnetwork", "instance", "bucket"}, {}, {}, {"w1"}),
     MCConf("gcp", {"url_map", "backend_service", "target_http_proxy", "forwarding_rule"}, {},
            {"url_map", "backend_service", "target_http_proxy", "forwarding_rule"}, {}, {}, {"w1"}),
     [MCConf("aws", {"vpc", "keypair", "elastic_ip"}, {"vpc"}, {"vpc", "elastic_ip"}, {}, {}, {"w1"})
        EXCEPT !.mode = "dry"],
     MCConf("aws", {"vpc", "keypair"}, {"vpc"}, {"vpc", "keypair"}, {}, {}, {"w1"}),
     [MCConf("aws", {"keypair"}, {}, {"keypair"}, {}, {}, {"w1"}) EXCEPT !.mode = "off"]}
=============================================================================
