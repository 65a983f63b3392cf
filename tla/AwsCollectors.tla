---------------------------- MODULE AwsCollectors ----------------------------
(***************************************************************************)
(* AWSAccountCollector: what each collector does to the graph of a region, *)
(* and the order in which they run.  A relation that is looked up with     *)
(* search_first is only found if the collector of the other resource ran   *)
(* before; resources of the global region are reached through deferred     *)
(* connections.                                                            *)
(***************************************************************************)
EXTENDS Collectors

(* Helpers of the collectors: the type of an instance or a volume *)

get_instance_type_info ==
    <<New("instance_quota"), New("instance_type"), Edge("instance_quota", "instance_type")>>

get_volume_type_info == <<New("volume_type")>>

\* Resources that count against a quota
OfQuota(quota, n) == <<New(quota), New(n), Edge(quota, n)>>

-----------------------------------------------------------------------------
(* Collectors of the global region *)

collect_iam_account_summary == << >>    \* fills attributes of the account

collect_iam_policies == <<New("iam_policy")>>

collect_iam_groups == <<New("iam_group"), Above("iam_policy", "iam_group")>>

collect_iam_instance_profiles == <<New("iam_instance_profile")>>

collect_iam_roles ==
    <<New("iam_role"), Below("iam_role", "iam_instance_profile"),
      Below("iam_role", "iam_policy")>>

collect_iam_users ==
    <<New("iam_user"), Above("iam_policy", "iam_user"), Above("iam_group", "iam_user"),
      Add("iam_user", "iam_access_key")>>

collect_iam_server_certificates == OfQuota("certificate_quota", "iam_server_certificate")

collect_s3_buckets == OfQuota("s3_quota", "s3_bucket")

global_collectors ==
    << [name |-> "iam_account_summary", ops |-> collect_iam_account_summary],
       [name |-> "iam_policies", ops |-> collect_iam_policies],
       [name |-> "iam_groups", ops |-> collect_iam_groups],
       [name |-> "iam_instance_profiles", ops |-> collect_iam_instance_profiles],
       [name |-> "iam_roles", ops |-> collect_iam_roles],
       [name |-> "iam_users", ops |-> collect_iam_users],
       [name |-> "iam_server_certificates", ops |-> collect_iam_server_certificates],
       [name |-> "s3_buckets", ops |-> collect_s3_buckets] >>

-----------------------------------------------------------------------------
(* Collectors of a region *)

collect_reserved_instances == get_instance_type_info

collect_vpcs == OfQuota("vpc_quota", "vpc")

collect_subnets == <<New("subnet"), Above("vpc", "subnet")>>

collect_route_tables == <<New("route_table"), Above("vpc", "route_table")>>

collect_security_groups == <<New("security_group"), Above("vpc", "security_group")>>

collect_internet_gateways ==
    OfQuota("gateway_quota", "internet_gateway") \o <<Above("vpc", "internet_gateway")>>

collect_keypairs == <<New("keypair")>>

collect_instances ==
    <<Later("iam_instance_profile", "instance")>> \o get_instance_type_info
      \o <<Edge("instance_type", "instance"), New("instance"), Above("keypair", "instance")>>

collect_volumes ==
    <<New("volume")>> \o get_volume_type_info
      \o <<Edge("volume_type", "volume"), Below("volume", "instance")>>

collect_snapshots == <<New("snapshot")>>

collect_elbs ==
    OfQuota("elb_quota", "elb") \o AboveAll(<<"vpc", "instance", "subnet", "security_group">>, "elb")
      \o <<Later("iam_server_certificate", "elb")>>

collect_albs ==
    OfQuota("alb_quota", "alb") \o AboveAll(<<"vpc", "subnet", "security_group">>, "alb")
      \o <<Later("iam_server_certificate", "alb")>>

collect_alb_target_groups ==
    <<New("target_group")>> \o AboveAll(<<"vpc", "instance">>, "target_group")
      \o <<Below("target_group", "alb")>>

collect_autoscaling_groups == <<New("autoscaling_group"), Above("instance", "autoscaling_group")>>

collect_network_acls ==
    <<New("network_acl"), Above("vpc", "network_acl"), Below("network_acl", "subnet")>>

collect_network_interfaces ==
    <<New("network_interface")>> \o AboveAll(<<"vpc", "subnet">>, "network_interface")
      \o <<Below("network_interface", "instance"), Above("security_group", "network_interface")>>

collect_nat_gateways ==
    <<New("nat_gateway")>> \o AboveAll(<<"vpc", "subnet", "network_interface">>, "nat_gateway")

collect_rds_instances ==
    <<New("rds_instance")>> \o AboveAll(<<"security_group", "vpc", "subnet">>, "rds_instance")

collect_cloudformation_stacks == <<New("cloudformation_stack")>>

get_eks_nodegroups ==
    <<Add("eks_cluster", "eks_nodegroup"), Above("autoscaling_group", "eks_nodegroup")>>

collect_eks_clusters ==
    <<Later("iam_role", "eks_cluster"), New("eks_cluster")>> \o get_eks_nodegroups

collect_vpc_peering_connections == <<New("vpc_peering"), Above("vpc", "vpc_peering")>>

collect_vpc_endpoints ==
    <<New("vpc_endpoint")>>
      \o AboveAll(<<"vpc", "route_table", "subnet", "security_group", "network_interface">>,
                  "vpc_endpoint")

collect_elastic_ips ==
    <<New("elastic_ip"), Below("elastic_ip", "instance"), Above("network_interface", "elastic_ip")>>

collect_cloudwatch_alarms == <<New("alarm"), Below("alarm", "instance")>>

\* Mutation: volumes are collected before the instances they are attached to.
VolumesFirst ==
    << [name |-> "vpcs", ops |-> collect_vpcs],
       [name |-> "volumes", ops |-> collect_volumes],
       [name |-> "instances", ops |-> collect_instances] >>

region_collectors ==
    << [name |-> "reserved_instances", ops |-> collect_reserved_instances],
       [name |-> "vpcs", ops |-> collect_vpcs],
       [name |-> "subnets", ops |-> collect_subnets],
       [name |-> "route_tables", ops |-> collect_route_tables],
       [name |-> "security_groups", ops |-> collect_security_groups],
       [name |-> "internet_gateways", ops |-> collect_internet_gateways],
       [name |-> "keypairs", ops |-> collect_keypairs],
       [name |-> "instances", ops |-> collect_instances],
       [name |-> "volumes", ops |-> collect_volumes],
       [name |-> "snapshots", ops |-> collect_snapshots],
       [name |-> "elbs", ops |-> collect_elbs],
       [name |-> "albs", ops |-> collect_albs],
       [name |-> "alb_target_groups", ops |-> collect_alb_target_groups],
       [name |-> "autoscaling_groups", ops |-> collect_autoscaling_groups],
       [name |-> "network_acls", ops |-> collect_network_acls],
       [name |-> "network_interfaces", ops |-> collect_network_interfaces],
       [name |-> "nat_gateways", ops |-> collect_nat_gateways],
       [name |-> "rds_instances", ops |-> collect_rds_instances],
       [name |-> "cloudformation_stacks", ops |-> collect_cloudformation_stacks],
       [name |-> "eks_clusters", ops |-> collect_eks_clusters],
       [name |-> "vpc_peering_connections", ops |-> collect_vpc_peering_connections],
       [name |-> "vpc_endpoints", ops |-> collect_vpc_endpoints],
       [name |-> "elastic_ips", ops |-> collect_elastic_ips],
       [name |-> "cloudwatch_alarms", ops |-> collect_cloudwatch_alarms] >>
=============================================================================
