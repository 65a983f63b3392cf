---------------------------- MODULE GcpCollectors ----------------------------
(***************************************************************************)
(* GCPProjectCollector: its collectors are calls of collect_something, and *)
(* this module gives the graph steps each call results in.  A relation is  *)
(* searched for; if nothing is found it becomes a deferred connection,     *)
(* except where the link is computed from the result by a function, which  *)
(* is only searched for.                                                   *)
(***************************************************************************)
EXTENDS Collectors

\* The parent of a resource: its zone, else its region, else the project
Located == <<"zone", "region", Root>>
Here(n) == Place(n, Located)

\* collect_something(predecessors=preds): a resource of an aggregated list
collect_something(n, preds) == <<Here(n)>> \o SeekAll(preds, n)

collect_regions == <<New("region"), Add("region", "quota")>>

collect_zones == <<Place("zone", <<"region", Root>>)>>

collect_services == <<New("service"), Add("service", "sku")>>

collect_networks == <<New("network")>>

collect_subnetworks == collect_something("subnetwork", <<"network">>)

collect_routers == collect_something("router", <<"network">>)

collect_routes == collect_something("route", <<"network">>)

collect_health_checks == collect_something("health_check", << >>)

collect_http_health_checks == <<New("http_health_check")>>

collect_https_health_checks == <<New("https_health_check")>>

\* A type without zone and region is taken out again, the others get their SKUs.
post_process_machine_type(n) == <<Drop(n, <<"zone", "region">>), Join("sku", n)>>

collect_machine_types == collect_something("machine_type", << >>) \o post_process_machine_type("machine_type")

\* The type of an instance is fetched if it is a custom one; without a zone there
\* is nothing to fetch it from.
collect_instances ==
    <<Here("instance"), Above("network", "instance"), Above("subnetwork", "instance"),
      SeekAbove("machine_type", "instance"),
      Above("zone", "custom_machine_type"), Join("custom_machine_type", "instance")>>
      \o post_process_machine_type("custom_machine_type")

collect_disk_types ==
    collect_something("disk_type", << >>)
      \o <<Drop("disk_type", <<"zone", "region">>), Join("sku", "disk_type")>>

collect_disks == collect_something("disk", <<"disk_type">>) \o <<SeekBelow("disk", "instance")>>

collect_target_vpn_gateways == collect_something("target_vpn_gateway", <<"network">>)

collect_vpn_gateways == collect_something("vpn_gateway", <<"network">>)

collect_vpn_tunnels ==
    <<Here("vpn_tunnel"), SeekBelow("vpn_tunnel", "target_vpn_gateway"),
      SeekBelow("vpn_tunnel", "vpn_gateway")>>

collect_security_policies == <<New("security_policy")>>

collect_snapshots == <<New("snapshot")>>

collect_ssl_certificates ==
    <<Here("ssl_certificate"), SeekBelow("ssl_certificate", "target_https_proxy"),
      SeekBelow("ssl_certificate", "target_ssl_proxy")>>

collect_network_endpoint_groups == collect_something("network_endpoint_group", <<"network", "subnetwork">>)

collect_instance_groups ==
    collect_something("instance_group", <<"network", "subnetwork">>)
      \o <<Above("instance", "instance_group")>>

collect_instance_group_managers ==
    collect_something("instance_group_manager", <<"instance_group">>)
      \o <<Above("health_check", "instance_group_manager")>>

collect_autoscalers == <<Here("autoscaler"), SeekBelow("autoscaler", "instance_group_manager")>>

collect_backend_services ==
    collect_something("backend_service", <<"health_check">>)
      \o <<Above("instance_group", "backend_service")>>

collect_url_maps == <<Here("url_map"), SeekBelow("url_map", "backend_service")>>

collect_target_pools == collect_something("target_pool", <<"instance", "health_check">>)

collect_target_instances == collect_something("target_instance", <<"instance">>)

collect_target_http_proxies == collect_something("target_http_proxy", <<"url_map">>)

collect_target_https_proxies == collect_something("target_https_proxy", <<"url_map", "ssl_certificate">>)

collect_target_ssl_proxies ==
    <<New("target_ssl_proxy")>> \o SeekAll(<<"backend_service", "ssl_certificate">>, "target_ssl_proxy")

collect_target_tcp_proxies == <<New("target_tcp_proxy"), SeekAbove("backend_service", "target_tcp_proxy")>>

collect_target_grpc_proxies == <<New("target_grpc_proxy"), SeekAbove("url_map", "target_grpc_proxy")>>

collect_forwarding_rules == 
    collect_something("forwarding_rule",
        <<"target_http_proxy", "target_https_proxy", "target_pool", "target_instance">>)

collect_buckets == <<New("bucket")>>

collect_databases == <<Here("database")>>

collect_instance_templates == <<New("instance_template"), SeekAbove("machine_type", "instance_template")>>

mandatory_collectors ==
    << [name |-> "regions", ops |-> collect_regions], [name |-> "zones", ops |-> collect_zones] >>

\* Mutation: instance groups are collected before the instances they consist of.
GroupsFirst ==
    << [name |-> "instance_groups", ops |-> collect_instance_groups],
       [name |-> "instances", ops |-> collect_instances] >>

project_collectors ==
    << [name |-> "services", ops |-> collect_services],
       [name |-> "networks", ops |-> collect_networks],
       [name |-> "subnetworks", ops |-> collect_subnetworks],
       [name |-> "routers", ops |-> collect_routers],
       [name |-> "routes", ops |-> collect_routes],
       [name |-> "health_checks", ops |-> collect_health_checks],
       [name |-> "http_health_checks", ops |-> collect_http_health_checks],
       [name |-> "https_health_checks", ops |-> collect_https_health_checks],
       [name |-> "machine_types", ops |-> collect_machine_types],
       [name |-> "instances", ops |-> collect_instances],
       [name |-> "disk_types", ops |-> collect_disk_types],
       [name |-> "disks", ops |-> collect_disks],
       [name |-> "target_vpn_gateways", ops |-> collect_target_vpn_gateways],
       [name |-> "vpn_gateways", ops |-> collect_vpn_gateways],
       [name |-> "vpn_tunnels", ops |-> collect_vpn_tunnels],
       [name |-> "security_policies", ops |-> collect_security_policies],
       [name |-> "snapshots", ops |-> collect_snapshots],
       [name |-> "ssl_certificates", ops |-> collect_ssl_certificates],
       [name |-> "network_endpoint_groups", ops |-> collect_network_endpoint_groups],
       [name |-> "instance_groups", ops |-> collect_instance_groups],
       [name |-> "instance_group_managers", ops |-> collect_instance_group_managers],
       [name |-> "autoscalers", ops |-> collect_autoscalers],
       [name |-> "backend_services", ops |-> collect_backend_services],
       [name |-> "url_maps", ops |-> collect_url_maps],
       [name |-> "target_pools", ops |-> collect_target_pools],
       [name |-> "target_instances", ops |-> collect_target_instances],
       [name |-> "target_http_proxies", ops |-> collect_target_http_proxies],
       [name |-> "target_https_proxies", ops |-> collect_target_https_proxies],
       [name |-> "target_ssl_proxies", ops |-> collect_target_ssl_proxies],
       [name |-> "target_tcp_proxies", ops |-> collect_target_tcp_proxies],
       [name |-> "target_grpc_proxies", ops |-> collect_target_grpc_proxies],
       [name |-> "forwarding_rules", ops |-> collect_forwarding_rules],
       [name |-> "buckets", ops |-> collect_buckets],
       [name |-> "databases", ops |-> collect_databases],
       [name |-> "instance_templates", ops |-> collect_instance_templates] >>

\* Types nobody uses, then SKUs and services nobody is left of, are removed.
remove_unreferenced(g) ==
    rmnodes(rmnodes(rmnodes(g, {"machine_type", "custom_machine_type", "disk_type"}),
                    {"sku"}),
            {"service"})
=============================================================================
