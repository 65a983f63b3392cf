---------------------------- MODULE AwsResources ----------------------------
(***************************************************************************)
(* What the resource classes of AWS and GCP do when they are cleaned up or *)
(* tagged, and what the cloud makes of it.                                 *)
(*                                                                         *)
(* A class is described by its delete method ("call": a request to the     *)
(* cloud, "later": a request the cloud takes its time to fulfil, "never":  *)
(* refused by the class) and by what its pre_delete method detaches: the   *)
(* kinds it looks for, and where it looks for them ("above" or "below" for *)
(* its predecessors or successors in the graph, "cloud" for what the cloud *)
(* reports), and by the request its update_tag and delete_tag make ("key": *)
(* for one tag, "stack" and "labels": for all tags the resource has,       *)
(* "patch": a change of these tags, "raises": not implemented).            *)
(***************************************************************************)
EXTENDS Collectors

Deletes(how) == [delete |-> how, look |-> "nowhere", kinds |-> {}, tag |-> "raises"]
Detaches(how, look, kinds) == [Deletes(how) EXCEPT !.look = look, !.kinds = kinds]
Tags(request, class) == [class EXCEPT !.tag = request]

\* AWSResource.delete: classes that do not override it cannot be deleted.
AWSResource == Deletes("never")

AWSEC2Instance == Tags("key", Deletes("later"))
AWSEC2KeyPair == Tags("key", Deletes("call"))
AWSEC2Volume == Tags("key", Deletes("call"))
AWSEC2Snapshot == Tags("key", Deletes("call"))
AWSEC2Subnet == Tags("key", Deletes("call"))
AWSEC2ElasticIP == Tags("key", Detaches("call", "cloud", {"instance", "network_interface"}))
AWSVPC == Tags("key", Deletes("call"))
AWSS3Bucket == Deletes("call")
AWSELB == Tags("key", Deletes("call"))
AWSALB == Tags("key", Deletes("later"))
AWSALBTargetGroup == Tags("key", Deletes("call"))
AWSEC2InternetGateway == Tags("key", Detaches("call", "above", {"vpc"}))
AWSEC2NATGateway == Tags("key", Deletes("later"))
AWSEC2SecurityGroup == Tags("key", Detaches("call", "cloud", {"security_group"}))
AWSEC2RouteTable == Tags("key", Detaches("call", "cloud", {"subnet"}))
AWSVPCPeeringConnection == Tags("key", Deletes("call"))
AWSVPCEndpoint == Tags("key", Deletes("call"))
AWSEC2NetworkAcl == Tags("key", Deletes("call"))
AWSEC2NetworkInterface == Tags("key", Deletes("call"))
AWSIAMUser == Detaches("call", "below", {"iam_policy"})
AWSIAMGroup == Detaches("call", "below", {"iam_policy"})
AWSIAMRole == Detaches("call", "below", {"iam_policy"})
AWSIAMPolicy == Deletes("call")
AWSIAMInstanceProfile == Detaches("call", "above", {"iam_role"})
AWSIAMAccessKey == Deletes("call")
AWSIAMServerCertificate == Deletes("call")
AWSCloudFormationStack == Tags("stack", Deletes("later"))
AWSEKSCluster == Tags("key", Deletes("later"))
AWSEKSNodegroup == Tags("key", Deletes("later"))
AWSAutoScalingGroup == Tags("key", Deletes("later"))
AWSCloudwatchAlarm == Tags("key", Deletes("call"))

\* GCPResource.delete is the same request for all of its classes; instances of GCP
\* go the way of AWSEC2Instance.
GCPResource == Tags("labels", Deletes("call"))

\* GCPBucket.pre_delete empties the bucket, which its delete relies on.
GCPBucket == Tags("patch", Detaches("call", "cloud", {"blob"}))

Class(kind) ==
    CASE kind = "instance" -> AWSEC2Instance [] kind = "keypair" -> AWSEC2KeyPair
      [] kind = "volume" -> AWSEC2Volume [] kind = "snapshot" -> AWSEC2Snapshot
      [] kind = "subnet" -> AWSEC2Subnet [] kind = "elastic_ip" -> AWSEC2ElasticIP
      [] kind = "vpc" -> AWSVPC [] kind = "s3_bucket" -> AWSS3Bucket
      [] kind = "elb" -> AWSELB [] kind = "alb" -> AWSALB
      [] kind = "target_group" -> AWSALBTargetGroup
      [] kind = "internet_gateway" -> AWSEC2InternetGateway
      [] kind = "nat_gateway" -> AWSEC2NATGateway
      [] kind = "security_group" -> AWSEC2SecurityGroup
      [] kind = "route_table" -> AWSEC2RouteTable
      [] kind = "vpc_peering" -> AWSVPCPeeringConnection
      [] kind = "vpc_endpoint" -> AWSVPCEndpoint [] kind = "network_acl" -> AWSEC2NetworkAcl
      [] kind = "network_interface" -> AWSEC2NetworkInterface
      [] kind = "iam_user" -> AWSIAMUser [] kind = "iam_group" -> AWSIAMGroup
      [] kind = "iam_role" -> AWSIAMRole [] kind = "iam_policy" -> AWSIAMPolicy
      [] kind = "iam_instance_profile" -> AWSIAMInstanceProfile
      [] kind = "iam_access_key" -> AWSIAMAccessKey
      [] kind = "iam_server_certificate" -> AWSIAMServerCertificate
      [] kind = "cloudformation_stack" -> AWSCloudFormationStack
      [] kind = "eks_cluster" -> AWSEKSCluster [] kind = "eks_nodegroup" -> AWSEKSNodegroup
      [] kind = "autoscaling_group" -> AWSAutoScalingGroup [] kind = "alarm" -> AWSCloudwatchAlarm
      [] kind \in {"network", "subnetwork", "disk", "url_map", "backend_service",
                   "target_http_proxy", "forwarding_rule"} -> GCPResource
      [] kind = "bucket" -> GCPBucket
      [] OTHER -> AWSResource

\* Quotas and types are no resources of the cloud.
phantom(kind) ==
    kind \in {"instance_quota", "instance_type", "volume_type", "certificate_quota", "s3_quota",
              "vpc_quota", "gateway_quota", "elb_quota", "alb_quota", "quota", "sku", "service",
              "machine_type", "disk_type"}

-----------------------------------------------------------------------------
(* The clouds: what cannot be deleted while something else is there         *)

\* <<a, b>>: b cannot be deleted while an a that belongs to it is there
Blocks ==
    {<<"subnet", "vpc">>, <<"security_group", "vpc">>, <<"route_table", "vpc">>,
     <<"network_acl", "vpc">>, <<"vpc_endpoint", "vpc">>, <<"vpc_peering", "vpc">>,
     <<"network_interface", "subnet">>, <<"instance", "subnet">>, <<"nat_gateway", "subnet">>,
     <<"elb", "subnet">>, <<"alb", "subnet">>, <<"instance", "network_interface">>,
     <<"elb", "security_group">>, <<"alb", "security_group">>,
     <<"network_interface", "security_group">>, <<"alb", "target_group">>,
     <<"instance", "volume">>, <<"iam_access_key", "iam_user">>, <<"iam_user", "iam_group">>,
     <<"eks_nodegroup", "eks_cluster">>,
     <<"subnetwork", "network">>, <<"instance", "subnetwork">>, <<"instance", "disk">>,
     <<"forwarding_rule", "target_http_proxy">>, <<"target_http_proxy", "url_map">>,
     <<"url_map", "backend_service">>}

\* Pairs that are attached to each other; none of the two can be deleted meanwhile.
Attachable ==
    {{"internet_gateway", "vpc"}, {"elastic_ip", "network_interface"}, {"security_group"},
     {"route_table", "subnet"}, {"iam_policy", "iam_user"}, {"iam_policy", "iam_group"},
     {"iam_policy", "iam_role"}, {"iam_role", "iam_instance_profile"}}
=============================================================================
