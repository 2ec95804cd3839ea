----------------------------- MODULE MCTopology -----------------------------
(* One small platform: a node that may be replaced by one on another        *)
(* instance, a node that is added for a job, an application with a volume   *)
(* claim, and a way in from Cloudflare.                                     *)
EXTENDS CloudTopology

OneCluster == <<"platform">>

Spot == Node("n1", "i-1")
SpotAgain == Node("n1", "i-2")
JobNode == Node("n2", "i-2")
Job == Pod("apps", "job", "n2", {"job"}, {})
AppNode == Node("n3", "i-2")
App == Pod("apps", "app", "n3", {"app"}, {"data"})

AlwaysThere ==
    {Namespace("apps"), Service("apps", "api-gateway-svc", {"app"}),
     Pvc("apps", "data", "vol-1"), Volume("vol-1", "i-1"),
     Instance("i-1", "vpc", "10.0.0.1"), Instance("i-2", "vpc", "10.0.0.2"),
     Balancer("prod-external-alb", "prod-ext"), Target("prod-external-alb", "i-1"),
     Gateway("tgw-1"), Attachment("tgw-1", "vpc"), Record("api", {"prod-ext"}),
     Zone("org"), DnsRecord("org", "www", "tunnel-1"),
     Tunnel("tunnel-1", "k8s-platform-tunnel")}
Start == AlwaysThere \cup {Spot, AppNode, App}
ComeAndGo == {Spot, SpotAgain, JobNode, Job, AppNode, App}
Platform == AlwaysThere \cup ComeAndGo

Asked == <<IdOf("platform", "node", "", "n1"), IdOf("platform", "pvc", "apps", "data")>>
=============================================================================
