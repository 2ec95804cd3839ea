--------------------------- MODULE TopologyGraph ---------------------------
(***************************************************************************)
(* The graph the platform state collector makes of what the APIs list      *)
(* (ai-sre/agents/cloud/collector.py).  A listed object is a record with    *)
(* its kind, namespace and name and the fields the edges are made from; a   *)
(* layer (a cluster's name, "aws" or "cloudflare") has a set of them.  A    *)
(* node of the graph is an id, an edge is <<from, to, type>>.  Names that   *)
(* the code compares by substring are compared whole.                      *)
(***************************************************************************)
EXTENDS FiniteSets

Id(layer, o) == <<layer, o.kind, o.ns, o.name>>
IdOf(layer, kind, ns, name) == <<layer, kind, ns, name>>

Node(name, instance) == [kind |-> "node", ns |-> "", name |-> name, instance |-> instance]
Namespace(name) == [kind |-> "namespace", ns |-> "", name |-> name]
\* An unscheduled pod has node "".
Pod(ns, name, node, labels, claims) ==
    [kind |-> "pod", ns |-> ns, name |-> name, node |-> node, labels |-> labels,
     claims |-> claims]
Service(ns, name, selector) ==
    [kind |-> "service", ns |-> ns, name |-> name, selector |-> selector]
Pvc(ns, name, volume) == [kind |-> "pvc", ns |-> ns, name |-> name, volume |-> volume]
Instance(name, vpc, ip) ==
    [kind |-> "ec2", ns |-> "", name |-> name, vpc |-> vpc, ip |-> ip]
Volume(name, attached) == [kind |-> "ebs", ns |-> "", name |-> name, attached |-> attached]
Gateway(name) == [kind |-> "tgw", ns |-> "", name |-> name]
Attachment(tgw, vpc) == [kind |-> "attachment", ns |-> "", name |-> tgw, vpc |-> vpc]
Balancer(name, dns) == [kind |-> "alb", ns |-> "", name |-> name, dns |-> dns]
Target(alb, instance) == [kind |-> "target", ns |-> "", name |-> alb, instance |-> instance]
Record(name, values) == [kind |-> "record", ns |-> "", name |-> name, values |-> values]
Zone(name) == [kind |-> "zone", ns |-> "", name |-> name]
DnsRecord(zone, name, content) ==
    [kind |-> "dns", ns |-> "", name |-> name, zone |-> zone, content |-> content]
\* content of a record that leads into the tunnel is the tunnel's id.
Tunnel(id, title) == [kind |-> "tunnel", ns |-> "", name |-> id, title |-> title]

Of(objs, kind) == {o \in objs : o.kind = kind}
Pairs(objs, kind1, kind2) == Of(objs, kind1) \X Of(objs, kind2)

-----------------------------------------------------------------------------
(* One layer.  Every edge starts at an object of the same listing; where it *)
(* ends is a name the object states, listed or not.                        *)

\* The call that reads the persistent volume is never awaited and the error
\* is swallowed, so no edge comes of it.
K8sNodes(c, objs) == {Id(c, o) : o \in objs} \cup {IdOf(c, "cluster", "", c)}
K8sEdges(c, objs) ==
    {<<Id(c, o), IdOf(c, "cluster", "", c), "BELONGS_TO">> :
        o \in Of(objs, "namespace") \cup Of(objs, "node")}
    \cup {<<Id(c, o), IdOf(c, "namespace", "", o.ns), "IN_NAMESPACE">> :
        o \in Of(objs, "pod") \cup Of(objs, "service") \cup Of(objs, "pvc")}
    \cup {<<Id(c, p), IdOf(c, "node", "", p.node), "SCHEDULED_ON">> :
        p \in {q \in Of(objs, "pod") : q.node # ""}}
    \cup {<<Id(c, sp[1]), Id(c, sp[2]), "ROUTES_TO">> :
        sp \in {q \in Pairs(objs, "service", "pod") :
                   /\ q[1].ns = q[2].ns /\ q[1].selector # {}
                   /\ q[1].selector \subseteq q[2].labels}}
    \cup {<<Id(c, pv[1]), Id(c, pv[2]), "MOUNTS">> :
        pv \in {q \in Pairs(objs, "pod", "pvc") :
                   q[1].ns = q[2].ns /\ q[2].name \in q[1].claims}}

AwsNodes(objs) ==
    {Id("aws", o) : o \in {q \in objs : q.kind \notin {"attachment", "target"}}}
AwsEdges(objs) ==
    {<<Id("aws", v), IdOf("aws", "ec2", "", v.attached), "ATTACHED_TO">> :
        v \in {q \in Of(objs, "ebs") : q.attached # ""}}
    \cup {<<Id("aws", at[1]), IdOf("aws", "ec2", "", at[2].instance), "ROUTES_TO">> :
        at \in {q \in Pairs(objs, "alb", "target") : q[1].name = q[2].name}}
    \cup {<<Id("aws", ia[1]), IdOf("aws", "tgw", "", ia[2].name), "NETWORKS_THROUGH">> :
        ia \in {q \in Pairs(objs, "ec2", "attachment") : q[1].vpc = q[2].vpc}}
    \cup {<<Id("aws", ra[1]), Id("aws", ra[2]), "RESOLVES_TO">> :
        ra \in {q \in Pairs(objs, "record", "alb") : q[2].dns \in q[1].values}}
    \cup {<<Id("aws", ri[1]), Id("aws", ri[2]), "RESOLVES_TO">> :
        ri \in {q \in Pairs(objs, "record", "ec2") : q[2].ip \in q[1].values}}

CloudflareNodes(objs) == {Id("cloudflare", o) : o \in objs}
CloudflareEdges(objs) ==
    {<<Id("cloudflare", d), IdOf("cloudflare", "zone", "", d.zone), "BELONGS_TO">> :
        d \in Of(objs, "dns")}
    \cup {<<Id("cloudflare", dt[1]), Id("cloudflare", dt[2]), "ROUTES_THROUGH">> :
        dt \in {q \in Pairs(objs, "dns", "tunnel") : q[1].content = q[2].name}}

-----------------------------------------------------------------------------
(* Edges between layers, from the objects all layers have: got[layer].      *)

\* The objects of one kind with their layer.
All(got, kind) == UNION {{<<l, o>> : o \in Of(got[l], kind)} : l \in DOMAIN got}

\* The load balancers and tunnels the code knows by name, and the service each
\* leads to.
NamedRoute(alb, layer, service) ==
    \/ alb = "prod-external-alb" /\ layer = "platform" /\ service = "api-gateway-svc"
    \/ alb = "internal-services-alb" /\ layer = "gpu-inference"
       /\ service = "inference-api-svc"
NamedTunnel(title, layer, service) ==
    title = "k8s-platform-tunnel" /\ layer = "platform"
    /\ service = "cloudflared-tunnel-svc"

Linked(got, kind1, kind2, Related(_, _), type) ==
    {<<Id(p[1][1], p[1][2]), Id(p[2][1], p[2][2]), type>> :
        p \in {q \in All(got, kind1) \X All(got, kind2) : Related(q[1], q[2])}}

\* The AWS resource a cluster's node or volume claim lives on.
DeploysOn(got) ==
    Linked(got, "node", "ec2", LAMBDA n, i : n[2].instance = i[2].name, "DEPLOYS_ON")
    \cup Linked(got, "pvc", "ebs", LAMBDA p, v : p[2].volume = v[2].name, "DEPLOYS_ON")

CrossLayerEdges(got) ==
    DeploysOn(got)
    \cup Linked(got, "record", "alb",
                LAMBDA r, a : a[2].dns # "" /\ a[2].dns \in r[2].values, "RESOLVES_TO")
    \cup Linked(got, "dns", "alb",
                LAMBDA d, a : a[2].dns # "" /\ a[2].dns = d[2].content, "RESOLVES_TO")
    \cup Linked(got, "dns", "record", LAMBDA d, r : r[2].name = d[2].content, "RESOLVES_TO")
    \cup Linked(got, "alb", "service",
                LAMBDA a, s : NamedRoute(a[2].name, s[1], s[2].name), "ROUTES_TO")
    \cup Linked(got, "tunnel", "service",
                LAMBDA t, s : NamedTunnel(t[2].title, s[1], s[2].name), "TUNNELS_TO")

\* What is pushed: sets, so each node and edge once.
GraphNodes(got) ==
    UNION {CASE l = "aws" -> AwsNodes(got[l])
             [] l = "cloudflare" -> CloudflareNodes(got[l])
             [] OTHER -> K8sNodes(l, got[l]) : l \in DOMAIN got}
GraphEdges(got) ==
    CrossLayerEdges(got)
    \cup UNION {CASE l = "aws" -> AwsEdges(got[l])
                  [] l = "cloudflare" -> CloudflareEdges(got[l])
                  [] OTHER -> K8sEdges(l, got[l]) : l \in DOMAIN got}

-----------------------------------------------------------------------------
(* The mock objects a layer is given when its real ones cannot be had.      *)

MockNamespaces(c) ==
    {Namespace(n) : n \in {"default", "kube-system", "monitoring"}
        \cup (CASE c = "platform" -> {"ai-sre-system"}
                [] c = "blockchain" -> {"hft-core"}
                [] OTHER -> {})}
MockCluster(c) ==
    MockNamespaces(c) \cup
    CASE c = "gpu-inference" ->
           {Node("gpu-inference-node-1", "i-gpu101abcdef123"),
            Node("gpu-inference-node-2", "i-gpu102abcdef456"),
            Pod("default", "inference-api-7b89d4", "gpu-inference-node-1", {"inference-api"}, {}),
            Pod("default", "model-runner-823cd", "gpu-inference-node-2", {"model-runner"},
                {"model-weights-pvc"}),
            Service("default", "inference-api-svc", {"inference-api"}),
            Service("default", "model-runner-svc", {"model-runner"}),
            Pvc("default", "model-weights-pvc", "vol-gpu-weights")}
      [] c = "platform" ->
           {Node("platform-node-1", "i-plat201abcdef789"),
            Node("platform-node-2", "i-plat202abcdef012"),
            Pod("default", "api-gateway-123", "platform-node-1", {"api-gateway"}, {}),
            Pod("default", "dashboard-8d76", "platform-node-2", {"dashboard"},
                {"pvc-dashboard-cache"}),
            Pod("ai-sre-system", "sre-agent-xyz", "platform-node-1", {}, {}),
            Pod("default", "cloudflared-pod-77", "platform-node-2", {"cloudflared"}, {}),
            Service("default", "api-gateway-svc", {"api-gateway"}),
            Service("default", "dashboard-svc", {"dashboard"}),
            Service("default", "cloudflared-tunnel-svc", {"cloudflared"}),
            Pvc("default", "pvc-dashboard-cache", "vol-dash-cache")}
      [] OTHER ->
           {Node("blockchain-node-1", "i-chain301abc345"),
            Pod("hft-core", "validator-node-0", "blockchain-node-1", {"validator"},
                {"chain-data-pvc"}),
            Pod("hft-core", "validator-node-1", "blockchain-node-1", {"validator"},
                {"chain-data-pvc"}),
            Service("hft-core", "validator-svc", {"validator"}),
            Pvc("hft-core", "chain-data-pvc", "vol-chain-db")}

MockAws ==
    {Instance("i-gpu101abcdef123", "vpc-gpu", "10.10.1.10"),
     Instance("i-gpu102abcdef456", "vpc-gpu", "10.10.2.20"),
     Instance("i-plat201abcdef789", "vpc-plat", "10.20.1.11"),
     Instance("i-plat202abcdef012", "vpc-plat", "10.20.2.22"),
     Instance("i-chain301abc345", "vpc-chain", "10.30.1.33"),
     Volume("vol-gpu-weights", "i-gpu101abcdef123"),
     Volume("vol-chain-db", "i-chain301abc345"),
     Volume("vol-dash-cache", "i-plat201abcdef789"),
     Balancer("prod-external-alb", "prod-ext"),
     Balancer("internal-services-alb", "internal-svc"),
     Gateway("tgw-0987654321fedcba"),
     Record("api.hft-analytics.com", {"prod-ext"}),
     Record("dashboard.hft-analytics.com", {"prod-ext"}),
     Record("inference.internal.hft-analytics.com", {"internal-svc"})}
    \cup {Target("prod-external-alb", i) : i \in {"i-plat201abcdef789", "i-plat202abcdef012"}}
    \cup {Target("internal-services-alb", i) : i \in {"i-gpu101abcdef123", "i-gpu102abcdef456"}}
    \cup {Attachment("tgw-0987654321fedcba", v) : v \in {"vpc-gpu", "vpc-plat", "vpc-chain"}}

MockCloudflare ==
    {Zone("hft-analytics.com"),
     DnsRecord("hft-analytics.com", "api.hft-analytics.com", "prod-ext"),
     DnsRecord("hft-analytics.com", "dashboard.hft-analytics.com", "prod-ext"),
     DnsRecord("hft-analytics.com", "tunnel.hft-analytics.com", "tunnel-id-9988"),
     Tunnel("tunnel-id-9988", "k8s-platform-tunnel")}

MockObjects(layer) == CASE layer = "aws" -> MockAws
                        [] layer = "cloudflare" -> MockCloudflare
                        [] OTHER -> MockCluster(layer)
=============================================================================
