--------------------------- MODULE CloudTopology ---------------------------
(***************************************************************************)
(* The platform state collector (ai-sre/agents/cloud/collector.py) and the  *)
(* correlator that reads what it stored (correlation.py).  The collector    *)
(* goes round and round: it lists the clusters, AWS and Cloudflare, one API  *)
(* call after the other, and pushes the graph.  Meanwhile objects come and  *)
(* go, calls fail, and reports ask the graph store which AWS resource a     *)
(* node or volume claim lives on, keeping what they were told.             *)
(***************************************************************************)
EXTENDS TopologyGraph, Sequences, Naturals

CONSTANTS
    Clusters,     \* the sequence of cluster names collected
    Inventory,    \* every object there may ever be
    Existing,     \* those there are at the start
    Movable,      \* those that come and go
    Questions,    \* ids a report asks about, nodes before claims
    MaxChanges,   \* bound: objects that come or go
    MaxFailures   \* bound: calls that fail

VARIABLES
    world,     \* objects that exist
    changes,   \* objects that have come or gone
    born,      \* objects created since the round began
    call,      \* the call the collector makes next; 0: asleep
    got,       \* what the calls of this round have listed, by layer
    mocked,    \* layers that fall back to mock objects in this round
    pushed,    \* the objects of the graph the store has, by layer
    failures,  \* calls that have failed
    todo,      \* questions the report in progress still asks
    cache,     \* what the correlator keeps: subject -> AWS id or None
    said       \* every answer a report was given: <<subject, AWS id>>

cloud == <<world, changes>>
collector == <<call, got, mocked, born>>
correlator == <<todo, cache, said>>
vars == <<cloud, collector, pushed, failures, correlator>>

None == <<>>
Layers == {Clusters[i] : i \in 1 .. Len(Clusters)} \cup {"aws", "cloudflare"}
Nothing == [l \in Layers |-> {}]

-----------------------------------------------------------------------------
(* What there is (not in this repository): an object is made when what it   *)
(* names exists and removed when nothing names it.                         *)

Key(o) == <<o.kind, o.ns, o.name>>
Needs(o) ==
    CASE o.kind = "pod" ->
           {<<"namespace", "", o.ns>>}
           \cup {<<"node", "", n>> : n \in {o.node} \ {""}}
           \cup {<<"pvc", o.ns, c>> : c \in o.claims}
      [] o.kind \in {"service", "pvc"} -> {<<"namespace", "", o.ns>>}
      [] o.kind = "ebs" -> {<<"ec2", "", i>> : i \in {o.attached} \ {""}}
      [] o.kind = "attachment" -> {<<"tgw", "", o.name>>}
      [] o.kind = "target" -> {<<"alb", "", o.name>>, <<"ec2", "", o.instance>>}
      [] o.kind = "dns" -> {<<"zone", "", o.zone>>}
      [] OTHER -> {}
Supplied(objs) == \A o \in objs : Needs(o) \subseteq {Key(x) : x \in objs}

\* The daemon names these clusters, and no others.
ASSUME TopologyAssumption ==
    /\ Clusters \in Seq({"platform", "gpu-inference", "blockchain"})
    /\ Questions \in Seq({Questions[i] : i \in 1 .. Len(Questions)})
    /\ Existing \subseteq Inventory /\ Movable \subseteq Inventory
    /\ Supplied(Existing)
    /\ MaxChanges \in Nat /\ MaxFailures \in Nat

Create(o) ==
    /\ changes < MaxChanges
    /\ Key(o) \notin {Key(x) : x \in world}
    /\ Needs(o) \subseteq {Key(x) : x \in world}
    /\ world' = world \cup {o}
    /\ born' = born \cup {o}
    /\ changes' = changes + 1
    /\ UNCHANGED <<call, got, mocked, pushed, failures, correlator>>

Delete(o) ==
    /\ changes < MaxChanges
    /\ o \in world
    /\ \A x \in world : Key(o) \notin Needs(x)
    /\ world' = world \ {o}
    /\ changes' = changes + 1
    /\ UNCHANGED <<collector, pushed, failures, correlator>>

-----------------------------------------------------------------------------
(* The calls of a round, in the order the code makes them.                 *)

\* Variant of K8sKinds that lists the pods first.
K8sKindsPodsFirst == <<"pod", "node", "namespace", "service", "pvc">>

K8sKinds == <<"node", "namespace", "pod", "service", "pvc">>
AwsKinds == <<"ec2", "ebs", "tgw", "attachment", "alb", "target", "record">>
CloudflareKinds == <<"zone", "dns", "tunnel">>

CallsOf(layer, kinds) == [i \in 1 .. Len(kinds) |-> <<layer, kinds[i]>>]
Calls ==
    [i \in 1 .. 5 * Len(Clusters) |->
        <<Clusters[((i - 1) \div 5) + 1], K8sKinds[((i - 1) % 5) + 1]>>]
    \o CallsOf("aws", AwsKinds) \o CallsOf("cloudflare", CloudflareKinds)
Layer == Calls[call][1]
Kind == Calls[call][2]

\* A failed call of these is passed over; a failed call of the others gives up
\* the layer.  The two Cloudflare lists can do both: an error status is passed
\* over, an exception is not.
PassedOver == {"attachment", "target", "record", "dns", "tunnel"}
GivesUp == {"node", "namespace", "pod", "service", "pvc", "ec2", "ebs", "tgw", "alb",
            "zone", "dns", "tunnel"}

\* Target groups are asked for each load balancer listed, DNS records for each
\* zone, and tunnels for the account of the first zone.  Every cluster is asked
\* with the same credentials, so each lists the same objects.
Answer ==
    {o \in Of(world, Kind) :
        CASE Kind = "target" -> \E a \in Of(got["aws"], "alb") : a.name = o.name
          [] Kind = "dns" -> \E z \in Of(got["cloudflare"], "zone") : z.name = o.zone
          [] Kind = "tunnel" -> Of(got["cloudflare"], "zone") # {}
          [] OTHER -> TRUE}

\* Variant of Begin that goes on with the mock layers of the round before.
BeginKeeping ==
    /\ call = 0
    /\ call' = 1
    /\ got' = Nothing
    /\ born' = {}
    /\ UNCHANGED <<cloud, mocked, pushed, failures, correlator>>

Begin ==
    /\ call = 0
    /\ call' = 1
    /\ got' = Nothing
    /\ mocked' = {}
    /\ born' = {}
    /\ UNCHANGED <<cloud, pushed, failures, correlator>>

List ==
    /\ call \in 1 .. Len(Calls)
    /\ got' = [got EXCEPT ![Layer] = @ \cup Answer]
    /\ call' = call + 1
    /\ UNCHANGED <<cloud, mocked, born, pushed, failures, correlator>>

PassOver ==
    /\ failures < MaxFailures
    /\ call \in 1 .. Len(Calls)
    /\ Kind \in PassedOver
    /\ call' = call + 1
    /\ failures' = failures + 1
    /\ UNCHANGED <<cloud, got, mocked, born, pushed, correlator>>

\* The first call after those of this layer.
AfterLayer ==
    CHOOSE i \in call + 1 .. Len(Calls) + 1 :
        /\ \A j \in call .. i - 1 : Calls[j][1] = Layer
        /\ i = Len(Calls) + 1 \/ Calls[i][1] # Layer

GiveUp ==
    /\ failures < MaxFailures
    /\ call \in 1 .. Len(Calls)
    /\ Kind \in GivesUp
    /\ mocked' = mocked \cup {Layer}
    /\ call' = AfterLayer
    /\ failures' = failures + 1
    /\ UNCHANGED <<cloud, got, born, pushed, correlator>>

\* What a round makes of its lists.
Collected == [l \in Layers |-> IF l \in mocked THEN MockObjects(l) ELSE got[l]]

\* The store keeps the last graph it was sent (external; so does the mock of it).
Push ==
    /\ call = Len(Calls) + 1
    /\ pushed' = Collected
    /\ call' = 0
    /\ UNCHANGED <<cloud, got, mocked, born, failures, correlator>>

\* A failed push is logged, and forgotten.
PushFails ==
    /\ failures < MaxFailures
    /\ call = Len(Calls) + 1
    /\ call' = 0
    /\ failures' = failures + 1
    /\ UNCHANGED <<cloud, got, mocked, born, pushed, correlator>>

-----------------------------------------------------------------------------
(* Reports: full_enrichment asks one subject after another.                *)

\* Variant of Stored that takes the edge the other way round.
StoredReversed(s) ==
    LET found == {e \in DeploysOn(pushed) : e[2] = s}
    IN IF found = {} THEN None ELSE (CHOOSE e \in found : TRUE)[1]

\* The AWS resource the store's graph has a subject on (external).
Stored(s) ==
    LET found == {e \in DeploysOn(pushed) : e[1] = s}
    IN IF found = {} THEN None ELSE (CHOOSE e \in found : TRUE)[2]

Ask(s, answer) ==
    /\ todo' = Tail(todo)
    /\ said' = IF answer = None THEN said ELSE said \cup {<<s, answer>>}

StartReport ==
    /\ todo = <<>>
    /\ todo' = Questions
    /\ UNCHANGED <<cloud, collector, pushed, failures, cache, said>>

AskCached ==
    /\ todo # <<>>
    /\ cache[Head(todo)] # None
    /\ Ask(Head(todo), cache[Head(todo)])
    /\ UNCHANGED <<cloud, collector, pushed, failures, cache>>

\* Variant of Kept that keeps no answer.
KeptNever(s, answer) == cache

Kept(s, answer) == [cache EXCEPT ![s] = answer]

\* A subject the store does not know is not kept, and is asked again.
AskStore ==
    /\ todo # <<>>
    /\ cache[Head(todo)] = None
    /\ LET s == Head(todo) IN
         /\ Ask(s, Stored(s))
         /\ cache' = Kept(s, Stored(s))
    /\ UNCHANGED <<cloud, collector, pushed, failures>>

AskFails ==
    /\ failures < MaxFailures
    /\ todo # <<>>
    /\ cache[Head(todo)] = None
    /\ Ask(Head(todo), None)
    /\ failures' = failures + 1
    /\ UNCHANGED <<cloud, collector, pushed, cache>>

-----------------------------------------------------------------------------
Init ==
    /\ world = Existing /\ changes = 0 /\ born = {}
    /\ call = 0 /\ got = Nothing /\ mocked = {} /\ pushed = Nothing
    /\ failures = 0
    /\ todo = <<>> /\ said = {}
    /\ cache = [s \in {Questions[i] : i \in 1 .. Len(Questions)} |-> None]

Next ==
    \/ \E o \in Movable : Create(o) \/ Delete(o)
    \/ Begin \/ List \/ PassOver \/ GiveUp \/ Push \/ PushFails
    \/ StartReport \/ AskCached \/ AskStore \/ AskFails

\* The daemon sleeps between rounds and goes on; reports are asked for again
\* and again.  Nothing makes calls fail or objects change.
Fairness ==
    /\ WF_vars(Begin) /\ WF_vars(List) /\ WF_vars(Push)
    /\ WF_vars(StartReport) /\ WF_vars(AskCached) /\ WF_vars(AskStore)

Spec == Init /\ [][Next]_vars /\ Fairness

-----------------------------------------------------------------------------
(* Properties.                                                             *)

\* An edge of a pushed graph that leads to a node not in it leads to an object
\* created while the round was listing: the lists are taken in an order
\* in which nothing else can be missed, whatever is created or removed between
\* two of them and whichever layer is a mock.
DanglingTargetsAreNew ==
    [][Push => \A e \in GraphEdges(pushed') :
           \/ {e[1], e[2]} \subseteq GraphNodes(pushed')
           \/ /\ e[1] \in GraphNodes(pushed')
              /\ e[2] \in {Id(l, o) : l \in Layers, o \in born}]_vars

\* Once calls stop failing and objects stop changing, the store comes to have
\* each layer as it is, and keeps it: no mock object, no object that is gone and
\* no partial list survives.
Current == [l \in Layers |->
    {o \in world :
        o.kind \in CASE l = "aws" -> {AwsKinds[i] : i \in 1 .. Len(AwsKinds)}
                     [] l = "cloudflare" -> {"zone", "dns", "tunnel"}
                     [] OTHER -> {K8sKinds[i] : i \in 1 .. Len(K8sKinds)}}]
StoreCatchesUp == <>[](pushed = Current)

\* The reports of one process agree: whatever the store says later, a
\* subject is never given two AWS resources.
ReportsAgree == \A a, b \in said : a[1] = b[1] => a[2] = b[2]

\* A subject that exists for good is found in the end: neither a failed query
\* nor asking before the store knew of it is remembered.
ContextFound ==
    \A i \in 1 .. Len(Questions) :
        <>[](\E e \in DeploysOn(Current) : e[1] = Questions[i])
            => <>(cache[Questions[i]] \in {Id("aws", o) : o \in Inventory})

=============================================================================
