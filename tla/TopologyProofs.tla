--------------------------- MODULE TopologyProofs ---------------------------
(***************************************************************************)
(* The collector's graph only misses objects that are new, and the answers  *)
(* of the correlator agree, whatever comes, goes and fails.                 *)
(***************************************************************************)
EXTENDS CloudTopology, SequenceTheorems, WellFoundedInduction, TLAPS

Subjects == {Questions[i] : i \in 1 .. Len(Questions)}

-----------------------------------------------------------------------------
(* The answers.  The cache is all the correlator knows of what it said: an  *)
(* answer that was given is still there, because only a subject without one *)
(* is looked up again.                                                     *)

CacheInv ==
    /\ todo \in Seq(Subjects)
    /\ DOMAIN cache = Subjects
    /\ \A p \in said :
           /\ p = <<p[1], p[2]>>
           /\ p[1] \in Subjects
           /\ p[2] # None
           /\ cache[p[1]] = p[2]

LEMMA CacheInit == Init => CacheInv
  BY TopologyAssumption, EmptySeq DEF Init, CacheInv, Subjects

\* Going on to the next question leaves a sequence of questions.
LEMMA NextQuestion ==
    ASSUME CacheInv, todo # <<>>
    PROVE  Head(todo) \in Subjects /\ Tail(todo) \in Seq(Subjects)
  BY HeadTailProperties DEF CacheInv

LEMMA CacheStep == CacheInv /\ [Next]_vars => CacheInv'
<1> SUFFICES ASSUME CacheInv, [Next]_vars
             PROVE  CacheInv'
  OBVIOUS
<1>1. CASE UNCHANGED correlator
  BY <1>1 DEF CacheInv, correlator
<1>2. CASE StartReport
  BY <1>2, TopologyAssumption DEF StartReport, CacheInv, Subjects
<1>3. CASE AskCached
  BY <1>3, NextQuestion DEF AskCached, Ask, CacheInv
<1>4. CASE AskStore
  <2> DEFINE s == Head(todo)
  <2>1. /\ s \in Subjects /\ Tail(todo) \in Seq(Subjects) /\ cache[s] = None
        /\ todo' = Tail(todo) /\ cache' = [cache EXCEPT ![s] = Stored(s)]
        /\ said' = IF Stored(s) = None THEN said ELSE said \cup {<<s, Stored(s)>>}
    BY <1>4, NextQuestion DEF AskStore, Ask, Kept
  <2> HIDE DEF s
  <2>2. DOMAIN cache' = Subjects /\ cache'[s] = Stored(s)
        /\ \A t \in Subjects \ {s} : cache'[t] = cache[t]
    BY <2>1 DEF CacheInv
  <2>3. ASSUME NEW p \in said
        PROVE  p = <<p[1], p[2]>> /\ p[1] \in Subjects /\ p[2] # None /\ cache'[p[1]] = p[2]
    BY <2>1, <2>2 DEF CacheInv
  <2> QED
    BY <2>1, <2>2, <2>3 DEF CacheInv
<1>5. CASE AskFails
  BY <1>5, NextQuestion DEF AskFails, Ask, CacheInv
<1> QED
  BY <1>1, <1>2, <1>3, <1>4, <1>5
     DEF Next, vars, Create, Delete, Begin, List, PassOver, GiveUp, Push, PushFails

\* The reports of one process agree, for any platform, any number of questions
\* and whatever the store is sent meanwhile: correlation.py asks the store only
\* for subjects its cache has no answer for, and keeps each answer it returns.
THEOREM AnswersAgree == Spec => []ReportsAgree
<1>1. CacheInv => ReportsAgree
  BY DEF CacheInv, ReportsAgree
<1> QED
  BY CacheInit, CacheStep, <1>1, PTL DEF Spec

-----------------------------------------------------------------------------
(* The graph.  An edge that states where it leads, to a namespace, a node,  *)
(* an instance, a gateway or a zone, is anchored there; every other edge   *)
(* joins two objects that were listed.                                     *)

AnchorKinds == {"namespace", "node", "ec2", "tgw", "zone"}

\* The keys an object's edges lead to.
Anchors(o) ==
    CASE o.kind = "pod" ->
           {<<"namespace", "", o.ns>>} \cup {<<"node", "", n>> : n \in {o.node} \ {""}}
      [] o.kind \in {"service", "pvc"} -> {<<"namespace", "", o.ns>>}
      [] o.kind = "ebs" -> {<<"ec2", "", i>> : i \in {o.attached} \ {""}}
      [] o.kind = "attachment" -> {<<"tgw", "", o.name>>}
      [] o.kind = "target" -> {<<"ec2", "", o.instance>>}
      [] o.kind = "dns" -> {<<"zone", "", o.zone>>}
      [] OTHER -> {}

\* Every anchor of objs is one of them, or new.
Anchored(objs, new) ==
    \A o \in objs : \A k \in Anchors(o) : \E x \in objs \cup new : Key(x) = k

\* The call that lists a kind of a layer has been made, or passed over.
Listed(l, kind) == \E j \in 1 .. call - 1 : Calls[j] = <<l, kind>>

RoundTypes ==
    /\ call \in 0 .. Len(Calls) + 1
    /\ DOMAIN got = Layers
    /\ mocked \subseteq Layers

\* Of a kind that others are anchored to, nothing is missed but what is new.
Complete ==
    \A l \in Layers \ mocked, kind \in AnchorKinds :
        Listed(l, kind) => Of(world, kind) \subseteq got[l] \cup born

Grounded == \A l \in Layers \ mocked : Anchored(got[l], born)

RoundInv == RoundTypes /\ Supplied(world) /\ Complete /\ Grounded

-----------------------------------------------------------------------------
(* The calls of a round.                                                   *)

\* Three sequences one after the other.
LEMMA Joined ==
    ASSUME NEW S, NEW s \in Seq(S), NEW t \in Seq(S), NEW u \in Seq(S)
    PROVE  /\ Len(s \o t \o u) = Len(s) + Len(t) + Len(u)
           /\ \A i \in 1 .. Len(s) : (s \o t \o u)[i] = s[i]
           /\ \A i \in 1 .. Len(t) : (s \o t \o u)[Len(s) + i] = t[i]
           /\ \A i \in 1 .. Len(u) : (s \o t \o u)[Len(s) + Len(t) + i] = u[i]
<1>1. /\ s \o t \in Seq(S) /\ Len(s \o t) = Len(s) + Len(t)
      /\ \A i \in 1 .. Len(s) : (s \o t)[i] = s[i]
      /\ \A i \in 1 .. Len(t) : (s \o t)[Len(s) + i] = t[i]
  BY ConcatProperties
<1>2. Len(s \o t \o u) = Len(s) + Len(t) + Len(u)
  BY <1>1, ConcatProperties
<1>3. ASSUME NEW i \in 1 .. Len(s) PROVE (s \o t \o u)[i] = s[i]
  BY <1>1, ConcatProperties
<1>4. ASSUME NEW i \in 1 .. Len(t) PROVE (s \o t \o u)[Len(s) + i] = t[i]
  BY <1>1, ConcatProperties
<1>5. ASSUME NEW i \in 1 .. Len(u) PROVE (s \o t \o u)[Len(s) + Len(t) + i] = u[i]
  BY <1>1, ConcatProperties
<1> QED
  BY <1>2, <1>3, <1>4, <1>5

LEMMA ClustersAre ==
    /\ Len(Clusters) \in Nat
    /\ \A q \in 1 .. Len(Clusters) :
          Clusters[q] \in Layers \cap {"platform", "gpu-inference", "blockchain"}
  BY TopologyAssumption DEF Layers

ClusterCall(i) == <<Clusters[((i - 1) \div 5) + 1], K8sKinds[((i - 1) % 5) + 1]>>

\* Clusters first, then AWS, then Cloudflare.
LEMMA CallsAre ==
    /\ Len(Calls) = 5 * Len(Clusters) + 10
    /\ \A i \in 1 .. 5 * Len(Clusters) : Calls[i] = ClusterCall(i)
    /\ \A i \in 1 .. 7 : Calls[5 * Len(Clusters) + i] = <<"aws", AwsKinds[i]>>
    /\ \A i \in 1 .. 3 :
          Calls[5 * Len(Clusters) + 7 + i] = <<"cloudflare", CloudflareKinds[i]>>
<1> DEFINE n == 5 * Len(Clusters)
           clusters == [i \in 1 .. n |-> ClusterCall(i)]
           aws == CallsOf("aws", AwsKinds)
           cf == CallsOf("cloudflare", CloudflareKinds)
           Any == {clusters[i] : i \in 1 .. n} \cup {aws[i] : i \in 1 .. 7}
                  \cup {cf[i] : i \in 1 .. 3}
<1>1. n \in Nat
  BY ClustersAre
<1>2. /\ aws = [i \in 1 .. 7 |-> <<"aws", AwsKinds[i]>>]
      /\ cf = [i \in 1 .. 3 |-> <<"cloudflare", CloudflareKinds[i]>>]
  BY DEF CallsOf, AwsKinds, CloudflareKinds
<1>3. Calls = clusters \o aws \o cf
  BY DEF Calls, ClusterCall
<1>4. \A i \in 1 .. n : clusters[i] = ClusterCall(i)
  OBVIOUS
<1> HIDE DEF n
<1>5. clusters \in Seq(Any) /\ Len(clusters) = n
  <2> DEFINE Call(i) == ClusterCall(i)
  <2>1. \A i \in 1 .. n : ClusterCall(i) \in Any
    BY <1>4
  <2> HIDE DEF Any
  <2> QED
    BY <1>1, <2>1
<1>6. aws \in Seq(Any) /\ Len(aws) = 7
  <2>1. \A i \in 1 .. 7 : aws[i] \in Any
    OBVIOUS
  <2> HIDE DEF Any, aws, cf
  <2> QED
    BY <1>2, <2>1
<1>7. cf \in Seq(Any) /\ Len(cf) = 3
  <2>1. \A i \in 1 .. 3 : cf[i] \in Any
    OBVIOUS
  <2> HIDE DEF Any, aws, cf
  <2> QED
    BY <1>2, <2>1
<1> HIDE DEF clusters, aws, cf, Any
<1>8. /\ Len(clusters \o aws \o cf) = Len(clusters) + Len(aws) + Len(cf)
      /\ \A i \in 1 .. Len(clusters) : (clusters \o aws \o cf)[i] = clusters[i]
      /\ \A i \in 1 .. Len(aws) : (clusters \o aws \o cf)[Len(clusters) + i] = aws[i]
      /\ \A i \in 1 .. Len(cf) :
            (clusters \o aws \o cf)[Len(clusters) + Len(aws) + i] = cf[i]
  <2>1. clusters \in Seq(Any) /\ aws \in Seq(Any) /\ cf \in Seq(Any)
    BY <1>5, <1>6, <1>7
  <2>2. Len(clusters \o aws \o cf) = Len(clusters) + Len(aws) + Len(cf)
    BY <2>1, Joined
  <2>3. \A i \in 1 .. Len(clusters) : (clusters \o aws \o cf)[i] = clusters[i]
    BY <2>1, Joined
  <2>4. \A i \in 1 .. Len(aws) : (clusters \o aws \o cf)[Len(clusters) + i] = aws[i]
    BY <2>1, Joined
  <2>5. \A i \in 1 .. Len(cf) :
            (clusters \o aws \o cf)[Len(clusters) + Len(aws) + i] = cf[i]
    BY <2>1, Joined
  <2> QED
    BY <2>2, <2>3, <2>4, <2>5
<1>9. Len(Calls) = n + 10 /\ \A i \in 1 .. n : Calls[i] = ClusterCall(i)
  BY <1>1, <1>3, <1>4, <1>5, <1>6, <1>7, <1>8
<1>10. \A i \in 1 .. 7 : Calls[n + i] = <<"aws", AwsKinds[i]>>
  BY <1>2, <1>3, <1>5, <1>6, <1>8
<1>11. \A i \in 1 .. 3 : Calls[n + 7 + i] = <<"cloudflare", CloudflareKinds[i]>>
  BY <1>2, <1>3, <1>5, <1>6, <1>7, <1>8
<1> QED
  BY <1>9, <1>10, <1>11 DEF n

\* Where a call is: in a cluster's five, or in the ten that follow.
LEMMA CallIsOneOf ==
    ASSUME NEW c \in 1 .. Len(Calls)
    PROVE  \/ \E q \in 0 .. Len(Clusters) - 1, r \in 0 .. 4 :
                /\ c = 5 * q + r + 1
                /\ Calls[c] = <<Clusters[q + 1], K8sKinds[r + 1]>>
           \/ \E i \in 1 .. 7 : c = 5 * Len(Clusters) + i /\ Calls[c] = <<"aws", AwsKinds[i]>>
           \/ \E i \in 1 .. 3 : /\ c = 5 * Len(Clusters) + 7 + i
                              /\ Calls[c] = <<"cloudflare", CloudflareKinds[i]>>
<1> DEFINE n == 5 * Len(Clusters)
<1>1. n \in Nat /\ Len(Clusters) \in Nat /\ c \in 1 .. n + 10
  BY ClustersAre, CallsAre
<1>2. CASE c <= n
  <2> DEFINE q == (c - 1) \div 5
             r == (c - 1) % 5
  <2>1. q \in 0 .. Len(Clusters) - 1 /\ r \in 0 .. 4 /\ c = 5 * q + r + 1
    BY <1>1, <1>2
  <2>2. Calls[c] = <<Clusters[q + 1], K8sKinds[r + 1]>>
    <3>1. c \in 1 .. 5 * Len(Clusters)
      BY <1>1, <1>2
    <3>2. Calls[c] = ClusterCall(c)
      BY <3>1, CallsAre
    <3> QED
      BY <3>2, Zenon DEF ClusterCall
  <2> QED
    BY <2>1, <2>2
<1>3. CASE c > n /\ c <= n + 7
  <2>1. c - n \in 1 .. 7 /\ c = n + (c - n)
    BY <1>1, <1>3
  <2> QED
    BY <2>1, CallsAre
<1>4. CASE c > n + 7
  <2>1. c - n - 7 \in 1 .. 3 /\ c = n + 7 + (c - n - 7)
    BY <1>1, <1>4
  <2> QED
    BY <2>1, CallsAre
<1> QED
  BY <1>1, <1>2, <1>3, <1>4

\* The call of a cluster is found at its place.
LEMMA CallAtPlace ==
    ASSUME NEW q \in 0 .. Len(Clusters) - 1, NEW r \in 0 .. 4
    PROVE  /\ 5 * q + r + 1 \in 1 .. Len(Calls)
           /\ Calls[5 * q + r + 1] = <<Clusters[q + 1], K8sKinds[r + 1]>>
<1> DEFINE i == 5 * q + r + 1
<1>1. i \in 1 .. 5 * Len(Clusters) /\ i \in 1 .. Len(Calls)
  BY ClustersAre, CallsAre
<1>2. (i - 1) \div 5 = q /\ (i - 1) % 5 = r
  BY ClustersAre
<1> QED
  BY <1>1, <1>2, CallsAre DEF ClusterCall

\* Each call is for a layer there is.
LEMMA CallTypes ==
    /\ Len(Calls) \in Nat
    /\ \A c \in 1 .. Len(Calls) :
          /\ Calls[c] = <<Calls[c][1], Calls[c][2]>>
          /\ Calls[c][1] \in Layers
<1>1. Len(Calls) \in Nat
  BY CallsAre, ClustersAre
<1>2. ASSUME NEW c \in 1 .. Len(Calls)
      PROVE  Calls[c] = <<Calls[c][1], Calls[c][2]>> /\ Calls[c][1] \in Layers
  <2>1. CASE \E q \in 0 .. Len(Clusters) - 1, r \in 0 .. 4 :
                Calls[c] = <<Clusters[q + 1], K8sKinds[r + 1]>>
    BY <2>1, ClustersAre
  <2>2. CASE \E i \in 1 .. 7 : Calls[c] = <<"aws", AwsKinds[i]>>
    BY <2>2 DEF Layers
  <2>3. CASE \E i \in 1 .. 3 : Calls[c] = <<"cloudflare", CloudflareKinds[i]>>
    BY <2>3 DEF Layers
  <2> QED
    BY <2>1, <2>2, <2>3, CallIsOneOf
<1> QED
  BY <1>1, <1>2

\* What an object is anchored to, kind by kind.
LEMMA AnchorsAre ==
    ASSUME NEW o, NEW k
    PROVE  /\ o.kind = "pod" =>
                (k \in Anchors(o) <=> \/ k = <<"namespace", "", o.ns>>
                                      \/ o.node # "" /\ k = <<"node", "", o.node>>)
           /\ o.kind \in {"service", "pvc"} =>
                (k \in Anchors(o) <=> k = <<"namespace", "", o.ns>>)
           /\ o.kind = "ebs" =>
                (k \in Anchors(o) <=> o.attached # "" /\ k = <<"ec2", "", o.attached>>)
           /\ o.kind = "attachment" => (k \in Anchors(o) <=> k = <<"tgw", "", o.name>>)
           /\ o.kind = "target" => (k \in Anchors(o) <=> k = <<"ec2", "", o.instance>>)
           /\ o.kind = "dns" => (k \in Anchors(o) <=> k = <<"zone", "", o.zone>>)
           /\ o.kind \notin {"pod", "service", "pvc", "ebs", "attachment", "target", "dns"}
                => k \notin Anchors(o)
<1>1. ASSUME o.kind = "pod"
      PROVE  k \in Anchors(o) <=> \/ k = <<"namespace", "", o.ns>>
                                  \/ o.node # "" /\ k = <<"node", "", o.node>>
  <2> DEFINE Home == {<<"namespace", "", o.ns>>}
             Place == {<<"node", "", n>> : n \in {o.node} \ {""}}
  <2>1. Anchors(o) = Home \cup Place
    BY <1>1 DEF Anchors
  <2>2. k \in Place <=> o.node # "" /\ k = <<"node", "", o.node>>
    OBVIOUS
  <2>3. k \in Home <=> k = <<"namespace", "", o.ns>>
    OBVIOUS
  <2> HIDE DEF Home, Place
  <2>4. k \in Anchors(o) <=> k \in Home \/ k \in Place
    BY <2>1
  <2> QED
    BY <2>2, <2>3, <2>4, Zenon
<1>2. o.kind \in {"service", "pvc"} => Anchors(o) = {<<"namespace", "", o.ns>>}
  BY DEF Anchors
<1>3. ASSUME o.kind = "ebs"
      PROVE  k \in Anchors(o) <=> o.attached # "" /\ k = <<"ec2", "", o.attached>>
  <2>1. Anchors(o) = {<<"ec2", "", i>> : i \in {o.attached} \ {""}}
    BY <1>3 DEF Anchors
  <2>2. k \in {<<"ec2", "", i>> : i \in {o.attached} \ {""}}
          <=> o.attached # "" /\ k = <<"ec2", "", o.attached>>
    OBVIOUS
  <2> QED
    BY <2>1, <2>2
<1>4. /\ o.kind = "attachment" => Anchors(o) = {<<"tgw", "", o.name>>}
      /\ o.kind = "target" => Anchors(o) = {<<"ec2", "", o.instance>>}
      /\ o.kind = "dns" => Anchors(o) = {<<"zone", "", o.zone>>}
  BY DEF Anchors
<1>5. o.kind \notin {"pod", "service", "pvc", "ebs", "attachment", "target", "dns"}
        => Anchors(o) = {}
  BY DEF Anchors
<1> QED
  BY <1>1, <1>2, <1>3, <1>4, <1>5

\* The kinds an object is anchored to.
LEMMA AnchorKindsOf ==
    ASSUME NEW o, NEW k, k \in Anchors(o)
    PROVE  \/ o.kind = "pod" /\ k[1] \in {"node", "namespace"}
           \/ o.kind \in {"service", "pvc"} /\ k[1] = "namespace"
           \/ o.kind \in {"ebs", "target"} /\ k[1] = "ec2"
           \/ o.kind = "attachment" /\ k[1] = "tgw"
           \/ o.kind = "dns" /\ k[1] = "zone"
<1>1. \/ o.kind = "pod" /\ (k = <<"namespace", "", o.ns>> \/ k = <<"node", "", o.node>>)
      \/ o.kind \in {"service", "pvc"} /\ k = <<"namespace", "", o.ns>>
      \/ o.kind = "ebs" /\ k = <<"ec2", "", o.attached>>
      \/ o.kind = "target" /\ k = <<"ec2", "", o.instance>>
      \/ o.kind = "attachment" /\ k = <<"tgw", "", o.name>>
      \/ o.kind = "dns" /\ k = <<"zone", "", o.zone>>
  BY AnchorsAre
<1>2. CASE o.kind = "pod" /\ k = <<"namespace", "", o.ns>>
  BY <1>2
<1>3. CASE o.kind = "pod" /\ k = <<"node", "", o.node>>
  BY <1>3
<1>4. CASE o.kind \in {"service", "pvc"} /\ k = <<"namespace", "", o.ns>>
  BY <1>4
<1>5. CASE o.kind = "ebs" /\ k = <<"ec2", "", o.attached>>
  BY <1>5
<1>6. CASE o.kind = "target" /\ k = <<"ec2", "", o.instance>>
  BY <1>6
<1>7. CASE o.kind = "attachment" /\ k = <<"tgw", "", o.name>>
  BY <1>7
<1>8. CASE o.kind = "dns" /\ k = <<"zone", "", o.zone>>
  BY <1>8
<1> QED
  BY <1>1, <1>2, <1>3, <1>4, <1>5, <1>6, <1>7, <1>8

\* An object is listed after the kinds it is anchored to.
LEMMA AnchorsFirst ==
    ASSUME NEW c \in 1 .. Len(Calls), NEW o, o.kind = Calls[c][2],
           NEW k, k \in Anchors(o)
    PROVE  /\ k[1] \in AnchorKinds
           /\ \E j \in 1 .. c - 1 : Calls[j] = <<Calls[c][1], k[1]>>
<1>1. CASE \E q \in 0 .. Len(Clusters) - 1, r \in 0 .. 4 :
              /\ c = 5 * q + r + 1
              /\ Calls[c] = <<Clusters[q + 1], K8sKinds[r + 1]>>
  <2>1. PICK q \in 0 .. Len(Clusters) - 1, r \in 0 .. 4 :
               /\ c = 5 * q + r + 1
               /\ Calls[c] = <<Clusters[q + 1], K8sKinds[r + 1]>>
    BY <1>1
  <2>2. q \in Nat /\ o.kind = K8sKinds[r + 1]
    <3>1. q \in Nat
      BY ClustersAre
    <3> QED
      BY <2>1, <3>1
  <2>3. \/ r = 2 /\ k[1] \in {"node", "namespace"}
        \/ r \in {3, 4} /\ k[1] = "namespace"
    <3>1. \/ r = 0 /\ o.kind = "node"
          \/ r = 1 /\ o.kind = "namespace"
          \/ r = 2 /\ o.kind = "pod"
          \/ r = 3 /\ o.kind = "service"
          \/ r = 4 /\ o.kind = "pvc"
      BY <2>2 DEF K8sKinds
    <3> QED
      BY <3>1, AnchorKindsOf
  <2>4. Calls[5 * q + 1] = <<Clusters[q + 1], "node">>
    <3>1. Calls[5 * q + 0 + 1] = <<Clusters[q + 1], K8sKinds[0 + 1]>>
      BY CallAtPlace
    <3> QED
      BY <2>2, <3>1 DEF K8sKinds
  <2>5. Calls[5 * q + 2] = <<Clusters[q + 1], "namespace">>
    <3>1. Calls[5 * q + 1 + 1] = <<Clusters[q + 1], K8sKinds[1 + 1]>>
      BY CallAtPlace
    <3> QED
      BY <2>2, <3>1 DEF K8sKinds
  <2>6. 5 * q + 1 \in 1 .. c - 1 /\ 5 * q + 2 \in 1 .. c - 1
    BY <2>1, <2>2, <2>3
  <2> QED
    BY <2>1, <2>3, <2>4, <2>5, <2>6 DEF AnchorKinds
<1>2. CASE \E i \in 1 .. 7 : /\ c = 5 * Len(Clusters) + i
                             /\ Calls[c] = <<"aws", AwsKinds[i]>>
  <2>1. PICK i \in 1 .. 7 : /\ c = 5 * Len(Clusters) + i
                            /\ Calls[c] = <<"aws", AwsKinds[i]>>
    BY <1>2
  <2>2. \/ i \in {2, 6} /\ k[1] = "ec2"
        \/ i = 4 /\ k[1] = "tgw"
    BY <2>1, AnchorKindsOf DEF AwsKinds
  <2>3. /\ Calls[5 * Len(Clusters) + 1] = <<"aws", "ec2">>
        /\ Calls[5 * Len(Clusters) + 3] = <<"aws", "tgw">>
    BY CallsAre DEF AwsKinds
  <2>4. /\ i > 1 => 5 * Len(Clusters) + 1 \in 1 .. c - 1
        /\ i > 3 => 5 * Len(Clusters) + 3 \in 1 .. c - 1
    BY <2>1, ClustersAre
  <2> QED
    BY <2>1, <2>2, <2>3, <2>4 DEF AnchorKinds
<1>3. CASE \E i \in 1 .. 3 : /\ c = 5 * Len(Clusters) + 7 + i
                             /\ Calls[c] = <<"cloudflare", CloudflareKinds[i]>>
  <2>1. PICK i \in 1 .. 3 : /\ c = 5 * Len(Clusters) + 7 + i
                            /\ Calls[c] = <<"cloudflare", CloudflareKinds[i]>>
    BY <1>3
  <2>2. i = 2 /\ k[1] = "zone"
    BY <2>1, AnchorKindsOf DEF CloudflareKinds
  <2>3. Calls[5 * Len(Clusters) + 7 + 1] = <<"cloudflare", "zone">>
    BY CallsAre DEF CloudflareKinds
  <2>4. 5 * Len(Clusters) + 7 + 1 \in 1 .. c - 1
    BY <2>1, <2>2, ClustersAre
  <2> QED
    BY <2>1, <2>2, <2>3, <2>4 DEF AnchorKinds
<1> QED
  BY <1>1, <1>2, <1>3, CallIsOneOf

\* A set of natural numbers has a least element.
LEMMA LeastNatural ==
    ASSUME NEW S, S \subseteq Nat, S # {}
    PROVE  \E m \in S : \A n \in S : m <= n
<1>1. IsWellFoundedOn({pair \in Nat \X Nat : pair[1] < pair[2]}, Nat)
  BY NatLessThanWellFounded DEF OpToRel
<1>2. PICK m \in S :
        \A n \in S : <<n, m>> \notin {pair \in Nat \X Nat : pair[1] < pair[2]}
  BY <1>1, WFMin
<1>3. ASSUME NEW n \in S PROVE m <= n
  <2>1. m \in Nat /\ n \in Nat
    OBVIOUS
  <2>2. ~(n < m)
    BY <1>2, <2>1
  <2> QED
    BY <2>1, <2>2
<1> QED
  BY <1>3

\* A layer that is given up has no other call skipped than its own.
LEMMA AfterLayerIs ==
    ASSUME call \in 1 .. Len(Calls)
    PROVE  /\ AfterLayer \in call + 1 .. Len(Calls) + 1
           /\ \A j \in call .. AfterLayer - 1 : Calls[j][1] = Layer
<1> DEFINE S == {i \in call + 1 .. Len(Calls) + 1 :
                    i = Len(Calls) + 1 \/ Calls[i][1] # Layer}
<1>1. call \in Nat /\ Len(Calls) \in Nat
  BY CallTypes
<1>2. S \subseteq Nat /\ Len(Calls) + 1 \in S
  BY <1>1
<1>3. PICK i \in S : \A n \in S : i <= n
  <2> HIDE DEF S
  <2> QED
    BY <1>2, LeastNatural
<1>4. ASSUME NEW j \in call .. i - 1 PROVE Calls[j][1] = Layer
  BY <1>1, <1>3 DEF Layer
<1> QED
  BY <1>3, <1>4 DEF AfterLayer

-----------------------------------------------------------------------------
(* The edges of a layer.                                                   *)

\* An edge of layer l starts at a node and ends at one, or at something new.
LeadsOn(e, l, nodes, new) ==
    /\ e[1] \in nodes
    /\ e[2] \in nodes \/ \E x \in new : e[2] = Id(l, x)

\* An edge to an anchor leads on, if the nodes have the kind it leads to.
LEMMA AnchoredEdge ==
    ASSUME NEW l, NEW objs, NEW new, Anchored(objs, new), NEW nodes, NEW e,
           NEW o \in objs, NEW kind, NEW name, <<kind, "", name>> \in Anchors(o),
           e[1] \in nodes, e[2] = IdOf(l, kind, "", name),
           \A x \in objs : x.kind = kind => Id(l, x) \in nodes
    PROVE  LeadsOn(e, l, nodes, new)
<1>1. PICK x \in objs \cup new : Key(x) = <<kind, "", name>>
  BY DEF Anchored
<1>2. x.kind = kind /\ e[2] = Id(l, x)
  BY <1>1 DEF Key, Id, IdOf
<1> QED
  BY <1>2 DEF LeadsOn

LEMMA K8sEdgesLeadOn ==
    ASSUME NEW c, NEW objs, NEW new, Anchored(objs, new), NEW e \in K8sEdges(c, objs)
    PROVE  LeadsOn(e, c, K8sNodes(c, objs), new)
<1> DEFINE nodes == K8sNodes(c, objs)
<1>1. IdOf(c, "cluster", "", c) \in nodes /\ \A o \in objs : Id(c, o) \in nodes
  BY DEF K8sNodes
<1> HIDE DEF nodes
<1>2. ASSUME NEW o \in objs, e = <<Id(c, o), IdOf(c, "cluster", "", c), "BELONGS_TO">>
      PROVE  LeadsOn(e, c, nodes, new)
  <2>1. e[1] = Id(c, o) /\ e[2] = IdOf(c, "cluster", "", c)
    BY <1>2
  <2> QED
    BY <1>1, <2>1 DEF LeadsOn
<1>3. ASSUME NEW o \in objs, o.kind \in {"pod", "service", "pvc"},
             e = <<Id(c, o), IdOf(c, "namespace", "", o.ns), "IN_NAMESPACE">>
      PROVE  LeadsOn(e, c, nodes, new)
  <2>1. <<"namespace", "", o.ns>> \in Anchors(o)
    BY <1>3, AnchorsAre
  <2>2. e[1] \in nodes /\ e[2] = IdOf(c, "namespace", "", o.ns)
    BY <1>1, <1>3
  <2> QED
    BY <1>1, <2>1, <2>2, AnchoredEdge, Zenon
<1>4. ASSUME NEW o \in objs, o.kind = "pod", o.node # "",
             e = <<Id(c, o), IdOf(c, "node", "", o.node), "SCHEDULED_ON">>
      PROVE  LeadsOn(e, c, nodes, new)
  <2>1. <<"node", "", o.node>> \in Anchors(o)
    BY <1>4, AnchorsAre
  <2>2. e[1] \in nodes /\ e[2] = IdOf(c, "node", "", o.node)
    BY <1>1, <1>4
  <2> QED
    BY <1>1, <2>1, <2>2, AnchoredEdge, Zenon
<1>5. ASSUME NEW a \in objs, NEW b \in objs, NEW type, e = <<Id(c, a), Id(c, b), type>>
      PROVE  LeadsOn(e, c, nodes, new)
  <2>1. e[1] = Id(c, a) /\ e[2] = Id(c, b)
    BY <1>5
  <2> QED
    BY <1>1, <2>1 DEF LeadsOn
<1>6. CASE e \in {<<Id(c, o), IdOf(c, "cluster", "", c), "BELONGS_TO">> :
                    o \in Of(objs, "namespace") \cup Of(objs, "node")}
  BY <1>2, <1>6 DEF Of, nodes
<1>7. CASE e \in {<<Id(c, o), IdOf(c, "namespace", "", o.ns), "IN_NAMESPACE">> :
                    o \in Of(objs, "pod") \cup Of(objs, "service") \cup Of(objs, "pvc")}
  BY <1>3, <1>7 DEF Of, nodes
<1>8. CASE e \in {<<Id(c, p), IdOf(c, "node", "", p.node), "SCHEDULED_ON">> :
                    p \in {q \in Of(objs, "pod") : q.node # ""}}
  BY <1>4, <1>8 DEF Of, nodes
<1>9. CASE e \in {<<Id(c, sp[1]), Id(c, sp[2]), "ROUTES_TO">> :
                    sp \in {q \in Pairs(objs, "service", "pod") :
                              /\ q[1].ns = q[2].ns /\ q[1].selector # {}
                              /\ q[1].selector \subseteq q[2].labels}}
  BY <1>5, <1>9 DEF Pairs, Of, nodes
<1>10. CASE e \in {<<Id(c, pv[1]), Id(c, pv[2]), "MOUNTS">> :
                     pv \in {q \in Pairs(objs, "pod", "pvc") :
                               q[1].ns = q[2].ns /\ q[2].name \in q[1].claims}}
  BY <1>5, <1>10 DEF Pairs, Of, nodes
<1> QED
  BY <1>6, <1>7, <1>8, <1>9, <1>10 DEF K8sEdges

LEMMA AwsEdgesLeadOn ==
    ASSUME NEW objs, NEW new, Anchored(objs, new), NEW e \in AwsEdges(objs)
    PROVE  LeadsOn(e, "aws", AwsNodes(objs), new)
<1> DEFINE nodes == AwsNodes(objs)
<1>1. \A o \in objs : o.kind \notin {"attachment", "target"} => Id("aws", o) \in nodes
  BY DEF AwsNodes
<1> HIDE DEF nodes
<1>2. ASSUME NEW o \in objs, o.kind = "ebs", o.attached # "",
             e = <<Id("aws", o), IdOf("aws", "ec2", "", o.attached), "ATTACHED_TO">>
      PROVE  LeadsOn(e, "aws", nodes, new)
  <2>1. <<"ec2", "", o.attached>> \in Anchors(o)
    BY <1>2, AnchorsAre
  <2>2. e[1] = Id("aws", o) /\ e[2] = IdOf("aws", "ec2", "", o.attached)
    BY <1>2
  <2>3. e[1] \in nodes /\ \A x \in objs : x.kind = "ec2" => Id("aws", x) \in nodes
    BY <1>1, <1>2, <2>2
  <2> QED
    BY <2>1, <2>2, <2>3, AnchoredEdge, Zenon
<1>3. ASSUME NEW a \in objs, NEW t \in objs, a.kind = "alb", t.kind = "target",
             e = <<Id("aws", a), IdOf("aws", "ec2", "", t.instance), "ROUTES_TO">>
      PROVE  LeadsOn(e, "aws", nodes, new)
  <2>1. <<"ec2", "", t.instance>> \in Anchors(t)
    BY <1>3, AnchorsAre
  <2>2. e[1] = Id("aws", a) /\ e[2] = IdOf("aws", "ec2", "", t.instance)
    BY <1>3
  <2>3. e[1] \in nodes /\ \A x \in objs : x.kind = "ec2" => Id("aws", x) \in nodes
    BY <1>1, <1>3, <2>2
  <2> QED
    BY <2>1, <2>2, <2>3, AnchoredEdge, Zenon
<1>4. ASSUME NEW i \in objs, NEW a \in objs, i.kind = "ec2", a.kind = "attachment",
             e = <<Id("aws", i), IdOf("aws", "tgw", "", a.name), "NETWORKS_THROUGH">>
      PROVE  LeadsOn(e, "aws", nodes, new)
  <2>1. <<"tgw", "", a.name>> \in Anchors(a)
    BY <1>4, AnchorsAre
  <2>2. e[1] = Id("aws", i) /\ e[2] = IdOf("aws", "tgw", "", a.name)
    BY <1>4
  <2>3. e[1] \in nodes /\ \A x \in objs : x.kind = "tgw" => Id("aws", x) \in nodes
    BY <1>1, <1>4, <2>2
  <2> QED
    BY <2>1, <2>2, <2>3, AnchoredEdge, Zenon
<1>5. ASSUME NEW a \in objs, NEW b \in objs, a.kind = "record", b.kind \in {"alb", "ec2"},
             e = <<Id("aws", a), Id("aws", b), "RESOLVES_TO">>
      PROVE  LeadsOn(e, "aws", nodes, new)
  <2>1. e[1] = Id("aws", a) /\ e[2] = Id("aws", b)
    BY <1>5
  <2> QED
    BY <1>1, <1>5, <2>1 DEF LeadsOn
<1>6. CASE e \in {<<Id("aws", v), IdOf("aws", "ec2", "", v.attached), "ATTACHED_TO">> :
                    v \in {q \in Of(objs, "ebs") : q.attached # ""}}
  BY <1>2, <1>6 DEF Of, nodes
<1>7. CASE e \in {<<Id("aws", at[1]), IdOf("aws", "ec2", "", at[2].instance), "ROUTES_TO">> :
                    at \in {q \in Pairs(objs, "alb", "target") : q[1].name = q[2].name}}
  BY <1>3, <1>7 DEF Pairs, Of, nodes
<1>8. CASE e \in {<<Id("aws", ia[1]), IdOf("aws", "tgw", "", ia[2].name),
                    "NETWORKS_THROUGH">> :
                    ia \in {q \in Pairs(objs, "ec2", "attachment") : q[1].vpc = q[2].vpc}}
  BY <1>4, <1>8 DEF Pairs, Of, nodes
<1>9. CASE e \in {<<Id("aws", ra[1]), Id("aws", ra[2]), "RESOLVES_TO">> :
                    ra \in {q \in Pairs(objs, "record", "alb") : q[2].dns \in q[1].values}}
  BY <1>5, <1>9 DEF Pairs, Of, nodes
<1>10. CASE e \in {<<Id("aws", ri[1]), Id("aws", ri[2]), "RESOLVES_TO">> :
                     ri \in {q \in Pairs(objs, "record", "ec2") : q[2].ip \in q[1].values}}
  BY <1>5, <1>10 DEF Pairs, Of, nodes
<1> QED
  BY <1>6, <1>7, <1>8, <1>9, <1>10 DEF AwsEdges

LEMMA CloudflareEdgesLeadOn ==
    ASSUME NEW objs, NEW new, Anchored(objs, new), NEW e \in CloudflareEdges(objs)
    PROVE  LeadsOn(e, "cloudflare", CloudflareNodes(objs), new)
<1> DEFINE nodes == CloudflareNodes(objs)
<1>1. \A o \in objs : Id("cloudflare", o) \in nodes
  BY DEF CloudflareNodes
<1> HIDE DEF nodes
<1>2. ASSUME NEW o \in objs, o.kind = "dns",
             e = <<Id("cloudflare", o), IdOf("cloudflare", "zone", "", o.zone), "BELONGS_TO">>
      PROVE  LeadsOn(e, "cloudflare", nodes, new)
  <2>1. <<"zone", "", o.zone>> \in Anchors(o)
    BY <1>2, AnchorsAre
  <2>2. e[1] = Id("cloudflare", o) /\ e[2] = IdOf("cloudflare", "zone", "", o.zone)
    BY <1>2
  <2>3. e[1] \in nodes
    BY <1>1, <2>2
  <2> QED
    BY <1>1, <2>1, <2>2, <2>3, AnchoredEdge, Zenon
<1>3. ASSUME NEW a \in objs, NEW b \in objs,
             e = <<Id("cloudflare", a), Id("cloudflare", b), "ROUTES_THROUGH">>
      PROVE  LeadsOn(e, "cloudflare", nodes, new)
  <2>1. e[1] = Id("cloudflare", a) /\ e[2] = Id("cloudflare", b)
    BY <1>3
  <2> QED
    BY <1>1, <2>1 DEF LeadsOn
<1>4. CASE e \in {<<Id("cloudflare", d), IdOf("cloudflare", "zone", "", d.zone),
                    "BELONGS_TO">> : d \in Of(objs, "dns")}
  BY <1>2, <1>4 DEF Of, nodes
<1>5. CASE e \in {<<Id("cloudflare", dt[1]), Id("cloudflare", dt[2]), "ROUTES_THROUGH">> :
                    dt \in {q \in Pairs(objs, "dns", "tunnel") : q[1].content = q[2].name}}
  BY <1>3, <1>5 DEF Pairs, Of, nodes
<1> QED
  BY <1>4, <1>5 DEF CloudflareEdges

-----------------------------------------------------------------------------
(* The whole graph, of any lists g.                                        *)

LEMMA AllAre ==
    ASSUME NEW g, NEW kind, NEW p \in All(g, kind)
    PROVE  p[1] \in DOMAIN g /\ p[2] \in g[p[1]] /\ p[2].kind = kind
<1>1. PICK l \in DOMAIN g : p \in {<<l, o>> : o \in Of(g[l], kind)}
  BY DEF All
<1>2. PICK o \in Of(g[l], kind) : p = <<l, o>>
  BY <1>1
<1> QED
  BY <1>2 DEF Of

LEMMA ObjectIsNode ==
    ASSUME NEW g, NEW l \in DOMAIN g, NEW o \in g[l], o.kind \notin {"attachment", "target"}
    PROVE  Id(l, o) \in GraphNodes(g)
<1> DEFINE nodes == CASE l = "aws" -> AwsNodes(g[l])
                      [] l = "cloudflare" -> CloudflareNodes(g[l])
                      [] OTHER -> K8sNodes(l, g[l])
<1>1. Id(l, o) \in nodes
  <2>1. CASE l = "aws"
    BY <2>1 DEF AwsNodes
  <2>2. CASE l = "cloudflare"
    BY <2>2 DEF CloudflareNodes
  <2>3. CASE l # "aws" /\ l # "cloudflare"
    BY <2>3 DEF K8sNodes
  <2> QED
    BY <2>1, <2>2, <2>3
<1>2. nodes \subseteq GraphNodes(g)
  BY DEF GraphNodes
<1> QED
  BY <1>1, <1>2

\* Kinds of which each object is a node.
NodeKinds == {"node", "pvc", "service", "ec2", "ebs", "record", "alb", "dns", "tunnel"}

LEMMA CrossLayerEdgesJoin ==
    ASSUME NEW g, NEW e \in CrossLayerEdges(g)
    PROVE  {e[1], e[2]} \subseteq GraphNodes(g)
<1>1. ASSUME NEW kind1 \in NodeKinds, NEW kind2 \in NodeKinds, NEW type,
             NEW p1 \in All(g, kind1), NEW p2 \in All(g, kind2),
             e = <<Id(p1[1], p1[2]), Id(p2[1], p2[2]), type>>
      PROVE  {e[1], e[2]} \subseteq GraphNodes(g)
  <2>1. Id(p1[1], p1[2]) \in GraphNodes(g) /\ Id(p2[1], p2[2]) \in GraphNodes(g)
    BY AllAre, ObjectIsNode DEF NodeKinds
  <2>2. e[1] = Id(p1[1], p1[2]) /\ e[2] = Id(p2[1], p2[2])
    BY <1>1
  <2> QED
    BY <2>1, <2>2
<1>2. ASSUME e \in DeploysOn(g)
      PROVE  \E kind1 \in NodeKinds, kind2 \in NodeKinds, type \in {"DEPLOYS_ON"} :
                \E p1 \in All(g, kind1), p2 \in All(g, kind2) :
                   e = <<Id(p1[1], p1[2]), Id(p2[1], p2[2]), type>>
  BY <1>2, Zenon DEF DeploysOn, Linked, NodeKinds
<1>3. ASSUME e \notin DeploysOn(g)
      PROVE  \E kind1 \in NodeKinds, kind2 \in NodeKinds,
                type \in {"RESOLVES_TO", "ROUTES_TO", "TUNNELS_TO"} :
                \E p1 \in All(g, kind1), p2 \in All(g, kind2) :
                   e = <<Id(p1[1], p1[2]), Id(p2[1], p2[2]), type>>
  <2> DEFINE Joins(kind1, kind2, type) ==
               \E p1 \in All(g, kind1), p2 \in All(g, kind2) :
                  e = <<Id(p1[1], p1[2]), Id(p2[1], p2[2]), type>>
  <2>1. \/ Joins("record", "alb", "RESOLVES_TO") \/ Joins("dns", "alb", "RESOLVES_TO")
        \/ Joins("dns", "record", "RESOLVES_TO") \/ Joins("alb", "service", "ROUTES_TO")
        \/ Joins("tunnel", "service", "TUNNELS_TO")
    BY <1>3, Zenon DEF CrossLayerEdges, Linked
  <2> HIDE DEF Joins
  <2>2. \E kind1 \in NodeKinds, kind2 \in NodeKinds,
           type \in {"RESOLVES_TO", "ROUTES_TO", "TUNNELS_TO"} : Joins(kind1, kind2, type)
    BY <2>1 DEF NodeKinds
  <2> QED
    BY <2>2 DEF Joins
<1> QED
  BY <1>1, <1>2, <1>3

\* What DanglingTargetsAreNew says of an edge of the graph made of g.
Reaches(e, g, new) ==
    \/ {e[1], e[2]} \subseteq GraphNodes(g)
    \/ /\ e[1] \in GraphNodes(g)
       /\ e[2] \in {Id(l, o) : l \in Layers, o \in new}

LEMMA LayerEdgesReach ==
    ASSUME NEW g, NEW new, NEW l \in Layers, l \in DOMAIN g, Anchored(g[l], new),
           NEW e \in CASE l = "aws" -> AwsEdges(g[l])
                       [] l = "cloudflare" -> CloudflareEdges(g[l])
                       [] OTHER -> K8sEdges(l, g[l])
    PROVE  Reaches(e, g, new)
<1> DEFINE nodes == CASE l = "aws" -> AwsNodes(g[l])
                      [] l = "cloudflare" -> CloudflareNodes(g[l])
                      [] OTHER -> K8sNodes(l, g[l])
<1>1. nodes \subseteq GraphNodes(g)
  BY DEF GraphNodes
<1>2. LeadsOn(e, l, nodes, new)
  <2>1. CASE l = "aws"
    BY <2>1, AwsEdgesLeadOn
  <2>2. CASE l = "cloudflare"
    BY <2>2, CloudflareEdgesLeadOn
  <2>3. CASE l # "aws" /\ l # "cloudflare"
    BY <2>3, K8sEdgesLeadOn
  <2> QED
    BY <2>1, <2>2, <2>3
<1> QED
  BY <1>1, <1>2 DEF LeadsOn, Reaches

LEMMA EdgesReach ==
    ASSUME NEW g, DOMAIN g = Layers, NEW new, \A l \in Layers : Anchored(g[l], new),
           NEW e \in GraphEdges(g)
    PROVE  Reaches(e, g, new)
<1>1. CASE e \in CrossLayerEdges(g)
  BY <1>1, CrossLayerEdgesJoin DEF Reaches
<1>2. CASE e \notin CrossLayerEdges(g)
  <2>1. PICK l \in DOMAIN g : e \in CASE l = "aws" -> AwsEdges(g[l])
                                     [] l = "cloudflare" -> CloudflareEdges(g[l])
                                     [] OTHER -> K8sEdges(l, g[l])
    BY <1>2 DEF GraphEdges
  <2> QED
    BY <2>1, LayerEdgesReach
<1> QED
  BY <1>1, <1>2

-----------------------------------------------------------------------------
(* The mock layers are whole: what their objects name is in them.          *)

LEMMA WholeIsAnchored ==
    ASSUME NEW objs, NEW new, Anchored(objs, {})
    PROVE  Anchored(objs, new)
  BY DEF Anchored

LEMMA FieldsAre ==
    /\ \A n : Namespace(n).kind = "namespace" /\ Key(Namespace(n)) = <<"namespace", "", n>>
    /\ \A n, i : Node(n, i).kind = "node" /\ Key(Node(n, i)) = <<"node", "", n>>
  BY DEF Key, Namespace, Node

\* An object of a cluster in one of these namespaces, and on one of these nodes.
LivesIn(o, homes, places) ==
    \/ o.kind \in {"namespace", "node"}
    \/ o.kind = "pod" /\ o.ns \in homes /\ o.node \in places
    \/ o.kind \in {"service", "pvc"} /\ o.ns \in homes

LEMMA LivingNode == \A homes, places, n, i : LivesIn(Node(n, i), homes, places)
  BY DEF LivesIn, Node
LEMMA LivingPod ==
    \A homes, places : \A ns \in homes, m \in places : \A n, l, v :
        LivesIn(Pod(ns, n, m, l, v), homes, places)
  BY DEF LivesIn, Pod
LEMMA LivingService ==
    \A homes, places : \A ns \in homes : \A n, x : LivesIn(Service(ns, n, x), homes, places)
  BY DEF LivesIn, Service
LEMMA LivingPvc ==
    \A homes, places : \A ns \in homes : \A n, x : LivesIn(Pvc(ns, n, x), homes, places)
  BY DEF LivesIn, Pvc

\* What is in a mock cluster lives in a namespace and on a node of it.
LEMMA MockClustersAnchored ==
    ASSUME NEW c \in {"platform", "gpu-inference", "blockchain"}
    PROVE  Anchored(MockCluster(c), {})
<1> DEFINE objs == MockCluster(c)
<1>1. ASSUME NEW o \in objs
      PROVE  /\ o.kind \in {"namespace", "node", "pod", "service", "pvc"}
             /\ o.kind \in {"pod", "service", "pvc"} => Namespace(o.ns) \in objs
             /\ o.kind = "pod" => \E i : Node(o.node, i) \in objs
  <2>1. CASE c = "gpu-inference"
    <3> DEFINE Homes == {"default"}
               Places == {"gpu-inference-node-1", "gpu-inference-node-2"}
    <3>3. /\ "default" \in Homes
          /\ "gpu-inference-node-1" \in Places /\ "gpu-inference-node-2" \in Places
      OBVIOUS
    <3>1. {Namespace("default"),
           Node("gpu-inference-node-1", "i-gpu101abcdef123"),
           Node("gpu-inference-node-2", "i-gpu102abcdef456")} \subseteq objs
      BY <2>1 DEF MockCluster, MockNamespaces
    <3>2. LivesIn(o, Homes, Places)
      <4>1. CASE o \in MockNamespaces(c)
        <5>1. PICK n : o = Namespace(n)
          BY <4>1 DEF MockNamespaces
        <5> QED
          BY <5>1 DEF LivesIn, Namespace
      <4>2. CASE o \notin MockNamespaces(c)
        <5>1. \/ o = Node("gpu-inference-node-1", "i-gpu101abcdef123")
              \/ o = Node("gpu-inference-node-2", "i-gpu102abcdef456")
              \/ o = Pod("default", "inference-api-7b89d4", "gpu-inference-node-1",
                         {"inference-api"}, {})
              \/ o = Pod("default", "model-runner-823cd", "gpu-inference-node-2",
                         {"model-runner"}, {"model-weights-pvc"})
              \/ o = Service("default", "inference-api-svc", {"inference-api"})
              \/ o = Service("default", "model-runner-svc", {"model-runner"})
              \/ o = Pvc("default", "model-weights-pvc", "vol-gpu-weights")
          BY <2>1, <4>2 DEF MockCluster
        <5> HIDE DEF Homes, Places
        <5> QED
          BY <3>3, <5>1, LivingNode, LivingPod, LivingService, LivingPvc
      <4> QED
        BY <4>1, <4>2
    <3> QED
      BY <3>1, <3>2 DEF LivesIn
  <2>2. CASE c = "platform"
    <3> DEFINE Homes == {"default", "ai-sre-system"}
               Places == {"platform-node-1", "platform-node-2"}
    <3>3. /\ "default" \in Homes /\ "ai-sre-system" \in Homes
          /\ "platform-node-1" \in Places /\ "platform-node-2" \in Places
      OBVIOUS
    <3>1. {Namespace("default"),
           Namespace("ai-sre-system"),
           Node("platform-node-1", "i-plat201abcdef789"),
           Node("platform-node-2", "i-plat202abcdef012")} \subseteq objs
      BY <2>2 DEF MockCluster, MockNamespaces
    <3>2. LivesIn(o, Homes, Places)
      <4>1. CASE o \in MockNamespaces(c)
        <5>1. PICK n : o = Namespace(n)
          BY <4>1 DEF MockNamespaces
        <5> QED
          BY <5>1 DEF LivesIn, Namespace
      <4>2. CASE o \notin MockNamespaces(c)
        <5>1. \/ o = Node("platform-node-1", "i-plat201abcdef789")
              \/ o = Node("platform-node-2", "i-plat202abcdef012")
              \/ o = Pod("default", "api-gateway-123", "platform-node-1", {"api-gateway"}, {})
              \/ o = Pod("default", "dashboard-8d76", "platform-node-2", {"dashboard"},
                         {"pvc-dashboard-cache"})
              \/ o = Pod("ai-sre-system", "sre-agent-xyz", "platform-node-1", {}, {})
              \/ o = Pod("default", "cloudflared-pod-77", "platform-node-2",
                         {"cloudflared"}, {})
              \/ o = Service("default", "api-gateway-svc", {"api-gateway"})
              \/ o = Service("default", "dashboard-svc", {"dashboard"})
              \/ o = Service("default", "cloudflared-tunnel-svc", {"cloudflared"})
              \/ o = Pvc("default", "pvc-dashboard-cache", "vol-dash-cache")
          BY <2>2, <4>2 DEF MockCluster
        <5> HIDE DEF Homes, Places
        <5> QED
          BY <3>3, <5>1, LivingNode, LivingPod, LivingService, LivingPvc
      <4> QED
        BY <4>1, <4>2
    <3> QED
      BY <3>1, <3>2 DEF LivesIn
  <2>3. CASE c = "blockchain"
    <3> DEFINE Homes == {"hft-core"}
               Places == {"blockchain-node-1"}
    <3>3. /\ "hft-core" \in Homes
          /\ "blockchain-node-1" \in Places
      OBVIOUS
    <3>1. {Namespace("hft-core"),
           Node("blockchain-node-1", "i-chain301abc345")} \subseteq objs
      BY <2>3 DEF MockCluster, MockNamespaces
    <3>2. LivesIn(o, Homes, Places)
      <4>1. CASE o \in MockNamespaces(c)
        <5>1. PICK n : o = Namespace(n)
          BY <4>1 DEF MockNamespaces
        <5> QED
          BY <5>1 DEF LivesIn, Namespace
      <4>2. CASE o \notin MockNamespaces(c)
        <5>1. \/ o = Node("blockchain-node-1", "i-chain301abc345")
              \/ o = Pod("hft-core", "validator-node-0", "blockchain-node-1",
                         {"validator"}, {"chain-data-pvc"})
              \/ o = Pod("hft-core", "validator-node-1", "blockchain-node-1",
                         {"validator"}, {"chain-data-pvc"})
              \/ o = Service("hft-core", "validator-svc", {"validator"})
              \/ o = Pvc("hft-core", "chain-data-pvc", "vol-chain-db")
          BY <2>3, <4>2 DEF MockCluster
        <5> HIDE DEF Homes, Places
        <5> QED
          BY <3>3, <5>1, LivingNode, LivingPod, LivingService, LivingPvc
      <4> QED
        BY <4>1, <4>2
    <3> QED
      BY <3>1, <3>2 DEF LivesIn
  <2> QED
    BY <2>1, <2>2, <2>3
<1> HIDE DEF objs
<1>2. ASSUME NEW o \in objs, NEW k, k \in Anchors(o)
      PROVE  \E x \in objs : Key(x) = k
  <2>1. CASE k = <<"namespace", "", o.ns>> /\ o.kind \in {"pod", "service", "pvc"}
    BY <1>1, <2>1, FieldsAre
  <2>2. CASE k = <<"node", "", o.node>> /\ o.kind = "pod"
    BY <1>1, <2>2, FieldsAre
  <2> QED
    BY <1>1, <1>2, <2>1, <2>2, AnchorsAre
<1> QED
  BY <1>2 DEF Anchored, objs

\* An AWS object that names these instances and gateways only.
RunsOn(o, instances, gateways) ==
    \/ o.kind \in {"ec2", "alb", "tgw", "record"}
    \/ o.kind = "ebs" /\ o.attached \in instances
    \/ o.kind = "target" /\ o.instance \in instances
    \/ o.kind = "attachment" /\ o.name \in gateways

LEMMA RunningAnywhere ==
    \A instances, gateways, n, x, y :
        /\ RunsOn(Instance(n, x, y), instances, gateways)
        /\ RunsOn(Balancer(n, x), instances, gateways)
        /\ RunsOn(Gateway(n), instances, gateways)
        /\ RunsOn(Record(n, x), instances, gateways)
  BY DEF RunsOn, Instance, Balancer, Gateway, Record
LEMMA RunningVolume ==
    \A instances, gateways, n : \A i \in instances : RunsOn(Volume(n, i), instances, gateways)
  BY DEF RunsOn, Volume
LEMMA RunningTarget ==
    \A instances, gateways, n : \A i \in instances : RunsOn(Target(n, i), instances, gateways)
  BY DEF RunsOn, Target
LEMMA RunningAttachment ==
    \A instances, gateways, v : \A g \in gateways : RunsOn(Attachment(g, v), instances, gateways)
  BY DEF RunsOn, Attachment

LEMMA MockAwsAnchored == Anchored(MockAws, {})
<1> DEFINE instances == {"i-gpu101abcdef123", "i-gpu102abcdef456", "i-plat201abcdef789",
                         "i-plat202abcdef012", "i-chain301abc345"}
           gateways == {"tgw-0987654321fedcba"}
<1>1. ASSUME NEW o \in MockAws PROVE RunsOn(o, instances, gateways)
  <2>1. /\ "i-gpu101abcdef123" \in instances /\ "i-gpu102abcdef456" \in instances
        /\ "i-plat201abcdef789" \in instances /\ "i-plat202abcdef012" \in instances
        /\ "i-chain301abc345" \in instances /\ "tgw-0987654321fedcba" \in gateways
    OBVIOUS
  <2> HIDE DEF instances, gateways
  <2>2. CASE o \in {Target("prod-external-alb", i) : i \in {"i-plat201abcdef789",
                                                         "i-plat202abcdef012"}}
    BY <2>1, <2>2, RunningTarget
  <2>3. CASE o \in {Target("internal-services-alb", i) : i \in {"i-gpu101abcdef123",
                                                             "i-gpu102abcdef456"}}
    BY <2>1, <2>3, RunningTarget
  <2>4. CASE o \in {Attachment("tgw-0987654321fedcba", v) : v \in {"vpc-gpu", "vpc-plat",
                                                                 "vpc-chain"}}
    BY <2>1, <2>4, RunningAttachment
  <2>5. CASE \/ o = Volume("vol-gpu-weights", "i-gpu101abcdef123")
             \/ o = Volume("vol-chain-db", "i-chain301abc345")
             \/ o = Volume("vol-dash-cache", "i-plat201abcdef789")
    BY <2>1, <2>5, RunningVolume
  <2>6. CASE \/ \E n, x, y : o = Instance(n, x, y)
             \/ \E n, x : o = Balancer(n, x) \/ o = Record(n, x)
             \/ \E n : o = Gateway(n)
    BY <2>6, RunningAnywhere
  <2> QED
    BY <2>2, <2>3, <2>4, <2>5, <2>6 DEF MockAws
<1>2. ASSUME NEW i \in instances
      PROVE  \E x \in MockAws : Key(x) = <<"ec2", "", i>>
  <2>1. /\ \A n, v, p : Key(Instance(n, v, p)) = <<"ec2", "", n>>
        /\ \E v, p : Instance(i, v, p) \in MockAws
    BY DEF MockAws, Key, Instance
  <2> QED
    BY <2>1
<1>3. \E x \in MockAws : Key(x) = <<"tgw", "", "tgw-0987654321fedcba">>
  <2>1. Gateway("tgw-0987654321fedcba") \in MockAws
    BY DEF MockAws
  <2> QED
    BY <2>1 DEF Key, Gateway
<1> HIDE DEF instances
<1>4. ASSUME NEW o \in MockAws, NEW k, k \in Anchors(o)
      PROVE  \E x \in MockAws : Key(x) = k
  <2>1. \/ o.kind = "ebs" /\ o.attached \in instances /\ k = <<"ec2", "", o.attached>>
        \/ o.kind = "target" /\ o.instance \in instances /\ k = <<"ec2", "", o.instance>>
        \/ o.kind = "attachment" /\ o.name = "tgw-0987654321fedcba" /\ k = <<"tgw", "", o.name>>
    BY <1>1, <1>4, AnchorsAre DEF RunsOn
  <2> QED
    BY <1>2, <1>3, <2>1
<1> QED
  BY <1>4 DEF Anchored

LEMMA MockCloudflareAnchored == Anchored(MockCloudflare, {})
<1>1. ASSUME NEW o \in MockCloudflare
      PROVE  \/ o.kind \in {"zone", "tunnel"}
             \/ o.kind = "dns" /\ o.zone = "hft-analytics.com"
  <2>1. /\ \A n : Zone(n).kind = "zone"
        /\ \A n, t : Tunnel(n, t).kind = "tunnel"
        /\ \A z, n, t : DnsRecord(z, n, t).kind = "dns" /\ DnsRecord(z, n, t).zone = z
    BY DEF Zone, DnsRecord, Tunnel
  <2> QED
    BY <2>1 DEF MockCloudflare
<1>2. \E x \in MockCloudflare : Key(x) = <<"zone", "", "hft-analytics.com">>
  <2>1. Zone("hft-analytics.com") \in MockCloudflare
    BY DEF MockCloudflare
  <2> QED
    BY <2>1 DEF Key, Zone
<1>3. ASSUME NEW o \in MockCloudflare, NEW k, k \in Anchors(o)
      PROVE  \E x \in MockCloudflare : Key(x) = k
  <2>1. k = <<"zone", "", "hft-analytics.com">>
    BY <1>1, <1>3, AnchorsAre
  <2> QED
    BY <1>2, <2>1
<1> QED
  BY <1>3 DEF Anchored

LEMMA MocksAnchored ==
    ASSUME NEW l \in Layers
    PROVE  Anchored(MockObjects(l), {})
<1>1. l \in {"platform", "gpu-inference", "blockchain", "aws", "cloudflare"}
  BY ClustersAre DEF Layers
<1> QED
  BY <1>1, MockClustersAnchored, MockAwsAnchored, MockCloudflareAnchored DEF MockObjects

-----------------------------------------------------------------------------
(* The invariant of the rounds, action by action.                          *)

\* Objects need what they are anchored to.
LEMMA AnchorsNeeded ==
    ASSUME NEW o, NEW k, k \in Anchors(o)
    PROVE  k \in Needs(o)
<1>1. \/ o.kind = "pod" /\ k = <<"namespace", "", o.ns>>
      \/ o.kind = "pod" /\ o.node # "" /\ k = <<"node", "", o.node>>
      \/ o.kind \in {"service", "pvc"} /\ k = <<"namespace", "", o.ns>>
      \/ o.kind = "ebs" /\ o.attached # "" /\ k = <<"ec2", "", o.attached>>
      \/ o.kind = "target" /\ k = <<"ec2", "", o.instance>>
      \/ o.kind = "attachment" /\ k = <<"tgw", "", o.name>>
      \/ o.kind = "dns" /\ k = <<"zone", "", o.zone>>
  BY AnchorsAre
<1>2. CASE o.kind = "pod"
  BY <1>1, <1>2 DEF Needs
<1>3. CASE o.kind \in {"service", "pvc"}
  BY <1>1, <1>3 DEF Needs
<1>4. CASE o.kind = "ebs"
  BY <1>1, <1>4 DEF Needs
<1>5. CASE o.kind \in {"target", "attachment", "dns"}
  BY <1>1, <1>5 DEF Needs
<1> QED
  BY <1>1, <1>2, <1>3, <1>4, <1>5

LEMMA RoundInit == Init => RoundInv
<1> SUFFICES ASSUME Init PROVE RoundInv
  OBVIOUS
<1>1. RoundTypes
  BY CallTypes DEF Init, RoundTypes, Nothing
<1>2. Supplied(world)
  BY TopologyAssumption DEF Init
<1>3. Complete
  BY DEF Init, Complete, Listed
<1>4. Grounded
  BY DEF Init, Grounded, Nothing, Anchored
<1> QED
  BY <1>1, <1>2, <1>3, <1>4 DEF RoundInv

LEMMA AnchoredMore ==
    ASSUME NEW objs, NEW new, NEW more, new \subseteq more, Anchored(objs, new)
    PROVE  Anchored(objs, more)
  BY DEF Anchored

LEMMA CreateKeeps ==
    ASSUME RoundInv, NEW o \in Movable, Create(o)
    PROVE  RoundInv'
<1>1. RoundTypes'
  BY DEF RoundInv, RoundTypes, Create
<1>2. Supplied(world)'
  <2>1. ASSUME NEW x \in world', NEW k \in Needs(x) PROVE k \in {Key(y) : y \in world'}
    BY <2>1 DEF RoundInv, Supplied, Create
  <2> QED
    BY <2>1 DEF Supplied
<1>3. Complete'
  BY DEF RoundInv, Complete, Listed, Of, Create
<1>4. Grounded'
  BY AnchoredMore DEF RoundInv, Grounded, Create
<1> QED
  BY <1>1, <1>2, <1>3, <1>4 DEF RoundInv

LEMMA DeleteKeeps ==
    ASSUME RoundInv, NEW o \in Movable, Delete(o)
    PROVE  RoundInv'
<1>1. RoundTypes'
  BY DEF RoundInv, RoundTypes, Delete, collector
<1>2. Supplied(world)'
  <2>1. ASSUME NEW x \in world', NEW k \in Needs(x) PROVE k \in {Key(y) : y \in world'}
    <3>1. x \in world /\ world' = world \ {o} /\ Key(o) \notin Needs(x)
      BY DEF Delete
    <3>2. PICK y \in world : Key(y) = k
      BY <3>1 DEF RoundInv, Supplied
    <3> QED
      BY <3>1, <3>2
  <2> QED
    BY <2>1 DEF Supplied
<1>3. Complete'
  BY DEF RoundInv, Complete, Listed, Of, Delete, collector
<1>4. Grounded'
  BY DEF RoundInv, Grounded, Delete, collector
<1> QED
  BY <1>1, <1>2, <1>3, <1>4 DEF RoundInv

LEMMA BeginKeeps == RoundInv /\ Begin => RoundInv'
<1> SUFFICES ASSUME RoundInv, Begin PROVE RoundInv'
  OBVIOUS
<1>1. RoundTypes'
  BY CallTypes DEF RoundInv, RoundTypes, Begin, Nothing
<1>2. Supplied(world)'
  BY DEF RoundInv, Begin, cloud
<1>3. Complete'
  BY DEF Begin, Complete, Listed
<1>4. Grounded'
  BY DEF Begin, Grounded, Nothing, Anchored
<1> QED
  BY <1>1, <1>2, <1>3, <1>4 DEF RoundInv

\* The round goes on to a later call; the calls between are of layers given up.
LEMMA ListedBefore ==
    ASSUME RoundTypes, call \in 1 .. Len(Calls), NEW next \in call + 1 .. Len(Calls) + 1,
           call' = next, NEW l, NEW kind, Listed(l, kind)',
           \A j \in call .. next - 1 : Calls[j] # <<l, kind>>
    PROVE  Listed(l, kind)
<1>1. PICK j \in 1 .. next - 1 : Calls[j] = <<l, kind>>
  BY DEF Listed
<1>2. j \in 1 .. call - 1
  BY <1>1, CallTypes
<1> QED
  BY <1>1, <1>2 DEF Listed

LEMMA ListedNext ==
    ASSUME call \in 1 .. Len(Calls), call' = call + 1, NEW l, NEW kind, Listed(l, kind)',
           Calls[call] # <<l, kind>>
    PROVE  Listed(l, kind)
<1>1. PICK j \in 1 .. call + 1 - 1 : Calls[j] = <<l, kind>>
  BY DEF Listed
<1>2. j \in 1 .. call - 1
  BY <1>1, CallTypes
<1> QED
  BY <1>1, <1>2 DEF Listed

LEMMA PassOverKeeps == RoundInv /\ PassOver => RoundInv'
<1> SUFFICES ASSUME RoundInv, PassOver PROVE RoundInv'
  OBVIOUS
<1>1. RoundTypes'
  BY CallTypes DEF RoundInv, RoundTypes, PassOver
<1>2. Supplied(world)'
  BY DEF RoundInv, PassOver, cloud
<1>3. Complete'
  <2>1. ASSUME NEW l \in Layers \ mocked', NEW kind \in AnchorKinds, Listed(l, kind)'
        PROVE  Of(world', kind) \subseteq got'[l] \cup born'
    <3>1. Calls[call] # <<l, kind>>
      BY DEF PassOver, PassedOver, AnchorKinds, Kind
    <3>2. Listed(l, kind)
      BY <2>1, <3>1, ListedNext DEF PassOver
    <3> QED
      BY <3>2 DEF RoundInv, Complete, PassOver, cloud
  <2> QED
    BY <2>1 DEF Complete
<1>4. Grounded'
  BY DEF RoundInv, Grounded, PassOver
<1> QED
  BY <1>1, <1>2, <1>3, <1>4 DEF RoundInv

LEMMA GiveUpKeeps == RoundInv /\ GiveUp => RoundInv'
<1> SUFFICES ASSUME RoundInv, GiveUp PROVE RoundInv'
  OBVIOUS
<1>1. /\ AfterLayer \in call + 1 .. Len(Calls) + 1
      /\ \A j \in call .. AfterLayer - 1 : Calls[j][1] = Layer
  BY AfterLayerIs DEF GiveUp
<1>2. RoundTypes'
  BY <1>1, CallTypes DEF RoundInv, RoundTypes, GiveUp, Layer
<1>3. Supplied(world)'
  BY DEF RoundInv, GiveUp, cloud
<1>4. Complete'
  <2>1. ASSUME NEW l \in Layers \ mocked', NEW kind \in AnchorKinds, Listed(l, kind)'
        PROVE  Of(world', kind) \subseteq got'[l] \cup born'
    <3>1. l # Layer /\ l \in Layers \ mocked
      BY DEF GiveUp
    <3>2. \A j \in call .. AfterLayer - 1 : Calls[j] # <<l, kind>>
      BY <1>1, <3>1
    <3>3. Listed(l, kind)
      BY <1>1, <2>1, <3>2, ListedBefore DEF RoundInv, GiveUp
    <3> QED
      BY <3>1, <3>3 DEF RoundInv, Complete, GiveUp, cloud
  <2> QED
    BY <2>1 DEF Complete
<1>5. Grounded'
  BY DEF RoundInv, Grounded, GiveUp
<1> QED
  BY <1>2, <1>3, <1>4, <1>5 DEF RoundInv

\* What is listed is all there is of the kinds that others are anchored to, and
\* comes after those it is anchored to itself.
LEMMA ListKeeps == RoundInv /\ List => RoundInv'
<1> SUFFICES ASSUME RoundInv, List PROVE RoundInv'
  OBVIOUS
<1>1. /\ call \in 1 .. Len(Calls) /\ call' = call + 1
      /\ Layer \in Layers /\ Calls[call] = <<Layer, Kind>>
      /\ got' = [got EXCEPT ![Layer] = @ \cup Answer]
      /\ world' = world /\ born' = born /\ mocked' = mocked
  BY CallTypes DEF List, Layer, Kind, cloud
<1>2. /\ got'[Layer] = got[Layer] \cup Answer
      /\ \A l \in Layers \ {Layer} : got'[l] = got[l]
      /\ DOMAIN got' = Layers
  BY <1>1 DEF RoundInv, RoundTypes
<1>3. RoundTypes'
  BY <1>1, <1>2, CallTypes DEF RoundInv, RoundTypes
<1>4. Supplied(world)'
  BY <1>1 DEF RoundInv
<1>5. Complete'
  <2>1. ASSUME NEW l \in Layers \ mocked', NEW kind \in AnchorKinds, Listed(l, kind)'
        PROVE  Of(world', kind) \subseteq got'[l] \cup born'
    <3>1. CASE <<l, kind>> = Calls[call]
      <4>1. l = Layer /\ kind = Kind
        BY <1>1, <3>1
      <4>2. Answer = Of(world, Kind)
        BY <4>1 DEF Answer, Of, AnchorKinds
      <4> QED
        BY <1>1, <1>2, <4>1, <4>2
    <3>2. CASE <<l, kind>> # Calls[call]
      <4>1. Listed(l, kind)
        BY <1>1, <2>1, <3>2, ListedNext
      <4>2. Of(world, kind) \subseteq got[l] \cup born
        BY <1>1, <4>1 DEF RoundInv, Complete
      <4>3. got[l] \subseteq got'[l]
        BY <1>2
      <4> QED
        BY <1>1, <4>2, <4>3
    <3> QED
      BY <3>1, <3>2
  <2> QED
    BY <2>1 DEF Complete
<1>6. Grounded'
  <2>1. ASSUME Layer \notin mocked PROVE Anchored(got'[Layer], born)
    <3>1. ASSUME NEW o \in Answer, NEW k \in Anchors(o)
          PROVE  \E x \in got[Layer] \cup born : Key(x) = k
      <4>1. o \in world /\ o.kind = Calls[call][2]
        BY <1>1 DEF Answer, Of
      <4>2. PICK x \in world : Key(x) = k
        <5>1. k \in Needs(o)
          BY <3>1, AnchorsNeeded
        <5>2. Needs(o) \subseteq {Key(x) : x \in world}
          BY <4>1 DEF RoundInv, Supplied
        <5> QED
          BY <5>1, <5>2
      <4>3. k[1] \in AnchorKinds /\ Listed(Layer, k[1])
        <5>1. /\ k[1] \in AnchorKinds
              /\ \E j \in 1 .. call - 1 : Calls[j] = <<Calls[call][1], k[1]>>
          BY <1>1, <3>1, <4>1, AnchorsFirst
        <5> QED
          BY <5>1 DEF Listed, Layer
      <4>4. x \in Of(world, k[1])
        BY <4>2 DEF Key, Of
      <4> QED
        BY <1>1, <2>1, <4>2, <4>3, <4>4 DEF RoundInv, Complete
    <3>2. Anchored(got[Layer], born)
      BY <1>1, <2>1 DEF RoundInv, Grounded
    <3> QED
      BY <1>2, <3>1, <3>2 DEF Anchored
  <2> QED
    BY <1>1, <1>2, <2>1 DEF RoundInv, Grounded
<1> QED
  BY <1>3, <1>4, <1>5, <1>6 DEF RoundInv

LEMMA RoundStep == RoundInv /\ [Next]_vars => RoundInv'
<1> SUFFICES ASSUME RoundInv, [Next]_vars PROVE RoundInv'
  OBVIOUS
<1>1. CASE UNCHANGED <<cloud, collector>>
  BY <1>1 DEF cloud, collector, RoundInv, RoundTypes, Complete, Listed, Grounded
<1>2. CASE \E o \in Movable : Create(o) \/ Delete(o)
  BY <1>2, CreateKeeps, DeleteKeeps
<1>3. CASE Push \/ PushFails
  <2>1. RoundTypes' /\ Grounded'
    BY <1>3, CallTypes DEF RoundInv, RoundTypes, Grounded, Push, PushFails
  <2>2. Complete'
    BY <1>3 DEF Complete, Listed, Push, PushFails
  <2>3. Supplied(world)'
    BY <1>3 DEF RoundInv, Push, PushFails, cloud
  <2> QED
    BY <2>1, <2>2, <2>3 DEF RoundInv
<1> QED
  BY <1>1, <1>2, <1>3, BeginKeeps, ListKeeps, PassOverKeeps, GiveUpKeeps
     DEF Next, vars, StartReport, AskCached, AskStore, AskFails

\* An edge of a pushed graph that leads to a node not in it leads to an object
\* created while the round was listing, for any platform and any run of
\* clusters, whatever comes and goes between two calls, whichever calls fail and
\* whichever layers of collector.py fall back to mock objects.
THEOREM GraphsMissOnlyNew == Spec => DanglingTargetsAreNew
<1>1. ASSUME RoundInv, Push, NEW e \in GraphEdges(pushed')
      PROVE  Reaches(e, pushed', born)
  <2>1. pushed' = Collected /\ DOMAIN Collected = Layers
    BY <1>1 DEF Push, Collected
  <2>2. ASSUME NEW l \in Layers PROVE Anchored(Collected[l], born)
    <3>1. CASE l \in mocked
      BY <3>1, MocksAnchored, WholeIsAnchored DEF Collected
    <3>2. CASE l \notin mocked
      BY <1>1, <3>2 DEF Collected, RoundInv, Grounded
    <3> QED
      BY <3>1, <3>2
  <2> HIDE DEF Collected
  <2> QED
    BY <1>1, <2>1, <2>2, EdgesReach
<1>2. RoundInv /\ [Next]_vars
        => [Push => \A e \in GraphEdges(pushed') :
              \/ {e[1], e[2]} \subseteq GraphNodes(pushed')
              \/ /\ e[1] \in GraphNodes(pushed')
                 /\ e[2] \in {Id(l, o) : l \in Layers, o \in born}]_vars
  BY <1>1 DEF Reaches
<1> QED
  BY RoundInit, RoundStep, <1>2, PTL DEF Spec, DanglingTargetsAreNew
=============================================================================
