-------------------------- MODULE IngestionProofs --------------------------
(***************************************************************************)
(* Deduplication suppresses only what was routed, for any number of        *)
(* concurrent webhooks, groups, alerts and any window.                     *)
(*                                                                         *)
(* A handler marks the entry that its group has when its enrichment ends,  *)
(* which may be another one than it began.  What saves the promise is that *)
(* the mark comes with the routing: a marked entry is not younger than it. *)
(***************************************************************************)
EXTENDS AlertIngestion, SequenceTheorems, TLAPS

EntriesInv ==
    /\ groups \in [Groups -> Group \cup {NoGroup}]
    /\ sinceRouted \in [Groups -> 0 .. Window + 1]
    /\ rest \in [Requests -> Seq(Groups)]
    /\ \A q \in Requests : phase[q] = "enriching" => rest[q] # <<>>
    /\ phase \in [Requests -> {"idle", "handling", "enriching"}]

RoutingInv == EntriesInv /\ MarkedMeansRouted

-----------------------------------------------------------------------------

LEMMA WindowIsNat == Window \in Nat /\ NoGroup \notin Group
BY IngestionAssumption

LEMMA NewGroupInGroup == NewGroup \in Group /\ ~NewGroup.investigated
BY WindowIsNat DEF NewGroup, Group

\* Expiry only removes entries.
LEMMA CleanedEntries ==
    ASSUME EntriesInv, NEW g \in Groups
    PROVE  Cleaned[g] = groups[g] \/ Cleaned[g] = NoGroup
BY DEF Cleaned

LEMMA CleanedType ==
    ASSUME EntriesInv
    PROVE  Cleaned \in [Groups -> Group \cup {NoGroup}]
<1>1. \A g \in Groups : Cleaned[g] \in Group \cup {NoGroup}
  BY CleanedEntries DEF EntriesInv
<1> QED
  BY <1>1 DEF Cleaned

LEMMA NextAlert ==
    ASSUME EntriesInv, NEW q \in Requests, rest[q] # <<>>
    PROVE  Head(rest[q]) \in Groups /\ Tail(rest[q]) \in Seq(Groups)
BY DEF EntriesInv

\* An entry that is seen once more keeps its beginning and its mark.
LEMMA SeenGroup ==
    ASSUME NEW group \in Group
    PROVE  /\ Seen(group) \in Group /\ Seen(group).first = group.first
           /\ Seen(group).investigated = group.investigated
BY WindowIsNat DEF Seen, Group

LEMMA RoutingInit == Init => RoutingInv
<1> SUFFICES ASSUME Init PROVE RoutingInv
  OBVIOUS
<1>1. EntriesInv
  BY WindowIsNat DEF Init, EntriesInv
<1>2. MarkedMeansRouted
  BY DEF Init, MarkedMeansRouted
<1> QED
  BY <1>1, <1>2 DEF RoutingInv

\* A step that looks at one group and leaves there an entry that is not marked,
\* or the one it found.
LEMMA CheckKeeps ==
    ASSUME RoutingInv, NEW g \in Groups, NEW entry \in Group,
           \/ ~entry.investigated
           \/ /\ groups[g] \in Group
              /\ entry.first = groups[g].first
              /\ entry.investigated = groups[g].investigated,
           groups' = [Cleaned EXCEPT ![g] = entry],
           UNCHANGED sinceRouted
    PROVE  groups' \in [Groups -> Group \cup {NoGroup}] /\ MarkedMeansRouted'
<1>1. Cleaned \in [Groups -> Group \cup {NoGroup}]
  BY CleanedType DEF RoutingInv
<1>2. /\ groups' \in [Groups -> Group \cup {NoGroup}] /\ groups'[g] = entry
      /\ \A h \in Groups : h # g => groups'[h] = Cleaned[h]
  BY <1>1
<1>3. ASSUME NEW h \in Groups, groups'[h] # NoGroup, groups'[h].investigated
      PROVE  sinceRouted[h] <= groups'[h].first
  <2>1. CASE h = g
    BY <1>2, <1>3, <2>1, WindowIsNat DEF RoutingInv, MarkedMeansRouted
  <2>2. CASE h # g
    BY <1>2, <1>3, <2>2, CleanedEntries DEF RoutingInv, MarkedMeansRouted
  <2> QED
    BY <2>1, <2>2
<1> QED
  BY <1>2, <1>3 DEF MarkedMeansRouted

LEMMA CheckSteps ==
    ASSUME RoutingInv, NEW q \in Requests,
           BeginGroup(q) \/ JoinUnmarked(q) \/ Deduplicate(q)
    PROVE  RoutingInv'
<1> DEFINE g == Head(rest[q])
<1>1. rest[q] # <<>> /\ g \in Groups
  BY NextAlert DEF BeginGroup, JoinUnmarked, Deduplicate, Handling, RoutingInv
<1>2. UNCHANGED sinceRouted
  BY DEF BeginGroup, JoinUnmarked, Deduplicate, Check
<1>3. /\ phase' \in [Requests -> {"idle", "handling", "enriching"}]
      /\ rest' \in [Requests -> Seq(Groups)]
      /\ \A r \in Requests : phase'[r] = "enriching" => rest'[r] # <<>>
  <2>1. CASE Deduplicate(q)
    BY <2>1, <1>1, NextAlert DEF Deduplicate, RoutingInv, EntriesInv, Handling
  <2>2. CASE BeginGroup(q) \/ JoinUnmarked(q)
    BY <2>2, <1>1 DEF BeginGroup, JoinUnmarked, Enrich, RoutingInv, EntriesInv
  <2> QED
    BY <2>1, <2>2
<1>4. groups' \in [Groups -> Group \cup {NoGroup}] /\ MarkedMeansRouted'
  <2>1. CASE BeginGroup(q)
    <3>1. groups' = [Cleaned EXCEPT ![g] = NewGroup]
      BY <2>1 DEF BeginGroup, Check
    <3> QED
      BY <1>1, <1>2, <3>1, CheckKeeps, NewGroupInGroup
  <2>2. CASE JoinUnmarked(q) \/ Deduplicate(q)
    <3>1. Cleaned[g] # NoGroup
      BY <2>2 DEF JoinUnmarked, Deduplicate, Found
    <3>2. Cleaned[g] = groups[g] /\ groups[g] \in Group
      BY <1>1, <3>1, CleanedEntries DEF RoutingInv, EntriesInv
    <3>3. groups' = [Cleaned EXCEPT ![g] = Seen(groups[g])]
      BY <1>1, <2>2, <3>2 DEF JoinUnmarked, Deduplicate, Check
    <3> QED
      BY <1>1, <1>2, <3>2, <3>3, SeenGroup, CheckKeeps
  <2> QED
    BY <2>1, <2>2
<1> QED
  BY <1>2, <1>3, <1>4 DEF RoutingInv, EntriesInv

\* The mark comes with the routing, whichever entry gets it.
LEMMA RouteStep ==
    ASSUME RoutingInv, NEW q \in Requests, Route(q)
    PROVE  RoutingInv'
<1> DEFINE g == Head(rest[q])
           marked == [groups[g] EXCEPT !.investigated = TRUE]
<1>1. /\ rest[q] # <<>> /\ g \in Groups /\ Tail(rest[q]) \in Seq(Groups)
      /\ groups \in [Groups -> Group \cup {NoGroup}]
  BY NextAlert DEF Route, RoutingInv, EntriesInv
<1>2. /\ sinceRouted' = [sinceRouted EXCEPT ![g] = 0]
      /\ rest' = [rest EXCEPT ![q] = Tail(rest[q])]
      /\ phase' = [phase EXCEPT ![q] = "handling"]
      /\ groups' = IF groups[g] = NoGroup THEN groups ELSE [groups EXCEPT ![g] = marked]
  BY DEF Route
<1>3. groups[g] # NoGroup => marked \in Group /\ marked.first = groups[g].first
  BY <1>1 DEF Group
<1>4. \A group \in Group : group.first \in Nat
  BY DEF Group
<1>5. /\ sinceRouted' \in [Groups -> 0 .. Window + 1] /\ sinceRouted'[g] = 0
      /\ \A h \in Groups : h # g => sinceRouted'[h] = sinceRouted[h]
  BY <1>1, <1>2, WindowIsNat DEF RoutingInv, EntriesInv
<1>6. /\ phase' \in [Requests -> {"idle", "handling", "enriching"}]
      /\ rest' \in [Requests -> Seq(Groups)]
      /\ \A r \in Requests : phase'[r] = "enriching" => rest'[r] # <<>>
  BY <1>1, <1>2 DEF RoutingInv, EntriesInv
<1> HIDE DEF g, marked
<1>7. /\ groups' \in [Groups -> Group \cup {NoGroup}]
      /\ \A h \in Groups : h # g => groups'[h] = groups[h]
  BY <1>1, <1>2, <1>3
<1>8. MarkedMeansRouted'
  BY <1>4, <1>5, <1>7 DEF MarkedMeansRouted, RoutingInv
<1> QED
  BY <1>5, <1>6, <1>7, <1>8 DEF RoutingInv, EntriesInv

\* The entry and the routing grow old together.
LEMMA TickStep == ASSUME RoutingInv, Tick PROVE RoutingInv'
<1>1. /\ groups \in [Groups -> Group \cup {NoGroup}]
      /\ sinceRouted \in [Groups -> 0 .. Window + 1]
  BY DEF RoutingInv, EntriesInv
<1>2. UNCHANGED <<rest, phase>>
  BY DEF Tick
<1>3. ASSUME NEW h \in Groups
      PROVE  /\ groups'[h] \in Group \cup {NoGroup}
             /\ sinceRouted'[h] \in 0 .. Window + 1
             /\ (groups'[h] # NoGroup /\ groups'[h].investigated)
                   => sinceRouted'[h] <= groups'[h].first
  <2>1. sinceRouted'[h] = Older(sinceRouted[h], Window + 1)
    BY Zenon DEF Tick
  <2>2. CASE groups[h] = NoGroup
    <3>1. groups'[h] = NoGroup
      BY <2>2, Zenon DEF Tick
    <3>2. sinceRouted[h] \in 0 .. Window + 1
      BY <1>1
    <3> QED
      BY <2>1, <3>1, <3>2, WindowIsNat DEF Older
  <2>3. CASE groups[h] # NoGroup
    <3>1. groups[h] \in Group
      BY <1>1, <2>3
    <3>2. groups'[h] = [groups[h] EXCEPT !.first = Older(groups[h].first, Window + 1),
                                         !.last = Older(groups[h].last, 2 * Window + 1)]
      BY <2>3 DEF Tick
    <3>3. groups[h].investigated => sinceRouted[h] <= groups[h].first
      BY <2>3 DEF RoutingInv, MarkedMeansRouted
    <3>4. /\ groups'[h] \in Group
          /\ groups'[h].first = Older(groups[h].first, Window + 1)
          /\ groups'[h].investigated = groups[h].investigated
      <4>1. /\ groups[h].first \in 0 .. Window + 1 /\ groups[h].last \in 0 .. 2 * Window + 1
            /\ groups[h].investigated \in BOOLEAN
            /\ groups[h] = [first |-> groups[h].first, last |-> groups[h].last,
                            investigated |-> groups[h].investigated]
        BY <3>1 DEF Group
      <4>2. /\ Older(groups[h].first, Window + 1) \in 0 .. Window + 1
            /\ Older(groups[h].last, 2 * Window + 1) \in 0 .. 2 * Window + 1
        BY <4>1, WindowIsNat DEF Older
      <4>3. groups'[h] = [first |-> Older(groups[h].first, Window + 1),
                          last |-> Older(groups[h].last, 2 * Window + 1),
                          investigated |-> groups[h].investigated]
        BY <3>2, <4>1
      <4> QED
        BY <4>1, <4>2, <4>3 DEF Group
    <3>5. groups[h].first \in 0 .. Window + 1 /\ sinceRouted[h] \in 0 .. Window + 1
      BY <1>1, <3>1 DEF Group
    <3> QED
      BY <2>1, <3>3, <3>4, <3>5, WindowIsNat DEF Older
  <2> QED
    BY <2>2, <2>3
<1>4. groups' \in [Groups -> Group \cup {NoGroup}]
      /\ sinceRouted' \in [Groups -> 0 .. Window + 1]
  BY <1>3 DEF Tick
<1> QED
  BY <1>2, <1>3, <1>4 DEF RoutingInv, EntriesInv, MarkedMeansRouted

LEMMA RoutingStep == RoutingInv /\ [Next]_vars => RoutingInv'
<1> SUFFICES ASSUME RoutingInv, [Next]_vars PROVE RoutingInv'
  OBVIOUS
<1>1. CASE UNCHANGED vars
  BY <1>1 DEF vars, RoutingInv, EntriesInv, MarkedMeansRouted
<1>2. CASE Tick
  BY <1>2, TickStep
<1>3. ASSUME NEW q \in Requests, Receive(q) PROVE RoutingInv'
  <2>0. PICK n \in 1 .. MaxAlerts : \E alerts \in [1 .. n -> Groups] :
          rest' = [rest EXCEPT ![q] = alerts]
    BY <1>3 DEF Receive
  <2>1. PICK alerts \in [1 .. n -> Groups] : rest' = [rest EXCEPT ![q] = alerts]
    BY <2>0
  <2>2. alerts \in Seq(Groups)
    BY <2>1, IngestionAssumption
  <2>3. /\ rest' \in [Requests -> Seq(Groups)]
        /\ phase' \in [Requests -> {"idle", "handling", "enriching"}]
        /\ \A r \in Requests : phase'[r] = "enriching" => rest'[r] # <<>>
    BY <1>3, <2>1, <2>2 DEF Receive, RoutingInv, EntriesInv
  <2> QED
    BY <1>3, <2>3 DEF Receive, RoutingInv, EntriesInv, MarkedMeansRouted
<1>4. ASSUME NEW q \in Requests, Respond(q) PROVE RoutingInv'
  BY <1>4 DEF Respond, RoutingInv, EntriesInv, MarkedMeansRouted
<1>5. ASSUME NEW q \in Requests, Route(q) PROVE RoutingInv'
  BY <1>5, RouteStep
<1> QED
  BY <1>1, <1>2, <1>3, <1>4, <1>5, CheckSteps DEF Next, Handle

LEMMA RoutingHolds == Spec => []RoutingInv
BY RoutingInit, RoutingStep, PTL DEF Spec

-----------------------------------------------------------------------------
(* What the types add: the rate limit's counts, and the requests' alerts.  *)

\* A handler works through its alerts from the front, and ends with none left.
RequestInv ==
    /\ checks \in 0 .. CleanupEvery - 1
    /\ accepted \in [0 .. Minute -> Nat]
    /\ \A q \in Requests : /\ Len(rest[q]) <= MaxAlerts
                           /\ phase[q] = "idle" => rest[q] = <<>>

LEMMA BoundsAreNat ==
    /\ MaxAlerts \in Nat /\ Minute \in Nat
    /\ CleanupEvery \in Nat /\ CleanupEvery > 0
BY IngestionAssumption

LEMMA ChecksStep ==
    ASSUME RequestInv, checks' = (checks + 1) % CleanupEvery
    PROVE  checks' \in 0 .. CleanupEvery - 1
BY BoundsAreNat DEF RequestInv

\* A step that takes an alert from the front of a request that is not idle.
LEMMA TakeAlert ==
    ASSUME EntriesInv, RequestInv, NEW q \in Requests, rest[q] # <<>>,
           rest' = [rest EXCEPT ![q] = Tail(@)],
           phase' \in {phase, [phase EXCEPT ![q] = "handling"]}
    PROVE  \A r \in Requests : /\ Len(rest'[r]) <= MaxAlerts
                               /\ phase'[r] = "idle" => rest'[r] = <<>>
<1>1. rest \in [Requests -> Seq(Groups)]
  BY DEF EntriesInv
<1>a. Len(rest[q]) <= MaxAlerts
  BY DEF RequestInv
<1>2. rest'[q] = Tail(rest[q]) /\ Len(Tail(rest[q])) <= MaxAlerts
  <2>1. PICK s \in Seq(Groups) : s = rest[q]
    BY <1>1
  <2>2. Len(Tail(s)) = Len(s) - 1 /\ Len(s) \in Nat
    BY <2>1, HeadTailProperties
  <2> QED
    BY <1>1, <1>a, <2>1, <2>2, BoundsAreNat
<1>3. phase[q] # "idle"
  BY DEF RequestInv
<1>4. ASSUME NEW r \in Requests, r # q
      PROVE  rest'[r] = rest[r] /\ phase'[r] = phase[r]
  BY <1>1, <1>4 DEF EntriesInv
<1>5. phase'[q] # "idle"
  BY <1>3 DEF EntriesInv
<1> QED
  BY <1>2, <1>4, <1>5 DEF RequestInv

LEMMA RequestStep ==
    ASSUME RoutingInv, RequestInv, [Next]_vars
    PROVE  RequestInv'
<1>1. EntriesInv
  BY DEF RoutingInv
<1>2. ASSUME NEW q \in Requests, Receive(q) PROVE RequestInv'
  <2>1. PICK n \in 1 .. MaxAlerts : \E alerts \in [1 .. n -> Groups] :
          rest' = [rest EXCEPT ![q] = alerts]
    BY <1>2 DEF Receive
  <2>2. PICK alerts \in [1 .. n -> Groups] : rest' = [rest EXCEPT ![q] = alerts]
    BY <2>1
  <2>3. Len(alerts) <= MaxAlerts
    BY <2>1, <2>2, BoundsAreNat
  <2>4. accepted' \in [0 .. Minute -> Nat]
    BY <1>2, BoundsAreNat DEF Receive, RequestInv
  <2>5. checks' = checks /\ phase' = [phase EXCEPT ![q] = "handling"]
    BY <1>2 DEF Receive
  <2> QED
    BY <1>1, <2>2, <2>3, <2>4, <2>5 DEF EntriesInv, RequestInv
<1>3. ASSUME NEW q \in Requests, BeginGroup(q) \/ JoinUnmarked(q) PROVE RequestInv'
  <2>1. /\ checks' = (checks + 1) % CleanupEvery /\ UNCHANGED <<accepted, rest>>
        /\ phase' = [phase EXCEPT ![q] = "enriching"]
    BY <1>3 DEF BeginGroup, JoinUnmarked, Check, Enrich
  <2> QED
    BY <1>1, <2>1, ChecksStep DEF EntriesInv, RequestInv
<1>4. ASSUME NEW q \in Requests, Deduplicate(q) PROVE RequestInv'
  <2>1. /\ checks' = (checks + 1) % CleanupEvery /\ UNCHANGED <<accepted, phase>>
        /\ rest' = [rest EXCEPT ![q] = Tail(@)] /\ rest[q] # <<>>
    BY <1>4 DEF Deduplicate, Check, Handling
  <2> QED
    BY <1>1, <2>1, ChecksStep, TakeAlert DEF RequestInv
<1>5. ASSUME NEW q \in Requests, Route(q) PROVE RequestInv'
  <2>1. /\ UNCHANGED <<checks, accepted>> /\ rest[q] # <<>>
        /\ rest' = [rest EXCEPT ![q] = Tail(@)]
        /\ phase' = [phase EXCEPT ![q] = "handling"]
    BY <1>1, <1>5 DEF Route, EntriesInv
  <2> QED
    BY <1>1, <2>1, TakeAlert DEF RequestInv
<1>6. ASSUME NEW q \in Requests, Respond(q) PROVE RequestInv'
  BY <1>1, <1>6 DEF Respond, EntriesInv, RequestInv
<1>7. CASE Tick
  <2>1. /\ accepted' = [age \in DOMAIN accepted |->
                            IF age = 0 THEN 0 ELSE accepted[age - 1]]
        /\ UNCHANGED <<checks, rest, phase>>
    BY <1>7 DEF Tick
  <2>2. accepted' \in [0 .. Minute -> Nat]
    BY <2>1, BoundsAreNat DEF RequestInv
  <2> QED
    BY <2>1, <2>2 DEF RequestInv
<1>8. CASE UNCHANGED vars
  BY <1>8 DEF vars, RequestInv
<1> QED
  BY <1>2, <1>3, <1>4, <1>5, <1>6, <1>7, <1>8 DEF Next, Handle

\* Types, and that a handler enriches only an alert it has: for any number of
\* requests, groups, alerts and any window.
THEOREM IngestionTypes == Spec => []TypeOK
<1>1. Init => RequestInv
  <2> SUFFICES ASSUME Init PROVE RequestInv
    OBVIOUS
  <2>1. checks \in 0 .. CleanupEvery - 1
    BY BoundsAreNat DEF Init
  <2>2. accepted \in [0 .. Minute -> Nat]
    BY DEF Init
  <2>3. \A q \in Requests : rest[q] = <<>> /\ Len(rest[q]) <= MaxAlerts
    <3>1. Len(<<>>) = 0
      BY EmptySeq
    <3> QED
      BY <3>1, BoundsAreNat DEF Init
  <2> QED
    BY <2>1, <2>2, <2>3 DEF RequestInv
<1>2. RoutingInv /\ RequestInv => TypeOK
  BY DEF RoutingInv, EntriesInv, RequestInv, TypeOK
<1> QED
  BY <1>1, <1>2, RoutingHolds, RequestStep, PTL DEF Spec

-----------------------------------------------------------------------------

\* However handlers interleave and windows expire, a group's entry is marked only
\* if an alert of the group was routed since the entry began.
THEOREM MarksAreRouted == Spec => []MarkedMeansRouted
<1>1. RoutingInv => MarkedMeansRouted
  BY DEF RoutingInv
<1> QED
  BY <1>1, RoutingHolds, PTL

\* So no alert is dropped as a duplicate unless one of its group was routed within
\* the window, for any window, groups and concurrent webhooks.
THEOREM SuppressionIsDue == Spec => SuppressedOnlyAfterRouting
<1>1. ASSUME RoutingInv, NEW q \in Requests, Deduplicate(q)
      PROVE  sinceRouted[Head(rest[q])] <= Window
  <2> DEFINE g == Head(rest[q])
  <2>1. g \in Groups
    BY <1>1, NextAlert DEF RoutingInv, Deduplicate, Handling
  <2>2. Cleaned[g] # NoGroup /\ ~Expired(Cleaned[g]) /\ Cleaned[g].investigated
    BY <1>1 DEF Deduplicate, Found
  <2>3. Cleaned[g] = groups[g] /\ groups[g] \in Group
    BY <1>1, <2>1, <2>2, CleanedEntries DEF RoutingInv, EntriesInv
  <2>4. sinceRouted[g] <= groups[g].first /\ sinceRouted[g] \in 0 .. Window + 1
    BY <1>1, <2>1, <2>2, <2>3 DEF RoutingInv, EntriesInv, MarkedMeansRouted
  <2>5. groups[g].first \in 0 .. Window + 1 /\ groups[g].first <= Window
    BY <2>2, <2>3, WindowIsNat DEF Expired, Group
  <2> QED
    BY <2>4, <2>5, WindowIsNat
<1>2. RoutingInv /\ [Next]_vars =>
        [\A q \in Requests : Deduplicate(q) => sinceRouted[Head(rest[q])] <= Window]_vars
  BY <1>1
<1> QED
  BY <1>2, RoutingHolds, PTL DEF Spec, SuppressedOnlyAfterRouting

=============================================================================
