---------------------------- MODULE AgentsProofs ----------------------------
(***************************************************************************)
(* What bounds the agents of the AI SRE, and what their proposals leave:   *)
(* two models, proved about one after the other.                           *)
(*                                                                         *)
(* First the breaker, the rate limit and the cost cap, for any number of   *)
(* concurrent invocations, any limits, windows and cooldown.  All are      *)
(* checked when a call begins and updated when one ends.  The breaker      *)
(* pauses because the failure that opened it cannot be younger than the    *)
(* last one; calls and cost stay bounded because every running call has    *)
(* its place and its highest price set aside.  A window forgets the right  *)
(* events because it has the oldest first.                                 *)
(***************************************************************************)
EXTENDS AgentLimits, GitOpsProposal, SequenceTheorems, FiniteSetTheorems, TLAPS

OldestFirst(counter) == \A i, j \in DOMAIN counter : i <= j => counter[j] <= counter[i]

AgesInv ==
    /\ OldestFirst(successes) /\ OldestFirst(failures) /\ OldestFirst(api)
    /\ \A role \in Roles : OldestFirst(agent[role])

\* A breaker that is not open has cooled down since it last tripped.
BreakerInv == breaker # "open" => sinceTrip = Cooldown

LimitsInv ==
    /\ TypeOK
    /\ AgesInv
    /\ BreakerInv
    /\ CostOverrunBounded
    /\ ApiOverrunBounded

-----------------------------------------------------------------------------

LEMMA LimitsAreNat ==
    /\ AgentWindow \in Nat /\ ApiWindow \in Nat /\ ErrorWindow \in Nat
    /\ Day \in Nat /\ Cooldown \in Nat
    /\ MaxDailyCost \in Nat /\ MaxDailyCost > 0 /\ MaxCost \in Nat
    /\ MaxApiCalls \in Nat
BY LimitsAssumption

LEMMA OlderType ==
    ASSUME NEW limit \in Nat, NEW age \in 0 .. limit
    PROVE  /\ Older(age, limit) \in 0 .. limit
           /\ age <= Older(age, limit)
BY DEF Older

LEMMA OlderKeepsOrder ==
    ASSUME NEW limit \in Nat, NEW a \in 0 .. limit, NEW b \in 0 .. limit, a <= b
    PROVE  Older(a, limit) <= Older(b, limit)
BY DEF Older

LEMMA UpTo == \A k \in Nat : IsFiniteSet(1 .. k) /\ Cardinality(1 .. k) = k
BY FS_Interval

\* An event recorded is the youngest; a tick ages every event that stays, and
\* those that go are the first of the window.
LEMMA WindowTypes ==
    ASSUME NEW window \in Nat, NEW counter \in Seq(0 .. window), OldestFirst(counter)
    PROVE  /\ Record(counter) \in Seq(0 .. window) /\ OldestFirst(Record(counter))
           /\ Count(Record(counter)) = Count(counter) + 1
           /\ Slide(counter, window) \in Seq(0 .. window)
           /\ OldestFirst(Slide(counter, window))
           /\ Count(Slide(counter, window)) <= Count(counter)
           /\ Count(counter) \in Nat
<1> DEFINE old == {i \in DOMAIN counter : counter[i] = window}
           gone == Cardinality(old)
           n == Len(counter)
           slid == Slide(counter, window)
<1>1. n \in Nat /\ DOMAIN counter = 1 .. n /\ \A i \in 1 .. n : counter[i] \in 0 .. window
  OBVIOUS
<1>2. /\ Record(counter) \in Seq(0 .. window) /\ Len(Record(counter)) = n + 1
      /\ \A i \in 1 .. n : Record(counter)[i] = counter[i]
      /\ Record(counter)[n + 1] = 0 /\ DOMAIN Record(counter) = 1 .. n + 1
  <2> DEFINE Ages == 0 .. window
             more == Append(counter, 0)
  <2>1. counter \in Seq(Ages) /\ 0 \in Ages /\ Record(counter) = more
    BY DEF Record
  <2> HIDE DEF Ages, more
  <2>2. /\ more \in Seq(Ages) /\ Len(more) = Len(counter) + 1
        /\ \A i \in 1 .. Len(counter) : more[i] = counter[i]
        /\ more[Len(counter) + 1] = 0
    BY <2>1, AppendProperties DEF more
  <2>3. DOMAIN more = 1 .. Len(counter) + 1
    BY <2>2
  <2> QED
    BY <2>1, <2>2, <2>3 DEF Ages
<1>3. OldestFirst(Record(counter))
  <2> DEFINE more == Record(counter)
  <2> HIDE DEF more, n
  <2> SUFFICES ASSUME NEW i \in 1 .. n + 1, NEW j \in 1 .. n + 1, i <= j
               PROVE  more[j] <= more[i]
    BY <1>2 DEF OldestFirst, more
  <2>1. \A k \in 1 .. n : more[k] = counter[k] /\ counter[k] \in Nat
    BY <1>1, <1>2 DEF more
  <2>2. CASE j \in 1 .. n
    <3>1. i \in 1 .. n
      BY <1>1, <2>2
    <3> QED
      BY <1>1, <2>1, <2>2, <3>1 DEF OldestFirst
  <2>3. CASE j = n + 1
    <3>1. more[j] = 0 /\ (i \in 1 .. n \/ i = j)
      BY <1>1, <1>2, <2>3 DEF more
    <3> QED
      BY <2>1, <3>1
  <2>4. j \in 1 .. n \/ j = n + 1
    <3>1. n \in Nat
      BY <1>1
    <3> QED
      BY <3>1
  <2> QED
    BY <2>2, <2>3, <2>4
<1>4. IsFiniteSet(old) /\ gone \in Nat /\ gone <= n
  <2>1. IsFiniteSet(1 .. n) /\ Cardinality(1 .. n) = n
    BY <1>1, UpTo
  <2>2. old \in SUBSET (1 .. n)
    BY <1>1
  <2> QED
    BY <1>1, <2>1, <2>2, FS_Subset, FS_CardinalityType
<1>5. ASSUME NEW i \in 1 .. n, i > gone
      PROVE  counter[i] # window
  <2> SUFFICES ASSUME counter[i] = window PROVE FALSE
    OBVIOUS
  <2>1. 1 .. i \in SUBSET old
    BY <1>1, <1>5 DEF OldestFirst
  <2>2. Cardinality(1 .. i) = i /\ IsFiniteSet(1 .. i)
    <3>1. i \in Nat
      OBVIOUS
    <3> QED
      BY <3>1, UpTo
  <2>3. Cardinality(1 .. i) <= gone
    BY <1>4, <2>1, FS_Subset
  <2> QED
    BY <1>4, <1>5, <2>2, <2>3
<1>6. slid = [i \in 1 .. n - gone |-> counter[i + gone] + 1]
  BY DEF Slide
<1> HIDE DEF old, gone, n, slid
<1>7. \A i \in 1 .. n - gone : /\ i + gone \in 1 .. n /\ i + gone > gone
                               /\ counter[i + gone] + 1 \in 0 .. window
  <2> SUFFICES ASSUME NEW i \in 1 .. n - gone
               PROVE  /\ i + gone \in 1 .. n /\ i + gone > gone
                      /\ counter[i + gone] + 1 \in 0 .. window
    OBVIOUS
  <2>1. i + gone \in 1 .. n /\ i + gone > gone
    BY <1>1, <1>4
  <2>2. counter[i + gone] \in 0 .. window /\ counter[i + gone] # window
    BY <1>1, <1>5, <2>1
  <2> QED
    BY <2>1, <2>2
<1>8. /\ slid \in Seq(0 .. window) /\ Len(slid) = n - gone
      /\ \A i \in 1 .. n - gone : slid[i] = counter[i + gone] + 1
      /\ DOMAIN slid = 1 .. n - gone
  <2>1. n - gone \in Nat
    BY <1>1, <1>4
  <2>2. slid \in [1 .. n - gone -> 0 .. window]
    BY <1>6, <1>7
  <2> QED
    BY SMTT(30), <1>6, <2>1, <2>2
<1>9. OldestFirst(slid)
  <2> SUFFICES ASSUME NEW i \in 1 .. n - gone, NEW j \in 1 .. n - gone, i <= j
               PROVE  slid[j] <= slid[i]
    BY <1>8 DEF OldestFirst
  <2>1. i + gone <= j + gone
    BY <1>1, <1>4
  <2>2. counter[j + gone] <= counter[i + gone]
    BY <1>1, <1>7, <2>1 DEF OldestFirst
  <2>3. counter[i + gone] \in Int /\ counter[j + gone] \in Int
    BY <1>1, <1>7
  <2> QED
    BY SMTT(30), <1>8, <2>2, <2>3
<1> QED
  BY <1>1, <1>2, <1>3, <1>4, <1>8, <1>9 DEF Count, n, slid

LEMMA RunningFinite ==
    /\ IsFiniteSet(Running) /\ IsFiniteSet(Invocations)
    /\ Cardinality(Running) \in Nat /\ Cardinality(Invocations) \in Nat
    /\ Cardinality(Running) <= Cardinality(Invocations)
<1>1. Running \in SUBSET Invocations /\ IsFiniteSet(Invocations)
  BY LimitsAssumption DEF Running
<1> QED
  BY <1>1, FS_Subset, FS_CardinalityType

\* A call that ends gives back what was set aside for it.
LEMMA EndingCall ==
    ASSUME TypeOK, NEW i \in Invocations, calling[i] # "none",
           calling' = [calling EXCEPT ![i] = "none"]
    PROVE  /\ Cardinality(Running') = Cardinality(Running) - 1
           /\ Cardinality(Running') \in Nat
<1>1. calling \in [Invocations -> Roles \cup {"none"}]
  BY DEF TypeOK
<1>2. i \in Running /\ Running' = Running \ {i}
  BY <1>1 DEF Running
<1>3. Cardinality(Running') = Cardinality(Running) - 1
  BY <1>2, RunningFinite, FS_RemoveElement
<1>4. IsFiniteSet(Running')
  BY <1>2, RunningFinite, FS_RemoveElement
<1> QED
  BY <1>3, <1>4, FS_CardinalityType

LEMMA BeginningCall ==
    ASSUME TypeOK, NEW i \in Invocations, NEW role \in Roles, calling[i] = "none",
           calling' = [calling EXCEPT ![i] = role]
    PROVE  /\ Cardinality(Running') = Cardinality(Running) + 1
           /\ Cardinality(Running') <= Cardinality(Invocations)
<1>1. calling \in [Invocations -> Roles \cup {"none"}]
  BY DEF TypeOK
<1>2. i \notin Running /\ Running' = Running \cup {i}
  BY <1>1, LimitsAssumption DEF Running
<1>3. Running' \in SUBSET Invocations
  BY DEF Running
<1> QED
  BY <1>2, <1>3, RunningFinite, FS_AddElement, FS_Subset

LEMMA Prices ==
    ASSUME NEW k \in Nat, NEW n \in Nat, k <= n
    PROVE  /\ MaxCost * k \in Nat /\ MaxCost * k <= MaxCost * n
           /\ MaxCost * (k + 1) = MaxCost * k + MaxCost
BY LimitsAreNat

-----------------------------------------------------------------------------

LEMMA LimitsInit == Init => LimitsInv
<1> SUFFICES ASSUME Init PROVE LimitsInv
  OBVIOUS
<1>1. AgesInv
  BY DEF Init, AgesInv, OldestFirst
<1>2. TypeOK
  <2>1. /\ successes \in Seq(0 .. ErrorWindow) /\ failures \in Seq(0 .. ErrorWindow)
        /\ api \in Seq(0 .. ApiWindow) /\ agent \in [Roles -> Seq(0 .. AgentWindow)]
    BY EmptySeq DEF Init
  <2>2. /\ sinceFailure \in 0 .. Cooldown /\ sinceTrip \in 0 .. Cooldown
        /\ sinceReset \in 0 .. Day + 1 /\ sinceRotate \in 0 .. Day + 1
        /\ sinceFailure <= sinceTrip /\ cost \in Nat /\ tracked \in Nat
    BY LimitsAreNat DEF Init
  <2>3. /\ calling \in [Invocations -> Roles \cup {"none"}]
        /\ breaker \in {"closed", "open", "half_open"} /\ calm \in BOOLEAN
    BY DEF Init
  <2> QED
    BY <2>1, <2>2, <2>3 DEF TypeOK
<1>3. BreakerInv
  BY DEF Init, BreakerInv
<1>4. CostOverrunBounded
  <2>1. Running = {} /\ Cardinality(Running) = 0
    BY FS_EmptySet DEF Init, Running
  <2>2. MaxCost * Cardinality(Invocations) \in Nat /\ MaxCost * 0 = 0
    BY LimitsAreNat, RunningFinite, Prices
  <2> QED
    BY <2>1, <2>2, LimitsAreNat DEF Init, CostOverrunBounded
<1>5. ApiOverrunBounded
  <2>1. Cardinality(Running) = 0 /\ Count(api) = 0
    BY FS_EmptySet, EmptySeq DEF Init, Running, Count
  <2>2. Cardinality(Invocations) \in Nat \ {0}
    BY LimitsAssumption, RunningFinite, FS_EmptySet
  <2> QED
    BY <2>1, <2>2, LimitsAreNat DEF ApiOverrunBounded
<1> QED
  BY <1>1, <1>2, <1>3, <1>4, <1>5 DEF LimitsInv

\* A call is admitted below the cap, so its price may be set aside on top of it.
LEMMA CanProceedStep ==
    ASSUME LimitsInv, NEW i \in Invocations, NEW role \in Roles, CanProceed(i, role)
    PROVE  LimitsInv'
<1>1. TypeOK /\ AgesInv /\ BreakerInv /\ CostOverrunBounded /\ ApiOverrunBounded
  BY DEF LimitsInv
<1>2. /\ UNCHANGED <<successes, failures, sinceFailure, sinceTrip, api, agent>>
      /\ UNCHANGED <<tracked, sinceRotate, calm>>
      /\ breaker' = AskedBreaker
      /\ calling[i] = "none"
      /\ \/ calling' = calling
         \/ /\ calling' = [calling EXCEPT ![i] = role] /\ cost' < MaxDailyCost
            /\ Count(api) < MaxApiCalls
      /\ cost' = cost \/ cost' = 0
      /\ sinceReset' = sinceReset \/ sinceReset' = 0
  BY DEF CanProceed, counterVars, trackerVars, limiterCost, CostSeen, CostOk, ApiRateOk
<1>3. AskedBreaker = breaker \/ (AskedBreaker = "half_open" /\ sinceFailure >= Cooldown)
  BY DEF AskedBreaker, CooledDown
<1>4. TypeOK'
  <2>1. /\ breaker' \in {"closed", "open", "half_open"}
        /\ cost' \in Nat /\ sinceReset' \in 0 .. Day + 1
    BY <1>1, <1>2, <1>3, LimitsAreNat DEF TypeOK
  <2>2. calling' \in [Invocations -> Roles \cup {"none"}]
    BY <1>1, <1>2 DEF TypeOK
  <2> QED
    BY <1>1, <1>2, <2>1, <2>2 DEF TypeOK
<1>5. BreakerInv'
  BY <1>1, <1>2, <1>3, LimitsAreNat DEF TypeOK, BreakerInv
<1>6. CostOverrunBounded'
  <2>1. cost \in Nat /\ cost' \in Nat /\ cost' <= cost
    BY <1>1, <1>2 DEF TypeOK
  <2>2. CASE calling' = calling
    <3>1. Running' = Running
      BY <2>2 DEF Running
    <3>2. MaxCost * Cardinality(Running) \in Nat /\ MaxCost * Cardinality(Invocations) \in Nat
      BY RunningFinite, Prices
    <3> QED
      BY <1>1, <2>1, <3>1, <3>2, LimitsAreNat DEF CostOverrunBounded
  <2>3. CASE calling' = [calling EXCEPT ![i] = role] /\ cost' < MaxDailyCost
    <3>1. /\ Cardinality(Running') = Cardinality(Running) + 1
          /\ Cardinality(Running') <= Cardinality(Invocations)
      BY <1>1, <1>2, <2>3, BeginningCall
    <3>2. Cardinality(Running') \in Nat /\ Cardinality(Invocations) \in Nat
      BY <3>1, RunningFinite
    <3>3. /\ MaxCost * Cardinality(Running') \in Nat
          /\ MaxCost * Cardinality(Invocations) \in Nat
          /\ MaxCost * Cardinality(Running') <= MaxCost * Cardinality(Invocations)
      BY <3>1, <3>2, Prices
    <3> QED
      BY <2>1, <2>3, <3>3, LimitsAreNat DEF CostOverrunBounded
  <2> QED
    BY <1>2, <2>2, <2>3
<1>7. ApiOverrunBounded'
  <2>1. Count(api) \in Nat /\ api' = api
    BY <1>1, <1>2 DEF TypeOK, Count
  <2>2. CASE calling' = calling
    BY <1>1, <2>1, <2>2 DEF ApiOverrunBounded, Running, Count
  <2>3. CASE calling' = [calling EXCEPT ![i] = role] /\ Count(api) < MaxApiCalls
    <3>1. /\ Cardinality(Running') = Cardinality(Running) + 1
          /\ Cardinality(Running') <= Cardinality(Invocations)
      BY <1>1, <1>2, <2>3, BeginningCall
    <3> QED
      BY <2>1, <2>3, <3>1, RunningFinite, LimitsAreNat DEF ApiOverrunBounded, Count
  <2> QED
    BY <1>2, <2>2, <2>3
<1>8. AgesInv'
  BY <1>1, <1>2 DEF AgesInv, OldestFirst
<1> QED
  BY <1>4, <1>5, <1>6, <1>7, <1>8 DEF LimitsInv

\* A call costs at most what was set aside.
LEMMA CallSucceedsStep ==
    ASSUME LimitsInv, NEW i \in Invocations, CallSucceeds(i)
    PROVE  LimitsInv'
<1>1. TypeOK /\ AgesInv /\ BreakerInv /\ CostOverrunBounded /\ ApiOverrunBounded
  BY DEF LimitsInv
<1>2. PICK usd \in 0 .. MaxCost : cost' = cost + usd /\ RecordUsage(usd)
  BY DEF CallSucceeds
<1>3. /\ UNCHANGED <<failures, sinceFailure, sinceTrip, sinceReset, calm>>
      /\ successes' = Record(successes) /\ breaker' = ClosedBySuccess
      /\ api' = Record(api)
      /\ agent' = [agent EXCEPT ![calling[i]] = Record(agent[calling[i]])]
      /\ calling[i] # "none" /\ calling' = [calling EXCEPT ![i] = "none"]
  BY DEF CallSucceeds, RecordSuccess
<1>4. ClosedBySuccess = breaker \/ (breaker = "half_open" /\ ClosedBySuccess = "closed")
  BY DEF ClosedBySuccess
<1>5. /\ tracked' \in Nat /\ sinceRotate' \in 0 .. Day + 1
      /\ cost' \in Nat /\ usd \in Nat /\ usd <= MaxCost
  BY <1>1, <1>2, LimitsAreNat DEF TypeOK, RecordUsage
<1>6. /\ successes' \in Seq(0 .. ErrorWindow) /\ api' \in Seq(0 .. ApiWindow)
      /\ agent' \in [Roles -> Seq(0 .. AgentWindow)]
      /\ Count(api') = Count(api) + 1
      /\ AgesInv'
  <2>1. PICK role \in Roles : role = calling[i]
    BY <1>1, <1>3 DEF TypeOK
  <2>2. /\ \A r \in Roles : agent[r] \in Seq(0 .. AgentWindow)
        /\ agent' = [agent EXCEPT ![role] = Record(agent[role])]
        /\ DOMAIN agent = Roles
    BY <1>1, <1>3, <2>1 DEF TypeOK
  <2>3. /\ Record(agent[role]) \in Seq(0 .. AgentWindow)
        /\ OldestFirst(Record(agent[role]))
    BY <1>1, <2>2, WindowTypes, LimitsAreNat DEF AgesInv
  <2>4. /\ Record(successes) \in Seq(0 .. ErrorWindow)
        /\ OldestFirst(Record(successes))
    BY <1>1, WindowTypes, LimitsAreNat DEF TypeOK, AgesInv
  <2>5. /\ Record(api) \in Seq(0 .. ApiWindow) /\ OldestFirst(Record(api))
        /\ Count(Record(api)) = Count(api) + 1
    BY <1>1, WindowTypes, LimitsAreNat DEF TypeOK, AgesInv
  <2> DEFINE Windows == Seq(0 .. AgentWindow)
             new == Record(agent[role])
  <2>6. agent' = [agent EXCEPT ![role] = new] /\ new \in Windows
        /\ agent \in [Roles -> Windows] /\ OldestFirst(new)
    BY <1>1, <2>2, <2>3 DEF TypeOK
  <2> HIDE DEF Windows, new
  <2>7. agent' \in [Roles -> Windows]
    BY <2>6
  <2>8. \A r \in Roles : OldestFirst(agent'[r])
    BY <1>1, <2>6 DEF AgesInv
  <2>9. AgesInv'
    BY <1>1, <1>3, <2>4, <2>5, <2>8 DEF AgesInv, OldestFirst
  <2> QED
    BY <1>3, <2>4, <2>5, <2>7, <2>9 DEF Windows
<1>7. TypeOK'
  BY <1>1, <1>3, <1>4, <1>5, <1>6 DEF TypeOK
<1>8. BreakerInv'
  BY <1>1, <1>3, <1>4 DEF BreakerInv
<1>9. CostOverrunBounded'
  <2>1. Cardinality(Running') = Cardinality(Running) - 1 /\ Cardinality(Running') \in Nat
    BY <1>1, <1>3, EndingCall
  <2>2. Cardinality(Running) = Cardinality(Running') + 1
    BY <2>1, RunningFinite
  <2>3. /\ MaxCost * Cardinality(Running) = MaxCost * Cardinality(Running') + MaxCost
        /\ MaxCost * Cardinality(Running') \in Nat
    BY <2>1, <2>2, Prices
  <2>4. MaxCost * Cardinality(Invocations) \in Nat
    BY RunningFinite, Prices
  <2>5. cost \in Nat /\ cost' = cost + usd
    BY <1>1, <1>2 DEF TypeOK
  <2> QED
    BY <1>1, <1>5, <2>3, <2>4, <2>5, LimitsAreNat DEF CostOverrunBounded
<1>10. ApiOverrunBounded'
  <2>1. Cardinality(Running') = Cardinality(Running) - 1 /\ Count(api)' = Count(api) + 1
    BY <1>1, <1>3, <1>6, EndingCall DEF Count
  <2>2. Count(api) \in Nat
    BY <1>1 DEF TypeOK, Count
  <2> QED
    BY <1>1, <2>1, <2>2, RunningFinite, LimitsAreNat DEF ApiOverrunBounded
<1> QED
  BY <1>6, <1>7, <1>8, <1>9, <1>10 DEF LimitsInv

\* A failure opens the breaker and is the last one at the same time.
LEMMA CallFailsStep ==
    ASSUME LimitsInv, NEW i \in Invocations, CallFails(i)
    PROVE  LimitsInv'
<1>1. TypeOK /\ AgesInv /\ BreakerInv /\ CostOverrunBounded /\ ApiOverrunBounded
  BY DEF LimitsInv
<1>2. /\ UNCHANGED <<successes, api, agent, cost, sinceReset>>
      /\ UNCHANGED <<tracked, sinceRotate, calm>>
      /\ failures' = Record(failures) /\ sinceFailure' = 0
      /\ \/ breaker' = "open" /\ sinceTrip' = 0
         \/ UNCHANGED <<breaker, sinceTrip>>
      /\ calling[i] # "none" /\ calling' = [calling EXCEPT ![i] = "none"]
  BY DEF CallFails, RecordFailure, counterVars, limiterCost, trackerVars
<1>3. Record(failures) \in Seq(0 .. ErrorWindow) /\ OldestFirst(Record(failures))
  BY <1>1, WindowTypes, LimitsAreNat DEF TypeOK, AgesInv
<1>4. TypeOK'
  <2>1. /\ breaker' \in {"closed", "open", "half_open"}
        /\ sinceFailure' \in 0 .. Cooldown /\ sinceTrip' \in 0 .. Cooldown
        /\ sinceFailure' <= sinceTrip'
    BY <1>1, <1>2, LimitsAreNat DEF TypeOK
  <2>2. calling' \in [Invocations -> Roles \cup {"none"}]
    BY <1>1, <1>2 DEF TypeOK
  <2> QED
    BY <1>1, <1>2, <1>3, <2>1, <2>2 DEF TypeOK
<1>5. BreakerInv'
  BY <1>1, <1>2 DEF BreakerInv
<1>6. CostOverrunBounded'
  <2>1. Cardinality(Running') = Cardinality(Running) - 1 /\ Cardinality(Running') \in Nat
    BY <1>1, <1>2, EndingCall
  <2>2. Cardinality(Running) = Cardinality(Running') + 1
    BY <2>1, RunningFinite
  <2>3. /\ MaxCost * Cardinality(Running) = MaxCost * Cardinality(Running') + MaxCost
        /\ MaxCost * Cardinality(Running') \in Nat
    BY <2>1, <2>2, Prices
  <2>4. MaxCost * Cardinality(Invocations) \in Nat
    BY RunningFinite, Prices
  <2>5. cost \in Nat
    BY <1>1 DEF TypeOK
  <2> QED
    BY <1>1, <1>2, <2>3, <2>4, <2>5, LimitsAreNat DEF CostOverrunBounded
<1>7. ApiOverrunBounded'
  <2>1. Cardinality(Running') = Cardinality(Running) - 1 /\ api' = api
    BY <1>1, <1>2, EndingCall
  <2>2. Count(api) \in Nat
    BY <1>1 DEF TypeOK, Count
  <2> QED
    BY <1>1, <2>1, <2>2, RunningFinite, LimitsAreNat DEF ApiOverrunBounded, Count
<1>8. AgesInv'
  BY <1>1, <1>2, <1>3 DEF AgesInv, OldestFirst
<1> QED
  BY <1>4, <1>5, <1>6, <1>7, <1>8 DEF LimitsInv

LEMMA TickStep == ASSUME LimitsInv, Tick PROVE LimitsInv'
<1>1. TypeOK /\ AgesInv /\ BreakerInv /\ CostOverrunBounded /\ ApiOverrunBounded
  BY DEF LimitsInv
<1>2. UNCHANGED <<breaker, cost, tracked, calling, calm>>
  BY DEF Tick
<1>3. /\ successes' \in Seq(0 .. ErrorWindow) /\ failures' \in Seq(0 .. ErrorWindow)
      /\ api' \in Seq(0 .. ApiWindow) /\ agent' \in [Roles -> Seq(0 .. AgentWindow)]
      /\ Count(api') <= Count(api)
      /\ AgesInv'
  <2>1. /\ Slide(successes, ErrorWindow) \in Seq(0 .. ErrorWindow)
        /\ OldestFirst(Slide(successes, ErrorWindow))
    BY <1>1, WindowTypes, LimitsAreNat DEF TypeOK, AgesInv
  <2>2. /\ Slide(failures, ErrorWindow) \in Seq(0 .. ErrorWindow)
        /\ OldestFirst(Slide(failures, ErrorWindow))
    BY <1>1, WindowTypes, LimitsAreNat DEF TypeOK, AgesInv
  <2>3. /\ Slide(api, ApiWindow) \in Seq(0 .. ApiWindow)
        /\ OldestFirst(Slide(api, ApiWindow))
        /\ Count(Slide(api, ApiWindow)) <= Count(api)
    BY <1>1, WindowTypes, LimitsAreNat DEF TypeOK, AgesInv
  <2>4. ASSUME NEW role \in Roles
        PROVE  /\ Slide(agent[role], AgentWindow) \in Seq(0 .. AgentWindow)
               /\ OldestFirst(Slide(agent[role], AgentWindow))
    <3>1. agent[role] \in Seq(0 .. AgentWindow)
      BY <1>1 DEF TypeOK
    <3> QED
      BY <1>1, <3>1, WindowTypes, LimitsAreNat DEF AgesInv
  <2>5. /\ successes' = Slide(successes, ErrorWindow)
        /\ failures' = Slide(failures, ErrorWindow)
        /\ api' = Slide(api, ApiWindow)
        /\ agent' = [role \in Roles |-> Slide(agent[role], AgentWindow)]
    BY DEF Tick
  <2>6. agent' \in [Roles -> Seq(0 .. AgentWindow)]
        /\ \A role \in Roles : OldestFirst(agent'[role])
    BY <2>4, <2>5
  <2>7. AgesInv'
    BY <2>1, <2>2, <2>3, <2>5, <2>6 DEF AgesInv, OldestFirst
  <2> QED
    BY <2>1, <2>2, <2>3, <2>5, <2>6, <2>7
<1>4. /\ sinceFailure' = Older(sinceFailure, Cooldown)
      /\ sinceTrip' = Older(sinceTrip, Cooldown)
      /\ sinceReset' = Older(sinceReset, Day + 1)
      /\ sinceRotate' = Older(sinceRotate, Day + 1)
  BY DEF Tick
<1>5. /\ sinceFailure' \in 0 .. Cooldown /\ sinceTrip' \in 0 .. Cooldown
      /\ sinceFailure' <= sinceTrip'
      /\ sinceReset' \in 0 .. Day + 1 /\ sinceRotate' \in 0 .. Day + 1
      /\ sinceTrip <= sinceTrip'
  BY <1>1, <1>4, OlderType, OlderKeepsOrder, LimitsAreNat DEF TypeOK
<1>6. TypeOK'
  BY <1>1, <1>2, <1>3, <1>5 DEF TypeOK
<1>7. BreakerInv'
  BY <1>1, <1>2, <1>5, LimitsAreNat DEF BreakerInv
<1>8. CostOverrunBounded'
  BY <1>1, <1>2 DEF CostOverrunBounded, Running
<1>9. ApiOverrunBounded'
  <2>1. Count(api) \in Nat /\ Count(api)' \in Nat /\ Count(api)' <= Count(api)
    BY <1>1, <1>3 DEF TypeOK, Count
  <2>2. Running' = Running
    BY <1>2 DEF Running
  <2> QED
    BY <1>1, <2>1, <2>2, RunningFinite, LimitsAreNat DEF ApiOverrunBounded
<1> QED
  BY <1>3, <1>6, <1>7, <1>8, <1>9 DEF LimitsInv

LEMMA LimitsStep == LimitsInv /\ [Next]_vars => LimitsInv'
<1> SUFFICES ASSUME LimitsInv, [Next]_vars PROVE LimitsInv'
  OBVIOUS
<1>1. CASE CalmDown
  BY <1>1 DEF CalmDown, breakerVars, counterVars, limiterCost, trackerVars,
              LimitsInv, TypeOK, AgesInv, OldestFirst, BreakerInv, CostOverrunBounded,
              ApiOverrunBounded, Count, Running
<1>2. CASE UNCHANGED vars
  BY <1>2 DEF vars, breakerVars, counterVars, limiterCost, trackerVars,
              LimitsInv, TypeOK, AgesInv, OldestFirst, BreakerInv, CostOverrunBounded,
              ApiOverrunBounded, Count, Running
<1> QED
  BY <1>1, <1>2, CanProceedStep, CallSucceedsStep, CallFailsStep, TickStep
     DEF Next, Asking, Ending

LEMMA LimitsHold == Spec => []LimitsInv
BY LimitsInit, LimitsStep, PTL DEF Spec

-----------------------------------------------------------------------------

\* Types, and that no failure that opened the breaker is younger than the last:
\* the breaker's pause is counted from the last failure and must cover both.
THEOREM LimitsTypes == Spec => []TypeOK
<1>1. LimitsInv => TypeOK
  BY DEF LimitsInv
<1> QED
  BY <1>1, LimitsHold, PTL

\* However many invocations run at once, the limiter's cost of a day exceeds the
\* cap by less than the price of as many calls.
THEOREM CostIsBounded == Spec => []CostOverrunBounded
<1>1. LimitsInv => CostOverrunBounded
  BY DEF LimitsInv
<1> QED
  BY <1>1, LimitsHold, PTL

\* However many invocations run at once, the calls of a minute exceed the limit
\* by fewer than those invocations.
THEOREM CallsAreBounded == Spec => []ApiOverrunBounded
<1>1. LimitsInv => ApiOverrunBounded
  BY DEF LimitsInv
<1> QED
  BY <1>1, LimitsHold, PTL

\* For any cooldown, window and threshold a breaker that tripped admits no call
\* for the length of the cooldown, whatever calls that still run then report.
THEOREM BreakerPauses == Spec => TrippedBreakerPauses
<1> DEFINE Pause == (\E i \in Invocations : calling[i] = "none" /\ calling'[i] # "none")
                       => sinceTrip >= Cooldown
<1>1. ASSUME LimitsInv, NEW i \in Invocations, NEW role \in Roles, CanProceed(i, role)
      PROVE  Pause
  <2>1. CASE IsAllowed
    <3>1. breaker # "open" \/ sinceFailure >= Cooldown
      BY <2>1 DEF IsAllowed, CooledDown
    <3> QED
      BY <1>1, <3>1, LimitsAreNat DEF LimitsInv, TypeOK, BreakerInv
  <2>2. CASE ~IsAllowed
    BY <1>1, <2>2 DEF CanProceed
  <2> QED
    BY <2>1, <2>2
<1>2. ASSUME LimitsInv, NEW j \in Invocations, calling' = [calling EXCEPT ![j] = "none"]
      PROVE  Pause
  BY <1>2 DEF LimitsInv, TypeOK
<1>3. LimitsInv /\ [Next]_vars => [Pause]_vars
  <2> SUFFICES ASSUME LimitsInv, Next PROVE Pause \/ UNCHANGED vars
    OBVIOUS
  <2>1. CASE Asking
    BY <1>1, <2>1 DEF Asking
  <2>2. CASE Ending
    BY <1>2, <2>2 DEF Ending, CallSucceeds, CallFails
  <2>3. CASE UNCHANGED calling
    BY <2>3
  <2> QED
    BY <2>1, <2>2, <2>3 DEF Next, Tick, CalmDown
<1> QED
  BY <1>3, LimitsHold, PTL DEF Spec, TrippedBreakerPauses

-----------------------------------------------------------------------------
(* Proposals: what one that went well leaves in the clone is nothing.      *)
(*                                                                         *)
(* The property speaks of pushed branches; what is pushed depends on what  *)
(* was in the index and on the branch, and that on where earlier proposals *)
(* left the clone.  The invariant follows a change from the working tree to *)
(* the branch and says, of what the clone holds between proposals, that    *)
(* only troubled ones left it there.                                       *)

Commands == {"checkout", "write", "add", "commit", "push", "pr", "restore"}

\* While a proposal is in progress its own change may be about too.
Excused == troubled \cup (IF at = "idle" THEN {} ELSE {who})

ProgressInv ==
    /\ at \in Commands \cup {"idle"}
    /\ at # "idle" => who \in Proposals
    /\ head \in Branches
    /\ DOMAIN branches = Branches /\ DOMAIN remote = Proposals
    /\ at \in {"write", "add", "commit", "push", "pr"} => head = who

\* What the clone holds, and where it is, is due to troubled proposals.
CloneInv ==
    /\ branches[head] \subseteq Excused
    /\ staged \cup dirty \subseteq Excused
    /\ head \in {Main} \cup Excused

\* So is what it holds on the branch it is to return to.
OriginalInv ==
    (at # "idle" /\ original # Unknown) =>
        /\ original \in Branches
        /\ original \in {Main} \cup troubled
        /\ branches[original] \subseteq troubled
        /\ at = "checkout" => head = original

\* The change of the proposal goes from the tree to the index to the branch.
OwnChangeInv ==
    /\ at = "checkout" => branches[head] \subseteq troubled
    /\ (at \in {"checkout", "write", "restore"} /\ who \notin troubled)
          => who \notin staged \cup dirty
    /\ at = "add" => who \in dirty
    /\ at = "commit" => who \in staged /\ who \notin dirty
    /\ at \in {"push", "pr"} =>
          who \in branches[who] /\ who \notin staged \cup dirty

ProposalInv ==
    /\ ProgressInv
    /\ CloneInv
    /\ OriginalInv
    /\ OwnChangeInv
    /\ StrangersAreTroubled

-----------------------------------------------------------------------------

LEMMA ProposalStart == ProposalInit => ProposalInv
<1> SUFFICES ASSUME ProposalInit PROVE ProposalInv
  OBVIOUS
<1>1. Main \in Branches /\ branches[Main] = {}
  BY DEF ProposalInit, Branches
<1>2. ProgressInv /\ CloneInv /\ OriginalInv /\ OwnChangeInv
  BY <1>1 DEF ProposalInit, ProgressInv, CloneInv, OriginalInv, OwnChangeInv, Excused
<1>3. StrangersAreTroubled
  BY DEF ProposalInit, StrangersAreTroubled
<1> QED
  BY <1>2, <1>3 DEF ProposalInv

\* Between proposals only what troubled ones left is in the clone.
LEMMA BeginStep ==
    ASSUME ProposalInv, NEW p \in Proposals, Begin(p) \/ BeginUnknown(p)
    PROVE  ProposalInv'
<1>1. /\ at = "idle" /\ at' = "checkout" /\ who' = p
      /\ UNCHANGED <<branches, head, staged, dirty, remote>>
      /\ troubled \subseteq troubled'
      /\ original' = head \/ original' = Unknown
  BY DEF Begin, BeginUnknown, git
<1>2. /\ branches[head] \subseteq troubled /\ staged \cup dirty \subseteq troubled
      /\ head \in {Main} \cup troubled /\ head \in Branches
  BY <1>1 DEF ProposalInv, CloneInv, ProgressInv, Excused
<1>3. ProgressInv'
  BY <1>1 DEF ProposalInv, ProgressInv, Commands
<1>4. CloneInv'
  BY <1>1, <1>2 DEF CloneInv, Excused
<1>5. OriginalInv'
  BY <1>1, <1>2 DEF OriginalInv
<1>6. OwnChangeInv'
  BY <1>1, <1>2 DEF OwnChangeInv
<1>7. StrangersAreTroubled'
  BY <1>1 DEF ProposalInv, StrangersAreTroubled
<1> QED
  BY <1>3, <1>4, <1>5, <1>6, <1>7 DEF ProposalInv

\* The new branch has what the clone's branch had.
LEMMA CheckoutStep == ASSUME ProposalInv, Checkout PROVE ProposalInv'
<1>1. /\ at = "checkout" /\ at' = "write" /\ head' = who /\ who \in Proposals
      /\ branches' = [branches EXCEPT ![who] = branches[head]]
      /\ UNCHANGED <<staged, dirty, remote, who, original, troubled>>
  BY DEF Checkout, ProposalInv, ProgressInv
<1>2. /\ who \in Branches /\ DOMAIN branches = Branches
      /\ branches[head] \subseteq troubled
  BY <1>1 DEF ProposalInv, ProgressInv, OwnChangeInv, Branches
<1>3. /\ branches'[who] = branches[head] /\ DOMAIN branches' = Branches
      /\ \A b \in Branches : b # who => branches'[b] = branches[b]
  BY <1>1, <1>2
<1>4. ProgressInv'
  BY <1>1, <1>2, <1>3 DEF ProposalInv, ProgressInv, Commands
<1>5. CloneInv'
  BY <1>1, <1>2, <1>3 DEF ProposalInv, CloneInv, Excused
<1>6. OriginalInv'
  BY <1>1, <1>2, <1>3 DEF ProposalInv, OriginalInv
<1>7. OwnChangeInv'
  BY <1>1 DEF ProposalInv, OwnChangeInv
<1>8. StrangersAreTroubled'
  BY <1>1 DEF ProposalInv, StrangersAreTroubled
<1> QED
  BY <1>4, <1>5, <1>6, <1>7, <1>8 DEF ProposalInv

LEMMA WriteStep == ASSUME ProposalInv, Write \/ NothingToReplace PROVE ProposalInv'
<1>1. /\ at = "write" /\ at' \in {"add", "restore"} /\ who \in Proposals /\ head = who
      /\ UNCHANGED <<branches, head, staged, remote, who, original, troubled>>
      /\ \/ at' = "add" /\ dirty' = dirty \cup {who}
         \/ at' = "restore" /\ dirty' = dirty
  BY DEF Write, NothingToReplace, git, ProposalInv, ProgressInv
<1>2. ProgressInv'
  BY <1>1 DEF ProposalInv, ProgressInv, Commands
<1>3. CloneInv'
  BY <1>1 DEF ProposalInv, CloneInv, Excused
<1>4. OriginalInv'
  BY <1>1 DEF ProposalInv, OriginalInv
<1>5. OwnChangeInv'
  BY <1>1 DEF ProposalInv, OwnChangeInv
<1>6. StrangersAreTroubled'
  BY <1>1 DEF ProposalInv, StrangersAreTroubled
<1> QED
  BY <1>2, <1>3, <1>4, <1>5, <1>6 DEF ProposalInv

\* The own change is in the file that is added, so none of it stays in the tree.
LEMMA AddStep == ASSUME ProposalInv, Add PROVE ProposalInv'
<1> DEFINE here == {c \in dirty : FileOf[c] = FileOf[who]}
<1>1. /\ at = "add" /\ at' = "commit" /\ who \in Proposals /\ head = who
      /\ staged' = staged \cup here /\ dirty' = dirty \ here
      /\ UNCHANGED <<branches, head, remote, who, original, troubled>>
  BY DEF Add, ProposalInv, ProgressInv
<1>2. who \in here /\ here \subseteq dirty
  BY <1>1 DEF ProposalInv, OwnChangeInv
<1> HIDE DEF here
<1>3. ProgressInv'
  BY <1>1 DEF ProposalInv, ProgressInv, Commands
<1>4. CloneInv'
  BY <1>1, <1>2 DEF ProposalInv, CloneInv, Excused
<1>5. OriginalInv'
  BY <1>1 DEF ProposalInv, OriginalInv
<1>6. OwnChangeInv'
  BY <1>1, <1>2 DEF OwnChangeInv
<1>7. StrangersAreTroubled'
  BY <1>1 DEF ProposalInv, StrangersAreTroubled
<1> QED
  BY <1>3, <1>4, <1>5, <1>6, <1>7 DEF ProposalInv

\* The branch to return to is another one, or its proposal is troubled.
LEMMA CommitStep == ASSUME ProposalInv, Commit PROVE ProposalInv'
<1>1. /\ at = "commit" /\ at' = "push" /\ who \in Proposals /\ head = who
      /\ branches' = [branches EXCEPT ![head] = branches[head] \cup staged]
      /\ staged' = {}
      /\ UNCHANGED <<head, dirty, remote, who, original, troubled>>
  BY DEF Commit, ProposalInv, ProgressInv
<1>2. /\ branches'[who] = branches[who] \cup staged /\ DOMAIN branches' = Branches
      /\ \A b \in Branches : b # who => branches'[b] = branches[b]
  BY <1>1 DEF ProposalInv, ProgressInv, Branches
<1>3. /\ branches[who] \subseteq troubled \cup {who}
      /\ staged \cup dirty \subseteq troubled \cup {who}
  BY <1>1 DEF ProposalInv, CloneInv, Excused
<1>4. ProgressInv'
  BY <1>1, <1>2 DEF ProposalInv, ProgressInv, Commands
<1>5. CloneInv'
  BY <1>1, <1>2, <1>3 DEF ProposalInv, CloneInv, Excused
<1>6. OriginalInv'
  <2>1. CASE original = who
    BY <1>1, <1>2, <1>3, <2>1, ProposalAssumption DEF ProposalInv, OriginalInv
  <2>2. CASE original # who
    BY <1>1, <1>2, <2>2 DEF ProposalInv, OriginalInv
  <2> QED
    BY <2>1, <2>2
<1>7. OwnChangeInv'
  BY <1>1, <1>2 DEF ProposalInv, OwnChangeInv
<1>8. StrangersAreTroubled'
  BY <1>1 DEF ProposalInv, StrangersAreTroubled
<1> QED
  BY <1>4, <1>5, <1>6, <1>7, <1>8 DEF ProposalInv

\* What is pushed is the branch, and everything on it is excused.
LEMMA PushStep == ASSUME ProposalInv, Push \/ CreatePr PROVE ProposalInv'
<1>1. /\ at \in {"push", "pr"} /\ at' \in {"pr", "restore"}
      /\ who \in Proposals /\ head = who
      /\ UNCHANGED <<branches, head, staged, dirty, who, original, troubled>>
      /\ \/ remote' = [remote EXCEPT ![who] = branches[who]]
         \/ remote' = remote
  BY DEF Push, CreatePr, git, ProposalInv, ProgressInv
<1>2. /\ branches[who] \subseteq troubled \cup {who} /\ who \in branches[who]
      /\ DOMAIN remote = Proposals
  BY <1>1 DEF ProposalInv, ProgressInv, CloneInv, OwnChangeInv, Excused
<1>3. ProgressInv'
  BY <1>1, <1>2 DEF ProposalInv, ProgressInv, Commands
<1>4. CloneInv'
  BY <1>1 DEF ProposalInv, CloneInv, Excused
<1>5. OriginalInv'
  BY <1>1 DEF ProposalInv, OriginalInv
<1>6. OwnChangeInv'
  BY <1>1 DEF ProposalInv, OwnChangeInv
<1>7. StrangersAreTroubled'
  <2>1. CASE remote' = remote
    BY <1>1, <2>1 DEF ProposalInv, StrangersAreTroubled
  <2>2. CASE remote' = [remote EXCEPT ![who] = branches[who]]
    BY <1>1, <1>2, <2>2 DEF ProposalInv, StrangersAreTroubled
  <2> QED
    BY <1>1, <2>1, <2>2
<1> QED
  BY <1>3, <1>4, <1>5, <1>6, <1>7 DEF ProposalInv

\* A failure makes the proposal one of the troubled.
LEMMA FaultStep ==
    ASSUME ProposalInv, CommandFails \/ RestoreFails \/ Crash
    PROVE  ProposalInv'
<1>1. /\ at # "idle" /\ at' \in {"idle", "restore"} /\ who \in Proposals
      /\ UNCHANGED <<branches, head, staged, dirty, remote>>
      /\ troubled' = troubled \cup {who}
      /\ at' = "restore" => UNCHANGED <<who, original>>
  BY DEF CommandFails, RestoreFails, Crash, git, ProposalInv, ProgressInv
<1>2. ProgressInv'
  BY <1>1 DEF ProposalInv, ProgressInv, Commands
<1>3. CloneInv'
  BY <1>1 DEF ProposalInv, CloneInv, Excused
<1>4. OriginalInv'
  BY <1>1 DEF ProposalInv, OriginalInv
<1>5. OwnChangeInv'
  BY <1>1 DEF OwnChangeInv
<1>6. StrangersAreTroubled'
  BY <1>1 DEF ProposalInv, StrangersAreTroubled
<1> QED
  BY <1>2, <1>3, <1>4, <1>5, <1>6 DEF ProposalInv

\* A proposal that returns has no change of its own in the clone unless it is
\* troubled; one that cannot return becomes so.
LEMMA RestoreStep == ASSUME ProposalInv, Restore PROVE ProposalInv'
<1>1. /\ at = "restore" /\ at' = "idle" /\ who \in Proposals
      /\ UNCHANGED <<branches, staged, dirty, remote>>
      /\ \/ original # Unknown /\ head' = original /\ troubled' = troubled
         \/ head' = head /\ troubled' = troubled \cup {who}
  BY DEF Restore, Return, MayReturn, ProposalInv, ProgressInv
<1>2. staged \cup dirty \subseteq troubled'
  BY <1>1 DEF ProposalInv, CloneInv, OwnChangeInv, Excused
<1>3. /\ head' \in Branches /\ head' \in {Main} \cup troubled'
      /\ branches[head'] \subseteq troubled'
  BY <1>1 DEF ProposalInv, ProgressInv, CloneInv, OriginalInv, Excused
<1>4. ProgressInv'
  BY <1>1, <1>3 DEF ProposalInv, ProgressInv, Commands
<1>5. CloneInv'
  BY <1>1, <1>2, <1>3 DEF CloneInv, Excused
<1>6. OriginalInv' /\ OwnChangeInv'
  BY <1>1 DEF OriginalInv, OwnChangeInv
<1>7. StrangersAreTroubled'
  BY <1>1 DEF ProposalInv, StrangersAreTroubled
<1> QED
  BY <1>4, <1>5, <1>6, <1>7 DEF ProposalInv

LEMMA ProposalStep == ProposalInv /\ [ProposalNext]_proposalVars => ProposalInv'
<1> SUFFICES ASSUME ProposalInv, [ProposalNext]_proposalVars PROVE ProposalInv'
  OBVIOUS
<1>1. CASE UNCHANGED proposalVars
  BY <1>1 DEF proposalVars, git, ProposalInv, ProgressInv, CloneInv, OriginalInv,
              OwnChangeInv, StrangersAreTroubled, Excused
<1>2. CASE ProposalNext
  BY <1>2, BeginStep, CheckoutStep, WriteStep, AddStep, CommitStep, PushStep,
     FaultStep, RestoreStep DEF ProposalNext
<1> QED
  BY <1>1, <1>2

-----------------------------------------------------------------------------

\* For any proposals, files and failures: every pushed branch has its own
\* change, and another one only of a proposal that failed, crashed or could not
\* return, however the proposals followed each other on the one clone.
THEOREM NoStrangers == ProposalSpec => []StrangersAreTroubled
<1>1. ProposalInv => StrangersAreTroubled
  BY DEF ProposalInv
<1> QED
  BY <1>1, ProposalStart, ProposalStep, PTL DEF ProposalSpec
=============================================================================
