---------------------------- MODULE ProbeProofs ----------------------------
(***************************************************************************)
(* What is accepted as satisfied is proven, what an honest verifier signs  *)
(* is accepted, and no forgery is, for every profile (passes, attempts,    *)
(* backends, delay, deadline), number of conditions and way the target     *)
(* changes.                                                                *)
(*                                                                         *)
(* The decision looks for the longest row of passing attempts, a maximum   *)
(* over the whole condition; the verifier and the property speak of the    *)
(* last attempts.  They meet since a condition stops when it is satisfied: *)
(* the longest row is the last one.  An accepted forgery would have to     *)
(* leave every comparison of the record true; each is refused by the       *)
(* comparison that its change breaks in an honest record.                  *)
(***************************************************************************)
EXTENDS HttpProbe, SequenceTheorems, WellFoundedInduction, TLAPS

-----------------------------------------------------------------------------
(* Operators.                                                              *)

LEMMA Constants ==
    /\ Contracts \in Nat /\ Contracts > 0 /\ Passes \in Nat /\ Passes > 0
    /\ MaxAttempts \in Nat /\ Passes <= MaxAttempts
    /\ MaxBackends \in Nat /\ MaxBackends > 0 /\ Delay \in Nat /\ Delay > 0
    /\ AttemptTicks \in Nat /\ AttemptTicks > 0 /\ RunLimit \in Nat /\ RunLimit > 0
    /\ Fresh \in Nat /\ MaxForgeries \in Nat
    /\ None \notin Words /\ None \notin Nat
BY ProbeAssumption, HttpProbeAssumption

LEMMA WordsAre ==
    /\ "pass" \in Words /\ "fail" \in Words /\ "inconclusive" \in Words
    /\ "probe-error" \in Words /\ "condition-satisfied" \in Words
    /\ "attempts-exhausted" \in Words /\ "run-deadline" \in Words
    /\ "invalid" \in Words /\ "empty" \in Words /\ "excess" \in Words
    /\ "mixed-image" \in Words /\ "target-drift" \in Words /\ "timeout" \in Words
    /\ "delivered" \in Words /\ "foreign" \in Words /\ "health" \in Words
    /\ "readiness" \in Words /\ "contract" \in Words /\ "order" \in Words
    /\ "run" \in Words /\ "pinned" \in Words /\ "trusted" \in Words
    /\ "other" \in Words /\ "verifier" \in Words /\ "direct" \in Words
    /\ "worker" \in Words
BY DEF Words

\* A set of natural numbers has a least element.
LEMMA LeastNatural ==
  ASSUME NEW S, S \subseteq Nat, S # {}
  PROVE  \E m \in S : \A n \in S : m <= n
<1>1. IsWellFoundedOn({pair \in Nat \X Nat : pair[1] < pair[2]}, Nat)
  BY NatLessThanWellFounded DEF OpToRel
<1>2. PICK m \in S :
        \A n \in S : <<n, m>> \notin {pair \in Nat \X Nat : pair[1] < pair[2]}
  BY <1>1, WFMin
<1>3. ASSUME NEW n \in S PROVE m <= n
  <2>1. m \in Nat /\ n \in Nat
    OBVIOUS
  <2>2. ~(n < m)
    BY <1>2, <2>1
  <2> QED
    BY <2>1, <2>2
<1> QED
  BY <1>3

\* ... and a greatest one if it is bounded.
LEMMA MinIs ==
    ASSUME NEW S, S \subseteq Nat, S # {}
    PROVE  Min(S) \in S /\ \A y \in S : Min(S) <= y
<1>1. \E n \in S : \A m \in S : n <= m
  BY LeastNatural
<1> QED
  BY <1>1 DEF Min

LEMMA MaxIs ==
    ASSUME NEW n \in Nat, NEW S, S \subseteq 0 .. n, S # {}
    PROVE  Max(S) \in S /\ \A y \in S : y <= Max(S)
<1> DEFINE T == {x \in Nat : n - x \in S}
<1>1. PICK e \in S : TRUE
  OBVIOUS
<1>2. n - e \in T
  BY <1>1
<1>3. \E t \in T : \A m \in T : t <= m
  BY <1>2, LeastNatural
<1>4. PICK t \in T : \A m \in T : t <= m
  BY <1>3
<1>5. ASSUME NEW y \in S PROVE n - t >= y
  <2>1. n - y \in T /\ y \in 0 .. n
    OBVIOUS
  <2>2. t <= n - y /\ t \in Nat
    BY <2>1, <1>4
  <2> HIDE DEF T
  <2> QED
    BY <2>1, <2>2
<1>6. n - t \in S
  OBVIOUS
<1> QED
  BY <1>5, <1>6 DEF Max

States == {"pass", "fail", "inconclusive", "probe-error"}

\* The reduction of the script and the precedence of the profile agree.
LEMMA StateFromIs ==
    ASSUME NEW states, states \subseteq States, states # {}
    PROVE  /\ StateFrom(states) \in states
           /\ StateFrom(states) = "probe-error" <=> "probe-error" \in states
           /\ StateFrom(states) = "pass" <=> states = {"pass"}
           /\ Worst(states) = StateFrom(states)
<1> DEFINE at == {i \in 1 .. 4 : StatePrecedence[i] \in states}
<1>1. /\ StatePrecedence[1] = "probe-error" /\ StatePrecedence[2] = "fail"
      /\ StatePrecedence[3] = "inconclusive" /\ StatePrecedence[4] = "pass"
  BY DEF StatePrecedence
<1>2. at \subseteq Nat /\ at # {}
  <2>1. PICK state \in states : state \in States
    OBVIOUS
  <2>2. \E i \in 1 .. 4 : StatePrecedence[i] = state
    BY <1>1, <2>1 DEF States
  <2> QED
    BY <2>2
<1>3. Min(at) \in at /\ \A i \in at : Min(at) <= i
  BY <1>2, MinIs
<1>4. StateFrom(states) = StatePrecedence[Min(at)]
  BY DEF StateFrom
<1> DEFINE m == Min(at)
<1> HIDE DEF m
<1>5. /\ m \in 1 .. 4 /\ StatePrecedence[m] \in states
      /\ \A i \in 1 .. 4 : i < m => StatePrecedence[i] \notin states
  BY <1>3 DEF m
<1>6. /\ m = 1 => "probe-error" \in states
      /\ m = 2 => "fail" \in states /\ "probe-error" \notin states
      /\ m = 3 => /\ "inconclusive" \in states
                  /\ "probe-error" \notin states /\ "fail" \notin states
      /\ m = 4 => /\ "pass" \in states /\ "probe-error" \notin states
                  /\ "fail" \notin states /\ "inconclusive" \notin states
  BY <1>1, <1>5
<1>7. StateFrom(states) = StatePrecedence[m] /\ m \in {1, 2, 3, 4}
  BY <1>4, <1>5 DEF m
<1>8. CASE m = 1
  <2>1. StateFrom(states) = "probe-error" /\ "probe-error" \in states
    BY <1>1, <1>6, <1>7, <1>8
  <2> QED
    BY <2>1 DEF Worst
<1>9. CASE m = 2
  <2>1. StateFrom(states) = "fail" /\ "fail" \in states /\ "probe-error" \notin states
    BY <1>1, <1>6, <1>7, <1>9
  <2> QED
    BY <2>1 DEF Worst
<1>10. CASE m = 3
  <2>1. /\ StateFrom(states) = "inconclusive" /\ "inconclusive" \in states
        /\ states \subseteq {"inconclusive", "pass"}
    BY <1>1, <1>6, <1>7, <1>10 DEF States
  <2> QED
    BY <2>1 DEF Worst
<1>11. CASE m = 4
  <2>1. StateFrom(states) = "pass" /\ states = {"pass"}
    BY <1>1, <1>6, <1>7, <1>11 DEF States
  <2> QED
    BY <2>1 DEF Worst
<1> QED
  BY <1>7, <1>8, <1>9, <1>10, <1>11

LEMMA StateFromType ==
    ASSUME NEW states, states \subseteq States
    PROVE  /\ StateFrom(states) \in States
           /\ StateFrom(states) = "pass" => "pass" \in states
           /\ StateFrom(states) = "probe-error" => "probe-error" \in states
<1>1. CASE states = {}
  BY <1>1 DEF StateFrom, States
<1>2. CASE states # {}
  BY <1>2, StateFromIs
<1> QED
  BY <1>1, <1>2

LEMMA BackendStateType == \A result : BackendState(result) \in States
BY DEF BackendState, States

LEMMA BackendPasses ==
    ASSUME NEW result, BackendState(result) = "pass"
    PROVE  result.error = None /\ result.response /\ result.oracle
BY DEF BackendState

LEMMA BatchStateType == \A a : BatchState(a) \in States
<1> SUFFICES ASSUME NEW a PROVE BatchState(a) \in States
  OBVIOUS
<1>1. {BackendState(result) : result \in ToSet(a.results)} \subseteq States
  BY BackendStateType
<1>2. StateFrom({BackendState(result) : result \in ToSet(a.results)}) \in States
  BY <1>1, StateFromType
<1> QED
  BY <1>2 DEF BatchState, States

\* An attempt passes when its target is valid and did not change and every
\* backend passes, and there are some.
LEMMA BatchPasses ==
    ASSUME NEW a, BatchState(a) = "pass"
    PROVE  /\ AttemptError(a) = None
           /\ \A result \in ToSet(a.results) : BackendState(result) = "pass"
           /\ ToSet(a.results) # {}
<1> DEFINE states == {BackendState(result) : result \in ToSet(a.results)}
<1>1. AttemptError(a) = None /\ StateFrom(states) = "pass"
  BY DEF BatchState
<1>2. states \subseteq States
  BY BackendStateType
<1>3. states # {}
  BY <1>1 DEF StateFrom
<1>4. states = {"pass"}
  BY <1>1, <1>2, <1>3, StateFromIs
<1> QED
  BY <1>1, <1>3, <1>4

-----------------------------------------------------------------------------
(* Passes in a row.                                                        *)

\* The n attempts up to the i-th pass.
Row(attempts, n, i) ==
    n <= i /\ \A k \in i - n + 1 .. i : BatchState(attempts[k]) = "pass"

LEMMA StreakIs ==
    ASSUME NEW attempts, NEW i \in Nat
    PROVE  /\ Streak(attempts, i) \in 0 .. i
           /\ \A n \in Nat : n <= Streak(attempts, i) <=> Row(attempts, n, i)
<1> DEFINE bad == {k \in 1 .. i : BatchState(attempts[k]) # "pass"}
           m == Max({0} \cup bad)
<1>1. {0} \cup bad \subseteq 0 .. i
  OBVIOUS
<1>2. m \in {0} \cup bad /\ \A k \in {0} \cup bad : k <= m
  BY <1>1, MaxIs
<1>3. Streak(attempts, i) = i - m
  BY DEF Streak
<1>4. m \in 0 .. i /\ \A k \in bad : k <= m
  BY <1>1, <1>2
<1>5. m = 0 \/ BatchState(attempts[m]) # "pass"
  BY <1>2
<1>6. ASSUME NEW k \in m + 1 .. i PROVE BatchState(attempts[k]) = "pass"
  <2>1. k \in 1 .. i /\ k > m
    BY <1>4
  <2>2. k \notin bad
    BY <1>4, <2>1
  <2> QED
    BY <2>1, <2>2
<1> HIDE DEF m, bad
<1>7. ASSUME NEW n \in Nat PROVE n <= i - m <=> Row(attempts, n, i)
  <2>1. ASSUME n <= i - m PROVE Row(attempts, n, i)
    <3>1. n <= i /\ \A k \in i - n + 1 .. i : k \in m + 1 .. i
      BY <1>4, <2>1
    <3> QED
      BY <1>6, <3>1 DEF Row
  <2>2. ASSUME Row(attempts, n, i), ~(n <= i - m) PROVE FALSE
    <3>1. m \in i - n + 1 .. i /\ m # 0
      BY <1>4, <2>2 DEF Row
    <3> QED
      BY <1>5, <2>2, <3>1 DEF Row
  <2> QED
    BY <2>1, <2>2
<1> QED
  BY <1>3, <1>4, <1>7

\* Achieved is the longest row, as far as it counts.
LEMMA AchievedIs ==
    ASSUME NEW attempts, Len(attempts) \in Nat
    PROVE  /\ Achieved(attempts) \in 0 .. Passes
           /\ \A n \in 0 .. Passes :
                n <= Achieved(attempts)
                   <=> \E i \in 0 .. Len(attempts) : Row(attempts, n, i)
<1> DEFINE cut(i) == IF Streak(attempts, i) < Passes THEN Streak(attempts, i)
                     ELSE Passes
           counts == {cut(i) : i \in 0 .. Len(attempts)}
<1>1. ASSUME NEW i \in 0 .. Len(attempts)
      PROVE  /\ cut(i) \in 0 .. Passes
             /\ \A n \in 0 .. Passes : n <= cut(i) <=> Row(attempts, n, i)
  <2>1. /\ Streak(attempts, i) \in 0 .. i
        /\ \A n \in Nat : n <= Streak(attempts, i) <=> Row(attempts, n, i)
    BY StreakIs
  <2>2. cut(i) \in 0 .. Passes
        /\ \A n \in 0 .. Passes : n <= cut(i) <=> n <= Streak(attempts, i)
    BY <2>1, Constants
  <2> QED
    BY <2>1, <2>2, Constants
<1> HIDE DEF cut
<1>2. counts \subseteq 0 .. Passes
  BY <1>1
<1>3. cut(0) \in counts
  OBVIOUS
<1>4. Max(counts) \in counts /\ \A c \in counts : c <= Max(counts)
  BY <1>2, <1>3, MaxIs, Constants
<1>5. Achieved(attempts) = Max(counts)
  BY DEF Achieved, cut
<1> DEFINE m == Max(counts)
<1>6. PICK j \in 0 .. Len(attempts) : m = cut(j)
  BY <1>4
<1>7. \A i \in 0 .. Len(attempts) : cut(i) <= m
  BY <1>4
<1> HIDE DEF m
<1>8. m \in 0 .. Passes
  BY <1>1, <1>6
<1>9. ASSUME NEW n \in 0 .. Passes, n <= m
      PROVE  \E i \in 0 .. Len(attempts) : Row(attempts, n, i)
  BY <1>1, <1>6, <1>9
<1>10. ASSUME NEW n \in 0 .. Passes, NEW i \in 0 .. Len(attempts), Row(attempts, n, i)
       PROVE  n <= m
  <2>1. n <= cut(i) /\ cut(i) <= m /\ cut(i) \in 0 .. Passes
    BY <1>1, <1>7, <1>10
  <2> QED
    BY <1>8, <2>1, Constants
<1> QED
  BY <1>5, <1>8, <1>9, <1>10 DEF m

\* A row that counts.
LEMMA SatisfiedIs ==
    ASSUME NEW attempts, Len(attempts) \in Nat
    PROVE  /\ Achieved(attempts) = Passes
                <=> \E i \in 0 .. Len(attempts) : Row(attempts, Passes, i)
           /\ FinalState(attempts) = "pass" <=> Achieved(attempts) = Passes
           /\ FinalState(attempts) \in States
           /\ FinalState(attempts) = "probe-error" =>
                \E i \in DOMAIN attempts : BatchState(attempts[i]) = "probe-error"
<1> DEFINE states == {BatchState(a) : a \in ToSet(attempts)} \ {"pass"}
<1>1. /\ Achieved(attempts) = Passes
           <=> \E i \in 0 .. Len(attempts) : Row(attempts, Passes, i)
  BY AchievedIs, Constants
<1>2. states \subseteq States /\ "pass" \notin states
  BY BatchStateType
<1>3. /\ StateFrom(states) \in States /\ StateFrom(states) # "pass"
      /\ StateFrom(states) = "probe-error" => "probe-error" \in states
  BY <1>2, StateFromType
<1>4. FinalState(attempts) = IF Achieved(attempts) = Passes THEN "pass"
                             ELSE StateFrom(states)
  BY DEF FinalState
<1>5. "probe-error" \in states =>
        \E i \in DOMAIN attempts : BatchState(attempts[i]) = "probe-error"
  BY DEF ToSet
<1> HIDE DEF states
<1> QED
  BY <1>1, <1>3, <1>4, <1>5 DEF States

\* A condition that stops in time has its row at the end.
LEMMA RowAtTheEnd ==
    ASSUME NEW attempts, Len(attempts) \in Nat, StopsOk(attempts),
           Achieved(attempts) = Passes
    PROVE  Row(attempts, Passes, Len(attempts))
<1>1. PICK i \in 0 .. Len(attempts) : Row(attempts, Passes, i)
  BY SatisfiedIs
<1>2. i >= 1
  BY <1>1, Constants DEF Row
<1>3. ASSUME i < Len(attempts) PROVE FALSE
  <2>1. Streak(attempts, i) < Passes /\ Streak(attempts, i) \in 0 .. i
    BY <1>2, <1>3, StreakIs DEF StopsOk
  <2>2. Passes <= Streak(attempts, i)
    BY <1>1, StreakIs, Constants
  <2> QED
    BY <2>1, <2>2, Constants
<1>4. i = Len(attempts)
  BY <1>1, <1>3
<1> QED
  BY <1>1, <1>4

\* How a condition is said to end.
LEMMA TerminationIs ==
    ASSUME NEW attempts, Len(attempts) \in Nat
    PROVE  /\ Termination(attempts) = "condition-satisfied"
                <=> FinalState(attempts) = "pass"
           /\ Termination(attempts) = "probe-error"
                <=> FinalState(attempts) = "probe-error"
           /\ Termination(attempts) \in {"condition-satisfied", "probe-error",
                                         "attempts-exhausted", "run-deadline"}
BY SatisfiedIs DEF Termination, States

-----------------------------------------------------------------------------
(* Types.                                                                  *)

Said == Words \cup {None}

Backends == [pod : Nat \cup {None}, bound : BOOLEAN, image : Said, imageId : Said]

Snapshots == [joined : BOOLEAN, digested : BOOLEAN, backends : Seq(Backends)]

Results == [pod : Nat \cup {None}, state : States, late : BOOLEAN, error : Said,
            response : BOOLEAN, oracle : BOOLEAN]

Attempts == [id : Nat, ordinal : Nat, started : Nat, completed : Nat, duration : Nat,
             pre : Snapshots, post : Snapshots, code : Said, results : Seq(Results),
             state : States]

Conditions == [id : Nat, path : Words, attempts : Seq(Attempts), termination : Said,
               state : Said, achieved : Nat]

Subjects == [order : Words, run : Words, profile : Words, commit : Words,
             observed : Nat, issued : Nat, deadline : Nat, expiry : Nat]

Records == [conditions : [DOMAIN Descriptors -> Conditions], subject : Subjects,
            order : Words, run : Words, signer : Words,
            paths : [DOMAIN PathConditions -> Words], aggregate : Words,
            satisfied : BOOLEAN, started : Nat, completed : Nat, expires : Nat]

Targets == {Situation(name) : name \in Names}

LEMMA DescriptorsAre ==
    /\ DOMAIN Descriptors = 1 .. 2 + Contracts
    /\ Descriptors[1] = "health" /\ Descriptors[2] = "readiness"
    /\ \A i \in 3 .. 2 + Contracts : Descriptors[i] = "contract"
    /\ Len(Descriptors) = 2 + Contracts
    /\ \A i \in DOMAIN Descriptors : Descriptors[i] \in Words
<1> DEFINE front == <<"health", "readiness">>
           back == [i \in 1 .. Contracts |-> "contract"]
<1>1. front \in Seq(Words) /\ Len(front) = 2
  BY WordsAre
<1>2. back \in Seq(Words) /\ Len(back) = Contracts
  BY Constants, WordsAre
<1> HIDE DEF front, back
<1>3. /\ front \o back \in Seq(Words)
      /\ Len(front \o back) = Len(front) + Len(back)
      /\ \A i \in 1 .. Len(front) + Len(back) : (front \o back)[i] =
           IF i <= Len(front) THEN front[i] ELSE back[i - Len(front)]
  BY <1>1, <1>2, ConcatProperties, Zenon
<1>4. Descriptors = front \o back
  BY DEF Descriptors, front, back
<1>5. /\ front[1] = "health" /\ front[2] = "readiness"
      /\ \A i \in 3 .. 2 + Contracts : back[i - 2] = "contract"
  BY Constants DEF front, back
<1>6. /\ DOMAIN Descriptors = 1 .. 2 + Contracts /\ Len(Descriptors) = 2 + Contracts
      /\ \A i \in DOMAIN Descriptors : Descriptors[i] \in Words
  BY <1>1, <1>2, <1>3, <1>4, Constants
<1>7. Descriptors[1] = front[1] /\ Descriptors[2] = front[2]
  BY <1>1, <1>2, <1>3, <1>4, Constants
<1>8. \A i \in 3 .. 2 + Contracts : Descriptors[i] = back[i - 2]
  BY <1>1, <1>2, <1>3, <1>4, Constants
<1> QED
  BY <1>5, <1>6, <1>7, <1>8

LEMMA PathConditionsAre ==
    /\ DOMAIN PathConditions = 1 .. 3
    /\ PathConditions[1] = "health" /\ PathConditions[2] = "readiness"
    /\ PathConditions[3] = "contract"
BY DEF PathConditions

LEMMA TargetsAre ==
    /\ Targets \subseteq Snapshots
    /\ \A snapshot \in Targets : snapshot.digested
    /\ Situation("empty") \in Targets /\ Situation("stable") \in Targets
<1>1. \A pod \in Nat : Backend(pod) \in Backends
  BY WordsAre DEF Backend, Backends, Said
<1>2. \A backends \in Seq(Backends) :
        /\ Snapshot(backends) \in Snapshots /\ Snapshot(backends).digested
        /\ [Snapshot(backends) EXCEPT !.joined = FALSE] \in Snapshots
        /\ [Snapshot(backends) EXCEPT !.joined = FALSE].digested
  BY DEF Snapshot, Snapshots
<1>3. /\ <<>> \in Seq(Backends) /\ \A b \in Backends : <<b>> \in Seq(Backends)
      /\ \A b \in Backends, c \in Backends : <<b, c>> \in Seq(Backends)
  OBVIOUS
<1>4. [i \in 1 .. MaxBackends + 1 |-> Backend(i)] \in Seq(Backends)
  <2>1. \A i \in 1 .. MaxBackends + 1 : Backend(i) \in Backends
    BY <1>1, Constants
  <2> QED
    BY <2>1, Constants
<1>5. ASSUME NEW name \in Names
      PROVE  Situation(name) \in Snapshots /\ Situation(name).digested
  <2>1. CASE name = "stable"
    BY <1>1, <1>2, <1>3, <2>1 DEF Situation
  <2>2. CASE name = "restarted"
    BY <1>1, <1>2, <1>3, <2>2 DEF Situation
  <2>3. CASE name = "scaled"
    BY <1>1, <1>2, <1>3, <2>3 DEF Situation
  <2>4. CASE name = "empty"
    BY <1>2, <1>3, <2>4 DEF Situation
  <2>5. CASE name = "excess"
    BY <1>2, <1>4, <2>5 DEF Situation
  <2>6. CASE name = "mixed"
    <3>1. [Backend(1) EXCEPT !.image = "foreign", !.imageId = "foreign"] \in Backends
      BY WordsAre DEF Backend, Backends, Said
    <3> QED
      BY <1>2, <1>3, <2>6, <3>1 DEF Situation
  <2>7. CASE name = "drifted"
    BY <1>1, <1>2, <1>3, <2>7 DEF Situation
  <2>8. CASE name = "unready"
    <3>1. [Backend(1) EXCEPT !.bound = FALSE] \in Backends
      BY WordsAre DEF Backend, Backends, Said
    <3> QED
      BY <1>2, <1>3, <2>8, <3>1 DEF Situation
  <2>9. CASE name = "external"
    <3>1. [pod |-> None, bound |-> FALSE, image |-> None, imageId |-> None] \in Backends
      BY DEF Backends, Said
    <3> QED
      BY <1>2, <1>3, <2>9, <3>1 DEF Situation
  <2> QED
    BY <2>1, <2>2, <2>3, <2>4, <2>5, <2>6, <2>7, <2>8, <2>9 DEF Names
<1> QED
  BY <1>5 DEF Targets, Names

\* A target without error is joined, has backends but not too many, and each of
\* them is the delivered one.
LEMMA TargetErrorNone ==
    ASSUME NEW snapshot \in Snapshots, TargetError(snapshot) = None
    PROVE  /\ snapshot.joined
           /\ Len(snapshot.backends) \in 1 .. MaxBackends
           /\ \A i \in DOMAIN snapshot.backends :
                BackendError(snapshot.backends[i]) = None
<1> DEFINE n == Len(snapshot.backends)
           front == <<IF snapshot.joined THEN None ELSE "invalid",
                      SizeError(snapshot), OrderError(snapshot)>>
           back == [i \in DOMAIN snapshot.backends |->
                      BackendError(snapshot.backends[i])]
           found == front \o back
           errors == {i \in DOMAIN found : found[i] # None}
<1>1. n \in Nat /\ DOMAIN snapshot.backends = 1 .. n
  BY DEF Snapshots
<1>2. front \in Seq(Said) /\ Len(front) = 3
  BY WordsAre DEF SizeError, OrderError, Said
<1>3. back \in Seq(Said) /\ Len(back) = n
  <2>1. \A i \in 1 .. n : BackendError(snapshot.backends[i]) \in Said
    BY WordsAre DEF BackendError, Said
  <2> QED
    BY <1>1, <2>1
<1>4. /\ DOMAIN found = 1 .. 3 + n
      /\ \A i \in 1 .. 3 + n : found[i] = IF i <= 3 THEN front[i] ELSE back[i - 3]
  BY <1>1, <1>2, <1>3, ConcatProperties
<1>5. TargetError(snapshot) = IF errors = {} THEN None ELSE found[Max(errors)]
  BY DEF TargetError
<1>6. errors = {}
  <2>1. ASSUME errors # {} PROVE FALSE
    <3>1. errors \subseteq 0 .. 3 + n /\ 3 + n \in Nat
      BY <1>1, <1>4
    <3>2. Max(errors) \in errors
      BY <2>1, <3>1, MaxIs
    <3> QED
      BY <1>5, <2>1, <3>2
  <2> HIDE DEF errors
  <2> QED
    BY <2>1, ZenonT(40)
<1>7. \A i \in 1 .. 3 + n : found[i] = None
  BY <1>4, <1>6
<1> HIDE DEF found, front, back
<1>8. front[1] = None /\ front[2] = None
  BY <1>1, <1>4, <1>7
<1>9. \A i \in 1 .. n : back[i] = None
  <2>1. ASSUME NEW i \in 1 .. n PROVE back[i] = None
    <3>1. i + 3 \in 1 .. 3 + n /\ ~(i + 3 <= 3) /\ (i + 3) - 3 = i
      BY <1>1
    <3> QED
      BY <1>4, <1>7, <3>1
  <2> QED
    BY <2>1
<1>10. snapshot.joined /\ SizeError(snapshot) = None
  BY <1>8, Constants, WordsAre DEF front
<1>11. n \in 1 .. MaxBackends
  BY <1>1, <1>10, Constants, WordsAre DEF SizeError
<1> QED
  BY <1>1, <1>9, <1>10, <1>11 DEF back

LEMMA BackendErrorNone ==
    ASSUME NEW backend \in Backends, BackendError(backend) = None
    PROVE  /\ backend.bound /\ backend.image = "delivered"
           /\ backend.imageId = "delivered"
           /\ backend = Backend(backend.pod)
<1>1. /\ backend.bound /\ backend.image = "delivered"
      /\ backend.imageId = "delivered"
  BY Constants, WordsAre DEF BackendError, Backends
<1> QED
  BY <1>1 DEF Backend, Backends

-----------------------------------------------------------------------------
(* A forged record is a record.                                            *)

LEMMA ChangedFirst ==
    ASSUME NEW S, NEW s \in Seq(S), NEW e, s # <<>> => e \in S
    PROVE  /\ [s EXCEPT ![1] = e] \in Seq(S)
           /\ Len([s EXCEPT ![1] = e]) = Len(s)
           /\ s # <<>> => [s EXCEPT ![1] = e][1] = e
<1>1. CASE s = <<>>
  <2>1. [s EXCEPT ![1] = e] = s
    BY <1>1
  <2> QED
    BY <1>1, <2>1
<1>2. CASE s # <<>>
  <2>1. 1 \in 1 .. Len(s)
    BY <1>2
  <2> QED
    BY <1>2, <2>1, ExceptSeq
<1> QED
  BY <1>1, <1>2

LEMMA SnapshotTypes ==
    ASSUME NEW a \in Attempts
    PROVE  ForgedSnapshots(a) \subseteq Attempts
<1>1. ASSUME NEW s \in Snapshots
      PROVE  /\ [s EXCEPT !.joined = FALSE] \in Snapshots
             /\ [s EXCEPT !.digested = FALSE] \in Snapshots
             /\ [s EXCEPT !.backends[1].bound = FALSE] \in Snapshots
             /\ [s EXCEPT !.backends[1].imageId = "invalid"] \in Snapshots
             /\ [s EXCEPT !.backends[1].image = "foreign", !.digested = FALSE]
                   \in Snapshots
  <2> DEFINE b == s.backends[1]
  <2>1. s.backends \in Seq(Backends) /\ (s.backends # <<>> => b \in Backends)
    BY DEF Snapshots
  <2>2. b \in Backends => /\ [b EXCEPT !.bound = FALSE] \in Backends
                          /\ [b EXCEPT !.imageId = "invalid"] \in Backends
                          /\ [b EXCEPT !.image = "foreign"] \in Backends
    BY WordsAre DEF Backends, Said
  <2>3. \A e : (s.backends # <<>> => e \in Backends) =>
                  [s.backends EXCEPT ![1] = e] \in Seq(Backends)
    BY <2>1, ChangedFirst
  <2>4. /\ [s.backends EXCEPT ![1] = [b EXCEPT !.bound = FALSE]] \in Seq(Backends)
        /\ [s.backends EXCEPT ![1] = [b EXCEPT !.imageId = "invalid"]] \in Seq(Backends)
        /\ [s.backends EXCEPT ![1] = [b EXCEPT !.image = "foreign"]] \in Seq(Backends)
    BY <2>1, <2>2, <2>3
  <2>5. ASSUME NEW backends \in Seq(Backends)
        PROVE  /\ [s EXCEPT !.backends = backends] \in Snapshots
               /\ [s EXCEPT !.backends = backends, !.digested = FALSE] \in Snapshots
    BY DEF Snapshots
  <2>6. [s EXCEPT !.joined = FALSE] \in Snapshots
        /\ [s EXCEPT !.digested = FALSE] \in Snapshots
    BY DEF Snapshots
  <2> QED
    BY <2>4, <2>5, <2>6
<1>2. a.pre \in Snapshots /\ a.post \in Snapshots
  BY DEF Attempts
<1>3. ASSUME NEW s \in Snapshots, NEW t \in Snapshots
      PROVE  /\ [a EXCEPT !.pre = s] \in Attempts
             /\ [a EXCEPT !.post = s] \in Attempts
             /\ [a EXCEPT !.pre = s, !.post = t] \in Attempts
  BY DEF Attempts
<1>4. /\ [a EXCEPT !.pre.joined = FALSE] \in Attempts
      /\ [a EXCEPT !.pre.backends[1].bound = FALSE] \in Attempts
      /\ [a EXCEPT !.post.joined = FALSE] \in Attempts
      /\ [a EXCEPT !.post.digested = FALSE] \in Attempts
  BY <1>1, <1>2, <1>3
<1>5. [a EXCEPT !.pre.backends[1].bound = FALSE,
                !.post.backends[1].bound = FALSE] \in Attempts
  <2>1. [a EXCEPT !.pre.backends[1].bound = FALSE, !.post.backends[1].bound = FALSE]
          = [a EXCEPT !.pre = [a.pre EXCEPT !.backends[1].bound = FALSE],
                      !.post = [a.post EXCEPT !.backends[1].bound = FALSE]]
    BY DEF Attempts
  <2> QED
    BY <1>1, <1>2, <1>3, <2>1
<1>6. [a EXCEPT !.pre.backends[1].imageId = "invalid",
                !.post.backends[1].imageId = "invalid"] \in Attempts
  <2>1. [a EXCEPT !.pre.backends[1].imageId = "invalid",
                  !.post.backends[1].imageId = "invalid"]
          = [a EXCEPT !.pre = [a.pre EXCEPT !.backends[1].imageId = "invalid"],
                      !.post = [a.post EXCEPT !.backends[1].imageId = "invalid"]]
    BY DEF Attempts
  <2> QED
    BY <1>1, <1>2, <1>3, <2>1
<1>7. [a EXCEPT !.pre.backends[1].image = "foreign", !.pre.digested = FALSE]
         \in Attempts
  <2>1. [a EXCEPT !.pre.backends[1].image = "foreign", !.pre.digested = FALSE]
          = [a EXCEPT !.pre = [a.pre EXCEPT !.backends[1].image = "foreign",
                                            !.digested = FALSE]]
    BY DEF Attempts
  <2> QED
    BY <1>1, <1>2, <1>3, <2>1
<1> QED
  BY <1>4, <1>5, <1>6, <1>7 DEF ForgedSnapshots

LEMMA ResultTypes ==
    ASSUME NEW a \in Attempts
    PROVE  ForgedResults(a) \subseteq Attempts /\ Failed(a) \in Attempts
<1> DEFINE r == a.results[1]
<1>1. a.results \in Seq(Results) /\ (a.results # <<>> => r \in Results)
  BY DEF Attempts
<1>2. r \in Results =>
        /\ [r EXCEPT !.late = TRUE] \in Results
        /\ [r EXCEPT !.response = FALSE] \in Results
        /\ [r EXCEPT !.oracle = FALSE] \in Results
        /\ [r EXCEPT !.response = FALSE, !.state = "fail"] \in Results
  BY DEF Results, States
<1>3. \A e : (a.results # <<>> => e \in Results) =>
                [a.results EXCEPT ![1] = e] \in Seq(Results)
  BY <1>1, ChangedFirst
<1>4. /\ [a.results EXCEPT ![1] = [r EXCEPT !.late = TRUE]] \in Seq(Results)
      /\ [a.results EXCEPT ![1] = [r EXCEPT !.response = FALSE]] \in Seq(Results)
      /\ [a.results EXCEPT ![1] = [r EXCEPT !.oracle = FALSE]] \in Seq(Results)
      /\ [a.results EXCEPT ![1].response = FALSE, ![1].state = "fail"] \in Seq(Results)
  BY <1>1, <1>2, <1>3
<1>5. ASSUME NEW results \in Seq(Results)
      PROVE  /\ [a EXCEPT !.results = results] \in Attempts
             /\ [a EXCEPT !.results = results, !.state = "fail"] \in Attempts
  BY DEF Attempts, States
<1>6. <<>> \in Seq(Results)
  OBVIOUS
<1>7. /\ [a EXCEPT !.results = <<>>] \in Attempts
      /\ [a EXCEPT !.results[1].late = TRUE] \in Attempts
      /\ [a EXCEPT !.results[1].response = FALSE] \in Attempts
      /\ [a EXCEPT !.results[1].oracle = FALSE] \in Attempts
  BY <1>4, <1>5, <1>6
<1>8. Failed(a) = [a EXCEPT !.results = [a.results EXCEPT ![1].response = FALSE,
                                                          ![1].state = "fail"],
                            !.state = "fail"]
  BY DEF Failed, Attempts
<1> QED
  BY <1>4, <1>5, <1>7, <1>8, ZenonT(40) DEF ForgedResults

LEMMA PlaceIs ==
    ASSUME NEW rec \in Records, NEW p \in Places(rec)
    PROVE  /\ p = <<p[1], p[2]>>
           /\ p[1] \in DOMAIN rec.conditions /\ p[1] \in Probed(rec)
           /\ rec.conditions[p[1]] \in Conditions
           /\ p[2] \in 1 .. Len(rec.conditions[p[1]].attempts)
           /\ AttemptAt(rec, p) \in Attempts
<1>1. PICK c \in DOMAIN rec.conditions :
        p \in {c} \X DOMAIN rec.conditions[c].attempts
  BY DEF Places
<1>2. p = <<p[1], p[2]>> /\ p[1] = c /\ p[2] \in DOMAIN rec.conditions[c].attempts
  BY <1>1
<1>3. rec.conditions[c] \in Conditions
  BY DEF Records
<1>4. /\ rec.conditions[c].attempts \in Seq(Attempts)
      /\ DOMAIN rec.conditions[c].attempts = 1 .. Len(rec.conditions[c].attempts)
      /\ \A i \in 1 .. Len(rec.conditions[c].attempts) :
           rec.conditions[c].attempts[i] \in Attempts
  BY <1>3 DEF Conditions
<1>5. rec.conditions[c].attempts # <<>>
  BY <1>2, <1>4
<1> QED
  BY <1>2, <1>3, <1>4, <1>5 DEF AttemptAt, Probed

\* What a record with another condition or attempt keeps.
LEMMA RewrittenIs ==
    ASSUME NEW rec \in Records, NEW c \in DOMAIN rec.conditions,
           NEW condition \in Conditions
    PROVE  LET new == Rewritten(rec, c, condition) IN
           /\ new \in Records /\ new.subject = rec.subject
           /\ DOMAIN new.conditions = DOMAIN rec.conditions
           /\ new.conditions[c] = condition
           /\ \A d \in DOMAIN rec.conditions : d # c =>
                new.conditions[d] = rec.conditions[d]
BY DEF Records, Rewritten

LEMMA ReplacedIs ==
    ASSUME NEW rec \in Records, NEW p \in Places(rec), NEW a \in Attempts
    PROVE  /\ Replaced(rec, p, a) \in Records
           /\ Replaced(rec, p, a).subject = rec.subject
           /\ DOMAIN Replaced(rec, p, a).conditions = DOMAIN rec.conditions
           /\ Replaced(rec, p, a).conditions[p[1]] \in Conditions
           /\ Len(Replaced(rec, p, a).conditions[p[1]].attempts)
                 = Len(rec.conditions[p[1]].attempts)
           /\ Replaced(rec, p, a).conditions[p[1]].attempts[p[2]] = a
           /\ \A i \in 1 .. Len(rec.conditions[p[1]].attempts) : i # p[2] =>
                 Replaced(rec, p, a).conditions[p[1]].attempts[i]
                    = rec.conditions[p[1]].attempts[i]
           /\ Replaced(rec, p, a).conditions[p[1]].state = rec.conditions[p[1]].state
           /\ \A d \in DOMAIN rec.conditions : d # p[1] =>
                 Replaced(rec, p, a).conditions[d] = rec.conditions[d]
<1> DEFINE old == rec.conditions[p[1]]
           now == [old EXCEPT !.attempts = [old.attempts EXCEPT ![p[2]] = a]]
           new == Rewritten(rec, p[1], now)
<1>1. /\ p[1] \in DOMAIN rec.conditions /\ old \in Conditions
      /\ p[2] \in 1 .. Len(old.attempts)
  BY PlaceIs
<1>2. old.attempts \in Seq(Attempts)
  BY <1>1 DEF Conditions
<1>3. /\ [old.attempts EXCEPT ![p[2]] = a] \in Seq(Attempts)
      /\ Len([old.attempts EXCEPT ![p[2]] = a]) = Len(old.attempts)
      /\ \A i \in 1 .. Len(old.attempts) : [old.attempts EXCEPT ![p[2]] = a][i]
            = IF i = p[2] THEN a ELSE old.attempts[i]
  BY <1>1, <1>2, ExceptSeq
<1>4. /\ now \in Conditions
      /\ now.attempts = [old.attempts EXCEPT ![p[2]] = a]
      /\ now.termination = old.termination /\ now.state = old.state
      /\ now.achieved = old.achieved
  BY <1>1, <1>3 DEF Conditions
<1>5. Replaced(rec, p, a) = new
  BY DEF Replaced, Rewritten
<1> HIDE DEF now
<1>6. /\ new \in Records /\ new.subject = rec.subject
      /\ DOMAIN new.conditions = DOMAIN rec.conditions
      /\ new.conditions[p[1]] = now
      /\ \A d \in DOMAIN rec.conditions : d # p[1] =>
            new.conditions[d] = rec.conditions[d]
  BY <1>1, <1>4, RewrittenIs
<1> HIDE DEF new, old
<1>7. /\ Len(now.attempts) = Len(old.attempts) /\ now.attempts[p[2]] = a
      /\ \A i \in 1 .. Len(old.attempts) : i # p[2] =>
            now.attempts[i] = old.attempts[i]
  BY <1>1, <1>3, <1>4
<1> QED
  BY <1>4, <1>5, <1>6, <1>7 DEF old

LEMMA FirstAttemptType ==
    ASSUME NEW rec \in Records, Probed(rec) # {}
    PROVE  /\ FirstAttempt(rec) \in Attempts /\ LastAttempt(rec) \in Attempts
           /\ Min(Probed(rec)) \in Probed(rec) /\ Max(Probed(rec)) \in Probed(rec)
           /\ \A c \in Probed(rec) : Min(Probed(rec)) <= c /\ c <= Max(Probed(rec))
<1>1. Probed(rec) \subseteq 1 .. 2 + Contracts
  BY DescriptorsAre DEF Probed, Records
<1>2. /\ Min(Probed(rec)) \in Probed(rec)
      /\ \A c \in Probed(rec) : Min(Probed(rec)) <= c
  BY <1>1, MinIs, Constants
<1>3. /\ Max(Probed(rec)) \in Probed(rec)
      /\ \A c \in Probed(rec) : c <= Max(Probed(rec))
  <2>1. Probed(rec) \subseteq 0 .. 2 + Contracts /\ 2 + Contracts \in Nat
    BY <1>1, Constants
  <2> QED
    BY <2>1, MaxIs
<1>4. \A c \in Probed(rec) : /\ rec.conditions[c].attempts \in Seq(Attempts)
                             /\ rec.conditions[c].attempts # <<>>
  BY DEF Probed, Records, Conditions
<1>5. \A s \in Seq(Attempts) : s # <<>> => Head(s) \in Attempts /\ Last(s) \in Attempts
  BY DEF Last
<1> QED
  BY <1>2, <1>3, <1>4, <1>5 DEF FirstAttempt, LastAttempt

LEMMA ReplacedTypes ==
    ASSUME NEW rec \in Records
    PROVE  /\ ForgedAttempts(rec) \subseteq Records
           /\ ForgedOrder(rec) \subseteq Records
           /\ Interrupted(rec) \subseteq Records
<1>1. ASSUME NEW p \in PassingAttempts(rec)
      PROVE  p \in Places(rec) /\ AttemptAt(rec, p) \in Attempts
  BY <1>1, PlaceIs DEF PassingAttempts
<1>2. ASSUME NEW forged \in ForgedAttempts(rec) PROVE forged \in Records
  <2>1. PICK p \in PassingAttempts(rec) :
          forged \in {Replaced(rec, p, a) :
                        a \in ForgedSnapshots(AttemptAt(rec, p))
                              \cup ForgedResults(AttemptAt(rec, p))}
    BY DEF ForgedAttempts
  <2>2. PICK a \in ForgedSnapshots(AttemptAt(rec, p))
                   \cup ForgedResults(AttemptAt(rec, p)) : forged = Replaced(rec, p, a)
    BY <2>1
  <2>3. a \in Attempts
    BY <1>1, SnapshotTypes, ResultTypes
  <2> QED
    BY <1>1, <2>2, <2>3, ReplacedIs
<1>3. ASSUME NEW p \in PassingAttempts(rec)
      PROVE  Replaced(rec, p, Reused(rec, p)) \in Records
  <2>1. FirstAttempt(rec).id \in Nat
    BY <1>1, PlaceIs, FirstAttemptType DEF Attempts
  <2>2. Reused(rec, p) \in Attempts
    BY <1>1, <2>1 DEF Reused, Attempts
  <2> QED
    BY <1>1, <2>2, ReplacedIs
<1>4. ASSUME NEW p \in PassingAttempts(rec), p[2] > 1
      PROVE  Replaced(rec, p, Hurried(rec, p)) \in Records
  <2> DEFINE a == AttemptAt(rec, p)
             before == AttemptAt(rec, <<p[1], p[2] - 1>>)
  <2>1. a \in Attempts /\ before \in Attempts
    BY <1>1, <1>4, PlaceIs DEF Conditions, AttemptAt
  <2>2. before.completed \in Nat /\ before.completed + a.duration \in Nat
    BY <2>1 DEF Attempts
  <2> HIDE DEF a, before
  <2>3. [a EXCEPT !.started = before.completed,
                  !.completed = before.completed + a.duration] \in Attempts
    BY <2>1, <2>2 DEF Attempts
  <2>4. Hurried(rec, p) \in Attempts
    BY <2>3 DEF Hurried, a, before
  <2> QED
    BY <1>1, <2>4, ReplacedIs
<1>5. ASSUME NEW p \in PassingAttempts(rec)
      PROVE  Replaced(rec, p, Failed(AttemptAt(rec, p))) \in Records
  BY <1>1, ResultTypes, ReplacedIs
<1>6. ForgedOrder(rec) \subseteq Records
  BY <1>3, <1>4 DEF ForgedOrder
<1>7. Interrupted(rec) \subseteq Records
  BY <1>5 DEF Interrupted
<1> QED
  BY <1>2, <1>6, <1>7

LEMMA ProbedIs ==
    ASSUME NEW rec \in Records, NEW c \in Probed(rec)
    PROVE  /\ c \in DOMAIN rec.conditions /\ rec.conditions[c] \in Conditions
           /\ rec.conditions[c].attempts \in Seq(Attempts)
           /\ Len(rec.conditions[c].attempts) \in Nat \ {0}
           /\ Last(rec.conditions[c].attempts) \in Attempts
           /\ \A i \in 1 .. Len(rec.conditions[c].attempts) :
                rec.conditions[c].attempts[i] \in Attempts
BY DEF Probed, Records, Conditions, Last

LEMMA FurtherIs ==
    ASSUME NEW rec \in Records, NEW last \in Attempts, Probed(rec) # {}
    PROVE  Further(rec, last) \in Attempts
<1>1. LastAttempt(rec).id + 1 \in Nat
  BY FirstAttemptType, SMTT(40) DEF Attempts
<1>2. Situation("empty") \in Snapshots
  BY TargetsAre
<1>3. <<>> \in Seq(Results) /\ "empty" \in Said /\ "probe-error" \in States
  BY WordsAre DEF Said, States
<1>4. /\ last.ordinal + 1 \in Nat /\ last.completed + Delay \in Nat
      /\ last.completed + Delay + 1 \in Nat
  BY Constants DEF Attempts
<1> QED
  BY <1>1, <1>2, <1>3, <1>4 DEF Further, Attempts

LEMMA CutIs ==
    ASSUME NEW rec \in Records, NEW c \in Probed(rec)
    PROVE  /\ Cut(rec.conditions[c]) \in Conditions
           /\ Rewritten(rec, c, Cut(rec.conditions[c])) \in Records
<1>1. Front(rec.conditions[c].attempts) \in Seq(Attempts)
  BY ProbedIs, SubSeqProperties DEF Front
<1>2. Passes - 1 \in Nat
  BY Constants
<1>3. Cut(rec.conditions[c]) \in Conditions
  BY <1>1, <1>2, ProbedIs DEF Cut, Conditions
<1> QED
  BY <1>3, ProbedIs, RewrittenIs

LEMMA ContinuedIs ==
    ASSUME NEW rec \in Records, NEW c \in Probed(rec)
    PROVE  LET further == Further(rec, Last(rec.conditions[c].attempts))
               now == Continued(rec.conditions[c], further)
               new == Prolonged(rec, c)
           IN /\ further \in Attempts /\ now \in Conditions
              /\ new \in Records
              /\ DOMAIN new.conditions = DOMAIN rec.conditions
              /\ new.conditions[c] = now
<1> DEFINE further == Further(rec, Last(rec.conditions[c].attempts))
           now == Continued(rec.conditions[c], further)
<1>1. further \in Attempts
  BY ProbedIs, FurtherIs
<1>2. now \in Conditions
  BY <1>1, ProbedIs, AppendProperties, SMTT(40) DEF Continued, Conditions
<1>3. further.completed \in Nat
  BY <1>1 DEF Attempts
<1> HIDE DEF now, further
<1>4. /\ Rewritten(rec, c, now) \in Records
      /\ DOMAIN Rewritten(rec, c, now).conditions = DOMAIN rec.conditions
      /\ Rewritten(rec, c, now).conditions[c] = now
  BY <1>2, ProbedIs, RewrittenIs
<1> QED
  BY <1>1, <1>2, <1>3, <1>4 DEF Records, Prolonged, now, further

LEMMA AtDeadlineIs ==
    ASSUME NEW rec \in Records, 1 \in Probed(rec)
    PROVE  LET now == AtDeadline(rec.conditions[1])
               new == [Rewritten(rec, 1, now) EXCEPT
                         !.paths[1] = "fail", !.aggregate = "fail", !.satisfied = FALSE,
                         !.completed = rec.subject.deadline]
           IN /\ now \in Conditions /\ new \in Records
              /\ DOMAIN new.conditions = DOMAIN rec.conditions
              /\ new.conditions[1] = now
              /\ \A c \in DOMAIN rec.conditions : c # 1 =>
                   new.conditions[c] = rec.conditions[c]
<1> DEFINE now == AtDeadline(rec.conditions[1])
           mid == Rewritten(rec, 1, now)
           paths == [mid.paths EXCEPT ![1] = "fail"]
<1>1. Failed(Head(rec.conditions[1].attempts)) \in Attempts
  BY ProbedIs, ResultTypes
<1>2. <<Failed(Head(rec.conditions[1].attempts))>> \in Seq(Attempts)
  BY <1>1
<1>3. now \in Conditions
  BY <1>2, ProbedIs, WordsAre DEF AtDeadline, Conditions, Said
<1> HIDE DEF now
<1>4. /\ mid \in Records /\ DOMAIN mid.conditions = DOMAIN rec.conditions
      /\ mid.conditions[1] = now
      /\ \A c \in DOMAIN rec.conditions : c # 1 => mid.conditions[c] = rec.conditions[c]
  BY <1>3, ProbedIs, RewrittenIs
<1> HIDE DEF mid
<1>5. paths \in [DOMAIN PathConditions -> Words] /\ rec.subject.deadline \in Nat
  BY <1>4, WordsAre DEF Records, Subjects
<1>6. [mid EXCEPT !.paths[1] = "fail", !.aggregate = "fail", !.satisfied = FALSE,
                  !.completed = rec.subject.deadline]
        = [mid EXCEPT !.paths = paths, !.aggregate = "fail", !.satisfied = FALSE,
                      !.completed = rec.subject.deadline]
  OBVIOUS
<1> HIDE DEF paths
<1>7. [mid EXCEPT !.paths = paths, !.aggregate = "fail", !.satisfied = FALSE,
                  !.completed = rec.subject.deadline] \in Records
  BY <1>4, <1>5, WordsAre DEF Records
<1> QED
  BY <1>3, <1>4, <1>6, <1>7 DEF now, mid, Records

LEMMA RelabelledIs ==
    ASSUME NEW rec \in Records, NEW c \in Probed(rec)
    PROVE  LET now == Relabelled(rec.conditions[c])
               new == [Rewritten(rec, c, now) EXCEPT
                         !.paths = [i \in DOMAIN PathConditions |-> "pass"],
                         !.aggregate = "pass", !.satisfied = TRUE]
           IN /\ now \in Conditions /\ new \in Records
              /\ DOMAIN new.conditions = DOMAIN rec.conditions
              /\ new.conditions[c] = now
              /\ new.subject = rec.subject
<1> DEFINE old == rec.conditions[c]
           n == Len(old.attempts)
           a == [Last(old.attempts) EXCEPT !.code = None, !.state = "pass"]
           now == Relabelled(old)
           mid == Rewritten(rec, c, now)
           paths == [i \in DOMAIN PathConditions |-> "pass"]
<1>1. /\ old \in Conditions /\ old.attempts \in Seq(Attempts)
      /\ n \in 1 .. Len(old.attempts) /\ Last(old.attempts) \in Attempts
  BY ProbedIs
<1>2. a \in Attempts
  BY <1>1 DEF Attempts, Said, States
<1>3. [old.attempts EXCEPT ![n] = a] \in Seq(Attempts)
  BY <1>1, <1>2, ExceptSeq
<1>4. now = [old EXCEPT !.attempts = [old.attempts EXCEPT ![n] = a],
                        !.achieved = Passes, !.state = "pass",
                        !.termination = "condition-satisfied"]
  BY DEF Relabelled
<1>5. now \in Conditions
  BY <1>1, <1>3, <1>4, Constants, WordsAre DEF Conditions, Said
<1> HIDE DEF now
<1>6. /\ mid \in Records /\ mid.subject = rec.subject
      /\ DOMAIN mid.conditions = DOMAIN rec.conditions /\ mid.conditions[c] = now
  BY <1>5, ProbedIs, RewrittenIs
<1>7. paths \in [DOMAIN PathConditions -> Words]
  BY WordsAre
<1> HIDE DEF mid, paths
<1> QED
  BY <1>5, <1>6, <1>7, WordsAre DEF Records, now, mid, paths

LEMMA ConditionsSeq ==
    ASSUME NEW rec \in Records
    PROVE  /\ rec.conditions \in Seq(Conditions)
           /\ Len(rec.conditions) = 2 + Contracts
           /\ DOMAIN rec.conditions = 1 .. 2 + Contracts
           /\ rec.conditions[1] \in Conditions /\ rec.conditions[2] \in Conditions
<1>1. rec.conditions \in [1 .. 2 + Contracts -> Conditions]
  BY DescriptorsAre DEF Records
<1>2. 2 + Contracts \in Nat /\ 1 \in 1 .. 2 + Contracts /\ 2 \in 1 .. 2 + Contracts
  BY Constants
<1> QED
  BY <1>1, <1>2

LEMMA ReorderedIs ==
    ASSUME NEW rec \in Records
    PROVE  LET new == <<rec.conditions[2], rec.conditions[1]>>
                         \o SubSeq(rec.conditions, 3, Len(rec.conditions))
           IN /\ new \in [DOMAIN Descriptors -> Conditions]
              /\ new[1] = rec.conditions[2]
<1> DEFINE front == <<rec.conditions[2], rec.conditions[1]>>
           back == SubSeq(rec.conditions, 3, Len(rec.conditions))
<1>1. front \in Seq(Conditions) /\ Len(front) = 2 /\ front[1] = rec.conditions[2]
  BY ConditionsSeq
<1>2. back \in Seq(Conditions) /\ Len(back) = Contracts
  <2>1. /\ 3 \in 1 .. Len(rec.conditions) + 1
        /\ Len(rec.conditions) \in 2 .. Len(rec.conditions)
        /\ Len(rec.conditions) - 3 + 1 = Contracts
    BY ConditionsSeq, Constants
  <2> QED
    BY <2>1, ConditionsSeq, SubSeqProperties, Constants
<1> HIDE DEF front, back
<1>3. /\ front \o back \in Seq(Conditions)
      /\ Len(front \o back) = Len(front) + Len(back)
      /\ \A i \in 1 .. Len(front) + Len(back) : (front \o back)[i] =
           IF i <= Len(front) THEN front[i] ELSE back[i - Len(front)]
  BY <1>1, <1>2, ConcatProperties, Zenon
<1>4. front \o back \in [1 .. 2 + Contracts -> Conditions]
  <2>1. front \o back \in [1 .. Len(front \o back) -> Conditions]
    BY <1>3, LenProperties
  <2> QED
    BY <1>1, <1>2, <1>3, <2>1
<1>5. (front \o back)[1] = front[1]
  BY <1>1, <1>2, <1>3, Constants
<1> QED
  BY <1>1, <1>4, <1>5, DescriptorsAre DEF front, back

LEMMA BindingTypes ==
    ASSUME NEW rec \in Records
    PROVE  /\ ForgedBinding(rec) \subseteq Records
           /\ ForgedSignatures(rec) \subseteq Records
           /\ Resigned(rec) \in Records
<1>1. rec.subject \in Subjects
  BY DEF Records
<1>2. /\ [rec.subject EXCEPT !.profile = "other"] \in Subjects
      /\ [rec.subject EXCEPT !.commit = "other"] \in Subjects
      /\ [rec.subject EXCEPT !.issued = rec.subject.observed + Fresh + 1,
                             !.deadline = rec.subject.observed + Fresh + 1 + RunLimit]
            \in Subjects
  <2>1. /\ rec.subject.observed + Fresh + 1 \in Nat
        /\ rec.subject.observed + Fresh + 1 + RunLimit \in Nat
    BY <1>1, Constants DEF Subjects
  <2>2. \A issued \in Nat, deadline \in Nat :
          [rec.subject EXCEPT !.issued = issued, !.deadline = deadline] \in Subjects
    BY <1>1 DEF Subjects
  <2> QED
    BY <1>1, <2>1, <2>2, WordsAre DEF Subjects
<1>3. \A subject \in Subjects : [rec EXCEPT !.subject = subject] \in Records
  BY DEF Records
<1>4. /\ [rec EXCEPT !.run = "other"] \in Records
      /\ [rec EXCEPT !.order = "other"] \in Records
      /\ [rec EXCEPT !.expires = rec.completed] \in Records
      /\ Resigned(rec) \in Records
  BY WordsAre DEF Records, Resigned
<1>5. /\ [rec EXCEPT !.subject.profile = "other"] \in Records
      /\ [rec EXCEPT !.subject.commit = "other"] \in Records
  BY <1>2, <1>3
<1>6. [rec EXCEPT !.subject.issued = rec.subject.observed + Fresh + 1,
                  !.subject.deadline = rec.subject.observed + Fresh + 1 + RunLimit]
         \in Records
  <2>1. [rec EXCEPT !.subject.issued = rec.subject.observed + Fresh + 1,
                    !.subject.deadline = rec.subject.observed + Fresh + 1 + RunLimit]
          = [rec EXCEPT !.subject =
               [rec.subject EXCEPT
                  !.issued = rec.subject.observed + Fresh + 1,
                  !.deadline = rec.subject.observed + Fresh + 1 + RunLimit]]
    BY DEF Records
  <2> QED
    BY <1>2, <1>3, <2>1
<1>7. \A conditions \in [DOMAIN Descriptors -> Conditions] :
        [rec EXCEPT !.conditions = conditions] \in Records
  BY DEF Records
<1>8. ForgedBinding(rec) \subseteq Records
  BY <1>4, <1>5, <1>6, <1>7, ReorderedIs DEF ForgedBinding
<1>9. ForgedSignatures(rec) \subseteq Records
  <2>1. \A by \in Words : [rec EXCEPT !.signer = by] \in Records
    BY DEF Records
  <2> QED
    BY <2>1, WordsAre DEF ForgedSignatures
<1> QED
  BY <1>4, <1>8, <1>9

\* Every forgery is of the form of a record, and so is a forgery of it.
LEMMA ForgeryTypes ==
    ASSUME NEW rec \in Records
    PROVE  Forgeries(rec) \subseteq Records
<1>1. ForgedConditions(rec) \subseteq Records
  <2>1. Satisfied(rec) \subseteq Probed(rec)
    BY DEF Satisfied
  <2> QED
    BY <2>1, ReplacedTypes, CutIs, ContinuedIs DEF ForgedConditions
<1>2. ForgedDeadline(rec) \subseteq Records
  <2>1. \A p \in PassingAttempts(rec) : p = <<1, 1>> => 1 \in Probed(rec)
    BY PlaceIs DEF PassingAttempts
  <2> QED
    BY <2>1, AtDeadlineIs DEF ForgedDeadline
<1>3. ForgedPass(rec) \subseteq Records
  BY RelabelledIs, ZenonT(40) DEF ForgedPass
<1> QED
  BY <1>1, <1>2, <1>3, ReplacedTypes, BindingTypes DEF Forgeries

-----------------------------------------------------------------------------
(* A forgery of an accepted record is not accepted.                        *)

\* A passing attempt that is accepted saw the delivered backends, before and
\* after, and each of them passed.
LEMMA PassingAttemptIs ==
    ASSUME NEW a \in Attempts, NEW subject, AttemptOk(a, subject), a.state = "pass"
    PROVE  /\ AttemptError(a) = None /\ a.code = None
           /\ a.pre = a.post /\ TargetError(a.pre) = None
           /\ a.pre \in Snapshots /\ a.pre.joined /\ a.pre.digested
           /\ Len(a.pre.backends) \in 1 .. MaxBackends
           /\ \A i \in DOMAIN a.pre.backends :
                /\ a.pre.backends[i] \in Backends
                /\ a.pre.backends[i].bound
                /\ a.pre.backends[i].image = "delivered"
                /\ a.pre.backends[i].imageId = "delivered"
                /\ a.pre.backends[i] = Backend(a.pre.backends[i].pod)
           /\ Len(a.results) = Len(a.pre.backends)
           /\ a.results \in Seq(Results)
           /\ \A i \in DOMAIN a.results :
                /\ a.results[i] \in Results
                /\ a.results[i].state = "pass"
                /\ BackendState(a.results[i]) = "pass"
                /\ a.results[i].error = None
                /\ a.results[i].response /\ a.results[i].oracle
<1>1. BatchState(a) = "pass" /\ a.code = AttemptError(a) /\ ResultsOk(a)
      /\ a.pre.digested
  BY DEF AttemptOk
<1>2. /\ AttemptError(a) = None
      /\ \A result \in ToSet(a.results) : BackendState(result) = "pass"
  BY <1>1, BatchPasses
<1>3. a.pre = a.post /\ TargetError(a.pre) = None
  BY <1>2, Constants, WordsAre DEF AttemptError
<1>4. /\ a.pre \in Snapshots /\ a.pre.backends \in Seq(Backends)
      /\ a.results \in Seq(Results)
  BY DEF Attempts, Snapshots
<1>5. /\ a.pre.joined /\ Len(a.pre.backends) \in 1 .. MaxBackends
      /\ \A i \in DOMAIN a.pre.backends : BackendError(a.pre.backends[i]) = None
  BY <1>3, <1>4, TargetErrorNone
<1>6. \A i \in DOMAIN a.pre.backends : a.pre.backends[i] \in Backends
  BY <1>4
<1>7. \A i \in DOMAIN a.pre.backends :
        /\ a.pre.backends[i].bound
        /\ a.pre.backends[i].image = "delivered"
        /\ a.pre.backends[i].imageId = "delivered"
        /\ a.pre.backends[i] = Backend(a.pre.backends[i].pod)
  BY <1>5, <1>6, BackendErrorNone
<1>8. /\ [i \in DOMAIN a.results |-> a.results[i].pod]
           = [i \in DOMAIN a.pre.backends |-> a.pre.backends[i].pod]
      /\ \A result \in ToSet(a.results) : result.state = BackendState(result)
  BY <1>1, <1>2 DEF ResultsOk, Pods
<1>9. DOMAIN a.results = DOMAIN a.pre.backends
  BY <1>8
<1>10. Len(a.results) = Len(a.pre.backends)
  BY <1>4, <1>9
<1>11. \A i \in DOMAIN a.results :
         /\ a.results[i].state = "pass" /\ BackendState(a.results[i]) = "pass"
         /\ a.results[i] \in Results
  BY <1>2, <1>4, <1>8 DEF ToSet
<1>12. \A i \in DOMAIN a.results :
         a.results[i].error = None /\ a.results[i].response /\ a.results[i].oracle
  BY <1>11, BackendPasses
<1> QED
  BY <1>1, <1>2, <1>3, <1>4, <1>5, <1>6, <1>7, <1>10, <1>11, <1>12

LEMMA DriftRefused ==
    ASSUME NEW a, NEW subject, a.code = None, a.pre # a.post
    PROVE  ~AttemptOk(a, subject)
BY Constants, WordsAre DEF AttemptOk, AttemptError

LEMMA BadBackendRefused ==
    ASSUME NEW a \in Attempts, NEW subject, a.code = None,
           NEW i \in DOMAIN a.pre.backends, BackendError(a.pre.backends[i]) # None
    PROVE  ~AttemptOk(a, subject)
<1>1. a.pre \in Snapshots
  BY DEF Attempts
<1>2. TargetError(a.pre) # None
  BY <1>1, TargetErrorNone
<1> QED
  BY <1>2, Constants, WordsAre DEF AttemptOk, AttemptError

LEMMA SnapshotsRefused ==
    ASSUME NEW a \in Attempts, NEW subject, AttemptOk(a, subject), a.state = "pass",
           NEW b \in ForgedSnapshots(a)
    PROVE  ~AttemptOk(b, subject)
<1> DEFINE first == a.pre.backends[1]
<1>1. /\ a.code = None /\ a.pre = a.post /\ a.pre \in Snapshots
      /\ a.pre.joined /\ a.pre.digested /\ a.pre.backends \in Seq(Backends)
      /\ 1 \in DOMAIN a.pre.backends
      /\ first \in Backends /\ first.bound
      /\ first.image = "delivered" /\ first.imageId = "delivered"
  BY PassingAttemptIs, Constants DEF Snapshots
<1>2. b \in Attempts
  BY SnapshotTypes
<1>3. CASE b = [a EXCEPT !.pre.joined = FALSE]
  <2>1. b.code = None /\ ~b.pre.joined /\ b.post.joined
    BY <1>1, <1>3 DEF Attempts, Snapshots
  <2> QED
    BY <2>1, DriftRefused
<1>4. CASE b = [a EXCEPT !.pre.backends[1].bound = FALSE]
  <2>1. b.code = None /\ ~b.pre.backends[1].bound /\ b.post.backends[1].bound
    BY <1>1, <1>4 DEF Attempts, Snapshots, Backends
  <2> QED
    BY <2>1, DriftRefused
<1>5. CASE b = [a EXCEPT !.pre.backends[1].bound = FALSE,
                         !.post.backends[1].bound = FALSE]
  <2>1. /\ b.code = None /\ 1 \in DOMAIN b.pre.backends
        /\ ~b.pre.backends[1].bound /\ b.pre.backends[1].image = "delivered"
        /\ b.pre.backends[1].imageId = "delivered"
    BY <1>1, <1>5 DEF Attempts, Snapshots, Backends
  <2>2. BackendError(b.pre.backends[1]) # None
    BY <2>1, Constants, WordsAre DEF BackendError
  <2> QED
    BY <1>2, <2>1, <2>2, BadBackendRefused
<1>6. CASE b = [a EXCEPT !.pre.backends[1].imageId = "invalid",
                         !.post.backends[1].imageId = "invalid"]
  <2>1. /\ b.code = None /\ 1 \in DOMAIN b.pre.backends
        /\ b.pre.backends[1].image = "delivered"
        /\ b.pre.backends[1].imageId = "invalid"
    BY <1>1, <1>6 DEF Attempts, Snapshots, Backends
  <2>2. BackendError(b.pre.backends[1]) # None
    BY <2>1, Constants, WordsAre DEF BackendError
  <2> QED
    BY <1>2, <2>1, <2>2, BadBackendRefused
<1>7. CASE b = [a EXCEPT !.post.joined = FALSE]
  <2>1. b.code = None /\ b.pre.joined /\ ~b.post.joined
    BY <1>1, <1>7 DEF Attempts, Snapshots
  <2> QED
    BY <2>1, DriftRefused
<1>8. CASE b = [a EXCEPT !.post.digested = FALSE]
  <2>1. ~b.post.digested
    BY <1>1, <1>8 DEF Attempts, Snapshots
  <2> QED
    BY <2>1 DEF AttemptOk
<1>9. CASE b = [a EXCEPT !.pre.backends[1].image = "foreign", !.pre.digested = FALSE]
  <2>1. ~b.pre.digested
    BY <1>1, <1>9 DEF Attempts, Snapshots
  <2> QED
    BY <2>1 DEF AttemptOk
<1> QED
  BY <1>3, <1>4, <1>5, <1>6, <1>7, <1>8, <1>9 DEF ForgedSnapshots

LEMMA ResultsRefused ==
    ASSUME NEW a \in Attempts, NEW subject, AttemptOk(a, subject), a.state = "pass",
           NEW b \in ForgedResults(a)
    PROVE  ~AttemptOk(b, subject)
<1> DEFINE first == a.results[1]
<1>1. /\ AttemptError(a) = None /\ Len(a.pre.backends) >= 1
      /\ 1 \in DOMAIN a.pre.backends /\ a.results \in Seq(Results)
      /\ 1 \in DOMAIN a.results /\ first \in Results
      /\ first.state = "pass" /\ first.error = None
  <2>1. a.pre.backends \in Seq(Backends)
    BY DEF Attempts, Snapshots
  <2> QED
    BY <2>1, PassingAttemptIs, Constants
<1>2. b.pre = a.pre /\ b.post = a.post
  BY DEF ForgedResults, Attempts
<1>3. AttemptError(b) = None
  BY <1>1, <1>2 DEF AttemptError
<1>4. CASE b = [a EXCEPT !.results = <<>>]
  <2>1. b.results = <<>>
    BY <1>4 DEF Attempts
  <2>2. [i \in DOMAIN b.results |-> b.results[i].pod] # Pods(b.pre)
    BY <1>1, <1>2, <2>1 DEF Pods
  <2> QED
    BY <1>3, <2>2 DEF AttemptOk, ResultsOk
<1>5. CASE b # [a EXCEPT !.results = <<>>]
  <2>1. /\ b.results[1] \in ToSet(b.results)
        /\ \/ b.results[1].late
           \/ /\ b.results[1].state = "pass" /\ b.results[1].error = None
              /\ ~(b.results[1].response /\ b.results[1].oracle)
    BY <1>1, <1>5 DEF ForgedResults, Attempts, Results, ToSet
  <2>2. b.results[1].late \/ b.results[1].state # BackendState(b.results[1])
    BY <2>1, Constants, WordsAre DEF BackendState
  <2> QED
    BY <1>3, <2>1, <2>2 DEF AttemptOk, ResultsOk
<1> QED
  BY <1>4, <1>5

-----------------------------------------------------------------------------
(* The verifier's steps keep their types.                                  *)

\* The record of a run that goes on: its conditions come in the profile's order
\* and only the last of them may be open.
InRun ==
    /\ record \in [conditions : Seq(Conditions)]
    /\ Len(record.conditions) \in 1 .. Len(Descriptors)
    /\ \A i \in DOMAIN record.conditions :
         /\ record.conditions[i].id = i
         /\ record.conditions[i].path = Descriptors[i]
         /\ record.conditions[i].termination = None => i = Len(record.conditions)
         /\ \/ record.conditions[i].state \in States
            \/ /\ record.conditions[i].termination = None
               /\ record.conditions[i].attempts = <<>>

AttemptsBegun == [started : Subject.issued .. Subject.deadline, pre : Targets]

\* A subject with the run's times, or one that comes too late.
Dated(subject) ==
    \/ subject.issued = Subject.issued /\ subject.deadline = Subject.deadline
    \/ subject.issued > subject.observed + Fresh

TypeInv ==
    /\ clock \in Subject.issued .. Subject.deadline
    /\ target \in Targets
    /\ attempt # None => attempt \in AttemptsBegun /\ Probing
    /\ forgeries # None => forgeries \in 0 .. MaxForgeries
    /\ forgeries = None => InRun
    /\ forgeries # None => record \in Records /\ Dated(record.subject)

LEMMA SubjectIs ==
    /\ Subject \in Subjects /\ Subject.issued = Fresh
    /\ Subject.deadline = Fresh + RunLimit /\ Subject.expiry = Fresh + RunLimit + 2
    /\ Subject.issued \in Nat /\ Subject.deadline \in Nat
    /\ Subject.issued < Subject.deadline
BY Constants, WordsAre DEF Subject, Subjects

LEMMA RunAttemptType ==
    ASSUME NEW rec, rec.conditions \in Seq(Conditions), Probed(rec) # {}
    PROVE  /\ FirstAttempt(rec) \in Attempts /\ LastAttempt(rec) \in Attempts
           /\ Min(Probed(rec)) \in Probed(rec) /\ Max(Probed(rec)) \in Probed(rec)
           /\ \A c \in Probed(rec) : Min(Probed(rec)) <= c /\ c <= Max(Probed(rec))
<1>1. Probed(rec) \subseteq 1 .. Len(rec.conditions) /\ Len(rec.conditions) \in Nat
  BY DEF Probed
<1>2. /\ Min(Probed(rec)) \in Probed(rec)
      /\ \A c \in Probed(rec) : Min(Probed(rec)) <= c
  BY <1>1, MinIs
<1>3. /\ Max(Probed(rec)) \in Probed(rec)
      /\ \A c \in Probed(rec) : c <= Max(Probed(rec))
  <2>1. Probed(rec) \subseteq 0 .. Len(rec.conditions)
    BY <1>1
  <2> QED
    BY <1>1, <2>1, MaxIs
<1>4. \A c \in Probed(rec) : /\ rec.conditions[c].attempts \in Seq(Attempts)
                             /\ rec.conditions[c].attempts # <<>>
  <2>1. \A c \in Probed(rec) : /\ rec.conditions[c] \in Conditions
                               /\ rec.conditions[c].attempts # <<>>
    BY DEF Probed
  <2> QED
    BY <2>1 DEF Conditions
<1>5. \A s \in Seq(Attempts) : s # <<>> => Head(s) \in Attempts /\ Last(s) \in Attempts
  BY DEF Last
<1> QED
  BY <1>2, <1>3, <1>4, <1>5 DEF FirstAttempt, LastAttempt

LEMMA CurrentIs ==
    ASSUME InRun
    PROVE  /\ record.conditions \in Seq(Conditions)
           /\ Len(record.conditions) \in 1 .. 2 + Contracts
           /\ Len(record.conditions) \in DOMAIN record.conditions
           /\ Current = record.conditions[Len(record.conditions)]
           /\ Current \in Conditions /\ Current.attempts \in Seq(Attempts)
           /\ Number \in Nat
<1>1. /\ record.conditions \in Seq(Conditions)
      /\ Len(record.conditions) \in 1 .. 2 + Contracts
  BY DescriptorsAre DEF InRun
<1>2. /\ Len(record.conditions) \in DOMAIN record.conditions
      /\ Current = record.conditions[Len(record.conditions)]
      /\ Current \in Conditions
  BY <1>1 DEF Current, Last
<1>3. Current.attempts \in Seq(Attempts)
  BY <1>2 DEF Conditions
<1>4. Number \in Nat
  BY <1>1, RunAttemptType DEF Number, Attempts
<1> QED
  BY <1>1, <1>2, <1>3, <1>4

\* How the verifier describes a condition after its attempts.
LEMMA ConclusionIs ==
    ASSUME InRun, NEW attempts \in Seq(Attempts)
    PROVE  LET now == Conclusion(attempts)
               others == {a.state : a \in ToSet(attempts)} \ {"pass"}
           IN /\ now \in Conditions
              /\ now.id = Current.id /\ now.path = Current.path
              /\ now.attempts = attempts /\ now.termination = Ending(attempts)
              /\ now.state = IF Ending(attempts) = "condition-satisfied" THEN "pass"
                             ELSE StateFrom(others)
              /\ now.state \in States
              /\ now.achieved = Max({0} \cup {n \in 1 .. Passes :
                       \E k \in 0 .. Len(attempts) - n :
                          \A i \in 1 .. n : attempts[k + i].state = "pass"})
              /\ now.achieved \in 0 .. Passes
<1> DEFINE others == {a.state : a \in ToSet(attempts)} \ {"pass"}
           state == IF Ending(attempts) = "condition-satisfied" THEN "pass"
                    ELSE IF others = {} THEN "inconclusive" ELSE Worst(others)
           rows == {0} \cup {n \in 1 .. Passes :
                       \E k \in 0 .. Len(attempts) - n :
                          \A i \in 1 .. n : attempts[k + i].state = "pass"}
<1>1. Current \in Conditions
  BY CurrentIs
<1>2. Conclusion(attempts) =
        [Current EXCEPT !.attempts = attempts, !.termination = Ending(attempts),
                        !.state = state, !.achieved = Max(rows)]
  BY DEF Conclusion
<1>3. others \subseteq States
  <2>1. \A a \in ToSet(attempts) : a \in Attempts
    BY DEF ToSet
  <2> QED
    BY <2>1 DEF Attempts
<1>4. /\ state = IF Ending(attempts) = "condition-satisfied" THEN "pass"
                 ELSE StateFrom(others)
      /\ state \in States
  BY <1>3, StateFromIs, StateFromType DEF StateFrom, States
<1>5. Max(rows) \in 0 .. Passes
  <2>1. rows \subseteq 0 .. Passes /\ rows # {}
    BY Constants
  <2> HIDE DEF rows
  <2> QED
    BY <2>1, MaxIs, Constants
<1>6. Ending(attempts) \in Said
  BY WordsAre DEF Ending, Said
<1> HIDE DEF state, rows
<1>7. state \in Said /\ Max(rows) \in Nat
  <2>1. States \subseteq Said
    BY WordsAre DEF States, Said
  <2> QED
    BY <1>4, <1>5, <2>1, Constants
<1>8. /\ Conclusion(attempts) \in Conditions
      /\ Conclusion(attempts).id = Current.id
      /\ Conclusion(attempts).path = Current.path
      /\ Conclusion(attempts).attempts = attempts
      /\ Conclusion(attempts).termination = Ending(attempts)
      /\ Conclusion(attempts).state = state
      /\ Conclusion(attempts).achieved = Max(rows)
  BY <1>1, <1>2, <1>6, <1>7 DEF Conditions
<1> QED
  BY <1>4, <1>5, <1>8 DEF rows

\* What the record keeps when its current condition goes on.
LEMMA ConcludedIs ==
    ASSUME InRun, NEW attempts \in Seq(Attempts)
    PROVE  LET new == Concluded(attempts)
               n == Len(record.conditions)
           IN /\ new \in [conditions : Seq(Conditions)]
              /\ Len(new.conditions) = n
              /\ DOMAIN new.conditions = DOMAIN record.conditions
              /\ new.conditions[n] = Conclusion(attempts)
              /\ \A i \in DOMAIN record.conditions : i # n =>
                    new.conditions[i] = record.conditions[i]
<1> DEFINE n == Len(record.conditions)
           now == Conclusion(attempts)
<1>1. now \in Conditions
  BY ConclusionIs
<1> HIDE DEF now
<1>2. record.conditions \in Seq(Conditions) /\ n \in 1 .. Len(record.conditions)
  BY CurrentIs
<1>3. /\ [record.conditions EXCEPT ![n] = now] \in Seq(Conditions)
      /\ Len([record.conditions EXCEPT ![n] = now]) = n
      /\ \A i \in 1 .. n : [record.conditions EXCEPT ![n] = now][i] =
            IF i = n THEN now ELSE record.conditions[i]
  BY <1>1, <1>2, ExceptSeq
<1>4. Concluded(attempts).conditions = [record.conditions EXCEPT ![n] = now]
      /\ Concluded(attempts) \in [conditions : Seq(Conditions)]
  BY <1>3 DEF Concluded, now, InRun
<1> QED
  BY <1>2, <1>3, <1>4 DEF now

LEMMA TargetErrorType ==
    ASSUME NEW snapshot \in Snapshots
    PROVE  TargetError(snapshot) \in Said
<1> DEFINE front == <<IF snapshot.joined THEN None ELSE "invalid",
                      SizeError(snapshot), OrderError(snapshot)>>
           back == [i \in DOMAIN snapshot.backends |->
                      BackendError(snapshot.backends[i])]
           found == front \o back
           errors == {i \in DOMAIN found : found[i] # None}
<1>1. front \in Seq(Said)
  BY WordsAre DEF SizeError, OrderError, Said
<1>2. back \in Seq(Said)
  <2>1. snapshot.backends \in Seq(Backends)
    BY DEF Snapshots
  <2>2. \A i \in DOMAIN snapshot.backends : BackendError(snapshot.backends[i]) \in Said
    BY WordsAre DEF BackendError, Said
  <2> QED
    BY <2>1, <2>2
<1> HIDE DEF front, back
<1>3. found \in Seq(Said)
  BY <1>1, <1>2, ConcatProperties, Zenon
<1>4. TargetError(snapshot) = IF errors = {} THEN None ELSE found[Max(errors)]
  BY DEF TargetError, front, back
<1>5. errors # {} => Max(errors) \in DOMAIN found
  <2>1. errors \subseteq 0 .. Len(found) /\ Len(found) \in Nat
    BY <1>3
  <2>2. errors # {} => Max(errors) \in errors
    BY <2>1, MaxIs
  <2> QED
    BY <2>2
<1>6. \A i \in DOMAIN found : found[i] \in Said
  BY <1>3
<1> HIDE DEF found, errors
<1> QED
  BY <1>4, <1>5, <1>6 DEF Said

LEMMA AnswerIs ==
    ASSUME NEW pod \in Nat \cup {None}, NEW state \in States
    PROVE  /\ Answer(pod, state) \in Results
           /\ Answer(pod, state).pod = pod /\ Answer(pod, state).state = state
           /\ ~Answer(pod, state).late
           /\ BackendState(Answer(pod, state)) = state
<1>1. Answer(pod, state) \in Results
  BY WordsAre DEF Answer, Results, Said, States
<1>2. /\ Answer(pod, state).pod = pod /\ Answer(pod, state).state = state
      /\ ~Answer(pod, state).late
  BY DEF Answer
<1>3. BackendState(Answer(pod, state)) = state
  <2>1. None # "timeout" /\ None # "run-deadline"
    BY Constants, WordsAre
  <2>2. CASE state = "pass"
    BY <2>1, <2>2 DEF Answer, BackendState
  <2>3. CASE state = "fail"
    BY <2>1, <2>3 DEF Answer, BackendState
  <2>4. CASE state = "probe-error"
    BY <2>1, <2>4 DEF Answer, BackendState
  <2>5. CASE state = "inconclusive"
    BY <2>1, <2>5 DEF Answer, BackendState
  <2> QED
    BY <2>2, <2>3, <2>4, <2>5 DEF States
<1> QED
  BY <1>1, <1>2, <1>3

\* An attempt as the verifier ends it is one that the script accepts, its times
\* apart; and before the deadline no backend leaves it open.
LEMMA EndedIs ==
    ASSUME TypeInv, attempt # None, clock > attempt.started,
           NEW ended \in IF Outcome = None THEN Answered ELSE Unprobed
    PROVE  /\ ended \in Attempts
           /\ ended.id = Number /\ ended.ordinal = Len(Current.attempts) + 1
           /\ ended.started = attempt.started /\ ended.completed = clock
           /\ ended.duration = clock - attempt.started
           /\ ended.pre.digested /\ ended.post.digested
           /\ ended.code = AttemptError(ended)
           /\ ResultsOk(ended) /\ ended.state = BatchState(ended)
           /\ clock < Subject.deadline => ended.state # "inconclusive"
<1>1. /\ attempt \in AttemptsBegun /\ InRun /\ clock \in Nat /\ attempt.started \in Nat
      /\ attempt.pre \in Snapshots /\ target \in Snapshots
      /\ attempt.pre.digested /\ target.digested
      /\ clock - attempt.started \in Nat
  <2>1. attempt \in AttemptsBegun /\ InRun /\ target \in Targets
    BY DEF TypeInv, Probing
  <2>2. clock \in Nat /\ attempt.started \in Nat /\ attempt.pre \in Targets
    BY <2>1, SubjectIs DEF TypeInv, AttemptsBegun
  <2> QED
    BY <2>1, <2>2, TargetsAre
<1>2. /\ Number \in Nat /\ Len(Current.attempts) + 1 \in Nat
  BY <1>1, CurrentIs
<1>3. Outcome \in Said
  BY <1>1, TargetErrorType, WordsAre DEF Outcome, Said
<1>4. ASSUME NEW results \in Seq(Results), NEW state \in States
      PROVE  LET e == Ended(results, state) IN
             /\ e \in Attempts
             /\ e.id = Number /\ e.ordinal = Len(Current.attempts) + 1
             /\ e.started = attempt.started /\ e.completed = clock
             /\ e.duration = clock - attempt.started
             /\ e.pre = attempt.pre /\ e.post = target
             /\ e.code = Outcome /\ e.results = results /\ e.state = state
             /\ AttemptError(e) = Outcome
  BY <1>1, <1>2, <1>3 DEF Ended, Attempts, AttemptError, Outcome
<1>5. CASE Outcome # None
  <2>1. /\ <<>> \in Seq(Results) /\ "probe-error" \in States
        /\ ended = Ended(<<>>, "probe-error")
    BY <1>5 DEF Unprobed, States
  <2>2. /\ ended.code = Outcome /\ ended.results = <<>> /\ ended.state = "probe-error"
        /\ AttemptError(ended) = Outcome
    BY <1>4, <2>1
  <2>3. ResultsOk(ended) /\ BatchState(ended) = "probe-error"
    BY <1>5, <2>2 DEF ResultsOk, BatchState
  <2> QED
    BY <1>1, <1>4, <2>1, <2>2, <2>3
<1>6. CASE Outcome = None
  <2>1. attempt.pre = target /\ TargetError(target) = None
    BY <1>6, Constants, WordsAre DEF Outcome
  <2>2. target.backends \in Seq(Backends) /\ Len(target.backends) >= 1
    BY <1>1, <2>1, TargetErrorNone, Constants DEF Snapshots
  <2>3. PossibleAnswers \subseteq States
        /\ (clock < Subject.deadline => "inconclusive" \notin PossibleAnswers)
    BY <1>1, SubjectIs DEF PossibleAnswers, States
  <2>4. PICK states \in [DOMAIN target.backends -> PossibleAnswers] :
          ended = Ended([i \in DOMAIN states |-> Answer(Pods(target)[i], states[i])],
                        Worst(Range(states)))
    BY <1>6 DEF Answered
  <2> DEFINE results == [i \in DOMAIN states |-> Answer(Pods(target)[i], states[i])]
  <2>5. ASSUME NEW i \in DOMAIN states
        PROVE  /\ states[i] \in States /\ results[i] \in Results
               /\ results[i].pod = Pods(target)[i] /\ ~results[i].late
               /\ results[i].state = states[i] /\ BackendState(results[i]) = states[i]
    <3>1. states[i] \in PossibleAnswers /\ i \in DOMAIN target.backends
      BY <2>4
    <3>2. Pods(target)[i] \in Nat \cup {None}
      <4>1. target.backends[i] \in Backends
        BY <2>2, <3>1
      <4>2. target.backends[i].pod \in Nat \cup {None}
        BY <4>1 DEF Backends
      <4> QED
        BY <3>1, <4>2 DEF Pods
    <3> QED
      BY <2>3, <3>1, <3>2, AnswerIs, ZenonT(40)
  <2>6. results \in Seq(Results)
    BY <2>2, <2>5
  <2>7. /\ Range(states) \subseteq PossibleAnswers /\ Range(states) \subseteq States
        /\ Range(states) # {}
    <3>1. Range(states) \subseteq PossibleAnswers
      BY DEF Range
    <3>2. 1 \in DOMAIN states
      BY <2>2
    <3>3. states[1] \in Range(states)
      BY <3>2 DEF Range
    <3> QED
      BY <2>3, <3>1, <3>3
  <2>8. /\ Worst(Range(states)) = StateFrom(Range(states))
        /\ Worst(Range(states)) \in Range(states)
        /\ Worst(Range(states)) \in States
    BY <2>7, StateFromIs
  <2>9. {BackendState(result) : result \in ToSet(results)} = Range(states)
    BY <2>5 DEF ToSet, Range
  <2> HIDE DEF results
  <2>10. /\ ended = Ended(results, Worst(Range(states)))
         /\ DOMAIN results = DOMAIN target.backends
    BY <2>4 DEF results
  <2>11. /\ ended.code = Outcome /\ ended.results = results /\ ended.pre = target
         /\ ended.state = Worst(Range(states))
         /\ AttemptError(ended) = Outcome
    BY <1>4, <2>1, <2>6, <2>8, <2>10
  <2>12. BatchState(ended) = ended.state
    BY <1>6, <2>8, <2>9, <2>11 DEF BatchState
  <2>13. ResultsOk(ended)
    <3>1. [i \in DOMAIN results |-> results[i].pod] = Pods(target)
      BY <2>5, <2>10 DEF Pods, results
    <3>2. \A result \in ToSet(results) :
            ~result.late /\ result.state = BackendState(result)
      BY <2>5, <2>10 DEF ToSet
    <3> QED
      BY <1>6, <2>11, <3>1, <3>2 DEF ResultsOk
  <2>14. clock < Subject.deadline => ended.state # "inconclusive"
    BY <2>3, <2>7, <2>8, <2>11
  <2> QED
    BY <1>1, <1>4, <2>6, <2>8, <2>10, <2>11, <2>12, <2>13, <2>14
<1> QED
  BY <1>5, <1>6

\* Forging a record leaves the subject's times alone, or makes them too late.
LEMMA DatesKept ==
    ASSUME NEW rec \in Records, Dated(rec.subject), NEW forged \in Forgeries(rec)
    PROVE  Dated(forged.subject)
<1>1. ASSUME NEW r \in Records PROVE Resigned(r).subject = r.subject
  BY DEF Resigned, Records
<1>2. ASSUME NEW f \in ForgedSignatures(rec) PROVE f.subject = rec.subject
  BY DEF ForgedSignatures, Records
<1>3. \A p \in PassingAttempts(rec) : p \in Places(rec)
  BY DEF PassingAttempts
<1>4. \A c, condition : Rewritten(rec, c, condition).subject = rec.subject
  BY DEF Rewritten, Records
<1>5. \A p, a : Replaced(rec, p, a).subject = rec.subject
  BY DEF Replaced, Records
<1>6. ASSUME NEW f \in ForgedAttempts(rec) PROVE f.subject = rec.subject
  BY <1>5 DEF ForgedAttempts
<1>7. ASSUME NEW f \in ForgedOrder(rec) PROVE f.subject = rec.subject
  BY <1>5 DEF ForgedOrder
<1>8. ASSUME NEW f \in ForgedConditions(rec) PROVE f.subject = rec.subject
  <2>1. \A r \in Records : \A n : [r EXCEPT !.completed = n].subject = r.subject
    BY DEF Records
  <2>2. Satisfied(rec) \subseteq Probed(rec)
    BY DEF Satisfied
  <2>3. ASSUME NEW c \in Satisfied(rec) PROVE Prolonged(rec, c).subject = rec.subject
    <3> DEFINE further == Further(rec, Last(rec.conditions[c].attempts))
               mid == Rewritten(rec, c, Continued(rec.conditions[c], further))
    <3>1. mid \in Records /\ mid.subject = rec.subject
      <4>1. c \in DOMAIN rec.conditions /\ c \in Probed(rec)
        BY <2>2, ProbedIs
      <4>2. Continued(rec.conditions[c], further) \in Conditions
        BY <4>1, ContinuedIs
      <4> QED
        BY <4>1, <4>2, RewrittenIs
    <3> HIDE DEF mid
    <3>2. [mid EXCEPT !.completed = further.completed].subject = rec.subject
      BY <2>1, <3>1
    <3> QED
      BY <3>2 DEF mid, Prolonged
  <2> QED
    BY <1>4, <1>5, <1>8, <2>3 DEF ForgedConditions, Interrupted
<1>9. ASSUME NEW f \in ForgedDeadline(rec) PROVE f.subject = rec.subject
  <2>1. 1 \in Probed(rec)
    BY <1>3, <1>9, PlaceIs, SMTT(40) DEF ForgedDeadline
  <2> DEFINE mid == Rewritten(rec, 1, AtDeadline(rec.conditions[1]))
  <2>2. mid \in Records
    BY <2>1, AtDeadlineIs, ProbedIs, RewrittenIs
  <2>3. f = [mid EXCEPT !.paths[1] = "fail", !.aggregate = "fail", !.satisfied = FALSE,
                        !.completed = rec.subject.deadline]
    BY <1>9 DEF ForgedDeadline
  <2>4. mid.subject = rec.subject
    BY <1>4
  <2> HIDE DEF mid
  <2>5. f.subject = mid.subject
    BY <2>2, <2>3 DEF Records
  <2> QED
    BY <2>4, <2>5
<1>10. ASSUME NEW f \in ForgedPass(rec) PROVE f.subject = rec.subject
  <2>1. PICK c \in Probed(rec) :
          f = [Rewritten(rec, c, Relabelled(rec.conditions[c])) EXCEPT
                 !.paths = [i \in DOMAIN PathConditions |-> "pass"],
                 !.aggregate = "pass", !.satisfied = TRUE]
    BY <1>10 DEF ForgedPass
  <2> QED
    BY <2>1, RelabelledIs
<1>11. ASSUME NEW f \in ForgedBinding(rec) PROVE Dated(f.subject)
  <2>1. rec.subject \in Subjects
    BY DEF Records
  <2>2. CASE f = [rec EXCEPT !.subject.issued = rec.subject.observed + Fresh + 1,
                    !.subject.deadline = rec.subject.observed + Fresh + 1 + RunLimit]
    <3>1. /\ f.subject.issued = rec.subject.observed + Fresh + 1
          /\ f.subject.observed = rec.subject.observed
      BY <2>1, <2>2 DEF Records, Subjects
    <3> QED
      BY <2>1, <3>1, Constants DEF Dated, Subjects
  <2>3. CASE f \in {[rec EXCEPT !.subject.profile = "other"],
                    [rec EXCEPT !.subject.commit = "other"]}
    <3>1. /\ f.subject.issued = rec.subject.issued
          /\ f.subject.deadline = rec.subject.deadline
          /\ f.subject.observed = rec.subject.observed
      BY <2>1, <2>3 DEF Records, Subjects
    <3> QED
      BY <3>1 DEF Dated
  <2>4. CASE f.subject = rec.subject
    BY <2>4
  <2>5. \/ f \in {[rec EXCEPT !.run = "other"], [rec EXCEPT !.order = "other"],
                  [rec EXCEPT !.expires = rec.completed],
                  [rec EXCEPT !.conditions = <<rec.conditions[2], rec.conditions[1]>>
                     \o SubSeq(rec.conditions, 3, Len(rec.conditions))]}
           => f.subject = rec.subject
    BY DEF Records
  <2> QED
    BY <1>11, <2>2, <2>3, <2>4, <2>5 DEF ForgedBinding
<1>12. ASSUME NEW r \in Records, Dated(r.subject) PROVE Dated(Resigned(r).subject)
  BY <1>1, <1>12
<1>13. ForgedConditions(rec) \cup ForgedDeadline(rec) \cup ForgedPass(rec) \subseteq Records
  <2>1. Satisfied(rec) \subseteq Probed(rec)
    BY DEF Satisfied
  <2>2. \A p \in PassingAttempts(rec) : p = <<1, 1>> => 1 \in Probed(rec)
    BY PlaceIs DEF PassingAttempts
  <2>3. ForgedConditions(rec) \subseteq Records
    BY <2>1, ReplacedTypes, CutIs, ContinuedIs, SMTT(40) DEF ForgedConditions
  <2>4. ForgedDeadline(rec) \subseteq Records
    BY <2>2, AtDeadlineIs DEF ForgedDeadline
  <2>5. ForgedPass(rec) \subseteq Records
    BY RelabelledIs, ZenonT(40) DEF ForgedPass
  <2> QED
    BY <2>3, <2>4, <2>5
<1> QED
  BY <1>2, <1>6, <1>7, <1>8, <1>9, <1>10, <1>11, <1>12, <1>13, ReplacedTypes,
     BindingTypes DEF Forgeries

LEMMA TypeInit == Init => TypeInv
<1> SUFFICES ASSUME Init PROVE TypeInv
  OBVIOUS
<1>1. /\ clock = Subject.issued /\ target = Situation("stable") /\ attempt = None
      /\ forgeries = None /\ record = [conditions |-> <<NewCondition(1)>>]
  BY DEF Init
<1>2. NewCondition(1) \in Conditions
  BY DescriptorsAre, Constants, WordsAre DEF NewCondition, Conditions, Said
<1>3. <<NewCondition(1)>> \in Seq(Conditions) /\ Len(<<NewCondition(1)>>) = 1
  BY <1>2
<1>4. InRun
  <2>1. record.conditions = <<NewCondition(1)>>
        /\ record \in [conditions : Seq(Conditions)]
    BY <1>1, <1>3
  <2>2. Len(record.conditions) \in 1 .. Len(Descriptors)
    BY <1>3, <2>1, DescriptorsAre, Constants
  <2>3. ASSUME NEW i \in DOMAIN record.conditions
        PROVE  i = 1 /\ record.conditions[i] = NewCondition(1)
    BY <1>3, <2>1
  <2>4. Len(record.conditions) = 1
    BY <1>3, <2>1
  <2> QED
    BY <2>1, <2>2, <2>3, <2>4 DEF InRun, NewCondition
<1> QED
  BY <1>1, <1>4, SubjectIs, TargetsAre DEF TypeInv

\* The current condition goes on with more attempts or with its end.
LEMMA ConcludedInRun ==
    ASSUME InRun, NEW attempts \in Seq(Attempts), record' = Concluded(attempts)
    PROVE  InRun'
<1> DEFINE n == Len(record.conditions)
<1>1. /\ record' \in [conditions : Seq(Conditions)]
      /\ Len(record'.conditions) = n
      /\ DOMAIN record'.conditions = DOMAIN record.conditions
      /\ record'.conditions[n] = Conclusion(attempts)
      /\ \A i \in DOMAIN record.conditions : i # n =>
            record'.conditions[i] = record.conditions[i]
  BY ConcludedIs
<1>2. /\ Conclusion(attempts).id = Current.id
      /\ Conclusion(attempts).path = Current.path
      /\ Conclusion(attempts).state \in States
  BY ConclusionIs
<1>3. Current = record.conditions[n] /\ n \in DOMAIN record.conditions
  BY CurrentIs
<1>4. Current.id = n /\ Current.path = Descriptors[n]
  BY <1>3 DEF InRun
<1>5. ASSUME NEW i \in DOMAIN record'.conditions
      PROVE  /\ record'.conditions[i].id = i
             /\ record'.conditions[i].path = Descriptors[i]
             /\ record'.conditions[i].termination = None => i = Len(record'.conditions)
             /\ \/ record'.conditions[i].state \in States
                \/ /\ record'.conditions[i].termination = None
                   /\ record'.conditions[i].attempts = <<>>
  <2>1. CASE i = n
    BY <1>1, <1>2, <1>4, <2>1
  <2>2. CASE i # n
    BY <1>1, <2>2 DEF InRun
  <2> QED
    BY <2>1, <2>2
<1> QED
  BY <1>1, <1>5 DEF InRun

\* What the verifier signs is a record.
LEMMA SignedIs ==
    ASSUME TypeInv, Sign
    PROVE  /\ record' \in Records /\ record'.conditions = record.conditions
           /\ record'.subject = Subject
           /\ record'.order = Subject.order /\ record'.run = Subject.run
           /\ record'.signer = "verifier"
           /\ record'.paths = [i \in DOMAIN PathConditions |->
                 StateFrom({c.state : c \in {d \in ToSet(record.conditions) :
                                                d.path = PathConditions[i]}})]
           /\ record'.aggregate = StateFrom(ToSet(record'.paths))
           /\ record'.satisfied = (record'.aggregate = "pass")
           /\ record'.started = IF Probed(record) = {} THEN Subject.issued
                                ELSE FirstAttempt(record).started
           /\ record'.completed =
                 IF \/ Probed(record) = {}
                    \/ \E c \in ToSet(record.conditions) : c.termination = "run-deadline"
                 THEN Subject.deadline ELSE LastAttempt(record).completed
           /\ record'.expires = Subject.deadline + 1
           /\ InRun /\ Len(record.conditions) = 2 + Contracts
           /\ \A c \in ToSet(record.conditions) : c.state \in States
<1> DEFINE conditions == record.conditions
           at(i) == {c.state : c \in {d \in ToSet(conditions) :
                                        d.path = PathConditions[i]}}
           paths == [i \in DOMAIN PathConditions |-> Worst(at(i))]
           started == IF Probed(record) = {} THEN Subject.issued
                      ELSE FirstAttempt(record).started
           completed == IF \/ Probed(record) = {}
                           \/ \E c \in ToSet(conditions) : c.termination = "run-deadline"
                        THEN Subject.deadline ELSE LastAttempt(record).completed
<1>1. /\ InRun /\ conditions \in Seq(Conditions) /\ Len(conditions) = 2 + Contracts
      /\ Current = conditions[Len(conditions)] /\ Current.termination # None
  BY CurrentIs, DescriptorsAre DEF TypeInv, Sign
<1>2. ASSUME NEW i \in DOMAIN conditions
      PROVE  conditions[i].state \in States /\ conditions[i].path = Descriptors[i]
  BY <1>1 DEF InRun
<1>3. \A c \in ToSet(conditions) : c.state \in States
  BY <1>2 DEF ToSet
<1>4. ASSUME NEW i \in 1 .. 3
      PROVE  at(i) \subseteq States /\ at(i) # {}
  <2>1. i \in DOMAIN conditions /\ Descriptors[i] = PathConditions[i]
    BY <1>1, DescriptorsAre, PathConditionsAre, Constants
  <2>2. conditions[i] \in ToSet(conditions) /\ conditions[i].path = PathConditions[i]
    BY <1>2, <2>1 DEF ToSet
  <2> QED
    BY <1>3, <2>2
<1>5. ASSUME NEW i \in 1 .. 3
      PROVE  Worst(at(i)) = StateFrom(at(i)) /\ Worst(at(i)) \in States
  <2> HIDE DEF at
  <2> QED
    BY <1>4, StateFromIs
<1>6. paths = [i \in DOMAIN PathConditions |-> StateFrom(at(i))]
      /\ paths \in [DOMAIN PathConditions -> States]
  BY <1>5, PathConditionsAre
<1>7. record' = [conditions |-> conditions, subject |-> Subject,
            order |-> Subject.order, run |-> Subject.run, signer |-> "verifier",
            paths |-> paths, aggregate |-> Worst(ToSet(paths)),
            satisfied |-> ToSet(paths) = {"pass"},
            started |-> started, completed |-> completed,
            expires |-> Subject.deadline + 1]
  BY DEF Sign
<1> HIDE DEF at
<1>8. ToSet(paths) \subseteq States /\ ToSet(paths) # {}
  BY <1>6, PathConditionsAre DEF ToSet
<1>9. started \in Nat /\ completed \in Nat
  BY <1>1, SubjectIs, RunAttemptType DEF Attempts
<1> HIDE DEF paths, started, completed
<1>10. /\ Worst(ToSet(paths)) = StateFrom(ToSet(paths))
       /\ Worst(ToSet(paths)) \in States
       /\ StateFrom(ToSet(paths)) = "pass" <=> ToSet(paths) = {"pass"}
  BY <1>8, StateFromIs
<1>11. States \subseteq Words
  BY WordsAre DEF States
<1>12. /\ paths \in [DOMAIN PathConditions -> Words]
       /\ Worst(ToSet(paths)) \in Words
       /\ (ToSet(paths) = {"pass"}) \in BOOLEAN
       /\ Subject.deadline + 1 \in Nat
       /\ conditions \in [DOMAIN Descriptors -> Conditions]
       /\ Subject \in Subjects /\ Subject.order \in Words /\ Subject.run \in Words
  <2>1. conditions \in [DOMAIN Descriptors -> Conditions]
    BY <1>1, DescriptorsAre
  <2>2. paths \in [DOMAIN PathConditions -> Words]
    BY <1>6, <1>11
  <2> QED
    BY <1>10, <1>11, <2>1, <2>2, SubjectIs DEF Subjects
<1>13. record' \in Records
  BY <1>7, <1>9, <1>12, WordsAre DEF Records
<1>14. /\ record'.conditions = conditions /\ record'.subject = Subject
       /\ record'.order = Subject.order /\ record'.run = Subject.run
       /\ record'.signer = "verifier" /\ record'.paths = paths
       /\ record'.aggregate = Worst(ToSet(paths))
       /\ record'.satisfied = (ToSet(paths) = {"pass"})
       /\ record'.started = started /\ record'.completed = completed
       /\ record'.expires = Subject.deadline + 1
  BY <1>7
<1> QED
  BY <1>1, <1>3, <1>6, <1>10, <1>13, <1>14 DEF at, started, completed

LEMMA TypeNext == TypeInv /\ [Next]_vars => TypeInv'
<1> SUFFICES ASSUME TypeInv, [Next]_vars PROVE TypeInv'
  OBVIOUS
<1>1. CASE StartAttempt
  <2>1. /\ attempt' = [started |-> clock, pre |-> target] /\ Probing
        /\ UNCHANGED <<clock, target, record, forgeries>>
    BY <1>1 DEF StartAttempt, MayStart
  <2>2. attempt' \in AttemptsBegun
    BY <2>1 DEF TypeInv, AttemptsBegun
  <2> QED
    BY <2>1, <2>2 DEF TypeInv, InRun, Probing, Current
<1>2. CASE FinishAttempt
  <2>1. PICK ended \in IF Outcome = None THEN Answered ELSE Unprobed :
          record' = Concluded(Append(Current.attempts, ended))
    BY <1>2 DEF FinishAttempt
  <2>2. /\ attempt # None /\ clock > attempt.started /\ attempt' = None
        /\ UNCHANGED <<clock, target, forgeries>>
    BY <1>2 DEF FinishAttempt
  <2>3. ended \in Attempts /\ InRun
    BY <2>1, <2>2, EndedIs DEF TypeInv, Probing
  <2>4. Append(Current.attempts, ended) \in Seq(Attempts)
    BY <2>3, CurrentIs
  <2>5. InRun'
    BY <2>1, <2>3, <2>4, ConcludedInRun
  <2> QED
    BY <2>2, <2>5 DEF TypeInv, Probing
<1>3. CASE RunOut
  <2>1. /\ record' = Concluded(Current.attempts) /\ attempt = None /\ forgeries = None
        /\ UNCHANGED <<clock, target, attempt, forgeries>>
    BY <1>3 DEF RunOut, Probing
  <2>2. InRun
    BY <2>1 DEF TypeInv
  <2>3. InRun'
    BY <2>1, <2>2, CurrentIs, ConcludedInRun
  <2> QED
    BY <2>1, <2>3 DEF TypeInv
<1>4. CASE NextCondition
  <2> DEFINE n == Len(record.conditions)
             new == NewCondition(n + 1)
  <2>1. /\ forgeries = None /\ Current.termination # None /\ n < Len(Descriptors)
        /\ record' = [record EXCEPT !.conditions = Append(record.conditions, new)]
        /\ UNCHANGED <<clock, target, attempt, forgeries>>
    BY <1>4 DEF NextCondition
  <2>2. /\ InRun /\ record.conditions \in Seq(Conditions) /\ n \in Nat
        /\ n + 1 \in DOMAIN Descriptors
        /\ Current = record.conditions[n]
    <3>1. InRun
      BY <2>1 DEF TypeInv
    <3>2. /\ record.conditions \in Seq(Conditions) /\ n \in 1 .. 2 + Contracts
          /\ Current = record.conditions[n]
      BY <3>1, CurrentIs
    <3> HIDE DEF n
    <3>3. n \in Nat /\ n + 1 \in DOMAIN Descriptors
      BY <2>1, <3>2, DescriptorsAre, Constants, SMTT(40)
    <3> QED
      BY <3>1, <3>2, <3>3
  <2>3. new \in Conditions
    BY <2>2, DescriptorsAre, WordsAre DEF NewCondition, Conditions, Said
  <2>4. attempt = None
    BY <2>1 DEF TypeInv, Probing
  <2>5. /\ Append(record.conditions, new) \in Seq(Conditions)
        /\ Len(Append(record.conditions, new)) = n + 1
        /\ DOMAIN Append(record.conditions, new) = 1 .. n + 1
        /\ Append(record.conditions, new)[n + 1] = new
        /\ \A i \in 1 .. n : Append(record.conditions, new)[i] = record.conditions[i]
    <3> HIDE DEF new
    <3> QED
      BY <2>2, <2>3, AppendProperties
  <2>6. /\ new.id = n + 1 /\ new.path = Descriptors[n + 1]
        /\ new.termination = None /\ new.attempts = <<>>
    BY DEF NewCondition
  <2> HIDE DEF new
  <2>7. /\ record' \in [conditions : Seq(Conditions)]
        /\ record'.conditions = Append(record.conditions, new)
    BY <2>1, <2>2, <2>5 DEF InRun
  <2>8. ASSUME NEW i \in DOMAIN record'.conditions
        PROVE  /\ record'.conditions[i].id = i
               /\ record'.conditions[i].path = Descriptors[i]
               /\ record'.conditions[i].termination = None
                     => i = Len(record'.conditions)
               /\ \/ record'.conditions[i].state \in States
                  \/ /\ record'.conditions[i].termination = None
                     /\ record'.conditions[i].attempts = <<>>
    <3>1. CASE i = n + 1
      BY <2>5, <2>6, <2>7, <3>1
    <3>2. CASE i # n + 1
      <4>1. i \in 1 .. n /\ record'.conditions[i] = record.conditions[i]
        BY <2>2, <2>5, <2>7, <3>2
      <4>2. record.conditions[i].termination = None => i = n
        BY <2>2, <4>1 DEF InRun
      <4> QED
        BY <2>1, <2>2, <4>1, <4>2 DEF InRun
    <3> QED
      BY <3>1, <3>2
  <2>9. Len(record'.conditions) \in 1 .. Len(Descriptors)
    BY <2>2, <2>5, <2>7, DescriptorsAre, Constants
  <2> QED
    BY <2>1, <2>4, <2>7, <2>8, <2>9 DEF TypeInv, InRun
<1>5. CASE Sign
  <2>1. /\ forgeries' = 0 /\ UNCHANGED <<clock, target, attempt>>
        /\ forgeries = None /\ Current.termination # None
    BY <1>5 DEF Sign
  <2>2. attempt = None
    BY <2>1 DEF TypeInv, Probing
  <2>3. record' \in Records /\ Dated(record'.subject)
    BY <1>5, SignedIs DEF Dated
  <2> QED
    BY <2>1, <2>2, <2>3, Constants DEF TypeInv
<1>6. CASE Tick
  <2>1. /\ clock < Subject.deadline /\ clock' = clock + 1
        /\ UNCHANGED <<attempt, record, forgeries>>
    BY <1>6 DEF Tick
  <2>2. target' \in Targets
    BY <1>6, HttpProbeAssumption DEF Tick, Targets
  <2>3. clock' \in Subject.issued .. Subject.deadline
    BY <2>1, SubjectIs DEF TypeInv
  <2> QED
    BY <2>1, <2>2, <2>3 DEF TypeInv, InRun, Probing, Current
<1>7. CASE Forge
  <2>1. /\ forgeries # None /\ forgeries < MaxForgeries /\ forgeries' = forgeries + 1
        /\ record' \in Forgeries(record) /\ UNCHANGED <<clock, target, attempt>>
    BY <1>7 DEF Forge
  <2>2. /\ forgeries' \in 0 .. MaxForgeries /\ attempt = None
        /\ record \in Records /\ Dated(record.subject)
    BY <2>1, Constants DEF TypeInv, Probing
  <2>3. record' \in Records /\ Dated(record'.subject)
    BY <2>1, <2>2, ForgeryTypes, DatesKept
  <2> QED
    BY <2>1, <2>2, <2>3, Constants DEF TypeInv
<1>8. CASE UNCHANGED vars
  BY <1>8 DEF vars, TypeInv, InRun, Probing, Current
<1> QED
  BY <1>1, <1>2, <1>3, <1>4, <1>5, <1>6, <1>7, <1>8 DEF Next

LEMMA TypeCorrect == Spec => []TypeInv
BY TypeInit, TypeNext, PTL DEF Spec

-----------------------------------------------------------------------------
(* What a record accepted as satisfied shows.                              *)

\* The reductions, from the record down to its conditions.
LEMMA EveryConditionPasses ==
    ASSUME NEW rec \in Records, Aggregate(rec) = "pass",
           NEW c \in DOMAIN rec.conditions
    PROVE  FinalState(rec.conditions[c].attempts) = "pass"
<1> DEFINE final(i) == FinalState(rec.conditions[i].attempts)
           at(path) == {final(i) : i \in {k \in DOMAIN Descriptors : Descriptors[k] = path}}
           paths == {PathState(rec, path) : path \in ToSet(PathConditions)}
<1>1. \A i \in DOMAIN Descriptors : final(i) \in States
  <2>1. \A i \in DOMAIN Descriptors : Len(rec.conditions[i].attempts) \in Nat
    BY DEF Records, Conditions
  <2> QED
    BY <2>1, SatisfiedIs
<1> HIDE DEF final
<1>2. \A path : at(path) \subseteq States /\ PathState(rec, path) = StateFrom(at(path))
  BY <1>1 DEF PathState, final
<1> HIDE DEF at
<1>3. paths \subseteq States /\ StateFrom(paths) = "pass"
  BY <1>2, StateFromType DEF Aggregate
<1>4. PathState(rec, "health") \in paths
  BY PathConditionsAre DEF ToSet
<1>5. paths = {"pass"}
  <2> HIDE DEF paths
  <2> QED
    BY <1>3, <1>4, StateFromIs
<1>6. c \in DOMAIN Descriptors /\ Descriptors[c] \in ToSet(PathConditions)
  <2>1. c \in 1 .. 2 + Contracts
    BY DescriptorsAre DEF Records
  <2>2. Descriptors[c] \in {"health", "readiness", "contract"}
    BY <2>1, DescriptorsAre, Constants
  <2> QED
    BY <2>1, <2>2, DescriptorsAre, PathConditionsAre DEF ToSet
<1>7. PathState(rec, Descriptors[c]) = "pass"
  BY <1>5, <1>6
<1>8. final(c) \in at(Descriptors[c])
  BY <1>6 DEF at
<1>9. at(Descriptors[c]) = {"pass"}
  BY <1>2, <1>7, <1>8, StateFromIs
<1> QED
  BY <1>8, <1>9 DEF final

LEMMA AcceptedIsProven ==
    ASSUME NEW rec \in Records, Dated(rec.subject), Accepts(rec), rec.satisfied,
           NEW c \in DOMAIN rec.conditions
    PROVE  Proven(rec.conditions[c])
<1> DEFINE condition == rec.conditions[c]
           attempts == condition.attempts
           n == Len(attempts)
<1>1. ConditionOk(condition, rec.subject) /\ Aggregate(rec) = "pass"
      /\ SubjectOk(rec.subject)
  BY DEF Accepts, ReductionsOk
<1>2. attempts \in Seq(Attempts) /\ n \in Nat
  BY DEF Records, Conditions
<1>3. FinalState(attempts) = "pass"
  BY <1>1, EveryConditionPasses
<1>4. StopsOk(attempts) /\ \A i \in DOMAIN attempts : AttemptOk(attempts[i], rec.subject)
  BY <1>1 DEF ConditionOk
<1>5. Row(attempts, Passes, n)
  <2> HIDE DEF attempts
  <2>1. Achieved(attempts) = Passes
    BY <1>2, <1>3, SatisfiedIs
  <2> QED
    BY <1>2, <1>4, <2>1, RowAtTheEnd
<1>6. rec.subject.issued = Subject.issued /\ rec.subject.deadline = Subject.deadline
  <2>1. rec.subject.issued \in Nat /\ rec.subject.observed + Fresh \in Nat
    BY Constants DEF Records, Subjects
  <2> QED
    BY <1>1, <2>1 DEF Dated, SubjectOk
<1>7. \A i \in DOMAIN attempts : i > 1 =>
         attempts[i].started >= attempts[i - 1].completed + Delay
  BY <1>1 DEF ConditionOk
<1> HIDE DEF attempts
<1>8. n - Passes + 1 >= 1
  BY <1>2, <1>5, Constants DEF Row
<1>9. ASSUME NEW i \in n - Passes + 1 .. n
      PROVE  /\ attempts[i].pre = attempts[i].post
             /\ attempts[i].pre.joined
             /\ Len(attempts[i].pre.backends) \in 1 .. MaxBackends
             /\ \A b \in ToSet(attempts[i].pre.backends) : b = Backend(b.pod)
             /\ Subject.issued <= attempts[i].started
             /\ attempts[i].completed <= Subject.deadline
             /\ Len(attempts[i].results) = Len(attempts[i].pre.backends)
             /\ \A r \in ToSet(attempts[i].results) :
                   r.error = None /\ r.response /\ r.oracle
             /\ i > n - Passes + 1 =>
                   attempts[i].started >= attempts[i - 1].completed + Delay
  <2>1. i \in DOMAIN attempts /\ i \in 1 .. n /\ attempts[i] \in Attempts
    BY <1>2, <1>8, Constants
  <2>2. BatchState(attempts[i]) = "pass"
    BY <1>5 DEF Row
  <2>3. AttemptOk(attempts[i], rec.subject)
    BY <1>4, <2>1
  <2>4. attempts[i].state = "pass"
    BY <2>2, <2>3 DEF AttemptOk
  <2> DEFINE a == attempts[i]
  <2>5. /\ a.pre = a.post /\ a.pre.joined
        /\ Len(a.pre.backends) \in 1 .. MaxBackends
        /\ \A b \in ToSet(a.pre.backends) : b = Backend(b.pod)
        /\ Len(a.results) = Len(a.pre.backends)
        /\ \A r \in ToSet(a.results) : r.error = None /\ r.response /\ r.oracle
    <3> HIDE DEF a
    <3> QED
      BY <2>1, <2>3, <2>4, PassingAttemptIs DEF ToSet, a
  <2>6. Subject.issued <= a.started /\ a.completed <= Subject.deadline
    BY <1>6, <2>3 DEF AttemptOk, TimeOk
  <2>7. i > n - Passes + 1 => a.started >= attempts[i - 1].completed + Delay
    BY <1>2, <1>7, <1>8, <2>1, Constants
  <2> QED
    BY <2>5, <2>6, <2>7
<1> QED
  BY <1>8, <1>9 DEF Proven, attempts

\* A record that is accepted and claims success shows for every condition the
\* passing attempts in a row, whatever was forged: SatisfiedMeansProven, for
\* every length of the row, number of conditions, delay and target.
THEOREM SatisfiedIsProven == Spec => []SatisfiedMeansProven
<1>1. TypeInv => SatisfiedMeansProven
  BY AcceptedIsProven DEF TypeInv, SatisfiedMeansProven, ToSet
<1> QED
  BY <1>1, TypeCorrect, PTL

-----------------------------------------------------------------------------
(* Each forgery of an accepted record is refused.                          *)

\* Signing a forged record anew leaves everything else to be refused.
LEMMA ResignedAccepts ==
    ASSUME NEW rec \in Records, Accepts(Resigned(rec))
    PROVE  /\ SubjectOk(rec.subject)
           /\ rec.order = rec.subject.order /\ rec.run = rec.subject.run
           /\ [i \in DOMAIN rec.conditions |-> rec.conditions[i].id]
                 = [i \in DOMAIN Descriptors |-> i]
           /\ \A i \in DOMAIN rec.conditions :
                 ConditionOk(rec.conditions[i], rec.subject)
           /\ RunOk(rec)
           /\ rec.completed <= rec.subject.deadline /\ rec.subject.deadline < rec.expires
<1> DEFINE new == Resigned(rec)
<1>1. /\ new.conditions = rec.conditions /\ new.subject = rec.subject
      /\ new.order = rec.order /\ new.run = rec.run
      /\ new.completed = rec.completed /\ new.expires = rec.expires
  BY DEF Resigned, Records
<1> HIDE DEF new
<1>2. /\ Places(new) = Places(rec)
      /\ \A p : AttemptAt(new, p) = AttemptAt(rec, p)
  BY <1>1 DEF Places, AttemptAt
<1>3. RunOk(new) => RunOk(rec)
  BY <1>1, <1>2 DEF RunOk
<1>4. Accepts(new)
  BY DEF new
<1>5. TimesOk(new) => /\ rec.completed <= rec.subject.deadline
                      /\ rec.subject.deadline < rec.expires
  BY <1>1 DEF TimesOk
<1> QED
  BY <1>1, <1>3, <1>4, <1>5 DEF Accepts, BindingOk

\* An accepted record has accepted attempts, and conditions that say what their
\* attempts show.
LEMMA AcceptedCondition ==
    ASSUME NEW rec \in Records,
           NEW c \in DOMAIN rec.conditions, ConditionOk(rec.conditions[c], rec.subject)
    PROVE  LET attempts == rec.conditions[c].attempts
               n == Len(attempts)
           IN /\ attempts \in Seq(Attempts) /\ n \in Nat
              /\ \A i \in 1 .. n : AttemptOk(attempts[i], rec.subject)
              /\ \A i \in 2 .. n :
                    attempts[i].started >= attempts[i - 1].completed + Delay
              /\ StopsOk(attempts)
              /\ rec.conditions[c].termination = Termination(attempts)
              /\ rec.conditions[c].state = FinalState(attempts)
              /\ rec.conditions[c].state = "pass" => Row(attempts, Passes, n)
              /\ rec.conditions[c].termination = "condition-satisfied"
                    => rec.conditions[c].state = "pass"
              /\ rec.conditions[c].termination = "probe-error" =>
                    n # 0 /\ BatchState(attempts[n]) = "probe-error"
<1> DEFINE attempts == rec.conditions[c].attempts
           n == Len(attempts)
<1>1. attempts \in Seq(Attempts) /\ n \in Nat
  BY DEF Records, Conditions
<1>2. /\ \A i \in DOMAIN attempts : AttemptOk(attempts[i], rec.subject)
      /\ \A i \in DOMAIN attempts : i > 1 =>
            attempts[i].started >= attempts[i - 1].completed + Delay
      /\ StopsOk(attempts)
      /\ rec.conditions[c].termination = Termination(attempts)
      /\ rec.conditions[c].state = FinalState(attempts)
  BY DEF ConditionOk
<1> HIDE DEF attempts
<1>3. \A i \in 1 .. n : AttemptOk(attempts[i], rec.subject)
  BY <1>1, <1>2
<1>4. \A i \in 2 .. n : attempts[i].started >= attempts[i - 1].completed + Delay
  BY <1>1, <1>2
<1>5. rec.conditions[c].state = "pass" => Row(attempts, Passes, n)
  BY <1>1, <1>2, SatisfiedIs, RowAtTheEnd
<1>6. rec.conditions[c].termination = "condition-satisfied"
         => rec.conditions[c].state = "pass"
  BY <1>1, <1>2, TerminationIs
<1>7. ASSUME rec.conditions[c].termination = "probe-error"
      PROVE  n # 0 /\ BatchState(attempts[n]) = "probe-error"
  <2>1. FinalState(attempts) = "probe-error"
    BY <1>1, <1>2, <1>7, TerminationIs
  <2>2. PICK i \in DOMAIN attempts : BatchState(attempts[i]) = "probe-error"
    BY <1>1, <2>1, SatisfiedIs
  <2>3. i \in 1 .. n /\ ~(i \in 1 .. n - 1)
    BY <1>1, <1>2, <2>2 DEF StopsOk
  <2>4. i = n
    BY <1>1, <2>3
  <2> QED
    BY <1>1, <2>2, <2>3, <2>4
<1> QED
  BY <1>1, <1>2, <1>3, <1>4, <1>5, <1>6, <1>7 DEF attempts

LEMMA AcceptedConditions ==
    ASSUME NEW rec \in Records, Accepts(rec), NEW c \in DOMAIN rec.conditions
    PROVE  ConditionOk(rec.conditions[c], rec.subject)
BY DEF Accepts

LEMMA ReplacedRefused ==
    ASSUME NEW rec \in Records, NEW p \in Places(rec), NEW a \in Attempts,
           ~AttemptOk(a, rec.subject)
    PROVE  ~Accepts(Resigned(Replaced(rec, p, a)))
<1> DEFINE new == Replaced(rec, p, a)
<1>1. /\ new \in Records /\ new.subject = rec.subject
      /\ p[1] \in DOMAIN new.conditions
      /\ p[2] \in 1 .. Len(new.conditions[p[1]].attempts)
      /\ new.conditions[p[1]].attempts[p[2]] = a
  <2>1. /\ p[1] \in DOMAIN rec.conditions
        /\ p[2] \in 1 .. Len(rec.conditions[p[1]].attempts)
    BY PlaceIs
  <2>2. /\ new \in Records /\ new.subject = rec.subject
        /\ DOMAIN new.conditions = DOMAIN rec.conditions
        /\ new.conditions[p[1]].attempts[p[2]] = a
        /\ Len(new.conditions[p[1]].attempts) = Len(rec.conditions[p[1]].attempts)
    BY ReplacedIs
  <2> QED
    BY <2>1, <2>2
<1> HIDE DEF new
<1>2. ASSUME Accepts(Resigned(new)) PROVE FALSE
  <2>1. ConditionOk(new.conditions[p[1]], new.subject)
    BY <1>1, <1>2, ResignedAccepts
  <2> QED
    BY <1>1, <2>1, AcceptedCondition
<1> QED
  BY <1>2 DEF new

LEMMA AttemptsRefused ==
    ASSUME NEW rec \in Records, Accepts(rec), NEW forged \in ForgedAttempts(rec)
    PROVE  ~Accepts(Resigned(forged))
<1>1. PICK p \in PassingAttempts(rec) :
        forged \in {Replaced(rec, p, a) :
                      a \in ForgedSnapshots(AttemptAt(rec, p))
                            \cup ForgedResults(AttemptAt(rec, p))}
  BY DEF ForgedAttempts
<1>2. PICK a \in ForgedSnapshots(AttemptAt(rec, p))
                 \cup ForgedResults(AttemptAt(rec, p)) : forged = Replaced(rec, p, a)
  BY <1>1
<1>3. /\ p \in Places(rec) /\ AttemptAt(rec, p).state = "pass"
      /\ AttemptAt(rec, p) \in Attempts
  BY PlaceIs DEF PassingAttempts
<1>4. AttemptOk(AttemptAt(rec, p), rec.subject)
  BY <1>3, PlaceIs, AcceptedConditions, AcceptedCondition DEF AttemptAt
<1>5. a \in Attempts /\ ~AttemptOk(a, rec.subject)
  BY <1>3, <1>4, SnapshotTypes, ResultTypes, SnapshotsRefused, ResultsRefused
<1> QED
  BY <1>2, <1>3, <1>5, ReplacedRefused

LEMMA UnprobedTermination == Termination(<<>>) = "run-deadline"
<1>1. ~(\E i \in 0 .. Len(<<>>) : Row(<<>>, Passes, i))
  BY Constants DEF Row
<1>2. Achieved(<<>>) # Passes
  BY <1>1, SatisfiedIs
<1>3. {BatchState(a) : a \in ToSet(<<>>)} \ {"pass"} = {}
  BY DEF ToSet
<1>4. FinalState(<<>>) = "inconclusive"
  BY <1>2, <1>3 DEF FinalState, StateFrom
<1>5. Len(<<>>) # MaxAttempts
  BY Constants
<1> QED
  BY <1>4, <1>5 DEF Termination

\* The first attempt's identity cannot be used again: when it is not the first
\* of the first condition, the run never came to it.
LEMMA ReuseRefused ==
    ASSUME NEW rec \in Records, Accepts(rec),
           NEW p \in PassingAttempts(rec) \ {<<1, 1>>}
    PROVE  ~Accepts(Resigned(Replaced(rec, p, Reused(rec, p))))
<1> DEFINE m == Min(Probed(rec))
           q == <<m, 1>>
           new == Replaced(rec, p, Reused(rec, p))
<1>1. /\ p \in Places(rec) /\ p = <<p[1], p[2]>> /\ p[1] \in Probed(rec)
      /\ p[1] \in DOMAIN rec.conditions
      /\ p[2] \in 1 .. Len(rec.conditions[p[1]].attempts)
      /\ AttemptAt(rec, p) \in Attempts
  BY PlaceIs DEF PassingAttempts
<1>2. /\ m \in Probed(rec) /\ \A c \in Probed(rec) : m <= c
      /\ FirstAttempt(rec) \in Attempts
  BY <1>1, FirstAttemptType
<1>3. /\ m \in DOMAIN rec.conditions
      /\ rec.conditions[m].attempts \in Seq(Attempts)
      /\ 1 \in 1 .. Len(rec.conditions[m].attempts)
      /\ FirstAttempt(rec) = rec.conditions[m].attempts[1]
  <2> HIDE DEF m
  <2>1. /\ m \in DOMAIN rec.conditions
        /\ rec.conditions[m].attempts \in Seq(Attempts)
        /\ Len(rec.conditions[m].attempts) \in Nat \ {0}
    BY <1>2, ProbedIs
  <2>2. FirstAttempt(rec) = Head(rec.conditions[m].attempts)
    BY DEF FirstAttempt, m
  <2> QED
    BY <2>1, <2>2
<1>4. /\ 1 \in DOMAIN rec.conditions /\ RunOk(rec) /\ m \in Nat /\ m >= 1
  BY <1>3, ConditionsSeq, Constants DEF Accepts
<1>5. m = 1
  <2>1. CASE 1 \in Probed(rec)
    BY <1>2, <1>4, <2>1
  <2>2. CASE 1 \notin Probed(rec) /\ m # 1
    <3>1. rec.conditions[1].attempts = <<>>
      BY <1>4, <2>2 DEF Probed
    <3>2. 1 < m
      BY <1>4, <2>2
    <3>3. rec.conditions[m].attempts = <<>>
      BY <1>3, <1>4, <3>1, <3>2, UnprobedTermination DEF RunOk
    <3> QED
      BY <1>3, <3>3
  <2> QED
    BY <2>1, <2>2
<1>6. Reused(rec, p) \in Attempts /\ Reused(rec, p).id = FirstAttempt(rec).id
  BY <1>1, <1>2 DEF Reused, Attempts
<1>7. /\ new \in Records /\ DOMAIN new.conditions = DOMAIN rec.conditions
      /\ new.conditions[p[1]].attempts[p[2]] = Reused(rec, p)
      /\ Len(new.conditions[p[1]].attempts) = Len(rec.conditions[p[1]].attempts)
      /\ new.conditions[p[1]] \in Conditions
      /\ \A i \in 1 .. Len(rec.conditions[p[1]].attempts) : i # p[2] =>
            new.conditions[p[1]].attempts[i] = rec.conditions[p[1]].attempts[i]
      /\ \A d \in DOMAIN rec.conditions : d # p[1] =>
            new.conditions[d] = rec.conditions[d]
  BY <1>1, <1>6, ReplacedIs
<1> HIDE DEF new, m
<1>8. new.conditions[m].attempts[1] = FirstAttempt(rec)
      /\ 1 \in DOMAIN new.conditions[m].attempts
  <2>1. CASE p[1] = m
    <3>1. p[2] # 1
      BY <1>1, <1>5, <2>1
    <3>2. new.conditions[m].attempts \in Seq(Attempts)
      BY <1>7, <2>1 DEF Conditions
    <3> QED
      BY <1>3, <1>7, <2>1, <3>1, <3>2
  <2>2. CASE p[1] # m
    <3>1. new.conditions[m] = rec.conditions[m]
      BY <1>3, <1>7, <2>2
    <3> QED
      BY <1>3, <3>1
  <2> QED
    BY <2>1, <2>2
<1>9. q \in Places(new) /\ AttemptAt(new, q).id = FirstAttempt(rec).id
  BY <1>3, <1>7, <1>8 DEF Places, AttemptAt
<1>10. p \in Places(new) /\ AttemptAt(new, p).id = FirstAttempt(rec).id
  <2>1. p[2] \in DOMAIN new.conditions[p[1]].attempts
    BY <1>1, <1>7 DEF Conditions
  <2> QED
    BY <1>1, <1>6, <1>7, <2>1 DEF Places, AttemptAt
<1>11. p # q
  BY <1>5
<1>12. ~RunOk(new)
  BY <1>9, <1>10, <1>11 DEF RunOk
<1> QED
  BY <1>7, <1>12, ResignedAccepts DEF new

\* The delay between two attempts is positive.
LEMMA HurryRefused ==
    ASSUME NEW rec \in Records, NEW p \in PassingAttempts(rec), p[2] > 1
    PROVE  ~Accepts(Resigned(Replaced(rec, p, Hurried(rec, p))))
<1> DEFINE new == Replaced(rec, p, Hurried(rec, p))
           before == AttemptAt(rec, <<p[1], p[2] - 1>>)
           attempts == rec.conditions[p[1]].attempts
<1>1. /\ p \in Places(rec) /\ p[1] \in DOMAIN rec.conditions
      /\ p[2] \in 1 .. Len(attempts) /\ AttemptAt(rec, p) \in Attempts
      /\ attempts \in Seq(Attempts)
  BY PlaceIs DEF PassingAttempts, Conditions
<1>2. before = attempts[p[2] - 1] /\ before \in Attempts /\ before.completed \in Nat
  <2>1. before = attempts[p[2] - 1]
    BY DEF AttemptAt
  <2>2. before \in Attempts
    BY <1>1, <2>1
  <2> QED
    BY <2>1, <2>2 DEF Attempts
<1> HIDE DEF before, attempts
<1>3. /\ Hurried(rec, p) \in Attempts
      /\ Hurried(rec, p).started = before.completed
  <2> DEFINE a == AttemptAt(rec, p)
  <2>1. a.duration \in Nat /\ before.completed + a.duration \in Nat
    <3> HIDE DEF a
    <3>1. a \in Attempts
      BY <1>1 DEF a
    <3>2. a.duration \in Nat
      BY <3>1 DEF Attempts
    <3> QED
      BY <1>2, <3>2
  <2>2. Hurried(rec, p) = [a EXCEPT !.started = before.completed,
                                    !.completed = before.completed + a.duration]
    BY DEF Hurried, before
  <2> HIDE DEF a
  <2>3. a \in Attempts
    BY <1>1 DEF a
  <2> QED
    BY <1>2, <2>1, <2>2, <2>3 DEF Attempts
<1>4. /\ new \in Records /\ DOMAIN new.conditions = DOMAIN rec.conditions
      /\ new.conditions[p[1]].attempts[p[2]] = Hurried(rec, p)
      /\ Len(new.conditions[p[1]].attempts) = Len(attempts)
      /\ new.conditions[p[1]].attempts[p[2] - 1] = before
  <2>1. p[2] - 1 \in 1 .. Len(attempts) /\ p[2] - 1 # p[2]
    BY <1>1
  <2> QED
    BY <1>1, <1>2, <1>3, <2>1, ReplacedIs, SMTT(40) DEF attempts
<1> HIDE DEF new
<1>5. ASSUME Accepts(Resigned(new)) PROVE FALSE
  <2>1. ConditionOk(new.conditions[p[1]], new.subject)
    BY <1>1, <1>4, <1>5, ResignedAccepts
  <2>2. p[2] \in 2 .. Len(new.conditions[p[1]].attempts)
    BY <1>1, <1>4
  <2> DEFINE moved == new.conditions[p[1]].attempts
  <2>3. p[1] \in DOMAIN new.conditions
    BY <1>1, <1>4
  <2>4. \A i \in 2 .. Len(moved) : moved[i].started >= moved[i - 1].completed + Delay
    BY <1>4, <2>1, <2>3, AcceptedCondition
  <2> HIDE DEF moved
  <2>5. moved[p[2]].started >= moved[p[2] - 1].completed + Delay
    BY <2>2, <2>4 DEF moved
  <2>6. before.completed >= before.completed + Delay
    BY <1>3, <1>4, <2>5 DEF moved
  <2> QED
    BY <1>2, <2>6, Constants
<1> QED
  BY <1>5 DEF new

\* A failed attempt at the end of a satisfied condition breaks its row.
LEMMA InterruptionRefused ==
    ASSUME NEW rec \in Records, Accepts(rec), NEW forged \in Interrupted(rec)
    PROVE  ~Accepts(Resigned(forged))
<1>1. PICK p \in PassingAttempts(rec) :
        /\ p[1] \in Satisfied(rec)
        /\ p[2] > Len(rec.conditions[p[1]].attempts) - Passes
        /\ forged = Replaced(rec, p, Failed(AttemptAt(rec, p)))
  BY DEF Interrupted
<1> DEFINE a == Failed(AttemptAt(rec, p))
           c == p[1]
           n == Len(rec.conditions[c].attempts)
<1>2. /\ p \in Places(rec) /\ c \in DOMAIN rec.conditions
      /\ p[2] \in 1 .. n /\ n \in Nat /\ AttemptAt(rec, p) \in Attempts
  <2>1. /\ p \in Places(rec) /\ c \in DOMAIN rec.conditions
        /\ rec.conditions[c] \in Conditions
        /\ p[2] \in 1 .. n /\ AttemptAt(rec, p) \in Attempts
    BY PlaceIs DEF PassingAttempts
  <2>2. rec.conditions[c].attempts \in Seq(Attempts)
    BY <2>1 DEF Conditions
  <2> QED
    BY <2>1, <2>2
<1>3. a \in Attempts /\ a.state = "fail"
  BY <1>2, ResultTypes DEF Failed, Attempts
<1> HIDE DEF a
<1>4. rec.conditions[c].state = "pass"
  <2>1. rec.conditions[c].termination = "condition-satisfied"
    BY <1>1 DEF Satisfied
  <2> QED
    BY <1>2, <2>1, AcceptedConditions, AcceptedCondition
<1>5. /\ forged \in Records /\ forged.subject = rec.subject
      /\ c \in DOMAIN forged.conditions
      /\ forged.conditions[c].attempts[p[2]] = a
      /\ Len(forged.conditions[c].attempts) = n
      /\ forged.conditions[c].state = "pass"
  <2>1. forged = Replaced(rec, p, a)
    BY <1>1 DEF a
  <2> QED
    BY <1>2, <1>3, <1>4, <2>1, ReplacedIs
<1>6. ASSUME Accepts(Resigned(forged)) PROVE FALSE
  <2>1. ConditionOk(forged.conditions[c], forged.subject)
    BY <1>5, <1>6, ResignedAccepts
  <2>2. Row(forged.conditions[c].attempts, Passes, n)
    BY <1>5, <2>1, AcceptedCondition
  <2>3. p[2] \in n - Passes + 1 .. n
    BY <1>1, <1>2, Constants
  <2>4. BatchState(a) = "pass"
    BY <1>5, <2>2, <2>3 DEF Row
  <2>5. AttemptOk(a, forged.subject)
    BY <1>2, <1>5, <2>1, AcceptedCondition
  <2> QED
    BY <1>3, <2>4, <2>5 DEF AttemptOk
<1> QED
  BY <1>6

\* An accepted condition has no row before its last attempt.
LEMMA NoRowBefore ==
    ASSUME NEW attempts, Len(attempts) \in Nat, StopsOk(attempts),
           NEW i \in 0 .. Len(attempts) - 1
    PROVE  ~Row(attempts, Passes, i)
<1>1. ASSUME Row(attempts, Passes, i) PROVE FALSE
  <2>1. i >= 1
    BY <1>1, Constants DEF Row
  <2>2. Streak(attempts, i) < Passes /\ Streak(attempts, i) \in 0 .. i
    BY <2>1, StreakIs DEF StopsOk
  <2>3. Passes <= Streak(attempts, i)
    BY <1>1, StreakIs, Constants
  <2> QED
    BY <2>2, <2>3, Constants
<1> QED
  BY <1>1

LEMMA CutRefused ==
    ASSUME NEW rec \in Records, Accepts(rec), NEW c \in Satisfied(rec)
    PROVE  ~Accepts(Resigned(Rewritten(rec, c, Cut(rec.conditions[c]))))
<1> DEFINE new == Rewritten(rec, c, Cut(rec.conditions[c]))
           attempts == rec.conditions[c].attempts
           front == Front(attempts)
           n == Len(attempts)
<1>1. /\ c \in Probed(rec) /\ c \in DOMAIN rec.conditions
      /\ rec.conditions[c] \in Conditions
      /\ attempts \in Seq(Attempts) /\ n \in Nat \ {0}
      /\ rec.conditions[c].termination = "condition-satisfied"
  BY ProbedIs DEF Satisfied
<1>2. rec.conditions[c].state = "pass" /\ StopsOk(attempts)
  BY <1>1, AcceptedConditions, AcceptedCondition
<1> HIDE DEF attempts
<1>3. /\ front \in Seq(Attempts) /\ Len(front) = n - 1
      /\ \A i \in 1 .. n - 1 : front[i] = attempts[i]
  <2>1. /\ n - 1 \in 0 .. n /\ 1 \in 1 .. n + 1 /\ n - 1 \in 1 - 1 .. n
        /\ n - 1 - 1 + 1 = n - 1 /\ \A i \in 1 .. n - 1 : 1 + i - 1 = i
    BY <1>1
  <2>2. /\ SubSeq(attempts, 1, n - 1) \in Seq(Attempts)
        /\ Len(SubSeq(attempts, 1, n - 1)) = n - 1
        /\ \A i \in 1 .. n - 1 : SubSeq(attempts, 1, n - 1)[i] = attempts[i]
    BY <1>1, <2>1, SubSeqProperties
  <2> QED
    BY <2>2 DEF Front, front
<1> HIDE DEF front
<1>4. /\ Cut(rec.conditions[c]).attempts = front
      /\ Cut(rec.conditions[c]).state = "pass"
  BY <1>1, <1>2 DEF Cut, front, attempts, Conditions
<1>5. /\ new \in Records /\ new.subject = rec.subject
      /\ c \in DOMAIN new.conditions /\ new.conditions[c] = Cut(rec.conditions[c])
  BY <1>1, CutIs, RewrittenIs
<1> HIDE DEF new
<1>6. ASSUME Accepts(Resigned(new)) PROVE FALSE
  <2>1. ConditionOk(new.conditions[c], new.subject)
    BY <1>5, <1>6, ResignedAccepts
  <2>2. Row(front, Passes, n - 1)
    BY <1>3, <1>4, <1>5, <2>1, AcceptedCondition
  <2>3. Row(attempts, Passes, n - 1)
    BY <1>1, <1>3, <2>2, Constants DEF Row
  <2> QED
    BY <1>1, <1>2, <2>3, NoRowBefore
<1> QED
  BY <1>6 DEF new

LEMMA ProlongationRefused ==
    ASSUME NEW rec \in Records, Accepts(rec), NEW c \in Satisfied(rec)
    PROVE  ~Accepts(Resigned(Prolonged(rec, c)))
<1> DEFINE new == Prolonged(rec, c)
           attempts == rec.conditions[c].attempts
           further == Further(rec, Last(attempts))
           longer == Append(attempts, further)
           n == Len(attempts)
<1>1. /\ c \in Probed(rec) /\ c \in DOMAIN rec.conditions
      /\ rec.conditions[c] \in Conditions
      /\ attempts \in Seq(Attempts) /\ n \in Nat \ {0}
      /\ rec.conditions[c].termination = "condition-satisfied"
  BY ProbedIs DEF Satisfied
<1>2. Row(attempts, Passes, n)
  BY <1>1, AcceptedConditions, AcceptedCondition
<1>3. /\ further \in Attempts
      /\ new \in Records /\ c \in DOMAIN new.conditions
      /\ new.conditions[c] = Continued(rec.conditions[c], further)
  BY <1>1, ContinuedIs
<1>4. new.conditions[c].attempts = longer
  BY <1>1, <1>3 DEF Continued, Conditions
<1> HIDE DEF new, further, attempts
<1>5. /\ longer \in Seq(Attempts) /\ Len(longer) = n + 1
      /\ \A i \in 1 .. n : longer[i] = attempts[i]
  BY <1>1, <1>3, AppendProperties
<1> HIDE DEF longer
<1>6. Row(longer, Passes, n)
  BY <1>1, <1>2, <1>5, Constants DEF Row
<1>7. ASSUME Accepts(Resigned(new)) PROVE FALSE
  <2>1. ConditionOk(new.conditions[c], new.subject)
    BY <1>3, <1>7, ResignedAccepts
  <2>2. StopsOk(longer)
    BY <1>3, <1>4, <2>1, AcceptedCondition
  <2> QED
    BY <1>1, <1>5, <1>6, <2>2, NoRowBefore
<1> QED
  BY <1>7 DEF new

LEMMA DeadlineRefused ==
    ASSUME NEW rec \in Records, NEW forged \in ForgedDeadline(rec)
    PROVE  ~Accepts(Resigned(forged))
<1>1. /\ 1 \in Probed(rec) /\ 2 \in Probed(rec)
      /\ forged = [Rewritten(rec, 1, AtDeadline(rec.conditions[1])) EXCEPT
                     !.paths[1] = "fail", !.aggregate = "fail", !.satisfied = FALSE,
                     !.completed = rec.subject.deadline]
  <2>1. \A p \in PassingAttempts(rec) : p = <<1, 1>> => 1 \in Probed(rec)
    BY PlaceIs DEF PassingAttempts
  <2> QED
    BY <2>1 DEF ForgedDeadline
<1>2. /\ 1 \in DOMAIN rec.conditions /\ 2 \in DOMAIN rec.conditions
      /\ rec.conditions[1] \in Conditions /\ rec.conditions[2].attempts # <<>>
  BY <1>1, ProbedIs DEF Probed
<1>3. /\ forged \in Records /\ DOMAIN forged.conditions = DOMAIN rec.conditions
      /\ forged.conditions[1] = AtDeadline(rec.conditions[1])
      /\ forged.conditions[2] = rec.conditions[2]
  <2>1. /\ forged \in Records /\ DOMAIN forged.conditions = DOMAIN rec.conditions
        /\ forged.conditions[1] = AtDeadline(rec.conditions[1])
        /\ \A c \in DOMAIN rec.conditions : c # 1 =>
              forged.conditions[c] = rec.conditions[c]
    BY <1>1, AtDeadlineIs, Zenon
  <2> QED
    BY <1>2, <2>1
<1>4. forged.conditions[1].termination = "run-deadline"
  BY <1>2, <1>3 DEF AtDeadline, Conditions
<1>5. ASSUME Accepts(Resigned(forged)) PROVE FALSE
  <2>1. ConditionOk(forged.conditions[1], forged.subject) /\ RunOk(forged)
    BY <1>2, <1>3, <1>5, ResignedAccepts
  <2>2. Termination(forged.conditions[1].attempts) = "run-deadline"
    BY <1>4, <2>1 DEF ConditionOk
  <2> QED
    BY <1>2, <1>3, <2>1, <2>2 DEF RunOk
<1> QED
  BY <1>5

\* The attempt that ended the condition was a probe error, whatever it says.
LEMMA PassRefused ==
    ASSUME NEW rec \in Records, Accepts(rec), NEW forged \in ForgedPass(rec)
    PROVE  ~Accepts(Resigned(forged))
<1>1. PICK c \in Probed(rec) :
        /\ rec.conditions[c].termination = "probe-error"
        /\ forged = [Rewritten(rec, c, Relabelled(rec.conditions[c])) EXCEPT
                       !.paths = [i \in DOMAIN PathConditions |-> "pass"],
                       !.aggregate = "pass", !.satisfied = TRUE]
  BY DEF ForgedPass
<1> DEFINE attempts == rec.conditions[c].attempts
           n == Len(attempts)
           last == Last(attempts)
           a == [last EXCEPT !.code = None, !.state = "pass"]
<1>2. /\ c \in DOMAIN rec.conditions /\ rec.conditions[c] \in Conditions
      /\ attempts \in Seq(Attempts) /\ n \in Nat \ {0}
      /\ last \in Attempts /\ last = attempts[n]
  BY ProbedIs DEF Last
<1>3. BatchState(last) = "probe-error"
  BY <1>1, <1>2, AcceptedConditions, AcceptedCondition
<1>4. /\ a.pre = last.pre /\ a.post = last.post /\ a.results = last.results
      /\ a.state = "pass"
  BY <1>2 DEF Attempts
<1>5. BatchState(a) = "probe-error"
  BY <1>3, <1>4 DEF BatchState, AttemptError
<1>6. Relabelled(rec.conditions[c]).attempts = [attempts EXCEPT ![n] = a]
  BY <1>2 DEF Relabelled, Conditions
<1> HIDE DEF a, attempts
<1>7. /\ Len([attempts EXCEPT ![n] = a]) = n /\ [attempts EXCEPT ![n] = a][n] = a
  BY <1>2
<1>8. /\ forged \in Records /\ c \in DOMAIN forged.conditions
      /\ forged.conditions[c] = Relabelled(rec.conditions[c])
  BY <1>1, <1>2, RelabelledIs
<1>9. ASSUME Accepts(Resigned(forged)) PROVE FALSE
  <2>1. ConditionOk(forged.conditions[c], forged.subject)
    BY <1>8, <1>9, ResignedAccepts
  <2>2. AttemptOk(a, forged.subject)
    <3>1. /\ Len(forged.conditions[c].attempts) = n
          /\ forged.conditions[c].attempts[n] = a /\ n \in 1 .. n
      <4> DEFINE changed == [attempts EXCEPT ![n] = a]
      <4>1. Len(changed) = n /\ changed[n] = a
        BY <1>7
      <4> HIDE DEF changed
      <4>2. forged.conditions[c].attempts = changed
        BY <1>6, <1>8 DEF changed
      <4> QED
        BY <1>2, <4>1, <4>2
    <3> QED
      BY <1>8, <2>1, <3>1, AcceptedCondition
  <2> QED
    BY <1>4, <1>5, <2>2 DEF AttemptOk, a
<1> QED
  BY <1>9

\* The binding names the run and the trusted order, and conditions keep their
\* places.
LEMMA BindingRefused ==
    ASSUME NEW rec \in Records, Accepts(rec), rec.subject = Subject,
           NEW forged \in ForgedBinding(rec)
    PROVE  ~Accepts(Resigned(forged))
<1>1. /\ forged \in Records /\ rec.subject \in Subjects
      /\ rec.run = "run" /\ rec.subject.order = "order" /\ rec.subject.run = "run"
      /\ rec.subject.observed = 0 /\ rec.completed \in Nat
  <2>1. /\ forged \in Records /\ rec.subject \in Subjects /\ rec.completed \in Nat
    BY BindingTypes DEF Records
  <2> QED
    BY <2>1 DEF Accepts, BindingOk, Subject
<1> SUFFICES ASSUME Accepts(Resigned(forged)) PROVE FALSE
  OBVIOUS
<1>2. /\ SubjectOk(forged.subject)
      /\ forged.order = forged.subject.order /\ forged.run = forged.subject.run
      /\ [i \in DOMAIN forged.conditions |-> forged.conditions[i].id]
            = [i \in DOMAIN Descriptors |-> i]
      /\ forged.completed <= forged.subject.deadline
      /\ forged.subject.deadline < forged.expires
  BY <1>1, ResignedAccepts
<1>3. CASE forged = [rec EXCEPT !.run = "other"]
  <2>1. forged.run = "other" /\ forged.subject = rec.subject
    BY <1>3 DEF Records
  <2> QED
    BY <1>1, <1>2, <2>1
<1>4. CASE forged = [rec EXCEPT !.order = "other"]
  <2>1. forged.order = "other" /\ forged.subject = rec.subject
    BY <1>4 DEF Records
  <2> QED
    BY <1>1, <1>2, <2>1
<1>5. CASE forged = [rec EXCEPT !.subject.profile = "other"]
  <2>1. forged.subject.profile = "other"
    BY <1>1, <1>5 DEF Records, Subjects
  <2> QED
    BY <1>2, <2>1 DEF SubjectOk
<1>6. CASE forged = [rec EXCEPT !.subject.commit = "other"]
  <2>1. forged.subject.commit = "other"
    BY <1>1, <1>6 DEF Records, Subjects
  <2> QED
    BY <1>2, <2>1 DEF SubjectOk
<1>7. CASE forged = [rec EXCEPT
                       !.subject.issued = rec.subject.observed + Fresh + 1,
                       !.subject.deadline = rec.subject.observed + Fresh + 1 + RunLimit]
  <2>1. /\ forged.subject.issued = rec.subject.observed + Fresh + 1
        /\ forged.subject.observed = rec.subject.observed
    BY <1>1, <1>7 DEF Records, Subjects
  <2>2. forged.subject.issued <= forged.subject.observed + Fresh
    BY <1>2 DEF SubjectOk
  <2> QED
    BY <1>1, <2>1, <2>2, Constants
<1>8. CASE forged = [rec EXCEPT !.expires = rec.completed]
  <2>1. /\ forged.expires = rec.completed /\ forged.completed = rec.completed
        /\ forged.subject = rec.subject
    BY <1>8 DEF Records
  <2>2. rec.subject.deadline \in Nat
    BY <1>1 DEF Subjects
  <2> QED
    BY <1>1, <1>2, <2>1, <2>2
<1>9. CASE forged = [rec EXCEPT !.conditions =
                       <<rec.conditions[2], rec.conditions[1]>>
                         \o SubSeq(rec.conditions, 3, Len(rec.conditions))]
  <2>1. forged.conditions[1] = rec.conditions[2] /\ 1 \in DOMAIN forged.conditions
    <3> DEFINE new == <<rec.conditions[2], rec.conditions[1]>>
                         \o SubSeq(rec.conditions, 3, Len(rec.conditions))
    <3>1. new \in [DOMAIN Descriptors -> Conditions] /\ new[1] = rec.conditions[2]
      BY ReorderedIs
    <3> HIDE DEF new
    <3>2. forged.conditions = new
      BY <1>9 DEF Records, new
    <3> QED
      BY <3>1, <3>2, DescriptorsAre, Constants
  <2>2. [i \in DOMAIN rec.conditions |-> rec.conditions[i].id]
           = [i \in DOMAIN Descriptors |-> i]
    BY DEF Accepts
  <2>3. rec.conditions[2].id = 2
    BY <2>2, ConditionsSeq, Constants
  <2>4. forged.conditions[1].id = 1
    BY <1>2, <2>1
  <2> QED
    BY <2>1, <2>3, <2>4
<1> QED
  BY <1>3, <1>4, <1>5, <1>6, <1>7, <1>8, <1>9 DEF ForgedBinding

\* Every forgery of an accepted record of the run is refused.
LEMMA ForgeriesRefused ==
    ASSUME NEW rec \in Records, Accepts(rec), rec.subject = Subject,
           NEW forged \in Forgeries(rec)
    PROVE  ~Accepts(forged)
<1>1. CASE forged \in ForgedSignatures(rec)
  <2>1. forged.signer \in {"invalid", "direct", "worker"}
    BY <1>1 DEF ForgedSignatures, Records
  <2> QED
    BY <2>1 DEF Accepts, BindingOk
<1>2. ASSUME NEW f \in ForgedOrder(rec) PROVE ~Accepts(Resigned(f))
  BY <1>2, ReuseRefused, HurryRefused DEF ForgedOrder
<1>3. ASSUME NEW f \in ForgedConditions(rec) PROVE ~Accepts(Resigned(f))
  BY <1>3, InterruptionRefused, CutRefused, ProlongationRefused DEF ForgedConditions
<1>4. \A f \in ForgedAttempts(rec) \cup ForgedOrder(rec) \cup ForgedConditions(rec)
               \cup ForgedDeadline(rec) \cup ForgedPass(rec) \cup ForgedBinding(rec) :
        ~Accepts(Resigned(f))
  BY <1>2, <1>3, AttemptsRefused, DeadlineRefused, PassRefused, BindingRefused
<1> QED
  BY <1>1, <1>4 DEF Forgeries

-----------------------------------------------------------------------------
(* What an honest verifier signs is accepted.                              *)

\* A condition that goes on.
Open(attempts) ==
    /\ Len(attempts) < MaxAttempts
    /\ \A i \in DOMAIN attempts :
         Streak(attempts, i) < Passes /\ BatchState(attempts[i]) # "probe-error"

\* A condition that ended, described as the script describes it.
Closed(condition) ==
    /\ condition.termination = Termination(condition.attempts)
    /\ condition.state = FinalState(condition.attempts)
    /\ condition.achieved = Achieved(condition.attempts)

ConditionInv(condition) ==
    LET attempts == condition.attempts
    IN /\ \A i \in DOMAIN attempts :
            /\ attempts[i].ordinal = i
            /\ AttemptOk(attempts[i], Subject)
            /\ attempts[i].completed <= clock
       /\ \A i \in DOMAIN attempts : i > 1 =>
            attempts[i].started >= attempts[i - 1].completed + Delay
       /\ StopsOk(attempts)
       /\ IF condition.termination = None THEN Open(attempts) ELSE Closed(condition)
       /\ condition.termination = "run-deadline" => clock = Subject.deadline

\* Attempts are numbered and timed in the order of their places, and none comes
\* after the deadline.
OrderInv ==
    /\ \A p, q \in Places(record) : Precedes(p, q) =>
         /\ AttemptAt(record, p).id < AttemptAt(record, q).id
         /\ AttemptAt(record, p).completed <= AttemptAt(record, q).started
    /\ \A i, j \in DOMAIN record.conditions :
         (i < j /\ record.conditions[i].termination = "run-deadline")
            => record.conditions[j].attempts = <<>>

\* The attempt in progress is not too long, and follows every other.
AttemptInv ==
    attempt # None =>
      /\ attempt.started <= clock /\ clock <= attempt.started + AttemptTicks
      /\ Current.attempts # <<>> =>
           attempt.started >= Last(Current.attempts).completed + Delay
      /\ \A p \in Places(record) : AttemptAt(record, p).completed <= attempt.started
      /\ \A i \in DOMAIN record.conditions :
           record.conditions[i].termination # "run-deadline"

RunInv ==
    /\ \A i \in DOMAIN record.conditions : ConditionInv(record.conditions[i])
    /\ OrderInv /\ AttemptInv

HonestInv ==
    /\ forgeries = None => RunInv
    /\ forgeries = 0 => Accepts(record) /\ record.subject = Subject
    /\ forgeries = 1 => ~Accepts(record)

\* The verifier counts passes in a row as the script does.
LEMMA RowsAgree ==
    ASSUME NEW attempts \in Seq(Attempts),
           \A i \in DOMAIN attempts : attempts[i].state = BatchState(attempts[i])
    PROVE  Max({0} \cup {n \in 1 .. Passes :
                  \E k \in 0 .. Len(attempts) - n :
                     \A i \in 1 .. n : attempts[k + i].state = "pass"})
              = Achieved(attempts)
<1> DEFINE found(n) == \E k \in 0 .. Len(attempts) - n :
                          \A i \in 1 .. n : attempts[k + i].state = "pass"
           rows == {0} \cup {n \in 1 .. Passes : found(n)}
           l == Len(attempts)
<1>1. /\ Achieved(attempts) \in 0 .. Passes
      /\ \A n \in 0 .. Passes : n <= Achieved(attempts)
            <=> \E i \in 0 .. l : Row(attempts, n, i)
  BY AchievedIs
<1>2. ASSUME NEW n \in 1 .. Passes
      PROVE  n \in rows <=> \E i \in 0 .. l : Row(attempts, n, i)
  <2>1. ASSUME NEW k \in 0 .. l - n, \A i \in 1 .. n : attempts[k + i].state = "pass"
        PROVE  Row(attempts, n, k + n)
    <3>1. ASSUME NEW j \in k + n - n + 1 .. k + n PROVE BatchState(attempts[j]) = "pass"
      <4>1. j - k \in 1 .. n /\ k + (j - k) = j /\ j \in DOMAIN attempts
        BY Constants
      <4> QED
        BY <2>1, <4>1
    <3> QED
      BY <3>1, Constants DEF Row
  <2>2. ASSUME NEW i \in 0 .. l, Row(attempts, n, i)
        PROVE  /\ i - n \in 0 .. l - n
               /\ \A j \in 1 .. n : attempts[(i - n) + j].state = "pass"
    <3>1. n <= i /\ \A k \in i - n + 1 .. i : BatchState(attempts[k]) = "pass"
      BY <2>2 DEF Row
    <3>2. ASSUME NEW j \in 1 .. n PROVE attempts[(i - n) + j].state = "pass"
      <4>1. (i - n) + j \in i - n + 1 .. i /\ (i - n) + j \in DOMAIN attempts
        BY <3>1, Constants
      <4> QED
        BY <3>1, <4>1
    <3> QED
      BY <3>1, <3>2, Constants
  <2>3. \A k \in 0 .. l - n : k + n \in 0 .. l
    BY Constants
  <2>4. found(n) <=> \E i \in 0 .. l : Row(attempts, n, i)
    BY <2>1, <2>2, <2>3
  <2> HIDE DEF found
  <2>5. n # 0
    BY Constants
  <2> QED
    BY <2>4, <2>5
<1>3. rows \subseteq 0 .. Passes /\ 0 \in rows
  BY Constants
<1> HIDE DEF rows
<1> DEFINE m == Max(rows)
<1>4. m \in rows /\ \A n \in rows : n <= m
  BY <1>3, MaxIs, Constants
<1> HIDE DEF m
<1>5. m \in 0 .. Passes
  BY <1>3, <1>4
<1>6. m <= Achieved(attempts)
  <2>1. CASE m = 0
    BY <1>1, <2>1, Constants
  <2>2. CASE m # 0
    <3>1. m \in 1 .. Passes
      BY <1>5, <2>2, Constants
    <3> QED
      BY <1>1, <1>2, <1>4, <1>5, <3>1
  <2> QED
    BY <2>1, <2>2
<1>7. Achieved(attempts) <= m
  <2>1. CASE Achieved(attempts) = 0
    BY <1>5, <2>1, Constants
  <2>2. CASE Achieved(attempts) # 0
    <3>1. Achieved(attempts) \in 1 .. Passes
      BY <1>1, <2>2, Constants
    <3>2. Achieved(attempts) <= Achieved(attempts)
      BY <3>1, Constants
    <3>3. Achieved(attempts) \in rows
      BY <1>1, <1>2, <3>1, <3>2
    <3> QED
      BY <1>4, <3>3
  <2> QED
    BY <2>1, <2>2
<1>8. m = Achieved(attempts)
  BY <1>1, <1>5, <1>6, <1>7, Constants
<1> QED
  BY <1>8 DEF m, rows

\* The verifier ends a condition where the script does, and for the same reason.
LEMMA EndingIs ==
    ASSUME NEW attempts \in Seq(Attempts), Len(attempts) <= MaxAttempts,
           \A i \in DOMAIN attempts : attempts[i].state = BatchState(attempts[i]),
           StopsOk(attempts)
    PROVE  /\ Ending(attempts) = "condition-satisfied" <=> FinalState(attempts) = "pass"
           /\ Ending(attempts) = None => Open(attempts)
           /\ Ending(attempts) # None => Ending(attempts) = Termination(attempts)
           /\ Ending(attempts) = "run-deadline" => clock = Subject.deadline
<1> DEFINE n == Len(attempts)
           satisfied == /\ n >= Passes
                        /\ \A i \in 0 .. Passes - 1 : attempts[n - i].state = "pass"
           broken == attempts # <<>> /\ Last(attempts).state = "probe-error"
<1>1. n \in Nat /\ n <= MaxAttempts /\ DOMAIN attempts = 1 .. n
  OBVIOUS
<1>0. n # MaxAttempts => n < MaxAttempts
  <2> HIDE DEF n
  <2> QED
    BY <1>1, Constants
<1>2. satisfied <=> Row(attempts, Passes, n)
  <2>1. ASSUME satisfied PROVE Row(attempts, Passes, n)
    <3>1. ASSUME NEW k \in n - Passes + 1 .. n PROVE BatchState(attempts[k]) = "pass"
      <4>1. n - k \in 0 .. Passes - 1 /\ n - (n - k) = k /\ k \in DOMAIN attempts
        BY <1>1, <2>1, Constants
      <4> QED
        BY <2>1, <4>1
    <3> QED
      BY <2>1, <3>1 DEF Row
  <2>2. ASSUME Row(attempts, Passes, n) PROVE satisfied
    <3>1. Passes <= n /\ \A k \in n - Passes + 1 .. n : BatchState(attempts[k]) = "pass"
      BY <2>2 DEF Row
    <3>2. ASSUME NEW i \in 0 .. Passes - 1 PROVE attempts[n - i].state = "pass"
      <4>1. n - i \in n - Passes + 1 .. n /\ n - i \in DOMAIN attempts
        BY <1>1, <3>1, Constants
      <4> QED
        BY <3>1, <4>1
    <3> QED
      BY <1>1, <3>1, <3>2, Constants
  <2> QED
    BY <2>1, <2>2
<1>3. Row(attempts, Passes, n) <=> FinalState(attempts) = "pass"
  <2>1. FinalState(attempts) = "pass" <=> Achieved(attempts) = Passes
    BY <1>1, SatisfiedIs
  <2>2. Row(attempts, Passes, n) => Achieved(attempts) = Passes
    BY <1>1, SatisfiedIs
  <2>3. Achieved(attempts) = Passes => Row(attempts, Passes, n)
    BY <1>1, RowAtTheEnd
  <2> QED
    BY <2>1, <2>2, <2>3
<1>4. broken <=> n # 0 /\ BatchState(attempts[n]) = "probe-error"
  BY <1>1 DEF Last
<1>5. ASSUME ~Row(attempts, Passes, n)
      PROVE  FinalState(attempts) = "probe-error"
                <=> n # 0 /\ BatchState(attempts[n]) = "probe-error"
  <2> DEFINE others == {BatchState(a) : a \in ToSet(attempts)} \ {"pass"}
  <2>1. FinalState(attempts) = StateFrom(others)
    BY <1>1, <1>3, <1>5, SatisfiedIs DEF FinalState
  <2>2. ASSUME n # 0, BatchState(attempts[n]) = "probe-error"
        PROVE  FinalState(attempts) = "probe-error"
    <3>1. "probe-error" \in others /\ others \subseteq States
      BY <1>1, <2>2, BatchStateType DEF ToSet
    <3> HIDE DEF others
    <3> QED
      BY <2>1, <3>1, StateFromIs
  <2>3. ASSUME FinalState(attempts) = "probe-error"
        PROVE  n # 0 /\ BatchState(attempts[n]) = "probe-error"
    <3>1. PICK i \in DOMAIN attempts : BatchState(attempts[i]) = "probe-error"
      BY <1>1, <2>3, SatisfiedIs
    <3>2. ~(i \in 1 .. n - 1)
      BY <3>1 DEF StopsOk
    <3>3. i = n /\ n # 0
      BY <1>1, <3>2
    <3> QED
      BY <3>1, <3>3
  <2> QED
    BY <2>2, <2>3
<1>6. Ending(attempts) =
        CASE satisfied -> "condition-satisfied"
          [] broken -> "probe-error"
          [] OTHER -> IF n = MaxAttempts THEN "attempts-exhausted"
                      ELSE IF clock = Subject.deadline THEN "run-deadline" ELSE None
  BY DEF Ending
<1> HIDE DEF satisfied, broken
<1>7. CASE satisfied
  <2>1. ~broken
    <3>1. BatchState(attempts[n]) = "pass"
      BY <1>1, <1>2, <1>7, Constants DEF Row
    <3> QED
      BY <1>4, <3>1
  <2>2. Ending(attempts) = "condition-satisfied"
    BY <1>6, <1>7, <2>1
  <2>3. FinalState(attempts) = "pass"
    BY <1>2, <1>3, <1>7
  <2> QED
    BY <2>2, <2>3, Constants, WordsAre DEF Termination
<1>8. CASE ~satisfied /\ broken
  <2>1. Ending(attempts) = "probe-error"
    BY <1>6, <1>8
  <2>2. FinalState(attempts) = "probe-error"
    BY <1>2, <1>4, <1>5, <1>8
  <2> QED
    BY <2>1, <2>2, Constants, WordsAre DEF Termination
<1>9. CASE ~satisfied /\ ~broken
  <2>1. Ending(attempts) = IF n = MaxAttempts THEN "attempts-exhausted"
                           ELSE IF clock = Subject.deadline THEN "run-deadline"
                           ELSE None
    BY <1>6, <1>9
  <2>2. FinalState(attempts) \notin {"pass", "probe-error"}
    BY <1>2, <1>3, <1>4, <1>5, <1>9
  <2>3. Termination(attempts) = IF n = MaxAttempts THEN "attempts-exhausted"
                                ELSE "run-deadline"
    BY <2>2 DEF Termination
  <2>4. n # MaxAttempts => Open(attempts)
    <3>1. ASSUME NEW i \in DOMAIN attempts
          PROVE Streak(attempts, i) < Passes /\ BatchState(attempts[i]) # "probe-error"
      <4>1. CASE i = n
        <5>1. Streak(attempts, n) < Passes
          <6>1. Streak(attempts, n) \in 0 .. n /\ ~(Passes <= Streak(attempts, n))
            BY <1>1, <1>2, <1>9, StreakIs, Constants
          <6> QED
            BY <1>1, <6>1, Constants
        <5> QED
          BY <1>1, <1>4, <1>9, <4>1, <5>1
      <4>2. CASE i # n
        <5>1. i \in 1 .. n - 1
          BY <1>1, <4>2
        <5> QED
          BY <5>1 DEF StopsOk
      <4> QED
        BY <4>1, <4>2
    <3> QED
      BY <1>0, <3>1 DEF Open
  <2> QED
    BY <1>2, <1>3, <1>9, <2>1, <2>3, <2>4, Constants, WordsAre
<1> QED
  BY <1>7, <1>8, <1>9

LEMMA ConclusionKept ==
    ASSUME InRun, NEW attempts \in Seq(Attempts), Len(attempts) <= MaxAttempts,
           \A i \in DOMAIN attempts :
              /\ attempts[i].ordinal = i
              /\ AttemptOk(attempts[i], Subject)
              /\ attempts[i].completed <= clock,
           \A i \in DOMAIN attempts : i > 1 =>
              attempts[i].started >= attempts[i - 1].completed + Delay,
           StopsOk(attempts)
    PROVE  ConditionInv(Conclusion(attempts))
<1> DEFINE others == {a.state : a \in ToSet(attempts)} \ {"pass"}
           now == Conclusion(attempts)
<1>1. \A i \in DOMAIN attempts : attempts[i].state = BatchState(attempts[i])
  BY DEF AttemptOk
<1>2. /\ Ending(attempts) = "condition-satisfied" <=> FinalState(attempts) = "pass"
      /\ Ending(attempts) = None => Open(attempts)
      /\ Ending(attempts) # None => Ending(attempts) = Termination(attempts)
      /\ Ending(attempts) = "run-deadline" => clock = Subject.deadline
  BY <1>1, EndingIs
<1>3. /\ now.attempts = attempts /\ now.termination = Ending(attempts)
      /\ now.state = IF Ending(attempts) = "condition-satisfied" THEN "pass"
                     ELSE StateFrom(others)
      /\ now.achieved = Max({0} \cup {n \in 1 .. Passes :
               \E k \in 0 .. Len(attempts) - n :
                  \A i \in 1 .. n : attempts[k + i].state = "pass"})
  BY ConclusionIs
<1>4. now.achieved = Achieved(attempts)
  <2>1. Max({0} \cup {n \in 1 .. Passes :
               \E k \in 0 .. Len(attempts) - n :
                  \A i \in 1 .. n : attempts[k + i].state = "pass"})
           = Achieved(attempts)
    BY <1>1, RowsAgree
  <2> HIDE DEF now
  <2> QED
    BY <1>3, <2>1, Zenon
<1>5. now.state = FinalState(attempts)
  <2>1. others = {BatchState(a) : a \in ToSet(attempts)} \ {"pass"}
    BY <1>1 DEF ToSet
  <2>2. FinalState(attempts) # "pass" => FinalState(attempts) = StateFrom(others)
    BY <2>1 DEF FinalState
  <2> HIDE DEF others, now
  <2> QED
    BY <1>2, <1>3, <2>2
<1> HIDE DEF now
<1>6. now.termination # None => Closed(now)
  BY <1>2, <1>3, <1>4, <1>5 DEF Closed
<1>7. now.termination = None => Open(attempts)
  BY <1>2, <1>3
<1>8. now.attempts = attempts
      /\ (now.termination = "run-deadline" => clock = Subject.deadline)
  BY <1>2, <1>3
<1> HIDE DEF others
<1> QED
  BY <1>6, <1>7, <1>8 DEF ConditionInv, now

\* One more attempt of an open condition.
LEMMA OpenGoesOn ==
    ASSUME NEW attempts \in Seq(Attempts), NEW a \in Attempts, Open(attempts)
    PROVE  /\ StopsOk(Append(attempts, a))
           /\ Len(Append(attempts, a)) <= MaxAttempts
<1> DEFINE longer == Append(attempts, a)
           n == Len(attempts)
<1>1. /\ Len(longer) = n + 1 /\ n \in Nat /\ DOMAIN attempts = 1 .. n
      /\ \A i \in 1 .. n : longer[i] = attempts[i]
  BY AppendProperties
<1> HIDE DEF longer
<1>2. n + 1 <= MaxAttempts
  <2>1. n < MaxAttempts
    BY DEF Open
  <2> QED
    BY <1>1, <2>1, Constants
<1>3. ASSUME NEW i \in 1 .. n
      PROVE  Streak(longer, i) < Passes /\ BatchState(longer[i]) # "probe-error"
  <2>1. {k \in 1 .. i : BatchState(longer[k]) # "pass"}
           = {k \in 1 .. i : BatchState(attempts[k]) # "pass"}
    BY <1>1
  <2>2. Streak(longer, i) = Streak(attempts, i)
    BY <2>1 DEF Streak
  <2> QED
    BY <1>1, <2>2 DEF Open
<1>4. Len(longer) - 1 = n
  BY <1>1
<1> QED
  BY <1>1, <1>2, <1>3, <1>4 DEF StopsOk, longer

LEMMA AttemptsOf ==
    ASSUME NEW conditions \in Seq(Conditions), NEW c \in DOMAIN conditions
    PROVE  /\ conditions[c] \in Conditions /\ conditions[c].attempts \in Seq(Attempts)
           /\ DOMAIN conditions[c].attempts = 1 .. Len(conditions[c].attempts)
           /\ Len(conditions[c].attempts) \in Nat
           /\ \A i \in DOMAIN conditions[c].attempts :
                 conditions[c].attempts[i] \in Attempts
<1>1. conditions[c] \in Conditions
  OBVIOUS
<1>2. conditions[c].attempts \in Seq(Attempts)
  BY <1>1 DEF Conditions
<1> QED
  BY <1>1, <1>2

\* Every attempt of a run is its last or comes before it.
LEMMA LastPlaceIs ==
    ASSUME NEW rec, rec.conditions \in Seq(Conditions), NEW p \in Places(rec)
    PROVE  LET c == Max(Probed(rec))
               last == <<c, Len(rec.conditions[c].attempts)>>
           IN /\ last \in Places(rec) /\ AttemptAt(rec, last) = LastAttempt(rec)
              /\ p = last \/ Precedes(p, last)
<1> DEFINE c == Max(Probed(rec))
           last == <<c, Len(rec.conditions[c].attempts)>>
<1>1. /\ p = <<p[1], p[2]>> /\ p[1] \in DOMAIN rec.conditions
      /\ p[2] \in DOMAIN rec.conditions[p[1]].attempts
  BY DEF Places
<1>2. p[1] \in Probed(rec)
  <2>1. rec.conditions[p[1]].attempts \in Seq(Attempts)
    BY <1>1, AttemptsOf
  <2> QED
    BY <1>1, <2>1 DEF Probed
<1>3. c \in Probed(rec) /\ \A d \in Probed(rec) : d <= c
  BY <1>2, RunAttemptType
<1> HIDE DEF c
<1>4. /\ c \in DOMAIN rec.conditions /\ rec.conditions[c].attempts \in Seq(Attempts)
      /\ rec.conditions[c].attempts # <<>>
  BY <1>3, AttemptsOf DEF Probed
<1>5. /\ Len(rec.conditions[c].attempts) \in DOMAIN rec.conditions[c].attempts
      /\ LastAttempt(rec) = rec.conditions[c].attempts[Len(rec.conditions[c].attempts)]
  BY <1>4 DEF LastAttempt, Last, c
<1>6. last \in Places(rec) /\ AttemptAt(rec, last) = LastAttempt(rec)
  BY <1>4, <1>5 DEF Places, AttemptAt
<1>7. p = last \/ Precedes(p, last)
  <2>1. p[1] <= c /\ p[1] \in Nat /\ c \in Nat
    BY <1>1, <1>2, <1>3, <1>4
  <2>2. CASE p[1] = c
    <3>1. p[2] \in 1 .. Len(rec.conditions[c].attempts)
      BY <1>1, <1>4, <2>2
    <3>2. Len(rec.conditions[c].attempts) \in Nat
      BY <1>4
    <3> HIDE DEF last
    <3>3. last[1] = c /\ last[2] = Len(rec.conditions[c].attempts)
          /\ last = <<last[1], last[2]>>
      BY DEF last
    <3> QED
      BY <1>1, <2>2, <3>1, <3>2, <3>3 DEF Precedes
  <2>3. CASE p[1] # c
    BY <2>1, <2>3 DEF Precedes
  <2> QED
    BY <2>2, <2>3
<1> QED
  BY <1>6, <1>7 DEF c

\* The next number has not been used.
LEMMA NumberIsNew ==
    ASSUME InRun, OrderInv, NEW p \in Places(record)
    PROVE  AttemptAt(record, p).id < Number
<1>1. record.conditions \in Seq(Conditions)
  BY CurrentIs
<1> DEFINE c == Max(Probed(record))
           last == <<c, Len(record.conditions[c].attempts)>>
<1>2. /\ last \in Places(record) /\ AttemptAt(record, last) = LastAttempt(record)
      /\ p = last \/ Precedes(p, last)
  BY <1>1, LastPlaceIs
<1>3. /\ p[1] \in DOMAIN record.conditions
      /\ p[2] \in DOMAIN record.conditions[p[1]].attempts
  BY DEF Places
<1>4. record.conditions[p[1]].attempts \in Seq(Attempts)
  BY <1>1, <1>3, AttemptsOf
<1>5. AttemptAt(record, p) \in Attempts
  BY <1>3, <1>4 DEF AttemptAt
<1>6. Probed(record) # {}
  BY <1>3, <1>4 DEF Probed
<1>7. Number = LastAttempt(record).id + 1 /\ LastAttempt(record) \in Attempts
  BY <1>1, <1>6, RunAttemptType DEF Number
<1> HIDE DEF last
<1>8. AttemptAt(record, p).id <= LastAttempt(record).id
  BY <1>2, <1>5, <1>7 DEF OrderInv, Attempts
<1> QED
  BY <1>5, <1>7, <1>8 DEF Attempts

\* The attempt that ends is accepted.
LEMMA EndedAccepted ==
    ASSUME TypeInv, AttemptInv, attempt # None, clock > attempt.started,
           NEW ended \in IF Outcome = None THEN Answered ELSE Unprobed
    PROVE  /\ ended \in Attempts /\ AttemptOk(ended, Subject)
           /\ ended.id = Number /\ ended.ordinal = Len(Current.attempts) + 1
           /\ ended.started = attempt.started /\ ended.completed = clock
<1>1. /\ ended \in Attempts
      /\ ended.id = Number /\ ended.ordinal = Len(Current.attempts) + 1
      /\ ended.started = attempt.started /\ ended.completed = clock
      /\ ended.duration = clock - attempt.started
      /\ ended.pre.digested /\ ended.post.digested
      /\ ended.code = AttemptError(ended)
      /\ ResultsOk(ended) /\ ended.state = BatchState(ended)
  BY EndedIs
<1>2. /\ clock \in Nat /\ clock <= Subject.deadline
      /\ attempt.started \in Nat /\ Subject.issued <= attempt.started
  <2>1. attempt \in AttemptsBegun
    BY DEF TypeInv
  <2>2. attempt.started \in Subject.issued .. Subject.deadline
    BY <2>1 DEF AttemptsBegun
  <2> QED
    BY <2>2, SubjectIs DEF TypeInv
<1>3. clock <= attempt.started + AttemptTicks
  BY DEF AttemptInv
<1>4. clock - attempt.started <= AttemptTicks
  BY <1>2, <1>3, Constants
<1>5. TimeOk(ended, Subject)
  BY <1>1, <1>2, <1>4 DEF TimeOk
<1> QED
  BY <1>1, <1>5 DEF AttemptOk

\* The places of a run whose current condition has one more attempt.
LEMMA LongerPlaces ==
    ASSUME InRun, NEW a \in Attempts,
           record' = Concluded(Append(Current.attempts, a))
    PROVE  LET new == <<Len(record.conditions), Len(Current.attempts) + 1>>
           IN /\ Places(record') \subseteq Places(record) \cup {new}
              /\ AttemptAt(record', new) = a
              /\ \A p \in Places(record) :
                   /\ p # new /\ ~Precedes(new, p)
                   /\ AttemptAt(record', p) = AttemptAt(record, p)
<1> DEFINE n == Len(record.conditions)
           l == Len(Current.attempts)
           longer == Append(Current.attempts, a)
           new == <<n, l + 1>>
<1>1. /\ record.conditions \in Seq(Conditions) /\ n \in DOMAIN record.conditions
      /\ n \in Nat /\ DOMAIN record.conditions = 1 .. n
      /\ Current = record.conditions[n] /\ Current.attempts \in Seq(Attempts)
      /\ l \in Nat /\ DOMAIN Current.attempts = 1 .. l
  BY CurrentIs
<1>2. /\ longer \in Seq(Attempts) /\ DOMAIN longer = 1 .. l + 1
      /\ longer[l + 1] = a
      /\ \A i \in 1 .. l : longer[i] = Current.attempts[i]
  BY <1>1, AppendProperties
<1>3. /\ DOMAIN record'.conditions = DOMAIN record.conditions
      /\ record'.conditions[n] = Conclusion(longer)
      /\ Conclusion(longer).attempts = longer
      /\ \A i \in DOMAIN record.conditions : i # n =>
            record'.conditions[i] = record.conditions[i]
  BY <1>2, ConcludedIs, ConclusionIs
<1> HIDE DEF longer, n, l
<1>4. ASSUME NEW c \in DOMAIN record.conditions
      PROVE  DOMAIN record'.conditions[c].attempts
                = IF c = n THEN 1 .. l + 1 ELSE DOMAIN record.conditions[c].attempts
  BY <1>2, <1>3
<1>5. Places(record') \subseteq Places(record) \cup {new}
  <2>1. ASSUME NEW p \in Places(record') PROVE p \in Places(record) \cup {new}
    <3>1. PICK c \in DOMAIN record.conditions :
            p \in {c} \X DOMAIN record'.conditions[c].attempts
      BY <1>3 DEF Places
    <3>2. p = <<c, p[2]>> /\ p[2] \in DOMAIN record'.conditions[c].attempts
      BY <3>1
    <3>3. CASE c = n /\ p[2] = l + 1
      BY <3>2, <3>3
    <3>4. CASE ~(c = n /\ p[2] = l + 1)
      <4>1. p[2] \in DOMAIN record.conditions[c].attempts
        BY <1>1, <1>4, <3>2, <3>4
      <4> QED
        BY <3>2, <4>1 DEF Places
    <3> QED
      BY <3>3, <3>4
  <2> QED
    BY <2>1
<1>6. AttemptAt(record', new) = a
  BY <1>2, <1>3 DEF AttemptAt
<1>7. ASSUME NEW p \in Places(record)
      PROVE  /\ p # new /\ ~Precedes(new, p)
             /\ AttemptAt(record', p) = AttemptAt(record, p)
  <2>1. /\ p[1] \in DOMAIN record.conditions
        /\ p[2] \in DOMAIN record.conditions[p[1]].attempts
    BY DEF Places
  <2>2. CASE p[1] = n
    <3>1. p[2] \in 1 .. l
      BY <1>1, <2>1, <2>2
    <3> QED
      BY <1>1, <1>2, <1>3, <2>2, <3>1 DEF Precedes, AttemptAt
  <2>3. CASE p[1] # n
    <3>1. p[1] \in 1 .. n
      BY <1>1, <2>1
    <3> QED
      BY <1>1, <1>3, <2>1, <2>3, <3>1 DEF Precedes, AttemptAt
  <2> QED
    BY <2>2, <2>3
<1> QED
  BY <1>5, <1>6, <1>7 DEF n, l

LEMMA FinishKept ==
    ASSUME TypeInv, RunInv, FinishAttempt
    PROVE  RunInv'
<1> DEFINE n == Len(record.conditions)
           l == Len(Current.attempts)
           new == <<n, l + 1>>
<1>1. PICK ended \in IF Outcome = None THEN Answered ELSE Unprobed :
        record' = Concluded(Append(Current.attempts, ended))
  BY DEF FinishAttempt
<1>2. /\ attempt # None /\ clock > attempt.started /\ attempt' = None
      /\ clock' = clock /\ InRun /\ AttemptInv /\ OrderInv
      /\ Current.termination = None
  BY DEF FinishAttempt, TypeInv, Probing, RunInv
<1>3. /\ ended \in Attempts /\ AttemptOk(ended, Subject)
      /\ ended.id = Number /\ ended.ordinal = l + 1
      /\ ended.started = attempt.started /\ ended.completed = clock
  BY <1>1, <1>2, EndedAccepted
<1> DEFINE attempts == Current.attempts
           longer == Append(attempts, ended)
<1>4. /\ record.conditions \in Seq(Conditions) /\ n \in DOMAIN record.conditions
      /\ DOMAIN record.conditions = 1 .. n
      /\ Current = record.conditions[n] /\ attempts \in Seq(Attempts)
      /\ l \in Nat /\ DOMAIN attempts = 1 .. l
  BY <1>2, CurrentIs
<1>5. ConditionInv(Current)
  BY <1>4 DEF RunInv
<1>6. Open(attempts)
  BY <1>2, <1>5 DEF ConditionInv
<1>7. StopsOk(longer) /\ Len(longer) <= MaxAttempts
  BY <1>3, <1>4, <1>6, OpenGoesOn
<1>8. /\ longer \in Seq(Attempts) /\ DOMAIN longer = 1 .. l + 1
      /\ longer[l + 1] = ended /\ \A i \in 1 .. l : longer[i] = attempts[i]
  BY <1>3, <1>4, AppendProperties
<1> HIDE DEF longer
<1>9. \A i \in DOMAIN longer :
        /\ longer[i].ordinal = i
        /\ AttemptOk(longer[i], Subject)
        /\ longer[i].completed <= clock
  <2>1. ASSUME NEW i \in 1 .. l
        PROVE  /\ longer[i].ordinal = i /\ AttemptOk(longer[i], Subject)
               /\ longer[i].completed <= clock
    BY <1>4, <1>5, <1>8 DEF ConditionInv
  <2>2. /\ longer[l + 1].ordinal = l + 1 /\ AttemptOk(longer[l + 1], Subject)
        /\ longer[l + 1].completed <= clock
    <3>1. clock <= clock
      BY SubjectIs DEF TypeInv
    <3> QED
      BY <1>3, <1>8, <3>1
  <2> QED
    BY <1>4, <1>8, <2>1, <2>2, SMTT(40)
<1>10. \A i \in DOMAIN longer : i > 1 =>
         longer[i].started >= longer[i - 1].completed + Delay
  <2>1. ASSUME NEW i \in 2 .. l
        PROVE  longer[i].started >= longer[i - 1].completed + Delay
    <3>1. i \in DOMAIN attempts /\ i > 1 /\ i \in 1 .. l /\ i - 1 \in 1 .. l
      BY <1>4
    <3>2. attempts[i].started >= attempts[i - 1].completed + Delay
      BY <1>5, <3>1 DEF ConditionInv
    <3> QED
      BY <1>8, <3>1, <3>2
  <2>2. ASSUME l >= 1
        PROVE  longer[l + 1].started >= longer[l + 1 - 1].completed + Delay
    <3>1. attempts # <<>> /\ Last(attempts) = attempts[l] /\ l \in 1 .. l
          /\ l + 1 - 1 = l
      BY <1>4, <2>2 DEF Last
    <3>2. attempt.started >= attempts[l].completed + Delay
      BY <1>2, <3>1 DEF AttemptInv
    <3> QED
      BY <1>3, <1>8, <3>1, <3>2
  <2>3. \A i \in DOMAIN longer : i > 1 => i \in 2 .. l \/ (i = l + 1 /\ l >= 1)
    BY <1>4, <1>8
  <2> QED
    BY <2>1, <2>2, <2>3
<1>11. ConditionInv(Conclusion(longer))
  BY <1>2, <1>7, <1>8, <1>9, <1>10, ConclusionKept
<1>12. /\ DOMAIN record'.conditions = DOMAIN record.conditions
       /\ record'.conditions[n] = Conclusion(longer)
       /\ \A i \in DOMAIN record.conditions : i # n =>
             record'.conditions[i] = record.conditions[i]
  BY <1>1, <1>2, <1>8, ConcludedIs DEF longer
<1>13. (\A i \in DOMAIN record.conditions : ConditionInv(record.conditions[i]))'
  <2>1. ASSUME NEW i \in DOMAIN record'.conditions
        PROVE  ConditionInv(record'.conditions[i])
    <3>1. CASE i = n
      BY <1>11, <1>12, <3>1
    <3>2. CASE i # n
      BY <1>12, <3>2 DEF RunInv
    <3> QED
      BY <3>1, <3>2
  <2> QED
    BY <1>2, <2>1 DEF ConditionInv
<1>15. /\ Places(record') \subseteq Places(record) \cup {new}
       /\ AttemptAt(record', new) = ended
       /\ \A p \in Places(record) :
            /\ p # new /\ ~Precedes(new, p)
            /\ AttemptAt(record', p) = AttemptAt(record, p)
  BY <1>1, <1>2, <1>3, LongerPlaces
<1> HIDE DEF new
<1>16. ASSUME NEW p \in Places(record'), NEW q \in Places(record'), Precedes(p, q)
       PROVE  /\ AttemptAt(record', p).id < AttemptAt(record', q).id
              /\ AttemptAt(record', p).completed <= AttemptAt(record', q).started
  <2>1. CASE p \in Places(record) /\ q \in Places(record)
    BY <1>2, <1>15, <1>16, <2>1 DEF OrderInv
  <2>2. CASE p \in Places(record) /\ q = new
    <3>1. AttemptAt(record, p).id < Number
      BY <1>2, <2>2, NumberIsNew
    <3>2. AttemptAt(record, p).completed <= attempt.started
      BY <1>2, <2>2 DEF AttemptInv
    <3> QED
      BY <1>3, <1>15, <2>2, <3>1, <3>2
  <2>3. CASE p = new /\ q \in Places(record)
    BY <1>15, <1>16, <2>3
  <2>4. CASE p = new /\ q = new
    <3>1. ~Precedes(new, new)
      BY <1>4 DEF Precedes, new
    <3> QED
      BY <1>16, <2>4, <3>1
  <2> QED
    BY <1>15, <2>1, <2>2, <2>3, <2>4
<1>17. ASSUME NEW i \in DOMAIN record'.conditions, NEW j \in DOMAIN record'.conditions,
              i < j, record'.conditions[i].termination = "run-deadline"
       PROVE  record'.conditions[j].attempts = <<>>
  <2>1. i \in 1 .. n /\ j \in 1 .. n /\ i # n
    BY <1>4, <1>12, <1>17
  <2>2. record.conditions[i].termination = "run-deadline"
    BY <1>4, <1>12, <1>17, <2>1
  <2> QED
    BY <1>2, <1>4, <2>1, <2>2 DEF AttemptInv
<1>18. OrderInv'
  BY <1>16, <1>17 DEF OrderInv
<1>19. AttemptInv'
  BY <1>2 DEF AttemptInv
<1> QED
  BY <1>13, <1>18, <1>19 DEF RunInv

LEMMA SamePlaces ==
    ASSUME NEW rec, NEW new, DOMAIN rec.conditions \subseteq DOMAIN new.conditions,
           \A c \in DOMAIN rec.conditions :
              new.conditions[c].attempts = rec.conditions[c].attempts,
           \A c \in (DOMAIN new.conditions) \ DOMAIN rec.conditions :
              new.conditions[c].attempts = <<>>
    PROVE  /\ Places(new) = Places(rec)
           /\ \A p \in Places(rec) : AttemptAt(new, p) = AttemptAt(rec, p)
<1>1. ASSUME NEW p \in Places(new) PROVE p \in Places(rec)
  <2>1. PICK c \in DOMAIN new.conditions : p \in {c} \X DOMAIN new.conditions[c].attempts
    BY DEF Places
  <2>2. new.conditions[c].attempts # <<>>
    BY <2>1
  <2>3. c \in DOMAIN rec.conditions
    BY <2>1, <2>2
  <2> QED
    BY <2>1, <2>3 DEF Places
<1>2. ASSUME NEW p \in Places(rec)
      PROVE  p \in Places(new) /\ AttemptAt(new, p) = AttemptAt(rec, p)
  <2>1. PICK c \in DOMAIN rec.conditions : p \in {c} \X DOMAIN rec.conditions[c].attempts
    BY DEF Places
  <2>2. p \in {c} \X DOMAIN new.conditions[c].attempts /\ c \in DOMAIN new.conditions
    BY <2>1
  <2>3. p[1] = c
    BY <2>1
  <2> QED
    BY <2>1, <2>2, <2>3 DEF Places, AttemptAt
<1> QED
  BY <1>1, <1>2

LEMMA StartKept ==
    ASSUME TypeInv, RunInv, StartAttempt
    PROVE  RunInv'
<1>1. /\ clock < Subject.deadline /\ attempt' = [started |-> clock, pre |-> target]
      /\ UNCHANGED <<clock, target, record, forgeries>>
      /\ Current.attempts # <<>> => clock >= Last(Current.attempts).completed + Delay
      /\ InRun /\ clock \in Nat
  BY SubjectIs DEF StartAttempt, MayStart, Probing, TypeInv
<1>2. ASSUME NEW p \in Places(record) PROVE AttemptAt(record, p).completed <= clock
  <2>1. /\ p[1] \in DOMAIN record.conditions
        /\ p[2] \in DOMAIN record.conditions[p[1]].attempts
    BY DEF Places
  <2> QED
    BY <2>1 DEF RunInv, ConditionInv, AttemptAt
<1>3. \A i \in DOMAIN record.conditions :
        record.conditions[i].termination # "run-deadline"
  BY <1>1, SubjectIs DEF RunInv, ConditionInv
<1>4. AttemptInv'
  <2>1. attempt'.started = clock /\ clock <= clock /\ clock <= clock + AttemptTicks
    BY <1>1, Constants
  <2> QED
    BY <1>1, <1>2, <1>3, <2>1 DEF AttemptInv, Current, Places, AttemptAt
<1>5. (\A i \in DOMAIN record.conditions : ConditionInv(record.conditions[i]))'
  BY <1>1 DEF RunInv, ConditionInv
<1>6. OrderInv'
  BY <1>1 DEF RunInv, OrderInv, Places, AttemptAt
<1> QED
  BY <1>4, <1>5, <1>6 DEF RunInv

LEMMA RunOutKept ==
    ASSUME TypeInv, RunInv, RunOut
    PROVE  RunInv'
<1> DEFINE n == Len(record.conditions)
           attempts == Current.attempts
<1>1. /\ record' = Concluded(attempts) /\ attempt' = None /\ clock' = clock
      /\ InRun /\ Current.termination = None
  BY DEF RunOut, TypeInv, Probing
<1>2. /\ record.conditions \in Seq(Conditions) /\ n \in DOMAIN record.conditions
      /\ DOMAIN record.conditions = 1 .. n
      /\ Current = record.conditions[n] /\ attempts \in Seq(Attempts)
  BY <1>1, CurrentIs
<1>3. ConditionInv(Current)
  BY <1>2 DEF RunInv
<1>4. Len(attempts) <= MaxAttempts
  <2>1. Len(attempts) < MaxAttempts /\ Len(attempts) \in Nat
    BY <1>1, <1>2, <1>3 DEF ConditionInv, Open
  <2> QED
    BY <2>1, Constants
<1>5. /\ \A i \in DOMAIN attempts :
           /\ attempts[i].ordinal = i
           /\ AttemptOk(attempts[i], Subject)
           /\ attempts[i].completed <= clock
      /\ \A i \in DOMAIN attempts : i > 1 =>
           attempts[i].started >= attempts[i - 1].completed + Delay
      /\ StopsOk(attempts)
  BY <1>3 DEF ConditionInv
<1> HIDE DEF attempts
<1>6. ConditionInv(Conclusion(attempts))
  BY <1>1, <1>2, <1>4, <1>5, ConclusionKept
<1>7. /\ DOMAIN record'.conditions = DOMAIN record.conditions
      /\ record'.conditions[n] = Conclusion(attempts)
      /\ Conclusion(attempts).attempts = attempts
      /\ \A i \in DOMAIN record.conditions : i # n =>
            record'.conditions[i] = record.conditions[i]
  BY <1>1, <1>2, ConcludedIs, ConclusionIs
<1>8. (\A i \in DOMAIN record.conditions : ConditionInv(record.conditions[i]))'
  <2>1. ASSUME NEW i \in DOMAIN record'.conditions
        PROVE  ConditionInv(record'.conditions[i])
    <3>1. CASE i = n
      BY <1>6, <1>7, <3>1
    <3>2. CASE i # n
      BY <1>7, <3>2 DEF RunInv
    <3> QED
      BY <3>1, <3>2
  <2> QED
    BY <1>1, <2>1 DEF ConditionInv
<1>9. \A c \in DOMAIN record.conditions :
        record'.conditions[c].attempts = record.conditions[c].attempts
  BY <1>2, <1>7 DEF attempts
<1>10. /\ Places(record') = Places(record)
       /\ \A p \in Places(record) : AttemptAt(record', p) = AttemptAt(record, p)
  BY <1>7, <1>9, SamePlaces
<1>11. OrderInv'
  <2>1. \A p, q \in Places(record') : Precedes(p, q) =>
          /\ AttemptAt(record', p).id < AttemptAt(record', q).id
          /\ AttemptAt(record', p).completed <= AttemptAt(record', q).started
    BY <1>10 DEF RunInv, OrderInv
  <2>2. ASSUME NEW i \in DOMAIN record'.conditions, NEW j \in DOMAIN record'.conditions,
               i < j, record'.conditions[i].termination = "run-deadline"
        PROVE  record'.conditions[j].attempts = <<>>
    <3>1. i # n /\ i \in DOMAIN record.conditions /\ j \in DOMAIN record.conditions
      BY <1>2, <1>7, <2>2
    <3>2. record.conditions[i].termination = "run-deadline"
      BY <1>7, <2>2, <3>1
    <3>3. record.conditions[j].attempts = <<>>
      BY <2>2, <3>1, <3>2 DEF RunInv, OrderInv
    <3> QED
      BY <1>9, <3>1, <3>3
  <2> QED
    BY <2>1, <2>2 DEF OrderInv
<1>12. AttemptInv'
  BY <1>1 DEF AttemptInv
<1> QED
  BY <1>8, <1>11, <1>12 DEF RunInv

LEMMA NextKept ==
    ASSUME TypeInv, RunInv, NextCondition
    PROVE  RunInv'
<1> DEFINE n == Len(record.conditions)
           new == NewCondition(n + 1)
<1>1. /\ record' = [record EXCEPT !.conditions = Append(record.conditions, new)]
      /\ attempt' = attempt /\ clock' = clock /\ InRun /\ attempt = None
  BY DEF NextCondition, TypeInv, Probing
<1>2. record.conditions \in Seq(Conditions) /\ n \in Nat
      /\ DOMAIN record.conditions = 1 .. n
  BY <1>1, CurrentIs
<1>3. new.attempts = <<>> /\ new.termination = None
  BY DEF NewCondition
<1> HIDE DEF new
<1>4. record'.conditions = Append(record.conditions, new)
  BY <1>1 DEF InRun
<1>5. /\ DOMAIN record'.conditions = 1 .. n + 1
      /\ record'.conditions[n + 1] = new
      /\ \A i \in 1 .. n : record'.conditions[i] = record.conditions[i]
  BY <1>2, <1>4
<1>6. ConditionInv(new)
  <2>1. Open(<<>>) /\ StopsOk(<<>>)
    BY Constants DEF Open, StopsOk
  <2> QED
    BY <1>3, <2>1, Constants, WordsAre DEF ConditionInv
<1>7. (\A i \in DOMAIN record.conditions : ConditionInv(record.conditions[i]))'
  <2>1. ASSUME NEW i \in DOMAIN record'.conditions
        PROVE  ConditionInv(record'.conditions[i])
    <3>1. CASE i = n + 1
      BY <1>5, <1>6, <3>1
    <3>2. CASE i # n + 1
      <4>1. i \in 1 .. n
        BY <1>2, <1>5, <3>2
      <4> QED
        BY <1>2, <1>5, <4>1 DEF RunInv
    <3> QED
      BY <3>1, <3>2
  <2> QED
    BY <1>1, <2>1 DEF ConditionInv
<1>8. /\ DOMAIN record.conditions \subseteq DOMAIN record'.conditions
      /\ \A c \in DOMAIN record.conditions :
            record'.conditions[c].attempts = record.conditions[c].attempts
      /\ \A c \in (DOMAIN record'.conditions) \ DOMAIN record.conditions :
            c = n + 1 /\ record'.conditions[c].attempts = <<>>
  BY <1>2, <1>3, <1>5
<1>9. /\ Places(record') = Places(record)
      /\ \A p \in Places(record) : AttemptAt(record', p) = AttemptAt(record, p)
  BY <1>8, SamePlaces
<1>10. OrderInv'
  <2>1. \A p, q \in Places(record') : Precedes(p, q) =>
          /\ AttemptAt(record', p).id < AttemptAt(record', q).id
          /\ AttemptAt(record', p).completed <= AttemptAt(record', q).started
    BY <1>9 DEF RunInv, OrderInv
  <2>2. ASSUME NEW i \in DOMAIN record'.conditions, NEW j \in DOMAIN record'.conditions,
               i < j, record'.conditions[i].termination = "run-deadline"
        PROVE  record'.conditions[j].attempts = <<>>
    <3>1. CASE j = n + 1
      BY <1>3, <1>5, <3>1
    <3>2. CASE j # n + 1
      <4>1. i \in DOMAIN record.conditions /\ j \in DOMAIN record.conditions
        BY <1>2, <1>5, <2>2, <3>2
      <4>2. record.conditions[i].termination = "run-deadline"
        BY <1>2, <1>5, <2>2, <4>1
      <4> QED
        BY <1>8, <2>2, <4>1, <4>2 DEF RunInv, OrderInv
    <3> QED
      BY <3>1, <3>2
  <2> QED
    BY <2>1, <2>2 DEF OrderInv
<1>11. AttemptInv'
  BY <1>1 DEF AttemptInv
<1> QED
  BY <1>7, <1>10, <1>11 DEF RunInv

LEMMA TickKept ==
    ASSUME TypeInv, RunInv, Tick
    PROVE  RunInv'
<1>1. /\ clock < Subject.deadline /\ clock' = clock + 1 /\ clock \in Nat
      /\ attempt' = attempt /\ record' = record /\ InRun
      /\ attempt # None => clock < attempt.started + AttemptTicks
  BY SubjectIs DEF Tick, TypeInv
<1>2. ASSUME NEW i \in DOMAIN record.conditions
      PROVE  /\ record.conditions[i].termination # "run-deadline"
             /\ \A k \in DOMAIN record.conditions[i].attempts :
                  record.conditions[i].attempts[k].completed <= clock + 1
  <2>1. ConditionInv(record.conditions[i])
    BY DEF RunInv
  <2>2. record.conditions[i].termination # "run-deadline"
    BY <1>1, <2>1, SubjectIs DEF ConditionInv
  <2>3. \A k \in DOMAIN record.conditions[i].attempts :
          record.conditions[i].attempts[k] \in Attempts
    BY <1>1, CurrentIs, AttemptsOf
  <2>4. \A k \in DOMAIN record.conditions[i].attempts :
          /\ record.conditions[i].attempts[k].completed \in Nat
          /\ record.conditions[i].attempts[k].completed <= clock
    BY <2>1, <2>3 DEF ConditionInv, Attempts
  <2> QED
    BY <1>1, <2>2, <2>4
<1>3. (\A i \in DOMAIN record.conditions : ConditionInv(record.conditions[i]))'
  <2>1. ASSUME NEW i \in DOMAIN record.conditions
        PROVE  ConditionInv(record.conditions[i])'
    <3>1. ConditionInv(record.conditions[i])
      BY DEF RunInv
    <3> QED
      BY <1>1, <1>2, <3>1 DEF ConditionInv
  <2> QED
    BY <1>1, <2>1
<1>4. AttemptInv'
  <2>1. ASSUME attempt # None
        PROVE  clock + 1 <= attempt.started + AttemptTicks /\ attempt.started <= clock + 1
    <3>1. attempt.started \in Nat
      <4>1. attempt \in AttemptsBegun
        BY <2>1 DEF TypeInv
      <4>2. attempt.started \in Subject.issued .. Subject.deadline
        BY <4>1 DEF AttemptsBegun
      <4> QED
        BY <4>2, SubjectIs
    <3>2. attempt.started <= clock
      BY <2>1 DEF RunInv, AttemptInv
    <3> QED
      BY <1>1, <2>1, <3>1, <3>2, Constants
  <2> QED
    BY <1>1, <2>1 DEF RunInv, AttemptInv, Current, Places, AttemptAt
<1>5. OrderInv'
  BY <1>1 DEF RunInv, OrderInv, Places, AttemptAt
<1> QED
  BY <1>3, <1>4, <1>5 DEF RunInv

\* The first attempt of a run is its last or comes before it.
LEMMA FirstPlaceIs ==
    ASSUME NEW rec, rec.conditions \in Seq(Conditions), Probed(rec) # {}
    PROVE  LET first == <<Min(Probed(rec)), 1>>
               c == Max(Probed(rec))
               last == <<c, Len(rec.conditions[c].attempts)>>
           IN /\ first \in Places(rec) /\ AttemptAt(rec, first) = FirstAttempt(rec)
              /\ last \in Places(rec) /\ AttemptAt(rec, last) = LastAttempt(rec)
              /\ first = last \/ Precedes(first, last)
<1> DEFINE c == Min(Probed(rec))
<1>1. c \in Probed(rec)
  BY RunAttemptType
<1> HIDE DEF c
<1>2. /\ c \in DOMAIN rec.conditions /\ rec.conditions[c].attempts \in Seq(Attempts)
      /\ rec.conditions[c].attempts # <<>>
  BY <1>1, AttemptsOf DEF Probed
<1>3. /\ 1 \in DOMAIN rec.conditions[c].attempts
      /\ FirstAttempt(rec) = rec.conditions[c].attempts[1]
  BY <1>2 DEF FirstAttempt, c
<1>4. <<c, 1>> \in Places(rec) /\ AttemptAt(rec, <<c, 1>>) = FirstAttempt(rec)
  BY <1>2, <1>3 DEF Places, AttemptAt
<1> QED
  BY <1>4, LastPlaceIs DEF c

LEMMA PrecedesTotal ==
    ASSUME NEW rec, rec.conditions \in Seq(Conditions),
           NEW p \in Places(rec), NEW q \in Places(rec)
    PROVE  p = q \/ Precedes(p, q) \/ Precedes(q, p)
<1>1. /\ p = <<p[1], p[2]>> /\ p[1] \in DOMAIN rec.conditions
      /\ p[2] \in DOMAIN rec.conditions[p[1]].attempts
      /\ q = <<q[1], q[2]>> /\ q[1] \in DOMAIN rec.conditions
      /\ q[2] \in DOMAIN rec.conditions[q[1]].attempts
  BY DEF Places
<1>2. p[1] \in Nat /\ q[1] \in Nat
  BY <1>1
<1>3. p[2] \in Nat /\ q[2] \in Nat
  <2>1. /\ DOMAIN rec.conditions[p[1]].attempts \subseteq Nat
        /\ DOMAIN rec.conditions[q[1]].attempts \subseteq Nat
    BY <1>1, AttemptsOf
  <2> QED
    BY <1>1, <2>1
<1> QED
  BY <1>1, <1>2, <1>3 DEF Precedes

\* What holds of the record when the verifier signs it.
LEMMA SigningIs ==
    ASSUME TypeInv, RunInv, Sign
    PROVE  /\ InRun /\ record.conditions \in Seq(Conditions)
           /\ DOMAIN record.conditions = DOMAIN Descriptors
           /\ \A i \in DOMAIN record.conditions :
                /\ record.conditions[i].id = i
                /\ record.conditions[i].path = Descriptors[i]
                /\ Closed(record.conditions[i])
                /\ ConditionOk(record.conditions[i], Subject)
           /\ \A p, q \in Places(record) : Precedes(p, q) =>
                /\ AttemptAt(record, p).id < AttemptAt(record, q).id
                /\ AttemptAt(record, p).completed <= AttemptAt(record, q).started
           /\ \A p \in Places(record) :
                AttemptAt(record, p) \in Attempts /\ TimeOk(AttemptAt(record, p), Subject)
<1>1. /\ InRun /\ record.conditions \in Seq(Conditions)
      /\ Len(record.conditions) = 2 + Contracts
      /\ Current = record.conditions[Len(record.conditions)]
      /\ Current.termination # None
  BY CurrentIs, DescriptorsAre DEF TypeInv, Sign
<1>2. DOMAIN record.conditions = DOMAIN Descriptors
  BY <1>1, DescriptorsAre
<1>3. ASSUME NEW i \in DOMAIN record.conditions
      PROVE  /\ record.conditions[i].id = i
             /\ record.conditions[i].path = Descriptors[i]
             /\ Closed(record.conditions[i])
             /\ ConditionOk(record.conditions[i], Subject)
  <2>1. ConditionInv(record.conditions[i])
    BY DEF RunInv
  <2>2. record.conditions[i].termination # None
    BY <1>1 DEF InRun
  <2>3. Closed(record.conditions[i])
    BY <2>1, <2>2 DEF ConditionInv
  <2>4. ConditionOk(record.conditions[i], Subject)
    BY <2>1, <2>3 DEF ConditionInv, ConditionOk, Closed
  <2> QED
    BY <1>1, <2>3, <2>4 DEF InRun
<1>4. ASSUME NEW p \in Places(record)
      PROVE  AttemptAt(record, p) \in Attempts /\ TimeOk(AttemptAt(record, p), Subject)
  <2>1. /\ p[1] \in DOMAIN record.conditions
        /\ p[2] \in DOMAIN record.conditions[p[1]].attempts
    BY DEF Places
  <2>2. AttemptOk(AttemptAt(record, p), Subject)
    BY <1>3, <2>1 DEF ConditionOk, AttemptAt
  <2>3. AttemptAt(record, p) \in Attempts
    BY <1>1, <2>1, AttemptsOf DEF AttemptAt
  <2> QED
    BY <2>2, <2>3 DEF AttemptOk
<1> QED
  BY <1>1, <1>2, <1>3, <1>4 DEF RunInv, OrderInv

LEMMA SignedRunOk ==
    ASSUME TypeInv, RunInv, Sign
    PROVE  RunOk(record')
<1>1. record'.conditions = record.conditions
  BY SignedIs
<1>2. /\ Places(record') = Places(record)
      /\ \A p : AttemptAt(record', p) = AttemptAt(record, p)
  BY <1>1 DEF Places, AttemptAt
<1>3. ASSUME NEW p \in Places(record), NEW q \in Places(record),
             AttemptAt(record, p).id = AttemptAt(record, q).id
      PROVE  p = q
  <2>1. AttemptAt(record, p).id \in Nat
    BY SigningIs DEF Attempts
  <2>2. ~Precedes(p, q) /\ ~Precedes(q, p)
    BY <1>3, <2>1, SigningIs
  <2> QED
    BY <2>2, SigningIs, PrecedesTotal
<1>4. ASSUME NEW p \in Places(record), NEW q \in Places(record), Precedes(p, q)
      PROVE  AttemptAt(record, q).started >= AttemptAt(record, p).completed
  <2>1. /\ AttemptAt(record, p).completed \in Nat /\ AttemptAt(record, q).started \in Nat
        /\ AttemptAt(record, p).completed <= AttemptAt(record, q).started
    BY <1>4, SigningIs DEF Attempts
  <2> QED
    BY <2>1
<1>5. ASSUME NEW i \in DOMAIN record.conditions, NEW j \in DOMAIN record.conditions,
             i < j, Termination(record.conditions[i].attempts) = "run-deadline"
      PROVE  record.conditions[j].attempts = <<>>
  <2>1. record.conditions[i].termination = "run-deadline"
    BY <1>5, SigningIs DEF Closed
  <2> QED
    BY <1>5, <2>1 DEF RunInv, OrderInv
<1> QED
  BY <1>1, <1>2, <1>3, <1>4, <1>5 DEF RunOk

LEMMA SignedReductionsOk ==
    ASSUME TypeInv, RunInv, Sign
    PROVE  ReductionsOk(record')
<1>1. /\ record'.conditions = record.conditions
      /\ record'.paths = [i \in DOMAIN PathConditions |->
            StateFrom({c.state : c \in {d \in ToSet(record.conditions) :
                                           d.path = PathConditions[i]}})]
      /\ record'.aggregate = StateFrom(ToSet(record'.paths))
      /\ record'.satisfied = (record'.aggregate = "pass")
  BY SignedIs
<1>2. ASSUME NEW path
      PROVE  PathState(record', path) =
               StateFrom({c.state : c \in {d \in ToSet(record.conditions) :
                                              d.path = path}})
  <2> DEFINE finals == {FinalState(record.conditions[i].attempts) :
                          i \in {k \in DOMAIN Descriptors : Descriptors[k] = path}}
             states == {c.state : c \in {d \in ToSet(record.conditions) : d.path = path}}
  <2>1. \A i \in DOMAIN Descriptors :
          /\ i \in DOMAIN record.conditions
          /\ record.conditions[i].path = Descriptors[i]
          /\ record.conditions[i].state = FinalState(record.conditions[i].attempts)
    BY SigningIs DEF Closed
  <2>2. finals \subseteq states
    BY <2>1 DEF ToSet
  <2>3. states \subseteq finals
    <3>1. ASSUME NEW state \in states PROVE state \in finals
      <4>1. PICK c \in ToSet(record.conditions) : c.path = path /\ state = c.state
        BY <3>1
      <4>2. PICK i \in DOMAIN record.conditions : c = record.conditions[i]
        BY <4>1 DEF ToSet
      <4>3. i \in DOMAIN Descriptors
        BY <4>2, SigningIs
      <4> QED
        BY <2>1, <4>1, <4>2, <4>3
    <3> QED
      BY <3>1
  <2>4. finals = states
    BY <2>2, <2>3
  <2>5. PathState(record', path) = StateFrom(finals)
    BY <1>1 DEF PathState
  <2> QED
    BY <2>4, <2>5
<1>3. record'.paths =
        [i \in DOMAIN PathConditions |-> PathState(record', PathConditions[i])]
  BY <1>1, <1>2
<1>4. ToSet(record'.paths) = {PathState(record', path) : path \in ToSet(PathConditions)}
  <2> DEFINE state(path) == PathState(record', path)
  <2>1. record'.paths = [i \in DOMAIN PathConditions |-> state(PathConditions[i])]
    BY <1>3
  <2> HIDE DEF state
  <2>2. ToSet(record'.paths) = {state(path) : path \in ToSet(PathConditions)}
    BY <2>1 DEF ToSet
  <2> QED
    BY <2>2 DEF state
<1>5. record'.aggregate = Aggregate(record')
  BY <1>1, <1>4, SMTT(40) DEF Aggregate
<1> QED
  BY <1>1, <1>3, <1>5 DEF ReductionsOk

LEMMA SignedTimesOk ==
    ASSUME TypeInv, RunInv, Sign
    PROVE  TimesOk(record')
<1> DEFINE first == FirstAttempt(record)
           last == LastAttempt(record)
           late == \E c \in ToSet(record.conditions) : c.termination = "run-deadline"
<1>1. /\ record'.conditions = record.conditions /\ record'.subject = Subject
      /\ record'.started = IF Probed(record) = {} THEN Subject.issued ELSE first.started
      /\ record'.completed = IF Probed(record) = {} \/ late THEN Subject.deadline
                             ELSE last.completed
      /\ record'.expires = Subject.deadline + 1
  BY SignedIs
<1>2. /\ Probed(record') = Probed(record) /\ FirstAttempt(record') = first
      /\ LastAttempt(record') = last
  BY <1>1 DEF Probed, FirstAttempt, LastAttempt
<1>3. late <=> \E i \in DOMAIN record.conditions :
                  Termination(record.conditions[i].attempts) = "run-deadline"
  BY SigningIs DEF ToSet, Closed
<1>4. EndsByDeadline(record') <=> Probed(record) = {} \/ late
  BY <1>1, <1>2, <1>3 DEF EndsByDeadline
<1> HIDE DEF late, first, last
<1>5. ASSUME Probed(record) # {}
      PROVE  /\ Subject.issued <= first.started /\ first.started < last.completed
             /\ first.started < Subject.deadline /\ last.completed <= Subject.deadline
  <2> DEFINE p == <<Min(Probed(record)), 1>>
             q == <<Max(Probed(record)),
                    Len(record.conditions[Max(Probed(record))].attempts)>>
  <2>1. /\ p \in Places(record) /\ AttemptAt(record, p) = first
        /\ q \in Places(record) /\ AttemptAt(record, q) = last
        /\ p = q \/ Precedes(p, q)
    BY <1>5, SigningIs, FirstPlaceIs DEF first, last
  <2> HIDE DEF p, q
  <2>2. /\ first \in Attempts /\ last \in Attempts
        /\ TimeOk(first, Subject) /\ TimeOk(last, Subject)
    BY <2>1, SigningIs
  <2>3. first = last \/ first.completed <= last.started
    BY <2>1, SigningIs
  <2>4. /\ first.started \in Nat /\ first.completed \in Nat
        /\ last.started \in Nat /\ last.completed \in Nat
    BY <2>2 DEF Attempts
  <2>5. /\ Subject.issued <= first.started /\ first.started < first.completed
        /\ first.completed <= Subject.deadline
        /\ last.started < last.completed /\ last.completed <= Subject.deadline
    BY <2>2 DEF TimeOk
  <2> QED
    BY <2>3, <2>4, <2>5, SubjectIs
<1>6. /\ Subject.deadline < Subject.deadline + 1
      /\ Subject.deadline + 1 <= Subject.expiry
      /\ Subject.issued <= Subject.issued /\ Subject.issued < Subject.deadline
      /\ Subject.deadline <= Subject.deadline
  BY SubjectIs, Constants
<1>7. /\ Subject.issued <= record'.started /\ record'.started < record'.completed
      /\ record'.completed <= Subject.deadline
  BY <1>1, <1>5, <1>6
<1> QED
  BY <1>1, <1>2, <1>4, <1>6, <1>7 DEF TimesOk

LEMMA SignedAccepted ==
    ASSUME TypeInv, RunInv, Sign
    PROVE  Accepts(record') /\ record'.subject = Subject
<1>1. /\ record'.conditions = record.conditions /\ record'.subject = Subject
      /\ record'.order = Subject.order /\ record'.run = Subject.run
      /\ record'.signer = "verifier"
  BY SignedIs
<1>2. SubjectOk(Subject)
  BY Constants DEF SubjectOk, Subject
<1>3. BindingOk(record')
  BY <1>1 DEF BindingOk
<1>4. /\ [i \in DOMAIN record'.conditions |-> record'.conditions[i].id]
           = [i \in DOMAIN Descriptors |-> i]
      /\ \A i \in DOMAIN record'.conditions :
           ConditionOk(record'.conditions[i], record'.subject)
  BY <1>1, SigningIs
<1> QED
  BY <1>1, <1>2, <1>3, <1>4, SignedRunOk, SignedReductionsOk, SignedTimesOk DEF Accepts

LEMMA HonestInit == Init => HonestInv
<1> SUFFICES ASSUME Init PROVE HonestInv
  OBVIOUS
<1>1. /\ record.conditions = <<NewCondition(1)>> /\ attempt = None /\ forgeries = None
  BY DEF Init
<1>2. NewCondition(1).attempts = <<>> /\ NewCondition(1).termination = None
  BY DEF NewCondition
<1>3. ConditionInv(NewCondition(1))
  <2>1. Open(<<>>) /\ StopsOk(<<>>)
    BY Constants DEF Open, StopsOk
  <2> QED
    BY <1>2, <2>1, Constants, WordsAre DEF ConditionInv
<1>4. /\ DOMAIN record.conditions = {1} /\ record.conditions[1] = NewCondition(1)
  BY <1>1
<1>5. Places(record) = {}
  BY <1>2, <1>4 DEF Places
<1>6. OrderInv
  BY <1>2, <1>4, <1>5 DEF OrderInv
<1> QED
  BY <1>1, <1>3, <1>4, <1>6, Constants DEF HonestInv, RunInv, AttemptInv

LEMMA HonestNext == TypeInv /\ HonestInv /\ [Next]_vars => HonestInv'
<1> SUFFICES ASSUME TypeInv, HonestInv, [Next]_vars PROVE HonestInv'
  OBVIOUS
<1>1. None # 0 /\ None # 1
  BY Constants
<1>2. CASE forgeries = None /\ forgeries' = forgeries /\ RunInv'
  BY <1>1, <1>2 DEF HonestInv
<1>3. CASE StartAttempt
  <2>1. forgeries = None /\ forgeries' = forgeries
    BY <1>3 DEF StartAttempt, MayStart, Probing
  <2> QED
    BY <1>2, <1>3, <2>1, StartKept DEF HonestInv
<1>4. CASE FinishAttempt
  <2>1. forgeries = None /\ forgeries' = forgeries
    BY <1>4 DEF FinishAttempt, TypeInv, Probing
  <2> QED
    BY <1>2, <1>4, <2>1, FinishKept DEF HonestInv
<1>5. CASE RunOut
  <2>1. forgeries = None /\ forgeries' = forgeries
    BY <1>5 DEF RunOut, Probing
  <2> QED
    BY <1>2, <1>5, <2>1, RunOutKept DEF HonestInv
<1>6. CASE NextCondition
  <2>1. forgeries = None /\ forgeries' = forgeries
    BY <1>6 DEF NextCondition
  <2> QED
    BY <1>2, <1>6, <2>1, NextKept DEF HonestInv
<1>7. CASE Tick
  <2>1. forgeries = None /\ forgeries' = forgeries
    BY <1>7 DEF Tick
  <2> QED
    BY <1>2, <1>7, <2>1, TickKept DEF HonestInv
<1>8. CASE Sign
  <2>1. forgeries = None /\ forgeries' = 0
    BY <1>8 DEF Sign
  <2>2. Accepts(record') /\ record'.subject = Subject
    BY <1>8, <2>1, SignedAccepted DEF HonestInv
  <2> QED
    BY <1>1, <2>1, <2>2 DEF HonestInv
<1>9. CASE Forge
  <2>1. /\ forgeries \in Nat /\ forgeries' = forgeries + 1 /\ record \in Records
        /\ record' \in Forgeries(record)
    BY <1>9, Constants DEF Forge, TypeInv
  <2>2. forgeries' # None /\ forgeries' # 0
    BY <2>1, Constants
  <2>3. ASSUME forgeries' = 1 PROVE ~Accepts(record')
    <3>1. forgeries = 0
      BY <2>1, <2>3
    <3>2. Accepts(record) /\ record.subject = Subject
      BY <3>1 DEF HonestInv
    <3> QED
      BY <2>1, <3>2, ForgeriesRefused
  <2> QED
    BY <2>2, <2>3 DEF HonestInv
<1>10. CASE UNCHANGED vars
  <2>1. ASSUME RunInv PROVE RunInv'
    BY <1>10, <2>1 DEF vars, RunInv, ConditionInv, OrderInv, AttemptInv, Places,
       AttemptAt, Current
  <2> QED
    BY <1>10, <2>1, SMTT(40) DEF vars, HonestInv
<1> QED
  BY <1>3, <1>4, <1>5, <1>6, <1>7, <1>8, <1>9, <1>10 DEF Next

LEMMA HonestCorrect == Spec => []HonestInv
BY TypeCorrect, HonestInit, HonestNext, PTL DEF Spec

\* What an honest verifier signs is accepted, and so is the receipt of its store
\* until the record expires: HonestAccepted, for every target that changes at
\* every instant, wherever the deadline falls.
THEOREM HonestIsAccepted == Spec => []HonestAccepted
<1>1. TypeInv /\ HonestInv => HonestAccepted
  <2> SUFFICES ASSUME TypeInv, HonestInv, forgeries = 0
               PROVE  /\ Accepts(record)
                      /\ \A at \in record.completed .. record.expires :
                            ReceiptOk(Receipt(record, at), record)
    BY DEF HonestAccepted
  <2>1. Accepts(record) /\ record \in Records
    BY Constants DEF HonestInv, TypeInv
  <2>2. record.completed \in Nat /\ record.expires \in Nat
    BY <2>1 DEF Records
  <2>3. \A at \in record.completed .. record.expires :
          ReceiptOk(Receipt(record, at), record)
    BY <2>2 DEF ReceiptOk, Receipt
  <2> QED
    BY <2>1, <2>3
<1> QED
  BY <1>1, TypeCorrect, HonestCorrect, PTL

\* None of the script's forgeries of an honest record or of its receipt is
\* accepted, wherever in the record it is made, and no forged record has the
\* honest one's receipt: ForgeryRejected.
THEOREM ForgeryIsRejected == Spec => []ForgeryRejected
<1>1. TypeInv /\ HonestInv => ForgeryRejected
  <2> SUFFICES ASSUME TypeInv, HonestInv PROVE ForgeryRejected
    OBVIOUS
  <2>1. forgeries = 1 => ~Accepts(record)
    BY DEF HonestInv
  <2>2. ASSUME forgeries = 0
        PROVE  LET receipt == Receipt(record, record.completed)
               IN /\ \A forged \in ForgedReceipts(receipt) : ~ReceiptOk(forged, record)
                  /\ \A forged \in Forgeries(record) : ~ReceiptOk(receipt, forged)
    <3> DEFINE receipt == Receipt(record, record.completed)
    <3>1. /\ Accepts(record) /\ record \in Records /\ record.subject = Subject
      BY <2>2, Constants DEF HonestInv, TypeInv
    <3>2. record.order = "order" /\ record.run = "run"
      BY <3>1 DEF Accepts, BindingOk, Subject
    <3>3. /\ Evidence(record).run = "run"
          /\ receipt.object = <<record.order, record.run>>
          /\ receipt.evidence = Evidence(record) /\ receipt.checksum = record
          /\ receipt.run = record.run
      BY <3>1, <3>2 DEF Evidence, Records, Receipt
    <3>4. ASSUME NEW forged \in ForgedReceipts(receipt) PROVE ~ReceiptOk(forged, record)
      <4>1. CASE forged = [receipt EXCEPT !.object = <<"other", receipt.run>>]
        <5>1. forged.object = <<"other", record.run>>
          BY <3>3, <4>1 DEF Receipt
        <5> QED
          BY <3>2, <5>1 DEF ReceiptOk
      <4>2. CASE forged = [receipt EXCEPT !.evidence.run = "foreign"]
        <5>1. forged.evidence.run = "foreign"
          BY <3>1, <4>2 DEF Receipt, Evidence, Records
        <5> QED
          BY <3>3, <5>1 DEF ReceiptOk
      <4>3. CASE forged = [receipt EXCEPT !.checksum.run = "foreign"]
        <5>1. forged.checksum.run = "foreign"
          BY <3>1, <4>3 DEF Receipt, Records
        <5> QED
          BY <3>2, <5>1 DEF ReceiptOk
      <4>4. CASE forged = [receipt EXCEPT !.digested = FALSE]
        <5>1. ~forged.digested
          BY <4>4 DEF Receipt
        <5> QED
          BY <5>1 DEF ReceiptOk
      <4> QED
        BY <4>1, <4>2, <4>3, <4>4 DEF ForgedReceipts
    <3>5. ASSUME NEW forged \in Forgeries(record) PROVE ~ReceiptOk(receipt, forged)
      <4>1. forged # record
        BY <3>1, ForgeriesRefused
      <4> QED
        BY <3>3, <4>1 DEF ReceiptOk
    <3> QED
      BY <3>4, <3>5
  <2> QED
    BY <2>1, <2>2 DEF ForgeryRejected
<1> QED
  BY <1>1, TypeCorrect, HonestCorrect, PTL

=============================================================================
