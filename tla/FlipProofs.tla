----------------------------- MODULE FlipProofs -----------------------------
(***************************************************************************)
(* The failover controller keeps the promise of safety.go, for all         *)
(* parameters: its types, the cooldown between two moves of the domain,    *)
(* the records that do not tell where the domain is, the daily cap, how    *)
(* long the secondary serves, and what was seen before the domain moves.   *)
(***************************************************************************)
EXTENDS FlipHistory, ObservationHistory, TLAPS

-----------------------------------------------------------------------------
(***************************************************************************)
(* Type correctness of the failover controller, for all parameters.  The   *)
(* only delicate field is the daily count: handleFailingOver increments it *)
(* unconditionally, so that it stays within MaxDailyFailovers only because *)
(* a record enters FAILING_OVER below the cap and nothing raises the count *)
(* before the failover completes.                                          *)
(***************************************************************************)
\* A record or nothing, with room for the failover it has begun.
Typed(r) ==
    /\ r \in ControllerState \cup {NoState}
    /\ r # NoState /\ r.state = "FAILING_OVER" => r.dailyCount < MaxDailyFailovers

TypeInv == TypeOK /\ Typed(file) /\ Typed(mem)

-----------------------------------------------------------------------------

\* An age stays within its limit.
LEMMA OlderType ==
    ASSUME NEW limit \in Nat, NEW age \in 0 .. limit
    PROVE  Older(age, limit) \in 0 .. limit
BY DEF Older

\* The updates of several fields that the code makes to a record.
LEMMA UpdateType ==
    ASSUME NEW r \in ControllerState
    PROVE  /\ \A s \in States :
                [r EXCEPT !.state = s, !.sinceTransition = 0] \in ControllerState
           /\ [r EXCEPT !.checks = 0, !.sinceRecovery = RecoveryCooldown]
                  \in ControllerState
           /\ r.dailyCount < MaxDailyFailovers =>
                [r EXCEPT !.sinceFailover = 0, !.checks = 0, !.dailyCount = @ + 1]
                    \in ControllerState
           /\ today \in Days =>
                [r EXCEPT !.dailyCount = 0, !.resetDay = today] \in ControllerState
<1> USE SafetyParamsAssumption
<1>1. ASSUME NEW s \in States
      PROVE  [r EXCEPT !.state = s, !.sinceTransition = 0] \in ControllerState
  <2> DEFINE q == [r EXCEPT !.state = s]
  <2>1. q \in ControllerState
    BY DEF ControllerState
  <2>2. [r EXCEPT !.state = s, !.sinceTransition = 0] = [q EXCEPT !.sinceTransition = 0]
    OBVIOUS
  <2> HIDE DEF q
  <2> QED
    BY <2>1, <2>2 DEF ControllerState
<1>2. [r EXCEPT !.checks = 0, !.sinceRecovery = RecoveryCooldown]
          \in ControllerState
  <2> DEFINE q == [r EXCEPT !.checks = 0]
  <2>1. q \in ControllerState
    BY DEF ControllerState
  <2>2. [r EXCEPT !.checks = 0, !.sinceRecovery = RecoveryCooldown]
            = [q EXCEPT !.sinceRecovery = RecoveryCooldown]
    OBVIOUS
  <2> HIDE DEF q
  <2> QED
    BY <2>1, <2>2 DEF ControllerState
<1>3. ASSUME r.dailyCount < MaxDailyFailovers
      PROVE  [r EXCEPT !.sinceFailover = 0, !.checks = 0, !.dailyCount = @ + 1]
                 \in ControllerState
  <2> DEFINE n == r.dailyCount + 1
             q1 == [r EXCEPT !.sinceFailover = 0]
             q2 == [q1 EXCEPT !.checks = 0]
  <2>1. n \in 0 .. MaxDailyFailovers
    BY <1>3 DEF ControllerState
  <2>2. q1 \in ControllerState
    BY DEF ControllerState
  <2>3. q2 \in ControllerState
    <3> HIDE DEF q1
    <3> QED BY <2>2 DEF ControllerState
  <2>4. [r EXCEPT !.sinceFailover = 0, !.checks = 0, !.dailyCount = @ + 1]
            = [q2 EXCEPT !.dailyCount = n]
    OBVIOUS
  <2> HIDE DEF n, q1, q2
  <2> QED
    BY <2>1, <2>3, <2>4 DEF ControllerState
<1>4. ASSUME today \in Days
      PROVE  [r EXCEPT !.dailyCount = 0, !.resetDay = today] \in ControllerState
  <2> DEFINE q == [r EXCEPT !.dailyCount = 0]
  <2>1. q \in ControllerState
    BY DEF ControllerState
  <2>2. [r EXCEPT !.dailyCount = 0, !.resetDay = today] = [q EXCEPT !.resetDay = today]
    OBVIOUS
  <2> HIDE DEF q
  <2> QED
    BY <1>4, <2>1, <2>2 DEF ControllerState
<1> QED
  BY <1>1, <1>2, <1>3, <1>4

\* Time passing keeps a record a record, with the same state and count.
LEMMA AgedType ==
    ASSUME NEW r, Typed(r)
    PROVE  Typed(Aged(r)) /\ (Aged(r) = NoState <=> r = NoState)
<1>1. CASE r = NoState
  BY <1>1 DEF Aged
<1>2. CASE r # NoState
  <2>1. r \in ControllerState
    BY <1>2 DEF Typed
  <2>2. /\ Older(r.sinceTransition, MinTimeInState) \in 0 .. MinTimeInState
        /\ Older(r.sinceFailover, FailoverCooldown) \in 0 .. FailoverCooldown
        /\ Older(r.sinceRecovery, RecoveryCooldown) \in 0 .. RecoveryCooldown
    BY <2>1, OlderType, SafetyParamsAssumption DEF ControllerState
  <2>3. Aged(r) \in ControllerState
    BY <1>2, <2>1, <2>2 DEF Aged, ControllerState
  <2>4. Aged(r).state = r.state /\ Aged(r).dailyCount = r.dailyCount
    BY <1>2, <2>1 DEF Aged, ControllerState
  <2> QED
    BY <1>2, <2>3, <2>4, NoStateAssumption DEF Typed
<1> QED
  BY <1>1, <1>2

\* Loading gives a record, whatever the file holds.
LEMMA LoadedType ==
    ASSUME Typed(file), today \in Days
    PROVE  Typed(Loaded) /\ Loaded # NoState
<1> USE SafetyParamsAssumption
<1>1. DefaultState \in ControllerState /\ DefaultState.state = "HEALTHY"
  BY DEF DefaultState, Fresh, ControllerState, States
<1>2. ASSUME file # NoState
      PROVE  Loaded \in ControllerState
  <2>1. file \in ControllerState
    BY <1>2 DEF Typed
  <2> QED
    BY <1>2, <2>1, UpdateType DEF Loaded
<1>3. ASSUME file # NoState, Loaded.state = "FAILING_OVER"
      PROVE  Loaded.dailyCount < MaxDailyFailovers
  <2>1. file \in ControllerState
    BY <1>3 DEF Typed
  <2>2. file.state = "FAILING_OVER" /\ Loaded.dailyCount \in {0, file.dailyCount}
    BY <1>3, <2>1 DEF Loaded, ControllerState
  <2>3. file.dailyCount \in Nat /\ file.dailyCount < MaxDailyFailovers
    BY <1>3, <2>1, <2>2 DEF Typed, ControllerState
  <2> QED
    BY <2>2, <2>3
<1>4. file = NoState => Loaded = DefaultState
  BY DEF Loaded
<1> QED
  BY <1>1, <1>2, <1>3, <1>4, NoStateAssumption DEF Typed

\* What a transition leaves in the file: the old record, or a record in the
\* new state that was allowed to go there.
LEMMA TransitionType ==
    ASSUME Typed(file), NEW r \in ControllerState, NEW to \in States,
           Transition(r, to)
    PROVE  Typed(file)'
<1>1. CASE file' = file
  BY <1>1 DEF Typed
<1>2. CASE /\ ValidateTransition(r, to)
           /\ file' = [r EXCEPT !.state = to, !.sinceTransition = 0]
  <2>1. [r EXCEPT !.state = to, !.sinceTransition = 0] \in ControllerState
    BY UpdateType
  <2>2. file' \in ControllerState /\ file'.state = to /\ file'.dailyCount = r.dailyCount
    BY <1>2, <2>1 DEF ControllerState
  <2>3. to = "FAILING_OVER" => r.dailyCount < MaxDailyFailovers
    BY <1>2 DEF ValidateTransition, FailoverAllowed
  <2> QED
    BY <2>2, <2>3 DEF Typed
<1> QED
  BY <1>1, <1>2 DEF Transition, Save

\* Every step keeps the strengthened type invariant.
LEMMA TypeStep ==
    ASSUME TypeInv, [Next]_vars
    PROVE  TypeInv'
<1> USE SafetyParamsAssumption, EnvironmentAssumption, NoStateAssumption
<1>a. /\ Typed(file) /\ Typed(mem)
      /\ Evaluating => mem \in ControllerState
      /\ pc \in {"idle", "evaluating", "nsUpdated", "down"}
  BY DEF TypeInv, TypeOK, Typed
<1>b. ASSUME EndEvaluation, Typed(file)', ns' \in {"primary", "secondary"}
      PROVE  TypeInv'
  BY <1>b DEF EndEvaluation, envVars, TypeInv, TypeOK, Typed, Evaluating, Days
<1>c. ASSUME UNCHANGED ns
      PROVE  ns' \in {"primary", "secondary"}
  BY <1>c DEF TypeInv, TypeOK
<1>d. ASSUME UNCHANGED file
      PROVE  Typed(file)'
  BY <1>a, <1>d DEF Typed
<1>1. CASE Evaluate
  <2>1. Typed(Loaded) /\ Loaded # NoState
    BY <1>a, LoadedType DEF TypeInv, TypeOK
  <2>2. CASE mem' = Loaded /\ pc' = "evaluating" /\ UNCHANGED file
    BY <1>1, <2>1, <2>2 DEF Evaluate, envVars, TypeInv, TypeOK, Typed, Evaluating, Days
  <2>3. CASE UNCHANGED <<file, mem, pc>>
    BY <1>1, <2>3 DEF Evaluate, envVars, TypeInv, TypeOK, Typed, Evaluating, Days
  <2>4. CASE mem' = DefaultState /\ file' = NoState /\ pc' = "evaluating"
    <3>1. Typed(DefaultState) /\ DefaultState # NoState
      BY NoStateAssumption, SafetyParamsAssumption
      DEF DefaultState, Fresh, ControllerState, States, Typed, TypeInv, TypeOK
    <3> QED
      BY <1>1, <2>4, <3>1 DEF Evaluate, envVars, TypeInv, TypeOK, Typed, Evaluating, Days
  <2> QED
    BY <1>1, <2>2, <2>3, <2>4 DEF Evaluate
<1>2. CASE QueryFails
  BY <1>2, <1>b, <1>c, <1>d DEF QueryFails
<1>3. CASE HandleHealthy
  <2>1. mem \in ControllerState
    BY <1>a, <1>3 DEF HandleHealthy, Reading, Evaluating
  <2>2. [mem EXCEPT !.checks = 1] \in ControllerState
    BY <2>1 DEF ControllerState
  <2>3. Typed(file)'
    BY <1>3, <1>a, <1>d, <2>2, TransitionType DEF HandleHealthy, States
  <2> QED
    BY <1>3, <1>b, <1>c, <2>3 DEF HandleHealthy
<1>4. CASE HandleDegraded
  <2>1. mem \in ControllerState /\ mem.state = "DEGRADED"
    BY <1>a, <1>4 DEF HandleDegraded, Reading, Evaluating
  <2>2. [mem EXCEPT !.checks = 0] \in ControllerState
    BY <2>1 DEF ControllerState
  <2>3. CountCheck(mem) \in ControllerState /\ CountCheck(mem).state = "DEGRADED"
    BY <2>1 DEF CountCheck, ControllerState
  <2>4. ASSUME StillDegraded(CountCheck(mem))
        PROVE  Typed(file)'
    <3>1. CASE Transition(CountCheck(mem), "FAILING_OVER")
      BY <3>1, <1>a, <2>3, TransitionType DEF States
    <3>2. CASE Save(CountCheck(mem))
      BY <3>2, <1>a, <1>d, <2>3 DEF Save, Typed
    <3> QED
      BY <2>4, <3>1, <3>2 DEF StillDegraded
  <2>5. ASSUME Transition([mem EXCEPT !.checks = 0], "HEALTHY")
        PROVE  Typed(file)'
    BY <2>5, <1>a, <2>2, TransitionType DEF States
  <2>6. primary \in {"absent", "fair", "good", "bad"}
    BY DEF TypeInv, TypeOK, AllHealthClasses
  <2>7. Typed(file)'
    BY <1>4, <1>d, <2>4, <2>5, <2>6 DEF HandleDegraded
  <2> QED
    BY <1>4, <1>b, <1>c, <2>7 DEF HandleDegraded
<1>5. CASE FailoverFails
  <2>1. mem \in ControllerState
    BY <1>a, <1>5 DEF FailoverFails, Reading, Evaluating
  <2>2. Typed(file)'
    BY <1>5, <1>a, <2>1, TransitionType DEF FailoverFails, States
  <2>3. ns' \in {"primary", "secondary"}
    BY <1>5, <1>c DEF FailoverFails, FailedUpdate, TypeInv, TypeOK
  <2> QED
    BY <1>5, <1>b, <2>2, <2>3 DEF FailoverFails
<1>6. CASE FailoverUpdates
  BY <1>6 DEF FailoverUpdates, Reading, envVars, TypeInv, TypeOK, Typed, Evaluating, Days
<1>7. CASE FailoverCompletes
  <2>1. /\ mem \in ControllerState
        /\ mem.dailyCount < MaxDailyFailovers
    BY <1>a, <1>7 DEF FailoverCompletes, Evaluating, Typed, TypeInv, TypeOK
  <2> DEFINE r == [mem EXCEPT !.sinceFailover = 0, !.checks = 0,
                              !.dailyCount = @ + 1]
  <2>2. r \in ControllerState
    BY <2>1, UpdateType
  <2>3. Transition(r, "FAILED_OVER")
    BY <1>7 DEF FailoverCompletes
  <2>4. Typed(file)'
    <3> HIDE DEF r
    <3> QED BY <1>a, <2>2, <2>3, TransitionType DEF States
  <2> QED
    BY <1>7, <1>b, <1>c, <2>4 DEF FailoverCompletes
<1>8. CASE HandleFailedOver
  <2>1. mem \in ControllerState
    BY <1>a, <1>8 DEF HandleFailedOver, Reading, Evaluating
  <2>2. [mem EXCEPT !.sinceRecovery = 0] \in ControllerState
    BY <2>1 DEF ControllerState
  <2>3. Typed(file)'
    BY <1>8, <1>a, <1>d, <2>2, TransitionType DEF HandleFailedOver, States
  <2> QED
    BY <1>8, <1>b, <1>c, <2>3 DEF HandleFailedOver
<1>9. CASE RecoveryAborts
  <2>1. mem \in ControllerState
    BY <1>a, <1>9 DEF RecoveryAborts, Reading, Evaluating
  <2>2. [mem EXCEPT !.sinceRecovery = RecoveryCooldown] \in ControllerState
    BY <2>1 DEF ControllerState
  <2>3. Typed(file)'
    BY <1>9, <1>a, <2>1, <2>2, TransitionType DEF RecoveryAborts, States
  <2> QED
    BY <1>9, <1>b, <1>c, <2>3 DEF RecoveryAborts
<1>10. CASE RecoveryWaits
  BY <1>10, <1>b, <1>c, <1>d DEF RecoveryWaits
<1>11. CASE FailbackFails
  <2>1. ns' \in {"primary", "secondary"}
    BY <1>11 DEF FailbackFails, FailedUpdate, TypeInv, TypeOK
  <2> QED
    BY <1>11, <1>b, <1>d, <2>1 DEF FailbackFails
<1>12. CASE FailbackUpdates
  BY <1>12 DEF FailbackUpdates, RecoveryCooldownOver, Reading, envVars, TypeInv,
               TypeOK, Typed, Evaluating, Days
<1>13. CASE FailbackCompletes
  <2>1. mem \in ControllerState
    BY <1>a, <1>13 DEF FailbackCompletes, Evaluating
  <2>2. [mem EXCEPT !.checks = 0, !.sinceRecovery = RecoveryCooldown]
            \in ControllerState
    BY <2>1, UpdateType
  <2>3. Typed(file)'
    BY <1>13, <1>a, <2>2, TransitionType DEF FailbackCompletes, States
  <2> QED
    BY <1>13, <1>b, <1>c, <2>3 DEF FailbackCompletes
<1>14. CASE HandleUnknown
  <2>1. mem \in ControllerState
    BY <1>a, <1>14 DEF HandleUnknown, Evaluating
  <2>2. Typed(file)'
    BY <1>14, <1>a, <2>1, TransitionType DEF HandleUnknown, States
  <2> QED
    BY <1>14, <1>b, <1>c, <2>2 DEF HandleUnknown
<1>15. CASE Crash
  BY <1>15 DEF Crash, envVars, TypeInv, TypeOK, Typed, Evaluating, Days
<1>16. CASE Start
  BY <1>16 DEF Start, envVars, TypeInv, TypeOK, Typed, Evaluating, Days
<1>17. CASE HealthChanges
  BY <1>17 DEF HealthChanges, TypeInv, TypeOK, Typed, Evaluating, Days
<1>18. CASE FaultsCease
  BY <1>18 DEF FaultsCease, TypeInv, TypeOK, Typed, Evaluating, Days
<1>19. CASE Elapse
  <2>1. /\ Typed(Aged(file))
        /\ Typed(Aged(mem)) /\ (Aged(mem) = NoState <=> mem = NoState)
    BY <1>a, AgedType
  <2>2. sinceMidnight' \in 0 .. DayLength
    BY <1>19 DEF Elapse, TypeInv, TypeOK
  <2> QED
    BY <1>19, <2>1, <2>2 DEF Elapse, TypeInv, TypeOK, Typed, Evaluating, Days
<1>20. CASE Midnight
  <2>1. today' \in Days /\ sinceMidnight' \in 0 .. DayLength
    BY <1>20 DEF Midnight, TypeInv, TypeOK, Days
  <2> QED
    BY <1>20, <2>1 DEF Midnight, TypeInv, TypeOK, Typed, Evaluating
<1>21. CASE UNCHANGED vars
  BY <1>21 DEF vars, TypeInv, TypeOK, Typed, Evaluating, Days
<1> QED
  BY <1>1, <1>2, <1>3, <1>4, <1>5, <1>6, <1>7, <1>8, <1>9, <1>10, <1>11,
     <1>12, <1>13, <1>14, <1>15, <1>16, <1>17, <1>18, <1>19, <1>20, <1>21
  DEF Next, ProcessStep, ScoreStep, OtherStep, EnvironmentStep

\* The initial states satisfy it.
LEMMA TypeInit == Init => TypeInv
<1> SUFFICES ASSUME Init PROVE TypeInv
  OBVIOUS
<1> USE SafetyParamsAssumption, EnvironmentAssumption, NoStateAssumption
<1>1. today \in Days /\ sinceMidnight \in 0 .. DayLength
  BY DEF Init, Days
<1>2. ASSUME NEW s \in InitialFiles \ {"missing"}
      PROVE  /\ Fresh(s, MinTimeInState) \in ControllerState
             /\ Fresh(s, MinTimeInState).state # "FAILING_OVER"
  BY <1>1 DEF Fresh, ControllerState, States, LegacyState
<1>3. Typed(file)
  BY <1>2 DEF Init, Typed
<1> QED
  BY <1>1, <1>3 DEF Init, TypeInv, TypeOK, Typed, Evaluating

\* Every value the controller computes stays within its type, in every
\* behaviour of every instance: in particular the daily count never exceeds
\* MaxDailyFailovers, whatever fails.
THEOREM TypeCorrect == Spec => []TypeOK
<1>1. Init => TypeInv
  BY TypeInit
<1>2. TypeInv /\ [Next]_vars => TypeInv'
  BY TypeStep
<1>3. TypeInv => TypeOK
  BY DEF TypeInv
<1> QED
  BY <1>1, <1>2, <1>3, PTL DEF Spec

-----------------------------------------------------------------------------
(***************************************************************************)
(* The cooldown between two moves of the domain, for all parameters and    *)
(* for every fault but the loss of the state file.                         *)
(*                                                                         *)
(* The controller compares the cooldown with LastFailoverTime of the       *)
(* record, which is stamped after the registrar has moved the domain, may  *)
(* never be saved, and is read back by another process.  The invariant     *)
(* relates it to the move itself: whenever the primary serves, or a record *)
(* says that a failover was completed, the record's failover is no older   *)
(* than the last move.  In the other states the secondary may serve after  *)
(* a move nobody recorded; no second move can follow until a failback.     *)
(*                                                                         *)
(* The end of the module asks what such an unrecorded move can lead to: a  *)
(* record that never looks at the registrar again comes only from the      *)
(* abort of a failover, or from a lost file.                               *)
(***************************************************************************)
\* The age of the last failover that a load would find.
FailoverAge == IF file = NoState THEN FailoverCooldown ELSE file.sinceFailover

CooldownInv ==
    /\ sinceFlip \in 0 .. FailoverCooldown
    /\ mem # NoState => /\ mem.state = PersistedState
                        /\ mem.sinceFailover = FailoverAge
    /\ ns = "primary" \/ PersistedState \in {"FAILED_OVER", "RECOVERING"} =>
         FailoverAge <= sinceFlip
    /\ PersistedState = "FAILING_OVER" => FailoverAge = FailoverCooldown

-----------------------------------------------------------------------------

\* A transition leaves the file alone, or puts the record into the new state.
LEMMA TransitionEffect ==
    ASSUME NEW r \in ControllerState, NEW to \in States, Transition(r, to)
    PROVE  \/ PersistedState' = PersistedState /\ FailoverAge' = FailoverAge
           \/ /\ PersistedState' = to /\ FailoverAge' = r.sinceFailover
              /\ to = "FAILING_OVER" => r.sinceFailover >= FailoverCooldown
<1>1. CASE file' = file
  BY <1>1 DEF PersistedState, FailoverAge
<1>2. CASE /\ ValidateTransition(r, to)
           /\ file' = [r EXCEPT !.state = to, !.sinceTransition = 0]
  <2>1. file' \in ControllerState
    BY <1>2, UpdateType
  <2>2. file'.state = to /\ file'.sinceFailover = r.sinceFailover
    BY <1>2 DEF ControllerState
  <2>3. file' # NoState
    BY <2>1, NoStateAssumption
  <2>4. to = "FAILING_OVER" => r.sinceFailover >= FailoverCooldown
    BY <1>2 DEF ValidateTransition, FailoverAllowed
  <2> QED
    BY <2>2, <2>3, <2>4 DEF PersistedState, FailoverAge
<1> QED
  BY <1>1, <1>2 DEF Transition, Save

\* Saving a record that differs only in its count of checks changes neither.
LEMMA SaveEffect ==
    ASSUME NEW r \in ControllerState, Save(r),
           r.state = PersistedState, r.sinceFailover = FailoverAge
    PROVE  PersistedState' = PersistedState /\ FailoverAge' = FailoverAge
BY NoStateAssumption DEF Save, PersistedState, FailoverAge

\* The invariant survives the end of an evaluation that neither moves the
\* domain nor records a failover.
LEMMA QuietEnd ==
    ASSUME CooldownInv, ns' = ns, sinceFlip' = sinceFlip, mem' = NoState,
           FailoverAge' = FailoverAge,
           PersistedState' \in {"FAILED_OVER", "RECOVERING"} =>
               PersistedState \in {"FAILED_OVER", "RECOVERING"},
           PersistedState' = "FAILING_OVER" => FailoverAge = FailoverCooldown
    PROVE  CooldownInv'
BY DEF CooldownInv

\* An evaluation works on a copy of the record that the file holds.
LEMMA Copy ==
    ASSUME TypeInv, CooldownInv, Evaluating
    PROVE  /\ mem \in ControllerState
           /\ mem.state = PersistedState /\ mem.sinceFailover = FailoverAge
           /\ FailoverAge \in 0 .. FailoverCooldown
BY DEF TypeInv, TypeOK, CooldownInv, ControllerState

\* Only a failover moves the domain to the secondary, and it finds its own
\* predecessor a cooldown ago.
LEMMA FlipStep ==
    ASSUME TypeInv, CooldownInv, [FHNext]_fhVars, FlipsOver
    PROVE  /\ sinceFlip >= FailoverCooldown
           /\ FailoverFails \/ FailoverUpdates
<1>1. FailoverFails \/ FailoverUpdates
  BY DEF FlipsOver, FHNext, FHStep, FHElapse, FHMidnight, fhVars, vars, Elapse,
         Midnight, ProcessStep, ScoreStep, OtherStep, EnvironmentStep, Evaluate,
         QueryFails, HandleHealthy, HandleDegraded, FailoverCompletes,
         HandleFailedOver, RecoveryAborts, RecoveryWaits, FailbackFails,
         FailedUpdate, FailbackUpdates, FailbackCompletes, HandleUnknown, Crash,
         Start, HealthChanges, FaultsCease
<1>2. Evaluating /\ mem.state = "FAILING_OVER"
  BY <1>1 DEF FailoverFails, FailoverUpdates, Reading, Evaluating
<1>3. FailoverAge = FailoverCooldown
  BY <1>2, Copy DEF CooldownInv
<1> QED
  BY <1>1, <1>3, SafetyParamsAssumption DEF CooldownInv, FlipsOver

\* Every step of the process or its environment keeps the invariant.
LEMMA CooldownProcessStep ==
    ASSUME TypeInv, CooldownInv, FHStep, "loss" \notin Faults
    PROVE  CooldownInv'
<1> USE SafetyParamsAssumption
<1>a. sinceFlip' = IF FlipsOver THEN 0 ELSE sinceFlip
  BY DEF FHStep
<1>b. ns' = ns => sinceFlip' = sinceFlip
  BY <1>a DEF FlipsOver
<1>c. sinceFlip' \in 0 .. FailoverCooldown
  BY <1>a DEF CooldownInv
<1>d. file' = file => PersistedState' = PersistedState /\ FailoverAge' = FailoverAge
  BY DEF PersistedState, FailoverAge
<1>1. CASE Evaluate
  <2>1. CASE mem' = Loaded /\ UNCHANGED file
    <3>1. /\ Loaded.state = PersistedState
          /\ Loaded.sinceFailover = FailoverAge
      BY DEF Loaded, PersistedState, FailoverAge, DefaultState, Fresh, TypeInv,
             TypeOK, ControllerState
    <3> QED
      BY <1>1, <1>b, <1>d, <2>1, <3>1 DEF Evaluate, CooldownInv
  <2>2. CASE UNCHANGED <<file, mem>>
    BY <1>1, <1>b, <1>d, <2>2 DEF Evaluate, CooldownInv
  <2> QED
    BY <1>1, <2>1, <2>2 DEF Evaluate, May
<1>2. CASE QueryFails \/ RecoveryWaits \/ Crash
  BY <1>2, <1>b, <1>d, QuietEnd
  DEF QueryFails, RecoveryWaits, Crash, EndEvaluation, CooldownInv
<1>3. CASE HandleHealthy
  <2>1. /\ mem \in ControllerState
        /\ mem.sinceFailover = FailoverAge
    BY <1>3, Copy DEF HandleHealthy, Reading, Evaluating
  <2>2. /\ [mem EXCEPT !.checks = 1] \in ControllerState
        /\ [mem EXCEPT !.checks = 1].sinceFailover = mem.sinceFailover
    BY <2>1 DEF ControllerState
  <2>3. /\ FailoverAge' = FailoverAge
        /\ PersistedState' \in {PersistedState, "DEGRADED"}
    BY <1>3, <1>d, <2>1, <2>2, TransitionEffect DEF HandleHealthy, States
  <2> QED
    BY <1>3, <1>b, <2>3, QuietEnd DEF HandleHealthy, EndEvaluation, CooldownInv
<1>4. CASE HandleDegraded
  <2>1. /\ mem \in ControllerState
        /\ mem.state = PersistedState /\ mem.sinceFailover = FailoverAge
        /\ FailoverAge \in 0 .. FailoverCooldown
    BY <1>4, Copy DEF HandleDegraded, Reading, Evaluating
  <2>2. /\ [mem EXCEPT !.checks = 0] \in ControllerState
        /\ [mem EXCEPT !.checks = 0].sinceFailover = mem.sinceFailover
    BY <2>1 DEF ControllerState
  <2>3. /\ CountCheck(mem) \in ControllerState
        /\ CountCheck(mem).state = mem.state
        /\ CountCheck(mem).sinceFailover = mem.sinceFailover
    BY <2>1 DEF CountCheck, ControllerState
  <2>4. ASSUME StillDegraded(CountCheck(mem))
        PROVE  /\ FailoverAge' = FailoverAge
               /\ PersistedState' \in {PersistedState, "FAILING_OVER"}
               /\ PersistedState' = "FAILING_OVER" => FailoverAge = FailoverCooldown
    <3>1. CASE Transition(CountCheck(mem), "FAILING_OVER")
      BY <3>1, <2>1, <2>3, TransitionEffect DEF States, CooldownInv
    <3>2. CASE Save(CountCheck(mem))
      BY <3>2, <2>1, <2>3, SaveEffect DEF CooldownInv
    <3> QED
      BY <2>4, <3>1, <3>2 DEF StillDegraded
  <2>5. ASSUME Transition([mem EXCEPT !.checks = 0], "HEALTHY")
        PROVE  /\ FailoverAge' = FailoverAge
               /\ PersistedState' \in {PersistedState, "HEALTHY"}
    BY <2>5, <2>1, <2>2, TransitionEffect DEF States
  <2>6. primary \in {"absent", "fair", "good", "bad"}
    BY DEF TypeInv, TypeOK, AllHealthClasses
  <2>7. /\ FailoverAge' = FailoverAge
        /\ PersistedState' \in {PersistedState, "HEALTHY", "FAILING_OVER"}
        /\ PersistedState' = "FAILING_OVER" => FailoverAge = FailoverCooldown
    BY <1>4, <1>d, <2>4, <2>5, <2>6 DEF HandleDegraded, CooldownInv
  <2> QED
    BY <1>4, <1>b, <2>7, QuietEnd DEF HandleDegraded, EndEvaluation
<1>5. CASE FailoverFails
  <2>1. /\ mem \in ControllerState
        /\ PersistedState = "FAILING_OVER" /\ mem.sinceFailover = FailoverAge
    BY <1>5, Copy DEF FailoverFails, Reading, Evaluating
  <2>2. /\ FailoverAge' = FailoverAge
        /\ PersistedState' \in {"FAILING_OVER", "DEGRADED"}
    BY <1>5, <2>1, TransitionEffect DEF FailoverFails, States
  <2>3. ns' = ns \/ ns' = "secondary"
    BY <1>5 DEF FailoverFails, FailedUpdate
  <2> QED
    BY <1>5, <1>b, <1>c, <2>1, <2>2, <2>3
    DEF FailoverFails, EndEvaluation, CooldownInv
<1>6. CASE FailoverUpdates
  <2>1. PersistedState = "FAILING_OVER"
    BY <1>6, Copy DEF FailoverUpdates, Reading, Evaluating
  <2> QED
    BY <1>6, <1>c, <1>d, <2>1 DEF FailoverUpdates, CooldownInv
<1>7. CASE FailoverCompletes
  <2>1. /\ mem \in ControllerState /\ mem.dailyCount < MaxDailyFailovers
        /\ PersistedState = "FAILING_OVER"
    BY <1>7, Copy DEF FailoverCompletes, Evaluating, TypeInv, Typed, TypeOK
  <2> DEFINE r == [mem EXCEPT !.sinceFailover = 0, !.checks = 0,
                              !.dailyCount = @ + 1]
  <2>2. r \in ControllerState /\ r.sinceFailover = 0
    BY <2>1, UpdateType DEF ControllerState
  <2>3. Transition(r, "FAILED_OVER")
    BY <1>7 DEF FailoverCompletes
  <2>4. \/ PersistedState' = PersistedState /\ FailoverAge' = FailoverAge
        \/ PersistedState' = "FAILED_OVER" /\ FailoverAge' = 0
    <3> HIDE DEF r
    <3> QED BY <2>2, <2>3, TransitionEffect DEF States
  <2> HIDE DEF r
  <2> QED
    BY <1>7, <1>b, <2>1, <2>4 DEF FailoverCompletes, EndEvaluation, CooldownInv
<1>8. CASE HandleFailedOver
  <2>1. /\ mem \in ControllerState
        /\ PersistedState = "FAILED_OVER" /\ mem.sinceFailover = FailoverAge
    BY <1>8, Copy DEF HandleFailedOver, Reading, Evaluating
  <2>2. /\ [mem EXCEPT !.sinceRecovery = 0] \in ControllerState
        /\ [mem EXCEPT !.sinceRecovery = 0].sinceFailover = mem.sinceFailover
    BY <2>1 DEF ControllerState
  <2>3. /\ FailoverAge' = FailoverAge
        /\ PersistedState' \in {"FAILED_OVER", "RECOVERING"}
    BY <1>8, <1>d, <2>1, <2>2, TransitionEffect DEF HandleFailedOver, States
  <2> QED
    BY <1>8, <1>b, <2>1, <2>3, QuietEnd DEF HandleFailedOver, EndEvaluation
<1>9. CASE RecoveryAborts
  <2>1. /\ mem \in ControllerState
        /\ PersistedState = "RECOVERING" /\ mem.sinceFailover = FailoverAge
    BY <1>9, Copy DEF RecoveryAborts, Reading, Evaluating
  <2>2. /\ [mem EXCEPT !.sinceRecovery = RecoveryCooldown] \in ControllerState
        /\ [mem EXCEPT !.sinceRecovery = RecoveryCooldown].sinceFailover
              = mem.sinceFailover
    BY <2>1 DEF ControllerState
  <2>3. /\ FailoverAge' = FailoverAge
        /\ PersistedState' \in {"FAILED_OVER", "RECOVERING"}
    BY <1>9, <2>1, <2>2, TransitionEffect DEF RecoveryAborts, States
  <2> QED
    BY <1>9, <1>b, <2>1, <2>3, QuietEnd DEF RecoveryAborts, EndEvaluation
<1>10. CASE FailbackFails \/ FailbackUpdates
  <2>1. PersistedState = "RECOVERING"
    BY <1>10, Copy
    DEF FailbackFails, FailbackUpdates, RecoveryCooldownOver, Reading, Evaluating
  <2>2. ns' = ns \/ ns' = "primary"
    BY <1>10 DEF FailbackFails, FailedUpdate, FailbackUpdates
  <2>3. sinceFlip' = sinceFlip
    BY <1>a, <2>2 DEF FlipsOver
  <2> QED
    BY <1>10, <1>d, <2>1, <2>3
    DEF FailbackFails, FailbackUpdates, EndEvaluation, CooldownInv
<1>11. CASE FailbackCompletes
  <2>1. /\ mem \in ControllerState
        /\ PersistedState = "RECOVERING" /\ mem.sinceFailover = FailoverAge
    BY <1>11, Copy DEF FailbackCompletes, Evaluating
  <2> DEFINE r == [mem EXCEPT !.checks = 0, !.sinceRecovery = RecoveryCooldown]
  <2>2. r \in ControllerState /\ r.sinceFailover = mem.sinceFailover
    BY <2>1, UpdateType DEF ControllerState
  <2>3. Transition(r, "HEALTHY")
    BY <1>11 DEF FailbackCompletes
  <2> HIDE DEF r
  <2>4. FailoverAge' = FailoverAge /\ PersistedState' \in {"RECOVERING", "HEALTHY"}
    BY <2>1, <2>2, <2>3, TransitionEffect DEF States
  <2> QED
    BY <1>11, <1>b, <2>1, <2>4, QuietEnd DEF FailbackCompletes, EndEvaluation
<1>12. CASE HandleUnknown
  <2>1. mem \in ControllerState /\ mem.sinceFailover = FailoverAge
    BY <1>12, Copy DEF HandleUnknown, Evaluating
  <2>2. FailoverAge' = FailoverAge /\ PersistedState' \in {PersistedState, "HEALTHY"}
    BY <1>12, <2>1, TransitionEffect DEF HandleUnknown, States
  <2> QED
    BY <1>12, <1>b, <2>2, QuietEnd DEF HandleUnknown, EndEvaluation, CooldownInv
<1>13. CASE Start \/ HealthChanges \/ FaultsCease
  BY <1>13, <1>b, <1>d DEF Start, HealthChanges, FaultsCease, CooldownInv
<1> QED
  BY <1>1, <1>2, <1>3, <1>4, <1>5, <1>6, <1>7, <1>8, <1>9, <1>10, <1>11,
     <1>12, <1>13
  DEF FHStep, ProcessStep, ScoreStep, OtherStep, EnvironmentStep

\* So does the passing of time: the two ages grow together, and both stop at
\* the cooldown.
LEMMA CooldownElapse ==
    ASSUME TypeInv, CooldownInv, FHElapse
    PROVE  CooldownInv'
<1> USE SafetyParamsAssumption
<1>1. ASSUME NEW q, Typed(q), q # NoState
      PROVE  /\ Aged(q) # NoState
             /\ Aged(q).state = q.state
             /\ Aged(q).sinceFailover = Older(q.sinceFailover, FailoverCooldown)
  <2>1. q \in ControllerState
    BY <1>1 DEF Typed
  <2>2. Aged(q) # NoState
    BY <1>1, AgedType
  <2> QED
    BY <1>1, <2>1, <2>2 DEF Aged, ControllerState
<1>2. /\ PersistedState' = PersistedState
      /\ FailoverAge' = Older(FailoverAge, FailoverCooldown)
  <2>1. file' = Aged(file) /\ Typed(file)
    BY DEF FHElapse, Elapse, TypeInv
  <2>2. CASE file = NoState
    BY <2>1, <2>2 DEF Aged, PersistedState, FailoverAge, Older
  <2>3. CASE file # NoState
    BY <1>1, <2>1, <2>3 DEF PersistedState, FailoverAge
  <2> QED
    BY <2>2, <2>3
<1>3. mem' # NoState => /\ mem'.state = PersistedState'
                        /\ mem'.sinceFailover = FailoverAge'
  <2>1. mem' = Aged(mem) /\ Typed(mem)
    BY DEF FHElapse, Elapse, TypeInv
  <2>2. mem' # NoState => mem # NoState
    BY <2>1, AgedType
  <2> QED
    BY <1>1, <1>2, <2>1, <2>2 DEF CooldownInv
<1>4. ns' = ns /\ sinceFlip' = Older(sinceFlip, FailoverCooldown)
  BY DEF FHElapse, Elapse
<1>5. FailoverAge \in 0 .. FailoverCooldown
  BY DEF FailoverAge, TypeInv, TypeOK, ControllerState
<1> QED
  BY <1>2, <1>3, <1>4, <1>5 DEF CooldownInv, Older

\* Every step keeps the invariant.
LEMMA CooldownStep ==
    ASSUME TypeInv, CooldownInv, [FHNext]_fhVars, "loss" \notin Faults
    PROVE  CooldownInv'
<1>1. CASE FHMidnight
  BY <1>1 DEF FHMidnight, Midnight, CooldownInv, PersistedState, FailoverAge
<1>2. CASE UNCHANGED fhVars
  BY <1>2 DEF fhVars, vars, historyVars, CooldownInv, PersistedState, FailoverAge
<1> QED
  BY <1>1, <1>2, CooldownProcessStep, CooldownElapse DEF FHNext

LEMMA CooldownInit == FHInit => CooldownInv
BY SafetyParamsAssumption, NoStateAssumption
DEF FHInit, Init, CooldownInv, PersistedState, FailoverAge, Fresh

\* Unless the state file is lost, two moves of the domain to the secondary
\* are FailoverCooldown apart, for all parameters and whatever else fails:
\* crashes, lost saves, registrar errors, slow calls, midnights.
THEOREM CooldownRespected ==
    ASSUME "loss" \notin Faults
    PROVE  FHSpec => FlipsRespectCooldown
<1> DEFINE Inv == TypeInv /\ CooldownInv
<1>1. FHInit => Inv
  BY TypeInit, CooldownInit DEF FHInit
<1>2. Inv /\ [FHNext]_fhVars => Inv'
  <2>1. [FHNext]_fhVars => [Next]_vars
    BY DEF FHNext, FHStep, FHElapse, FHMidnight, fhVars, Next
  <2> QED
    BY <2>1, TypeStep, CooldownStep
<1>3. Inv /\ [FHNext]_fhVars => [FlipsOver => sinceFlip >= FailoverCooldown]_fhVars
  BY FlipStep
<1> QED
  BY <1>1, <1>2, <1>3, PTL DEF FHSpec, FlipsRespectCooldown

-----------------------------------------------------------------------------
(* Records that do not tell where the domain is *)

\* An evaluation works on a copy of the record that the file holds, and a
\* registrar call succeeds only for a failover or a failback.
CopyInv ==
    /\ mem # NoState => mem.state = PersistedState
    /\ pc = "nsUpdated" => \/ mem.state = "FAILING_OVER"
                           \/ mem.state = "RECOVERING" /\ ns = "primary"

LEMMA CopyStep ==
    ASSUME TypeInv, CopyInv, [Next]_vars
    PROVE  CopyInv'
<1> USE DEF TypeInv, TypeOK
<1>1. CASE Evaluate
  <2>1. DefaultState.state = "HEALTHY"
    BY DEF DefaultState, Fresh
  <2>2. file # NoState => Loaded.state = file.state
    BY DEF Loaded, ControllerState
  <2>3. Loaded.state = PersistedState
    BY <2>1, <2>2 DEF Loaded, PersistedState
  <2>4. \/ pc' = "evaluating" /\ mem' = Loaded /\ file' = file
        \/ pc' = "evaluating" /\ mem' = DefaultState /\ file' = NoState
        \/ pc' = pc /\ mem' = mem /\ file' = file /\ pc = "idle"
    BY <1>1 DEF Evaluate
  <2>5. pc' # "nsUpdated"
    BY <2>4
  <2>6. CASE mem' = Loaded /\ file' = file
    BY <2>3, <2>5, <2>6 DEF CopyInv, PersistedState
  <2>7. CASE mem' = DefaultState /\ file' = NoState
    BY <2>1, <2>5, <2>7 DEF CopyInv, PersistedState
  <2>8. CASE mem' = mem /\ file' = file
    BY <2>5, <2>8 DEF CopyInv, PersistedState
  <2> QED
    BY <2>4, <2>6, <2>7, <2>8
<1>2. CASE EndEvaluation
  BY <1>2 DEF EndEvaluation, CopyInv
<1>3. CASE FailoverUpdates \/ FailbackUpdates
  BY <1>3 DEF FailoverUpdates, FailbackUpdates, RecoveryCooldownOver, Reading,
              CopyInv, PersistedState
<1>4. CASE Crash
  BY <1>4 DEF Crash, CopyInv
<1>5. CASE Start \/ EnvironmentStep \/ Midnight \/ UNCHANGED vars
  BY <1>5 DEF Start, EnvironmentStep, HealthChanges, FaultsCease, Midnight, vars,
              CopyInv, PersistedState
<1>6. CASE Elapse
  <2>1. ASSUME NEW r \in ControllerState
        PROVE  Aged(r).state = r.state
    BY <2>1, NoStateAssumption DEF Aged, ControllerState
  <2>2. /\ mem' # NoState => mem # NoState /\ mem'.state = mem.state
        /\ PersistedState' = PersistedState
    BY <1>6, <2>1, AgedType DEF Elapse, PersistedState, Typed
  <2>3. pc' = pc /\ ns' = ns /\ (pc = "nsUpdated" => mem' # NoState)
    BY <1>6, AgedType DEF Elapse, Evaluating, Typed
  <2> QED
    BY <2>2, <2>3 DEF CopyInv
<1> QED
  BY <1>1, <1>2, <1>3, <1>4, <1>5, <1>6
  DEF Next, ProcessStep, ScoreStep, OtherStep, QueryFails, HandleHealthy,
      HandleDegraded, FailoverFails, FailoverCompletes, HandleFailedOver,
      RecoveryAborts, RecoveryWaits, FailbackFails, FailbackCompletes, HandleUnknown

\* A transition saves the record in its new state, or nothing.
LEMMA TransitionState ==
    ASSUME NEW r \in ControllerState, NEW to \in States, Transition(r, to)
    PROVE  PersistedState' \in {PersistedState, to}
BY TransitionEffect

\* A step that is no abort and loses no file does not orphan the domain.
LEMMA OrphanStep ==
    ASSUME TypeInv, CopyInv, [Next]_vars, Orphaned'
    PROVE  Orphaned \/ FailoverFails \/ file' = NoState
<1> SUFFICES ASSUME ~Orphaned, ~FailoverFails, file' # NoState
             PROVE  FALSE
  OBVIOUS
<1> USE DEF TypeInv, TypeOK
<1>a. Evaluating => mem \in ControllerState /\ mem.state = PersistedState
  BY DEF CopyInv
<1>b. ASSUME PersistedState' = PersistedState
      PROVE  ns' # ns
  BY <1>b DEF Orphaned
<1>1. CASE Evaluate
  BY <1>1, <1>b DEF Evaluate, PersistedState
<1>2. CASE QueryFails \/ RecoveryWaits
  BY <1>2, <1>b DEF QueryFails, RecoveryWaits, PersistedState
<1>3. CASE HandleHealthy
  BY <1>3, <1>a DEF HandleHealthy, Reading, Evaluating, Orphaned
<1>4. CASE HandleDegraded
  BY <1>4, <1>a DEF HandleDegraded, Reading, Evaluating, Orphaned
<1>5. CASE FailoverUpdates \/ FailbackUpdates \/ FailbackFails
  BY <1>5, <1>a DEF FailoverUpdates, FailbackUpdates, FailbackFails, Evaluating,
                    RecoveryCooldownOver, Reading, PersistedState, Orphaned
<1>6. CASE FailoverCompletes
  <2> DEFINE r == [mem EXCEPT !.sinceFailover = 0, !.checks = 0,
                              !.dailyCount = @ + 1]
  <2>1. mem \in ControllerState /\ mem.dailyCount < MaxDailyFailovers
    BY <1>6, <1>a DEF FailoverCompletes, Evaluating, Typed
  <2>2. r \in ControllerState
    BY <2>1, UpdateType
  <2>3. Transition(r, "FAILED_OVER") /\ ns' = ns
    BY <1>6 DEF FailoverCompletes
  <2>4. PersistedState' \in {PersistedState, "FAILED_OVER"}
    <3> HIDE DEF r
    <3> QED BY <2>2, <2>3, TransitionState DEF States
  <2> QED
    BY <2>3, <2>4, <1>b DEF Orphaned
<1>7. CASE HandleFailedOver \/ RecoveryAborts
  <2>1. mem \in ControllerState /\ ns' = ns
    BY <1>7, <1>a DEF HandleFailedOver, RecoveryAborts, Reading, Evaluating
  <2>2. /\ [mem EXCEPT !.sinceRecovery = 0] \in ControllerState
        /\ [mem EXCEPT !.sinceRecovery = RecoveryCooldown] \in ControllerState
    BY <2>1, SafetyParamsAssumption DEF ControllerState
  <2>3. PersistedState' \in {PersistedState, "RECOVERING", "FAILED_OVER"}
    BY <1>7, <2>1, <2>2, TransitionState
    DEF HandleFailedOver, RecoveryAborts, States, PersistedState
  <2> QED
    BY <2>1, <2>3, <1>b DEF Orphaned
<1>8. CASE FailbackCompletes
  BY <1>8, <1>a DEF FailbackCompletes, CopyInv, Orphaned
<1>9. CASE HandleUnknown
  <2>1. mem.state = LegacyState
    BY <1>9, <1>a DEF HandleUnknown, Evaluating, ControllerState
  <2>2. file' = file /\ ns' = ns
    BY <1>9, <2>1 DEF HandleUnknown, Transition, ValidateTransition,
                      ValidTransitions, LegacyState
  <2> QED
    BY <2>2, <1>b DEF PersistedState
<1>10. CASE Crash \/ Start \/ EnvironmentStep \/ Midnight \/ UNCHANGED vars
  BY <1>10, <1>b DEF Crash, Start, EnvironmentStep, HealthChanges, FaultsCease,
                     Midnight, vars, PersistedState
<1>11. CASE Elapse
  <2>1. ASSUME NEW r \in ControllerState
        PROVE  Aged(r).state = r.state
    BY <2>1, NoStateAssumption DEF Aged, ControllerState
  <2>2. PersistedState' = PersistedState
    BY <1>11, <2>1, AgedType DEF Elapse, PersistedState, Typed
  <2> QED
    BY <1>11, <2>2, <1>b DEF Elapse
<1> QED
  BY <1>1, <1>2, <1>3, <1>4, <1>5, <1>6, <1>7, <1>8, <1>9, <1>10, <1>11
  DEF Next, ProcessStep, ScoreStep, OtherStep

\* For all parameters and every fault: only the abort of a failover or a lost
\* file leaves the domain on the secondary behind a record that says HEALTHY
\* or DEGRADED (statemachine.go:188, persistence.go:56).
THEOREM OnlyAbortsOrphan == Spec => OrphanedOnlyByAbort
<1> DEFINE Inv == TypeInv /\ CopyInv
<1>1. Init => Inv
  <2>1. Init => CopyInv
    BY DEF Init, CopyInv
  <2> QED BY <2>1, TypeInit
<1>2. Inv /\ [Next]_vars => Inv'
  BY TypeStep, CopyStep
<1>3. Inv /\ [Next]_vars =>
          [Orphaned' => Orphaned \/ FailoverFails \/ file' = NoState]_vars
  BY OrphanStep
<1> QED
  BY <1>1, <1>2, <1>3, PTL DEF Spec, OrphanedOnlyByAbort

-----------------------------------------------------------------------------
(***************************************************************************)
(* The failover controller implements FlipDiscipline, for all parameters   *)
(* and for every fault but the loss of the state file and an evaluation    *)
(* that straddles midnight.                                                *)
(*                                                                         *)
(* The cooldown is proved above.  The daily cap needs the count: the        *)
(* code counts completed failovers, when their record is saved, while the  *)
(* cap is about moves, which come before.  The invariant allows one move   *)
(* that the record does not count yet, and only while the secondary serves *)
(* after a failover that no record calls completed; the next move needs    *)
(* a failback, and a failback needs that record.                           *)
(***************************************************************************)
\* The failovers of today that a load would find counted.
CountedToday ==
    IF file = NoState THEN 0
    ELSE IF file.resetDay # today THEN 0 ELSE file.dailyCount

DailyInv ==
    /\ flipsToday \in Nat
    /\ mem # NoState => /\ mem.resetDay = today
                        /\ mem.dailyCount = CountedToday
    /\ flipsToday <= CountedToday + 1
    /\ ns = "primary" \/ PersistedState \in {"FAILED_OVER", "RECOVERING"} =>
         flipsToday <= CountedToday

-----------------------------------------------------------------------------

\* The count of a transition's record is the one a load would find, today.
LEMMA TransitionCount ==
    ASSUME NEW r \in ControllerState, NEW to \in States, Transition(r, to),
           r.resetDay = today, today' = today
    PROVE  \/ file' = file
           \/ PersistedState' = to /\ CountedToday' = r.dailyCount
<1>1. CASE file' = file
  BY <1>1
<1>2. CASE /\ ValidateTransition(r, to)
           /\ file' = [r EXCEPT !.state = to, !.sinceTransition = 0]
  <2>1. file' \in ControllerState
    BY <1>2, UpdateType
  <2>2. /\ file'.state = to /\ file'.resetDay = r.resetDay
        /\ file'.dailyCount = r.dailyCount
    BY <1>2 DEF ControllerState
  <2> QED
    BY <2>1, <2>2, NoStateAssumption DEF PersistedState, CountedToday
<1> QED
  BY <1>1, <1>2 DEF Transition, Save

\* An evaluation that neither moves the domain nor counts a failover.
LEMMA UncountedEnd ==
    ASSUME DailyInv, ns' = ns, flipsToday' = flipsToday, mem' = NoState,
           CountedToday' = CountedToday,
           PersistedState' \in {"FAILED_OVER", "RECOVERING"} =>
               PersistedState \in {"FAILED_OVER", "RECOVERING"}
    PROVE  DailyInv'
BY DEF DailyInv

\* The copy in memory counts what the file does, and is of today.
LEMMA CountedCopy ==
    ASSUME TypeInv, CooldownInv, DailyInv, Evaluating
    PROVE  /\ mem \in ControllerState
           /\ mem.state = PersistedState
           /\ mem.resetDay = today /\ mem.dailyCount = CountedToday
           /\ CountedToday \in Nat
BY NoStateAssumption
DEF TypeInv, TypeOK, CooldownInv, DailyInv, CountedToday, ControllerState

\* Every step of the process or its environment keeps the invariant.
LEMMA DailyProcessStep ==
    ASSUME TypeInv, CooldownInv, DailyInv, FHStep, "loss" \notin Faults
    PROVE  DailyInv'
<1> USE SafetyParamsAssumption
<1>a. flipsToday' = IF FlipsOver THEN flipsToday + 1 ELSE flipsToday
  BY DEF FHStep
<1>b. ns' = ns => flipsToday' = flipsToday
  BY <1>a DEF FlipsOver
<1>c. flipsToday \in Nat /\ flipsToday' \in Nat
  BY <1>a DEF DailyInv
<1>d. file' = file /\ today' = today =>
        PersistedState' = PersistedState /\ CountedToday' = CountedToday
  BY DEF PersistedState, CountedToday
<1>e. CountedToday \in Nat
  BY DEF CountedToday, TypeInv, TypeOK, ControllerState
<1>1. CASE Evaluate
  <2>1. CASE mem' = Loaded /\ UNCHANGED file
    <3>1. Loaded.resetDay = today /\ Loaded.dailyCount = CountedToday
      BY DEF Loaded, CountedToday, DefaultState, Fresh, TypeInv, TypeOK,
             ControllerState
    <3> QED
      BY <1>1, <1>b, <1>d, <2>1, <3>1 DEF Evaluate, envVars, DailyInv
  <2>2. CASE UNCHANGED <<file, mem>>
    BY <1>1, <1>b, <1>d, <2>2 DEF Evaluate, envVars, DailyInv
  <2> QED
    BY <1>1, <2>1, <2>2 DEF Evaluate, May
<1>2. CASE QueryFails \/ RecoveryWaits \/ Crash
  BY <1>2, <1>b, <1>d, UncountedEnd
  DEF QueryFails, RecoveryWaits, Crash, EndEvaluation, envVars
<1>3. CASE HandleHealthy
  <2>1. mem \in ControllerState /\ mem.resetDay = today /\ mem.dailyCount = CountedToday
    BY <1>3, CountedCopy DEF HandleHealthy, Reading, Evaluating
  <2>2. /\ [mem EXCEPT !.checks = 1] \in ControllerState
        /\ [mem EXCEPT !.checks = 1].resetDay = mem.resetDay
        /\ [mem EXCEPT !.checks = 1].dailyCount = mem.dailyCount
    BY <2>1 DEF ControllerState
  <2>3. today' = today
    BY <1>3 DEF HandleHealthy, EndEvaluation, envVars
  <2>4. /\ CountedToday' = CountedToday
        /\ PersistedState' \in {PersistedState, "DEGRADED"}
    BY <1>3, <1>d, <2>1, <2>2, <2>3, TransitionCount DEF HandleHealthy, States
  <2> QED
    BY <1>3, <1>b, <2>4, UncountedEnd DEF HandleHealthy, EndEvaluation
<1>4. CASE HandleDegraded
  <2>1. mem \in ControllerState /\ mem.resetDay = today /\ mem.dailyCount = CountedToday
    BY <1>4, CountedCopy DEF HandleDegraded, Reading, Evaluating
  <2>2. /\ [mem EXCEPT !.checks = 0] \in ControllerState
        /\ [mem EXCEPT !.checks = 0].resetDay = mem.resetDay
        /\ [mem EXCEPT !.checks = 0].dailyCount = mem.dailyCount
    BY <2>1 DEF ControllerState
  <2>3. /\ CountCheck(mem) \in ControllerState
        /\ CountCheck(mem).state = mem.state
        /\ CountCheck(mem).resetDay = mem.resetDay
        /\ CountCheck(mem).dailyCount = mem.dailyCount
    BY <2>1 DEF CountCheck, ControllerState
  <2>4. today' = today /\ mem.state = PersistedState
    BY <1>4, CountedCopy DEF HandleDegraded, EndEvaluation, envVars, Reading, Evaluating
  <2>5. ASSUME StillDegraded(CountCheck(mem))
        PROVE  /\ CountedToday' = CountedToday
               /\ PersistedState' \in {PersistedState, "FAILING_OVER"}
    <3>1. CASE Transition(CountCheck(mem), "FAILING_OVER")
      BY <3>1, <1>d, <2>1, <2>3, <2>4, TransitionCount DEF States
    <3>2. CASE Save(CountCheck(mem))
      <4>1. CASE file' = file
        BY <4>1, <1>d, <2>4
      <4>2. CASE file' = CountCheck(mem)
        BY <4>2, <2>1, <2>3, <2>4, NoStateAssumption DEF PersistedState, CountedToday
      <4> QED
        BY <3>2, <4>1, <4>2 DEF Save
    <3> QED
      BY <2>5, <3>1, <3>2 DEF StillDegraded
  <2>6. ASSUME Transition([mem EXCEPT !.checks = 0], "HEALTHY")
        PROVE  /\ CountedToday' = CountedToday
               /\ PersistedState' \in {PersistedState, "HEALTHY"}
    BY <2>6, <1>d, <2>1, <2>2, <2>4, TransitionCount DEF States
  <2>7. primary \in {"absent", "fair", "good", "bad"}
    BY DEF TypeInv, TypeOK, AllHealthClasses
  <2>8. /\ CountedToday' = CountedToday
        /\ PersistedState' \in {PersistedState, "HEALTHY", "FAILING_OVER"}
    BY <1>4, <1>d, <2>4, <2>5, <2>6, <2>7 DEF HandleDegraded
  <2> QED
    BY <1>4, <1>b, <2>8, UncountedEnd DEF HandleDegraded, EndEvaluation
<1>5. CASE FailoverFails
  <2>1. /\ mem \in ControllerState /\ PersistedState = "FAILING_OVER"
        /\ mem.resetDay = today /\ mem.dailyCount = CountedToday
    BY <1>5, CountedCopy DEF FailoverFails, Reading, Evaluating
  <2>2. today' = today /\ mem' = NoState
    BY <1>5 DEF FailoverFails, EndEvaluation, envVars
  <2>3. /\ CountedToday' = CountedToday
        /\ PersistedState' \in {"FAILING_OVER", "DEGRADED"}
    BY <1>5, <1>d, <2>1, <2>2, TransitionCount DEF FailoverFails, States
  <2>4. CASE ns' = ns
    BY <1>b, <2>2, <2>3, <2>4, UncountedEnd
  <2>5. CASE ns' = "secondary" /\ ns # "secondary"
    <3>1. ns = "primary"
      BY <2>5 DEF TypeInv, TypeOK
    <3> QED
      BY <1>a, <1>c, <1>e, <2>2, <2>3, <2>5, <3>1 DEF FlipsOver, DailyInv
  <2> QED
    BY <1>5, <2>4, <2>5 DEF FailoverFails, FailedUpdate
<1>6. CASE FailoverUpdates
  <2>1. PersistedState = "FAILING_OVER"
    BY <1>6, CountedCopy DEF FailoverUpdates, Reading, Evaluating
  <2>2. /\ file' = file /\ mem' = mem /\ today' = today
        /\ ns' = "secondary" /\ ns \in {"primary", "secondary"}
    BY <1>6 DEF FailoverUpdates, envVars, TypeInv, TypeOK
  <2> QED
    BY <1>a, <1>c, <1>d, <1>e, <2>1, <2>2 DEF FlipsOver, DailyInv
<1>7. CASE FailoverCompletes
  <2>1. /\ mem \in ControllerState /\ mem.dailyCount < MaxDailyFailovers
        /\ PersistedState = "FAILING_OVER"
        /\ mem.resetDay = today /\ mem.dailyCount = CountedToday
    BY <1>7, CountedCopy, NoStateAssumption
    DEF FailoverCompletes, Evaluating, TypeInv, Typed
  <2> DEFINE r == [mem EXCEPT !.sinceFailover = 0, !.checks = 0,
                              !.dailyCount = @ + 1]
  <2>2. /\ r \in ControllerState
        /\ r.resetDay = mem.resetDay /\ r.dailyCount = mem.dailyCount + 1
    BY <2>1, UpdateType DEF ControllerState
  <2>3. Transition(r, "FAILED_OVER") /\ today' = today /\ mem' = NoState /\ ns' = ns
    BY <1>7 DEF FailoverCompletes, EndEvaluation, envVars
  <2> HIDE DEF r
  <2>4. \/ PersistedState' = PersistedState /\ CountedToday' = CountedToday
        \/ PersistedState' = "FAILED_OVER" /\ CountedToday' = CountedToday + 1
    BY <1>d, <2>1, <2>2, <2>3, TransitionCount DEF States
  <2> QED
    BY <1>b, <1>c, <1>e, <2>1, <2>3, <2>4 DEF DailyInv
<1>8. CASE HandleFailedOver
  <2>1. /\ mem \in ControllerState /\ PersistedState = "FAILED_OVER"
        /\ mem.resetDay = today /\ mem.dailyCount = CountedToday
    BY <1>8, CountedCopy DEF HandleFailedOver, Reading, Evaluating
  <2>2. /\ [mem EXCEPT !.sinceRecovery = 0] \in ControllerState
        /\ [mem EXCEPT !.sinceRecovery = 0].resetDay = mem.resetDay
        /\ [mem EXCEPT !.sinceRecovery = 0].dailyCount = mem.dailyCount
    BY <2>1 DEF ControllerState
  <2>3. today' = today
    BY <1>8 DEF HandleFailedOver, EndEvaluation, envVars
  <2>4. CountedToday' = CountedToday
    BY <1>8, <1>d, <2>1, <2>2, <2>3, TransitionCount DEF HandleFailedOver, States
  <2> QED
    BY <1>8, <1>b, <2>1, <2>4, UncountedEnd DEF HandleFailedOver, EndEvaluation
<1>9. CASE RecoveryAborts
  <2>1. /\ mem \in ControllerState /\ PersistedState = "RECOVERING"
        /\ mem.resetDay = today /\ mem.dailyCount = CountedToday
    BY <1>9, CountedCopy DEF RecoveryAborts, Reading, Evaluating
  <2>2. /\ [mem EXCEPT !.sinceRecovery = RecoveryCooldown] \in ControllerState
        /\ [mem EXCEPT !.sinceRecovery = RecoveryCooldown].resetDay = mem.resetDay
        /\ [mem EXCEPT !.sinceRecovery = RecoveryCooldown].dailyCount = mem.dailyCount
    BY <2>1 DEF ControllerState
  <2>3. today' = today
    BY <1>9 DEF RecoveryAborts, EndEvaluation, envVars
  <2>4. CountedToday' = CountedToday
    BY <1>9, <1>d, <2>1, <2>2, <2>3, TransitionCount DEF RecoveryAborts, States
  <2> QED
    BY <1>9, <1>b, <2>1, <2>4, UncountedEnd DEF RecoveryAborts, EndEvaluation
<1>10. CASE FailbackFails \/ FailbackUpdates
  <2>1. PersistedState = "RECOVERING"
    BY <1>10, CountedCopy
    DEF FailbackFails, FailbackUpdates, RecoveryCooldownOver, Reading, Evaluating
  <2>2. /\ ns' = ns \/ ns' = "primary"
        /\ file' = file /\ today' = today /\ (mem' = mem \/ mem' = NoState)
    BY <1>10 DEF FailbackFails, FailedUpdate, FailbackUpdates, EndEvaluation, envVars
  <2>3. flipsToday' = flipsToday
    BY <1>a, <2>2 DEF FlipsOver
  <2> QED
    BY <1>d, <2>1, <2>2, <2>3 DEF DailyInv
<1>11. CASE FailbackCompletes
  <2>1. /\ mem \in ControllerState /\ PersistedState = "RECOVERING"
        /\ mem.resetDay = today /\ mem.dailyCount = CountedToday
    BY <1>11, CountedCopy DEF FailbackCompletes, Evaluating
  <2> DEFINE r == [mem EXCEPT !.checks = 0, !.sinceRecovery = RecoveryCooldown]
  <2>2. /\ r \in ControllerState
        /\ r.resetDay = mem.resetDay /\ r.dailyCount = mem.dailyCount
    BY <2>1, UpdateType DEF ControllerState
  <2>3. Transition(r, "HEALTHY") /\ today' = today
    BY <1>11 DEF FailbackCompletes, EndEvaluation, envVars
  <2> HIDE DEF r
  <2>4. CountedToday' = CountedToday
    BY <1>d, <2>1, <2>2, <2>3, TransitionCount DEF States
  <2> QED
    BY <1>11, <1>b, <2>1, <2>4, UncountedEnd DEF FailbackCompletes, EndEvaluation
<1>12. CASE HandleUnknown
  <2>1. mem \in ControllerState /\ mem.resetDay = today /\ mem.dailyCount = CountedToday
    BY <1>12, CountedCopy DEF HandleUnknown, Evaluating
  <2>2. today' = today
    BY <1>12 DEF HandleUnknown, EndEvaluation, envVars
  <2>3. CountedToday' = CountedToday /\ PersistedState' \in {PersistedState, "HEALTHY"}
    BY <1>12, <1>d, <2>1, <2>2, TransitionCount DEF HandleUnknown, States
  <2> QED
    BY <1>12, <1>b, <2>3, UncountedEnd DEF HandleUnknown, EndEvaluation
<1>13. CASE Start \/ HealthChanges \/ FaultsCease
  BY <1>13, <1>b, <1>d DEF Start, HealthChanges, FaultsCease, envVars, DailyInv
<1> QED
  BY <1>1, <1>2, <1>3, <1>4, <1>5, <1>6, <1>7, <1>8, <1>9, <1>10, <1>11,
     <1>12, <1>13
  DEF FHStep, ProcessStep, ScoreStep, OtherStep, EnvironmentStep

\* Time does not change what was counted.
LEMMA DailyElapse ==
    ASSUME TypeInv, DailyInv, FHElapse
    PROVE  DailyInv'
<1>1. ASSUME NEW q, Typed(q), q # NoState
      PROVE  /\ Aged(q) # NoState
             /\ Aged(q).state = q.state
             /\ Aged(q).resetDay = q.resetDay
             /\ Aged(q).dailyCount = q.dailyCount
  <2>1. q \in ControllerState
    BY <1>1 DEF Typed
  <2>2. Aged(q) # NoState
    BY <1>1, AgedType
  <2> QED
    BY <1>1, <2>1, <2>2 DEF Aged, ControllerState
<1>2. /\ file' = Aged(file) /\ Typed(file)
      /\ mem' = Aged(mem) /\ Typed(mem)
      /\ today' = today /\ ns' = ns /\ flipsToday' = flipsToday
  BY DEF FHElapse, Elapse, TypeInv
<1>3. PersistedState' = PersistedState /\ CountedToday' = CountedToday
  <2>1. CASE file = NoState
    BY <1>2, <2>1 DEF Aged, PersistedState, CountedToday
  <2>2. CASE file # NoState
    BY <1>1, <1>2, <2>2 DEF PersistedState, CountedToday
  <2> QED
    BY <2>1, <2>2
<1>4. mem' # NoState => mem # NoState
  BY <1>2, AgedType
<1> QED
  BY <1>1, <1>2, <1>3, <1>4 DEF DailyInv

\* A midnight that no evaluation straddles finds nothing in memory.
LEMMA DailyMidnight ==
    ASSUME TypeInv, DailyInv, FHMidnight, "straddle" \notin Faults
    PROVE  DailyInv'
<1>1. mem' = NoState /\ flipsToday' = 0
  BY DEF FHMidnight, Midnight, May, TypeInv, TypeOK
<1>2. file' = file /\ (file # NoState => file.dailyCount \in Nat)
  BY DEF FHMidnight, Midnight, TypeInv, TypeOK, ControllerState
<1>3. flipsToday' <= CountedToday' + 1 /\ flipsToday' <= CountedToday'
  BY <1>1, <1>2 DEF CountedToday
<1> QED
  BY <1>1, <1>3 DEF DailyInv

LEMMA DailyStep ==
    ASSUME TypeInv, CooldownInv, DailyInv, [FHNext]_fhVars,
           Faults \cap {"loss", "straddle"} = {}
    PROVE  DailyInv'
<1>1. CASE UNCHANGED fhVars
  BY <1>1 DEF fhVars, vars, historyVars, DailyInv, PersistedState, CountedToday
<1> QED
  BY <1>1, DailyProcessStep, DailyElapse, DailyMidnight DEF FHNext

LEMMA DailyInit == FHInit => DailyInv
<1> SUFFICES ASSUME FHInit PROVE DailyInv
  OBVIOUS
<1>1. flipsToday = 0 /\ mem = NoState
  BY DEF FHInit, Init
<1>2. CountedToday = 0
  BY DEF FHInit, Init, CountedToday, Fresh
<1> QED
  BY <1>1, <1>2 DEF DailyInv

-----------------------------------------------------------------------------

\* Every step of the controller is one of the promise, or changes nothing the
\* promise is about.
LEMMA Simulation ==
    ASSUME TypeInv, CooldownInv, DailyInv, [FHNext]_fhVars,
           "straddle" \notin Faults
    PROVE  [Promise!Next]_(Promise!vars)
<1> USE SafetyParamsAssumption
<1>0. MaxDailyFailovers + MidnightSlack = MaxDailyFailovers
  BY DEF MidnightSlack
<1>1. CASE FHElapse
  <2>1. ns' = ns /\ flipsToday' = flipsToday
        /\ sinceFlip' = Older(sinceFlip, FailoverCooldown)
    BY <1>1 DEF FHElapse, Elapse
  <2> QED
    BY <2>1 DEF Older, Promise!Next, Promise!Elapse, Promise!vars
<1>2. CASE FHMidnight
  BY <1>2 DEF FHMidnight, Midnight, Promise!Next, Promise!Midnight
<1>3. CASE FHStep /\ FlipsOver
  <2>1. /\ sinceFlip >= FailoverCooldown
        /\ FailoverFails \/ FailoverUpdates
    BY <1>3, FlipStep
  <2>2. Evaluating /\ mem.state = "FAILING_OVER"
    BY <2>1 DEF FailoverFails, FailoverUpdates, Reading, Evaluating
  <2>3. mem.dailyCount < MaxDailyFailovers /\ mem.dailyCount = CountedToday
    BY <2>2, CountedCopy, NoStateAssumption DEF TypeInv, Typed
  <2>4. flipsToday <= CountedToday /\ flipsToday \in Nat /\ CountedToday \in Nat
    BY <1>3, <2>2, CountedCopy DEF DailyInv, FlipsOver
  <2> QED
    BY <1>0, <1>3, <2>1, <2>3, <2>4
    DEF FHStep, FlipsOver, Promise!Next, Promise!FlipOver
<1>4. CASE FHStep /\ ~FlipsOver
  <2>1. sinceFlip' = sinceFlip /\ flipsToday' = flipsToday
    BY <1>4 DEF FHStep
  <2>2. ns \in {"primary", "secondary"} /\ ns' \in {"primary", "secondary"}
    <3>1. [Next]_vars
      BY <1>4 DEF FHStep, Next
    <3> QED
      BY <3>1, TypeStep DEF TypeInv, TypeOK
  <2> QED
    BY <1>4, <2>1, <2>2
    DEF FlipsOver, Promise!Next, Promise!FlipBack, Promise!vars
<1>5. CASE UNCHANGED fhVars
  BY <1>5 DEF fhVars, vars, historyVars, Promise!vars
<1> QED
  BY <1>1, <1>2, <1>3, <1>4, <1>5 DEF FHNext

\* The controller keeps the promise of safety.go, for all parameters, unless
\* the state file is lost or an evaluation straddles midnight: no crash, lost
\* save, registrar error or delay makes it move the domain to the secondary
\* too soon or too often.
THEOREM DisciplineKept ==
    ASSUME Faults \cap {"loss", "straddle"} = {}
    PROVE  FHSpec => KeepsFlipDiscipline
<1> DEFINE Inv == TypeInv /\ CooldownInv /\ DailyInv
<1>1. FHInit => Inv
  BY TypeInit, CooldownInit, DailyInit DEF FHInit
<1>2. FHInit => Promise!Init
  BY DEF FHInit, Init, Promise!Init
<1>3. Inv /\ [FHNext]_fhVars => Inv'
  <2>1. [FHNext]_fhVars => [Next]_vars
    BY DEF FHNext, FHStep, FHElapse, FHMidnight, fhVars, Next
  <2> QED
    BY <2>1, TypeStep, CooldownStep, DailyStep
<1>4. Inv /\ [FHNext]_fhVars => [Promise!Next]_(Promise!vars)
  BY Simulation
<1> QED
  BY <1>1, <1>2, <1>3, <1>4, PTL DEF FHSpec, KeepsFlipDiscipline, Promise!Spec

-----------------------------------------------------------------------------
(***************************************************************************)
(* How long the secondary serves after a move, and what the evaluations    *)
(* have seen of the primary when they move the domain, for all parameters  *)
(* and for every fault, the loss of the state file included.               *)
(*                                                                         *)
(* A failback needs a record in RECOVERING whose recovery began a          *)
(* RecoveryCooldown ago, and that recovery began in a record which had     *)
(* been FAILED_OVER for MinTimeInState.  The invariant says that such      *)
(* records are no older than the last move while the secondary serves.  A  *)
(* lost file only takes the record away, so that the copy in memory is the *)
(* one that matters until its evaluation ends.                             *)
(***************************************************************************)
\* The record r, if any, does not outdate the last move to the secondary.
Dated(r) ==
    r # NoState /\ ns = "secondary" =>
        /\ r.state = "FAILED_OVER" => r.sinceTransition <= sinceFlip
        /\ r.state = "RECOVERING" => MinTimeInState + r.sinceRecovery <= sinceFlip

StayInv ==
    /\ sinceFlip \in 0 .. FailoverCooldown
    /\ file # NoState /\ mem # NoState => file.state = mem.state
    /\ Dated(file)
    /\ Dated(mem)

-----------------------------------------------------------------------------

\* A transition leaves the file alone or replaces it by the record in its new
\* state, which it has just entered.
LEMMA TransitionDates ==
    ASSUME NEW r \in ControllerState, NEW to \in States, Transition(r, to)
    PROVE  \/ file' = file
           \/ /\ file' \in ControllerState
              /\ file'.state = to /\ file'.sinceTransition = 0
              /\ file'.sinceRecovery = r.sinceRecovery
              /\ r.sinceTransition >= MinTimeInState
<1>1. CASE file' = file
  BY <1>1
<1>2. CASE /\ ValidateTransition(r, to)
           /\ file' = [r EXCEPT !.state = to, !.sinceTransition = 0]
  <2>1. file' \in ControllerState
    BY <1>2, UpdateType
  <2>2. r.sinceTransition >= MinTimeInState
    BY <1>2 DEF ValidateTransition
  <2> QED
    BY <1>2, <2>1, <2>2 DEF ControllerState
<1> QED
  BY <1>1, <1>2 DEF Transition, Save

\* An evaluation that does not move the domain keeps the invariant when the
\* record it leaves does not outdate the last move.
LEMMA StayEnd ==
    ASSUME StayInv, EndEvaluation, ns' = ns, sinceFlip' = sinceFlip,
           file' = file \/ Dated(file)'
    PROVE  StayInv'
BY DEF StayInv, EndEvaluation, Dated

\* Each evaluation works on a record.
LEMMA Working ==
    ASSUME TypeInv, Evaluating
    PROVE  mem \in ControllerState /\ mem # NoState
BY NoStateAssumption DEF TypeInv, TypeOK

\* A failback comes MinTimeInState + RecoveryCooldown after the last move.
LEMMA FailbackStep ==
    ASSUME TypeInv, StayInv, [FHNext]_fhVars, ns = "secondary", ns' = "primary"
    PROVE  sinceFlip >= MinTimeInState + RecoveryCooldown
<1>1. RecoveryCooldownOver
  BY DEF FHNext, FHStep, FHElapse, FHMidnight, fhVars, vars, Elapse,
         Midnight, ProcessStep, ScoreStep, OtherStep, EnvironmentStep, Evaluate,
         QueryFails, HandleHealthy, HandleDegraded, FailoverCompletes,
         HandleFailedOver, RecoveryAborts, RecoveryWaits, FailbackFails,
         FailoverFails, FailoverUpdates, FailedUpdate, FailbackUpdates,
         FailbackCompletes, HandleUnknown, Crash, Start,
         HealthChanges, FaultsCease
<1>2. /\ mem \in ControllerState /\ mem # NoState
      /\ mem.state = "RECOVERING" /\ mem.sinceRecovery >= RecoveryCooldown
  BY <1>1, Working DEF RecoveryCooldownOver, Reading, Evaluating
<1>3. MinTimeInState + mem.sinceRecovery <= sinceFlip
  BY <1>2 DEF StayInv, Dated
<1> QED
  BY <1>2, <1>3, SafetyParamsAssumption DEF StayInv, ControllerState

\* Every step of the process or its environment keeps the invariant.
LEMMA StayProcessStep ==
    ASSUME TypeInv, StayInv, FHStep
    PROVE  StayInv'
<1> USE SafetyParamsAssumption
<1>a. sinceFlip' = IF FlipsOver THEN 0 ELSE sinceFlip
  BY DEF FHStep
<1>b. ns' = ns => sinceFlip' = sinceFlip
  BY <1>a DEF FlipsOver
<1>c. sinceFlip' \in 0 .. FailoverCooldown
  BY <1>a DEF StayInv
<1>d. sinceFlip \in 0 .. FailoverCooldown
  BY DEF StayInv
<1>1. CASE Evaluate
  <2>1. CASE mem' = Loaded /\ UNCHANGED file
    <3>1. CASE file = NoState
      BY <1>1, <1>b, <1>d, <2>1, <3>1
      DEF Evaluate, StayInv, Dated, Loaded, DefaultState, Fresh
    <3>2. CASE file # NoState
      <4>1. file \in ControllerState
        BY <3>2 DEF TypeInv, TypeOK
      <4>2. /\ Loaded.state = file.state
            /\ Loaded.sinceTransition = file.sinceTransition
            /\ Loaded.sinceRecovery = file.sinceRecovery
        BY <3>2, <4>1 DEF Loaded, ControllerState
      <4> QED
        BY <1>1, <1>b, <1>d, <2>1, <3>2, <4>2 DEF Evaluate, StayInv, Dated
    <3> QED
      BY <3>1, <3>2
  <2>2. CASE mem' = DefaultState /\ file' = NoState
    BY <1>1, <1>b, <1>d, <2>2
    DEF Evaluate, StayInv, Dated, DefaultState, Fresh
  <2>3. CASE UNCHANGED <<file, mem>>
    BY <1>1, <1>b, <2>3 DEF Evaluate, StayInv, Dated
  <2> QED
    BY <1>1, <2>1, <2>2, <2>3 DEF Evaluate
<1>2. CASE QueryFails \/ RecoveryWaits
  BY <1>2, <1>b, StayEnd DEF QueryFails, RecoveryWaits
<1>3. CASE HandleHealthy
  <2>1. [mem EXCEPT !.checks = 1] \in ControllerState
    BY <1>3, Working DEF HandleHealthy, Reading, Evaluating, ControllerState
  <2>2. file' = file \/ file'.state = "DEGRADED"
    BY <1>3, <2>1, TransitionDates DEF HandleHealthy, States
  <2> QED
    BY <1>3, <1>b, <2>2, StayEnd DEF HandleHealthy, Dated
<1>4. CASE HandleDegraded
  <2>1. mem \in ControllerState /\ mem.state = "DEGRADED"
    BY <1>4, Working DEF HandleDegraded, Reading, Evaluating
  <2>2. [mem EXCEPT !.checks = 0] \in ControllerState
    BY <2>1 DEF ControllerState
  <2>3. CountCheck(mem) \in ControllerState /\ CountCheck(mem).state = "DEGRADED"
    BY <2>1 DEF CountCheck, ControllerState
  <2>4. ASSUME StillDegraded(CountCheck(mem))
        PROVE  file' = file \/ file'.state \in {"DEGRADED", "FAILING_OVER"}
    BY <2>3, <2>4, TransitionDates DEF StillDegraded, Save, States
  <2>5. ASSUME Transition([mem EXCEPT !.checks = 0], "HEALTHY")
        PROVE  file' = file \/ file'.state = "HEALTHY"
    BY <2>2, <2>5, TransitionDates DEF States
  <2>6. primary \in {"absent", "fair", "good", "bad"}
    BY DEF TypeInv, TypeOK, AllHealthClasses
  <2>7. file' = file \/ file'.state \in {"HEALTHY", "DEGRADED", "FAILING_OVER"}
    BY <1>4, <2>4, <2>5, <2>6 DEF HandleDegraded
  <2> QED
    BY <1>4, <1>b, <2>7, StayEnd DEF HandleDegraded, Dated
<1>5. CASE FailoverFails
  <2>1. mem \in ControllerState /\ mem # NoState /\ mem.state = "FAILING_OVER"
    BY <1>5, Working DEF FailoverFails, Reading, Evaluating
  <2>2. \/ file' = NoState
        \/ file'.state \in {"FAILING_OVER", "DEGRADED"}
    BY <1>5, <2>1, TransitionDates DEF FailoverFails, States, StayInv
  <2> QED
    BY <1>5, <1>c, <2>2 DEF FailoverFails, EndEvaluation, StayInv, Dated
<1>6. CASE FailoverUpdates
  <2>1. mem # NoState /\ mem.state = "FAILING_OVER"
    BY <1>6, Working DEF FailoverUpdates, Reading, Evaluating
  <2> QED
    BY <1>6, <1>c, <2>1 DEF FailoverUpdates, StayInv, Dated
<1>7. CASE FailoverCompletes
  <2>1. mem \in ControllerState /\ mem.dailyCount < MaxDailyFailovers
    BY <1>7, Working DEF FailoverCompletes, Evaluating, TypeInv, Typed
  <2> DEFINE r == [mem EXCEPT !.sinceFailover = 0, !.checks = 0,
                              !.dailyCount = @ + 1]
  <2>2. r \in ControllerState
    BY <2>1, UpdateType
  <2>3. Transition(r, "FAILED_OVER")
    BY <1>7 DEF FailoverCompletes
  <2> HIDE DEF r
  <2>4. \/ file' = file
        \/ file'.state = "FAILED_OVER" /\ file'.sinceTransition = 0
    BY <2>2, <2>3, TransitionDates DEF States
  <2> QED
    BY <1>7, <1>b, <1>d, <2>4, StayEnd DEF FailoverCompletes, Dated
<1>8. CASE HandleFailedOver
  <2>1. mem \in ControllerState /\ mem # NoState /\ mem.state = "FAILED_OVER"
    BY <1>8, Working DEF HandleFailedOver, Reading, Evaluating
  <2> DEFINE r == [mem EXCEPT !.sinceRecovery = 0]
  <2>2. /\ r \in ControllerState /\ r.sinceRecovery = 0
        /\ r.sinceTransition = mem.sinceTransition
    BY <2>1 DEF ControllerState
  <2>3. file' = file \/ Transition(r, "RECOVERING")
    BY <1>8 DEF HandleFailedOver
  <2> HIDE DEF r
  <2>4. \/ file' = file
        \/ /\ file'.state = "RECOVERING" /\ file'.sinceRecovery = 0
           /\ mem.sinceTransition >= MinTimeInState
    BY <2>2, <2>3, TransitionDates DEF States
  <2>5. ns = "secondary" => mem.sinceTransition <= sinceFlip
    BY <2>1 DEF StayInv, Dated
  <2>6. mem.sinceTransition \in Nat
    BY <2>1 DEF ControllerState
  <2>7. ns' = ns /\ EndEvaluation
    BY <1>8 DEF HandleFailedOver
  <2>8. file' = file \/ Dated(file)'
    BY <1>b, <1>d, <2>4, <2>5, <2>6, <2>7 DEF Dated
  <2> QED
    BY <1>b, <2>7, <2>8, StayEnd
<1>9. CASE RecoveryAborts
  <2>1. mem \in ControllerState
    BY <1>9, Working DEF RecoveryAborts, Reading, Evaluating
  <2>2. [mem EXCEPT !.sinceRecovery = RecoveryCooldown] \in ControllerState
    BY <2>1 DEF ControllerState
  <2>3. \/ file' = file
        \/ file'.state = "FAILED_OVER" /\ file'.sinceTransition = 0
    BY <1>9, <2>1, <2>2, TransitionDates DEF RecoveryAborts, States
  <2> QED
    BY <1>9, <1>b, <1>d, <2>3, StayEnd DEF RecoveryAborts, Dated
<1>10. CASE FailbackFails \/ FailbackUpdates
  <2>1. ns' = ns \/ ns' = "primary"
    BY <1>10 DEF FailbackFails, FailedUpdate, FailbackUpdates
  <2>2. sinceFlip' = sinceFlip
    BY <1>a, <2>1 DEF FlipsOver
  <2>3. file' = file /\ (mem' = mem \/ mem' = NoState)
    BY <1>10 DEF FailbackFails, FailbackUpdates, EndEvaluation
  <2> QED
    BY <2>1, <2>2, <2>3 DEF StayInv, Dated
<1>11. CASE FailbackCompletes
  <2>1. mem \in ControllerState
    BY <1>11, Working DEF FailbackCompletes, Evaluating
  <2> DEFINE r == [mem EXCEPT !.checks = 0, !.sinceRecovery = RecoveryCooldown]
  <2>2. r \in ControllerState
    BY <2>1, UpdateType
  <2>3. Transition(r, "HEALTHY")
    BY <1>11 DEF FailbackCompletes
  <2> HIDE DEF r
  <2>4. file' = file \/ file'.state = "HEALTHY"
    BY <2>2, <2>3, TransitionDates DEF States
  <2> QED
    BY <1>11, <1>b, <2>4, StayEnd DEF FailbackCompletes, Dated
<1>12. CASE HandleUnknown
  <2>1. mem \in ControllerState
    BY <1>12, Working DEF HandleUnknown, Evaluating
  <2>2. file' = file \/ file'.state = "HEALTHY"
    BY <1>12, <2>1, TransitionDates DEF HandleUnknown, States
  <2> QED
    BY <1>12, <1>b, <2>2, StayEnd DEF HandleUnknown, Dated
<1>13. CASE Crash \/ Start \/ HealthChanges \/ FaultsCease
  BY <1>13, <1>b
  DEF Crash, Start, HealthChanges, FaultsCease, StayInv, Dated
<1> QED
  BY <1>1, <1>2, <1>3, <1>4, <1>5, <1>6, <1>7, <1>8, <1>9, <1>10, <1>11,
     <1>12, <1>13
  DEF FHStep, ProcessStep, ScoreStep, OtherStep, EnvironmentStep

\* A lifetime in the record and the time since the last move grow together;
\* the latter does not stop before the sum the invariant compares it with.
LEMMA StayElapse ==
    ASSUME TypeInv, StayInv, FHElapse,
           FailoverCooldown >= MinTimeInState + RecoveryCooldown
    PROVE  StayInv'
<1> USE SafetyParamsAssumption
<1>1. ns' = ns /\ sinceFlip' = Older(sinceFlip, FailoverCooldown)
  BY DEF FHElapse, Elapse
<1>2. sinceFlip \in 0 .. FailoverCooldown
  BY DEF StayInv
<1>3. ASSUME NEW q, Typed(q)
      PROVE  /\ Aged(q) = NoState <=> q = NoState
             /\ q # NoState =>
                  /\ Aged(q).state = q.state
                  /\ Aged(q).sinceTransition = Older(q.sinceTransition, MinTimeInState)
                  /\ Aged(q).sinceRecovery = Older(q.sinceRecovery, RecoveryCooldown)
                  /\ q.sinceTransition \in 0 .. MinTimeInState
                  /\ q.sinceRecovery \in 0 .. RecoveryCooldown
  <2>1. q # NoState => q \in ControllerState
    BY <1>3 DEF Typed
  <2> QED
    BY <1>3, <2>1, AgedType DEF Aged, ControllerState
<1>4. file' = Aged(file) /\ mem' = Aged(mem) /\ Typed(file) /\ Typed(mem)
  BY DEF FHElapse, Elapse, TypeInv
<1>5. Dated(file)'
  BY <1>1, <1>2, <1>3, <1>4 DEF StayInv, Dated, Older
<1>6. Dated(mem)'
  BY <1>1, <1>2, <1>3, <1>4 DEF StayInv, Dated, Older
<1>7. file' # NoState /\ mem' # NoState => file'.state = mem'.state
  BY <1>3, <1>4 DEF StayInv
<1> QED
  BY <1>1, <1>2, <1>5, <1>6, <1>7 DEF StayInv, Older

LEMMA StayInit == FHInit => StayInv
BY SafetyParamsAssumption DEF FHInit, Init, StayInv, Dated

\* Once moved to the secondary the domain stays there for MinTimeInState +
\* RecoveryCooldown at least, for all parameters whose FailoverCooldown covers
\* that sum, whatever fails and even if the state file is lost.
THEOREM SecondaryStays ==
    ASSUME FailoverCooldown >= MinTimeInState + RecoveryCooldown
    PROVE  FHSpec => SecondaryServesAWhile
<1> DEFINE Inv == TypeInv /\ StayInv
<1>1. FHInit => Inv
  BY TypeInit, StayInit DEF FHInit
<1>2. Inv /\ [FHNext]_fhVars => Inv'
  <2>1. [FHNext]_fhVars => [Next]_vars
    BY DEF FHNext, FHStep, FHElapse, FHMidnight, fhVars, Next
  <2>2. ASSUME Inv, FHMidnight
        PROVE  StayInv'
    BY <2>2 DEF FHMidnight, Midnight, StayInv, Dated
  <2>3. ASSUME Inv, UNCHANGED fhVars
        PROVE  StayInv'
    BY <2>3 DEF fhVars, vars, historyVars, StayInv, Dated
  <2> QED
    BY <2>1, <2>2, <2>3, TypeStep, StayProcessStep, StayElapse DEF FHNext
<1>3. Inv /\ [FHNext]_fhVars =>
        [ns = "secondary" /\ ns' = "primary" =>
            sinceFlip >= MinTimeInState + RecoveryCooldown]_fhVars
  BY FailbackStep
<1> QED
  BY <1>1, <1>2, <1>3, PTL DEF FHSpec, SecondaryServesAWhile

-----------------------------------------------------------------------------
(* What the evaluations have seen when they act.  A record in DEGRADED or  *)
(* FAILING_OVER counts no more checks than found the primary bad since the *)
(* controller was HEALTHY; one in RECOVERING began its recovery no more    *)
(* than MinTimeInState before the last bad one, because only a record that *)
(* is younger than that ignores a bad check.  A record and the copy of it  *)
(* in use grow old together.                                               *)

Evident(r) ==
    r # NoState /\ r.state \in {"DEGRADED", "FAILING_OVER"} => r.checks <= badSeen

Quiet(r) ==
    r # NoState /\ r.state = "RECOVERING" =>
        /\ r.sinceRecovery <= sinceBad + MinTimeInState
        /\ r.sinceTransition < MinTimeInState => r.sinceRecovery <= r.sinceTransition

Abreast ==
    file # NoState /\ mem # NoState =>
        /\ mem.sinceTransition = file.sinceTransition
        /\ mem.sinceRecovery = file.sinceRecovery

Seen == badSeen \in 0 .. ConsecutiveDegradedChecksRequired /\ sinceBad \in 0 .. RecoveryCooldown

ObservedInv == Seen /\ Abreast /\ Evident(file) /\ Evident(mem) /\ Quiet(file) /\ Quiet(mem)

\* A transition saves the record with its counts and ages, or nothing.
LEMMA TransitionSaves ==
    ASSUME NEW r \in ControllerState, NEW to \in States, Transition(r, to)
    PROVE  \/ file' = file
           \/ /\ file' \in ControllerState /\ file'.state = to
              /\ file'.sinceTransition = 0 /\ file'.sinceRecovery = r.sinceRecovery
              /\ file'.checks = r.checks /\ r.sinceTransition >= MinTimeInState
<1>1. CASE file' = file
  BY <1>1
<1>2. CASE /\ ValidateTransition(r, to)
           /\ file' = [r EXCEPT !.state = to, !.sinceTransition = 0]
  <2>1. file' \in ControllerState
    BY <1>2, UpdateType
  <2>2. r.sinceTransition >= MinTimeInState
    BY <1>2 DEF ValidateTransition
  <2> QED
    BY <1>2, <2>1, <2>2 DEF ControllerState
<1> QED
  BY <1>1, <1>2 DEF Transition, Save

\* What a step does to what has been seen.
LEMMA SeenStep ==
    ASSUME TypeInv, Seen, OHStep
    PROVE  /\ Seen'
           /\ sinceBad' \in {0, sinceBad}
           /\ sinceBad' = 0 /\ sinceBad # 0 => SeesBad /\ ~LosesAbort
           /\ ~(PersistedState' = "HEALTHY" /\ mem' = NoState) =>
                /\ badSeen' >= badSeen
                /\ SeesBad => badSeen' = OneMore(badSeen)
<1> USE SafetyParamsAssumption
<1>1. OneMore(badSeen) \in 0 .. ConsecutiveDegradedChecksRequired /\ OneMore(badSeen) >= badSeen
  BY DEF Seen, OneMore, Older
<1> QED
  BY <1>1 DEF Seen, OHStep

\* Records that stay as they are stay evident while the controller is not
\* HEALTHY again, and quiet unless a bad evaluation was no lost abort.
LEMMA EvidentStays ==
    ASSUME TypeInv, Seen, OHStep, NEW r \in ControllerState,
           ~(PersistedState' = "HEALTHY" /\ mem' = NoState), Evident(r)
    PROVE  r.state \in {"DEGRADED", "FAILING_OVER"} => r.checks <= badSeen'
<1>1. r # NoState /\ r.checks \in Nat
  BY NoStateAssumption, SafetyParamsAssumption DEF ControllerState
<1>2. badSeen \in Nat /\ badSeen' \in Nat /\ badSeen' >= badSeen
  BY SeenStep, SafetyParamsAssumption DEF Seen
<1> QED
  BY <1>1, <1>2 DEF Evident

\* An evaluation that ends keeps the invariant when the record it leaves does.
LEMMA ObservedEnd ==
    ASSUME ObservedInv, Seen', mem' = NoState, Evident(file)', Quiet(file)'
    PROVE  ObservedInv'
BY DEF ObservedInv, Abreast, Evident, Quiet

\* A bad score in RECOVERING leaves the file alone only when the abort is
\* blocked or lost.
LEMMA AbortKept ==
    ASSUME TypeInv, CopyInv, SeesBad, file' = file
    PROVE  /\ Evaluating /\ mem' = NoState
           /\ \/ mem.state # "RECOVERING"
              \/ mem.sinceTransition < MinTimeInState
              \/ LosesAbort
<1>1. primary = "bad" /\ ScoreStep
  BY DEF SeesBad
<1>2. CASE HandleHealthy \/ HandleDegraded \/ HandleFailedOver
  BY <1>2 DEF HandleHealthy, HandleDegraded, HandleFailedOver, Reading,
              Evaluating, EndEvaluation
<1>3. CASE RecoveryAborts
  <2>1. pc = "evaluating" /\ mem.state = "RECOVERING" /\ mem' = NoState
    BY <1>3 DEF RecoveryAborts, Reading, EndEvaluation
  <2>2. PersistedState' = "RECOVERING" /\ mem \in ControllerState
    BY <2>1, Working DEF CopyInv, PersistedState, Evaluating
  <2>3. mem.sinceTransition \in Nat
    BY <2>2, SafetyParamsAssumption DEF ControllerState
  <2> QED
    BY <1>3, <2>1, <2>2, <2>3, SafetyParamsAssumption DEF LosesAbort, Evaluating
<1> QED
  BY <1>1, <1>2, <1>3
  DEF ScoreStep, RecoveryWaits, FailbackFails, FailbackUpdates, RecoveryCooldownOver

\* The file that a step leaves alone.
LEMMA FileStays ==
    ASSUME TypeInv, CopyInv, ObservedInv, OHStep, file' = file
    PROVE  Evident(file)' /\ Quiet(file)'
<1> USE SafetyParamsAssumption
<1>1. Seen /\ Seen' /\ sinceBad \in Nat /\ badSeen \in Nat
  BY SeenStep DEF ObservedInv, Seen
<1>2. CASE file = NoState
  BY <1>2 DEF Evident, Quiet
<1>3. CASE file # NoState
  <2>1. file \in ControllerState
    BY <1>3 DEF TypeInv, TypeOK
  <2>2. Evident(file)'
    <3>1. CASE PersistedState' = "HEALTHY"
      BY <1>3, <3>1 DEF Evident, PersistedState
    <3>2. CASE PersistedState' # "HEALTHY"
      BY <1>1, <2>1, <3>2, EvidentStays DEF ObservedInv, Evident
    <3> QED
      BY <3>1, <3>2
  <2>3. Quiet(file)'
    <3>1. SUFFICES ASSUME file.state = "RECOVERING"
                   PROVE  /\ file.sinceRecovery <= sinceBad' + MinTimeInState
                          /\ file.sinceTransition < MinTimeInState =>
                               file.sinceRecovery <= file.sinceTransition
      BY DEF Quiet
    <3>2. /\ file.sinceRecovery <= sinceBad + MinTimeInState
          /\ file.sinceTransition < MinTimeInState =>
               file.sinceRecovery <= file.sinceTransition
      BY <1>3, <3>1 DEF ObservedInv, Quiet
    <3>3. CASE sinceBad' = sinceBad
      BY <3>2, <3>3
    <3>4. CASE sinceBad' # sinceBad
      <4>1. sinceBad' = 0 /\ SeesBad /\ ~LosesAbort
        BY <1>1, <3>4, SeenStep
      <4>2. mem # NoState /\ mem.state = "RECOVERING"
        BY <1>3, <3>1, <4>1, AbortKept, Working DEF CopyInv, PersistedState
      <4>3. mem.sinceTransition < MinTimeInState
        BY <4>1, <4>2, AbortKept
      <4>4. file.sinceTransition = mem.sinceTransition
        BY <1>3, <4>2 DEF ObservedInv, Abreast
      <4> QED
        BY <2>1, <3>2, <4>1, <4>3, <4>4 DEF ControllerState
    <3> QED
      BY <3>3, <3>4
  <2> QED
    BY <2>2, <2>3
<1> QED
  BY <1>2, <1>3

\* An evaluation that goes on with the same record.
LEMMA BothStay ==
    ASSUME TypeInv, CopyInv, ObservedInv, OHStep, file' = file, mem' = mem
    PROVE  ObservedInv'
<1>1. Seen' /\ Evident(file)' /\ Quiet(file)'
  BY FileStays, SeenStep DEF ObservedInv
<1>2. CASE mem = NoState
  BY <1>1, <1>2, ObservedEnd
<1>3. CASE mem # NoState
  <2>1. mem \in ControllerState
    BY <1>3 DEF TypeInv, TypeOK
  <2>2. Evident(mem)'
    BY <1>3, <2>1, EvidentStays DEF ObservedInv, Evident
  <2>3. ~SeesBad
    BY <1>3, AbortKept
  <2>4. sinceBad' = sinceBad
    BY <2>3 DEF OHStep
  <2> QED
    BY <1>1, <2>2, <2>4 DEF ObservedInv, Abreast, Quiet
<1> QED
  BY <1>2, <1>3

\* A new record outside RECOVERING is evident when its state asks no evidence.
LEMMA FileLeaves ==
    ASSUME file'.state \notin {"DEGRADED", "FAILING_OVER", "RECOVERING"}
    PROVE  Evident(file)' /\ Quiet(file)'
BY DEF Evident, Quiet

\* Every step of the process or its environment keeps the invariant.
LEMMA ObservedStep ==
    ASSUME TypeInv, CopyInv, ObservedInv, OHStep
    PROVE  ObservedInv'
<1> USE SafetyParamsAssumption
<1>a. Seen /\ Seen' /\ sinceBad' \in Nat /\ badSeen' \in Nat /\ badSeen \in Nat
  BY SeenStep DEF ObservedInv, Seen
<1>b. ASSUME EndEvaluation \/ mem' = NoState,
             file' = file \/ (Evident(file)' /\ Quiet(file)')
      PROVE  ObservedInv'
  BY <1>a, <1>b, FileStays, ObservedEnd DEF EndEvaluation
<1>1. CASE Evaluate
  <2>1. pc = "idle" /\ mem = NoState
    BY <1>1 DEF Evaluate, TypeInv, TypeOK, Evaluating
  <2>2. ~SeesBad
    BY <2>1 DEF SeesBad, ScoreStep, HandleHealthy, HandleDegraded, HandleFailedOver,
       RecoveryAborts, RecoveryWaits, FailbackFails, FailbackUpdates,
       RecoveryCooldownOver, Reading
  <2>3. CASE mem' = Loaded /\ UNCHANGED file
    <3>1. Loaded # NoState
      BY LoadedType DEF TypeInv, TypeOK
    <3>2. badSeen' = badSeen /\ sinceBad' = sinceBad
      BY <2>2, <2>3, <3>1 DEF OHStep
    <3>3. CASE file = NoState
      BY <1>a, <2>3, <3>3
      DEF ObservedInv, Abreast, Evident, Quiet, Loaded, DefaultState, Fresh
    <3>4. CASE file # NoState
      <4>1. file \in ControllerState
        BY <3>4 DEF TypeInv, TypeOK
      <4>2. /\ Loaded.state = file.state /\ Loaded.checks = file.checks
            /\ Loaded.sinceTransition = file.sinceTransition
            /\ Loaded.sinceRecovery = file.sinceRecovery
        BY <3>4, <4>1 DEF Loaded, ControllerState
      <4> QED
        BY <1>a, <2>3, <3>2, <3>4, <4>2 DEF ObservedInv, Abreast, Evident, Quiet
    <3> QED
      BY <3>3, <3>4
  <2>4. CASE mem' = DefaultState /\ file' = NoState
    BY <1>a, <2>4
    DEF ObservedInv, Abreast, Evident, Quiet, DefaultState, Fresh
  <2>5. CASE UNCHANGED <<file, mem>>
    BY <2>5, BothStay
  <2> QED
    BY <1>1, <2>3, <2>4, <2>5 DEF Evaluate
<1>2. CASE QueryFails \/ RecoveryWaits \/ FailbackFails
  BY <1>2, <1>b DEF QueryFails, RecoveryWaits, FailbackFails
<1>3. CASE HandleHealthy
  <2> DEFINE r == [mem EXCEPT !.checks = 1]
  <2>1. r \in ControllerState /\ r.checks = 1
    BY <1>3, Working DEF HandleHealthy, Reading, Evaluating, ControllerState
  <2>2. file' = file \/ (primary = "bad" /\ Transition(r, "DEGRADED"))
    BY <1>3 DEF HandleHealthy
  <2> HIDE DEF r
  <2>3. \/ file' = file
        \/ /\ primary = "bad" /\ file' \in ControllerState
           /\ file'.state = "DEGRADED" /\ file'.checks = 1
    BY <2>1, <2>2, TransitionSaves DEF States
  <2>4. ASSUME file' # file
        PROVE  Evident(file)' /\ Quiet(file)'
    <3>1. SeesBad /\ PersistedState' # "HEALTHY"
      BY <1>3, <2>3, <2>4, NoStateAssumption DEF SeesBad, ScoreStep, PersistedState
    <3>2. badSeen' = OneMore(badSeen)
      BY <3>1, SeenStep DEF ObservedInv
    <3>3. badSeen' >= 1
      BY <1>a, <3>2 DEF OneMore, Older, Seen
    <3> QED
      BY <2>3, <2>4, <3>3 DEF Evident, Quiet
  <2> QED
    BY <1>3, <1>b, <2>4 DEF HandleHealthy
<1>4. CASE HandleDegraded
  <2>1. mem \in ControllerState /\ mem # NoState /\ mem.state = "DEGRADED"
    BY <1>4, Working DEF HandleDegraded, Reading, Evaluating
  <2>2. [mem EXCEPT !.checks = 0] \in ControllerState
    BY <2>1 DEF ControllerState
  <2> DEFINE r == CountCheck(mem)
  <2>3. /\ r \in ControllerState /\ r.state = "DEGRADED"
        /\ r.checks = OneMore(mem.checks)
    BY <2>1 DEF CountCheck, ControllerState, OneMore, Older
  <2>4. CASE primary \in {"absent", "fair", "good"}
    <3>1. file' = file \/ Transition([mem EXCEPT !.checks = 0], "HEALTHY")
      BY <1>4, <2>4 DEF HandleDegraded
    <3>2. file' = file \/ file'.state = "HEALTHY"
      BY <2>2, <3>1, TransitionSaves DEF States
    <3> QED
      BY <1>4, <1>b, <3>2, FileLeaves DEF HandleDegraded
  <2>5. CASE primary = "bad"
    <3>1. StillDegraded(r)
      BY <1>4, <2>5 DEF HandleDegraded
    <3> HIDE DEF r
    <3>2. \/ file' = file
          \/ /\ file' \in ControllerState
             /\ file'.state \in {"DEGRADED", "FAILING_OVER"}
             /\ file'.checks = r.checks
      BY <2>3, <3>1, TransitionSaves DEF StillDegraded, Save, States
    <3>3. ASSUME file' # file
          PROVE  Evident(file)' /\ Quiet(file)'
      <4>1. SeesBad /\ PersistedState' # "HEALTHY"
        BY <1>4, <2>5, <3>2, <3>3, NoStateAssumption
        DEF SeesBad, ScoreStep, PersistedState
      <4>2. badSeen' = OneMore(badSeen)
        BY <4>1, SeenStep DEF ObservedInv
      <4>3. mem.checks <= badSeen
        BY <2>1 DEF ObservedInv, Evident
      <4>4. mem.checks \in Nat
        BY <2>1 DEF ControllerState
      <4>5. r.checks <= badSeen'
        BY <1>a, <2>3, <4>2, <4>3, <4>4 DEF OneMore, Older, Seen
      <4> QED
        BY <3>2, <3>3, <4>5 DEF Evident, Quiet
    <3> QED
      BY <1>4, <1>b, <3>3 DEF HandleDegraded
  <2> QED
    BY <2>4, <2>5 DEF TypeInv, TypeOK, AllHealthClasses
<1>5. CASE FailoverFails
  <2>1. mem \in ControllerState /\ mem # NoState /\ mem.state = "FAILING_OVER"
    BY <1>5, Working DEF FailoverFails, Reading, Evaluating
  <2>2. \/ file' = file
        \/ /\ file' \in ControllerState
           /\ file'.state = "DEGRADED" /\ file'.checks = mem.checks
    BY <1>5, <2>1, TransitionSaves DEF FailoverFails, States
  <2>3. ASSUME file' # file
        PROVE  Evident(file)' /\ Quiet(file)'
    <3>1. PersistedState' # "HEALTHY"
      BY <2>2, <2>3, NoStateAssumption DEF PersistedState
    <3>2. mem.checks <= badSeen'
      BY <2>1, <3>1, EvidentStays DEF ObservedInv
    <3> QED
      BY <2>2, <2>3, <3>2 DEF Evident, Quiet
  <2> QED
    BY <1>5, <1>b, <2>3 DEF FailoverFails
<1>6. CASE FailoverUpdates \/ FailbackUpdates
  BY <1>6, BothStay DEF FailoverUpdates, FailbackUpdates
<1>7. CASE FailoverCompletes
  <2>1. mem \in ControllerState /\ mem.dailyCount < MaxDailyFailovers
    BY <1>7, Working DEF FailoverCompletes, Evaluating, TypeInv, Typed
  <2> DEFINE r == [mem EXCEPT !.sinceFailover = 0, !.checks = 0,
                              !.dailyCount = @ + 1]
  <2>2. r \in ControllerState
    BY <2>1, UpdateType
  <2>3. Transition(r, "FAILED_OVER")
    BY <1>7 DEF FailoverCompletes
  <2> HIDE DEF r
  <2>4. file' = file \/ file'.state = "FAILED_OVER"
    BY <2>2, <2>3, TransitionSaves DEF States
  <2> QED
    BY <1>7, <1>b, <2>4, FileLeaves DEF FailoverCompletes
<1>8. CASE HandleFailedOver
  <2>1. mem \in ControllerState
    BY <1>8, Working DEF HandleFailedOver, Reading, Evaluating
  <2> DEFINE r == [mem EXCEPT !.sinceRecovery = 0]
  <2>2. r \in ControllerState /\ r.sinceRecovery = 0
    BY <2>1 DEF ControllerState
  <2>3. file' = file \/ Transition(r, "RECOVERING")
    BY <1>8 DEF HandleFailedOver
  <2> HIDE DEF r
  <2>4. \/ file' = file
        \/ /\ file'.state = "RECOVERING"
           /\ file'.sinceRecovery = 0 /\ file'.sinceTransition = 0
    BY <2>2, <2>3, TransitionSaves DEF States
  <2>5. file' = file \/ (Evident(file)' /\ Quiet(file)')
    BY <1>a, <2>4 DEF Evident, Quiet
  <2> QED
    BY <1>8, <1>b, <2>5 DEF HandleFailedOver
<1>9. CASE RecoveryAborts
  <2>1. mem \in ControllerState
    BY <1>9, Working DEF RecoveryAborts, Reading, Evaluating
  <2>2. [mem EXCEPT !.sinceRecovery = RecoveryCooldown] \in ControllerState
    BY <2>1 DEF ControllerState
  <2>3. file' = file \/ file'.state = "FAILED_OVER"
    BY <1>9, <2>1, <2>2, TransitionSaves DEF RecoveryAborts, States
  <2> QED
    BY <1>9, <1>b, <2>3, FileLeaves DEF RecoveryAborts
<1>10. CASE FailbackCompletes
  <2>1. mem \in ControllerState
    BY <1>10, Working DEF FailbackCompletes, Evaluating
  <2> DEFINE r == [mem EXCEPT !.checks = 0, !.sinceRecovery = RecoveryCooldown]
  <2>2. r \in ControllerState
    BY <2>1, UpdateType
  <2>3. Transition(r, "HEALTHY")
    BY <1>10 DEF FailbackCompletes
  <2> HIDE DEF r
  <2>4. file' = file \/ file'.state = "HEALTHY"
    BY <2>2, <2>3, TransitionSaves DEF States
  <2> QED
    BY <1>10, <1>b, <2>4, FileLeaves DEF FailbackCompletes
<1>11. CASE HandleUnknown
  <2>1. mem \in ControllerState
    BY <1>11, Working DEF HandleUnknown, Evaluating
  <2>2. file' = file \/ file'.state = "HEALTHY"
    BY <1>11, <2>1, TransitionSaves DEF HandleUnknown, States
  <2> QED
    BY <1>11, <1>b, <2>2, FileLeaves DEF HandleUnknown
<1>12. CASE Crash
  BY <1>12, <1>b DEF Crash
<1>13. CASE Start \/ HealthChanges \/ FaultsCease \/ Midnight
  BY <1>13, BothStay DEF Start, HealthChanges, FaultsCease, Midnight
<1> QED
  BY <1>1, <1>2, <1>3, <1>4, <1>5, <1>6, <1>7, <1>8, <1>9, <1>10, <1>11,
     <1>12, <1>13
  DEF OHStep, ProcessStep, ScoreStep, OtherStep, EnvironmentStep

\* All ages grow together, and the one a recovery is compared with grows up
\* to the threshold of the recovery.
LEMMA ObservedElapse ==
    ASSUME TypeInv, ObservedInv, OHElapse
    PROVE  ObservedInv'
<1> USE SafetyParamsAssumption
<1>1. badSeen' = badSeen /\ sinceBad' = Older(sinceBad, RecoveryCooldown)
  BY DEF OHElapse
<1>2. Seen /\ Seen'
  BY <1>1 DEF ObservedInv, Seen, Older
<1>3. ASSUME NEW q, Typed(q)
      PROVE  /\ Aged(q) = NoState <=> q = NoState
             /\ q # NoState =>
                  /\ Aged(q).state = q.state /\ Aged(q).checks = q.checks
                  /\ Aged(q).sinceTransition = Older(q.sinceTransition, MinTimeInState)
                  /\ Aged(q).sinceRecovery = Older(q.sinceRecovery, RecoveryCooldown)
                  /\ q.sinceTransition \in 0 .. MinTimeInState
                  /\ q.sinceRecovery \in 0 .. RecoveryCooldown
  <2>1. q # NoState => q \in ControllerState
    BY <1>3 DEF Typed
  <2> QED
    BY <1>3, <2>1, AgedType DEF Aged, ControllerState
<1>4. file' = Aged(file) /\ mem' = Aged(mem) /\ Typed(file) /\ Typed(mem)
  BY DEF OHElapse, Elapse, TypeInv
<1>5. Evident(file)' /\ Evident(mem)'
  BY <1>1, <1>3, <1>4 DEF ObservedInv, Evident
<1>6. ASSUME NEW q, Typed(q), q # NoState, q.state = "RECOVERING", Quiet(q)
      PROVE  /\ Aged(q).sinceRecovery <= sinceBad' + MinTimeInState
             /\ Aged(q).sinceTransition < MinTimeInState =>
                  Aged(q).sinceRecovery <= Aged(q).sinceTransition
  BY <1>1, <1>2, <1>3, <1>6 DEF Quiet, Older, Seen
<1>7. Quiet(file)'
  BY <1>3, <1>4, <1>6 DEF ObservedInv, Quiet
<1>8. Quiet(mem)'
  BY <1>3, <1>4, <1>6 DEF ObservedInv, Quiet
<1>9. Abreast'
  BY <1>3, <1>4 DEF ObservedInv, Abreast
<1> QED
  BY <1>2, <1>5, <1>7, <1>8, <1>9 DEF ObservedInv

LEMMA ObservedInit == OHInit => ObservedInv
<1> USE SafetyParamsAssumption
<1>1. ASSUME NEW s
      PROVE  /\ Fresh(s, MinTimeInState).state = s
             /\ Fresh(s, MinTimeInState).sinceTransition = MinTimeInState
             /\ Fresh(s, MinTimeInState).sinceRecovery = RecoveryCooldown
             /\ Fresh(s, MinTimeInState).checks = 0
  BY DEF Fresh
<1>2. Init => mem = NoState /\ (file # NoState =>
                 file.state \in InitialFiles /\ file.checks = 0)
  BY <1>1 DEF Init
<1> QED
  BY <1>2, EnvironmentAssumption
  DEF OHInit, ObservedInv, Seen, Abreast, Evident, Quiet, LegacyState

\* Only handleDegraded begins a failover, with a record that counts enough
\* checks.
LEMMA FailoverBegins ==
    ASSUME TypeInv, CopyInv, [OHNext]_ohVars, StartsFailover
    PROVE  /\ file' # NoState /\ file'.state = "FAILING_OVER"
           /\ file'.checks >= ConsecutiveDegradedChecksRequired
<1> USE SafetyParamsAssumption
<1>a. file' # NoState /\ file'.state = "FAILING_OVER"
  BY DEF StartsFailover, PersistedState
<1>b. ASSUME file' = file \/ PersistedState' \in {"HEALTHY", "FAILED_OVER",
                 "RECOVERING", "DEGRADED"}
      PROVE  FALSE
  BY <1>b DEF StartsFailover, PersistedState
<1>1. CASE Evaluate
  BY <1>1, <1>a, <1>b DEF Evaluate
<1>2. CASE QueryFails \/ RecoveryWaits \/ FailbackFails \/ FailoverUpdates
           \/ FailbackUpdates \/ Crash \/ Start \/ EnvironmentStep \/ Midnight
           \/ UNCHANGED ohVars
  BY <1>2, <1>b
  DEF QueryFails, RecoveryWaits, FailbackFails, FailoverUpdates, FailbackUpdates,
      Crash, Start, EnvironmentStep, HealthChanges, FaultsCease, Midnight, ohVars, vars
<1>3. CASE HandleHealthy
  <2>1. [mem EXCEPT !.checks = 1] \in ControllerState
    BY <1>3, Working DEF HandleHealthy, Reading, Evaluating, ControllerState
  <2>2. file' = file \/ file'.state = "DEGRADED"
    BY <1>3, <2>1, TransitionDates DEF HandleHealthy, States
  <2> QED
    BY <1>a, <1>b, <2>2
<1>4. CASE HandleDegraded
  <2>1. mem \in ControllerState /\ mem.state = "DEGRADED"
    BY <1>4, Working DEF HandleDegraded, Reading, Evaluating
  <2>2. [mem EXCEPT !.checks = 0] \in ControllerState
    BY <2>1 DEF ControllerState
  <2> DEFINE r == CountCheck(mem)
  <2>3. r \in ControllerState /\ r.state = "DEGRADED"
    BY <2>1 DEF CountCheck, ControllerState
  <2>4. CASE primary \in {"absent", "fair", "good"}
    <3>1. file' = file \/ Transition([mem EXCEPT !.checks = 0], "HEALTHY")
      BY <1>4, <2>4 DEF HandleDegraded
    <3> QED
      BY <1>a, <1>b, <2>2, <3>1, TransitionDates DEF States
  <2>5. CASE primary = "bad"
    <3>1. StillDegraded(r)
      BY <1>4, <2>5 DEF HandleDegraded
    <3> HIDE DEF r
    <3>2. CASE r.checks >= ConsecutiveDegradedChecksRequired
      BY <1>a, <1>b, <2>3, <3>1, <3>2, TransitionSaves DEF StillDegraded, States
    <3>3. CASE ~(r.checks >= ConsecutiveDegradedChecksRequired)
      BY <1>a, <1>b, <2>3, <3>1, <3>3 DEF StillDegraded, Save
    <3> QED
      BY <3>2, <3>3
  <2> QED
    BY <2>4, <2>5 DEF TypeInv, TypeOK, AllHealthClasses
<1>5. CASE FailoverFails
  BY <1>5, <1>a, <1>b, Working, TransitionDates
  DEF FailoverFails, Reading, Evaluating, States
<1>6. CASE FailoverCompletes
  <2>1. mem \in ControllerState /\ mem.dailyCount < MaxDailyFailovers
    BY <1>6, Working DEF FailoverCompletes, Evaluating, TypeInv, Typed
  <2> DEFINE r == [mem EXCEPT !.sinceFailover = 0, !.checks = 0,
                              !.dailyCount = @ + 1]
  <2>2. r \in ControllerState
    BY <2>1, UpdateType
  <2>3. Transition(r, "FAILED_OVER")
    BY <1>6 DEF FailoverCompletes
  <2> HIDE DEF r
  <2> QED
    BY <1>a, <1>b, <2>2, <2>3, TransitionDates DEF States
<1>7. CASE HandleFailedOver
  <2>1. [mem EXCEPT !.sinceRecovery = 0] \in ControllerState
    BY <1>7, Working DEF HandleFailedOver, Reading, Evaluating, ControllerState
  <2>2. file' = file \/ file'.state = "RECOVERING"
    BY <1>7, <2>1, TransitionDates DEF HandleFailedOver, States
  <2> QED
    BY <1>a, <1>b, <2>2
<1>8. CASE RecoveryAborts
  <2>1. mem \in ControllerState
    BY <1>8, Working DEF RecoveryAborts, Reading, Evaluating
  <2>2. [mem EXCEPT !.sinceRecovery = RecoveryCooldown] \in ControllerState
    BY <2>1 DEF ControllerState
  <2>3. file' = file \/ file'.state = "FAILED_OVER"
    BY <1>8, <2>1, <2>2, TransitionDates DEF RecoveryAborts, States
  <2> QED
    BY <1>a, <1>b, <2>3
<1>9. CASE FailbackCompletes \/ HandleUnknown
  <2>1. mem \in ControllerState
    BY <1>9, Working DEF FailbackCompletes, HandleUnknown, Evaluating
  <2>2. [mem EXCEPT !.checks = 0, !.sinceRecovery = RecoveryCooldown] \in ControllerState
    BY <2>1, UpdateType
  <2>3. file' = file \/ file'.state = "HEALTHY"
    BY <1>9, <2>1, <2>2, TransitionDates DEF FailbackCompletes, HandleUnknown, States
  <2> QED
    BY <1>a, <1>b, <2>3
<1>10. CASE OHElapse
  <2>1. file \in ControllerState => Aged(file).state = file.state
    BY NoStateAssumption DEF Aged, ControllerState
  <2>2. PersistedState' = PersistedState
    BY <1>10, <2>1, AgedType DEF OHElapse, Elapse, PersistedState, TypeInv, Typed
  <2> QED
    BY <2>2 DEF StartsFailover
<1> QED
  BY <1>1, <1>2, <1>3, <1>4, <1>5, <1>6, <1>7, <1>8, <1>9, <1>10
  DEF OHNext, OHStep, ProcessStep, ScoreStep, OtherStep

EvaluationsInv == TypeInv /\ CopyInv /\ ObservedInv

LEMMA EvaluationsInit == OHInit => EvaluationsInv
BY TypeInit, ObservedInit DEF OHInit, Init, CopyInv, EvaluationsInv

LEMMA EvaluationsStep == EvaluationsInv /\ [OHNext]_ohVars => EvaluationsInv'
<1> SUFFICES ASSUME EvaluationsInv, [OHNext]_ohVars
             PROVE  EvaluationsInv'
  OBVIOUS
<1>1. [Next]_vars
  BY DEF OHNext, OHStep, OHElapse, ohVars, Next
<1>2. TypeInv' /\ CopyInv'
  BY <1>1, TypeStep, CopyStep DEF EvaluationsInv
<1>3. ASSUME UNCHANGED ohVars
      PROVE  ObservedInv'
  <2>1. file' = file /\ mem' = mem /\ badSeen' = badSeen /\ sinceBad' = sinceBad
    BY <1>3 DEF ohVars, vars
  <2> QED
    BY <2>1 DEF EvaluationsInv, ObservedInv, Seen, Abreast, Evident, Quiet
<1>4. ASSUME OHNext
      PROVE  ObservedInv'
  BY <1>4, ObservedStep, ObservedElapse DEF OHNext, EvaluationsInv
<1> QED
  BY <1>2, <1>3, <1>4 DEF EvaluationsInv

\* No failover without as many evaluations that found the primary bad, for all
\* parameters, whatever saves fail and wherever the controller crashes.
THEOREM FailoversHaveEvidence == OHSpec => FailoverHasEvidence
<1>1. EvaluationsInv /\ [OHNext]_ohVars =>
        [StartsFailover => badSeen' >= ConsecutiveDegradedChecksRequired]_ohVars
  <2> SUFFICES ASSUME EvaluationsInv, [OHNext]_ohVars, StartsFailover
               PROVE  badSeen' >= ConsecutiveDegradedChecksRequired
    OBVIOUS
  <2>1. /\ file' # NoState /\ file'.state = "FAILING_OVER"
        /\ file'.checks >= ConsecutiveDegradedChecksRequired
    BY FailoverBegins DEF EvaluationsInv
  <2>2. EvaluationsInv'
    BY EvaluationsStep
  <2>3. file'.checks <= badSeen' /\ badSeen' \in Int
    BY <2>1, <2>2 DEF EvaluationsInv, ObservedInv, Evident, Seen
  <2>4. file' \in ControllerState
    BY <2>1, <2>2 DEF EvaluationsInv, TypeInv, TypeOK
  <2>5. file'.checks \in Int
    BY <2>4, SafetyParamsAssumption DEF ControllerState
  <2> QED
    BY <2>1, <2>3, <2>5, SafetyParamsAssumption
<1> QED
  BY <1>1, EvaluationsInit, EvaluationsStep, PTL DEF OHSpec, FailoverHasEvidence

\* No failback while the primary flaps, for all parameters and faults.
THEOREM QuietFailbacks == OHSpec => QuietBeforeFailback
<1>1. EvaluationsInv /\ [OHNext]_ohVars =>
        [StartsFailback => sinceBad >= RecoveryCooldown - MinTimeInState]_ohVars
  <2> SUFFICES ASSUME EvaluationsInv, [OHNext]_ohVars, StartsFailback
               PROVE  sinceBad >= RecoveryCooldown - MinTimeInState
    OBVIOUS
  <2>1. RecoveryCooldownOver
    BY DEF StartsFailback, OHNext, OHStep, OHElapse, ohVars, vars, Elapse,
           Midnight, ProcessStep, ScoreStep, OtherStep, EnvironmentStep, Evaluate,
           QueryFails, HandleHealthy, HandleDegraded, FailoverCompletes,
           HandleFailedOver, RecoveryAborts, RecoveryWaits, FailbackFails,
           FailoverFails, FailoverUpdates, FailedUpdate, FailbackUpdates,
           FailbackCompletes, HandleUnknown, Crash, Start,
           HealthChanges, FaultsCease
  <2>2. /\ mem \in ControllerState /\ mem # NoState
        /\ mem.state = "RECOVERING" /\ mem.sinceRecovery >= RecoveryCooldown
    BY <2>1, Working DEF RecoveryCooldownOver, Reading, Evaluating, EvaluationsInv
  <2>3. mem.sinceRecovery <= sinceBad + MinTimeInState /\ sinceBad \in Int
    BY <2>2 DEF EvaluationsInv, ObservedInv, Quiet, Seen
  <2>4. mem.sinceRecovery \in Int
    BY <2>2, SafetyParamsAssumption DEF ControllerState
  <2> QED
    BY <2>2, <2>3, <2>4, SafetyParamsAssumption
<1> QED
  BY <1>1, EvaluationsInit, EvaluationsStep, PTL DEF OHSpec, QuietBeforeFailback

=============================================================================
