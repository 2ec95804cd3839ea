------------------------- MODULE FailoverController -------------------------
(***************************************************************************)
(* The DNS failover controller (failover-controller/): a loop that every   *)
(* 30 seconds loads a persisted record, reads the health score of the      *)
(* primary DNS provider, and moves the domain's nameservers at the         *)
(* registrar between the primary and the secondary provider.               *)
(*                                                                         *)
(* An evaluation is not one step.  It loads the record, waits for the      *)
(* database or the registrar, validates a transition and saves the record. *)
(* Time, midnight, a crash and changes of the providers' health fall       *)
(* between those steps, and saving or calling the registrar can fail.      *)
(*                                                                         *)
(* The unit of time is the period of the ticker.  A timestamp of the code  *)
(* is represented by its age, which stops growing at the only threshold    *)
(* the code compares that age with; the zero time.Time, whose age exceeds  *)
(* every threshold, is the age at that limit.                              *)
(***************************************************************************)
EXTENDS Integers

CONSTANTS
    MinTimeInState,     \* SafetyParams, in ticks
    FailoverCooldown,
    RecoveryCooldown,
    MaxDailyFailovers,
    RequireManualAuth,
    ConsecutiveDegradedChecksRequired,
    SecondaryConfigured, \* SecondaryProviderID # ""
    YearDays,           \* days after which time.YearDay() repeats
    DayLength,          \* ticks between two midnights
    HealthClasses,      \* classes of the primary's score that occur
    InitialFiles,       \* the state in a file put in place before the first
                        \* start, or "missing"
    Faults,             \* what may go wrong; see FaultKinds
    NoState             \* no record: no file, or nothing in memory

States == {"HEALTHY", "DEGRADED", "FAILING_OVER", "FAILED_OVER", "RECOVERING"}

\* A state name of the earlier eight-state version, unknown to this code.
LegacyState == "PREPARING"

\* The score of the primary as far as the code tells scores apart: below
\* DegradeThreshold (0.5), between, above RecoveryThreshold (0.7); "absent"
\* when the query returns no row for the primary (its status is 'failed').
AllHealthClasses == {"bad", "fair", "good", "absent"}

FaultKinds == {
    "load",      \* reading the state file returns an I/O error
    "query",     \* the health score query returns an error
    "save",      \* writing the state file fails, the old file stays
    "failover call",  \* a registrar call for a failover fails
    "failover reply", \* ... is applied and returns an error all the same
    "failback call",  \* so for a failback
    "failback reply",
    "crash",     \* the process dies, between any two steps
    "slow",      \* an evaluation lasts, or its start is delayed, a tick or more
    "straddle",  \* midnight passes during an evaluation
    "loss"}      \* the state file has disappeared or become unparsable

ASSUME SafetyParamsAssumption ==
    /\ MinTimeInState \in Nat
    /\ FailoverCooldown \in Nat
    /\ RecoveryCooldown \in Nat
    /\ MaxDailyFailovers \in Nat
    /\ ConsecutiveDegradedChecksRequired \in Nat \ {0}
    /\ RequireManualAuth \in BOOLEAN
    /\ SecondaryConfigured \in BOOLEAN

ASSUME EnvironmentAssumption ==
    /\ YearDays \in Nat \ {0}
    /\ DayLength \in Nat \ {0}
    /\ HealthClasses \subseteq AllHealthClasses
    /\ InitialFiles \subseteq {"HEALTHY", LegacyState, "missing"}
    /\ Faults \subseteq FaultKinds

VARIABLES
    file,          \* the persisted record, or NoState
    mem,           \* the copy an evaluation works on, or NoState
    pc,            \* where the process is
    tickPending,   \* the ticker's channel (capacity one) holds a tick
    ns,            \* whose nameservers the registrar holds
    primary,       \* health class of the primary provider
    today,         \* day of the year
    sinceMidnight, \* ticks since midnight
    calm           \* from now on nothing goes wrong

vars == <<file, mem, pc, tickPending, ns, primary, today, sinceMidnight, calm>>

envVars == <<primary, today, sinceMidnight, calm>>

May(fault) == fault \in Faults /\ ~calm

Days == 0 .. YearDays - 1

\* persistence.go: the fields a decision depends on.  checks stops at the
\* required number: the code only asks whether it has been reached.
ControllerState ==
    [state           : States \cup {LegacyState},
     sinceTransition : 0 .. MinTimeInState,
     sinceFailover   : 0 .. FailoverCooldown,
     sinceRecovery   : 0 .. RecoveryCooldown,
     dailyCount      : 0 .. MaxDailyFailovers,
     resetDay        : Days,
     checks          : 0 .. ConsecutiveDegradedChecksRequired]

ASSUME NoStateAssumption == NoState \notin ControllerState

-----------------------------------------------------------------------------
(* Loading, validating and saving the record *)

\* A record whose timestamps are all zero, except that of the transition.
Fresh(state, sinceTransition) ==
    [state           |-> state,
     sinceTransition |-> sinceTransition,
     sinceFailover   |-> FailoverCooldown,
     sinceRecovery   |-> RecoveryCooldown,
     dailyCount      |-> 0,
     resetDay        |-> today,
     checks          |-> 0]

\* defaultState: LastTransitionTime is the time of this very load.
DefaultState == Fresh("HEALTHY", 0)

\* Variant of Loaded that forgets the rollover of the day.
LoadedKeepsCount == IF file = NoState THEN DefaultState ELSE file

\* Variant of Loaded that clears the count on every load.
LoadedClearsCount ==
    IF file = NoState THEN DefaultState
    ELSE [file EXCEPT !.dailyCount = 0, !.resetDay = today]

\* Load: no file and an unparsable file both give the default record, which
\* is not saved; the daily count restarts when the day of the year differs.
Loaded ==
    IF file = NoState THEN DefaultState
    ELSE IF file.resetDay # today
         THEN [file EXCEPT !.dailyCount = 0, !.resetDay = today]
         ELSE file

\* Variant of ValidTransitions without the way from RECOVERING to HEALTHY.
ValidTransitionsNoReturn ==
    {<<"HEALTHY", "DEGRADED">>,
     <<"DEGRADED", "HEALTHY">>, <<"DEGRADED", "FAILING_OVER">>,
     <<"FAILING_OVER", "FAILED_OVER">>, <<"FAILING_OVER", "DEGRADED">>,
     <<"FAILED_OVER", "RECOVERING">>, <<"RECOVERING", "FAILED_OVER">>}

\* validTransitions
ValidTransitions ==
    {<<"HEALTHY", "DEGRADED">>,
     <<"DEGRADED", "HEALTHY">>, <<"DEGRADED", "FAILING_OVER">>,
     <<"FAILING_OVER", "FAILED_OVER">>, <<"FAILING_OVER", "DEGRADED">>,
     <<"FAILED_OVER", "RECOVERING">>,
     <<"RECOVERING", "HEALTHY">>, <<"RECOVERING", "FAILED_OVER">>}

\* Variants of FailoverAllowed that drop one of the two caps.
FailoverAllowedNoCooldown(r) ==
    r.dailyCount < MaxDailyFailovers /\ ~RequireManualAuth
FailoverAllowedNoDailyCap(r) ==
    r.sinceFailover >= FailoverCooldown /\ ~RequireManualAuth

\* Checks 3 and 4 of ValidateTransition.
FailoverAllowed(r) ==
    /\ r.sinceFailover >= FailoverCooldown
    /\ r.dailyCount < MaxDailyFailovers
    /\ ~RequireManualAuth

ValidateTransition(r, to) ==
    /\ <<r.state, to>> \in ValidTransitions
    /\ r.sinceTransition >= MinTimeInState
    /\ to = "FAILING_OVER" => FailoverAllowed(r)

\* Save replaces the file by a rename: the whole new record or the old file.
Save(r) ==
    \/ file' = r
    \/ May("save") /\ file' = file

\* transition: a blocked transition drops every change made to the record.
Transition(r, to) ==
    IF ValidateTransition(r, to)
    THEN Save([r EXCEPT !.state = to, !.sinceTransition = 0])
    ELSE file' = file

-----------------------------------------------------------------------------
(* The main loop: evaluations begin with a load and end without memory *)

Reading(state) == pc = "evaluating" /\ mem.state = state

EndEvaluation ==
    /\ pc' = "idle"
    /\ mem' = NoState
    /\ UNCHANGED <<tickPending, envVars>>

\* Evaluate up to the handler.  Only a load reads the file: one that was lost
\* at any time since it was saved is lost when it is read.
Evaluate ==
    /\ pc = "idle" /\ tickPending
    /\ tickPending' = FALSE
    /\ \/ /\ mem' = Loaded
          /\ pc' = "evaluating"
          /\ UNCHANGED file
       \/ /\ May("loss")
          /\ file' = NoState
          /\ mem' = DefaultState
          /\ pc' = "evaluating"
       \/ /\ May("load")
          /\ UNCHANGED <<file, mem, pc>>
    /\ UNCHANGED <<ns, envVars>>

\* Every handler but handleFailingOver returns at once on a query error.
QueryFails ==
    /\ May("query")
    /\ pc = "evaluating"
    /\ mem.state \in States \ {"FAILING_OVER"}
    /\ EndEvaluation
    /\ UNCHANGED <<file, ns>>

HandleHealthy ==
    /\ Reading("HEALTHY")
    /\ IF primary = "bad"
       THEN Transition([mem EXCEPT !.checks = 1], "DEGRADED")
       ELSE file' = file
    /\ EndEvaluation
    /\ UNCHANGED ns

\* The counter of r after one more degraded check.
CountCheck(r) ==
    [r EXCEPT !.checks = IF @ < ConsecutiveDegradedChecksRequired
                         THEN @ + 1 ELSE @]

\* Variant of StillDegraded that begins the failover one check early.
StillDegradedEarly(r) ==
    IF r.checks + 1 >= ConsecutiveDegradedChecksRequired
    THEN Transition(r, "FAILING_OVER")
    ELSE Save(r)

\* Enough degraded checks begin the failover; fewer are saved and awaited.
StillDegraded(r) ==
    IF r.checks >= ConsecutiveDegradedChecksRequired
    THEN Transition(r, "FAILING_OVER")
    ELSE Save(r)

HandleDegraded ==
    /\ Reading("DEGRADED")
    /\ CASE primary = "absent"          -> file' = file
         [] primary \in {"fair", "good"} ->
              Transition([mem EXCEPT !.checks = 0], "HEALTHY")
         [] primary = "bad"             -> StillDegraded(CountCheck(mem))
    /\ EndEvaluation
    /\ UNCHANGED ns

-----------------------------------------------------------------------------
(* Moving the domain to the secondary *)

\* A registrar call that reports an error may have been applied.
FailedUpdate(call, reply, target) ==
    \/ May(call) /\ ns' = ns
    \/ May(reply) /\ ns' = target

\* handleFailingOver gives up: no secondary is configured, the nameservers
\* could not be read (ns' = ns), or UpdateNameservers returned an error.
FailoverFails ==
    /\ Reading("FAILING_OVER")
    /\ \/ ~SecondaryConfigured /\ ns' = ns
       \/ SecondaryConfigured /\ FailedUpdate("failover call", "failover reply", "secondary")
    /\ Transition(mem, "DEGRADED")
    /\ EndEvaluation

FailoverUpdates ==
    /\ Reading("FAILING_OVER")
    /\ SecondaryConfigured
    /\ ns' = "secondary"
    /\ pc' = "nsUpdated"
    /\ UNCHANGED <<file, mem, tickPending, envVars>>

\* The rest of handleFailingOver; what VerifyPropagation says is ignored.
FailoverCompletes ==
    /\ pc = "nsUpdated" /\ mem.state = "FAILING_OVER"
    /\ Transition([mem EXCEPT !.sinceFailover = 0, !.checks = 0,
                              !.dailyCount = @ + 1],
                  "FAILED_OVER")
    /\ EndEvaluation
    /\ UNCHANGED ns

\* Variant of HandleFailedOver that forgets to stamp RecoveryStarted.
HandleFailedOverUnstamped ==
    /\ Reading("FAILED_OVER")
    /\ IF primary = "good" THEN Transition(mem, "RECOVERING") ELSE file' = file
    /\ EndEvaluation
    /\ UNCHANGED ns

HandleFailedOver ==
    /\ Reading("FAILED_OVER")
    /\ IF primary = "good"
       THEN Transition([mem EXCEPT !.sinceRecovery = 0], "RECOVERING")
       ELSE file' = file
    /\ EndEvaluation
    /\ UNCHANGED ns

-----------------------------------------------------------------------------
(* Moving it back to the primary *)

\* The primary vanished, or degraded again.
RecoveryAborts ==
    /\ Reading("RECOVERING")
    /\ \/ primary = "absent" /\ Transition(mem, "FAILED_OVER")
       \/ /\ primary = "bad"
          /\ Transition([mem EXCEPT !.sinceRecovery = RecoveryCooldown],
                        "FAILED_OVER")
    /\ EndEvaluation
    /\ UNCHANGED ns

RecoveryWaits ==
    /\ Reading("RECOVERING")
    /\ primary \in {"fair", "good"}
    /\ mem.sinceRecovery < RecoveryCooldown
    /\ EndEvaluation
    /\ UNCHANGED <<file, ns>>

\* Variant of RecoveryCooldownOver that leaves the wait to the minimum time in
\* state.
RecoveryCooldownOverDwelt ==
    /\ Reading("RECOVERING")
    /\ primary \in {"fair", "good"}
    /\ mem.sinceTransition >= MinTimeInState

RecoveryCooldownOver ==
    /\ Reading("RECOVERING")
    /\ primary \in {"fair", "good"}
    /\ mem.sinceRecovery >= RecoveryCooldown

FailbackFails ==
    /\ RecoveryCooldownOver
    /\ FailedUpdate("failback call", "failback reply", "primary")
    /\ EndEvaluation
    /\ UNCHANGED file

\* Variant of FailbackUpdates that sends the registrar the wrong list.
FailbackUpdatesWrongList ==
    /\ RecoveryCooldownOver
    /\ ns' = "secondary"
    /\ pc' = "nsUpdated"
    /\ UNCHANGED <<file, mem, tickPending, envVars>>

FailbackUpdates ==
    /\ RecoveryCooldownOver
    /\ ns' = "primary"
    /\ pc' = "nsUpdated"
    /\ UNCHANGED <<file, mem, tickPending, envVars>>

FailbackCompletes ==
    /\ pc = "nsUpdated" /\ mem.state = "RECOVERING"
    /\ Transition([mem EXCEPT !.checks = 0,
                              !.sinceRecovery = RecoveryCooldown],
                  "HEALTHY")
    /\ EndEvaluation
    /\ UNCHANGED ns

\* The default branch of Evaluate.
HandleUnknown ==
    /\ pc = "evaluating" /\ mem.state \notin States
    /\ Transition(mem, "HEALTHY")
    /\ EndEvaluation
    /\ UNCHANGED ns

-----------------------------------------------------------------------------
(* The process and its environment *)

\* A crash, or the end of the main loop on SIGTERM.
Crash ==
    /\ May("crash")
    /\ pc # "down"
    /\ pc' = "down"
    /\ mem' = NoState
    /\ tickPending' = FALSE
    /\ UNCHANGED <<file, ns, envVars>>

\* main evaluates once before it waits for the ticker.  A start whose load
\* fails exits again, which leaves the process down.
Start ==
    /\ pc = "down"
    /\ pc' = "idle"
    /\ tickPending' = TRUE
    /\ UNCHANGED <<file, mem, ns, envVars>>

Older(age, limit) == IF age < limit THEN age + 1 ELSE age

Aged(r) ==
    IF r = NoState THEN r
    ELSE [r EXCEPT !.sinceTransition = Older(@, MinTimeInState),
                   !.sinceFailover = Older(@, FailoverCooldown),
                   !.sinceRecovery = Older(@, RecoveryCooldown)]

Evaluating == pc \in {"evaluating", "nsUpdated"}

\* The main loop takes a tick, and ends its evaluation, before the next one,
\* unless a call is slow or the process is starved.
Elapse ==
    /\ Evaluating \/ tickPending => May("slow")
    /\ sinceMidnight < DayLength
    /\ file' = Aged(file)
    /\ mem' = Aged(mem)
    /\ sinceMidnight' = sinceMidnight + 1
    /\ tickPending' = (pc # "down")
    /\ UNCHANGED <<pc, ns, primary, today, calm>>

Midnight ==
    /\ Evaluating => May("straddle")
    /\ sinceMidnight = DayLength
    /\ sinceMidnight' = 0
    /\ today' = (today + 1) % YearDays
    /\ UNCHANGED <<file, mem, pc, tickPending, ns, primary, calm>>

HealthChanges ==
    /\ primary' \in HealthClasses \ {primary}
    /\ UNCHANGED <<file, mem, pc, tickPending, ns, today, sinceMidnight, calm>>

\* Liveness is asked of behaviours whose faults cease at some time.
FaultsCease ==
    /\ ~calm
    /\ calm' = TRUE
    /\ UNCHANGED <<file, mem, pc, tickPending, ns, primary, today, sinceMidnight>>

-----------------------------------------------------------------------------

Init ==
    /\ today = 0
    /\ sinceMidnight = 0
    /\ file \in {IF s = "missing" THEN NoState ELSE Fresh(s, MinTimeInState) :
                    s \in InitialFiles}
    /\ mem = NoState
    /\ pc = "idle"
    /\ tickPending = TRUE
    /\ ns = "primary"
    /\ primary \in HealthClasses
    /\ calm = (Faults = {})

\* The steps that act on a score the query returned.
ScoreStep ==
    \/ HandleHealthy \/ HandleDegraded \/ HandleFailedOver
    \/ RecoveryAborts \/ RecoveryWaits \/ FailbackFails \/ FailbackUpdates

OtherStep ==
    \/ QueryFails \/ HandleUnknown
    \/ FailoverFails \/ FailoverUpdates
    \/ FailoverCompletes \/ FailbackCompletes

ProcessStep == Evaluate \/ ScoreStep \/ OtherStep \/ Crash \/ Start

EnvironmentStep == HealthChanges \/ FaultsCease

Next == ProcessStep \/ EnvironmentStep \/ Elapse \/ Midnight

Spec == Init /\ [][Next]_vars

\* Time passes, the ticker fires, and the main loop, when it is not killed,
\* carries each evaluation it began to its end.
Fairness ==
    /\ WF_vars(Elapse) /\ WF_vars(Midnight)
    /\ WF_vars(Evaluate) /\ WF_vars(ScoreStep) /\ WF_vars(OtherStep)
    /\ WF_vars(Start)

FairSpec == Spec /\ Fairness

-----------------------------------------------------------------------------
(* Properties *)

\* Types; an evaluation has a record in memory exactly while it runs.
TypeOK ==
    /\ file \in ControllerState \cup {NoState}
    /\ mem \in ControllerState \cup {NoState}
    /\ pc \in {"idle", "evaluating", "nsUpdated", "down"}
    /\ tickPending \in BOOLEAN
    /\ ns \in {"primary", "secondary"}
    /\ primary \in AllHealthClasses
    /\ today \in Days
    /\ sinceMidnight \in 0 .. DayLength
    /\ calm \in BOOLEAN
    /\ Evaluating <=> mem # NoState

\* The state a load would find.
PersistedState == IF file = NoState THEN "HEALTHY" ELSE file.state

\* A record that never looks at the registrar while the secondary serves.
Orphaned ==
    ns = "secondary" /\ PersistedState \in {"HEALTHY", "DEGRADED"}

\* Only an abort of handleFailingOver (statemachine.go:188) or a lost file
\* leaves the domain on the secondary behind a record that says HEALTHY or
\* DEGRADED: a crash, a lost save or a blocked transition between a registrar
\* update and the record of it (statemachine.go:209, :296, :330) does not.
OrphanedOnlyByAbort ==
    [][Orphaned' => Orphaned \/ FailoverFails \/ file' = NoState]_vars

\* A failback whose record was lost: handleFailedOver and handleRecovering only
\* wait for the primary.
Stranded == ns = "primary" /\ PersistedState \in {"FAILED_OVER", "RECOVERING"}

\* A primary that stays bad is abandoned: once faults have ceased, the
\* secondary comes to serve the domain for good (the lifecycle of
\* statemachine.go).  A record whose state the code does not know never leaves
\* it, one that says FAILED_OVER while the primary serves waits for a good
\* primary; both are excepted.
BadPrimaryFailsOver ==
    <>[](calm /\ primary = "bad" /\ PersistedState \in States /\ ~Stranded) =>
        <>[](ns = "secondary")

\* That holds of a controller that has a record; without one it stays in HEALTHY
\* (persistence.go:100 makes a new record at every load and nothing saves it).
RecordedControllerFailsOver == <>[](file # NoState) => BadPrimaryFailsOver

\* A primary that stays good gets the domain back once faults have ceased,
\* and the controller rests in HEALTHY.  An orphaned record rests in HEALTHY
\* without ever moving the domain; it is excepted.
GoodPrimaryFailsBack ==
    <>[](calm /\ primary = "good" /\ PersistedState \in States /\ ~Orphaned) =>
        <>[](ns = "primary" /\ PersistedState = "HEALTHY")

=============================================================================
