---------------------------- MODULE AgentLimits ----------------------------
(***************************************************************************)
(* What keeps the agents of the AI SRE from running away: the rate limiter *)
(* with its circuit breaker (guardrails/rate_limiter.py) and the tracker   *)
(* of daily spending (observability/cost_tracker.py).                      *)
(*                                                                         *)
(* An invocation asks can_proceed, calls the model, and reports how the    *)
(* call ended.  Invocations run concurrently: the limits are tested when a *)
(* call begins and counted when it ends.                                   *)
(*                                                                         *)
(* Time passes in ticks.  A sliding window keeps the ages of its events,   *)
(* the oldest first; the code forgets an event when its age exceeds the    *)
(* window.  The age of a timestamp stops growing where the code no longer  *)
(* tells ages apart.                                                       *)
(***************************************************************************)
EXTENDS Integers, Sequences, FiniteSets

CONSTANTS
    Invocations,       \* those that can run at the same time
    Roles,             \* agent roles
    MaxInvestigations, \* max_investigations_per_hour
    AgentWindow,       \* the hour, in ticks
    MaxApiCalls,       \* max_api_calls_per_minute
    ApiWindow,         \* the minute
    MaxDailyCost,      \* max_daily_cost_usd, and the daily budget
    Day,               \* 24 hours
    MaxCost,           \* the most one call costs
    ErrorPercent,      \* error_rate_threshold
    ErrorWindow,       \* error_rate_window_seconds
    MinEvents,         \* 5 in _check_threshold
    Cooldown,          \* circuit_breaker_cooldown_seconds
    MaxFailures        \* bound: failures in one window of the breaker

ASSUME LimitsAssumption ==
    /\ {MaxInvestigations, AgentWindow, MaxApiCalls, ApiWindow, MaxDailyCost,
        Day, MaxCost, ErrorPercent, ErrorWindow, MinEvents, Cooldown,
        MaxFailures} \subseteq Nat
    /\ MinEvents > 0 /\ MaxDailyCost > 0
    /\ IsFiniteSet(Invocations) /\ Invocations # {}
    /\ "none" \notin Roles

VARIABLES
    breaker,      \* "closed", "open" or "half_open"
    successes,    \* sliding windows of the breaker
    failures,
    sinceFailure, \* age of _last_failure_time, up to Cooldown
    api,          \* sliding window of all calls
    agent,        \* that of each role
    cost,         \* _daily_cost of the limiter
    sinceReset,   \* age of _cost_reset_time, up to Day + 1
    tracked,      \* what CostTracker.get_daily_cost sums
    sinceRotate,  \* age of its _day_start, up to Day + 1
    calling,      \* the role each running invocation has, or "none"
    sinceTrip,    \* history: age of the last opening of the breaker
    calm          \* from now on every call succeeds

breakerVars == <<breaker, successes, failures, sinceFailure>>
counterVars == <<api, agent>>
limiterCost == <<cost, sinceReset>>
trackerVars == <<tracked, sinceRotate>>
vars == <<breakerVars, sinceTrip, counterVars, limiterCost, trackerVars, calling, calm>>

-----------------------------------------------------------------------------
(* SlidingWindowCounter *)

Count(counter) == Len(counter)

Record(counter) == Append(counter, 0)

\* A tick, and the timestamps that _cleanup pops from the front after it.
Slide(counter, window) ==
    LET gone == Cardinality({i \in DOMAIN counter : counter[i] = window})
    IN [i \in 1 .. Len(counter) - gone |-> counter[i + gone] + 1]

Older(age, limit) == IF age < limit THEN age + 1 ELSE age

-----------------------------------------------------------------------------
(* CircuitBreaker *)

\* is_allowed, and the state it leaves behind.
CooledDown == breaker = "open" /\ sinceFailure >= Cooldown
IsAllowed == breaker # "open" \/ CooledDown
AskedBreaker == IF CooledDown THEN "half_open" ELSE breaker

\* Variant of ClosedBySuccess for a breaker that any success closes.
ClosedByAnySuccess == "closed"

ClosedBySuccess == IF breaker = "half_open" THEN "closed" ELSE breaker

RecordSuccess ==
    /\ successes' = Record(successes)
    /\ breaker' = ClosedBySuccess
    /\ UNCHANGED <<failures, sinceFailure, sinceTrip>>

Trips ==
    LET bad == Count(Record(failures))
        total == Count(successes) + bad
    IN total >= MinEvents /\ bad * 100 > ErrorPercent * total

\* Variant of RecordFailure that forgets the time of the failure.
RecordFailureUnstamped ==
    /\ failures' = Record(failures)
    /\ IF Trips
       THEN breaker' = "open" /\ sinceTrip' = 0
       ELSE UNCHANGED <<breaker, sinceTrip>>
    /\ UNCHANGED <<successes, sinceFailure>>

\* record_failure.  The warning of an opening breaker has keyword arguments,
\* so TypeError leaves this call, but the state is set by then.
RecordFailure ==
    /\ failures' = Record(failures)
    /\ sinceFailure' = 0
    /\ IF Trips
       THEN breaker' = "open" /\ sinceTrip' = 0
       ELSE UNCHANGED <<breaker, sinceTrip>>
    /\ UNCHANGED successes

-----------------------------------------------------------------------------
(* AgentRateLimiter *)

\* _maybe_reset_daily_cost
DayOver == sinceReset > Day
CostSeen == IF DayOver THEN 0 ELSE cost

\* Variants of the checks that let one call too many through.
ApiRateOkLate == Count(api) <= MaxApiCalls
CostOkLate == CostSeen <= MaxDailyCost

ApiRateOk == Count(api) < MaxApiCalls
CostOk == CostSeen < MaxDailyCost
AgentRateOk(role) == Count(agent[role]) < MaxInvestigations

\* can_proceed runs the checks in order and stops at the first that fails; the
\* earlier ones have changed their state by then.  (A refusal logs with keyword
\* arguments and raises TypeError in place of returning its reason.)
CanProceed(i, role) ==
    /\ calling[i] = "none"
    /\ breaker' = AskedBreaker
    /\ IF IsAllowed /\ ApiRateOk
       THEN /\ cost' = CostSeen
            /\ sinceReset' = IF DayOver THEN 0 ELSE sinceReset
       ELSE UNCHANGED limiterCost
    /\ IF IsAllowed /\ ApiRateOk /\ CostOk /\ AgentRateOk(role)
       THEN calling' = [calling EXCEPT ![i] = role]
       ELSE UNCHANGED calling
    /\ UNCHANGED <<successes, failures, sinceFailure, sinceTrip, counterVars,
                   trackerVars, calm>>

\* record_usage: the daily total is computed after the record is appended, and
\* a rotation at that moment starts the new day after the record.
RecordUsage(usd) ==
    IF sinceRotate > Day
    THEN tracked' = 0 /\ sinceRotate' = 0
    ELSE tracked' = tracked + usd /\ UNCHANGED sinceRotate

\* Variant of CallSucceeds that does not report the success to the breaker.
CallSucceedsSilently(i) ==
    /\ calling[i] # "none"
    /\ api' = Record(api)
    /\ agent' = [agent EXCEPT ![calling[i]] = Record(@)]
    /\ \E usd \in 0 .. MaxCost : cost' = cost + usd /\ RecordUsage(usd)
    /\ calling' = [calling EXCEPT ![i] = "none"]
    /\ UNCHANGED <<sinceReset, breakerVars, sinceTrip, calm>>

\* record_invocation, and record_usage for the tokens.
CallSucceeds(i) ==
    /\ calling[i] # "none"
    /\ api' = Record(api)
    /\ agent' = [agent EXCEPT ![calling[i]] = Record(@)]
    /\ \E usd \in 0 .. MaxCost : cost' = cost + usd /\ RecordUsage(usd)
    /\ RecordSuccess
    /\ calling' = [calling EXCEPT ![i] = "none"]
    /\ UNCHANGED <<sinceReset, calm>>

\* A failed call counts for the breaker only.
CallFails(i) ==
    /\ ~calm
    /\ calling[i] # "none"
    /\ Count(failures) < MaxFailures
    /\ RecordFailure
    /\ calling' = [calling EXCEPT ![i] = "none"]
    /\ UNCHANGED <<counterVars, limiterCost, trackerVars, calm>>

Tick ==
    /\ successes' = Slide(successes, ErrorWindow)
    /\ failures' = Slide(failures, ErrorWindow)
    /\ api' = Slide(api, ApiWindow)
    /\ agent' = [role \in Roles |-> Slide(agent[role], AgentWindow)]
    /\ sinceFailure' = Older(sinceFailure, Cooldown)
    /\ sinceTrip' = Older(sinceTrip, Cooldown)
    /\ sinceReset' = Older(sinceReset, Day + 1)
    /\ sinceRotate' = Older(sinceRotate, Day + 1)
    /\ UNCHANGED <<breaker, cost, tracked, calling, calm>>

CalmDown ==
    /\ ~calm
    /\ calm' = TRUE
    /\ UNCHANGED <<breakerVars, sinceTrip, counterVars, limiterCost, trackerVars,
                   calling>>

Init ==
    /\ breaker = "closed"
    /\ successes = <<>> /\ failures = <<>>
    /\ sinceFailure = Cooldown
    /\ api = <<>> /\ agent = [role \in Roles |-> <<>>]
    /\ cost = 0 /\ tracked = 0
    /\ sinceReset = 0 /\ sinceRotate = 0
    /\ calling = [i \in Invocations |-> "none"]
    /\ sinceTrip = Cooldown
    /\ calm = FALSE

Asking == \E i \in Invocations, role \in Roles : CanProceed(i, role)

Ending == \E i \in Invocations : CallSucceeds(i) \/ CallFails(i)

Next == Asking \/ Ending \/ Tick \/ CalmDown

\* Time passes, calls end, alerts keep asking for agents.
Fairness ==
    /\ WF_vars(Tick)
    /\ WF_vars(Ending)
    /\ \A i \in Invocations : WF_vars(\E role \in Roles : CanProceed(i, role))

Spec == Init /\ [][Next]_vars /\ Fairness

-----------------------------------------------------------------------------

Running == {i \in Invocations : calling[i] # "none"}

\* Every variable stays within its type, and the failure that opened the
\* breaker is never younger than the last one.
TypeOK ==
    /\ breaker \in {"closed", "open", "half_open"}
    /\ successes \in Seq(0 .. ErrorWindow)
    /\ failures \in Seq(0 .. ErrorWindow)
    /\ api \in Seq(0 .. ApiWindow)
    /\ agent \in [Roles -> Seq(0 .. AgentWindow)]
    /\ sinceFailure \in 0 .. Cooldown /\ sinceTrip \in 0 .. Cooldown
    /\ sinceReset \in 0 .. Day + 1 /\ sinceRotate \in 0 .. Day + 1
    /\ cost \in Nat /\ tracked \in Nat
    /\ calling \in [Invocations -> Roles \cup {"none"}]
    /\ sinceFailure <= sinceTrip
    /\ calm \in BOOLEAN

\* The checks are made before a call and the counting after it, yet the calls
\* of a minute exceed the limit by no more than the invocations that run at
\* the same time, less the one that was checked.
ApiOverrunBounded ==
    Count(api) + Cardinality(Running) < MaxApiCalls + Cardinality(Invocations)

\* In the same way the limiter's cost of a day exceeds the cap by less than
\* what the invocations that run at the same time can cost.
CostOverrunBounded ==
    cost + MaxCost * Cardinality(Running)
        < MaxDailyCost + MaxCost * Cardinality(Invocations)

\* A breaker that tripped admits nothing for the length of the cooldown:
\* late successes do not close it, late failures only prolong it.
TrippedBreakerPauses ==
    [][(\E i \in Invocations : calling[i] = "none" /\ calling'[i] # "none") =>
          sinceTrip >= Cooldown]_vars

\* When calls stop failing the breaker does not stay open or half open: the
\* cooldown ends, and the rate and cost limits that follow it let a call
\* through that closes it.
BreakerRecovers == (<>[]calm) => <>[](breaker = "closed")

=============================================================================
