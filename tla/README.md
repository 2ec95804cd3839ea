# Formal models of platform-design

This directory holds TLA+ modules for the programs of this repository that keep state or decide
about it, the TLC configurations that check them on small instances, and proofs for all values of
their constants. Paths below are relative to the repository's root.

## 1. The system

Most of the repository is declarative infrastructure (Terraform, Terragrunt, Helm, Argo CD,
Kargo, Kubernetes manifests). Three families of programs have behaviour of their own: the DNS
resilience services (Go), the AI SRE platform (Python, `ai-sre/`) and the scripts that validate
the platform contracts and the evidence of their execution (Python, `scripts/`).

| Component | State | Operations | What is hard about it |
|---|---|---|---|
| failover controller (`failover-controller/`) | a record in a JSON file: state, times of the last transition, failover and recovery, daily count, degraded checks | one evaluation per 30 s tick: load, query the score, call the registrar, validate a transition, save | the side effect at the registrar and the saved record are two steps; safety checks can block a transition *after* its side effect; crash, lost save, slow call, midnight |
| health store, dns-monitor, dns-sync, dns-admin | rows of check results | one row per check; a score over 5 minutes | rounds overlap; missing rows look like a bad provider |
| analytics writer (`analytics/`) | a write buffer per table, a lock, a flush task, the connection | hooks and Slack handlers write; flush on size, on time, at stop | an insert is awaited with the lock held; failure and cancellation during it; log calls that raise |
| alert ingestion (`ingestion/`) | deduplication entries, a request window | webhook: rate limit, then per alert: deduplicate, enrich, route, mark | the enrichment is awaited between the check and the mark |
| guardrails (`guardrails/`, `observability/cost_tracker.py`) | sliding windows, breaker, daily cost | can_proceed, record_invocation, record_failure, record_usage | check, call and record are separate steps of concurrent callers |
| operations agents (`agents/ops/`) | a clone of the repository; runbook sessions | propose a change as a pull request; start and execute a runbook | a failing git command between two others |
| cloud collector and correlator (`agents/cloud/`) | the graph in the store, a cache per process | list every API, push the graph; look a subject up | objects come and go between two calls; mock data on failure; a cache that never expires |
| platform contract validators (`scripts/`) | none; they judge documents | accept or refuse a bundle of contracts, a probe record, the evidence of an observation | what is accepted is executed by somebody else, in every order the text allows |
| Slack approvals, orchestrator, other agents, memory, MCP servers, operations scripts, lambdas, DAGs, sample services | none that matters, see section 8 | | |

How they interact: dns-monitor writes check results to Postgres; the controller reads them through
its health store and changes the nameservers at the registrar. The ingestion API turns alerts into
investigations; these pass the guardrails, report what they did and cost to the analytics writer,
may propose changes through GitOps, and ask the correlator for context, which the collector's
graph provides. The contract validators accept what an executor outside this repository runs:
work orders on published paths, whose observers and probes leave the evidence that the validators
judge in turn. The three families share no state, so each is composed within itself:
the controller with its environment, the collector with the correlator, each
validator with the parties whose documents it judges.

### What makes each component correct

- **controller**: moves of the domain to the secondary are rare (cooldown, daily cap) and have
  evidence; no failback while the primary is unstable; a primary that stays bad is abandoned, one
  that stays good gets the domain back; all this across crashes, lost saves and failing calls.
- **analytics writer**: a row is stored at most once, in order, findings before the usage
  that refers to them; buffers stay below a batch; without failures everything arrives.
- **ingestion**: an alert is suppressed only if one of its group was routed within the window;
  a storm is not suppressed for ever.
- **guardrails**: limits are exceeded by no more than what runs concurrently; an open breaker
  pauses, and recovers.
- **GitOps proposals**: a pull request has its own change and nobody else's; asked again, each
  proposal is made.
- **collector and correlator**: edges only miss objects that are new; mocks and gone objects do not
  survive in the store; answers to reports do not contradict each other and come in the end.
- **validators**: what honest parties produce is accepted, what is accepted means what it says, and
  no forgery or edit makes an accepted text let work orders run unpromoted, for ever, or with
  access they keep.

`PROJECT.json` lists every hazard with its line and the properties that cover it, or why none does.

## 2. The modules

| Module | What it is |
|---|---|
| `FailoverController` | the controller: record, evaluations step by step, crash, restart, faults, time |
| `FlipDiscipline` | abstract: what the caps of `safety.go` promise to whoever resolves the domain |
| `FlipHistory` | the controller with the history of moves; refinement of `FlipDiscipline` |
| `ObservationHistory` | the controller with the history of what its evaluations observed |
| `AnalyticsClient`, `AtMostOnceDelivery` | the writer; abstract: what becomes of a row |
| `AlertIngestion` | concurrent webhooks, deduplication, enrichment |
| `AgentLimits` | rate limiter, circuit breaker, cost cap and cost tracker with concurrent invocations |
| `GitOpsProposal` | proposals from one clone, command by command |
| `TopologyGraph`, `CloudTopology` | the graph made of what APIs list; the collector's rounds, the store, the correlator |
| `ProbeRecord`, `HttpProbe` | which probe records and receipts are accepted; the verifier that makes them, and forgeries |
| `EvidenceChain` | which four evidence documents are accepted; the parties that make them, and forgeries |
| `PlatformContracts`, `PlatformPath`, `AccessLifecycle` | which bundle is accepted; work orders that run on it; abstract: the life of an observer's access |
| `MC…` | instances for TLC |
| `FlipProofs` | proofs about the controller, its two histories and `FlipDiscipline` |
| `AnalyticsProofs`, `IngestionProofs`, `AgentsProofs`, `TopologyProofs`, `ProbeProofs`, `EvidenceProofs`, `PlatformProofs` | proofs about the others; `AgentsProofs` is about `AgentLimits` and `GitOpsProposal` |

### 2.1 The failover controller

`file` is the persisted `ControllerState` (`persistence.go`), or `NoState` when the file is missing
or cannot be parsed, which `Load` treats alike. `mem` is the copy one evaluation works on. `pc` is
`idle` between ticks, `evaluating` after `Load`, `nsUpdated` between a successful `UpdateNameservers`
and the transition that follows, or `down`. `ns` is whose nameservers the registrar holds; it survives
crashes. `tickPending` is the ticker's channel of capacity one.

| Action | Code |
|---|---|
| `Evaluate` | `Evaluate` up to the handler: the load, its error, a lost file, the daily reset |
| `HandleHealthy`, `HandleDegraded`, `HandleFailedOver` | the handlers, from the score to the save |
| `FailoverFails`, `FailoverUpdates`, `FailoverCompletes` | `handleFailingOver`: the aborts; the registrar call; the bookkeeping and transition after it |
| `RecoveryAborts`, `RecoveryWaits`, `FailbackFails`, `FailbackUpdates`, `FailbackCompletes` | `handleRecovering`, branch by branch |
| `HandleUnknown`, `QueryFails` | the default branch; the error return every handler but `handleFailingOver` has |
| `Crash`, `Start` | the process dies anywhere, or ends on SIGTERM; `main` evaluates once, then waits for the ticker |
| `Elapse`, `Midnight`, `HealthChanges`, `FaultsCease` | time; the environment |

`Transition` is `transition`: `ValidateTransition` on the changed copy, then `Save`; a blocked transition
returns without saving and *drops every change of the copy*. `Save` writes a temporary file and
renames it: the new record, or the old one.

Abstractions. *Time*: the unit is the ticker's period; a timestamp is its age, saturated at the one
threshold the code compares it with, and the zero `time.Time` is the saturated age; jitter below a tick is not
represented, the fault `slow` makes evaluations any whole number of ticks long. *Scores*:
below 0.5, between, above 0.7, and no row; they change at any moment. *The degraded
counter* stops at the required number. *Days*: `YearDay()` repeats, and `YearDays` is small so that it does.
*The registrar* is the interface `RegistrarClient`: an update is atomic, and one that reports an
error may or may not have been applied. `VerifyPropagation` only logs and the HTTP endpoints only load: left out.

### 2.2 The analytics writer

A step lasts from one `await` to the next. `buffers`, `batch` (what a task is inserting) and
`orphans` (inserts whose task was cancelled while the thread runs on) hold the rows; `todo` is what a
hook has still to write. The lock of `client.py` is held across a wait only during an insert, so `LockFree`
says that nobody inserts. `Begin` is the entry of every hook of `tracker.py` and `slack_feedback.py`; `Buffer` is
`_buffer`; `SweepTable` one table of `_flush_all`, run by the flush task and by `stop`;
`InsertSucceeds`, `InsertFails` and `OrphanEnds` end an insert. `LogRaises` says which log calls raise
`TypeError` at the configured level: the loggers are those of the standard library, and are given keyword arguments.

### 2.3 Alert ingestion

`Receive` is the webhook up to its first alert, with the rate limit; `BeginGroup`, `JoinUnmarked` and
`Deduplicate` are the outcomes of `should_investigate` with its clean-up on every n-th check; the
enrichment is a wait; `Route` is what follows it, `mark_investigated` included, which looks the group up *again*.
Ages saturate one tick past the threshold.

### 2.4 The limits of agents

A sliding window is the sequence of the ages of its events, the oldest first, as the code's deques of time stamps are. `CanProceed` runs the checks of `can_proceed` in the code's order and
keeps the state that the earlier ones changed when a later one refuses; `CallSucceeds` is
`record_invocation` and `record_usage`, `CallFails` is `record_failure`. The daily totals of the limiter and of
the tracker are reset separately, as in the code.

### 2.5 GitOps proposals

A change is named after its proposal; a branch, the index and the tree are sets of changes. `Checkout`, `Write`, `Add`,
`Commit`, `Push`, `CreatePr` and `Restore` are the commands of `propose_change`; `CommandFails` is the exception that
leads to the `finally` block, `RestoreFails` and `BeginUnknown` the commands whose result is not checked, `Crash` the end of
the process. git's refusal to leave a branch with a conflicting change is `MayReturn`.

### 2.6 Collector and correlator

An object is a record with the fields that edges are made from. `List` is one API call, in the code's order (`K8sKinds`,
`AwsKinds`, `CloudflareKinds`); `PassOver` and `GiveUp` are its two ways to fail, the latter with the mock layer;
`Push` and `PushFails` send the graph. Between two calls objects are created and deleted, each
when what it names exists and nothing names it (that part is external; `Supplied` says it of what exists at the start). A pod that
no node runs and a volume that no instance mounts name nothing. `Clusters` are among the three names the daemon is given
(`collector.py:1258`), which the mock layers repeat. `AskStore`, `AskCached` and `AskFails` are the
lookups of `correlation.py`. The correlator gets a store: no agent configures one, see section 6.

### 2.7 The validators

Digests stand for what they digest, schemas for a field `valid`, signatures for the signer's name.
Each validator is composed with the parties whose documents it judges, which are not in this repository and follow the
profiles: a verifier that probes a changing target until a deadline (`HttpProbe`), four
parties that run, fail and try again (`EvidenceChain`), and an executor that runs the steps of an accepted path in any
order its needs allow (`PlatformPath`). `ProbeRecord` is `_validate_semantics` of `http_probe_contract_validation.py`,
with the reduction of backends, attempts, conditions and paths, the timing and the receipt. The decision of `EvidenceChain` is
`validate_runtime_semantics`. `PlatformContracts` is the rest of `validate-platform-contracts.py`: index, digests,
profiles, entities, paths, workflow, conditions, compensation, requests, fixtures and the self-tests on mutations.
The forgeries are those the scripts try on one example each; here they are tried on every
record that can arise. What an order's observer is given in the cluster are objects named by `NamesFor`; two orders may use one name. The edits in `MCPlatform` are what a commit can change in the bundle of `platform-contracts/`.

## 3. The runs

### The controller

Real parameters (`DefaultSafetyParams` and the 30 s ticker): minimum time in state 10 ticks, failover cooldown
120, recovery cooldown 20, a day 2880, one failover a day, 3 degraded checks. Every instance keeps their order, so that
the same safety checks block the same transitions: the degraded checks fit into the minimum time in state (dwell), the recovery
cooldown is not below it, the failover cooldown is longer than the shortest cycle from one recorded failover to the
next, and the day is longer than the cooldown.

| Run | dwell, failover and recovery cooldown, day | Faults | Shows |
|---|---|---|---|
| `flips_across_midnight` | 2, 10, 2, 22 (2 degraded checks; two cooldowns fit into a day) | all but a lost file | implements `FlipDiscipline`, with one move more a day where evaluations straddle midnight, never two; cooldown kept; the secondary serves for dwell + recovery cooldown |
| `failover_lifecycle` | 2, 10, 4, 12; starts with a healthy, an unknown or no record | all, until they cease | types; only the abort of a failover orphans the domain; a failover needs the required number of bad evaluations since HEALTHY; no bad evaluation in the last recovery cooldown − dwell before a failback, unless the save of the abort failed; a bad primary is abandoned, a good one gets the domain back, by a controller that has a record |
| `fresh_never_fails_over` | 4, 22, 8, 24; starts without a record | none | violation, see section 6 |

Every age passes through all values below its limit, at it, and stays there, so each
check is met on both sides and exactly at its threshold; each instance runs through several whole cycles, days and a
wrap of the day of the year, with faults at each step (their number is not bounded). The
only bounds are those of the model itself: `DayLength`, the saturated ages and the saturated counter. `RequireManualAuth` is
FALSE and a secondary is configured in every run; the proofs hold for both values of both.

### The others

| Run | Instance | Shows |
|---|---|---|
| `analytics_rows` | a tool call, a completion, a reaction, a false positive click (two rows), batch 2; log level DEBUG or WARNING; every fault | at most once (refinement of `AtMostOnceDelivery`), in order, findings first, buffers below a batch, everything stored when nothing fails |
| `alert_storms` | two webhooks at a time with up to two alerts of two groups, rate 2, window 1, clean-up every 2 checks | what is suppressed was routed; marks belong to routed alerts; storms are investigated again |
| `agent_limits` | two concurrent invocations, two roles, windows of 1 to 3 ticks, limits 2 and 3 | overrun of rate and cost bounded; an open breaker pauses and recovers |
| `gitops_proposals` | three proposals, two of them of one file, three failed commands or crashes | no stranger's change in a pushed branch unless that one failed; each proposal is made, or stuck in the clone |
| `topology_store` | one cluster with a node that is replaced, a node for a job, an application with a volume; two changes, one failure | edges only miss new objects; the store catches up; answers agree and come |
| `probe_records` | three conditions, 2 passes of at most 3 attempts, targets with one backend or none, up to two forgeries | honest records accepted, forgeries refused, accepted success proven by attempts |
| `evidence_runs` | two runs of one or two orders, three ticks, one change of the objects | a complete run is accepted, a mixture of runs or a forgery is not |
| `platform_paths` | v2 and v3 of the contracts, promoted or not, with any pair of document edits, any workflow edit or an edit of the index; two work orders | orders use what was promoted, end, hold no access afterwards, and implement `AccessLifecycle` |
| `access_under_another_id` | one work order; the promoted bundle has one more step, with the action that provisions the access and an id of its own | violation, see section 6 |

Why the bounds are enough: two tasks, webhooks or invocations are the fewest that can interleave, and each may be at
any of its waits while the other passes through all of its own; two groups, roles, orders or files tell "the same" from "another"; each window is as long
as it takes to be inside it, at its end and beyond; a batch of two is filled by one caller and by two. Three
proposals are one that leaves something, one that takes it along and one that meets both. Two changes are a replacement, which
is the shortest way for a name to mean another object. In `probe_records` a passing streak, a broken streak, exhaustion and the deadline in each of the three conditions all
fit into the run's length. Larger parameters (three backends, three runs, two clusters) repeat these cases.

The constants that exist only as bounds are named as such where they are declared: `MaxFailures` (limits), `MaxAlerts`,
`MaxFaults`, `MaxChanges` and `MaxFailures` (topology), `MaxForgeries`, `MaxRuns`, `MaxClock`, `MaxTouches`. `evidence_runs` uses the symmetry of
work orders, sound there since it checks invariants only. Deadlock is checked in the controller's runs, `agent_limits` and
`alert_storms`, where time can always pass; the other systems really may stop: the process has ended, every proposal is made, the
collector's bound is reached, the record is signed, the orders have ended.

### Fairness

- `FailoverController`: time, the main loop's steps and the restart. The loop is one goroutine that does nothing else. Its calls are assumed to
  return: the code sets no timeout on the database query, so a call that hangs for ever is not excluded by the code, and would stop the controller. The
  handlers share two groups because the process runs whichever handler the record selects. Nothing makes faults or health change;
  liveness is asked of behaviours whose faults cease and whose primary stays as it is.
- `AnalyticsClient`: ready tasks run, the flush timer fires, an insert ends (the client has a receive timeout); the flush task
  gets the lock in the end (strong fairness: waiters of an asyncio lock are served in order).
- `AlertIngestion`: time; every handler goes on, since the enrichment's calls have timeouts.
- `AgentLimits`: time, calls end, and agents are asked for again; nothing makes a call succeed except that failures cease (`calm`).
- `GitOpsProposal`: a proposal in progress goes on; its caller asks again (strong fairness: the clone is busy now and then).
- `CloudTopology`: the daemon goes on round after round; reports are asked for again.
- `PlatformPath`: the executor goes on with a work order that can go on.
- `HttpProbe`, `EvidenceChain`: none; their properties are about what was accepted.

## 4. What is proved

Every invariant and every action property that a passing run checks, and each refinement, is the statement of a theorem here,
some under the premises named below; what is left to TLC is liveness (section 5). All proofs are checked by TLAPS without a bound on any constant, from the named assumptions of the modules, which
TLC evaluates in every run. The proof of a step has one step per action; what a helper does to the
invariant is a lemma of its own. Except for the premises named below, every theorem holds of the whole specification, all faults included.

### The controller (`FlipProofs`; `SafetyParamsAssumption`, `EnvironmentAssumption`, `NoStateAssumption`)

- `TypeCorrect`: types; the daily count never exceeds the cap although the code increments it without
  a check. `TypeInv` adds that a record in FAILING_OVER, in memory or on disk, has a count below the cap: only the transition into
  FAILING_OVER checks it, and no retry, lost save or day change in between may raise it.
- `CooldownRespected`: unless the file is lost, two moves to the secondary are `FailoverCooldown` apart. The code
  compares a time stamped after the move and perhaps never saved. `CooldownInv`: while the primary serves, or the
  record is FAILED_OVER or RECOVERING, the recorded failover is no older than the move; in FAILING_OVER the
  recorded age is the whole cooldown. In the states between, the secondary may serve after an unrecorded move; no second
  move follows before a failback, which needs a record saved after the move.
- `OnlyAbortsOrphan`: under every fault, only `FailoverFails` or a lost file leaves the domain on the secondary
  behind a record that says HEALTHY or DEGRADED. `CopyInv`: an evaluation works on the state a load would find, and a
  successful failback has moved the domain before HEALTHY is recorded.
- `SecondaryStays`: for cooldowns of at least `MinTimeInState + RecoveryCooldown` (60 ≥ 5 + 10 minutes by default) and under
  *every* fault, the secondary serves at least that long. `StayInv` dates the records in FAILED_OVER and RECOVERING against the
  move, in memory and on disk separately.
- `DisciplineKept`: without `loss` and `straddle`, the controller implements `FlipDiscipline`. `DailyInv`
  relates the count a load would find to the moves of today: at most one is not counted, and none when the primary serves or
  the failover is recorded. `Simulation` maps each step to a step of the promise or a stutter.
- `FailoversHaveEvidence`, `QuietFailbacks`: under every fault, a failover begins only after the required number of evaluations found
  the primary bad since the record was HEALTHY; none did in the last `RecoveryCooldown - MinTimeInState` before a failback, unless the save of that abort
  failed. `ObservedInv` says of the record on disk and of the copy apart what evidence each stands for (`Evident`) and how long
  it has been quiet (`Quiet`), since a failed save leaves them apart.

`loss` and `straddle` cannot be dropped where they are excluded: a lost file erases the last failover and the count; a count
written after midnight belongs to the day before.

### AI SRE

- `AnalyticsProofs` (`AnalyticsAssumption`, `CallsAssumption`). `TypeCorrect` and `BuffersStayBelowBatch`: `WriterInv` relates the process to the lock,
  and says that the rows in buffers, in inserts and behind them are rows of their table, none twice. `RowsStoredInOrder`: until an insert fails or is
  cancelled, what is stored, what is being inserted and what is buffered make up, one after the other, what was written (`OrderInv`). `StoredAtMostOnce`, the
  refinement of `AtMostOnceDelivery`: a row is in one place at a time, and one that was not yet written in none (`PlacesInv`); so
  each step moves a row's fate as the promise allows. `FindingsComeFirst`: whatever is left of a completion's script, the finding
  stands before the usage (`FindsInv`).
- `IngestionProofs` (`IngestionAssumption`). `MarksAreRouted`, `SuppressionIsDue`: the mark of an entry is never older than the routing that made it, though
  a handler may mark another entry than it began; suppression within the window follows. `IngestionTypes`: types; a handler
  that comes back from an enrichment still has the alert it is for (`RequestInv`).
- `AgentsProofs` on the limits (`LimitsAssumption`). `LimitsTypes`, `CostIsBounded`, `BreakerPauses`: the failure that opened the breaker is not younger than the last
  one, so a breaker that is asked to close has paused (`BreakerInv`); each running call has its highest price set aside, so the cost of a day stays
  below the cap plus what runs concurrently. `CallsAreBounded`: windows are ordered by age (`AgesInv`), so forgetting the
  expired ones drops a front part, and the calls of a window exceed the limit by less than what runs concurrently.
- `AgentsProofs` on proposals (`ProposalAssumption`). `NoStrangers`: what a pushed branch has beyond its own change is due to proposals that failed or crashed.
  `ProposalInv` follows the change from the tree over the index to the branch (`OwnChangeInv`), and says that between
  proposals the clone holds, and stands on, only what troubled proposals left (`CloneInv`), as does the branch it
  will return to (`OriginalInv`).
- `TopologyProofs` (`TopologyAssumption`). `GraphsMissOnlyNew`: an edge of a pushed graph that leads to a node not in it leads to an object created during
  the round. `RoundInv`: every object of the platform finds what it names (`Supplied`); of the kinds that edges lead to by name, whatever exists is
  listed or new once its call is over (`Complete`); so whatever an object listed later names is listed or new (`Grounded`). Three things carry it: an
  object's call comes after the calls for what its edges name (`AnchorsFirst`); a mock layer is whole in itself (`MocksAnchored`); an edge
  across layers joins only nodes that are there.
  `AnswersAgree`: an answer once given stays in the cache (`CacheInv`).

### Validators

- `ProbeProofs` (`ProbeAssumption`, `HttpProbeAssumption`; any number of conditions, passes, attempts, backends and forgeries).
  - `SatisfiedIsProven`: the script decides by the longest row of passing attempts of a condition, the maximum of a running count; the property is about the last attempts. `StreakIs` and
    `AchievedIs` say what that maximum is, `RowAtTheEnd` that in a condition that stops when it is satisfied the longest row is at its end, `PassingAttemptIs`
    what an accepted passing attempt shows. The path and aggregate reductions pass only if every condition does (`EveryConditionPasses`). The invariant is `TypeInv`: whatever was forged, and however often, a record
    is of the form the schema has, and its subject has the run's times or comes too late (`Dated`).
  - `HonestIsAccepted`: `HonestInv` describes the unfinished record as the decision will see it: every attempt is one it accepts, closed
    conditions have the state, rows and termination it computes and open ones may go on (`ConditionInv`); attempts are numbered and timed by their places and none follows a deadline (`OrderInv`); the attempt in
    progress follows them all (`AttemptInv`). The verifier looks at the last `Passes` attempts and the script at the maximum; `RowsAgree` and `EndingIs` have them agree on every open condition. That `Init` and every step establish it needs that an
    attempt is never longer than `AttemptTicks`, nor the run than its deadline, which is in the guard of `Tick`.
  - `ForgeryIsRejected`: one lemma for each forgery names the comparison that refuses it, given that the record was accepted before. Some take more than one: a cut condition still claims its passes
    (`NoRowBefore`), a condition that goes on breaks the stop rule, a record of a deadline must have nothing after it.
- `EvidenceProofs` (`ChainAssumption`, `ForgeryAssumption`). `AcceptedIsOneRun`, `CompleteIsAccepted`: accepted documents are of one run, in order and in time, and documents of every complete
  run are accepted. `ChainInv`: every document is of a run that has passed the phase that makes it; a run makes one attestation
  and one scope; documents of one run satisfy what the decision compares (`JoinInv`); equal objects are objects of one order.
  `ForgeriesAreRejected`: none of the self-tests' forgeries, made of the documents of any run, is accepted; `FormInv` has what each document of a
  party says before it is forged.
- `PlatformProofs` (`PathAssumption`). `PromotedTogether`: for every set of bundles, a work order runs only a path whose product, classes, profiles and Realms are in
  the path's own state. What is published passed the validation (`PublishedInv`), and an order keeps the path and tree it was admitted with (`OrderInv`).
  `NoAccessLeft`, `CleanUpRegisteredFirst`, `LifecycleKept` (the refinement of `AccessLifecycle`): no order that ended has access left, at whatever step it failed; the clean-up was
  registered before any object was made; each order keeps to the life cycle. `StepsInv`: the observer's steps an order has run are a
  front part of the chain, in any order of the workflow's other steps; `GrantsInv`: each object in the cluster belongs to an order that is
  between the two steps of the chain that make and remove it. These three have the premise `OnlyChainTouchesAccess`: only the chain's steps have the actions that
  create and revoke access. The validators do not check it (section 6, `access_under_another_id`); every bundle of `platform_paths` satisfies
  it, which TLC evaluates there as `EditsAssumption`.

Statements about the least place in a sequence, or about one of its prefixes, are proved by well-founded induction on a *set*
(`LeastNatural`: a nonempty set of naturals has a least member), which needs no operator as a parameter.

## 5. What is only model-checked

- Liveness, and whatever rests on ENABLED: out of the prover's reach. These are the properties about what comes in the end: a bad primary is abandoned
  and a good one gets the domain back, rows get stored, storms are investigated again, the breaker recovers, proposals are made, the store
  catches up, reports come, orders end.

## 6. Where code and documentation disagree

`fresh_never_fails_over` has TLC's counterexample: without a state file each load makes a new default record whose transition time is the
time of that load, and nothing saves it. The minimum time in state is never met: the controller stays in HEALTHY for ever
(`persistence.go:100`). As deployed (a read-only root file system, no volume), this is permanent.

`access_under_another_id` has that of the second: "Access compensation is registered before creation" (ADR-0057), but the validation binds the observer's
steps by id and lets a workflow have further steps with any action. A step that creates the access under another id needs
nothing of the chain, so an executor may run it before the clean-up is registered.

Seen while modelling, without a run of their own. Failover controller:

- the abort of a failover is itself blocked by the minimum time in state, so it is a retry (`statemachine.go:170`; `specs/SPEC-08-resilience-data.md:95`);
- a registrar error that was applied, or a repetition of an applied but unrecorded update that fails, leaves HEALTHY or DEGRADED with the domain on
  the secondary (`Orphaned`); so does a file lost in FAILED_OVER. No handler looks at the registrar, so a good primary does not get the domain back;
- one lost save after a failback leaves RECOVERING with the domain on the primary (`Stranded`); if the primary then degrades, the record
  waits for it in FAILED_OVER while the bad provider serves (`statemachine.go:330`);
- a blocked return to HEALTHY drops the reset of the counter, so the degraded checks need not be consecutive (`statemachine.go:140`); a primary that degrades within the
  minimum time of RECOVERING does not abort the recovery (`statemachine.go:277`);
- an unknown state in the file has no valid transition, so its reset to HEALTHY is blocked for ever; a failover repeats
  `UpdateNameservers` each tick until the minimum time has passed; the daily count is keyed by `YearDay()`, which returns a year later.

AI SRE:

- a failed insert loses its rows: the log call of the handler raises before "Put rows back so we don't lose them" (`analytics/client.py:186`), and ends the
  flush task. The same kind of call is in `rate_limiter.py:125`, `secret_scanner.py:59`, `audit.py:67`, `cost_tracker.py:104`, `feedback.py:77`;
- HALF_OPEN does not allow "one test request" (`rate_limiter.py:65`) but all of them;
- two alerts of one group that arrive during an enrichment are both investigated (`ingestion/api.py:156`);
- a failed commit leaves a staged change that the next proposal commits; the retry of the first then finds nothing to replace;
- every cluster is collected with the same credentials (`collector.py:122`); the read of a persistent volume is never awaited (`:325`); mock layers
  are pushed as real ones (`:363`); every agent builds its correlator without a URL (`incident/agent.py:102` and others), so that it never has a context.

Validators:

- "A rollout or backend restart during the short run invalidates the run" (`ADR-0058:73`), but only a change within an
  attempt does (`http_probe_contract_validation.py:986`);
- the steps before the observer's are checked by id, not by needs, so their order in an accepted workflow is the author's (`PlatformPath` shows
  that the observer's access keeps its order all the same); a compensation may be triggered by any nonempty subset of the failures;
- a reclaim decision may be older than the observation (`validate-platform-contracts.py:1833`).

## 7. What could come next

1. Two controllers during a rolling update, once the deployment says which state file they see.
2. Approvals and runbook sessions, once something in the repository registers approvals.
3. The health score as a function of a window of rows, composed with dns-monitor.

## 8. Not modelled

- HTTP, JSON, SQL, metrics, logging and the wording of messages, except log calls that raise.
- Health store, dns-monitor, dns-sync, dns-admin: they keep no state beyond rows; whatever they do to a score is covered by scores being arbitrary.
- Slack approvals and runbook sessions: nothing registers an approval or starts a session in this repository, so a model would invent the callers.
- Language models, incident, cost, scaling and GPU reports, memory stores, MCP servers: single calls and text, without state between them.
- The allow list, the secret scanner and the audit log of the guardrails: they transform text.
- Declarative infrastructure: its transitions belong to Terraform, Argo CD, Kargo and Kubernetes.
- Operations scripts, lambdas, DAGs, sample services, agent and diagram validators: sequential or stateless.
