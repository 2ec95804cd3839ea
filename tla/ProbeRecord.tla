---------------------------- MODULE ProbeRecord ----------------------------
(***************************************************************************)
(* HTTP completion evidence of the platform contracts                      *)
(* (scripts/http_probe_contract_validation.py): which signed records of a  *)
(* verification run the script accepts (_validate_semantics).              *)
(*                                                                         *)
(* A record lists the conditions of a run, each with its attempts; an      *)
(* attempt has a snapshot of the target before and after it and the        *)
(* results of the target's backends.                                       *)
(*                                                                         *)
(* Digests stand for what they digest.  An instant is a number of ticks.   *)
(***************************************************************************)
EXTENDS Integers, Sequences, FiniteSets, SequencesExt, FiniteSetsExt

CONSTANTS
    Contracts,    \* how many acceptance conditions follow health and readiness
    Passes,       \* 3 consecutive passing attempts satisfy a condition
    MaxAttempts,  \* 5 attempts in a condition
    MaxBackends,  \* 3 backends at most
    Delay,        \* PT1S between attempts, in ticks
    AttemptTicks, \* PT30S for an attempt
    RunLimit,     \* PT4M for a run
    Fresh,        \* PT5M from the delivery observation to the subject
    None          \* no error, no pod, no attempt

\* The words of a record.
Words ==
    {"pass", "fail", "inconclusive", "probe-error",
     "condition-satisfied", "attempts-exhausted", "run-deadline",
     "invalid", "empty", "excess", "mixed-image", "target-drift", "timeout",
     "delivered", "foreign", "health", "readiness", "contract",
     "order", "run", "pinned", "trusted", "other",
     "verifier", "direct", "worker"}

\* The schema of the subject asks for an acceptance condition; the profile's
\* delay, deadline and limits are not zero.
ASSUME ProbeAssumption ==
    /\ {Contracts, Passes, MaxAttempts, MaxBackends, Delay, AttemptTicks,
        RunLimit} \subseteq Nat \ {0}
    /\ Fresh \in Nat
    /\ Passes <= MaxAttempts
    /\ None \notin Words /\ None \notin Nat

\* Paths of the conditions, in their order.
Descriptors ==
    <<"health", "readiness">> \o [i \in 1 .. Contracts |-> "contract"]

PathConditions == <<"health", "readiness", "contract">>

Subject ==
    [order |-> "order", run |-> "run", profile |-> "pinned",
     commit |-> "trusted", observed |-> 0, issued |-> Fresh,
     deadline |-> Fresh + RunLimit, expiry |-> Fresh + RunLimit + 2]

-----------------------------------------------------------------------------
(* The target.                                                             *)

\* A backend: its pod, whether its identity, owners and readiness are those
\* of the delivery, and its image by digest and by runtime id.
Backend(pod) ==
    [pod |-> pod, bound |-> TRUE, image |-> "delivered", imageId |-> "delivered"]

\* A snapshot: whether namespace, service and network policies are those of
\* the subject, whether count and digests are true, and the backends.
Snapshot(backends) == [joined |-> TRUE, digested |-> TRUE, backends |-> backends]

Situation(name) ==
    CASE name = "stable" -> Snapshot(<<Backend(1)>>)
      [] name = "restarted" -> Snapshot(<<Backend(2)>>)
      [] name = "scaled" -> Snapshot(<<Backend(1), Backend(2)>>)
      [] name = "empty" -> Snapshot(<<>>)
      [] name = "excess" -> Snapshot([i \in 1 .. MaxBackends + 1 |-> Backend(i)])
      [] name = "mixed" ->
            Snapshot(<<[Backend(1) EXCEPT !.image = "foreign",
                                          !.imageId = "foreign"]>>)
      [] name = "drifted" -> [Snapshot(<<Backend(1)>>) EXCEPT !.joined = FALSE]
      [] name = "unready" -> Snapshot(<<[Backend(1) EXCEPT !.bound = FALSE]>>)
      [] name = "external" ->
            Snapshot(<<[pod |-> None, bound |-> FALSE, image |-> None,
                        imageId |-> None]>>)

Pods(snapshot) == [i \in DOMAIN snapshot.backends |-> snapshot.backends[i].pod]

\* Variant of BackendError that looks at the image alone.
BackendErrorByImage(backend) ==
    CASE backend.imageId # backend.image -> "invalid"
      [] backend.imageId = backend.image ->
            IF backend.image = "delivered" THEN None ELSE "mixed-image"

BackendError(backend) ==
    CASE backend.image = None \/ backend.imageId # backend.image -> "invalid"
      [] backend.image # None /\ backend.imageId = backend.image ->
            IF backend.image # "delivered" THEN "mixed-image"
            ELSE IF backend.bound THEN None ELSE "invalid"

OrderError(snapshot) ==
    LET pods == Pods(snapshot)
    IN IF /\ \A i \in DOMAIN pods : pods[i] # None
          /\ \A i \in DOMAIN pods : i > 1 => pods[i - 1] < pods[i]
       THEN None ELSE "invalid"

SizeError(snapshot) ==
    CASE Len(snapshot.backends) = 0 -> "empty"
      [] Len(snapshot.backends) > MaxBackends -> "excess"
      [] OTHER -> None

\* _validate_target: the error found last is the error reported.
TargetError(snapshot) ==
    LET found == <<IF snapshot.joined THEN None ELSE "invalid",
                   SizeError(snapshot), OrderError(snapshot)>>
                 \o [i \in DOMAIN snapshot.backends |->
                        BackendError(snapshot.backends[i])]
        errors == {i \in DOMAIN found : found[i] # None}
    IN IF errors = {} THEN None ELSE found[Max(errors)]

-----------------------------------------------------------------------------
(* The decision.                                                           *)

StatePrecedence == <<"probe-error", "fail", "inconclusive", "pass">>

\* _state_from
StateFrom(states) ==
    IF states = {} THEN "inconclusive"
    ELSE StatePrecedence[Min({i \in 1 .. 4 : StatePrecedence[i] \in states})]

\* _backend_state.  A response is a status of 200, a body within the limit and
\* the expected media type and content; the oracle is what the record says the
\* comparison saw.
BackendState(result) ==
    CASE result.error = "run-deadline" -> "inconclusive"
      [] result.error \notin {"run-deadline", None} -> "probe-error"
      [] result.error = None ->
            IF result.response /\ result.oracle THEN "pass" ELSE "fail"

\* Variant of AttemptError that looks for drift last.
AttemptErrorFirst(attempt) ==
    LET before == TargetError(attempt.pre)
    IN IF before # None THEN before
       ELSE IF attempt.pre # attempt.post THEN "target-drift" ELSE None

\* The error of an attempt: a target that changed meanwhile, or was not valid.
AttemptError(attempt) ==
    LET before == TargetError(attempt.pre)
    IN IF attempt.pre # attempt.post THEN "target-drift"
       ELSE IF before # None THEN before ELSE TargetError(attempt.post)

BatchState(attempt) ==
    IF AttemptError(attempt) # None THEN "probe-error"
    ELSE StateFrom({BackendState(result) : result \in ToSet(attempt.results)})

TimeOk(attempt, subject) ==
    /\ attempt.duration = attempt.completed - attempt.started
    /\ subject.issued <= attempt.started /\ attempt.started < attempt.completed
    /\ attempt.completed <= subject.deadline
    /\ attempt.duration <= AttemptTicks

\* Variant of ResultsOk that takes the word of the record for each backend.
ResultsOkClaimed(attempt) ==
    IF AttemptError(attempt) # None THEN attempt.results = <<>>
    ELSE [i \in DOMAIN attempt.results |-> attempt.results[i].pod]
            = Pods(attempt.pre)

\* An invalid target is not probed; of a valid one every backend answers.
ResultsOk(attempt) ==
    IF AttemptError(attempt) # None THEN attempt.results = <<>>
    ELSE /\ [i \in DOMAIN attempt.results |-> attempt.results[i].pod]
               = Pods(attempt.pre)
         /\ \A result \in ToSet(attempt.results) :
               ~result.late /\ result.state = BackendState(result)

AttemptOk(attempt, subject) ==
    /\ attempt.pre.digested /\ attempt.post.digested
    /\ TimeOk(attempt, subject)
    /\ attempt.code = AttemptError(attempt)
    /\ ResultsOk(attempt)
    /\ attempt.state = BatchState(attempt)

\* Passing attempts in a row up to an attempt: one that is no pass begins anew.
Streak(attempts, i) ==
    i - Max({0} \cup {k \in 1 .. i : BatchState(attempts[k]) # "pass"})

Achieved(attempts) ==
    Max({LET streak == Streak(attempts, i)
         IN IF streak < Passes THEN streak ELSE Passes : i \in 0 .. Len(attempts)})

FinalState(attempts) ==
    IF Achieved(attempts) = Passes THEN "pass"
    ELSE StateFrom({BatchState(a) : a \in ToSet(attempts)} \ {"pass"})

Termination(attempts) ==
    LET state == FinalState(attempts)
    IN CASE state = "pass" -> "condition-satisfied"
         [] state = "probe-error" -> "probe-error"
         [] state \notin {"pass", "probe-error"} ->
               IF Len(attempts) = MaxAttempts THEN "attempts-exhausted"
               ELSE "run-deadline"

\* A condition stops when it is satisfied, and at a probe error.
StopsOk(attempts) ==
    \A i \in 1 .. Len(attempts) - 1 :
       /\ Streak(attempts, i) < Passes
       /\ BatchState(attempts[i]) # "probe-error"

ConditionOk(condition, subject) ==
    LET attempts == condition.attempts
    IN /\ \A i \in DOMAIN attempts :
             /\ attempts[i].ordinal = i
             /\ AttemptOk(attempts[i], subject)
       /\ \A i \in DOMAIN attempts : i > 1 =>
             attempts[i].started >= attempts[i - 1].completed + Delay
       /\ StopsOk(attempts)
       /\ condition.state = FinalState(attempts)
       /\ condition.achieved = Achieved(attempts)
       /\ condition.termination = Termination(attempts)

\* Where a record has attempts, and which of two come first.
Places(rec) ==
    UNION {{c} \X DOMAIN rec.conditions[c].attempts : c \in DOMAIN rec.conditions}

AttemptAt(rec, p) == rec.conditions[p[1]].attempts[p[2]]

Precedes(p, q) == p[1] < q[1] \/ (p[1] = q[1] /\ p[2] < q[2])

\* Attempts have identities of their own and follow one another, and none
\* follows a condition that the deadline ended.
RunOk(rec) ==
    /\ \A p, q \in Places(rec) :
          /\ AttemptAt(rec, p).id = AttemptAt(rec, q).id => p = q
          /\ Precedes(p, q) =>
                AttemptAt(rec, q).started >= AttemptAt(rec, p).completed
    /\ \A i, j \in DOMAIN rec.conditions :
          (i < j /\ Termination(rec.conditions[i].attempts) = "run-deadline")
             => rec.conditions[j].attempts = <<>>

PathState(rec, path) ==
    StateFrom({FinalState(rec.conditions[i].attempts) :
                 i \in {k \in DOMAIN Descriptors : Descriptors[k] = path}})

Aggregate(rec) == StateFrom({PathState(rec, path) : path \in ToSet(PathConditions)})

ReductionsOk(rec) ==
    LET aggregate == Aggregate(rec)
    IN /\ rec.paths = [i \in DOMAIN PathConditions |-> PathState(rec, PathConditions[i])]
       /\ rec.aggregate = aggregate
       /\ rec.satisfied = (aggregate = "pass")

Probed(rec) ==
    {c \in DOMAIN rec.conditions : rec.conditions[c].attempts # <<>>}

FirstAttempt(rec) == Head(rec.conditions[Min(Probed(rec))].attempts)
LastAttempt(rec) == Last(rec.conditions[Max(Probed(rec))].attempts)

EndsByDeadline(rec) ==
    \/ Probed(rec) = {}
    \/ \E i \in DOMAIN rec.conditions :
          Termination(rec.conditions[i].attempts) = "run-deadline"

TimesOk(rec) ==
    LET subject == rec.subject
    IN /\ rec.started = IF Probed(rec) = {} THEN subject.issued
                        ELSE FirstAttempt(rec).started
       /\ rec.completed = IF EndsByDeadline(rec) THEN subject.deadline
                          ELSE LastAttempt(rec).completed
       /\ subject.issued <= rec.started /\ rec.started < rec.completed
       /\ rec.completed <= subject.deadline
       /\ subject.deadline < rec.expires /\ rec.expires <= subject.expiry

\* The subject joins the trusted envelope, delivery, cluster and target.
SubjectOk(subject) ==
    /\ subject.profile = "pinned" /\ subject.commit = "trusted"
    /\ subject.order = "order"
    /\ subject.observed <= subject.issued
    /\ subject.issued <= subject.observed + Fresh
    /\ subject.issued < subject.deadline
    /\ subject.deadline <= subject.issued + RunLimit
    /\ subject.deadline <= subject.expiry

BindingOk(rec) ==
    /\ rec.order = rec.subject.order /\ rec.run = rec.subject.run
    /\ rec.signer = "verifier"

\* _validate_semantics
Accepts(rec) ==
    /\ SubjectOk(rec.subject)
    /\ BindingOk(rec)
    /\ [i \in DOMAIN rec.conditions |-> rec.conditions[i].id]
          = [i \in DOMAIN Descriptors |-> i]
    /\ \A i \in DOMAIN rec.conditions : ConditionOk(rec.conditions[i], rec.subject)
    /\ RunOk(rec)
    /\ ReductionsOk(rec)
    /\ TimesOk(rec)

-----------------------------------------------------------------------------
(* The receipt of the evidence store.                                      *)

\* The evidence digest leaves the signature out, the checksum takes all of it.
Evidence(rec) == [rec EXCEPT !.signer = None]

\* _validate_commit_receipt
ReceiptOk(receipt, rec) ==
    /\ receipt.order = rec.order /\ receipt.run = rec.run
    /\ receipt.object = <<rec.order, rec.run>>
    /\ receipt.evidence = Evidence(rec) /\ receipt.checksum = rec
    /\ receipt.digested
    /\ rec.completed <= receipt.committed /\ receipt.committed <= rec.expires

=============================================================================
