----------------------------- MODULE HttpProbe -----------------------------
(***************************************************************************)
(* A verifier probes the backends of a delivered service and signs a       *)
(* record of what it saw; the record is then accepted or not (ProbeRecord). *)
(*                                                                         *)
(* The verifier is not in this repository: here an honest one works as     *)
(* the probe profile (platform-contracts/probe-profiles/) says, while time *)
(* passes and the target changes.  The forgeries are those with which      *)
(* scripts/http_probe_contract_validation.py tries its decision; they are  *)
(* made of every honest record rather than of the script's one example,    *)
(* and combined.                                                           *)
(***************************************************************************)
EXTENDS ProbeRecord

CONSTANTS
    Situations,  \* what may become of the target, see Situation
    MaxForgeries \* bound: forgeries made of one record

Names == {"stable", "restarted", "scaled", "empty", "excess", "mixed", "drifted",
          "unready", "external"}

ASSUME HttpProbeAssumption == Situations \subseteq Names /\ MaxForgeries \in Nat

VARIABLES
    clock,     \* ticks
    target,    \* the service's target as the cluster has it
    attempt,   \* the attempt in progress: its start and first snapshot
    record,    \* the record: its conditions while the run goes on
    forgeries  \* how often the record was forged; None before it is signed

vars == <<clock, target, attempt, record, forgeries>>

-----------------------------------------------------------------------------
(* The honest verifier, as the probe profile has it.                       *)

\* The state that comes first in the profile's batchPrecedence.
Worst(states) ==
    CHOOSE state \in states :
       \/ state = "probe-error"
       \/ state = "fail" /\ "probe-error" \notin states
       \/ state = "inconclusive" /\ states \subseteq {"inconclusive", "pass"}
       \/ states = {"pass"}

Answer(pod, state) ==
    [pod |-> pod, state |-> state, late |-> FALSE,
     error |-> CASE state = "probe-error" -> "timeout"
                 [] state = "inconclusive" -> "run-deadline"
                 [] OTHER -> None,
     response |-> state = "pass", oracle |-> state = "pass"]

\* The assertion or the transport may fail; the run may end meanwhile.
PossibleAnswers ==
    IF clock = Subject.deadline THEN {"pass", "inconclusive"}
    ELSE {"pass", "fail", "probe-error"}

Current == Last(record.conditions)

Probing == forgeries = None /\ Current.termination = None

MayStart ==
    /\ Probing /\ attempt = None
    /\ clock < Subject.deadline
    /\ IF Current.attempts = <<>> THEN TRUE
       ELSE clock >= Last(Current.attempts).completed + Delay

StartAttempt ==
    /\ MayStart
    /\ attempt' = [started |-> clock, pre |-> target]
    /\ UNCHANGED <<clock, target, record, forgeries>>

\* The profile ends a condition after so many passes or attempts and at a
\* probe error; nothing else but the deadline does.
Ending(attempts) ==
    CASE /\ Len(attempts) >= Passes
         /\ \A i \in 0 .. Passes - 1 : attempts[Len(attempts) - i].state = "pass"
            -> "condition-satisfied"
      [] attempts # <<>> /\ Last(attempts).state = "probe-error" -> "probe-error"
      [] OTHER -> IF Len(attempts) = MaxAttempts THEN "attempts-exhausted"
                  ELSE IF clock = Subject.deadline THEN "run-deadline" ELSE None

Conclusion(attempts) ==
    [Current EXCEPT
       !.attempts = attempts,
       !.termination = Ending(attempts),
       !.state =
          IF Ending(attempts) = "condition-satisfied" THEN "pass"
          ELSE LET others == {a.state : a \in ToSet(attempts)} \ {"pass"}
               IN IF others = {} THEN "inconclusive" ELSE Worst(others),
       !.achieved = Max({0} \cup {n \in 1 .. Passes :
                       \E k \in 0 .. Len(attempts) - n :
                          \A i \in 1 .. n : attempts[k + i].state = "pass"})]

Concluded(attempts) ==
    [record EXCEPT !.conditions[Len(record.conditions)] = Conclusion(attempts)]

\* The attempts of a run are numbered.
Number == IF Probed(record) = {} THEN 1 ELSE LastAttempt(record).id + 1

\* The error with which the verifier ends an attempt: seven outcomes.
Outcome == IF attempt.pre # target THEN "target-drift" ELSE TargetError(target)

Ended(results, state) ==
    [id |-> Number, ordinal |-> Len(Current.attempts) + 1,
     started |-> attempt.started, completed |-> clock,
     duration |-> clock - attempt.started, pre |-> attempt.pre, post |-> target,
     code |-> Outcome, results |-> results, state |-> state]

\* Backends of an invalid target are not probed.
Unprobed == {Ended(<<>>, "probe-error")}

Answered ==
    {Ended([i \in DOMAIN states |-> Answer(Pods(target)[i], states[i])],
           Worst(Range(states))) :
       states \in [DOMAIN target.backends -> PossibleAnswers]}

FinishAttempt ==
    /\ attempt # None /\ clock > attempt.started
    /\ \E ended \in IF Outcome = None THEN Answered ELSE Unprobed :
          record' = Concluded(Append(Current.attempts, ended))
    /\ attempt' = None
    /\ UNCHANGED <<clock, target, forgeries>>

\* The deadline passes between two attempts.
RunOut ==
    /\ Probing /\ attempt = None
    /\ clock = Subject.deadline
    /\ record' = Concluded(Current.attempts)
    /\ UNCHANGED <<clock, target, attempt, forgeries>>

NewCondition(i) ==
    [id |-> i, path |-> Descriptors[i], attempts |-> <<>>, termination |-> None,
     state |-> None, achieved |-> 0]

NextCondition ==
    /\ forgeries = None /\ Current.termination # None
    /\ Len(record.conditions) < Len(Descriptors)
    /\ record' = [record EXCEPT !.conditions =
                    Append(@, NewCondition(Len(@) + 1))]
    /\ UNCHANGED <<clock, target, attempt, forgeries>>

\* The record is reduced by path, timed and signed.
Sign ==
    /\ forgeries = None /\ Current.termination # None
    /\ Len(record.conditions) = Len(Descriptors)
    /\ LET conditions == record.conditions
           paths == [i \in DOMAIN PathConditions |->
                       Worst({c.state : c \in {d \in ToSet(conditions) :
                                                 d.path = PathConditions[i]}})]
       IN record' =
            [conditions |-> conditions, subject |-> Subject,
             order |-> Subject.order, run |-> Subject.run, signer |-> "verifier",
             paths |-> paths, aggregate |-> Worst(ToSet(paths)),
             satisfied |-> ToSet(paths) = {"pass"},
             started |-> IF Probed(record) = {} THEN Subject.issued
                         ELSE FirstAttempt(record).started,
             completed |-> IF \/ Probed(record) = {}
                              \/ \E c \in ToSet(conditions) :
                                    c.termination = "run-deadline"
                           THEN Subject.deadline ELSE LastAttempt(record).completed,
             expires |-> Subject.deadline + 1]
    /\ forgeries' = 0
    /\ UNCHANGED <<clock, target, attempt>>

\* The verifier starts an attempt as soon as it may; attempts differ in length,
\* and the target may be another at every instant.
Tick ==
    /\ forgeries = None /\ clock < Subject.deadline
    /\ ~MayStart
    /\ attempt # None => clock < attempt.started + AttemptTicks
    /\ clock' = clock + 1
    /\ target' \in {Situation(name) : name \in Situations}
    /\ UNCHANGED <<attempt, record, forgeries>>

-----------------------------------------------------------------------------
(* The forgeries.                                                          *)

\* ... of an attempt's snapshots: the network policies, the owners, the
\* runtime image, the service, the endpoint slices and the image digest.
ForgedSnapshots(a) ==
    {[a EXCEPT !.pre.joined = FALSE],
     [a EXCEPT !.pre.backends[1].bound = FALSE],
     [a EXCEPT !.pre.backends[1].bound = FALSE, !.post.backends[1].bound = FALSE],
     [a EXCEPT !.pre.backends[1].imageId = "invalid",
               !.post.backends[1].imageId = "invalid"],
     [a EXCEPT !.post.joined = FALSE],
     [a EXCEPT !.post.digested = FALSE],
     [a EXCEPT !.pre.backends[1].image = "foreign", !.pre.digested = FALSE]}

\* ... of its results: none at all, a late one, and a failed response or a failed
\* comparison behind a pass.
ForgedResults(a) ==
    {[a EXCEPT !.results = <<>>],
     [a EXCEPT !.results[1].late = TRUE],
     [a EXCEPT !.results[1].response = FALSE],
     [a EXCEPT !.results[1].oracle = FALSE]}

Failed(a) == [a EXCEPT !.results[1].response = FALSE, !.results[1].state = "fail",
                       !.state = "fail"]

PassingAttempts(rec) ==
    {p \in Places(rec) :
       AttemptAt(rec, p).state = "pass" /\ AttemptAt(rec, p).results # <<>>}

\* The record with another condition, or with another attempt at a place.
Rewritten(rec, c, condition) == [rec EXCEPT !.conditions[c] = condition]

Replaced(rec, p, a) == [rec EXCEPT !.conditions[p[1]].attempts[p[2]] = a]

ForgedAttempts(rec) ==
    UNION {{Replaced(rec, p, a) : a \in ForgedSnapshots(AttemptAt(rec, p))
                                        \cup ForgedResults(AttemptAt(rec, p))} :
           p \in PassingAttempts(rec)}

\* ... an attempt identity used twice, and an attempt without the delay.
Reused(rec, p) == [AttemptAt(rec, p) EXCEPT !.id = FirstAttempt(rec).id]

Hurried(rec, p) ==
    LET a == AttemptAt(rec, p)
        before == AttemptAt(rec, <<p[1], p[2] - 1>>).completed
    IN [a EXCEPT !.started = before, !.completed = before + a.duration]

ForgedOrder(rec) ==
    {Replaced(rec, p, Reused(rec, p)) : p \in PassingAttempts(rec) \ {<<1, 1>>}}
    \cup
    {Replaced(rec, p, Hurried(rec, p)) : p \in {q \in PassingAttempts(rec) : q[2] > 1}}

Satisfied(rec) ==
    {c \in Probed(rec) : rec.conditions[c].termination = "condition-satisfied"}

\* ... a failed attempt in the streak of a satisfied condition, a satisfied
\* condition cut by an attempt, and one that goes on.
Interrupted(rec) ==
    {Replaced(rec, p, Failed(AttemptAt(rec, p))) :
       p \in {q \in PassingAttempts(rec) :
                /\ q[1] \in Satisfied(rec)
                /\ q[2] > Len(rec.conditions[q[1]].attempts) - Passes}}

Cut(condition) ==
    [condition EXCEPT !.attempts = Front(condition.attempts), !.achieved = Passes - 1]

Further(rec, last) ==
    [last EXCEPT !.id = LastAttempt(rec).id + 1, !.ordinal = last.ordinal + 1,
                 !.started = last.completed + Delay,
                 !.completed = last.completed + Delay + 1, !.duration = 1,
                 !.pre = Situation("empty"), !.post = Situation("empty"),
                 !.code = "empty", !.results = <<>>, !.state = "probe-error"]

Continued(condition, further) ==
    [condition EXCEPT !.attempts = Append(condition.attempts, further)]

Prolonged(rec, c) ==
    LET further == Further(rec, Last(rec.conditions[c].attempts))
    IN [Rewritten(rec, c, Continued(rec.conditions[c], further)) EXCEPT
          !.completed = further.completed]

ForgedConditions(rec) ==
    Interrupted(rec)
    \cup {Rewritten(rec, c, Cut(rec.conditions[c])) : c \in Satisfied(rec)}
    \cup {Prolonged(rec, c) : c \in Satisfied(rec)}

\* A condition that claims the deadline while others follow.
AtDeadline(condition) ==
    [condition EXCEPT !.attempts = <<Failed(Head(condition.attempts))>>,
                      !.achieved = 0, !.state = "fail", !.termination = "run-deadline"]

ForgedDeadline(rec) ==
    {[Rewritten(rec, 1, AtDeadline(rec.conditions[1])) EXCEPT
        !.paths[1] = "fail", !.aggregate = "fail", !.satisfied = FALSE,
        !.completed = rec.subject.deadline] :
       p \in {q \in PassingAttempts(rec) : q = <<1, 1>> /\ 2 \in Probed(rec)}}

\* The one probe error of a record relabelled a pass.
Relabelled(condition) ==
    [condition EXCEPT
       !.attempts[Len(condition.attempts)] =
          [Last(condition.attempts) EXCEPT !.code = None, !.state = "pass"],
       !.achieved = Passes, !.state = "pass", !.termination = "condition-satisfied"]

ForgedPass(rec) ==
    {[Rewritten(rec, c, Relabelled(rec.conditions[c])) EXCEPT
        !.paths = [i \in DOMAIN PathConditions |-> "pass"],
        !.aggregate = "pass", !.satisfied = TRUE] :
       c \in {d \in Probed(rec) :
                /\ rec.conditions[d].termination = "probe-error"
                /\ (DOMAIN rec.conditions) \ {d} \subseteq Satisfied(rec)}}

\* ... of the subject, the binding, the expiry and the order.
ForgedBinding(rec) ==
    {[rec EXCEPT !.run = "other"], [rec EXCEPT !.order = "other"],
     [rec EXCEPT !.subject.profile = "other"],
     [rec EXCEPT !.subject.commit = "other"],
     [rec EXCEPT !.subject.issued = rec.subject.observed + Fresh + 1,
                 !.subject.deadline = rec.subject.observed + Fresh + 1 + RunLimit],
     [rec EXCEPT !.expires = rec.completed],
     [rec EXCEPT !.conditions = <<rec.conditions[2], rec.conditions[1]>>
                                  \o SubSeq(rec.conditions, 3, Len(rec.conditions))]}

\* _redigest_result: a forged record is signed with the verifier's key ...
Resigned(rec) == [rec EXCEPT !.signer = "verifier"]

\* ... unless the signature is the forgery: invalid, over the record itself, or
\* with a worker's key.
ForgedSignatures(rec) ==
    {[rec EXCEPT !.signer = by] : by \in {"invalid", "direct", "worker"}}

Forgeries(rec) ==
    ForgedSignatures(rec)
    \cup {Resigned(forged) : forged \in ForgedAttempts(rec) \cup ForgedOrder(rec)
              \cup ForgedConditions(rec) \cup ForgedDeadline(rec)
              \cup ForgedPass(rec) \cup ForgedBinding(rec)}

\* A record forged once is forged again if it claims success.
Forge ==
    /\ forgeries # None /\ forgeries < MaxForgeries
    /\ IF forgeries = 0 THEN TRUE ELSE record.satisfied
    /\ record' \in Forgeries(record)
    /\ forgeries' = forgeries + 1
    /\ UNCHANGED <<clock, target, attempt>>

\* The receipt of an honest store, and the script's forgeries of it.
Receipt(rec, at) ==
    [order |-> rec.order, run |-> rec.run, object |-> <<rec.order, rec.run>>,
     evidence |-> Evidence(rec), checksum |-> rec, digested |-> TRUE,
     committed |-> at]

ForgedReceipts(receipt) ==
    {[receipt EXCEPT !.object = <<"other", receipt.run>>],
     [receipt EXCEPT !.evidence.run = "foreign"],
     [receipt EXCEPT !.checksum.run = "foreign"],
     [receipt EXCEPT !.digested = FALSE]}

Init ==
    /\ clock = Subject.issued
    /\ target = Situation("stable")
    /\ attempt = None
    /\ record = [conditions |-> <<NewCondition(1)>>]
    /\ forgeries = None

Next ==
    \/ StartAttempt \/ FinishAttempt \/ RunOut \/ NextCondition \/ Sign
    \/ Tick \/ Forge

Spec == Init /\ [][Next]_vars

-----------------------------------------------------------------------------

\* What an honest verifier signs is accepted, however the target changed and
\* wherever the deadline fell, and so is the store's receipt until it expires.
HonestAccepted ==
    forgeries = 0 =>
        /\ Accepts(record)
        /\ \A at \in record.completed .. record.expires :
              ReceiptOk(Receipt(record, at), record)

\* No single forgery of an honest record or receipt is accepted, whichever
\* attempt or condition it is made of: the script tries each on one example.
\* The receipt of a record is not one of its forgeries either.
ForgeryRejected ==
    /\ forgeries = 1 => ~Accepts(record)
    /\ forgeries = 0 =>
          LET receipt == Receipt(record, record.completed)
          IN /\ \A forged \in ForgedReceipts(receipt) : ~ReceiptOk(forged, record)
             /\ \A forged \in Forgeries(record) : ~ReceiptOk(receipt, forged)

Proven(condition) ==
    LET attempts == condition.attempts
        first == Len(attempts) - Passes + 1
    IN /\ first >= 1
       /\ \A i \in first .. Len(attempts) :
            /\ attempts[i].pre = attempts[i].post
            /\ attempts[i].pre.joined
            /\ Len(attempts[i].pre.backends) \in 1 .. MaxBackends
            /\ \A b \in ToSet(attempts[i].pre.backends) :
                  b = Backend(b.pod)
            /\ Subject.issued <= attempts[i].started
            /\ attempts[i].completed <= Subject.deadline
            /\ Len(attempts[i].results) = Len(attempts[i].pre.backends)
            /\ \A r \in ToSet(attempts[i].results) :
                  r.error = None /\ r.response /\ r.oracle
            /\ i > first => attempts[i].started >= attempts[i - 1].completed + Delay

\* A record accepted as satisfied, forged twice or not at all, shows for every
\* condition so many attempts in a row on a valid and unchanged target.
SatisfiedMeansProven ==
    (forgeries # None /\ record.satisfied /\ Accepts(record))
        => \A c \in ToSet(record.conditions) : Proven(c)

=============================================================================
