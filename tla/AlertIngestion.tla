--------------------------- MODULE AlertIngestion ---------------------------
(***************************************************************************)
(* The alert ingestion service of the AI SRE (ai-sre/ingestion/).          *)
(* Alertmanager posts webhooks, each with a list of alerts.  A webhook is  *)
(* rate limited; its alerts are handled one after the other: deduplicated  *)
(* by group (alert name, cluster and namespace), enriched by calls to the  *)
(* metrics database and ClickHouse, routed, and their group is marked.     *)
(*                                                                         *)
(* Everything runs in one event loop and waits only for the enrichment,    *)
(* so the handlers of several webhooks interleave there.  (A step here may *)
(* also end between two alerts of a webhook, which adds interleavings.)    *)
(*                                                                         *)
(* Time passes in ticks; the age of a timestamp stops growing where the    *)
(* code no longer tells ages apart.                                        *)
(***************************************************************************)
EXTENDS Integers, Sequences, FiniteSets, FiniteSetsExt

CONSTANTS
    Requests,     \* webhook requests that can be in progress at a time
    Groups,       \* dedup groups the alerts belong to
    MaxAlerts,    \* bound: alerts in one webhook
    RateLimit,    \* RATE_LIMIT_PER_MINUTE
    Minute,       \* 60 seconds, in ticks
    Window,       \* DEDUP_WINDOW_SECONDS
    CleanupEvery, \* 100 in should_investigate
    NoGroup       \* no entry in the deduplicator

VARIABLES
    groups,     \* the deduplicator's entry of each group
    checks,     \* _cleanup_counter, modulo CleanupEvery
    accepted,   \* _request_timestamps: how many have each age
    rest,       \* alerts a request has still to handle, by their groups
    phase,      \* "idle", "handling" or "enriching", by request
    sinceRouted \* history: ticks since an alert of the group was routed,
                \* up to Window + 1

vars == <<groups, checks, accepted, rest, phase, sinceRouted>>

\* AlertGroup: the ages of first_seen and last_seen.  Its count is a statistic.
Group == [first : 0 .. Window + 1, last : 0 .. 2 * Window + 1,
          investigated : BOOLEAN]

ASSUME IngestionAssumption ==
    /\ {MaxAlerts, RateLimit, Minute, Window} \subseteq Nat
    /\ CleanupEvery \in Nat \ {0}
    /\ NoGroup \notin Group

NewGroup == [first |-> 0, last |-> 0, investigated |-> FALSE]

Older(age, limit) == IF age < limit THEN age + 1 ELSE age

-----------------------------------------------------------------------------

Recent == MapThenSumSet(LAMBDA age : accepted[age], DOMAIN accepted)

\* check_rate_limit
WithinRate == Recent < RateLimit

\* A webhook beyond the limit gets 429, and Alertmanager sends it again.
Receive(q) ==
    /\ phase[q] = "idle"
    /\ WithinRate
    /\ accepted' = [accepted EXCEPT ![0] = @ + 1]
    /\ \E n \in 1 .. MaxAlerts : \E alerts \in [1 .. n -> Groups] :
          rest' = [rest EXCEPT ![q] = alerts]
    /\ phase' = [phase EXCEPT ![q] = "handling"]
    /\ UNCHANGED <<groups, checks, sinceRouted>>

Handling(q) == phase[q] = "handling" /\ rest[q] # <<>>

\* _cleanup_expired, on every CleanupEvery-th check.
Cleaned ==
    [g \in Groups |->
        IF /\ checks + 1 = CleanupEvery
           /\ groups[g] # NoGroup
           /\ groups[g].last > 2 * Window
        THEN NoGroup ELSE groups[g]]

\* Variant of Expired that lets every alert of a storm extend the window.
ExpiredSliding(group) == group.last > Window

Expired(group) == group.first > Window

\* should_investigate: what it finds of the group of the next alert of q.
Found(q) ==
    LET group == Cleaned[Head(rest[q])]
    IN CASE group = NoGroup    -> "new"
         [] group # NoGroup /\ Expired(group) -> "new"
         [] group # NoGroup /\ ~Expired(group) ->
               IF group.investigated THEN "duplicate" ELSE "unmarked"

\* ... and what it leaves there.
Check(q, entry(_)) ==
    /\ groups' = [Cleaned EXCEPT ![Head(rest[q])] = entry(@)]
    /\ checks' = (checks + 1) % CleanupEvery
    /\ UNCHANGED <<accepted, sinceRouted>>

Enrich(q) == phase' = [phase EXCEPT ![q] = "enriching"] /\ UNCHANGED rest

Seen(group) == [group EXCEPT !.last = 0]

\* Variant of BeginGroup that keeps the mark of the expired entry.
BeginGroupMarked(q) ==
    /\ Handling(q) /\ Found(q) = "new"
    /\ Check(q, LAMBDA group : IF group = NoGroup THEN NewGroup
                               ELSE [NewGroup EXCEPT !.investigated =
                                        group.investigated])
    /\ Enrich(q)

\* A new group, or one whose window has expired and is replaced.
BeginGroup(q) ==
    /\ Handling(q) /\ Found(q) = "new"
    /\ Check(q, LAMBDA group : NewGroup)
    /\ Enrich(q)

\* An alert of a group that is not marked yet is investigated as well.
JoinUnmarked(q) ==
    /\ Handling(q) /\ Found(q) = "unmarked"
    /\ Check(q, Seen)
    /\ Enrich(q)

Deduplicate(q) ==
    /\ Handling(q) /\ Found(q) = "duplicate"
    /\ Check(q, Seen)
    /\ rest' = [rest EXCEPT ![q] = Tail(@)]
    /\ UNCHANGED phase

\* The enrichment returned, whatever failed in it.  mark_investigated marks
\* the entry that the group has by now, if it has one.
Route(q) ==
    /\ phase[q] = "enriching"
    /\ LET g == Head(rest[q])
       IN /\ groups' = IF groups[g] = NoGroup THEN groups
                       ELSE [groups EXCEPT ![g].investigated = TRUE]
          /\ sinceRouted' = [sinceRouted EXCEPT ![g] = 0]
    /\ rest' = [rest EXCEPT ![q] = Tail(@)]
    /\ phase' = [phase EXCEPT ![q] = "handling"]
    /\ UNCHANGED <<checks, accepted>>

\* Variant of Respond that answers before the alerts are handled.
RespondEarly(q) ==
    /\ phase[q] = "handling"
    /\ phase' = [phase EXCEPT ![q] = "idle"]
    /\ UNCHANGED <<groups, checks, accepted, rest, sinceRouted>>

Respond(q) ==
    /\ phase[q] = "handling" /\ rest[q] = <<>>
    /\ phase' = [phase EXCEPT ![q] = "idle"]
    /\ UNCHANGED <<groups, checks, accepted, rest, sinceRouted>>

Tick ==
    /\ groups' = [g \in Groups |->
                    IF groups[g] = NoGroup THEN NoGroup
                    ELSE [groups[g] EXCEPT !.first = Older(@, Window + 1),
                                           !.last = Older(@, 2 * Window + 1)]]
    /\ accepted' = [age \in DOMAIN accepted |->
                      IF age = 0 THEN 0 ELSE accepted[age - 1]]
    /\ sinceRouted' = [g \in Groups |-> Older(sinceRouted[g], Window + 1)]
    /\ UNCHANGED <<checks, rest, phase>>

Init ==
    /\ groups = [g \in Groups |-> NoGroup]
    /\ checks = 0
    /\ accepted = [age \in 0 .. Minute |-> 0]
    /\ rest = [q \in Requests |-> <<>>]
    /\ phase = [q \in Requests |-> "idle"]
    /\ sinceRouted = [g \in Groups |-> Window + 1]

\* The handler of q goes on.
Handle(q) ==
    BeginGroup(q) \/ JoinUnmarked(q) \/ Deduplicate(q) \/ Route(q) \/ Respond(q)

Next == Tick \/ \E q \in Requests : Receive(q) \/ Handle(q)

\* Time passes, and every handler goes on: an enrichment has timeouts.
Fairness == WF_vars(Tick) /\ \A q \in Requests : WF_vars(Handle(q))

Spec == Init /\ [][Next]_vars /\ Fairness

-----------------------------------------------------------------------------

\* Every variable stays within its type, and a request enriches an alert only
\* while it has one.
TypeOK ==
    /\ groups \in [Groups -> Group \cup {NoGroup}]
    /\ checks \in 0 .. CleanupEvery - 1
    /\ accepted \in [0 .. Minute -> Nat]
    /\ phase \in [Requests -> {"idle", "handling", "enriching"}]
    /\ sinceRouted \in [Groups -> 0 .. Window + 1]
    /\ \A q \in Requests :
          /\ Len(rest[q]) <= MaxAlerts
          /\ phase[q] = "idle" => rest[q] = <<>>
          /\ phase[q] = "enriching" => rest[q] # <<>>

\* An alert is suppressed only if an alert of its group was routed at most a
\* window ago, although an alert of an expired window may mark the entry of the
\* next one.
SuppressedOnlyAfterRouting ==
    [][\A q \in Requests :
          Deduplicate(q) => sinceRouted[Head(rest[q])] <= Window]_vars

\* An entry is marked only if an alert of the group was routed since it began.
MarkedMeansRouted ==
    \A g \in Groups : groups[g] # NoGroup =>
        (groups[g].investigated => sinceRouted[g] <= groups[g].first)

\* A group whose alerts keep coming is investigated again and again: no storm
\* extends its own suppression for ever.
StormsInvestigatedAgain ==
    \A g \in Groups :
        ([]<>\E q \in Requests : Handling(q) /\ Head(rest[q]) = g)
            => []<>(sinceRouted[g] = 0)

=============================================================================
