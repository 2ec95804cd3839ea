--------------------------- MODULE EvidenceChain ---------------------------
(***************************************************************************)
(* Evidence of a delivery observation (scripts/                            *)
(* validate-platform-contracts.py, validate_runtime_semantics).  A work    *)
(* order gets a read-only observer: its access is provisioned, attested    *)
(* with what it may do, bound to a signed scope and a short-lived          *)
(* credential, used for one observation, and removed.  Each of the four    *)
(* steps leaves a signed document; the script decides whether four         *)
(* documents belong together, and tries its decision on one example and on *)
(* forgeries of it.                                                        *)
(*                                                                         *)
(* The parties are not in this repository: they work as the delivery       *)
(* profile says, run after run and order after order, while runs fail at   *)
(* any step, leave objects behind and are tried again.  A document's digest *)
(* is its run.                                                             *)
(***************************************************************************)
EXTENDS Integers, Sequences, FiniteSets

CONSTANTS
    Orders,         \* work orders
    MaxRuns,        \* bound: runs of all orders together
    MaxClock,       \* bound: ticks
    MaxTouches,     \* bound: changes of an observer's objects by others
    AttestAge,      \* 30 s from the attestation to the scope
    AttestLife,     \* 5 min an attestation is valid
    ScopeTicks,     \* 30 s from the scope to its deadline
    CredentialLife, \* 10 min a credential is valid
    EvidenceLife    \* 24 h an observation is valid

ASSUME ChainAssumption ==
    /\ {MaxRuns, MaxClock, MaxTouches, AttestAge, AttestLife, ScopeTicks,
        CredentialLife, EvidenceLife} \subseteq Nat
    /\ 0 < AttestLife /\ 0 < EvidenceLife
    /\ 0 < ScopeTicks /\ ScopeTicks < CredentialLife

VARIABLES
    clock,        \* ticks
    runs,         \* the order and phase of each run
    objects,      \* the observer's objects of an order: their uid and version
                  \* as the cluster has them, and whether they exist
    attestations, scopes, observations, decisions, cleanups \* the documents

vars == <<clock, runs, objects, attestations, scopes, observations, decisions,
          cleanups>>

Documents == <<attestations, scopes, observations, decisions, cleanups>>

-----------------------------------------------------------------------------
(* The decision.                                                           *)

\* The attestation is of this bundle, envelope, profile and cluster, signed
\* with the key of an attestor that is not the observer, and leaves no authority
\* beyond profile and baseline.
AttestationOk(a) ==
    /\ a.platform = "this" /\ a.cluster = "preview"
    /\ a.subject = a.order
    /\ a.signer = "attestor" /\ a.key = a.signer /\ a.class = "production"
    /\ a.baseline = "trusted" /\ ~a.residual
    /\ a.observed < a.expires /\ a.expires <= a.observed + AttestLife

\* Variant of ScopeOk that wants the attestation to be older than the scope.
ScopeOkStrict(a, s) ==
    /\ s.order = a.order /\ s.subject = a.order
    /\ s.signer = "scopeIssuer"
    /\ s.cluster = a.cluster
    /\ s.issued - AttestAge <= a.observed /\ a.observed < s.issued
    /\ s.issued < s.deadline /\ s.deadline <= s.issued + ScopeTicks
    /\ s.deadline < s.expires /\ s.expires <= s.issued + CredentialLife

\* The scope is of the order's observer and the attested cluster; it follows
\* the attestation soon, and its deadline and its credential are short.
ScopeOk(a, s) ==
    /\ s.order = a.order /\ s.subject = a.order
    /\ s.signer = "scopeIssuer"
    /\ s.cluster = a.cluster
    /\ s.issued - AttestAge <= a.observed /\ a.observed <= s.issued
    /\ s.issued < s.deadline /\ s.deadline <= s.issued + ScopeTicks
    /\ s.deadline < s.expires /\ s.expires <= s.issued + CredentialLife

\* Variant of ObservationOk that does not look at the attestation it names.
ObservationOkUnbound(a, s, o) ==
    /\ o.order = a.order
    /\ o.signer = "deliveryVerifier"
    /\ o.scope = s.digest
    /\ s.issued <= o.observed /\ o.observed <= s.deadline
    /\ o.observed < o.expires /\ o.expires <= o.observed + EvidenceLife
    /\ o.counted /\ o.realm = s.order
    /\ ~o.reused

\* The observation names its scope, its attestation and the attested objects; it
\* is within the deadline and of the order's realm, its count is true and no
\* digest stands for two things.
ObservationOk(a, s, o) ==
    /\ o.order = a.order
    /\ o.signer = "deliveryVerifier"
    /\ o.scope = s.digest
    /\ o.rbac = a.digest /\ o.inherited = a.digest
    /\ o.controls = a.objects
    /\ s.issued <= o.observed /\ o.observed <= s.deadline
    /\ o.observed < o.expires /\ o.expires <= o.observed + EvidenceLife
    /\ o.counted /\ o.realm = s.order
    /\ ~o.reused

\* Variant of CleanupOk that does not compare the objects.
CleanupOkByName(a, o, c) ==
    /\ c.order = a.order /\ c.plan = a.plan
    /\ c.signer = "cleanupVerifier"
    /\ c.shared = a.shared
    /\ c.reclaim.order = a.order /\ c.reclaim.state = "terminal"
    /\ c.reclaim.signer = "reclaimIssuer" /\ ~c.reclaim.reused
    /\ c.reclaim.decided <= c.verified
    /\ o.observed <= c.verified

\* The cleanup follows the registered plan and a decision of someone else that
\* the order is terminal, leaves the shared role, and names the attested objects.
CleanupOk(a, o, c) ==
    /\ c.order = a.order /\ c.plan = a.plan
    /\ c.signer = "cleanupVerifier"
    /\ c.shared = a.shared
    /\ c.reclaim.order = a.order /\ c.reclaim.state = "terminal"
    /\ c.reclaim.signer = "reclaimIssuer" /\ ~c.reclaim.reused
    /\ c.reclaim.decided <= c.verified
    /\ o.observed <= c.verified
    /\ c.objects = a.objects

\* validate_runtime_semantics
Accepts(a, s, o, c) ==
    /\ AttestationOk(a)
    /\ ScopeOk(a, s)
    /\ ObservationOk(a, s, o)
    /\ CleanupOk(a, o, c)

-----------------------------------------------------------------------------
(* The parties.                                                            *)

Running(order) ==
    {n \in DOMAIN runs : runs[n].order = order /\ runs[n].phase # "ended"}

Advance(n, phase) == runs' = [runs EXCEPT ![n].phase = phase]

\* A run begins when no other of its order goes on.  It creates the objects
\* that a failed run has not left behind.
Provision(order) ==
    /\ Len(runs) < MaxRuns /\ Running(order) = {}
    /\ runs' = Append(runs, [order |-> order, phase |-> "provisioned"])
    /\ objects' = IF objects[order].exists THEN objects
                  ELSE [objects EXCEPT ![order] =
                          [uid |-> Len(runs) + 1, version |-> 0, exists |-> TRUE]]
    /\ UNCHANGED <<clock, Documents>>

Present(order) == [uid |-> objects[order].uid, version |-> objects[order].version]

Attest(n) ==
    /\ runs[n].phase = "provisioned"
    /\ LET order == runs[n].order
       IN attestations' = attestations \cup
            {[digest |-> n, order |-> order, subject |-> order, platform |-> "this",
              cluster |-> "preview", signer |-> "attestor", key |-> "attestor",
              class |-> "production", baseline |-> "trusted", residual |-> FALSE,
              objects |-> Present(order), shared |-> "role", plan |-> order,
              observed |-> clock, expires |-> clock + AttestLife]}
    /\ Advance(n, "attested")
    /\ UNCHANGED <<clock, objects, scopes, observations, decisions, cleanups>>

Issue(n) ==
    /\ runs[n].phase = "attested"
    /\ \E a \in attestations : a.digest = n /\ clock <= a.observed + AttestAge
    /\ scopes' = scopes \cup
          {[digest |-> n, order |-> runs[n].order, subject |-> runs[n].order,
            signer |-> "scopeIssuer", cluster |-> "preview", issued |-> clock,
            deadline |-> clock + ScopeTicks, expires |-> clock + CredentialLife]}
    /\ Advance(n, "issued")
    /\ UNCHANGED <<clock, objects, attestations, observations, decisions, cleanups>>

Observe(n) ==
    /\ runs[n].phase = "issued"
    /\ \E s \in scopes : s.digest = n /\ clock <= s.deadline
    /\ \E a \in attestations :
          /\ a.digest = n
          /\ observations' = observations \cup
               {[digest |-> n, order |-> runs[n].order, scope |-> n, rbac |-> n,
                 inherited |-> n, controls |-> a.objects, realm |-> runs[n].order,
                 counted |-> TRUE, reused |-> FALSE, signer |-> "deliveryVerifier",
                 observed |-> clock, expires |-> clock + EvidenceLife]}
    /\ Advance(n, "observed")
    /\ UNCHANGED <<clock, objects, attestations, scopes, decisions, cleanups>>

\* A run is completed, cancelled, expired or failed.
End(n) ==
    /\ runs[n].phase # "ended"
    /\ Advance(n, "ended")
    /\ UNCHANGED <<clock, objects, Documents>>

\* The work order is terminal: its objects may be reclaimed.  (Bound: as many
\* decisions as runs.)
Decide(order) ==
    /\ Running(order) = {}
    /\ Cardinality({d \in decisions : d.order = order})
          < Cardinality({n \in DOMAIN runs : runs[n].order = order})
    /\ decisions' = decisions \cup
          {[order |-> order, state |-> "terminal", signer |-> "reclaimIssuer",
            reused |-> FALSE, decided |-> clock]}
    /\ UNCHANGED <<clock, runs, objects, attestations, scopes, observations, cleanups>>

\* The objects are deleted if they are those that were attested, and their
\* absence is verified.  On a conflict nothing is deleted.
CleanUp(a, decision) ==
    /\ decision.order = a.order /\ Running(a.order) = {}
    /\ objects[a.order].exists /\ Present(a.order) = a.objects
    /\ objects' = [objects EXCEPT ![a.order].exists = FALSE]
    /\ cleanups' = cleanups \cup
          {[order |-> a.order, plan |-> a.plan, shared |-> a.shared,
            signer |-> "cleanupVerifier", reclaim |-> decision,
            objects |-> a.objects, verified |-> clock]}
    /\ UNCHANGED <<clock, runs, attestations, scopes, observations, decisions>>

\* Someone else changes the objects.
Touch(order) ==
    /\ objects[order].exists /\ objects[order].version < MaxTouches
    /\ objects' = [objects EXCEPT ![order].version = @ + 1]
    /\ UNCHANGED <<clock, runs, Documents>>

Tick ==
    /\ clock < MaxClock
    /\ clock' = clock + 1
    /\ UNCHANGED <<runs, objects, Documents>>

Init ==
    /\ clock = 0 /\ runs = <<>>
    /\ objects = [order \in Orders |-> [uid |-> 0, version |-> 0, exists |-> FALSE]]
    /\ attestations = {} /\ scopes = {} /\ observations = {}
    /\ decisions = {} /\ cleanups = {}

Next ==
    \/ Tick
    \/ \E order \in Orders : Provision(order) \/ Decide(order) \/ Touch(order)
    \/ \E n \in DOMAIN runs : Attest(n) \/ Issue(n) \/ Observe(n) \/ End(n)
    \/ \E a \in attestations, decision \in decisions : CleanUp(a, decision)

Spec == Init /\ [][Next]_vars

-----------------------------------------------------------------------------
(* The forgeries.                                                          *)

\* What a forgery names in the place of a work order is none.
ASSUME ForgeryAssumption == {"other", "foreign"} \cap Orders = {}

ForgedAttestations(a) ==
    {[a EXCEPT !.platform = "foreign"], [a EXCEPT !.cluster = "foreign"],
     [a EXCEPT !.expires = a.observed + AttestLife + 1],
     [a EXCEPT !.class = "development"], [a EXCEPT !.key = "substituted"],
     [a EXCEPT !.baseline = "foreign"],
     [a EXCEPT !.observed = @ - AttestAge - 1 - ScopeTicks]}

ForgedScopes(s) ==
    {[s EXCEPT !.subject = "other"],
     [s EXCEPT !.deadline = s.issued + ScopeTicks + 1]}

ForgedObservations(o, s) ==
    {[o EXCEPT !.counted = FALSE], [o EXCEPT !.reused = TRUE],
     [o EXCEPT !.rbac = 0], [o EXCEPT !.inherited = 0],
     [o EXCEPT !.observed = s.deadline + 1], [o EXCEPT !.signer = "foreign"]}

ForgedCleanups(c) ==
    {[c EXCEPT !.shared = "altered"], [c EXCEPT !.plan = "foreign"],
     [c EXCEPT !.reclaim.order = "other"], [c EXCEPT !.reclaim.reused = TRUE],
     [c EXCEPT !.signer = "foreign"], [c EXCEPT !.reclaim.signer = "foreign"],
     [c EXCEPT !.objects.version = @ + 1]}

-----------------------------------------------------------------------------

\* The documents of a run that was observed and cleaned up are accepted.
CompleteRunAccepted ==
    \A o \in observations, c \in cleanups :
      \A a \in {x \in attestations : x.digest = o.digest} :
        \A s \in {x \in scopes : x.digest = o.digest} :
          (c.objects = a.objects /\ o.observed <= c.verified) => Accepts(a, s, o, c)

\* Whatever documents of whatever runs are put together: if they are accepted,
\* attestation, scope and observation are of one run, in this order and within
\* their times, and the objects that were attested were deleted afterwards.
OneRunAccepted ==
    \A a \in attestations, s \in scopes, o \in observations, c \in cleanups :
      Accepts(a, s, o, c) =>
        /\ a.digest = o.digest /\ s.digest = o.digest
        /\ a.observed <= s.issued /\ s.issued <= o.observed
        /\ o.observed <= a.observed + AttestAge + ScopeTicks
        /\ o.observed <= c.verified
        /\ c.objects = a.objects

\* No forgery of a document is accepted with documents of any runs.
ForgeryRejected ==
    \A a \in attestations, s \in scopes, o \in observations, c \in cleanups :
      Accepts(a, s, o, c) =>
        /\ \A f \in ForgedAttestations(a) : ~Accepts(f, s, o, c)
        /\ \A f \in ForgedScopes(s) : ~Accepts(a, f, o, c)
        /\ \A f \in ForgedObservations(o, s) : ~Accepts(a, s, f, c)
        /\ \A f \in ForgedCleanups(c) : ~Accepts(a, s, o, f)

=============================================================================
