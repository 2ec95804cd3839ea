--------------------------- MODULE EvidenceProofs ---------------------------
(***************************************************************************)
(* The decision on four evidence documents, for any number of work orders, *)
(* runs, changes and any lifetimes: it accepts the documents of every run  *)
(* that was observed and cleaned up, and no others.                        *)
(*                                                                         *)
(* The documents of the parties are joined by their run.  The invariant    *)
(* says so of each document and of each pair the decision compares; that a *)
(* document of a run is its only one comes from the phases, and that equal *)
(* objects are objects of one work order from the run that created them.   *)
(***************************************************************************)
EXTENDS EvidenceChain, TLAPS

Phases == {"provisioned", "attested", "issued", "observed", "ended"}

\* Objects were created by a run of their order; every order with a run has some.
Owned(uid, order) == uid \in DOMAIN runs /\ runs[uid].order = order

StateInv ==
    /\ clock \in Nat
    /\ runs \in Seq([order : Orders, phase : Phases])
    /\ objects \in [Orders -> [uid : Nat, version : Nat, exists : BOOLEAN]]
    /\ \A order \in Orders :
          /\ objects[order].exists => objects[order].uid # 0
          /\ objects[order].uid # 0 => Owned(objects[order].uid, order)
    /\ \A n \in DOMAIN runs : objects[runs[n].order].uid # 0

AttestationInv(a) ==
    /\ Owned(a.digest, a.order) /\ runs[a.digest].phase # "provisioned"
    /\ AttestationOk(a)
    /\ a.observed \in Nat /\ a.observed <= clock
    /\ a.plan = a.order /\ a.shared = "role"
    /\ Owned(a.objects.uid, a.order)

ScopeInv(s) ==
    /\ Owned(s.digest, s.order) /\ s.subject = s.order
    /\ runs[s.digest].phase \notin {"provisioned", "attested"}
    /\ s.issued \in Nat /\ s.issued <= clock
    /\ s.deadline = s.issued + ScopeTicks

ObservationInv(o) ==
    /\ Owned(o.digest, o.order)
    /\ runs[o.digest].phase \notin {"provisioned", "attested", "issued"}
    /\ o.scope = o.digest /\ o.rbac = o.digest
    /\ o.observed \in Nat

DecisionInv(d) ==
    /\ d.state = "terminal" /\ d.signer = "reclaimIssuer" /\ ~d.reused
    /\ d.decided \in Nat /\ d.decided <= clock

CleanupInv(c) ==
    /\ c.plan = c.order /\ c.shared = "role" /\ c.signer = "cleanupVerifier"
    /\ c.reclaim.order = c.order
    /\ c.reclaim.state = "terminal" /\ c.reclaim.signer = "reclaimIssuer"
    /\ ~c.reclaim.reused
    /\ c.reclaim.decided <= c.verified /\ c.verified \in Nat
    /\ Owned(c.objects.uid, c.order)

\* Documents of one run satisfy what the decision asks of them together, and
\* there is one attestation and one scope of a run.
JoinInv ==
    /\ \A a, b \in attestations : a.digest = b.digest => a = b
    /\ \A s, r \in scopes : s.digest = r.digest => s = r
    /\ \A a \in attestations, s \in scopes : a.digest = s.digest => ScopeOk(a, s)
    /\ \A a \in attestations, s \in scopes, o \in observations :
          (a.digest = o.digest /\ s.digest = o.digest) => ObservationOk(a, s, o)

ChainInv ==
    /\ StateInv
    /\ \A a \in attestations : AttestationInv(a)
    /\ \A s \in scopes : ScopeInv(s)
    /\ \A o \in observations : ObservationInv(o)
    /\ \A d \in decisions : DecisionInv(d)
    /\ \A c \in cleanups : CleanupInv(c)
    /\ JoinInv

-----------------------------------------------------------------------------

LEMMA Lifetimes ==
    /\ AttestAge \in Nat /\ AttestLife \in Nat /\ ScopeTicks \in Nat
    /\ CredentialLife \in Nat /\ EvidenceLife \in Nat
    /\ 0 < AttestLife /\ 0 < EvidenceLife
    /\ 0 < ScopeTicks /\ ScopeTicks < CredentialLife
BY ChainAssumption

LEMMA RunsOfOrders ==
    ASSUME StateInv, NEW n \in DOMAIN runs
    PROVE  runs[n] \in [order : Orders, phase : Phases]
<1> DEFINE Run == [order : Orders, phase : Phases]
<1>1. runs \in Seq(Run)
  BY DEF StateInv
<1> HIDE DEF Run
<1>2. runs[n] \in Run
  BY <1>1
<1> QED
  BY <1>2 DEF Run

\* A phase of one run changes nothing else of the runs.
LEMMA AdvanceRuns ==
    ASSUME StateInv, NEW n \in DOMAIN runs, NEW phase \in Phases, Advance(n, phase)
    PROVE  /\ runs' \in Seq([order : Orders, phase : Phases])
           /\ DOMAIN runs' = DOMAIN runs
           /\ \A k \in DOMAIN runs :
                 /\ runs'[k].order = runs[k].order
                 /\ k # n => runs'[k] = runs[k]
           /\ runs'[n].phase = phase
<1> DEFINE Run == [order : Orders, phase : Phases]
<1>1. runs \in Seq(Run) /\ runs[n] \in Run
  <2>1. runs \in Seq(Run)
    BY DEF StateInv
  <2> HIDE DEF Run
  <2> QED
    BY <2>1
<1>2. [runs[n] EXCEPT !.phase = phase] \in Run
  BY <1>1
<1>3. runs' = [runs EXCEPT ![n] = [runs[n] EXCEPT !.phase = phase]]
  BY DEF Advance
<1>4. /\ [runs[n] EXCEPT !.phase = phase].order = runs[n].order
      /\ [runs[n] EXCEPT !.phase = phase].phase = phase
  BY <1>1
<1> DEFINE new == [runs[n] EXCEPT !.phase = phase]
<1> HIDE DEF new, Run
<1>5. /\ runs' \in Seq(Run) /\ DOMAIN runs' = DOMAIN runs
      /\ runs'[n] = new /\ \A k \in DOMAIN runs : k # n => runs'[k] = runs[k]
  BY <1>1, <1>2, <1>3 DEF new
<1> QED
  BY <1>4, <1>5 DEF new, Run

\* The part of the invariant about orders, while their objects do not change.
LEMMA AdvanceState ==
    ASSUME StateInv, NEW n \in DOMAIN runs, NEW phase \in Phases, Advance(n, phase),
           UNCHANGED <<clock, objects>>
    PROVE  StateInv'
<1>1. /\ runs' \in Seq([order : Orders, phase : Phases])
      /\ DOMAIN runs' = DOMAIN runs
      /\ \A k \in DOMAIN runs : runs'[k].order = runs[k].order
  BY AdvanceRuns
<1> QED
  BY <1>1 DEF StateInv, Owned

\* Runs go forward and keep their orders.
Progress ==
    /\ clock \in Nat /\ clock' \in Nat /\ clock <= clock'
    /\ DOMAIN runs \subseteq DOMAIN runs'
    /\ \A k \in DOMAIN runs :
          /\ runs'[k].order = runs[k].order
          /\ \A early \in {{"provisioned"}, {"provisioned", "attested"},
                           {"provisioned", "attested", "issued"}} :
                runs[k].phase \notin early => runs'[k].phase \notin early

\* So the documents there are stay as they should be.
LEMMA OldDocuments ==
    ASSUME ChainInv, Progress
    PROVE  /\ \A a \in attestations : AttestationInv(a)'
           /\ \A s \in scopes : ScopeInv(s)'
           /\ \A o \in observations : ObservationInv(o)'
           /\ \A d \in decisions : DecisionInv(d)'
           /\ \A c \in cleanups : CleanupInv(c)'
<1> USE DEF ChainInv
<1>1. ASSUME NEW a \in attestations PROVE AttestationInv(a)'
  BY <1>1 DEF AttestationInv, Owned, Progress
<1>2. ASSUME NEW s \in scopes PROVE ScopeInv(s)'
  BY <1>2 DEF ScopeInv, Owned, Progress
<1>3. ASSUME NEW o \in observations PROVE ObservationInv(o)'
  BY <1>3 DEF ObservationInv, Owned, Progress
<1>4. ASSUME NEW d \in decisions PROVE DecisionInv(d)'
  BY <1>4 DEF DecisionInv, Progress
<1>5. ASSUME NEW c \in cleanups PROVE CleanupInv(c)'
  BY <1>5 DEF CleanupInv, Owned, Progress
<1> QED
  BY <1>1, <1>2, <1>3, <1>4, <1>5

\* A step that adds no document.
LEMMA NoDocument ==
    ASSUME ChainInv, Progress, StateInv', UNCHANGED Documents
    PROVE  ChainInv'
<1>1. JoinInv'
  BY DEF ChainInv, JoinInv, Documents
<1> QED
  BY <1>1, OldDocuments DEF ChainInv, Documents

\* A run that goes on to a later phase.
LEMMA AdvanceProgress ==
    ASSUME StateInv, NEW n \in DOMAIN runs, NEW phase \in Phases, Advance(n, phase),
           clock' = clock,
           <<runs[n].phase, phase>> \in {<<"provisioned", "attested">>,
               <<"attested", "issued">>, <<"issued", "observed">>}
           \/ phase = "ended"
    PROVE  Progress
<1>1. /\ DOMAIN runs' = DOMAIN runs
      /\ runs'[n].phase = phase
      /\ \A k \in DOMAIN runs :
            /\ runs'[k].order = runs[k].order
            /\ k # n => runs'[k] = runs[k]
  BY AdvanceRuns
<1>2. clock \in Nat
  BY DEF StateInv
<1> QED
  BY <1>1, <1>2 DEF Progress

LEMMA ProvisionStep ==
    ASSUME ChainInv, NEW order \in Orders, Provision(order)
    PROVE  ChainInv'
<1> DEFINE new == [order |-> order, phase |-> "provisioned"]
<1>1. /\ clock \in Nat /\ clock' = clock /\ UNCHANGED Documents
      /\ runs \in Seq([order : Orders, phase : Phases])
      /\ runs' = Append(runs, new)
  BY DEF ChainInv, StateInv, Provision
<1>2. new \in [order : Orders, phase : Phases]
  BY DEF Phases
<1>3. /\ runs' \in Seq([order : Orders, phase : Phases])
      /\ DOMAIN runs = 1 .. Len(runs) /\ DOMAIN runs' = 1 .. Len(runs) + 1
      /\ Len(runs) \in Nat
      /\ \A k \in DOMAIN runs : runs'[k] = runs[k]
      /\ runs'[Len(runs) + 1] = new
  <2> DEFINE Run == [order : Orders, phase : Phases]
  <2> HIDE DEF Run, new
  <2> QED
    BY <1>1, <1>2 DEF Run
<1>4. Progress
  BY <1>1, <1>3 DEF Progress
<1>5. StateInv'
  <2>1. CASE objects[order].exists
    BY <1>1, <1>3, <2>1 DEF ChainInv, StateInv, Provision, Owned
  <2>2. CASE ~objects[order].exists
    <3> DEFINE made == [uid |-> Len(runs) + 1, version |-> 0, exists |-> TRUE]
    <3>1. objects' = [objects EXCEPT ![order] = made]
      BY <2>2 DEF Provision
    <3>2. objects \in [Orders -> [uid : Nat, version : Nat, exists : BOOLEAN]]
      BY DEF ChainInv, StateInv
    <3>3. made \in [uid : Nat, version : Nat, exists : BOOLEAN]
      BY <1>3
    <3>4. /\ objects' \in [Orders -> [uid : Nat, version : Nat, exists : BOOLEAN]]
          /\ objects'[order] = made
          /\ \A r \in Orders : r # order => objects'[r] = objects[r]
      BY <3>1, <3>2, <3>3
    <3>5. /\ new.order = order
          /\ made.uid = Len(runs) + 1 /\ made.uid # 0 /\ made.exists
      BY <1>3
    <3> HIDE DEF new, made
    <3>6. /\ \A r \in Orders : /\ objects[r].exists => objects[r].uid # 0
                               /\ objects[r].uid # 0 => Owned(objects[r].uid, r)
          /\ \A k \in DOMAIN runs : objects[runs[k].order].uid # 0
          /\ \A k \in DOMAIN runs : runs[k].order \in Orders
      BY RunsOfOrders DEF ChainInv, StateInv
    <3>7. ASSUME NEW r \in Orders
          PROVE  /\ objects'[r].exists => objects'[r].uid # 0
                 /\ objects'[r].uid # 0 => Owned(objects[r].uid, r)'
      <4>1. CASE r = order
        BY <1>3, <3>4, <3>5, <4>1 DEF Owned
      <4>2. CASE r # order
        <5>1. objects'[r] = objects[r] /\ DOMAIN runs \subseteq DOMAIN runs'
          BY <1>3, <3>4, <4>2
        <5>2. \A k \in DOMAIN runs : runs'[k] = runs[k]
          BY <1>3
        <5> QED
          BY <3>6, <5>1, <5>2 DEF Owned
      <4> QED
        BY <4>1, <4>2
    <3>8. ASSUME NEW k \in DOMAIN runs' PROVE objects'[runs'[k].order].uid # 0
      <4>1. CASE k \in DOMAIN runs
        <5>1. /\ runs'[k] = runs[k] /\ runs[k].order \in Orders
              /\ objects[runs[k].order].uid # 0
          BY <1>3, <3>6, <4>1
        <5>2. \A r \in Orders : objects[r].uid # 0 => objects'[r].uid # 0
          BY <3>4, <3>5
        <5> QED
          BY <5>1, <5>2
      <4>2. CASE k = Len(runs) + 1
        BY <1>3, <3>4, <3>5, <4>2
      <4> QED
        BY <1>3, <4>1, <4>2
    <3> QED
      BY <1>1, <1>3, <3>4, <3>7, <3>8 DEF StateInv
  <2> QED
    BY <2>1, <2>2
<1> QED
  BY <1>1, <1>4, <1>5, NoDocument

LEMMA QuietSteps ==
    ASSUME ChainInv
    PROVE  /\ Tick => ChainInv'
           /\ \A order \in Orders : Touch(order) => ChainInv'
           /\ \A n \in DOMAIN runs : End(n) => ChainInv'
<1>1. ASSUME Tick PROVE ChainInv'
  <2>1. clock \in Nat /\ clock' = clock + 1 /\ UNCHANGED <<runs, objects, Documents>>
    BY <1>1 DEF ChainInv, StateInv, Tick
  <2>2. StateInv' /\ Progress
    BY <2>1 DEF ChainInv, StateInv, Progress, Owned
  <2> QED
    BY <2>1, <2>2, NoDocument
<1>2. ASSUME NEW order \in Orders, Touch(order) PROVE ChainInv'
  <2>1. Progress
    BY <1>2 DEF ChainInv, StateInv, Touch, Progress
  <2>2. StateInv'
    <3> DEFINE Object == [uid : Nat, version : Nat, exists : BOOLEAN]
               more == [objects[order] EXCEPT !.version = objects[order].version + 1]
    <3>1. objects \in [Orders -> Object] /\ objects[order] \in Object
      BY DEF ChainInv, StateInv
    <3>2. /\ more \in Object
          /\ more.uid = objects[order].uid /\ more.exists = objects[order].exists
      BY <3>1
    <3>3. objects' = [objects EXCEPT ![order] = more]
      BY <1>2 DEF Touch
    <3> HIDE DEF Object, more
    <3>4. /\ objects' \in [Orders -> Object]
          /\ \A r \in Orders : /\ objects'[r].uid = objects[r].uid
                               /\ objects'[r].exists = objects[r].exists
      BY <3>1, <3>2, <3>3
    <3>5. \A n \in DOMAIN runs : runs[n].order \in Orders
      BY RunsOfOrders DEF ChainInv
    <3>6. runs' = runs /\ clock' = clock
      BY <1>2 DEF Touch
    <3> QED
      BY <3>4, <3>5, <3>6 DEF ChainInv, StateInv, Owned, Object
  <2> QED
    BY <1>2, <2>1, <2>2, NoDocument DEF Touch
<1>3. ASSUME NEW n \in DOMAIN runs, End(n) PROVE ChainInv'
  <2>1. Advance(n, "ended") /\ "ended" \in Phases
        /\ UNCHANGED <<clock, objects, Documents>>
    BY <1>3 DEF End, Phases
  <2> QED
    BY <2>1, AdvanceState, AdvanceProgress, NoDocument DEF ChainInv
<1> QED
  BY <1>1, <1>2, <1>3
\* A decision or a cleanup adds a document that no other is compared with.
LEMMA DecideStep ==
    ASSUME ChainInv, NEW order \in Orders, Decide(order)
    PROVE  ChainInv'
<1> DEFINE new == [order |-> order, state |-> "terminal", signer |-> "reclaimIssuer",
                   reused |-> FALSE, decided |-> clock]
<1>1. /\ decisions' = decisions \cup {new}
      /\ UNCHANGED <<clock, runs, objects, attestations, scopes, observations, cleanups>>
  BY DEF Decide
<1>2. StateInv' /\ Progress /\ JoinInv'
  BY <1>1 DEF ChainInv, StateInv, Progress, JoinInv, Owned
<1>3. PICK d : d = new
  OBVIOUS
<1>4. DecisionInv(d)'
  BY <1>1, <1>3 DEF DecisionInv, ChainInv, StateInv
<1> HIDE DEF new
<1> QED
  BY <1>1, <1>2, <1>3, <1>4, OldDocuments DEF ChainInv

LEMMA CleanUpStep ==
    ASSUME ChainInv, NEW a \in attestations, NEW decision \in decisions,
           CleanUp(a, decision)
    PROVE  ChainInv'
<1> DEFINE new == [order |-> a.order, plan |-> a.plan, shared |-> a.shared,
                   signer |-> "cleanupVerifier", reclaim |-> decision,
                   objects |-> a.objects, verified |-> clock]
<1>1. /\ cleanups' = cleanups \cup {new} /\ decision.order = a.order
      /\ objects' = [objects EXCEPT ![a.order].exists = FALSE]
      /\ UNCHANGED <<clock, runs, attestations, scopes, observations, decisions>>
  BY DEF CleanUp
<1>2. AttestationInv(a) /\ DecisionInv(decision) /\ clock \in Nat
  BY DEF ChainInv, StateInv
<1>3. PICK c : c = new
  OBVIOUS
<1>4. CleanupInv(c)'
  BY <1>1, <1>2, <1>3 DEF CleanupInv, AttestationInv, DecisionInv, Owned
<1> HIDE DEF new
<1>5. Progress /\ JoinInv'
  BY <1>1, <1>2 DEF ChainInv, StateInv, Progress, JoinInv
<1>6. StateInv'
  <2> DEFINE Object == [uid : Nat, version : Nat, exists : BOOLEAN]
             gone == [objects[a.order] EXCEPT !.exists = FALSE]
  <2>1. objects \in [Orders -> Object]
    BY DEF ChainInv, StateInv
  <2>2. a.order \in Orders
    BY <1>2, RunsOfOrders DEF ChainInv, AttestationInv, Owned
  <2>3. gone \in Object /\ gone.uid = objects[a.order].uid /\ ~gone.exists
    BY <2>1, <2>2
  <2>4. objects' = [objects EXCEPT ![a.order] = gone]
    BY <1>1
  <2> HIDE DEF Object, gone
  <2>5. /\ objects' \in [Orders -> Object]
        /\ \A r \in Orders : /\ objects'[r].uid = objects[r].uid
                             /\ objects'[r].exists => objects[r].exists
    BY <2>1, <2>2, <2>3, <2>4
  <2>6. \A n \in DOMAIN runs : runs[n].order \in Orders
    BY RunsOfOrders DEF ChainInv
  <2>7. objects' \in [Orders -> [uid : Nat, version : Nat, exists : BOOLEAN]]
    BY <2>5 DEF Object
  <2>8. /\ clock' \in Nat /\ runs' \in Seq([order : Orders, phase : Phases])
        /\ \A n \in DOMAIN runs' : objects'[runs'[n].order].uid # 0
    BY <1>1, <2>5, <2>6 DEF ChainInv, StateInv
  <2>9. \A r \in Orders :
          /\ objects'[r].exists => objects'[r].uid # 0
          /\ objects'[r].uid # 0 => Owned(objects[r].uid, r)'
    BY <1>1, <2>5 DEF ChainInv, StateInv, Owned
  <2> QED
    BY <2>7, <2>8, <2>9 DEF StateInv
<1> QED
  BY <1>1, <1>3, <1>5, <1>6, <1>4, OldDocuments DEF ChainInv

\* Before a run has a phase, it has no document of it.
LEMMA Undocumented ==
    ASSUME ChainInv, NEW n \in DOMAIN runs
    PROVE  /\ runs[n].phase = "provisioned" => \A a \in attestations : a.digest # n
           /\ runs[n].phase \in {"provisioned", "attested"}
                 => \A s \in scopes : s.digest # n
           /\ runs[n].phase \in {"provisioned", "attested", "issued"}
                 => \A o \in observations : o.digest # n
BY DEF ChainInv, AttestationInv, ScopeInv, ObservationInv

LEMMA AttestStep ==
    ASSUME ChainInv, NEW n \in DOMAIN runs, Attest(n)
    PROVE  ChainInv'
<1> DEFINE order == runs[n].order
           new == [digest |-> n, order |-> order, subject |-> order, platform |-> "this",
                   cluster |-> "preview", signer |-> "attestor", key |-> "attestor",
                   class |-> "production", baseline |-> "trusted", residual |-> FALSE,
                   objects |-> Present(order), shared |-> "role", plan |-> order,
                   observed |-> clock, expires |-> clock + AttestLife]
<1>1. /\ runs[n].phase = "provisioned" /\ Advance(n, "attested") /\ "attested" \in Phases
      /\ attestations' = attestations \cup {new}
      /\ UNCHANGED <<clock, objects, scopes, observations, decisions, cleanups>>
  BY DEF Attest, Phases
<1>2. StateInv' /\ Progress
  BY <1>1, AdvanceState, AdvanceProgress DEF ChainInv
<1>3. /\ DOMAIN runs' = DOMAIN runs /\ runs'[n].phase = "attested"
      /\ runs'[n].order = order
  BY <1>1, AdvanceRuns DEF ChainInv
<1>4. /\ objects[order].uid \in DOMAIN runs'
      /\ runs'[objects[order].uid].order = order
  <2>1. order \in Orders /\ objects[order].uid # 0
    BY RunsOfOrders DEF ChainInv, StateInv
  <2>2. Owned(objects[order].uid, order)
    BY <2>1 DEF ChainInv, StateInv
  <2> QED
    BY <1>1, <2>2, AdvanceRuns DEF Owned, ChainInv
<1>5. PICK a : a = new
  OBVIOUS
<1>6. AttestationInv(a)'
  <2>1. clock \in Nat /\ clock' = clock
    BY <1>1 DEF ChainInv, StateInv
  <2>2. AttestationOk(a)
    BY <1>5, <2>1, Lifetimes DEF AttestationOk
  <2>3. Owned(a.objects.uid, a.order)'
    BY <1>1, <1>4, <1>5 DEF Present, Owned
  <2> QED
    BY <1>3, <1>5, <2>1, <2>2, <2>3 DEF AttestationInv, AttestationOk, Owned
<1>7. new.digest = n
  OBVIOUS
<1> HIDE DEF new, order
<1>8. /\ \A d \in attestations : d.digest # n
      /\ \A s \in scopes : s.digest # n
      /\ \A o \in observations : o.digest # n
  BY <1>1, Undocumented
<1>9. JoinInv'
  BY <1>1, <1>7, <1>8 DEF ChainInv, JoinInv
<1> QED
  BY <1>1, <1>2, <1>5, <1>9, <1>6, OldDocuments DEF ChainInv

LEMMA IssueStep ==
    ASSUME ChainInv, NEW n \in DOMAIN runs, Issue(n)
    PROVE  ChainInv'
<1> DEFINE new == [digest |-> n, order |-> runs[n].order, subject |-> runs[n].order,
                   signer |-> "scopeIssuer", cluster |-> "preview", issued |-> clock,
                   deadline |-> clock + ScopeTicks, expires |-> clock + CredentialLife]
<1>1. /\ runs[n].phase = "attested" /\ Advance(n, "issued") /\ "issued" \in Phases
      /\ scopes' = scopes \cup {new}
      /\ UNCHANGED <<clock, objects, attestations, observations, decisions, cleanups>>
  BY DEF Issue, Phases
<1>2. StateInv' /\ Progress
  BY <1>1, AdvanceState, AdvanceProgress DEF ChainInv
<1>3. /\ DOMAIN runs' = DOMAIN runs /\ runs'[n].phase = "issued"
      /\ runs'[n].order = runs[n].order
  BY <1>1, AdvanceRuns DEF ChainInv
<1>4. clock \in Nat /\ clock' = clock
  BY <1>1 DEF ChainInv, StateInv
<1>5. PICK r : r = new
  OBVIOUS
<1>6. ScopeInv(r)'
  BY <1>3, <1>4, <1>5 DEF ScopeInv, Owned
<1>7. PICK b \in attestations : b.digest = n /\ clock <= b.observed + AttestAge
  BY DEF Issue
<1>8. ASSUME NEW a \in attestations, a.digest = n PROVE ScopeOk(a, new)
  <2>1. a = b /\ AttestationInv(a)
    BY <1>7, <1>8 DEF ChainInv, JoinInv
  <2>2. /\ a.order = runs[n].order /\ a.cluster = "preview"
        /\ a.observed \in Nat /\ a.observed <= clock /\ clock <= a.observed + AttestAge
    BY <1>7, <1>8, <2>1 DEF AttestationInv, AttestationOk, Owned
  <2> QED
    BY <1>4, <2>2, Lifetimes DEF ScopeOk
<1>9. new.digest = n
  OBVIOUS
<1> HIDE DEF new
<1>10. /\ \A s \in scopes : s.digest # n
       /\ \A o \in observations : o.digest # n
  BY <1>1, Undocumented
<1>11. JoinInv'
  BY <1>1, <1>8, <1>9, <1>10 DEF ChainInv, JoinInv
<1> QED
  BY <1>1, <1>2, <1>5, <1>11, <1>6, OldDocuments DEF ChainInv

LEMMA ObserveStep ==
    ASSUME ChainInv, NEW n \in DOMAIN runs, Observe(n)
    PROVE  ChainInv'
<1>1. PICK b \in attestations :
        /\ b.digest = n
        /\ observations' = observations \cup
             {[digest |-> n, order |-> runs[n].order, scope |-> n, rbac |-> n,
               inherited |-> n, controls |-> b.objects, realm |-> runs[n].order,
               counted |-> TRUE, reused |-> FALSE, signer |-> "deliveryVerifier",
               observed |-> clock, expires |-> clock + EvidenceLife]}
  BY DEF Observe
<1> DEFINE new == [digest |-> n, order |-> runs[n].order, scope |-> n, rbac |-> n,
               inherited |-> n, controls |-> b.objects, realm |-> runs[n].order,
               counted |-> TRUE, reused |-> FALSE, signer |-> "deliveryVerifier",
               observed |-> clock, expires |-> clock + EvidenceLife]
<1>2. /\ runs[n].phase = "issued" /\ Advance(n, "observed") /\ "observed" \in Phases
      /\ observations' = observations \cup {new}
      /\ UNCHANGED <<clock, objects, attestations, scopes, decisions, cleanups>>
  BY <1>1 DEF Observe, Phases
<1>3. StateInv' /\ Progress
  BY <1>2, AdvanceState, AdvanceProgress DEF ChainInv
<1>4. /\ DOMAIN runs' = DOMAIN runs /\ runs'[n].phase = "observed"
      /\ runs'[n].order = runs[n].order
  BY <1>2, AdvanceRuns DEF ChainInv
<1>5. clock \in Nat /\ clock' = clock
  BY <1>2 DEF ChainInv, StateInv
<1>6. PICK o : o = new
  OBVIOUS
<1>7. ObservationInv(o)'
  BY <1>4, <1>5, <1>6 DEF ObservationInv, Owned
<1>8. PICK r \in scopes : r.digest = n /\ clock <= r.deadline
  BY DEF Observe
<1>9. ASSUME NEW a \in attestations, NEW s \in scopes, a.digest = n, s.digest = n
      PROVE  ObservationOk(a, s, new)
  <2>1. a = b /\ s = r /\ AttestationInv(a) /\ ScopeInv(s)
    BY <1>1, <1>8, <1>9 DEF ChainInv, JoinInv
  <2>2. /\ a.order = runs[n].order /\ s.order = runs[n].order
        /\ s.issued <= clock /\ clock <= s.deadline
    BY <1>8, <1>9, <2>1 DEF AttestationInv, ScopeInv, Owned
  <2> QED
    BY <1>5, <1>9, <2>1, <2>2, Lifetimes DEF ObservationOk
<1>10. new.digest = n
  OBVIOUS
<1> HIDE DEF new
<1>11. \A d \in observations : d.digest # n
  BY <1>2, Undocumented
<1>12. JoinInv'
  BY <1>2, <1>9, <1>10, <1>11 DEF ChainInv, JoinInv
<1> QED
  BY <1>2, <1>3, <1>6, <1>12, <1>7, OldDocuments DEF ChainInv

-----------------------------------------------------------------------------

LEMMA ChainInit == Init => ChainInv
<1> SUFFICES ASSUME Init PROVE ChainInv
  OBVIOUS
<1>1. /\ attestations = {} /\ scopes = {} /\ observations = {}
      /\ decisions = {} /\ cleanups = {}
  BY DEF Init
<1>2. StateInv
  <2>1. runs = <<>> /\ DOMAIN runs = {}
    BY DEF Init
  <2> QED
    BY <2>1 DEF Init, StateInv
<1> QED
  BY <1>1, <1>2 DEF ChainInv, JoinInv

LEMMA ChainStep == ChainInv /\ [Next]_vars => ChainInv'
<1> SUFFICES ASSUME ChainInv, [Next]_vars PROVE ChainInv'
  OBVIOUS
<1>1. CASE Tick
  BY <1>1, QuietSteps
<1>2. ASSUME NEW order \in Orders, Provision(order) \/ Decide(order) \/ Touch(order)
      PROVE  ChainInv'
  BY <1>2, ProvisionStep, DecideStep, QuietSteps
<1>3. ASSUME NEW n \in DOMAIN runs, Attest(n) \/ Issue(n) \/ Observe(n) \/ End(n)
      PROVE  ChainInv'
  BY <1>3, AttestStep, IssueStep, ObserveStep, QuietSteps
<1>4. ASSUME NEW a \in attestations, NEW decision \in decisions, CleanUp(a, decision)
      PROVE  ChainInv'
  BY <1>4, CleanUpStep
<1>5. CASE UNCHANGED vars
  <2>1. /\ UNCHANGED <<clock, runs, objects, attestations, scopes, observations>>
        /\ UNCHANGED <<decisions, cleanups>>
    BY <1>5 DEF vars
  <2>2. StateInv' /\ Progress
    BY <2>1 DEF ChainInv, StateInv, Progress, Owned
  <2> QED
    BY <2>1, <2>2, NoDocument DEF Documents
<1> QED
  BY <1>1, <1>2, <1>3, <1>4, <1>5 DEF Next

LEMMA ChainHolds == Spec => []ChainInv
BY ChainInit, ChainStep, PTL DEF Spec

-----------------------------------------------------------------------------

\* The ADR's promise: whatever documents of whatever runs and orders are put
\* together, those accepted are of one run, in order and in time, and end with
\* the removal of what was attested.
THEOREM AcceptedIsOneRun == Spec => []OneRunAccepted
<1>1. ChainInv => OneRunAccepted
  <2> SUFFICES ASSUME ChainInv,
                      NEW a \in attestations, NEW s \in scopes,
                      NEW o \in observations, NEW c \in cleanups, Accepts(a, s, o, c)
               PROVE  /\ a.digest = o.digest /\ s.digest = o.digest
                      /\ a.observed <= s.issued /\ s.issued <= o.observed
                      /\ o.observed <= a.observed + AttestAge + ScopeTicks
                      /\ o.observed <= c.verified
                      /\ c.objects = a.objects
    BY DEF OneRunAccepted
  <2>1. AttestationInv(a) /\ ScopeInv(s) /\ ObservationInv(o)
    BY DEF ChainInv
  <2>2. /\ o.scope = s.digest /\ o.rbac = a.digest
        /\ s.issued <= o.observed /\ o.observed <= s.deadline
        /\ s.issued - AttestAge <= a.observed /\ a.observed <= s.issued
        /\ o.observed <= c.verified /\ c.objects = a.objects
    BY DEF Accepts, ScopeOk, ObservationOk, CleanupOk
  <2>3. a.observed \in Nat /\ s.issued \in Nat /\ o.observed \in Nat
        /\ s.deadline = s.issued + ScopeTicks
        /\ o.scope = o.digest /\ o.rbac = o.digest
    BY <2>1 DEF AttestationInv, ScopeInv, ObservationInv
  <2> QED
    BY <2>2, <2>3, Lifetimes
<1> QED
  BY <1>1, ChainHolds, PTL

\* And the decision is not too strict: a run that was observed in time and whose
\* objects were reclaimed as they were attested has documents that are accepted.
THEOREM CompleteIsAccepted == Spec => []CompleteRunAccepted
<1>1. ChainInv => CompleteRunAccepted
  <2> SUFFICES ASSUME ChainInv,
                      NEW o \in observations, NEW c \in cleanups,
                      NEW a \in attestations, NEW s \in scopes,
                      a.digest = o.digest, s.digest = o.digest,
                      c.objects = a.objects, o.observed <= c.verified
               PROVE  Accepts(a, s, o, c)
    BY DEF CompleteRunAccepted
  <2>1. AttestationInv(a) /\ CleanupInv(c)
    BY DEF ChainInv
  <2>2. ScopeOk(a, s) /\ ObservationOk(a, s, o)
    BY DEF ChainInv, JoinInv
  <2>3. c.order = a.order
    BY <2>1 DEF AttestationInv, CleanupInv, Owned
  <2>4. CleanupOk(a, o, c)
    BY <2>1, <2>3 DEF AttestationInv, CleanupInv, CleanupOk
  <2> QED
    BY <2>1, <2>2, <2>4 DEF Accepts, AttestationInv
<1> QED
  BY <1>1, ChainHolds, PTL

-----------------------------------------------------------------------------
(* The forgeries.  A forgery changes one field of a document, so that what *)
(* it comes to depends on the fields the document has.                     *)

Identity == [uid : Nat, version : Nat]

Attestation ==
    [digest : Nat, order : Orders, subject : Orders, platform : {"this"},
     cluster : {"preview"}, signer : {"attestor"}, key : {"attestor"},
     class : {"production"}, baseline : {"trusted"}, residual : {FALSE},
     objects : Identity, shared : {"role"}, plan : Orders,
     observed : Nat, expires : Nat]

Scope ==
    [digest : Nat, order : Orders, subject : Orders, signer : {"scopeIssuer"},
     cluster : {"preview"}, issued : Nat, deadline : Nat, expires : Nat]

Observation ==
    [digest : Nat, order : Orders, scope : Nat, rbac : Nat, inherited : Nat,
     controls : Identity, realm : Orders, counted : {TRUE}, reused : {FALSE},
     signer : {"deliveryVerifier"}, observed : Nat, expires : Nat]

Decision ==
    [order : Orders, state : {"terminal"}, signer : {"reclaimIssuer"},
     reused : {FALSE}, decided : Nat]

Cleanup ==
    [order : Orders, plan : Orders, shared : {"role"},
     signer : {"cleanupVerifier"}, reclaim : Decision, objects : Identity,
     verified : Nat]

FormInv ==
    /\ attestations \subseteq Attestation
    /\ scopes \subseteq Scope
    /\ observations \subseteq Observation
    /\ decisions \subseteq Decision
    /\ cleanups \subseteq Cleanup

LEMMA FormStep ==
    ASSUME ChainInv, FormInv, [Next]_vars
    PROVE  FormInv'
<1>1. clock \in Nat /\ clock + AttestLife \in Nat /\ clock + ScopeTicks \in Nat
      /\ clock + CredentialLife \in Nat /\ clock + EvidenceLife \in Nat
  BY Lifetimes DEF ChainInv, StateInv
<1>2. ASSUME NEW n \in DOMAIN runs
      PROVE  n \in Nat /\ runs[n].order \in Orders /\ Present(runs[n].order) \in Identity
  <2>1. n \in Nat
    <3>1. PICK q \in Seq([order : Orders, phase : Phases]) : q = runs
      BY DEF ChainInv, StateInv
    <3> QED
      BY <3>1
  <2>2. runs[n].order \in Orders
    BY RunsOfOrders DEF ChainInv
  <2>3. objects[runs[n].order] \in [uid : Nat, version : Nat, exists : BOOLEAN]
    BY <2>2 DEF ChainInv, StateInv
  <2>4. objects[runs[n].order].uid \in Nat /\ objects[runs[n].order].version \in Nat
    BY <2>3
  <2>5. Present(runs[n].order) \in Identity
    BY <2>4 DEF Present, Identity
  <2> QED
    BY <2>1, <2>2, <2>5
<1>3. CASE UNCHANGED Documents
  BY <1>3 DEF FormInv, Documents
<1>4. ASSUME NEW order \in Orders, Decide(order) PROVE FormInv'
  <2> DEFINE new == [order |-> order, state |-> "terminal", signer |-> "reclaimIssuer",
                     reused |-> FALSE, decided |-> clock]
  <2>1. /\ decisions' = decisions \cup {new}
        /\ UNCHANGED <<attestations, scopes, observations, cleanups>>
    BY <1>4 DEF Decide
  <2>2. new \in Decision
    BY <1>1 DEF Decision
  <2> HIDE DEF new
  <2> QED
    BY <2>1, <2>2 DEF FormInv
<1>5. ASSUME NEW n \in DOMAIN runs, Attest(n) PROVE FormInv'
  <2> DEFINE order == runs[n].order
             new == [digest |-> n, order |-> order, subject |-> order,
                     platform |-> "this", cluster |-> "preview",
                     signer |-> "attestor", key |-> "attestor",
                     class |-> "production", baseline |-> "trusted",
                     residual |-> FALSE, objects |-> Present(order),
                     shared |-> "role", plan |-> order,
                     observed |-> clock, expires |-> clock + AttestLife]
  <2>1. /\ attestations' = attestations \cup {new}
        /\ UNCHANGED <<scopes, observations, decisions, cleanups>>
    BY <1>5 DEF Attest
  <2>2. new \in Attestation
    BY <1>1, <1>2 DEF Attestation
  <2> HIDE DEF new
  <2> QED
    BY <2>1, <2>2 DEF FormInv
<1>6. ASSUME NEW n \in DOMAIN runs, Issue(n) PROVE FormInv'
  BY <1>1, <1>2, <1>6 DEF Issue, FormInv, Scope
<1>7. ASSUME NEW n \in DOMAIN runs, Observe(n) PROVE FormInv'
  <2>1. PICK a \in attestations :
          observations' = observations \cup
             {[digest |-> n, order |-> runs[n].order, scope |-> n, rbac |-> n,
               inherited |-> n, controls |-> a.objects, realm |-> runs[n].order,
               counted |-> TRUE, reused |-> FALSE, signer |-> "deliveryVerifier",
               observed |-> clock, expires |-> clock + EvidenceLife]}
    BY <1>7 DEF Observe
  <2>2. a.objects \in Identity
    <3>1. a \in Attestation
      BY <2>1 DEF FormInv
    <3> QED
      BY <3>1 DEF Attestation
  <2>3. UNCHANGED <<attestations, scopes, decisions, cleanups>>
    BY <1>7 DEF Observe
  <2> DEFINE new == [digest |-> n, order |-> runs[n].order, scope |-> n, rbac |-> n,
                     inherited |-> n, controls |-> a.objects,
                     realm |-> runs[n].order, counted |-> TRUE, reused |-> FALSE,
                     signer |-> "deliveryVerifier", observed |-> clock,
                     expires |-> clock + EvidenceLife]
  <2>4. new \in Observation
    BY <1>1, <1>2, <2>2 DEF Observation
  <2>5. observations' = observations \cup {new}
    BY <2>1
  <2> HIDE DEF new
  <2> QED
    BY <2>3, <2>4, <2>5 DEF FormInv
<1>8. ASSUME NEW a \in attestations, NEW decision \in decisions, CleanUp(a, decision)
      PROVE  FormInv'
  <2> DEFINE new == [order |-> a.order, plan |-> a.plan, shared |-> a.shared,
                     signer |-> "cleanupVerifier", reclaim |-> decision,
                     objects |-> a.objects, verified |-> clock]
  <2>1. /\ cleanups' = cleanups \cup {new}
        /\ UNCHANGED <<attestations, scopes, observations, decisions>>
    BY <1>8 DEF CleanUp
  <2>2. a \in Attestation /\ decision \in Decision
    BY DEF FormInv
  <2>3. new \in Cleanup
    BY <1>1, <2>2 DEF Attestation, Cleanup
  <2> HIDE DEF new
  <2> QED
    BY <2>1, <2>3 DEF FormInv
<1>9. CASE UNCHANGED vars
  BY <1>3, <1>9 DEF vars, Documents
<1> QED
  BY <1>3, <1>4, <1>5, <1>6, <1>7, <1>8, <1>9
  DEF Next, Tick, Provision, Touch, End

LEMMA FormHolds == Spec => []FormInv
<1>1. Init => FormInv
  BY DEF Init, FormInv
<1> QED
  BY <1>1, FormStep, ChainHolds, PTL DEF Spec

LEMMA AttestationsForged ==
    ASSUME NEW a \in Attestation, NEW s \in Scope, NEW o, NEW c, Accepts(a, s, o, c),
           NEW f \in ForgedAttestations(a)
    PROVE  ~Accepts(f, s, o, c)
<1>1. /\ s.issued - AttestAge <= a.observed /\ a.observed <= s.issued
      /\ s.issued \in Nat /\ a.observed \in Nat
  BY DEF Accepts, ScopeOk, Attestation, Scope
<1>2. CASE f = [a EXCEPT !.expires = a.observed + AttestLife + 1]
  <2>1. f.observed = a.observed /\ f.expires = a.observed + AttestLife + 1
    BY <1>2 DEF Attestation
  <2> QED
    BY <1>1, <2>1, Lifetimes DEF Accepts, AttestationOk
<1>3. CASE f = [a EXCEPT !.observed = @ - AttestAge - 1 - ScopeTicks]
  <2>1. f.observed = a.observed - AttestAge - 1 - ScopeTicks
    BY <1>3 DEF Attestation
  <2>2. ~(s.issued - AttestAge <= f.observed)
    BY <1>1, <2>1, Lifetimes
  <2> QED
    BY <2>2 DEF Accepts, ScopeOk
<1>4. CASE f \in {[a EXCEPT !.platform = "foreign"], [a EXCEPT !.cluster = "foreign"],
                  [a EXCEPT !.class = "development"], [a EXCEPT !.key = "substituted"],
                  [a EXCEPT !.baseline = "foreign"]}
  <2>1. \/ f.platform = "foreign" \/ f.cluster = "foreign" \/ f.class = "development"
        \/ f.baseline = "foreign" \/ (f.key = "substituted" /\ f.signer = "attestor")
    BY <1>4 DEF Attestation
  <2> QED
    BY <2>1 DEF Accepts, AttestationOk
<1> QED
  BY <1>2, <1>3, <1>4 DEF ForgedAttestations

LEMMA ScopesForged ==
    ASSUME NEW a \in Attestation, NEW s \in Scope, NEW o, NEW c,
           NEW f \in ForgedScopes(s)
    PROVE  ~Accepts(a, f, o, c)
<1>1. CASE f = [s EXCEPT !.subject = "other"]
  <2>1. f.subject = "other"
    BY <1>1 DEF Scope
  <2>2. a.order # "other"
    BY ForgeryAssumption DEF Attestation
  <2> QED
    BY <2>1, <2>2 DEF Accepts, ScopeOk
<1>2. CASE f = [s EXCEPT !.deadline = s.issued + ScopeTicks + 1]
  <2>1. /\ f.issued = s.issued /\ f.deadline = s.issued + ScopeTicks + 1
        /\ s.issued \in Nat
    BY <1>2 DEF Scope
  <2> QED
    BY <2>1, Lifetimes DEF Accepts, ScopeOk
<1> QED
  BY <1>1, <1>2 DEF ForgedScopes

LEMMA ObservationsForged ==
    ASSUME NEW a, NEW s \in Scope, NEW o \in Observation, NEW c,
           a.digest # 0, NEW f \in ForgedObservations(o, s)
    PROVE  ~Accepts(a, s, f, c)
<1>1. CASE f = [o EXCEPT !.observed = s.deadline + 1]
  <2>1. f.observed = s.deadline + 1 /\ s.deadline \in Nat
    BY <1>1 DEF Observation, Scope
  <2> QED
    BY <2>1 DEF Accepts, ObservationOk
<1>2. CASE f \in {[o EXCEPT !.counted = FALSE], [o EXCEPT !.reused = TRUE],
                  [o EXCEPT !.rbac = 0], [o EXCEPT !.inherited = 0],
                  [o EXCEPT !.signer = "foreign"]}
  <2>1. \/ f.counted = FALSE \/ f.reused = TRUE \/ f.rbac = 0 \/ f.inherited = 0
        \/ f.signer = "foreign"
    BY <1>2 DEF Observation
  <2> QED
    BY <2>1 DEF Accepts, ObservationOk
<1> QED
  BY <1>1, <1>2 DEF ForgedObservations

LEMMA CleanupsForged ==
    ASSUME NEW a \in Attestation, NEW s, NEW o, NEW c \in Cleanup, a.plan = a.order,
           a.objects = c.objects, NEW f \in ForgedCleanups(c)
    PROVE  ~Accepts(a, s, o, f)
<1>1. a.order \notin {"other", "foreign"} /\ a.shared = "role"
  BY ForgeryAssumption DEF Attestation
<1>2. CASE f \in {[c EXCEPT !.reclaim.order = "other"],
                  [c EXCEPT !.reclaim.reused = TRUE],
                  [c EXCEPT !.reclaim.signer = "foreign"]}
  <2>1. c.reclaim \in Decision
    BY DEF Cleanup
  <2>2. \/ f.reclaim = [c.reclaim EXCEPT !.order = "other"]
        \/ f.reclaim = [c.reclaim EXCEPT !.reused = TRUE]
        \/ f.reclaim = [c.reclaim EXCEPT !.signer = "foreign"]
    BY <1>2 DEF Cleanup
  <2>3. \/ f.reclaim.order = "other" \/ f.reclaim.reused = TRUE
        \/ f.reclaim.signer = "foreign"
    BY <2>1, <2>2 DEF Decision
  <2> QED
    BY <1>1, <2>3 DEF Accepts, CleanupOk
<1>3. CASE f = [c EXCEPT !.objects.version = @ + 1]
  <2>1. c.objects \in Identity
    BY DEF Cleanup
  <2>2. f.objects = [c.objects EXCEPT !.version = c.objects.version + 1]
    BY <1>3 DEF Cleanup
  <2>3. f.objects.version = c.objects.version + 1 /\ c.objects.version \in Nat
    BY <2>1, <2>2 DEF Identity
  <2>4. f.objects # a.objects
    BY <2>3
  <2> QED
    BY <2>4 DEF Accepts, CleanupOk
<1>4. CASE f \in {[c EXCEPT !.shared = "altered"], [c EXCEPT !.plan = "foreign"],
                  [c EXCEPT !.signer = "foreign"]}
  <2>1. f.shared = "altered" \/ f.plan = "foreign" \/ f.signer = "foreign"
    BY <1>4 DEF Cleanup
  <2> QED
    BY <1>1, <2>1 DEF Accepts, CleanupOk
<1> QED
  BY <1>2, <1>3, <1>4 DEF ForgedCleanups

\* Each of the script's forgeries of a document is rejected, with documents of
\* whatever runs and orders it is put together.
THEOREM ForgeriesAreRejected == Spec => []ForgeryRejected
<1>1. ChainInv /\ FormInv => ForgeryRejected
  <2> SUFFICES ASSUME ChainInv, FormInv,
                      NEW a \in attestations, NEW s \in scopes,
                      NEW o \in observations, NEW c \in cleanups, Accepts(a, s, o, c)
               PROVE  /\ \A f \in ForgedAttestations(a) : ~Accepts(f, s, o, c)
                      /\ \A f \in ForgedScopes(s) : ~Accepts(a, f, o, c)
                      /\ \A f \in ForgedObservations(o, s) : ~Accepts(a, s, f, c)
                      /\ \A f \in ForgedCleanups(c) : ~Accepts(a, s, o, f)
    BY DEF ForgeryRejected
  <2>1. a \in Attestation /\ s \in Scope /\ o \in Observation /\ c \in Cleanup
    BY DEF FormInv
  <2>2. a.plan = a.order /\ a.digest # 0
    BY DEF ChainInv, AttestationInv, Owned, StateInv
  <2>3. a.objects = c.objects
    BY DEF Accepts, CleanupOk
  <2> QED
    BY <2>1, <2>2, <2>3, AttestationsForged, ScopesForged, ObservationsForged,
       CleanupsForged
<1> QED
  BY <1>1, ChainHolds, FormHolds, PTL

=============================================================================
