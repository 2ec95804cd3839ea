--------------------------- MODULE PlatformProofs ---------------------------
(***************************************************************************)
(* What acceptance of a bundle is worth, for every bundle, every request   *)
(* and any number of work orders.                                          *)
(*                                                                         *)
(* The observer's access: the validator fixes what each step of the chain  *)
(* needs, and that no two steps share an id.  So the steps that a work     *)
(* order has done are a prefix of the chain, in whatever order it ran      *)
(* them; and the objects in the cluster are those of orders whose prefix   *)
(* has created them and not taken them away.  Their names contain the work *)
(* order, which keeps other orders away from them.                         *)
(***************************************************************************)
EXTENDS PlatformPath, WellFoundedInduction, TLAPS

-----------------------------------------------------------------------------
(* Prefixes of a chain of steps.                                           *)

\* A set of natural numbers has a least element.
LEMMA LeastNatural ==
  ASSUME NEW S, S \subseteq Nat, S # {}
  PROVE  \E m \in S : \A n \in S : m <= n
<1>1. IsWellFoundedOn({pair \in Nat \X Nat : pair[1] < pair[2]}, Nat)
  BY NatLessThanWellFounded DEF OpToRel
<1>2. PICK m \in S :
        \A n \in S : <<n, m>> \notin {pair \in Nat \X Nat : pair[1] < pair[2]}
  BY <1>1, WFMin
<1>3. ASSUME NEW n \in S PROVE m <= n
  <2>1. m \in Nat /\ n \in Nat
    OBVIOUS
  <2>2. ~(n < m)
    BY <1>2, <2>1
  <2> QED
    BY <2>1, <2>2
<1> QED
  BY <1>3

EndsAt(n, ids, done) ==
  /\ n \in 0..Len(ids)
  /\ \A i \in 1..n : ids[i] \in done
  /\ n < Len(ids) => ids[n + 1] \notin done

\* The prefix of a chain exists, and is the only one.
LEMMA PrefixIs ==
  ASSUME NEW ids, Len(ids) \in Nat, NEW done
  PROVE  /\ EndsAt(Prefix(ids, done), ids, done)
         /\ \A n : EndsAt(n, ids, done) => n = Prefix(ids, done)
<1> DEFINE S == {i \in 1..Len(ids) + 1 : i = Len(ids) + 1 \/ ids[i] \notin done}
<1>1. PICK m \in S : \A n \in S : m <= n
  <2>1. Len(ids) + 1 \in S /\ S \subseteq Nat
    OBVIOUS
  <2> QED
    BY <2>1, LeastNatural
<1>2. EndsAt(m - 1, ids, done)
  <2>1. m \in 1..Len(ids) + 1 /\ (m < Len(ids) + 1 => ids[m] \notin done)
    BY <1>1
  <2>2. ASSUME NEW i \in 1..m - 1 PROVE ids[i] \in done
    BY <1>1, <2>1
  <2> QED
    BY <2>1, <2>2 DEF EndsAt
<1>3. ASSUME NEW k, NEW n, EndsAt(k, ids, done), EndsAt(n, ids, done) PROVE k = n
  <2>1. k \in 0..Len(ids) /\ n \in 0..Len(ids)
    BY <1>3 DEF EndsAt
  <2>2. ~(k < n)
    BY <1>3, <2>1 DEF EndsAt
  <2>3. ~(n < k)
    BY <1>3, <2>1 DEF EndsAt
  <2> QED
    BY <2>1, <2>2, <2>3
<1>4. EndsAt(Prefix(ids, done), ids, done)
  BY <1>2 DEF Prefix, EndsAt
<1> QED
  BY <1>3, <1>4

\* A step is done only after those above it in the chain.
InOrder(ids, done) ==
  \A k \in 1..Len(ids) : ids[k] \in done => \A i \in 1..k - 1 : ids[i] \in done

Distinct(ids) == \A i, k \in 1..Len(ids) : ids[i] = ids[k] => i = k

\* A chain takes one step forward when the next of its steps is done ...
LEMMA ChainAdvances ==
  ASSUME NEW ids, Len(ids) \in Nat, Distinct(ids), NEW done, InOrder(ids, done),
         NEW k \in 1..Len(ids), ids[k] \notin done, k > 1 => ids[k - 1] \in done
  PROVE  /\ InOrder(ids, done \cup {ids[k]})
         /\ Prefix(ids, done) = k - 1
         /\ Prefix(ids, done \cup {ids[k]}) = k
<1>1. \A i \in 1..k - 1 : ids[i] \in done
  BY DEF InOrder
<1>2. EndsAt(k - 1, ids, done)
  BY <1>1 DEF EndsAt
<1>3. \A i \in k + 1..Len(ids) : ids[i] \notin done
  BY DEF InOrder
<1>4. EndsAt(k, ids, done \cup {ids[k]})
  BY <1>1, <1>3 DEF EndsAt, Distinct
<1>5. InOrder(ids, done \cup {ids[k]})
  BY <1>1 DEF InOrder, Distinct
<1> QED
  BY <1>2, <1>4, <1>5, PrefixIs

\* ... and stays where it is when another step is done.
LEMMA ChainStays ==
  ASSUME NEW ids, Len(ids) \in Nat, NEW done, InOrder(ids, done),
         NEW id, \A i \in 1..Len(ids) : ids[i] # id
  PROVE  /\ InOrder(ids, done \cup {id})
         /\ Prefix(ids, done \cup {id}) = Prefix(ids, done)
<1>1. InOrder(ids, done \cup {id})
  BY DEF InOrder
<1>2. EndsAt(Prefix(ids, done), ids, done \cup {id})
  BY PrefixIs DEF EndsAt
<1> QED
  BY <1>1, <1>2, PrefixIs

-----------------------------------------------------------------------------
(* The chain that the validator fixes.                                     *)

Register == "register-observer-access-compensation"
ProvisionId == "provision-observer-access"
RevokeId == "revoke-observer-access"

LEMMA ChainLength ==
  Len(ObserverChain) = 11 /\ DOMAIN ObserverChain = 1..11
BY DEF ObserverChain

\* The ids of the chain and of the two steps that freeze and author.
LEMMA ChainFacts ==
  /\ Len(AccessIds) = 11 /\ Distinct(AccessIds)
  /\ \A k \in 1..11 : AccessIds[k] = ObserverChain[k].id
  /\ AccessIds[2] = Register
  /\ AccessIds[3] = ProvisionId /\ ObserverChain[3].action = ProvisionAction
  /\ AccessIds[11] = RevokeId /\ ObserverChain[11].action = RevokeAction
  /\ Len(WrittenIds) = 2 /\ Distinct(WrittenIds)
  /\ \A i \in 1..2, k \in 1..11 : WrittenIds[i] # AccessIds[k]
<1>1. DOMAIN AccessIds = 1..11 /\ \A k \in 1..11 : AccessIds[k] = ObserverChain[k].id
  BY ChainLength DEF AccessIds
<1>4. /\ AccessIds[1] = "await-human-merge" /\ AccessIds[2] = Register
      /\ AccessIds[3] = ProvisionId /\ AccessIds[4] = "attest-observer-access"
      /\ AccessIds[5] = "issue-observer-credential" /\ AccessIds[6] = "observe-gitops"
      /\ AccessIds[7] = "store-observation-evidence"
      /\ AccessIds[8] = "issue-http-probe-credential" /\ AccessIds[9] = "verify-runtime"
      /\ AccessIds[10] = "store-http-probe-result" /\ AccessIds[11] = RevokeId
  BY <1>1 DEF ObserverChain, Register, ProvisionId, RevokeId
<1>3. Len(AccessIds) = 11
  <2>1. AccessIds \in Seq({ObserverChain[k].id : k \in 1..11})
    <3>1. AccessIds = [k \in 1..11 |-> ObserverChain[k].id]
      BY ChainLength DEF AccessIds
    <3> QED
      BY <3>1
  <2> QED
    BY <1>1, <2>1
<1>5. Distinct(AccessIds)
  BY <1>3, <1>4 DEF Distinct, Register, ProvisionId, RevokeId
<1>6. Len(WrittenIds) = 2 /\ Distinct(WrittenIds)
  BY DEF WrittenIds, Distinct
<1>7. \A i \in 1..2, k \in 1..11 : WrittenIds[i] # AccessIds[k]
  BY <1>4 DEF WrittenIds, Register, ProvisionId, RevokeId
<1>8. ObserverChain[3].action = ProvisionAction /\ ObserverChain[11].action = RevokeAction
  BY DEF ObserverChain, ProvisionAction, RevokeAction
<1> QED
  BY <1>1, <1>3, <1>4, <1>5, <1>6, <1>7, <1>8

\* An accepted bundle has accepted paths and profiles.
LEMMA AcceptedPath ==
  ASSUME NEW edit \in Publishable, NEW path \in Paths(Bundles[edit].tree)
  PROVE  PathOk(path, Bundles[edit].tree, Bundles[edit].index.registries)
BY DEF Publishable, Accepted, SemanticsOk

LEMMA AcceptedProfile ==
  ASSUME NEW edit \in Publishable, NEW path \in Paths(Bundles[edit].tree),
         IsObserved(path, Bundles[edit].tree)
  PROVE  LET profile == ProfileOf(path, Bundles[edit].tree)
         IN  NamesOk(profile.observer) /\ profile.compensation = FullCompensation
<1> DEFINE tree == Bundles[edit].tree
           registries == Bundles[edit].index.registries
<1>1. BindingOk(path, tree) /\ HasProfile(path)
  BY AcceptedPath DEF PathOk, IsObserved
<1>2. path.profile \in IdsOf(Profiles(tree))
  BY <1>1 DEF BindingOk
<1>3. ProfileOf(path, tree) \in Profiles(tree)
  BY <1>2 DEF IdsOf, ProfileOf, TheDoc
<1>4. DeliveryProfileOk(ProfileOf(path, tree), registries)
  BY <1>3 DEF Publishable, Accepted, SemanticsOk, ProfilesOk
<1> QED
  BY <1>4 DEF DeliveryProfileOk, ObserverOk, IsObserved

\* An observed path takes its access away when it is compensated.
LEMMA AcceptedCompensation ==
  ASSUME NEW edit \in Publishable, NEW path \in Paths(Bundles[edit].tree),
         IsObserved(path, Bundles[edit].tree)
  PROVE  path.compensation.action = FullCompensation.action
<1>1. CompensationOk(path, Bundles[edit].tree, Bundles[edit].index.registries)
  BY AcceptedPath DEF PathOk
<1> QED
  BY <1>1, AcceptedProfile DEF CompensationOk, IsObserved

\* Every step of the chain is in the workflow, and whatever has its id has its
\* action and needs the step before it.
LEMMA AcceptedSteps ==
  ASSUME NEW edit \in Publishable, NEW path \in Paths(Bundles[edit].tree),
         IsObserved(path, Bundles[edit].tree)
  PROVE  /\ \E i \in DOMAIN path.workflow : path.workflow[i].id = RevokeId
         /\ \A i \in DOMAIN path.workflow :
               LET step == path.workflow[i]
               IN  /\ \A k \in 2..11 : step.id = AccessIds[k] =>
                         /\ step.action = ObserverChain[k].action
                         /\ step.needs = {AccessIds[k - 1]}
                   /\ step.id = WrittenIds[2] => step.needs = {WrittenIds[1]}
<1> DEFINE registries == Bundles[edit].index.registries
           flow == path.workflow
<1>1. WorkflowOk(path, registries) /\ ObserverChainOk(path) /\ FreezeOk(path)
  BY AcceptedPath DEF PathOk
<1>2. edit \in DOMAIN Bundles
  BY DEF Publishable
<1>3. flow \in Seq([id : STRING, action : STRING, needs : SUBSET STRING])
  BY <1>2, PathAssumption
<1>4. \A i, j \in DOMAIN flow : flow[i].id = flow[j].id => i = j
  <2> SUFFICES ASSUME NEW i \in DOMAIN flow, NEW j \in DOMAIN flow, flow[i].id = flow[j].id
               PROVE  i = j
    OBVIOUS
  <2>1. i \in Nat /\ j \in Nat /\ i >= 1 /\ j >= 1
    BY <1>3
  <2>2. ~(j < i)
    BY <1>1, <2>1 DEF WorkflowOk
  <2>3. ~(i < j)
    BY <1>1, <2>1 DEF WorkflowOk
  <2> QED
    BY <2>1, <2>2, <2>3
<1>5. ASSUME NEW k \in 2..11
      PROVE  /\ HasStep(path, AccessIds[k], ObserverChain[k].action)
             /\ NeedsExactly(path, AccessIds[k], {AccessIds[k - 1]})
  <2>1. k \in 2..Len(ObserverChain)
    BY ChainLength
  <2>2. k \in 1..11 /\ k - 1 \in 1..11
    OBVIOUS
  <2>3. AccessIds[k] = ObserverChain[k].id /\ AccessIds[k - 1] = ObserverChain[k - 1].id
    BY <2>2, ChainFacts
  <2> QED
    BY <1>1, <2>1, <2>3 DEF ObserverChainOk
<1>6. \E i \in DOMAIN flow : flow[i].id = RevokeId
  <2>1. HasStep(path, AccessIds[11], ObserverChain[11].action)
    BY <1>5
  <2> QED
    BY <2>1, ChainFacts DEF HasStep
<1>7. ASSUME NEW i \in DOMAIN flow, NEW k \in 2..11, flow[i].id = AccessIds[k]
      PROVE  flow[i].action = ObserverChain[k].action /\ flow[i].needs = {AccessIds[k - 1]}
  BY <1>4, <1>5, <1>7 DEF HasStep, NeedsExactly
<1>8. ASSUME NEW i \in DOMAIN flow, flow[i].id = WrittenIds[2]
      PROVE  flow[i].needs = {WrittenIds[1]}
  BY <1>1, <1>4, <1>8 DEF FreezeOk, NeedsExactly, WrittenIds
<1> QED
  BY <1>6, <1>7, <1>8

-----------------------------------------------------------------------------
(* Work orders run what is published.                                      *)

IsPublished(edit) ==
  main = <<[tree |-> Bundles[edit].tree, registries |-> Bundles[edit].index.registries]>>

PublishedInv == main = <<>> \/ \E edit \in Publishable : IsPublished(edit)

IsOrder(o) == o = [status |-> o.status, path |-> o.path, done |-> o.done]

\* An order has a path, which is no draft, from when it is asked for.
OrderInv ==
  /\ orders = [w \in WorkOrders |-> orders[w]]
  /\ \A w \in WorkOrders :
        /\ IsOrder(orders[w])
        /\ orders[w].status = "none" => orders[w].done = {}
        /\ orders[w].status # "none" =>
              main # <<>> /\ PathOf(w) \in Paths(Tree) /\ PathOf(w).state # "draft"

LEMMA PublishedTree ==
  ASSUME NEW edit, IsPublished(edit)
  PROVE  main # <<>> /\ Tree = Bundles[edit].tree
BY DEF IsPublished, Tree

\* The rules for requests admit no draft.
LEMMA NoDraftAdmitted ==
  ASSUME NEW edit \in Publishable, NEW request,
         RequestOk(request, Bundles[edit].tree)
  PROVE  LET path == TheDoc(Paths(Bundles[edit].tree), request.path)
         IN  path \in Paths(Bundles[edit].tree) /\ path.state # "draft"
<1> DEFINE tree == Bundles[edit].tree
           path == TheDoc(Paths(tree), request.path)
<1>1. path \in Paths(tree) /\ path.id = request.path
  BY DEF RequestOk, IdsOf, TheDoc
<1>2. AdmissionOk(path, tree)
  BY <1>1, AcceptedPath DEF PathOk
<1>3. PICK i \in DOMAIN path.realms : path.realms[i] = request.realm
  BY DEF RequestOk, ToSet
<1>4. path.id \in TheDoc(Realms(tree), path.realms[i]).paths
  BY <1>1, <1>3 DEF RequestOk
<1> QED
  BY <1>1, <1>2, <1>4 DEF AdmissionOk

\* A step of a work order that only changes its status or what it has done.
Touches(w, status, done) ==
  /\ UNCHANGED main
  /\ \A v \in WorkOrders \ {w} : orders'[v] = orders[v]
  /\ orders'[w] = [status |-> status, path |-> orders[w].path, done |-> done]
  /\ orders' = [v \in WorkOrders |-> orders'[v]]

LEMMA TouchesDid ==
  ASSUME OrderInv, NEW w \in WorkOrders, NEW step, Did(w, step), UNCHANGED main
  PROVE  Touches(w, orders[w].status, orders[w].done \cup {step.id})
<1> DEFINE done == orders[w].done \cup {step.id}
<1>1. /\ orders = [v \in WorkOrders |-> orders[v]]
      /\ orders[w] = [status |-> orders[w].status, path |-> orders[w].path,
                      done |-> orders[w].done]
  BY DEF OrderInv, IsOrder
<1>2. orders' = [orders EXCEPT ![w] = [orders[w] EXCEPT !.done = done]]
  BY DEF Did
<1>3. orders'[w] = [orders[w] EXCEPT !.done = done]
  BY <1>1, <1>2
<1>4. orders'[w] = [status |-> orders[w].status, path |-> orders[w].path, done |-> done]
  BY <1>1, <1>3
<1>5. \A v \in WorkOrders \ {w} : orders'[v] = orders[v]
  BY <1>1, <1>2
<1>6. orders' = [v \in WorkOrders |-> orders'[v]]
  BY <1>1, <1>2
<1> QED
  BY <1>4, <1>5, <1>6 DEF Touches

LEMMA TouchesStatus ==
  ASSUME OrderInv, NEW w \in WorkOrders, NEW status, UNCHANGED main,
         orders' = [orders EXCEPT ![w].status = status]
  PROVE  Touches(w, status, orders[w].done)
BY DEF OrderInv, IsOrder, Touches

LEMMA OrderTouched ==
  ASSUME OrderInv, NEW w \in WorkOrders, NEW status, NEW done,
         orders[w].status # "none", status # "none", Touches(w, status, done)
  PROVE  OrderInv'
BY DEF OrderInv, IsOrder, Touches, PathOf, Tree

LEMMA OrderInit == Init => PublishedInv /\ OrderInv
BY DEF Init, PublishedInv, OrderInv, NoOrder, IsOrder

\* What a running order does, whatever it is.
LEMMA PerformTouches ==
  ASSUME OrderInv, NEW w \in WorkOrders, NEW i \in Steps(w), Perform(w, Workflow(w)[i])
  PROVE  /\ orders[w].status = "running" /\ i \in DOMAIN Workflow(w)
         /\ CanRun(w, Workflow(w)[i])
         /\ Touches(w, "running", orders[w].done \cup {Workflow(w)[i].id})
<1> DEFINE step == Workflow(w)[i]
<1>1. orders[w].status = "running" /\ i \in DOMAIN Workflow(w)
  BY DEF Steps
<1>2. CanRun(w, step) /\ Did(w, step) /\ UNCHANGED main
  BY DEF Perform, Provision, Revoke, Run
<1> QED
  BY <1>1, <1>2, TouchesDid

LEMMA OrderStep ==
  ASSUME PublishedInv, OrderInv, [Next]_vars
  PROVE  PublishedInv' /\ OrderInv'
<1>1. CASE UNCHANGED vars
  BY <1>1 DEF vars, PublishedInv, IsPublished, OrderInv, PathOf, Tree
<1>2. CASE \E edit \in DOMAIN Bundles : Publish(edit)
  <2>1. PICK edit \in DOMAIN Bundles : Publish(edit)
    BY <1>2
  <2>2. PublishedInv'
    BY <2>1 DEF Publish, PublishedInv, IsPublished
  <2>3. OrderInv'
    BY <2>1 DEF Publish, OrderInv, PathOf, Tree
  <2> QED
    BY <2>2, <2>3
<1>3. ASSUME NEW w \in WorkOrders, NEW request \in Requests, Ask(w, request)
      PROVE  PublishedInv' /\ OrderInv'
  <2>1. PICK edit \in Publishable : IsPublished(edit)
    BY <1>3 DEF Ask, PublishedInv
  <2> DEFINE path == TheDoc(Paths(Tree), request.path)
  <2>2. path \in Paths(Tree) /\ path.state # "draft"
    BY <1>3, <2>1, PublishedTree, NoDraftAdmitted DEF Ask
  <2>3. /\ UNCHANGED main /\ main # <<>>
        /\ orders' = [orders EXCEPT ![w] = [status |-> "running", done |-> {}, path |-> path]]
    BY <1>3 DEF Ask
  <2>4. OrderInv'
    BY <2>2, <2>3 DEF OrderInv, IsOrder, PathOf, Tree
  <2> QED
    BY <2>3, <2>4 DEF PublishedInv, IsPublished
<1>4. ASSUME NEW w \in WorkOrders, NEW i \in Steps(w), Perform(w, Workflow(w)[i])
      PROVE  PublishedInv' /\ OrderInv'
  <2>1. OrderInv'
    BY <1>4, PerformTouches, OrderTouched
  <2>2. UNCHANGED main
    BY <1>4, PerformTouches DEF Touches
  <2> QED
    BY <2>1, <2>2 DEF PublishedInv, IsPublished
<1>5. ASSUME NEW w \in WorkOrders, Complete(w) \/ Fail(w) \/ Compensate(w)
      PROVE  PublishedInv' /\ OrderInv'
  <2>1. /\ UNCHANGED main /\ orders[w].status # "none"
        /\ \E status \in {"completed", "failed", "compensated"} :
              orders' = [orders EXCEPT ![w].status = status]
    BY <1>5 DEF Complete, Fail, Compensate
  <2>2. PICK status \in {"completed", "failed", "compensated"} :
              orders' = [orders EXCEPT ![w].status = status]
    BY <2>1
  <2>3. OrderInv'
    BY <2>1, <2>2, TouchesStatus, OrderTouched
  <2> QED
    BY <2>1, <2>3 DEF PublishedInv, IsPublished
<1> QED
  BY <1>1, <1>2, <1>3, <1>4, <1>5 DEF Next

LEMMA PublishedForGood == PublishedInv /\ OrderInv => OrdersArePromoted
<1> SUFFICES ASSUME PublishedInv, OrderInv,
                    NEW w \in WorkOrders, orders[w].status # "none"
             PROVE  LET path == PathOf(w)
                    IN  /\ path.state # "draft"
                        /\ TheDoc(Products(Tree), path.product).lifecycle = path.state
                        /\ \A id \in path.entities : TheDoc(Entities(Tree), id).state = path.state
                        /\ HasProfile(path) => ProfileOf(path, Tree).state = path.state
                        /\ IsObserved(path, Tree) =>
                             TheDoc(ProbeProfiles(Tree), ProfileOf(path, Tree).runtime.profile).state
                                = path.state
                        /\ \A i \in DOMAIN path.realms :
                             path.state \in TheDoc(Realms(Tree), path.realms[i]).states
  BY DEF OrdersArePromoted
<1> DEFINE path == PathOf(w)
<1>1. main # <<>> /\ path \in Paths(Tree) /\ path.state # "draft"
  BY DEF OrderInv
<1>2. PICK edit \in Publishable : IsPublished(edit)
  BY <1>1 DEF PublishedInv
<1>3. Tree = Bundles[edit].tree
  BY <1>2, PublishedTree
<1>4. PathOk(path, Tree, Bundles[edit].index.registries)
  BY <1>1, <1>3, AcceptedPath
<1>5. /\ ProductOk(path, Tree) /\ BindingOk(path, Tree) /\ ClassesOk(path, Tree)
      /\ IsObserved(path, Tree) => ProbeProfileOk(path, Tree)
      /\ AdmissionOk(path, Tree)
  BY <1>4 DEF PathOk
<1>6. TheDoc(Products(Tree), path.product).lifecycle = path.state
  BY <1>5 DEF ProductOk
<1>7. \A id \in path.entities : TheDoc(Entities(Tree), id).state = path.state
  BY <1>5 DEF ClassesOk
<1>8. HasProfile(path) => ProfileOf(path, Tree).state = path.state
  BY <1>5 DEF BindingOk
<1>9. IsObserved(path, Tree) =>
        TheDoc(ProbeProfiles(Tree), ProfileOf(path, Tree).runtime.profile).state = path.state
  BY <1>5 DEF ProbeProfileOk
<1>10. \A i \in DOMAIN path.realms : path.state \in TheDoc(Realms(Tree), path.realms[i]).states
  BY <1>1, <1>5 DEF AdmissionOk
<1> QED
  BY <1>1, <1>6, <1>7, <1>8, <1>9, <1>10

\* A work order runs a path whose product, classes, profiles and Realms are all
\* in the path's own state, never a draft, whatever was published: the checks
\* of the seven kinds of files add up.
THEOREM PromotedTogether == Spec => []OrdersArePromoted
<1>1. PublishedInv /\ OrderInv /\ [Next]_vars => (PublishedInv /\ OrderInv)'
  BY OrderStep
<1> QED
  BY OrderInit, <1>1, PublishedForGood, PTL DEF Spec

-----------------------------------------------------------------------------
(* The steps of observed orders are done in the order of the chain.        *)

StepsInv ==
  \A w \in WorkOrders : orders[w].status # "none" /\ Observed(w) =>
     InOrder(AccessIds, orders[w].done) /\ InOrder(WrittenIds, orders[w].done)

LEMMA OrderPath ==
  ASSUME PublishedInv, OrderInv, NEW w \in WorkOrders, orders[w].status # "none"
  PROVE  \E edit \in Publishable :
            /\ Tree = Bundles[edit].tree
            /\ PathOf(w) \in Paths(Bundles[edit].tree)
            /\ Observed(w) <=> IsObserved(PathOf(w), Bundles[edit].tree)
<1>1. main # <<>> /\ PathOf(w) \in Paths(Tree)
  BY DEF OrderInv
<1>2. PICK edit \in Publishable : IsPublished(edit)
  BY <1>1 DEF PublishedInv
<1> QED
  BY <1>1, <1>2, PublishedTree DEF Observed

\* One more step, done after the one before it, is one step of one of the
\* two chains or of neither.
ChainsMove(done, id) ==
  LET after == done \cup {id}
  IN  /\ InOrder(AccessIds, after) /\ InOrder(WrittenIds, after)
      /\ \A k \in 1..11 : id = AccessIds[k] =>
            /\ Prefix(AccessIds, done) = k - 1 /\ Prefix(AccessIds, after) = k
            /\ Prefix(WrittenIds, after) = Prefix(WrittenIds, done)
      /\ \A k \in 1..2 : id = WrittenIds[k] =>
            /\ Prefix(WrittenIds, done) = k - 1 /\ Prefix(WrittenIds, after) = k
            /\ Prefix(AccessIds, after) = Prefix(AccessIds, done)
      /\ (\A k \in 1..11 : id # AccessIds[k]) /\ (\A k \in 1..2 : id # WrittenIds[k]) =>
            /\ Prefix(AccessIds, after) = Prefix(AccessIds, done)
            /\ Prefix(WrittenIds, after) = Prefix(WrittenIds, done)

LEMMA ChainsStep ==
  ASSUME NEW done, NEW id, id \notin done,
         InOrder(AccessIds, done), InOrder(WrittenIds, done),
         \A k \in 2..11 : id = AccessIds[k] => AccessIds[k - 1] \in done,
         id = WrittenIds[2] => WrittenIds[1] \in done
  PROVE  ChainsMove(done, id)
<1> DEFINE after == done \cup {id}
<1>1. /\ Len(AccessIds) = 11 /\ Distinct(AccessIds)
      /\ Len(WrittenIds) = 2 /\ Distinct(WrittenIds)
      /\ \A i \in 1..2, k \in 1..11 : WrittenIds[i] # AccessIds[k]
  BY ChainFacts
<1>2. ASSUME NEW ids, Len(ids) \in Nat, InOrder(ids, done), \A i \in 1..Len(ids) : ids[i] # id
      PROVE  InOrder(ids, after) /\ Prefix(ids, after) = Prefix(ids, done)
  BY <1>2, ChainStays
<1>3. ASSUME NEW ids, Len(ids) \in Nat, Distinct(ids), InOrder(ids, done),
             NEW k \in 1..Len(ids), id = ids[k], k > 1 => ids[k - 1] \in done
      PROVE  InOrder(ids, after) /\ Prefix(ids, done) = k - 1 /\ Prefix(ids, after) = k
  BY <1>3, ChainAdvances
<1> HIDE DEF after
<1>4. ASSUME NEW k \in 1..11, id = AccessIds[k]
      PROVE  /\ InOrder(AccessIds, after) /\ Prefix(AccessIds, done) = k - 1
             /\ Prefix(AccessIds, after) = k
             /\ InOrder(WrittenIds, after) /\ Prefix(WrittenIds, after) = Prefix(WrittenIds, done)
  <2>1. k > 1 => AccessIds[k - 1] \in done
    BY <1>4
  <2>2. /\ InOrder(AccessIds, after) /\ Prefix(AccessIds, done) = k - 1
        /\ Prefix(AccessIds, after) = k
    BY SMTT(30), <1>1, <1>3, <1>4, <2>1
  <2>3. InOrder(WrittenIds, after) /\ Prefix(WrittenIds, after) = Prefix(WrittenIds, done)
    BY <1>1, <1>2, <1>4
  <2> QED
    BY <2>2, <2>3
<1>5. ASSUME NEW k \in 1..2, id = WrittenIds[k]
      PROVE  /\ InOrder(WrittenIds, after) /\ Prefix(WrittenIds, done) = k - 1
             /\ Prefix(WrittenIds, after) = k
             /\ InOrder(AccessIds, after) /\ Prefix(AccessIds, after) = Prefix(AccessIds, done)
  <2>1. k > 1 => WrittenIds[k - 1] \in done
    BY <1>5
  <2>2. /\ InOrder(WrittenIds, after) /\ Prefix(WrittenIds, done) = k - 1
        /\ Prefix(WrittenIds, after) = k
    BY <1>1, <1>3, <1>5, <2>1
  <2>3. InOrder(AccessIds, after) /\ Prefix(AccessIds, after) = Prefix(AccessIds, done)
    BY SMTT(30), <1>1, <1>2, <1>5
  <2> QED
    BY <2>2, <2>3
<1>6. ASSUME \A k \in 1..11 : id # AccessIds[k], \A k \in 1..2 : id # WrittenIds[k]
      PROVE  /\ InOrder(AccessIds, after) /\ Prefix(AccessIds, after) = Prefix(AccessIds, done)
             /\ InOrder(WrittenIds, after) /\ Prefix(WrittenIds, after) = Prefix(WrittenIds, done)
  BY <1>1, <1>2, <1>6
<1> QED
  BY <1>4, <1>5, <1>6 DEF ChainsMove, after

\* So it is when an observed order performs a step of its workflow.
LEMMA OrderedStep ==
  ASSUME PublishedInv, OrderInv, StepsInv, NEW w \in WorkOrders, Observed(w),
         NEW i \in Steps(w), CanRun(w, Workflow(w)[i])
  PROVE  ChainsMove(orders[w].done, Workflow(w)[i].id)
<1> DEFINE step == Workflow(w)[i]
           done == orders[w].done
<1>1. orders[w].status = "running" /\ i \in DOMAIN PathOf(w).workflow
  BY DEF Steps, Workflow
<1>2. InOrder(AccessIds, done) /\ InOrder(WrittenIds, done)
  BY <1>1 DEF StepsInv
<1>3. step.id \notin done /\ step.needs \subseteq done
  BY DEF CanRun
<1>4. PICK edit \in Publishable :
         PathOf(w) \in Paths(Bundles[edit].tree) /\ IsObserved(PathOf(w), Bundles[edit].tree)
  BY <1>1, OrderPath
<1>5. /\ \A k \in 2..11 : step.id = AccessIds[k] => step.needs = {AccessIds[k - 1]}
      /\ step.id = WrittenIds[2] => step.needs = {WrittenIds[1]}
  BY <1>1, <1>4, AcceptedSteps DEF Workflow
<1>6. /\ \A k \in 2..11 : step.id = AccessIds[k] => AccessIds[k - 1] \in done
      /\ step.id = WrittenIds[2] => WrittenIds[1] \in done
  BY <1>3, <1>5
<1> HIDE DEF step, done
<1>7. ChainsMove(done, step.id)
  BY <1>2, <1>3, <1>6, ChainsStep
<1> QED
  BY <1>7 DEF step, done

\* A step that only changes the status or the done steps of w leaves the path
\* and the names of every order.
LEMMA TouchesKeeps ==
  ASSUME NEW w, NEW status, NEW done, Touches(w, status, done), NEW v \in WorkOrders
  PROVE  Observed(v)' = Observed(v) /\ NamesFor(v)' = NamesFor(v)
<1>1. orders'[v].path = orders[v].path /\ main' = main
  BY DEF Touches
<1>2. PathOf(v)' = PathOf(v) /\ Tree' = Tree
  BY <1>1 DEF PathOf, Tree
<1> QED
  BY <1>2 DEF Observed, NamesFor

LEMMA StepsTouched ==
  ASSUME StepsInv, NEW w \in WorkOrders, NEW status, NEW done, Touches(w, status, done),
         orders[w].status # "none",
         Observed(w) => InOrder(AccessIds, done) /\ InOrder(WrittenIds, done)
  PROVE  StepsInv'
<1> SUFFICES ASSUME NEW v \in WorkOrders, orders'[v].status # "none", Observed(v)'
             PROVE  InOrder(AccessIds, orders'[v].done) /\ InOrder(WrittenIds, orders'[v].done)
  BY DEF StepsInv
<1>1. Observed(v)
  BY TouchesKeeps
<1>2. CASE v = w
  BY <1>1, <1>2 DEF Touches
<1>3. CASE v # w
  BY <1>1, <1>3 DEF Touches, StepsInv
<1> QED
  BY <1>2, <1>3

\* Nothing done, nothing out of order.
LEMMA NothingInOrder ==
  ASSUME NEW ids, Len(ids) \in Nat
  PROVE  InOrder(ids, {}) /\ Prefix(ids, {}) = 0
<1>1. EndsAt(0, ids, {})
  BY DEF EndsAt
<1> QED
  BY <1>1, PrefixIs DEF InOrder

LEMMA StepsStep ==
  ASSUME PublishedInv, OrderInv, StepsInv, [Next]_vars
  PROVE  StepsInv'
<1>1. CASE UNCHANGED vars
  BY <1>1 DEF vars, StepsInv, Observed, PathOf, Tree
<1>2. ASSUME NEW edit \in DOMAIN Bundles, Publish(edit)
      PROVE  StepsInv'
  BY <1>2 DEF Publish, StepsInv, OrderInv
<1>3. ASSUME NEW w \in WorkOrders, NEW request \in Requests, Ask(w, request)
      PROVE  StepsInv'
  <2>1. orders'[w].done = {}
    BY <1>3 DEF Ask, OrderInv
  <2>2. ASSUME NEW v \in WorkOrders, v # w
        PROVE  orders'[v] = orders[v] /\ Observed(v)' = Observed(v)
    BY <1>3, <2>2 DEF Ask, OrderInv, Observed, PathOf, Tree
  <2>3. InOrder(AccessIds, {}) /\ InOrder(WrittenIds, {})
    BY ChainFacts, NothingInOrder
  <2> QED
    BY <2>1, <2>2, <2>3 DEF StepsInv
<1>4. ASSUME NEW w \in WorkOrders, NEW i \in Steps(w), Perform(w, Workflow(w)[i])
      PROVE  StepsInv'
  <2> DEFINE after == orders[w].done \cup {Workflow(w)[i].id}
  <2>1. /\ orders[w].status = "running" /\ CanRun(w, Workflow(w)[i])
        /\ Touches(w, "running", after)
    BY <1>4, PerformTouches
  <2>2. Observed(w) => InOrder(AccessIds, after) /\ InOrder(WrittenIds, after)
    BY <2>1, OrderedStep DEF ChainsMove
  <2> QED
    BY <2>1, <2>2, StepsTouched
<1>5. ASSUME NEW w \in WorkOrders, Complete(w) \/ Fail(w) \/ Compensate(w)
      PROVE  StepsInv'
  <2>1. /\ UNCHANGED main /\ orders[w].status # "none"
        /\ \E status \in {"completed", "failed", "compensated"} :
              orders' = [orders EXCEPT ![w].status = status]
    BY <1>5 DEF Complete, Fail, Compensate
  <2>2. PICK status \in {"completed", "failed", "compensated"} :
              orders' = [orders EXCEPT ![w].status = status]
    BY <2>1
  <2>3. Touches(w, status, orders[w].done)
    BY <2>1, <2>2, TouchesStatus
  <2> QED
    BY <2>1, <2>3, StepsTouched DEF StepsInv
<1> QED
  BY <1>1, <1>2, <1>3, <1>4, <1>5 DEF Next

-----------------------------------------------------------------------------
(* The objects in the cluster belong to orders that are using them.        *)

Holds(n, w) ==
  /\ w \in WorkOrders /\ orders[w].status \notin {"none", "completed", "compensated"}
  /\ Observed(w) /\ n \in NamesFor(w)
  /\ ProvisionId \in orders[w].done /\ RevokeId \notin orders[w].done

GrantsInv == \A n \in DOMAIN grants : Holds(n, grants[n])

\* The names of an observer's objects say whose they are.
LEMMA NamesContainOrder ==
  ASSUME PublishedInv, OrderInv, NEW w \in WorkOrders, orders[w].status # "none", Observed(w)
  PROVE  NamesFor(w) # {} /\ \A n \in NamesFor(w) : n[3] = w
<1> DEFINE observer == ProfileOf(PathOf(w), Tree).observer
<1>1. NamesOk(observer)
  BY OrderPath, AcceptedProfile
<1>2. \A role \in ObserverObjects : observer.names[role].fields = {"workOrderId"}
  BY <1>1 DEF NamesOk
<1>3. "serviceAccount" \in ObserverObjects
  BY DEF ObserverObjects
<1>4. \A role \in ObserverObjects : NameFor(w, role, observer.names[role])[3] = w
  BY <1>2 DEF NameFor
<1> HIDE DEF observer
<1>5. NamesFor(w) = {NameFor(w, role, observer.names[role]) : role \in ObserverObjects}
  BY DEF NamesFor, observer
<1> QED
  BY <1>3, <1>4, <1>5

\* Only the chain of an observed order creates the objects and takes them away.
LEMMA ChainActions ==
  ASSUME OnlyChainTouchesAccess, PublishedInv, OrderInv, NEW w \in WorkOrders,
         NEW i \in Steps(w)
  PROVE  LET step == Workflow(w)[i]
         IN  /\ step.action = ProvisionAction => Observed(w) /\ step.id = ProvisionId
             /\ step.action = RevokeAction => Observed(w) /\ step.id = RevokeId
             /\ Observed(w) /\ step.id = ProvisionId => step.action = ProvisionAction
             /\ Observed(w) /\ step.id = RevokeId => step.action = RevokeAction
<1>1. orders[w].status = "running" /\ i \in DOMAIN PathOf(w).workflow
  BY DEF Steps, Workflow
<1>2. PICK edit \in Publishable :
         /\ PathOf(w) \in Paths(Bundles[edit].tree)
         /\ Observed(w) <=> IsObserved(PathOf(w), Bundles[edit].tree)
  BY <1>1, OrderPath
<1>3. ASSUME Observed(w)
      PROVE  \A k \in 2..11 : Workflow(w)[i].id = AccessIds[k] =>
                Workflow(w)[i].action = ObserverChain[k].action
  BY <1>1, <1>2, <1>3, AcceptedSteps DEF Workflow
<1>4. /\ Observed(w) /\ Workflow(w)[i].id = ProvisionId => Workflow(w)[i].action = ProvisionAction
      /\ Observed(w) /\ Workflow(w)[i].id = RevokeId => Workflow(w)[i].action = RevokeAction
  BY <1>3, ChainFacts
<1> QED
  BY <1>1, <1>2, <1>4 DEF OnlyChainTouchesAccess, Workflow, ProvisionId, RevokeId

\* What an order holds it goes on holding while it goes on.
LEMMA HoldsTouched ==
  ASSUME NEW w \in WorkOrders, NEW status, NEW done, Touches(w, status, done),
         status \notin {"none", "completed", "compensated"},
         orders[w].done \subseteq done,
         Observed(w) /\ RevokeId \in done => RevokeId \in orders[w].done,
         NEW n, NEW v, Holds(n, v)
  PROVE  Holds(n, v)'
<1>1. Observed(v)' = Observed(v) /\ NamesFor(v)' = NamesFor(v)
  BY TouchesKeeps DEF Holds
<1>2. CASE v = w
  BY <1>1, <1>2 DEF Holds, Touches
<1>3. CASE v # w
  BY <1>1, <1>3 DEF Holds, Touches
<1> QED
  BY <1>2, <1>3

LEMMA HoldsOther ==
  ASSUME NEW w \in WorkOrders, NEW status, NEW done, Touches(w, status, done),
         NEW n, NEW v, Holds(n, v), v # w
  PROVE  Holds(n, v)'
<1>1. Observed(v)' = Observed(v) /\ NamesFor(v)' = NamesFor(v)
  BY TouchesKeeps DEF Holds
<1> QED
  BY <1>1 DEF Holds, Touches

\* Revoking takes away all that the order holds, and nothing else.
LEMMA Taken ==
  ASSUME PublishedInv, OrderInv, GrantsInv, NEW w \in WorkOrders,
         orders[w].status # "none", Observed(w), grants' = Without(NamesFor(w))
  PROVE  /\ DOMAIN grants' = {n \in DOMAIN grants : grants[n] # w}
         /\ \A n \in DOMAIN grants' : grants'[n] = grants[n]
<1>1. ASSUME NEW n \in DOMAIN grants PROVE n \in NamesFor(w) <=> grants[n] = w
  <2>1. Holds(n, grants[n])
    BY <1>1 DEF GrantsInv
  <2>2. n[3] = grants[n]
    BY <2>1, NamesContainOrder DEF Holds
  <2>3. n \in NamesFor(w) => n[3] = w
    BY NamesContainOrder
  <2> QED
    BY <2>1, <2>2, <2>3 DEF Holds
<1>2. /\ DOMAIN grants' = DOMAIN grants \ NamesFor(w)
      /\ \A n \in DOMAIN grants' : grants'[n] = grants[n]
  BY DEF Without
<1> QED
  BY <1>1, <1>2

\* A completed order has revoked what it had.
LEMMA CompletedRevoked ==
  ASSUME PublishedInv, OrderInv, NEW w \in WorkOrders, Observed(w), Complete(w)
  PROVE  RevokeId \in orders[w].done
<1>1. orders[w].status = "running"
  BY DEF Complete
<1>2. PICK edit \in Publishable :
         PathOf(w) \in Paths(Bundles[edit].tree) /\ IsObserved(PathOf(w), Bundles[edit].tree)
  BY <1>1, OrderPath
<1>3. PICK i \in DOMAIN PathOf(w).workflow : PathOf(w).workflow[i].id = RevokeId
  BY <1>2, AcceptedSteps
<1> QED
  BY <1>1, <1>3 DEF Complete, Steps, Workflow

\* A compensated order that had created its objects gives them up: the clean-up
\* was registered before.
LEMMA CompensatedTakes ==
  ASSUME PublishedInv, OrderInv, StepsInv, NEW w \in WorkOrders,
         orders[w].status # "none", Observed(w), ProvisionId \in orders[w].done
  PROVE  TakesAccess(w)
<1>1. PICK edit \in Publishable :
         PathOf(w) \in Paths(Bundles[edit].tree) /\ IsObserved(PathOf(w), Bundles[edit].tree)
  BY OrderPath
<1>2. PathOf(w).compensation.action = FullCompensation.action
  BY <1>1, AcceptedCompensation
<1>3. InOrder(AccessIds, orders[w].done)
  BY DEF StepsInv
<1>4. Register \in orders[w].done
  <2>1. AccessIds[3] \in orders[w].done => \A k \in 1..3 - 1 : AccessIds[k] \in orders[w].done
    BY <1>3, ChainFacts DEF InOrder
  <2> QED
    BY <2>1, ChainFacts
<1> QED
  BY <1>2, <1>4 DEF TakesAccess, Register

AccessInv == PublishedInv /\ OrderInv /\ StepsInv /\ GrantsInv

LEMMA AccessInit == Init => AccessInv
<1>1. Init => StepsInv /\ GrantsInv
  BY DEF Init, NoOrder, StepsInv, GrantsInv
<1> QED
  BY <1>1, OrderInit DEF AccessInv

\* What each step of a work order does to what is held.
LEMMA ProvisionHolds ==
  ASSUME OnlyChainTouchesAccess, AccessInv, NEW w \in WorkOrders, NEW i \in Steps(w),
         Provision(w, Workflow(w)[i])
  PROVE  GrantsInv'
<1> DEFINE step == Workflow(w)[i]
           after == orders[w].done \cup {step.id}
<1>1. PublishedInv /\ OrderInv /\ StepsInv /\ GrantsInv
  BY DEF AccessInv
<1>2. /\ orders[w].status = "running" /\ step.id \notin orders[w].done
      /\ Touches(w, "running", after)
  BY <1>1, PerformTouches DEF Perform, CanRun
<1>3. Observed(w) /\ step.id = ProvisionId
  BY <1>1, ChainActions DEF Provision
<1>4. ProvisionId # RevokeId
  BY DEF ProvisionId, RevokeId
<1>5. RevokeId \notin orders[w].done
  <2>1. InOrder(AccessIds, orders[w].done)
    BY <1>1, <1>2, <1>3 DEF StepsInv
  <2>2. AccessIds[11] \in orders[w].done => \A k \in 1..11 - 1 : AccessIds[k] \in orders[w].done
    BY <2>1, ChainFacts DEF InOrder
  <2> QED
    BY <1>2, <1>3, <2>2, ChainFacts
<1>6. ASSUME NEW n \in NamesFor(w) PROVE Holds(n, w)'
  <2>1. Observed(w)' = Observed(w) /\ NamesFor(w)' = NamesFor(w)
    BY <1>2, TouchesKeeps
  <2> QED
    BY <1>2, <1>3, <1>4, <1>5, <1>6, <2>1 DEF Holds, Touches
<1>7. ASSUME NEW n \in DOMAIN grants, NEW v, v = grants[n] PROVE Holds(n, v)'
  BY <1>1, <1>2, <1>3, <1>4, <1>7, HoldsTouched DEF GrantsInv
<1>8. grants' = [n \in DOMAIN grants \cup NamesFor(w) |->
                   IF n \in NamesFor(w) THEN w ELSE grants[n]]
  BY DEF Provision
<1>9. ASSUME NEW n \in DOMAIN grants' PROVE Holds(n, grants[n])'
  <2>1. CASE n \in NamesFor(w)
    BY <1>6, <1>8, <2>1
  <2>2. CASE n \notin NamesFor(w)
    BY <1>7, <1>8, <1>9, <2>2
  <2> QED
    BY <2>1, <2>2
<1> QED
  BY <1>9 DEF GrantsInv

LEMMA RevokeHolds ==
  ASSUME OnlyChainTouchesAccess, AccessInv, NEW w \in WorkOrders, NEW i \in Steps(w),
         Revoke(w, Workflow(w)[i])
  PROVE  GrantsInv'
<1>1. PublishedInv /\ OrderInv /\ StepsInv /\ GrantsInv
  BY DEF AccessInv
<1>2. /\ orders[w].status = "running"
      /\ Touches(w, "running", orders[w].done \cup {Workflow(w)[i].id})
  BY <1>1, PerformTouches DEF Perform
<1>3. Observed(w)
  BY <1>1, ChainActions DEF Revoke
<1>4. grants' = Without(NamesFor(w))
  BY DEF Revoke
<1>5. /\ DOMAIN grants' = {n \in DOMAIN grants : grants[n] # w}
      /\ \A n \in DOMAIN grants' : grants'[n] = grants[n]
  BY <1>1, <1>2, <1>3, <1>4, Taken
<1>6. ASSUME NEW n \in DOMAIN grants' PROVE Holds(n, grants[n])'
  <2>1. n \in DOMAIN grants /\ grants[n] # w /\ grants'[n] = grants[n]
    BY <1>5, <1>6
  <2>2. Holds(n, grants[n])
    BY <1>1, <2>1 DEF GrantsInv
  <2> QED
    BY <1>2, <2>1, <2>2, HoldsOther
<1> QED
  BY <1>6 DEF GrantsInv

LEMMA RunHolds ==
  ASSUME OnlyChainTouchesAccess, AccessInv, NEW w \in WorkOrders, NEW i \in Steps(w),
         Run(w, Workflow(w)[i])
  PROVE  GrantsInv'
<1> DEFINE step == Workflow(w)[i]
<1>1. PublishedInv /\ OrderInv /\ StepsInv /\ GrantsInv
  BY DEF AccessInv
<1>2. Touches(w, "running", orders[w].done \cup {step.id}) /\ UNCHANGED grants
  BY <1>1, PerformTouches DEF Perform, Run
<1>3. Observed(w) => step.id # RevokeId
  BY <1>1, ChainActions DEF Run
<1>4. ASSUME NEW n \in DOMAIN grants PROVE Holds(n, grants[n])'
  BY <1>1, <1>2, <1>3, <1>4, HoldsTouched DEF GrantsInv
<1> QED
  BY <1>2, <1>4 DEF GrantsInv

LEMMA EndHolds ==
  ASSUME AccessInv, NEW w \in WorkOrders, Complete(w) \/ Fail(w)
  PROVE  GrantsInv'
<1>1. PublishedInv /\ OrderInv /\ StepsInv /\ GrantsInv
  BY DEF AccessInv
<1>2. UNCHANGED <<main, grants>>
  BY DEF Complete, Fail
<1>3. CASE Complete(w)
  <2>1. Touches(w, "completed", orders[w].done)
    BY <1>1, <1>2, <1>3, TouchesStatus DEF Complete
  <2>2. ASSUME NEW n \in DOMAIN grants PROVE Holds(n, grants[n])'
    <3>1. Holds(n, grants[n])
      BY <1>1 DEF GrantsInv
    <3>2. grants[n] # w
      BY <1>1, <1>3, <3>1, CompletedRevoked DEF Holds
    <3> QED
      BY <1>2, <2>1, <3>1, <3>2, HoldsOther
  <2> QED
    BY <1>2, <2>2 DEF GrantsInv
<1>4. CASE Fail(w)
  <2>1. Touches(w, "failed", orders[w].done)
    BY <1>1, <1>2, <1>4, TouchesStatus DEF Fail
  <2>2. ASSUME NEW n \in DOMAIN grants PROVE Holds(n, grants[n])'
    BY <1>1, <1>2, <2>1, <2>2, HoldsTouched DEF GrantsInv
  <2> QED
    BY <1>2, <2>2 DEF GrantsInv
<1> QED
  BY <1>3, <1>4

LEMMA CompensateHolds ==
  ASSUME AccessInv, NEW w \in WorkOrders, Compensate(w)
  PROVE  GrantsInv'
<1>1. PublishedInv /\ OrderInv /\ StepsInv /\ GrantsInv
  BY DEF AccessInv
<1>2. orders[w].status = "failed" /\ Touches(w, "compensated", orders[w].done)
  BY <1>1, TouchesStatus DEF Compensate
<1>3. ASSUME NEW n \in DOMAIN grants'
      PROVE  n \in DOMAIN grants /\ grants'[n] = grants[n] /\ grants[n] # w
  <2>1. CASE TakesAccess(w)
    <3>1. grants' = Without(NamesFor(w)) /\ Observed(w)
      BY <2>1 DEF Compensate, TakesAccess
    <3> QED
      BY <1>1, <1>2, <1>3, <3>1, Taken
  <2>2. CASE ~TakesAccess(w)
    <3>1. grants' = grants
      BY <2>2 DEF Compensate
    <3>2. Holds(n, grants[n])
      BY <1>1, <1>3, <3>1 DEF GrantsInv
    <3> QED
      BY <1>1, <1>2, <1>3, <2>2, <3>1, <3>2, CompensatedTakes DEF Holds
  <2> QED
    BY <2>1, <2>2
<1>4. ASSUME NEW n \in DOMAIN grants' PROVE Holds(n, grants[n])'
  <2>1. Holds(n, grants[n])
    BY <1>1, <1>3, <1>4 DEF GrantsInv
  <2> QED
    BY <1>2, <1>3, <1>4, <2>1, HoldsOther
<1> QED
  BY <1>4 DEF GrantsInv

LEMMA AccessStep ==
  ASSUME OnlyChainTouchesAccess, AccessInv, [Next]_vars
  PROVE  AccessInv'
<1>1. PublishedInv /\ OrderInv /\ StepsInv /\ GrantsInv
  BY DEF AccessInv
<1>2. (PublishedInv /\ OrderInv /\ StepsInv)'
  BY <1>1, OrderStep, StepsStep
<1>3. GrantsInv'
  <2>1. CASE UNCHANGED vars
    BY <1>1, <2>1 DEF vars, GrantsInv, Holds, Observed, NamesFor, PathOf, Tree
  <2>2. ASSUME NEW edit \in DOMAIN Bundles, Publish(edit)
        PROVE  GrantsInv'
    BY <1>1, <2>2 DEF Publish, GrantsInv, Holds, OrderInv
  <2>3. ASSUME NEW w \in WorkOrders, NEW request \in Requests, Ask(w, request)
        PROVE  GrantsInv'
    <3>1. ASSUME NEW v \in WorkOrders, v # w
          PROVE  /\ orders'[v] = orders[v] /\ Observed(v)' = Observed(v)
                 /\ NamesFor(v)' = NamesFor(v)
      BY <1>1, <2>3, <3>1 DEF Ask, OrderInv, Observed, NamesFor, PathOf, Tree
    <3>2. ASSUME NEW n \in DOMAIN grants
          PROVE  Holds(n, grants[n]) /\ grants[n] # w
      BY <1>1, <2>3, <3>2 DEF Ask, GrantsInv, Holds
    <3>3. UNCHANGED grants
      BY <2>3 DEF Ask
    <3> QED
      BY <3>1, <3>2, <3>3 DEF GrantsInv, Holds
  <2>4. ASSUME NEW w \in WorkOrders, NEW i \in Steps(w), Perform(w, Workflow(w)[i])
        PROVE  GrantsInv'
    BY <2>4, ProvisionHolds, RevokeHolds, RunHolds DEF Perform
  <2>5. ASSUME NEW w \in WorkOrders, Complete(w) \/ Fail(w) \/ Compensate(w)
        PROVE  GrantsInv'
    BY <2>5, EndHolds, CompensateHolds
  <2> QED
    BY <2>1, <2>2, <2>3, <2>4, <2>5 DEF Next
<1> QED
  BY <1>2, <1>3 DEF AccessInv

\* Where only the chain creates and takes away observer objects, no work order
\* that completed or was compensated has any left, at whatever step it failed
\* and whatever the others did.
THEOREM NoAccessLeft ==
    ASSUME OnlyChainTouchesAccess
    PROVE  Spec => []EndedOrdersHoldNoAccess
<1>1. AccessInv /\ [Next]_vars => AccessInv'
  BY AccessStep
<1>2. AccessInv => EndedOrdersHoldNoAccess
  BY DEF AccessInv, GrantsInv, Holds, EndedOrdersHoldNoAccess
<1> QED
  BY AccessInit, <1>1, <1>2, PTL DEF Spec

\* ... and every observer object in the cluster belongs to a work order whose
\* clean-up had been registered before.
THEOREM CleanUpRegisteredFirst ==
    ASSUME OnlyChainTouchesAccess
    PROVE  Spec => []RegisteredBeforeCreation
<1>1. AccessInv /\ [Next]_vars => AccessInv'
  BY AccessStep
<1>2. AccessInv => RegisteredBeforeCreation
  <2> SUFFICES ASSUME AccessInv, NEW n \in DOMAIN grants
               PROVE  Register \in orders[grants[n]].done
    BY DEF RegisteredBeforeCreation, Register
  <2>1. Holds(n, grants[n]) /\ PublishedInv /\ OrderInv /\ StepsInv
    BY DEF AccessInv, GrantsInv
  <2>2. TakesAccess(grants[n])
    BY <2>1, CompensatedTakes DEF Holds
  <2> QED
    BY <2>2 DEF TakesAccess, Register
<1> QED
  BY AccessInit, <1>1, <1>2, PTL DEF Spec

-----------------------------------------------------------------------------
(* The life cycle of the access: every step of a work order is a step of   *)
(* AccessLifecycle for it, or none.                                        *)

Ended == {"completed", "failed", "compensated"}

\* The promise sees of an order only how far its two chains are.
LEMMA SeenTouched ==
  ASSUME OrderInv, NEW w \in WorkOrders, NEW status, NEW done, Touches(w, status, done),
         orders[w].status # "none", status # "none"
  PROVE  /\ Written' = [Written EXCEPT ![w] = IF Observed(w) THEN Prefix(WrittenIds, done) ELSE 0]
         /\ Access' = [Access EXCEPT ![w] = IF Observed(w) THEN Prefix(AccessIds, done) ELSE 0]
         /\ Over' = IF status \in Ended THEN Over \cup {w} ELSE Over \ {w}
<1>1. \A v \in WorkOrders : Observed(v)' = Observed(v)
  BY TouchesKeeps
<1>2. /\ \A v \in WorkOrders \ {w} : orders'[v] = orders[v]
      /\ orders'[w].status = status /\ orders'[w].done = done
  BY DEF Touches
<1>3. ASSUME NEW ids
      PROVE  /\ \A v \in WorkOrders \ {w} : Progress(v, ids)' = Progress(v, ids)
             /\ Progress(w, ids)' = IF Observed(w) THEN Prefix(ids, done) ELSE 0
  BY <1>1, <1>2 DEF Progress
<1>4. Written' = [Written EXCEPT ![w] = IF Observed(w) THEN Prefix(WrittenIds, done) ELSE 0]
  BY <1>3 DEF Written
<1>5. Access' = [Access EXCEPT ![w] = IF Observed(w) THEN Prefix(AccessIds, done) ELSE 0]
  BY <1>3 DEF Access
<1>6. Over' = IF status \in Ended THEN Over \cup {w} ELSE Over \ {w}
  BY <1>2 DEF Over, Ended
<1> QED
  BY <1>4, <1>5, <1>6

LEMMA SeenNow ==
  ASSUME NEW w \in WorkOrders, orders[w].status # "none"
  PROVE  /\ Written[w] = (IF Observed(w) THEN Prefix(WrittenIds, orders[w].done) ELSE 0)
         /\ Access[w] = (IF Observed(w) THEN Prefix(AccessIds, orders[w].done) ELSE 0)
         /\ Written = [v \in WorkOrders |-> Written[v]]
         /\ Access = [v \in WorkOrders |-> Access[v]]
         /\ w \in Over <=> orders[w].status \in Ended
BY DEF Written, Access, Over, Progress, Ended

LEMMA RunningSeen ==
  ASSUME AccessInv, NEW w \in WorkOrders, NEW i \in Steps(w), Perform(w, Workflow(w)[i])
  PROVE  LET after == orders[w].done \cup {Workflow(w)[i].id}
         IN  /\ w \notin Over /\ Over' = Over
             /\ Written' = [Written EXCEPT ![w] =
                              IF Observed(w) THEN Prefix(WrittenIds, after) ELSE 0]
             /\ Access' = [Access EXCEPT ![w] =
                              IF Observed(w) THEN Prefix(AccessIds, after) ELSE 0]
<1> DEFINE after == orders[w].done \cup {Workflow(w)[i].id}
<1>1. OrderInv /\ orders[w].status = "running" /\ Touches(w, "running", after)
  BY PerformTouches DEF AccessInv
<1>2. w \notin Over
  BY <1>1 DEF Over
<1> QED
  BY <1>1, <1>2, SeenTouched DEF Ended

LEMMA Proceeds ==
  ASSUME NEW w \in WorkOrders, w \notin Over, UNCHANGED <<Over, Written>>,
         NEW k \in 1..11, Access[w] = k - 1, Access = [v \in WorkOrders |-> Access[v]],
         Access' = [Access EXCEPT ![w] = k],
         Live' = IF k = 3 THEN Live \cup {w} ELSE IF k = 11 THEN Live \ {w} ELSE Live
  PROVE  Lifecycle!Next
<1>1. Access[w] + 1 = k /\ Access[w] < 11
  OBVIOUS
<1>2. Access' = [Access EXCEPT ![w] = Access[w] + 1]
  BY <1>1
<1>3. Access'[w] = k
  OBVIOUS
<1>4. Lifecycle!Proceed(w)
  BY <1>1, <1>2, <1>3 DEF Lifecycle!Proceed, Lifecycle!Revoked, Lifecycle!Provisioned
<1> QED
  BY <1>4 DEF Lifecycle!Next

LEMMA Writes ==
  ASSUME NEW w \in WorkOrders, w \notin Over, UNCHANGED <<Over, Access, Live>>,
         NEW k \in 1..2, Written[w] = k - 1, Written = [v \in WorkOrders |-> Written[v]],
         Written' = [Written EXCEPT ![w] = k]
  PROVE  Lifecycle!Next
<1>1. Written[w] + 1 = k /\ Written[w] < 2
  OBVIOUS
<1>2. Written' = [Written EXCEPT ![w] = Written[w] + 1]
  BY <1>1
<1>3. Lifecycle!Write(w)
  BY <1>1, <1>2 DEF Lifecycle!Write, Lifecycle!Authored
<1> QED
  BY <1>3 DEF Lifecycle!Next

LEMMA Stutters ==
  ASSUME UNCHANGED <<Written, Access, Live, Over>>
  PROVE  [Lifecycle!Next]_(Lifecycle!vars)
BY DEF Lifecycle!vars

\* Performing a step, given what it does to the objects.
LEMMA PerformSimulates ==
  ASSUME AccessInv, NEW w \in WorkOrders, NEW i \in Steps(w), Perform(w, Workflow(w)[i]),
         Live' = IF Observed(w) /\ Workflow(w)[i].id = AccessIds[3] THEN Live \cup {w}
                 ELSE IF Observed(w) /\ Workflow(w)[i].id = AccessIds[11] THEN Live \ {w}
                 ELSE Live
  PROVE  [Lifecycle!Next]_(Lifecycle!vars)
<1> DEFINE id == Workflow(w)[i].id
           done == orders[w].done
           after == done \cup {id}
<1>1. /\ w \notin Over /\ Over' = Over
      /\ Written' = [Written EXCEPT ![w] = IF Observed(w) THEN Prefix(WrittenIds, after) ELSE 0]
      /\ Access' = [Access EXCEPT ![w] = IF Observed(w) THEN Prefix(AccessIds, after) ELSE 0]
  BY RunningSeen
<1>2. orders[w].status = "running" /\ CanRun(w, Workflow(w)[i])
  BY PerformTouches DEF AccessInv
<1>3. /\ Written[w] = (IF Observed(w) THEN Prefix(WrittenIds, done) ELSE 0)
      /\ Access[w] = (IF Observed(w) THEN Prefix(AccessIds, done) ELSE 0)
      /\ Written = [v \in WorkOrders |-> Written[v]]
      /\ Access = [v \in WorkOrders |-> Access[v]]
  BY <1>2, SeenNow
<1>4. Live' = IF Observed(w) /\ id = AccessIds[3] THEN Live \cup {w}
              ELSE IF Observed(w) /\ id = AccessIds[11] THEN Live \ {w} ELSE Live
  OBVIOUS
<1>5. Observed(w) => ChainsMove(done, id)
  BY <1>2, OrderedStep DEF AccessInv
<1> HIDE DEF id, done, after
<1>6. CASE ~Observed(w)
  <2>1. Written' = Written /\ Access' = Access
    BY <1>1, <1>3, <1>6
  <2> QED
    BY <1>1, <1>4, <1>6, <2>1, Stutters
<1>7. CASE Observed(w) /\ \E k \in 1..11 : id = AccessIds[k]
  <2>1. PICK k \in 1..11 : id = AccessIds[k]
    BY <1>7
  <2>2. /\ Prefix(AccessIds, done) = k - 1 /\ Prefix(AccessIds, after) = k
        /\ Prefix(WrittenIds, after) = Prefix(WrittenIds, done)
    BY <1>5, <1>7, <2>1 DEF ChainsMove, after
  <2>3. Written' = Written
    BY <1>1, <1>3, <1>7, <2>2
  <2>4. Access[w] = k - 1 /\ Access' = [Access EXCEPT ![w] = k]
    BY <1>1, <1>3, <1>7, <2>2
  <2>5. \A j \in 1..11 : id = AccessIds[j] <=> j = k
    BY <2>1, ChainFacts DEF Distinct
  <2>6. Live' = IF k = 3 THEN Live \cup {w} ELSE IF k = 11 THEN Live \ {w} ELSE Live
    <3>1. (id = AccessIds[3] <=> k = 3) /\ (id = AccessIds[11] <=> k = 11)
      BY <2>5
    <3> QED
      BY <1>4, <1>7, <3>1
  <2> QED
    BY <1>1, <1>3, <2>3, <2>4, <2>6, Proceeds
<1>8. CASE Observed(w) /\ \E k \in 1..2 : id = WrittenIds[k]
  <2>1. PICK k \in 1..2 : id = WrittenIds[k]
    BY <1>8
  <2>2. /\ Prefix(WrittenIds, done) = k - 1 /\ Prefix(WrittenIds, after) = k
        /\ Prefix(AccessIds, after) = Prefix(AccessIds, done)
    BY <1>5, <1>8, <2>1 DEF ChainsMove, after
  <2>3. Access' = Access
    BY <1>1, <1>3, <1>8, <2>2
  <2>4. Written[w] = k - 1 /\ Written' = [Written EXCEPT ![w] = k]
    BY <1>1, <1>3, <1>8, <2>2
  <2>5. id # AccessIds[3] /\ id # AccessIds[11]
    BY <2>1, ChainFacts
  <2> QED
    BY <1>1, <1>3, <1>4, <2>3, <2>4, <2>5, Writes
<1>9. CASE Observed(w) /\ (\A k \in 1..11 : id # AccessIds[k])
                       /\ (\A k \in 1..2 : id # WrittenIds[k])
  <2>1. /\ Prefix(AccessIds, after) = Prefix(AccessIds, done)
        /\ Prefix(WrittenIds, after) = Prefix(WrittenIds, done)
    BY <1>5, <1>9 DEF ChainsMove, after
  <2>2. Written' = Written /\ Access' = Access
    BY <1>1, <1>3, <1>9, <2>1
  <2> QED
    BY <1>1, <1>4, <1>9, <2>2, Stutters
<1> QED
  BY <1>6, <1>7, <1>8, <1>9

\* What each kind of step does to the objects.
LEMMA ProvisionLive ==
  ASSUME OnlyChainTouchesAccess, AccessInv, NEW w \in WorkOrders, NEW i \in Steps(w),
         Provision(w, Workflow(w)[i])
  PROVE  Live' = Live \cup {w}
<1>1. PublishedInv /\ OrderInv /\ orders[w].status = "running"
  BY DEF AccessInv, Steps
<1>2. Observed(w)
  BY <1>1, ChainActions DEF Provision
<1>3. PICK name : name \in NamesFor(w)
  BY <1>1, <1>2, NamesContainOrder
<1>4. /\ NamesFor(w) \cap DOMAIN grants = {}
      /\ grants' = [n \in DOMAIN grants \cup NamesFor(w) |->
                      IF n \in NamesFor(w) THEN w ELSE grants[n]]
  BY DEF Provision
<1>5. /\ DOMAIN grants' = DOMAIN grants \cup NamesFor(w)
      /\ \A n \in NamesFor(w) : grants'[n] = w
      /\ \A n \in DOMAIN grants : grants'[n] = grants[n]
  BY <1>4
<1> QED
  BY <1>3, <1>5 DEF Live

LEMMA TakenLive ==
  ASSUME AccessInv, NEW w \in WorkOrders, orders[w].status # "none", Observed(w),
         grants' = Without(NamesFor(w))
  PROVE  Live' = Live \ {w}
<1>1. /\ DOMAIN grants' = {n \in DOMAIN grants : grants[n] # w}
      /\ \A n \in DOMAIN grants' : grants'[n] = grants[n]
  BY Taken DEF AccessInv
<1> QED
  BY <1>1 DEF Live

LEMMA StepSimulates ==
  ASSUME OnlyChainTouchesAccess, AccessInv, NEW w \in WorkOrders, NEW i \in Steps(w),
         Perform(w, Workflow(w)[i])
  PROVE  [Lifecycle!Next]_(Lifecycle!vars)
<1> DEFINE step == Workflow(w)[i]
<1>1. /\ step.action = ProvisionAction => Observed(w) /\ step.id = AccessIds[3]
      /\ step.action = RevokeAction => Observed(w) /\ step.id = AccessIds[11]
      /\ Observed(w) /\ step.id = AccessIds[3] => step.action = ProvisionAction
      /\ Observed(w) /\ step.id = AccessIds[11] => step.action = RevokeAction
  BY ChainActions, ChainFacts DEF AccessInv
<1>2. AccessIds[3] # AccessIds[11] /\ ProvisionAction # RevokeAction
  BY ChainFacts DEF ProvisionId, RevokeId, ProvisionAction, RevokeAction
<1>3. orders[w].status = "running"
  BY DEF Steps
<1>4. CASE Provision(w, step)
  <2>1. step.action = ProvisionAction
    BY <1>4 DEF Provision
  <2>2. Live' = Live \cup {w}
    BY <1>4, ProvisionLive
  <2> QED
    BY <1>1, <2>1, <2>2, PerformSimulates
<1>5. CASE Revoke(w, step)
  <2>1. step.action = RevokeAction /\ grants' = Without(NamesFor(w))
    BY <1>5 DEF Revoke
  <2>2. Live' = Live \ {w}
    BY <1>1, <1>3, <2>1, TakenLive
  <2> QED
    BY <1>1, <1>2, <2>1, <2>2, PerformSimulates
<1>6. CASE Run(w, step)
  <2>1. step.action \notin {ProvisionAction, RevokeAction} /\ UNCHANGED grants
    BY <1>6 DEF Run
  <2>2. Live' = Live
    BY <2>1 DEF Live
  <2> QED
    BY <1>1, <2>1, <2>2, PerformSimulates
<1> QED
  BY <1>4, <1>5, <1>6 DEF Perform

LEMMA RegisteredPrefix ==
  ASSUME NEW done, InOrder(AccessIds, done), Register \in done
  PROVE  Prefix(AccessIds, done) >= 2
<1> DEFINE p == Prefix(AccessIds, done)
<1>1. Len(AccessIds) = 11 /\ AccessIds[2] \in done
  BY ChainFacts
<1>2. AccessIds[1] \in done
  <2>1. \A i \in 1..2 - 1 : AccessIds[i] \in done
    BY <1>1 DEF InOrder
  <2> QED
    BY <2>1
<1>3. EndsAt(p, AccessIds, done)
  BY <1>1, PrefixIs
<1>4. p \in 0..11 /\ (p < 11 => AccessIds[p + 1] \notin done)
  BY <1>1, <1>3 DEF EndsAt
<1>5. p # 0 /\ p # 1
  <2>1. p = 0 => AccessIds[1] \notin done
    BY <1>4
  <2>2. p = 1 => AccessIds[2] \notin done
    BY <1>4
  <2> QED
    BY <1>1, <1>2, <2>1, <2>2
<1> QED
  BY <1>4, <1>5

\* The end of an order, and its clean-up.
LEMMA EndSimulates ==
  ASSUME AccessInv, NEW w \in WorkOrders, Complete(w) \/ Fail(w) \/ Compensate(w)
  PROVE  [Lifecycle!Next]_(Lifecycle!vars)
<1> DEFINE done == orders[w].done
<1>1. OrderInv /\ orders[w].status # "none"
  BY DEF AccessInv, Complete, Fail, Compensate
<1>2. PICK status \in Ended : orders' = [orders EXCEPT ![w].status = status] /\ UNCHANGED main
  BY DEF Complete, Fail, Compensate, Ended
<1>3. Touches(w, status, done)
  BY <1>1, <1>2, TouchesStatus
<1>4. status # "none"
  BY DEF Ended
<1>5. /\ Written' = [Written EXCEPT ![w] = IF Observed(w) THEN Prefix(WrittenIds, done) ELSE 0]
      /\ Access' = [Access EXCEPT ![w] = IF Observed(w) THEN Prefix(AccessIds, done) ELSE 0]
      /\ Over' = Over \cup {w}
  BY <1>1, <1>2, <1>3, <1>4, SeenTouched
<1>6. Written' = Written /\ Access' = Access
  <2>1. /\ Written[w] = (IF Observed(w) THEN Prefix(WrittenIds, done) ELSE 0)
        /\ Access[w] = (IF Observed(w) THEN Prefix(AccessIds, done) ELSE 0)
        /\ Written = [v \in WorkOrders |-> Written[v]]
        /\ Access = [v \in WorkOrders |-> Access[v]]
    BY <1>1, SeenNow
  <2> QED
    BY <1>5, <2>1
<1>7. CASE Complete(w) \/ Fail(w)
  <2>1. w \notin Over
    BY <1>7 DEF Over, Complete, Fail
  <2>2. Live' = Live
    BY <1>7 DEF Live, Complete, Fail
  <2>3. Lifecycle!End(w)
    BY <1>5, <1>6, <2>1, <2>2 DEF Lifecycle!End
  <2> QED
    BY <2>3 DEF Lifecycle!Next
<1>8. CASE Compensate(w)
  <2>1. w \in Over
    BY <1>8 DEF Over, Compensate
  <2>2. Over' = Over
    BY <1>5, <2>1
  <2>3. CASE TakesAccess(w)
    <3>1. Observed(w) /\ Register \in done
      BY <2>3 DEF TakesAccess, Register
    <3>2. Live' = Live \ {w}
      BY <1>1, <1>8, <2>3, <3>1, TakenLive DEF Compensate
    <3>3. Access[w] = Prefix(AccessIds, done)
      BY <1>1, <3>1, SeenNow
    <3>4. InOrder(AccessIds, done)
      BY <1>1, <3>1 DEF AccessInv, StepsInv
    <3>5. Prefix(AccessIds, done) >= 2
      BY <3>1, <3>4, RegisteredPrefix
    <3>6. Lifecycle!CleanUp(w)
      BY <1>6, <2>1, <2>2, <3>2, <3>3, <3>5 DEF Lifecycle!CleanUp, Lifecycle!Registered
    <3> QED
      BY <3>6 DEF Lifecycle!Next
  <2>4. CASE ~TakesAccess(w)
    <3>1. Live' = Live
      BY <1>8, <2>4 DEF Live, Compensate
    <3> QED
      BY <1>6, <2>2, <3>1, Stutters
  <2> QED
    BY <2>3, <2>4
<1> QED
  BY <1>7, <1>8

\* A request and a publication are not seen.
LEMMA AskSimulates ==
  ASSUME AccessInv, NEW w \in WorkOrders, NEW request \in Requests, Ask(w, request)
  PROVE  [Lifecycle!Next]_(Lifecycle!vars)
<1>1. /\ OrderInv /\ orders[w].status = "none" /\ UNCHANGED <<main, grants>>
      /\ orders'[w].status = "running" /\ orders'[w].done = {}
      /\ \A v \in WorkOrders : v # w => orders'[v] = orders[v]
  BY DEF AccessInv, OrderInv, Ask
<1>2. Prefix(AccessIds, {}) = 0 /\ Prefix(WrittenIds, {}) = 0
  BY ChainFacts, NothingInOrder
<1>3. \A v \in WorkOrders : Progress(v, AccessIds)' = Progress(v, AccessIds)
                         /\ Progress(v, WrittenIds)' = Progress(v, WrittenIds)
  BY <1>1, <1>2 DEF Progress, Observed, PathOf, Tree
<1>4. Written' = Written /\ Access' = Access
  BY <1>3 DEF Written, Access
<1>5. Live' = Live /\ Over' = Over
  BY <1>1 DEF Live, Over
<1> QED
  BY <1>4, <1>5, Stutters

LEMMA PublishSimulates ==
  ASSUME AccessInv, NEW edit, Publish(edit)
  PROVE  [Lifecycle!Next]_(Lifecycle!vars)
<1>1. UNCHANGED <<orders, grants>> /\ \A w \in WorkOrders : orders[w].status = "none"
  BY DEF AccessInv, OrderInv, Publish
<1>2. \A v \in WorkOrders : Progress(v, AccessIds)' = Progress(v, AccessIds)
                         /\ Progress(v, WrittenIds)' = Progress(v, WrittenIds)
  BY <1>1 DEF Progress
<1>3. Written' = Written /\ Access' = Access
  BY <1>2 DEF Written, Access
<1>4. Live' = Live /\ Over' = Over
  BY <1>1 DEF Live, Over
<1> QED
  BY <1>3, <1>4, Stutters

LEMMA UnchangedSimulates ==
  ASSUME UNCHANGED vars
  PROVE  [Lifecycle!Next]_(Lifecycle!vars)
BY Stutters DEF vars, Written, Access, Live, Over, Progress, Observed, PathOf, Tree

LEMMA LifecycleInit == Init => Lifecycle!Init
BY DEF Init, NoOrder, Lifecycle!Init, Written, Access, Live, Over, Progress

\* Where only the chain creates and takes away observer objects, whatever else
\* an accepted workflow says, in whatever order its steps run and however many
\* orders run at once, each order keeps to the life cycle of AccessLifecycle.
THEOREM LifecycleKept ==
    ASSUME OnlyChainTouchesAccess
    PROVE  Spec => KeepsLifecycle
<1>1. AccessInv /\ [Next]_vars => AccessInv'
  BY AccessStep
<1>2. AccessInv /\ [Next]_vars => [Lifecycle!Next]_(Lifecycle!vars)
  BY UnchangedSimulates, PublishSimulates, AskSimulates, StepSimulates, EndSimulates
  DEF Next
<1> QED
  BY AccessInit, LifecycleInit, <1>1, <1>2, PTL DEF Spec, KeepsLifecycle, Lifecycle!Spec

=============================================================================
