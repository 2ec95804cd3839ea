----------------------------- MODULE PlatformPath -----------------------------
(***************************************************************************)
(* From an edit of the platform contracts to the work orders it            *)
(* authorizes.  An edit is published when the validator accepts the bundle *)
(* it makes.  A request that the validator's rules admit becomes a work    *)
(* order pinned to that bundle, and an executor outside this repository    *)
(* (Omnius) runs the workflow of its path: a step whose needs are done and *)
(* whose action is registered may run at any time, several work orders     *)
(* interleave, and a work order may fail at any point, after which its     *)
(* path's compensation runs.                                               *)
(*                                                                         *)
(* So a check of the text of a workflow is judged by what the workflow     *)
(* does, in every order of steps the text allows.                          *)
(***************************************************************************)
EXTENDS PlatformContracts

CONSTANTS Bundles,     \* edit -> the bundle it makes
          Requests,    \* requests that users send
          WorkOrders

\* A workflow is a JSON array of steps.
ASSUME PathAssumption ==
  \A edit \in DOMAIN Bundles : \A path \in Paths(Bundles[edit].tree) :
     path.workflow \in Seq([id : STRING, action : STRING, needs : SUBSET STRING])

VARIABLES main,    \* <<tree and registries of the published bundle>>, or <<>>
          orders,  \* [WorkOrders -> [status, path, done]]
          grants   \* observer objects in the cluster: name -> work order

vars == <<main, orders, grants>>

Nothing == "nothing"
NoOrder == [status |-> "none", path |-> <<>>, done |-> {}]

Tree == main[1].tree
Registries == main[1].registries

PathOf(w) == orders[w].path
Workflow(w) == PathOf(w).workflow
Observed(w) == IsObserved(PathOf(w), Tree)

(* The names of the objects that w's observer needs, and whether the       *)
(* cluster takes them.                                                     *)
NameFor(w, role, template) ==
  <<role, template.fixed, IF "workOrderId" \in template.fields THEN w ELSE Nothing>>

NamesFor(w) ==
  LET names == ProfileOf(PathOf(w), Tree).observer.names
  IN  {NameFor(w, role, names[role]) : role \in ObserverObjects}

NamesFit(w) ==
  LET names == ProfileOf(PathOf(w), Tree).observer.names
  IN  \A role \in ObserverObjects : NameLength(names[role]) <= NameLimit

Without(names) == [n \in DOMAIN grants \ names |-> grants[n]]

Init ==
  /\ main = <<>>
  /\ orders = [w \in WorkOrders |-> NoOrder]
  /\ grants = <<>>

Publishable == {edit \in DOMAIN Bundles : Accepted(Bundles[edit])}

Publish(edit) ==
  /\ main = <<>>
  /\ edit \in Publishable
  /\ main' = <<[tree |-> Bundles[edit].tree, registries |-> Bundles[edit].index.registries]>>
  /\ UNCHANGED <<orders, grants>>

Ask(w, request) ==
  /\ main # <<>> /\ orders[w].status = "none"
  /\ RequestOk(request, Tree)
  /\ orders' = [orders EXCEPT ![w] =
                  [status |-> "running", done |-> {},
                   path |-> TheDoc(Paths(Tree), request.path)]]
  /\ UNCHANGED <<main, grants>>

ProvisionAction == "delivery.provision-observer-access/v1"
RevokeAction == "delivery.revoke-observer-access/v1"

(* The steps a work order may perform, as indices of its workflow.          *)
Steps(w) == IF orders[w].status = "running" THEN DOMAIN Workflow(w) ELSE {}

CanRun(w, step) ==
  /\ step.id \notin orders[w].done
  /\ step.needs \subseteq orders[w].done
  /\ step.action \in Registries.actions

Did(w, step) == orders' = [orders EXCEPT ![w].done = @ \cup {step.id}]

Provision(w, step) ==
  /\ CanRun(w, step) /\ step.action = ProvisionAction
  /\ NamesFit(w) /\ NamesFor(w) \cap DOMAIN grants = {}
  /\ grants' = [n \in DOMAIN grants \cup NamesFor(w) |->
                  IF n \in NamesFor(w) THEN w ELSE grants[n]]
  /\ Did(w, step) /\ UNCHANGED main

Revoke(w, step) ==
  /\ CanRun(w, step) /\ step.action = RevokeAction
  /\ grants' = Without(NamesFor(w))
  /\ Did(w, step) /\ UNCHANGED main

Run(w, step) ==
  /\ CanRun(w, step) /\ step.action \notin {ProvisionAction, RevokeAction}
  /\ Did(w, step) /\ UNCHANGED <<main, grants>>

Perform(w, step) == Provision(w, step) \/ Revoke(w, step) \/ Run(w, step)

Complete(w) ==
  /\ orders[w].status = "running" /\ \A i \in Steps(w) : Workflow(w)[i].id \in orders[w].done
  /\ orders' = [orders EXCEPT ![w].status = "completed"]
  /\ UNCHANGED <<main, grants>>

Fail(w) ==
  /\ orders[w].status = "running"
  /\ orders' = [orders EXCEPT ![w].status = "failed"]
  /\ UNCHANGED <<main, grants>>

(* The compensation of the path; the full one also takes away the          *)
(* observer's access, by the plan that was registered for it.              *)
TakesAccess(w) ==
  /\ Observed(w)
  /\ PathOf(w).compensation.action = FullCompensation.action
  /\ "register-observer-access-compensation" \in orders[w].done

Compensate(w) ==
  /\ orders[w].status = "failed"
  /\ orders' = [orders EXCEPT ![w].status = "compensated"]
  /\ grants' = IF TakesAccess(w) THEN Without(NamesFor(w)) ELSE grants
  /\ UNCHANGED main

Next ==
  \/ \E edit \in DOMAIN Bundles : Publish(edit)
  \/ \E w \in WorkOrders :
        \/ \E request \in Requests : Ask(w, request)
        \/ \E i \in Steps(w) : Perform(w, Workflow(w)[i])
        \/ Complete(w)
        \/ Fail(w)
        \/ Compensate(w)

Advance(w) ==
  \/ \E i \in Steps(w) : Perform(w, Workflow(w)[i])
  \/ Complete(w)
  \/ Compensate(w)

(* The executor goes on with a work order that can go on.                  *)
Spec == Init /\ [][Next]_vars /\ WF_orders(\E w \in WorkOrders : Advance(w))

-----------------------------------------------------------------------------
(***************************************************************************)
(* Every work order runs a path that is published for good: the path is    *)
(* not a draft, and its product, its entity classes, its delivery profile  *)
(* and its HTTP probe profile are in the very state it is in, in a Realm   *)
(* that admits the state.  The lifecycle states are spread over seven      *)
(* files that are promoted by hand.                                        *)
(***************************************************************************)
OrdersArePromoted ==
  \A w \in WorkOrders : orders[w].status # "none" =>
     LET path == PathOf(w)
     IN  /\ path.state # "draft"
         /\ TheDoc(Products(Tree), path.product).lifecycle = path.state
         /\ \A id \in path.entities : TheDoc(Entities(Tree), id).state = path.state
         /\ HasProfile(path) => ProfileOf(path, Tree).state = path.state
         /\ IsObserved(path, Tree) =>
              TheDoc(ProbeProfiles(Tree), ProfileOf(path, Tree).runtime.profile).state
                 = path.state
         /\ \A i \in DOMAIN path.realms :
              path.state \in TheDoc(Realms(Tree), path.realms[i]).states

(***************************************************************************)
(* A work order that completed, or that failed and was compensated, leaves *)
(* no observer object in the cluster, at whatever step it failed.          *)
(***************************************************************************)
EndedOrdersHoldNoAccess ==
  \A w \in WorkOrders : orders[w].status \in {"completed", "compensated"} =>
     \A n \in DOMAIN grants : grants[n] # w

(***************************************************************************)
(* Every accepted workflow runs to its end: no accepted path can get       *)
(* stuck, on a step nobody can perform, on needs that never come or on     *)
(* another work order's objects.                                           *)
(***************************************************************************)
OrdersEnd ==
  \A w \in WorkOrders :
     orders[w].status = "running" ~> orders[w].status \in {"completed", "compensated"}

(***************************************************************************)
(* Whatever an accepted workflow says beyond what is checked, the work     *)
(* orders that have an observer keep the order of AccessLifecycle.         *)
(***************************************************************************)
WrittenIds == <<"freeze-http-conditions", "author-change">>
AccessIds == [i \in DOMAIN ObserverChain |-> ObserverChain[i].id]

\* How many of ids are done before the first that is not.
Prefix(ids, done) ==
  CHOOSE n \in 0..Len(ids) :
     /\ \A i \in 1..n : ids[i] \in done
     /\ n < Len(ids) => ids[n + 1] \notin done

Progress(w, ids) ==
  IF orders[w].status # "none" /\ Observed(w) THEN Prefix(ids, orders[w].done) ELSE 0

Written == [w \in WorkOrders |-> Progress(w, WrittenIds)]
Access == [w \in WorkOrders |-> Progress(w, AccessIds)]
Live == {grants[n] : n \in DOMAIN grants}
Over == {w \in WorkOrders : orders[w].status \in {"completed", "failed", "compensated"}}

Lifecycle == INSTANCE AccessLifecycle
               WITH written <- Written, access <- Access, live <- Live, over <- Over

KeepsLifecycle == Lifecycle!Spec

(***************************************************************************)
(* What the validator leaves open: it looks at the steps of the observer's *)
(* chain by their ids, but a step with another id may have the action that *)
(* creates the observer's objects, or the one that takes them away.        *)
(***************************************************************************)
OnlyChainTouchesAccess ==
  \A edit \in Publishable : \A path \in Paths(Bundles[edit].tree) :
     \A i \in DOMAIN path.workflow :
        LET step == path.workflow[i]
        IN  /\ step.action \in {ProvisionAction, RevokeAction} =>
                  IsObserved(path, Bundles[edit].tree)
            /\ step.action = ProvisionAction => step.id = "provision-observer-access"
            /\ step.action = RevokeAction => step.id = "revoke-observer-access"

(***************************************************************************)
(* "Access compensation is registered before creation" (ADR-0057): where   *)
(* OnlyChainTouchesAccess does not hold, it may come later or never.       *)
(***************************************************************************)
RegisteredBeforeCreation ==
  \A n \in DOMAIN grants :
     "register-observer-access-compensation" \in orders[grants[n]].done

=============================================================================
