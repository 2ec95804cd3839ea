-------------------------- MODULE PlatformContracts --------------------------
(***************************************************************************)
(* What scripts/validate-platform-contracts.py accepts as a bundle of      *)
(* platform contracts.  A bundle is a record                               *)
(*                                                                         *)
(*   tree      the authoritative files: path -> document                   *)
(*   index     index.yaml: the artifacts it lists, the digest of the       *)
(*             bundle and the registries of identifiers                    *)
(*   fixtures  the requests that must be accepted and those that must not  *)
(*                                                                         *)
(* A path of a file is its rank in the lexical order, a digest is what it  *)
(* digests (SHA-256 has no collisions here), and a document is a record of *)
(* the fields the checks read.  Where the code compares a section of a     *)
(* document with a constant, the document says in "altered" which sections *)
(* differ; "valid" says that it satisfies its JSON schema.  The schemas    *)
(* repeat many of the constants: the model does not count on that.         *)
(***************************************************************************)
EXTENDS Integers, Sequences, FiniteSets, SequencesExt

CONSTANT NegativeCases  \* the closed matrix of what the observer must be denied

Kinds == {"Schema", "PlatformProduct", "EntityClass", "Realm",
          "PlatformDeliveryProfile", "HttpProbeProfile",
          "ObserverAttestorProfile", "PlatformPath"}

RegistryNames == {"actions", "capabilities", "evidenceTypes", "policies", "probes"}

(***************************************************************************)
(* The index: sorted, complete, and with the digests of the files.         *)
(***************************************************************************)
Listed(index) == {index.artifacts[i].path : i \in DOMAIN index.artifacts}

IndexOk(index, tree) ==
  /\ index.artifacts # <<>>
  /\ \A i, j \in DOMAIN index.artifacts :
        i < j => index.artifacts[i].path < index.artifacts[j].path
  /\ Listed(index) = DOMAIN tree
  /\ \A i \in DOMAIN index.artifacts : index.artifacts[i].kind \in Kinds
  /\ DOMAIN index.registries = RegistryNames

DigestsOk(index, tree) ==
  /\ \A i \in DOMAIN index.artifacts :
        index.artifacts[i].sha256 = tree[index.artifacts[i].path]
  /\ index.bundleDigest =
        [i \in DOMAIN index.artifacts |->
           <<index.artifacts[i].path, tree[index.artifacts[i].path]>>]

Documents(tree, kind) == {tree[p] : p \in {q \in DOMAIN tree : tree[q].kind = kind}}
IdsOf(docs) == {d.id : d \in docs}
TheDoc(docs, id) == CHOOSE d \in docs : d.id = id

(* No two files hold the same identifier: a schema's $id, or a document's  *)
(* name and version within its kind.                                       *)
IdsUnique(tree) ==
  \A p, q \in DOMAIN tree :
     tree[p].kind = tree[q].kind /\ tree[p].id = tree[q].id => p = q

ArtifactsOk(index, tree) ==
  /\ \A i \in DOMAIN index.artifacts :
        tree[index.artifacts[i].path].kind = index.artifacts[i].kind
  /\ \A p \in DOMAIN tree : tree[p].valid
  /\ IdsUnique(tree)

(***************************************************************************)
(* Delivery profiles.  The name of each of the observer's objects is a     *)
(* template: "fields" are the variables in it, "uses" how often one is     *)
(* used, "fixed" the length of the rest.  A rule is what it lets the       *)
(* observer do.                                                            *)
(***************************************************************************)
WorkOrderIdLength == 53
NameLimit == 63

NameLength(template) == template.fixed + template.uses * WorkOrderIdLength

\* The objects whose names are templates.
ObserverObjects ==
  {"serviceAccount", "applicationRole", "applicationRoleBinding", "namespaceClusterRole",
   "namespaceClusterRoleBinding", "realmRoleBinding"}

NamesOk(observer) ==
  \A role \in ObserverObjects :
     /\ observer.names[role].fields = {"workOrderId"}
     /\ NameLength(observer.names[role]) <= NameLimit

RulesOk(observer) ==
  \A r \in observer.rules \cup observer.inventory :
     /\ ~r.nonResource
     /\ r.resource # "*"
     /\ r.verb \in {"get", "list"}

ClosedInventory ==
  {[resource |-> k, verb |-> "list", nonResource |-> FALSE] :
     k \in {"persistentvolumeclaims", "pods", "resourcequotas", "serviceaccounts",
            "services", "deployments", "replicasets", "endpointslices", "ingresses",
            "networkpolicies", "rolebindings", "roles"}}

(* Each case of the matrix is listed once, with the closed content.        *)
NegativeMatrixOk(observer) ==
  /\ IsInjective(observer.negatives)
  /\ ToSet(observer.negatives) = NegativeCases

ObserverIdsOk(observer, registries) ==
  /\ observer.actions \subseteq registries.actions
  /\ observer.probes \subseteq registries.probes
  /\ observer.evidenceTypes \subseteq registries.evidenceTypes

ObserverOk(observer, registries) ==
  /\ ObserverIdsOk(observer, registries)
  /\ NamesOk(observer)
  /\ RulesOk(observer)
  /\ observer.inventory = ClosedInventory
  /\ NegativeMatrixOk(observer)
  /\ ~observer.workerAuthorable
  /\ observer.registerBeforeCreate

FullCompensation == [action |-> "delivery.revert-prune-and-revoke-preview/v2",
                     verifier |-> "realm.preview-and-observer-pruned/v1"]

IsV2(profile) == profile.schema = "platform/delivery-profile/v2"

ProfileIdsOk(profile, registries) ==
  /\ profile.mechanism \in registries.capabilities
  /\ profile.repositoryPolicy \in registries.policies
  /\ profile.observations.action \in registries.actions
  /\ profile.compensation.action \in registries.actions
  /\ profile.compensation.verifier \in registries.probes
  /\ {profile.compensationEvidence} \cup {pair[2] : pair \in profile.observations.pairs}
        \subseteq registries.evidenceTypes
  /\ {pair[1] : pair \in profile.observations.pairs} \subseteq registries.probes
  /\ IsV2(profile) =>
        /\ {profile.runtime.action, profile.runtime.issueAction} \subseteq registries.actions
        /\ profile.runtime.evidenceType \in registries.evidenceTypes

DeliveryProfileOk(profile, registries) ==
  /\ ProfileIdsOk(profile, registries)
  /\ profile.altered = {}
  /\ IsV2(profile) =>
        /\ ObserverOk(profile.observer, registries)
        /\ profile.compensation = FullCompensation

AttestorProfiles == {"kind-development/v1", "eks-kms-ed25519/v1"}

AttestorOk(attestor) ==
  /\ attestor.profileId = attestor.id
  /\ ~attestor.readinessEligible
  /\ attestor.profileId \in AttestorProfiles
  /\ attestor.altered = {}

(***************************************************************************)
(* The documents of a bundle against each other.                           *)
(***************************************************************************)
Products(tree) == Documents(tree, "PlatformProduct")
Entities(tree) == Documents(tree, "EntityClass")
Realms(tree) == Documents(tree, "Realm")
Profiles(tree) == Documents(tree, "PlatformDeliveryProfile")
ProbeProfiles(tree) == Documents(tree, "HttpProbeProfile")
Attestors(tree) == Documents(tree, "ObserverAttestorProfile")
Paths(tree) == Documents(tree, "PlatformPath")

ProfilesOk(tree, registries) ==
  \A profile \in Profiles(tree) :
     /\ DeliveryProfileOk(profile, registries)
     /\ IsV2(profile) =>
           /\ profile.catalog = IdsOf(Attestors(tree))
           /\ profile.readyAttestors = {}

EntitiesOk(tree, registries) ==
  \A entity \in Entities(tree) :
     /\ entity.capabilities \subseteq registries.capabilities
     /\ entity.compensation.action \in registries.actions
     /\ entity.probes \cup {entity.compensation.verifier} \subseteq registries.probes
     /\ entity.realms \subseteq IdsOf(Realms(tree))

ProbeProfilesOk(tree, registries) ==
  \A probes \in ProbeProfiles(tree) :
     /\ probes.freezeAction \in registries.actions
     /\ probes.evidenceType \in registries.evidenceTypes

(* Products and Realms name only paths that exist.                         *)
PublishedPathsOk(tree, registries) ==
  /\ \A product \in Products(tree) : product.paths \subseteq IdsOf(Paths(tree))
  /\ \A realm \in Realms(tree) :
        /\ realm.paths \subseteq IdsOf(Paths(tree))
        /\ realm.policies \subseteq registries.policies
        /\ realm.derivedBy \in registries.actions

ProductOk(path, tree) ==
  /\ path.product \in IdsOf(Products(tree))
  /\ LET product == TheDoc(Products(tree), path.product)
     IN  path.id \in product.paths /\ product.lifecycle = path.state
  /\ path.inputSchema \in IdsOf(Documents(tree, "Schema"))

(* A path of the first schema has no delivery profile, one of the second   *)
(* has the one that is bound to it.                                        *)
Unbound == "none"

HasProfile(path) == path.schema = "platform/path/v2"
ProfileOf(path, tree) == TheDoc(Profiles(tree), path.profile)
IsObserved(path, tree) == HasProfile(path) /\ IsV2(ProfileOf(path, tree))

BindingOk(path, tree) ==
  IF HasProfile(path)
  THEN /\ path.profile \in IdsOf(Profiles(tree))
       /\ LET profile == ProfileOf(path, tree)
          IN  /\ profile.path = path.id
              /\ profile.state = path.state
              /\ profile.repositoryPolicy \in path.policies
  ELSE path.schema = "platform/path/v1" /\ path.profile = Unbound

\* Variant of ClassesOk that forgets the lifecycle of the classes.
ClassesOkAnyState(path, tree) ==
  \A id \in path.entities :
     /\ id \in IdsOf(Entities(tree))
     /\ ToSet(path.realms) \subseteq TheDoc(Entities(tree), id).realms

ClassesOk(path, tree) ==
  \A id \in path.entities :
     /\ id \in IdsOf(Entities(tree))
     /\ LET entity == TheDoc(Entities(tree), id)
        IN  entity.state = path.state /\ ToSet(path.realms) \subseteq entity.realms

HasStep(path, id, action) ==
  \E i \in DOMAIN path.workflow :
     path.workflow[i].id = id /\ path.workflow[i].action = action

NeedsExactly(path, id, needs) ==
  \E i \in DOMAIN path.workflow :
     path.workflow[i].id = id /\ path.workflow[i].needs = needs

SourceOk(path, tree) ==
  /\ \E id \in path.entities :
        ProfileOf(path, tree).mechanism \in TheDoc(Entities(tree), id).capabilities
  /\ HasStep(path, "await-human-merge", "delivery.await-human-merge/v1")
  /\ HasStep(path, "validate-change", "verification.run-source-gates/v1")

(* The HTTP probe profile applies to exactly this path, under this         *)
(* delivery profile, in the first Realm the path supports.                 *)
ProbeProfileOk(path, tree) ==
  LET runtime == ProfileOf(path, tree).runtime
  IN  /\ runtime.profile \in IdsOf(ProbeProfiles(tree))
      /\ LET probes == TheDoc(ProbeProfiles(tree), runtime.profile)
         IN  /\ probes.appliesTo = [path |-> path.id, profile |-> path.profile,
                                    realm |-> path.realms[1]]
             /\ probes.state = path.state
      /\ ProfileOf(path, tree).schemas \subseteq IdsOf(Documents(tree, "Schema"))

(* The life of the observer's access, as steps of the workflow that each   *)
(* need exactly the one before.                                            *)
ObserverChain ==
  << [id |-> "await-human-merge", action |-> "delivery.await-human-merge/v1"],
     [id |-> "register-observer-access-compensation",
      action |-> "execution.register-compensation/v1"],
     [id |-> "provision-observer-access", action |-> "delivery.provision-observer-access/v1"],
     [id |-> "attest-observer-access", action |-> "delivery.attest-observer-access/v1"],
     [id |-> "issue-observer-credential", action |-> "delivery.issue-observer-credential/v1"],
     [id |-> "observe-gitops", action |-> "delivery.observe-argocd-sync/v2"],
     [id |-> "store-observation-evidence",
      action |-> "evidence.store-delivery-observation/v1"],
     [id |-> "issue-http-probe-credential",
      action |-> "verification.issue-http-probe-credential/v1"],
     [id |-> "verify-runtime", action |-> "verification.run-http-probes/v1"],
     [id |-> "store-http-probe-result", action |-> "evidence.store-http-probe-result/v1"],
     [id |-> "revoke-observer-access", action |-> "delivery.revoke-observer-access/v1"] >>

\* Variant of ObserverChainOk that checks the steps but not what they need.
ObserverChainOkUnordered(path) ==
  /\ \A i \in 2..Len(ObserverChain) :
        HasStep(path, ObserverChain[i].id, ObserverChain[i].action)
  /\ "delivery.platform-observer-access/v1" \in path.policies

ObserverChainOk(path) ==
  /\ \A i \in 2..Len(ObserverChain) :
        /\ HasStep(path, ObserverChain[i].id, ObserverChain[i].action)
        /\ NeedsExactly(path, ObserverChain[i].id, {ObserverChain[i - 1].id})
  /\ "delivery.platform-observer-access/v1" \in path.policies

(* A draft is admitted nowhere; any other path by each Realm it supports,  *)
(* in a state that Realm admits.                                           *)
AdmissionOk(path, tree) ==
  \A i \in DOMAIN path.realms :
     /\ path.realms[i] \in IdsOf(Realms(tree))
     /\ LET realm == TheDoc(Realms(tree), path.realms[i])
        IN  IF path.state = "draft" THEN path.id \notin realm.paths
            ELSE path.id \in realm.paths /\ path.state \in realm.states

\* Variant of WorkflowOk that lets a step need any step.
WorkflowOkForward(path, registries) ==
  \A i \in DOMAIN path.workflow :
     /\ path.workflow[i].action \in registries.actions
     /\ path.workflow[i].needs \subseteq {s.id : s \in ToSet(path.workflow)}

(* Step ids are unique, actions are registered, and a step needs only      *)
(* steps above it.                                                         *)
WorkflowOk(path, registries) ==
  \A i \in DOMAIN path.workflow :
     /\ \A j \in 1..(i - 1) : path.workflow[j].id # path.workflow[i].id
     /\ path.workflow[i].action \in registries.actions
     /\ path.workflow[i].needs \subseteq {path.workflow[j].id : j \in 1..(i - 1)}

(* The conditions of the HTTP probes are frozen before the change is       *)
(* authored.                                                               *)
FreezeOk(path) ==
  /\ HasStep(path, "freeze-http-conditions", "verification.freeze-http-conditions/v1")
  /\ NeedsExactly(path, "freeze-http-conditions", {"inspect-source"})
  /\ NeedsExactly(path, "author-change", {"freeze-http-conditions"})

Pairs(path) == {<<c.probe, c.evidence>> : c \in path.conditions}

ConditionsOk(path, tree, registries) ==
  /\ \A c \in path.conditions :
        c.probe \in registries.probes /\ c.evidence \in registries.evidenceTypes
  /\ \A c, d \in path.conditions : c.id = d.id => c = d
  /\ HasProfile(path) =>
        LET profile == ProfileOf(path, tree)
        IN  /\ profile.observations.pairs \subseteq Pairs(path)
            /\ \E i \in DOMAIN path.workflow :
                  path.workflow[i].action = profile.observations.action
            /\ IsV2(profile) =>
                  LET probes == TheDoc(ProbeProfiles(tree), profile.runtime.profile)
                  IN  /\ profile.observer.pairs \subseteq Pairs(path)
                      /\ {<<p, probes.evidenceType>> : p \in probes.probes} \subseteq Pairs(path)
                      /\ profile.runtime.evidenceType = probes.evidenceType
                      /\ profile.runtime.commitAction \in registries.actions
                      /\ profile.runtime.receiptType \in registries.evidenceTypes
                      /\ profile.runtime.receiptType \in path.requiredTypes

\* Variant of CompensationOk that does not compare the path's compensation
\* with that of its delivery profile.
CompensationOkUnbound(path, tree, registries) ==
  /\ path.compensation.action \in registries.actions
  /\ path.compensation.verifier \in registries.probes
  /\ "supply-chain.attestation/v1" \in path.requiredTypes
  /\ path.requiredTypes \subseteq registries.evidenceTypes

CompensationOk(path, tree, registries) ==
  /\ path.compensation.action \in registries.actions
  /\ path.compensation.verifier \in registries.probes
  /\ HasProfile(path) =>
        LET profile == ProfileOf(path, tree)
        IN  /\ profile.compensation = path.compensation
            /\ profile.compensationEvidence \in path.requiredTypes
            /\ IsV2(profile) =>
                  profile.observer.evidenceTypes \cup {profile.observations.realmEvidence}
                     \subseteq path.requiredTypes
  /\ "supply-chain.attestation/v1" \in path.requiredTypes
  /\ path.requiredTypes \subseteq registries.evidenceTypes

PathOk(path, tree, registries) ==
  /\ ProductOk(path, tree)
  /\ BindingOk(path, tree)
  /\ ClassesOk(path, tree)
  /\ HasProfile(path) => SourceOk(path, tree)
  /\ IsObserved(path, tree) => ProbeProfileOk(path, tree) /\ ObserverChainOk(path)
  /\ AdmissionOk(path, tree)
  /\ WorkflowOk(path, registries)
  /\ IsObserved(path, tree) => FreezeOk(path)
  /\ path.policies \subseteq registries.policies
  /\ ConditionsOk(path, tree, registries)
  /\ CompensationOk(path, tree, registries)

(* No profile is left without a path, no probe profile without a profile.  *)
NoOrphans(tree) ==
  /\ IdsOf(Profiles(tree)) \subseteq {path.profile : path \in Paths(tree)}
  /\ IdsOf(ProbeProfiles(tree))
        \subseteq {p.runtime.profile : p \in {d \in Profiles(tree) : IsV2(d)}}

SemanticsOk(tree, registries) ==
  /\ ProfilesOk(tree, registries)
  /\ \A attestor \in Attestors(tree) : AttestorOk(attestor)
  /\ ProbeProfilesOk(tree, registries)
  /\ EntitiesOk(tree, registries)
  /\ PublishedPathsOk(tree, registries)
  /\ \A path \in Paths(tree) : PathOk(path, tree, registries)
  /\ NoOrphans(tree)

(***************************************************************************)
(* Requests.                                                               *)
(***************************************************************************)
RequestOk(request, tree) ==
  /\ request.product \in IdsOf(Products(tree))
  /\ request.path \in IdsOf(Paths(tree))
  /\ request.path \in TheDoc(Products(tree), request.product).paths
  /\ TheDoc(Paths(tree), request.path).product = request.product
  /\ request.realm \in IdsOf(Realms(tree))
  /\ request.realm \in ToSet(TheDoc(Paths(tree), request.path).realms)
  /\ request.path \in TheDoc(Realms(tree), request.realm).paths
  /\ request.inputsOk

FixturesOk(fixtures, tree) ==
  /\ fixtures.valid # {} /\ fixtures.invalid # {}
  /\ \A request \in fixtures.valid : RequestOk(request, tree)
  /\ \A request \in fixtures.invalid : ~RequestOk(request, tree)

(***************************************************************************)
(* The validator's tests of itself: a delivery profile and an attestor     *)
(* profile that were tampered with must be refused.  The last profile of   *)
(* each stands for those that only the JSON schema refuses.                *)
(***************************************************************************)
ProfileMutations(profile) ==
  { [profile EXCEPT !.observer.workerAuthorable = TRUE],
    [profile EXCEPT !.altered = {"resourceEnvelope"}],
    [profile EXCEPT !.observer.inventory =
       @ \cup {[resource |-> "*", verb |-> "list", nonResource |-> FALSE]}],
    [profile EXCEPT !.observer.inventory =
       @ \cup {[resource |-> "pods", verb |-> "watch", nonResource |-> FALSE]}],
    [profile EXCEPT !.observer.inventory =
       @ \cup {[resource |-> "/api", verb |-> "get", nonResource |-> TRUE]}],
    [profile EXCEPT !.compensation = [action |-> "delivery.revert-and-prune-preview/v1",
                                      verifier |-> "realm.preview-pruned/v1"]],
    [profile EXCEPT !.valid = FALSE] }

AttestorMutations(attestor) ==
  { [attestor EXCEPT !.altered = {"signing"}],
    [attestor EXCEPT !.altered = {"runtimeIdentity"}],
    [attestor EXCEPT !.readinessEligible = TRUE],
    [attestor EXCEPT !.valid = FALSE] }

SelfTestsOk(tree, registries) ==
  /\ \A profile \in {d \in Profiles(tree) : IsV2(d)} :
        \A m \in ProfileMutations(profile) : ~(m.valid /\ DeliveryProfileOk(m, registries))
  /\ \A attestor \in Attestors(tree) :
        \A m \in AttestorMutations(attestor) : ~(m.valid /\ AttestorOk(m))

Accepted(bundle) ==
  /\ IndexOk(bundle.index, bundle.tree)
  /\ DigestsOk(bundle.index, bundle.tree)
  /\ ArtifactsOk(bundle.index, bundle.tree)
  /\ SemanticsOk(bundle.tree, bundle.index.registries)
  /\ FixturesOk(bundle.fixtures, bundle.tree)
  /\ SelfTestsOk(bundle.tree, bundle.index.registries)

=============================================================================
