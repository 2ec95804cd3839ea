------------------------------ MODULE MCPlatform ------------------------------
(***************************************************************************)
(* The v2 and v3 generations of platform-contracts/ as they stand (v2      *)
(* experimental, v3 a draft, short of the fields no check reads), what a   *)
(* promotion of v3 changes, and the edits a commit may make on top: every  *)
(* pair of them, with and without the promotion.                           *)
(***************************************************************************)
EXTENDS PlatformPath

MCNegativeCases == {"secret-get", "inventory-watch"}

Step(id, action, needs) == [id |-> id, action |-> action, needs |-> needs]

Prelude(freeze) ==
  << Step("inspect-source", "source.inspect/v1", {}) >> \o freeze \o
  << Step("author-change", "source.author/v1",
          {IF freeze = <<>> THEN "inspect-source" ELSE "freeze-http-conditions"}),
     Step("validate-change", "verification.run-source-gates/v1", {"author-change"}),
     Step("open-draft-pr", "delivery.open-draft-pr/v1", {"validate-change"}),
     Step("await-human-merge", "delivery.await-human-merge/v1", {"open-draft-pr"}) >>

WorkflowV2 ==
  Prelude(<<>>) \o
  << Step("observe-gitops", "delivery.observe-argocd-sync/v1", {"await-human-merge"}),
     Step("verify-runtime", "verification.run-http-probes/v1", {"observe-gitops"}) >>

WorkflowV3 ==
  Prelude(<<Step("freeze-http-conditions", "verification.freeze-http-conditions/v1",
                 {"inspect-source"})>>) \o
  [i \in 1..10 |-> Step(ObserverChain[i + 1].id, ObserverChain[i + 1].action,
                        {ObserverChain[i].id})]

Revert == [action |-> "delivery.revert-and-prune-preview/v1",
           verifier |-> "realm.preview-pruned/v1"]

Gitops == <<"gitops.argocd-synced-healthy/v1", "gitops.revision-status/v1">>
Realm2 == <<"realm.preview-containment/v1", "kubernetes.realm-boundary/v1">>
Realm3 == <<"realm.preview-delivery-observed/v1", "kubernetes.delivery-observation/v1">>
Attested == <<"kubernetes.observer-rbac-attested/v1", "kubernetes.observer-access/v1">>
Cleaned == <<"kubernetes.observer-access-revoked/v1", "kubernetes.observer-cleanup/v1">>
Health == <<"http.healthz/v1", "http.probe-result/v1">>
Inherited == "kubernetes.inherited-authority/v1"
Receipt == "http.probe-commit-receipt/v1"
CompensationResult == "compensation.result/v1"
Image == "supply-chain.attestation/v1"

Conditions(pairs) == {[id |-> p[1], probe |-> p[1], evidence |-> p[2]] : p \in pairs}

Observer ==
  [ names |-> [role \in ObserverObjects |->
                 [fields |-> {"workOrderId"}, fixed |-> 4, uses |-> 1]],
    rules |-> {[resource |-> "namespaces", verb |-> "get", nonResource |-> FALSE]},
    inventory |-> ClosedInventory,
    negatives |-> <<"inventory-watch", "secret-get">>,
    actions |-> {RevokeAction, "delivery.attest-observer-access/v1",
                 "delivery.issue-observer-credential/v1"},
    probes |-> {Attested[1], Cleaned[1]},
    evidenceTypes |-> {Attested[2], Cleaned[2], Inherited},
    pairs |-> {Attested, Cleaned},
    workerAuthorable |-> FALSE, registerBeforeCreate |-> TRUE ]

Runtime ==
  [ action |-> "verification.run-http-probes/v1",
    issueAction |-> "verification.issue-http-probe-credential/v1",
    evidenceType |-> Health[2], profile |-> "http-preview-service/v1",
    commitAction |-> "evidence.store-http-probe-result/v1", receiptType |-> Receipt ]

Attestor(id) == [kind |-> "ObserverAttestorProfile", id |-> id, valid |-> TRUE,
                 profileId |-> id, readinessEligible |-> FALSE, altered |-> {}]

ProfileV2 ==
  [ kind |-> "PlatformDeliveryProfile", id |-> "argocd/v1", valid |-> TRUE,
    schema |-> "platform/delivery-profile/v1", state |-> "experimental", path |-> "http/v2",
    mechanism |-> "delivery.argocd/v1", repositoryPolicy |-> "owner-authorized/v1",
    observations |-> [action |-> "delivery.observe-argocd-sync/v1",
                      pairs |-> {Gitops, Realm2}, realmEvidence |-> Realm2[2]],
    compensation |-> Revert, compensationEvidence |-> CompensationResult, altered |-> {} ]

ProfileV3 ==
  [ kind |-> "PlatformDeliveryProfile", id |-> "argocd/v2", valid |-> TRUE,
    schema |-> "platform/delivery-profile/v2", state |-> "draft", path |-> "http/v3",
    mechanism |-> "delivery.argocd/v1", repositoryPolicy |-> "owner-authorized/v1",
    observations |-> [action |-> "delivery.observe-argocd-sync/v2",
                      pairs |-> {Gitops, Realm3}, realmEvidence |-> Realm3[2]],
    compensation |-> FullCompensation, compensationEvidence |-> CompensationResult,
    altered |-> {}, observer |-> Observer, runtime |-> Runtime,
    schemas |-> {"observation-scope:v1"},
    catalog |-> AttestorProfiles, readyAttestors |-> {} ]

Entity(id, state, capabilities) ==
  [ kind |-> "EntityClass", id |-> id, valid |-> TRUE, state |-> state,
    capabilities |-> capabilities, probes |-> {Health[1]}, compensation |-> Revert,
    realms |-> {"preview/v2"} ]

PathV2 ==
  [ kind |-> "PlatformPath", id |-> "http/v2", valid |-> TRUE, schema |-> "platform/path/v2",
    state |-> "experimental", product |-> "service/v2", inputSchema |-> "input:v2",
    profile |-> "argocd/v1", entities |-> {"HttpService/v2"}, realms |-> <<"preview/v2">>,
    workflow |-> WorkflowV2, policies |-> {"owner-authorized/v1"},
    conditions |-> Conditions({Gitops, Realm2, Health}), compensation |-> Revert,
    requiredTypes |-> {Image, Gitops[2], Realm2[2], Health[2], CompensationResult} ]

PathV3 ==
  [ kind |-> "PlatformPath", id |-> "http/v3", valid |-> TRUE, schema |-> "platform/path/v2",
    state |-> "draft", product |-> "service/v3", inputSchema |-> "input:v3",
    profile |-> "argocd/v2", entities |-> {"HttpService/v3", "Environment/v3"},
    realms |-> <<"preview/v2">>, workflow |-> WorkflowV3,
    policies |-> {"owner-authorized/v1", "delivery.platform-observer-access/v1"},
    conditions |-> Conditions({Gitops, Realm3, Health, Attested, Cleaned}),
    compensation |-> FullCompensation,
    requiredTypes |-> {Image, Gitops[2], Realm3[2], Health[2], CompensationResult,
                       Attested[2], Cleaned[2], Inherited, Receipt} ]

Product(id, lifecycle, paths) ==
  [ kind |-> "PlatformProduct", id |-> id, valid |-> TRUE, lifecycle |-> lifecycle,
    paths |-> paths ]

Realm(id, paths) ==
  [ kind |-> "Realm", id |-> id, valid |-> TRUE, derivedBy |-> "realm.resolve-preview/v1",
    states |-> {"experimental", "validated", "approved"}, paths |-> paths,
    policies |-> {"owner-authorized/v1"} ]

ProbeProfile ==
  [ kind |-> "HttpProbeProfile", id |-> "http-preview-service/v1", valid |-> TRUE,
    state |-> "draft", freezeAction |-> "verification.freeze-http-conditions/v1",
    evidenceType |-> Health[2], probes |-> {Health[1]},
    appliesTo |-> [path |-> "http/v3", profile |-> "argocd/v2", realm |-> "preview/v2"] ]

Schema(id) == [kind |-> "Schema", id |-> id, valid |-> TRUE]

(* The files, in the lexical order of their paths.                         *)
BaseTree ==
  << Attestor("eks-kms-ed25519/v1"), Attestor("kind-development/v1"), ProfileV2, ProfileV3,
     Entity("Environment/v3", "draft", {}),
     Entity("HttpService/v2", "experimental", {"delivery.argocd/v1"}),
     Entity("HttpService/v3", "draft", {"delivery.argocd/v1"}),
     PathV2, PathV3, ProbeProfile,
     Product("service/v2", "experimental", {"http/v2"}),
     Product("service/v3", "draft", {"http/v3"}),
     Realm("preview/v1", {}), Realm("preview/v2", {"http/v2"}),
     Schema("input:v2"), Schema("input:v3"), Schema("observation-scope:v1") >>

NamedActions ==
  {s.action : s \in ToSet(WorkflowV2) \cup ToSet(WorkflowV3)}
    \cup {Revert.action, FullCompensation.action, "realm.resolve-preview/v1"}

BaseRegistries ==
  [ actions |-> NamedActions, capabilities |-> {"delivery.argocd/v1"},
    evidenceTypes |-> PathV2.requiredTypes \cup PathV3.requiredTypes,
    policies |-> PathV2.policies \cup PathV3.policies,
    probes |-> {c.probe : c \in PathV2.conditions \cup PathV3.conditions}
                 \cup {Revert.verifier, FullCompensation.verifier} ]

Request(product, path, realm, ok) ==
  [product |-> product, path |-> path, realm |-> realm, inputsOk |-> ok]

RequestV2 == Request("service/v2", "http/v2", "preview/v2", TRUE)
RequestV3 == Request("service/v3", "http/v3", "preview/v2", TRUE)
MCRequests == {RequestV2, RequestV3, Request("service/v2", "http/v3", "preview/v2", TRUE),
               Request("service/v3", "http/v3", "preview/v1", TRUE)}

BaseFixtures ==
  [valid |-> {RequestV2},
   invalid |-> {RequestV3, Request("service/v2", "http/v2", "preview/v2", FALSE)}]

-----------------------------------------------------------------------------
(* Edits of one document each, as functions of it.                         *)
Reneed(path, id, needs) ==
  [path EXCEPT !.workflow = [i \in DOMAIN @ |->
     IF @[i].id = id THEN [@[i] EXCEPT !.needs = needs] ELSE @[i]]]

React(path, id, action) ==
  [path EXCEPT !.workflow = [i \in DOMAIN @ |->
     IF @[i].id = id THEN [@[i] EXCEPT !.action = action] ELSE @[i]]]

Restate(state) == IF state = "draft" THEN "experimental" ELSE "draft"

(* Ranks of the files.                                                     *)
FProfile == 4   FEnv == 5   FEntity == 7   FPathV2 == 8   FPath == 9   FProbe == 10
FProductV2 == 11   FProduct == 12   FRealm1 == 13   FRealm == 14

Promoted(b) ==
  [b EXCEPT !.tree[FProfile].state = "experimental", !.tree[FEnv].state = "experimental",
            !.tree[FEntity].state = "experimental", !.tree[FPath].state = "experimental",
            !.tree[FProbe].state = "experimental",
            !.tree[FProduct].lifecycle = "experimental",
            !.tree[FRealm].paths = @ \cup {"http/v3"},
            !.fixtures = [valid |-> {RequestV2, RequestV3}, invalid |-> @.invalid \ {RequestV3}]]

Flip(set, x) == IF x \in set THEN set \ {x} ELSE set \cup {x}

(* Edits of the documents: lifecycle and references, the workflow, the     *)
(* compensation and the evidence, the observer, and the fixtures.          *)
Edited(e, b) ==
  CASE e = "profile state" -> [b EXCEPT !.tree[FProfile].state = Restate(@)]
    [] e = "entity state" -> [b EXCEPT !.tree[FEntity].state = Restate(@)]
    [] e = "environment state" -> [b EXCEPT !.tree[FEnv].state = Restate(@)]
    [] e = "path state" -> [b EXCEPT !.tree[FPath].state = Restate(@)]
    [] e = "probe state" -> [b EXCEPT !.tree[FProbe].state = Restate(@)]
    [] e = "lifecycle" -> [b EXCEPT !.tree[FProduct].lifecycle = Restate(@)]
    [] e = "admission" -> [b EXCEPT !.tree[FRealm].paths = Flip(@, "http/v3")]
    [] e = "admitted states" -> [b EXCEPT !.tree[FRealm].states = {"approved"}]
    [] e = "fixture" -> [b EXCEPT !.fixtures.invalid = Flip(@, RequestV3)]
    [] e = "published twice" -> [b EXCEPT !.tree[FProductV2].paths = @ \cup {"http/v3"}]
    [] e = "unpublished" -> [b EXCEPT !.tree[FProduct].paths = {}]
    [] e = "profile path" -> [b EXCEPT !.tree[FProfile].path = "http/v2"]
    [] e = "second realm" ->
         [b EXCEPT !.tree[FPath].realms = <<"preview/v2", "preview/v1">>,
                   !.tree[FEnv].realms = {"preview/v1", "preview/v2"},
                   !.tree[FEntity].realms = {"preview/v1", "preview/v2"},
                   !.tree[FRealm1].paths = b.tree[FRealm].paths \ {"http/v2"}]
    [] e = "author at once" ->
         [b EXCEPT !.tree[FPath] = Reneed(@, "author-change", {"inspect-source"})]
    [] e = "no freeze" ->
         [b EXCEPT !.tree[FPath] = React(@, "freeze-http-conditions", "source.inspect/v1")]
    [] e = "merge at once" -> [b EXCEPT !.tree[FPath] = Reneed(@, "await-human-merge", {})]
    [] e = "provision at once" ->
         [b EXCEPT !.tree[FPath] =
            Reneed(@, "provision-observer-access", {"await-human-merge"})]
    [] e = "provision unmerged" ->
         [b EXCEPT !.tree[FPath] = Reneed(@, "register-observer-access-compensation", {})]
    [] e = "revoke at once" ->
         [b EXCEPT !.tree[FPath] =
            Reneed(@, "revoke-observer-access", {"store-observation-evidence"})]
    [] e = "needs below" ->
         [b EXCEPT !.tree[FPath] = Reneed(@, "validate-change", {"open-draft-pr"})]
    [] e = "no revoke" -> [b EXCEPT !.tree[FPath].workflow = SubSeq(@, 1, Len(@) - 1)]
    [] e = "more steps" ->
         [b EXCEPT !.tree[FPath].workflow =
            <<Step("notify", "source.inspect/v1", {})>> \o @]
    [] e = "step twice" ->
         [b EXCEPT !.tree[FPathV2].workflow =
            @ \o <<Step("verify-runtime", "verification.run-http-probes/v1",
                        {"observe-gitops"})>>]
    [] e = "unknown action" ->
         [b EXCEPT !.tree[FPath] = React(@, "open-draft-pr", "delivery.open-pr/v1")]
    [] e = "path compensation" -> [b EXCEPT !.tree[FPath].compensation = Revert]
    [] e = "profile compensation" -> [b EXCEPT !.tree[FProfile].compensation = Revert]
    [] e = "required evidence" -> [b EXCEPT !.tree[FPath].requiredTypes = @ \ {Cleaned[2]}]
    [] e = "conditions" -> [b EXCEPT !.tree[FPath].conditions = Conditions({Gitops, Realm3})]
    [] e = "one name" ->
         [b EXCEPT !.tree[FProfile].observer.names.realmRoleBinding.fields = {}]
    [] e = "long name" -> [b EXCEPT !.tree[FProfile].observer.names.serviceAccount.fixed = 11]
    [] e = "watch" ->
         [b EXCEPT !.tree[FProfile].observer.rules =
            @ \cup {[resource |-> "pods", verb |-> "watch", nonResource |-> FALSE]}]
    [] e = "negatives" -> [b EXCEPT !.tree[FProfile].observer.negatives = Tail(@)]
    [] e = "worker" -> [b EXCEPT !.tree[FProfile].observer.workerAuthorable = TRUE]
    [] e = "ready" -> [b EXCEPT !.tree[FProfile].readyAttestors = {"kind-development/v1"}]
    [] e = "catalog" -> [b EXCEPT !.tree[FProfile].catalog = {"kind-development/v1"}]

DocumentEdits ==
  { "profile state", "entity state", "environment state", "path state", "probe state",
    "lifecycle", "admission", "admitted states", "fixture", "published twice",
    "unpublished", "profile path", "second realm", "path compensation",
    "profile compensation", "required evidence", "conditions", "one name", "long name",
    "watch", "negatives", "worker", "ready", "catalog" }

WorkflowEdits ==
  { "author at once", "no freeze", "merge at once", "provision at once",
    "provision unmerged", "revoke at once", "needs below", "no revoke", "more steps",
    "step twice", "unknown action" }

(* What may be wrong with index.yaml after the files were edited.          *)
Kept == "kept"
IndexEdits == {Kept, "stale digest", "unlisted file", "unsorted", "wrong kind"}

Indexed(b) ==
  LET artifacts == [i \in DOMAIN b.tree |->
                      [path |-> i, kind |-> b.tree[i].kind, sha256 |-> b.tree[i]]]
  IN  [b EXCEPT !.index.artifacts = artifacts,
                !.index.bundleDigest = [i \in DOMAIN b.tree |-> <<i, b.tree[i]>>]]

Misindexed(e, b) ==
  CASE e = Kept -> b
    [] e = "stale digest" -> [b EXCEPT !.index.artifacts[FPath].sha256 = PathV2]
    [] e = "unlisted file" -> [b EXCEPT !.index.artifacts = Tail(@)]
    [] e = "unsorted" -> [b EXCEPT !.index.artifacts = Reverse(@)]
    [] e = "wrong kind" -> [b EXCEPT !.index.artifacts[FPath].kind = "Realm"]

Base ==
  [ tree |-> BaseTree, fixtures |-> BaseFixtures,
    index |-> [artifacts |-> <<>>, bundleDigest |-> <<>>, registries |-> BaseRegistries] ]

Commits ==
  [promote : BOOLEAN, edits : {{}} \cup {{d, e} : d, e \in DocumentEdits} \cup {{e} : e \in WorkflowEdits},
   index : {Kept}]
  \cup [promote : BOOLEAN, edits : {{}}, index : IndexEdits]

MCBundles ==
  [c \in Commits |->
     Misindexed(c.index,
       Indexed(FoldSet(Edited, IF c.promote THEN Promoted(Base) ELSE Base, c.edits)))]

\* None of these edits gives an action of the observer's chain to another step.
ASSUME EditsAssumption == Bundles = MCBundles => OnlyChainTouchesAccess

(* The promoted v3, as it is and with a step that creates the observer's   *)
(* objects under an id of its own.                                         *)
MCBundlesEarly ==
  LET promoted == Promoted(Base)
      early == <<Step("provision-early", ProvisionAction, {})>>
  IN  [e \in {"promoted", "provision early"} |->
         Indexed(IF e = "promoted" THEN promoted
                 ELSE [promoted EXCEPT !.tree[FPath].workflow = early \o @])]

=============================================================================
