----------------------------- MODULE ReleaseGate -----------------------------
(***************************************************************************)
(* The life of a release contract: people edit the proposition, the policy *)
(* catalogue and the source, run the waypoint-gov commands (cli.ts) in any *)
(* order on their working tree, commit, and let the release-gate workflow  *)
(* decide whether the committed tree is deployed.                          *)
(*                                                                         *)
(* A command reads its input files, computes and writes its output files;  *)
(* it runs alone on its working tree.  The workflow runs on a checkout of  *)
(* its own, so its evidence and verify steps are one action; the working   *)
(* tree, the head of the branch and a finished run may all differ.         *)
(***************************************************************************)
EXTENDS ControlContract

CONSTANTS
    Propositions, Catalogues, Sources,   \* what people can edit a tree to hold
    LocalModes,                          \* modes in which people collect evidence themselves
    MaxEdits,                            \* bounds edits of the tree
    MaxCommits                           \* bounds commits

ASSUME GateAssumption ==
    /\ LocalModes \subseteq {"ci-authoritative", "local-demonstration"}
    /\ MaxEdits \in Nat
    /\ MaxCommits \in Nat \ {0}

\* Only the digest adapter ever answers "not-applicable".
ASSUME ChecksAssumption ==
    \A s \in Sources : \A id \in DOMAIN s.checks :
        s.checks[id] \in {"pass", "fail", "missing", "error"}

VARIABLES
    tree,       \* the working tree
    head,       \* the tree as last committed
    commit,     \* the id of that commit, and so the digest of its artefact
    manifest,   \* specs/governance/.out/evidence-manifest.json
    decision,   \* specs/governance/.out/release-decision.json
    run,        \* the workflow run waiting to deploy: its checkout and decision
    deployed,   \* what production runs: the checkout it came from
    signed,     \* history: what approvers have put their name to
    edits

files == <<manifest, decision>>
pipeline == <<run, deployed>>
vars == <<tree, head, commit, files, pipeline, signed, edits>>

Init ==
    /\ \E p \in Propositions, c \in Catalogues, s \in Sources :
          tree = [source |-> s, proposition |-> p, catalogue |-> c,
                  selection |-> None, contract |-> None, approval |-> None]
    /\ head = tree
    /\ commit = 1
    /\ manifest = None
    /\ decision = None
    /\ run = None
    /\ deployed = None
    /\ signed = {}
    /\ edits = 0

------------------------------------------------------------------------------
(* People *)

Edited(t) ==
    /\ edits < MaxEdits
    /\ tree' = t
    /\ edits' = edits + 1
    /\ UNCHANGED <<head, commit, files, pipeline, signed>>

EditProposition == \E p \in Propositions : Edited([tree EXCEPT !.proposition = p])
EditCatalogue == \E c \in Catalogues : Edited([tree EXCEPT !.catalogue = c])
EditSource == \E s \in Sources : Edited([tree EXCEPT !.source = s])

\* Someone strikes a control out of the contract file by hand.
EditContract ==
    /\ tree.contract # None
    /\ \E c \in tree.contract.material.controls :
          Edited([tree EXCEPT !.contract.material.controls = @ \ {c}])

Commit ==
    /\ commit < MaxCommits
    /\ head # tree
    /\ head' = tree
    /\ commit' = commit + 1
    /\ UNCHANGED <<tree, files, pipeline, signed, edits>>

------------------------------------------------------------------------------
(* Commands: cli.ts *)

Writes(t) == tree' = t /\ UNCHANGED <<head, commit, files, pipeline, signed, edits>>

cmdSelect ==
    Writes([tree EXCEPT !.selection = selectControls(tree.proposition, tree.catalogue)])

cmdContract ==
    LET selection == IF tree.selection # None THEN tree.selection
                     ELSE selectControls(tree.proposition, tree.catalogue)
    IN  Writes([tree EXCEPT !.contract =
                    buildControlContract(tree.proposition, tree.catalogue, selection)])

cmdApprove ==
    LET approval == buildApprovalRecord(tree.contract, tree.proposition, tree.catalogue)
    IN  /\ tree.contract # None
        /\ tree' = [tree EXCEPT !.approval = approval]
        /\ signed' = signed \cup {approval}
        /\ UNCHANGED <<head, commit, files, pipeline, edits>>

cmdEvidence(mode, digest) ==
    /\ tree.contract # None
    /\ manifest' = collectEvidence(tree, commit,
                        [mode |-> mode, digest |-> digest, deploymentDigest |-> None])
    /\ UNCHANGED <<tree, head, commit, decision, pipeline, signed, edits>>

\* verify and certify; without --deployment-digest the manifest's own digest is
\* taken.
cmdVerify ==
    LET digests == {e.artefactDigest : e \in manifest.entries} \ {None}
        digest == IF digests = {} THEN None ELSE CHOOSE d \in digests : TRUE
    IN  /\ tree.contract # None
        /\ manifest # None
        /\ decision' = verifyRelease(tree, manifest, digest)
        /\ UNCHANGED <<tree, head, commit, manifest, pipeline, signed, edits>>

------------------------------------------------------------------------------
(* status: lifecycle.ts.  It writes nothing; the stages read off files that     *)
(* always exist, and those of learning, are left out.                           *)

\* Mutant: any decision certifies.
MutantAnyDecision(d) == d # None

certified(d) == d # None /\ d.releaseDecision \in {"approved", "demonstration-only"}

deriveLifecycle(t, d) ==
    [controlsSelected |-> t.selection # None,
     approvedForBuild |-> /\ t.contract # None
                          /\ checkApproval(t.contract, t.approval, t.proposition, t.catalogue),
     evaluated |-> d # None,
     certified |-> certified(d),
     deployed |-> d # None /\ d.deployable]

cmdStatus == deriveLifecycle(tree, decision)

------------------------------------------------------------------------------
(* .github/workflows/release-gate.yml *)

\* governance-release-decision on a checkout of the head, superseding any run
\* not yet deployed.
GateRun ==
    LET evidence == collectEvidence(head, commit,
                        [mode |-> "ci-authoritative", digest |-> commit, deploymentDigest |-> None])
    IN  /\ head.contract # None
        /\ run' = [tree |-> head, commit |-> commit,
                   decision |-> verifyRelease(head, evidence, commit)]
        /\ UNCHANGED <<tree, head, commit, files, deployed, signed, edits>>

\* The test job failed, or the decision job stopped on a missing contract.
GateRunFails ==
    /\ run # None
    /\ run' = None
    /\ UNCHANGED <<tree, head, commit, files, deployed, signed, edits>>

Deploy ==
    /\ run # None
    /\ run.decision.deployable
    /\ deployed' = [tree |-> run.tree, commit |-> run.commit]
    /\ run' = None
    /\ UNCHANGED <<tree, head, commit, files, signed, edits>>

Next ==
    \/ EditProposition \/ EditCatalogue \/ EditSource \/ EditContract \/ Commit
    \/ cmdSelect \/ cmdContract \/ cmdApprove \/ cmdVerify
    \/ \E mode \in LocalModes, digest \in {None, commit} :
          cmdEvidence(mode, digest)
    \/ GateRun \/ GateRunFails \/ Deploy

Spec == Init /\ [][Next]_vars

------------------------------------------------------------------------------
(* Properties *)

Selections == {selectControls(p, c) : p \in Propositions, c \in Catalogues}

Contract == [material : [propositionHash : {sha256Of(p) : p \in Propositions},
                         policyCatalogueHash : {sha256Of(c) : c \in Catalogues},
                         controls : UNION {SUBSET s : s \in Selections}],
             contractHash : {sha256Of(contractMaterial(p, c, s)) :
                                p \in Propositions, c \in Catalogues, s \in Selections}]

Approval == [contractHash : {sha256Of(contractMaterial(p, c, s)) :
                                p \in Propositions, c \in Catalogues, s \in Selections},
             propositionHash : {sha256Of(p) : p \in Propositions},
             policyCatalogueHash : {sha256Of(c) : c \in Catalogues}]

Tree == [source : Sources, proposition : Propositions, catalogue : Catalogues,
         selection : Selections \cup {None},
         contract : Contract \cup {None},
         approval : Approval \cup {None}]

TypeOK ==
    /\ tree \in Tree /\ head \in Tree
    /\ commit \in 1 .. MaxCommits
    /\ manifest # None =>
          /\ manifest.sourceCommit \in 1 .. commit
          /\ manifest.evidenceMode \in LocalModes
    /\ decision # None =>
          decision.releaseDecision \in {"blocked", "demonstration-only", "approved"}
    /\ run # None => run.tree \in Tree /\ run.commit \in 1 .. commit
    /\ deployed # None => deployed.tree \in Tree /\ deployed.commit \in 1 .. commit
    /\ signed \subseteq Approval
    /\ edits \in 0 .. MaxEdits

\* What an approver signed covers the contract, proposition and catalogue that
\* a tree holds now.
SignedFor(t) ==
    /\ t.contract # None
    /\ [contractHash |-> contractHashOf(t.contract),
        propositionHash |-> sha256Of(t.proposition),
        policyCatalogueHash |-> sha256Of(t.catalogue)] \in signed

\* Whatever is edited, regenerated, struck out, committed and approved in
\* whatever order, production runs only a tree whose exact contract, proposition
\* and catalogue a person approved (FR-010-5, FR-010-8).
DeployedTreeWasSigned == deployed # None => SignedFor(deployed.tree)

\* Every check that the contract of a checkout makes blocking passes on it.
PassesItsContract(t, digest) ==
    \A c \in BlockingControls(t.contract) : \A id \in c.evidenceRequirements :
        adapterOutcome(id, t, [mode |-> "ci-authoritative", digest |-> digest,
                               deploymentDigest |-> digest]) = "pass"

\* ... and on which every check that its contract makes blocking passes, one
\* that does not apply not counting as passed (FR-010-8).
DeployedPassesItsContract ==
    deployed # None => PassesItsContract(deployed.tree, deployed.commit)

ApprovalValid ==
    /\ tree.contract # None
    /\ checkApproval(tree.contract, tree.approval, tree.proposition, tree.catalogue)

\* A material change of the proposition, the catalogue or the contract
\* invalidates a valid approval until someone approves again (AC-010-2).
MaterialChangeInvalidatesApproval ==
    [][ApprovalValid /\ tree'.approval = tree.approval
           /\ <<tree'.proposition, tree'.catalogue, tree'.contract>>
                  # <<tree.proposition, tree.catalogue, tree.contract>>
       => ~ApprovalValid']_vars

\* A release decision other than "blocked" is never taken, locally either, on a
\* tree that nobody approved as it stands.
DecisionsNeedASignature ==
    [][decision' # decision /\ decision'.releaseDecision # "blocked" => SignedFor(tree)]_vars

\* The stages read off a decision may be older than the contract and the approval the
\* status shows beside them, but no status says "certified" or "deployed" of a
\* contract nobody put a name to (deriveLifecycle on what cmdStatus reads).
StatusIsEarned ==
    cmdStatus.certified \/ cmdStatus.deployed =>
        /\ cmdStatus.evaluated
        /\ decision.contractHash \in {a.contractHash : a \in signed}

\* The decision is about the commit being released: evidence collected from
\* another commit blocks (FR-010-8, AC-010-3).
EvidenceIsOfTheCommitAssessed ==
    [][decision' # decision /\ decision'.releaseDecision # "blocked" =>
           decision'.sourceCommit = commit]_vars

\* A release is judged by the contract its proposition and catalogue call for:
\* a stale contract, or one that lacks a control they select, blocks (FR-010-8).
DeployedContractIsCurrent ==
    deployed # None =>
        LET t == deployed.tree
        IN  t.contract = buildControlContract(t.proposition, t.catalogue,
                                              selectControls(t.proposition, t.catalogue))
==============================================================================
