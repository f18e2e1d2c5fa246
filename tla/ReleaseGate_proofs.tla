-------------------------- MODULE ReleaseGate_proofs --------------------------
(***************************************************************************)
(* Proofs about ReleaseGate for any propositions, catalogues and sources,  *)
(* and any number of edits and commits.                                    *)
(*                                                                         *)
(* The argument: an approval file is always a record somebody signed, and  *)
(* signatures are never withdrawn; a deployable decision was taken on the  *)
(* checkout it is kept with, whose approval file matched the hashes        *)
(* recomputed from that very checkout.                                     *)
(***************************************************************************)
EXTENDS ReleaseGate, TLAPS

\* The approval file of a tree is something an approver signed.
ApprovalSigned(t) ==
    t.approval # None =>
        /\ t.approval \in signed
        /\ t.approval = [contractHash |-> t.approval.contractHash,
                         propositionHash |-> t.approval.propositionHash,
                         policyCatalogueHash |-> t.approval.policyCatalogueHash]

\* A tree is a record of its files.
TreeShape(t) ==
    t = [source |-> t.source, proposition |-> t.proposition, catalogue |-> t.catalogue,
         selection |-> t.selection, contract |-> t.contract, approval |-> t.approval]

\* The checkout of a run whose decision is deployable.
RunIsSigned ==
    run # None =>
        /\ run = [tree |-> run.tree, commit |-> run.commit, decision |-> run.decision]
        /\ run.decision.deployable => SignedFor(run.tree)

\* The inductive invariant behind DeployedTreeWasSigned.
SignatureInv ==
    /\ TreeShape(tree)
    /\ TreeShape(head)
    /\ ApprovalSigned(tree)
    /\ ApprovalSigned(head)
    /\ RunIsSigned
    /\ DeployedTreeWasSigned

------------------------------------------------------------------------------

\* A tree that passes the approval check was signed as it stands.
LEMMA CheckedIsSigned ==
    ASSUME NEW t, ApprovalSigned(t), t.contract # None,
           checkApproval(t.contract, t.approval, t.proposition, t.catalogue)
    PROVE  SignedFor(t)
  BY DEF ApprovalSigned, checkApproval, SignedFor

\* A decision other than "blocked" passed the approval check.
LEMMA NotBlockedIsChecked ==
    ASSUME NEW t, NEW m, NEW d, verifyRelease(t, m, d).releaseDecision # "blocked"
    PROVE  checkApproval(t.contract, t.approval, t.proposition, t.catalogue)
  BY DEF verifyRelease

LEMMA DeployableIsNotBlocked ==
    ASSUME NEW t, NEW m, NEW d, verifyRelease(t, m, d).deployable
    PROVE  verifyRelease(t, m, d).releaseDecision # "blocked"
  BY DEF verifyRelease

\* Signatures are only ever added.
LEMMA SignedForIsKept ==
    ASSUME NEW t, SignedFor(t), signed \subseteq signed'
    PROVE  SignedFor(t)'
  BY DEF SignedFor

LEMMA SignatureInit == Init => SignatureInv
<1> SUFFICES ASSUME Init PROVE SignatureInv
  OBVIOUS
<1>1. PICK p \in Propositions, c \in Catalogues, s \in Sources :
         tree = [source |-> s, proposition |-> p, catalogue |-> c,
                 selection |-> None, contract |-> None, approval |-> None]
  BY DEF Init
<1>2. TreeShape(tree) /\ ApprovalSigned(tree)
  BY <1>1 DEF TreeShape, ApprovalSigned
<1> QED
  BY <1>2 DEF Init, SignatureInv, TreeShape, ApprovalSigned, RunIsSigned, DeployedTreeWasSigned

\* A step that only rewrites files of the working tree, approval excepted.
LEMMA TreeEditKeepsInv ==
    ASSUME SignatureInv, TreeShape(tree)', tree'.approval = tree.approval,
           UNCHANGED <<head, run, deployed, signed>>
    PROVE  SignatureInv'
  BY DEF SignatureInv, ApprovalSigned, RunIsSigned, DeployedTreeWasSigned, TreeShape, SignedFor

LEMMA SignatureStep == SignatureInv /\ [Next]_vars => SignatureInv'
<1> SUFFICES ASSUME SignatureInv, [Next]_vars PROVE SignatureInv'
  OBVIOUS
<1> USE DEF files, pipeline
<1>1. ASSUME NEW t, Edited(t), TreeShape(t), t.approval = tree.approval
      PROVE  SignatureInv'
  BY <1>1, TreeEditKeepsInv DEF Edited, TreeShape
<1>2. ASSUME NEW t, Writes(t), TreeShape(t), t.approval = tree.approval
      PROVE  SignatureInv'
  BY <1>2, TreeEditKeepsInv DEF Writes, TreeShape
<1>3. CASE EditProposition
  <2>1. PICK p \in Propositions : Edited([tree EXCEPT !.proposition = p])
    BY <1>3 DEF EditProposition
  <2> QED  BY <2>1, <1>1 DEF SignatureInv, TreeShape
<1>4. CASE EditCatalogue
  <2>1. PICK c \in Catalogues : Edited([tree EXCEPT !.catalogue = c])
    BY <1>4 DEF EditCatalogue
  <2> QED  BY <2>1, <1>1 DEF SignatureInv, TreeShape
<1>5. CASE EditSource
  <2>1. PICK s \in Sources : Edited([tree EXCEPT !.source = s])
    BY <1>5 DEF EditSource
  <2> QED  BY <2>1, <1>1 DEF SignatureInv, TreeShape
<1>6. CASE EditContract
  <2>1. PICK c : Edited([tree EXCEPT !.contract.material.controls = @ \ {c}])
    BY <1>6 DEF EditContract
  <2> QED  BY <2>1, <1>1 DEF SignatureInv, TreeShape
<1>7. CASE Commit
  BY <1>7 DEF Commit, SignatureInv, ApprovalSigned, RunIsSigned, DeployedTreeWasSigned,
              TreeShape, SignedFor
<1>8. CASE cmdSelect
  BY <1>8, <1>2 DEF cmdSelect, SignatureInv, TreeShape
<1>9. CASE cmdContract
  BY <1>9, <1>2 DEF cmdContract, SignatureInv, TreeShape
<1>10. CASE cmdApprove
  <2> DEFINE approval == buildApprovalRecord(tree.contract, tree.proposition, tree.catalogue)
  <2>1. tree' = [tree EXCEPT !.approval = approval] /\ signed' = signed \cup {approval}
    BY <1>10 DEF cmdApprove
  <2>2. TreeShape(tree)' /\ tree'.approval = approval
    BY <2>1 DEF SignatureInv, TreeShape
  <2>3. ApprovalSigned(tree)'
    BY <2>1, <2>2 DEF ApprovalSigned, buildApprovalRecord
  <2>4. ApprovalSigned(head)' /\ TreeShape(head)'
    BY <1>10, <2>1 DEF cmdApprove, SignatureInv, ApprovalSigned, TreeShape
  <2>5. RunIsSigned'
    BY <1>10, <2>1, SignedForIsKept DEF cmdApprove, SignatureInv, RunIsSigned, SignedFor
  <2>6. DeployedTreeWasSigned'
    BY <1>10, <2>1 DEF cmdApprove, SignatureInv, DeployedTreeWasSigned, SignedFor
  <2> QED  BY <2>2, <2>3, <2>4, <2>5, <2>6 DEF SignatureInv
<1>11. CASE cmdVerify
  BY <1>11 DEF cmdVerify, SignatureInv, ApprovalSigned, RunIsSigned, DeployedTreeWasSigned,
               TreeShape, SignedFor
<1>12. ASSUME NEW mode, NEW digest, cmdEvidence(mode, digest)
       PROVE  SignatureInv'
  BY <1>12 DEF cmdEvidence, SignatureInv, ApprovalSigned, RunIsSigned, DeployedTreeWasSigned,
               TreeShape, SignedFor
<1>13. CASE GateRun
  <2> DEFINE evidence == collectEvidence(head, commit,
                 [mode |-> "ci-authoritative", digest |-> commit, deploymentDigest |-> None])
             ruling == verifyRelease(head, evidence, commit)
  <2>1. /\ head.contract # None
        /\ run' = [tree |-> head, commit |-> commit, decision |-> ruling]
        /\ UNCHANGED <<tree, head, deployed, signed>>
    BY <1>13 DEF GateRun
  <2>2. ruling.deployable => SignedFor(head)
    BY <2>1, DeployableIsNotBlocked, NotBlockedIsChecked, CheckedIsSigned DEF SignatureInv
  <2>3. RunIsSigned'
    BY <2>1, <2>2 DEF RunIsSigned, SignedFor
  <2> QED
    BY <2>1, <2>3 DEF SignatureInv, ApprovalSigned, DeployedTreeWasSigned, TreeShape, SignedFor
<1>14. CASE GateRunFails
  BY <1>14 DEF GateRunFails, SignatureInv, ApprovalSigned, RunIsSigned, DeployedTreeWasSigned,
               TreeShape, SignedFor
<1>15. CASE Deploy
  BY <1>15 DEF Deploy, SignatureInv, ApprovalSigned, RunIsSigned, DeployedTreeWasSigned,
               TreeShape, SignedFor
<1>16. CASE UNCHANGED vars
  BY <1>16 DEF vars, SignatureInv, ApprovalSigned, RunIsSigned, DeployedTreeWasSigned,
               TreeShape, SignedFor
<1> QED
  BY <1>3, <1>4, <1>5, <1>6, <1>7, <1>8, <1>9, <1>10, <1>11, <1>12, <1>13, <1>14, <1>15, <1>16
  DEF Next

\* Production runs only a tree whose exact contract, proposition and catalogue
\* a person approved, whatever is edited and in whatever order the commands run.
THEOREM OnlySignedTreesDeploy == Spec => []DeployedTreeWasSigned
<1>1. SignatureInv => DeployedTreeWasSigned
  BY DEF SignatureInv
<1> QED
  BY <1>1, SignatureInit, SignatureStep, PTL DEF Spec

------------------------------------------------------------------------------

CIContext(digest) ==
    [mode |-> "ci-authoritative", digest |-> digest, deploymentDigest |-> None]

\* In CI every adapter gives a verdict, the same with and without the digest to
\* be deployed when that is the certified one.
LEMMA AdaptersGiveVerdicts ==
    ASSUME NEW id, NEW t, t.source \in Sources, NEW digest
    PROVE  /\ adapterOutcome(id, t, CIContext(digest)) \in {"pass", "fail", "missing", "error"}
           /\ adapterOutcome(id, t, [mode |-> "ci-authoritative", digest |-> digest,
                                     deploymentDigest |-> digest])
                = adapterOutcome(id, t, CIContext(digest))
  BY ChecksAssumption
  DEF adapterOutcome, mcpAllowlist, dataMinimisation, immutableDeploy, approvedContract, CIContext

\* The evidence a control asks for is in the manifest.
LEMMA EvidenceIsCollected ==
    ASSUME NEW t, NEW n, NEW ctx,
           NEW k \in t.contract.material.controls, NEW id \in k.evidenceRequirements
    PROVE  \E e \in collectEvidence(t, n, ctx).entries :
              /\ e.controlId = k.controlId
              /\ e.evidenceId = id
              /\ e.outcome = adapterOutcome(id, t, ctx)
<1> DEFINE Of(control) ==
        {[controlId |-> control.controlId, evidenceId |-> i,
          outcome |-> adapterOutcome(i, t, ctx),
          artefactDigest |-> IF i = "artefact-digest" THEN ctx.digest ELSE None]
            : i \in control.evidenceRequirements}
    entry == [controlId |-> k.controlId, evidenceId |-> id,
              outcome |-> adapterOutcome(id, t, ctx),
              artefactDigest |-> IF id = "artefact-digest" THEN ctx.digest ELSE None]
<1>1. collectEvidence(t, n, ctx).entries = UNION {Of(control) : control \in t.contract.material.controls}
  BY DEF collectEvidence
<1>2. entry \in Of(k)
  OBVIOUS
<1>3. entry \in UNION {Of(control) : control \in t.contract.material.controls}
  BY <1>2
<1> QED
  BY <1>1, <1>3

\* A control that is not failed, errored or missing has no such evidence.
LEMMA EvaluationKeepsTheWorst ==
    ASSUME NEW k, NEW m, NEW e \in m.entries,
           e.controlId = k.controlId, e.evidenceId \in k.evidenceRequirements,
           evaluateControl(k, m) \notin {"fail", "missing", "error"}
    PROVE  e.outcome \notin {"fail", "missing", "error"}
<1> DEFINE Entries(id) == {d \in m.entries : d.controlId = k.controlId /\ d.evidenceId = id}
           outcomes == UNION {{d.outcome : d \in Entries(id)} : id \in k.evidenceRequirements}
           unmet == \E id \in k.evidenceRequirements : Entries(id) = {}
<1>1. e.outcome \in outcomes
  <2>1. e \in Entries(e.evidenceId)
    OBVIOUS
  <2>2. e.outcome \in {d.outcome : d \in Entries(e.evidenceId)}
    BY <2>1
  <2> QED  BY <2>2
<1>2. evaluateControl(k, m) =
        CASE "fail" \in outcomes -> "fail"
          [] "fail" \notin outcomes /\ "error" \in outcomes -> "error"
          [] {"fail", "error"} \cap outcomes = {} /\ (unmet \/ "missing" \in outcomes) -> "missing"
          [] outcomes \subseteq {"not-applicable"} /\ ~unmet -> "not-applicable"
          [] OTHER -> "pass"
  BY DEF evaluateControl
<1> HIDE DEF outcomes, unmet
<1>3. "fail" \notin outcomes
  BY <1>2
<1>4. "error" \notin outcomes
  BY <1>2, <1>3
<1>5. "missing" \notin outcomes
  BY <1>2, <1>3, <1>4
<1> QED
  BY <1>1, <1>3, <1>4, <1>5

\* What the workflow declares deployable passes its contract.
LEMMA GatePasses ==
    ASSUME NEW t, t.source \in Sources, NEW n,
           verifyRelease(t, collectEvidence(t, n, CIContext(n)), n).deployable
    PROVE  PassesItsContract(t, n)
<1> DEFINE m == collectEvidence(t, n, CIContext(n))
<1>1. blockingFailures(t.contract, m) = {}
  BY DEF verifyRelease
<1>2. SUFFICES ASSUME NEW k \in BlockingControls(t.contract), NEW id \in k.evidenceRequirements
               PROVE  adapterOutcome(id, t, CIContext(n)) = "pass"
  BY AdaptersGiveVerdicts DEF PassesItsContract
<1>3. evaluateControl(k, m) \notin {"fail", "missing", "error"}
  BY <1>1 DEF blockingFailures
<1>4. PICK e \in m.entries : /\ e.controlId = k.controlId
                             /\ e.evidenceId = id
                             /\ e.outcome = adapterOutcome(id, t, CIContext(n))
  BY EvidenceIsCollected DEF BlockingControls
<1>5. e.outcome \notin {"fail", "missing", "error"}
  BY <1>3, <1>4, EvaluationKeepsTheWorst
<1>6. adapterOutcome(id, t, CIContext(n)) \in {"pass", "fail", "missing", "error"}
  BY AdaptersGiveVerdicts
<1> HIDE DEF m
<1> QED
  BY <1>4, <1>5, <1>6

\* The inductive invariant behind DeployedPassesItsContract.
PassingInv ==
    /\ TreeShape(tree) /\ tree.source \in Sources
    /\ head.source \in Sources
    /\ run # None /\ run.decision.deployable => PassesItsContract(run.tree, run.commit)
    /\ DeployedPassesItsContract

LEMMA PassingInit == Init => PassingInv
<1> SUFFICES ASSUME Init PROVE PassingInv
  OBVIOUS
<1>1. TreeShape(tree) /\ tree.source \in Sources
  BY DEF Init, TreeShape
<1> QED
  BY <1>1 DEF Init, PassingInv, DeployedPassesItsContract

LEMMA PassingStep == PassingInv /\ [Next]_vars => PassingInv'
<1> SUFFICES ASSUME PassingInv, [Next]_vars PROVE PassingInv'
  OBVIOUS
<1> USE DEF files, pipeline
<1>1. ASSUME TreeShape(tree)', tree'.source \in Sources, UNCHANGED <<head, run, deployed>>
      PROVE  PassingInv'
  BY <1>1 DEF PassingInv, DeployedPassesItsContract
<1>2. CASE EditProposition
  BY <1>1, <1>2 DEF EditProposition, Edited, PassingInv, TreeShape
<1>3. CASE EditCatalogue
  BY <1>1, <1>3 DEF EditCatalogue, Edited, PassingInv, TreeShape
<1>4. CASE EditSource
  BY <1>1, <1>4 DEF EditSource, Edited, PassingInv, TreeShape
<1>5. CASE EditContract
  BY <1>1, <1>5 DEF EditContract, Edited, PassingInv, TreeShape
<1>6. CASE Commit
  BY <1>6 DEF Commit, PassingInv, DeployedPassesItsContract, TreeShape
<1>7. CASE cmdSelect
  BY <1>1, <1>7 DEF cmdSelect, Writes, PassingInv, TreeShape
<1>8. CASE cmdContract
  BY <1>1, <1>8 DEF cmdContract, Writes, PassingInv, TreeShape
<1>9. CASE cmdApprove
  BY <1>1, <1>9 DEF cmdApprove, PassingInv, TreeShape
<1>10. CASE cmdVerify
  BY <1>1, <1>10 DEF cmdVerify, PassingInv, TreeShape
<1>11. ASSUME NEW mode, NEW digest, cmdEvidence(mode, digest) PROVE PassingInv'
  BY <1>1, <1>11 DEF cmdEvidence, PassingInv, TreeShape
<1>12. CASE GateRun
  <2> DEFINE ruling == verifyRelease(head, collectEvidence(head, commit, CIContext(commit)), commit)
  <2>1. /\ run' = [tree |-> head, commit |-> commit, decision |-> ruling]
        /\ UNCHANGED <<tree, head, deployed>>
    BY <1>12 DEF GateRun, CIContext
  <2>2. ruling.deployable => PassesItsContract(head, commit)
    BY GatePasses DEF PassingInv
  <2> QED
    BY <2>1, <2>2 DEF PassingInv, DeployedPassesItsContract, TreeShape
<1>13. CASE GateRunFails
  BY <1>13 DEF GateRunFails, PassingInv, DeployedPassesItsContract, TreeShape
<1>14. CASE Deploy
  BY <1>14 DEF Deploy, PassingInv, DeployedPassesItsContract, TreeShape
<1>15. CASE UNCHANGED vars
  BY <1>15 DEF vars, PassingInv, DeployedPassesItsContract, TreeShape
<1> QED
  BY <1>2, <1>3, <1>4, <1>5, <1>6, <1>7, <1>8, <1>9, <1>10, <1>11, <1>12, <1>13, <1>14, <1>15
  DEF Next

\* Every check that the contract of the deployed checkout makes blocking passes
\* on that checkout.
THEOREM OnlyPassingTreesDeploy == Spec => []DeployedPassesItsContract
<1>1. PassingInv => DeployedPassesItsContract
  BY DEF PassingInv
<1> QED
  BY <1>1, PassingInit, PassingStep, PTL DEF Spec

------------------------------------------------------------------------------

\* A decision other than "blocked" is only taken on a tree that was signed as it
\* stands.
THEOREM OnlySignedTreesPass == Spec => DecisionsNeedASignature
<1>1. SignatureInv /\ [Next]_vars =>
        [decision' # decision /\ decision'.releaseDecision # "blocked" => SignedFor(tree)]_vars
  <2> SUFFICES ASSUME SignatureInv, Next, decision' # decision,
                      decision'.releaseDecision # "blocked"
               PROVE  SignedFor(tree)
    OBVIOUS
  <2>1. CASE cmdVerify
    <3>1. PICK d : decision' = verifyRelease(tree, manifest, d)
      BY <2>1 DEF cmdVerify
    <3> QED
      BY <2>1, <3>1, NotBlockedIsChecked, CheckedIsSigned DEF cmdVerify, SignatureInv
  <2>2. ASSUME ~cmdVerify PROVE FALSE
    BY <2>2 DEF Next, EditProposition, EditCatalogue, EditSource, EditContract, Edited, Commit,
                cmdSelect, cmdContract, Writes, cmdApprove, cmdEvidence, GateRun, GateRunFails,
                Deploy, files, pipeline
  <2> QED  BY <2>1, <2>2
<1> QED
  BY <1>1, SignatureInit, SignatureStep, PTL DEF Spec, DecisionsNeedASignature

------------------------------------------------------------------------------

\* The contract file is a record of its material and its stated hash.
ContractShape ==
    tree.contract # None =>
        tree.contract = [material |-> tree.contract.material,
                         contractHash |-> tree.contract.contractHash]

ShapeInv == TreeShape(tree) /\ ContractShape

LEMMA ShapeInit == Init => ShapeInv
<1> SUFFICES ASSUME Init PROVE ShapeInv
  OBVIOUS
<1>1. TreeShape(tree) /\ tree.contract = None
  BY DEF Init, TreeShape
<1> QED
  BY <1>1 DEF ShapeInv, ContractShape

LEMMA ShapeStep == ShapeInv /\ [Next]_vars => ShapeInv'
<1> SUFFICES ASSUME ShapeInv, [Next]_vars PROVE ShapeInv'
  OBVIOUS
<1> USE DEF files, ShapeInv, ContractShape, TreeShape
<1>1. CASE EditProposition
  BY <1>1 DEF EditProposition, Edited
<1>2. CASE EditCatalogue
  BY <1>2 DEF EditCatalogue, Edited
<1>3. CASE EditSource
  BY <1>3 DEF EditSource, Edited
<1>4. CASE EditContract
  <2>1. PICK c : tree' = [tree EXCEPT !.contract.material.controls = @ \ {c}]
    BY <1>4 DEF EditContract, Edited
  <2>2. tree.contract # None
    BY <1>4 DEF EditContract
  <2> QED
    BY <2>1, <2>2
<1>5. CASE cmdSelect
  BY <1>5 DEF cmdSelect, Writes
<1>6. CASE cmdContract
  BY <1>6 DEF cmdContract, Writes, buildControlContract
<1>7. CASE cmdApprove
  BY <1>7 DEF cmdApprove
<1>8. CASE UNCHANGED tree
  BY <1>8
<1>9. ASSUME NEW mode, NEW digest, cmdEvidence(mode, digest) PROVE UNCHANGED tree
  BY <1>9 DEF cmdEvidence
<1>10. Commit \/ cmdVerify \/ GateRun \/ GateRunFails \/ Deploy \/ UNCHANGED vars => UNCHANGED tree
  BY DEF Commit, cmdVerify, GateRun, GateRunFails, Deploy, vars
<1> QED
  BY <1>1, <1>2, <1>3, <1>4, <1>5, <1>6, <1>7, <1>8, <1>9, <1>10 DEF Next

LEMMA HashIsInjective ==
    ASSUME NEW x, NEW y, sha256Of(x) = sha256Of(y) PROVE x = y
<1>1. sha256Of(x).sha256 = x /\ sha256Of(y).sha256 = y
  BY DEF sha256Of
<1> QED
  BY <1>1

\* A valid approval stops being valid when the proposition, the catalogue or the
\* contract changes under it.
THEOREM ChangesInvalidateApproval == Spec => MaterialChangeInvalidatesApproval
<1>1. ShapeInv /\ ShapeInv' =>
        [ApprovalValid /\ tree'.approval = tree.approval
             /\ <<tree'.proposition, tree'.catalogue, tree'.contract>>
                    # <<tree.proposition, tree.catalogue, tree.contract>>
         => ~ApprovalValid']_vars
  <2> SUFFICES ASSUME ShapeInv, ShapeInv', ApprovalValid, ApprovalValid',
                      tree'.approval = tree.approval
               PROVE  <<tree'.proposition, tree'.catalogue, tree'.contract>>
                        = <<tree.proposition, tree.catalogue, tree.contract>>
    OBVIOUS
  <2>1. tree'.proposition = tree.proposition
    BY HashIsInjective DEF ApprovalValid, checkApproval
  <2>2. tree'.catalogue = tree.catalogue
    BY HashIsInjective DEF ApprovalValid, checkApproval
  <2>3. tree'.contract.material = tree.contract.material
    BY HashIsInjective DEF ApprovalValid, checkApproval, contractHashOf
  <2>4. tree'.contract.contractHash = tree.contract.contractHash
    BY DEF ApprovalValid, checkApproval
  <2>5. tree'.contract = tree.contract
    BY <2>3, <2>4 DEF ShapeInv, ContractShape, ApprovalValid
  <2> QED
    BY <2>1, <2>2, <2>5
<1> QED
  BY <1>1, ShapeInit, ShapeStep, PTL DEF Spec, MaterialChangeInvalidatesApproval

------------------------------------------------------------------------------

\* What a decision that is kept was taken on.
DecisionIsSigned ==
    decision # None =>
        /\ decision.deployable => decision.releaseDecision # "blocked"
        /\ decision.releaseDecision # "blocked" =>
              decision.contractHash \in {a.contractHash : a \in signed}

LEMMA DecisionStep == SignatureInv /\ DecisionIsSigned /\ [Next]_vars => DecisionIsSigned'
<1> SUFFICES ASSUME SignatureInv, DecisionIsSigned, [Next]_vars PROVE DecisionIsSigned'
  OBVIOUS
<1> USE DEF files, pipeline
<1>1. ASSUME decision' = decision, signed \subseteq signed' PROVE DecisionIsSigned'
  BY <1>1 DEF DecisionIsSigned
<1>2. CASE cmdVerify
  <2>1. PICK d : decision' = verifyRelease(tree, manifest, d)
    BY <1>2 DEF cmdVerify
  <2>2. UNCHANGED signed /\ tree.contract # None
    BY <1>2 DEF cmdVerify
  <2>3. decision'.deployable => decision'.releaseDecision # "blocked"
    BY <2>1, DeployableIsNotBlocked
  <2>4. decision'.contractHash = tree.contract.contractHash
    BY <2>1 DEF verifyRelease
  <2>5. ASSUME decision'.releaseDecision # "blocked"
        PROVE  decision'.contractHash \in {a.contractHash : a \in signed}
    <3>1. checkApproval(tree.contract, tree.approval, tree.proposition, tree.catalogue)
      BY <2>1, <2>5, NotBlockedIsChecked
    <3>2. tree.approval \in signed /\ tree.approval.contractHash = tree.contract.contractHash
      BY <3>1 DEF checkApproval, SignatureInv, ApprovalSigned
    <3> QED  BY <2>4, <3>2
  <2> QED  BY <2>2, <2>3, <2>5 DEF DecisionIsSigned
<1>3. CASE cmdApprove
  BY <1>1, <1>3 DEF cmdApprove
<1>4. CASE EditProposition \/ EditCatalogue \/ EditSource \/ EditContract \/ Commit
  BY <1>1, <1>4 DEF EditProposition, EditCatalogue, EditSource, EditContract, Edited, Commit
<1>5. CASE cmdSelect \/ cmdContract \/ GateRun \/ GateRunFails \/ Deploy
  BY <1>1, <1>5 DEF cmdSelect, cmdContract, Writes, GateRun, GateRunFails, Deploy
<1>6. ASSUME NEW mode, NEW digest, cmdEvidence(mode, digest) PROVE DecisionIsSigned'
  BY <1>1, <1>6 DEF cmdEvidence
<1>7. CASE UNCHANGED vars
  BY <1>1, <1>7 DEF vars
<1> QED
  BY <1>2, <1>3, <1>4, <1>5, <1>6, <1>7 DEF Next

\* No status says "certified" or "deployed" of a contract that nobody signed, however
\* old the decision it is read off.
THEOREM NoStatusUnearned == Spec => []StatusIsEarned
<1>1. Init => DecisionIsSigned
  BY DEF Init, DecisionIsSigned
<1>2. DecisionIsSigned => StatusIsEarned
  BY DEF DecisionIsSigned, StatusIsEarned, cmdStatus, deriveLifecycle, certified
<1> QED
  BY <1>1, <1>2, SignatureInit, SignatureStep, DecisionStep, PTL DEF Spec

------------------------------------------------------------------------------

ContractHashes ==
    {sha256Of(contractMaterial(p, c, s)) : p \in Propositions, c \in Catalogues, s \in Selections}

\* The files that a selection, a contract and an approval write are of their types.
LEMMA SelectedIsTyped ==
    ASSUME NEW p \in Propositions, NEW c \in Catalogues
    PROVE  selectControls(p, c) \in Selections
  BY DEF Selections

LEMMA ContractIsTyped ==
    ASSUME NEW p \in Propositions, NEW c \in Catalogues, NEW s \in Selections
    PROVE  buildControlContract(p, c, s) \in Contract
<1>1. s \in UNION {SUBSET x : x \in Selections}
  OBVIOUS
<1>2. sha256Of(contractMaterial(p, c, s)) \in ContractHashes
  BY DEF ContractHashes
<1>3. contractMaterial(p, c, s) \in
        [propositionHash : {sha256Of(x) : x \in Propositions},
         policyCatalogueHash : {sha256Of(x) : x \in Catalogues},
         controls : UNION {SUBSET x : x \in Selections}]
  BY <1>1 DEF contractMaterial
<1> QED
  BY <1>2, <1>3 DEF buildControlContract, Contract, ContractHashes

LEMMA StruckIsTyped ==
    ASSUME NEW k \in Contract, NEW c
    PROVE  [k EXCEPT !.material.controls = @ \ {c}] \in Contract
<1>1. k.material.controls \ {c} \in UNION {SUBSET x : x \in Selections}
  <2>1. PICK x \in Selections : k.material.controls \in SUBSET x
    BY DEF Contract
  <2> QED  BY <2>1
<1> QED
  BY <1>1 DEF Contract

LEMMA ApprovalIsTyped ==
    ASSUME NEW k \in Contract, NEW p \in Propositions, NEW c \in Catalogues
    PROVE  buildApprovalRecord(k, p, c) \in Approval
  BY DEF buildApprovalRecord, Approval, Contract

\* An edit and a command that only writes files need their new tree typed; the other
\* steps copy trees.
LEMMA TypeStep == TypeOK /\ [Next]_vars => TypeOK'
<1> SUFFICES ASSUME TypeOK, [Next]_vars PROVE TypeOK'
  OBVIOUS
<1> USE GateAssumption DEF files, pipeline
<1>1. ASSUME NEW t \in Tree, Edited(t) PROVE TypeOK'
  BY <1>1 DEF Edited, TypeOK
<1>2. ASSUME NEW t \in Tree, Writes(t) PROVE TypeOK'
  BY <1>2 DEF Writes, TypeOK
<1>3. CASE EditProposition \/ EditCatalogue \/ EditSource
  <2>1. PICK t \in Tree : Edited(t)
    BY <1>3 DEF EditProposition, EditCatalogue, EditSource, TypeOK, Tree
  <2> QED  BY <2>1, <1>1
<1>4. CASE EditContract
  <2>1. PICK c : Edited([tree EXCEPT !.contract.material.controls = @ \ {c}])
    BY <1>4 DEF EditContract
  <2> DEFINE k == [tree.contract EXCEPT !.material.controls = @ \ {c}]
  <2>2. k \in Contract
    BY <1>4, StruckIsTyped DEF EditContract, TypeOK, Tree
  <2>3. [tree EXCEPT !.contract.material.controls = @ \ {c}] = [tree EXCEPT !.contract = k]
    OBVIOUS
  <2>4. [tree EXCEPT !.contract = k] \in Tree
    <3> HIDE DEF k
    <3> QED  BY <2>2 DEF TypeOK, Tree
  <2> QED  BY <2>1, <2>3, <2>4, <1>1
<1>5. CASE Commit
  BY <1>5 DEF Commit, TypeOK
<1>6. CASE cmdSelect
  <2>1. [tree EXCEPT !.selection = selectControls(tree.proposition, tree.catalogue)] \in Tree
    BY SelectedIsTyped DEF TypeOK, Tree
  <2> QED  BY <1>6, <2>1, <1>2 DEF cmdSelect
<1>7. CASE cmdContract
  <2> DEFINE s == IF tree.selection # None THEN tree.selection
                  ELSE selectControls(tree.proposition, tree.catalogue)
             k == buildControlContract(tree.proposition, tree.catalogue, s)
  <2>1. s \in Selections
    BY SelectedIsTyped DEF TypeOK, Tree
  <2>2. k \in Contract
    <3> HIDE DEF s
    <3> QED  BY <2>1, ContractIsTyped DEF TypeOK, Tree
  <2>3. Writes([tree EXCEPT !.contract = k])
    BY <1>7 DEF cmdContract
  <2>4. [tree EXCEPT !.contract = k] \in Tree
    <3> HIDE DEF k
    <3> QED  BY <2>2 DEF TypeOK, Tree
  <2> QED  BY <2>3, <2>4, <1>2
<1>8. CASE cmdApprove
  <2> DEFINE a == buildApprovalRecord(tree.contract, tree.proposition, tree.catalogue)
  <2>1. a \in Approval
    BY <1>8, ApprovalIsTyped DEF cmdApprove, TypeOK, Tree
  <2>2. /\ tree' = [tree EXCEPT !.approval = a] /\ signed' = signed \cup {a}
        /\ UNCHANGED <<head, commit, files, pipeline, edits>>
    BY <1>8 DEF cmdApprove
  <2> HIDE DEF a
  <2> QED  BY <2>1, <2>2 DEF TypeOK, Tree
<1>9. ASSUME NEW mode \in LocalModes, NEW digest, cmdEvidence(mode, digest) PROVE TypeOK'
  <2>1. manifest'.sourceCommit = commit /\ manifest'.evidenceMode = mode
    BY <1>9 DEF cmdEvidence, collectEvidence
  <2>2. UNCHANGED <<tree, head, commit, decision, pipeline, signed, edits>>
    BY <1>9 DEF cmdEvidence
  <2> QED  BY <2>1, <2>2 DEF TypeOK
<1>10. CASE cmdVerify
  <2>1. decision'.releaseDecision \in {"blocked", "demonstration-only", "approved"}
    BY <1>10 DEF cmdVerify, verifyRelease
  <2> QED  BY <1>10, <2>1 DEF cmdVerify, TypeOK
<1>11. CASE GateRun
  <2>1. run'.tree = head /\ run'.commit = commit
    BY <1>11 DEF GateRun
  <2> QED  BY <1>11, <2>1 DEF GateRun, TypeOK
<1>12. CASE GateRunFails
  BY <1>12 DEF GateRunFails, TypeOK
<1>13. CASE Deploy
  BY <1>13 DEF Deploy, TypeOK
<1>14. CASE UNCHANGED vars
  BY <1>14 DEF vars, TypeOK
<1> QED
  BY <1>3, <1>4, <1>5, <1>6, <1>7, <1>8, <1>9, <1>10, <1>11, <1>12, <1>13, <1>14 DEF Next

\* Whatever is edited and run, every file of a tree and of a checkout is one that the
\* commands can write.
THEOREM GateTypeCorrect == Spec => []TypeOK
<1>1. Init => TypeOK
  <2> SUFFICES ASSUME Init PROVE TypeOK
    OBVIOUS
  <2>1. tree \in Tree
    BY DEF Init, Tree
  <2> QED  BY <2>1, GateAssumption DEF Init, TypeOK
<1> QED
  BY <1>1, TypeStep, PTL DEF Spec
==============================================================================
