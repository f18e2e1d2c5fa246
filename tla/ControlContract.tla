--------------------------- MODULE ControlContract ---------------------------
(***************************************************************************)
(* The pure part of the governance engine (src/governance/src): control    *)
(* selection, the control contract, hash-bound approval, evidence and the  *)
(* release decision.                                                       *)
(*                                                                         *)
(* A tree is what one checkout of the repository holds: the source the     *)
(* adapters inspect, the proposition, the policy catalogue, and the        *)
(* selection, contract and approval files, None when absent.  SHA-256 is   *)
(* an injective function.                                                  *)
(***************************************************************************)
EXTENDS Integers, FiniteSets

CONSTANT None

sha256Of(value) == [sha256 |-> value]

------------------------------------------------------------------------------
(* select.ts *)

predicateHolds(chars, p) ==
    CASE p.op = "isTrue"   -> chars[p.field] = TRUE
      [] p.op = "isFalse"  -> chars[p.field] = FALSE
      [] p.op = "eq"       -> chars[p.field] = p.value
      [] p.op = "neq"      -> chars[p.field] # p.value
      [] p.op = "in"       -> chars[p.field] \in p.value
      [] p.op = "contains" -> p.value \in chars[p.field]

applies(chars, control) == \A p \in control.appliesWhen : predicateHolds(chars, p)

toSelected(control) ==
    [controlId |-> control.id, severity |-> control.severity,
     evidenceRequirements |-> control.evidenceRequirements]

selectControls(proposition, catalogue) ==
    {toSelected(c) : c \in {d \in catalogue : applies(proposition.characteristics, d)}}

(* contract.ts *)

contractMaterial(proposition, catalogue, selection) ==
    [propositionHash |-> sha256Of(proposition),
     policyCatalogueHash |-> sha256Of(catalogue),
     controls |-> selection]

buildControlContract(proposition, catalogue, selection) ==
    LET material == contractMaterial(proposition, catalogue, selection)
    IN  [material |-> material, contractHash |-> sha256Of(material)]

contractHashOf(contract) == sha256Of(contract.material)

(* approval.ts *)

buildApprovalRecord(contract, proposition, catalogue) ==
    [contractHash |-> contract.contractHash,
     propositionHash |-> sha256Of(proposition),
     policyCatalogueHash |-> sha256Of(catalogue)]

\* Mutant: the contract's own material is not looked at.
MutantTrustsStatedHash(contract, approval, proposition, catalogue) ==
    /\ approval # None
    /\ approval.contractHash = contract.contractHash
    /\ approval.propositionHash = sha256Of(proposition)
    /\ approval.policyCatalogueHash = sha256Of(catalogue)

\* Mutant: the policy catalogue is not compared.
MutantIgnoresCatalogue(contract, approval, proposition, catalogue) ==
    /\ approval # None
    /\ contractHashOf(contract) = contract.contractHash
    /\ approval.contractHash = contractHashOf(contract)
    /\ approval.propositionHash = sha256Of(proposition)

checkApproval(contract, approval, proposition, catalogue) ==
    /\ approval # None
    /\ contractHashOf(contract) = contract.contractHash
    /\ approval.contractHash = contractHashOf(contract)
    /\ approval.propositionHash = sha256Of(proposition)
    /\ approval.policyCatalogueHash = sha256Of(catalogue)

------------------------------------------------------------------------------
(* adapters.ts and evidence.ts *)

\* configuredTools reads the list in the driver's file; a file without the list is
\* the empty set, an unreadable one None.
mcpAllowlist(tree) ==
    IF tree.source.tools = None THEN "error"
    ELSE IF tree.source.tools \subseteq tree.proposition.approvedTools THEN "pass"
    ELSE "fail"

\* Its "error" is an unreadable proposition, which the command has just read.
dataMinimisation(tree) ==
    IF tree.proposition.characteristics.handlesPersonalData THEN "pass" ELSE "fail"

immutableDeploy(ctx) ==
    IF ctx.mode = "local-demonstration" THEN "not-applicable"
    ELSE IF ctx.digest = None THEN "missing"
    ELSE IF ctx.deploymentDigest \in {None, ctx.digest} THEN "pass"
    ELSE "fail"

approvedContract(tree) == IF tree.approval # None THEN "pass" ELSE "missing"

\* What an adapter finds in a tree.  ctx: the mode of the collection, the
\* digest certified and the digest to be deployed, each None when not given.
\* The source's checks stand for the adapters that scan a file or read results.
\* An evidence id without an adapter is reported missing.
adapterOutcome(id, tree, ctx) ==
    CASE id = "mcp-allowlist"     -> mcpAllowlist(tree)
      [] id = "data-minimisation" -> dataMinimisation(tree)
      [] id = "artefact-digest"   -> immutableDeploy(ctx)
      [] id = "approved-contract" -> approvedContract(tree)
      [] OTHER -> IF id \in DOMAIN tree.source.checks THEN tree.source.checks[id] ELSE "missing"

collectEvidence(tree, commit, ctx) ==
    [evidenceMode |-> ctx.mode,
     sourceCommit |-> commit,
     contractHash |-> tree.contract.contractHash,
     entries |-> UNION {{[controlId |-> control.controlId, evidenceId |-> id,
                          outcome |-> adapterOutcome(id, tree, ctx),
                          artefactDigest |-> IF id = "artefact-digest" THEN ctx.digest ELSE None]
                            : id \in control.evidenceRequirements}
                        : control \in tree.contract.material.controls}]

(* verify.ts *)

\* Mutant: an adapter error counts as a finding of no consequence.
MutantIgnoresErrors(control, manifest) ==
    LET outcomes == {e.outcome : e \in {d \in manifest.entries : d.controlId = control.controlId}}
    IN  IF "fail" \in outcomes THEN "fail"
        ELSE IF "missing" \in outcomes THEN "missing"
        ELSE "pass"

\* The worst of the control's evidence, where every requirement must have an
\* entry.  collectEvidence stamps every entry with the manifest's own commit, so
\* the comparison of the two commits never fails and is left out.
evaluateControl(control, manifest) ==
    LET Entries(id) == {e \in manifest.entries :
                            e.controlId = control.controlId /\ e.evidenceId = id}
        outcomes == UNION {{e.outcome : e \in Entries(id)} : id \in control.evidenceRequirements}
        unmet == \E id \in control.evidenceRequirements : Entries(id) = {}
    IN  CASE "fail" \in outcomes -> "fail"
          [] "fail" \notin outcomes /\ "error" \in outcomes -> "error"
          [] {"fail", "error"} \cap outcomes = {} /\ (unmet \/ "missing" \in outcomes) -> "missing"
          [] outcomes \subseteq {"not-applicable"} /\ ~unmet -> "not-applicable"
          [] OTHER -> "pass"

BlockingControls(contract) ==
    {c \in contract.material.controls : c.severity = "blocking"}

blockingFailures(contract, manifest) ==
    {c \in BlockingControls(contract) :
        evaluateControl(c, manifest) \in {"fail", "missing", "error"}}

digestBound(manifest, deploymentArtefactDigest) ==
    /\ manifest.evidenceMode = "ci-authoritative"
    /\ deploymentArtefactDigest # None
    /\ \E e \in manifest.entries :
          e.evidenceId = "artefact-digest" /\ e.artefactDigest = deploymentArtefactDigest

verifyRelease(tree, manifest, deploymentArtefactDigest) ==
    LET outcome ==
            IF ~checkApproval(tree.contract, tree.approval, tree.proposition, tree.catalogue)
                  \/ blockingFailures(tree.contract, manifest) # {}
            THEN "blocked"
            ELSE IF digestBound(manifest, deploymentArtefactDigest) THEN "approved"
            ELSE "demonstration-only"
    IN  [releaseDecision |-> outcome,
         deployable |-> outcome = "approved",
         contractHash |-> tree.contract.contractHash,
         sourceCommit |-> manifest.sourceCommit]
==============================================================================
