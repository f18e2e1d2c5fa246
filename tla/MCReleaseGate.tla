---------------------------- MODULE MCReleaseGate ----------------------------
(***************************************************************************)
(* Small instances of ReleaseGate, cut from specs/governance: seven        *)
(* controls of controls.yaml in two versions of the catalogue, two         *)
(* versions of the proposition, and three versions of the source.          *)
(***************************************************************************)
EXTENDS ReleaseGate, TLC

Blocking(id, p, evidence) ==
    [id |-> id, severity |-> "blocking", appliesWhen |-> {p}, evidenceRequirements |-> {evidence}]

Uses(integration) == [field |-> "externalIntegrations", op |-> "contains", value |-> integration]
Runs(surface) == [field |-> "deploymentSurface", op |-> "contains", value |-> surface]
UsesLLM == [field |-> "usesLLM", op |-> "isTrue"]
PersonalData == [field |-> "handlesPersonalData", op |-> "isTrue"]

Redaction == Blocking("SEC-RED-001", UsesLLM, "redaction-test")
Tools == Blocking("SEC-MCP-001", Uses("mcp"), "mcp-allowlist")
Reasoning == Blocking("SEC-REASON-001", UsesLLM, "no-chain-of-thought")
Digest == Blocking("REL-IMM-001", Runs("azure-container-apps"), "artefact-digest")
Approved == Blocking("REL-CON-001", UsesLLM, "approved-contract")
Minimised == Blocking("DATA-MIN-001", PersonalData, "data-minimisation")
Tracing == [Blocking("OPS-TRACE-001", UsesLLM, "correlation-id") EXCEPT !.severity = "advisory"]

\* The second version of the policy makes tracing blocking.
MCCatalogues ==
    {{Redaction, Tools, Digest, Approved, Minimised, Tracing},
     {Redaction, Tools, Digest, Approved, Minimised, [Tracing EXCEPT !.severity = "blocking"]}}

\* Four controls that edits and the workflow's own steps can make or break.
FourControls ==
    {{Tools, Digest, Reasoning, Tracing},
     {Tools, Digest, Reasoning, [Tracing EXCEPT !.severity = "blocking"]}}

Characteristics(integrations) ==
    [usesLLM |-> TRUE, handlesPersonalData |-> TRUE,
     externalIntegrations |-> integrations, deploymentSurface |-> {"azure-container-apps"}]

\* The second version of the proposition reaches its tools over MCP.
MCPropositions ==
    {[characteristics |-> Characteristics({"currency"}), approvedTools |-> {"routestack"}],
     [characteristics |-> Characteristics({"currency", "mcp"}), approvedTools |-> {"routestack"}]}

\* Two checks read the telemetry file.
Source(tools, redaction, telemetry) ==
    [tools |-> tools,
     checks |-> ("redaction-test" :> redaction @@ "correlation-id" :> telemetry
                    @@ "no-chain-of-thought" :> telemetry)]

\* Sound; with an unreadable telemetry file.
TwoSources == {Source({"routestack"}, "pass", "pass"), Source({"routestack"}, "pass", "error")}

\* ... or with a tool nobody approved, or a driver file that cannot be read.
MCSources == TwoSources \cup {Source({"routestack", "unregistered-booking-provider"}, "pass", "pass"),
                              Source(None, "pass", "pass")}

BothModes == {"ci-authoritative", "local-demonstration"}

\* The repository as it is kept: no MCP tools, tracing advisory, a sound source.
FromTheRepository ==
    /\ Init
    /\ tree.proposition = CHOOSE p \in Propositions : "mcp" \notin p.characteristics.externalIntegrations
    /\ tree.catalogue = CHOOSE c \in Catalogues : Tracing \in c
    /\ tree.source = Source({"routestack"}, "pass", "pass")

RepositorySpec == FromTheRepository /\ [][Next]_vars
==============================================================================
