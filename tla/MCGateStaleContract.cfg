\* The proposition is edited between contract and approval.
SPECIFICATION Spec
CONSTANTS
    None = None
    Propositions <- MCPropositions
    Catalogues <- MCCatalogues
    Sources <- TwoSources
    LocalModes = {}
    MaxEdits = 1
    MaxCommits = 2
INVARIANTS
    DeployedContractIsCurrent
CHECK_DEADLOCK FALSE
