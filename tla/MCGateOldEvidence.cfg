\* Evidence kept across a commit.
SPECIFICATION Spec
CONSTANTS
    None = None
    Propositions <- MCPropositions
    Catalogues <- MCCatalogues
    Sources <- TwoSources
    LocalModes <- BothModes
    MaxEdits = 1
    MaxCommits = 2
PROPERTIES
    EvidenceIsOfTheCommitAssessed
CHECK_DEADLOCK FALSE
