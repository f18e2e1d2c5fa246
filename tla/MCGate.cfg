\* One edit of the repository as it is kept, and two commits; every command in any order.
SPECIFICATION RepositorySpec
CONSTANTS
    None = None
    Propositions <- MCPropositions
    Catalogues <- FourControls
    Sources <- MCSources
    LocalModes <- BothModes
    MaxEdits = 1
    MaxCommits = 2
INVARIANTS
    DeployedTreeWasSigned
    DeployedPassesItsContract
    StatusIsEarned
PROPERTIES
    MaterialChangeInvalidatesApproval
    DecisionsNeedASignature
CHECK_DEADLOCK FALSE
