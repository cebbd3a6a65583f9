SPECIFICATION FairSpec
CONSTANTS
    None = None
    Node = {"n1", "n2", "n3"}
    Control = "n1"
    Specs <- Specs8
    First <- First2
    MaxGen = 3
    MaxFault = 1
    Users = {"edit hastily", "delete", "delete request"}
INVARIANTS SettledIsDeployed GoingIsTracked GoneIsUninstalled
PROPERTIES WantedStays Applied DeletionEnds
CHECK_DEADLOCK FALSE
