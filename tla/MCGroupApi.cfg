SPECIFICATION FairSpec
CONSTANTS
    c1 = c1
    c2 = c2
    c3 = c3
    p1 = p1
    p2 = p2
    x1 = x1
    Clients = {c1, c2, c3}
    Creator = c1
    Founders = {c1, c2}
    Faulty = {c2}
    Psks = {p1, p2}
    Components = {x1}
    Scenarios = {
        {"NewGroup", "NewKeyPackage", "AddMembers", "Private"},
        {"Update", "Drop", "SelfUpdate"},
        {"Update", "SelfUpdate", "Private"},
        {"Update", "Observe"},
        {"SelfRemove", "Remove", "ExternalCommit"},
        {"NewKeyPackage", "SwapMembers"},
        {"NewKeyPackage", "Add"},
        {"NewKeyPackage", "RemoveMembers", "AddMembers", "Private"},
        {"Psk", "CommitWithPsk"},
        {"Gce", "UpdateExtensions", "Private"},
        {"Configure", "SelfUpdate", "Export"}}
    ReplaceOldGroup = FALSE
    JoinerPsks = 1
    MaxProposals = 1
    MaxCommits = 3
    MaxCrashes = 1
CHECK_DEADLOCK FALSE
INVARIANT LoadRestores
INVARIANT KeysFollowEpoch
PROPERTY EventuallyCurrent
