SPECIFICATION FairSpec
CONSTANTS
    Nodes = {1}
    Ids = {1, 2, 3, 4, 5}
    Names = {"image", "base", "db", "web", "dns"}
    Values = {"a", "b"}
    Allowed = {1}
    Revisions = {"spare", "template", "none"}
    Manifests <- MCManifests
    Budget = 2
    Deployments <- OnlyCrowd
    Strangers = {}
    Disturbances = {}
    Faults = {"fetch", "status", "request", "task", "timeout"}
    MaxEdits = 0
    MaxFaults = 1
    MaxPushes = 1
INVARIANTS
    PruneBudget
    KeepsDesired
PROPERTIES
    EmptyDesiredGuard
    Convergence
