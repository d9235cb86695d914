SPECIFICATION Spec
CONSTANTS
    Nodes = {1, 2}
    Ids = {1, 2}
    Names = {"image", "db", "web"}
    Values = {"a", "b"}
    Allowed = {1}
    Revisions = {"db", "away", "spread", "none"}
    Manifests <- MCManifests
    Budget = 1
    Deployments <- OnlyNeighbours
    Strangers = {}
    Disturbances = {"power", "edit"}
    Faults = {"lost", "task", "timeout", "crash"}
    MaxEdits = 1
    MaxFaults = 1
    MaxPushes = 2
INVARIANTS
    ClusterBoundary
PROPERTIES
    DestroysOnlyTagged
    HandsOff
    KeepsThePromise
