SPECIFICATION Spec
CONSTANTS
    Nodes = {1}
    Ids = {1, 2}
    Names = {"image", "base", "web"}
    Values = {"a", "b"}
    Allowed = {1}
    Revisions = {"clone"}
    Manifests <- MCManifests
    Budget = 1
    Deployments <- OnlyEmpty
    Strangers = {}
    Disturbances = {}
    Faults = {"task"}
    MaxEdits = 0
    MaxFaults = 1
    MaxPushes = 0
INVARIANTS
    PrerequisitesReady
