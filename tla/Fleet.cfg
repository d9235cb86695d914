SPECIFICATION FairSpec
CONSTANTS
    Nodes = {1}
    Ids = {1, 2}
    Names = {"image", "base", "web"}
    Values = {"a", "b"}
    Allowed = {1}
    Revisions = {"clone", "parked", "template", "orphaned"}
    Manifests <- MCManifests
    Budget = 1
    Deployments <- EmptyOrCloned
    Strangers = {}
    Disturbances = {"edit", "delete", "untag"}
    Faults = {"fetch", "list", "config", "status", "content", "request",
              "lost", "task", "timeout", "crash"}
    MaxEdits = 1
    MaxFaults = 2
    MaxPushes = 2
INVARIANTS
    TypeOK
    DependencyOrder
    ReportSound
    ColdWritesWhenStopped
PROPERTIES
    Convergence
    KeepsThePromise
