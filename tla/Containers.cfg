SPECIFICATION FairSpec
CONSTANTS
    Nodes = {1}
    Ids = {1, 2}
    Names = {"rootfs", "dns", "base"}
    Values = {"a", "b"}
    Allowed = {1}
    Revisions = {"ct", "dns", "dnsvm"}
    Manifests <- MCManifests
    Budget = 1
    Deployments <- EmptyOrContainers
    Strangers = {}
    Disturbances = {}
    Faults = {"fetch", "list", "config", "status", "content", "request",
              "lost", "task", "timeout", "crash"}
    MaxEdits = 0
    MaxFaults = 2
    MaxPushes = 2
INVARIANTS
    ReportSound
PROPERTIES
    Convergence
