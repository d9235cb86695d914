SPECIFICATION AgentSpec
CONSTANTS
    Nodes = {1, 2}
    Ids = {1}
    Names = {"boot", "web"}
    Values = {"a", "b"}
    Allowed = {}
    Revisions = {"good", "reduced", "missing"}
    Manifests <- MCManifests
    Clusters = {1, 2}
    Paths <- MCPaths
    Repository <- MCRepository
    Absent = Absent
    Garbled = Garbled
    Reachable <- MCReachable
    NoSecret <- MCNoSecret
    Troubles = {"fetch", "reset", "down", "action", "delay"}
    MaxTroubles = 1
    MaxCommits = 1
INVARIANTS
    AgentTypeOK
    ReadyMeansAll
    ExitMeansAll
    CycleIsRecorded
PROPERTY
    Isolation
CHECK_DEADLOCK FALSE
