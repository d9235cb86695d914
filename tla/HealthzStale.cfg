SPECIFICATION AgentSpec
CONSTANTS
    Nodes = {1, 2}
    Ids = {1}
    Names = {"boot", "web"}
    Values = {"a", "b"}
    Allowed = {}
    Revisions = {"good"}
    Manifests <- MCManifests
    Clusters = {1, 2}
    Paths <- MCPaths
    Repository <- MCRepository
    Absent = Absent
    Garbled = Garbled
    Reachable <- MCReachable
    NoSecret <- MCNoSecret
    Troubles = {"delay"}
    MaxTroubles = 1
    MaxCommits = 0
INVARIANT
    HealthyAfterPass
CHECK_DEADLOCK FALSE
