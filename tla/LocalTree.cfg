SPECIFICATION AgentSpec
CONSTANTS
    Nodes = {1, 2}
    Ids = {1}
    Names = {"boot", "web"}
    Values = {"a", "b"}
    Allowed = {}
    Revisions = {"good", "reduced"}
    Manifests <- MCManifests
    Clusters = {1, 2}
    Paths <- MCPaths
    Repository <- MCRepository
    Absent = Absent
    Garbled = Garbled
    Reachable <- MCReachable
    NoSecret <- MCNoSecret
    Troubles = {}
    MaxTroubles = 0
    MaxCommits = 2
PROPERTY
    LocalTreeIsKept
CHECK_DEADLOCK FALSE
