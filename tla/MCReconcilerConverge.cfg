SPECIFICATION FairSpec
CONSTANTS
    Absent = Absent
    Malformed = Malformed
    CMKeys = {1, 2}
    NodeNames = {"n1"}
    Images = {"", "v1", "v2"}
    Envs = {"e1"}
    Selectors <- MCSelectors
    RestartEntries <- MCRestartEntries
    DefaultImage = ""
    Slots = {}
    Meta <- NoPods
    PodStates = {}
    ReplicaSets <- MCReplicaSets
    ProtectedNamespaces = {"kube-system"}
    Writes <- ConvergeWrites
    Faults = {"crash", "getCM", "getNode", "nodeList"}
    NoAutoRestart = TRUE
    WebhookChecked = TRUE
PROPERTIES
    RegistryConverges
    RegistryRecovers
    PanicsAreRetried
