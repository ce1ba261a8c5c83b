SPECIFICATION Spec
CONSTANTS
    Absent = Absent
    Malformed = Malformed
    CMKeys = {1, 2}
    NodeNames = {}
    Images = {"", "v1", "v2"}
    Envs = {"e1"}
    Selectors <- NameSelectors
    RestartEntries <- MCRestartEntries
    DefaultImage = ""
    Slots = {"web-1-a", "db-0"}
    Meta <- TwoPods
    PodStates <- PlainOrInjected
    ReplicaSets <- MCReplicaSets
    ProtectedNamespaces = {"kube-system"}
    Writes <- SweepWrites
    Faults = {"crash", "rs", "patch", "listPods"}
    NoAutoRestart = FALSE
    WebhookChecked = FALSE
INVARIANTS
    GaugeAgrees
PROPERTIES
    CleanupProtects
    SweepsAreUseful
