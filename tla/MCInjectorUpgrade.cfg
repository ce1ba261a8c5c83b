SPECIFICATION FairSystemSpec
CONSTANTS
    Absent = Absent
    Malformed = Malformed
    CMKeys = {1}
    NodeNames = {}
    Images = {"", "v1", "v2"}
    Envs = {"e1"}
    Selectors <- MCSelectors
    RestartEntries <- MCRestartEntries
    DefaultImage = ""
    Slots = {"web-1-a"}
    Meta <- OnePod
    PodStates <- SystemPodStates
    ReplicaSets <- MCReplicaSets
    ProtectedNamespaces = {"kube-system"}
    Writes <- UpgradeWrites
    Faults = {"crash", "timeout", "patch", "rs", "listPods", "listCM"}
    NoAutoRestart = FALSE
    WebhookChecked = TRUE
INVARIANTS
    SystemTypeOK
    GaugeAgrees
    CleanupRemembered
PROPERTIES
    RegistryConverges
    RolloutsCease
    CleanupsFinish
