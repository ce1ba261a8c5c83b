SPECIFICATION FairSystemSpec
CONSTANTS
    Absent = Absent
    Malformed = Malformed
    CMKeys = {1, 2}
    NodeNames = {}
    Images = {"", "v1", "v2"}
    Envs = {"e1"}
    Selectors <- MCSelectors
    RestartEntries <- MCRestartEntries
    DefaultImage = ""
    Slots = {"web-1-a"}
    Meta <- OnePod
    PodStates <- SystemPodStates
    ReplicaSets <- MCReplicaSets
    ProtectedNamespaces = {"kube-system"}
    Writes <- SettleWrites
    Faults = {"crash", "patch", "timeout"}
    NoAutoRestart = FALSE
    WebhookChecked = TRUE
PROPERTIES
    PodsSettle
    SweepsAreExact
    SettledUntilDisturbed
