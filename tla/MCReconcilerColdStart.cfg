SPECIFICATION Spec
CONSTANTS
    Absent = Absent
    Malformed = Malformed
    CMKeys = {1, 2}
    NodeNames = {}
    Images = {"", "v1", "v2"}
    Envs = {"e1"}
    Selectors <- MCSelectors
    RestartEntries <- MCRestartEntries
    DefaultImage = ""
    Slots = {"web-1-a"}
    Meta <- OnePod
    PodStates <- OnlyInjected
    ReplicaSets <- MCReplicaSets
    ProtectedNamespaces = {"kube-system"}
    Writes <- StaticWrites
    Faults = {}
    NoAutoRestart = FALSE
    WebhookChecked = TRUE
PROPERTIES
    SweepsSpareSettled
