SPECIFICATION FairSpec
CONSTANTS
    Absent = Absent
    Malformed = Malformed
    CMKeys = {1}
    NodeNames = {}
    Images = {"", "v1", "v2"}
    Envs = {"e1"}
    Selectors <- MCSelectors
    RestartEntries <- MCRestartEntries
    DefaultImage = ""
    Slots = {}
    Meta <- NoPods
    PodStates = {}
    ReplicaSets <- MCReplicaSets
    ProtectedNamespaces = {"kube-system"}
    Writes <- StripWrites
    Faults = {}
    NoAutoRestart = FALSE
    WebhookChecked = TRUE
PROPERTIES
    RegistryInSync
