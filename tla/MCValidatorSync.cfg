SPECIFICATION ValidatedSpec
CONSTANTS
    Absent = Absent
    Malformed = Malformed
    CMKeys = {1, 2}
    NodeNames = {"n1"}
    Images = {"", "v1", "v2"}
    Envs = {"e1"}
    Selectors <- MCSelectors
    RestartEntries <- MCRestartEntries
    DefaultImage = ""
    Slots = {}
    Meta <- NoPods
    PodStates = {}
    ReplicaSets <- MCReplicaSets
    ProtectedNamespaces = {"kube-system"}
    Writes <- SyncWrites
    Faults = {"crash", "getNode", "nodeList", "listCM"}
    NoAutoRestart = FALSE
    WebhookChecked = TRUE
    Users = {"beyla", "operator", "tenant"}
    AllowedWriters = {"beyla", ""}
    Masters = {"operator"}
    Intends <- MCIntends
INVARIANTS
    TypeOK
    RegistryCurrent
    SnapshotExact
    RegistryTrusted
PROPERTIES
    ImplementsCache
    RightUntilDisturbed
