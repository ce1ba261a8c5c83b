SPECIFICATION Spec
CONSTANTS
    Authored <- MCAuthored
    RuleEnvs <- MCRuleEnvs
    Configs <- MCConfigs
    Servers <- MCServers
    MaxAdmissions = 2
    MaxEnv = 3
INVARIANTS
    AttributesResolve
    PayloadMatchesStamp
    PayloadMountable
PROPERTIES
    ReferencesKept
    EnvMerges
    AddedVarsResolve
    WritesIdempotent
