SPECIFICATION FairSpec
CONSTANTS
    r1 = r1
    r2 = r2
    Replicas <- TwoReplicas
    Nobody = Nobody
    Contents = {"a", "b"}
    NoRules = NoRules
    Setups <- MCSetups
INVARIANTS
    TypeOK
    StartsInOrder
PROPERTIES
    ReplicasServe
    SweepsMayRun
    WritesLand
    ViewsConverge
