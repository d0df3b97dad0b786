SPECIFICATION FairSpec
CONSTANTS
    k1 = k1
    u1 = u1
    north = north
    i1 = i1
    i2 = i2
    Kept = {k1}
    Units = {u1}
    Hazards = {"wind", "heat"}
    Networks = {north}
    Unattributed = Unattributed
    Null = Null
    JsonNull = JsonNull
    Failed = Failed
    RuleIds = {i1, i2}
    Configs <- SomeConfigs
INVARIANTS
    TypeOK
    SchemaMatchesModel
    FlagMarksUnattributed
    ListensOrLetsGo
PROPERTIES
    MigrationsKeepRules
    InsecureTouchesNothing
    OnlyBrokerCallsHoldAStart
