SPECIFICATION Spec
CONSTANTS
    ada = ada
    ben = ben
    bot = bot
    north = north
    south = south
    i1 = i1
    i2 = i2
    s1 = s1
    s2 = s2
    Null = Null
    Unset = Unset
    NoRow = NoRow
    Unattributed = Unattributed
    Subs = {ada, ben, bot}
    Networks = {north, south}
    RuleIds = {i1, i2}
    Hazards = {"wind"}
    Texts = {}
    Slots = {s1, s2}
    Callers <- TwoOperators
    EngineOutcomes = {"decided", "raised"}
    Dev = TRUE
    CreateBodies <- SomeCreateBodies
    UpdateBodies <- SomeUpdateBodies
    LegacyRules <- OneLegacyRule
SYMMETRY Symmetry
INVARIANTS
    TypeOK
    AcknowledgedDeleteIsFinal
    AnswersShowOwnRules
PROPERTIES
    OwnerOnlyWrites
    WritesOnlyNamedFields
    RegistrySpec
    FiledUnderSoleNetwork
