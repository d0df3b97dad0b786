SPECIFICATION Spec
CONSTANTS
    ada = ada
    ben = ben
    bot = bot
    north = north
    s1 = s1
    s2 = s2
    s3 = s3
    k1 = k1
    k2 = k2
    mail = mail
    Null = Null
    Unset = Unset
    NoRow = NoRow
    Unattributed = Unattributed
    Subs = {ada, ben, bot}
    Networks = {north}
    RuleIds = {}
    Hazards = {"wind"}
    Texts = {mail}
    Callers <- SomeCallers
    EngineOutcomes = {"decided"}
    Dev = FALSE
    Slots = {s1, s2}
    Keys = {k1, k2}
    Bodies <- SomeBodies
SYMMETRY Symmetry
INVARIANTS
    OneRowPerUser
    AnswersShowOwnSettings
PROPERTIES
    WritesMerge
