SPECIFICATION FairSpec
CONSTANTS
    ada = ada
    ben = ben
    north = north
    south = south
    i1 = i1
    i2 = i2
    i3 = i3
    h1 = h1
    h2 = h2
    Null = Null
    Unset = Unset
    NoRow = NoRow
    Unattributed = Unattributed
    PipelineNamespace = PipelineNamespace
    Subs = {ada, ben}
    Networks = {north, south}
    RuleIds = {i1, i2}
    Hazards = {"wind", "heat"}
    Texts <- AllTexts
    Handlers = {h1, h2}
    Events <- AllEvents
    AlertsEnabled = TRUE
    ClientsReady = TRUE
    HorizonDays = 3
    RunDay = 1
    Today = 2
    Exposures <- OneExposure
    RiskKmLimit = 2
    RuleVersions <- LegacyRules
    SettingsTexts = {Null}
    MaxEdits = 1
INVARIANTS
    TypeOK
    ReportsStayInTheirNetwork
PROPERTIES
    EveryRunEnds
    DeliverySpec
