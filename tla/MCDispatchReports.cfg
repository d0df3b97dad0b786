SPECIFICATION SceneSpec
CONSTANTS
    ada = ada
    ben = ben
    north = north
    south = south
    i1 = i1
    i2 = i2
    i3 = i3
    h1 = h1
    h2 = h2
    Null = Null
    Unset = Unset
    NoRow = NoRow
    Unattributed = Unattributed
    PipelineNamespace = PipelineNamespace
    Subs = {ada, ben}
    Networks = {north, south}
    RuleIds = {i1, i2, i3}
    Hazards = {"wind", "heat"}
    Texts <- AllTexts
    Handlers = {h1}
    Events <- ThePipelineRun
    AlertsEnabled = TRUE
    ClientsReady = TRUE
    HorizonDays = 0
    RunDay = 1
    Today = 2
    Exposures <- TwoExposures
    RiskKmLimit = 2
    RuleVersions <- AnyRules
    SettingsTexts <- SomeSettings
    MaxEdits = 2
INVARIANTS
    OneReportPerInbox
    TriggeredRulesAreCovered
    ReportsNameOnlyWhatTriggered
    ReportedRulesWereActive
    NoNetworkForgotten
    RecipientsAreTheOperators
