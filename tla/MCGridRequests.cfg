SPECIFICATION Spec
CONSTANTS
    ada = ada
    north = north
    south = south
    Null = Null
    Unset = Unset
    NoRow = NoRow
    Unattributed = Unattributed
    Undecodable = Undecodable
    Blank = Blank
    Malformed = Malformed
    NaN = NaN
    Subs = {ada}
    Networks = {north, south}
    RuleIds = {}
    Hazards = {"wind"}
    Texts = {}
    Callers <- AllCallers
    EngineOutcomes = {"decided", "raised", "missing"}
    Dev = FALSE
    Requests <- SomeRequests
    TwinOutcomes <- SomeOutcomes
    TwinConfigured = {TRUE, FALSE}
INVARIANTS
    ReasonsNeverConflict
    MembersReadExactlyTheirNetworks
    WriteGateAgreesWithFiling
    TwinAskedOnlyForReaders
    GateAndExtractionAgree
    OwnNetworkIsReadable
    OneBadRowCostsOnlyItself
    LocaleFollowsPreference
