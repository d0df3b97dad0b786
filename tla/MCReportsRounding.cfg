SPECIFICATION Spec
CONSTANTS
    Null = Null
    Unset = Unset
    NoRow = NoRow
    Unattributed = Unattributed
    Subs = {}
    Networks = {}
    RuleIds = {}
    Hazards = {"wind", "heat"}
    Texts = {}
    MaxWords = 0
    MaxRows = 4
    Words <- SomeWords
    Fields <- SomeFields
    Days <- TwoDays
    RowKinds <- SomeRows
    TopN = 2
INVARIANTS
    LinesAtThresholdAreListed
