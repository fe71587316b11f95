CONSTANTS
    Configs <- ConfigsVal
    Tools <- ToolsVal
    Calls <- CallsVal
    Versions <- VersionsVal
    MaxRounds = 2
    MaxSkips = 2
    Noises = {"notification", "request", "repeat"}
    ServerIds = {9}
    MaxNoise = 1
    Open <- OpenVal
    Close <- CloseVal
    Texts <- TextsVal
    Bodies <- BodiesVal
    Cut <- CutVal
    MaxEvents = 2
    Schemas <- SchemasVal
    Values <- ValuesVal
    MaxDepth = 4
SPECIFICATION MCSpec
CHECK_DEADLOCK FALSE
INVARIANT ShownHoweverCut
INVARIANT VerdictIsTheStandards
PROPERTY AgentGoesOn
