SPECIFICATION Spec
CONSTANTS
    Fields <- MCFields
    Covers <- MCCovers
    Commas = {"comma"}
    TrapActions = {"ECHO", "KILL", "KLINE"}
    Names <- MCNames
    Starts <- MCStarts
    AutoActions = {"CLONE_ACTION"}
    Valid <- MCValid
    Defaults <- MCDefaults
    Klines = {"KLINE"}
    Dlines = {"DLINE_IP"}
    Slots = {1, 2}
    Handles = {"toast", "jam"}
    Watches = {"CHAT", "LINKS", "TRACES"}
    DefaultWatches = {"CHAT", "LINKS"}
    Words <- MCWords
    Commands <- MCCommands
    ExactOnly = {"DIE"}
    Needs <- MCNeeds
    Worlds <- FourWorlds
INVARIANTS
    LoadAgrees
    Entitled
PROPERTIES
    Remembered
    ChangesSurviveRestart
CHECK_DEADLOCK FALSE
