SPECIFICATION Spec
CONSTANTS
    maxDiffLayers = 2
    StateHistory = 2
    Values = {0, 1}
    LoseJournaled = FALSE
    MaxUpdates = 4
    MaxCrashes = 1
    MaxSyncs = 1

INVARIANTS
    ReadsSound
    HistoriesSound
    RecoverableSound
    KeepsRecoverable

CHECK_DEADLOCK FALSE
