CONSTANTS
    Handlers = {h1, h2}
    LockoutThreshold = 2
    FactorThreshold = 2
    BackupCodes = 2
    MaxFailed = 3
    MaxSecrets = 2
    MaxSetups = 1
SPECIFICATION Spec
INVARIANTS
    TriesAreBounded
    SpentCodesStaySpent
    SecretIsConfirmed
SYMMETRY Symmetry
