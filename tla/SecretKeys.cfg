\* Two users with two key pairs each, who join, leave, are banned, delete their
\* accounts and upload a key pair twice, one of whom resets the password, and
\* two DEK rotations.
CONSTANTS
    a = a
    b = b
    Users <- TwoUsers
    MaxKey = 2
    MaxDek = 3
    Resetting = {b}
    Departing = {a, b}
    Replacing = {a, b}
    FlagMayFail = TRUE
SPECIFICATION FairSpec
CHECK_DEADLOCK FALSE
INVARIANTS
    HoldersAreSurvivors
    RotationOwed
    UnflaggedHolderCanDecrypt
PROPERTIES
    RekeyAnswered
