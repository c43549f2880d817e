\* The founder and a superuser of a school group, one link of one use and one
\* invitation, two requests at a time: joins of every kind, vouches, leaves,
\* bans, returns and graduation.
CONSTANTS
    founder = founder
    ann = ann
    Users <- TwoUsers
    Creator = founder
    Superusers = {ann}
    Links = {l1}
    MaxUses = 1
    Invitations = {i1}
    FoundingThreshold = 2
    TrustThreshold = 2
    OfSchool = TRUE
    MaxVouches = 2
    MaxRequests = 2
SPECIFICATION Spec
CHECK_DEADLOCK FALSE
INVARIANTS
    TypeOK
    GraduationIsOwed
    AdminIsFounder
    TrustOutOfReach
    BannedStayOut
PROPERTIES
    ImplementsRules
    OnlyBanOrDeletionUnseats
