\* Two users, one of them vouched for by superusers, two requests at a time and
\* a quota of one card: overlapping requests, lost answers of the provider,
\* crashes, grants and revocations between the steps of a redemption.
CONSTANTS
    ann = ann
    bob = bob
    first = first
    second = second
    Users <- AnnAndBob
    Regions = {r1, r2}
    Cards = {c1, c2}
    Handlers <- TwoHandlers
    Vouchees = {ann}
    Superusers = {bob}
    Former = {ann}
    MaxRecent = 1
    Threshold = 1
    MaxTried = 1
    Nobody = Nobody
SPECIFICATION Spec
SYMMETRY Symmetry
CHECK_DEADLOCK FALSE
INVARIANTS
    TypeOK
    Quota
    AdminNeedsPostcard
    FullUsersAdminister
PROPERTIES
    MembershipIsEarned
