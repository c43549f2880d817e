\* One card whose code another user tries as often as should lock it.
CONSTANTS
    ann = ann
    bob = bob
    first = first
    second = second
    Users <- AnnAndBob
    Regions = {r1}
    Cards = {c1}
    Handlers <- TwoHandlers
    Vouchees = {ann}
    Superusers = {bob}
    Former = {}
    MaxRecent = 1
    Threshold = 2
    MaxTried = 2
    Nobody = Nobody
SPECIFICATION Spec
SYMMETRY Symmetry
CHECK_DEADLOCK FALSE
PROPERTIES
    LockedAfterFailures
