SPECIFICATION Spec
CONSTANTS
    Ids = {i1, i2, i3, i4}
    s1 = s1
    Sites = {s1}
    Names <- MCNames
    Name <- MCName
    Boundary <- MCBoundary
    Users = {ann}
    Superusers = {ann}
    Handlers = {h1, h2}
    ByHand = {"county", "locality"}
    Full = {ann}
    MaxOdd = 1
    Manual = {h2}
    Renames = {"c"}
    MaxCards = 1
    None = None
SYMMETRY Interchangeable
INVARIANT LevelsDescend
INVARIANT NoTwins
INVARIANT PeopleOfRegions
CHECK_DEADLOCK FALSE
