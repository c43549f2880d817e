\* Two groups connect and invite the third, while one of them blocks and
\* unblocks, leaves or is asked again.
CONSTANTS
    north = north
    south = south
    east = east
    first = first
    second = second
    Groups <- ThreeGroups
    Proposals = {p1, p2}
    Connections = {c1}
    Handlers <- TwoHandlers
    Expiring = {}
    Proposers = {north}
    Blockers = {south}
    Deletable = {}
    Null = Null
SPECIFICATION Spec
SYMMETRY Symmetry
CHECK_DEADLOCK FALSE
INVARIANTS
    BlocksSever
PROPERTIES
    EntryByConsent
