\* One proposal to three groups, answered by several of their admins at a
\* time; the connections it forms are left, blocked in and swept, and a group
\* is deleted.
CONSTANTS
    north = north
    south = south
    east = east
    first = first
    second = second
    Groups <- ThreeGroups
    Proposals = {p1}
    Connections = {c1, c2}
    Handlers <- TwoHandlers
    Expiring = {p1}
    Proposers = {north}
    Blockers = {south}
    Deletable = {east}
    Null = Null
SPECIFICATION Spec
SYMMETRY Symmetry
CHECK_DEADLOCK FALSE
INVARIANTS
    TypeOK
PROPERTIES
    LiveWhileTwo
