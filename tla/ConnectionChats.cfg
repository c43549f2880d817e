\* Three groups and two chat proposals with a limit of one chat, two requests
\* at a time: votes overlap with one another, with departures, with rotations of the
\* keys, which all three admins hold, with the deletion of a group that votes and of
\* the account of the proposer.
CONSTANTS
    north = north
    south = south
    east = east
    Groups <- ThreeGroups
    Founders <- ThreeGroups
    Proposals = {p1, p2}
    Chats = {c1, c2}
    Handlers = {h1, h2}
    ChatLimit = 1
    Proposers = {north}
    Leavers = {east}
    Deletable = {south}
    Joiners = {east}
    Departing = {north}
    Rotators = {north}
    Audiences <- Reachable
    None = None
SPECIFICATION Spec
SYMMETRY Symmetry
CHECK_DEADLOCK FALSE
INVARIANTS
    ChatsAreAgreed
    VotesDecide
    LimitHolds
    HoldersBelong
