\* An admin who leaves and comes back and a superuser, two rows, a limit of one
\* chat, two requests at a time: one reads, the other edits, either makes a chat.
CONSTANTS
    ada = ada
    root = root
    Users <- TwoUsers
    Superusers = {root}
    Joiners = {ada}
    Founders = {ada}
    Tiers <- TwoTiers
    Kinds = {"chat", "channel"}
    MaxItems = 2
    Limit = 1
    Handlers = {h1, h2}
    Readers = {h1}
    Editors = {h2}
    Viewers = {ada}
SPECIFICATION PagesSpec
CHECK_DEADLOCK FALSE
INVARIANT LimitHolds
PROPERTIES
    PageWasAllowed
    SecretToMembers
