\* A rotation that ada and bob hear of, and verifications of ada in two regions
\* of one name; two servers, batches of two rows and one fault.
CONSTANTS
    ada = ada
    bob = bob
    rotated = rotated
    north = north
    south = south
    Addressees <- TwoUsers
    Rotations = {rotated}
    Regions = {north, south}
    Name <- Namesakes
    Sharers <- Shared
    MaxRows = 3
    MaxRequests = 2
    BatchSize = 2
    Workers = {w1, w2}
    MaxFaults = 1
    Blocked = {bob}
    Verified = {ada}
    None = None
SPECIFICATION QueueSpec
CHECK_DEADLOCK FALSE
INVARIANTS
    MailsApart
    SentMeansTold
PROPERTY QueueDrains
