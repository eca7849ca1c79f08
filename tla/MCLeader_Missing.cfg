CONSTANTS
    s1 = s1  s2 = s2
    a = a  b = b
    B = B  H = H
    Sessions = {s1, s2}
    Clients = {a, b}
    ClientOf <- OwnId
    MaxTickets = 5
    Requested <- ChunksPaged
    Children = {B, H}
    Contents = {"shard", "sample"}
    Loaded <- AllShards
    Reloads = {"shard", "sample"}
    SizeOf <- PayloadBytes
    CacheTTL = 0
    MaxCrashes = 1
SPECIFICATION Spec
INVARIANTS LaterPagesMissNothing
CHECK_DEADLOCK FALSE
