CONSTANTS
    A = A  B = B  C = C  H = H  I = I
    Nodes = {A, B, C, H, I}
    Root = A
    Python = {I}
    Children <- DeepTree
    Whole <- Preorder
    PoolSize = 1
    MaxAttempts = 2
    MaxFaults = 2
SPECIFICATION FairSpec
INVARIANTS TypeOK  CompleteReply
PROPERTIES GathersAllOrNothing HandlersEnd
CHECK_DEADLOCK FALSE
