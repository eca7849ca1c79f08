CONSTANTS
    A = A  B = B  C = C  I = I
    m1 = m1  m2 = m2  here = here
    Nodes = {A, B, C, I}
    PyNodes = {I}
    Leader = A
    Children <- SmallTree
    Machines = {m1, m2}
    Local = m1
    Loopback = here
    Ports = {1, 2, 3, 4}
    Configs <- SmallConfigs
    Order <- LeavesFirst
    MaxStarts = 2
SPECIFICATION Spec
INVARIANTS TypeOK StubsReachChildren 
