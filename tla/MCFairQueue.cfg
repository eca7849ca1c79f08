CONSTANTS
    h1 = h1  h2 = h2  h3 = h3
    a = a  b = b
    Handlers = {h1, h2, h3}
    Clients = {a, b}
    ClientOf <- SharedId
    MaxTickets = 6
SPECIFICATION FairSpec
INVARIANTS TypeOK OneTurn NoLostWakeup NoOvertaking NoGhostTicket
 
CHECK_DEADLOCK FALSE
