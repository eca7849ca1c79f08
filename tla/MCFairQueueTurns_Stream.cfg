CONSTANTS
    h1 = h1  h2 = h2  h3 = h3
    a = a  b = b  c = c
    Nobody = Nobody
    Handlers = {h1, h2, h3}
    Clients = {a, b, c}
    ClientOf <- OwnId
    MaxTickets = 9
SPECIFICATION HSpec
INVARIANTS NoStreamFirst
CHECK_DEADLOCK FALSE
