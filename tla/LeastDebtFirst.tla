--------------------------- MODULE LeastDebtFirst ---------------------------
(***************************************************************************)
(* What FairQueue promises, with no mutex and no condition variable: a     *)
(* handler queues with a ticket, and whenever the turn is free it goes to  *)
(* the waiter with the least ticket (fewest turns first, then first come). *)
(* A handler that arrives at a free turn may be given it on the spot, if   *)
(* nobody who waits has a better ticket.                                   *)
(***************************************************************************)
EXTENDS Naturals

CONSTANTS Handlers, Clients, ClientOf, Nobody

VARIABLES
    queue,    \* the ticket of each waiting handler, or NoTicket
    holder,   \* the handler that has the turn, or Nobody
    turns,    \* turns completed per client
    issued    \* tickets issued

vars == <<queue, holder, turns, issued>>

NoTicket == [debt |-> 0, seq |-> 0]

Better(t, u) == t.debt < u.debt \/ (t.debt = u.debt /\ t.seq < u.seq)

Waits(h) == queue[h] # NoTicket

NextTicket(h) == [debt |-> turns[ClientOf[h]], seq |-> issued + 1]

First(h, t) == \A g \in Handlers \ {h} : Waits(g) => Better(t, queue[g])

Init ==
    /\ queue = [h \in Handlers |-> NoTicket]
    /\ holder = Nobody
    /\ turns = [c \in Clients |-> 0]
    /\ issued = 0

Arrive(h) ==
    /\ ~Waits(h) /\ holder # h
    /\ holder # Nobody \/ ~First(h, NextTicket(h))
    /\ queue' = [queue EXCEPT ![h] = NextTicket(h)]
    /\ issued' = issued + 1
    /\ UNCHANGED <<holder, turns>>

ArriveAndServe(h) ==
    /\ ~Waits(h) /\ holder = Nobody
    /\ First(h, NextTicket(h))
    /\ holder' = h
    /\ issued' = issued + 1
    /\ UNCHANGED <<queue, turns>>

Serve(h) ==
    /\ Waits(h) /\ holder = Nobody
    /\ First(h, queue[h])
    /\ holder' = h
    /\ queue' = [queue EXCEPT ![h] = NoTicket]
    /\ UNCHANGED <<turns, issued>>

Finish(h) ==
    /\ holder = h
    /\ holder' = Nobody
    /\ turns' = [turns EXCEPT ![ClientOf[h]] = @ + 1]
    /\ UNCHANGED <<queue, issued>>

Next == \E h \in Handlers :
            Arrive(h) \/ ArriveAndServe(h) \/ Serve(h) \/ Finish(h)

Spec == Init /\ [][Next]_vars
=============================================================================
