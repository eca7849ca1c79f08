----------------------------- MODULE FairQueue -----------------------------
(***************************************************************************)
(* The turn queue of the leader: class FairQueue of                        *)
(* src/leader/leader_node.cpp.                                             *)
(*                                                                         *)
(* gRPC runs every QueryOnce call in a handler thread.  A handler calls    *)
(* acquire(client_id) before it touches the cache or the children and      *)
(* release(client_id) when it is finished, so one handler at a time has    *)
(* the turn.  A free turn goes to the waiter with the least ticket: first  *)
(* the client that has had the fewest turns (debt_), then the one that     *)
(* came first (seq_).                                                      *)
(*                                                                         *)
(* The map waiting_ is keyed by client id, not by handler: a second        *)
(* handler of the same client overwrites the ticket of the first, and the  *)
(* first of them to enter erases the entry of both.                        *)
(*                                                                         *)
(* One action is one critical section of mu_.  A thread inside cv_.wait is *)
(* "asleep" until notify_all (or a spurious wakeup) makes it "awake"; it   *)
(* then takes mu_ again and evaluates the predicate.                       *)
(***************************************************************************)
EXTENDS Naturals

CONSTANTS
    Handlers,    \* handler threads, each with at most one call at a time
    Clients,     \* values of Query.client_id
    ClientOf,    \* the client id a handler was called with
    MaxTickets   \* bound of the model: tickets ever issued

ASSUME QueueAssumption ==
    /\ ClientOf \in [Handlers -> Clients]
    /\ MaxTickets \in Nat

VARIABLES
    active,    \* active_: somebody has the turn
    seq,       \* seq_: tickets issued so far
    waiting,   \* waiting_: the ticket entered for a client, or NoTicket
    debt,      \* debt_: turns a client has completed (absent is 0)
    me,        \* the local variable "me" of acquire(), per handler
    pc         \* where a handler is

vars == <<active, seq, waiting, debt, me, pc>>

Ticket   == [debt : Nat, seq : Nat]
NoTicket == [debt |-> 0, seq |-> 0]     \* seq_ is incremented before use

(* Faulty: the debt is ignored.                                            *)
BeforeBySeq(t, u) == t.seq < u.seq

(* Ticket::operator<                                                       *)
Before(t, u) == \/ t.debt < u.debt
                \/ t.debt = u.debt /\ t.seq < u.seq

Places == {"out", "asleep", "awake", "turn", "notify"}

InWait(h) == pc[h] \in {"asleep", "awake"}

(* Faulty: active_ is not looked at; the other tickets are not looked at.  *)
MayEnterActive(h, t) ==
    \A c \in Clients \ {ClientOf[h]} :
        waiting[c] # NoTicket => ~Before(waiting[c], t)

MayEnterBarging(h, t) == ~active

(* The predicate of cv_.wait, for a handler h whose ticket is t.  It looks *)
(* at the entries of the other clients only.                               *)
MayEnter(h, t) ==
    /\ ~active
    /\ \A c \in Clients \ {ClientOf[h]} :
          waiting[c] # NoTicket => ~Before(waiting[c], t)

(* Tickets, turns and places of the queue.                                 *)
TypeOK ==
    /\ active \in BOOLEAN
    /\ seq \in Nat
    /\ waiting \in [Clients -> Ticket]
    /\ debt \in [Clients -> Nat]
    /\ me \in [Handlers -> Ticket]
    /\ pc \in [Handlers -> Places]

Init ==
    /\ active = FALSE
    /\ seq = 0
    /\ waiting = [c \in Clients |-> NoTicket]
    /\ debt = [c \in Clients |-> 0]
    /\ me = [h \in Handlers |-> NoTicket]
    /\ pc = [h \in Handlers |-> "out"]

-----------------------------------------------------------------------------
(* Faulty: the ticket stays in waiting_.                                   *)
EnterKeepingTicket(h) ==
    /\ active' = TRUE
    /\ pc' = [pc EXCEPT ![h] = "turn"]
    /\ UNCHANGED waiting

(* The tail of acquire(), once the predicate holds.                        *)
Enter(h) ==
    /\ waiting' = [waiting EXCEPT ![ClientOf[h]] = NoTicket]
    /\ active' = TRUE
    /\ pc' = [pc EXCEPT ![h] = "turn"]

NewTicket(h) == [debt |-> debt[ClientOf[h]], seq |-> seq + 1]

(* acquire() up to the first evaluation of the predicate: the handler      *)
(* enters at once or goes to sleep with its ticket in waiting_.            *)
AcquireEnter(h) ==
    /\ pc[h] = "out"
    /\ seq < MaxTickets
    /\ MayEnter(h, NewTicket(h))
    /\ seq' = seq + 1
    /\ me' = [me EXCEPT ![h] = NewTicket(h)]
    /\ Enter(h)
    /\ UNCHANGED debt

AcquireSleep(h) ==
    /\ pc[h] = "out"
    /\ seq < MaxTickets
    /\ ~MayEnter(h, NewTicket(h))
    /\ seq' = seq + 1
    /\ me' = [me EXCEPT ![h] = NewTicket(h)]
    /\ waiting' = [waiting EXCEPT ![ClientOf[h]] = NewTicket(h)]
    /\ pc' = [pc EXCEPT ![h] = "asleep"]
    /\ UNCHANGED <<active, debt>>

Acquire(h) == AcquireEnter(h) \/ AcquireSleep(h)

(* A woken handler has taken mu_ again and evaluates the predicate.        *)
WakeEnter(h) ==
    /\ pc[h] = "awake"
    /\ MayEnter(h, me[h])
    /\ Enter(h)
    /\ UNCHANGED <<seq, debt, me>>

WakeSleep(h) ==
    /\ pc[h] = "awake"
    /\ ~MayEnter(h, me[h])
    /\ pc' = [pc EXCEPT ![h] = "asleep"]
    /\ UNCHANGED <<active, seq, waiting, debt, me>>

Recheck(h) == WakeEnter(h) \/ WakeSleep(h)

(* std::condition_variable may return from a wait on its own.              *)
SpuriousWake(h) ==
    /\ pc[h] = "asleep"
    /\ pc' = [pc EXCEPT ![h] = "awake"]
    /\ UNCHANGED <<active, seq, waiting, debt, me>>

(* Faulty: a turn is paid back instead of counted.                         *)
ReleaseForgiving(h) ==
    /\ pc[h] = "turn"
    /\ debt' = [debt EXCEPT ![ClientOf[h]] = @ - 1]
    /\ active' = FALSE
    /\ pc' = [pc EXCEPT ![h] = "notify"]
    /\ UNCHANGED <<seq, waiting, me>>

(* release(): the critical section, and notify_all() after it.             *)
Release(h) ==
    /\ pc[h] = "turn"
    /\ debt' = [debt EXCEPT ![ClientOf[h]] = @ + 1]
    /\ active' = FALSE
    /\ pc' = [pc EXCEPT ![h] = "notify"]
    /\ UNCHANGED <<seq, waiting, me>>

(* Faulty: notify_one() wakes a single sleeper.                            *)
NotifyOne(h) ==
    /\ pc[h] = "notify"
    /\ LET asleep == {g \in Handlers : pc[g] = "asleep"}
       IN  IF asleep = {} THEN pc' = [pc EXCEPT ![h] = "out"]
           ELSE \E g \in asleep : pc' = [pc EXCEPT ![h] = "out", ![g] = "awake"]
    /\ UNCHANGED <<active, seq, waiting, debt, me>>

NotifyAll(h) ==
    /\ pc[h] = "notify"
    /\ pc' = [g \in Handlers |-> IF g = h THEN "out"
                                 ELSE IF pc[g] = "asleep" THEN "awake"
                                 ELSE pc[g]]
    /\ UNCHANGED <<active, seq, waiting, debt, me>>

Step(h) == Acquire(h) \/ Recheck(h) \/ SpuriousWake(h) \/ Release(h) \/ NotifyAll(h)

Next == \E h \in Handlers : Step(h)

(* A handler inside acquire() or release() is a running thread, and the    *)
(* handler that has the turn comes to its release().  Nobody has to call.  *)
Fairness == \A h \in Handlers : /\ WF_vars(Recheck(h))
                                /\ WF_vars(Release(h))
                                /\ WF_vars(NotifyAll(h))

Spec     == Init /\ [][Next]_vars
FairSpec == Spec /\ Fairness

-----------------------------------------------------------------------------
(* The turn is exclusive: at most one handler is between acquire() and     *)
(* release(), and active_ says exactly whether there is one.               *)
OneTurn ==
    /\ active <=> \E h \in Handlers : pc[h] = "turn"
    /\ \A g, h \in Handlers : pc[g] = "turn" /\ pc[h] = "turn" => g = h

(* No wakeup is lost.  While the turn is free, a handler is left asleep    *)
(* only if a notify_all() is still to come, or if another handler is       *)
(* awake, on its way to the predicate, with a better ticket.               *)
NoLostWakeup ==
    ~active =>
        \A h \in Handlers : pc[h] = "asleep" =>
            \/ \E n \in Handlers : pc[n] = "notify"
            \/ \E g \in Handlers : pc[g] = "awake" /\ Before(me[g], me[h])

(* A client is overtaken only as the policy allows: whoever has the turn   *)
(* while h waits, with its ticket in waiting_, either came before h or has *)
(* had strictly fewer turns than h's client when it queued.                *)
NoOvertaking ==
    \A g, h \in Handlers :
        (pc[g] = "turn" /\ InWait(h) /\ waiting[ClientOf[h]] = me[h]) =>
            me[g].seq < me[h].seq \/ me[g].debt < me[h].debt

(* An entry of waiting_ always belongs to a handler that is still waiting: *)
(* a ticket that outlives its handler would block every worse one forever. *)
NoGhostTicket ==
    \A c \in Clients : waiting[c] # NoTicket =>
        \E h \in Handlers : ClientOf[h] = c /\ InWait(h) /\ me[h] = waiting[c]

(* Every handler that waits is served.                                     *)
EveryWaiterServed == \A h \in Handlers : InWait(h) ~> pc[h] = "turn"
=============================================================================
