-------------------------- MODULE FairQueue_proofs --------------------------
(***************************************************************************)
(* Proofs about FairQueue for every set of handlers and clients: what      *)
(* holds with any number of handlers per client id, and then in which      *)
(* order clients are served that each have a client id of their own.       *)
(***************************************************************************)
EXTENDS FairQueueTurns, FairQueueImpl, TLAPS

(* Tickets in use are numbered from 1 to seq_, each number once.           *)
Numbered ==
    /\ \A h \in Handlers : me[h].seq <= seq
    /\ \A h \in Handlers : pc[h] \in {"asleep", "awake", "turn"} => me[h].seq > 0
    /\ \A g, h \in Handlers : g # h /\ me[g].seq > 0 => me[g].seq # me[h].seq

(* The inductive invariant.                                                *)
QueueInv == /\ TypeOK /\ OneTurn /\ Numbered
            /\ NoGhostTicket /\ NoLostWakeup /\ NoOvertaking

-----------------------------------------------------------------------------
(* Ticket::operator< is a strict order.                                    *)
LEMMA BeforeOrder ==
    ASSUME NEW t \in Ticket, NEW u \in Ticket, NEW v \in Ticket
    PROVE  /\ ~Before(t, t)
           /\ Before(t, u) /\ Before(u, v) => Before(t, v)
BY DEF Before, Ticket

(* A step of one handler changes no other handler's place, but for the     *)
(* notify_all() that wakes every sleeper, and no other handler's ticket.   *)
LEMMA StepFrame ==
    ASSUME TypeOK, NEW h \in Handlers, Step(h), NEW g \in Handlers, g # h
    PROVE  /\ me'[g] = me[g]
           /\ pc'[g] = pc[g] \/ (pc[g] = "asleep" /\ pc'[g] = "awake")
           /\ InWait(g)' <=> InWait(g)
BY DEF TypeOK, Step, Acquire, AcquireEnter, AcquireSleep, Recheck, WakeEnter,
       WakeSleep, SpuriousWake, Release, NotifyAll, Enter, InWait

(* The state's shape but for the flag active_: the provers treat a Boolean *)
(* variable best on its own.                                               *)
Shape ==
    /\ seq \in Nat
    /\ waiting \in [Clients -> Ticket]
    /\ debt \in [Clients -> Nat]
    /\ me \in [Handlers -> Ticket]
    /\ pc \in [Handlers -> Places]

(* active_ stays a Boolean.                                                *)
LEMMA ActiveFlag == ASSUME active \in BOOLEAN, [Next]_vars PROVE active' \in BOOLEAN
BY DEF vars, Next, Step, Acquire, Recheck, AcquireEnter, AcquireSleep, Enter,
       WakeEnter, WakeSleep, SpuriousWake, Release, NotifyAll

(* Type correctness of the queue's state.                                  *)
LEMMA TypePreserved == ASSUME TypeOK, [Next]_vars PROVE TypeOK'
<1>1. active' \in BOOLEAN
  BY ActiveFlag DEF TypeOK
<1>2. Shape
  BY DEF Shape, TypeOK
<1>3. ASSUME UNCHANGED vars PROVE Shape'
  BY <1>2, <1>3 DEF Shape, vars
<1>4. ASSUME NEW h \in Handlers, Step(h) PROVE Shape'
  <2> USE <1>2, QueueAssumption DEF Shape, Ticket, NoTicket, Places, NewTicket, Enter
  <2>1. CASE AcquireEnter(h)
    BY <2>1 DEF AcquireEnter
  <2>2. CASE AcquireSleep(h)
    BY <2>2 DEF AcquireSleep
  <2>3. CASE WakeEnter(h)
    BY <2>3 DEF WakeEnter
  <2>4. CASE WakeSleep(h)
    BY <2>4 DEF WakeSleep
  <2>5. CASE SpuriousWake(h)
    BY <2>5 DEF SpuriousWake
  <2>6. CASE Release(h)
    BY <2>6 DEF Release
  <2>7. CASE NotifyAll(h)
    BY <2>7 DEF NotifyAll
  <2>8. QED
    BY <1>4, <2>1, <2>2, <2>3, <2>4, <2>5, <2>6, <2>7 DEF Step, Acquire, Recheck
<1>5. Shape'
  BY <1>3, <1>4 DEF Next
<1>6. QED
  BY <1>1, <1>5 DEF TypeOK, Shape

(* The initial state has its types.                                        *)
LEMMA TypeInitially == Init => TypeOK
<1> SUFFICES ASSUME Init PROVE TypeOK
  OBVIOUS
<1>1. active \in BOOLEAN
  BY DEF Init
<1>2. waiting \in [Clients -> Ticket] /\ me \in [Handlers -> Ticket]
  BY DEF Init, Ticket, NoTicket
<1>3. seq \in Nat /\ debt \in [Clients -> Nat] /\ pc \in [Handlers -> Places]
  BY DEF Init, Places
<1>4. QED
  BY <1>1, <1>2, <1>3 DEF TypeOK

(* TypeOK is an invariant: the mutex-protected fields of class FairQueue   *)
(* keep their shape.                                                       *)
THEOREM TypeCorrect == Spec => []TypeOK
<1>1. TypeOK /\ [Next]_vars => TypeOK'
  BY TypePreserved
<1>2. QED
  BY <1>1, TypeInitially, PTL DEF Spec
-----------------------------------------------------------------------------
(* No step gives out a second turn.                                        *)
LEMMA OneTurnPreserved ==
    ASSUME TypeOK, OneTurn, [Next]_vars PROVE OneTurn'
<1> USE DEF TypeOK, Places
<1>1. ASSUME UNCHANGED vars PROVE OneTurn'
  BY <1>1, OneTurn DEF vars, OneTurn
<1>2. ASSUME NEW h \in Handlers, Step(h) PROVE OneTurn'
  <2>1. ASSUME AcquireEnter(h) \/ WakeEnter(h) PROVE OneTurn'
    BY <2>1, OneTurn DEF OneTurn, AcquireEnter, WakeEnter, Enter, MayEnter
  <2>2. ASSUME AcquireSleep(h) \/ WakeSleep(h) \/ SpuriousWake(h) PROVE OneTurn'
    BY <2>2, OneTurn DEF OneTurn, AcquireSleep, WakeSleep, SpuriousWake
  <2>3. ASSUME Release(h) PROVE OneTurn'
    BY <2>3, OneTurn DEF OneTurn, Release
  <2>4. ASSUME NotifyAll(h) PROVE OneTurn'
    BY <2>4, OneTurn DEF OneTurn, NotifyAll
  <2>5. QED
    BY <1>2, <2>1, <2>2, <2>3, <2>4 DEF Step, Acquire, Recheck
<1>3. QED
  BY <1>1, <1>2 DEF Next

(* Tickets stay distinct and within seq_.                                  *)
LEMMA NumberedPreserved ==
    ASSUME TypeOK, Numbered, [Next]_vars PROVE Numbered'
<1> USE DEF TypeOK, Places, Ticket
<1>1. ASSUME UNCHANGED vars PROVE Numbered'
  BY <1>1, Numbered DEF vars, Numbered
<1>2. ASSUME NEW h \in Handlers, Step(h) PROVE Numbered'
  <2>1. ASSUME Acquire(h) PROVE Numbered'
    <3>1. /\ seq' = seq + 1
          /\ me' = [me EXCEPT ![h] = NewTicket(h)]
          /\ \A g \in Handlers \ {h} : pc'[g] = pc[g]
      BY <2>1 DEF Acquire, AcquireEnter, AcquireSleep, Enter
    <3>2. QED
      BY <3>1, Numbered DEF Numbered, NewTicket
  <2>2. ASSUME Recheck(h) \/ SpuriousWake(h) \/ Release(h) PROVE Numbered'
    BY <2>2, Numbered DEF Numbered, Recheck, WakeEnter, Enter, WakeSleep,
                          SpuriousWake, Release
  <2>3. ASSUME NotifyAll(h) PROVE Numbered'
    BY <2>3, Numbered DEF Numbered, NotifyAll
  <2>4. QED
    BY <1>2, <2>1, <2>2, <2>3 DEF Step
<1>3. QED
  BY <1>1, <1>2 DEF Next

(* The entry of a waiting handler's client goes only when a handler of     *)
(* that client enters, and then no entry is left.                          *)
LEMMA NoGhostPreserved ==
    ASSUME TypeOK, NoGhostTicket, [Next]_vars PROVE NoGhostTicket'
<1> USE QueueAssumption DEF TypeOK
<1>1. ASSUME UNCHANGED vars PROVE NoGhostTicket'
  BY <1>1, NoGhostTicket DEF vars, NoGhostTicket, InWait
<1>2. ASSUME NEW h \in Handlers, Step(h) PROVE NoGhostTicket'
  <2> SUFFICES ASSUME NEW c \in Clients, waiting'[c] # NoTicket
               PROVE  \E g \in Handlers : /\ ClientOf[g] = c /\ InWait(g)'
                                          /\ me'[g] = waiting'[c]
    BY DEF NoGhostTicket
  <2>1. CASE AcquireSleep(h) /\ ClientOf[h] = c
    <3>1. InWait(h)' /\ me'[h] = waiting'[c]
      BY <2>1 DEF AcquireSleep, InWait
    <3>2. QED
      BY <2>1, <3>1
  <2>2. CASE ~(AcquireSleep(h) /\ ClientOf[h] = c)
    <3>1. waiting'[c] = waiting[c] /\ (ClientOf[h] = c => ~(AcquireEnter(h) \/ WakeEnter(h)))
      BY <1>2, <2>2 DEF Step, Acquire, AcquireEnter, AcquireSleep, Recheck,
            WakeEnter, WakeSleep, SpuriousWake, Release, NotifyAll, Enter
    <3>2. PICK g \in Handlers : ClientOf[g] = c /\ InWait(g) /\ me[g] = waiting[c]
      BY <3>1, NoGhostTicket DEF NoGhostTicket
    <3>3. CASE g # h
      BY <1>2, <3>1, <3>2, <3>3, StepFrame
    <3>4. CASE g = h
      BY <1>2, <3>1, <3>2, <3>4 DEF Step, Acquire, AcquireEnter, AcquireSleep,
            Recheck, WakeEnter, WakeSleep, SpuriousWake, Release, NotifyAll, InWait
    <3>5. QED
      BY <3>3, <3>4
  <2>3. QED
    BY <2>1, <2>2
<1>3. QED
  BY <1>1, <1>2 DEF Next
-----------------------------------------------------------------------------
(* A handler that may not enter a free turn is kept out by the visible     *)
(* ticket of another handler that waits.                                   *)
LEMMA KeptOut ==
    ASSUME TypeOK, NoGhostTicket, ~active,
           NEW h \in Handlers, NEW t \in Ticket, ~MayEnter(h, t)
    PROVE  \E v \in Handlers \ {h} : InWait(v) /\ Before(me[v], t)
BY QueueAssumption DEF MayEnter, NoGhostTicket

(* A better ticket is awake, or a notify_all() is to come.                 *)
Covered(t) == \/ \E n \in Handlers : pc[n] = "notify"
              \/ \E g \in Handlers : pc[g] = "awake" /\ Before(me[g], t)

(* What keeps a handler out of a free turn is a better, live ticket.       *)
LEMMA KeptOutIsCovered ==
    ASSUME TypeOK, NoGhostTicket, NoLostWakeup, ~active,
           NEW h \in Handlers, NEW t \in Ticket, ~MayEnter(h, t)
    PROVE  Covered(t)
<1> USE DEF Covered
<1>1. PICK v \in Handlers : InWait(v) /\ Before(me[v], t)
  BY KeptOut
<1>2. CASE pc[v] = "awake"
  BY <1>1, <1>2
<1>3. CASE pc[v] = "asleep"
  <2>1. CASE \E n \in Handlers : pc[n] = "notify"
    BY <2>1
  <2>2. CASE \E g \in Handlers : pc[g] = "awake" /\ Before(me[g], me[v])
    <3>1. PICK g \in Handlers : pc[g] = "awake" /\ Before(me[g], me[v])
      BY <2>2
    <3>2. Before(me[g], t)
      BY <1>1, <3>1, BeforeOrder DEF TypeOK
    <3>3. QED
      BY <3>1, <3>2
  <2>3. QED
    BY <1>3, <2>1, <2>2, NoLostWakeup DEF NoLostWakeup
<1>4. QED
  BY <1>1, <1>2, <1>3 DEF InWait

(* No step leaves a handler asleep beside a free turn.                     *)
LEMMA NoLostWakeupPreserved ==
    ASSUME TypeOK, OneTurn, Numbered, NoGhostTicket, NoLostWakeup, [Next]_vars
    PROVE  NoLostWakeup'
<1> USE DEF TypeOK, Places
<1>1. ASSUME UNCHANGED vars PROVE NoLostWakeup'
  BY <1>1, NoLostWakeup DEF vars, NoLostWakeup
<1>2. ASSUME NEW h \in Handlers, Step(h) PROVE NoLostWakeup'
  <2> SUFFICES ASSUME ~active', NEW x \in Handlers, pc'[x] = "asleep"
               PROVE  Covered(me[x])'
    BY DEF NoLostWakeup, Covered
  <2>1. CASE AcquireEnter(h) \/ WakeEnter(h)
    BY <2>1 DEF AcquireEnter, WakeEnter, Enter
  <2>2. CASE AcquireSleep(h)
    <3>1. /\ me' = [me EXCEPT ![h] = NewTicket(h)]
          /\ pc' = [pc EXCEPT ![h] = "asleep"] /\ pc[h] = "out"
      BY <2>2 DEF AcquireSleep
    <3>2. NewTicket(h) \in Ticket
      BY QueueAssumption DEF NewTicket, Ticket
    <3>3. ~active /\ ~MayEnter(h, NewTicket(h))
      BY <2>2 DEF AcquireSleep
    <3>4. Covered(me'[x])
      <4>1. CASE x = h
        BY <3>1, <3>2, <3>3, <4>1, KeptOutIsCovered
      <4>2. CASE x # h
        BY <3>1, <3>3, <4>2, NoLostWakeup DEF NoLostWakeup, Covered
      <4>3. QED
        BY <4>1, <4>2
    <3>5. QED
      BY <3>1, <3>4 DEF Covered
  <2>3. CASE WakeSleep(h)
    <3>1. /\ ~active /\ ~MayEnter(h, me[h]) /\ me' = me
          /\ pc' = [pc EXCEPT ![h] = "asleep"] /\ pc[h] = "awake"
      BY <2>3 DEF WakeSleep
    <3>2. Covered(me[h])
      BY <3>1, KeptOutIsCovered DEF Covered
    <3>3. ~Before(me[h], me[h])
      BY BeforeOrder
    <3>4. CASE \E n \in Handlers : pc[n] = "notify"
      BY <3>1, <3>4 DEF Covered
    <3>5. CASE ~\E n \in Handlers : pc[n] = "notify"
      <4>1. PICK g \in Handlers : pc[g] = "awake" /\ Before(me[g], me[h])
        BY <3>2, <3>5 DEF Covered
      <4>2. \E k \in Handlers \ {h} : pc[k] = "awake" /\ Before(me[k], me[x])
        <5>1. CASE x = h
          BY <3>3, <4>1, <5>1
        <5>2. CASE x # h
          <6>1. PICK k \in Handlers : pc[k] = "awake" /\ Before(me[k], me[x])
            BY <3>1, <3>5, <5>2, NoLostWakeup DEF NoLostWakeup
          <6>2. CASE k = h
            BY <3>3, <4>1, <6>1, <6>2, BeforeOrder
          <6>3. QED
            BY <6>1, <6>2
        <5>3. QED
          BY <5>1, <5>2
      <4>3. QED
        BY <3>1, <4>2 DEF Covered
    <3>6. QED
      BY <3>4, <3>5
  <2>4. CASE SpuriousWake(h)
    BY <2>4, NoLostWakeup DEF SpuriousWake, NoLostWakeup, Covered
  <2>5. CASE Release(h)
    BY <2>5 DEF Release, Covered
  <2>6. CASE NotifyAll(h)
    BY <2>6 DEF NotifyAll
  <2>7. QED
    BY <1>2, <2>1, <2>2, <2>3, <2>4, <2>5, <2>6 DEF Step, Acquire, Recheck
<1>3. QED
  BY <1>1, <1>2 DEF Next
-----------------------------------------------------------------------------
(* A handler that enters with ticket t is not preferred to a visible       *)
(* ticket against the policy.                                              *)
LEMMA EntersByPolicy ==
    ASSUME TypeOK, NEW g \in Handlers, NEW t \in Ticket, MayEnter(g, t),
           NEW h \in Handlers, ClientOf[h] # ClientOf[g],
           waiting[ClientOf[h]] = me[h], me[h].seq > 0, me[h].seq # t.seq
    PROVE  t.seq < me[h].seq \/ t.debt < me[h].debt
<1>1. me[h] # NoTicket /\ me[h] \in Ticket
  BY DEF NoTicket, TypeOK
<1>2. ~Before(me[h], t)
  BY <1>1, QueueAssumption DEF MayEnter
<1>3. QED
  BY <1>1, <1>2 DEF Before, Ticket

(* No step gives the turn to the wrong handler.                            *)
LEMMA NoOvertakingPreserved ==
    ASSUME TypeOK, OneTurn, Numbered, NoOvertaking, [Next]_vars
    PROVE  NoOvertaking'
<1> USE QueueAssumption DEF TypeOK, Places
<1>1. ASSUME UNCHANGED vars PROVE NoOvertaking'
  BY <1>1, NoOvertaking DEF vars, NoOvertaking, InWait
<1>2. ASSUME NEW k \in Handlers, Step(k) PROVE NoOvertaking'
  <2> SUFFICES ASSUME NEW g \in Handlers, NEW h \in Handlers,
                      pc'[g] = "turn", InWait(h)', waiting'[ClientOf[h]] = me'[h]
               PROVE  me'[g].seq < me'[h].seq \/ me'[g].debt < me'[h].debt
    BY DEF NoOvertaking
  <2>1. CASE AcquireEnter(k)
    <3>1. /\ ~active /\ seq < seq + 1 /\ seq + 1 > 0
          /\ me' = [me EXCEPT ![k] = NewTicket(k)]
          /\ pc' = [pc EXCEPT ![k] = "turn"] /\ pc[k] = "out"
          /\ waiting' = [waiting EXCEPT ![ClientOf[k]] = NoTicket]
          /\ MayEnter(k, NewTicket(k))
      BY <2>1 DEF AcquireEnter, Enter, MayEnter
    <3>2. g = k /\ h # k
      BY <3>1, OneTurn DEF OneTurn, InWait
    <3>3. InWait(h) /\ me'[h] = me[h] /\ me[h].seq > 0 /\ me[h].seq <= seq
      BY <3>1, <3>2, Numbered DEF InWait, Numbered
    <3>4. ClientOf[h] # ClientOf[k]
      BY <3>1, <3>3 DEF NoTicket
    <3>5. NewTicket(k) \in Ticket /\ NewTicket(k).seq = seq + 1
      BY DEF NewTicket, Ticket
    <3>6. me[h].seq # NewTicket(k).seq
      BY <3>3, <3>5 DEF Ticket
    <3>7. waiting[ClientOf[h]] = me[h]
      BY <3>1, <3>3, <3>4
    <3>8. NewTicket(k).seq < me[h].seq \/ NewTicket(k).debt < me[h].debt
      BY <3>1, <3>3, <3>4, <3>5, <3>6, <3>7, EntersByPolicy
    <3>9. QED
      BY <3>1, <3>2, <3>3, <3>8
  <2>2. CASE WakeEnter(k)
    <3>1. /\ ~active /\ me' = me
          /\ pc' = [pc EXCEPT ![k] = "turn"] /\ pc[k] = "awake"
          /\ waiting' = [waiting EXCEPT ![ClientOf[k]] = NoTicket]
          /\ MayEnter(k, me[k])
      BY <2>2 DEF WakeEnter, Enter, MayEnter
    <3>2. g = k /\ h # k
      BY <3>1, OneTurn DEF OneTurn, InWait
    <3>3. InWait(h) /\ me[h].seq > 0 /\ me[h].seq # me[k].seq
      BY <3>1, <3>2, Numbered DEF InWait, Numbered
    <3>4. ClientOf[h] # ClientOf[k]
      BY <3>1, <3>3 DEF NoTicket
    <3>5. waiting[ClientOf[h]] = me[h]
      BY <3>1, <3>4
    <3>6. QED
      BY <3>1, <3>2, <3>3, <3>4, <3>5, EntersByPolicy
  <2>3. CASE AcquireSleep(k)
    <3>1. /\ me' = [me EXCEPT ![k] = NewTicket(k)]
          /\ pc' = [pc EXCEPT ![k] = "asleep"] /\ pc[k] = "out"
          /\ waiting' = [waiting EXCEPT ![ClientOf[k]] = NewTicket(k)]
      BY <2>3 DEF AcquireSleep
    <3>2. g # k /\ pc[g] = "turn" /\ me'[g] = me[g]
      BY <3>1
    <3>3. CASE h = k
      <4>1. me[g].seq <= seq /\ me'[h].seq = seq + 1 /\ me[g].seq \in Nat
        BY <3>1, <3>3, Numbered DEF Numbered, NewTicket, Ticket
      <4>2. QED
        BY <3>2, <4>1
    <3>4. CASE h # k
      <4>1. InWait(h) /\ me'[h] = me[h] /\ me[h].seq <= seq /\ me[h].seq \in Nat
        BY <3>1, <3>4, Numbered DEF InWait, Numbered, Ticket
      <4>2. NewTicket(k).seq = seq + 1
        BY DEF NewTicket
      <4>3. ClientOf[h] # ClientOf[k]
        BY <3>1, <4>1, <4>2
      <4>4. waiting[ClientOf[h]] = me[h]
        BY <3>1, <4>1, <4>3
      <4>5. QED
        BY <3>2, <4>1, <4>4, NoOvertaking DEF NoOvertaking
    <3>5. QED
      BY <3>3, <3>4
  <2>4. CASE WakeSleep(k) \/ SpuriousWake(k) \/ Release(k) \/ NotifyAll(k)
    <3>1. me' = me /\ waiting' = waiting /\ pc[g] = "turn" /\ InWait(h)
      BY <2>4 DEF WakeSleep, SpuriousWake, Release, NotifyAll, InWait
    <3>2. QED
      BY <3>1, NoOvertaking DEF NoOvertaking
  <2>5. QED
    BY <1>2, <2>1, <2>2, <2>3, <2>4 DEF Step, Acquire, Recheck
<1>3. QED
  BY <1>1, <1>2 DEF Next

-----------------------------------------------------------------------------
(* The invariant of the queue holds at first.                              *)
LEMMA QueueInvInitially == Init => QueueInv
<1>1. ASSUME Init PROVE OneTurn /\ Numbered /\ NoLostWakeup /\ NoOvertaking
  BY <1>1 DEF Init, OneTurn, Numbered, NoLostWakeup, NoOvertaking, NoTicket, InWait
<1>2. ASSUME Init PROVE NoGhostTicket
  BY <1>2 DEF Init, NoGhostTicket
<1>3. QED
  BY <1>1, <1>2, TypeInitially DEF QueueInv

(* Every step keeps the invariant of the queue.                            *)
LEMMA QueueInvPreserved == QueueInv /\ [Next]_vars => QueueInv'
BY TypePreserved, OneTurnPreserved, NumberedPreserved, NoGhostPreserved,
   NoLostWakeupPreserved, NoOvertakingPreserved DEF QueueInv

(* The invariant of the queue holds always.                                *)
LEMMA QueueInvariant == Spec => []QueueInv
BY QueueInvInitially, QueueInvPreserved, PTL DEF Spec

(* One handler at a time is between acquire() and release(), for any       *)
(* number of handlers and clients.                                         *)
THEOREM TurnIsExclusive == Spec => []OneTurn
BY QueueInvariant, PTL DEF QueueInv

(* No handler sleeps on a free turn that nobody will look at: releasing    *)
(* the mutex before notify_all() loses no wakeup, and neither do two       *)
(* handlers with one client id.                                            *)
THEOREM WakeupsAreKept == Spec => []NoLostWakeup
BY QueueInvariant, PTL DEF QueueInv

(* No ticket outlives its handler's wait.                                  *)
THEOREM TicketsAreLive == Spec => []NoGhostTicket
BY QueueInvariant, PTL DEF QueueInv

(* A visible ticket is passed over only by older ones or by clients with   *)
(* fewer turns.                                                            *)
THEOREM OvertakingByPolicy == Spec => []NoOvertaking
BY QueueInvariant, PTL DEF QueueInv

-----------------------------------------------------------------------------
(* A client id per handler: each client makes one call at a time.          *)
OwnIds == \A g, h \in Handlers : ClientOf[g] = ClientOf[h] => g = h

(* With own ids no other handler can overwrite or erase a ticket.          *)
TicketIsVisible == \A h \in Handlers : InWait(h) => waiting[ClientOf[h]] = me[h]

(* With own ids the ticket of a waiter stays in waiting_.                  *)
LEMMA TicketIsVisiblePreserved ==
    ASSUME OwnIds, TypeOK, TicketIsVisible, [Next]_vars PROVE TicketIsVisible'
<1> USE QueueAssumption DEF TypeOK, Places, InWait
<1>1. ASSUME UNCHANGED vars PROVE TicketIsVisible'
  BY <1>1, TicketIsVisible DEF vars, TicketIsVisible
<1>2. ASSUME NEW k \in Handlers, Step(k) PROVE TicketIsVisible'
  <2>1. CASE AcquireSleep(k)
    BY <2>1, OwnIds, TicketIsVisible DEF TicketIsVisible, AcquireSleep, OwnIds
  <2>2. CASE AcquireEnter(k) \/ WakeEnter(k)
    BY <2>2, OwnIds, TicketIsVisible
    DEF TicketIsVisible, AcquireEnter, WakeEnter, Enter, OwnIds
  <2>3. CASE WakeSleep(k) \/ SpuriousWake(k) \/ Release(k) \/ NotifyAll(k)
    BY <2>3, TicketIsVisible
    DEF TicketIsVisible, WakeSleep, SpuriousWake, Release, NotifyAll
  <2>4. QED
    BY <1>2, <2>1, <2>2, <2>3 DEF Step, Acquire, Recheck
<1>3. QED
  BY <1>1, <1>2 DEF Next

-----------------------------------------------------------------------------
Queued(h) == pc[h] \in {"asleep", "awake", "turn"}

(* A handler keeps the debt it came with until its own release().          *)
DebtIsFresh == \A h \in Handlers : Queued(h) => me[h].debt = debt[ClientOf[h]]

(* A client with an older ticket has completed no turn since.              *)
OlderUnchanged ==
    \A g, h \in Handlers :
        Queued(g) /\ InWait(h) /\ me[g].seq < me[h].seq =>
            seen[h][ClientOf[g]] = debt[ClientOf[g]]

TurnsInv ==
    /\ QueueInv
    /\ seen \in [Handlers -> [Clients -> Nat]]
    /\ DebtIsFresh /\ TicketIsVisible /\ OlderUnchanged
    /\ BoundedOvertaking

-----------------------------------------------------------------------------
(* A step with the history variable is a step of the queue.                *)
LEMMA HStepIsStep == [HNext]_hvars => [Next]_vars
BY DEF HNext, HAcquire, hvars, vars, Next, Step

(* seen keeps its type.                                                    *)
LEMMA SeenType ==
    ASSUME TypeOK, seen \in [Handlers -> [Clients -> Nat]], [HNext]_hvars
    PROVE  seen' \in [Handlers -> [Clients -> Nat]]
BY DEF TypeOK, HNext, HAcquire, hvars

(* A ticket goes on saying its client's debt.                              *)
LEMMA DebtIsFreshPreserved ==
    ASSUME OwnIds, TypeOK, DebtIsFresh, [Next]_vars PROVE DebtIsFresh'
<1> USE QueueAssumption DEF TypeOK, Places, Queued
<1>1. ASSUME UNCHANGED vars PROVE DebtIsFresh'
  BY <1>1, DebtIsFresh DEF vars, DebtIsFresh
<1>2. ASSUME NEW k \in Handlers, Step(k) PROVE DebtIsFresh'
  <2>1. CASE Acquire(k)
    <3>1. /\ debt' = debt /\ me' = [me EXCEPT ![k] = NewTicket(k)]
          /\ \A g \in Handlers \ {k} : pc'[g] = pc[g]
      BY <2>1 DEF Acquire, AcquireEnter, AcquireSleep, Enter
    <3>2. NewTicket(k).debt = debt[ClientOf[k]]
      BY DEF NewTicket
    <3>3. QED
      BY <3>1, <3>2, DebtIsFresh DEF DebtIsFresh
  <2>2. CASE Recheck(k) \/ SpuriousWake(k)
    BY <2>2, DebtIsFresh DEF DebtIsFresh, Recheck, WakeEnter, WakeSleep, Enter, SpuriousWake
  <2>3. CASE Release(k)
    BY <2>3, OwnIds, DebtIsFresh DEF DebtIsFresh, Release, OwnIds
  <2>4. CASE NotifyAll(k)
    BY <2>4, DebtIsFresh DEF DebtIsFresh, NotifyAll
  <2>5. QED
    BY <1>2, <2>1, <2>2, <2>3, <2>4 DEF Step
<1>3. QED
  BY <1>1, <1>2 DEF Next

(* Who came first has completed no turn since.                             *)
LEMMA OlderUnchangedPreserved ==
    ASSUME OwnIds, TypeOK, Numbered, OlderUnchanged,
           seen \in [Handlers -> [Clients -> Nat]], [HNext]_hvars
    PROVE  OlderUnchanged'
<1> USE QueueAssumption DEF TypeOK, Places, Queued, InWait
<1>1. ASSUME UNCHANGED hvars PROVE OlderUnchanged'
  BY <1>1, OlderUnchanged DEF hvars, vars, OlderUnchanged
<1>2. ASSUME NEW k \in Handlers, HAcquire(k) PROVE OlderUnchanged'
  <2> SUFFICES ASSUME NEW g \in Handlers, NEW h \in Handlers,
                      Queued(g)', InWait(h)', me'[g].seq < me'[h].seq
               PROVE  seen'[h][ClientOf[g]] = debt'[ClientOf[g]]
    BY DEF OlderUnchanged
  <2>1. /\ debt' = debt /\ me' = [me EXCEPT ![k] = NewTicket(k)]
        /\ NewTicket(k).seq = seq + 1
        /\ seen' = [seen EXCEPT ![k] = debt]
        /\ \A x \in Handlers \ {k} : pc'[x] = pc[x]
    BY <1>2 DEF HAcquire, Acquire, AcquireEnter, AcquireSleep, Enter, NewTicket
  <2>2. CASE h = k
    BY <2>1, <2>2
  <2>3. CASE h # k
    <3>1. me[h].seq <= seq /\ me[h].seq \in Nat
      BY Numbered DEF Numbered, Ticket
    <3>2. g # k
      BY <2>1, <2>3, <3>1
    <3>3. QED
      BY <2>1, <2>3, <3>2, OlderUnchanged DEF OlderUnchanged
  <2>4. QED
    BY <2>2, <2>3
<1>3. ASSUME NEW k \in Handlers, UNCHANGED seen,
             Recheck(k) \/ SpuriousWake(k) \/ NotifyAll(k)
      PROVE  OlderUnchanged'
  BY <1>3, OlderUnchanged, SMTT(30)
  DEF OlderUnchanged, Recheck, WakeEnter, WakeSleep, Enter, SpuriousWake, NotifyAll
<1>4. ASSUME NEW k \in Handlers, UNCHANGED seen, Release(k) PROVE OlderUnchanged'
  BY <1>4, OwnIds, OlderUnchanged DEF OlderUnchanged, Release, OwnIds
<1>5. QED
  BY <1>1, <1>2, <1>3, <1>4 DEF HNext

(* The bound on the turns of others is kept.                               *)
LEMMA BoundPreserved ==
    ASSUME OwnIds, TurnsInv, [HNext]_hvars PROVE BoundedOvertaking'
<1> USE QueueAssumption DEF TurnsInv, QueueInv, TypeOK, Places, InWait
<1>1. ASSUME UNCHANGED hvars PROVE BoundedOvertaking'
  BY <1>1 DEF hvars, vars, BoundedOvertaking
<1>2. ASSUME NEW k \in Handlers, HAcquire(k) PROVE BoundedOvertaking'
  <2> SUFFICES ASSUME NEW h \in Handlers, InWait(h)',
                      NEW c \in Clients \ {ClientOf[h]}
               PROVE  debt'[c] <= MaxOf(me'[h].debt, seen'[h][c] + 1)
    BY DEF BoundedOvertaking
  <2>1. /\ debt' = debt /\ me' = [me EXCEPT ![k] = NewTicket(k)]
        /\ seen' = [seen EXCEPT ![k] = debt]
        /\ \A x \in Handlers \ {k} : pc'[x] = pc[x]
    BY <1>2 DEF HAcquire, Acquire, AcquireEnter, AcquireSleep, Enter
  <2>2. CASE h = k
    <3>1. seen'[h][c] = debt[c] /\ debt[c] \in Nat /\ me'[h].debt \in Nat
      BY <2>1, <2>2 DEF NewTicket
    <3>2. QED
      BY <2>1, <3>1 DEF MaxOf
  <2>3. CASE h # k
    BY <2>1, <2>3 DEF BoundedOvertaking
  <2>4. QED
    BY <2>2, <2>3
<1>3. ASSUME NEW k \in Handlers, UNCHANGED seen,
             Recheck(k) \/ SpuriousWake(k) \/ NotifyAll(k)
      PROVE  BoundedOvertaking'
  BY <1>3 DEF BoundedOvertaking, Recheck, WakeEnter, WakeSleep, Enter,
              SpuriousWake, NotifyAll
<1>4. ASSUME NEW k \in Handlers, UNCHANGED seen, Release(k) PROVE BoundedOvertaking'
  <2> SUFFICES ASSUME NEW h \in Handlers, InWait(h)',
                      NEW c \in Clients \ {ClientOf[h]}
               PROVE  debt'[c] <= MaxOf(me[h].debt, seen[h][c] + 1)
    BY <1>4 DEF BoundedOvertaking, Release
  <2>1. /\ pc[k] = "turn" /\ InWait(h) /\ debt \in [Clients -> Nat]
        /\ debt' = [debt EXCEPT ![ClientOf[k]] = @ + 1]
    BY <1>4 DEF Release
  <2>2. me[h].debt \in Nat /\ seen[h][c] \in Nat /\ debt[c] \in Nat
    BY DEF Ticket
  <2>3. CASE c # ClientOf[k]
    BY <2>1, <2>3 DEF BoundedOvertaking
  <2>4. CASE c = ClientOf[k]
    <3>1. debt'[c] = debt[c] + 1 /\ me[k].debt = debt[c]
      BY <2>1, <2>4 DEF DebtIsFresh, Queued
    <3>2. me[k].seq < me[h].seq \/ me[k].debt < me[h].debt
      BY <2>1 DEF NoOvertaking, TicketIsVisible
    <3>3. CASE me[k].seq < me[h].seq
      <4>1. seen[h][c] = debt[c]
        BY <2>1, <2>4, <3>3 DEF OlderUnchanged, Queued
      <4>2. QED
        BY <2>2, <3>1, <4>1 DEF MaxOf
    <3>4. CASE me[k].debt < me[h].debt
      BY <2>2, <3>1, <3>4 DEF MaxOf
    <3>5. QED
      BY <3>2, <3>3, <3>4
  <2>5. QED
    BY <2>3, <2>4
<1>5. QED
  BY <1>1, <1>2, <1>3, <1>4 DEF HNext

(* While a handler waits, another client completes at most one turn it was *)
(* already queued for, beyond catching up with the waiter's own turns.     *)
THEOREM OvertakingIsBounded ==
    ASSUME OwnIds PROVE HSpec => []BoundedOvertaking
<1>1. HInit => TurnsInv
  <2> SUFFICES ASSUME HInit PROVE TurnsInv
    OBVIOUS
  <2>1. QueueInv
    BY QueueInvInitially DEF HInit
  <2>2. \A h \in Handlers : pc[h] = "out"
    BY DEF HInit, Init
  <2>3. seen \in [Handlers -> [Clients -> Nat]]
    BY DEF HInit
  <2>4. QED
    BY <2>1, <2>2, <2>3 DEF TurnsInv, DebtIsFresh, TicketIsVisible, OlderUnchanged,
                            BoundedOvertaking, Queued, InWait
<1>2. TurnsInv /\ [HNext]_hvars => TurnsInv'
  <2> SUFFICES ASSUME TurnsInv, [HNext]_hvars PROVE TurnsInv'
    OBVIOUS
  <2>1. QueueInv' /\ [Next]_vars
    BY HStepIsStep, QueueInvPreserved DEF TurnsInv
  <2>2. DebtIsFresh' /\ TicketIsVisible'
    BY OwnIds, <2>1, DebtIsFreshPreserved, TicketIsVisiblePreserved DEF TurnsInv, QueueInv
  <2>3. OlderUnchanged' /\ BoundedOvertaking'
    BY OwnIds, OlderUnchangedPreserved, BoundPreserved DEF TurnsInv, QueueInv
  <2>4. seen' \in [Handlers -> [Clients -> Nat]]
    BY SeenType DEF TurnsInv, QueueInv
  <2>5. QED
    BY <2>1, <2>2, <2>3, <2>4 DEF TurnsInv
<1>3. TurnsInv => BoundedOvertaking
  BY DEF TurnsInv
<1>4. QED
  BY <1>1, <1>2, <1>3, PTL DEF HSpec
-----------------------------------------------------------------------------
(* The invariant that the implementation of LeastDebtFirst needs.          *)
ImplInv == QueueInv /\ TicketIsVisible

(* The invariant of the queue, with visible tickets.                       *)
LEMMA ImplInvariant == ASSUME OwnIds PROVE Spec => []ImplInv
<1>1. Init => ImplInv
  BY QueueInvInitially DEF ImplInv, Init, TicketIsVisible, InWait
<1>2. ImplInv /\ [Next]_vars => ImplInv'
  BY OwnIds, QueueInvPreserved, TicketIsVisiblePreserved DEF ImplInv, QueueInv
<1>3. QED
  BY <1>1, <1>2, PTL DEF Spec

-----------------------------------------------------------------------------
(* The abstract state, read off the concrete one.                          *)
LEMMA AbstractQueue ==
    ASSUME ImplInv, NEW h \in Handlers
    PROVE  /\ LDF!Waits(h) <=> InWait(h)
           /\ InWait(h) => QueueOf[h] = me[h]
           /\ ~InWait(h) => QueueOf[h] = NoTicket
<1>1. InWait(h) => me[h].seq > 0
  BY DEF ImplInv, QueueInv, Numbered, InWait
<1>2. me[h] \in Ticket
  BY DEF ImplInv, QueueInv, TypeOK
<1>3. QED
  BY <1>1, <1>2 DEF QueueOf, LDF!Waits, LDF!NoTicket, NoTicket

(* The abstract holder is the handler that has the turn.                   *)
LEMMA AbstractHolder ==
    ASSUME OneTurn
    PROVE  /\ ~active => HolderOf = Nobody
           /\ \A h \in Handlers : pc[h] = "turn" => HolderOf = h
           /\ \A h \in Handlers : HolderOf = h => pc[h] = "turn"
BY NobodyAssumption DEF HolderOf, OneTurn

(* Between distinct tickets the two modules have one order.                *)
LEMMA BetterIsNotBefore ==
    ASSUME NEW t \in Ticket, NEW u \in Ticket, u.seq # t.seq
    PROVE  LDF!Better(t, u) <=> ~Before(u, t)
<1>1. t.seq \in Nat /\ u.seq \in Nat /\ t.debt \in Nat /\ u.debt \in Nat
  BY DEF Ticket
<1>2. QED
  BY <1>1 DEF LDF!Better, Before

(* The predicate of cv_.wait says that the handler is first.               *)
LEMMA MayEnterIsFirst ==
    ASSUME OwnIds, ImplInv, NEW h \in Handlers, NEW t \in Ticket,
           \A g \in Handlers \ {h} : InWait(g) => me[g].seq # t.seq
    PROVE  MayEnter(h, t) <=> ~active /\ LDF!First(h, t)
<1> USE QueueAssumption DEF ImplInv, QueueInv, TypeOK
<1>1. ASSUME NEW g \in Handlers \ {h}, InWait(g)
      PROVE  LDF!Better(t, QueueOf[g]) <=> ~Before(waiting[ClientOf[g]], t)
  <2>1. QueueOf[g] = me[g] /\ waiting[ClientOf[g]] = me[g] /\ me[g].seq # t.seq
    BY <1>1, AbstractQueue DEF TicketIsVisible
  <2>2. me[g] \in Ticket
    OBVIOUS
  <2>3. LDF!Better(t, me[g]) <=> ~Before(me[g], t)
    BY <2>1, <2>2, BetterIsNotBefore
  <2>4. QED
    BY <2>1, <2>3
<1>2. ASSUME NEW g \in Handlers \ {h}, InWait(g)
      PROVE  ClientOf[g] \in Clients \ {ClientOf[h]} /\ waiting[ClientOf[g]] # NoTicket
  <2>1. waiting[ClientOf[g]] = me[g] /\ me[g].seq > 0
    BY <1>2 DEF TicketIsVisible, Numbered, InWait
  <2>2. QED
    BY <2>1, OwnIds DEF OwnIds, NoTicket
<1>3. ASSUME NEW c \in Clients \ {ClientOf[h]}, waiting[c] # NoTicket
      PROVE  \E g \in Handlers \ {h} : InWait(g) /\ ClientOf[g] = c
  BY <1>3 DEF NoGhostTicket
<1>4. ASSUME MayEnter(h, t) PROVE LDF!First(h, t)
  BY <1>1, <1>2, <1>4, AbstractQueue DEF LDF!First, MayEnter
<1>5. ASSUME ~active, LDF!First(h, t) PROVE MayEnter(h, t)
  BY <1>1, <1>3, <1>5, AbstractQueue DEF LDF!First, MayEnter
<1>6. QED
  BY <1>4, <1>5 DEF MayEnter

(* A new ticket is the abstract one, and no handler has its number.        *)
LEMMA NewTicketIsNew ==
    ASSUME ImplInv, NEW h \in Handlers
    PROVE  /\ NewTicket(h) \in Ticket /\ NewTicket(h).seq = seq + 1
           /\ NewTicket(h) = LDF!NextTicket(h)
           /\ \A g \in Handlers : me[g].seq # NewTicket(h).seq
<1> USE QueueAssumption DEF ImplInv, QueueInv, TypeOK, NewTicket, Ticket
<1>1. NewTicket(h) \in Ticket /\ NewTicket(h).seq = seq + 1
  OBVIOUS
<1>2. NewTicket(h) = LDF!NextTicket(h)
  BY DEF LDF!NextTicket
<1>3. \A g \in Handlers : me[g].seq \in Nat /\ me[g].seq <= seq
  BY DEF Numbered
<1>4. QED
  BY <1>1, <1>2, <1>3

-----------------------------------------------------------------------------
(* acquire() that enters at once is ArriveAndServe.                        *)
LEMMA AcquireEnterImplements ==
    ASSUME OwnIds, ImplInv, ImplInv', NEW h \in Handlers, AcquireEnter(h)
    PROVE  LDF!ArriveAndServe(h)
<1> USE DEF ImplInv, QueueInv, TypeOK, Places
<1>1. /\ pc[h] = "out" /\ pc' = [pc EXCEPT ![h] = "turn"]
      /\ me' = [me EXCEPT ![h] = NewTicket(h)]
      /\ seq' = seq + 1 /\ debt' = debt /\ MayEnter(h, NewTicket(h))
  BY DEF AcquireEnter, Enter
<1>2. ~LDF!Waits(h)
  BY <1>1, AbstractQueue DEF InWait
<1>3. HolderOf = Nobody /\ HolderOf' = h
  <2>1. ~active
    BY <1>1 DEF MayEnter
  <2>2. HolderOf = Nobody
    BY <2>1, AbstractHolder
  <2>3. OneTurn' /\ pc'[h] = "turn"
    BY <1>1
  <2>4. HolderOf' = h
    BY <2>3, NobodyAssumption DEF HolderOf, OneTurn
  <2>5. QED
    BY <2>2, <2>4
<1>4. LDF!First(h, LDF!NextTicket(h))
  BY OwnIds, <1>1, NewTicketIsNew, MayEnterIsFirst
<1>5. QueueOf' = QueueOf
  BY <1>1 DEF QueueOf, InWait
<1>6. QED
  BY <1>1, <1>2, <1>3, <1>4, <1>5 DEF LDF!ArriveAndServe

(* acquire() that sleeps is Arrive.                                        *)
LEMMA AcquireSleepImplements ==
    ASSUME OwnIds, ImplInv, NEW h \in Handlers, AcquireSleep(h)
    PROVE  LDF!Arrive(h)
<1> USE DEF ImplInv, QueueInv, TypeOK, Places
<1>1. /\ pc[h] = "out" /\ pc' = [pc EXCEPT ![h] = "asleep"]
      /\ me' = [me EXCEPT ![h] = NewTicket(h)]
      /\ seq' = seq + 1 /\ debt' = debt
      /\ ~MayEnter(h, NewTicket(h))
  BY DEF AcquireSleep
<1>2. active' = active
  BY DEF AcquireSleep
<1>3. ~LDF!Waits(h) /\ HolderOf # h
  BY <1>1, AbstractQueue, AbstractHolder DEF InWait
<1>4. HolderOf # Nobody \/ ~LDF!First(h, LDF!NextTicket(h))
  <2>1. CASE active
    <3>1. PICK g \in Handlers : pc[g] = "turn"
      BY <2>1 DEF OneTurn
    <3>2. QED
      BY <3>1, AbstractHolder, NobodyAssumption
  <2>2. CASE ~active
    BY OwnIds, <1>1, <2>2, NewTicketIsNew, MayEnterIsFirst
  <2>3. QED
    BY <2>1, <2>2
<1>5. QueueOf' = [QueueOf EXCEPT ![h] = LDF!NextTicket(h)]
  BY <1>1, NewTicketIsNew DEF QueueOf, InWait
<1>6. HolderOf' = HolderOf
  <2>1. \A g \in Handlers : pc'[g] = "turn" <=> pc[g] = "turn"
    BY <1>1
  <2>2. (CHOOSE g \in Handlers : pc'[g] = "turn") = (CHOOSE g \in Handlers : pc[g] = "turn")
    BY <2>1
  <2>3. CASE active
    BY <1>2, <2>2, <2>3 DEF HolderOf
  <2>4. CASE ~active
    BY <1>2, <2>4 DEF HolderOf
  <2>5. QED
    BY <2>3, <2>4
<1>7. QED
  BY <1>1, <1>3, <1>4, <1>5, <1>6 DEF LDF!Arrive

(* A woken handler that enters is Serve.                                   *)
LEMMA WakeEnterImplements ==
    ASSUME OwnIds, ImplInv, ImplInv', NEW h \in Handlers, WakeEnter(h)
    PROVE  LDF!Serve(h)
<1> USE DEF ImplInv, QueueInv, TypeOK, Places
<1>1. /\ pc[h] = "awake" /\ pc' = [pc EXCEPT ![h] = "turn"]
      /\ me' = me /\ seq' = seq /\ debt' = debt /\ MayEnter(h, me[h])
  BY DEF WakeEnter, Enter
<1>2. LDF!Waits(h) /\ QueueOf[h] = me[h]
  BY <1>1, AbstractQueue DEF InWait
<1>3. HolderOf = Nobody
  BY <1>1, AbstractHolder DEF MayEnter
<1>4. HolderOf' = h
  <2>1. OneTurn' /\ pc'[h] = "turn"
    BY <1>1
  <2>2. QED
    BY <2>1, NobodyAssumption DEF HolderOf, OneTurn
<1>5. LDF!First(h, QueueOf[h])
  <2>1. \A g \in Handlers \ {h} : InWait(g) => me[g].seq # me[h].seq
    BY <1>1 DEF Numbered, InWait
  <2>2. QED
    BY OwnIds, <1>1, <1>2, <2>1, MayEnterIsFirst
<1>6. QueueOf' = [QueueOf EXCEPT ![h] = NoTicket]
  BY <1>1 DEF QueueOf, InWait
<1>7. QED
  BY <1>1, <1>2, <1>3, <1>4, <1>5, <1>6 DEF LDF!Serve, LDF!NoTicket, NoTicket

(* release() is Finish.                                                    *)
LEMMA ReleaseImplements ==
    ASSUME ImplInv, NEW h \in Handlers, Release(h) PROVE LDF!Finish(h)
<1> USE DEF ImplInv, QueueInv, TypeOK, Places
<1>1. /\ pc[h] = "turn" /\ pc' = [pc EXCEPT ![h] = "notify"]
      /\ me' = me /\ seq' = seq
      /\ debt' = [debt EXCEPT ![ClientOf[h]] = @ + 1]
  BY DEF Release
<1>2. HolderOf = h
  BY <1>1, AbstractHolder
<1>3. HolderOf' = Nobody
  BY DEF Release, HolderOf
<1>4. QueueOf' = QueueOf
  BY <1>1 DEF QueueOf, InWait
<1>5. QED
  BY <1>1, <1>2, <1>3, <1>4 DEF LDF!Finish

(* A wakeup, a failed check of the predicate and notify_all() are steps of *)
(* the implementation only.                                                *)
LEMMA WakingStutters ==
    ASSUME TypeOK, NEW h \in Handlers, WakeSleep(h) \/ SpuriousWake(h) \/ NotifyAll(h)
    PROVE  UNCHANGED LDF!vars
<1> USE DEF TypeOK, Places
<1>1. /\ me' = me /\ seq' = seq /\ debt' = debt
      /\ \A g \in Handlers : /\ InWait(g)' <=> InWait(g)
                             /\ pc'[g] = "turn" <=> pc[g] = "turn"
  BY DEF WakeSleep, SpuriousWake, NotifyAll, InWait
<1>2. active' = active
  BY DEF WakeSleep, SpuriousWake, NotifyAll
<1>3. QueueOf' = QueueOf
  BY <1>1 DEF QueueOf
<1>4. (CHOOSE g \in Handlers : pc'[g] = "turn") = (CHOOSE g \in Handlers : pc[g] = "turn")
  BY <1>1
<1>5. HolderOf' = HolderOf
  <2>1. CASE active
    BY <1>2, <1>4, <2>1 DEF HolderOf
  <2>2. CASE ~active
    BY <1>2, <2>2 DEF HolderOf
  <2>3. QED
    BY <2>1, <2>2
<1>6. QED
  BY <1>1, <1>3, <1>5 DEF LDF!vars

-----------------------------------------------------------------------------
(* Every behaviour of FairQueue, seen through the mapping, is one of the   *)
(* least-debt-first queue.                                                 *)
THEOREM ImplementsLeastDebtFirst == ASSUME OwnIds PROVE Spec => ServesLeastDebtFirst
<1>1. Init => LDF!Init
  <2> SUFFICES ASSUME Init PROVE LDF!Init
    OBVIOUS
  <2>1. QueueOf = [h \in Handlers |-> LDF!NoTicket]
    BY DEF Init, QueueOf, InWait, NoTicket, LDF!NoTicket
  <2>2. HolderOf = Nobody
    BY DEF Init, HolderOf
  <2>3. QED
    BY <2>1, <2>2 DEF Init, LDF!Init
<1>2. ImplInv /\ ImplInv' /\ [Next]_vars => [LDF!Next]_(LDF!vars)
  <2> SUFFICES ASSUME ImplInv, ImplInv', [Next]_vars PROVE [LDF!Next]_(LDF!vars)
    OBVIOUS
  <2>1. ASSUME NEW h \in Handlers, Acquire(h) \/ WakeEnter(h) \/ Release(h)
        PROVE  LDF!Next
    BY OwnIds, <2>1, AcquireEnterImplements, AcquireSleepImplements,
       WakeEnterImplements, ReleaseImplements DEF Acquire, LDF!Next
  <2>2. ASSUME NEW h \in Handlers, WakeSleep(h) \/ SpuriousWake(h) \/ NotifyAll(h)
        PROVE  UNCHANGED LDF!vars
    BY <2>2, WakingStutters DEF ImplInv, QueueInv
  <2>3. ASSUME UNCHANGED vars PROVE UNCHANGED LDF!vars
    <3>1. QueueOf' = QueueOf /\ seq' = seq /\ debt' = debt
      BY <2>3 DEF vars, QueueOf, InWait
    <3>2. HolderOf' = HolderOf
      BY <2>3 DEF vars, HolderOf
    <3>3. QED
      BY <3>1, <3>2 DEF LDF!vars
  <2>4. QED
    BY <2>1, <2>2, <2>3 DEF Next, Step, Recheck
<1>3. QED
  BY OwnIds, <1>1, <1>2, ImplInvariant, PTL DEF Spec, ServesLeastDebtFirst, LDF!Spec
=============================================================================
