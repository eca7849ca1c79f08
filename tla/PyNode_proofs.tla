--------------------------- MODULE PyNode_proofs ---------------------------
(***************************************************************************)
(* What TLAPS checks of PyNode, for any calls, any number of children and  *)
(* any number of workers.                                                  *)
(***************************************************************************)
EXTENDS PyNode, FiniteSetTheorems, TLAPS

(* A handler calls a child that exists.  A call that no worker has taken   *)
(* is before its first child, and a handler that has stored both counters  *)
(* only has its reply left.                                                *)
PlaceInv ==
    /\ \A c \in Calls : At(c, "child") => next[c] <= NumChildren
    /\ \A c \in Calls : call[c] \in {"none", "queued"} => step[c] = "check"
    /\ \A c \in counted : /\ call[c] \notin {"none", "queued"}
                          /\ call[c] \in {"running", "broken"} => step[c] = "reply"

(* What a handler has read, and may store plus one, and what serve has     *)
(* read, are not more than the calls that have stored before.              *)
BoundInv ==
    /\ req_count <= Cardinality(PastCount)
    /\ total_ns <= Cardinality(counted)
    /\ requests <= Cardinality(PastCount)
    /\ \A c \in Calls :
          /\ At(c, "store count") => local[c] <= Cardinality(PastCount)
          /\ At(c, "store time") => local[c] <= Cardinality(counted)

(* With one worker a handler stores what it has just read, plus one.       *)
ExactInv ==
    pool = 1 =>
       /\ req_count = Cardinality(PastCount)
       /\ total_ns = Cardinality(counted)
       /\ \A c \in Calls : /\ At(c, "store count") => local[c] = req_count
                           /\ At(c, "store time") => local[c] = total_ns
       /\ sum <= total_ns
       /\ avg <= 1

NodeInv ==
    /\ TypeOK
    /\ PlaceInv
    /\ BoundInv
    /\ ExactInv

-----------------------------------------------------------------------------
(* A set of calls has a size, and a larger one a size that is no smaller.  *)
LEMMA SizeOfCalls ==
    ASSUME NEW S \in SUBSET Calls, NEW T \in SUBSET S
    PROVE  /\ IsFiniteSet(S) /\ IsFiniteSet(T)
           /\ Cardinality(S) \in Nat /\ Cardinality(T) \in Nat
           /\ Cardinality(T) <= Cardinality(S)
<1>1. IsFiniteSet(Calls)
  BY PyNodeAssumption DEF PyNodeAssumption
<1>2. IsFiniteSet(S)
  BY <1>1, FS_Subset
<1>3. IsFiniteSet(T) /\ Cardinality(T) <= Cardinality(S)
  BY <1>2, FS_Subset
<1>4. QED
  BY <1>2, <1>3, FS_CardinalityType

(* One call more makes the size one more.                                  *)
LEMMA OneMoreCall ==
    ASSUME NEW S \in SUBSET Calls, NEW c \in Calls \ S
    PROVE  Cardinality(S \cup {c}) = Cardinality(S) + 1
BY SizeOfCalls, FS_AddElement

(* With one worker no two handlers run.                                    *)
LEMMA OneRunning ==
    ASSUME TypeOK, pool = 1, NEW c \in Calls, NEW e \in Calls,
           call[c] = "running", call[e] = "running"
    PROVE  c = e
<1>1. SUFFICES ASSUME c # e PROVE FALSE
  OBVIOUS
<1>2. {c, e} \subseteq Running /\ Running \subseteq Calls
  BY DEF Running
<1>3. Cardinality({c, e}) <= 1 /\ Cardinality(Running) <= 1
  BY <1>2, SizeOfCalls DEF TypeOK
<1>4. Cardinality({c}) = 1 /\ {c} \subseteq Calls
  BY FS_Singleton
<1>5. Cardinality({c} \cup {e}) = 2
  BY <1>1, <1>4, OneMoreCall
<1>6. {c} \cup {e} = {c, e}
  OBVIOUS
<1>7. QED
  BY <1>3, <1>5, <1>6

(* PastCount is a set of calls, and has the counted ones.                  *)
LEMMA PastCountIsCalls ==
    ASSUME TypeOK
    PROVE  counted \subseteq PastCount /\ PastCount \subseteq Calls
BY DEF TypeOK, PastCount

-----------------------------------------------------------------------------
(* TypeOK holds at the start.                                              *)
LEMMA TypeOKAtInit == Init => TypeOK
<1> SUFFICES ASSUME Init PROVE TypeOK
  OBVIOUS
<1>1. Running = {}
  BY DEF Init, Running
<1>2. Cardinality(Running) = 0
  BY <1>1, FS_EmptySet
<1>3. Cardinality(Running) <= pool
  BY <1>2, PyNodeAssumption DEF Init, PyNodeAssumption
<1>4. 1 \in 1 .. NumChildren + 1
  BY PyNodeAssumption DEF PyNodeAssumption
<1>5. QED
  BY <1>3, <1>4 DEF Init, TypeOK, Obstacles, Mains, Steps, Results

(* Only Start makes a handler run.                                         *)
LEMMA FewerRunning ==
    ASSUME TypeOK, pool' = pool,
           \A c \in Calls : call'[c] = "running" => call[c] = "running"
    PROVE  Cardinality(Running') <= pool'
<1>1. Running' \subseteq Running /\ Running \subseteq Calls
  BY DEF Running
<1>2. Cardinality(Running') <= Cardinality(Running)
      /\ Cardinality(Running) \in Nat /\ Cardinality(Running') \in Nat
  BY <1>1, SizeOfCalls
<1>3. QED
  BY <1>2, PyNodeAssumption DEF TypeOK, PyNodeAssumption

(* One step of the start or of the shutdown keeps TypeOK.                  *)
LEMMA MainKeepsTypes ==
    ASSUME TypeOK,
           \/ ImportModules \/ ImportMessages \/ ImportStubs \/ Load \/ Bind
           \/ Interrupt \/ Shutdown \/ GraceOver \/ Kill
    PROVE  TypeOK'
<1>1. pool' = pool
  BY DEF ImportModules, ImportMessages, ImportStubs, Load, Bind, Interrupt, Shutdown, ReadSum,
         Divide, PrintStats, Exit, GraceOver, Kill, startVars
<1>2. \A c \in Calls : call'[c] = "running" => call[c] = "running"
  BY DEF ImportModules, ImportMessages, ImportStubs, Load, Bind, Interrupt, Shutdown, ReadSum,
         Divide, PrintStats, Exit, GraceOver, Kill
<1>3. Cardinality(Running') <= pool'
  BY <1>1, <1>2, FewerRunning
<1>4. CASE ImportModules \/ ImportMessages \/ ImportStubs \/ Load \/ Bind
  BY <1>3, <1>4 DEF ImportModules, ImportMessages, ImportStubs, Load, Bind, Advance, TypeOK, Mains,
                    startVars, handlerVars, statVars, printVars
<1>5. CASE Interrupt \/ GraceOver \/ Exit
  BY <1>3, <1>5 DEF Interrupt, GraceOver, Exit, TypeOK, Mains, startVars, handlerVars, statVars,
                    printVars
<1>6. CASE ReadSum \/ PrintStats
  BY <1>3, <1>6 DEF ReadSum, PrintStats, TypeOK, Mains, startVars, handlerVars, statVars, printVars
<1>7. CASE Divide
  <2>1. \A d \in Nat \ {0} : sum \div d \in Nat
    BY DEF TypeOK
  <2>2. avg' \in Nat
    BY <1>7, <2>1 DEF Divide, TypeOK
  <2>3. QED
    BY <1>3, <1>7, <2>2 DEF Divide, TypeOK, Mains, startVars, handlerVars, statVars, printVars
<1>8. CASE Kill
  BY <1>3, <1>8 DEF Kill, TypeOK, Mains, Results, startVars, handlerVars, statVars, printVars
<1>9. QED
  BY <1>4, <1>5, <1>6, <1>7, <1>8 DEF Shutdown

(* So does a step of a call or of its handler.                             *)
LEMMA CallKeepsTypes ==
    ASSUME TypeOK, PlaceInv, NEW c \in Calls, Arrive(c) \/ Hangup(c) \/ Handler(c)
    PROVE  TypeOK'
<1>1. CASE Start(c)
  <2>1. Running' = Running \cup {c} /\ c \notin Running /\ Running \subseteq Calls
    BY <1>1 DEF Start, Running, TypeOK
  <2>2. Cardinality(Running') = Cardinality(Running) + 1 /\ Cardinality(Running) \in Nat
    BY <2>1, OneMoreCall, SizeOfCalls
  <2>3. Cardinality(Running') <= pool'
    BY <1>1, <2>2, PyNodeAssumption DEF Start, startVars, TypeOK, PyNodeAssumption
  <2>4. QED
    BY <1>1, <2>3 DEF Start, TypeOK, startVars, handlerVars, statVars, printVars
<1>2. ASSUME ~Start(c) PROVE Cardinality(Running') <= pool'
  <2>1. pool' = pool
    BY <1>2 DEF Arrive, Hangup, Handler, CheckActive, ChildAnswers, ChildFails, LoopEnds, ReadCount,
                StoreCount, ReadTime, StoreTime, Reply, startVars
  <2>2. \A e \in Calls : call'[e] = "running" => call[e] = "running"
    BY <1>2 DEF Arrive, Hangup, Handler, CheckActive, ChildAnswers, ChildFails, LoopEnds, ReadCount,
                StoreCount, ReadTime, StoreTime, Reply, TypeOK, End
  <2>3. QED
    BY <2>1, <2>2, FewerRunning
<1>3. CASE Arrive(c) /\ ~Start(c)
  BY <1>2, <1>3 DEF Arrive, TypeOK, Results, startVars, handlerVars, statVars, printVars
<1>4. CASE Hangup(c) /\ ~Start(c)
  BY <1>2, <1>4 DEF Hangup, TypeOK, startVars, handlerVars, statVars, printVars
<1>5. CASE (CheckActive(c) \/ ChildFails(c) \/ Reply(c)) /\ ~Start(c)
  BY <1>2, <1>5 DEF CheckActive, ChildFails, Reply, End, TypeOK, Results, Steps, startVars,
                    handlerVars, statVars, printVars
<1>6. CASE ChildAnswers(c) /\ ~Start(c)
  <2>1. next[c] + 1 \in 1 .. NumChildren + 1
    BY <1>6, PyNodeAssumption DEF ChildAnswers, PlaceInv, TypeOK, PyNodeAssumption
  <2>2. QED
    BY <1>2, <1>6, <2>1 DEF ChildAnswers, TypeOK, Steps, startVars, statVars, printVars
<1>7. CASE (LoopEnds(c) \/ ReadCount(c) \/ ReadTime(c)) /\ ~Start(c)
  <2>1. CASE LoopEnds(c)
    BY <1>2, <1>7, <2>1 DEF LoopEnds, TypeOK, Steps, startVars, handlerVars, statVars, printVars
  <2>2. CASE ReadCount(c)
    BY <1>2, <1>7, <2>2 DEF ReadCount, TypeOK, Steps, startVars, handlerVars, statVars, printVars
  <2>3. CASE ReadTime(c)
    BY <1>2, <1>7, <2>3 DEF ReadTime, TypeOK, Steps, startVars, handlerVars, statVars, printVars
  <2>4. QED
    BY <1>7, <2>1, <2>2, <2>3
<1>8. CASE (StoreCount(c) \/ StoreTime(c)) /\ ~Start(c)
  <2>1. local[c] + 1 \in Nat
    BY DEF TypeOK
  <2>2. QED
    BY <1>2, <1>8, <2>1 DEF StoreCount, StoreTime, TypeOK, Steps, startVars, statVars, printVars
<1>9. QED
  BY <1>1, <1>3, <1>4, <1>5, <1>6, <1>7, <1>8 DEF Handler

-----------------------------------------------------------------------------
(* PlaceInv holds at the start, and each step keeps it.                    *)
LEMMA PlaceAtInit == Init => PlaceInv
BY DEF Init, PlaceInv, At

LEMMA PlaceKept ==
    ASSUME TypeOK, PlaceInv, Next
    PROVE  PlaceInv'
<1>1. CASE \/ ImportModules \/ ImportMessages \/ ImportStubs \/ Load \/ Bind
           \/ Interrupt \/ Shutdown \/ GraceOver
  BY <1>1 DEF ImportModules, ImportMessages, ImportStubs, Load, Bind, Interrupt, Shutdown, ReadSum,
              Divide, PrintStats, Exit, GraceOver, PlaceInv, At, handlerVars, statVars
<1>2. CASE Kill
  BY <1>2 DEF Kill, TypeOK, PlaceInv, At, handlerVars, statVars
<1>3. ASSUME NEW c \in Calls, Arrive(c) \/ Hangup(c) \/ Start(c)
      PROVE  PlaceInv'
  BY <1>3 DEF Arrive, Hangup, Start, TypeOK, PlaceInv, At, handlerVars, statVars
<1>4. ASSUME NEW c \in Calls, CheckActive(c) \/ ChildFails(c) \/ Reply(c)
      PROVE  PlaceInv'
  BY <1>4 DEF CheckActive, ChildFails, Reply, End, TypeOK, PlaceInv, At, handlerVars, statVars
<1>5. ASSUME NEW c \in Calls, ChildAnswers(c) \/ LoopEnds(c)
      PROVE  PlaceInv'
  BY <1>5 DEF ChildAnswers, LoopEnds, TypeOK, PlaceInv, At, statVars
<1>6. ASSUME NEW c \in Calls, ReadCount(c) \/ ReadTime(c)
      PROVE  PlaceInv'
  BY <1>6 DEF ReadCount, ReadTime, TypeOK, PlaceInv, At, statVars
<1>7. ASSUME NEW c \in Calls, StoreCount(c) \/ StoreTime(c)
      PROVE  PlaceInv'
  BY <1>7 DEF StoreCount, StoreTime, TypeOK, PlaceInv, At
<1>8. QED
  BY <1>1, <1>2, <1>3, <1>4, <1>5, <1>6, <1>7 DEF Next, Handler

-----------------------------------------------------------------------------
(* The handlers that store a counter are added to the calls that have, and *)
(* no call is taken from them: a handler is killed, but does not go back.  *)
LEMMA CountedGrows ==
    ASSUME TypeOK, PlaceInv, Next, \A c \in Calls : ~StoreCount(c) /\ ~StoreTime(c)
    PROVE  PastCount' = PastCount /\ counted' = counted
<1>1. CASE \/ ImportModules \/ ImportMessages \/ ImportStubs \/ Load \/ Bind
           \/ Interrupt \/ Shutdown \/ GraceOver
  BY <1>1 DEF ImportModules, ImportMessages, ImportStubs, Load, Bind, Interrupt, Shutdown, ReadSum,
              Divide, PrintStats, Exit, GraceOver, PastCount, handlerVars, statVars
<1>2. CASE Kill
  <2>1. counted' = counted /\ step' = step
    BY <1>2 DEF Kill, handlerVars, statVars
  <2>2. ASSUME NEW c \in Calls, step[c] \in {"time", "store time"}
        PROVE  call'[c] \in {"running", "broken"} <=> call[c] \in {"running", "broken"}
    BY <1>2, <2>2 DEF Kill, PlaceInv
  <2>3. QED
    BY <2>1, <2>2 DEF PastCount
<1>3. ASSUME NEW c \in Calls, Arrive(c) \/ Hangup(c) \/ Start(c)
      PROVE  PastCount' = PastCount /\ counted' = counted
  <2>1. counted' = counted /\ step' = step
    BY <1>3 DEF Arrive, Hangup, Start, handlerVars, statVars
  <2>2. ASSUME NEW e \in Calls, step[e] \in {"time", "store time"}
        PROVE  call'[e] \in {"running", "broken"} <=> call[e] \in {"running", "broken"}
    BY <1>3, <2>2 DEF Arrive, Hangup, Start, TypeOK, PlaceInv
  <2>3. QED
    BY <2>1, <2>2 DEF PastCount
<1>4. ASSUME NEW c \in Calls, CheckActive(c) \/ ChildFails(c) \/ Reply(c)
      PROVE  PastCount' = PastCount /\ counted' = counted
  <2>1. counted' = counted
    BY <1>4 DEF CheckActive, ChildFails, Reply, statVars
  <2>2. ASSUME NEW e \in Calls
        PROVE  (call'[e] \in {"running", "broken"} /\ step'[e] \in {"time", "store time"})
               <=> (call[e] \in {"running", "broken"} /\ step[e] \in {"time", "store time"})
    BY <1>4, <2>2 DEF CheckActive, ChildFails, Reply, End, At, TypeOK, handlerVars
  <2>3. QED
    BY <2>1, <2>2 DEF PastCount
<1>5. ASSUME NEW c \in Calls, ChildAnswers(c) \/ LoopEnds(c) \/ ReadCount(c) \/ ReadTime(c)
      PROVE  PastCount' = PastCount /\ counted' = counted
  <2>1. counted' = counted /\ call' = call
    BY <1>5 DEF ChildAnswers, LoopEnds, ReadCount, ReadTime, statVars
  <2>2. ASSUME NEW e \in Calls
        PROVE  step'[e] \in {"time", "store time"} <=> step[e] \in {"time", "store time"}
    BY <1>5, <2>2 DEF ChildAnswers, LoopEnds, ReadCount, ReadTime, At, TypeOK
  <2>3. QED
    BY <2>1, <2>2 DEF PastCount
<1>6. QED
  BY <1>1, <1>2, <1>3, <1>4, <1>5 DEF Next, Handler

(* StoreCount adds its call to PastCount, StoreTime to counted.            *)
LEMMA StoreCountAdds ==
    ASSUME TypeOK, PlaceInv, NEW c \in Calls, StoreCount(c)
    PROVE  /\ c \notin PastCount /\ PastCount' = PastCount \cup {c} /\ counted' = counted
           /\ Cardinality(PastCount') = Cardinality(PastCount) + 1
<1>1. call[c] = "running" /\ step[c] = "store count" /\ call' = call /\ counted' = counted
  BY DEF StoreCount, At
<1>2. step' = [step EXCEPT ![c] = "time"]
  BY DEF StoreCount
<1>3. c \notin PastCount
  BY <1>1 DEF PastCount, PlaceInv
<1>4. PastCount' = PastCount \cup {c}
  BY <1>1, <1>2 DEF PastCount, TypeOK
<1>5. QED
  BY <1>1, <1>3, <1>4, PastCountIsCalls, OneMoreCall

LEMMA StoreTimeAdds ==
    ASSUME TypeOK, PlaceInv, NEW c \in Calls, StoreTime(c)
    PROVE  /\ c \notin counted /\ counted' = counted \cup {c} /\ PastCount' = PastCount
           /\ Cardinality(counted') = Cardinality(counted) + 1
<1>1. call[c] = "running" /\ step[c] = "store time" /\ call' = call
      /\ counted' = counted \cup {c}
  BY DEF StoreTime, At
<1>2. step' = [step EXCEPT ![c] = "reply"]
  BY DEF StoreTime
<1>3. c \notin counted
  BY <1>1 DEF PlaceInv
<1>4. PastCount' = PastCount
  BY <1>1, <1>2 DEF PastCount, TypeOK
<1>5. QED
  BY <1>1, <1>3, <1>4, OneMoreCall DEF TypeOK

-----------------------------------------------------------------------------
(* The sizes of the two sets are numbers, PastCount has the larger one.    *)
LEMMA CountSizes ==
    ASSUME TypeOK
    PROVE  /\ Cardinality(PastCount) \in Nat /\ Cardinality(counted) \in Nat
           /\ Cardinality(counted) <= Cardinality(PastCount)
BY PastCountIsCalls, SizeOfCalls

(* A handler that is about to store has read the counter, in this step or  *)
(* before.                                                                 *)
LEMMA LocalIsRead ==
    ASSUME TypeOK, PlaceInv, Next, NEW c \in Calls
    PROVE  /\ At(c, "store count")' =>
                  \/ At(c, "store count") /\ ~StoreCount(c) /\ local'[c] = local[c]
                  \/ ReadCount(c) /\ local'[c] = req_count
           /\ At(c, "store time")' =>
                  \/ At(c, "store time") /\ ~StoreTime(c) /\ local'[c] = local[c]
                  \/ ReadTime(c) /\ local'[c] = total_ns
<1> DEFINE Claim ==
      /\ At(c, "store count")' =>
             \/ At(c, "store count") /\ ~StoreCount(c) /\ local'[c] = local[c]
             \/ ReadCount(c) /\ local'[c] = req_count
      /\ At(c, "store time")' =>
             \/ At(c, "store time") /\ ~StoreTime(c) /\ local'[c] = local[c]
             \/ ReadTime(c) /\ local'[c] = total_ns
<1>1. At(c, "store count")' => ~StoreCount(c)
  BY DEF StoreCount, At, TypeOK
<1>2. At(c, "store time")' => ~StoreTime(c)
  BY DEF StoreTime, At, TypeOK
<1>3. CASE \/ ImportModules \/ ImportMessages \/ ImportStubs \/ Load \/ Bind
           \/ Interrupt \/ Shutdown \/ GraceOver \/ Kill
  <2>1. local' = local /\ step' = step
    BY <1>3 DEF ImportModules, ImportMessages, ImportStubs, Load, Bind, Interrupt, Shutdown, ReadSum,
                Divide, PrintStats, Exit, GraceOver, Kill, handlerVars
  <2>2. call'[c] = "running" => call[c] = "running"
    BY <1>3 DEF ImportModules, ImportMessages, ImportStubs, Load, Bind, Interrupt, Shutdown, ReadSum,
                Divide, PrintStats, Exit, GraceOver, Kill
  <2>3. QED
    BY <1>1, <1>2, <2>1, <2>2 DEF At
<1>4. ASSUME NEW e \in Calls, Arrive(e) \/ Hangup(e) \/ Start(e) PROVE Claim
  <2>1. local' = local /\ step' = step
    BY <1>4 DEF Arrive, Hangup, Start, handlerVars
  <2>2. call'[c] = "running" /\ step[c] # "check" => call[c] = "running"
    BY <1>4 DEF Arrive, Hangup, Start, TypeOK, PlaceInv
  <2>3. QED
    BY <1>1, <1>2, <2>1, <2>2 DEF At
<1>5. ASSUME NEW e \in Calls,
             CheckActive(e) \/ ChildAnswers(e) \/ ChildFails(e) \/ LoopEnds(e) \/ Reply(e)
      PROVE  Claim
  <2>1. local' = local
    BY <1>5 DEF CheckActive, ChildAnswers, ChildFails, LoopEnds, Reply, handlerVars
  <2>2. /\ At(c, "store count")' => At(c, "store count")
        /\ At(c, "store time")' => At(c, "store time")
    BY <1>5 DEF CheckActive, ChildAnswers, ChildFails, LoopEnds, Reply, End, At, TypeOK, handlerVars
  <2>3. QED
    BY <1>1, <1>2, <2>1, <2>2
<1>6. ASSUME NEW e \in Calls, ReadCount(e) \/ ReadTime(e) PROVE Claim
  <2>1. CASE e = c
    BY <1>6, <2>1 DEF ReadCount, ReadTime, At, TypeOK
  <2>2. CASE e # c
    <3>1. local'[c] = local[c] /\ step'[c] = step[c] /\ call'[c] = call[c]
      BY <1>6, <2>2 DEF ReadCount, ReadTime, TypeOK
    <3>2. QED
      BY <1>1, <1>2, <3>1 DEF At
  <2>3. QED
    BY <2>1, <2>2
<1>7. ASSUME NEW e \in Calls, StoreCount(e) \/ StoreTime(e) PROVE Claim
  <2>1. local' = local /\ call' = call
    BY <1>7 DEF StoreCount, StoreTime
  <2>2. /\ At(c, "store count")' => At(c, "store count")
        /\ At(c, "store time")' => At(c, "store time")
    BY <1>7 DEF StoreCount, StoreTime, At, TypeOK
  <2>3. QED
    BY <1>1, <1>2, <2>1, <2>2
<1>8. QED
  BY <1>3, <1>4, <1>5, <1>6, <1>7 DEF Next, Handler

(* The counters change where they are stored, and what serve reads is what *)
(* they are then.                                                          *)
LEMMA CountersStored ==
    ASSUME TypeOK, Next
    PROVE  /\ pool' = pool
           /\ (\A c \in Calls : ~StoreCount(c)) => req_count' = req_count
           /\ (\A c \in Calls : ~StoreTime(c)) => total_ns' = total_ns
           /\ requests' \in {requests, req_count}
           /\ sum' \in {sum, total_ns}
           /\ avg' = avg \/ (Divide /\ avg' = sum \div (IF req_count > 1 THEN req_count ELSE 1))
<1>1. CASE \/ ImportModules \/ ImportMessages \/ ImportStubs \/ Load \/ Bind
           \/ Interrupt \/ Shutdown \/ GraceOver \/ Kill
  BY <1>1 DEF ImportModules, ImportMessages, ImportStubs, Load, Bind, Interrupt, Shutdown, ReadSum,
              Divide, PrintStats, Exit, GraceOver, Kill, startVars, statVars, printVars
<1>2. ASSUME NEW c \in Calls, Arrive(c) \/ Hangup(c) \/ Handler(c)
      PROVE  /\ pool' = pool /\ UNCHANGED <<sum, avg, requests>>
             /\ ~StoreCount(c) => req_count' = req_count
             /\ ~StoreTime(c) => total_ns' = total_ns
  BY <1>2 DEF Arrive, Hangup, Handler, Start, CheckActive, ChildAnswers, ChildFails, LoopEnds,
              ReadCount, StoreCount, ReadTime, StoreTime, Reply, startVars, statVars, printVars
<1>3. QED
  BY <1>1, <1>2 DEF Next

-----------------------------------------------------------------------------
(* Each step keeps the bounds: a store adds one to what was read, and adds *)
(* its call to those that have stored.                                     *)
LEMMA BoundKept ==
    ASSUME TypeOK, PlaceInv, BoundInv, Next
    PROVE  BoundInv'
<1> DEFINE P == Cardinality(PastCount)
           T == Cardinality(counted)
<1> HIDE DEF P, T
<1>1. P \in Nat /\ T \in Nat
  BY CountSizes DEF P, T
<1>2. /\ req_count \in Nat /\ total_ns \in Nat /\ requests \in Nat
      /\ \A c \in Calls : local[c] \in Nat
      /\ req_count <= P /\ total_ns <= T
  BY DEF TypeOK, BoundInv, P, T
<1>3. \A c \in Calls : /\ At(c, "store count")' => local'[c] <= P
                       /\ At(c, "store time")' => local'[c] <= T
  BY LocalIsRead DEF BoundInv, P, T
<1>4. requests' <= P
  BY CountersStored DEF BoundInv, P, T
<1>5. ASSUME P' \in Nat, P <= P', T' \in Nat, T <= T', req_count' <= P', total_ns' <= T'
      PROVE  BoundInv'
  <2>1. \A c \in Calls : /\ At(c, "store count")' => local'[c] \in Nat
                         /\ At(c, "store time")' => local'[c] \in Nat
    BY <1>2, LocalIsRead
  <2>2. requests' \in Nat
    BY <1>2, CountersStored
  <2>3. requests' <= P'
    BY <1>1, <1>4, <1>5, <2>2
  <2>4. ASSUME NEW c \in Calls, At(c, "store count")' PROVE local'[c] <= P'
    <3>1. local'[c] \in Nat /\ local'[c] <= P
      BY <1>3, <2>1, <2>4
    <3>2. QED
      BY <1>1, <1>5, <3>1
  <2>5. ASSUME NEW c \in Calls, At(c, "store time")' PROVE local'[c] <= T'
    <3>1. local'[c] \in Nat /\ local'[c] <= T
      BY <1>3, <2>1, <2>5
    <3>2. QED
      BY <1>1, <1>5, <3>1
  <2>6. QED
    BY <1>5, <2>3, <2>4, <2>5 DEF BoundInv, P, T
<1>6. CASE \A c \in Calls : ~StoreCount(c) /\ ~StoreTime(c)
  <2>1. P' = P /\ T' = T
    BY <1>6, CountedGrows DEF P, T
  <2>2. req_count' = req_count /\ total_ns' = total_ns
    BY <1>6, CountersStored
  <2>3. req_count' <= P' /\ total_ns' <= T'
    BY <1>2, <2>1, <2>2
  <2>4. QED
    BY <1>1, <1>5, <2>1, <2>3
<1>7. ASSUME NEW c \in Calls, StoreCount(c) PROVE BoundInv'
  <2>1. P' = P + 1 /\ T' = T
    BY <1>7, StoreCountAdds DEF P, T
  <2>2. req_count' = local[c] + 1 /\ total_ns' = total_ns /\ local[c] <= P
    BY <1>7 DEF StoreCount, BoundInv, P, T
  <2>3. req_count' <= P' /\ total_ns' <= T'
    BY <1>1, <1>2, <2>1, <2>2
  <2>4. QED
    BY <1>1, <1>5, <2>1, <2>3
<1>8. ASSUME NEW c \in Calls, StoreTime(c) PROVE BoundInv'
  <2>1. P' = P /\ T' = T + 1
    BY <1>8, StoreTimeAdds DEF P, T
  <2>2. total_ns' = local[c] + 1 /\ req_count' = req_count /\ local[c] <= T
    BY <1>8 DEF StoreTime, BoundInv, P, T
  <2>3. req_count' <= P' /\ total_ns' <= T'
    BY <1>1, <1>2, <2>1, <2>2
  <2>4. QED
    BY <1>1, <1>5, <2>1, <2>3
<1>9. QED
  BY <1>6, <1>7, <1>8

(* No time is counted more than once per call counted: the average of a    *)
(* sum that is not more than the count is one at most.                     *)
LEMMA AverageAtMostOne ==
    ASSUME NEW s \in Nat, NEW d \in Nat, s <= d
    PROVE  s \div (IF d > 1 THEN d ELSE 1) <= 1
<1> DEFINE e == IF d > 1 THEN d ELSE 1
           q == s \div e
<1>1. e \in Nat /\ e >= 1 /\ s <= e
  OBVIOUS
<1>2. q \in Nat /\ e * q <= s
  BY <1>1
<1>3. ASSUME q >= 2 PROVE FALSE
  <2>1. e * q >= e * 2
    BY <1>1, <1>2, <1>3
  <2>2. QED
    BY <1>1, <1>2, <2>1
<1>4. QED
  BY <1>2, <1>3

(* With one worker nothing comes between a handler's read and its store,   *)
(* so each step keeps the counters exact, and the average not more than 1. *)
LEMMA ExactKept ==
    ASSUME TypeOK, PlaceInv, ExactInv, Next
    PROVE  ExactInv'
<1> DEFINE P == Cardinality(PastCount)
           T == Cardinality(counted)
           Fresh == \A e \in Calls : /\ At(e, "store count") => local[e] = req_count
                                     /\ At(e, "store time") => local[e] = total_ns
<1> HIDE DEF P, T, Fresh
<1>1. SUFFICES ASSUME pool = 1
               PROVE  ExactInv'
  BY CountersStored DEF ExactInv, P, T, Fresh
<1>2. P \in Nat /\ T \in Nat /\ T <= P
  BY CountSizes DEF P, T
<1>3. req_count = P /\ total_ns = T /\ Fresh /\ sum <= total_ns /\ avg <= 1
  BY <1>1 DEF ExactInv, P, T, Fresh
<1>4. sum \in Nat
  BY DEF TypeOK
<1>5. sum' <= T /\ sum' \in Nat
  <2>1. sum' \in {sum, total_ns}
    BY CountersStored
  <2>2. QED
    BY <1>2, <1>3, <1>4, <2>1
<1>6. avg' <= 1
  <2>1. req_count \in Nat /\ sum <= req_count
    BY <1>2, <1>3, <1>4
  <2>2. sum \div (IF req_count > 1 THEN req_count ELSE 1) <= 1
    BY <1>4, <2>1, AverageAtMostOne
  <2>3. QED
    BY <1>3, <2>2, CountersStored
<1>7. CASE \A c \in Calls : ~StoreCount(c) /\ ~StoreTime(c)
  <2>1. P' = P /\ T' = T
    BY <1>7, CountedGrows DEF P, T
  <2>2. req_count' = req_count /\ total_ns' = total_ns
    BY <1>7, CountersStored
  <2>3. Fresh'
    BY <1>3, <2>2, LocalIsRead DEF Fresh
  <2>4. QED
    BY <1>3, <1>5, <1>6, <2>1, <2>2, <2>3 DEF ExactInv, P, T, Fresh
<1>8. ASSUME NEW c \in Calls, StoreCount(c) PROVE ExactInv'
  <2>1. P' = P + 1 /\ T' = T
    BY <1>8, StoreCountAdds DEF P, T
  <2>2. call[c] = "running" /\ local[c] = req_count
    BY <1>3, <1>8 DEF StoreCount, At, Fresh
  <2>3. req_count' = local[c] + 1 /\ total_ns' = total_ns
    BY <1>8 DEF StoreCount
  <2>4. ASSUME NEW e \in Calls, At(e, "store count")' \/ At(e, "store time")'
        PROVE  FALSE
    <3>1. call[e] = "running" /\ step'[e] \in {"store count", "store time"}
      BY <1>8, <2>4 DEF StoreCount, At, Fresh
    <3>2. e = c
      BY <1>1, <2>2, <3>1, OneRunning
    <3>3. QED
      BY <1>8, <3>1, <3>2 DEF StoreCount, TypeOK
  <2>5. QED
    BY <1>3, <1>5, <1>6, <2>1, <2>2, <2>3, <2>4 DEF ExactInv, P, T, Fresh
<1>9. ASSUME NEW c \in Calls, StoreTime(c) PROVE ExactInv'
  <2>1. P' = P /\ T' = T + 1
    BY <1>9, StoreTimeAdds DEF P, T
  <2>2. call[c] = "running" /\ local[c] = total_ns
    BY <1>3, <1>9 DEF StoreTime, At, Fresh
  <2>3. total_ns' = local[c] + 1 /\ req_count' = req_count
    BY <1>9 DEF StoreTime
  <2>4. ASSUME NEW e \in Calls, At(e, "store count")' \/ At(e, "store time")'
        PROVE  FALSE
    <3>1. call[e] = "running" /\ step'[e] \in {"store count", "store time"}
      BY <1>9, <2>4 DEF StoreTime, At, Fresh
    <3>2. e = c
      BY <1>1, <2>2, <3>1, OneRunning
    <3>3. QED
      BY <1>9, <3>1, <3>2 DEF StoreTime, TypeOK
  <2>5. sum' <= total_ns'
    BY <1>2, <1>3, <1>5, <2>2, <2>3
  <2>6. QED
    BY <1>3, <1>6, <2>1, <2>2, <2>3, <2>4, <2>5 DEF ExactInv, P, T, Fresh
<1>10. QED
  BY <1>7, <1>8, <1>9

-----------------------------------------------------------------------------
(* The inductive invariant holds at the start.                             *)
LEMMA NodeInvAtInit == Init => NodeInv
<1> SUFFICES ASSUME Init PROVE NodeInv
  OBVIOUS
<1>1. TypeOK /\ PlaceInv
  BY TypeOKAtInit, PlaceAtInit
<1>2. counted = {} /\ PastCount = {} /\ \A c \in Calls : step[c] = "check"
  BY DEF Init, PastCount
<1>3. Cardinality(counted) = 0 /\ Cardinality(PastCount) = 0
  BY <1>2, FS_EmptySet
<1>4. QED
  BY <1>1, <1>2, <1>3 DEF Init, NodeInv, BoundInv, ExactInv, At

(* Each step keeps it, and so does a stutter.                              *)
LEMMA NodeInvKept == NodeInv /\ [Next]_vars => NodeInv'
<1> SUFFICES ASSUME NodeInv, [Next]_vars PROVE NodeInv'
  OBVIOUS
<1>1. CASE Next
  <2>1. TypeOK'
    BY <1>1, MainKeepsTypes, CallKeepsTypes DEF Next, NodeInv
  <2>2. PlaceInv' /\ BoundInv' /\ ExactInv'
    BY <1>1, PlaceKept, BoundKept, ExactKept DEF NodeInv
  <2>3. QED
    BY <2>1, <2>2 DEF NodeInv
<1>2. CASE UNCHANGED vars
  BY <1>2 DEF vars, startVars, handlerVars, statVars, printVars, NodeInv, TypeOK, PlaceInv,
              BoundInv, ExactInv, PastCount, Running, At
<1>3. QED
  BY <1>1, <1>2

(* TypeOK: among the types, no more handlers run than max_workers.         *)
THEOREM PyNodeTypes == Spec => []TypeOK
<1>1. NodeInv => TypeOK
  BY DEF NodeInv
<1>2. QED
  BY <1>1, NodeInvAtInit, NodeInvKept, PTL DEF Spec

(* StatsNotOverstated: whatever increments overlapping handlers lose, the  *)
(* counters claim no call and no time that was not, also when the process  *)
(* is interrupted in the middle of handlers; with one worker they are      *)
(* exact, and the average that serve prints is not more than a call takes. *)
THEOREM PyNodeStats == Spec => []StatsNotOverstated
<1>1. NodeInv => StatsNotOverstated
  BY DEF NodeInv, BoundInv, ExactInv, StatsNotOverstated
<1>2. QED
  BY <1>1, NodeInvAtInit, NodeInvKept, PTL DEF Spec

=============================================================================
