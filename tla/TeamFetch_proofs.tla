-------------------------- MODULE TeamFetch_proofs --------------------------
(***************************************************************************)
(* What TLAPS checks of TeamFetch, for every tree, any number of gathers   *)
(* and of faults.                                                          *)
(***************************************************************************)
EXTENDS TeamFetch, TLAPS

(* A handler runs only for a call that was made.                           *)
Served == \A a \in Attempts, n \in Nodes : serve[a][n] # "none" => call[a][n] # "none"

(* A child is skipped only for a caller that no longer listens.            *)
SkippedUnheard ==
    \A a \in Attempts, n \in Nodes : \A c \in Kids(n) :
        call[a][c] = "skipped" => call[a][n] \notin {"none", "open"}

(* Only an answer that says OK has segments.                               *)
NoLooseSegments ==
    \A a \in Attempts, n \in Nodes : call[a][n] # "ok" => segs[a][n] = <<>>

(* The leader gathers one at a time.                                       *)
OneAtATime ==
    \A a, b \in Attempts :
        a < b /\ call[b][Root] # "none" => call[a][Root] \in {"ok", "failed"}

FetchInv ==
    /\ TypeOK
    /\ Served
    /\ SkippedUnheard
    /\ NoLooseSegments
    /\ OneAtATime
    /\ CompleteReply

-----------------------------------------------------------------------------
(* One entry of a table by attempt and node changes.                       *)
LEMMA Entry ==
    ASSUME NEW S, NEW f \in [Attempts -> [Nodes -> S]], NEW x \in S,
           NEW a \in Attempts, NEW n \in Nodes
    PROVE  LET g == [f EXCEPT ![a][n] = x]
           IN  /\ g \in [Attempts -> [Nodes -> S]]
               /\ g[a][n] = x
               /\ \A b \in Attempts, m \in Nodes :
                      b # a \/ m # n => g[b][m] = f[b][m]
OBVIOUS

(* Children are nodes other than A.                                        *)
LEMMA KidsAreNodes ==
    ASSUME NEW n \in Nodes PROVE Kids(n) \subseteq Nodes \ {Root}
<1>1. \A i \in DOMAIN Children[n] : Children[n][i] \in Nodes
  BY TreeAssumption DEF TreeAssumption
<1>2. QED
  BY <1>1, TreeAssumption DEF TreeAssumption, Kids

(* Complete replies of the children make a complete reply of the node.     *)
LEMMA BelowIsWhole ==
    ASSUME TypeOK, NEW a \in Attempts, NEW n \in Nodes,
           \A c \in Kids(n) : segs[a][c] = Whole[c]
    PROVE  Own(n) \o Below(n, segs[a]) = Whole[n]
<1>1. \A i \in DOMAIN Children[n] : segs[a][Children[n][i]] = Whole[Children[n][i]]
  BY DEF Kids
<1>2. [i \in DOMAIN Children[n] |-> segs[a][Children[n][i]]]
        = [i \in DOMAIN Children[n] |-> Whole[Children[n][i]]]
  BY <1>1
<1>3. Below(n, segs[a]) = Below(n, Whole)
  BY <1>2 DEF Below
<1>4. QED
  BY <1>3, TreeAssumption DEF TreeAssumption

(* The invariant of the tree holds at first.                               *)
LEMMA InitHolds == Init => FetchInv
<1> SUFFICES ASSUME Init PROVE FetchInv
  OBVIOUS
<1>1. TypeOK
  BY TreeAssumption DEF TreeAssumption, Init, TypeOK, CallStates, ServeStates
<1>2. Served /\ SkippedUnheard /\ NoLooseSegments /\ OneAtATime /\ CompleteReply
  <2>1. \A a \in Attempts, n \in Nodes : call[a][n] = "none" /\ serve[a][n] = "none"
    BY DEF Init
  <2>2. \A a \in Attempts, n \in Nodes : segs[a][n] = <<>>
    BY DEF Init
  <2>3. Root \in Nodes
    BY TreeAssumption DEF TreeAssumption
  <2>4. \A n \in Nodes : Kids(n) \subseteq Nodes
    BY KidsAreNodes
  <2>5. QED
    BY <2>1, <2>2, <2>3, <2>4
       DEF Served, SkippedUnheard, NoLooseSegments, OneAtATime, CompleteReply
<1>3. QED
  BY <1>1, <1>2 DEF FetchInv

-----------------------------------------------------------------------------
(* What a step may do to the call to a node and to its reply.              *)
Heard(b, m) ==
    /\ call[b][m] = "open"
    /\ \A c \in Kids(m) : call[b][c] \notin {"none", "open", "failed"}
    /\ segs'[b][m] = Own(m) \o Below(m, segs[b])

CallStep(b, m) ==
    /\ call[b][m] # "none" => call'[b][m] # "none"
    /\ call[b][m] \notin {"none", "open"} =>
           call'[b][m] = call[b][m] /\ segs'[b][m] = segs[b][m]
    /\ serve'[b][m] # "none" => serve[b][m] # "none" \/ call'[b][m] # "none"
    /\ call'[b][m] = "skipped" =>
           \/ call[b][m] = "skipped"
           \/ \E n \in Nodes : m \in Kids(n) /\ Running(b, n) /\ Cancelled(b, n)
    /\ call'[b][m] # "ok" => segs'[b][m] \in {segs[b][m], <<>>}
    /\ call'[b][m] = "ok" => call[b][m] = "ok" \/ Heard(b, m)
    /\ call'[b][m] # "none" =>
           \/ call[b][m] # "none"
           \/ m # Root
           \/ \A a \in 1 .. b - 1 : call[a][Root] \in {"ok", "failed"}

Quiet(b, m) ==
    /\ call'[b][m] = call[b][m] /\ segs'[b][m] = segs[b][m]
    /\ serve'[b][m] # "none" => serve[b][m] # "none"

(* A call that nothing happens to makes an allowed step.                   *)
LEMMA QuietIsCallStep ==
    ASSUME NEW b \in Attempts, NEW m \in Nodes, Quiet(b, m) PROVE CallStep(b, m)
BY DEF Quiet, CallStep

(* Begin keeps types, and makes allowed steps only.                        *)
LEMMA BeginStep ==
    ASSUME TypeOK, NEW a \in Attempts, Begin(a)
    PROVE  TypeOK' /\ \A b \in Attempts, m \in Nodes : CallStep(b, m)
<1>1. Root \in Nodes
  BY TreeAssumption DEF TreeAssumption
<1>2. /\ call' \in [Attempts -> [Nodes -> CallStates]]
      /\ call'[a][Root] = "open"
      /\ \A b \in Attempts, m \in Nodes : b # a \/ m # Root => call'[b][m] = call[b][m]
  <2>1. "open" \in CallStates
    BY DEF CallStates
  <2>2. QED
    BY <1>1, <2>1, Entry DEF Begin, TypeOK
<1>3. /\ serve' \in [Attempts -> [Nodes -> ServeStates]]
      /\ \A b \in Attempts, m \in Nodes : b # a \/ m # Root => serve'[b][m] = serve[b][m]
  <2>1. "running" \in ServeStates
    BY DEF ServeStates
  <2>2. QED
    BY <1>1, <2>1, Entry DEF Begin, TypeOK
<1>4. TypeOK'
  BY <1>2, <1>3 DEF Begin, TypeOK
<1>5. CallStep(a, Root)
  BY <1>2, <1>3 DEF CallStep, Begin
<1>6. \A b \in Attempts, m \in Nodes : b # a \/ m # Root => Quiet(b, m)
  BY <1>2, <1>3 DEF Quiet, Begin
<1>7. QED
  BY <1>4, <1>5, <1>6, QuietIsCallStep

(* A call that reaches the child makes allowed steps only.                 *)
LEMMA CallChildStep ==
    ASSUME TypeOK, NEW a \in Attempts, NEW n \in Nodes, NEW c \in Nodes,
           CallChild(a, n, c)
    PROVE  TypeOK' /\ \A b \in Attempts, m \in Nodes : CallStep(b, m)
<1>1. c # Root /\ call[a][c] = "none"
  BY KidsAreNodes DEF CallChild, MayCall
<1>2. /\ call' \in [Attempts -> [Nodes -> CallStates]]
      /\ call'[a][c] = "open"
      /\ \A b \in Attempts, m \in Nodes : b # a \/ m # c => call'[b][m] = call[b][m]
  <2>1. "open" \in CallStates
    BY DEF CallStates
  <2>2. QED
    BY <2>1, Entry DEF CallChild, TypeOK
<1>3. /\ serve' \in [Attempts -> [Nodes -> ServeStates]]
      /\ \A b \in Attempts, m \in Nodes : b # a \/ m # c => serve'[b][m] = serve[b][m]
  <2> DEFINE s == IF c \in Python THEN "queued" ELSE "running"
  <2>1. s \in ServeStates
    BY DEF ServeStates
  <2>2. serve' = [serve EXCEPT ![a][c] = s]
    BY DEF CallChild
  <2> HIDE DEF s
  <2>3. QED
    BY <2>1, <2>2, Entry DEF TypeOK
<1>4. TypeOK'
  BY <1>2, <1>3 DEF CallChild, TypeOK
<1>5. CallStep(a, c)
  BY <1>1, <1>2 DEF CallStep, CallChild
<1>6. \A b \in Attempts, m \in Nodes : b # a \/ m # c => Quiet(b, m)
  BY <1>2, <1>3 DEF Quiet, CallChild
<1>7. QED
  BY <1>4, <1>5, <1>6, QuietIsCallStep

(* The call to one node fails or is skipped; nothing else happens to the   *)
(* calls and the handlers.                                                 *)
LEMMA CallEndsStep ==
    ASSUME TypeOK, NEW a \in Attempts, NEW c \in Nodes, NEW st \in {"failed", "skipped"},
           call' = [call EXCEPT ![a][c] = st], UNCHANGED <<serve, segs>>,
           call[a][c] \in {"none", "open"}, c # Root \/ call[a][c] = "open",
           st = "skipped" =>
             \E n \in Nodes : c \in Kids(n) /\ Running(a, n) /\ Cancelled(a, n)
    PROVE  /\ call' \in [Attempts -> [Nodes -> CallStates]]
           /\ \A b \in Attempts, m \in Nodes : CallStep(b, m)
<1>1. /\ call' \in [Attempts -> [Nodes -> CallStates]]
      /\ call'[a][c] = st
      /\ \A b \in Attempts, m \in Nodes : b # a \/ m # c => call'[b][m] = call[b][m]
  <2>1. st \in CallStates
    BY DEF CallStates
  <2>2. QED
    BY <2>1, Entry DEF TypeOK
<1>2. CallStep(a, c)
  BY <1>1 DEF CallStep
<1>3. \A b \in Attempts, m \in Nodes : b # a \/ m # c => Quiet(b, m)
  BY <1>1 DEF Quiet
<1>4. QED
  BY <1>1, <1>2, <1>3, QuietIsCallStep

(* So does a handler that ends, if its reply is complete.                  *)
LEMMA EndWithStep ==
    ASSUME TypeOK, NEW a \in Attempts, NEW n \in Nodes, NEW st \in {"ok", "failed"},
           NEW reply \in Seq(Nodes), Running(a, n), EndWith(a, n, st, reply),
           st = "failed" => reply = <<>>,
           st = "ok" =>
               /\ \A c \in Kids(n) : call[a][c] \notin {"none", "open", "failed"}
               /\ reply = Own(n) \o Below(n, segs[a])
    PROVE  TypeOK' /\ \A b \in Attempts, m \in Nodes : CallStep(b, m)
<1>1. /\ serve' \in [Attempts -> [Nodes -> ServeStates]]
      /\ \A b \in Attempts, m \in Nodes : b # a \/ m # n => serve'[b][m] = serve[b][m]
  <2>1. "done" \in ServeStates
    BY DEF ServeStates
  <2>2. QED
    BY <2>1, Entry DEF EndWith, TypeOK
<1>2. ASSUME call[a][n] = "open"
      PROVE  TypeOK' /\ \A b \in Attempts, m \in Nodes : CallStep(b, m)
  <2>1. /\ call' \in [Attempts -> [Nodes -> CallStates]]
        /\ call'[a][n] = st
        /\ \A b \in Attempts, m \in Nodes : b # a \/ m # n => call'[b][m] = call[b][m]
    <3>1. st \in CallStates
      BY DEF CallStates
    <3>2. call \in [Attempts -> [Nodes -> CallStates]]
      BY DEF TypeOK
    <3>3. call' = [call EXCEPT ![a][n] = st]
      BY <1>2 DEF EndWith
    <3>4. QED
      BY ONLY <3>1, <3>2, <3>3, Entry, a \in Attempts, n \in Nodes
  <2>2. /\ segs' \in [Attempts -> [Nodes -> Seq(Nodes)]]
        /\ segs'[a][n] = reply
        /\ \A b \in Attempts, m \in Nodes : b # a \/ m # n => segs'[b][m] = segs[b][m]
    <3>1. segs \in [Attempts -> [Nodes -> Seq(Nodes)]]
      BY DEF TypeOK
    <3>2. segs' = [segs EXCEPT ![a][n] = reply]
      BY <1>2 DEF EndWith
    <3>3. QED
      BY ONLY <3>1, <3>2, Entry, reply \in Seq(Nodes), a \in Attempts, n \in Nodes
  <2>3. TypeOK'
    BY <1>1, <2>1, <2>2 DEF EndWith, TypeOK
  <2>4. CallStep(a, n)
    BY <1>2, <2>1, <2>2 DEF CallStep, Heard, Running
  <2>5. \A b \in Attempts, m \in Nodes : b # a \/ m # n => Quiet(b, m)
    BY <1>1, <2>1, <2>2 DEF Quiet
  <2>6. QED
    BY <2>3, <2>4, <2>5, QuietIsCallStep
<1>3. ASSUME call[a][n] # "open"
      PROVE  TypeOK' /\ \A b \in Attempts, m \in Nodes : CallStep(b, m)
  <2>1. UNCHANGED <<call, segs, up, faults>>
    BY <1>3 DEF EndWith
  <2>2. TypeOK'
    BY <1>1, <2>1 DEF TypeOK
  <2>3. \A b \in Attempts, m \in Nodes : Quiet(b, m)
    BY <1>1, <2>1 DEF Quiet, Running
  <2>4. QED
    BY <2>2, <2>3, QuietIsCallStep
<1>4. QED
  BY <1>2, <1>3

(* An answer that says OK to a caller that listens is complete.            *)
LEMMA HeardIsWhole ==
    ASSUME FetchInv, NEW a \in Attempts, NEW n \in Nodes, call[a][n] = "open",
           \A c \in Kids(n) : call[a][c] \notin {"none", "open", "failed"}
    PROVE  /\ Own(n) \o Below(n, segs[a]) = Whole[n]
           /\ Whole[n] \in Seq(Nodes)
<1>1. \A c \in Kids(n) : call[a][c] = "ok"
  <2>1. \A c \in Kids(n) : c \in Nodes /\ call[a][c] \in CallStates
    BY KidsAreNodes DEF FetchInv, TypeOK
  <2>2. \A c \in Kids(n) : call[a][c] # "skipped"
    BY DEF FetchInv, SkippedUnheard
  <2>3. QED
    BY <2>1, <2>2 DEF CallStates
<1>2. \A c \in Kids(n) : segs[a][c] = Whole[c]
  BY <1>1, KidsAreNodes DEF FetchInv, CompleteReply
<1>3. QED
  BY <1>2, BelowIsWhole, TreeAssumption DEF TreeAssumption, FetchInv

(* A handler ends with a complete reply or an error.                       *)
LEMMA AnswerStep ==
    ASSUME FetchInv, NEW a \in Attempts, NEW n \in Nodes,
           Abort(a, n) \/ AnswerError(a, n) \/ AnswerOk(a, n)
    PROVE  TypeOK' /\ \A b \in Attempts, m \in Nodes : CallStep(b, m)
<1>1. TypeOK /\ Running(a, n)
  BY DEF FetchInv, Abort, AnswerError, AnswerOk
<1>2. <<>> \in Seq(Nodes)
  OBVIOUS
<1>3. CASE EndWith(a, n, "failed", <<>>)
  BY <1>1, <1>2, <1>3, EndWithStep
<1>4. CASE AnswerOk(a, n)
  <2> DEFINE reply == Own(n) \o Below(n, segs[a])
  <2>1. EndWith(a, n, "ok", reply)
    BY <1>4 DEF AnswerOk
  <2>2. CASE call[a][n] # "open"
    <3>1. EndWith(a, n, "failed", <<>>)
      BY <2>1, <2>2 DEF EndWith
    <3>2. QED
      BY <1>1, <1>2, <3>1, EndWithStep
  <2>3. CASE call[a][n] = "open"
    <3>1. \A c \in Kids(n) : call[a][c] \notin {"none", "open", "failed"}
      BY <1>4 DEF AnswerOk, Joined
    <3>2. reply \in Seq(Nodes)
      BY <2>3, <3>1, HeardIsWhole
    <3> HIDE DEF reply
    <3>3. QED
      BY <1>1, <2>1, <3>1, <3>2, EndWithStep DEF reply
  <2>4. QED
    BY <2>2, <2>3
<1>5. QED
  BY <1>3, <1>4 DEF Abort, AnswerError

(* A call that fails or is skipped makes allowed steps only.               *)
LEMMA CallFailureStep ==
    ASSUME TypeOK, NEW a \in Attempts, NEW n \in Nodes, NEW c \in Nodes,
           CallFails(a, n, c) \/ Skip(a, n, c)
    PROVE  TypeOK' /\ \A b \in Attempts, m \in Nodes : CallStep(b, m)
<1>1. c \in Kids(n) /\ c # Root /\ call[a][c] = "none" /\ Running(a, n)
  BY KidsAreNodes DEF CallFails, Skip, MayCall
<1>2. UNCHANGED <<serve, segs, up, faults>>
  BY DEF CallFails, Skip
<1>3. CASE CallFails(a, n, c)
  <2>1. call' = [call EXCEPT ![a][c] = "failed"]
    BY <1>3 DEF CallFails
  <2>2. QED
    BY <1>1, <1>2, <2>1, CallEndsStep DEF TypeOK
<1>4. CASE Skip(a, n, c)
  <2>1. call' = [call EXCEPT ![a][c] = "skipped"] /\ Cancelled(a, n)
    BY <1>4 DEF Skip
  <2>2. QED
    BY <1>1, <1>2, <2>1, CallEndsStep DEF TypeOK
<1>5. QED
  BY <1>3, <1>4

(* A connection that breaks or closes makes allowed steps only.            *)
LEMMA ConnectionStep ==
    ASSUME TypeOK, NEW a \in Attempts, NEW n \in Nodes, Break(a, n) \/ Lost(a, n)
    PROVE  TypeOK' /\ \A b \in Attempts, m \in Nodes : CallStep(b, m)
<1>1. /\ call[a][n] = "open" /\ UNCHANGED <<serve, segs, up>>
      /\ call' = [call EXCEPT ![a][n] = "failed"]
  BY DEF Break, Lost
<1>2. faults' \in 0 .. MaxFaults
  BY TreeAssumption DEF TreeAssumption, Break, Lost, TypeOK
<1>3. QED
  BY <1>1, <1>2, CallEndsStep DEF TypeOK

(* A worker that takes a call makes allowed steps only.                    *)
LEMMA StartStep ==
    ASSUME TypeOK, NEW a \in Attempts, NEW n \in Nodes, Start(a, n)
    PROVE  TypeOK' /\ \A b \in Attempts, m \in Nodes : CallStep(b, m)
<1>1. /\ serve' \in [Attempts -> [Nodes -> ServeStates]]
      /\ \A b \in Attempts, m \in Nodes : b # a \/ m # n => serve'[b][m] = serve[b][m]
  <2>1. "running" \in ServeStates
    BY DEF ServeStates
  <2>2. QED
    BY <2>1, Entry DEF Start, TypeOK
<1>2. TypeOK'
  BY <1>1 DEF Start, TypeOK
<1>3. \A b \in Attempts, m \in Nodes : Quiet(b, m)
  BY <1>1 DEF Quiet, Start
<1>4. QED
  BY <1>2, <1>3, QuietIsCallStep

(* A crash or a restart makes allowed steps only.                          *)
LEMMA CrashStep ==
    ASSUME TypeOK, NEW n \in Nodes, Crash(n) \/ Restart(n)
    PROVE  TypeOK' /\ \A b \in Attempts, m \in Nodes : CallStep(b, m)
<1>1. CASE Restart(n)
  <2>1. TypeOK'
    BY <1>1 DEF Restart, TypeOK
  <2>2. \A b \in Attempts, m \in Nodes : Quiet(b, m)
    BY <1>1 DEF Quiet, Restart
  <2>3. QED
    BY <2>1, <2>2, QuietIsCallStep
<1>2. CASE Crash(n)
  <2>1. call' \in [Attempts -> [Nodes -> CallStates]]
    BY <1>2 DEF Crash, TypeOK, CallStates
  <2>2. serve' \in [Attempts -> [Nodes -> ServeStates]]
    BY <1>2 DEF Crash, TypeOK, ServeStates
  <2>3. faults' \in 0 .. MaxFaults
    BY <1>2, TreeAssumption DEF TreeAssumption, Crash, TypeOK
  <2>4. TypeOK'
    BY <1>2, <2>1, <2>2, <2>3 DEF Crash, TypeOK
  <2>5. ASSUME NEW b \in Attempts, NEW m \in Nodes PROVE CallStep(b, m)
    <3>1. /\ call'[b][m] = call[b][m] \/ (call[b][m] = "open" /\ call'[b][m] = "failed")
          /\ serve'[b][m] # "none" => serve[b][m] # "none"
          /\ segs' = segs
      BY <1>2 DEF Crash
    <3>2. QED
      BY <3>1 DEF CallStep
  <2>6. QED
    BY <2>4, <2>5
<1>3. QED
  BY <1>1, <1>2

(* Every step keeps types and makes allowed steps only.                    *)
LEMMA EveryStep ==
    ASSUME FetchInv, Next
    PROVE  TypeOK' /\ \A b \in Attempts, m \in Nodes : CallStep(b, m)
<1>1. TypeOK
  BY DEF FetchInv
<1>2. CASE \E a \in Attempts : Begin(a)
  BY <1>1, <1>2, BeginStep
<1>3. ASSUME NEW a \in Attempts, NEW n \in Nodes,
             Handler(a, n) \/ Break(a, n) \/ Lost(a, n)
      PROVE  TypeOK' /\ \A b \in Attempts, m \in Nodes : CallStep(b, m)
  BY <1>1, <1>3, CallChildStep, CallFailureStep, AnswerStep, StartStep, ConnectionStep
     DEF Handler
<1>4. CASE \E n \in Nodes : Crash(n) \/ Restart(n)
  BY <1>1, <1>4, CrashStep
<1>5. QED
  BY <1>2, <1>3, <1>4 DEF Next

-----------------------------------------------------------------------------
(* Every step keeps the invariant of the tree.                             *)
LEMMA FetchInvPreserved == FetchInv /\ [Next]_vars => FetchInv'
<1>1. ASSUME FetchInv, UNCHANGED vars PROVE FetchInv'
  BY <1>1 DEF FetchInv, vars, TypeOK, Served, SkippedUnheard, NoLooseSegments,
              OneAtATime, CompleteReply
<1>2. ASSUME FetchInv, Next PROVE FetchInv'
  <2>1. TypeOK' /\ \A b \in Attempts, m \in Nodes : CallStep(b, m)
    BY <1>2, EveryStep
  <2>2. Served'
    BY <1>2, <2>1 DEF FetchInv, Served, CallStep
  <2>3. SkippedUnheard'
    <3> SUFFICES ASSUME NEW a \in Attempts, NEW n \in Nodes, NEW c \in Kids(n),
                        call'[a][c] = "skipped"
                 PROVE  call'[a][n] \notin {"none", "open"}
      BY DEF SkippedUnheard
    <3>1. c \in Nodes
      BY KidsAreNodes
    <3>2. call[a][n] \notin {"none", "open"}
      <4>1. CASE call[a][c] = "skipped"
        BY <1>2, <4>1 DEF FetchInv, SkippedUnheard
      <4>2. CASE call[a][c] # "skipped"
        <5>1. PICK p \in Nodes : c \in Kids(p) /\ Running(a, p) /\ Cancelled(a, p)
          BY <2>1, <3>1, <4>2 DEF CallStep
        <5>2. p = n
          BY <5>1, TreeAssumption DEF TreeAssumption
        <5>3. call[a][n] # "none"
          BY <1>2, <5>1, <5>2 DEF FetchInv, Served, Running
        <5>4. QED
          BY <5>1, <5>2, <5>3 DEF Cancelled
      <4>3. QED
        BY <4>1, <4>2
    <3>3. QED
      BY <2>1, <3>2 DEF CallStep
  <2>4. NoLooseSegments'
    <3> SUFFICES ASSUME NEW a \in Attempts, NEW n \in Nodes, call'[a][n] # "ok"
                 PROVE  segs'[a][n] = <<>>
      BY DEF NoLooseSegments
    <3>1. call[a][n] # "ok"
      BY <2>1 DEF CallStep
    <3>2. segs[a][n] = <<>>
      BY <1>2, <3>1 DEF FetchInv, NoLooseSegments
    <3>3. QED
      BY <2>1, <3>2 DEF CallStep
  <2>5. OneAtATime'
    <3>1. Root \in Nodes
      BY TreeAssumption DEF TreeAssumption
    <3> SUFFICES ASSUME NEW a \in Attempts, NEW b \in Attempts, a < b,
                        call'[b][Root] # "none"
                 PROVE  call'[a][Root] \in {"ok", "failed"}
      BY DEF OneAtATime
    <3>2. call[a][Root] \in {"ok", "failed"}
      <4>1. CASE call[b][Root] # "none"
        BY <1>2, <4>1 DEF FetchInv, OneAtATime
      <4>2. CASE call[b][Root] = "none"
        <5>1. a \in 1 .. b - 1
          BY TreeAssumption DEF TreeAssumption, Attempts
        <5>2. QED
          BY <2>1, <3>1, <4>2, <5>1 DEF CallStep
      <4>3. QED
        BY <4>1, <4>2
    <3>3. QED
      BY <2>1, <3>1, <3>2 DEF CallStep
  <2>6. CompleteReply'
    <3> SUFFICES ASSUME NEW a \in Attempts, NEW n \in Nodes, call'[a][n] = "ok"
                 PROVE  segs'[a][n] = Whole[n]
      BY DEF CompleteReply
    <3>1. CASE call[a][n] = "ok"
      BY <1>2, <2>1, <3>1 DEF FetchInv, CompleteReply, CallStep
    <3>2. CASE call[a][n] # "ok"
      <4>1. Heard(a, n)
        BY <2>1, <3>2 DEF CallStep
      <4>2. QED
        BY <1>2, <4>1, HeardIsWhole DEF Heard
    <3>3. QED
      BY <3>1, <3>2
  <2>7. QED
    BY <2>1, <2>2, <2>3, <2>4, <2>5, <2>6 DEF FetchInv
<1>3. QED
  BY <1>1, <1>2

(* The invariant of the tree holds always.                                 *)
LEMMA FetchInvariant == Spec => []FetchInv
BY InitHolds, FetchInvPreserved, PTL DEF Spec

(* Type correctness of calls, handlers and replies.                        *)
THEOREM FetchTypeCorrect == Spec => []TypeOK
BY FetchInvariant, PTL DEF FetchInv

(* Whatever crashes and breaks, a Fetch that is answered with OK carries   *)
(* the shards of the whole subtree, once each and in a fixed order.        *)
THEOREM RepliesAreComplete == Spec => []CompleteReply
BY FetchInvariant, PTL DEF FetchInv

-----------------------------------------------------------------------------
(* Before the first fault every process is up, and each handler under way  *)
(* has a caller that waits for it: no one finds its call cancelled.        *)
Calm ==
    faults = 0 =>
        /\ \A n \in Nodes : up[n]
        /\ \A a \in Attempts, n \in Nodes :
              /\ call[a][n] \notin {"failed", "skipped"}
              /\ serve[a][n] # "dead"
              /\ serve[a][n] \in {"queued", "running"} => call[a][n] = "open"

(* Each step of a handler before the first fault keeps the calm.           *)
LEMMA HandlerKeepsCalm ==
    ASSUME TypeOK, Calm, faults = 0, NEW a \in Attempts, NEW n \in Nodes, Handler(a, n)
    PROVE  Calm'
<1>1. /\ \A m \in Nodes : up[m]
      /\ \A b \in Attempts, m \in Nodes :
            /\ call[b][m] \notin {"failed", "skipped"} /\ serve[b][m] # "dead"
            /\ serve[b][m] \in {"queued", "running"} => call[b][m] = "open"
  BY DEF Calm
<1>2. Running(a, n) => ~Cancelled(a, n)
  BY <1>1 DEF Running, Cancelled
<1>3. ASSUME NEW c \in Nodes, CallChild(a, n, c) PROVE Calm'
  <2>1. "open" \in CallStates /\ {"queued", "running"} \subseteq ServeStates
    BY DEF CallStates, ServeStates
  <2>2. /\ call'[a][c] = "open"
        /\ \A b \in Attempts, m \in Nodes : b # a \/ m # c => call'[b][m] = call[b][m]
    BY <1>3, <2>1, Entry DEF CallChild, TypeOK
  <2>3. PICK s \in {"queued", "running"} : serve' = [serve EXCEPT ![a][c] = s]
    BY <1>3 DEF CallChild
  <2>4. /\ serve'[a][c] \in {"queued", "running"}
        /\ \A b \in Attempts, m \in Nodes : b # a \/ m # c => serve'[b][m] = serve[b][m]
    BY <2>1, <2>3, Entry DEF TypeOK
  <2>5. up' = up
    BY <1>3 DEF CallChild
  <2>6. QED
    BY <1>1, <2>2, <2>4, <2>5 DEF Calm
<1>4. ASSUME NEW c \in Nodes, CallFails(a, n, c) \/ Skip(a, n, c) PROVE FALSE
  BY <1>1, <1>2, <1>4 DEF CallFails, Skip
<1>5. ~Abort(a, n)
  BY <1>2 DEF Abort
<1>6. ~AnswerError(a, n)
  BY <1>1, KidsAreNodes DEF AnswerError
<1>7. CASE AnswerOk(a, n)
  <2>1. call[a][n] = "open"
    BY <1>1, <1>7 DEF AnswerOk, Running
  <2>2. /\ call' = [call EXCEPT ![a][n] = "ok"] /\ serve' = [serve EXCEPT ![a][n] = "done"]
        /\ up' = up
    BY <1>7, <2>1 DEF AnswerOk, EndWith
  <2>3. "ok" \in CallStates /\ "done" \in ServeStates
    BY DEF CallStates, ServeStates
  <2>4. /\ call'[a][n] = "ok" /\ serve'[a][n] = "done"
        /\ \A b \in Attempts, m \in Nodes :
              b # a \/ m # n => call'[b][m] = call[b][m] /\ serve'[b][m] = serve[b][m]
    BY <2>2, <2>3, Entry DEF TypeOK
  <2>5. QED
    BY <1>1, <2>2, <2>4 DEF Calm
<1>8. CASE Start(a, n)
  <2>1. call[a][n] = "open" /\ call' = call /\ up' = up
        /\ serve' = [serve EXCEPT ![a][n] = "running"]
    BY <1>1, <1>8 DEF Start
  <2>2. "running" \in ServeStates
    BY DEF ServeStates
  <2>3. /\ serve'[a][n] = "running"
        /\ \A b \in Attempts, m \in Nodes : b # a \/ m # n => serve'[b][m] = serve[b][m]
    BY <2>1, <2>2, Entry DEF TypeOK
  <2>4. QED
    BY <1>1, <2>1, <2>3 DEF Calm
<1>9. QED
  BY <1>3, <1>4, <1>5, <1>6, <1>7, <1>8 DEF Handler

(* Every step keeps it; a fault is counted and ends it.                    *)
LEMMA CalmPreserved == FetchInv /\ Calm /\ [Next]_vars => Calm'
<1> SUFFICES ASSUME FetchInv, Calm, [Next]_vars PROVE Calm'
  OBVIOUS
<1>1. TypeOK /\ faults \in Nat
  BY TreeAssumption DEF FetchInv, TypeOK, TreeAssumption
<1>2. CASE UNCHANGED vars
  BY <1>2 DEF vars, Calm
<1>3. ASSUME NEW a \in Attempts, Begin(a) PROVE Calm'
  <2>1. Root \in Nodes
    BY TreeAssumption DEF TreeAssumption
  <2>2. "open" \in CallStates /\ "running" \in ServeStates
    BY DEF CallStates, ServeStates
  <2>3. /\ call'[a][Root] = "open" /\ serve'[a][Root] = "running"
        /\ \A b \in Attempts, m \in Nodes :
              b # a \/ m # Root => call'[b][m] = call[b][m] /\ serve'[b][m] = serve[b][m]
    BY <1>1, <1>3, <2>1, <2>2, Entry DEF Begin, TypeOK
  <2>4. QED
    BY <1>3, <2>3 DEF Begin, Calm
<1>4. ASSUME NEW a \in Attempts, NEW n \in Nodes, Handler(a, n) PROVE Calm'
  <2>1. faults' = faults
    BY <1>4 DEF Handler, CallChild, CallFails, Skip, Abort, AnswerError, AnswerOk, EndWith, Start
  <2>2. CASE faults = 0
    BY <1>1, <1>4, <2>2, HandlerKeepsCalm
  <2>3. CASE faults # 0
    BY <2>1, <2>3 DEF Calm
  <2>4. QED
    BY <2>2, <2>3
<1>5. ASSUME NEW a \in Attempts, NEW n \in Nodes, Lost(a, n) PROVE Calm'
  BY <1>5 DEF Lost, Calm
<1>6. ASSUME NEW n \in Nodes, Restart(n) PROVE Calm'
  BY <1>6 DEF Restart, Calm
<1>7. ASSUME faults' = faults + 1 PROVE Calm'
  BY <1>1, <1>7 DEF Calm
<1>8. QED
  BY <1>2, <1>3, <1>4, <1>5, <1>6, <1>7 DEF Next, Break, Crash

(* NoNeedlessFailure: however slow the threads are, a call fails or a      *)
(* child is left out only after a crash or a broken connection.            *)
THEOREM FailuresNeedFaults == Spec => []NoNeedlessFailure
<1>1. Init => Calm
  BY DEF Init, Calm
<1>2. Spec => []Calm
  BY <1>1, FetchInvariant, CalmPreserved, PTL DEF Spec
<1>3. Calm => NoNeedlessFailure
  BY DEF Calm, NoNeedlessFailure
<1>4. QED
  BY <1>2, <1>3, PTL

-----------------------------------------------------------------------------
(* What a step does to the outcome of the gathers: it begins one, ends     *)
(* one, or shows nothing.                                                  *)
LEMMA OutcomeInitially == Init => AON!Init
<1> SUFFICES ASSUME Init PROVE AON!Init
  OBVIOUS
<1>1. Root \in Nodes
  BY TreeAssumption DEF TreeAssumption
<1>2. QED
  BY <1>1 DEF Init, AON!Init, Outcome, Payload

(* Begin is the Begin of AllOrNothing.                                     *)
LEMMA BeginShows ==
    ASSUME FetchInv, NEW a \in Attempts, Begin(a) PROVE AON!Begin(a)
<1>1. Root \in Nodes /\ TypeOK
  BY TreeAssumption DEF TreeAssumption, FetchInv
<1>2. /\ call' \in [Attempts -> [Nodes -> CallStates]]
      /\ call'[a][Root] = "open"
      /\ \A b \in Attempts, m \in Nodes : b # a \/ m # Root => call'[b][m] = call[b][m]
  <2>1. "open" \in CallStates
    BY DEF CallStates
  <2>2. QED
    BY <1>1, <2>1, Entry DEF Begin, TypeOK
<1>3. \A b \in Attempts : call[b][Root] # "open"
  <2> SUFFICES ASSUME NEW b \in Attempts PROVE call[b][Root] # "open"
    OBVIOUS
  <2>1. CASE b = a
    BY <2>1 DEF Begin
  <2>2. CASE b < a
    <3>1. b \in 1 .. a - 1
      BY <2>2, TreeAssumption DEF TreeAssumption, Attempts
    <3>2. QED
      BY <3>1 DEF Begin
  <2>3. CASE a < b
    BY <2>3 DEF Begin, FetchInv, OneAtATime
  <2>4. QED
    BY <2>1, <2>2, <2>3, TreeAssumption DEF TreeAssumption, Attempts
<1>4. Outcome[a] = "none" /\ \A b \in Attempts : Outcome[b] # "open"
  BY <1>3 DEF Begin, Outcome
<1>5. Outcome' = [Outcome EXCEPT ![a] = "open"]
  BY <1>1, <1>2 DEF Outcome
<1>6. Payload' = Payload
  BY DEF Begin, Payload
<1>7. QED
  BY <1>4, <1>5, <1>6 DEF AON!Begin

(* Any other step ends the one gather under way or leaves the leader's     *)
(* view as it is.                                                          *)
LEMMA OtherStepShows ==
    ASSUME FetchInv, FetchInv',
           \A b \in Attempts, m \in Nodes : CallStep(b, m),
           \A b \in Attempts : call[b][Root] = "none" => call'[b][Root] = "none"
    PROVE  \/ \E a \in Attempts : AON!Deliver(a) \/ AON!Fail(a)
           \/ UNCHANGED <<Outcome, Payload>>
<1>1. Root \in Nodes
  BY TreeAssumption DEF TreeAssumption
<1>2. \A b \in Attempts : call[b][Root] # "open" =>
          call'[b][Root] = call[b][Root] /\ segs'[b][Root] = segs[b][Root]
  <2> SUFFICES ASSUME NEW b \in Attempts, call[b][Root] # "open"
               PROVE  call'[b][Root] = call[b][Root] /\ segs'[b][Root] = segs[b][Root]
    OBVIOUS
  <2>1. CASE call[b][Root] = "none"
    BY <1>1, <2>1 DEF FetchInv, NoLooseSegments
  <2>2. CASE call[b][Root] # "none"
    BY <1>1, <2>2 DEF CallStep
  <2>3. QED
    BY <2>1, <2>2
<1>3. CASE \A b \in Attempts : call'[b][Root] = call[b][Root]
  <2>1. \A b \in Attempts : segs'[b][Root] = segs[b][Root]
    BY <1>1, <1>2, <1>3 DEF FetchInv, NoLooseSegments
  <2>2. QED
    BY <1>3, <2>1 DEF Outcome, Payload
<1>4. ASSUME NEW a \in Attempts, call'[a][Root] # call[a][Root]
      PROVE  AON!Deliver(a) \/ AON!Fail(a)
  <2>1. call[a][Root] = "open"
    BY <1>2, <1>4
  <2>2. \A b \in Attempts : b # a => call[b][Root] # "open"
    <3> SUFFICES ASSUME NEW b \in Attempts, b # a PROVE call[b][Root] # "open"
      OBVIOUS
    <3>1. OneAtATime
      BY DEF FetchInv
    <3>2. b < a \/ a < b
      BY TreeAssumption DEF TreeAssumption, Attempts
    <3>3. CASE b < a
      BY ONLY <2>1, <3>1, <3>3, b \in Attempts, a \in Attempts DEF OneAtATime
    <3>4. CASE a < b
      BY ONLY <2>1, <3>1, <3>4, b \in Attempts, a \in Attempts DEF OneAtATime
    <3>5. QED
      BY ONLY <3>2, <3>3, <3>4
  <2>3. call'[a][Root] \in {"ok", "failed"}
    <3>1. call'[a][Root] \in CallStates /\ call'[a][Root] # "none"
      BY <1>1, <2>1 DEF FetchInv, TypeOK, CallStep
    <3>2. call'[a][Root] # "skipped"
      <4>1. \A n \in Nodes : Root \notin Kids(n)
        BY TreeAssumption DEF TreeAssumption
      <4>2. QED
        BY <1>1, <2>1, <4>1 DEF CallStep
    <3>3. QED
      BY <1>4, <2>1, <3>1, <3>2 DEF CallStates
  <2>4. Outcome[a] = "open" /\ Outcome' = [Outcome EXCEPT ![a] = call'[a][Root]]
    BY <1>2, <2>1, <2>2 DEF Outcome
  <2>5. segs[a][Root] = <<>>
    BY <1>1, <2>1 DEF FetchInv, NoLooseSegments
  <2>6. CASE call'[a][Root] = "ok"
    <3>1. segs'[a][Root] = Whole[Root]
      BY <1>1, <2>6 DEF FetchInv, CompleteReply
    <3>2. Payload' = [Payload EXCEPT ![a] = Whole[Root]]
      BY <1>2, <2>2, <3>1 DEF Payload
    <3>3. QED
      BY <2>4, <2>6, <3>2 DEF AON!Deliver
  <2>7. CASE call'[a][Root] = "failed"
    <3>1. segs'[a][Root] = <<>>
      BY <1>1, <2>7 DEF FetchInv, NoLooseSegments
    <3>2. Payload' = Payload
      BY <1>2, <2>2, <2>5, <3>1 DEF Payload
    <3>3. QED
      BY <2>4, <2>7, <3>2 DEF AON!Fail
  <2>8. QED
    BY <2>3, <2>6, <2>7
<1>5. QED
  BY <1>3, <1>4

(* Only Begin calls the leader.                                            *)
LEMMA NobodyElseBegins ==
    ASSUME FetchInv, Next, ~(\E a \in Attempts : Begin(a)), NEW b \in Attempts,
           call[b][Root] = "none"
    PROVE  call'[b][Root] = "none"
<1>1. Root \in Nodes /\ TypeOK
  BY TreeAssumption DEF TreeAssumption, FetchInv
<1>2. ASSUME NEW a \in Attempts, NEW n \in Nodes, NEW c \in Nodes,
             CallChild(a, n, c) \/ CallFails(a, n, c) \/ Skip(a, n, c)
      PROVE  call'[b][Root] = "none"
  <2>1. c # Root
    BY <1>2, KidsAreNodes DEF CallChild, CallFails, Skip, MayCall
  <2>2. PICK x : call' = [call EXCEPT ![a][c] = x]
    BY <1>2 DEF CallChild, CallFails, Skip
  <2>3. QED
    BY ONLY <1>1, <2>1, <2>2, call[b][Root] = "none", b \in Attempts DEF TypeOK
<1>3. ASSUME NEW a \in Attempts, NEW n \in Nodes,
             Abort(a, n) \/ AnswerError(a, n) \/ AnswerOk(a, n) \/ Start(a, n)
                \/ Break(a, n) \/ Lost(a, n)
      PROVE  call'[b][Root] = "none"
  <2>1. \/ call' = call
        \/ call[a][n] = "open" /\ \E x : call' = [call EXCEPT ![a][n] = x]
    BY <1>3 DEF Abort, AnswerError, AnswerOk, EndWith, Start, Break, Lost
  <2>2. CASE call' = call
    BY <2>2
  <2>3. CASE call[a][n] = "open" /\ \E x : call' = [call EXCEPT ![a][n] = x]
    <3>1. PICK x : call' = [call EXCEPT ![a][n] = x]
      BY <2>3
    <3>2. a # b \/ n # Root
      BY <2>3
    <3>3. QED
      BY ONLY <1>1, <3>1, <3>2, call[b][Root] = "none", b \in Attempts DEF TypeOK
  <2>4. QED
    BY <2>1, <2>2, <2>3
<1>4. ASSUME NEW n \in Nodes, Crash(n) \/ Restart(n)
      PROVE  call'[b][Root] = "none"
  BY <1>1, <1>4 DEF Crash, Restart
<1>5. QED
  BY <1>2, <1>3, <1>4 DEF Next, Handler

(* The tree of handlers gives the leader the whole payload or an error,    *)
(* and one outcome at a time: the Fetch that Leader takes for granted.     *)
THEOREM TreeIsAllOrNothing == Spec => GathersAllOrNothing
<1>1. ASSUME FetchInv, FetchInv', [Next]_vars PROVE [AON!Next]_<<Outcome, Payload>>
  <2>1. CASE UNCHANGED vars
    BY <2>1 DEF vars, Outcome, Payload
  <2>2. CASE \E a \in Attempts : Begin(a)
    BY <1>1, <2>2, BeginShows DEF AON!Next
  <2>3. CASE Next /\ ~(\E a \in Attempts : Begin(a))
    <3>1. \A b \in Attempts, m \in Nodes : CallStep(b, m)
      BY <1>1, <2>3, EveryStep
    <3>2. \A b \in Attempts : call[b][Root] = "none" => call'[b][Root] = "none"
      BY <1>1, <2>3, NobodyElseBegins
    <3>3. QED
      BY <1>1, <3>1, <3>2, OtherStepShows DEF AON!Next
  <2>4. QED
    BY <1>1, <2>1, <2>2, <2>3
<1>2. QED
  BY <1>1, OutcomeInitially, FetchInvariant, PTL DEF Spec, GathersAllOrNothing, AON!Spec
=============================================================================
