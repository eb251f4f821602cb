------------------------ MODULE DaemonRegistryProofs ------------------------
(***************************************************************************)
(* Further proofs for DaemonServer: the order of a session's responses,    *)
(* the limit on sessions, and that the daemon implements SessionRegistry.  *)
(***************************************************************************)
EXTENDS DaemonServerProofs, FiniteSetTheorems

(* The order of the responses.                                             *)

\* The last response written and the ones queued behind it are in order.
Ordered(w, q) == \A i \in 1 .. Len(q) : (<<w>> \o q)[i + 1] \in Follows((<<w>> \o q)[i])

\* What a further response would come after.
LastOf(w, q) == (<<w>> \o q)[Len(q) + 1]

Refused(w, q) == w = "status" \/ \E i \in 1 .. Len(q) : q[i] = "status"

\* What queueing a response and writing one do to the order.
OrderOps(w, q) ==
  /\ Ordered(w, <<>>) /\ LastOf(w, <<>>) = w 
  /\ (Refused(w, <<>>) => w = "status") /\ (w = "status" => Refused(w, q))
  /\ \A m \in Responses :
       /\ Ordered(w, q) /\ m \in Follows(LastOf(w, q)) => Ordered(w, Append(q, m))
       /\ LastOf(w, Append(q, m)) = m
       /\ Refused(w, Append(q, m)) => Refused(w, q) \/ m = "status"
  /\ q # <<>> =>
       /\ Ordered(w, q) => Ordered(Head(q), Tail(q))
       /\ LastOf(Head(q), Tail(q)) = LastOf(w, q)
       /\ Refused(Head(q), Tail(q)) => Refused(w, q)

LEMMA OrderFacts ==
  ASSUME NEW w \in Responses \cup {"none"}, NEW q \in Seq(Responses)
  PROVE  OrderOps(w, q)
<1>1. /\ Ordered(w, <<>>) /\ LastOf(w, <<>>) = w
      /\ (Refused(w, <<>>) => w = "status") /\ (w = "status" => Refused(w, q))
  BY DEF Ordered, LastOf, Refused
<1>2. ASSUME NEW m \in Responses
      PROVE  /\ Ordered(w, q) /\ m \in Follows(LastOf(w, q)) => Ordered(w, Append(q, m))
             /\ LastOf(w, Append(q, m)) = m
             /\ Refused(w, Append(q, m)) => Refused(w, q) \/ m = "status"
  <2>1. /\ Len(q) \in Nat /\ Len(Append(q, m)) = Len(q) + 1
        /\ \A i \in 1 .. Len(q) : Append(q, m)[i] = q[i]
        /\ Append(q, m)[Len(q) + 1] = m
    OBVIOUS
  <2>2. /\ \A i \in 1 .. Len(q) + 1 : (<<w>> \o Append(q, m))[i] = (<<w>> \o q)[i]
        /\ (<<w>> \o Append(q, m))[Len(q) + 2] = m
    OBVIOUS
  <2>3. Ordered(w, q) /\ m \in Follows(LastOf(w, q)) => Ordered(w, Append(q, m))
    BY <2>1, <2>2 DEF Ordered, LastOf
  <2>4. LastOf(w, Append(q, m)) = m
    BY <2>1, <2>2 DEF LastOf
  <2>5. Refused(w, Append(q, m)) => Refused(w, q) \/ m = "status"
    BY <2>1 DEF Refused
  <2> QED
    BY <2>3, <2>4, <2>5, Zenon
<1>3. ASSUME q # <<>>
      PROVE  /\ Ordered(w, q) => Ordered(Head(q), Tail(q))
             /\ LastOf(Head(q), Tail(q)) = LastOf(w, q)
             /\ Refused(Head(q), Tail(q)) => Refused(w, q)
  <2>1. /\ Len(q) \in Nat \ {0} /\ Len(Tail(q)) = Len(q) - 1 /\ Head(q) = q[1]
        /\ Tail(q) \in Seq(Responses)
        /\ \A i \in 1 .. Len(q) - 1 : Tail(q)[i] = q[i + 1]
    BY <1>3
  <2>2. \A i \in 1 .. Len(q) : (<<Head(q)>> \o Tail(q))[i] = (<<w>> \o q)[i + 1]
    BY <2>1
  <2>3. Ordered(w, q) => Ordered(Head(q), Tail(q))
    BY <2>1, <2>2 DEF Ordered
  <2>4. LastOf(Head(q), Tail(q)) = LastOf(w, q)
    BY <2>1, <2>2 DEF LastOf
  <2>5. Refused(Head(q), Tail(q)) => Refused(w, q)
    BY <2>1 DEF Refused
  <2> QED
    BY <2>3, <2>4, <2>5, SMTT(60)
<1> QED
  BY <1>1, <1>2, <1>3, Zenon DEF OrderOps

\* What has been written and queued, seen from where the handler, the task
\* and the reader are.
InTurn(c) ==
  /\ Ordered(wrote[c], outq[c])
  /\ Refused(wrote[c], outq[c]) => ~Reserved(c)
  /\ phase[c] \in {"off", "hello"} \/ (Serving(c) /\ wr[c] \in {"enter", "reserve", "reject"})
       => wrote[c] = "none" /\ task[c] = "none"
  /\ ResponsesOpen(c) =>
       /\ task[c] \in BeforeLoop => wrote[c] = "none"
       /\ task[c] \in {"loop", "closing", "cleaning", "joining"}
            => LastOf(wrote[c], outq[c]) \in {"started", "packet", "error"}
       /\ ReaderLive(c) => LastOf(wrote[c], outq[c]) \in {"started", "packet"}

\* A step of one connection leaves every other connection's handler, task,
\* reader and responses alone.
LEMMA StepIsLocal ==
  ASSUME ControlOK, OutqOK, WroteOK, NEW c \in Conns, NEW d \in Conns \ {c}, Step(c)
  PROVE  /\ phase'[d] = phase[d] /\ wr'[d] = wr[d] /\ wrote'[d] = wrote[d]
         /\ task'[d] = task[d] /\ reader'[d] = reader[d] /\ outq'[d] = outq[d]
<1> USE DEF connVars, sessVars, peerVars
<1> DEFINE Same == /\ phase'[d] = phase[d] /\ wr'[d] = wr[d] /\ wrote'[d] = wrote[d]
                   /\ task'[d] = task[d] /\ reader'[d] = reader[d] /\ outq'[d] = outq[d]
<1>0. /\ phase \in [Conns -> {"off", "hello", "serving", "done"}]
      /\ wr \in [Conns -> {"enter", "reserve", "drain", "reject", "done"}]
      /\ task \in [Conns -> TaskStates]
      /\ reader \in [Conns -> {"none", "reading", "sending", "failing", "done", "failed"}]
      /\ outq \in [Conns -> Seq(Responses)]
      /\ wrote \in [Conns -> Responses \cup {"none"}]
  BY Zenon DEF ControlOK, OutqOK, WroteOK
<1>1. CASE Accept(c) \/ HelloOver(c) \/ HelloShutdown(c) \/ ClientClose(c)
  BY <1>0, <1>1, SMTT(60) DEF Accept, HelloOver, HelloShutdown, ClientClose
<1>2. ASSUME NEW m \in FrameKinds, HelloSession(c, m) \/ ReadFrame(c, m) PROVE Same
  BY <1>0, <1>2, SMTT(60) DEF HelloSession, ReadFrame, Join
<1>3. CASE ReadStop(c) \/ ReadFail(c) \/ EnterCheck(c)
  BY <1>0, <1>3, SMTT(60) DEF ReadStop, ReadFail, EnterCheck, Abort, Join
<1>4. ASSUME NEW n \in Names, EnterReject(c, n) \/ EnterReserve(c, n) PROVE Same
  BY <1>0, <1>4, SMTT(60) DEF EnterReject, EnterReserve
<1>5. CASE RejectWritten(c) \/ WriteResponse(c) \/ WriteFail(c) \/ WriteStop(c)
  BY <1>0, <1>5, SMTT(60) DEF RejectWritten, WriteResponse, WriteFail, WriteStop, Abort, Join
<1>6. CASE SpawnCheck(c) \/ StartDevice(c) \/ StartFail(c) \/ StartFailed(c) \/ StartReport(c) \/ StartOk(c)
  BY <1>0, <1>6, SMTT(60) DEF SpawnCheck, StartDevice, StartFail, StartFailed, StartReport, StartOk, Respond
<1>7. ASSUME ReaderInterrupted(c) \/ ReaderSend(c) \/ \E e \in {"packet", "error"} : ReaderEvent(c, e)
      PROVE  Same
  BY <1>0, <1>7, SMTT(60) DEF ReaderEvent, ReaderInterrupted, ReaderSend
<1>8. CASE LoopStop(c) \/ LoopTake(c) \/ CloseInterrupt(c) \/ CloseCleanup(c) \/ Release(c)
  BY <1>0, <1>8, SMTT(60) DEF LoopStop, LoopTake, CloseInterrupt, CloseCleanup, Release
<1>9. CASE JoinReader(c)
  BY <1>0, <1>9, SMTT(60) DEF JoinReader, Respond
<1> HIDE DEF Same
<1>10. Same
  BY <1>1, <1>2, <1>3, <1>4, <1>5, <1>6, <1>7, <1>8, <1>9, ZenonT(60) DEF Step, Same
<1> QED
  BY <1>10, Zenon DEF Same

\* try_send keeps the order, whether or not it finds room.
LEMMA TrySendOrder ==
  ASSUME NEW w \in Responses \cup {"none"}, NEW q \in Seq(Responses), NEW m \in Responses,
         Ordered(w, q), m \in Follows(LastOf(w, q))
  PROVE  /\ TrySend(q, m) \in Seq(Responses) /\ Ordered(w, TrySend(q, m))
         /\ LastOf(w, TrySend(q, m)) \in {LastOf(w, q), m}
         /\ Refused(w, TrySend(q, m)) => Refused(w, q) \/ m = "status"
<1>1. OrderOps(w, q) /\ QueueOps(Responses, q)
  BY OrderFacts, QueueFacts, Zenon
<1>2. TrySend(q, m) \in {q, Append(q, m)}
  BY Zenon DEF TrySend
<1> QED
  BY <1>1, <1>2, ZenonT(60) DEF OrderOps, QueueOps

LEMMA InTurnStep ==
  ASSUME SafeInv, OutqOK, WroteOK, NEW c \in Conns, Step(c), InTurn(c)
  PROVE  InTurn(c)'
<1>0. /\ phase \in [Conns -> {"off", "hello", "serving", "done"}]
      /\ wr \in [Conns -> {"enter", "reserve", "drain", "reject", "done"}]
      /\ task \in [Conns -> TaskStates]
      /\ reader \in [Conns -> {"none", "reading", "sending", "failing", "done", "failed"}]
      /\ outq \in [Conns -> Seq(Responses)]
      /\ wrote \in [Conns -> Responses \cup {"none"}]
      /\ task[c] \in BeforeLoop => outq[c] = <<>>
  BY Zenon DEF SafeInv, ControlOK, OutqOK, WroteOK
<1>i. /\ ReaderLive(c) => task[c] \in {"loop", "closing", "cleaning", "joining"}
      /\ phase[c] \in {"off", "hello"} => task[c] = "none"
      /\ Serving(c) /\ wr[c] \in {"enter", "reserve"} => task[c] = "none"
  BY Zenon DEF SafeInv, InStep
<1>o. OrderOps(wrote[c], outq[c])
  BY <1>0, OrderFacts, ZenonT(60)
<1>e. OrderOps("status", <<>>)
  <2>1. "status" \in Responses \cup {"none"} /\ <<>> \in Seq(Responses)
    BY DEF Responses
  <2> QED
    BY <2>1, OrderFacts, Zenon
<1>f. /\ Follows("none") = {"started", "status"} /\ Follows("error") = {"error"}
      /\ Follows("started") = {"packet", "error"} /\ Follows("packet") = {"packet", "error"}
  BY Zenon DEF Follows
<1> USE <1>0, <1>i DEF InTurn, Reserved, ReaderLive, Serving, ResponsesOpen, BeforeLoop, connVars, sessVars, peerVars
<1>1. CASE Accept(c) \/ HelloOver(c) \/ HelloShutdown(c) \/ ClientClose(c)
  BY <1>1, Zenon DEF Accept, HelloOver, HelloShutdown, ClientClose
<1>2. ASSUME NEW m \in FrameKinds, HelloSession(c, m) \/ ReadFrame(c, m) PROVE InTurn(c)'
  BY <1>2, SMTT(60) DEF HelloSession, ReadFrame, Join
<1>3. CASE ReadStop(c) \/ EnterCheck(c)
  BY <1>3, SMTT(60) DEF ReadStop, EnterCheck, Join
<1>4. ASSUME NEW n \in Names, EnterReject(c, n) PROVE InTurn(c)'
  BY <1>4, SMTT(60) DEF EnterReject
<1>5. ASSUME NEW n \in Names, EnterReserve(c, n) PROVE InTurn(c)'
  BY <1>5, <1>o, SMTT(60) DEF EnterReserve, OrderOps
<1>6. CASE ReadFail(c) \/ WriteFail(c) \/ WriteStop(c)
  BY <1>6, <1>o, SMTT(60) DEF ReadFail, WriteFail, WriteStop, Abort, Join, OrderOps
<1>7. CASE RejectWritten(c)
  BY <1>7, <1>o, <1>e, SMTT(60) DEF RejectWritten, Join, OrderOps
<1>8. CASE WriteResponse(c)
  BY <1>8, <1>o, SMTT(60) DEF WriteResponse, OrderOps
<1>9. CASE SpawnCheck(c) \/ StartDevice(c) \/ StartFail(c) \/ StartFailed(c)
  BY <1>9, SMTT(60) DEF SpawnCheck, StartDevice, StartFail, StartFailed
<1>10. CASE StartReport(c)
  <2>1. ResponsesOpen(c) => LastOf(wrote[c], outq[c]) = "none"
    BY <1>10, <1>o, SMTT(60) DEF StartReport, OrderOps
  <2>2. ResponsesOpen(c) => Ordered(wrote[c], TrySend(outq[c], "status"))
    <3>1. "status" \in Responses /\ (ResponsesOpen(c) => "status" \in Follows(LastOf(wrote[c], outq[c])))
      BY <2>1, <1>f, Zenon DEF Responses
    <3> QED
      BY <3>1, TrySendOrder, ZenonT(60)
  <2> QED
    BY <1>10, <2>2, SMTT(60) DEF StartReport, Respond
<1>11. CASE StartOk(c)
  <2>1. ResponsesOpen(c) => LastOf(wrote[c], outq[c]) = "none"
    BY <1>11, <1>o, SMTT(60) DEF StartOk, OrderOps
  <2>2. /\ ResponsesOpen(c) => Ordered(wrote[c], Append(outq[c], "started"))
        /\ LastOf(wrote[c], Append(outq[c], "started")) = "started"
        /\ Refused(wrote[c], Append(outq[c], "started")) => Refused(wrote[c], outq[c])
    BY <2>1, <1>f, <1>o, SMTT(60) DEF OrderOps, Responses
  <2> QED
    BY <1>11, <2>2, SMTT(60) DEF StartOk, Respond
<1>12. CASE ReaderInterrupted(c) \/ \E e \in {"packet", "error"} : ReaderEvent(c, e)
  <2>1. CASE ReaderInterrupted(c)
    BY <2>1, SMTT(60) DEF ReaderInterrupted
  <2>2. ASSUME NEW e \in {"packet", "error"}, ReaderEvent(c, e) PROVE InTurn(c)'
    BY <2>2, SMTT(60) DEF ReaderEvent
  <2> HIDE DEF InTurn
  <2> QED
    BY <1>12, <2>1, <2>2, Zenon
<1>13. CASE ReaderSend(c)
  <2>1. CASE UNCHANGED outq
    BY <1>13, <2>1, SMTT(60) DEF ReaderSend
  <2>2. ASSUME NEW m \in {"packet", "error"}, outq' = [outq EXCEPT ![c] = Append(@, m)],
               ResponsesOpen(c), m = "error" => reader'[c] = "failed"
        PROVE  InTurn(c)'
    <3>1. /\ Ordered(wrote[c], Append(outq[c], m)) /\ LastOf(wrote[c], Append(outq[c], m)) = m
          /\ Refused(wrote[c], Append(outq[c], m)) => Refused(wrote[c], outq[c])
      <4>1. m \in Responses /\ m \in Follows(LastOf(wrote[c], outq[c])) /\ m # "status"
        BY <1>13, <2>2, <1>f, SMTT(60) DEF Responses, ReaderSend
      <4> QED
        BY <4>1, <1>o, ZenonT(60) DEF OrderOps
    <3> QED
      BY <1>13, <2>2, <3>1, SMTT(60) DEF ReaderSend
  <2> QED
    BY <1>13, <2>1, <2>2, SMTT(60) DEF ReaderSend
<1>14. CASE LoopStop(c) \/ LoopTake(c) \/ CloseInterrupt(c) \/ CloseCleanup(c) \/ Release(c)
  <2>1. CASE LoopStop(c)
    BY <2>1, SMTT(60) DEF LoopStop
  <2>2. CASE LoopTake(c)
    BY <2>2, SMTT(60) DEF LoopTake
  <2>3. CASE CloseInterrupt(c) \/ CloseCleanup(c)
    BY <2>3, SMTT(60) DEF CloseInterrupt, CloseCleanup
  <2>4. CASE Release(c)
    BY <2>4, SMTT(60) DEF Release
  <2> HIDE DEF InTurn
  <2> QED
    BY <1>14, <2>1, <2>2, <2>3, <2>4, Zenon
<1>15. CASE JoinReader(c)
  <2> DEFINE once == TrySend(outq[c], "error")
             twice == TrySend(once, "error")
  <2>1. CASE ResponsesOpen(c)
    <3>e. "error" \in Responses /\ wrote[c] \in Responses \cup {"none"} /\ outq[c] \in Seq(Responses)
      BY Zenon DEF Responses
    <3>1. LastOf(wrote[c], outq[c]) \in {"started", "packet", "error"} /\ Ordered(wrote[c], outq[c])
      BY <1>15, <2>1, SMTT(60) DEF JoinReader
    <3>2. /\ once \in Seq(Responses) /\ Ordered(wrote[c], once)
          /\ LastOf(wrote[c], once) \in {"started", "packet", "error"}
          /\ Refused(wrote[c], once) => Refused(wrote[c], outq[c])
      <4>1. "error" \in Follows(LastOf(wrote[c], outq[c]))
        BY <3>1, <1>f, SMTT(60)
      <4>2. /\ once \in Seq(Responses) /\ Ordered(wrote[c], once)
            /\ LastOf(wrote[c], once) \in {LastOf(wrote[c], outq[c]), "error"}
            /\ Refused(wrote[c], once) => Refused(wrote[c], outq[c]) \/ "error" = "status"
        BY <3>e, <3>1, <4>1, TrySendOrder, Zenon
      <4> QED
        BY <3>1, <4>2, SMTT(60)
    <3> HIDE DEF once
    <3>3. /\ Ordered(wrote[c], twice)
          /\ Refused(wrote[c], twice) => Refused(wrote[c], once)
      <4>1. "error" \in Follows(LastOf(wrote[c], once))
        BY <3>2, <1>f, Zenon
      <4> QED
        BY <3>e, <3>2, <4>1, TrySendOrder, ZenonT(60)
    <3>4. outq'[c] \in {outq[c], once, twice}
      <4>1. CASE errors[c] = 0
        BY <1>15, <4>1, SMTT(60) DEF JoinReader, Respond
      <4>2. CASE errors[c] = 1
        BY <1>15, <4>2, SMTT(60) DEF JoinReader, Respond, once
      <4>3. CASE errors[c] # 0 /\ errors[c] # 1
        <5>1. outq' = [outq EXCEPT ![c] = twice]
          BY <1>15, <2>1, <4>3, Zenon DEF JoinReader, Respond, once
        <5> QED
          BY <5>1, Zenon
      <4> QED
        BY <4>1, <4>2, <4>3, Zenon
    <3> HIDE DEF twice
    <3>5. /\ wrote' = wrote /\ task' = [task EXCEPT ![c] = "release"]
          /\ phase' = phase /\ wr' = wr /\ reader' = reader /\ ~ReaderLive(c) /\ Reserved(c)
      BY <1>15, SMTT(60) DEF JoinReader
    <3> QED
      BY <3>1, <3>2, <3>3, <3>4, <3>5, SMTT(60)
  <2>2. CASE ~ResponsesOpen(c)
    BY <1>15, <2>2, SMTT(60) DEF JoinReader, Respond
  <2> HIDE DEF InTurn
  <2> QED
    BY <2>1, <2>2, Zenon
<1> HIDE DEF InTurn
<1> QED
  BY <1>1, <1>2, <1>3, <1>4, <1>5, <1>6, <1>7, <1>8, <1>9, <1>10, <1>11, <1>12, <1>13, <1>14, <1>15, SMTT(30) DEF Step

\* Every connection's responses are in turn.
TurnInv == \A c \in Conns : InTurn(c)

LEMMA TurnStep == SafeInv /\ OutqOK /\ WroteOK /\ TurnInv /\ [Next]_vars => TurnInv'
<1> SUFFICES ASSUME SafeInv, OutqOK, WroteOK, TurnInv, [Next]_vars PROVE TurnInv'
  BY Zenon
<1>1. ASSUME NEW c \in Conns, Step(c), NEW d \in Conns PROVE InTurn(d)'
  <2>1. CASE d = c
    BY <1>1, <2>1, InTurnStep, SMTT(60) DEF TurnInv
  <2>2. CASE d # c
    <3>1. /\ phase'[d] = phase[d] /\ wr'[d] = wr[d] /\ wrote'[d] = wrote[d]
          /\ task'[d] = task[d] /\ reader'[d] = reader[d] /\ outq'[d] = outq[d]
      BY <1>1, <2>2, StepIsLocal, SMTT(60) DEF SafeInv
    <3>2. InTurn(d)
      BY SMTT(60) DEF TurnInv
    <3> QED
      BY <3>1, <3>2, SMTT(60) DEF InTurn, Reserved, ReaderLive, ResponsesOpen, Serving
  <2> QED
    BY <2>1, <2>2, SMTT(60)
<1>2. CASE UNCHANGED <<phase, wr, wrote, task, reader, outq>>
  BY <1>2, SMTT(60) DEF TurnInv, InTurn, Reserved, ReaderLive, ResponsesOpen, Serving
<1>3. (\E c \in Conns : Step(c)) \/ UNCHANGED <<phase, wr, wrote, task, reader, outq>>
  BY NextSteps, SMTT(60) DEF vars, connVars, sessVars, MainStop, MainJoin, MainDrained, MainDeadline, OwnerDies
<1> QED
  BY <1>1, <1>2, <1>3, SMTT(60) DEF TurnInv

LEMMA TurnInit == Init => TurnInv
<1> SUFFICES ASSUME Init, NEW c \in Conns PROVE InTurn(c)
  BY Zenon DEF TurnInv
<1>1. OrderOps("none", <<>>)
  <2>1. <<>> \in Seq(Responses)
    OBVIOUS
  <2> QED
    BY <2>1, OrderFacts, Zenon
<1>2. /\ wrote[c] = "none" /\ outq[c] = <<>> /\ task[c] = "none" /\ reader[c] = "none"
  BY Zenon DEF Init
<1> QED
  BY <1>1, <1>2, SMTT(60) DEF InTurn, OrderOps, Reserved, ReaderLive, ResponsesOpen

LEMMA TurnAlways == Spec => []TurnInv
BY SafeAlways, QueueInit, OutqStep, WroteStep, TurnInit, TurnStep, PTL DEF Spec

\* Whatever the reader, the task's teardown and the handler do at the same
\* time, the client sees Started or a refusal first, then packets, then
\* errors, and nothing after a refusal.
THEOREM ResponsesInOrder == Spec => []ResponseOrder
<1>1. TurnInv => ResponseOrder
  BY ZenonT(60) DEF TurnInv, InTurn, Ordered, ResponseOrder
<1> QED
  BY <1>1, TurnAlways, PTL

\* A client that has been told that its session failed or was refused, or for
\* which that answer is queued, holds no reservation any more: its name is
\* free, or another session has taken it.
THEOREM FailureIsReleased == Spec => []FailureAfterRelease
<1>1. SafeInv /\ TurnInv => FailureAfterRelease
  BY Zenon DEF SafeInv, Held, TurnInv, InTurn, Refused, FailureAfterRelease
<1> QED
  BY <1>1, SafeAlways, TurnAlways, PTL

-----------------------------------------------------------------------------
(* The limit.                                                              *)

\* The limit on sessions, with what makes Cardinality meaningful.
LimitInv == IsFiniteSet(active) /\ Cardinality(active) <= MaxSessions

LEMMA LimitStep == LimitInv /\ [Next]_vars => LimitInv'
<1> SUFFICES ASSUME LimitInv, [Next]_vars PROVE LimitInv'
  BY Zenon
<1> USE DEF LimitInv
<1>0. /\ Cardinality(active) \in Nat /\ MaxSessions \in Nat
      /\ \A n : IsFiniteSet(active \ {n}) /\ Cardinality(active \ {n}) <= MaxSessions
  <2>1. Cardinality(active) \in Nat /\ MaxSessions \in Nat
    BY FS_CardinalityType, BoundsAssumption, Zenon
  <2>2. ASSUME NEW n PROVE IsFiniteSet(active \ {n}) /\ Cardinality(active \ {n}) <= MaxSessions
    <3>1. /\ IsFiniteSet(active \ {n})
          /\ Cardinality(active \ {n}) = IF n \in active THEN Cardinality(active) - 1 ELSE Cardinality(active)
      BY FS_RemoveElement, SMTT(30)
    <3> QED
      BY <2>1, <3>1
  <2> QED
    BY <2>1, <2>2, Zenon
<1>1. ASSUME NEW c \in Conns, Step(c), active' # active
      PROVE  \/ \E n \in Names : EnterReserve(c, n)
             \/ SpawnCheck(c) \/ StartFailed(c) \/ Release(c)
  BY <1>1, StepFrames, Zenon
<1>2. ASSUME NEW c \in Conns, NEW n \in Names, EnterReserve(c, n) PROVE LimitInv'
  <2>1. Cardinality(active) + 1 <= MaxSessions /\ active' = active \cup {Normalize(n)}
    BY <1>0, <1>2 DEF EnterReserve
  <2>2. /\ IsFiniteSet(active \cup {Normalize(n)})
        /\ Cardinality(active \cup {Normalize(n)}) = Cardinality(active) + 1
    BY <1>2, FS_AddElement, Zenon DEF EnterReserve
  <2> QED
    BY <2>1, <2>2, Zenon
<1>3. ASSUME NEW c \in Conns, SpawnCheck(c) \/ StartFailed(c) \/ Release(c) PROVE LimitInv'
  <2>1. active' = active \/ active' = active \ {name[c]}
    BY <1>3, Zenon DEF SpawnCheck, StartFailed, Release
  <2> QED
    BY <1>0, <2>1, Zenon
<1>4. CASE active' = active
  BY <1>4, Zenon
<1>5. active' # active => \E c \in Conns : Step(c)
  BY NextSteps, Zenon DEF vars, MainStop, MainJoin, MainDrained, MainDeadline, OwnerDies
<1> QED
  BY <1>1, <1>2, <1>3, <1>4, <1>5, Zenon

\* However many connections race through session(), no more than
\* MAX_ACTIVE_SESSIONS names are reserved.
THEOREM LimitHolds == Spec => []WithinLimit
<1>1. Init => LimitInv
  BY FS_EmptySet, BoundsAssumption DEF Init, LimitInv
<1>2. LimitInv => WithinLimit
  BY Zenon DEF LimitInv, WithinLimit
<1> QED
  BY <1>1, <1>2, LimitStep, PTL DEF Spec

-----------------------------------------------------------------------------
(* DaemonServer implements SessionRegistry.                                *)

\* The session of c has an interface in the operating system.
Has(c) == DeviceLive(c) \/ os[c] = "configured"

Status == CASE main = "exited" -> "drained" [] main = "killed" -> "killed" [] OTHER -> "serving"

\* Only a session with a reservation has an interface, and it is the only one
\* with an interface of that name.
LEMMA BuiltFacts ==
  ASSUME SafeInv, NEW c \in Conns
  PROVE  /\ Has(c) => Reserved(c) /\ name[c] \in Built
         /\ Reserved(c) => name[c] \in active /\ name[c] \in Names
         /\ Reserved(c) /\ name[c] \in Built => Has(c)
<1>1. \A d \in Conns : Has(d) => Reserved(d)
  BY Zenon DEF SafeInv, InStep, Has, DeviceLive, Reserved
<1> QED
  BY <1>1 DEF SafeInv, Held, Named, Built, Has, Reserved

\* Handlers touch sessions and reservations in one place only.
LEMMA StepKinds ==
  ASSUME NEW c \in Conns, Step(c)
  PROVE  \/ UNCHANGED <<task, name, os, reader, active>>
         \/ \E n \in Names : EnterReserve(c, n)
         \/ SpawnCheck(c) \/ StartDevice(c) \/ StartFail(c) \/ StartFailed(c) \/ StartReport(c) \/ StartOk(c)
         \/ \E e \in {"packet", "error"} : ReaderEvent(c, e)
         \/ ReaderInterrupted(c) \/ ReaderSend(c)
         \/ LoopStop(c) \/ LoopTake(c) \/ CloseInterrupt(c) \/ CloseCleanup(c)
         \/ JoinReader(c) \/ Release(c)
BY ZenonT(30) DEF Step, sessVars, Accept, HelloOver, HelloShutdown, HelloSession, ReadFrame, ReadStop,
       ReadFail, EnterCheck, EnterReject, RejectWritten, WriteResponse, WriteFail, WriteStop, ClientClose

\* A step of connection c leaves the other sessions' interfaces alone.
LEMMA OthersKeep ==
  ASSUME SafeInv, NEW c \in Conns, Step(c)
  PROVE  \A d \in Conns \ {c} : name'[d] = name[d] /\ (Has(d)' <=> Has(d))
<1>t. /\ DOMAIN name = Conns /\ DOMAIN task = Conns /\ DOMAIN os = Conns /\ DOMAIN reader = Conns
  BY Zenon DEF SafeInv, ControlOK
<1> SUFFICES ASSUME NEW d \in Conns \ {c}
             PROVE  name'[d] = name[d] /\ task'[d] = task[d] /\ os'[d] = os[d] /\ reader'[d] = reader[d]
  BY Zenon DEF Has, DeviceLive, ReaderLive
<1>1. ASSUME NEW n \in Names, EnterReserve(c, n)
      PROVE  name'[d] = name[d] /\ task'[d] = task[d] /\ os'[d] = os[d] /\ reader'[d] = reader[d]
  BY <1>t, <1>1, Zenon DEF EnterReserve
<1>2. CASE SpawnCheck(c) \/ StartDevice(c) \/ StartFail(c) \/ StartFailed(c) \/ StartReport(c) \/ StartOk(c)
  <2>1. CASE SpawnCheck(c) \/ StartDevice(c)
    BY <1>t, <2>1, Zenon DEF SpawnCheck, StartDevice
  <2>2. CASE StartFail(c)
    BY <1>t, <2>2, Zenon DEF StartFail
  <2>3. CASE StartFailed(c) \/ StartReport(c)
    BY <1>t, <2>3, Zenon DEF StartFailed, StartReport
  <2>4. CASE StartOk(c)
    BY <1>t, <2>4, Zenon DEF StartOk
  <2> QED
    BY <1>2, <2>1, <2>2, <2>3, <2>4, Zenon
<1>3. ASSUME NEW e \in {"packet", "error"}, ReaderEvent(c, e)
      PROVE  name'[d] = name[d] /\ task'[d] = task[d] /\ os'[d] = os[d] /\ reader'[d] = reader[d]
  BY <1>t, <1>3, Zenon DEF ReaderEvent
<1>4. CASE ReaderInterrupted(c) \/ ReaderSend(c)
  BY <1>t, <1>4, Zenon DEF ReaderInterrupted, ReaderSend
<1>5. CASE LoopStop(c) \/ LoopTake(c) \/ CloseInterrupt(c) \/ CloseCleanup(c) \/ JoinReader(c) \/ Release(c)
  <2>1. CASE LoopStop(c) \/ LoopTake(c)
    BY <1>t, <2>1, Zenon DEF LoopStop, LoopTake
  <2>2. CASE CloseInterrupt(c) \/ CloseCleanup(c)
    BY <1>t, <2>2, Zenon DEF CloseInterrupt, CloseCleanup
  <2>3. CASE JoinReader(c) \/ Release(c)
    BY <1>t, <2>3, Zenon DEF JoinReader, Release
  <2> QED
    BY <1>5, <2>1, <2>2, <2>3, Zenon
<1> QED
  BY <1>1, <1>2, <1>3, <1>4, <1>5, StepKinds, Zenon

\* What a step of c does to the set of interfaces, from what it does to c's.
LEMMA BuiltStep ==
  ASSUME SafeInv, NEW c \in Conns, Step(c), name'[c] = name[c] \/ (~Has(c) /\ ~Has(c)')
  PROVE  /\ (Has(c)' <=> Has(c)) => Built' = Built
         /\ ~Has(c) /\ Has(c)' => Built' = Built \cup {name[c]}
         /\ Has(c) /\ ~Has(c)' => Built' = Built \ {name[c]}
<1>1. \A n : n \in Built <=> \E d \in Conns : Has(d) /\ name[d] = n
  BY Zenon DEF Built, Has
<1>2. \A n : n \in Built' <=> \E d \in Conns : Has(d)' /\ name'[d] = n
  BY Zenon DEF Built, Has
<1>3. \A d \in Conns \ {c} : name'[d] = name[d] /\ (Has(d)' <=> Has(d))
  BY OthersKeep, Zenon
<1>4. \A d \in Conns \ {c} : Has(c) /\ Has(d) => name[d] # name[c]
  BY BuiltFacts, Zenon DEF SafeInv, Held
<1>5. (Has(c)' <=> Has(c)) => \A n : n \in Built' <=> n \in Built
  BY <1>1, <1>2, <1>3, Zenon
<1>6. ~Has(c) /\ Has(c)' => \A n : n \in Built' <=> n \in Built \/ n = name[c]
  BY <1>1, <1>2, <1>3, Zenon
<1>7. Has(c) /\ ~Has(c)' => \A n : n \in Built' <=> n \in Built /\ n # name[c]
  BY <1>1, <1>2, <1>3, <1>4, Zenon
<1> QED
  BY <1>5, <1>6, <1>7, Zenon

LEMMA RegistryInit == Init => Registry!Init
<1> SUFFICES ASSUME Init PROVE Registry!Init
  BY Zenon
<1>1. Built = {}
  BY Zenon DEF Init, Built, DeviceLive, ReaderLive
<1> QED
  BY <1>1, Zenon DEF Init, Registry!Init

\* Every step of a connection is a step of the registry, or none.
LEMMA RegistryStep ==
  ASSUME SafeInv, NEW c \in Conns, Running, Step(c)
  PROVE  Registry!Next \/ UNCHANGED <<active, Built>>
<1> USE DEF SafeInv, ControlOK
<1>s. Status = "serving"
  BY Zenon DEF Status, Running
<1>m. main' = main
  BY ZenonT(30) DEF Step, Accept, HelloOver, HelloShutdown, HelloSession, ReadFrame, ReadStop,
       ReadFail, EnterCheck, EnterReject, EnterReserve, RejectWritten, WriteResponse, WriteFail,
       WriteStop, SpawnCheck, StartDevice, StartFail, StartFailed, StartReport, StartOk, ReaderEvent,
       ReaderInterrupted, ReaderSend, LoopStop, LoopTake, CloseInterrupt, CloseCleanup,
       JoinReader, Release, ClientClose
<1>f. /\ Has(c) => Reserved(c) /\ name[c] \in Built
      /\ Reserved(c) => name[c] \in active /\ name[c] \in Names
      /\ Reserved(c) /\ ~Has(c) => name[c] \notin Built
  BY BuiltFacts, Zenon
<1> HIDE DEF SafeInv
\* A change of the device alone.
<1>d. ASSUME active' = active, name'[c] = name[c], Reserved(c)
      PROVE  Registry!Next \/ UNCHANGED <<active, Built>>
  <2>1. CASE Has(c)' <=> Has(c)
    BY <1>d, <2>1, BuiltStep, Zenon
  <2>2. CASE ~Has(c) /\ Has(c)'
    <3>1. Built' = Built \cup {name[c]}
      BY <1>d, <2>2, BuiltStep, Zenon
    <3>2. Registry!Build(name[c])
      BY <1>d, <1>f, <1>m, <2>2, <3>1, Zenon DEF Registry!Build
    <3> QED
      BY <1>d, <1>f, <1>s, <3>2, Zenon DEF Registry!Next, Status
  <2>3. CASE Has(c) /\ ~Has(c)'
    <3>1. Built' = Built \ {name[c]}
      BY <1>d, <2>3, BuiltStep, Zenon
    <3>2. Registry!Dismantle(name[c])
      BY <1>d, <1>f, <1>m, <2>3, <3>1, Zenon DEF Registry!Dismantle
    <3> QED
      BY <1>d, <1>f, <1>s, <3>2, Zenon DEF Registry!Next, Status
  <2> QED
    BY <2>1, <2>2, <2>3, Zenon
\* The end of a reservation.
<1>g. ASSUME active' = active \ {name[c]}, name' = name, Reserved(c), ~Has(c), ~Has(c)'
      PROVE  Registry!Next
  <2>1. Built' = Built
    BY <1>g, BuiltStep, Zenon
  <2>2. Registry!GiveBack(name[c])
    BY <1>g, <1>f, <1>m, <2>1, Zenon DEF Registry!GiveBack
  <2> QED
    BY <1>g, <1>f, <1>s, <2>2, Zenon DEF Registry!Next, Status
<1>1. CASE UNCHANGED <<task, name, os, reader, active>>
  BY <1>1, Zenon DEF Built, DeviceLive, ReaderLive
<1>2. ASSUME NEW n \in Names, EnterReserve(c, n) PROVE Registry!Next
  <2>1. ~Has(c) /\ ~Has(c)'
    BY <1>2, Zenon DEF SafeInv, InStep, Serving, EnterReserve, Has, DeviceLive, ReaderLive
  <2>2. Built' = Built
    BY <2>1, BuiltStep, Zenon
  <2>3. Registry!Reserve(Normalize(n)) /\ Normalize(n) \in Names
    <3>1. Normalize(n) \in Names
      BY NamesAssumption, Zenon DEF Normalize
    <3>2. /\ Normalize(n) \notin active
          /\ Cardinality(active) < MaxSessions
          /\ active' = active \cup {Normalize(n)}
      BY <1>2, Zenon DEF EnterReserve
    <3>3. Registry!Cardinality(active) = Cardinality(active)
      BY Zenon DEF Cardinality, Registry!Cardinality
    <3> QED
      BY <1>m, <2>2, <3>1, <3>2, <3>3, Zenon DEF Registry!Reserve
  <2> QED
    BY <1>s, <2>3, Zenon DEF Registry!Next, Status
<1>3. CASE SpawnCheck(c) \/ StartFailed(c) \/ Release(c)
  <2>1. Reserved(c) /\ ~Has(c) /\ ~Has(c)' /\ name' = name
    BY <1>3 DEF SafeInv, InStep, SpawnCheck, StartFailed, Release, Reserved, Has, DeviceLive, ReaderLive
  <2>2. active' = active \/ active' = active \ {name[c]}
    BY <1>3, Zenon DEF SpawnCheck, StartFailed, Release
  <2> QED
    BY <1>d, <1>g, <2>1, <2>2, Zenon
<1>4. CASE StartDevice(c) \/ StartFail(c) \/ LoopStop(c) \/ LoopTake(c) \/ CloseInterrupt(c)
           \/ CloseCleanup(c) \/ JoinReader(c)
  <2>1. active' = active /\ name' = name /\ Reserved(c)
    BY <1>4, Zenon DEF StartDevice, StartFail, LoopStop, LoopTake, CloseInterrupt, CloseCleanup, JoinReader, Reserved
  <2> QED
    BY <1>d, <2>1, Zenon
<1>5. CASE StartOk(c)
  <2>1. active' = active /\ name'[c] = name[c] /\ Reserved(c)
    BY <1>5, Zenon DEF SafeInv, Named, StartOk, Reserved
  <2> QED
    BY <1>d, <2>1, Zenon
<1>6. ASSUME \/ \E e \in {"packet", "error"} : ReaderEvent(c, e)
             \/ ReaderInterrupted(c) \/ ReaderSend(c)
      PROVE  Registry!Next \/ UNCHANGED <<active, Built>>
  <2>1. active' = active /\ name' = name /\ Reserved(c)
    BY <1>6, Zenon DEF SafeInv, InStep, ReaderEvent, ReaderInterrupted, ReaderSend, Reserved, ReaderLive
  <2> QED
    BY <1>d, <2>1, Zenon
<1>7. CASE StartReport(c)
  <2>1. active' = active /\ name' = name /\ ~Has(c) /\ ~Has(c)'
    BY <1>7 DEF SafeInv, InStep, StartReport, Has, DeviceLive, ReaderLive
  <2> QED
    BY <2>1, BuiltStep, Zenon
<1> QED
  BY <1>1, <1>2, <1>3, <1>4, <1>5, <1>6, <1>7, StepKinds, Zenon

\* The accept loop drains or dies; otherwise it changes nothing the registry
\* sees.
LEMMA RegistryMain ==
  ASSUME SafeInv, Running, MainStop \/ MainJoin \/ MainDrained \/ MainDeadline \/ OwnerDies
  PROVE  [Registry!Next]_<<active, Built, Status>>
<1>1. active' = active /\ Built' = Built
  BY ZenonT(30) DEF MainStop, MainJoin, MainDrained, MainDeadline, OwnerDies, sessVars, Built, DeviceLive, ReaderLive
<1>s. Status = "serving"
  BY Zenon DEF Status, Running
<1>2. CASE MainStop \/ MainJoin \/ OwnerDies
  <2>1. Status' = Status
    BY <1>2, Zenon DEF MainStop, MainJoin, OwnerDies, Status
  <2> QED
    BY <1>1, <2>1, Zenon
<1>3. CASE MainDrained
  BY <1>1, <1>s, <1>3, Zenon DEF MainDrained, Registry!Next, Registry!Drain, Status
<1>4. CASE MainDeadline
  BY <1>1, <1>s, <1>4, Zenon DEF MainDeadline, Registry!Next, Registry!Die, Status
<1> QED
  BY <1>2, <1>3, <1>4, Zenon

\* The whole daemon, with any number of connections, implements the registry
\* of interfaces: what no interleaving of its handlers, tasks and readers can
\* break is said by four small actions.
THEOREM DaemonImplementsRegistry == Spec => ImplementsRegistry
<1>1. SafeInv /\ [Next]_vars => [Registry!Next]_<<active, Built, Status>>
  <2> SUFFICES ASSUME SafeInv, [Next]_vars PROVE [Registry!Next]_<<active, Built, Status>>
    BY Zenon
  <2>1. ASSUME NEW c \in Conns, Running, Step(c) PROVE [Registry!Next]_<<active, Built, Status>>
    <3>1. main' = main
      BY <2>1, ZenonT(30) DEF Step, Accept, HelloOver, HelloShutdown, HelloSession, ReadFrame, ReadStop,
       ReadFail, EnterCheck, EnterReject, EnterReserve, RejectWritten, WriteResponse, WriteFail,
       WriteStop, SpawnCheck, StartDevice, StartFail, StartFailed, StartReport, StartOk, ReaderEvent,
       ReaderInterrupted, ReaderSend, LoopStop, LoopTake, CloseInterrupt, CloseCleanup,
       JoinReader, Release, ClientClose
    <3>2. Status' = Status
      BY <3>1, Zenon DEF Status
    <3> QED
      BY <2>1, <3>2, RegistryStep, Zenon
  <2>2. CASE UNCHANGED vars
    BY <2>2, Zenon DEF vars, sessVars, Built, DeviceLive, ReaderLive, Status
  <2> QED
    BY <2>1, <2>2, RegistryMain, NextSteps, Zenon
<1> QED
  BY <1>1, RegistryInit, SafeAlways, PTL DEF Spec, ImplementsRegistry, Registry!Spec, Registry!vars, Status
=============================================================================
