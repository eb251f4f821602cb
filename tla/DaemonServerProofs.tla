------------------------- MODULE DaemonServerProofs -------------------------
(* Invariance proofs for DaemonServer, for any connections, names, session  *)
(* limit and queue capacities.                                              *)
EXTENDS DaemonServer, TLAPS

\* The part of TypeOK that is not about the queues.
ControlOK ==
  /\ phase \in [Conns -> {"off", "hello", "serving", "done"}]
  /\ rd \in [Conns -> {"read", "fail", "done"}]
  /\ wr \in [Conns -> {"enter", "reserve", "drain", "reject", "done"}]
  /\ gone \subseteq Conns
  /\ task \in [Conns -> TaskStates]
  /\ name \in [Conns -> Names \cup {NoName}]
  /\ os \in [Conns -> {"none", "configured", "residue"}]
  /\ reader \in [Conns -> {"none", "reading", "sending", "failing", "done", "failed"}]
  /\ active \subseteq Names
  /\ shut \in BOOLEAN
  /\ main \in {"accepting", "joining", "waiting", "exited", "killed"}
  /\ owner \in BOOLEAN

\* The actions of one connection, side by side.
Step(c) ==
  \/ Accept(c) \/ HelloOver(c) \/ HelloShutdown(c)
  \/ \E m \in FrameKinds : HelloSession(c, m) \/ ReadFrame(c, m)
  \/ ReadStop(c) \/ ReadFail(c)
  \/ EnterCheck(c) \/ \E n \in Names : EnterReject(c, n) \/ EnterReserve(c, n)
  \/ RejectWritten(c) \/ WriteResponse(c) \/ WriteFail(c) \/ WriteStop(c)
  \/ SpawnCheck(c) \/ StartDevice(c) \/ StartFail(c) \/ StartFailed(c) \/ StartReport(c) \/ StartOk(c)
  \/ \E e \in {"packet", "error"} : ReaderEvent(c, e)
  \/ ReaderInterrupted(c) \/ ReaderSend(c)
  \/ LoopStop(c) \/ LoopTake(c) \/ CloseInterrupt(c) \/ CloseCleanup(c)
  \/ JoinReader(c) \/ Release(c) \/ ClientClose(c)

\* Next is a step of one connection, of the accept loop or of the owner.
LEMMA NextSteps ==
  Next => \/ Running /\ \E c \in Conns : Step(c)
          \/ Running /\ (MainStop \/ MainJoin \/ MainDrained \/ MainDeadline \/ OwnerDies)
          \/ UNCHANGED vars
BY BoundsAssumption, SMTT(30) DEF Next, ReadStep, WriteStep, TaskStep, ReaderStep, MainStep, Environment,
     Terminated, Step, FrameKinds

\* Which steps of a connection touch the reservations, the task and its error
\* count, and what was written last.
LEMMA StepFrames ==
  ASSUME NEW c \in Conns, Step(c)
  PROVE  /\ \/ active' = active
            \/ \E n \in Names : EnterReserve(c, n)
            \/ SpawnCheck(c) \/ StartFailed(c) \/ Release(c)
         /\ \/ UNCHANGED <<task, errors>>
            \/ \E n \in Names : EnterReserve(c, n)
            \/ SpawnCheck(c) \/ StartDevice(c) \/ StartFail(c) \/ StartFailed(c) \/ StartReport(c) \/ StartOk(c)
            \/ LoopStop(c) \/ CloseInterrupt(c) \/ JoinReader(c) \/ Release(c)
            \/ LoopTake(c) \/ CloseCleanup(c)
         /\ RejectWritten(c) \/ WriteResponse(c) \/ UNCHANGED wrote
<1> USE DEF connVars, sessVars, peerVars
<1>1. CASE Accept(c) \/ HelloOver(c) \/ HelloShutdown(c) \/ ClientClose(c)
  BY <1>1, Zenon DEF Accept, HelloOver, HelloShutdown, ClientClose
<1>2. ASSUME NEW m \in FrameKinds, HelloSession(c, m) \/ ReadFrame(c, m)
      PROVE  UNCHANGED <<active, task, errors, wrote>>
  BY <1>2, Zenon DEF HelloSession, ReadFrame
<1>3. CASE ReadStop(c) \/ ReadFail(c) \/ EnterCheck(c)
  BY <1>3, Zenon DEF ReadStop, ReadFail, EnterCheck
<1>4. ASSUME NEW n \in Names, EnterReject(c, n) \/ EnterReserve(c, n)
      PROVE  UNCHANGED wrote /\ (UNCHANGED <<active, task, errors>> \/ EnterReserve(c, n))
  BY <1>4, Zenon DEF EnterReject, EnterReserve
<1>5. CASE RejectWritten(c) \/ WriteResponse(c) \/ WriteFail(c) \/ WriteStop(c)
  BY <1>5, Zenon DEF RejectWritten, WriteResponse, WriteFail, WriteStop
<1>6. CASE SpawnCheck(c) \/ StartDevice(c) \/ StartFail(c) \/ StartFailed(c) \/ StartReport(c) \/ StartOk(c)
  BY <1>6, Zenon DEF SpawnCheck, StartDevice, StartFail, StartFailed, StartReport, StartOk
<1>7. CASE ReaderInterrupted(c) \/ ReaderSend(c) \/ \E e \in {"packet", "error"} : ReaderEvent(c, e)
  BY <1>7, Zenon DEF ReaderEvent, ReaderInterrupted, ReaderSend
<1>8. CASE \/ LoopStop(c) \/ LoopTake(c) \/ CloseInterrupt(c) \/ CloseCleanup(c)
           \/ JoinReader(c) \/ Release(c)
  BY <1>8, Zenon DEF LoopStop, LoopTake, CloseInterrupt, CloseCleanup, JoinReader, Release
<1> QED
  BY <1>1, <1>2, <1>3, <1>4, <1>5, <1>6, <1>7, <1>8, Zenon DEF Step

LEMMA ControlInit == Init => ControlOK
<1> SUFFICES ASSUME Init PROVE ControlOK
  BY Zenon
<1>1. gone \subseteq Conns /\ active \subseteq Names /\ shut \in BOOLEAN /\ owner \in BOOLEAN
  BY ZenonT(30) DEF Init
<1>2. name \in [Conns -> Names \cup {NoName}]
  BY Zenon DEF Init
<1> QED
  BY <1>1, <1>2, Zenon DEF Init, ControlOK, TaskStates

\* A session task that has started goes by a name the kernel gives.
Named == \A c \in Conns : task[c] # "none" => name[c] \in Names /\ KernelName[name[c]] = name[c]

LEMMA ControlStep == ControlOK /\ Named /\ [Next]_vars => ControlOK'
<1> SUFFICES ASSUME ControlOK, Named, [Next]_vars PROVE ControlOK'
  BY Zenon
<1> USE DEF ControlOK, TaskStates, connVars, sessVars, peerVars
<1>1. ASSUME NEW c \in Conns, Step(c) PROVE ControlOK'
  <2>1. CASE Accept(c) \/ HelloOver(c) \/ HelloShutdown(c) \/ ClientClose(c)
    BY <2>1, ZenonT(30) DEF Accept, HelloOver, HelloShutdown, ClientClose
  <2>2. ASSUME NEW m \in FrameKinds, HelloSession(c, m) \/ ReadFrame(c, m) PROVE ControlOK'
    BY <2>2 DEF HelloSession, ReadFrame, Join
  <2>3. CASE ReadStop(c) \/ ReadFail(c) \/ EnterCheck(c)
    BY <2>3 DEF ReadStop, ReadFail, EnterCheck, Abort, Join
  <2>4. ASSUME NEW n \in Names, EnterReject(c, n) \/ EnterReserve(c, n) PROVE ControlOK'
    BY <2>4, NamesAssumption DEF EnterReject, EnterReserve, Normalize
  <2>5. CASE RejectWritten(c) \/ WriteResponse(c) \/ WriteFail(c) \/ WriteStop(c)
    BY <2>5 DEF RejectWritten, WriteResponse, WriteFail, WriteStop, Abort, Join
  <2>6. CASE SpawnCheck(c) \/ StartDevice(c) \/ StartFail(c) \/ StartFailed(c) \/ StartReport(c)
    BY <2>6 DEF SpawnCheck, StartDevice, StartFail, StartFailed, StartReport
  <2>6a. CASE StartOk(c)
    BY <2>6a, Zenon DEF StartOk, Named
  <2>7. CASE ReaderInterrupted(c) \/ ReaderSend(c)
    BY <2>7 DEF ReaderInterrupted, ReaderSend
  <2>8. ASSUME NEW e \in {"packet", "error"}, ReaderEvent(c, e) PROVE ControlOK'
    BY <2>8, Zenon DEF ReaderEvent
  <2>9. CASE LoopStop(c) \/ LoopTake(c) \/ CloseInterrupt(c) \/ CloseCleanup(c)
    BY <2>9 DEF LoopStop, LoopTake, CloseInterrupt, CloseCleanup
  <2>10. CASE JoinReader(c) \/ Release(c)
    BY <2>10 DEF JoinReader, Release
  <2> HIDE DEF ControlOK
  <2> QED
    BY <1>1, <2>1, <2>2, <2>3, <2>4, <2>5, <2>6, <2>7, <2>8, <2>9, <2>10, <2>6a, SMTT(30) DEF Step
<1>2. CASE MainStop \/ MainJoin \/ MainDrained \/ MainDeadline \/ OwnerDies
  BY <1>2, ZenonT(30) DEF MainStop, MainJoin, MainDrained, MainDeadline, OwnerDies
<1>3. CASE UNCHANGED vars
  BY <1>3, Zenon DEF vars
<1> QED
  BY <1>1, <1>2, <1>3, NextSteps, Zenon

-----------------------------------------------------------------------------
(* Reservations.                                                           *)

\* ReservationsExact, one element at a time.
Held ==
  /\ \A c \in Conns : Reserved(c) => name[c] \in active
  /\ \A n \in active : \E c \in Conns : Reserved(c) /\ name[c] = n
  /\ \A c, d \in Conns : Reserved(c) /\ Reserved(d) /\ c # d => name[c] # name[d]

\* How far a session's task, reader and platform state can be apart.
InStep ==
  \A c \in Conns :
    /\ ReaderLive(c) => task[c] \in {"loop", "closing", "cleaning", "joining"}
    /\ os[c] = "configured" => task[c] \in {"loop", "closing", "cleaning"}
    /\ phase[c] \in {"off", "hello"} => task[c] = "none"
    /\ Serving(c) /\ wr[c] \in {"enter", "reserve"} => task[c] = "none"

\* The accept loop has joined every handler before it waits for sessions.
Drained ==
  /\ main \in {"waiting", "exited"} => \A c \in Conns : phase[c] \in {"off", "done"}
  /\ main = "exited" => active = {}

SafeInv == ControlOK /\ Named /\ Held /\ InStep /\ Drained

LEMMA HeldIsExact == Held <=> ReservationsExact
BY DEF Held, ReservationsExact

LEMMA SafeInit == Init => SafeInv
<1> SUFFICES ASSUME Init PROVE SafeInv
  BY Zenon
<1>1. ControlOK
  BY ControlInit, Zenon
<1> QED
  BY <1>1, Zenon DEF Init, SafeInv, Named, Held, InStep, Drained, Reserved, ReaderLive, Serving

LEMMA SafeStep == SafeInv /\ [Next]_vars => SafeInv'
<1> SUFFICES ASSUME SafeInv, [Next]_vars PROVE SafeInv'
  BY Zenon
<1>0. ControlOK'
  BY ControlStep, Zenon DEF SafeInv
<1> USE DEF SafeInv, Named, Held, InStep, Drained, Reserved, ReaderLive, Serving, connVars, sessVars, peerVars
<1>1. ASSUME NEW c \in Conns, Running, Step(c) PROVE SafeInv'
  <2> USE <1>0 DEF ControlOK, TaskStates
  <2>1. CASE Accept(c) \/ HelloOver(c) \/ HelloShutdown(c) \/ ClientClose(c)
    BY <2>1 DEF Accept, HelloOver, HelloShutdown, ClientClose
  <2>2. ASSUME NEW m \in FrameKinds, HelloSession(c, m) \/ ReadFrame(c, m) PROVE SafeInv'
    BY <2>2, SMTT(30) DEF HelloSession, ReadFrame, Join
  <2>3. CASE ReadStop(c) \/ ReadFail(c) \/ EnterCheck(c)
    BY <2>3 DEF ReadStop, ReadFail, EnterCheck, Abort, Join
  <2>4. ASSUME NEW n \in Names, EnterReject(c, n) PROVE SafeInv'
    BY <2>4 DEF EnterReject
  <2>4a. ASSUME NEW n \in Names, EnterReserve(c, n) PROVE SafeInv'
    BY <2>4a, NamesAssumption, SMTT(30) DEF EnterReserve, Normalize
  <2>5. CASE RejectWritten(c) \/ WriteResponse(c) \/ WriteFail(c) \/ WriteStop(c)
    BY <2>5, SMTT(30) DEF RejectWritten, WriteResponse, WriteFail, WriteStop, Abort, Join
  <2>6. CASE StartDevice(c) \/ StartFail(c) \/ StartReport(c)
    BY <2>6 DEF StartDevice, StartFail, StartReport
  <2>6a. CASE StartOk(c)
    BY <2>6a, SMTT(30) DEF StartOk
  <2>6b. CASE SpawnCheck(c) \/ StartFailed(c) \/ Release(c)
    BY <2>6b, SMTT(30) DEF SpawnCheck, StartFailed, Release
  <2>7. CASE ReaderInterrupted(c) \/ ReaderSend(c)
    BY <2>7 DEF ReaderInterrupted, ReaderSend
  <2>8. ASSUME NEW e \in {"packet", "error"}, ReaderEvent(c, e) PROVE SafeInv'
    BY <2>8, SMTT(30) DEF ReaderEvent
  <2>9. CASE LoopStop(c) \/ LoopTake(c) \/ CloseInterrupt(c) \/ CloseCleanup(c)
    BY <2>9 DEF LoopStop, LoopTake, CloseInterrupt, CloseCleanup
  <2>10. CASE JoinReader(c)
    BY <2>10 DEF JoinReader
  <2> HIDE DEF SafeInv, Named, Held, InStep, Drained, ControlOK, Reserved, ReaderLive, Serving
  <2> QED
    BY <1>1, <2>1, <2>2, <2>3, <2>4, <2>4a, <2>5, <2>6, <2>6a, <2>6b, <2>7, <2>8, <2>9, <2>10, SMTT(30) DEF Step
<1>2. CASE MainStop \/ MainJoin \/ MainDrained \/ MainDeadline \/ OwnerDies
  BY <1>0, <1>2 DEF MainStop, MainJoin, MainDrained, MainDeadline, OwnerDies
<1>3. CASE UNCHANGED vars
  BY <1>0, <1>3, Zenon DEF vars
<1> QED
  BY <1>1, <1>2, <1>3, NextSteps, Zenon

LEMMA SafeAlways == Spec => []SafeInv
BY SafeInit, SafeStep, PTL DEF Spec

\* active_sessions is at all times exactly the names of the session tasks that
\* session() has reserved for and that have not yet given their name back,
\* and no two of them share one.
THEOREM ReservationsAreExact == Spec => []ReservationsExact
<1>1. SafeInv => ReservationsExact
  BY HeldIsExact, Zenon DEF SafeInv
<1> QED
  BY <1>1, SafeAlways, PTL

\* A device, its reader thread and the routes and DNS configured for it never
\* outlive the reservation of the device's own name.
THEOREM OsIsReserved == Spec => []OsUnderReservation
<1>1. SafeInv => OsUnderReservation
  BY Zenon DEF SafeInv, Held, Named, InStep, OsUnderReservation, DeviceLive, Reserved
<1> QED
  BY <1>1, SafeAlways, PTL

\* When run() reports sessions_drained=true, no handler, reader or platform
\* configuration is left, and no task but one with a failure to report.
THEOREM ExitIsClean == Spec => []CleanExit
<1>1. SafeInv => CleanExit
  BY Zenon DEF SafeInv, Held, InStep, Drained, CleanExit, Reserved
<1> QED
  BY <1>1, SafeAlways, PTL

-----------------------------------------------------------------------------
(* Types and queues.                                                       *)

\* The incoming queue; session() finds the first frame in it.
InqOK ==
  /\ inq \in [Conns -> Seq(FrameKinds)]
  /\ \A c \in Conns : Len(inq[c]) <= InCap + 1
  /\ \A c \in Conns : Serving(c) /\ wr[c] = "enter" => inq[c] # <<>>

\* The stages of a task that has not queued anything yet.
BeforeLoop == {"none", "spawned", "starting", "configuring", "failed", "report"}

\* The response queue; Started is its first element, so it finds room.
OutqOK ==
  /\ outq \in [Conns -> Seq(Responses)]
  /\ \A c \in Conns : Len(outq[c]) <= OutCap
  /\ \A c \in Conns : task[c] \in BeforeLoop => outq[c] = <<>>

\* close() adds at most one error to the loop's.
ErrorsOK ==
  /\ errors \in [Conns -> 0 .. 2]
  /\ \A c \in Conns : task[c] \in {"closing", "cleaning"} => errors[c] <= 1

WroteOK == wrote \in [Conns -> Responses \cup {"none"}]

LEMMA QueueInit == Init => InqOK /\ OutqOK /\ ErrorsOK /\ WroteOK
<1> SUFFICES ASSUME Init PROVE InqOK /\ OutqOK /\ ErrorsOK /\ WroteOK
  BY Zenon
<1>1. InqOK
  BY BoundsAssumption DEF Init, InqOK, Serving
<1>2. OutqOK
  BY BoundsAssumption DEF Init, OutqOK
<1>3. ErrorsOK /\ WroteOK
  BY DEF Init, ErrorsOK, WroteOK
<1> QED
  BY <1>1, <1>2, <1>3, Zenon

\* What Append, Head, Tail, SubSeq and try_send do to a queue of S.
QueueOps(S, q) ==
  /\ Len(q) \in Nat
  /\ Len(<<>>) = 0 /\ <<>> \in Seq(S)
  /\ \A m \in S : /\ Append(q, m) \in Seq(S) /\ Append(q, m) # <<>>
                  /\ Len(Append(q, m)) = Len(q) + 1
                  /\ <<m>> \in Seq(S) /\ Len(<<m>>) = 1 /\ <<m>> # <<>>
                  /\ TrySend(q, m) \in Seq(S)
                  /\ Len(q) <= OutCap => Len(TrySend(q, m)) <= OutCap
  /\ q # <<>> => Head(q) \in S /\ Tail(q) \in Seq(S) /\ Len(Tail(q)) <= Len(q)
  /\ Len(q) > InCap => SubSeq(q, 1, InCap) \in Seq(S) /\ Len(SubSeq(q, 1, InCap)) = InCap

LEMMA QueueFacts == ASSUME NEW S, NEW q \in Seq(S) PROVE QueueOps(S, q)
<1>1. ASSUME NEW m \in S
      PROVE  /\ <<m>> \in Seq(S) /\ Len(<<m>>) = 1 /\ <<m>> # <<>>
             /\ Append(q, m) \in Seq(S) /\ Len(Append(q, m)) = Len(q) + 1 /\ Append(q, m) # <<>>
  <2>1. <<m>> \in Seq(S) /\ Len(<<m>>) = 1
    OBVIOUS
  <2>2. Append(q, m) \in Seq(S) /\ Len(Append(q, m)) = Len(q) + 1
    OBVIOUS
  <2>3. Len(<<>>) = 0 /\ Len(q) + 1 # 0
    OBVIOUS
  <2> QED
    BY <2>1, <2>2, <2>3, Zenon
<1>2. ASSUME NEW m \in S
      PROVE  TrySend(q, m) \in Seq(S) /\ (Len(q) <= OutCap => Len(TrySend(q, m)) <= OutCap)
  BY <1>1, BoundsAssumption DEF TrySend
<1>3. /\ q # <<>> => Head(q) \in S /\ Tail(q) \in Seq(S) /\ Len(Tail(q)) <= Len(q)
      /\ Len(q) > InCap => SubSeq(q, 1, InCap) \in Seq(S) /\ Len(SubSeq(q, 1, InCap)) = InCap
  BY BoundsAssumption
<1> QED
  BY <1>1, <1>2, <1>3 DEF QueueOps

LEMMA ErrorsStep == SafeInv /\ ErrorsOK /\ [Next]_vars => ErrorsOK'
<1> SUFFICES ASSUME SafeInv, ErrorsOK, [Next]_vars PROVE ErrorsOK'
  BY Zenon
<1>1. task \in [Conns -> TaskStates]
  BY Zenon DEF SafeInv, ControlOK
<1> USE <1>1 DEF ErrorsOK, connVars, sessVars, peerVars
<1>2. ASSUME NEW c \in Conns, NEW n \in Names, EnterReserve(c, n) PROVE ErrorsOK'
  BY <1>2, Zenon DEF EnterReserve
<1>3. ASSUME NEW c \in Conns, SpawnCheck(c) \/ StartDevice(c) \/ StartFail(c) \/ StartFailed(c) \/ StartReport(c) \/ StartOk(c)
      PROVE ErrorsOK'
  BY <1>3, Zenon DEF SpawnCheck, StartDevice, StartFail, StartFailed, StartReport, StartOk
<1>4. ASSUME NEW c \in Conns, LoopStop(c) \/ CloseInterrupt(c) \/ JoinReader(c) \/ Release(c) PROVE ErrorsOK'
  BY <1>4 DEF LoopStop, CloseInterrupt, JoinReader, Release
<1>4a. ASSUME NEW c \in Conns, LoopTake(c) \/ CloseCleanup(c) PROVE ErrorsOK'
  BY <1>4a DEF LoopTake, CloseCleanup
<1>5. ASSUME NEW c \in Conns, Step(c)
      PROVE  \/ UNCHANGED <<task, errors>>
             \/ \E n \in Names : EnterReserve(c, n)
             \/ SpawnCheck(c) \/ StartDevice(c) \/ StartFail(c) \/ StartFailed(c) \/ StartReport(c) \/ StartOk(c)
             \/ LoopStop(c) \/ CloseInterrupt(c) \/ JoinReader(c) \/ Release(c) \/ LoopTake(c) \/ CloseCleanup(c)
  BY <1>5, StepFrames, Zenon
<1>6. CASE UNCHANGED <<task, errors>>
  BY <1>6, Zenon
<1> HIDE DEF ErrorsOK
<1>7. \/ \E c \in Conns : Step(c)
      \/ UNCHANGED <<task, errors>>
  BY NextSteps, Zenon DEF vars, MainStop, MainJoin, MainDrained, MainDeadline, OwnerDies
<1> QED
  BY <1>2, <1>3, <1>4, <1>4a, <1>5, <1>6, <1>7, SMTT(30)

\* Replacing one connection's incoming queue by a sound one.
LEMMA InqUpdate ==
  ASSUME InqOK, NEW c \in Conns,
         NEW q \in Seq(FrameKinds), Len(q) <= InCap + 1,
         inq' = inq \/ inq' = [inq EXCEPT ![c] = q],
         \A d \in Conns \ {c} : phase'[d] = phase[d] /\ wr'[d] = wr[d],
         Serving(c)' /\ wr'[c] = "enter" => q # <<>> /\ inq[c] # <<>>
  PROVE  InqOK'
<1>1. inq' \in [Conns -> Seq(FrameKinds)]
  BY Zenon DEF InqOK
<1>2. \A d \in Conns : inq'[d] = inq[d] \/ (d = c /\ inq'[d] = q)
  BY Zenon DEF InqOK
<1>3. \A d \in Conns : Len(inq'[d]) <= InCap + 1
  BY <1>2, Zenon DEF InqOK
<1>4. \A d \in Conns : Serving(d)' /\ wr'[d] = "enter" => inq'[d] # <<>>
  BY <1>2, SMTT(30) DEF InqOK, Serving
<1> QED
  BY <1>1, <1>3, <1>4, SMTT(30) DEF InqOK

LEMMA InqStep == SafeInv /\ InqOK /\ [Next]_vars => InqOK'
<1> SUFFICES ASSUME SafeInv, InqOK, [Next]_vars PROVE InqOK'
  BY Zenon
<1>0. /\ phase \in [Conns -> {"off", "hello", "serving", "done"}]
      /\ rd \in [Conns -> {"read", "fail", "done"}]
      /\ wr \in [Conns -> {"enter", "reserve", "drain", "reject", "done"}]
  BY Zenon DEF SafeInv, ControlOK
<1>s. InStep
  BY Zenon DEF SafeInv
<1> USE <1>0 DEF connVars, sessVars, peerVars
<1>1. ASSUME NEW c \in Conns, Step(c) PROVE InqOK'
  <2>i. QueueOps(FrameKinds, inq[c]) /\ Len(inq[c]) <= InCap + 1 /\ inq[c] \in Seq(FrameKinds)
    BY QueueFacts, Zenon DEF InqOK
  <2>c. InCap \in Nat
    BY BoundsAssumption, Zenon
  <2>e. Serving(c) /\ wr[c] = "enter" => inq[c] # <<>>
    BY Zenon DEF InqOK
  <2>0. <<>> \in Seq(FrameKinds) /\ Len(<<>>) <= InCap + 1
    BY <2>i, <2>c DEF QueueOps
  <2>1. CASE Accept(c) \/ HelloOver(c) \/ HelloShutdown(c) \/ ClientClose(c)
    BY <2>1, Zenon DEF Accept, HelloOver, HelloShutdown, ClientClose, InqOK, Serving
  <2>2. ASSUME NEW m \in FrameKinds, HelloSession(c, m) PROVE InqOK'
    <3>1. <<m>> \in Seq(FrameKinds) /\ Len(<<m>>) <= InCap + 1 /\ <<m>> # <<>>
      BY <2>i, <2>c DEF QueueOps
    <3> QED
      BY <2>2, <2>i, <2>c, <3>1, SMTT(30) DEF HelloSession, InqOK, Serving
  <2>3. ASSUME NEW m \in FrameKinds, ReadFrame(c, m) PROVE InqOK'
    <3>1. /\ Append(inq[c], m) \in Seq(FrameKinds) /\ Append(inq[c], m) # <<>>
          /\ Len(Append(inq[c], m)) <= InCap + 1
      <4>1. ~(Len(inq[c]) > InCap)
        BY <2>3, Zenon DEF ReadFrame, ReadBlocked
      <4>2. /\ Append(inq[c], m) \in Seq(FrameKinds) /\ Append(inq[c], m) # <<>>
            /\ Len(Append(inq[c], m)) = Len(inq[c]) + 1 /\ Len(inq[c]) \in Nat
        BY <2>i, Zenon DEF QueueOps
      <4> QED
        BY <2>c, <4>1, <4>2
    <3>2. /\ inq' = inq \/ inq' = [inq EXCEPT ![c] = Append(inq[c], m)]
          /\ \A d \in Conns \ {c} : phase'[d] = phase[d] /\ wr'[d] = wr[d]
          /\ wr'[c] = wr[c] /\ Serving(c)
      BY <2>3, Zenon DEF ReadFrame, Join
    <3> QED
      BY <2>c, <2>e, <3>1, <3>2, InqUpdate, Zenon
  <2>4. CASE ReadStop(c)
    <3>1. /\ inq' = inq \/ inq' = [inq EXCEPT ![c] = <<>>]
          /\ \A d \in Conns \ {c} : phase'[d] = phase[d] /\ wr'[d] = wr[d]
          /\ wr'[c] = wr[c] /\ Serving(c)
          /\ wr[c] = "enter" => inq' = inq
      BY <2>4, Zenon DEF ReadStop, Join, IncomingOpen
    <3>2. CASE inq' = inq
      BY <2>c, <2>i, <2>e, <3>1, <3>2, InqUpdate, Zenon
    <3>3. CASE wr[c] # "enter"
      BY <2>c, <2>0, <3>1, <3>3, InqUpdate, Zenon
    <3> QED
      BY <3>1, <3>2, <3>3, Zenon
  <2>5. CASE ReadFail(c) \/ WriteFail(c)
    <3>1. PICK q \in Seq(FrameKinds) : Len(q) <= InCap + 1 /\ inq' = [inq EXCEPT ![c] = q]
      <4>1. /\ inq' = [inq EXCEPT ![c] = <<>>] \/ inq' = [inq EXCEPT ![c] = inq[c]]
               \/ (inq' = [inq EXCEPT ![c] = SubSeq(inq[c], 1, InCap)] /\ Len(inq[c]) > InCap)
        BY <2>5, Zenon DEF ReadFail, WriteFail, Abort, ReadBlocked
      <4>2. Len(inq[c]) > InCap =>
              SubSeq(inq[c], 1, InCap) \in Seq(FrameKinds) /\ Len(SubSeq(inq[c], 1, InCap)) <= InCap + 1
        BY <2>i, <2>c DEF QueueOps
      <4> QED
        BY <4>1, <4>2, <2>i, <2>0, Zenon
    <3>2. /\ \A d \in Conns \ {c} : phase'[d] = phase[d] /\ wr'[d] = wr[d]
          /\ wr'[c] = "done"
      BY <2>5, Zenon DEF ReadFail, WriteFail, Abort, Join
    <3> QED
      BY <2>c, <3>1, <3>2, InqUpdate, Zenon
  <2>6. CASE EnterCheck(c)
    <3>1. PICK q \in Seq(FrameKinds) : Len(q) <= InCap + 1 /\ (inq' = inq \/ inq' = [inq EXCEPT ![c] = q])
      <4>1. inq[c] # <<>> => Tail(inq[c]) \in Seq(FrameKinds) /\ Len(Tail(inq[c])) <= InCap + 1
        BY <2>i, <2>c DEF QueueOps
      <4> QED
        BY <2>6, <2>e, <2>0, <4>1, Zenon DEF EnterCheck, DropIncoming
    <3>2. /\ \A d \in Conns \ {c} : phase'[d] = phase[d] /\ wr'[d] = wr[d]
          /\ wr'[c] # "enter"
      BY <2>6, Zenon DEF EnterCheck
    <3> QED
      BY <2>c, <3>1, <3>2, InqUpdate, Zenon
  <2>7. ASSUME NEW n \in Names, EnterReject(c, n) \/ EnterReserve(c, n) PROVE InqOK'
    <3>1. /\ inq' = inq \/ inq' = [inq EXCEPT ![c] = <<>>]
          /\ \A d \in Conns \ {c} : phase'[d] = phase[d] /\ wr'[d] = wr[d]
          /\ wr'[c] # "enter"
      BY <2>7, Zenon DEF EnterReject, EnterReserve, DropIncoming
    <3> QED
      BY <2>c, <2>0, <3>1, InqUpdate, Zenon
  <2>8. CASE RejectWritten(c) \/ WriteStop(c)
    <3>1. /\ inq' = inq
          /\ \A d \in Conns \ {c} : phase'[d] = phase[d] /\ wr'[d] = wr[d]
          /\ wr'[c] # "enter"
      BY <2>8, Zenon DEF RejectWritten, WriteStop, Join
    <3> QED
      BY <2>c, <2>0, <3>1, InqUpdate, ZenonT(30)
  <2>9. CASE SpawnCheck(c) \/ StartReport(c) \/ Release(c)
    <3>1. /\ inq' = inq \/ inq' = [inq EXCEPT ![c] = <<>>]
          /\ phase' = phase /\ wr' = wr
          /\ ~(Serving(c) /\ wr[c] = "enter")
      BY <1>s, <2>9, Zenon DEF SpawnCheck, StartReport, Release, DropIncoming, InStep
    <3> QED
      BY <2>c, <2>0, <3>1, InqUpdate, ZenonT(30) DEF Serving
  <2>10. CASE LoopTake(c)
    <3>1. /\ inq' = [inq EXCEPT ![c] = Tail(inq[c])]
          /\ phase' = phase /\ wr' = wr
          /\ ~(Serving(c) /\ wr[c] = "enter")
      BY <1>s, <2>10, Zenon DEF LoopTake, InStep
    <3>2. Tail(inq[c]) \in Seq(FrameKinds) /\ Len(Tail(inq[c])) <= InCap + 1
      <4>1. inq[c] # <<>>
        BY <2>10, Zenon DEF LoopTake
      <4>2. Tail(inq[c]) \in Seq(FrameKinds) /\ Len(Tail(inq[c])) <= Len(inq[c]) /\ Len(inq[c]) \in Nat
        BY <2>i, <4>1, Zenon DEF QueueOps
      <4>3. Len(Tail(inq[c])) \in Nat
        BY <4>2
      <4> QED
        BY <2>i, <2>c, <4>2, <4>3
    <3> QED
      BY <2>c, <3>1, <3>2, InqUpdate, ZenonT(30) DEF Serving
  <2>11. CASE UNCHANGED <<phase, wr, inq>>
    BY <2>11, SMTT(30) DEF InqOK, Serving
  <2>12. CASE WriteResponse(c) \/ StartDevice(c) \/ StartFail(c) \/ StartFailed(c) \/ StartOk(c)
    BY <2>11, <2>12, Zenon DEF WriteResponse, StartDevice, StartFail, StartFailed, StartOk
  <2>13. CASE \/ \E e \in {"packet", "error"} : ReaderEvent(c, e)
              \/ ReaderInterrupted(c) \/ ReaderSend(c)
    BY <2>11, <2>13, Zenon DEF ReaderEvent, ReaderInterrupted, ReaderSend
  <2>14. CASE LoopStop(c) \/ CloseInterrupt(c) \/ CloseCleanup(c) \/ JoinReader(c)
    BY <2>11, <2>14, Zenon DEF LoopStop, CloseInterrupt, CloseCleanup, JoinReader
  <2> QED
    BY <1>1, <2>1, <2>2, <2>3, <2>4, <2>5, <2>6, <2>7, <2>8, <2>9, <2>10, <2>12, <2>13, <2>14, SMTT(30) DEF Step
<1>2. CASE UNCHANGED <<phase, wr, inq>>
  BY <1>2, Zenon DEF InqOK, Serving
<1>3. \/ \E c \in Conns : Step(c)
      \/ UNCHANGED <<phase, wr, inq>>
  BY NextSteps, Zenon DEF vars, MainStop, MainJoin, MainDrained, MainDeadline, OwnerDies
<1> QED
  BY <1>1, <1>2, <1>3, Zenon

\* Replacing one connection's response queue by a sound one.
LEMMA OutqUpdate ==
  ASSUME OutqOK, NEW c \in Conns,
         NEW q \in Seq(Responses), Len(q) <= OutCap,
         outq' = outq \/ outq' = [outq EXCEPT ![c] = q],
         \A d \in Conns \ {c} : task'[d] = task[d],
         task'[c] \in BeforeLoop => outq'[c] = <<>>
  PROVE  OutqOK'
<1>1. outq' \in [Conns -> Seq(Responses)]
  BY Zenon DEF OutqOK
<1>2. \A d \in Conns : outq'[d] = outq[d] \/ (d = c /\ outq'[d] = q)
  BY Zenon DEF OutqOK
<1>3. \A d \in Conns : Len(outq'[d]) <= OutCap
  BY <1>2, Zenon DEF OutqOK
<1>4. \A d \in Conns : task'[d] \in BeforeLoop => outq'[d] = <<>>
  BY <1>2, Zenon DEF OutqOK
<1> QED
  BY <1>1, <1>3, <1>4, Zenon DEF OutqOK

LEMMA OutqStep == SafeInv /\ OutqOK /\ [Next]_vars => OutqOK'
<1> SUFFICES ASSUME SafeInv, OutqOK, [Next]_vars PROVE OutqOK'
  BY Zenon
<1>0. task \in [Conns -> TaskStates] /\ InStep
  BY Zenon DEF SafeInv, ControlOK
<1>2. CASE UNCHANGED <<task, outq>>
  BY <1>2, Zenon DEF OutqOK
<1> USE <1>0 DEF connVars, sessVars, peerVars
<1>1. ASSUME NEW c \in Conns, Step(c) PROVE OutqOK'
  <2>o. /\ QueueOps(Responses, outq[c]) /\ Len(outq[c]) <= OutCap /\ outq[c] \in Seq(Responses)
        /\ outq \in [Conns -> Seq(Responses)] /\ (task[c] \in BeforeLoop => outq[c] = <<>>)
    BY QueueFacts, Zenon DEF OutqOK
  <2>c. OutCap \in Nat \ {0}
    BY BoundsAssumption, Zenon
  <2>m. \A m \in Responses : /\ TrySend(outq[c], m) \in Seq(Responses)
                             /\ Len(TrySend(outq[c], m)) <= OutCap
    BY <2>o, Zenon DEF QueueOps
  <2>1. CASE ReadFail(c) \/ WriteFail(c) \/ WriteStop(c)
    <3>1. outq' = [outq EXCEPT ![c] = <<>>] /\ task' = task
      BY <2>1, Zenon DEF ReadFail, WriteFail, WriteStop, Abort
    <3>2. <<>> \in Seq(Responses) /\ Len(<<>>) <= OutCap /\ outq'[c] = <<>>
      BY <2>o, <2>c, <3>1 DEF QueueOps
    <3> QED
      BY <3>1, <3>2, OutqUpdate, ZenonT(30)
  <2>2. CASE WriteResponse(c)
    <3>1. outq' = [outq EXCEPT ![c] = Tail(outq[c])] /\ task' = task /\ outq[c] # <<>>
      BY <2>2, Zenon DEF WriteResponse
    <3>2. Tail(outq[c]) \in Seq(Responses) /\ Len(Tail(outq[c])) <= Len(outq[c]) /\ Len(outq[c]) \in Nat
      BY <2>o, <3>1, Zenon DEF QueueOps
    <3>3. Len(Tail(outq[c])) <= OutCap
      BY <2>o, <2>c, <3>2
    <3> QED
      BY <2>o, <3>1, <3>2, <3>3, OutqUpdate, Zenon
  <2>3. ASSUME NEW n \in Names, EnterReserve(c, n) PROVE OutqOK'
    <3>1. outq' = outq /\ task' = [task EXCEPT ![c] = "spawned"] /\ task[c] = "none"
      BY <2>3, Zenon DEF EnterReserve, InStep
    <3> QED
      BY <2>o, <3>1, OutqUpdate, Zenon DEF BeforeLoop
  <2>4. CASE SpawnCheck(c) \/ StartDevice(c) \/ StartFail(c) \/ StartFailed(c)
    <3>1. /\ outq' = outq /\ task[c] \in BeforeLoop
          /\ \A d \in Conns \ {c} : task'[d] = task[d]
      BY <2>4, Zenon DEF SpawnCheck, StartDevice, StartFail, StartFailed, BeforeLoop
    <3> QED
      BY <2>o, <3>1, OutqUpdate, Zenon
  <2>5. CASE StartReport(c)
    <3>1. outq' = outq \/ outq' = [outq EXCEPT ![c] = TrySend(outq[c], "status")]
      BY <2>5, SMTT(30) DEF StartReport, Respond
    <3>2. task' = [task EXCEPT ![c] = "ended"]
      BY <2>5, Zenon DEF StartReport
    <3> QED
      BY <2>m, <3>1, <3>2, OutqUpdate, Zenon DEF BeforeLoop, Responses
  <2>6. CASE StartOk(c)
    <3>1. outq' = outq \/ outq' = [outq EXCEPT ![c] = Append(outq[c], "started")]
      BY <2>6, Zenon DEF StartOk, Respond
    <3>2. task' = [task EXCEPT ![c] = "loop"] /\ outq[c] = <<>>
      BY <2>6, <2>o, Zenon DEF StartOk, BeforeLoop
    <3>3. Append(outq[c], "started") \in Seq(Responses) /\ Len(Append(outq[c], "started")) = Len(outq[c]) + 1
      BY <2>o, Zenon DEF QueueOps, Responses
    <3>4. Len(Append(outq[c], "started")) <= OutCap
      BY <2>o, <2>c, <3>2, <3>3 DEF QueueOps
    <3> QED
      BY <3>1, <3>2, <3>3, <3>4, OutqUpdate, ZenonT(30) DEF BeforeLoop
  <2>7. CASE ReaderSend(c)
    <3>1. task[c] \notin BeforeLoop /\ task' = task
      BY <2>7, Zenon DEF ReaderSend, InStep, ReaderLive, BeforeLoop
    <3>2. PICK m \in Responses : outq' = outq \/ (Len(outq[c]) < OutCap /\ outq' = [outq EXCEPT ![c] = Append(@, m)])
      BY <2>7, Zenon DEF ReaderSend, Responses
    <3>3. CASE outq' = outq
      BY <1>2, <3>1, <3>3, Zenon
    <3>4. CASE Len(outq[c]) < OutCap /\ outq' = [outq EXCEPT ![c] = Append(@, m)]
      <4>1. Append(outq[c], m) \in Seq(Responses) /\ Len(Append(outq[c], m)) <= OutCap
        BY <3>4, <2>o, <2>c DEF QueueOps
      <4> QED
        BY <3>1, <3>4, <4>1, OutqUpdate, Zenon
    <3> QED
      BY <3>2, <3>3, <3>4, SMTT(30)
  <2>8. CASE JoinReader(c)
    <3> DEFINE once == TrySend(outq[c], "error")
               twice == TrySend(once, "error")
    <3>e. "error" \in Responses
      BY Zenon DEF Responses
    <3>1. once \in Seq(Responses) /\ Len(once) <= OutCap
      BY <2>m, <3>e, Zenon
    <3>2. QueueOps(Responses, once)
      BY <3>1, QueueFacts, Zenon
    <3>3. twice \in Seq(Responses) /\ Len(twice) <= OutCap
      BY <3>1, <3>2, <3>e, Zenon DEF QueueOps
    <3>4. task' = [task EXCEPT ![c] = "release"]
      BY <2>8, Zenon DEF JoinReader
    <3>5. \/ outq' = outq \/ outq' = [outq EXCEPT ![c] = outq[c]]
          \/ outq' = [outq EXCEPT ![c] = once] \/ outq' = [outq EXCEPT ![c] = twice]
      <4>1. CASE errors[c] = 0
        BY <2>8, <4>1 DEF JoinReader, Respond
      <4>2. CASE errors[c] = 1
        BY <2>8, <4>2 DEF JoinReader, Respond
      <4>3. CASE errors[c] # 0 /\ errors[c] # 1
        BY <2>8, <4>3, Zenon DEF JoinReader, Respond
      <4> QED
        BY <4>1, <4>2, <4>3, Zenon
    <3> HIDE DEF once, twice
    <3> QED
      BY <2>o, <3>1, <3>3, <3>4, <3>5, OutqUpdate, Zenon DEF BeforeLoop
  <2>9. CASE LoopStop(c) \/ LoopTake(c) \/ CloseInterrupt(c) \/ CloseCleanup(c) \/ Release(c)
    <3>1. /\ outq' = outq /\ task'[c] \notin BeforeLoop
          /\ \A d \in Conns \ {c} : task'[d] = task[d]
      BY <2>9, Zenon DEF LoopStop, LoopTake, CloseInterrupt, CloseCleanup, Release, BeforeLoop
    <3> QED
      BY <2>o, <3>1, OutqUpdate, ZenonT(30)
  <2>11. CASE Accept(c) \/ HelloOver(c) \/ HelloShutdown(c) \/ ClientClose(c)
    BY <1>2, <2>11, SMTT(30) DEF Accept, HelloOver, HelloShutdown, ClientClose
  <2>12. ASSUME NEW m \in FrameKinds, HelloSession(c, m) \/ ReadFrame(c, m) PROVE OutqOK'
    BY <1>2, <2>12, Zenon DEF HelloSession, ReadFrame
  <2>13. CASE \/ ReadStop(c) \/ EnterCheck(c) \/ RejectWritten(c)
              \/ \E n \in Names : EnterReject(c, n)
    BY <1>2, <2>13, Zenon DEF ReadStop, EnterCheck, RejectWritten, EnterReject
  <2>14. CASE ReaderInterrupted(c) \/ \E e \in {"packet", "error"} : ReaderEvent(c, e)
    BY <1>2, <2>14, Zenon DEF ReaderInterrupted, ReaderEvent
  <2> QED
    BY <1>1, <2>1, <2>2, <2>3, <2>4, <2>5, <2>6, <2>7, <2>8, <2>9, <2>11, <2>12, <2>13, <2>14, SMTT(30) DEF Step
<1>3. \/ \E c \in Conns : Step(c)
      \/ UNCHANGED <<task, outq>>
  BY NextSteps, Zenon DEF vars, MainStop, MainJoin, MainDrained, MainDeadline, OwnerDies
<1> QED
  BY <1>1, <1>2, <1>3, Zenon

LEMMA WroteStep == OutqOK /\ WroteOK /\ [Next]_vars => WroteOK'
<1> SUFFICES ASSUME OutqOK, WroteOK, [Next]_vars PROVE WroteOK'
  BY Zenon
<1>1. ASSUME NEW c \in Conns, RejectWritten(c) PROVE WroteOK'
  BY <1>1, Zenon DEF RejectWritten, WroteOK, Responses
<1>2. ASSUME NEW c \in Conns, WriteResponse(c) PROVE WroteOK'
  <2>1. outq[c] # <<>> => Head(outq[c]) \in Responses
    BY QueueFacts, Zenon DEF QueueOps, OutqOK
  <2> QED
    BY <1>2, <2>1, Zenon DEF WriteResponse, WroteOK
<1>3. CASE UNCHANGED wrote
  BY <1>3, Zenon DEF WroteOK
<1>4. ASSUME NEW c \in Conns, Step(c) PROVE RejectWritten(c) \/ WriteResponse(c) \/ UNCHANGED wrote
  BY <1>4, StepFrames, Zenon
<1>5. (\E c \in Conns : Step(c)) \/ UNCHANGED wrote
  BY NextSteps, Zenon DEF vars, connVars, MainStop, MainJoin, MainDrained, MainDeadline, OwnerDies
<1> QED
  BY <1>1, <1>2, <1>3, <1>4, <1>5, SMTT(30)

\* Types and queue bounds: no handler, task or reader step takes a queue past
\* its capacity, although Started is sent without looking and the teardown
\* may have two errors to report.
THEOREM Typed == Spec => []TypeOK
<1>1. SafeInv /\ InqOK /\ OutqOK /\ ErrorsOK /\ WroteOK => TypeOK
  BY Zenon DEF SafeInv, ControlOK, InqOK, OutqOK, ErrorsOK, WroteOK, TypeOK
<1> QED
  BY <1>1, SafeAlways, QueueInit, InqStep, OutqStep, ErrorsStep, WroteStep, PTL DEF Spec
=============================================================================
