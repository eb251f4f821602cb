--------------------------- MODULE LibraryProofs ----------------------------
(***************************************************************************)
(* Proofs about the library: VpnLifecycle, for any number of opens and     *)
(* failures; WindowsPipe, for any finite set of threads; PeerSessions, for *)
(* any peers, configurations and number of sessions; OwnedDaemon, for any  *)
(* threads and any daemons.                                                *)
(***************************************************************************)
EXTENDS VpnLifecycle, WindowsPipe, PeerSessions, OwnedDaemon, FiniteSetTheorems, TLAPS

-----------------------------------------------------------------------------
(* The life of a VPN.                                                      *)

StopSteps == {"f1", "f2", "i1", "i2", "s1", "s2", "s3", "c1", "c2", "c3"}

OpenSteps == {"reconcile", "crypto", "bind", "workers", "session", "assign"}

\* The shape of the state: only the application opens, and a stop that open
\* begins with goes on to reconcileSessions.
TypeOK ==
  /\ gen \in 0 .. MaxOpens
  /\ live \subseteq Kinds \X Runs
  /\ loops \subseteq Callbacks
  /\ field \in [Kinds -> 0 .. MaxOpens]
  /\ running \in BOOLEAN
  /\ pc \in [Actors -> {"idle"} \cup StopSteps \cup OpenSteps]
  /\ ret \in {"idle", "reconcile"}
  /\ failures \in Nat
  /\ calm \in BOOLEAN
  /\ ret = "reconcile" => pc[app] \in StopSteps
  /\ \A c \in Callbacks : pc[c] \notin OpenSteps
  /\ Opening => gen > 0

LEMMA ThreadFacts ==
  /\ app \in Actors /\ app \notin Callbacks
  /\ \A c \in Callbacks : c \in Actors /\ c # app
  /\ \A t \in Actors : t = app \/ t \in Callbacks
BY DEF Actors, Callbacks, app, LoopKinds

LEMMA TypeInit == Init => TypeOK
<1> SUFFICES ASSUME Init PROVE TypeOK
  BY Zenon
<1> USE BoundsAssumption, ThreadFacts
<1>1. /\ gen \in 0 .. MaxOpens /\ failures \in Nat /\ live \subseteq Kinds \X Runs /\ loops \subseteq Callbacks
      /\ field \in [Kinds -> 0 .. MaxOpens]
  BY DEF Init
<1>2. running \in BOOLEAN /\ calm \in BOOLEAN
  BY Zenon DEF Init
<1>3. /\ pc \in [Actors -> {"idle"} \cup StopSteps \cup OpenSteps] /\ ret \in {"idle", "reconcile"}
      /\ ret # "reconcile" /\ ~Opening
      /\ \A c \in Callbacks : pc[c] \notin OpenSteps
  BY Zenon DEF Init, OpenSteps, Opening
<1> QED
  BY <1>1, <1>2, <1>3, Zenon DEF TypeOK

LEMMA TypeStep == TypeOK /\ [Next]_vars => TypeOK'
<1> SUFFICES ASSUME TypeOK, [Next]_vars PROVE TypeOK'
  BY Zenon
<1> USE BoundsAssumption, ThreadFacts
<1>k. \A k \in Kinds : Held(k) = {<<k, field[k]>>}
  BY Zenon DEF Held
<1>r. \A r \in 0 .. MaxOpens : r > 0 => r \in Runs
  BY DEF Runs
<1>g. /\ "sessions" \in Kinds /\ "crypto" \in Kinds /\ "socket" \in Kinds /\ "workers" \in Kinds /\ "bridge" \in Kinds
      /\ "crypto" \in LoopKinds /\ "workers" \in LoopKinds /\ "bridge" \in LoopKinds
  BY Zenon DEF Kinds, LoopKinds
<1>1. ASSUME NEW t \in Actors, StopStep(t) PROVE TypeOK'
  <2>1. gen' = gen /\ live' \subseteq live /\ loops' = loops /\ failures' = failures /\ calm' = calm
    BY <1>1, Zenon DEF StopStep, CloseBridge, ForgetBridge, ClearRunning, CloseSockets, ForgetSockets, CancelCrypto,
         CloseSessions, ForgetSessions
  <2>2. running' \in BOOLEAN
    BY <1>1, Zenon DEF TypeOK, StopStep, CloseBridge, ForgetBridge, ClearRunning, CloseSockets, ForgetSockets, CancelCrypto,
         CloseSessions, ForgetSessions
  <2>3. field' = field \/ \E ks : Clear(ks)
    BY <1>1, Zenon DEF StopStep, CloseBridge, ForgetBridge, ClearRunning, CloseSockets, ForgetSockets, CancelCrypto,
         CloseSessions, ForgetSessions
  <2>4. field' \in [Kinds -> 0 .. MaxOpens]
    BY <2>3 DEF Clear, TypeOK
  <2>5. /\ pc[t] \in StopSteps
        /\ \/ ret' = ret /\ \E l \in StopSteps : Goto(t, l)
           \/ t = app /\ Goto(t, ret) /\ ret' = "idle"
           \/ t # app /\ Goto(t, "idle") /\ ret' = ret
    BY <1>1, Zenon DEF StopStep, CloseBridge, ForgetBridge, ClearRunning, CloseSockets, ForgetSockets, CancelCrypto,
         CloseSessions, ForgetSessions, StopSteps, Goto
  <2>6. /\ pc' \in [Actors -> {"idle"} \cup StopSteps \cup OpenSteps] /\ ret' \in {"idle", "reconcile"}
        /\ ret' = "reconcile" => pc'[app] \in StopSteps
        /\ \A c \in Callbacks : pc'[c] \notin OpenSteps
        /\ Opening' => Opening
    BY <2>5 DEF TypeOK, Goto, StopSteps, OpenSteps, Opening
  <2> QED
    BY <2>1, <2>2, <2>4, <2>6, Zenon DEF TypeOK
<1>2. CASE Stop \/ Open
  <2>1. /\ pc' \in [Actors -> {"idle"} \cup StopSteps \cup OpenSteps] /\ ret' \in {"idle", "reconcile"}
        /\ ret' = "reconcile" => pc'[app] \in StopSteps
        /\ \A c \in Callbacks : pc'[c] \notin OpenSteps
        /\ gen' \in 0 .. MaxOpens /\ (Opening' => gen' > 0)
    BY <1>2 DEF TypeOK, Stop, Open, Goto, StopSteps, OpenSteps, Opening
  <2>2. calm' \in BOOLEAN
    BY <1>2, Zenon DEF TypeOK, Stop, Open
  <2> QED
    BY <1>2, <2>1, <2>2, Zenon DEF TypeOK, Stop, Open
<1>3. CASE OpenStep
  <2>1. /\ gen \in Runs /\ gen > 0 /\ gen' = gen /\ failures' = failures /\ calm' = calm /\ ret' = ret /\ ret = "idle"
        /\ pc[app] \in OpenSteps
    BY <1>3, <1>r, Zenon DEF OpenStep, Reconcile, StartCrypto, Bind, StartWorkers, OpenSession, AssignBridge, Throw, TypeOK,
         Opening, OpenSteps, StopSteps
  <2>2. \E l \in {"idle", "i1"} \cup OpenSteps : Goto(app, l)
    BY <1>3, Zenon DEF OpenStep, Reconcile, StartCrypto, Bind, StartWorkers, OpenSession, AssignBridge, Throw, OpenSteps
  <2>3. \E k \in Kinds : live' \subseteq live \cup {<<k, gen>>}
    BY <1>3, <1>g, Zenon DEF OpenStep, Reconcile, StartCrypto, Bind, StartWorkers, OpenSession, AssignBridge, Throw
  <2>4. \E k \in LoopKinds : loops' \subseteq loops \cup {<<k, gen>>}
    BY <1>3, <1>g, Zenon DEF OpenStep, Reconcile, StartCrypto, Bind, StartWorkers, OpenSession, AssignBridge, Throw
  <2>5. field' = field \/ (\E ks : Clear(ks)) \/ (\E k \in Kinds : Store(k))
    BY <1>3, <1>g, Zenon DEF OpenStep, Reconcile, StartCrypto, Bind, StartWorkers, OpenSession, AssignBridge, Throw
  <2>6. field' \in [Kinds -> 0 .. MaxOpens]
    BY <2>1, <2>5 DEF Clear, Store, TypeOK
  <2>7. /\ pc' \in [Actors -> {"idle"} \cup StopSteps \cup OpenSteps]
        /\ ret' \in {"idle", "reconcile"} /\ ret' # "reconcile"
        /\ \A c \in Callbacks : pc'[c] \notin OpenSteps
    BY <2>1, <2>2 DEF TypeOK, Goto, StopSteps
  <2>8. running' \in BOOLEAN
    BY <1>3, Zenon DEF OpenStep, Reconcile, StartCrypto, Bind, StartWorkers, OpenSession, AssignBridge, Throw, TypeOK
  <2>9. live' \subseteq Kinds \X Runs
    BY <2>1, <2>3 DEF TypeOK
  <2>10. loops' \subseteq Callbacks
    BY <2>1, <2>4, Zenon DEF TypeOK, Callbacks
  <2>11. gen' \in 0 .. MaxOpens /\ gen' > 0 /\ failures' \in Nat /\ calm' \in BOOLEAN
    BY <2>1, Zenon DEF TypeOK
  <2> QED
    BY <2>6, <2>7, <2>8, <2>9, <2>10, <2>11, Zenon DEF TypeOK
<1>4. ASSUME NEW c \in Callbacks, LoopFail(c) \/ LoopQuit(c) PROVE TypeOK'
  <2>1. /\ gen' = gen /\ live' \subseteq live /\ loops' \subseteq loops /\ field' = field /\ running' = running /\ ret' = ret
        /\ failures' = failures \/ failures' = failures + 1
        /\ pc' = pc \/ Goto(c, "f1") \/ Goto(c, "i1")
    BY <1>4, Zenon DEF LoopFail, LoopQuit
  <2>2. calm' \in BOOLEAN
    BY <1>4, Zenon DEF LoopFail, LoopQuit, TypeOK
  <2>3. /\ pc' \in [Actors -> {"idle"} \cup StopSteps \cup OpenSteps]
        /\ ret' = "reconcile" => pc'[app] \in StopSteps
        /\ \A d \in Callbacks : pc'[d] \notin OpenSteps
        /\ Opening' => gen' > 0
    BY <2>1 DEF TypeOK, Goto, StopSteps, OpenSteps, Opening
  <2>4. failures' \in Nat
    BY <2>1 DEF TypeOK
  <2> QED
    BY <2>1, <2>2, <2>3, <2>4, Zenon DEF TypeOK
<1>5. CASE UNCHANGED vars
  BY <1>5, Zenon DEF vars, TypeOK, Opening
<1> QED
  BY <1>1, <1>2, <1>3, <1>4, <1>5, Zenon DEF Next

-----------------------------------------------------------------------------
(* Calm opens.                                                             *)

\* The resource of kind k that run r made is open.
L(k, r) == <<k, r>> \in live

Down(k) == \A r \in Runs : ~L(k, r)

AnyAt(l) == \E t \in Actors : pc[t] = l

\* No callback is under way while the application is inside open.
Alone == Opening => \A c \in Callbacks : pc[c] = "idle"

\* A loop that still runs has not called back yet.
Fresh == \A c \in loops : pc[c] = "idle"

Referred ==
  \A k \in Kinds, r \in Runs :
    L(k, r) => field[k] = r \/ (k = "bridge" /\ r = gen /\ pc[app] = "assign")

OneRun == \A j, k \in Kinds, q, r \in Runs : L(j, q) /\ L(k, r) => q = r

\* SocketManagerImpl.running says whether a stop will reach the sockets: if
\* it is false, they are closed, being closed, or not launched yet.
SocketsSeen ==
  /\ ~running => (Down("socket") /\ Down("workers")) \/ AnyAt("s2") \/ pc[app] = "workers"
  /\ field["socket"] # 0 => ~Down("socket") \/ AnyAt("s3")

\* What a stop has closed by the time it has come to t's step.  The sockets
\* may be left to another stop, which then is at s2.
Past(t) ==
  /\ pc[t] \in {"f2", "i2", "s1", "s2", "s3", "c1", "c2", "c3"} => Down("bridge")
  /\ pc[t] = "s3" => Down("socket") /\ Down("workers")
  /\ pc[t] \in {"c1", "c2", "c3"} => (Down("socket") /\ Down("workers")) \/ AnyAt("s2")
  /\ pc[t] \in {"c2", "c3"} => Down("crypto")
  /\ pc[t] = "c3" => Down("sessions")

\* The steps of open at which kind k is up.
Made(k) ==
  CASE k = "sessions" -> {"crypto", "bind", "workers", "session", "assign"}
    [] k = "crypto" -> {"bind", "workers", "session", "assign"}
    [] k = "socket" -> {"workers", "session", "assign"}
    [] k = "workers" -> {"session", "assign"}
    [] k = "bridge" -> {"assign"}

\* open has built exactly what its steps so far make, for the new run.
SoFar ==
  pc[app] \in OpenSteps =>
    \A k \in Kinds, r \in Runs : L(k, r) <=> (r = gen /\ pc[app] \in Made(k))

\* The bridge goes first and comes last, and sockets without one are on
\* their way up or about to be closed.
Whole ==
  /\ ~Down("bridge") => \A k \in Kinds : ~Down(k)
  /\ ~Down("socket") /\ Down("bridge") =>
       \/ pc[app] \in {"workers", "session"}
       \/ \E t \in Actors : pc[t] \in {"f1", "f2", "i1", "i2", "s1", "s2"}

CalmFacts ==
  /\ Alone /\ Fresh /\ Referred /\ OneRun /\ SocketsSeen
  /\ \A t \in Actors : Past(t)
  /\ SoFar /\ Whole

CalmInv == calm => CalmFacts

LEMMA CalmInit == Init => CalmInv
<1> SUFFICES ASSUME Init PROVE CalmFacts
  BY Zenon DEF CalmInv
<1>1. /\ \A k, r : ~L(k, r)
      /\ \A t \in Actors : pc[t] = "idle"
      /\ field["socket"] = 0 /\ loops = {}
  BY Zenon DEF Init, L, Kinds
<1>2. pc[app] = "idle"
  BY <1>1, ThreadFacts, Zenon
<1>3. \A c \in Callbacks : pc[c] = "idle"
  BY <1>1, ThreadFacts, Zenon
<1> QED
  BY <1>1, <1>2, <1>3, Zenon DEF CalmFacts, Alone, Fresh, Referred, OneRun, SocketsSeen, Past, SoFar, Whole, Down, AnyAt, OpenSteps

\* What the pieces of an action do to L.
LEMMA LiveOps ==
  ASSUME TypeOK, NEW k \in Kinds, NEW r \in Runs
  PROVE  /\ \A j \in Kinds : live' = live \ Held(j) => (L(k, r)' <=> L(k, r) /\ ~(k = j /\ r = field[j]))
         /\ \A i, j \in Kinds : live' = live \ (Held(i) \cup Held(j)) =>
              (L(k, r)' <=> L(k, r) /\ ~(k = i /\ r = field[i]) /\ ~(k = j /\ r = field[j]))
         /\ \A j \in Kinds : live' = live \cup {<<j, gen>>} => (L(k, r)' <=> L(k, r) \/ (k = j /\ r = gen))
         /\ \A j \in Kinds : live' = (live \ Held(j)) \cup {<<j, gen>>} =>
              (L(k, r)' <=> (L(k, r) /\ ~(k = j /\ r = field[j])) \/ (k = j /\ r = gen))
         /\ live' = live => (L(k, r)' <=> L(k, r))
BY Zenon DEF L, Held


\* A step of stop, by any thread, while the opens are calm.
LEMMA CalmStop ==
  ASSUME TypeOK, calm, CalmFacts, NEW t \in Actors, StopStep(t)
  PROVE  CalmFacts'
<1> USE ThreadFacts, BoundsAssumption
<1>0. /\ pc \in [Actors -> {"idle"} \cup StopSteps \cup OpenSteps]
      /\ field \in [Kinds -> 0 .. MaxOpens] /\ ret \in {"idle", "reconcile"} /\ running \in BOOLEAN
      /\ "bridge" \in Kinds /\ "socket" \in Kinds /\ "workers" \in Kinds /\ "crypto" \in Kinds /\ "sessions" \in Kinds
      /\ gen \in 0 .. MaxOpens /\ loops \subseteq Callbacks
  BY Zenon DEF TypeOK, Kinds
<1> USE <1>0
<1>1. /\ gen' = gen /\ loops' = loops /\ pc[t] \in StopSteps
      /\ \/ ret' = ret /\ \E l \in StopSteps : pc' = [pc EXCEPT ![t] = l]
         \/ t = app /\ pc' = [pc EXCEPT ![t] = ret] /\ ret' = "idle"
         \/ t # app /\ pc' = [pc EXCEPT ![t] = "idle"] /\ ret' = ret
  BY ZenonT(60) DEF StopStep, CloseBridge, ForgetBridge, ClearRunning, CloseSockets, ForgetSockets, CancelCrypto,
         CloseSessions, ForgetSessions, StopSteps, Goto
<1>2. pc[app] \notin OpenSteps
  BY <1>1, Zenon DEF StopSteps, OpenSteps, CalmFacts, Alone, Opening
<1>3. \A k \in Kinds, r \in Runs : L(k, r) => field[k] = r
  BY <1>2, Zenon DEF CalmFacts, Referred, OpenSteps
<1>4. \A k \in Kinds, r \in Runs : L(k, r)' => L(k, r)
  BY ZenonT(60) DEF L, StopStep, CloseBridge, ForgetBridge, ClearRunning, CloseSockets, ForgetSockets, CancelCrypto,
         CloseSessions, ForgetSessions
<1>5. Alone' /\ Fresh'
  BY <1>1, Zenon DEF CalmFacts, Alone, Fresh, Opening, StopSteps
<1>6. OneRun'
  BY <1>4, Zenon DEF CalmFacts, OneRun
<1>7. \A k \in Kinds : Down(k) => Down(k)'
  BY <1>4, Zenon DEF Down
<1>8. ASSUME NEW l \in StopSteps, pc' = [pc EXCEPT ![t] = l] PROVE SoFar'
  BY <1>8, <1>2, Zenon DEF SoFar, StopSteps, OpenSteps
<1>9. CASE CloseBridge(t)
  <2>1. \A k \in Kinds, r \in Runs : L(k, r)' <=> L(k, r) /\ ~(k = "bridge" /\ r = field["bridge"])
    BY <1>9, LiveOps, Zenon DEF CloseBridge
  <2>2. /\ field' = field /\ running' = running
        /\ \/ pc[t] = "f1" /\ pc' = [pc EXCEPT ![t] = "f2"]
           \/ pc[t] = "i1" /\ pc' = [pc EXCEPT ![t] = "i2"]
    BY <1>9, Zenon DEF CloseBridge, Goto
  <2>3. Down("bridge")'
    BY <2>1, <2>2, <1>3, Zenon DEF Down
  <2>4. \A k \in Kinds \ {"bridge"} : Down(k)' <=> Down(k)
    BY <2>1, Zenon DEF Down
  <2>5. Referred' /\ SocketsSeen'
    BY <1>3, <1>4, <2>2, <2>4, Zenon DEF CalmFacts, Referred, SocketsSeen, AnyAt
  <2>6. \A u \in Actors : Past(u)'
    BY <2>2, <2>3, <2>4, Zenon DEF CalmFacts, Past, AnyAt
  <2>7. SoFar' /\ Whole'
    BY <1>8, <2>2, <2>3, <2>4, Zenon DEF CalmFacts, Whole, StopSteps
  <2> QED
    BY <1>5, <1>6, <2>5, <2>6, <2>7, Zenon DEF CalmFacts
<1>10. CASE ForgetBridge(t)
  <2>1. /\ \A k \in Kinds : Down(k)' <=> Down(k)
        /\ Down("bridge") /\ running' = running
        /\ \A k \in Kinds \ {"bridge"} : field'[k] = field[k]
        /\ \/ pc[t] = "f2" /\ pc' = [pc EXCEPT ![t] = "i1"]
           \/ pc[t] = "i2" /\ pc' = [pc EXCEPT ![t] = "s1"]
    BY <1>10, LiveOps, Zenon DEF ForgetBridge, Goto, Clear, Down, CalmFacts, Past
  <2>2. Referred'
    BY <1>3, <1>4, <2>1 DEF Referred, Down
  <2>3. SocketsSeen' /\ \A u \in Actors : Past(u)'
    BY <2>1, Zenon DEF CalmFacts, SocketsSeen, Past, AnyAt
  <2>4. SoFar' /\ Whole'
    BY <1>8, <2>1, SMTT(60) DEF CalmFacts, Whole, StopSteps
  <2> QED
    BY <1>5, <1>6, <2>2, <2>3, <2>4, SMTT(60) DEF CalmFacts
<1>11. CASE ClearRunning(t)
  <2>1. /\ \A k \in Kinds : Down(k)' <=> Down(k)
        /\ Down("bridge") /\ ~running' /\ field' = field /\ pc[t] = "s1"
        /\ \/ running /\ pc' = [pc EXCEPT ![t] = "s2"]
           \/ ~running /\ pc' = [pc EXCEPT ![t] = "c1"]
    BY <1>11, LiveOps, ZenonT(60) DEF ClearRunning, Goto, Down, CalmFacts, Past
  <2>2. Referred'
    BY <1>3, <1>4, <2>1, Zenon DEF Referred
  <2>3. ~running => (Down("socket") /\ Down("workers")) \/ AnyAt("s2")
    BY <1>2, Zenon DEF CalmFacts, SocketsSeen, OpenSteps
  <2>4. SocketsSeen' /\ \A u \in Actors : Past(u)'
    BY <2>1, <2>3, Zenon DEF CalmFacts, SocketsSeen, Past, AnyAt
  <2>5. SoFar' /\ Whole'
    BY <1>8, <2>1, <2>3, Zenon DEF CalmFacts, Whole, StopSteps, AnyAt
  <2> QED
    BY <1>5, <1>6, <2>2, <2>4, <2>5, Zenon DEF CalmFacts
<1>12. CASE CloseSockets(t)
  <2>1. \A k \in Kinds, r \in Runs :
          L(k, r)' <=> L(k, r) /\ ~(k = "socket" /\ r = field["socket"]) /\ ~(k = "workers" /\ r = field["workers"])
    BY <1>12, LiveOps, Zenon DEF CloseSockets
  <2>2. field' = field /\ running' = running /\ pc[t] = "s2" /\ pc' = [pc EXCEPT ![t] = "s3"]
    BY <1>12, Zenon DEF CloseSockets, Goto
  <2>3. Down("socket")' /\ Down("workers")'
    BY <2>1, <2>2, <1>3, Zenon DEF Down
  <2>4. \A k \in Kinds \ {"socket", "workers"} : Down(k)' <=> Down(k)
    BY <2>1, Zenon DEF Down
  <2>5. Referred' /\ SocketsSeen'
    BY <1>3, <1>4, <2>2, <2>3, Zenon DEF CalmFacts, Referred, SocketsSeen, AnyAt
  <2>6. \A u \in Actors : Past(u)'
    BY <2>2, <2>3, <2>4, Zenon DEF CalmFacts, Past, AnyAt
  <2>7. SoFar' /\ Whole'
    BY <1>8, <2>2, <2>3, <2>4, Zenon DEF CalmFacts, Whole, StopSteps, Past
  <2> QED
    BY <1>5, <1>6, <2>5, <2>6, <2>7, Zenon DEF CalmFacts
<1>13. CASE ForgetSockets(t)
  <2>1. /\ \A k \in Kinds : Down(k)' <=> Down(k)
        /\ Down("bridge") /\ Down("socket") /\ Down("workers") /\ running' = running /\ pc[t] = "s3"
        /\ field'["socket"] = 0
        /\ \A k \in Kinds \ {"socket", "workers"} : field'[k] = field[k]
        /\ pc' = [pc EXCEPT ![t] = "c1"]
    BY <1>13, LiveOps, Zenon DEF ForgetSockets, Goto, Clear, Down, CalmFacts, Past
  <2>2. Referred'
    BY <1>3, <1>4, <2>1 DEF Referred, Down
  <2>3. SocketsSeen' /\ \A u \in Actors : Past(u)'
    BY <2>1, Zenon DEF CalmFacts, SocketsSeen, Past, AnyAt
  <2>4. SoFar' /\ Whole'
    BY <1>8, <2>1, Zenon DEF CalmFacts, Whole, StopSteps
  <2> QED
    BY <1>5, <1>6, <2>2, <2>3, <2>4, Zenon DEF CalmFacts
<1>14. CASE CancelCrypto(t)
  <2>1. \A k \in Kinds, r \in Runs : L(k, r)' <=> L(k, r) /\ ~(k = "crypto" /\ r = field["crypto"])
    BY <1>14, LiveOps, Zenon DEF CancelCrypto
  <2>2. field' = field /\ running' = running /\ pc[t] = "c1" /\ pc' = [pc EXCEPT ![t] = "c2"]
    BY <1>14, Zenon DEF CancelCrypto, Goto
  <2>3. Down("crypto")'
    BY <2>1, <2>2, <1>3, Zenon DEF Down
  <2>4. \A k \in Kinds \ {"crypto"} : Down(k)' <=> Down(k)
    BY <2>1, Zenon DEF Down
  <2>5. Referred' /\ SocketsSeen'
    BY <1>3, <1>4, <2>2, <2>4, Zenon DEF CalmFacts, Referred, SocketsSeen, AnyAt
  <2>6. \A u \in Actors : Past(u)'
    BY <2>2, <2>3, <2>4, Zenon DEF CalmFacts, Past, AnyAt
  <2>7. SoFar' /\ Whole'
    BY <1>8, <2>2, <2>3, <2>4, Zenon DEF CalmFacts, Whole, StopSteps, Past
  <2> QED
    BY <1>5, <1>6, <2>5, <2>6, <2>7, Zenon DEF CalmFacts
<1>15. CASE CloseSessions(t)
  <2>1. \A k \in Kinds, r \in Runs : L(k, r)' <=> L(k, r) /\ ~(k = "sessions" /\ r = field["sessions"])
    BY <1>15, LiveOps, Zenon DEF CloseSessions
  <2>2. /\ running' = running /\ pc[t] = "c2" /\ pc' = [pc EXCEPT ![t] = "c3"] /\ Down("crypto")
        /\ \A k \in Kinds \ {"crypto"} : field'[k] = field[k]
    BY <1>15, Zenon DEF CloseSessions, Goto, Clear, CalmFacts, Past
  <2>3. Down("sessions")'
    BY <2>1, <1>3, Zenon DEF Down
  <2>4. \A k \in Kinds \ {"sessions"} : Down(k)' <=> Down(k)
    BY <2>1, Zenon DEF Down
  <2>5. Referred' /\ SocketsSeen'
    BY <1>3, <1>4, <2>2, <2>4 DEF CalmFacts, Referred, SocketsSeen, AnyAt, Down
  <2>6. \A u \in Actors : Past(u)'
    BY <2>2, <2>3, <2>4, Zenon DEF CalmFacts, Past, AnyAt
  <2>7. SoFar' /\ Whole'
    BY <1>8, <2>2, <2>3, <2>4, Zenon DEF CalmFacts, Whole, StopSteps, Past
  <2> QED
    BY <1>5, <1>6, <2>5, <2>6, <2>7, Zenon DEF CalmFacts
<1>16. CASE ForgetSessions(t)
  <2>1. /\ \A k \in Kinds : Down(k)' <=> Down(k)
        /\ running' = running /\ pc[t] = "c3" /\ pc' = [pc EXCEPT ![t] = IF t = app THEN ret ELSE "idle"]
        /\ \A k \in Kinds \ {"sessions"} : field'[k] = field[k]
    BY <1>16, LiveOps, Zenon DEF ForgetSessions, Goto, Clear, Down
  <2>2. /\ Down("bridge") /\ Down("crypto") /\ Down("sessions")
        /\ (Down("socket") /\ Down("workers")) \/ AnyAt("s2")
    BY <2>1, Zenon DEF CalmFacts, Past
  <2>3. Referred'
    BY <1>3, <1>4, <2>1, <2>2 DEF Referred, Down
  <2>4. SocketsSeen' /\ \A u \in Actors : Past(u)'
    BY <2>1, <2>2, Zenon DEF CalmFacts, SocketsSeen, Past, AnyAt
  <2>5. SoFar'
    <3>1. CASE t = app /\ ret = "reconcile"
      <4>1. \A c \in Callbacks : pc[c] = "idle"
        BY <3>1, Zenon DEF CalmFacts, Alone, Opening
      <4>2. \A k \in Kinds : Down(k)'
        BY <4>1, <3>1, <2>1, <2>2, Zenon DEF AnyAt, Kinds
      <4>3. \A k \in Kinds, r \in Runs : ~L(k, r)'
        BY <4>2, Zenon DEF Down
      <4>4. \A k \in Kinds : "reconcile" \notin Made(k)
        BY Zenon DEF Made, Kinds
      <4> QED
        BY <4>3, <4>4, <3>1, <2>1, Zenon DEF SoFar
    <3>2. CASE ~(t = app /\ ret = "reconcile")
      BY <3>2, <1>2, <2>1, Zenon DEF SoFar, OpenSteps
    <3> QED
      BY <3>1, <3>2, Zenon
  <2>6. Whole'
    BY <2>1, <2>2, Zenon DEF CalmFacts, Whole, AnyAt
  <2> QED
    BY <1>5, <1>6, <2>3, <2>4, <2>5, <2>6, Zenon DEF CalmFacts
<1> QED
  BY <1>9, <1>10, <1>11, <1>12, <1>13, <1>14, <1>15, <1>16, Zenon DEF StopStep

\* A step of open past its stop, while the opens are calm: no callback is
\* under way, so that the application works alone.
LEMMA CalmOpen ==
  ASSUME TypeOK, calm, CalmFacts, OpenStep
  PROVE  CalmFacts'
<1> USE ThreadFacts, BoundsAssumption
<1>0. /\ pc \in [Actors -> {"idle"} \cup StopSteps \cup OpenSteps]
      /\ field \in [Kinds -> 0 .. MaxOpens] /\ ret \in {"idle", "reconcile"} /\ running \in BOOLEAN
      /\ "bridge" \in Kinds /\ "socket" \in Kinds /\ "workers" \in Kinds /\ "crypto" \in Kinds /\ "sessions" \in Kinds
      /\ gen \in 0 .. MaxOpens /\ loops \subseteq Callbacks
  BY Zenon DEF TypeOK, Kinds
<1> USE <1>0
<1>1. pc[app] \in OpenSteps /\ gen' = gen /\ ret' = ret
  BY ZenonT(60) DEF OpenStep, Reconcile, StartCrypto, Bind, StartWorkers, OpenSession, AssignBridge, Throw, OpenSteps
<1>2. gen \in Runs /\ ret = "idle" /\ \A c \in Callbacks : pc[c] = "idle"
  BY <1>1 DEF TypeOK, CalmFacts, Alone, Opening, OpenSteps, StopSteps, Runs
<1>3. \A k \in Kinds, r \in Runs : L(k, r) <=> (r = gen /\ pc[app] \in Made(k))
  BY <1>1, Zenon DEF CalmFacts, SoFar
<1>4. \A k \in Kinds : Down(k) <=> pc[app] \notin Made(k)
  BY <1>2, <1>3, Zenon DEF Down
<1>5. /\ Made("sessions") = {"crypto", "bind", "workers", "session", "assign"}
      /\ Made("crypto") = {"bind", "workers", "session", "assign"}
      /\ Made("socket") = {"workers", "session", "assign"}
      /\ Made("workers") = {"session", "assign"}
      /\ Made("bridge") = {"assign"}
  BY Zenon DEF Made
<1>6. \E l \in {"idle", "i1"} \cup OpenSteps : pc' = [pc EXCEPT ![app] = l]
  BY ZenonT(60) DEF OpenStep, Reconcile, StartCrypto, Bind, StartWorkers, OpenSession, AssignBridge, Throw, OpenSteps, Goto
<1>7. loops' \subseteq Callbacks
  BY <1>2, ZenonT(60) DEF OpenStep, Reconcile, StartCrypto, Bind, StartWorkers, OpenSession, AssignBridge, Throw, Callbacks,
       LoopKinds
<1>8. Alone' /\ Fresh' /\ \A c \in Callbacks : pc'[c] = "idle"
  BY <1>2, <1>6, <1>7, Zenon DEF Alone, Fresh
<1>9. \A t \in Actors : Past(t)'
  <2>1. \A t \in Actors : pc'[t] \notin {"f2", "i2", "s1", "s2", "s3", "c1", "c2", "c3"}
    BY <1>6, <1>8, Zenon DEF OpenSteps
  <2> QED
    BY <2>1, Zenon DEF Past
\* What is left when open has come to l with the resources that go with l.
<1>10. ASSUME NEW l \in OpenSteps, pc' = [pc EXCEPT ![app] = l],
              \A k \in Kinds, r \in Runs : L(k, r)' <=> (r = gen /\ l \in Made(k)),
              \A k \in Kinds \ {"bridge"} : l \in Made(k) => field'[k] = gen,
              l = "session" \/ l = "assign" => running',
              field'["socket"] # 0 => l \in Made("socket")
       PROVE  CalmFacts'
  <2>1. \A k \in Kinds : Down(k)' <=> l \notin Made(k)
    BY <1>2, <1>10, Zenon DEF Down
  <2>2. OneRun' /\ SoFar'
    BY <1>1, <1>10, Zenon DEF OneRun, SoFar
  <2>3. Referred'
    BY <1>1, <1>5, <1>10, Zenon DEF Referred
  <2>4. SocketsSeen'
    BY <1>5, <1>10, <2>1, Zenon DEF SocketsSeen, OpenSteps
  <2>5. Whole'
    BY <1>5, <1>10, <2>1, Zenon DEF Whole, OpenSteps, Kinds
  <2> QED
    BY <1>8, <1>9, <2>2, <2>3, <2>4, <2>5, Zenon DEF CalmFacts
\* An operation of open throws before the sockets are bound.
<1>11. ASSUME Throw, pc[app] \in {"reconcile", "bind"} PROVE CalmFacts'
  <2>1. /\ pc' = [pc EXCEPT ![app] = "idle"] /\ field' = field
        /\ \A k \in Kinds, r \in Runs : L(k, r)' <=> L(k, r)
    BY <1>11, LiveOps, Zenon DEF Throw, Goto
  <2>2. Down("bridge")' /\ Down("socket")' /\ Down("workers")' /\ Down("socket")
    BY <1>4, <1>5, <1>11, <2>1, Zenon DEF Down
  <2>3. Referred' /\ OneRun' /\ SoFar'
    BY <1>11, <2>1, Zenon DEF CalmFacts, Referred, OneRun, SoFar, OpenSteps
  <2>4. ~AnyAt("s3")
    BY <1>2, <1>11, SMTT(60) DEF AnyAt
  <2>5. SocketsSeen' /\ Whole'
    BY <2>1, <2>2, <2>4, Zenon DEF CalmFacts, SocketsSeen, Whole
  <2> QED
    BY <1>8, <1>9, <2>3, <2>5, Zenon DEF CalmFacts
<1>12. \A k \in Kinds \ {"bridge"} : pc[app] \in Made(k) => field[k] = gen
  BY <1>2, <1>3, Zenon DEF CalmFacts, Referred
<1>13. field["socket"] # 0 => pc[app] \in Made("socket")
  <2>1. ~AnyAt("s3")
    BY <1>1, <1>2, Zenon DEF AnyAt, OpenSteps
  <2> QED
    BY <1>4, <2>1, Zenon DEF CalmFacts, SocketsSeen
<1>14. pc[app] \in {"session", "assign"} => running
  <2>1. ~AnyAt("s2")
    BY <1>1, <1>2, Zenon DEF AnyAt, OpenSteps
  <2> QED
    BY <1>4, <1>5, <2>1, Zenon DEF CalmFacts, SocketsSeen
<1>15. CASE Reconcile
  <2>1. CASE Throw
    BY <1>11, <1>15, <2>1, SMTT(60) DEF Reconcile
  <2>2. CASE ~Throw
    <3>1. /\ pc[app] = "reconcile" /\ pc' = [pc EXCEPT ![app] = "crypto"]
          /\ field' = [field EXCEPT !["sessions"] = gen] /\ live' = (live \ Held("sessions")) \cup {<<"sessions", gen>>}
      BY <1>15, <2>2, ZenonT(60) DEF Reconcile, Goto, Store
    <3>2. \A k \in Kinds, r \in Runs : L(k, r)' <=> (r = gen /\ "crypto" \in Made(k))
      <4>1. \A k \in Kinds, r \in Runs :
              L(k, r)' <=> (L(k, r) /\ ~(k = "sessions" /\ r = field["sessions"])) \/ (k = "sessions" /\ r = gen)
        BY <3>1, LiveOps, Zenon
      <4> QED
        BY <1>3, <1>5, <3>1, <4>1 DEF Kinds
    <3> QED
      BY <1>5, <1>10, <1>12, <1>13, <3>1, <3>2, SMTT(60) DEF OpenSteps, Kinds
  <2> QED
    BY <2>1, <2>2, Zenon
<1>16. CASE StartCrypto
  <2>1. /\ pc[app] = "crypto" /\ pc' = [pc EXCEPT ![app] = "bind"]
        /\ field' = [field EXCEPT !["crypto"] = gen] /\ live' = (live \ Held("crypto")) \cup {<<"crypto", gen>>}
    BY <1>16, Zenon DEF StartCrypto, Goto, Store
  <2>2. \A k \in Kinds, r \in Runs : L(k, r)' <=> (r = gen /\ "bind" \in Made(k))
    <3>1. \A k \in Kinds, r \in Runs :
            L(k, r)' <=> (L(k, r) /\ ~(k = "crypto" /\ r = field["crypto"])) \/ (k = "crypto" /\ r = gen)
      BY <2>1, LiveOps, SMTT(60)
    <3> QED
      BY <1>3, <1>5, <2>1, <3>1 DEF Kinds
  <2> QED
    BY <1>5, <1>10, <1>12, <1>13, <2>1, <2>2, Zenon DEF OpenSteps, Kinds
<1>17. CASE Bind
  <2>1. field["socket"] = 0
    BY <1>5, <1>13, <1>17, SMTT(60) DEF Bind
  <2>2. CASE Throw
    BY <1>11, <1>17, <2>2, SMTT(60) DEF Bind
  <2>3. CASE ~Throw
    <3>1. /\ pc[app] = "bind" /\ pc' = [pc EXCEPT ![app] = "workers"]
          /\ field' = [field EXCEPT !["socket"] = gen] /\ live' = live \cup {<<"socket", gen>>}
      BY <1>17, <2>1, <2>3, ZenonT(60) DEF Bind, Goto, Store
    <3>2. \A k \in Kinds, r \in Runs : L(k, r)' <=> (r = gen /\ "workers" \in Made(k))
      <4>1. \A k \in Kinds, r \in Runs :
              L(k, r)' <=> L(k, r) \/ (k = "socket" /\ r = gen)
        BY <3>1, LiveOps, Zenon
      <4> QED
        BY <1>3, <1>5, <3>1, <4>1 DEF Kinds
    <3> QED
      BY <1>5, <1>10, <1>12, <3>1, <3>2, Zenon DEF OpenSteps, Kinds
  <2> QED
    BY <2>2, <2>3, Zenon
<1>18. CASE StartWorkers
  <2>1. /\ pc[app] = "workers" /\ pc' = [pc EXCEPT ![app] = "session"] /\ running'
        /\ field' = [field EXCEPT !["workers"] = gen] /\ live' = live \cup {<<"workers", gen>>}
    BY <1>18, Zenon DEF StartWorkers, Goto, Store
  <2>2. \A k \in Kinds, r \in Runs : L(k, r)' <=> (r = gen /\ "session" \in Made(k))
    <3>1. \A k \in Kinds, r \in Runs :
            L(k, r)' <=> L(k, r) \/ (k = "workers" /\ r = gen)
      BY <2>1, LiveOps, Zenon
    <3> QED
      BY <1>3, <1>5, <2>1, <3>1, Zenon DEF Kinds
  <2> QED
    BY <1>5, <1>10, <1>12, <2>1, <2>2, Zenon DEF OpenSteps, Kinds
<1>19. CASE OpenSession
  <2>1. /\ pc[app] = "session" /\ running' = running
        /\ \A k \in Kinds \ {"bridge"} : field'[k] = field[k]
    BY <1>19, Zenon DEF OpenSession, Clear
  <2>2. CASE live' = live \ Held("bridge") /\ pc' = [pc EXCEPT ![app] = "i1"]
    <3>1. \A k \in Kinds, r \in Runs : L(k, r)' <=> L(k, r)
      BY <1>3, <1>5, <2>1, <2>2, LiveOps, Zenon
    <3>2. \A k \in Kinds : Down(k)' <=> Down(k)
      BY <3>1, Zenon DEF Down
    <3>3. OneRun' /\ SoFar'
      BY <2>2, <3>1, Zenon DEF CalmFacts, OneRun, SoFar, OpenSteps
    <3>4. Referred'
      BY <1>3, <1>5, <1>12, <2>1, <3>1, Zenon DEF Referred
    <3>5. SocketsSeen'
      BY <1>4, <1>5, <1>14, <2>1, <3>2, Zenon DEF SocketsSeen
    <3>6. Whole'
      BY <1>4, <1>5, <2>1, <2>2, <3>2, Zenon DEF Whole
    <3> QED
      BY <1>8, <1>9, <3>3, <3>4, <3>5, <3>6, SMTT(60) DEF CalmFacts
  <2>3. CASE live' = (live \ Held("bridge")) \cup {<<"bridge", gen>>} /\ pc' = [pc EXCEPT ![app] = "assign"]
    <3>1. \A k \in Kinds, r \in Runs : L(k, r)' <=> (r = gen /\ "assign" \in Made(k))
      <4>1. \A k \in Kinds, r \in Runs :
              L(k, r)' <=> (L(k, r) /\ ~(k = "bridge" /\ r = field["bridge"])) \/ (k = "bridge" /\ r = gen)
        BY <2>1, <2>3, LiveOps, SMTT(60)
      <4> QED
        BY <1>3, <1>5, <2>1, <2>3, <4>1, SMTT(60) DEF Kinds
    <3>2. \A k \in Kinds \ {"bridge"} : field'[k] = gen
      BY <1>5, <1>12, <2>1, Zenon DEF Kinds
    <3> QED
      BY <1>5, <1>10, <1>14, <2>1, <2>3, <3>1, <3>2, Zenon DEF OpenSteps
  <2> QED
    BY <1>19, <2>2, <2>3, Zenon DEF OpenSession, Goto
<1>20. CASE AssignBridge
  <2>1. /\ pc[app] = "assign" /\ pc' = [pc EXCEPT ![app] = "idle"] /\ running' = running
        /\ field' = [field EXCEPT !["bridge"] = gen]
        /\ \A k \in Kinds, r \in Runs : L(k, r)' <=> L(k, r)
    BY <1>20, LiveOps, Zenon DEF AssignBridge, Goto, Store
  <2>2. \A k \in Kinds : ~Down(k)' /\ pc[app] \in Made(k)
    BY <1>2, <1>3, <1>5, <2>1, Zenon DEF Down, Kinds
  <2>3. OneRun' /\ SoFar'
    BY <2>1, Zenon DEF CalmFacts, OneRun, SoFar, OpenSteps
  <2>4. Referred'
    BY <1>3, <1>12, <2>1, <2>2, Zenon DEF Referred
  <2>5. SocketsSeen' /\ Whole'
    BY <1>14, <2>1, <2>2, Zenon DEF SocketsSeen, Whole
  <2> QED
    BY <1>8, <1>9, <2>3, <2>4, <2>5, SMTT(60) DEF CalmFacts
<1> QED
  BY <1>15, <1>16, <1>17, <1>18, <1>19, <1>20, Zenon DEF OpenStep

LEMMA CalmStep == TypeOK /\ CalmInv /\ [Next]_vars => CalmInv'
<1> SUFFICES ASSUME TypeOK, calm, CalmFacts, [Next]_vars, calm' PROVE CalmFacts'
  <2>1. ASSUME [Next]_vars PROVE calm' => calm
    BY <2>1, ZenonT(60) DEF Next, vars, Stop, Open, OpenStep, Reconcile, StartCrypto, Bind, StartWorkers, OpenSession, AssignBridge, Throw,
         StopStep, CloseBridge, ForgetBridge, ClearRunning, CloseSockets, ForgetSockets, CancelCrypto, CloseSessions,
         ForgetSessions, LoopFail, LoopQuit
  <2> QED
    BY <2>1, Zenon DEF CalmInv
<1> USE ThreadFacts
<1>0. /\ pc \in [Actors -> {"idle"} \cup StopSteps \cup OpenSteps] /\ ret \in {"idle", "reconcile"}
      /\ loops \subseteq Callbacks /\ Callbacks = LoopKinds \X Runs
      /\ ret = "reconcile" => pc[app] \in StopSteps
      /\ "bridge" \in Kinds /\ "socket" \in Kinds /\ "workers" \in Kinds /\ "crypto" \in Kinds /\ "sessions" \in Kinds
  BY Zenon DEF TypeOK, Kinds, Callbacks
<1> USE <1>0
<1>1. CASE Stop \/ Open
  <2>1. /\ loops' = loops /\ field' = field /\ running' = running
        /\ pc[app] = "idle" /\ pc' = [pc EXCEPT ![app] = "i1"]
        /\ \A k \in Kinds, r \in Runs : L(k, r)' <=> L(k, r)
    BY <1>1, LiveOps, ZenonT(60) DEF Stop, Open, Goto
  <2>2. \A k \in Kinds : Down(k)' <=> Down(k)
    BY <2>1, Zenon DEF Down
  <2>3. Alone'
    <3>1. CASE Stop
      BY <3>1, <2>1, Zenon DEF Stop, CalmFacts, Alone, Opening, StopSteps
    <3>2. CASE Open
      <4>1. Quiet
        BY <3>2, ZenonT(60) DEF Open
      <4> QED
        BY <4>1, <2>1, Zenon DEF Quiet, Alone
    <3> QED
      BY <1>1, <3>1, <3>2, Zenon
  <2>4. Fresh' /\ Referred' /\ OneRun' /\ SoFar'
    BY <2>1, Zenon DEF CalmFacts, Fresh, Referred, OneRun, SoFar, OpenSteps
  <2>5. SocketsSeen' /\ Whole'
    BY <2>1, <2>2, Zenon DEF CalmFacts, SocketsSeen, Whole, AnyAt
  <2>6. \A t \in Actors : Past(t)'
    BY <2>1, <2>2, Zenon DEF CalmFacts, Past, AnyAt
  <2> QED
    BY <2>3, <2>4, <2>5, <2>6, SMTT(60) DEF CalmFacts
<1>2. ASSUME NEW c \in Callbacks, LoopFail(c) PROVE CalmFacts'
  <2>1. ~Opening
    BY <1>2, ZenonT(60) DEF LoopFail
  <2>2. /\ gen' = gen /\ field' = field /\ running' = running /\ ret' = ret /\ loops' = loops \ {c} /\ pc[c] = "idle"
        /\ \E l \in {"f1", "i1"} : pc' = [pc EXCEPT ![c] = l]
        /\ live' = live \/ (c[1] = "bridge" /\ live' = live \ {c})
    BY <1>2, Zenon DEF LoopFail, Goto, CalmFacts, Fresh
  <2>3. /\ \A k \in Kinds, r \in Runs : L(k, r)' => L(k, r)
        /\ \A k \in Kinds \ {"bridge"}, r \in Runs : L(k, r)' <=> L(k, r)
    BY <2>2 DEF L
  <2>4. /\ \A k \in Kinds : Down(k) => Down(k)'
        /\ \A k \in Kinds \ {"bridge"} : Down(k)' <=> Down(k)
    BY <2>3, Zenon DEF Down
  <2>5. Alone' /\ SoFar'
    BY <2>1, <2>2, Zenon DEF Alone, SoFar, Opening, OpenSteps
  <2>6. Fresh' /\ Referred' /\ OneRun'
    BY <2>1, <2>2, <2>3, Zenon DEF CalmFacts, Fresh, Referred, OneRun, Opening
  <2>7. SocketsSeen' /\ \A t \in Actors : Past(t)'
    BY <2>1, <2>2, <2>4, Zenon DEF CalmFacts, SocketsSeen, Past, AnyAt, Opening
  <2>8. Whole'
    BY <2>2, <2>4 DEF CalmFacts, Whole
  <2> QED
    BY <2>5, <2>6, <2>7, <2>8, Zenon DEF CalmFacts
<1>3. CASE UNCHANGED vars \/ \E c \in Callbacks : LoopQuit(c)
  <2>1. /\ gen' = gen /\ field' = field /\ running' = running /\ ret' = ret /\ loops' \subseteq loops /\ pc' = pc /\ live' = live
    BY <1>3, Zenon DEF LoopQuit, vars
  <2>2. \A k, r : L(k, r)' <=> L(k, r)
    BY <2>1, Zenon DEF L
  <2>3. \A k : Down(k)' <=> Down(k)
    BY <2>2, SMTT(60) DEF Down
  <2>4. Alone' /\ Fresh' /\ Referred' /\ OneRun' /\ SoFar'
    BY <2>1, <2>2, Zenon DEF CalmFacts, Alone, Fresh, Referred, OneRun, SoFar, Opening
  <2>5. SocketsSeen' /\ Whole'
    BY <2>1, <2>3, ZenonT(30) DEF CalmFacts, SocketsSeen, Whole, AnyAt
  <2>6. \A t \in Actors : Past(t)'
    BY <2>1, <2>3, ZenonT(30) DEF CalmFacts, Past, AnyAt
  <2> QED
    BY <2>4, <2>5, <2>6, SMTT(60) DEF CalmFacts
<1> QED
  BY <1>1, <1>2, <1>3, CalmStop, CalmOpen, Zenon DEF Next

LEMMA CalmAlways == Spec => [](TypeOK /\ CalmInv)
BY TypeInit, TypeStep, CalmInit, CalmStep, PTL DEF Spec

\* With calm opens no resource of a run is ever lost: whatever is open is what
\* its field refers to, or the bridge that start is about to store, so that
\* the next stop reaches it; and two runs never overlap.
THEOREM NothingIsLost == Spec => []NothingLost
<1>1. TypeOK /\ CalmInv => NothingLost
  <2> SUFFICES ASSUME TypeOK, calm, CalmFacts, NEW x \in live, NEW y \in live
               PROVE  /\ field[x[1]] = x[2] \/ (x = <<"bridge", gen>> /\ pc[app] = "assign")
                      /\ x[2] = y[2]
    BY Zenon DEF CalmInv, NothingLost
  <2>1. /\ x[1] \in Kinds /\ x[2] \in Runs /\ x = <<x[1], x[2]>> /\ L(x[1], x[2])
        /\ y[1] \in Kinds /\ y[2] \in Runs /\ L(y[1], y[2])
    BY DEF TypeOK, L
  <2> QED
    BY <2>1, Zenon DEF CalmFacts, Referred, OneRun
<1> QED
  BY <1>1, CalmAlways, PTL

\* With calm opens, once every call has returned, a daemon session is open
\* exactly if the UDP sockets are, and then the peer sessions and the loops
\* are too, however many stops ran side by side.
THEOREM UpAsAWhole == Spec => []WholeOrDown
<1>1. TypeOK /\ CalmInv => WholeOrDown
  <2> SUFFICES ASSUME TypeOK, CalmFacts, Quiet
               PROVE  /\ Up("bridge") <=> Up("socket")
                      /\ Up("bridge") => \A k \in Kinds : Up(k)
    BY Zenon DEF CalmInv, WholeOrDown
  <2>1. \A k : Up(k) <=> ~Down(k)
    BY ZenonT(60) DEF Up, Down, L
  <2>2. pc[app] = "idle" /\ "socket" \in Kinds
    BY ThreadFacts, Zenon DEF Quiet, Kinds
  <2> QED
    BY <2>1, <2>2, Zenon DEF CalmFacts, Whole, Quiet
<1> QED
  BY <1>1, CalmAlways, PTL

-----------------------------------------------------------------------------
(* The pipe.                                                               *)

\* activeIo counts the threads inside a transfer.
Counted == activeIo = Cardinality(Registered)

\* The handle goes from open to closed when the connection is closed and the
\* last registered thread is out, and never comes back.
HandleState ==
  /\ handle = "none" => ~closed /\ closes = 0 /\ (\A t \in Threads : pipePc[t] = "idle")
  /\ handle = "open" => closes = 0 /\ (closed => Registered # {})
  /\ handle = "closed" => closed /\ closes = 1 /\ Registered = {}

\* A pending request belongs to a thread that is waiting for it.
Awaited == \A t \in Threads : io[t] = "pending" => pipePc[t] \in {"wait", "abandon"}

PipeInv == PipeTypeOK /\ Counted /\ HandleState /\ Awaited

-----------------------------------------------------------------------------
(* The counter.                                                            *)

LEMMA RegisteredFinite == IsFiniteSet(Registered)
BY FS_Subset, ThreadsAssumption, Zenon DEF Registered

\* A counter equal to the cardinality of a finite set is zero exactly when the
\* set is empty.
LEMMA ZeroIffNone == Counted => (activeIo = 0 <=> Registered = {})
BY RegisteredFinite, FS_EmptySet, Zenon DEF Counted

\* activeIo++ goes with a thread that registers.
LEMMA CountUp ==
  ASSUME NEW t \in Threads, Counted, t \notin Registered,
         Registered' = Registered \cup {t}, activeIo' = activeIo + 1
  PROVE  Counted'
<1>1. Cardinality(Registered \cup {t}) = Cardinality(Registered) + 1
  BY RegisteredFinite, FS_AddElement, Zenon
<1> QED
  BY <1>1, Zenon DEF Counted

\* activeIo-- goes with a thread that leaves; it was the last one if the
\* counter was one.
LEMMA CountDown ==
  ASSUME NEW t \in Threads, PipeTypeOK, Counted, t \in Registered,
         Registered' = Registered \ {t}, activeIo' = activeIo - 1
  PROVE  Counted' /\ activeIo' \in Nat /\ (activeIo = 1 <=> Registered' = {})
<1>1. /\ IsFiniteSet(Registered \ {t})
      /\ Cardinality(Registered \ {t}) = Cardinality(Registered) - 1
  BY RegisteredFinite, FS_RemoveElement, Zenon
<1>2. Cardinality(Registered \ {t}) \in Nat
  BY <1>1, FS_CardinalityType, Zenon
<1>3. Cardinality(Registered \ {t}) = 0 <=> Registered \ {t} = {}
  BY <1>1, FS_EmptySet, Zenon
<1> QED
  BY <1>1, <1>2, <1>3 DEF Counted, PipeTypeOK

-----------------------------------------------------------------------------
LEMMA PipeStart == PipeInit => PipeInv
<1> SUFFICES ASSUME PipeInit PROVE PipeInv
  BY Zenon
<1>1. Registered = {}
  BY Zenon DEF PipeInit, Registered
<1>2. Counted
  BY <1>1, FS_EmptySet, Zenon DEF PipeInit, Counted
<1> QED
  BY <1>1, <1>2, Zenon DEF PipeInit, PipeInv, PipeTypeOK, HandleState, Awaited

LEMMA PipeStep == PipeInv /\ [PipeNext]_pipeVars => PipeInv'
<1> SUFFICES ASSUME PipeInv, [PipeNext]_pipeVars PROVE PipeInv'
  BY Zenon
<1> USE DEF PipeInv, PipeTypeOK
<1>1. CASE OpenPipe
  <2>1. Registered' = Registered
    BY <1>1, Zenon DEF OpenPipe, Registered
  <2>2. Registered = {} /\ closes = 0 /\ ~closed
    BY <1>1, Zenon DEF OpenPipe, Registered, HandleState
  <2>3. /\ pipePc' = pipePc /\ io' = io /\ activeIo' = activeIo /\ cancel' = cancel
        /\ \/ handle' = "open" /\ closes' = 0 /\ closed' = FALSE
           \/ handle' = "closed" /\ closes' = 1 /\ closed' = TRUE
    BY <1>1, <2>2 DEF OpenPipe, CloseHandle
  <2>7. closed' \in BOOLEAN
    BY <2>3, Zenon
  <2>4. PipeTypeOK'
    BY <2>3, <2>7
  <2>5. Counted' /\ Awaited'
    BY <2>1, <2>3, Zenon DEF Counted, Awaited
  <2>6. HandleState'
    BY <2>1, <2>2, <2>3, Zenon DEF HandleState
  <2> QED
    BY <2>4, <2>5, <2>6, Zenon
<1>2. CASE ClosePipe
  <2>1. Registered' = Registered
    BY <1>2, Zenon DEF ClosePipe, Registered
  <2> QED
    BY <1>2, <2>1, ZeroIffNone DEF ClosePipe, CloseHandle, Counted, HandleState, Awaited
<1>3. ASSUME NEW t \in Threads, Enter(t) \/ Refuse(t) PROVE PipeInv'
  <2>1. Registered' = Registered
    BY <1>3, Zenon DEF Enter, Refuse, PipeGoto, Registered
  <2> QED
    BY <1>3, <2>1 DEF Enter, Refuse, PipeGoto, Counted, HandleState, Awaited
<1>4. ASSUME NEW t \in Threads, Issue(t) PROVE PipeInv'
  <2>1. t \notin Registered /\ Registered' = Registered \cup {t}
    BY <1>4, ZenonT(30) DEF Issue, PipeGoto, Registered
  <2>2. Counted'
    BY <1>4, <2>1, CountUp, Zenon DEF Issue
  <2> QED
    BY <1>4, <2>1, <2>2 DEF Issue, PipeGoto, HandleState, Awaited
<1>5. ASSUME NEW t \in Threads, Signalled(t) \/ TransferTimeout(t) \/ Abandon(t) \/ Result(t) PROVE PipeInv'
  <2>1. Registered' = Registered
    BY <1>5, Zenon DEF Signalled, TransferTimeout, Abandon, Result, PipeGoto, Registered
  <2> QED
    BY <1>5, <2>1 DEF Signalled, TransferTimeout, Abandon, Result, PipeGoto, Counted, HandleState, Awaited
<1>6. ASSUME NEW t \in Threads, LeaveTransfer(t) PROVE PipeInv'
  <2>1. t \in Registered /\ Registered' = Registered \ {t}
    BY <1>6, Zenon DEF LeaveTransfer, PipeGoto, Registered
  <2>2. Counted' /\ activeIo' \in Nat /\ (activeIo = 1 <=> Registered' = {})
    BY <1>6, <2>1, CountDown, Zenon DEF LeaveTransfer
  <2>3. handle = "open" /\ closes = 0
    BY <2>1, Zenon DEF HandleState, Registered
  <2> QED
    BY <1>6, <2>1, <2>2, <2>3 DEF LeaveTransfer, PipeGoto, CloseHandle, HandleState, Awaited
<1>7. ASSUME NEW t \in Threads, Complete(t) PROVE PipeInv'
  <2>1. Registered' = Registered
    BY <1>7, Zenon DEF Complete, Registered
  <2> QED
    BY <1>7, <2>1, Zenon DEF Complete, Counted, HandleState, Awaited
<1>8. CASE UNCHANGED pipeVars
  BY <1>8, Zenon DEF pipeVars, Registered, Counted, HandleState, Awaited
<1> QED
  BY <1>1, <1>2, <1>3, <1>4, <1>5, <1>6, <1>7, <1>8, Zenon DEF PipeNext, ThreadStep

\* The inductive invariant holds throughout.
THEOREM PipeInvariant == PipeSpec => []PipeInv
BY PipeStart, PipeStep, PTL DEF PipeSpec

\* transfer: no thread hands the kernel a closed handle.
THEOREM HandleIsOpen == PipeSpec => []HandleOpenInTransfer
<1>1. PipeInv => HandleOpenInTransfer
  BY Zenon DEF PipeInv, PipeTypeOK, HandleState, HandleOpenInTransfer, Registered
<1> QED
  BY <1>1, PipeInvariant, PTL

\* close, transfer and connect: the handle is closed at most once.
THEOREM HandleClosedOnce == PipeSpec => []ClosedOnce
<1>1. PipeInv => ClosedOnce
  BY DEF PipeInv, PipeTypeOK, HandleState, ClosedOnce
<1> QED
  BY <1>1, PipeInvariant, PTL

\* transfer: no request outlives the buffer that Memory.use releases.
THEOREM BuffersOutlive == PipeSpec => []BufferOutlivesRequest
<1>1. PipeInv => BufferOutlivesRequest
  BY Zenon DEF PipeInv, Awaited, BufferOutlivesRequest, Allocated
<1> QED
  BY <1>1, PipeInvariant, PTL

\* transfer and close: handle and buffer are there for the kernel.
THEOREM TransfersAreSafe == PipeSpec => []TransferIsSafe
BY HandleIsOpen, BuffersOutlive, PTL DEF TransferIsSafe

\* The Kotlin fields keep their types; in particular activeIo never goes
\* below zero.
THEOREM PipeTyped == PipeSpec => []PipeTypeOK
BY PipeInvariant, PTL DEF PipeInv

-----------------------------------------------------------------------------
(* The peers' sessions.                                                    *)

\* No two sessions of a table have the same index.
Distinct(table) ==
  \A j, k \in DOMAIN table : table[j].session[2] = table[k].session[2] => j = k

\* The sessions of a table have the indexes that the configuration gives them.
Indexed(table, config) ==
  \A k \in DOMAIN table : k \in DesiredKeys(config) /\ table[k].session[2] = DesiredIndex(config, k)

\* The sessions that are open at each step of a call, and the indexes of the
\* table in use and of the one that is made.
TableInv ==
  /\ wanted \in Configs
  /\ peersPc \in {"idle", "create", "undo", "close", "ready", "clear"}
  /\ AtRest => active = SessionsOf(entries)
  /\ peersPc \in {"create", "close"} => active = SessionsOf(entries) \cup SessionsOf(next)
  /\ peersPc = "undo" =>
       SessionsOf(entries) \subseteq active /\ active \subseteq SessionsOf(entries) \cup SessionsOf(next)
  /\ peersPc = "clear" => active = {}
  /\ Distinct(entries)
  /\ peersPc = "create" => Indexed(next, wanted)

\* The keys of a configuration are finitely many numbers.
LEMMA KeysAreFinite ==
  ASSUME NEW config \in Configs
  PROVE  IsFiniteSet(DesiredKeys(config)) /\ DesiredKeys(config) \subseteq Nat
<1>1. PICK n \in 0 .. MaxPeers : config \in [1 .. n -> Peers]
  BY Zenon DEF Configs
<1>2. n \in Nat
  BY SessionsAssumption, <1>1
<1>3. DOMAIN config = 1 .. n /\ IsFiniteSet(1 .. n)
  BY <1>1, <1>2, FS_Interval
<1>4. IsFiniteSet({config[i].key : i \in 1 .. n})
  <2> DEFINE ks == {config[i].key : i \in 1 .. n}
             key == [i \in 1 .. n |-> config[i].key]
  <2>1. key \in Surjection(1 .. n, ks)
    BY SMTT(30) DEF Surjection
  <2> QED
    BY <1>3, <2>1, FS_Surjection
<1> QED
  BY <1>1, <1>3, <1>4, SessionsAssumption, Zenon DEF DesiredKeys

\* mapIndexed over sorted keys gives different keys different indexes.
LEMMA IndexesDiffer ==
  ASSUME NEW config \in Configs,
         NEW j \in DesiredKeys(config), NEW k \in DesiredKeys(config),
         DesiredIndex(config, j) = DesiredIndex(config, k)
  PROVE  j = k
<1> DEFINE UpTo(m) == {i \in DesiredKeys(config) : i <= m}
<1>1. \A a, b \in DesiredKeys(config) : a < b => Cardinality(UpTo(a)) < Cardinality(UpTo(b))
  <2> SUFFICES ASSUME NEW a \in DesiredKeys(config), NEW b \in DesiredKeys(config), a < b
               PROVE  Cardinality(UpTo(a)) < Cardinality(UpTo(b))
    BY Zenon
  <2>1. IsFiniteSet(UpTo(b))
    BY KeysAreFinite, FS_Subset, Zenon
  <2>2. a \in Nat /\ b \in Nat /\ DesiredKeys(config) \subseteq Nat
    BY KeysAreFinite, Zenon
  <2>3. UpTo(a) \subseteq UpTo(b) /\ UpTo(a) # UpTo(b)
    BY <2>2
  <2>4. IsFiniteSet(UpTo(a)) /\ Cardinality(UpTo(a)) <= Cardinality(UpTo(b))
        /\ Cardinality(UpTo(a)) # Cardinality(UpTo(b))
    BY <2>1, <2>3, FS_Subset, Zenon
  <2>5. Cardinality(UpTo(a)) \in Nat /\ Cardinality(UpTo(b)) \in Nat
    BY <2>1, <2>4, FS_CardinalityType, Zenon
  <2> QED
    BY <2>4, <2>5
<1>2. Cardinality(UpTo(j)) = Cardinality(UpTo(k))
  BY Zenon DEF DesiredIndex
<1>3. j \in Nat /\ k \in Nat
  BY KeysAreFinite, Zenon
<1>4. Cardinality(UpTo(j)) \in Nat
  BY KeysAreFinite, FS_Subset, FS_CardinalityType, Zenon
<1> HIDE DEF UpTo
<1> QED
  BY <1>1, <1>2, <1>3, <1>4

\* A table whose indexes are those of a configuration has each once.
LEMMA IndexedIsDistinct ==
  ASSUME NEW config \in Configs, NEW table, Indexed(table, config)
  PROVE  Distinct(table)
BY IndexesDiffer, Zenon DEF Distinct, Indexed

\* A table that gets one more entry.
LEMMA ExtendedFacts ==
  ASSUME NEW table, NEW k, k \notin DOMAIN table, NEW e
  PROVE  /\ SessionsOf(Extended(table, k, e)) = SessionsOf(table) \cup {e.session}
         /\ \A config : /\ Indexed(table, config) /\ k \in DesiredKeys(config)
                        /\ e.session[2] = DesiredIndex(config, k)
                        => Indexed(Extended(table, k, e), config)
<1> DEFINE g == Extended(table, k, e)
<1>1. DOMAIN g = DOMAIN table \cup {k} /\ g[k] = e /\ \A j \in DOMAIN table : g[j] = table[j]
  BY Zenon DEF Extended
<1> HIDE DEF g
<1>2. SessionsOf(g) = SessionsOf(table) \cup {e.session}
  <2>1. \A s : s \in SessionsOf(g) <=> \E j \in DOMAIN g : s = g[j].session
    BY Zenon DEF SessionsOf
  <2>2. \A s : s \in SessionsOf(table) <=> \E j \in DOMAIN table : s = table[j].session
    BY Zenon DEF SessionsOf
  <2>3. \A s : (\E j \in DOMAIN g : s = g[j].session) <=> (s = e.session \/ \E j \in DOMAIN table : s = table[j].session)
    BY <1>1, Zenon
  <2>4. \A s : s \in SessionsOf(g) <=> s \in SessionsOf(table) \cup {e.session}
    BY <2>1, <2>2, <2>3, Zenon
  <2> QED
    BY <2>4, Zenon
<1>3. ASSUME NEW config, Indexed(table, config), k \in DesiredKeys(config),
             e.session[2] = DesiredIndex(config, k)
      PROVE  Indexed(g, config)
  BY <1>1, <1>3, Zenon DEF Indexed
<1> QED
  BY <1>2, <1>3, Zenon DEF g

LEMMA EmptyTable == SessionsOf(<<>>) = {} /\ Distinct(<<>>) /\ \A config : Indexed(<<>>, config)
BY DEF SessionsOf, Distinct, Indexed

\* A configuration may have no peers.
LEMMA NoPeers == <<>> \in Configs
<1>1. <<>> \in [1 .. 0 -> Peers] /\ 0 \in 0 .. MaxPeers
  BY SessionsAssumption
<1> QED
  BY <1>1, Zenon DEF Configs

\* The invariant holds at first.
LEMMA TableInit == PeersInit => TableInv
BY EmptyTable, NoPeers, Zenon DEF PeersInit, TableInv, AtRest

\* Making a session keeps the invariant, and so does keeping one.
LEMMA MakeStep ==
  ASSUME TableInv, Keep \/ Create
  PROVE  TableInv'
<1>1. /\ peersPc = "create" /\ wanted \in Configs /\ Distinct(entries) /\ Indexed(next, wanted)
      /\ active = SessionsOf(entries) \cup SessionsOf(next)
  BY Zenon DEF Keep, Create, TableInv
<1>2. UNCHANGED <<entries, wanted, peersPc>>
  BY Zenon DEF Keep, Create
<1>3. \E k \in Pending : \E e :
        /\ next' = Extended(next, k, e) /\ e.session[2] = DesiredIndex(wanted, k)
        /\ active' = active \cup {e.session}
  <2>1. CASE Keep
    <3>1. PICK k \in Pending : Kept(wanted, k) /\ next' = Extended(next, k, entries[k])
      BY <2>1, Zenon DEF Keep
    <3>2. entries[k].session[2] = DesiredIndex(wanted, k) /\ entries[k].session \in active /\ active' = active
      BY <2>1, <3>1, Zenon DEF Keep, Kept
    <3> QED
      BY <3>1, <3>2, Zenon
  <2>2. CASE Create
    <3> DEFINE made(k) == <<created + 1, DesiredIndex(wanted, k)>>
               entry(k) == [peer |-> DesiredPeer(wanted, k), session |-> made(k)]
    <3>1. PICK k \in Pending : next' = Extended(next, k, entry(k)) /\ active' = active \cup {made(k)}
      BY <2>2, Zenon DEF Create
    <3>2. entry(k).session = made(k) /\ made(k)[2] = DesiredIndex(wanted, k)
      OBVIOUS
    <3> QED
      BY <3>1, <3>2, Zenon
  <2> QED
    BY <2>1, <2>2, Zenon
<1>k. PICK k \in Pending : \E e :
        /\ next' = Extended(next, k, e) /\ e.session[2] = DesiredIndex(wanted, k)
        /\ active' = active \cup {e.session}
  BY <1>3, Zenon
<1>4. PICK e :
        /\ next' = Extended(next, k, e) /\ e.session[2] = DesiredIndex(wanted, k)
        /\ active' = active \cup {e.session}
  BY <1>k, Zenon
<1>5. k \in DesiredKeys(wanted) /\ k \notin DOMAIN next
  BY <1>4, Zenon DEF Pending
<1>6. SessionsOf(next') = SessionsOf(next) \cup {e.session} /\ Indexed(next', wanted)
  BY <1>1, <1>4, <1>5, ExtendedFacts, Zenon
<1>7. active' = SessionsOf(entries) \cup SessionsOf(next')
  BY <1>1, <1>4, <1>6, Zenon
<1>8. peersPc' = "create" /\ wanted' = wanted /\ entries' = entries
  BY <1>1, <1>2, Zenon
<1>9. SessionsOf(entries)' = SessionsOf(entries) /\ SessionsOf(next)' = SessionsOf(next')
      /\ Distinct(entries)' /\ Indexed(next, wanted)'
  BY <1>1, <1>6, <1>8, Zenon DEF SessionsOf, Distinct, Indexed
<1> QED
  BY <1>1, <1>7, <1>8, <1>9, Zenon DEF TableInv, AtRest

\* Every step keeps the invariant.
LEMMA TableStep == TableInv /\ [PeersNext]_peersVars => TableInv'
<1> SUFFICES ASSUME TableInv, [PeersNext]_peersVars PROVE TableInv'
  BY Zenon
<1>1. ASSUME NEW config \in Configs, ReconcileSessions(config) PROVE TableInv'
  <2>1. /\ peersPc' = "create" /\ wanted' = config /\ next' = <<>>
        /\ UNCHANGED <<entries, active>> /\ active = SessionsOf(entries)
    BY <1>1, Zenon DEF ReconcileSessions, TableInv
  <2>2. SessionsOf(entries)' = SessionsOf(entries) /\ SessionsOf(next)' = SessionsOf(<<>>)
        /\ (Distinct(entries) => Distinct(entries)')
        /\ (Indexed(<<>>, config) => Indexed(next, wanted)')
    BY <2>1, Zenon DEF SessionsOf, Distinct, Indexed
  <2> QED
    BY <1>1, <2>1, <2>2, EmptyTable, Zenon DEF TableInv, AtRest
<1>2. CASE Keep \/ Create
  BY <1>2, MakeStep, Zenon
<1>3. CASE CreateFails
  <2>1. peersPc = "create" /\ peersPc' = "undo" /\ UNCHANGED <<entries, wanted, next, active>>
    BY <1>3, Zenon DEF CreateFails
  <2>2. SessionsOf(entries)' = SessionsOf(entries) /\ SessionsOf(next)' = SessionsOf(next)
        /\ (Distinct(entries) => Distinct(entries)')
    BY <2>1, Zenon DEF SessionsOf, Distinct
  <2> QED
    BY <2>1, <2>2, Zenon DEF TableInv, AtRest
<1>4. CASE CloseMade
  <2>1. peersPc = "undo" /\ UNCHANGED entries
    BY <1>4, Zenon DEF CloseMade
  <2>2. SessionsOf(entries)' = SessionsOf(entries) /\ (Distinct(entries) => Distinct(entries)')
    BY <2>1, Zenon DEF SessionsOf, Distinct
  <2>3. SessionsOf(entries) \subseteq active /\ active \subseteq SessionsOf(entries) \cup SessionsOf(next)
    BY <2>1, Zenon DEF TableInv
  <2>4. ASSUME NEW s \in OpenMade, active' = active \ {s}, UNCHANGED <<wanted, next, peersPc>>
        PROVE  TableInv'
    <3>1. s \notin SessionsOf(entries)
      BY <2>4, Zenon DEF OpenMade
    <3>2. SessionsOf(next)' = SessionsOf(next) /\ peersPc' = "undo"
      BY <2>1, <2>4, Zenon DEF SessionsOf
    <3> QED
      BY <2>2, <2>3, <2>4, <3>1, <3>2, Zenon DEF TableInv, AtRest
  <2>5. CASE OpenMade = {} /\ wanted' = <<>> /\ next' = <<>> /\ peersPc' = "idle" /\ UNCHANGED active
    <3>1. active = SessionsOf(entries)
      BY <2>3, <2>5, Zenon DEF OpenMade
    <3>2. peersPc' = "idle" /\ active' = SessionsOf(entries)' /\ wanted' \in Configs
      BY <2>2, <2>5, <3>1, NoPeers, Zenon
    <3> QED
      BY <2>2, <3>2, Zenon DEF TableInv, AtRest
  <2> QED
    BY <1>4, <2>4, <2>5, Zenon DEF CloseMade
<1>5. CASE Swap
  <2>1. /\ peersPc = "create" /\ peersPc' = "close" /\ entries' = next /\ next' = entries
        /\ UNCHANGED <<wanted, active>>
    BY <1>5, Zenon DEF Swap
  <2>2. wanted \in Configs /\ Distinct(next) /\ active = SessionsOf(entries) \cup SessionsOf(next)
    BY <2>1, IndexedIsDistinct, Zenon DEF TableInv
  <2>3. SessionsOf(entries)' = SessionsOf(next) /\ SessionsOf(next)' = SessionsOf(entries) /\ Distinct(entries)'
    BY <2>1, <2>2, Zenon DEF SessionsOf, Distinct
  <2> QED
    BY <2>1, <2>2, <2>3, Zenon DEF TableInv, AtRest
<1>6. CASE CloseReplaced
  <2>1. /\ peersPc = "close" /\ peersPc' = "ready" /\ UNCHANGED <<entries, wanted>>
        /\ active' = active \ (SessionsOf(next) \ SessionsOf(entries))
    BY <1>6, Zenon DEF CloseReplaced
  <2>2. SessionsOf(entries)' = SessionsOf(entries) /\ (Distinct(entries) => Distinct(entries)')
    BY <2>1, Zenon DEF SessionsOf, Distinct
  <2>3. active' = SessionsOf(entries)
    BY <2>1, Zenon DEF TableInv
  <2> QED
    BY <2>1, <2>2, <2>3, Zenon DEF TableInv, AtRest
<1>7. CASE StopClose
  <2>1. peersPc' = "clear" /\ UNCHANGED <<entries, wanted>> /\ active' = {}
    BY <1>7, Zenon DEF StopClose, TableInv
  <2> QED
    BY <2>1, Zenon DEF TableInv, AtRest, Distinct
<1>8. CASE StopClear
  <2>1. peersPc' = "idle" /\ active' = {} /\ entries' = <<>> /\ wanted' = <<>>
    BY <1>8, Zenon DEF StopClear, TableInv
  <2>2. SessionsOf(entries)' = {} /\ Distinct(entries)'
    BY <2>1, EmptyTable, Zenon DEF SessionsOf, Distinct
  <2> QED
    BY <2>1, <2>2, NoPeers, Zenon DEF TableInv, AtRest
<1>9. CASE UNCHANGED peersVars
  <2>1. UNCHANGED <<entries, wanted, next, active, peersPc>>
    BY <1>9, Zenon DEF peersVars
  <2>2. SessionsOf(entries)' = SessionsOf(entries) /\ SessionsOf(next)' = SessionsOf(next)
        /\ (Distinct(entries) => Distinct(entries)')
        /\ (Indexed(next, wanted) => Indexed(next, wanted)')
    BY <2>1, Zenon DEF SessionsOf, Distinct, Indexed
  <2> QED
    BY <2>1, <2>2, Zenon DEF TableInv, AtRest
<1> QED
  BY <1>1, <1>2, <1>3, <1>4, <1>5, <1>6, <1>7, <1>8, <1>9, Zenon DEF PeersNext

\* At every step of reconcileSessions and of its failures the loops find open
\* sessions with indexes of their own, whatever the configurations.
THEOREM TableStaysSound == PeersSpec => []TableIsSound
<1>1. TableInv => TableIsSound
  BY Zenon DEF TableInv, AtRest, TableIsSound, SelectedIsActive, IndexesDistinct, Distinct
<1> QED
  BY <1>1, TableInit, TableStep, PTL DEF PeersSpec

\* When reconcileSessions and stop return, also by an exception, the open
\* sessions are those of the table.
THEOREM SessionsDoNotLeak == PeersSpec => []NoSessionLeaks
<1>1. TableInv => NoSessionLeaks
  BY Zenon DEF TableInv, NoSessionLeaks
<1> QED
  BY <1>1, TableInit, TableStep, PTL DEF PeersSpec

-----------------------------------------------------------------------------
(* Registration and ownership of daemons.                                  *)

Launching(t) == callPc[t] \in {"boot", "register", "cas", "discard"}

\* A process belongs to the thread that launches it until launch is over,
\* and then to whoever was handed it.
LaunchOwners ==
  /\ \A t \in Callers : Launching(t) =>
       proc[on[t]] # "none" /\ on[t] \notin handed /\ on[t] \notin failed
  /\ \A t, u \in Callers : Launching(t) /\ Launching(u) /\ on[t] = on[u] => t = u
  /\ \A t \in Callers : callPc[t] # "idle" /\ ~Launching(t) => on[t] \in handed
  /\ \A d \in handed : proc[d] # "none" /\ d \notin failed
  /\ stopped \subseteq handed

\* What the calls have left behind.
Outcomes ==
  /\ \A t \in Callers : callPc[t] = "discard" => proc[on[t]] \in {"killed", "dead"}
  /\ \A d \in failed : proc[d] \in {"killed", "dead"}
  /\ \A d \in stopped : proc[d] = "dead" /\ runningDaemon # d

\* Who may be registered, and what a pending compareAndSet may replace.
References ==
  /\ runningDaemon # NoDaemon => runningDaemon \in handed
  /\ \A t \in Callers : callPc[t] = "cas" => seen[t] = NoDaemon \/ proc[seen[t]] = "dead"

OwnedInv == OwnedTypeOK /\ LaunchOwners /\ Outcomes /\ References

\* Next, one call at a time.
LEMMA NextCalls ==
  OwnedNext =>
    \/ \E t \in Callers, d \in Daemons :
         \/ Launch(t, d) \/ BootReady(t, d) \/ BootFail(t, d) \/ Discard(t, d)
         \/ RegisterRead(t, d) \/ RegisterCas(t, d)
         \/ StopGone(t, d) \/ StopDaemon(t, d) \/ Ask(t, d) \/ AskFail(t, d)
         \/ Exited(t, d) \/ WaitTimeout(t, d)
         \/ Kill(t, d) \/ KillSend(t, d) \/ Reaped(t, d) \/ ReapTimeout(t, d)
    \/ \E d \in Daemons : Ready(d) \/ Exit(d)
    \/ UNCHANGED ownedVars
BY Zenon DEF OwnedNext, CallerStep, Terminated

LEMMA OwnedStart == OwnedInit => OwnedInv
BY DaemonsAssumption, Zenon
   DEF OwnedInit, OwnedInv, OwnedTypeOK, Labels, LaunchOwners, Outcomes, References, Launching

LEMMA OwnedStep == OwnedInv /\ [OwnedNext]_ownedVars => OwnedInv'
<1> SUFFICES ASSUME OwnedInv, [OwnedNext]_ownedVars PROVE OwnedInv'
  BY Zenon
<1> USE DaemonsAssumption DEF OwnedInv, OwnedTypeOK, Labels, MoveTo, At, IsAlive
<1>1. ASSUME NEW t \in Callers, NEW d \in Daemons,
             Launch(t, d) \/ BootReady(t, d) \/ BootFail(t, d) \/ Discard(t, d)
      PROVE  OwnedInv'
  <2>1. OwnedTypeOK'
    BY <1>1, SMTT(30) DEF Launch, BootReady, BootFail, Discard, Destroy
  <2>2. LaunchOwners'
    BY <1>1, SMTT(30) DEF Launch, BootReady, BootFail, Discard, Destroy, LaunchOwners, Outcomes, Launching
  <2>3. Outcomes'
    BY <1>1, SMTT(30) DEF Launch, BootReady, BootFail, Discard, Destroy, LaunchOwners, Launching, Outcomes
  <2>4. References'
    BY <1>1, SMTT(30) DEF Launch, BootReady, BootFail, Discard, Destroy, References
  <2> QED
    BY <2>1, <2>2, <2>3, <2>4, ZenonT(30)
<1>2. ASSUME NEW t \in Callers, NEW d \in Daemons, RegisterRead(t, d) \/ RegisterCas(t, d)
      PROVE  OwnedInv'
  <2>1. OwnedTypeOK'
    BY <1>2 DEF RegisterRead, RegisterCas, Hand
  <2>2. LaunchOwners'
    BY <1>2, SMTT(30) DEF RegisterRead, RegisterCas, Hand, LaunchOwners, Launching
  <2>3. Outcomes'
    BY <1>2, SMTT(30) DEF RegisterRead, RegisterCas, Hand, LaunchOwners, Launching, Outcomes
  <2>4. References'
    BY <1>2, SMTT(30) DEF RegisterRead, RegisterCas, Hand, Occupied, LaunchOwners, References
  <2> QED
    BY <2>1, <2>2, <2>3, <2>4, Zenon
<1>3. ASSUME NEW t \in Callers, NEW d \in Daemons,
             StopDaemon(t, d) \/ Ask(t, d) \/ WaitTimeout(t, d) \/ Kill(t, d) \/ KillSend(t, d)
      PROVE  OwnedInv'
  <2>1. OwnedTypeOK'
    BY <1>3, SMTT(30) DEF StopDaemon, Ask, WaitTimeout, Kill, KillSend, Destroy
  <2>2. LaunchOwners'
    BY <1>3, SMTT(30) DEF StopDaemon, Ask, WaitTimeout, Kill, KillSend, Destroy, LaunchOwners, Launching
  <2>3. Outcomes'
    BY <1>3, SMTT(30) DEF StopDaemon, Ask, WaitTimeout, Kill, KillSend, Destroy, Outcomes
  <2>4. References'
    BY <1>3, SMTT(30) DEF StopDaemon, Ask, WaitTimeout, Kill, KillSend, Destroy, References
  <2> QED
    BY <2>1, <2>2, <2>3, <2>4, Zenon
<1>4. ASSUME NEW t \in Callers, NEW d \in Daemons,
             StopGone(t, d) \/ AskFail(t, d) \/ Exited(t, d) \/ Reaped(t, d) \/ ReapTimeout(t, d)
      PROVE  OwnedInv'
  <2>1. OwnedTypeOK'
    BY <1>4, ZenonT(30) DEF StopGone, AskFail, Exited, Reaped, ReapTimeout, Return, Unregister
  <2>2. LaunchOwners'
    BY <1>4 DEF StopGone, AskFail, Exited, Reaped, ReapTimeout, Return, Unregister, LaunchOwners, Launching
  <2>3. d \in handed
    BY <1>4, ZenonT(30) DEF StopGone, AskFail, Exited, Reaped, ReapTimeout, LaunchOwners, Launching
  <2>4. Outcomes'
    BY <1>4, <2>3 DEF StopGone, AskFail, Exited, Reaped, ReapTimeout, Return, Unregister, LaunchOwners, Outcomes
  <2>5. References'
    BY <1>4, ZenonT(30) DEF StopGone, AskFail, Exited, Reaped, ReapTimeout, Return, Unregister, References
  <2> QED
    BY <2>1, <2>2, <2>4, <2>5, Zenon
<1>5. ASSUME NEW d \in Daemons, Ready(d) \/ Exit(d) PROVE OwnedInv'
  BY <1>5 DEF Ready, Exit, LaunchOwners, Outcomes, References, Launching
<1>6. CASE UNCHANGED ownedVars
  BY <1>6, ZenonT(30) DEF ownedVars, LaunchOwners, Outcomes, References, Launching
<1> QED
  BY <1>1, <1>2, <1>3, <1>4, <1>5, <1>6, NextCalls, ZenonT(30)

\* The inductive invariant holds throughout.
THEOREM OwnedInvariant == OwnedSpec => []OwnedInv
BY OwnedStart, OwnedStep, PTL DEF OwnedSpec

\* launch, stop and kill keep every variable's type.
THEOREM CallsTyped == OwnedSpec => []OwnedTypeOK
BY OwnedInvariant, PTL DEF OwnedInv

\* stop and kill: a daemon they have returned for is never registered again.
THEOREM StoppedStaysUnregistered == OwnedSpec => []StoppedIsUnregistered
<1>1. OwnedInv => StoppedIsUnregistered
  BY Zenon DEF OwnedInv, Outcomes, StoppedIsUnregistered
<1> QED
  BY <1>1, OwnedInvariant, PTL

\* launch: after a failure the process is destroyed and nobody can reach it.
THEOREM FailedLaunchIsDestroyed == OwnedSpec => []FailedLaunchDestroyed
<1>1. OwnedInv => FailedLaunchDestroyed
  BY DaemonsAssumption DEF OwnedInv, OwnedTypeOK, LaunchOwners, Outcomes, References, FailedLaunchDestroyed
<1> QED
  BY <1>1, OwnedInvariant, PTL

\* registerDaemon and unregisterDaemon: a running daemon keeps the
\* registration.
THEOREM RegistrationIsStable == OwnedSpec => RegistrationStable
<1>1. OwnedInv /\ [OwnedNext]_ownedVars => [Occupied => runningDaemon' = runningDaemon]_ownedVars
  <2> SUFFICES ASSUME OwnedInv, [OwnedNext]_ownedVars, Occupied PROVE runningDaemon' = runningDaemon
    BY Zenon DEF ownedVars
  <2> USE DaemonsAssumption DEF OwnedInv, OwnedTypeOK, Occupied, IsAlive
  <2>1. ASSUME NEW t \in Callers, NEW d \in Daemons,
               \/ Launch(t, d) \/ BootReady(t, d) \/ BootFail(t, d) \/ Discard(t, d)
               \/ RegisterRead(t, d) \/ StopDaemon(t, d) \/ Ask(t, d) \/ WaitTimeout(t, d)
               \/ Kill(t, d) \/ KillSend(t, d)
        PROVE  runningDaemon' = runningDaemon
    BY <2>1, Zenon DEF Launch, BootReady, BootFail, Discard, RegisterRead, StopDaemon, Ask, WaitTimeout, Kill, KillSend
  <2>2. ASSUME NEW t \in Callers, NEW d \in Daemons, RegisterCas(t, d) PROVE runningDaemon' = runningDaemon
    BY <2>2, Zenon DEF RegisterCas, At, References
  <2>3. ASSUME NEW t \in Callers, NEW d \in Daemons,
               StopGone(t, d) \/ AskFail(t, d) \/ Exited(t, d) \/ Reaped(t, d) \/ ReapTimeout(t, d)
        PROVE  runningDaemon' = runningDaemon
    BY <2>3, Zenon DEF StopGone, AskFail, Exited, Reaped, ReapTimeout, Return, Unregister
  <2>4. ASSUME NEW d \in Daemons, Ready(d) \/ Exit(d) PROVE runningDaemon' = runningDaemon
    BY <2>4, Zenon DEF Ready, Exit
  <2> QED
    BY <2>1, <2>2, <2>3, <2>4, NextCalls, Zenon DEF ownedVars
<1> QED
  BY <1>1, OwnedInvariant, PTL DEF OwnedSpec, RegistrationStable

\* Neither a daemon that was stopped or killed nor one whose launch failed is
\* ever registered again, and the latter's process has been destroyed.
THEOREM EndedStaysUnregistered == OwnedSpec => []EndedIsUnregistered
BY StoppedStaysUnregistered, FailedLaunchIsDestroyed, PTL DEF EndedIsUnregistered
=============================================================================
