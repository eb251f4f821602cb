---------------------------- MODULE VpnLifecycle ----------------------------
(***************************************************************************)
(* Vpn.open and Vpn.stop over JvmInterfaceManager, DaemonSessionBridge,    *)
(* SocketManagerImpl and CryptoSessionManagerImpl.  The application calls  *)
(* from one thread; the background loops of a run report a failure by      *)
(* calling Vpn.stop from their own.  Nothing but the bridge's `closed'     *)
(* flag is synchronized, so the steps are accesses to the shared fields.   *)
(*                                                                         *)
(* Runs are numbered by the open() that made them.  A resource is a pair   *)
(* of a kind and a run; a field holds the run whose resource it refers to, *)
(* or 0 for null.                                                          *)
(***************************************************************************)
EXTENDS Integers, FiniteSets

CONSTANTS
  MaxOpens,     \* bound: calls of open
  MaxEvents     \* bound: calls of open and failures that loops report

ASSUME BoundsAssumption == MaxOpens \in Nat /\ MaxEvents \in Nat

Runs == 1 .. MaxOpens

\* The IPC session, the UDP sockets, the socket workers with their selector,
\* the crypto loops and the peer sessions.
Kinds == {"bridge", "socket", "workers", "crypto", "sessions"}

\* The kinds with loops that report failures.
LoopKinds == {"bridge", "workers", "crypto"}

app == <<"app", 0>>

Callbacks == LoopKinds \X Runs

Actors == {app} \cup Callbacks

VARIABLES
  gen,       \* number of the last open
  live,      \* resources that are open or running
  loops,     \* loops that have not returned yet
  field,     \* per kind: activeBridge, ipv4Socket/ipv6Socket, the two scopes,
             \* sessionEntriesByPeer
  running,   \* SocketManagerImpl.running
  pc,        \* per thread: the next step
  ret,       \* where the application goes on after stop
  failures,  \* failures reported so far
  calm       \* history: no loop has failed while an open was under way, and
             \* open was only called once the callbacks had returned

vars == <<gen, live, loops, field, running, pc, ret, failures, calm>>

Init ==
  /\ gen = 0
  /\ live = {}
  /\ loops = {}
  /\ field = [k \in Kinds |-> 0]
  /\ running = FALSE
  /\ pc = [t \in Actors |-> "idle"]
  /\ ret = "idle"
  /\ failures = 0
  /\ calm = TRUE

Goto(t, l) == pc' = [pc EXCEPT ![t] = l]

\* What the field of a kind refers to.
Held(k) == {<<k, field[k]>>}

Clear(ks) == field' = [k \in Kinds |-> IF k \in ks THEN 0 ELSE field[k]]

Store(k) == field' = [field EXCEPT ![k] = gen]

\* The application is inside open.
Opening ==
  \/ ret = "reconcile"
  \/ pc[app] \in {"reconcile", "crypto", "bind", "workers", "session", "assign"}

Quiet == \A t \in Actors : pc[t] = "idle"

-----------------------------------------------------------------------------
(* Vpn.stop, by any thread.                                                *)

\* JvmInterfaceManager: activeBridge?.close(), in stop or in the failure
\* callback of start.
CloseBridge(t) ==
  /\ \/ pc[t] = "f1" /\ Goto(t, "f2")
     \/ pc[t] = "i1" /\ Goto(t, "i2")
  /\ live' = live \ Held("bridge")
  /\ UNCHANGED <<gen, loops, field, running, ret, failures, calm>>

\* activeBridge = null, currentConfig = null.
ForgetBridge(t) ==
  /\ \/ pc[t] = "f2" /\ Goto(t, "i1")
     \/ pc[t] = "i2" /\ Goto(t, "s1")
  /\ Clear({"bridge"})
  /\ UNCHANGED <<gen, live, loops, running, ret, failures, calm>>

\* SocketManagerImpl.stop: an early return, or running = false.
ClearRunning(t) ==
  /\ pc[t] = "s1"
  /\ Goto(t, IF running THEN "s2" ELSE "c1")
  /\ running' = FALSE
  /\ UNCHANGED <<gen, live, loops, field, ret, failures, calm>>

\* Faulty variant: only the sockets are closed.
CloseSocketsOnly(t) ==
  /\ pc[t] = "s2"
  /\ Goto(t, "s3")
  /\ live' = live \ Held("socket")
  /\ UNCHANGED <<gen, loops, field, running, ret, failures, calm>>

\* The sockets and the selector are closed, the workers' scope cancelled.
CloseSockets(t) ==
  /\ pc[t] = "s2"
  /\ Goto(t, "s3")
  /\ live' = live \ (Held("socket") \cup Held("workers"))
  /\ UNCHANGED <<gen, loops, field, running, ret, failures, calm>>

\* The fields are set to null.
ForgetSockets(t) ==
  /\ pc[t] = "s3"
  /\ Goto(t, "c1")
  /\ Clear({"socket", "workers"})
  /\ UNCHANGED <<gen, live, loops, running, ret, failures, calm>>

\* CryptoSessionManagerImpl.stop: the loops' scope is cancelled.
CancelCrypto(t) ==
  /\ pc[t] = "c1"
  /\ Goto(t, "c2")
  /\ live' = live \ Held("crypto")
  /\ UNCHANGED <<gen, loops, field, running, ret, failures, calm>>

\* Faulty variant: stop cancels until the crypto loops have ended, of which
\* the caller may be one.
CloseSessionsAwaits(t) ==
  /\ pc[t] = "c2"
  /\ IF \E c \in Callbacks : c[1] = "crypto" /\ (c \in loops \/ pc[c] # "idle")
       THEN Goto(t, "c1") /\ UNCHANGED <<live, field>>
       ELSE Goto(t, "c3") /\ live' = live \ Held("sessions") /\ Clear({"crypto"})
  /\ UNCHANGED <<gen, loops, running, ret, failures, calm>>

\* scope = null, and every peer session is closed.
CloseSessions(t) ==
  /\ pc[t] = "c2"
  /\ Goto(t, "c3")
  /\ live' = live \ Held("sessions")
  /\ Clear({"crypto"})
  /\ UNCHANGED <<gen, loops, running, ret, failures, calm>>

\* sessionEntriesByPeer = emptyMap(); stop returns.
ForgetSessions(t) ==
  /\ pc[t] = "c3"
  /\ Goto(t, IF t = app THEN ret ELSE "idle")
  /\ ret' = IF t = app THEN "idle" ELSE ret
  /\ Clear({"sessions"})
  /\ UNCHANGED <<gen, live, loops, running, failures, calm>>

StopStep(t) ==
  \/ CloseBridge(t) \/ ForgetBridge(t)
  \/ ClearRunning(t) \/ CloseSockets(t) \/ ForgetSockets(t)
  \/ CancelCrypto(t) \/ CloseSessions(t) \/ ForgetSessions(t)

-----------------------------------------------------------------------------
(* Vpn.open, by the application.                                           *)

\* stop() by the application.
Stop ==
  /\ pc[app] = "idle"
  /\ Goto(app, "i1")
  /\ UNCHANGED <<gen, live, loops, field, running, ret, failures, calm>>

\* open with a valid configuration begins with a stop.
Open ==
  /\ pc[app] = "idle"
  /\ gen < MaxOpens /\ gen + failures < MaxEvents
  /\ calm' = (calm /\ Quiet)
  /\ gen' = gen + 1
  /\ ret' = "reconcile"
  /\ Goto(app, "i1")
  /\ UNCHANGED <<live, loops, field, running, failures>>

\* An operation of open throws; what is up stays up.
Throw == Goto(app, "idle") /\ UNCHANGED <<gen, live, loops, field, running, ret, failures, calm>>

\* reconcileSessions replaces the map and closes what it held, or throws.
Reconcile ==
  /\ pc[app] = "reconcile"
  /\ \/ Throw
     \/ /\ live' = (live \ Held("sessions")) \cup {<<"sessions", gen>>}
        /\ Store("sessions")
        /\ Goto(app, "crypto")
        /\ UNCHANGED <<gen, loops, running, ret, failures, calm>>

\* CryptoSessionManagerImpl.start cancels the old scope and launches the loops.
StartCrypto ==
  /\ pc[app] = "crypto"
  /\ live' = (live \ Held("crypto")) \cup {<<"crypto", gen>>}
  /\ loops' = loops \cup {<<"crypto", gen>>}
  /\ Store("crypto")
  /\ Goto(app, "bind")
  /\ UNCHANGED <<gen, running, ret, failures, calm>>

\* SocketManagerImpl.start binds a socket of either family.  If both fail it
\* throws, unless the fields still hold the sockets of an earlier run.  The
\* stop it begins with returns at once: only open sets running.
Bind ==
  /\ pc[app] = "bind"
  /\ \/ field["socket"] = 0 /\ Throw
     \/ /\ field["socket"] # 0
        /\ Goto(app, "workers")
        /\ UNCHANGED <<gen, live, loops, field, running, ret, failures, calm>>
     \/ /\ live' = live \cup {<<"socket", gen>>}
        /\ Store("socket")
        /\ Goto(app, "workers")
        /\ UNCHANGED <<gen, loops, running, ret, failures, calm>>

\* The scope is stored, running set and the workers launched for the sockets
\* that the fields hold by now.
StartWorkers ==
  /\ pc[app] = "workers"
  /\ live' = live \cup {<<"workers", gen>>}
  /\ loops' = IF field["socket"] = 0 THEN loops ELSE loops \cup {<<"workers", gen>>}
  /\ Store("workers")
  /\ running' = TRUE
  /\ Goto(app, "session")
  /\ UNCHANGED <<gen, ret, failures, calm>>

\* Faulty variant: a refused session does not stop what is already up.
OpenSessionThrows ==
  /\ pc[app] = "session"
  /\ \/ Throw
     \/ /\ live' = (live \ Held("bridge")) \cup {<<"bridge", gen>>}
        /\ loops' = loops \cup {<<"bridge", gen>>}
        /\ Clear({"bridge"})
        /\ Goto(app, "assign")
        /\ UNCHANGED <<gen, running, ret, failures, calm>>

\* JvmInterfaceManager.start stops what it holds and opens a session with the
\* daemon; if that fails the failure callback stops the VPN and start throws.
OpenSession ==
  /\ pc[app] = "session"
  /\ Clear({"bridge"})
  /\ \/ /\ live' = live \ Held("bridge")
        /\ Goto(app, "i1")
        /\ UNCHANGED loops
     \/ /\ live' = (live \ Held("bridge")) \cup {<<"bridge", gen>>}
        /\ loops' = loops \cup {<<"bridge", gen>>}
        /\ Goto(app, "assign")
  /\ UNCHANGED <<gen, running, ret, failures, calm>>

\* activeBridge = bridge; open returns.
AssignBridge ==
  /\ pc[app] = "assign"
  /\ Store("bridge")
  /\ Goto(app, "idle")
  /\ UNCHANGED <<gen, live, loops, running, ret, failures, calm>>

OpenStep ==
  \/ Reconcile \/ StartCrypto \/ Bind \/ StartWorkers \/ OpenSession \/ AssignBridge

-----------------------------------------------------------------------------
(* The background loops.                                                   *)

\* Faulty variant: a bridge that is not stored yet tells nobody.
LoopFailIfStored(c) ==
  /\ c \in loops
  /\ gen + failures < MaxEvents
  /\ calm' = (calm /\ ~Opening)
  /\ failures' = failures + 1
  /\ loops' = loops \ {c}
  /\ IF c[1] = "bridge"
       THEN /\ c \in live /\ live' = live \ {c}
            /\ IF field["bridge"] = c[2] THEN Goto(c, "f1") ELSE UNCHANGED pc
       ELSE Goto(c, "i1") /\ UNCHANGED live
  /\ UNCHANGED <<gen, field, running, ret>>

\* A loop ends with an exception and calls onFailure.  The bridge's two loops
\* do so only if they are the first to close it; the others do so even when
\* the exception comes from having been stopped.
LoopFail(c) ==
  /\ c \in loops
  /\ gen + failures < MaxEvents
  /\ calm' = (calm /\ ~Opening)
  /\ failures' = failures + 1
  /\ loops' = loops \ {c}
  /\ IF c[1] = "bridge"
       THEN c \in live /\ live' = live \ {c} /\ Goto(c, "f1")
       ELSE Goto(c, "i1") /\ UNCHANGED live
  /\ UNCHANGED <<gen, field, running, ret>>

\* A loop notices that its scope is cancelled.
LoopQuit(c) ==
  /\ c \in loops
  /\ c \notin live
  /\ loops' = loops \ {c}
  /\ UNCHANGED <<gen, live, field, running, pc, ret, failures, calm>>

-----------------------------------------------------------------------------
Next ==
  \/ Stop \/ Open \/ OpenStep
  \/ \E t \in Actors : StopStep(t)
  \/ \E c \in Callbacks : LoopFail(c) \/ LoopQuit(c)

Spec == Init /\ [][Next]_vars

\* Threads run; calls into the operating system and the daemon return.
Fairness ==
  /\ \A t \in Actors : WF_vars(StopStep(t))
  /\ WF_vars(OpenStep)

FairSpec == Spec /\ Fairness

-----------------------------------------------------------------------------
IsRunning == field["bridge"] # 0 /\ <<"sessions", field["sessions"]>> \in live

Up(k) == \E r \in Runs : <<k, r>> \in live

\* With calm opens nothing is ever lost: whatever is live is what its field
\* refers to, or the bridge that start is about to store, so that the next
\* stop reaches it; and two runs never overlap.
NothingLost ==
  calm => \A x \in live :
    /\ field[x[1]] = x[2] \/ (x = <<"bridge", gen>> /\ pc[app] = "assign")
    /\ \A y \in live : x[2] = y[2]

\* With calm opens, once every call has returned a VPN is up as a whole or
\* not at all: a daemon session is open exactly if the UDP sockets are, and
\* then sessions and loops are too, however many stops ran side by side.
WholeOrDown ==
  calm /\ Quiet => /\ Up("bridge") <=> Up("socket")
                   /\ Up("bridge") => \A k \in Kinds : Up(k)

\* With calm opens a failure reported by any loop takes the whole VPN down.
FailureStopsAll ==
  calm /\ (\E c \in Callbacks : pc[c] # "idle") ~> live = {} \/ ~calm

\* Even if a bridge fails before start has stored it, or a callback of the
\* last run interferes, isRunning does not go on being true for a VPN whose
\* daemon session is gone.
DeadIsSeen ==
  IsRunning /\ Held("bridge") \cap live = {} ~> ~(IsRunning /\ Held("bridge") \cap live = {})
=============================================================================
