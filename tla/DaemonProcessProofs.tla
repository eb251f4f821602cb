------------------------ MODULE DaemonProcessProofs -------------------------
(***************************************************************************)
(* Proofs about the daemon as a process and the changes it makes to the    *)
(* system: DaemonLife, for any number of processes that get the            *)
(* identifier, of connections and of sessions; CommandRun and              *)
(* RoutingSocket, for pipes, inputs, outputs and buffers of any size, any  *)
(* number of workers and any messages in between; NrptRules, for any       *)
(* process identifiers, interfaces, namespaces and number of processes.    *)
(***************************************************************************)
EXTENDS DaemonLife, NrptRules, CommandRun, RoutingSocket, TLAPS

-----------------------------------------------------------------------------
(* The owner.                                                              *)

\* What prepare_owner knows at each of its steps: instances only grow, so a
\* start time read last vouches for what was read before it.
OwnerInv ==
  /\ instance \in Nat \ {0}
  /\ pin \in 0 .. instance /\ user \in 0 .. instance
  /\ system \in {"linux", "macos", "windows"}
  /\ lifePc \in {"user", "ticks"} => pin # 0
  /\ lifePc = "ticks" /\ system = "linux" => user # 0
  /\ lifePc = "ticks" /\ system = "windows" => user = pin
  /\ lifePc = "ticks" => system # "macos"
  /\ lifePc = "user" => system = "linux"
  /\ lifePc \in {"alive", "signals"} => pin = App /\ user = App
  /\ lifePc \in {"alive", "signals"} => ~refused
  /\ refused => lifePc \in {"logger", "flush", "ended"}
  /\ PinnedIsApp

\* A connection that waits is from a process that has had the identifier by
\* now, and one that is served is from the application.
ServedInv ==
  /\ OwnerInv
  /\ conn \in [Conns -> [state : {"none", "queued", "served", "rejected", "ended"}, by : Nat]]
  /\ \A c \in Conns : conn[c].by <= instance
  /\ \A c \in Conns : conn[c].state = "served" => conn[c].by = App

\* Labels of main after prepare_owner, none of them one of its own.
LaterLabels ==
  StartLabels \cup {"logger", "flush", "flushForced", "serve", "close", "drain", "unwind", "ended"}

LEMMA ServedInit == LifeInit => ServedInv
BY OwnerAssumption
DEF LifeInit, OwnerInit, ServedInv, OwnerInv, App, Stranger, PinnedIsApp, OwnerLabels

\* prepare_owner.
LEMMA OwnerStepKeeps == OwnerInv /\ OwnerStep => OwnerInv' /\ instance' = instance
<1> SUFFICES ASSUME OwnerInv, OwnerStep PROVE OwnerInv' /\ instance' = instance
  BY Zenon
<1> USE DEF OwnerInv, OwnerStep, Go, kernelVars, App, PinnedIsApp, OwnerLabels
<1>1. CASE CheckRoot
  BY <1>1, Zenon DEF CheckRoot
<1>2. CASE PinOwner
  BY <1>2 DEF PinOwner
<1>3. CASE ReadUser
  BY <1>3 DEF ReadUser
<1>4. CASE CheckTicks
  BY <1>4 DEF CheckTicks
<1>5. CASE CheckAlive
  BY <1>5, Zenon DEF CheckAlive
<1>6. CASE AllowSignals
  BY <1>6, Zenon DEF AllowSignals
<1>7. CASE RefuseOwner
  BY <1>7, Zenon DEF RefuseOwner
<1> QED
  BY <1>1, <1>2, <1>3, <1>4, <1>5, <1>6, <1>7, Zenon

\* The processes.
LEMMA ProcessStepKeeps ==
  OwnerInv /\ ProcessStep /\ UNCHANGED <<lifePc, refused, pin, user>>
    => OwnerInv' /\ instance <= instance'
BY DEF OwnerInv, ProcessStep, ProcessExit, ProcessReaped, IdentifierReused, App, PinnedIsApp,
       OwnerLabels

\* Any other step of main: neither end of it is a step of prepare_owner.
MainMoves ==
  /\ Quiet
  /\ lifePc \notin OwnerLabels /\ lifePc' \notin OwnerLabels
  /\ refused => lifePc' \in {"logger", "flush", "ended"}

LEMMA MainMovesKeeps == OwnerInv /\ MainMoves => OwnerInv' /\ instance' = instance
BY DEF OwnerInv, MainMoves, Quiet, kernelVars, PinnedIsApp, OwnerLabels, App

LEMMA StartMoves == OwnerInv /\ Start => MainMoves /\ UNCHANGED <<sess, conn, devices>>
<1> SUFFICES ASSUME OwnerInv, Start PROVE MainMoves /\ UNCHANGED <<sess, conn, devices>>
  BY Zenon
<1> USE DEF OwnerInv, MainMoves, Go, OwnerLabels, sessionVars
<1>1. CASE StartLogger \/ LoggerFail \/ CheckBinaries \/ StartFail
  BY <1>1, Zenon DEF StartLogger, LoggerFail, CheckBinaries, StartFail, StartLabels
<1>2. CASE CreateDllDir \/ LockDllDir \/ CreateDll \/ WriteDll \/ KeepDll \/ CreatePipe
  BY <1>2, Zenon DEF CreateDllDir, LockDllDir, CreateDll, WriteDll, KeepDll, CreatePipe
<1>3. CASE CreateSockDir \/ BindSocket \/ OwnSocket
  BY <1>3, Zenon DEF CreateSockDir, BindSocket, OwnSocket
<1> QED
  BY <1>1, <1>2, <1>3, Zenon DEF Start

LEMMA LoopMoves ==
  OwnerInv /\ (StopAsked \/ Monitor \/ Drained \/ DrainTimeout \/ Unwound \/ Flushed \/ DropListener)
    => MainMoves /\ UNCHANGED <<sess, conn, devices>>
BY Zenon DEF OwnerInv, MainMoves, Go, OwnerLabels, sessionVars, StopAsked, Monitor, Drained, DrainTimeout,
       Unwound, Flushed, DropListener, Listening

LEMMA ClosedMoves == OwnerInv /\ ListenerClosed => MainMoves
BY Zenon DEF OwnerInv, MainMoves, Go, OwnerLabels, ListenerClosed

\* The tasks beside main do not move it.
LEMMA SessionMoves ==
  ASSUME NEW n \in TunNames, SessionStep(n)
  PROVE  Quiet /\ UNCHANGED <<lifePc, conn, exit, guards>>
<1>1. CASE SessionStart(n) \/ SessionBuild(n) \/ SessionRun(n) \/ SessionStop(n) \/ SessionGone(n)
  BY <1>1, Zenon DEF SessionStart, SessionBuild, SessionRun, SessionStop, SessionGone, fileVars
<1>2. ASSUME NEW x \in Of(n), DropDevice(x) \/ DropLibrary(x)
      PROVE  Quiet /\ UNCHANGED <<lifePc, conn, exit, guards>>
  BY <1>2, Zenon DEF DropDevice, DropLibrary, fileVars
<1> QED
  BY <1>1, <1>2, Zenon DEF SessionStep

LEMMA QuietKeeps ==
  OwnerInv /\ Quiet /\ UNCHANGED lifePc => OwnerInv' /\ instance' = instance
BY SMTT(30) DEF OwnerInv, Quiet, kernelVars, PinnedIsApp, OwnerLabels, App

\* Every step keeps the invariant.
LEMMA ServedStep == ServedInv /\ [LifeNext]_lifeVars => ServedInv'
<1> SUFFICES ASSUME ServedInv, [LifeNext]_lifeVars PROVE ServedInv'
  BY Zenon
<1> USE DEF ServedInv
<1>1. CASE ProcessStep /\ UNCHANGED <<lifePc, refused, pin, user, files, before, handles, guards,
                                      sessionVars, exit>>
  <2>1. OwnerInv' /\ instance <= instance' /\ conn' = conn
    BY <1>1, ProcessStepKeeps, Zenon DEF sessionVars
  <2>2. instance \in Nat /\ instance' \in Nat
    BY <2>1, Zenon DEF OwnerInv
  <2> QED
    BY <2>1, <2>2
<1>2. CASE OwnerStep /\ UNCHANGED <<files, before, handles, guards, sessionVars, exit>>
  BY <1>2, OwnerStepKeeps, Zenon DEF sessionVars
<1>3. CASE Start
  BY <1>3, StartMoves, MainMovesKeeps, Zenon
<1>4. CASE StopAsked \/ Monitor \/ Drained \/ DrainTimeout \/ Unwound \/ Flushed \/ DropListener
  BY <1>4, LoopMoves, MainMovesKeeps, Zenon
<1>5. CASE ListenerClosed
  <2>1. OwnerInv' /\ instance' = instance
    BY <1>5, ClosedMoves, MainMovesKeeps, Zenon
  <2> QED
    BY <1>5, <2>1, Zenon DEF ListenerClosed
<1>6. ASSUME NEW c \in Conns, Connect(c) PROVE ServedInv'
  <2>1. OwnerInv' /\ instance' = instance
    BY <1>6, QuietKeeps, Zenon DEF Connect
  <2>2. PICK by \in {Stranger} \cup {i \in {instance} : process = "alive"} :
          conn' = [conn EXCEPT ![c] = [state |-> "queued", by |-> by]]
    BY <1>6, Zenon DEF Connect
  <2>3. by \in Nat /\ by <= instance
    BY <2>2 DEF OwnerInv, Stranger
  <2> QED
    BY <2>1, <2>2, <2>3, Zenon
<1>7. ASSUME NEW c \in Conns, Accept(c) PROVE ServedInv'
  <2>1. OwnerInv' /\ instance' = instance
    BY <1>7, QuietKeeps, Zenon DEF Accept
  <2>2. PICK peer \in {conn[c].by, Stranger} :
          conn' = [conn EXCEPT ![c].state = IF Authorizes(peer) THEN "served" ELSE "rejected"]
    BY <1>7, Zenon DEF Accept
  <2>3. ASSUME Authorizes(peer) PROVE conn[c].by = App
    <3>1. pin = App
      BY <1>7, Zenon DEF Accept, Listening, OwnerInv, PinnedIsApp, OwnerLabels
    <3>2. instance = App /\ conn[c].by # Stranger
      BY <2>2, <2>3, <3>1, Zenon DEF Authorizes, OwnerAlive
    <3> QED
      BY <3>2 DEF App, Stranger
  <2> QED
    BY <2>1, <2>2, <2>3, Zenon
<1>8. ASSUME NEW c \in Conns, ConnEnds(c) PROVE ServedInv'
  <2>1. OwnerInv' /\ instance' = instance
    BY <1>8, QuietKeeps, Zenon DEF ConnEnds
  <2> QED
    BY <1>8, <2>1, Zenon DEF ConnEnds
<1>9. ASSUME NEW n \in TunNames, SessionStep(n) PROVE ServedInv'
  BY <1>9, SessionMoves, QuietKeeps, Zenon
<1>10. CASE UNCHANGED lifeVars
  BY <1>10, Zenon DEF lifeVars, ownerVars, kernelVars, OwnerInv, PinnedIsApp
<1> QED
  BY <1>1, <1>2, <1>3, <1>4, <1>5, <1>6, <1>7, <1>8, <1>9, <1>10, Zenon DEF LifeNext, Main

\* The daemon serves nobody but the application that launched it, however
\* often its process identifier changes hands and whenever it does.
THEOREM OwnerAloneIsServed == LifeSpec => []ServedIsOwner
<1>1. ServedInv => ServedIsOwner
  BY Zenon DEF ServedInv, OwnerInv, ServedIsOwner
<1> QED
  BY <1>1, ServedInit, ServedStep, PTL DEF LifeSpec

-----------------------------------------------------------------------------
(* The library, the devices and the files.                                 *)

\* Steps of the start before anything can be served.
Early == OwnerLabels \cup StartLabels \cup {"logger"}

\* Nothing is made yet.
Bare == OwnerLabels \cup {"logger", "binaries", "dllDir", "sockDir"}

\* The shape of the state.
ShapeInv ==
  /\ files \in [Paths -> {"absent", "ours", "foreign"}]
  /\ before \in [Paths -> {"absent", "ours", "foreign"}]
  /\ conn \in [Conns -> [state : {"none", "queued", "served", "rejected", "ended"}, by : Nat]]
  /\ sess \in [TunNames -> {"none", "start", "built", "open", "drop", "gone"}]
  /\ library \subseteq Clones \cup {MainsShare} /\ devices \subseteq Clones
  /\ guards \subseteq {"sock", "dir"}
  /\ instance \in Nat
  /\ lifePc \in OwnerLabels \cup LaterLabels
  /\ exit \in {"running", "returned", "forced"}

NobodyServed == \A c \in Conns : conn[c].state # "served"
NoSession == \A n \in TunNames : sess[n] \in {"none", "gone"}

\* What can go on beside main at each of its steps.
StageInv ==
  /\ exit = "running" <=> lifePc # "ended"
  /\ lifePc \in Early => \A n \in TunNames : sess[n] = "none"
  /\ lifePc \in Early \cup {"unwind", "flush"} => NobodyServed
  /\ lifePc \in {"unwind", "flush"} \/ exit = "returned" => NoSession

\* The library is a matter of Windows, sockets are one of the others.
SystemInv ==
  /\ library # {} => system = "windows"
  /\ lifePc \in {"dllDir", "dllLock", "dllFile", "dllWrite", "dllKeep", "pipe"} => system = "windows"
  /\ lifePc \in {"sockDir", "sockBind", "sockOwn"} => system # "windows"

\* Whoever has a device has a share in the library, and a session that is
\* over, or not begun, has neither.
ShareInv ==
  /\ system = "windows" => devices \subseteq library
  /\ \A n \in TunNames :
       /\ sess[n] \in {"start", "built"} /\ system = "windows" => <<n, "loop">> \in library
       /\ sess[n] \in {"none", "gone"} => Of(n) \cap (devices \cup library) = {}

\* The library is on disk and held open from the end of extract_at for as
\* long as anybody has a share in it.
Opened == files["dll"] = "ours" /\ {"dir", "file"} \subseteq handles
OpenedInv ==
  /\ lifePc \in {"dllFile", "dllWrite", "dllKeep"} => "dir" \in handles
  /\ lifePc \in {"dllWrite", "dllKeep"} => files["dll"] = "ours"
  /\ lifePc \in {"pipe", "serve", "close", "drain", "flushForced"} /\ library # {} => Opened
  /\ library \cap Clones # {} => Opened

\* What the paths are, from the values whose Drop removes them.
FilesInv ==
  /\ \A p \in {"sock", "dllDir", "dll"} : before[p] = "absent"
  /\ files["sock"] = IF "sock" \in guards THEN "ours" ELSE "absent"
  /\ "sock" \in guards => "dir" \in guards
  /\ IF "dir" \in guards THEN before["sockDir"] = "absent" ELSE files["sockDir"] = before["sockDir"]
  /\ library = {} => files["dll"] = "absent" /\ files["dllDir"] = "absent" /\ handles = {}
  /\ lifePc \in Bare \cup {"flush"} \/ exit = "returned" => library = {} /\ guards = {}
  /\ lifePc = "sockBind" => "dir" \in guards
  /\ lifePc = "dllLock" => library # {}

LifeInv == ShapeInv /\ StageInv /\ SystemInv /\ ShareInv /\ OpenedInv /\ FilesInv

LEMMA FileSet ==
  ASSUME NEW F, NEW f \in [Paths -> F], NEW p \in Paths, NEW v \in F
  PROVE  [f EXCEPT ![p] = v] \in [Paths -> F]
BY Zenon

\* Without sessions only main has a share, and nobody a device.
LEMMA NobodyHolds ==
  ASSUME LifeInv, NoSession
  PROVE  library \subseteq {MainsShare} /\ devices = {}
<1>1. \A n \in TunNames : Of(n) \cap (devices \cup library) = {}
  BY Zenon DEF LifeInv, ShareInv, NoSession
<1>2. \A x \in Clones : \E n \in TunNames : x \in Of(n)
  BY Zenon DEF Clones, Of
<1> QED
  BY <1>1, <1>2, Zenon DEF LifeInv, ShapeInv

LEMMA LifeInvInit == LifeInit => LifeInv
<1> SUFFICES ASSUME LifeInit PROVE LifeInv
  BY Zenon
<1> USE DEF LifeInit, OwnerInit, App, Stranger, Paths, OwnerLabels
<1>1. ShapeInv
  BY Zenon DEF ShapeInv, LaterLabels
<1>2. StageInv /\ SystemInv /\ ShareInv
  BY Zenon DEF StageInv, SystemInv, ShareInv, NobodyServed, NoSession
<1>3. OpenedInv /\ FilesInv
  BY Zenon DEF OpenedInv, FilesInv
<1> QED
  BY <1>1, <1>2, <1>3, Zenon DEF LifeInv

\* prepare_owner makes nothing.
LEMMA OwnerStepKeepsLife ==
  LifeInv /\ OwnerStep /\ UNCHANGED <<files, before, handles, guards, sessionVars, exit>> => LifeInv'
<1> SUFFICES ASSUME LifeInv, OwnerStep,
                    UNCHANGED <<files, before, handles, guards, sessionVars, exit>>
             PROVE  LifeInv'
  BY Zenon
<1>1. /\ lifePc \in OwnerLabels /\ lifePc' \in OwnerLabels \cup {"logger"}
      /\ UNCHANGED <<system, instance>>
  BY Zenon DEF OwnerStep, CheckRoot, PinOwner, ReadUser, CheckTicks, CheckAlive, AllowSignals, RefuseOwner,
         OwnerLabels, Go, kernelVars
<1> QED
  BY <1>1 DEF LifeInv, ShapeInv, StageInv, SystemInv, ShareInv, OpenedInv, FilesInv,
              sessionVars, Early, Bare, OwnerLabels, LaterLabels, StartLabels, NobodyServed, NoSession,
              Opened

\* The start, and its failure at any step.
LEMMA StartKeepsLife == LifeInv /\ Start => LifeInv'
<1> SUFFICES ASSUME LifeInv, Start PROVE LifeInv'
  BY Zenon
<1> USE DEF LifeInv, ShapeInv, StageInv, SystemInv, ShareInv, OpenedInv, FilesInv,
           Quiet, kernelVars, fileVars, sessionVars, Go, Early, Bare, OwnerLabels, LaterLabels,
           StartLabels, NobodyServed, NoSession, Opened, Paths, Clones, Of, MainsShare
<1>1. CASE StartLogger
  BY <1>1, SMTT(60) DEF StartLogger
<1>2. CASE LoggerFail
  BY <1>2, Zenon DEF LoggerFail
<1>3. CASE CheckBinaries
  BY <1>3, ZenonT(30) DEF CheckBinaries
<1>4. CASE StartFail
  BY <1>4, SMTT(60) DEF StartFail
<1>5. CASE CreateDllDir
  <2>1. ShapeInv'
    BY <1>5, Zenon DEF CreateDllDir
  <2>2. StageInv'
    BY <1>5, Zenon DEF CreateDllDir
  <2>3. SystemInv'
    BY <1>5, Zenon DEF CreateDllDir
  <2>4. ShareInv'
    BY <1>5, SMTT(60) DEF CreateDllDir
  <2>5. OpenedInv'
    BY <1>5, SMTT(60) DEF CreateDllDir
  <2>6. FilesInv'
    BY <1>5, ZenonT(60) DEF CreateDllDir
  <2> HIDE DEF ShapeInv, StageInv, SystemInv, ShareInv, OpenedInv, FilesInv
  <2> QED
    BY <2>1, <2>2, <2>3, <2>4, <2>5, <2>6, Zenon
<1>6. CASE LockDllDir
  <2>1. ShapeInv'
    BY <1>6, Zenon DEF LockDllDir
  <2>2. StageInv'
    BY <1>6, Zenon DEF LockDllDir
  <2>3. SystemInv'
    BY <1>6, Zenon DEF LockDllDir
  <2>4. ShareInv'
    BY <1>6, SMTT(60) DEF LockDllDir
  <2>5. OpenedInv'
    BY <1>6, ZenonT(60) DEF LockDllDir
  <2>6. FilesInv'
    BY <1>6, Zenon DEF LockDllDir
  <2> HIDE DEF ShapeInv, StageInv, SystemInv, ShareInv, OpenedInv, FilesInv
  <2> QED
    BY <2>1, <2>2, <2>3, <2>4, <2>5, <2>6, Zenon
<1>7. CASE CreateDll
  BY <1>7, SMTT(60) DEF CreateDll
<1>8. CASE WriteDll
  BY <1>8, SMTT(60) DEF WriteDll
<1>9. CASE KeepDll
  BY <1>9, SMTT(60) DEF KeepDll
<1>10. CASE CreatePipe
  BY <1>10, SMTT(60) DEF CreatePipe
<1>11. CASE CreateSockDir
  BY <1>11, Zenon DEF CreateSockDir
<1>12. CASE BindSocket
  BY <1>12, SMTT(60) DEF BindSocket
<1>13. CASE OwnSocket
  <2>1. ShapeInv'
    BY <1>13, Zenon DEF OwnSocket
  <2>2. StageInv'
    BY <1>13, Zenon DEF OwnSocket
  <2>3. SystemInv'
    BY <1>13, Zenon DEF OwnSocket
  <2>4. ShareInv'
    BY <1>13, Zenon DEF OwnSocket
  <2>5. OpenedInv'
    BY <1>13, Zenon DEF OwnSocket
  <2>6. FilesInv'
    BY <1>13, Zenon DEF OwnSocket
  <2> HIDE DEF ShapeInv, StageInv, SystemInv, ShareInv, OpenedInv, FilesInv
  <2> QED
    BY <2>1, <2>2, <2>3, <2>4, <2>5, <2>6, Zenon
<1> HIDE DEF LifeInv
<1> QED
  BY <1>1, <1>2, <1>3, <1>4, <1>5, <1>6, <1>7, <1>8, <1>9, <1>10, <1>11, <1>12, <1>13, Zenon DEF Start

\* The end of the loop, of run and of main.
LEMMA EndKeepsLife ==
  LifeInv /\ (StopAsked \/ Monitor \/ DropListener \/ ListenerClosed \/ Drained
             \/ DrainTimeout \/ Unwound \/ Flushed) => LifeInv'
<1> USE DEF LifeInv, ShapeInv, StageInv, SystemInv, ShareInv, OpenedInv, FilesInv,
           Quiet, kernelVars, fileVars, sessionVars, Go, Early, Bare, OwnerLabels, LaterLabels,
           StartLabels, NobodyServed, NoSession, Opened, Paths, Clones, Of, MainsShare
<1>1. ASSUME LifeInv, StopAsked PROVE LifeInv'
  BY <1>1, SMTT(60) DEF StopAsked, Listening
<1>2. ASSUME LifeInv, Monitor PROVE LifeInv'
  BY <1>2, SMTT(60) DEF Monitor, Listening
<1>3. ASSUME LifeInv, DropListener PROVE LifeInv'
  <2>1. ShapeInv'
    <3>1. files' \in [Paths -> {"absent", "ours", "foreign"}]
      <4>1. CASE "sock" \in guards
        BY <1>3, <4>1, FileSet, SMTT(60) DEF DropListener
      <4>2. CASE "sock" \notin guards
        BY <1>3, <4>2, FileSet, SMTT(60) DEF DropListener
      <4> QED
        BY <4>1, <4>2, Zenon
    <3> QED
      BY <1>3, <3>1, ZenonT(60) DEF DropListener
  <2>2. StageInv'
    BY <1>3, Zenon DEF DropListener
  <2>3. SystemInv'
    BY <1>3, Zenon DEF DropListener
  <2>4. ShareInv'
    BY <1>3, SMTT(60) DEF DropListener
  <2>5. OpenedInv'
    BY <1>3, SMTT(60) DEF DropListener
  <2>6. FilesInv'
    BY <1>3, SMTT(60) DEF DropListener
  <2> HIDE DEF ShapeInv, StageInv, SystemInv, ShareInv, OpenedInv, FilesInv
  <2> QED
    BY <2>1, <2>2, <2>3, <2>4, <2>5, <2>6, Zenon
<1>4. ASSUME LifeInv, ListenerClosed PROVE LifeInv'
  BY <1>4, SMTT(60) DEF ListenerClosed
<1>5. ASSUME LifeInv, Drained PROVE LifeInv'
  BY <1>5, SMTT(60) DEF Drained
<1>6. ASSUME LifeInv, DrainTimeout PROVE LifeInv'
  BY <1>6, SMTT(60) DEF DrainTimeout
<1>7. ASSUME LifeInv, Unwound PROVE LifeInv'
  <2>1. ShapeInv'
    BY <1>7, SMTT(60) DEF Unwound, LetGo
  <2>2. StageInv'
    BY <1>7, Zenon DEF Unwound, LetGo
  <2>3. SystemInv'
    BY <1>7, Zenon DEF Unwound, LetGo
  <2>4. ShareInv'
    BY <1>7, SMTT(60) DEF Unwound, LetGo
  <2>5. OpenedInv'
    BY <1>7, SMTT(60) DEF Unwound, LetGo
  <2>6. FilesInv'
    <3>1. library \subseteq {MainsShare} /\ devices = {}
      <4>1. NoSession
        BY <1>7, Zenon DEF Unwound
      <4> QED
        BY <1>7, <4>1, NobodyHolds, Zenon
    <3>2. library' = {}
      BY <1>7, <3>1, SMTT(60) DEF Unwound, LetGo
    <3>3. CASE library = {}
      BY <1>7, <3>2, <3>3, Zenon DEF Unwound
    <3>4. CASE library = {MainsShare}
      <4>1. /\ files' = [files EXCEPT !["dll"] = "absent", !["dllDir"] = "absent"]
            /\ handles' = {}
        BY <1>7, <3>1, <3>4, Zenon DEF Unwound, LetGo
      <4> QED
        BY <1>7, <3>2, <4>1, Zenon DEF Unwound
    <3> QED
      BY <3>1, <3>3, <3>4, Zenon
  <2> HIDE DEF ShapeInv, StageInv, SystemInv, ShareInv, OpenedInv, FilesInv
  <2> QED
    BY <2>1, <2>2, <2>3, <2>4, <2>5, <2>6, Zenon
<1>8. ASSUME LifeInv, Flushed PROVE LifeInv'
  BY <1>8, SMTT(60) DEF Flushed
<1> HIDE DEF LifeInv
<1> QED
  BY <1>1, <1>2, <1>3, <1>4, <1>5, <1>6, <1>7, <1>8, Zenon

\* Connections.
LEMMA ConnKeepsLife ==
  ASSUME LifeInv, NEW c \in Conns, Connect(c) \/ Accept(c) \/ ConnEnds(c)
  PROVE  LifeInv'
<1> USE DEF LifeInv, ShapeInv, StageInv, SystemInv, ShareInv, OpenedInv, FilesInv,
           Quiet, kernelVars, fileVars, sessionVars, Go, Early, Bare, OwnerLabels, LaterLabels,
           StartLabels, NobodyServed, NoSession, Opened, Paths, Clones, Of, MainsShare
<1>1. CASE Connect(c)
  <2>1. ShapeInv'
    BY <1>1, SMTT(60) DEF Connect, Listening, Stranger
  <2>2. StageInv'
    BY <1>1, Zenon DEF Connect, Listening, Stranger
  <2>3. SystemInv'
    BY <1>1, Zenon DEF Connect, Listening, Stranger
  <2>4. ShareInv'
    BY <1>1, SMTT(60) DEF Connect, Listening, Stranger
  <2>5. OpenedInv'
    BY <1>1, Zenon DEF Connect, Listening, Stranger
  <2>6. FilesInv'
    BY <1>1, Zenon DEF Connect, Listening, Stranger
  <2> HIDE DEF ShapeInv, StageInv, SystemInv, ShareInv, OpenedInv, FilesInv
  <2> QED
    BY <2>1, <2>2, <2>3, <2>4, <2>5, <2>6, Zenon
<1>2. CASE Accept(c)
  BY <1>2, SMTT(60) DEF Accept, Listening
<1>3. CASE ConnEnds(c)
  BY <1>3, SMTT(60) DEF ConnEnds, Running
<1> HIDE DEF LifeInv
<1> QED
  BY <1>1, <1>2, <1>3, Zenon

\* Sessions.
LEMMA SessionKeepsLife ==
  ASSUME LifeInv, NEW n \in TunNames, SessionStep(n)
  PROVE  LifeInv'
<1> USE DEF LifeInv, ShapeInv, StageInv, SystemInv, ShareInv, OpenedInv, FilesInv,
           Quiet, kernelVars, fileVars, sessionVars, Go, Early, Bare, OwnerLabels, LaterLabels,
           StartLabels, NobodyServed, NoSession, Opened, Paths, Clones, Of, MainsShare, Running
<1>1. CASE SessionStart(n)
  <2>1. ShapeInv'
    BY <1>1, SMTT(60) DEF SessionStart
  <2>2. StageInv'
    BY <1>1, Zenon DEF SessionStart
  <2>3. SystemInv'
    BY <1>1, Zenon DEF SessionStart
  <2>4. ShareInv'
    BY <1>1, SMTT(60) DEF SessionStart
  <2>5. OpenedInv'
    BY <1>1, Zenon DEF SessionStart
  <2>6. FilesInv'
    BY <1>1, SMTT(60) DEF SessionStart
  <2> HIDE DEF ShapeInv, StageInv, SystemInv, ShareInv, OpenedInv, FilesInv
  <2> QED
    BY <2>1, <2>2, <2>3, <2>4, <2>5, <2>6, Zenon
<1>2. CASE SessionBuild(n)
  <2>1. ShapeInv'
    BY <1>2, SMTT(60) DEF SessionBuild
  <2>2. StageInv'
    BY <1>2, Zenon DEF SessionBuild
  <2>3. SystemInv'
    BY <1>2, Zenon DEF SessionBuild
  <2>4. ShareInv'
    BY <1>2, SMTT(60) DEF SessionBuild
  <2>5. OpenedInv'
    BY <1>2, Zenon DEF SessionBuild
  <2>6. FilesInv'
    BY <1>2, Zenon DEF SessionBuild
  <2> HIDE DEF ShapeInv, StageInv, SystemInv, ShareInv, OpenedInv, FilesInv
  <2> QED
    BY <2>1, <2>2, <2>3, <2>4, <2>5, <2>6, Zenon
<1>3. CASE SessionRun(n)
  <2>1. ShapeInv'
    BY <1>3, SMTT(60) DEF SessionRun
  <2>2. StageInv'
    BY <1>3, Zenon DEF SessionRun
  <2>3. SystemInv'
    BY <1>3, Zenon DEF SessionRun
  <2>4. ShareInv'
    BY <1>3, SMTT(60) DEF SessionRun
  <2>5. OpenedInv'
    BY <1>3, ZenonT(60) DEF SessionRun
  <2>6. FilesInv'
    BY <1>3, SMTT(60) DEF SessionRun
  <2> HIDE DEF ShapeInv, StageInv, SystemInv, ShareInv, OpenedInv, FilesInv
  <2> QED
    BY <2>1, <2>2, <2>3, <2>4, <2>5, <2>6, Zenon
<1>4. CASE SessionStop(n)
  <2>1. ShapeInv'
    BY <1>4, Zenon DEF SessionStop
  <2>2. StageInv'
    BY <1>4, Zenon DEF SessionStop
  <2>3. SystemInv'
    BY <1>4, Zenon DEF SessionStop
  <2>4. ShareInv'
    BY <1>4, SMTT(60) DEF SessionStop
  <2>5. OpenedInv'
    BY <1>4, Zenon DEF SessionStop
  <2>6. FilesInv'
    BY <1>4, Zenon DEF SessionStop
  <2> HIDE DEF ShapeInv, StageInv, SystemInv, ShareInv, OpenedInv, FilesInv
  <2> QED
    BY <2>1, <2>2, <2>3, <2>4, <2>5, <2>6, Zenon
<1>5. CASE SessionGone(n)
  <2>1. ShapeInv'
    BY <1>5, Zenon DEF SessionGone
  <2>2. StageInv'
    BY <1>5, Zenon DEF SessionGone
  <2>3. SystemInv'
    BY <1>5, Zenon DEF SessionGone
  <2>4. ShareInv'
    BY <1>5, SMTT(60) DEF SessionGone
  <2>5. OpenedInv'
    BY <1>5, Zenon DEF SessionGone
  <2>6. FilesInv'
    BY <1>5, Zenon DEF SessionGone
  <2> HIDE DEF ShapeInv, StageInv, SystemInv, ShareInv, OpenedInv, FilesInv
  <2> QED
    BY <2>1, <2>2, <2>3, <2>4, <2>5, <2>6, Zenon
<1>6. ASSUME NEW x \in Of(n), DropDevice(x) PROVE LifeInv'
  <2>1. ShapeInv'
    BY <1>6, Zenon DEF DropDevice
  <2>2. StageInv'
    BY <1>6, Zenon DEF DropDevice
  <2>3. SystemInv'
    BY <1>6, Zenon DEF DropDevice
  <2>4. ShareInv'
    BY <1>6, SMTT(60) DEF DropDevice
  <2>5. OpenedInv'
    BY <1>6, Zenon DEF DropDevice
  <2>6. FilesInv'
    BY <1>6, Zenon DEF DropDevice
  <2> HIDE DEF ShapeInv, StageInv, SystemInv, ShareInv, OpenedInv, FilesInv
  <2> QED
    BY <2>1, <2>2, <2>3, <2>4, <2>5, <2>6, Zenon
<1>7. ASSUME NEW x \in Of(n), DropLibrary(x) PROVE LifeInv'
  <2>1. ShapeInv'
    BY <1>7, Zenon DEF DropLibrary, LetGo
  <2>2. StageInv'
    BY <1>7, Zenon DEF DropLibrary, LetGo
  <2>3. SystemInv'
    BY <1>7, Zenon DEF DropLibrary, LetGo
  <2>4. ShareInv'
    BY <1>7, SMTT(60) DEF DropLibrary, LetGo
  <2>5. OpenedInv'
    BY <1>7, SMTT(60) DEF DropLibrary, LetGo
  <2>6. FilesInv'
    BY <1>7, SMTT(60) DEF DropLibrary, LetGo
  <2> HIDE DEF ShapeInv, StageInv, SystemInv, ShareInv, OpenedInv, FilesInv
  <2> QED
    BY <2>1, <2>2, <2>3, <2>4, <2>5, <2>6, Zenon
<1> HIDE DEF LifeInv
<1> QED
  BY <1>1, <1>2, <1>3, <1>4, <1>5, <1>6, <1>7, Zenon DEF SessionStep

\* Every step keeps the invariant.
LEMMA LifeStep == LifeInv /\ [LifeNext]_lifeVars => LifeInv'
<1> SUFFICES ASSUME LifeInv, [LifeNext]_lifeVars PROVE LifeInv'
  BY Zenon
<1>1. CASE ProcessStep /\ UNCHANGED <<lifePc, refused, pin, user, files, before, handles, guards,
                                      sessionVars, exit>>
  <2>1. system' = system /\ (instance \in Nat => instance' \in Nat)
    BY <1>1, SMTT(60) DEF ProcessStep, ProcessExit, ProcessReaped, IdentifierReused
  <2> QED
    BY <1>1, <2>1, SMTT(60) DEF LifeInv, ShapeInv, StageInv, SystemInv, ShareInv, OpenedInv, FilesInv,
                      sessionVars, NobodyServed, NoSession, Opened
<1>2. CASE Main
  BY <1>2, OwnerStepKeepsLife, StartKeepsLife, EndKeepsLife, Zenon DEF Main
<1>3. CASE StopAsked \/ Monitor
  BY <1>3, EndKeepsLife, Zenon
<1>4. CASE \E c \in Conns : Connect(c) \/ Accept(c) \/ ConnEnds(c)
  BY <1>4, ConnKeepsLife, Zenon
<1>5. CASE \E n \in TunNames : SessionStep(n)
  BY <1>5, SessionKeepsLife, ZenonT(30)
<1>6. CASE UNCHANGED lifeVars
  BY <1>6, SMTT(60) DEF lifeVars, ownerVars, kernelVars,
              LifeInv, ShapeInv, StageInv, SystemInv, ShareInv, OpenedInv, FilesInv,
              NobodyServed, NoSession, Opened
<1> QED
  BY <1>1, <1>2, <1>3, <1>4, <1>5, <1>6, Zenon DEF LifeNext

\* wintun.dll stays on disk, protected, under every device, whatever the
\* order in which main, the session loops and the readers end.
THEOREM LibraryOutlivesDevices == LifeSpec => []DllOutlivesDevices
<1>1. LifeInv => DllOutlivesDevices
  BY Zenon DEF LifeInv, ShapeInv, ShareInv, OpenedInv, Opened, DllOutlivesDevices
<1> QED
  BY <1>1, LifeInvInit, LifeStep, PTL DEF LifeSpec

\* A main that returns has removed what it made and nothing else, at
\* whichever step the start failed.
THEOREM MainLeavesAsFound == LifeSpec => []LeavesAsFound
<1>1. LifeInv => LeavesAsFound
  <2> SUFFICES ASSUME LifeInv, exit = "returned" PROVE files = before /\ devices = {} /\ handles = {}
    BY Zenon DEF LeavesAsFound
  <2>1. devices = {}
    BY NobodyHolds, Zenon DEF LifeInv, StageInv
  <2>2. handles = {} /\ \A p \in Paths : files[p] = before[p]
    BY Zenon DEF LifeInv, FilesInv, Paths
  <2> QED
    BY <2>1, <2>2 DEF LifeInv, ShapeInv
<1> QED
  BY <1>1, LifeInvInit, LifeStep, PTL DEF LifeSpec
-----------------------------------------------------------------------------
(* Commands.                                                               *)

\* Chunks that read_capped keeps of n.
Capped(n) == IF n < OutputCap THEN n ELSE OutputCap

\* What a future of try_join! that is ready has seen, and what the worker may
\* find of the tool at each of its steps.
CommandInv ==
  /\ pipe \in [Outputs -> Nat] /\ captured \in [Outputs -> Nat] /\ written \in [Outputs -> Nat]
  /\ holds \in [Processes -> SUBSET Ends]
  /\ joined \subseteq Futures
  /\ cmdPc = "supervise" =>
       /\ child \in {"running", "zombie", "reaped"}
       /\ "stdin" \in joined => unsent = 0
       /\ "wait" \in joined => child = "reaped"
       /\ \A s \in Outputs :
            /\ pipe[s] <= written[s]
            /\ captured[s] = Capped(written[s] - pipe[s])
            /\ s \in joined => pipe[s] = 0 /\ Holders(s) = {}
  /\ cmdPc = "kill" => child \in {"running", "zombie", "reaped"}
  /\ cmdPc = "reap" => child \in {"running", "dying", "zombie", "reaped"}
  /\ cmdPc \in {"idle", "returned"} /\ result # "unreaped" => child \in {"none", "reaped"}
  /\ SuccessIsWhole

LEMMA CommandInvInit == CommandInit => CommandInv
BY CommandAssumption
DEF CommandInit, CommandInv, NoChunks, Idle, SuccessIsWhole, Processes

\* Every step keeps the invariant.
LEMMA CommandInvStep == CommandInv /\ [CommandNext]_commandVars => CommandInv'
<1> SUFFICES ASSUME CommandInv, [CommandNext]_commandVars PROVE CommandInv'
  BY Zenon
<1> USE CommandAssumption
    DEF CommandInv, SuccessIsWhole, Capped, Holders, Processes, Outputs, Ends, Futures, Supervising,
        GiveUp
<1>1. CASE WriteInput
  BY <1>1, Zenon DEF WriteInput
<1>2. CASE InputDone
  BY <1>2, Zenon DEF InputDone
<1>3. CASE InputBroken
  BY <1>3, Zenon DEF InputBroken
<1>4. CASE Wait
  BY <1>4, Zenon DEF Wait
<1>5. CASE Finish
  BY <1>5 DEF Finish
<1>6. CASE Deadline
  BY <1>6, Zenon DEF Deadline
<1>7. CASE StartKill
  BY <1>7, Zenon DEF StartKill
<1>8. CASE Reap \/ ReapFail
  BY <1>8, Zenon DEF Reap, ReapFail
<1>9. CASE SpawnFail
  BY <1>9, Zenon DEF SpawnFail
<1>10. CASE RunReturn
  BY <1>10, Zenon DEF RunReturn
<1>11. CASE ToolExit
  BY <1>11, Zenon DEF ToolExit
<1>12. ASSUME NEW n \in Payloads, Spawn(n) PROVE CommandInv'
  BY <1>12, SMTT(30) DEF Spawn, NoChunks, Idle
<1>13. ASSUME NEW s \in Outputs, ReadOutput(s) PROVE CommandInv'
  BY <1>13 DEF ReadOutput
<1>14. ASSUME NEW s \in Outputs, ReadEof(s) PROVE CommandInv'
  BY <1>14 DEF ReadEof
<1>15. ASSUME NEW p \in Processes, Consume(p) PROVE CommandInv'
  BY <1>15, Zenon DEF Consume
<1>16. ASSUME NEW p \in Processes, NEW s \in Outputs, Produce(p, s) PROVE CommandInv'
  BY <1>16 DEF Produce
<1>17. ASSUME NEW p \in Processes, NEW e \in Ends, CloseEnd(p, e) PROVE CommandInv'
  BY <1>17, Zenon DEF CloseEnd
<1>18. ASSUME NEW inherited \in SUBSET Ends, Fork(inherited) PROVE CommandInv'
  BY <1>18, Zenon DEF Fork
<1>19. CASE UNCHANGED commandVars
  BY <1>19, Zenon DEF commandVars
<1> HIDE DEF CommandInv, Outputs, Ends, Processes
<1> QED
  BY <1>1, <1>2, <1>3, <1>4, <1>5, <1>6, <1>7, <1>8, <1>9, <1>10, <1>11, <1>12, <1>13, <1>14, <1>15, <1>16, <1>17, <1>18, <1>19, Zenon
  DEF CommandNext, CommandStep

\* run_command never reports success for a command that was cut short, nor
\* returns before the tool is reaped without saying so.
THEOREM SuccessMeansWhole == CommandSpec => []SuccessIsWhole
<1>1. CommandInv => SuccessIsWhole
  BY Zenon DEF CommandInv
<1> QED
  BY <1>1, CommandInvInit, CommandInvStep, PTL DEF CommandSpec

-----------------------------------------------------------------------------
(* The routing socket.                                                     *)

SocketTypes ==
  /\ sockPc \in [Workers -> {"idle", "open", "sent", "done"}]
  /\ asked \in [Workers -> Operations]
  /\ seq \in [Workers -> SeqNumbers] /\ sequence \in SeqNumbers
  /\ inbox \in [Workers -> Seq(Messages)]
  /\ DOMAIN outcome = Workers /\ DOMAIN effect = Workers

\* A closed socket has no messages.
ClosedAreEmpty == \A w \in Workers \ Open : inbox[w] = <<>>

\* Workers that wait have numbers of their own, so that no reply in a buffer
\* is for another worker.
OwnNumbers == \A v, w \in Open : seq[v] = seq[w] => v = w

\* A message that a worker would take for its reply comes after its request
\* and says what the kernel did with it.
Truthful(w, m) ==
  IsReply(w, m) => sockPc[w] = "sent" /\ effect[w] = IF m.errno THEN "refused" ELSE "applied"
AllTruthful(w, box) == \A i \in 1 .. Len(box) : Truthful(w, box[i])

SocketInv ==
  /\ SocketTypes /\ ClosedAreEmpty /\ OwnNumbers /\ OutcomeIsTrue
  /\ \A w \in Workers : AllTruthful(w, inbox[w])

LEMMA SocketInvInit == SocketInit => SocketInv
<1> SUFFICES ASSUME SocketInit PROVE SocketInv
  BY Zenon
<1>1. SocketTypes
  BY SocketAssumption DEF SocketInit, SocketTypes, Operations, SeqNumbers
<1>2. \A w \in Workers : sockPc[w] = "idle" /\ inbox[w] = <<>>
  BY Zenon DEF SocketInit
<1>3. Open = {}
  BY <1>2, Zenon DEF Open
<1>4. ClosedAreEmpty /\ OwnNumbers /\ OutcomeIsTrue
  BY <1>2, <1>3, Zenon DEF ClosedAreEmpty, OwnNumbers, OutcomeIsTrue
<1>5. \A w \in Workers : AllTruthful(w, inbox[w])
  <2>1. \A i \in 1 .. Len(<<>>) : FALSE
    OBVIOUS
  <2> QED
    BY <1>2, <2>1, Zenon DEF AllTruthful
<1> QED
  BY <1>1, <1>4, <1>5, Zenon DEF SocketInv

\* A message reaches a buffer, unchanged otherwise, or not.
LEMMA BroadcastAppends ==
  ASSUME inbox \in [Workers -> Seq(Messages)], NEW m \in Messages
  PROVE  /\ Broadcast(m) \in [Workers -> Seq(Messages)]
         /\ \A w \in Workers \ Open : Broadcast(m)[w] = inbox[w]
         /\ \A w \in Workers : \A i \in 1 .. Len(Broadcast(m)[w]) :
              \/ i \in 1 .. Len(inbox[w]) /\ Broadcast(m)[w][i] = inbox[w][i]
              \/ w \in Open /\ Broadcast(m)[w][i] = m
BY SMTT(30) DEF Broadcast, Open

\* What a worker takes for its reply still is one where nothing changes for it.
LEMMA StillTruthful ==
  ASSUME NEW v \in Workers, sockPc'[v] = sockPc[v], effect'[v] = effect[v], asked'[v] = asked[v],
         seq'[v] = seq[v], NEW box, AllTruthful(v, box), inbox'[v] = box
  PROVE  AllTruthful(v, inbox[v])'
BY Zenon DEF AllTruthful, Truthful, IsReply

\* exchange returns, with an answer that fits what the kernel did.
LEMMA AnswerKeeps ==
  ASSUME SocketInv, NEW w \in Workers, NEW o, NEW boxes \in [Workers -> Seq(Messages)],
         Answer(w, o, boxes), UNCHANGED <<asked, seq, sequence>>,
         DOMAIN effect' = Workers, \A v \in Workers \ {w} : effect'[v] = effect[v],
         \A v \in Workers \ Open : boxes[v] = inbox[v],
         \A v \in Workers \ {w} : AllTruthful(v, boxes[v]),
         o = "ok" => effect'[w] = "applied", o = "errno" => effect'[w] = "refused"
  PROVE  SocketInv'
<1>1. SocketTypes /\ ClosedAreEmpty /\ OwnNumbers /\ OutcomeIsTrue
  BY Zenon DEF SocketInv
<1>2. /\ sockPc' = [sockPc EXCEPT ![w] = "done"] /\ outcome' = [outcome EXCEPT ![w] = o]
      /\ inbox' = [boxes EXCEPT ![w] = <<>>]
  BY Zenon DEF Answer
<1>3. /\ sockPc'[w] = "done" /\ outcome'[w] = o /\ inbox'[w] = <<>>
      /\ \A v \in Workers \ {w} : sockPc'[v] = sockPc[v] /\ outcome'[v] = outcome[v] /\ inbox'[v] = boxes[v]
  BY <1>1, <1>2, Zenon DEF SocketTypes
<1>4. SocketTypes'
  <2>1. sockPc' \in [Workers -> {"idle", "open", "sent", "done"}]
    BY <1>1, <1>2, Zenon DEF SocketTypes
  <2>2. inbox' \in [Workers -> Seq(Messages)]
    <3>1. <<>> \in Seq(Messages)
      OBVIOUS
    <3> QED
      BY <1>2, <3>1, Zenon
  <2>3. DOMAIN outcome' = Workers
    BY <1>1, <1>2, Zenon DEF SocketTypes
  <2> QED
    BY <1>1, <2>1, <2>2, <2>3, Zenon DEF SocketTypes
<1>5. \A v \in Open' : v \in Open /\ v # w
  BY <1>3, Zenon DEF Open
<1>6. \A v \in Workers : v \in Open /\ v # w => v \in Open'
  BY <1>3, Zenon DEF Open
<1>7. ClosedAreEmpty'
  BY <1>1, <1>3, <1>6, Zenon DEF ClosedAreEmpty
<1>8. OwnNumbers'
  BY <1>1, <1>5, Zenon DEF OwnNumbers
<1>9. OutcomeIsTrue'
  <2> SUFFICES ASSUME NEW v \in Workers, sockPc'[v] = "done"
               PROVE  (outcome'[v] = "ok" => effect'[v] = "applied") /\ (outcome'[v] = "errno" => effect'[v] = "refused")
    BY Zenon DEF OutcomeIsTrue
  <2>1. CASE v = w
    BY <1>3, <2>1, Zenon
  <2>2. CASE v # w
    <3>1. sockPc[v] = "done" /\ effect'[v] = effect[v] /\ outcome'[v] = outcome[v]
      BY <1>3, <2>2, Zenon
    <3> QED
      BY <1>1, <3>1, Zenon DEF OutcomeIsTrue
  <2> QED
    BY <2>1, <2>2, Zenon
<1>10. ASSUME NEW v \in Workers PROVE AllTruthful(v, inbox[v])'
  <2>1. CASE v = w
    <3>1. \A i \in 1 .. Len(<<>>) : FALSE
      OBVIOUS
    <3> QED
      BY <1>3, <2>1, <3>1, Zenon DEF AllTruthful
  <2>2. CASE v # w
    BY <1>3, <2>2, StillTruthful, Zenon
  <2> QED
    BY <2>1, <2>2, Zenon
<1> QED
  BY <1>4, <1>7, <1>8, <1>9, <1>10, Zenon DEF SocketInv

\* A worker takes a number that no open socket has.
LEMMA OpenSocketKeeps ==
  ASSUME SocketInv, NEW w \in Workers, NEW op \in Operations, OpenSocket(w, op)
  PROVE  SocketInv'
<1>1. SocketTypes /\ ClosedAreEmpty /\ OwnNumbers /\ OutcomeIsTrue
  BY Zenon DEF SocketInv
<1>2. /\ sockPc[w] = "idle" /\ sequence \notin {seq[v] : v \in Open}
      /\ asked' = [asked EXCEPT ![w] = op] /\ seq' = [seq EXCEPT ![w] = sequence]
      /\ sockPc' = [sockPc EXCEPT ![w] = "open"] /\ UNCHANGED <<inbox, outcome, effect>>
  BY Zenon DEF OpenSocket
<1>3. /\ sockPc'[w] = "open" /\ seq'[w] = sequence
      /\ \A v \in Workers \ {w} : sockPc'[v] = sockPc[v] /\ seq'[v] = seq[v] /\ asked'[v] = asked[v]
  BY <1>1, <1>2, Zenon DEF SocketTypes
<1>4. SocketTypes'
  <2>1. sequence' \in SeqNumbers
    BY <1>1, SocketAssumption DEF OpenSocket, SeqNumbers, SocketTypes
  <2>2. /\ sockPc' \in [Workers -> {"idle", "open", "sent", "done"}]
        /\ asked' \in [Workers -> Operations] /\ seq' \in [Workers -> SeqNumbers]
    BY <1>1, <1>2, Zenon DEF SocketTypes
  <2> QED
    BY <1>1, <1>2, <2>1, <2>2, Zenon DEF SocketTypes
<1>5. w \notin Open /\ inbox[w] = <<>>
  BY <1>1, <1>2, Zenon DEF Open, ClosedAreEmpty
<1>6. \A v \in Open' : v = w \/ v \in Open
  BY <1>3, Zenon DEF Open
<1>7. \A v \in Workers : v \in Open => v \in Open'
  BY <1>3, <1>5, Zenon DEF Open
<1>8. ClosedAreEmpty'
  BY <1>1, <1>2, <1>7, Zenon DEF ClosedAreEmpty
<1>9. OwnNumbers'
  <2>1. \A v \in Open : v # w /\ v \in Workers
    BY <1>5, Zenon DEF Open
  <2>2. \A v \in Open : seq'[v] = seq[v] /\ seq[v] # sequence
    BY <1>2, <1>3, <2>1, Zenon
  <2> QED
    BY <1>1, <1>3, <1>6, <2>2, Zenon DEF OwnNumbers
<1>10. OutcomeIsTrue'
  BY <1>1, <1>2, <1>3, Zenon DEF OutcomeIsTrue
<1>11. ASSUME NEW v \in Workers PROVE AllTruthful(v, inbox[v])'
  <2>1. CASE v = w
    <3>1. \A i \in 1 .. Len(<<>>) : FALSE
      OBVIOUS
    <3> QED
      BY <1>2, <1>5, <2>1, <3>1, Zenon DEF AllTruthful
  <2>2. CASE v # w
    BY <1>2, <1>3, <2>2, StillTruthful, Zenon DEF SocketInv
  <2> QED
    BY <2>1, <2>2, Zenon
<1> QED
  BY <1>4, <1>8, <1>9, <1>10, <1>11, Zenon DEF SocketInv

\* The reply to a request is for the worker that made it alone.
LEMMA WriteKeeps ==
  ASSUME SocketInv, NEW w \in Workers, Write(w)
  PROVE  SocketInv'
<1>1. SocketTypes /\ ClosedAreEmpty /\ OwnNumbers /\ OutcomeIsTrue
  BY Zenon DEF SocketInv
<1>2. PICK denied \in BOOLEAN :
        LET boxes == Broadcast([op |-> asked[w], pid |-> "own", seq |-> seq[w], errno |-> denied]) IN
        /\ effect' = [effect EXCEPT ![w] = IF denied THEN "refused" ELSE "applied"]
        /\ \/ sockPc' = [sockPc EXCEPT ![w] = "sent"] /\ inbox' = boxes /\ UNCHANGED outcome
           \/ denied /\ Answer(w, "errno", boxes)
  BY Zenon DEF Write
<1>3. UNCHANGED <<asked, seq, sequence>> /\ sockPc[w] = "open" /\ w \in Open
  BY Zenon DEF Write, Open
<1> DEFINE m == [op |-> asked[w], pid |-> "own", seq |-> seq[w], errno |-> denied]
<1>4. m \in Messages /\ m.seq = seq[w] /\ m.errno = denied
  <2>1. asked[w] \in Operations /\ seq[w] \in SeqNumbers
    BY <1>1, Zenon DEF SocketTypes
  <2> QED
    BY <2>1, Zenon DEF Messages
<1>5. /\ effect' = [effect EXCEPT ![w] = IF denied THEN "refused" ELSE "applied"]
      /\ \/ sockPc' = [sockPc EXCEPT ![w] = "sent"] /\ inbox' = Broadcast(m) /\ UNCHANGED outcome
         \/ denied /\ Answer(w, "errno", Broadcast(m))
  BY <1>2, Zenon
<1> HIDE DEF m
<1>6. inbox \in [Workers -> Seq(Messages)]
  BY <1>1, Zenon DEF SocketTypes
<1> DEFINE boxes == Broadcast(m)
<1>7. /\ boxes \in [Workers -> Seq(Messages)]
      /\ \A v \in Workers \ Open : boxes[v] = inbox[v]
      /\ \A v \in Workers : \A i \in 1 .. Len(boxes[v]) :
           \/ i \in 1 .. Len(inbox[v]) /\ boxes[v][i] = inbox[v][i]
           \/ v \in Open /\ boxes[v][i] = m
  BY <1>4, <1>6, BroadcastAppends, Zenon
<1> HIDE DEF boxes
<1>8. /\ effect'[w] = IF denied THEN "refused" ELSE "applied"
      /\ \A v \in Workers \ {w} : effect'[v] = effect[v]
      /\ DOMAIN effect' = Workers
  BY <1>1, <1>5, Zenon DEF SocketTypes
<1>9. ASSUME NEW v \in Workers \ {w} PROVE AllTruthful(v, boxes[v])
  <2> SUFFICES ASSUME NEW i \in 1 .. Len(boxes[v]) PROVE Truthful(v, boxes[v][i])
    BY Zenon DEF AllTruthful
  <2>1. CASE i \in 1 .. Len(inbox[v]) /\ boxes[v][i] = inbox[v][i]
    BY <2>1, Zenon DEF SocketInv, AllTruthful
  <2>2. CASE v \in Open /\ boxes[v][i] = m
    <3>1. m.seq # seq[v]
      BY <1>1, <1>3, <1>4, <2>2, Zenon DEF OwnNumbers
    <3> QED
      BY <2>2, <3>1, Zenon DEF Truthful, IsReply
  <2> QED
    BY <1>7, <2>1, <2>2, Zenon
<1>10. CASE denied /\ Answer(w, "errno", boxes)
  <2>1. effect'[w] = "refused"
    BY <1>8, <1>10, Zenon
  <2> QED
    BY <1>3, <1>7, <1>8, <1>9, <1>10, <2>1, AnswerKeeps, Zenon
<1>11. CASE sockPc' = [sockPc EXCEPT ![w] = "sent"] /\ inbox' = boxes /\ UNCHANGED outcome
  <2>1. sockPc'[w] = "sent" /\ \A v \in Workers \ {w} : sockPc'[v] = sockPc[v]
    BY <1>1, <1>11, Zenon DEF SocketTypes
  <2>2. SocketTypes'
    <3>1. sockPc' \in [Workers -> {"idle", "open", "sent", "done"}]
      BY <1>1, <1>11, Zenon DEF SocketTypes
    <3> QED
      BY <1>1, <1>3, <1>7, <1>8, <1>11, <3>1, Zenon DEF SocketTypes
  <2>3. \A v \in Workers : v \in Open' <=> v \in Open
    BY <2>1, <1>3, Zenon DEF Open
  <2>4. \A v \in Open' : v \in Workers
    BY Zenon DEF Open
  <2>5. ClosedAreEmpty'
    BY <1>1, <1>7, <1>11, <2>3, Zenon DEF ClosedAreEmpty
  <2>6. OwnNumbers'
    BY <1>1, <1>3, <2>3, <2>4, Zenon DEF OwnNumbers
  <2>7. OutcomeIsTrue'
    <3> SUFFICES ASSUME NEW v \in Workers, sockPc'[v] = "done"
                 PROVE  (outcome'[v] = "ok" => effect'[v] = "applied") /\ (outcome'[v] = "errno" => effect'[v] = "refused")
      BY Zenon DEF OutcomeIsTrue
    <3>1. v # w
      BY <2>1, Zenon
    <3>2. sockPc[v] = "done" /\ effect'[v] = effect[v] /\ outcome'[v] = outcome[v]
      BY <1>8, <1>11, <2>1, <3>1, Zenon
    <3> QED
      BY <1>1, <3>2, Zenon DEF OutcomeIsTrue
  <2>8. ASSUME NEW v \in Workers PROVE AllTruthful(v, inbox[v])'
    <3>1. CASE v # w
      BY <1>3, <1>8, <1>9, <1>11, <2>1, <3>1, StillTruthful, Zenon
    <3>2. CASE v = w
      <4> SUFFICES ASSUME NEW i \in 1 .. Len(boxes[w]), IsReply(w, boxes[w][i])
                   PROVE  effect'[w] = IF boxes[w][i].errno THEN "refused" ELSE "applied"
        BY <1>3, <1>11, <2>1, <3>2, Zenon DEF AllTruthful, Truthful, IsReply
      <4>1. CASE i \in 1 .. Len(inbox[w]) /\ boxes[w][i] = inbox[w][i]
        <5>1. Truthful(w, inbox[w][i])
          BY <4>1, Zenon DEF SocketInv, AllTruthful
        <5>2. sockPc[w] = "sent"
          BY <4>1, <5>1, Zenon DEF Truthful
        <5> QED
          BY <1>3, <5>2, Zenon
      <4>2. CASE boxes[w][i] = m
        BY <1>4, <1>8, <4>2, Zenon
      <4> QED
        BY <1>7, <4>1, <4>2, Zenon
    <3> QED
      BY <3>1, <3>2, Zenon
  <2> QED
    BY <2>2, <2>5, <2>6, <2>7, <2>8, Zenon DEF SocketInv
<1> QED
  BY <1>5, <1>10, <1>11, Zenon DEF boxes

\* A worker takes the reply, or skips what is none.
LEMMA ReceiveKeeps ==
  ASSUME SocketInv, NEW w \in Workers, Receive(w)
  PROVE  SocketInv'
<1>1. SocketTypes /\ ClosedAreEmpty /\ OwnNumbers /\ OutcomeIsTrue
  BY Zenon DEF SocketInv
<1> DEFINE m == Head(inbox[w])
<1>2. /\ sockPc[w] = "sent" /\ inbox[w] # <<>> /\ UNCHANGED <<asked, seq, sequence, effect>>
      /\ IsReply(w, m) => Answer(w, IF m.errno THEN "errno" ELSE "ok", inbox)
      /\ ~ IsReply(w, m) => inbox' = [inbox EXCEPT ![w] = Tail(inbox[w])] /\ UNCHANGED <<sockPc, outcome>>
  BY Zenon DEF Receive
<1>3. inbox \in [Workers -> Seq(Messages)] /\ inbox[w] \in Seq(Messages)
  BY <1>1, Zenon DEF SocketTypes
<1>4. /\ m = inbox[w][1] /\ 1 \in 1 .. Len(inbox[w]) /\ Tail(inbox[w]) \in Seq(Messages)
      /\ \A i \in 1 .. Len(Tail(inbox[w])) :
           i + 1 \in 1 .. Len(inbox[w]) /\ Tail(inbox[w])[i] = inbox[w][i + 1]
  BY <1>2, <1>3
<1> HIDE DEF m
<1>5. CASE IsReply(w, m)
  <2>1. effect[w] = IF m.errno THEN "refused" ELSE "applied"
    BY <1>4, <1>5, Zenon DEF SocketInv, AllTruthful, Truthful
  <2> DEFINE o == IF m.errno THEN "errno" ELSE "ok"
  <2>2. (o = "ok" => effect'[w] = "applied") /\ (o = "errno" => effect'[w] = "refused")
    BY <1>2, <2>1
  <2>3. Answer(w, o, inbox)
    BY <1>2, <1>5, Zenon
  <2> HIDE DEF o
  <2>4. DOMAIN effect' = Workers
    BY <1>1, <1>2, Zenon DEF SocketTypes
  <2>5. \A v \in Workers : AllTruthful(v, inbox[v])
    BY Zenon DEF SocketInv
  <2> QED
    BY <1>2, <1>3, <2>2, <2>3, <2>4, <2>5, AnswerKeeps, Zenon
<1>6. CASE ~ IsReply(w, m)
  <2>1. inbox' = [inbox EXCEPT ![w] = Tail(inbox[w])] /\ UNCHANGED <<sockPc, outcome>>
    BY <1>2, <1>6, Zenon
  <2>2. inbox'[w] = Tail(inbox[w]) /\ \A v \in Workers \ {w} : inbox'[v] = inbox[v]
    BY <1>3, <2>1, Zenon
  <2>3. SocketTypes'
    <3>1. inbox' \in [Workers -> Seq(Messages)]
      BY <1>3, <1>4, <2>1, Zenon
    <3> QED
      BY <1>1, <1>2, <2>1, <3>1, Zenon DEF SocketTypes
  <2>4. Open' = Open /\ w \in Open
    BY <1>2, <2>1, Zenon DEF Open
  <2>5. ClosedAreEmpty' /\ OwnNumbers' /\ OutcomeIsTrue'
    BY <1>1, <1>2, <2>1, <2>2, <2>4, Zenon DEF ClosedAreEmpty, OwnNumbers, OutcomeIsTrue
  <2>6. ASSUME NEW v \in Workers PROVE AllTruthful(v, inbox[v])'
    <3>1. AllTruthful(v, inbox[v])
      BY Zenon DEF SocketInv
    <3>2. AllTruthful(v, inbox'[v])
      <4>1. CASE v = w
        BY <1>4, <2>2, <3>1, <4>1, Zenon DEF AllTruthful
      <4>2. CASE v # w
        BY <2>2, <3>1, <4>2, Zenon
      <4> QED
        BY <4>1, <4>2, Zenon
    <3> QED
      BY <1>2, <2>1, <3>2, StillTruthful, Zenon
  <2> QED
    BY <2>3, <2>5, <2>6, Zenon DEF SocketInv
<1> QED
  BY <1>5, <1>6, Zenon

\* A message for others is no reply.
LEMMA ForeignKeeps ==
  ASSUME SocketInv, NEW m \in Others, Foreign(m)
  PROVE  SocketInv'
<1>1. SocketTypes /\ ClosedAreEmpty /\ OwnNumbers /\ OutcomeIsTrue
  BY Zenon DEF SocketInv
<1>2. m \in Messages /\ (m.op = "notice" \/ m.pid = "other")
  BY SocketAssumption, Zenon
<1>3. \A w \in Workers : ~ IsReply(w, m)
  <2>1. \A w \in Workers : asked[w] # "notice"
    BY <1>1, Zenon DEF SocketTypes, Operations
  <2> QED
    BY <1>2, <2>1, Zenon DEF IsReply
<1>4. inbox' = Broadcast(m) /\ UNCHANGED <<sockPc, asked, seq, sequence, outcome, effect>>
  BY Zenon DEF Foreign
<1>5. inbox \in [Workers -> Seq(Messages)]
  BY <1>1, Zenon DEF SocketTypes
<1>6. /\ inbox' \in [Workers -> Seq(Messages)]
      /\ \A w \in Workers \ Open : inbox'[w] = inbox[w]
      /\ \A w \in Workers : \A i \in 1 .. Len(inbox'[w]) :
           \/ i \in 1 .. Len(inbox[w]) /\ inbox'[w][i] = inbox[w][i]
           \/ w \in Open /\ inbox'[w][i] = m
  BY <1>2, <1>4, <1>5, BroadcastAppends, ZenonT(30)
<1>7. SocketTypes'
  BY <1>1, <1>4, <1>6, Zenon DEF SocketTypes
<1>8. Open' = Open
  BY <1>4, Zenon DEF Open
<1>9. ClosedAreEmpty' /\ OwnNumbers' /\ OutcomeIsTrue'
  BY <1>1, <1>4, <1>6, <1>8, Zenon DEF ClosedAreEmpty, OwnNumbers, OutcomeIsTrue
<1>10. ASSUME NEW w \in Workers PROVE AllTruthful(w, inbox[w])'
  <2>1. AllTruthful(w, inbox'[w])
    <3> SUFFICES ASSUME NEW i \in 1 .. Len(inbox'[w]) PROVE Truthful(w, inbox'[w][i])
      BY Zenon DEF AllTruthful
    <3>1. CASE i \in 1 .. Len(inbox[w]) /\ inbox'[w][i] = inbox[w][i]
      BY <3>1, Zenon DEF SocketInv, AllTruthful
    <3>2. CASE inbox'[w][i] = m
      BY <1>3, <3>2, Zenon DEF Truthful
    <3> QED
      BY <1>6, <3>1, <3>2, Zenon
  <2> QED
    BY <1>4, <2>1, StillTruthful, Zenon
<1> QED
  BY <1>7, <1>9, <1>10, Zenon DEF SocketInv

\* The caller takes the answer; its socket was closed before.
LEMMA TakenKeeps ==
  ASSUME SocketInv, NEW w \in Workers, Taken(w)
  PROVE  SocketInv'
<1>1. SocketTypes /\ ClosedAreEmpty /\ OwnNumbers /\ OutcomeIsTrue
  BY Zenon DEF SocketInv
<1>2. /\ sockPc[w] = "done" /\ sockPc' = [sockPc EXCEPT ![w] = "idle"]
      /\ asked' = [asked EXCEPT ![w] = "add"] /\ seq' = [seq EXCEPT ![w] = 0]
      /\ outcome' = [outcome EXCEPT ![w] = "none"] /\ effect' = [effect EXCEPT ![w] = "none"]
      /\ UNCHANGED <<inbox, sequence>>
  BY Zenon DEF Taken
<1>3. /\ sockPc'[w] = "idle"
      /\ \A v \in Workers \ {w} : /\ sockPc'[v] = sockPc[v] /\ asked'[v] = asked[v] /\ seq'[v] = seq[v]
                                  /\ outcome'[v] = outcome[v] /\ effect'[v] = effect[v]
  BY <1>1, <1>2, Zenon DEF SocketTypes
<1>4. SocketTypes'
  <2>1. "add" \in Operations /\ 0 \in SeqNumbers
    BY SocketAssumption DEF Operations, SeqNumbers
  <2>2. /\ sockPc' \in [Workers -> {"idle", "open", "sent", "done"}]
        /\ asked' \in [Workers -> Operations] /\ seq' \in [Workers -> SeqNumbers]
        /\ DOMAIN outcome' = Workers /\ DOMAIN effect' = Workers
    BY <1>1, <1>2, <2>1, Zenon DEF SocketTypes
  <2> QED
    BY <1>1, <1>2, <2>2, Zenon DEF SocketTypes
<1>5. w \notin Open /\ inbox[w] = <<>>
  BY <1>1, <1>2, Zenon DEF Open, ClosedAreEmpty
<1>6. \A v \in Workers : v \in Open' <=> v \in Open /\ v # w
  BY <1>3, <1>5, Zenon DEF Open
<1>7. \A v \in Open' : v \in Workers
  BY Zenon DEF Open
<1>8. ClosedAreEmpty'
  BY <1>1, <1>2, <1>5, <1>6, Zenon DEF ClosedAreEmpty
<1>9. OwnNumbers'
  BY <1>1, <1>3, <1>6, <1>7, ZenonT(30) DEF OwnNumbers
<1>10. OutcomeIsTrue'
  BY <1>1, <1>3, Zenon DEF OutcomeIsTrue
<1>11. ASSUME NEW v \in Workers PROVE AllTruthful(v, inbox[v])'
  <2>1. CASE v = w
    <3>1. \A i \in 1 .. Len(<<>>) : FALSE
      OBVIOUS
    <3> QED
      BY <1>2, <1>5, <2>1, <3>1, Zenon DEF AllTruthful
  <2>2. CASE v # w
    BY <1>2, <1>3, <2>2, StillTruthful, Zenon DEF SocketInv
  <2> QED
    BY <2>1, <2>2, Zenon
<1> QED
  BY <1>4, <1>8, <1>9, <1>10, <1>11, Zenon DEF SocketInv

\* Every step keeps the invariant.
LEMMA SocketInvStep == SocketInv /\ [SocketNext]_socketVars => SocketInv'
<1> SUFFICES ASSUME SocketInv, [SocketNext]_socketVars PROVE SocketInv'
  BY Zenon
<1>1. ASSUME NEW w \in Workers, OpenFail(w) \/ Timeout(w) PROVE SocketInv'
  <2>1. Answer(w, "unsure", inbox) /\ UNCHANGED <<asked, seq, sequence, effect>>
    BY <1>1, Zenon DEF OpenFail, Timeout
  <2>2. inbox \in [Workers -> Seq(Messages)] /\ DOMAIN effect' = Workers
    BY <2>1, Zenon DEF SocketInv, SocketTypes
  <2>3. \A v \in Workers : AllTruthful(v, inbox[v])
    BY Zenon DEF SocketInv
  <2> QED
    BY <2>1, <2>2, <2>3, AnswerKeeps, Zenon
<1>2. CASE UNCHANGED socketVars
  <2>1. UNCHANGED <<sockPc, asked, seq, inbox, sequence, outcome, effect>>
    BY <1>2, Zenon DEF socketVars
  <2>2. Open' = Open
    BY <2>1, Zenon DEF Open
  <2>3. SocketTypes' /\ ClosedAreEmpty' /\ OwnNumbers' /\ OutcomeIsTrue'
    BY <2>1, <2>2, Zenon DEF SocketInv, SocketTypes, ClosedAreEmpty, OwnNumbers, OutcomeIsTrue
  <2>4. \A v \in Workers : AllTruthful(v, inbox[v])'
    BY <2>1, StillTruthful, Zenon DEF SocketInv
  <2> QED
    BY <2>3, <2>4, Zenon DEF SocketInv
<1> QED
  BY <1>1, <1>2, OpenSocketKeeps, WriteKeeps, ReceiveKeeps, TakenKeeps, ForeignKeeps, Zenon DEF SocketNext

\* exchange never takes the reply to another worker, or to another process,
\* for that to its own request.
THEOREM OutcomesAreTrue == SocketSpec => []OutcomeIsTrue
<1>1. SocketInv => OutcomeIsTrue
  BY Zenon DEF SocketInv
<1> QED
  BY <1>1, SocketInvInit, SocketInvStep, PTL DEF SocketSpec

-----------------------------------------------------------------------------
(* Name resolution rules.                                                  *)

\* Creation times are those of processes that were started, and a rule found
\* stale never has a living owner again.
Times ==
  /\ \A r \in rules : r[2] <= clock
  /\ \A p \in Pids : \A r \in stale[p] : r[2] # born[r[1]] /\ r[2] <= clock

\* One session of a process runs the stale script, before the flag is set;
\* what it has yet to remove is on its list.
Scanning ==
  \A t \in Sessions : pc[t] = "scan" =>
    /\ t[1] \notin cleared
    /\ \A u \in Sessions : pc[u] = "scan" /\ u[1] = t[1] => u = t
    /\ rules \cap stale[t[1]] \subseteq todo[t] \cup spared[t[1]]

\* The inductive invariant.
NrptInv == TypeOK /\ ConfiguredHasRules /\ StaleRulesGone /\ Times /\ Scanning

LEMMA NrptInit == Init => NrptInv
BY NrptAssumption
   DEF Init, NrptInv, TypeOK, ConfiguredHasRules, StaleRulesGone, Times, Scanning, Sessions, Rules

\* A process that starts has a creation time that no rule bears.
LEMMA LaunchKeeps == ASSUME NrptInv, NEW p \in Pids, LaunchDaemon(p) PROVE NrptInv'
<1> USE NrptAssumption DEF NrptInv, LaunchDaemon
<1>1. TypeOK'
  BY DEF TypeOK, Sessions, Rules
<1>2. ConfiguredHasRules'
  BY DEF TypeOK, ConfiguredHasRules, RulesOf, Sessions
<1>3. StaleRulesGone'
  BY Zenon DEF StaleRulesGone
<1>4. Times'
  BY DEF Times, TypeOK, Rules
<1>5. Scanning'
  BY Zenon DEF Scanning
<1> QED
  BY <1>1, <1>2, <1>3, <1>4, <1>5, Zenon

\* A process that ends takes its sessions and its flag along.
LEMMA DieKeeps == ASSUME NrptInv, NEW p \in Pids, Die(p) PROVE NrptInv'
<1> USE NrptAssumption DEF NrptInv, Die
<1>1. TypeOK'
  BY DEF TypeOK, Sessions, Rules
<1>2. ConfiguredHasRules'
  BY Zenon DEF TypeOK, ConfiguredHasRules, RulesOf, Sessions
<1>3. StaleRulesGone'
  BY Zenon DEF StaleRulesGone, TypeOK
<1>4. Times'
  BY DEF Times, TypeOK, Rules
<1>5. Scanning'
  BY Zenon DEF Scanning, TypeOK, Sessions
<1> QED
  BY <1>1, <1>2, <1>3, <1>4, <1>5, Zenon

\* A session's rules bear its process, the creation time and its interface.
LEMMA RuleNames ==
  ASSUME NEW u, NEW q \in RulesOf(u)
  PROVE  q[1] = u[1] /\ q[2] = born[u[1]] /\ q[3] = u[2]
BY SMTT(30) DEF RulesOf

\* A session that neither runs the stale script nor has its rules afterwards,
\* or has all of them, disturbs nothing.
LEMMA PcKeeps ==
  ASSUME NrptInv, NEW t \in Sessions, NEW l \in {"off", "on", "remove"}, Proceed(t, l),
         l = "on" => RulesOf(t) \subseteq rules, l # "off" => born[t[1]] # 0,
         todo' = todo \/ todo' = [todo EXCEPT ![t] = {}], pc[t] = "scan" \/ todo' = todo,
         UNCHANGED <<clock, born, rules, cleared, stale, spared>>
  PROVE  NrptInv'
<1> USE DEF NrptInv, Proceed
<1>1. \A u \in Sessions : u # t => pc'[u] = pc[u] /\ todo'[u] = todo[u]
  BY Zenon DEF TypeOK
<1>2. pc'[t] = l
  BY Zenon DEF TypeOK
<1>3. TypeOK'
  <2>1. pc' \in [Sessions -> {"off", "scan", "clear", "add", "on", "remove"}]
    BY Zenon DEF TypeOK
  <2>2. todo' \in [Sessions -> SUBSET Rules]
    BY Zenon DEF TypeOK
  <2>3. \A u \in Sessions : pc'[u] # "off" => born[u[1]] # 0
    BY <1>1, <1>2, Zenon DEF TypeOK
  <2> QED
    BY <2>1, <2>2, <2>3, Zenon DEF TypeOK
<1>4. ConfiguredHasRules'
  <2>1. \A u \in Sessions : RulesOf(u)' = RulesOf(u)
    BY Zenon DEF RulesOf
  <2>2. SUFFICES ASSUME NEW u \in Sessions, pc'[u] = "on" PROVE RulesOf(u) \subseteq rules
    BY <2>1, Zenon DEF ConfiguredHasRules
  <2>3. CASE u = t
    BY <1>2, <2>2, <2>3, Zenon
  <2>4. CASE u # t
    BY <1>1, <2>2, <2>4, Zenon DEF ConfiguredHasRules
  <2> QED
    BY <2>3, <2>4, Zenon
<1>5. StaleRulesGone' /\ Times'
  BY Zenon DEF StaleRulesGone, Times
<1>6. Scanning'
  <2>1. \A u \in Sessions : pc'[u] = "scan" => u # t /\ pc[u] = "scan" /\ todo'[u] = todo[u]
    BY <1>1, <1>2, Zenon
  <2> QED
    BY <2>1, Zenon DEF Scanning
<1> QED
  BY <1>3, <1>4, <1>5, <1>6, Zenon

\* The steps of the stale script and of the session that runs it.
LEMMA ScanKeeps ==
  ASSUME NrptInv, NEW t \in Sessions,
         \/ StartSession(t) \/ ScanFail(t) \/ ScanDone(t)
         \/ \E r \in todo[t] : ScanRule(t, r) \/ ScanDenied(t, r)
  PROVE  NrptInv'
<1> USE NrptAssumption DEF NrptInv, Proceed
<1>1. CASE StartSession(t)
  <2>1. TypeOK'
    <3>1. t[1] \in Pids
      BY Zenon DEF Sessions
    <3>2. {r \in rules : born[r[1]] # r[2]} \in SUBSET Rules /\ {} \in SUBSET Rules /\ rules \in SUBSET Rules
      BY Zenon DEF TypeOK
    <3>3. /\ pc' = [pc EXCEPT ![t] = "clear"] \/ pc' = [pc EXCEPT ![t] = "scan"]
          /\ born[t[1]] # 0 /\ UNCHANGED <<clock, born, rules, cleared>>
      BY <1>1, Zenon DEF StartSession
    <3>4. /\ todo' = todo \/ todo' = [todo EXCEPT ![t] = rules]
          /\ stale' = stale \/ stale' = [stale EXCEPT ![t[1]] = {r \in rules : born[r[1]] # r[2]}]
          /\ spared' = spared \/ spared' = [spared EXCEPT ![t[1]] = {}]
      BY <1>1, Zenon DEF StartSession
    <3>5. pc' \in [Sessions -> {"off", "scan", "clear", "add", "on", "remove"}]
      BY <3>3, Zenon DEF TypeOK
    <3>6. todo' \in [Sessions -> SUBSET Rules]
      BY <3>2, <3>4, Zenon DEF TypeOK
    <3>7. stale' \in [Pids -> SUBSET Rules] /\ spared' \in [Pids -> SUBSET Rules]
      <4>1. stale \in [Pids -> SUBSET Rules] /\ spared \in [Pids -> SUBSET Rules]
        BY Zenon DEF TypeOK
      <4>2. \A f \in [Pids -> SUBSET Rules] : \A s \in SUBSET Rules : [f EXCEPT ![t[1]] = s] \in [Pids -> SUBSET Rules]
        BY <3>1, Zenon
      <4> DEFINE found == {r \in rules : born[r[1]] # r[2]}
                 none == {}
      <4>3. /\ found \in SUBSET Rules /\ none \in SUBSET Rules
            /\ stale' = stale \/ stale' = [stale EXCEPT ![t[1]] = found]
            /\ spared' = spared \/ spared' = [spared EXCEPT ![t[1]] = none]
        BY <3>2, <3>4, Zenon
      <4> HIDE DEF NrptInv, found, none
      <4>4. stale' \in [Pids -> SUBSET Rules]
        BY <4>1, <4>2, <4>3, Zenon
      <4>5. spared' \in [Pids -> SUBSET Rules]
        BY <4>1, <4>2, <4>3, Zenon
      <4> QED
        BY <4>4, <4>5, Zenon
    <3>8. \A u \in Sessions : pc'[u] # "off" => born[u[1]] # 0
      BY <3>3, Zenon DEF TypeOK
    <3> QED
      BY <3>3, <3>5, <3>6, <3>7, <3>8, Zenon DEF TypeOK
  <2>2. ConfiguredHasRules'
    BY <1>1 DEF StartSession, TypeOK, ConfiguredHasRules, RulesOf
  <2>3. StaleRulesGone'
    BY <1>1 DEF StartSession, StaleRulesGone, TypeOK, Sessions
  <2>4. Times'
    BY <1>1 DEF StartSession, Times, TypeOK, Sessions
  <2>5. Scanning'
    <3>1. CASE t[1] \in cleared
      BY <1>1, <3>1, Zenon DEF StartSession, Scanning, TypeOK
    <3>2. CASE t[1] \notin cleared
      <4>1. \A u \in Sessions : u[1] = t[1] => pc[u] # "scan"
        BY <1>1 DEF StartSession, Sessions
      <4>2. /\ pc' = [pc EXCEPT ![t] = "scan"] /\ todo' = [todo EXCEPT ![t] = rules]
            /\ rules' = rules /\ cleared' = cleared
            /\ \A u \in Sessions : u[1] # t[1] => stale'[u[1]] = stale[u[1]] /\ spared'[u[1]] = spared[u[1]]
        BY <1>1, <3>2, Zenon DEF StartSession, TypeOK, Sessions
      <4>3. SUFFICES ASSUME NEW u \in Sessions, pc'[u] = "scan"
                     PROVE  /\ u[1] \notin cleared
                            /\ \A v \in Sessions : pc'[v] = "scan" /\ v[1] = u[1] => v = u
                            /\ rules \cap stale'[u[1]] \subseteq todo'[u] \cup spared'[u[1]]
        BY <4>2, Zenon DEF Scanning
      <4>4. CASE u = t
        BY <3>2, <4>1, <4>2, <4>4, Zenon DEF TypeOK
      <4>5. CASE u # t
        <5>1. pc[u] = "scan" /\ u[1] # t[1] /\ todo'[u] = todo[u]
          BY <4>1, <4>2, <4>3, <4>5, Zenon DEF TypeOK
        <5> QED
          BY <4>2, <5>1, Zenon DEF Scanning, TypeOK
      <4> QED
        BY <4>4, <4>5, Zenon
    <3> QED
      BY <3>1, <3>2, Zenon
  <2> QED
    BY <2>1, <2>2, <2>3, <2>4, <2>5, Zenon
<1>2. CASE ScanFail(t)
  BY <1>2, PcKeeps, Zenon DEF ScanFail
<1>3. CASE ScanDone(t)
  <2>1. TypeOK'
    BY <1>3, Zenon DEF ScanDone, TypeOK, Sessions
  <2>2. ConfiguredHasRules'
    BY <1>3, Zenon DEF ScanDone, TypeOK, ConfiguredHasRules, RulesOf
  <2>3. StaleRulesGone'
    BY <1>3, Zenon DEF ScanDone, StaleRulesGone, Scanning
  <2>4. Times' /\ Scanning'
    BY <1>3, Zenon DEF ScanDone, Times, Scanning, TypeOK
  <2> QED
    BY <2>1, <2>2, <2>3, <2>4, Zenon
<1>4. ASSUME NEW r \in todo[t], ScanRule(t, r) PROVE NrptInv'
  <2>1. TypeOK'
    BY <1>4, Zenon DEF ScanRule, TypeOK
  <2>2. ConfiguredHasRules'
    <3>1. UNCHANGED <<born, pc>> /\ (Alive(r) => rules' = rules) /\ (~ Alive(r) => rules' = rules \ {r})
      BY <1>4, Zenon DEF ScanRule
    <3>2. \A u \in Sessions : \A q \in RulesOf(u) : Alive(q)
      BY RuleNames, Zenon DEF Alive
    <3>3. \A u \in Sessions : RulesOf(u)' = RulesOf(u)
      BY <3>1, Zenon DEF RulesOf
    <3> QED
      BY <3>1, <3>2, <3>3, Zenon DEF ConfiguredHasRules
  <2>3. StaleRulesGone' /\ Times'
    BY <1>4, Zenon DEF ScanRule, StaleRulesGone, Times, TypeOK
  <2>4. Scanning'
    <3>1. SUFFICES ASSUME NEW u \in Sessions, pc[u] = "scan"
                   PROVE  rules' \cap stale[u[1]] \subseteq todo'[u] \cup spared[u[1]]
      BY <1>4, Zenon DEF ScanRule, Scanning
    <3>2. CASE u = t
      <4>1. todo'[u] = todo[u] \ {r} /\ u[1] \in Pids
        BY <1>4, <3>2, Zenon DEF ScanRule, TypeOK, Sessions
      <4>2. Alive(r) => r \notin stale[u[1]]
        BY <4>1, Zenon DEF Alive, Times
      <4> QED
        BY <1>4, <3>1, <4>1, <4>2, Zenon DEF ScanRule, Scanning
    <3>3. CASE u # t
      BY <1>4, <3>1, <3>3, Zenon DEF ScanRule, Scanning, TypeOK
    <3> QED
      BY <3>2, <3>3, Zenon
  <2> QED
    BY <2>1, <2>2, <2>3, <2>4, Zenon
<1>5. ASSUME NEW r \in todo[t], ScanDenied(t, r) PROVE NrptInv'
  <2>1. TypeOK'
    BY <1>5 DEF ScanDenied, TypeOK, Sessions
  <2>2. ConfiguredHasRules' /\ StaleRulesGone' /\ Times'
    <3>1. UNCHANGED <<clock, born, rules, pc, cleared, stale>>
      BY <1>5, Zenon DEF ScanDenied
    <3>2. \A p \in Pids : spared[p] \subseteq spared'[p]
      BY <1>5, Zenon DEF ScanDenied, TypeOK
    <3>3. ConfiguredHasRules'
      BY <3>1, Zenon DEF ConfiguredHasRules, RulesOf
    <3>4. StaleRulesGone'
      BY <3>1, <3>2, Zenon DEF StaleRulesGone, TypeOK
    <3>5. Times'
      BY <3>1, Zenon DEF Times
    <3> QED
      BY <3>3, <3>4, <3>5, Zenon
  <2>3. Scanning'
    BY <1>5, Zenon DEF ScanDenied, Scanning, TypeOK, Sessions
  <2> QED
    BY <2>1, <2>2, <2>3, Zenon
<1> QED
  BY <1>1, <1>2, <1>3, <1>4, <1>5, Zenon

\* The steps of a session that sets and clears its own rules.
LEMMA RulesKeep ==
  ASSUME NrptInv, NEW t \in Sessions,
         \/ ClearRules(t) \/ Configured(t) \/ Close(t) \/ CleanupFail(t)
         \/ \E n \in Namespaces : AddRule(t, n)
  PROVE  NrptInv'
<1> USE NrptAssumption DEF NrptInv, Proceed
<1>1. CASE ClearRules(t)
  <2>1. TypeOK'
    BY <1>1, Zenon DEF ClearRules, TypeOK
  <2>2. ConfiguredHasRules'
    <3>1. \A u \in Sessions : pc'[u] = "on" => u # t /\ pc[u] = "on"
      BY <1>1, Zenon DEF ClearRules, TypeOK
    <3>2. born' = born /\ rules' = {r \in rules : <<r[1], r[2], r[3]>> # Comment(t)}
      BY <1>1, Zenon DEF ClearRules
    <3>3. \A u \in Sessions : RulesOf(u)' = RulesOf(u)
      BY <3>2, Zenon DEF RulesOf
    <3>4. ASSUME NEW u \in Sessions, u # t, NEW q \in RulesOf(u) PROVE <<q[1], q[2], q[3]>> # Comment(t)
      <4>1. q[1] = u[1] /\ q[3] = u[2]
        BY RuleNames, Zenon
      <4>2. <<q[1], q[2], q[3]>> = Comment(t) => u[1] = t[1] /\ u[2] = t[2]
        BY <4>1, Zenon DEF Comment
      <4>3. u[1] = t[1] /\ u[2] = t[2] => u = t
        BY SMTT(30) DEF Sessions
      <4> QED
        BY <3>4, <4>2, <4>3, Zenon
    <3> QED
      BY <3>1, <3>2, <3>3, <3>4, Zenon DEF ConfiguredHasRules
  <2>3. rules' \subseteq rules /\ UNCHANGED <<clock, born, todo, cleared, stale, spared>>
    BY <1>1, Zenon DEF ClearRules
  <2>4. StaleRulesGone' /\ Times'
    BY <2>3, Zenon DEF StaleRulesGone, Times
  <2>5. Scanning'
    <3>1. \A u \in Sessions : pc'[u] = "scan" => pc[u] = "scan"
      BY <1>1, Zenon DEF ClearRules, TypeOK
    <3> QED
      BY <2>3, <3>1, Zenon DEF Scanning
  <2> QED
    BY <2>1, <2>2, <2>4, <2>5, Zenon
<1>2. CASE Configured(t)
  <2>1. born[t[1]] # 0
    BY <1>2, Zenon DEF Configured, TypeOK
  <2> QED
    BY <1>2, <2>1, PcKeeps, Zenon DEF Configured
<1>3. CASE Close(t) \/ CleanupFail(t)
  <2>1. born[t[1]] # 0
    BY <1>3, Zenon DEF Close, CleanupFail, TypeOK
  <2> QED
    BY <1>3, <2>1, PcKeeps, Zenon DEF Close, CleanupFail
<1>4. ASSUME NEW n \in Namespaces, AddRule(t, n) PROVE NrptInv'
  <2> DEFINE new == <<t[1], born[t[1]], t[2], n>>
  <2>1. /\ rules' = rules \cup {new} /\ new[1] = t[1] /\ new[2] = born[t[1]]
        /\ new \in Rules /\ new[2] <= clock
    BY <1>4 DEF AddRule, TypeOK, Sessions, Rules
  <2>2. TypeOK'
    BY <1>4, <2>1, Zenon DEF AddRule, TypeOK
  <2>3. ConfiguredHasRules'
    BY <1>4, <2>1, Zenon DEF AddRule, ConfiguredHasRules, RulesOf
  <2>4. Times'
    BY <1>4, <2>1, Zenon DEF AddRule, Times
  <2>5. \A p \in Pids : new \notin stale[p]
    BY <2>1, Zenon DEF Times
  <2>6. \A p \in Pids : rules' \cap stale[p] = rules \cap stale[p]
    BY <2>1, <2>5, Zenon
  <2>7. StaleRulesGone'
    BY <1>4, <2>6, Zenon DEF AddRule, StaleRulesGone, TypeOK
  <2>8. Scanning'
    <3>1. UNCHANGED <<pc, todo, cleared, stale, spared>>
      BY <1>4, Zenon DEF AddRule
    <3>2. \A u \in Sessions : u[1] \in Pids
      BY Zenon DEF Sessions
    <3> QED
      BY <2>6, <3>1, <3>2, Zenon DEF Scanning
  <2> QED
    BY <2>2, <2>3, <2>4, <2>7, <2>8, Zenon
<1> QED
  BY <1>1, <1>2, <1>3, <1>4, Zenon

\* NrptInv holds in every state of every behaviour.
THEOREM NrptInvariant == Spec => []NrptInv
<1>1. NrptInv /\ [Next]_vars => NrptInv'
  <2>1. SUFFICES ASSUME NrptInv, [Next]_vars PROVE NrptInv'
    BY Zenon
  <2>2. CASE UNCHANGED vars
    BY <2>1, <2>2, Zenon DEF vars, NrptInv, TypeOK, ConfiguredHasRules, RulesOf, StaleRulesGone, Times, Scanning
  <2>3. ASSUME NEW t \in Sessions, RuleStep(t) PROVE NrptInv'
    BY <2>1, <2>3, ScanKeeps, RulesKeep, Zenon DEF RuleStep
  <2> QED
    BY <2>1, <2>2, <2>3, LaunchKeeps, DieKeeps, Zenon DEF Next
<1> QED
  BY <1>1, NrptInit, PTL DEF Spec

\* A configured session keeps all its rules, however many daemons and
\* sessions there are.
THEOREM ConfiguredKeepsRules == Spec => []ConfiguredHasRules
BY NrptInvariant, PTL DEF NrptInv

\* Rules that a completed stale script found without an owner are gone,
\* except those whose process could not be looked at.
THEOREM StaleRulesAreGone == Spec => []StaleRulesGone
BY NrptInvariant, PTL DEF NrptInv

\* No step removes a rule of a running process but the clear script of the
\* rule's own session.
THEOREM OnlyOwnersRemove == Spec => OnlyOwnerRemoves
<1> DEFINE Own == \A r \in rules \ rules' : Alive(r) => pc[<<r[1], r[3]>>] \in {"clear", "remove"}
<1>1. NrptInv /\ [Next]_vars => [Own]_vars
  <2>1. SUFFICES ASSUME NrptInv, Next, NEW r \in rules \ rules', Alive(r)
                 PROVE  pc[<<r[1], r[3]>>] \in {"clear", "remove"}
    BY Zenon
  <2>2. PICK t \in Sessions : ClearRules(t) \/ \E q \in todo[t] : ScanRule(t, q)
    BY <2>1, Zenon DEF Next, LaunchDaemon, Die, RuleStep, StartSession, ScanFail, ScanDone, ScanDenied,
                Configured, Close, CleanupFail, AddRule
  <2>3. CASE ClearRules(t)
    <3>1. <<r[1], r[2], r[3]>> = Comment(t)
      BY <2>1, <2>3, Zenon DEF ClearRules
    <3>2. r[1] = t[1] /\ r[3] = t[2]
      BY <3>1, Zenon DEF Comment
    <3>3. <<r[1], r[3]>> = t
      BY <3>2 DEF Sessions
    <3> QED
      BY <2>3, <3>3, Zenon DEF ClearRules
  <2>4. CASE \E q \in todo[t] : ScanRule(t, q)
    BY <2>1, <2>4, Zenon DEF ScanRule, Alive
  <2> QED
    BY <2>2, <2>3, <2>4, Zenon
<1> QED
  BY <1>1, NrptInvariant, PTL DEF Spec, OnlyOwnerRemoves
=============================================================================
