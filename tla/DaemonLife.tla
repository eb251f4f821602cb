----------------------------- MODULE DaemonLife -----------------------------
(***************************************************************************)
(* main and run of main.rs with what they own: the listener of ipc/unix.rs *)
(* or ipc/windows.rs, the extracted library of wintun.rs, and the devices  *)
(* of session.rs that use it.  Every step of the start may fail, and the   *)
(* values made so far are then dropped in Rust's order.  A session is here *)
(* what the end of the process has to wait for: a registration, a device   *)
(* and, on Windows, a share in the library.  What goes over a connection,  *)
(* and which session is whose, is in DaemonServer.                         *)
(***************************************************************************)
EXTENDS OwnerProcess

CONSTANTS
  Conns,    \* connections
  TunNames  \* sessions, by name

VARIABLES
  files,    \* the paths the daemon creates: absent, ours or foreign
  before,   \* the same paths when the daemon started
  handles,  \* open handles on the library and its directory
  guards,   \* values of main with a Drop of their own: socket, directory
  library,  \* the owners of the Arc<WintunDll>: main and clones of sessions
  devices,  \* the clones of the sessions that hold a device
  conn,     \* each connection: its state and the process behind it
  sess,     \* each session
  exit      \* how the process ended

fileVars == <<files, handles, guards>>
sessionVars == <<library, devices, conn, sess>>
lifeVars == <<ownerVars, files, before, handles, guards, library, devices, conn, sess, exit>>

Paths == {"sockDir", "sock", "dllDir", "dll"}

\* The clones of a TunSession: the loop's and the reader's.
Clones == TunNames \X {"loop", "reader"}
Of(n) == {x \in Clones : x[1] = n}
MainsShare == <<"main", "main">>

\* A connection from the application (App), from a later process with its
\* identifier, or from a process with another identifier (Stranger).
Stranger == 0

Quiet == UNCHANGED <<kernelVars, refused, pin, user, before>>

\* The socket path is the application's choice, so its directory may exist.
LifeInit ==
  /\ OwnerInit
  /\ before \in {[p \in Paths |-> IF p = "sockDir" THEN s ELSE "absent"] :
                   s \in {"absent", "foreign"}}
  /\ files = before
  /\ handles = {} /\ guards = {} /\ library = {} /\ devices = {}
  /\ conn = [c \in Conns |-> [state |-> "none", by |-> Stranger]]
  /\ sess = [n \in TunNames |-> "none"]
  /\ exit = "running"

-----------------------------------------------------------------------------
(* Start.                                                                  *)

StartLabels == {"binaries", "dllDir", "dllLock", "dllFile", "dllWrite", "dllKeep",
                "sockDir", "sockBind", "sockOwn", "pipe"}

\* Logger::new; a failure of prepare_owner is only reported here.
StartLogger ==
  /\ lifePc = "logger"
  /\ Go(IF refused THEN "flush" ELSE "binaries")
  /\ UNCHANGED <<fileVars, sessionVars, exit>> /\ Quiet

LoggerFail ==
  /\ lifePc = "logger"
  /\ Go("ended") /\ exit' = "returned"
  /\ UNCHANGED <<fileVars, sessionVars>> /\ Quiet

\* The runtime, and ensure_required_binaries.
CheckBinaries ==
  /\ lifePc = "binaries"
  /\ Go(IF system = "windows" THEN "dllDir" ELSE "sockDir")
  /\ UNCHANGED <<fileVars, sessionVars, exit>> /\ Quiet

\* extract_at: CreateDirectoryW, and a value whose Drop removes what follows.
CreateDllDir ==
  /\ lifePc = "dllDir" /\ files["dllDir"] = "absent"
  /\ files' = [files EXCEPT !["dllDir"] = "ours"]
  /\ library' = {MainsShare}
  /\ Go("dllLock")
  /\ UNCHANGED <<handles, guards, devices, conn, sess, exit>> /\ Quiet

LockDllDir ==
  /\ lifePc = "dllLock"
  /\ handles' = {"dir"}
  /\ Go("dllFile")
  /\ UNCHANGED <<files, guards, sessionVars, exit>> /\ Quiet

\* CREATE_NEW, shared with nobody.
CreateDll ==
  /\ lifePc = "dllFile" /\ files["dll"] = "absent"
  /\ files' = [files EXCEPT !["dll"] = "ours"]
  /\ handles' = handles \cup {"writer"}
  /\ Go("dllWrite")
  /\ UNCHANGED <<guards, sessionVars, exit>> /\ Quiet

WriteDll ==
  /\ lifePc = "dllWrite"
  /\ handles' = handles \ {"writer"}
  /\ Go("dllKeep")
  /\ UNCHANGED <<files, guards, sessionVars, exit>> /\ Quiet

KeepDll ==
  /\ lifePc = "dllKeep"
  /\ handles' = handles \cup {"file"}
  /\ Go("pipe")
  /\ UNCHANGED <<files, guards, sessionVars, exit>> /\ Quiet

\* LocalListener::bind on Windows: the first instance of the pipe.
CreatePipe ==
  /\ lifePc = "pipe"
  /\ Go("serve")
  /\ UNCHANGED <<fileVars, sessionVars, exit>> /\ Quiet

\* LocalListener::bind on Unix: a directory of its own, never an existing one.
CreateSockDir ==
  /\ lifePc = "sockDir" /\ files["sockDir"] = "absent"
  /\ files' = [files EXCEPT !["sockDir"] = "ours"]
  /\ guards' = {"dir"}
  /\ Go("sockBind")
  /\ UNCHANGED <<handles, sessionVars, exit>> /\ Quiet

BindSocket ==
  /\ lifePc = "sockBind"
  /\ files' = [files EXCEPT !["sock"] = "ours"]
  /\ guards' = guards \cup {"sock"}
  /\ Go("sockOwn")
  /\ UNCHANGED <<handles, sessionVars, exit>> /\ Quiet

\* The permissions and the owner of the socket and its directory.
OwnSocket ==
  /\ lifePc = "sockOwn"
  /\ Go("serve")
  /\ UNCHANGED <<fileVars, sessionVars, exit>> /\ Quiet

\* One of these steps fails; `writer` is the last local of extract_at, so it
\* is closed before the library is dropped.
StartFail ==
  /\ lifePc \in StartLabels
  /\ handles' = handles \ {"writer"}
  /\ Go("unwind")
  /\ UNCHANGED <<files, guards, sessionVars, exit>> /\ Quiet

Start ==
  \/ StartLogger \/ LoggerFail \/ CheckBinaries \/ StartFail
  \/ CreateDllDir \/ LockDllDir \/ CreateDll \/ WriteDll \/ KeepDll \/ CreatePipe
  \/ CreateSockDir \/ BindSocket \/ OwnSocket

-----------------------------------------------------------------------------
(* The loop of run.                                                        *)

Listening == lifePc = "serve"

\* A process connects: the kernel keeps the identifier of the peer.
Connect(c) ==
  /\ Listening /\ conn[c].state = "none"
  /\ \E by \in {Stranger} \cup {i \in {instance} : process = "alive"} :
       conn' = [conn EXCEPT ![c] = [state |-> "queued", by |-> by]]
  /\ UNCHANGED <<fileVars, library, devices, sess, exit, lifePc>> /\ Quiet

\* authorizes: the identifier of the peer, if the kernel gave one.
Authorizes(peer) == peer # Stranger /\ OwnerAlive

\* accept and the check; the peer's identifier may not be had any more.
Accept(c) ==
  /\ Listening /\ conn[c].state = "queued"
  /\ \E peer \in {conn[c].by, Stranger} :
       conn' = [conn EXCEPT ![c].state = IF Authorizes(peer) THEN "served" ELSE "rejected"]
  /\ UNCHANGED <<fileVars, library, devices, sess, exit, lifePc>> /\ Quiet

\* The loop ends: a signal, a ShutdownDaemon request, accept fails, or the
\* monitor's tick finds the owner gone.  `shutdown` is sent.
StopAsked ==
  /\ Listening
  /\ Go("close")
  /\ UNCHANGED <<fileVars, sessionVars, exit>> /\ Quiet

Monitor ==
  /\ Listening /\ ~OwnerAlive
  /\ Go("close")
  /\ UNCHANGED <<fileVars, sessionVars, exit>> /\ Quiet

-----------------------------------------------------------------------------
(* Connections and sessions: tasks that run beside main.                   *)

Running == exit = "running"

\* serve_connection returns.
ConnEnds(c) ==
  /\ Running /\ conn[c].state = "served"
  /\ conn' = [conn EXCEPT ![c].state = "ended"]
  /\ UNCHANGED <<fileVars, library, devices, sess, exit, lifePc>> /\ Quiet

\* SessionManager::start, up to Weak::upgrade.
SessionStart(n) ==
  /\ Running /\ sess[n] = "none" /\ \E c \in Conns : conn[c].state = "served"
  /\ system = "windows" => library # {}
  /\ sess' = [sess EXCEPT ![n] = "start"]
  /\ library' = IF system = "windows" THEN library \cup {<<n, "loop">>} ELSE library
  /\ UNCHANGED <<fileVars, devices, conn, exit, lifePc>> /\ Quiet

\* build_sync loads the library.
SessionBuild(n) ==
  /\ Running /\ sess[n] = "start"
  /\ sess' = [sess EXCEPT ![n] = "built"]
  /\ devices' = devices \cup {<<n, "loop">>}
  /\ UNCHANGED <<fileVars, library, conn, exit, lifePc>> /\ Quiet

\* run_session_loop clones the session for its reader.
SessionRun(n) ==
  /\ Running /\ sess[n] = "built"
  /\ sess' = [sess EXCEPT ![n] = "open"]
  /\ devices' = devices \cup {<<n, "reader">>}
  /\ library' = IF system = "windows" THEN library \cup {<<n, "reader">>} ELSE library
  /\ UNCHANGED <<fileVars, conn, exit, lifePc>> /\ Quiet

\* The start fails, or the session is closed and its reader is interrupted.
SessionStop(n) ==
  /\ Running /\ sess[n] \in {"start", "built", "open"}
  /\ sess' = [sess EXCEPT ![n] = "drop"]
  /\ UNCHANGED <<fileVars, library, devices, conn, exit, lifePc>> /\ Quiet

\* Faulty variant: every clone removes the library when it is dropped.
LetGoEach(x) ==
  /\ library' = library \ {x}
  /\ handles' = {}
  /\ files' = [files EXCEPT !["dll"] = IF devices = {} THEN "absent" ELSE @,
                            !["dllDir"] = IF devices = {} THEN "absent" ELSE @]

\* The Drop of WintunDll, by whoever lets go of it last: both handles, the
\* file, which is removed unless a device has it loaded, and the directory.
LetGo(x) ==
  LET dll == IF devices = {} THEN "absent" ELSE files["dll"]
      last == library = {x}
  IN  /\ library' = library \ {x}
      /\ handles' = IF last THEN {} ELSE handles
      /\ files' = IF ~last THEN files
                  ELSE [files EXCEPT !["dll"] = dll,
                                     !["dllDir"] = IF dll = "absent" THEN "absent" ELSE @]

\* The fields of a TunSession in the order they are declared: the device ...
DropDevice(x) ==
  /\ Running /\ sess[x[1]] = "drop" /\ x \in devices
  /\ devices' = devices \ {x}
  /\ UNCHANGED <<fileVars, library, conn, sess, exit, lifePc>> /\ Quiet

\* ... and then the library.
DropLibrary(x) ==
  /\ Running /\ sess[x[1]] = "drop" /\ x \in library /\ x \notin devices
  /\ LetGo(x)
  /\ UNCHANGED <<guards, devices, conn, sess, exit, lifePc>> /\ Quiet

\* Faulty variant: the name is given back while the reader still has its clone.
SessionGoneEarly(n) ==
  /\ Running /\ sess[n] = "drop" /\ <<n, "loop">> \notin devices \cup library
  /\ sess' = [sess EXCEPT ![n] = "gone"]
  /\ UNCHANGED <<fileVars, library, devices, conn, exit, lifePc>> /\ Quiet

\* Both tasks are joined and the name leaves active_sessions.
SessionGone(n) ==
  /\ Running /\ sess[n] = "drop" /\ Of(n) \cap (devices \cup library) = {}
  /\ sess' = [sess EXCEPT ![n] = "gone"]
  /\ UNCHANGED <<fileVars, library, devices, conn, exit, lifePc>> /\ Quiet

-----------------------------------------------------------------------------
(* The end of run and main.                                                *)

\* drop(listener): the socket file, then its directory if it is empty.  A
\* connection still queued is closed with the listener.
DropListener ==
  /\ lifePc \in {"close", "unwind"}
  /\ \/ /\ "sock" \in guards
        /\ files' = [files EXCEPT !["sock"] = "absent"]
        /\ guards' = guards \ {"sock"}
     \/ /\ guards = {"dir"}
        /\ files' = [files EXCEPT !["sockDir"] = IF files["sock"] = "absent" THEN "absent" ELSE @]
        /\ guards' = {}
  /\ UNCHANGED <<handles, sessionVars, exit, lifePc>> /\ Quiet

ListenerClosed ==
  /\ lifePc = "close" /\ guards = {}
  /\ Go("drain")
  /\ conn' = [c \in Conns |-> IF conn[c].state = "queued" THEN [conn[c] EXCEPT !.state = "rejected"]
                                                          ELSE conn[c]]
  /\ UNCHANGED <<fileVars, library, devices, sess, exit>> /\ Quiet

\* The connections are joined, wait_for_sessions returns.
Drained ==
  /\ lifePc = "drain"
  /\ \A c \in Conns : conn[c].state # "served"
  /\ \A n \in TunNames : sess[n] \in {"none", "gone"}
  /\ Go("unwind")
  /\ UNCHANGED <<fileVars, sessionVars, exit>> /\ Quiet

DrainTimeout ==
  /\ lifePc = "drain"
  /\ Go("flushForced")
  /\ UNCHANGED <<fileVars, sessionVars, exit>> /\ Quiet

\* run returns, early or not: main's share of the library goes last.
Unwound ==
  /\ lifePc = "unwind" /\ guards = {}
  /\ IF MainsShare \in library THEN LetGo(MainsShare) ELSE UNCHANGED <<files, handles, library>>
  /\ Go("flush")
  /\ UNCHANGED <<guards, devices, conn, sess, exit>> /\ Quiet

\* flush, which always returns (DaemonLog), and the end: nothing is dropped
\* by process::exit.
Flushed ==
  /\ lifePc \in {"flush", "flushForced"}
  /\ Go("ended")
  /\ exit' = IF lifePc = "flush" THEN "returned" ELSE "forced"
  /\ UNCHANGED <<fileVars, sessionVars>> /\ Quiet

-----------------------------------------------------------------------------
Main ==
  \/ OwnerStep /\ UNCHANGED <<files, before, handles, guards, sessionVars, exit>>
  \/ Start \/ DropListener \/ ListenerClosed \/ Drained \/ DrainTimeout \/ Unwound \/ Flushed

SessionStep(n) ==
  \/ SessionStart(n) \/ SessionBuild(n) \/ SessionRun(n) \/ SessionStop(n) \/ SessionGone(n)
  \/ \E x \in Of(n) : DropDevice(x) \/ DropLibrary(x)

LifeNext ==
  \/ ProcessStep /\ UNCHANGED <<lifePc, refused, pin, user, files, before, handles, guards,
                                sessionVars, exit>>
  \/ Main
  \/ StopAsked \/ Monitor
  \/ \E c \in Conns : Connect(c) \/ Accept(c) \/ ConnEnds(c)
  \/ \E n \in TunNames : SessionStep(n)

LifeSpec == LifeInit /\ [][LifeNext]_lifeVars

\* main goes on, and the interval ticks: select! picks among ready branches
\* at random, so connections cannot keep the monitor from its turn.  Nothing
\* is asked of connections, sessions or the owner.
LifeFairness == WF_lifeVars(Main \/ Monitor)

-----------------------------------------------------------------------------
\* Only the application is ever served: not a process that got its
\* identifier, whether it came before the daemon looked, between two reads
\* of OwnerProcess::open or between two ticks of the monitor; and the user
\* who is given the socket is the application's.
ServedIsOwner ==
  /\ PinnedIsApp
  /\ \A c \in Conns : conn[c].state = "served" => conn[c].by = App

\* While a session has a device, the library it was loaded from is on disk
\* and held open against replacement, whichever of main, the session loop
\* and the reader lets go first, also when the start of a session fails.
DllOutlivesDevices ==
  Running /\ system = "windows" /\ devices # {} =>
    files["dll"] = "ours" /\ {"dir", "file"} \subseteq handles

\* A main that returns, wherever the start failed, leaves the paths as it
\* found them: its own are gone, one that was there before is untouched, and
\* no device is left.
LeavesAsFound == exit = "returned" => files = before /\ devices = {} /\ handles = {}

\* The application is gone ~> so is the daemon: nobody else holds it up, not
\* a process that got the identifier, a connection or a session.
OwnerGoneEnds == (instance # App \/ process # "alive") ~> lifePc = "ended"
=============================================================================
