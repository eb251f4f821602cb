---------------------------- MODULE DaemonProcess ---------------------------
(***************************************************************************)
(* The daemon process from both ends: the application that launches, stops *)
(* and kills it (OwnedDaemon) and talks to it in frames over a pipe        *)
(* (IpcFrames, WindowsPipe), and the process itself with its log           *)
(* (DaemonLife, DaemonLog).  The five share no state, so a behaviour is of *)
(* one of them, which `part` says.                                         *)
(*                                                                         *)
(* They rest on each other: a daemon that is asked to stop or whose        *)
(* application dies ends, which OwnedDaemon allows but does not need, and  *)
(* a flush of the log returns, which DaemonLife takes for granted.         *)
(***************************************************************************)
EXTENDS OwnedDaemon, WindowsPipe, IpcFrames, DaemonLife, DaemonLog

VARIABLE part

processVars == <<part, ownedVars, pipeVars, lifeVars, logVars, frameVars>>

ProcessInit ==
  /\ part \in {"owned", "pipe", "life", "log", "frames"}
  /\ OwnedInit /\ PipeInit /\ LifeInit /\ LogInit /\ FramesInit
  /\ part # "life" => before["sockDir"] = "absent" /\ system = CHOOSE s \in Systems : TRUE
  /\ part # "frames" => side = "daemon"

ProcessNext ==
  /\ UNCHANGED part
  /\ \/ part = "owned" /\ OwnedNext /\ UNCHANGED <<pipeVars, lifeVars, logVars, frameVars>>
     \/ part = "pipe" /\ PipeNext /\ UNCHANGED <<ownedVars, lifeVars, logVars, frameVars>>
     \/ part = "life" /\ LifeNext /\ UNCHANGED <<ownedVars, pipeVars, logVars, frameVars>>
     \/ part = "log" /\ LogNext /\ UNCHANGED <<ownedVars, pipeVars, lifeVars, frameVars>>
     \/ part = "frames" /\ FramesNext /\ UNCHANGED <<ownedVars, pipeVars, lifeVars, logVars>>

\* The fair actions of a part that is not under way are never enabled.
ProcessSpec ==
  /\ ProcessInit /\ [][ProcessNext]_processVars
  /\ OwnedFairness /\ PipeFairness /\ LogFairness
  /\ WF_lifeVars(part = "life" /\ (Main \/ Monitor))

-----------------------------------------------------------------------------
\* Nothing holds up the end of the daemon: neither a writer of the log that
\* hangs (logging.rs), nor, once the application is gone, a connection, a
\* session or a process that got its identifier (main.rs, owner.rs).
NothingHoldsUpExit == LogReturns /\ OwnerGoneEnds
=============================================================================
