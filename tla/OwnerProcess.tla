---------------------------- MODULE OwnerProcess ----------------------------
(***************************************************************************)
(* OwnerProcess of owner.rs: how the daemon pins the application that      *)
(* launched it.  The application passes its process identifier and start   *)
(* time; by the time the daemon looks, it may have ended, and another      *)
(* process may have got the identifier.  The module follows that one       *)
(* identifier: its instances are numbered, the application is the first.   *)
(* Start times of instances differ as far as they are compared.            *)
(***************************************************************************)
EXTENDS Integers, FiniteSets

CONSTANTS
  Systems,      \* operating systems to look at
  MaxInstances  \* bound: processes that get the identifier

ASSUME OwnerAssumption ==
  /\ Systems \subseteq {"linux", "macos", "windows"}
  /\ MaxInstances \in Nat \ {0}

App == 1

VARIABLES
  system,    \* the operating system
  instance,  \* the last process to have the identifier
  process,   \* that process: alive, zombie, or free when it is reaped
  lifePc,    \* of the daemon: the next step of main
  refused,   \* prepare_owner has failed
  pin,       \* the instance behind the pidfd, the handle or the birth time
  user       \* the instance whose user the daemon takes for the owner's

kernelVars == <<system, instance, process>>
ownerVars == <<kernelVars, lifePc, refused, pin, user>>

OwnerInit ==
  /\ system \in Systems
  /\ instance = App /\ process = "alive"
  /\ lifePc = "root"
  /\ refused = FALSE
  /\ pin = 0 /\ user = 0

OwnerLabels == {"root", "pin", "user", "ticks", "alive", "signals"}

Go(l) == lifePc' = l

-----------------------------------------------------------------------------
(* The processes with the identifier.                                      *)

ProcessExit ==
  /\ process = "alive"
  /\ process' = "zombie"
  /\ UNCHANGED <<system, instance>>

ProcessReaped ==
  /\ process = "zombie"
  /\ process' = "free"
  /\ UNCHANGED <<system, instance>>

IdentifierReused ==
  /\ process = "free" /\ instance < MaxInstances
  /\ instance' = instance + 1
  /\ process' = "alive"
  /\ UNCHANGED system

ProcessStep == ProcessExit \/ ProcessReaped \/ IdentifierReused

\* is_alive: the pidfd is not readable, the handle is not signalled, the
\* birth time is that of a process that is no zombie.
OwnerAlive == instance = pin /\ process = "alive"

-----------------------------------------------------------------------------
(* prepare_owner.                                                          *)

\* ensure_root.
CheckRoot == lifePc = "root" /\ Go("pin") /\ UNCHANGED <<kernelVars, refused, pin, user>>

\* pidfd_open and OpenProcess give a reference to a process that may have
\* exited; macos_info reads all of a process that has not, at once.
PinOwner ==
  /\ lifePc = "pin"
  /\ process # "free"
  /\ pin' = instance
  /\ \/ system = "linux" /\ Go("user") /\ UNCHANGED user
     \/ system = "windows" /\ Go("ticks") /\ user' = instance
     \/ /\ system = "macos" /\ process = "alive" /\ instance = App
        /\ Go("signals") /\ user' = instance
  /\ UNCHANGED <<kernelVars, refused>>

\* /proc/pid/status.
ReadUser ==
  /\ lifePc = "user" /\ process # "free"
  /\ user' = instance
  /\ Go("ticks")
  /\ UNCHANGED <<kernelVars, refused, pin>>

\* Faulty variant: the start time is not compared.
CheckTicksNot ==
  /\ lifePc = "ticks"
  /\ Go("alive")
  /\ UNCHANGED <<kernelVars, refused, pin, user>>

\* /proc/pid/stat on Linux, GetProcessTimes of the handle on Windows: the
\* start time is the one the application passed.
CheckTicks ==
  /\ lifePc = "ticks"
  /\ \/ system = "linux" /\ process # "free" /\ instance = App
     \/ system = "windows" /\ pin = App
  /\ Go("alive")
  /\ UNCHANGED <<kernelVars, refused, pin, user>>

CheckAlive ==
  /\ lifePc = "alive" /\ OwnerAlive
  /\ Go(IF system = "windows" THEN "logger" ELSE "signals")
  /\ UNCHANGED <<kernelVars, refused, pin, user>>

\* allow_owner_signals, on Unix.
AllowSignals ==
  /\ lifePc = "signals"
  /\ Go("logger")
  /\ UNCHANGED <<kernelVars, refused, pin, user>>

\* Any of these steps fails.
RefuseOwner ==
  /\ lifePc \in OwnerLabels
  /\ refused' = TRUE
  /\ Go("logger")
  /\ UNCHANGED <<kernelVars, pin, user>>

OwnerStep ==
  \/ CheckRoot \/ PinOwner \/ ReadUser \/ CheckTicks \/ CheckAlive \/ AllowSignals
  \/ RefuseOwner

-----------------------------------------------------------------------------
\* A daemon that goes on has pinned the application, and knows its user,
\* though the identifier may have changed hands between any two reads.
PinnedIsApp == lifePc \notin OwnerLabels /\ ~refused => pin = App /\ user = App
=============================================================================
