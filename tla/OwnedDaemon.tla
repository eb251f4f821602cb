---------------------------- MODULE OwnedDaemon ----------------------------
(***************************************************************************)
(* DaemonProcess and PlatformInterfaceFactory: application threads launch, *)
(* stop and kill daemon processes, and the first running one is registered *)
(* for VPN sessions.  A process is seen through Process.isAlive, waitFor   *)
(* and destroyForcibly; every wait may time out, every exchange may fail.  *)
(***************************************************************************)
EXTENDS Integers, FiniteSets

CONSTANTS
  Callers,   \* application threads
  Daemons    \* processes the launcher may create

NoDaemon == "no daemon"

ASSUME DaemonsAssumption == NoDaemon \notin Daemons

VARIABLES
  proc,     \* per daemon: the process
  runningDaemon,  \* PlatformInterfaceFactory.running
  callPc,   \* per caller: where it is
  on,       \* per caller: the daemon it works on
  seen,     \* per caller: what registerDaemon read
  handed,   \* daemons that launch has returned
  failed,   \* daemons whose launch has thrown
  stopped   \* daemons for which a stop or kill has returned normally

ownedVars == <<proc, runningDaemon, callPc, on, seen, handed, failed, stopped>>

\* "kill" and "reap" are the kill inside stop's try block, whose failure is
\* answered by another one; "killLast" and "reapLast" are all others.
Labels == {"idle", "boot", "register", "cas", "discard", "ask", "wait", "kill",
           "reap", "killLast", "reapLast"}

\* Every variable has its type, and a call works on a daemon.
OwnedTypeOK ==
  /\ proc \in [Daemons -> {"none", "starting", "serving", "draining", "killed", "dead"}]
  /\ runningDaemon \in Daemons \cup {NoDaemon}
  /\ callPc \in [Callers -> Labels]
  /\ on \in [Callers -> Daemons \cup {NoDaemon}]
  /\ seen \in [Callers -> Daemons \cup {NoDaemon}]
  /\ handed \subseteq Daemons
  /\ failed \subseteq Daemons
  /\ stopped \subseteq Daemons
  /\ \A t \in Callers : callPc[t] # "idle" => on[t] \in Daemons

OwnedInit ==
  /\ proc = [d \in Daemons |-> "none"]
  /\ runningDaemon = NoDaemon
  /\ callPc = [t \in Callers |-> "idle"]
  /\ on = [t \in Callers |-> NoDaemon]
  /\ seen = [t \in Callers |-> NoDaemon]
  /\ handed = {}
  /\ failed = {}
  /\ stopped = {}

IsAlive(d) == proc[d] \notin {"none", "dead"}

\* The registered daemon is running.
Occupied == runningDaemon # NoDaemon /\ IsAlive(runningDaemon)

At(t, l, d) == callPc[t] = l /\ on[t] = d

MoveTo(t, l) == callPc' = [callPc EXCEPT ![t] = l]

\* destroyForcibly asks the operating system; exit comes later.
Destroy(d) == proc' = IF IsAlive(d) THEN [proc EXCEPT ![d] = "killed"] ELSE proc

\* compareAndSet(daemon, null).
Unregister(d) == runningDaemon' = IF runningDaemon = d THEN NoDaemon ELSE runningDaemon

-----------------------------------------------------------------------------
(* launch and registerDaemon.                                              *)

\* The launcher returns a process, and the bootstrap thread starts to probe.
Launch(t, d) ==
  /\ callPc[t] = "idle"
  /\ proc[d] = "none"
  /\ proc' = [proc EXCEPT ![d] = "starting"]
  /\ on' = [on EXCEPT ![t] = d]
  /\ MoveTo(t, "boot")
  /\ UNCHANGED <<runningDaemon, seen, handed, failed, stopped>>

\* A probe finds the daemon ready.
BootReady(t, d) ==
  /\ At(t, "boot", d)
  /\ proc[d] = "serving"
  /\ MoveTo(t, "register")
  /\ UNCHANGED <<proc, runningDaemon, on, seen, handed, failed, stopped>>

\* The process exits, answers wrongly or is not ready in time: it is
\* destroyed, and waited for.
BootFail(t, d) ==
  /\ At(t, "boot", d)
  /\ Destroy(d)
  /\ MoveTo(t, "discard")
  /\ UNCHANGED <<runningDaemon, on, seen, handed, failed, stopped>>

\* launch throws; a process that outlives the wait is only reported.
Discard(t, d) ==
  /\ At(t, "discard", d)
  /\ failed' = failed \cup {d}
  /\ MoveTo(t, "idle")
  /\ UNCHANGED <<proc, runningDaemon, on, seen, handed, stopped>>

\* launch returns the daemon.
Hand(t, d) == handed' = handed \cup {d} /\ MoveTo(t, "idle")

\* registerDaemon reads the reference and leaves a running daemon in place.
RegisterRead(t, d) ==
  /\ At(t, "register", d)
  /\ \/ /\ Occupied
        /\ Hand(t, d)
        /\ UNCHANGED seen
     \/ /\ ~Occupied
        /\ seen' = [seen EXCEPT ![t] = runningDaemon]
        /\ MoveTo(t, "cas")
        /\ UNCHANGED handed
  /\ UNCHANGED <<proc, runningDaemon, on, failed, stopped>>

\* compareAndSet(current, daemon); when it fails registerDaemon starts over.
RegisterCas(t, d) ==
  /\ At(t, "cas", d)
  /\ IF runningDaemon = seen[t]
       THEN runningDaemon' = d /\ Hand(t, d)
       ELSE MoveTo(t, "register") /\ UNCHANGED <<runningDaemon, handed>>
  /\ UNCHANGED <<proc, on, seen, failed, stopped>>

-----------------------------------------------------------------------------
(* stop and kill.                                                          *)

\* finally: a process that has exited is unregistered; the call returns, or
\* throws if the exit was not waited for.
Return(t, d) ==
  /\ MoveTo(t, "idle")
  /\ IF ~IsAlive(d) THEN Unregister(d) ELSE UNCHANGED runningDaemon

\* stop finds the process gone.
StopGone(t, d) ==
  /\ callPc[t] = "idle"
  /\ d \in handed
  /\ ~IsAlive(d)
  /\ Unregister(d)
  /\ stopped' = stopped \cup {d}
  /\ UNCHANGED <<proc, callPc, on, seen, handed, failed>>

\* stop begins a graceful shutdown, or is told not to wait for one.
StopDaemon(t, d) ==
  /\ callPc[t] = "idle"
  /\ d \in handed
  /\ IsAlive(d)
  /\ on' = [on EXCEPT ![t] = d]
  /\ \E l \in {"ask", "killLast"} : MoveTo(t, l)
  /\ UNCHANGED <<proc, runningDaemon, seen, handed, failed, stopped>>

\* The shutdown request reaches the daemon.
Ask(t, d) ==
  /\ At(t, "ask", d)
  /\ proc[d] \in {"serving", "draining"}
  /\ proc' = [proc EXCEPT ![d] = "draining"]
  /\ MoveTo(t, "wait")
  /\ UNCHANGED <<runningDaemon, on, seen, handed, failed, stopped>>

\* Faulty variant: an exchange that fails is not followed by a kill.
AskFailGivesUp(t, d) ==
  /\ At(t, "ask", d)
  /\ Return(t, d)
  /\ UNCHANGED <<proc, on, seen, handed, failed, stopped>>

\* Connecting, readiness or the request fails: a live process is killed; stop
\* then returns (IOException) or throws (anything else).
AskFail(t, d) ==
  /\ At(t, "ask", d)
  /\ IF IsAlive(d)
       THEN MoveTo(t, "killLast") /\ UNCHANGED <<runningDaemon, stopped>>
       ELSE Return(t, d) /\ \E s \in {{}, {d}} : stopped' = stopped \cup s
  /\ UNCHANGED <<proc, on, seen, handed, failed>>

\* waitFor sees the daemon exit.
Exited(t, d) ==
  /\ At(t, "wait", d)
  /\ ~IsAlive(d)
  /\ Return(t, d)
  /\ stopped' = stopped \cup {d}
  /\ UNCHANGED <<proc, on, seen, handed, failed>>

\* waitFor times out.
WaitTimeout(t, d) ==
  /\ At(t, "wait", d)
  /\ MoveTo(t, "kill")
  /\ UNCHANGED <<proc, runningDaemon, on, seen, handed, failed, stopped>>

\* kill, on its own or while another thread is stopping the same daemon.
Kill(t, d) ==
  /\ callPc[t] = "idle"
  /\ d \in handed
  /\ on' = [on EXCEPT ![t] = d]
  /\ MoveTo(t, "killLast")
  /\ UNCHANGED <<proc, runningDaemon, seen, handed, failed, stopped>>

\* kill asks the operating system to end the process.
KillSend(t, d) ==
  /\ on[t] = d
  /\ \/ callPc[t] = "kill" /\ MoveTo(t, "reap")
     \/ callPc[t] = "killLast" /\ MoveTo(t, "reapLast")
  /\ Destroy(d)
  /\ UNCHANGED <<runningDaemon, on, seen, handed, failed, stopped>>

\* Faulty variant: kill leaves the registration to stop.
ReapedOnly(t, d) ==
  /\ on[t] = d
  /\ callPc[t] \in {"reap", "reapLast"}
  /\ ~IsAlive(d)
  /\ MoveTo(t, "idle")
  /\ stopped' = stopped \cup {d}
  /\ UNCHANGED <<proc, runningDaemon, on, seen, handed, failed>>

\* kill sees the process exit: the call returns, unless it serves a stop that
\* is going to rethrow.
Reaped(t, d) ==
  /\ on[t] = d
  /\ callPc[t] \in {"reap", "reapLast"}
  /\ ~IsAlive(d)
  /\ Return(t, d)
  /\ \E s \in {{}, {d}} : stopped' = stopped \cup s
  /\ UNCHANGED <<proc, on, seen, handed, failed>>

\* The five seconds of kill pass.  Inside stop its exception is caught and a
\* live process is killed once more; then it is reported.
ReapTimeout(t, d) ==
  /\ on[t] = d
  /\ \/ /\ callPc[t] = "reap" /\ IsAlive(d)
        /\ MoveTo(t, "killLast")
        /\ UNCHANGED runningDaemon
     \/ /\ callPc[t] \in {"reap", "reapLast"}
        /\ callPc[t] = "reap" => ~IsAlive(d)
        /\ Return(t, d)
  /\ UNCHANGED <<proc, on, seen, handed, failed, stopped>>

-----------------------------------------------------------------------------
(* The processes.                                                          *)

\* The daemon has bound its endpoint.
Ready(d) ==
  /\ proc[d] = "starting"
  /\ proc' = [proc EXCEPT ![d] = "serving"]
  /\ UNCHANGED <<runningDaemon, callPc, on, seen, handed, failed, stopped>>

\* The process exits: drained, killed, or of its own accord.
Exit(d) ==
  /\ IsAlive(d)
  /\ proc' = [proc EXCEPT ![d] = "dead"]
  /\ UNCHANGED <<runningDaemon, callPc, on, seen, handed, failed, stopped>>

-----------------------------------------------------------------------------
CallerStep(t) ==
  \E d \in Daemons :
    \/ BootReady(t, d) \/ BootFail(t, d) \/ Discard(t, d)
    \/ RegisterRead(t, d) \/ RegisterCas(t, d)
    \/ Ask(t, d) \/ AskFail(t, d) \/ Exited(t, d) \/ WaitTimeout(t, d)
    \/ KillSend(t, d) \/ Reaped(t, d) \/ ReapTimeout(t, d)

\* Nothing is left to launch, and no daemon was ever handed out.
Terminated ==
  /\ \A d \in Daemons : proc[d] = "dead" /\ d \notin handed
  /\ \A t \in Callers : callPc[t] = "idle"
  /\ UNCHANGED ownedVars

OwnedNext ==
  \/ \E t \in Callers :
       \/ CallerStep(t)
       \/ \E d \in Daemons : Launch(t, d) \/ StopGone(t, d) \/ StopDaemon(t, d) \/ Kill(t, d)
  \/ \E d \in Daemons : Ready(d) \/ Exit(d)
  \/ Terminated

OwnedSpec == OwnedInit /\ [][OwnedNext]_ownedVars

\* Calls go on, and a process that was told to die does so some time.
OwnedFairness ==
  /\ \A t \in Callers : WF_ownedVars(CallerStep(t))
  /\ \A d \in Daemons : WF_ownedVars(proc[d] = "killed" /\ Exit(d))

OwnedFairSpec == OwnedSpec /\ OwnedFairness

-----------------------------------------------------------------------------
\* A daemon for which stop or kill has returned is not registered, and never
\* comes back, whatever launches and kills run beside it.
StoppedIsUnregistered == runningDaemon \notin stopped

\* registerDaemon and unregisterDaemon never take the reference away from a
\* daemon that is running.
RegistrationStable == [][Occupied => runningDaemon' = runningDaemon]_ownedVars

\* A launch that throws has destroyed its process, and never registered it.
FailedLaunchDestroyed ==
  \A d \in failed : proc[d] \in {"killed", "dead"} /\ runningDaemon # d /\ d \notin handed

\* A daemon that is over for its caller, because stop or kill returned or
\* because launch threw at any point of the bootstrap, is out of the way: no
\* later interface gets it, and no process is left behind by a launch.
EndedIsUnregistered == StoppedIsUnregistered /\ FailedLaunchDestroyed

\* Whatever fails on the way, a stop or kill ends with the process dead.
StopEndsProcess ==
  \A t \in Callers, d \in Daemons :
    on[t] = d /\ callPc[t] \in {"ask", "wait", "kill", "reap", "killLast", "reapLast"}
      ~> proc[d] = "dead"
=============================================================================
