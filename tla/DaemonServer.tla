---------------------------- MODULE DaemonServer ----------------------------
(***************************************************************************)
(* The privileged daemon's process: the accept loop of main.rs, the        *)
(* connection handler and session task of server.rs, and the life cycle    *)
(* that session.rs gives a TUN session.                                    *)
(*                                                                         *)
(* One connection carries at most one session, so both are indexed by the  *)
(* connection.  Four threads of control touch a session: the handler's     *)
(* read and write futures, the session task and the blocking TUN reader.   *)
(***************************************************************************)
EXTENDS Integers, Sequences, FiniteSets

CONSTANTS
  Conns,         \* connections the owning application may open
  Names,         \* interface names a configuration may ask for
  KernelName,    \* the name the operating system gives a device asked for as n
  MaxSessions,   \* MAX_ACTIVE_SESSIONS
  OutCap,        \* PACKET_CHANNEL_CAPACITY of the response queue
  InCap,         \* PACKET_CHANNEL_CAPACITY of the incoming queue
  Frames,        \* kinds of frame a client sends after its first one
  TunEvents,     \* what the TUN device may deliver to the reader
  DrainDeadline  \* whether the four-second drain deadline may expire

NoName == "no name"

FrameKinds == {"config", "other", "shutdown", "broken"}

ASSUME NamesAssumption ==
  /\ NoName \notin Names
  /\ KernelName \in [Names -> Names]
  /\ \A n \in Names : KernelName[KernelName[n]] = KernelName[n]

ASSUME BoundsAssumption ==
  /\ IsFiniteSet(Conns)
  /\ MaxSessions \in Nat
  /\ OutCap \in Nat \ {0}
  /\ InCap \in Nat \ {0}
  /\ Frames \subseteq FrameKinds
  /\ TunEvents \subseteq {"packet", "error"}
  /\ DrainDeadline \in BOOLEAN

VARIABLES
  phase,   \* per connection: its handler
  rd,      \* per connection: the handler's read future
  wr,      \* per connection: the handler's write future
  wrote,   \* per connection: the last response written to the client
  gone,    \* connections whose client has closed its end
  task,    \* per connection: the session task
  name,    \* per connection: the name the session reserved
  os,      \* per connection: what the session has done to routes and DNS
  reader,  \* per connection: the blocking TUN reader
  errors,  \* per connection: errors the session task will report
  inq,     \* client messages on their way to the session task
  outq,    \* responses on their way to the write future
  active,  \* DaemonService.active_sessions
  shut,    \* the shutdown watch
  main,    \* the accept loop
  owner    \* whether the owning process is alive

connVars == <<phase, rd, wr, wrote>>
sessVars == <<task, name, os, reader, errors>>
peerVars == <<gone, owner>>
vars == <<connVars, sessVars, peerVars, inq, outq, active, shut, main>>

Responses == {"started", "packet", "error", "status"}

TaskStates == {"none", "spawned", "starting", "configuring", "failed", "report", "loop",
               "closing", "cleaning", "joining", "release", "ended"}

\* Every variable has the shape the Rust types give it, and neither queue
\* exceeds its capacity (a suspended send holds one more incoming frame).
TypeOK ==
  /\ phase \in [Conns -> {"off", "hello", "serving", "done"}]
  /\ rd \in [Conns -> {"read", "fail", "done"}]
  /\ wr \in [Conns -> {"enter", "reserve", "drain", "reject", "done"}]
  /\ wrote \in [Conns -> Responses \cup {"none"}]
  /\ gone \subseteq Conns
  /\ task \in [Conns -> TaskStates]
  /\ name \in [Conns -> Names \cup {NoName}]
  /\ os \in [Conns -> {"none", "configured", "residue"}]
  /\ reader \in [Conns -> {"none", "reading", "sending", "failing", "done", "failed"}]
  /\ errors \in [Conns -> 0 .. 2]
  /\ inq \in [Conns -> Seq(FrameKinds)]
  /\ outq \in [Conns -> Seq(Responses)]
  /\ active \subseteq Names
  /\ shut \in BOOLEAN
  /\ main \in {"accepting", "joining", "waiting", "exited", "killed"}
  /\ owner \in BOOLEAN
  /\ \A c \in Conns : Len(inq[c]) <= InCap + 1 /\ Len(outq[c]) <= OutCap

Init ==
  /\ phase = [c \in Conns |-> "off"]
  /\ rd = [c \in Conns |-> "done"]
  /\ wr = [c \in Conns |-> "done"]
  /\ wrote = [c \in Conns |-> "none"]
  /\ gone = {}
  /\ task = [c \in Conns |-> "none"]
  /\ name = [c \in Conns |-> NoName]
  /\ os = [c \in Conns |-> "none"]
  /\ reader = [c \in Conns |-> "none"]
  /\ errors = [c \in Conns |-> 0]
  /\ inq = [c \in Conns |-> <<>>]
  /\ outq = [c \in Conns |-> <<>>]
  /\ active = {}
  /\ shut = FALSE
  /\ main = "accepting"
  /\ owner = TRUE

-----------------------------------------------------------------------------
(* Who still holds which end of which channel.                             *)

Serving(c) == phase[c] = "serving"

\* The session task runs from the reservation to its last statement ...
TaskLive(c) == task[c] \notin {"none", "ended"}

\* ... which is the release, but for a task that reports a failed start.
Reserved(c) == task[c] \notin {"none", "report", "ended"}

ReaderLive(c) == reader[c] \in {"reading", "sending", "failing"}

\* The response receiver lives in the write future.
ResponsesOpen(c) == Serving(c) /\ wr[c] = "drain"

\* The incoming receiver lives in session(), then in the session task.
IncomingOpen(c) == (Serving(c) /\ wr[c] \in {"enter", "reserve"}) \/ TaskLive(c)

\* The incoming sender lives in the read future.
IncomingFed(c) == Serving(c) /\ rd[c] # "done"

\* A frame beyond the capacity belongs to a suspended tx.send.
ReadBlocked(c) == Len(inq[c]) > InCap

\* stop_read_tx.send(()) has happened.
Stopped(c) == task[c] \in {"closing", "cleaning", "joining", "release", "ended"}

\* session.close() has triggered the interrupt event.
Interrupted(c) == task[c] \in {"cleaning", "joining", "release", "ended"}

\* The device lives until close() and the reader have dropped it.
DeviceLive(c) == task[c] \in {"configuring", "loop", "closing", "cleaning"} \/ ReaderLive(c)

\* Dropping the incoming receiver discards what it holds; a suspended send
\* stays suspended until the read future is polled again.
DropIncoming(c) ==
  inq' = IF ReadBlocked(c) THEN inq ELSE [inq EXCEPT ![c] = <<>>]

\* tx.try_send: a full queue drops the response.
TrySend(q, m) == IF Len(q) < OutCap THEN Append(q, m) ELSE q

\* A response to a dropped receiver is lost.
Respond(c, q) == outq' = IF ResponsesOpen(c) THEN [outq EXCEPT ![c] = q] ELSE outq

\* On macOS utun01 and utun1 are one device: the configured name is brought
\* to the kernel's form before it is reserved.  Elsewhere it is left alone,
\* which is what the kernel does with it.
Normalize(n) == KernelName[n]

\* The futures have come to r and w; try_join! returns once both are done.
Join(c, r, w) ==
  /\ rd' = [rd EXCEPT ![c] = r]
  /\ wr' = [wr EXCEPT ![c] = w]
  /\ phase' = [phase EXCEPT ![c] = IF r = "done" /\ w = "done" THEN "done" ELSE @]

\* A future failed: try_join! drops both, with the queue ends they own.
Abort(c) ==
  /\ Join(c, "done", "done")
  /\ outq' = [outq EXCEPT ![c] = <<>>]
  /\ inq' = [inq EXCEPT ![c] = IF ~TaskLive(c) THEN <<>>
                               ELSE IF ReadBlocked(c) THEN SubSeq(@, 1, InCap) ELSE @]

-----------------------------------------------------------------------------
(* serve_connection: the handshake and the read future.                    *)

\* main.rs hands an accepted stream to a handler only for the live owner.
Accept(c) ==
  /\ main = "accepting"
  /\ phase[c] = "off"
  /\ phase' = [phase EXCEPT ![c] = IF owner THEN "hello" ELSE "done"]
  /\ UNCHANGED <<rd, wr, wrote, sessVars, peerVars, inq, outq, active, shut, main>>

\* Shutdown, a timeout, an IO error or a readiness probe that closes.
HelloOver(c) ==
  /\ phase[c] = "hello"
  /\ phase' = [phase EXCEPT ![c] = "done"]
  /\ UNCHANGED <<rd, wr, wrote, sessVars, peerVars, inq, outq, active, shut, main>>

\* The first frame is a control request.
HelloShutdown(c) ==
  /\ phase[c] = "hello"
  /\ ~shut
  /\ c \notin gone
  /\ shut' = TRUE
  /\ phase' = [phase EXCEPT ![c] = "done"]
  /\ UNCHANGED <<rd, wr, wrote, sessVars, peerVars, inq, outq, active, main>>

\* The first frame m opens a session.
HelloSession(c, m) ==
  /\ phase[c] = "hello"
  /\ ~shut
  /\ c \notin gone
  /\ phase' = [phase EXCEPT ![c] = "serving"]
  /\ rd' = [rd EXCEPT ![c] = "read"]
  /\ wr' = [wr EXCEPT ![c] = "enter"]
  /\ inq' = [inq EXCEPT ![c] = <<m>>]
  /\ UNCHANGED <<wrote, sessVars, peerVars, outq, active, shut, main>>

\* A frame arrives; one that does not decode is forwarded as an error first.
ReadFrame(c, m) ==
  /\ Serving(c)
  /\ rd[c] = "read"
  /\ ~ReadBlocked(c)
  /\ ~shut
  /\ c \notin gone
  /\ inq' = IF IncomingOpen(c) THEN [inq EXCEPT ![c] = Append(@, m)] ELSE inq
  /\ Join(c, IF m = "broken" THEN "fail" ELSE IF IncomingOpen(c) THEN "read" ELSE "done", wr[c])
  /\ UNCHANGED <<wrote, sessVars, peerVars, outq, active, shut, main>>

\* Shutdown or end of file, or a suspended send whose receiver went away.
ReadStop(c) ==
  /\ Serving(c)
  /\ rd[c] = "read"
  /\ IF ReadBlocked(c) THEN ~IncomingOpen(c) ELSE shut \/ c \in gone
  /\ Join(c, "done", wr[c])
  /\ inq' = IF IncomingOpen(c) THEN inq ELSE [inq EXCEPT ![c] = <<>>]
  /\ UNCHANGED <<wrote, sessVars, peerVars, outq, active, shut, main>>

\* The decoding error has been forwarded; the read future fails with it.
ReadFail(c) ==
  /\ Serving(c)
  /\ rd[c] = "fail"
  /\ ~ReadBlocked(c) \/ ~IncomingOpen(c)
  /\ Abort(c)
  /\ UNCHANGED <<wrote, sessVars, peerVars, active, shut, main>>

-----------------------------------------------------------------------------
(* serve_connection: the write future and session().                       *)

\* Faulty variant: a first frame that is no configuration is skipped.
EnterCheckSkips(c) ==
  /\ Serving(c)
  /\ wr[c] = "enter"
  /\ \/ /\ ~shut /\ inq[c] # <<>>
        /\ wr' = [wr EXCEPT ![c] = IF Head(inq[c]) = "config" THEN "reserve" ELSE "enter"]
        /\ inq' = [inq EXCEPT ![c] = Tail(@)]
     \/ /\ shut \/ (inq[c] = <<>> /\ ~IncomingFed(c))
        /\ wr' = [wr EXCEPT ![c] = "reject"]
        /\ DropIncoming(c)
  /\ UNCHANGED <<phase, rd, wrote, sessVars, peerVars, outq, active, shut, main>>

\* session() has looked at the shutdown watch and at the first message, and
\* turns the client away or goes for the lock of active_sessions.
EnterCheck(c) ==
  /\ Serving(c)
  /\ wr[c] = "enter"
  /\ \/ /\ ~shut /\ Head(inq[c]) = "config"
        /\ wr' = [wr EXCEPT ![c] = "reserve"]
        /\ inq' = [inq EXCEPT ![c] = Tail(@)]
     \/ \* shutting down, not a configuration, or not a valid one
        /\ wr' = [wr EXCEPT ![c] = "reject"]
        /\ DropIncoming(c)
  /\ UNCHANGED <<phase, rd, wrote, sessVars, peerVars, outq, active, shut, main>>

\* Under the lock: the name is taken, or there is no room.
EnterReject(c, n) ==
  /\ Serving(c)
  /\ wr[c] = "reserve"
  /\ Normalize(n) \in active \/ Cardinality(active) >= MaxSessions
  /\ wr' = [wr EXCEPT ![c] = "reject"]
  /\ DropIncoming(c)
  /\ UNCHANGED <<phase, rd, wrote, sessVars, peerVars, outq, active, shut, main>>

\* Faulty variant: one session too many.
EnterReserveOver(c, n) ==
  /\ Serving(c)
  /\ wr[c] = "reserve"
  /\ Normalize(n) \notin active
  /\ Cardinality(active) <= MaxSessions
  /\ active' = active \cup {Normalize(n)}
  /\ task' = [task EXCEPT ![c] = "spawned"]
  /\ name' = [name EXCEPT ![c] = Normalize(n)]
  /\ wr' = [wr EXCEPT ![c] = "drain"]
  /\ UNCHANGED <<phase, rd, wrote, os, reader, errors, peerVars, inq, outq, shut, main>>

\* Under the lock: session() reserves the name, and spawns the session task.
EnterReserve(c, n) ==
  /\ Serving(c)
  /\ wr[c] = "reserve"
  /\ Normalize(n) \notin active
  /\ Cardinality(active) < MaxSessions
  /\ active' = active \cup {Normalize(n)}
  /\ task' = [task EXCEPT ![c] = "spawned"]
  /\ name' = [name EXCEPT ![c] = Normalize(n)]
  /\ wr' = [wr EXCEPT ![c] = "drain"]
  /\ UNCHANGED <<phase, rd, wrote, os, reader, errors, peerVars, inq, outq, shut, main>>

\* The rejection is written, or shutdown cancels the write.
RejectWritten(c) ==
  /\ Serving(c)
  /\ wr[c] = "reject"
  /\ shut \/ c \notin gone
  /\ wrote' = [wrote EXCEPT ![c] = IF shut THEN @ ELSE "status"]
  /\ Join(c, rd[c], "done")
  /\ UNCHANGED <<sessVars, peerVars, inq, outq, active, shut, main>>

\* One response is written to the client.
WriteResponse(c) ==
  /\ ResponsesOpen(c)
  /\ ~shut
  /\ outq[c] # <<>>
  /\ c \notin gone
  /\ wrote' = [wrote EXCEPT ![c] = Head(outq[c])]
  /\ outq' = [outq EXCEPT ![c] = Tail(@)]
  /\ UNCHANGED <<phase, rd, wr, sessVars, peerVars, inq, active, shut, main>>

\* A write fails or takes longer than five seconds.
WriteFail(c) ==
  /\ Serving(c)
  /\ ~shut
  /\ wr[c] = "reject" \/ (wr[c] = "drain" /\ outq[c] # <<>>)
  /\ Abort(c)
  /\ UNCHANGED <<wrote, sessVars, peerVars, active, shut, main>>

\* Shutdown, or the last sender is gone and the queue is empty.
WriteStop(c) ==
  /\ ResponsesOpen(c)
  /\ shut \/ (outq[c] = <<>> /\ ~TaskLive(c))
  /\ Join(c, rd[c], "done")
  /\ outq' = [outq EXCEPT ![c] = <<>>]
  /\ UNCHANGED <<wrote, sessVars, peerVars, inq, active, shut, main>>

-----------------------------------------------------------------------------
(* The session task: initialization.                                       *)

\* Faulty variant: the early return forgets the reservation.
SpawnCheckLeaks(c) ==
  /\ task[c] = "spawned"
  /\ task' = [task EXCEPT ![c] = IF ResponsesOpen(c) /\ ~shut THEN "starting" ELSE "ended"]
  /\ UNCHANGED <<connVars, name, os, reader, errors, peerVars, inq, outq, active, shut, main>>

\* The task gives the reservation back when nobody waits for it any more.
SpawnCheck(c) ==
  /\ task[c] = "spawned"
  /\ \/ /\ ResponsesOpen(c) /\ ~shut
        /\ task' = [task EXCEPT ![c] = "starting"]
        /\ UNCHANGED <<active, inq>>
     \/ /\ ~ResponsesOpen(c) \/ shut
        /\ task' = [task EXCEPT ![c] = "ended"]
        /\ active' = active \ {name[c]}
        /\ DropIncoming(c)
  /\ UNCHANGED <<connVars, name, os, reader, errors, peerVars, outq, shut, main>>

\* SessionManager::start has created the TUN device.
StartDevice(c) ==
  /\ task[c] = "starting"
  /\ task' = [task EXCEPT ![c] = "configuring"]
  /\ UNCHANGED <<connVars, name, os, reader, errors, peerVars, inq, outq, active, shut, main>>

\* SessionManager::start fails or panics, and drops the device.  A failed
\* configuration has rolled its routes and DNS back, or left what it could
\* not undo.
StartFail(c) ==
  /\ task[c] \in {"starting", "configuring"}
  /\ task' = [task EXCEPT ![c] = "failed"]
  /\ \/ UNCHANGED os
     \/ task[c] = "configuring" /\ os' = [os EXCEPT ![c] = "residue"]
  /\ UNCHANGED <<connVars, name, reader, errors, peerVars, inq, outq, active, shut, main>>

\* Faulty variant: the failure is queued before the reservation is given back.
StartFailedSwapped(c) ==
  /\ task[c] = "failed"
  /\ task' = [task EXCEPT ![c] = "release"]
  /\ Respond(c, TrySend(outq[c], "status"))
  /\ UNCHANGED <<connVars, name, os, reader, errors, peerVars, inq, active, shut, main>>

\* Under the lock: the task gives the reservation back.
StartFailed(c) ==
  /\ task[c] = "failed"
  /\ task' = [task EXCEPT ![c] = "report"]
  /\ active' = active \ {name[c]}
  /\ UNCHANGED <<connVars, name, os, reader, errors, peerVars, inq, outq, shut, main>>

\* The failure is queued, and the task is over.
StartReport(c) ==
  /\ task[c] = "report"
  /\ task' = [task EXCEPT ![c] = "ended"]
  /\ Respond(c, TrySend(outq[c], "status"))
  /\ DropIncoming(c)
  /\ UNCHANGED <<connVars, name, os, reader, errors, peerVars, active, shut, main>>

\* The platform is configured: Started is queued and the reader spawned.
\* From here on the session goes by the device's name.
StartOk(c) ==
  /\ task[c] = "configuring"
  /\ task' = [task EXCEPT ![c] = "loop"]
  /\ name' = [name EXCEPT ![c] = KernelName[@]]
  /\ os' = [os EXCEPT ![c] = "configured"]
  /\ reader' = [reader EXCEPT ![c] = "reading"]
  /\ Respond(c, Append(outq[c], "started"))
  /\ UNCHANGED <<connVars, errors, peerVars, inq, active, shut, main>>

-----------------------------------------------------------------------------
(* The blocking TUN reader of run_session_loop.                            *)

\* read_packet returns a packet, or an error other than the interrupt.
ReaderEvent(c, e) ==
  /\ reader[c] = "reading"
  /\ reader' = [reader EXCEPT ![c] = IF e = "packet" THEN "sending" ELSE "failing"]
  /\ UNCHANGED <<connVars, task, name, os, errors, peerVars, inq, outq, active, shut, main>>

\* read_packet returns Interrupted.
ReaderInterrupted(c) ==
  /\ reader[c] = "reading"
  /\ Interrupted(c)
  /\ reader' = [reader EXCEPT ![c] = "done"]
  /\ UNCHANGED <<connVars, task, name, os, errors, peerVars, inq, outq, active, shut, main>>

\* Faulty variant: the reader goes on after a read error.
ReaderSendGoesOn(c) ==
  /\ reader[c] \in {"sending", "failing"}
  /\ ~Stopped(c) /\ ResponsesOpen(c)
  /\ Len(outq[c]) < OutCap
  /\ outq' = [outq EXCEPT ![c] = Append(@, IF reader[c] = "sending" THEN "packet" ELSE "error")]
  /\ reader' = [reader EXCEPT ![c] = "reading"]
  /\ UNCHANGED <<connVars, task, name, os, errors, peerVars, inq, active, shut, main>>

\* Faulty variant: a packet that cannot be sent any more is skipped and
\* reading goes on.
ReaderSendSkips(c) ==
  /\ reader[c] \in {"sending", "failing"}
  /\ \/ /\ Stopped(c) \/ ~ResponsesOpen(c)
        /\ reader' = [reader EXCEPT ![c] = IF @ = "sending" THEN "reading" ELSE "failed"]
        /\ UNCHANGED outq
     \/ /\ ~Stopped(c) /\ ResponsesOpen(c)
        /\ Len(outq[c]) < OutCap
        /\ outq' = [outq EXCEPT ![c] = Append(@, IF reader[c] = "sending" THEN "packet" ELSE "error")]
        /\ reader' = [reader EXCEPT ![c] = IF @ = "sending" THEN "reading" ELSE "failed"]
  /\ UNCHANGED <<connVars, task, name, os, errors, peerVars, inq, active, shut, main>>

\* send_response: the stop signal is looked at before the queue.  An error
\* ends the reader whatever becomes of its message.
ReaderSend(c) ==
  /\ reader[c] \in {"sending", "failing"}
  /\ LET packet == reader[c] = "sending"
         over   == IF packet THEN "done" ELSE "failed"
     IN  \/ /\ Stopped(c) \/ ~ResponsesOpen(c)
            /\ reader' = [reader EXCEPT ![c] = over]
            /\ UNCHANGED outq
         \/ /\ ~Stopped(c) /\ ResponsesOpen(c)
            /\ Len(outq[c]) < OutCap
            /\ outq' = [outq EXCEPT ![c] = Append(@, IF packet THEN "packet" ELSE "error")]
            /\ reader' = [reader EXCEPT ![c] = IF packet THEN "reading" ELSE over]
  /\ UNCHANGED <<connVars, task, name, os, errors, peerVars, inq, active, shut, main>>

-----------------------------------------------------------------------------
(* The session task: run_session_loop and its teardown.                    *)

\* The select! branches that come before incoming, in their biased order.
LoopOver(c) == shut \/ ~ResponsesOpen(c) \/ reader[c] \in {"done", "failed"}

\* Faulty variant: the end of the incoming messages is not noticed.
LoopStopDeaf(c) ==
  /\ task[c] = "loop"
  /\ LoopOver(c)
  /\ task' = [task EXCEPT ![c] = "closing"]
  /\ UNCHANGED <<connVars, name, os, reader, errors, peerVars, inq, outq, active, shut, main>>

\* The loop ends without looking at a message; only a reader that failed
\* makes that an error.
LoopStop(c) ==
  /\ task[c] = "loop"
  /\ LoopOver(c) \/ (inq[c] = <<>> /\ ~IncomingFed(c))
  /\ task' = [task EXCEPT ![c] = "closing"]
  /\ errors' = [errors EXCEPT ![c] =
                  IF ~shut /\ ResponsesOpen(c) /\ reader[c] = "failed" THEN 1 ELSE 0]
  /\ UNCHANGED <<connVars, name, os, reader, peerVars, inq, outq, active, shut, main>>

\* The loop takes a message: a packet is written to the device, which may
\* fail; anything else ends the session with an error.
LoopTake(c) ==
  /\ task[c] = "loop"
  /\ ~LoopOver(c)
  /\ inq[c] # <<>>
  /\ inq' = [inq EXCEPT ![c] = Tail(@)]
  /\ \/ Head(inq[c]) = "other" /\ UNCHANGED <<task, errors>>
     \/ /\ task' = [task EXCEPT ![c] = "closing"]
        /\ errors' = [errors EXCEPT ![c] = 1]
  /\ UNCHANGED <<connVars, name, os, reader, peerVars, outq, active, shut, main>>

\* session.close() interrupts the device on a blocking worker.
CloseInterrupt(c) ==
  /\ task[c] = "closing"
  /\ task' = [task EXCEPT ![c] = "cleaning"]
  /\ UNCHANGED <<connVars, name, os, reader, errors, peerVars, inq, outq, active, shut, main>>

\* The cleanup hook undoes routes and DNS, or reports what it could not undo.
CloseCleanup(c) ==
  /\ task[c] = "cleaning"
  /\ task' = [task EXCEPT ![c] = "joining"]
  /\ \/ os' = [os EXCEPT ![c] = "none"] /\ UNCHANGED errors
     \/ os' = [os EXCEPT ![c] = "residue"] /\ errors' = [errors EXCEPT ![c] = @ + 1]
  /\ UNCHANGED <<connVars, name, reader, peerVars, inq, outq, active, shut, main>>

\* The reader has been joined; the errors are offered to the client.
JoinReader(c) ==
  /\ task[c] = "joining"
  /\ ~ReaderLive(c)
  /\ task' = [task EXCEPT ![c] = "release"]
  /\ LET once == TrySend(outq[c], "error")
     IN  Respond(c, CASE errors[c] = 0 -> outq[c]
                      [] errors[c] = 1 -> once
                      [] OTHER -> TrySend(once, "error"))
  /\ UNCHANGED <<connVars, name, os, reader, errors, peerVars, inq, active, shut, main>>

\* The reservation is given back last.
Release(c) ==
  /\ task[c] = "release"
  /\ task' = [task EXCEPT ![c] = "ended"]
  /\ active' = active \ {name[c]}
  /\ DropIncoming(c)
  /\ UNCHANGED <<connVars, name, os, reader, errors, peerVars, outq, shut, main>>

-----------------------------------------------------------------------------
(* main.rs run(): stopping and draining.                                   *)

\* A signal, an IPC shutdown request, the owner's exit or a listener error
\* ends the accept loop and raises the shutdown watch.
MainStop ==
  /\ main = "accepting"
  /\ main' = "joining"
  /\ shut' = TRUE
  /\ UNCHANGED <<connVars, sessVars, peerVars, inq, outq, active>>

\* Every connection handler has been joined.
MainJoin ==
  /\ main = "joining"
  /\ \A c \in Conns : phase[c] \in {"off", "done"}
  /\ main' = "waiting"
  /\ UNCHANGED <<connVars, sessVars, peerVars, inq, outq, active, shut>>

\* wait_for_sessions found the set empty: sessions_drained=true.
MainDrained ==
  /\ main = "waiting"
  /\ active = {}
  /\ main' = "exited"
  /\ UNCHANGED <<connVars, sessVars, peerVars, inq, outq, active, shut>>

\* The four-second deadline expires: the process exits with code 1.
MainDeadline ==
  /\ DrainDeadline
  /\ main \in {"joining", "waiting"}
  /\ main' = "killed"
  /\ UNCHANGED <<connVars, sessVars, peerVars, inq, outq, active, shut>>

-----------------------------------------------------------------------------
(* The owning application.                                                 *)

\* The client closes its end of the connection.
ClientClose(c) ==
  /\ phase[c] # "off"
  /\ c \notin gone
  /\ gone' = gone \cup {c}
  /\ UNCHANGED <<connVars, sessVars, owner, inq, outq, active, shut, main>>

\* The application exits or crashes, and its descriptors close with it.
OwnerDies ==
  /\ owner
  /\ owner' = FALSE
  /\ gone' = Conns
  /\ UNCHANGED <<connVars, sessVars, inq, outq, active, shut, main>>

-----------------------------------------------------------------------------
(* The specification.                                                      *)

Running == main \notin {"exited", "killed"}

ReadStep(c) == Running /\ (ReadStop(c) \/ ReadFail(c))

WriteStep(c) ==
  /\ Running
  /\ \/ EnterCheck(c)
     \/ \E n \in Names : EnterReject(c, n) \/ EnterReserve(c, n)
     \/ RejectWritten(c)
     \/ WriteResponse(c)
     \/ WriteFail(c)
     \/ WriteStop(c)

TaskStep(c) ==
  /\ Running
  /\ \/ SpawnCheck(c)
     \/ StartDevice(c)
     \/ StartFail(c)
     \/ StartFailed(c)
     \/ StartReport(c)
     \/ StartOk(c)
     \/ LoopStop(c)
     \/ LoopTake(c)
     \/ CloseInterrupt(c)
     \/ CloseCleanup(c)
     \/ JoinReader(c)
     \/ Release(c)

ReaderStep(c) == Running /\ (ReaderInterrupted(c) \/ ReaderSend(c))

MainStep == Running /\ (((shut \/ ~owner) /\ MainStop) \/ MainJoin \/ MainDrained \/ MainDeadline)

\* What the application, the network, the device and the user do.
Environment ==
  /\ Running
  /\ \/ \E c \in Conns :
          \/ Accept(c)
          \/ HelloShutdown(c)
          \/ \E m \in {"config", "other"} : HelloSession(c, m)
          \/ \E m \in Frames : ReadFrame(c, m)
          \/ \E e \in TunEvents : ReaderEvent(c, e)
          \/ ClientClose(c)
     \/ MainStop
     \/ OwnerDies

\* The process is gone.
Terminated == ~Running /\ UNCHANGED vars

Next ==
  \/ \E c \in Conns :
       \/ Running /\ HelloOver(c)
       \/ ReadStep(c)
       \/ WriteStep(c)
       \/ TaskStep(c)
       \/ ReaderStep(c)
  \/ MainStep
  \/ Environment
  \/ Terminated

\* The Tokio runtime polls every woken future, its timers fire, and the
\* operating system calls of start and close return.
Fairness ==
  /\ \A c \in Conns :
       /\ WF_vars(Running /\ HelloOver(c))
       /\ WF_vars(ReadStep(c))
       /\ WF_vars(WriteStep(c))
       /\ WF_vars(TaskStep(c))
       /\ WF_vars(ReaderStep(c))
  /\ WF_vars(MainStep)

Spec == Init /\ [][Next]_vars

FairSpec == Spec /\ Fairness

-----------------------------------------------------------------------------
(* Safety.                                                                 *)

\* active_sessions holds exactly the names of the sessions whose task is
\* between its reservation and the end of its teardown, and no two of them
\* share a name: no path through session() or run_session_loop leaks a
\* reservation or frees somebody else's.
ReservationsExact ==
  /\ active = {name[c] : c \in {d \in Conns : Reserved(d)}}
  /\ \A c, d \in Conns : Reserved(c) /\ Reserved(d) /\ c # d => name[c] # name[d]

\* A TUN device, its reader and the routes and DNS behind it exist only under
\* a reservation of the device's own name, so a second session cannot
\* configure an interface that is still being torn down.
OsUnderReservation ==
  \A c \in Conns : DeviceLive(c) \/ os[c] = "configured" =>
    /\ Reserved(c)
    /\ KernelName[name[c]] \in active

\* No interleaving of session() calls passes MAX_ACTIVE_SESSIONS.
WithinLimit == Cardinality(active) <= MaxSessions

\* sessions_drained=true is only logged when no handler, reader or platform
\* configuration is left and no task has more to do than to report a failed
\* start, and nothing can start any more.
CleanExit ==
  main = "exited" => \A c \in Conns :
    /\ phase[c] \in {"off", "done"}
    /\ ~Reserved(c) /\ ~ReaderLive(c)
    /\ os[c] # "configured"

\* The responses that may come right after m in a session.
Follows(m) ==
  CASE m = "none" -> {"started", "status"}
    [] m = "status" -> {}
    [] m = "error" -> {"error"}
    [] OTHER -> {"packet", "error"}

\* The client sees Started or a refusal first, then packets, and errors only
\* at the end: the errors of run_session_loop wait for the reader to be joined.
ResponseOrder ==
  \A c \in Conns :
    LET q == <<wrote[c]>> \o outq[c]
    IN  \A i \in 1 .. Len(outq[c]) : q[i + 1] \in Follows(q[i])

\* A client that learns its start failed, or whose answer is queued, can
\* retry at once: its name is free, or another session's by now.
FailureAfterRelease ==
  \A c \in Conns :
    wrote[c] = "status" \/ (\E i \in 1 .. Len(outq[c]) : outq[c][i] = "status")
      => (name[c] \in active => \E d \in Conns \ {c} : Reserved(d) /\ name[d] = name[c])

\* The interfaces that exist in the operating system.
Built == {name[c] : c \in {d \in Conns : DeviceLive(d) \/ os[d] = "configured"}}

Registry == INSTANCE SessionRegistry WITH
  Interfaces <- Names,
  Limit <- MaxSessions,
  held <- active,
  built <- Built,
  status <- CASE main = "exited" -> "drained" [] main = "killed" -> "killed" [] OTHER -> "serving"

\* The daemon implements the registry: no interleaving of handlers, tasks and
\* readers builds an interface twice, gives it back while it exists, or
\* exits cleanly while one is held.
ImplementsRegistry == Registry!Spec

-----------------------------------------------------------------------------
(* Liveness, under FairSpec.                                               *)

\* A client that goes away, however far its session has come, leaves no
\* session, device or reservation behind.
ClientGoneReleases ==
  \A c \in Conns : c \in gone ~>
    (~Running \/ (phase[c] \in {"off", "done"} /\ ~TaskLive(c) /\ ~ReaderLive(c)))

\* Once shutdown is asked for or the owner dies, the daemon drains and exits
\* without needing its deadline, as long as the operating system answers.
ShutdownDrains == shut \/ ~owner ~> main = "exited"

\* Every opened session is answered: Started, an error, or a closed stream.
OpenAnswered ==
  \A c \in Conns : Serving(c) ~> (~Running \/ wrote[c] # "none" \/ wr[c] = "done")
=============================================================================
