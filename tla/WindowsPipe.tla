---------------------------- MODULE WindowsPipe ----------------------------
(***************************************************************************)
(* WindowsPipeConnection: overlapped I/O on one named-pipe handle by       *)
(* several threads, and a close that may come at any moment.  The lock     *)
(* `lifecycle' covers a thread's registration with the start of its        *)
(* transfer, its deregistration, and close; waiting happens outside it.    *)
(***************************************************************************)
EXTENDS Integers, FiniteSets

CONSTANTS
  Threads,   \* threads that call transfer
  Timed      \* those whose wait has a timeout: writers, and bounded reads

ASSUME ThreadsAssumption == IsFiniteSet(Threads) /\ Timed \subseteq Threads

VARIABLES
  handle,    \* of the pipe: not opened yet, open, closed
  closes,    \* CloseHandle calls on it
  closed,    \* WindowsPipeConnection.closed
  activeIo,  \* WindowsPipeConnection.activeIo
  pipePc,        \* per thread: where it is in transfer
  io,        \* per thread: the kernel's view of its overlapped request
  cancel     \* threads whose request has been cancelled

pipeVars == <<handle, closes, closed, activeIo, pipePc, io, cancel>>

\* Every variable has the type the Kotlin fields give it.
PipeTypeOK ==
  /\ handle \in {"none", "open", "closed"}
  /\ closes \in Nat
  /\ closed \in BOOLEAN
  /\ activeIo \in Nat
  /\ pipePc \in [Threads -> {"idle", "ready", "wait", "abandon", "result", "finally"}]
  /\ io \in [Threads -> {"none", "pending", "done"}]
  /\ cancel \subseteq Threads

PipeInit ==
  /\ handle = "none"
  /\ closes = 0
  /\ closed = FALSE
  /\ activeIo = 0
  /\ pipePc = [t \in Threads |-> "idle"]
  /\ io = [t \in Threads |-> "none"]
  /\ cancel = {}

PipeGoto(t, l) == pipePc' = [pipePc EXCEPT ![t] = l]

\* Threads between activeIo++ and activeIo--.
Registered == {t \in Threads : pipePc[t] \in {"wait", "abandon", "result", "finally"}}

\* Threads whose OVERLAPPED and buffer are allocated: Memory.use has not
\* released them yet.
Allocated == {t \in Threads : pipePc[t] \in {"ready", "wait", "abandon", "result"}}

CloseHandle == handle' = "closed" /\ closes' = closes + 1

-----------------------------------------------------------------------------
\* connect: CreateFile succeeds, at once or after WaitNamedPipe, and the
\* server is the launched daemon; otherwise the handle is closed again.
OpenPipe ==
  /\ handle = "none"
  /\ \/ handle' = "open" /\ UNCHANGED <<closes, closed>>
     \/ CloseHandle /\ closed' = TRUE
  /\ UNCHANGED <<activeIo, pipePc, io, cancel>>

\* A thread enters transfer and allocates its event, OVERLAPPED and buffer.
Enter(t) ==
  /\ handle # "none"
  /\ pipePc[t] = "idle"
  /\ PipeGoto(t, "ready")
  /\ UNCHANGED <<handle, closes, closed, activeIo, io, cancel>>

\* Under the lock: the connection is closed, and the thread never registers.
Refuse(t) ==
  /\ pipePc[t] = "ready"
  /\ closed
  /\ PipeGoto(t, "idle")
  /\ UNCHANGED <<handle, closes, closed, activeIo, io, cancel>>

\* Under the lock: the thread registers and starts its ReadFile or WriteFile,
\* which completes, stays pending, or fails on the spot.
Issue(t) ==
  /\ pipePc[t] = "ready"
  /\ ~closed
  /\ activeIo' = activeIo + 1
  /\ \/ PipeGoto(t, "wait") /\ \E s \in {"pending", "done"} : io' = [io EXCEPT ![t] = s]
     \/ PipeGoto(t, "finally") /\ UNCHANGED io
  /\ UNCHANGED <<handle, closes, closed, cancel>>

\* WaitForSingleObject sees the event of a finished request.
Signalled(t) ==
  /\ pipePc[t] = "wait"
  /\ io[t] = "done"
  /\ PipeGoto(t, "result")
  /\ UNCHANGED <<handle, closes, closed, activeIo, io, cancel>>

\* Faulty variant: the request is cancelled but not waited for.
TransferTimeoutGoesOn(t) ==
  /\ pipePc[t] = "wait"
  /\ t \in Timed
  /\ cancel' = cancel \cup {t}
  /\ PipeGoto(t, "finally")
  /\ UNCHANGED <<handle, closes, closed, activeIo, io>>

\* WaitForSingleObject times out (or fails); the thread cancels its request.
TransferTimeout(t) ==
  /\ pipePc[t] = "wait"
  /\ t \in Timed
  /\ cancel' = IF io[t] = "pending" THEN cancel \cup {t} ELSE cancel
  /\ PipeGoto(t, "abandon")
  /\ UNCHANGED <<handle, closes, closed, activeIo, io>>

\* GetOverlappedResult(wait = true) returns once the request is over.
Abandon(t) ==
  /\ pipePc[t] = "abandon"
  /\ io[t] = "done"
  /\ PipeGoto(t, "result")
  /\ UNCHANGED <<handle, closes, closed, activeIo, io, cancel>>

\* The result is copied or an exception thrown; the buffer goes with it.
Result(t) ==
  /\ pipePc[t] = "result"
  /\ PipeGoto(t, "finally")
  /\ io' = [io EXCEPT ![t] = "none"]
  /\ cancel' = cancel \ {t}
  /\ UNCHANGED <<handle, closes, closed, activeIo>>

\* Faulty variant: the last transfer of a closed connection forgets the handle.
LeaveTransferOnly(t) ==
  /\ pipePc[t] = "finally"
  /\ activeIo' = activeIo - 1
  /\ PipeGoto(t, "idle")
  /\ UNCHANGED <<handle, closes, closed, io, cancel>>

\* Under the lock: the last transfer out of a closed connection closes it.
LeaveTransfer(t) ==
  /\ pipePc[t] = "finally"
  /\ activeIo' = activeIo - 1
  /\ IF closed /\ activeIo = 1 THEN CloseHandle ELSE UNCHANGED <<handle, closes>>
  /\ PipeGoto(t, "idle")
  /\ UNCHANGED <<closed, io, cancel>>

\* Under the lock: close cancels what is pending and leaves the handle to the
\* last transfer, if there is one.
ClosePipe ==
  /\ handle # "none"
  /\ ~closed
  /\ closed' = TRUE
  /\ cancel' = cancel \cup {t \in Threads : io[t] = "pending"}
  /\ IF activeIo = 0 THEN CloseHandle ELSE UNCHANGED <<handle, closes>>
  /\ UNCHANGED <<activeIo, pipePc, io>>

\* The kernel finishes a request: the daemon reads or writes, the pipe breaks.
Complete(t) ==
  /\ io[t] = "pending"
  /\ io' = [io EXCEPT ![t] = "done"]
  /\ UNCHANGED <<handle, closes, closed, activeIo, pipePc, cancel>>

\* The kernel finishes a request that was cancelled.
Cancelled(t) == t \in cancel /\ Complete(t)

-----------------------------------------------------------------------------
ThreadStep(t) ==
  \/ Refuse(t)
  \/ Issue(t)
  \/ Signalled(t)
  \/ TransferTimeout(t)
  \/ Abandon(t)
  \/ Result(t)
  \/ LeaveTransfer(t)

PipeNext ==
  \/ OpenPipe
  \/ ClosePipe
  \/ \E t \in Threads : Enter(t) \/ ThreadStep(t) \/ Complete(t)

PipeSpec == PipeInit /\ [][PipeNext]_pipeVars

\* Threads run, and the kernel answers a CancelIoEx.
PipeFairness == \A t \in Threads : WF_pipeVars(ThreadStep(t)) /\ WF_pipeVars(Cancelled(t))

PipeFairSpec == PipeSpec /\ PipeFairness

-----------------------------------------------------------------------------
\* No thread hands the kernel a closed handle: from its registration to its
\* deregistration the handle of transfer is open, whatever close does.
HandleOpenInTransfer == Registered # {} => handle = "open"

\* CloseHandle is called at most once, and only on behalf of close or of a
\* connection that was turned down.
ClosedOnce == closes <= 1 /\ (handle = "closed" => closed /\ closes = 1)

\* The kernel never holds a request whose OVERLAPPED and buffer are released:
\* a timed-out transfer waits for its cancellation before it returns.
BufferOutlivesRequest == \A t \in Threads : io[t] = "pending" => t \in Allocated

\* A transfer is safe for the kernel and for the process, though close and
\* timeouts come at any moment: its handle stays open and its buffer
\* allocated for as long as the kernel may use them.
TransferIsSafe == HandleOpenInTransfer /\ BufferOutlivesRequest

\* close always releases the handle in the end, though readers may be waiting
\* without a timeout when it comes.
CloseReleases == closed ~> handle = "closed"
=============================================================================
