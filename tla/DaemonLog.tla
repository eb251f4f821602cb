----------------------------- MODULE DaemonLog ------------------------------
(***************************************************************************)
(* Logger of logging.rs: threads hand lines to one writer thread through a *)
(* bounded queue.  The writer's file or pipe may stop taking data for good *)
(* (an application that does not read the daemon's output) or fail.  The   *)
(* flush of a thread is its last call, as in main.                         *)
(***************************************************************************)
EXTENDS Integers, Sequences

CONSTANTS
  Loggers,  \* threads that log
  QueueCap  \* messages the queue holds: 256 in the code

ASSUME LogAssumption == QueueCap \in Nat \ {0}

VARIABLES
  logPc,   \* each thread: logging, waiting for its flush, or returned
  queue,   \* "line", or the thread that waits for a flush
  writer,  \* writing, or gone after an error
  done     \* threads whose flush the writer has answered

logVars == <<logPc, queue, writer, done>>

LogInit ==
  /\ logPc = [t \in Loggers |-> "logging"]
  /\ queue = <<>> /\ writer = "writing" /\ done = {}

HasRoom == writer = "writing" /\ Len(queue) < QueueCap

\* log: try_send, whose result is ignored.
Log(t) ==
  /\ logPc[t] = "logging"
  /\ queue' = IF HasRoom THEN Append(queue, "line") ELSE queue
  /\ UNCHANGED <<logPc, writer, done>>

\* flush: with room in the queue the thread waits for an answer.
Flush(t) ==
  /\ logPc[t] = "logging"
  /\ queue' = IF HasRoom THEN Append(queue, t) ELSE queue
  /\ logPc' = [logPc EXCEPT ![t] = IF HasRoom THEN "waiting" ELSE "returned"]
  /\ UNCHANGED <<writer, done>>

\* Faulty variant: recv in place of recv_timeout.
FlushReturnsAnswered(t) ==
  /\ logPc[t] = "waiting" /\ (t \in done \/ writer = "gone")
  /\ logPc' = [logPc EXCEPT ![t] = "returned"]
  /\ UNCHANGED <<queue, writer, done>>

\* recv_timeout: the answer, the end of the writer, or 500 ms.
FlushReturns(t) ==
  /\ logPc[t] = "waiting"
  /\ logPc' = [logPc EXCEPT ![t] = "returned"]
  /\ UNCHANGED <<queue, writer, done>>

\* The writer thread takes a message: a line, or a flush to answer.
WriteMessage ==
  /\ writer = "writing" /\ queue # <<>>
  /\ done' = IF Head(queue) \in Loggers THEN done \cup {Head(queue)} ELSE done
  /\ queue' = Tail(queue)
  /\ UNCHANGED <<logPc, writer>>

\* A line cannot be written: the thread ends, and the queue with it.
WriteFail ==
  /\ writer = "writing" /\ queue # <<>> /\ Head(queue) = "line"
  /\ writer' = "gone" /\ queue' = <<>>
  /\ UNCHANGED <<logPc, done>>

LogNext ==
  \/ \E t \in Loggers : Log(t) \/ Flush(t) \/ FlushReturns(t)
  \/ WriteMessage \/ WriteFail

\* A timeout expires; nothing is asked of the writer.
LogFairness == \A t \in Loggers : WF_logVars(FlushReturns(t))

-----------------------------------------------------------------------------
\* A thread that flushes gets on, though the writer may never take another
\* message ("logging must never hold up network cleanup or process exit").
LogReturns == \A t \in Loggers : logPc[t] = "waiting" ~> logPc[t] = "returned"
=============================================================================
