----------------------------- MODULE CommandRun -----------------------------
(***************************************************************************)
(* command_output of platform/mod.rs: a blocking worker runs a tool of the *)
(* operating system, feeds its standard input and collects both outputs    *)
(* through bounded pipes, under a deadline.  The tool may read, write,     *)
(* close its ends, leave a helper behind that keeps some of them, exit or  *)
(* do nothing at all.  Pipes and captures are counted in chunks.           *)
(***************************************************************************)
EXTENDS Integers, FiniteSets

CONSTANTS
  Payloads,    \* sizes of the input that calls pass; NoInput for none
  PipeCap,     \* capacity of a pipe
  OutputCap,   \* MAX_COMMAND_OUTPUT_BYTES
  MaxWritten   \* bound: chunks that the tool and its helper write to an output

NoInput == -1
Outputs == {"stdout", "stderr"}
Ends == Outputs \cup {"stdin"}
Futures == Ends \cup {"wait"}

ASSUME CommandAssumption ==
  /\ Payloads \subseteq Nat \cup {NoInput}
  /\ PipeCap \in Nat \ {0} /\ OutputCap \in Nat /\ MaxWritten \in Nat

VARIABLES
  cmdPc,     \* of the worker: where it is in command_output
  unsent,    \* input not yet accepted by the pipe
  stdin,     \* chunks in the input pipe
  pipe,      \* per output: chunks in its pipe
  captured,  \* per output: chunks kept by read_capped
  joined,    \* futures of try_join! that are ready
  child,     \* the tool: none, running, dying (killed), zombie, reaped
  fate,      \* how it ended
  holds,     \* ends of the pipes that the tool and its helper hold
  written,   \* history: chunks written to each output
  result     \* what the worker got

commandVars == <<cmdPc, unsent, stdin, pipe, captured, joined, child, fate, holds, written, result>>

Processes == {"tool", "helper"}
Holders(e) == {p \in Processes : e \in holds[p]}
NoChunks == [s \in Outputs |-> 0]
Idle == [p \in Processes |-> {}]

CommandInit ==
  /\ cmdPc = "idle"
  /\ unsent = 0 /\ stdin = 0
  /\ pipe = NoChunks /\ captured = NoChunks /\ written = NoChunks
  /\ joined = {}
  /\ child = "none" /\ fate = "none"
  /\ holds = Idle
  /\ result = "none"

-----------------------------------------------------------------------------
(* The worker.                                                             *)

\* spawn: without input the tool has no pipe on stdin.  A helper of an
\* earlier call holds other pipes than these.
Spawn(n) ==
  /\ cmdPc = "idle"
  /\ cmdPc' = "supervise"
  /\ unsent' = IF n = NoInput THEN 0 ELSE n
  /\ stdin' = 0
  /\ pipe' = NoChunks /\ captured' = NoChunks /\ written' = NoChunks
  /\ joined' = IF n = NoInput THEN {"stdin"} ELSE {}
  /\ child' = "running" /\ fate' = "none"
  /\ holds' = [Idle EXCEPT !["tool"] = IF n = NoInput THEN Outputs ELSE Ends]
  /\ result' = "none"

\* The tool cannot be started.
SpawnFail ==
  /\ cmdPc = "idle"
  /\ cmdPc' = "returned" /\ result' = "error"
  /\ child' = "none"
  /\ UNCHANGED <<unsent, stdin, pipe, captured, joined, fate, holds, written>>

Supervising(f) == cmdPc = "supervise" /\ f \notin joined

\* The first future that fails, or the deadline, ends try_join!, and with it
\* the worker's ends of the pipes are closed.
GiveUp ==
  /\ cmdPc' = "kill"
  /\ UNCHANGED <<unsent, stdin, pipe, captured, joined, child, fate, holds, written, result>>

\* write_all puts a chunk into the pipe, as far as it has room.
WriteInput ==
  /\ Supervising("stdin")
  /\ unsent > 0 /\ stdin < PipeCap /\ Holders("stdin") # {}
  /\ unsent' = unsent - 1 /\ stdin' = stdin + 1
  /\ UNCHANGED <<cmdPc, pipe, captured, joined, child, fate, holds, written, result>>

\* All input is written, and the handle is dropped.
InputDone ==
  /\ Supervising("stdin")
  /\ unsent = 0
  /\ joined' = joined \cup {"stdin"}
  /\ UNCHANGED <<cmdPc, unsent, stdin, pipe, captured, child, fate, holds, written, result>>

\* Nobody holds the reading end any more.
InputBroken ==
  /\ Supervising("stdin")
  /\ unsent > 0 /\ Holders("stdin") = {}
  /\ GiveUp

\* read_capped takes a chunk, and keeps it if the cap allows.
ReadOutput(s) ==
  /\ Supervising(s)
  /\ pipe[s] > 0
  /\ pipe' = [pipe EXCEPT ![s] = @ - 1]
  /\ captured' = [captured EXCEPT ![s] = IF @ < OutputCap THEN @ + 1 ELSE @]
  /\ UNCHANGED <<cmdPc, unsent, stdin, joined, child, fate, holds, written, result>>

\* Faulty variant: an empty pipe is over once the tool has exited.
ReadEofAtExit(s) ==
  /\ Supervising(s)
  /\ pipe[s] = 0 /\ child # "running"
  /\ joined' = joined \cup {s}
  /\ UNCHANGED <<cmdPc, unsent, stdin, pipe, captured, child, fate, holds, written, result>>

\* read_capped reaches the end: the pipe is empty and nobody can fill it.
ReadEof(s) ==
  /\ Supervising(s)
  /\ pipe[s] = 0 /\ Holders(s) = {}
  /\ joined' = joined \cup {s}
  /\ UNCHANGED <<cmdPc, unsent, stdin, pipe, captured, child, fate, holds, written, result>>

\* child.wait().
Wait ==
  /\ Supervising("wait")
  /\ child = "zombie"
  /\ child' = "reaped"
  /\ joined' = joined \cup {"wait"}
  /\ UNCHANGED <<cmdPc, unsent, stdin, pipe, captured, fate, holds, written, result>>

\* All four futures are ready; run_command looks at the exit status, and for
\* failures that its caller ignores at the outputs.
Finish ==
  /\ cmdPc = "supervise" /\ joined = Futures
  /\ cmdPc' = "returned"
  /\ result' \in IF fate = "success" THEN {"ok"} ELSE {"error", "ignored"}
  /\ UNCHANGED <<unsent, stdin, pipe, captured, joined, child, fate, holds, written>>

\* The deadline passes, or a pipe or the wait fails.
Deadline ==
  /\ cmdPc = "supervise" /\ joined # Futures
  /\ GiveUp

\* start_kill, which does nothing to a tool that has exited, and may fail: a
\* tool that runs is then left alone, and the wait has no deadline.
StartKill ==
  /\ cmdPc = "kill"
  /\ cmdPc' = "reap"
  /\ child' \in IF child = "running" THEN {"dying", "running"} ELSE {child}
  /\ UNCHANGED <<unsent, stdin, pipe, captured, joined, fate, holds, written, result>>

\* Faulty variant: the outputs are drained before the call returns.
ReapAndDrain ==
  /\ cmdPc = "reap" /\ child \in {"zombie", "reaped"}
  /\ \A s \in Outputs : Holders(s) = {}
  /\ cmdPc' = "returned" /\ result' = "error"
  /\ child' = "reaped"
  /\ UNCHANGED <<unsent, stdin, pipe, captured, joined, fate, holds, written>>

\* child.wait() once more, without the pipes.
Reap ==
  /\ cmdPc = "reap" /\ child \in {"zombie", "reaped"}
  /\ cmdPc' = "returned" /\ result' = "error"
  /\ child' = "reaped"
  /\ UNCHANGED <<unsent, stdin, pipe, captured, joined, fate, holds, written>>

\* The wait fails, and the error says so.  The tool is killed again, as far
\* as that succeeds, when `child` is dropped (kill_on_drop).
ReapFail ==
  /\ cmdPc = "reap" /\ child # "reaped"
  /\ cmdPc' = "returned" /\ result' = "unreaped"
  /\ child' \in IF child = "running" THEN {"dying", "running"} ELSE {child}
  /\ UNCHANGED <<unsent, stdin, pipe, captured, joined, fate, holds, written>>

\* The caller goes on, to its next command.
RunReturn ==
  /\ cmdPc = "returned"
  /\ cmdPc' = "idle"
  /\ UNCHANGED <<unsent, stdin, pipe, captured, joined, child, fate, holds, written, result>>

-----------------------------------------------------------------------------
(* The tool and its helper.                                                *)

\* A chunk of input is read.
Consume(p) ==
  /\ "stdin" \in holds[p] /\ stdin > 0
  /\ stdin' = stdin - 1
  /\ UNCHANGED <<cmdPc, unsent, pipe, captured, joined, child, fate, holds, written, result>>

\* A chunk of output is written while the worker reads: into a pipe with
\* room, or else the writer waits.
Produce(p, s) ==
  /\ s \in holds[p] /\ Supervising(s)
  /\ pipe[s] < PipeCap /\ written[s] < MaxWritten
  /\ pipe' = [pipe EXCEPT ![s] = @ + 1]
  /\ written' = [written EXCEPT ![s] = @ + 1]
  /\ UNCHANGED <<cmdPc, unsent, stdin, captured, joined, child, fate, holds, result>>

\* An end is closed; a helper that exits closes the last of its own.
CloseEnd(p, e) ==
  /\ e \in holds[p]
  /\ holds' = [holds EXCEPT ![p] = @ \ {e}]
  /\ UNCHANGED <<cmdPc, unsent, stdin, pipe, captured, joined, child, fate, written, result>>

\* The tool leaves a helper behind that inherits some ends.
Fork(inherited) ==
  /\ child = "running" /\ holds["helper"] = {}
  /\ inherited # {} /\ inherited \subseteq holds["tool"]
  /\ holds' = [holds EXCEPT !["helper"] = inherited]
  /\ UNCHANGED <<cmdPc, unsent, stdin, pipe, captured, joined, child, fate, written, result>>

\* The tool exits, of its own accord or because it was killed.
ToolExit ==
  /\ child \in {"running", "dying"}
  /\ fate' \in IF child = "dying" THEN {"killed"} ELSE {"success", "failure"}
  /\ child' = "zombie"
  /\ holds' = [holds EXCEPT !["tool"] = {}]
  /\ UNCHANGED <<cmdPc, unsent, stdin, pipe, captured, joined, written, result>>

-----------------------------------------------------------------------------
CommandStep ==
  \/ WriteInput \/ InputDone \/ InputBroken
  \/ \E s \in Outputs : ReadOutput(s) \/ ReadEof(s)
  \/ Wait \/ Finish \/ Deadline \/ StartKill \/ Reap \/ ReapFail

CommandNext ==
  \/ \E n \in Payloads : Spawn(n)
  \/ SpawnFail \/ RunReturn
  \/ CommandStep
  \/ \E p \in Processes :
       \/ Consume(p)
       \/ \E s \in Outputs : Produce(p, s)
       \/ \E e \in Ends : CloseEnd(p, e)
  \/ \E inherited \in SUBSET Ends : Fork(inherited)
  \/ ToolExit

CommandSpec == CommandInit /\ [][CommandNext]_commandVars

\* The runtime polls what is ready and its timer fires; a killed tool dies.
\* Nothing is assumed of a tool that runs.
CommandFairness ==
  /\ WF_commandVars(Finish \/ Deadline \/ StartKill \/ Reap)
  /\ WF_commandVars(child = "dying" /\ ToolExit)

-----------------------------------------------------------------------------
\* The system would not kill the tool, and the worker waits for it.
Unkillable == cmdPc = "reap" /\ child = "running"

\* Every call of run_command returns: a tool that neither reads nor exits,
\* that floods its outputs, or whose helper keeps the pipes open cannot hold
\* the worker past the deadline, unless the system refuses to kill it.
CommandReturns == cmdPc # "idle" ~> cmdPc = "returned" \/ Unkillable

\* A command that is reported as done, or whose failure is ignored, has done
\* all it will do: its pipe took all of the input, and what is captured, and
\* searched for the failure, is all that the tool and its helpers wrote, up
\* to the cap.  However a call ends, the tool has been reaped, or the error
\* says that it could not be.
SuccessIsWhole ==
  cmdPc = "returned" =>
    /\ result # "unreaped" => child \in {"none", "reaped"}
    /\ result = "ok" => fate = "success"
    /\ result \in {"ok", "ignored"} =>
         /\ child = "reaped"
         /\ unsent = 0
         /\ \A s \in Outputs :
              /\ Holders(s) = {}
              /\ captured[s] = IF written[s] < OutputCap THEN written[s] ELSE OutputCap
=============================================================================
