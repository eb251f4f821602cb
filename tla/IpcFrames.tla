----------------------------- MODULE IpcFrames ------------------------------
(***************************************************************************)
(* One direction of a connection: write_frame and read_frame of ipc/mod.rs *)
(* and IpcProtocol.kt over a stream that takes and gives as many bytes at  *)
(* a time as it likes.  Either side may stop in the middle of a frame: the *)
(* daemon's writes have a timeout, its reads are dropped by a select!, and *)
(* the application closes its connection under both of its loops.          *)
(*                                                                         *)
(* A message is its encoding, a sequence of bytes below Base; what one     *)
(* side encodes the other decodes.                                         *)
(***************************************************************************)
EXTENDS Integers, Sequences

CONSTANTS
  Base,         \* values of a byte: 256 in the code
  HeaderSize,   \* bytes of the length: 4
  MaxFrameSize, \* MAX_FRAME_SIZE
  Encodings,    \* messages that a side may want to send
  StreamCap,    \* bytes that the stream holds
  MaxFrames     \* bound: messages written

\* What one counts for in a byte with i bytes after it: Base^i.
Weight[i \in Nat] == IF i = 0 THEN 1 ELSE Base * Weight[i - 1]

ASSUME FrameAssumption ==
  /\ Base \in Nat \ {0, 1} /\ HeaderSize \in Nat \ {0} /\ MaxFrameSize \in Nat
  /\ MaxFrameSize < Weight[HeaderSize]
  /\ \A m \in Encodings : m \in Seq(0 .. Base - 1)
  /\ StreamCap \in Nat \ {0} /\ MaxFrames \in Nat

VARIABLES
  side,      \* who reads: daemon or application
  wrPc,      \* the writer: between frames, in one, or closed
  current,   \* the message it writes
  unwritten, \* bytes of the frame that the stream has not taken
  stream,    \* bytes on their way
  rdPc,      \* the reader: before a frame, in its header or body, or ended
  partial,   \* bytes it has of the header or body
  size,      \* the length it has read
  whole,     \* history: messages written to the last byte
  received   \* messages read

frameVars == <<side, wrPc, current, unwritten, stream, rdPc, partial, size, whole, received>>

FramesInit ==
  /\ side \in {"daemon", "application"}
  /\ wrPc = "idle" /\ current = <<>> /\ unwritten = <<>>
  /\ stream = <<>>
  /\ rdPc = "first" /\ partial = <<>> /\ size = 0
  /\ whole = <<>> /\ received = <<>>

-----------------------------------------------------------------------------
\* to_be_bytes, writeInt; from_be_bytes, readInt.
Header(n) == [i \in 1 .. HeaderSize |-> (n \div Weight[HeaderSize - i]) % Base]
Length(header) ==
  LET value[i \in 0 .. HeaderSize] ==
        IF i = 0 THEN 0 ELSE value[i - 1] * Base + header[i] IN
  value[HeaderSize]

ValidLength(n) == n \in 1 .. MaxFrameSize

\* write_frame and writeFrame: a length that is not allowed is an error
\* before anything is written, and ends the connection.
WriteFrame(m) ==
  /\ wrPc = "idle" /\ Len(whole) < MaxFrames
  /\ IF ValidLength(Len(m))
       THEN wrPc' = "writing" /\ current' = m /\ unwritten' = Header(Len(m)) \o m
       ELSE wrPc' = "closed" /\ UNCHANGED <<current, unwritten>>
  /\ UNCHANGED <<side, stream, rdPc, partial, size, whole, received>>

\* write_all: the stream takes n bytes.
WriteBytes(n) ==
  /\ wrPc = "writing" /\ n \in 1 .. Len(unwritten) /\ Len(stream) + n <= StreamCap
  /\ stream' = stream \o SubSeq(unwritten, 1, n)
  /\ unwritten' = SubSeq(unwritten, n + 1, Len(unwritten))
  /\ IF n = Len(unwritten)
       THEN wrPc' = "idle" /\ whole' = Append(whole, current)
       ELSE UNCHANGED <<wrPc, whole>>
  /\ UNCHANGED <<side, current, rdPc, partial, size, received>>

\* Faulty variant: a frame that timed out is given up for the next one.
StopWritingGoesOn ==
  /\ wrPc \in {"idle", "writing"}
  /\ wrPc' = IF wrPc = "writing" THEN "idle" ELSE "closed"
  /\ unwritten' = <<>>
  /\ UNCHANGED <<side, current, stream, rdPc, partial, size, whole, received>>

\* A timeout, an error of the stream, the shutdown or a close ends the writer
\* and with it the connection, in the middle of a frame or not.
StopWriting ==
  /\ wrPc \in {"idle", "writing"}
  /\ wrPc' = "closed"
  /\ UNCHANGED <<side, current, unwritten, stream, rdPc, partial, size, whole, received>>

-----------------------------------------------------------------------------
\* The stream has ended: the writer is gone and its bytes are read.
AtEnd == wrPc = "closed" /\ stream = <<>>

\* The reader begins with one byte, or finds the end of the stream, which is
\* an exception to the application.
ReadFirst ==
  /\ rdPc = "first"
  /\ \/ /\ stream # <<>>
        /\ partial' = <<Head(stream)>> /\ stream' = Tail(stream)
        /\ rdPc' = "header"
     \/ /\ AtEnd
        /\ rdPc' = IF side = "daemon" THEN "ended" ELSE "failed"
        /\ UNCHANGED <<partial, stream>>
  /\ UNCHANGED <<side, wrPc, current, unwritten, size, whole, received>>

\* read_exact, readInt and readFully take n bytes of the header or the body.
ReadBytes(n) ==
  LET missing == (IF rdPc = "header" THEN HeaderSize ELSE size) - Len(partial) IN
  /\ rdPc \in {"header", "body"}
  /\ n \in 1 .. Len(stream) /\ n <= missing
  /\ partial' = partial \o SubSeq(stream, 1, n)
  /\ stream' = SubSeq(stream, n + 1, Len(stream))
  /\ UNCHANGED <<side, wrPc, current, unwritten, rdPc, size, whole, received>>

\* The header is complete: its length is looked at.
ReadHeader ==
  /\ rdPc = "header" /\ Len(partial) = HeaderSize
  /\ size' = Length(partial)
  /\ partial' = <<>>
  /\ rdPc' = IF ValidLength(size') THEN "body" ELSE "refused"
  /\ UNCHANGED <<side, wrPc, current, unwritten, stream, whole, received>>

\* The body is complete: the message is decoded.
ReadBody ==
  /\ rdPc = "body" /\ Len(partial) = size
  /\ received' = Append(received, partial)
  /\ partial' = <<>>
  /\ rdPc' = "first"
  /\ UNCHANGED <<side, wrPc, current, unwritten, stream, size, whole>>

\* The stream ends within a frame; or, anywhere, a timeout, the shutdown or
\* a close takes the reader away.
ReadFail ==
  /\ rdPc \in {"first", "header", "body"}
  /\ rdPc' = "failed"
  /\ UNCHANGED <<side, wrPc, current, unwritten, stream, partial, size, whole, received>>

FramesNext ==
  \/ \E m \in Encodings : WriteFrame(m)
  \/ \E n \in 1 .. StreamCap : WriteBytes(n) \/ ReadBytes(n)
  \/ StopWriting \/ ReadFirst \/ ReadHeader \/ ReadBody \/ ReadFail

FramesSpec == FramesInit /\ [][FramesNext]_frameVars

-----------------------------------------------------------------------------
\* However the stream cuts the bytes and wherever a side stops, the reader
\* gets the messages that were written, whole and in order, never meets a
\* length it must refuse, and takes a connection for ended only at the end
\* of a frame, with nothing missing (server.rs takes such an end before the
\* first message for a readiness probe).
FramesAreWhole ==
  /\ Len(received) <= Len(whole) /\ received = SubSeq(whole, 1, Len(received))
  /\ rdPc # "refused"
  /\ rdPc = "ended" =>
       received = whole /\ unwritten \in {<<>>, Header(Len(current)) \o current}
=============================================================================
