---------------------------- MODULE RoutingSocket ----------------------------
(***************************************************************************)
(* exchange of endpoint_macos.rs: one request to the kernel over a routing *)
(* socket of its own, and the search for its reply.  Every open routing    *)
(* socket gets every message: replies to the other workers of this daemon, *)
(* to other processes, and notices of other kinds.  A message that finds a *)
(* socket's buffer full is lost for that socket.                           *)
(***************************************************************************)
EXTENDS Integers, Sequences

CONSTANTS
  Workers,      \* blocking workers that configure or clean up sessions
  SequenceMod,  \* values of rtm_seq, 2^32 in the code
  InboxCap,     \* messages that a socket's buffer holds
  Others        \* messages that are no replies to this daemon

\* RTM_ADD, RTM_DELETE and RTM_GET, which looks a route up.
Operations == {"add", "delete", "get"}

SeqNumbers == 0 .. SequenceMod - 1
Messages == [op : Operations \cup {"notice"}, pid : {"own", "other"}, seq : SeqNumbers, errno : BOOLEAN]

ASSUME SocketAssumption ==
  /\ SequenceMod \in Nat \ {0} /\ InboxCap \in Nat \ {0}
  /\ Others \subseteq {m \in Messages : m.op = "notice" \/ m.pid = "other"}

VARIABLES
  sockPc,    \* per worker: where it is in exchange
  asked,     \* per worker: the operation of its request
  seq,       \* per worker: the rtm_seq of its request
  inbox,     \* per worker: messages waiting on its socket
  sequence,  \* SEQUENCE
  outcome,   \* per worker: what exchange answers
  effect     \* history, per worker: what the kernel did with its request

socketVars == <<sockPc, asked, seq, inbox, sequence, outcome, effect>>

SocketInit ==
  /\ sockPc = [w \in Workers |-> "idle"]
  /\ asked = [w \in Workers |-> "add"]
  /\ seq = [w \in Workers |-> 0]
  /\ inbox = [w \in Workers |-> <<>>]
  /\ sequence = 0
  /\ outcome = [w \in Workers |-> "none"]
  /\ effect = [w \in Workers |-> "none"]

\* Workers whose socket is open.
Open == {w \in Workers : sockPc[w] \in {"open", "sent"}}

\* A message reaches all open sockets with room.
Broadcast(m) ==
  [w \in Workers |-> IF w \in Open /\ Len(inbox[w]) < InboxCap THEN Append(inbox[w], m) ELSE inbox[w]]

\* exchange returns and its socket is closed.
Answer(w, o, boxes) ==
  /\ sockPc' = [sockPc EXCEPT ![w] = "done"]
  /\ outcome' = [outcome EXCEPT ![w] = o]
  /\ inbox' = [boxes EXCEPT ![w] = <<>>]

-----------------------------------------------------------------------------
\* A number is taken and a socket opened.  Within the five seconds that a
\* request may take SEQUENCE does not come round to it again.
OpenSocket(w, op) ==
  /\ sockPc[w] = "idle"
  /\ sequence \notin {seq[v] : v \in Open}
  /\ asked' = [asked EXCEPT ![w] = op]
  /\ seq' = [seq EXCEPT ![w] = sequence]
  /\ sequence' = (sequence + 1) % SequenceMod
  /\ sockPc' = [sockPc EXCEPT ![w] = "open"]
  /\ UNCHANGED <<inbox, outcome, effect>>

\* The socket cannot be set up, or writing fails before the kernel looks at
\* the request.
OpenFail(w) ==
  /\ sockPc[w] = "open"
  /\ Answer(w, "unsure", inbox)
  /\ UNCHANGED <<asked, seq, sequence, effect>>

\* write_all: the kernel carries the request out or refuses it, and tells all
\* sockets.  A refusal may be the result of the write as well.
Write(w) ==
  /\ sockPc[w] = "open"
  /\ \E denied \in BOOLEAN :
       LET boxes == Broadcast([op |-> asked[w], pid |-> "own", seq |-> seq[w], errno |-> denied]) IN
       /\ effect' = [effect EXCEPT ![w] = IF denied THEN "refused" ELSE "applied"]
       /\ \/ sockPc' = [sockPc EXCEPT ![w] = "sent"] /\ inbox' = boxes /\ UNCHANGED outcome
          \/ denied /\ Answer(w, "errno", boxes)
  /\ UNCHANGED <<asked, seq, sequence>>

\* Faulty variant: a reply is known by its number alone.
IsReplyByNumber(w, m) == m.op = asked[w] /\ m.seq = seq[w]

\* The reply has the operation, the process and the number of the request.
IsReply(w, m) == m.op = asked[w] /\ m.pid = "own" /\ m.seq = seq[w]

\* The next message: the reply ends the search, others are skipped.
Receive(w) ==
  /\ sockPc[w] = "sent" /\ inbox[w] # <<>>
  /\ LET m == Head(inbox[w]) IN
     IF IsReply(w, m)
       THEN Answer(w, IF m.errno THEN "errno" ELSE "ok", inbox)
       ELSE inbox' = [inbox EXCEPT ![w] = Tail(@)] /\ UNCHANGED <<sockPc, outcome>>
  /\ UNCHANGED <<asked, seq, sequence, effect>>

\* The deadline of the request passes, whatever is still in the buffer; or
\* the socket ends, or a message has an impossible length.
Timeout(w) ==
  /\ sockPc[w] = "sent"
  /\ Answer(w, "unsure", inbox)
  /\ UNCHANGED <<asked, seq, sequence, effect>>

\* The caller takes the answer.
Taken(w) ==
  /\ sockPc[w] = "done"
  /\ sockPc' = [sockPc EXCEPT ![w] = "idle"]
  /\ asked' = [asked EXCEPT ![w] = "add"]
  /\ seq' = [seq EXCEPT ![w] = 0]
  /\ outcome' = [outcome EXCEPT ![w] = "none"]
  /\ effect' = [effect EXCEPT ![w] = "none"]
  /\ UNCHANGED <<inbox, sequence>>

\* The kernel tells of another process' request, or of something else.
Foreign(m) ==
  /\ Open # {}
  /\ inbox' = Broadcast(m)
  /\ UNCHANGED <<sockPc, asked, seq, sequence, outcome, effect>>

SocketNext ==
  \/ \E w \in Workers :
       \/ \E op \in Operations : OpenSocket(w, op)
       \/ OpenFail(w) \/ Write(w) \/ Receive(w) \/ Timeout(w) \/ Taken(w)
  \/ \E m \in Others : Foreign(m)

SocketSpec == SocketInit /\ [][SocketNext]_socketVars

\* Writing is bounded by a timeout of its own, reading by the deadline.
SocketFairness ==
  \A w \in Workers : WF_socketVars(Write(w) \/ Timeout(w))

-----------------------------------------------------------------------------
\* What exchange answers is true of the caller's own request: success means
\* that the kernel has carried it out, an error number that the kernel has
\* refused it.  RouteChange::restore relies on the second for ESRCH.
OutcomeIsTrue ==
  \A w \in Workers : sockPc[w] = "done" =>
    /\ outcome[w] = "ok" => effect[w] = "applied"
    /\ outcome[w] = "errno" => effect[w] = "refused"

\* An exchange ends, though messages for others may keep coming.
ExchangeEnds == \A w \in Workers : sockPc[w] \in {"open", "sent"} ~> sockPc[w] = "done"
=============================================================================
