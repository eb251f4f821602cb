------------------------------ MODULE DataPlane ------------------------------
(***************************************************************************)
(* The packets of an open VPN on the Kotlin side: the bridge's two loops,  *)
(* the three loops of CryptoSessionManagerImpl under reconcileMutex, and   *)
(* the UDP workers of SocketManagerImpl, joined by two DuplexChannelPipes. *)
(* A loop that fails ends the run (VpnLifecycle has what follows).         *)
(*                                                                         *)
(* A packet is a pair of a peer (or NoPeer, if no allowed IP or endpoint   *)
(* matches) and a number; a datagram is a peer, a kind and a number.  What *)
(* a tunnel answers is BoringTun's, external to this repository: whether   *)
(* there is a session, and the queue of packets that wait for one, which   *)
(* drops what it has no room for.  Encrypting never answers with a packet  *)
(* for the daemon, so the cleartext loop's pendingTun stays empty.         *)
(***************************************************************************)
EXTENDS Integers, Sequences, FiniteSets, Functions

CONSTANTS
  Peers,       \* peers with a session
  NoPeer,      \* the peer of a packet that belongs to no session
  Capacity,    \* of a pipe's channel, DEFAULT_CAPACITY
  FlushLimit,  \* DEFAULT_MAX_FLUSH_ITERATIONS
  QueueDepth,  \* of a tunnel's queue of packets that wait
  MaxOut,      \* bound: packets from the daemon
  MaxItems,    \* bound: packets from the daemon and datagrams from the network
  MaxTimers    \* bound: datagrams that timers emit

ASSUME PlaneAssumption ==
  /\ NoPeer \notin Peers
  /\ Capacity \in Nat \ {0}
  /\ FlushLimit \in Nat \ {0} /\ QueueDepth \in Nat
  /\ MaxOut \in Nat /\ MaxItems \in Nat /\ MaxTimers \in Nat

Loops == {"clear", "enc", "timer"}
None == <<NoPeer, "none", 0>>
Kinds == {"data", "init", "response", "keepalive", "bad", "none"}

VARIABLES
  tunIn, tunOut,        \* channels of tunPipe, from and to the daemon
  netIn, netOut,        \* channels of networkPipe, from and to UDP
  pc, mutex,            \* per loop: the next step; holder of reconcileMutex
  got,                  \* per loop: what it received
  pendNet, pendTun,     \* per loop: pendingNetwork and pendingTun
  trying, established,  \* peers with a handshake begun, with a session
  backlog, dropped,     \* per peer: packets that wait for the handshake; the
                        \* packets that its tunnel had no room for
  tx, rx,               \* per peer: datagrams that MutablePeerStats counts
  timers,               \* datagrams emitted by timers so far
  read, heard,          \* packets from the daemon, datagrams from UDP so far
  sent, written,        \* datagrams passed to UDP, packets to the daemon
  failed                \* loops that have called onFailure

pipes == <<tunIn, tunOut, netIn, netOut>>
tunnels == <<trying, established, backlog, dropped, timers>>
history == <<read, heard, sent, written>>
vars == <<pipes, pc, mutex, got, pendNet, pendTun, tunnels, tx, rx, history, failed>>

Data(p, n) == <<p, "data", n>>

\* How many elements of a sequence are in a set.
Number(s, S) == Cardinality({i \in DOMAIN s : s[i] \in S})

\* Everything of one peer's.
Of(p) == {p} \X Kinds \X Nat

Init ==
  /\ tunIn = <<>> /\ tunOut = <<>> /\ netIn = <<>> /\ netOut = <<>>
  /\ pc = [l \in Loops |-> "idle"] /\ mutex = "free"
  /\ got = [l \in Loops |-> None]
  /\ pendNet = [l \in Loops |-> <<>>] /\ pendTun = [l \in Loops |-> <<>>]
  /\ trying = {} /\ established = {} /\ backlog = [p \in Peers |-> <<>>]
  /\ dropped = [p \in Peers |-> <<>>]
  /\ tx = [p \in Peers |-> 0] /\ rx = [p \in Peers |-> 0]
  /\ timers = 0
  /\ read = <<>> /\ heard = <<>> /\ sent = <<>> /\ written = <<>>
  /\ failed = {}

HasRoom(c) == Len(c) < Capacity

-----------------------------------------------------------------------------
(* The bridge and the UDP workers.                                         *)

\* Faulty variant: a packet from the daemon is dropped if the pipe is full.
BridgeReadOrDrop(p) ==
  LET d == Data(p, Len(read) + 1) IN
  /\ Len(read) < MaxOut /\ Len(read) + Len(heard) < MaxItems
  /\ tunIn' = IF HasRoom(tunIn) THEN Append(tunIn, d) ELSE tunIn
  /\ read' = Append(read, d)
  /\ UNCHANGED <<tunOut, netIn, netOut, pc, mutex, got, pendNet, pendTun, tunnels, tx, rx,
                 heard, sent, written, failed>>

\* The bridge's reader: a packet from the daemon goes into the pipe.
BridgeRead(p) ==
  LET d == Data(p, Len(read) + 1) IN
  /\ Len(read) < MaxOut /\ Len(read) + Len(heard) < MaxItems
  /\ HasRoom(tunIn)
  /\ tunIn' = Append(tunIn, d)
  /\ read' = Append(read, d)
  /\ UNCHANGED <<tunOut, netIn, netOut, pc, mutex, got, pendNet, pendTun, tunnels, tx, rx,
                 heard, sent, written, failed>>

\* The bridge's writer.
BridgeWrite ==
  /\ tunOut # <<>>
  /\ tunOut' = Tail(tunOut)
  /\ written' = Append(written, Head(tunOut))
  /\ UNCHANGED <<tunIn, netIn, netOut, pc, mutex, got, pendNet, pendTun, tunnels, tx, rx,
                 read, heard, sent, failed>>

\* A receive worker: runReceiveLoop with KtorDatagramUdpPort.  Datagrams may
\* be repeated; a response only comes once a handshake initiation was sent.
UdpReceive(p, k) ==
  LET d == <<p, k, IF k = "data" THEN Len(heard) + 1 ELSE 0>> IN
  /\ HasRoom(netIn)
  /\ Len(read) + Len(heard) < MaxItems
  /\ k = "response" => <<p, "init", 0>> \in Range(sent)
  /\ netIn' = Append(netIn, d)
  /\ heard' = Append(heard, d)
  /\ UNCHANGED <<tunIn, tunOut, netOut, pc, mutex, got, pendNet, pendTun, tunnels, tx, rx,
                 read, sent, written, failed>>

\* The send worker: runSendLoop.
UdpSend ==
  /\ netOut # <<>>
  /\ netOut' = Tail(netOut)
  /\ sent' = Append(sent, Head(netOut))
  /\ UNCHANGED <<tunIn, tunOut, netIn, pc, mutex, got, pendNet, pendTun, tunnels, tx, rx,
                 read, heard, written, failed>>

-----------------------------------------------------------------------------
(* The loops of CryptoSessionManagerImpl.                                  *)

\* A loop begins a round: it has received an item, or its delay is over.
Take(l) ==
  /\ pc[l] = "idle" /\ l \notin failed
  /\ pc' = [pc EXCEPT ![l] = "lock"]
  /\ \/ /\ l = "clear" /\ tunIn # <<>>
        /\ got' = [got EXCEPT ![l] = Head(tunIn)]
        /\ tunIn' = Tail(tunIn)
        /\ UNCHANGED netIn
     \/ /\ l = "enc" /\ netIn # <<>>
        /\ got' = [got EXCEPT ![l] = Head(netIn)]
        /\ netIn' = Tail(netIn)
        /\ UNCHANGED tunIn
     \/ l = "timer" /\ UNCHANGED <<got, tunIn, netIn>>
  /\ UNCHANGED <<tunOut, netOut, mutex, pendNet, pendTun, tunnels, tx, rx, history, failed>>

\* Faulty variant: the encrypted loop keeps the lock while it sends.
LockAfterSend(l) ==
  /\ pc[l] = "lock" /\ mutex = "free" /\ pc["enc"] # "send"
  /\ mutex' = l
  /\ pc' = [pc EXCEPT ![l] = "work"]
  /\ UNCHANGED <<pipes, got, pendNet, pendTun, tunnels, tx, rx, history, failed>>

\* reconcileMutex.withLock begins.
Lock(l) ==
  /\ pc[l] = "lock" /\ mutex = "free"
  /\ mutex' = l
  /\ pc' = [pc EXCEPT ![l] = "work"]
  /\ UNCHANGED <<pipes, got, pendNet, pendTun, tunnels, tx, rx, history, failed>>

\* Faulty variant: one datagram of a batch is counted.
CountOne(net) ==
  tx' = [p \in Peers |-> tx[p] + IF net # <<>> /\ net[1][1] = p THEN 1 ELSE 0]

\* transmittedBytes of the peers of some datagrams.
Count(net) == tx' = [p \in Peers |-> tx[p] + Number(net, Of(p))]

\* Where a loop is that has this left to send.
Sending(net, tun) == IF net = <<>> /\ tun = <<>> THEN "idle" ELSE "send"

\* The block under the lock ends: net and tun are what is left to send.
Unlock(l, net, tun) ==
  /\ pc[l] = "work"
  /\ mutex' = "free"
  /\ pc' = [pc EXCEPT ![l] = Sending(net, tun)]
  /\ got' = [got EXCEPT ![l] = None]
  /\ pendNet' = [pendNet EXCEPT ![l] = net]
  /\ pendTun' = [pendTun EXCEPT ![l] = tun]
  /\ Count(net)
  /\ UNCHANGED <<pipes, history, failed>>

\* The loop ends in an exception, with net counted but not sent, and calls
\* onFailure; the run ends and nobody looks at the tunnels again.
Fail(l, net) ==
  /\ pc[l] = "work"
  /\ mutex' = "free"
  /\ pc' = [pc EXCEPT ![l] = "idle"]
  /\ failed' = failed \cup {l}
  /\ Count(net)
  /\ UNCHANGED <<pipes, got, pendNet, pendTun, tunnels, history>>

\* One of the answers that would give net is Error or NotSupported, or the
\* call itself fails: the answers before it were counted.
Throw(l, net) == \E n \in 0 .. Len(net) : Fail(l, SubSeq(net, 1, n))

\* The tunnel keeps a packet until there is a session, if it has room.
Wait(d) ==
  LET p == d[1] IN
  IF Len(backlog[p]) < QueueDepth
    THEN backlog' = [backlog EXCEPT ![p] = Append(@, d)] /\ UNCHANGED dropped
    ELSE dropped' = [dropped EXCEPT ![p] = Append(@, d)] /\ UNCHANGED backlog

\* What encrypt_raw_packet answers: with no session the packet waits and a
\* handshake begins, unless one is under way.
Encrypt(d) ==
  LET p == d[1] IN
  IF p \in established
    THEN Unlock("clear", <<d>>, <<>>) /\ UNCHANGED tunnels
    ELSE /\ Unlock("clear", IF p \in trying THEN <<>> ELSE << <<p, "init", 0>> >>, <<>>)
         /\ trying' = trying \cup {p}
         /\ Wait(d)
         /\ UNCHANGED <<established, timers>>

\* runCleartextIngressLoop: the packet is dropped if no session wants it.
\* The call fails for a packet that is too large, for one.
WorkClear ==
  LET d == got["clear"] IN
  /\ UNCHANGED rx
  /\ \/ d[1] = NoPeer /\ Unlock("clear", <<>>, <<>>) /\ UNCHANGED tunnels
     \/ d[1] \in Peers /\ Encrypt(d)
     \/ d[1] \in Peers /\ Throw("clear", <<>>)

\* What decrypt_to_raw_packet answers to a datagram, and then to empty input
\* until it answers Done: the packets that waited follow.
ToNet(d) == (IF d[2] = "response" THEN << <<d[1], "keepalive", 0>> >> ELSE <<>>) \o backlog[d[1]]
ToTun(d) == IF d[2] = "data" THEN <<d>> ELSE <<>>

\* The iterations of the flush reach the limit.
TooLong(d) == Len(ToNet(d)) + Len(ToTun(d)) >= FlushLimit

\* The datagram is an error to the tunnel for certain.
Rejected(d) ==
  \/ d[2] = "bad"
  \/ d[2] = "data" /\ d[1] \notin established
  \/ d[2] = "response" /\ d[1] \notin trying

\* runEncryptedIngressLoop: the sender's session is flushed under the lock;
\* an error at any point of it, or too long a flush, is an exception.
WorkEnc ==
  LET d == got["enc"]
      p == d[1] IN
  \/ p = NoPeer /\ Unlock("enc", <<>>, <<>>) /\ UNCHANGED <<tunnels, rx>>
  \/ /\ p \in Peers
     /\ rx' = [rx EXCEPT ![p] = @ + 1]
     /\ \/ Throw("enc", IF Rejected(d) THEN <<>> ELSE ToNet(d))
        \/ /\ ~Rejected(d) /\ TooLong(d)
           /\ Fail("enc", SubSeq(ToNet(d), 1, FlushLimit - Len(ToTun(d))))
        \/ /\ ~Rejected(d) /\ ~TooLong(d)
           /\ Unlock("enc", ToNet(d), ToTun(d))
           /\ established' = established \cup {p}
           /\ trying' = IF d[2] = "response" THEN trying \ {p} ELSE trying
           /\ backlog' = [backlog EXCEPT ![p] = <<>>]
           /\ UNCHANGED <<dropped, timers>>

\* The datagrams that timers may emit: one of each session in some order, a
\* keepalive if there is a session, or another handshake in any case.
Emitted(n) ==
  { e \in [1 .. n -> (established \X {"keepalive"} \X {0}) \cup (Peers \X {"init"} \X {0})] :
      \A i, j \in 1 .. n : e[i][1] = e[j][1] => i = j }

\* runPeriodicLoop: every session may emit a datagram, or fail: a connection
\* that has expired, for one.
WorkTimer ==
  \E n \in 0 .. MaxTimers - timers : \E net \in Emitted(n) :
    /\ UNCHANGED rx
    /\ \/ /\ Unlock("timer", net, <<>>)
          /\ timers' = timers + n
          /\ trying' = trying \cup { p \in Peers : <<p, "init", 0>> \in Range(net) }
          /\ UNCHANGED <<established, backlog, dropped>>
       \/ Throw("timer", net)

\* Faulty variant: a packet for the daemon is dropped if the channel is full.
SendOrDrop(l) ==
  /\ pc[l] = "send"
  /\ \/ /\ pendNet[l] # <<>> /\ HasRoom(netOut)
        /\ netOut' = Append(netOut, Head(pendNet[l]))
        /\ pendNet' = [pendNet EXCEPT ![l] = Tail(@)]
        /\ UNCHANGED <<tunOut, pendTun>>
     \/ /\ pendNet[l] = <<>>
        /\ tunOut' = IF HasRoom(tunOut) THEN Append(tunOut, Head(pendTun[l])) ELSE tunOut
        /\ pendTun' = [pendTun EXCEPT ![l] = Tail(@)]
        /\ UNCHANGED <<netOut, pendNet>>
  /\ pc' = [pc EXCEPT ![l] = Sending(pendNet'[l], pendTun'[l])]
  /\ UNCHANGED <<tunIn, netIn, mutex, got, tunnels, tx, rx, history, failed>>

\* The loop passes its datagrams on, then its packets, and suspends while the
\* channel is full.
Send(l) ==
  /\ pc[l] = "send"
  /\ \/ /\ pendNet[l] # <<>> /\ HasRoom(netOut)
        /\ netOut' = Append(netOut, Head(pendNet[l]))
        /\ pendNet' = [pendNet EXCEPT ![l] = Tail(@)]
        /\ UNCHANGED <<tunOut, pendTun>>
     \/ /\ pendNet[l] = <<>> /\ HasRoom(tunOut)
        /\ tunOut' = Append(tunOut, Head(pendTun[l]))
        /\ pendTun' = [pendTun EXCEPT ![l] = Tail(@)]
        /\ UNCHANGED <<netOut, pendNet>>
  /\ pc' = [pc EXCEPT ![l] = Sending(pendNet'[l], pendTun'[l])]
  /\ UNCHANGED <<tunIn, netIn, mutex, got, tunnels, tx, rx, history, failed>>

-----------------------------------------------------------------------------
Loop(l) == Take(l) \/ Lock(l) \/ Send(l)

Step ==
  \/ \E p \in Peers \cup {NoPeer} : BridgeRead(p)
  \/ \E p \in Peers, k \in {"data", "response", "bad"} : UdpReceive(p, k)
  \/ UdpReceive(NoPeer, "data")
  \/ BridgeWrite \/ UdpSend
  \/ \E l \in Loops : Loop(l)
  \/ WorkClear \/ WorkEnc \/ WorkTimer

\* The first failure has the whole VPN stopped.
Next == failed = {} /\ Step

Spec == Init /\ [][Next]_vars

\* Loops run, Mutex and Channel serve waiting coroutines in turn, and UDP
\* takes datagrams.  Nothing is assumed of the daemon: BridgeWrite may stall.
Fairness ==
  /\ \A l \in Loops : SF_vars(failed = {} /\ Loop(l))
  /\ WF_vars(failed = {} /\ (WorkClear \/ WorkEnc \/ WorkTimer))
  /\ WF_vars(failed = {} /\ UdpSend)

FairSpec == Spec /\ Fairness

-----------------------------------------------------------------------------
\* Datagrams of S that have left or that the loops hold to be sent.
Leaving(S) ==
  Number(sent, S) + Number(netOut, S)
    + Number(pendNet["clear"], S) + Number(pendNet["enc"], S) + Number(pendNet["timer"], S)

\* Channels suspend their senders and drop nothing: a packet from the daemon
\* that belongs to a peer is in exactly one place on its way out (the pipe,
\* the cleartext loop, the tunnel's queue, a loop's list, the network pipe),
\* has been sent once, or was refused by the tunnel's full queue; and no
\* other packet is on that way.
OutboundOnce ==
  failed = {} => \A p \in Peers, n \in 1 .. MaxOut :
    LET d == Data(p, n) IN
    Leaving({d}) + Number(backlog[p], {d}) + Number(dropped[p], {d})
        + Number(<<got["clear"]>>, {d}) + Number(tunIn, {d})
      = IF d \in Range(read) THEN 1 ELSE 0

\* What has come from UDP and goes to the daemon, the oldest first.
Inbound == written \o (tunOut \o (pendTun["enc"] \o (<<got["enc"]>> \o netIn)))

Known(d) == d[1] \in Peers /\ d[2] = "data"

\* Packets of peers reach the daemon in the order in which their datagrams
\* came, which their numbers tell, none lost, none repeated, whatever the
\* other loops send meanwhile.
InboundInOrder ==
  failed = {} =>
    /\ \A i, j \in DOMAIN Inbound :
         i < j /\ Known(Inbound[i]) /\ Known(Inbound[j]) => Inbound[i][3] < Inbound[j][3]
    /\ {d \in Range(Inbound) : Known(d)} = {d \in Range(heard) : Known(d)}

\* The counters of peerStats, which three loops share, count each datagram
\* that leaves and each one that the encrypted loop has handled once.
StatsMatchTraffic ==
  failed = {} =>
    \A p \in Peers :
      /\ tx[p] = Leaving(Of(p))
      /\ rx[p] + Number(netIn, Of(p)) + Number(<<got["enc"]>>, Of(p)) = Number(heard, Of(p))

\* Sends are outside reconcileMutex: a daemon that stops reading holds up
\* neither the packets it sent itself nor keepalives and handshakes.
StalledDaemonIsIsolated ==
  \A l \in {"clear", "timer"} : pc[l] # "idle" ~> (pc[l] = "idle" \/ failed # {})
=============================================================================
