-------------------------- MODULE DataPlaneProofs --------------------------
(***************************************************************************)
(* Invariance proofs for DataPlane, for any peers, capacities and bounds:  *)
(* the rounds of the loops, and the order of the packets to the daemon.    *)
(***************************************************************************)
EXTENDS DataPlane, TLAPS

(* Types, and the rounds of the loops.                                     *)

Items == (Peers \cup {NoPeer}) \X Kinds \X Nat

TypeOK ==
  /\ tunIn \in Seq(Items) /\ tunOut \in Seq(Items) /\ netIn \in Seq(Items) /\ netOut \in Seq(Items)
  /\ pc \in [Loops -> {"idle", "lock", "work", "send"}]
  /\ got \in [Loops -> Items]
  /\ pendNet \in [Loops -> Seq(Items)] /\ pendTun \in [Loops -> Seq(Items)]
  /\ established \subseteq Peers
  /\ backlog \in [Peers -> Seq(Items)] /\ dropped \in [Peers -> Seq(Items)]
  /\ rx \in [Peers -> Nat] /\ timers \in Nat
  /\ read \in Seq(Items) /\ heard \in Seq(Items) /\ sent \in Seq(Items) /\ written \in Seq(Items)

\* What a loop holds at which step of its round.
Rounds ==
  /\ \A l \in Loops : pc[l] \in {"idle", "send"} => got[l] = None
  /\ \A l \in Loops : pc[l] # "send" => pendNet[l] = <<>> /\ pendTun[l] = <<>>
  /\ \A l \in Loops : pc[l] = "send" => pendNet[l] # <<>> \/ pendTun[l] # <<>>
  /\ pendTun["clear"] = <<>> /\ pendTun["timer"] = <<>>

\* A backlog holds its own peer's packets, and a packet from the daemon or a
\* data datagram carries its position.
Marked ==
  /\ \A p \in Peers : \A i \in DOMAIN backlog[p] : backlog[p][i] \in Of(p)
  /\ \A i \in DOMAIN read : read[i][3] = i
  /\ \A i \in DOMAIN heard : heard[i][2] = "data" => heard[i][3] = i

LEMMA ItemFacts ==
  /\ None \in Items /\ <<>> \in Seq(Items)
  /\ \A p \in Peers \cup {NoPeer}, n \in Nat : Data(p, n) \in Items
  /\ \A p \in Peers : <<p, "init", 0>> \in Items /\ <<p, "keepalive", 0>> \in Items
  /\ \A d \in Items : d[1] \in Peers \cup {NoPeer} /\ d[2] \in Kinds /\ d[3] \in Nat
BY DEF Items, None, Data, Kinds

LEMMA LoopFacts == "clear" \in Loops /\ "enc" \in Loops /\ "timer" \in Loops
BY DEF Loops

\* Only the failure of a loop ends in an exception.
LEMMA NoThrow ==
  ASSUME failed' = {}, NEW l, NEW net
  PROVE  ~Fail(l, net) /\ ~Throw(l, net)
<1>1. ASSUME NEW out, Fail(l, out) PROVE FALSE
  BY <1>1 DEF Fail
<1> QED
  BY <1>1, Zenon DEF Throw

\* What the timer loop sends.
LEMMA TimerOutFacts ==
  ASSUME TypeOK, WorkTimer, failed' = {}
  PROVE  \E net \in Seq(Items) :
           /\ Unlock("timer", net, <<>>) /\ UNCHANGED <<established, backlog, dropped, rx>>
           /\ timers' \in Nat
           /\ \A i \in DOMAIN net : net[i][2] # "data"
<1> DEFINE D == (established \X {"keepalive"} \X {0}) \cup (Peers \X {"init"} \X {0})
<1>1. PICK n \in 0 .. MaxTimers - timers : \E net \in Emitted(n) :
        /\ Unlock("timer", net, <<>>) /\ timers' = timers + n
        /\ UNCHANGED <<established, backlog, dropped, rx>>
  BY NoThrow, ZenonT(60) DEF WorkTimer
<1>2. n \in Nat /\ timers + n \in Nat
  BY PlaneAssumption DEF TypeOK
<1>3. PICK net \in [1 .. n -> D] :
        /\ Unlock("timer", net, <<>>) /\ timers' = timers + n
        /\ UNCHANGED <<established, backlog, dropped, rx>>
  BY <1>1, Zenon DEF Emitted
<1>4. \A e \in D : e \in Items /\ e[2] # "data"
  <2>1. established \subseteq Peers
    BY Zenon DEF TypeOK
  <2> QED
    BY <2>1 DEF Items, Kinds
<1> HIDE DEF D
<1>5. net \in Seq(Items) /\ DOMAIN net = 1 .. n /\ \A i \in 1 .. n : net[i] \in D
  BY <1>2, <1>3, <1>4
<1> QED
  BY <1>2, <1>3, <1>4, <1>5, Zenon

\* The end of the block under the lock, for any answer of the tunnel.
LEMMA UnlockFacts ==
  ASSUME TypeOK, Rounds, NEW l \in Loops, NEW net \in Seq(Items), NEW tun \in Seq(Items),
         l # "enc" => tun = <<>>, Unlock(l, net, tun)
  PROVE  /\ pc' \in [Loops -> {"idle", "lock", "work", "send"}] /\ got' \in [Loops -> Items]
         /\ pendNet' \in [Loops -> Seq(Items)] /\ pendTun' \in [Loops -> Seq(Items)]
         /\ UNCHANGED <<pipes, history>>
         /\ Rounds'
<1>1. /\ pc' \in [Loops -> {"idle", "lock", "work", "send"}] /\ got' \in [Loops -> Items]
      /\ pendNet' \in [Loops -> Seq(Items)] /\ pendTun' \in [Loops -> Seq(Items)]
  BY ItemFacts, SMTT(60) DEF TypeOK, Unlock, Sending
<1>2. Rounds'
  BY LoopFacts, ZenonT(60) DEF TypeOK, Rounds, Unlock, Sending
<1> QED
  BY <1>1, <1>2 DEF Unlock

\* What the encrypted loop has to send.
LEMMA FlushFacts ==
  ASSUME TypeOK, NEW d \in Items, d[1] \in Peers
  PROVE  ToNet(d) \in Seq(Items) /\ ToTun(d) \in Seq(Items)
<1>1. << <<d[1], "keepalive", 0>> >> \in Seq(Items) /\ backlog[d[1]] \in Seq(Items) /\ <<>> \in Seq(Items)
  <2>1. <<d[1], "keepalive", 0>> \in Items
    BY ItemFacts, ZenonT(60)
  <2> QED
    BY <2>1 DEF TypeOK
<1>2. ToTun(d) \in Seq(Items)
  BY DEF ToTun
<1>3. (IF d[2] = "response" THEN << <<d[1], "keepalive", 0>> >> ELSE <<>>) \in Seq(Items)
  BY <1>1
<1> QED
  BY <1>1, <1>2, <1>3 DEF ToNet

\* A packet joins a queue of its peer.
LEMMA QueueFacts ==
  ASSUME NEW f \in [Peers -> Seq(Items)], NEW p \in Peers, NEW d \in Items,
         \A q \in Peers : \A i \in DOMAIN f[q] : f[q][i] \in Of(q)
  PROVE  LET g == [f EXCEPT ![p] = Append(@, d)] IN
         /\ g \in [Peers -> Seq(Items)]
         /\ d \in Of(p) => \A q \in Peers : \A i \in DOMAIN g[q] : g[q][i] \in Of(q)
<1> DEFINE g == [f EXCEPT ![p] = Append(@, d)]
<1>1. g \in [Peers -> Seq(Items)] /\ g[p] = Append(f[p], d) /\ \A q \in Peers : q # p => g[q] = f[q]
  BY SMTT(60)
<1>2. ASSUME d \in Of(p), NEW i \in DOMAIN g[p] PROVE g[p][i] \in Of(p)
  <2>1. f[p] \in Seq(Items) /\ \A j \in DOMAIN f[p] : f[p][j] \in Of(p)
    BY Zenon
  <2> HIDE DEF g
  <2> QED
    BY <1>1, <1>2, <2>1, SMTT(60)
<1> HIDE DEF g
<1>3. d \in Of(p) => \A q \in Peers : \A i \in DOMAIN g[q] : g[q][i] \in Of(q)
  BY <1>1, <1>2, Zenon
<1> QED
  BY <1>1, <1>3 DEF g

\* A packet of a peer at the cleartext loop.
LEMMA EncryptFacts ==
  ASSUME TypeOK, Rounds, Marked, NEW d \in Items, d[1] \in Peers, Encrypt(d)
  PROVE  /\ \E net \in Seq(Items) : Unlock("clear", net, <<>>)
         /\ backlog' \in [Peers -> Seq(Items)] /\ dropped' \in [Peers -> Seq(Items)]
         /\ \A p \in Peers : \A i \in DOMAIN backlog'[p] : backlog'[p][i] \in Of(p)
         /\ established' = established
<1> DEFINE p == d[1]
<1>1. <<d>> \in Seq(Items) /\ <<>> \in Seq(Items) /\ << <<p, "init", 0>> >> \in Seq(Items)
  <2>1. <<p, "init", 0>> \in Items
    BY ItemFacts, ZenonT(60)
  <2> QED
    BY <2>1
<1>2. d \in Of(p)
  BY ItemFacts DEF Of, Items
<1>3. CASE p \in established
  BY <1>1, <1>3, ZenonT(60) DEF Encrypt, tunnels, TypeOK, Marked
<1>4. CASE p \notin established
  <2> DEFINE net == IF p \in trying THEN <<>> ELSE << <<p, "init", 0>> >>
  <2>1. net \in Seq(Items) /\ Unlock("clear", net, <<>>) /\ established' = established
    BY <1>1, <1>4 DEF Encrypt
  <2>2. \/ backlog' = [backlog EXCEPT ![p] = Append(@, d)] /\ dropped' = dropped
        \/ dropped' = [dropped EXCEPT ![p] = Append(@, d)] /\ backlog' = backlog
    BY <1>4, Zenon DEF Encrypt, Wait
  <2>3. /\ backlog \in [Peers -> Seq(Items)] /\ dropped \in [Peers -> Seq(Items)]
        /\ \A q \in Peers : \A i \in DOMAIN backlog[q] : backlog[q][i] \in Of(q)
    BY Zenon DEF TypeOK, Marked
  <2>4. [dropped EXCEPT ![p] = Append(@, d)] \in [Peers -> Seq(Items)]
    BY <2>3, SMTT(60)
  <2>5. LET g == [backlog EXCEPT ![p] = Append(@, d)] IN
        g \in [Peers -> Seq(Items)] /\ \A q \in Peers : \A i \in DOMAIN g[q] : g[q][i] \in Of(q)
    BY <1>2, <2>3, QueueFacts, Zenon
  <2> QED
    BY <2>1, <2>2, <2>3, <2>4, <2>5, ZenonT(60)
<1> QED
  BY <1>3, <1>4

Open == TypeOK /\ Rounds /\ Marked

LEMMA OpenStep ==
  ASSUME Open, failed' = {}, Step
  PROVE  Open'
<1> USE DEF Open
<1>1. ASSUME NEW p \in Peers \cup {NoPeer}, BridgeRead(p) PROVE Open'
  <2> DEFINE d == Data(p, Len(read) + 1)
  <2>1. d \in Items /\ d[3] = Len(read) + 1
    BY SMTT(60) DEF TypeOK, Items, Kinds, Data
  <2>a. tunIn' = Append(tunIn, d) /\ read' = Append(read, d)
    BY <1>1 DEF BridgeRead
  <2> HIDE DEF d
  <2>b. tunIn' \in Seq(Items) /\ read' \in Seq(Items)
    BY <2>1, <2>a DEF TypeOK
  <2>2. TypeOK'
    BY <1>1, <2>b, ZenonT(60) DEF TypeOK, BridgeRead, tunnels
  <2>3. Rounds'
    BY <1>1 DEF Rounds, BridgeRead
  <2>4. \A i \in DOMAIN read' : read'[i][3] = i
    <3>1. /\ DOMAIN read' = 1 .. Len(read) + 1 /\ read'[Len(read) + 1] = d
          /\ \A i \in 1 .. Len(read) : read'[i] = read[i]
      BY <2>1, <2>a DEF TypeOK
    <3>2. Len(read) \in Nat /\ DOMAIN read = 1 .. Len(read)
      BY DEF TypeOK
    <3> QED
      BY <2>1, <3>1, <3>2 DEF Marked
  <2> QED
    BY <1>1, <2>2, <2>3, <2>4, SMTT(60) DEF Marked, BridgeRead, tunnels
<1>2. ASSUME NEW p \in Peers \cup {NoPeer}, NEW k \in {"data", "response", "bad"}, UdpReceive(p, k)
      PROVE  Open'
  <2> DEFINE d == <<p, k, IF k = "data" THEN Len(heard) + 1 ELSE 0>>
  <2>1. d \in Items /\ d[2] = k /\ (k = "data" => d[3] = Len(heard) + 1)
    BY SMTT(60) DEF TypeOK, Items, Kinds
  <2>2. netIn' = Append(netIn, d) /\ heard' = Append(heard, d)
    BY <1>2 DEF UdpReceive
  <2> HIDE DEF d
  <2>a. netIn' \in Seq(Items) /\ heard' \in Seq(Items)
    BY <2>1, <2>2 DEF TypeOK
  <2>3. TypeOK'
    BY <1>2, <2>a, ZenonT(60) DEF TypeOK, UdpReceive, tunnels
  <2>4. Rounds'
    BY <1>2 DEF Rounds, UdpReceive
  <2>5. \A i \in DOMAIN heard' : heard'[i][2] = "data" => heard'[i][3] = i
    <3>1. /\ DOMAIN heard' = 1 .. Len(heard) + 1 /\ heard'[Len(heard) + 1] = d
          /\ \A i \in 1 .. Len(heard) : heard'[i] = heard[i]
      BY <2>1, <2>2 DEF TypeOK
    <3>2. Len(heard) \in Nat /\ DOMAIN heard = 1 .. Len(heard)
      BY DEF TypeOK
    <3> QED
      BY <2>1, <3>1, <3>2, SMTT(60) DEF Marked
  <2> QED
    BY <1>2, <2>3, <2>4, <2>5, SMTT(60) DEF Marked, UdpReceive, tunnels
<1>3. CASE BridgeWrite
  <2>1. TypeOK'
    BY <1>3 DEF TypeOK, BridgeWrite, tunnels
  <2> QED
    BY <1>3, <2>1 DEF Rounds, Marked, BridgeWrite, tunnels
<1>4. CASE UdpSend
  <2>1. TypeOK'
    BY <1>4 DEF TypeOK, UdpSend, tunnels
  <2> QED
    BY <1>4, <2>1 DEF Rounds, Marked, UdpSend, tunnels
<1>5. ASSUME NEW l \in Loops, Take(l) PROVE Open'
  <2>a. \A s \in Seq(Items) : s # <<>> => Head(s) \in Items /\ Tail(s) \in Seq(Items)
    OBVIOUS
  <2>b. /\ tunIn' \in Seq(Items) /\ netIn' \in Seq(Items) /\ got' \in [Loops -> Items]
        /\ pc' \in [Loops -> {"idle", "lock", "work", "send"}]
    BY <1>5, <2>a, ZenonT(60) DEF TypeOK, Take
  <2>1. TypeOK'
    BY <1>5, <2>b DEF TypeOK, Take, tunnels, history
  <2>2. Rounds'
    BY <1>5 DEF TypeOK, Rounds, Take
  <2> QED
    BY <1>5, <2>1, <2>2 DEF Marked, Take, tunnels, history
<1>6. ASSUME NEW l \in Loops, Lock(l) PROVE Open'
  <2>1. TypeOK'
    BY <1>6 DEF TypeOK, Lock, tunnels, history, pipes
  <2>2. Rounds'
    BY <1>6 DEF TypeOK, Rounds, Lock
  <2> QED
    BY <1>6, <2>1, <2>2 DEF Marked, Lock, tunnels, history
<1>7. ASSUME NEW l \in Loops, Send(l) PROVE Open'
  <2>a. \A s \in Seq(Items) : s # <<>> => Head(s) \in Items /\ Tail(s) \in Seq(Items)
    OBVIOUS
  <2>b. \A s \in Seq(Items), d \in Items : Append(s, d) \in Seq(Items)
    OBVIOUS
  <2>c. pendNet[l] = <<>> => pendTun[l] # <<>>
    BY <1>7 DEF Rounds, Send
  <2>d. pc' \in [Loops -> {"idle", "lock", "work", "send"}]
    BY <1>7 DEF TypeOK, Send, Sending
  <2>g. pendNet[l] \in Seq(Items) /\ pendTun[l] \in Seq(Items)
    BY DEF TypeOK
  <2>e. /\ netOut' \in Seq(Items) /\ tunOut' \in Seq(Items)
        /\ pendNet' \in [Loops -> Seq(Items)] /\ pendTun' \in [Loops -> Seq(Items)]
    <3>1. CASE pendNet[l] # <<>>
      <4>1. Head(pendNet[l]) \in Items /\ Tail(pendNet[l]) \in Seq(Items)
        BY <2>a, <2>g, <3>1
      <4>2. Append(netOut, Head(pendNet[l])) \in Seq(Items)
        BY <2>b, <4>1 DEF TypeOK
      <4> QED
        BY <1>7, <3>1, <4>1, <4>2, ZenonT(60) DEF TypeOK, Send
    <3>2. CASE pendNet[l] = <<>>
      <4>1. Head(pendTun[l]) \in Items /\ Tail(pendTun[l]) \in Seq(Items)
        BY <2>a, <2>c, <2>g, <3>2
      <4>2. Append(tunOut, Head(pendTun[l])) \in Seq(Items)
        BY <2>b, <4>1 DEF TypeOK
      <4> QED
        BY <1>7, <3>2, <4>1, <4>2, ZenonT(60) DEF TypeOK, Send
    <3> QED
      BY <3>1, <3>2
  <2>1. TypeOK'
    BY <1>7, <2>d, <2>e, ZenonT(60) DEF TypeOK, Send, tunnels, history
  <2>2. Rounds'
    BY <1>7, LoopFacts, ZenonT(60) DEF TypeOK, Rounds, Send, Sending
  <2> QED
    BY <1>7, <2>1, <2>2 DEF Marked, Send, tunnels, history
<1>8. CASE WorkClear
  <2> DEFINE d == got["clear"]
  <2>1. d \in Items
    BY LoopFacts DEF TypeOK
  <2>2. PICK net \in Seq(Items) : Unlock("clear", net, <<>>)
    BY <1>8, <2>1, NoThrow, EncryptFacts, ItemFacts, ZenonT(60) DEF WorkClear
  <2>3. /\ backlog' \in [Peers -> Seq(Items)] /\ dropped' \in [Peers -> Seq(Items)]
        /\ established' \subseteq Peers
        /\ \A p \in Peers : \A i \in DOMAIN backlog'[p] : backlog'[p][i] \in Of(p)
    <3>1. CASE d[1] \in Peers /\ Encrypt(d)
      BY <2>1, <3>1, EncryptFacts, Zenon DEF TypeOK
    <3>2. CASE UNCHANGED tunnels
      BY <3>2 DEF TypeOK, Marked, tunnels
    <3> QED
      BY <1>8, <3>1, <3>2, NoThrow, Zenon DEF WorkClear
  <2>4. UNCHANGED <<rx, timers>>
    BY <1>8, NoThrow, Zenon DEF WorkClear, Encrypt, tunnels
  <2>5. /\ pc' \in [Loops -> {"idle", "lock", "work", "send"}] /\ got' \in [Loops -> Items]
        /\ pendNet' \in [Loops -> Seq(Items)] /\ pendTun' \in [Loops -> Seq(Items)]
        /\ UNCHANGED <<pipes, history>> /\ Rounds'
    BY <2>2, UnlockFacts, ItemFacts, LoopFacts, ZenonT(60)
  <2> HIDE DEF d
  <2> QED
    BY <2>3, <2>4, <2>5 DEF TypeOK, Marked, pipes, history
<1>9. CASE WorkEnc
  <2> DEFINE d == got["enc"]
  <2>1. d \in Items
    BY LoopFacts DEF TypeOK
  <2>2. \A net : ~Fail("enc", net) /\ ~Throw("enc", net)
    BY NoThrow, Zenon
  <2>3. /\ \E net, tun \in Seq(Items) : Unlock("enc", net, tun)
        /\ backlog' \in [Peers -> Seq(Items)] /\ dropped' \in [Peers -> Seq(Items)]
        /\ established' \subseteq Peers
        /\ \A p \in Peers : \A i \in DOMAIN backlog'[p] : backlog'[p][i] \in Of(p)
        /\ rx' \in [Peers -> Nat]
    <3>1. CASE d[1] = NoPeer /\ Unlock("enc", <<>>, <<>>) /\ UNCHANGED <<tunnels, rx>>
      BY <3>1, ItemFacts, ZenonT(60) DEF TypeOK, Marked, tunnels
    <3>2. CASE /\ d[1] \in Peers
               /\ rx' = [rx EXCEPT ![d[1]] = @ + 1]
               /\ Unlock("enc", ToNet(d), ToTun(d))
               /\ established' = established \cup {d[1]}
               /\ backlog' = [backlog EXCEPT ![d[1]] = <<>>]
               /\ UNCHANGED dropped
      <4>1. ToNet(d) \in Seq(Items) /\ ToTun(d) \in Seq(Items)
        BY <2>1, <3>2, FlushFacts
      <4>2. backlog' \in [Peers -> Seq(Items)]
        BY <3>2, ItemFacts, SMTT(60) DEF TypeOK
      <4>3. \A p \in Peers : \A i \in DOMAIN backlog'[p] : backlog'[p][i] \in Of(p)
        BY <3>2 DEF TypeOK, Marked
      <4>4. rx' \in [Peers -> Nat]
        <5>1. rx \in [Peers -> Nat]
          BY Zenon DEF TypeOK
        <5> HIDE DEF d
        <5> QED
          BY <3>2, <5>1
      <4>5. dropped' \in [Peers -> Seq(Items)] /\ established' \subseteq Peers
        BY <3>2, Zenon DEF TypeOK
      <4> QED
        BY <3>2, <4>1, <4>2, <4>3, <4>4, <4>5
    <3> QED
      BY <1>9, <2>2, <3>1, <3>2, ZenonT(60) DEF WorkEnc
  <2>t. timers' = timers
    BY <1>9, <2>2, Zenon DEF WorkEnc, tunnels
  <2>4. PICK net \in Seq(Items), tun \in Seq(Items) : Unlock("enc", net, tun)
    BY <2>3
  <2>5. /\ pc' \in [Loops -> {"idle", "lock", "work", "send"}] /\ got' \in [Loops -> Items]
        /\ pendNet' \in [Loops -> Seq(Items)] /\ pendTun' \in [Loops -> Seq(Items)]
        /\ UNCHANGED <<pipes, history>> /\ Rounds'
    BY <2>4, UnlockFacts, LoopFacts, SMTT(60)
  <2> QED
    BY <2>3, <2>t, <2>5, SMTT(60) DEF TypeOK, Marked, pipes, history
<1>10. CASE WorkTimer
  <2>1. PICK net \in Seq(Items) : Unlock("timer", net, <<>>) /\ UNCHANGED <<established, backlog, dropped, rx>>
    BY <1>10, TimerOutFacts, Zenon
  <2>2. timers' \in Nat
    BY <1>10, TimerOutFacts, Zenon
  <2>3. /\ pc' \in [Loops -> {"idle", "lock", "work", "send"}] /\ got' \in [Loops -> Items]
        /\ pendNet' \in [Loops -> Seq(Items)] /\ pendTun' \in [Loops -> Seq(Items)]
        /\ UNCHANGED <<pipes, history>> /\ Rounds'
    BY <2>1, UnlockFacts, ItemFacts, LoopFacts, ZenonT(60)
  <2> QED
    BY <2>1, <2>2, <2>3 DEF TypeOK, Marked, pipes, history
<1> QED
  BY <1>1, <1>2, <1>3, <1>4, <1>5, <1>6, <1>7, <1>8, <1>9, <1>10 DEF Step, Loop

LEMMA OpenInit == Init => Open
<1> SUFFICES ASSUME Init PROVE Open
  OBVIOUS
<1>1. TypeOK
  BY ItemFacts DEF Init, TypeOK
<1>2. Rounds
  BY LoopFacts DEF Init, Rounds
<1>3. Marked
  BY DEF Init, Marked
<1> QED
  BY <1>1, <1>2, <1>3 DEF Open

-----------------------------------------------------------------------------
(* The order of the packets to the daemon.                                 *)

Sorted(s) ==
  \A i, j \in DOMAIN s : i < j /\ Known(s[i]) /\ Known(s[j]) => s[i][3] < s[j][3]

KnownOf(s) == {d \in Range(s) : Known(d)}

\* Queue operations by names of their own: the steps below reason about them
\* with the lemmas alone.
Put(s, d) == Append(s, d)
First(s) == Head(s)
Rest(s) == Tail(s)
Cat(s, t) == s \o t
One(d) == <<d>>

LEMMA CatFacts ==
  /\ \A s, t \in Seq(Items) : Cat(s, t) \in Seq(Items)
  /\ \A s, t, u \in Seq(Items) : Cat(s, Cat(t, u)) = Cat(Cat(s, t), u)
  /\ \A s \in Seq(Items) : Cat(<<>>, s) = s /\ Cat(s, <<>>) = s
  /\ \A d \in Items : One(d) \in Seq(Items)
  /\ \A s \in Seq(Items), d \in Items : Put(s, d) = Cat(s, One(d))
  /\ \A s \in Seq(Items) : s # <<>> => First(s) \in Items /\ Rest(s) \in Seq(Items) /\ s = Cat(One(First(s)), Rest(s))
<1>1. \A s, t \in Seq(Items) : Cat(s, t) \in Seq(Items)
  BY DEF Cat
<1>2. \A s, t, u \in Seq(Items) : Cat(s, Cat(t, u)) = Cat(Cat(s, t), u)
  <2> SUFFICES ASSUME NEW s \in Seq(Items), NEW t \in Seq(Items), NEW u \in Seq(Items)
               PROVE  s \o (t \o u) = (s \o t) \o u
    BY SMTT(60) DEF Cat
  <2> QED
    OBVIOUS
<1>3. \A s \in Seq(Items) : Cat(<<>>, s) = s /\ Cat(s, <<>>) = s
  BY DEF Cat
<1>4. \A d \in Items : One(d) \in Seq(Items)
  BY DEF One
<1>5. \A s \in Seq(Items), d \in Items : Put(s, d) = Cat(s, One(d))
  BY DEF Put, Cat, One
<1>6. \A s \in Seq(Items) : s # <<>> => First(s) \in Items /\ Rest(s) \in Seq(Items) /\ s = Cat(One(First(s)), Rest(s))
  BY DEF First, Rest, Cat, One
<1> QED
  BY <1>1, <1>2, <1>3, <1>4, <1>5, <1>6

LEMMA CatAssoc ==
  ASSUME NEW s \in Seq(Items), NEW t \in Seq(Items), NEW u \in Seq(Items)
  PROVE  Cat(s, Cat(t, u)) = Cat(Cat(s, t), u)
BY DEF Cat

\* What is no packet of a peer does not count.
LEMMA DropUnknown ==
  ASSUME NEW x \in Seq(Items), NEW y \in Seq(Items), NEW d \in Items, ~Known(d)
  PROVE  /\ Sorted(Cat(x, Cat(One(d), y))) <=> Sorted(Cat(x, y))
         /\ KnownOf(Cat(x, Cat(One(d), y))) = KnownOf(Cat(x, y))
<1> DEFINE z == Cat(x, Cat(One(d), y))
           w == Cat(x, y)
           m == Len(x)
           k == Len(x) + Len(y)
<1>1. m \in Nat /\ k \in Nat /\ m <= k
  OBVIOUS
<1>2. DOMAIN z = 1 .. k + 1 /\ DOMAIN w = 1 .. k
  BY DEF Cat, One
<1>3. \A i \in 1 .. m : z[i] = w[i]
  BY DEF Cat, One
<1>4. z[m + 1] = d
  BY DEF Cat, One
<1>5. \A i \in m + 1 .. k : z[i + 1] = w[i]
  BY DEF Cat, One
<1> HIDE DEF z, w, m, k
<1>6. \A i \in DOMAIN w : \E j \in DOMAIN z : z[j] = w[i] /\ j = (IF i <= m THEN i ELSE i + 1)
  BY <1>1, <1>2, <1>3, <1>5, SMTT(60)
<1>7. \A j \in DOMAIN z : Known(z[j]) => \E i \in DOMAIN w : w[i] = z[j] /\ i = (IF j <= m THEN j ELSE j - 1) /\ j # m + 1
  <2> SUFFICES ASSUME NEW j \in DOMAIN z, Known(z[j])
               PROVE  \E i \in DOMAIN w : w[i] = z[j] /\ i = (IF j <= m THEN j ELSE j - 1) /\ j # m + 1
    OBVIOUS
  <2>1. j # m + 1
    BY <1>4
  <2>2. CASE j <= m
    BY <1>1, <1>2, <1>3, <2>1, <2>2
  <2>3. CASE j > m + 1
    <3>1. j - 1 \in m + 1 .. k /\ (j - 1) + 1 = j /\ j - 1 \in DOMAIN w
      BY <1>1, <1>2, <2>3
    <3> QED
      BY <1>1, <1>2, <1>5, <2>1, <2>3, <3>1
  <2> QED
    BY <1>1, <1>2, <2>1, <2>2, <2>3, SMTT(60)
<1>8. ASSUME Sorted(z) PROVE Sorted(w)
  <2> SUFFICES ASSUME NEW i \in DOMAIN w, NEW j \in DOMAIN w, i < j, Known(w[i]), Known(w[j])
               PROVE  w[i][3] < w[j][3]
    BY DEF Sorted
  <2>1. PICK a \in DOMAIN z : z[a] = w[i] /\ a = (IF i <= m THEN i ELSE i + 1)
    BY <1>6
  <2>2. PICK b \in DOMAIN z : z[b] = w[j] /\ b = (IF j <= m THEN j ELSE j + 1)
    BY <1>6
  <2>3. a < b
    BY <1>1, <1>2, <2>1, <2>2
  <2>4. z[a][3] < z[b][3]
    BY <1>8, <2>1, <2>2, <2>3 DEF Sorted
  <2> QED
    BY <2>1, <2>2, <2>4
<1>9. ASSUME Sorted(w) PROVE Sorted(z)
  <2> SUFFICES ASSUME NEW i \in DOMAIN z, NEW j \in DOMAIN z, i < j, Known(z[i]), Known(z[j])
               PROVE  z[i][3] < z[j][3]
    BY DEF Sorted
  <2>1. PICK a \in DOMAIN w : w[a] = z[i] /\ a = (IF i <= m THEN i ELSE i - 1) /\ i # m + 1
    BY <1>7
  <2>2. PICK b \in DOMAIN w : w[b] = z[j] /\ b = (IF j <= m THEN j ELSE j - 1) /\ j # m + 1
    BY <1>7
  <2>3. a < b
    BY <1>1, <1>2, <2>1, <2>2
  <2>4. w[a][3] < w[b][3]
    BY <1>9, <2>1, <2>2, <2>3 DEF Sorted
  <2> QED
    BY <2>1, <2>2, <2>4
<1>10. KnownOf(z) = KnownOf(w)
  BY <1>6, <1>7 DEF KnownOf, Range
<1> QED
  BY <1>8, <1>9, <1>10 DEF z, w

\* A packet later than all others may come last.
LEMMA AddLatest ==
  ASSUME NEW s \in Seq(Items), NEW d \in Items, Sorted(s),
         Known(d) => \A e \in KnownOf(s) : e[3] < d[3]
  PROVE  /\ Sorted(Put(s, d))
         /\ KnownOf(Put(s, d)) = KnownOf(s) \cup {e \in {d} : Known(e)}
<1> DEFINE t == Put(s, d)
           m == Len(s)
<1>1. m \in Nat /\ DOMAIN s = 1 .. m /\ DOMAIN t = 1 .. m + 1 /\ t[m + 1] = d /\ \A i \in 1 .. m : t[i] = s[i]
  BY DEF Put
<1> HIDE DEF t, m
<1>2. Sorted(t)
  <2> SUFFICES ASSUME NEW i \in DOMAIN t, NEW j \in DOMAIN t, i < j, Known(t[i]), Known(t[j])
               PROVE  t[i][3] < t[j][3]
    BY DEF Sorted
  <2>1. i \in 1 .. m /\ t[i] = s[i]
    BY <1>1
  <2>2. CASE j <= m
    BY <1>1, <2>1, <2>2 DEF Sorted
  <2>3. CASE j = m + 1
    BY <1>1, <2>1, <2>3 DEF KnownOf, Range
  <2> QED
    BY <1>1, <2>2, <2>3
<1>3. Range(t) = Range(s) \cup {d}
  BY <1>1 DEF Range
<1> QED
  BY <1>2, <1>3 DEF KnownOf, t

InOrder == Sorted(Inbound) /\ KnownOf(Inbound) = KnownOf(heard)

LEMMA InboundCat ==
  Inbound = Cat(written, Cat(tunOut, Cat(pendTun["enc"], Cat(One(got["enc"]), netIn))))
BY DEF Inbound, Cat, One

\* The last two parts, behind all others.
LEMMA CatFront ==
  ASSUME NEW a \in Seq(Items), NEW b \in Seq(Items), NEW c \in Seq(Items), NEW z \in Seq(Items)
  PROVE  Cat(a, Cat(b, Cat(c, z))) = Cat(Cat(a, Cat(b, c)), z)
<1>1. Cat(b, c) \in Seq(Items) /\ Cat(b, Cat(c, z)) = Cat(Cat(b, c), z)
  BY CatFacts
<1> QED
  BY <1>1, CatFacts

\* The head of one part moves to the end of the part before it.
LEMMA CatMove ==
  ASSUME NEW a \in Seq(Items), NEW b \in Seq(Items), b # <<>>, NEW z \in Seq(Items)
  PROVE  Cat(Put(a, First(b)), Cat(Rest(b), z)) = Cat(a, Cat(b, z))
<1> DEFINE h == One(First(b))
<1>1. First(b) \in Items /\ Rest(b) \in Seq(Items) /\ b = Cat(h, Rest(b)) /\ h \in Seq(Items)
  BY CatFacts, ZenonT(60)
<1>2. Put(a, First(b)) = Cat(a, h)
  BY <1>1, CatFacts
<1> HIDE DEF h
<1>3. Cat(Rest(b), z) \in Seq(Items)
  BY <1>1, CatFacts
<1>4. Cat(Cat(a, h), Cat(Rest(b), z)) = Cat(a, Cat(h, Cat(Rest(b), z)))
  BY <1>1, <1>3, CatFacts
<1>5. Cat(h, Cat(Rest(b), z)) = Cat(Cat(h, Rest(b)), z)
  BY <1>1, CatFacts
<1> QED
  BY <1>1, <1>2, <1>4, <1>5

\* The encrypted loop passes a packet on.
LEMMA WorkEncPass ==
  ASSUME Open, WorkEnc, failed' = {}
  PROVE  \E net \in Seq(Items) : Unlock("enc", net, IF Known(got["enc"]) THEN << got["enc"] >> ELSE <<>>)
<1> DEFINE d == got["enc"]
<1>1. d \in Items /\ <<>> \in Seq(Items)
  BY LoopFacts DEF Open, TypeOK
<1>2. CASE d[1] = NoPeer
  <2>1. Unlock("enc", <<>>, <<>>)
    BY <1>2, PlaneAssumption, ZenonT(60) DEF WorkEnc
  <2>2. ~Known(d)
    BY <1>2, PlaneAssumption, ZenonT(60) DEF Known
  <2> QED
    BY <1>1, <2>1, <2>2, ZenonT(60)
<1>3. CASE d[1] \in Peers
  <2>1. \A out : ~Fail("enc", out) /\ ~Throw("enc", out)
    BY NoThrow, Zenon
  <2>2. Unlock("enc", ToNet(d), ToTun(d))
    BY <1>3, <2>1, PlaneAssumption, ZenonT(60) DEF WorkEnc
  <2>3. ToTun(d) = IF Known(d) THEN <<d>> ELSE <<>>
    BY <1>3 DEF ToTun, Known
  <2>4. ToNet(d) \in Seq(Items)
    BY <1>1, <1>3, FlushFacts DEF Open
  <2> HIDE DEF d
  <2> QED
    BY <2>2, <2>3, <2>4, ZenonT(60) DEF d
<1> QED
  BY <1>1, <1>2, <1>3, ItemFacts, ZenonT(60)

LEMMA InboundStep ==
  ASSUME Open, Step, failed' = {}, InOrder
  PROVE  InOrder'
<1> DEFINE a == written
           b == tunOut
           c == pendTun["enc"]
           g == got["enc"]
           z == netIn
<1>0. /\ a \in Seq(Items) /\ b \in Seq(Items) /\ c \in Seq(Items) /\ z \in Seq(Items)
      /\ g \in Items /\ One(g) \in Seq(Items) /\ One(None) \in Seq(Items)
      /\ got \in [Loops -> Items] /\ pendTun \in [Loops -> Seq(Items)] /\ heard \in Seq(Items)
  BY CatFacts, ItemFacts, LoopFacts, ZenonT(60) DEF Open, TypeOK
<1>1. Inbound = Cat(a, Cat(b, Cat(c, Cat(One(g), z))))
  BY InboundCat
<1>2. Inbound' = Cat(a', Cat(b', Cat(c', Cat(One(g'), z'))))
  BY DEF Inbound, Cat, One
<1>3. ~Known(None)
  BY PlaneAssumption DEF Known, None
<1>4. Cat(One(g), z) \in Seq(Items) /\ Cat(c, Cat(One(g), z)) \in Seq(Items)
  BY <1>0, CatFacts, ZenonT(60)
<1>5. Inbound \in Seq(Items)
  BY <1>0, <1>1, <1>4, CatFacts
<1> HIDE DEF a, b, c, g, z
<1>6. ASSUME Inbound' = Inbound, heard' = heard PROVE InOrder'
  BY <1>6 DEF InOrder
<1>7. ASSUME UNCHANGED <<a, b, c, g, z, heard>> PROVE InOrder'
  BY <1>1, <1>2, <1>6, <1>7
<1>8. ASSUME NEW q, BridgeRead(q) PROVE InOrder'
  BY <1>7, <1>8 DEF BridgeRead, a, b, c, g, z
<1>9. ASSUME NEW q \in Peers \cup {NoPeer}, NEW k \in {"data", "response", "bad"}, UdpReceive(q, k)
      PROVE  InOrder'
  <2> DEFINE d == <<q, k, IF k = "data" THEN Len(heard) + 1 ELSE 0>>
  <2>1. d \in Items /\ d[2] = k /\ (k = "data" => d[3] = Len(heard) + 1)
    BY <1>0, SMTT(60) DEF Items, Kinds
  <2>2. z' = Put(z, d) /\ heard' = Put(heard, d) /\ a' = a /\ b' = b /\ c' = c /\ g' = g
    BY <1>9, SMTT(60) DEF UdpReceive, Put, a, b, c, g, z
  <2> HIDE DEF d
  <2>3. Inbound' = Put(Inbound, d)
    <3>1. One(d) \in Seq(Items) /\ Put(z, d) = Cat(z, One(d)) /\ Put(Inbound, d) = Cat(Inbound, One(d))
      BY <1>0, <1>5, <2>1, CatFacts, ZenonT(60)
    <3>2. Cat(One(g), Cat(z, One(d))) = Cat(Cat(One(g), z), One(d))
      BY <1>0, <3>1, CatAssoc
    <3>3. Cat(c, Cat(Cat(One(g), z), One(d))) = Cat(Cat(c, Cat(One(g), z)), One(d))
      BY <1>0, <1>4, <3>1, CatAssoc
    <3>4. Cat(b, Cat(Cat(c, Cat(One(g), z)), One(d))) = Cat(Cat(b, Cat(c, Cat(One(g), z))), One(d))
      BY <1>0, <1>4, <3>1, CatAssoc
    <3>5. Cat(b, Cat(c, Cat(One(g), z))) \in Seq(Items)
      BY <1>0, <1>4, CatFacts, SMTT(60)
    <3>6. Cat(a, Cat(Cat(b, Cat(c, Cat(One(g), z))), One(d))) = Cat(Cat(a, Cat(b, Cat(c, Cat(One(g), z)))), One(d))
      BY <1>0, <3>1, <3>5, CatAssoc
    <3> QED
      BY <1>1, <1>2, <2>2, <3>1, <3>2, <3>3, <3>4, <3>6, ZenonT(60)
  <2>4. Known(d) => \A e \in KnownOf(Inbound) : e[3] < d[3]
    <3> SUFFICES ASSUME Known(d), NEW e \in KnownOf(heard) PROVE e[3] < d[3]
      BY DEF InOrder
    <3>1. PICK i \in DOMAIN heard : heard[i] = e
      BY DEF KnownOf, Range
    <3>2. e[3] = i /\ i \in 1 .. Len(heard)
      BY <1>0, <3>1 DEF KnownOf, Known, Open, Marked
    <3>3. d[3] = Len(heard) + 1
      BY <2>1 DEF Known
    <3> QED
      BY <1>0, <3>2, <3>3
  <2>5. Sorted(Inbound') /\ KnownOf(Inbound') = KnownOf(Inbound) \cup {e \in {d} : Known(e)}
    BY <1>5, <2>1, <2>3, <2>4, AddLatest DEF InOrder
  <2>6. KnownOf(heard') = KnownOf(heard) \cup {e \in {d} : Known(e)}
    <3>1. Range(heard') = Range(heard) \cup {d}
      <4> DEFINE m == Len(heard)
      <4>a. heard' = Append(heard, d)
        BY <2>2 DEF Put
      <4>1. /\ m \in Nat /\ DOMAIN heard = 1 .. m /\ DOMAIN heard' = 1 .. m + 1 /\ heard'[m + 1] = d
            /\ \A i \in 1 .. m : heard'[i] = heard[i]
        BY <1>0, <2>1, <4>a
      <4> HIDE DEF m
      <4> QED
        BY <4>1, SMTT(60) DEF Range
    <3> QED
      BY <3>1 DEF KnownOf
  <2> QED
    BY <2>5, <2>6, SMTT(60) DEF InOrder
<1>10. CASE BridgeWrite
  <2>1. b # <<>> /\ a' = Put(a, First(b)) /\ b' = Rest(b) /\ c' = c /\ g' = g /\ z' = z /\ heard' = heard
    BY <1>10 DEF BridgeWrite, Put, First, Rest, a, b, c, g, z
  <2>2. Inbound' = Inbound
    BY <1>0, <1>1, <1>2, <1>4, <2>1, CatMove
  <2> QED
    BY <1>6, <2>1, <2>2
<1>11. CASE UdpSend
  BY <1>7, <1>11 DEF UdpSend, a, b, c, g, z
<1>12. ASSUME NEW l \in Loops, Lock(l) PROVE InOrder'
  BY <1>7, <1>12 DEF Lock, pipes, history, a, b, c, g, z
<1>13. ASSUME NEW l \in Loops, Send(l) PROVE InOrder'
  <2>0. heard' = heard /\ a' = a /\ g' = g /\ z' = z
    BY <1>13 DEF Send, history, a, g, z
  <2>1. CASE pendNet[l] # <<>>
    BY <1>7, <1>13, <2>0, <2>1 DEF Send, b, c
  <2>2. CASE pendNet[l] = <<>>
    <3>1. l = "enc" /\ c # <<>>
      BY <1>13, <2>2 DEF Send, Open, Rounds, Loops, c
    <3>2. b' = Put(b, First(c)) /\ c' = Rest(c)
      BY <1>0, <1>13, <2>2, <3>1, LoopFacts DEF Send, Put, First, Rest, b, c
    <3>3. Cat(b', Cat(c', Cat(One(g), z))) = Cat(b, Cat(c, Cat(One(g), z)))
      BY <1>0, <1>4, <3>1, <3>2, CatMove
    <3> QED
      BY <1>1, <1>2, <1>6, <2>0, <3>3
  <2> QED
    BY <2>1, <2>2
<1>14. ASSUME NEW l \in Loops, Take(l) PROVE InOrder'
  <2>0. heard' = heard /\ a' = a /\ b' = b /\ c' = c
    BY <1>14 DEF Take, history, a, b, c
  <2>1. CASE l # "enc"
    <3>1. g' = g /\ z' = z
      BY <1>0, <1>14, <2>1, LoopFacts DEF Take, g, z
    <3> QED
      BY <1>7, <2>0, <3>1
  <2>2. CASE l = "enc"
    <3> DEFINE x == Cat(a, Cat(b, c))
    <3>1. z # <<>> /\ g' = First(z) /\ z' = Rest(z) /\ g = None
      BY <1>0, <1>14, <2>2, LoopFacts DEF Take, First, Rest, Open, Rounds, g, z
    <3>2. x \in Seq(Items)
      BY <1>0, CatFacts
    <3>3. Cat(One(g'), z') = z
      BY <1>0, <3>1, CatFacts
    <3>4. Inbound = Cat(x, Cat(One(None), z)) /\ Inbound' = Cat(x, z)
      <4>1. Inbound = Cat(x, Cat(One(g), z))
        BY <1>0, <1>1, <1>4, CatFront
      <4>2. Inbound' = Cat(a, Cat(b, Cat(c, z)))
        BY <1>2, <2>0, <3>3
      <4>3. Cat(a, Cat(b, Cat(c, z))) = Cat(x, z)
        BY <1>0, CatFront, SMTT(60)
      <4> QED
        BY <3>1, <4>1, <4>2, <4>3
    <3> HIDE DEF x
    <3>5. (Sorted(Inbound) <=> Sorted(Inbound')) /\ KnownOf(Inbound) = KnownOf(Inbound')
      BY <1>0, <1>3, <3>2, <3>4, DropUnknown, ItemFacts, ZenonT(60)
    <3> QED
      BY <2>0, <3>5 DEF InOrder
  <2> QED
    BY <2>1, <2>2
<1>15. ASSUME NEW l \in Loops, l # "enc", NEW net, Unlock(l, net, <<>>) PROVE InOrder'
  <2>1. c' = c /\ g' = g
    <3>1. "enc" \in Loops
      BY LoopFacts
    <3> QED
      BY <1>0, <1>15, <3>1 DEF Unlock, c, g
  <2>2. a' = a /\ b' = b /\ z' = z /\ heard' = heard
    BY <1>15 DEF Unlock, pipes, history, a, b, z
  <2> QED
    BY <1>7, <2>1, <2>2
<1>16. CASE WorkClear
  <2>1. PICK net : Unlock("clear", net, <<>>)
    BY <1>16, NoThrow, Zenon DEF WorkClear, Encrypt
  <2> QED
    BY <1>15, <2>1, LoopFacts
<1>17. CASE WorkTimer
  <2>1. PICK net : Unlock("timer", net, <<>>)
    BY <1>17, NoThrow, Zenon DEF WorkTimer
  <2> QED
    BY <1>15, <2>1, LoopFacts
<1>18. CASE WorkEnc
  <2> DEFINE x == Cat(a, b)
             tun == IF Known(g) THEN One(g) ELSE <<>>
  <2>1. PICK net \in Seq(Items) : Unlock("enc", net, tun)
    BY <1>18, WorkEncPass DEF g, One
  <2>2. /\ a' = a /\ b' = b /\ z' = z /\ heard' = heard
        /\ c' = tun /\ g' = None /\ c = <<>>
    BY <1>0, <2>1, LoopFacts DEF Unlock, pipes, history, Open, Rounds, a, b, z, c, g
  <2>3. x \in Seq(Items) /\ Cat(One(None), z) \in Seq(Items)
    BY <1>0, CatFacts
  <2>4. Inbound = Cat(x, Cat(One(g), z))
    <3>1. Cat(<<>>, Cat(One(g), z)) = Cat(One(g), z)
      BY <1>4, CatFacts
    <3> QED
      BY <1>0, <1>1, <1>4, <2>2, <3>1, CatFacts
  <2>5. CASE Known(g)
    <3> DEFINE y == Cat(x, One(g))
    <3>1. Inbound = Cat(y, z) /\ y \in Seq(Items)
      BY <1>0, <2>3, <2>4, CatFacts
    <3>2. Inbound' = Cat(a, Cat(b, Cat(One(g), Cat(One(None), z))))
      BY <1>2, <2>2, <2>5
    <3>3. Cat(a, Cat(b, Cat(One(g), Cat(One(None), z)))) = Cat(Cat(a, Cat(b, One(g))), Cat(One(None), z))
      BY <1>0, <2>3, CatFront
    <3>4. Cat(a, Cat(b, One(g))) = y
      BY <1>0, CatFacts
    <3>5. Inbound' = Cat(y, Cat(One(None), z))
      BY <3>2, <3>3, <3>4, SMTT(60)
    <3> HIDE DEF y
    <3>6. (Sorted(Inbound) <=> Sorted(Inbound')) /\ KnownOf(Inbound) = KnownOf(Inbound')
      BY <1>0, <1>3, <3>1, <3>5, DropUnknown, ItemFacts, ZenonT(60)
    <3> QED
      BY <2>2, <3>6 DEF InOrder
  <2>6. CASE ~Known(g)
    <3>1. Inbound' = Cat(x, Cat(One(None), z))
      <4>1. Cat(<<>>, Cat(One(None), z)) = Cat(One(None), z)
        BY <2>3, CatFacts
      <4>2. Inbound' = Cat(a, Cat(b, Cat(One(None), z)))
        BY <1>2, <2>2, <2>6, <4>1
      <4> QED
        BY <1>0, <2>3, <4>2, CatFacts
    <3> HIDE DEF x
    <3>2. (Sorted(Inbound) <=> Sorted(Cat(x, z))) /\ KnownOf(Inbound) = KnownOf(Cat(x, z))
      BY <1>0, <2>3, <2>4, <2>6, DropUnknown, SMTT(60)
    <3>3. (Sorted(Inbound') <=> Sorted(Cat(x, z))) /\ KnownOf(Inbound') = KnownOf(Cat(x, z))
      BY <1>0, <1>3, <2>3, <3>1, DropUnknown, ItemFacts, ZenonT(60)
    <3> QED
      BY <2>2, <3>2, <3>3 DEF InOrder
  <2> QED
    BY <2>5, <2>6
<1> QED
  BY <1>8, <1>9, <1>10, <1>11, <1>12, <1>13, <1>14, <1>16, <1>17, <1>18, SMTT(60) DEF Step, Loop

-----------------------------------------------------------------------------
\* Until a loop fails: the rounds of the loops, and the order.
FlowInv == failed = {} => Open /\ InOrder

LEMMA FlowAlways == Spec => []FlowInv
<1>1. Init => FlowInv
  <2> SUFFICES ASSUME Init PROVE Open /\ InOrder
    BY DEF FlowInv
  <2>1. ~Known(None)
    BY PlaneAssumption DEF Known, None
  <2>2. Inbound = <<None>> /\ heard = <<>>
    BY LoopFacts DEF Init, Inbound
  <2>3. InOrder
    BY <2>1, <2>2 DEF InOrder, Sorted, KnownOf, Range
  <2> QED
    BY <2>3, OpenInit
<1>2. FlowInv /\ [Next]_vars => FlowInv'
  <2> SUFFICES ASSUME FlowInv, [Next]_vars, failed' = {} PROVE Open' /\ InOrder'
    BY DEF FlowInv
  <2>1. CASE Next
    <3>1. Open /\ InOrder /\ Step
      BY <2>1 DEF Next, FlowInv
    <3> QED
      BY <3>1, OpenStep, InboundStep
  <2>2. CASE UNCHANGED vars
    <3> USE <2>2 DEF vars, pipes, tunnels, history
    <3>1. Open /\ InOrder
      BY DEF FlowInv
    <3>2. Open'
      BY <3>1, ZenonT(60) DEF Open, TypeOK, Rounds, Marked
    <3>3. InOrder'
      BY <3>1 DEF InOrder, Inbound
    <3> QED
      BY <3>2, <3>3
  <2> QED
    BY <2>1, <2>2
<1> QED
  BY <1>1, <1>2, PTL DEF Spec

\* For any peers, channel capacity and flush limit: until a loop fails,
\* peers' packets reach the daemon in the order of their datagrams, none lost
\* and none repeated.
THEOREM PacketsArriveInOrder == Spec => []InboundInOrder
<1>1. FlowInv => InboundInOrder
  BY DEF FlowInv, InOrder, InboundInOrder, Sorted, KnownOf
<1> QED
  BY <1>1, FlowAlways, PTL
=============================================================================
