------------------------ MODULE DataPlaneCountProofs ------------------------
(***************************************************************************)
(* Further invariance proofs for DataPlane, which count packets: each one  *)
(* on its way out is in one place, and the statistics match the traffic.   *)
(***************************************************************************)
EXTENDS DataPlaneProofs, FiniteSetTheorems

(* Counting the elements of a sequence that are in a set.                  *)

\* The positions that Number counts.
Places(s, S) == {i \in DOMAIN s : s[i] \in S}

LEMMA PlacesFinite ==
  ASSUME NEW V, NEW S, NEW s \in Seq(V)
  PROVE  IsFiniteSet(Places(s, S)) /\ Number(s, S) = Cardinality(Places(s, S)) /\ Number(s, S) \in Nat
<1>1. IsFiniteSet(1 .. Len(s))
  BY FS_Interval
<1>2. Places(s, S) \subseteq 1 .. Len(s)
  BY DEF Places
<1>3. IsFiniteSet(Places(s, S))
  BY <1>1, <1>2, FS_Subset, Zenon
<1>4. Number(s, S) = Cardinality(Places(s, S))
  BY Zenon DEF Number, Places
<1> QED
  BY <1>3, <1>4, FS_CardinalityType, Zenon

LEMMA NumberEmpty == ASSUME NEW S PROVE Number(<<>>, S) = 0
<1>1. {i \in DOMAIN <<>> : <<>>[i] \in S} = {}
  OBVIOUS
<1> QED
  BY <1>1, FS_EmptySet, Zenon DEF Number

LEMMA NumberOne == ASSUME NEW V, NEW S, NEW d \in V PROVE Number(<<d>>, S) = IF d \in S THEN 1 ELSE 0
<1>1. {i \in DOMAIN <<d>> : <<d>>[i] \in S} = IF d \in S THEN {1} ELSE {}
  OBVIOUS
<1> QED
  BY <1>1, FS_EmptySet, FS_Singleton, Zenon DEF Number

\* The elements of a concatenation are those of its parts.
LEMMA NumberConcat ==
  ASSUME NEW V, NEW S, NEW s \in Seq(V), NEW t \in Seq(V)
  PROVE  Number(s \o t, S) = Number(s, S) + Number(t, S)
<1> DEFINE A == Places(s, S)
           B == Places(t, S)
           C == {Len(s) + j : j \in B}
           f == [j \in B |-> Len(s) + j]
<1>1. Places(s \o t, S) = A \cup C
  <2>1. \A i \in 1 .. Len(s) : (s \o t)[i] = s[i]
    OBVIOUS
  <2>2. \A j \in 1 .. Len(t) : (s \o t)[Len(s) + j] = t[j]
    OBVIOUS
  <2>3. DOMAIN (s \o t) = 1 .. Len(s) + Len(t) /\ DOMAIN s = 1 .. Len(s) /\ DOMAIN t = 1 .. Len(t)
    OBVIOUS
  <2>4. Len(s) \in Nat /\ Len(t) \in Nat
    OBVIOUS
  <2>5. ASSUME NEW i \in Places(s \o t, S) PROVE i \in A \cup C
    <3>1. CASE i <= Len(s)
      BY <2>1, <2>3, <2>4, <2>5, <3>1 DEF Places
    <3>2. CASE i > Len(s)
      <4>1. i - Len(s) \in 1 .. Len(t) /\ i = Len(s) + (i - Len(s))
        BY <2>3, <2>4, <2>5, <3>2 DEF Places
      <4>2. t[i - Len(s)] \in S
        BY <4>1, <2>2, <2>5, Zenon DEF Places
      <4> QED
        BY <4>1, <4>2, <2>3, Zenon DEF Places
    <3> QED
      BY <2>3, <2>4, <2>5, <3>1, <3>2 DEF Places
  <2>6. ASSUME NEW i \in A PROVE i \in Places(s \o t, S)
    BY <2>1, <2>3, <2>4, <2>6 DEF Places
  <2>7. ASSUME NEW j \in B PROVE Len(s) + j \in Places(s \o t, S)
    BY <2>2, <2>3, <2>4, <2>7 DEF Places
  <2> QED
    BY <2>5, <2>6, <2>7, Zenon
<1>2. A \cap C = {}
  BY DEF Places
<1>3. Cardinality(C) = Cardinality(B) /\ IsFiniteSet(C)
  <2>1. f \in Bijection(B, C)
    <3>1. \A a, b \in B : f[a] = f[b] => a = b
      BY DEF Places
    <3> QED
      BY <3>1, Zenon DEF Bijection, Injection, Surjection, IsInjective
  <2>2. IsFiniteSet(B)
    BY PlacesFinite, Zenon
  <2> QED
    BY <2>1, <2>2, FS_Bijection, Zenon DEF ExistsBijection
<1>4. /\ IsFiniteSet(A) /\ Number(s, S) = Cardinality(A) /\ Number(s, S) \in Nat
      /\ IsFiniteSet(B) /\ Number(t, S) = Cardinality(B) /\ Number(t, S) \in Nat
  BY PlacesFinite, Zenon
<1>5. Number(s \o t, S) = Cardinality(A \cup C)
  <2>1. s \o t \in Seq(V)
    OBVIOUS
  <2> QED
    BY <1>1, <2>1, PlacesFinite, ZenonT(60)
<1> HIDE DEF A, B, C
<1>6. Cardinality(A \cup C) = Cardinality(A) + Cardinality(C) - Cardinality(A \cap C)
  BY <1>3, <1>4, FS_Union, Zenon
<1>7. Cardinality(A \cap C) = 0
  BY <1>2, FS_EmptySet, ZenonT(60)
<1> QED
  BY <1>3, <1>4, <1>5, <1>6, <1>7

\* A sequence without elements of S.
LEMMA NumberNone ==
  ASSUME NEW V, NEW S, NEW s \in Seq(V), \A i \in DOMAIN s : s[i] \notin S
  PROVE  Number(s, S) = 0
<1>1. {i \in DOMAIN s : s[i] \in S} = {}
  BY Zenon
<1> QED
  BY <1>1, FS_EmptySet, ZenonT(60) DEF Number

\* One packet of a peer to count, and a sequence of one item.
Lone(p, n) == {Data(p, n)}
Single(d, S) == Number(<<d>>, S)

LEMMA ItemCounts ==
  ASSUME NEW S
  PROVE  /\ \A s : s = <<>> => Number(s, S) = 0
         /\ \A d \in Items : Single(d, S) = (IF d \in S THEN 1 ELSE 0) /\ Single(d, S) \in Nat
         /\ \A s \in Seq(Items) : Number(s, S) \in Nat
<1>1. ASSUME NEW s \in Seq(Items) PROVE Number(s, S) \in Nat
  BY PlacesFinite, ZenonT(60)
<1>2. \A d \in Items : Single(d, S) = (IF d \in S THEN 1 ELSE 0)
  BY NumberOne, Zenon DEF Single
<1>3. Number(<<>>, S) = 0
  BY NumberEmpty, Zenon
<1> QED
  BY <1>1, <1>2, <1>3

LEMMA PutCounts ==
  ASSUME NEW S, NEW s \in Seq(Items), NEW d \in Items
  PROVE  Number(Put(s, d), S) = Number(s, S) + Single(d, S) /\ Put(s, d) \in Seq(Items)
<1>1. Put(s, d) = s \o <<d>> /\ <<d>> \in Seq(Items) /\ Put(s, d) \in Seq(Items)
  BY DEF Put
<1> QED
  BY <1>1, NumberConcat, ZenonT(60) DEF Single

LEMMA RestCounts ==
  ASSUME NEW S, NEW s \in Seq(Items), s # <<>>
  PROVE  /\ Number(s, S) = Single(First(s), S) + Number(Rest(s), S)
         /\ First(s) \in Items /\ Rest(s) \in Seq(Items)
<1>1. First(s) \in Items /\ Rest(s) \in Seq(Items)
  BY DEF First, Rest
<1>2. s = <<First(s)>> \o Rest(s)
  BY DEF First, Rest
<1>3. <<First(s)>> \in Seq(Items)
  BY <1>1
<1>4. Number(<<First(s)>> \o Rest(s), S) = Number(<<First(s)>>, S) + Number(Rest(s), S)
  BY <1>1, <1>3, NumberConcat, ZenonT(60)
<1> QED
  BY <1>1, <1>2, <1>4, ZenonT(60) DEF Single

\* The head of one queue goes to the end of another.
LEMMA MoveCounts ==
  ASSUME NEW S, NEW s \in Seq(Items), s # <<>>, NEW t \in Seq(Items)
  PROVE  /\ Number(Rest(s), S) + Number(Put(t, First(s)), S) = Number(s, S) + Number(t, S)
         /\ Number(Rest(s), S) \in Nat /\ Number(Put(t, First(s)), S) \in Nat
<1>1. Number(s, S) = Single(First(s), S) + Number(Rest(s), S) /\ First(s) \in Items /\ Rest(s) \in Seq(Items)
  BY RestCounts, ZenonT(60)
<1>2. Number(Put(t, First(s)), S) = Number(t, S) + Single(First(s), S)
  BY <1>1, PutCounts, Zenon
<1>3. Single(First(s), S) \in Nat /\ Number(Rest(s), S) \in Nat /\ Number(t, S) \in Nat
  BY <1>1, ItemCounts, ZenonT(60)
<1> QED
  BY <1>1, <1>2, <1>3

LEMMA LoneFacts ==
  ASSUME NEW p, NEW n, NEW d, d # Data(p, n)
  PROVE  d \notin Lone(p, n)
BY Zenon DEF Lone

-----------------------------------------------------------------------------
(* What the steps of the loops move from one place to the next.            *)

LEMMA LeavingAdds ==
  ASSUME Open, NEW l \in Loops, NEW net \in Seq(Items), NEW tun, Unlock(l, net, tun), NEW CONSTANT S
  PROVE  Leaving(S)' = Leaving(S) + Number(net, S) /\ Leaving(S) \in Nat
<1>1. pendNet[l] = <<>>
  BY Zenon DEF Open, Rounds, Unlock
<1>2. pendNet' = [pendNet EXCEPT ![l] = net] /\ UNCHANGED <<sent, netOut>>
  BY Zenon DEF Unlock, pipes, history
<1>3. Number(<<>>, S) = 0
  BY NumberEmpty, Zenon
<1>4. /\ \A m \in Loops : Number(pendNet[m], S) \in Nat
      /\ Number(sent, S) \in Nat /\ Number(netOut, S) \in Nat /\ Number(net, S) \in Nat
  BY ItemCounts, ZenonT(60) DEF Open, TypeOK
<1>5. pendNet \in [Loops -> Seq(Items)]
  BY Zenon DEF Open, TypeOK
<1>6. CASE l = "clear"
  BY <1>1, <1>2, <1>3, <1>4, <1>5, <1>6, LoopFacts DEF Leaving
<1>7. CASE l = "enc"
  BY <1>1, <1>2, <1>3, <1>4, <1>5, <1>7, LoopFacts, SMTT(60) DEF Leaving
<1>8. CASE l = "timer"
  BY <1>1, <1>2, <1>3, <1>4, <1>5, <1>8, LoopFacts, SMTT(60) DEF Leaving
<1> QED
  BY <1>6, <1>7, <1>8, SMTT(60) DEF Loops

LEMMA LeavingMoves ==
  ASSUME Open, NEW CONSTANT S, UdpSend \/ \E l \in Loops : Send(l)
  PROVE  Leaving(S)' = Leaving(S)
<1>1. /\ \A m \in Loops : pendNet[m] \in Seq(Items) /\ Number(pendNet[m], S) \in Nat
      /\ Number(sent, S) \in Nat /\ Number(netOut, S) \in Nat /\ sent \in Seq(Items) /\ netOut \in Seq(Items)
      /\ pendNet \in [Loops -> Seq(Items)]
  BY ItemCounts, ZenonT(60) DEF Open, TypeOK
<1>2. CASE UdpSend
  <2>1. netOut # <<>> /\ netOut' = Rest(netOut) /\ sent' = Put(sent, First(netOut)) /\ UNCHANGED pendNet
    BY <1>2, SMTT(60) DEF UdpSend, Rest, Put, First
  <2>2. /\ Number(netOut', S) + Number(sent', S) = Number(netOut, S) + Number(sent, S)
        /\ Number(netOut', S) \in Nat /\ Number(sent', S) \in Nat
    BY <1>1, <2>1, MoveCounts, ZenonT(60)
  <2> QED
    BY <1>1, <2>1, <2>2, LoopFacts DEF Leaving
<1>3. ASSUME NEW l \in Loops, Send(l) PROVE Leaving(S)' = Leaving(S)
  <2>1. CASE pendNet[l] = <<>>
    BY <1>3, <2>1, Zenon DEF Send, history, Leaving
  <2>2. CASE pendNet[l] # <<>>
    <3>1. /\ netOut' = Put(netOut, First(pendNet[l])) /\ UNCHANGED sent
          /\ pendNet'[l] = Rest(pendNet[l]) /\ \A m \in Loops \ {l} : pendNet'[m] = pendNet[m]
      BY <1>1, <1>3, <2>2, SMTT(60) DEF Send, history, Put, First, Rest
    <3>2. /\ Number(pendNet'[l], S) + Number(netOut', S) = Number(pendNet[l], S) + Number(netOut, S)
          /\ Number(pendNet'[l], S) \in Nat /\ Number(netOut', S) \in Nat
      BY <1>1, <2>2, <3>1, MoveCounts, ZenonT(60)
    <3>3. /\ Number(pendNet["clear"], S) \in Nat /\ Number(pendNet["enc"], S) \in Nat
          /\ Number(pendNet["timer"], S) \in Nat /\ Number(sent, S) \in Nat /\ Number(netOut, S) \in Nat
      BY <1>1, LoopFacts, Zenon
    <3>4. sent' = sent
      BY <3>1, Zenon
    <3>5. CASE l = "clear"
      <4>1. pendNet'["enc"] = pendNet["enc"] /\ pendNet'["timer"] = pendNet["timer"]
        BY <3>1, <3>5, LoopFacts, SMTT(60)
      <4> QED
        BY <3>2, <3>3, <3>4, <3>5, <4>1, SMTT(60) DEF Leaving
    <3>6. CASE l = "enc"
      <4>1. pendNet'["clear"] = pendNet["clear"] /\ pendNet'["timer"] = pendNet["timer"]
        BY <3>1, <3>6, LoopFacts, SMTT(60)
      <4> QED
        BY <3>2, <3>3, <3>4, <3>6, <4>1 DEF Leaving
    <3>7. CASE l = "timer"
      <4>1. pendNet'["clear"] = pendNet["clear"] /\ pendNet'["enc"] = pendNet["enc"]
        BY <3>1, <3>7, LoopFacts, SMTT(60)
      <4> QED
        BY <3>2, <3>3, <3>4, <3>7, <4>1 DEF Leaving
    <3> QED
      BY <3>5, <3>6, <3>7, SMTT(60) DEF Loops
  <2> QED
    BY <2>1, <2>2, SMTT(60)
<1> QED
  BY <1>2, <1>3, Zenon

\* The packets of S that the tunnel of p was handed and that wait or were
\* refused.
Handed(p, S) == Number(backlog[p], S) + Number(dropped[p], S)

\* A packet of a peer leaves the cleartext loop for the network or for the
\* tunnel.
LEMMA WorkClearFlow ==
  ASSUME Open, WorkClear, failed' = {}, NEW p \in Peers, NEW n \in Nat
  PROVE  \E net \in Seq(Items) :
           /\ Unlock("clear", net, <<>>)
           /\ Number(net, Lone(p, n)) + Handed(p, Lone(p, n))'
                = Handed(p, Lone(p, n)) + Single(got["clear"], Lone(p, n))
<1> DEFINE d == got["clear"]
           q == d[1]
           S == Lone(p, n)
<1>1. d \in Items /\ <<>> \in Seq(Items) /\ backlog[p] \in Seq(Items) /\ dropped[p] \in Seq(Items)
  BY LoopFacts DEF Open, TypeOK
<1>2. /\ Number(backlog[p], S) \in Nat /\ Number(dropped[p], S) \in Nat /\ Number(<<>>, S) = 0
      /\ Single(d, S) \in Nat /\ Single(d, S) = (IF d \in S THEN 1 ELSE 0)
  BY <1>1, ItemCounts, ZenonT(60)
<1>a. \A net : ~Throw("clear", net)
  BY NoThrow, Zenon
<1>3. CASE q = NoPeer
  <2>1. Unlock("clear", <<>>, <<>>) /\ backlog' = backlog /\ dropped' = dropped
    BY <1>3, PlaneAssumption, Zenon DEF WorkClear, tunnels
  <2>2. d # Data(p, n)
    BY <1>3, PlaneAssumption DEF Data
  <2>3. Single(d, S) = 0
    BY <1>2, <2>2, LoneFacts, SMTT(60)
  <2> HIDE DEF S, d
  <2>4. Number(<<>>, S) + Handed(p, S)' = Handed(p, S) + Single(d, S)
    BY <1>2, <2>1, <2>3 DEF Handed
  <2> QED
    BY <1>1, <2>1, <2>4, Zenon DEF S, d
<1>4. CASE q \in Peers /\ q \in established
  <2>1. Unlock("clear", <<d>>, <<>>) /\ backlog' = backlog /\ dropped' = dropped
    BY <1>4, <1>a, PlaneAssumption, Zenon DEF WorkClear, Encrypt, tunnels
  <2>2. <<d>> \in Seq(Items)
    BY <1>1
  <2>3. Number(<<d>>, S) = Single(d, S)
    BY Zenon DEF Single
  <2>4. Number(<<d>>, S) + Handed(p, S)' = Handed(p, S) + Single(d, S)
    <3> HIDE DEF S, d
    <3> QED
      BY <1>2, <2>1, <2>3, SMTT(60) DEF Handed
  <2> QED
    BY <2>1, <2>2, <2>4, Zenon
<1>5. CASE q \in Peers /\ q \notin established
  <2> DEFINE init == <<q, "init", 0>>
             net == IF q \in trying THEN <<>> ELSE <<init>>
  <2>1. /\ Unlock("clear", net, <<>>)
        /\ \/ backlog' = [backlog EXCEPT ![q] = Put(backlog[q], d)] /\ dropped' = dropped
           \/ dropped' = [dropped EXCEPT ![q] = Put(dropped[q], d)] /\ backlog' = backlog
    BY <1>5, <1>a, PlaneAssumption, ZenonT(60) DEF WorkClear, Encrypt, Wait, Put
  <2>2. init \in Items /\ init # Data(p, n)
    BY <1>5, ItemFacts, ZenonT(60) DEF Data
  <2>3. net \in Seq(Items)
    BY <1>1, <2>2
  <2>4. Number(net, S) = 0
    <3>1. Single(init, S) = 0
      <4> HIDE DEF init, S
      <4> QED
        BY <2>2, ItemCounts, LoneFacts, ZenonT(60) DEF S
    <3>2. CASE q \in trying
      BY <1>2, <3>2, Zenon
    <3>3. CASE q \notin trying
      BY <3>1, <3>3, SMTT(60) DEF Single
    <3> QED
      BY <3>2, <3>3, Zenon
  <2>5. Handed(p, S)' = Handed(p, S) + Single(d, S)
    <3> HIDE DEF S
    <3>1. CASE p = q
      <4>0. backlog \in [Peers -> Seq(Items)] /\ dropped \in [Peers -> Seq(Items)]
        BY Zenon DEF Open, TypeOK
      <4>1. \/ backlog'[p] = Put(backlog[p], d) /\ dropped'[p] = dropped[p]
            \/ dropped'[p] = Put(dropped[p], d) /\ backlog'[p] = backlog[p]
        BY <2>1, <3>1, <4>0, Zenon
      <4>2. /\ Number(Put(backlog[p], d), S) = Number(backlog[p], S) + Single(d, S)
            /\ Number(Put(dropped[p], d), S) = Number(dropped[p], S) + Single(d, S)
        BY <1>1, PutCounts, Zenon
      <4> HIDE DEF d
      <4> QED
        BY <1>2, <4>1, <4>2, SMTT(60) DEF Handed
    <3>2. CASE p # q
      <4>1. backlog'[p] = backlog[p] /\ dropped'[p] = dropped[p]
        BY <2>1, <3>2, Zenon DEF Open, TypeOK
      <4>2. d # Data(p, n)
        BY <3>2, SMTT(60) DEF Data
      <4>3. Single(d, S) = 0
        BY <1>2, <4>2, LoneFacts, Zenon DEF S
      <4> HIDE DEF d
      <4> QED
        BY <1>2, <4>1, <4>3, SMTT(60) DEF Handed
    <3> QED
      BY <3>1, <3>2, SMTT(60)
  <2> HIDE DEF S, d, net
  <2>6. Number(net, S) + Handed(p, S)' = Handed(p, S) + Single(d, S)
    BY <1>2, <2>4, <2>5, SMTT(60) DEF Handed
  <2> QED
    BY <2>1, <2>3, <2>6, Zenon DEF S, d
<1> QED
  BY <1>1, <1>3, <1>4, <1>5, ItemFacts, ZenonT(60)

\* The encrypted loop counts the datagram.
LEMMA WorkEncStat ==
  ASSUME Open, WorkEnc, failed' = {}, NEW p \in Peers
  PROVE  rx'[p] = rx[p] + Single(got["enc"], Of(p))
<1> DEFINE d == got["enc"]
           q == d[1]
<1>1. d \in Items /\ rx \in [Peers -> Nat]
  BY LoopFacts, Zenon DEF Open, TypeOK
<1>2. Single(d, Of(p)) = (IF d \in Of(p) THEN 1 ELSE 0)
  BY <1>1, ItemCounts, ZenonT(60)
<1>3. d \in Of(p) <=> p = q
  BY <1>1, Zenon DEF Items, Of
<1>4. CASE q = NoPeer
  <2>1. rx' = rx
    BY <1>4, PlaneAssumption, ZenonT(60) DEF WorkEnc
  <2>2. Single(d, Of(p)) = 0
    BY <1>2, <1>3, <1>4, PlaneAssumption, Zenon
  <2> HIDE DEF d
  <2> QED
    BY <1>1, <2>1, <2>2 DEF d
<1>5. CASE q \in Peers
  <2>1. rx' = [rx EXCEPT ![q] = @ + 1]
    BY <1>5, PlaneAssumption, ZenonT(60) DEF WorkEnc
  <2> QED
    BY <1>1, <1>2, <1>3, <1>5, <2>1
<1> QED
  BY <1>1, <1>4, <1>5, ItemFacts, ZenonT(60)

\* It also flushes the backlog of the sender.
LEMMA WorkEncFlush ==
  ASSUME Open, WorkEnc, failed' = {}, NEW p \in Peers, NEW n \in Nat
  PROVE  \E net \in Seq(Items), tun \in Seq(Items) :
           /\ Unlock("enc", net, tun)
           /\ Number(net, Lone(p, n)) + Number(backlog'[p], Lone(p, n)) = Number(backlog[p], Lone(p, n))
           /\ dropped' = dropped
<1> DEFINE d == got["enc"]
           q == d[1]
           S == Lone(p, n)
<1>1. /\ d \in Items /\ <<>> \in Seq(Items)
      /\ backlog \in [Peers -> Seq(Items)] /\ \A r \in Peers : backlog[r] \in Seq(Items)
  BY LoopFacts DEF Open, TypeOK
<1>2. Number(<<>>, S) = 0 /\ \A r \in Peers : Number(backlog[r], S) \in Nat
  BY <1>1, ItemCounts, ZenonT(60)
<1>3. CASE q = NoPeer
  <2>1. Unlock("enc", <<>>, <<>>) /\ backlog' = backlog /\ dropped' = dropped
    BY <1>3, PlaneAssumption, ZenonT(60) DEF WorkEnc, tunnels
  <2> HIDE DEF S, d
  <2>2. Number(<<>>, S) + Number(backlog'[p], S) = Number(backlog[p], S)
    BY <1>2, <2>1, SMTT(60)
  <2> QED
    BY <1>1, <2>1, <2>2, ZenonT(60) DEF S
<1>4. CASE q \in Peers
  <2> DEFINE alive == <<q, "keepalive", 0>>
             first == IF d[2] = "response" THEN <<alive>> ELSE <<>>
             net == ToNet(d)
             tun == ToTun(d)
  <2>1. \A out : ~Fail("enc", out) /\ ~Throw("enc", out)
    BY NoThrow, Zenon
  <2>2. Unlock("enc", net, tun) /\ backlog' = [backlog EXCEPT ![q] = <<>>] /\ dropped' = dropped
    BY <1>4, <2>1, PlaneAssumption, ZenonT(60) DEF WorkEnc
  <2>3. net \in Seq(Items) /\ tun \in Seq(Items)
    BY <1>1, <1>4, FlushFacts, ZenonT(60) DEF Open
  <2>4. alive \in Items /\ alive # Data(p, n)
    BY <1>4, ItemFacts, ZenonT(60) DEF Data
  <2>5. first \in Seq(Items) /\ net = first \o backlog[q] /\ backlog[q] \in Seq(Items)
    BY <1>1, <1>4, <2>4 DEF ToNet
  <2>6. Number(first, S) = 0
    <3>1. Single(alive, S) = 0
      <4> HIDE DEF alive, S
      <4> QED
        BY <2>4, ItemCounts, LoneFacts, ZenonT(60) DEF S
    <3>2. CASE d[2] = "response"
      BY <3>1, <3>2, Zenon DEF Single
    <3>3. CASE d[2] # "response"
      BY <1>2, <3>3, Zenon
    <3> QED
      BY <3>2, <3>3, Zenon
  <2> HIDE DEF first, net, tun, S
  <2>7. Number(net, S) = Number(first, S) + Number(backlog[q], S)
    BY <2>5, NumberConcat, Zenon
  <2>8. Number(net, S) = Number(backlog[q], S) /\ Number(backlog[q], S) \in Nat /\ Number(backlog[p], S) \in Nat
    BY <1>2, <1>4, <2>6, <2>7
  <2>9. Number(net, S) + Number(backlog'[p], S) = Number(backlog[p], S)
    <3>1. CASE p = q
      <4>1. backlog'[p] = <<>>
        BY <1>1, <2>2, <3>1, Zenon
      <4> QED
        BY <1>2, <2>8, <3>1, <4>1
    <3>2. CASE p # q
      <4>1. \A i \in DOMAIN backlog[q] : backlog[q][i] \notin S
        <5>1. \A i \in DOMAIN backlog[q] : backlog[q][i] \in Of(q)
          BY <1>4, Zenon DEF Open, Marked
        <5>2. Data(p, n) \notin Of(q)
          BY <3>2, Zenon DEF Data, Of
        <5> QED
          BY <5>1, <5>2, Zenon DEF Lone, S
      <4>2. Number(backlog[q], S) = 0
        BY <2>5, <4>1, NumberNone, Zenon
      <4>3. backlog'[p] = backlog[p]
        BY <1>1, <2>2, <3>2, Zenon
      <4> QED
        BY <2>8, <4>2, <4>3
    <3> QED
      BY <3>1, <3>2, Zenon
  <2> QED
    BY <2>2, <2>3, <2>9, ZenonT(60) DEF S
<1> QED
  BY <1>1, <1>3, <1>4, ItemFacts, ZenonT(60)

\* Timers emit no data.
LEMMA WorkTimerFlow ==
  ASSUME Open, WorkTimer, failed' = {}, NEW p \in Peers, NEW n \in Nat
  PROVE  \E net \in Seq(Items) : Unlock("timer", net, <<>>) /\ Number(net, Lone(p, n)) = 0
<1>1. PICK net \in Seq(Items) : Unlock("timer", net, <<>>) /\ \A i \in DOMAIN net : net[i][2] # "data"
  BY TimerOutFacts, Zenon DEF Open
<1>2. \A i \in DOMAIN net : net[i] \notin Lone(p, n)
  BY <1>1 DEF Data, Lone
<1>3. Number(net, Lone(p, n)) = 0
  BY <1>2, NumberNone, SMTT(60)
<1> QED
  BY <1>1, <1>3, Zenon

-----------------------------------------------------------------------------
(* Every packet on its way out is in one place.                            *)

OutEq(p, n) ==
  Leaving(Lone(p, n)) + Handed(p, Lone(p, n)) + Single(got["clear"], Lone(p, n))
    + Number(tunIn, Lone(p, n)) = Number(read, Lone(p, n))

LEMMA OutboundStep ==
  ASSUME Open, Step, failed' = {}, NEW p \in Peers, NEW n \in Nat, OutEq(p, n)
  PROVE  OutEq(p, n)'
<1> DEFINE S == Lone(p, n)
<1>0. /\ tunIn \in Seq(Items) /\ read \in Seq(Items) /\ backlog[p] \in Seq(Items) /\ dropped[p] \in Seq(Items)
      /\ got["clear"] \in Items /\ got \in [Loops -> Items]
  BY LoopFacts, SMTT(60) DEF Open, TypeOK
<1>1. /\ Number(tunIn, S) \in Nat /\ Number(read, S) \in Nat /\ Handed(p, S) \in Nat
      /\ Single(got["clear"], S) \in Nat
  <2>1. /\ Number(tunIn, S) \in Nat /\ Number(read, S) \in Nat /\ Number(backlog[p], S) \in Nat
        /\ Number(dropped[p], S) \in Nat /\ Single(got["clear"], S) \in Nat
    BY <1>0, ItemCounts, ZenonT(60)
  <2> QED
    BY <2>1 DEF Handed
<1>2. Leaving(S) \in Nat
  <2>1. /\ Number(sent, S) \in Nat /\ Number(netOut, S) \in Nat
        /\ Number(pendNet["clear"], S) \in Nat /\ Number(pendNet["enc"], S) \in Nat
        /\ Number(pendNet["timer"], S) \in Nat
    BY ItemCounts, LoopFacts, ZenonT(60) DEF Open, TypeOK
  <2> QED
    BY <2>1 DEF Leaving
<1>3. Leaving(S) + Handed(p, S) + Single(got["clear"], S) + Number(tunIn, S) = Number(read, S)
  BY Zenon DEF OutEq
<1>4. Single(None, S) = 0
  <2>1. None \in Items /\ None # Data(p, n)
    BY ItemFacts, Zenon DEF None, Data
  <2> QED
    BY <2>1, ItemCounts, LoneFacts, ZenonT(60)
<1> SUFFICES Leaving(S)' + Handed(p, S)' + Single(got'["clear"], S) + Number(tunIn', S) = Number(read', S)
  BY Zenon DEF OutEq
<1> HIDE DEF S
<1>5. ASSUME Leaving(S)' = Leaving(S), UNCHANGED <<backlog, dropped, tunIn, read>>, got'["clear"] = got["clear"]
      PROVE  Leaving(S)' + Handed(p, S)' + Single(got'["clear"], S) + Number(tunIn', S) = Number(read', S)
  BY <1>3, <1>5, Zenon DEF Handed
<1>6. ASSUME NEW q \in Peers \cup {NoPeer}, BridgeRead(q)
      PROVE  Leaving(S)' + Handed(p, S)' + Single(got'["clear"], S) + Number(tunIn', S) = Number(read', S)
  <2> DEFINE d == Data(q, Len(read) + 1)
  <2>1. d \in Items
    BY <1>0, SMTT(60) DEF Items, Kinds, Data
  <2>2. tunIn' = Put(tunIn, d) /\ read' = Put(read, d) /\ UNCHANGED <<backlog, dropped, got>>
    BY <1>6, Zenon DEF BridgeRead, tunnels, Put
  <2>3. Leaving(S)' = Leaving(S)
    BY <1>6, Zenon DEF BridgeRead, Leaving
  <2> HIDE DEF d
  <2>4. Number(tunIn', S) = Number(tunIn, S) + Single(d, S) /\ Number(read', S) = Number(read, S) + Single(d, S)
    BY <1>0, <2>1, <2>2, PutCounts, Zenon
  <2>5. Single(d, S) \in Nat
    BY <2>1, ItemCounts, ZenonT(60)
  <2>6. Handed(p, S)' = Handed(p, S) /\ got' = got
    BY <2>2, Zenon DEF Handed
  <2> QED
    BY <1>1, <1>2, <1>3, <2>3, <2>4, <2>5, <2>6, SMTT(60)
<1>7. ASSUME NEW q, NEW k, UdpReceive(q, k) PROVE Leaving(S)' = Leaving(S) /\ UNCHANGED <<backlog, dropped, got, tunIn, read>>
  BY <1>7, Zenon DEF UdpReceive, Leaving, tunnels
<1>8. CASE BridgeWrite
  BY <1>5, <1>8, ZenonT(60) DEF BridgeWrite, Leaving, tunnels
<1>9. CASE UdpSend
  BY <1>5, <1>9, LeavingMoves, SMTT(60) DEF UdpSend, tunnels
<1>10. ASSUME NEW l \in Loops, Send(l) PROVE Leaving(S)' = Leaving(S) /\ UNCHANGED <<backlog, dropped, got, tunIn, read>>
  BY <1>10, LeavingMoves, ZenonT(60) DEF Send, tunnels, history
<1>11. ASSUME NEW l \in Loops, Lock(l) PROVE Leaving(S)' = Leaving(S) /\ UNCHANGED <<backlog, dropped, got, tunIn, read>>
  BY <1>11, Zenon DEF Lock, Leaving, tunnels, history, pipes
<1>12. ASSUME NEW l \in Loops, Take(l)
       PROVE  Leaving(S)' + Handed(p, S)' + Single(got'["clear"], S) + Number(tunIn', S) = Number(read', S)
  <2>1. Leaving(S)' = Leaving(S) /\ UNCHANGED <<backlog, dropped, read>>
    BY <1>12, SMTT(60) DEF Take, Leaving, tunnels, history
  <2>2. CASE l = "clear"
    <3>1. tunIn # <<>> /\ got'["clear"] = First(tunIn) /\ tunIn' = Rest(tunIn) /\ got["clear"] = None
      BY <1>0, <1>12, <2>2, LoopFacts, ZenonT(60) DEF Take, First, Rest, Open, Rounds
    <3>2. Number(tunIn, S) = Single(got'["clear"], S) + Number(tunIn', S) /\ got'["clear"] \in Items /\ tunIn' \in Seq(Items)
      BY <1>0, <3>1, RestCounts, Zenon
    <3>3. Single(got'["clear"], S) \in Nat /\ Number(tunIn', S) \in Nat
      BY <3>2, ItemCounts, ZenonT(60)
    <3>4. Single(got["clear"], S) = 0 /\ Handed(p, S)' = Handed(p, S) /\ read' = read
      BY <1>4, <2>1, <3>1, Zenon DEF Handed
    <3> QED
      BY <1>1, <1>2, <1>3, <2>1, <3>2, <3>3, <3>4, SMTT(60)
  <2>3. CASE l # "clear"
    <3>1. got'["clear"] = got["clear"] /\ UNCHANGED tunIn
      BY <1>0, <1>12, <2>3, LoopFacts, SMTT(60) DEF Take
    <3> QED
      BY <1>5, <2>1, <3>1, ZenonT(60)
  <2> QED
    BY <2>2, <2>3, SMTT(60)
<1>13. CASE WorkClear
  <2>1. PICK net \in Seq(Items) :
          /\ Unlock("clear", net, <<>>)
          /\ Number(net, S) + Handed(p, S)' = Handed(p, S) + Single(got["clear"], S)
    BY <1>13, WorkClearFlow, ZenonT(60) DEF S
  <2>2. Leaving(S)' = Leaving(S) + Number(net, S)
    BY <2>1, LeavingAdds, LoopFacts, SMTT(60)
  <2>3. got'["clear"] = None /\ tunIn' = tunIn /\ read' = read
    BY <1>0, <2>1, LoopFacts, ZenonT(60) DEF Unlock, pipes, history
  <2>4. backlog'[p] \in Seq(Items) /\ dropped'[p] \in Seq(Items)
    BY <1>13, OpenStep, ZenonT(60) DEF Step, Open, TypeOK
  <2>5. Number(net, S) \in Nat /\ Handed(p, S)' \in Nat
    <3>1. Number(net, S) \in Nat /\ Number(backlog'[p], S) \in Nat /\ Number(dropped'[p], S) \in Nat
      BY <2>4, ItemCounts, ZenonT(60)
    <3> QED
      BY <3>1 DEF Handed
  <2>6. Single(got'["clear"], S) = 0 /\ Number(tunIn', S) = Number(tunIn, S) /\ Number(read', S) = Number(read, S)
    BY <1>4, <2>3, Zenon
  <2>7. Number(net, S) + Handed(p, S)' = Handed(p, S) + Single(got["clear"], S)
    BY <2>1, Zenon
  <2>8. Leaving(S)' + Handed(p, S)' = Leaving(S) + Handed(p, S) + Single(got["clear"], S)
    BY <1>1, <1>2, <2>2, <2>5, <2>7, SMTT(60)
  <2> QED
    BY <1>1, <1>2, <1>3, <2>2, <2>5, <2>6, <2>8, SMTT(60)
<1>14. CASE WorkEnc
  <2>1. PICK net \in Seq(Items), tun \in Seq(Items) :
          Unlock("enc", net, tun) /\ Number(net, S) + Handed(p, S)' = Handed(p, S)
    <3>1. PICK net \in Seq(Items), tun \in Seq(Items) :
            /\ Unlock("enc", net, tun)
            /\ Number(net, S) + Number(backlog'[p], S) = Number(backlog[p], S)
            /\ dropped' = dropped
      BY <1>14, WorkEncFlush, ZenonT(60) DEF S
    <3>2. /\ Number(net, S) \in Nat /\ Number(backlog'[p], S) \in Nat
          /\ Number(backlog[p], S) \in Nat /\ Number(dropped[p], S) \in Nat
      <4>1. backlog'[p] \in Seq(Items)
        BY <1>14, OpenStep, ZenonT(60) DEF Step, Open, TypeOK
      <4> QED
        BY <1>0, <4>1, ItemCounts, ZenonT(60)
    <3>3. Number(net, S) + Handed(p, S)' = Handed(p, S)
      BY <3>1, <3>2 DEF Handed
    <3> QED
      BY <3>1, <3>3, Zenon
  <2>2. Leaving(S)' = Leaving(S) + Number(net, S)
    BY <2>1, LeavingAdds, LoopFacts, SMTT(60)
  <2>3. got'["clear"] = got["clear"] /\ tunIn' = tunIn /\ read' = read
    BY <1>0, <2>1, LoopFacts, SMTT(60) DEF Unlock, pipes, history
  <2>4. backlog'[p] \in Seq(Items) /\ dropped'[p] \in Seq(Items)
    BY <1>14, OpenStep, ZenonT(60) DEF Step, Open, TypeOK
  <2>5. Number(net, S) \in Nat /\ Handed(p, S)' \in Nat
    <3>1. Number(net, S) \in Nat /\ Number(backlog'[p], S) \in Nat /\ Number(dropped'[p], S) \in Nat
      BY <2>4, ItemCounts, ZenonT(60)
    <3> QED
      BY <3>1 DEF Handed
  <2> QED
    BY <1>1, <1>2, <1>3, <2>1, <2>2, <2>3, <2>5, SMTT(60)
<1>15. CASE WorkTimer
  <2>1. PICK net \in Seq(Items) : Unlock("timer", net, <<>>) /\ Number(net, S) = 0
    BY <1>15, WorkTimerFlow, Zenon DEF S
  <2>2. Leaving(S)' = Leaving(S)
    BY <1>2, <2>1, LeavingAdds, LoopFacts
  <2>3. got'["clear"] = got["clear"] /\ UNCHANGED <<tunIn, read>>
    BY <1>0, <2>1, LoopFacts, SMTT(60) DEF Unlock, pipes, history
  <2>4. UNCHANGED <<backlog, dropped>>
    BY <1>15, TimerOutFacts, Zenon DEF Open
  <2> QED
    BY <1>5, <2>2, <2>3, <2>4, ZenonT(60)
<1> QED
  BY <1>5, <1>6, <1>7, <1>8, <1>9, <1>10, <1>11, <1>12, <1>13, <1>14, <1>15 DEF Step, Loop

\* A packet is read once.
LEMMA ReadOnce ==
  ASSUME Open, NEW p \in Peers, NEW n \in Nat
  PROVE  Number(read, Lone(p, n)) = IF Data(p, n) \in Range(read) THEN 1 ELSE 0
<1> DEFINE P == {i \in DOMAIN read : read[i] \in Lone(p, n)}
<1>1. read \in Seq(Items) /\ \A i \in DOMAIN read : read[i][3] = i
  BY SMTT(60) DEF Open, TypeOK, Marked
<1>2. \A i \in P : i = n
  BY <1>1 DEF Lone, Data
<1>3. Number(read, Lone(p, n)) = Cardinality(P)
  BY Zenon DEF Number
<1>4. CASE Data(p, n) \in Range(read)
  <2>1. PICK i \in DOMAIN read : read[i] = Data(p, n)
    BY <1>4, Zenon DEF Range
  <2>2. i \in P
    BY <2>1, Zenon DEF Lone
  <2>3. P = {n}
    BY <1>2, <2>2, Zenon
  <2> QED
    BY <1>3, <1>4, <2>3, FS_Singleton, Zenon
<1>5. CASE Data(p, n) \notin Range(read)
  <2>1. P = {}
    BY <1>5, SMTT(60) DEF Range, Lone
  <2> QED
    BY <1>3, <1>5, <2>1, FS_EmptySet, Zenon
<1> QED
  BY <1>4, <1>5, SMTT(60)

-----------------------------------------------------------------------------
(* The counters.                                                           *)

StatEq(p) ==
  /\ tx[p] = Leaving(Of(p))
  /\ rx[p] + Number(netIn, Of(p)) + Single(got["enc"], Of(p)) = Number(heard, Of(p))

LEMMA StatsStep ==
  ASSUME Open, Step, failed' = {}, NEW p \in Peers, StatEq(p)
  PROVE  StatEq(p)'
<1> DEFINE S == Of(p)
<1>0. /\ netIn \in Seq(Items) /\ heard \in Seq(Items) /\ rx[p] \in Nat
      /\ got["enc"] \in Items /\ got \in [Loops -> Items]
  BY LoopFacts, ZenonT(60) DEF Open, TypeOK
<1>1. Number(netIn, S) \in Nat /\ Number(heard, S) \in Nat /\ Single(got["enc"], S) \in Nat
  BY <1>0, ItemCounts, ZenonT(60)
<1>2. tx[p] = Leaving(S) /\ rx[p] + Number(netIn, S) + Single(got["enc"], S) = Number(heard, S)
  BY Zenon DEF StatEq
<1>3. Single(None, S) = 0
  <2>1. None \in Items /\ None \notin S
    BY ItemFacts, PlaneAssumption, Zenon DEF None, Of
  <2> QED
    BY <2>1, ItemCounts, ZenonT(60)
<1> SUFFICES /\ tx'[p] = Leaving(S)'
             /\ rx'[p] + Number(netIn', S) + Single(got'["enc"], S) = Number(heard', S)
  BY ZenonT(60) DEF StatEq
<1> HIDE DEF S
<1>4. ASSUME NEW l \in Loops, NEW net \in Seq(Items), NEW tun, Unlock(l, net, tun)
      PROVE  tx'[p] = Leaving(S)' /\ netIn' = netIn /\ heard' = heard
             /\ (l = "enc" => got'["enc"] = None) /\ (l # "enc" => got'["enc"] = got["enc"])
  <2>1. Leaving(S)' = Leaving(S) + Number(net, S)
    BY <1>4, LeavingAdds, Zenon
  <2>2. tx'[p] = tx[p] + Number(net, S)
    BY <1>0, <1>4, Zenon DEF Unlock, Count, S
  <2>3. netIn' = netIn /\ heard' = heard
    BY <1>4, Zenon DEF Unlock, pipes, history
  <2>4. (l = "enc" => got'["enc"] = None) /\ (l # "enc" => got'["enc"] = got["enc"])
    BY <1>0, <1>4, LoopFacts, SMTT(60) DEF Unlock
  <2> QED
    BY <1>2, <2>1, <2>2, <2>3, <2>4, ZenonT(60)
<1>5. ASSUME Leaving(S)' = Leaving(S), UNCHANGED <<tx, rx, netIn, heard>>, got'["enc"] = got["enc"]
      PROVE  tx'[p] = Leaving(S)' /\ rx'[p] + Number(netIn', S) + Single(got'["enc"], S) = Number(heard', S)
  BY <1>2, <1>5, Zenon
<1>6. ASSUME NEW q, BridgeRead(q) PROVE Leaving(S)' = Leaving(S) /\ UNCHANGED <<tx, rx, netIn, heard, got>>
  BY <1>6, SMTT(60) DEF BridgeRead, Leaving
<1>7. ASSUME NEW q \in Peers \cup {NoPeer}, NEW k \in {"data", "response", "bad"}, UdpReceive(q, k)
      PROVE  tx'[p] = Leaving(S)' /\ rx'[p] + Number(netIn', S) + Single(got'["enc"], S) = Number(heard', S)
  <2> DEFINE d == <<q, k, IF k = "data" THEN Len(heard) + 1 ELSE 0>>
  <2>1. d \in Items
    BY <1>0, SMTT(60) DEF Items, Kinds
  <2>2. netIn' = Put(netIn, d) /\ heard' = Put(heard, d) /\ UNCHANGED <<tx, rx, got>>
    BY <1>7, Zenon DEF UdpReceive, Put
  <2>3. Leaving(S)' = Leaving(S)
    BY <1>7, Zenon DEF UdpReceive, Leaving
  <2> HIDE DEF d
  <2>4. Number(netIn', S) = Number(netIn, S) + Single(d, S) /\ Number(heard', S) = Number(heard, S) + Single(d, S)
    BY <1>0, <2>1, <2>2, PutCounts, Zenon
  <2>5. Single(d, S) \in Nat
    BY <2>1, ItemCounts, Zenon
  <2>6. tx' = tx /\ rx' = rx /\ got' = got
    BY <2>2, SMTT(60)
  <2> QED
    BY <1>0, <1>1, <1>2, <2>3, <2>4, <2>5, <2>6, SMTT(60)
<1>8. CASE BridgeWrite
  BY <1>5, <1>8, ZenonT(60) DEF BridgeWrite, Leaving
<1>9. CASE UdpSend
  BY <1>5, <1>9, LeavingMoves, ZenonT(60) DEF UdpSend
<1>10. ASSUME NEW l \in Loops, Send(l) PROVE Leaving(S)' = Leaving(S) /\ UNCHANGED <<tx, rx, netIn, heard, got>>
  BY <1>10, LeavingMoves, ZenonT(60) DEF Send, history
<1>11. ASSUME NEW l \in Loops, Lock(l) PROVE Leaving(S)' = Leaving(S) /\ UNCHANGED <<tx, rx, netIn, heard, got>>
  BY <1>11, SMTT(60) DEF Lock, Leaving, history, pipes
<1>12. ASSUME NEW l \in Loops, Take(l)
       PROVE  tx'[p] = Leaving(S)' /\ rx'[p] + Number(netIn', S) + Single(got'["enc"], S) = Number(heard', S)
  <2>1. Leaving(S)' = Leaving(S) /\ UNCHANGED <<tx, rx, heard>>
    BY <1>12, SMTT(60) DEF Take, Leaving, history
  <2>2. CASE l = "enc"
    <3>1. netIn # <<>> /\ got'["enc"] = First(netIn) /\ netIn' = Rest(netIn) /\ got["enc"] = None
      BY <1>0, <1>12, <2>2, LoopFacts, Zenon DEF Take, First, Rest, Open, Rounds
    <3>2. Number(netIn, S) = Single(got'["enc"], S) + Number(netIn', S) /\ got'["enc"] \in Items /\ netIn' \in Seq(Items)
      BY <1>0, <3>1, RestCounts, Zenon
    <3>3. Single(got'["enc"], S) \in Nat /\ Number(netIn', S) \in Nat
      BY <3>2, ItemCounts, SMTT(60)
    <3>4. Single(got["enc"], S) = 0 /\ tx' = tx /\ rx' = rx /\ heard' = heard
      BY <1>3, <2>1, <3>1, Zenon
    <3> QED
      BY <1>0, <1>1, <1>2, <2>1, <3>2, <3>3, <3>4, SMTT(60)
  <2>3. CASE l # "enc"
    <3>1. got'["enc"] = got["enc"] /\ UNCHANGED netIn
      BY <1>0, <1>12, <2>3, LoopFacts, SMTT(60) DEF Take
    <3> QED
      BY <1>5, <2>1, <3>1, ZenonT(60)
  <2> QED
    BY <2>2, <2>3, SMTT(60)
<1>13. CASE WorkClear
  <2>1. PICK net \in Seq(Items) : Unlock("clear", net, <<>>)
    <3>1. 0 \in Nat
      BY Zenon
    <3> QED
      BY <1>13, <3>1, WorkClearFlow, ZenonT(60)
  <2>2. rx' = rx
    BY <1>13, Zenon DEF WorkClear
  <2> QED
    BY <1>2, <1>4, <2>1, <2>2, LoopFacts, ZenonT(60)
<1>14. CASE WorkEnc
  <2>1. PICK net \in Seq(Items) : Unlock("enc", net, IF Known(got["enc"]) THEN << got["enc"] >> ELSE <<>>)
    BY <1>14, WorkEncPass, ZenonT(60)
  <2>2. rx'[p] = rx[p] + Single(got["enc"], S)
    BY <1>14, WorkEncStat, ZenonT(60) DEF S
  <2>3. tx'[p] = Leaving(S)' /\ netIn' = netIn /\ heard' = heard /\ got'["enc"] = None
    BY <1>4, <2>1, LoopFacts, SMTT(60)
  <2> QED
    BY <1>0, <1>1, <1>2, <1>3, <2>2, <2>3, SMTT(60)
<1>15. CASE WorkTimer
  <2>1. PICK net \in Seq(Items) : Unlock("timer", net, <<>>)
    BY <1>15, WorkTimerFlow, Zenon
  <2>2. rx' = rx
    BY <1>15, Zenon DEF WorkTimer
  <2> QED
    BY <1>2, <1>4, <2>1, <2>2, LoopFacts, ZenonT(60)
<1> QED
  BY <1>5, <1>6, <1>7, <1>8, <1>9, <1>10, <1>11, <1>12, <1>13, <1>14, <1>15, ZenonT(60) DEF Step, Loop

-----------------------------------------------------------------------------
(* The theorems.                                                           *)

\* Until a loop fails, the two balances.
CountInv ==
  failed = {} =>
    /\ \A p \in Peers, n \in Nat : OutEq(p, n)
    /\ \A p \in Peers : StatEq(p)

LEMMA CountInit == Init => CountInv
<1> SUFFICES ASSUME Init PROVE CountInv
  BY Zenon
<1>2. \A S : Number(<<>>, S) = 0
  BY NumberEmpty, Zenon
<1>3. \A S : Leaving(S) = 0
  BY <1>2, LoopFacts DEF Init, Leaving
<1>4. /\ None \in Items
      /\ \A p \in Peers, n \in Nat : Single(None, Lone(p, n)) = 0
      /\ \A p \in Peers : Single(None, Of(p)) = 0
  <2>1. None \in Items
    BY ItemFacts, Zenon
  <2>2. ASSUME NEW p \in Peers, NEW n \in Nat PROVE Single(None, Lone(p, n)) = 0
    <3>1. None # Data(p, n)
      BY Zenon DEF None, Data
    <3> QED
      BY <2>1, <3>1, ItemCounts, LoneFacts, ZenonT(60)
  <2>3. ASSUME NEW p \in Peers PROVE Single(None, Of(p)) = 0
    <3>1. None \notin Of(p)
      BY PlaneAssumption, Zenon DEF None, Of
    <3> QED
      BY <2>1, <3>1, ItemCounts, ZenonT(60)
  <2> QED
    BY <2>1, <2>2, <2>3, Zenon
<1>5. \A p \in Peers, n \in Nat : OutEq(p, n)
  BY <1>2, <1>3, <1>4, LoopFacts, SMTT(60) DEF Init, OutEq, Handed
<1>6. \A p \in Peers : StatEq(p)
  BY <1>2, <1>3, <1>4, LoopFacts, SMTT(60) DEF Init, StatEq
<1> QED
  BY <1>5, <1>6, Zenon DEF CountInv

LEMMA CountStep == FlowInv /\ CountInv /\ [Next]_vars => CountInv'
<1> SUFFICES ASSUME FlowInv, CountInv, [Next]_vars, failed' = {}
             PROVE  /\ \A p \in Peers, n \in Nat : OutEq(p, n)'
                    /\ \A p \in Peers : StatEq(p)'
  BY Zenon DEF CountInv
<1>1. CASE Next
  <2>1. /\ Open /\ Step
        /\ \A p \in Peers, n \in Nat : OutEq(p, n)
        /\ \A p \in Peers : StatEq(p)
    BY <1>1, Zenon DEF Next, FlowInv, CountInv
  <2> QED
    BY <2>1, OutboundStep, StatsStep, Zenon
<1>2. CASE UNCHANGED vars
  <2> USE <1>2 DEF vars, pipes, tunnels, history
  <2>1. failed = {}
    BY Zenon
  <2>2. (\A p \in Peers, n \in Nat : OutEq(p, n)) /\ (\A p \in Peers : StatEq(p))
    BY <2>1, Zenon DEF CountInv
  <2>3. \A p \in Peers, n \in Nat : OutEq(p, n)'
    BY <2>2, ZenonT(60) DEF OutEq, Leaving, Handed
  <2>4. \A p \in Peers : StatEq(p)'
    BY <2>2, ZenonT(60) DEF StatEq, Leaving
  <2> QED
    BY <2>3, <2>4, Zenon
<1> QED
  BY <1>1, <1>2, Zenon

LEMMA CountAlways == Spec => []CountInv
BY CountInit, CountStep, FlowAlways, PTL DEF Spec

\* For any peers, channel capacity, flush limit and depth of the tunnels'
\* queues: until a loop fails, a packet that the bridge has read is sent once,
\* waits in one place of the pipes, the loops and the tunnels' queues, or was
\* refused by a queue that was full.  The pipes and the loops lose nothing.
THEOREM PacketsLeaveOnce == Spec => []OutboundOnce
<1>1. FlowInv /\ CountInv => OutboundOnce
  <2> SUFFICES ASSUME FlowInv, CountInv, failed = {}, NEW p \in Peers, NEW n \in 1 .. MaxOut
               PROVE  Leaving({Data(p, n)}) + Number(backlog[p], {Data(p, n)}) + Number(dropped[p], {Data(p, n)})
                        + Number(<<got["clear"]>>, {Data(p, n)}) + Number(tunIn, {Data(p, n)})
                      = IF Data(p, n) \in Range(read) THEN 1 ELSE 0
    BY Zenon DEF OutboundOnce
  <2>1. n \in Nat
    BY PlaneAssumption
  <2>2. OutEq(p, n) /\ Open
    BY <2>1, Zenon DEF FlowInv, CountInv
  <2>3. Number(read, Lone(p, n)) = IF Data(p, n) \in Range(read) THEN 1 ELSE 0
    BY <2>1, <2>2, ReadOnce, Zenon
  <2> DEFINE S == Lone(p, n)
  <2>4. /\ S = {Data(p, n)}
        /\ Leaving(S) + (Number(backlog[p], S) + Number(dropped[p], S)) + Number(<<got["clear"]>>, S)
             + Number(tunIn, S) = Number(read, S)
    BY <2>2, ZenonT(60) DEF OutEq, Lone, Single, Handed
  <2>5. /\ Leaving(S) \in Nat /\ Number(backlog[p], S) \in Nat /\ Number(dropped[p], S) \in Nat
    <3>1. /\ Number(sent, S) \in Nat /\ Number(netOut, S) \in Nat
          /\ Number(pendNet["clear"], S) \in Nat /\ Number(pendNet["enc"], S) \in Nat
          /\ Number(pendNet["timer"], S) \in Nat
          /\ Number(backlog[p], S) \in Nat /\ Number(dropped[p], S) \in Nat
      BY <2>2, ItemCounts, LoopFacts, ZenonT(60) DEF Open, TypeOK
    <3> QED
      BY <3>1 DEF Leaving
  <2> HIDE DEF S
  <2>6. Leaving(S) + (Number(backlog[p], S) + Number(dropped[p], S))
          = Leaving(S) + Number(backlog[p], S) + Number(dropped[p], S)
    BY <2>5
  <2> QED
    BY <2>3, <2>4, <2>6, ZenonT(60) DEF S
<1> QED
  BY <1>1, FlowAlways, CountAlways, PTL

\* The shared counters of peerStats agree with the traffic.
THEOREM StatsAgree == Spec => []StatsMatchTraffic
<1>1. CountInv => StatsMatchTraffic
  BY Zenon DEF CountInv, StatEq, StatsMatchTraffic, Single
<1> QED
  BY <1>1, CountAlways, PTL
=============================================================================
