--------------------------- MODULE RequestProofs ----------------------------
(***************************************************************************)
(* Proofs about requests: the frames they and their answers travel in      *)
(* (IpcFrames, for any width of a byte and of the header, any limit, any   *)
(* messages and any capacity of the stream); the session that is selected  *)
(* for a packet (PeerSessions, for any width of a byte, peers, prefixes    *)
(* and addresses); and what becomes of a configuration (SessionConfig, for *)
(* any settings, requests and limits).                                     *)
(***************************************************************************)
EXTENDS IpcFrames, SessionConfig, WellFoundedInduction, TLAPS

-----------------------------------------------------------------------------
(* Induction and recursion over the naturals.                              *)

\* A set of naturals that is not empty has a least element.
LEMMA Least ==
  ASSUME NEW T \in SUBSET Nat, T # {}
  PROVE  \E n \in T : \A m \in T : n <= m
<1> DEFINE R == OpToRel(<, Nat)
<1>1. IsWellFoundedOn(R, Nat)
  BY NatLessThanWellFounded, Zenon
<1>2. \A x, y \in Nat : y < x => <<y, x>> \in R
  BY Zenon DEF OpToRel
<1> HIDE DEF R
<1>3. PICK x \in T : \A y \in T : ~ (<<y, x>> \in R)
  BY <1>1, WFMin, Zenon
<1>4. \A y \in T : ~ (y < x)
  BY <1>2, <1>3, Zenon
<1> QED
  BY <1>4

\* Induction over the naturals, for a set.
LEMMA NatSetInduction ==
  ASSUME NEW S, 0 \in S, \A n \in Nat : n \in S => n + 1 \in S
  PROVE  Nat \subseteq S
<1> DEFINE T == Nat \ S
<1>1. SUFFICES ASSUME T # {} PROVE FALSE
  BY Zenon
<1>2. T \in SUBSET Nat
  BY Zenon
<1> HIDE DEF T
<1>3. PICK n \in T : \A m \in T : n <= m
  BY <1>1, <1>2, Least, Zenon
<1>4. n \in Nat /\ n # 0
  BY <1>2, Zenon DEF T
<1>5. n - 1 \in Nat /\ n - 1 \notin T
  BY <1>3, <1>4, <1>2
<1>6. n \in S
  BY <1>4, <1>5 DEF T
<1> QED
  BY <1>6, <1>3, Zenon DEF T

\* h follows a recursion up to n.
Follows(h, n, a, g) ==
  h[0] = a /\ \A i \in 0 .. n - 1 : h[i + 1] = g[i][h[i]]

\* Whatever follows it that far has the same value at i.
Agreed(i, S, a, g) ==
  \A m, n \in Nat : i <= m /\ i <= n =>
    \A h \in [0 .. m -> S], k \in [0 .. n -> S] :
      Follows(h, m, a, g) /\ Follows(k, n, a, g) => h[i] = k[i]

\* f satisfies it everywhere.
Solves(f, S, a, g) ==
  f \in [Nat -> S] /\ f[0] = a /\ \A n \in Nat : f[n + 1] = g[n][f[n]]

\* A recursion over the naturals has a solution.
LEMMA NatRecursion ==
  ASSUME NEW S, NEW a \in S, NEW g \in [Nat -> [S -> S]]
  PROVE  \E f : Solves(f, S, a, g)
<1> DEFINE E == {n \in Nat : \E h \in [0 .. n -> S] : Follows(h, n, a, g)}
           f == [n \in Nat |-> (CHOOSE h \in [0 .. n -> S] : Follows(h, n, a, g))[n]]
           A == {i \in Nat : Agreed(i, S, a, g)}
<1>1. 0 \in E
  <2> DEFINE h == [i \in 0 .. 0 |-> a]
  <2>1. h \in [0 .. 0 -> S] /\ Follows(h, 0, a, g)
    BY DEF Follows
  <2> QED
    BY <2>1, Zenon
<1>2. \A n \in Nat : n \in E => n + 1 \in E
  <2> SUFFICES ASSUME NEW n \in Nat, n \in E PROVE n + 1 \in E
    BY Zenon
  <2>1. PICK h \in [0 .. n -> S] : Follows(h, n, a, g)
    BY Zenon
  <2> DEFINE k == [i \in 0 .. n + 1 |-> IF i = n + 1 THEN g[n][h[n]] ELSE h[i]]
  <2>2. g[n][h[n]] \in S
    OBVIOUS
  <2>3. k \in [0 .. n + 1 -> S]
    BY <2>2
  <2>4. k[n + 1] = g[n][h[n]] /\ \A i \in 0 .. n : k[i] = h[i]
    OBVIOUS
  <2> HIDE DEF k
  <2>5. ASSUME NEW i \in 0 .. n PROVE k[i + 1] = g[i][k[i]]
    <3>1. CASE i = n
      BY <3>1, <2>4, Zenon
    <3>2. CASE i # n
      <4>1. i \in 0 .. n - 1 /\ i + 1 \in 0 .. n
        BY <3>2
      <4> QED
        BY <4>1, <2>1, <2>4, Zenon DEF Follows
    <3> QED
      BY <3>1, <3>2, Zenon
  <2>6. Follows(k, n + 1, a, g)
    <3>1. (n + 1) - 1 = n /\ 0 \in 0 .. n
      OBVIOUS
    <3> QED
      BY <2>1, <2>4, <2>5, <3>1, Zenon DEF Follows
  <2> QED
    BY <2>3, <2>6
<1>3. Nat \subseteq E
  <2> HIDE DEF E
  <2> QED
    BY <1>1, <1>2, NatSetInduction, Zenon
<1>4. 0 \in A
  BY Zenon DEF Follows, Agreed
<1>5. ASSUME NEW i \in Nat, Agreed(i, S, a, g) PROVE Agreed(i + 1, S, a, g)
  <2> SUFFICES ASSUME NEW m \in Nat, NEW n \in Nat, i + 1 <= m, i + 1 <= n,
                      NEW h \in [0 .. m -> S], NEW k \in [0 .. n -> S],
                      Follows(h, m, a, g), Follows(k, n, a, g)
               PROVE  h[i + 1] = k[i + 1]
    BY Zenon DEF Agreed
  <2>1. i <= m /\ i <= n /\ i \in 0 .. m - 1 /\ i \in 0 .. n - 1
    OBVIOUS
  <2>2. h[i] = k[i]
    BY <1>5, <2>1, Zenon DEF Agreed
  <2> QED
    BY <2>1, <2>2, Zenon DEF Follows
<1>6. Nat \subseteq A
  <2>1. \A i \in Nat : i \in A => i + 1 \in A
    BY <1>5
  <2> HIDE DEF A
  <2> QED
    BY <1>4, <2>1, NatSetInduction, Zenon
<1>7. \A n \in Nat : \E h \in [0 .. n -> S] : Follows(h, n, a, g) /\ f[n] = h[n]
  BY <1>3, Zenon
<1> HIDE DEF f
<1>8. f \in [Nat -> S]
  <2>1. \A n \in Nat : f[n] \in S
    BY <1>7
  <2>2. f = [n \in Nat |-> f[n]]
    BY DEF f
  <2> QED
    BY <2>1, <2>2, Zenon
<1>9. f[0] = a
  BY <1>7, Zenon DEF Follows
<1>10. ASSUME NEW n \in Nat PROVE f[n + 1] = g[n][f[n]]
  <2>1. PICK h \in [0 .. n -> S] : Follows(h, n, a, g) /\ f[n] = h[n]
    BY <1>7, Zenon
  <2>2. n + 1 \in Nat /\ n <= n /\ n <= n + 1 /\ n \in 0 .. (n + 1) - 1
    OBVIOUS
  <2>3. PICK k \in [0 .. n + 1 -> S] : Follows(k, n + 1, a, g) /\ f[n + 1] = k[n + 1]
    BY <1>7, <2>2, Zenon
  <2>4. h[n] = k[n]
    BY <1>6, <2>1, <2>2, <2>3, Zenon DEF Agreed
  <2> QED
    BY <2>1, <2>2, <2>3, <2>4, Zenon DEF Follows
<1> QED
  BY <1>8, <1>9, <1>10, Zenon DEF Solves

\* Weight is what its definition says.
LEMMA Weights ==
  /\ Weight[0] = 1
  /\ \A i \in Nat : Weight[i] \in Nat /\ Weight[i] # 0 /\ Weight[i + 1] = Base * Weight[i]
<1> DEFINE Fit(w) == w = [i \in Nat |-> IF i = 0 THEN 1 ELSE Base * w[i - 1]]
           g == [n \in Nat |-> [v \in Nat |-> Base * v]]
<1>1. g \in [Nat -> [Nat -> Nat]] /\ 1 \in Nat
  BY FrameAssumption
<1>2. PICK w : Solves(w, Nat, 1, g)
  <2> HIDE DEF g
  <2> QED
    BY <1>1, NatRecursion, Zenon
<1>3. w \in [Nat -> Nat] /\ w[0] = 1 /\ \A n \in Nat : w[n + 1] = Base * w[n]
  BY <1>2, Zenon DEF Solves
<1>4. Fit(w)
  <2>1. ASSUME NEW i \in Nat PROVE w[i] = IF i = 0 THEN 1 ELSE Base * w[i - 1]
    <3>1. CASE i = 0
      BY <3>1, <1>3, Zenon
    <3>2. CASE i # 0
      <4>1. i - 1 \in Nat /\ (i - 1) + 1 = i
        BY <3>2
      <4> QED
        BY <4>1, <1>3, <3>2, Zenon
    <3> QED
      BY <3>1, <3>2, Zenon
  <2> QED
    BY <2>1, <1>3, Zenon
<1>5. Fit(Weight)
  BY <1>4, Zenon DEF Weight
<1>6. \A i \in Nat : Weight[i] = IF i = 0 THEN 1 ELSE Base * Weight[i - 1]
  <2> DEFINE W == Weight
  <2>1. W = [i \in Nat |-> IF i = 0 THEN 1 ELSE Base * W[i - 1]]
    BY <1>5, Zenon
  <2> HIDE DEF W
  <2>2. \A i \in Nat : W[i] = IF i = 0 THEN 1 ELSE Base * W[i - 1]
    BY <2>1, Zenon
  <2> QED
    BY <2>2, Zenon DEF W
<1>7. \A i \in Nat : Weight[i + 1] = Base * Weight[i]
  <2> TAKE i \in Nat
  <2>1. i + 1 \in Nat /\ i + 1 # 0 /\ (i + 1) - 1 = i
    OBVIOUS
  <2>2. Weight[i + 1] = Base * Weight[(i + 1) - 1]
    BY <1>6, <2>1, Zenon
  <2> QED
    BY <2>1, <2>2, Zenon
<1>8. Weight[0] = 1
  BY <1>6, Zenon
<1> DEFINE P == {i \in Nat : Weight[i] \in Nat \ {0}}
<1>9. Nat \subseteq P
  <2>1. 0 \in P
    BY <1>8
  <2>2. ASSUME NEW i \in Nat, i \in P PROVE i + 1 \in P
    <3>1. \A v \in Nat \ {0} : Base * v \in Nat \ {0}
      BY FrameAssumption
    <3> QED
      BY <3>1, <2>2, <1>7
  <2> HIDE DEF P
  <2> QED
    BY <2>1, <2>2, NatSetInduction, Zenon
<1> QED
  BY <1>7, <1>8, <1>9, Zenon

\* A length survives to_be_bytes and from_be_bytes.
LEMMA HeaderLength ==
  ASSUME NEW n \in 0 .. MaxFrameSize
  PROVE  /\ Header(n) \in [1 .. HeaderSize -> 0 .. Base - 1]
         /\ Length(Header(n)) = n
<1> DEFINE h == Header(n)
           q(i) == n \div Weight[HeaderSize - i]
           Fit(v) == v = [i \in 0 .. HeaderSize |-> IF i = 0 THEN 0 ELSE v[i - 1] * Base + h[i]]
           v == CHOOSE v : Fit(v)
<1>1. /\ Base \in Nat /\ Base > 1 /\ HeaderSize \in Nat /\ HeaderSize > 0 /\ MaxFrameSize \in Nat
      /\ n \in Nat /\ n < Weight[HeaderSize]
  <2>1. Weight[HeaderSize] \in Nat /\ HeaderSize \in Nat /\ MaxFrameSize \in Nat /\ MaxFrameSize < Weight[HeaderSize]
    BY FrameAssumption, Weights, Zenon
  <2>2. Base \in Nat \ {0, 1} /\ HeaderSize # 0
    BY FrameAssumption, Zenon
  <2> QED
    BY <2>1, <2>2
<1>2. \A i \in 0 .. HeaderSize : Weight[HeaderSize - i] \in Nat /\ Weight[HeaderSize - i] # 0
  <2> TAKE i \in 0 .. HeaderSize
  <2>1. HeaderSize - i \in Nat
    BY <1>1
  <2> QED
    BY <2>1, Weights, Zenon
<1>3. \A i \in 0 .. HeaderSize : q(i) \in Nat
  BY <1>1, <1>2
<1>4. h \in [1 .. HeaderSize -> 0 .. Base - 1] /\ \A i \in 1 .. HeaderSize : h[i] = q(i) % Base
  BY <1>1, <1>3 DEF Header
<1>5. q(0) = 0 /\ q(HeaderSize) = n
  <2>1. HeaderSize - 0 = HeaderSize /\ HeaderSize - HeaderSize = 0 /\ n \div 1 = n
    BY <1>1
  <2>2. n \div Weight[HeaderSize] = 0
    <3>1. \A a, b \in Nat : a < b => a \div b = 0
      OBVIOUS
    <3>2. Weight[HeaderSize] \in Nat
      BY <1>1, Weights, Zenon
    <3> QED
      BY <3>1, <3>2, <1>1, Zenon
  <2> QED
    BY <2>1, <2>2, Weights, Zenon
<1>6. ASSUME NEW i \in 1 .. HeaderSize PROVE q(i) = q(i - 1) * Base + h[i]
  <2>1. HeaderSize - i \in Nat /\ HeaderSize - (i - 1) = (HeaderSize - i) + 1 /\ i - 1 \in 0 .. HeaderSize
    BY <1>1
  <2> DEFINE w == Weight[HeaderSize - i]
  <2>2. w \in Nat /\ w # 0 /\ Weight[HeaderSize - (i - 1)] = Base * w
    BY <2>1, Weights, Zenon
  <2> HIDE DEF w
  <2>3. n \div (Base * w) = (n \div w) \div Base
    BY <1>1, <2>2
  <2>4. \A m \in Nat : m = (m \div Base) * Base + (m % Base)
    BY <1>1
  <2>5. n \div w \in Nat
    BY <1>1, <2>2
  <2>6. q(i) = n \div w /\ q(i - 1) = (n \div w) \div Base
    BY <2>2, <2>3, Zenon DEF w
  <2>7. h[i] = (n \div w) % Base
    BY <1>4, <2>6, Zenon
  <2> HIDE DEF q, h
  <2> QED
    BY <2>4, <2>5, <2>6, <2>7, Zenon
<1>7. Fit([i \in 0 .. HeaderSize |-> q(i)])
  <2> DEFINE u == [i \in 0 .. HeaderSize |-> q(i)]
  <2>1. ASSUME NEW i \in 0 .. HeaderSize PROVE u[i] = IF i = 0 THEN 0 ELSE u[i - 1] * Base + h[i]
    <3>1. CASE i = 0
      BY <3>1, <1>5, Zenon
    <3>2. CASE i # 0
      <4>1. i \in 1 .. HeaderSize /\ i - 1 \in 0 .. HeaderSize
        BY <3>2, <1>1
      <4>2. u[i] = q(i) /\ u[i - 1] = q(i - 1)
        BY <4>1, Zenon
      <4> HIDE DEF q, h, u
      <4> QED
        BY <4>1, <4>2, <3>2, <1>6, Zenon
    <3> QED
      BY <3>1, <3>2, Zenon
  <2> HIDE DEF q, h
  <2> QED
    BY <2>1, Zenon
<1> HIDE DEF q, h
<1>8. v = [i \in 0 .. HeaderSize |-> IF i = 0 THEN 0 ELSE v[i - 1] * Base + h[i]]
  BY <1>7, Zenon
<1>9. Length(h) = v[HeaderSize]
  BY Zenon DEF Length
<1> HIDE DEF v
<1>10. \A i \in 0 .. HeaderSize : v[i] = IF i = 0 THEN 0 ELSE v[i - 1] * Base + h[i]
  BY <1>8, Zenon
<1> DEFINE I == {i \in Nat : i <= HeaderSize => v[i] = q(i)}
<1>11. 0 \in I
  BY <1>10, <1>5, <1>1
<1>12. ASSUME NEW i \in Nat, i \in I PROVE i + 1 \in I
  <2> SUFFICES ASSUME i + 1 <= HeaderSize PROVE v[i + 1] = q(i + 1)
    OBVIOUS
  <2>1. i + 1 \in 1 .. HeaderSize /\ i + 1 \in 0 .. HeaderSize /\ i + 1 # 0 /\ (i + 1) - 1 = i /\ i <= HeaderSize
    BY <1>1
  <2>2. v[i + 1] = v[(i + 1) - 1] * Base + h[i + 1]
    BY <1>10, <2>1, Zenon
  <2>3. q(i + 1) = q((i + 1) - 1) * Base + h[i + 1]
    BY <1>6, <2>1, Zenon
  <2>4. v[i] = q(i)
    BY <1>12, <2>1, Zenon
  <2> QED
    BY <2>1, <2>2, <2>3, <2>4, Zenon
<1>13. HeaderSize \in I
  <2> HIDE DEF I
  <2> QED
    BY <1>1, <1>11, <1>12, NatSetInduction, Zenon
<1>14. v[HeaderSize] = n
  BY <1>13, <1>5, <1>1
<1> QED
  BY <1>4, <1>9, <1>14, Zenon DEF h

-----------------------------------------------------------------------------
(* Frames one after the other.                                             *)

Bytes == 0 .. Base - 1

Sendable == {m \in Encodings : ValidLength(Len(m))}

\* The bytes of a message on the stream.
Frame(m) == Header(Len(m)) \o m

\* A sequence of bytes is the frames of all messages but the first r; b says
\* where each of them ends.
Ends(b, flow, ms, r) ==
  /\ b \in [r .. Len(ms) -> Nat]
  /\ b[r] = 0 /\ b[Len(ms)] = Len(flow)
  /\ \A i, j \in r .. Len(ms) : i <= j => b[i] <= b[j]
  /\ \A j \in r + 1 .. Len(ms) :
       /\ b[j] = b[j - 1] + Len(Frame(ms[j]))
       /\ \A i \in 1 .. Len(Frame(ms[j])) : flow[b[j - 1] + i] = Frame(ms[j])[i]

Framed(flow, ms, r) == \E b : Ends(b, flow, ms, r)

\* A message and its frame: sizes, and what is where.
LEMMA FrameFacts ==
  ASSUME NEW m \in Sendable
  PROVE  /\ m \in Seq(Bytes) /\ Len(m) \in 1 .. MaxFrameSize /\ Header(Len(m)) \in Seq(Bytes)
         /\ Len(Header(Len(m))) = HeaderSize /\ HeaderSize \in Nat /\ HeaderSize > 0
         /\ Frame(m) \in Seq(Bytes) /\ Len(Frame(m)) = HeaderSize + Len(m)
         /\ \A i \in 1 .. HeaderSize : Frame(m)[i] = Header(Len(m))[i]
         /\ \A i \in 1 .. Len(m) : Frame(m)[HeaderSize + i] = m[i]
<1>1. m \in Seq(Bytes) /\ Len(m) \in 1 .. MaxFrameSize
  BY FrameAssumption, Zenon DEF Sendable, ValidLength, Bytes
<1>2. HeaderSize \in Nat /\ HeaderSize > 0 /\ MaxFrameSize \in Nat
  BY FrameAssumption
<1>3. Header(Len(m)) \in [1 .. HeaderSize -> Bytes]
  <2>1. Len(m) \in 0 .. MaxFrameSize
    BY <1>1, <1>2
  <2> QED
    BY <2>1, HeaderLength, Zenon DEF Bytes
<1>4. Header(Len(m)) \in Seq(Bytes) /\ Len(Header(Len(m))) = HeaderSize
  BY <1>2, <1>3
<1> QED
  BY <1>1, <1>2, <1>4 DEF Frame

\* The length of a frame.
LEMMA FrameLength ==
  ASSUME NEW m \in Sendable
  PROVE  Len(Frame(m)) \in Nat /\ Len(Frame(m)) > 0
BY FrameFacts

\* Without messages there are no bytes, and the other way round.
LEMMA NothingFramed ==
  ASSUME NEW flow \in Seq(Bytes), NEW ms \in Seq(Sendable), NEW r \in Nat, r = Len(ms)
  PROVE  Framed(flow, ms, r) <=> flow = <<>>
<1>1. ASSUME Framed(flow, ms, r) PROVE flow = <<>>
  <2>1. PICK b : Ends(b, flow, ms, r)
    BY <1>1, Zenon DEF Framed
  <2>2. Len(flow) = 0
    BY <2>1, Zenon DEF Ends
  <2> QED
    BY <2>2
<1>2. ASSUME flow = <<>> PROVE Framed(flow, ms, r)
  <2> DEFINE b == [j \in r .. Len(ms) |-> 0]
  <2>1. Ends(b, flow, ms, r)
    BY <1>2 DEF Ends
  <2> QED
    BY <2>1, Zenon DEF Framed
<1> QED
  BY <1>1, <1>2, Zenon

\* One more frame at the end is one more message.
LEMMA FramedAppend ==
  ASSUME NEW flow \in Seq(Bytes), NEW ms \in Seq(Sendable), NEW r \in Nat, r <= Len(ms),
         NEW m \in Sendable, Framed(flow, ms, r)
  PROVE  Framed(flow \o Frame(m), Append(ms, m), r)
<1> DEFINE n == Len(ms)
           f == Frame(m)
           more == Append(ms, m)
<1>1. PICK b : Ends(b, flow, ms, r)
  BY Zenon DEF Framed
<1>2. f \in Seq(Bytes) /\ Len(f) \in Nat
  BY FrameFacts
<1>3. /\ n \in Nat /\ Len(more) = n + 1 /\ more[n + 1] = m
      /\ \A j \in 1 .. n : more[j] = ms[j] /\ ms[j] \in Sendable
  OBVIOUS
<1> DEFINE c == [j \in r .. n + 1 |-> IF j = n + 1 THEN Len(flow) + Len(f) ELSE b[j]]
<1>4. Len(flow \o f) = Len(flow) + Len(f) /\ flow \o f \in Seq(Bytes)
  BY <1>2
<1>5. /\ \A i \in 1 .. Len(flow) : (flow \o f)[i] = flow[i]
      /\ \A i \in 1 .. Len(f) : (flow \o f)[Len(flow) + i] = f[i]
  BY <1>2
<1>6. /\ b \in [r .. n -> Nat] /\ b[r] = 0 /\ b[n] = Len(flow)
      /\ \A i, j \in r .. n : i <= j => b[i] <= b[j]
  BY <1>1, Zenon DEF Ends
<1>7. /\ c \in [r .. n + 1 -> Nat] /\ c[n + 1] = Len(flow) + Len(f)
      /\ \A j \in r .. n : c[j] = b[j]
  BY <1>2, <1>3, <1>6
<1> HIDE DEF c, f, more
<1>8. \A i, j \in r .. n + 1 : i <= j => c[i] <= c[j]
  <2> SUFFICES ASSUME NEW i \in r .. n + 1, NEW j \in r .. n + 1, i <= j PROVE c[i] <= c[j]
    BY Zenon
  <2>1. CASE j \in r .. n
    BY <2>1, <1>3, <1>6, <1>7, SMTT(30)
  <2>2. CASE j = n + 1 /\ i = n + 1
    BY <2>2, <1>7
  <2>3. CASE j = n + 1 /\ i \in r .. n
    <3>1. n \in r .. n /\ i <= n
      BY <2>3, <1>3
    <3>2. c[i] <= Len(flow)
      BY <2>3, <3>1, <1>6, <1>7, Zenon
    <3>3. c[j] = Len(flow) + Len(f) /\ Len(flow) \in Nat /\ c[i] \in Nat
      BY <2>3, <1>7
    <3> QED
      BY <3>2, <3>3, <1>2
  <2> QED
    BY <2>1, <2>2, <2>3, <1>3
<1>9. ASSUME NEW j \in r + 1 .. n
      PROVE  /\ c[j] = c[j - 1] + Len(Frame(more[j]))
             /\ \A i \in 1 .. Len(Frame(more[j])) : (flow \o f)[c[j - 1] + i] = Frame(more[j])[i]
  <2>1. j \in r .. n /\ j - 1 \in r .. n /\ j \in 1 .. n /\ n \in r .. n /\ j <= n
    BY <1>3
  <2>2. /\ b[j] = b[j - 1] + Len(Frame(ms[j]))
        /\ \A i \in 1 .. Len(Frame(ms[j])) : flow[b[j - 1] + i] = Frame(ms[j])[i]
    BY <1>1, <1>9, Zenon DEF Ends
  <2>3. more[j] = ms[j] /\ Len(Frame(ms[j])) \in Nat
    BY <2>1, <1>3, FrameLength, Zenon
  <2>4. c[j] = b[j] /\ c[j - 1] = b[j - 1] /\ b[j] <= Len(flow) /\ b[j] \in Nat /\ b[j - 1] \in Nat
    BY <2>1, <1>6, <1>7, Zenon
  <2>5. \A i \in 1 .. Len(Frame(ms[j])) : b[j - 1] + i \in 1 .. Len(flow)
    BY <2>2, <2>3, <2>4
  <2> QED
    BY <2>2, <2>3, <2>4, <2>5, <1>5, Zenon
<1>10. /\ c[n + 1] = c[(n + 1) - 1] + Len(Frame(more[n + 1]))
       /\ \A i \in 1 .. Len(Frame(more[n + 1])) : (flow \o f)[c[(n + 1) - 1] + i] = Frame(more[n + 1])[i]
  <2>1. (n + 1) - 1 = n /\ n \in r .. n
    BY <1>3
  <2>2. c[n] = Len(flow) /\ Frame(more[n + 1]) = f
    BY <2>1, <1>3, <1>6, <1>7, Zenon DEF f
  <2> QED
    BY <2>1, <2>2, <1>5, <1>7, Zenon
<1>11. c[r] = 0
  BY <1>3, <1>6, <1>7
<1>12. \A j \in r + 1 .. n + 1 : j \in r + 1 .. n \/ j = n + 1
  BY <1>3
<1>13. Ends(c, flow \o f, more, r)
  <2>1. c \in [r .. Len(more) -> Nat] /\ c[r] = 0 /\ c[Len(more)] = Len(flow \o f)
    BY <1>3, <1>4, <1>7, <1>11, Zenon
  <2>2. \A i, j \in r .. Len(more) : i <= j => c[i] <= c[j]
    BY <1>3, <1>8, Zenon
  <2>3. \A j \in r + 1 .. Len(more) :
          /\ c[j] = c[j - 1] + Len(Frame(more[j]))
          /\ \A i \in 1 .. Len(Frame(more[j])) : (flow \o f)[c[j - 1] + i] = Frame(more[j])[i]
    <3>1. \A j \in r + 1 .. n + 1 :
            /\ c[j] = c[j - 1] + Len(Frame(more[j]))
            /\ \A i \in 1 .. Len(Frame(more[j])) : (flow \o f)[c[j - 1] + i] = Frame(more[j])[i]
      BY <1>9, <1>10, <1>12, Zenon
    <3> QED
      BY <3>1, <1>3, Zenon
  <2> QED
    BY <2>1, <2>2, <2>3, Zenon DEF Ends
<1> QED
  BY <1>13, Zenon DEF Framed, f, more

\* The first frame is that of the first message; taking it away leaves the
\* frames of the others.
LEMMA FramedFirst ==
  ASSUME NEW flow \in Seq(Bytes), NEW ms \in Seq(Sendable), NEW r \in Nat, r < Len(ms),
         Framed(flow, ms, r)
  PROVE  /\ ms[r + 1] \in Sendable /\ Len(Frame(ms[r + 1])) <= Len(flow)
         /\ \A i \in 1 .. Len(Frame(ms[r + 1])) : flow[i] = Frame(ms[r + 1])[i]
         /\ Framed(SubSeq(flow, Len(Frame(ms[r + 1])) + 1, Len(flow)), ms, r + 1)
         /\ Len(Frame(ms[Len(ms)])) <= Len(flow)
         /\ r + 1 < Len(ms) => Len(Frame(ms[Len(ms)])) < Len(flow)
<1> DEFINE n == Len(ms)
           k == Len(Frame(ms[r + 1]))
           rest == SubSeq(flow, k + 1, Len(flow))
<1>1. PICK b : Ends(b, flow, ms, r)
  BY Zenon DEF Framed
<1>2. /\ n \in Nat /\ r + 1 \in 1 .. n /\ r + 1 \in r .. n /\ r + 1 \in r + 1 .. n /\ (r + 1) - 1 = r
      /\ n \in r .. n /\ n \in r + 1 .. n /\ r \in r .. n /\ n - 1 \in r .. n
      /\ \A j \in 1 .. n : ms[j] \in Sendable
  OBVIOUS
<1>3. \A j \in 1 .. n : Len(Frame(ms[j])) \in Nat /\ Len(Frame(ms[j])) > 0
  BY <1>2, FrameLength, Zenon
<1>4. /\ b \in [r .. n -> Nat] /\ b[r] = 0 /\ b[n] = Len(flow)
      /\ \A i, j \in r .. n : i <= j => b[i] <= b[j]
      /\ \A j \in r + 1 .. n :
           /\ b[j] = b[j - 1] + Len(Frame(ms[j]))
           /\ \A i \in 1 .. Len(Frame(ms[j])) : flow[b[j - 1] + i] = Frame(ms[j])[i]
  BY <1>1, Zenon DEF Ends
<1>5. k \in Nat /\ k > 0 /\ b[r + 1] = k /\ \A j \in r + 1 .. n : k <= b[j] /\ b[j] <= Len(flow)
  <2>1. b[r + 1] = b[(r + 1) - 1] + k
    BY <1>2, <1>4, Zenon
  <2>2. k \in Nat /\ k > 0
    BY <1>2, <1>3, Zenon
  <2> HIDE DEF k
  <2>3. b[r + 1] = k
    BY <2>1, <2>2, <1>2, <1>4
  <2> QED
    BY <2>2, <2>3, <1>2, <1>4
<1>6. k <= Len(flow)
  BY <1>2, <1>5, Zenon
<1>7. \A i \in 1 .. k : flow[i] = Frame(ms[r + 1])[i]
  <2>1. \A i \in 1 .. k : flow[b[(r + 1) - 1] + i] = Frame(ms[r + 1])[i]
    BY <1>2, <1>4, Zenon
  <2> HIDE DEF k
  <2>2. \A i \in 1 .. k : b[(r + 1) - 1] + i = i
    BY <1>2, <1>4, <1>5
  <2> QED
    BY <2>1, <2>2, Zenon
<1>8. /\ Len(Frame(ms[n])) <= Len(flow)
      /\ r + 1 < n => Len(Frame(ms[n])) < Len(flow)
  <2>1. b[n] = b[n - 1] + Len(Frame(ms[n]))
    BY <1>2, <1>4, Zenon
  <2>2. b[n - 1] \in Nat /\ Len(Frame(ms[n])) \in Nat
    <3>1. n \in 1 .. n
      BY <1>2
    <3> QED
      BY <3>1, <1>2, <1>3, <1>4, Zenon
  <2>3. r + 1 < n => b[n - 1] > 0
    <3> SUFFICES ASSUME r + 1 < n PROVE b[n - 1] > 0
      BY Zenon
    <3>1. n - 1 \in r + 1 .. n
      BY <1>2
    <3> HIDE DEF k
    <3> QED
      BY <3>1, <1>5, <2>2
  <2> QED
    BY <2>1, <2>2, <2>3, <1>4
<1> HIDE DEF k
<1> DEFINE c == [j \in r + 1 .. n |-> b[j] - k]
<1>9. rest \in Seq(Bytes) /\ Len(rest) = Len(flow) - k /\ \A i \in 1 .. Len(flow) - k : rest[i] = flow[k + i]
  BY <1>5, <1>6
<1>10. /\ c \in [r + 1 .. n -> Nat] /\ \A j \in r + 1 .. n : c[j] = b[j] - k
  <2>1. \A j \in r + 1 .. n : j \in r .. n /\ b[j] \in Nat
    BY <1>2, <1>4
  <2>2. \A j \in r + 1 .. n : b[j] - k \in Nat
    BY <1>5, <2>1
  <2> QED
    BY <2>2, Zenon
<1> HIDE DEF c, rest
<1>11. c[r + 1] = 0 /\ c[n] = Len(rest)
  <2>1. c[r + 1] = k - k /\ c[n] = Len(flow) - k
    BY <1>2, <1>4, <1>5, <1>10, Zenon
  <2> QED
    BY <2>1, <1>5, <1>9
<1>12. \A i, j \in r + 1 .. n : i <= j => c[i] <= c[j]
  <2> SUFFICES ASSUME NEW i \in r + 1 .. n, NEW j \in r + 1 .. n, i <= j PROVE c[i] <= c[j]
    BY Zenon
  <2>1. i \in r .. n /\ j \in r .. n
    BY <1>2
  <2>2. b[i] <= b[j] /\ b[i] \in Nat /\ b[j] \in Nat
    BY <2>1, <1>4, Zenon
  <2> QED
    BY <2>2, <1>5, <1>10
<1>13. ASSUME NEW j \in (r + 1) + 1 .. n
       PROVE  /\ c[j] = c[j - 1] + Len(Frame(ms[j]))
              /\ \A i \in 1 .. Len(Frame(ms[j])) : rest[c[j - 1] + i] = Frame(ms[j])[i]
  <2>1. j \in r + 1 .. n /\ j - 1 \in r + 1 .. n /\ j \in 1 .. n /\ j \in r .. n /\ j - 1 \in r .. n
    BY <1>2
  <2>2. /\ b[j] = b[j - 1] + Len(Frame(ms[j]))
        /\ \A i \in 1 .. Len(Frame(ms[j])) : flow[b[j - 1] + i] = Frame(ms[j])[i]
    BY <2>1, <1>4, Zenon
  <2>3. /\ c[j] = b[j] - k /\ c[j - 1] = b[j - 1] - k /\ b[j] \in Nat /\ b[j - 1] \in Nat
        /\ k <= b[j - 1] /\ b[j] <= Len(flow) /\ Len(Frame(ms[j])) \in Nat /\ Len(flow) \in Nat
    <3>1. Len(flow) \in Nat
      OBVIOUS
    <3> QED
      BY <3>1, <2>1, <1>3, <1>4, <1>5, <1>10, Zenon
  <2>4. c[j] = c[j - 1] + Len(Frame(ms[j]))
    BY <2>2, <2>3, <1>5
  <2>5. \A i \in 1 .. Len(Frame(ms[j])) :
          c[j - 1] + i \in 1 .. Len(flow) - k /\ k + (c[j - 1] + i) = b[j - 1] + i
    <3>1. \A x, l, end \in Nat : k <= x /\ x + l <= end =>
            \A i \in 1 .. l : (x - k) + i \in 1 .. end - k /\ k + ((x - k) + i) = x + i
      BY <1>5
    <3>2. b[j - 1] + Len(Frame(ms[j])) <= Len(flow)
      BY <2>2, <2>3, Zenon
    <3>3. \A i \in 1 .. Len(Frame(ms[j])) :
            (b[j - 1] - k) + i \in 1 .. Len(flow) - k /\ k + ((b[j - 1] - k) + i) = b[j - 1] + i
      BY <3>1, <3>2, <2>3, ZenonT(30)
    <3>4. c[j - 1] = b[j - 1] - k
      BY <2>3, Zenon
    <3> QED
      BY <3>3, <3>4, Zenon
  <2>6. \A i \in 1 .. Len(Frame(ms[j])) : rest[c[j - 1] + i] = flow[b[j - 1] + i]
    BY <2>5, <1>9, Zenon
  <2> QED
    BY <2>2, <2>4, <2>6, Zenon
<1>14. Ends(c, rest, ms, r + 1)
  BY <1>10, <1>11, <1>12, <1>13, Zenon DEF Ends
<1>15. Framed(rest, ms, r + 1)
  BY <1>14, Zenon DEF Framed
<1> QED
  BY <1>2, <1>6, <1>7, <1>8, <1>15, Zenon DEF k, rest

\* Facts about sequences.
LEMMA SeqsEqual ==
  ASSUME NEW S, NEW a \in Seq(S), NEW b \in Seq(S), Len(a) = Len(b), \A i \in 1 .. Len(b) : a[i] = b[i]
  PROVE  a = b
OBVIOUS

\* The elements of a concatenation.
LEMMA ConcatAt ==
  ASSUME NEW S, NEW a \in Seq(S), NEW b \in Seq(S)
  PROVE  /\ a \o b \in Seq(S) /\ Len(a \o b) = Len(a) + Len(b)
         /\ \A i \in 1 .. Len(a) : (a \o b)[i] = a[i]
         /\ \A i \in 1 .. Len(b) : (a \o b)[Len(a) + i] = b[i]
OBVIOUS

\* Concatenation is associative.
LEMMA ConcatAssoc ==
  \A a, b, c \in Seq(Bytes) : (a \o b) \o c = a \o (b \o c)
OBVIOUS

\* A sequence is the part up to a place and the part after it.
LEMMA Rejoined ==
  ASSUME NEW S, NEW s \in Seq(S), NEW n \in 0 .. Len(s)
  PROVE  /\ SubSeq(s, 1, n) \in Seq(S) /\ Len(SubSeq(s, 1, n)) = n
         /\ SubSeq(s, n + 1, Len(s)) \in Seq(S) /\ Len(SubSeq(s, n + 1, Len(s))) = Len(s) - n
         /\ SubSeq(s, 1, n) \o SubSeq(s, n + 1, Len(s)) = s
<1> DEFINE a == SubSeq(s, 1, n)
           b == SubSeq(s, n + 1, Len(s))
<1>1. a \in Seq(S) /\ Len(a) = n /\ \A i \in 1 .. n : a[i] = s[i]
  OBVIOUS
<1>2. b \in Seq(S) /\ Len(b) = Len(s) - n /\ \A i \in 1 .. Len(s) - n : b[i] = s[n + i]
  OBVIOUS
<1> HIDE DEF a, b
<1>3. a \o b \in Seq(S) /\ Len(a \o b) = Len(s)
  BY <1>1, <1>2
<1>4. ASSUME NEW i \in 1 .. Len(s) PROVE (a \o b)[i] = s[i]
  <2>1. CASE i <= n
    BY <2>1, <1>1, <1>2
  <2>2. CASE ~ (i <= n)
    <3>1. i - n \in 1 .. Len(b) /\ n + (i - n) = i
      BY <2>2, <1>2
    <3>2. (a \o b)[Len(a) + (i - n)] = b[i - n]
      BY <3>1, <1>1, <1>2, ConcatAt
    <3>3. b[i - n] = s[n + (i - n)]
      BY <3>1, <1>2, Zenon
    <3> QED
      BY <3>1, <3>2, <3>3, <1>1, Zenon
  <2> QED
    BY <2>1, <2>2, Zenon
<1>5. a \o b = s
  BY <1>3, <1>4, SeqsEqual, Zenon
<1> QED
  BY <1>1, <1>2, <1>5, Zenon DEF a, b

-----------------------------------------------------------------------------
(* The invariant of the stream.                                            *)

\* What the reader has of the frame it is in, ...
Got == IF rdPc = "body" THEN Header(size) \o partial ELSE partial

\* ... all bytes of frames that are not read, and all messages begun.
Flow == Got \o (stream \o unwritten)
Sent == IF unwritten = <<>> THEN whole ELSE Append(whole, current)

\* Types, and what each step of the two sides has in hand.
Places ==
  /\ wrPc \in {"idle", "writing", "closed"} /\ rdPc \in {"first", "header", "body", "ended", "failed"}
  /\ stream \in Seq(Bytes) /\ unwritten \in Seq(Bytes) /\ partial \in Seq(Bytes)
  /\ whole \in Seq(Sendable) /\ received \in Seq(Sendable)
  /\ wrPc = "idle" => unwritten = <<>>
  /\ wrPc = "writing" => unwritten # <<>>
  /\ unwritten # <<>> => current \in Sendable /\ Len(unwritten) <= Len(Frame(current))
  /\ rdPc = "first" => partial = <<>>
  /\ rdPc = "header" => Len(partial) <= HeaderSize
  /\ rdPc = "body" => size \in 1 .. MaxFrameSize /\ Len(partial) <= size

\* The messages received are the first of those written.
Delivered ==
  Len(received) <= Len(whole) /\ \A i \in 1 .. Len(received) : received[i] = whole[i]

\* While the reader reads, what lies ahead of it is the frames of the
\* messages it has not had.
Unread == rdPc \in {"first", "header", "body"} => Framed(Flow, Sent, Len(received))

\* A reader that came to the end between frames has had every message whose
\* frame was begun, or a frame was begun of which no byte was written.
CleanEnd == rdPc = "ended" => wrPc = "closed" /\ received = whole /\ unwritten \in {<<>>, Frame(current)}

FrameInv == Places /\ Delivered /\ Unread /\ CleanEnd

\* Types of what the invariant is stated with.
LEMMA FlowTypes ==
  ASSUME Places
  PROVE  /\ Got \in Seq(Bytes) /\ Flow \in Seq(Bytes) /\ Sent \in Seq(Sendable)
         /\ Len(whole) <= Len(Sent) /\ Len(whole) \in Nat /\ Len(received) \in Nat
<1>1. Got \in Seq(Bytes)
  <2>1. CASE rdPc = "body"
    <3>1. size \in 0 .. MaxFrameSize /\ HeaderSize \in Nat
      BY <2>1, FrameAssumption DEF Places
    <3>2. Header(size) \in [1 .. HeaderSize -> Bytes]
      BY <3>1, HeaderLength, Zenon DEF Bytes
    <3>3. Header(size) \in Seq(Bytes)
      BY <3>1, <3>2
    <3> QED
      BY <2>1, <3>3 DEF Got, Places
  <2>2. CASE rdPc # "body"
    BY <2>2, Zenon DEF Got, Places
  <2> QED
    BY <2>1, <2>2, Zenon
<1>2. Flow \in Seq(Bytes)
  BY <1>1 DEF Flow, Places
<1>3. Sent \in Seq(Sendable) /\ Len(whole) <= Len(Sent)
  BY DEF Sent, Places
<1> QED
  BY <1>1, <1>2, <1>3 DEF Places

\* Nothing is written at the start.
LEMMA FramesBegin == FramesInit => FrameInv
<1> SUFFICES ASSUME FramesInit PROVE FrameInv
  BY Zenon
<1>1. Places /\ Delivered /\ CleanEnd
  BY DEF FramesInit, Places, Delivered, CleanEnd
<1>2. Flow = <<>> /\ Sent = <<>> /\ received = <<>>
  BY DEF FramesInit, Flow, Sent, Got
<1>3. Framed(Flow, Sent, Len(received))
  <2>1. <<>> \in Seq(Bytes) /\ <<>> \in Seq(Sendable) /\ Len(<<>>) \in Nat
    OBVIOUS
  <2> QED
    BY <1>2, <2>1, NothingFramed, Zenon
<1> QED
  BY <1>1, <1>3, Zenon DEF FrameInv, Unread

\* A step that moves bytes along leaves the frames what they are.
LEMMA Moved ==
  ASSUME FrameInv, Places', Flow' = Flow, Sent' = Sent, received' = received, whole' = whole \/ whole' = Sent,
         rdPc' \in {"first", "header", "body"} => rdPc \in {"first", "header", "body"},
         rdPc' # "ended"
  PROVE  FrameInv'
<1>1. Delivered'
  <2>1. CASE whole' = whole
    BY <2>1, Zenon DEF FrameInv, Delivered
  <2>2. CASE whole' = Append(whole, current)
    <3>1. /\ whole \in Seq(Sendable) /\ received \in Seq(Sendable)
          /\ Len(received) <= Len(whole) /\ \A i \in 1 .. Len(received) : received[i] = whole[i]
      BY Zenon DEF FrameInv, Delivered, Places
    <3>2. whole' \in Seq(Sendable)
      BY Zenon DEF Places
    <3>3. Len(whole') = Len(whole) + 1 /\ \A i \in 1 .. Len(whole) : whole'[i] = whole[i]
      BY <2>2, <3>1, <3>2
    <3> QED
      BY <3>1, <3>3 DEF Delivered
  <2> QED
    BY <2>1, <2>2, Zenon DEF Sent
<1>2. Unread'
  BY Zenon DEF FrameInv, Unread
<1> QED
  BY <1>1, <1>2, Zenon DEF FrameInv, CleanEnd

\* Each step of the two sides keeps the invariant.
LEMMA WriteFrameStep ==
  ASSUME FrameInv, NEW m \in Encodings, WriteFrame(m)
  PROVE  FrameInv'
<1>1. Places /\ Delivered /\ Unread /\ CleanEnd
  BY Zenon DEF FrameInv
<1>2. wrPc = "idle" /\ unwritten = <<>>
  BY <1>1, Zenon DEF Places, WriteFrame
<1>3. CASE ValidLength(Len(m))
  <2>1. m \in Sendable
    BY <1>3, Zenon DEF Sendable
  <2>2. /\ wrPc' = "writing" /\ current' = m /\ unwritten' = Frame(m)
        /\ UNCHANGED <<stream, rdPc, partial, size, whole, received>>
    BY <1>3, Zenon DEF WriteFrame, Frame
  <2>3. Frame(m) \in Seq(Bytes) /\ Len(Frame(m)) \in Nat /\ Frame(m) # <<>>
    BY <2>1, FrameFacts, FrameLength
  <2>4. Places'
    BY <1>1, <2>1, <2>2, <2>3 DEF Places
  <2>5. Got \in Seq(Bytes) /\ Flow \in Seq(Bytes) /\ Sent \in Seq(Sendable)
        /\ Len(whole) <= Len(Sent) /\ Len(whole) \in Nat /\ Len(received) \in Nat
    BY <1>1, FlowTypes, Zenon
  <2>6. Flow' = Flow \o Frame(m) /\ Sent = whole /\ Sent' = Append(Sent, m)
    <3>1. Got' = Got
      BY <2>2, Zenon DEF Got, Header
    <3>2. stream \in Seq(Bytes) /\ stream \o unwritten = stream /\ stream \o unwritten' = stream \o Frame(m)
      BY <1>1, <1>2, <2>2 DEF Places
    <3>3. Got \o (stream \o Frame(m)) = (Got \o stream) \o Frame(m)
      <4>1. Got \in Seq(Bytes) /\ stream \in Seq(Bytes) /\ Frame(m) \in Seq(Bytes)
        BY <2>3, <2>5, <3>2, Zenon
      <4> QED
        BY <4>1, ConcatAssoc, Zenon
    <3> QED
      BY <3>1, <3>2, <3>3, <2>2, <2>3, <1>2, Zenon DEF Flow, Sent
  <2>7. Unread'
    <3> SUFFICES ASSUME rdPc \in {"first", "header", "body"} PROVE Framed(Flow', Sent', Len(received)')
      BY <2>2, Zenon DEF Unread
    <3>1. Framed(Flow, Sent, Len(received))
      BY <1>1, Zenon DEF Unread
    <3>2. Len(received) <= Len(Sent)
      BY <1>1, <2>6, Zenon DEF Delivered
    <3>3. Framed(Flow \o Frame(m), Append(Sent, m), Len(received))
      BY <3>1, <3>2, <2>1, <2>5, FramedAppend, Zenon
    <3> QED
      BY <3>3, <2>2, <2>6, Zenon
  <2>8. rdPc # "ended"
    BY <1>1, <1>2, Zenon DEF CleanEnd
  <2> QED
    BY <1>1, <2>2, <2>4, <2>7, <2>8, Zenon DEF FrameInv, Delivered, CleanEnd
<1>4. CASE ~ ValidLength(Len(m))
  <2>1. wrPc' = "closed" /\ UNCHANGED <<current, unwritten, stream, rdPc, partial, size, whole, received>>
    BY <1>4, Zenon DEF WriteFrame
  <2>2. Flow' = Flow /\ Sent' = Sent
    BY <2>1, Zenon DEF Flow, Sent, Got, Header
  <2>3. Places'
    BY <1>1, <2>1, Zenon DEF Places, Frame, Header
  <2>4. rdPc # "ended"
    BY <1>1, <1>2, Zenon DEF CleanEnd
  <2> QED
    BY <1>1, <2>1, <2>2, <2>3, <2>4, Zenon DEF FrameInv, Unread, Delivered, CleanEnd
<1> QED
  BY <1>3, <1>4, Zenon

\* Some of the bytes reach the stream.
LEMMA WriteBytesStep ==
  ASSUME FrameInv, NEW n \in Nat, WriteBytes(n)
  PROVE  FrameInv'
<1>1. Places /\ CleanEnd
  BY Zenon DEF FrameInv
<1>2. /\ wrPc = "writing" /\ n \in 1 .. Len(unwritten)
      /\ stream' = stream \o SubSeq(unwritten, 1, n)
      /\ unwritten' = SubSeq(unwritten, n + 1, Len(unwritten))
      /\ IF n = Len(unwritten)
           THEN wrPc' = "idle" /\ whole' = Append(whole, current)
           ELSE UNCHANGED <<wrPc, whole>>
      /\ UNCHANGED <<current, rdPc, partial, size, received>>
  BY Zenon DEF WriteBytes
<1>3. /\ stream \in Seq(Bytes) /\ unwritten \in Seq(Bytes) /\ whole \in Seq(Sendable)
      /\ unwritten # <<>> /\ current \in Sendable /\ Len(unwritten) <= Len(Frame(current))
  BY <1>1, <1>2, Zenon DEF Places
<1>4. n \in 0 .. Len(unwritten)
  BY <1>2
<1> DEFINE a == SubSeq(unwritten, 1, n)
           b == SubSeq(unwritten, n + 1, Len(unwritten))
<1>5. a \in Seq(Bytes) /\ b \in Seq(Bytes) /\ Len(b) = Len(unwritten) - n /\ a \o b = unwritten
  BY <1>3, <1>4, Rejoined, Zenon
<1>6. stream' = stream \o a /\ unwritten' = b
  BY <1>2, Zenon
<1> HIDE DEF a, b
<1>7. Len(Frame(current)) \in Nat
  BY <1>3, FrameLength, Zenon
<1>8. (b = <<>> <=> n = Len(unwritten)) /\ Len(b) <= Len(Frame(current)) /\ stream \o a \in Seq(Bytes)
  BY <1>2, <1>3, <1>5, <1>7
<1>9. Frame(current)' = Frame(current)
  BY <1>2, Zenon DEF Frame, Header
<1>10. Places'
  <2>1. CASE n = Len(unwritten)
    <3>1. wrPc' = "idle" /\ whole' = Append(whole, current) /\ b = <<>> /\ Append(whole, current) \in Seq(Sendable)
      BY <2>1, <1>2, <1>3, <1>8
    <3> QED
      BY <3>1, <1>1, <1>2, <1>5, <1>6, <1>8, Zenon DEF Places
  <2>2. CASE n # Len(unwritten)
    <3>1. wrPc' = wrPc /\ whole' = whole /\ b # <<>>
      BY <2>2, <1>2, <1>8, Zenon
    <3> QED
      BY <3>1, <1>1, <1>2, <1>3, <1>5, <1>6, <1>8, <1>9, Zenon DEF Places
  <2> QED
    BY <2>1, <2>2, Zenon
<1>11. Sent' = Sent /\ (whole' = whole \/ whole' = Sent)
  <2>1. CASE n = Len(unwritten)
    BY <2>1, <1>2, <1>3, <1>6, <1>8, Zenon DEF Sent
  <2>2. CASE n # Len(unwritten)
    BY <2>2, <1>2, <1>3, <1>6, <1>8, Zenon DEF Sent
  <2> QED
    BY <2>1, <2>2, Zenon
<1>12. Flow' = Flow
  <2>1. Got' = Got /\ Got \in Seq(Bytes)
    BY <1>1, <1>2, FlowTypes, Zenon DEF Got, Header
  <2>2. (stream \o a) \o b = stream \o (a \o b)
    <3>1. stream \in Seq(Bytes) /\ a \in Seq(Bytes) /\ b \in Seq(Bytes)
      BY <1>3, <1>5, Zenon
    <3> QED
      BY <3>1, ConcatAssoc, Zenon
  <2> QED
    BY <2>1, <2>2, <1>5, <1>6, Zenon DEF Flow
<1>13. rdPc' # "ended"
  BY <1>1, <1>2, Zenon DEF CleanEnd
<1> QED
  BY <1>2, <1>10, <1>11, <1>12, <1>13, Moved, Zenon

\* The writer stops between two frames or within one.
LEMMA StopWritingStep ==
  ASSUME FrameInv, StopWriting
  PROVE  FrameInv'
<1>1. wrPc' = "closed" /\ UNCHANGED <<current, unwritten, stream, rdPc, partial, size, whole, received>>
  BY Zenon DEF StopWriting
<1>2. Places'
  BY <1>1, Zenon DEF FrameInv, Places, Frame, Header
<1>3. Flow' = Flow /\ Sent' = Sent
  BY <1>1, Zenon DEF Flow, Sent, Got, Header
<1>4. rdPc' # "ended"
  BY <1>1, Zenon DEF FrameInv, CleanEnd, StopWriting
<1> QED
  BY <1>1, <1>2, <1>3, <1>4, Moved, Zenon

\* Bytes that the reader takes from the stream become part of what it got.
LEMMA Taken ==
  ASSUME NEW got \in Seq(Bytes), NEW s \in Seq(Bytes), NEW u \in Seq(Bytes), NEW n \in 0 .. Len(s)
  PROVE  (got \o SubSeq(s, 1, n)) \o (SubSeq(s, n + 1, Len(s)) \o u) = got \o (s \o u)
<1> DEFINE a == SubSeq(s, 1, n)
           b == SubSeq(s, n + 1, Len(s))
<1>1. a \in Seq(Bytes) /\ b \in Seq(Bytes) /\ a \o b = s
  BY Rejoined, Zenon
<1> HIDE DEF a, b
<1>2. a \in Seq(Bytes) /\ b \in Seq(Bytes)
  BY <1>1, Zenon
<1>3. b \o u \in Seq(Bytes)
  BY <1>2
<1>4. (got \o a) \o (b \o u) = got \o (a \o (b \o u))
  BY <1>2, <1>3, ConcatAssoc, ZenonT(30)
<1>5. a \o (b \o u) = (a \o b) \o u
  BY <1>2, ConcatAssoc, ZenonT(30)
<1> QED
  BY <1>1, <1>4, <1>5, Zenon DEF a, b

\* The reader takes some of the bytes.
LEMMA ReadBytesStep ==
  ASSUME FrameInv, NEW n \in Nat, ReadBytes(n)
  PROVE  FrameInv'
<1>1. Places
  BY Zenon DEF FrameInv
<1>2. /\ rdPc \in {"header", "body"} /\ n \in 1 .. Len(stream)
      /\ n <= (IF rdPc = "header" THEN HeaderSize ELSE size) - Len(partial)
      /\ partial' = partial \o SubSeq(stream, 1, n)
      /\ stream' = SubSeq(stream, n + 1, Len(stream))
      /\ UNCHANGED <<wrPc, current, unwritten, rdPc, size, whole, received>>
  BY Zenon DEF ReadBytes
<1>3. /\ stream \in Seq(Bytes) /\ unwritten \in Seq(Bytes) /\ partial \in Seq(Bytes) /\ Got \in Seq(Bytes)
      /\ n \in 0 .. Len(stream)
  BY <1>1, <1>2, FlowTypes DEF Places
<1>4. /\ SubSeq(stream, 1, n) \in Seq(Bytes) /\ Len(SubSeq(stream, 1, n)) = n
      /\ SubSeq(stream, n + 1, Len(stream)) \in Seq(Bytes)
  BY <1>3, Rejoined, Zenon
<1> DEFINE a == SubSeq(stream, 1, n)
<1>5. partial' \in Seq(Bytes) /\ Len(partial') = Len(partial) + n /\ stream' \in Seq(Bytes)
  BY <1>2, <1>3, <1>4
<1>6. Got' = Got \o a
  <2>1. CASE rdPc = "body"
    <3>1. HeaderSize \in Nat /\ size \in 0 .. MaxFrameSize
      BY <2>1, <1>1, FrameAssumption DEF Places
    <3>2. Header(size) \in [1 .. HeaderSize -> Bytes]
      BY <3>1, HeaderLength, Zenon DEF Bytes
    <3>3. Header(size) \in Seq(Bytes) /\ partial \in Seq(Bytes) /\ a \in Seq(Bytes)
      BY <3>1, <3>2, <1>3, <1>4
    <3>4. (Header(size) \o partial) \o a = Header(size) \o (partial \o a)
      BY <3>3, ConcatAssoc, Zenon
    <3>5. Header(size)' = Header(size)
      BY <1>2, Zenon DEF Header
    <3> HIDE DEF a
    <3>6. partial' = partial \o a
      BY <1>2, Zenon DEF a
    <3> QED
      BY <2>1, <3>4, <3>5, <3>6, <1>2, Zenon DEF Got
  <2>2. CASE rdPc # "body"
    BY <2>2, <1>2, Zenon DEF Got
  <2> QED
    BY <2>1, <2>2, Zenon
<1>7. Flow' = Flow
  <2>1. Flow' = (Got \o a) \o (SubSeq(stream, n + 1, Len(stream)) \o unwritten)
    BY <1>2, <1>6, Zenon DEF Flow
  <2> QED
    BY <2>1, <1>3, Taken, Zenon DEF Flow
<1>8. Sent' = Sent
  BY <1>2, Zenon DEF Sent
<1>9. Places'
  <2>1. Frame(current)' = Frame(current)
    BY <1>2, Zenon DEF Frame, Header
  <2>2. rdPc = "header" => Len(partial') <= HeaderSize
    BY <1>2, <1>3, <1>5, FrameAssumption
  <2>3. rdPc = "body" => Len(partial') <= size
    BY <1>1, <1>2, <1>3, <1>5 DEF Places
  <2> QED
    BY <1>1, <1>2, <1>5, <2>1, <2>2, <2>3, Zenon DEF Places
<1>10. rdPc' # "ended"
  BY <1>2, Zenon
<1> QED
  BY <1>2, <1>7, <1>8, <1>9, <1>10, Moved, Zenon

\* The first byte of a header, or the end before it.
LEMMA ReadFirstStep ==
  ASSUME FrameInv, ReadFirst
  PROVE  FrameInv'
<1>1. Places /\ Delivered /\ Unread /\ CleanEnd
  BY Zenon DEF FrameInv
<1>2. rdPc = "first" /\ partial = <<>> /\ UNCHANGED <<wrPc, current, unwritten, size, whole, received>>
  BY <1>1, Zenon DEF ReadFirst, Places
<1>3. Got = <<>> /\ stream \in Seq(Bytes) /\ unwritten \in Seq(Bytes)
  BY <1>1, <1>2, Zenon DEF Got, Places
<1>4. CASE stream # <<>> /\ partial' = <<Head(stream)>> /\ stream' = Tail(stream) /\ rdPc' = "header"
  <2>1. /\ 1 \in 0 .. Len(stream) /\ <<Head(stream)>> = SubSeq(stream, 1, 1)
        /\ Tail(stream) = SubSeq(stream, 1 + 1, Len(stream))
    BY <1>3, <1>4
  <2>2. <<Head(stream)>> \in Seq(Bytes) /\ Len(<<Head(stream)>>) = 1 /\ Tail(stream) \in Seq(Bytes)
    BY <1>3, <1>4
  <2>3. (<<>> \o SubSeq(stream, 1, 1)) \o (SubSeq(stream, 1 + 1, Len(stream)) \o unwritten)
          = <<>> \o (stream \o unwritten)
    <3>1. <<>> \in Seq(Bytes)
      OBVIOUS
    <3> QED
      BY <3>1, <2>1, <1>3, Taken, ZenonT(30)
  <2>4. Got' = <<>> \o SubSeq(stream, 1, 1)
    BY <1>4, <2>1, <2>2 DEF Got
  <2>5. Flow' = Flow
    BY <2>1, <2>3, <2>4, <1>2, <1>3, <1>4, Zenon DEF Flow
  <2>6. Sent' = Sent
    BY <1>2, Zenon DEF Sent
  <2>7. Places'
    <3>1. Frame(current)' = Frame(current)
      BY <1>2, Zenon DEF Frame, Header
    <3>2. 1 <= HeaderSize
      BY FrameAssumption
    <3> QED
      BY <3>1, <3>2, <1>1, <1>2, <1>4, <2>2, Zenon DEF Places
  <2> QED
    BY <1>2, <1>4, <2>5, <2>6, <2>7, Moved, Zenon
<1>5. CASE AtEnd /\ rdPc' = (IF side = "daemon" THEN "ended" ELSE "failed") /\ UNCHANGED <<partial, stream>>
  <2>1. wrPc = "closed" /\ stream = <<>>
    BY <1>5, Zenon DEF AtEnd
  <2>2. Places'
    <3>1. rdPc' \in {"ended", "failed"}
      BY <1>5, Zenon
    <3>2. Frame(current)' = Frame(current)
      BY <1>2, Zenon DEF Frame, Header
    <3> QED
      BY <3>1, <3>2, <1>1, <1>2, <1>5, Zenon DEF Places
  <2>3. Flow = unwritten
    BY <2>1, <1>3 DEF Flow
  <2>4. Framed(Flow, Sent, Len(received)) /\ Flow \in Seq(Bytes) /\ Sent \in Seq(Sendable)
        /\ Len(received) \in Nat /\ Len(whole) \in Nat /\ Len(received) <= Len(whole)
    BY <1>1, <1>2, FlowTypes, Zenon DEF Unread, Delivered
  <2>5. received = whole /\ unwritten \in {<<>>, Frame(current)}
    <3>1. Len(received) = Len(whole) /\ unwritten \in {<<>>, Frame(current)}
      <4>1. CASE unwritten = <<>>
        <5>1. Sent = whole /\ Len(Flow) = 0
          BY <4>1, <2>3, Zenon DEF Sent
        <5>2. ~ (Len(received) < Len(Sent))
          <6> SUFFICES ASSUME Len(received) < Len(Sent) PROVE FALSE
            BY Zenon
          <6>1. /\ Sent[Len(received) + 1] \in Sendable
                /\ Len(Frame(Sent[Len(received) + 1])) <= Len(Flow)
            BY <2>4, FramedFirst, Zenon
          <6>2. Len(Frame(Sent[Len(received) + 1])) \in Nat /\ Len(Frame(Sent[Len(received) + 1])) > 0
            BY <6>1, FrameLength, Zenon
          <6> QED
            BY <6>1, <6>2, <5>1
        <5> QED
          BY <4>1, <5>1, <5>2, <2>4
      <4>2. CASE unwritten # <<>>
        <5>1. /\ current \in Sendable /\ Len(unwritten) <= Len(Frame(current)) /\ whole \in Seq(Sendable)
              /\ Sent = Append(whole, current)
          BY <4>2, <1>1, Zenon DEF Places, Sent
        <5>2. Len(Sent) = Len(whole) + 1 /\ Sent[Len(whole) + 1] = current
          BY <5>1
        <5>3. Len(received) < Len(Sent)
          BY <5>2, <2>4
        <5> DEFINE f == Frame(Sent[Len(received) + 1])
        <5>4. /\ Len(f) <= Len(Flow)
              /\ \A i \in 1 .. Len(f) : Flow[i] = f[i]
              /\ Len(received) + 1 < Len(Sent) => Len(Frame(Sent[Len(Sent)])) < Len(Flow)
          BY <5>3, <2>4, FramedFirst, Zenon
        <5>5. Frame(current) \in Seq(Bytes) /\ Len(Frame(current)) \in Nat
          BY <5>1, FrameFacts
        <5>6. Len(received) = Len(whole)
          BY <5>1, <5>2, <5>4, <5>5, <2>3, <2>4
        <5>7. f = Frame(current)
          BY <5>2, <5>6, Zenon
        <5> HIDE DEF f
        <5>8. Len(unwritten) = Len(Frame(current)) /\ \A i \in 1 .. Len(Frame(current)) : unwritten[i] = Frame(current)[i]
          BY <5>1, <5>4, <5>5, <5>7, <2>3, <1>3
        <5>9. unwritten = Frame(current)
          BY <5>5, <5>8, <1>3, SeqsEqual, Zenon
        <5> QED
          BY <5>6, <5>9, Zenon
      <4> QED
        BY <4>1, <4>2, Zenon
    <3>2. received \in Seq(Sendable) /\ whole \in Seq(Sendable) /\ \A i \in 1 .. Len(whole) : received[i] = whole[i]
      BY <3>1, <1>1, Zenon DEF Places, Delivered
    <3> QED
      BY <3>1, <3>2, SeqsEqual, Zenon
  <2>6. CleanEnd'
    <3>1. Frame(current)' = Frame(current)
      BY <1>2, Zenon DEF Frame, Header
    <3> QED
      BY <3>1, <2>1, <2>5, <1>2, Zenon DEF CleanEnd
  <2>7. rdPc' \notin {"first", "header", "body"}
    BY <1>5, Zenon
  <2> QED
    BY <2>2, <2>6, <2>7, <1>1, <1>2, Zenon DEF FrameInv, Unread, Delivered
<1> QED
  BY <1>4, <1>5, Zenon DEF ReadFirst

\* The frame that the reader is in is the next message's.
LEMMA NextFrame ==
  ASSUME FrameInv, rdPc \in {"header", "body"}, Len(Got) >= HeaderSize
  PROVE  LET m == Sent[Len(received) + 1] IN
         /\ Len(received) < Len(Sent) /\ m \in Sendable
         /\ Len(Frame(m)) <= Len(Flow)
         /\ \A i \in 1 .. Len(Frame(m)) : Flow[i] = Frame(m)[i]
         /\ \A i \in 1 .. Len(Got) : Flow[i] = Got[i]
         /\ Len(Flow) = Len(Got) + Len(stream) + Len(unwritten)
         /\ Framed(SubSeq(Flow, Len(Frame(m)) + 1, Len(Flow)), Sent, Len(received) + 1)
<1>1. /\ Got \in Seq(Bytes) /\ Flow \in Seq(Bytes) /\ Sent \in Seq(Sendable)
      /\ Len(whole) <= Len(Sent) /\ Len(whole) \in Nat /\ Len(received) \in Nat
      /\ Len(received) <= Len(whole) /\ Framed(Flow, Sent, Len(received))
      /\ stream \in Seq(Bytes) /\ unwritten \in Seq(Bytes)
  BY FlowTypes, Zenon DEF FrameInv, Unread, Delivered, Places
<1>2. stream \o unwritten \in Seq(Bytes) /\ Len(stream \o unwritten) = Len(stream) + Len(unwritten)
  BY <1>1
<1>3. Len(Flow) = Len(Got) + Len(stream) + Len(unwritten) /\ \A i \in 1 .. Len(Got) : Flow[i] = Got[i]
  BY <1>1, <1>2 DEF Flow
<1>4. Len(received) < Len(Sent)
  <2> SUFFICES ASSUME ~ (Len(received) < Len(Sent)) PROVE FALSE
    BY Zenon
  <2>1. Len(received) = Len(Sent)
    BY <1>1
  <2>2. Flow = <<>>
    BY <2>1, <1>1, NothingFramed, Zenon
  <2>3. HeaderSize \in Nat /\ HeaderSize > 0
    BY FrameAssumption
  <2> QED
    BY <2>2, <2>3, <1>1, <1>3
<1> QED
  BY <1>1, <1>3, <1>4, FramedFirst, Zenon

\* The header is complete: its length is that of the next message.
LEMMA ReadHeaderStep ==
  ASSUME FrameInv, ReadHeader
  PROVE  FrameInv'
<1>1. Places
  BY Zenon DEF FrameInv
<1>2. /\ rdPc = "header" /\ Len(partial) = HeaderSize /\ partial \in Seq(Bytes) /\ Got = partial
      /\ HeaderSize \in Nat /\ MaxFrameSize \in Nat
      /\ UNCHANGED <<wrPc, current, unwritten, stream, whole, received>>
  BY <1>1, FrameAssumption, Zenon DEF ReadHeader, Places, Got
<1>3. /\ size' = Length(partial) /\ partial' = <<>>
      /\ rdPc' = IF ValidLength(size') THEN "body" ELSE "refused"
  BY Zenon DEF ReadHeader
<1> DEFINE m == Sent[Len(received) + 1]
<1>4. /\ m \in Sendable
      /\ \A i \in 1 .. Len(Frame(m)) : Flow[i] = Frame(m)[i]
      /\ \A i \in 1 .. Len(Got) : Flow[i] = Got[i]
  BY <1>2, NextFrame
<1> HIDE DEF m
<1>5. /\ Len(m) \in 1 .. MaxFrameSize /\ Header(Len(m)) \in Seq(Bytes) /\ Len(Header(Len(m))) = HeaderSize
      /\ Len(Frame(m)) = HeaderSize + Len(m) /\ \A i \in 1 .. HeaderSize : Frame(m)[i] = Header(Len(m))[i]
  BY <1>4, FrameFacts, Zenon
<1>6. \A i \in 1 .. HeaderSize : partial[i] = Header(Len(m))[i]
  <2>1. \A i \in 1 .. HeaderSize : i \in 1 .. Len(Frame(m)) /\ i \in 1 .. Len(Got)
    BY <1>2, <1>5
  <2> QED
    BY <2>1, <1>2, <1>4, <1>5, Zenon
<1>7. partial = Header(Len(m))
  BY <1>2, <1>5, <1>6, SeqsEqual, Zenon
<1>8. Length(partial) = Len(m)
  <2>1. Len(m) \in 0 .. MaxFrameSize
    BY <1>2, <1>5
  <2> QED
    BY <2>1, <1>7, HeaderLength, Zenon
<1>9. size' = Len(m) /\ ValidLength(size') /\ rdPc' = "body"
  BY <1>3, <1>5, <1>8, Zenon DEF ValidLength
<1>10. Got' = Got
  <2>1. Header(size)' = Header(Len(m))
    BY <1>9, Zenon DEF Header
  <2>2. Header(Len(m)) \o <<>> = Header(Len(m))
    BY <1>5
  <2> QED
    BY <2>1, <2>2, <1>2, <1>3, <1>7, <1>9, Zenon DEF Got
<1>11. Flow' = Flow /\ Sent' = Sent
  BY <1>2, <1>10, Zenon DEF Flow, Sent
<1>12. Places'
  <2>1. Frame(current)' = Frame(current)
    BY <1>2, Zenon DEF Frame, Header
  <2>2. Len(partial') <= size' /\ partial' \in Seq(Bytes) /\ size' \in 1 .. MaxFrameSize
    BY <1>3, <1>5, <1>9
  <2> QED
    BY <2>1, <2>2, <1>1, <1>2, <1>9, Zenon DEF Places
<1> QED
  BY <1>2, <1>9, <1>11, <1>12, Moved, Zenon

\* The body is complete: it is the next message.
LEMMA ReadBodyStep ==
  ASSUME FrameInv, ReadBody
  PROVE  FrameInv'
<1>1. Places /\ Delivered
  BY Zenon DEF FrameInv
<1>2. /\ rdPc = "body" /\ Len(partial) = size /\ partial \in Seq(Bytes) /\ size \in 1 .. MaxFrameSize
      /\ stream \in Seq(Bytes) /\ unwritten \in Seq(Bytes)
      /\ received \in Seq(Sendable) /\ whole \in Seq(Sendable)
      /\ Got = Header(size) \o partial /\ HeaderSize \in Nat /\ MaxFrameSize \in Nat
      /\ UNCHANGED <<wrPc, current, unwritten, stream, size, whole>>
      /\ received' = Append(received, partial) /\ partial' = <<>> /\ rdPc' = "first"
  BY <1>1, FrameAssumption, Zenon DEF ReadBody, Places, Got
<1>3. size \in 0 .. MaxFrameSize
  BY <1>2
<1>4. Header(size) \in [1 .. HeaderSize -> Bytes] /\ Length(Header(size)) = size
  BY <1>3, HeaderLength, Zenon DEF Bytes
<1>5. Header(size) \in Seq(Bytes) /\ Len(Header(size)) = HeaderSize
  BY <1>2, <1>4
<1>6. /\ Got \in Seq(Bytes) /\ Len(Got) = HeaderSize + size
      /\ \A i \in 1 .. HeaderSize : Got[i] = Header(size)[i]
      /\ \A i \in 1 .. size : Got[HeaderSize + i] = partial[i]
  <2>1. \A h, p \in Seq(Bytes) : /\ h \o p \in Seq(Bytes) /\ Len(h \o p) = Len(h) + Len(p)
                                 /\ \A i \in 1 .. Len(h) : (h \o p)[i] = h[i]
                                 /\ \A i \in 1 .. Len(p) : (h \o p)[Len(h) + i] = p[i]
    OBVIOUS
  <2> QED
    BY <2>1, <1>2, <1>5, ZenonT(30)
<1> DEFINE r == Len(received)
           m == Sent[r + 1]
<1>7. Len(Got) >= HeaderSize
  BY <1>2, <1>6
<1>8. /\ r < Len(Sent) /\ m \in Sendable
      /\ Len(Frame(m)) <= Len(Flow)
      /\ \A i \in 1 .. Len(Frame(m)) : Flow[i] = Frame(m)[i]
      /\ \A i \in 1 .. Len(Got) : Flow[i] = Got[i]
      /\ Len(Flow) = Len(Got) + Len(stream) + Len(unwritten)
      /\ Framed(SubSeq(Flow, Len(Frame(m)) + 1, Len(Flow)), Sent, r + 1)
  BY <1>2, <1>7, NextFrame, Zenon
<1> HIDE DEF m
<1>9. /\ m \in Seq(Bytes) /\ Len(m) \in 1 .. MaxFrameSize
      /\ Header(Len(m)) \in Seq(Bytes) /\ Len(Header(Len(m))) = HeaderSize
      /\ Len(Frame(m)) = HeaderSize + Len(m)
      /\ \A i \in 1 .. HeaderSize : Frame(m)[i] = Header(Len(m))[i]
      /\ \A i \in 1 .. Len(m) : Frame(m)[HeaderSize + i] = m[i]
  BY <1>8, FrameFacts, Zenon
<1>10. size = Len(m)
  <2>1. \A i \in 1 .. HeaderSize : i \in 1 .. Len(Frame(m)) /\ i \in 1 .. Len(Got)
    BY <1>2, <1>6, <1>9
  <2>2. \A i \in 1 .. HeaderSize : Header(size)[i] = Header(Len(m))[i]
    BY <2>1, <1>6, <1>8, <1>9, Zenon
  <2>3. Header(size) = Header(Len(m))
    BY <2>2, <1>5, <1>9, SeqsEqual, Zenon
  <2>4. Length(Header(Len(m))) = Len(m)
    <3>1. Len(m) \in 0 .. MaxFrameSize
      BY <1>2, <1>9
    <3> QED
      BY <3>1, HeaderLength, Zenon
  <2> QED
    BY <2>3, <2>4, <1>4, Zenon
<1>11. partial = m
  <2>1. \A i \in 1 .. size : HeaderSize + i \in 1 .. Len(Frame(m)) /\ HeaderSize + i \in 1 .. Len(Got)
    BY <1>2, <1>6, <1>9, <1>10
  <2>2. \A i \in 1 .. size : partial[i] = m[i]
    BY <2>1, <1>6, <1>8, <1>9, <1>10, ZenonT(30)
  <2> QED
    BY <2>2, <1>2, <1>9, <1>10, SeqsEqual, Zenon
<1>12. Flow \in Seq(Bytes) /\ Sent \in Seq(Sendable) /\ Len(whole) <= Len(Sent) /\ r \in Nat
  BY <1>1, FlowTypes, Zenon
<1>13. SubSeq(Flow, Len(Frame(m)) + 1, Len(Flow)) = stream \o unwritten
  <2> DEFINE rest == stream \o unwritten
  <2>1. rest \in Seq(Bytes) /\ Len(rest) = Len(stream) + Len(unwritten)
    BY <1>2
  <2>2. Flow = Got \o rest /\ Len(Frame(m)) = Len(Got)
    BY <1>6, <1>9, <1>10, Zenon DEF Flow
  <2> HIDE DEF rest
  <2>3. \A g, s \in Seq(Bytes) : SubSeq(g \o s, Len(g) + 1, Len(g \o s)) = s
    OBVIOUS
  <2> QED
    BY <2>1, <2>2, <2>3, <1>6, Zenon DEF rest
<1>14. r < Len(whole)
  <2> SUFFICES ASSUME ~ (r < Len(whole)) PROVE FALSE
    BY Zenon
  <2>1. r = Len(whole) /\ unwritten # <<>> /\ Sent = Append(whole, current)
    BY <1>1, <1>2, <1>8, <1>12 DEF Delivered, Sent
  <2>2. r + 1 = Len(Sent) /\ r + 1 \in Nat
    BY <2>1, <1>2, <1>12
  <2>3. stream \o unwritten \in Seq(Bytes) /\ Len(stream \o unwritten) = Len(stream) + Len(unwritten)
    BY <1>2
  <2>4. stream \o unwritten = <<>>
    BY <2>2, <2>3, <1>8, <1>12, <1>13, NothingFramed, Zenon
  <2> QED
    BY <2>1, <2>3, <2>4, <1>2
<1>15. m = whole[r + 1]
  BY <1>2, <1>12, <1>14 DEF Sent, m
<1>16. received' \in Seq(Sendable) /\ Len(received') = r + 1 /\ received'[r + 1] = m
       /\ \A i \in 1 .. r : received'[i] = received[i]
  BY <1>2, <1>8, <1>11
<1>17. Delivered'
  <2>1. r + 1 <= Len(whole) /\ Len(whole) \in Nat
    BY <1>2, <1>12, <1>14
  <2>2. \A i \in 1 .. r + 1 : received'[i] = whole[i]
    <3> TAKE i \in 1 .. r + 1
    <3>1. i = r + 1 \/ i \in 1 .. r
      BY <1>12
    <3> QED
      BY <3>1, <1>1, <1>15, <1>16, Zenon DEF Delivered
  <2> QED
    BY <2>1, <2>2, <1>2, <1>16, Zenon DEF Delivered
<1>18. Flow' = stream \o unwritten /\ Sent' = Sent
  <2>1. Got' = <<>>
    BY <1>2, Zenon DEF Got
  <2>2. stream \o unwritten \in Seq(Bytes)
    BY <1>2
  <2> QED
    BY <2>1, <2>2, <1>2 DEF Flow, Sent
<1>19. Unread'
  <2>1. Framed(stream \o unwritten, Sent, r + 1)
    BY <1>8, <1>13, Zenon
  <2> QED
    BY <2>1, <1>16, <1>18, Zenon DEF Unread
<1>20. Places'
  <2>1. Frame(current)' = Frame(current)
    BY <1>2, Zenon DEF Frame, Header
  <2>2. <<>> \in Seq(Bytes)
    OBVIOUS
  <2> QED
    BY <2>1, <2>2, <1>1, <1>2, <1>16, Zenon DEF Places
<1> QED
  BY <1>2, <1>17, <1>19, <1>20, Zenon DEF FrameInv, CleanEnd

\* The stream ends within a frame.
LEMMA ReadFailStep ==
  ASSUME FrameInv, ReadFail
  PROVE  FrameInv'
<1>1. rdPc' = "failed" /\ UNCHANGED <<wrPc, current, unwritten, stream, partial, size, whole, received>>
  BY Zenon DEF ReadFail
<1>2. Places'
  BY <1>1, Zenon DEF FrameInv, Places, Frame, Header
<1> QED
  BY <1>1, <1>2, Zenon DEF FrameInv, Delivered, Unread, CleanEnd

\* Every step keeps the invariant.
LEMMA FramesStep == FrameInv /\ [FramesNext]_frameVars => FrameInv'
<1> SUFFICES ASSUME FrameInv, [FramesNext]_frameVars PROVE FrameInv'
  BY Zenon
<1>1. CASE UNCHANGED frameVars
  BY <1>1, Zenon DEF frameVars, FrameInv, Places, Delivered, Unread, CleanEnd, Flow, Sent, Got, Frame, Header
<1>2. ASSUME NEW m \in Encodings, WriteFrame(m) PROVE FrameInv'
  BY <1>2, WriteFrameStep, Zenon
<1>3. ASSUME NEW n \in 1 .. StreamCap, WriteBytes(n) \/ ReadBytes(n) PROVE FrameInv'
  <2>1. n \in Nat
    BY FrameAssumption
  <2> QED
    BY <1>3, <2>1, WriteBytesStep, ReadBytesStep, Zenon
<1>4. CASE StopWriting \/ ReadFirst \/ ReadHeader \/ ReadBody \/ ReadFail
  BY <1>4, StopWritingStep, ReadFirstStep, ReadHeaderStep, ReadBodyStep, ReadFailStep, Zenon
<1> QED
  BY <1>1, <1>2, <1>3, <1>4, Zenon DEF FramesNext

\* FramesAreWhole always holds: whatever the sizes of the writes and the reads
\* of write_frame and read_frame, the messages received are those written, in
\* their order, each of them whole, no length is refused that was sent, and a
\* stream that ends between frames has lost none.
THEOREM FramesStayWhole == FramesSpec => []FramesAreWhole
<1>1. FrameInv => FramesAreWhole
  <2> SUFFICES ASSUME FrameInv PROVE FramesAreWhole
    BY Zenon
  <2>1. /\ received \in Seq(Sendable) /\ whole \in Seq(Sendable) /\ Len(received) <= Len(whole)
        /\ \A i \in 1 .. Len(received) : received[i] = whole[i]
    BY Zenon DEF FrameInv, Places, Delivered
  <2>2. received = SubSeq(whole, 1, Len(received))
    <3>1. Len(received) \in 0 .. Len(whole)
      BY <2>1
    <3>2. SubSeq(whole, 1, Len(received)) \in Seq(Sendable) /\ Len(SubSeq(whole, 1, Len(received))) = Len(received)
      BY <2>1, <3>1, Rejoined, ZenonT(30)
    <3>3. \A i \in 1 .. Len(received) : SubSeq(whole, 1, Len(received))[i] = whole[i]
      BY <2>1, <3>1
    <3> QED
      BY <2>1, <3>2, <3>3, SeqsEqual, Zenon
  <2> QED
    BY <2>1, <2>2, Zenon DEF FramesAreWhole, FrameInv, Places, CleanEnd, Frame
<1> QED
  BY <1>1, FramesBegin, FramesStep, PTL DEF FramesSpec

-----------------------------------------------------------------------------
\* TwoTo is what its definition says.
LEMMA Powers ==
  /\ TwoTo[0] = 1
  /\ \A i \in Nat : TwoTo[i] \in Nat /\ TwoTo[i] # 0 /\ TwoTo[i + 1] = 2 * TwoTo[i]
<1> DEFINE Fit(w) == w = [i \in Nat |-> IF i = 0 THEN 1 ELSE 2 * w[i - 1]]
           g == [n \in Nat |-> [v \in Nat |-> 2 * v]]
<1>1. g \in [Nat -> [Nat -> Nat]] /\ 1 \in Nat
  OBVIOUS
<1>2. PICK w : Solves(w, Nat, 1, g)
  <2> HIDE DEF g
  <2> QED
    BY <1>1, NatRecursion, Zenon
<1>3. w \in [Nat -> Nat] /\ w[0] = 1 /\ \A n \in Nat : w[n + 1] = 2 * w[n]
  BY <1>2, Zenon DEF Solves
<1>4. Fit(w)
  <2>1. ASSUME NEW i \in Nat PROVE w[i] = IF i = 0 THEN 1 ELSE 2 * w[i - 1]
    <3>1. CASE i = 0
      BY <3>1, <1>3, Zenon
    <3>2. CASE i # 0
      <4>1. i - 1 \in Nat /\ (i - 1) + 1 = i
        BY <3>2
      <4> QED
        BY <4>1, <1>3, <3>2, Zenon
    <3> QED
      BY <3>1, <3>2, Zenon
  <2> QED
    BY <2>1, <1>3, Zenon
<1>5. Fit(TwoTo)
  BY <1>4, Zenon DEF TwoTo
<1>6. \A i \in Nat : TwoTo[i] = IF i = 0 THEN 1 ELSE 2 * TwoTo[i - 1]
  <2> DEFINE W == TwoTo
  <2>1. W = [i \in Nat |-> IF i = 0 THEN 1 ELSE 2 * W[i - 1]]
    BY <1>5, Zenon
  <2> HIDE DEF W
  <2>2. \A i \in Nat : W[i] = IF i = 0 THEN 1 ELSE 2 * W[i - 1]
    BY <2>1, Zenon
  <2> QED
    BY <2>2, Zenon DEF W
<1>7. \A i \in Nat : TwoTo[i + 1] = 2 * TwoTo[i]
  <2> TAKE i \in Nat
  <2>1. i + 1 \in Nat /\ i + 1 # 0 /\ (i + 1) - 1 = i
    OBVIOUS
  <2>2. TwoTo[i + 1] = 2 * TwoTo[(i + 1) - 1]
    BY <1>6, <2>1, Zenon
  <2> QED
    BY <2>1, <2>2, Zenon
<1>8. TwoTo[0] = 1
  BY <1>6, Zenon
<1> DEFINE P == {i \in Nat : TwoTo[i] \in Nat \ {0}}
<1>9. Nat \subseteq P
  <2>1. 0 \in P
    BY <1>8
  <2>2. ASSUME NEW i \in Nat, i \in P PROVE i + 1 \in P
    <3>1. \A v \in Nat \ {0} : 2 * v \in Nat \ {0}
      OBVIOUS
    <3> QED
      BY <3>1, <2>2, <1>7
  <2> HIDE DEF P
  <2> QED
    BY <2>1, <2>2, NatSetInduction, Zenon
<1> QED
  BY <1>7, <1>8, <1>9, Zenon

\* Powers of a sum.
LEMMA PowerOfSum ==
  ASSUME NEW i \in Nat, NEW j \in Nat
  PROVE  TwoTo[i + j] = TwoTo[i] * TwoTo[j]
<1> DEFINE P == {n \in Nat : TwoTo[i + n] = TwoTo[i] * TwoTo[n]}
<1>1. 0 \in P
  <2>1. TwoTo[i] \in Nat /\ TwoTo[0] = 1 /\ i + 0 = i
    BY Powers
  <2> QED
    BY <2>1
<1>2. ASSUME NEW n \in Nat, n \in P PROVE n + 1 \in P
  <2>1. i + n \in Nat /\ i + (n + 1) = (i + n) + 1
    OBVIOUS
  <2>2. TwoTo[(i + n) + 1] = 2 * TwoTo[i + n] /\ TwoTo[n + 1] = 2 * TwoTo[n]
    BY <2>1, Powers, Zenon
  <2>3. TwoTo[i + n] = TwoTo[i] * TwoTo[n] /\ TwoTo[i] \in Nat /\ TwoTo[n] \in Nat
    BY <1>2, Powers, Zenon
  <2>4. \A a, b \in Nat : 2 * (a * b) = a * (2 * b)
    OBVIOUS
  <2>5. TwoTo[i + (n + 1)] = TwoTo[i] * TwoTo[n + 1]
    BY <2>1, <2>2, <2>3, <2>4
  <2> QED
    BY <2>5
<1>3. Nat \subseteq P
  <2> HIDE DEF P
  <2> QED
    BY <1>1, <1>2, NatSetInduction, Zenon
<1> QED
  BY <1>3, Zenon

\* The number that the first i bytes are, for each i.
Reads(v, bytes) ==
  /\ v \in [0 .. Len(bytes) -> Nat] /\ v[0] = 0
  /\ \A i \in 1 .. Len(bytes) : v[i] = v[i - 1] * TwoTo[ByteBits] + bytes[i]

\* Number is the number that the bytes read as.
LEMMA NumberReads ==
  ASSUME NEW bytes \in Seq(ByteValues)
  PROVE  \E v : Reads(v, bytes) /\ Number(bytes) = v[Len(bytes)]
<1> DEFINE B == TwoTo[ByteBits]
           L == Len(bytes)
           Fit(v) == v = [i \in 0 .. L |-> IF i = 0 THEN 0 ELSE v[i - 1] * B + bytes[i]]
           v == CHOOSE v : Fit(v)
           g == [n \in Nat |-> [x \in Nat |-> x * B + (IF n + 1 \in 1 .. L THEN bytes[n + 1] ELSE 0)]]
<1>1. B \in Nat /\ L \in Nat /\ \A i \in 1 .. L : bytes[i] \in Nat
  <2>1. B \in Nat
    BY Powers, SessionsAssumption, Zenon
  <2> QED
    BY <2>1 DEF ByteValues
<1>2. g \in [Nat -> [Nat -> Nat]] /\ 0 \in Nat
  <2> HIDE DEF B, L
  <2>1. \A n \in Nat : (IF n + 1 \in 1 .. L THEN bytes[n + 1] ELSE 0) \in Nat
    BY <1>1, Zenon
  <2>2. \A x, b \in Nat : x * B + b \in Nat
    BY <1>1
  <2> QED
    BY <2>1, <2>2, Zenon
<1>3. PICK w : Solves(w, Nat, 0, g)
  <2> HIDE DEF g
  <2> QED
    BY <1>2, NatRecursion, Zenon
<1> HIDE DEF B
<1>4. w \in [Nat -> Nat] /\ w[0] = 0 /\ \A n \in Nat : n + 1 \in 1 .. L => w[n + 1] = w[n] * B + bytes[n + 1]
  BY <1>3, Zenon DEF Solves
<1> HIDE DEF g, L
<1> DEFINE u == [i \in 0 .. L |-> w[i]]
<1>5. Fit(u)
  <2>1. ASSUME NEW i \in 0 .. L PROVE u[i] = IF i = 0 THEN 0 ELSE u[i - 1] * B + bytes[i]
    <3>1. CASE i = 0
      BY <3>1, <1>4, Zenon
    <3>2. CASE i # 0
      <4>1. i - 1 \in Nat /\ (i - 1) + 1 = i /\ i \in 1 .. L /\ i - 1 \in 0 .. L
        BY <3>2, <1>1
      <4>2. w[(i - 1) + 1] = w[i - 1] * B + bytes[(i - 1) + 1]
        BY <4>1, <1>4, Zenon
      <4> QED
        BY <4>1, <4>2, <3>2, Zenon
    <3> QED
      BY <3>1, <3>2, Zenon
  <2> QED
    BY <2>1, Zenon
<1>6. v = [i \in 0 .. L |-> IF i = 0 THEN 0 ELSE v[i - 1] * B + bytes[i]]
  <2> HIDE DEF u
  <2> QED
    BY <1>5, Zenon
<1>7. Number(bytes) = v[Len(bytes)]
  BY Zenon DEF Number, B, L
<1> HIDE DEF v
<1>8. \A i \in 0 .. L : v[i] = IF i = 0 THEN 0 ELSE v[i - 1] * B + bytes[i]
  BY <1>6, Zenon
<1>9. v[0] = 0 /\ \A i \in 1 .. L : v[i] = v[i - 1] * B + bytes[i]
  <2>1. 0 \in 0 .. L /\ \A i \in 1 .. L : i \in 0 .. L /\ i # 0
    BY <1>1
  <2> QED
    BY <2>1, <1>8, Zenon
<1> DEFINE I == {i \in Nat : i <= L => v[i] \in Nat}
<1>10. Nat \subseteq I
  <2>1. 0 \in I
    BY <1>9
  <2>2. ASSUME NEW i \in Nat, i \in I PROVE i + 1 \in I
    <3> SUFFICES ASSUME i + 1 <= L PROVE v[i + 1] \in Nat
      OBVIOUS
    <3>1. i + 1 \in 1 .. L /\ (i + 1) - 1 = i /\ i <= L
      BY <1>1
    <3>2. v[i] \in Nat /\ bytes[i + 1] \in Nat
      BY <2>2, <3>1, <1>1, Zenon
    <3>3. v[i + 1] = v[(i + 1) - 1] * B + bytes[i + 1]
      BY <1>9, <3>1, Zenon
    <3>4. \A x, b \in Nat : x * B + b \in Nat
      BY <1>1
    <3> QED
      BY <3>1, <3>2, <3>3, <3>4, Zenon
  <2> HIDE DEF I
  <2> QED
    BY <2>1, <2>2, NatSetInduction, Zenon
<1>11. v \in [0 .. L -> Nat]
  <2>1. \A i \in 0 .. L : v[i] \in Nat
    BY <1>10, <1>1
  <2>2. v = [i \in 0 .. L |-> v[i]]
    BY <1>6, Zenon
  <2> QED
    BY <2>1, <2>2, Zenon
<1>12. Reads(v, bytes)
  BY <1>9, <1>11, Zenon DEF Reads, B, L
<1> QED
  BY <1>7, <1>12, Zenon

\* Bytes can be cut off the end of the number.
LEMMA CutBytes ==
  ASSUME NEW bytes \in Seq(ByteValues), NEW v, Reads(v, bytes), NEW j \in 0 .. Len(bytes)
  PROVE  v[Len(bytes)] \div TwoTo[j * ByteBits] = v[Len(bytes) - j]
<1> DEFINE B == TwoTo[ByteBits]
           L == Len(bytes)
<1>1. /\ B \in Nat /\ B # 0 /\ L \in Nat /\ ByteBits \in Nat
      /\ \A i \in 1 .. L : bytes[i] \in Nat /\ bytes[i] < B
  <2>1. B \in Nat /\ B # 0 /\ ByteBits \in Nat
    BY Powers, SessionsAssumption, Zenon
  <2> QED
    BY <2>1 DEF ByteValues
<1>2. /\ v \in [0 .. L -> Nat] /\ v[0] = 0
      /\ \A i \in 1 .. L : v[i] = v[i - 1] * B + bytes[i]
  BY Zenon DEF Reads
<1> HIDE DEF B, L
<1>3. ASSUME NEW i \in 1 .. L PROVE v[i] \div B = v[i - 1]
  <2>1. \A x, b \in Nat : b < B => (x * B + b) \div B = x
    BY <1>1
  <2>2. v[i - 1] \in Nat
    BY <1>1, <1>2
  <2>3. bytes[i] \in Nat /\ bytes[i] < B /\ v[i] = v[i - 1] * B + bytes[i]
    BY <1>1, <1>2, Zenon
  <2> QED
    BY <2>1, <2>2, <2>3, Zenon
<1> DEFINE I == {n \in Nat : n <= L => v[L] \div TwoTo[n * ByteBits] = v[L - n]}
<1>4. 0 \in I
  <2>1. v[L] \in Nat /\ TwoTo[0 * ByteBits] = 1 /\ L - 0 = L
    BY <1>1, <1>2, Powers
  <2>2. v[L] \div TwoTo[0 * ByteBits] = v[L - 0]
    BY <2>1
  <2> QED
    BY <2>2, Zenon
<1>5. ASSUME NEW n \in Nat, n \in I PROVE n + 1 \in I
  <2> SUFFICES ASSUME n + 1 <= L PROVE v[L] \div TwoTo[(n + 1) * ByteBits] = v[L - (n + 1)]
    OBVIOUS
  <2>1. /\ n <= L /\ n * ByteBits \in Nat /\ (n + 1) * ByteBits = n * ByteBits + ByteBits
        /\ L - n \in 1 .. L /\ (L - n) - 1 = L - (n + 1) /\ L \in 0 .. L
    BY <1>1
  <2>2. TwoTo[n * ByteBits + ByteBits] = TwoTo[n * ByteBits] * B /\ TwoTo[n * ByteBits] \in Nat
        /\ TwoTo[n * ByteBits] # 0
    BY <2>1, <1>1, Powers, PowerOfSum, Zenon DEF B
  <2>3. \A x, m \in Nat : m # 0 => x \div (m * B) = (x \div m) \div B
    BY <1>1, SMTT(30)
  <2>4. v[L] \div (TwoTo[n * ByteBits] * B) = (v[L] \div TwoTo[n * ByteBits]) \div B
    BY <2>1, <2>2, <2>3, <1>2, Zenon
  <2>5. v[L] \div TwoTo[n * ByteBits] = v[L - n]
    BY <1>5, <2>1, Zenon
  <2>6. v[L - n] \div B = v[(L - n) - 1]
    BY <1>3, <2>1, Zenon
  <2> QED
    BY <2>1, <2>2, <2>4, <2>5, <2>6, Zenon
<1>6. Nat \subseteq I
  <2> HIDE DEF I
  <2> QED
    BY <1>4, <1>5, NatSetInduction, Zenon
<1> QED
  BY <1>6, <1>1 DEF L

\* Numbers are equal if their last digits and what comes before them are.
SameDigits(B, x, y, a, b) == x * B + a = y * B + b <=> x = y /\ a = b

\* Quotient and remainder tell a number from others.
LEMMA DigitsUnique ==
  \A B, x, y, a, b \in Nat : a < B /\ b < B => SameDigits(B, x, y, a, b)
<1> SUFFICES ASSUME NEW B \in Nat, NEW x \in Nat, NEW y \in Nat, NEW a \in Nat, NEW b \in Nat, a < B, b < B
             PROVE  x * B + a = y * B + b <=> x = y /\ a = b
  BY DEF SameDigits
<1>1. (x * B + a) \div B = x /\ (y * B + b) \div B = y
  OBVIOUS
<1> QED
  BY <1>1

\* Numbers of the same number of bytes are equal if all their bytes are.
LEMMA SameBytes ==
  ASSUME NEW x \in Seq(ByteValues), NEW y \in Seq(ByteValues), Len(x) = Len(y),
         NEW v, Reads(v, x), NEW w, Reads(w, y), NEW j \in 0 .. Len(x)
  PROVE  v[j] = w[j] <=> \A i \in 1 .. j : x[i] = y[i]
<1> DEFINE B == TwoTo[ByteBits]
           L == Len(x)
<1>1. /\ B \in Nat /\ B # 0 /\ L \in Nat
      /\ \A i \in 1 .. L : x[i] \in Nat /\ x[i] < B /\ y[i] \in Nat /\ y[i] < B
  <2>1. B \in Nat /\ B # 0
    BY Powers, SessionsAssumption, Zenon
  <2> QED
    BY <2>1, SMTT(30) DEF ByteValues
<1>2. /\ v \in [0 .. L -> Nat] /\ v[0] = 0 /\ w \in [0 .. L -> Nat] /\ w[0] = 0
      /\ \A i \in 1 .. L : v[i] = v[i - 1] * B + x[i]
      /\ \A i \in 1 .. L : w[i] = w[i - 1] * B + y[i]
  BY Zenon DEF Reads
<1> HIDE DEF B, L
<1> DEFINE I == {n \in Nat : n <= L => (v[n] = w[n] <=> \A i \in 1 .. n : x[i] = y[i])}
<1>3. 0 \in I
  <2>1. v[0] = w[0] /\ \A i \in 1 .. 0 : x[i] = y[i]
    BY <1>2
  <2> QED
    BY <2>1, Zenon
<1>4. ASSUME NEW n \in Nat, n \in I PROVE n + 1 \in I
  <2> SUFFICES ASSUME n + 1 <= L PROVE v[n + 1] = w[n + 1] <=> \A i \in 1 .. n + 1 : x[i] = y[i]
    OBVIOUS
  <2>1. n + 1 \in 1 .. L /\ (n + 1) - 1 = n /\ n \in 0 .. L /\ n <= L
    BY <1>1
  <2>2. v[n + 1] = v[(n + 1) - 1] * B + x[n + 1] /\ w[n + 1] = w[(n + 1) - 1] * B + y[n + 1]
    BY <1>2, <2>1, Zenon
  <2>3. /\ v[n] \in Nat /\ w[n] \in Nat /\ x[n + 1] \in Nat /\ x[n + 1] < B /\ y[n + 1] \in Nat /\ y[n + 1] < B
    BY <1>1, <1>2, <2>1, Zenon
  <2>4. v[n] * B + x[n + 1] = w[n] * B + y[n + 1] <=> v[n] = w[n] /\ x[n + 1] = y[n + 1]
    <3>1. SameDigits(B, v[n], w[n], x[n + 1], y[n + 1])
      BY <2>3, <1>1, DigitsUnique, Zenon
    <3> QED
      BY <3>1, Zenon DEF SameDigits
  <2>5. v[n] = w[n] <=> \A i \in 1 .. n : x[i] = y[i]
    BY <1>4, <2>1, Zenon
  <2>6. \A i \in 1 .. n + 1 : i \in 1 .. n \/ i = n + 1
    OBVIOUS
  <2>7. n + 1 \in 1 .. n + 1 /\ \A i \in 1 .. n : i \in 1 .. n + 1
    OBVIOUS
  <2>8. v[n + 1] = w[n + 1] <=> v[n] = w[n] /\ x[n + 1] = y[n + 1]
    BY <2>1, <2>2, <2>4, Zenon
  <2> QED
    BY <2>5, <2>6, <2>7, <2>8, Zenon
<1>5. Nat \subseteq I
  <2> HIDE DEF I
  <2> QED
    BY <1>3, <1>4, NatSetInduction, Zenon
<1> QED
  BY <1>5, <1>1 DEF L

\* A prefix length in bytes and bits.
LEMMA PrefixParts ==
  ASSUME NEW l \in Nat, NEW n \in 0 .. l * ByteBits
  PROVE  LET full == n \div ByteBits
             rest == n % ByteBits IN
         /\ n = full * ByteBits + rest /\ full \in 0 .. l /\ rest \in 0 .. ByteBits - 1
         /\ rest # 0 => full + 1 \in 1 .. l
         /\ rest = 0 => l * ByteBits - n = (l - full) * ByteBits
         /\ rest # 0 => l * ByteBits - n = (l - (full + 1)) * ByteBits + (ByteBits - rest)
<1> DEFINE full == n \div ByteBits
           rest == n % ByteBits
<1>1. ByteBits \in Nat /\ ByteBits > 0 /\ n \in Nat /\ n <= l * ByteBits
  BY SessionsAssumption
<1>2. full \in Nat /\ rest \in 0 .. ByteBits - 1 /\ n = full * ByteBits + rest
  BY <1>1
<1> HIDE DEF full, rest
<1>3. full <= l
  BY <1>1, <1>2
<1>4. rest # 0 => full + 1 <= l
  BY <1>1, <1>2
<1>5. l * ByteBits - full * ByteBits = (l - full) * ByteBits
  BY <1>1, <1>2
<1>6. l * ByteBits - (full * ByteBits + rest) = (l - (full + 1)) * ByteBits + (ByteBits - rest)
  BY <1>1, <1>2
<1> QED
  BY <1>1, <1>2, <1>3, <1>4, <1>5, <1>6 DEF full, rest

\* The first bits of an address, by the bytes they fill and those left.
LEMMA FirstBitsAre ==
  ASSUME NEW x \in Seq(ByteValues), NEW v, Reads(v, x), Number(x) = v[Len(x)],
         NEW n \in 0 .. Len(x) * ByteBits
  PROVE  LET full == n \div ByteBits
             rest == n % ByteBits
             low == TwoTo[ByteBits - rest] IN
         /\ rest = 0 => FirstBits(x, n) = v[full]
         /\ rest # 0 => FirstBits(x, n) = v[full] * TwoTo[rest] + (x[full + 1] \div low)
<1> DEFINE full == n \div ByteBits
           rest == n % ByteBits
           low == TwoTo[ByteBits - rest]
           L == Len(x)
<1>1. /\ n = full * ByteBits + rest /\ full \in 0 .. L /\ rest \in 0 .. ByteBits - 1
      /\ rest # 0 => full + 1 \in 1 .. L
      /\ rest = 0 => L * ByteBits - n = (L - full) * ByteBits
      /\ rest # 0 => L * ByteBits - n = (L - (full + 1)) * ByteBits + (ByteBits - rest)
  <2>1. L \in Nat
    OBVIOUS
  <2> QED
    BY <2>1, PrefixParts, Zenon
<1>2. ByteBits \in Nat /\ L \in Nat /\ v \in [0 .. L -> Nat]
  BY SessionsAssumption DEF Reads
<1>3. FirstBits(x, n) = v[L] \div TwoTo[L * ByteBits - n]
  BY Zenon DEF FirstBits
<1> HIDE DEF full, rest
<1>4. ASSUME rest = 0 PROVE FirstBits(x, n) = v[full]
  <2>1. L - full \in 0 .. L /\ L - (L - full) = full
    BY <1>1, <1>2
  <2>2. v[L] \div TwoTo[(L - full) * ByteBits] = v[L - (L - full)]
    BY <2>1, CutBytes, Zenon
  <2> QED
    BY <1>1, <1>3, <1>4, <2>1, <2>2, Zenon
<1>5. ASSUME rest # 0 PROVE FirstBits(x, n) = v[full] * TwoTo[rest] + (x[full + 1] \div low)
  <2> DEFINE j == L - (full + 1)
  <2>1. /\ j \in 0 .. L /\ L - j = full + 1 /\ full + 1 \in 1 .. L /\ (full + 1) - 1 = full
        /\ j * ByteBits \in Nat /\ ByteBits - rest \in Nat /\ rest \in Nat /\ rest + (ByteBits - rest) = ByteBits
    BY <1>1, <1>2, <1>5
  <2>2. v[L] \div TwoTo[j * ByteBits] = v[full + 1]
    <3>1. v[L] \div TwoTo[j * ByteBits] = v[L - j]
      BY <2>1, CutBytes, Zenon
    <3> QED
      BY <3>1, <2>1, Zenon
  <2>3. TwoTo[L * ByteBits - n] = TwoTo[j * ByteBits] * low
    <3>1. L * ByteBits - n = j * ByteBits + (ByteBits - rest)
      BY <1>1, <1>5, Zenon
    <3> HIDE DEF j
    <3> QED
      BY <3>1, <2>1, PowerOfSum, Zenon
  <2>4. TwoTo[ByteBits] = TwoTo[rest] * low
    <3>1. TwoTo[rest + (ByteBits - rest)] = TwoTo[rest] * TwoTo[ByteBits - rest]
      BY <2>1, PowerOfSum, Zenon
    <3> QED
      BY <3>1, <2>1, Zenon
  <2>5. /\ TwoTo[j * ByteBits] \in Nat /\ TwoTo[j * ByteBits] # 0 /\ low \in Nat /\ low # 0 /\ TwoTo[rest] \in Nat
    BY <2>1, Powers, Zenon
  <2>6. v[full + 1] = v[full] * TwoTo[ByteBits] + x[full + 1] /\ v[full] \in Nat /\ x[full + 1] \in Nat
    <3>1. v[full + 1] = v[(full + 1) - 1] * TwoTo[ByteBits] + x[full + 1]
      BY <2>1, Zenon DEF Reads
    <3>2. v[full] \in Nat /\ x[full + 1] \in Nat
      <4>1. x[full + 1] \in ByteValues
        BY <2>1, SMTT(30)
      <4>2. v[full] \in Nat
        BY <1>1, <1>2, Zenon
      <4> QED
        BY <4>1, <4>2 DEF ByteValues
    <3> QED
      BY <3>1, <3>2, <2>1, Zenon
  <2> HIDE DEF low, j
  <2>7. \A y, m, k \in Nat : m # 0 /\ k # 0 => y \div (m * k) = (y \div m) \div k
    OBVIOUS
  <2>8. v[L] \in Nat
    BY <1>2
  <2>9. FirstBits(x, n) = v[full + 1] \div low
    <3>1. v[L] \div (TwoTo[j * ByteBits] * low) = (v[L] \div TwoTo[j * ByteBits]) \div low
      BY <2>5, <2>7, <2>8, Zenon
    <3> QED
      BY <3>1, <1>3, <2>2, <2>3, Zenon
  <2>10. \A y, r, k, b \in Nat : k # 0 => (y * (r * k) + b) \div k = y * r + (b \div k)
    <3> TAKE y, r, k, b \in Nat
    <3>1. y * (r * k) = (y * r) * k
      OBVIOUS
    <3>2. y * r \in Nat
      OBVIOUS
    <3>3. \A z \in Nat : k # 0 => (z * k + b) \div k = z + (b \div k)
      OBVIOUS
    <3> QED
      BY <3>1, <3>2, <3>3, Zenon
  <2>11. (v[full] * (TwoTo[rest] * low) + x[full + 1]) \div low = v[full] * TwoTo[rest] + (x[full + 1] \div low)
    BY <2>5, <2>6, <2>10, SMTT(30)
  <2> QED
    BY <2>4, <2>6, <2>9, <2>11, Zenon
<1> QED
  BY <1>4, <1>5, Zenon DEF full, rest, low

\* Whether two addresses of a family have a prefix in common, by their bytes:
\* the comparison of Cidr.matches.
LEMMA SamePrefix ==
  ASSUME NEW x \in Seq(ByteValues), NEW y \in Seq(ByteValues), Len(x) = Len(y),
         NEW n \in 0 .. Len(x) * ByteBits
  PROVE  LET full == n \div ByteBits
             rest == n % ByteBits IN
         FirstBits(x, n) = FirstBits(y, n) <=>
           /\ \A i \in 1 .. full : x[i] = y[i]
           /\ rest = 0 \/ MaskByte(x[full + 1], rest) = MaskByte(y[full + 1], rest)
<1> DEFINE full == n \div ByteBits
           rest == n % ByteBits
           low == TwoTo[ByteBits - rest]
           L == Len(x)
<1>1. PICK v : Reads(v, x) /\ Number(x) = v[L]
  BY NumberReads, Zenon
<1>2. PICK w : Reads(w, y) /\ Number(y) = w[Len(y)]
  BY NumberReads, Zenon
<1>3. /\ rest = 0 => FirstBits(x, n) = v[full]
      /\ rest # 0 => FirstBits(x, n) = v[full] * TwoTo[rest] + (x[full + 1] \div low)
  BY <1>1, FirstBitsAre, Zenon
<1>4. /\ rest = 0 => FirstBits(y, n) = w[full]
      /\ rest # 0 => FirstBits(y, n) = w[full] * TwoTo[rest] + (y[full + 1] \div low)
  BY <1>2, FirstBitsAre, Zenon
<1>5. full \in 0 .. L /\ rest \in 0 .. ByteBits - 1 /\ (rest # 0 => full + 1 \in 1 .. L)
  <2>1. L \in Nat
    OBVIOUS
  <2> QED
    BY <2>1, PrefixParts, Zenon
<1>6. ByteBits \in Nat /\ L \in Nat
  BY SessionsAssumption
<1> HIDE DEF full, rest
<1>7. v[full] = w[full] <=> \A i \in 1 .. full : x[i] = y[i]
  BY <1>1, <1>2, <1>5, SameBytes
<1>8. CASE rest = 0
  BY <1>3, <1>4, <1>7, <1>8, Zenon DEF full, rest
<1>9. CASE rest # 0
  <2> DEFINE a == x[full + 1]
             b == y[full + 1]
             high == TwoTo[rest]
  <2>1. ByteBits - rest \in Nat /\ rest \in Nat /\ rest + (ByteBits - rest) = ByteBits /\ full + 1 \in 1 .. L
    BY <1>5, <1>6, <1>9
  <2>2. low \in Nat /\ low # 0 /\ high \in Nat /\ high # 0
    BY <2>1, Powers, Zenon
  <2>3. TwoTo[ByteBits] = high * low
    <3>1. TwoTo[rest + (ByteBits - rest)] = TwoTo[rest] * TwoTo[ByteBits - rest]
      BY <2>1, PowerOfSum, Zenon
    <3> QED
      BY <3>1, <2>1, Zenon
  <2>4. a \in Nat /\ a < high * low /\ b \in Nat /\ b < high * low
    <3>1. a \in ByteValues /\ b \in ByteValues
      BY <2>1
    <3>2. a \in 0 .. (high * low) - 1 /\ b \in 0 .. (high * low) - 1
      BY <3>1, <2>3, Zenon DEF ByteValues
    <3> HIDE DEF a, b, high, low
    <3> QED
      BY <3>2, <2>2
  <2>5. MaskByte(a, rest) = a - (a % low) /\ MaskByte(b, rest) = b - (b % low)
    BY Zenon DEF MaskByte
  <2>6. v[full] \in Nat /\ w[full] \in Nat
    BY <1>1, <1>2, <1>5, Zenon DEF Reads
  <2> HIDE DEF a, b, high, low
  <2>7. a \div low \in Nat /\ a \div low < high /\ b \div low \in Nat /\ b \div low < high
    BY <2>2, <2>4
  <2>8. v[full] * high + (a \div low) = w[full] * high + (b \div low) <=> v[full] = w[full] /\ a \div low = b \div low
    <3>1. SameDigits(high, v[full], w[full], a \div low, b \div low)
      BY <2>2, <2>6, <2>7, DigitsUnique, Zenon
    <3> QED
      BY <3>1, Zenon DEF SameDigits
  <2>9. a - (a % low) = (a \div low) * low /\ b - (b % low) = (b \div low) * low
    <3>1. \A c \in Nat : c - (c % low) = (c \div low) * low
      BY <2>2
    <3> QED
      BY <3>1, <2>4, Zenon
  <2>10. \A c, d \in Nat : c * low = d * low <=> c = d
    BY <2>2
  <2>11. MaskByte(a, rest) = MaskByte(b, rest) <=> a \div low = b \div low
    BY <2>5, <2>7, <2>9, <2>10, Zenon
  <2>12. FirstBits(x, n) = FirstBits(y, n) <=> v[full] = w[full] /\ a \div low = b \div low
    BY <1>3, <1>4, <1>9, <2>8, Zenon DEF a, b, high
  <2> QED
    BY <1>7, <1>9, <2>11, <2>12, Zenon DEF full, rest, a, b
<1> QED
  BY <1>8, <1>9, Zenon

\* Cidr.matches says whether an address lies in a prefix.
LEMMA MatchesIsPrefix ==
  ASSUME NEW p \in Peers, NEW c \in p.ips, NEW d \in Destinations
  PROVE  /\ Matches(c, d) <=> c.family = d[1] /\ FirstBits(c.bytes, c.prefix) = FirstBits(d[2], c.prefix)
         /\ Matches(c, d) => c.prefix \in 0 .. Len(d[2]) * ByteBits
<1> DEFINE x == c.bytes
           y == d[2]
           n == c.prefix
<1>1. /\ x \in Seq(ByteValues) /\ y \in Seq(ByteValues) /\ n \in 0 .. Len(x) * ByteBits
      /\ c.family = d[1] => Len(x) = Len(y)
  BY AddressAssumption, Zenon
<1>2. CASE c.family = d[1]
  <2> HIDE DEF x, y, n
  <2>1. FirstBits(x, n) = FirstBits(y, n) <=>
          /\ \A i \in 1 .. n \div ByteBits : x[i] = y[i]
          /\ \/ n % ByteBits = 0
             \/ MaskByte(x[n \div ByteBits + 1], n % ByteBits) = MaskByte(y[n \div ByteBits + 1], n % ByteBits)
    BY <1>1, <1>2, SamePrefix, Zenon
  <2>2. Len(x) = Len(y)
    BY <1>1, <1>2, Zenon
  <2> QED
    BY <1>1, <1>2, <2>1, <2>2, Zenon DEF Matches, x, y, n
<1>3. CASE c.family # d[1]
  BY <1>3, Zenon DEF Matches
<1> QED
  BY <1>2, <1>3, Zenon

\* Two prefixes of a length that hold the same address have the same key in
\* the validation.
LEMMA SameKey ==
  ASSUME NEW p \in Peers, NEW q \in Peers, NEW c \in p.ips, NEW e \in q.ips, NEW d \in Destinations,
         Matches(c, d), Matches(e, d), c.prefix = e.prefix
  PROVE  NormalizedKey(c) = NormalizedKey(e)
<1> DEFINE n == c.prefix
           full == n \div ByteBits
           rest == n % ByteBits
           x == c.bytes
           y == e.bytes
           z == d[2]
<1>1. /\ c.family = d[1] /\ e.family = d[1] /\ x \in Seq(ByteValues) /\ y \in Seq(ByteValues)
      /\ Len(x) = Len(z) /\ Len(y) = Len(z)
  BY AddressAssumption, Zenon DEF Matches
<1>2. /\ \A i \in 1 .. full : x[i] = z[i]
      /\ rest = 0 \/ MaskByte(x[full + 1], rest) = MaskByte(z[full + 1], rest)
  BY Zenon DEF Matches
<1>3. /\ \A i \in 1 .. full : y[i] = z[i]
      /\ rest = 0 \/ MaskByte(y[full + 1], rest) = MaskByte(z[full + 1], rest)
  BY Zenon DEF Matches
<1>4. ASSUME NEW a \in ByteValues PROVE MaskByte(a, 0) = 0
  <2>1. ByteBits \in Nat /\ ByteBits - 0 = ByteBits
    BY SessionsAssumption
  <2>2. TwoTo[ByteBits] \in Nat
    BY <2>1, Powers, Zenon
  <2>3. a \in 0 .. TwoTo[ByteBits] - 1
    BY Zenon DEF ByteValues
  <2>4. \A m \in Nat : a \in 0 .. m - 1 => a - (a % m) = 0
    OBVIOUS
  <2>5. a - (a % TwoTo[ByteBits]) = 0
    BY <2>2, <2>3, <2>4, Zenon
  <2> QED
    BY <2>1, <2>5, Zenon DEF MaskByte
<1>5. full \in Nat
  <2>1. n \in 0 .. Len(x) * ByteBits /\ ByteBits \in Nat \ {0} /\ Len(x) \in Nat
    <3>1. n \in 0 .. Len(x) * ByteBits
      BY AddressAssumption, Zenon
    <3>2. \A s \in Seq(ByteValues) : Len(s) \in Nat
      OBVIOUS
    <3> QED
      BY <1>1, <3>1, <3>2, SessionsAssumption, Zenon
  <2> HIDE DEF n, x
  <2> QED
    BY <2>1
<1> HIDE DEF n, full, rest, x, y, z
<1>6. ASSUME NEW i \in 1 .. Len(x)
      PROVE  NormalizeNetworkBytes(x, n)[i] = NormalizeNetworkBytes(y, n)[i]
  <2>1. i \in 1 .. Len(y) /\ x[i] \in ByteValues /\ y[i] \in ByteValues
    BY <1>1
  <2>2. NormalizeNetworkBytes(x, n)[i] = IF i <= full THEN x[i] ELSE IF i = full + 1 THEN MaskByte(x[i], rest) ELSE 0
    BY Zenon DEF NormalizeNetworkBytes, full, rest
  <2>3. NormalizeNetworkBytes(y, n)[i] = IF i <= full THEN y[i] ELSE IF i = full + 1 THEN MaskByte(y[i], rest) ELSE 0
    BY <2>1, Zenon DEF NormalizeNetworkBytes, full, rest
  <2>4. CASE i <= full
    <3>1. i \in 1 .. full
      BY <2>4, <1>5
    <3> QED
      BY <3>1, <2>2, <2>3, <2>4, <1>2, <1>3, Zenon
  <2>5. CASE i = full + 1
    <3>1. ~ (i <= full)
      BY <2>5, <1>5
    <3>2. MaskByte(x[i], rest) = MaskByte(y[i], rest)
      BY <1>2, <1>3, <1>4, <2>1, <2>5, Zenon
    <3> QED
      BY <3>1, <3>2, <2>2, <2>3, <2>5, Zenon
  <2>6. CASE ~ (i <= full) /\ i # full + 1
    BY <2>2, <2>3, <2>6, Zenon
  <2> QED
    BY <2>4, <2>5, <2>6, Zenon
<1>7. NormalizeNetworkBytes(x, n) = NormalizeNetworkBytes(y, n)
  <2>1. /\ NormalizeNetworkBytes(x, n) = [i \in 1 .. Len(x) |-> NormalizeNetworkBytes(x, n)[i]]
        /\ NormalizeNetworkBytes(y, n) = [i \in 1 .. Len(y) |-> NormalizeNetworkBytes(y, n)[i]]
    BY Zenon DEF NormalizeNetworkBytes
  <2>2. Len(x) = Len(y)
    BY <1>1, Zenon
  <2> QED
    BY <2>1, <2>2, <1>6, Zenon
<1> QED
  BY <1>1, <1>7, Zenon DEF NormalizedKey, x, y, n

-----------------------------------------------------------------------------
(* The choice of a session.                                                *)

\* A set of naturals below a bound has a greatest element.
LEMMA Greatest ==
  ASSUME NEW S \in SUBSET Nat, S # {}, NEW m \in Nat, \A x \in S : x <= m
  PROVE  Max(S) \in S /\ \A x \in S : x <= Max(S)
<1> DEFINE U == {n \in Nat : \A x \in S : x <= n}
<1>1. U \in SUBSET Nat /\ U # {}
  BY Zenon
<1>2. PICK u \in U : \A n \in U : u <= n
  <2> HIDE DEF U
  <2> QED
    BY <1>1, Least, Zenon
<1>3. u \in Nat /\ \A x \in S : x <= u
  BY <1>2, Zenon
<1>4. u \in S
  <2> SUFFICES ASSUME u \notin S PROVE FALSE
    BY Zenon
  <2>1. PICK x \in S : TRUE
    BY Zenon
  <2>2. x \in Nat /\ x <= u /\ x # u
    BY <2>1, <1>3, Zenon
  <2>3. u - 1 \in Nat
    BY <2>2, <1>3
  <2>4. \A y \in S : y <= u - 1
    <3> TAKE y \in S
    <3>1. y \in Nat /\ y <= u /\ y # u
      BY <1>3, Zenon
    <3> QED
      BY <3>1, <1>3
  <2>5. u - 1 \in U
    BY <2>3, <2>4, Zenon
  <2>6. u <= u - 1
    BY <2>5, <1>2, Zenon
  <2> QED
    BY <2>6, <1>3
<1>5. \A x \in S : u >= x
  <2> TAKE x \in S
  <2>1. x \in Nat /\ x <= u
    BY <1>3, Zenon
  <2> QED
    BY <2>1, <1>3, Zenon
<1>6. Max(S) \in S /\ \A x \in S : Max(S) >= x
  BY <1>4, <1>5, Zenon DEF Max
<1> QED
  <2>1. Max(S) \in Nat /\ \A x \in S : x \in Nat
    BY <1>6, Zenon
  <2> QED
    BY <1>6, <2>1, Zenon

\* The least element of a set of one.
LEMMA OnlyOne ==
  ASSUME NEW k \in Nat
  PROVE  Min({k}) = k
<1>1. \A y \in {k} : k =< y
  OBVIOUS
<1> QED
  BY <1>1, Zenon DEF Min

\* What the validation makes sure of, for a table.
Owned(table) ==
  /\ \A k \in DOMAIN table : table[k].peer \in Peers /\ table[k].peer.key = k
  /\ \A j, k \in DOMAIN table : \A c \in table[j].peer.ips, e \in table[k].peer.ips :
       NormalizedKey(c) = NormalizedKey(e) => j = k

\* The peers of a table are those that a configuration has for their keys.
From(table, config) ==
  \A k \in DOMAIN table : k \in DesiredKeys(config) /\ table[k].peer = DesiredPeer(config, k)

\* The table in use has one owner for each prefix; the one that is made, and
\* then the one in use, is that of the configuration of the call.
OwnedTables ==
  /\ Owned(entries)
  /\ wanted \in Configs
  /\ peersPc \in {"create", "close", "ready"} => Valid(wanted)
  /\ peersPc = "create" => From(next, wanted)
  /\ peersPc \in {"close", "ready"} => From(entries, wanted) /\ DOMAIN entries = DesiredKeys(wanted)

\* Nobody owns anything in an empty table.
LEMMA NobodyOwns == Owned(<<>>) /\ \A config : From(<<>>, config)
BY DEF Owned, From

\* A configuration may have no peers.
LEMMA NoPeers == <<>> \in Configs
<1>1. <<>> \in [1 .. 0 -> Peers] /\ 0 \in 0 .. MaxPeers
  BY SessionsAssumption
<1> QED
  BY <1>1, Zenon DEF Configs

\* The peer of a key is one of the configuration's.
LEMMA DesiredFacts ==
  ASSUME NEW config \in Configs, NEW k \in DesiredKeys(config)
  PROVE  \E i \in DOMAIN config :
           DesiredPeer(config, k) = config[i] /\ config[i].key = k /\ config[i] \in Peers
<1>1. PICK n \in 0 .. MaxPeers : config \in [1 .. n -> Peers]
  BY Zenon DEF Configs
<1>2. \E p \in Range(config) : p.key = k
  BY Zenon DEF DesiredKeys, Range
<1>3. DesiredPeer(config, k) \in Range(config) /\ DesiredPeer(config, k).key = k
  BY <1>2, Zenon DEF DesiredPeer
<1>4. \A i \in DOMAIN config : config[i] \in Peers
  BY <1>1, Zenon
<1> QED
  BY <1>3, <1>4, Zenon DEF Range

\* A table of a configuration whose prefixes were checked has one owner for each.
LEMMA FromIsOwned ==
  ASSUME NEW config \in Configs, Valid(config), NEW t, From(t, config)
  PROVE  Owned(t)
<1>1. ASSUME NEW k \in DOMAIN t
      PROVE  \E i \in DOMAIN config : t[k].peer = config[i] /\ config[i].key = k /\ config[i] \in Peers
  <2>1. k \in DesiredKeys(config) /\ t[k].peer = DesiredPeer(config, k)
    BY Zenon DEF From
  <2>2. PICK i \in DOMAIN config :
          DesiredPeer(config, k) = config[i] /\ config[i].key = k /\ config[i] \in Peers
    BY <2>1, DesiredFacts, Zenon
  <2> QED
    BY <2>1, <2>2, Zenon
<1>2. \A k \in DOMAIN t : t[k].peer \in Peers /\ t[k].peer.key = k
  BY <1>1, Zenon
<1>3. ASSUME NEW j \in DOMAIN t, NEW k \in DOMAIN t, NEW c \in t[j].peer.ips, NEW e \in t[k].peer.ips,
             NormalizedKey(c) = NormalizedKey(e)
      PROVE  j = k
  <2>1. PICK i \in DOMAIN config : t[j].peer = config[i] /\ config[i].key = j
    BY <1>1, Zenon
  <2>2. PICK l \in DOMAIN config : t[k].peer = config[l] /\ config[l].key = k
    BY <1>1, Zenon
  <2> QED
    BY <1>3, <2>1, <2>2, ZenonT(30) DEF Valid, DistinctOwnership
<1> QED
  BY <1>2, <1>3, Zenon DEF Owned

\* A table of a configuration gets the entry of one more of its keys.
LEMMA ExtendedFrom ==
  ASSUME NEW config, NEW t, From(t, config), NEW k \in DesiredKeys(config), NEW e,
         e.peer = DesiredPeer(config, k)
  PROVE  From(Extended(t, k, e), config)
<1> DEFINE g == Extended(t, k, e)
<1>1. DOMAIN g = DOMAIN t \cup {k} /\ g[k] = e /\ \A j \in DOMAIN t : j # k => g[j] = t[j]
  BY Zenon DEF Extended
<1> HIDE DEF g
<1>2. From(g, config)
  BY <1>1, Zenon DEF From
<1> QED
  BY <1>2, Zenon DEF g

\* Reconciling and stopping keep one owner for each prefix.
LEMMA OwnedTablesStep == OwnedTables /\ [PeersNext]_peersVars => OwnedTables'
<1> SUFFICES ASSUME OwnedTables, [PeersNext]_peersVars PROVE OwnedTables'
  BY Zenon
<1>1. ASSUME NEW config \in Configs, ReconcileSessions(config) PROVE OwnedTables'
  <2>1. /\ entries' = entries /\ wanted' = config /\ Valid(config) /\ next' = <<>> /\ peersPc' = "create"
    BY <1>1, Zenon DEF ReconcileSessions
  <2>2. Owned(entries)' /\ wanted' \in Configs /\ Valid(wanted)' /\ From(next, wanted)'
    BY <1>1, <2>1, NobodyOwns, Zenon DEF OwnedTables
  <2> QED
    BY <2>1, <2>2, Zenon DEF OwnedTables
<1>2. CASE Keep \/ Create
  <2>1. /\ peersPc = "create" /\ UNCHANGED <<entries, wanted, peersPc>>
        /\ Owned(entries) /\ wanted \in Configs /\ Valid(wanted) /\ From(next, wanted)
    BY <1>2, Zenon DEF Keep, Create, OwnedTables
  <2>2. \E k \in DesiredKeys(wanted) : \E e :
          next' = Extended(next, k, e) /\ e.peer = DesiredPeer(wanted, k)
    <3>1. CASE Keep
      BY <3>1, Zenon DEF Keep, Kept, Pending
    <3>2. CASE Create
      <4> DEFINE entry(k) == [peer |-> DesiredPeer(wanted, k),
                              session |-> <<created + 1, DesiredIndex(wanted, k)>>]
      <4>1. PICK k \in DesiredKeys(wanted) : next' = Extended(next, k, entry(k))
        BY <3>2, Zenon DEF Create, Pending
      <4>2. entry(k).peer = DesiredPeer(wanted, k)
        BY Zenon
      <4> QED
        BY <4>1, <4>2, Zenon
    <3> QED
      BY <1>2, <3>1, <3>2, Zenon
  <2>3. From(next', wanted)
    BY <2>1, <2>2, ExtendedFrom, Zenon
  <2>4. Owned(entries)' /\ wanted' \in Configs /\ Valid(wanted)' /\ From(next, wanted)' /\ peersPc' = "create"
    BY <2>1, <2>3, Zenon
  <2> QED
    BY <2>4, Zenon DEF OwnedTables
<1>3. CASE CreateFails
  <2>1. UNCHANGED <<entries, wanted>> /\ peersPc' = "undo"
    BY <1>3, Zenon DEF CreateFails
  <2> QED
    BY <2>1, Zenon DEF OwnedTables
<1>4. CASE CloseMade
  <2>1. entries' = entries /\ (wanted' = wanted \/ wanted' = <<>>) /\ peersPc' \in {"undo", "idle"}
    BY <1>4, Zenon DEF CloseMade
  <2> QED
    BY <2>1, NoPeers, Zenon DEF OwnedTables
<1>5. CASE Swap
  <2>1. /\ peersPc = "create" /\ peersPc' = "close" /\ entries' = next /\ wanted' = wanted
        /\ DesiredKeys(wanted) \subseteq DOMAIN next
    BY <1>5, Zenon DEF Swap, Pending
  <2>2. wanted \in Configs /\ Valid(wanted) /\ From(next, wanted)
    BY <2>1, Zenon DEF OwnedTables
  <2>3. DOMAIN next = DesiredKeys(wanted) /\ Owned(next)
    BY <2>1, <2>2, FromIsOwned, Zenon DEF From
  <2> QED
    BY <2>1, <2>2, <2>3, Zenon DEF OwnedTables
<1>6. CASE CloseReplaced
  <2>1. UNCHANGED <<entries, wanted>> /\ peersPc = "close" /\ peersPc' = "ready"
    BY <1>6, Zenon DEF CloseReplaced
  <2> QED
    BY <2>1, Zenon DEF OwnedTables
<1>7. CASE StopClose
  <2>1. UNCHANGED <<entries, wanted>> /\ peersPc' = "clear"
    BY <1>7, Zenon DEF StopClose
  <2> QED
    BY <2>1, Zenon DEF OwnedTables
<1>8. CASE StopClear
  <2>1. entries' = <<>> /\ wanted' = <<>> /\ peersPc' = "idle"
    BY <1>8, Zenon DEF StopClear
  <2> QED
    BY <2>1, NobodyOwns, NoPeers, Zenon DEF OwnedTables
<1>9. CASE UNCHANGED peersVars
  <2>1. UNCHANGED <<entries, wanted, next, peersPc>>
    BY <1>9, Zenon DEF peersVars
  <2> QED
    BY <2>1, Zenon DEF OwnedTables
<1> QED
  BY <1>1, <1>2, <1>3, <1>4, <1>5, <1>6, <1>7, <1>8, <1>9, Zenon DEF PeersNext

\* The same for the prefixes of a table's peers.
LEMMA EntryMatches ==
  ASSUME Owned(entries), NEW d \in Destinations, NEW k \in DOMAIN entries, NEW c \in entries[k].peer.ips
  PROVE  /\ Matches(c, d) <=> c.family = d[1] /\ FirstBits(c.bytes, c.prefix) = FirstBits(d[2], c.prefix)
         /\ Matches(c, d) => c.prefix \in 0 .. Len(d[2]) * ByteBits
<1>1. entries[k].peer \in Peers
  BY Zenon DEF Owned
<1> QED
  BY <1>1, MatchesIsPrefix, Zenon

\* Who owns a prefix of an address is who has one that matches.
LEMMA OwnersMatch ==
  ASSUME Owned(entries), NEW d \in Destinations
  PROVE  /\ \A n : Owners(d, n) = {k \in DOMAIN entries : n \in MatchingPrefixes(k, d)}
         /\ \A k \in DOMAIN entries : MatchingPrefixes(k, d) \subseteq 0 .. Len(d[2]) * ByteBits
<1>1. ASSUME NEW k \in DOMAIN entries, NEW c \in entries[k].peer.ips
      PROVE  /\ Matches(c, d) <=> c.family = d[1] /\ FirstBits(c.bytes, c.prefix) = FirstBits(d[2], c.prefix)
             /\ Matches(c, d) => c.prefix \in 0 .. Len(d[2]) * ByteBits
  BY EntryMatches, Zenon
<1>2. ASSUME NEW k \in DOMAIN entries
      PROVE  MatchingPrefixes(k, d) \subseteq 0 .. Len(d[2]) * ByteBits
  BY <1>1, Zenon DEF MatchingPrefixes
<1>3. ASSUME NEW n, NEW k \in DOMAIN entries
      PROVE  n \in MatchingPrefixes(k, d) <=>
               \E c \in entries[k].peer.ips : c.family = d[1] /\ c.prefix = n /\ FirstBits(c.bytes, n) = FirstBits(d[2], n)
  <2>1. n \in MatchingPrefixes(k, d) <=> \E c \in entries[k].peer.ips : Matches(c, d) /\ c.prefix = n
    BY Zenon DEF MatchingPrefixes
  <2> QED
    BY <2>1, <1>1, Zenon
<1> QED
  BY <1>2, <1>3, Zenon DEF Owners

\* Nobody else owns a prefix of the same length of an address.
LEMMA OneOwner ==
  ASSUME Owned(entries), NEW d \in Destinations, NEW n, NEW j \in Owners(d, n), NEW k \in Owners(d, n)
  PROVE  j = k
<1>1. /\ j \in DOMAIN entries /\ n \in MatchingPrefixes(j, d)
      /\ k \in DOMAIN entries /\ n \in MatchingPrefixes(k, d)
  BY OwnersMatch, Zenon
<1>2. PICK c \in entries[j].peer.ips : Matches(c, d) /\ c.prefix = n
  BY <1>1, Zenon DEF MatchingPrefixes
<1>3. PICK e \in entries[k].peer.ips : Matches(e, d) /\ e.prefix = n
  BY <1>1, Zenon DEF MatchingPrefixes
<1>4. entries[j].peer \in Peers /\ entries[k].peer \in Peers
  BY <1>1, Zenon DEF Owned
<1>5. c.prefix = e.prefix
  BY <1>2, <1>3, Zenon
<1>6. NormalizedKey(c) = NormalizedKey(e)
  <2> DEFINE p == entries[j].peer
             q == entries[k].peer
  <2>1. p \in Peers /\ q \in Peers /\ c \in p.ips /\ e \in q.ips
    BY <1>4, Zenon
  <2> HIDE DEF p, q
  <2> QED
    BY <2>1, <1>2, <1>3, <1>5, SameKey
<1> QED
  BY <1>1, <1>6, Zenon DEF Owned

\* Where each prefix has one owner, the session that
\* selectSessionForPacket takes is that of the longest prefix of the address.
LEMMA OwnedIsSelected == OwnedTables => LongestPrefixOwner
<1> SUFFICES ASSUME Owned(entries), NEW d \in Destinations
             PROVE  LET lengths == {n \in 0 .. Len(d[2]) * ByteBits : Owners(d, n) # {}} IN
                    IF lengths = {} THEN Candidates(d) = {}
                    ELSE Candidates(d) # {} /\ Owners(d, Max(lengths)) = {SelectSession(d)}
  BY Zenon DEF OwnedTables, LongestPrefixOwner
<1> DEFINE m == Len(d[2]) * ByteBits
           lengths == {n \in 0 .. m : Owners(d, n) # {}}
           MP(k) == MatchingPrefixes(k, d)
           longest == {Max(MP(k)) : k \in Candidates(d)}
           best == Max(longest)
           chosen == {k \in Candidates(d) : Max(MP(k)) = best}
<1>1. m \in Nat
  <2>1. Len(d[2]) \in Nat /\ ByteBits \in Nat
    BY AddressAssumption, SessionsAssumption
  <2> QED
    BY <2>1
<1>2. /\ \A n : Owners(d, n) = {k \in DOMAIN entries : n \in MP(k)}
      /\ \A k \in DOMAIN entries : MP(k) \subseteq 0 .. m
  BY OwnersMatch, Zenon
<1>3. \A k : k \in Candidates(d) <=> k \in DOMAIN entries /\ MP(k) # {}
  BY Zenon DEF Candidates
<1> HIDE DEF m, MP
<1>4. CASE lengths = {}
  <2>1. Candidates(d) = {}
    BY <1>2, <1>3, <1>4, Zenon
  <2> QED
    BY <1>4, <2>1, Zenon DEF m
<1>5. CASE lengths # {}
  <2>1. Max(lengths) \in lengths /\ \A n \in lengths : n <= Max(lengths)
    <3>1. lengths \in SUBSET Nat /\ \A n \in lengths : n <= m
      BY <1>1
    <3> HIDE DEF lengths
    <3> QED
      BY <3>1, <1>1, <1>5, Greatest, Zenon
  <2> DEFINE top == Max(lengths)
  <2>2. \A k \in Candidates(d) : Max(MP(k)) \in MP(k) /\ \A n \in MP(k) : n <= Max(MP(k))
    <3> TAKE k \in Candidates(d)
    <3>1. MP(k) \in SUBSET Nat /\ MP(k) # {} /\ \A n \in MP(k) : n <= m
      BY <1>1, <1>2, <1>3
    <3> QED
      BY <3>1, <1>1, Greatest, Zenon
  <2>3. \A k \in DOMAIN entries : \A n \in MP(k) : n \in lengths
    BY <1>2, Zenon
  <2>4. PICK k0 \in Owners(d, top) : TRUE
    BY <2>1, Zenon
  <2>5. k0 \in DOMAIN entries /\ top \in MP(k0) /\ k0 \in Candidates(d)
    BY <1>2, <1>3, <2>4, Zenon
  <2>6. Owners(d, top) = {k0}
    <3> HIDE DEF top
    <3>1. \A k \in Owners(d, top) : k = k0
      BY <2>4, OneOwner, Zenon
    <3> QED
      BY <2>4, <3>1, Zenon
  <2>7. /\ \A n \in lengths : n \in Nat
        /\ top \in Nat
    BY <1>1, <2>1
  <2> HIDE DEF lengths, top
  <2>8. \A k \in Candidates(d) : Max(MP(k)) \in Nat /\ Max(MP(k)) <= top
    BY <1>3, <2>1, <2>2, <2>3, <2>7, Zenon DEF top
  <2>9. Max(MP(k0)) = top
    <3>1. top <= Max(MP(k0)) /\ Max(MP(k0)) <= top /\ Max(MP(k0)) \in Nat
      BY <2>2, <2>5, <2>8, Zenon
    <3> QED
      BY <3>1, <2>7
  <2>10. best = top
    <3>1. longest \in SUBSET Nat /\ longest # {} /\ \A n \in longest : n <= top
      BY <2>5, <2>8, Zenon
    <3>2. top \in longest
      BY <2>5, <2>9, Zenon
    <3> HIDE DEF longest
    <3>3. best \in longest /\ \A n \in longest : n <= best
      BY <3>1, <2>7, Greatest, Zenon
    <3>4. best <= top /\ top <= best /\ best \in Nat
      BY <3>1, <3>2, <3>3, Zenon
    <3> QED
      BY <3>4, <2>7
  <2> HIDE DEF best
  <2>11. chosen = {k0}
    <3>1. k0 \in chosen
      BY <2>5, <2>9, <2>10, Zenon
    <3>2. ASSUME NEW k \in chosen PROVE k = k0
      <4>1. k \in DOMAIN entries /\ top \in MP(k)
        BY <1>3, <2>2, <2>10, Zenon
      <4>2. k \in Owners(d, top)
        BY <4>1, <1>2, Zenon
      <4> QED
        BY <4>2, <2>6, Zenon
    <3> QED
      BY <3>1, <3>2, Zenon
  <2>12. SelectSession(d) = Min(chosen)
    BY Zenon DEF SelectSession, best, longest, MP
  <2>13. k0 \in Nat
    <3>1. entries[k0].peer \in Peers /\ entries[k0].peer.key = k0
      BY <2>5, Zenon DEF Owned
    <3> QED
      BY <3>1, SessionsAssumption, Zenon
  <2>14. SelectSession(d) = k0
    BY <2>11, <2>12, <2>13, OnlyOne, Zenon
  <2> QED
    BY <1>5, <2>5, <2>6, <2>14, Zenon DEF top, lengths, m
<1> QED
  BY <1>4, <1>5, Zenon

\* selectSessionForPacket finds a session exactly for the addresses with a
\* prefix among the peers, and then the peer of the longest one: in any
\* table that reconcileSessions leaves, for any peers and prefixes.
THEOREM LongestPrefixSelected == PeersSpec => []LongestPrefixOwner
<1>1. PeersInit => OwnedTables
  BY NobodyOwns, NoPeers, Zenon DEF PeersInit, OwnedTables
<1> QED
  BY <1>1, OwnedTablesStep, OwnedIsSelected, PTL DEF PeersSpec

-----------------------------------------------------------------------------
(* What the daemon is asked for.                                           *)

\* Among the first n elements of s, x comes before any y.
Before(s, n, x, y) == x # y /\ \E k \in 1 .. n : s[k] = x /\ \A l \in 1 .. k : s[l] # y

\* r has the first ones of the first n elements of s.
Firsts(r, s, n, skipped) ==
  /\ \A p \in 1 .. Len(r) : \E l \in 1 .. n : r[p] = s[l] /\ s[l] \notin skipped
  /\ \A l \in 1 .. n : s[l] \notin skipped => \E p \in 1 .. Len(r) : r[p] = s[l]
  /\ \A p, q \in 1 .. Len(r) : p < q => Before(s, n, r[p], r[q])

\* An element that was met already, or is left out, changes nothing.
LEMMA FirstsSkip ==
  ASSUME NEW T, NEW s \in Seq(T), NEW r \in Seq(T), NEW skipped, NEW n \in Nat, n + 1 <= Len(s),
         Firsts(r, s, n, skipped), s[n + 1] \in skipped \cup Range(r)
  PROVE  Firsts(r, s, n + 1, skipped)
<1>1. /\ \A l \in 1 .. n : l \in 1 .. n + 1
      /\ \A l \in 1 .. n + 1 : l \in 1 .. n \/ l = n + 1
  OBVIOUS
<1>2. DOMAIN r = 1 .. Len(r)
  OBVIOUS
<1>3. s[n + 1] \notin skipped => \E p \in 1 .. Len(r) : r[p] = s[n + 1]
  BY <1>2, Zenon DEF Range
<1>4. \A p \in 1 .. Len(r) : \E l \in 1 .. n + 1 : r[p] = s[l] /\ s[l] \notin skipped
  BY <1>1, Zenon DEF Firsts
<1>5. \A l \in 1 .. n + 1 : s[l] \notin skipped => \E p \in 1 .. Len(r) : r[p] = s[l]
  BY <1>1, <1>3, Zenon DEF Firsts
<1>6. \A x, y : Before(s, n, x, y) => Before(s, n + 1, x, y)
  BY <1>1, Zenon DEF Before
<1> QED
  BY <1>4, <1>5, <1>6, Zenon DEF Firsts

\* Any other is added at the end.
LEMMA FirstsAdd ==
  ASSUME NEW T, NEW s \in Seq(T), NEW r \in Seq(T), NEW skipped, NEW n \in Nat, n + 1 <= Len(s),
         Firsts(r, s, n, skipped), s[n + 1] \notin skipped \cup Range(r)
  PROVE  Firsts(Append(r, s[n + 1]), s, n + 1, skipped)
<1> DEFINE x == s[n + 1]
           a == Append(r, x)
           m == Len(r)
<1>1. x \in T /\ a \in Seq(T) /\ m \in Nat /\ Len(a) = m + 1 /\ a[m + 1] = x /\ \A p \in 1 .. m : a[p] = r[p]
  OBVIOUS
<1>2. /\ \A l \in 1 .. n : l \in 1 .. n + 1
      /\ \A l \in 1 .. n + 1 : l \in 1 .. n \/ l = n + 1
      /\ n + 1 \in 1 .. n + 1
  OBVIOUS
<1>3. /\ \A p \in 1 .. m : p \in 1 .. m + 1
      /\ \A p \in 1 .. m + 1 : p \in 1 .. m \/ p = m + 1
      /\ m + 1 \in 1 .. m + 1
  BY <1>1
<1>4. x \notin skipped /\ \A p \in 1 .. m : r[p] # x
  <2>1. DOMAIN r = 1 .. m
    OBVIOUS
  <2> QED
    BY <2>1, Zenon DEF Range
<1> HIDE DEF a, m
<1>5. \A l \in 1 .. n : s[l] # x
  <2> SUFFICES ASSUME NEW l \in 1 .. n, s[l] = x PROVE FALSE
    BY Zenon
  <2>1. s[l] \notin skipped
    BY <1>4, Zenon
  <2>2. PICK p \in 1 .. m : r[p] = s[l]
    BY <2>1, Zenon DEF Firsts, m
  <2> QED
    BY <2>2, <1>4, Zenon
<1>6. \A p \in 1 .. m + 1 : \E l \in 1 .. n + 1 : a[p] = s[l] /\ s[l] \notin skipped
  <2> TAKE p \in 1 .. m + 1
  <2>1. CASE p \in 1 .. m
    <3>1. PICK l \in 1 .. n : r[p] = s[l] /\ s[l] \notin skipped
      BY <2>1, Zenon DEF Firsts, m
    <3> QED
      BY <3>1, <2>1, <1>1, <1>2, Zenon
  <2>2. CASE p = m + 1
    BY <2>2, <1>1, <1>2, <1>4, Zenon
  <2> QED
    BY <2>1, <2>2, <1>3, Zenon
<1>7. \A l \in 1 .. n + 1 : s[l] \notin skipped => \E p \in 1 .. m + 1 : a[p] = s[l]
  <2> SUFFICES ASSUME NEW l \in 1 .. n + 1, s[l] \notin skipped PROVE \E p \in 1 .. m + 1 : a[p] = s[l]
    BY Zenon
  <2>1. CASE l \in 1 .. n
    <3>1. PICK p \in 1 .. m : r[p] = s[l]
      BY <2>1, Zenon DEF Firsts, m
    <3> QED
      BY <3>1, <1>1, <1>3, Zenon
  <2>2. CASE l = n + 1
    BY <2>2, <1>1, <1>3, Zenon
  <2> QED
    BY <2>1, <2>2, <1>2, Zenon
<1>8. ASSUME NEW p \in 1 .. m + 1, NEW q \in 1 .. m + 1, p < q
      PROVE  Before(s, n + 1, a[p], a[q])
  <2>1. p \in 1 .. m
    BY <1>1, <1>8
  <2>2. CASE q \in 1 .. m
    <3>1. Before(s, n, r[p], r[q])
      BY <2>1, <2>2, <1>8, Zenon DEF Firsts, m
    <3>2. a[p] = r[p] /\ a[q] = r[q]
      BY <2>1, <2>2, <1>1, Zenon
    <3> QED
      BY <3>1, <3>2, <1>2, Zenon DEF Before
  <2>3. CASE q = m + 1
    <3>1. PICK k \in 1 .. n : r[p] = s[k]
      BY <2>1, Zenon DEF Firsts, m
    <3>2. \A l \in 1 .. k : l \in 1 .. n
      OBVIOUS
    <3>3. a[p] = r[p] /\ a[q] = x
      BY <2>1, <2>3, <1>1, Zenon
    <3> QED
      BY <3>1, <3>2, <3>3, <1>2, <1>4, <1>5, <2>1, Zenon DEF Before
  <2> QED
    BY <2>2, <2>3, <1>3, Zenon
<1> QED
  <2>1. 1 .. Len(a) = 1 .. m + 1
    BY <1>1, Zenon
  <2>2. Firsts(a, s, n + 1, skipped)
    BY <2>1, <1>6, <1>7, <1>8, Zenon DEF Firsts
  <2> QED
    BY <2>2, Zenon DEF a

\* FirstOnes keeps the first ones, by induction over the list.
LEMMA FirstOnesAre ==
  ASSUME NEW T, NEW s \in Seq(T), NEW skipped
  PROVE  FirstOnes(s, skipped) \in Seq(T) /\ Firsts(FirstOnes(s, skipped), s, Len(s), skipped)
<1> DEFINE L == Len(s)
           More(q, x) == IF x \in skipped \cup Range(q) THEN q ELSE Append(q, x)
           Fit(v) == v = [i \in 0 .. L |->
                            IF i = 0 THEN <<>>
                            ELSE IF s[i] \in skipped \cup Range(v[i - 1]) THEN v[i - 1]
                            ELSE Append(v[i - 1], s[i])]
           v == CHOOSE v : Fit(v)
           g == [n \in Nat |-> [q \in Seq(T) |-> IF n + 1 \in 1 .. L THEN More(q, s[n + 1]) ELSE q]]
<1>1. L \in Nat /\ <<>> \in Seq(T) /\ \A i \in 1 .. L : s[i] \in T
  OBVIOUS
<1>2. \A q \in Seq(T), x \in T : Append(q, x) \in Seq(T)
  OBVIOUS
<1>3. g \in [Nat -> [Seq(T) -> Seq(T)]]
  <2>1. \A n \in Nat, q \in Seq(T) : (IF n + 1 \in 1 .. L THEN More(q, s[n + 1]) ELSE q) \in Seq(T)
    <3> HIDE DEF L
    <3> QED
      BY <1>1, <1>2, Zenon
  <2> HIDE DEF L, More
  <2> QED
    BY <2>1, Zenon
<1>4. PICK w : Solves(w, Seq(T), <<>>, g)
  <2> HIDE DEF g
  <2> QED
    BY <1>1, <1>3, NatRecursion, Zenon
<1> HIDE DEF L
<1>5. /\ w \in [Nat -> Seq(T)] /\ w[0] = <<>>
      /\ \A n \in Nat : n + 1 \in 1 .. L => w[n + 1] = More(w[n], s[n + 1])
  <2> HIDE DEF More
  <2>1. w \in [Nat -> Seq(T)] /\ w[0] = <<>> /\ \A n \in Nat : w[n + 1] = g[n][w[n]]
    BY <1>4, Zenon DEF Solves
  <2>2. \A n \in Nat : w[n] \in Seq(T)
    BY <2>1, Zenon
  <2> QED
    BY <2>1, <2>2, Zenon
<1> HIDE DEF g
<1> DEFINE u == [i \in 0 .. L |-> w[i]]
<1>6. Fit(u)
  <2>1. ASSUME NEW i \in 0 .. L PROVE u[i] = IF i = 0 THEN <<>>
                                             ELSE IF s[i] \in skipped \cup Range(u[i - 1]) THEN u[i - 1]
                                             ELSE Append(u[i - 1], s[i])
    <3>1. CASE i = 0
      BY <3>1, <1>5, Zenon
    <3>2. CASE i # 0
      <4>1. i - 1 \in Nat /\ (i - 1) + 1 = i /\ i \in 1 .. L /\ i - 1 \in 0 .. L
        BY <3>2, <1>1
      <4>2. w[(i - 1) + 1] = More(w[i - 1], s[(i - 1) + 1])
        <5> HIDE DEF More
        <5>1. (i - 1) + 1 \in 1 .. L
          BY <4>1, Zenon
        <5> QED
          BY <4>1, <5>1, <1>5, Zenon
      <4>3. w[i] = More(w[i - 1], s[i])
        <5> HIDE DEF More
        <5> QED
          BY <4>1, <4>2, Zenon
      <4>4. u[i] = w[i] /\ u[i - 1] = w[i - 1]
        BY <4>1, Zenon
      <4> HIDE DEF u
      <4> QED
        BY <4>3, <4>4, <3>2, Zenon
    <3> QED
      BY <3>1, <3>2, Zenon
  <2> QED
    BY <2>1, Zenon
<1>7. v = [i \in 0 .. L |-> IF i = 0 THEN <<>>
                            ELSE IF s[i] \in skipped \cup Range(v[i - 1]) THEN v[i - 1]
                            ELSE Append(v[i - 1], s[i])]
  <2> HIDE DEF u
  <2> QED
    BY <1>6, Zenon
<1>8. FirstOnes(s, skipped) = v[L]
  BY Zenon DEF FirstOnes, L
<1> HIDE DEF v
<1>9. /\ v[0] = <<>>
      /\ \A i \in 1 .. L : v[i] = IF s[i] \in skipped \cup Range(v[i - 1]) THEN v[i - 1] ELSE Append(v[i - 1], s[i])
  <2>1. 0 \in 0 .. L /\ \A i \in 1 .. L : i \in 0 .. L /\ i # 0
    BY <1>1
  <2> QED
    BY <2>1, <1>7, Zenon
<1> DEFINE I == {n \in Nat : n <= L => v[n] \in Seq(T) /\ Firsts(v[n], s, n, skipped)}
<1>10. 0 \in I
  <2>1. Firsts(<<>>, s, 0, skipped)
    BY DEF Firsts
  <2> QED
    BY <2>1, <1>1, <1>9, Zenon
<1>11. ASSUME NEW n \in Nat, n \in I PROVE n + 1 \in I
  <2> SUFFICES ASSUME n + 1 <= L PROVE v[n + 1] \in Seq(T) /\ Firsts(v[n + 1], s, n + 1, skipped)
    OBVIOUS
  <2>1. n <= L /\ n + 1 \in 1 .. L /\ (n + 1) - 1 = n
    BY <1>1
  <2>2. v[n] \in Seq(T) /\ Firsts(v[n], s, n, skipped) /\ s[n + 1] \in T
    BY <1>1, <1>11, <2>1, Zenon
  <2>3. v[n + 1] = IF s[n + 1] \in skipped \cup Range(v[(n + 1) - 1]) THEN v[(n + 1) - 1]
                   ELSE Append(v[(n + 1) - 1], s[n + 1])
    BY <1>9, <2>1, Zenon
  <2>4. CASE s[n + 1] \in skipped \cup Range(v[n])
    <3>1. v[n + 1] = v[n]
      BY <2>1, <2>3, <2>4
    <3>2. Firsts(v[n], s, n + 1, skipped)
      BY <2>2, <2>4, FirstsSkip, Zenon DEF L
    <3> QED
      BY <3>1, <3>2, <2>2, Zenon
  <2>5. CASE s[n + 1] \notin skipped \cup Range(v[n])
    <3>1. v[n + 1] = Append(v[n], s[n + 1])
      BY <2>1, <2>3, <2>5, Zenon
    <3>2. Firsts(Append(v[n], s[n + 1]), s, n + 1, skipped)
      BY <2>2, <2>5, FirstsAdd, Zenon DEF L
    <3> QED
      BY <3>1, <3>2, <1>2, <2>2, Zenon
  <2> QED
    BY <2>4, <2>5, Zenon
<1>12. L \in I
  <2> HIDE DEF I
  <2> QED
    BY <1>1, <1>10, <1>11, NatSetInduction, Zenon
<1>13. v[L] \in Seq(T) /\ Firsts(v[L], s, L, skipped)
  BY <1>12, <1>1
<1> QED
  BY <1>8, <1>13, Zenon DEF L

\* A list has the elements of another but some, once, in their order there.
Condenses(r, s, skipped) ==
  /\ DOMAIN r = 1 .. Len(r) /\ Range(r) = {s[i] : i \in 1 .. Len(s)} \ skipped
  /\ IsInjective(r)
  /\ \A p, q \in DOMAIN r : p < q =>
       \E k \in 1 .. Len(s) : s[k] = r[p] /\ \A l \in 1 .. k : s[l] # r[q]

\* FirstOnes condenses a list.
LEMMA FirstOnesCondense ==
  ASSUME NEW T, NEW s \in Seq(T), NEW skipped
  PROVE  Condenses(FirstOnes(s, skipped), s, skipped)
<1> DEFINE r == FirstOnes(s, skipped)
<1>1. r \in Seq(T) /\ Firsts(r, s, Len(s), skipped)
  BY FirstOnesAre, Zenon
<1> HIDE DEF r
<1>2. DOMAIN r = 1 .. Len(r) /\ Len(r) \in Nat
  BY <1>1
<1>3. Range(r) = {s[i] : i \in 1 .. Len(s)} \ skipped
  <2>1. \A p \in 1 .. Len(r) : r[p] \in {s[i] : i \in 1 .. Len(s)} \ skipped
    <3> TAKE p \in 1 .. Len(r)
    <3>1. PICK l \in 1 .. Len(s) : r[p] = s[l] /\ s[l] \notin skipped
      BY <1>1, Zenon DEF Firsts
    <3> QED
      BY <3>1, Zenon
  <2>2. \A l \in 1 .. Len(s) : s[l] \notin skipped => s[l] \in Range(r)
    <3> SUFFICES ASSUME NEW l \in 1 .. Len(s), s[l] \notin skipped PROVE s[l] \in Range(r)
      BY Zenon
    <3>1. PICK p \in 1 .. Len(r) : r[p] = s[l]
      BY <1>1, Zenon DEF Firsts
    <3> QED
      BY <3>1, <1>2, Zenon DEF Range
  <2>3. \A x \in Range(r) : \E p \in 1 .. Len(r) : x = r[p]
    BY <1>2, Zenon DEF Range
  <2> QED
    BY <2>1, <2>2, <2>3, Zenon
<1>4. \A p, q \in 1 .. Len(r) : p < q => Before(s, Len(s), r[p], r[q])
  BY <1>1, Zenon DEF Firsts
<1>5. IsInjective(r)
  <2> SUFFICES ASSUME NEW p \in 1 .. Len(r), NEW q \in 1 .. Len(r), r[p] = r[q] PROVE p = q
    BY <1>2, Zenon DEF IsInjective
  <2>1. ~ (p < q) /\ ~ (q < p)
    BY <1>4, Zenon DEF Before
  <2> QED
    BY <2>1, <1>2
<1>6. \A p, q \in DOMAIN r : p < q => \E k \in 1 .. Len(s) : s[k] = r[p] /\ \A l \in 1 .. k : s[l] # r[q]
  BY <1>2, <1>4, ZenonT(30) DEF Before
<1> QED
  BY <1>2, <1>3, <1>5, <1>6, Zenon DEF r, Condenses

\* Nothing for the resolver yet.
NoResolver == [servers |-> <<>>, domains |-> <<>>]

\* The request that open() makes of the configuration.
Asked ==
  /\ stage # "library" /\ peersPc = "ready"
  /\ request.routes = UNION {p.ips : p \in Range(wanted)}
  /\ request.endpoints = {p.endpoint : p \in Range(wanted)} \ {NoAddress}

\* The routes that the request leads to.
Installed == installed = [tunnel |-> FilteredRoutes(request), hosts |-> request.endpoints]

\* How far a request has come, what is known of it there, and the table it
\* was made from.
ConfigInv ==
  /\ OwnedTables
  /\ stage \in {"library", "sent", "checked", "done"}
  /\ settings # <<>> => Asked
  /\ stage = "done" /\ verdict = "accepted" => Installed
  /\ stage # "library" => IsList(request.servers) /\ IsList(request.domains)
  /\ stage # "done" => resolver = NoResolver
  /\ stage \in {"library", "sent"} => verdict = "none"
  /\ verdict = "accepted" => ValidDns(request.servers, request.domains)
  /\ stage = "checked" => verdict = "accepted"
  /\ AcceptedDnsIsApplied

\* What reaches the resolver of a request that validate_dns let pass.
LEMMA ConfigureApplies ==
  ASSUME ConfigInv, Configure
  PROVE  AcceptedDnsIsApplied'
<1> DEFINE ss == request.servers
           ds == request.domains
           ns == [i \in 1 .. Len(ds) |-> ds[i].name]
           servers == IpsToArgs(ss)
           domains == NormalizeDomains(ds)
<1>1. /\ stage = "checked" /\ verdict = "accepted" /\ UNCHANGED <<request, verdict>>
      /\ resolver' = IF servers # <<>> /\ domains # <<>> THEN [servers |-> servers, domains |-> domains] ELSE resolver
      /\ resolver = NoResolver
  BY Zenon DEF Configure, ConfigInv
<1>2. /\ ss \in Seq(Range(ss)) /\ ds \in Seq(Range(ds)) /\ (ds = <<>> <=> ss = <<>>)
      /\ (\A d \in Range(ds) : d.name # "") /\ BadIp \notin Range(ss)
  BY <1>1, Zenon DEF ConfigInv, IsList, ValidDns
<1>3. /\ DOMAIN ss = 1 .. Len(ss) /\ DOMAIN ds = 1 .. Len(ds) /\ Len(ss) \in Nat /\ Len(ds) \in Nat
      /\ ns \in Seq({d.name : d \in Range(ds)}) /\ Len(ns) = Len(ds) /\ \A i \in 1 .. Len(ds) : ns[i] = ds[i].name
  <2>0. \A S : \A s \in Seq(S) : DOMAIN s = 1 .. Len(s) /\ Len(s) \in Nat
    OBVIOUS
  <2>1. DOMAIN ss = 1 .. Len(ss) /\ DOMAIN ds = 1 .. Len(ds) /\ Len(ss) \in Nat /\ Len(ds) \in Nat
    BY <2>0, <1>2, Zenon
  <2>2. \A i \in 1 .. Len(ds) : ds[i].name \in {d.name : d \in Range(ds)}
    BY <2>1, Zenon DEF Range
  <2>3. ns \in [1 .. Len(ds) -> {d.name : d \in Range(ds)}]
    BY <2>2, Zenon
  <2> HIDE DEF ss, ds, ns
  <2>4. ns \in Seq({d.name : d \in Range(ds)}) /\ Len(ns) = Len(ds)
    BY <2>1, <2>3
  <2> QED
    BY <2>1, <2>4, Zenon DEF ns
<1> HIDE DEF ss, ds, ns
<1>4. Range(servers) = {ss[i] : i \in 1 .. Len(ss)} \ {} /\ IsInjective(servers)
  <2>1. Condenses(servers, ss, {})
    BY <1>2, FirstOnesCondense, Zenon DEF IpsToArgs
  <2> HIDE DEF servers
  <2> QED
    BY <2>1, Zenon DEF Condenses
<1>5. /\ DOMAIN domains = 1 .. Len(domains) /\ Range(domains) = {ns[i] : i \in 1 .. Len(ns)} \ {""}
      /\ IsInjective(domains)
      /\ \A p, q \in DOMAIN domains : p < q =>
           \E k \in 1 .. Len(ns) : ns[k] = domains[p] /\ \A l \in 1 .. k : ns[l] # domains[q]
  <2>1. domains = FirstOnes(ns, {""})
    BY Zenon DEF NormalizeDomains, ns
  <2>2. Condenses(domains, ns, {""})
    BY <2>1, <1>3, FirstOnesCondense, Zenon
  <2> HIDE DEF domains
  <2> QED
    BY <2>2, Zenon DEF Condenses
<1> HIDE DEF servers, domains
<1>6. Range(servers) = Range(ss)
  BY <1>3, <1>4, Zenon DEF Range
<1>7. Range(domains) = {d.name : d \in Range(ds)}
  <2>1. {ns[i] : i \in 1 .. Len(ns)} = {d.name : d \in Range(ds)}
    BY <1>3, Zenon DEF Range
  <2>2. "" \notin {d.name : d \in Range(ds)}
    BY <1>2, Zenon
  <2> QED
    BY <2>1, <2>2, <1>5, Zenon
<1>8. /\ Range(<<>>) = {} /\ DOMAIN <<>> = {}
      /\ \A s \in Seq(Range(ss)) : s # <<>> => 1 \in DOMAIN s
      /\ \A s \in Seq(Range(ds)) : s # <<>> => 1 \in DOMAIN s
  BY DEF Range
<1>9. AppliedDns(servers, domains, request)
  <2>1. BadIp \notin Range(servers) /\ "" \notin Range(domains)
    BY <1>2, <1>5, <1>6, Zenon
  <2>2. \A i, j \in DOMAIN domains : i < j =>
          \E k \in DOMAIN ds : ds[k].name = domains[i] /\ \A l \in 1 .. k : ds[l].name # domains[j]
    <3> SUFFICES ASSUME NEW i \in DOMAIN domains, NEW j \in DOMAIN domains, i < j
                 PROVE  \E k \in DOMAIN ds : ds[k].name = domains[i] /\ \A l \in 1 .. k : ds[l].name # domains[j]
      BY Zenon
    <3>1. PICK k \in 1 .. Len(ns) : ns[k] = domains[i] /\ \A l \in 1 .. k : ns[l] # domains[j]
      BY <1>5, Zenon
    <3>2. k \in 1 .. Len(ds) /\ \A l \in 1 .. k : l \in 1 .. Len(ds)
      BY <1>3
    <3> QED
      BY <3>1, <3>2, <1>3, Zenon
  <2> QED
    BY <1>4, <1>5, <1>6, <1>7, <2>1, <2>2, Zenon DEF AppliedDns, ss, ds
<1>10. CASE servers # <<>> /\ domains # <<>>
  <2>1. resolver'.servers = servers /\ resolver'.domains = domains
    BY <1>1, <1>10, Zenon
  <2> QED
    BY <1>1, <1>9, <2>1, Zenon DEF AcceptedDnsIsApplied
<1>11. CASE ~ (servers # <<>> /\ domains # <<>>)
  <2>1. ss = <<>> /\ ds = <<>>
    <3>1. Range(servers) = {} \/ Range(domains) = {}
      BY <1>8, <1>11, Zenon
    <3>2. Range(ss) = {} \/ Range(ds) = {}
      BY <3>1, <1>6, <1>7, Zenon
    <3>3. ss = <<>> \/ ds = <<>>
      <4>1. \A f : 1 \in DOMAIN f => Range(f) # {}
        BY Zenon DEF Range
      <4> QED
        BY <3>2, <4>1, <1>2, <1>8, Zenon
    <3> QED
      BY <3>3, <1>2, Zenon
  <2>2. resolver'.servers = <<>> /\ resolver'.domains = <<>>
    BY <1>1, <1>11, Zenon DEF NoResolver
  <2>3. AppliedDns(<<>>, <<>>, request)
    <3>1. IsInjective(<<>>) /\ \A i \in DOMAIN <<>> : FALSE
      BY <1>8, Zenon DEF IsInjective
    <3> QED
      BY <2>1, <3>1, <1>8, Zenon DEF AppliedDns, ss, ds
  <2> QED
    BY <1>1, <2>2, <2>3, Zenon DEF AcceptedDnsIsApplied
<1> QED
  BY <1>10, <1>11, Zenon

\* No request has come far at the start.
LEMMA ConfigBegins == ConfigInit => ConfigInv
<1> SUFFICES ASSUME ConfigInit PROVE ConfigInv
  BY Zenon
<1>1. OwnedTables /\ settings = <<>> /\ verdict = "none" /\ resolver = NoResolver
  BY NobodyOwns, NoPeers, Zenon DEF ConfigInit, PeersInit, OwnedTables, NoResolver
<1>2. stage = "library" \/ (stage = "sent" /\ request \in Requests)
  BY Zenon DEF ConfigInit
<1> QED
  BY <1>1, <1>2, ListsAssumption, Zenon DEF ConfigInv, AcceptedDnsIsApplied

\* Every step of the library and of the daemon keeps the invariant.
LEMMA ConfigStep == ConfigInv /\ [ConfigNext]_allVars => ConfigInv'
<1> SUFFICES ASSUME ConfigInv, [ConfigNext]_allVars PROVE ConfigInv'
  BY Zenon
<1>1. CASE Manage
  <2>1. stage = "library" /\ PeersNext /\ UNCHANGED configVars
    BY <1>1, Zenon DEF Manage
  <2>2. OwnedTables'
    BY <2>1, OwnedTablesStep, Zenon DEF ConfigInv
  <2>3. settings' = <<>> /\ stage' = "library" /\ resolver' = NoResolver /\ verdict' = "none"
    BY <2>1, Zenon DEF ConfigInv, Asked, configVars
  <2> QED
    BY <2>2, <2>3, Zenon DEF ConfigInv, AcceptedDnsIsApplied, NoResolver
<1>2. CASE Open
  <2>1. PICK c \in Settings : settings' = c /\ request' = ToTunSessionConfig(c, wanted)
    BY <1>2, Zenon DEF Open
  <2>2. /\ stage = "library" /\ stage' = "sent" /\ peersPc = "ready"
        /\ UNCHANGED <<entries, wanted, next, peersPc, verdict, resolver>>
    BY <1>2, Zenon DEF Open, peersVars
  <2>3. /\ request'.routes = UNION {p.ips : p \in Range(wanted)}
        /\ request'.endpoints = {p.endpoint : p \in Range(wanted)} \ {NoAddress}
        /\ request'.servers = c.servers /\ request'.domains = <<>>
    BY <2>1, Zenon DEF ToTunSessionConfig
  <2>4. IsList(request'.servers) /\ IsList(request'.domains)
    <3>1. IsList(c.servers)
      BY ListsAssumption, Zenon
    <3>2. IsList(<<>>)
      BY DEF IsList, Range
    <3> QED
      BY <3>1, <3>2, <2>3, Zenon
  <2>5. verdict' = "none" /\ resolver' = NoResolver
    BY <2>2, Zenon DEF ConfigInv
  <2>6. OwnedTables'
    BY <2>2, Zenon DEF ConfigInv, OwnedTables
  <2>7. Asked'
    BY <2>2, <2>3, Zenon DEF Asked
  <2> QED
    BY <2>2, <2>4, <2>5, <2>6, <2>7, Zenon DEF ConfigInv, AcceptedDnsIsApplied, NoResolver
<1>3. CASE Validate
  <2>1. /\ stage = "sent" /\ UNCHANGED <<entries, wanted, next, peersPc, settings, request, resolver>>
        /\ verdict' = IF ValidConfig(request) THEN "accepted" ELSE "refused"
        /\ stage' = IF verdict' = "accepted" THEN "checked" ELSE "done"
    BY <1>3, Zenon DEF Validate, peersVars
  <2>2. OwnedTables'
    BY <2>1, Zenon DEF ConfigInv, OwnedTables
  <2>3. verdict' = "accepted" => ValidDns(request.servers, request.domains)
    BY <2>1, Zenon DEF ValidConfig
  <2>4. \/ stage' = "checked" /\ verdict' = "accepted"
        \/ stage' = "done" /\ verdict' = "refused"
    BY <2>1, Zenon
  <2>5. IsList(request.servers)' /\ IsList(request.domains)'
    BY <2>1, Zenon DEF ConfigInv
  <2>6. ValidDns(request.servers, request.domains) => ValidDns(request.servers, request.domains)'
    BY <2>1, Zenon DEF ValidDns
  <2>7. settings' # <<>> => Asked'
    BY <2>1, <2>4, Zenon DEF ConfigInv, Asked
  <2>8. resolver' = NoResolver
    BY <2>1, Zenon DEF ConfigInv
  <2>9. AcceptedDnsIsApplied'
    BY <2>4, Zenon DEF AcceptedDnsIsApplied
  <2> QED
    BY <2>2, <2>3, <2>4, <2>5, <2>6, <2>7, <2>8, <2>9, Zenon DEF ConfigInv
<1>6. CASE ResolveFails
  <2>1. /\ stage = "checked" /\ stage' = "done" /\ verdict' = "failed"
        /\ UNCHANGED <<entries, wanted, next, peersPc, settings, request, resolver>>
    BY <1>6, Zenon DEF ResolveFails, peersVars
  <2>2. OwnedTables'
    BY <2>1, Zenon DEF ConfigInv, OwnedTables
  <2>3. settings' # <<>> => Asked'
    BY <2>1, Zenon DEF ConfigInv, Asked
  <2>4. IsList(request.servers)' /\ IsList(request.domains)'
    BY <2>1, Zenon DEF ConfigInv
  <2> QED
    BY <2>1, <2>2, <2>3, <2>4, Zenon DEF ConfigInv, AcceptedDnsIsApplied
<1>4. CASE Configure
  <2>1. /\ stage = "checked" /\ stage' = "done"
        /\ UNCHANGED <<entries, wanted, next, peersPc, settings, request, verdict>>
        /\ installed' = [tunnel |-> FilteredRoutes(request), hosts |-> request.endpoints]
    BY <1>4, Zenon DEF Configure, peersVars
  <2>2. AcceptedDnsIsApplied'
    BY <1>4, ConfigureApplies, Zenon
  <2>3. OwnedTables'
    BY <2>1, Zenon DEF ConfigInv, OwnedTables
  <2>4. settings' # <<>> => Asked'
    BY <2>1, Zenon DEF ConfigInv, Asked
  <2>5. Installed'
    BY <2>1, Zenon DEF Installed, FilteredRoutes
  <2>6. verdict' = "accepted" /\ ValidDns(request.servers, request.domains)'
    BY <2>1, Zenon DEF ConfigInv, ValidDns
  <2>7. IsList(request.servers)' /\ IsList(request.domains)'
    BY <2>1, Zenon DEF ConfigInv
  <2> QED
    BY <2>1, <2>2, <2>3, <2>4, <2>5, <2>6, <2>7, Zenon DEF ConfigInv
<1>5. CASE UNCHANGED allVars
  <2>1. UNCHANGED <<entries, wanted, next, peersPc, settings, request, verdict, installed, resolver, stage>>
    BY <1>5, Zenon DEF allVars, configVars, peersVars
  <2>2. OwnedTables'
    BY <2>1, Zenon DEF ConfigInv, OwnedTables
  <2>3. AcceptedDnsIsApplied'
    BY <2>1, Zenon DEF ConfigInv, AcceptedDnsIsApplied
  <2>4. ValidDns(request.servers, request.domains) => ValidDns(request.servers, request.domains)'
    BY <2>1, Zenon DEF ValidDns
  <2>5. (Asked => Asked') /\ (Installed => Installed')
    BY <2>1, Zenon DEF Asked, Installed, FilteredRoutes
  <2> QED
    BY <2>1, <2>2, <2>3, <2>4, <2>5, Zenon DEF ConfigInv
<1> QED
  BY <1>1, <1>2, <1>3, <1>4, <1>5, <1>6, Zenon DEF ConfigNext

\* A table of all the keys of a configuration has all its peers.
LEMMA TableHasPeers ==
  ASSUME NEW config \in Configs, Valid(config), NEW t, From(t, config), DOMAIN t = DesiredKeys(config)
  PROVE  Range(config) = {t[k].peer : k \in DOMAIN t}
<1>1. ASSUME NEW k \in DOMAIN t PROVE t[k].peer \in Range(config)
  <2>1. k \in DesiredKeys(config) /\ t[k].peer = DesiredPeer(config, k)
    BY Zenon DEF From
  <2>2. PICK i \in DOMAIN config :
          DesiredPeer(config, k) = config[i] /\ config[i].key = k /\ config[i] \in Peers
    BY <2>1, DesiredFacts, Zenon
  <2> QED
    BY <2>1, <2>2, Zenon DEF Range
<1>2. ASSUME NEW i \in DOMAIN config PROVE \E k \in DOMAIN t : t[k].peer = config[i]
  <2>1. config[i].key \in DesiredKeys(config)
    BY Zenon DEF DesiredKeys
  <2>2. PICK j \in DOMAIN config :
          DesiredPeer(config, config[i].key) = config[j] /\ config[j].key = config[i].key
    BY <2>1, DesiredFacts, Zenon
  <2>3. j = i
    BY <2>2, Zenon DEF Valid, UniqueKeys
  <2> QED
    BY <2>1, <2>2, <2>3, Zenon DEF From
<1> QED
  BY <1>1, <1>2, Zenon DEF Range

\* A prefix of all the bits of an address matches that address only.
LEMMA HostMatches ==
  ASSUME NEW p \in Peers, NEW c \in p.ips, NEW d \in Destinations, Matches(c, d), c.prefix = HostPrefix(c)
  PROVE  <<c.family, c.bytes>> = d
<1>1. /\ c.bytes \in Seq(ByteValues) /\ d[2] \in Seq(ByteValues) /\ d = <<d[1], d[2]>>
      /\ c.family = d[1] => Len(c.bytes) = Len(d[2])
  BY AddressAssumption, Zenon
<1>2. c.family = d[1] /\ \A i \in 1 .. (c.prefix \div ByteBits) : c.bytes[i] = d[2][i]
  BY Zenon DEF Matches
<1>3. c.prefix \div ByteBits = Len(c.bytes)
  <2>1. Len(c.bytes) \in Nat /\ ByteBits \in Nat \ {0} /\ c.prefix = Len(c.bytes) * ByteBits
    BY <1>1, SessionsAssumption DEF HostPrefix
  <2>2. \A x \in Nat, b \in Nat \ {0} : (x * b) \div b = x
    BY SMTT(30)
  <2> QED
    BY <2>1, <2>2, Zenon
<1>4. c.bytes = d[2]
  <2>1. Len(c.bytes) = Len(d[2]) /\ \A i \in 1 .. Len(c.bytes) : c.bytes[i] = d[2][i]
    BY <1>1, <1>2, <1>3, Zenon
  <2>2. \A s, t \in Seq(ByteValues) : Len(s) = Len(t) /\ (\A i \in 1 .. Len(s) : s[i] = t[i]) => s = t
    OBVIOUS
  <2> QED
    BY <1>1, <2>1, <2>2, Zenon
<1> QED
  BY <1>1, <1>2, <1>4, Zenon

\* The routes are prefixes of the table's peers, and match what these are
\* selected for.
LEMMA RoutesCover == ConfigInv => RoutedIsOwned
<1> SUFFICES ASSUME ConfigInv, settings # <<>>, stage = "done", verdict = "accepted", NEW d \in Destinations
             PROVE  IntoTunnel(d) <=>
                      Candidates(d) # {} /\ \A k \in DOMAIN entries : entries[k].peer.endpoint # d
  BY Zenon DEF RoutedIsOwned
<1>1. /\ Owned(entries) /\ wanted \in Configs /\ Valid(wanted) /\ Asked /\ Installed
      /\ From(entries, wanted) /\ DOMAIN entries = DesiredKeys(wanted)
  BY Zenon DEF ConfigInv, OwnedTables, Asked
<1>2. Range(wanted) = {entries[k].peer : k \in DOMAIN entries}
  BY <1>1, TableHasPeers, Zenon
<1>3. \A c : c \in request.routes <=> \E k \in DOMAIN entries : c \in entries[k].peer.ips
  <2>1. request.routes = UNION {p.ips : p \in Range(wanted)}
    BY <1>1, Zenon DEF Asked
  <2>2. \A c : c \in request.routes <=> \E p \in Range(wanted) : c \in p.ips
    BY <2>1, Zenon
  <2> QED
    BY <1>2, <2>2, Zenon
<1>4. \A a : a \in request.endpoints <=> \E k \in DOMAIN entries : a = entries[k].peer.endpoint
  <2>1. \A p \in Range(wanted) : p.endpoint # NoAddress
    BY <1>1, Zenon DEF Valid, UserspaceEndpoints, Range
  <2> QED
    BY <1>1, <1>2, <2>1, Zenon DEF Asked
<1>5. /\ installed.hosts = request.endpoints
      /\ \A c : c \in installed.tunnel <=>
                  c \in request.routes /\ (c.prefix # HostPrefix(c) \/ <<c.family, c.bytes>> \notin request.endpoints)
  BY <1>1, Zenon DEF Installed, FilteredRoutes
<1>6. \A c \in request.routes :
        /\ Matches(c, d) <=> c.family = d[1] /\ FirstBits(c.bytes, c.prefix) = FirstBits(d[2], c.prefix)
        /\ Matches(c, d) /\ c.prefix = HostPrefix(c) => <<c.family, c.bytes>> = d
  <2> SUFFICES ASSUME NEW c \in request.routes
               PROVE  /\ Matches(c, d) <=> c.family = d[1] /\ FirstBits(c.bytes, c.prefix) = FirstBits(d[2], c.prefix)
                      /\ Matches(c, d) /\ c.prefix = HostPrefix(c) => <<c.family, c.bytes>> = d
    BY Zenon
  <2>1. PICK k \in DOMAIN entries : c \in entries[k].peer.ips
    BY <1>3, Zenon
  <2>2. entries[k].peer \in Peers
    BY <1>1, <2>1, Zenon DEF Owned
  <2> QED
    BY <1>1, <2>1, <2>2, EntryMatches, HostMatches, Zenon
<1>7. Candidates(d) # {} <=> \E c \in request.routes : Matches(c, d)
  <2>1. Candidates(d) # {} <=> \E k \in DOMAIN entries : \E c \in entries[k].peer.ips : Matches(c, d)
    BY Zenon DEF Candidates, MatchingPrefixes
  <2> QED
    BY <1>3, <2>1, Zenon
<1>8. IntoTunnel(d) <=> \E c \in installed.tunnel :
                          Matches(c, d) /\ (d \in request.endpoints => c.prefix = HostPrefix(c))
  BY <1>5, <1>6, Zenon DEF IntoTunnel
<1>9. IntoTunnel(d) <=> Candidates(d) # {} /\ d \notin request.endpoints
  <2>1. ASSUME NEW c \in installed.tunnel, Matches(c, d), d \in request.endpoints => c.prefix = HostPrefix(c)
        PROVE  c \in request.routes /\ d \notin request.endpoints
    BY <1>5, <1>6, <2>1, Zenon
  <2>2. ASSUME NEW c \in request.routes, Matches(c, d), d \notin request.endpoints
        PROVE  c \in installed.tunnel
    BY <1>5, <1>6, <2>2, Zenon
  <2> QED
    BY <1>7, <1>8, <2>1, <2>2, Zenon
<1> QED
  BY <1>4, <1>9, Zenon

\* A request stays in step with the table it was made from and with what
\* validate_config and configure_session have done with it.
THEOREM ConfigInvariant == ConfigSpec => []ConfigInv
BY ConfigBegins, ConfigStep, PTL DEF ConfigSpec

\* The same holds where the table is that of a VPN being opened: the request
\* that goes to the daemon leaves the selection alone.
THEOREM LongestPrefixWhileOpening == ConfigSpec => []LongestPrefixOwner
<1>1. ConfigInv => OwnedTables
  BY Zenon DEF ConfigInv
<1> QED
  BY <1>1, ConfigInvariant, OwnedIsSelected, PTL

\* For any peers, prefixes and width of an address: what the routes that the
\* daemon installs for a parsed configuration take into the tunnel is what
\* selectSessionForPacket finds a session for in the table that was
\* reconciled with it, one session at a time; only the peers' endpoints are
\* left out.
THEOREM RoutedAreOwned == ConfigSpec => []RoutedIsOwned
BY ConfigInvariant, RoutesCover, PTL

\* Whatever DNS validate_dns accepts reaches the resolver through
\* configure_session: each server and name once, names in their order.
THEOREM AcceptedDnsApplied == ConfigSpec => []AcceptedDnsIsApplied
<1>1. ConfigInv => AcceptedDnsIsApplied
  BY Zenon DEF ConfigInv
<1> QED
  BY <1>1, ConfigInvariant, PTL
=============================================================================
