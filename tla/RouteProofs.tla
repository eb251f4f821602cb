---------------------------- MODULE RouteProofs ----------------------------
(***************************************************************************)
(* What cleanup leaves behind on Linux and Windows, and where a packet to  *)
(* an endpoint can go, for any sessions, endpoints, prefixes and table.    *)
(***************************************************************************)
EXTENDS PlatformRoutes, WellFoundedInduction, TLAPS

Hosts(s) == Len(Endpoints[s])

HostKeyOf(s, i) == HostKey(Endpoints[s][i])

Routes == [key : Keys, via : Paths]

SettingUp == {"endpoints", "routes", "add", "servers", "domains", "up"}

States == {"idle", "resolved", "endpoints", "routes", "add", "servers", "domains", "up", "undo", "closed", "gone"}

TypeOK ==
  /\ windows \in BOOLEAN
  /\ table \in [Keys -> SUBSET Paths]
  /\ resolver \in [Sessions -> SUBSET Settings]
  /\ pc \in [Sessions -> States]
  /\ plan \in [Sessions -> Seq(Routes)]
  /\ upto \in [Sessions -> Nat]
  /\ faults \in Nat
  /\ residue \in [routes : SUBSET (Sessions \X Keys), dns : SUBSET Sessions]

(* A plan begins with a host route per endpoint and goes on with routes    *)
(* through the TUN, none of them to an endpoint.                           *)
Planned(s) ==
  /\ Len(plan[s]) >= Hosts(s)
  /\ \A i \in 1 .. Hosts(s) : plan[s][i].key = HostKeyOf(s, i)
  /\ \A i \in Hosts(s) + 1 .. Len(plan[s]) : plan[s][i].via = s /\ plan[s][i].key \notin EndpointKeys(s)

Progress(s) ==
  /\ pc[s] = "idle" => plan[s] = <<>>
  /\ pc[s] \in {"idle", "resolved"} => resolver[s] = {}
  /\ plan[s] # <<>> \/ pc[s] \notin {"idle", "gone"} => Planned(s)
  /\ upto[s] <= Len(plan[s])
  /\ pc[s] = "endpoints" => upto[s] < Hosts(s)
  /\ pc[s] = "add" => upto[s] < Len(plan[s])
  /\ pc[s] \in {"idle", "resolved", "closed", "gone"} => upto[s] = 0
  /\ pc[s] \in {"closed", "gone"} => resolver[s] = {} \/ s \in residue.dns

(* The path of a connected route.                                          *)
Local(k, via) == via \in Sessions /\ k \in Connected[via]

(* Every entry that was not there before is a connected route, or one that *)
(* some session is still to delete, or has failed to delete.               *)
Accounted ==
  \A k \in Keys : \A via \in table[k] \ Start[k] : Local(k, via) \/
    \E t \in Sessions : \E j \in 1 .. Len(plan[t]) :
      /\ plan[t][j] = [key |-> k, via |-> via]
      /\ j <= upto[t] \/ <<t, k>> \in residue.routes

NoEndpoint(k) == \A s \in Sessions : k \notin EndpointKeys(s)

Kept == \A k \in Keys : NoEndpoint(k) => Start[k] \subseteq table[k]

Present == \A s \in Sessions : pc[s] \in NoDevice => \A k \in Keys : s \notin table[k]

RestoreInv == TypeOK /\ (\A s \in Sessions : Progress(s)) /\ Accounted /\ Kept /\ Present

(* A path to an endpoint that goes through no TUN.                         *)
Direct(s, i) == table[HostKeyOf(s, i)] \ Sessions # {}

(* What set-up has reached: the endpoints handled so far have a direct     *)
(* route, but for the one that is being deleted and added again.           *)
Hosted(s) ==
  pc[s] \in SettingUp /\ OwnEndpoints(s) =>
    \A i \in 1 .. Hosts(s) : i <= upto[s] =>
      Direct(s, i) \/ (pc[s] = "add" /\ NextRoute(s).key = HostKeyOf(s, i))

NoResidue(s) == \A x \in residue.routes : x[1] # s

(* Some entry that is no connected route sends packets to an endpoint into *)
(* the session's own TUN.                                                  *)
Captured(s) == \E k \in Keys \ Connected[s] : \E i \in 1 .. Hosts(s) : Covers(k, Endpoints[s][i]) /\ s \in table[k]

Guarded(s) ==
  OwnEndpoints(s) /\ NoResidue(s) /\ Captured(s) => \A i \in 1 .. Hosts(s) : Direct(s, i)

LoopInv == RestoreInv /\ \A s \in Sessions : Hosted(s) /\ Guarded(s)

-----------------------------------------------------------------------------
(* The kinds of step, by what they do to the table.                        *)
Others(s) ==
  \A t \in Sessions \ {s} :
    pc'[t] = pc[t] /\ upto'[t] = upto[t] /\ plan'[t] = plan[t] /\ resolver'[t] = resolver[t]

Residues == residue.routes \subseteq residue'.routes /\ residue.dns \subseteq residue'.dns

(* Nothing in the table changes, and no route is forgotten.                *)
QuietStep(s) ==
  /\ table' = table /\ plan' = plan
  /\ \A j \in 1 .. Len(plan[s]) : j <= upto[s] => j <= upto'[s] \/ <<s, plan[s][j].key>> \in residue'.routes
  /\ pc'[s] \in NoDevice => pc[s] \in NoDevice
  /\ pc'[s] \in SettingUp => pc[s] \in SettingUp \ {"add"} /\ upto'[s] = upto[s]

ResolveStep(s) ==
  /\ table' = table /\ plan[s] = <<>> /\ upto' = upto
  /\ pc[s] = "idle" /\ pc'[s] = "resolved"

(* The connected routes appear.                                            *)
CreateStep(s) ==
  /\ table' = [k \in Keys |-> IF k \in Connected[s] THEN table[k] \cup {s} ELSE table[k]]
  /\ plan' = plan /\ upto' = upto
  /\ pc[s] = "resolved" /\ pc'[s] \notin NoDevice

(* The next route is added; only on the way to an endpoint can it take the *)
(* place of others.                                                        *)
AddStep(s) ==
  /\ pc[s] \in {"endpoints", "add"} /\ plan' = plan
  /\ Exists(NextRoute(s).via)
  /\ \A k \in Keys : k # NextRoute(s).key => table'[k] = table[k]
  /\ table'[NextRoute(s).key] \subseteq table[NextRoute(s).key] \cup {NextRoute(s).via}
  /\ NextRoute(s).via \in table'[NextRoute(s).key]
  /\ upto[s] >= Hosts(s) => table[NextRoute(s).key] \subseteq table'[NextRoute(s).key]
  /\ upto[s] + 1 <= upto'[s] /\ pc'[s] \in {"endpoints", "routes", "undo"}
  /\ pc'[s] \in {"endpoints", "routes"} => upto'[s] = upto[s] + 1

(* Route j is deleted.                                                     *)
Deleted(s, j) ==
  /\ table' = Without(plan[s][j].key, plan[s][j].via) /\ plan' = plan
  /\ pc'[s] \notin NoDevice

PreDeleteStep(s) ==
  /\ Deleted(s, upto[s] + 1) /\ upto[s] < Len(plan[s]) /\ upto' = upto
  /\ pc[s] \in {"endpoints", "routes"} /\ pc'[s] = "add"

UndoStep(s) ==
  /\ Deleted(s, upto[s]) /\ upto[s] > 0
  /\ pc[s] = "undo" /\ pc'[s] = "undo" /\ upto'[s] = upto[s] - 1

DropStep(s) ==
  /\ table' = [k \in Keys |-> table[k] \ {s}] /\ plan' = plan /\ upto' = upto
  /\ pc[s] = "closed" /\ pc'[s] = "gone"

StepOf(s) ==
  \/ QuietStep(s) \/ ResolveStep(s) \/ CreateStep(s)
  \/ AddStep(s) \/ PreDeleteStep(s) \/ UndoStep(s) \/ DropStep(s)

-----------------------------------------------------------------------------
(* A set of numbers has a least one.                                       *)
LEMMA Least ==
  ASSUME NEW T \in SUBSET Nat, T # {}
  PROVE  \E n \in T : \A m \in T : n <= m
<1> DEFINE R == OpToRel(<, Nat)
<1>1. IsWellFoundedOn(R, Nat)
  BY NatLessThanWellFounded, Zenon
<1>2. \A x, y \in Nat : y < x => <<y, x>> \in R
  BY Zenon DEF OpToRel
<1> HIDE DEF R
<1>3. PICK x \in T : \A y \in T : ~ (<<y, x>> \in R)
  BY <1>1, WFMin, Zenon
<1>4. \A y \in T : ~ (y < x)
  BY <1>2, <1>3, Zenon
<1> QED
  BY <1>4

LEMMA NatSetInduction ==
  ASSUME NEW S, 0 \in S, \A n \in Nat : n \in S => n + 1 \in S
  PROVE  Nat \subseteq S
<1> DEFINE T == Nat \ S
<1>1. SUFFICES ASSUME T # {} PROVE FALSE
  BY Zenon
<1>2. T \in SUBSET Nat
  BY Zenon
<1> HIDE DEF T
<1>3. PICK n \in T : \A m \in T : n <= m
  BY <1>1, <1>2, Least, Zenon
<1>4. n \in Nat /\ n # 0
  BY <1>2, Zenon DEF T
<1>5. n - 1 \in Nat /\ n - 1 \notin T
  BY <1>3, <1>4, <1>2
<1>6. n \in S
  BY <1>4, <1>5 DEF T
<1> QED
  BY <1>6, <1>3, Zenon DEF T

(* Every set of the numbers from 1 to n can be listed in order.            *)
InOrderOf(f, I) ==
  /\ \A i, j \in DOMAIN f : i < j => f[i] < f[j]
  /\ \A x \in I : \E i \in DOMAIN f : f[i] = x

LEMMA Listable ==
  ASSUME NEW n \in Nat
  PROVE  \A I \in SUBSET (1 .. n) : \E m \in 0 .. n : \E f \in [1 .. m -> I] : InOrderOf(f, I)
<1> DEFINE Lists(k) == \A I \in SUBSET (1 .. k) : \E m \in 0 .. k : \E f \in [1 .. m -> I] : InOrderOf(f, I)
           S == { k \in Nat : Lists(k) }
<1>1. 0 \in S
  <2>1. ASSUME NEW I \in SUBSET (1 .. 0) PROVE \E f \in [1 .. 0 -> I] : InOrderOf(f, I)
    <3>1. [i \in 1 .. 0 |-> i] \in [1 .. 0 -> I] /\ InOrderOf([i \in 1 .. 0 |-> i], I)
      BY DEF InOrderOf
    <3> QED
      BY <3>1, Zenon
  <2> QED
    BY <2>1
<1>2. ASSUME NEW k \in Nat, k \in S PROVE k + 1 \in S
  <2>1. ASSUME NEW I \in SUBSET (1 .. k + 1)
        PROVE  \E m \in 0 .. k + 1 : \E f \in [1 .. m -> I] : InOrderOf(f, I)
    <3> DEFINE J == I \ {k + 1}
    <3>1. J \in SUBSET (1 .. k)
      OBVIOUS
    <3>2. PICK m \in 0 .. k : \E f \in [1 .. m -> J] : InOrderOf(f, J)
      BY <1>2, <3>1, Zenon
    <3>3. PICK f \in [1 .. m -> J] : InOrderOf(f, J)
      BY <3>2, Zenon
    <3>4. CASE k + 1 \notin I
      <4>1. I = J
        BY <3>4, Zenon
      <4>2. m \in 0 .. k + 1
        OBVIOUS
      <4> QED
        BY <3>3, <4>1, <4>2, Zenon
    <3>5. CASE k + 1 \in I
      <4> DEFINE g == [i \in 1 .. m + 1 |-> IF i = m + 1 THEN k + 1 ELSE f[i]]
      <4>8. m \in Nat /\ \A i \in 1 .. m : f[i] \in J
        BY <3>3
      <4>1. m \in Nat /\ \A i \in 1 .. m : f[i] \in J /\ f[i] \in 1 .. k
        BY <3>1, <4>8, Zenon
      <4>2. g \in [1 .. m + 1 -> I] /\ DOMAIN g = 1 .. m + 1 /\ DOMAIN f = 1 .. m
        BY <4>1, <3>5, <3>3
      <4>3. \A i \in 1 .. m : g[i] = f[i]
        BY <4>1
      <4>4. m + 1 \in 1 .. m + 1 /\ g[m + 1] = k + 1
        BY <4>1
      <4> HIDE DEF g
      <4>5. \A i, j \in 1 .. m + 1 : i < j => g[i] < g[j]
        <5>1. \A i, j \in 1 .. m : i < j => f[i] < f[j]
          BY <4>2, <3>3, Zenon DEF InOrderOf
        <5>2. ASSUME NEW i \in 1 .. m + 1, NEW j \in 1 .. m + 1, i < j PROVE g[i] < g[j]
          <6>1. i \in 1 .. m /\ g[i] = f[i] /\ f[i] \in 1 .. k
            BY <5>2, <4>1, <4>3
          <6>2. CASE j = m + 1
            BY <6>1, <6>2, <4>4
          <6>3. CASE j \in 1 .. m
            BY <6>1, <6>3, <5>1, <5>2, <4>3, Zenon
          <6> QED
            BY <6>2, <6>3, <4>1
        <5> QED
          BY <5>2, Zenon
      <4>6. ASSUME NEW x \in I PROVE \E i \in 1 .. m + 1 : g[i] = x
        <5>1. CASE x = k + 1
          BY <5>1, <4>4, Zenon
        <5>2. CASE x # k + 1
          <6>1. PICK i \in 1 .. m : f[i] = x
            BY <5>2, <4>2, <3>3, Zenon DEF InOrderOf
          <6> QED
            BY <6>1, <4>1, <4>3
        <5> QED
          BY <5>1, <5>2, Zenon
      <4>7. InOrderOf(g, I) /\ m + 1 \in 0 .. k + 1
        BY <4>1, <4>2, <4>5, <4>6 DEF InOrderOf
      <4> QED
        BY <4>2, <4>7, Zenon
    <3> QED
      BY <3>4, <3>5, Zenon
  <2>2. Lists(k + 1)
    BY <2>1, Zenon
  <2>3. k + 1 \in Nat
    OBVIOUS
  <2> QED
    BY <2>2, <2>3, Zenon
<1> HIDE DEF S
<1>3. Nat \subseteq S
  BY <1>1, <1>2, NatSetInduction, Zenon
<1> QED
  BY <1>3, Zenon DEF S

-----------------------------------------------------------------------------
LEMMA EndpointFacts ==
  ASSUME NEW s \in Sessions
  PROVE  /\ Hosts(s) \in Nat /\ DOMAIN Endpoints[s] = 1 .. Hosts(s)
         /\ \A i \in 1 .. Hosts(s) : Endpoints[s][i] \in Addresses /\ HostKeyOf(s, i) \in EndpointKeys(s)
         /\ \A k \in EndpointKeys(s) : \E i \in 1 .. Hosts(s) : k = HostKeyOf(s, i)
<1>1. Endpoints[s] \in Seq(Addresses)
  BY PlatformRoutesAssumption, Zenon
<1> QED
  BY <1>1 DEF Hosts, EndpointKeys, HostKeyOf

(* The prefix of a host covers that address alone, and is the longest.     *)
LEMMA HostIsLongest ==
  ASSUME NEW a \in Addresses
  PROVE  /\ HostKey(a) \in Keys /\ Covers(HostKey(a), a)
         /\ \A b \in Addresses : Covers(HostKey(b), a) => b = a
         /\ \A k \in Keys : k.len \in 0 .. AddrBits /\ (Covers(k, a) /\ AddrBits <= k.len => k = HostKey(a))
<1>1. a \in Nat /\ a \in 0 .. (2^AddrBits - 1)
  BY DEF Addresses
<1>2. HostKey(a) \in [net : 0 .. (2^AddrBits - 1), len : {AddrBits}]
  BY <1>1, Zenon DEF HostKey
<1>3. HostKey(a) \in Keys
  BY <1>2, AddrBitsAssumption DEF Keys
<1>4. \A x \in Nat : x \div 2^(AddrBits - AddrBits) = x
  BY AddrBitsAssumption
<1>5. Covers(HostKey(a), a) /\ \A b \in Addresses : Covers(HostKey(b), a) => b = a
  BY <1>1, <1>4, Zenon DEF Covers, HostKey
<1>6. ASSUME NEW k \in Keys
      PROVE  k.len \in 0 .. AddrBits /\ (Covers(k, a) /\ AddrBits <= k.len => k = HostKey(a))
  <2>1. PICK n \in 0 .. AddrBits : k \in [net : 0 .. (2^n - 1), len : {n}]
    BY Zenon DEF Keys
  <2>2. k.len = n /\ k = [net |-> k.net, len |-> k.len]
    BY <2>1, Zenon
  <2>3. ASSUME Covers(k, a), AddrBits <= k.len PROVE k = HostKey(a)
    <3>1. k.len = AddrBits
      BY <2>1, <2>2, <2>3, AddrBitsAssumption
    <3>2. k.net = a
      BY <3>1, <2>3, <1>1, <1>4, Zenon DEF Covers
    <3> QED
      BY <2>2, <3>1, <3>2, Zenon DEF HostKey
  <2> QED
    BY <2>1, <2>2, <2>3, Zenon
<1> QED
  BY <1>3, <1>5, <1>6, Zenon

(* The routes build_and_filter_routes returns go through the TUN, and none *)
(* of them is a host route to an endpoint.                                 *)
LEMMA FilteredFacts ==
  ASSUME NEW s \in Sessions
  PROVE  /\ FilteredRoutes(Allowed[s], Endpoints[s], s) \in Seq(Routes)
         /\ \A i \in 1 .. Len(FilteredRoutes(Allowed[s], Endpoints[s], s)) :
              /\ FilteredRoutes(Allowed[s], Endpoints[s], s)[i].via = s
              /\ FilteredRoutes(Allowed[s], Endpoints[s], s)[i].key \notin EndpointKeys(s)
<1> DEFINE A == Allowed[s]
           N == Len(A)
           kept == { i \in DOMAIN A : \A j \in DOMAIN Endpoints[s] : A[i] # HostKey(Endpoints[s][j]) }
           order == InOrder(kept, N)
           F == [i \in DOMAIN order |-> [key |-> A[order[i]], via |-> s]]
<1>1. A \in Seq(Keys)
  BY PlatformRoutesAssumption, Zenon
<1>2. N \in Nat /\ DOMAIN A = 1 .. N /\ \A i \in 1 .. N : A[i] \in Keys
  BY <1>1
<1>3. kept \in SUBSET (1 .. N)
  BY <1>2, Zenon
<1>4. \A i \in kept : A[i] \in Keys /\ A[i] \notin EndpointKeys(s)
  BY <1>2, Zenon DEF EndpointKeys
<1>5. FilteredRoutes(A, Endpoints[s], s) = F
  BY Zenon DEF FilteredRoutes
<1> HIDE DEF kept, N
<1>6. \E f \in UNION { [1 .. m -> kept] : m \in 0 .. N } : InOrderOf(f, kept)
  <2>1. PICK m \in 0 .. N : \E f \in [1 .. m -> kept] : InOrderOf(f, kept)
    BY <1>2, <1>3, Listable, Zenon
  <2> QED
    BY <2>1, Zenon
<1>7. order \in UNION { [1 .. m -> kept] : m \in 0 .. N }
  BY <1>6, Zenon DEF InOrder, InOrderOf
<1>8. PICK m \in 0 .. N : order \in [1 .. m -> kept]
  BY <1>7, Zenon
<1> HIDE DEF order
<1>9. m \in Nat /\ DOMAIN order = 1 .. m /\ \A i \in 1 .. m : order[i] \in kept
  BY <1>2, <1>8
<1>10. s \in Paths
  BY Zenon DEF Paths
<1>11. \A i \in 1 .. m : F[i] \in Routes /\ F[i].via = s /\ F[i].key \notin EndpointKeys(s)
  BY <1>4, <1>9, <1>10, Zenon DEF Routes
<1> HIDE DEF A
<1>12. Len(F) = m /\ F \in Seq(Routes)
  BY <1>9, <1>11
<1> QED
  BY <1>5, <1>11, <1>12, Zenon DEF A

-----------------------------------------------------------------------------
(* With endpoints of its own, a session's endpoint routes go through no    *)
(* TUN, and no other session plans a route to one of them.                 *)
LEMMA OwnFacts ==
  ASSUME TypeOK, NEW s \in Sessions, Planned(s), OwnEndpoints(s)
  PROVE  /\ \A i \in 1 .. Hosts(s) : plan[s][i].via \notin Sessions
         /\ \A t \in Sessions \ {s} : \A j \in 1 .. Len(plan[t]) :
              \A i \in 1 .. Hosts(s) : plan[t][j].key # HostKeyOf(s, i)
<1>1. \A t \in Sessions : plan[t] \in Seq(Routes)
  BY Zenon DEF TypeOK
<1>2. \A t \in Sessions : Len(plan[t]) \in Nat /\ DOMAIN plan[t] = 1 .. Len(plan[t])
  BY <1>1
<1>3. \A i \in 1 .. Hosts(s) : /\ i \in 1 .. Len(plan[s]) /\ plan[s][i].key = HostKeyOf(s, i)
                               /\ plan[s][i].key \in EndpointKeys(s)
  BY <1>2, EndpointFacts DEF Planned
<1>4. \A i \in 1 .. Hosts(s) :
        /\ plan[s][i].via \notin Sessions
        /\ \A t \in Sessions \ {s} : \A j \in DOMAIN plan[t] : plan[t][j].key # plan[s][i].key
  BY <1>3, Zenon DEF OwnEndpoints
<1> QED
  BY <1>2, <1>3, <1>4, Zenon

(* Of a session with endpoints of its own, an entry that captures packets  *)
(* to them is a connected route or a TUN route it has yet to delete.       *)
LEMMA CapturedByTun ==
  ASSUME RestoreInv, NEW s \in Sessions, OwnEndpoints(s), NoResidue(s),
         NEW k \in Keys \ Connected[s], NEW i \in 1 .. Hosts(s), Covers(k, Endpoints[s][i]), s \in table[k]
  PROVE  Planned(s) /\ upto[s] > Hosts(s) /\ k \notin EndpointKeys(s)
<1>1. pc[s] \notin {"idle", "gone"} /\ Planned(s)
  BY Zenon DEF RestoreInv, Present, Progress, NoDevice
<1>2. s \notin Start[k]
  BY PlatformRoutesAssumption, Zenon
<1>3. PICK t \in Sessions : \E j \in 1 .. Len(plan[t]) :
        plan[t][j] = [key |-> k, via |-> s] /\ (j <= upto[t] \/ <<t, k>> \in residue.routes)
  BY <1>2, Zenon DEF RestoreInv, Accounted, Local
<1>4. PICK j \in 1 .. Len(plan[t]) :
        plan[t][j] = [key |-> k, via |-> s] /\ (j <= upto[t] \/ <<t, k>> \in residue.routes)
  BY <1>3, Zenon
<1>5. Len(plan[t]) \in Nat /\ upto[t] \in Nat /\ Hosts(s) \in Nat /\ Hosts(t) \in Nat /\ TypeOK
  BY EndpointFacts DEF RestoreInv, TypeOK
<1>6. plan[t][j].key = k /\ plan[t][j].via = s
  BY <1>4
<1>7. Planned(t)
  <2>1. plan[t] # <<>>
    BY <1>5, <1>4
  <2> QED
    BY <2>1, Zenon DEF RestoreInv, Progress
<1>8. CASE t = s
  <2>1. j <= upto[s]
    BY <1>4, <1>8, Zenon DEF NoResidue
  <2>2. ~ (j \in 1 .. Hosts(s))
    BY <1>1, <1>5, <1>6, <1>8, OwnFacts, Zenon
  <2>3. j \in Hosts(s) + 1 .. Len(plan[s])
    BY <2>2, <1>4, <1>5, <1>8
  <2>4. k \notin EndpointKeys(s)
    BY <2>3, <1>1, <1>6, <1>8, Zenon DEF Planned
  <2>5. upto[s] > Hosts(s)
    BY <2>1, <2>3, <1>5, <1>8
  <2> QED
    BY <1>1, <2>4, <2>5, Zenon
<1>9. CASE t # s
  <2>1. ~ (j \in Hosts(t) + 1 .. Len(plan[t]))
    BY <1>6, <1>7, <1>9, Zenon DEF Planned
  <2>2. j \in 1 .. Hosts(t)
    BY <2>1, <1>4, <1>5
  <2>3. k = HostKeyOf(t, j)
    BY <2>2, <1>6, <1>7, Zenon DEF Planned
  <2>4. Endpoints[t][j] \in Addresses /\ Endpoints[s][i] \in Addresses
    BY <2>2, EndpointFacts, Zenon
  <2>5. Endpoints[t][j] = Endpoints[s][i]
    BY <2>3, <2>4, HostIsLongest, Zenon DEF HostKeyOf
  <2>6. k = HostKeyOf(s, i)
    BY <2>3, <2>5, Zenon DEF HostKeyOf
  <2> QED
    BY <2>6, <1>1, <1>4, <1>5, <1>6, <1>9, OwnFacts, Zenon
<1> QED
  BY <1>8, <1>9, Zenon

(* What RestoreInv says once no session is left.                           *)
LEMMA RestoreInvImplies ==
  RestoreInv => SystemRestored
<1> SUFFICES ASSUME RestoreInv, \A s \in Sessions : pc[s] \in {"idle", "gone"}
             PROVE  /\ \A k \in Keys : (\A s \in Sessions : <<s, k>> \notin residue.routes) =>
                                         table[k] \subseteq Start[k]
                    /\ \A s \in Sessions \ residue.dns : resolver[s] = {}
                    /\ \A k \in Keys \ UNION { EndpointKeys(s) : s \in Sessions } : Start[k] \subseteq table[k]
  BY Zenon DEF SystemRestored
<1>1. \A s \in Sessions : upto[s] = 0 /\ (resolver[s] = {} \/ s \in residue.dns)
  BY Zenon DEF RestoreInv, Progress
<1>2. ASSUME NEW k \in Keys, \A s \in Sessions : <<s, k>> \notin residue.routes, NEW via \in table[k], via \notin Start[k]
      PROVE  FALSE
  <2>1. ~ Local(k, via)
    BY <1>2, Zenon DEF RestoreInv, Present, Local, NoDevice
  <2>2. PICK t \in Sessions : \E j \in 1 .. Len(plan[t]) : j <= upto[t]
    BY <2>1, <1>2, Zenon DEF RestoreInv, Accounted
  <2> QED
    BY <2>2, <1>1
<1>3. \A k \in Keys \ UNION { EndpointKeys(s) : s \in Sessions } : Start[k] \subseteq table[k]
  BY Zenon DEF RestoreInv, Kept, NoEndpoint
<1> QED
  BY <1>1, <1>2, <1>3, Zenon

(* The entries a lookup chooses from belong to a longest matching prefix.  *)
LEMMA SelectedFacts ==
  ASSUME NEW a \in Addresses, NEW via \in Selected(a)
  PROVE  /\ LongestMatch(a) \in Keys /\ Covers(LongestMatch(a), a) /\ via \in table[LongestMatch(a)]
         /\ table[HostKey(a)] # {} => LongestMatch(a) = HostKey(a)
<1> DEFINE matching == Matching(a)
           Max(k) == \A o \in matching : o.len <= k.len
           longest == LongestMatch(a)
           T == { AddrBits - k.len : k \in matching }
<1>1. matching # {} /\ via \in table[longest]
  BY Zenon DEF Selected
<1>2. \A k \in matching : k \in Keys /\ Covers(k, a) /\ k.len \in 0 .. AddrBits
  BY HostIsLongest, Zenon DEF Matching
<1>3. \E k \in matching : Max(k)
  <2> HIDE DEF matching
  <2>1. T \in SUBSET Nat /\ T # {}
    BY <1>1, <1>2, AddrBitsAssumption
  <2>2. PICK n \in T : \A m \in T : n <= m
    BY <2>1, Least, Zenon
  <2>3. PICK k \in matching : n = AddrBits - k.len
    BY Zenon
  <2>4. \A o \in matching : AddrBits - k.len <= AddrBits - o.len
    BY <2>2, <2>3, Zenon
  <2>5. Max(k)
    BY <2>3, <2>4, <1>2, AddrBitsAssumption
  <2> QED
    BY <2>3, <2>5, Zenon
<1>4. longest \in matching /\ Max(longest)
  BY <1>3, Zenon DEF LongestMatch, Longest
<1> HIDE DEF longest
<1>5. ASSUME table[HostKey(a)] # {} PROVE longest = HostKey(a)
  <2>1. HostKey(a) \in matching
    BY <1>5, HostIsLongest, Zenon DEF Matching
  <2>2. HostKey(a).len <= longest.len
    BY <2>1, <1>4, Zenon
  <2>3. AddrBits <= longest.len
    BY <2>2, Zenon DEF HostKey
  <2> QED
    BY <2>3, <1>2, <1>4, HostIsLongest, Zenon
<1> QED
  BY <1>1, <1>2, <1>4, <1>5, Zenon DEF longest

-----------------------------------------------------------------------------
(* What each action does, in terms of the kinds of step.                   *)
Outcome(s) == TypeOK' /\ Others(s) /\ Residues /\ Progress(s)' /\ StepOf(s)

LEMMA RouteFacts ==
  ASSUME TypeOK, NEW s \in Sessions
  PROVE  /\ plan[s] \in Seq(Routes) /\ Len(plan[s]) \in Nat /\ upto[s] \in Nat /\ Hosts(s) \in Nat
         /\ \A j \in 1 .. Len(plan[s]) : /\ plan[s][j] \in Routes
                                         /\ plan[s][j].key \in Keys /\ plan[s][j].via \in Paths
<1>1. plan[s] \in Seq(Routes) /\ upto[s] \in Nat
  BY Zenon DEF TypeOK
<1>2. Len(plan[s]) \in Nat /\ \A j \in 1 .. Len(plan[s]) : plan[s][j] \in Routes
  BY <1>1
<1> QED
  BY <1>1, <1>2, EndpointFacts, Zenon DEF Routes

LEMMA GotoFacts ==
  ASSUME TypeOK, NEW s \in Sessions, NEW l \in States, Goto(s, l)
  PROVE  pc' \in [Sessions -> States] /\ pc'[s] = l /\ \A t \in Sessions \ {s} : pc'[t] = pc[t]
BY Zenon DEF TypeOK, Goto

LEMMA CleanUpFacts ==
  ASSUME TypeOK, NEW s \in Sessions, CleanUpAfter(s)
  PROVE  /\ pc' \in [Sessions -> States] /\ pc'[s] = "undo"
         /\ upto' \in [Sessions -> Nat] /\ upto'[s] = Len(plan[s])
         /\ \A t \in Sessions \ {s} : pc'[t] = pc[t] /\ upto'[t] = upto[t]
<1>1. pc' \in [Sessions -> States] /\ pc'[s] = "undo" /\ \A t \in Sessions \ {s} : pc'[t] = pc[t]
  BY GotoFacts, Zenon DEF CleanUpAfter, States
<1>2. Len(plan[s]) \in Nat
  BY RouteFacts, Zenon
<1>3. upto' \in [Sessions -> Nat] /\ upto'[s] = Len(plan[s]) /\ \A t \in Sessions \ {s} : upto'[t] = upto[t]
  BY <1>2, Zenon DEF CleanUpAfter, TypeOK
<1> QED
  BY <1>1, <1>3, Zenon

LEMMA AddedFacts ==
  ASSUME TypeOK, NEW s \in Sessions, Added(s)
  PROVE  /\ pc' \in [Sessions -> States] /\ pc'[s] \in {"endpoints", "routes"}
         /\ upto' \in [Sessions -> Nat] /\ upto'[s] = upto[s] + 1
         /\ pc'[s] = "endpoints" => upto'[s] < Hosts(s)
         /\ \A t \in Sessions \ {s} : pc'[t] = pc[t] /\ upto'[t] = upto[t]
<1> DEFINE l == Stage(s, upto[s] + 1)
<1>1. l \in {"endpoints", "routes"} /\ (l = "endpoints" => upto[s] + 1 < Hosts(s))
  BY Zenon DEF Stage, Hosts
<1>2. l \in States /\ Goto(s, l)
  BY <1>1, Zenon DEF Added, States
<1> HIDE DEF l
<1>3. pc' \in [Sessions -> States] /\ pc'[s] = l /\ \A t \in Sessions \ {s} : pc'[t] = pc[t]
  BY <1>2, GotoFacts, Zenon
<1>4. upto' \in [Sessions -> Nat] /\ upto'[s] = upto[s] + 1 /\ \A t \in Sessions \ {s} : upto'[t] = upto[t]
  BY DEF Added, TypeOK
<1> QED
  BY <1>1, <1>3, <1>4, Zenon

(* A session that is past its set-up, or back in it, with its plan.        *)
LEMMA ProgressFacts ==
  ASSUME NEW s \in Sessions, Planned(s), plan' = plan,
         pc'[s] \notin {"idle", "resolved", "closed", "gone"},
         upto'[s] <= Len(plan[s]),
         pc'[s] = "endpoints" => upto'[s] < Hosts(s),
         pc'[s] = "add" => upto'[s] < Len(plan[s])
  PROVE  Progress(s)'
<1>1. Planned(s)'
  BY Zenon DEF Planned, HostKeyOf, EndpointKeys, Hosts
<1> QED
  BY <1>1, Zenon DEF Progress, Hosts

LEMMA ResolveOutcome ==
  ASSUME TypeOK, NEW s \in Sessions, Progress(s), Resolve(s), windows' = windows
  PROVE  Outcome(s)
<1>1. PICK egress \in [DOMAIN Endpoints[s] -> Paths] :
        plan' = [plan EXCEPT ![s] =
                   [i \in DOMAIN Endpoints[s] |-> FromRoute(Endpoints[s][i], egress[i])]
                   \o FilteredRoutes(Allowed[s], Endpoints[s], s)]
  BY Zenon DEF Resolve
<1> DEFINE E == [i \in DOMAIN Endpoints[s] |-> FromRoute(Endpoints[s][i], egress[i])]
           F == FilteredRoutes(Allowed[s], Endpoints[s], s)
           P == E \o F
<1>2. Hosts(s) \in Nat /\ DOMAIN Endpoints[s] = 1 .. Hosts(s)
  BY EndpointFacts, Zenon
<1>3. \A i \in 1 .. Hosts(s) : E[i] \in Routes /\ E[i].key = HostKeyOf(s, i)
  BY <1>1, <1>2, EndpointFacts, HostIsLongest, Zenon DEF FromRoute, Routes, HostKeyOf
<1>4. E \in Seq(Routes) /\ Len(E) = Hosts(s)
  BY <1>2, <1>3
<1>5. /\ F \in Seq(Routes)
      /\ \A i \in 1 .. Len(F) : F[i].via = s /\ F[i].key \notin EndpointKeys(s)
  BY FilteredFacts, Zenon
<1> HIDE DEF E, F
<1>6. Len(F) \in Nat /\ P \in Seq(Routes) /\ Len(P) = Hosts(s) + Len(F)
  BY <1>2, <1>4, <1>5
<1>7. \A i \in 1 .. Hosts(s) : P[i] = E[i]
  BY <1>2, <1>4, <1>5
<1>8. \A i \in Hosts(s) + 1 .. Len(P) : P[i] = F[i - Hosts(s)] /\ i - Hosts(s) \in 1 .. Len(F)
  BY <1>2, <1>4, <1>5, <1>6
<1>9. plan' = [plan EXCEPT ![s] = P]
  BY <1>1, Zenon DEF E, F
<1> HIDE DEF P
<1>10. /\ plan' \in [Sessions -> Seq(Routes)] /\ plan'[s] = P
       /\ \A t \in Sessions \ {s} : plan'[t] = plan[t]
  BY <1>6, <1>9, Zenon DEF TypeOK
<1>11. Planned(s)'
  <2>1. Len(P) >= Hosts(s)
    BY <1>2, <1>6
  <2>2. \A i \in 1 .. Hosts(s) : P[i].key = HostKeyOf(s, i)
    BY <1>3, <1>7, Zenon
  <2>3. \A i \in Hosts(s) + 1 .. Len(P) : P[i].via = s /\ P[i].key \notin EndpointKeys(s)
    BY <1>5, <1>8, Zenon
  <2> QED
    BY <2>1, <2>2, <2>3, <1>10, Zenon DEF Planned, HostKeyOf, EndpointKeys, Hosts
<1>12. pc[s] = "idle" /\ plan[s] = <<>> /\ resolver[s] = {} /\ upto[s] = 0 /\ Goto(s, "resolved")
  BY Zenon DEF Resolve, Progress
<1>13. pc' \in [Sessions -> States] /\ pc'[s] = "resolved" /\ \A t \in Sessions \ {s} : pc'[t] = pc[t]
  BY <1>12, GotoFacts, Zenon DEF States
<1>16. UNCHANGED <<table, resolver, upto, faults, residue>>
  BY Zenon DEF Resolve
<1>17. TypeOK'
  BY <1>10, <1>13, <1>16, Zenon DEF TypeOK
<1>18. Progress(s)'
  BY <1>6, <1>10, <1>11, <1>12, <1>13, <1>16, <1>2 DEF Progress, Hosts
<1>19. Others(s) /\ Residues
  BY <1>10, <1>13, <1>16, Zenon DEF Others, Residues
<1>20. ResolveStep(s)
  BY <1>12, <1>13, <1>16, Zenon DEF ResolveStep
<1> QED
  BY <1>17, <1>18, <1>19, <1>20, Zenon DEF Outcome, StepOf

(* A set-up fails while there is no device.                                *)
LEMMA NoDeviceOutcome ==
  ASSUME TypeOK, NEW s \in Sessions, Progress(s), ResolveFail(s) \/ CreateFail(s), windows' = windows
  PROVE  Outcome(s)
<1>1. pc[s] \in {"idle", "resolved"} /\ Goto(s, "gone") /\ "gone" \in States
  BY Zenon DEF ResolveFail, CreateFail, States
<1>2. UNCHANGED <<table, resolver, plan, upto, residue>>
  BY Zenon DEF ResolveFail, CreateFail
<1>3. pc' \in [Sessions -> States] /\ pc'[s] = "gone" /\ \A t \in Sessions \ {s} : pc'[t] = pc[t]
  BY <1>1, GotoFacts, Zenon
<1>4. TypeOK'
  <2>1. faults' \in Nat
    BY DEF ResolveFail, CreateFail, Fault, TypeOK
  <2> QED
    BY <1>2, <1>3, <2>1, Zenon DEF TypeOK
<1>5. resolver[s] = {} /\ upto[s] = 0 /\ upto[s] <= Len(plan[s]) /\ (plan[s] # <<>> => Planned(s))
  BY <1>1, Zenon DEF Progress
<1>6. Progress(s)'
  <2>1. Planned(s) => Planned(s)'
    BY <1>2, Zenon DEF Planned, HostKeyOf, EndpointKeys, Hosts
  <2> QED
    BY <1>2, <1>3, <1>5, <2>1, Zenon DEF Progress
<1>7. Others(s) /\ Residues
  BY <1>2, <1>3, Zenon DEF Others, Residues
<1>8. QuietStep(s)
  BY <1>1, <1>2, <1>3, Zenon DEF QuietStep, SettingUp, NoDevice
<1> QED
  BY <1>4, <1>6, <1>7, <1>8, Zenon DEF Outcome, StepOf

LEMMA CreateDeviceOutcome ==
  ASSUME TypeOK, NEW s \in Sessions, Progress(s), CreateDevice(s), windows' = windows
  PROVE  Outcome(s)
<1>1. /\ pc[s] = "resolved" /\ UNCHANGED <<resolver, plan, upto, residue>>
      /\ table' = [k \in Keys |-> IF k \in Connected[s] THEN table[k] \cup {s} ELSE table[k]]
  BY Zenon DEF CreateDevice
<1>2. PICK l \in {"endpoints", "routes", "closed"} : Goto(s, l) /\ (l = "endpoints" => 0 < Hosts(s))
  <2>1. Stage(s, 0) \in {"endpoints", "routes"} /\ (Stage(s, 0) = "endpoints" => 0 < Hosts(s))
    BY Zenon DEF Stage, Hosts
  <2> QED
    BY <2>1, Zenon DEF CreateDevice
<1>3. l \in States
  BY Zenon DEF States
<1>4. pc' \in [Sessions -> States] /\ pc'[s] = l /\ \A t \in Sessions \ {s} : pc'[t] = pc[t]
  BY <1>2, <1>3, GotoFacts, Zenon
<1>5. TypeOK'
  <2>1. faults' \in Nat
    BY DEF CreateDevice, Fault, TypeOK
  <2>2. s \in Paths
    BY Zenon DEF Paths
  <2>3. table' \in [Keys -> SUBSET Paths]
    BY <1>1, <2>2, Zenon DEF TypeOK
  <2> QED
    BY <1>1, <1>4, <2>1, <2>3, Zenon DEF TypeOK
<1>6. resolver[s] = {} /\ upto[s] = 0 /\ upto[s] <= Len(plan[s]) /\ Planned(s)
  BY <1>1, Zenon DEF Progress
<1>7. Progress(s)'
  <2>1. Planned(s)'
    BY <1>1, <1>6, Zenon DEF Planned, HostKeyOf, EndpointKeys, Hosts
  <2> QED
    BY <1>1, <1>2, <1>4, <1>6, <2>1, Zenon DEF Progress, Hosts
<1>8. Others(s) /\ Residues
  BY <1>1, <1>4, Zenon DEF Others, Residues
<1>9. CreateStep(s)
  BY <1>1, <1>4, Zenon DEF CreateStep, NoDevice
<1> QED
  BY <1>5, <1>7, <1>8, <1>9, Zenon DEF Outcome, StepOf

(* A cleanup begins and the table stays as it is.                          *)
LEMMA CleanUpOutcome ==
  ASSUME TypeOK, NEW s \in Sessions, Planned(s), pc[s] \notin {"idle", "closed", "gone"},
         windows' = windows, table' = table, plan' = plan,
         resolver' \in [Sessions -> SUBSET Settings], faults' \in Nat,
         \A t \in Sessions \ {s} : resolver'[t] = resolver[t],
         CleanUpAfter(s), UNCHANGED residue
  PROVE  Outcome(s)
<1>1. /\ pc' \in [Sessions -> States] /\ pc'[s] = "undo"
      /\ upto' \in [Sessions -> Nat] /\ upto'[s] = Len(plan[s])
      /\ \A t \in Sessions \ {s} : pc'[t] = pc[t] /\ upto'[t] = upto[t]
  BY CleanUpFacts, Zenon
<1>2. Len(plan[s]) \in Nat
  BY RouteFacts, Zenon
<1>3. TypeOK'
  BY <1>1, Zenon DEF TypeOK
<1>4. Progress(s)'
  BY <1>1, <1>2, ProgressFacts
<1>5. Others(s) /\ Residues
  BY <1>1, Zenon DEF Others, Residues
<1>6. QuietStep(s)
  BY <1>1 DEF QuietStep, SettingUp, NoDevice
<1> QED
  BY <1>3, <1>4, <1>5, <1>6, Zenon DEF Outcome, StepOf

(* The next route is added, and set-up goes on or fails all the same.      *)
LEMMA AddOutcome ==
  ASSUME TypeOK, NEW s \in Sessions, Planned(s), pc[s] \in {"endpoints", "add"}, upto[s] < Len(plan[s]),
         NEW C, upto[s] >= Hosts(s) => C = {},
         table' = [table EXCEPT ![NextRoute(s).key] = (@ \ C) \cup {NextRoute(s).via}],
         Exists(NextRoute(s).via), Added(s) \/ CleanUpAfter(s),
         windows' = windows, faults' \in Nat, UNCHANGED <<resolver, plan, residue>>
  PROVE  Outcome(s)
<1> DEFINE r == NextRoute(s)
<1>1. /\ plan[s] \in Seq(Routes) /\ Len(plan[s]) \in Nat /\ upto[s] \in Nat /\ Hosts(s) \in Nat
      /\ \A j \in 1 .. Len(plan[s]) : plan[s][j].key \in Keys /\ plan[s][j].via \in Paths
  BY RouteFacts, Zenon
<1>2. r.key \in Keys /\ r.via \in Paths
  <2>1. upto[s] + 1 \in 1 .. Len(plan[s])
    BY <1>1
  <2> QED
    BY <2>1, <1>1, Zenon DEF NextRoute
<1> HIDE DEF r
<1>3. table' = [table EXCEPT ![r.key] = (@ \ C) \cup {r.via}]
  BY Zenon DEF r
<1>4. table \in [Keys -> SUBSET Paths]
  BY Zenon DEF TypeOK
<1>5. /\ table' \in [Keys -> SUBSET Paths]
      /\ table'[r.key] = (table[r.key] \ C) \cup {r.via}
      /\ \A k \in Keys : k # r.key => table'[k] = table[k]
  <2>1. (table[r.key] \ C) \cup {r.via} \in SUBSET Paths
    BY <1>2, <1>4, Zenon
  <2> QED
    BY <1>2, <1>3, <1>4, <2>1, Zenon
<1>6. /\ pc' \in [Sessions -> States] /\ pc'[s] \in {"endpoints", "routes", "undo"}
      /\ upto' \in [Sessions -> Nat] /\ upto'[s] >= upto[s] + 1 /\ upto'[s] <= Len(plan[s])
      /\ pc'[s] = "endpoints" => upto'[s] < Hosts(s)
      /\ pc'[s] \in {"endpoints", "routes"} => upto'[s] = upto[s] + 1
      /\ \A t \in Sessions \ {s} : pc'[t] = pc[t] /\ upto'[t] = upto[t]
  <2>1. CASE Added(s)
    BY <2>1, <1>1, AddedFacts
  <2>2. CASE CleanUpAfter(s)
    BY <2>2, <1>1, CleanUpFacts
  <2> QED
    BY <2>1, <2>2, Zenon
<1>7. TypeOK'
  BY <1>5, <1>6, Zenon DEF TypeOK
<1>8. Progress(s)'
  BY <1>6, ProgressFacts, Zenon
<1>9. Others(s) /\ Residues
  BY <1>6, Zenon DEF Others, Residues
<1>10. AddStep(s)
  BY <1>5, <1>6, Zenon DEF AddStep, r
<1> QED
  BY <1>7, <1>8, <1>9, <1>10, Zenon DEF Outcome, StepOf

LEMMA ReplaceOutcome ==
  ASSUME TypeOK, NEW s \in Sessions, Progress(s), Replace(s), windows' = windows
  PROVE  Outcome(s)
<1> DEFINE r == NextRoute(s)
           C == Conflicts(r.key, r.via)
           replaced == [table EXCEPT ![r.key] = (@ \ C) \cup {r.via}]
<1>1. pc[s] = "endpoints" /\ UNCHANGED <<resolver, plan, residue>>
  BY Zenon DEF Replace
<1>2. \/ Exists(r.via) /\ table' = replaced /\ Added(s) /\ UNCHANGED faults
      \/ ~ Exists(r.via) /\ CleanUpAfter(s) /\ UNCHANGED <<table, faults>>
      \/ Fault /\ CleanUpAfter(s) /\ (UNCHANGED table \/ (Exists(r.via) /\ table' = replaced))
  BY Zenon DEF Replace
<1>3. Planned(s) /\ upto[s] < Hosts(s)
  BY <1>1, Zenon DEF Progress
<1>4. Len(plan[s]) \in Nat /\ upto[s] \in Nat /\ Hosts(s) \in Nat /\ Hosts(s) <= Len(plan[s])
  BY <1>3, RouteFacts, Zenon DEF Planned
<1>5. upto[s] < Len(plan[s]) /\ ~ (upto[s] >= Hosts(s))
  BY <1>3, <1>4
<1>6. faults' \in Nat
  BY <1>2 DEF Fault, TypeOK
<1>7. CASE Exists(r.via) /\ table' = replaced /\ (Added(s) \/ CleanUpAfter(s))
  <2>1. table' = [table EXCEPT ![NextRoute(s).key] = (@ \ C) \cup {NextRoute(s).via}] /\ Exists(NextRoute(s).via)
    BY <1>7, Zenon
  <2> HIDE DEF C
  <2> QED
    BY <2>1, <1>1, <1>3, <1>5, <1>6, <1>7, AddOutcome, Zenon
<1>8. CASE UNCHANGED table /\ CleanUpAfter(s)
  <2>1. resolver \in [Sessions -> SUBSET Settings]
    BY Zenon DEF TypeOK
  <2> QED
    BY <2>1, <1>1, <1>3, <1>6, <1>8, CleanUpOutcome, Zenon
<1> QED
  BY <1>2, <1>7, <1>8, Zenon

LEMMA AddRouteOutcome ==
  ASSUME TypeOK, NEW s \in Sessions, Progress(s), AddRoute(s), windows' = windows
  PROVE  Outcome(s)
<1> DEFINE r == NextRoute(s)
           possible == Conflicts(r.key, r.via) = {} /\ Exists(r.via)
<1>1. pc[s] = "add" /\ UNCHANGED <<resolver, plan, residue>>
  BY Zenon DEF AddRoute
<1>2. \/ possible /\ table' = With(r.key, r.via) /\ Added(s) /\ UNCHANGED faults
      \/ ~ possible /\ CleanUpAfter(s) /\ UNCHANGED <<table, faults>>
      \/ Fault /\ CleanUpAfter(s) /\ (UNCHANGED table \/ (possible /\ table' = With(r.key, r.via)))
  BY Zenon DEF AddRoute
<1>3. Planned(s) /\ upto[s] < Len(plan[s])
  BY <1>1, Zenon DEF Progress
<1>4. faults' \in Nat
  BY <1>2 DEF Fault, TypeOK
<1>5. CASE possible /\ table' = With(r.key, r.via) /\ (Added(s) \/ CleanUpAfter(s))
  <2>1. table' = [table EXCEPT ![NextRoute(s).key] = (@ \ {}) \cup {NextRoute(s).via}] /\ Exists(NextRoute(s).via)
    BY <1>5, Zenon DEF With
  <2> QED
    BY <2>1, <1>1, <1>3, <1>4, <1>5, AddOutcome, Zenon
<1>6. CASE UNCHANGED table /\ CleanUpAfter(s)
  <2>1. resolver \in [Sessions -> SUBSET Settings]
    BY Zenon DEF TypeOK
  <2> QED
    BY <2>1, <1>1, <1>3, <1>4, <1>6, CleanUpOutcome, Zenon
<1> QED
  BY <1>2, <1>5, <1>6, Zenon

LEMMA WithoutType ==
  ASSUME TypeOK, NEW s \in Sessions, NEW j \in 1 .. Len(plan[s])
  PROVE  Without(plan[s][j].key, plan[s][j].via) \in [Keys -> SUBSET Paths]
<1>1. plan[s][j].key \in Keys
  BY RouteFacts, Zenon
<1> QED
  BY <1>1, Zenon DEF TypeOK, Without

LEMMA PreDeleteOutcome ==
  ASSUME TypeOK, NEW s \in Sessions, Progress(s), PreDelete(s), windows' = windows
  PROVE  Outcome(s)
<1> DEFINE r == NextRoute(s)
<1>1. /\ pc[s] \in {"endpoints", "routes"} /\ Goto(s, "add")
      /\ pc[s] = "endpoints" \/ upto[s] < Len(plan[s])
      /\ UNCHANGED <<resolver, plan, upto, residue>>
  BY Zenon DEF PreDelete
<1>2. \/ table' = Without(r.key, r.via) /\ UNCHANGED faults
      \/ Fault /\ UNCHANGED table
  BY Zenon DEF PreDelete
<1>3. Planned(s)
  BY <1>1, Zenon DEF Progress
<1>4. Len(plan[s]) \in Nat /\ upto[s] \in Nat /\ Hosts(s) \in Nat /\ Hosts(s) <= Len(plan[s])
  BY <1>3, RouteFacts, Zenon DEF Planned
<1>5. upto[s] < Len(plan[s]) /\ upto[s] + 1 \in 1 .. Len(plan[s])
  <2>1. pc[s] = "endpoints" => upto[s] < Hosts(s)
    BY Zenon DEF Progress
  <2> QED
    BY <2>1, <1>1, <1>4
<1>6. pc' \in [Sessions -> States] /\ pc'[s] = "add" /\ \A t \in Sessions \ {s} : pc'[t] = pc[t]
  BY <1>1, GotoFacts, Zenon DEF States
<1>7. faults' \in Nat
  BY <1>2 DEF Fault, TypeOK
<1>8. Without(r.key, r.via) \in [Keys -> SUBSET Paths]
  BY <1>5, WithoutType, Zenon DEF NextRoute
<1>9. TypeOK'
  BY <1>1, <1>2, <1>6, <1>7, <1>8, Zenon DEF TypeOK
<1>10. Progress(s)'
  BY <1>1, <1>3, <1>4, <1>5, <1>6, ProgressFacts
<1>11. Others(s) /\ Residues
  BY <1>1, <1>6, Zenon DEF Others, Residues
<1>12. CASE table' = Without(r.key, r.via)
  <2>1. PreDeleteStep(s)
    BY <1>1, <1>5, <1>6, <1>12, Zenon DEF PreDeleteStep, Deleted, NextRoute, NoDevice
  <2> QED
    BY <2>1, <1>9, <1>10, <1>11, Zenon DEF Outcome, StepOf
<1>13. CASE UNCHANGED table
  <2>1. QuietStep(s)
    BY <1>1, <1>6, <1>13, Zenon DEF QuietStep, SettingUp, NoDevice
  <2> QED
    BY <2>1, <1>9, <1>10, <1>11, Zenon DEF Outcome, StepOf
<1> QED
  BY <1>2, <1>12, <1>13, Zenon

LEMMA CommandOutcome ==
  ASSUME TypeOK, NEW s \in Sessions, Planned(s), pc[s] \in {"routes", "servers", "domains"}, upto[s] <= Len(plan[s]),
         NEW done \in SUBSET Settings, NEW next \in {"servers", "domains", "up"},
         Command(s, done, next), windows' = windows, UNCHANGED <<table, plan, residue>>
  PROVE  Outcome(s)
<1>1. resolver \in [Sessions -> SUBSET Settings]
  BY Zenon DEF TypeOK
<1>2. CASE resolver' = [resolver EXCEPT ![s] = done] /\ Goto(s, next) /\ UNCHANGED <<upto, faults>>
  <2>1. resolver' \in [Sessions -> SUBSET Settings] /\ \A t \in Sessions \ {s} : resolver'[t] = resolver[t]
    BY <1>1, <1>2, Zenon
  <2>2. pc' \in [Sessions -> States] /\ pc'[s] = next /\ \A t \in Sessions \ {s} : pc'[t] = pc[t]
    BY <1>2, GotoFacts, Zenon DEF States
  <2>3. TypeOK'
    BY <1>2, <2>1, <2>2, Zenon DEF TypeOK
  <2>4. Progress(s)'
    BY <1>2, <2>2, ProgressFacts, Zenon
  <2>5. Others(s) /\ Residues
    BY <1>2, <2>1, <2>2, Zenon DEF Others, Residues
  <2>6. QuietStep(s)
    BY <1>2, <2>2, Zenon DEF QuietStep, SettingUp, NoDevice
  <2> QED
    BY <2>3, <2>4, <2>5, <2>6, Zenon DEF Outcome, StepOf
<1>3. ASSUME Fault, CleanUpAfter(s), NEW some \in SUBSET (resolver[s] \cup done),
             resolver' = [resolver EXCEPT ![s] = some]
      PROVE  Outcome(s)
  <2>1. resolver' \in [Sessions -> SUBSET Settings] /\ \A t \in Sessions \ {s} : resolver'[t] = resolver[t]
    BY <1>1, <1>3, Zenon
  <2>2. faults' \in Nat
    BY <1>3 DEF Fault, TypeOK
  <2> QED
    BY <2>1, <2>2, <1>3, CleanUpOutcome, Zenon
<1> QED
  BY <1>2, <1>3, Zenon DEF Command

LEMMA ResolverOutcome ==
  ASSUME TypeOK, NEW s \in Sessions, Progress(s), Revert(s) \/ SetRules(s) \/ SetServers(s) \/ SetDomains(s), windows' = windows
  PROVE  Outcome(s)
<1>1. pc[s] \in {"routes", "servers", "domains"} /\ UNCHANGED <<table, plan, residue>>
  BY Zenon DEF Revert, SetRules, SetServers, SetDomains
<1>2. Planned(s) /\ upto[s] <= Len(plan[s])
  BY <1>1, Zenon DEF Progress
<1>3. \E done \in SUBSET Settings : \E next \in {"servers", "domains", "up"} : Command(s, done, next)
  <2>1. {} \in SUBSET Settings /\ {"servers"} \in SUBSET Settings /\ Settings \in SUBSET Settings
    BY Zenon DEF Settings
  <2>2. CASE Revert(s)
    <3>1. Command(s, {}, "servers") \/ Command(s, {}, "up")
      BY <2>2, Zenon DEF Revert
    <3> QED
      BY <2>1, <3>1, Zenon
  <2>3. CASE SetServers(s)
    BY <2>1, <2>3, Zenon DEF SetServers
  <2>4. CASE SetRules(s)
    BY <2>1, <2>4, Zenon DEF SetRules
  <2>5. CASE SetDomains(s)
    BY <2>1, <2>5, Zenon DEF SetDomains
  <2> QED
    BY <2>2, <2>3, <2>4, <2>5, Zenon
<1> QED
  BY <1>1, <1>2, <1>3, CommandOutcome, Zenon

LEMMA CloseOutcome ==
  ASSUME TypeOK, NEW s \in Sessions, Progress(s), Close(s), windows' = windows
  PROVE  Outcome(s)
<1>1. pc[s] = "up" /\ CleanUpAfter(s) /\ UNCHANGED <<table, resolver, plan, faults, residue>>
  BY Zenon DEF Close
<1>2. Planned(s)
  BY <1>1, Zenon DEF Progress
<1>3. resolver \in [Sessions -> SUBSET Settings] /\ faults \in Nat
  BY Zenon DEF TypeOK
<1> QED
  BY <1>1, <1>2, <1>3, CleanUpOutcome, Zenon

LEMMA UndoRouteOutcome ==
  ASSUME TypeOK, NEW s \in Sessions, Progress(s), UndoRoute(s), windows' = windows
  PROVE  Outcome(s)
<1> DEFINE r == plan[s][upto[s]]
<1>1. /\ pc[s] = "undo" /\ upto[s] > 0 /\ upto' = [upto EXCEPT ![s] = @ - 1]
      /\ UNCHANGED <<resolver, pc, plan>>
  BY Zenon DEF UndoRoute
<1>2. \/ table' = Without(r.key, r.via) /\ UNCHANGED <<faults, residue>>
      \/ Fault /\ residue' = [residue EXCEPT !.routes = @ \cup {<<s, r.key>>}] /\ UNCHANGED table
  BY Zenon DEF UndoRoute
<1>3. Planned(s) /\ upto[s] <= Len(plan[s])
  BY <1>1, Zenon DEF Progress
<1>4. Len(plan[s]) \in Nat /\ upto[s] \in Nat /\ Hosts(s) \in Nat /\ upto[s] \in 1 .. Len(plan[s])
  BY <1>1, <1>3, RouteFacts
<1>5. r.key \in Keys /\ Without(r.key, r.via) \in [Keys -> SUBSET Paths]
  BY <1>4, RouteFacts, WithoutType, Zenon
<1>6. upto' \in [Sessions -> Nat] /\ upto'[s] = upto[s] - 1 /\ \A t \in Sessions \ {s} : upto'[t] = upto[t]
  BY <1>1, <1>4 DEF TypeOK
<1>7. Progress(s)'
  BY <1>1, <1>3, <1>4, <1>6, ProgressFacts
<1> HIDE DEF r
<1>8. CASE table' = Without(r.key, r.via) /\ UNCHANGED <<faults, residue>>
  <2>1. TypeOK'
    BY <1>1, <1>5, <1>6, <1>8, Zenon DEF TypeOK
  <2>2. Others(s) /\ Residues
    BY <1>1, <1>6, <1>8, Zenon DEF Others, Residues
  <2>3. UndoStep(s)
    BY <1>1, <1>6, <1>8, Zenon DEF UndoStep, Deleted, NoDevice, r
  <2> QED
    BY <2>1, <2>2, <2>3, <1>7, Zenon DEF Outcome, StepOf
<1>9. CASE Fault /\ residue' = [residue EXCEPT !.routes = @ \cup {<<s, r.key>>}] /\ UNCHANGED table
  <2>1. residue \in [routes : SUBSET (Sessions \X Keys), dns : SUBSET Sessions] /\ <<s, r.key>> \in Sessions \X Keys
    BY <1>5, Zenon DEF TypeOK
  <2>2. /\ residue' \in [routes : SUBSET (Sessions \X Keys), dns : SUBSET Sessions]
        /\ residue'.routes = residue.routes \cup {<<s, r.key>>} /\ residue'.dns = residue.dns
    BY <2>1, <1>9, Zenon
  <2>3. faults' \in Nat
    BY <1>9 DEF Fault, TypeOK
  <2>4. TypeOK'
    BY <1>1, <1>6, <1>9, <2>2, <2>3, Zenon DEF TypeOK
  <2>5. Others(s) /\ Residues
    BY <1>1, <1>6, <2>2, Zenon DEF Others, Residues
  <2>6. \A j \in 1 .. Len(plan[s]) : j <= upto[s] => j <= upto'[s] \/ j = upto[s]
    BY <1>4, <1>6
  <2>7. <<s, plan[s][upto[s]].key>> \in residue'.routes
    BY <2>2, Zenon DEF r
  <2>8. QuietStep(s)
    BY <1>1, <1>9, <2>6, <2>7, Zenon DEF QuietStep, SettingUp, NoDevice
  <2> QED
    BY <2>4, <2>5, <2>8, <1>7, Zenon DEF Outcome, StepOf
<1> QED
  BY <1>2, <1>8, <1>9, Zenon

LEMMA NoManagerOutcome ==
  ASSUME TypeOK, NEW s \in Sessions, Progress(s), NoManager(s), windows' = windows
  PROVE  Outcome(s)
<1> DEFINE lost == { <<s, plan[s][i].key>> : i \in Hosts(s) + 1 .. Len(plan[s]) }
<1>1. /\ pc[s] = "undo" /\ upto[s] = Len(plan[s]) /\ upto[s] > Hosts(s) /\ Fault
      /\ upto' = [upto EXCEPT ![s] = Hosts(s)]
      /\ residue' = [residue EXCEPT !.routes = @ \cup lost]
      /\ UNCHANGED <<table, resolver, pc, plan>>
  BY Zenon DEF NoManager, Hosts
<1>2. Planned(s)
  BY <1>1, Zenon DEF Progress
<1>3. /\ Len(plan[s]) \in Nat /\ upto[s] \in Nat /\ Hosts(s) \in Nat
      /\ \A j \in 1 .. Len(plan[s]) : plan[s][j].key \in Keys
  BY RouteFacts, Zenon
<1>4. upto' \in [Sessions -> Nat] /\ upto'[s] = Hosts(s) /\ \A t \in Sessions \ {s} : upto'[t] = upto[t]
  BY <1>1, <1>3, Zenon DEF TypeOK
<1>5. lost \in SUBSET (Sessions \X Keys)
  BY <1>3
<1>6. \A j \in 1 .. Len(plan[s]) : j <= Hosts(s) \/ <<s, plan[s][j].key>> \in lost
  BY <1>3
<1> HIDE DEF lost
<1>7. residue \in [routes : SUBSET (Sessions \X Keys), dns : SUBSET Sessions]
  BY Zenon DEF TypeOK
<1>8. /\ residue' \in [routes : SUBSET (Sessions \X Keys), dns : SUBSET Sessions]
      /\ residue'.routes = residue.routes \cup lost /\ residue'.dns = residue.dns
  BY <1>1, <1>5, <1>7, Zenon
<1>9. faults' \in Nat
  BY <1>1 DEF Fault, TypeOK
<1>10. TypeOK'
  BY <1>1, <1>4, <1>8, <1>9, Zenon DEF TypeOK
<1>11. Progress(s)'
  BY <1>1, <1>2, <1>3, <1>4, ProgressFacts
<1>12. Others(s) /\ Residues
  BY <1>1, <1>4, <1>8, Zenon DEF Others, Residues
<1>13. QuietStep(s)
  BY <1>1, <1>4, <1>6, <1>8, Zenon DEF QuietStep, SettingUp, NoDevice
<1> QED
  BY <1>10, <1>11, <1>12, <1>13, Zenon DEF Outcome, StepOf

LEMMA TearDownOutcome ==
  ASSUME TypeOK, NEW s \in Sessions, Progress(s), TearDown(s), windows' = windows
  PROVE  Outcome(s)
<1>1. pc[s] = "undo" /\ upto[s] = 0 /\ Goto(s, "closed") /\ UNCHANGED <<table, plan, upto>>
  BY Zenon DEF TearDown
<1>2. pc' \in [Sessions -> States] /\ pc'[s] = "closed" /\ \A t \in Sessions \ {s} : pc'[t] = pc[t]
  BY <1>1, GotoFacts, Zenon DEF States
<1>3. /\ resolver \in [Sessions -> SUBSET Settings]
      /\ residue \in [routes : SUBSET (Sessions \X Keys), dns : SUBSET Sessions]
  BY Zenon DEF TypeOK
<1>4. /\ resolver' \in [Sessions -> SUBSET Settings] /\ \A t \in Sessions \ {s} : resolver'[t] = resolver[t]
      /\ residue' \in [routes : SUBSET (Sessions \X Keys), dns : SUBSET Sessions] /\ Residues
      /\ resolver'[s] = {} \/ s \in residue'.dns
      /\ faults' \in Nat
  <2>1. CASE resolver' = [resolver EXCEPT ![s] = {}] /\ UNCHANGED <<faults, residue>>
    BY <2>1, <1>3, Zenon DEF TypeOK, Residues
  <2>2. ASSUME Fault, NEW some \in SUBSET resolver[s], resolver' = [resolver EXCEPT ![s] = some],
               residue' = [residue EXCEPT !.dns = @ \cup {s}]
        PROVE  <1>4!1 /\ <1>4!2 /\ <1>4!3 /\ <1>4!4
    <3>1. resolver' \in [Sessions -> SUBSET Settings] /\ \A t \in Sessions \ {s} : resolver'[t] = resolver[t]
      BY <2>2, <1>3, Zenon
    <3>2. /\ residue' \in [routes : SUBSET (Sessions \X Keys), dns : SUBSET Sessions]
          /\ residue'.routes = residue.routes /\ residue'.dns = residue.dns \cup {s}
      BY <2>2, <1>3, Zenon
    <3>3. faults' \in Nat
      BY <2>2 DEF Fault, TypeOK
    <3> QED
      BY <3>1, <3>2, <3>3, Zenon DEF Residues
  <2> QED
    BY <2>1, <2>2, Zenon DEF TearDown
<1>5. TypeOK'
  BY <1>1, <1>2, <1>4, Zenon DEF TypeOK
<1>6. Planned(s)
  BY <1>1, Zenon DEF Progress
<1>7. Planned(s)' /\ Len(plan[s]) \in Nat
  BY <1>1, <1>6, RouteFacts, Zenon DEF Planned, HostKeyOf, EndpointKeys, Hosts
<1>8. Progress(s)'
  BY <1>1, <1>2, <1>4, <1>7, Zenon DEF Progress
<1>9. Others(s)
  BY <1>1, <1>2, <1>4, Zenon DEF Others
<1>10. QuietStep(s)
  BY <1>1, <1>2, Zenon DEF QuietStep, SettingUp, NoDevice
<1> QED
  BY <1>4, <1>5, <1>8, <1>9, <1>10, Zenon DEF Outcome, StepOf

LEMMA DropDeviceOutcome ==
  ASSUME TypeOK, NEW s \in Sessions, Progress(s), DropDevice(s), windows' = windows
  PROVE  Outcome(s)
<1>1. /\ pc[s] = "closed" /\ Goto(s, "gone") /\ table' = [k \in Keys |-> table[k] \ {s}]
      /\ UNCHANGED <<resolver, plan, upto, faults, residue>>
  BY Zenon DEF DropDevice
<1>2. pc' \in [Sessions -> States] /\ pc'[s] = "gone" /\ \A t \in Sessions \ {s} : pc'[t] = pc[t]
  BY <1>1, GotoFacts, Zenon DEF States
<1>3. table' \in [Keys -> SUBSET Paths]
  BY <1>1, Zenon DEF TypeOK
<1>4. TypeOK'
  BY <1>1, <1>2, <1>3, Zenon DEF TypeOK
<1>5. Planned(s)' /\ upto[s] <= Len(plan[s]) /\ upto[s] = 0 /\ (resolver[s] = {} \/ s \in residue.dns)
  BY <1>1, Zenon DEF Progress, Planned, HostKeyOf, EndpointKeys, Hosts
<1>6. Progress(s)'
  BY <1>1, <1>2, <1>5, Zenon DEF Progress
<1>7. Others(s) /\ Residues
  BY <1>1, <1>2, Zenon DEF Others, Residues
<1>8. DropStep(s)
  BY <1>1, <1>2, Zenon DEF DropStep
<1> QED
  BY <1>4, <1>6, <1>7, <1>8, Zenon DEF Outcome, StepOf

(* Every step is one of some session, or changes nothing.                  *)
LEMMA StepOutcome ==
  ASSUME TypeOK, \A s \in Sessions : Progress(s), Next
  PROVE  (\E s \in Sessions : Outcome(s)) \/ UNCHANGED vars
<1>1. CASE Terminated
  BY <1>1, Zenon DEF Terminated
<1>2. ASSUME NEW s \in Sessions, windows' = windows, Resolve(s) \/ SetUp(s) \/ Close(s) \/ CleanUp(s)
      PROVE  Outcome(s)
  <2>1. Progress(s)
    BY Zenon
  <2>2. CASE Resolve(s)
    BY <1>2, <2>1, <2>2, ResolveOutcome, Zenon
  <2>3. CASE SetUp(s)
    BY <1>2, <2>1, <2>3, NoDeviceOutcome, CreateDeviceOutcome, ReplaceOutcome, PreDeleteOutcome, AddRouteOutcome,
       ResolverOutcome, Zenon DEF SetUp
  <2>4. CASE Close(s)
    BY <1>2, <2>1, <2>4, CloseOutcome, Zenon
  <2>5. CASE CleanUp(s)
    BY <1>2, <2>1, <2>5, UndoRouteOutcome, NoManagerOutcome, TearDownOutcome, DropDeviceOutcome, Zenon DEF CleanUp
  <2> QED
    BY <1>2, <2>2, <2>3, <2>4, <2>5, Zenon
<1> QED
  BY <1>1, <1>2, Zenon DEF Next

-----------------------------------------------------------------------------
(* Each kind of step keeps the entries accounted for.                      *)
LEMMA AccountedStep ==
  ASSUME Accounted, Residues,
         \A k \in Keys : \A via \in table'[k] \ table[k] : Local(k, via) \/
           \E t \in Sessions : \E j \in 1 .. Len(plan'[t]) :
             plan'[t][j] = [key |-> k, via |-> via] /\ j <= upto'[t],
         \A t \in Sessions : \A j \in 1 .. Len(plan[t]) :
           /\ j \in 1 .. Len(plan'[t]) /\ plan'[t][j] = plan[t][j]
           /\ j <= upto[t] => \/ j <= upto'[t] \/ <<t, plan[t][j].key>> \in residue'.routes
                              \/ plan[t][j].via \notin table'[plan[t][j].key]
  PROVE  Accounted'
<1> SUFFICES ASSUME NEW k \in Keys, NEW via \in table'[k] \ Start[k]
             PROVE  Local(k, via) \/
                    \E t \in Sessions : \E j \in 1 .. Len(plan'[t]) :
                      /\ plan'[t][j] = [key |-> k, via |-> via]
                      /\ j <= upto'[t] \/ <<t, k>> \in residue'.routes
  BY Zenon DEF Accounted, Local
<1> SUFFICES ASSUME ~ Local(k, via)
             PROVE  \E t \in Sessions : \E j \in 1 .. Len(plan'[t]) :
                      /\ plan'[t][j] = [key |-> k, via |-> via]
                      /\ j <= upto'[t] \/ <<t, k>> \in residue'.routes
  BY Zenon
<1>1. CASE via \notin table[k]
  <2>1. via \in table'[k] \ table[k]
    BY <1>1, Zenon
  <2>2. PICK t \in Sessions : \E j \in 1 .. Len(plan'[t]) : plan'[t][j] = [key |-> k, via |-> via] /\ j <= upto'[t]
    BY <2>1
  <2> QED
    BY <2>2, Zenon
<1>2. CASE via \in table[k]
  <2>1. PICK t \in Sessions : \E j \in 1 .. Len(plan[t]) :
          /\ plan[t][j] = [key |-> k, via |-> via]
          /\ j <= upto[t] \/ <<t, k>> \in residue.routes
    BY <1>2, ZenonT(40) DEF Accounted
  <2>2. PICK j \in 1 .. Len(plan[t]) :
          /\ plan[t][j] = [key |-> k, via |-> via]
          /\ j <= upto[t] \/ <<t, k>> \in residue.routes
    BY <2>1, Zenon
  <2>3. plan[t][j].key = k /\ plan[t][j].via = via
    BY <2>2
  <2>4. j \in 1 .. Len(plan'[t]) /\ plan'[t][j] = [key |-> k, via |-> via]
    BY <2>2, Zenon
  <2>5. j <= upto'[t] \/ <<t, k>> \in residue'.routes
    <3>1. CASE <<t, k>> \in residue.routes
      BY <3>1, Zenon DEF Residues
    <3>2. CASE j <= upto[t]
      BY <3>2, <2>3, Zenon
    <3> QED
      BY <2>2, <3>1, <3>2, Zenon
  <2> QED
    BY <2>4, <2>5, Zenon
<1> QED
  BY <1>1, <1>2, Zenon

(* What a step of the session does to the entries of a prefix.             *)
LEMMA RouteOfStep ==
  ASSUME TypeOK, NEW s \in Sessions, NEW j \in 1 .. Len(plan[s]), Deleted(s, j)
  PROVE  /\ plan[s][j].key \in Keys
         /\ table'[plan[s][j].key] = table[plan[s][j].key] \ {plan[s][j].via}
         /\ \A k \in Keys : k # plan[s][j].key => table'[k] = table[k]
         /\ \A k \in Keys : table'[k] \subseteq table[k]
<1>1. plan[s][j].key \in Keys
  BY RouteFacts, Zenon
<1>2. table \in [Keys -> SUBSET Paths]
  BY Zenon DEF TypeOK
<1> QED
  BY <1>1, <1>2, Zenon DEF Deleted, Without

(* The route of a set-up step is one of the plan.                          *)
LEMMA NextRouteFacts ==
  ASSUME TypeOK, NEW s \in Sessions, Progress(s), pc[s] \in {"endpoints", "add"}
  PROVE  /\ Planned(s) /\ upto[s] + 1 \in 1 .. Len(plan[s])
         /\ NextRoute(s) = plan[s][upto[s] + 1]
         /\ NextRoute(s) = [key |-> NextRoute(s).key, via |-> NextRoute(s).via]
         /\ NextRoute(s).key \in Keys /\ NextRoute(s).via \in Paths
         /\ upto[s] + 1 \in 1 .. Hosts(s) => NextRoute(s).key = HostKeyOf(s, upto[s] + 1)
         /\ ~ (upto[s] + 1 \in 1 .. Hosts(s)) =>
              upto[s] >= Hosts(s) /\ NextRoute(s).via = s /\ NextRoute(s).key \notin EndpointKeys(s)
<1>1. Planned(s)
  BY Zenon DEF Progress
<1>2. /\ Len(plan[s]) \in Nat /\ upto[s] \in Nat /\ Hosts(s) \in Nat
      /\ \A j \in 1 .. Len(plan[s]) : plan[s][j] \in Routes
  BY RouteFacts, Zenon
<1>3. upto[s] < Len(plan[s])
  <2>1. CASE pc[s] = "add"
    BY <2>1, Zenon DEF Progress
  <2>2. CASE pc[s] = "endpoints"
    BY <2>2, <1>1, <1>2 DEF Progress, Planned
  <2> QED
    BY <2>1, <2>2, Zenon
<1>4. upto[s] + 1 \in 1 .. Len(plan[s])
  BY <1>2, <1>3
<1>5. NextRoute(s) = plan[s][upto[s] + 1] /\ NextRoute(s) \in Routes
  BY <1>2, <1>4, Zenon DEF NextRoute
<1>6. /\ NextRoute(s) = [key |-> NextRoute(s).key, via |-> NextRoute(s).via]
      /\ NextRoute(s).key \in Keys /\ NextRoute(s).via \in Paths
  BY <1>5, Zenon DEF Routes
<1>7. upto[s] + 1 \in 1 .. Hosts(s) => NextRoute(s).key = HostKeyOf(s, upto[s] + 1)
  BY <1>1, <1>5, Zenon DEF Planned
<1>8. ~ (upto[s] + 1 \in 1 .. Hosts(s)) => upto[s] >= Hosts(s) /\ upto[s] + 1 \in Hosts(s) + 1 .. Len(plan[s])
  BY <1>2, <1>4
<1>9. ~ (upto[s] + 1 \in 1 .. Hosts(s)) =>
        upto[s] >= Hosts(s) /\ NextRoute(s).via = s /\ NextRoute(s).key \notin EndpointKeys(s)
  BY <1>1, <1>5, <1>8, Zenon DEF Planned
<1> QED
  BY <1>1, <1>4, <1>5, <1>6, <1>7, <1>9, Zenon

LEMMA AccountedKept ==
  ASSUME RestoreInv, NEW s \in Sessions, TypeOK', Others(s), Residues, StepOf(s)
  PROVE  Accounted'
<1>1. TypeOK /\ Accounted /\ Progress(s)
  BY Zenon DEF RestoreInv
<1> DEFINE News == \A k \in Keys : \A via \in table'[k] \ table[k] : Local(k, via) \/
                     \E t \in Sessions : \E j \in 1 .. Len(plan'[t]) :
                       plan'[t][j] = [key |-> k, via |-> via] /\ j <= upto'[t]
           Olds(t) == \A j \in 1 .. Len(plan[t]) :
                        /\ j \in 1 .. Len(plan'[t]) /\ plan'[t][j] = plan[t][j]
                        /\ j <= upto[t] => \/ j <= upto'[t] \/ <<t, plan[t][j].key>> \in residue'.routes
                                           \/ plan[t][j].via \notin table'[plan[t][j].key]
<1>2. \A t \in Sessions \ {s} : Olds(t)
  BY Zenon DEF Others
<1>3. SUFFICES News /\ Olds(s)
  <2>1. \A t \in Sessions : Olds(t)
    BY <1>2, <1>3, Zenon
  <2> QED
    BY <2>1, <1>1, <1>3, AccountedStep, Zenon
<1>4. Len(plan[s]) \in Nat /\ upto[s] \in Nat /\ upto'[s] \in Nat
  BY <1>1, RouteFacts, Zenon DEF TypeOK
<1>5. CASE QuietStep(s)
  BY <1>5, Zenon DEF QuietStep, SettingUp, NoDevice
<1>6. CASE ResolveStep(s)
  BY <1>6 DEF ResolveStep
<1>11. CASE CreateStep(s)
  <2>1. News
    BY <1>11, Zenon DEF CreateStep, Local
  <2> QED
    BY <2>1, <1>11, Zenon DEF CreateStep
<1>7. CASE AddStep(s)
  <2>1. pc[s] \in {"endpoints", "add"} /\ plan' = plan
    BY <1>7, Zenon DEF AddStep
  <2>2. /\ upto[s] + 1 \in 1 .. Len(plan[s]) /\ NextRoute(s) = plan[s][upto[s] + 1]
        /\ NextRoute(s) = [key |-> NextRoute(s).key, via |-> NextRoute(s).via]
    BY <1>1, <2>1, NextRouteFacts, Zenon
  <2>3. upto[s] + 1 <= upto'[s]
    BY <1>7, Zenon DEF AddStep
  <2>4. ASSUME NEW k \in Keys, NEW via \in table'[k] \ table[k]
        PROVE  k = NextRoute(s).key /\ via = NextRoute(s).via
    BY <1>7, Zenon DEF AddStep
  <2>5. ASSUME NEW k \in Keys, NEW via \in table'[k] \ table[k]
        PROVE  plan'[s][upto[s] + 1] = [key |-> k, via |-> via]
    BY <2>1, <2>2, <2>4, Zenon
  <2>6. News
    BY <2>1, <2>2, <2>3, <2>5, Zenon
  <2>7. \A j \in 1 .. Len(plan[s]) : j <= upto[s] => j <= upto'[s]
    BY <2>3, <1>4
  <2>8. Olds(s)
    BY <2>1, <2>7, Zenon
  <2> QED
    BY <2>6, <2>8, Zenon
<1>8. CASE PreDeleteStep(s)
  <2>1. Deleted(s, upto[s] + 1) /\ upto[s] + 1 \in 1 .. Len(plan[s]) /\ plan' = plan /\ upto' = upto
    BY <1>4, <1>8 DEF PreDeleteStep, Deleted
  <2>2. \A k \in Keys : table'[k] \subseteq table[k]
    BY <1>1, <2>1, RouteOfStep, Zenon
  <2> QED
    BY <2>1, <2>2, Zenon
<1>9. CASE UndoStep(s)
  <2>1. Deleted(s, upto[s]) /\ plan' = plan /\ upto'[s] = upto[s] - 1 /\ upto[s] > 0
    BY <1>9, Zenon DEF UndoStep, Deleted
  <2>2. upto[s] \in 1 .. Len(plan[s])
    BY <2>1, <1>1, <1>4 DEF Progress
  <2>3. /\ plan[s][upto[s]].via \notin table'[plan[s][upto[s]].key]
        /\ \A k \in Keys : table'[k] \subseteq table[k]
    BY <1>1, <2>1, <2>2, RouteOfStep
  <2>4. \A j \in 1 .. Len(plan[s]) : j <= upto[s] => j <= upto'[s] \/ j = upto[s]
    BY <1>4, <2>1
  <2>5. News
    BY <2>3, Zenon
  <2>6. Olds(s)
    BY <2>1, <2>3, <2>4, Zenon
  <2> QED
    BY <2>5, <2>6, Zenon
<1>10. CASE DropStep(s)
  BY <1>10, Zenon DEF DropStep
<1> QED
  BY <1>5, <1>6, <1>7, <1>8, <1>9, <1>10, <1>11, Zenon DEF StepOf

(* No step takes an entry of others to a prefix that is no endpoint's, and *)
(* an interface that is not there has no entries.                          *)
LEMMA KeptAndPresent ==
  ASSUME RestoreInv, NEW s \in Sessions, Others(s), StepOf(s)
  PROVE  Kept' /\ Present'
<1>1. TypeOK /\ Progress(s) /\ Kept /\ Present
  BY Zenon DEF RestoreInv
<1>2. Len(plan[s]) \in Nat /\ upto[s] \in Nat /\ Hosts(s) \in Nat
  BY <1>1, RouteFacts, Zenon
<1>3. SUFFICES /\ \A k \in Keys : NoEndpoint(k) => table[k] \ Sessions \subseteq table'[k]
               /\ \A t \in Sessions : pc'[t] \in NoDevice => \A k \in Keys : t \notin table'[k]
  <2>1. Kept'
    <3>1. \A k \in Keys : Start[k] \cap Sessions = {}
      BY PlatformRoutesAssumption, Zenon
    <3>2. ASSUME NEW k \in Keys, NoEndpoint(k) PROVE Start[k] \subseteq table'[k]
      BY <3>1, <3>2, <1>1, <1>3, Zenon DEF Kept
    <3> QED
      BY <3>2, Zenon DEF Kept, NoEndpoint, EndpointKeys
  <2> QED
    BY <2>1, <1>3, Zenon DEF Present
<1>4. CASE QuietStep(s)
  BY <1>1, <1>4, Zenon DEF QuietStep, SettingUp, NoDevice, Present, Others
<1>5. CASE ResolveStep(s)
  BY <1>1, <1>5, Zenon DEF ResolveStep, Present, Others, NoDevice
<1>11. CASE CreateStep(s)
  <2>1. \A k \in Keys : table[k] \subseteq table'[k] /\ table'[k] \subseteq table[k] \cup {s}
    BY <1>11, Zenon DEF CreateStep
  <2>2. pc'[s] \notin NoDevice
    BY <1>11, Zenon DEF CreateStep
  <2> QED
    BY <2>1, <2>2, <1>1, Zenon DEF Present, Others
<1>6. CASE AddStep(s)
  <2> DEFINE r == NextRoute(s)
  <2>1. /\ pc[s] \in {"endpoints", "add"} /\ Exists(r.via)
        /\ \A k \in Keys : k # r.key => table'[k] = table[k]
        /\ table'[r.key] \subseteq table[r.key] \cup {r.via}
        /\ upto[s] >= Hosts(s) => table[r.key] \subseteq table'[r.key]
        /\ pc'[s] \notin NoDevice
    BY <1>6, Zenon DEF AddStep, NoDevice
  <2>2. /\ upto[s] + 1 \in 1 .. Hosts(s) => r.key = HostKeyOf(s, upto[s] + 1)
        /\ ~ (upto[s] + 1 \in 1 .. Hosts(s)) => upto[s] >= Hosts(s)
    BY <1>1, <2>1, NextRouteFacts, Zenon
  <2> HIDE DEF r
  <2>3. ASSUME NEW k \in Keys, NoEndpoint(k) PROVE table[k] \subseteq table'[k]
    <3>1. CASE k # r.key
      BY <3>1, <2>1, Zenon
    <3>2. CASE k = r.key /\ upto[s] + 1 \in 1 .. Hosts(s)
      BY <2>2, <2>3, <3>2, EndpointFacts, Zenon DEF NoEndpoint
    <3>3. CASE k = r.key /\ upto[s] >= Hosts(s)
      BY <2>1, <3>3, Zenon
    <3> QED
      BY <2>2, <3>1, <3>2, <3>3, Zenon
  <2>4. ASSUME NEW t \in Sessions, pc'[t] \in NoDevice, NEW k \in Keys PROVE t \notin table'[k]
    <3>1. pc[t] \in NoDevice /\ t # s
      BY <2>1, <2>4, Zenon DEF Others
    <3>2. t \notin table[k] /\ t # r.via
      BY <1>1, <2>1, <3>1, Zenon DEF Present, Exists
    <3> QED
      BY <2>1, <3>2, Zenon
  <2> QED
    BY <2>3, <2>4, Zenon
<1>7. ASSUME NEW j \in 1 .. Len(plan[s]), Deleted(s, j), Planned(s)
      PROVE  /\ \A k \in Keys : NoEndpoint(k) => table[k] \ Sessions \subseteq table'[k]
             /\ \A t \in Sessions : pc'[t] \in NoDevice => \A k \in Keys : t \notin table'[k]
  <2>1. /\ plan[s][j].key \in Keys
        /\ table'[plan[s][j].key] = table[plan[s][j].key] \ {plan[s][j].via}
        /\ \A k \in Keys : k # plan[s][j].key => table'[k] = table[k]
        /\ \A k \in Keys : table'[k] \subseteq table[k]
    BY <1>1, <1>7, RouteOfStep, Zenon
  <2>2. ASSUME NEW k \in Keys, NoEndpoint(k) PROVE table[k] \ Sessions \subseteq table'[k]
    <3>1. CASE k # plan[s][j].key
      BY <3>1, <2>1, Zenon
    <3>2. CASE k = plan[s][j].key /\ j \in 1 .. Hosts(s)
      BY <1>7, <2>2, <3>2, EndpointFacts, Zenon DEF NoEndpoint, Planned
    <3>3. CASE k = plan[s][j].key /\ j \in Hosts(s) + 1 .. Len(plan[s])
      <4>1. plan[s][j].via = s
        BY <1>7, <3>3, Zenon DEF Planned
      <4> QED
        BY <4>1, <2>1, <3>3, Zenon
    <3> QED
      BY <1>2, <3>1, <3>2, <3>3
  <2>3. pc'[s] \notin NoDevice
    BY <1>7, Zenon DEF Deleted
  <2>4. \A t \in Sessions : pc'[t] \in NoDevice => \A k \in Keys : t \notin table'[k]
    BY <1>1, <2>1, <2>3, Zenon DEF Present, Others
  <2> QED
    BY <2>2, <2>4, Zenon
<1>8. CASE PreDeleteStep(s)
  <2>1. Deleted(s, upto[s] + 1) /\ upto[s] + 1 \in 1 .. Len(plan[s]) /\ Planned(s)
    BY <1>1, <1>2, <1>8 DEF PreDeleteStep, Progress
  <2> QED
    BY <2>1, <1>7, Zenon
<1>9. CASE UndoStep(s)
  <2>1. Deleted(s, upto[s]) /\ upto[s] \in 1 .. Len(plan[s]) /\ Planned(s)
    BY <1>1, <1>2, <1>9 DEF UndoStep, Progress
  <2> QED
    BY <2>1, <1>7, Zenon
<1>10. CASE DropStep(s)
  <2>1. \A k \in Keys : table'[k] = table[k] \ {s}
    BY <1>10, Zenon DEF DropStep
  <2> QED
    BY <2>1, <1>1, <1>10, Zenon DEF DropStep, Present, Others, NoDevice
<1> QED
  BY <1>4, <1>5, <1>6, <1>8, <1>9, <1>10, <1>11, Zenon DEF StepOf

LEMMA ProgressOthers ==
  ASSUME NEW s \in Sessions, Others(s), Residues, NEW t \in Sessions \ {s}, Progress(t)
  PROVE  Progress(t)'
<1>1. pc'[t] = pc[t] /\ upto'[t] = upto[t] /\ plan'[t] = plan[t] /\ resolver'[t] = resolver[t]
  BY Zenon DEF Others
<1>2. Planned(t) => Planned(t)'
  BY <1>1, Zenon DEF Planned, HostKeyOf, EndpointKeys, Hosts
<1> QED
  BY <1>1, <1>2, Zenon DEF Progress, Hosts, Residues

(* The initial states, and that every step keeps the invariant.            *)
LEMMA RestoreInvInit ==
  Init => RestoreInv
<1> SUFFICES ASSUME Init PROVE RestoreInv
  BY Zenon
<1>1. \A k \in Keys : Start[k] \subseteq Paths /\ Start[k] \cap Sessions = {}
  BY PlatformRoutesAssumption, Zenon DEF Paths
<1>2. Start \in [Keys -> SUBSET Paths]
  BY <1>1, PlatformRoutesAssumption, Zenon
<1>3. TypeOK
  BY <1>2 DEF Init, TypeOK, States
<1>4. \A s \in Sessions : Progress(s)
  BY DEF Init, Progress
<1>5. Accounted /\ Kept
  BY Zenon DEF Init, Accounted, Kept, Local
<1>6. Present
  BY <1>1, Zenon DEF Init, Present, NoDevice
<1> QED
  BY <1>3, <1>4, <1>5, <1>6, Zenon DEF RestoreInv

LEMMA RestoreInvStep ==
  RestoreInv /\ [Next]_vars => RestoreInv'
<1> SUFFICES ASSUME RestoreInv, [Next]_vars PROVE RestoreInv'
  BY Zenon
<1>1. CASE UNCHANGED vars
  <2>1. /\ windows' = windows /\ table' = table /\ resolver' = resolver /\ pc' = pc
        /\ plan' = plan /\ upto' = upto /\ faults' = faults /\ residue' = residue
    BY <1>1, Zenon DEF vars
  <2>2. TypeOK'
    BY <2>1, Zenon DEF RestoreInv, TypeOK
  <2>3. \A s \in Sessions : Progress(s)'
    <3>1. ASSUME NEW s \in Sessions PROVE Progress(s)'
      BY <2>1, Zenon DEF RestoreInv, Progress, Planned, HostKeyOf, EndpointKeys, Hosts
    <3> QED
      BY <3>1, Zenon
  <2>4. Accounted'
    BY <2>1, Zenon DEF RestoreInv, Accounted, Local
  <2>5. Kept' /\ Present'
    BY <2>1, Zenon DEF RestoreInv, Kept, NoEndpoint, EndpointKeys, Present
  <2> QED
    BY <2>2, <2>3, <2>4, <2>5, Zenon DEF RestoreInv
<1>2. ASSUME NEW s \in Sessions, Outcome(s) PROVE RestoreInv'
  <2>1. TypeOK' /\ Others(s) /\ Residues /\ Progress(s)' /\ StepOf(s)
    BY <1>2, Zenon DEF Outcome
  <2>2. \A t \in Sessions : Progress(t)'
    BY <2>1, ProgressOthers, Zenon DEF RestoreInv
  <2>3. Accounted'
    BY <2>1, AccountedKept, Zenon
  <2>4. Kept' /\ Present'
    BY <2>1, KeptAndPresent, Zenon
  <2> QED
    BY <2>1, <2>2, <2>3, <2>4, Zenon DEF RestoreInv
<1>3. CASE Next
  BY <1>1, <1>2, <1>3, StepOutcome, Zenon DEF RestoreInv
<1> QED
  BY <1>1, <1>3, Zenon

-----------------------------------------------------------------------------
(* What sessions plan only grows, so endpoints do not become a session's   *)
(* own again.                                                              *)
LEMMA OwnBefore ==
  ASSUME TypeOK, NEW s \in Sessions, Others(s), plan' = plan \/ plan[s] = <<>>,
         NEW u \in Sessions, OwnEndpoints(u)'
  PROVE  OwnEndpoints(u)
<1>1. CASE plan' = plan
  BY <1>1, Zenon DEF OwnEndpoints, EndpointKeys
<1>2. CASE plan[s] = <<>> /\ u = s
  BY <1>2 DEF OwnEndpoints
<1>3. CASE plan[s] = <<>> /\ u # s
  <2>1. plan'[u] = plan[u] /\ \A t \in Sessions \ {s} : plan'[t] = plan[t]
    BY <1>3, Zenon DEF Others
  <2>2. DOMAIN plan[s] = {}
    BY <1>3
  <2>3. ASSUME NEW i \in 1 .. Len(plan[u]), plan[u][i].key \in EndpointKeys(u)
        PROVE  /\ plan[u][i].via \notin Sessions
               /\ \A t \in Sessions \ {u} : \A j \in DOMAIN plan'[t] : plan'[t][j].key # plan[u][i].key
    <3>1. EndpointKeys(u)' = EndpointKeys(u)
      BY Zenon DEF EndpointKeys
    <3>2. \A n \in 1 .. Len(plan[u]) : plan[u][n].key \in EndpointKeys(u) =>
            /\ plan[u][n].via \notin Sessions
            /\ \A t \in Sessions \ {u} : \A j \in DOMAIN plan'[t] : plan'[t][j].key # plan[u][n].key
      BY <2>1, <3>1, SMT DEF OwnEndpoints
    <3> QED
      BY <2>3, <3>2, Zenon
  <2>4. ASSUME NEW i \in 1 .. Len(plan[u]), plan[u][i].key \in EndpointKeys(u),
               NEW t \in Sessions \ {u}, NEW j \in DOMAIN plan[t]
        PROVE  plan[t][j].key # plan[u][i].key
    <3>1. t # s
      BY <2>2, <2>4, Zenon
    <3>2. plan'[t] = plan[t]
      BY <3>1, <2>1, Zenon
    <3> QED
      BY <3>2, <2>3, <2>4, Zenon
  <2> QED
    BY <2>3, <2>4, Zenon DEF OwnEndpoints
<1> QED
  BY <1>1, <1>2, <1>3, Zenon

(* No step of another session touches the routes to its own endpoints.     *)
LEMMA OthersKeepDirect ==
  ASSUME RestoreInv, NEW s \in Sessions, StepOf(s),
         NEW u \in Sessions \ {s}, OwnEndpoints(u), Planned(u), NEW i \in 1 .. Hosts(u), Direct(u, i)
  PROVE  Direct(u, i)'
<1> DEFINE h == HostKeyOf(u, i)
<1>1. TypeOK /\ Progress(s)
  BY Zenon DEF RestoreInv
<1>2. \A j \in 1 .. Len(plan[s]) : plan[s][j].key # h
  BY <1>1, OwnFacts, Zenon
<1>3. h \in Keys
  BY EndpointFacts, HostIsLongest, Zenon DEF HostKeyOf
<1>4. Len(plan[s]) \in Nat /\ upto[s] \in Nat
  BY <1>1, RouteFacts, Zenon
<1>5. table[h] \ Sessions # {}
  BY Zenon DEF Direct
<1> HIDE DEF h
<1>6. SUFFICES table[h] \ Sessions \subseteq table'[h]
  BY <1>5, <1>6, Zenon DEF Direct, HostKeyOf, h
<1>7. CASE QuietStep(s) \/ ResolveStep(s)
  BY <1>7, Zenon DEF QuietStep, ResolveStep
<1>12. CASE CreateStep(s)
  BY <1>3, <1>12, Zenon DEF CreateStep
<1>8. CASE AddStep(s)
  <2>1. pc[s] \in {"endpoints", "add"}
    BY <1>8, Zenon DEF AddStep
  <2>2. upto[s] + 1 \in 1 .. Len(plan[s]) /\ NextRoute(s) = plan[s][upto[s] + 1]
    BY <1>1, <2>1, NextRouteFacts, Zenon
  <2>3. NextRoute(s).key # h
    BY <1>2, <2>2, Zenon
  <2> QED
    BY <2>3, <1>3, <1>8, Zenon DEF AddStep
<1>9. CASE PreDeleteStep(s)
  <2>1. Deleted(s, upto[s] + 1) /\ upto[s] + 1 \in 1 .. Len(plan[s])
    BY <1>4, <1>9 DEF PreDeleteStep
  <2> QED
    BY <2>1, <1>1, <1>2, <1>3, RouteOfStep
<1>10. CASE UndoStep(s)
  <2>1. Deleted(s, upto[s]) /\ upto[s] \in 1 .. Len(plan[s])
    BY <1>1, <1>4, <1>10 DEF UndoStep, Progress
  <2> QED
    BY <2>1, <1>1, <1>2, <1>3, RouteOfStep
<1>11. CASE DropStep(s)
  BY <1>3, <1>11, Zenon DEF DropStep
<1> QED
  BY <1>7, <1>8, <1>9, <1>10, <1>11, <1>12, Zenon DEF StepOf

(* A TUN route of the session itself leaves its endpoint routes alone.     *)
LEMMA TunKeepsDirect ==
  ASSUME RestoreInv, NEW s \in Sessions, Planned(s), NEW k \in Keys, k \notin EndpointKeys(s),
         \A o \in Keys : o # k => table'[o] = table[o],
         NEW i \in 1 .. Hosts(s), Direct(s, i)
  PROVE  Direct(s, i)'
<1>1. HostKeyOf(s, i) \in Keys
  BY EndpointFacts, HostIsLongest, Zenon DEF HostKeyOf
<1>2. HostKeyOf(s, i) # k
  BY EndpointFacts, Zenon
<1> QED
  BY <1>1, <1>2, Zenon DEF Direct, HostKeyOf

LEMMA HostedKept ==
  ASSUME LoopInv, NEW s \in Sessions, TypeOK', Others(s), StepOf(s), NEW u \in Sessions
  PROVE  Hosted(u)'
<1> SUFFICES ASSUME pc'[u] \in SettingUp, OwnEndpoints(u)',
                    NEW i \in 1 .. Hosts(u), i <= upto'[u]
             PROVE  Direct(u, i)' \/ (pc'[u] = "add" /\ NextRoute(u)'.key = HostKeyOf(u, i))
  BY Zenon DEF Hosted, Hosts, HostKeyOf
<1>1. RestoreInv /\ TypeOK /\ Progress(s) /\ Progress(u) /\ Hosted(u)
  BY Zenon DEF LoopInv, RestoreInv
<1>2. OwnEndpoints(u)
  <2>1. plan' = plan \/ plan[s] = <<>>
    BY Zenon DEF StepOf, QuietStep, ResolveStep, CreateStep, AddStep, PreDeleteStep, UndoStep, DropStep, Deleted
  <2> QED
    BY <2>1, <1>1, OwnBefore, Zenon
<1>3. upto[s] \in Nat /\ upto[u] \in Nat /\ upto'[s] \in Nat /\ Len(plan[s]) \in Nat /\ Hosts(s) \in Nat
      /\ Hosts(u) \in Nat
  BY <1>1, RouteFacts, Zenon DEF TypeOK
<1>4. CASE u # s
  <2>1. pc'[u] = pc[u] /\ upto'[u] = upto[u] /\ plan'[u] = plan[u]
    BY <1>4, Zenon DEF Others
  <2>2. Planned(u)
    BY <2>1, <1>1, Zenon DEF Progress, SettingUp
  <2>3. Direct(u, i) => Direct(u, i)'
    BY <2>2, <1>1, <1>2, <1>4, OthersKeepDirect, Zenon
  <2>4. Direct(u, i) \/ (pc[u] = "add" /\ NextRoute(u).key = HostKeyOf(u, i))
    BY <2>1, <1>1, <1>2, Zenon DEF Hosted
  <2>5. NextRoute(u)' = NextRoute(u)
    BY <2>1, Zenon DEF NextRoute
  <2> QED
    BY <2>1, <2>3, <2>4, <2>5, Zenon
<1>5. CASE u = s /\ QuietStep(s)
  <2>1. table' = table /\ pc[s] \in SettingUp \ {"add"} /\ upto'[s] = upto[s]
    BY <1>5, Zenon DEF QuietStep
  <2>2. Direct(s, i)
    BY <2>1, <1>1, <1>2, <1>5, Zenon DEF Hosted
  <2> QED
    BY <2>1, <2>2, <1>5, Zenon DEF Direct, HostKeyOf
<1>6. CASE u = s /\ (ResolveStep(s) \/ CreateStep(s))
  <2>1. upto'[s] = 0
    BY <1>1, <1>6, Zenon DEF ResolveStep, CreateStep, Progress
  <2> QED
    BY <2>1, <1>3, <1>6
<1>7. CASE u = s /\ AddStep(s)
  <2>1. /\ pc[s] \in {"endpoints", "add"} /\ upto'[s] = upto[s] + 1
        /\ \A k \in Keys : k # NextRoute(s).key => table'[k] = table[k]
        /\ NextRoute(s).via \in table'[NextRoute(s).key]
    BY <1>7, Zenon DEF AddStep, SettingUp
  <2>2. /\ Planned(s) /\ NextRoute(s) = plan[s][upto[s] + 1] /\ NextRoute(s).key \in Keys
        /\ upto[s] + 1 \in 1 .. Hosts(s) => NextRoute(s).key = HostKeyOf(s, upto[s] + 1)
        /\ ~ (upto[s] + 1 \in 1 .. Hosts(s)) => NextRoute(s).key \notin EndpointKeys(s)
    BY <2>1, <1>1, NextRouteFacts, Zenon
  <2>3. HostKeyOf(s, i) \in Keys /\ HostKeyOf(s, i) \in EndpointKeys(s)
    BY <1>7, EndpointFacts, HostIsLongest, Zenon DEF HostKeyOf
  <2>4. CASE HostKeyOf(s, i) = NextRoute(s).key
    <3>1. upto[s] + 1 \in 1 .. Hosts(s)
      BY <2>2, <2>3, <2>4, Zenon
    <3>2. NextRoute(s).via \notin Sessions
      BY <3>1, <2>2, <1>1, <1>2, <1>7, OwnFacts, Zenon
    <3> QED
      BY <2>1, <2>4, <3>2, <1>7, Zenon DEF Direct, HostKeyOf
  <2>5. CASE HostKeyOf(s, i) # NextRoute(s).key
    <3>1. i # upto[s] + 1
      BY <2>2, <2>5, <1>7, Zenon
    <3>2. i <= upto[s]
      BY <3>1, <2>1, <1>3, <1>7
    <3>3. Direct(s, i)
      BY <3>2, <2>1, <2>5, <1>1, <1>2, <1>7, Zenon DEF Hosted, SettingUp
    <3> QED
      BY <3>3, <2>1, <2>3, <2>5, <1>7, Zenon DEF Direct, HostKeyOf
  <2> QED
    BY <2>4, <2>5, Zenon
<1>8. CASE u = s /\ PreDeleteStep(s)
  <2>1. /\ Deleted(s, upto[s] + 1) /\ upto[s] + 1 \in 1 .. Len(plan[s]) /\ upto'[s] = upto[s]
        /\ pc[s] \in {"endpoints", "routes"} /\ pc'[s] = "add" /\ plan' = plan
    BY <1>3, <1>8 DEF PreDeleteStep, Deleted
  <2>2. \A k \in Keys : k # plan[s][upto[s] + 1].key => table'[k] = table[k]
    BY <2>1, <1>1, RouteOfStep, Zenon
  <2>3. Direct(s, i)
    BY <2>1, <1>1, <1>2, <1>8, Zenon DEF Hosted, SettingUp
  <2>4. NextRoute(s)' = plan[s][upto[s] + 1]
    BY <2>1, Zenon DEF NextRoute
  <2>5. HostKeyOf(s, i) \in Keys
    BY <1>8, EndpointFacts, HostIsLongest, Zenon DEF HostKeyOf
  <2>6. CASE HostKeyOf(s, i) = plan[s][upto[s] + 1].key
    BY <2>1, <2>4, <2>6, <1>8, Zenon
  <2>7. CASE HostKeyOf(s, i) # plan[s][upto[s] + 1].key
    BY <2>2, <2>3, <2>5, <2>7, <1>8, Zenon DEF Direct, HostKeyOf
  <2> QED
    BY <2>6, <2>7, Zenon
<1>9. CASE u = s /\ (UndoStep(s) \/ DropStep(s))
  BY <1>9, Zenon DEF UndoStep, DropStep, SettingUp
<1> QED
  BY <1>4, <1>5, <1>6, <1>7, <1>8, <1>9, Zenon DEF StepOf

LEMMA GuardedKept ==
  ASSUME LoopInv, NEW s \in Sessions, TypeOK', Others(s), Residues, StepOf(s), NEW u \in Sessions
  PROVE  Guarded(u)'
<1> SUFFICES ASSUME OwnEndpoints(u)', NoResidue(u)', Captured(u)', NEW n \in 1 .. Hosts(u)
             PROVE  Direct(u, n)'
  BY Zenon DEF Guarded, Hosts
<1>1. RestoreInv /\ TypeOK /\ Progress(s) /\ Progress(u) /\ Hosted(u) /\ Guarded(u) /\ Present
  BY Zenon DEF LoopInv, RestoreInv
<1>2. OwnEndpoints(u) /\ NoResidue(u)
  <2>1. plan' = plan \/ plan[s] = <<>>
    BY Zenon DEF StepOf, QuietStep, ResolveStep, CreateStep, AddStep, PreDeleteStep, UndoStep, DropStep, Deleted
  <2>2. NoResidue(u)
    BY Zenon DEF NoResidue, Residues
  <2> QED
    BY <2>1, <2>2, <1>1, OwnBefore, Zenon
<1>3. PICK k \in Keys \ Connected[u] : \E i \in 1 .. Hosts(u) : Covers(k, Endpoints[u][i]) /\ u \in table'[k]
  BY Zenon DEF Captured, Hosts, Covers
<1>4. PICK i \in 1 .. Hosts(u) : Covers(k, Endpoints[u][i]) /\ u \in table'[k]
  BY <1>3, Zenon
<1>5. upto[s] \in Nat /\ Len(plan[s]) \in Nat /\ Hosts(s) \in Nat
  BY <1>1, RouteFacts, Zenon
<1>6. CASE u \in table[k]
  <2>1. Planned(u) /\ upto[u] > Hosts(u)
    BY <1>1, <1>2, <1>4, <1>6, CapturedByTun, Zenon
  <2>2. Direct(u, n)
    BY <1>1, <1>2, <1>4, <1>6, Zenon DEF Guarded, Captured
  <2>3. CASE u # s
    BY <2>1, <2>2, <2>3, <1>1, <1>2, OthersKeepDirect, Zenon
  <2>4. CASE u = s /\ (QuietStep(s) \/ ResolveStep(s))
    <3>1. table' = table
      BY <2>4, Zenon DEF QuietStep, ResolveStep
    <3> QED
      BY <3>1, <2>2, Zenon DEF Direct, HostKeyOf
  <2>5. CASE u = s /\ AddStep(s)
    <3>1. pc[s] \in {"endpoints", "add"} /\ \A o \in Keys : o # NextRoute(s).key => table'[o] = table[o]
      BY <2>5, Zenon DEF AddStep
    <3>2. ~ (upto[s] + 1 \in 1 .. Hosts(s))
      BY <2>1, <2>5, <1>5
    <3>3. NextRoute(s).key \in Keys /\ NextRoute(s).key \notin EndpointKeys(s)
      BY <3>1, <3>2, <1>1, NextRouteFacts, Zenon
    <3> QED
      BY <2>1, <2>2, <2>5, <3>1, <3>3, <1>1, TunKeepsDirect, Zenon
  <2>6. ASSUME u = s, NEW j \in 1 .. Len(plan[s]), Deleted(s, j), j > Hosts(s) PROVE Direct(u, n)'
    <3>1. plan[s][j].key \in Keys /\ \A o \in Keys : o # plan[s][j].key => table'[o] = table[o]
      BY <2>6, <1>1, RouteOfStep, Zenon
    <3>2. j \in Hosts(s) + 1 .. Len(plan[s])
      BY <2>6, <1>5
    <3>3. plan[s][j].key \notin EndpointKeys(s)
      BY <3>2, <2>1, <2>6, Zenon DEF Planned
    <3> QED
      BY <2>1, <2>2, <2>6, <3>1, <3>3, <1>1, TunKeepsDirect, Zenon
  <2>7. CASE u = s /\ PreDeleteStep(s)
    <3>1. Deleted(s, upto[s] + 1) /\ upto[s] + 1 \in 1 .. Len(plan[s]) /\ upto[s] + 1 > Hosts(s)
      BY <2>1, <2>7, <1>5 DEF PreDeleteStep
    <3> QED
      BY <2>6, <2>7, <3>1, Zenon
  <2>8. CASE u = s /\ UndoStep(s)
    <3>1. Deleted(s, upto[s]) /\ upto[s] \in 1 .. Len(plan[s]) /\ upto[s] > Hosts(s)
      BY <2>1, <2>8, <1>1, <1>5 DEF UndoStep, Progress
    <3> QED
      BY <2>6, <2>8, <3>1, Zenon
  <2>9. CASE u = s /\ (DropStep(s) \/ CreateStep(s))
    BY <1>1, <2>1, <2>9, <1>5 DEF DropStep, CreateStep, Progress
  <2> QED
    BY <2>3, <2>4, <2>5, <2>7, <2>8, <2>9, Zenon DEF StepOf
<1>7. CASE u \notin table[k]
  <2>1. AddStep(s)
    <3>1. CASE QuietStep(s) \/ ResolveStep(s)
      BY <3>1, <1>4, <1>7, Zenon DEF QuietStep, ResolveStep
    <3>5. CASE CreateStep(s)
      BY <3>5, <1>4, <1>7, Zenon DEF CreateStep
    <3>2. CASE PreDeleteStep(s)
      <4>1. Deleted(s, upto[s] + 1) /\ upto[s] + 1 \in 1 .. Len(plan[s])
        BY <3>2, <1>5 DEF PreDeleteStep
      <4> QED
        BY <4>1, <1>1, <1>4, <1>7, RouteOfStep, Zenon
    <3>3. CASE UndoStep(s)
      <4>1. Deleted(s, upto[s]) /\ upto[s] \in 1 .. Len(plan[s])
        BY <3>3, <1>1, <1>5 DEF UndoStep, Progress
      <4> QED
        BY <4>1, <1>1, <1>4, <1>7, RouteOfStep, Zenon
    <3>4. CASE DropStep(s)
      BY <3>4, <1>4, <1>7, Zenon DEF DropStep
    <3> QED
      BY <3>1, <3>2, <3>3, <3>4, <3>5, Zenon DEF StepOf
  <2>2. /\ pc[s] \in {"endpoints", "add"} /\ Exists(NextRoute(s).via)
        /\ \A o \in Keys : o # NextRoute(s).key => table'[o] = table[o]
        /\ table'[NextRoute(s).key] \subseteq table[NextRoute(s).key] \cup {NextRoute(s).via}
    BY <2>1, Zenon DEF AddStep
  <2>3. k = NextRoute(s).key /\ u = NextRoute(s).via
    BY <2>2, <1>4, <1>7, Zenon
  <2>4. pc[u] \notin {"idle", "gone"} /\ Planned(u)
    BY <2>2, <2>3, <1>1, Zenon DEF Exists, Progress, NoDevice
  <2>5. /\ upto[s] + 1 \in 1 .. Len(plan[s]) /\ NextRoute(s) = plan[s][upto[s] + 1]
        /\ upto[s] + 1 \in 1 .. Hosts(s) => NextRoute(s).key = HostKeyOf(s, upto[s] + 1)
        /\ ~ (upto[s] + 1 \in 1 .. Hosts(s)) =>
             upto[s] >= Hosts(s) /\ NextRoute(s).via = s /\ NextRoute(s).key \notin EndpointKeys(s)
    BY <2>2, <1>1, NextRouteFacts, Zenon
  <2>6. CASE u = s
    <3>1. \A j \in 1 .. Hosts(s) : plan[s][j].via \notin Sessions
      BY <2>4, <2>6, <1>1, <1>2, OwnFacts, Zenon
    <3>2. ~ (upto[s] + 1 \in 1 .. Hosts(s))
      BY <3>1, <2>3, <2>5, <2>6, Zenon
    <3>3. upto[s] >= Hosts(s) /\ k \notin EndpointKeys(s)
      BY <3>2, <2>3, <2>5, Zenon
    <3>4. n <= upto[s] /\ HostKeyOf(s, n) # k
      BY <3>3, <2>6, <1>5, EndpointFacts
    <3>5. Direct(s, n)
      BY <3>4, <2>2, <2>3, <2>6, <1>1, <1>2, Zenon DEF Hosted, SettingUp
    <3> QED
      BY <3>3, <3>5, <2>2, <2>3, <2>4, <2>6, <1>1, TunKeepsDirect, Zenon
  <2>7. CASE u # s
    <3>1. upto[s] + 1 \in 1 .. Hosts(s) /\ k = HostKeyOf(s, upto[s] + 1)
      BY <2>3, <2>5, <2>7, Zenon
    <3>2. Endpoints[s][upto[s] + 1] \in Addresses /\ Endpoints[u][i] \in Addresses
      BY <3>1, EndpointFacts, Zenon
    <3>3. Endpoints[s][upto[s] + 1] = Endpoints[u][i]
      BY <3>1, <3>2, <1>4, HostIsLongest, Zenon DEF HostKeyOf
    <3>4. plan[s][upto[s] + 1].key = HostKeyOf(u, i)
      BY <3>1, <3>3, <2>3, <2>5, Zenon DEF HostKeyOf
    <3>5. plan[s][upto[s] + 1].key # HostKeyOf(u, i)
      BY <2>4, <2>5, <2>7, <1>1, <1>2, OwnFacts, Zenon
    <3> QED
      BY <3>4, <3>5, Zenon
  <2> QED
    BY <2>6, <2>7, Zenon
<1> QED
  BY <1>6, <1>7, Zenon

LEMMA LoopInvImplies ==
  LoopInv => EndpointNeverLoops
<1> SUFFICES ASSUME LoopInv, NEW s \in Sessions, OwnEndpoints(s), NoResidue(s), NEW i \in 1 .. Hosts(s),
                    s \in Selected(Endpoints[s][i]), HostKeyOf(s, i) \notin Connected[s]
             PROVE  ~ Sheltered(s) /\ LongestMatch(Endpoints[s][i]) \in Connected[s]
  BY EndpointFacts, Zenon DEF EndpointNeverLoops, NoResidue, HostKeyOf
<1> DEFINE k == LongestMatch(Endpoints[s][i])
<1>1. Endpoints[s][i] \in Addresses /\ HostKeyOf(s, i) \in EndpointKeys(s)
  BY EndpointFacts, Zenon
<1>2. /\ k \in Keys /\ Covers(k, Endpoints[s][i]) /\ s \in table[k]
      /\ table[HostKeyOf(s, i)] # {} => k = HostKeyOf(s, i)
  BY <1>1, SelectedFacts, Zenon DEF HostKeyOf
<1> HIDE DEF k
<1>3. ASSUME k \notin Connected[s] PROVE FALSE
  <2>1. k \notin EndpointKeys(s)
    BY <1>2, <1>3, CapturedByTun, Zenon DEF LoopInv
  <2>2. Direct(s, i)
    BY <1>2, <1>3, Zenon DEF LoopInv, Guarded, Captured
  <2> QED
    BY <1>1, <1>2, <2>1, <2>2, Zenon DEF Direct
<1>4. ASSUME Sheltered(s) PROVE FALSE
  <2>1. pc[s] \in SettingUp /\ upto[s] >= Hosts(s) /\ RestoreInv /\ TypeOK /\ Progress(s) /\ Hosted(s)
    BY <1>4, Zenon DEF Sheltered, SettingUp, Hosts, LoopInv, RestoreInv
  <2>2. i <= upto[s] /\ ~ (upto[s] + 1 \in 1 .. Hosts(s))
    BY <2>1, RouteFacts
  <2>3. pc[s] = "add" => NextRoute(s).key \notin EndpointKeys(s)
    BY <2>1, <2>2, NextRouteFacts, Zenon
  <2>4. Direct(s, i)
    BY <2>1, <2>2, <2>3, <1>1, Zenon DEF Hosted
  <2> QED
    BY <2>4, <1>2, <1>3, Zenon DEF Direct
<1> QED
  BY <1>3, <1>4, Zenon DEF k

LEMMA LoopInvInit ==
  Init => LoopInv
<1> SUFFICES ASSUME Init PROVE LoopInv
  BY Zenon
<1>1. RestoreInv
  BY RestoreInvInit, Zenon
<1>2. \A s \in Sessions : pc[s] = "idle"
  BY Zenon DEF Init
<1>3. \A s \in Sessions : Hosted(s)
  BY <1>2, Zenon DEF Hosted, SettingUp
<1>4. \A s \in Sessions : ~ Captured(s)
  BY <1>1, <1>2, Zenon DEF RestoreInv, Present, Captured, NoDevice
<1> QED
  BY <1>1, <1>3, <1>4, Zenon DEF LoopInv, Guarded

LEMMA LoopInvStep ==
  LoopInv /\ [Next]_vars => LoopInv'
<1> SUFFICES ASSUME LoopInv, [Next]_vars PROVE LoopInv'
  BY Zenon
<1>1. RestoreInv'
  BY RestoreInvStep, Zenon DEF LoopInv
<1>2. CASE UNCHANGED vars
  <2>1. /\ windows' = windows /\ table' = table /\ resolver' = resolver /\ pc' = pc
        /\ plan' = plan /\ upto' = upto /\ faults' = faults /\ residue' = residue
    BY <1>2, Zenon DEF vars
  <2>2. ASSUME NEW s \in Sessions PROVE (OwnEndpoints(s)' <=> OwnEndpoints(s)) /\ (Captured(s)' <=> Captured(s))
    <3>1. OwnEndpoints(s)' <=> OwnEndpoints(s)
      BY <2>1, ZenonT(30) DEF OwnEndpoints, EndpointKeys
    <3>2. Captured(s)' <=> Captured(s)
      BY <2>1, Zenon DEF Captured, Hosts, Covers
    <3> QED
      BY <3>1, <3>2
  <2>3. ASSUME NEW s \in Sessions PROVE Hosted(s)'
    <3>1. Hosted(s)
      BY Zenon DEF LoopInv
    <3> QED
      BY <2>1, <2>2, <3>1, Zenon DEF Hosted, Direct, HostKeyOf, Hosts, NextRoute
  <2>4. ASSUME NEW s \in Sessions PROVE Guarded(s)'
    <3>1. Guarded(s)
      BY Zenon DEF LoopInv
    <3> QED
      BY <2>1, <2>2, <3>1, Zenon DEF Guarded, NoResidue, Direct, HostKeyOf, Hosts
  <2> QED
    BY <1>1, <2>3, <2>4, Zenon DEF LoopInv
<1>3. ASSUME NEW s \in Sessions, Outcome(s) PROVE LoopInv'
  <2>1. TypeOK' /\ Others(s) /\ Residues /\ StepOf(s)
    BY <1>3, Zenon DEF Outcome
  <2>2. \A u \in Sessions : Hosted(u)' /\ Guarded(u)'
    BY <2>1, HostedKept, GuardedKept, Zenon
  <2> QED
    BY <1>1, <2>2, Zenon DEF LoopInv
<1>4. CASE Next
  BY <1>2, <1>3, <1>4, StepOutcome, Zenon DEF LoopInv, RestoreInv
<1> QED
  BY <1>2, <1>4, Zenon

(* However many sessions there are, whatever they plan and whichever       *)
(* requests and commands fail: once none is left, the table and the        *)
(* resolver are as before the first, but for what a cleanup step itself    *)
(* failed to take back.                                                    *)
THEOREM SystemIsRestored ==
  Spec => []SystemRestored
<1>1. Init => RestoreInv
  BY RestoreInvInit, Zenon
<1>2. RestoreInv /\ [Next]_vars => RestoreInv'
  BY RestoreInvStep, Zenon
<1>3. RestoreInv => SystemRestored
  BY RestoreInvImplies, Zenon
<1> QED
  BY <1>1, <1>2, <1>3, PTL DEF Spec

(* At no point of any set-up or cleanup is a packet to an endpoint of a    *)
(* session routed into the session's own TUN by an entry other than a      *)
(* connected route, and by none at all while its endpoint routes are in    *)
(* place, if they are its own and its cleanup left none behind.            *)
THEOREM EndpointsNeverLoop ==
  Spec => []EndpointNeverLoops
<1>1. Init => LoopInv
  BY LoopInvInit, Zenon
<1>2. LoopInv /\ [Next]_vars => LoopInv'
  BY LoopInvStep, Zenon
<1>3. LoopInv => EndpointNeverLoops
  BY LoopInvImplies, Zenon
<1> QED
  BY <1>1, <1>2, <1>3, PTL DEF Spec
=============================================================================
