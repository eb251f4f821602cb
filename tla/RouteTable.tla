----------------------------- MODULE RouteTable -----------------------------
(***************************************************************************)
(* What every platform's route code computes from a session configuration  *)
(* and the routing table: the egress of an endpoint, found before the TUN  *)
(* exists, and the VPN routes that do not shadow an endpoint's own route   *)
(* (platform/mod.rs).  Addresses have AddrBits bits.                       *)
(***************************************************************************)
EXTENDS Integers, Sequences

CONSTANT AddrBits   \* bits of an address: 32 or 128 in the code

ASSUME AddrBitsAssumption == AddrBits \in Nat

NoRoute == "no route"

Addresses == 0 .. (2^AddrBits - 1)

(* A prefix: the first len bits of an address, kept as a number.           *)
Keys == UNION { [net : 0 .. (2^n - 1), len : {n}] : n \in 0 .. AddrBits }

HostKey(a) == [net |-> a, len |-> AddrBits]

Covers(k, a) == a \div 2^(AddrBits - k.len) = k.net

(* The kernel's lookup: the longest of the prefixes with an entry that an  *)
(* address is in.                                                          *)
Matches(table, a) == { k \in Keys : Covers(k, a) /\ table[k] # NoRoute }
Longest(K) == CHOOSE k \in K : \A o \in K : o.len <= k.len

Egress(table, a) ==
  IF Matches(table, a) = {} THEN NoRoute ELSE table[Longest(Matches(table, a))]

(* resolve_endpoint_routes: a host route per endpoint, through the egress  *)
(* the table has for it now.                                               *)
EndpointRoutes(table, endpoints) ==
  [i \in DOMAIN endpoints |->
     [key |-> HostKey(endpoints[i]), via |-> Egress(table, endpoints[i])]]

Resolvable(table, endpoints) ==
  \A i \in DOMAIN endpoints : Egress(table, endpoints[i]) # NoRoute

(* The elements of a set of at most n numbers, the smallest first.         *)
InOrder(I, n) ==
  CHOOSE f \in UNION { [1 .. m -> I] : m \in 0 .. n } :
    /\ \A i, j \in DOMAIN f : i < j => f[i] < f[j]
    /\ \A x \in I : \E i \in DOMAIN f : f[i] = x

(* build_and_filter_routes: the allowed prefixes through the TUN, without  *)
(* a host route to one of the endpoints.                                   *)
FilteredRoutes(allowed, endpoints, tun) ==
  LET kept == { i \in DOMAIN allowed : \A j \in DOMAIN endpoints : allowed[i] # HostKey(endpoints[j]) }
      order == InOrder(kept, Len(allowed))
  IN  [i \in DOMAIN order |-> [key |-> allowed[order[i]], via |-> tun]]
=============================================================================
