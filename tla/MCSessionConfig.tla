--------------------------- MODULE MCSessionConfig ---------------------------
(* Three peers with nested, equal and foreign prefixes, some with host     *)
(* bits; bytes of two bits, two to an IPv4 and three to an IPv6 address.   *)
(* Settings and requests around the daemon's limits.                       *)
EXTENDS SessionConfig

V4(a, b, n) == [family |-> 4, bytes |-> <<a, b>>, prefix |-> n]
V6(a, b, c, n) == [family |-> 6, bytes |-> <<a, b, c>>, prefix |-> n]

MCNoAddress == <<>>

MCPeers ==
  {[key |-> k, endpoint |-> IF k = 1 THEN <<4, <<2, 1>>>> ELSE <<6, <<1, 2, 3>>>>, ips |-> s] :
     k \in 1 .. 2,
     s \in {{V4(0, 0, 0)}, {V4(2, 1, 3), V4(1, 2, 2)}, {V4(2, 0, 3)}, {V4(2, 1, 4), V6(1, 2, 3, 3)},
            {V4(1, 0, 2), V6(1, 0, 0, 1), V6(0, 0, 0, 0)}}}
  \cup {[key |-> 3, endpoint |-> e, ips |-> {V4(3, 3, 1), V6(1, 3, 0, 4)}] :
           e \in {MCNoAddress, <<4, <<3, 0>>>>}}

Byte == 0 .. 3
MCDestinations ==
  {<<4, <<a, b>>>> : a \in Byte, b \in Byte}
  \cup {<<6, <<a, b, c>>>> : a \in 0 .. 1, b \in Byte, c \in {0, 3}}

MCBadIp == 0
UpTo(n, S) == UNION {[1 .. k -> S] : k \in 0 .. n}

Domain(n, l, h) == [name |-> n, length |-> l, hostname |-> h]
Domains == {Domain("a", 1, TRUE), Domain("a", 2, TRUE), Domain("b", 2, TRUE),
            Domain("", 1, FALSE), Domain("-", 1, FALSE), Domain("c", 3, TRUE)}

Inside == {{V4(1, 1, 4)}, {V4(1, 1, 3), V6(1, 1, 1, 6)}}
Outside == {{}, {V4(1, 1, 5)}, {[family |-> 4, bytes |-> <<>>, prefix |-> 0]}, {V6(1, 1, 1, 7)},
            {V4(i, 0, 2) : i \in Byte}, {V4(i, j, 4) : i \in 0 .. 1, j \in Byte}}

Request(m, a, r, e, s, d) ==
  [mtu |-> m, addresses |-> a, routes |-> r, endpoints |-> e, servers |-> s, domains |-> d]

MCRequests ==
  {Request(0, {V4(1, 1, 4)}, {}, {}, s, d) : s \in UpTo(3, 0 .. 2), d \in UpTo(3, Domains)}
  \cup {Request(m, a, r, {}, <<>>, <<>>) :
          m \in {0, 575, 576, 1279, 1280, 65535, 65536}, a \in Inside \cup Outside, r \in Inside \cup Outside}
  \cup {Request(0, {V4(1, 1, 4)}, {V4(1, 2, 4)}, e, <<>>, <<>>) :
          e \in SUBSET {MCNoAddress, <<4, <<1, 2>>>>}}

MCSettings ==
  {[mtu |-> m, addresses |-> a, servers |-> s, domains |-> d] :
     m \in {Unset, 1279}, a \in Inside, s \in UpTo(1, {1}), d \in UpTo(1, {Domain("a", 1, TRUE)})}
=============================================================================
