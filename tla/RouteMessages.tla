--------------------------- MODULE RouteMessages ---------------------------
(***************************************************************************)
(* Routing messages of endpoint_macos.rs and routes_macos.rs: how a route  *)
(* is found in a dump of the kernel's table by its key, and how requests   *)
(* for routes are written.  A message is the part of its header that is    *)
(* looked at and the bytes of its addresses; these are as long as on       *)
(* macOS, with their padding, shortened masks and embedded zones.          *)
(*                                                                         *)
(* A route is a record [family, net, prefix, flags, index, gateway,        *)
(* source]; net, gateway and source are bytes of addresses, with <<>> for  *)
(* a route to the link and for no source.                                  *)
(***************************************************************************)
EXTENDS Integers, SequencesExt

CONSTANTS
  KernelRoutes,  \* routes that the kernel's table may have
  VpnRoutes,     \* routes of a session: [family, ip, prefix, index]
  Peers,         \* addresses of peer endpoints: [family, ip]
  DumpTries,     \* attempts of dump_routes
  MaxTable       \* bound: routes in the table

AfInet == 2
AfInet6 == 30
AfLink == 18
Width(family) == IF family = AfInet THEN 4 ELSE 16

\* Places of the addresses in a message.
Dst == 1
Gateway == 2
Netmask == 3
Ifp == 5
Ifa == 6
Slots == 1 .. 8

VARIABLES
  kernel,  \* the routes of the table
  dumpPc,  \* where the worker is
  wanted,  \* the message whose key it looks for
  size,    \* routes that fit into its buffer
  tries,   \* attempts left
  found,   \* the answer of find: at most one message
  seen,    \* history: the table as it was read
  sent     \* requests written: [message, route]

messageVars == <<kernel, dumpPc, wanted, size, tries, found, seen, sent>>

-----------------------------------------------------------------------------
(* Addresses.                                                              *)

The(slot) == CHOOSE a \in slot : TRUE
NoAddresses == [s \in Slots |-> {}]
Zeros(n) == [i \in 1 .. n |-> 0]

\* ip_address: a sockaddr_in or sockaddr_in6.
IpAddress(family, ip) ==
  IF family = AfInet THEN <<16, AfInet, 0, 0>> \o ip \o Zeros(8)
                     ELSE <<28, AfInet6, 0, 0, 0, 0, 0, 0>> \o ip \o Zeros(4)

\* link_address: a sockaddr_dl with an interface index.
LinkAddress(index) == <<20, AfLink, index, 0>> \o Zeros(16)

\* The room of an address by its length, which is a byte: a multiple of four
\* bytes, and four at least.
Step == [length \in 0 .. 255 |-> IF length < 4 THEN 4 ELSE ((length + 3) \div 4) * 4]

\* append, with the room that an address takes.
Pad(payload, address, step) == payload \o address \o Zeros(step[Len(address)] - Len(address))

\* A message with these addresses, at most one to a slot.
Encode(flags, index, slots, step) ==
  [flags |-> flags, index |-> index, addrs |-> {s \in Slots : slots[s] # {}},
   bytes |-> FoldLeft(LAMBDA bytes, s : IF slots[s] = {} THEN bytes ELSE Pad(bytes, The(slots[s]), step),
                      <<>>, [s \in Slots |-> s])]

\* The addresses of a message, one after the other, unless it is too short.
Decode(m, step) ==
  FoldLeft(LAMBDA acc, slot :
             IF slot \notin m.addrs \/ ~acc.ok THEN acc
             ELSE LET length == IF acc.offset < Len(m.bytes) THEN m.bytes[acc.offset + 1] ELSE 0
                      end == acc.offset + step[length] IN
                  IF acc.offset >= Len(m.bytes) \/ end > Len(m.bytes) THEN [acc EXCEPT !.ok = FALSE]
                  ELSE [acc EXCEPT !.offset = end,
                                   !.slots[slot] = {SubSeq(m.bytes, acc.offset + 1, acc.offset + length)}],
           [ok |-> TRUE, offset |-> 0, slots |-> NoAddresses], [s \in Slots |-> s])

Message(flags, index, slots) == Encode(flags, index, slots, Step)

\* addresses.
WellFormed(m) == Decode(m, Step).ok
Addresses(m) == Decode(m, Step).slots

\* Faulty variant: the zone stays in the address.
AddressBytesWithZone(address, family) ==
  LET offset == IF family = AfInet THEN 4 ELSE 8 IN
  [i \in 1 .. Width(family) |-> IF offset + i <= Len(address) THEN address[offset + i] ELSE 0]

\* address_bytes: bytes that are missing are zero; the zone that the kernel
\* embeds in a link-local address is cleared.
AddressBytes(address, family) ==
  LET offset == IF family = AfInet THEN 4 ELSE 8
      bytes == [i \in 1 .. Width(family) |->
                  IF offset + i <= Len(address) THEN address[offset + i] ELSE 0] IN
  IF family = AfInet6 /\ bytes[1] = 254 /\ bytes[2] \in 128 .. 191
    THEN [bytes EXCEPT ![3] = 0, ![4] = 0]
    ELSE bytes

\* A byte under a mask whose ones are its first bits.
And(byte, mask) == byte - (byte % (256 - mask))

\* The bytes of a mask.
MaskBytes(width, prefix) ==
  [i \in 1 .. width |-> LET ones == Min({8, Max({0, prefix - 8 * (i - 1)})}) IN 256 - 2^(8 - ones)]

-----------------------------------------------------------------------------
(* Snapshots.                                                              *)

\* Snapshot::key.
Key(m) ==
  LET attrs == Addresses(m)
      dst == The(attrs[Dst])
      family == dst[2]
      bytes == AddressBytes(dst, family)
      host == "host" \in m.flags
      mask == IF host THEN MaskBytes(Width(family), 128)
              ELSE AddressBytes(IF attrs[Netmask] = {} THEN <<>> ELSE The(attrs[Netmask]), family) IN
  [family |-> family, destination |-> [i \in DOMAIN bytes |-> And(bytes[i], mask[i])], mask |-> mask,
   host |-> host, scope |-> IF "ifscope" \in m.flags THEN m.index ELSE 0]

\* same_address.
SameAddress(a, b) == a[2] = b[2] /\ AddressBytes(a, a[2]) = AddressBytes(b, b[2])

\* Snapshot::same_path; a request without a source goes with any.
SamePath(m, other) ==
  LET left == Addresses(m)
      right == Addresses(other)
      Link(slot) == slot # {} /\ The(slot)[2] = AfLink IN
  /\ Key(m) = Key(other) /\ m.index = other.index
  /\ m.flags \cap {"gateway", "reject"} = other.flags \cap {"gateway", "reject"}
  /\ \/ Link(left[Gateway]) /\ Link(right[Gateway])
     \/ left[Gateway] = {} /\ right[Gateway] = {}
     \/ left[Gateway] # {} /\ right[Gateway] # {} /\ SameAddress(The(left[Gateway]), The(right[Gateway]))
  /\ \/ right[Ifa] = {}
     \/ left[Ifa] # {} /\ SameAddress(The(left[Ifa]), The(right[Ifa]))

Restorable(m) == m.index # 0 /\ "proxy" \notin m.flags

\* Snapshot::message: the addresses once more, with the interface.
SnapshotMessage(m) ==
  Message(m.flags, m.index, [Addresses(m) EXCEPT ![Ifp] = {LinkAddress(m.index)}])

\* tun_route.
TunRoute(r) ==
  LET mask == MaskBytes(Width(r.family), r.prefix) IN
  Message(IF r.prefix = 8 * Width(r.family) THEN {"host"} ELSE {}, r.index,
          [NoAddresses EXCEPT
             ![Dst] = {IpAddress(r.family, [i \in DOMAIN r.ip |-> And(r.ip[i], mask[i])])},
             ![Gateway] = {LinkAddress(r.index)},
             ![Netmask] = {IpAddress(r.family, mask)}])

\* EndpointRoute::lookup, from the reply; a gateway that is no address of
\* the family stands for the link.
Lookup(p, reply) ==
  LET attrs == Addresses(reply)
      ip == {a \in attrs[Gateway] : a[2] \in {AfInet, AfInet6}} IN
  [family |-> p.family, destination |-> p.ip, index |-> reply.index,
   gateway |-> IF ip # {} THEN The(ip) ELSE LinkAddress(reply.index),
   via |-> "gateway" \in reply.flags, source |-> attrs[Ifa]]

\* EndpointRoute::message(RTM_ADD).
EndpointMessage(e) ==
  Message({"host"} \cup (IF e.via THEN {"gateway"} ELSE {}), e.index,
          [NoAddresses EXCEPT
             ![Dst] = {IpAddress(e.family, e.destination)},
             ![Gateway] = {e.gateway},
             ![Netmask] = {IpAddress(e.family, MaskBytes(Width(e.family), 128))},
             ![Ifp] = {LinkAddress(e.index)},
             ![Ifa] = e.source])

-----------------------------------------------------------------------------
(* The kernel.                                                             *)

LinkLocal(r) == r.family = AfInet6 /\ r.net[1] = 254 /\ r.net[2] \in 128 .. 191

\* The room of an address, as the kernel rounds it up.
KernelStep == [length \in 0 .. 255 |-> IF length = 0 THEN 4 ELSE 4 * (((length - 1) \div 4) + 1)]

\* A mask without its trailing zeros; that of a default route is empty.
KernelMask(family, prefix) ==
  LET k == (prefix + 7) \div 8
      offset == IF family = AfInet THEN 4 ELSE 8 IN
  IF prefix = 0 THEN <<>>
  ELSE <<offset + k, 255>> \o Zeros(offset - 2) \o SubSeq(MaskBytes(Width(family), prefix), 1, k)

\* How the kernel reports a route.
KernelMessage(r) ==
  Encode(r.flags, r.index,
         [NoAddresses EXCEPT
            ![Dst] = {IpAddress(r.family, IF LinkLocal(r) THEN [r.net EXCEPT ![4] = r.index] ELSE r.net)},
            ![Gateway] = {IF r.gateway = <<>> THEN LinkAddress(r.index) ELSE IpAddress(r.family, r.gateway)},
            ![Netmask] = IF "host" \in r.flags THEN {} ELSE {KernelMask(r.family, r.prefix)},
            ![Ifa] = IF r.source = <<>> THEN {} ELSE {IpAddress(r.family, r.source)}],
         KernelStep)

\* The bytes of an address in a message, up to its length.
KernelBytes(a, family) ==
  [i \in 1 .. Width(family) |-> LET j == i + (IF family = AfInet THEN 4 ELSE 8) IN
     IF j <= Len(a) THEN a[j] ELSE 0]

\* The route that a request is for; without an interface the kernel takes
\* any that leads to the gateway, the new one included.
KernelRoute(m) ==
  LET attrs == Decode(m, KernelStep).slots
      family == The(attrs[Dst])[2]
      dst == KernelBytes(The(attrs[Dst]), family)
      prefix == IF "host" \in m.flags THEN 8 * Width(family)
                ELSE CHOOSE n \in 0 .. 8 * Width(family) :
                       MaskBytes(Width(family), n) = KernelBytes(The(attrs[Netmask]), family) IN
  [family |-> family,
   net |-> IF family = AfInet6 /\ dst[1] = 254 /\ dst[2] \in 128 .. 191
             THEN [dst EXCEPT ![3] = 0, ![4] = 0] ELSE dst,
   prefix |-> prefix, flags |-> m.flags, index |-> IF attrs[Ifp] = {} THEN 0 ELSE The(attrs[Ifp])[3],
   gateway |-> IF The(attrs[Gateway])[2] = AfLink THEN <<>> ELSE KernelBytes(The(attrs[Gateway]), family),
   source |-> IF attrs[Ifa] = {} THEN <<>> ELSE KernelBytes(The(attrs[Ifa]), family)]

\* The first n bits of an address, by which the kernel keys its table.
Bits(bytes, n) == [i \in 1 .. n |-> (bytes[((i - 1) \div 8) + 1] \div 2^(7 - ((i - 1) % 8))) % 2]
RouteKey(r) ==
  <<r.family, r.prefix, Bits(r.net, r.prefix), "host" \in r.flags, IF "ifscope" \in r.flags THEN r.index ELSE 0>>

Covers(r, p) == r.family = p.family /\ Bits(r.net, r.prefix) = Bits(p.ip, r.prefix)

-----------------------------------------------------------------------------
Nothing == [message |-> <<>>, route |-> <<>>]

MessagesInit ==
  /\ kernel = {}
  /\ dumpPc = "idle"
  /\ wanted = Nothing
  /\ size = 0 /\ tries = 0
  /\ found = {} /\ seen = {}
  /\ sent = {}

Plan(m, r) ==
  /\ dumpPc = "idle"
  /\ wanted' = [message |-> m, route |-> r]
  /\ tries' = DumpTries
  /\ dumpPc' = "size"
  /\ UNCHANGED <<kernel, size, found, seen, sent>>

\* install comes to a route of the session ...
PlanVpn(v) ==
  Plan(TunRoute(v),
       [family |-> v.family, prefix |-> v.prefix, index |-> v.index, gateway |-> <<>>, source |-> <<>>,
        net |-> [i \in DOMAIN v.ip |-> And(v.ip[i], MaskBytes(Width(v.family), v.prefix)[i])],
        flags |-> IF v.prefix = 8 * Width(v.family) THEN {"host"} ELSE {}])

\* ... or to a route to a peer, along the route that the kernel had for it.
PlanEndpoint(p, r) ==
  /\ Covers(r, p) /\ r.index # 0 /\ "reject" \notin r.flags
  /\ Plan(EndpointMessage(Lookup(p, KernelMessage(r))),
          [r EXCEPT !.net = p.ip, !.prefix = 8 * Width(p.family),
                    !.flags = {"host"} \cup (@ \cap {"gateway"})])

\* dump_routes asks for the size of the table ...
SizeDump ==
  /\ dumpPc = "size"
  /\ size' = Cardinality(kernel)
  /\ dumpPc' = "read"
  /\ UNCHANGED <<kernel, wanted, tries, found, seen, sent>>

\* ... finds that it has grown, and tries again or gives up ...
ReadRetry ==
  /\ dumpPc = "read" /\ Cardinality(kernel) > size
  /\ tries' = tries - 1
  /\ dumpPc' = IF tries = 1 THEN "failed" ELSE "size"
  /\ UNCHANGED <<kernel, wanted, size, found, seen, sent>>

\* find: a route of the dump with the key, if there is one.
Find(dump, key) ==
  LET matches == {m \in dump : Key(m) = key} IN
  IF matches = {} THEN {{}} ELSE {{m} : m \in matches}

\* ... or reads it, and find takes the route with the key.
ReadDump ==
  /\ dumpPc = "read" /\ Cardinality(kernel) <= size
  /\ LET dump == {KernelMessage(r) : r \in kernel} IN
     IF \A m \in dump : WellFormed(m)
       THEN dumpPc' = "found" /\ found' \in Find(dump, Key(wanted.message))
       ELSE dumpPc' = "garbled" /\ UNCHANGED found
  /\ seen' = kernel
  /\ UNCHANGED <<kernel, wanted, size, tries, sent>>

\* A system call fails.
DumpFail ==
  /\ dumpPc \in {"size", "read"}
  /\ dumpPc' = "failed"
  /\ UNCHANGED <<kernel, wanted, size, tries, found, seen, sent>>

\* Requests to delete and to restore what was found and to add what is
\* wanted; a route that cannot be restored is not touched.
Send ==
  /\ dumpPc = "found"
  /\ IF \A m \in found : Restorable(m)
       THEN /\ sent' = {[message |-> SnapshotMessage(wanted.message), route |-> wanted.route]}
                         \cup {[message |-> SnapshotMessage(m),
                                route |-> CHOOSE r \in seen : KernelMessage(r) = m] : m \in found}
            /\ dumpPc' = "sent"
       ELSE dumpPc' = "failed" /\ UNCHANGED sent
  /\ UNCHANGED <<kernel, wanted, size, tries, found, seen>>

\* The next route.
NextRoute ==
  /\ dumpPc \in {"sent", "garbled", "failed"}
  /\ dumpPc' = "idle"
  /\ wanted' = Nothing /\ size' = 0 /\ tries' = 0
  /\ found' = {} /\ seen' = {} /\ sent' = {}
  /\ UNCHANGED kernel

\* Other programs change the table, which has one route to a key.
KernelEdit ==
  /\ dumpPc \in {"idle", "size", "read"}
  /\ \/ \E r \in KernelRoutes :
          /\ Cardinality(kernel) < MaxTable
          /\ RouteKey(r) \notin {RouteKey(k) : k \in kernel}
          /\ kernel' = kernel \cup {r}
     \/ \E r \in kernel : kernel' = kernel \ {r}
  /\ UNCHANGED <<dumpPc, wanted, size, tries, found, seen, sent>>

MessagesNext ==
  \/ \E v \in VpnRoutes : PlanVpn(v)
  \/ \E p \in Peers, r \in kernel : PlanEndpoint(p, r)
  \/ SizeDump \/ ReadRetry \/ ReadDump \/ DumpFail \/ Send \/ NextRoute \/ KernelEdit

MessagesSpec == MessagesInit /\ [][MessagesNext]_messageVars

-----------------------------------------------------------------------------
\* The kernel's dump is never refused: find answers the one route of the
\* table with exactly the wanted prefix, kind and scope, and same_path tells
\* whether it takes the wanted way.
FindIsExact ==
  dumpPc # "garbled" /\ (dumpPc = "found" =>
    LET same == {r \in seen : RouteKey(r) = RouteKey(wanted.route)} IN
    /\ found = {KernelMessage(r) : r \in same}
    /\ \A r \in same :
         SamePath(KernelMessage(r), wanted.message) <=>
           /\ r.index = wanted.route.index /\ r.gateway = wanted.route.gateway
           /\ r.flags \cap {"gateway", "reject"} = wanted.route.flags \cap {"gateway", "reject"}
           /\ wanted.route.source \in {<<>>, r.source})

\* A request means the route that it was made for: to the kernel, its bytes
\* are the prefix, interface, gateway and source of the route in the dump,
\* of the session's route, or of the way to the endpoint.
RequestMeansRoute == \A s \in sent : KernelRoute(s.message) = s.route
=============================================================================
