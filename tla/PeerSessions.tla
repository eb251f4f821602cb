---------------------------- MODULE PeerSessions ----------------------------
(***************************************************************************)
(* The table of peer sessions in CryptoSessionManagerImpl:                 *)
(* reconcileSessions, stop, and the choice of a session for a packet.      *)
(* Calls come one at a time; the loops read the table under                *)
(* reconcileMutex between any two steps of them.                           *)
(*                                                                         *)
(* Public keys are numbers, in their sort order.  A CIDR is a family, its  *)
(* bytes and a prefix length; bytes have ByteBits bits, so that the        *)
(* arithmetic at byte borders stays what it is with eight.                 *)
(***************************************************************************)
EXTENDS Integers, Sequences, FiniteSets, FiniteSetsExt, Functions

CONSTANTS
  Peers,         \* peers that configurations draw on: [key, endpoint, ips]
  Destinations,  \* addresses of packets: <<family, bytes>>
  NoAddress,     \* for the endpoint of a peer without one
  ByteBits,      \* bits of a byte, 8
  MaxPeers,      \* bound: peers of a configuration
  MaxCreated     \* bound: sessions that the factory makes

\* Two to the i.
TwoTo[i \in Nat] == IF i = 0 THEN 1 ELSE 2 * TwoTo[i - 1]

ByteValues == 0 .. TwoTo[ByteBits] - 1

ASSUME SessionsAssumption ==
  /\ \A p \in Peers : p.key \in Nat
  /\ ByteBits \in Nat \ {0}
  /\ MaxPeers \in Nat /\ MaxCreated \in Nat

\* What toCidr and parsePacketDestination see to.
ASSUME AddressAssumption ==
  /\ \A d \in Destinations : d = <<d[1], d[2]>> /\ d[2] \in Seq(ByteValues)
  /\ \A p \in Peers : \A c \in p.ips :
       /\ c.bytes \in Seq(ByteValues) /\ c.prefix \in 0 .. Len(c.bytes) * ByteBits
       /\ \A d \in Destinations : c.family = d[1] => Len(c.bytes) = Len(d[2])

Keys == {p.key : p \in Peers}
Configs == UNION {[1 .. n -> Peers] : n \in 0 .. MaxPeers}

VARIABLES
  entries,  \* sessionEntriesByPeer: per key a peer and a session
  wanted,   \* the configuration that reconcileSessions was last called with
  next,     \* nextSessions of the call under way
  active,   \* sessions that are open
  created,  \* number of sessions made
  peersPc   \* next step of the call under way

peersVars == <<entries, wanted, next, active, created, peersPc>>

\* A session is its serial number and its peer index.
Sessions == (1 .. MaxCreated) \X (1 .. MaxPeers)
Tables == UNION {[ks -> [peer : Peers, session : Sessions]] : ks \in SUBSET Keys}

\* Every variable has its type.
PeersTypeOK ==
  /\ entries \in Tables /\ next \in Tables
  /\ active \subseteq Sessions
  /\ created \in 0 .. MaxCreated
  /\ wanted \in Configs
  /\ peersPc \in {"idle", "create", "undo", "close", "ready", "clear"}

PeersInit ==
  /\ entries = <<>> /\ wanted = <<>> /\ next = <<>>
  /\ active = {} /\ created = 0
  /\ peersPc = "idle"

SessionsOf(table) == {table[k].session : k \in DOMAIN table}

-----------------------------------------------------------------------------
(* IpUtil.kt.                                                              *)

\* The byte with all but its first bits cleared.
MaskByte(b, bits) == b - (b % TwoTo[ByteBits - bits])

\* Cidr.matches.
Matches(c, d) ==
  LET full == c.prefix \div ByteBits
      rest == c.prefix % ByteBits IN
  /\ c.family = d[1]
  /\ \A i \in 1 .. full : c.bytes[i] = d[2][i]
  /\ rest = 0 \/ MaskByte(c.bytes[full + 1], rest) = MaskByte(d[2][full + 1], rest)

\* Faulty variant: the byte that the prefix ends in is kept.
NormalizeWholeBytes(bytes, prefix) ==
  [i \in 1 .. Len(bytes) |-> IF i <= prefix \div ByteBits + 1 THEN bytes[i] ELSE 0]

\* normalizeNetworkBytes.
NormalizeNetworkBytes(bytes, prefix) ==
  LET full == prefix \div ByteBits IN
  [i \in 1 .. Len(bytes) |->
     IF i <= full THEN bytes[i]
     ELSE IF i = full + 1 THEN MaskByte(bytes[i], prefix % ByteBits)
     ELSE 0]

\* Cidr.normalizedKey.
NormalizedKey(c) == <<c.family, c.prefix, NormalizeNetworkBytes(c.bytes, c.prefix)>>

-----------------------------------------------------------------------------
(* VpnValidation.kt, as reconcileSessions uses it.                         *)

UniqueKeys(config) == \A i, j \in DOMAIN config : config[i].key = config[j].key => i = j

UserspaceEndpoints(config) == \A i \in DOMAIN config : config[i].endpoint # NoAddress

DistinctOwnership(config) ==
  \A i, j \in DOMAIN config : \A c \in config[i].ips, e \in config[j].ips :
    NormalizedKey(c) = NormalizedKey(e) => config[i].key = config[j].key

Valid(config) == UniqueKeys(config) /\ UserspaceEndpoints(config) /\ DistinctOwnership(config)

-----------------------------------------------------------------------------
(* CryptoSessionManagerImpl.                                               *)

DesiredKeys(config) == {config[i].key : i \in DOMAIN config}
DesiredPeer(config, k) == CHOOSE p \in Range(config) : p.key = k

\* mapIndexed over the sorted keys.
DesiredIndex(config, k) == Cardinality({j \in DesiredKeys(config) : j <= k})

\* The session of a key goes on: its peer and its index are as before.
Kept(config, k) ==
  /\ k \in DOMAIN entries
  /\ entries[k].peer = DesiredPeer(config, k)
  /\ entries[k].session[2] = DesiredIndex(config, k)
  /\ entries[k].session \in active

\* No call is under way; the last one was a reconciliation if "ready".
AtRest == peersPc \in {"idle", "ready"}

\* reconcileSessions is called.  A configuration that is refused changes
\* nothing.
ReconcileSessions(config) ==
  /\ AtRest
  /\ Valid(config)
  /\ wanted' = config /\ next' = <<>>
  /\ peersPc' = "create"
  /\ UNCHANGED <<entries, active, created>>

\* Keys that are still to come, and the first of them in their order.
Pending == DesiredKeys(wanted) \ DOMAIN next
First(k) == \A j \in Pending : k <= j

Extended(table, k, entry) == [j \in DOMAIN table \cup {k} |-> IF j = k THEN entry ELSE table[j]]

\* The session of the next key is kept ...
Keep ==
  /\ peersPc = "create"
  /\ \E k \in Pending :
       /\ First(k) /\ Kept(wanted, k)
       /\ next' = Extended(next, k, entries[k])
  /\ UNCHANGED <<entries, wanted, active, created, peersPc>>

\* ... or the factory makes one.
Create ==
  /\ peersPc = "create"
  /\ created < MaxCreated
  /\ \E k \in Pending :
       LET made == <<created + 1, DesiredIndex(wanted, k)>> IN
       /\ First(k) /\ ~Kept(wanted, k)
       /\ next' = Extended(next, k, [peer |-> DesiredPeer(wanted, k), session |-> made])
       /\ active' = active \cup {made}
  /\ created' = created + 1
  /\ UNCHANGED <<entries, wanted, peersPc>>

\* The factory throws, or makes a session that is not active.
CreateFails ==
  /\ peersPc = "create"
  /\ \E k \in Pending : First(k) /\ ~Kept(wanted, k)
  /\ peersPc' = "undo"
  /\ UNCHANGED <<entries, wanted, next, active, created>>

\* Those of nextSessions that the call has made and that are open.
OpenMade == (SessionsOf(next) \ SessionsOf(entries)) \cap active

\* Faulty variant: the exception leaves without closing them.
ThrowAtOnce ==
  /\ peersPc = "undo"
  /\ wanted' = <<>> /\ next' = <<>> /\ peersPc' = "idle"
  /\ UNCHANGED <<entries, active, created>>

\* The catch block closes the sessions that were made, one after the other,
\* and throws.
CloseMade ==
  /\ peersPc = "undo"
  /\ \/ \E s \in OpenMade :
          /\ \A t \in OpenMade : s[1] <= t[1]
          /\ active' = active \ {s}
          /\ UNCHANGED <<wanted, next, peersPc>>
     \/ /\ OpenMade = {}
        /\ wanted' = <<>> /\ next' = <<>> /\ peersPc' = "idle"
        /\ UNCHANGED active
  /\ UNCHANGED <<entries, created>>

\* Faulty variant: old sessions are closed before the table is replaced.
SwapAfterClose ==
  LET replaced == (SessionsOf(entries) \ SessionsOf(next)) \cap active IN
  /\ peersPc = "create" /\ Pending = {}
  /\ IF replaced # {}
       THEN active' = active \ replaced /\ UNCHANGED <<entries, next, peersPc>>
       ELSE entries' = next /\ next' = entries /\ peersPc' = "close" /\ UNCHANGED active
  /\ UNCHANGED <<wanted, created>>

\* The table is replaced under reconcileMutex.
Swap ==
  /\ peersPc = "create" /\ Pending = {}
  /\ entries' = next
  /\ next' = entries
  /\ peersPc' = "close"
  /\ UNCHANGED <<wanted, active, created>>

\* The sessions of the old table that were not kept are closed.
CloseReplaced ==
  /\ peersPc = "close"
  /\ active' = active \ (SessionsOf(next) \ SessionsOf(entries))
  /\ next' = <<>>
  /\ peersPc' = "ready"
  /\ UNCHANGED <<entries, wanted, created>>

\* stop closes every session ...
StopClose ==
  /\ AtRest
  /\ active' = active \ SessionsOf(entries)
  /\ peersPc' = "clear"
  /\ UNCHANGED <<entries, wanted, next, created>>

\* ... and clears the table, outside reconcileMutex.
StopClear ==
  /\ peersPc = "clear"
  /\ entries' = <<>> /\ wanted' = <<>>
  /\ peersPc' = "idle"
  /\ UNCHANGED <<next, active, created>>

MatchingPrefixes(k, d) == {c.prefix : c \in {e \in entries[k].peer.ips : Matches(e, d)}}

Candidates(d) == {k \in DOMAIN entries : MatchingPrefixes(k, d) # {}}

\* selectSessionForPacket: the first of the entries with the longest match.
SelectSession(d) ==
  LET best == Max({Max(MatchingPrefixes(k, d)) : k \in Candidates(d)}) IN
  Min({k \in Candidates(d) : Max(MatchingPrefixes(k, d)) = best})

-----------------------------------------------------------------------------
PeersNext ==
  \/ \E config \in Configs : ReconcileSessions(config)
  \/ Keep \/ Create \/ CreateFails \/ CloseMade
  \/ Swap \/ CloseReplaced \/ StopClose \/ StopClear

PeersSpec == PeersInit /\ [][PeersNext]_peersVars

-----------------------------------------------------------------------------
\* The bits of an address as a number, and what is left of it after its
\* first n bits are taken.
Number(bytes) ==
  LET value[i \in 0 .. Len(bytes)] ==
        IF i = 0 THEN 0 ELSE value[i - 1] * TwoTo[ByteBits] + bytes[i] IN
  value[Len(bytes)]
FirstBits(bytes, n) == Number(bytes) \div TwoTo[Len(bytes) * ByteBits - n]

\* Peers of the table that own a prefix of length n of an address.
Owners(d, n) ==
  {k \in DOMAIN entries : \E c \in entries[k].peer.ips :
     c.family = d[1] /\ c.prefix = n /\ FirstBits(c.bytes, n) = FirstBits(d[2], n)}

\* The session chosen for a packet is that of the one peer that owns the
\* longest prefix of its destination, counted in bits: what the validation
\* by normalized keys accepts leaves no tie for the order of the map to
\* decide.
LongestPrefixOwner ==
  \A d \in Destinations :
    LET lengths == {n \in 0 .. Len(d[2]) * ByteBits : Owners(d, n) # {}} IN
    IF lengths = {} THEN Candidates(d) = {}
    ELSE Candidates(d) # {} /\ Owners(d, Max(lengths)) = {SelectSession(d)}

\* A loop that looks up a session during a reconciliation gets an open one:
\* replaced sessions are closed only after the table is.
SelectedIsActive ==
  peersPc # "clear" => SessionsOf(entries) \subseteq active

\* Sessions of the table never share a BoringTun index, though a session that
\* is kept has the index of an earlier configuration.
IndexesDistinct ==
  \A j, k \in DOMAIN entries : entries[j].session[2] = entries[k].session[2] => j = k

\* The table that the loops read, at any step of a reconciliation: its
\* sessions are open and no two share the index that BoringTun tells the
\* datagrams of a peer by.
TableIsSound == SelectedIsActive /\ IndexesDistinct

\* Between calls no session is open but those of the table: neither a failed
\* nor a successful reconciliation leaks one.
NoSessionLeaks == AtRest => active = SessionsOf(entries)
=============================================================================
