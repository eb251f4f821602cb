---------------------------- MODULE SessionConfig ----------------------------
(***************************************************************************)
(* What becomes of a configuration: the peer sessions that Vpn.open        *)
(* reconciles (PeerSessions), the library's toTunSessionConfig, the        *)
(* daemon's validate_config, and the lists that the platform code builds   *)
(* for the routing table and the resolver.  A request reaches the daemon   *)
(* from the library or from another client of the protocol.                *)
(*                                                                         *)
(* A DNS server is a number, with BadIp for bytes that are no address; a   *)
(* CIDR without an address has no bytes.  A search domain is a record of   *)
(* its length, the name that is left once it is trimmed, and whether that  *)
(* is a host name.                                                         *)
(***************************************************************************)
EXTENDS PeerSessions

CONSTANTS
  Settings,        \* what Vpn.open is given besides the peers
  Requests,        \* TunSessionConfigs of other clients
  BadIp,           \* an Ip message without an address
  MaxDns,          \* MAX_DNS_SERVERS and MAX_DNS_DOMAINS
  MaxAddresses,    \* MAX_ADDRESSES
  MaxRoutes,       \* MAX_ROUTES
  MaxDomainLength  \* MAX_DOMAIN_LENGTH

\* The lists of a configuration are lists.
IsList(s) == s \in Seq(Range(s))
ASSUME ListsAssumption ==
  \A c \in Settings \cup Requests : IsList(c.servers) /\ IsList(c.domains)

Unset == -1
MinMtu == 576
MinIpv6Mtu == 1280
MaxMtu == 65535

VARIABLES
  settings,  \* those of the open() under way, or <<>>
  request,   \* the TunSessionConfig
  verdict,   \* what validate_config answers, or that the start has failed
  installed, \* routes into the tunnel, and addresses with host routes past it
  resolver,  \* servers and domains for the resolver
  stage      \* how far the request has come

configVars == <<settings, request, verdict, installed, resolver, stage>>
allVars == <<peersVars, configVars>>

ConfigInit ==
  /\ PeersInit
  /\ settings = <<>>
  /\ verdict = "none"
  /\ installed = [tunnel |-> {}, hosts |-> {}]
  /\ resolver = [servers |-> <<>>, domains |-> <<>>]
  /\ \/ request = <<>> /\ stage = "library"
     \/ request \in Requests /\ stage = "sent"

-----------------------------------------------------------------------------
(* The library.                                                            *)

\* Faulty variant: only the first peer's allowed IPs become routes.
FirstPeerConfig(c, peers) ==
  [mtu |-> IF c.mtu = Unset THEN 0 ELSE c.mtu,
   addresses |-> c.addresses,
   routes |-> IF peers = <<>> THEN {} ELSE peers[1].ips,
   endpoints |-> {p.endpoint : p \in Range(peers)} \ {NoAddress},
   servers |-> c.servers,
   domains |-> <<>>]

\* toTunSessionConfig: only the servers of the DNS configuration go along.
\* The order of the routes, by their text, is left out.
ToTunSessionConfig(c, peers) ==
  [mtu |-> IF c.mtu = Unset THEN 0 ELSE c.mtu,
   addresses |-> c.addresses,
   routes |-> UNION {p.ips : p \in Range(peers)},
   endpoints |-> {p.endpoint : p \in Range(peers)} \ {NoAddress},
   servers |-> c.servers,
   domains |-> <<>>]

\* reconcileSessions and stop of the session manager.
Manage == stage = "library" /\ PeersNext /\ UNCHANGED configVars

\* Vpn.open has reconciled the sessions with the parsed configuration and
\* starts the interface with it.
Open ==
  /\ stage = "library" /\ peersPc = "ready"
  /\ \E c \in Settings : settings' = c /\ request' = ToTunSessionConfig(c, wanted)
  /\ stage' = "sent"
  /\ UNCHANGED <<peersVars, verdict, installed, resolver>>

-----------------------------------------------------------------------------
(* The daemon.                                                             *)

\* validate_cidr_list: 32 or 128 bits at most.
ValidCidr(c) == c.bytes # <<>> /\ c.prefix <= Len(c.bytes) * ByteBits

\* validate_mtu_for_addresses, for an MTU that is set.
ValidMtu(mtu, addresses) ==
  /\ mtu \in MinMtu .. MaxMtu
  /\ (\E a \in addresses : a.family = 6) => mtu >= MinIpv6Mtu

\* Faulty variant: servers without domains pass.
EitherDns(servers, domains) ==
  /\ Len(servers) <= MaxDns /\ Len(domains) <= MaxDns
  /\ domains # <<>> => servers # <<>>
  /\ \A d \in Range(domains) : d.length <= MaxDomainLength /\ d.name # "" /\ d.hostname
  /\ BadIp \notin Range(servers)

\* validate_dns.
ValidDns(servers, domains) ==
  /\ Len(servers) <= MaxDns /\ Len(domains) <= MaxDns
  /\ domains = <<>> <=> servers = <<>>
  /\ \A d \in Range(domains) : d.length <= MaxDomainLength /\ d.name # "" /\ d.hostname
  /\ BadIp \notin Range(servers)

\* validate_config, but for the interface name.
ValidConfig(r) ==
  /\ Cardinality(r.addresses) \in 1 .. MaxAddresses /\ Cardinality(r.routes) <= MaxRoutes
  /\ \A c \in r.addresses \cup r.routes : ValidCidr(c)
  /\ r.mtu # 0 => ValidMtu(r.mtu, r.addresses)
  /\ ValidDns(r.servers, r.domains)

Validate ==
  /\ stage = "sent"
  /\ verdict' = IF ValidConfig(request) THEN "accepted" ELSE "refused"
  /\ stage' = IF verdict' = "accepted" THEN "checked" ELSE "done"
  /\ UNCHANGED <<peersVars, settings, request, installed, resolver>>

\* The first of equal elements of a list, in their order; some are left out.
FirstOnes(s, skipped) ==
  LET kept[i \in 0 .. Len(s)] ==
        IF i = 0 THEN <<>>
        ELSE IF s[i] \in skipped \cup Range(kept[i - 1]) THEN kept[i - 1]
        ELSE Append(kept[i - 1], s[i]) IN
  kept[Len(s)]

\* ips_to_args.
IpsToArgs(servers) == FirstOnes(servers, {})

\* normalize_domains: names are trimmed.
NormalizeDomains(domains) == FirstOnes([i \in 1 .. Len(domains) |-> domains[i].name], {""})

\* The prefix length of a host.
HostPrefix(c) == Len(c.bytes) * ByteBits

\* build_and_filter_routes: a host route to an endpoint is left out.
FilteredRoutes(r) ==
  {c \in r.routes : c.prefix # HostPrefix(c) \/ <<c.family, c.bytes>> \notin r.endpoints}

\* resolve_endpoint_routes fails for an endpoint that is no address.
ResolveFails ==
  /\ stage = "checked"
  /\ NoAddress \in request.endpoints
  /\ verdict' = "failed"
  /\ stage' = "done"
  /\ UNCHANGED <<peersVars, settings, request, installed, resolver>>

\* configure_session: the routes, and the arguments of the resolver if there
\* are both.
Configure ==
  LET servers == IpsToArgs(request.servers)
      domains == NormalizeDomains(request.domains) IN
  /\ stage = "checked"
  /\ NoAddress \notin request.endpoints
  /\ installed' = [tunnel |-> FilteredRoutes(request), hosts |-> request.endpoints]
  /\ resolver' = IF servers # <<>> /\ domains # <<>>
                   THEN [servers |-> servers, domains |-> domains]
                   ELSE resolver
  /\ stage' = "done"
  /\ UNCHANGED <<peersVars, settings, request, verdict>>

ConfigNext == Manage \/ Open \/ Validate \/ ResolveFails \/ Configure

ConfigSpec == ConfigInit /\ [][ConfigNext]_allVars

-----------------------------------------------------------------------------
\* Every server and every name of a request, once, names in the order of
\* their first occurrence, and nothing that is no address or no name.
AppliedDns(servers, domains, r) ==
  /\ BadIp \notin Range(servers) /\ "" \notin Range(domains)
  /\ Range(servers) = Range(r.servers)
  /\ Range(domains) = {d.name : d \in Range(r.domains)}
  /\ IsInjective(servers) /\ IsInjective(domains)
  /\ \A i, j \in DOMAIN domains : i < j =>
       \E k \in DOMAIN r.domains :
         r.domains[k].name = domains[i] /\ \A l \in 1 .. k : r.domains[l].name # domains[j]

\* An accepted request's DNS is applied and not silently skipped: every
\* server and every name it asks for reaches the resolver, once, names in
\* the order of their first occurrence, and nothing that is no address or
\* no name does.
AcceptedDnsIsApplied ==
  stage = "done" /\ verdict = "accepted" => AppliedDns(resolver.servers, resolver.domains, request)

\* The system may send a packet into the tunnel: a tunnel route covers its
\* destination, and a host route past the tunnel is not longer.
IntoTunnel(d) ==
  \E c \in installed.tunnel :
    /\ c.family = d[1] /\ FirstBits(c.bytes, c.prefix) = FirstBits(d[2], c.prefix)
    /\ d \in installed.hosts => c.prefix = HostPrefix(c)

\* The routes that open() has the daemon install, of the configuration it
\* was given, and the table that the loops choose sessions from cover the
\* same addresses, but for the peers' endpoints: a packet that goes into the
\* tunnel has a session, a packet that a session is there for goes into the
\* tunnel, and what is for an endpoint goes past it even if a peer claims
\* that very address.
RoutedIsOwned ==
  settings # <<>> /\ stage = "done" /\ verdict = "accepted" =>
    \A d \in Destinations :
      IntoTunnel(d) <=> Candidates(d) # {} /\ \A k \in DOMAIN entries : entries[k].peer.endpoint # d

\* The README opens a VPN with servers and searchDomains: a configuration
\* that the daemon's rules allow is not refused.
DocumentedDnsIsAccepted ==
  settings # <<>> /\ ValidConfig([request EXCEPT !.domains = settings.domains])
    => verdict # "refused"
=============================================================================
