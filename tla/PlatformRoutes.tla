--------------------------- MODULE PlatformRoutes ---------------------------
(***************************************************************************)
(* Route and resolver configuration of a TUN session on Linux and Windows: *)
(* the shared set-up and cleanup of platform/mod.rs, the endpoint routes   *)
(* of endpoint_linux.rs and endpoint_windows.rs, and configure_session of  *)
(* linux.rs and windows.rs.  Unlike on macOS nothing is recorded: cleanup  *)
(* deletes every route the session planned, whether it added it or not.    *)
(*                                                                         *)
(* A prefix may have several entries.  Linux tells them apart by metric,   *)
(* Windows by interface and next hop, so a conflict differs between them.  *)
(***************************************************************************)
EXTENDS RouteTable, FiniteSets

CONSTANTS
  Sessions,    \* the sessions; each is also the path through its own TUN
  Endpoints,   \* per session: the sequence of peer endpoint addresses
  Allowed,     \* per session: the sequence of allowed prefixes
  Connected,   \* per session: the prefixes of the addresses of its TUN
  Resolvers,   \* the sessions whose configuration has servers and domains
  Start,       \* the routing table before any session
  MaxEvents    \* bound: sessions that begin, and requests and commands that
               \* fail, together

ASSUME PlatformRoutesAssumption ==
  /\ Endpoints \in [Sessions -> Seq(Addresses)] /\ Allowed \in [Sessions -> Seq(Keys)]
  /\ Connected \in [Sessions -> SUBSET Keys]
  /\ Start = [k \in Keys |-> Start[k]]
  /\ \A k \in Keys : NoRoute \notin Start[k] /\ Start[k] \cap Sessions = {}
  /\ MaxEvents \in Nat

VARIABLES
  windows,   \* the platform the daemon is built for: Windows, or else Linux
  table,     \* the kernel's table: prefix -> set of paths
  resolver,  \* per session: what the resolver has for its interface
  pc,        \* per session: where its worker is
  plan,      \* per session: endpoint_routes and filtered_routes
  upto,      \* per session: the first planned routes, as many as this, are
             \* those that were added, or that are not yet deleted
  faults,    \* requests that have failed
  residue    \* history: what a cleanup failed to take back: the routes, as pairs of
             \* session and prefix, and the sessions with resolver settings

vars == <<windows, table, resolver, pc, plan, upto, faults, residue>>

Paths == Sessions \cup UNION { Start[k] : k \in Keys }

(* A TUN route is added without a metric, which is the best one; an        *)
(* endpoint route keeps the metric of the entry it was copied from.        *)
Metric(via) == IF via \in Sessions THEN 0 ELSE 1

(* The longest prefix with an entry that an address is in, if there is one. *)
Matching(a) == { k \in Keys : Covers(k, a) /\ table[k] # {} }
LongestMatch(a) == Longest(Matching(a))

(* The paths a lookup may return for an address: on Windows interface      *)
(* metrics decide, which the daemon does not control.                      *)
Selected(a) ==
  IF Matching(a) = {} THEN {}
  ELSE { via \in table[LongestMatch(a)] :
           windows \/ \A o \in table[LongestMatch(a)] : Metric(via) <= Metric(o) }

(* The entries of a prefix that stand in the way of adding via.            *)
Conflicts(k, via) ==
  { o \in table[k] : IF windows THEN o = via ELSE Metric(o) = Metric(via) }

(* Where a session has no device.                                          *)
NoDevice == {"idle", "resolved", "gone"}

Exists(via) == via \in Sessions => pc[via] \notin NoDevice

Goto(s, l) == pc' = [pc EXCEPT ![s] = l]

Begun == { s \in Sessions : pc[s] # "idle" }

Room == faults + Cardinality(Begun) < MaxEvents

Fault == Room /\ faults' = faults + 1

With(k, via) == [table EXCEPT ![k] = @ \cup {via}]
Without(k, via) == [table EXCEPT ![k] = @ \ {via}]

EndpointKeys(s) == { HostKey(Endpoints[s][i]) : i \in DOMAIN Endpoints[s] }

(* add_routes_with_predelete handles the endpoint routes first.            *)
Stage(s, handled) == IF handled < Len(Endpoints[s]) THEN "endpoints" ELSE "routes"

Settings == {"servers", "domains"}

Init ==
  /\ windows \in BOOLEAN
  /\ table = Start
  /\ resolver = [s \in Sessions |-> {}]
  /\ pc = [s \in Sessions |-> "idle"]
  /\ plan = [s \in Sessions |-> <<>>]
  /\ upto = [s \in Sessions |-> 0]
  /\ faults = 0
  /\ residue = [routes |-> {}, dns |-> {}]

-----------------------------------------------------------------------------
(* EndpointRoute::from_route: the entry found, as a route to the host.     *)
FromRoute(ip, via) == [key |-> HostKey(ip), via |-> via]

\* Faulty variant: the TUN routes before the endpoint routes.
ResolveRoutesFirst(s) ==
  /\ pc[s] = "idle" /\ Room
  /\ \E egress \in [DOMAIN Endpoints[s] -> Paths] :
       /\ \A i \in DOMAIN Endpoints[s] : egress[i] \in Selected(Endpoints[s][i])
       /\ plan' = [plan EXCEPT ![s] =
            FilteredRoutes(Allowed[s], Endpoints[s], s) \o
              [i \in DOMAIN Endpoints[s] |-> FromRoute(Endpoints[s][i], egress[i])]]
  /\ Goto(s, "resolved")
  /\ UNCHANGED <<table, resolver, upto, faults, residue>>

(* SessionManager::start looks the endpoints up while there is no device.  *)
(* The plan lists the endpoint routes first, then those that               *)
(* build_and_filter_routes makes of the configuration.                     *)
Resolve(s) ==
  /\ pc[s] = "idle" /\ Room
  /\ \E egress \in [DOMAIN Endpoints[s] -> Paths] :
       /\ \A i \in DOMAIN Endpoints[s] : egress[i] \in Selected(Endpoints[s][i])
       /\ plan' = [plan EXCEPT ![s] =
            [i \in DOMAIN Endpoints[s] |-> FromRoute(Endpoints[s][i], egress[i])] \o
              FilteredRoutes(Allowed[s], Endpoints[s], s)]
  /\ Goto(s, "resolved")
  /\ UNCHANGED <<table, resolver, upto, faults, residue>>

(* An endpoint has no route, or the request fails.                         *)
ResolveFail(s) ==
  /\ pc[s] = "idle" /\ Room
  /\ \/ (\E i \in DOMAIN Endpoints[s] : Selected(Endpoints[s][i]) = {}) /\ UNCHANGED faults
     \/ Endpoints[s] # <<>> /\ Fault
  /\ Goto(s, "gone")
  /\ UNCHANGED <<table, resolver, plan, upto, residue>>

(* The device is created, and with its addresses the kernel installs       *)
(* connected routes beside what there is.  What still follows before the   *)
(* routes (the device's mode, the interrupt event, the route manager) may  *)
(* fail: then the device is dropped and nothing else was done.             *)
CreateDevice(s) ==
  /\ pc[s] = "resolved"
  /\ table' = [k \in Keys |-> IF k \in Connected[s] THEN table[k] \cup {s} ELSE table[k]]
  /\ \/ Goto(s, Stage(s, 0)) /\ UNCHANGED faults
     \/ Goto(s, "closed") /\ Fault
  /\ UNCHANGED <<resolver, plan, upto, residue>>

(* prepare_session_start or build_sync fails.                              *)
CreateFail(s) ==
  /\ pc[s] = "resolved"
  /\ Fault
  /\ Goto(s, "gone")
  /\ UNCHANGED <<table, resolver, plan, upto, residue>>

\* Faulty variant: only the routes whose add has returned are deleted.
CleanUpAdded(s) == Goto(s, "undo") /\ UNCHANGED upto

(* The set-up returned an error: cleanup_routes runs at once, from the     *)
(* last planned route to the first.                                        *)
CleanUpAfter(s) ==
  /\ upto' = [upto EXCEPT ![s] = Len(plan[s])]
  /\ Goto(s, "undo")

NextRoute(s) == plan[s][upto[s] + 1]

Added(s) ==
  /\ upto' = [upto EXCEPT ![s] = @ + 1]
  /\ Goto(s, Stage(s, upto[s] + 1))

(* EndpointRoute::replace on Linux: one request creates or replaces.       *)
Replace(s) ==
  /\ pc[s] = "endpoints" /\ ~ windows
  /\ LET r == NextRoute(s)
         replaced == [table EXCEPT ![r.key] = (@ \ Conflicts(r.key, r.via)) \cup {r.via}]
     IN  \/ Exists(r.via) /\ table' = replaced /\ Added(s) /\ UNCHANGED faults
         \/ ~ Exists(r.via) /\ CleanUpAfter(s) /\ UNCHANGED <<table, faults>>
         \/ /\ Fault /\ CleanUpAfter(s)
            /\ \/ UNCHANGED table
               \/ Exists(r.via) /\ table' = replaced
  /\ UNCHANGED <<resolver, plan, residue>>

(* Every other route is deleted, whatever that returns, and added: the TUN *)
(* routes on both platforms, and the endpoint routes on Windows.           *)
PreDelete(s) ==
  /\ \/ pc[s] = "endpoints" /\ windows
     \/ pc[s] = "routes" /\ upto[s] < Len(plan[s])
  /\ LET r == NextRoute(s)
     IN  \/ table' = Without(r.key, r.via) /\ UNCHANGED faults
         \/ r.via \in table[r.key] /\ Fault /\ UNCHANGED table
  /\ Goto(s, "add")
  /\ UNCHANGED <<resolver, plan, upto, residue>>

AddRoute(s) ==
  /\ pc[s] = "add"
  /\ LET r == NextRoute(s)
         possible == Conflicts(r.key, r.via) = {} /\ Exists(r.via)
     IN  \/ possible /\ table' = With(r.key, r.via) /\ Added(s) /\ UNCHANGED faults
         \/ ~ possible /\ CleanUpAfter(s) /\ UNCHANGED <<table, faults>>
         \/ /\ Fault /\ CleanUpAfter(s)
            /\ \/ UNCHANGED table
               \/ possible /\ table' = With(r.key, r.via)
  /\ UNCHANGED <<resolver, plan, residue>>

(* A resolver command succeeds, or fails or times out having done some of  *)
(* what it does.                                                           *)
Command(s, done, next) ==
  \/ /\ resolver' = [resolver EXCEPT ![s] = done]
     /\ Goto(s, next)
     /\ UNCHANGED <<upto, faults>>
  \/ /\ Fault
     /\ \E some \in SUBSET (resolver[s] \cup done) : resolver' = [resolver EXCEPT ![s] = some]
     /\ CleanUpAfter(s)

Revert(s) ==
  /\ pc[s] = "routes" /\ upto[s] = Len(plan[s])
  /\ Command(s, {}, IF s \in Resolvers THEN "servers" ELSE "up")
  /\ UNCHANGED <<table, plan, residue>>

(* One script writes the rules on Windows; Linux needs two commands.       *)
SetRules(s) ==
  /\ pc[s] = "servers" /\ windows
  /\ Command(s, Settings, "up")
  /\ UNCHANGED <<table, plan, residue>>

SetServers(s) ==
  /\ pc[s] = "servers" /\ ~ windows
  /\ Command(s, {"servers"}, "domains")
  /\ UNCHANGED <<table, plan, residue>>

SetDomains(s) ==
  /\ pc[s] = "domains"
  /\ Command(s, Settings, "up")
  /\ UNCHANGED <<table, plan, residue>>

-----------------------------------------------------------------------------
(* TunSession::close runs the cleanup hook.                                *)
Close(s) ==
  /\ pc[s] = "up"
  /\ CleanUpAfter(s)
  /\ UNCHANGED <<table, resolver, plan, faults, residue>>

(* cleanup_routes: errors are collected, also that a route is not there.   *)
UndoRoute(s) ==
  /\ pc[s] = "undo" /\ upto[s] > 0
  /\ LET r == plan[s][upto[s]]
     IN  \/ table' = Without(r.key, r.via) /\ UNCHANGED <<faults, residue>>
         \/ Fault /\ residue' = [residue EXCEPT !.routes = @ \cup {<<s, r.key>>}] /\ UNCHANGED table
  /\ upto' = [upto EXCEPT ![s] = @ - 1]
  /\ UNCHANGED <<resolver, pc, plan>>

(* Without a route manager only the endpoint routes are deleted.           *)
NoManager(s) ==
  /\ pc[s] = "undo" /\ upto[s] = Len(plan[s]) /\ upto[s] > Len(Endpoints[s])
  /\ Fault
  /\ upto' = [upto EXCEPT ![s] = Len(Endpoints[s])]
  /\ residue' = [residue EXCEPT !.routes = @ \cup
                   { <<s, plan[s][i].key>> : i \in Len(Endpoints[s]) + 1 .. Len(plan[s]) }]
  /\ UNCHANGED <<table, resolver, pc, plan>>

TearDown(s) ==
  /\ pc[s] = "undo" /\ upto[s] = 0
  /\ \/ /\ resolver' = [resolver EXCEPT ![s] = {}]
        /\ UNCHANGED <<faults, residue>>
     \/ /\ Fault
        /\ \E some \in SUBSET resolver[s] : resolver' = [resolver EXCEPT ![s] = some]
        /\ residue' = [residue EXCEPT !.dns = @ \cup {s}]
  /\ Goto(s, "closed")
  /\ UNCHANGED <<table, plan, upto>>

(* The device is dropped, and the kernel drops the routes through it.      *)
DropDevice(s) ==
  /\ pc[s] = "closed"
  /\ table' = [k \in Keys |-> table[k] \ {s}]
  /\ Goto(s, "gone")
  /\ UNCHANGED <<resolver, plan, upto, faults, residue>>

Terminated == /\ \A s \in Sessions : pc[s] \in {"idle", "gone"}
              /\ UNCHANGED vars

SetUp(s) == \/ ResolveFail(s) \/ CreateDevice(s) \/ CreateFail(s) \/ Replace(s) \/ PreDelete(s) \/ AddRoute(s)
            \/ Revert(s) \/ SetRules(s) \/ SetServers(s) \/ SetDomains(s)

CleanUp(s) == UndoRoute(s) \/ NoManager(s) \/ TearDown(s) \/ DropDevice(s)

Next == /\ \/ \E s \in Sessions : Resolve(s) \/ SetUp(s) \/ Close(s) \/ CleanUp(s)
           \/ Terminated
        /\ UNCHANGED windows

Spec == Init /\ [][Next]_vars

-----------------------------------------------------------------------------
(* The host routes to its endpoints are a session's own if no other        *)
(* session plans one and none goes through the TUN of another.             *)
OwnEndpoints(s) ==
  \A i \in 1 .. Len(plan[s]) : plan[s][i].key \in EndpointKeys(s) =>
    /\ plan[s][i].via \notin Sessions
    /\ \A t \in Sessions \ {s} : \A j \in DOMAIN plan[t] : plan[t][j].key # plan[s][i].key

(* The host routes to all endpoints are in place: from the last of them to *)
(* the start of the cleanup.                                               *)
Sheltered(s) ==
  /\ pc[s] \in {"routes", "add", "servers", "domains", "up"}
  /\ upto[s] >= Len(Endpoints[s])

(* A packet to a session's endpoint is never routed into the session's own *)
(* TUN by a route the daemon adds, at any point of its set-up or cleanup:  *)
(* add_routes_with_predelete adds the endpoint routes first and            *)
(* cleanup_routes deletes them last.  The connected route of a TUN whose   *)
(* subnet holds the endpoint does capture it, but only before the endpoint *)
(* routes are in place and once the cleanup has begun.  Exempt are         *)
(* sessions that share an endpoint route, those with a step of their       *)
(* cleanup that failed, and an endpoint that is an address of the TUN.     *)
EndpointNeverLoops ==
  \A s \in Sessions : OwnEndpoints(s) /\ (\A x \in residue.routes : x[1] # s) =>
    \A i \in DOMAIN Endpoints[s] :
      LET e == Endpoints[s][i] IN
      s \in Selected(e) /\ HostKey(e) \notin Connected[s] =>
        ~ Sheltered(s) /\ LongestMatch(e) \in Connected[s]

(* Once no session is left the system is as it was before the first,       *)
(* however far the set-ups came, whichever commands were cut off half-way, *)
(* and in whatever order sessions with the same endpoint or prefixes end:  *)
(* no route and no resolver setting has stayed behind, but for those whose *)
(* own removal failed, and no entry of others is gone, but for host routes *)
(* to endpoints.  A failed step of cleanup_routes does not stop it,        *)
(* mgr.delete names the TUN interface, and an add that meets an entry      *)
(* fails the set-up instead of replacing it.                               *)
SystemRestored ==
  (\A s \in Sessions : pc[s] \in {"idle", "gone"}) =>
    /\ \A k \in Keys : (\A s \in Sessions : <<s, k>> \notin residue.routes) => table[k] \subseteq Start[k]
    /\ \A s \in Sessions \ residue.dns : resolver[s] = {}
    /\ \A k \in Keys \ UNION { EndpointKeys(s) : s \in Sessions } : Start[k] \subseteq table[k]
=============================================================================
