----------------------------- MODULE MacRoutes -----------------------------
(***************************************************************************)
(* Route and resolver configuration of a TUN session on macOS: the routes  *)
(* of routes_macos.rs and the resolver entries of dns_macos.rs, as         *)
(* configure_session of macos.rs drives them.                              *)
(*                                                                         *)
(* Sessions are configured and cleaned up on blocking workers, so every    *)
(* kernel request is a step of its own.  A route entry is abstracted to    *)
(* the interface and gateway it goes through, which is what same_path      *)
(* compares.  A request that fails may or may not have taken effect.       *)
(***************************************************************************)
EXTENDS RouteTable, SequencesExt

CONSTANTS
  Sessions,    \* the sessions; each is also the path through its own TUN
  Endpoints,   \* per session: the sequence of peer endpoint addresses
  Allowed,     \* per session: the sequence of allowed prefixes
  Connected,   \* per session: the prefixes of the addresses of its TUN
  Resolvers,   \* the sessions whose configuration has servers and domains
  Start,       \* the routing table before any session
  Proxied,     \* paths of kernel proxy routes, which cannot be restored
  Outside,     \* paths that other programs install
  Edited,      \* prefixes that other programs change the entry of
  MaxEvents    \* bound: sessions that begin, requests that fail, and edits
               \* of the table by other programs, together

ASSUME MacRoutesAssumption ==
  /\ NoRoute \notin Sessions \cup Outside
  /\ DOMAIN Start = Keys /\ Edited \subseteq Keys
  /\ MaxEvents \in Nat

VARIABLES
  table,     \* the kernel's table: prefix -> path or NoRoute
  resolver,  \* per session: the entries it has in the dynamic store
  pc,        \* per session: where its worker is
  todo,      \* per session: route requests not handled yet
  changes,   \* per session: SessionRoutes::changes
  faults,    \* requests that have failed
  edits,     \* edits made by other programs
  want,      \* history: the table as it would be without any session
  spoiled,   \* history: prefixes whose restoration was made impossible
  unclean,   \* history: sessions that failed to remove their resolver entries
  live       \* history: sessions in the order they started

sessionVars == <<resolver, pc, todo, changes>>
historyVars == <<want, spoiled, unclean, live>>
vars == <<table, sessionVars, faults, edits, historyVars>>

\* Faulty variant: the VPN routes before the endpoint routes.
RequestsSwapped(s) ==
  FilteredRoutes(Allowed[s], Endpoints[s], s) \o
    EndpointRoutes(table, Endpoints[s])

Requests(s) ==
  EndpointRoutes(table, Endpoints[s]) \o
    FilteredRoutes(Allowed[s], Endpoints[s], s)

(* The prefixes a session may have an entry of, or may change.             *)
Planned(s) ==
  { HostKey(Endpoints[s][i]) : i \in DOMAIN Endpoints[s] }
    \cup { Allowed[s][i] : i \in DOMAIN Allowed[s] } \cup Connected[s]

Request(s) == Head(todo[s])

(* Restoration takes the recorded changes from the last to the first.      *)
Undo(s) == Last(changes[s])

Goto(s, l) == pc' = [pc EXCEPT ![s] = l]

Begun == { s \in Sessions : pc[s] # "idle" }

Room == faults + edits + Cardinality(Begun) < MaxEvents

Fault == Room /\ faults' = faults + 1

Entries == {"dns", "interface"}

(* A path exists as long as the interface it goes through does.            *)
Exists(via) == via \in Sessions => pc[via] \notin {"idle", "resolved", "gone"}

(* The prefixes session s shares with one that is being set up or cleaned  *)
(* up, or that started after s: when s starts or closes now, the sessions  *)
(* are not nested and neither can tell what to restore.                    *)
Crossed(s) ==
  LET after == { t \in Sessions : \E i, j \in DOMAIN live :
                   i < j /\ live[i] = s /\ live[j] = t }
      busy == { t \in ToSet(live) \ {s} : pc[t] # "up" }
  IN  UNION { Planned(s) \cap Planned(t) : t \in after \cup busy }

Init ==
  /\ table = Start
  /\ resolver \in [Sessions -> {{}, Entries}]   \* a killed daemon leaves its own
  /\ pc = [s \in Sessions |-> "idle"]
  /\ todo = [s \in Sessions |-> <<>>]
  /\ changes = [s \in Sessions |-> <<>>]
  /\ faults = 0 /\ edits = 0
  /\ want = Start
  /\ spoiled = {} /\ unclean = {}
  /\ live = <<>>

-----------------------------------------------------------------------------
(* SessionManager::start looks the endpoints up while there is no device.  *)
Resolve(s) ==
  /\ pc[s] = "idle" /\ Room
  /\ Resolvable(table, Endpoints[s])
  /\ todo' = [todo EXCEPT ![s] = Requests(s)]
  /\ Goto(s, "resolved")
  /\ UNCHANGED <<table, resolver, changes, faults, edits, historyVars>>

ResolveFail(s) ==
  /\ pc[s] = "idle" /\ Room
  /\ \/ ~ Resolvable(table, Endpoints[s]) /\ UNCHANGED faults
     \/ Endpoints[s] # <<>> /\ Fault
  /\ Goto(s, "gone")
  /\ UNCHANGED <<table, resolver, todo, changes, edits, historyVars>>

(* The device is created, and with its addresses the kernel installs       *)
(* connected routes where a prefix has no entry.  What still follows       *)
(* before configure_session (the device's mode, the interrupt event) may   *)
(* fail: then the device is dropped and nothing else was done.             *)
CreateDevice(s) ==
  /\ pc[s] = "resolved"
  /\ table' = [k \in Keys |-> IF k \in Connected[s] /\ table[k] = NoRoute THEN s ELSE table[k]]
  /\ \/ Goto(s, "find") /\ UNCHANGED faults
     \/ Goto(s, "unset") /\ Fault
  /\ spoiled' = spoiled \cup Crossed(s)
  /\ live' = Append(live, s)
  /\ UNCHANGED <<resolver, todo, changes, edits, want, unclean>>

CreateFail(s) ==
  /\ pc[s] = "resolved"
  /\ Fault
  /\ Goto(s, "gone")
  /\ UNCHANGED <<table, resolver, todo, changes, edits, historyVars>>

(* SessionRoutes::add up to the first request: a prefix already changed by *)
(* this session is skipped, an entry that cannot be put back is refused,   *)
(* and the change is recorded before anything is deleted.                  *)
Recorded(s) == \E i \in DOMAIN changes[s] : changes[s][i].key = Request(s).key

Skip(s) ==
  /\ pc[s] = "find" /\ todo[s] # <<>>
  /\ Recorded(s)
  /\ todo' = [todo EXCEPT ![s] = Tail(@)]
  /\ UNCHANGED <<table, resolver, pc, changes, faults, edits, historyVars>>

Record(s) ==
  /\ pc[s] = "find" /\ todo[s] # <<>>
  /\ ~ Recorded(s)
  /\ LET r == Request(s)
         prev == table[r.key]
     IN  /\ prev \notin Proxied
         /\ changes' = [changes EXCEPT ![s] =
              Append(@, [key |-> r.key, via |-> r.via, prev |-> prev,
                         tried |-> prev = NoRoute])]
         /\ Goto(s, IF prev = NoRoute THEN "add" ELSE "delete")
  /\ UNCHANGED <<table, resolver, todo, faults, edits, historyVars>>

FindFail(s) ==
  /\ pc[s] = "find" /\ todo[s] # <<>>
  /\ ~ Recorded(s)
  /\ \/ Fault
     \/ table[Request(s).key] \in Proxied /\ UNCHANGED faults
  /\ Goto(s, "restore")
  /\ UNCHANGED <<table, resolver, todo, changes, edits, historyVars>>

(* RTM_DELETE names a prefix, whatever entry it has by now.                *)
Delete(s) ==
  /\ pc[s] = "delete"
  /\ table[Request(s).key] # NoRoute
  /\ table' = [table EXCEPT ![Request(s).key] = NoRoute]
  /\ changes' = [changes EXCEPT ![s][Len(changes[s])].tried = TRUE]
  /\ Goto(s, "add")
  /\ UNCHANGED <<resolver, todo, faults, edits, historyVars>>

(* An error of the request, ESRCH included, ends the set-up.               *)
DeleteFail(s) ==
  /\ pc[s] = "delete"
  /\ LET k == Request(s).key
     IN  \/ table[k] = NoRoute /\ UNCHANGED <<table, faults>>
         \/ Fault /\ table' \in {table, [table EXCEPT ![k] = NoRoute]}
  /\ Goto(s, "restore")
  /\ UNCHANGED <<resolver, todo, changes, edits, historyVars>>

Add(s) ==
  /\ pc[s] = "add"
  /\ table[Request(s).key] = NoRoute /\ Exists(Request(s).via)
  /\ table' = [table EXCEPT ![Request(s).key] = Request(s).via]
  /\ todo' = [todo EXCEPT ![s] = Tail(@)]
  /\ Goto(s, "find")
  /\ UNCHANGED <<resolver, changes, faults, edits, historyVars>>

AddFail(s) ==
  /\ pc[s] = "add"
  /\ LET r == Request(s)
         possible == table[r.key] = NoRoute /\ Exists(r.via)
     IN  \/ ~ possible /\ UNCHANGED <<table, faults>>
         \/ Fault /\ \/ UNCHANGED table
                     \/ possible /\ table' = [table EXCEPT ![r.key] = r.via]
  /\ Goto(s, "restore")
  /\ UNCHANGED <<resolver, todo, changes, edits, historyVars>>

(* install is over: old resolver entries go, then the new ones are set.    *)
DnsClear(s) ==
  /\ pc[s] = "find" /\ todo[s] = <<>>
  /\ \/ /\ resolver' = [resolver EXCEPT ![s] = {}]
        /\ Goto(s, IF s \in Resolvers THEN "dnsSet" ELSE "up")
        /\ UNCHANGED faults
     \/ /\ Fault
        /\ \E left \in SUBSET resolver[s] : resolver' = [resolver EXCEPT ![s] = left]
        /\ Goto(s, "restore")
  /\ UNCHANGED <<table, todo, changes, edits, historyVars>>

(* Both entries are written at once and read back.                         *)
DnsSet(s) ==
  /\ pc[s] = "dnsSet"
  /\ \/ /\ resolver' = [resolver EXCEPT ![s] = Entries]
        /\ Goto(s, "up")
        /\ UNCHANGED faults
     \/ /\ Fault
        /\ resolver' \in {resolver, [resolver EXCEPT ![s] = Entries]}
        /\ Goto(s, "restore")
  /\ UNCHANGED <<table, todo, changes, edits, historyVars>>

-----------------------------------------------------------------------------
(* TunSession::close runs the cleanup hook.                                *)
Close(s) ==
  /\ pc[s] = "up"
  /\ Goto(s, "restore")
  /\ spoiled' = spoiled \cup Crossed(s)
  /\ UNCHANGED <<table, resolver, todo, changes, faults, edits, want, unclean, live>>

Drop(s) == changes' = [changes EXCEPT ![s] = Front(@)]

\* Faulty variant: restore does not compare the entry with its own.
RestoreFindBlind(s) ==
  /\ pc[s] = "restore" /\ changes[s] # <<>>
  /\ LET c == Undo(s)
         found == table[c.key]
     IN  CASE found = NoRoute /\ c.prev # NoRoute -> Goto(s, "readd") /\ UNCHANGED changes
           [] found # NoRoute /\ c.tried -> Goto(s, "redelete") /\ UNCHANGED changes
           [] OTHER -> Drop(s) /\ UNCHANGED pc
  /\ UNCHANGED <<table, resolver, todo, faults, edits, historyVars>>

(* RouteChange::restore: look at the prefix again.  An entry of somebody   *)
(* else is left alone, and so is one whose deletion never succeeded.       *)
RestoreFind(s) ==
  /\ pc[s] = "restore" /\ changes[s] # <<>>
  /\ LET c == Undo(s)
         found == table[c.key]
     IN  CASE found = NoRoute /\ c.prev # NoRoute -> Goto(s, "readd") /\ UNCHANGED changes
           [] found # NoRoute /\ c.tried /\ found = c.via -> Goto(s, "redelete") /\ UNCHANGED changes
           [] OTHER -> Drop(s) /\ UNCHANGED pc
  /\ UNCHANGED <<table, resolver, todo, faults, edits, historyVars>>

RestoreFindFail(s) ==
  /\ pc[s] = "restore" /\ changes[s] # <<>>
  /\ Fault
  /\ Drop(s)
  /\ spoiled' = spoiled \cup {Undo(s).key}
  /\ UNCHANGED <<table, resolver, pc, todo, edits, want, unclean, live>>

Redelete(s) ==
  /\ pc[s] = "redelete"
  /\ table' = [table EXCEPT ![Undo(s).key] = NoRoute]
  /\ IF Undo(s).prev # NoRoute
       THEN Goto(s, "readd") /\ UNCHANGED changes
       ELSE Goto(s, "restore") /\ Drop(s)
  /\ UNCHANGED <<resolver, todo, faults, edits, historyVars>>

RedeleteFail(s) ==
  /\ pc[s] = "redelete"
  /\ Fault
  /\ table' \in {table, [table EXCEPT ![Undo(s).key] = NoRoute]}
  /\ Drop(s)
  /\ Goto(s, "restore")
  /\ spoiled' = spoiled \cup {Undo(s).key}
  /\ UNCHANGED <<resolver, todo, edits, want, unclean, live>>

Readd(s) ==
  /\ pc[s] = "readd"
  /\ LET c == Undo(s)
         possible == table[c.key] = NoRoute /\ Exists(c.prev)
     IN  IF possible THEN table' = [table EXCEPT ![c.key] = c.prev]
                     ELSE UNCHANGED table
  /\ Drop(s)
  /\ Goto(s, "restore")
  /\ UNCHANGED <<resolver, todo, faults, edits, historyVars>>

ReaddFail(s) ==
  /\ pc[s] = "readd"
  /\ Fault
  /\ Drop(s)
  /\ Goto(s, "restore")
  /\ spoiled' = spoiled \cup {Undo(s).key}
  /\ UNCHANGED <<table, resolver, todo, edits, want, unclean, live>>

(* The resolver entries go whatever became of the routes.                  *)
DnsUndo(s) ==
  /\ pc[s] = "restore" /\ changes[s] = <<>>
  /\ \/ /\ resolver' = [resolver EXCEPT ![s] = {}]
        /\ UNCHANGED <<faults, unclean>>
     \/ /\ Fault
        /\ \E left \in SUBSET resolver[s] : resolver' = [resolver EXCEPT ![s] = left]
        /\ unclean' = unclean \cup {s}
  /\ todo' = [todo EXCEPT ![s] = <<>>]
  /\ Goto(s, "closed")
  /\ UNCHANGED <<table, changes, edits, want, spoiled, live>>

(* The device is dropped, and the kernel drops the routes through it.      *)
DropDevice(s) ==
  /\ pc[s] \in {"closed", "unset"}
  /\ table' = [k \in Keys |-> IF table[k] = s THEN NoRoute ELSE table[k]]
  /\ live' = SelectSeq(live, LAMBDA t : t # s)
  /\ Goto(s, "gone")
  /\ UNCHANGED <<resolver, todo, changes, faults, edits, want, spoiled, unclean>>

-----------------------------------------------------------------------------
(* Another program installs a route, or removes one.  Between a session's  *)
(* look at a prefix and its deletion nobody can tell the two apart; nor    *)
(* can a session tell a foreign entry along its own path from its own, or  *)
(* a foreign entry removed again from its own removed.                     *)
Window(k) ==
  \E s \in Sessions : \/ pc[s] = "delete" /\ Request(s).key = k
                      \/ pc[s] = "redelete" /\ Undo(s).key = k

Held(k) == UNION { { changes[s][i].via : i \in { j \in DOMAIN changes[s] : changes[s][j].key = k } }
                     : s \in Sessions }

Install(k, via) ==
  /\ table' = [table EXCEPT ![k] = via]
  /\ want' = [want EXCEPT ![k] = via]
  /\ spoiled' = IF Window(k) \/ via \in Held(k) THEN spoiled \cup {k} ELSE spoiled

Uninstall(k) ==
  /\ table[k] # NoRoute
  /\ table' = [table EXCEPT ![k] = NoRoute]
  /\ want' = IF Held(k) = {} THEN [want EXCEPT ![k] = NoRoute] ELSE want
  /\ spoiled' = IF Window(k) \/ (Held(k) # {} /\ table[k] \in Outside)
                  THEN spoiled \cup {k} ELSE spoiled

Edit ==
  /\ Room /\ edits' = edits + 1
  /\ \E k \in Edited : Uninstall(k) \/ \E via \in Outside : Install(k, via)
  /\ UNCHANGED <<sessionVars, faults, unclean, live>>

Terminated == /\ \A s \in Sessions : pc[s] \in {"idle", "gone"}
              /\ UNCHANGED vars

SetUp(s) == \/ ResolveFail(s) \/ CreateDevice(s) \/ CreateFail(s) \/ Skip(s) \/ Record(s) \/ FindFail(s)
            \/ Delete(s) \/ DeleteFail(s) \/ Add(s) \/ AddFail(s)
            \/ DnsClear(s) \/ DnsSet(s)

CleanUp(s) == \/ RestoreFind(s) \/ RestoreFindFail(s) \/ Redelete(s) \/ RedeleteFail(s)
              \/ Readd(s) \/ ReaddFail(s) \/ DnsUndo(s) \/ DropDevice(s)

Next == \/ \E s \in Sessions : Resolve(s) \/ SetUp(s) \/ Close(s) \/ CleanUp(s)
        \/ Edit
        \/ Terminated

Spec == Init /\ [][Next]_vars

-----------------------------------------------------------------------------
AllGone == \A s \in Sessions : pc[s] \in {"idle", "gone"}

(* Sessions leave the system as if they had not been.  Once none is left   *)
(* every prefix has the entry it had at the start, or what another program *)
(* has made of it since; and a cleaned-up session has no resolver entries, *)
(* its own or those of a killed daemon under the same interface name.      *)
(* This holds whichever set-up requests failed and whether or not a failed *)
(* request took effect, because SessionRoutes::add records a change before *)
(* it deletes, restore_with looks again before it touches an entry and     *)
(* goes on after an error, and the hook clears the resolver whatever       *)
(* became of the routes.  Exempt is what the cleanup itself failed to take *)
(* back, prefixes where another program came between the look and the      *)
(* deletion or used the session's own path, and prefixes shared by         *)
(* sessions that were not nested.                                          *)
SystemRestored ==
  /\ AllGone => \A k \in Keys \ spoiled : table[k] = want[k]
  /\ \A s \in Sessions \ unclean : pc[s] = "closed" => resolver[s] = {}

(* The host routes to all endpoints are in place: from the last of them to *)
(* the start of the cleanup.                                               *)
Sheltered(s) ==
  /\ pc[s] \in {"find", "delete", "add", "dnsSet", "up"}
  /\ Len(todo[s]) <= Len(FilteredRoutes(Allowed[s], Endpoints[s], s))

(* A packet to a session's endpoint is never routed into the session's own *)
(* TUN by a route the daemon adds, at any point of its set-up or cleanup:  *)
(* install puts the endpoint routes first and restore_with takes them away *)
(* last.  The connected route of a TUN whose subnet holds the endpoint     *)
(* does capture it, but only before the endpoint routes are in place and   *)
(* once the cleanup has begun.  This is claimed as long as no other        *)
(* program changes the table and for sessions none of whose prefixes is    *)
(* spoiled; exempt is an endpoint whose host route another session plans   *)
(* too (that session deletes the entry before it adds its own) and one     *)
(* that is an address of the TUN.                                          *)
EndpointNeverLoops ==
  edits = 0 => \A s \in Sessions : Planned(s) \cap spoiled = {} =>
    \A i \in DOMAIN Endpoints[s] :
      LET e == Endpoints[s][i] IN
      /\ Egress(table, e) = s
      /\ HostKey(e) \notin Connected[s] /\ \A t \in Begun \ {s} : HostKey(e) \notin Planned(t)
      => ~ Sheltered(s) /\ Longest(Matches(table, e)) \in Connected[s]
=============================================================================
