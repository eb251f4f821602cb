------------------------------ MODULE NrptRules ------------------------------
(***************************************************************************)
(* The name resolution policy rules of Windows daemons: several daemon     *)
(* processes, each with sessions, write rules into one table of the        *)
(* system.  A rule's comment names the process identifier, the creation    *)
(* time and the interface of its owner.  Processes may end at any time     *)
(* and their identifiers come back.                                        *)
(*                                                                         *)
(* A rule is <<pid, creation time, interface, namespace>>, a session a     *)
(* pair of a process identifier and an interface.                          *)
(***************************************************************************)
EXTENDS Integers

CONSTANTS
  Pids,        \* process identifiers
  Interfaces,  \* interface names
  Namespaces,  \* DNS namespaces of a session, each a rule
  MaxClock     \* bound: processes that are started

ASSUME NrptAssumption == MaxClock \in Nat

Sessions == Pids \X Interfaces
Rules == Pids \X (1 .. MaxClock) \X Interfaces \X Namespaces

VARIABLES
  clock,    \* creation time of the newest process
  born,     \* per identifier: creation time of its process, 0 if none
  rules,    \* the system's table
  pc,       \* per session: its next step
  todo,     \* per session: rules that the stale script has yet to look at
  cleared,  \* processes whose flag in clear_stale_nrpt_rules_once is set
  stale,    \* per process: rules without a living owner when its script began
  spared    \* per process: rules kept for want of access to their owner

vars == <<clock, born, rules, pc, todo, cleared, stale, spared>>

\* Every variable has its type, and sessions belong to living processes.
TypeOK ==
  /\ clock \in 0 .. MaxClock
  /\ born \in [Pids -> 0 .. clock]
  /\ rules \subseteq Rules
  /\ pc \in [Sessions -> {"off", "scan", "clear", "add", "on", "remove"}]
  /\ todo \in [Sessions -> SUBSET Rules]
  /\ cleared \subseteq Pids
  /\ stale \in [Pids -> SUBSET Rules] /\ spared \in [Pids -> SUBSET Rules]
  /\ \A t \in Sessions : pc[t] # "off" => born[t[1]] # 0

Init ==
  /\ clock = 0
  /\ born = [p \in Pids |-> 0]
  /\ rules = {}
  /\ pc = [t \in Sessions |-> "off"]
  /\ todo = [t \in Sessions |-> {}]
  /\ cleared = {}
  /\ stale = [p \in Pids |-> {}]
  /\ spared = [p \in Pids |-> {}]

\* Faulty variant: a process is recognized by its identifier alone.
AliveByPid(r) == born[r[1]] # 0

\* The process that a comment names is running.
Alive(r) == born[r[1]] = r[2]

\* rule_comment: what the comments of a session's rules begin with, and the
\* rules that have it.
Comment(t) == <<t[1], born[t[1]], t[2]>>
RulesOf(t) == {<<t[1], born[t[1]], t[2], n>> : n \in Namespaces}

Proceed(t, l) == pc' = [pc EXCEPT ![t] = l]

-----------------------------------------------------------------------------
(* Processes, external.                                                    *)

\* A daemon starts; its creation time is new.
LaunchDaemon(p) ==
  /\ born[p] = 0
  /\ clock < MaxClock
  /\ clock' = clock + 1
  /\ born' = [born EXCEPT ![p] = clock + 1]
  /\ UNCHANGED <<rules, pc, todo, cleared, stale, spared>>

\* A daemon ends, with whatever its sessions have left in the table.
Die(p) ==
  /\ born[p] # 0
  /\ born' = [born EXCEPT ![p] = 0]
  /\ pc' = [t \in Sessions |-> IF t[1] = p THEN "off" ELSE pc[t]]
  /\ todo' = [t \in Sessions |-> IF t[1] = p THEN {} ELSE todo[t]]
  /\ cleared' = cleared \ {p}
  /\ stale' = [stale EXCEPT ![p] = {}]
  /\ spared' = [spared EXCEPT ![p] = {}]
  /\ UNCHANGED <<clock, rules>>

-----------------------------------------------------------------------------
(* clear_stale_nrpt_rules_once.                                            *)

\* A session starts.  Unless the flag is set it runs the stale script, which
\* reads the whole table; the lock admits one session of a process.
StartSession(t) ==
  LET p == t[1] IN
  /\ pc[t] = "off" /\ born[p] # 0
  /\ \A i \in Interfaces : pc[<<p, i>>] # "scan"
  /\ IF p \in cleared
       THEN Proceed(t, "clear") /\ UNCHANGED <<todo, stale, spared>>
       ELSE /\ Proceed(t, "scan")
            /\ todo' = [todo EXCEPT ![t] = rules]
            /\ stale' = [stale EXCEPT ![p] = {r \in rules : born[r[1]] # r[2]}]
            /\ spared' = [spared EXCEPT ![p] = {}]
  /\ UNCHANGED <<clock, born, rules, cleared>>

\* The script looks at a rule and removes it if its owner has ended.
ScanRule(t, r) ==
  /\ pc[t] = "scan" /\ r \in todo[t]
  /\ Alive(r) \/ r \in rules
  /\ todo' = [todo EXCEPT ![t] = @ \ {r}]
  /\ rules' = IF Alive(r) THEN rules ELSE rules \ {r}
  /\ UNCHANGED <<clock, born, pc, cleared, stale, spared>>

\* There is a process with that identifier, but no access to it.
ScanDenied(t, r) ==
  /\ pc[t] = "scan" /\ r \in todo[t]
  /\ born[r[1]] # 0
  /\ todo' = [todo EXCEPT ![t] = @ \ {r}]
  /\ spared' = [spared EXCEPT ![t[1]] = @ \cup {r}]
  /\ UNCHANGED <<clock, born, rules, pc, cleared, stale>>

\* The script fails: it runs into its deadline, or a rule that it would
\* remove is already gone.  The session does not start.
ScanFail(t) ==
  /\ pc[t] = "scan"
  /\ Proceed(t, "off")
  /\ todo' = [todo EXCEPT ![t] = {}]
  /\ UNCHANGED <<clock, born, rules, cleared, stale, spared>>

\* The script is through, and the flag is set.
ScanDone(t) ==
  /\ pc[t] = "scan" /\ todo[t] = {}
  /\ cleared' = cleared \cup {t[1]}
  /\ Proceed(t, "clear")
  /\ UNCHANGED <<clock, born, rules, todo, stale, spared>>

-----------------------------------------------------------------------------
(* configure_session and the cleanup hook.                                 *)

\* Faulty variant: a session clears the rules of its whole process.
ClearRulesOfProcess(t) ==
  /\ \/ pc[t] = "clear" /\ Proceed(t, "add")
     \/ pc[t] = "remove" /\ Proceed(t, "off")
  /\ rules' = {r \in rules : <<r[1], r[2]>> # <<t[1], born[t[1]]>>}
  /\ UNCHANGED <<clock, born, todo, cleared, stale, spared>>

\* clear_nrpt_rules, before the rules are added and in the cleanup hook:
\* rules with the complete comment are removed.
ClearRules(t) ==
  /\ \/ pc[t] = "clear" /\ Proceed(t, "add")
     \/ pc[t] = "remove" /\ Proceed(t, "off")
  /\ rules' = {r \in rules : <<r[1], r[2], r[3]>> # Comment(t)}
  /\ UNCHANGED <<clock, born, todo, cleared, stale, spared>>

\* The set script adds a rule.
AddRule(t, n) ==
  /\ pc[t] = "add"
  /\ rules' = rules \cup {<<t[1], born[t[1]], t[2], n>>}
  /\ UNCHANGED <<clock, born, pc, todo, cleared, stale, spared>>

\* Faulty variant: the set script goes on after an error.
ConfiguredEarly(t) ==
  /\ pc[t] = "add"
  /\ Proceed(t, "on")
  /\ UNCHANGED <<clock, born, rules, todo, cleared, stale, spared>>

\* All rules are added and the session is configured.
Configured(t) ==
  /\ pc[t] = "add"
  /\ RulesOf(t) \subseteq rules
  /\ Proceed(t, "on")
  /\ UNCHANGED <<clock, born, rules, todo, cleared, stale, spared>>

\* The set-up fails or the session ends: the cleanup hook runs.
Close(t) ==
  /\ pc[t] \in {"clear", "add", "on"}
  /\ Proceed(t, "remove")
  /\ UNCHANGED <<clock, born, rules, todo, cleared, stale, spared>>

\* The clear script fails in the cleanup hook; the session is over anyway.
CleanupFail(t) ==
  /\ pc[t] = "remove"
  /\ Proceed(t, "off")
  /\ UNCHANGED <<clock, born, rules, todo, cleared, stale, spared>>

-----------------------------------------------------------------------------
RuleStep(t) ==
  \/ StartSession(t) \/ ScanFail(t) \/ ScanDone(t)
  \/ \E r \in todo[t] : ScanRule(t, r) \/ ScanDenied(t, r)
  \/ ClearRules(t) \/ Configured(t) \/ Close(t) \/ CleanupFail(t)
  \/ \E n \in Namespaces : AddRule(t, n)

Next ==
  \/ \E p \in Pids : LaunchDaemon(p) \/ Die(p)
  \/ \E t \in Sessions : RuleStep(t)

Spec == Init /\ [][Next]_vars

-----------------------------------------------------------------------------
\* A session that is configured has all its rules, whatever stale scripts of
\* other daemons and other sessions of its own do.
ConfiguredHasRules == \A t \in Sessions : pc[t] = "on" => RulesOf(t) \subseteq rules

\* A rule of a running process disappears only by its own session's hand.
OnlyOwnerRemoves ==
  [][\A r \in rules \ rules' : Alive(r) => pc[<<r[1], r[3]>>] \in {"clear", "remove"}]_vars

\* Once a process has its flag set, no rule is left whose owner had ended
\* before, even if its identifier is in use again, unless that process could
\* not be looked at.
StaleRulesGone == \A p \in cleared : rules \cap stale[p] \subseteq spared[p]
=============================================================================
