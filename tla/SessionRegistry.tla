-------------------------- MODULE SessionRegistry --------------------------
(***************************************************************************)
(* What the daemon promises about interfaces, whatever its connections,    *)
(* tasks and threads do: an interface is held by at most one session, at   *)
(* most Limit are held, an interface is built only while it is held and    *)
(* given back only once it is dismantled, and the process reports a clean  *)
(* exit only when it holds nothing.                                        *)
(***************************************************************************)
EXTENDS Integers, FiniteSets

CONSTANTS Interfaces, Limit

VARIABLES
  held,    \* interfaces reserved by a session
  built,   \* interfaces that exist in the operating system
  status   \* of the daemon process

vars == <<held, built, status>>

Init == held = {} /\ built = {} /\ status = "serving"

Reserve(i) ==
  /\ i \notin held
  /\ Cardinality(held) < Limit
  /\ held' = held \cup {i}
  /\ UNCHANGED <<built, status>>

Build(i) ==
  /\ i \in held \ built
  /\ built' = built \cup {i}
  /\ UNCHANGED <<held, status>>

Dismantle(i) ==
  /\ i \in built
  /\ built' = built \ {i}
  /\ UNCHANGED <<held, status>>

GiveBack(i) ==
  /\ i \in held \ built
  /\ held' = held \ {i}
  /\ UNCHANGED <<built, status>>

Drain == held = {} /\ status' = "drained" /\ UNCHANGED <<held, built>>

Die == status' = "killed" /\ UNCHANGED <<held, built>>

Next ==
  /\ status = "serving"
  /\ \/ \E i \in Interfaces : Reserve(i) \/ Build(i) \/ Dismantle(i) \/ GiveBack(i)
     \/ Drain
     \/ Die

Spec == Init /\ [][Next]_vars
=============================================================================
