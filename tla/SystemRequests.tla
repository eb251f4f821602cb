--------------------------- MODULE SystemRequests ---------------------------
(***************************************************************************)
(* How a worker of the daemon deals with the operating system: it runs a   *)
(* command, exchanges a routing message, or looks for a route and writes   *)
(* one.  The three share no state, so a behaviour is of one of them, which *)
(* `part` says.  MacRoutes, PlatformRoutes and NrptRules are about the     *)
(* order of such requests, and take for granted what is shown here.        *)
(***************************************************************************)
EXTENDS CommandRun, RoutingSocket, RouteMessages

VARIABLE part

requestVars == <<part, commandVars, socketVars, messageVars>>

RequestsInit ==
  /\ part \in {"command", "socket", "dump"}
  /\ CommandInit /\ SocketInit /\ MessagesInit

RequestsNext ==
  /\ UNCHANGED part
  /\ \/ part = "command" /\ CommandNext /\ UNCHANGED <<socketVars, messageVars>>
     \/ part = "socket" /\ SocketNext /\ UNCHANGED <<commandVars, messageVars>>
     \/ part = "dump" /\ MessagesNext /\ UNCHANGED <<commandVars, socketVars>>

\* The fair actions of a part that is not under way are never enabled.
RequestsSpec ==
  RequestsInit /\ [][RequestsNext]_requestVars /\ CommandFairness /\ SocketFairness

-----------------------------------------------------------------------------
\* Every request comes to an end: a command whatever the tool and its helper
\* do (command_output), an exchange whatever else arrives on its socket.
RequestsReturn == CommandReturns /\ ExchangeEnds

\* Routes are read and written as the kernel means them: find answers the
\* route with the wanted key and same_path tells whether it is the wanted
\* one, and every request means the route it was made for (Snapshot::message,
\* tun_route, EndpointRoute::message).
RoutesKeepTheirMeaning == FindIsExact /\ RequestMeansRoute
=============================================================================
