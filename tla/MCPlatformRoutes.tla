-------------------------- MODULE MCPlatformRoutes --------------------------
(* An instance of PlatformRoutes over two-bit addresses.                   *)
EXTENDS PlatformRoutes, TLC

Default == [net |-> 0, len |-> 0]

(* Half of the addresses behind a gateway, one on the LAN, and address 2   *)
(* reachable through a tunnel only.                                        *)
Half == [net |-> 0, len |-> 1]

MCStart == [k \in Keys |-> CASE k = Half -> {"gateway"}
                             [] k = HostKey(3) -> {"lan"}
                             [] OTHER -> {}]

(* The first and the second tunnel share a server, the second has another  *)
(* one behind the first, and the first and the third are full tunnels to   *)
(* different servers.  The first has an address in its server's subnet.    *)
MCEndpoints == "tun0" :> <<0>> @@ "tun1" :> <<0, 2>> @@ "tun2" :> <<1>>
MCConnected == "tun0" :> {Half} @@ "tun1" :> {} @@ "tun2" :> {HostKey(2)}
MCAllowed == "tun0" :> <<Default, HostKey(0)>> @@ "tun1" :> <<HostKey(3)>> @@ "tun2" :> <<Half, Default>>
=============================================================================
