---------------------------- MODULE MCMacRoutes ----------------------------
(* An instance of MacRoutes over two-bit addresses: the default prefix,    *)
(* its halves and the host prefixes.                                       *)
EXTENDS MacRoutes

Default == [net |-> 0, len |-> 0]
Half(n) == [net |-> n, len |-> 1]

MCStart == [k \in Keys |-> CASE k = Default -> "gateway"
                             [] k = HostKey(3) -> "lan"
                             [] OTHER -> NoRoute]

(* Two full tunnels to different servers, each with the server in the      *)
(* subnet of its TUN; the first names one prefix twice and one that is its *)
(* own endpoint, the second the subnet of its TUN.                         *)
MCEndpoints == "utun0" :> <<0>> @@ "utun1" :> <<3>>
MCAllowed == "utun0" :> <<Default, HostKey(0), Default>> @@ "utun1" :> <<Half(1), Default>>
MCConnected == "utun0" :> {Half(0)} @@ "utun1" :> {Half(1)}
MCEdited == {Default, HostKey(0), HostKey(3)}
=============================================================================
