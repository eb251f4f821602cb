-------------------------- MODULE MCSystemRequests --------------------------
(* SystemRequests for TLC.                                                 *)
EXTENDS SystemRequests

MCPayloads == {NoInput, 0, 2}

\* A notice with this daemon's identifier, and a reply to another process
\* with a number in use here.
MCOthers == {
  [op |-> "notice", pid |-> "own", seq |-> 0, errno |-> FALSE],
  [op |-> "delete", pid |-> "other", seq |-> 1, errno |-> TRUE]}

V4(a, b, c, d) == <<a, b, c, d>>
V6(a, b, c, d) == <<a, b, 0, 0, c, 0, 0, 0, 0, 0, 0, 0, 0, 0, 0, d>>

\* Defaults with and without a scope, prefixes that end inside a byte, a host
\* route beside a network of the same length, a link-local network, and
\* routes that are refused as they cannot be restored.
R(f, n, p, fl, i, g, s) ==
  [family |-> f, net |-> n, prefix |-> p, flags |-> fl, index |-> i, gateway |-> g, source |-> s]
MCKernelRoutes == {
  R(AfInet, V4(0, 0, 0, 0), 0, {"gateway"}, 1, V4(10, 0, 0, 1), <<>>),
  R(AfInet, V4(0, 0, 0, 0), 0, {"gateway", "ifscope"}, 2, V4(10, 0, 0, 1), <<>>),
  R(AfInet, V4(10, 0, 0, 0), 8, {}, 1, <<>>, V4(10, 0, 0, 7)),
  R(AfInet, V4(10, 128, 0, 0), 9, {}, 3, <<>>, <<>>),
  R(AfInet, V4(10, 0, 0, 9), 32, {"host"}, 1, V4(127, 0, 0, 1), V4(10, 0, 0, 7)),
  R(AfInet, V4(10, 0, 0, 9), 32, {}, 1, <<>>, <<>>),
  R(AfInet, V4(10, 0, 0, 9), 32, {"host", "proxy"}, 1, <<>>, <<>>),
  R(AfInet, V4(10, 0, 0, 0), 9, {"reject"}, 1, <<>>, <<>>),
  R(AfInet6, V6(0, 0, 0, 0), 0, {"gateway"}, 1, V6(254, 128, 0, 1), V6(32, 1, 0, 5)),
  R(AfInet6, V6(254, 128, 0, 0), 64, {}, 2, <<>>, <<>>),
  R(AfInet6, V6(32, 1, 0, 9), 128, {"host"}, 3, <<>>, <<>>)}

VR(f, ip, p) == [family |-> f, ip |-> ip, prefix |-> p, index |-> 3]
MCVpnRoutes == {
  VR(AfInet, V4(0, 0, 0, 0), 0), VR(AfInet, V4(10, 1, 2, 3), 8), VR(AfInet, V4(10, 200, 2, 3), 9),
  VR(AfInet, V4(10, 0, 0, 9), 32), VR(AfInet6, V6(1, 0, 0, 0), 0),
  VR(AfInet6, V6(32, 1, 0, 9), 128), VR(AfInet6, V6(254, 128, 0, 9), 64)}

MCPeers == {
  [family |-> AfInet, ip |-> V4(10, 0, 0, 9)],
  [family |-> AfInet6, ip |-> V6(32, 1, 0, 9)]}
=============================================================================
