--------------------------- MODULE MCDaemonServer ---------------------------
(* Small instances of DaemonServer.                                        *)
EXTENDS DaemonServer, TLC

CONSTANTS c1, c2

\* Two spellings of one macOS device and one other name.
MacNames == {"utun1", "utun01", "utun2"}
MacKernelName == [n \in MacNames |-> IF n = "utun01" THEN "utun1" ELSE n]

\* A platform that takes names as they are.
PlainNames == {"utun1"}
PlainKernelName == [n \in PlainNames |-> n]

TwoConns == {c1, c2}
OneConn == {c1}
Symmetry == Permutations(TwoConns)
=============================================================================
