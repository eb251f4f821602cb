--------------------------- MODULE MCDaemonProcess --------------------------
(* DaemonProcess for TLC: two threads and two launches; the reader and the *)
(* writer of a session bridge, and a second writer; two connections, one   *)
(* session and two threads that log, on every system; frames of up to two  *)
(* bytes with headers of two bits, and messages of no and of three bytes.  *)
EXTENDS DaemonProcess

CONSTANTS app, ui, d1, d2, reader, writer1, writer2, c1, c2, tun, main, other

MCCallers == {app, ui}
MCDaemons == {d1, d2}
MCThreads == {reader, writer1, writer2}
MCTimed == {writer1, writer2}
MCConns == {c1, c2}
MCTunNames == {tun}
MCLoggers == {main, other}
MCEncodings == {<<>>, <<1>>, <<1, 0>>, <<0, 1, 1>>}
MCSystems == {"linux", "macos", "windows"}
=============================================================================
