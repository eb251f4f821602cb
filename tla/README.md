# Verification of wg-kotlin

wg-kotlin runs WireGuard tunnels from a JVM application. The application uses a
Kotlin library; the parts that need privileges live in a daemon written in Rust
that the application launches and owns. This directory holds TLA+ modules of
both sides, the TLC configurations that check them on small instances, and
TLAPS proofs of the most important safety properties for instances of any size.

`D` stands for `src/wg-kotlin-daemon-rust/daemon/src`, `C` and `J` for
`src/wg-kotlin/src/commonMain/kotlin/com/rafambn/wgkotlin` and
`src/wg-kotlin/src/jvmMain/kotlin/com/rafambn/wgkotlin`.

## The system

| Part | Source | Module |
| --- | --- | --- |
| Daemon: connections, sessions, shutdown | `D/main.rs`, `D/server.rs`, `D/session.rs` | `DaemonServer` |
| Daemon process: start, owner, listener, wintun, drain, exit | `D/main.rs`, `D/owner.rs`, `D/ipc/{unix,windows}.rs`, `D/wintun.rs`, `D/session.rs` | `OwnerProcess`, `DaemonLife` |
| Log of the daemon | `D/logging.rs` | `DaemonLog` |
| Frames of a connection | `D/ipc/mod.rs`, `J/daemon/IpcProtocol.kt` | `IpcFrames` |
| What the daemon promises about interfaces | (abstract) | `SessionRegistry` |
| Routes, common part | `D/platform/mod.rs` | `RouteTable` |
| Routes and resolver on macOS | `D/platform/{macos,routes_macos,dns_macos,endpoint_macos}.rs` | `MacRoutes` |
| Routing messages on macOS: bytes, dumps, exchange | `D/platform/{routes_macos,endpoint_macos}.rs` | `RouteMessages`, `RoutingSocket` |
| Commands of the operating system | `D/platform/mod.rs` | `CommandRun` |
| Routes and resolver on Linux and Windows | `D/platform/{mod,linux,windows,endpoint_linux,endpoint_windows}.rs` | `PlatformRoutes` |
| Name resolution policy rules on Windows | `D/platform/windows.rs` | `NrptRules` |
| Launching, registering and stopping daemons | `J/daemon/DaemonProcess.kt`, `J/iface/PlatformInterfaceFactory.jvm.kt` | `OwnedDaemon` |
| Overlapped I/O on a named pipe | `J/daemon/WindowsPipeConnection.kt` | `WindowsPipe` |
| `Vpn.open`, `Vpn.stop` and the three managers | `C/Vpn.kt`, `J/iface`, `C/network`, `C/crypto` | `VpnLifecycle` |
| Packet loops and pipes | `C/crypto/CryptoSessionManagerImpl.kt`, `J/iface/DaemonSessionBridge.kt`, `C/network` | `DataPlane` |
| Table of peer sessions, CIDR matching | `C/crypto/CryptoSessionManagerImpl.kt`, `C/util/IpUtil.kt`, `C/VpnValidation.kt` | `PeerSessions` |
| A configuration's way to the daemon and the resolver | `C/ParsedVpnConfiguration.kt`, `D/validation.rs`, `D/platform/mod.rs` | `SessionConfig` (extends `PeerSessions`) |

`DaemonProcess` and `SystemRequests` put those of these modules together that
have small state spaces, so that one run checks several: their parts share no
variable, and `part`, chosen initially, says which of them moves.

An application launches a daemon (`OwnedDaemon`), which pins it, makes its
endpoint and serves it (`OwnerProcess`, `DaemonLife`), and calls `Vpn.open`
(`VpnLifecycle`). That reconciles the peer sessions (`PeerSessions`), starts
the packet loops (`DataPlane`) and sends a configuration (`SessionConfig`) over
a local socket or a pipe (`IpcFrames`, `WindowsPipe`). The daemon validates it, reserves the
interface, builds it and serves it (`DaemonServer`) while the platform code
changes routes and name resolution (`MacRoutes`, `PlatformRoutes`,
`NrptRules`) through commands and routing sockets (`CommandRun`,
`RoutingSocket`, `RouteMessages`).

Not modelled, and why:

- socket modes and the text of security descriptors: no state depends on them;
- route metrics on macOS, and the body of the query that `EndpointRoute::lookup`
  sends there: `RoutingSocket` has its exchange, operation `get`, and
  `RouteMessages` its reply;
- the netlink messages of `D/platform/endpoint_linux.rs` beyond prefix, path and
  metric, and the IP Helper calls of `D/platform/endpoint_windows.rs`: one call
  answers the best route, which is a constant of `PlatformRoutes`;
- the characters of interface and host names (`D/validation.rs`): comparisons on
  strings, a flag in `SessionConfig`;
- command-line parsing, generated protocol code and key helpers: no state;
- `D/../examples` and the tests;
- cryptography: a BoringTun tunnel is its answers to the loops, and marked
  external: a handshake begun or done, and a bounded queue (`QueueDepth`) of the
  packets that wait for it, which drops what it has no room for.

## How the modules correspond to the code

`PROJECT.json` maps each definition to its lines. An action is a stretch of
code between two points where another thread, task, process or the kernel can
come in. Definitions whose comment begins "Faulty variant" are not part of any
specification; each is a plausible mistake in one definition, kept to confirm
that the property named for it in `PROJECT.json` notices it.

- **DaemonServer.** A connection has at most one session, so both share an
  index. The handler's read and write futures (`rd`, `wr`), the session task
  (`task`) and the blocking TUN reader (`reader`) take steps of their own; one
  poll of a `select!` is one step. `active` is `active_sessions`, `inq` and
  `outq` are the two bounded channels, `shut` the watch that everybody observes.
  A failed start releases its name (`StartFailed`) and reports the error
  (`StartReport`) in two steps; `Reserved` tells the tasks that hold a name.
  `KernelName` stands for the canonical spelling of a macOS name, so that
  `utun01` and `utun1` compete for one device.
- **OwnerProcess** follows one process identifier: its holders are numbered, the
  application is the first, and it may change hands between any two reads of
  `OwnerProcess::open`. One specification covers the three systems (`system`).
- **DaemonLife** is `main` and `run`, one action per call that can fail, and what
  they own: `files` and `handles` are the file system, `guards` the values whose
  `Drop` removes the socket and its directory, `library` the owners of the
  `Arc<WintunDll>`, `devices` the clones of a `TunSession` that still hold the
  device. A clone drops its fields in the order of their declaration. Sessions
  here are no more than what the exit waits for; `DaemonServer` has the rest.
- **DaemonLog.** A bounded queue before one writer thread that may stop for good.
- **IpcFrames.** One direction of a connection, byte by byte. `side` says whether
  the daemon or the application reads, which differ at the end of the stream.
- **CommandRun.** The worker's four joined futures and the pipes, counted in
  chunks; `holds` says which ends the tool and a helper it left behind have.
  The kill after a deadline may be refused, and the wait that follows may fail
  (`ReapFail`) and leave the tool to `kill_on_drop`.
- **RoutingSocket.** Each exchange has a socket of its own, and the kernel sends
  every message to all of them. Workers add, delete and get.
- **RouteMessages** has messages as bytes, encoded and decoded as the code does
  (`Encode`, `Decode` with `Step`) and as the kernel does (`KernelStep`,
  `KernelMask`, which shortens masks, and zones in link-local addresses), and
  the search for a key in a dump that others change meanwhile.
- **SessionRegistry** says what is left when tasks and threads are forgotten:
  interfaces are held, built, dismantled and given back, and a clean exit holds
  nothing. `ImplementsRegistry` is `Registry!Spec` with `held <- active` and
  `built` and `status` computed from the tasks.
- **RouteTable** has prefixes over `AddrBits`-bit addresses, longest-prefix
  lookup, the endpoint routes, and the filter that drops a VPN route equal to an
  endpoint's.
- **MacRoutes.** The endpoint routes are resolved, the TUN is made, which brings
  in the routes to the subnets of its addresses (`Connected`), and then the
  session's routes follow. The table maps a prefix to one path. Every routing-socket
  request is a step; one that fails may or may not have taken effect. `changes`
  is `SessionRoutes::changes`, taken back from the last to the first. `want`,
  `spoiled`, `unclean` and `live` are history: the table other programs would
  have made of it, prefixes nobody could restore, sessions whose resolver entries
  could not be removed, and the order of sessions. Other programs change the
  entries of `Edited`.
- **PlatformRoutes.** A prefix has a set of paths, since Linux tells entries
  apart by metric and Windows by interface. `windows` is chosen initially and
  never changes: one specification covers both builds. `Resolve` looks the
  endpoint routes up before `CreateDevice` makes the TUN and its connected
  routes; on Linux the resolver gets servers and domains by one command each,
  on Windows by one script (`SetRules`). `upto` is how much of
  the plan has been added, or is yet to be deleted. `residue` is
  history: what a cleanup failed to take back.
- **NrptRules.** Several daemon processes write rules whose comment names process
  identifier, creation time and interface. The stale script looks at one rule
  at a time while everybody else goes on. Identifiers come back.
- **OwnedDaemon.** Callers run `launch`, `stop` and `kill` step by step around the
  one atomic reference; every wait may time out and every exchange may fail.
- **WindowsPipe.** `lifecycle` makes registration with the start of the transfer,
  deregistration and `close` atomic; the wait is outside. The kernel's request
  is a variable of its own.
- **VpnLifecycle.** Accesses to the shared fields are the steps, since nothing but
  the bridge's `closed` flag is synchronized. `reconcileSessions`, binding both
  sockets and opening the daemon session are one step each, and of the loops of
  a kind in one run one failure is told apart. `calm` is history: no loop has
  failed during an open, and no open came while a failure callback ran.
- **DataPlane.** The three loops take `reconcileMutex`, work, release it and send
  outside it. Packets have numbers, so that loss, repetition and order show.
  `dropped` is history: what a tunnel's full queue refused. Encrypting never
  answers with a packet for the daemon, so the cleartext loop's `pendingTun`
  (`C/crypto/CryptoSessionManagerImpl.kt:184`) stays empty.
- **PeerSessions** has `reconcileSessions` session by session: `ReconcileSessions` takes a
  valid configuration (`wanted`), `Keep` and `Create` fill the new table,
  `CreateFails` and `CloseMade` take a failed one back, `Swap` is under the mutex
  and `CloseReplaced` after it; and `stop`, and the choice of a session.
  Bytes have `ByteBits` bits, two in the run: byte borders, lengths inside a byte
  and full lengths all occur.
- **SessionConfig** composes this with `toTunSessionConfig`, `validate_config`, the
  filter of routes against endpoints (`installed`) and the lists for the
  resolver. Address and route lists are sets. A peer without an endpoint has
  `NoAddress`.

## Runs

| Run | Instance | Distinct states | Shows |
| --- | --- | --- | --- |
| `daemon_one` | one connection, every frame and TUN event | 49,708 | `ResponseOrder`, `FailureAfterRelease`; liveness: `ClientGoneReleases`, `ShutdownDrains`, `OpenAnswered` |
| `daemon_two` | two connections, two spellings of a name and another | 1,678,752 | `ReservationsExact` |
| `daemon_limit` | two connections, room for one session | 226,520 | `ImplementsRegistry` |
| `mac` | one session and three disturbances, or two and two | 2,934,823 | `SystemRestored`, `EndpointNeverLoops` |
| `platform` | three sessions with shared, nested and separate endpoints, one inside its TUN's subnet, both platforms, failures | 1,819,856 | `SystemRestored`, `EndpointNeverLoops` |
| `nrpt` | two process identifiers, two interfaces, two namespaces, two starts | 734,818 | `ConfiguredHasRules`, `StaleRulesGone`, `OnlyOwnerRemoves` |
| `process` | two callers and two daemons; three threads on a pipe; frames of one and two bytes; a start with two connections and a session on each system; two threads that log | 62,443 | `EndedIsUnregistered`, `TransferIsSafe`, `FramesAreWhole`, `ServedIsOwner`, `DllOutlivesDevices`, `LeavesAsFound`; liveness: `StopEndsProcess`, `CloseReleases`, `NothingHoldsUpExit` |
| `os` | a command with full pipes, a helper, a refused kill; two workers on routing sockets; routes of both families and a growing dump | 549,071 | `SuccessIsWhole`, `OutcomeIsTrue`, `RoutesKeepTheirMeaning`; liveness: `RequestsReturn` |
| `vpn` | two opens; opens and failures three in all | 120,827 | `NothingLost`, `WholeOrDown`, `FailureStopsAll`, `DeadIsSeen` |
| `plane` | one peer, channels of one, a tunnel's queue of two, four items, a timer, flush limit three | 113,624 | `OutboundOnce`, `InboundInOrder`, `StatsMatchTraffic`, `StalledDaemonIsIsolated` |
| `config` | three keys, nested and foreign prefixes, endpoints inside them; three sessions made; requests around each limit | 74,368 | `TableIsSound`, `NoSessionLeaks`, `LongestPrefixOwner`, `RoutedIsOwned`, `AcceptedDnsIsApplied` |
| `config_dns` | as `config` | violated | `DocumentedDnsIsAccepted` |

Types are proved for `DaemonServer`, `WindowsPipe`, `OwnedDaemon` and `NrptRules`;
the other inductive invariants carry the types they need. The limit on sessions
(`WithinLimit`), the reservation behind every interface (`OsUnderReservation`),
the clean exit of `DaemonServer` (`CleanExit`), the single close of the pipe
handle (`ClosedOnce`) and the stability of a registration (`RegistrationStable`)
are proved and not run.

`SystemRestored` speaks of everything a session may leave in the system: on
macOS the entries it displaced come back, on Linux and Windows no entry or
resolver setting stays but those whose own removal failed, so one failing step
of a cleanup does not keep the others from being taken. On macOS a prefix whose
entry another program changes between the look and the deletion of a restore is
exempt (`spoiled`): the code cannot see that edit. Shown is that all other
prefixes come back all the same.

`EndpointNeverLoops` is about the routes that the daemon adds. The operating
system adds one of its own, to the subnet of the TUN's address. If that subnet
holds the endpoint, the kernel's route takes it into the tunnel from the making
of the TUN until the host route to the endpoint is in place, and again during
the cleanup. The property allows for these two windows (`Sheltered`) and for
nothing else, and it is claimed

- for endpoints that are not addresses of the TUN itself;
- on Linux and Windows for sessions that share no endpoint route with another,
  whose endpoint routes do not go through another's TUN, and none of whose
  cleanup steps failed;
- on macOS for endpoints whose host route no other session plans, for sessions
  none of whose prefixes is spoiled, and as long as no other program changes the
  table.

`RoutedIsOwned` compares two ends that never meet in the code: the routes that
the daemon installs, after validation and the filter against endpoints, and the
table from which the loops choose a session, after reconciliation. What goes
into the tunnel has a session, what a session is there for goes into the tunnel,
and an endpoint stays outside even if a peer claims its address or a range
around it.

`OutboundOnce` says where every packet is, one that the tunnel's full queue
refused included (`dropped`); the loops and pipes of this repository lose none.

Some things the properties do not decide. The blocks under `reconcileMutex` are
one step each, so the mutex is assumed to work. `NothingLost` and `WholeOrDown`
exempt an open that overlaps a failure callback, where `DeadIsSeen` is all that
is shown. `EndedIsUnregistered` does not say that a running daemon stays
registered; `RegistrationStable`, proved, does. `RequestsReturn` excepts the wait
for a tool that the system refuses to kill (`Unkillable`), which has no deadline.

### Bounds

- *Daemon.* One connection is enough for the order of answers and for liveness,
  since connections meet only in `active`, in the shutdown watch and at the join
  of the accept loop; two are needed for the contention that the other two runs
  are about. Queues of one or two reach "full" and "full with a suspended
  sender". The proofs remove the bounds for the safety properties.
- *Routes.* `MaxEvents` counts sessions that begin, failing requests and foreign
  edits together, so that TLC explores few sessions with many disturbances and
  several sessions with few. Addresses of one or two bits have a default route,
  halves and host routes. Each instance has TUNs whose subnet holds the
  session's endpoint.
- *NRPT.* `MaxClock` is the number of process starts: two let an identifier come
  back under a later creation time. The proofs remove the bound.
- *Vpn.* `MaxEvents` counts opens and failures: one run with two failing loops, or
  two runs with one.
- *Packets.* `FlushLimit` 3 with two packets waiting reaches the limit, and a
  capacity of one every wait for a full pipe. Three packets overflow the tunnel's
  queue of two.
- *Configuration.* `MaxCreated` counts sessions that a factory makes: three let a
  second reconciliation keep one session and replace another, and any fail.
- *Process.* Two instances of the identifier let it change hands once, at any
  moment. Two connections come from two processes, one session has two clones.
  A queue of two log messages reaches "full" with a flush in it. Frames have
  two-bit headers and at most two bytes of body, so lengths of zero and above the
  limit exist, and a stream of three bytes cuts them everywhere.
- *Requests.* One chunk more than a pipe or a capture holds is enough for both
  limits; there are as many sequence numbers as workers, so that they come round
  all the time; the table of the dump grows between two calls.
- `CHECK_DEADLOCK FALSE` is set where the system may really stop: a failed loop
  ends the packet plane, a request is answered once, and all processes of the NRPT
  instance may have died with no start left.

### Fairness

Weak fairness says that a thread, task or callback which can take its next step
does so. For the daemon: tokio polls woken futures and joins blocking workers.
For the pipe: the kernel answers a
`CancelIoEx`. For commands: the timer of the deadline fires and a killed tool dies. For
routing sockets and the log: timeouts expire. For the daemon's end: `main` goes
on, and `select!`, which picks among ready branches at random, comes to the
monitor. For owned daemons: a killed process dies in the end. For the packet
loops strong fairness is assumed of taking the mutex and of sending: coroutine
`Mutex` and `Channel` serve waiters in order of arrival. Nothing is assumed of
a tool that is run, of the log's writer, of
clients, of the owner, of applications calling `stop`, of foreign programs, of
the daemon's reading of packets, or of any operation succeeding.

## Proofs

TLAPS checks them for every value of the constants; the assumptions are the
named `ASSUME`s of the component modules, which TLC evaluates in the runs. Every
safety property of the runs is proved but for three, named at the end of this
section.

- **DaemonServerProofs.** `SafeInv` is inductive: `ControlOK` gives each variable
  its type, `Named` every live task a name, `Held` says that `active` is exactly
  the names of reserved tasks and that they are distinct, `InStep` relates the
  stages of task, reader, handler and operating system, and `Drained` says that
  a main loop past its join has no handler left. `ReservationsExact` alone is
  not inductive: whether releasing a name is right depends on the stage of the
  task that releases it. From it follow `ReservationsAreExact`, `OsIsReserved`
  and `ExitIsClean`. `Typed` proves the type invariant with the capacity of both
  queues.
- **DaemonRegistryProofs.** `DaemonImplementsRegistry`: initial states map to
  initial states; `BuiltStep` says how a step of one connection changes the set
  of built interfaces while all others keep theirs, and each kind of step is
  then a step of the registry or a stutter. `LimitHolds` has its own invariant,
  since cardinality needs `active` finite. `TurnInv`, for the order of responses,
  relates what a connection has written and queued to the steps of its handler,
  task and reader (`InTurn`); once a failure is in the queue its task is past its
  reservation, so a name still in `active` is another's, which is
  `FailureIsReleased`.
- **DaemonProcessProofs.** *Life of the daemon*: `ServedInv` says what `pin` and
  `user` may be at each read of `open`: instances only go up, so a `user` read
  before a start time that is the application's is the application's; and that
  a served connection passed `authorizes`. `LifeInv` relates the stage of `main`
  to the files, handles and guards that exist then (`StageInv`), a session's
  stage to the devices and shares of its clones (`ShareInv`, `OpenedInv`), and
  says that paths of others stay as found (`FilesInv`). `LeavesAsFound` is not
  inductive: what is on disk at the end depends on who still shares the library.
  *Commands*: `CommandInv` counts every chunk (written = captured or beyond the
  cap, plus what is in the pipe) and says what a ready future has established;
  only a failed wait leaves a tool that is not reaped.
  *Routing sockets*: `SocketInv` says that numbers of open exchanges differ and
  that every reply of this daemon in any inbox tells what became of the request
  with its number. *NRPT rules*: `NrptInv` adds that creation times do not come
  back (`Times`) and what a running scan has yet to see (`Scanning`).
- **LibraryProofs.** *Vpn*: `CalmInv` holds as long as the history is calm.
  `Referred` and `OneRun` are `NothingLost`; they need to know what a stop has
  closed at each of its steps, where another stop may have taken over the
  sockets (`Past`, `SocketsSeen`), what an open has built (`SoFar`), and the order
  in which things come and go (`Whole`), which gives `WholeOrDown`. *Pipe*:
  `PipeInv` says that `activeIo` is the number of registered threads (`Counted`),
  what that says of the handle (`HandleState`), and that a pending request
  belongs to a thread that waits for it (`Awaited`). *Peer sessions*: `TableInv`
  says at each step of `reconcileSessions` which sessions are active, made, or in
  the table, and that indexes differ. It needs the set of keys finite. *Owned
  daemons*: `OwnedInv` adds which daemons callers work on (`LaunchOwners`), what
  has become of launched, failed and stopped ones (`Outcomes`), and what the
  reference and a value read from it may be (`References`): the last is what
  makes the compare-and-set argument go through.
- **DataPlaneProofs.** `FlowInv` says, until a loop fails, what a loop holds at each
  step of its round (`Rounds`) and that numbers are positions (`Marked`), and
  then that the concatenation of all places a packet of a peer passes is sorted
  and has what was heard (`InOrder`). Only the encrypted loop has packets for
  the daemon in hand, which `Rounds` says: nobody overtakes it.
- **DataPlaneCountProofs.** `CountInv` is two balances: per packet, how often it is
  at any place on its way out (`OutEq`), and per peer, what the shared counters
  say and what the loops have handled (`StatEq`). How often a datagram occurs in
  a sequence is the size of a set of positions; the lemmas say what appending,
  taking the head and concatenation do to it.
- **RouteProofs.** Linux and Windows. `RestoreInv`: a plan is host routes first and
  then routes through the tunnel, none of them to an endpoint (`Progress`); an
  entry that was not there before is planned by a session that has yet to delete
  it or failed to (`Accounted`); entries of no endpoint stay (`Kept`); and a
  session that is idle or gone has none through its tunnel (`Present`).
  `SystemRestored` follows. `LoopInv` adds that endpoints reached so far have a
  route that is no tunnel's, but for the one being replaced (`Hosted`), and that
  all have one as soon as an entry could lead an endpoint into its own tunnel
  (`Guarded`), but for the connected routes. Longest-prefix lookup takes the host
  route then, which is `EndpointNeverLoops`. Every action is first brought into one of a few kinds of
  step (`StepOf`), so that each invariant is shown per kind and not per action.
- **RequestProofs.** *Frames*: `FrameInv` says that what lies ahead of the reader
  (bytes read of the current frame, bytes in the stream, bytes not written yet)
  is cut by some positions into the frames of the messages not yet received
  (`Unread`), that those received are the first of those written (`Delivered`),
  and what a clean end means (`CleanEnd`). *Selection*: `OwnedTables` says what
  validation makes sure of, that no normalized prefix has two owners, and that
  the table being made and then used has the peers of the call (`From`).
  `LongestPrefixOwner` then rests on lemmas about bytes: a number is its digits,
  `Matches` compares exactly the first bits, two prefixes of one length that
  match one address have the same normalized key. *Configuration*: `ConfigInv`
  keeps the request in step with the configuration of the table (`Asked`), with
  the stages of validation and with the routes installed (`Installed`). That
  these cover the table's prefixes but for endpoints is `RoutedAreOwned`: a
  prefix dropped as an endpoint's has one address, and one that is kept and as
  long as an address is nobody's endpoint.
  `Condenses` says what the two functions that drop repeated elements return
  (`AcceptedDnsApplied`). These proofs need induction over data. The library's
  induction theorems take an operator, which the provers do not instantiate; the
  module has its own for sets of naturals (`NatSetInduction`, from a
  well-founded order) and one for functions defined by recursion
  (`NatRecursion`), used with a set of the naturals that have the property.

Only model-checked:

- liveness under fairness, which is out of the prover's reach:
  `ClientGoneReleases`, `ShutdownDrains`, `OpenAnswered`, `FailureStopsAll`,
  `DeadIsSeen`, `StalledDaemonIsIsolated`, `StopEndsProcess`, `CloseReleases`,
  `NothingHoldsUpExit`, `RequestsReturn`;
- `SystemRestored` and `EndpointNeverLoops` of `MacRoutes`: requests that fail may
  have taken effect and foreign programs edit the table, so the invariant of
  `RouteProofs`, which accounts for each entry by a plan, does not carry over. It
  would have to follow the displaced entries through the order of the sessions;
- `RoutesKeepTheirMeaning` of `RouteMessages`: encoders and decoders of several
  formats, each a fold over bytes.

## What the work has shown of the code

**DNS servers cannot be configured through the library** (`config_dns`).
`toTunSessionConfig` (`C/ParsedVpnConfiguration.kt:81`) passes on the servers and
not the search domains; `validate_dns` (`D/validation.rs:62`) refuses the one
without the other. The example in `src/README.MD:128-131` is such a
configuration.

Observations that the properties exempt by name, each met as a counterexample
before the exemption was stated:

- *Shared endpoints.* Two sessions with the same peer endpoint plan the same host
  route. Closing one removes it from under the other (`D/platform/mod.rs:317`;
  on macOS `D/platform/routes_macos.rs:67`, where `same_path` cannot tell the
  sessions apart). `docs/daemon-launching.md:7-8` says "Closing one session
  leaves other sessions running." On macOS a second session also deletes the
  entry for a moment while it replaces it. `EndpointNeverLoops` exempts shared
  endpoints.
- *Sessions that are not nested* on macOS: a session restores the entry it
  displaced even if its owner has closed since, so a route may stay behind.
  `SystemRestored` exempts prefixes shared by such sessions.
- *An open that overlaps a failure callback.* `SocketManagerImpl.stop` clears
  `running` before it closes the sockets; a `start` in between skips its own stop
  and stores new sockets over the old (`SocketManager.kt:15` says it "Stops any
  previously running workers and socket first."). `NothingLost` and
  `WholeOrDown` are claimed for `calm` histories; `DeadIsSeen` holds for all.
- *The library is guarded twice.* A session's share keeps the library until its
  device is dropped, as `D/session.rs:30` says; besides, `main` keeps its own
  share until every session is gone, or leaves through `process::exit`, which
  drops nothing. So a session that ended without its own share would still be
  safe as long as `main` waits.
- *A long backlog.* The flush loop throws at its iteration limit
  (`C/crypto/CryptoSessionManagerImpl.kt:250`), which ends the run; whether a
  backlog gets that long is decided inside BoringTun.

## What could be added

The composition of `VpnLifecycle` with `DataPlane` (pipes outlive a run), a proof
of `SystemRestored` for `MacRoutes`, and liveness of set-up and cleanup on all
platforms.

## Running

```
tlc -workers 2 -config DaemonServer_one.cfg MCDaemonServer
tlapm DaemonServerProofs.tla
```

A configuration file is named after its module; where a module `MCx` exists, it
is the one to check with `x.cfg`.
