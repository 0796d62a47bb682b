# asio_proxy in TLA+

A model of the proxy in this repository, checked with TLC and, where it pays,
proved with TLAPS. `PROJECT.json` lists the runs, the theorems, and for every
definition the source lines it stands for.

The program listens on one address and relays everything to a list of forward
addresses. Its configuration selects TCP or UDP. It is built on boost::asio: a
pool of `io_context`s, each with one thread, and callbacks that run on them.

## The system

| part | state | operations | talks to |
|---|---|---|---|
| `common/io_context_pool` | `io_contexts_`, `io_works_`, `next_valid_context_`, the threads in `run()` | constructor, `run`, `shutdown`, `get_io_context` | called by the managers; its threads run every handler |
| `tcp/tcp_session_manager` | `acceptor_`, the target list | constructor, `run`, `start_acceptor` and its accept handler | pool; creates sessions and calls `start()` on **its own** thread |
| `tcp/tcp_session` | client socket, target sockets, heartbeat timer, `closed_` | `start`, the read handlers, `keep_alive` and its handler, `close` | sockets; statistics; handlers run on the **session's** context |
| `tcp/tcp_socket` | socket, one `buffer_` | `connect` and `write` (blocking), `async_read`, `close` | boost |
| `utils/*_flow_statistics` | `packet_count_` under `mutex_`, atomic `count_` | `add_packet`, `add_connection`, `remove_connection`, the report | called by every handler; reported by the timer's thread |
| `utils/task_timer` | its own context, thread and timer | `start`, `stop`, `set_single_shot` | the statistics' report |
| `udp/udp_session_manager`, `udp_session`, `udp_socket` | client socket, map of sessions, their sockets and heartbeats | receive chains, `send_to_target`, `send_to_client`, `close` | pool, statistics |
| `logger` | one file per level, its size | `write`, rotation | called by everything, from every thread |
| `common/address`, `config`, `launcher` | – | parse, load, start one manager | once, at start |
| `utils/string_parse`, `utils/utils` | – | `parse` of a text by type; the hex dump | nothing calls `parse`; the dump goes into logs |
| `deprecated` | a bridge of two sockets | relay, accept | nothing: in no project file, its `main` commented out |

What is hard, and what makes each part correct:

* **Two threads per session.** `start()` runs inside the accept handler, on the
  acceptor's thread. From its first `async_*` call on, completion handlers of
  the same session run on another thread, unless the pool gave the session
  the acceptor's context. Nothing locks a session. Correct means: handlers find
  connected sockets, a buffer has one user, the count and the sockets are given
  back once.
* **Ownership by the timer.** Read handlers capture a bare `this`. Only the
  handlers of heartbeat waits hold a `shared_ptr`. Correct means: an open session
  always has such a wait, and a closed one soon has none.
* **Timer against data.** Restarting a timer cannot recall a wait whose handler is
  already queued.
* **Round robin.** Contexts are handed out in turn while the program runs, and each must keep its thread until
  it is stopped. (`shutdown()`, which stops them one after the other, has no caller yet.)
* **Counters and reports.** A report reads and clears what all threads update.
* **Blocking calls on event threads.** `connect` and `write` block a context. Correct means: the
  others are held up only where they share the thread, and what was read is written on.
* **Streams.** One sender to several receivers, several senders to one; a failed write is only logged.
  Correct means: a FIFO for each pair, as long as its connection is sound.
* **Rotation of log files** by several threads; **datagram sessions** that share
  a port; **partial failure** of one target among several.

The full list, each at its line and with the property that covers it, is under
`hazards` in `PROJECT.json`.

## The modules

`MC*` modules extend a specification for TLC, `*Proofs` modules extend it with
theorems. Operators named `<Definition>_<Change>` are variants of a definition
with a plausible mistake in it. Nothing refers to them: each shows that a property
can fail, by taking the definition's place.

### TcpSession

One session. `apc` says where the accept handler stands in it: `accepting`, at
the head of `start()`, in the loop of `connect_target_server()`, in `close()`, in the loop
of `async_read_target()`, before `start_acceptor()`, or done. `doing` says which handler
the session's own thread is inside of: forwarding client data, replying with target
data, or in `close()` past its test of `closed_` after the heartbeat (`expire`) or a read
error (`drop`). `colocated` makes both threads one: then no handler is dispatched
while the accept handler runs.

| code | action |
|---|---|
| accept handler, `start()` | `AcceptSucceeds`, `AcceptFails`, `BeginStart`, `ReadClientFirst`, `ReadTargetFirst`, `StartReturns`, `FinishAccept` |
| `connect_target_server()` | `ConnectSucceeds`, `ConnectFails`, `CloseOnAcceptor` |
| `async_read_client()` handler, `send_to_target()` | `ClientDataHandler`, `ForwardToTarget`, `ForwardDone` |
| `async_read_target()` handler, `send_to_client()` | `TargetDataHandler`, `ReplyToClient` |
| read handlers on error, after close, after destruction | `ReadErrorHandler`, `IgnoredHandler`, `DanglingHandler` |
| `keep_alive()` and its handler | `KeepAlive`, `HeartbeatHandler`, `CancelledHandler` |
| `close()` | `Close`, used by `CloseOnAcceptor` and `CloseOnWorker` |
| clock, peers | `HeartbeatExpires`, `ReadCompletes` |

`close()` is split where it matters: its test of `closed_` is the guard of the
action before, its body is `Close`. Two threads that both passed the test show
up as `double_close`. A `close()` on the session's thread while `start()` is in a
loop over `target_sockets_` shows up as `targets_cleared_during_start`, a read
handler on a destroyed session as `dangling_handler`; all three are recorded in
`races`. They are undefined behaviour, so the process may crash there
(`crashed`) or go on. All of them do happen in this model. The invariants say what
holds around them. A completion that is ready may be dispatched in any order:
asio promises none.

Abstracted: bytes (only "data arrived"; TcpRelay has them), addresses, log text, and the flags
inside a boost socket object, which `write` on one thread and `async_read` on the other
touch at the same time without effect on what is modelled.

### TcpRelay

The data path of one session that has started. `from` is the socket whose read handler runs, `cursor` the
socket it writes to, `chunk` and `offset` what it found in `buffer_` and how far the blocking write has come.
A byte is its sender and its place in the sender's stream. A connection takes `OutWindow` bytes ahead of a
peer that reads, and `InWindow` bytes ahead of the session's reads: what the kernels on both sides buffer.

| code | action |
|---|---|
| read handlers, up to the write | `Receive` |
| `tcp_socket::write()`, one byte at a time | `WriteByte` |
| a write that returns an error, logged and passed over | `WriteFails` |
| end of file or an error of a read: `close()` | `ReadEnds` |
| the heartbeat's handler | `HeartbeatCloses` |
| `shutdown` and `close` of a socket with unread data | `ResetOnClose` |
| peers | `PeerSends`, `PeerReads`, `PeerFinishes`, `PeerLeaves` |

That handlers run one at a time, and that a socket is read again only after the write, is what TcpSession has
shown (`BufferHasOneUser`). A peer in `writesFirst` reads nothing until it has sent everything, as a simple
client or server does. `failed` remembers the sockets a write has failed on; `Stalled(d)` is the session's
thread in a write to `d` while `d` waits for the session to read.

### ByteStream

What the relay promises for one sender and one receiver: bytes in order, each once, none left out as long as
no write has failed. `TcpRelay` implements it for each pair under the mapping `Stream(s, d)`.

### TcpProxy

The acceptor, the pool and several sessions. `job[c]` is what the thread of context `c` is inside of: the
blocking connects of `start()` (`connect`), the `close()` after a failed one (`undo`), both on the acceptor's
thread; a relay with its blocking writes, or `close()`, on the session's. `Home(s)` is the context round robin gives
session `s`, which ContextPool shows (`Balanced`). A session is what SessionLife says of it. `deaf` are
sessions with a peer that does not read: a relay of theirs does not end until the peer relents.

| code | action |
|---|---|
| accept handler, `start()`, `connect_target_server()` | `Accept`, `AcceptFails`, `Connected`, `ConnectFails`, `CloseOnAcceptor` |
| read handlers, `send_to_*` | `BeginRelay`, `EndRelay` |
| heartbeat, read errors | `BeginClose`, `CloseOnWorker` |
| the last owner lets go | `Free` |
| clients, targets | `ClientArrives`, `DataArrives`, `TurnsDeaf`, `Relents` |

Of the races that TcpSession finds only the double close shows here (`raced`), since it disturbs the count over
all sessions; a crash of the process is left to TcpSession.

### SessionLife

What a session promises, with three variables: its `phase` (waiting, open, closed), whether it
is `alive` (has an owner), and whether it is `relaying` a packet. It is opened once, closed once and
not while relaying, and freed only when it is not open. `TcpProxy` implements it for every session, under the mapping
`Life(s)`. `TcpSession` implements it under the mapping at its end: `phase` from `closed_` and how far `start()` has come, `alive` from the owners
(`Held`), `relaying` from the handler that runs. The data races are below this level: whatever they
do, the session lives this life.

### ContextPool

The pool with its threads, as `tcp_session_manager` uses it. `main` and `at` are
the position of `main()` in the constructor and in `run()`; `thread[c]` is the
thread of context `c`; `candidate` is the context of the session the outstanding accept
is for; `live[c]` counts sessions with operations on `c`; `halt` is the loop index
of `shutdown()`. The constructor of the pool is `Init`. `get_io_context()` is one step,
because its callers cannot overlap: main calls it before any thread exists, and after
that only the accept handler does. No code of the program calls `shutdown()` yet, so the
model lets anybody call it at any time. An exception that leaves a handler ends the
process (`HandlerThrows`).

### FlowStatistics

Threads that relay packets and count each twice (`CountReceived`, `CountSent`)
against the thread of the `task_timer`, which reports. `add_packet()` does one update under
the mutex and is one step with the guard that the mutex is free. `log_packets()` takes the
mutex, reads key by key, and clears. The history variables `added` and `reported`
hold the totals.

### PacketReports

What the statistics promise to the reader of the log, in totals only: packets are counted, a packet is
received before it is sent, and a report takes over what was counted in both directions at one instant.
`FlowStatistics` implements it under the mapping of `counted` to `Totals`, what was reported before and what is still in
`packet_count_`.

### UdpProxy

`udp_session_manager` and the session. The manager looks sessions up by the local address of its own
client socket, so there is one key and one session at most: its state is a handful of variables, the map
the set of its keys. `manager` is the position of the receive handler (`test` of `closed_`, `keep_alive`,
`send`, `receive` again); `doing` is what the session's thread is inside of. `get_or_create_udp_session()`
is one step, under its mutex: `FindSession`, `CreateSession` or `CreateThrows`.

The session's socket is bound to the address that is already in use by the client socket, without any
option that would allow it. Operating systems refuse that, so the process ends with the first datagram
(`udp_proxy_first`). `bind` is outside the program, and the model lets it succeed too: everything
else it shows is about the code as it is written behind that point, and would be met as soon
as somebody lifts the refusal. Left out: the targets one by one, bytes, and where replies go (to the
listening address itself, see the hazards).

### LoggerProxy

`write()` of one `logger_proxy`, step by step for every thread: `pc` names the call the thread
is about to make. The mutex is held from `recheck`, or from a successful `try_lock`, to the end of
`create_file()`. Opening the file and resetting the size are two steps. The directory is `files` with `lines` in each; a file
has the second of its creation for a name, and opening a name that is there empties the file. `clock` moves to any
second (`ClockMoves`): the clock may be set, and local time goes back once a year; `repeated` remembers
that a name was met again. All lines have length one: that is the number `current_file_size_` grows by, to which the
newline of a line does not count. A line written while another thread writes, opens or closes is in a data race: the model
keeps or loses it, and remembers it in `raced`. `missed` remembers the two gaps of the locking that
let a file grow: a failed `try_lock`, after which the line is written anyway, and a line
written between the opening of the file and the reset of its size.

### Launcher

From `main()` to a manager that serves: `pc` is the position of `launcher::start()`. Each file is missing,
broken or good (`FileMissing`, `FileBroken`, `LoadLocal`, `LoadRemote`); then the test of `ready`, the
choice of the manager and its construction. The target's address goes through `make_ip()`, whose search
is modelled as the regular expression engine does it: the leftmost start, and the alternatives in their
order. A text is the sequence of its parts between the dots, a part the sequence of its digits.
Left out: ports, the log level, and all but one of the targets, which are treated alike.

### TextUtils

The pure functions of `utils`: `parse()` by the type that is asked for, and the hex dump. A text is the sequence of
its characters' codes. A function gives the set of its outcomes, since `front()` of an empty text and the test for
an `x` behind `-0` read what is not there. Left out: floating-point numbers and unsigned types. The one variable,
`input`, is what somebody wrote and the text it became: an integer with or without a sign and a prefix, in up to
`MaxDigits` digits with any zeros in front and letters of either case (`WriteInteger`), or a list of up to `MaxFields` fields
(`WriteList`). `MCLauncher` gives that to `parse()` in place of a start of the program, because nothing in the program calls `parse()`.
Loops over a text are recursive functions of the place in it (`ParseList`, `NumberOf`, `Joined`).

## What is checked

| run | bounds | shows |
|---|---|---|
| `tcp_session` | 2 targets, 2 queued waits | the safety properties of a session, below; `LifeSpec`; `SilentClientIsDropped`, `ClosedSessionIsFreed` |
| `tcp_session_silence` | 1 target | **violated**: `HeartbeatMeansSilence` |
| `tcp_session_stale_wait` | 1 target | **violated**: `HeartbeatIsLatest` |
| `tcp_relay` | 2 targets, 4 bytes, buffer of 2, windows of 2 and 1, 1 passing failure | `ReadIsWritten`, `StallLasts`, `StreamsSpec`; `SentIsDelivered` |
| `tcp_proxy` | 2 contexts, 3 sessions | `CountIsOpen`, `RacesNeedFailedConnect`, `LivesSpec`; `ClientsAreAccepted`, `DataIsRelayed` |
| `context_pool` | 3 contexts, 5 sessions | the safety properties of the pool; `ShutdownEndsRun` |
| `flow_statistics` | 3 threads, 3 packets | `PacketsConserved`, `ReportsSpec`; `CountedIsReported`, `CountingReturns` |
| `udp_proxy` | 3 queued waits | the safety properties of the UDP side; `SilentSessionCloses` |
| `udp_proxy_first` | 2 queued waits | **violated**: `DatagramsAreServed` |
| `udp_proxy_deaf` | 2 queued waits | **violated**: `WorkingReceives` |
| `logger_proxy` | 3 threads, 3 seconds, limit 1, 5 writes | `OpensClosedHandle`, `LinesKept`, `FileBounded` |
| `launcher` | 393 texts, pools of 0 and 1; integers of 8 bits in up to 3 digits, lists of up to 4 fields | `OutcomeFitsFiles`, `SearchIsRight`, `LastNumberIsCut`, `IntegersAreRead`, `ListsBeginRight` |

Safety and liveness are checked in one run per component, under its fair specification. That every variable
has its type, and a few invariants that hold up the others, are left to the theorems (see below): they are proved
for every value of the constants, and the runs are kept for the properties that say most.

Safety of a session: an open session is owned (`OpenSessionIsHeld`); a buffer has
one user (`BufferHasOneUser`); only an open, fully connected session relays
(`RelayOnlyWhileOpen`); the connection count is exact (`CountExact`) unless both threads
closed at once; a session on the acceptor's context has no race
(`RacesNeedTwoThreads`); `close()` leaves nothing behind (`ClosedReleasesAll`) unless it
ran under `start()`'s loops; and the session implements `SessionLife` (`LifeSpec`).

The data path: what was read has been written on, to every target alike, whenever no handler runs and when the
session is closed, so `close()` cuts nothing short and a write that failed takes nothing from the
others (`ReadIsWritten`); each stream is a ByteStream (`StreamsSpec`). What is sent arrives, with four exceptions, each of which the run needs:
the connection of the sender is gone (`close()` resets it if there was data nobody had read, also because the client
only shut its sending side down: tcp_session.cpp:109 closes everything), that of the receiver is lost, a write to it
failed, or the session stalls (`SentIsDelivered`). A stall, the thread in a write to a peer that waits for the session to read, is not ended by the heartbeat, whose handler needs
the same thread, nor by the other peers (`StallLasts`).

The TCP side as a whole: the count that the statistics report is the number of open sessions, less one for
every session that two threads closed (`CountIsOpen`), which needs a failed connect and a thread of
its own (`RacesNeedFailedConnect`); every session lives as SessionLife says whatever the others do
(`LivesSpec`). Every client is accepted, however slow the targets of those before it, unless a session that shares
the acceptor's context is stuck in a write (`ClientsAreAccepted`): with a pool of n contexts that is every n-th
session. Data is relayed unless a session of the same context is stuck (`DataIsRelayed`).

Safety of the pool: round robin (`Balanced`); threads live until stopped
(`RunsUntilStopped`, the claim of io_context_pool.cpp:10-11); an accept is outstanding or being
handled at all times (`AcceptChainUnbroken`); `shutdown()` strands at most one new
session (`OneLateSession`, because the acceptor happens to sit on context 0, the first that
is stopped).

The statistics: every packet that was counted is in one report or still to be reported (`PacketsConserved`); a report has the numbers of one
instant in both directions, so all reports together show no more packets sent than received, though one of them may
(`ReportsSpec`, and by it `SentWereReceived`). What is counted is reported, and nobody waits for the mutex forever.

Safety of the UDP side: the bare `this` of the session's handlers is always good
(`HandlersFindSession`), but only because `close()` fails to take the session out of the map; the two chains of receives are broken by a failed receive
and nothing else (`ClientsAreHeard`, `TargetsAreHeard`); a closed session is quiet unless its `close()` ran under the manager's hands
(`ClosedIsQuiet`).

Safety of the logger: `create_file()` never meets an open stream and never runs twice at once
(`OpensClosedHandle`); a line is lost only in a race or by the second file of a name (`LinesKept`). The second is not rare: names have whole
seconds (utils.hpp:31) and `ios::out` empties the file that is there, so a single thread that fills a file within the second
of its creation loses all its lines, and so do two threads that replace a full file one
after the other, since the size is not tested again under the lock; a file exceeds its limit by less than
one line per thread unless a gap was met (`FileBounded`; the bound is reached).

The way up: only a configured proxy serves, and only an unknown type ends the program without an
error (`OutcomeFitsFiles`); `make_ip()` gives an address that stands in its text whenever there is one (`SearchIsRight`), but of the last number only the first digit
(`LastNumberIsCut`): 127.0.0.123 in the configuration is forwarded to as 127.0.0.1. The
first alternative, one digit, is enough for a search that nothing has to follow.

Texts: every integer is read as what was written, in decimal and in hexadecimal, but the least, which is read as 0
like all that does not fit (`IntegersAreRead`); a list has an element for each field, of which the first and the last are right and the others run over the
commas behind them, because `substr()` is given a place for a count (`ListsBeginRight`).

Two runs refute the log line udp_session_manager.cpp:21, "UDP connection is working": the first datagram
ends the process, and one failed receive leaves it deaf.

Two runs refute what the log line tcp_session.cpp:258 says, "did not receive any
information": the heartbeat is restarted by client data only, so a session in the middle of a
download is closed (`HeartbeatMeansSilence`); and a wait whose handler was already
queued closes the session right after the client sent something (`HeartbeatIsLatest`).

**Bounds.** `NumTargets = 2` has a first, a last and "another" target in every loop.
`MaxWaits` bounds how many finished heartbeat waits may be queued before the client sends
again: two are needed for an expired wait, a cancelled one and the pending one to coexist.
Three contexts have a wrap, a first, a last and a middle. Sessions exceed contexts, so the round
robin goes round. `MaxSessions`, `MaxPackets` and `MaxWrites` only stop the environment; five
writes fill and replace a file of one line several times and take it to its bound with three threads, and three seconds name the
last file, one before it and a new one; threads and seconds are symmetric, and the run has safety properties only. The directory is
empty at the start. The texts of `launcher` have numbers
of every alternative, leading zeros, numbers one too large and empty ones, in four parts and five. In
`tcp_relay` the client and the first target send two bytes each and the last target none: the client's two are read as one
chunk, for both targets, or as two, and with `OutWindow` 1 a write of two waits in the middle. The target's connection takes
one byte ahead, so the target (`MayWriteFirst`) may stall the session; one passing failure (`MaxFailures`) breaks a stream and
not the others. Replies of two targets to one client are interleaved only in the proof (`StreamsCorrect`). `tcp_proxy`
has a session beside the acceptor and two on the other context. Three digits write every integer of eight bits in both
notations, many that do not fit, and leading zeros, each with `-` and without, behind `0x` and `0X`, with `a` to `f` and `A` to `F`;
lists have up to four fields of zero to two characters. The theorems
hold for every value of all the constants.

**Deadlock.** A session that is over, a pool whose run has returned, a process that has ended or come up, and a
logger whose bounded writes are done have no further step, nor have peers that have sent their bytes and left, or
clients that have all come and gone: so only the run of FlowStatistics checks for it. The statistics never stop.

**Fairness.** *TcpSession*: both threads run; an `io_context` serves its queue in turn, so a
completion that is ready again and again is dispatched (strong fairness on the
heartbeat handlers); the pending wait expires unless a handler cancels it; a
blocking `connect` returns, since TCP gives up; a blocking `write` returns, which
is an assumption about the peers (a peer that never reads stalls the thread, see below).
Nothing makes a peer send or hang up. *TcpRelay*: the thread runs, data that is ready whenever the thread is free is
handled (strong fairness, the queue's turn again), a write to a peer that is gone returns, peers take what they are sent, and those that
write first write on; nobody has to send, to finish or to leave, and writes need not fail. *TcpProxy*: threads run; a
blocking connect returns; a blocking write returns if the peer reads; what is ready again and again on a context gets its turn. *ContextPool*: threads run and
handlers return; nobody has to connect or to call `shutdown()`. *FlowStatistics*: threads run,
the timer expires, and a thread waiting for the mutex gets it when it is free again and again.
*UdpProxy*: as for TcpSession, and the manager's handler is dispatched when a datagram is ready again
and again; nobody has to send.

## What is proved

For every number of targets, contexts, sessions, threads and packets, every buffer and window, and from the
named assumptions in the modules only (at least one context and one target; room for at least one byte; finitely many
threads; a positive limit of the file):

* `TcpSessionProofs`: `TypeOK`, all six safety invariants of `tcp_session`, and that TcpSession
  implements SessionLife.
* `TcpRelayProofs`: `TypeOK`, `ReadIsWritten`, `StallLasts`, and that every pair of sockets implements ByteStream.
* `TcpProxyProofs`: `TypeOK`, `CountIsOpen`, `RacesNeedFailedConnect`, and that every session implements SessionLife.
* `ContextPoolProofs`: `TypeOK`, the four safety invariants of `context_pool`, and that `run()` returns only after
  every thread has exited (`RunReturnsLast`).
* `FlowStatisticsProofs`: `TypeOK`, `PacketsConserved`, `SentWereReceived`, and that FlowStatistics implements PacketReports.
* `UdpProxyProofs`: `TypeOK`, the four safety invariants of `udp_proxy`, that a buffer has one user
  (`BuffersHaveOneUser`), and that an open session has a wait on its way to close it (`HeartbeatOutstanding`).
* `LoggerProxyProofs`: `TypeOK`, `OpensClosedHandle`, `LinesKept`, `FileBounded`.
* `LauncherProofs`: of Launcher `TypeOK`, `OutcomeFitsFiles`, `SearchIsRight` and `LastNumberIsCut`, for every set of texts;
  of TextUtils `IntegersAreRead` and `ListsBeginRight`, for integers of any width, digits and lists of any number and fields of any
  length, that every integer can be written in a way that is read back (`EveryIntegerCanBeRead`), that every misspelt `false` is
  parsed as true (`MisspeltFalseIsTrue`), and that the hex dump tells the bytes but has other characters than
  hex digits for negative chars (`DumpIsReadable`).

Most proof modules first prove `TypeOK`, which is inductive alone (in TcpRelay and TcpProxy it is part of `IInv`), then an invariant `IInv` with
one step per action, then the properties from `IInv`.

*TcpSession.* The properties are not inductive. `OpenSessionIsHeld` needs
`HeartbeatOutstanding`: an open session has a wait that is pending, expired and not yet
handled, or being handled; a cancelled wait would not do, since its handler
starts no new one. `BufferHasOneUser` and `RelayOnlyWhileOpen` need `ReadsInOrder` and
`OpenInOrder`: how far `start()` has come says which reads can be outstanding, hence
which handlers can run beside it, and which sockets are connected. `CountExact` needs `BeforeStart`.
`RacesNeedTwoThreads` needs `OneThread`: on one thread a
test of `closed_` and the `close()` behind it are not separated by another. `ClosedReleasesAll` needs
`RaceRecorded`: a session closed while `start()` is in its loops has the race on record. The
refinement (`LifeCorrect`) is a step simulation from `IInv`: `HeartbeatOutstanding` is why no step frees an open
session, `RelayOnlyWhileOpen` and the one handler per thread why none closes it under a relay.

*TcpRelay.* `Written(s, d)` is how far the stream of `s` has been written to `d`, computed from the place of the handler in its
loop. `DeliveredWasWritten`, `QueueBounds`, `QueueInOrder` and `QueueComplete` say that the bytes between what was
delivered and what was written are on their way, in order, and all of them unless the connection is lost: so the
byte that a peer reads is the next one, which is the step of ByteStream. `HandlerWrites` keeps the write inside the buffer.
`StallLasts` needs nothing but the types: no action but the two it names can lift the wait.

*TcpProxy.* `JobsFit`: which thread can be inside of what for a session; `PhasesFit`: in which phase of the session;
`StartRuns`: between two accepts `start()` runs. `SecondClose`: if a session is closed and a thread is still in its
`close()`, start() had failed on another thread; with it each decrement of the count meets an open session or one
that `raced` counts (with the cardinality lemmas of the standard library).

*Launcher.* `ReadyOnceChecked`: what each place in `start()` knows of the files. `TargetIsMade`: once the manager is
chosen, the target is what `make_ip()` made of one of the texts; what remains is about `make_ip()` alone. A text with an address in
it has a leftmost start, by the least-element principle; there the alternatives of each number are tried in
their order, and the first for the last number is one digit.

*TextUtils.* The recursive functions are the difficulty: before anything can be said of one, it has to be proved that there is a function
that fulfils its equation. The library's theorems on induction take a predicate, which the provers here
cannot be given; so induction is stated for sets (`SetInduction`: a set that contains 0 and with each number the next one contains all), from the
well-foundedness of `<` on Nat. `NumberOfValues` and `NumberHasDigits` give the value of digits and the digits of a value,
`ParseListEquation` and `JoinedEquation` the equations of the two functions on lists, and `ListIsRead` goes through the fields from the last to the
first: from the place where a field begins, `parse()` finds the elements of that field and of those behind it.

*ContextPool.* `RoundRobin` says exactly how often each context was handed out:
the contexts below the index once more than the last. `OneLateSession` needs that the
acceptor is on context 0 (`StartupOrder`), that contexts stop in order (`StopInOrder`), and
that the handler that creates the late session is the last (`LateIsLast`).

*FlowStatistics.* While the report is being read the counters stand still
(`ReportInProgress`); packets received are packets sent, dropped, or held by a thread
(`PacketsAccounted`, with the cardinality lemmas of the standard library). The refinement (`ReportsCorrect`) needs both:
the first makes the end of a report a `Report` of PacketReports, the second is the guard of its `CountSent`.

*UdpProxy.* `BeforeCreate`: nothing of the session exists before it is in the map, and the map keeps it;
`ClosedTogether`: `closed_` and the closed socket go together, on the session's thread.

*LoggerProxy.* `HolderWorks`: creation and replacement are done by the holder of the mutex; `HandleFollows`:
what each place in `write()` says about the handle; `DirectoryHolds`: whatever has lines, and whatever is open, is in
the directory, so only a repeated name empties a file with lines. `LimitHeld` counts: the lines of the file are those
counted in the size and those whose writers stand before the counting; threads enter the writing only below the
limit, and no more than all of them do (with the cardinality lemmas of the standard library). `AllBounded` keeps the
bound for the files that were replaced.

Only model-checked: the properties under fairness (`SilentClientIsDropped`, `ClosedSessionIsFreed`, `SentIsDelivered`,
`ClientsAreAccepted`, `DataIsRelayed`, `ShutdownEndsRun`, `CountedIsReported`, `CountingReturns`, `SilentSessionCloses`), which are outside
what the provers here can do. Every invariant and every action property that a run checks is a theorem. The four
violated properties are counterexamples, found by TLC.

## Plan

Done: the session, the pool, the statistics, the UDP side, the logger, the start-up, the TCP side as a whole
(TcpProxy), the data path (TcpRelay), the text utilities, and the proofs of all their safety properties. What is left, in this order:

1. **UDP replies**: the loop that replies sent to the listening address would make, and a run of the UDP statistics.
2. **Logging levels**: the error of `config_loader.cpp:23` that is logged before the level is set.
3. **One session, end to end**: a proof that the handlers of TcpSession, with bytes, are those of TcpRelay, which so far takes
   `BufferHasOneUser` and the order of the handlers from TcpSession by argument.
4. **Bridge**: the deprecated bridge, an asynchronous version of the relay, if it is ever used again.

## Not modelled

`deprecated/`: it is in no project file, its `main()` is commented out, and nothing of the program refers to it. Log text
(formatting only), project files, and the inside of boost::asio, which is modelled by what it promises. Unsigned and
floating-point numbers of `parse()`. `task_timer::stop()` and
`set_single_shot()` cannot be reached: the timers are private to the statistics. `udp_flow_statistics` has the same
`add_packet()` as the TCP statistics and shares the report with them; FlowStatistics is written from the TCP class.
