------------------------------ MODULE UdpProxy ------------------------------
(***************************************************************************)
(* The UDP side (src/udp): udp_session_manager with its client socket and  *)
(* its map of sessions, and the session.                                   *)
(*                                                                         *)
(* The manager looks a session up by the local address of its own client   *)
(* socket, so the map has one key and there is one session at most.  Its   *)
(* constructor binds a second socket to the same address.  Operating       *)
(* systems refuse that unless told otherwise, which the code does not do;  *)
(* what bind() does is left open here: it may throw or succeed.            *)
(*                                                                         *)
(* Two threads: the manager's, which runs the client socket's handlers,    *)
(* and the session's.  They are one thread if the pool has one context.    *)
(***************************************************************************)
EXTENDS Integers

CONSTANT MaxWaits  \* bound: completed heartbeat waits that may queue up

ASSUME MaxWaitsAssumption == MaxWaits \in Nat \ {0}

Listen    == "listen"   \* the address that is listened on
NoAddress == "none"     \* what get_local_address() answers on a closed socket

VARIABLES
  colocated,  \* the pool has one context
  ended,      \* how the process ended, or "running"
  receiving,  \* async_receive on client_socket_: none, pending, or completed how
  manager,    \* where the manager's receive handler stands
  sessions,   \* the keys of udp_sessions_
  socket,     \* state of the session's target_socket_
  reading,    \* async_receive on target_socket_
  doing,      \* what handler the session's thread is inside of
  closed,     \* closed_
  timer,      \* a wait on heartbeat_timer_ is pending
  expired,    \* waits completed without error, handler not run yet
  cancelled,  \* waits completed with operation_aborted, handler not run yet
  failed,     \* history: the sockets on which a receive has failed
  raced       \* history: close() ran while the manager used the session

managerVars == <<receiving, manager>>
sessionVars == <<socket, reading, doing, closed>>
timerVars   == <<timer, expired, cancelled>>
historyVars == <<failed, raced>>
vars == <<colocated, ended, managerVars, sessions, sessionVars, timerVars, historyVars>>

TypeOK ==
  /\ colocated \in BOOLEAN
  /\ ended \in {"running", "exception", "crash"}
  /\ receiving \in {"none", "pending", "datagram", "error"}
  /\ manager \in {"idle", "test", "keep_alive", "send", "receive"}
  /\ sessions \subseteq {Listen, NoAddress}
  /\ socket \in {"none", "open", "closed"}
  /\ reading \in {"none", "pending", "datagram", "error", "aborted"}
  /\ doing \in {"idle", "reply", "close"}
  /\ closed \in BOOLEAN
  /\ timer \in BOOLEAN
  /\ expired \in Nat
  /\ cancelled \in Nat
  /\ failed \subseteq {"client", "target"}
  /\ raced \in BOOLEAN

\* run(): the first receive is started and the threads are about to run.
Init ==
  /\ colocated \in BOOLEAN
  /\ ended = "running"
  /\ receiving = "pending" /\ manager = "idle"
  /\ sessions = {}
  /\ socket = "none" /\ reading = "none" /\ doing = "idle" /\ closed = FALSE
  /\ timer = FALSE /\ expired = 0 /\ cancelled = 0
  /\ failed = {} /\ raced = FALSE

\* The owners of the session: the map, and the handle of the receive handler.
Held == Listen \in sessions \/ manager \in {"test", "keep_alive", "send"}

\* Handlers of the session that are pending, queued or running; all of them
\* captured a bare `this'.
HandlersOutstanding ==
  timer \/ expired > 0 \/ cancelled > 0 \/ reading # "none" \/ doing # "idle"

\* A thread can take a new completion off its queue.
ManagerFree == manager = "idle" /\ (colocated => doing = "idle")
SessionFree == doing = "idle" /\ (colocated => manager = "idle")

-----------------------------------------------------------------------------
(* The manager's thread.                                                   *)

\* A datagram for a session that exists: get_or_create_udp_session() finds it.
FindSession ==
  /\ ManagerFree
  /\ receiving = "datagram" /\ Listen \in sessions
  /\ receiving' = "none" /\ manager' = "test"
  /\ UNCHANGED <<colocated, ended, sessions, sessionVars, timerVars, historyVars>>

\* Variant of CreateSession: the receive chain of the new session is not started.
CreateSession_Deaf ==
  /\ ManagerFree
  /\ receiving = "datagram" /\ Listen \notin sessions
  /\ receiving' = "none" /\ manager' = "test"
  /\ sessions' = sessions \cup {Listen}
  /\ socket' = "open"
  /\ UNCHANGED <<colocated, ended, reading, doing, closed, timerVars, historyVars>>

\* The first datagram: the session is made, its receive chain started, and it
\* enters the map, all under mutex_.
CreateSession ==
  /\ ManagerFree
  /\ receiving = "datagram" /\ Listen \notin sessions
  /\ receiving' = "none" /\ manager' = "test"
  /\ sessions' = sessions \cup {Listen}
  /\ socket' = "open" /\ reading' = "pending"
  /\ UNCHANGED <<colocated, ended, doing, closed, timerVars, historyVars>>

\* The session's constructor throws: bind() was refused.  Nothing catches it
\* between here and the thread's function.
CreateThrows ==
  /\ ManagerFree
  /\ receiving = "datagram" /\ Listen \notin sessions
  /\ ended' = "exception"
  /\ UNCHANGED <<colocated, managerVars, sessions, sessionVars, timerVars, historyVars>>

\* A failed receive: no new one is started, whatever the error.
ReceiveFails ==
  /\ ManagerFree
  /\ receiving = "error"
  /\ receiving' = "none"
  /\ failed' = failed \cup {"client"}
  /\ UNCHANGED <<colocated, ended, manager, sessions, sessionVars, timerVars, raced>>

\* Variant of TestClosed: closed_ is not tested.
TestClosed_Skipped ==
  /\ manager = "test"
  /\ manager' = "keep_alive"
  /\ UNCHANGED <<colocated, ended, receiving, sessions, sessionVars, timerVars, historyVars>>

\* Variant of TestClosed: the handler returns when the session is closed.
TestClosed_Returns ==
  /\ manager = "test"
  /\ manager' = IF closed THEN "idle" ELSE "keep_alive"
  /\ UNCHANGED <<colocated, ended, receiving, sessions, sessionVars, timerVars, historyVars>>

\* send_to_target() returns at once on a closed session.
TestClosed ==
  /\ manager = "test"
  /\ manager' = IF closed THEN "receive" ELSE "keep_alive"
  /\ UNCHANGED <<colocated, ended, receiving, sessions, sessionVars, timerVars, historyVars>>

\* keep_alive(): the pending wait is cancelled and a new one started, on a
\* session that may have been closed since closed_ was tested.
KeepAlive ==
  /\ manager = "keep_alive"
  /\ manager' = "send"
  /\ cancelled' = IF timer THEN cancelled + 1 ELSE cancelled
  /\ timer' = TRUE
  /\ UNCHANGED <<colocated, ended, receiving, sessions, sessionVars, expired, historyVars>>

\* The datagram is sent to every target; what throws is caught and logged.
SendToTargets ==
  /\ manager = "send"
  /\ manager' = "receive"
  /\ UNCHANGED <<colocated, ended, receiving, sessions, sessionVars, timerVars, historyVars>>

\* async_receive_client() again.
ReceiveAgain ==
  /\ manager = "receive"
  /\ receiving' = "pending" /\ manager' = "idle"
  /\ UNCHANGED <<colocated, ended, sessions, sessionVars, timerVars, historyVars>>

ManagerStep ==
  \/ FindSession \/ CreateSession \/ CreateThrows \/ ReceiveFails
  \/ TestClosed \/ KeepAlive \/ SendToTargets \/ ReceiveAgain

-----------------------------------------------------------------------------
(* The session's thread.                                                   *)

\* Variant of TargetDatagram: data from a target restarts the heartbeat too.
TargetDatagram_KeepsAlive ==
  /\ SessionFree
  /\ reading = "datagram" /\ ~closed
  /\ reading' = "none" /\ doing' = "reply"
  /\ expired + cancelled < MaxWaits
  /\ cancelled' = IF timer THEN cancelled + 1 ELSE cancelled
  /\ timer' = TRUE
  /\ UNCHANGED <<colocated, ended, managerVars, sessions, socket, closed, expired, historyVars>>

\* A datagram from a target: send_to_client().
TargetDatagram ==
  /\ SessionFree
  /\ reading = "datagram" /\ ~closed
  /\ reading' = "none" /\ doing' = "reply"
  /\ UNCHANGED <<colocated, ended, managerVars, sessions, socket, closed, timerVars, historyVars>>

\* The datagram was sent on, or failed to be; async_receive_target() again.
ReplyToClient ==
  /\ doing = "reply"
  /\ doing' = "idle"
  /\ reading' = IF closed THEN "none" ELSE "pending"
  /\ UNCHANGED <<colocated, ended, managerVars, sessions, socket, closed, timerVars, historyVars>>

\* A failed receive from the targets: logged, and no new one is started.
TargetFails ==
  /\ SessionFree
  /\ reading = "error" /\ ~closed
  /\ reading' = "none"
  /\ failed' = failed \cup {"target"}
  /\ UNCHANGED <<colocated, ended, managerVars, sessions, socket, doing, closed, timerVars, raced>>

\* The handler finds closed_ set.
TargetIgnored ==
  /\ SessionFree
  /\ reading \in {"datagram", "error", "aborted"} /\ closed
  /\ reading' = "none"
  /\ UNCHANGED <<colocated, ended, managerVars, sessions, socket, doing, closed, timerVars, historyVars>>

\* The heartbeat handler of a wait that expired.
HeartbeatHandler ==
  /\ SessionFree
  /\ expired > 0
  /\ expired' = expired - 1
  /\ doing' = IF closed THEN "idle" ELSE "close"
  /\ UNCHANGED <<colocated, ended, managerVars, sessions, socket, reading, closed,
                 timer, cancelled, historyVars>>

\* The heartbeat handler of a wait that was cancelled.
CancelledHandler ==
  /\ SessionFree
  /\ cancelled > 0
  /\ cancelled' = cancelled - 1
  /\ UNCHANGED <<colocated, ended, managerVars, sessions, sessionVars, timer, expired, historyVars>>

\* close_session(get_local_address()): erases the key of the address the socket
\* has now.
CloseSession(state) ==
  sessions' = sessions \ {IF state = "open" THEN Listen ELSE NoAddress}

\* What else close() does, past its test of closed_.  On a thread of its own it
\* may run while the manager uses the same timer and socket: the process crashes
\* or goes on.
ShutDown ==
  LET unsynchronised == manager \in {"test", "keep_alive", "send"}
  IN /\ doing = "close"
     /\ doing' = "idle" /\ closed' = TRUE
     /\ timer' = FALSE
     /\ cancelled' = IF timer THEN cancelled + 1 ELSE cancelled
     /\ socket' = "closed"
     /\ reading' = IF reading = "pending" THEN "aborted" ELSE reading
     /\ raced' = (raced \/ unsynchronised)
     /\ ended' \in IF unsynchronised THEN {"running", "crash"} ELSE {"running"}
     /\ UNCHANGED <<colocated, managerVars, expired, failed>>

\* Variant of Close: the address is asked for before the socket is closed.
Close_AsksFirst == ShutDown /\ CloseSession(socket)

Close == ShutDown /\ CloseSession(socket')

SessionStep ==
  \/ TargetDatagram \/ ReplyToClient \/ TargetFails \/ TargetIgnored
  \/ HeartbeatHandler \/ CancelledHandler \/ Close

-----------------------------------------------------------------------------
(* The environment: the clock and the peers.                               *)

\* heartbeat_interval has passed since the pending wait was started.
HeartbeatExpires ==
  /\ timer
  /\ timer' = FALSE
  /\ expired' = expired + 1
  /\ UNCHANGED <<colocated, ended, managerVars, sessions, sessionVars, cancelled, historyVars>>

\* A datagram arrives for the client socket, or the receive fails (a datagram
\* longer than the buffer, or an ICMP error for one that was sent).  MaxWaits
\* bounds how far clients run ahead of the queued heartbeat handlers.
ReceiveCompletes(result) ==
  /\ receiving = "pending"
  /\ result = "datagram" => expired + cancelled < MaxWaits
  /\ receiving' = result
  /\ UNCHANGED <<colocated, ended, manager, sessions, sessionVars, timerVars, historyVars>>

\* The same for the session's socket.
TargetCompletes(result) ==
  /\ reading = "pending"
  /\ reading' = result
  /\ UNCHANGED <<colocated, ended, managerVars, sessions, socket, doing, closed,
                 timerVars, historyVars>>

Environment ==
  \/ HeartbeatExpires
  \/ \E result \in {"datagram", "error"} : ReceiveCompletes(result) \/ TargetCompletes(result)

Next == ended = "running" /\ (ManagerStep \/ SessionStep \/ Environment)

Spec == Init /\ [][Next]_vars

-----------------------------------------------------------------------------
(* Fairness.  Threads run, a context serves its queue in turn (SF), and a  *)
(* pending wait expires unless some handler cancels it.                    *)

\* The wait that is pending now expires, or a handler cancels or restarts it.
WaitEnds == Next /\ timer /\ (expired' = expired + 1 \/ cancelled' = cancelled + 1)

Fairness ==
  /\ WF_vars(ended = "running" /\ ManagerStep)
  /\ SF_vars(ended = "running" /\ (FindSession \/ CreateSession \/ CreateThrows))
  /\ WF_vars(ended = "running" /\ SessionStep)
  /\ SF_vars(ended = "running" /\ HeartbeatHandler)
  /\ SF_vars(ended = "running" /\ CancelledHandler)
  /\ WF_vars(WaitEnds)

FairSpec == Spec /\ Fairness

-----------------------------------------------------------------------------
(* Safety.                                                                 *)

\* No handler of the session outlives it, although all captured a bare `this'
\* (udp_session.cpp:76, 121): the session is never taken out of the map,
\* because close() asks a socket for its address that it has just closed (154, 156).
HandlersFindSession == HandlersOutstanding => Held

\* The client socket's buffer_ is not received into while it is being sent on,
\* and one receive at most is outstanding on each socket.
BuffersHaveOneUser ==
  /\ manager # "idle" => receiving = "none"
  /\ doing = "reply" => reading = "none"

\* As long as no receive fails the manager always receives or handles what it
\* received.
ClientsAreHeard ==
  "client" \notin failed => receiving # "none" \/ manager # "idle"

\* As long as no receive fails an open session hears its targets.
TargetsAreHeard ==
  socket = "open" /\ "target" \notin failed => reading # "none" \/ doing = "reply"

\* An open session the manager has let go of has a wait pending or on its way to
\* close it: it cannot stay open for ever behind a client that has left.
HeartbeatOutstanding ==
  socket = "open" /\ manager \notin {"test", "keep_alive"} =>
    timer \/ expired > 0 \/ doing = "close"

\* A closed session has no wait pending, no open socket and no receive that could
\* deliver, and nothing more is sent through it, unless close() raced with the
\* manager.
ClosedIsQuiet ==
  closed /\ ~raced =>
    /\ ~timer
    /\ socket = "closed" /\ reading # "pending"
    /\ manager \notin {"keep_alive", "send"}

\* "UDP connection is working" (udp_session_manager.cpp:21): datagrams are served
\* from then on, rather than ending the process.
DatagramsAreServed == ended # "exception"

\* The same message: from then on datagrams are received.
WorkingReceives == ended = "running" => receiving # "none" \/ manager # "idle"

-----------------------------------------------------------------------------
(* Liveness.                                                               *)

\* A session whose client sends nothing more is closed, however busy its targets are.
SilentSessionCloses == socket = "open" ~> closed \/ receiving = "datagram" \/ ended # "running"
=============================================================================
