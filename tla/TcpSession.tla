----------------------------- MODULE TcpSession -----------------------------
(***************************************************************************)
(* One tcp_session (src/tcp/tcp_session.cpp): a client socket, one socket  *)
(* per forward address, a heartbeat timer and the flag closed_.            *)
(*                                                                         *)
(* Two threads touch a session.  The acceptor's thread runs the accept     *)
(* handler, hence start(): the blocking connects and the first async       *)
(* reads.  The worker is the thread of the session's own io_context and    *)
(* runs the completion handlers.  They are the same thread iff the pool    *)
(* gave the session the acceptor's context (variable colocated).           *)
(*                                                                         *)
(* Only handlers of the heartbeat timer own the session (they capture a    *)
(* shared_ptr); read handlers capture a bare `this'.                       *)
(*                                                                         *)
(* boost::asio promises no order between completions that are ready, so    *)
(* the worker may dispatch any of them.                                    *)
(***************************************************************************)
EXTENDS Integers

CONSTANTS
  NumTargets,  \* how many forward addresses the remote configuration lists
  MaxWaits     \* bound: completed heartbeat waits that may queue up

ASSUME NumTargetsAssumption == NumTargets \in Nat
ASSUME MaxWaitsAssumption   == MaxWaits \in Nat \ {0}

Client  == 0
Targets == 1..NumTargets
Sockets == {Client} \cup Targets

VARIABLES
  colocated,  \* the session's io_context is the one the acceptor runs on
  apc,        \* where the accept handler of this session stands
  idx,        \* loop index of start()'s two loops over the targets
  doing,      \* what handler the worker is inside of
  cursor,     \* the target that handler works on
  closed,     \* closed_
  socket,     \* state of client_socket_ and of each element of target_sockets_
  reads,      \* the async_read of each socket: outstanding, completed how, or none
  timer,      \* a wait on heartbeat_timer_ is pending
  expired,    \* waits completed without error, handler not run yet
  cancelled,  \* waits completed with operation_aborted, handler not run yet
  count,      \* what this session added to tcp_flow_statistics::count_
  heard,      \* history: data arrived since the heartbeat was last armed
  races,      \* history: undefined behaviour met so far
  crashed     \* the undefined behaviour took the process down

acceptorVars == <<apc, idx>>
workerVars   == <<doing, cursor>>
timerVars    == <<timer, expired, cancelled>>
faultVars    == <<races, crashed>>
vars == <<colocated, acceptorVars, workerVars, closed, socket, reads,
          timerVars, count, heard, faultVars>>

RaceKinds == {"targets_cleared_during_start", "double_close",
              "overlapping_reads", "dangling_handler"}

TypeOK ==
  /\ colocated \in BOOLEAN
  /\ apc \in {"accepting", "start", "connect", "close", "read_target", "rearm", "done"}
  /\ idx \in 1..(NumTargets + 1)
  /\ doing \in {"idle", "forward", "reply", "expire", "drop"}
  /\ cursor \in 0..(NumTargets + 1)
  /\ closed \in BOOLEAN
  /\ socket \in [Sockets -> {"none", "open", "closed"}]
  /\ reads \in [Sockets -> {"none", "pending", "ok", "error", "aborted"}]
  /\ timer \in BOOLEAN
  /\ expired \in Nat
  /\ cancelled \in Nat
  /\ count \in Int
  /\ heard \in BOOLEAN
  /\ races \subseteq RaceKinds
  /\ crashed \in BOOLEAN

\* make_shared<tcp_session> and async_accept on its client socket.
Init ==
  /\ colocated \in BOOLEAN
  /\ apc = "accepting" /\ idx = 1
  /\ doing = "idle" /\ cursor = 0
  /\ closed = FALSE
  /\ socket = [s \in Sockets |-> "none"]
  /\ reads = [s \in Sockets |-> "none"]
  /\ timer = FALSE /\ expired = 0 /\ cancelled = 0
  /\ count = 0
  /\ heard = FALSE
  /\ races = {} /\ crashed = FALSE

\* The owners of the session: the accept operation and its handler, and every
\* wait on the heartbeat timer, pending, queued or running, through its dummy.
Held ==
  \/ apc # "done"
  \/ timer
  \/ expired > 0
  \/ cancelled > 0
  \/ doing = "expire"

\* The client was accepted and start() has counted and armed the session.
Started == socket[Client] # "none" /\ apc # "start"

-----------------------------------------------------------------------------
(* Building blocks: one operator per function the handlers call.           *)

\* keep_alive(): expires_from_now cancels the pending wait, async_wait starts
\* a new one.  A wait whose handler is already queued is out of its reach.
KeepAlive ==
  /\ cancelled' = IF timer THEN cancelled + 1 ELSE cancelled
  /\ timer' = TRUE
  /\ heard' = FALSE

\* async_read on socket s.  On a closed or destroyed socket the operation
\* completes at once with bad_descriptor.
AsyncRead(s) ==
  /\ reads' = [reads EXCEPT ![s] = IF socket[s] = "open" THEN "pending" ELSE "error"]
  /\ races' = races \cup IF reads[s] = "none" THEN {} ELSE {"overlapping_reads"}

\* Variant of Close: remove_connection() is forgotten.
Close_Uncounted(unsynchronised) ==
  /\ closed' = TRUE
  /\ timer' = FALSE
  /\ cancelled' = IF timer THEN cancelled + 1 ELSE cancelled
  /\ socket' = [s \in Sockets |-> IF socket[s] = "open" THEN "closed" ELSE socket[s]]
  /\ reads' = [s \in Sockets |-> IF reads[s] = "pending" THEN "aborted" ELSE reads[s]]
  /\ UNCHANGED <<count, races, crashed>>

\* Variant of Close: close_client_connection() is forgotten.
Close_KeepsClient(unsynchronised) ==
  /\ closed' = TRUE
  /\ timer' = FALSE
  /\ cancelled' = IF timer THEN cancelled + 1 ELSE cancelled
  /\ socket' = [s \in Sockets |-> IF s \in Targets /\ socket[s] = "open"
                                  THEN "closed" ELSE socket[s]]
  /\ reads' = [s \in Sockets |-> IF s \in Targets /\ reads[s] = "pending"
                                 THEN "aborted" ELSE reads[s]]
  /\ count' = count - 1
  /\ UNCHANGED <<races, crashed>>

\* What close() does once it has found closed_ false.  A thread that comes here
\* after the other one did has raced on closed_, as has one that clears
\* target_sockets_ under start()'s loops (unsynchronised).  Undefined behaviour:
\* the process crashes or carries on.
Close(unsynchronised) ==
  LET met == (IF closed THEN {"double_close"} ELSE {})
             \cup (IF unsynchronised THEN {"targets_cleared_during_start"} ELSE {})
  IN /\ closed' = TRUE
     /\ timer' = FALSE
     /\ cancelled' = IF timer THEN cancelled + 1 ELSE cancelled
     /\ socket' = [s \in Sockets |-> IF socket[s] = "open" THEN "closed" ELSE socket[s]]
     /\ reads' = [s \in Sockets |-> IF reads[s] = "pending" THEN "aborted" ELSE reads[s]]
     /\ count' = count - 1
     /\ races' = races \cup met
     /\ crashed' \in IF met = {} THEN {FALSE} ELSE BOOLEAN

-----------------------------------------------------------------------------
(* The acceptor's thread: the accept handler and start().                  *)

\* The accept completes without error: the handler calls start().
AcceptSucceeds ==
  /\ apc = "accepting"
  /\ apc' = "start"
  /\ socket' = [socket EXCEPT ![Client] = "open"]
  /\ UNCHANGED <<colocated, idx, workerVars, closed, reads, timerVars, count,
                 heard, faultVars>>

\* The accept completes with an error: this session is given up.
AcceptFails ==
  /\ apc = "accepting"
  /\ apc' = "rearm"
  /\ UNCHANGED <<colocated, idx, workerVars, closed, socket, reads, timerVars,
                 count, heard, faultVars>>

\* Variant of BeginStart: the client is read from before the targets are connected.
BeginStart_ReadsFirst ==
  /\ apc = "start"
  /\ apc' = "connect" /\ idx' = 1
  /\ count' = count + 1
  /\ KeepAlive
  /\ reads' = [reads EXCEPT ![Client] = "pending"]
  /\ UNCHANGED <<colocated, workerVars, closed, socket, expired, faultVars>>

\* start(): add_connection, keep_alive, then the loop of connect_target_server.
BeginStart ==
  /\ apc = "start"
  /\ apc' = "connect" /\ idx' = 1
  /\ count' = count + 1
  /\ KeepAlive
  /\ UNCHANGED <<colocated, workerVars, closed, socket, reads, expired, faultVars>>

\* A blocking connect returns: the next address, whatever closed_ says.
ConnectSucceeds ==
  /\ apc = "connect" /\ idx <= NumTargets
  /\ socket' = [socket EXCEPT ![idx] = "open"]
  /\ idx' = idx + 1
  /\ UNCHANGED <<colocated, apc, workerVars, closed, reads, timerVars, count,
                 heard, faultVars>>

\* A blocking connect throws: close(), which does nothing if closed_ is set.
ConnectFails ==
  /\ apc = "connect" /\ idx <= NumTargets
  /\ apc' = IF closed THEN "rearm" ELSE "close"
  /\ UNCHANGED <<colocated, idx, workerVars, closed, socket, reads, timerVars,
                 count, heard, faultVars>>

CloseOnAcceptor ==
  /\ apc = "close"
  /\ apc' = "rearm"
  /\ Close(FALSE)
  /\ UNCHANGED <<colocated, idx, workerVars, expired, heard>>

\* Every target is connected: async_read_client().
ReadClientFirst ==
  /\ apc = "connect" /\ idx > NumTargets
  /\ AsyncRead(Client)
  /\ apc' = "read_target" /\ idx' = 1
  /\ UNCHANGED <<colocated, workerVars, closed, socket, timerVars, count, heard, crashed>>

\* One round of the loop of async_read_target().  An element that was destroyed
\* before the loop began is not visited.
ReadTargetFirst ==
  /\ apc = "read_target" /\ idx <= NumTargets
  /\ \/ AsyncRead(idx)
     \/ socket[idx] = "closed" /\ UNCHANGED <<reads, races>>
  /\ idx' = idx + 1
  /\ UNCHANGED <<colocated, apc, workerVars, closed, socket, timerVars, count,
                 heard, crashed>>

\* start() returns to the accept handler.
StartReturns ==
  /\ apc = "read_target" /\ idx > NumTargets
  /\ apc' = "rearm"
  /\ UNCHANGED <<colocated, idx, workerVars, closed, socket, reads, timerVars,
                 count, heard, faultVars>>

\* start_acceptor() for the next session; the handler lets go of this one.
FinishAccept ==
  /\ apc = "rearm"
  /\ apc' = "done"
  /\ UNCHANGED <<colocated, idx, workerVars, closed, socket, reads, timerVars,
                 count, heard, faultVars>>

AcceptorStep ==
  \/ BeginStart \/ ConnectSucceeds \/ ConnectFails \/ CloseOnAcceptor
  \/ ReadClientFirst \/ ReadTargetFirst \/ StartReturns \/ FinishAccept

-----------------------------------------------------------------------------
(* The worker: completion handlers on the session's io_context.            *)

\* The worker can take a new completion off its queue.
WorkerFree ==
  /\ doing = "idle"
  /\ colocated => apc \in {"accepting", "done"}

\* Variant of HeartbeatHandler: a session that heard its targets is spared, and
\* the heartbeat is not armed again.
HeartbeatHandler_SparesBusy ==
  /\ WorkerFree
  /\ expired > 0
  /\ expired' = expired - 1
  /\ doing' = IF closed \/ heard THEN "idle" ELSE "expire"
  /\ UNCHANGED <<colocated, acceptorVars, cursor, closed, socket, reads, timer,
                 cancelled, count, heard, faultVars>>

\* Variant of HeartbeatHandler: the handler starts the next wait itself.
HeartbeatHandler_Repeats ==
  /\ WorkerFree
  /\ expired > 0
  /\ expired' = expired - 1
  /\ timer' = TRUE
  /\ doing' = IF closed THEN "idle" ELSE "expire"
  /\ UNCHANGED <<colocated, acceptorVars, cursor, closed, socket, reads,
                 cancelled, count, heard, faultVars>>

\* The heartbeat handler of a wait that expired.
HeartbeatHandler ==
  /\ WorkerFree
  /\ expired > 0
  /\ expired' = expired - 1
  /\ doing' = IF closed THEN "idle" ELSE "expire"
  /\ UNCHANGED <<colocated, acceptorVars, cursor, closed, socket, reads, timer,
                 cancelled, count, heard, faultVars>>

\* The heartbeat handler of a cancelled wait: only gives its dummy back.
CancelledHandler ==
  /\ WorkerFree
  /\ cancelled > 0
  /\ cancelled' = cancelled - 1
  /\ UNCHANGED <<colocated, acceptorVars, workerVars, closed, socket, reads,
                 timer, expired, count, heard, faultVars>>

\* A read of socket s has completed with result r and its handler is called.
Dispatch(s, r) ==
  /\ WorkerFree
  /\ reads[s] = r
  /\ reads' = [reads EXCEPT ![s] = "none"]
  /\ UNCHANGED <<colocated, acceptorVars, closed, socket, expired, count>>

\* Variant of ClientDataHandler: the next read is started before the data is sent.
ClientDataHandler_ReadsAhead ==
  /\ WorkerFree
  /\ reads[Client] = "ok"
  /\ reads' = [reads EXCEPT ![Client] = "pending"]
  /\ Held /\ ~closed
  /\ KeepAlive
  /\ doing' = "forward" /\ cursor' = 1
  /\ UNCHANGED <<colocated, acceptorVars, closed, socket, expired, count, faultVars>>

\* Data from the client: keep_alive(), then the loop of send_to_target().
ClientDataHandler ==
  /\ Dispatch(Client, "ok")
  /\ Held /\ ~closed
  /\ KeepAlive
  /\ doing' = "forward" /\ cursor' = 1
  /\ UNCHANGED faultVars

\* Variant of TargetDataHandler: data from a target restarts the heartbeat too.
TargetDataHandler_KeepsAlive(t) ==
  /\ Dispatch(t, "ok")
  /\ Held /\ ~closed
  /\ doing' = "reply" /\ cursor' = t
  /\ KeepAlive
  /\ UNCHANGED faultVars

\* Data from target t: send_to_client().  The heartbeat is left as it is.
TargetDataHandler(t) ==
  /\ Dispatch(t, "ok")
  /\ Held /\ ~closed
  /\ doing' = "reply" /\ cursor' = t
  /\ heard' = TRUE
  /\ UNCHANGED <<timer, cancelled, faultVars>>

\* Variant of ReadErrorHandler: closed_ is not tested.
ReadErrorHandler_Untested(s) ==
  /\ Dispatch(s, "error")
  /\ Held
  /\ doing' = "drop"
  /\ UNCHANGED <<cursor, timer, cancelled, heard, faultVars>>

\* End of file or an error on either side: close().
ReadErrorHandler(s) ==
  /\ Dispatch(s, "error")
  /\ Held /\ ~closed
  /\ doing' = "drop"
  /\ UNCHANGED <<cursor, timer, cancelled, heard, faultVars>>

\* The handler of a read finds closed_ set, or was told operation_aborted.
IgnoredHandler(s) ==
  /\ \E r \in {"ok", "error", "aborted"} :
       /\ Dispatch(s, r)
       /\ Held
       /\ closed \/ r = "aborted"
  /\ UNCHANGED <<workerVars, timer, cancelled, heard, faultVars>>

\* The last owner is gone and a read handler still runs: it tests closed_ in
\* freed memory.  Taken for false, operation_aborted still does nothing; any
\* other result works on the freed object.
DanglingHandler(s) ==
  /\ \E r \in {"ok", "error", "aborted"} :
       /\ Dispatch(s, r)
       /\ ~Held
       /\ crashed' \in IF r = "aborted" THEN {FALSE} ELSE BOOLEAN
  /\ races' = races \cup {"dangling_handler"}
  /\ UNCHANGED <<workerVars, timer, cancelled, heard>>

\* A blocking write to the next target returns, written or failed alike.
ForwardToTarget ==
  /\ doing = "forward" /\ cursor <= NumTargets
  /\ cursor' = cursor + 1
  /\ UNCHANGED <<colocated, acceptorVars, doing, closed, socket, reads,
                 timerVars, count, heard, faultVars>>

\* send_to_target() returns: async_read_client().
ForwardDone ==
  /\ doing = "forward" /\ cursor > NumTargets
  /\ AsyncRead(Client)
  /\ doing' = "idle" /\ cursor' = 0
  /\ UNCHANGED <<colocated, acceptorVars, closed, socket, timerVars, count,
                 heard, crashed>>

\* The blocking write to the client returns: async_read_target(target).
ReplyToClient ==
  /\ doing = "reply"
  /\ AsyncRead(cursor)
  /\ doing' = "idle" /\ cursor' = 0
  /\ UNCHANGED <<colocated, acceptorVars, closed, socket, timerVars, count,
                 heard, crashed>>

\* close() on the worker, past its test of closed_.
CloseOnWorker ==
  /\ doing \in {"expire", "drop"}
  /\ Close(apc \in {"connect", "read_target"})
  /\ doing' = "idle"
  /\ UNCHANGED <<colocated, acceptorVars, cursor, expired, heard>>

-----------------------------------------------------------------------------
(* The environment: the clock and the peers.                               *)

\* heartbeat_interval has passed since the pending wait was started.
HeartbeatExpires ==
  /\ timer
  /\ timer' = FALSE
  /\ expired' = expired + 1
  /\ UNCHANGED <<colocated, acceptorVars, workerVars, closed, socket, reads,
                 cancelled, count, heard, faultVars>>

\* The peer of s sends data, or closes or resets the connection; a read that
\* outlives the session is aborted by the destructor.  MaxWaits bounds how far
\* the client runs ahead of the queued heartbeat handlers.
ReadCompletes(s, r) ==
  /\ reads[s] = "pending"
  /\ r = "aborted" <=> ~Held
  /\ s = Client /\ r = "ok" => expired + cancelled < MaxWaits
  /\ reads' = [reads EXCEPT ![s] = r]
  /\ UNCHANGED <<colocated, acceptorVars, workerVars, closed, socket,
                 timerVars, count, heard, faultVars>>

WorkerStep ==
  \/ HeartbeatHandler \/ CancelledHandler \/ ClientDataHandler
  \/ \E t \in Targets : TargetDataHandler(t)
  \/ \E s \in Sockets : ReadErrorHandler(s) \/ IgnoredHandler(s) \/ DanglingHandler(s)
  \/ ForwardToTarget \/ ForwardDone \/ ReplyToClient \/ CloseOnWorker

Environment ==
  \/ AcceptSucceeds \/ AcceptFails
  \/ HeartbeatExpires
  \/ \E s \in Sockets, r \in {"ok", "error", "aborted"} : ReadCompletes(s, r)

Next == ~crashed /\ (AcceptorStep \/ WorkerStep \/ Environment)

Spec == Init /\ [][Next]_vars

-----------------------------------------------------------------------------
(* Fairness.  Threads run; an io_context serves what is queued in turn, so *)
(* a completion that is ready again and again is dispatched (SF); a        *)
(* pending wait expires unless some handler cancels it; connect() times    *)
(* out; a peer drains what is written to it, so a blocking write returns.  *)

\* The wait that is pending now expires, or a handler cancels or restarts it.
WaitEnds == Next /\ timer /\ (expired' = expired + 1 \/ cancelled' = cancelled + 1)

Fairness ==
  /\ WF_vars(AcceptorStep)
  /\ WF_vars(WorkerStep)
  /\ SF_vars(HeartbeatHandler)
  /\ SF_vars(CancelledHandler)
  /\ WF_vars(WaitEnds)

FairSpec == Spec /\ Fairness

-----------------------------------------------------------------------------
(* Safety.                                                                 *)

\* The session stays in memory as long as it is open: the bare `this' of the
\* read handlers (tcp_session.cpp:75, 127) is good until close(), because an
\* open session always has a heartbeat wait that owns it.
OpenSessionIsHeld == Started /\ ~closed => Held

\* At most one read is outstanding per socket, and none while a handler still
\* sends from that socket's buffer_: the buffer has one user at a time.
BufferHasOneUser ==
  /\ "overlapping_reads" \notin races
  /\ doing = "forward" => reads[Client] = "none"
  /\ doing = "reply" => reads[cursor] = "none"

\* Data is only relayed by an open session whose targets are all connected:
\* send_to_target() never walks a vector that start() still fills or that
\* close() has emptied.
RelayOnlyWhileOpen ==
  doing \in {"forward", "reply"} => ~closed /\ \A s \in Sockets : socket[s] = "open"

\* count_ has one for every open session and none for the others, unless two
\* threads were in close() at once.
CountExact ==
  "double_close" \in races \/ count = IF Started /\ ~closed THEN 1 ELSE 0

\* A session on the acceptor's own context never races with its start(); the
\* data races need two threads.
RacesNeedTwoThreads == colocated => races \subseteq {"dangling_handler"}

\* close() leaves nothing behind: no pending wait, no open socket, no read
\* that could still deliver data.  Only a close() that ran under start()'s
\* loops can miss a socket connected after it.
ClosedReleasesAll ==
  closed /\ "targets_cleared_during_start" \notin races =>
    /\ ~timer
    /\ \A s \in Sockets : socket[s] # "open" /\ reads[s] # "pending"

\* "[{}] seconds did not receive any information, close the tcp connection"
\* (tcp_session.cpp:258): when the heartbeat closes a session, no data came from
\* either side since the heartbeat was armed.
HeartbeatMeansSilence == doing = "expire" => ~heard

\* The same message: the client did not send anything either after the wait
\* expired, which would have armed a new wait.
HeartbeatIsLatest == doing = "expire" => ~timer

-----------------------------------------------------------------------------
(* Refinement.                                                             *)

\* The phase of its life a session is in.
Phase == IF ~Started THEN "waiting" ELSE IF closed THEN "closed" ELSE "open"

Life == INSTANCE SessionLife WITH
  phase <- Phase, alive <- Held, relaying <- doing \in {"forward", "reply"}

\* The session lives as SessionLife promises, whatever the two threads do: it is
\* never freed while it is open, closed while a handler relays, or revived.
LifeSpec == Life!Spec

-----------------------------------------------------------------------------
(* Liveness.                                                               *)

\* A session whose client falls silent is closed, however busy its targets are.
SilentClientIsDropped ==
  Started /\ ~closed ~> closed \/ reads[Client] = "ok"

\* A closed session is freed: its last heartbeat wait lets it go.
ClosedSessionIsFreed == closed ~> ~Held \/ crashed
=============================================================================
