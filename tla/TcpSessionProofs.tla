-------------------------- MODULE TcpSessionProofs --------------------------
(***************************************************************************)
(* Proofs about TcpSession, for every number of targets.  The inductive    *)
(* invariant IInv relates where the accept handler stands (apc) to what    *)
(* the worker may be doing, and says why the session is still owned.       *)
(***************************************************************************)
EXTENDS TcpSession, TLAPS

\* Where start() stands: nothing has happened before it, and the client is
\* connected as soon as it runs.
BeforeStart ==
  /\ ~Started =>
       /\ ~closed /\ count = 0 /\ ~timer /\ expired = 0 /\ cancelled = 0
       /\ doing = "idle" /\ races = {}
       /\ \A s \in Sockets : reads[s] = "none"
       /\ \A t \in Targets : socket[t] = "none"
  /\ apc = "accepting" => socket[Client] = "none"
  /\ apc = "start" => socket[Client] = "open"
  /\ apc \in {"connect", "close", "read_target"} => socket[Client] # "none"

\* An open session has a heartbeat wait that has not been cancelled.
HeartbeatOutstanding ==
  Started /\ ~closed => timer \/ expired > 0 \/ doing = "expire"

\* Reads are started in order: none before start() is through with connecting,
\* none on a target the loop of async_read_target() has not reached.
ReadsInOrder ==
  /\ apc \in {"start", "connect", "close"} =>
       /\ \A s \in Sockets : reads[s] = "none"
       /\ doing \in {"idle", "expire"}
  /\ apc = "read_target" =>
       /\ \A t \in Targets : t >= idx => reads[t] = "none"
       /\ doing = "reply" => cursor < idx

\* An open session's sockets are open, up to the connect that is under way.
OpenInOrder ==
  /\ apc = "connect" /\ ~closed =>
       /\ socket[Client] = "open"
       /\ \A t \in Targets : t < idx => socket[t] = "open"
  /\ apc \in {"read_target", "rearm", "done"} /\ Started /\ ~closed =>
       \A s \in Sockets : socket[s] = "open"

\* One thread: the worker sleeps while start() runs, and close() is not entered
\* by a handler that found closed_ set.
OneThread ==
  colocated =>
    /\ apc \notin {"accepting", "done"} => doing = "idle"
    /\ doing \in {"expire", "drop"} \/ apc = "close" => ~closed

\* close() under start()'s loops is on record.
RaceRecorded ==
  closed /\ apc \in {"connect", "read_target"} =>
    "targets_cleared_during_start" \in races

\* What a handler that relays works on.
ReplyFromTarget == doing = "reply" => cursor \in Targets

IInv ==
  /\ TypeOK
  /\ BeforeStart
  /\ HeartbeatOutstanding
  /\ ReadsInOrder
  /\ OpenInOrder
  /\ OneThread
  /\ RaceRecorded
  /\ ReplyFromTarget
  /\ BufferHasOneUser
  /\ RelayOnlyWhileOpen
  /\ CountExact
  /\ RacesNeedTwoThreads
  /\ ClosedReleasesAll

-----------------------------------------------------------------------------
(* Type correctness.                                                       *)

\* The variables have their types before the accept completes.
LEMMA InitTypeOK == Init => TypeOK
<1> SUFFICES ASSUME Init PROVE TypeOK
  OBVIOUS
<1>1. idx \in 1..(NumTargets + 1) /\ cursor \in 0..(NumTargets + 1)
  BY NumTargetsAssumption DEF Init
<1>2. expired \in Nat /\ cancelled \in Nat /\ count \in Int
  BY DEF Init
<1> QED
  BY <1>1, <1>2 DEF Init, TypeOK

\* Every step of either thread keeps the types.
LEMMA StepTypeOK == TypeOK /\ [Next]_vars => TypeOK'
<1> SUFFICES ASSUME TypeOK, [Next]_vars PROVE TypeOK'
  OBVIOUS
<1> USE NumTargetsAssumption DEF TypeOK, Sockets, Targets, Client,
        acceptorVars, workerVars, timerVars, faultVars
<1>1. CASE AcceptSucceeds
  BY <1>1 DEF AcceptSucceeds
<1>2. CASE AcceptFails
  BY <1>2 DEF AcceptFails
<1>3. CASE BeginStart
  <2>1. idx' \in 1..(NumTargets + 1)
    BY <1>3 DEF BeginStart, KeepAlive
  <2>2. cancelled' \in Nat
    BY <1>3 DEF BeginStart, KeepAlive
  <2>3. count' \in Int
    BY <1>3 DEF BeginStart, KeepAlive
  <2> QED
    BY <1>3, <2>1, <2>2, <2>3 DEF BeginStart, KeepAlive
<1>4. CASE ConnectSucceeds
  <2>1. idx' \in 1..(NumTargets + 1)
    BY <1>4 DEF ConnectSucceeds
  <2> QED
    BY <1>4, <2>1 DEF ConnectSucceeds
<1>5. CASE ConnectFails
  BY <1>5 DEF ConnectFails
<1>6. CASE CloseOnAcceptor
  <2>1. cancelled' \in Nat
    BY <1>6 DEF CloseOnAcceptor, Close, RaceKinds
  <2>2. count' \in Int
    BY <1>6 DEF CloseOnAcceptor, Close, RaceKinds
  <2>3. socket' \in [Sockets -> {"none", "open", "closed"}]
    BY <1>6 DEF CloseOnAcceptor, Close, RaceKinds
  <2>4. races' \subseteq RaceKinds
    BY <1>6 DEF CloseOnAcceptor, Close, RaceKinds
  <2> QED
    BY <1>6, <2>1, <2>2, <2>3, <2>4 DEF CloseOnAcceptor, Close, RaceKinds
<1>7. CASE ReadClientFirst
  BY <1>7 DEF ReadClientFirst, AsyncRead, RaceKinds
<1>8. CASE ReadTargetFirst
  <2>1. idx' \in 1..(NumTargets + 1)
    BY <1>8 DEF ReadTargetFirst, AsyncRead, RaceKinds
  <2>2. reads' \in [Sockets -> {"none", "pending", "ok", "error", "aborted"}]
    BY <1>8 DEF ReadTargetFirst, AsyncRead, RaceKinds
  <2>3. races' \subseteq RaceKinds
    BY <1>8 DEF ReadTargetFirst, AsyncRead, RaceKinds
  <2> QED
    BY <1>8, <2>1, <2>2, <2>3 DEF ReadTargetFirst, AsyncRead, RaceKinds
<1>9. CASE StartReturns
  BY <1>9 DEF StartReturns
<1>10. CASE FinishAccept
  BY <1>10 DEF FinishAccept
<1>11. CASE HeartbeatHandler
  BY <1>11 DEF HeartbeatHandler, WorkerFree
<1>12. CASE CancelledHandler
  BY <1>12 DEF CancelledHandler, WorkerFree
<1>13. CASE ClientDataHandler
  <2>1. cancelled' \in Nat
    BY <1>13 DEF ClientDataHandler, Dispatch, WorkerFree, KeepAlive
  <2>2. cursor' \in 0..(NumTargets + 1)
    BY <1>13 DEF ClientDataHandler, Dispatch, WorkerFree, KeepAlive
  <2> QED
    BY <1>13, <2>1, <2>2 DEF ClientDataHandler, Dispatch, WorkerFree, KeepAlive
<1>14. ASSUME NEW t \in Targets, TargetDataHandler(t) PROVE TypeOK'
  BY <1>14 DEF TargetDataHandler, Dispatch, WorkerFree
<1>15. ASSUME NEW s \in Sockets, ReadErrorHandler(s) PROVE TypeOK'
  BY <1>15 DEF ReadErrorHandler, Dispatch, WorkerFree
<1>16. ASSUME NEW s \in Sockets, IgnoredHandler(s) PROVE TypeOK'
  BY <1>16 DEF IgnoredHandler, Dispatch, WorkerFree
<1>17. ASSUME NEW s \in Sockets, DanglingHandler(s) PROVE TypeOK'
  BY <1>17 DEF DanglingHandler, Dispatch, WorkerFree, RaceKinds
<1>18. CASE ForwardToTarget
  BY <1>18 DEF ForwardToTarget
<1>19. CASE ForwardDone
  BY <1>19 DEF ForwardDone, AsyncRead, RaceKinds
<1>20. CASE ReplyToClient
  <2>1. reads' \in [Sockets -> {"none", "pending", "ok", "error", "aborted"}]
    BY <1>20 DEF ReplyToClient, AsyncRead
  <2>2. races' \subseteq RaceKinds
    BY <1>20 DEF ReplyToClient, AsyncRead, RaceKinds
  <2> QED
    BY <1>20, <2>1, <2>2 DEF ReplyToClient
<1>21. CASE CloseOnWorker
  <2>1. cancelled' \in Nat
    BY <1>21 DEF CloseOnWorker, Close, RaceKinds
  <2>2. count' \in Int
    BY <1>21 DEF CloseOnWorker, Close, RaceKinds
  <2>3. socket' \in [Sockets -> {"none", "open", "closed"}]
    BY <1>21 DEF CloseOnWorker, Close, RaceKinds
  <2>4. races' \subseteq RaceKinds
    BY <1>21 DEF CloseOnWorker, Close, RaceKinds
  <2> QED
    BY <1>21, <2>1, <2>2, <2>3, <2>4 DEF CloseOnWorker, Close, RaceKinds
<1>22. CASE HeartbeatExpires
  <2>1. expired' \in Nat
    BY <1>22 DEF HeartbeatExpires
  <2> QED
    BY <1>22, <2>1 DEF HeartbeatExpires
<1>23. ASSUME NEW s \in Sockets, NEW r \in {"ok", "error", "aborted"}, ReadCompletes(s, r)
       PROVE  TypeOK'
  BY <1>23 DEF ReadCompletes
<1>24. CASE UNCHANGED vars
  BY <1>24 DEF vars
<1> QED
  BY <1>1, <1>2, <1>3, <1>4, <1>5, <1>6, <1>7, <1>8, <1>9, <1>10, <1>11, <1>12,
     <1>13, <1>14, <1>15, <1>16, <1>17, <1>18, <1>19, <1>20, <1>21, <1>22, <1>23, <1>24
  DEF Next, AcceptorStep, WorkerStep, Environment

\* Every variable keeps its type: TypeOK is inductive on its own.
THEOREM TypeCorrect == Spec => []TypeOK
<1>1. Init => TypeOK
  BY InitTypeOK
<1>2. TypeOK /\ [Next]_vars => TypeOK'
  BY StepTypeOK
<1> QED
  BY <1>1, <1>2, PTL DEF Spec

-----------------------------------------------------------------------------
(* The inductive invariant.                                                *)

\* The inductive invariant holds before the accept completes.
LEMMA InitIInv == Init => IInv
<1> SUFFICES ASSUME Init PROVE IInv
  OBVIOUS
<1>1. TypeOK
  BY InitTypeOK
<1>2. BeforeStart /\ HeartbeatOutstanding /\ ReadsInOrder /\ OpenInOrder
  BY DEF Init, BeforeStart, HeartbeatOutstanding, ReadsInOrder, OpenInOrder,
         Started, Sockets, Targets, Client
<1>3. OneThread /\ RaceRecorded /\ ReplyFromTarget
  BY DEF Init, OneThread, RaceRecorded, ReplyFromTarget
<1>4. BufferHasOneUser /\ RelayOnlyWhileOpen /\ CountExact
  BY DEF Init, BufferHasOneUser, RelayOnlyWhileOpen, CountExact, Started, Sockets, Client
<1>5. RacesNeedTwoThreads /\ ClosedReleasesAll
  BY DEF Init, RacesNeedTwoThreads, ClosedReleasesAll
<1> QED
  BY <1>1, <1>2, <1>3, <1>4, <1>5 DEF IInv

\* Every step of either thread keeps the inductive invariant.
LEMMA StepIInv == IInv /\ [Next]_vars => IInv'
<1> SUFFICES ASSUME IInv, [Next]_vars PROVE IInv'
  OBVIOUS
<1>0. TypeOK /\ TypeOK'
  BY StepTypeOK DEF IInv
<1> USE <1>0, NumTargetsAssumption
    DEF IInv, Started, Sockets, Targets, Client,
        acceptorVars, workerVars, timerVars, faultVars,
        TypeOK, BeforeStart, HeartbeatOutstanding, ReadsInOrder, OpenInOrder,
        OneThread, RaceRecorded, ReplyFromTarget, BufferHasOneUser,
        RelayOnlyWhileOpen, CountExact, RacesNeedTwoThreads, ClosedReleasesAll
<1>1. CASE AcceptSucceeds
  BY <1>1 DEF AcceptSucceeds
<1>2. CASE AcceptFails
  BY <1>2 DEF AcceptFails
<1>3. CASE BeginStart
  <2>1. BeforeStart' /\ ReadsInOrder' /\ OneThread' /\ RaceRecorded' /\ ReplyFromTarget'
    BY <1>3 DEF BeginStart, KeepAlive
  <2>2. OpenInOrder'
    BY <1>3 DEF BeginStart
  <2>3. HeartbeatOutstanding' /\ RelayOnlyWhileOpen'
    BY <1>3 DEF BeginStart, KeepAlive
  <2>4. BufferHasOneUser' /\ CountExact' /\ RacesNeedTwoThreads' /\ ClosedReleasesAll'
    BY <1>3 DEF BeginStart, KeepAlive
  <2> QED
    BY <2>1, <2>2, <2>3, <2>4
<1>4. CASE ConnectSucceeds
  BY <1>4 DEF ConnectSucceeds
<1>5. CASE ConnectFails
  BY <1>5 DEF ConnectFails
<1>6. CASE CloseOnAcceptor
  <2>1. BeforeStart' /\ ReadsInOrder' /\ OneThread' /\ RaceRecorded' /\ ReplyFromTarget'
    BY <1>6 DEF CloseOnAcceptor, Close, RaceKinds
  <2>2. HeartbeatOutstanding' /\ OpenInOrder' /\ RelayOnlyWhileOpen'
    BY <1>6 DEF CloseOnAcceptor, Close, RaceKinds
  <2>3. BufferHasOneUser' /\ CountExact' /\ RacesNeedTwoThreads' /\ ClosedReleasesAll'
    BY <1>6 DEF CloseOnAcceptor, Close, RaceKinds
  <2> QED
    BY <2>1, <2>2, <2>3
<1>7. CASE ReadClientFirst
  BY <1>7 DEF ReadClientFirst, AsyncRead, RaceKinds
<1>8. CASE ReadTargetFirst
  <2>1. BeforeStart' /\ ReadsInOrder' /\ OneThread' /\ RaceRecorded' /\ ReplyFromTarget'
    BY <1>8 DEF ReadTargetFirst, AsyncRead, RaceKinds
  <2>2. HeartbeatOutstanding' /\ OpenInOrder' /\ RelayOnlyWhileOpen'
    BY <1>8 DEF ReadTargetFirst, AsyncRead, RaceKinds
  <2>3. BufferHasOneUser' /\ CountExact' /\ RacesNeedTwoThreads' /\ ClosedReleasesAll'
    BY <1>8 DEF ReadTargetFirst, AsyncRead, RaceKinds
  <2> QED
    BY <2>1, <2>2, <2>3
<1>9. CASE StartReturns
  BY <1>9 DEF StartReturns
<1>10. CASE FinishAccept
  BY <1>10 DEF FinishAccept
<1>11. CASE HeartbeatHandler
  BY <1>11 DEF HeartbeatHandler, WorkerFree
<1>12. CASE CancelledHandler
  BY <1>12 DEF CancelledHandler, WorkerFree
<1>13. CASE ClientDataHandler
  <2>1. BeforeStart' /\ ReadsInOrder' /\ OneThread' /\ RaceRecorded' /\ ReplyFromTarget'
    BY <1>13 DEF ClientDataHandler, Dispatch, WorkerFree, KeepAlive, Held
  <2>2. HeartbeatOutstanding' /\ OpenInOrder' /\ RelayOnlyWhileOpen'
    BY <1>13 DEF ClientDataHandler, Dispatch, WorkerFree, KeepAlive, Held
  <2>3. BufferHasOneUser' /\ CountExact' /\ RacesNeedTwoThreads' /\ ClosedReleasesAll'
    BY <1>13 DEF ClientDataHandler, Dispatch, WorkerFree, KeepAlive, Held
  <2> QED
    BY <2>1, <2>2, <2>3
<1>14. ASSUME NEW t \in Targets, TargetDataHandler(t) PROVE IInv'
  BY <1>14 DEF TargetDataHandler, Dispatch, WorkerFree, Held
<1>15. ASSUME NEW s \in Sockets, ReadErrorHandler(s) PROVE IInv'
  BY <1>15 DEF ReadErrorHandler, Dispatch, WorkerFree, Held
<1>16. ASSUME NEW s \in Sockets, IgnoredHandler(s) PROVE IInv'
  BY <1>16 DEF IgnoredHandler, Dispatch, WorkerFree, Held
<1>17. ASSUME NEW s \in Sockets, DanglingHandler(s) PROVE IInv'
  <2>1. BeforeStart' /\ ReadsInOrder' /\ OneThread' /\ RaceRecorded' /\ ReplyFromTarget'
    BY <1>17 DEF DanglingHandler, Dispatch, WorkerFree, Held, RaceKinds
  <2>2. HeartbeatOutstanding' /\ OpenInOrder' /\ RelayOnlyWhileOpen'
    BY <1>17 DEF DanglingHandler, Dispatch, WorkerFree, Held, RaceKinds
  <2>3. BufferHasOneUser' /\ CountExact' /\ RacesNeedTwoThreads' /\ ClosedReleasesAll'
    BY <1>17 DEF DanglingHandler, Dispatch, WorkerFree, Held, RaceKinds
  <2> QED
    BY <2>1, <2>2, <2>3
<1>18. CASE ForwardToTarget
  BY <1>18 DEF ForwardToTarget
<1>19. CASE ForwardDone
  BY <1>19 DEF ForwardDone, AsyncRead, RaceKinds
<1>20. CASE ReplyToClient
  BY <1>20 DEF ReplyToClient, AsyncRead, RaceKinds
<1>21. CASE CloseOnWorker
  <2>1. BeforeStart' /\ ReadsInOrder' /\ OneThread' /\ RaceRecorded' /\ ReplyFromTarget'
    BY <1>21 DEF CloseOnWorker, Close, RaceKinds
  <2>2. HeartbeatOutstanding' /\ OpenInOrder' /\ RelayOnlyWhileOpen'
    BY <1>21 DEF CloseOnWorker, Close, RaceKinds
  <2>3. BufferHasOneUser' /\ CountExact' /\ RacesNeedTwoThreads' /\ ClosedReleasesAll'
    BY <1>21 DEF CloseOnWorker, Close, RaceKinds
  <2> QED
    BY <2>1, <2>2, <2>3
<1>22. CASE HeartbeatExpires
  BY <1>22 DEF HeartbeatExpires
<1>23. ASSUME NEW s \in Sockets, NEW r \in {"ok", "error", "aborted"}, ReadCompletes(s, r)
       PROVE  IInv'
  BY <1>23 DEF ReadCompletes, Held
<1>24. CASE UNCHANGED vars
  BY <1>24 DEF vars
<1> QED
  BY <1>1, <1>2, <1>3, <1>4, <1>5, <1>6, <1>7, <1>8, <1>9, <1>10, <1>11, <1>12,
     <1>13, <1>14, <1>15, <1>16, <1>17, <1>18, <1>19, <1>20, <1>21, <1>22, <1>23, <1>24
  DEF Next, AcceptorStep, WorkerStep, Environment

\* The strengthening of every safety property below.
THEOREM IInvCorrect == Spec => []IInv
<1>1. Init => IInv
  BY InitIInv
<1>2. IInv /\ [Next]_vars => IInv'
  BY StepIInv
<1> QED
  BY <1>1, <1>2, PTL DEF Spec

-----------------------------------------------------------------------------
(* The safety properties, for every number of targets.                     *)

\* An open session is owned, so the bare `this' its read handlers captured
\* (tcp_session.cpp:75, 127) is good: close() is the only thing that lets the
\* chain of heartbeat waits end.
THEOREM OpenSessionIsHeldCorrect == Spec => []OpenSessionIsHeld
<1>1. IInv => OpenSessionIsHeld
  BY DEF IInv, HeartbeatOutstanding, OpenSessionIsHeld, Held
<1> QED
  BY <1>1, IInvCorrect, PTL

\* No buffer_ is read into while a handler sends from it, and async_read_some
\* is never called twice on a socket (tcp_session.cpp:97-98, 149-150).
THEOREM BufferHasOneUserCorrect == Spec => []BufferHasOneUser
<1>1. IInv => BufferHasOneUser
  BY DEF IInv
<1> QED
  BY <1>1, IInvCorrect, PTL

\* A handler that relays finds the session open and every target connected,
\* although start() runs on another thread (tcp_session.cpp:97, 149, 208).
THEOREM RelayOnlyWhileOpenCorrect == Spec => []RelayOnlyWhileOpen
<1>1. IInv => RelayOnlyWhileOpen
  BY DEF IInv
<1> QED
  BY <1>1, IInvCorrect, PTL

\* The number of connections that the statistics report is the number of open
\* sessions, short of two threads inside close() (tcp_session.cpp:24, 280-290).
THEOREM CountExactCorrect == Spec => []CountExact
<1>1. IInv => CountExact
  BY DEF IInv
<1> QED
  BY <1>1, IInvCorrect, PTL

\* A session that shares the acceptor's io_context has no data race in close()
\* or on target_sockets_ (tcp_session.cpp:280-301).
THEOREM RacesNeedTwoThreadsCorrect == Spec => []RacesNeedTwoThreads
<1>1. IInv => RacesNeedTwoThreads
  BY DEF IInv
<1> QED
  BY <1>1, IInvCorrect, PTL

\* close() leaves no wait pending, no socket open and no read outstanding,
\* short of a close() under start()'s loops (tcp_session.cpp:278-307).
THEOREM ClosedReleasesAllCorrect == Spec => []ClosedReleasesAll
<1>1. IInv => ClosedReleasesAll
  BY DEF IInv
<1> QED
  BY <1>1, IInvCorrect, PTL

-----------------------------------------------------------------------------
(* Refinement: the session implements SessionLife.                         *)

\* A session that has not started is waiting, and implements the first state.
LEMMA InitLife == Init => Life!Init
  BY DEF Init, Life!Init, Phase, Started, Held, Sockets, Client

\* Every step of either thread is a step of SessionLife or leaves its state alone.
LEMMA StepLife == IInv /\ [Next]_vars => [Life!Next]_Life!vars
<1> SUFFICES ASSUME IInv, [Next]_vars PROVE [Life!Next]_Life!vars
  OBVIOUS
<1> USE NumTargetsAssumption
    DEF Phase, Started, Held, Sockets, Targets, Client,
        acceptorVars, workerVars, timerVars, faultVars,
        IInv, TypeOK, BeforeStart, HeartbeatOutstanding, ReadsInOrder,
        OneThread, RelayOnlyWhileOpen,
        Life!Next, Life!vars, Life!Open, Life!BeginRelay, Life!EndRelay,
        Life!Close, Life!Free
<1>1. CASE AcceptSucceeds
  BY <1>1 DEF AcceptSucceeds
<1>2. CASE AcceptFails
  BY <1>2 DEF AcceptFails
<1>3. CASE BeginStart
  BY <1>3 DEF BeginStart, KeepAlive
<1>4. CASE ConnectSucceeds
  BY <1>4 DEF ConnectSucceeds
<1>5. CASE ConnectFails
  BY <1>5 DEF ConnectFails
<1>6. CASE CloseOnAcceptor
  BY <1>6 DEF CloseOnAcceptor, Close
<1>7. CASE ReadClientFirst
  BY <1>7 DEF ReadClientFirst, AsyncRead
<1>8. CASE ReadTargetFirst
  BY <1>8 DEF ReadTargetFirst, AsyncRead
<1>9. CASE StartReturns
  BY <1>9 DEF StartReturns
<1>10. CASE FinishAccept
  BY <1>10 DEF FinishAccept
<1>11. CASE HeartbeatHandler
  BY <1>11 DEF HeartbeatHandler, WorkerFree
<1>12. CASE CancelledHandler
  BY <1>12 DEF CancelledHandler, WorkerFree
<1>13. CASE ClientDataHandler
  BY <1>13 DEF ClientDataHandler, Dispatch, WorkerFree, KeepAlive
<1>14. ASSUME NEW t \in Targets, TargetDataHandler(t) PROVE [Life!Next]_Life!vars
  BY <1>14 DEF TargetDataHandler, Dispatch, WorkerFree
<1>15. ASSUME NEW s \in Sockets, ReadErrorHandler(s) PROVE [Life!Next]_Life!vars
  BY <1>15 DEF ReadErrorHandler, Dispatch, WorkerFree
<1>16. ASSUME NEW s \in Sockets, IgnoredHandler(s) PROVE [Life!Next]_Life!vars
  BY <1>16 DEF IgnoredHandler, Dispatch, WorkerFree
<1>17. ASSUME NEW s \in Sockets, DanglingHandler(s) PROVE [Life!Next]_Life!vars
  BY <1>17 DEF DanglingHandler, Dispatch, WorkerFree
<1>18. CASE ForwardToTarget
  BY <1>18 DEF ForwardToTarget
<1>19. CASE ForwardDone
  BY <1>19 DEF ForwardDone, AsyncRead
<1>20. CASE ReplyToClient
  BY <1>20 DEF ReplyToClient, AsyncRead
<1>21. CASE CloseOnWorker
  BY <1>21 DEF CloseOnWorker, Close
<1>22. CASE HeartbeatExpires
  BY <1>22 DEF HeartbeatExpires
<1>23. ASSUME NEW s \in Sockets, NEW r \in {"ok", "error", "aborted"}, ReadCompletes(s, r)
       PROVE  [Life!Next]_Life!vars
  BY <1>23 DEF ReadCompletes
<1>24. CASE UNCHANGED vars
  BY <1>24 DEF vars
<1> QED
  BY <1>1, <1>2, <1>3, <1>4, <1>5, <1>6, <1>7, <1>8, <1>9, <1>10, <1>11, <1>12,
     <1>13, <1>14, <1>15, <1>16, <1>17, <1>18, <1>19, <1>20, <1>21, <1>22, <1>23, <1>24
  DEF Next, AcceptorStep, WorkerStep, Environment

\* A session is opened once, closed once and never while a handler relays,
\* freed only when closed or never opened (tcp_session.cpp:20-32, 244-307).
THEOREM LifeCorrect == Spec => LifeSpec
<1>1. Init => Life!Init
  BY InitLife
<1>2. IInv /\ [Next]_vars => [Life!Next]_Life!vars
  BY StepLife
<1> QED
  BY <1>1, <1>2, IInvCorrect, PTL DEF Spec, LifeSpec, Life!Spec
=============================================================================
