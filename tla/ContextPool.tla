---------------------------- MODULE ContextPool ----------------------------
(***************************************************************************)
(* The pool of io_contexts (src/common/io_context_pool.cpp) under the load *)
(* of tcp_session_manager: main constructs the acceptor and runs the pool, *)
(* every io_context has a thread of its own, the accept handler asks the   *)
(* pool for the context of each new session, and shutdown() may be called  *)
(* from elsewhere at any time.                                             *)
(*                                                                         *)
(* get_io_context() is one step here: its callers follow each other (main  *)
(* before there are threads, then one accept handler at a time).           *)
(***************************************************************************)
EXTENDS Integers

CONSTANTS
  PoolSize,    \* io_context_pool_size of the local configuration
  MaxSessions  \* bound: sessions created

\* io_contexts_[0] of an empty pool is undefined behaviour before anything else.
ASSUME PoolSizeAssumption    == PoolSize \in Nat \ {0}
ASSUME MaxSessionsAssumption == MaxSessions \in Nat

Contexts == 0..(PoolSize - 1)

\* No accept is outstanding.
NoSession == -1

VARIABLES
  main,       \* where main() stands in the manager's constructor and in run()
  at,         \* loop index of main in io_context_pool::run()
  next,       \* next_valid_context_
  uses,       \* history: how often the pool has handed out each context
  home,       \* the context acceptor_ was constructed on
  candidate,  \* the context of the session the outstanding accept is for
  handling,   \* the accept handler is running
  taken,      \* history: sessions created
  late,       \* history: sessions created after a context had been stopped
  live,       \* sessions with operations outstanding, by context
  work,       \* contexts with an executor in io_works_
  thread,     \* the thread of each context
  stopped,    \* contexts that were told to stop
  halt,       \* loop index of shutdown(); 0 before it is called
  crashed     \* an exception left a handler: std::terminate

mainVars   == <<main, at>>
poolVars   == <<next, uses>>
acceptVars == <<home, candidate, handling, taken, late>>
vars == <<mainVars, poolVars, acceptVars, live, work, thread, stopped, halt, crashed>>

TypeOK ==
  /\ main \in {"construct", "listen", "spawn", "join", "returned"}
  /\ at \in 0..PoolSize
  /\ next \in Contexts
  /\ uses \in [Contexts -> Nat]
  /\ home \in Contexts
  /\ candidate \in Contexts \cup {NoSession}
  /\ handling \in BOOLEAN
  /\ taken \in Nat
  /\ late \in Nat
  /\ live \in [Contexts -> Nat]
  /\ work \subseteq Contexts
  /\ thread \in [Contexts -> {"none", "running", "exited"}]
  /\ stopped \subseteq Contexts
  /\ halt \in 0..PoolSize
  /\ crashed \in BOOLEAN

\* Variant of Constructed: io_works_ is left empty.
Constructed_NoWork == work = {}

\* io_context_pool(init_size): every context has work to do from the start.
Constructed == work = Contexts

Init ==
  /\ main = "construct" /\ at = 0
  /\ next = 0 /\ uses = [c \in Contexts |-> 0]
  /\ home = 0 /\ candidate = NoSession /\ handling = FALSE /\ taken = 0 /\ late = 0
  /\ live = [c \in Contexts |-> 0]
  /\ Constructed
  /\ thread = [c \in Contexts |-> "none"]
  /\ stopped = {} /\ halt = 0
  /\ crashed = FALSE

-----------------------------------------------------------------------------
(* get_io_context() and its callers.                                       *)

\* Variant of Take: the index wraps one call too early.
Take_WrapsEarly ==
  /\ uses' = [uses EXCEPT ![next] = @ + 1]
  /\ next' = IF next + 2 >= PoolSize THEN 0 ELSE next + 1

\* get_io_context_handle(): hands out io_contexts_[next].
Take ==
  /\ uses' = [uses EXCEPT ![next] = @ + 1]
  /\ next' = IF next + 1 = PoolSize THEN 0 ELSE next + 1

\* start_acceptor(): a session on the next context, an accept for it.
StartAcceptor ==
  /\ Take
  /\ candidate' = next
  /\ taken' = taken + 1
  /\ late' = IF stopped = {} THEN late ELSE late + 1

\* The thread of context c runs its loop and may pick up a handler.
Serves(c) == thread[c] = "running" /\ c \notin stopped

-----------------------------------------------------------------------------
(* main(): the manager's constructor, then run().                          *)

\* The constructor takes a context for acceptor_.
ConstructAcceptor ==
  /\ main = "construct"
  /\ main' = "listen"
  /\ Take
  /\ home' = next
  /\ UNCHANGED <<at, candidate, handling, taken, late, live, work, thread,
                 stopped, halt, crashed>>

Listen ==
  /\ main = "listen"
  /\ main' = "spawn"
  /\ StartAcceptor
  /\ UNCHANGED <<at, home, handling, live, work, thread, stopped, halt, crashed>>

\* io_context_pool::run() creates the next thread.
SpawnThread ==
  /\ main = "spawn" /\ at < PoolSize
  /\ thread' = [thread EXCEPT ![at] = "running"]
  /\ at' = at + 1
  /\ UNCHANGED <<main, poolVars, acceptVars, live, work, stopped, halt, crashed>>

AllSpawned ==
  /\ main = "spawn" /\ at = PoolSize
  /\ main' = "join" /\ at' = 0
  /\ UNCHANGED <<poolVars, acceptVars, live, work, thread, stopped, halt, crashed>>

\* join() returns once the thread has exited.
JoinThread ==
  /\ main = "join" /\ at < PoolSize
  /\ thread[at] = "exited"
  /\ at' = at + 1
  /\ UNCHANGED <<main, poolVars, acceptVars, live, work, thread, stopped, halt, crashed>>

RunReturns ==
  /\ main = "join" /\ at = PoolSize
  /\ main' = "returned"
  /\ UNCHANGED <<at, poolVars, acceptVars, live, work, thread, stopped, halt, crashed>>

MainStep ==
  ConstructAcceptor \/ Listen \/ SpawnThread \/ AllSpawned \/ JoinThread \/ RunReturns

-----------------------------------------------------------------------------
(* The threads of the contexts.                                            *)

\* Variant of AcceptHandler: a failed accept returns without a new one.
AcceptHandler_StopsOnError ==
  /\ Serves(home) /\ ~handling
  /\ candidate # NoSession
  /\ taken < MaxSessions
  /\ candidate' = NoSession
  /\ \/ live' = [live EXCEPT ![candidate] = @ + 1] /\ handling' = TRUE
     \/ UNCHANGED live /\ handling' = FALSE
  /\ UNCHANGED <<mainVars, poolVars, home, taken, late, work, thread, stopped,
                 halt, crashed>>

\* An accept completes.  Its session is alive on its own context, or is given up
\* because the accept or a connect to a target failed.  MaxSessions bounds taken.
AcceptHandler ==
  /\ Serves(home) /\ ~handling
  /\ candidate # NoSession
  /\ taken < MaxSessions
  /\ candidate' = NoSession
  /\ handling' = TRUE
  /\ \/ live' = [live EXCEPT ![candidate] = @ + 1]
     \/ UNCHANGED live
  /\ UNCHANGED <<mainVars, poolVars, home, taken, late, work, thread, stopped,
                 halt, crashed>>

\* The accept handler ends with start_acceptor(), also on a context that was
\* stopped meanwhile.
Rearm ==
  /\ handling
  /\ handling' = FALSE
  /\ StartAcceptor
  /\ UNCHANGED <<mainVars, home, live, work, thread, stopped, halt, crashed>>

\* The last handler of a session on context c has run.
SessionEnds(c) ==
  /\ Serves(c) /\ ~(c = home /\ handling)
  /\ live[c] > 0
  /\ live' = [live EXCEPT ![c] = @ - 1]
  /\ UNCHANGED <<mainVars, poolVars, acceptVars, work, thread, stopped, halt, crashed>>

\* An exception leaves a handler, io_context::run() and the thread's function.
HandlerThrows(c) ==
  /\ thread[c] = "running"
  /\ (c = home /\ handling) \/ (c \notin stopped /\ live[c] > 0)
  /\ crashed' = TRUE
  /\ UNCHANGED <<mainVars, poolVars, acceptVars, live, work, thread, stopped, halt>>

\* No operation of context c is outstanding and nothing else counts as work.
OutOfWork(c) ==
  /\ c \notin work
  /\ live[c] = 0
  /\ c = home => candidate = NoSession

\* io_context::run() returns: stopped, or nothing left to wait for.
ThreadExits(c) ==
  /\ thread[c] = "running" /\ ~(c = home /\ handling)
  /\ c \in stopped \/ OutOfWork(c)
  /\ thread' = [thread EXCEPT ![c] = "exited"]
  /\ UNCHANGED <<mainVars, poolVars, acceptVars, live, work, stopped, halt, crashed>>

-----------------------------------------------------------------------------
(* shutdown(), one io_context::stop() at a time.                           *)

\* Variant of StopNext: the contexts are stopped last to first.
StopNext_Backwards ==
  /\ halt < PoolSize
  /\ stopped' = stopped \cup {PoolSize - 1 - halt}
  /\ halt' = halt + 1
  /\ UNCHANGED <<mainVars, poolVars, acceptVars, live, work, thread, crashed>>

\* Variant of StopNext: the last context is forgotten.
StopNext_NotLast ==
  /\ halt < PoolSize
  /\ stopped' = IF halt + 1 < PoolSize THEN stopped \cup {halt} ELSE stopped
  /\ halt' = halt + 1
  /\ UNCHANGED <<mainVars, poolVars, acceptVars, live, work, thread, crashed>>

StopNext ==
  /\ halt < PoolSize
  /\ stopped' = stopped \cup {halt}
  /\ halt' = halt + 1
  /\ UNCHANGED <<mainVars, poolVars, acceptVars, live, work, thread, crashed>>

Next ==
  /\ ~crashed
  /\ \/ MainStep
     \/ AcceptHandler \/ Rearm
     \/ \E c \in Contexts : SessionEnds(c) \/ HandlerThrows(c) \/ ThreadExits(c)
     \/ StopNext

Spec == Init /\ [][Next]_vars

\* Threads run and handlers return; nobody has to connect or to call shutdown().
Fairness ==
  /\ WF_vars(Next /\ MainStep)
  /\ WF_vars(Next /\ Rearm)
  /\ \A c \in Contexts : WF_vars(~crashed /\ ThreadExits(c))

FairSpec == Spec /\ Fairness

-----------------------------------------------------------------------------
(* Safety.                                                                 *)

\* "Use a round-robin scheme" (io_context_pool.cpp:55): no context was handed out
\* more than once more often than any other.
Balanced == \A c, d \in Contexts : uses[c] - uses[d] <= 1

\* "run() functions will not exit until they are explicitly stopped"
\* (io_context_pool.cpp:11): a thread that has no session left waits for more.
RunsUntilStopped == \A c \in Contexts : thread[c] = "exited" => c \in stopped

\* From the first start_acceptor() on the proxy always listens: an accept is
\* outstanding or its handler is about to start the next, whatever failed
\* (tcp_session_manager.cpp:41-47), and never both.
AcceptChainUnbroken ==
  main \notin {"construct", "listen"} => (candidate # NoSession) # handling

\* shutdown() stops the acceptor's context first, so at most the one session
\* being created then is left without a thread to serve it.
OneLateSession == late <= 1

\* io_context_pool::run() returns to main, which destroys the contexts, after
\* the last thread is done with them (io_context_pool.cpp:37-41).
RunReturnsLast == main = "returned" => \A c \in Contexts : thread[c] = "exited"

(* Liveness.                                                               *)

\* shutdown() ends run(), also when it is called before or while run() starts.
ShutdownEndsRun == halt = PoolSize ~> main = "returned" \/ crashed
=============================================================================
