------------------------- MODULE ContextPoolProofs -------------------------
(***************************************************************************)
(* Proofs about ContextPool, for every pool size and number of sessions.   *)
(***************************************************************************)
EXTENDS ContextPool, TLAPS

\* The contexts below next were handed out once more than the others.
RoundRobin ==
  \A c \in Contexts : uses[c] = uses[PoolSize - 1] + (IF c < next THEN 1 ELSE 0)

\* Until the first accept is outstanding no thread runs; the acceptor took
\* context 0.
StartupOrder ==
  /\ home = 0
  /\ main = "construct" => next = 0
  /\ main \in {"construct", "listen"} =>
       ~handling /\ candidate = NoSession /\ late = 0
       /\ \A c \in Contexts : thread[c] = "none"
  /\ main = "spawn" => \A c \in Contexts : c >= at => thread[c] = "none"

\* shutdown() goes through the contexts in order, so 0 is the first to stop.
StopInOrder == stopped = {c \in Contexts : c < halt}

\* After the late session the accept handler never runs again.
LateIsLast == late > 0 => late = 1 /\ stopped # {} /\ ~handling

JoinInOrder ==
  /\ main = "join" => \A c \in Contexts : c < at => thread[c] = "exited"
  /\ main = "returned" => \A c \in Contexts : thread[c] = "exited"

IInv ==
  /\ TypeOK
  /\ RoundRobin
  /\ work = Contexts
  /\ StartupOrder
  /\ StopInOrder
  /\ LateIsLast
  /\ JoinInOrder
  /\ RunsUntilStopped
  /\ AcceptChainUnbroken

-----------------------------------------------------------------------------
(* Type correctness.                                                       *)

\* The variables have their types before anything has run.
LEMMA InitTypeOK == Init => TypeOK
<1> SUFFICES ASSUME Init PROVE TypeOK
  OBVIOUS
<1>1. at \in 0..PoolSize /\ halt \in 0..PoolSize /\ next \in Contexts /\ home \in Contexts
  BY PoolSizeAssumption DEF Init, Contexts
<1>2. taken \in Nat /\ late \in Nat
  BY DEF Init
<1>3. uses \in [Contexts -> Nat] /\ live \in [Contexts -> Nat]
  BY DEF Init
<1> QED
  BY <1>1, <1>2, <1>3 DEF Init, TypeOK, Constructed

\* get_io_context() keeps its index inside io_contexts_ and counts a use.
LEMMA TakeTypeOK ==
  ASSUME next \in Contexts, uses \in [Contexts -> Nat], Take
  PROVE  next' \in Contexts /\ uses' \in [Contexts -> Nat]
  BY PoolSizeAssumption DEF Take, Contexts

\* A new session counts once and waits on a context of the pool.
LEMMA StartAcceptorTypeOK ==
  ASSUME TypeOK, StartAcceptor
  PROVE  /\ next' \in Contexts /\ uses' \in [Contexts -> Nat]
         /\ candidate' \in Contexts
         /\ taken' \in Nat
         /\ late' \in Nat
<1>1. next' \in Contexts /\ uses' \in [Contexts -> Nat]
  BY TakeTypeOK DEF TypeOK, StartAcceptor
<1>2. candidate' \in Contexts
  BY DEF TypeOK, StartAcceptor
<1>3. taken' \in Nat
  BY DEF TypeOK, StartAcceptor
<1>4. late' \in Nat
  BY DEF TypeOK, StartAcceptor
<1> QED
  BY <1>1, <1>2, <1>3, <1>4

\* Every step keeps the types.
LEMMA StepTypeOK == TypeOK /\ [Next]_vars => TypeOK'
<1> SUFFICES ASSUME TypeOK, [Next]_vars PROVE TypeOK'
  OBVIOUS
<1> USE PoolSizeAssumption DEF TypeOK, mainVars, poolVars, acceptVars
<1>1. CASE ConstructAcceptor
  BY <1>1, TakeTypeOK DEF ConstructAcceptor
<1>2. CASE Listen
  BY <1>2, StartAcceptorTypeOK DEF Listen
<1>3. CASE SpawnThread
  BY <1>3, SMTT(20) DEF SpawnThread, Contexts
<1>4. CASE AllSpawned
  BY <1>4 DEF AllSpawned
<1>5. CASE JoinThread
  BY <1>5 DEF JoinThread
<1>6. CASE RunReturns
  BY <1>6 DEF RunReturns
<1>7. CASE AcceptHandler
  <2>1. live' \in [Contexts -> Nat]
    BY <1>7 DEF AcceptHandler, NoSession
  <2> QED
    BY <1>7, <2>1 DEF AcceptHandler
<1>8. CASE Rearm
  BY <1>8, StartAcceptorTypeOK DEF Rearm
<1>9. ASSUME NEW c \in Contexts, SessionEnds(c) PROVE TypeOK'
  BY <1>9 DEF SessionEnds
<1>10. ASSUME NEW c \in Contexts, HandlerThrows(c) PROVE TypeOK'
  BY <1>10 DEF HandlerThrows
<1>11. ASSUME NEW c \in Contexts, ThreadExits(c) PROVE TypeOK'
  BY <1>11 DEF ThreadExits
<1>12. CASE StopNext
  BY <1>12 DEF StopNext, Contexts
<1>13. CASE UNCHANGED vars
  BY <1>13 DEF vars
<1> QED
  BY <1>1, <1>2, <1>3, <1>4, <1>5, <1>6, <1>7, <1>8, <1>9, <1>10, <1>11, <1>12, <1>13
     DEF Next, MainStep

\* Every variable keeps its type: the index next_valid_context_ never leaves the
\* pool (io_context_pool.cpp:56-61).
THEOREM TypeCorrect == Spec => []TypeOK
<1>1. Init => TypeOK
  BY InitTypeOK
<1>2. TypeOK /\ [Next]_vars => TypeOK'
  BY StepTypeOK
<1> QED
  BY <1>1, <1>2, PTL DEF Spec

-----------------------------------------------------------------------------
(* The inductive invariant.                                                *)

\* One call of get_io_context() moves the round robin one context on.
LEMMA TakeRoundRobin ==
  ASSUME next \in Contexts, uses \in [Contexts -> Nat], RoundRobin, Take
  PROVE  RoundRobin'
  BY PoolSizeAssumption DEF RoundRobin, Take, Contexts

\* The inductive invariant holds before anything has run.
LEMMA InitIInv == Init => IInv
<1> SUFFICES ASSUME Init PROVE IInv
  OBVIOUS
<1>1. TypeOK
  BY InitTypeOK
<1>2. RoundRobin
  BY PoolSizeAssumption DEF Init, RoundRobin, Contexts
<1>3. StopInOrder
  BY DEF Init, StopInOrder, Contexts
<1> QED
  BY <1>1, <1>2, <1>3
     DEF Init, Constructed, IInv, StartupOrder, LateIsLast, JoinInOrder,
         RunsUntilStopped, AcceptChainUnbroken

\* A session created after a stop is the first such and ends the accept chain.
LEMMA StartAcceptorLate ==
  ASSUME late = 0, StartAcceptor
  PROVE  late' = IF stopped = {} THEN 0 ELSE 1
  BY DEF StartAcceptor

\* Every step keeps the inductive invariant.
LEMMA StepIInv == IInv /\ [Next]_vars => IInv'
<1> SUFFICES ASSUME IInv, [Next]_vars PROVE IInv'
  OBVIOUS
<1>0. TypeOK /\ TypeOK'
  BY StepTypeOK DEF IInv
<1> USE <1>0, PoolSizeAssumption
    DEF IInv, TypeOK, Contexts, mainVars, poolVars, acceptVars, NoSession,
        StartupOrder, StopInOrder, LateIsLast, JoinInOrder, RunsUntilStopped,
        AcceptChainUnbroken
<1>1. CASE ConstructAcceptor
  BY <1>1, TakeRoundRobin DEF ConstructAcceptor
<1>2. CASE Listen
  <2>1. RoundRobin'
    BY <1>2, TakeRoundRobin DEF Listen, StartAcceptor
  <2>2. LateIsLast'
    BY <1>2, StartAcceptorLate DEF Listen
  <2>3. AcceptChainUnbroken'
    BY <1>2, SMTT(20) DEF Listen, StartAcceptor
  <2> QED
    BY <1>2, <2>1, <2>2, <2>3 DEF Listen
<1>3. CASE SpawnThread
  BY <1>3 DEF SpawnThread, RoundRobin
<1>4. CASE AllSpawned
  BY <1>4 DEF AllSpawned, RoundRobin
<1>5. CASE JoinThread
  BY <1>5 DEF JoinThread, RoundRobin
<1>6. CASE RunReturns
  BY <1>6 DEF RunReturns, RoundRobin
<1>7. CASE AcceptHandler
  <2>1. stopped = {}
    <3>1. 0 \in Contexts /\ 0 \notin stopped
      BY <1>7 DEF AcceptHandler, Serves
    <3>2. ~(0 < halt)
      BY <3>1, Zenon
    <3>3. \A c \in Contexts : ~(c < halt)
      BY <3>2
    <3> QED
      BY <3>3, Zenon
  <2>2. LateIsLast'
    BY <1>7, <2>1 DEF AcceptHandler
  <2>3. AcceptChainUnbroken'
    BY <1>7 DEF AcceptHandler
  <2> QED
    BY <1>7, <2>2, <2>3 DEF AcceptHandler, Serves, RoundRobin
<1>8. CASE Rearm
  <2>1. RoundRobin'
    BY <1>8, TakeRoundRobin DEF Rearm, StartAcceptor
  <2>2. late = 0
    BY <1>8 DEF Rearm
  <2>3. LateIsLast'
    BY <1>8, <2>2, StartAcceptorLate DEF Rearm
  <2>4. AcceptChainUnbroken'
    BY <1>8, SMTT(20) DEF Rearm, StartAcceptor
  <2> QED
    BY <1>8, <2>1, <2>3, <2>4 DEF Rearm
<1>9. ASSUME NEW c \in Contexts, SessionEnds(c) PROVE IInv'
  BY <1>9 DEF SessionEnds, RoundRobin
<1>10. ASSUME NEW c \in Contexts, HandlerThrows(c) PROVE IInv'
  BY <1>10 DEF HandlerThrows, RoundRobin
<1>11. ASSUME NEW c \in Contexts, ThreadExits(c) PROVE IInv'
  BY <1>11 DEF ThreadExits, OutOfWork, RoundRobin
<1>12. CASE StopNext
  <2>1. UNCHANGED <<mainVars, poolVars, acceptVars, live, work, thread>>
    BY <1>12 DEF StopNext
  <2>2. stopped' = stopped \cup {halt} /\ halt' = halt + 1 /\ halt \in Nat
    BY <1>12 DEF StopNext
  <2>3. StopInOrder'
    BY <1>12, <2>2 DEF StopNext
  <2>4. RoundRobin'
    BY <2>1 DEF RoundRobin
  <2>5. RunsUntilStopped'
    BY <2>1, <2>2
  <2>6. LateIsLast'
    BY <2>1, <2>2
  <2>7. StartupOrder' /\ JoinInOrder' /\ AcceptChainUnbroken' /\ work' = Contexts
    BY <2>1
  <2> QED
    BY <2>3, <2>4, <2>5, <2>6, <2>7
<1>13. CASE UNCHANGED vars
  BY <1>13 DEF vars, RoundRobin
<1> QED
  BY <1>1, <1>2, <1>3, <1>4, <1>5, <1>6, <1>7, <1>8, <1>9, <1>10, <1>11, <1>12, <1>13
     DEF Next, MainStep

\* The strengthening of every safety property below.
THEOREM IInvCorrect == Spec => []IInv
<1>1. Init => IInv
  BY InitIInv
<1>2. IInv /\ [Next]_vars => IInv'
  BY StepIInv
<1> QED
  BY <1>1, <1>2, PTL DEF Spec

-----------------------------------------------------------------------------
(* The safety properties.                                                  *)

\* Round robin: no context gets two sessions more than another
\* (io_context_pool.cpp:53-63).
THEOREM BalancedCorrect == Spec => []Balanced
<1>1. ASSUME IInv, NEW c \in Contexts, NEW d \in Contexts
      PROVE  uses[c] - uses[d] <= 1
  <2>1. uses[PoolSize - 1] \in Nat
    BY <1>1, PoolSizeAssumption DEF IInv, TypeOK, Contexts
  <2>2. /\ uses[c] = uses[PoolSize - 1] + (IF c < next THEN 1 ELSE 0)
        /\ uses[d] = uses[PoolSize - 1] + (IF d < next THEN 1 ELSE 0)
    BY <1>1 DEF IInv, RoundRobin
  <2> QED
    BY <2>1, <2>2
<1>2. IInv => Balanced
  BY <1>1 DEF Balanced
<1> QED
  BY <1>2, IInvCorrect, PTL

\* The tracked executors keep every thread until its context is stopped
\* (io_context_pool.cpp:10-17).
THEOREM RunsUntilStoppedCorrect == Spec => []RunsUntilStopped
<1>1. IInv => RunsUntilStopped
  BY DEF IInv
<1> QED
  BY <1>1, IInvCorrect, PTL

\* The chain of accepts is never broken and never doubled
\* (tcp_session_manager.cpp:29-50).
THEOREM AcceptChainUnbrokenCorrect == Spec => []AcceptChainUnbroken
<1>1. IInv => AcceptChainUnbroken
  BY DEF IInv
<1> QED
  BY <1>1, IInvCorrect, PTL

\* The acceptor sits on the first context that shutdown() stops, so at most one
\* session is created once shutdown() has begun (io_context_pool.cpp:44-51).
THEOREM OneLateSessionCorrect == Spec => []OneLateSession
<1>1. IInv => OneLateSession
  BY DEF IInv, LateIsLast, OneLateSession, TypeOK
<1> QED
  BY <1>1, IInvCorrect, PTL

\* run() returns after every thread has exited (io_context_pool.cpp:37-41).
THEOREM RunReturnsLastCorrect == Spec => []RunReturnsLast
<1>1. IInv => RunReturnsLast
  BY DEF IInv, JoinInOrder, RunReturnsLast
<1> QED
  BY <1>1, IInvCorrect, PTL
=============================================================================
