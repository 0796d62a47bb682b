--------------------------- MODULE TcpProxyProofs ---------------------------
(***************************************************************************)
(* Theorems of TcpProxy, for every size of the pool and number of sessions.*)
(*                                                                         *)
(* The count needs to know which closes are the second of their session.   *)
(* JobsFit says where a handler of a session can run, PhasesFit in which   *)
(* phase of the session, and SecondClose what is true of a session that    *)
(* one thread has closed while the other still is inside of close().       *)
(***************************************************************************)
EXTENDS TcpProxy, FiniteSetTheorems, TLAPS

\* The accept handler runs for the session listening, the other handlers on the
\* context of their session.
JobsFit ==
  \A c \in Contexts, s \in Sessions :
    /\ Does(c, s, "connect") => c = Acceptor /\ s = listening /\ ~accepting
    /\ Does(c, s, "undo") => c = Acceptor /\ s = listening /\ ~accepting
    /\ Does(c, s, "relay") => c = Home(s)
    /\ Does(c, s, "close") => c = Home(s)

\* Between two accepts the accept handler is inside of start().
StartRuns == accepting \/ Starting(listening)

\* A session not accepted yet is untouched, one that is being started is held.
PhasesFit ==
  \A s \in Sessions :
    /\ s > listening \/ (s = listening /\ accepting) =>
         phase[s] = "waiting" /\ s \notin freed
    /\ s = listening /\ ~accepting => phase[s] # "waiting" /\ s \notin freed
    /\ s \in reading => s < listening
    /\ s \in freed => phase[s] # "open"
    /\ Does(Home(s), s, "relay") => phase[s] = "open" /\ s \in reading
    /\ Does(Home(s), s, "close") => phase[s] # "waiting"

\* Two threads are in close() only if start() failed to connect; when the first of
\* them has left, the other is recognised by the phase of the session.
SecondClose ==
  \A s \in Sessions :
    /\ Does(Home(s), s, "close") /\ phase[s] = "closed" =>
         Home(s) # Acceptor /\ s < listening /\ s \notin reading
    /\ Does(Acceptor, s, "undo") /\ phase[s] = "closed" => Home(s) # Acceptor
    /\ s \in raced =>
         /\ phase[s] = "closed" /\ ~Does(Home(s), s, "close")
         /\ Home(s) # Acceptor /\ s < listening /\ s \notin reading

IInv == TypeOK /\ JobsFit /\ StartRuns /\ PhasesFit /\ SecondClose /\ CountIsOpen

-----------------------------------------------------------------------------
(* Lemmas about contexts and what their threads do.                        *)

\* The acceptor's context is one of the pool, and so is that of a session.
LEMMA Placed == Acceptor \in Contexts /\ \A s \in Sessions : Home(s) \in Contexts
<1>1. PoolSize \in Nat /\ PoolSize > 0
  BY PoolSizeAssumption
<1>2. Acceptor \in Contexts
  BY <1>1 DEF Acceptor, Contexts
<1>3. ASSUME NEW s \in Sessions PROVE Home(s) \in Contexts
  <2>1. s \in Int
    BY DEF Sessions
  <2> QED
    BY <1>1, <2>1 DEF Home, Contexts
<1> QED
  BY <1>2, <1>3

Tasks == {"connect", "undo", "relay", "close"}

\* A thread that begins a handler does that and nothing else.
LEMMA BeginDoes ==
  ASSUME job \in [Contexts -> Jobs \cup {None}],
         NEW c \in Contexts, NEW s \in Sessions, NEW task \in Tasks, Begin(c, s, task)
  PROVE  /\ job' \in [Contexts -> Jobs \cup {None}]
         /\ \A d \in Contexts, r \in Sessions, k \in Tasks :
              Does(d, r, k)' <=> IF d = c THEN r = s /\ k = task ELSE Does(d, r, k)
<1>1. [session |-> s, task |-> task] \in Jobs
  BY DEF Jobs, Tasks
<1>2. job' = [job EXCEPT ![c] = [session |-> s, task |-> task]]
  BY DEF Begin
<1>3. job' \in [Contexts -> Jobs \cup {None}]
  BY <1>1, <1>2
<1>4. ASSUME NEW d \in Contexts, NEW r \in Sessions, NEW k \in Tasks
      PROVE  Does(d, r, k)' <=> IF d = c THEN r = s /\ k = task ELSE Does(d, r, k)
  <2>1. CASE d = c
    BY <1>2, <2>1 DEF Does
  <2>2. CASE d # c
    BY <1>2, <2>2 DEF Does
  <2> QED
    BY <2>1, <2>2
<1> QED
  BY <1>3, <1>4

\* A thread whose handler has returned does nothing.
LEMMA EndDoes ==
  ASSUME job \in [Contexts -> Jobs \cup {None}], NEW c \in Contexts, End(c)
  PROVE  /\ job' \in [Contexts -> Jobs \cup {None}]
         /\ \A d \in Contexts, r \in Sessions, k \in Tasks :
              Does(d, r, k)' <=> d # c /\ Does(d, r, k)
<1>1. job' = [job EXCEPT ![c] = None]
  BY DEF End
<1>2. job' \in [Contexts -> Jobs \cup {None}]
  BY <1>1
<1>3. ASSUME NEW d \in Contexts, NEW r \in Sessions, NEW k \in Tasks
      PROVE  Does(d, r, k)' <=> d # c /\ Does(d, r, k)
  <2>1. None # [session |-> r, task |-> k]
    BY DEF None, Sessions, Tasks
  <2>2. CASE d = c
    BY <1>1, <2>1, <2>2 DEF Does
  <2>3. CASE d # c
    BY <1>1, <2>3 DEF Does
  <2> QED
    BY <2>2, <2>3
<1> QED
  BY <1>2, <1>3

\* A thread does one thing at a time, and nothing when it is idle.
LEMMA DoesOne ==
  ASSUME NEW c \in Contexts, NEW s \in Sessions, NEW task \in Tasks, Does(c, s, task)
  PROVE  /\ ~Idle(c)
         /\ \A r \in Sessions, k \in Tasks : Does(c, r, k) => r = s /\ k = task
<1>1. job[c] = [session |-> s, task |-> task]
  BY DEF Does
<1>2. ~Idle(c)
  BY <1>1 DEF Idle, None, Sessions, Tasks
<1>3. ASSUME NEW r \in Sessions, NEW k \in Tasks, Does(c, r, k) PROVE r = s /\ k = task
  <2>1. [session |-> r, task |-> k] = [session |-> s, task |-> task]
    BY <1>1, <1>3 DEF Does
  <2> QED
    BY <2>1
<1> QED
  BY <1>2, <1>3

\* Who connects, or undoes it, is the session listening, and is one.
LEMMA ListeningIsSession ==
  ASSUME TypeOK, NEW task \in Tasks, Does(Acceptor, listening, task)
  PROVE  listening \in Sessions
<1>1. job[Acceptor] \in Jobs \cup {None} /\ listening \in 1..(MaxSessions + 1)
  BY Placed DEF TypeOK
<1>2. job[Acceptor] # None
  BY DEF Does, None, Tasks
<1>3. job[Acceptor].session \in Sessions
  BY <1>1, <1>2 DEF Jobs
<1> QED
  BY <1>3 DEF Does

\* What is open or counted twice is finite.
LEMMA FiniteSessions ==
  ASSUME TypeOK
  PROVE  IsFiniteSet(Open) /\ IsFiniteSet(raced) /\
         Cardinality(Open) \in Nat /\ Cardinality(raced) \in Nat
<1>1. IsFiniteSet(Sessions)
  BY MaxSessionsAssumption, FS_Interval DEF Sessions
<1>2. Open \subseteq Sessions /\ raced \subseteq Sessions
  BY DEF Open, TypeOK
<1>3. IsFiniteSet(Open) /\ IsFiniteSet(raced)
  BY <1>1, <1>2, FS_Subset
<1> QED
  BY <1>3, FS_CardinalityType

-----------------------------------------------------------------------------
(* The initial state and the steps.                                        *)

LEMMA InitTypeOK == Init => TypeOK
<1>1. MaxSessions \in Nat
  BY MaxSessionsAssumption
<1>2. 0 \in 0..MaxSessions /\ 1 \in 1..(MaxSessions + 1)
  BY <1>1
<1> QED
  BY <1>2 DEF Init, TypeOK

LEMMA InitIInv == Init => IInv
<1> SUFFICES ASSUME Init PROVE IInv
  OBVIOUS
<1>1. \A c \in Contexts, s \in Sessions, k \in Tasks : ~Does(c, s, k)
  BY DEF Init, Does, None, Tasks, Sessions
<1>2. JobsFit /\ StartRuns
  BY <1>1 DEF JobsFit, StartRuns, Init, Tasks
<1>3. PhasesFit
  BY <1>1, Placed DEF PhasesFit, Init, Tasks
<1>4. SecondClose
  BY <1>1, Placed DEF SecondClose, Init, Tasks
<1>5. CountIsOpen
  <2>1. Open = {} /\ raced = {} /\ count = 0
    BY DEF Init, Open
  <2> QED
    BY <2>1, FS_EmptySet DEF CountIsOpen
<1> QED
  BY <1>2, <1>3, <1>4, <1>5, InitTypeOK DEF IInv

\* A step that leaves the sessions, and what the threads do with them, alone.
LEMMA Unmoved ==
  ASSUME IInv, TypeOK',
         UNCHANGED <<listening, accepting, job, phase, reading, freed, count, raced>>
  PROVE  IInv'
<1>1. \A c \in Contexts, s \in Sessions, k \in Tasks : Does(c, s, k)' <=> Does(c, s, k)
  BY DEF Does
<1>2. JobsFit'
  BY <1>1 DEF IInv, JobsFit, Tasks
<1>3. StartRuns'
  BY DEF IInv, StartRuns, Starting, Does
<1>4. PhasesFit'
  BY <1>1, Placed DEF IInv, PhasesFit, Tasks
<1>5. SecondClose'
  BY <1>1, Placed DEF IInv, SecondClose, Tasks
<1>6. CountIsOpen'
  BY DEF IInv, CountIsOpen, Open
<1> QED
  BY <1>2, <1>3, <1>4, <1>5, <1>6 DEF IInv

\* start_acceptor() keeps to the bound.
LEMMA StartAcceptorType ==
  ASSUME TypeOK, listening \in Sessions, StartAcceptor
  PROVE  listening' \in 1..(MaxSessions + 1) /\ accepting' \in BOOLEAN
<1>1. MaxSessions \in Nat /\ listening \in 1..MaxSessions
  BY MaxSessionsAssumption DEF Sessions
<1> QED
  BY <1>1 DEF StartAcceptor

\* A session is accepted.
LEMMA AcceptKeeps == ASSUME IInv, Accept PROVE IInv'
<1>0. /\ Idle(Acceptor) /\ accepting /\ listening <= arrived /\ accepting' = FALSE
      /\ phase' = [phase EXCEPT ![listening] = "open"]
      /\ count' = count + 1
      /\ Begin(Acceptor, listening, "connect")
      /\ UNCHANGED <<arrived, listening, reading, data, deaf, freed, raced>>
  BY DEF Accept
<1>1. listening \in Sessions
  <2>1. /\ MaxSessions \in Nat /\ listening \in 1..(MaxSessions + 1)
        /\ arrived \in 0..MaxSessions
    BY MaxSessionsAssumption DEF IInv, TypeOK
  <2> QED
    BY <1>0, <2>1 DEF Sessions
<1>2. /\ job' \in [Contexts -> Jobs \cup {None}]
      /\ \A d \in Contexts, r \in Sessions, k \in Tasks :
           Does(d, r, k)' <=> IF d = Acceptor THEN r = listening /\ k = "connect"
                                              ELSE Does(d, r, k)
  <2>1. job \in [Contexts -> Jobs \cup {None}] /\ "connect" \in Tasks
    BY DEF IInv, TypeOK, Tasks
  <2> QED
    BY <1>0, <1>1, <2>1, Placed, BeginDoes
<1>3. TypeOK'
  <2>1. phase' \in [Sessions -> {"waiting", "open", "closed"}]
    BY <1>0, <1>1 DEF IInv, TypeOK
  <2>2. count' \in Int
    BY <1>0 DEF IInv, TypeOK
  <2>3. accepting' \in BOOLEAN
    BY <1>0, Zenon
  <2> QED
    BY <1>0, <1>2, <2>1, <2>2, <2>3 DEF IInv, TypeOK
<1>4. JobsFit'
  BY <1>0, <1>2 DEF IInv, JobsFit, Tasks
<1>5. StartRuns'
  <2>1. job'[Acceptor] = [session |-> listening', task |-> "connect"]
    BY <1>0, Placed DEF Begin, IInv, TypeOK
  <2> QED
    BY <2>1 DEF StartRuns, Starting, Does
<1>6. PhasesFit'
  BY <1>0, <1>1, <1>2, Placed DEF IInv, PhasesFit, Tasks, TypeOK
<1>7. SecondClose'
  BY <1>0, <1>1, <1>2, Placed DEF IInv, PhasesFit, SecondClose, Tasks, TypeOK
<1>8. CountIsOpen'
  <2>1. Open' = Open \cup {listening} /\ listening \notin Open
    BY <1>0, <1>1 DEF Open, IInv, TypeOK, PhasesFit
  <2>2. Cardinality(Open') = Cardinality(Open) + 1
    BY <2>1, FiniteSessions, FS_AddElement DEF IInv
  <2> QED
    BY <1>0, <2>2, FiniteSessions DEF IInv, CountIsOpen, TypeOK
<1> QED
  BY <1>3, <1>4, <1>5, <1>6, <1>7, <1>8 DEF IInv

\* A session is given up by a failed accept.
LEMMA AcceptFailsKeeps == ASSUME IInv, AcceptFails PROVE IInv'
<1>0. /\ Idle(Acceptor) /\ accepting /\ listening <= arrived
      /\ freed' = freed \cup {listening}
      /\ StartAcceptor /\ listening' = listening + 1 /\ accepting' = TRUE
      /\ UNCHANGED <<arrived, job, phase, reading, data, deaf, count, raced>>
  BY DEF AcceptFails, StartAcceptor
<1>1. listening \in Sessions
  <2>1. /\ MaxSessions \in Nat /\ listening \in 1..(MaxSessions + 1)
        /\ arrived \in 0..MaxSessions
    BY MaxSessionsAssumption DEF IInv, TypeOK
  <2> QED
    BY <1>0, <2>1 DEF Sessions
<1>2. \A c \in Contexts, s \in Sessions, k \in Tasks : Does(c, s, k)' <=> Does(c, s, k)
  BY <1>0 DEF Does
<1>3. TypeOK'
  BY <1>0, <1>1, StartAcceptorType DEF IInv, TypeOK
<1>4. JobsFit'
  <2>1. \A c \in Contexts, s \in Sessions : ~Does(c, s, "connect") /\ ~Does(c, s, "undo")
    BY <1>0 DEF IInv, JobsFit
  <2> QED
    BY <1>2, <2>1 DEF IInv, JobsFit, Tasks
<1>5. StartRuns'
  BY <1>0 DEF StartRuns
<1>6. \A s \in Sessions : s > listening + 1 \/ s = listening + 1 => s > listening
  BY <1>1 DEF Sessions
<1>7. \A s \in Sessions : s < listening => s < listening + 1
  BY <1>1 DEF Sessions
<1>8. PhasesFit'
  BY <1>0, <1>1, <1>2, <1>6, <1>7, Placed DEF IInv, PhasesFit, Tasks, Sessions
<1>9. SecondClose'
  BY <1>0, <1>2, <1>7, Placed DEF IInv, SecondClose, Tasks
<1>10. CountIsOpen'
  BY <1>0 DEF IInv, CountIsOpen, Open
<1> QED
  BY <1>3, <1>4, <1>5, <1>8, <1>9, <1>10 DEF IInv

\* The accept handler returns from start() and starts the next accept: what this
\* leaves of the invariant, whatever happened to the session in the same step.
LEMMA ReturnKeeps ==
  ASSUME IInv, NEW task \in {"connect", "undo"}, Does(Acceptor, listening, task),
         End(Acceptor), StartAcceptor
  PROVE  /\ listening \in Sessions
         /\ \A d \in Contexts, r \in Sessions, k \in Tasks :
              Does(d, r, k)' <=> d # Acceptor /\ Does(d, r, k)
         /\ job' \in [Contexts -> Jobs \cup {None}]
         /\ listening' \in 1..(MaxSessions + 1) /\ accepting' \in BOOLEAN
         /\ JobsFit' /\ StartRuns'
         /\ accepting' = TRUE /\ accepting = FALSE
         /\ \A s \in Sessions : s > listening' \/ s = listening' => s > listening
         /\ \A s \in Sessions : s < listening => s < listening'
         /\ listening < listening'
         /\ ~Does(Home(listening), listening, "relay")
<1>1. TypeOK /\ task \in Tasks /\ job \in [Contexts -> Jobs \cup {None}]
  BY DEF IInv, TypeOK, Tasks
<1>2. listening \in Sessions
  BY <1>1, ListeningIsSession
<1>3. /\ job' \in [Contexts -> Jobs \cup {None}]
      /\ \A d \in Contexts, r \in Sessions, k \in Tasks :
           Does(d, r, k)' <=> d # Acceptor /\ Does(d, r, k)
  BY <1>1, Placed, EndDoes
<1>4. listening' \in 1..(MaxSessions + 1) /\ accepting' \in BOOLEAN
  BY <1>1, <1>2, StartAcceptorType
<1>5. accepting' = TRUE /\ listening' = listening + 1
  BY DEF StartAcceptor
<1>6. accepting = FALSE
  <2>1. accepting \in BOOLEAN
    BY <1>1 DEF TypeOK
  <2>2. ~accepting
    BY <1>2, Placed DEF IInv, JobsFit
  <2> QED
    BY <2>1, <2>2
<1>7. JobsFit'
  <2>1. \A c \in Contexts, s \in Sessions :
          Does(c, s, "connect") \/ Does(c, s, "undo") => c = Acceptor
    BY DEF IInv, JobsFit
  <2> QED
    BY <1>3, <2>1 DEF IInv, JobsFit, Tasks
<1>8. StartRuns'
  BY <1>5 DEF StartRuns
<1>9. /\ \A s \in Sessions : s > listening' \/ s = listening' => s > listening
      /\ \A s \in Sessions : s < listening => s < listening'
      /\ listening < listening'
  BY <1>2, <1>5 DEF Sessions
<1>10. ~Does(Home(listening), listening, "relay")
  BY <1>2 DEF IInv, PhasesFit, Sessions
<1> QED
  BY <1>2, <1>3, <1>4, <1>5, <1>6, <1>7, <1>8, <1>9, <1>10

\* start() returns with all sockets being read.
LEMMA ConnectedKeeps == ASSUME IInv, Connected PROVE IInv'
<1>0. /\ Does(Acceptor, listening, "connect") /\ End(Acceptor) /\ StartAcceptor
      /\ reading' = reading \cup {listening}
      /\ UNCHANGED <<arrived, phase, data, deaf, freed, count, raced>>
  BY DEF Connected
<1>1. /\ listening \in Sessions
      /\ \A d \in Contexts, r \in Sessions, k \in Tasks :
           Does(d, r, k)' <=> d # Acceptor /\ Does(d, r, k)
      /\ job' \in [Contexts -> Jobs \cup {None}]
      /\ listening' \in 1..(MaxSessions + 1) /\ accepting' \in BOOLEAN
      /\ JobsFit' /\ StartRuns'
      /\ accepting' = TRUE /\ accepting = FALSE
      /\ \A s \in Sessions : s > listening' \/ s = listening' => s > listening
      /\ \A s \in Sessions : s < listening => s < listening'
      /\ listening < listening'
  BY <1>0, ReturnKeeps
<1>2. TypeOK'
  BY <1>0, <1>1 DEF IInv, TypeOK
<1>3. PhasesFit'
  BY <1>0, <1>1, Placed DEF IInv, PhasesFit, Tasks
<1>4. ~(Does(Home(listening), listening, "close") /\ phase[listening] = "closed")
      /\ listening \notin raced
  BY <1>1 DEF IInv, SecondClose, Sessions
<1>5. SecondClose'
  BY <1>0, <1>1, <1>4, Placed DEF IInv, SecondClose, Tasks
<1>6. CountIsOpen'
  BY <1>0 DEF IInv, CountIsOpen, Open
<1> QED
  BY <1>1, <1>2, <1>3, <1>5, <1>6 DEF IInv

\* A connect fails, and the session is closed by the handler, or is already.
LEMMA ConnectFailsKeeps == ASSUME IInv, ConnectFails PROVE IInv'
<1>0. /\ Does(Acceptor, listening, "connect")
      /\ UNCHANGED <<arrived, phase, reading, data, deaf, freed, count, raced>>
  BY DEF ConnectFails
<1>1. CASE phase[listening] = "open"
  <2>0. Begin(Acceptor, listening, "undo") /\ UNCHANGED <<listening, accepting>>
    BY <1>1 DEF ConnectFails
  <2>1. listening \in Sessions /\ ~accepting
    BY <1>0, ListeningIsSession, Placed DEF IInv, JobsFit, Tasks
  <2>2. /\ job' \in [Contexts -> Jobs \cup {None}]
        /\ \A d \in Contexts, r \in Sessions, k \in Tasks :
             Does(d, r, k)' <=> IF d = Acceptor THEN r = listening /\ k = "undo"
                                                ELSE Does(d, r, k)
    <3>1. job \in [Contexts -> Jobs \cup {None}] /\ "undo" \in Tasks
      BY DEF IInv, TypeOK, Tasks
    <3> QED
      BY <2>0, <2>1, <3>1, Placed, BeginDoes
  <2>3. TypeOK'
    BY <1>0, <2>0, <2>2 DEF IInv, TypeOK
  <2>4. JobsFit'
    BY <1>0, <2>0, <2>1, <2>2 DEF IInv, JobsFit, Tasks
  <2>5. StartRuns'
    <3>1. job'[Acceptor] = [session |-> listening', task |-> "undo"]
      BY <2>0, Placed DEF Begin, IInv, TypeOK
    <3> QED
      BY <3>1 DEF StartRuns, Starting, Does
  <2>6. PhasesFit'
    BY <1>0, <2>0, <2>2, Placed DEF IInv, PhasesFit, Tasks
  <2>7. SecondClose'
    BY <1>0, <1>1, <2>0, <2>2, Placed DEF IInv, SecondClose, Tasks
  <2>8. CountIsOpen'
    BY <1>0 DEF IInv, CountIsOpen, Open
  <2> QED
    BY <2>3, <2>4, <2>5, <2>6, <2>7, <2>8 DEF IInv
<1>2. CASE phase[listening] # "open"
  <2>0. End(Acceptor) /\ StartAcceptor
    BY <1>2 DEF ConnectFails
  <2>1. /\ \A d \in Contexts, r \in Sessions, k \in Tasks :
             Does(d, r, k)' <=> d # Acceptor /\ Does(d, r, k)
        /\ job' \in [Contexts -> Jobs \cup {None}]
        /\ listening' \in 1..(MaxSessions + 1) /\ accepting' \in BOOLEAN
        /\ JobsFit' /\ StartRuns'
        /\ accepting' = TRUE
        /\ \A s \in Sessions : s > listening' \/ s = listening' => s > listening
        /\ \A s \in Sessions : s < listening => s < listening'
    BY <1>0, <2>0, ReturnKeeps
  <2>2. TypeOK'
    BY <1>0, <2>1 DEF IInv, TypeOK
  <2>3. PhasesFit'
    BY <1>0, <2>1, Placed DEF IInv, PhasesFit, Tasks
  <2>4. SecondClose'
    BY <1>0, <2>1, Placed DEF IInv, SecondClose, Tasks
  <2>5. CountIsOpen'
    BY <1>0 DEF IInv, CountIsOpen, Open
  <2> QED
    BY <2>1, <2>2, <2>3, <2>4, <2>5 DEF IInv
<1> QED
  BY <1>1, <1>2

\* The count after close(), the first of its session or the second.
LEMMA CloseCounts ==
  ASSUME IInv, NEW s \in Sessions, Close(s),
         phase[s] # "waiting", phase[s] = "closed" => s \notin raced
  PROVE  /\ CountIsOpen'
         /\ phase' \in [Sessions -> {"waiting", "open", "closed"}]
         /\ count' \in Int /\ raced' \subseteq Sessions
<1>0. /\ phase' = [phase EXCEPT ![s] = "closed"]
      /\ count' = count - 1
      /\ raced' = IF phase[s] = "closed" THEN raced \cup {s} ELSE raced
      /\ phase \in [Sessions -> {"waiting", "open", "closed"}]
      /\ count \in Int /\ raced \subseteq Sessions
      /\ count = Cardinality(Open) - Cardinality(raced)
  BY DEF Close, IInv, TypeOK, CountIsOpen
<1>1. phase' \in [Sessions -> {"waiting", "open", "closed"}]
  BY <1>0
<1>2. count' \in Int
  BY <1>0
<1>3. raced' \subseteq Sessions
  BY <1>0
<1>4. CASE phase[s] = "open"
  <2>1. Open' = Open \ {s} /\ s \in Open /\ raced' = raced
    BY <1>0, <1>4 DEF Open
  <2>2. Cardinality(Open') = Cardinality(Open) - 1
    BY <2>1, FiniteSessions, FS_RemoveElement DEF IInv
  <2> QED
    BY <1>0, <1>1, <1>2, <1>3, <2>1, <2>2, FiniteSessions DEF IInv, CountIsOpen
<1>5. CASE phase[s] = "closed"
  <2>1. Open' = Open /\ raced' = raced \cup {s} /\ s \notin raced
    BY <1>0, <1>5 DEF Open
  <2>2. Cardinality(raced') = Cardinality(raced) + 1
    BY <2>1, FiniteSessions, FS_AddElement DEF IInv
  <2> QED
    BY <1>0, <1>1, <1>2, <1>3, <2>1, <2>2, FiniteSessions DEF IInv, CountIsOpen
<1> QED
  BY <1>0, <1>4, <1>5

\* close() after a failed connect.
LEMMA CloseOnAcceptorKeeps == ASSUME IInv, CloseOnAcceptor PROVE IInv'
<1>0. /\ Does(Acceptor, listening, "undo") /\ Close(listening)
      /\ End(Acceptor) /\ StartAcceptor
      /\ phase' = [phase EXCEPT ![listening] = "closed"]
      /\ raced' = IF phase[listening] = "closed" THEN raced \cup {listening} ELSE raced
      /\ UNCHANGED <<arrived, reading, data, deaf, freed>>
  BY DEF CloseOnAcceptor, Close
<1>1. /\ listening \in Sessions
      /\ \A d \in Contexts, r \in Sessions, k \in Tasks :
           Does(d, r, k)' <=> d # Acceptor /\ Does(d, r, k)
      /\ job' \in [Contexts -> Jobs \cup {None}]
      /\ listening' \in 1..(MaxSessions + 1) /\ accepting' \in BOOLEAN
      /\ JobsFit' /\ StartRuns'
      /\ accepting' = TRUE /\ accepting = FALSE
      /\ \A s \in Sessions : s > listening' \/ s = listening' => s > listening
      /\ \A s \in Sessions : s < listening => s < listening'
      /\ listening < listening'
      /\ ~Does(Home(listening), listening, "relay")
  BY <1>0, ReturnKeeps
<1>2. phase[listening] # "waiting" /\ listening \notin raced /\ listening \notin reading
  BY <1>1 DEF IInv, PhasesFit, SecondClose, Sessions
<1>3. /\ CountIsOpen'
      /\ phase' \in [Sessions -> {"waiting", "open", "closed"}]
      /\ count' \in Int /\ raced' \subseteq Sessions
  BY <1>0, <1>1, <1>2, CloseCounts
<1>4. TypeOK'
  BY <1>0, <1>1, <1>3 DEF IInv, TypeOK
<1>5. \A s \in Sessions : phase'[s] = IF s = listening THEN "closed" ELSE phase[s]
  BY <1>0 DEF IInv, TypeOK
<1>6. \A s \in Sessions : s > listening => s # listening
  BY <1>1 DEF Sessions
<1>7. PhasesFit'
  BY <1>0, <1>1, <1>5, <1>6, Placed DEF IInv, PhasesFit, Tasks
<1>8. SecondClose'
  <2> SUFFICES ASSUME NEW s \in Sessions
      PROVE  /\ Does(Home(s), s, "close")' /\ phase'[s] = "closed" =>
                  Home(s) # Acceptor /\ s < listening' /\ s \notin reading'
             /\ Does(Acceptor, s, "undo")' /\ phase'[s] = "closed" => Home(s) # Acceptor
             /\ s \in raced' =>
                  /\ phase'[s] = "closed" /\ ~Does(Home(s), s, "close")'
                  /\ Home(s) # Acceptor /\ s < listening' /\ s \notin reading'
    BY DEF SecondClose
  <2>1. /\ Does(Home(s), s, "close")' <=> Home(s) # Acceptor /\ Does(Home(s), s, "close")
        /\ ~Does(Acceptor, s, "undo")'
    BY <1>1, Placed DEF Tasks
  <2>2. CASE s = listening
    <3>1. Does(Home(s), s, "close") => phase[s] # "closed"
      BY <1>1, <2>2 DEF IInv, SecondClose, Sessions
    <3>2. phase[s] = "closed" => Home(s) # Acceptor
      BY <1>0, <2>2 DEF IInv, SecondClose
    <3> QED
      BY <1>0, <1>1, <1>2, <1>5, <2>1, <2>2, <3>1, <3>2
  <2>3. CASE s # listening
    <3>1. phase'[s] = phase[s] /\ (s \in raced' <=> s \in raced)
      BY <1>0, <1>5, <2>3
    <3> QED
      BY <1>0, <1>1, <2>1, <3>1 DEF IInv, SecondClose
  <2> QED
    BY <2>2, <2>3
<1> QED
  BY <1>1, <1>3, <1>4, <1>7, <1>8 DEF IInv

\* A handler of a session begins on the session's own context.
LEMMA BeginKeeps ==
  ASSUME IInv, NEW s \in Sessions, NEW task \in {"relay", "close"}, Idle(Home(s)),
         phase[s] = "open", task = "relay" => s \in reading,
         Begin(Home(s), s, task), data' \subseteq data,
         UNCHANGED <<arrived, listening, accepting, phase, reading, deaf, freed,
                     count, raced>>
  PROVE  IInv'
<1>1. /\ job' \in [Contexts -> Jobs \cup {None}]
      /\ \A d \in Contexts, r \in Sessions, k \in Tasks :
           Does(d, r, k)' <=> IF d = Home(s) THEN r = s /\ k = task ELSE Does(d, r, k)
  <2>1. job \in [Contexts -> Jobs \cup {None}] /\ task \in Tasks
    BY DEF IInv, TypeOK, Tasks
  <2> QED
    BY <2>1, Placed, BeginDoes
<1>2. TypeOK'
  BY <1>1 DEF IInv, TypeOK
<1>3. JobsFit'
  BY <1>1 DEF IInv, JobsFit, Tasks
<1>4. StartRuns'
  <2>1. CASE accepting
    BY <2>1 DEF StartRuns
  <2>2. CASE ~accepting
    <3>1. PICK k \in {"connect", "undo"} : Does(Acceptor, listening, k)
      BY <2>2 DEF IInv, StartRuns, Starting
    <3>2. listening \in Sessions /\ k \in Tasks
      BY <3>1, ListeningIsSession DEF IInv, Tasks
    <3>3. Acceptor # Home(s)
      BY <3>1, <3>2, Placed, DoesOne
    <3>4. Does(Acceptor, listening, k)'
      <4>1. job'[Acceptor] = job[Acceptor]
        BY <3>3, Placed DEF Begin, IInv, TypeOK
      <4> QED
        BY <3>1, <4>1 DEF Does
    <3> QED
      BY <3>4 DEF StartRuns, Starting
  <2> QED
    BY <2>1, <2>2
<1>5. PhasesFit'
  BY <1>1, Placed DEF IInv, PhasesFit, Tasks
<1>6. SecondClose'
  BY <1>1, Placed DEF IInv, SecondClose, Tasks
<1>7. CountIsOpen'
  BY DEF IInv, CountIsOpen, Open
<1> QED
  BY <1>2, <1>3, <1>4, <1>5, <1>6, <1>7 DEF IInv

\* A handler of a session returns: the accept handler is not touched by it.
LEMMA WorkerEnds ==
  ASSUME IInv, NEW s \in Sessions, NEW task \in {"relay", "close"},
         Does(Home(s), s, task), End(Home(s)), UNCHANGED <<listening, accepting>>
  PROVE  /\ job' \in [Contexts -> Jobs \cup {None}]
         /\ \A d \in Contexts, r \in Sessions, k \in Tasks :
              Does(d, r, k)' <=> d # Home(s) /\ Does(d, r, k)
         /\ \A r \in Sessions, k \in Tasks : Does(Home(s), r, k) => r = s /\ k = task
         /\ JobsFit' /\ StartRuns'
<1>1. /\ job' \in [Contexts -> Jobs \cup {None}]
      /\ \A d \in Contexts, r \in Sessions, k \in Tasks :
           Does(d, r, k)' <=> d # Home(s) /\ Does(d, r, k)
  <2>1. job \in [Contexts -> Jobs \cup {None}]
    BY DEF IInv, TypeOK
  <2> QED
    BY <2>1, Placed, EndDoes
<1>2. \A r \in Sessions, k \in Tasks : Does(Home(s), r, k) => r = s /\ k = task
  <2>1. task \in Tasks
    BY DEF Tasks
  <2> QED
    BY <2>1, Placed, DoesOne
<1>3. JobsFit'
  BY <1>1 DEF IInv, JobsFit, Tasks
<1>4. StartRuns'
  <2>1. CASE accepting
    BY <2>1 DEF StartRuns
  <2>2. CASE ~accepting
    <3>1. PICK k \in {"connect", "undo"} : Does(Acceptor, listening, k)
      BY <2>2 DEF IInv, StartRuns, Starting
    <3>2. listening \in Sessions /\ k \in Tasks
      BY <3>1, ListeningIsSession DEF IInv, Tasks
    <3>3. Acceptor # Home(s)
      BY <1>2, <3>1, <3>2
    <3>4. Does(Acceptor, listening, k)'
      <4>1. job'[Acceptor] = job[Acceptor]
        BY <3>3, Placed DEF End, IInv, TypeOK
      <4> QED
        BY <3>1, <4>1 DEF Does
    <3> QED
      BY <3>4 DEF StartRuns, Starting
  <2> QED
    BY <2>1, <2>2
<1> QED
  BY <1>1, <1>2, <1>3, <1>4

\* What was read is written.
LEMMA EndRelayKeeps == ASSUME IInv, NEW s \in Sessions, EndRelay(s) PROVE IInv'
<1>0. /\ Does(Home(s), s, "relay") /\ End(Home(s))
      /\ UNCHANGED <<arrived, listening, accepting, phase, reading, data, deaf, freed,
                     count, raced>>
  BY DEF EndRelay
<1>1. /\ job' \in [Contexts -> Jobs \cup {None}]
      /\ \A d \in Contexts, r \in Sessions, k \in Tasks :
           Does(d, r, k)' <=> d # Home(s) /\ Does(d, r, k)
      /\ JobsFit' /\ StartRuns'
  BY <1>0, WorkerEnds
<1>2. TypeOK'
  BY <1>0, <1>1 DEF IInv, TypeOK
<1>3. PhasesFit'
  BY <1>0, <1>1, Placed DEF IInv, PhasesFit, Tasks
<1>4. SecondClose'
  BY <1>0, <1>1, Placed DEF IInv, SecondClose, Tasks
<1>5. CountIsOpen'
  BY <1>0 DEF IInv, CountIsOpen, Open
<1> QED
  BY <1>1, <1>2, <1>3, <1>4, <1>5 DEF IInv

\* close() on the session's own thread.
LEMMA CloseOnWorkerKeeps == ASSUME IInv, NEW s \in Sessions, CloseOnWorker(s) PROVE IInv'
<1>0. /\ Does(Home(s), s, "close") /\ Close(s) /\ End(Home(s))
      /\ phase' = [phase EXCEPT ![s] = "closed"]
      /\ raced' = IF phase[s] = "closed" THEN raced \cup {s} ELSE raced
      /\ UNCHANGED <<arrived, listening, accepting, reading, data, deaf, freed>>
  BY DEF CloseOnWorker, Close
<1>1. /\ job' \in [Contexts -> Jobs \cup {None}]
      /\ \A d \in Contexts, r \in Sessions, k \in Tasks :
           Does(d, r, k)' <=> d # Home(s) /\ Does(d, r, k)
      /\ \A r \in Sessions, k \in Tasks : Does(Home(s), r, k) => r = s /\ k = "close"
      /\ JobsFit' /\ StartRuns'
  BY <1>0, WorkerEnds
<1>2. phase[s] # "waiting" /\ s \notin raced
  BY <1>0 DEF IInv, PhasesFit, SecondClose
<1>3. /\ CountIsOpen'
      /\ phase' \in [Sessions -> {"waiting", "open", "closed"}]
      /\ count' \in Int /\ raced' \subseteq Sessions
  BY <1>0, <1>2, CloseCounts
<1>4. TypeOK'
  BY <1>0, <1>1, <1>3 DEF IInv, TypeOK
<1>5. \A r \in Sessions : phase'[r] = IF r = s THEN "closed" ELSE phase[r]
  BY <1>0 DEF IInv, TypeOK
<1>6. ~(s > listening \/ (s = listening /\ accepting))
  BY <1>2 DEF IInv, PhasesFit
<1>7. ~Does(Home(s), s, "relay")
  BY <1>1 DEF Tasks
<1>8. PhasesFit'
  BY <1>0, <1>1, <1>5, <1>6, <1>7, Placed DEF IInv, PhasesFit, Tasks
<1>9. SecondClose'
  <2> SUFFICES ASSUME NEW r \in Sessions
      PROVE  /\ Does(Home(r), r, "close")' /\ phase'[r] = "closed" =>
                  Home(r) # Acceptor /\ r < listening' /\ r \notin reading'
             /\ Does(Acceptor, r, "undo")' /\ phase'[r] = "closed" => Home(r) # Acceptor
             /\ r \in raced' =>
                  /\ phase'[r] = "closed" /\ ~Does(Home(r), r, "close")'
                  /\ Home(r) # Acceptor /\ r < listening' /\ r \notin reading'
    BY DEF SecondClose
  <2>1. CASE r = s
    <3>1. ~Does(Home(s), s, "close")'
      BY <1>1, Placed DEF Tasks
    <3>2. Does(Acceptor, s, "undo")' => Home(s) # Acceptor
      BY <1>1, Placed DEF Tasks
    <3>3. phase[s] = "closed" => Home(s) # Acceptor /\ s < listening /\ s \notin reading
      BY <1>0 DEF IInv, SecondClose
    <3> QED
      BY <1>0, <1>2, <1>5, <2>1, <3>1, <3>2, <3>3
  <2>2. CASE r # s
    <3>1. phase'[r] = phase[r] /\ (r \in raced' <=> r \in raced)
      BY <1>0, <1>5, <2>2
    <3>2. /\ Does(Home(r), r, "close")' => Does(Home(r), r, "close")
          /\ Does(Acceptor, r, "undo")' => Does(Acceptor, r, "undo")
      BY <1>1, Placed DEF Tasks
    <3> QED
      BY <1>0, <3>1, <3>2 DEF IInv, SecondClose
  <2> QED
    BY <2>1, <2>2
<1> QED
  BY <1>1, <1>3, <1>4, <1>8, <1>9 DEF IInv

\* A session that is gone: nobody was inside of a handler of it.
LEMMA FreeKeeps == ASSUME IInv, NEW s \in Sessions, Free(s) PROVE IInv'
<1>0. /\ phase[s] = "closed" /\ s \notin freed /\ Resting(s)
      /\ freed' = freed \cup {s}
      /\ UNCHANGED <<arrived, listening, accepting, job, phase, reading, data, deaf,
                     count, raced>>
  BY DEF Free
<1>1. \A c \in Contexts, r \in Sessions, k \in Tasks : Does(c, r, k)' <=> Does(c, r, k)
  BY <1>0 DEF Does
<1>2. TypeOK'
  BY <1>0 DEF IInv, TypeOK
<1>3. JobsFit'
  BY <1>0, <1>1 DEF IInv, JobsFit, Tasks
<1>4. StartRuns'
  BY <1>0 DEF IInv, StartRuns, Starting, Does
<1>5. ~(s = listening /\ ~accepting)
  <2>1. ASSUME s = listening, ~accepting PROVE FALSE
    <3>1. PICK k \in {"connect", "undo"} : job[Acceptor] = [session |-> s, task |-> k]
      BY <2>1 DEF IInv, StartRuns, Starting, Does
    <3>2. job[Acceptor].session = s
      BY <3>1
    <3> QED
      BY <1>0, <3>2, Placed DEF Resting
  <2> QED
    BY <2>1
<1>6. PhasesFit'
  BY <1>0, <1>1, <1>5, Placed DEF IInv, PhasesFit, Tasks
<1>7. SecondClose'
  BY <1>0, <1>1, Placed DEF IInv, SecondClose, Tasks
<1>8. CountIsOpen'
  BY <1>0 DEF IInv, CountIsOpen, Open
<1> QED
  BY <1>2, <1>3, <1>4, <1>6, <1>7, <1>8 DEF IInv

\* Every step keeps the invariant.
LEMMA StepIInv == IInv /\ [Next]_vars => IInv'
<1> SUFFICES ASSUME IInv, [Next]_vars PROVE IInv'
  OBVIOUS
<1>1. CASE AcceptorStep
  BY <1>1, AcceptKeeps, AcceptFailsKeeps, ConnectedKeeps, ConnectFailsKeeps,
     CloseOnAcceptorKeeps DEF AcceptorStep
<1>2. CASE ClientArrives
  <2>1. arrived' \in 0..MaxSessions
    <3>1. MaxSessions \in Nat /\ arrived \in 0..MaxSessions
      BY MaxSessionsAssumption DEF IInv, TypeOK
    <3> QED
      BY <1>2, <3>1 DEF ClientArrives
  <2>2. TypeOK'
    BY <1>2, <2>1 DEF ClientArrives, IInv, TypeOK
  <2> QED
    BY <1>2, <2>2, Unmoved DEF ClientArrives
<1>3. ASSUME NEW s \in Sessions, BeginRelay(s) PROVE IInv'
  BY <1>3, BeginKeeps DEF BeginRelay
<1>4. ASSUME NEW s \in Sessions, EndRelay(s) PROVE IInv'
  BY <1>4, EndRelayKeeps
<1>5. ASSUME NEW s \in Sessions, BeginClose(s) PROVE IInv'
  BY <1>5, BeginKeeps DEF BeginClose
<1>6. ASSUME NEW s \in Sessions, CloseOnWorker(s) PROVE IInv'
  BY <1>6, CloseOnWorkerKeeps
<1>7. ASSUME NEW s \in Sessions, Free(s) PROVE IInv'
  BY <1>7, FreeKeeps
<1>8. ASSUME NEW s \in Sessions, PeerStep(s) PROVE IInv'
  <2>1. UNCHANGED <<arrived, listening, accepting, job, phase, reading, freed,
                    count, raced>>
    BY <1>8 DEF PeerStep, DataArrives, TurnsDeaf, Relents
  <2>2. data' \subseteq Sessions /\ deaf' \subseteq Sessions
    BY <1>8 DEF PeerStep, DataArrives, TurnsDeaf, Relents, IInv, TypeOK
  <2>3. TypeOK'
    BY <2>1, <2>2 DEF IInv, TypeOK
  <2> QED
    BY <2>1, <2>3, Unmoved
<1>9. CASE UNCHANGED vars
  <2>1. TypeOK'
    BY <1>9 DEF vars, IInv, TypeOK
  <2> QED
    BY <1>9, <2>1, Unmoved DEF vars
<1> QED
  BY <1>1, <1>2, <1>3, <1>4, <1>5, <1>6, <1>7, <1>8, <1>9 DEF Next, SessionStep

-----------------------------------------------------------------------------
(* Theorems.                                                               *)

\* The inductive invariant.
THEOREM IInvCorrect == Spec => []IInv
BY InitIInv, StepIInv, PTL DEF Spec

\* Every thread is inside of a handler of one session or waits, and the accepts
\* stay within the sessions (tcp_session_manager.cpp:32-49).
THEOREM TypeCorrect == Spec => []TypeOK
<1>1. IInv => TypeOK
  BY DEF IInv
<1> QED
  BY <1>1, IInvCorrect, PTL

\* The count reported is the number of open sessions, short by one for each that
\* both threads closed (tcp_session.cpp:24, 280-290).
THEOREM CountIsOpenCorrect == Spec => []CountIsOpen
<1>1. IInv => CountIsOpen
  BY DEF IInv
<1> QED
  BY <1>1, IInvCorrect, PTL

\* Two threads close one session only when a connect failed, and never on the
\* acceptor's own context (tcp_session.cpp:62, 261).
THEOREM RacesNeedFailedConnectCorrect == Spec => []RacesNeedFailedConnect
<1>1. IInv => RacesNeedFailedConnect
  BY DEF IInv, TypeOK, SecondClose, RacesNeedFailedConnect
<1> QED
  BY <1>1, IInvCorrect, PTL

-----------------------------------------------------------------------------
(* Refinement: every session implements SessionLife.                       *)

\* No session has been accepted, and each is held by its accept handler.
LEMMA InitLives == Init => \A s \in Sessions : Life(s)!Init
BY Placed DEF Init, Life!Init, Does, None, Sessions

\* What a step does to one session, told without SessionLife.
Kept(s) == phase'[s] = phase[s] /\ (s \in freed' <=> s \in freed)
KeepsOn(s) == Does(Home(s), s, "relay")' <=> Does(Home(s), s, "relay")

LifeStep(s) ==
  \/ Kept(s) /\ KeepsOn(s)
  \/ /\ phase[s] = "waiting" /\ s \notin freed
     /\ phase'[s] = "open" /\ s \notin freed' /\ KeepsOn(s)
  \/ /\ phase[s] = "open" /\ ~Does(Home(s), s, "relay")
     /\ Kept(s) /\ Does(Home(s), s, "relay")'
  \/ /\ Does(Home(s), s, "relay")
     /\ Kept(s) /\ ~Does(Home(s), s, "relay")'
  \/ /\ phase[s] = "open" /\ ~Does(Home(s), s, "relay")
     /\ phase'[s] = "closed" /\ (s \in freed' <=> s \in freed) /\ KeepsOn(s)
  \/ /\ phase[s] # "open" /\ s \notin freed
     /\ phase'[s] = phase[s] /\ s \in freed' /\ KeepsOn(s)

LEMMA LifeSteps ==
  ASSUME NEW s \in Sessions, LifeStep(s)
  PROVE  [Life(s)!Next]_(Life(s)!vars)
BY DEF LifeStep, Kept, KeepsOn, Does, Life!Next, Life!vars, Life!Open, Life!BeginRelay,
       Life!EndRelay, Life!Close, Life!Free

\* What the threads begin or end changes the relaying of at most one session.
LEMMA StepLives ==
  ASSUME IInv, [Next]_vars, NEW s \in Sessions
  PROVE  [Life(s)!Next]_(Life(s)!vars)
<1> USE DEF LifeStep, Kept, KeepsOn
<1>0. phase \in [Sessions -> {"waiting", "open", "closed"}]
      /\ job \in [Contexts -> Jobs \cup {None}]
      /\ Home(s) \in Contexts /\ Acceptor \in Contexts
  BY Placed DEF IInv, TypeOK
<1>1. ASSUME Accept PROVE LifeStep(s)
  <2>1. Begin(Acceptor, listening, "connect") /\ Idle(Acceptor) /\ listening \in Sessions
    <3>1. /\ MaxSessions \in Nat /\ listening \in 1..(MaxSessions + 1)
          /\ arrived \in 0..MaxSessions /\ listening <= arrived
      BY <1>1, MaxSessionsAssumption DEF Accept, IInv, TypeOK
    <3> QED
      BY <1>1, <3>1 DEF Accept, Sessions
  <2>2. Does(Home(s), s, "relay")' <=> Does(Home(s), s, "relay")
    <3>1. /\ Does(Home(s), s, "relay")' <=>
               IF Home(s) = Acceptor THEN s = listening /\ "relay" = "connect"
                                     ELSE Does(Home(s), s, "relay")
      BY <1>0, <2>1, BeginDoes DEF Tasks
    <3>2. Home(s) = Acceptor => ~Does(Home(s), s, "relay")
      BY <1>0, <2>1, DoesOne DEF Tasks
    <3> QED
      BY <3>1, <3>2
  <2>3. /\ phase' = [phase EXCEPT ![listening] = "open"] /\ freed' = freed
        /\ phase[listening] = "waiting" /\ listening \notin freed
    BY <1>1, <2>1 DEF Accept, IInv, PhasesFit
  <2>4. CASE s = listening
    BY <1>0, <2>2, <2>3, <2>4
  <2>5. CASE s # listening
    BY <1>0, <2>2, <2>3, <2>5
  <2> QED
    BY <2>4, <2>5
<1>2. ASSUME AcceptFails PROVE LifeStep(s)
  <2>1. /\ freed' = freed \cup {listening} /\ phase' = phase /\ job' = job
        /\ accepting
    BY <1>2 DEF AcceptFails
  <2>2. Does(Home(s), s, "relay")' <=> Does(Home(s), s, "relay")
    BY <2>1 DEF Does
  <2>3. s = listening => phase[s] = "waiting" /\ s \notin freed
    BY <2>1 DEF IInv, PhasesFit
  <2>4. CASE s = listening
    BY <2>1, <2>2, <2>3, <2>4
  <2>5. CASE s # listening
    BY <2>1, <2>2, <2>5
  <2> QED
    BY <2>4, <2>5
<1>3. ASSUME NEW task \in {"connect", "undo"}, Does(Acceptor, listening, task),
             Begin(Acceptor, listening, "undo") \/ End(Acceptor)
      PROVE  Does(Home(s), s, "relay")' <=> Does(Home(s), s, "relay")
  <2>1. listening \in Sessions /\ task \in Tasks
    BY <1>3, ListeningIsSession DEF IInv, Tasks
  <2>2. Home(s) = Acceptor => ~Does(Home(s), s, "relay")
    BY <1>0, <1>3, <2>1, DoesOne DEF Tasks
  <2>3. CASE Begin(Acceptor, listening, "undo")
    <3>1. Does(Home(s), s, "relay")' <=>
            IF Home(s) = Acceptor THEN s = listening /\ "relay" = "undo"
                                  ELSE Does(Home(s), s, "relay")
      BY <1>0, <2>1, <2>3, BeginDoes DEF Tasks
    <3> QED
      BY <2>2, <3>1
  <2>4. CASE End(Acceptor)
    <3>1. Does(Home(s), s, "relay")' <=> Home(s) # Acceptor /\ Does(Home(s), s, "relay")
      BY <1>0, <2>4, EndDoes DEF Tasks
    <3> QED
      BY <2>2, <3>1
  <2> QED
    BY <1>3, <2>3, <2>4
<1>4. ASSUME Connected PROVE LifeStep(s)
  BY <1>3, <1>4 DEF Connected
<1>5. ASSUME ConnectFails PROVE LifeStep(s)
  BY <1>3, <1>5 DEF ConnectFails
<1>6. ASSUME CloseOnAcceptor PROVE LifeStep(s)
  <2>1. /\ Does(Acceptor, listening, "undo") /\ End(Acceptor) /\ StartAcceptor
        /\ phase' = [phase EXCEPT ![listening] = "closed"] /\ freed' = freed
    BY <1>6 DEF CloseOnAcceptor, Close
  <2>2. Does(Home(s), s, "relay")' <=> Does(Home(s), s, "relay")
    BY <1>3, <2>1
  <2>3. listening \in Sessions /\ ~Does(Home(listening), listening, "relay")
    BY <2>1, ReturnKeeps
  <2>4. ~accepting
    BY <1>0, <2>1, <2>3 DEF IInv, JobsFit
  <2>5. phase[listening] # "waiting"
    BY <2>3, <2>4 DEF IInv, PhasesFit
  <2>6. CASE s = listening
    BY <1>0, <2>1, <2>2, <2>3, <2>5, <2>6
  <2>7. CASE s # listening
    BY <1>0, <2>1, <2>2, <2>7
  <2> QED
    BY <2>6, <2>7
<1>7. ASSUME NEW r \in Sessions, BeginRelay(r) PROVE LifeStep(s)
  <2>1. /\ Idle(Home(r)) /\ phase[r] = "open" /\ Begin(Home(r), r, "relay")
        /\ phase' = phase /\ freed' = freed
    BY <1>7 DEF BeginRelay
  <2>2. Does(Home(s), s, "relay")' <=>
          IF Home(s) = Home(r) THEN s = r ELSE Does(Home(s), s, "relay")
    BY <1>0, <2>1, Placed, BeginDoes DEF Tasks
  <2>3. Home(s) = Home(r) => ~Does(Home(s), s, "relay")
    BY <1>0, <2>1, DoesOne DEF Tasks
  <2>4. CASE s = r
    BY <2>1, <2>2, <2>3, <2>4
  <2>5. CASE s # r
    BY <2>1, <2>2, <2>3, <2>5
  <2> QED
    BY <2>4, <2>5
<1>8. ASSUME NEW r \in Sessions, BeginClose(r) PROVE LifeStep(s)
  <2>1. /\ Idle(Home(r)) /\ Begin(Home(r), r, "close")
        /\ phase' = phase /\ freed' = freed
    BY <1>8 DEF BeginClose
  <2>2. Does(Home(s), s, "relay")' <=>
          IF Home(s) = Home(r) THEN s = r /\ "relay" = "close"
                               ELSE Does(Home(s), s, "relay")
    BY <1>0, <2>1, Placed, BeginDoes DEF Tasks
  <2>3. Home(s) = Home(r) => ~Does(Home(s), s, "relay")
    BY <1>0, <2>1, DoesOne DEF Tasks
  <2> QED
    BY <2>1, <2>2, <2>3
<1>9. ASSUME NEW r \in Sessions, NEW task \in {"relay", "close"},
             Does(Home(r), r, task), End(Home(r)), UNCHANGED <<listening, accepting>>
      PROVE  /\ Does(Home(s), s, "relay") /\ ~(s = r /\ task = "relay") =>
                  Does(Home(s), s, "relay")'
             /\ Does(Home(s), s, "relay")' => Does(Home(s), s, "relay") /\ s # r
  <2>1. /\ Does(Home(s), s, "relay")' <=> Home(s) # Home(r) /\ Does(Home(s), s, "relay")
        /\ Does(Home(r), s, "relay") => s = r /\ "relay" = task
    BY <1>0, <1>9, WorkerEnds DEF Tasks
  <2> QED
    BY <2>1
<1>10. ASSUME NEW r \in Sessions, EndRelay(r) PROVE LifeStep(s)
  <2>1. /\ Does(Home(r), r, "relay") /\ End(Home(r)) /\ UNCHANGED <<listening, accepting>>
        /\ phase' = phase /\ freed' = freed
    BY <1>10 DEF EndRelay
  <2> QED
    BY <1>9, <2>1
<1>11. ASSUME NEW r \in Sessions, CloseOnWorker(r) PROVE LifeStep(s)
  <2>1. /\ Does(Home(r), r, "close") /\ End(Home(r)) /\ UNCHANGED <<listening, accepting>>
        /\ phase' = [phase EXCEPT ![r] = "closed"] /\ freed' = freed
    BY <1>11 DEF CloseOnWorker, Close
  <2>2. phase[r] # "waiting"
    BY <2>1 DEF IInv, PhasesFit
  <2>3. ~Does(Home(r), r, "relay")
    BY <2>1, WorkerEnds DEF Tasks
  <2>4. Does(Home(s), s, "relay")' <=> Does(Home(s), s, "relay")
    BY <1>9, <2>1, <2>3
  <2>5. CASE s = r
    BY <1>0, <2>1, <2>2, <2>3, <2>4, <2>5
  <2>6. CASE s # r
    BY <1>0, <2>1, <2>4, <2>6
  <2> QED
    BY <2>5, <2>6
<1>12. ASSUME NEW r \in Sessions, Free(r) PROVE LifeStep(s)
  <2>1. /\ phase[r] = "closed" /\ r \notin freed /\ freed' = freed \cup {r}
        /\ phase' = phase /\ job' = job
    BY <1>12 DEF Free
  <2>2. Does(Home(s), s, "relay")' <=> Does(Home(s), s, "relay")
    BY <2>1 DEF Does
  <2>3. CASE s = r
    BY <2>1, <2>2, <2>3
  <2>4. CASE s # r
    BY <2>1, <2>2, <2>4
  <2> QED
    BY <2>3, <2>4
<1>13. ASSUME UNCHANGED <<phase, freed, job>> PROVE LifeStep(s)
  BY <1>13 DEF Does
<1>14. ASSUME ClientArrives PROVE LifeStep(s)
  BY <1>13, <1>14 DEF ClientArrives
<1>15. ASSUME NEW r \in Sessions, PeerStep(r) PROVE LifeStep(s)
  BY <1>13, <1>15 DEF PeerStep, DataArrives, TurnsDeaf, Relents
<1>16. ASSUME UNCHANGED vars PROVE LifeStep(s)
  BY <1>13, <1>16 DEF vars
<1>17. LifeStep(s)
  BY <1>1, <1>2, <1>4, <1>5, <1>6, <1>7, <1>8, <1>10, <1>11, <1>12, <1>14, <1>15, <1>16
  DEF Next, AcceptorStep, SessionStep
<1> QED
  BY <1>17, LifeSteps

\* Every session is opened, closed and freed as SessionLife promises, whatever the
\* sessions do that share its thread (tcp_session_manager.cpp:32-49,
\* tcp_session.cpp:20-32, 278-307).
THEOREM LivesCorrect == Spec => LivesSpec
<1>1. Init => \A s \in Sessions : Life(s)!Init
  BY InitLives
<1>2. IInv /\ [Next]_vars => [\A s \in Sessions : [Life(s)!Next]_(Life(s)!vars)]_vars
  BY StepLives
<1> QED
  BY <1>1, <1>2, IInvCorrect, PTL DEF Spec, LivesSpec
=============================================================================
