------------------------------ MODULE TcpProxy ------------------------------
(***************************************************************************)
(* The TCP side as a whole: the acceptor, the sessions it creates, and the *)
(* io_contexts they share.  Every context has one thread.  The acceptor's, *)
(* of context 0, runs each accept handler, and with it the blocking        *)
(* connects of start(); the context of a session runs the session's        *)
(* handlers, and with them its blocking writes.  So sessions wait for each *)
(* other, and the accepts wait for sessions.                               *)
(*                                                                         *)
(* A session is what SessionLife says of it: TcpSession has the inside.    *)
(* The data races that TcpSession finds show here only where two threads   *)
(* close one session; that they may end the process is left to it.         *)
(***************************************************************************)
EXTENDS Integers, FiniteSets

CONSTANTS
  PoolSize,    \* io_context_pool_size of the local configuration
  MaxSessions  \* bound: sessions created

ASSUME PoolSizeAssumption    == PoolSize \in Nat \ {0}
ASSUME MaxSessionsAssumption == MaxSessions \in Nat

Sessions == 1..MaxSessions
Contexts == 0..(PoolSize - 1)
Acceptor == 0

\* Round robin: the acceptor took the first context, the sessions those after it.
Home(s) == s % PoolSize

VARIABLES
  arrived,    \* clients that have connected to the listening address
  listening,  \* the session the acceptor has created last
  accepting,  \* its accept is outstanding
  job,        \* what the thread of each context is inside of
  phase,      \* of each session: waiting, open or closed
  reading,    \* sessions whose sockets are being read
  data,       \* sessions a peer has sent data that is not read yet
  deaf,       \* sessions with a peer that does not read what is written to it
  freed,      \* sessions that have no owner left
  count,      \* tcp_flow_statistics::count_
  raced       \* history: sessions that two threads closed at once

vars == <<arrived, listening, accepting, job, phase, reading, data, deaf, freed, count,
          raced>>

None == [session |-> 0, task |-> "none"]
Jobs == [session : Sessions, task : {"connect", "undo", "relay", "close"}]

TypeOK ==
  /\ arrived \in 0..MaxSessions
  /\ listening \in 1..(MaxSessions + 1)
  /\ accepting \in BOOLEAN
  /\ job \in [Contexts -> Jobs \cup {None}]
  /\ phase \in [Sessions -> {"waiting", "open", "closed"}]
  /\ reading \subseteq Sessions
  /\ data \subseteq Sessions
  /\ deaf \subseteq Sessions
  /\ freed \subseteq Sessions
  /\ count \in Int
  /\ raced \subseteq Sessions

\* run() has started the first accept and the threads.
Init ==
  /\ arrived = 0 /\ listening = 1 /\ accepting = TRUE
  /\ job = [c \in Contexts |-> None]
  /\ phase = [s \in Sessions |-> "waiting"]
  /\ reading = {} /\ data = {} /\ deaf = {} /\ freed = {}
  /\ count = 0 /\ raced = {}

\* The thread of context c can take the next handler.
Idle(c) == job[c] = None

Does(c, s, task) == job[c] = [session |-> s, task |-> task]

Begin(c, s, task) == job' = [job EXCEPT ![c] = [session |-> s, task |-> task]]
End(c) == job' = [job EXCEPT ![c] = None]

\* The accept handler is inside of start() for session s.
Starting(s) == \E task \in {"connect", "undo"} : Does(Acceptor, s, task)

-----------------------------------------------------------------------------
(* The acceptor's thread: the accept handler and start().                  *)

\* start_acceptor(): the next session, and an accept for it.
StartAcceptor ==
  /\ listening' = listening + 1
  /\ accepting' = TRUE

\* A client is accepted; start() counts the session, arms its heartbeat and
\* begins to connect its targets.
Accept ==
  /\ Idle(Acceptor) /\ accepting
  /\ listening <= arrived
  /\ accepting' = FALSE
  /\ phase' = [phase EXCEPT ![listening] = "open"]
  /\ count' = count + 1
  /\ Begin(Acceptor, listening, "connect")
  /\ UNCHANGED <<arrived, listening, reading, data, deaf, freed, raced>>

\* The accept fails: the session is given up.
AcceptFails ==
  /\ Idle(Acceptor) /\ accepting
  /\ listening <= arrived
  /\ freed' = freed \cup {listening}
  /\ StartAcceptor
  /\ UNCHANGED <<arrived, job, phase, reading, data, deaf, count, raced>>

\* Variant of Connected: the targets are connected, and nothing is read.
Connected_Silent ==
  /\ Does(Acceptor, listening, "connect")
  /\ End(Acceptor)
  /\ StartAcceptor
  /\ UNCHANGED <<arrived, phase, reading, data, deaf, freed, count, raced>>

\* The blocking connects have succeeded: start() reads all sockets, which fails
\* at once on a session that was closed meanwhile.
Connected ==
  /\ Does(Acceptor, listening, "connect")
  /\ End(Acceptor)
  /\ reading' = reading \cup {listening}
  /\ StartAcceptor
  /\ UNCHANGED <<arrived, phase, data, deaf, freed, count, raced>>

\* Variant of ConnectFails: the exception leaves start() for a session that was
\* closed meanwhile, past start_acceptor().
ConnectFails_StopsAccepting ==
  /\ Does(Acceptor, listening, "connect")
  /\ IF phase[listening] = "open"
     THEN Begin(Acceptor, listening, "undo") /\ UNCHANGED <<listening, accepting>>
     ELSE End(Acceptor) /\ UNCHANGED <<listening, accepting>>
  /\ UNCHANGED <<arrived, phase, reading, data, deaf, freed, count, raced>>

\* A blocking connect fails: close(), which does nothing if closed_ is set.
ConnectFails ==
  /\ Does(Acceptor, listening, "connect")
  /\ IF phase[listening] = "open"
     THEN Begin(Acceptor, listening, "undo") /\ UNCHANGED <<listening, accepting>>
     ELSE End(Acceptor) /\ StartAcceptor
  /\ UNCHANGED <<arrived, phase, reading, data, deaf, freed, count, raced>>

\* What close() does once it has found closed_ false, also when the other thread
\* has closed the session since.
Close(s) ==
  /\ phase' = [phase EXCEPT ![s] = "closed"]
  /\ count' = count - 1
  /\ raced' = IF phase[s] = "closed" THEN raced \cup {s} ELSE raced

\* Variant of CloseOnAcceptor: connect_target_server() returns true all the same,
\* and start() goes on to read.
CloseOnAcceptor_ReadsOn ==
  /\ Does(Acceptor, listening, "undo")
  /\ Close(listening)
  /\ End(Acceptor)
  /\ reading' = reading \cup {listening}
  /\ StartAcceptor
  /\ UNCHANGED <<arrived, data, deaf, freed>>

\* close() on the acceptor's thread.
CloseOnAcceptor ==
  /\ Does(Acceptor, listening, "undo")
  /\ Close(listening)
  /\ End(Acceptor)
  /\ StartAcceptor
  /\ UNCHANGED <<arrived, reading, data, deaf, freed>>

-----------------------------------------------------------------------------
(* The thread of a session's context.                                      *)

\* A handler begins to write what session s has read.
BeginRelay(s) ==
  /\ Idle(Home(s))
  /\ phase[s] = "open" /\ s \in reading /\ s \in data
  /\ data' = data \ {s}
  /\ Begin(Home(s), s, "relay")
  /\ UNCHANGED <<arrived, listening, accepting, phase, reading, deaf, freed,
                 count, raced>>

\* Its last blocking write returns.
EndRelay(s) ==
  /\ Does(Home(s), s, "relay") /\ s \notin deaf
  /\ End(Home(s))
  /\ UNCHANGED <<arrived, listening, accepting, phase, reading, data, deaf, freed,
                 count, raced>>

\* The heartbeat has expired, or a read has ended: close() passes its test.
BeginClose(s) ==
  /\ Idle(Home(s))
  /\ phase[s] = "open"
  /\ Begin(Home(s), s, "close")
  /\ UNCHANGED <<arrived, listening, accepting, phase, reading, data, deaf, freed,
                 count, raced>>

\* Variant of CloseOnWorker: the session leaves without remove_connection().
CloseOnWorker_Uncounted(s) ==
  /\ Does(Home(s), s, "close")
  /\ phase' = [phase EXCEPT ![s] = "closed"]
  /\ End(Home(s))
  /\ UNCHANGED <<arrived, listening, accepting, reading, data, deaf, freed,
                 count, raced>>

CloseOnWorker(s) ==
  /\ Does(Home(s), s, "close")
  /\ Close(s)
  /\ End(Home(s))
  /\ UNCHANGED <<arrived, listening, accepting, reading, data, deaf, freed>>

\* No thread is inside of a handler of session s.
Resting(s) == \A c \in Contexts : job[c].session # s

\* Variant of Free: a session without a pending read is let go.
Free_Unread(s) ==
  /\ phase[s] # "waiting" /\ s \notin freed /\ s \notin data
  /\ Resting(s)
  /\ freed' = freed \cup {s}
  /\ UNCHANGED <<arrived, listening, accepting, job, phase, reading, data, deaf,
                 count, raced>>

\* The last heartbeat wait of a closed session has been handled, or its accept
\* handler has returned since.
Free(s) ==
  /\ phase[s] = "closed" /\ s \notin freed
  /\ Resting(s)
  /\ freed' = freed \cup {s}
  /\ UNCHANGED <<arrived, listening, accepting, job, phase, reading, data, deaf,
                 count, raced>>

-----------------------------------------------------------------------------
(* Clients and targets.                                                    *)

ClientArrives ==
  /\ arrived < MaxSessions
  /\ arrived' = arrived + 1
  /\ UNCHANGED <<listening, accepting, job, phase, reading, data, deaf, freed,
                 count, raced>>

\* A peer of an open session sends something.
DataArrives(s) ==
  /\ phase[s] = "open" /\ s \notin data
  /\ data' = data \cup {s}
  /\ UNCHANGED <<arrived, listening, accepting, job, phase, reading, deaf, freed,
                 count, raced>>

\* A peer of an open session stops reading, or goes on, or leaves.
TurnsDeaf(s) ==
  /\ phase[s] = "open" /\ s \notin deaf
  /\ deaf' = deaf \cup {s}
  /\ UNCHANGED <<arrived, listening, accepting, job, phase, reading, data, freed,
                 count, raced>>

Relents(s) ==
  /\ s \in deaf
  /\ deaf' = deaf \ {s}
  /\ UNCHANGED <<arrived, listening, accepting, job, phase, reading, data, freed,
                 count, raced>>

AcceptorStep == Accept \/ AcceptFails \/ Connected \/ ConnectFails \/ CloseOnAcceptor

SessionStep(s) ==
  BeginRelay(s) \/ EndRelay(s) \/ BeginClose(s) \/ CloseOnWorker(s) \/ Free(s)

PeerStep(s) == DataArrives(s) \/ TurnsDeaf(s) \/ Relents(s)

Next ==
  \/ AcceptorStep
  \/ ClientArrives
  \/ \E s \in Sessions : SessionStep(s) \/ PeerStep(s)

Spec == Init /\ [][Next]_vars

-----------------------------------------------------------------------------
(* Fairness.  Threads run; a blocking connect returns, since TCP gives up; *)
(* a blocking write returns if the peer reads; an io_context serves what   *)
(* is ready in turn, so nothing that is ready again and again is passed    *)
(* over (SF).  Nobody has to connect, to send, to read or to hang up.      *)

Fairness ==
  /\ SF_vars(Accept \/ AcceptFails)
  /\ WF_vars(Connected \/ ConnectFails)
  /\ WF_vars(CloseOnAcceptor)
  /\ \A s \in Sessions :
       /\ SF_vars(BeginRelay(s))
       /\ WF_vars(EndRelay(s))
       /\ WF_vars(CloseOnWorker(s))

FairSpec == Spec /\ Fairness

-----------------------------------------------------------------------------
(* Safety.                                                                 *)

Open == {s \in Sessions : phase[s] = "open"}

\* The count that the statistics report is the number of open sessions, short by
\* one for every session that both threads closed (tcp_session.cpp:24, 280-290).
CountIsOpen == count = Cardinality(Open) - Cardinality(raced)

\* A session that shares the acceptor's context is not closed by two threads, nor
\* is one whose targets were connected: the race needs a failed connect and a
\* thread of its own (tcp_session.cpp:62, 261).
RacesNeedFailedConnect ==
  \A s \in raced : Home(s) # Acceptor /\ s \notin reading

Life(s) == INSTANCE SessionLife WITH
  phase <- phase[s], alive <- s \notin freed, relaying <- Does(Home(s), s, "relay")

\* Every session lives as SessionLife promises, whatever the others do.  This is
\* Life(s)!Spec for all s, in the form TLC takes.
LivesSpec ==
  /\ \A s \in Sessions : Life(s)!Init
  /\ [][\A s \in Sessions : [Life(s)!Next]_(Life(s)!vars)]_vars

-----------------------------------------------------------------------------
(* Liveness.                                                               *)

\* A session of context c is in a write to a peer that does not read.
Blocked(c) == \E s \in deaf : Does(c, s, "relay")

\* Every client is accepted, or given up by a failed accept, however slow or
\* broken the targets of those before it are.  One thing can prevent it: a
\* session that the round robin put on the acceptor's context and whose peer does
\* not read (tcp_session.cpp:42, tcp_session_manager.cpp:39-47).
ClientsAreAccepted ==
  \A n \in Sessions :
    arrived >= n ~> listening > n \/ phase[n] # "waiting" \/ Blocked(Acceptor)

\* Data that has arrived is relayed, unless the session is closed or a session of
\* the same context does not get its data off: the other contexts do not matter
\* (tcp_session.cpp:82-99, tcp_socket.cpp:43).
DataIsRelayed ==
  \A s \in Sessions : s \in data ~> s \notin data \/ phase[s] = "closed" \/ Blocked(Home(s))
=============================================================================
