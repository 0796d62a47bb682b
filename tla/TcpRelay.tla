------------------------------ MODULE TcpRelay ------------------------------
(***************************************************************************)
(* The data path of one tcp_session whose start() has returned: what the   *)
(* peers of its sockets send, the handlers that read it into buffer_ and   *)
(* write it on with blocking writes, and what the peers receive.           *)
(*                                                                         *)
(* What the client sends goes to every target; what a target sends goes to *)
(* the client.  All handlers of the session run on one thread, and start   *)
(* the next read of their socket only when they have written everything    *)
(* (TcpSession), so every socket has a read outstanding when the thread is *)
(* idle.                                                                   *)
(*                                                                         *)
(* A byte is known by its sender and its place in the sender's stream.     *)
(* Between the proxy and a peer there is room for a few bytes in each      *)
(* direction: what the kernels on both sides buffer.                       *)
(***************************************************************************)
EXTENDS Integers, Sequences, FiniteSets

CONSTANTS
  NumTargets,     \* how many forward addresses the remote configuration lists
  BufferSize,     \* tcp_socket::buffer_size
  InWindow,       \* bytes each connection takes from its peer ahead of the reads
  OutWindow,      \* bytes a connection takes from a write ahead of its peer
  MayWriteFirst,  \* the peers that may send everything before they read
  MaxBytes,       \* bound: how many bytes the peer of each socket sends
  MaxFailures     \* bound: sockets a write fails on although the peer is there

Client  == 0
Targets == 1..NumTargets
Sockets == {Client} \cup Targets
Nobody  == -1

ASSUME NumTargetsAssumption    == NumTargets \in Nat \ {0}
ASSUME BufferSizeAssumption    == BufferSize \in Nat \ {0}
ASSUME WindowAssumption        ==
  InWindow \in [Sockets -> Nat \ {0}] /\ OutWindow \in Nat \ {0}
ASSUME MayWriteFirstAssumption == MayWriteFirst \subseteq Sockets
ASSUME MaxBytesAssumption      == MaxBytes \in [Sockets -> Nat]

\* Where the data of socket s is written to, in the order of the loop.
Dests(s) == IF s = Client THEN Targets ELSE {Client}

VARIABLES
  from,         \* the socket whose read handler runs, or Nobody
  cursor,       \* the socket that handler writes to
  chunk,        \* how many bytes it found in buffer_
  offset,       \* how many of them the write to cursor has got rid of
  closed,       \* closed_
  sent,         \* how many bytes each peer has sent
  read,         \* how many of them handlers of the session were given
  network,      \* bytes on their way to each peer
  delivered,    \* history: the last byte of each sender each peer received
  peer,         \* each peer: up, finished (sends no more) or gone
  writesFirst,  \* the peers that read nothing until they have sent everything
  failed        \* history: the sockets a write failed on

handlerVars == <<from, cursor, chunk, offset>>
streamVars  == <<sent, read, network, delivered>>
peerVars    == <<peer, writesFirst>>
vars == <<handlerVars, closed, streamVars, peerVars, failed>>

Byte == [src : Sockets, pos : Nat]

TypeOK ==
  /\ from \in Sockets \cup {Nobody}
  /\ cursor \in Sockets
  /\ chunk \in 0..BufferSize
  /\ offset \in Nat /\ offset <= chunk
  /\ closed \in BOOLEAN
  /\ sent \in [Sockets -> Nat]
  /\ read \in [Sockets -> Nat]
  /\ network \in [Sockets -> Seq(Byte)]
  /\ delivered \in [Sockets -> [Sockets -> Nat]]
  /\ peer \in [Sockets -> {"up", "finished", "gone"}]
  /\ writesFirst \subseteq Sockets
  /\ failed \subseteq Sockets

\* start() has returned: all sockets are connected and being read.
Init ==
  /\ from = Nobody /\ cursor = 0 /\ chunk = 0 /\ offset = 0
  /\ closed = FALSE
  /\ sent = [s \in Sockets |-> 0]
  /\ read = [s \in Sockets |-> 0]
  /\ network = [s \in Sockets |-> <<>>]
  /\ delivered = [d \in Sockets |-> [s \in Sockets |-> 0]]
  /\ peer = [s \in Sockets |-> "up"]
  /\ writesFirst \in SUBSET MayWriteFirst
  /\ failed = {}

Idle == from = Nobody

\* A peer that has more to send before it reads again.
WantsToWrite(s) == s \in writesFirst /\ peer[s] = "up" /\ sent[s] < MaxBytes[s]

-----------------------------------------------------------------------------
(* The session's thread.  A handler that runs is in a write to cursor.     *)

\* A read of socket s completes with data and its handler begins: the client's
\* calls send_to_target(), a target's calls send_to_client().
Receive(s) ==
  /\ Idle /\ ~closed
  /\ peer[s] # "gone"
  /\ \E n \in 1..BufferSize :
       /\ n <= sent[s] - read[s]
       /\ chunk' = n
       /\ read' = [read EXCEPT ![s] = @ + n]
  /\ from' = s
  /\ cursor' = IF s = Client THEN 1 ELSE Client
  /\ offset' = 0
  /\ UNCHANGED <<closed, sent, network, delivered, peerVars, failed>>

\* Variant of NextWrite: the first target uses the buffer up, and the next one
\* gets what is left of it.
NextWrite_UsedUp ==
  IF cursor + 1 \in Dests(from)
  THEN cursor' = cursor + 1 /\ UNCHANGED <<from, chunk, offset>>
  ELSE from' = Nobody /\ cursor' = 0 /\ chunk' = 0 /\ offset' = 0

\* The write has returned.  The loop goes on to the next target; after the last
\* one, and after the client, the handler starts the next read of its socket.
NextWrite ==
  IF cursor + 1 \in Dests(from)
  THEN /\ cursor' = cursor + 1 /\ offset' = 0
       /\ UNCHANGED <<from, chunk>>
  ELSE from' = Nobody /\ cursor' = 0 /\ chunk' = 0 /\ offset' = 0

\* One byte of the buffer goes to the connection, which has room for it.
Transmit ==
  /\ ~Idle
  /\ peer[cursor] # "gone"
  /\ Len(network[cursor]) < OutWindow
  /\ network' = [network EXCEPT ![cursor] =
       Append(@, [src |-> from, pos |-> read[from] - chunk + offset + 1])]

\* The blocking write hands over one more byte, and returns after the last one.
WriteByte ==
  /\ Transmit
  /\ IF offset + 1 < chunk
     THEN offset' = offset + 1 /\ UNCHANGED <<from, cursor, chunk>>
     ELSE NextWrite
  /\ UNCHANGED <<closed, sent, read, delivered, peerVars, failed>>

\* A write may fail because the peer is gone, or for a passing reason.
MayFail ==
  /\ ~Idle
  /\ peer[cursor] = "gone" \/ Cardinality(failed) < MaxFailures
  /\ failed' = failed \cup {cursor}

\* Variant of WriteFails: an error ends send_to_target().
WriteFails_Returns ==
  /\ MayFail
  /\ from' = Nobody /\ cursor' = 0 /\ chunk' = 0 /\ offset' = 0
  /\ UNCHANGED <<closed, streamVars, peerVars>>

\* Variant of WriteFails: the rest is written again until that succeeds.
WriteFails_Retries ==
  /\ MayFail
  /\ UNCHANGED <<handlerVars, closed, streamVars, peerVars>>

\* The write returns an error.  It is logged, and the loop goes on.
WriteFails ==
  /\ MayFail
  /\ NextWrite
  /\ UNCHANGED <<closed, streamVars, peerVars>>

\* A read of socket s completes with end of file, when everything has been
\* read, or with an error: close().
ReadEnds(s) ==
  /\ Idle /\ ~closed
  /\ \/ peer[s] = "finished" /\ read[s] = sent[s]
     \/ peer[s] = "gone"
  /\ closed' = TRUE
  /\ UNCHANGED <<handlerVars, streamVars, peerVars, failed>>

\* Variant of HeartbeatCloses: the timer has a thread of its own.
HeartbeatCloses_Anytime ==
  /\ ~closed
  /\ closed' = TRUE
  /\ UNCHANGED <<handlerVars, streamVars, peerVars, failed>>

\* The heartbeat expired; its handler closes the session.
HeartbeatCloses ==
  /\ Idle /\ ~closed
  /\ closed' = TRUE
  /\ UNCHANGED <<handlerVars, streamVars, peerVars, failed>>

\* A socket that is closed, or gets more data when it was, resets the
\* connection if there is data nobody read: bytes on their way to the peer may
\* be lost.
ResetOnClose(s) ==
  /\ closed
  /\ peer[s] # "gone" /\ read[s] < sent[s]
  /\ peer' = [peer EXCEPT ![s] = "gone"]
  /\ network' = [network EXCEPT ![s] = <<>>]
  /\ UNCHANGED <<handlerVars, closed, sent, read, delivered, writesFirst, failed>>

-----------------------------------------------------------------------------
(* The peers.                                                              *)

\* One more byte, if the connection has room for it.
PeerSends(s) ==
  /\ peer[s] = "up"
  /\ sent[s] < MaxBytes[s]
  /\ sent[s] - read[s] < InWindow[s]
  /\ sent' = [sent EXCEPT ![s] = @ + 1]
  /\ UNCHANGED <<handlerVars, closed, read, network, delivered, peerVars, failed>>

\* The peer of d takes a byte from the connection.
PeerReads(d) ==
  /\ peer[d] # "gone" /\ ~WantsToWrite(d)
  /\ network[d] # <<>>
  /\ delivered' = [delivered EXCEPT ![d][Head(network[d]).src] = Head(network[d]).pos]
  /\ network' = [network EXCEPT ![d] = Tail(@)]
  /\ UNCHANGED <<handlerVars, closed, sent, read, peerVars, failed>>

\* The peer shuts its sending side down and goes on reading.
PeerFinishes(s) ==
  /\ peer[s] = "up" /\ ~WantsToWrite(s)
  /\ peer' = [peer EXCEPT ![s] = "finished"]
  /\ UNCHANGED <<handlerVars, closed, streamVars, writesFirst, failed>>

\* The peer is gone, and what was on its way to it is lost.
PeerLeaves(s) ==
  /\ peer[s] # "gone"
  /\ peer' = [peer EXCEPT ![s] = "gone"]
  /\ network' = [network EXCEPT ![s] = <<>>]
  /\ UNCHANGED <<handlerVars, closed, sent, read, delivered, writesFirst, failed>>

SessionStep ==
  \/ \E s \in Sockets : Receive(s) \/ ReadEnds(s)
  \/ WriteByte \/ WriteFails
  \/ HeartbeatCloses

PeerStep ==
  \E s \in Sockets :
    \/ PeerSends(s) \/ PeerReads(s) \/ PeerFinishes(s) \/ PeerLeaves(s)
    \/ ResetOnClose(s)

Next == SessionStep \/ PeerStep

Spec == Init /\ [][Next]_vars

-----------------------------------------------------------------------------
(* Fairness.  The thread runs; an io_context serves what is ready in turn, *)
(* so a read that has data whenever the thread is idle is dispatched (SF); *)
(* a write to a peer that is gone returns; peers read what they are sent,  *)
(* and those that write first write on until they are through.  Nobody has *)
(* to send, to hang up, or to let a write fail.                            *)

Fairness ==
  /\ WF_vars(WriteByte)
  /\ WF_vars(WriteFails /\ peer[cursor] = "gone")
  /\ \A s \in Sockets :
       /\ SF_vars(Receive(s))
       /\ WF_vars(PeerReads(s))
       /\ WF_vars(WantsToWrite(s) /\ PeerSends(s))
       /\ WF_vars(ResetOnClose(s))

FairSpec == Spec /\ Fairness

-----------------------------------------------------------------------------
(* Safety.                                                                 *)

Lost(d) == d \in failed \/ peer[d] = "gone"

\* When no handler runs, and when the session is closed, every byte that was
\* read has reached every peer it is for, or is on its way: close() cannot cut a
\* packet short, the client's data goes to all targets alike, and a write that
\* failed for one target takes nothing from the others (tcp_session.cpp:208-241).
ReadIsWritten ==
  Idle \/ closed =>
    \A s \in Sockets : \A d \in Dests(s) :
      ~Lost(d) =>
        \A p \in (delivered[d][s] + 1)..read[s] :
          \E i \in DOMAIN network[d] : network[d][i] = [src |-> s, pos |-> p]

Stream(s, d) == INSTANCE ByteStream WITH
  sent <- sent[s], delivered <- delivered[d][s], sound <- d \notin failed

\* Each peer receives what each sender it listens to sent, in order, without
\* repetition or omission, until a write to it fails (tcp_session.cpp:167-242,
\* tcp_socket.cpp:43).  This is Stream(s, d)!Spec for all s and d, in the form
\* TLC takes: in each step, every stream takes a step of ByteStream or none.
StreamsSpec ==
  /\ \A s \in Sockets : \A d \in Dests(s) : Stream(s, d)!Init
  /\ [][\A s \in Sockets : \A d \in Dests(s) :
          [Stream(s, d)!Next]_(Stream(s, d)!vars)]_vars

-----------------------------------------------------------------------------
(* Stalling.                                                               *)

\* The session's thread waits for d to read, and d waits for it to read.
Stalled(d) ==
  /\ ~closed
  /\ ~Idle /\ cursor = d
  /\ Len(network[d]) = OutWindow
  /\ WantsToWrite(d)
  /\ sent[d] - read[d] = InWindow[d]

\* Nothing inside the proxy ends such a wait: the heartbeat does not, nor do the
\* other peers, whatever they do.  It lasts until the connection to d fails
\* (tcp_socket.cpp:43).
StallLasts ==
  [][\A d \in Sockets : Stalled(d) => Stalled(d)' \/ WriteFails \/ PeerLeaves(d)]_vars

\* What a peer sends arrives where it belongs, also when the session is closed
\* after it was read, unless a connection on the way is lost or the session stalls.
\* Data that nobody reads any more, the session being closed, costs its sender the
\* connection: a sender that is still connected has got rid of everything
\* (tcp_session.cpp:70-242, tcp_socket.cpp:28-29).
SentIsDelivered ==
  \A s \in Sockets : \A d \in Dests(s) :
    delivered[d][s] < sent[s] ~>
      \/ delivered[d][s] = sent[s]
      \/ delivered[d][s] = read[s] /\ peer[s] = "gone"
      \/ Lost(d)
      \/ \E e \in Sockets : Stalled(e)
=============================================================================
