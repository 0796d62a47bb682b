--------------------------- MODULE TcpRelayProofs ---------------------------
(***************************************************************************)
(* Proofs about TcpRelay, for every number of targets, size of the buffer  *)
(* and of the windows, and length of the streams.  The inductive invariant *)
(* IInv says how far each stream has been written (Written) and that the   *)
(* bytes between delivered and written are on their way, in order.         *)
(***************************************************************************)
EXTENDS TcpRelay, TLAPS

\* How many bytes of s have been written to d, or given up for d.
Written(s, d) ==
  IF from # s \/ d < cursor THEN read[s]
  ELSE IF d = cursor THEN read[s] - chunk + offset
  ELSE read[s] - chunk

\* A handler that runs is in the middle of a write of bytes that were read.
HandlerWrites ==
  ~Idle => /\ cursor \in Dests(from)
           /\ offset < chunk
           /\ chunk <= read[from]

ClosedWhenIdle == closed => Idle

ReadWasSent == \A s \in Sockets : read[s] <= sent[s]

DeliveredWasWritten ==
  \A s \in Sockets : \A d \in Dests(s) : delivered[d][s] <= Written(s, d)

\* What is on its way to d comes from a sender that writes to d, was written and
\* has not been delivered.
QueueBounds ==
  \A d \in Sockets : \A i \in 1..Len(network[d]) :
    /\ d \in Dests(network[d][i].src)
    /\ delivered[d][network[d][i].src] < network[d][i].pos
    /\ network[d][i].pos <= Written(network[d][i].src, d)

\* Each sender's bytes are in the order of its stream.
QueueInOrder ==
  \A d \in Sockets : \A i, j \in 1..Len(network[d]) :
    i < j /\ network[d][i].src = network[d][j].src
      => network[d][i].pos < network[d][j].pos

\* Nothing that was written is missing, unless the connection is lost.
QueueComplete ==
  \A s \in Sockets : \A d \in Dests(s) :
    ~Lost(d) =>
      \A p \in (delivered[d][s] + 1)..Written(s, d) :
        \E i \in 1..Len(network[d]) : network[d][i] = [src |-> s, pos |-> p]

IInv ==
  /\ TypeOK
  /\ HandlerWrites
  /\ ClosedWhenIdle
  /\ ReadWasSent
  /\ DeliveredWasWritten
  /\ QueueBounds
  /\ QueueInOrder
  /\ QueueComplete

-----------------------------------------------------------------------------
(* Type correctness.                                                       *)

\* The variables have their types when start() returns.
LEMMA InitTypeOK == Init => TypeOK
<1> SUFFICES ASSUME Init PROVE TypeOK
  OBVIOUS
<1>1. cursor \in Sockets /\ chunk \in 0..BufferSize
  BY BufferSizeAssumption DEF Init, Sockets, Client
<1>2. network \in [Sockets -> Seq(Byte)]
  <2>1. <<>> \in Seq(Byte)
    OBVIOUS
  <2> QED
    BY <2>1 DEF Init
<1>3. writesFirst \subseteq Sockets
  BY MayWriteFirstAssumption DEF Init
<1> QED
  BY <1>1, <1>2, <1>3 DEF Init, TypeOK

\* Where a write ends, the next one is to a socket, or the handler has ended.
LEMMA NextWriteTypeOK ==
  ASSUME TypeOK, ~Idle, NextWrite
  PROVE  /\ from' \in Sockets \cup {Nobody}
         /\ cursor' \in Sockets
         /\ chunk' \in 0..BufferSize
         /\ offset' \in Nat /\ offset' <= chunk'
<1>1. CASE cursor + 1 \in Dests(from)
  <2>1. cursor + 1 \in Sockets
    BY <1>1 DEF Dests, Sockets
  <2> QED
    BY <1>1, <2>1, BufferSizeAssumption DEF TypeOK, NextWrite
<1>2. CASE cursor + 1 \notin Dests(from)
  BY <1>2, BufferSizeAssumption DEF NextWrite, Sockets, Client
<1> QED
  BY <1>1, <1>2

\* Every step keeps the types.
LEMMA StepTypeOK == TypeOK /\ HandlerWrites /\ [Next]_vars => TypeOK'
<1> SUFFICES ASSUME TypeOK, HandlerWrites, [Next]_vars PROVE TypeOK'
  OBVIOUS
<1> USE NumTargetsAssumption, BufferSizeAssumption
<1>1. ASSUME NEW s \in Sockets, Receive(s) PROVE TypeOK'
  <2>1. PICK n \in 1..BufferSize : chunk' = n /\ read' = [read EXCEPT ![s] = @ + n]
    BY <1>1 DEF Receive
  <2>2. read' \in [Sockets -> Nat]
    <3>1. read[s] + n \in Nat
      <4>1. read[s] \in Nat
        BY DEF TypeOK
      <4>2. n \in Nat
        OBVIOUS
      <4> QED
        BY <4>1, <4>2
    <3> QED
      BY <2>1, <3>1 DEF TypeOK
  <2>3. cursor' \in Sockets
    BY <1>1 DEF Receive, Sockets, Client, Targets
  <2> QED
    <3>1. chunk' \in 0..BufferSize /\ 0 <= chunk'
      BY <2>1
    <3> QED
      BY <1>1, <2>2, <2>3, <3>1 DEF TypeOK, Receive, peerVars
<1>2. ASSUME NEW s \in Sockets, ReadEnds(s) PROVE TypeOK'
  BY <1>2 DEF TypeOK, ReadEnds, handlerVars, streamVars, peerVars
<1>3. CASE WriteByte
  <2>1. network' \in [Sockets -> Seq(Byte)]
    <3>1. from \in Sockets /\ cursor \in Sockets
      BY <1>3 DEF WriteByte, Transmit, TypeOK, Idle
    <3>2. [src |-> from, pos |-> read[from] - chunk + offset + 1] \in Byte
      BY SMTT(20), <1>3, <3>1 DEF WriteByte, Transmit, TypeOK, HandlerWrites, Byte
    <3> QED
      BY <1>3, <3>1, <3>2 DEF WriteByte, Transmit, TypeOK
  <2>2. /\ from' \in Sockets \cup {Nobody}
        /\ cursor' \in Sockets
        /\ chunk' \in 0..BufferSize
        /\ offset' \in Nat /\ offset' <= chunk'
    <3>1. CASE offset + 1 < chunk
      BY <1>3, <3>1 DEF WriteByte, TypeOK
    <3>2. CASE ~(offset + 1 < chunk)
      BY <1>3, <3>2, NextWriteTypeOK DEF WriteByte, Transmit
    <3> QED
      BY <3>1, <3>2
  <2> QED
    BY <1>3, <2>1, <2>2 DEF WriteByte, peerVars, TypeOK
<1>4. CASE WriteFails
  BY <1>4, NextWriteTypeOK DEF WriteFails, MayFail, streamVars, peerVars, TypeOK
<1>5. CASE HeartbeatCloses
  BY <1>5 DEF TypeOK, HeartbeatCloses, handlerVars, streamVars, peerVars
<1>6. ASSUME NEW s \in Sockets, PeerSends(s) PROVE TypeOK'
  BY SMTT(20), <1>6 DEF TypeOK, PeerSends, handlerVars, peerVars
<1>7. ASSUME NEW d \in Sockets, PeerReads(d) PROVE TypeOK'
  <2>1. Head(network[d]) \in Byte /\ Tail(network[d]) \in Seq(Byte)
    BY <1>7 DEF TypeOK, PeerReads
  <2> QED
    BY <1>7, <2>1 DEF TypeOK, PeerReads, handlerVars, peerVars, Byte
<1>8. ASSUME NEW s \in Sockets, PeerFinishes(s) PROVE TypeOK'
  BY <1>8 DEF TypeOK, PeerFinishes, handlerVars, streamVars
<1>9. ASSUME NEW s \in Sockets, PeerLeaves(s) PROVE TypeOK'
  BY <1>9 DEF TypeOK, PeerLeaves, handlerVars
<1>10. ASSUME NEW s \in Sockets, ResetOnClose(s) PROVE TypeOK'
  BY <1>10 DEF TypeOK, ResetOnClose, handlerVars
<1>11. CASE UNCHANGED vars
  BY <1>11 DEF TypeOK, vars, handlerVars, streamVars, peerVars
<1> QED
  BY <1>1, <1>2, <1>3, <1>4, <1>5, <1>6, <1>7, <1>8, <1>9, <1>10, <1>11
  DEF Next, SessionStep, PeerStep

-----------------------------------------------------------------------------
(* How far the streams have been written.                                  *)

\* A write that ends gives its destination all that was read, and changes
\* nothing for the others; a handler that goes on is in its next write.
LEMMA NextWriteWritten ==
  ASSUME TypeOK, HandlerWrites, ~Idle, NextWrite, read' = read
  PROVE  /\ HandlerWrites'
         /\ \A s \in Sockets : \A d \in Dests(s) :
              Written(s, d)' = IF s = from /\ d = cursor THEN read[s] ELSE Written(s, d)
<1>1. /\ from \in Sockets /\ cursor \in Int /\ cursor \in Dests(from)
      /\ offset < chunk /\ chunk <= read[from] /\ read[from] \in Nat
      /\ chunk \in Nat /\ offset \in Nat
  BY NumTargetsAssumption, BufferSizeAssumption
  DEF TypeOK, HandlerWrites, Idle, Sockets, Client, Targets
<1>2. ASSUME NEW s \in Sockets, NEW d \in Dests(s) PROVE d \in Int
  BY NumTargetsAssumption DEF Dests, Sockets, Client, Targets
<1>3. CASE cursor + 1 \in Dests(from)
  <2>1. from' = from /\ cursor' = cursor + 1 /\ offset' = 0 /\ chunk' = chunk
    BY <1>3 DEF NextWrite
  <2>2. HandlerWrites'
    <3>1. cursor' \in Dests(from') /\ offset' < chunk' /\ chunk' <= read'[from']
      BY <1>1, <1>3, <2>1
    <3> QED
      BY <3>1 DEF HandlerWrites
  <2>3. ASSUME NEW s \in Sockets, NEW d \in Dests(s)
        PROVE  Written(s, d)' = IF s = from /\ d = cursor THEN read[s] ELSE Written(s, d)
    BY <1>1, <1>2, <2>1 DEF Written
  <2> QED
    BY <2>2, <2>3
<1>4. CASE cursor + 1 \notin Dests(from)
  <2>1. from' = Nobody /\ Nobody \notin Sockets
    BY <1>4, NumTargetsAssumption DEF NextWrite, Nobody, Sockets, Client, Targets
  <2>2. ASSUME NEW s \in Sockets, NEW d \in Dests(s)
        PROVE  Written(s, d)' = IF s = from /\ d = cursor THEN read[s] ELSE Written(s, d)
    <3>1. s = from /\ d # cursor => d < cursor
      BY <1>1, <1>4, NumTargetsAssumption DEF Dests, Client, Targets
    <3> QED
      BY <2>1, <3>1 DEF Written
  <2>3. HandlerWrites'
    BY <2>1 DEF HandlerWrites, Idle
  <2> QED
    BY <2>2, <2>3
<1> QED
  BY <1>3, <1>4

\* Before a write ends, part of the buffer is not yet written to cursor.
LEMMA WrittenTo ==
  ASSUME TypeOK, HandlerWrites, ~Idle
  PROVE  /\ from \in Sockets /\ cursor \in Sockets /\ cursor \in Dests(from)
         /\ Written(from, cursor) = read[from] - chunk + offset
         /\ Written(from, cursor) \in Nat
         /\ Written(from, cursor) + 1 \in 1..read[from]
<1>1. /\ from \in Sockets /\ cursor \in Sockets /\ cursor \in Dests(from)
      /\ offset < chunk /\ chunk <= read[from] /\ read[from] \in Nat
      /\ chunk \in Nat /\ offset \in Nat
  BY BufferSizeAssumption DEF TypeOK, HandlerWrites, Idle
<1>2. ~(cursor < cursor)
  BY <1>1, NumTargetsAssumption DEF Sockets, Client, Targets
<1> QED
  BY <1>1, <1>2 DEF Written

\* A stream is never written further than it was read.
LEMMA WrittenWasRead ==
  ASSUME TypeOK, HandlerWrites, NEW s \in Sockets, NEW d \in Dests(s)
  PROVE  Written(s, d) \in Nat /\ Written(s, d) <= read[s]
<1>1. read[s] \in Nat /\ chunk \in Nat /\ offset \in Nat /\ offset <= chunk
  BY BufferSizeAssumption DEF TypeOK
<1>2. from = s => chunk <= read[s]
  <2>1. Nobody \notin Sockets
    BY NumTargetsAssumption DEF Nobody, Sockets, Client, Targets
  <2> QED
    BY <2>1 DEF HandlerWrites, Idle
<1> QED
  BY <1>1, <1>2 DEF Written

-----------------------------------------------------------------------------
(* The inductive invariant.                                                *)

\* Nothing has been sent when start() returns.
LEMMA InitIInv == Init => IInv
<1> SUFFICES ASSUME Init PROVE IInv
  OBVIOUS
<1>1. TypeOK
  BY InitTypeOK
<1>2. HandlerWrites /\ ClosedWhenIdle
  BY DEF Init, HandlerWrites, ClosedWhenIdle, Idle
<1>3. ReadWasSent
  BY DEF Init, ReadWasSent
<1>4. Nobody \notin Sockets
  BY NumTargetsAssumption DEF Nobody, Sockets, Client, Targets
<1>5. ASSUME NEW s \in Sockets, NEW d \in Dests(s)
      PROVE  d \in Sockets /\ Written(s, d) = 0 /\ delivered[d][s] = 0
  <2>1. d \in Sockets
    BY DEF Dests, Sockets
  <2> QED
    BY <1>4, <2>1 DEF Init, Written
<1>6. DeliveredWasWritten
  BY <1>5 DEF DeliveredWasWritten
<1>7. QueueBounds /\ QueueInOrder
  BY DEF Init, QueueBounds, QueueInOrder
<1>8. QueueComplete
  BY <1>5 DEF QueueComplete
<1> QED
  BY <1>1, <1>2, <1>3, <1>6, <1>7, <1>8 DEF IInv

\* A handler that begins has written nothing of what it was given.
LEMMA ReceiveStep ==
  ASSUME IInv, NEW s \in Sockets, Receive(s)
  PROVE  /\ HandlerWrites' /\ ClosedWhenIdle' /\ ReadWasSent'
         /\ \A r \in Sockets : \A d \in Dests(r) : Written(r, d)' = Written(r, d)
<1>1. PICK n \in 1..BufferSize :
        n <= sent[s] - read[s] /\ chunk' = n /\ read' = [read EXCEPT ![s] = @ + n]
  BY DEF Receive
<1>2. /\ n \in Nat /\ 0 < n
      /\ \A r \in Sockets : read[r] \in Nat /\ sent[r] \in Nat
      /\ from = Nobody /\ from' = s /\ offset' = 0
      /\ sent' = sent /\ closed' = closed /\ ~closed
  BY BufferSizeAssumption DEF IInv, TypeOK, Receive, Idle
<1>3. cursor' = (IF s = Client THEN 1 ELSE Client) /\ cursor' \in Dests(s)
  BY NumTargetsAssumption DEF Receive, Dests, Targets
<1>4. read'[s] = read[s] + n /\ \A r \in Sockets : r # s => read'[r] = read[r]
  BY <1>1 DEF IInv, TypeOK
<1>5. Nobody \notin Sockets
  BY NumTargetsAssumption DEF Nobody, Sockets, Client, Targets
<1>6. HandlerWrites'
  BY <1>1, <1>2, <1>3, <1>4 DEF HandlerWrites
<1>7. ClosedWhenIdle'
  BY <1>2 DEF ClosedWhenIdle
<1>8. ReadWasSent'
  BY <1>1, <1>2, <1>4 DEF ReadWasSent, IInv
<1>9. ASSUME NEW r \in Sockets, NEW d \in Dests(r) PROVE Written(r, d)' = Written(r, d)
  <2>1. Written(r, d) = read[r]
    BY <1>2, <1>5 DEF Written
  <2>2. CASE r # s
    BY <1>2, <1>4, <2>1, <2>2 DEF Written
  <2>3. CASE r = s
    <3>1. ~(d < cursor')
      BY <1>3, <2>3, NumTargetsAssumption DEF Dests, Targets, Client
    <3> QED
      BY <1>1, <1>2, <1>4, <2>1, <2>3, <3>1 DEF Written
  <2> QED
    BY <2>2, <2>3
<1> QED
  BY <1>6, <1>7, <1>8, <1>9

\* The state of the streams depends on little: on how far they are written, on
\* what is on its way, and on which connections are lost.
LEMMA StreamsKept ==
  ASSUME IInv,
         \A s \in Sockets : \A d \in Dests(s) : Written(s, d)' = Written(s, d),
         network' = network, delivered' = delivered,
         \A d \in Sockets : Lost(d) => Lost(d)'
  PROVE  DeliveredWasWritten' /\ QueueBounds' /\ QueueInOrder' /\ QueueComplete'
<1>1. \A s \in Sockets : \A d \in Dests(s) : d \in Sockets
  BY DEF Dests, Sockets
<1>2. DeliveredWasWritten'
  BY <1>1 DEF IInv, DeliveredWasWritten
<1>3. \A d \in Sockets : \A i \in 1..Len(network[d]) : network[d][i].src \in Sockets
  <2> SUFFICES ASSUME NEW d \in Sockets, NEW i \in 1..Len(network[d])
               PROVE  network[d][i].src \in Sockets
    OBVIOUS
  <2>1. network[d][i] \in Byte
    BY DEF IInv, TypeOK
  <2> QED
    BY <2>1 DEF Byte
<1>4. QueueBounds'
  BY <1>3 DEF IInv, QueueBounds
<1>5. QueueInOrder'
  BY DEF IInv, QueueInOrder
<1>6. QueueComplete'
  BY <1>1 DEF IInv, QueueComplete
<1> QED
  BY <1>2, <1>4, <1>5, <1>6

\* What is known of a byte on its way.
LEMMA ByteOnItsWay ==
  ASSUME IInv, NEW d \in Sockets, NEW i \in 1..Len(network[d])
  PROVE  /\ network[d][i].src \in Sockets /\ network[d][i].pos \in Nat
         /\ d \in Dests(network[d][i].src)
         /\ delivered[d][network[d][i].src] \in Nat
         /\ delivered[d][network[d][i].src] < network[d][i].pos
         /\ network[d][i].pos <= Written(network[d][i].src, d)
<1>1. network[d][i] \in Byte
  BY DEF IInv, TypeOK
<1>2. network[d][i].src \in Sockets /\ network[d][i].pos \in Nat
  BY <1>1 DEF Byte
<1>3. delivered[d][network[d][i].src] \in Nat
  BY <1>2 DEF IInv, TypeOK
<1> QED
  BY <1>2, <1>3 DEF IInv, QueueBounds

\* The byte a write hands over is the next of its stream; everything else stays.
LEMMA WriteByteStep ==
  ASSUME IInv, WriteByte
  PROVE  HandlerWrites' /\ DeliveredWasWritten' /\ QueueBounds' /\ QueueInOrder'
         /\ QueueComplete'
<1> DEFINE b == [src |-> from, pos |-> Written(from, cursor) + 1]
<1>1. TypeOK /\ HandlerWrites /\ ~Idle
  BY DEF IInv, WriteByte, Transmit
<1>2. /\ from \in Sockets /\ cursor \in Sockets /\ cursor \in Dests(from)
      /\ Written(from, cursor) = read[from] - chunk + offset
      /\ Written(from, cursor) \in Nat
      /\ Written(from, cursor) + 1 \in 1..read[from]
  BY <1>1, WrittenTo
<1>3. /\ read' = read /\ delivered' = delivered /\ peer' = peer /\ failed' = failed
      /\ network' = [network EXCEPT ![cursor] = Append(@, b)]
  BY <1>2 DEF WriteByte, Transmit, peerVars
<1>4. /\ HandlerWrites'
      /\ \A s \in Sockets : \A d \in Dests(s) :
           Written(s, d)' = IF s = from /\ d = cursor THEN Written(s, d) + 1
                                                      ELSE Written(s, d)
  <2>1. /\ offset < chunk /\ chunk <= read[from] /\ read[from] \in Nat
        /\ chunk \in Nat /\ offset \in Nat
    BY <1>1, <1>2, BufferSizeAssumption DEF TypeOK, HandlerWrites
  <2>2. CASE offset + 1 < chunk
    <3>1. from' = from /\ cursor' = cursor /\ chunk' = chunk /\ offset' = offset + 1
      BY <2>2 DEF WriteByte
    <3>2. HandlerWrites'
      BY <1>2, <1>3, <2>1, <2>2, <3>1 DEF HandlerWrites
    <3>3. cursor \in Int
      BY <1>2, NumTargetsAssumption DEF Sockets, Client, Targets
    <3>4. ASSUME NEW s \in Sockets, NEW d \in Dests(s)
          PROVE  Written(s, d)' = IF s = from /\ d = cursor THEN Written(s, d) + 1
                                                            ELSE Written(s, d)
      <4>1. read[s] \in Nat
        BY <1>1 DEF TypeOK
      <4> QED
        BY <1>3, <2>1, <3>1, <3>3, <4>1 DEF Written
    <3> QED
      BY <3>2, <3>4
  <2>3. CASE ~(offset + 1 < chunk)
    <3>1. NextWrite
      BY <2>3 DEF WriteByte
    <3>2. /\ HandlerWrites'
          /\ \A s \in Sockets : \A d \in Dests(s) :
               Written(s, d)' = IF s = from /\ d = cursor THEN read[s] ELSE Written(s, d)
      BY <1>1, <1>3, <3>1, NextWriteWritten
    <3>3. read[from] = Written(from, cursor) + 1
      BY <1>2, <2>1, <2>3
    <3> QED
      BY <3>2, <3>3
  <2> QED
    BY <2>2, <2>3
<1>5. \A s \in Sockets : \A d \in Dests(s) :
        /\ d \in Sockets /\ delivered[d][s] \in Nat /\ Written(s, d) \in Nat
        /\ delivered[d][s] <= Written(s, d)
  BY <1>1, WrittenWasRead DEF IInv, TypeOK, DeliveredWasWritten, Dests, Sockets
<1>6. DeliveredWasWritten'
  BY <1>3, <1>4, <1>5 DEF DeliveredWasWritten
<1>7. /\ network[cursor] \in Seq(Byte)
      /\ Len(network[cursor]) \in Nat
      /\ Len(network'[cursor]) = Len(network[cursor]) + 1
      /\ network'[cursor][Len(network[cursor]) + 1] = b
      /\ \A i \in 1..Len(network[cursor]) : network'[cursor][i] = network[cursor][i]
      /\ \A d \in Sockets : d # cursor => network'[d] = network[d]
  BY SMTT(20), <1>1, <1>2, <1>3 DEF TypeOK
<1>8. QueueBounds'
  <2>1. ASSUME NEW d \in Sockets, NEW i \in 1..Len(network'[d])
        PROVE  \E s \in Sockets :
                 /\ network'[d][i].src = s
                 /\ d \in Dests(s)
                 /\ delivered[d][s] < network'[d][i].pos
                 /\ network'[d][i].pos <= Written(s, d)'
    <3>1. CASE d = cursor /\ i = Len(network[d]) + 1
      BY SMTT(20), <1>2, <1>4, <1>5, <1>7, <3>1
    <3>2. CASE ~(d = cursor /\ i = Len(network[d]) + 1)
      <4>1. i \in 1..Len(network[d]) /\ network'[d][i] = network[d][i]
        BY <1>7, <3>2
      <4>2. PICK s \in Sockets : s = network[d][i].src
        BY <4>1, ByteOnItsWay
      <4>3. /\ d \in Dests(s) /\ delivered[d][s] < network[d][i].pos
            /\ network[d][i].pos \in Nat /\ network[d][i].pos <= Written(s, d)
        BY <4>1, <4>2, ByteOnItsWay
      <4>4. network[d][i].pos <= Written(s, d)'
        BY <1>4, <1>5, <4>3
      <4> QED
        BY <4>1, <4>2, <4>3, <4>4
    <3> QED
      BY <3>1, <3>2
  <2> QED
    BY <1>3, <2>1 DEF QueueBounds
<1>9. QueueInOrder'
  <2> SUFFICES ASSUME NEW d \in Sockets, NEW i \in 1..Len(network'[d]),
                      NEW j \in 1..Len(network'[d]), i < j,
                      network'[d][i].src = network'[d][j].src
               PROVE  network'[d][i].pos < network'[d][j].pos
    BY DEF QueueInOrder
  <2>1. CASE d = cursor /\ j = Len(network[d]) + 1
    <3>1. i \in 1..Len(network[d]) /\ network'[d][i] = network[d][i]
      BY <1>7, <2>1
    <3> QED
      BY <1>2, <1>7, <2>1, <3>1, ByteOnItsWay
  <2>2. CASE ~(d = cursor /\ j = Len(network[d]) + 1)
    <3>1. /\ i \in 1..Len(network[d]) /\ network'[d][i] = network[d][i]
          /\ j \in 1..Len(network[d]) /\ network'[d][j] = network[d][j]
      BY SMTT(20), <1>7, <2>2
    <3> QED
      BY <3>1 DEF IInv, QueueInOrder
  <2> QED
    BY <2>1, <2>2
<1>10. QueueComplete'
  <2> SUFFICES ASSUME NEW s \in Sockets, NEW d \in Dests(s), ~Lost(d),
                      NEW p \in (delivered[d][s] + 1)..Written(s, d)'
               PROVE  \E i \in 1..Len(network'[d]) :
                        network'[d][i] = [src |-> s, pos |-> p]
    BY <1>3 DEF QueueComplete, Lost
  <2>1. CASE s = from /\ d = cursor /\ p = Written(s, d) + 1
    BY <1>7, <2>1
  <2>2. CASE ~(s = from /\ d = cursor /\ p = Written(s, d) + 1)
    <3>1. p \in (delivered[d][s] + 1)..Written(s, d)
      BY <1>4, <1>5, <2>2
    <3>2. PICK i \in 1..Len(network[d]) : network[d][i] = [src |-> s, pos |-> p]
      BY <3>1 DEF IInv, QueueComplete
    <3>3. i \in 1..Len(network'[d]) /\ network'[d][i] = network[d][i]
      BY <1>5, <1>7, <3>2
    <3> QED
      BY <3>2, <3>3
  <2> QED
    BY <2>1, <2>2
<1> QED
  BY <1>4, <1>6, <1>8, <1>9, <1>10

\* A write that fails gives up on the rest for its destination only.
LEMMA WriteFailsStep ==
  ASSUME IInv, WriteFails
  PROVE  HandlerWrites' /\ DeliveredWasWritten' /\ QueueBounds' /\ QueueInOrder'
         /\ QueueComplete'
<1>1. TypeOK /\ HandlerWrites /\ ~Idle /\ NextWrite
  BY DEF IInv, WriteFails, MayFail
<1>2. /\ read' = read /\ delivered' = delivered /\ network' = network /\ peer' = peer
      /\ failed' = failed \cup {cursor}
  BY DEF WriteFails, MayFail, streamVars, peerVars
<1>3. /\ HandlerWrites'
      /\ \A s \in Sockets : \A d \in Dests(s) :
           Written(s, d)' = IF s = from /\ d = cursor THEN read[s] ELSE Written(s, d)
  BY <1>1, <1>2, NextWriteWritten
<1>4. \A s \in Sockets : \A d \in Dests(s) :
        /\ d \in Sockets /\ delivered[d][s] \in Nat /\ Written(s, d) \in Nat
        /\ delivered[d][s] <= Written(s, d) /\ Written(s, d) <= read[s]
        /\ read[s] \in Nat
  BY <1>1, WrittenWasRead DEF IInv, TypeOK, DeliveredWasWritten, Dests, Sockets
<1>5. \A s \in Sockets : \A d \in Dests(s) :
        Written(s, d)' \in Nat /\ Written(s, d) <= Written(s, d)'
  BY <1>3, <1>4
<1>6. DeliveredWasWritten'
  BY <1>2, <1>4, <1>5 DEF DeliveredWasWritten
<1>7. QueueBounds'
  <2>1. ASSUME NEW d \in Sockets, NEW i \in 1..Len(network[d])
        PROVE  \E s \in Sockets :
                 /\ network[d][i].src = s
                 /\ d \in Dests(s)
                 /\ delivered[d][s] < network[d][i].pos
                 /\ network[d][i].pos <= Written(s, d)'
    <3>1. PICK s \in Sockets : s = network[d][i].src
      BY ByteOnItsWay
    <3>2. /\ d \in Dests(s) /\ delivered[d][s] < network[d][i].pos
          /\ network[d][i].pos \in Nat /\ network[d][i].pos <= Written(s, d)
      BY <3>1, ByteOnItsWay
    <3>3. network[d][i].pos <= Written(s, d)'
      BY <1>4, <1>5, <3>2
    <3> QED
      BY <3>1, <3>2, <3>3
  <2> QED
    BY <1>2, <2>1 DEF QueueBounds
<1>8. QueueInOrder'
  BY <1>2 DEF IInv, QueueInOrder
<1>9. QueueComplete'
  <2> SUFFICES ASSUME NEW s \in Sockets, NEW d \in Dests(s), ~(Lost(d)'),
                      NEW p \in (delivered[d][s] + 1)..Written(s, d)'
               PROVE  \E i \in 1..Len(network[d]) :
                        network[d][i] = [src |-> s, pos |-> p]
    BY <1>2 DEF QueueComplete
  <2>1. ~Lost(d) /\ d # cursor
    BY <1>2 DEF Lost
  <2>2. p \in (delivered[d][s] + 1)..Written(s, d)
    BY <1>3, <2>1
  <2> QED
    BY <2>1, <2>2 DEF IInv, QueueComplete
<1> QED
  BY <1>3, <1>6, <1>7, <1>8, <1>9

\* A connection that is lost takes along what was on its way.
LEMMA ConnectionLostStep ==
  ASSUME IInv, NEW s \in Sockets, PeerLeaves(s) \/ ResetOnClose(s)
  PROVE  HandlerWrites' /\ DeliveredWasWritten' /\ QueueBounds' /\ QueueInOrder'
         /\ QueueComplete'
<1>1. /\ read' = read /\ delivered' = delivered /\ failed' = failed
      /\ UNCHANGED <<from, cursor, chunk, offset>>
      /\ peer' = [peer EXCEPT ![s] = "gone"]
      /\ network' = [network EXCEPT ![s] = <<>>]
  BY DEF PeerLeaves, ResetOnClose, handlerVars
<1>2. /\ network'[s] = <<>> /\ peer'[s] = "gone"
      /\ \A d \in Sockets : d # s => network'[d] = network[d] /\ peer'[d] = peer[d]
  BY <1>1 DEF IInv, TypeOK
<1>3. \A r \in Sockets : \A d \in Dests(r) :
        Written(r, d)' = Written(r, d) /\ d \in Sockets
  BY <1>1 DEF Written, Dests, Sockets
<1>4. HandlerWrites'
  BY <1>1 DEF IInv, HandlerWrites, Idle
<1>5. DeliveredWasWritten'
  BY <1>1, <1>3 DEF IInv, DeliveredWasWritten
<1>6. QueueBounds'
  <2>1. ASSUME NEW d \in Sockets, NEW i \in 1..Len(network'[d])
        PROVE  \E r \in Sockets :
                 /\ network'[d][i].src = r
                 /\ d \in Dests(r)
                 /\ delivered[d][r] < network'[d][i].pos
                 /\ network'[d][i].pos <= Written(r, d)'
    <3>1. d # s
      BY <1>2
    <3>2. network'[d] = network[d] /\ i \in 1..Len(network[d])
      BY <1>2, <3>1
    <3> QED
      BY <1>3, <3>2, ByteOnItsWay
  <2> QED
    BY <1>1, <2>1 DEF QueueBounds
<1>7. QueueInOrder'
  <2> SUFFICES ASSUME NEW d \in Sockets, NEW i \in 1..Len(network'[d]),
                      NEW j \in 1..Len(network'[d]), i < j,
                      network'[d][i].src = network'[d][j].src
               PROVE  network'[d][i].pos < network'[d][j].pos
    BY DEF QueueInOrder
  <2>1. d # s
    BY <1>2
  <2> QED
    BY <1>2, <2>1 DEF IInv, QueueInOrder
<1>8. QueueComplete'
  <2> SUFFICES ASSUME NEW r \in Sockets, NEW d \in Dests(r), ~(Lost(d)'),
                      NEW p \in (delivered[d][r] + 1)..Written(r, d)
               PROVE  \E i \in 1..Len(network'[d]) :
                        network'[d][i] = [src |-> r, pos |-> p]
    BY <1>1, <1>3 DEF QueueComplete
  <2>1. d \in Sockets /\ d # s /\ ~Lost(d)
    BY <1>1, <1>2, <1>3 DEF Lost
  <2> QED
    BY <1>2, <2>1 DEF IInv, QueueComplete
<1> QED
  BY <1>4, <1>5, <1>6, <1>7, <1>8

\* The peer of d takes the first byte on its way: the others are later ones of
\* their streams.
LEMMA PeerReadsStep ==
  ASSUME IInv, NEW d \in Sockets, PeerReads(d)
  PROVE  HandlerWrites' /\ DeliveredWasWritten' /\ QueueBounds' /\ QueueInOrder'
         /\ QueueComplete'
<1> DEFINE b == network[d][1]
<1>1. /\ read' = read /\ failed' = failed /\ peer' = peer
      /\ UNCHANGED <<from, cursor, chunk, offset>>
      /\ network[d] # <<>> /\ network[d] \in Seq(Byte)
      /\ delivered' = [delivered EXCEPT ![d][b.src] = b.pos]
      /\ network' = [network EXCEPT ![d] = Tail(@)]
  BY DEF PeerReads, handlerVars, peerVars, IInv, TypeOK
<1>2. /\ Len(network[d]) \in Nat /\ Len(network[d]) > 0
      /\ Len(network'[d]) = Len(network[d]) - 1
      /\ \A i \in 1..Len(network'[d]) : network'[d][i] = network[d][i + 1]
      /\ \A e \in Sockets : e # d => network'[e] = network[e]
  <2>1. network'[d] = Tail(network[d]) /\ \A e \in Sockets : e # d => network'[e] = network[e]
    BY <1>1 DEF IInv, TypeOK
  <2>2. Len(network[d]) \in Nat /\ Len(network[d]) > 0
    BY <1>1
  <2>3. /\ Len(Tail(network[d])) = Len(network[d]) - 1
        /\ \A i \in 1..Len(Tail(network[d])) : Tail(network[d])[i] = network[d][i + 1]
    BY <1>1, <2>2
  <2> QED
    BY <2>1, <2>2, <2>3
<1>3. /\ b.src \in Sockets /\ b.pos \in Nat /\ d \in Dests(b.src)
      /\ delivered[d][b.src] < b.pos /\ b.pos <= Written(b.src, d)
  BY <1>2, ByteOnItsWay
<1>4. \A r \in Sockets : \A e \in Sockets :
        delivered'[e][r] = IF e = d /\ r = b.src THEN b.pos ELSE delivered[e][r]
  BY <1>1, <1>3 DEF IInv, TypeOK
<1>5. \A r \in Sockets : \A e \in Dests(r) :
        Written(r, e)' = Written(r, e) /\ e \in Sockets
  BY <1>1 DEF Written, Dests, Sockets
<1>6. HandlerWrites'
  BY <1>1 DEF IInv, HandlerWrites, Idle
<1>7. DeliveredWasWritten'
  BY <1>3, <1>4, <1>5 DEF IInv, DeliveredWasWritten
<1>8. QueueBounds'
  <2>1. ASSUME NEW e \in Sockets, NEW i \in 1..Len(network'[e])
        PROVE  \E r \in Sockets :
                 /\ network'[e][i].src = r
                 /\ e \in Dests(r)
                 /\ delivered'[e][r] < network'[e][i].pos
                 /\ network'[e][i].pos <= Written(r, e)'
    <3>1. CASE e # d
      <4>1. network'[e] = network[e] /\ i \in 1..Len(network[e])
        BY <1>2, <3>1
      <4> QED
        BY <1>4, <1>5, <3>1, <4>1, ByteOnItsWay
    <3>2. CASE e = d
      <4>1. /\ i + 1 \in 1..Len(network[d]) /\ 1 \in 1..Len(network[d]) /\ 1 < i + 1
            /\ network'[d][i] = network[d][i + 1]
        BY <1>2, <3>2
      <4>2. network[d][i + 1].src = b.src => b.pos < network[d][i + 1].pos
        BY <4>1 DEF IInv, QueueInOrder
      <4> QED
        BY <1>4, <1>5, <3>2, <4>1, <4>2, ByteOnItsWay
    <3> QED
      BY <3>1, <3>2
  <2> QED
    BY <2>1 DEF QueueBounds
<1>9. QueueInOrder'
  <2> SUFFICES ASSUME NEW e \in Sockets, NEW i \in 1..Len(network'[e]),
                      NEW j \in 1..Len(network'[e]), i < j,
                      network'[e][i].src = network'[e][j].src
               PROVE  network'[e][i].pos < network'[e][j].pos
    BY DEF QueueInOrder
  <2>1. CASE e # d
    BY <1>2, <2>1 DEF IInv, QueueInOrder
  <2>2. CASE e = d
    <3>1. i \in 1..Len(network'[d]) /\ j \in 1..Len(network'[d])
      BY <2>2
    <3>2. i + 1 \in 1..Len(network[d]) /\ j + 1 \in 1..Len(network[d]) /\ i + 1 < j + 1
      BY <1>2, <3>1
    <3>3. network'[d][i] = network[d][i + 1] /\ network'[d][j] = network[d][j + 1]
      BY <1>2, <3>1
    <3> QED
      BY <2>2, <3>2, <3>3 DEF IInv, QueueInOrder
  <2> QED
    BY <2>1, <2>2
<1>10. QueueComplete'
  <2> SUFFICES ASSUME NEW r \in Sockets, NEW e \in Dests(r), ~Lost(e),
                      NEW p \in (delivered'[e][r] + 1)..Written(r, e)
               PROVE  \E i \in 1..Len(network'[e]) :
                        network'[e][i] = [src |-> r, pos |-> p]
    BY <1>1, <1>5 DEF QueueComplete, Lost
  <2>1. e \in Sockets /\ delivered[e][r] \in Nat
    BY <1>5 DEF IInv, TypeOK
  <2>2. p \in (delivered[e][r] + 1)..Written(r, e) /\ (e = d /\ r = b.src => p # b.pos)
    BY <1>3, <1>4, <2>1
  <2>3. PICK i \in 1..Len(network[e]) : network[e][i] = [src |-> r, pos |-> p]
    BY <2>2 DEF IInv, QueueComplete
  <2>4. CASE e # d
    BY <1>2, <2>1, <2>3, <2>4
  <2>5. CASE e = d
    <3>1. i # 1
      BY <2>2, <2>3, <2>5
    <3>2. i - 1 \in 1..Len(network'[d])
      BY <1>2, <2>3, <2>5, <3>1
    <3>3. network'[d][i - 1] = network[d][i]
      BY <1>2, <3>2
    <3> QED
      BY <2>3, <2>5, <3>2, <3>3
  <2> QED
    BY <2>4, <2>5
<1> QED
  BY <1>6, <1>7, <1>8, <1>9, <1>10

\* Every step keeps the inductive invariant.
LEMMA StepIInv == IInv /\ [Next]_vars => IInv'
<1> SUFFICES ASSUME IInv, [Next]_vars PROVE IInv'
  OBVIOUS
<1>0. TypeOK'
  BY StepTypeOK DEF IInv
<1> DEFINE Same == \A s \in Sockets : \A d \in Dests(s) : Written(s, d)' = Written(s, d)
<1>1. ASSUME NEW s \in Sockets, Receive(s) PROVE IInv'
  <2>1. network' = network /\ delivered' = delivered /\ \A d \in Sockets : Lost(d) => Lost(d)'
    BY <1>1 DEF Receive, peerVars, Lost
  <2> QED
    BY <1>0, <1>1, <2>1, ReceiveStep, StreamsKept DEF IInv
<1>2. CASE WriteByte
  <2>1. ClosedWhenIdle' /\ ReadWasSent'
    BY <1>2 DEF IInv, WriteByte, Transmit, ClosedWhenIdle, ReadWasSent
  <2> QED
    BY <1>0, <1>2, <2>1, WriteByteStep DEF IInv
<1>3. CASE WriteFails
  <2>1. ClosedWhenIdle' /\ ReadWasSent'
    BY <1>3 DEF IInv, WriteFails, MayFail, ClosedWhenIdle, ReadWasSent, streamVars
  <2> QED
    BY <1>0, <1>3, <2>1, WriteFailsStep DEF IInv
<1>4. ASSUME NEW d \in Sockets, PeerReads(d) PROVE IInv'
  <2>1. ClosedWhenIdle' /\ ReadWasSent'
    BY <1>4 DEF IInv, PeerReads, ClosedWhenIdle, ReadWasSent, handlerVars, Idle
  <2> QED
    BY <1>0, <1>4, <2>1, PeerReadsStep DEF IInv
<1>5. ASSUME NEW s \in Sockets, PeerLeaves(s) \/ ResetOnClose(s) PROVE IInv'
  <2>1. ClosedWhenIdle' /\ ReadWasSent'
    BY <1>5 DEF IInv, PeerLeaves, ResetOnClose, ClosedWhenIdle, ReadWasSent,
                handlerVars, Idle
  <2> QED
    BY <1>0, <1>5, <2>1, ConnectionLostStep DEF IInv
<1>6. ASSUME UNCHANGED <<handlerVars, read, network, delivered, failed>>,
             \A d \in Sockets : Lost(d) => Lost(d)',
             ClosedWhenIdle', ReadWasSent'
      PROVE  IInv'
  <2>1. Same /\ HandlerWrites'
    BY <1>6 DEF IInv, Written, HandlerWrites, Idle, handlerVars
  <2> QED
    BY <1>0, <1>6, <2>1, StreamsKept DEF IInv
<1>7. ASSUME HeartbeatCloses \/ \E s \in Sockets : ReadEnds(s) PROVE IInv'
  <2>1. /\ UNCHANGED <<handlerVars, read, network, delivered, failed>>
        /\ \A d \in Sockets : Lost(d) => Lost(d)'
    BY <1>7 DEF ReadEnds, HeartbeatCloses, streamVars, peerVars, Lost
  <2>2. ClosedWhenIdle' /\ ReadWasSent'
    BY <1>7 DEF IInv, ReadEnds, HeartbeatCloses, ClosedWhenIdle, ReadWasSent, Idle,
                handlerVars, streamVars
  <2> QED
    BY <1>6, <2>1, <2>2
<1>8. ASSUME NEW s \in Sockets, PeerSends(s) PROVE IInv'
  <2>1. /\ UNCHANGED <<handlerVars, read, network, delivered, failed>>
        /\ \A d \in Sockets : Lost(d) => Lost(d)'
    BY <1>8 DEF PeerSends, peerVars, Lost
  <2>2. ClosedWhenIdle'
    BY <1>8 DEF IInv, PeerSends, ClosedWhenIdle, Idle, handlerVars
  <2>3. ReadWasSent'
    <3>1. \A r \in Sockets :
            /\ sent[r] \in Nat /\ read[r] \in Nat /\ read[r] <= sent[r]
            /\ sent'[r] = IF r = s THEN sent[r] + 1 ELSE sent[r]
      BY <1>8 DEF IInv, TypeOK, PeerSends, ReadWasSent
    <3>2. \A r \in Sockets : read[r] <= sent'[r]
      BY <3>1
    <3> QED
      BY <1>8, <3>2 DEF PeerSends, ReadWasSent
  <2> QED
    BY <1>6, <2>1, <2>2, <2>3
<1>9. ASSUME NEW s \in Sockets, PeerFinishes(s) PROVE IInv'
  <2>1. UNCHANGED <<handlerVars, read, network, delivered, failed>>
    BY <1>9 DEF PeerFinishes, streamVars
  <2>2. \A d \in Sockets : Lost(d) => Lost(d)'
    BY <1>9 DEF IInv, TypeOK, PeerFinishes, Lost
  <2>3. ClosedWhenIdle' /\ ReadWasSent'
    BY <1>9 DEF IInv, PeerFinishes, ClosedWhenIdle, ReadWasSent, Idle,
                handlerVars, streamVars
  <2> QED
    BY <1>6, <2>1, <2>2, <2>3
<1>10. CASE UNCHANGED vars
  <2>1. /\ UNCHANGED <<handlerVars, read, network, delivered, failed>>
        /\ \A d \in Sockets : Lost(d) => Lost(d)'
    BY <1>10 DEF vars, streamVars, peerVars, Lost
  <2>2. ClosedWhenIdle' /\ ReadWasSent'
    BY <1>10 DEF IInv, vars, ClosedWhenIdle, ReadWasSent, Idle, handlerVars, streamVars
  <2> QED
    BY <1>6, <2>1, <2>2
<1> QED
  BY <1>1, <1>2, <1>3, <1>4, <1>5, <1>7, <1>8, <1>9, <1>10
  DEF Next, SessionStep, PeerStep

\* The inductive invariant holds in every reachable state.
THEOREM IInvCorrect == Spec => []IInv
  BY InitIInv, StepIInv, PTL DEF Spec

\* The variables of the data path have their types (tcp_session.hpp,
\* tcp_socket.hpp:63-64).
THEOREM TypeCorrect == Spec => []TypeOK
<1>1. IInv => TypeOK
  BY DEF IInv
<1> QED
  BY <1>1, IInvCorrect, PTL

\* Between handlers, and when the session is closed, what was read has been
\* written to every destination that is not lost (tcp_session.cpp:167-242).
THEOREM ReadIsWrittenCorrect == Spec => []ReadIsWritten
<1>1. IInv => ReadIsWritten
  <2> SUFFICES ASSUME IInv, Idle, NEW s \in Sockets, NEW d \in Dests(s), ~Lost(d),
                      NEW p \in (delivered[d][s] + 1)..read[s]
               PROVE  \E i \in DOMAIN network[d] :
                        network[d][i] = [src |-> s, pos |-> p]
    BY DEF ReadIsWritten, IInv, ClosedWhenIdle
  <2>1. Written(s, d) = read[s]
    BY NumTargetsAssumption DEF Written, Idle, Nobody, Sockets, Client, Targets
  <2>2. network[d] \in Seq(Byte)
    BY DEF IInv, TypeOK, Dests, Sockets
  <2>3. DOMAIN network[d] = 1..Len(network[d])
    BY <2>2
  <2> QED
    BY <2>1, <2>3 DEF IInv, QueueComplete
<1> QED
  BY <1>1, IInvCorrect, PTL

-----------------------------------------------------------------------------
(* Refinement: every stream implements ByteStream.                         *)

\* When start() returns every stream is empty and sound.
LEMMA InitStreams == Init => \A s \in Sockets : \A d \in Dests(s) : Stream(s, d)!Init
  BY DEF Init, Stream!Init, Dests, Sockets

\* The peer of d gets the next byte of a stream that is sound, and a later one of
\* any other.
LEMMA PeerReadsNext ==
  ASSUME IInv, NEW d \in Sockets, PeerReads(d), NEW s \in Sockets, d \in Dests(s),
         Head(network[d]).src = s
  PROVE  /\ delivered[d][s] \in Nat /\ sent[s] \in Nat
         /\ Head(network[d]).pos \in (delivered[d][s] + 1)..sent[s]
         /\ d \notin failed => Head(network[d]).pos = delivered[d][s] + 1
<1> DEFINE b == network[d][1]
<1>1. network[d] \in Seq(Byte) /\ network[d] # <<>> /\ peer[d] # "gone"
  BY DEF PeerReads, IInv, TypeOK
<1>2. Head(network[d]) = b /\ 1 \in 1..Len(network[d])
  BY <1>1
<1>3. /\ b.src = s /\ b.pos \in Nat /\ delivered[d][s] \in Nat
      /\ delivered[d][s] < b.pos /\ b.pos <= Written(s, d)
  BY <1>2, ByteOnItsWay
<1>4. /\ Written(s, d) \in Nat /\ Written(s, d) <= read[s] /\ read[s] <= sent[s]
      /\ read[s] \in Nat /\ sent[s] \in Nat
  BY WrittenWasRead DEF IInv, TypeOK, ReadWasSent
<1>5. ASSUME d \notin failed PROVE b.pos = delivered[d][s] + 1
  <2>1. ~Lost(d)
    BY <1>1, <1>5 DEF Lost
  <2>2. delivered[d][s] + 1 \in (delivered[d][s] + 1)..Written(s, d)
    BY <1>3, <1>4
  <2>3. PICK i \in 1..Len(network[d]) :
          network[d][i] = [src |-> s, pos |-> delivered[d][s] + 1]
    BY <2>1, <2>2 DEF IInv, QueueComplete
  <2>4. 1 < i => b.pos < network[d][i].pos
    BY <1>2, <1>3, <2>3 DEF IInv, QueueInOrder
  <2> QED
    BY <1>3, <2>3, <2>4
<1> QED
  BY <1>2, <1>3, <1>4, <1>5

\* Every step is a step of ByteStream, or none, for every stream.
LEMMA StepStreams ==
  ASSUME IInv, [Next]_vars, NEW s \in Sockets, NEW d \in Dests(s)
  PROVE  [Stream(s, d)!Next]_(Stream(s, d)!vars)
<1> DEFINE Goal == [Stream(s, d)!Next]_(Stream(s, d)!vars)
<1> USE DEF Stream!Next, Stream!vars, Stream!Send, Stream!Deliver, Stream!Break,
            Stream!Skip
<1>1. d \in Sockets
  BY DEF Dests, Sockets
<1>2. ASSUME NEW r \in Sockets, Receive(r) PROVE Goal
  BY <1>2 DEF Receive
<1>3. CASE WriteByte
  BY <1>3 DEF WriteByte
<1>4. CASE WriteFails
  <2>1. sent' = sent /\ delivered' = delivered /\ failed' = failed \cup {cursor}
    BY <1>4 DEF WriteFails, MayFail, streamVars
  <2>2. CASE d = cursor
    BY <2>1, <2>2
  <2>3. CASE d # cursor
    BY <2>1, <2>3
  <2> QED
    BY <2>2, <2>3
<1>5. ASSUME HeartbeatCloses \/ \E r \in Sockets : ReadEnds(r) PROVE Goal
  BY <1>5 DEF HeartbeatCloses, ReadEnds, streamVars
<1>6. ASSUME NEW r \in Sockets, PeerSends(r) PROVE Goal
  <2>1. delivered' = delivered /\ failed' = failed
    BY <1>6 DEF PeerSends
  <2>2. sent'[s] = IF s = r THEN sent[s] + 1 ELSE sent[s]
    BY <1>6 DEF PeerSends, IInv, TypeOK
  <2> QED
    BY <2>1, <2>2
<1>7. ASSUME NEW e \in Sockets, PeerReads(e) PROVE Goal
  <2>1. sent' = sent /\ failed' = failed
    BY <1>7 DEF PeerReads
  <2>2. CASE e = d /\ Head(network[d]).src = s
    <3>1. delivered'[d][s] = Head(network[d]).pos
      BY <1>1, <1>7, <2>2 DEF PeerReads, IInv, TypeOK
    <3>2. /\ delivered[d][s] \in Nat /\ sent[s] \in Nat
          /\ delivered'[d][s] \in (delivered[d][s] + 1)..sent[s]
          /\ d \notin failed => delivered'[d][s] = delivered[d][s] + 1
      BY <1>1, <1>7, <2>2, <3>1, PeerReadsNext
    <3> QED
      BY <2>1, <3>2
  <2>3. CASE ~(e = d /\ Head(network[d]).src = s)
    <3>1. delivered'[d][s] = delivered[d][s]
      BY <1>1, <1>7, <2>3 DEF PeerReads, IInv, TypeOK
    <3> QED
      BY <2>1, <3>1
  <2> QED
    BY <2>2, <2>3
<1>8. ASSUME NEW r \in Sockets, PeerFinishes(r) \/ PeerLeaves(r) \/ ResetOnClose(r)
      PROVE  Goal
  BY <1>8 DEF PeerFinishes, PeerLeaves, ResetOnClose, streamVars
<1>9. CASE UNCHANGED vars
  BY <1>9 DEF vars, streamVars
<1> QED
  BY <1>2, <1>3, <1>4, <1>5, <1>6, <1>7, <1>8, <1>9 DEF Next, SessionStep, PeerStep

\* Every peer gets every stream it listens to in order, without repetition, and
\* without omission until a write to it fails (tcp_session.cpp:167-242).
THEOREM StreamsCorrect == Spec => StreamsSpec
<1>1. Init => \A s \in Sockets : \A d \in Dests(s) : Stream(s, d)!Init
  BY InitStreams
<1>2. IInv /\ [Next]_vars =>
        [\A s \in Sockets : \A d \in Dests(s) :
           [Stream(s, d)!Next]_(Stream(s, d)!vars)]_vars
  BY StepStreams
<1> QED
  BY <1>1, <1>2, IInvCorrect, PTL DEF Spec, StreamsSpec

-----------------------------------------------------------------------------
(* Stalling.                                                               *)

\* What a step can do to a stall.
LEMMA StepStall ==
  ASSUME IInv, [Next]_vars, NEW d \in Sockets, Stalled(d)
  PROVE  Stalled(d)' \/ WriteFails \/ PeerLeaves(d)
<1>1. /\ ~Idle /\ cursor = d /\ ~closed /\ Len(network[d]) = OutWindow
      /\ d \in writesFirst /\ peer[d] = "up" /\ sent[d] < MaxBytes[d]
      /\ sent[d] - read[d] = InWindow[d]
  BY DEF Stalled, WantsToWrite
<1>2. ~(OutWindow < OutWindow) /\ ~(InWindow[d] < InWindow[d])
  BY WindowAssumption
<1>3. ~WriteByte
  BY <1>1, <1>2 DEF WriteByte, Transmit
<1>4. ASSUME NEW s \in Sockets PROVE ~Receive(s) /\ ~ReadEnds(s) /\ ~ResetOnClose(s)
  BY <1>1 DEF Receive, ReadEnds, ResetOnClose
<1>5. ~HeartbeatCloses
  BY <1>1 DEF HeartbeatCloses
<1>6. ASSUME NEW s \in Sockets, PeerSends(s) PROVE Stalled(d)'
  <2>1. s # d
    BY <1>1, <1>2, <1>6 DEF PeerSends
  <2>2. sent'[d] = sent[d]
    BY <1>6, <2>1 DEF PeerSends, IInv, TypeOK
  <2> QED
    BY <1>1, <1>6, <2>2 DEF PeerSends, Stalled, WantsToWrite, Idle, handlerVars, peerVars
<1>7. ASSUME NEW s \in Sockets, PeerReads(s) PROVE Stalled(d)'
  <2>1. s # d
    BY <1>1, <1>7 DEF PeerReads, WantsToWrite
  <2>2. network'[d] = network[d]
    BY <1>7, <2>1 DEF PeerReads, IInv, TypeOK
  <2> QED
    BY <1>1, <1>7, <2>2 DEF PeerReads, Stalled, WantsToWrite, Idle, handlerVars, peerVars
<1>8. ASSUME NEW s \in Sockets, PeerFinishes(s) PROVE Stalled(d)'
  <2>1. s # d
    BY <1>1, <1>8 DEF PeerFinishes, WantsToWrite
  <2>2. peer'[d] = peer[d]
    BY <1>8, <2>1 DEF PeerFinishes, IInv, TypeOK
  <2> QED
    BY <1>1, <1>8, <2>2
    DEF PeerFinishes, Stalled, WantsToWrite, Idle, handlerVars, streamVars
<1>9. ASSUME NEW s \in Sockets, PeerLeaves(s), s # d PROVE Stalled(d)'
  <2>1. peer'[d] = peer[d] /\ network'[d] = network[d]
    BY <1>9 DEF PeerLeaves, IInv, TypeOK
  <2> QED
    BY <1>1, <1>9, <2>1 DEF PeerLeaves, Stalled, WantsToWrite, Idle, handlerVars
<1>10. CASE UNCHANGED vars
  BY <1>1, <1>10
  DEF vars, Stalled, WantsToWrite, Idle, handlerVars, streamVars, peerVars
<1> QED
  BY <1>3, <1>4, <1>5, <1>6, <1>7, <1>8, <1>9, <1>10 DEF Next, SessionStep, PeerStep

\* A session whose thread and peer wait for each other waits until the connection
\* fails: its heartbeat cannot run, and no other peer can help
\* (tcp_socket.cpp:43, tcp_session.cpp:252).
THEOREM StallLastsCorrect == Spec => StallLasts
<1>1. IInv /\ [Next]_vars =>
        [\A d \in Sockets : Stalled(d) => Stalled(d)' \/ WriteFails \/ PeerLeaves(d)]_vars
  BY StepStall
<1> QED
  BY <1>1, IInvCorrect, PTL DEF Spec, StallLasts
=============================================================================
