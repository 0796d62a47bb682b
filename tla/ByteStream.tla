----------------------------- MODULE ByteStream -----------------------------
(***************************************************************************)
(* What the relay promises for one sender and one receiver: the receiver   *)
(* gets the bytes the sender sent, in order, each once, and none is left   *)
(* out as long as the stream is sound.  Bytes are known by their place in  *)
(* the sender's stream, so a stream of n bytes is the number n.            *)
(* TcpRelay implements this for every pair of sockets it connects.         *)
(***************************************************************************)
EXTENDS Integers

VARIABLES
  sent,       \* how many bytes the sender has sent
  delivered,  \* the last byte the receiver has got
  sound       \* no byte has been left out

vars == <<sent, delivered, sound>>

Init ==
  /\ sent = 0
  /\ delivered = 0
  /\ sound = TRUE

Send ==
  /\ sent' = sent + 1
  /\ UNCHANGED <<delivered, sound>>

Deliver ==
  /\ delivered < sent
  /\ delivered' = delivered + 1
  /\ UNCHANGED <<sent, sound>>

\* A write to the receiver fails.
Break ==
  /\ sound' = FALSE
  /\ UNCHANGED <<sent, delivered>>

\* After a failed write, bytes in between may be missing.
Skip ==
  /\ ~sound
  /\ delivered' \in (delivered + 1)..sent
  /\ UNCHANGED <<sent, sound>>

Next == Send \/ Deliver \/ Break \/ Skip

Spec == Init /\ [][Next]_vars
=============================================================================
