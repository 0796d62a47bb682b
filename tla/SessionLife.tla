---------------------------- MODULE SessionLife ----------------------------
(***************************************************************************)
(* What a session promises the rest of the proxy: it is opened at most     *)
(* once, closed at most once and not in the middle of relaying a packet,   *)
(* relays only while it is open, and its memory is given back only after   *)
(* it was closed or when it was never opened.  A session that is gone      *)
(* stays gone.  TcpSession implements this.                                *)
(***************************************************************************)
VARIABLES
  phase,    \* "waiting" for a client, "open" or "closed"
  alive,    \* the session has an owner, hence its memory
  relaying  \* a packet is being passed on

vars == <<phase, alive, relaying>>

Init ==
  /\ phase = "waiting"
  /\ alive = TRUE
  /\ relaying = FALSE

\* The client was accepted and start() has begun.
Open ==
  /\ phase = "waiting" /\ alive
  /\ phase' = "open"
  /\ UNCHANGED <<alive, relaying>>

BeginRelay ==
  /\ phase = "open" /\ ~relaying
  /\ relaying' = TRUE
  /\ UNCHANGED <<phase, alive>>

EndRelay ==
  /\ relaying
  /\ relaying' = FALSE
  /\ UNCHANGED <<phase, alive>>

\* The handler that closes the session may be its last owner.
Close ==
  /\ phase = "open" /\ ~relaying
  /\ phase' = "closed"
  /\ alive' \in BOOLEAN
  /\ UNCHANGED relaying

\* The last owner lets go, of a closed session or one whose accept failed.
Free ==
  /\ phase # "open" /\ alive
  /\ alive' = FALSE
  /\ UNCHANGED <<phase, relaying>>

Next == Open \/ BeginRelay \/ EndRelay \/ Close \/ Free

Spec == Init /\ [][Next]_vars
=============================================================================
