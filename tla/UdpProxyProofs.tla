--------------------------- MODULE UdpProxyProofs ---------------------------
(***************************************************************************)
(* Proofs about UdpProxy.  The invariant IInv relates the life of the one  *)
(* session (socket) to what the two threads may be doing with it.          *)
(***************************************************************************)
EXTENDS UdpProxy, TLAPS

\* Nothing of the session exists before the first datagram, and the map keeps
\* it for good afterwards.
BeforeCreate ==
  /\ socket = "none" =>
       /\ ~timer /\ expired = 0 /\ cancelled = 0
       /\ reading = "none" /\ doing = "idle"
       /\ manager = "idle"
  /\ socket # "none" => Listen \in sessions
  /\ Listen \in sessions => socket # "none"

\* The session's socket is closed exactly when closed_ is set, and not while a
\* handler that found closed_ unset still runs.
ClosedTogether ==
  /\ closed <=> socket = "closed"
  /\ closed => doing = "idle"

IInv ==
  /\ TypeOK
  /\ BeforeCreate
  /\ ClosedTogether
  /\ BuffersHaveOneUser
  /\ ClientsAreHeard
  /\ TargetsAreHeard
  /\ HeartbeatOutstanding
  /\ ClosedIsQuiet

-----------------------------------------------------------------------------
(* Type correctness.                                                       *)

\* The variables have their types when run() has started the first receive.
LEMMA InitTypeOK == Init => TypeOK
<1> SUFFICES ASSUME Init PROVE TypeOK
  OBVIOUS
<1>1. expired \in Nat /\ cancelled \in Nat
  BY DEF Init
<1> QED
  BY <1>1 DEF Init, TypeOK

\* Every step of either thread keeps the types.
LEMMA StepTypeOK == TypeOK /\ [Next]_vars => TypeOK'
<1> SUFFICES ASSUME TypeOK, [Next]_vars PROVE TypeOK'
  OBVIOUS
<1> USE DEF TypeOK, managerVars, sessionVars, timerVars, historyVars
<1>1. CASE FindSession
  BY <1>1 DEF FindSession, ManagerFree
<1>2. CASE CreateSession
  BY <1>2 DEF CreateSession, ManagerFree
<1>3. CASE CreateThrows
  BY <1>3 DEF CreateThrows, ManagerFree
<1>4. CASE ReceiveFails
  BY <1>4 DEF ReceiveFails, ManagerFree
<1>5. CASE TestClosed
  BY <1>5 DEF TestClosed
<1>6. CASE KeepAlive
  BY <1>6 DEF KeepAlive
<1>7. CASE SendToTargets
  BY <1>7 DEF SendToTargets
<1>8. CASE ReceiveAgain
  BY <1>8 DEF ReceiveAgain
<1>9. CASE TargetDatagram
  BY <1>9 DEF TargetDatagram, SessionFree
<1>10. CASE ReplyToClient
  BY <1>10 DEF ReplyToClient
<1>11. CASE TargetFails
  BY <1>11 DEF TargetFails, SessionFree
<1>12. CASE TargetIgnored
  BY <1>12 DEF TargetIgnored, SessionFree
<1>13. CASE HeartbeatHandler
  BY <1>13 DEF HeartbeatHandler, SessionFree
<1>14. CASE CancelledHandler
  BY <1>14 DEF CancelledHandler, SessionFree
<1>15. CASE Close
  <2>1. cancelled' \in Nat
    BY <1>15 DEF Close, ShutDown
  <2>2. sessions' \subseteq {Listen, NoAddress}
    BY <1>15 DEF Close, ShutDown, CloseSession
  <2>3. ended' \in {"running", "exception", "crash"}
    BY <1>15 DEF Close, ShutDown
  <2>4. raced' \in BOOLEAN
    BY <1>15 DEF Close, ShutDown
  <2> QED
    BY <1>15, <2>1, <2>2, <2>3, <2>4 DEF Close, ShutDown
<1>16. CASE HeartbeatExpires
  <2>1. expired' \in Nat
    BY <1>16 DEF HeartbeatExpires
  <2>2. timer' \in BOOLEAN
    BY <1>16 DEF HeartbeatExpires
  <2>3. UNCHANGED <<colocated, ended, managerVars, sessions, sessionVars,
                    cancelled, historyVars>>
    BY <1>16 DEF HeartbeatExpires
  <2> QED
    BY <2>1, <2>2, <2>3
<1>17. ASSUME NEW result \in {"datagram", "error"}, ReceiveCompletes(result) PROVE TypeOK'
  BY <1>17 DEF ReceiveCompletes
<1>18. ASSUME NEW result \in {"datagram", "error"}, TargetCompletes(result) PROVE TypeOK'
  BY <1>18 DEF TargetCompletes
<1>19. CASE UNCHANGED vars
  BY <1>19 DEF vars
<1> QED
  BY <1>1, <1>2, <1>3, <1>4, <1>5, <1>6, <1>7, <1>8, <1>9, <1>10,
     <1>11, <1>12, <1>13, <1>14, <1>15, <1>16, <1>17, <1>18, <1>19
  DEF Next, ManagerStep, SessionStep, Environment

\* Every variable keeps its type.
THEOREM TypeCorrect == Spec => []TypeOK
<1>1. Init => TypeOK
  BY InitTypeOK
<1>2. TypeOK /\ [Next]_vars => TypeOK'
  BY StepTypeOK
<1> QED
  BY <1>1, <1>2, PTL DEF Spec

-----------------------------------------------------------------------------
(* The inductive invariant.                                                *)

\* Every step of either thread keeps the inductive invariant.
LEMMA StepIInv == IInv /\ [Next]_vars => IInv'
<1> SUFFICES ASSUME IInv, [Next]_vars PROVE IInv'
  OBVIOUS
<1>0. TypeOK /\ TypeOK'
  BY StepTypeOK DEF IInv
<1> USE <1>0
    DEF IInv, TypeOK, managerVars, sessionVars, timerVars, historyVars, Listen,
        NoAddress, BeforeCreate, ClosedTogether, BuffersHaveOneUser,
        ClientsAreHeard, TargetsAreHeard, HeartbeatOutstanding, ClosedIsQuiet
<1>1. CASE FindSession
  BY <1>1 DEF FindSession, ManagerFree
<1>2. CASE CreateSession
  BY <1>2 DEF CreateSession, ManagerFree
<1>3. CASE CreateThrows
  BY <1>3 DEF CreateThrows, ManagerFree
<1>4. CASE ReceiveFails
  BY <1>4 DEF ReceiveFails, ManagerFree
<1>5. CASE TestClosed
  BY <1>5 DEF TestClosed
<1>6. CASE KeepAlive
  BY <1>6 DEF KeepAlive
<1>7. CASE SendToTargets
  BY <1>7 DEF SendToTargets
<1>8. CASE ReceiveAgain
  BY <1>8 DEF ReceiveAgain
<1>9. CASE TargetDatagram
  BY <1>9 DEF TargetDatagram, SessionFree
<1>10. CASE ReplyToClient
  BY <1>10 DEF ReplyToClient
<1>11. CASE TargetFails
  BY <1>11 DEF TargetFails, SessionFree
<1>12. CASE TargetIgnored
  BY <1>12 DEF TargetIgnored, SessionFree
<1>13. CASE HeartbeatHandler
  BY <1>13 DEF HeartbeatHandler, SessionFree
<1>14. CASE CancelledHandler
  BY <1>14 DEF CancelledHandler, SessionFree
<1>15. CASE Close
  BY <1>15 DEF Close, ShutDown, CloseSession
<1>16. CASE HeartbeatExpires
  BY <1>16 DEF HeartbeatExpires
<1>17. ASSUME NEW result \in {"datagram", "error"}, ReceiveCompletes(result) PROVE IInv'
  BY <1>17 DEF ReceiveCompletes
<1>18. ASSUME NEW result \in {"datagram", "error"}, TargetCompletes(result) PROVE IInv'
  BY <1>18 DEF TargetCompletes
<1>19. CASE UNCHANGED vars
  BY <1>19 DEF vars
<1> QED
  BY <1>1, <1>2, <1>3, <1>4, <1>5, <1>6, <1>7, <1>8, <1>9, <1>10,
     <1>11, <1>12, <1>13, <1>14, <1>15, <1>16, <1>17, <1>18, <1>19
  DEF Next, ManagerStep, SessionStep, Environment

\* The strengthening of every safety property below.
THEOREM IInvCorrect == Spec => []IInv
<1>1. Init => IInv
  BY InitTypeOK
     DEF Init, IInv, BeforeCreate, ClosedTogether, BuffersHaveOneUser,
         ClientsAreHeard, TargetsAreHeard, HeartbeatOutstanding, ClosedIsQuiet
<1>2. IInv /\ [Next]_vars => IInv'
  BY StepIInv
<1> QED
  BY <1>1, <1>2, PTL DEF Spec

-----------------------------------------------------------------------------
(* The safety properties.                                                  *)

\* The bare `this' of the session's handlers is good for ever, since close() never
\* removes the session from the map (udp_session.cpp:76, 121, 154-156).
THEOREM HandlersFindSessionCorrect == Spec => []HandlersFindSession
<1>1. IInv => HandlersFindSession
  BY DEF IInv, BeforeCreate, TypeOK, HandlersFindSession, HandlersOutstanding, Held
<1> QED
  BY <1>1, IInvCorrect, PTL

\* Neither buffer_ is received into while it is being sent from
\* (udp_session_manager.cpp:89-90, udp_session.cpp:99-100).
THEOREM BuffersHaveOneUserCorrect == Spec => []BuffersHaveOneUser
<1>1. IInv => BuffersHaveOneUser
  BY DEF IInv
<1> QED
  BY <1>1, IInvCorrect, PTL

\* Short of a failed receive, the manager always receives or handles a datagram
\* (udp_session_manager.cpp:80-91).
THEOREM ClientsAreHeardCorrect == Spec => []ClientsAreHeard
<1>1. IInv => ClientsAreHeard
  BY DEF IInv
<1> QED
  BY <1>1, IInvCorrect, PTL

\* Short of a failed receive, an open session always receives or replies
\* (udp_session.cpp:83-101).
THEOREM TargetsAreHeardCorrect == Spec => []TargetsAreHeard
<1>1. IInv => TargetsAreHeard
  BY DEF IInv
<1> QED
  BY <1>1, IInvCorrect, PTL

\* An open session is on its way to be closed unless its client speaks
\* (udp_session.cpp:31, 115-132).
THEOREM HeartbeatOutstandingCorrect == Spec => []HeartbeatOutstanding
<1>1. IInv => HeartbeatOutstanding
  BY DEF IInv
<1> QED
  BY <1>1, IInvCorrect, PTL

\* A closed session is quiet, short of a close() under the manager's hands
\* (udp_session.cpp:26-31, 145-157).
THEOREM ClosedIsQuietCorrect == Spec => []ClosedIsQuiet
<1>1. IInv => ClosedIsQuiet
  BY DEF IInv
<1> QED
  BY <1>1, IInvCorrect, PTL
=============================================================================
