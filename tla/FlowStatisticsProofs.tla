------------------------ MODULE FlowStatisticsProofs ------------------------
(***************************************************************************)
(* Proofs about FlowStatistics, for every finite set of threads.           *)
(***************************************************************************)
EXTENDS FlowStatistics, FiniteSetTheorems, TLAPS

\* The threads with a packet that was counted as received and not yet as sent.
InFlight == {w \in Workers : worker[w] \in {"write", "written"}}

\* The lock is held while the counters are read, so they stand still.
ReportInProgress ==
  /\ locked <=> tick = "read"
  /\ tick = "read" => \A k \in Keys \ unread : report[k] = packets[k]

\* Every packet counted as received was sent, dropped, or is in flight.
PacketsAccounted ==
  added["received"] = added["sent"] + failed + Cardinality(InFlight)

IInv ==
  /\ TypeOK
  /\ ReportInProgress
  /\ PacketsAccounted
  /\ PacketsConserved

-----------------------------------------------------------------------------
(* Type correctness.                                                       *)

\* The counters are numbers before anything has run.
LEMMA InitTypeOK == Init => TypeOK
<1> SUFFICES ASSUME Init PROVE TypeOK
  OBVIOUS
<1>1. Zero \in [Keys -> Nat]
  BY DEF Zero
<1>2. worker \in [Workers -> {"idle", "received", "write", "written"}]
  BY DEF Init
<1>3. failed \in Nat
  BY DEF Init
<1> QED
  BY <1>1, <1>2, <1>3 DEF Init, TypeOK

\* Every step keeps the types.
LEMMA StepTypeOK == TypeOK /\ [Next]_vars => TypeOK'
<1> SUFFICES ASSUME TypeOK, [Next]_vars PROVE TypeOK'
  OBVIOUS
<1> USE DEF TypeOK, Keys, reporterVars
<1>1. CASE TimerExpires
  BY <1>1 DEF TimerExpires
<1>2. CASE BeginReport
  BY <1>2 DEF BeginReport, Zero
<1>3. ASSUME NEW k \in Keys, ReadKey(k) PROVE TypeOK'
  BY <1>3 DEF ReadKey
<1>4. CASE EndReport
  <2>1. reported' \in [Keys -> Nat]
    BY <1>4 DEF EndReport
  <2>2. packets' \in [Keys -> Nat]
    BY <1>4 DEF EndReport, Zero
  <2> QED
    BY <1>4, <2>1, <2>2 DEF EndReport
<1>5. CASE Rearm
  BY <1>5 DEF Rearm
<1>6. ASSUME NEW w \in Workers, Receive(w) PROVE TypeOK'
  BY <1>6 DEF Receive
<1>7. ASSUME NEW w \in Workers, CountReceived(w) PROVE TypeOK'
  BY <1>7 DEF CountReceived, AddPacket
<1>8. ASSUME NEW w \in Workers, Write(w) PROVE TypeOK'
  BY <1>8 DEF Write
<1>9. ASSUME NEW w \in Workers, CountSent(w) PROVE TypeOK'
  BY <1>9 DEF CountSent, AddPacket
<1>10. CASE UNCHANGED vars
  BY <1>10 DEF vars
<1> QED
  BY <1>1, <1>2, <1>3, <1>4, <1>5, <1>6, <1>7, <1>8, <1>9, <1>10
     DEF Next, TimerStep, WorkerStep

\* Every variable keeps its type.
THEOREM TypeCorrect == Spec => []TypeOK
<1>1. Init => TypeOK
  BY InitTypeOK
<1>2. TypeOK /\ [Next]_vars => TypeOK'
  BY StepTypeOK
<1> QED
  BY <1>1, <1>2, PTL DEF Spec

-----------------------------------------------------------------------------
(* The inductive invariant.                                                *)

\* The number of packets in flight is a natural number.
LEMMA InFlightFinite == IsFiniteSet(InFlight) /\ Cardinality(InFlight) \in Nat
<1>1. InFlight \subseteq Workers
  BY DEF InFlight
<1> QED
  BY <1>1, WorkersAssumption, FS_Subset, FS_CardinalityType

\* A thread that counts a received packet has one more in flight.
LEMMA OneMoreInFlight ==
  ASSUME TypeOK, NEW w \in Workers, worker[w] = "received",
         worker' = [worker EXCEPT ![w] = "write"]
  PROVE  Cardinality(InFlight') = Cardinality(InFlight) + 1
<1>1. InFlight' = InFlight \cup {w} /\ w \notin InFlight
  BY DEF InFlight, TypeOK
<1> QED
  BY <1>1, InFlightFinite, FS_AddElement

\* A thread that drops its packet or counts it as sent has one less in flight.
LEMMA OneLessInFlight ==
  ASSUME TypeOK, NEW w \in Workers, worker[w] \in {"write", "written"},
         worker' = [worker EXCEPT ![w] = "idle"]
  PROVE  Cardinality(InFlight') = Cardinality(InFlight) - 1
<1>1. InFlight' = InFlight \ {w} /\ w \in InFlight
  BY DEF InFlight, TypeOK
<1> QED
  BY <1>1, InFlightFinite, FS_RemoveElement

\* Nothing was counted before anything has run.
LEMMA InitIInv == Init => IInv
<1> SUFFICES ASSUME Init PROVE IInv
  OBVIOUS
<1>1. InFlight = {}
  BY DEF Init, InFlight
<1>2. Cardinality(InFlight) = 0
  BY <1>1, FS_EmptySet
<1> QED
  BY <1>2, InitTypeOK
     DEF Init, IInv, ReportInProgress, PacketsAccounted, PacketsConserved, Zero, Keys

\* Every step keeps the inductive invariant.
LEMMA StepIInv == IInv /\ [Next]_vars => IInv'
<1> SUFFICES ASSUME IInv, [Next]_vars PROVE IInv'
  OBVIOUS
<1>0. TypeOK /\ TypeOK' /\ Cardinality(InFlight) \in Nat
  BY StepTypeOK, InFlightFinite DEF IInv
<1> USE <1>0 DEF IInv, TypeOK, Keys, reporterVars, ReportInProgress, PacketsConserved
<1>1. CASE TimerExpires
  BY <1>1 DEF TimerExpires, PacketsAccounted, InFlight
<1>2. CASE BeginReport
  BY <1>2 DEF BeginReport, PacketsAccounted, InFlight
<1>3. ASSUME NEW k \in Keys, ReadKey(k) PROVE IInv'
  BY <1>3 DEF ReadKey, PacketsAccounted, InFlight
<1>4. CASE EndReport
  <2>1. \A k \in Keys : report[k] = packets[k]
    BY <1>4 DEF EndReport
  <2>2. PacketsConserved'
    BY <1>4, <2>1 DEF EndReport, Zero
  <2> QED
    BY <1>4, <2>2 DEF EndReport, PacketsAccounted, InFlight
<1>5. CASE Rearm
  BY <1>5 DEF Rearm, PacketsAccounted, InFlight
<1>6. ASSUME NEW w \in Workers, Receive(w) PROVE IInv'
  <2>1. InFlight' = InFlight
    BY <1>6 DEF Receive, InFlight
  <2> QED
    BY <1>6, <2>1 DEF Receive, PacketsAccounted
<1>7. ASSUME NEW w \in Workers, CountReceived(w) PROVE IInv'
  <2>1. Cardinality(InFlight') = Cardinality(InFlight) + 1
    BY <1>7, OneMoreInFlight DEF CountReceived
  <2> QED
    BY <1>7, <2>1 DEF CountReceived, AddPacket, PacketsAccounted
<1>8. ASSUME NEW w \in Workers, Write(w) PROVE IInv'
  <2>1. CASE worker' = [worker EXCEPT ![w] = "written"] /\ UNCHANGED failed
    <3>1. InFlight' = InFlight
      BY <1>8, <2>1 DEF Write, InFlight
    <3> QED
      BY <1>8, <2>1, <3>1 DEF Write, PacketsAccounted
  <2>2. CASE worker' = [worker EXCEPT ![w] = "idle"] /\ failed' = failed + 1
    <3>1. Cardinality(InFlight') = Cardinality(InFlight) - 1
      BY <1>8, <2>2, OneLessInFlight DEF Write
    <3> QED
      BY <1>8, <2>2, <3>1 DEF Write, PacketsAccounted
  <2> QED
    BY <1>8, <2>1, <2>2 DEF Write
<1>9. ASSUME NEW w \in Workers, CountSent(w) PROVE IInv'
  <2>1. Cardinality(InFlight') = Cardinality(InFlight) - 1
    BY <1>9, OneLessInFlight DEF CountSent
  <2> QED
    BY <1>9, <2>1 DEF CountSent, AddPacket, PacketsAccounted
<1>10. CASE UNCHANGED vars
  BY <1>10 DEF vars, PacketsAccounted, InFlight
<1> QED
  BY <1>1, <1>2, <1>3, <1>4, <1>5, <1>6, <1>7, <1>8, <1>9, <1>10
     DEF Next, TimerStep, WorkerStep

\* The strengthening of the safety properties below.
THEOREM IInvCorrect == Spec => []IInv
<1>1. Init => IInv
  BY InitIInv
<1>2. IInv /\ [Next]_vars => IInv'
  BY StepIInv
<1> QED
  BY <1>1, <1>2, PTL DEF Spec

-----------------------------------------------------------------------------
(* The safety properties.                                                  *)

\* Every add_packet() is in exactly one report or still in packet_count_: mutex_
\* covers the loop and the clear() (flow_statistics.cpp:13-31).
THEOREM PacketsConservedCorrect == Spec => []PacketsConserved
<1>1. IInv => PacketsConserved
  BY DEF IInv
<1> QED
  BY <1>1, IInvCorrect, PTL

\* The reports never add up to more packets sent than received: each handler
\* counts what it read before it writes it on (tcp_session.cpp:95-97, 145-149).
THEOREM SentWereReceivedCorrect == Spec => []SentWereReceived
<1>1. ASSUME IInv PROVE SentWereReceived
  <2>1. Cardinality(InFlight) \in Nat
    BY InFlightFinite
  <2>2. added["sent"] <= added["received"]
    BY <1>1, <2>1 DEF IInv, TypeOK, PacketsAccounted, Keys
  <2> QED
    BY <1>1, <2>2 DEF IInv, PacketsConserved, SentWereReceived, Keys
<1> QED
  BY <1>1, IInvCorrect, PTL

-----------------------------------------------------------------------------
(* The statistics implement PacketReports.                                 *)

\* At the end of a report its numbers are those of packet_count_, although they
\* were read one after the other.
LEMMA ReportIsOneInstant ==
  ASSUME IInv, EndReport
  PROVE  reported' = Totals /\ Totals' = Totals
<1>1. \A k \in Keys : report[k] = packets[k]
  BY DEF IInv, ReportInProgress, EndReport
<1>2. reported' = Totals
  BY <1>1 DEF EndReport, Totals
<1>3. packets' = Zero
  BY DEF EndReport
<1>4. \A k \in Keys : reported'[k] + packets'[k] = reported[k] + packets[k]
  BY <1>2, <1>3 DEF Totals, Zero, IInv, TypeOK
<1> QED
  BY <1>2, <1>4 DEF Totals

\* An add_packet() adds one to the total of its key and nothing else.
LEMMA AddPacketAddsToTotals ==
  ASSUME TypeOK, NEW k \in Keys, AddPacket(k), UNCHANGED reported
  PROVE  Reports!Count(k)
<1>1. \A j \in Keys : packets'[j] = IF j = k THEN packets[j] + 1 ELSE packets[j]
  BY DEF AddPacket, TypeOK
<1>2. \A j \in Keys : Totals'[j] = IF j = k THEN Totals[j] + 1 ELSE Totals[j]
  BY <1>1 DEF Totals, TypeOK
<1>3. Totals' = [Totals EXCEPT ![k] = @ + 1]
  BY <1>2 DEF Totals
<1> QED
  BY <1>3 DEF Reports!Count

\* A thread that has written a packet has one that was received and not sent.
LEMMA SentWasReceived ==
  ASSUME IInv, NEW w \in Workers, worker[w] = "written"
  PROVE  Totals["sent"] < Totals["received"]
<1>1. Cardinality(InFlight) \in Nat
  BY InFlightFinite
<1>2. Cardinality(InFlight \ {w}) = Cardinality(InFlight) - 1
  BY InFlightFinite, FS_RemoveElement DEF InFlight
<1>3. Cardinality(InFlight \ {w}) \in Nat
  BY InFlightFinite, FS_RemoveElement, FS_CardinalityType
<1>4. added["sent"] < added["received"]
  BY <1>1, <1>2, <1>3 DEF IInv, TypeOK, PacketsAccounted, Keys
<1> QED
  BY <1>4 DEF IInv, PacketsConserved, Totals, Keys

\* Every step of the threads is a step of PacketReports or leaves it alone.
LEMMA StepReports == IInv /\ [Next]_vars => [Reports!Next]_(Reports!vars)
<1> SUFFICES ASSUME IInv, [Next]_vars PROVE [Reports!Next]_(Reports!vars)
  OBVIOUS
<1>0. TypeOK
  BY DEF IInv
<1> USE DEF reporterVars, Reports!vars
<1>1. CASE TimerExpires
  BY <1>1 DEF TimerExpires, Totals
<1>2. CASE BeginReport
  BY <1>2 DEF BeginReport, Totals
<1>3. ASSUME NEW k \in Keys, ReadKey(k) PROVE UNCHANGED Reports!vars
  BY <1>3 DEF ReadKey, Totals
<1>4. CASE EndReport
  BY <1>4, ReportIsOneInstant DEF Reports!Next, Reports!Report
<1>5. CASE Rearm
  BY <1>5 DEF Rearm, Totals
<1>6. ASSUME NEW w \in Workers, Receive(w) PROVE UNCHANGED Reports!vars
  BY <1>6 DEF Receive, Totals
<1>7. ASSUME NEW w \in Workers, CountReceived(w) PROVE Reports!Next
  <2>1. Reports!Count("received")
    BY <1>0, <1>7, AddPacketAddsToTotals DEF CountReceived, Keys
  <2> QED
    BY <2>1 DEF Reports!Next, Reports!CountReceived
<1>8. ASSUME NEW w \in Workers, Write(w) PROVE UNCHANGED Reports!vars
  BY <1>8 DEF Write, Totals
<1>9. ASSUME NEW w \in Workers, CountSent(w) PROVE Reports!Next
  <2>1. Reports!Count("sent")
    BY <1>0, <1>9, AddPacketAddsToTotals DEF CountSent, Keys
  <2>2. Totals["sent"] < Totals["received"]
    BY <1>9, SentWasReceived DEF CountSent
  <2> QED
    BY <2>1, <2>2 DEF Reports!Next, Reports!CountSent
<1>10. CASE UNCHANGED vars
  BY <1>10 DEF vars, Totals
<1> QED
  BY <1>1, <1>2, <1>3, <1>4, <1>5, <1>6, <1>7, <1>8, <1>9, <1>10
     DEF Next, TimerStep, WorkerStep

\* The reports in the log add up to what had been counted at one instant, and
\* none shows a packet as sent that no report up to it shows as received: mutex_
\* covers the loop and the clear() (flow_statistics.cpp:13-31), and a handler
\* counts what it read before it writes it on (tcp_session.cpp:95-97, 145-149).
THEOREM ReportsCorrect == Spec => ReportsSpec
<1>1. Init => Reports!Init
  BY DEF Init, Reports!Init, Totals, Zero, Keys
<1>2. IInv /\ [Next]_vars => [Reports!Next]_(Reports!vars)
  BY StepReports
<1> QED
  BY <1>1, <1>2, IInvCorrect, PTL DEF Spec, ReportsSpec, Reports!Spec
=============================================================================
