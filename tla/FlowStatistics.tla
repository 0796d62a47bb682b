--------------------------- MODULE FlowStatistics ---------------------------
(***************************************************************************)
(* The packet counters of src/utils/flow_statistics.cpp and                *)
(* tcp_flow_statistics.cpp, and the task_timer that reports them.          *)
(*                                                                         *)
(* The threads of the io_contexts relay packets and count each one twice,  *)
(* when it was received and when it was written on; the timer's own thread *)
(* logs and clears the counters every statistics_interval.  mutex_ guards  *)
(* packet_count_: add_packet() does a single update under it and is one    *)
(* step here, log_packets() holds it from its first read to the clear().   *)
(***************************************************************************)
EXTENDS Integers, FiniteSets

CONSTANTS
  Workers,    \* the threads that relay
  MaxPackets  \* bound: packets counted as received before no more arrive

ASSUME WorkersAssumption    == IsFiniteSet(Workers)
ASSUME MaxPacketsAssumption == MaxPackets \in Nat

\* The contexts of add_packet(), for one direction and one target.
Keys == {"received", "sent"}

VARIABLES
  packets,   \* packet_count_; a key that is absent counts 0
  locked,    \* the reporter holds mutex_
  tick,      \* where the task_timer and its callback stand
  unread,    \* keys the report has not got to
  report,    \* the numbers in the report so far
  worker,    \* what each relaying thread is about to do
  added,     \* history: calls of add_packet() by key
  reported,  \* history: sum of all reports by key
  failed     \* history: packets that could not be written on

reporterVars == <<locked, tick, unread, report, reported>>
vars == <<packets, reporterVars, worker, added, failed>>

TypeOK ==
  /\ packets \in [Keys -> Nat]
  /\ locked \in BOOLEAN
  /\ tick \in {"pending", "due", "read", "rearm"}
  /\ unread \subseteq Keys
  /\ report \in [Keys -> Nat]
  /\ worker \in [Workers -> {"idle", "received", "write", "written"}]
  /\ added \in [Keys -> Nat]
  /\ reported \in [Keys -> Nat]
  /\ failed \in Nat

Zero == [k \in Keys |-> 0]

\* tcp_flow_statistics() has started the timer.
Init ==
  /\ packets = Zero
  /\ locked = FALSE
  /\ tick = "pending"
  /\ unread = {} /\ report = Zero
  /\ worker = [w \in Workers |-> "idle"]
  /\ added = Zero /\ reported = Zero /\ failed = 0

-----------------------------------------------------------------------------
(* The relaying threads.                                                   *)

\* add_packet(k), once mutex_ is free.
AddPacket(k) ==
  /\ ~locked
  /\ packets' = [packets EXCEPT ![k] = @ + 1]
  /\ added' = [added EXCEPT ![k] = @ + 1]

\* A read completes with data.
Receive(w) ==
  /\ worker[w] = "idle"
  /\ added["received"] < MaxPackets
  /\ worker' = [worker EXCEPT ![w] = "received"]
  /\ UNCHANGED <<packets, reporterVars, added, failed>>

CountReceived(w) ==
  /\ worker[w] = "received"
  /\ AddPacket("received")
  /\ worker' = [worker EXCEPT ![w] = "write"]
  /\ UNCHANGED <<reporterVars, failed>>

\* Variant of Write: the packet goes on to be counted although the write failed,
\* and the next one is written without another read.
Write_Repeats(w) ==
  /\ worker[w] \in {"write", "idle"}
  /\ worker' = [worker EXCEPT ![w] = "written"]
  /\ UNCHANGED <<packets, reporterVars, added, failed>>

\* The write returns; a packet that could not be written is not counted again.
Write(w) ==
  /\ worker[w] = "write"
  /\ \/ worker' = [worker EXCEPT ![w] = "written"] /\ UNCHANGED failed
     \/ worker' = [worker EXCEPT ![w] = "idle"] /\ failed' = failed + 1
  /\ UNCHANGED <<packets, reporterVars, added>>

CountSent(w) ==
  /\ worker[w] = "written"
  /\ AddPacket("sent")
  /\ worker' = [worker EXCEPT ![w] = "idle"]
  /\ UNCHANGED <<reporterVars, failed>>

-----------------------------------------------------------------------------
(* The timer's thread.                                                     *)

TimerExpires ==
  /\ tick = "pending"
  /\ tick' = "due"
  /\ UNCHANGED <<packets, locked, unread, report, worker, added, reported, failed>>

\* Variant of BeginReport: the scoped_lock is forgotten.
BeginReport_Unlocked ==
  /\ tick = "due"
  /\ tick' = "read"
  /\ unread' = Keys /\ report' = Zero
  /\ UNCHANGED <<packets, locked, worker, added, reported, failed>>

\* log_packets() has the lock.
BeginReport ==
  /\ tick = "due"
  /\ locked' = TRUE
  /\ tick' = "read"
  /\ unread' = Keys /\ report' = Zero
  /\ UNCHANGED <<packets, worker, added, reported, failed>>

\* One round of the loop over packet_count_.
ReadKey(k) ==
  /\ tick = "read" /\ k \in unread
  /\ report' = [report EXCEPT ![k] = packets[k]]
  /\ unread' = unread \ {k}
  /\ UNCHANGED <<packets, locked, tick, worker, added, reported, failed>>

\* Variant of EndReport: an early return past clear() keeps the lock.
EndReport_KeepsLock ==
  /\ tick = "read" /\ unread = {}
  /\ reported' = [k \in Keys |-> reported[k] + report[k]]
  /\ packets' = Zero
  /\ tick' = "rearm"
  /\ UNCHANGED <<locked, unread, report, worker, added, failed>>

\* The report is logged, packet_count_ cleared, the lock released.
EndReport ==
  /\ tick = "read" /\ unread = {}
  /\ reported' = [k \in Keys |-> reported[k] + report[k]]
  /\ packets' = Zero
  /\ locked' = FALSE
  /\ tick' = "rearm"
  /\ UNCHANGED <<unread, report, worker, added, failed>>

\* Variant of Rearm: the timer is treated as single shot.
Rearm_SingleShot ==
  /\ tick = "rearm" /\ tick' = "rearm"
  /\ UNCHANGED vars

\* The callbacks have returned: start() again.
Rearm ==
  /\ tick = "rearm"
  /\ tick' = "pending"
  /\ UNCHANGED <<packets, locked, unread, report, worker, added, reported, failed>>

TimerStep ==
  \/ TimerExpires \/ BeginReport \/ EndReport \/ Rearm
  \/ \E k \in Keys : ReadKey(k)

WorkerStep(w) == CountReceived(w) \/ Write(w) \/ CountSent(w)

Next ==
  \/ TimerStep
  \/ \E w \in Workers : Receive(w) \/ WorkerStep(w)

Spec == Init /\ [][Next]_vars

\* Threads run, writes return, and a thread that waits for mutex_ gets it some
\* time when it is free again and again.
FairSpec == Spec /\ WF_vars(TimerStep) /\ \A w \in Workers : SF_vars(WorkerStep(w))

-----------------------------------------------------------------------------
(* Safety.                                                                 *)

\* No packet is lost between the report and clear(), and none is reported twice.
PacketsConserved == \A k \in Keys : added[k] = reported[k] + packets[k]

\* Over all reports, no more packets were sent than were received, although one
\* interval alone may show that (received before a clear(), sent after it).
SentWereReceived == reported["sent"] + packets["sent"]
                      <= reported["received"] + packets["received"]

\* What was counted so far: reported before, or still in packet_count_.
Totals == [k \in Keys |-> reported[k] + packets[k]]

Reports == INSTANCE PacketReports WITH counted <- Totals

\* The statistics implement PacketReports: although a report is read key by key
\* while packets are relayed, it has the numbers of one instant, and it goes
\* over to the totals in the same step that clears packet_count_.
ReportsSpec == Reports!Spec

(* Liveness.                                                               *)

\* What was counted is reported.
CountedIsReported == \A k \in Keys : packets[k] > 0 ~> packets[k] = 0

\* A relaying thread does not wait for mutex_ forever.
CountingReturns ==
  \A w \in Workers : worker[w] \in {"received", "written"} ~> worker[w] \in {"idle", "write"}
=============================================================================
