--------------------------- MODULE PacketReports ---------------------------
(***************************************************************************)
(* What the statistics promise to the reader of the log: the reports add   *)
(* up to what had been counted at one instant, in both directions, and     *)
(* what was counted as sent had been received before.  Only totals appear  *)
(* here; FlowStatistics, which holds them in parts that several threads    *)
(* change and read one after the other, implements this.                   *)
(***************************************************************************)
EXTENDS Integers

VARIABLES
  counted,  \* by key: all the packets counted so far
  reported  \* by key: the sum of all reports

vars == <<counted, reported>>

Init ==
  /\ counted = [k \in {"received", "sent"} |-> 0]
  /\ reported = counted

Count(k) ==
  /\ counted' = [counted EXCEPT ![k] = @ + 1]
  /\ UNCHANGED reported

\* A packet is received before it is sent.
CountReceived == Count("received")

CountSent == counted["sent"] < counted["received"] /\ Count("sent")

\* All keys at the same instant.
Report ==
  /\ reported' = counted
  /\ UNCHANGED counted

Next == CountReceived \/ CountSent \/ Report

Spec == Init /\ [][Next]_vars
=============================================================================
