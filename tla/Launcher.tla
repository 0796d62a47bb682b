------------------------------ MODULE Launcher ------------------------------
(***************************************************************************)
(* How the program comes up (main.cpp, launcher, config_loader, address):  *)
(* both configuration files are read, the type selects a manager, and the  *)
(* manager is constructed.  What it does from then on is the business of   *)
(* ContextPool, TcpSession and UdpProxy.                                   *)
(*                                                                         *)
(* A text that should be an IP address is written as the sequence of its   *)
(* parts between the dots, a part as the sequence of its digits.           *)
(***************************************************************************)
EXTENDS Integers, SequencesExt

CONSTANTS
  Texts,     \* what the configuration may give as the IP address of a target
  PoolSizes  \* values of io_context_pool_size

ASSUME TextsAssumption     == Texts \subseteq Seq(Seq(0..9))
ASSUME PoolSizesAssumption == PoolSizes \subseteq Nat

NoText    == << <<>> >>                          \* the empty string
DefaultIp == << <<1, 2, 7>>, <<0>>, <<0>>, <<1>> >>

-----------------------------------------------------------------------------
(* address::make_ip                                                        *)

Digit == 0..9

\* What stands between the bars of the regular expression, in its order.
Alternatives ==
  << {<<a>>       : a \in Digit},
     {<<a, b>>    : a \in 1..9, b \in Digit},
     {<<1, a, b>> : a \in Digit, b \in Digit},
     {<<2, a, b>> : a \in 0..4, b \in Digit},
     {<<2, 5, a>> : a \in 0..5} >>

Octets == UNION ToSet(Alternatives)

From(part, k) == SubSeq(part, k, Len(part))

\* The last number has nothing behind it that would make the search try the
\* next alternative: the first that fits is taken.
LastNumber(part) ==
  LET first == SelectInSeq(Alternatives, LAMBDA A : Prefixes(part) \cap A # {})
  IN  CHOOSE n \in Prefixes(part) : n \in Alternatives[first]

\* The expression matches from the k-th digit of the i-th part on: the first
\* three numbers end at a dot, the last wherever it likes.
Matches(text, i, k) ==
  /\ From(text[i], k) \in Octets
  /\ {text[i + 1], text[i + 2]} \subseteq Octets
  /\ Prefixes(text[i + 3]) \cap Octets # {}

MatchStarts(text) ==
  LET places == UNION {{i} \X DOMAIN text[i] : i \in 1..(Len(text) - 3)}
  IN  {p \in places : Matches(text, p[1], p[2])}

\* Variant of Leftmost: within a part, the shortest number that fits.
Leftmost_Short(starts) ==
  CHOOSE s \in starts : \A r \in starts : s[1] < r[1] \/ (s[1] = r[1] /\ s[2] >= r[2])

Leftmost(starts) ==
  CHOOSE s \in starts : \A r \in starts : s[1] < r[1] \/ (s[1] = r[1] /\ s[2] <= r[2])

\* Variant of MakeIp: the text has to match from its beginning.
MakeIp_Anchored(text) ==
  IF <<1, 1>> \notin MatchStarts(text) THEN NoText
  ELSE <<text[1], text[2], text[3], LastNumber(text[4])>>

\* regex_search takes the leftmost match.
MakeIp(text) ==
  IF MatchStarts(text) = {} THEN NoText
  ELSE LET s == Leftmost(MatchStarts(text))
           i == s[1]
       IN  <<From(text[i], s[2]), text[i + 1], text[i + 2], LastNumber(text[i + 3])>>

\* A number of an address as people write them: without leading zeros, in a byte,
\* and so of three digits at most.
IsNumber(part) ==
  LET digit(k) == IF k < Len(part) THEN part[Len(part) - k] ELSE 0  \* k-th from behind
  IN  /\ Len(part) \in 1..3
      /\ Len(part) > 1 => part[1] # 0
      /\ 100 * digit(2) + 10 * digit(1) + digit(0) <= 255

IsAddress(text) == Len(text) = 4 /\ \A i \in 1..4 : IsNumber(text[i])

-----------------------------------------------------------------------------
(* main() and launcher::start()                                            *)

VARIABLES
  pc,        \* where main() stands, or how it ended
  local,     \* local_config
  remote,    \* remote_config, with one of its forward addresses
  written    \* history: the text of that address in the file

vars == <<pc, local, remote, written>>

ListenTexts == {DefaultIp, NoText}  \* listen_ip: an address, and a text that is none

Ended == {"returned", "terminated", "crashed"}

TypeOK ==
  /\ pc \in {"local", "remote", "check", "select", "construct", "serving"} \cup Ended
  /\ local \in [ready : BOOLEAN, pool : PoolSizes \cup {0}, ip : ListenTexts]
  /\ remote.ready \in BOOLEAN /\ remote.type \in {"", "tcp", "udp", "other"}
  /\ remote.target = NoText \/ Len(remote.target) = 4
  /\ written \in Texts \cup {NoText}

\* Nothing has been read; the members have the values of their initialisers.
Init ==
  /\ pc = "local"
  /\ local  = [ready |-> FALSE, pool |-> 0, ip |-> DefaultIp]
  /\ remote = [ready |-> FALSE, type |-> "", target |-> NoText]
  /\ written = NoText

\* The file cannot be opened: the configuration keeps its initial values.
FileMissing ==
  /\ \/ pc = "local"  /\ pc' = "remote"
     \/ pc = "remote" /\ pc' = "check"
  /\ UNCHANGED <<local, remote, written>>

\* No JSON, a key missing or of the wrong type: an exception that nobody catches,
\* or (a key operator[] does not find in a constant object) undefined behaviour.
FileBroken ==
  /\ pc \in {"local", "remote"}
  /\ pc' \in {"terminated", "crashed"}
  /\ UNCHANGED <<local, remote, written>>

\* listen_ip is optional, and taken as it is.
LoadLocal ==
  /\ pc = "local"
  /\ pc' = "remote"
  /\ \E pool \in PoolSizes, ip \in ListenTexts :
       local' = [ready |-> TRUE, pool |-> pool, ip |-> ip]
  /\ UNCHANGED <<remote, written>>

\* Forward addresses go through make_ip(), which answers "" to what it cannot use.
LoadRemote ==
  /\ pc = "remote"
  /\ pc' = "check"
  /\ \E type \in {"tcp", "udp", "other"}, text \in Texts :
       /\ remote' = [ready |-> TRUE, type |-> type, target |-> MakeIp(text)]
       /\ written' = text
  /\ UNCHANGED local

\* Variant of CheckReady: only both files together are missed.
CheckReady_Both ==
  /\ pc = "check"
  /\ pc' = IF ~local.ready /\ ~remote.ready THEN "terminated" ELSE "select"
  /\ UNCHANGED <<local, remote, written>>

\* The throw of "config error" is not caught by main().
CheckReady ==
  /\ pc = "check"
  /\ pc' = IF local.ready /\ remote.ready THEN "select" ELSE "terminated"
  /\ UNCHANGED <<local, remote, written>>

\* A type that is not known ends the program without a word.
SelectManager ==
  /\ pc = "select"
  /\ pc' = IF remote.type \in {"tcp", "udp"} THEN "construct" ELSE "returned"
  /\ UNCHANGED <<local, remote, written>>

\* The first io_context of an empty pool is undefined behaviour; make_endpoint()
\* throws if the text is no address; bind() may fail, which throws too.
Construct ==
  /\ pc = "construct"
  /\ \/ local.pool = 0 /\ pc' = "crashed"
     \/ local.pool > 0 /\ IsAddress(local.ip) /\ pc' = "serving"
     \/ (local.pool > 0 \/ ~IsAddress(local.ip)) /\ pc' = "terminated"
  /\ UNCHANGED <<local, remote, written>>

Next ==
  \/ FileMissing \/ FileBroken \/ LoadLocal \/ LoadRemote
  \/ CheckReady \/ SelectManager \/ Construct

Spec == Init /\ [][Next]_vars

-----------------------------------------------------------------------------
(* Properties                                                              *)

\* How the launch ends fits the files: a proxy that serves was configured, with a
\* manager, an address to listen on and a context; and the program exits without an
\* error only when both files were read and the type is not known.  A file that is
\* missing is never taken for either (launcher.cpp:18).
OutcomeFitsFiles ==
  /\ pc = "serving" =>
       /\ local.ready /\ remote.ready /\ remote.type \in {"tcp", "udp"}
       /\ local.pool > 0 /\ IsAddress(local.ip)
  /\ pc = "returned" => local.ready /\ remote.ready /\ remote.type = "other"

\* What make_ip() returns stands in the text it was given, and is an address, so
\* that make_endpoint() does not throw on it when a client comes (address.cpp:26).
TargetIsInText ==
  remote.target # NoText =>
    /\ IsAddress(remote.target)
    /\ \E i \in 1..(Len(written) - 3) :
         /\ IsSuffix(remote.target[1], written[i])
         /\ SubSeq(remote.target, 2, 3) = SubSeq(written, i + 1, i + 2)
         /\ IsPrefix(remote.target[4], written[i + 3])

\* make_ip() finds an address wherever there is one in the text, in front of and
\* behind other digits (address.cpp:22-30).
AddressIsFound ==
  remote.ready =>
    \A i \in 1..(Len(written) - 3) :
      (/\ \E n \in Suffixes(written[i]) : IsNumber(n)
       /\ IsNumber(written[i + 1]) /\ IsNumber(written[i + 2])
       /\ \E n \in Prefixes(written[i + 3]) : IsNumber(n)) => remote.target # NoText

\* make_ip() gives an address of the text, and none only if there is none
\* (address.cpp:20-31).
SearchIsRight == TargetIsInText /\ AddressIsFound

\* Of a text that is an address, the first three numbers are kept, and of the last
\* the first digit only: [0-9] is the first alternative there too (address.cpp:23).
LastNumberIsCut ==
  remote.ready /\ IsAddress(written) =>
    /\ SubSeq(remote.target, 1, 3) = SubSeq(written, 1, 3)
    /\ remote.target[4] = <<written[4][1]>>
=============================================================================
