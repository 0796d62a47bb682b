--------------------------- MODULE LauncherProofs ---------------------------
(***************************************************************************)
(* Theorems of Launcher, for whatever the configuration gives as addresses *)
(* and sizes of the pool, and of TextUtils, for integers of every width    *)
(* and lists of every length.                                              *)
(*                                                                         *)
(* What is said of recursive functions and of the first place in a text is *)
(* by induction: every set of naturals has a least element, the order on   *)
(* them being well-founded, so a set that holds 0 and with each number the *)
(* next holds them all (SetInduction).                                     *)
(***************************************************************************)
EXTENDS Launcher, TextUtils, SequenceTheorems, WellFoundedInduction, TLAPS

\* What make_ip() returns has four parts, or is no text.
LEMMA MakeIpType == \A text : MakeIp(text) = NoText \/ Len(MakeIp(text)) = 4
BY DEF MakeIp

LEMMA InitTypeOK == Init => TypeOK
<1> SUFFICES ASSUME Init PROVE TypeOK
  OBVIOUS
<1>1. FALSE \in BOOLEAN /\ DefaultIp \in ListenTexts
  BY DEF ListenTexts
<1>2. local = [ready |-> FALSE, pool |-> 0, ip |-> DefaultIp]
  BY DEF Init
<1>3. local \in [ready : BOOLEAN, pool : PoolSizes \cup {0}, ip : ListenTexts]
  BY <1>1, <1>2
<1>4. remote.ready \in BOOLEAN /\ remote.type = "" /\ remote.target = NoText
  BY <1>1 DEF Init
<1>5. pc = "local" /\ written = NoText
  BY DEF Init
<1> QED
  BY <1>3, <1>4, <1>5 DEF TypeOK

LEMMA StepTypeOK == TypeOK /\ [Next]_vars => TypeOK'
<1> SUFFICES ASSUME TypeOK, [Next]_vars PROVE TypeOK'
  OBVIOUS
<1> USE DEF TypeOK, Ended
<1>1. CASE FileMissing
  BY <1>1 DEF FileMissing
<1>2. CASE FileBroken
  BY <1>2 DEF FileBroken
<1>3. CASE LoadLocal
  <2>1. PICK pool \in PoolSizes, ip \in ListenTexts :
          local' = [ready |-> TRUE, pool |-> pool, ip |-> ip]
    BY <1>3 DEF LoadLocal
  <2>2. TRUE \in BOOLEAN /\ pool \in PoolSizes \cup {0}
    OBVIOUS
  <2>3. local' \in [ready : BOOLEAN, pool : PoolSizes \cup {0}, ip : ListenTexts]
    BY <2>1, <2>2
  <2>4. pc' = "remote" /\ UNCHANGED <<remote, written>>
    BY <1>3 DEF LoadLocal
  <2> QED
    BY <2>3, <2>4
<1>4. CASE LoadRemote
  <2>1. PICK type \in {"tcp", "udp", "other"}, text \in Texts :
          /\ remote' = [ready |-> TRUE, type |-> type, target |-> MakeIp(text)]
          /\ written' = text
    BY <1>4 DEF LoadRemote
  <2>2. TRUE \in BOOLEAN
    OBVIOUS
  <2>3. remote'.ready \in BOOLEAN /\ remote'.type \in {"tcp", "udp", "other"}
    BY <2>1, <2>2
  <2>4. remote'.target = MakeIp(text)
    BY <2>1
  <2>5. remote'.target = NoText \/ Len(remote'.target) = 4
    BY <2>4, MakeIpType
  <2>6. pc' = "check" /\ local' = local /\ written' \in Texts
    BY <1>4, <2>1 DEF LoadRemote
  <2> QED
    BY <2>3, <2>5, <2>6
<1>5. CASE CheckReady
  BY <1>5 DEF CheckReady
<1>6. CASE SelectManager
  BY <1>6 DEF SelectManager
<1>7. CASE Construct
  BY <1>7 DEF Construct
<1>8. CASE UNCHANGED vars
  BY <1>8 DEF vars
<1> QED
  BY <1>1, <1>2, <1>3, <1>4, <1>5, <1>6, <1>7, <1>8 DEF Next

\* main() is at one of its places, and a target is an address of four parts or no
\* text at all (launcher.cpp, config_loader.cpp).
THEOREM TypeCorrect == Spec => []TypeOK
BY InitTypeOK, StepTypeOK, PTL DEF Spec

\* What is known between the test of the files and the end.
ReadyOnceChecked ==
  /\ pc \in {"select", "construct"} => local.ready /\ remote.ready
  /\ pc = "construct" => remote.type \in {"tcp", "udp"}
  /\ remote.ready => remote.type \in {"tcp", "udp", "other"}

IInv == TypeOK /\ ReadyOnceChecked /\ OutcomeFitsFiles

LEMMA InitIInv == Init => IInv
<1> SUFFICES ASSUME Init PROVE IInv
  OBVIOUS
<1>1. pc = "local" /\ remote = [ready |-> FALSE, type |-> "", target |-> NoText]
  BY DEF Init
<1>2. ~remote.ready
  BY <1>1
<1> QED
  BY <1>1, <1>2, InitTypeOK DEF IInv, ReadyOnceChecked, OutcomeFitsFiles

LEMMA StepIInv == IInv /\ [Next]_vars => IInv'
<1> SUFFICES ASSUME IInv, [Next]_vars PROVE ReadyOnceChecked' /\ OutcomeFitsFiles'
  BY StepTypeOK DEF IInv
<1> USE DEF IInv, ReadyOnceChecked, OutcomeFitsFiles
<1>1. CASE FileMissing
  BY <1>1 DEF FileMissing
<1>2. CASE FileBroken
  BY <1>2 DEF FileBroken
<1>3. CASE LoadLocal
  BY <1>3 DEF LoadLocal
<1>4. CASE LoadRemote
  <2>1. remote'.type \in {"tcp", "udp", "other"} /\ pc' = "check" /\ local' = local
    BY <1>4 DEF LoadRemote
  <2> QED
    BY <2>1
<1>5. CASE CheckReady
  BY <1>5 DEF CheckReady
<1>6. CASE SelectManager
  <2>1. pc = "select" /\ UNCHANGED <<local, remote, written>>
    BY <1>6 DEF SelectManager
  <2>2. CASE remote.type \in {"tcp", "udp"}
    <3>1. pc' = "construct"
      BY <1>6, <2>2 DEF SelectManager
    <3> QED
      BY <2>1, <2>2, <3>1
  <2>3. CASE remote.type \notin {"tcp", "udp"}
    <3>1. pc' = "returned"
      BY <1>6, <2>3 DEF SelectManager
    <3>2. remote.type = "other"
      BY <2>1, <2>3
    <3> QED
      BY <2>1, <3>1, <3>2
  <2> QED
    BY <2>2, <2>3
<1>7. CASE Construct
  BY <1>7 DEF Construct
<1>8. CASE UNCHANGED vars
  BY <1>8 DEF vars
<1> QED
  BY <1>1, <1>2, <1>3, <1>4, <1>5, <1>6, <1>7, <1>8 DEF Next

\* A proxy that serves was configured with a manager, an address and a context, and
\* an exit without an error means an unknown type (launcher.cpp:16-60).
THEOREM OutcomeFitsFilesCorrect == Spec => []OutcomeFitsFiles
<1>1. Spec => []IInv
  BY InitIInv, StepIInv, PTL DEF Spec
<1>2. IInv => OutcomeFitsFiles
  BY DEF IInv
<1> QED
  BY <1>1, <1>2, PTL

-----------------------------------------------------------------------------
(* Least elements, and induction.                                          *)

\* The order of the naturals is well-founded: a set of them has a least element.
LEMMA NatHasLeast ==
  ASSUME NEW S \in SUBSET Nat, S # {}
  PROVE  \E m \in S : \A n \in S : m <= n
<1>1. PICK m \in S : \A n \in S : ~(<<n, m>> \in OpToRel(<, Nat))
  BY NatLessThanWellFounded, WFMin
<1>2. \A n \in S : <<n, m>> \in Nat \X Nat
  OBVIOUS
<1>3. \A n \in S : ~(n < m)
  BY <1>1, <1>2 DEF OpToRel
<1> QED
  BY <1>3

\* Min() of FiniteSetsExt is that element.
LEMMA MinIsLeast ==
  ASSUME NEW S \in SUBSET Nat, S # {}
  PROVE  Min(S) \in S /\ \A n \in S : Min(S) <= n
BY NatHasLeast DEF Min

\* Induction, for a set in place of a predicate.
LEMMA SetInduction ==
  ASSUME NEW S, 0 \in S, \A n \in Nat : n \in S => n + 1 \in S
  PROVE  \A n \in Nat : n \in S
<1> DEFINE others == {n \in Nat : n \notin S}
<1> SUFFICES ASSUME others # {} PROVE FALSE
  OBVIOUS
<1>1. PICK m \in others : \A n \in others : m <= n
  BY NatHasLeast
<1>2. m # 0 /\ m - 1 \in Nat /\ m - 1 \notin others
  BY <1>1
<1>3. m - 1 \in S /\ (m - 1) + 1 = m
  BY <1>2
<1> QED
  BY <1>2, <1>3

\* The same, up to a bound.
LEMMA SetInductionUpTo ==
  ASSUME NEW S, NEW max \in Nat, 0 \in S, \A n \in 0..(max - 1) : n \in S => n + 1 \in S
  PROVE  \A n \in 0..max : n \in S
<1> DEFINE T == {n \in Nat : n <= max => n \in S}
<1>1. 0 \in T
  OBVIOUS
<1>2. \A n \in Nat : n \in T => n + 1 \in T
  OBVIOUS
<1> HIDE DEF T
<1>3. \A n \in Nat : n \in T
  BY <1>1, <1>2, SetInduction
<1> QED
  BY <1>3 DEF T

-----------------------------------------------------------------------------
(* The search for an address.                                              *)

\* The five alternatives of the pattern for a number, as one set.
LEMMA OctetsDef ==
  Octets = {<<a>> : a \in Digit} \cup {<<a, b>> : a \in 1..9, b \in Digit}
           \cup {<<1, a, b>> : a \in Digit, b \in Digit}
           \cup {<<2, a, b>> : a \in 0..4, b \in Digit}
           \cup {<<2, 5, a>> : a \in 0..5}
<1> DEFINE A1 == {<<a>> : a \in Digit}
           A2 == {<<a, b>> : a \in 1..9, b \in Digit}
           A3 == {<<1, a, b>> : a \in Digit, b \in Digit}
           A4 == {<<2, a, b>> : a \in 0..4, b \in Digit}
           A5 == {<<2, 5, a>> : a \in 0..5}
<1>1. Alternatives = <<A1, A2, A3, A4, A5>>
  BY DEF Alternatives
<1> HIDE DEF A1, A2, A3, A4, A5
<1>2. ToSet(Alternatives) = {A1, A2, A3, A4, A5}
  BY <1>1 DEF ToSet
<1>3. Octets = A1 \cup A2 \cup A3 \cup A4 \cup A5
  BY <1>2 DEF Octets
<1> QED
  BY <1>3 DEF A1, A2, A3, A4, A5

\* What an alternative matches is a number of at most 255 ...
LEMMA OctetIsNumber ==
  ASSUME NEW part \in Octets
  PROVE  IsNumber(part) /\ part \in Seq(Digit)
<1> USE DEF Digit
<1>1. CASE part \in {<<a>> : a \in Digit}
  <2>1. PICK a \in Digit : part = <<a>>
    BY <1>1
  <2>2. Len(part) = 1 /\ part[1] = a
    BY <2>1
  <2> QED
    BY <2>1, <2>2 DEF IsNumber
<1>2. CASE part \in {<<a, b>> : a \in 1..9, b \in Digit}
  <2>1. PICK a \in 1..9, b \in Digit : part = <<a, b>>
    BY <1>2
  <2>2. Len(part) = 2 /\ part[1] = a /\ part[2] = b
    BY <2>1
  <2> QED
    BY <2>1, <2>2 DEF IsNumber
<1>3. CASE part \in {<<1, a, b>> : a \in Digit, b \in Digit}
  <2>1. PICK a \in Digit, b \in Digit : part = <<1, a, b>>
    BY <1>3
  <2>2. Len(part) = 3 /\ part[1] = 1 /\ part[2] = a /\ part[3] = b
    BY <2>1
  <2> QED
    BY <2>1, <2>2 DEF IsNumber
<1>4. CASE part \in {<<2, a, b>> : a \in 0..4, b \in Digit}
  <2>1. PICK a \in 0..4, b \in Digit : part = <<2, a, b>>
    BY <1>4
  <2>2. Len(part) = 3 /\ part[1] = 2 /\ part[2] = a /\ part[3] = b
    BY <2>1
  <2> QED
    BY <2>1, <2>2 DEF IsNumber
<1>5. CASE part \in {<<2, 5, a>> : a \in 0..5}
  <2>1. PICK a \in 0..5 : part = <<2, 5, a>>
    BY <1>5
  <2>2. Len(part) = 3 /\ part[1] = 2 /\ part[2] = 5 /\ part[3] = a
    BY <2>1
  <2> QED
    BY <2>1, <2>2 DEF IsNumber
<1> QED
  BY <1>1, <1>2, <1>3, <1>4, <1>5, OctetsDef

\* The three digits of such a number.
LEMMA HundredsInByte ==
  ASSUME NEW a \in 1..9, NEW b \in 0..9, NEW c \in 0..9, 100 * a + 10 * b + c <= 255
  PROVE  a = 1 \/ (a = 2 /\ b \in 0..4) \/ (a = 2 /\ b = 5 /\ c \in 0..5)
<1>1. a = 1 \/ a = 2
  OBVIOUS
<1>2. ASSUME a = 2 PROVE b \in 0..4 \/ (b = 5 /\ c \in 0..5)
  <2>1. 10 * b + c <= 55
    BY <1>2
  <2> QED
    BY <2>1
<1> QED
  BY <1>1, <1>2

\* ... and each such number is matched by one.
LEMMA NumberIsOctet ==
  ASSUME NEW part \in Seq(Digit), IsNumber(part)
  PROVE  part \in Octets
<1>1. CASE Len(part) = 1
  <2>1. part = <<part[1]>> /\ part[1] \in Digit
    BY <1>1
  <2> QED
    BY <2>1, OctetsDef
<1>2. CASE Len(part) = 2
  <2>1. part = <<part[1], part[2]>> /\ part[1] \in Digit /\ part[2] \in Digit
    BY <1>2
  <2>2. part[1] \in 1..9
    BY <1>2, <2>1 DEF IsNumber, Digit
  <2>3. part \in {<<a, b>> : a \in 1..9, b \in Digit}
    BY <2>1, <2>2
  <2> QED
    BY <2>3, OctetsDef
<1>3. CASE Len(part) = 3
  <2>1. /\ part = <<part[1], part[2], part[3]>>
        /\ part[1] \in Digit /\ part[2] \in Digit /\ part[3] \in Digit
    BY <1>3
  <2>2. part[1] # 0 /\ 100 * part[1] + 10 * part[2] + part[3] <= 255
    BY <1>3, <2>1 DEF IsNumber, Digit
  <2> DEFINE h == part[1]
             t == part[2]
             u == part[3]
  <2>5. h \in 1..9 /\ t \in 0..9 /\ u \in 0..9 /\ 100 * h + 10 * t + u <= 255
    BY <2>1, <2>2 DEF Digit
  <2> HIDE DEF h, t, u
  <2>6. h = 1 \/ (h = 2 /\ t \in 0..4) \/ (h = 2 /\ t = 5 /\ u \in 0..5)
    BY <2>5, HundredsInByte
  <2>3. \/ part[1] = 1
        \/ part[1] = 2 /\ part[2] \in 0..4
        \/ part[1] = 2 /\ part[2] = 5 /\ part[3] \in 0..5
    BY <2>6 DEF h, t, u
  <2>4. \/ part \in {<<1, a, b>> : a \in Digit, b \in Digit}
        \/ part \in {<<2, a, b>> : a \in 0..4, b \in Digit}
        \/ part \in {<<2, 5, a>> : a \in 0..5}
    BY <2>1, <2>3
  <2> QED
    BY <2>4, OctetsDef
<1> QED
  BY <1>1, <1>2, <1>3 DEF IsNumber

\* The first digit is the number that regex_search takes for the last octet.
LEMMA LastNumberIsFirstDigit ==
  ASSUME NEW part \in Seq(Digit), Len(part) > 0
  PROVE  LastNumber(part) = <<part[1]>> /\ part[1] \in Digit
<1> DEFINE Fits(A) == Prefixes(part) \cap A # {}
           I == {i \in 1..Len(Alternatives) : Fits(Alternatives[i])}
           One1 == {<<a>> : a \in Digit}
<1>1. Len(Alternatives) = 5 /\ Alternatives[1] = One1
  BY DEF Alternatives
<1>2. part[1] \in Digit
  OBVIOUS
<1>3. SubSeq(part, 1, 1) = <<part[1]>>
  <2> DEFINE s == SubSeq(part, 1, 1)
  <2>1. s \in Seq(Digit) /\ Len(s) = 1 /\ s[1] = part[1]
    OBVIOUS
  <2> HIDE DEF s
  <2>2. s = <<part[1]>>
    BY <2>1
  <2> QED
    BY <2>2 DEF s
<1>4. <<part[1]>> \in Prefixes(part) /\ <<part[1]>> \in One1
  BY <1>2, <1>3 DEF Prefixes
<1>5. 1 \in I
  BY <1>1, <1>4
<1>6. Min(I) = 1
  <2>1. I \in SUBSET Nat /\ \A i \in I : 1 <= i
    BY <1>1
  <2> HIDE DEF I
  <2>2. Min(I) \in I /\ \A i \in I : Min(I) <= i
    BY <1>5, <2>1, MinIsLeast
  <2>3. Min(I) <= 1 /\ 1 <= Min(I) /\ Min(I) \in Nat
    BY <1>5, <2>1, <2>2
  <2> QED
    BY <2>3
<1>7. SelectInSeq(Alternatives, Fits) = 1
  BY <1>5, <1>6 DEF SelectInSeq
<1>8. \A n \in Prefixes(part) : n \in One1 => n = <<part[1]>>
  <2> SUFFICES ASSUME NEW n \in Prefixes(part), n \in One1
               PROVE  n = <<part[1]>>
    OBVIOUS
  <2>1. PICK l \in 0..Len(part) : n = SubSeq(part, 1, l)
    BY DEF Prefixes
  <2>2. Len(n) = 1
    OBVIOUS
  <2>3. l = 1
    BY <2>1, <2>2
  <2> QED
    BY <2>1, <2>3, <1>3
<1> HIDE DEF Fits, One1
<1>9. LastNumber(part) = CHOOSE n \in Prefixes(part) : n \in One1
  BY <1>1, <1>7 DEF LastNumber, Fits
<1> QED
  BY <1>2, <1>4, <1>8, <1>9

\* What a number has from one of its digits on is an ending of it.
LEMMA FromIsSuffix ==
  ASSUME NEW part \in Seq(Digit), NEW k \in 1..Len(part)
  PROVE  IsSuffix(From(part, k), part)
<1> DEFINE s == From(part, k)
           n == Len(part) - k + 1
<1>1. /\ s \in Seq(Digit) /\ Len(s) = n
      /\ \A i \in 1..n : s[i] = part[i + k - 1]
  BY DEF From
<1> HIDE DEF s
<1>2. /\ Reverse(s) \in Seq(Digit) /\ Len(Reverse(s)) = n
      /\ \A i \in 1..n : Reverse(s)[i] = part[Len(part) - i + 1]
  BY <1>1 DEF Reverse
<1>3. /\ Reverse(part) \in Seq(Digit) /\ Len(Reverse(part)) = Len(part)
      /\ \A i \in 1..n : Reverse(part)[i] = part[Len(part) - i + 1]
  BY DEF Reverse
<1>4. SubSeq(Reverse(s), 1, n) = SubSeq(Reverse(part), 1, n)
  BY <1>2, <1>3
<1>5. IsSuffix(s, part)
  BY <1>2, <1>3, <1>4 DEF IsSuffix, IsPrefix
<1> QED
  BY <1>5 DEF s

\* Of the places where matches begin none is left of the one that is taken.
LEMMA LeftmostIsFirst ==
  ASSUME NEW starts \in SUBSET (Nat \X Nat), starts # {}
  PROVE  /\ Leftmost(starts) \in starts
         /\ \A r \in starts : \/ Leftmost(starts)[1] < r[1]
                              \/ Leftmost(starts)[1] = r[1] /\ Leftmost(starts)[2] <= r[2]
<1> DEFINE firsts     == {s[1] : s \in starts}
           seconds(i) == {s[2] : s \in {r \in starts : r[1] = i}}
<1>1. firsts \in SUBSET Nat /\ firsts # {} /\ \A r \in starts : r[1] \in firsts
  OBVIOUS
<1>2. \A i \in firsts : seconds(i) \in SUBSET Nat /\ seconds(i) # {}
  OBVIOUS
<1>3. \A i \in firsts : \A k \in seconds(i) : \E s \in starts : s[1] = i /\ s[2] = k
  OBVIOUS
<1>4. \A r \in starts : r[1] \in Nat /\ r[2] \in Nat /\ r[2] \in seconds(r[1])
  OBVIOUS
<1> HIDE DEF firsts, seconds
<1>5. PICK i \in firsts : \A j \in firsts : i <= j
  BY <1>1, NatHasLeast
<1>6. PICK k \in seconds(i) : \A l \in seconds(i) : k <= l
  BY <1>2, NatHasLeast
<1>7. PICK s \in starts : s[1] = i /\ s[2] = k
  BY <1>3
<1>8. ASSUME NEW r \in starts
      PROVE  s[1] < r[1] \/ (s[1] = r[1] /\ s[2] <= r[2])
  <2>1. i <= r[1] /\ (r[1] = i => k <= r[2])
    BY <1>1, <1>4, <1>5, <1>6
  <2>2. i \in Nat /\ r[1] \in Nat
    BY <1>4, <1>7
  <2> QED
    BY <1>7, <2>1, <2>2
<1> QED
  BY <1>7, <1>8 DEF Leftmost

\* A number has a digit.
LEMMA NumberIsShort == \A part : IsNumber(part) => Len(part) # 0 /\ Len(part) >= 1
<1>1. \A part : IsNumber(part) => Len(part) \in 1..3
  BY Zenon DEF IsNumber
<1>2. \A n : n \in 1..3 => n # 0 /\ n >= 1
  OBVIOUS
<1> QED
  BY Zenon, <1>1, <1>2

\* Two neighbours in a sequence.
LEMMA SubSeqOfTwo ==
  ASSUME NEW S, NEW s \in Seq(S), NEW i \in 1..(Len(s) - 1)
  PROVE  SubSeq(s, i, i + 1) = <<s[i], s[i + 1]>>
<1> DEFINE t == SubSeq(s, i, i + 1)
<1>1. t \in Seq(S) /\ Len(t) = 2 /\ t[1] = s[i] /\ t[2] = s[i + 1]
  OBVIOUS
<1> HIDE DEF t
<1>2. t = <<t[1], t[2]>>
  BY <1>1
<1> QED
  BY <1>1, <1>2 DEF t

\* The places that the search looks at.
LEMMA StartsAreMatches ==
  ASSUME NEW text \in Seq(Seq(Digit))
  PROVE  /\ MatchStarts(text) \in SUBSET (Nat \X Nat)
         /\ \A i, k \in Nat : <<i, k>> \in MatchStarts(text) <=>
              i \in 1..(Len(text) - 3) /\ k \in 1..Len(text[i]) /\ Matches(text, i, k)
<1> DEFINE Places(i) == {i} \X DOMAIN text[i]
           places    == UNION {Places(i) : i \in 1..(Len(text) - 3)}
<1>1. \A i \in 1..(Len(text) - 3) : text[i] \in Seq(Digit) /\ DOMAIN text[i] = 1..Len(text[i])
  OBVIOUS
<1>2. \A i, k : <<i, k>> \in places <=> i \in 1..(Len(text) - 3) /\ k \in 1..Len(text[i])
  BY <1>1
<1>3. ASSUME NEW p \in places
      PROVE  \E i \in 1..(Len(text) - 3) : \E k \in 1..Len(text[i]) : p = <<i, k>>
  <2>1. PICK i \in 1..(Len(text) - 3) : p \in Places(i)
    BY <1>3
  <2>2. PICK k \in DOMAIN text[i] : p = <<i, k>>
    BY <2>1
  <2> QED
    BY <1>1, <2>2
<1>4. \A p \in places : p \in Nat \X Nat
  BY <1>1, <1>3
<1>5. MatchStarts(text) = {p \in places : Matches(text, p[1], p[2])}
  BY DEF MatchStarts
<1> HIDE DEF places
<1>6. MatchStarts(text) \in SUBSET (Nat \X Nat)
  BY <1>4, <1>5
<1>7. \A i, k \in Nat : <<i, k>>[1] = i /\ <<i, k>>[2] = k
  OBVIOUS
<1>8. \A i, k \in Nat : <<i, k>> \in MatchStarts(text) <=>
        i \in 1..(Len(text) - 3) /\ k \in 1..Len(text[i]) /\ Matches(text, i, k)
  BY <1>2, <1>5, <1>7
<1> QED
  BY <1>6, <1>8

\* What make_ip() answers when there is a match: it is the leftmost one.
LEMMA MakeIpFindsLeftmost ==
  ASSUME NEW text \in Seq(Seq(Digit)), MatchStarts(text) # {}
  PROVE  \E i \in 1..(Len(text) - 3) : \E k \in 1..Len(text[i]) :
           /\ Matches(text, i, k)
           /\ \A s \in MatchStarts(text) : i < s[1] \/ (i = s[1] /\ k <= s[2])
           /\ Len(text[i + 3]) > 0
           /\ MakeIp(text) = <<From(text[i], k), text[i + 1], text[i + 2], <<text[i + 3][1]>> >>
<1> DEFINE s == Leftmost(MatchStarts(text))
           i == s[1]
           k == s[2]
<1>1. MatchStarts(text) \in SUBSET (Nat \X Nat)
  BY StartsAreMatches
<1>2. s \in MatchStarts(text) /\ \A r \in MatchStarts(text) : i < r[1] \/ (i = r[1] /\ k <= r[2])
  BY <1>1, LeftmostIsFirst
<1>3. MakeIp(text) = <<From(text[i], k), text[i + 1], text[i + 2], LastNumber(text[i + 3])>>
  BY DEF MakeIp
<1> HIDE DEF s
<1>4. i \in Nat /\ k \in Nat /\ s = <<i, k>>
  BY <1>1, <1>2
<1>5. i \in 1..(Len(text) - 3) /\ k \in 1..Len(text[i]) /\ Matches(text, i, k)
  BY <1>2, <1>4, StartsAreMatches
<1>6. text[i + 3] \in Seq(Digit)
  BY <1>5
<1>7. Len(text[i + 3]) > 0
  <2>1. PICK n \in Prefixes(text[i + 3]) : n \in Octets
    BY <1>5 DEF Matches
  <2>2. PICK l \in 0..Len(text[i + 3]) : n = SubSeq(text[i + 3], 1, l)
    BY <2>1 DEF Prefixes
  <2>3. IsNumber(n)
    BY <2>1, OctetIsNumber
  <2>4. Len(n) # 0
    BY Zenon, <2>3, NumberIsShort
  <2>5. Len(n) = l
    BY <1>6, <2>2
  <2> QED
    BY <1>6, <2>2, <2>4, <2>5
<1>8. LastNumber(text[i + 3]) = <<text[i + 3][1]>>
  BY <1>6, <1>7, LastNumberIsFirstDigit
<1> QED
  BY <1>2, <1>3, <1>5, <1>7, <1>8

\* make_ip() answers with an address that stands in the text.
LEMMA MakeIpStandsInText ==
  ASSUME NEW text \in Seq(Seq(Digit)), MatchStarts(text) # {}
  PROVE  /\ IsAddress(MakeIp(text))
         /\ \E i \in 1..(Len(text) - 3) :
              /\ IsSuffix(MakeIp(text)[1], text[i])
              /\ SubSeq(MakeIp(text), 2, 3) = SubSeq(text, i + 1, i + 2)
              /\ IsPrefix(MakeIp(text)[4], text[i + 3])
<1> DEFINE Found(i, k) ==
             /\ Matches(text, i, k)
             /\ Len(text[i + 3]) > 0
             /\ MakeIp(text) = <<From(text[i], k), text[i + 1], text[i + 2], <<text[i + 3][1]>> >>
<1>0. PICK i \in 1..(Len(text) - 3) : \E k \in 1..Len(text[i]) : Found(i, k)
  BY MakeIpFindsLeftmost
<1>1. PICK k \in 1..Len(text[i]) : Found(i, k)
  BY <1>0
<1> DEFINE a == From(text[i], k)
           b == text[i + 1]
           c == text[i + 2]
           last == text[i + 3]
           d == <<last[1]>>
           ip == MakeIp(text)
<1>2. text[i] \in Seq(Digit) /\ b \in Seq(Digit) /\ c \in Seq(Digit) /\ last \in Seq(Digit)
  OBVIOUS
<1>3. a \in Octets /\ b \in Octets /\ c \in Octets
  BY <1>1 DEF Matches
<1>4. last[1] \in Digit /\ Len(last) > 0
  BY <1>1, <1>2
<1>5. d \in Octets
  BY <1>4, OctetsDef
<1>6. IsSuffix(a, text[i])
  BY <1>2, FromIsSuffix
<1>7. IsPrefix(d, last)
  <2>1. SubSeq(last, 1, 1) = SubSeq(d, 1, 1) /\ Len(d) = 1
    BY <1>2, <1>4
  <2> QED
    BY <1>2, <1>4, <2>1 DEF IsPrefix
<1>8. ip = <<a, b, c, d>>
  BY <1>1
<1>9. SubSeq(text, i + 1, i + 2) = <<b, c>>
  <2>1. i + 1 \in 1..(Len(text) - 1) /\ (i + 1) + 1 = i + 2
    OBVIOUS
  <2> QED
    BY <2>1, SubSeqOfTwo
<1> HIDE DEF a, b, c, d, last, ip
<1>10. IsNumber(a) /\ IsNumber(b) /\ IsNumber(c) /\ IsNumber(d)
  BY <1>3, <1>5, OctetIsNumber
<1>11. ip[1] = a /\ ip[2] = b /\ ip[3] = c /\ ip[4] = d /\ Len(ip) = 4
  BY <1>8
<1>12. SubSeq(ip, 2, 3) = <<b, c>>
  <2>1. a \in Seq(Digit) /\ b \in Seq(Digit) /\ c \in Seq(Digit) /\ d \in Seq(Digit)
    BY <1>3, <1>5, OctetIsNumber
  <2>2. ip \in Seq(Seq(Digit))
    BY <1>8, <2>1
  <2>3. 2 \in 1..(Len(ip) - 1) /\ 2 + 1 = 3
    BY <1>11
  <2> QED
    BY <1>11, <2>2, <2>3, SubSeqOfTwo
<1>13. IsAddress(ip)
  BY <1>10, <1>11 DEF IsAddress
<1> QED
  BY <1>6, <1>7, <1>9, <1>11, <1>12, <1>13 DEF ip, last

\* make_ip() answers with a text of four parts wherever an address can be found.
LEMMA MakeIpFindsAddress ==
  ASSUME NEW text \in Seq(Seq(Digit)), NEW i \in 1..(Len(text) - 3),
         \E n \in Suffixes(text[i]) : IsNumber(n),
         IsNumber(text[i + 1]), IsNumber(text[i + 2]),
         \E n \in Prefixes(text[i + 3]) : IsNumber(n)
  PROVE  MakeIp(text) # NoText
<1>1. /\ text[i] \in Seq(Digit) /\ text[i + 1] \in Seq(Digit)
      /\ text[i + 2] \in Seq(Digit) /\ text[i + 3] \in Seq(Digit)
  OBVIOUS
<1>2. PICK k \in 1..Len(text[i]) : IsNumber(SubSeq(text[i], k, Len(text[i])))
  <2>1. ~IsNumber(<<>>)
    BY DEF IsNumber
  <2> QED
    BY <2>1 DEF Suffixes
<1>3. From(text[i], k) \in Octets
  <2>1. SubSeq(text[i], k, Len(text[i])) \in Seq(Digit)
    BY <1>1
  <2> QED
    BY <1>2, <2>1, NumberIsOctet DEF From
<1>4. {text[i + 1], text[i + 2]} \subseteq Octets
  BY <1>1, NumberIsOctet
<1>5. Prefixes(text[i + 3]) \cap Octets # {}
  <2>1. PICK l \in 0..Len(text[i + 3]) : IsNumber(SubSeq(text[i + 3], 1, l))
    BY DEF Prefixes
  <2>2. SubSeq(text[i + 3], 1, l) \in Seq(Digit)
    BY <1>1
  <2>3. SubSeq(text[i + 3], 1, l) \in Octets
    BY <2>1, <2>2, NumberIsOctet
  <2> QED
    BY <2>3 DEF Prefixes
<1>6. <<i, k>> \in MatchStarts(text)
  <2>1. i \in Nat /\ k \in Nat /\ Matches(text, i, k)
    BY <1>1, <1>3, <1>4, <1>5 DEF Matches
  <2> QED
    BY <2>1, StartsAreMatches
<1>7. IsAddress(MakeIp(text))
  BY <1>6, MakeIpStandsInText
<1>8. Len(NoText) # 4
  BY DEF NoText
<1>9. Len(MakeIp(text)) = 4
  BY <1>7 DEF IsAddress
<1> QED
  BY Zenon, <1>8, <1>9

\* Of an address make_ip() keeps all but the last number, and of that one digit.
LEMMA MakeIpCutsLastNumber ==
  ASSUME NEW text \in Seq(Seq(Digit)), IsAddress(text)
  PROVE  /\ SubSeq(MakeIp(text), 1, 3) = SubSeq(text, 1, 3)
         /\ MakeIp(text)[4] = <<text[4][1]>>
<1>1. /\ Len(text) = 4
      /\ \A i \in 1..4 : text[i] \in Seq(Digit) /\ text[i] \in Octets /\ Len(text[i]) >= 1
  <2>1. Len(text) = 4 /\ \A i \in 1..4 : IsNumber(text[i])
    BY DEF IsAddress
  <2>2. ASSUME NEW i \in 1..4 PROVE text[i] \in Seq(Digit)
    <3>1. i \in 1..Len(text)
      BY <2>1
    <3> QED
      BY <3>1
  <2>3. ASSUME NEW i \in 1..4 PROVE text[i] \in Octets /\ Len(text[i]) >= 1
    <3>1. IsNumber(text[i])
      BY <2>1
    <3>2. text[i] \in Octets
      BY <2>2, <3>1, NumberIsOctet
    <3>3. Len(text[i]) >= 1
      BY Zenon, <3>1, NumberIsShort
    <3> QED
      BY <3>2, <3>3
  <2> QED
    BY <2>1, <2>2, <2>3
<1>2. From(text[1], 1) = text[1]
  BY <1>1 DEF From
<1>3. text[4] \in Prefixes(text[4])
  <2>1. SubSeq(text[4], 1, Len(text[4])) = text[4]
    BY <1>1
  <2> QED
    BY <1>1, <2>1 DEF Prefixes
<1>4. <<1, 1>> \in MatchStarts(text)
  <2>1. Matches(text, 1, 1)
    BY <1>1, <1>2, <1>3 DEF Matches
  <2>2. 1 \in Nat /\ 1 \in 1..(Len(text) - 3) /\ 1 \in 1..Len(text[1])
    BY <1>1
  <2> QED
    BY <2>1, <2>2, StartsAreMatches
<1> DEFINE Found(i, k) ==
             /\ \A s \in MatchStarts(text) : i < s[1] \/ (i = s[1] /\ k <= s[2])
             /\ MakeIp(text) = <<From(text[i], k), text[i + 1], text[i + 2], <<text[i + 3][1]>> >>
<1>5. PICK i \in 1..(Len(text) - 3) : \E k \in 1..Len(text[i]) : Found(i, k)
  BY <1>4, MakeIpFindsLeftmost
<1>12. PICK k \in 1..Len(text[i]) : Found(i, k)
  BY <1>5
<1>6. i = 1 /\ k = 1
  <2>1. i = 1
    BY <1>1
  <2>2. k \in Nat /\ k >= 1
    BY <1>1, <2>1
  <2>3. <<1, 1>>[1] = 1 /\ <<1, 1>>[2] = 1
    OBVIOUS
  <2>5. \A s \in MatchStarts(text) : i < s[1] \/ (i = s[1] /\ k <= s[2])
    BY <1>12
  <2>6. i < <<1, 1>>[1] \/ (i = <<1, 1>>[1] /\ k <= <<1, 1>>[2])
    BY <1>4, <2>5, Zenon
  <2>4. k <= 1
    BY <2>1, <2>3, <2>6
  <2> QED
    BY <2>1, <2>2, <2>4
<1>7. MakeIp(text) = <<text[1], text[2], text[3], <<text[4][1]>> >>
  BY <1>1, <1>2, <1>12, <1>6
<1> DEFINE d == <<text[4][1]>>
<1>8. d \in Seq(Digit)
  BY <1>1
<1> HIDE DEF d
<1>9. MakeIp(text) \in Seq(Seq(Digit)) /\ MakeIp(text)[4] = d
  BY <1>1, <1>7, <1>8 DEF d
<1> DEFINE ip == MakeIp(text)
<1>10. ip[1] = text[1] /\ ip[2] = text[2] /\ ip[3] = text[3] /\ Len(ip) = 4
  BY <1>7
<1> HIDE DEF ip
<1>11. SubSeq(ip, 1, 3) = SubSeq(text, 1, 3)
  BY <1>1, <1>9, <1>10 DEF ip
<1> QED
  BY <1>9, <1>11 DEF d, ip

-----------------------------------------------------------------------------
(* The target.                                                             *)

\* Once the file was read the target is what make_ip() made of a text in it.
TargetIsMade ==
  IF remote.ready THEN written \in Texts /\ remote.target = MakeIp(written)
                  ELSE remote.target = NoText

LEMMA InitTargetIsMade == Init => TargetIsMade
<1> SUFFICES ASSUME Init PROVE TargetIsMade
  OBVIOUS
<1>1. remote.ready = FALSE /\ remote.target = NoText
  BY DEF Init
<1> QED
  BY <1>1 DEF TargetIsMade

LEMMA StepTargetIsMade == TargetIsMade /\ [Next]_vars => TargetIsMade'
<1> SUFFICES ASSUME TargetIsMade, [Next]_vars PROVE TargetIsMade'
  OBVIOUS
<1>1. CASE UNCHANGED <<remote, written>>
  BY <1>1 DEF TargetIsMade
<1>2. CASE LoadRemote
  <2>1. PICK type \in {"tcp", "udp", "other"}, text \in Texts :
          /\ remote' = [ready |-> TRUE, type |-> type, target |-> MakeIp(text)]
          /\ written' = text
    BY <1>2 DEF LoadRemote
  <2>2. remote'.ready = TRUE /\ remote'.target = MakeIp(written')
    BY <2>1
  <2> QED
    BY <2>1, <2>2 DEF TargetIsMade
<1>3. ASSUME ~LoadRemote PROVE UNCHANGED <<remote, written>>
  BY <1>3 DEF Next, vars, FileMissing, FileBroken, LoadLocal, CheckReady, SelectManager, Construct
<1> QED
  BY <1>1, <1>2, <1>3

LEMMA TextType == ASSUME NEW text \in Texts PROVE text \in Seq(Seq(Digit))
BY TextsAssumption DEF Digit

\* What make_ip() returns is an address that stands in the text it was given, and it
\* finds one wherever there is one (address.cpp:20-31).
THEOREM SearchIsRightCorrect == Spec => []SearchIsRight
<1>1. Spec => []TargetIsMade
  BY InitTargetIsMade, StepTargetIsMade, PTL DEF Spec
<1>2. TargetIsMade => TargetIsInText
  <2> SUFFICES ASSUME TargetIsMade, remote.target # NoText PROVE TargetIsInText
    BY DEF TargetIsInText
  <2>1. written \in Seq(Seq(Digit)) /\ remote.target = MakeIp(written)
    BY TextType DEF TargetIsMade
  <2>2. MatchStarts(written) # {}
    BY <2>1 DEF MakeIp
  <2> QED
    BY <2>1, <2>2, MakeIpStandsInText DEF TargetIsInText
<1>3. TargetIsMade => AddressIsFound
  <2> SUFFICES ASSUME TargetIsMade, remote.ready,
                      NEW i \in 1..(Len(written) - 3),
                      \E n \in Suffixes(written[i]) : IsNumber(n),
                      IsNumber(written[i + 1]), IsNumber(written[i + 2]),
                      \E n \in Prefixes(written[i + 3]) : IsNumber(n)
               PROVE  remote.target # NoText
    BY DEF AddressIsFound
  <2>1. written \in Seq(Seq(Digit)) /\ remote.target = MakeIp(written)
    BY TextType DEF TargetIsMade
  <2> QED
    BY <2>1, MakeIpFindsAddress
<1> QED
  BY <1>1, <1>2, <1>3, PTL DEF SearchIsRight

\* Of an address in the file the last number is cut to its first digit, and the rest
\* is kept (address.cpp:22-28).
THEOREM LastNumberIsCutCorrect == Spec => []LastNumberIsCut
<1>1. Spec => []TargetIsMade
  BY InitTargetIsMade, StepTargetIsMade, PTL DEF Spec
<1>2. TargetIsMade => LastNumberIsCut
  <2> SUFFICES ASSUME TargetIsMade, remote.ready, IsAddress(written)
               PROVE  /\ SubSeq(remote.target, 1, 3) = SubSeq(written, 1, 3)
                      /\ remote.target[4] = <<written[4][1]>>
    BY DEF LastNumberIsCut
  <2>1. written \in Seq(Seq(Digit)) /\ remote.target = MakeIp(written)
    BY TextType DEF TargetIsMade
  <2> QED
    BY <2>1, MakeIpCutsLastNumber
<1> QED
  BY <1>1, <1>2, PTL

-----------------------------------------------------------------------------
(* Texts.                                                                  *)

\* A text of five characters that begins with an f and is not "false" parses as
\* true: the comparison with the word is negated (string_parse.hpp:116-127).
THEOREM MisspeltFalseIsTrue ==
  ASSUME NEW text \in Seq(Nat), Len(text) = 5, text[1] \in {70, 102},
         ~IsWord(text, FalseWord)
  PROVE  ParseBoolean(text) = {Value(TRUE)}
<1>1. text # <<>> /\ Len(text) # 1
  <2>1. Len(text) # 0 /\ Len(text) # 1
    OBVIOUS
  <2>2. Len(<<>>) = 0
    OBVIOUS
  <2> QED
    BY <2>1, <2>2
<1>2. Lower(text[1]) = 102
  <2>1. CASE text[1] = 70
    BY <2>1 DEF Lower
  <2>2. CASE text[1] = 102
    BY <2>2 DEF Lower
  <2> QED
    BY <2>1, <2>2
<1>3. ~LooksLike(text, TrueWord)
  BY <1>2 DEF LooksLike, TrueWord
<1>4. LooksLike(text, FalseWord)
  BY <1>2 DEF LooksLike, FalseWord
<1>5. ~IsWord(text, FalseWord) = TRUE
  OBVIOUS
<1> QED
  BY <1>1, <1>3, <1>4, <1>5 DEF ParseBoolean

\* The two characters of a byte's dump tell the byte.  Both are hex digits, as the
\* name of the function says, of unsigned bytes and of the chars that are not
\* negative: for the others the shift and the remainder are negative (utils.hpp:10-28).
THEOREM DumpIsReadable ==
  /\ \A b, c \in -128..127 : HexOf(b) = HexOf(c) => b = c
  /\ \A c \in -128..255 : IsHexDigit(HexOf(c)[1]) /\ IsHexDigit(HexOf(c)[2]) <=> c >= 0
<1>1. ASSUME NEW b \in -128..127, NEW c \in -128..127, HexOf(b) = HexOf(c) PROVE b = c
  <2>1. HexChar(b \div 16) = HexChar(c \div 16) /\
        HexChar(Remainder(b)) = HexChar(Remainder(c))
    BY <1>1 DEF HexOf
  <2>2. /\ b \div 16 \in -8..7 /\ c \div 16 \in -8..7
        /\ Remainder(b) \in -15..15 /\ Remainder(c) \in -15..15
    BY DEF Remainder
  <2>3. \A v, w \in -15..15 : HexChar(v) = HexChar(w) => v = w
    BY DEF HexChar
  <2>4. b \div 16 = c \div 16 /\ Remainder(b) = Remainder(c)
    BY <2>1, <2>2, <2>3
  <2> QED
    BY <2>4 DEF Remainder
<1>2. ASSUME NEW c \in -128..255
      PROVE  IsHexDigit(HexOf(c)[1]) /\ IsHexDigit(HexOf(c)[2]) <=> c >= 0
  <2>1. HexOf(c)[1] = HexChar(c \div 16) /\ HexOf(c)[2] = HexChar(Remainder(c))
    BY DEF HexOf
  <2>2. CASE c >= 0
    <3>1. c \div 16 \in 0..15 /\ Remainder(c) \in 0..15
      BY <2>2 DEF Remainder
    <3>2. \A v \in 0..15 : IsHexDigit(HexChar(v))
      BY DEF IsHexDigit, HexChar
    <3> QED
      BY <2>1, <2>2, <3>1, <3>2
  <2>3. CASE c < 0
    <3>1. c \div 16 \in -8..-1
      BY <2>3
    <3>2. \A v \in -8..-1 : ~IsHexDigit(HexChar(v))
      BY DEF IsHexDigit, HexChar
    <3> QED
      BY <2>1, <2>3, <3>1, <3>2
  <2> QED
    BY <2>2, <2>3
<1> QED
  BY <1>1, <1>2

-----------------------------------------------------------------------------
(* Integers.                                                               *)

\* The recursion equation of NumberOf, and its values.
LEMMA NumberOfValues ==
  ASSUME NEW digits \in Seq(Nat), NEW base \in {10, 16}
  PROVE  \E v \in [0..Len(digits) -> Nat] :
           /\ v[0] = 0
           /\ \A i \in 1..Len(digits) : v[i] = base * v[i - 1] + digits[i]
           /\ NumberOf(digits, base) = v[Len(digits)]
<1> DEFINE max == Len(digits)
           Def(v, i) == IF i = 0 THEN 0 ELSE base * v[i - 1] + digits[i]
           value == CHOOSE v : v = [i \in 0..max |-> Def(v, i)]
           Upto == {m \in Nat : \E v \in [0..m -> Nat] : \A i \in 0..m : v[i] = Def(v, i)}
<1>1. max \in Nat /\ \A i \in 1..max : digits[i] \in Nat
  OBVIOUS
<1> HIDE DEF max
<1>2. 0 \in Upto
  <2> DEFINE v == [i \in 0..0 |-> 0]
  <2>1. v \in [0..0 -> Nat] /\ \A i \in 0..0 : v[i] = Def(v, i)
    OBVIOUS
  <2> HIDE DEF v, Def
  <2> QED
    BY <2>1
<1>3. \A m \in 0..(max - 1) : m \in Upto => m + 1 \in Upto
  <2> SUFFICES ASSUME NEW m \in 0..(max - 1), m \in Upto PROVE m + 1 \in Upto
    OBVIOUS
  <2>1. PICK v \in [0..m -> Nat] : \A i \in 0..m : v[i] = Def(v, i)
    OBVIOUS
  <2> DEFINE last == base * v[m] + digits[m + 1]
             w == [i \in 0..(m + 1) |-> IF i = m + 1 THEN last ELSE v[i]]
  <2>2. last \in Nat
    <3>1. v[m] \in Nat /\ digits[m + 1] \in Nat
      BY <1>1
    <3>2. \A b, c \in Nat : 10 * b + c \in Nat /\ 16 * b + c \in Nat
      OBVIOUS
    <3> QED
      BY <3>1, <3>2, base = 10 \/ base = 16
  <2>3. w \in [0..(m + 1) -> Nat]
    BY <2>2
  <2>4. ASSUME NEW i \in 0..(m + 1) PROVE w[i] = Def(w, i)
    <3>1. CASE i = m + 1
      <4>1. w[i] = last /\ w[i - 1] = v[m] /\ i # 0 /\ digits[i] = digits[m + 1]
        BY <3>1
      <4> QED
        BY <4>1
    <3>2. CASE i \in 0..m
      <4>1. w[i] = v[i] /\ v[i] = Def(v, i) /\ (i # 0 => w[i - 1] = v[i - 1])
        BY <2>1, <3>2
      <4> QED
        BY <4>1
    <3> QED
      BY <3>1, <3>2
  <2> HIDE DEF w, Def
  <2>5. m + 1 \in Nat
    BY <1>1
  <2> QED
    BY <2>3, <2>4, <2>5
<1> HIDE DEF Upto
<1>4. max \in Upto
  <2>1. \A n \in 0..max : n \in Upto
    BY <1>1, <1>2, <1>3, SetInductionUpTo
  <2> QED
    BY <1>1, <2>1
<1>5. PICK v \in [0..max -> Nat] : \A i \in 0..max : v[i] = Def(v, i)
  BY <1>4 DEF Upto
<1>6. v = [i \in 0..max |-> Def(v, i)]
  BY <1>5
<1>7. value = [i \in 0..max |-> Def(value, i)]
  BY <1>6
<1>8. NumberOf(digits, base) = value[max]
  BY DEF NumberOf, max
<1> HIDE DEF value
<1>9. \A i \in 0..max : value[i] = v[i]
  <2> DEFINE Same == {i \in 0..max : value[i] = v[i]}
  <2>1. 0 \in Same
    BY <1>1, <1>5, <1>7
  <2>2. \A n \in 0..(max - 1) : n \in Same => n + 1 \in Same
    <3> SUFFICES ASSUME NEW n \in 0..(max - 1), value[n] = v[n]
                 PROVE  n + 1 \in 0..max /\ value[n + 1] = v[n + 1]
      OBVIOUS
    <3>1. n + 1 \in 0..max /\ n + 1 # 0 /\ (n + 1) - 1 = n
      BY <1>1
    <3>2. v[n + 1] = Def(v, n + 1)
      BY <1>5, <3>1, Zenon
    <3>3. value[n + 1] = Def(value, n + 1)
      <4> HIDE DEF Def
      <4> QED
        BY <1>7, <3>1
    <3> QED
      BY <3>1, <3>2, <3>3
  <2> HIDE DEF Same
  <2>3. \A n \in 0..max : n \in Same
    BY <1>1, <2>1, <2>2, SetInductionUpTo
  <2> QED
    BY <2>3 DEF Same
<1>10. v[0] = 0 /\ \A i \in 1..max : v[i] = base * v[i - 1] + digits[i]
  BY <1>1, <1>5
<1>11. NumberOf(digits, base) = v[max]
  BY <1>1, <1>8, <1>9
<1> QED
  BY <1>10, <1>11, Zenon DEF max

\* What a numeral is written with.
Bases   == {10, 16}
Letters == {55, 87}

\* A digit that is written as a character is read as that digit.
LEMMA NumeralIsRead ==
  ASSUME NEW base \in Bases, NEW letters \in Letters, NEW digits \in Seq(0..(base - 1))
  PROVE  /\ Numeral(digits, letters) \in Seq(Nat)
         /\ Len(Numeral(digits, letters)) = Len(digits)
         /\ \A i \in 1..Len(digits) :
              /\ DigitOf(Numeral(digits, letters)[i]) = digits[i]
              /\ Numeral(digits, letters)[i] # Minus
              /\ base = 10 => Numeral(digits, letters)[i] \in 48..57
<1> USE DEF Bases, Letters
<1> DEFINE numeral == Numeral(digits, letters)
           Char(d) == d + (IF d < 10 THEN Zero ELSE letters)
<1>1. Len(digits) \in Nat /\ \A i \in 1..Len(digits) : digits[i] \in 0..(base - 1)
  OBVIOUS
<1>2. \A d \in 0..(base - 1) : Char(d) \in Nat
  BY DEF Zero
<1>3. \A d \in 0..(base - 1) :
        Char(d) # Minus /\ DigitOf(Char(d)) = d /\ (base = 10 => Char(d) \in 48..57)
  <2>1. base - 1 \in Nat /\ base - 1 <= 15 /\ (base = 10 => base - 1 = 9)
    OBVIOUS
  <2>2. ASSUME NEW d \in 0..15, d < 10 PROVE Char(d) # Minus /\ DigitOf(Char(d)) = d /\ Char(d) \in 48..57
    BY <2>2 DEF Zero, Minus, DigitOf
  <2>3. ASSUME NEW d \in 0..15, d >= 10 PROVE Char(d) # Minus /\ DigitOf(Char(d)) = d
    <3>1. CASE letters = 55
      BY <2>3, <3>1 DEF Minus, DigitOf, Lower
    <3>2. CASE letters = 87
      BY <2>3, <3>2 DEF Minus, DigitOf, Lower
    <3> QED
      BY <3>1, <3>2
  <2>4. \A d \in 0..15 : ~(d < 10) => d >= 10 /\ ~(d <= 9)
    OBVIOUS
  <2> HIDE DEF Char
  <2>5. ASSUME NEW d \in 0..(base - 1)
        PROVE  Char(d) # Minus /\ DigitOf(Char(d)) = d /\ (base = 10 => Char(d) \in 48..57)
    <3>1. d \in 0..15 /\ (base = 10 => d <= 9)
      BY <2>1
    <3>2. CASE d < 10
      BY <2>2, <3>1, <3>2
    <3>3. CASE ~(d < 10)
      <4>1. d >= 10 /\ base # 10
        BY <2>4, <3>1, <3>3
      <4> QED
        BY <2>3, <3>1, <4>1
    <3> QED
      BY <3>2, <3>3
  <2> QED
    BY <2>5
<1>4. numeral = [i \in 1..Len(digits) |-> Char(digits[i])]
  BY DEF Numeral
<1> HIDE DEF numeral, Char
<1>5. \A i \in 1..Len(digits) : Char(digits[i]) \in Nat /\ numeral[i] = Char(digits[i])
  BY <1>1, <1>2, <1>4
<1>6. numeral \in [1..Len(digits) -> Nat]
  BY <1>4, <1>5
<1>7. numeral \in Seq(Nat) /\ Len(numeral) = Len(digits)
  BY <1>1, <1>6
<1>8. \A i \in 1..Len(digits) :
        DigitOf(numeral[i]) = digits[i] /\ numeral[i] # Minus /\ (base = 10 => numeral[i] \in 48..57)
  BY <1>1, <1>3, <1>5
<1> QED
  BY <1>7, <1>8 DEF numeral

\* Of a text of digits all is taken.
LEMMA AllAreDigits ==
  ASSUME NEW text \in Seq(Nat), NEW base \in Nat,
         \A i \in 1..Len(text) : ~(DigitOf(text[i]) >= base)
  PROVE  Digits(text, base) = text
<1>1. {i \in 1..Len(text) : DigitOf(text[i]) >= base} = {}
  OBVIOUS
<1>2. SelectInSeq(text, LAMBDA c : DigitOf(c) >= base) = 0
  BY <1>1 DEF SelectInSeq
<1> QED
  BY <1>2 DEF Digits

\* What an integer type keeps of a number.
Fitting(n) == IF n \in Ints THEN n ELSE 0

\* from_chars() reads what was written, if it fits.
LEMMA FromCharsReads ==
  ASSUME NEW base \in Bases, NEW letters \in Letters, NEW digits \in Seq(0..(base - 1))
  PROVE  FromChars(Numeral(digits, letters), base) = Fitting(NumberOf(digits, base))
<1> DEFINE numeral == Numeral(digits, letters)
<1>1. /\ numeral \in Seq(Nat) /\ Len(numeral) = Len(digits)
      /\ \A i \in 1..Len(digits) : DigitOf(numeral[i]) = digits[i] /\ numeral[i] # Minus
  <2>1. /\ Numeral(digits, letters) \in Seq(Nat)
        /\ Len(Numeral(digits, letters)) = Len(digits)
        /\ \A i \in 1..Len(digits) :
              /\ DigitOf(Numeral(digits, letters)[i]) = digits[i]
              /\ Numeral(digits, letters)[i] # Minus
              /\ base = 10 => Numeral(digits, letters)[i] \in 48..57
    BY NumeralIsRead, Zenon
  <2> QED
    BY <2>1
<1> HIDE DEF numeral
<1>2. base \in Nat /\ \A i \in 1..Len(digits) : digits[i] \in 0..(base - 1)
  BY DEF Bases
<1>3. \A i \in 1..Len(numeral) : ~(DigitOf(numeral[i]) >= base)
  BY <1>1, <1>2
<1>4. Digits(numeral, base) = numeral
  BY <1>1, <1>2, <1>3, AllAreDigits
<1>5. numeral # <<>> => numeral[1] # Minus
  BY <1>1
<1>6. [i \in 1..Len(numeral) |-> DigitOf(numeral[i])] = digits
  <2>1. \A i \in 1..Len(digits) : DigitOf(numeral[i]) = digits[i]
    BY <1>1
  <2>2. digits = [i \in 1..Len(digits) |-> digits[i]]
    OBVIOUS
  <2> QED
    BY <1>1, <2>1, <2>2
<1>7. ~(numeral # <<>> /\ numeral[1] = Minus)
  BY <1>5
<1>8. FromChars(numeral, base) = IF NumberOf(digits, base) \in Ints THEN NumberOf(digits, base) ELSE 0
  <2>1. IF numeral # <<>> /\ numeral[1] = Minus THEN FALSE ELSE TRUE
    BY <1>7
  <2>2. FromChars(numeral, base) =
          LET size == NumberOf([i \in 1..Len(numeral) |-> DigitOf(numeral[i])], base)
          IN  IF size \in Ints THEN size ELSE 0
    <3> DEFINE negative == numeral # <<>> /\ numeral[1] = Minus
               read == Digits(IF negative THEN Rest(numeral, 2) ELSE numeral, base)
               size == NumberOf([i \in 1..Len(read) |-> DigitOf(read[i])], base)
               number == Signed(negative, size)
    <3>1. FromChars(numeral, base) = IF number \in Ints THEN number ELSE 0
      BY Zenon DEF FromChars
    <3>2. (IF negative THEN Rest(numeral, 2) ELSE numeral) = numeral
      BY <1>7
    <3>3. read = numeral
      BY <1>4, <3>2
    <3>4. number = size
      BY <1>7 DEF Signed
    <3> HIDE DEF number, read
    <3> QED
      BY <3>1, <3>3, <3>4
  <2> QED
    BY <1>6, <2>2
<1> QED
  BY <1>8 DEF numeral, Fitting

\* The elements of a concatenation.
LEMMA ConcatElements ==
  ASSUME NEW s \in Seq(Nat), NEW t \in Seq(Nat)
  PROVE  /\ s \o t \in Seq(Nat) /\ Len(s \o t) = Len(s) + Len(t)
         /\ \A i \in 1..(Len(s) + Len(t)) :
              (s \o t)[i] = IF i <= Len(s) THEN s[i] ELSE t[i - Len(s)]
BY ConcatProperties

\* Behind the first of two texts comes the second.
LEMMA RestOfJoined ==
  ASSUME NEW s \in Seq(Nat), NEW t \in Seq(Nat)
  PROVE  Rest(s \o t, Len(s) + 1) = t
BY DEF Rest

\* A sequence of digits has a value.
LEMMA NumberOfType ==
  ASSUME NEW base \in Bases, NEW digits \in Seq(0..(base - 1))
  PROVE  NumberOf(digits, base) \in Nat
<1>1. digits \in Seq(Nat)
  BY DEF Bases
<1>2. PICK v \in [0..Len(digits) -> Nat] : NumberOf(digits, base) = v[Len(digits)]
  BY <1>1, NumberOfValues DEF Bases
<1> QED
  BY <1>1, <1>2

\* The same, where the first is a single character.
LEMMA RestOfJoinedOne ==
  ASSUME NEW c \in Nat, NEW t \in Seq(Nat)
  PROVE  Rest(<<c>> \o t, 2) = t /\ (<<c>> \o t)[1] = c
BY DEF Rest

\* Concatenation is associative.
LEMMA ConcatIsAssociative ==
  ASSUME NEW s \in Seq(Nat), NEW t \in Seq(Nat), NEW u \in Seq(Nat)
  PROVE  (s \o t) \o u = s \o (t \o u)
BY ConcatAssociative, SMTT(30)

\* What the reader makes of the text of a number.
IsReadAs(text, value) ==
  ParseInteger(text) =
    {Value(IF value \in Ints \ {MinInt} THEN value ELSE 0)}
      \cup (IF text = <<Minus, Zero>> THEN {Undefined} ELSE {})

\* The sign and the prefix are taken off, and the digits are read: in all notations.
LEMMA IntegerIsRead ==
  ASSUME NEW negative \in BOOLEAN, NEW prefix \in {<<>>} \cup HexPrefixes, NEW letters \in Letters,
         NEW digits \in Seq(0..(BaseAfter(prefix) - 1)), digits # <<>>
  PROVE  IsReadAs(Sign(negative) \o prefix \o Numeral(digits, letters),
                  Signed(negative, NumberOf(digits, BaseAfter(prefix))))
<1> DEFINE base    == BaseAfter(prefix)
           numeral == Numeral(digits, letters)
           text    == Sign(negative) \o prefix \o numeral
           number  == prefix \o numeral
           hex     == Len(number) >= 2 /\ number[1] = Zero /\ number[2] \in Exes
           size    == NumberOf(digits, base)
           value   == Signed(negative, size)
           result  == IF hex THEN FromChars(Rest(number, 3), 16) ELSE FromChars(number, 10)
<1>1. base \in Bases /\ digits \in Seq(0..(base - 1))
  BY DEF Bases, BaseAfter
<1> HIDE DEF base
<1>2. /\ numeral \in Seq(Nat) /\ Len(numeral) = Len(digits)
      /\ \A i \in 1..Len(digits) :
           numeral[i] # Minus /\ (base = 10 => numeral[i] \in 48..57)
  <2>1. /\ Numeral(digits, letters) \in Seq(Nat)
        /\ Len(Numeral(digits, letters)) = Len(digits)
        /\ \A i \in 1..Len(digits) :
              /\ DigitOf(Numeral(digits, letters)[i]) = digits[i]
              /\ Numeral(digits, letters)[i] # Minus
              /\ base = 10 => Numeral(digits, letters)[i] \in 48..57
    BY <1>1, NumeralIsRead, Zenon
  <2> QED
    BY <2>1, Zenon
<1>3. size \in Nat
  BY <1>1, NumberOfType, Zenon
<1>4. FromChars(numeral, base) = Fitting(size)
  BY <1>1, FromCharsReads, Zenon
<1>5. Len(digits) \in Nat /\ Len(digits) # 0
  OBVIOUS
<1> HIDE DEF size, numeral, text, value
<1>6. /\ number \in Seq(Nat) /\ number # <<>> /\ number[1] # Minus
      /\ result = Fitting(size)
  <2>1. CASE prefix = <<>>
    <3>1. number = numeral
      BY <1>2, <2>1
    <3>2. base = 10
      BY <2>1 DEF base, BaseAfter
    <3>3. \A i \in 1..Len(numeral) : numeral[i] \notin Exes
      <4> SUFFICES ASSUME NEW i \in 1..Len(numeral) PROVE numeral[i] \notin Exes
        OBVIOUS
      <4>1. numeral[i] \in 48..57
        BY <1>2, <3>2
      <4>2. \A c \in 48..57 : c \notin {88, 120}
        OBVIOUS
      <4> QED
        BY <4>1, <4>2, Zenon DEF Exes
    <3> HIDE DEF number
    <3>4. ~hex
      <4> SUFFICES ASSUME hex PROVE FALSE
        OBVIOUS
      <4>1. 2 \in 1..Len(numeral)
        BY <1>2, <1>5, <3>1
      <4> QED
        BY <3>1, <3>3, <4>1
    <3>5. result = FromChars(numeral, 10)
      BY <3>1, <3>4
    <3>6. numeral # <<>> /\ numeral[1] # Minus
      BY <1>2, <1>5
    <3> QED
      BY <1>2, <1>4, <3>1, <3>2, <3>5, <3>6
  <2>2. CASE prefix # <<>>
    <3>1. PICK x \in Exes : prefix = <<Zero, x>>
      BY <2>2 DEF HexPrefixes
    <3>2. x \in Nat /\ Zero \in Nat /\ Zero # Minus
      BY DEF Exes, Zero, Minus
    <3>3. prefix \in Seq(Nat) /\ Len(prefix) = 2 /\ prefix[1] = Zero /\ prefix[2] = x
      BY <3>1, <3>2
    <3>4. /\ number \in Seq(Nat) /\ Len(number) >= 2
          /\ number[1] = Zero /\ number[2] = x
      <4> HIDE DEF number
      <4>1. \A s, t \in Seq(Nat) : s \o t \in Seq(Nat) /\ Len(s \o t) = Len(s) + Len(t)
        OBVIOUS
      <4>2. number \in Seq(Nat) /\ Len(number) = 2 + Len(numeral)
        BY <1>2, <3>3, <4>1 DEF number
      <4>3. ASSUME NEW i \in 1..2 PROVE number[i] = prefix[i]
        <5>1. number[i] = IF i <= Len(prefix) THEN prefix[i] ELSE numeral[i - Len(prefix)]
          <6>1. i \in 1..(Len(prefix) + Len(numeral))
            BY <1>2, <3>3
          <6>2. \A j \in 1..(Len(prefix) + Len(numeral)) :
                  (prefix \o numeral)[j] = IF j <= Len(prefix) THEN prefix[j]
                                           ELSE numeral[j - Len(prefix)]
            BY <1>2, <3>3, ConcatElements, Zenon
          <6> QED
            BY <6>1, <6>2, Zenon DEF number
        <5> QED
          BY <3>3, <5>1
      <4>4. number[1] = prefix[1] /\ number[2] = prefix[2]
        BY <4>3
      <4> QED
        BY <1>2, <1>5, <3>3, <4>2, <4>4
    <3>5. Rest(number, 3) = numeral
      <4>1. Rest(prefix \o numeral, Len(prefix) + 1) = numeral
        BY <1>2, <3>3, RestOfJoined
      <4>2. Len(prefix) + 1 = 3
        BY <3>3
      <4> QED
        BY <4>1, <4>2
    <3> HIDE DEF number
    <3>6. hex
      BY <3>4
    <3>7. base = 16 /\ result = FromChars(numeral, 16)
      BY <2>2, <3>5, <3>6 DEF base, BaseAfter
    <3>8. number # <<>> /\ number[1] # Minus
      BY <3>2, <3>4
    <3> QED
      BY <1>4, <3>4, <3>7, <3>8
  <2> QED
    BY <2>1, <2>2
<1>7. text = Sign(negative) \o number
  <2>1. prefix \in Seq(Nat)
    <3>1. CASE prefix = <<>>
      BY <3>1
    <3>2. CASE prefix # <<>>
      <4>1. PICK x \in Exes : prefix = <<Zero, x>>
        BY <3>2 DEF HexPrefixes
      <4>2. x \in Nat /\ Zero \in Nat
        BY DEF Exes, Zero
      <4> QED
        BY <4>1, <4>2
    <3> QED
      BY <3>1, <3>2
  <2>2. Sign(negative) \in Seq(Nat)
    BY DEF Sign, Minus
  <2> HIDE DEF number
  <2>3. (Sign(negative) \o prefix) \o numeral = Sign(negative) \o (prefix \o numeral)
    <3>1. numeral \in Seq(Nat)
      BY <1>2
    <3> QED
      BY <2>1, <2>2, <3>1, ConcatIsAssociative, Zenon
  <2> QED
    BY <2>3 DEF number, text
<1> HIDE DEF number, result
<1>8. text # <<>> /\ (text[1] = Minus) = negative /\ number = (IF negative THEN Rest(text, 2) ELSE text)
  <2>1. CASE negative
    <3>1. Minus \in Nat
      BY DEF Minus
    <3>2. text = <<Minus>> \o number
      BY <1>7, <2>1 DEF Sign
    <3>3. Rest(text, 2) = number /\ text[1] = Minus
      BY <1>6, <3>1, <3>2, RestOfJoinedOne
    <3>4. text # <<>>
      <4>1. \A t \in Seq(Nat) : <<Minus>> \o t # <<>>
        BY <3>1
      <4> QED
        BY <1>6, <3>2, <4>1
    <3> QED
      BY <2>1, <3>3, <3>4
  <2>2. CASE ~negative
    <3>1. text = number
      <4>1. text = <<>> \o number
        BY <1>7, <2>2 DEF Sign
      <4> QED
        BY <1>6, <4>1
    <3> QED
      BY <1>6, <2>2, <3>1
  <2> QED
    BY <2>1, <2>2
<1>9. ParseInteger(text) =
        {Value(IF negative THEN Negated(result) ELSE result)}
          \cup (IF text = <<Minus, Zero>> THEN {Undefined} ELSE {})
  <2> DEFINE rest == IF text[1] = Minus THEN Rest(text, 2) ELSE text
             found == Len(rest) >= 2 /\ rest[1] = Zero /\ rest[2] \in Exes
             got == IF found THEN FromChars(Rest(rest, 3), 16) ELSE FromChars(rest, 10)
             parsed == {Value(IF text[1] = Minus THEN Negated(got) ELSE got)}
                         \cup (IF text = <<Minus, Zero>> \/ (text[1] = Minus /\ got = MinInt)
                               THEN {Undefined} ELSE {})
  <2>1. ParseInteger(text) = parsed
    <3>1. ParseInteger(text) = IF text = <<>> THEN {Throws} ELSE parsed
      BY DEF ParseInteger
    <3> HIDE DEF parsed
    <3> QED
      BY <1>8, <3>1
  <2>2. rest = number
    BY <1>8
  <2>3. got = result
    BY <2>2, Zenon DEF result
  <2>4. (IF text[1] = Minus THEN Negated(got) ELSE got) =
        (IF negative THEN Negated(result) ELSE result)
    BY <1>8, <2>3
  <2>5. got # MinInt
    <3>1. Fitting(size) # MinInt
      BY <1>3, MaxIntAssumption DEF Fitting, Ints, MinInt
    <3> QED
      BY <1>6, <2>3, <3>1, Zenon
  <2> HIDE DEF got
  <2> QED
    BY <2>1, <2>4, <2>5
<1>10. (IF negative THEN Negated(result) ELSE result) =
       (IF value \in Ints \ {MinInt} THEN value ELSE 0)
  <2>1. value = IF negative THEN -size ELSE size
    BY DEF value, Signed
  <2>2. size \in Ints <=> size <= MaxInt
    BY <1>3, MaxIntAssumption DEF Ints, MinInt
  <2>3. value \in Ints \ {MinInt} <=> size <= MaxInt
    BY <1>3, <2>1, MaxIntAssumption DEF Ints, MinInt
  <2>4. \A n \in Nat : Negated(n) = -n
    BY MaxIntAssumption DEF Negated, MinInt
  <2> QED
    BY <1>3, <1>6, <2>1, <2>2, <2>3, <2>4 DEF Fitting
<1> QED
  BY <1>9, <1>10 DEF IsReadAs, text, value, size, base, numeral

LEMMA WriteIntegerIsRead == WriteInteger => IntegersAreRead'
<1> SUFFICES ASSUME WriteInteger PROVE IntegersAreRead'
  OBVIOUS
<1>1. PICK negative \in BOOLEAN, prefix \in {<<>>} \cup HexPrefixes, letters \in Letters :
        \E digits \in BoundedSeq(0..(BaseAfter(prefix) - 1), MaxDigits) :
          /\ digits # <<>>
          /\ input' = [type  |-> "integer",
                       value |-> Signed(negative, NumberOf(digits, BaseAfter(prefix))),
                       text  |-> Sign(negative) \o prefix \o Numeral(digits, letters)]
  BY Zenon DEF WriteInteger, Letters
<1>2. PICK digits \in BoundedSeq(0..(BaseAfter(prefix) - 1), MaxDigits) :
        /\ digits # <<>>
        /\ input' = [type  |-> "integer",
                     value |-> Signed(negative, NumberOf(digits, BaseAfter(prefix))),
                     text  |-> Sign(negative) \o prefix \o Numeral(digits, letters)]
  BY <1>1
<1>3. digits \in Seq(0..(BaseAfter(prefix) - 1))
  <2>1. digits \in UNION {[1..n -> 0..(BaseAfter(prefix) - 1)] : n \in 0..MaxDigits}
    BY <1>2, Zenon DEF BoundedSeq, SeqOf
  <2>2. PICK n \in 0..MaxDigits : digits \in [1..n -> 0..(BaseAfter(prefix) - 1)]
    BY <2>1, Zenon
  <2>3. n \in Nat
    BY MaxDigitsAssumption
  <2> QED
    BY <2>2, <2>3, SeqDef
<1>4. IsReadAs(input'.text, input'.value)
  BY <1>2, <1>3, IntegerIsRead
<1>5. Parse("integer", input'.text) = ParseInteger(input'.text)
  BY DEF Parse
<1> QED
  BY <1>4, <1>5 DEF IntegersAreRead, IsReadAs

\* Every integer of the type but the least is read as what it is, in decimal or
\* hexadecimal digits, with leading zeros or without (string_parse.hpp:145-198).
THEOREM IntegersAreReadCorrect == WriteSpec => []IntegersAreRead
<1>1. WriteInit => IntegersAreRead
  BY DEF WriteInit, NoInput, IntegersAreRead
<1>2. IntegersAreRead /\ [WriteInteger \/ WriteList]_input => IntegersAreRead'
  <2>1. CASE WriteInteger
    BY <2>1, WriteIntegerIsRead
  <2>2. CASE WriteList
    <3>1. input'.type = "list"
      BY <2>2 DEF WriteList
    <3> QED
      BY <3>1 DEF IntegersAreRead
  <2>3. CASE UNCHANGED input
    BY <2>3 DEF IntegersAreRead
  <2> QED
    BY <2>1, <2>2, <2>3
<1> QED
  BY <1>1, <1>2, PTL DEF WriteSpec

\* A digit behind the others makes base times as much of them.
LEMMA NumberOfAppended ==
  ASSUME NEW base \in Bases, NEW digits \in Seq(Nat), NEW d \in Nat
  PROVE  NumberOf(Append(digits, d), base) = base * NumberOf(digits, base) + d
<1> DEFINE max  == Len(digits)
           more == Append(digits, d)
<1>1. /\ max \in Nat /\ more \in Seq(Nat) /\ Len(more) = max + 1
      /\ \A i \in 1..max : more[i] = digits[i]
      /\ more[max + 1] = d
  OBVIOUS
<1> HIDE DEF max, more
<1>2. PICK v \in [0..Len(digits) -> Nat] :
        /\ v[0] = 0
        /\ \A i \in 1..Len(digits) : v[i] = base * v[i - 1] + digits[i]
        /\ NumberOf(digits, base) = v[Len(digits)]
  BY NumberOfValues DEF Bases
<1>3. PICK w \in [0..Len(more) -> Nat] :
        /\ w[0] = 0
        /\ \A i \in 1..Len(more) : w[i] = base * w[i - 1] + more[i]
        /\ NumberOf(more, base) = w[Len(more)]
  BY <1>1, NumberOfValues DEF Bases
<1>4. \A i \in 0..max : w[i] = v[i]
  <2> DEFINE Same == {i \in Nat : w[i] = v[i]}
  <2>1. 0 \in Same
    BY <1>2, <1>3
  <2>2. ASSUME NEW i \in 0..(max - 1), i \in Same PROVE i + 1 \in Same
    <3>1. i + 1 \in 1..max /\ i + 1 \in 1..(max + 1) /\ (i + 1) - 1 = i /\ i + 1 \in Nat
      BY <1>1
    <3>2. v[i + 1] = base * v[i] + digits[i + 1]
      BY <1>2, <3>1 DEF max
    <3>3. w[i + 1] = base * w[i] + more[i + 1]
      BY <1>1, <1>3, <3>1
    <3>4. w[i] = v[i] /\ more[i + 1] = digits[i + 1]
      BY <1>1, <2>2, <3>1
    <3> QED
      BY <3>1, <3>2, <3>3, <3>4
  <2> HIDE DEF Same
  <2>3. \A i \in 0..max : i \in Same
    BY <1>1, <2>1, <2>2, SetInductionUpTo
  <2> QED
    BY <2>3 DEF Same
<1>5. w[max + 1] = base * w[max] + d
  <2>1. max + 1 \in 1..Len(more) /\ (max + 1) - 1 = max
    BY <1>1
  <2>2. w[max + 1] = base * w[(max + 1) - 1] + more[max + 1]
    BY <1>3, <2>1
  <2> QED
    BY <1>1, <2>1, <2>2
<1>6. w[max] = v[max]
  BY <1>1, <1>4
<1> QED
  BY <1>1, <1>2, <1>3, <1>5, <1>6 DEF max, more

\* Every natural number has digits.
LEMMA NumberHasDigits ==
  ASSUME NEW base \in Bases, NEW n \in Nat
  PROVE  \E digits \in Seq(0..(base - 1)) : digits # <<>> /\ NumberOf(digits, base) = n
<1> DEFINE Written(m) == \E digits \in Seq(0..(base - 1)) :
                           digits # <<>> /\ NumberOf(digits, base) = m
           unwritten == {m \in Nat : ~Written(m)}
<1>1. SUFFICES ASSUME unwritten # {} PROVE FALSE
  OBVIOUS
<1>2. PICK m \in unwritten : \A k \in unwritten : m <= k
  BY <1>1, NatHasLeast
<1>3. \A k \in Nat : k < m => Written(k)
  BY <1>2
<1> DEFINE q == m \div base
           r == m % base
<1>4. /\ base \in Nat /\ q \in Nat /\ r \in Nat /\ r \in 0..(base - 1) /\ m = base * q + r
      /\ m >= base => q < m
      /\ m < base => r = m
  <2>1. CASE base = 10
    BY <2>1
  <2>2. CASE base = 16
    BY <2>2
  <2> QED
    BY <2>1, <2>2 DEF Bases
<1>5. ASSUME NEW digits \in Seq(0..(base - 1))
      PROVE  /\ Append(digits, r) \in Seq(0..(base - 1)) /\ Append(digits, r) # <<>>
             /\ NumberOf(Append(digits, r), base) = base * NumberOf(digits, base) + r
  <2>1. digits \in Seq(Nat)
    BY <1>4
  <2>2. NumberOf(Append(digits, r), base) = base * NumberOf(digits, base) + r
    BY <1>4, <2>1, NumberOfAppended
  <2>3. r \in 0..(base - 1)
    BY <1>4
  <2> HIDE DEF r
  <2>4. Append(digits, r) \in Seq(0..(base - 1)) /\ Append(digits, r) # <<>>
    BY <2>3
  <2> QED
    BY <2>2, <2>4
<1> HIDE DEF q, r
<1>6. CASE m >= base
  <2>1. PICK digits \in Seq(0..(base - 1)) : NumberOf(digits, base) = q
    BY <1>3, <1>4, <1>6
  <2>2. Written(m)
    BY <1>4, <1>5, <2>1
  <2> QED
    BY <1>2, <2>2
<1>7. CASE m < base
  <2>1. <<>> \in Seq(0..(base - 1)) /\ <<>> \in Seq(Nat) /\ Len(<<>>) = 0
    OBVIOUS
  <2>2. NumberOf(<<>>, base) = 0
    <3>1. PICK v \in [0..Len(<<>>) -> Nat] : v[0] = 0 /\ NumberOf(<<>>, base) = v[Len(<<>>)]
      BY <2>1, NumberOfValues DEF Bases
    <3> QED
      BY <2>1, <3>1
  <2>3. base * 0 + r = m
    BY <1>4, <1>7
  <2>4. Written(m)
    BY <1>5, <2>1, <2>2, <2>3
  <2> QED
    BY <1>2, <2>4
<1>8. m \in Nat
  BY <1>2
<1> QED
  BY <1>4, <1>6, <1>7, <1>8

\* Every integer of the type, but the least, has a text that is read as that integer
\* and nothing else (string_parse.hpp:145-198).
THEOREM EveryIntegerCanBeRead ==
  \A n \in Ints \ {MinInt} : \E text \in Seq(Nat) : Parse("integer", text) = {Value(n)}
<1> SUFFICES ASSUME NEW n \in Ints \ {MinInt}
             PROVE  \E text \in Seq(Nat) : Parse("integer", text) = {Value(n)}
  OBVIOUS
<1> DEFINE negative == n < 0
           size == IF negative THEN -n ELSE n
<1>1. n \in Int /\ size \in Nat /\ Signed(negative, size) = n /\ (negative => size # 0)
  BY MaxIntAssumption DEF Ints, MinInt, Signed
<1> HIDE DEF size, negative
<1>2. BaseAfter(<<>>) = 10 /\ 10 \in Bases /\ 55 \in Letters
  BY DEF BaseAfter, Bases, Letters
<1>3. PICK digits \in Seq(0..(10 - 1)) : digits # <<>> /\ NumberOf(digits, 10) = size
  BY <1>1, <1>2, NumberHasDigits
<1> DEFINE numeral == Numeral(digits, 55)
           text == Sign(negative) \o <<>> \o numeral
<1>4. IsReadAs(text, n)
  <2>1. FALSE \in BOOLEAN /\ negative \in BOOLEAN /\ <<>> \in {<<>>} \cup HexPrefixes
    BY DEF negative
  <2>2. digits \in Seq(0..(BaseAfter(<<>>) - 1))
    BY <1>2
  <2>3. IsReadAs(Sign(negative) \o <<>> \o Numeral(digits, 55),
                 Signed(negative, NumberOf(digits, BaseAfter(<<>>))))
    BY <1>2, <1>3, <2>1, <2>2, IntegerIsRead, Zenon
  <2> QED
    BY <1>1, <1>2, <1>3, <2>3
<1>5. /\ numeral \in Seq(Nat) /\ Len(numeral) = Len(digits)
      /\ \A i \in 1..Len(digits) : DigitOf(numeral[i]) = digits[i] /\ numeral[i] # Minus
  <2>1. digits \in Seq(0..(10 - 1))
    BY <1>3
  <2>2. /\ Numeral(digits, 55) \in Seq(Nat)
        /\ Len(Numeral(digits, 55)) = Len(digits)
        /\ \A i \in 1..Len(digits) :
              /\ DigitOf(Numeral(digits, 55)[i]) = digits[i]
              /\ Numeral(digits, 55)[i] # Minus
              /\ 10 = 10 => Numeral(digits, 55)[i] \in 48..57
    BY <1>2, <2>1, NumeralIsRead, Zenon
  <2> QED
    BY <2>2, Zenon
<1>6. Len(digits) \in Nat /\ Len(digits) # 0
  BY <1>3
<1> HIDE DEF numeral
<1>7. /\ negative => text = <<Minus>> \o numeral
      /\ ~negative => text = numeral
  <2>1. CASE negative
    <3>1. Sign(negative) = <<Minus>>
      BY <2>1 DEF Sign
    <3>2. <<Minus>> \o <<>> = <<Minus>>
      OBVIOUS
    <3> QED
      BY <2>1, <3>1, <3>2
  <2>2. CASE ~negative
    <3>1. Sign(negative) = <<>>
      BY <2>2 DEF Sign
    <3>2. <<>> \o <<>> = <<>> /\ <<>> \o numeral = numeral
      BY <1>5
    <3> QED
      BY <2>2, <3>1, <3>2
  <2> QED
    BY <2>1, <2>2
<1>8. Minus \in Nat
  BY DEF Minus
<1>9. text \in Seq(Nat) /\ text # <<Minus, Zero>>
  <2>1. CASE negative
    <3>1. text = <<Minus>> \o numeral
      BY <1>7, <2>1
    <3>2. <<Minus>> \o numeral \in Seq(Nat)
      BY <1>5, <1>8
    <3>3. ASSUME text = <<Minus, Zero>> PROVE FALSE
      <4>1. Len(text) = 2 /\ text[2] = Zero
        <5>1. Len(<<Minus, Zero>>) = 2 /\ <<Minus, Zero>>[2] = Zero
          OBVIOUS
        <5> HIDE DEF text
        <5> QED
          BY <3>3, <5>1, Zenon
      <4>2. Len(<<Minus>> \o numeral) = 1 + Len(numeral) /\ (Len(numeral) = 1 => (<<Minus>> \o numeral)[2] = numeral[1])
        BY <1>5, <1>8
      <4>3. Len(digits) = 1 /\ numeral[1] = Zero
        BY <1>5, <1>6, <3>1, <4>1, <4>2
      <4>4. DigitOf(Zero) = 0
        BY DEF DigitOf, Zero
      <4>5. digits[1] = 0
        BY <1>5, <4>3, <4>4
      <4>6. digits \in Seq(Nat)
        BY <1>3
      <4>7. PICK v \in [0..Len(digits) -> Nat] :
              /\ v[0] = 0
              /\ \A i \in 1..Len(digits) : v[i] = 10 * v[i - 1] + digits[i]
              /\ NumberOf(digits, 10) = v[Len(digits)]
        BY <4>6, NumberOfValues
      <4>8. v[1] = 10 * v[1 - 1] + digits[1] /\ NumberOf(digits, 10) = v[1]
        BY <4>3, <4>7
      <4>9. NumberOf(digits, 10) = 0
        BY <4>5, <4>7, <4>8
      <4> QED
        BY <1>1, <1>3, <2>1, <4>9
    <3> QED
      BY <3>1, <3>2, <3>3
  <2>2. CASE ~negative
    <3>1. text = numeral
      BY <1>7, <2>2
    <3>2. numeral[1] # Minus
      BY <1>5, <1>6
    <3>3. <<Minus, Zero>>[1] = Minus
      OBVIOUS
    <3> QED
      BY <1>5, <3>1, <3>2, <3>3
  <2> QED
    BY <2>1, <2>2
<1> HIDE DEF text
<1>10. Parse("integer", text) = ParseInteger(text)
  BY DEF Parse
<1>11. ParseInteger(text) = {Value(n)}
  BY <1>4, <1>9 DEF IsReadAs
<1> QED
  BY <1>9, <1>10, <1>11

-----------------------------------------------------------------------------
(* Lists.                                                                  *)

\* The lesser of two naturals.
LEMMA MinOfTwo ==
  ASSUME NEW a \in Nat, NEW b \in Nat
  PROVE  Min({a, b}) = IF a <= b THEN a ELSE b
<1>1. Min({a, b}) \in {a, b} /\ \A n \in {a, b} : Min({a, b}) <= n
  BY MinIsLeast
<1> QED
  BY <1>1

\* The characters of what is left of a text.
LEMMA RestElements ==
  ASSUME NEW text \in Seq(Nat), NEW it \in 1..(Len(text) + 1)
  PROVE  /\ Rest(text, it) \in Seq(Nat)
         /\ Len(Rest(text, it)) = Len(text) - it + 1
         /\ \A i \in 1..(Len(text) - it + 1) : Rest(text, it)[i] = text[it + i - 1]
BY DEF Rest

\* find_first_of() finds a comma, if there is one, and none before it.
LEMMA NextCommaIsFirst ==
  ASSUME NEW text \in Seq(Nat), NEW it \in 1..(Len(text) + 1)
  PROVE  LET next == NextComma(text, it)
         IN  \/ next = 0 /\ \A j \in it..Len(text) : text[j] # Comma
             \/ next \in it..Len(text) /\ text[next] = Comma
                  /\ \A j \in it..Len(text) : text[j] = Comma => next <= j
<1> DEFINE places == {j \in it..Len(text) : text[j] = Comma}
<1>1. places \in SUBSET Nat /\ 0 \notin places
  OBVIOUS
<1>2. NextComma(text, it) = IF places = {} THEN 0 ELSE Min(places)
  BY DEF NextComma
<1>3. CASE places = {}
  BY <1>2, <1>3
<1>4. CASE places # {}
  <2> HIDE DEF places
  <2>1. Min(places) \in places /\ \A j \in places : Min(places) <= j
    BY <1>1, <1>4, MinIsLeast
  <2> QED
    BY <1>2, <1>4, <2>1 DEF places
<1> QED
  BY <1>3, <1>4

\* A beginning is one that agrees in every place.
LEMMA PrefixByElements ==
  ASSUME NEW s \in Seq(Nat), NEW t \in Seq(Nat), Len(s) <= Len(t),
         \A i \in 1..Len(s) : s[i] = t[i]
  PROVE  IsPrefix(s, t)
<1>1. SubSeq(s, 1, Len(s)) = SubSeq(t, 1, Len(s))
  OBVIOUS
<1> QED
  BY <1>1 DEF IsPrefix

\* The equation of the loop.
LEMMA ParseListEquation ==
  ASSUME NEW text \in Seq(Nat)
  PROVE  \E e : /\ ParseList(text) = e[1]
                /\ \A it \in 1..(Len(text) + 1) :
                     e[it] = LET next == NextComma(text, it)
                             IN  IF next # 0 THEN <<Element(text, it, next)>> \o e[next + 1]
                                 ELSE IF it > Len(text) THEN <<>>
                                 ELSE <<Rest(text, it)>>
<1> DEFINE max == Len(text)
           NextOf(it) == NextComma(text, it)
           EndOf(it) == IF it > max THEN <<>> ELSE <<Rest(text, it)>>
           Def(e, it) == IF NextOf(it) # 0 THEN <<Element(text, it, NextOf(it))>> \o e[NextOf(it) + 1]
                         ELSE EndOf(it)
           elements == CHOOSE e : e = [it \in 1..(max + 1) |-> Def(e, it)]
           Upto == {m \in Nat : \E e : e = [it \in (max + 1 - m)..(max + 1) |-> Def(e, it)]}
<1>1. max \in Nat
  OBVIOUS
<1>2. \A it \in 1..(max + 1) : NextOf(it) # 0 => NextOf(it) + 1 \in (it + 1)..(max + 1)
  BY NextCommaIsFirst
<1>3. ParseList(text) = elements[1]
  BY DEF ParseList
<1> HIDE DEF max, NextOf, EndOf
<1>4. \A d, e, it : (NextOf(it) # 0 => d[NextOf(it) + 1] = e[NextOf(it) + 1]) => Def(d, it) = Def(e, it)
  OBVIOUS
<1> HIDE DEF Def
<1>5. 0 \in Upto
  <2> DEFINE e == [it \in (max + 1)..(max + 1) |-> Def(<<>>, it)]
  <2>1. ASSUME NEW it \in (max + 1)..(max + 1) PROVE e[it] = Def(e, it)
    <3>1. NextOf(it) = 0
      BY <1>1, <1>2
    <3> QED
      BY <1>4, <3>1
  <2> HIDE DEF e
  <2>2. e = [it \in (max + 1)..(max + 1) |-> Def(e, it)]
    BY <2>1 DEF e
  <2> QED
    BY <1>1, <2>2
<1>6. \A m \in 0..(max - 1) : m \in Upto => m + 1 \in Upto
  <2> SUFFICES ASSUME NEW m \in 0..(max - 1), m \in Upto PROVE m + 1 \in Upto
    OBVIOUS
  <2> DEFINE first == max - m
             Places == first..(max + 1)
  <2>1. PICK e : e = [it \in (max + 1 - m)..(max + 1) |-> Def(e, it)]
    OBVIOUS
  <2>2. first \in Nat /\ first # 0 /\ first + 1 = max + 1 - m
        /\ first \in Places /\ max + 1 - (m + 1) = first /\ m + 1 \in Nat
    BY <1>1
  <2> DEFINE w == [it \in Places |-> IF it = first THEN Def(e, it) ELSE e[it]]
  <2>3. \A it \in Places : it = first \/ it \in (max + 1 - m)..(max + 1)
    BY <1>1
  <2>4. \A it \in Places : it \in 1..(max + 1)
    BY <1>1
  <2>5. ASSUME NEW it \in Places PROVE w[it] = Def(w, it)
    <3>1. w[it] = Def(e, it)
      <4>1. CASE it = first
        BY <4>1
      <4>2. CASE it # first
        <5>1. it \in (max + 1 - m)..(max + 1)
          BY <2>3, <4>2
        <5>2. e[it] = Def(e, it)
          BY <2>1, <5>1, Zenon
        <5> QED
          BY <4>2, <5>2
      <4> QED
        BY <4>1, <4>2
    <3>2. NextOf(it) # 0 => w[NextOf(it) + 1] = e[NextOf(it) + 1]
      <4> SUFFICES ASSUME NextOf(it) # 0 PROVE w[NextOf(it) + 1] = e[NextOf(it) + 1]
        OBVIOUS
      <4>1. NextOf(it) + 1 \in (it + 1)..(max + 1)
        BY <1>2, <2>4
      <4>2. NextOf(it) + 1 \in Places /\ NextOf(it) + 1 # first
        BY <1>1, <2>2, <4>1
      <4> QED
        BY <4>2
    <3> HIDE DEF w
    <3> QED
      BY <1>4, <3>1, <3>2
  <2> HIDE DEF w
  <2>6. w = [it \in Places |-> Def(w, it)]
    BY <2>5 DEF w
  <2>7. w = [it \in (max + 1 - (m + 1))..(max + 1) |-> Def(w, it)]
    BY <2>2, <2>6
  <2> QED
    BY <2>2, <2>7
<1> HIDE DEF Upto
<1>7. \A m \in 0..max : m \in Upto
  BY <1>1, <1>5, <1>6, SetInductionUpTo
<1>8. max \in Upto
  BY <1>1, <1>7
<1>9. PICK e : e = [it \in 1..(max + 1) |-> Def(e, it)]
  BY <1>1, <1>8 DEF Upto
<1>10. elements = [it \in 1..(max + 1) |-> Def(elements, it)]
  BY <1>9
<1> HIDE DEF elements
<1>11. \A it \in 1..(max + 1) : elements[it] = Def(elements, it)
  BY <1>10
<1> QED
  BY <1>3, <1>11, Zenon DEF Def, NextOf, EndOf, max

\* The texts of the fields from each one on.
AreTexts(w, fields) ==
  LET n == Len(fields)
  IN  /\ w[n] = fields[n]
      /\ \A k \in 1..(n - 1) : w[k] = fields[k] \o <<Comma>> \o w[k + 1]

\* The equation of the text of a list.
LEMMA JoinedEquation ==
  ASSUME NEW fields, NEW n \in Nat \ {0}, Len(fields) = n
  PROVE  \E w : Joined(fields) = w[1] /\ AreTexts(w, fields)
<1> DEFINE Def(w, k) == IF k = n THEN fields[k] ELSE fields[k] \o <<Comma>> \o w[k + 1]
           from == CHOOSE w : w = [k \in 1..n |-> Def(w, k)]
           Upto == {m \in Nat : \E w : w = [k \in (n - m)..n |-> Def(w, k)]}
<1>1. Joined(fields) = from[1]
  BY DEF Joined
<1>2. \A v, w, k : (k # n => v[k + 1] = w[k + 1]) => Def(v, k) = Def(w, k)
  OBVIOUS
<1> HIDE DEF Def
<1>3. 0 \in Upto
  <2> DEFINE w == [k \in n..n |-> Def(<<>>, k)]
  <2>1. ASSUME NEW k \in n..n PROVE w[k] = Def(w, k)
    BY <1>2
  <2> HIDE DEF w
  <2>2. w = [k \in n..n |-> Def(w, k)]
    BY <2>1 DEF w
  <2> QED
    BY <2>2
<1>4. \A m \in 0..(n - 2) : m \in Upto => m + 1 \in Upto
  <2> SUFFICES ASSUME NEW m \in 0..(n - 2), m \in Upto PROVE m + 1 \in Upto
    OBVIOUS
  <2> DEFINE first == n - (m + 1)
             Places == first..n
  <2>1. PICK v : v = [k \in (n - m)..n |-> Def(v, k)]
    OBVIOUS
  <2>2. m + 1 \in Nat /\ \A k \in Places : k = first \/ k \in (n - m)..n
    OBVIOUS
  <2> DEFINE w == [k \in Places |-> IF k = first THEN Def(v, k) ELSE v[k]]
  <2>3. ASSUME NEW k \in Places PROVE w[k] = Def(w, k)
    <3>1. w[k] = Def(v, k)
      <4>1. CASE k = first
        BY <4>1
      <4>2. CASE k # first
        <5>1. k \in (n - m)..n
          BY <2>2, <4>2
        <5>2. v[k] = Def(v, k)
          BY <2>1, <5>1, Zenon
        <5> QED
          BY <4>2, <5>2
      <4> QED
        BY <4>1, <4>2
    <3>2. k # n => w[k + 1] = v[k + 1]
      <4>1. k # n => k + 1 \in Places /\ k + 1 # first
        OBVIOUS
      <4> QED
        BY <4>1
    <3> HIDE DEF w
    <3> QED
      BY <1>2, <3>1, <3>2
  <2> HIDE DEF w
  <2>4. w = [k \in (n - (m + 1))..n |-> Def(w, k)]
    BY <2>3 DEF w
  <2> QED
    BY <2>2, <2>4
<1> HIDE DEF Upto
<1>5. \A m \in 0..(n - 1) : m \in Upto
  <2>1. n - 1 \in Nat /\ (n - 1) - 1 = n - 2
    OBVIOUS
  <2> QED
    BY <1>3, <1>4, <2>1, SetInductionUpTo
<1>6. PICK w : w = [k \in 1..n |-> Def(w, k)]
  <2>1. n - 1 \in 0..(n - 1) /\ n - (n - 1) = 1
    OBVIOUS
  <2>2. n - 1 \in Upto
    BY <1>5, <2>1
  <2> QED
    BY <2>1, <2>2 DEF Upto
<1>7. from = [k \in 1..n |-> Def(from, k)]
  BY <1>6
<1> HIDE DEF from
<1>8. \A k \in 1..n : from[k] = Def(from, k)
  BY <1>7
<1>9. from[n] = fields[n]
  BY <1>8 DEF Def
<1>10. \A k \in 1..(n - 1) : from[k] = fields[k] \o <<Comma>> \o from[k + 1]
  <2>1. \A k \in 1..(n - 1) : k \in 1..n /\ k # n
    OBVIOUS
  <2> QED
    BY <1>8, <2>1 DEF Def
<1> QED
  BY <1>1, <1>9, <1>10 DEF AreTexts

\* What a field is made of.
NoComma == Nat \ {Comma}

\* The elements that the loop takes from a place on, of the fields from the k-th on.
IsListOf(list, fields, k) ==
  LET n == Len(fields)
  IN  /\ list \in Seq(Seq(Nat))
      /\ Len(list) = IF fields[n] = <<>> THEN n - k ELSE n - k + 1
      /\ \A i \in 1..Len(list) : IsPrefix(fields[k + i - 1], list[i])
      /\ Len(list) = n - k + 1 => list[n - k + 1] = fields[n]

\* A field has no comma.
LEMMA CharsAreNat ==
  ASSUME NEW f \in Seq(NoComma)
  PROVE  f \in Seq(Nat) /\ Len(f) \in Nat /\ \A i \in 1..Len(f) : f[i] # Comma
BY DEF NoComma

\* A field, a comma and what comes behind.
LEMMA ConcatOfThree ==
  ASSUME NEW f \in Seq(Nat), NEW t \in Seq(Nat)
  PROVE  LET s == f \o <<Comma>> \o t
         IN  /\ s \in Seq(Nat) /\ Len(s) = Len(f) + 1 + Len(t)
             /\ \A i \in 1..Len(f) : s[i] = f[i]
             /\ s[Len(f) + 1] = Comma
             /\ Rest(s, Len(f) + 2) = t
<1> DEFINE c == <<Comma>>
           h == f \o c
           s == h \o t
<1>0. Len(f) \in Nat /\ Len(t) \in Nat
  OBVIOUS
<1>1. c \in Seq(Nat) /\ Len(c) = 1 /\ c[1] = Comma
  BY DEF Comma
<1> HIDE DEF c
<1>2. /\ h \in Seq(Nat) /\ Len(h) = Len(f) + 1
      /\ \A i \in 1..(Len(f) + 1) : h[i] = IF i <= Len(f) THEN f[i] ELSE c[i - Len(f)]
  <2>1. /\ h \in Seq(Nat) /\ Len(h) = Len(f) + Len(c)
        /\ \A i \in 1..(Len(f) + Len(c)) : h[i] = IF i <= Len(f) THEN f[i] ELSE c[i - Len(f)]
    BY <1>1, ConcatElements, Zenon
  <2> QED
    BY <1>1, <2>1
<1> HIDE DEF h
<1>3. /\ s \in Seq(Nat) /\ Len(s) = Len(h) + Len(t)
      /\ \A i \in 1..(Len(h) + Len(t)) : s[i] = IF i <= Len(h) THEN h[i] ELSE t[i - Len(h)]
  <2>1. h \in Seq(Nat)
    BY <1>2
  <2> QED
    BY <2>1, ConcatElements, Zenon
<1>4. Rest(s, Len(h) + 1) = t
  BY <1>2, RestOfJoined
<1> HIDE DEF s
<1>5. \A i \in 1..Len(f) : s[i] = f[i]
  <2> SUFFICES ASSUME NEW i \in 1..Len(f) PROVE s[i] = f[i]
    OBVIOUS
  <2>1. i \in 1..(Len(f) + 1) /\ i <= Len(f) /\ i \in 1..(Len(h) + Len(t)) /\ i <= Len(h)
    BY <1>0, <1>2
  <2>2. h[i] = f[i]
    BY <1>0, <1>2, <2>1
  <2> QED
    BY <1>3, <2>1, <2>2
<1>6. s[Len(f) + 1] = Comma
  <2>1. Len(f) + 1 \in 1..(Len(h) + Len(t)) /\ Len(f) + 1 <= Len(h) /\ Len(f) + 1 \in 1..(Len(f) + 1)
    BY <1>0, <1>2
  <2>2. s[Len(f) + 1] = h[Len(f) + 1]
    BY <1>0, <1>2, <1>3, <2>1
  <2>3. ~(Len(f) + 1 <= Len(f))
    BY <1>0
  <2>4. h[Len(f) + 1] = c[(Len(f) + 1) - Len(f)]
    BY <1>2, <2>1, <2>3, Zenon
  <2>5. (Len(f) + 1) - Len(f) = 1
    BY <1>0
  <2> QED
    BY <1>1, <2>2, <2>4, <2>5
<1>7. Len(h) + 1 = Len(f) + 2 /\ Len(s) = Len(f) + 1 + Len(t)
  BY <1>0, <1>2, <1>3
<1> QED
  BY <1>3, <1>4, <1>5, <1>6, <1>7 DEF s, h, c

\* The elements of a part of a sequence.
LEMMA SubSeqElements ==
  ASSUME NEW s \in Seq(Nat), NEW m \in Nat, m # 0, NEW n \in Nat, n <= Len(s), m - 1 <= n
  PROVE  /\ SubSeq(s, m, n) \in Seq(Nat) /\ Len(SubSeq(s, m, n)) = n - m + 1
         /\ \A i \in 1..(n - m + 1) : SubSeq(s, m, n)[i] = s[m + i - 1]
OBVIOUS

\* Behind the last comma: the rest is the last field.
LEMMA LastIsTaken ==
  ASSUME NEW text \in Seq(Nat), NEW it \in 1..(Len(text) + 1), NEW f \in Seq(NoComma),
         Rest(text, it) = f
  PROVE  NextComma(text, it) = 0 /\ (it > Len(text) <=> f = <<>>)
<1>1. /\ Len(f) = Len(text) - it + 1
      /\ \A i \in 1..(Len(text) - it + 1) : f[i] = text[it + i - 1]
  BY RestElements
<1>2. \A i \in 1..Len(f) : f[i] # Comma
  BY CharsAreNat
<1>3. ASSUME NEW j \in it..Len(text) PROVE text[j] # Comma
  <2>1. j - it + 1 \in 1..(Len(text) - it + 1) /\ it + (j - it + 1) - 1 = j
    OBVIOUS
  <2> QED
    BY <1>1, <1>2, <2>1
<1>4. NextComma(text, it) = 0
  BY <1>3, NextCommaIsFirst
<1>5. it > Len(text) <=> Len(f) = 0
  BY <1>1
<1> QED
  BY <1>4, <1>5

\* What the loop takes of the text from a place on, where the field f stands.
FieldTaken(text, it, f, t) ==
  LET next    == NextComma(text, it)
      element == Element(text, it, next)
  IN  /\ next \in it..Len(text)
      /\ Rest(text, next + 1) = t
      /\ element \in Seq(Nat) /\ IsPrefix(f, element)
      /\ it = 1 => element = f

\* In front of it: the comma behind the field is found, and what is taken begins with
\* the field; at the beginning of the text it is the field.
LEMMA FieldIsTaken ==
  ASSUME NEW text \in Seq(Nat), NEW it \in 1..(Len(text) + 1),
         NEW f \in Seq(NoComma), NEW t \in Seq(Nat)
  PROVE  Rest(text, it) = f \o <<Comma>> \o t => FieldTaken(text, it, f, t)
<1> DEFINE next == NextComma(text, it)
           element == Element(text, it, next)
           r == Rest(text, it)
           last == Min({it + next - 2, Len(text)})
<1>a. SUFFICES ASSUME r = f \o <<Comma>> \o t PROVE FieldTaken(text, it, f, t)
  OBVIOUS
<1>0. Len(text) \in Nat /\ Len(t) \in Nat /\ Len(f) \in Nat
  BY CharsAreNat
<1>1. f \in Seq(Nat) /\ Len(f) \in Nat /\ \A i \in 1..Len(f) : f[i] # Comma
  BY CharsAreNat, Zenon
<1>2. /\ r \in Seq(Nat) /\ Len(r) = Len(f) + 1 + Len(t)
      /\ \A i \in 1..Len(f) : r[i] = f[i]
      /\ r[Len(f) + 1] = Comma
      /\ Rest(r, Len(f) + 2) = t
  <2> DEFINE s == f \o <<Comma>> \o t
  <2>1. /\ s \in Seq(Nat) /\ Len(s) = Len(f) + 1 + Len(t)
        /\ \A i \in 1..Len(f) : s[i] = f[i]
        /\ s[Len(f) + 1] = Comma
        /\ Rest(s, Len(f) + 2) = t
    BY <1>1, ConcatOfThree, Zenon
  <2> QED
    BY <1>a, <2>1
<1>3. /\ Len(r) = Len(text) - it + 1
      /\ \A i \in 1..(Len(text) - it + 1) : r[i] = text[it + i - 1]
  BY RestElements, Zenon
<1> HIDE DEF r
<1>4. Len(text) = it + Len(f) + Len(t) /\ Len(t) \in Nat /\ it \in Nat /\ it # 0
  <2>1. Len(r) = Len(f) + 1 + Len(t)
    BY <1>2, Zenon
  <2>2. Len(r) = Len(text) - it + 1
    BY <1>3, Zenon
  <2> QED
    BY <1>0, <2>1, <2>2
<1>5. \A i \in 1..Len(f) : text[it + i - 1] = f[i]
  BY <1>0, <1>1, <1>2, <1>3, <1>4
<1>6. text[it + Len(f)] = Comma
  <2>1. Len(f) + 1 \in 1..(Len(text) - it + 1) /\ it + (Len(f) + 1) - 1 = it + Len(f)
    BY <1>0, <1>1, <1>4
  <2>2. r[Len(f) + 1] = text[it + (Len(f) + 1) - 1]
    BY <1>3, <2>1
  <2> QED
    BY <1>2, <2>1, <2>2
<1>7. next = it + Len(f)
  <2>1. it + Len(f) \in it..Len(text)
    BY <1>0, <1>1, <1>4
  <2>2. next \in it..Len(text) /\ text[next] = Comma /\ next <= it + Len(f)
    BY <1>6, <2>1, NextCommaIsFirst
  <2>3. ~(next < it + Len(f))
    <3> SUFFICES ASSUME next < it + Len(f) PROVE FALSE
      OBVIOUS
    <3> HIDE DEF next
    <3>1. next - it + 1 \in 1..Len(f) /\ it + (next - it + 1) - 1 = next
      BY <1>0, <1>1, <2>2
    <3>2. text[next] = f[next - it + 1]
      BY <1>5, <3>1
    <3> QED
      BY <1>0, <1>1, <2>2, <3>1, <3>2
  <2> HIDE DEF next
  <2>4. next \in Nat /\ next <= it + Len(f)
    BY <1>0, <1>4, <2>2
  <2>5. \A m, n \in Nat : m <= n /\ ~(m < n) => m = n
    OBVIOUS
  <2>6. it + Len(f) \in Nat
    BY <1>0, <1>4
  <2> QED
    BY <2>3, <2>4, <2>5, <2>6, Zenon
<1> HIDE DEF next
<1>8. next \in it..Len(text)
  BY <1>0, <1>1, <1>4, <1>7
<1>9. Rest(text, next + 1) = t
  <2>1. next + 1 \in 1..(Len(text) + 1) /\ Len(text) - (next + 1) + 1 = Len(t)
    BY <1>0, <1>1, <1>4, <1>7
  <2>2. /\ Rest(text, next + 1) \in Seq(Nat) /\ Len(Rest(text, next + 1)) = Len(t)
        /\ \A i \in 1..Len(t) : Rest(text, next + 1)[i] = text[next + 1 + i - 1]
    BY <2>1, RestElements
  <2>3. ASSUME NEW i \in 1..Len(t) PROVE t[i] = text[next + 1 + i - 1]
    <3>1. Len(f) + 2 \in 1..(Len(r) + 1) /\ Len(r) - (Len(f) + 2) + 1 = Len(t)
      <4>1. Len(r) = Len(f) + 1 + Len(t)
        BY <1>2, Zenon
      <4> QED
        BY <1>0, <4>1
    <3>2. t[i] = r[(Len(f) + 2) + i - 1]
      BY <1>2, <3>1, RestElements
    <3>3. /\ (Len(f) + 2) + i - 1 \in 1..(Len(text) - it + 1)
          /\ it + ((Len(f) + 2) + i - 1) - 1 = next + 1 + i - 1
      <4> DEFINE m == Len(f)
                 k == Len(t)
                 n == Len(text)
      <4>1. m \in Nat /\ k \in Nat /\ it \in Nat /\ n = it + m + k /\ next = it + m /\ i \in 1..k
        BY <1>0, <1>4, <1>7
      <4> HIDE DEF m, k, n
      <4>2. (m + 2) + i - 1 \in 1..(n - it + 1) /\ it + ((m + 2) + i - 1) - 1 = next + 1 + i - 1
        BY <4>1
      <4> QED
        BY <4>2, Zenon DEF m, n
    <3> QED
      BY <1>3, <3>2, <3>3
  <2> DEFINE u == Rest(text, next + 1)
  <2>4. \A i \in 1..Len(t) : u[i] = t[i]
    BY <2>2, <2>3
  <2> HIDE DEF u
  <2>5. u \in Seq(Nat) /\ Len(u) = Len(t)
    BY <2>2 DEF u
  <2>6. u = t
    <3>1. u = [i \in 1..Len(t) |-> u[i]] /\ t = [i \in 1..Len(t) |-> t[i]]
      BY <2>5
    <3> QED
      BY <2>4, <3>1
  <2> QED
    BY <2>6 DEF u
<1>10. /\ last \in Nat /\ last <= Len(text) /\ last >= it + Len(f) - 1
       /\ it = 1 => last = Len(f)
  <2>1. it + next - 2 \in Nat /\ Len(text) \in Nat
    BY <1>0, <1>1, <1>7
  <2>2. last = IF it + next - 2 <= Len(text) THEN it + next - 2 ELSE Len(text)
    BY <2>1, MinOfTwo
  <2> HIDE DEF last
  <2> DEFINE m == Len(f)
             k == Len(t)
             n == Len(text)
  <2>3. m \in Nat /\ k \in Nat /\ it \in Nat /\ it # 0 /\ n = it + m + k /\ next = it + m
    BY <1>0, <1>4, <1>7
  <2>4. last = IF it + next - 2 <= n THEN it + next - 2 ELSE n
    BY <2>2
  <2> HIDE DEF m, k, n
  <2>5. /\ last \in Nat /\ last <= n /\ last >= it + m - 1
        /\ it = 1 => last = m
    BY <2>3, <2>4
  <2> QED
    BY <2>5, Zenon DEF m, n
<1>11. element = SubSeq(text, it, last)
  BY DEF Element
<1> HIDE DEF element, last
<1>12. /\ element \in Seq(Nat) /\ Len(element) = last - it + 1
       /\ \A i \in 1..(last - it + 1) : element[i] = text[it + i - 1]
  <2>1. last \in Nat /\ last <= Len(text) /\ it - 1 <= last
    BY <1>0, <1>4, <1>10
  <2> QED
    BY <1>4, <1>11, <2>1, SubSeqElements
<1>13. \A i \in 1..Len(f) : f[i] = element[i]
  <2> SUFFICES ASSUME NEW i \in 1..Len(f) PROVE f[i] = element[i]
    OBVIOUS
  <2>1. i \in 1..(last - it + 1)
    BY <1>0, <1>10
  <2> QED
    BY <1>5, <1>12, <2>1
<1>14. IsPrefix(f, element)
  <2>1. Len(f) <= Len(element)
    BY <1>0, <1>1, <1>10, <1>12
  <2> QED
    BY <1>0, <1>1, <1>12, <1>13, <2>1, PrefixByElements
<1>15. it = 1 => element = f
  <2> SUFFICES ASSUME it = 1 PROVE element = f
    OBVIOUS
  <2>1. Len(element) = Len(f)
    BY <1>0, <1>1, <1>10, <1>12
  <2>2. element = [i \in 1..Len(f) |-> element[i]] /\ f = [i \in 1..Len(f) |-> f[i]]
    <3>1. element \in Seq(Nat) /\ f \in Seq(Nat)
      BY <1>1, <1>12
    <3> QED
      BY <2>1, <3>1
  <2> QED
    BY <1>13, <2>2
<1> QED
  BY <1>8, <1>9, <1>12, <1>14, <1>15 DEF next, element, FieldTaken

\* The elements behind a new first one.
LEMMA ConsElements ==
  ASSUME NEW x \in Seq(Nat), NEW t \in Seq(Seq(Nat))
  PROVE  LET l == <<x>> \o t
         IN  /\ l \in Seq(Seq(Nat)) /\ Len(l) = Len(t) + 1 /\ l[1] = x
             /\ \A i \in 2..(Len(t) + 1) : l[i] = t[i - 1]
<1> DEFINE c == <<x>>
           l == c \o t
<1>0. Len(t) \in Nat
  OBVIOUS
<1>1. c \in Seq(Seq(Nat)) /\ Len(c) = 1 /\ c[1] = x
  OBVIOUS
<1> HIDE DEF c
<1>2. /\ l \in Seq(Seq(Nat)) /\ Len(l) = Len(c) + Len(t)
      /\ \A i \in 1..(Len(c) + Len(t)) : l[i] = IF i <= Len(c) THEN c[i] ELSE t[i - Len(c)]
  BY <1>1, ConcatProperties
<1> HIDE DEF l
<1>3. /\ Len(l) = Len(t) + 1
      /\ \A i \in 1..(Len(t) + 1) : l[i] = IF i <= 1 THEN c[i] ELSE t[i - 1]
  BY <1>0, <1>1, <1>2
<1>4. l[1] = x
  BY <1>0, <1>1, <1>3
<1>5. \A i \in 2..(Len(t) + 1) : l[i] = t[i - 1]
  BY <1>0, <1>3
<1> QED
  BY <1>2, <1>3, <1>4, <1>5, Zenon DEF l, c

\* An element that begins with its field, in front of those of the fields behind it.
LEMMA ConsIsListOf ==
  ASSUME NEW fields \in Seq(Seq(NoComma)), NEW k \in 1..(Len(fields) - 1),
         NEW tail, IsListOf(tail, fields, k + 1),
         NEW element \in Seq(Nat), IsPrefix(fields[k], element)
  PROVE  IsListOf(<<element>> \o tail, fields, k)
<1> DEFINE n == Len(fields)
           list == <<element>> \o tail
           Count(m) == IF fields[n] = <<>> THEN n - m ELSE n - m + 1
<1>0. n \in Nat /\ k \in Nat /\ k < n
  OBVIOUS
<1>1. /\ tail \in Seq(Seq(Nat)) /\ Len(tail) = Count(k + 1)
      /\ \A i \in 1..Len(tail) : IsPrefix(fields[(k + 1) + i - 1], tail[i])
      /\ Len(tail) = n - (k + 1) + 1 => tail[n - (k + 1) + 1] = fields[n]
  BY DEF IsListOf
<1>2. /\ list \in Seq(Seq(Nat)) /\ Len(list) = Len(tail) + 1 /\ list[1] = element
      /\ \A i \in 2..(Len(tail) + 1) : list[i] = tail[i - 1]
  <2>1. tail \in Seq(Seq(Nat))
    BY <1>1
  <2> QED
    BY <2>1, ConsElements, Zenon
<1> HIDE DEF n
<1>3. Count(k) = Count(k + 1) + 1 /\ Count(k + 1) \in Nat
  <2>1. CASE fields[n] = <<>>
    BY <1>0, <2>1
  <2>2. CASE fields[n] # <<>>
    BY <1>0, <2>2
  <2> QED
    BY <2>1, <2>2
<1> HIDE DEF list, Count
<1>4. ASSUME NEW i \in 1..Len(list) PROVE IsPrefix(fields[k + i - 1], list[i])
  <2>1. CASE i = 1
    <3>1. k + i - 1 = k
      BY <1>0, <2>1
    <3> QED
      BY <1>2, <2>1, <3>1
  <2>2. CASE i # 1
    <3>1. i - 1 \in 1..Len(tail) /\ (k + 1) + (i - 1) - 1 = k + i - 1 /\ i \in 2..(Len(tail) + 1)
      BY <1>0, <1>1, <1>2, <1>3, <2>2
    <3>2. IsPrefix(fields[(k + 1) + (i - 1) - 1], tail[i - 1])
      BY <1>1, <3>1
    <3>3. list[i] = tail[i - 1]
      BY <1>2, <3>1
    <3> QED
      BY <3>1, <3>2, <3>3
  <2> QED
    BY <2>1, <2>2
<1>5. ASSUME Len(list) = n - k + 1 PROVE list[n - k + 1] = fields[n]
  <2>0. Len(tail) \in Nat /\ Len(list) = Len(tail) + 1
    BY <1>1, <1>2, <1>3
  <2>1. Len(tail) = n - (k + 1) + 1 /\ (n - k + 1) - 1 = n - (k + 1) + 1
    <3>1. \A a, b, c \in Nat : a + 1 = b - c + 1 => a = b - (c + 1) + 1 /\ (b - c + 1) - 1 = b - (c + 1) + 1
      OBVIOUS
    <3>2. Len(tail) + 1 = n - k + 1
      BY <1>5, <2>0
    <3> QED
      BY <1>0, <2>0, <3>1, <3>2, Zenon
  <2>2. n - k + 1 \in 2..(Len(tail) + 1)
    BY <1>0, <2>1
  <2>3. list[n - k + 1] = tail[(n - k + 1) - 1]
    BY <1>2, <2>2
  <2> QED
    BY <1>1, <2>1, <2>3
<1>6. Len(list) = Count(k)
  BY <1>1, <1>2, <1>3
<1> QED
  BY <1>2, <1>4, <1>5, <1>6 DEF IsListOf, Count, list, n

\* The loop, from the beginning of what was written of the fields.
LEMMA ListIsRead ==
  ASSUME NEW fields \in Seq(Seq(NoComma)), fields # <<>>
  PROVE  LET list == ParseList(Joined(fields))
         IN  /\ IsListOf(list, fields, 1)
             /\ Len(list) # 0 => list[1] = fields[1]
<1> DEFINE n == Len(fields)
           text == Joined(fields)
<1>1. n \in Nat \ {0} /\ Len(fields) = n /\ \A k \in 1..n : fields[k] \in Seq(NoComma)
  OBVIOUS
<1> HIDE DEF n
<1>2. PICK w : /\ text = w[1] /\ w[n] = fields[n]
               /\ \A k \in 1..(n - 1) : w[k] = fields[k] \o <<Comma>> \o w[k + 1]
  <2>1. \E w : text = w[1] /\ AreTexts(w, fields)
    BY <1>1, JoinedEquation, Zenon
  <2> HIDE DEF text
  <2>2. PICK w : text = w[1] /\ AreTexts(w, fields)
    BY <2>1, Zenon
  <2> QED
    BY <1>1, <2>2 DEF AreTexts
<1>3. \A m \in 0..(n - 1) : w[n - m] \in Seq(Nat)
  <2> DEFINE T == {m \in Nat : w[n - m] \in Seq(Nat)}
  <2>1. 0 \in T
    BY <1>1, <1>2, CharsAreNat
  <2>2. ASSUME NEW m \in 0..((n - 1) - 1), m \in T PROVE m + 1 \in T
    <3>1. n - (m + 1) \in 1..(n - 1) /\ n - (m + 1) \in 1..n /\ (n - (m + 1)) + 1 = n - m
      BY <1>1
    <3>2. w[n - (m + 1)] = fields[n - (m + 1)] \o <<Comma>> \o w[n - m]
      BY <1>2, <3>1
    <3>3. fields[n - (m + 1)] \in Seq(Nat)
      BY <1>1, <3>1, CharsAreNat
    <3>4. fields[n - (m + 1)] \o <<Comma>> \o w[n - m] \in Seq(Nat)
      BY <2>2, <3>3, ConcatOfThree
    <3>5. m + 1 \in Nat
      BY <1>1
    <3> QED
      BY <3>2, <3>4, <3>5
  <2> HIDE DEF T
  <2>3. \A m \in 0..(n - 1) : m \in T
    <3>1. n - 1 \in Nat
      BY <1>1
    <3>2. \A m \in 0..((n - 1) - 1) : m \in T => m + 1 \in T
      BY <2>2
    <3> QED
      BY <2>1, <3>1, <3>2, SetInductionUpTo
  <2> QED
    BY <2>3 DEF T
<1>4. \A k \in 1..n : w[k] \in Seq(Nat)
  <2> SUFFICES ASSUME NEW k \in 1..n PROVE w[k] \in Seq(Nat)
    OBVIOUS
  <2>1. n - k \in 0..(n - 1) /\ n - (n - k) = k
    BY <1>1
  <2> QED
    BY <1>3, <2>1
<1>5. text \in Seq(Nat) /\ Len(text) \in Nat
  BY <1>1, <1>2, <1>4
<1> HIDE DEF text
<1>6. PICK e : /\ ParseList(text) = e[1]
               /\ \A it \in 1..(Len(text) + 1) :
                    e[it] = LET next == NextComma(text, it)
                            IN  IF next # 0 THEN <<Element(text, it, next)>> \o e[next + 1]
                                ELSE IF it > Len(text) THEN <<>>
                                ELSE <<Rest(text, it)>>
  BY <1>5, ParseListEquation
<1> DEFINE Places == 1..(Len(text) + 1)
           Read == {m \in 0..(n - 1) : \A it \in Places :
                      Rest(text, it) = w[n - m] => IsListOf(e[it], fields, n - m)}
<1>7. 0 \in Read
  <2>1. 0 \in 0..(n - 1) /\ n - 0 = n /\ n \in 1..n
    BY <1>1
  <2>2. ASSUME NEW it \in Places, Rest(text, it) = w[n] PROVE IsListOf(e[it], fields, n)
    <3>1. fields[n] \in Seq(NoComma) /\ fields[n] \in Seq(Nat) /\ Rest(text, it) = fields[n]
      BY <1>1, <1>2, <2>1, <2>2, CharsAreNat
    <3>2. NextComma(text, it) = 0 /\ (it > Len(text) <=> fields[n] = <<>>)
      BY <1>5, <3>1, LastIsTaken
    <3>3. e[it] = IF it > Len(text) THEN <<>> ELSE <<Rest(text, it)>>
      BY <1>6, <3>2
    <3>4. CASE fields[n] = <<>>
      <4>1. e[it] = <<>>
        BY <3>2, <3>3, <3>4
      <4>2. <<>> \in Seq(Seq(Nat)) /\ Len(<<>>) = 0 /\ n - n = 0 /\ n - n + 1 = 1
        BY <1>1
      <4> QED
        BY <1>1, <3>4, <4>1, <4>2 DEF IsListOf
    <3>5. CASE fields[n] # <<>>
      <4> DEFINE l == <<fields[n]>>
      <4>1. e[it] = l
        BY <3>1, <3>2, <3>3, <3>5
      <4>2. l \in Seq(Seq(Nat)) /\ Len(l) = 1 /\ l[1] = fields[n]
        BY <3>1
      <4>3. n - n + 1 = 1 /\ \A i \in 1..1 : i = 1 /\ n + i - 1 = n
        BY <1>1
      <4>4. IsPrefix(fields[n], fields[n])
        BY <3>1 DEF IsPrefix
      <4> HIDE DEF l
      <4>5. \A i \in 1..Len(l) : IsPrefix(fields[n + i - 1], l[i])
        BY <4>2, <4>3, <4>4
      <4> QED
        BY <1>1, <3>5, <4>1, <4>2, <4>3, <4>5 DEF IsListOf
    <3> QED
      BY <3>4, <3>5
  <2> QED
    BY <2>1, <2>2
<1>8. ASSUME NEW m \in 0..((n - 1) - 1), m \in Read PROVE m + 1 \in Read
  <2> DEFINE k == n - (m + 1)
  <2>1. /\ k \in 1..(n - 1) /\ k \in 1..n /\ k + 1 = n - m /\ k + 1 \in 1..n
        /\ m + 1 \in 0..(n - 1)
    BY <1>1
  <2> HIDE DEF k
  <2>2. fields[k] \in Seq(NoComma) /\ w[k + 1] \in Seq(Nat)
    BY <1>1, <1>4, <2>1
  <2>3. ASSUME NEW it \in Places, Rest(text, it) = w[k] PROVE IsListOf(e[it], fields, k)
    <3> DEFINE next == NextComma(text, it)
               element == Element(text, it, next)
    <3>1. Rest(text, it) = fields[k] \o <<Comma>> \o w[k + 1]
      BY <1>2, <2>1, <2>3
    <3>2. /\ next \in it..Len(text) /\ Rest(text, next + 1) = w[k + 1]
          /\ element \in Seq(Nat) /\ IsPrefix(fields[k], element)
      <4>1. FieldTaken(text, it, fields[k], w[k + 1])
        BY <1>5, <2>2, <3>1, FieldIsTaken, Zenon
      <4> QED
        BY <4>1, Zenon DEF FieldTaken
    <3>3. e[it] = <<element>> \o e[next + 1]
      <4>1. e[it] = IF next # 0 THEN <<element>> \o e[next + 1]
                    ELSE IF it > Len(text) THEN <<>>
                    ELSE <<Rest(text, it)>>
        BY <1>6, Zenon
      <4> HIDE DEF next, element
      <4>2. next # 0
        BY <1>5, <3>2
      <4> QED
        BY <4>1, <4>2
    <3> HIDE DEF next, element
    <3>4. next + 1 \in Places
      BY <1>5, <3>2
    <3>5. IsListOf(e[next + 1], fields, k + 1)
      BY <1>8, <2>1, <3>2, <3>4
    <3>6. k \in 1..(Len(fields) - 1)
      BY <1>1, <2>1
    <3> QED
      BY <3>2, <3>3, <3>5, <3>6, ConsIsListOf
  <2> QED
    BY <2>1, <2>3 DEF k
<1> HIDE DEF Read
<1>9. \A m \in 0..(n - 1) : m \in Read
  <2>1. n - 1 \in Nat
    BY <1>1
  <2>2. \A m \in 0..((n - 1) - 1) : m \in Read => m + 1 \in Read
    BY <1>8
  <2> QED
    BY <1>7, <2>1, <2>2, SetInductionUpTo
<1>10. Rest(text, 1) = w[1] /\ 1 \in Places
  BY <1>2, <1>5 DEF Rest
<1>11. IsListOf(e[1], fields, 1)
  <2>1. n - 1 \in 0..(n - 1) /\ n - (n - 1) = 1
    BY <1>1
  <2> QED
    BY <1>9, <1>10, <2>1 DEF Read
<1>12. ASSUME Len(e[1]) # 0 PROVE e[1][1] = fields[1]
  <2>1. CASE n = 1
    <3>1. Len(e[1]) = 1 - 1 + 1 /\ 1 - 1 + 1 = 1
      BY <1>1, <1>11, <1>12, <2>1 DEF IsListOf
    <3> QED
      BY <1>1, <1>11, <2>1, <3>1 DEF IsListOf
  <2>2. CASE n # 1
    <3> DEFINE next == NextComma(text, 1)
               element == Element(text, 1, next)
    <3>1. 1 \in 1..(n - 1) /\ 1 \in 1..n /\ 1 + 1 \in 1..n
      <4>1. n \in Nat /\ n # 0 /\ n # 1
        BY <1>1, <2>2
      <4> QED
        BY <4>1
    <3>2. fields[1] \in Seq(NoComma) /\ w[1 + 1] \in Seq(Nat)
      BY <1>1, <1>4, <3>1
    <3>3. Rest(text, 1) = fields[1] \o <<Comma>> \o w[1 + 1]
      BY <1>2, <1>10, <3>1
    <3>4. next \in 1..Len(text) /\ Rest(text, next + 1) = w[1 + 1] /\ element = fields[1]
      BY <1>5, <1>10, <3>2, <3>3, FieldIsTaken DEF FieldTaken
    <3>5. e[1] = <<element>> \o e[next + 1]
      <4>1. e[1] = IF next # 0 THEN <<element>> \o e[next + 1]
                   ELSE IF 1 > Len(text) THEN <<>>
                   ELSE <<Rest(text, 1)>>
        BY <1>6, <1>10, Zenon
      <4> HIDE DEF next, element
      <4>2. next # 0
        BY <1>5, <3>4
      <4> QED
        BY <4>1, <4>2
    <3> HIDE DEF next
    <3>6. next + 1 \in Places
      BY <1>5, <3>4
    <3>7. e[next + 1] \in Seq(Seq(Nat))
      <4>1. n \in Nat /\ n # 0 /\ n # 1
        BY <1>1, <2>2
      <4>2. n - 2 \in 0..(n - 1) /\ n - (n - 2) = 1 + 1
        BY <4>1
      <4>3. IsListOf(e[next + 1], fields, 1 + 1)
        BY <1>9, <3>4, <3>6, <4>2 DEF Read
      <4> QED
        BY <4>3 DEF IsListOf
    <3>8. element \in Seq(Nat)
      BY <3>2, <3>4, CharsAreNat
    <3> HIDE DEF element
    <3>9. (<<element>> \o e[next + 1])[1] = element
      BY <3>7, <3>8, ConsElements
    <3> QED
      BY <3>4, <3>5, <3>9
  <2> QED
    BY <2>1, <2>2
<1> QED
  BY <1>6, <1>11, <1>12 DEF text

LEMMA WriteListIsRead == WriteList => ListsBeginRight'
<1> SUFFICES ASSUME WriteList PROVE ListsBeginRight'
  OBVIOUS
<1>1. PICK fields \in UNION {[1..n -> Fields] : n \in 1..MaxFields} :
        input' = [type |-> "list", value |-> fields, text |-> Joined(fields)]
  BY DEF WriteList
<1>2. PICK n \in 1..MaxFields : fields \in [1..n -> Fields]
  OBVIOUS
<1>3. n \in Nat \ {0} /\ Fields \subseteq Seq(NoComma)
  BY FieldsAssumption DEF NoComma
<1>4. fields \in Seq(Seq(NoComma)) /\ fields # <<>> /\ Len(fields) = n
  <2>1. fields \in [1..n -> Seq(NoComma)]
    BY <1>2, <1>3
  <2>2. fields \in Seq(Seq(NoComma)) /\ Len(fields) = n
    BY <1>3, <2>1, SeqDef
  <2>3. n # 0 /\ Len(<<>>) = 0
    BY <1>3
  <2> QED
    BY <2>2, <2>3
<1> DEFINE list == ParseList(Joined(fields))
<1>5. IsListOf(list, fields, 1) /\ (Len(list) # 0 => list[1] = fields[1])
  BY <1>4, ListIsRead
<1> HIDE DEF list
<1>6. /\ list \in Seq(Seq(Nat))
      /\ Len(list) = IF fields[n] = <<>> THEN n - 1 ELSE n - 1 + 1
      /\ \A i \in 1..Len(list) : IsPrefix(fields[1 + i - 1], list[i])
      /\ Len(list) = n - 1 + 1 => list[n - 1 + 1] = fields[n]
  BY <1>4, <1>5 DEF IsListOf
<1>7. n - 1 + 1 = n /\ DOMAIN list = 1..Len(list) /\ Len(list) \in Nat
  BY <1>3, <1>6
<1>8. \A i \in DOMAIN list : IsPrefix(fields[i], list[i])
  <2> SUFFICES ASSUME NEW i \in 1..Len(list) PROVE IsPrefix(fields[i], list[i])
    BY <1>7
  <2>1. 1 + i - 1 = i
    BY <1>7
  <2> QED
    BY <1>6, <2>1
<1>9. \A i \in {1, n} \cap DOMAIN list : list[i] = fields[i]
  <2>1. 1 \in DOMAIN list => Len(list) # 0
    BY <1>7
  <2>2. n \in DOMAIN list => Len(list) = n
    BY <1>3, <1>6, <1>7
  <2> QED
    BY <1>5, <1>6, <1>7, <2>1, <2>2
<1>10. input'.value = fields /\ ParseList(input'.text) = list
  BY <1>1 DEF list
<1> QED
  BY <1>4, <1>6, <1>7, <1>8, <1>9, <1>10 DEF ListsBeginRight

\* A list has an element for each field; the first and the last are their fields, and
\* each of the others begins with its field (string_parse.hpp:201-221).
THEOREM ListsBeginRightCorrect == WriteSpec => []ListsBeginRight
<1>1. WriteInit => ListsBeginRight
  BY DEF WriteInit, NoInput, ListsBeginRight
<1>2. ListsBeginRight /\ [WriteInteger \/ WriteList]_input => ListsBeginRight'
  <2>1. CASE WriteInteger
    <3>1. input'.type = "integer"
      BY <2>1 DEF WriteInteger
    <3> QED
      BY <3>1 DEF ListsBeginRight
  <2>2. CASE WriteList
    BY <2>2, WriteListIsRead
  <2>3. CASE UNCHANGED input
    BY <2>3 DEF ListsBeginRight
  <2> QED
    BY <2>1, <2>2, <2>3
<1> QED
  BY <1>1, <1>2, PTL DEF WriteSpec
=============================================================================
