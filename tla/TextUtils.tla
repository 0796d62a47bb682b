----------------------------- MODULE TextUtils -----------------------------
(***************************************************************************)
(* The pure functions of utils: parse() of string_parse.hpp, by the type   *)
(* that is asked for, and the hex dump of utils.hpp.                       *)
(*                                                                         *)
(* A text is the sequence of its characters' codes.  A function gives the  *)
(* set of its outcomes: more than one where the code reads behind the end. *)
(***************************************************************************)
EXTENDS Integers, SequencesExt

CONSTANT MaxInt  \* the greatest value of the integer type that is parsed

ASSUME MaxIntAssumption == MaxInt \in Nat

MinInt == -MaxInt - 1
Ints   == MinInt..MaxInt

\* Characters.
Minus == 45
Comma == 44
Zero  == 48
One   == 49
Exes  == {88, 120}

TrueWord  == <<116, 114, 117, 101>>
FalseWord == <<102, 97, 108, 115, 101>>

Value(v)  == [outcome |-> "value", value |-> v]
Throws    == [outcome |-> "throws"]
Undefined == [outcome |-> "undefined"]

Rest(text, i) == SubSeq(text, i, Len(text))

-----------------------------------------------------------------------------
(* Truth values and characters.                                            *)

\* tolower()
Lower(c) == IF c \in 65..90 THEN c + 32 ELSE c

\* equal() with tolower(), on texts of one length.
IsWord(text, word) == \A i \in DOMAIN word : Lower(text[i]) = word[i]

\* The text may be the word: its first character and its length are right.
LooksLike(text, word) == Lower(text[1]) = word[1] /\ Len(text) = Len(word)

\* front() of an empty text is undefined.
ParseBoolean(text) ==
  IF text = <<>> THEN {Undefined}
  ELSE IF Len(text) = 1
    THEN IF text[1] \in {Zero, One} THEN {Value(text[1] = One)} ELSE {Throws}
  ELSE IF LooksLike(text, TrueWord) THEN {Value(IsWord(text, TrueWord))}
  ELSE IF LooksLike(text, FalseWord) THEN {Value(~IsWord(text, FalseWord))}
  ELSE {Throws}

ParseChar(text) == {IF Len(text) = 1 THEN Value(text[1]) ELSE Throws}

-----------------------------------------------------------------------------
(* Integers of a signed type.                                              *)

\* The value of a character as a digit, or one that no base has.
DigitOf(c) ==
  IF c \in 48..57 THEN c - 48 ELSE IF Lower(c) \in 97..102 THEN Lower(c) - 87 ELSE 99

\* The longest beginning of a text that consists of digits.
Digits(text, base) ==
  LET other == SelectInSeq(text, LAMBDA c : DigitOf(c) >= base)
  IN  IF other = 0 THEN text ELSE SubSeq(text, 1, other - 1)

\* The value of a sequence of digits.
NumberOf(digits, base) ==
  LET value[i \in 0..Len(digits)] ==
        IF i = 0 THEN 0 ELSE base * value[i - 1] + digits[i]
  IN  value[Len(digits)]

Signed(negative, size) == IF negative THEN -size ELSE size

\* std::from_chars(): what does not fit the type, or is no number, leaves the 0 it
\* was given.  It takes a minus sign of its own.
FromChars(text, base) ==
  LET negative == text # <<>> /\ text[1] = Minus
      digits   == Digits(IF negative THEN Rest(text, 2) ELSE text, base)
      size     == NumberOf([i \in 1..Len(digits) |-> DigitOf(digits[i])], base)
      number   == Signed(negative, size)
  IN  IF number \in Ints THEN number ELSE 0

\* The negation of the least integer is that integer again, once it is back in a
\* type narrower than int; of int it is undefined.
Negated(n) == IF n = MinInt THEN MinInt ELSE -n

\* Variant of ParseInteger: hexadecimal after a minus sign is not seen.
ParseInteger_PositiveHex(text) ==
  IF text = <<>> THEN {Throws}
  ELSE LET negative == text[1] = Minus
           number   == IF negative THEN Rest(text, 2) ELSE text
           hex      == ~negative /\ Len(number) >= 2 /\ number[1] = Zero /\ number[2] \in Exes
           result   == IF hex THEN FromChars(Rest(number, 3), 16) ELSE FromChars(number, 10)
       IN  {Value(IF negative THEN Negated(result) ELSE result)}

\* A minus sign and 0x are taken off before from_chars() sees the text.  Of "-0" the
\* test for the x reads the character behind the end of the text (158).
ParseInteger(text) ==
  IF text = <<>> THEN {Throws}
  ELSE LET negative == text[1] = Minus
           number   == IF negative THEN Rest(text, 2) ELSE text
           hex      == Len(number) >= 2 /\ number[1] = Zero /\ number[2] \in Exes
           result   == IF hex THEN FromChars(Rest(number, 3), 16) ELSE FromChars(number, 10)
       IN  {Value(IF negative THEN Negated(result) ELSE result)}
            \cup (IF text = <<Minus, Zero>> \/ (negative /\ result = MinInt)
                  THEN {Undefined} ELSE {})

-----------------------------------------------------------------------------
(* Lists.                                                                  *)

\* find_first_of(): the first comma from a place on, or 0.
NextComma(text, it) ==
  LET places == {j \in it..Len(text) : text[j] = Comma}
  IN  IF places = {} THEN 0 ELSE Min(places)

\* An element has as many characters as there are in front of the comma behind it,
\* from the beginning of the text: substr() takes a count, not an end.
Element(text, it, next) == SubSeq(text, it, Min({it + next - 2, Len(text)}))

\* Variant of ParseList: nothing is taken behind the last comma.
ParseList_DropsLast(text) ==
  LET elements[it \in 1..(Len(text) + 1)] ==
        LET next == NextComma(text, it)
        IN  IF next = 0 THEN <<>>
            ELSE <<Element(text, it, next)>> \o elements[next + 1]
  IN  elements[1]

\* The loop, from each place it may have come to.  Behind the last comma comes the
\* rest, if there is one.
ParseList(text) ==
  LET elements[it \in 1..(Len(text) + 1)] ==
        LET next == NextComma(text, it)
        IN  IF next # 0 THEN <<Element(text, it, next)>> \o elements[next + 1]
            ELSE IF it > Len(text) THEN <<>>
            ELSE <<Rest(text, it)>>
  IN  elements[1]

\* parse(), by the type of its second argument.
Parse(type, text) ==
  CASE type = "bool"    -> ParseBoolean(text)
    [] type = "char"    -> ParseChar(text)
    [] type = "integer" -> ParseInteger(text)
    [] type = "list"    -> {Value(ParseList(text))}
    [] OTHER            -> {Value(text)}

-----------------------------------------------------------------------------
(* The hex dump of bytes, as the logs of sample data show it.              *)

\* Of a signed char, >> keeps the sign and % takes it over.
Remainder(c) == IF c >= 0 THEN c % 16 ELSE -((-c) % 16)

\* int_to_char
HexChar(v) == IF v < 10 THEN v + 48 ELSE v + 55

\* The characters of one byte: the overload for char is given -128..127, the one for
\* unsigned char, which the sockets' buffers take, 0..255.
HexOf(c) == <<HexChar(c \div 16), HexChar(Remainder(c))>>

IsHexDigit(c) == c \in 48..57 \/ c \in 65..70

-----------------------------------------------------------------------------
(* Properties: what is written is read.                                    *)

CONSTANTS
  MaxDigits,  \* bound: digits of an integer
  MaxFields,  \* bound: fields of a list
  Fields      \* what a list is written with

ASSUME MaxDigitsAssumption == MaxDigits \in Nat
ASSUME FieldsAssumption == MaxFields \in Nat /\ Fields \subseteq Seq(Nat \ {Comma})

\* What stands in front of a hexadecimal number; nothing in front of a decimal one.
HexPrefixes == {<<Zero, x>> : x \in Exes}

BaseAfter(prefix) == IF prefix = <<>> THEN 10 ELSE 16

Sign(negative) == IF negative THEN <<Minus>> ELSE <<>>

\* The letters for the digits above 9 are a to f or A to F.
Numeral(digits, letters) ==
  [i \in 1..Len(digits) |-> digits[i] + (IF digits[i] < 10 THEN Zero ELSE letters)]

\* The text of a list.
Joined(fields) ==
  LET from[k \in 1..Len(fields)] ==
        IF k = Len(fields) THEN fields[k] ELSE fields[k] \o <<Comma>> \o from[k + 1]
  IN  from[1]

VARIABLE input  \* what has been written for parse() to read, and the text it became

NoInput == [type |-> "none"]

WriteInit == input = NoInput

\* A decimal or hexadecimal number, with a sign or without, and with any zeros in
\* front of it.
WriteInteger ==
  \E negative \in BOOLEAN, prefix \in {<<>>} \cup HexPrefixes, letters \in {55, 87} :
    \E digits \in BoundedSeq(0..(BaseAfter(prefix) - 1), MaxDigits) :
      /\ digits # <<>>
      /\ input' = [type  |-> "integer",
                   value |-> Signed(negative, NumberOf(digits, BaseAfter(prefix))),
                   text  |-> Sign(negative) \o prefix \o Numeral(digits, letters)]

WriteList ==
  \E fields \in UNION {[1..n -> Fields] : n \in 1..MaxFields} :
    input' = [type |-> "list", value |-> fields, text |-> Joined(fields)]

WriteSpec == WriteInit /\ [][WriteInteger \/ WriteList]_input

\* Every integer of the type is read as what it is, in all notations, but the least,
\* whose digits without the sign fit no more: that, and what does not fit anyway, is
\* read as 0.  Of "-0" the reader goes behind the end (string_parse.hpp:145-198).
IntegersAreRead ==
  input.type = "integer" =>
    LET value == input.value
    IN  Parse("integer", input.text) =
          {Value(IF value \in Ints \ {MinInt} THEN value ELSE 0)}
            \cup (IF input.text = <<Minus, Zero>> THEN {Undefined} ELSE {})

\* A list has an element for each field that was written, but for an empty last one;
\* the first and the last are their fields.  Those between only begin with theirs,
\* and reach over the commas behind it (string_parse.hpp:201-221).
ListsBeginRight ==
  input.type = "list" =>
    LET fields == input.value
        n      == Len(fields)
        list   == ParseList(input.text)
    IN  /\ Len(list) = IF fields[n] = <<>> THEN n - 1 ELSE n
        /\ \A i \in DOMAIN list : IsPrefix(fields[i], list[i])
        /\ \A i \in {1, n} \cap DOMAIN list : list[i] = fields[i]
=============================================================================
