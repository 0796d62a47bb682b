----------------------------- MODULE MCLauncher -----------------------------
\* Launcher on texts that an address can be looked for in.  Parts: numbers of one,
\* two and three digits, leading zeros, 255 and 256, nothing between two dots.
\* TextUtils on integers of eight bits, written with up to three digits, and on lists
\* of fields of up to two characters.
EXTENDS Launcher, TextUtils

Parts == {<<>>, <<0, 9>>, <<9>>, <<1, 0, 9>>, <<2, 5, 6>>}

MCTexts ==
  {<<p, q, r, s>> : p \in Parts \cup {<<9, 2, 5, 5>>}, q \in Parts,
                    r \in {<<0, 9>>, <<2, 5, 5>>}, s \in Parts \cup {<<2, 5, 5>>}}
  \cup [1..5 -> {<<9>>, <<2, 5, 6>>}] \cup [1..3 -> {<<9>>}]

MCFields == {<<>>, <<97>>, <<97, 98>>}

\* The program comes up; or, as nothing in it calls parse(), a text is given to that.
MCInit == Init /\ WriteInit

MCNext ==
  /\ input = NoInput
  /\ \/ Next /\ UNCHANGED input
     \/ pc = "local" /\ (WriteInteger \/ WriteList) /\ UNCHANGED vars

MCSpec == MCInit /\ [][MCNext]_<<vars, input>>
=============================================================================
