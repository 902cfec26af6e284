----------------------------- MODULE NumberGrouped -----------------------------
(***************************************************************************)
(* number_grouped, which puts a separator between groups of three digits   *)
(* of every number in a report: it reverses the digits, copies them one by *)
(* one with a separator where a group is full, and reverses the result.    *)
(*                                                                         *)
(* Text is a sequence of characters, and a number is what "%d" makes of    *)
(* it: -123, its sign a character like the others, becomes "-,123".        *)
(***************************************************************************)
EXTENDS Integers, Sequences, Filtering

CONSTANTS
  Texts,     \* the numbers, in decimal
  Sep        \* the separator, one character

Digits == <<"0", "1", "2", "3", "4", "5", "6", "7", "8", "9">>
Chars  == {"0", "1", "2", "3", "4", "5", "6", "7", "8", "9", "-"}

ASSUME NumberGroupedAssumption ==
  /\ Texts \subseteq Seq(Chars) \ {<< >>}
  /\ Sep \notin Chars

VARIABLES
  s_pcs,     \* the number's characters
  s_pcs2,    \* the same, the last one first
  i,         \* how many of them have been copied
  s2,        \* the copy, with separators
  s3         \* the result, once there is one

vars == <<s_pcs, s_pcs2, i, s2, s3>>

\* The loop leaves out the first one.
reverse_string_array_short(in) == [k \in 1 .. Len(in) - 1 |-> in[Len(in) + 1 - k]]

reverse_string_array(in) == [k \in 1 .. Len(in) |-> in[Len(in) + 1 - k]]

Init ==
  /\ s_pcs \in Texts
  /\ s_pcs2 = reverse_string_array(s_pcs)
  /\ i = 0 /\ s2 = << >> /\ s3 = << >>

\* A separator in front of the first group too.
group_full_at_zero(n) == n % 3 = 0

\* A separator after the first digit of a group.
group_full_late(n) == n # 0 /\ n % 3 = 1

\* n characters fill a group, and there are more.
group_full(n) == n # 0 /\ n % 3 = 0

Copy ==
  /\ i < Len(s_pcs2)
  /\ s2' = (IF group_full(i) THEN Append(s2, Sep) ELSE s2) \o <<s_pcs2[i + 1]>>
  /\ i' = i + 1
  /\ UNCHANGED <<s_pcs, s_pcs2, s3>>

Join ==
  /\ i = Len(s_pcs2) /\ s3 = << >>
  /\ s3' = reverse_string_array(s2)
  /\ UNCHANGED <<s_pcs, s_pcs2, i, s2>>

Next == Copy \/ Join

Spec == Init /\ [][Next]_vars

-------------------------------------------------------------------------------
TypeOK ==
  /\ s_pcs \in Texts
  /\ s_pcs2 \in Seq(Chars)
  /\ i \in 0 .. Len(s_pcs2)
  /\ s2 \in Seq(Chars \cup {Sep})
  /\ s3 \in Seq(Chars \cup {Sep})

finished == s3 # << >>

\* The place in s2 of the n-th character copied, counting from 0.
place(n) == n + n \div 3 + 1

(***************************************************************************)
(* The loop keeps every character, in its place, and every fourth place    *)
(* and no other has a separator.                                           *)
(***************************************************************************)
CopyIsGrouped ==
  /\ Len(s2) = IF i = 0 THEN 0 ELSE place(i - 1)
  /\ \A n \in 0 .. i - 1 : s2[place(n)] = s_pcs2[n + 1]
  /\ \A p \in 1 .. Len(s2) : s2[p] = Sep <=> p % 4 = 0

(***************************************************************************)
(* Nothing is lost: without its separators the text is the number.         *)
(***************************************************************************)
DigitsKept == finished => Selected(s3, Chars) = s_pcs

(***************************************************************************)
(* The report's numbers can be read: counted from the right there is a     *)
(* separator after each three characters, and none at either end.          *)
(***************************************************************************)
SeparatorsPlaced ==
  finished =>
    /\ s3[1] # Sep /\ s3[Len(s3)] # Sep
    /\ \A p \in 1 .. Len(s3) : s3[p] = Sep <=> (Len(s3) + 1 - p) % 4 = 0

===============================================================================
