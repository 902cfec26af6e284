-------------------------- MODULE NumberGroupedProofs --------------------------
(***************************************************************************)
(* number_grouped is right for every number and every separator that is    *)
(* neither a digit nor a sign: the loop's invariant CopyIsGrouped, what is *)
(* left of the copy without its separators, and what follows from both for *)
(* the result.                                                             *)
(***************************************************************************)
EXTENDS NumberGrouped, Induction

\* What is left of the copy, read from its end, are the characters copied.
CopyKeepsDigits ==
  Selected(reverse_string_array(s2), Chars) = reverse_string_array(SubSeq(s_pcs2, 1, i))

\* The inductive invariant: CopyIsGrouped needs to know that what is copied
\* is no separator, and the result to know what it was made from.
IInv ==
  /\ TypeOK
  /\ Len(s_pcs2) > 0
  /\ CopyIsGrouped
  /\ s_pcs2 = reverse_string_array(s_pcs)
  /\ CopyKeepsDigits
  /\ s3 # << >> => i = Len(s_pcs2) /\ s3 = reverse_string_array(s2)

-------------------------------------------------------------------------------
\* Reversing keeps the type and the length, and says where each element went.
LEMMA Reversed ==
  ASSUME NEW S, NEW t \in Seq(S)
  PROVE  /\ reverse_string_array(t) \in Seq(S)
         /\ Len(reverse_string_array(t)) = Len(t)
         /\ \A k \in 1 .. Len(t) : reverse_string_array(t)[k] = t[Len(t) + 1 - k]
<1>1. reverse_string_array(t) \in [1 .. Len(t) -> S]
  BY DEF reverse_string_array
<1> QED
  BY <1>1 DEF reverse_string_array

\* What is reversed twice is as it was.
LEMMA ReversedTwice ==
  ASSUME NEW S, NEW t \in Seq(S)
  PROVE  reverse_string_array(reverse_string_array(t)) = t
<1> DEFINE r == reverse_string_array(t)
           u == reverse_string_array(r)
<1>1. r \in Seq(S) /\ Len(r) = Len(t) /\ \A k \in 1 .. Len(t) : r[k] = t[Len(t) + 1 - k]
  BY Reversed
<1> HIDE DEF r
<1>2. u \in Seq(S) /\ Len(u) = Len(r) /\ \A k \in 1 .. Len(r) : u[k] = r[Len(r) + 1 - k]
  BY <1>1, Reversed
<1> HIDE DEF u
<1>3. \A k \in 1 .. Len(t) : u[k] = t[k]
  <2> SUFFICES ASSUME NEW k \in 1 .. Len(t) PROVE u[k] = t[k]
    OBVIOUS
  <2>1. Len(t) + 1 - k \in 1 .. Len(t) /\ Len(t) + 1 - (Len(t) + 1 - k) = k
    OBVIOUS
  <2> QED BY <1>1, <1>2, <2>1
<1>4. u = t
  BY <1>1, <1>2, <1>3
<1> QED BY <1>4 DEF u, r

\* The last element comes first.
LEMMA ReversedAppend ==
  ASSUME NEW S, NEW t \in Seq(S), NEW e \in S
  PROVE  reverse_string_array(Append(t, e)) = <<e>> \o reverse_string_array(t)
<1> DEFINE a == Append(t, e)
           r == reverse_string_array(t)
           u == reverse_string_array(a)
           v == <<e>> \o r
<1>1. a \in Seq(S) /\ Len(a) = Len(t) + 1 /\ a[Len(t) + 1] = e /\ \A k \in 1 .. Len(t) : a[k] = t[k]
  OBVIOUS
<1> HIDE DEF a
<1>2. r \in Seq(S) /\ Len(r) = Len(t) /\ \A k \in 1 .. Len(t) : r[k] = t[Len(t) + 1 - k]
  BY Reversed
<1>3. u \in Seq(S) /\ Len(u) = Len(a) /\ \A k \in 1 .. Len(a) : u[k] = a[Len(a) + 1 - k]
  BY <1>1, Reversed
<1> HIDE DEF r, u
<1>4. v \in Seq(S) /\ Len(v) = Len(t) + 1 /\ v[1] = e /\ \A k \in 2 .. Len(t) + 1 : v[k] = r[k - 1]
  BY <1>2
<1> HIDE DEF v
<1>5. \A k \in 1 .. Len(t) + 1 : u[k] = v[k]
  <2> SUFFICES ASSUME NEW k \in 1 .. Len(t) + 1 PROVE u[k] = v[k]
    OBVIOUS
  <2>1. CASE k = 1
    BY <2>1, <1>1, <1>3, <1>4
  <2>2. CASE k # 1
    <3>1. k \in 2 .. Len(t) + 1 /\ k - 1 \in 1 .. Len(t) /\ Len(t) + 2 - k \in 1 .. Len(t)
      BY <2>2
    <3>2. v[k] = t[Len(t) + 1 - (k - 1)]
      BY <1>2, <1>4, <3>1
    <3>3. u[k] = a[Len(t) + 2 - k]
      BY <1>1, <1>3
    <3> QED BY <1>1, <3>1, <3>2, <3>3
  <2> QED BY <2>1, <2>2
<1>6. u = v
  BY <1>1, <1>3, <1>4, <1>5
<1> QED BY <1>6 DEF u, v, a, r

\* Where the next character goes, and whether a separator comes before it.
LEMMA NextPlace ==
  ASSUME NEW n \in Nat \ {0}
  PROVE  /\ place(n) = place(n - 1) + IF group_full(n) THEN 2 ELSE 1
         /\ group_full(n) => (place(n - 1) + 1) % 4 = 0
         /\ place(n) \in Nat /\ place(n - 1) \in Nat /\ place(n) % 4 # 0
<1>1. PICK q \in Nat, r \in 0 .. 2 : n = 3 * q + r
  BY n \div 3 \in Nat, n % 3 \in 0 .. 2
<1>2. n \div 3 = q /\ n % 3 = r
  BY <1>1
<1>3. (n - 1) \div 3 = IF r = 0 THEN q - 1 ELSE q
  BY <1>1
<1> QED
  BY <1>1, <1>2, <1>3 DEF place, group_full

\* Characters are copied to places of their own within the copy.
LEMMA PlacesGrow ==
  ASSUME NEW n \in Nat, NEW m \in Nat, n < m
  PROVE  place(n) \in 1 .. place(m - 1)
BY DEF place

-------------------------------------------------------------------------------
LEMMA InitIInv == Init => IInv
<1> SUFFICES ASSUME Init PROVE IInv
  OBVIOUS
<1>1. s_pcs \in Seq(Chars) /\ s_pcs # << >>
  BY NumberGroupedAssumption DEF Init
<1>2. s_pcs2 \in Seq(Chars) /\ Len(s_pcs2) > 0
  BY <1>1, Reversed DEF Init
<1>3. CopyKeepsDigits
  <2>1. s2 = << >> /\ SubSeq(s_pcs2, 1, i) = << >>
    BY <1>2 DEF Init
  <2>2. reverse_string_array(<< >>) = << >>
    BY DEF reverse_string_array
  <2> QED
    BY <2>1, <2>2, SelectedEmpty DEF CopyKeepsDigits
<1> QED
  BY <1>2, <1>3 DEF Init, IInv, TypeOK, CopyIsGrouped

\* A character joins the copy.
LEMMA CopyIInv ==
  ASSUME IInv, Copy
  PROVE  IInv'
<1> DEFINE c    == s_pcs2[i + 1]
           base == IF group_full(i) THEN Append(s2, Sep) ELSE s2
<1>1. /\ s_pcs2 \in Seq(Chars) /\ Len(s_pcs2) \in Nat /\ i \in Nat /\ i < Len(s_pcs2)
      /\ s2 \in Seq(Chars \cup {Sep}) /\ Len(s2) \in Nat
  BY DEF IInv, TypeOK, Copy
<1>2. c \in Chars /\ c # Sep
  BY <1>1, NumberGroupedAssumption
<1>3. base \in Seq(Chars \cup {Sep}) /\ Len(base) = Len(s2) + IF group_full(i) THEN 1 ELSE 0
  BY <1>1
<1>4. s2' = Append(base, c)
  BY <1>2, <1>3 DEF Copy
<1>5. s2' \in Seq(Chars \cup {Sep}) /\ Len(s2') = Len(base) + 1
  BY <1>2, <1>3, <1>4
<1>6. UNCHANGED <<s_pcs, s_pcs2, s3>> /\ i' = i + 1 /\ s3 = << >>
  BY <1>1 DEF Copy, IInv
<1>7. /\ \A p \in 1 .. Len(s2) : s2'[p] = s2[p]
      /\ group_full(i) => s2'[Len(s2) + 1] = Sep
      /\ s2'[Len(base) + 1] = c
  BY <1>1, <1>2, <1>3, <1>4
<1>8. Len(s2) = IF i = 0 THEN 0 ELSE place(i - 1)
  BY DEF IInv, CopyIsGrouped
<1>9. i = 0 => ~group_full(i) /\ place(i) = 1
  BY DEF place, group_full
<1>10. Len(s2') = place(i) /\ place(i) % 4 # 0
  <2>1. CASE i = 0
    <3>1. Len(s2') = 1 /\ place(i) = 1
      BY <2>1, <1>3, <1>5, <1>8, <1>9
    <3> QED
      BY <3>1
  <2>2. CASE i # 0
    <3>1. i \in Nat \ {0}
      BY <2>2, <1>1
    <3>2. /\ place(i) = place(i - 1) + IF group_full(i) THEN 2 ELSE 1
          /\ place(i) \in Nat /\ place(i - 1) \in Nat /\ place(i) % 4 # 0
      BY <3>1, NextPlace
    <3> QED
      BY <2>2, <3>2, <1>3, <1>5, <1>8
  <2> QED
    BY <2>1, <2>2
<1>11. \A n \in 0 .. i' - 1 : s2'[place(n)] = s_pcs2[n + 1]
  <2> SUFFICES ASSUME NEW n \in 0 .. i PROVE s2'[place(n)] = s_pcs2[n + 1]
    BY <1>1, <1>6
  <2>1. CASE n = i
    BY <2>1, <1>5, <1>7, <1>10
  <2>2. CASE n < i
    <3>1. place(n) \in 1 .. Len(s2)
      BY <2>2, <1>1, <1>8, PlacesGrow
    <3>2. s2[place(n)] = s_pcs2[n + 1]
      BY <2>2, <1>1 DEF IInv, CopyIsGrouped
    <3> QED
      BY <3>1, <3>2, <1>7
  <2> QED
    BY <2>1, <2>2, <1>1
<1>12. ASSUME NEW p \in 1 .. Len(s2')
       PROVE  s2'[p] = Sep <=> p % 4 = 0
  <2>1. CASE p \in 1 .. Len(s2)
    BY <2>1, <1>7 DEF IInv, CopyIsGrouped
  <2>2. CASE p = Len(s2')
    <3>1. s2'[p] = c
      BY <2>2, <1>5, <1>7
    <3>2. p % 4 # 0
      BY <2>2, <1>10
    <3> QED
      BY <3>1, <3>2, <1>2
  <2>3. CASE group_full(i) /\ p = Len(s2) + 1
    <3>1. i # 0
      BY <2>3, <1>9
    <3> QED
      BY <2>3, <3>1, <1>1, <1>7, <1>8, NextPlace
  <2> QED
    BY <2>1, <2>2, <2>3, <1>1, <1>3, <1>5
<1>13. CopyIsGrouped'
  <2>1. i' # 0 /\ i' - 1 = i
    BY <1>1, <1>6
  <2> QED
    BY <2>1, <1>6, <1>10, <1>11, <1>12 DEF CopyIsGrouped, place
<1>14. TypeOK'
  BY <1>1, <1>5, <1>6 DEF IInv, TypeOK
<1>15. CopyKeepsDigits'
  <2> DEFINE All == Chars \cup {Sep}
             kept(t) == Selected(reverse_string_array(t), Chars)
             done    == SubSeq(s_pcs2, 1, i)
             back(t) == reverse_string_array(t)
  <2>1. \A t \in Seq(All) : \A e \in All :
           kept(Append(t, e)) = IF e \in Chars THEN <<e>> \o kept(t) ELSE kept(t)
    <3> SUFFICES ASSUME NEW t \in Seq(All), NEW e \in All
                 PROVE  kept(Append(t, e)) = IF e \in Chars THEN <<e>> \o kept(t) ELSE kept(t)
      OBVIOUS
    <3>1. back(Append(t, e)) = <<e>> \o back(t)
      BY ReversedAppend
    <3>2. back(t) \in Seq(All)
      BY Reversed
    <3> HIDE DEF All
    <3> QED BY <3>1, <3>2, SelectedPrepend
  <2>2. SubSeq(s_pcs2, 1, i + 1) = Append(done, c) /\ done \in Seq(Chars)
    BY <1>1
  <2>3. back(Append(done, c)) = <<c>> \o back(done)
    BY <1>2, <2>2, ReversedAppend
  <2>4. kept(s2) = back(done)
    BY DEF IInv, CopyKeepsDigits
  <2>5. Sep \in All /\ c \in All /\ Sep \notin Chars
    BY <1>2, NumberGroupedAssumption
  <2>6. s2 \in Seq(All) /\ base \in Seq(All)
    BY <1>1, <1>3
  <2>7. base = IF group_full(i) THEN Append(s2, Sep) ELSE s2
    OBVIOUS
  <2> HIDE DEF All, kept, done, back, base, c
  <2>8. kept(base) = kept(s2)
    BY <2>1, <2>5, <2>6, <2>7
  <2>9. kept(Append(base, c)) = <<c>> \o kept(base)
    BY <1>2, <2>1, <2>5, <2>6
  <2>10. kept(Append(base, c)) = back(SubSeq(s_pcs2, 1, i + 1))
    BY <2>2, <2>3, <2>4, <2>8, <2>9
  <2> USE DEF kept, back
  <2> QED BY <2>10, <1>4, <1>6 DEF CopyKeepsDigits
<1> QED
  BY <1>6, <1>13, <1>14, <1>15 DEF IInv

LEMMA JoinIInv ==
  ASSUME IInv, Join
  PROVE  IInv'
<1>1. s2 \in Seq(Chars \cup {Sep})
  BY DEF IInv, TypeOK
<1>2. s3' \in Seq(Chars \cup {Sep})
  BY <1>1, Reversed DEF Join
<1> QED
  BY <1>2 DEF IInv, TypeOK, CopyIsGrouped, CopyKeepsDigits, Join

LEMMA NextIInv ==
  ASSUME IInv, [Next]_vars
  PROVE  IInv'
<1>1. CASE Copy
  BY <1>1, CopyIInv
<1>2. CASE Join
  BY <1>2, JoinIInv
<1>3. CASE UNCHANGED vars
  BY <1>3 DEF vars, IInv, TypeOK, CopyIsGrouped, CopyKeepsDigits
<1> QED
  BY <1>1, <1>2, <1>3 DEF Next

LEMMA IInvHolds == Spec => []IInv
<1>1. Init => IInv
  BY InitIInv
<1>2. IInv /\ [Next]_vars => IInv'
  BY NextIInv
<1> QED
  BY <1>1, <1>2, PTL DEF Spec

(***************************************************************************)
(* The loop of number_grouped keeps every character in its place and puts  *)
(* a separator in every fourth place, whatever the number.                 *)
(***************************************************************************)
THEOREM CopyGrouped == Spec => []CopyIsGrouped
<1>1. IInv => CopyIsGrouped
  BY DEF IInv
<1> QED
  BY <1>1, IInvHolds, PTL

(***************************************************************************)
(* Every result of number_grouped has its separators after each three      *)
(* characters from the right, and none at either end.                      *)
(***************************************************************************)
THEOREM SeparatorsRight == Spec => []SeparatorsPlaced
<1>1. IInv => SeparatorsPlaced
  <2> SUFFICES ASSUME IInv, finished PROVE SeparatorsPlaced
    BY DEF SeparatorsPlaced
  <2>1. s2 \in Seq(Chars \cup {Sep}) /\ i = Len(s_pcs2) /\ i \in Nat \ {0}
    BY DEF IInv, TypeOK, finished
  <2>2. s3 = reverse_string_array(s2)
    BY DEF IInv, finished
  <2>3. Len(s2) \in Nat /\ Len(s3) = Len(s2) /\ \A p \in 1 .. Len(s2) : s3[p] = s2[Len(s2) + 1 - p]
    BY <2>1, <2>2, Reversed
  <2>4. \A p \in 1 .. Len(s3) : s3[p] = Sep <=> (Len(s3) + 1 - p) % 4 = 0
    <3> SUFFICES ASSUME NEW p \in 1 .. Len(s2)
                 PROVE  s3[p] = Sep <=> (Len(s2) + 1 - p) % 4 = 0
      BY <2>3
    <3>1. Len(s2) + 1 - p \in 1 .. Len(s2)
      BY <2>3
    <3> QED
      BY <3>1, <2>3 DEF IInv, CopyIsGrouped
  <2>5. Len(s2) = place(i - 1) /\ Len(s2) > 0 /\ Len(s2) % 4 # 0
    <3>1. Len(s2) = place(i - 1)
      BY <2>1 DEF IInv, CopyIsGrouped
    <3>2. place(i) % 4 # 0 /\ place(i - 1) % 4 # 0 /\ place(i - 1) > 0
      BY <2>1 DEF place
    <3> QED
      BY <3>1, <3>2
  <2>6. (s3[1] = Sep <=> Len(s3) % 4 = 0) /\ (s3[Len(s3)] = Sep <=> 1 % 4 = 0)
    <3>1. 1 \in 1 .. Len(s3) /\ Len(s3) \in 1 .. Len(s3)
      BY <2>3, <2>5
    <3>2. Len(s3) + 1 - 1 = Len(s3) /\ Len(s3) + 1 - Len(s3) = 1
      BY <2>3
    <3> QED
      BY <3>1, <3>2, <2>4
  <2>7. s3[1] # Sep /\ s3[Len(s3)] # Sep
    BY <2>3, <2>5, <2>6
  <2> QED
    BY <2>4, <2>7 DEF SeparatorsPlaced
<1> QED
  BY <1>1, IInvHolds, PTL

(***************************************************************************)
(* number_grouped loses, adds and moves no character of a number: without  *)
(* the separators its result is what it was given, whatever the number.    *)
(***************************************************************************)
THEOREM NothingLost == Spec => []DigitsKept
<1>1. IInv => DigitsKept
  <2> SUFFICES ASSUME IInv, finished PROVE Selected(s3, Chars) = s_pcs
    BY DEF DigitsKept
  <2>1. s3 = reverse_string_array(s2) /\ i = Len(s_pcs2) /\ s_pcs2 \in Seq(Chars)
    BY DEF IInv, TypeOK, finished
  <2>2. SubSeq(s_pcs2, 1, i) = s_pcs2
    BY <2>1
  <2>3. Selected(s3, Chars) = reverse_string_array(s_pcs2)
    BY <2>1, <2>2 DEF IInv, CopyKeepsDigits
  <2>4. s_pcs \in Seq(Chars)
    BY NumberGroupedAssumption DEF IInv, TypeOK
  <2> QED
    BY <2>3, <2>4, ReversedTwice DEF IInv
<1> QED
  BY <1>1, IInvHolds, PTL

===============================================================================
