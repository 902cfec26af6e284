------------------------------- MODULE Induction -------------------------------
(***************************************************************************)
(* Induction over the natural numbers, in a form that needs no operator    *)
(* for a parameter: a set stands for the predicate.  Where a definition is *)
(* recursive, what it yields for every input is proved with it: here what  *)
(* Selected makes of a sequence that grows at either end.                  *)
(***************************************************************************)
EXTENDS Filtering, WellFoundedInduction, TLAPS

LEMMA LessWellFounded == IsWellFoundedOn({ss \in Nat \X Nat : ss[1] < ss[2]}, Nat)
BY NatLessThanWellFounded, Zenon DEF OpToRel

LEMMA SetInduction ==
  ASSUME NEW S, 0 \in S, \A n \in Nat : n \in S => n + 1 \in S
  PROVE  Nat \subseteq S
<1> DEFINE R == {ss \in Nat \X Nat : ss[1] < ss[2]}
           T == Nat \ S
<1>1. IsWellFoundedOn(R, Nat)
  BY LessWellFounded
<1>2. SUFFICES ASSUME T # {} PROVE FALSE
  OBVIOUS
<1>3. T \subseteq Nat
  OBVIOUS
<1> HIDE DEF T, R
<1>4. PICK x \in T : \A y \in T : ~ (<<y, x>> \in R)
  BY <1>1, <1>2, <1>3, WFMin
<1>5. x \in Nat /\ x # 0 /\ x \notin S
  BY <1>4 DEF T
<1>6. x - 1 \in Nat /\ x - 1 \notin S
  BY <1>5, (x - 1) + 1 = x
<1>7. <<x - 1, x>> \in R /\ x - 1 \in T
  BY <1>5, <1>6 DEF R, T
<1> QED BY <1>4, <1>7

-------------------------------------------------------------------------------
\* What is left of the first n elements of s.
left_of(f, s, S, n) ==
  IF n = 0 THEN << >>
  ELSE IF s[n] \in S THEN Append(f[n - 1], s[n])
  ELSE f[n - 1]

\* f lists it for every n up to m.
Lists(f, s, S, m) == f = [n \in 0 .. m |-> left_of(f, s, S, n)]

LEMMA SomethingLists ==
  ASSUME NEW s, NEW S, NEW m \in Nat
  PROVE  \E f : Lists(f, s, S, m)
<1> DEFINE L(f, k) == Lists(f, s, S, k)
           K == {k \in Nat : \E f : L(f, k)}
<1>1. 0 \in K
  <2>1. L([n \in 0 .. 0 |-> << >>], 0)
    BY DEF Lists, left_of
  <2> QED BY <2>1
<1>2. ASSUME NEW k \in Nat, k \in K PROVE k + 1 \in K
  <2>1. PICK f : f = [n \in 0 .. k |-> left_of(f, s, S, n)]
    BY <1>2 DEF Lists
  <2> DEFINE e == left_of(f, s, S, k + 1)
             g == [n \in 0 .. k + 1 |-> IF n <= k THEN f[n] ELSE e]
  <2>2. \A n \in 0 .. k + 1 : g[n] = left_of(g, s, S, n)
    <3> SUFFICES ASSUME NEW n \in 0 .. k + 1 PROVE g[n] = left_of(g, s, S, n)
      OBVIOUS
    <3> HIDE DEF e
    <3>1. CASE n = 0
      BY <2>1, <3>1 DEF left_of
    <3>2. CASE n \in 1 .. k
      <4>1. g[n] = f[n] /\ g[n - 1] = f[n - 1] /\ n \in 0 .. k
        BY <3>2
      <4>2. f[n] = left_of(f, s, S, n)
        BY <2>1, <4>1
      <4> QED BY <4>1, <4>2 DEF left_of
    <3>3. CASE n = k + 1
      <4>1. g[n] = e /\ g[n - 1] = f[n - 1] /\ n # 0
        BY <3>3
      <4> QED BY <3>3, <4>1 DEF left_of, e
    <3> QED BY <3>1, <3>2, <3>3
  <2>3. L(g, k + 1)
    <3>1. g = [n \in 0 .. k + 1 |-> g[n]]
      OBVIOUS
    <3> HIDE DEF g
    <3> QED BY <2>2, <3>1 DEF Lists
  <2> HIDE DEF L, g
  <2>4. \E h : L(h, k + 1)
    BY <2>3
  <2> QED BY <2>4
<1> HIDE DEF K
<1>3. m \in K
  BY <1>1, <1>2, SetInduction
<1> QED BY <1>3 DEF K

\* Every list says the same.
LEMMA OneList ==
  ASSUME NEW s, NEW S, NEW m \in Nat, NEW l \in Nat, NEW f, NEW g, NEW t,
         Lists(f, s, S, m), Lists(g, t, S, l), m <= l,
         \A n \in 1 .. m : s[n] = t[n]
  PROVE  \A n \in 0 .. m : f[n] = g[n]
<1> DEFINE K == {n \in Nat : n <= m => f[n] = g[n]}
<1>1. 0 \in K
  BY DEF Lists, left_of
<1>2. ASSUME NEW n \in Nat, n \in K PROVE n + 1 \in K
  <2> SUFFICES ASSUME n + 1 <= m PROVE f[n + 1] = g[n + 1]
    OBVIOUS
  <2>1. f[n] = g[n] /\ s[n + 1] = t[n + 1]
    BY <1>2
  <2>2. n + 1 \in 0 .. m /\ n + 1 \in 0 .. l
    OBVIOUS
  <2>3. f[n + 1] = left_of(f, s, S, n + 1) /\ g[n + 1] = left_of(g, t, S, n + 1)
    BY <2>2 DEF Lists
  <2>4. n + 1 # 0 /\ (n + 1) - 1 = n
    OBVIOUS
  <2> QED BY <2>1, <2>3, <2>4 DEF left_of
<1> HIDE DEF K
<1>3. Nat \subseteq K
  BY <1>1, <1>2, SetInduction
<1> QED BY <1>3 DEF K

\* Selected is the last entry of such a list.
LEMMA SelectedIs ==
  ASSUME NEW s, NEW S, Len(s) \in Nat
  PROVE  \E f : Lists(f, s, S, Len(s)) /\ Selected(s, S) = f[Len(s)]
<1>1. \E f : Lists(f, s, S, Len(s))
  BY SomethingLists
<1>2. Selected(s, S) = (CHOOSE f : Lists(f, s, S, Len(s)))[Len(s)]
  BY DEF Selected, Lists, left_of
<1> QED BY <1>1, <1>2

LEMMA SelectedEmpty ==
  ASSUME NEW S
  PROVE  Selected(<< >>, S) = << >>
<1>1. PICK f : Lists(f, << >>, S, 0) /\ Selected(<< >>, S) = f[0]
  BY SelectedIs, Len(<< >>) = 0
<1> QED BY <1>1 DEF Lists, left_of

\* An element at the end joins what is left, if it is one to be kept.
LEMMA SelectedAppend ==
  ASSUME NEW T, NEW s \in Seq(T), NEW e \in T, NEW S
  PROVE  Selected(Append(s, e), S)
           = IF e \in S THEN Append(Selected(s, S), e) ELSE Selected(s, S)
<1> DEFINE t == Append(s, e)
           m == Len(s)
<1>1. m \in Nat /\ Len(t) = m + 1 /\ t[m + 1] = e /\ \A n \in 1 .. m : s[n] = t[n]
  OBVIOUS
<1> HIDE DEF t, m
<1>2. PICK f : Lists(f, s, S, m) /\ Selected(s, S) = f[m]
  BY <1>1, SelectedIs DEF m
<1>3. PICK g : Lists(g, t, S, m + 1) /\ Selected(t, S) = g[m + 1]
  BY <1>1, SelectedIs
<1>4. f[m] = g[m]
  <2>1. m + 1 \in Nat /\ m <= m + 1 /\ m \in 0 .. m
    BY <1>1
  <2>2. \A n \in 0 .. m : f[n] = g[n]
    BY <1>1, <1>2, <1>3, <2>1, OneList
  <2> QED BY <2>1, <2>2
<1>5. g[m + 1] = left_of(g, t, S, m + 1)
  BY <1>1, <1>3 DEF Lists
<1>6. Selected(t, S) = IF e \in S THEN Append(Selected(s, S), e) ELSE Selected(s, S)
  BY <1>1, <1>2, <1>3, <1>4, <1>5 DEF left_of
<1> QED BY <1>6 DEF t

\* What is left is made of what there was.
LEMMA SelectedTyped ==
  ASSUME NEW T, NEW s \in Seq(T), NEW S
  PROVE  Selected(s, S) \in Seq(T)
<1>1. PICK f : Lists(f, s, S, Len(s)) /\ Selected(s, S) = f[Len(s)]
  BY SelectedIs
<1> DEFINE K == {n \in Nat : n <= Len(s) => f[n] \in Seq(T)}
<1>2. 0 \in K
  BY <1>1 DEF Lists, left_of
<1>3. ASSUME NEW n \in Nat, n \in K PROVE n + 1 \in K
  <2> SUFFICES ASSUME n + 1 <= Len(s) PROVE f[n + 1] \in Seq(T)
    OBVIOUS
  <2>1. f[n] \in Seq(T) /\ s[n + 1] \in T
    BY <1>3
  <2>2. f[n + 1] = left_of(f, s, S, n + 1)
    BY <1>1 DEF Lists
  <2> QED BY <2>1, <2>2 DEF left_of
<1> HIDE DEF K
<1>4. Len(s) \in K
  BY <1>2, <1>3, SetInduction
<1> QED BY <1>1, <1>4 DEF K

\* The same of an element in front.
LEMMA SelectedPrepend ==
  ASSUME NEW T, NEW s \in Seq(T), NEW e \in T, NEW S
  PROVE  Selected(<<e>> \o s, S)
           = IF e \in S THEN <<e>> \o Selected(s, S) ELSE Selected(s, S)
<1> DEFINE head == IF e \in S THEN <<e>> ELSE << >>
           P(q) == Selected(<<e>> \o q, S) = head \o Selected(q, S)
           K == {n \in Nat : \A q \in Seq(T) : Len(q) = n => P(q)}
<1>0. \A q \in Seq(T) : Selected(q, S) \in Seq(T)
  BY SelectedTyped
<1>1. 0 \in K
  <2> SUFFICES ASSUME NEW q \in Seq(T), Len(q) = 0 PROVE P(q)
    OBVIOUS
  <2>1. q = << >> /\ <<e>> \o q = Append(q, e)
    OBVIOUS
  <2>2. Selected(q, S) = q
    BY <2>1, SelectedEmpty
  <2>3. Selected(Append(q, e), S) = IF e \in S THEN Append(Selected(q, S), e) ELSE Selected(q, S)
    BY SelectedAppend
  <2>4. head \o q = IF e \in S THEN Append(q, e) ELSE q
    BY <2>1
  <2> QED BY <2>1, <2>2, <2>3, <2>4
<1>2. ASSUME NEW n \in Nat, n \in K PROVE n + 1 \in K
  <2> SUFFICES ASSUME NEW q \in Seq(T), Len(q) = n + 1 PROVE P(q)
    OBVIOUS
  <2> DEFINE r == SubSeq(q, 1, n)
             x == q[n + 1]
             u == <<e>> \o r
  <2>1. r \in Seq(T) /\ Len(r) = n /\ x \in T /\ q = Append(r, x)
    OBVIOUS
  <2> HIDE DEF r, x
  <2>2. Selected(u, S) = head \o Selected(r, S)
    BY <1>2, <2>1
  <2>3. <<e>> \o q = Append(u, x) /\ u \in Seq(T)
    BY <2>1
  <2> HIDE DEF u
  <2>4. Selected(Append(u, x), S) = IF x \in S THEN Append(Selected(u, S), x) ELSE Selected(u, S)
    BY <2>1, <2>3, SelectedAppend
  <2>5. Selected(q, S) = IF x \in S THEN Append(Selected(r, S), x) ELSE Selected(r, S)
    BY <2>1, SelectedAppend
  <2>6. head \in Seq(T) /\ Selected(r, S) \in Seq(T)
    BY <1>0, <2>1
  <2>7. head \o Append(Selected(r, S), x) = Append(head \o Selected(r, S), x)
    BY <2>1, <2>6
  <2> QED BY <2>2, <2>3, <2>4, <2>5, <2>7
<1> HIDE DEF K
<1>3. Len(s) \in K
  BY <1>1, <1>2, SetInduction
<1>4. P(s)
  BY <1>3 DEF K
<1>5. Selected(s, S) \in Seq(T)
  BY <1>0
<1>6. << >> \o Selected(s, S) = Selected(s, S)
  BY <1>5
<1> QED BY <1>4, <1>6

===============================================================================
