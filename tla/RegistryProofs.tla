---------------------------- MODULE RegistryProofs ----------------------------
(***************************************************************************)
(* Proofs about Registry, for any names, variants, durations and width of  *)
(* the integers.  The argument:                                            *)
(*                                                                         *)
(*   - a step changes a row in one of three ways (RowChange): not at all,  *)
(*     by binding an absent key to a fresh learner, or by one after2;      *)
(*   - what holds of one row (RowInv) is kept by each of the three;        *)
(*   - what relates rows of one family (Encloses) and what relates rows    *)
(*     and report order (OrderOK) needs to know which rows a sample        *)
(*     reaches (Counted, Rejected), and that a clear name's key is nobody  *)
(*     else's.                                                             *)
(***************************************************************************)
EXTENDS Registry, SequenceTheorems, TLAPS

(***************************************************************************)
(* What the properties say of one row, in inductive form.  Cumul is the    *)
(* exact sum up to some number of wrap-arounds; the exact sum lies between *)
(* the least and the greatest sample, Weight times each.                   *)
(***************************************************************************)
RowInv(ll, sum) ==
  /\ ll.Pair_ever_completed <=> ll.Weight > 0
  /\ ll.Weight = 0 => ll = fresh(ll.kind) /\ sum = 0
  /\ ll.kind = "none" => ll.Weight = 0
  /\ ll.Weight = 1 => ll.Min = ll.Max
  /\ ll.Weight > 0 =>
       /\ ll.Min <= ll.Last /\ ll.Last <= ll.Max
       /\ ll.Weight * ll.Min <= sum /\ sum <= ll.Weight * ll.Max
  /\ \E w \in Int : sum = ll.Cumul + w * Modulus

\* The three ways in which a step may change a row.
RowChange(old, new, sum, sum2) ==
  \/ new = old /\ sum2 = sum
  \/ /\ old = NoLearner /\ sum2 = sum
     /\ new \in {fresh("LL"), fresh("VLL")}
  \/ \E dur \in Durs, base \in {old, fresh("LL"), fresh("VLL")} :
       /\ base # old => old = NoLearner
       /\ base.kind # "none"
       /\ new = after2(base, dur)
       /\ sum2 = sum + dur

-------------------------------------------------------------------------------
LEMMA MachineIntegers ==
  /\ MaxInt64 \in Int /\ MaxInt64 >= 1
  /\ MinInt64 \in Int /\ MinInt64 = -MaxInt64 - 1
  /\ Modulus \in Int /\ Modulus = 2 * MaxInt64 + 2
  /\ 0 \in Int64 /\ Int64 \subseteq Int
  /\ \A a \in Int : a \in Int64 <=> MinInt64 <= a /\ a <= MaxInt64
BY MaxInt64Assumption DEF MinInt64, Modulus, Int64

\* add64 stays in range and is off by a multiple of Modulus at most.
LEMMA Add64 ==
  ASSUME NEW a \in Int64, NEW b \in Int64
  PROVE  /\ add64(a, b) \in Int64
         /\ \E w \in {-1, 0, 1} : a + b = add64(a, b) + w * Modulus
<1>1. add64(a, b) \in Int64
  BY MaxInt64Assumption DEF add64, Int64, MinInt64, Modulus
<1>2. CASE a + b > MaxInt64
  <2>1. a + b = add64(a, b) + 1 * Modulus
    BY <1>2, MachineIntegers DEF add64
  <2> QED BY <1>1, <2>1
<1>3. CASE ~(a + b > MaxInt64) /\ a + b < MinInt64
  <2>1. a + b = add64(a, b) + (-1) * Modulus
    BY <1>3, MachineIntegers DEF add64
  <2> QED BY <1>1, <2>1
<1>4. CASE ~(a + b > MaxInt64) /\ ~(a + b < MinInt64)
  <2>1. a + b = add64(a, b) + 0 * Modulus
    BY <1>4, MachineIntegers DEF add64
  <2> QED BY <1>1, <2>1
<1> QED BY <1>2, <1>3, <1>4

\* A sum in range that agrees with Cumul up to wrap-arounds is Cumul.
LEMMA NoWrapLeft ==
  ASSUME NEW sum \in Int64, NEW cumul \in Int64, NEW w \in Int,
         sum = cumul + w * Modulus
  PROVE  sum = cumul
<1>1. sum - cumul < Modulus /\ cumul - sum < Modulus
  BY MachineIntegers
<1>2. ~(w >= 1)
  <2> SUFFICES ASSUME w >= 1 PROVE FALSE
    OBVIOUS
  <2>1. w * Modulus >= Modulus
    BY MachineIntegers
  <2> QED BY <1>1, <2>1, MachineIntegers
<1>3. ~(w <= -1)
  <2> SUFFICES ASSUME w <= -1 PROVE FALSE
    OBVIOUS
  <2>1. w * Modulus <= -Modulus
    BY MachineIntegers
  <2> QED BY <1>1, <2>1, MachineIntegers
<1>4. w = 0
  BY <1>2, <1>3
<1> QED BY <1>4, MachineIntegers

\* Truncating division keeps a quotient between the bounds of the dividend.
LEMMA QuoBetween ==
  ASSUME NEW lo \in Int, NEW hi \in Int, NEW sum \in Int,
         NEW w \in Nat \ {0},
         w * lo <= sum, sum <= w * hi
  PROVE  /\ quo(sum, w) \in Int
         /\ lo <= quo(sum, w) /\ quo(sum, w) <= hi
<1>1. CASE sum >= 0
  <2> DEFINE q == sum \div w
  <2>1. q \in Int /\ w * q <= sum /\ sum < w * q + w
    BY <1>1
  <2>2. quo(sum, w) = q
    BY <1>1 DEF quo
  <2> HIDE DEF q
  <2>3. lo <= q
    <3> SUFFICES ASSUME q + 1 <= lo PROVE FALSE
      BY <2>1
    <3>1. w * (q + 1) <= w * lo
      BY <2>1
    <3> QED BY <3>1, <2>1
  <2>4. q <= hi
    <3> SUFFICES ASSUME hi + 1 <= q PROVE FALSE
      BY <2>1
    <3>1. w * (hi + 1) <= w * q
      BY <2>1
    <3> QED BY <3>1, <2>1
  <2> QED BY <2>1, <2>2, <2>3, <2>4
<1>2. CASE ~(sum >= 0)
  <2> DEFINE q == (-sum) \div w
  <2>1. q \in Int /\ w * q <= -sum /\ -sum < w * q + w
    BY <1>2
  <2>2. quo(sum, w) = -q
    BY <1>2 DEF quo
  <2> HIDE DEF q
  <2>3. lo <= -q
    <3> SUFFICES ASSUME -q + 1 <= lo PROVE FALSE
      BY <2>1
    <3>1. w * (-q + 1) <= w * lo
      BY <2>1
    <3> QED BY <3>1, <2>1
  <2>4. -q <= hi
    <3> SUFFICES ASSUME hi + 1 <= -q PROVE FALSE
      BY <2>1
    <3>1. w * (hi + 1) <= w * (-q)
      BY <2>1
    <3> QED BY <3>1, <2>1
  <2> QED BY <2>1, <2>2, <2>3, <2>4
<1> QED BY <1>1, <1>2

-------------------------------------------------------------------------------
\* A fresh learner satisfies all that is said of rows.
LEMMA Fresh ==
  ASSUME NEW kind \in {"none", "LL", "VLL"}
  PROVE  fresh(kind) \in Learner /\ fresh(kind).kind = kind /\ RowInv(fresh(kind), 0)
<1>1. fresh(kind) \in Learner /\ fresh(kind).kind = kind
  BY MachineIntegers DEF fresh, Learner
<1>2. 0 = 0 + 0 * Modulus
  BY MachineIntegers
<1>3. fresh(kind).Cumul = 0 /\ fresh(kind).Weight = 0 /\ ~fresh(kind).Pair_ever_completed
      /\ fresh(kind).Min = fresh(kind).Max
  BY DEF fresh
<1> QED BY <1>1, <1>2, <1>3 DEF RowInv

\* What one sample does to a row.
LEMMA After2 ==
  ASSUME NEW ll \in Learner, NEW dur \in Int64,
         ll.Pair_ever_completed <=> ll.Weight > 0
  PROVE  LET new == after2(ll, dur) IN
         /\ new \in Learner
         /\ new.kind = ll.kind /\ new.Pair_ever_completed
         /\ new.Last = dur /\ new.Weight = ll.Weight + 1
         /\ new.Cumul = add64(ll.Cumul, dur)
         /\ ll.Weight = 0 => new.Min = dur /\ new.Max = dur
         /\ ll.Weight > 0 =>
              /\ new.Min \in {ll.Min, dur} /\ new.Min <= ll.Min /\ new.Min <= dur
              /\ new.Max \in {ll.Max, dur} /\ new.Max >= ll.Max /\ new.Max >= dur
<1>1. add64(ll.Cumul, dur) \in Int64
  BY Add64 DEF Learner
<1>2. ll.Weight \in Nat /\ ll.Min \in Int /\ ll.Max \in Int /\ dur \in Int
  BY MachineIntegers DEF Learner
<1>3. /\ after2(ll, dur).kind = ll.kind
      /\ after2(ll, dur).Pair_ever_completed = TRUE
      /\ after2(ll, dur).Last = dur /\ after2(ll, dur).Weight = ll.Weight + 1
      /\ after2(ll, dur).Cumul = add64(ll.Cumul, dur)
      /\ after2(ll, dur).Min = IF ll.Pair_ever_completed /\ ~(dur < ll.Min)
                               THEN ll.Min ELSE dur
      /\ after2(ll, dur).Max = IF ll.Pair_ever_completed /\ ~(dur > ll.Max)
                               THEN ll.Max ELSE dur
  BY DEF after2, Learner
<1>4. after2(ll, dur) \in Learner
  <2> DEFINE lo == IF ll.Pair_ever_completed /\ ~(dur < ll.Min) THEN ll.Min ELSE dur
             hi == IF ll.Pair_ever_completed /\ ~(dur > ll.Max) THEN ll.Max ELSE dur
             cu == add64(ll.Cumul, dur)
             wt == ll.Weight + 1
  <2>1. lo \in Int64 /\ hi \in Int64 /\ cu \in Int64 /\ wt \in Nat
    BY <1>1 DEF Learner
  <2>2. after2(ll, dur) = [ll EXCEPT !.Last = dur, !.Cumul = cu, !.Weight = wt,
                                     !.Min = lo, !.Max = hi, !.Pair_ever_completed = TRUE]
    BY DEF after2
  <2> HIDE DEF lo, hi, cu, wt
  <2> QED BY <2>1, <2>2 DEF Learner
<1> QED BY <1>2, <1>3, <1>4

\* RowInv survives a sample, and the row's extremes only widen.
LEMMA RowSample ==
  ASSUME NEW ll \in Learner, NEW sum \in Int, NEW dur \in Int64,
         ll.kind # "none", RowInv(ll, sum)
  PROVE  RowInv(after2(ll, dur), sum + dur)
<1> DEFINE new == after2(ll, dur)
<1>1. ll.Pair_ever_completed <=> ll.Weight > 0
  BY DEF RowInv
<1>2. /\ new \in Learner
      /\ new.kind = ll.kind /\ new.Pair_ever_completed
      /\ new.Last = dur /\ new.Weight = ll.Weight + 1
      /\ new.Cumul = add64(ll.Cumul, dur)
      /\ ll.Weight = 0 => new.Min = dur /\ new.Max = dur
      /\ ll.Weight > 0 =>
           /\ new.Min \in {ll.Min, dur} /\ new.Min <= ll.Min /\ new.Min <= dur
           /\ new.Max \in {ll.Max, dur} /\ new.Max >= ll.Max /\ new.Max >= dur
  BY <1>1, After2
<1> HIDE DEF new
<1>3. /\ ll.Weight \in Nat /\ ll.Min \in Int /\ ll.Max \in Int /\ dur \in Int
      /\ new.Min \in Int /\ new.Max \in Int /\ new.Last \in Int /\ ll.Cumul \in Int64
  BY <1>2, MachineIntegers DEF Learner
<1>4. new.Weight > 0 /\ new.Weight # 0 /\ new.kind # "none"
  BY <1>2, <1>3
<1>5. new.Min <= new.Last /\ new.Last <= new.Max
  BY <1>2, <1>3
<1>6. new.Weight = 1 => new.Min = new.Max
  BY <1>2, <1>3
<1>7. new.Weight * new.Min <= sum + dur /\ sum + dur <= new.Weight * new.Max
  <2>1. CASE ll.Weight = 0
    <3>1. sum = 0
      BY <2>1 DEF RowInv
    <3>2. new.Weight = 1 /\ new.Min = dur /\ new.Max = dur
      BY <2>1, <1>2
    <3> QED BY <3>1, <3>2, <1>3
  <2>2. CASE ll.Weight > 0
    <3>1. ll.Weight * ll.Min <= sum /\ sum <= ll.Weight * ll.Max
      BY <2>2 DEF RowInv
    <3>2. ll.Weight * new.Min <= ll.Weight * ll.Min
      BY <2>2, <1>2, <1>3
    <3>3. ll.Weight * ll.Max <= ll.Weight * new.Max
      BY <2>2, <1>2, <1>3
    <3>4. /\ new.Weight * new.Min = ll.Weight * new.Min + new.Min
          /\ new.Weight * new.Max = ll.Weight * new.Max + new.Max
      BY <1>2, <1>3
    <3>5. new.Min <= dur /\ dur <= new.Max
      BY <2>2, <1>2, <1>3
    <3>6. ll.Weight * new.Min \in Int /\ ll.Weight * new.Max \in Int
          /\ ll.Weight * ll.Min \in Int /\ ll.Weight * ll.Max \in Int
      BY <1>3
    <3> QED BY <3>1, <3>2, <3>3, <3>4, <3>5, <3>6, <1>3
  <2> QED BY <2>1, <2>2, <1>3
<1>8. \E w \in Int : sum + dur = new.Cumul + w * Modulus
  <2>1. PICK w1 \in Int : sum = ll.Cumul + w1 * Modulus
    BY DEF RowInv
  <2>2. PICK w2 \in {-1, 0, 1} : ll.Cumul + dur = add64(ll.Cumul, dur) + w2 * Modulus
    BY <1>3, Add64
  <2>3. sum + dur = new.Cumul + (w1 + w2) * Modulus
    <3>1. add64(ll.Cumul, dur) \in Int /\ ll.Cumul \in Int
      BY <1>3, Add64, MachineIntegers
    <3>2. (w1 + w2) * Modulus = w1 * Modulus + w2 * Modulus
      BY MachineIntegers
    <3>3. w1 * Modulus \in Int /\ w2 * Modulus \in Int
      BY MachineIntegers
    <3> QED BY <2>1, <2>2, <3>1, <3>2, <3>3, <1>2, <1>3
  <2>4. w1 + w2 \in Int
    OBVIOUS
  <2> QED BY <2>3, <2>4
<1>9. new.Pair_ever_completed <=> new.Weight > 0
  BY <1>2, <1>4
<1> QED BY <1>4, <1>5, <1>6, <1>7, <1>8, <1>9 DEF RowInv, new

\* What a step leaves true of a row, and how the row may have changed.
LEMMA RowStep ==
  ASSUME NEW old \in Learner, NEW new, NEW sum \in Int, NEW sum2,
         Durs \subseteq Int64, RowInv(old, sum), RowChange(old, new, sum, sum2)
  PROVE  /\ new \in Learner /\ sum2 \in Int /\ RowInv(new, sum2)
         /\ old.kind # "none" => new.kind = old.kind
         /\ new.Weight >= old.Weight
         /\ old.Weight > 0 => new.Min <= old.Min /\ new.Max >= old.Max
<1> old.Weight \in Nat /\ old.Min \in Int /\ old.Max \in Int
  BY MachineIntegers DEF Learner
<1>1. CASE new = old /\ sum2 = sum
  BY <1>1
<1>2. CASE old = NoLearner /\ sum2 = sum /\ new \in {fresh("LL"), fresh("VLL")}
  <2>1. old.kind = "none" /\ old.Weight = 0 /\ new.Weight = 0
    BY <1>2 DEF NoLearner, fresh
  <2>2. sum = 0
    BY <2>1 DEF RowInv
  <2> QED BY <1>2, <2>1, <2>2, Fresh
<1>3. ASSUME NEW dur \in Durs, NEW base \in {old, fresh("LL"), fresh("VLL")},
             base # old => old = NoLearner, base.kind # "none",
             new = after2(base, dur), sum2 = sum + dur
      PROVE  /\ new \in Learner /\ sum2 \in Int /\ RowInv(new, sum2)
             /\ old.kind # "none" => new.kind = old.kind
             /\ new.Weight >= old.Weight
             /\ old.Weight > 0 => new.Min <= old.Min /\ new.Max >= old.Max
  <2>1. base \in Learner /\ RowInv(base, sum) /\ base.Weight = old.Weight
        /\ (old.kind # "none" => base = old)
        /\ (old.Weight > 0 => base = old)
    <3>1. CASE base = old
      BY <3>1
    <3>2. CASE base # old
      <4>1. old = NoLearner /\ old.kind = "none" /\ old.Weight = 0
        BY <3>2, <1>3 DEF NoLearner, fresh
      <4>2. sum = 0
        BY <4>1 DEF RowInv
      <4>3. base.Weight = 0
        BY <3>2, <1>3 DEF fresh
      <4> QED BY <3>2, <1>3, <4>1, <4>2, <4>3, Fresh
    <3> QED BY <3>1, <3>2
  <2>2. dur \in Int64 /\ dur \in Int
    BY <1>3, MachineIntegers
  <2>3. RowInv(new, sum2)
    BY <2>1, <2>2, <1>3, RowSample
  <2>4. base.Pair_ever_completed <=> base.Weight > 0
    BY <2>1 DEF RowInv
  <2> QED BY <2>1, <2>2, <2>3, <2>4, <1>3, After2
<1> QED BY <1>1, <1>2, <1>3 DEF RowChange

-------------------------------------------------------------------------------
(***************************************************************************)
(* Keys and clear names.                                                   *)
(***************************************************************************)
LEMMA KeyFacts ==
  /\ Names \subseteq Keys
  /\ Durs \subseteq Int64
  /\ \A n \in Names : span_key_form(n, "") = n
  /\ \A n \in Names, v \in Variants :
       span_key_form(n, v) \in Keys /\ (v # "" => span_key_form(n, v) # n)
<1>1. \A n \in Names : span_key_form(n, "") = n
  BY DEF span_key_form
<1>2. \A n \in Names, v \in Variants : span_key_form(n, v) \in Keys
  BY DEF Keys
<1>3. Names \subseteq Keys
  BY <1>1, <1>2, RegistryAssumption DEF ConstantsOK
<1>4. \A n \in Names, v \in Variants : v # "" => span_key_form(n, v) # n
  BY RegistryAssumption DEF ConstantsOK
<1> QED BY <1>1, <1>2, <1>3, <1>4, RegistryAssumption DEF ConstantsOK

\* A sample reaches the parent of a clear family, or one of its variants,
\* only as a sample of that family.
LEMMA ClearFacts ==
  ASSUME NEW n \in Names, clear(n), NEW m \in Names, NEW w \in Variants,
         NEW v \in Variants \ {""}
  PROVE  /\ n \in {m, span_key_form(m, w)} => n = m
         /\ span_key_form(n, v) \in {m, span_key_form(m, w)} =>
              n = m /\ span_key_form(n, v) = span_key_form(m, w)
         /\ span_key_form(n, v) \notin Names
<1>0. "" \in Variants
  BY RegistryAssumption DEF ConstantsOK
<1>1. n = span_key_form(m, w) => n = m
  BY KeyFacts DEF clear
<1>2. \A j \in Names : span_key_form(n, v) # j
  <2> SUFFICES ASSUME NEW j \in Names, span_key_form(n, v) = j PROVE FALSE
    OBVIOUS
  <2>1. span_key_form(n, v) = span_key_form(j, "")
    BY KeyFacts
  <2>2. n = j
    BY <2>1, <1>0 DEF clear
  <2> QED BY <2>2, KeyFacts
<1>3. span_key_form(n, v) = span_key_form(m, w) => n = m
  BY DEF clear
<1> QED BY <1>1, <1>2, <1>3

-------------------------------------------------------------------------------
(***************************************************************************)
(* Prefixes.                                                               *)
(***************************************************************************)
LEMMA PrefixPointwise ==
  ASSUME NEW S, NEW s \in Seq(S), NEW t \in Seq(S)
  PROVE  IsPrefix(s, t) <=> Len(s) <= Len(t) /\ \A i \in 1 .. Len(s) : s[i] = t[i]
<1> Len(s) \in Nat /\ Len(t) \in Nat
  BY LenProperties
<1>1. /\ SubSeq(s, 1, Len(s)) \in Seq(S) /\ Len(SubSeq(s, 1, Len(s))) = Len(s)
      /\ \A i \in 1 .. Len(s) : SubSeq(s, 1, Len(s))[i] = s[i]
  OBVIOUS
<1>2. ASSUME Len(s) <= Len(t)
      PROVE  /\ SubSeq(t, 1, Len(s)) \in Seq(S) /\ Len(SubSeq(t, 1, Len(s))) = Len(s)
             /\ \A i \in 1 .. Len(s) : SubSeq(t, 1, Len(s))[i] = t[i]
  BY <1>2
<1>3. ASSUME IsPrefix(s, t), NEW i \in 1 .. Len(s) PROVE s[i] = t[i]
  BY <1>1, <1>2, <1>3 DEF IsPrefix
<1>4. ASSUME Len(s) <= Len(t), \A i \in 1 .. Len(s) : s[i] = t[i] PROVE IsPrefix(s, t)
  <2> DEFINE a == SubSeq(s, 1, Len(s))
             b == SubSeq(t, 1, Len(s))
  <2>1. a \in Seq(S) /\ b \in Seq(S) /\ Len(a) = Len(b) /\ \A i \in 1 .. Len(a) : a[i] = b[i]
    BY <1>1, <1>2, <1>4
  <2> HIDE DEF a, b
  <2>2. a = b
    BY <2>1, SeqEqual
  <2> QED BY <2>2, <1>4 DEF IsPrefix, a, b
<1> QED BY <1>3, <1>4 DEF IsPrefix

LEMMA PrefixTransitive ==
  ASSUME NEW S, NEW s \in Seq(S), NEW t \in Seq(S), NEW u \in Seq(S),
         IsPrefix(s, t), IsPrefix(t, u)
  PROVE  IsPrefix(s, u)
<1> Len(s) \in Nat /\ Len(t) \in Nat /\ Len(u) \in Nat
  BY LenProperties
<1> QED BY PrefixPointwise

-------------------------------------------------------------------------------
(***************************************************************************)
(* The report order: what ReportOrderSound says, of any list and map.      *)
(***************************************************************************)
OrderOK(T, L, e) ==
  /\ T \in Seq(Keys)
  /\ Range(T) = {k \in Keys : found(L, k)}
  /\ IsPrefix(e, T)
  /\ \A i, j \in DOMAIN T : i < j /\ Len(e) < j => T[i] # T[j]

\* One lookup that tracks what it makes keeps list and map in step.
LEMMA TrackOne ==
  ASSUME NEW T, NEW L, NEW M, NEW e \in Seq(Keys), NEW k \in Keys,
         OrderOK(T, L, e),
         \A j \in Keys : found(M, j) <=> found(L, j) \/ j = k
  PROVE  /\ OrderOK(track(T, L, k), M, e)
         /\ IsPrefix(T, track(T, L, k))
<1> T \in Seq(Keys) /\ Len(T) \in Nat /\ Len(e) \in Nat /\ DOMAIN T = 1 .. Len(T)
  BY LenProperties DEF OrderOK
<1>1. CASE found(L, k)
  <2>1. track(T, L, k) = T
    BY <1>1 DEF track
  <2>2. IsPrefix(T, T)
    BY PrefixPointwise
  <2>3. {j \in Keys : found(M, j)} = {j \in Keys : found(L, j)}
    BY <1>1
  <2> QED BY <2>1, <2>2, <2>3 DEF OrderOK
<1>2. CASE ~found(L, k)
  <2> DEFINE U == Append(T, k)
  <2>1. track(T, L, k) = U
    BY <1>2 DEF track
  <2>2. /\ U \in Seq(Keys) /\ Len(U) = Len(T) + 1 /\ DOMAIN U = 1 .. Len(T) + 1
        /\ \A i \in 1 .. Len(T) : U[i] = T[i]
        /\ U[Len(T) + 1] = k
    OBVIOUS
  <2> HIDE DEF U
  <2>3. IsPrefix(T, U)
    BY <2>2, PrefixPointwise
  <2>4. IsPrefix(e, U)
    BY <2>2, <2>3, PrefixTransitive DEF OrderOK
  <2>5. Range(T) = {T[i] : i \in 1 .. Len(T)} /\ Range(U) = {U[i] : i \in 1 .. Len(T) + 1}
    BY <2>2 DEF Range
  <2>6. Range(U) = Range(T) \cup {k}
    <3>1. ASSUME NEW x \in Range(U) PROVE x \in Range(T) \cup {k}
      <4> PICK i \in 1 .. Len(T) + 1 : x = U[i]
        BY <2>5
      <4> CASE i = Len(T) + 1
        BY <2>2
      <4> CASE i \in 1 .. Len(T)
        BY <2>2, <2>5
      <4> QED OBVIOUS
    <3>2. ASSUME NEW x \in Range(T) PROVE x \in Range(U)
      <4> PICK i \in 1 .. Len(T) : x = T[i]
        BY <2>5
      <4> QED BY <2>2, <2>5
    <3>3. k \in Range(U)
      BY <2>2, <2>5
    <3> QED BY <3>1, <3>2, <3>3
  <2>7. Range(U) = {j \in Keys : found(M, j)}
    BY <2>6 DEF OrderOK
  <2>8. k \notin Range(T)
    BY <1>2 DEF OrderOK
  <2>9. \A i, j \in DOMAIN U : i < j /\ Len(e) < j => U[i] # U[j]
    <3> SUFFICES ASSUME NEW i \in 1 .. Len(T) + 1, NEW j \in 1 .. Len(T) + 1, i < j, Len(e) < j
                 PROVE  U[i] # U[j]
      BY <2>2
    <3>1. i \in 1 .. Len(T) /\ U[i] = T[i] /\ T[i] \in Range(T)
      BY <2>2, <2>5
    <3>2. CASE j = Len(T) + 1
      BY <3>1, <3>2, <2>2, <2>8
    <3>3. CASE j \in 1 .. Len(T)
      BY <3>1, <3>3, <2>2 DEF OrderOK
    <3> QED BY <3>2, <3>3
  <2> QED BY <2>1, <2>2, <2>3, <2>4, <2>7, <2>9 DEF OrderOK
<1> QED BY <1>1, <1>2

-------------------------------------------------------------------------------
(***************************************************************************)
(* The inductive invariant.                                                *)
(***************************************************************************)
RowsInv == \A k \in Keys : RowInv(learners[k], total[k])

\* Plain learners are bound to names only.
KindInv == \A k \in Keys : learners[k].kind = "LL" => k \in Names

IInv ==
  /\ TypeOK
  /\ RowsInv
  /\ KindInv
  /\ ReportOrderSound
  /\ ClearParentCountsAll
  /\ FamilyEnclosed

-------------------------------------------------------------------------------
(***************************************************************************)
(* What handle_ssu_A amounts to.  A looked-up row is itself or fresh; a    *)
(* sample is counted in its rows, or it only leaves a parent behind.       *)
(***************************************************************************)
made(ll, kind) == IF ll.kind = "none" THEN fresh(kind) ELSE ll

Counted(name, key, dur) ==
  /\ \A k \in Keys :
       IF k \in {name, key}
       THEN /\ learners'[k] = after2(made(learners[k], IF k = name THEN "LL" ELSE "VLL"), dur)
            /\ total'[k] = total[k] + dur
       ELSE learners'[k] = learners[k] /\ total'[k] = total[k]
  /\ key # name => learners[key].kind # "LL"

Rejected(name, key) ==
  /\ key # name /\ learners[key].kind = "LL"
  /\ total' = total
  /\ \A k \in Keys :
       learners'[k] = IF k = name THEN made(learners[k], "LL") ELSE learners[k]

LEMMA Ensured ==
  ASSUME NEW L \in [Keys -> Learner], NEW k \in Keys, NEW kind \in {"LL", "VLL"}
  PROVE  /\ ensure(L, k, kind) \in [Keys -> Learner]
         /\ \A j \in Keys : ensure(L, k, kind)[j] = IF j = k THEN made(L[k], kind) ELSE L[j]
         /\ \A j \in Keys : found(ensure(L, k, kind), j) <=> found(L, j) \/ j = k
<1>1. fresh(kind) \in Learner /\ fresh(kind).kind = kind
  BY Fresh
<1> QED BY <1>1 DEF ensure, made, found

LEMMA SampleShape ==
  ASSUME TypeOK, ReportOrderSound,
         NEW name \in Names, NEW variant \in Variants, NEW dur \in Durs,
         handle_ssu_A(name, variant, dur)
  PROVE  LET key == span_key_form(name, variant) IN
         /\ Counted(name, key, dur) \/ Rejected(name, key)
         /\ DOMAIN learners' = Keys /\ DOMAIN total' = Keys
         /\ learners' = [k \in Keys |-> learners'[k]] /\ total' = [k \in Keys |-> total'[k]]
         /\ submitted' = [submitted EXCEPT ![name] = @ + 1]
         /\ registered' = registered /\ expected' = expected
         /\ OrderOK(tracked_spans', learners', expected)
         /\ IsPrefix(tracked_spans, tracked_spans')
<1> DEFINE key == span_key_form(name, variant)
           withParent == ensure(learners, name, "LL")
           withBoth == ensure(withParent, key, "VLL")
<1>1. name \in Keys /\ key \in Keys /\ (variant = "" => key = name)
      /\ (variant # "" => key # name) /\ expected \in Seq(Keys)
  <2>1. expected \in Seq(Keys)
    BY KeyFacts, SeqMonotonic DEF TypeOK
  <2> QED BY <2>1, KeyFacts
<1>2. learners \in [Keys -> Learner] /\ total \in [Keys -> Int]
  BY DEF TypeOK
<1>3. OrderOK(tracked_spans, learners, expected)
  BY DEF OrderOK, ReportOrderSound, TypeOK
<1>4. /\ withParent \in [Keys -> Learner]
      /\ \A j \in Keys : withParent[j] = IF j = name THEN made(learners[name], "LL") ELSE learners[j]
      /\ \A j \in Keys : found(withParent, j) <=> found(learners, j) \/ j = name
  BY <1>1, <1>2, Ensured
<1>5. /\ withBoth \in [Keys -> Learner]
      /\ \A j \in Keys : withBoth[j] = IF j = key THEN made(withParent[key], "VLL") ELSE withParent[j]
      /\ \A j \in Keys : found(withBoth, j) <=> found(withParent, j) \/ j = key
  BY <1>1, <1>4, Ensured
<1>6. \A ll \in Learner : \A d : after2(ll, d).kind = ll.kind
  BY DEF after2, Learner
<1> HIDE DEF key, withParent, withBoth
<1>7. CASE variant = "" /\ handle_plain(name, dur)
  <2>1. learners' = [k \in Keys |-> IF k \in {name} THEN after2(withParent[k], dur) ELSE withParent[k]]
        /\ total' = [k \in Keys |-> total[k] + IF k \in {name} THEN dur ELSE 0]
        /\ tracked_spans' = track(tracked_spans, learners, name)
    BY <1>7 DEF handle_plain, count_sample, withParent
  <2>2. Counted(name, key, dur)
    <3>1. ASSUME NEW k \in Keys, k # name
          PROVE  learners'[k] = learners[k] /\ total'[k] = total[k]
      BY <3>1, <2>1, <1>2, <1>4
    <3>2. /\ learners'[name] = after2(made(learners[name], "LL"), dur)
          /\ total'[name] = total[name] + dur
      BY <2>1, <1>1, <1>4
    <3> QED BY <3>1, <3>2, <1>1, <1>7 DEF Counted
  <2>3. \A j \in Keys : found(learners', j) <=> found(learners, j) \/ j = name
    <3> SUFFICES ASSUME NEW j \in Keys
                 PROVE  learners'[j].kind = withParent[j].kind
      BY <1>4 DEF found
    <3> QED BY <2>1, <1>4, <1>6
  <2>4. OrderOK(tracked_spans', learners', expected) /\ IsPrefix(tracked_spans, tracked_spans')
    BY <2>1, <2>3, <1>1, <1>3, TrackOne
  <2> QED BY <2>1, <2>2, <2>4 DEF handle_ssu_A, key
<1>8. CASE variant # "" /\ handle_variant(name, key, dur)
  <2>1. /\ withParent[key].kind # "LL"
        /\ learners' = [k \in Keys |-> IF k \in {name, key} THEN after2(withBoth[k], dur) ELSE withBoth[k]]
        /\ total' = [k \in Keys |-> total[k] + IF k \in {name, key} THEN dur ELSE 0]
        /\ tracked_spans' = track(track(tracked_spans, learners, name), withParent, key)
    BY <1>8 DEF handle_variant, count_sample, rows, withParent, withBoth
  <2>2. Counted(name, key, dur)
    <3>1. ASSUME NEW k \in Keys, k # name, k # key
          PROVE  learners'[k] = learners[k] /\ total'[k] = total[k]
      BY <3>1, <2>1, <1>2, <1>4, <1>5
    <3>2. /\ learners'[name] = after2(made(learners[name], "LL"), dur)
          /\ total'[name] = total[name] + dur
      BY <2>1, <1>1, <1>4, <1>5, <1>8
    <3>3. /\ learners'[key] = after2(made(learners[key], "VLL"), dur)
          /\ total'[key] = total[key] + dur
      BY <2>1, <1>1, <1>4, <1>5, <1>8
    <3>4. learners[key].kind # "LL"
      BY <2>1, <1>1, <1>4, <1>8
    <3> QED BY <3>1, <3>2, <3>3, <3>4, <1>1, <1>8 DEF Counted
  <2>3. \A j \in Keys : found(learners', j) <=> found(withParent, j) \/ j = key
    <3> SUFFICES ASSUME NEW j \in Keys
                 PROVE  learners'[j].kind = withBoth[j].kind
      BY <1>5 DEF found
    <3> QED BY <2>1, <1>5, <1>6
  <2> DEFINE mid == track(tracked_spans, learners, name)
  <2>4. OrderOK(mid, withParent, expected) /\ IsPrefix(tracked_spans, mid)
    BY <1>1, <1>3, <1>4, TrackOne
  <2>5. OrderOK(tracked_spans', learners', expected) /\ IsPrefix(mid, tracked_spans')
    <3> HIDE DEF mid
    <3>1. tracked_spans' = track(mid, withParent, key)
      BY <2>1 DEF mid
    <3> QED BY <2>3, <2>4, <3>1, <1>1, TrackOne
  <2>6. IsPrefix(tracked_spans, tracked_spans')
    <3> HIDE DEF mid
    <3>1. tracked_spans \in Seq(Keys) /\ mid \in Seq(Keys) /\ tracked_spans' \in Seq(Keys)
      BY <1>3, <2>4, <2>5 DEF OrderOK
    <3> QED BY <2>4, <2>5, <3>1, PrefixTransitive
  <2> QED BY <2>1, <2>2, <2>5, <2>6 DEF handle_ssu_A, key
<1>9. CASE variant # "" /\ reject_variant(name, key)
  <2>1. /\ withParent[key].kind = "LL"
        /\ learners' = withParent
        /\ total' = total
        /\ tracked_spans' = track(tracked_spans, learners, name)
    BY <1>9 DEF reject_variant, withParent
  <2>2. Rejected(name, key)
    BY <2>1, <1>1, <1>4, <1>9 DEF Rejected
  <2>3. \A j \in Keys : found(learners', j) <=> found(learners, j) \/ j = name
    BY <2>1, <1>4
  <2>4. OrderOK(tracked_spans', learners', expected) /\ IsPrefix(tracked_spans, tracked_spans')
    BY <2>1, <2>3, <1>1, <1>3, TrackOne
  <2>5. learners' = [k \in Keys |-> learners'[k]] /\ total' = [k \in Keys |-> total'[k]]
    BY <2>1, <1>2, <1>4
  <2> QED BY <2>1, <2>2, <2>4, <2>5, <1>2, <1>4 DEF handle_ssu_A, key
<1> QED BY <1>7, <1>8, <1>9 DEF handle_ssu_A, key

\* Every row changes in one of the ways of RowChange.
LEMMA SampleRows ==
  ASSUME TypeOK, ReportOrderSound,
         NEW name \in Names, NEW variant \in Variants, NEW dur \in Durs,
         handle_ssu_A(name, variant, dur), NEW k \in Keys
  PROVE  RowChange(learners[k], learners'[k], total[k], total'[k])
<1> DEFINE key == span_key_form(name, variant)
<1>1. Counted(name, key, dur) \/ Rejected(name, key)
  BY SampleShape
<1>2. learners[k].kind = "none" => learners[k] = NoLearner
  BY DEF TypeOK, found
<1>3. \A kind \in {"LL", "VLL"} :
        /\ made(learners[k], kind) \in {learners[k], fresh("LL"), fresh("VLL")}
        /\ made(learners[k], kind) # learners[k] => learners[k] = NoLearner
        /\ made(learners[k], kind).kind # "none"
  BY <1>2, Fresh DEF made
<1>4. CASE Counted(name, key, dur)
  <2>1. CASE k \in {name, key}
    <3> DEFINE base == made(learners[k], IF k = name THEN "LL" ELSE "VLL")
    <3>1. learners'[k] = after2(base, dur) /\ total'[k] = total[k] + dur
      BY <1>4, <2>1 DEF Counted
    <3>2. /\ base \in {learners[k], fresh("LL"), fresh("VLL")}
          /\ base # learners[k] => learners[k] = NoLearner
          /\ base.kind # "none"
      BY <1>3
    <3> HIDE DEF base
    <3> QED BY <3>1, <3>2 DEF RowChange
  <2>2. CASE k \notin {name, key}
    BY <1>4, <2>2 DEF Counted, RowChange
  <2> QED BY <2>1, <2>2
<1>5. CASE Rejected(name, key)
  BY <1>5, <1>2 DEF Rejected, RowChange, made
<1> QED BY <1>1, <1>4, <1>5

-------------------------------------------------------------------------------
(***************************************************************************)
(* The invariant holds at first, and Register establishes it anew.         *)
(***************************************************************************)
LEMMA InitInv == Init => IInv
<1> SUFFICES ASSUME Init PROVE IInv
  OBVIOUS
<1>1. \A k \in Keys : learners[k] = fresh("none") /\ total[k] = 0
  BY DEF Init, NoLearner
<1>2. \A n \in Names : n \in Keys /\ submitted[n] = 0
  BY KeyFacts DEF Init
<1>3. fresh("none") \in Learner /\ fresh("none").kind = "none" /\ fresh("none").Weight = 0
  BY Fresh DEF fresh
<1>4. TypeOK
  <2>1. learners \in [Keys -> Learner]
    BY <1>3 DEF Init, NoLearner
  <2>2. tracked_spans \in Seq(Keys) /\ expected \in Seq(Names)
    BY EmptySeq DEF Init
  <2>3. submitted \in [Names -> Nat]
    BY DEF Init
  <2>4. total \in [Keys -> Int]
    BY DEF Init
  <2>5. registered \in BOOLEAN
    BY DEF Init
  <2>6. \A k \in Keys : learners[k] = NoLearner
    BY DEF Init
  <2> QED BY <2>1, <2>2, <2>3, <2>4, <2>5, <2>6 DEF TypeOK
<1>5. RowsInv
  BY <1>1, Fresh DEF RowsInv
<1>6. KindInv
  BY <1>1, <1>3 DEF KindInv
<1>7. ReportOrderSound
  <2>1. tracked_spans = << >> /\ expected = << >>
    BY DEF Init
  <2>2. Range(tracked_spans) = {}
    BY <2>1 DEF Range
  <2>3. IsPrefix(expected, tracked_spans)
    BY <2>1 DEF IsPrefix
  <2> QED BY <1>1, <1>3, <2>1, <2>2, <2>3 DEF ReportOrderSound, found
<1>8. ClearParentCountsAll
  BY <1>1, <1>2, <1>3 DEF ClearParentCountsAll
<1>9. FamilyEnclosed
  <2>1. \A k \in Keys : ~(learners[k].Weight > 0)
    BY <1>1, <1>3
  <2>2. \A n \in Names, v \in Variants : ~(learners[span_key_form(n, v)].Weight > 0)
    BY <2>1, KeyFacts
  <2> QED BY <2>2 DEF FamilyEnclosed
<1> QED BY <1>4, <1>5, <1>6, <1>7, <1>8, <1>9 DEF IInv

LEMMA RegisterInv == Register => IInv'
<1> SUFFICES ASSUME NEW spans_app \in AppSpans, register(spans_app) PROVE IInv'
  BY DEF Register
<1> DEFINE spans == spans_app \o Builtins
           L == [k \in Keys |-> IF k \in Range(spans) THEN fresh("LL") ELSE NoLearner]
<1>1. spans \in Seq(Names) /\ spans \in Seq(Keys)
  <2>1. spans \in Seq(Names)
    BY RegistryAssumption, ConcatProperties DEF ConstantsOK
  <2> HIDE DEF spans
  <2> QED BY <2>1, KeyFacts, SeqMonotonic
<1>2. /\ learners' = L /\ tracked_spans' = spans /\ expected' = spans /\ registered' = TRUE
      /\ submitted' = [n \in Names |-> 0] /\ total' = [k \in Keys |-> 0]
  BY DEF register
<1> HIDE DEF spans
<1>3. Range(spans) \subseteq Names
  BY <1>1, LenProperties, ElementOfSeq DEF Range
<1>4. \A k \in Keys :
        /\ learners'[k] \in Learner
        /\ learners'[k].Weight = 0
        /\ learners'[k].kind = IF k \in Range(spans) THEN "LL" ELSE "none"
        /\ learners'[k].kind = "none" => learners'[k] = NoLearner
        /\ RowInv(learners'[k], total'[k])
  BY <1>2, Fresh DEF NoLearner, fresh
<1>5. TypeOK'
  BY <1>1, <1>2, <1>4 DEF TypeOK, found
<1>6. RowsInv'
  BY <1>4 DEF RowsInv
<1>7. KindInv'
  BY <1>3, <1>4 DEF KindInv
<1>8. ReportOrderSound'
  <2>1. Range(tracked_spans') = {k \in Keys : found(learners', k)}
    BY <1>2, <1>3, <1>4, KeyFacts DEF found
  <2>2. IsPrefix(expected', tracked_spans')
    BY <1>1, <1>2, PrefixPointwise, LenProperties
  <2>3. \A j \in DOMAIN tracked_spans' : ~(Len(expected') < j)
    BY <1>1, <1>2, LenProperties
  <2> QED BY <2>1, <2>2, <2>3 DEF ReportOrderSound
<1>9. ClearParentCountsAll'
  BY <1>2, <1>4, KeyFacts DEF ClearParentCountsAll
<1>10. FamilyEnclosed'
  <2>1. \A k \in Keys : ~(learners'[k].Weight > 0)
    BY <1>4
  <2>2. \A n \in Names, v \in Variants : ~(learners'[span_key_form(n, v)].Weight > 0)
    BY <2>1, KeyFacts
  <2> QED BY <2>2 DEF FamilyEnclosed
<1> QED BY <1>5, <1>6, <1>7, <1>8, <1>9, <1>10 DEF IInv

-------------------------------------------------------------------------------
(***************************************************************************)
(* The rows a sample counts in, whether they were there or had to be made. *)
(***************************************************************************)
LEMMA Made ==
  ASSUME NEW ll \in Learner, NEW sum, RowInv(ll, sum), NEW kind \in {"LL", "VLL"}
  PROVE  /\ made(ll, kind) \in Learner
         /\ made(ll, kind).Pair_ever_completed <=> made(ll, kind).Weight > 0
         /\ made(ll, kind).Weight = ll.Weight
         /\ ll.Weight > 0 => made(ll, kind) = ll
         /\ made(ll, kind).kind = IF ll.kind = "none" THEN kind ELSE ll.kind
<1>1. ll.Weight \in Nat
  BY DEF Learner
<1>2. CASE ll.kind = "none"
  <2>1. ll.Weight = 0
    BY <1>2 DEF RowInv
  <2>2. /\ fresh(kind) \in Learner /\ fresh(kind).kind = kind /\ fresh(kind).Weight = 0
        /\ fresh(kind).Pair_ever_completed = FALSE
    BY Fresh DEF fresh
  <2>3. made(ll, kind) = fresh(kind)
    BY <1>2 DEF made
  <2> QED BY <1>2, <2>1, <2>2, <2>3
<1>3. CASE ll.kind # "none"
  <2>1. made(ll, kind) = ll
    BY <1>3 DEF made
  <2>2. ll.Pair_ever_completed <=> ll.Weight > 0
    BY DEF RowInv
  <2> QED BY <1>3, <2>1, <2>2
<1> QED BY <1>2, <1>3

LEMMA MadeSample ==
  ASSUME NEW ll \in Learner, NEW sum, RowInv(ll, sum), NEW kind \in {"LL", "VLL"},
         NEW dur \in Int64, NEW new, new = after2(made(ll, kind), dur)
  PROVE  /\ new \in Learner
         /\ new.kind = IF ll.kind = "none" THEN kind ELSE ll.kind
         /\ new.Weight = ll.Weight + 1
         /\ new.Min <= dur /\ new.Max >= dur
         /\ ll.Weight = 0 => new.Min = dur /\ new.Max = dur
         /\ ll.Weight > 0 => /\ new.Min \in {ll.Min, dur} /\ new.Min <= ll.Min
                            /\ new.Max \in {ll.Max, dur} /\ new.Max >= ll.Max
<1> DEFINE base == made(ll, kind)
<1>1. /\ base \in Learner
      /\ base.Pair_ever_completed <=> base.Weight > 0
      /\ base.Weight = ll.Weight
      /\ ll.Weight > 0 => base = ll
      /\ base.kind = IF ll.kind = "none" THEN kind ELSE ll.kind
  BY Made
<1> HIDE DEF base
<1>2. new = after2(base, dur)
  BY DEF base
<1>3. ll.Weight \in Nat /\ dur \in Int
  BY MachineIntegers DEF Learner
<1> QED BY <1>1, <1>2, <1>3, After2

\* What FamilyEnclosed says of a parent and a variant.
Encloses(parent, child) ==
  child.Weight > 0 =>
    /\ parent.Weight >= child.Weight
    /\ parent.Min <= child.Min
    /\ parent.Max >= child.Max

LEMMA RowNumbers ==
  ASSUME NEW ll \in Learner
  PROVE  ll.Weight \in Nat /\ ll.Min \in Int /\ ll.Max \in Int
BY MachineIntegers DEF Learner

\* A parent that widens still encloses the variant.
LEMMA EnclosesWider ==
  ASSUME NEW p \in Learner, NEW p2 \in Learner, NEW c \in Learner,
         Encloses(p, c), p2.Weight >= p.Weight,
         p.Weight > 0 => p2.Min <= p.Min /\ p2.Max >= p.Max
  PROVE  Encloses(p2, c)
<1>1. /\ p.Weight \in Int /\ p2.Weight \in Int /\ c.Weight \in Int
      /\ p.Min \in Int /\ p2.Min \in Int /\ c.Min \in Int
      /\ p.Max \in Int /\ p2.Max \in Int /\ c.Max \in Int
  BY RowNumbers
<1> QED BY <1>1 DEF Encloses

\* A sample that counts in both keeps the variant enclosed.
LEMMA EnclosesSample ==
  ASSUME NEW p \in Learner, NEW c \in Learner, NEW sum, NEW sum2,
         RowInv(p, sum), RowInv(c, sum2), NEW dur \in Int64, Encloses(p, c),
         NEW p2, p2 = after2(made(p, "LL"), dur),
         NEW c2, c2 = after2(made(c, "VLL"), dur)
  PROVE  Encloses(p2, c2)
<1>1. /\ p2 \in Learner /\ p2.Weight = p.Weight + 1
      /\ p2.Min <= dur /\ p2.Max >= dur
      /\ p.Weight > 0 => p2.Min <= p.Min /\ p2.Max >= p.Max
  BY MadeSample
<1>2. /\ c2 \in Learner /\ c2.Weight = c.Weight + 1
      /\ c.Weight = 0 => c2.Min = dur /\ c2.Max = dur
      /\ c.Weight > 0 => c2.Min \in {c.Min, dur} /\ c2.Max \in {c.Max, dur}
  BY MadeSample
<1>3. /\ p.Weight \in Nat /\ c.Weight \in Nat /\ dur \in Int
      /\ p.Min \in Int /\ p2.Min \in Int /\ c.Min \in Int /\ c2.Min \in Int
      /\ p.Max \in Int /\ p2.Max \in Int /\ c.Max \in Int /\ c2.Max \in Int
  BY <1>1, <1>2, RowNumbers, MachineIntegers
<1>4. CASE c.Weight = 0
  BY <1>1, <1>2, <1>3, <1>4 DEF Encloses
<1>5. CASE c.Weight > 0
  <2>1. p.Weight >= c.Weight /\ p.Min <= c.Min /\ p.Max >= c.Max /\ p.Weight > 0
    BY <1>3, <1>5 DEF Encloses
  <2>2. p2.Min <= c.Min /\ p2.Max >= c.Max
    BY <1>1, <1>3, <2>1
  <2>3. c2.Min \in {c.Min, dur} /\ c2.Max \in {c.Max, dur}
    BY <1>2, <1>5
  <2>4. p2.Weight >= c2.Weight
    BY <1>1, <1>2, <1>3, <2>1
  <2> QED BY <1>1, <1>3, <2>2, <2>3, <2>4 DEF Encloses
<1> QED BY <1>3, <1>4, <1>5

-------------------------------------------------------------------------------
(***************************************************************************)
(* A sample keeps it.                                                      *)
(***************************************************************************)
LEMMA SampleInv ==
  ASSUME IInv,
         NEW name \in Names, NEW variant \in Variants, NEW dur \in Durs,
         handle_ssu_A(name, variant, dur)
  PROVE  IInv'
<1> DEFINE key == span_key_form(name, variant)
<1> USE DEF IInv
<1>1. /\ Counted(name, key, dur) \/ Rejected(name, key)
      /\ learners' = [k \in Keys |-> learners'[k]] /\ total' = [k \in Keys |-> total'[k]]
      /\ submitted' = [submitted EXCEPT ![name] = @ + 1]
      /\ registered' = registered /\ expected' = expected
      /\ OrderOK(tracked_spans', learners', expected)
  BY SampleShape
<1>2. ASSUME NEW k \in Keys
      PROVE  /\ learners[k] \in Learner /\ total[k] \in Int
             /\ RowInv(learners[k], total[k])
             /\ RowChange(learners[k], learners'[k], total[k], total'[k])
  BY SampleRows DEF TypeOK, RowsInv
<1>3. ASSUME NEW k \in Keys
      PROVE  /\ learners'[k] \in Learner /\ total'[k] \in Int
             /\ RowInv(learners'[k], total'[k])
             /\ learners[k].kind # "none" => learners'[k].kind = learners[k].kind
             /\ learners'[k].Weight >= learners[k].Weight
             /\ learners[k].Weight > 0 =>
                  learners'[k].Min <= learners[k].Min /\ learners'[k].Max >= learners[k].Max
  BY <1>2, RowStep, KeyFacts
<1>4. name \in Keys /\ key \in Keys /\ (variant = "" => key = name)
      /\ (variant # "" => key # name)
  BY KeyFacts
<1>5. dur \in Int64
  BY KeyFacts
<1> HIDE DEF key
<1>6. ASSUME NEW k \in Keys, NEW kind \in {"LL", "VLL"}
      PROVE  LET new == after2(made(learners[k], kind), dur) IN
             /\ new.kind = IF learners[k].kind = "none" THEN kind ELSE learners[k].kind
             /\ new.Weight = learners[k].Weight + 1
  BY <1>2, <1>5, MadeSample
<1>7. TypeOK'
  <2>1. learners' \in [Keys -> Learner] /\ total' \in [Keys -> Int]
    BY <1>1, <1>3
  <2>2. tracked_spans' \in Seq(Keys)
    BY <1>1 DEF OrderOK
  <2>3. submitted' \in [Names -> Nat]
    BY <1>1 DEF TypeOK
  <2>4. \A k \in Keys : ~found(learners', k) => learners'[k] = NoLearner
    <3> SUFFICES ASSUME NEW k \in Keys, learners'[k].kind = "none"
                 PROVE  learners'[k] = NoLearner
      BY DEF found
    <3>1. learners'[k].Weight = 0 /\ learners'[k] = fresh("none")
      BY <1>3 DEF RowInv
    <3> QED BY <3>1 DEF NoLearner
  <2> QED BY <1>1, <2>1, <2>2, <2>3, <2>4 DEF TypeOK
<1>8. RowsInv'
  BY <1>3 DEF RowsInv
<1>9. KindInv'
  <2> SUFFICES ASSUME NEW k \in Keys, learners'[k].kind = "LL" PROVE k \in Names
    BY DEF KindInv
  <2>1. CASE learners[k].kind # "none"
    BY <2>1, <1>3 DEF KindInv
  <2>2. CASE learners[k].kind = "none" /\ k = name
    BY <2>2
  <2>3. CASE learners[k].kind = "none" /\ k # name
    <3>1. learners'[k] = learners[k] \/ learners'[k] = after2(made(learners[k], "VLL"), dur)
      BY <1>1, <2>3 DEF Counted, Rejected
    <3>2. after2(made(learners[k], "VLL"), dur).kind = "VLL"
      BY <1>6, <2>3
    <3> QED BY <2>3, <3>1, <3>2
  <2> QED BY <2>1, <2>2, <2>3
<1>10. ReportOrderSound'
  BY <1>1 DEF OrderOK, ReportOrderSound
<1>11. clear(name) => Counted(name, key, dur)
  <2> SUFFICES ASSUME clear(name), Rejected(name, key) PROVE FALSE
    BY <1>1
  <2>1. key \in Names /\ key # name
    BY <1>4 DEF Rejected, KindInv
  <2>2. variant \in Variants \ {""}
    BY <1>4, <2>1
  <2> QED BY <2>1, <2>2, ClearFacts DEF key
<1>12. ClearParentCountsAll'
  <2> SUFFICES ASSUME NEW n \in Names, clear(n)
               PROVE  learners'[n].Weight = submitted'[n]
    BY DEF ClearParentCountsAll
  <2>0. learners[n].Weight = submitted[n] /\ n \in Keys
    BY KeyFacts DEF ClearParentCountsAll
  <2>1. CASE n = name
    <3>1. learners'[n] = after2(made(learners[n], "LL"), dur)
      BY <2>1, <1>11, <1>4 DEF Counted
    <3>2. learners'[n].Weight = learners[n].Weight + 1
      BY <3>1, <2>0, <1>6
    <3>3. submitted'[n] = submitted[n] + 1
      BY <2>1, <1>1 DEF TypeOK
    <3> QED BY <2>0, <3>2, <3>3
  <2>2. CASE n # name
    <3>1. n \notin {name, key}
      <4>1. CASE variant = ""
        BY <4>1, <2>2, <1>4
      <4>2. CASE variant # ""
        <5>1. n # span_key_form(name, variant)
          BY <4>2, <2>2 DEF clear
        <5> QED BY <5>1, <2>2 DEF key
      <4> QED BY <4>1, <4>2
    <3>2. learners'[n] = learners[n]
      BY <1>1, <2>0, <3>1 DEF Counted, Rejected
    <3>3. submitted'[n] = submitted[n]
      BY <2>2, <1>1 DEF TypeOK
    <3> QED BY <2>0, <3>2, <3>3
  <2> QED BY <2>1, <2>2
<1>13. FamilyEnclosed'
  <2> SUFFICES ASSUME NEW n \in Names, NEW v \in Variants \ {""}, clear(n)
               PROVE  Encloses(learners'[n], learners'[span_key_form(n, v)])
    BY DEF FamilyEnclosed, Encloses
  <2> DEFINE c == span_key_form(n, v)
  <2>1. n \in Keys /\ c \in Keys /\ c # n
    BY KeyFacts
  <2>2. Encloses(learners[n], learners[c])
    BY DEF FamilyEnclosed, Encloses
  <2>3. c \in {name, key} => n = name /\ c = key
    BY ClearFacts DEF key
  <2> HIDE DEF c
  <2>4. CASE c \notin {name, key} \/ Rejected(name, key)
    <3>1. learners'[c] = learners[c]
      <4>1. CASE Counted(name, key, dur) /\ c \notin {name, key}
        BY <4>1, <2>1 DEF Counted
      <4>2. CASE Rejected(name, key) /\ c # name
        BY <4>2, <2>1 DEF Rejected
      <4>3. CASE Rejected(name, key) /\ c = name
        BY <4>3, <2>1, <2>3
      <4> QED BY <4>1, <4>2, <4>3, <2>4, <1>1
    <3>2. Encloses(learners'[n], learners[c])
      BY <2>1, <2>2, <1>2, <1>3, EnclosesWider
    <3> QED BY <3>1, <3>2 DEF c
  <2>5. CASE c \in {name, key} /\ Counted(name, key, dur)
    <3>1. n = name /\ c = key /\ key # name
      BY <2>5, <2>3, <2>1
    <3>2. /\ learners'[n] = after2(made(learners[n], "LL"), dur)
          /\ learners'[c] = after2(made(learners[c], "VLL"), dur)
      BY <2>5, <3>1, <2>1 DEF Counted
    <3>3. Encloses(learners'[n], learners'[c])
      BY <3>2, <2>1, <2>2, <1>2, <1>5, EnclosesSample
    <3> QED BY <3>3 DEF c
  <2> QED BY <2>4, <2>5, <1>1
<1> QED BY <1>7, <1>8, <1>9, <1>10, <1>12, <1>13

-------------------------------------------------------------------------------
(***************************************************************************)
(* The theorems.                                                           *)
(***************************************************************************)
LEMMA NextInv == IInv /\ [Next]_regvars => IInv'
<1> SUFFICES ASSUME IInv, [Next]_regvars PROVE IInv'
  OBVIOUS
<1>1. CASE Register
  BY <1>1, RegisterInv
<1>2. CASE Sample
  BY <1>2, SampleInv DEF Sample
<1>3. CASE UNCHANGED regvars
  <2>1. /\ learners' = learners /\ tracked_spans' = tracked_spans /\ registered' = registered
        /\ expected' = expected /\ submitted' = submitted /\ total' = total
    BY <1>3 DEF regvars
  <2>2. TypeOK'
    BY <2>1 DEF IInv, TypeOK, found
  <2>3. RowsInv'
    BY <2>1 DEF IInv, RowsInv
  <2>4. KindInv'
    BY <2>1 DEF IInv, KindInv
  <2>5. ReportOrderSound'
    BY <2>1 DEF IInv, ReportOrderSound, found
  <2>6. ClearParentCountsAll'
    BY <2>1 DEF IInv, ClearParentCountsAll
  <2>7. FamilyEnclosed'
    BY <2>1 DEF IInv, FamilyEnclosed
  <2> QED BY <2>2, <2>3, <2>4, <2>5, <2>6, <2>7 DEF IInv
<1> QED BY <1>1, <1>2, <1>3 DEF Next

\* The inductive invariant holds throughout.
THEOREM Invariance == Spec => []IInv
<1> QED BY InitInv, NextInv, PTL DEF Spec

\* Type correctness: in particular Cumul never leaves the int64 range,
\* however long the program runs, and a key not in the map has no row.
THEOREM TypeCorrect == Spec => []TypeOK
<1>1. IInv => TypeOK
  BY DEF IInv
<1> QED BY <1>1, Invariance, PTL

\* report_inner may look every tracked key up without a guard, and reports
\* every learner: list and map agree whatever spans arrive.
THEOREM ReportOrderAlwaysSound == Spec => []ReportOrderSound
<1>1. IInv => ReportOrderSound
  BY DEF IInv
<1> QED BY <1>1, Invariance, PTL

\* A clear name's row counts every sample of its family exactly once.
THEOREM ParentsCountAll == Spec => []ClearParentCountsAll
<1>1. IInv => ClearParentCountsAll
  BY DEF IInv
<1> QED BY <1>1, Invariance, PTL

\* The parent's weight and range enclose those of each variant.
THEOREM FamiliesEnclosed == Spec => []FamilyEnclosed
<1>1. IInv => FamilyEnclosed
  BY DEF IInv
<1> QED BY <1>1, Invariance, PTL

\* One row's figures agree with one another.
LEMMA RowFigures ==
  ASSUME NEW ll \in Learner, NEW sum \in Int, RowInv(ll, sum), ll.Weight > 0
  PROVE  /\ ll.Pair_ever_completed
         /\ ll.Min <= ll.Last /\ ll.Last <= ll.Max
         /\ ll.Weight = 1 => ll.Min = ll.Max
         /\ sum \in Int64 => ll.Min <= mean(ll) /\ mean(ll) <= ll.Max
<1>1. /\ ll.Pair_ever_completed
      /\ ll.Min <= ll.Last /\ ll.Last <= ll.Max
      /\ ll.Weight = 1 => ll.Min = ll.Max
      /\ ll.Weight * ll.Min <= sum /\ sum <= ll.Weight * ll.Max
  BY DEF RowInv
<1>2. ASSUME sum \in Int64 PROVE ll.Min <= mean(ll) /\ mean(ll) <= ll.Max
  <2>1. sum = ll.Cumul
    <3>1. PICK w \in Int : sum = ll.Cumul + w * Modulus
      BY DEF RowInv
    <3>2. ll.Cumul \in Int64
      BY DEF Learner
    <3> QED BY <1>2, <3>1, <3>2, NoWrapLeft
  <2>2. ll.Weight \in Nat \ {0} /\ ll.Min \in Int /\ ll.Max \in Int
    BY RowNumbers
  <2>3. mean(ll) = quo(sum, ll.Weight)
    BY <2>1 DEF mean
  <2> QED BY <1>1, <2>2, <2>3, QuoBetween
<1> QED BY <1>1, <1>2

\* Minimum, last, mean and maximum of a row fit together as long as the exact
\* sum of its samples is in the int64 range, whatever wrapped on the way.
THEOREM RowsCoherent == Spec => []RowCoherent
<1>1. IInv => RowCoherent
  <2> SUFFICES ASSUME IInv, NEW k \in Keys, learners[k].Weight > 0
               PROVE  LET ll == learners[k] IN
                      /\ ll.Pair_ever_completed
                      /\ ll.Min <= ll.Last /\ ll.Last <= ll.Max
                      /\ ll.Weight = 1 => ll.Min = ll.Max
                      /\ total[k] \in Int64 => ll.Min <= mean(ll) /\ mean(ll) <= ll.Max
    BY DEF RowCoherent
  <2>1. learners[k] \in Learner /\ total[k] \in Int /\ RowInv(learners[k], total[k])
    BY DEF IInv, TypeOK, RowsInv
  <2> QED BY <2>1, RowFigures
<1> QED BY <1>1, Invariance, PTL

\* Once init_inner is done, no step forgets, restarts or rebinds a row, and
\* the report order is only ever extended.
THEOREM RowsGrow == Spec => RowsOnlyGrow
<1> DEFINE Grows ==
      registered =>
       /\ IsPrefix(tracked_spans, tracked_spans')
       /\ \A k \in Keys :
            LET old == learners[k]
                new == learners'[k]
            IN  /\ found(learners, k) => new.kind = old.kind
                /\ new.Weight >= old.Weight
                /\ old.Weight > 0 => new.Min <= old.Min /\ new.Max >= old.Max
<1>1. ASSUME IInv, Sample PROVE Grows
  <2>1. PICK name \in Names, variant \in Variants, dur \in Durs :
            handle_ssu_A(name, variant, dur)
    BY <1>1 DEF Sample
  <2>2. IsPrefix(tracked_spans, tracked_spans')
    BY <1>1, <2>1, SampleShape DEF IInv
  <2>3. ASSUME NEW k \in Keys
        PROVE  /\ found(learners, k) => learners'[k].kind = learners[k].kind
               /\ learners'[k].Weight >= learners[k].Weight
               /\ learners[k].Weight > 0 =>
                    learners'[k].Min <= learners[k].Min /\ learners'[k].Max >= learners[k].Max
    <3>1. learners[k] \in Learner /\ total[k] \in Int /\ RowInv(learners[k], total[k])
      BY <1>1 DEF IInv, TypeOK, RowsInv
    <3>2. RowChange(learners[k], learners'[k], total[k], total'[k])
      BY <1>1, <2>1, SampleRows DEF IInv
    <3> QED BY <3>1, <3>2, KeyFacts, RowStep DEF found
  <2> QED BY <2>2, <2>3
<1>2. ASSUME Register PROVE Grows
  BY <1>2 DEF Register
<1>3. IInv /\ [Next]_regvars => [Grows]_regvars
  BY <1>1, <1>2 DEF Next
<1> HIDE DEF Grows
<1>4. Spec => [][Grows]_regvars
  BY <1>3, Invariance, PTL DEF Spec
<1> QED BY <1>4 DEF RowsOnlyGrow, Grows

===============================================================================
