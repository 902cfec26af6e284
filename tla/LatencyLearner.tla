---------------------------- MODULE LatencyLearner ----------------------------
(***************************************************************************)
(* One row of LatLearn's statistics: the struct latencyLearner and the     *)
(* methods that read and update it, as operators on a record.  Everything  *)
(* here is sequential and total; who calls it, and when, is the business   *)
(* of Registry and LatLearn.                                               *)
(*                                                                         *)
(* Left out of the record: Name (it is the key under which the row is      *)
(* stored), pair_underway (written FALSE, never read) and the parent       *)
(* pointer of a variant (read only in the call that has just set it).      *)
(***************************************************************************)
EXTENDS Integers

CONSTANT MaxInt64            \* largest time.Duration; 2^63 - 1 in the program

ASSUME MaxInt64Assumption == MaxInt64 \in Nat \ {0}

MinInt64 == -MaxInt64 - 1
Modulus  == 2 * MaxInt64 + 2
Int64    == MinInt64 .. MaxInt64

\* The sum of two int64 values as the machine computes it.
add64(a, b) ==
  IF a + b > MaxInt64 THEN a + b - Modulus
  ELSE IF a + b < MinInt64 THEN a + b + Modulus
  ELSE a + b

\* Their difference.
sub64(a, b) ==
  IF a - b > MaxInt64 THEN a - b - Modulus
  ELSE IF a - b < MinInt64 THEN a - b + Modulus
  ELSE a - b

\* Go's integer division truncates towards zero; b is positive.
quo(a, b) == IF a >= 0 THEN a \div b ELSE -((-a) \div b)

-------------------------------------------------------------------------------
(***************************************************************************)
(* A key of the learners map is absent ("none"), bound to a plain learner  *)
(* ("LL") or bound to a variant learner ("VLL").                           *)
(***************************************************************************)
Learner == [kind   : {"none", "LL", "VLL"},
            Last   : Int64,
            Cumul  : Int64,
            Weight : Nat,
            Min    : Int64,
            Max    : Int64,
            Pair_ever_completed : BOOLEAN]

\* Go's zero value, tagged with what the map binds the key to.
fresh(kind) == [kind |-> kind, Last |-> 0, Cumul |-> 0, Weight |-> 0,
                Min |-> 0, Max |-> 0, Pair_ever_completed |-> FALSE]

NoLearner == fresh("none")

-------------------------------------------------------------------------------
(***************************************************************************)
(* What a coding slip in after2 would make of it.                          *)
(***************************************************************************)
\* Cumul is overwritten rather than accumulated.
after2_no_accumulate(ll, dur) ==
  [ll EXCEPT !.Last = dur, !.Cumul = dur, !.Weight = @ + 1,
             !.Min = IF ll.Pair_ever_completed /\ @ <= dur THEN @ ELSE dur,
             !.Max = IF ll.Pair_ever_completed /\ @ >= dur THEN @ ELSE dur,
             !.Pair_ever_completed = TRUE]

\* Pair_ever_completed is never set: every sample looks like the first.
after2_always_first(ll, dur) ==
  [ll EXCEPT !.Last = dur, !.Cumul = add64(@, dur), !.Weight = @ + 1,
             !.Min = dur, !.Max = dur]

\* Account one more sample of length dur.
after2(ll, dur) ==
  [ll EXCEPT !.Last   = dur,
             !.Cumul  = add64(@, dur),
             !.Weight = @ + 1,
             !.Min    = IF ll.Pair_ever_completed /\ ~(dur < @) THEN @ ELSE dur,
             !.Max    = IF ll.Pair_ever_completed /\ ~(dur > @) THEN @ ELSE dur,
             !.Pair_ever_completed = TRUE]

\* The mean of the samples so far; -1 stands for "none yet".
mean(ll) == IF ll.Weight > 0 THEN quo(ll.Cumul, ll.Weight) ELSE -1

===============================================================================
