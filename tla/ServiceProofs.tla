----------------------------- MODULE ServiceProofs -----------------------------
(***************************************************************************)
(* Proof that LatLearn implements Service: with any number of goroutines   *)
(* that race in a channel of any capacity, every call takes effect at one  *)
(* moment between its being made and its return.                           *)
(***************************************************************************)
EXTENDS LatLearnService, ChannelProofs, Induction

-------------------------------------------------------------------------------
(***************************************************************************)
(* Registries as values, and what a sample makes of one.                   *)
(***************************************************************************)
Registries == [learners : [Keys -> Reg!Learner], tracked_spans : Seq(Keys),
               submitted : [Names -> Nat], total : [Keys -> Int]]

Accountable(m) == m.name \in Names /\ m.variant \in Variants /\ m.dur \in Durs

key_of(m) == Reg!span_key_form(m.name, m.variant)

\* The row after it has been looked up.
made(ll, kind) == IF ll.kind = "none" THEN Reg!fresh(kind) ELSE ll

LEMMA KeyOf ==
  ASSUME NEW m, Accountable(m)
  PROVE  /\ m.name \in Keys /\ key_of(m) \in Keys /\ m.dur \in Reg!Int64
         /\ m.variant = "" <=> key_of(m) = m.name
<1>1. /\ Durs \subseteq Reg!Int64
      /\ \A n \in Names, v \in Variants \ {""} : Reg!span_key_form(n, v) # n
  BY LatLearnAssumption DEF Reg!ConstantsOK
<1>2. m.name \in Keys
  BY NameIsKey DEF Accountable
<1>3. key_of(m) \in Keys
  BY DEF key_of, Accountable, Keys, Reg!Keys
<1>4. m.variant = "" => key_of(m) = m.name
  BY DEF key_of, Reg!span_key_form
<1> QED BY <1>1, <1>2, <1>3, <1>4 DEF Accountable, key_of

LEMMA RowKept ==
  ASSUME NEW ll \in Reg!Learner, NEW d \in Reg!Int64
  PROVE  Reg!after2(ll, d) \in Reg!Learner /\ Reg!after2(ll, d).kind = ll.kind
<1> DEFINE lo == IF ll.Pair_ever_completed /\ ~(d < ll.Min) THEN ll.Min ELSE d
           hi == IF ll.Pair_ever_completed /\ ~(d > ll.Max) THEN ll.Max ELSE d
           cu == Reg!add64(ll.Cumul, d)
           wt == ll.Weight + 1
<1>1. cu \in Reg!Int64
  <2>1. \A a, b : RP!add64(a, b) = Reg!add64(a, b)
    BY DEF RP!add64, Reg!add64, RP!Modulus, Reg!Modulus, RP!MinInt64, Reg!MinInt64
  <2>2. ll.Cumul \in RP!Int64 /\ d \in RP!Int64
    BY SameRows DEF Reg!Learner
  <2> QED BY <2>1, <2>2, RP!Add64, SameConstants, SameRows
<1>2. lo \in Reg!Int64 /\ hi \in Reg!Int64 /\ wt \in Nat
  BY DEF Reg!Learner
<1>3. Reg!after2(ll, d) = [ll EXCEPT !.Last = d, !.Cumul = cu, !.Weight = wt,
                                     !.Min = lo, !.Max = hi, !.Pair_ever_completed = TRUE]
  BY DEF Reg!after2
<1> HIDE DEF lo, hi, cu, wt
<1> QED BY <1>1, <1>2, <1>3 DEF Reg!Learner

LEMMA MadeTyped ==
  ASSUME NEW ll \in Reg!Learner, NEW kind \in {"LL", "VLL"}
  PROVE  made(ll, kind) \in Reg!Learner /\ made(ll, kind).kind # "none"
<1>1. Reg!fresh(kind) \in Reg!Learner /\ Reg!fresh(kind).kind = kind
  BY RP!Fresh, SameConstants, SameRows
<1> QED BY <1>1 DEF made

\* handled, row by row: H is what m makes of R.
Handles(H, R, m) ==
  LET name == m.name
      key  == key_of(m)
      T    == IF Reg!found(R.learners, name) THEN R.tracked_spans ELSE Append(R.tracked_spans, name)
      kind == IF m.variant = "" THEN "LL" ELSE "VLL"
  IN /\ H.submitted = [R.submitted EXCEPT ![name] = @ + 1]
     /\ H.tracked_spans = IF m.variant = "" \/ Reg!found(R.learners, key) THEN T ELSE Append(T, key)
     /\ \A k \in Keys \ {name, key} : H.learners[k] = R.learners[k] /\ H.total[k] = R.total[k]
     /\ IF m.variant # "" /\ R.learners[key].kind = "LL"
        THEN /\ H.learners[name] = made(R.learners[name], "LL")
             /\ H.learners[key] = R.learners[key]
             /\ H.total[name] = R.total[name] /\ H.total[key] = R.total[key]
        ELSE /\ H.learners[name] = Reg!after2(made(R.learners[name], "LL"), m.dur)
             /\ H.learners[key] = Reg!after2(made(R.learners[key], kind), m.dur)
             /\ H.total[name] = R.total[name] + m.dur
             /\ H.total[key] = R.total[key] + m.dur

Shaped(H) ==
  /\ H = [learners |-> H.learners, tracked_spans |-> H.tracked_spans,
          submitted |-> H.submitted, total |-> H.total]
  /\ H.learners = [k \in Keys |-> H.learners[k]]
  /\ H.total = [k \in Keys |-> H.total[k]]

LEMMA HandledShape ==
  ASSUME NEW R \in Registries, NEW m, Accountable(m)
  PROVE  Shaped(handled(R, m)) /\ Handles(handled(R, m), R, m)
<1> DEFINE name == m.name
           key == key_of(m)
           L == R.learners
           named == Reg!ensure(L, name, "LL")
           both == IF m.variant = "" THEN named ELSE Reg!ensure(named, key, "VLL")
           vain == m.variant # "" /\ named[key].kind = "LL"
           rows == IF vain THEN {} ELSE {name, key}
           T == Reg!track(R.tracked_spans, L, name)
<1>1. /\ name \in Keys /\ key \in Keys /\ (m.variant = "" <=> key = name)
      /\ L \in [Keys -> Reg!Learner] /\ R.total \in [Keys -> Int] /\ m.dur \in Int
  <2>1. Reg!Int64 \subseteq Int
    BY DEF Reg!Int64
  <2> QED BY <2>1, KeyOf DEF Registries
<1>2. \A k \in Keys : named[k] = IF k = name THEN made(L[k], "LL") ELSE L[k]
  BY <1>1 DEF Reg!ensure, Reg!found, made
<1>3. named \in [Keys -> Reg!Learner] /\ \A k \in Keys : Reg!found(named, k) <=> Reg!found(L, k) \/ k = name
  <2>1. DOMAIN named = Keys /\ named = [k \in Keys |-> named[k]]
    BY <1>1 DEF Reg!ensure
  <2>2. \A k \in Keys : named[k] \in Reg!Learner /\ (k = name => named[k].kind # "none")
    BY <1>1, <1>2, MadeTyped
  <2> HIDE DEF named
  <2> QED BY <2>1, <2>2, <1>2 DEF Reg!found
<1>4. \A k \in Keys : both[k] = IF k = key /\ m.variant # "" THEN made(named[k], "VLL") ELSE named[k]
  BY <1>1, <1>3 DEF Reg!ensure, Reg!found, made
<1>5. vain <=> m.variant # "" /\ L[key].kind = "LL"
  BY <1>1, <1>2
<1>6. handled(R, m) =
        [learners      |-> [k \in Keys |-> IF k \in rows THEN Reg!after2(both[k], m.dur) ELSE both[k]],
         tracked_spans |-> IF m.variant = "" THEN T ELSE Reg!track(T, named, key),
         submitted     |-> [R.submitted EXCEPT ![m.name] = @ + 1],
         total         |-> [k \in Keys |-> R.total[k] + IF k \in rows THEN m.dur ELSE 0]]
  BY DEF handled, key_of, Reg!rows
<1> DEFINE H == handled(R, m)
<1>7. /\ \A k \in Keys : H.learners[k] = IF k \in rows THEN Reg!after2(both[k], m.dur) ELSE both[k]
      /\ \A k \in Keys : H.total[k] = R.total[k] + IF k \in rows THEN m.dur ELSE 0
      /\ H.submitted = [R.submitted EXCEPT ![name] = @ + 1]
      /\ H.tracked_spans = IF m.variant = "" THEN T ELSE Reg!track(T, named, key)
      /\ H.learners = [k \in Keys |-> H.learners[k]]
      /\ H.total = [k \in Keys |-> H.total[k]]
      /\ H = [learners |-> H.learners, tracked_spans |-> H.tracked_spans,
              submitted |-> H.submitted, total |-> H.total]
  <2> DEFINE A == [k \in Keys |-> IF k \in rows THEN Reg!after2(both[k], m.dur) ELSE both[k]]
             B == [k \in Keys |-> R.total[k] + IF k \in rows THEN m.dur ELSE 0]
             C == IF m.variant = "" THEN T ELSE Reg!track(T, named, key)
             D == [R.submitted EXCEPT ![m.name] = @ + 1]
  <2>1. H = [learners |-> A, tracked_spans |-> C, submitted |-> D, total |-> B]
    BY <1>6
  <2> HIDE DEF A, B, C, D, H
  <2>2. H.learners = A /\ H.tracked_spans = C /\ H.submitted = D /\ H.total = B
    BY <2>1
  <2>3. H = [learners |-> H.learners, tracked_spans |-> H.tracked_spans,
             submitted |-> H.submitted, total |-> H.total]
    BY <2>1, <2>2
  <2> HIDE DEF rows, both
  <2>4. A = [k \in Keys |-> A[k]] /\ B = [k \in Keys |-> B[k]]
    BY DEF A, B
  <2>5. /\ \A k \in Keys : A[k] = IF k \in rows THEN Reg!after2(both[k], m.dur) ELSE both[k]
        /\ \A k \in Keys : B[k] = R.total[k] + IF k \in rows THEN m.dur ELSE 0
    BY DEF A, B
  <2> QED BY <2>2, <2>3, <2>4, <2>5 DEF C, D
<1> HIDE DEF H, named, both, vain, T
<1>8. H.tracked_spans =
        IF m.variant = "" \/ Reg!found(L, key)
        THEN IF Reg!found(L, name) THEN R.tracked_spans ELSE Append(R.tracked_spans, name)
        ELSE Append(IF Reg!found(L, name) THEN R.tracked_spans ELSE Append(R.tracked_spans, name), key)
  BY <1>1, <1>3, <1>7 DEF T, Reg!track
<1>9. ASSUME NEW k \in Keys \ {name, key}
      PROVE  H.learners[k] = L[k] /\ H.total[k] = R.total[k]
  <2>1. k \notin rows /\ both[k] = L[k] /\ R.total[k] \in Int
    BY <1>1, <1>2, <1>4
  <2>2. /\ H.learners[k] = IF k \in rows THEN Reg!after2(both[k], m.dur) ELSE both[k]
        /\ H.total[k] = R.total[k] + IF k \in rows THEN m.dur ELSE 0
    BY <1>7
  <2> HIDE DEF rows, L
  <2> QED BY <2>1, <2>2
<1>10. CASE vain
  <2>1. m.variant # "" /\ L[key].kind = "LL" /\ key # name
    BY <1>1, <1>5, <1>10
  <2>2. named[key] = L[key] /\ both[key] = L[key] /\ both[name] = made(L[name], "LL")
    BY <2>1, <1>1, <1>2, <1>4 DEF made
  <2>3. H.learners[name] = both[name] /\ H.learners[key] = both[key]
        /\ H.total[name] = R.total[name] /\ H.total[key] = R.total[key]
    <3>1. rows = {} /\ R.total[name] \in Int /\ R.total[key] \in Int
      BY <1>1, <1>10
    <3>2. \A k \in {name, key} :
            /\ H.learners[k] = IF k \in rows THEN Reg!after2(both[k], m.dur) ELSE both[k]
            /\ H.total[k] = R.total[k] + IF k \in rows THEN m.dur ELSE 0
      BY <1>1, <1>7
    <3> HIDE DEF rows, name, key
    <3> QED BY <3>1, <3>2
  <2> QED BY <2>1, <2>2, <2>3, <1>7, <1>8, <1>9 DEF H, Shaped, Handles
<1>11. CASE ~vain
  <2>1. ~(m.variant # "" /\ L[key].kind = "LL")
    BY <1>5, <1>11
  <2>2. /\ both[name] = made(L[name], "LL")
        /\ both[key] = made(L[key], IF m.variant = "" THEN "LL" ELSE "VLL")
    BY <1>1, <1>2, <1>4
  <2>3. /\ H.learners[name] = Reg!after2(both[name], m.dur)
        /\ H.learners[key] = Reg!after2(both[key], m.dur)
        /\ H.total[name] = R.total[name] + m.dur /\ H.total[key] = R.total[key] + m.dur
    BY <1>1, <1>7, <1>11
  <2> QED BY <2>1, <2>2, <2>3, <1>7, <1>8, <1>9 DEF H, Shaped, Handles
<1> QED BY <1>10, <1>11

LEMMA HandledTyped ==
  ASSUME NEW R \in Registries, NEW m, Accountable(m)
  PROVE  /\ handled(R, m) \in Registries
         /\ \A k \in Keys : Reg!found(R.learners, k) => Reg!found(handled(R, m).learners, k)
<1> DEFINE H == handled(R, m)
           name == m.name
           key == key_of(m)
<1>1. /\ name \in Keys /\ key \in Keys /\ m.dur \in Reg!Int64 /\ name \in Names /\ m.dur \in Int
      /\ R.learners \in [Keys -> Reg!Learner] /\ R.total \in [Keys -> Int]
      /\ R.tracked_spans \in Seq(Keys) /\ R.submitted \in [Names -> Nat]
  <2>1. Reg!Int64 \subseteq Int
    BY DEF Reg!Int64
  <2>2. m.name \in Names
    BY DEF Accountable
  <2>3. /\ R.learners \in [Keys -> Reg!Learner] /\ R.total \in [Keys -> Int]
        /\ R.tracked_spans \in Seq(Keys) /\ R.submitted \in [Names -> Nat]
    BY DEF Registries
  <2> QED BY <2>1, <2>2, <2>3, KeyOf
<1>2. /\ H = [learners |-> H.learners, tracked_spans |-> H.tracked_spans,
              submitted |-> H.submitted, total |-> H.total]
      /\ H.learners = [k \in Keys |-> H.learners[k]]
      /\ H.total = [k \in Keys |-> H.total[k]]
      /\ H.submitted = [R.submitted EXCEPT ![name] = @ + 1]
  BY HandledShape DEF Shaped, Handles
<1>3. H.tracked_spans \in Seq(Keys)
  <2> DEFINE T == IF Reg!found(R.learners, name) THEN R.tracked_spans ELSE Append(R.tracked_spans, name)
  <2>1. T \in Seq(Keys)
    BY <1>1, AppendProperties
  <2>2. H.tracked_spans = T \/ H.tracked_spans = Append(T, key)
    BY HandledShape, Zenon DEF Handles
  <2> HIDE DEF T, H, key
  <2>3. key \in Keys
    BY <1>1
  <2>4. Append(T, key) \in Seq(Keys)
    BY <2>1, <2>3
  <2> QED BY <2>1, <2>2, <2>4
<1>4. ASSUME NEW k \in Keys
      PROVE  /\ H.learners[k] \in Reg!Learner /\ H.total[k] \in Int
             /\ R.learners[k].kind # "none" => H.learners[k].kind # "none"
  <2> DEFINE kind == IF m.variant = "" THEN "LL" ELSE "VLL"
             L == R.learners
             named == made(L[name], "LL")
             keyed == made(L[key], kind)
  <2>1. named \in Reg!Learner /\ named.kind # "none" /\ keyed \in Reg!Learner /\ keyed.kind # "none"
    BY <1>1, MadeTyped
  <2>2. \A ll \in Reg!Learner : /\ Reg!after2(ll, m.dur) \in Reg!Learner
                                 /\ Reg!after2(ll, m.dur).kind = ll.kind
    BY <1>1, RowKept
  <2>3. /\ \A j \in Keys \ {name, key} : H.learners[j] = L[j] /\ H.total[j] = R.total[j]
        /\ \/ /\ H.learners[name] = named /\ H.learners[key] = L[key]
              /\ H.total[name] = R.total[name] /\ H.total[key] = R.total[key]
           \/ /\ H.learners[name] = Reg!after2(named, m.dur)
              /\ H.learners[key] = Reg!after2(keyed, m.dur)
              /\ H.total[name] = R.total[name] + m.dur
              /\ H.total[key] = R.total[key] + m.dur
    BY HandledShape, Zenon DEF Handles
  <2>4. L \in [Keys -> Reg!Learner]
    BY <1>1
  <2> HIDE DEF H, name, key, named, keyed, L
  <2>5. CASE k \notin {name, key}
    BY <2>3, <2>4, <2>5, <1>1 DEF L
  <2>6. CASE k = name
    BY <2>1, <2>2, <2>3, <2>6, <1>1
  <2>7. CASE k = key
    BY <2>1, <2>2, <2>3, <2>4, <2>7, <1>1 DEF L
  <2> QED BY <2>5, <2>6, <2>7
<1> HIDE DEF H
<1>5. H.learners \in [Keys -> Reg!Learner] /\ H.total \in [Keys -> Int] /\ H.submitted \in [Names -> Nat]
  BY <1>1, <1>2, <1>4
<1>6. H \in Registries
  BY <1>2, <1>3, <1>5 DEF Registries
<1> QED BY <1>4, <1>6 DEF H, Reg!found

-------------------------------------------------------------------------------
(***************************************************************************)
(* A sample that serve counts by itself passes the samples in the channel  *)
(* and changes nothing for them, if theirs are other rows.                 *)
(***************************************************************************)
own_sample(b, d) == sample_msg(None, b, no_variant, d, None)

LEMMA OwnAccountable ==
  ASSUME NEW b \in Names, NEW d \in Durs
  PROVE  /\ Accountable(own_sample(b, d)) /\ own_sample(b, d).name = b
         /\ own_sample(b, d).variant = "" /\ own_sample(b, d).dur = d
         /\ key_of(own_sample(b, d)) = b
<1>1. /\ own_sample(b, d).name = b /\ own_sample(b, d).variant = ""
      /\ own_sample(b, d).dur = d
  BY DEF own_sample, sample_msg, no_variant
<1>2. Accountable(own_sample(b, d))
  BY <1>1, NoVariant DEF Accountable, no_variant
<1> QED BY <1>1, <1>2, KeyOf

\* H is what a sample of duration d for the own row b makes of R.
CountsOwn(H, R, b, d) ==
  /\ H.tracked_spans = R.tracked_spans
  /\ H.submitted = [R.submitted EXCEPT ![b] = @ + 1]
  /\ H.learners[b] = Reg!after2(R.learners[b], d) /\ H.total[b] = R.total[b] + d
  /\ \A k \in Keys \ {b} : H.learners[k] = R.learners[k] /\ H.total[k] = R.total[k]

LEMMA OwnShape ==
  ASSUME NEW R \in Registries, NEW b \in Names, NEW d \in Durs, Reg!found(R.learners, b)
  PROVE  CountsOwn(handled(R, own_sample(b, d)), R, b, d)
<1> DEFINE o == own_sample(b, d)
           H == handled(R, o)
<1>1. /\ Accountable(o) /\ o.name = b /\ o.variant = "" /\ o.dur = d /\ key_of(o) = b
  BY OwnAccountable
<1>2. made(R.learners[b], "LL") = R.learners[b]
  BY DEF made, Reg!found
<1> HIDE DEF o
<1>3. Handles(H, R, o)
  BY <1>1, HandledShape
<1> HIDE DEF H
<1>4. CountsOwn(H, R, b, d)
  BY <1>1, <1>2, <1>3 DEF Handles, CountsOwn
<1> QED BY <1>4 DEF o, H

\* Registries are the same when all their parts are.
LEMMA SameRegistry ==
  ASSUME NEW R \in Registries, NEW Q \in Registries,
         R.tracked_spans = Q.tracked_spans, R.submitted = Q.submitted,
         \A k \in Keys : R.learners[k] = Q.learners[k] /\ R.total[k] = Q.total[k]
  PROVE  R = Q
<1>1. R.learners = Q.learners
  BY DEF Registries
<1>2. R.total = Q.total
  BY DEF Registries
<1>3. ASSUME NEW S \in Registries
      PROVE  S = [learners |-> S.learners, tracked_spans |-> S.tracked_spans,
                  submitted |-> S.submitted, total |-> S.total]
  BY DEF Registries
<1>4. /\ R = [learners |-> R.learners, tracked_spans |-> R.tracked_spans,
              submitted |-> R.submitted, total |-> R.total]
      /\ Q = [learners |-> Q.learners, tracked_spans |-> Q.tracked_spans,
              submitted |-> Q.submitted, total |-> Q.total]
  BY <1>3
<1> QED BY <1>1, <1>2, <1>4

LEMMA Commute ==
  ASSUME NEW R \in Registries, NEW m, Accountable(m),
         NEW b \in Names, NEW d \in Durs, Reg!found(R.learners, b), b \notin {m.name, key_of(m)}
  PROVE  handled(handled(R, m), own_sample(b, d)) = handled(handled(R, own_sample(b, d)), m)
<1> DEFINE o == own_sample(b, d)
           name == m.name
           key == key_of(m)
           M == handled(R, m)
           O == handled(R, o)
           MO == handled(M, o)
           OM == handled(O, m)
<1>1. Accountable(o) /\ b \in Keys /\ name \in Keys /\ key \in Keys /\ name \in Names
  BY OwnAccountable, KeyOf, NameIsKey DEF Accountable
<1>2. /\ M \in Registries /\ O \in Registries /\ Reg!found(M.learners, b)
      /\ MO \in Registries /\ OM \in Registries
  BY <1>1, HandledTyped
<1>3. CountsOwn(O, R, b, d)
  BY OwnShape
<1>4. CountsOwn(MO, M, b, d)
  <2> HIDE DEF M
  <2> QED BY <1>2, OwnShape
<1>5. Handles(M, R, m)
  BY HandledShape
<1>6. Handles(OM, O, m)
  <2> HIDE DEF O
  <2> QED BY <1>2, HandledShape
<1> HIDE DEF o, O, M, OM, MO
<1>7. /\ O.learners[name] = R.learners[name] /\ O.total[name] = R.total[name]
      /\ O.learners[key] = R.learners[key] /\ O.total[key] = R.total[key]
      /\ Reg!found(O.learners, name) <=> Reg!found(R.learners, name)
      /\ Reg!found(O.learners, key) <=> Reg!found(R.learners, key)
  BY <1>1, <1>3 DEF Reg!found, CountsOwn
<1>8. OM.tracked_spans = MO.tracked_spans
  <2> DEFINE T(Q) == IF Reg!found(Q.learners, name) THEN Q.tracked_spans
                     ELSE Append(Q.tracked_spans, name)
             TT(Q) == IF m.variant = "" \/ Reg!found(Q.learners, key) THEN T(Q) ELSE Append(T(Q), key)
  <2>1. M.tracked_spans = TT(R) /\ OM.tracked_spans = TT(O)
    BY <1>5, <1>6, Zenon DEF Handles
  <2>2. O.tracked_spans = R.tracked_spans /\ MO.tracked_spans = M.tracked_spans
    BY <1>3, <1>4 DEF CountsOwn
  <2>3. TT(O) = TT(R)
    BY <1>7, <2>2
  <2> HIDE DEF TT
  <2> QED BY <2>1, <2>2, <2>3
<1>9. OM.submitted = MO.submitted
  <2>1. R.submitted \in [Names -> Nat] /\ b # name
    BY DEF Registries
  <2>2. /\ O.submitted = [R.submitted EXCEPT ![b] = @ + 1]
        /\ MO.submitted = [M.submitted EXCEPT ![b] = @ + 1]
    BY <1>3, <1>4 DEF CountsOwn
  <2>3. /\ M.submitted = [R.submitted EXCEPT ![name] = @ + 1]
        /\ OM.submitted = [O.submitted EXCEPT ![name] = @ + 1]
    BY <1>5, <1>6, Zenon DEF Handles
  <2> HIDE DEF name
  <2> QED BY <2>1, <2>2, <2>3, <1>1
<1>10. ASSUME NEW k \in Keys \ {b, name, key}
       PROVE  OM.learners[k] = MO.learners[k] /\ OM.total[k] = MO.total[k]
  <2>1. /\ M.learners[k] = R.learners[k] /\ M.total[k] = R.total[k]
        /\ OM.learners[k] = O.learners[k] /\ OM.total[k] = O.total[k]
    BY <1>5, <1>6, Zenon DEF Handles
  <2>2. /\ O.learners[k] = R.learners[k] /\ O.total[k] = R.total[k]
        /\ MO.learners[k] = M.learners[k] /\ MO.total[k] = M.total[k]
    BY <1>3, <1>4 DEF CountsOwn
  <2> QED BY <2>1, <2>2
<1>11. OM.learners[b] = MO.learners[b] /\ OM.total[b] = MO.total[b]
  BY <1>1, <1>3, <1>4, <1>5, <1>6 DEF CountsOwn, Handles
<1>12. ASSUME NEW k \in {name, key}
       PROVE  OM.learners[k] = MO.learners[k] /\ OM.total[k] = MO.total[k]
  <2>1. /\ MO.learners[name] = M.learners[name] /\ MO.total[name] = M.total[name]
        /\ MO.learners[key] = M.learners[key] /\ MO.total[key] = M.total[key]
    BY <1>1, <1>4 DEF CountsOwn
  <2>2. /\ OM.learners[name] = M.learners[name] /\ OM.total[name] = M.total[name]
        /\ OM.learners[key] = M.learners[key] /\ OM.total[key] = M.total[key]
    <3> DEFINE kind == IF m.variant = "" THEN "LL" ELSE "VLL"
               Adds(H, Q) ==
                 IF m.variant # "" /\ Q.learners[key].kind = "LL"
                 THEN /\ H.learners[name] = made(Q.learners[name], "LL")
                      /\ H.learners[key] = Q.learners[key]
                      /\ H.total[name] = Q.total[name] /\ H.total[key] = Q.total[key]
                 ELSE /\ H.learners[name] = Reg!after2(made(Q.learners[name], "LL"), m.dur)
                      /\ H.learners[key] = Reg!after2(made(Q.learners[key], kind), m.dur)
                      /\ H.total[name] = Q.total[name] + m.dur
                      /\ H.total[key] = Q.total[key] + m.dur
    <3>1. Adds(M, R) /\ Adds(OM, O)
      BY <1>5, <1>6, Zenon DEF Handles
    <3> HIDE DEF kind, name, key
    <3> QED BY <3>1, <1>7
  <2> QED BY <2>1, <2>2
<1>13. \A k \in Keys : OM.learners[k] = MO.learners[k] /\ OM.total[k] = MO.total[k]
  BY <1>10, <1>11, <1>12
<1>14. MO = OM
  BY <1>2, <1>8, <1>9, <1>13, SameRegistry
<1> QED BY <1>14 DEF O, M, OM, MO, o

-------------------------------------------------------------------------------
(***************************************************************************)
(* What the messages of a queue make of a registry, one after the other.   *)
(***************************************************************************)
settle(R, m) == IF m.ttype = "A" THEN handled(R, m) ELSE R

\* f is the list of registries that the first n messages of q make of R.
Listed(f, R, q, n) == f = [i \in 0 .. n |-> IF i = 0 THEN R ELSE settle(f[i - 1], q[i])]

\* The same without the domain.
Drains(f, R, q, n) ==
  f[0] = R /\ \A i \in 1 .. n : f[i] = settle(f[i - 1], q[i])

LEMMA SomethingDrains ==
  ASSUME NEW R, NEW q, NEW n \in Nat
  PROVE  \E f : Listed(f, R, q, n)
<1> DEFINE F(f, k) == Listed(f, R, q, k)
           S == {k \in Nat : \E f : F(f, k)}
<1>1. 0 \in S
  <2>1. F([i \in 0 .. 0 |-> R], 0)
    BY DEF Listed
  <2> QED BY <2>1
<1>2. ASSUME NEW k \in Nat, k \in S PROVE k + 1 \in S
  <2>1. PICK f : f = [i \in 0 .. k |-> IF i = 0 THEN R ELSE settle(f[i - 1], q[i])]
    BY <1>2 DEF Listed
  <2> DEFINE g == [i \in 0 .. k + 1 |-> IF i <= k THEN f[i] ELSE settle(f[k], q[k + 1])]
  <2>2. \A i \in 0 .. k + 1 : g[i] = IF i = 0 THEN R ELSE settle(g[i - 1], q[i])
    <3> SUFFICES ASSUME NEW i \in 0 .. k + 1 PROVE g[i] = IF i = 0 THEN R ELSE settle(g[i - 1], q[i])
      OBVIOUS
    <3>1. CASE i = 0
      BY <2>1, <3>1
    <3>2. CASE i \in 1 .. k
      <4>1. g[i] = f[i] /\ g[i - 1] = f[i - 1] /\ i \in 0 .. k /\ i # 0
        BY <3>2
      <4> QED BY <2>1, <4>1
    <3>3. CASE i = k + 1
      <4>1. g[i] = settle(f[k], q[k + 1]) /\ g[i - 1] = f[k] /\ i # 0
        BY <3>3
      <4> QED BY <3>3, <4>1
    <3> QED BY <3>1, <3>2, <3>3
  <2>3. F(g, k + 1)
    <3>1. g = [i \in 0 .. k + 1 |-> g[i]]
      OBVIOUS
    <3> HIDE DEF g
    <3> QED BY <2>2, <3>1 DEF Listed
  <2> HIDE DEF F, g
  <2>4. \E h : F(h, k + 1)
    BY <2>3
  <2> QED BY <2>4
<1> HIDE DEF S
<1>3. n \in S
  BY <1>1, <1>2, SetInduction
<1> QED BY <1>3 DEF S

LEMMA Drained ==
  ASSUME NEW R, NEW q, Len(q) \in Nat
  PROVE  Drains(drained(R, q), R, q, Len(q))
<1>1. \E f : Listed(f, R, q, Len(q))
  BY SomethingDrains
<1>2. drained(R, q) = CHOOSE f : Listed(f, R, q, Len(q))
  BY DEF drained, settle, Listed
<1>3. Listed(drained(R, q), R, q, Len(q))
  BY <1>1, <1>2
<1> QED BY <1>3 DEF Drains, Listed

LEMMA OneDrain ==
  ASSUME NEW f, NEW g, NEW R, NEW q, NEW n \in Nat, Drains(f, R, q, n), Drains(g, R, q, n)
  PROVE  \A i \in 0 .. n : f[i] = g[i]
<1> DEFINE S == {i \in Nat : i <= n => f[i] = g[i]}
<1>1. 0 \in S
  BY DEF Drains
<1>2. ASSUME NEW i \in Nat, i \in S PROVE i + 1 \in S
  BY <1>2 DEF Drains
<1> HIDE DEF S
<1>3. Nat \subseteq S
  BY <1>1, <1>2, SetInduction
<1> QED BY <1>3 DEF S

\* The samples in q are accountable, and only add to a registry.
LEMMA DrainTyped ==
  ASSUME NEW R \in Registries, NEW q, Len(q) \in Nat, \A k \in 1 .. Len(q) : SampleOK(q[k])
  PROVE  \A i \in 0 .. Len(q) :
           /\ drained(R, q)[i] \in Registries
           /\ \A k \in Keys : Reg!found(R.learners, k) => Reg!found(drained(R, q)[i].learners, k)
<1> DEFINE D == drained(R, q)
           Good(Q) == /\ Q \in Registries
                      /\ \A k \in Keys : Reg!found(R.learners, k) => Reg!found(Q.learners, k)
           S == {i \in Nat : i <= Len(q) => Good(D[i])}
<1>1. Drains(D, R, q, Len(q))
  BY Drained
<1>2. ASSUME NEW Q, Good(Q), NEW m, SampleOK(m) PROVE Good(settle(Q, m))
  BY <1>2, HandledTyped DEF settle, SampleOK, Accountable
<1> HIDE DEF D
<1>3. 0 \in S
  BY <1>1 DEF Drains
<1>4. ASSUME NEW i \in Nat, i \in S PROVE i + 1 \in S
  <2> SUFFICES ASSUME i + 1 <= Len(q) PROVE Good(D[i + 1])
    OBVIOUS
  <2>1. Good(D[i]) /\ SampleOK(q[i + 1])
    BY <1>4
  <2>2. D[i + 1] = settle(D[i], q[i + 1])
    <3>1. i + 1 \in 1 .. Len(q) /\ (i + 1) - 1 = i
      OBVIOUS
    <3> QED BY <3>1, <1>1 DEF Drains
  <2> HIDE DEF Good
  <2> QED BY <2>1, <2>2, <1>2
<1> HIDE DEF S
<1>5. Nat \subseteq S
  BY <1>3, <1>4, SetInduction
<1> QED BY <1>5 DEF S, D

LEMMA DrainAppend ==
  ASSUME NEW R, NEW q \in Seq(Msg), NEW m \in Msg
  PROVE  /\ Len(Append(q, m)) = Len(q) + 1
         /\ \A i \in 0 .. Len(q) : drained(R, Append(q, m))[i] = drained(R, q)[i]
         /\ drained(R, Append(q, m))[Len(q) + 1] = settle(drained(R, q)[Len(q)], m)
<1> DEFINE a == Append(q, m)
           n == Len(q)
           D == drained(R, q)
           A == drained(R, a)
<1>1. /\ n \in Nat /\ Len(a) = n + 1 /\ a[n + 1] = m
      /\ \A i \in 1 .. n : a[i] = q[i]
  BY AppendProperties
<1>2. Drains(D, R, q, n) /\ Drains(A, R, a, n + 1)
  <2>1. Drains(D, R, q, n)
    BY Drained
  <2>2. Drains(A, R, a, Len(a))
    <3> HIDE DEF a
    <3> QED BY <1>1, Drained
  <2> QED BY <2>1, <2>2, <1>1
<1> HIDE DEF a, n, D, A
<1>3. Drains(A, R, q, n)
  BY <1>1, <1>2 DEF Drains
<1>4. \A i \in 0 .. n : A[i] = D[i]
  BY <1>1, <1>2, <1>3, OneDrain
<1>5. A[n + 1] = settle(A[n], m)
  <2>1. n + 1 \in 1 .. n + 1 /\ (n + 1) - 1 = n
    BY <1>1
  <2> QED BY <2>1, <1>1, <1>2 DEF Drains
<1>6. A[n] = D[n]
  BY <1>1, <1>4
<1> QED BY <1>1, <1>4, <1>5, <1>6 DEF a, n, D, A

LEMMA DrainTail ==
  ASSUME NEW R, NEW q \in Seq(Msg), q # << >>
  PROVE  /\ Len(Tail(q)) = Len(q) - 1 /\ Len(q) > 0
         /\ \A i \in 0 .. Len(Tail(q)) :
              drained(settle(R, Head(q)), Tail(q))[i] = drained(R, q)[i + 1]
<1> DEFINE t == Tail(q)
           n == Len(t)
           D == drained(R, q)
           T == drained(settle(R, Head(q)), t)
           F == [i \in 0 .. n |-> D[i + 1]]
<1>1. /\ n \in Nat /\ Len(q) = n + 1 /\ Head(q) = q[1]
      /\ \A i \in 1 .. n : t[i] = q[i + 1]
  BY HeadTailProperties
<1>2. Drains(D, R, q, n + 1) /\ Drains(T, settle(R, Head(q)), t, n)
  <2>1. Drains(D, R, q, Len(q))
    BY Drained
  <2>2. Drains(T, settle(R, Head(q)), t, n)
    <3> HIDE DEF t
    <3> QED BY <1>1, Drained
  <2> QED BY <2>1, <2>2, <1>1
<1> HIDE DEF t, n, D, T
<1>3. Drains(F, settle(R, Head(q)), t, n)
  <2>1. F[0] = settle(R, Head(q))
    <3>1. 1 \in 1 .. n + 1 /\ 0 \in 0 .. n /\ 1 - 1 = 0 /\ 0 + 1 = 1
      BY <1>1
    <3>2. D[1] = settle(D[1 - 1], q[1]) /\ D[0] = R
      BY <3>1, <1>2 DEF Drains
    <3>3. F[0] = D[0 + 1]
      BY <3>1
    <3> QED BY <3>1, <3>2, <3>3, <1>1
  <2>2. ASSUME NEW i \in 1 .. n PROVE F[i] = settle(F[i - 1], t[i])
    <3>1. i + 1 \in 1 .. n + 1 /\ i \in 0 .. n /\ i - 1 \in 0 .. n /\ (i - 1) + 1 = (i + 1) - 1
      BY <1>1
    <3>2. D[i + 1] = settle(D[(i + 1) - 1], q[i + 1])
      BY <3>1, <1>2 DEF Drains
    <3>3. F[i] = D[i + 1] /\ F[i - 1] = D[(i - 1) + 1]
      BY <3>1
    <3> QED BY <3>1, <3>2, <3>3, <1>1
  <2> QED BY <2>1, <2>2 DEF Drains
<1>4. \A i \in 0 .. n : F[i] = T[i]
  <2> HIDE DEF F
  <2> QED BY <1>1, <1>2, <1>3, OneDrain
<1> QED BY <1>1, <1>4 DEF t, n, D, T

\* A sample of the own row b before the queue or behind it: the same.
LEMMA DrainOwn ==
  ASSUME NEW R \in Registries, NEW q, Len(q) \in Nat,
         NEW b \in Names, NEW d \in Durs, Reg!found(R.learners, b),
         \A k \in 1 .. Len(q) :
           SampleOK(q[k]) /\ (q[k].ttype = "A" => b \notin {q[k].name, key_of(q[k])})
  PROVE  \A i \in 0 .. Len(q) :
           drained(handled(R, own_sample(b, d)), q)[i] = handled(drained(R, q)[i], own_sample(b, d))
<1> DEFINE o == own_sample(b, d)
           n == Len(q)
           D == drained(R, q)
           O == drained(handled(R, o), q)
           F == [i \in 0 .. n |-> handled(D[i], o)]
<1>1. Drains(D, R, q, n) /\ Drains(O, handled(R, o), q, n)
  BY Drained
<1>2. \A i \in 0 .. n : D[i] \in Registries /\ Reg!found(D[i].learners, b)
  BY DrainTyped, NameIsKey
<1> HIDE DEF n, D, O
<1>3. Drains(F, handled(R, o), q, n)
  <2>1. F[0] = handled(R, o)
    BY <1>1 DEF Drains, n
  <2>2. ASSUME NEW i \in 1 .. n PROVE F[i] = settle(F[i - 1], q[i])
    <3> DEFINE Q == D[i - 1]
               m == q[i]
    <3>1. i \in 0 .. n /\ i - 1 \in 0 .. n
      BY DEF n
    <3>2. F[i] = handled(D[i], o) /\ F[i - 1] = handled(Q, o) /\ D[i] = settle(Q, m)
      BY <3>1, <1>1 DEF Drains
    <3>3. /\ Q \in Registries /\ Reg!found(Q.learners, b)
          /\ SampleOK(m) /\ (m.ttype = "A" => b \notin {m.name, key_of(m)})
      BY <3>1, <1>2 DEF n
    <3> HIDE DEF Q, m, F
    <3>4. CASE m.ttype = "A"
      <4>1. handled(handled(Q, m), o) = handled(handled(Q, o), m)
        BY <3>3, <3>4, Commute DEF SampleOK, Accountable
      <4> QED BY <4>1, <3>2, <3>4 DEF settle, m
    <3>5. CASE m.ttype # "A"
      BY <3>2, <3>5 DEF settle, m
    <3> QED BY <3>4, <3>5
  <2> QED BY <2>1, <2>2 DEF Drains
<1>4. \A i \in 0 .. n : F[i] = O[i]
  <2>1. n \in Nat
    BY DEF n
  <2> HIDE DEF F
  <2> QED BY <2>1, <1>1, <1>3, OneDrain
<1> QED BY <1>4 DEF n, D, O

-------------------------------------------------------------------------------
(***************************************************************************)
(* handle_ssu_A on the rows of serve, and on those of Service, is handled. *)
(***************************************************************************)
LEMMA SvcRows ==
  /\ Svc!Keys = Keys
  /\ Svc!NoLearner = Reg!NoLearner
  /\ \A n, v : Svc!span_key_form(n, v) = Reg!span_key_form(n, v)
  /\ \A kind : Svc!fresh(kind) = Reg!fresh(kind)
  /\ \A L, k : Svc!found(L, k) <=> Reg!found(L, k)
  /\ \A s : Svc!Range(s) = Reg!Range(s)
  /\ \A ll, d : Svc!after2(ll, d) = Reg!after2(ll, d)
  /\ \A L, k, kind : Svc!ensure(L, k, kind) = Reg!ensure(L, k, kind)
  /\ \A T, L, k : Svc!track(T, L, k) = Reg!track(T, L, k)
  /\ \A n, k : Svc!rows(n, k) = {n, k}
<1>1. \A n, v : Svc!span_key_form(n, v) = Reg!span_key_form(n, v)
  BY DEF Svc!span_key_form, Reg!span_key_form
<1>2. Svc!Keys = Keys
  BY <1>1 DEF Svc!Keys, Keys, Reg!Keys
<1>3. \A kind : Svc!fresh(kind) = Reg!fresh(kind)
  BY DEF Svc!fresh, Reg!fresh
<1>4. Svc!NoLearner = Reg!NoLearner
  BY <1>3 DEF Svc!NoLearner, Reg!NoLearner
<1>5. \A s : Svc!Range(s) = Reg!Range(s)
  BY DEF Svc!Range, Reg!Range
<1>6. \A L, k : Svc!found(L, k) <=> Reg!found(L, k)
  BY DEF Svc!found, Reg!found
<1>7. \A ll, d : Svc!after2(ll, d) = Reg!after2(ll, d)
  <2>1. \A a, b : Svc!add64(a, b) = Reg!add64(a, b)
    BY DEF Svc!add64, Reg!add64, Svc!Modulus, Reg!Modulus, Svc!MinInt64, Reg!MinInt64
  <2> QED BY <2>1 DEF Svc!after2, Reg!after2
<1>8. \A L, k, kind : Svc!ensure(L, k, kind) = Reg!ensure(L, k, kind)
  BY <1>3, <1>6 DEF Svc!ensure, Reg!ensure
<1>9. \A T, L, k : Svc!track(T, L, k) = Reg!track(T, L, k)
  BY <1>6 DEF Svc!track, Reg!track
<1>10. \A n, k : Svc!rows(n, k) = {n, k}
  BY DEF Svc!rows
<1> QED BY <1>1, <1>2, <1>3, <1>4, <1>5, <1>6, <1>7, <1>8, <1>9, <1>10

LEMMA NowTyped == RegistryTyped => now \in Registries
BY DEF RegistryTyped, Reg!TypeOK, now, Registries, Keys

LEMMA ServeHandles ==
  ASSUME RegistryTyped, NEW m, Accountable(m), Reg!handle_ssu_A(m.name, m.variant, m.dur)
  PROVE  now' = handled(now, m)
<1> DEFINE name == m.name
           key == Reg!span_key_form(m.name, m.variant)
           named == Reg!ensure(learners, name, "LL")
           T == Reg!track(tracked_spans, learners, name)
           Row(S, L, k) == IF k \in S THEN Reg!after2(L[k], m.dur) ELSE L[k]
           Sum(S, k) == total[k] + IF k \in S THEN m.dur ELSE 0
<1>1. /\ learners \in [Keys -> Reg!Learner] /\ total \in [Keys -> Int] /\ Reg!Keys = Keys
      /\ name \in Keys /\ key \in Keys /\ (m.variant = "" <=> key = name)
  BY KeyOf DEF RegistryTyped, Reg!TypeOK, Keys, key_of
<1>2. /\ submitted' = [submitted EXCEPT ![name] = @ + 1]
      /\ now' = [learners |-> learners', tracked_spans |-> tracked_spans',
                 submitted |-> submitted', total |-> total']
  BY DEF Reg!handle_ssu_A, now
<1>3. /\ now.learners = learners /\ now.tracked_spans = tracked_spans
      /\ now.submitted = submitted /\ now.total = total
  BY DEF now
<1>4. CASE m.variant = "" /\ Reg!handle_plain(name, m.dur)
  <2>1. /\ learners' = [k \in Keys |-> Row({name}, named, k)]
        /\ total' = [k \in Keys |-> Sum({name}, k)]
        /\ tracked_spans' = T
    BY <1>1, <1>4 DEF Reg!handle_plain, Reg!count_sample
  <2>2. handled(now, m) = [learners |-> [k \in Keys |-> Row({name}, named, k)],
                           tracked_spans |-> T,
                           submitted |-> [submitted EXCEPT ![name] = @ + 1],
                           total |-> [k \in Keys |-> Sum({name}, k)]]
    <3>1. Reg!rows(name, key) = {name}
      BY <1>1, <1>4 DEF Reg!rows
    <3> QED BY <1>3, <1>4, <3>1 DEF handled
  <2> HIDE DEF Row, Sum, T, named
  <2> QED BY <1>2, <2>1, <2>2
<1>5. CASE m.variant # "" /\ Reg!handle_variant(name, key, m.dur)
  <2> DEFINE both == Reg!ensure(named, key, "VLL")
             TT == Reg!track(T, named, key)
  <2>1. /\ named[key].kind # "LL"
        /\ learners' = [k \in Keys |-> Row({name, key}, both, k)]
        /\ total' = [k \in Keys |-> Sum({name, key}, k)]
        /\ tracked_spans' = TT
    BY <1>1, <1>5 DEF Reg!handle_variant, Reg!count_sample, Reg!rows
  <2>2. handled(now, m) = [learners |-> [k \in Keys |-> Row({name, key}, both, k)],
                           tracked_spans |-> TT,
                           submitted |-> [submitted EXCEPT ![name] = @ + 1],
                           total |-> [k \in Keys |-> Sum({name, key}, k)]]
    BY <1>3, <1>5, <2>1 DEF handled, Reg!rows
  <2> HIDE DEF Row, Sum, TT, both
  <2> QED BY <1>2, <2>1, <2>2
<1>6. CASE m.variant # "" /\ Reg!reject_variant(name, key)
  <2> DEFINE both == Reg!ensure(named, key, "VLL")
             TT == Reg!track(T, named, key)
  <2>1. /\ named[key].kind = "LL" /\ learners' = named /\ total' = total /\ tracked_spans' = T
    BY <1>6 DEF Reg!reject_variant
  <2>2. both = named /\ TT = T
    BY <2>1 DEF Reg!ensure, Reg!track, Reg!found
  <2>3. handled(now, m) = [learners |-> [k \in Keys |-> Row({}, both, k)],
                           tracked_spans |-> TT,
                           submitted |-> [submitted EXCEPT ![name] = @ + 1],
                           total |-> [k \in Keys |-> Sum({}, k)]]
    BY <1>3, <1>6, <2>1 DEF handled
  <2>4. [k \in Keys |-> Row({}, both, k)] = named
    <3>1. named = [k \in Keys |-> named[k]]
      BY <1>1 DEF Reg!ensure
    <3> HIDE DEF named
    <3> QED BY <2>2, <3>1
  <2>5. [k \in Keys |-> Sum({}, k)] = total
    <3>1. ASSUME NEW k \in Keys PROVE Sum({}, k) = total[k]
      <4>1. total[k] \in Int
        BY <1>1
      <4>2. Sum({}, k) = total[k] + 0
        OBVIOUS
      <4> QED BY <4>1, <4>2
    <3>2. total = [k \in Keys |-> total[k]]
      BY <1>1
    <3> HIDE DEF Sum
    <3> QED BY <3>1, <3>2
  <2> HIDE DEF Row, Sum, TT, both, T, named
  <2> QED BY <1>2, <2>1, <2>2, <2>3, <2>4, <2>5
<1> QED BY <1>4, <1>5, <1>6 DEF Reg!handle_ssu_A

\* What the abstract specification calls a sample.
LEMMA SvcAccounts ==
  ASSUME settled \in Registries, NEW m, Accountable(m), settled' = handled(settled, m),
         registered, UNCHANGED <<registered, expected>>
  PROVE  Svc!Next
<1> DEFINE R == settled
           name == m.name
           key == Reg!span_key_form(m.name, m.variant)
           named == Reg!ensure(R.learners, name, "LL")
           T == Reg!track(R.tracked_spans, R.learners, name)
           both == IF m.variant = "" THEN named ELSE Reg!ensure(named, key, "VLL")
           vain == m.variant # "" /\ named[key].kind = "LL"
           rows == IF vain THEN {} ELSE {name, key}
<1>1. /\ R.learners \in [Keys -> Reg!Learner] /\ R.total \in [Keys -> Int]
      /\ name \in Keys /\ key \in Keys /\ (m.variant = "" <=> key = name)
  BY KeyOf DEF Registries, key_of
<1>2. /\ settled'.learners = [k \in Keys |-> IF k \in rows THEN Reg!after2(both[k], m.dur) ELSE both[k]]
      /\ settled'.tracked_spans = IF m.variant = "" THEN T ELSE Reg!track(T, named, key)
      /\ settled'.submitted = [R.submitted EXCEPT ![m.name] = @ + 1]
      /\ settled'.total = [k \in Keys |-> R.total[k] + IF k \in rows THEN m.dur ELSE 0]
  BY DEF handled, Reg!rows
<1>3. CASE m.variant = ""
  <2>1. rows = {name} /\ both = named
    BY <1>1, <1>3
  <2> HIDE DEF rows, both
  <2>2. Svc!handle_plain(name, m.dur)
    BY <1>2, <1>3, <2>1, SvcRows DEF Svc!handle_plain, Svc!count_sample
  <2> QED BY <1>2, <1>3, <2>2, SvcRows DEF Svc!Next, Svc!Sample, Svc!handle_ssu_A, Accountable
<1>4. CASE m.variant # "" /\ ~vain
  <2>1. rows = {name, key} /\ both = Reg!ensure(named, key, "VLL") /\ named[key].kind # "LL"
    BY <1>4
  <2> HIDE DEF rows, both, vain
  <2>2. Svc!handle_variant(name, key, m.dur)
    BY <1>2, <1>4, <2>1, SvcRows DEF Svc!handle_variant, Svc!count_sample
  <2> QED BY <1>2, <1>4, <2>2, SvcRows DEF Svc!Next, Svc!Sample, Svc!handle_ssu_A, Accountable
<1>5. CASE vain
  <2>1. /\ rows = {} /\ both = Reg!ensure(named, key, "VLL") /\ named[key].kind = "LL"
        /\ m.variant # ""
    BY <1>5
  <2>2. both = named /\ Reg!track(T, named, key) = T
    BY <2>1 DEF Reg!ensure, Reg!track, Reg!found
  <2> HIDE DEF rows, both, vain
  <2>3. settled'.learners = named
    <3>1. named = [k \in Keys |-> named[k]]
      BY <1>1 DEF Reg!ensure
    <3> HIDE DEF named
    <3> QED BY <1>2, <2>1, <2>2, <3>1
  <2>4. settled'.total = R.total
    <3>1. settled'.total = [k \in Keys |-> R.total[k] + IF k \in rows THEN m.dur ELSE 0]
      BY <1>2
    <3>2. ASSUME NEW k \in Keys PROVE settled'.total[k] = R.total[k]
      <4>1. R.total[k] \in Int
        BY <1>1
      <4>2. settled'.total[k] = R.total[k] + 0
        BY <2>1, <3>1
      <4> QED BY <4>1, <4>2
    <3>3. R.total = [k \in Keys |-> R.total[k]] /\ settled'.total = [k \in Keys |-> settled'.total[k]]
      BY <1>1, <3>1
    <3> HIDE DEF R
    <3> QED BY <3>2, <3>3
  <2>5. Svc!reject_variant(name, key)
    BY <1>2, <2>1, <2>2, <2>3, <2>4, SvcRows DEF Svc!reject_variant
  <2> QED BY <1>2, <2>1, <2>5, SvcRows DEF Svc!Next, Svc!Sample, Svc!handle_ssu_A, Accountable
<1> QED BY <1>3, <1>4, <1>5

-------------------------------------------------------------------------------
(***************************************************************************)
(* Who asks for what, and when: the invariants of the refinement.          *)
(***************************************************************************)
NamedMsg(m) ==
  /\ m.ttype = "A" => m.name \in AppNames
  /\ m.ttype = "values" => m.name \in Asked

Named ==
  /\ \A s \in Spans : ssu[s].begun => ssu[s].Name \in AppNames
  /\ \A g \in Goroutines :
       /\ pc(g) \in {"mark", "check"} => ssu[go[g].handle].begun
       /\ NamedMsg(go[g].out)
  /\ \A k \in 1 .. Len(outer) : NamedMsg(outer[k])

\* What serve is doing is what it was asked to do, and so is what it answers.
Minding ==
  /\ serve = "report" => current.ttype = "report"
  /\ serve = "benchmarks" => current.ttype = "benchmarks"
  /\ \A g \in Goroutines : reply[g] # NoReply => reply[g].ttype \in Answered

OwnFound ==
  /\ comm_outer = "chan" => registered
  /\ registered => \A k \in own_rows : Reg!found(learners, k)

LEMMA OwnNames == own_rows \subseteq Names
BY Constants DEF own_rows

LEMMA InitAsking == Init => Named /\ Minding /\ OwnFound
<1> SUFFICES ASSUME Init PROVE Named /\ Minding /\ OwnFound
  OBVIOUS
<1>1. \A s \in Spans : ~ssu[s].begun
  BY DEF Init
<1>2. \A g \in Goroutines : go[g].pc = "idle" /\ go[g].out.ttype = "none"
  BY DEF Init, AtRest, NoMsg, request_msg
<1>3. Named
  BY <1>1, <1>2 DEF Init, Named, NamedMsg, pc
<1> QED BY <1>3 DEF Init, Minding, OwnFound, Reg!Init

\* g moves, and what it is about to send is named.
LEMMA NamedMove ==
  ASSUME Named, NEW g \in Goroutines, UNCHANGED <<ssu, outer>>,
         \A h \in Goroutines \ {g} : go'[h] = go[h],
         NamedMsg(go'[g].out),
         go'[g].pc \in {"mark", "check"} => ssu[go'[g].handle].begun
  PROVE  Named'
BY DEF Named, pc

LEMMA EnterNamed ==
  ASSUME IInv, Named, NEW g \in Goroutines, Enter(g)
  PROVE  Named'
<1> USE DEF pc, May_call, Free
<1>1. go \in [Goroutines -> Goroutine] /\ NamedMsg(go[g].out)
  BY DEF IInv, Typed, Named
<1>2. ASSUME InitCall(g) \/ CallRefused(g) \/ \E n \in SelfCounts : SelfStart(g, n)
      PROVE  Named'
  <2>1. go'[g].pc \notin {"mark", "check"} /\ go'[g].out = go[g].out
    BY <1>1, <1>2 DEF InitCall, CallRefused, SelfStart, Goroutine
  <2> QED
    BY <1>1, <1>2, <2>1, NamedMove DEF InitCall, CallRefused, SelfStart
<1>3. ASSUME NEW r \in Requests, NEW k \in keys_asked(r), Call(g, r, k) PROVE Named'
  <2>1. go'[g].pc = "send" /\ go'[g].out = request_msg(g, r, k)
    BY <1>1, <1>3 DEF Call, Goroutine
  <2>2. NamedMsg(go'[g].out)
    BY <2>1, Constants DEF request_msg, NamedMsg, keys_asked
  <2> QED
    BY <1>1, <1>3, <2>1, <2>2, NamedMove DEF Call
<1>4. ASSUME NEW s \in Spans, NEW b \in Begins, Begin(g, s, b[1], b[2]) PROVE Named'
  <2>1. ssu \in [Spans -> SSU] /\ UNCHANGED <<go, outer>>
    BY <1>4 DEF IInv, Typed, Begin
  <2>2. /\ ssu'[s].begun /\ ssu'[s].Name = b[1]
        /\ \A t \in Spans \ {s} : ssu'[t] = ssu[t]
    BY <1>4, <2>1 DEF Begin
  <2>3. \A h \in Goroutines : pc(h) \in {"mark", "check"} => go[h].handle \in Spans
    BY DEF IInv, EndsOK
  <2> QED
    BY <2>1, <2>2, <2>3 DEF Named, AppNames
<1>5. ASSUME NEW s \in Spans, NEW w \in EndVariants, EndTest(g, s, w) PROVE Named'
  <2>1. go'[g].handle = s /\ ssu[s].begun /\ go'[g].out = go[g].out
    BY <1>1, <1>5 DEF EndTest, Goroutine
  <2> QED
    BY <1>1, <1>5, <2>1, NamedMove DEF EndTest
<1>6. ASSUME NEW s \in Spans, EndIgnored(g, s) PROVE Named'
  BY <1>6 DEF EndIgnored, vars, Named
<1> QED
  BY <1>2, <1>3, <1>4, <1>5, <1>6 DEF Enter

LEMMA InsideNamed ==
  ASSUME IInv, Kept, Named, NEW g \in Goroutines, Inside(g)
  PROVE  Named'
<1> USE DEF pc, goto
<1>1. go \in [Goroutines -> Goroutine] /\ NamedMsg(go[g].out)
  BY DEF IInv, Typed, Named
<1>2. CASE \/ OnceEnter(g) \/ OnceReturn(g) \/ InitComplete(g) \/ InitGo(g)
           \/ EndRefused(g) \/ SelfAbort(g) \/ SelfDone(g) \/ CallReturn(g)
  <2>1. go'[g].pc \notin {"mark", "check"} /\ go'[g].out = go[g].out
    BY <1>1, <1>2 DEF OnceEnter, OnceReturn, InitComplete, InitGo, EndRefused, SelfAbort,
                      SelfDone, CallReturn, Goroutine
  <2>2. UNCHANGED <<ssu, outer>> /\ \A h \in Goroutines \ {g} : go'[h] = go[h]
    BY <1>1, <1>2 DEF OnceEnter, OnceReturn, InitComplete, InitGo, EndRefused, SelfAbort,
                      SelfDone, CallReturn
  <2> QED
    BY <1>1, <2>1, <2>2, NamedMove
<1>3. CASE InitBuild(g)
  <2>1. UNCHANGED outer
    BY <1>3 DEF InitBuild, Kept, Unmade
  <2>2. go'[g].pc = "init_built" /\ go'[g].out = go[g].out
    BY <1>1, <1>3 DEF InitBuild, Goroutine
  <2> QED
    BY <1>1, <1>3, <2>1, <2>2, NamedMove DEF InitBuild
<1>4. CASE EndMark(g)
  <2> DEFINE s == go[g].handle
  <2>1. ssu \in [Spans -> SSU] /\ s \in Spans /\ ssu[s].begun /\ UNCHANGED outer
    BY <1>4 DEF IInv, Typed, EndsOK, EndMark
  <2>2. /\ ssu'[s].begun /\ ssu'[s].Name = ssu[s].Name
        /\ \A t \in Spans \ {s} : ssu'[t] = ssu[t]
    BY <1>4, <2>1 DEF EndMark, SSU
  <2>3. /\ go'[g].handle = s /\ go'[g].out = go[g].out
        /\ \A h \in Goroutines \ {g} : go'[h] = go[h]
    BY <1>1, <1>4 DEF EndMark, Goroutine
  <2>4. \A h \in Goroutines : pc(h) \in {"mark", "check"} => go[h].handle \in Spans
    BY DEF IInv, EndsOK
  <2> HIDE DEF s
  <2>5. \A t \in Spans : (ssu'[t].begun <=> ssu[t].begun) /\ ssu'[t].Name = ssu[t].Name
    BY <2>1, <2>2
  <2> QED
    BY <1>1, <2>1, <2>3, <2>4, <2>5 DEF Named
<1>5. CASE EndSubmit(g)
  <2> DEFINE s == go[g].handle
             m(d) == sample_msg(g, ssu[s].Name, ssu[s].Variant, d, s)
  <2>1. s \in Spans /\ ssu[s].begun
    BY <1>5 DEF EndSubmit, IInv, EndsOK, Named
  <2>2. /\ \E d \in Durs : go' = [go EXCEPT ![g].pc = "send", ![g].handle = None, ![g].out = m(d)]
        /\ \A d : m(d).ttype = "A" /\ m(d).name = ssu[s].Name
    BY <1>5 DEF EndSubmit, sample_msg
  <2> HIDE DEF m
  <2>3. NamedMsg(go'[g].out) /\ go'[g].pc = "send"
    BY <1>1, <2>1, <2>2 DEF Goroutine, NamedMsg, Named
  <2>4. UNCHANGED <<ssu, outer>> /\ \A h \in Goroutines \ {g} : go'[h] = go[h]
    BY <1>1, <1>5 DEF EndSubmit
  <2> QED
    BY <2>3, <2>4, NamedMove
<1>6. CASE SelfSample(g)
  <2> DEFINE m(d) == sample_msg(g, OVERHEAD_SPAN, no_variant, d, None)
  <2>1. /\ \E d \in Durs : go' = [go EXCEPT ![g].pc = "send", ![g].left = @ - 1,
                                            ![g].chan = comm_outer, ![g].out = m(d)]
        /\ \A d : m(d).ttype = "A" /\ m(d).name = OVERHEAD_SPAN
    BY <1>6 DEF SelfSample, sample_msg
  <2> HIDE DEF m
  <2>2. NamedMsg(go'[g].out) /\ go'[g].pc = "send"
    BY <1>1, <2>1 DEF Goroutine, NamedMsg, AppNames
  <2>3. UNCHANGED <<ssu, outer>> /\ \A h \in Goroutines \ {g} : go'[h] = go[h]
    BY <1>1, <1>6 DEF SelfSample
  <2> QED
    BY <2>2, <2>3, NamedMove
<1> QED
  BY <1>2, <1>3, <1>4, <1>5, <1>6 DEF Inside

LEMMA ChannelNamed ==
  ASSUME IInv, Named, Serve \/ \E g \in Goroutines : Send(g)
  PROVE  Named'
<1> USE DEF pc
<1>1. outer \in Seq(Msg) /\ go \in [Goroutines -> Goroutine]
  BY DEF IInv, Typed
<1>2. CASE Serve
  <2>1. UNCHANGED <<ssu, go>> /\ (outer' = outer \/ (outer # << >> /\ outer' = Tail(outer)))
    BY <1>2 DEF Serve, ServeStart, ServeSample, ServeValues, ServeReport, ReportFail, ReportDone,
           ServeBenchmarks, BenchmarkSample, BenchmarksDone, ServeStop, ServeFinish, receive,
           after_and_update
  <2>2. \A k \in 1 .. Len(outer') : \E j \in 1 .. Len(outer) : outer'[k] = outer[j]
    <3>1. CASE outer' = outer
      BY <3>1
    <3>2. CASE outer # << >> /\ outer' = Tail(outer)
      <4>1. \A k \in 1 .. Len(outer') : k + 1 \in 1 .. Len(outer) /\ outer'[k] = outer[k + 1]
        BY <1>1, <3>2, HeadTailProperties
      <4> QED BY <4>1
    <3> QED BY <2>1, <3>1, <3>2
  <2> QED
    BY <2>1, <2>2 DEF Named
<1>3. ASSUME NEW g \in Goroutines, Send(g) PROVE Named'
  <2> DEFINE m == go[g].out
  <2>1. UNCHANGED ssu /\ outer' = Append(outer, m) /\ m \in Msg /\ NamedMsg(m)
    BY <1>1, <1>3 DEF Send, enqueue, Goroutine, Named
  <2>2. /\ go'[g].out = NoMsg /\ go'[g].pc \notin {"mark", "check"}
        /\ \A h \in Goroutines \ {g} : go'[h] = go[h]
    <3>1. after_send(m) \in {"self", "wait", "idle"}
      BY DEF after_send
    <3>2. /\ go'[g].out = NoMsg /\ go'[g].pc = after_send(m)
          /\ \A h \in Goroutines \ {g} : go'[h] = go[h]
      <4>1. go' = [go EXCEPT ![g].pc = after_send(m), ![g].chan = "nil", ![g].out = NoMsg]
        BY <1>3 DEF Send
      <4> HIDE DEF m
      <4> QED BY <1>1, <4>1 DEF Goroutine
    <3> QED BY <3>1, <3>2
  <2> HIDE DEF m
  <2>3. \A k \in 1 .. Len(outer') : outer'[k] = m \/ (k \in 1 .. Len(outer) /\ outer'[k] = outer[k])
    BY <1>1, <2>1
  <2>4. NamedMsg(NoMsg)
    BY DEF NamedMsg, NoMsg, request_msg
  <2> QED
    BY <2>1, <2>2, <2>3, <2>4 DEF Named
<1> QED
  BY <1>2, <1>3

LEMMA NextMinding ==
  ASSUME IInv, Balance, Minding, [Next]_vars
  PROVE  Minding'
<1>1. DOMAIN reply = Goroutines
  BY DEF Balance
<1>2. ASSUME NEW g \in Goroutines, Enter(g) \/ Inside(g) \/ Send(g)
      PROVE  Minding'
  <2>1. UNCHANGED current /\ serve' \in {serve, "start"}
    BY <1>2 DEF Enter, InitCall, CallRefused, SelfStart, Call, Begin, EndTest, EndIgnored, vars,
           Inside, OnceEnter, OnceReturn, InitBuild, InitComplete, InitGo, EndMark, EndRefused,
           EndSubmit, SelfSample, SelfAbort, SelfDone, CallReturn, Send, srvvars
  <2>2. \A h \in Goroutines : reply'[h] \in {reply[h], NoReply}
    BY <1>1, <1>2 DEF Enter, InitCall, CallRefused, SelfStart, Call, Begin, EndTest, EndIgnored,
           vars, Inside, OnceEnter, OnceReturn, InitBuild, InitComplete, InitGo, EndMark,
           EndRefused, EndSubmit, SelfSample, SelfAbort, SelfDone, CallReturn, Send
  <2> QED BY <2>1, <2>2 DEF Minding
<1>3. ASSUME NEW m, m.ttype \in Answered, NEW entry, NEW rows, answer(m, entry, rows)
      PROVE  \A h \in Goroutines : reply'[h] # NoReply => reply'[h].ttype \in Answered
  <2> DEFINE r == [ttype |-> m.ttype, key |-> m.name, entry |-> entry, rows |-> rows]
  <2>1. r.ttype \in Answered /\ reply' = [reply EXCEPT ![m.from] = r]
    BY <1>3 DEF answer
  <2> HIDE DEF r
  <2> QED BY <2>1, <1>1 DEF Minding
<1>4. CASE ServeStart \/ ServeSample \/ BenchmarkSample \/ ServeStop \/ ServeFinish
  <2>1. UNCHANGED <<reply, current>> /\ serve' \in {serve, "select", "returning", "done"}
    BY <1>4 DEF ServeStart, ServeSample, BenchmarkSample, ServeStop, ServeFinish, leave_serve, srvvars
  <2> QED BY <2>1 DEF Minding
<1>5. CASE ServeValues
  <2>1. /\ serve = "select" /\ UNCHANGED <<serve, current>> /\ Head(outer).ttype = "values"
        /\ \E entry, rows : answer(Head(outer), entry, rows)
    BY <1>5 DEF ServeValues, receive, srvvars
  <2> QED BY <2>1, <1>3 DEF Minding, Answered
<1>6. CASE ServeReport \/ ServeBenchmarks
  <2>1. /\ UNCHANGED reply /\ current' = Head(outer)
        /\ \/ Head(outer).ttype = "report" /\ serve' = "report"
           \/ Head(outer).ttype = "benchmarks" /\ serve' = "benchmarks"
    BY <1>6 DEF ServeReport, ServeBenchmarks, receive
  <2> QED BY <2>1 DEF Minding
<1>7. CASE ReportFail \/ ReportDone \/ BenchmarksDone
  <2>1. /\ serve' = "select" /\ current.ttype \in Answered
        /\ \E entry, rows : answer(current, entry, rows)
    BY <1>7 DEF ReportFail, ReportDone, BenchmarksDone, back_to_select, Balance, InHand
  <2> QED BY <2>1, <1>3 DEF Minding
<1>8. CASE UNCHANGED vars
  BY <1>8 DEF vars, srvvars, Minding
<1> QED
  BY <1>2, <1>4, <1>5, <1>6, <1>7, <1>8 DEF Next, Serve

LEMMA NextOwnFound ==
  ASSUME OwnApart, IInv, RegistryTyped, OwnFound, [Next]_vars
  PROVE  OwnFound'
<1>1. comm_outer' = "chan" => registered'
  <2>1. UNCHANGED registered \/ registered'
    <3>1. Reg!Next \/ UNCHANGED Reg!regvars
      BY NextImplements
    <3> QED
      BY <3>1 DEF Reg!Next, Reg!Register, Reg!register, Reg!Sample, Reg!handle_ssu_A, Reg!regvars
  <2>2. UNCHANGED comm_outer \/ registered'
    <3>1. CASE Serve \/ UNCHANGED vars
      BY <3>1 DEF Serve, ServeStart, ServeSample, ServeValues, ServeReport, ReportFail, ReportDone,
             ServeBenchmarks, BenchmarkSample, BenchmarksDone, ServeStop, ServeFinish, initvars, vars
    <3>2. ASSUME NEW g \in Goroutines, Enter(g) \/ Send(g) PROVE UNCHANGED comm_outer
      BY <3>2 DEF Enter, InitCall, CallRefused, SelfStart, Call, Begin, EndTest, EndIgnored, vars,
             Send, initvars
    <3>3. ASSUME NEW g \in Goroutines, Inside(g) PROVE UNCHANGED comm_outer \/ InitBuild(g)
      BY <3>3 DEF Inside, OnceEnter, OnceReturn, InitComplete, InitGo, EndMark, EndRefused,
             EndSubmit, SelfSample, SelfAbort, SelfDone, CallReturn, initvars
    <3>4. ASSUME NEW g \in Goroutines, InitBuild(g) PROVE registered'
      BY <3>4 DEF InitBuild, Reg!register
    <3> QED BY <3>1, <3>2, <3>3, <3>4 DEF Next
  <2> QED BY <2>1, <2>2 DEF OwnFound
<1>2. ASSUME Reg!Register PROVE \A k \in own_rows : Reg!found(learners', k)
  <2>1. PICK spans_app \in AppSpans : Reg!register(spans_app)
    BY <1>2 DEF Reg!Register
  <2> DEFINE spans == spans_app \o Builtins
  <2>2. spans_app \in Seq(Names) /\ Builtins \in Seq(Names)
    BY LatLearnAssumption DEF Reg!ConstantsOK
  <2>3. \A i \in DOMAIN Builtins : \E j \in DOMAIN spans : spans[j] = Builtins[i]
    <3>1. ASSUME NEW i \in DOMAIN Builtins
          PROVE  Len(spans_app) + i \in DOMAIN spans /\ spans[Len(spans_app) + i] = Builtins[i]
      BY <2>2
    <3> QED BY <3>1
  <2>4. \A k \in own_rows : k \in Reg!Range(spans)
    BY <2>3 DEF OwnApart, Reg!Range
  <2>5. \A k \in own_rows : k \in Reg!Keys
    BY OwnNames, NameIsKey DEF Keys
  <2>6. Reg!fresh("LL").kind = "LL"
    BY DEF Reg!fresh
  <2> QED BY <2>1, <2>4, <2>5, <2>6 DEF Reg!register, Reg!found
<1>3. ASSUME Reg!Sample PROVE OwnFound => \A k \in own_rows : Reg!found(learners', k)
  <2>1. PICK n \in Names, v \in Variants, d \in Durs : registered /\ Reg!handle_ssu_A(n, v, d)
    BY <1>3 DEF Reg!Sample
  <2> DEFINE m == sample_msg(None, n, v, d, None)
  <2>2. m.name = n /\ m.variant = v /\ m.dur = d /\ Accountable(m)
    BY DEF sample_msg, Accountable
  <2> HIDE DEF m
  <2>3. now' = handled(now, m)
    BY <2>1, <2>2, ServeHandles
  <2>4. \A k \in Keys : Reg!found(learners, k) => Reg!found(learners', k)
    BY <2>2, <2>3, HandledTyped, NowTyped DEF now
  <2> QED BY <2>1, <2>4, OwnNames, NameIsKey DEF OwnFound
<1> QED
  <2>1. Reg!Next \/ UNCHANGED Reg!regvars
    BY NextImplements
  <2>2. UNCHANGED Reg!regvars => UNCHANGED <<registered, learners>>
    BY DEF Reg!regvars
  <2> QED BY <1>1, <1>2, <1>3, <2>1, <2>2 DEF Reg!Next, OwnFound

-------------------------------------------------------------------------------
(***************************************************************************)
(* What a goroutine has been promised, as a function of the four places an *)
(* answer can come from: its reply channel (it holds r), the request serve *)
(* has in hand (c), the queue (q), and the registry (R).                   *)
(***************************************************************************)
asks(q, g) == {i \in DOMAIN q : q[i].from = g /\ q[i].ttype \in Answered}

nothing == [ttype |-> "none", key |-> "", rows |-> << >>]

pledge(g, r, c, q, R) ==
  IF r # NoReply THEN answer_in(r)
  ELSE IF c.from = g THEN answer_from(c, R)
  ELSE IF asks(q, g) # {}
       THEN LET i == CHOOSE i \in asks(q, g) : TRUE
            IN answer_from(q[i], drained(R, q)[i - 1])
       ELSE nothing

\* One of the places at most has something for g.
Sole(g, r, c, q) == In(q, Of_g(g)) + one(c.from = g) + one(r # NoReply) <= 1

\* None of them has.
Free_of(g, r, c, q) == r = NoReply /\ c.from # g /\ asks(q, g) = {}

LEMMA Promised ==
  ASSUME NEW g
  PROVE  promised(g) = pledge(g, reply[g], current, outer, now)
BY DEF promised, pledge, nothing, open_requests, asks, Answered

LEMMA Asks ==
  ASSUME NEW q \in Seq(Msg), NEW g
  PROVE  /\ asks(q, g) = Of(q, Of_g(g)) /\ DOMAIN q = 1 .. Len(q) /\ Len(q) \in Nat
         /\ In(q, Of_g(g)) \in Nat
         /\ In(q, Of_g(g)) = 0 <=> asks(q, g) = {}
         /\ In(q, Of_g(g)) <= 1 => \A i, j \in asks(q, g) : i = j
<1>1. asks(q, g) = Of(q, Of_g(g)) /\ DOMAIN q = 1 .. Len(q) /\ Len(q) \in Nat
  <2>1. DOMAIN q = 1 .. Len(q) /\ Len(q) \in Nat /\ \A i \in 1 .. Len(q) : q[i] \in Msg
    OBVIOUS
  <2> QED BY <2>1, Zenon DEF asks, Of, Of_g
<1> DEFINE T == Of(q, Of_g(g))
<1>2. IsFiniteSet(T) /\ Cardinality(T) \in Nat
  BY OfFinite, FS_CardinalityType
<1> HIDE DEF T
<1>3. Cardinality(T) = 0 <=> T = {}
  BY <1>2, FS_EmptySet
<1>4. ASSUME Cardinality(T) <= 1, NEW i \in T, NEW j \in T PROVE i = j
  <2>1. SUFFICES ASSUME i # j PROVE FALSE
    OBVIOUS
  <2>2. IsFiniteSet(T \ {i}) /\ Cardinality(T \ {i}) = Cardinality(T) - 1
    BY <1>2, FS_RemoveElement
  <2>3. j \in T \ {i} /\ Cardinality(T \ {i}) \in Nat
    BY <2>1, <2>2, FS_CardinalityType
  <2>4. Cardinality(T \ {i}) = 0
    BY <2>2, <2>3, <1>2, <1>4
  <2> QED BY <2>2, <2>3, <2>4, FS_EmptySet
<1> QED BY <1>1, <1>2, <1>3, <1>4 DEF In, T

LEMMA PledgeFree ==
  ASSUME NEW g, NEW r, NEW c, NEW q, NEW R, Free_of(g, r, c, q)
  PROVE  pledge(g, r, c, q, R) = nothing
BY DEF pledge, Free_of

LEMMA PledgeReady ==
  ASSUME NEW g, NEW r, NEW c, NEW q, NEW R, r # NoReply
  PROVE  pledge(g, r, c, q, R) = answer_in(r)
BY DEF pledge

LEMMA PledgeInHand ==
  ASSUME NEW g, NEW r, NEW c, NEW q \in Seq(Msg), NEW R, Sole(g, r, c, q), c.from = g
  PROVE  /\ pledge(g, r, c, q, R) = answer_from(c, R)
         /\ r = NoReply /\ asks(q, g) = {}
<1>1. In(q, Of_g(g)) \in Nat /\ one(c.from = g) = 1 /\ one(r # NoReply) \in Nat
  BY Asks DEF one
<1>2. In(q, Of_g(g)) = 0 /\ one(r # NoReply) = 0
  BY <1>1 DEF Sole
<1>3. r = NoReply /\ asks(q, g) = {}
  BY <1>2, Asks DEF one
<1> QED BY <1>3 DEF pledge

LEMMA PledgeQueued ==
  ASSUME NEW g, NEW r, NEW c, NEW q \in Seq(Msg), NEW R, Sole(g, r, c, q), NEW i \in asks(q, g)
  PROVE  /\ pledge(g, r, c, q, R) = answer_from(q[i], drained(R, q)[i - 1])
         /\ r = NoReply /\ c.from # g
<1>1. /\ In(q, Of_g(g)) \in Nat /\ In(q, Of_g(g)) # 0
      /\ one(c.from = g) \in Nat /\ one(r # NoReply) \in Nat
  BY Asks DEF one
<1>2. In(q, Of_g(g)) = 1 /\ one(c.from = g) = 0 /\ one(r # NoReply) = 0
  BY <1>1 DEF Sole
<1>3. r = NoReply /\ c.from # g
  BY <1>2 DEF one
<1>4. \A j \in asks(q, g) : j = i
  BY <1>2, Asks
<1>5. i = CHOOSE j \in asks(q, g) : TRUE
  BY <1>4
<1> QED BY <1>3, <1>5 DEF pledge

\* Where a promise can be kept.
LEMMA FourPlaces ==
  ASSUME NEW g, NEW r, NEW c, NEW q
  PROVE  r # NoReply \/ c.from = g \/ (\E i \in asks(q, g) : TRUE) \/ Free_of(g, r, c, q)
BY DEF Free_of

-------------------------------------------------------------------------------
(***************************************************************************)
(* How promises fare when the queue changes.                               *)
(***************************************************************************)
asked_by(m, g) == m.from = g /\ m.ttype \in Answered

\* Nobody is promised anything else by a message behind the others ...
LEMMA PledgeBefore ==
  ASSUME NEW g, NEW r, NEW c, NEW q \in Seq(Msg), NEW R, NEW m \in Msg, ~asked_by(m, g),
         Sole(g, r, c, q), Sole(g, r, c, Append(q, m))
  PROVE  pledge(g, r, c, Append(q, m), R) = pledge(g, r, c, q, R)
<1> DEFINE a == Append(q, m)
<1>1. /\ a \in Seq(Msg) /\ Len(a) = Len(q) + 1 /\ Len(q) \in Nat /\ a[Len(q) + 1] = m
      /\ Sole(g, r, c, a)
      /\ \A i \in 1 .. Len(q) : a[i] = q[i]
      /\ DOMAIN a = 1 .. Len(a) /\ DOMAIN q = 1 .. Len(q)
  BY AppendProperties
<1>2. \A i \in 0 .. Len(q) : drained(R, a)[i] = drained(R, q)[i]
  BY DrainAppend
<1> HIDE DEF a
<1>3. asks(a, g) = asks(q, g)
  BY <1>1 DEF asks, asked_by
<1>4. CASE r # NoReply
  BY <1>4, PledgeReady DEF a
<1>5. CASE c.from = g
  <2>1. pledge(g, r, c, q, R) = answer_from(c, R)
    BY <1>5, PledgeInHand
  <2>2. pledge(g, r, c, a, R) = answer_from(c, R)
    BY <1>1, <1>5, PledgeInHand
  <2> QED BY <2>1, <2>2 DEF a
<1>6. ASSUME NEW i \in asks(q, g) PROVE pledge(g, r, c, a, R) = pledge(g, r, c, q, R)
  <2>1. i \in 1 .. Len(q) /\ i - 1 \in 0 .. Len(q)
    BY <1>1 DEF asks
  <2>2. pledge(g, r, c, q, R) = answer_from(q[i], drained(R, q)[i - 1])
    BY PledgeQueued
  <2>3. pledge(g, r, c, a, R) = answer_from(a[i], drained(R, a)[i - 1])
    BY <1>1, <1>3, PledgeQueued
  <2> QED BY <1>1, <1>2, <2>1, <2>2, <2>3 DEF a
<1>7. CASE Free_of(g, r, c, q)
  <2>1. Free_of(g, r, c, a)
    BY <1>3, <1>7 DEF Free_of
  <2> QED BY <1>7, <2>1, PledgeFree DEF a
<1> QED BY <1>4, <1>5, <1>6, <1>7, FourPlaces DEF a

\* ... but for who sends it.
LEMMA PledgeAsked ==
  ASSUME NEW g, NEW r, NEW c, NEW q \in Seq(Msg), NEW R, NEW m \in Msg, asked_by(m, g),
         Sole(g, r, c, Append(q, m))
  PROVE  pledge(g, r, c, Append(q, m), R) = answer_from(m, drained(R, q)[Len(q)])
<1> DEFINE a == Append(q, m)
           n == Len(q) + 1
<1>1. /\ a \in Seq(Msg) /\ Len(a) = n /\ Len(q) \in Nat /\ a[n] = m
      /\ Sole(g, r, c, a)
      /\ DOMAIN a = 1 .. Len(a)
  BY AppendProperties
<1>2. drained(R, a)[Len(q)] = drained(R, q)[Len(q)]
  BY <1>1, DrainAppend
<1> HIDE DEF a
<1>3. n \in asks(a, g) /\ n - 1 = Len(q)
  BY <1>1 DEF asks, asked_by
<1> HIDE DEF n
<1>4. pledge(g, r, c, a, R) = answer_from(a[n], drained(R, a)[n - 1])
  BY <1>1, <1>3, PledgeQueued
<1> QED BY <1>1, <1>2, <1>3, <1>4 DEF a

\* The request at the head is answered from the registry as it is.
LEMMA PledgeTaken ==
  ASSUME NEW g, NEW r, NEW c, NEW q \in Seq(Msg), NEW R, q # << >>, asked_by(Head(q), g),
         Sole(g, r, c, q)
  PROVE  pledge(g, r, c, q, R) = answer_from(Head(q), R)
<1>1. Head(q) = q[1] /\ 1 \in DOMAIN q /\ Len(q) \in Nat
  OBVIOUS
<1>2. 1 \in asks(q, g)
  BY <1>1 DEF asks, asked_by
<1>3. drained(R, q)[1 - 1] = R
  BY <1>1, Drained DEF Drains
<1> QED BY <1>1, <1>2, <1>3, PledgeQueued

\* Nobody else notices that it is gone.
LEMMA PledgeAfter ==
  ASSUME NEW g, NEW r, NEW c, NEW q \in Seq(Msg), NEW R, q # << >>, ~asked_by(Head(q), g),
         c.from # g, Sole(g, r, c, q), Sole(g, r, c, Tail(q))
  PROVE  pledge(g, r, c, Tail(q), settle(R, Head(q))) = pledge(g, r, c, q, R)
<1> DEFINE t == Tail(q)
           S == settle(R, Head(q))
<1>1. /\ t \in Seq(Msg) /\ Len(q) = Len(t) + 1 /\ Len(t) \in Nat /\ Head(q) = q[1]
      /\ Sole(g, r, c, t)
      /\ \A i \in 1 .. Len(t) : t[i] = q[i + 1]
      /\ DOMAIN t = 1 .. Len(t) /\ DOMAIN q = 1 .. Len(q)
  BY HeadTailProperties
<1>2. \A i \in 0 .. Len(t) : drained(S, t)[i] = drained(R, q)[i + 1]
  BY DrainTail
<1> HIDE DEF t, S
<1>3. /\ \A i \in asks(q, g) : i - 1 \in asks(t, g)
      /\ \A i \in asks(t, g) : i + 1 \in asks(q, g)
  BY <1>1 DEF asks, asked_by
<1>4. CASE r # NoReply
  BY <1>4, PledgeReady
<1>5. ASSUME NEW i \in asks(q, g) PROVE pledge(g, r, c, t, S) = pledge(g, r, c, q, R)
  <2> DEFINE j == i - 1
  <2>1. j \in asks(t, g) /\ j - 1 \in 0 .. Len(t) /\ (j - 1) + 1 = i - 1 /\ t[j] = q[i]
    <3>1. j \in asks(t, g) /\ i \in 1 .. Len(q) /\ j \in 1 .. Len(t)
      BY <1>1, <1>3 DEF asks
    <3> QED BY <1>1, <3>1
  <2>2. pledge(g, r, c, q, R) = answer_from(q[i], drained(R, q)[i - 1])
    BY PledgeQueued
  <2> HIDE DEF j
  <2>3. t \in Seq(Msg) /\ Sole(g, r, c, t) /\ j \in asks(t, g)
    BY <1>1, <2>1
  <2>4. pledge(g, r, c, t, S) = answer_from(t[j], drained(S, t)[j - 1])
    BY <2>3, PledgeQueued
  <2> QED BY <1>2, <2>1, <2>2, <2>4
<1>6. CASE Free_of(g, r, c, q)
  <2>1. Free_of(g, r, c, t)
    BY <1>3, <1>6 DEF Free_of
  <2> QED BY <1>6, <2>1, PledgeFree DEF t, S
<1> QED BY <1>4, <1>5, <1>6, FourPlaces DEF t, S

\* The rows that serve counts its own samples in are in nobody's answer.
LEMMA AnswerOwn ==
  ASSUME NEW R \in Registries, NEW b \in own_rows, NEW d \in Durs, Reg!found(R.learners, b),
         NEW m
  PROVE  answer_from(m, handled(R, own_sample(b, d))) = answer_from(m, R)
<1> DEFINE H == handled(R, own_sample(b, d))
           tracked == {R.tracked_spans[i] : i \in DOMAIN R.tracked_spans}
           shown == CASE m.ttype = "values" -> {m.name} \cap tracked
                      [] m.ttype = "report" -> tracked
                      [] OTHER              -> {}
<1>1. CountsOwn(H, R, b, d)
  BY OwnShape, OwnNames
<1> HIDE DEF H
<1>2. H.tracked_spans = R.tracked_spans /\ \A k \in Keys \ {b} : H.learners[k] = R.learners[k]
  BY <1>1 DEF CountsOwn
<1>3. tracked \subseteq Keys
  <2>1. R.tracked_spans \in Seq(Keys)
    BY DEF Registries
  <2> QED BY <2>1
<1>4. shown \subseteq tracked
  OBVIOUS
<1> HIDE DEF tracked
<1> DEFINE rowsH == [k \in shown \ own_rows |-> H.learners[k]]
           rowsR == [k \in shown \ own_rows |-> R.learners[k]]
           key   == IF m.ttype = "values" THEN m.name ELSE ""
<1>5. rowsH = rowsR
  <2>1. \A k \in shown \ own_rows : H.learners[k] = R.learners[k]
    BY <1>2, <1>3, <1>4
  <2> HIDE DEF shown
  <2> QED BY <2>1
<1>6. answer_from(m, H) = [ttype |-> m.ttype, key |-> key, rows |-> rowsH]
  BY <1>2 DEF answer_from, tracked
<1>7. answer_from(m, R) = [ttype |-> m.ttype, key |-> key, rows |-> rowsR]
  BY DEF answer_from, tracked
<1> HIDE DEF rowsH, rowsR, key
<1> QED BY <1>5, <1>6, <1>7 DEF H

LEMMA PledgeOwn ==
  ASSUME NEW g, NEW r, NEW c, NEW q \in Seq(Msg), NEW R \in Registries,
         NEW b \in own_rows, NEW d \in Durs, Reg!found(R.learners, b),
         \A k \in 1 .. Len(q) :
           SampleOK(q[k]) /\ (q[k].ttype = "A" => b \notin {q[k].name, key_of(q[k])}),
         Sole(g, r, c, q)
  PROVE  pledge(g, r, c, q, handled(R, own_sample(b, d))) = pledge(g, r, c, q, R)
<1> DEFINE H == handled(R, own_sample(b, d))
<1>1. CASE r # NoReply
  BY <1>1, PledgeReady
<1>2. CASE c.from = g
  <2>1. pledge(g, r, c, q, R) = answer_from(c, R) /\ pledge(g, r, c, q, H) = answer_from(c, H)
    <3> HIDE DEF H
    <3> QED BY <1>2, PledgeInHand
  <2> QED BY <2>1, AnswerOwn
<1>3. ASSUME NEW i \in asks(q, g) PROVE pledge(g, r, c, q, H) = pledge(g, r, c, q, R)
  <2> DEFINE Q == drained(R, q)[i - 1]
  <2>1. Len(q) \in Nat /\ i - 1 \in 0 .. Len(q)
    BY DEF asks
  <2>2. b \in Names /\ b \in Keys
    BY OwnNames, NameIsKey
  <2>3. Q \in Registries /\ Reg!found(Q.learners, b)
    BY <2>1, <2>2, DrainTyped
  <2>4. drained(H, q)[i - 1] = handled(Q, own_sample(b, d))
    BY <2>1, <2>2, DrainOwn
  <2>5. pledge(g, r, c, q, R) = answer_from(q[i], Q)
    BY PledgeQueued
  <2>6. pledge(g, r, c, q, H) = answer_from(q[i], drained(H, q)[i - 1])
    <3> HIDE DEF H
    <3> QED BY PledgeQueued
  <2> HIDE DEF Q, H
  <2>7. answer_from(q[i], handled(Q, own_sample(b, d))) = answer_from(q[i], Q)
    BY <2>3, AnswerOwn
  <2> QED BY <2>4, <2>5, <2>6, <2>7
<1>4. CASE Free_of(g, r, c, q)
  BY <1>4, PledgeFree
<1> QED BY <1>1, <1>2, <1>3, <1>4, FourPlaces

-------------------------------------------------------------------------------
(***************************************************************************)
(* The refinement, step by step.                                           *)
(***************************************************************************)
\* The inductive invariant of the refinement.
Standing ==
  /\ IInv /\ Kept /\ Balance /\ RegistryTyped /\ RP!ReportOrderSound
  /\ Named /\ Minding /\ OwnFound

promises == [g \in Goroutines |-> promised(g)]

Soles == \A g \in Goroutines : Sole(g, reply[g], current, outer)

LEMMA PromisedNext ==
  ASSUME NEW g
  PROVE  promised(g)' = pledge(g, reply'[g], current', outer', now')
BY DEF promised, pledge, nothing, open_requests, asks, Answered

LEMMA SolesHold ==
  ASSUME Balance
  PROVE  Soles
BY DEF Balance, Balanced, Soles, Sole, one

LEMMA SolesNext ==
  ASSUME Balance'
  PROVE  \A g \in Goroutines : Sole(g, reply'[g], current', outer')
BY DEF Balance, Balanced, Sole, one

\* Who does not wait has been promised nothing.
LEMMA NotWaiting ==
  ASSUME IInv, Balance, NEW g \in Goroutines, pc(g) # "wait"
  PROVE  Free_of(g, reply[g], current, outer)
<1>1. In(outer, Of_g(g)) + one(current.from = g) + one(reply[g] # NoReply) = 0
  BY DEF Balance, Balanced, one
<1>2. outer \in Seq(Msg)
  BY DEF IInv, Typed
<1>3. /\ In(outer, Of_g(g)) \in Nat /\ one(current.from = g) \in Nat
      /\ one(reply[g] # NoReply) \in Nat
  BY <1>2, Asks DEF one
<1>4. In(outer, Of_g(g)) = 0 /\ one(current.from = g) = 0 /\ one(reply[g] # NoReply) = 0
  BY <1>1, <1>3
<1> QED BY <1>2, <1>4, Asks DEF one, Free_of

LEMMA NotWaitingNext ==
  ASSUME IInv', Balance', NEW g \in Goroutines, pc(g)' # "wait"
  PROVE  Free_of(g, reply'[g], current', outer')
<1>1. In(outer', Of_g(g)) + one(current'.from = g) + one(reply'[g] # NoReply) = 0
  BY DEF Balance, Balanced, one
<1>2. outer' \in Seq(Msg)
  BY DEF IInv, Typed
<1>3. /\ In(outer', Of_g(g)) \in Nat /\ one(current'.from = g) \in Nat
      /\ one(reply'[g] # NoReply) \in Nat
  BY <1>2, Asks DEF one
<1>4. In(outer', Of_g(g)) = 0 /\ one(current'.from = g) = 0 /\ one(reply'[g] # NoReply) = 0
  BY <1>1, <1>3
<1> QED BY <1>2, <1>4, Asks DEF one, Free_of

\* What stands still.
LEMMA SvcStands ==
  ASSUME UNCHANGED <<settled, registered, expected>>,
         \A g \in Goroutines : promised(g)' = promised(g)
  PROVE  UNCHANGED Svc!svcvars
BY DEF Svc!svcvars, Svc!regvars

LEMMA AllStands ==
  ASSUME UNCHANGED <<regvars, reply, current, outer>>
  PROVE  UNCHANGED Svc!svcvars
<1>1. UNCHANGED now /\ UNCHANGED <<registered, expected>>
  BY DEF now, regvars
<1>2. UNCHANGED settled
  BY <1>1 DEF settled
<1>3. \A g \in Goroutines : promised(g)' = promised(g)
  BY <1>1, Promised, PromisedNext
<1> QED BY <1>1, <1>2, <1>3, SvcStands

LEMMA SvcCounts ==
  ASSUME settled \in Registries, NEW m, Accountable(m), settled' = handled(settled, m),
         registered, UNCHANGED <<registered, expected>>,
         \A g \in Goroutines : promised(g)' = promised(g)
  PROVE  Svc!ServiceNext
<1>1. Svc!Next
  BY SvcAccounts
<1>2. UNCHANGED [g \in Goroutines |-> promised(g)]
  OBVIOUS
<1> QED BY <1>1, <1>2 DEF Svc!ServiceNext, Svc!Account

\* What the queue holds can be accounted.
LEMMA SettledTyped ==
  ASSUME IInv, RegistryTyped
  PROVE  /\ outer \in Seq(Msg) /\ Len(outer) \in Nat
         /\ \A k \in 1 .. Len(outer) : SampleOK(outer[k])
         /\ now \in Registries /\ settled \in Registries
<1>1. /\ outer \in Seq(Msg) /\ Len(outer) \in Nat
      /\ \A k \in 1 .. Len(outer) : SampleOK(outer[k])
  BY DEF IInv, Typed, SamplesOK
<1>2. now \in Registries
  BY NowTyped
<1>3. drained(now, outer)[Len(outer)] \in Registries
  BY <1>1, <1>2, DrainTyped
<1> QED BY <1>1, <1>2, <1>3 DEF settled

\* The answer that Service gives.
LEMMA SvcAnswers ==
  ASSUME NEW m \in Msg, m.ttype \in Answered, m.ttype = "values" => m.name \in Asked
  PROVE  /\ answer_from(m, settled) \in {Svc!values_answer(k) : k \in Asked}
                                          \cup {Svc!report_answer, Svc!benchmarks_answer}
         /\ answer_from(m, settled) # Svc!NoAnswer
<1> DEFINE tracked == {settled.tracked_spans[i] : i \in DOMAIN settled.tracked_spans}
<1>1. Svc!Range(settled.tracked_spans) = tracked
  BY DEF Svc!Range
<1>2. answer_from(m, settled) # Svc!NoAnswer
  <2>1. answer_from(m, settled).ttype \in Answered
    BY DEF answer_from
  <2>2. Svc!NoAnswer.ttype = "none"
    BY DEF Svc!NoAnswer
  <2> QED BY <2>1, <2>2 DEF Answered
<1>3. CASE m.ttype = "values"
  <2>1. answer_from(m, settled) = Svc!values_answer(m.name)
    BY <1>1, <1>3 DEF answer_from, Svc!values_answer, Svc!view
  <2> QED BY <1>3, <1>2, <2>1
<1>4. CASE m.ttype = "report"
  <2>1. answer_from(m, settled) = Svc!report_answer
    BY <1>1, <1>4 DEF answer_from, Svc!report_answer, Svc!view
  <2> QED BY <1>2, <2>1
<1>5. CASE m.ttype = "benchmarks"
  <2> DEFINE rows == [k \in {} \ own_rows |-> settled.learners[k]]
  <2>1. answer_from(m, settled) = [ttype |-> "benchmarks", key |-> "", rows |-> rows]
    BY <1>5 DEF answer_from
  <2>2. rows = << >>
    OBVIOUS
  <2> HIDE DEF rows
  <2>3. answer_from(m, settled) = Svc!benchmarks_answer
    BY <2>1, <2>2 DEF Svc!benchmarks_answer
  <2> QED BY <1>2, <2>3
<1> QED BY <1>3, <1>4, <1>5 DEF Answered

LEMMA SendServes ==
  ASSUME Standing, Balance', NEW g \in Goroutines, Send(g)
  PROVE  Svc!ServiceNext \/ UNCHANGED Svc!svcvars
<1> DEFINE m == go[g].out
<1>1. /\ outer \in Seq(Msg) /\ Len(outer) \in Nat /\ m \in Msg /\ SampleOK(m)
      /\ m.ttype \in Answered => m.from = g
      /\ m.ttype = "values" => m.name \in Asked
      /\ now \in Registries /\ settled \in Registries
  <2>1. m \in Msg /\ SampleOK(m)
    BY DEF Standing, IInv, Typed, Goroutine, SamplesOK
  <2> QED BY <2>1, SettledTyped DEF Standing, Balance, Addressed, Named, NamedMsg
<1>2. /\ outer' = Append(outer, m)
      /\ UNCHANGED <<now, registered, expected, reply, current>>
      /\ registered /\ pc(g) # "wait"
  <2>1. outer' = Append(outer, m) /\ pc(g) = "send" /\ UNCHANGED <<regvars, reply, current>>
    BY DEF Send, enqueue, srvvars
  <2>2. registered
    <3>1. go[g].chan = "chan" /\ comm_outer \in {"nil", "chan"}
      BY DEF Send, Standing, IInv, Typed
    <3>2. comm_outer = "chan"
      BY <3>1 DEF Standing, Kept, Unmade
    <3> QED BY <3>2 DEF Standing, OwnFound
  <2> QED BY <2>1, <2>2 DEF regvars, now
<1>3. Free_of(g, reply[g], current, outer)
  BY <1>2, NotWaiting DEF Standing
<1>4. /\ \A h \in Goroutines : Sole(h, reply[h], current, outer)
      /\ \A h \in Goroutines : Sole(h, reply[h], current, Append(outer, m))
  BY <1>2, SolesHold, SolesNext DEF Standing, Soles
<1>5. settled' = settle(settled, m)
  <2>1. settled' = drained(now, outer')[Len(outer')]
    BY <1>2 DEF settled
  <2> QED BY <1>1, <1>2, <2>1, DrainAppend DEF settled
<1> HIDE DEF m
<1>6. ASSUME NEW h \in Goroutines, ~asked_by(m, h)
      PROVE  promised(h)' = promised(h)
  BY <1>1, <1>2, <1>4, <1>6, Promised, PromisedNext, PledgeBefore
<1>7. CASE m.ttype = "A"
  <2>1. \A h \in Goroutines : ~asked_by(m, h)
    BY <1>7 DEF asked_by, Answered
  <2>2. settled' = handled(settled, m) /\ Accountable(m)
    BY <1>1, <1>5, <1>7 DEF settle, SampleOK, Accountable
  <2> QED BY <1>1, <1>2, <1>6, <2>1, <2>2, SvcCounts
<1>8. CASE m.ttype \in Answered
  <2>1. m.from = g /\ settled' = settled
    BY <1>1, <1>5, <1>8 DEF settle, Answered
  <2> DEFINE a == answer_from(m, settled)
  <2>2. promised(g) = nothing /\ promised(g)' = a
    <3>1. promised(g) = nothing
      BY <1>3, Promised, PledgeFree
    <3>2. promised(g)' = pledge(g, reply[g], current, Append(outer, m), now)
      BY <1>2, PromisedNext
    <3>3. asked_by(m, g)
      BY <1>8, <2>1 DEF asked_by
    <3>4. pledge(g, reply[g], current, Append(outer, m), now)
            = answer_from(m, drained(now, outer)[Len(outer)])
      BY <1>1, <1>4, <3>3, PledgeAsked
    <3> QED BY <3>1, <3>2, <3>4 DEF settled
  <2>3. \A h \in Goroutines \ {g} : promised(h)' = promised(h)
    BY <1>6, <2>1 DEF asked_by
  <2>4. /\ a \in {Svc!values_answer(k) : k \in Asked} \cup {Svc!report_answer, Svc!benchmarks_answer}
        /\ a # Svc!NoAnswer
    BY <1>1, <1>8, SvcAnswers
  <2>5. Svc!NoAnswer = nothing
    BY DEF Svc!NoAnswer, nothing
  <2>6. UNCHANGED Svc!regvars
    BY <1>2, <2>1 DEF Svc!regvars
  <2> HIDE DEF a
  <2>7. [h \in Goroutines |-> promised(h)]' = [[h \in Goroutines |-> promised(h)] EXCEPT ![g] = a]
    BY <2>2, <2>3
  <2>8. Svc!Ask(g)
    BY <1>2, <2>2, <2>4, <2>5, <2>6, <2>7 DEF Svc!Ask
  <2> QED BY <2>8 DEF Svc!ServiceNext
<1>9. CASE m.ttype \notin Answered \cup {"A"}
  <2>1. settled' = settled /\ \A h \in Goroutines : ~asked_by(m, h)
    BY <1>5, <1>9 DEF settle, asked_by
  <2> QED BY <1>2, <1>6, <2>1, SvcStands
<1> QED BY <1>7, <1>8, <1>9

\* The report order names the rows there are.
LEMMA TrackedRows ==
  ASSUME RP!ReportOrderSound
  PROVE  {tracked_spans[i] : i \in DOMAIN tracked_spans} = {k \in Keys : Reg!found(learners, k)}
<1>1. RP!Range(tracked_spans) = {k \in Keys : Reg!found(learners, k)}
  BY SameRows DEF RP!ReportOrderSound, Keys
<1> QED BY <1>1 DEF RP!Range

\* Values gives the row that the registry has under the key.
LEMMA ValuesAnswer ==
  ASSUME RP!ReportOrderSound, NEW m \in Msg, m.ttype = "values", NEW entry,
         entry = IF Reg!found(learners, m.name) THEN learners[m.name] ELSE NoEntry,
         NEW r, r = [ttype |-> m.ttype, key |-> m.name, entry |-> entry, rows |-> NoRows]
  PROVE  answer_in(r) = answer_from(m, now)
<1> DEFINE T == {tracked_spans[i] : i \in DOMAIN tracked_spans}
           here == IF entry = NoEntry THEN {} ELSE {m.name} \ own_rows
           shown == {m.name} \cap T
           F == [k \in here |-> entry]
           G == [k \in shown \ own_rows |-> learners[k]]
<1>1. now.tracked_spans = tracked_spans /\ now.learners = learners /\ m.name \in Keys
  BY DEF now, Msg
<1>2. m.name \in T <=> Reg!found(learners, m.name)
  BY <1>1, TrackedRows
<1>3. answer_in(r) = [ttype |-> "values", key |-> m.name, rows |-> F]
  BY DEF answer_in
<1>4. answer_from(m, now) = [ttype |-> "values", key |-> m.name, rows |-> G]
  BY <1>1 DEF answer_from
<1>5. here = shown \ own_rows /\ \A k \in here : learners[k] = entry
  <2>1. CASE Reg!found(learners, m.name)
    <3>1. entry = learners[m.name] /\ entry # NoEntry
      BY <2>1 DEF Reg!found, NoEntry
    <3>2. shown = {m.name} /\ here = {m.name} \ own_rows
      BY <3>1, <2>1, <1>2
    <3> HIDE DEF shown, here
    <3> QED BY <3>1, <3>2
  <2>2. CASE ~Reg!found(learners, m.name)
    <3>1. shown = {} /\ here = {}
      BY <2>2, <1>2
    <3> HIDE DEF shown, here
    <3> QED BY <3>1
  <2> QED BY <2>1, <2>2
<1> HIDE DEF here, shown
<1>6. F = G
  BY <1>5
<1> HIDE DEF F, G
<1> QED BY <1>3, <1>4, <1>6

LEMMA PledgeIdle ==
  ASSUME NEW g, NEW r, NEW c, NEW d, NEW q, NEW R, c.from # g, d.from # g
  PROVE  /\ pledge(g, r, c, q, R) = pledge(g, r, d, q, R)
         /\ Sole(g, r, c, q) <=> Sole(g, r, d, q)
BY DEF pledge, Sole, one

\* What it means for Service that serve takes the head of the queue: nothing.
LEMMA TakenServes ==
  ASSUME Standing, Balance', outer # << >>, outer' = Tail(outer),
         now' = settle(now, Head(outer))
  PROVE  /\ settled' = settled
         /\ \A g \in Goroutines :
              ~asked_by(Head(outer), g) /\ reply'[g] = reply[g] /\ current.from # g /\ current'.from # g
                => promised(g)' = promised(g)
         /\ \A g \in Goroutines :
              asked_by(Head(outer), g) => promised(g) = answer_from(Head(outer), now)
<1> DEFINE m == Head(outer)
<1>1. outer \in Seq(Msg) /\ Len(outer) \in Nat /\ outer' \in Seq(Msg)
  BY SettledTyped DEF Standing
<1>2. \A g \in Goroutines : /\ Sole(g, reply[g], current, outer)
                            /\ Sole(g, reply'[g], current', Tail(outer))
  BY SolesHold, SolesNext DEF Standing, Soles
<1>3. settled' = settled
  <2>1. /\ Len(outer') = Len(outer) - 1 /\ Len(outer) > 0
        /\ \A i \in 0 .. Len(outer') : drained(now', outer')[i] = drained(now, outer)[i + 1]
    BY <1>1, DrainTail
  <2>2. Len(outer') \in 0 .. Len(outer') /\ Len(outer') + 1 = Len(outer)
    BY <1>1, <2>1
  <2>3. settled' = drained(now', outer')[Len(outer')]
    BY DEF settled
  <2> QED BY <2>1, <2>2, <2>3 DEF settled
<1>4. ASSUME NEW g \in Goroutines, ~asked_by(m, g), reply'[g] = reply[g], current.from # g, current'.from # g
      PROVE  promised(g)' = promised(g)
  <2>1. promised(g)' = pledge(g, reply[g], current', Tail(outer), settle(now, m))
    BY <1>4, PromisedNext
  <2>2. /\ pledge(g, reply[g], current', Tail(outer), settle(now, m))
             = pledge(g, reply[g], current, Tail(outer), settle(now, m))
        /\ Sole(g, reply[g], current, Tail(outer))
    BY <1>2, <1>4, PledgeIdle
  <2>3. Sole(g, reply[g], current, outer)
    BY <1>2
  <2>4. pledge(g, reply[g], current, Tail(outer), settle(now, m)) = pledge(g, reply[g], current, outer, now)
    BY <1>1, <1>4, <2>2, <2>3, PledgeAfter
  <2> QED BY <2>1, <2>2, <2>4, Promised
<1>5. ASSUME NEW g \in Goroutines, asked_by(m, g)
      PROVE  promised(g) = answer_from(m, now)
  BY <1>1, <1>2, <1>5, Promised, PledgeTaken
<1> QED BY <1>3, <1>4, <1>5

LEMMA ReceiveServes ==
  ASSUME Standing, Balance',
         ServeSample \/ ServeStop \/ ServeValues \/ ServeReport \/ ServeBenchmarks
  PROVE  UNCHANGED Svc!svcvars
<1> DEFINE m == Head(outer)
<1>1. /\ IInv /\ Balance /\ RegistryTyped /\ NoMsg.from \notin Goroutines
      /\ \A k \in 1 .. Len(outer) : SampleOK(outer[k])
  BY Constants, SettledTyped DEF Standing, NoMsg, request_msg
<1>2. UNCHANGED go
  BY DEF ServeSample, ServeStop, ServeValues, ServeReport, ServeBenchmarks
<1>3. ASSUME NEW t, receive(t)
      PROVE  /\ outer # << >> /\ outer' = Tail(outer) /\ m.ttype = t /\ m \in Msg
             /\ current = NoMsg /\ (t \in Answered => m.from \in Goroutines)
             /\ SampleOK(m)
  <2>1. /\ outer # << >> /\ outer' = Tail(outer) /\ m.ttype = t
    BY <1>3 DEF receive
  <2>2. m = outer[1] /\ 1 \in 1 .. Len(outer)
    BY <1>1, <2>1 DEF IInv, Typed
  <2>3. m \in Msg /\ current = NoMsg /\ (t \in Answered => m.from \in Goroutines)
    BY <1>1, <1>2, <1>3, Taken
  <2> QED BY <1>1, <2>1, <2>2, <2>3
<1> HIDE DEF m
<1>4. CASE ServeSample
  <2>1. /\ receive("A") /\ Reg!handle_ssu_A(m.name, m.variant, m.dur)
        /\ UNCHANGED <<registered, expected, reply, current>>
    BY <1>4 DEF ServeSample, handle_msg_A, Reg!handle_ssu_A, srvvars, m
  <2>2. m.ttype = "A" /\ Accountable(m) /\ current = NoMsg
    BY <1>3, <2>1 DEF SampleOK, Accountable
  <2>3. now' = settle(now, m)
    BY <1>1, <2>1, <2>2, ServeHandles DEF settle
  <2>4. \A g : ~asked_by(m, g)
    BY <2>2 DEF asked_by, Answered
  <2>5. settled' = settled /\ \A g \in Goroutines : promised(g)' = promised(g)
    BY <1>1, <1>3, <2>1, <2>2, <2>3, <2>4, TakenServes DEF m
  <2> QED BY <2>1, <2>5, SvcStands
<1>5. CASE ServeStop
  <2>1. receive("stop") /\ UNCHANGED <<now, registered, expected, reply, current>>
    BY <1>5 DEF ServeStop, regvars, now
  <2>2. m.ttype = "stop" /\ current = NoMsg
    BY <1>3, <2>1
  <2>3. now' = settle(now, m) /\ \A g : ~asked_by(m, g)
    BY <2>1, <2>2 DEF settle, asked_by, Answered
  <2>4. settled' = settled /\ \A g \in Goroutines : promised(g)' = promised(g)
    BY <1>1, <1>3, <2>1, <2>2, <2>3, TakenServes DEF m
  <2> QED BY <2>1, <2>4, SvcStands
<1>6. CASE ServeValues
  <2> DEFINE entry == IF Reg!found(learners, m.name) THEN learners[m.name] ELSE NoEntry
             r == [ttype |-> m.ttype, key |-> m.name, entry |-> entry, rows |-> NoRows]
  <2> PICK f : f = m.from
    OBVIOUS
  <2>1. /\ receive("values") /\ UNCHANGED <<now, registered, expected, current>>
        /\ reply' = [reply EXCEPT ![f] = r]
    BY <1>6 DEF ServeValues, answer, regvars, srvvars, now, m
  <2>2. m \in Msg /\ m.ttype = "values" /\ current = NoMsg /\ f \in Goroutines /\ asked_by(m, f)
    BY <1>3, <2>1 DEF Answered, asked_by
  <2>3. now' = settle(now, m)
    BY <2>1, <2>2 DEF settle
  <2>4. r # NoReply /\ answer_in(r) = answer_from(m, now)
    <3>1. r.ttype # NoReply.ttype
      BY <2>2 DEF NoReply
    <3>2. RP!ReportOrderSound
      BY DEF Standing
    <3> HIDE DEF entry
    <3>3. r # NoReply
      BY <3>1
    <3>4. answer_in(r) = answer_from(m, now)
      BY <3>2, <2>2, ValuesAnswer DEF entry
    <3> QED BY <3>3, <3>4
  <2> HIDE DEF r
  <2>5. reply'[f] = r /\ \A g \in Goroutines \ {f} : reply'[g] = reply[g]
    BY <1>1, <2>1, <2>2 DEF Balance
  <2>6. settled' = settled /\ promised(f) = answer_from(m, now)
        /\ \A g \in Goroutines \ {f} : promised(g)' = promised(g)
    <3>1. \A g \in Goroutines \ {f} : ~asked_by(m, g)
      BY DEF asked_by
    <3> QED BY <1>1, <1>3, <2>1, <2>2, <2>3, <2>5, <3>1, TakenServes DEF m
  <2>7. promised(f)' = answer_in(r)
    BY <2>4, <2>5, PromisedNext, PledgeReady
  <2> QED BY <2>1, <2>4, <2>6, <2>7, SvcStands
<1>7. CASE ServeReport \/ ServeBenchmarks
  <2> PICK f : f = m.from
    OBVIOUS
  <2>1. /\ receive("report") \/ receive("benchmarks")
        /\ UNCHANGED <<now, registered, expected, reply>> /\ current' = m
    BY <1>7 DEF ServeReport, ServeBenchmarks, regvars, now, m
  <2>2. /\ m \in Msg /\ m.ttype \in {"report", "benchmarks"} /\ current = NoMsg
        /\ f \in Goroutines /\ asked_by(m, f)
    BY <1>3, <2>1 DEF Answered, asked_by
  <2>3. now' = settle(now, m) /\ \A g \in Goroutines \ {f} : ~asked_by(m, g) /\ m.from # g
    BY <2>1, <2>2 DEF settle, asked_by
  <2>4. settled' = settled /\ promised(f) = answer_from(m, now)
        /\ \A g \in Goroutines \ {f} : promised(g)' = promised(g)
    BY <1>1, <1>3, <2>1, <2>2, <2>3, TakenServes DEF m
  <2>5. promised(f)' = answer_from(m, now)
    <3>1. Sole(f, reply'[f], current', outer') /\ current'.from = f
      BY <2>1, <2>2, SolesNext
    <3>2. outer' \in Seq(Msg)
      <4>1. outer # << >> /\ outer' = Tail(outer)
        BY <2>1 DEF receive
      <4> QED BY <1>1, <4>1 DEF IInv, Typed
    <3>3. pledge(f, reply'[f], current', outer', now') = answer_from(current', now')
      BY <3>1, <3>2, PledgeInHand
    <3> QED BY <2>1, <3>3, PromisedNext
  <2> QED BY <2>1, <2>4, <2>5, SvcStands
<1> QED BY <1>4, <1>5, <1>6, <1>7

\* A sample of serve's own.
LEMMA OwnServes ==
  ASSUME Standing, OwnApart, Balance', NEW b \in own_rows, NEW d \in Durs,
         Reg!handle_ssu_A(b, no_variant, d), serve # "absent", UNCHANGED outer
  PROVE  /\ settled' = handled(settled, own_sample(b, d))
         /\ Accountable(own_sample(b, d)) /\ settled \in Registries
         /\ registered /\ UNCHANGED <<registered, expected>>
         /\ \A g \in Goroutines :
              reply'[g] = reply[g] /\ (current' = current \/ (current.from # g /\ current'.from # g))
                => promised(g)' = promised(g)
<1> DEFINE o == own_sample(b, d)
<1>1. /\ outer \in Seq(Msg) /\ Len(outer) \in Nat /\ now \in Registries /\ settled \in Registries
      /\ \A k \in 1 .. Len(outer) : SampleOK(outer[k])
      /\ b \in Names /\ b \in Keys
  BY SettledTyped, OwnNames, NameIsKey DEF Standing
<1>2. registered /\ Reg!found(now.learners, b)
  BY DEF Standing, IInv, InitOnce, OwnFound, now
<1>3. UNCHANGED <<registered, expected>>
  BY DEF Reg!handle_ssu_A
<1>4. o.name = b /\ o.variant = no_variant /\ o.dur = d /\ Accountable(o)
  BY <1>1, OwnAccountable DEF no_variant
<1>5. now' = handled(now, o)
  <2> HIDE DEF o
  <2> QED BY <1>4, ServeHandles DEF Standing
<1>6. \A k \in 1 .. Len(outer) :
        SampleOK(outer[k]) /\ (outer[k].ttype = "A" => b \notin {outer[k].name, key_of(outer[k])})
  <2> SUFFICES ASSUME NEW k \in 1 .. Len(outer), outer[k].ttype = "A"
               PROVE  b \notin {outer[k].name, key_of(outer[k])}
    BY <1>1
  <2> DEFINE m == outer[k]
  <2>1. m.name \in AppNames /\ m.variant \in Variants
    BY <1>1 DEF Standing, Named, NamedMsg, SampleOK
  <2>2. key_of(m) \notin own_rows
    BY <2>1 DEF OwnApart, key_of
  <2>3. Reg!span_key_form(m.name, "") \notin own_rows
    BY <2>1, NoVariant DEF OwnApart, no_variant
  <2>4. Reg!span_key_form(m.name, "") = m.name
    BY DEF Reg!span_key_form
  <2> QED BY <2>2, <2>3, <2>4
<1>7. settled' = handled(settled, o)
  <2>1. \A i \in 0 .. Len(outer) : drained(handled(now, o), outer)[i] = handled(drained(now, outer)[i], o)
    BY <1>1, <1>2, <1>6, DrainOwn
  <2>2. settled' = drained(now', outer)[Len(outer)]
    BY DEF settled
  <2>3. Len(outer) \in 0 .. Len(outer)
    BY <1>1
  <2> HIDE DEF o
  <2> QED BY <1>5, <2>1, <2>2, <2>3 DEF settled
<1>8. ASSUME NEW g \in Goroutines, reply'[g] = reply[g],
             current' = current \/ (current.from # g /\ current'.from # g)
      PROVE  promised(g)' = promised(g)
  <2>1. promised(g)' = pledge(g, reply[g], current', outer, now')
    BY <1>8, PromisedNext
  <2>2. pledge(g, reply[g], current', outer, now') = pledge(g, reply[g], current, outer, now')
    BY <1>8, PledgeIdle
  <2>3. Sole(g, reply[g], current, outer)
    BY SolesHold DEF Standing, Soles
  <2>4. pledge(g, reply[g], current, outer, handled(now, o)) = pledge(g, reply[g], current, outer, now)
    BY <1>1, <1>2, <1>6, <2>3, PledgeOwn
  <2> HIDE DEF o
  <2> QED BY <1>5, <2>1, <2>2, <2>4, Promised
<1> QED BY <1>1, <1>2, <1>3, <1>4, <1>7, <1>8

\* What serve answers is what it promised, unless it could not write a report.
LEMMA ReportAnswer ==
  ASSUME NEW c, c.ttype = "report", NEW entry, NEW r,
         r = [ttype |-> c.ttype, key |-> c.name, entry |-> entry, rows |-> shown_rows]
  PROVE  answer_in(r) = answer_from(c, now)
<1> DEFINE T == {tracked_spans[i] : i \in DOMAIN tracked_spans}
           F == [k \in DOMAIN shown_rows \ own_rows |-> shown_rows[k]]
           G == [k \in T \ own_rows |-> learners[k]]
<1>1. answer_in(r) = [ttype |-> "report", key |-> "", rows |-> F]
  BY DEF answer_in
<1>2. answer_from(c, now) = [ttype |-> "report", key |-> "", rows |-> G]
  BY DEF answer_from, now
<1>3. DOMAIN shown_rows = T /\ \A k \in T : shown_rows[k] = learners[k]
  BY DEF shown_rows
<1>4. F = G
  <2> HIDE DEF T
  <2> QED BY <1>3
<1> HIDE DEF F, G
<1> QED BY <1>1, <1>2, <1>4

\* An answer without rows.
empty(ttype) == [ttype |-> ttype, key |-> "", rows |-> NoRows]

LEMMA EmptyAnswer ==
  ASSUME NEW r, r.ttype \in {"report", "benchmarks"}, r.rows = NoRows
  PROVE  answer_in(r) = empty(r.ttype)
<1> DEFINE F == [k \in DOMAIN r.rows \ own_rows |-> r.rows[k]]
<1>1. answer_in(r) = [ttype |-> r.ttype, key |-> "", rows |-> F]
  BY DEF answer_in
<1>2. F = NoRows
  BY DEF NoRows
<1> HIDE DEF F
<1> QED BY <1>1, <1>2 DEF empty

LEMMA BenchmarksAnswer ==
  ASSUME NEW c, c.ttype = "benchmarks", NEW R
  PROVE  answer_from(c, R) = empty("benchmarks")
<1> DEFINE F == [k \in {} \ own_rows |-> R.learners[k]]
<1>1. answer_from(c, R) = [ttype |-> c.ttype, key |-> "", rows |-> F]
  BY DEF answer_from
<1>2. F = NoRows
  BY DEF NoRows
<1> HIDE DEF F
<1> QED BY <1>1, <1>2 DEF empty

LEMMA OwnRows ==
  /\ REPORT_SPAN \in own_rows /\ BENCH_SPAN \in own_rows
  /\ \A i \in DOMAIN BenchPlan : BenchPlan[i] \in own_rows
BY DEF own_rows

\* serve answers the request in hand.
LEMMA Finishing ==
  ASSUME Standing, serve \in {"report", "benchmarks"}, current' = NoMsg, NEW rows,
         answer(current, Reg!NoLearner, rows),
         NEW r, r = [ttype |-> current.ttype, key |-> current.name, entry |-> Reg!NoLearner,
                     rows |-> rows]
  PROVE  \E f \in Goroutines :
           /\ promised(f)' = answer_in(r) /\ promised(f) = answer_from(current, now)
           /\ \A g \in Goroutines \ {f} : reply'[g] = reply[g] /\ current.from # g /\ current'.from # g
<1> PICK f : f = current.from
  OBVIOUS
<1>1. /\ DOMAIN reply = Goroutines /\ NoMsg.from \notin Goroutines
      /\ f \in Goroutines /\ current.ttype \in Answered
  BY Constants DEF Standing, Balance, InHand, NoMsg, request_msg
<1>2. reply' = [reply EXCEPT ![f] = r]
  BY DEF answer
<1>3. r # NoReply
  <2>1. r.ttype \in Answered /\ NoReply.ttype = "none"
    BY <1>1 DEF NoReply
  <2> QED BY <2>1 DEF Answered
<1>4. /\ reply'[f] = r
      /\ \A g \in Goroutines \ {f} : reply'[g] = reply[g] /\ current.from # g /\ current'.from # g
  BY <1>1, <1>2
<1>5. promised(f)' = answer_in(r)
  BY <1>3, <1>4, PromisedNext, PledgeReady
<1>6. promised(f) = answer_from(current, now)
  <2>1. outer \in Seq(Msg) /\ Sole(f, reply[f], current, outer)
    BY <1>1, SolesHold DEF Standing, IInv, Typed, Soles
  <2> QED BY <2>1, Promised, PledgeInHand
<1> QED BY <1>1, <1>4, <1>5, <1>6

LEMMA FailServes ==
  ASSUME Standing, Balance', ReportFail
  PROVE  Svc!ServiceNext
<1>1. /\ serve = "report" /\ current' = NoMsg /\ answer(current, Reg!NoLearner, NoRows)
      /\ UNCHANGED <<outer, now, registered, expected>> /\ current.ttype = "report"
  BY DEF ReportFail, back_to_select, regvars, now, Standing, Minding
<1> PICK r : r = [ttype |-> current.ttype, key |-> current.name, entry |-> Reg!NoLearner, rows |-> NoRows]
  OBVIOUS
<1>2. PICK f \in Goroutines :
        /\ promised(f)' = answer_in(r) /\ promised(f) = answer_from(current, now)
        /\ \A g \in Goroutines \ {f} : reply'[g] = reply[g] /\ current.from # g /\ current'.from # g
  BY <1>1, Finishing
<1>3. settled' = settled
  BY <1>1 DEF settled
<1>4. \A g \in Goroutines \ {f} : promised(g)' = promised(g)
  BY <1>1, <1>2, Promised, PromisedNext, PledgeIdle
<1>5. answer_in(r) = empty("report")
  <2>1. r.ttype = "report" /\ r.rows = NoRows
    BY <1>1
  <2> QED BY <2>1, EmptyAnswer
<1>6. Svc!failed_report = empty("report")
  BY DEF Svc!failed_report, empty, NoRows
<1>7. promised(f).ttype = "report"
  <2>1. answer_from(current, now).ttype = "report"
    BY <1>1 DEF answer_from
  <2> QED BY <1>2, <2>1
<1>8. [g \in Goroutines |-> promised(g)]'
        = [[g \in Goroutines |-> promised(g)] EXCEPT ![f] = Svc!failed_report]
  BY <1>2, <1>4, <1>5, <1>6
<1>9. UNCHANGED Svc!regvars
  BY <1>1, <1>3 DEF Svc!regvars
<1>10. Svc!Fail(f)
  BY <1>7, <1>8, <1>9 DEF Svc!Fail
<1> QED BY <1>10 DEF Svc!ServiceNext

LEMMA DoneServes ==
  ASSUME Standing, OwnApart, Balance', ReportDone \/ BenchmarksDone
  PROVE  Svc!ServiceNext
<1>1. /\ serve \in {"report", "benchmarks"} /\ current' = NoMsg /\ UNCHANGED outer
      /\ \E b \in own_rows, d \in Durs : Reg!handle_ssu_A(b, no_variant, d)
  BY OwnRows DEF ReportDone, BenchmarksDone, back_to_select, after_and_update
<1>2. PICK rows : /\ answer(current, Reg!NoLearner, rows)
                  /\ \/ rows = shown_rows /\ current.ttype = "report"
                     \/ rows = NoRows /\ current.ttype = "benchmarks"
  BY DEF ReportDone, BenchmarksDone, Standing, Minding
<1> PICK r : r = [ttype |-> current.ttype, key |-> current.name, entry |-> Reg!NoLearner, rows |-> rows]
  OBVIOUS
<1>3. PICK f \in Goroutines :
        /\ promised(f)' = answer_in(r) /\ promised(f) = answer_from(current, now)
        /\ \A g \in Goroutines \ {f} : reply'[g] = reply[g] /\ current.from # g /\ current'.from # g
  BY <1>1, <1>2, Finishing
<1>4. answer_in(r) = answer_from(current, now)
  <2>1. CASE rows = shown_rows /\ current.ttype = "report"
    BY <2>1, ReportAnswer
  <2>2. CASE rows = NoRows /\ current.ttype = "benchmarks"
    <3>1. answer_in(r) = empty("benchmarks")
      <4>1. r.ttype = current.ttype /\ r.rows = NoRows
        BY <2>2
      <4> QED BY <2>2, <4>1, EmptyAnswer
    <3>2. answer_from(current, now) = empty("benchmarks")
      BY <2>2, BenchmarksAnswer
    <3> QED BY <3>1, <3>2
  <2> QED BY <1>2, <2>1, <2>2
<1>5. PICK b \in own_rows, d \in Durs : Reg!handle_ssu_A(b, no_variant, d)
  BY <1>1
<1>6. /\ settled' = handled(settled, own_sample(b, d)) /\ Accountable(own_sample(b, d))
      /\ settled \in Registries /\ registered /\ UNCHANGED <<registered, expected>>
      /\ \A g \in Goroutines \ {f} : promised(g)' = promised(g)
  BY <1>1, <1>3, <1>5, OwnServes
<1>7. \A g \in Goroutines : promised(g)' = promised(g)
  BY <1>3, <1>4, <1>6
<1> QED BY <1>6, <1>7, SvcCounts

LEMMA BenchmarkServes ==
  ASSUME Standing, OwnApart, Balance', BenchmarkSample
  PROVE  Svc!ServiceNext
<1>1. /\ UNCHANGED <<outer, reply, current>> /\ step \in 1 .. Len(BenchPlan)
      /\ serve = "benchmarks"
      /\ \E d \in Durs : Reg!handle_ssu_A(BenchPlan[step], no_variant, d)
  BY DEF BenchmarkSample, after_and_update, Standing, IInv, Typed
<1>2. BenchPlan[step] \in own_rows
  BY <1>1, OwnRows, Constants
<1>3. PICK b \in own_rows, d \in Durs : Reg!handle_ssu_A(b, no_variant, d)
  BY <1>1, <1>2
<1>4. /\ settled' = handled(settled, own_sample(b, d)) /\ Accountable(own_sample(b, d))
      /\ settled \in Registries /\ registered /\ UNCHANGED <<registered, expected>>
      /\ \A g \in Goroutines : promised(g)' = promised(g)
  BY <1>1, <1>3, OwnServes
<1> QED BY <1>4, SvcCounts

\* The registration is Service's, nothing being in the channel yet.
LEMMA BuildServes ==
  ASSUME Standing, NEW g \in Goroutines, InitBuild(g)
  PROVE  Svc!ServiceNext
<1>1. outer = << >> /\ UNCHANGED <<outer, reply, current>> /\ ~registered
  BY DEF Standing, Kept, Unmade, IInv, InitOnce, InitBuild, srvvars
<1>2. PICK spans_app \in AppSpans : Reg!register(spans_app)
  BY DEF InitBuild
<1>3. current.from \notin Goroutines
  <2>1. serve = "absent"
    BY DEF Standing, IInv, InitOnce, InitBuild, InitLabels
  <2> QED BY <2>1, Constants DEF Standing, Balance, InHand, NoMsg, request_msg
<1>4. \A R : drained(R, << >>)[Len(<< >>)] = R
  <2> SUFFICES ASSUME NEW R PROVE drained(R, << >>)[Len(<< >>)] = R
    OBVIOUS
  <2>1. Len(<< >>) = 0
    OBVIOUS
  <2>2. Drains(drained(R, << >>), R, << >>, Len(<< >>))
    BY <2>1, Drained
  <2> QED BY <2>1, <2>2 DEF Drains
<1>5. settled = now /\ settled' = now'
  BY <1>1, <1>4 DEF settled
<1>6. \A h \in Goroutines : promised(h)' = promised(h)
  <2>1. \A h : asks(outer, h) = {}
    BY <1>1 DEF asks
  <2> SUFFICES ASSUME NEW h \in Goroutines PROVE promised(h)' = promised(h)
    OBVIOUS
  <2>2. CASE reply[h] # NoReply
    BY <1>1, <2>2, Promised, PromisedNext, PledgeReady
  <2>3. CASE reply[h] = NoReply
    <3>1. Free_of(h, reply[h], current, outer)
      BY <1>3, <2>1, <2>3 DEF Free_of
    <3> QED BY <1>1, <3>1, Promised, PromisedNext, PledgeFree
  <2> QED BY <2>2, <2>3
<1>7. Svc!register(spans_app)
  <2>1. /\ settled'.learners = learners' /\ settled'.tracked_spans = tracked_spans'
        /\ settled'.submitted = submitted' /\ settled'.total = total'
    BY <1>5 DEF now
  <2> QED BY <1>2, <2>1, SvcRows DEF Svc!register, Reg!register, Keys
<1>8. Svc!Next
  BY <1>1, <1>7 DEF Svc!Next, Svc!Register
<1>9. UNCHANGED [h \in Goroutines |-> promised(h)]
  BY <1>6
<1> QED BY <1>8, <1>9 DEF Svc!ServiceNext, Svc!Account

LEMMA ReturnServes ==
  ASSUME Standing, IInv', Balance', NEW g \in Goroutines, CallReturn(g)
  PROVE  Svc!ServiceNext
<1>1. /\ UNCHANGED <<regvars, outer, current>> /\ reply[g] # NoReply /\ DOMAIN reply = Goroutines
      /\ go \in [Goroutines -> Goroutine]
  BY DEF CallReturn, srvvars, Standing, Balance, IInv, Typed
<1>2. \A h \in Goroutines \ {g} : reply'[h] = reply[h]
  BY <1>1 DEF CallReturn
<1>3. UNCHANGED <<now, registered, expected>>
  BY <1>1 DEF regvars, now
<1>4. settled' = settled
  BY <1>1, <1>3 DEF settled
<1>5. \A h \in Goroutines \ {g} : promised(h)' = promised(h)
  BY <1>1, <1>2, <1>3, Promised, PromisedNext
<1>6. promised(g)' = nothing
  <2>1. pc(g)' # "wait"
    BY <1>1 DEF CallReturn, goto, pc
  <2> QED BY <2>1, NotWaitingNext, PromisedNext, PledgeFree
<1>7. promised(g) # nothing
  <2>1. promised(g) = answer_in(reply[g])
    BY <1>1, Promised, PledgeReady
  <2>2. answer_in(reply[g]).ttype = reply[g].ttype
    BY DEF answer_in
  <2>3. reply[g].ttype \in Answered
    BY <1>1 DEF Standing, Minding
  <2>4. nothing.ttype = "none"
    BY DEF nothing
  <2> QED BY <2>1, <2>2, <2>3, <2>4 DEF Answered
<1>8. Svc!NoAnswer = nothing
  BY DEF Svc!NoAnswer, nothing
<1>9. [h \in Goroutines |-> promised(h)]'
        = [[h \in Goroutines |-> promised(h)] EXCEPT ![g] = Svc!NoAnswer]
  BY <1>5, <1>6, <1>8
<1>10. UNCHANGED Svc!regvars
  BY <1>3, <1>4 DEF Svc!regvars
<1>11. Svc!Return(g)
  BY <1>7, <1>8, <1>9, <1>10 DEF Svc!Return
<1> QED BY <1>11 DEF Svc!ServiceNext

LEMMA NextServes ==
  ASSUME Standing, OwnApart, IInv', Balance', [Next]_vars
  PROVE  Svc!ServiceNext \/ UNCHANGED Svc!svcvars
<1>1. ASSUME UNCHANGED <<regvars, reply, current, outer>>
      PROVE  UNCHANGED Svc!svcvars
  BY <1>1, AllStands
<1>2. CASE UNCHANGED vars
  BY <1>1, <1>2 DEF vars, srvvars
<1>3. CASE Serve
  <2>1. CASE ServeStart \/ ServeFinish
    BY <1>1, <2>1 DEF ServeStart, ServeFinish
  <2>2. CASE ServeSample \/ ServeStop \/ ServeValues \/ ServeReport \/ ServeBenchmarks
    BY <2>2, ReceiveServes
  <2> QED BY <1>3, <2>1, <2>2, FailServes, DoneServes, BenchmarkServes DEF Serve
<1>4. ASSUME NEW g \in Goroutines, Enter(g) PROVE UNCHANGED Svc!svcvars
  <2>1. UNCHANGED <<regvars, reply, srvvars, outer>>
    BY <1>4 DEF Enter, InitCall, CallRefused, SelfStart, Call, Begin, EndTest, EndIgnored, vars
  <2> QED BY <1>1, <2>1 DEF srvvars
<1>5. ASSUME NEW g \in Goroutines, Inside(g), ~InitBuild(g), ~CallReturn(g)
      PROVE  UNCHANGED Svc!svcvars
  <2>1. UNCHANGED <<regvars, reply, current, outer>>
    BY <1>5 DEF Inside, OnceEnter, OnceReturn, InitComplete, InitGo, EndMark, EndRefused,
           EndSubmit, SelfSample, SelfAbort, SelfDone, srvvars
  <2> QED BY <1>1, <2>1
<1> QED BY <1>2, <1>3, <1>4, <1>5, SendServes, BuildServes, ReturnServes DEF Next

LEMMA InitServes == Init => Svc!ServiceInit
<1> SUFFICES ASSUME Init PROVE Svc!ServiceInit
  OBVIOUS
<1>1. /\ outer = << >> /\ current = NoMsg /\ \A g \in Goroutines : reply[g] = NoReply
      /\ Reg!Init
  BY DEF Init
<1>2. settled = now
  <2>1. Len(<< >>) = 0
    OBVIOUS
  <2>2. Drains(drained(now, << >>), now, << >>, Len(<< >>))
    BY <2>1, Drained
  <2> QED BY <1>1, <2>1, <2>2 DEF settled, Drains
<1>3. \A g \in Goroutines : promised(g) = nothing
  <2>1. \A g \in Goroutines : Free_of(g, reply[g], current, outer)
    BY <1>1, Constants DEF Free_of, asks, NoMsg, request_msg
  <2> QED BY <2>1, Promised, PledgeFree
<1>4. Svc!Init
  <2>1. /\ settled.learners = learners /\ settled.tracked_spans = tracked_spans
        /\ settled.submitted = submitted /\ settled.total = total
    BY <1>2 DEF now
  <2> QED BY <1>1, <2>1, SvcRows DEF Svc!Init, Reg!Init, Keys
<1>5. Svc!NoAnswer = nothing
  BY DEF Svc!NoAnswer, nothing
<1>6. [g \in Goroutines |-> promised(g)] = [g \in Goroutines |-> Svc!NoAnswer]
  BY <1>3, <1>5
<1> QED BY <1>4, <1>6 DEF Svc!ServiceInit

LEMMA StandingHolds ==
  ASSUME VariantsJoin, OwnApart
  PROVE  Spec => []Standing
<1>1. Spec => []RegistryTyped
  <2>1. RP!Spec => []RP!TypeOK
    BY RP!TypeCorrect, SameConstants
  <2>2. RP!TypeOK => RegistryTyped
    BY SameRows DEF RP!TypeOK, Reg!TypeOK, RegistryTyped
  <2> QED BY <2>1, <2>2, DrivesRegistry, PTL
<1>2. Spec => []RP!ReportOrderSound
  <2>1. RP!Spec => []RP!ReportOrderSound
    BY RP!ReportOrderAlwaysSound, SameConstants
  <2> QED BY <2>1, DrivesRegistry, PTL
<1>3. IInv /\ Kept /\ Balance /\ RegistryTyped /\ Named /\ Minding /\ OwnFound /\ [Next]_vars
        => Named' /\ Minding' /\ OwnFound'
  <2> SUFFICES ASSUME IInv, Kept, Balance, RegistryTyped, Named, Minding, OwnFound, [Next]_vars
               PROVE  Named' /\ Minding' /\ OwnFound'
    OBVIOUS
  <2>1. Named'
    <3>1. CASE UNCHANGED vars
      BY <3>1 DEF vars, Named, pc
    <3> QED BY <3>1, EnterNamed, InsideNamed, ChannelNamed DEF Next
  <2>2. Minding'
    BY NextMinding
  <2>3. OwnFound'
    BY NextOwnFound
  <2> QED BY <2>1, <2>2, <2>3
<1>4. Standing <=> /\ IInv /\ Kept /\ Balance /\ RegistryTyped /\ RP!ReportOrderSound
                   /\ Named /\ Minding /\ OwnFound
  BY DEF Standing
<1> QED BY <1>1, <1>2, <1>3, <1>4, InitAsking, BalanceHolds, PTL DEF Spec

(***************************************************************************)
(* Every call of the library is atomic.  However samples, questions and    *)
(* reports of different goroutines race in a channel of whatever capacity, *)
(* and whatever serve counts of its own work meanwhile, there is one order *)
(* of the calls in which each takes effect between its being made and its  *)
(* return, and every answer is what the statistics were at that moment.    *)
(***************************************************************************)
THEOREM ServesCalls ==
  ASSUME VariantsJoin, OwnApart
  PROVE  Spec => ImplementsService
<1>1. Init => Svc!ServiceInit
  BY InitServes
<1>2. Standing /\ Standing' /\ [Next]_vars => [Svc!ServiceNext]_(Svc!svcvars)
  <2> SUFFICES ASSUME Standing, Standing', [Next]_vars
               PROVE  Svc!ServiceNext \/ UNCHANGED Svc!svcvars
    BY Zenon
  <2>1. IInv' /\ Balance'
    BY DEF Standing
  <2> QED BY <2>1, NextServes
<1> QED BY <1>1, <1>2, StandingHolds, PTL DEF Spec, ImplementsService, Svc!ServiceSpec

-------------------------------------------------------------------------------
(***************************************************************************)
(* The built-in benchmarks.  benchmarks_inner takes its samples outside of *)
(* the channel, while the rows they count in are open to everybody: that a *)
(* run is whole rests on nobody else's using them.                         *)
(***************************************************************************)
\* How often b is among the first n samples of a run.
upto(b, n) == Cardinality({i \in 1 .. n : BenchPlan[i] = b})

Runs == learners[BENCH_SPAN].Weight

\* The inductive form: in the middle of a run, what has been sampled so far.
WholeSoFar ==
  /\ serve # "benchmarks" => step = 1
  /\ \A b \in DOMAIN rounds : learners[b].Weight = rounds[b] * Runs + upto(b, step - 1)
  /\ Benchmarks_finished => registered /\ Runs > 0

LEMMA Upto ==
  /\ \A b : upto(b, 0) = 0
  /\ \A b : \A n \in Nat : upto(b, n) \in Nat
  /\ \A b : \A n \in Nat : upto(b, n + 1) = upto(b, n) + IF BenchPlan[n + 1] = b THEN 1 ELSE 0
  /\ \A b \in DOMAIN rounds : rounds[b] = upto(b, Len(BenchPlan)) /\ rounds[b] \in Nat \ {0}
<1> DEFINE At(b, n) == {i \in 1 .. n : BenchPlan[i] = b}
<1>1. ASSUME NEW b, NEW n \in Nat PROVE IsFiniteSet(At(b, n))
  <2>1. IsFiniteSet(1 .. n)
    BY FS_Interval
  <2>2. At(b, n) \in SUBSET (1 .. n)
    OBVIOUS
  <2> HIDE DEF At
  <2> QED BY <2>1, <2>2, FS_Subset
<1>2. \A b : At(b, 0) = {}
  OBVIOUS
<1>3. ASSUME NEW b, NEW n \in Nat
      PROVE  At(b, n + 1) = IF BenchPlan[n + 1] = b THEN At(b, n) \cup {n + 1} ELSE At(b, n)
  OBVIOUS
<1>4. \A b : \A n \in Nat : n + 1 \notin At(b, n)
  OBVIOUS
<1>5. DOMAIN BenchPlan = 1 .. Len(BenchPlan) /\ Len(BenchPlan) \in Nat
  BY Constants
<1>6. ASSUME NEW b \in DOMAIN rounds
      PROVE  rounds[b] = Cardinality(At(b, Len(BenchPlan))) /\ At(b, Len(BenchPlan)) # {}
  BY <1>5 DEF rounds
<1> HIDE DEF At
<1>7. \A b : \A n \in Nat : Cardinality(At(b, n)) \in Nat
  BY <1>1, FS_CardinalityType
<1>8. ASSUME NEW b, NEW n \in Nat
      PROVE  Cardinality(At(b, n + 1))
               = Cardinality(At(b, n)) + IF BenchPlan[n + 1] = b THEN 1 ELSE 0
  <2>1. Cardinality(At(b, n) \cup {n + 1}) = Cardinality(At(b, n)) + 1
    BY <1>1, <1>4, FS_AddElement
  <2>2. Cardinality(At(b, n)) \in Nat
    BY <1>7
  <2> QED BY <1>3, <2>1, <2>2
<1>9. \A b : Cardinality(At(b, 0)) = 0
  BY <1>2, FS_EmptySet
<1>10. \A b \in DOMAIN rounds : rounds[b] # 0
  BY <1>1, <1>5, <1>6, FS_EmptySet
<1>11. \A b, n : upto(b, n) = Cardinality(At(b, n))
  BY DEF upto, At
<1> QED BY <1>5, <1>6, <1>7, <1>8, <1>9, <1>10, <1>11

\* A sample of serve's own counts in its row and in no other.
LEMMA OwnCounted ==
  ASSUME Standing, NEW b \in own_rows, NEW d \in Durs, serve # "absent",
         Reg!handle_ssu_A(b, no_variant, d)
  PROVE  /\ learners'[b].Weight = learners[b].Weight + 1
         /\ \A k \in Keys \ {b} : learners'[k] = learners[k]
         /\ registered /\ registered'
<1> DEFINE o == own_sample(b, d)
<1>1. now \in Registries /\ b \in Names /\ b \in Keys
  BY NowTyped, OwnNames, NameIsKey DEF Standing
<1>2. registered /\ registered' /\ Reg!found(now.learners, b)
  BY DEF Standing, IInv, InitOnce, OwnFound, now, Reg!handle_ssu_A
<1>3. o.name = b /\ o.variant = no_variant /\ o.dur = d /\ Accountable(o)
  BY <1>1, OwnAccountable DEF no_variant
<1>4. now' = handled(now, o)
  <2> HIDE DEF o
  <2> QED BY <1>3, ServeHandles DEF Standing
<1>5. CountsOwn(now', now, b, d)
  BY <1>1, <1>2, <1>4, OwnShape
<1>6. learners'[b] = Reg!after2(learners[b], d) /\ \A k \in Keys \ {b} : learners'[k] = learners[k]
  BY <1>5 DEF CountsOwn, now
<1>7. Reg!after2(learners[b], d).Weight = learners[b].Weight + 1
  <2>1. learners[b] \in Reg!Learner
    BY <1>1 DEF Registries, now
  <2> QED BY <2>1 DEF Reg!after2, Reg!Learner
<1> QED BY <1>2, <1>6, <1>7

\* The application's samples pass the rows of serve's own.
LEMMA OthersPass ==
  ASSUME Standing, OwnApart, ServeSample
  PROVE  UNCHANGED registered /\ \A k \in own_rows : learners'[k] = learners[k]
<1> PICK m : m = Head(outer)
  OBVIOUS
<1>1. outer # << >> /\ m.ttype = "A" /\ Reg!handle_ssu_A(m.name, m.variant, m.dur)
  BY DEF ServeSample, receive, handle_msg_A
<1>2. 1 \in 1 .. Len(outer) /\ m = outer[1]
  BY <1>1 DEF Standing, IInv, Typed
<1>3. SampleOK(m) /\ NamedMsg(m)
  BY <1>2 DEF Standing, IInv, SamplesOK, Named
<1>4. m.name \in AppNames /\ Accountable(m)
  BY <1>1, <1>3 DEF SampleOK, NamedMsg, Accountable
<1>5. now \in Registries /\ now' = handled(now, m)
  BY <1>1, <1>4, NowTyped, ServeHandles DEF Standing
<1>6. Handles(now', now, m)
  BY <1>4, <1>5, HandledShape
<1>7. key_of(m) \notin own_rows
  BY <1>4 DEF OwnApart, key_of, Accountable
<1>8. m.name \notin own_rows
  <2>1. Reg!span_key_form(m.name, no_variant) = m.name
    BY DEF Reg!span_key_form, no_variant
  <2> QED BY <1>4, <2>1, NoVariant DEF OwnApart
<1>9. \A k \in Keys \ {m.name, key_of(m)} : learners'[k] = learners[k]
  <2>1. \A k \in Keys \ {m.name, key_of(m)} : now'.learners[k] = now.learners[k]
    BY <1>6, Zenon DEF Handles
  <2> QED BY <2>1 DEF now
<1>10. \A k \in own_rows : k \in Keys
  BY OwnNames, NameIsKey
<1>11. UNCHANGED registered
  BY <1>1 DEF Reg!handle_ssu_A
<1> QED BY <1>7, <1>8, <1>9, <1>10, <1>11

\* The weights of all benchmarks and of the runs, one by one.
LEMMA PlanRows ==
  ASSUME PlanApart, NEW b \in DOMAIN rounds
  PROVE  b \in own_rows /\ b \in Keys /\ BENCH_SPAN \in Keys /\ b # BENCH_SPAN /\ b # REPORT_SPAN
<1>1. b \in own_rows /\ b # BENCH_SPAN /\ b # REPORT_SPAN
  BY OwnRows DEF rounds, PlanApart
<1> QED BY <1>1, OwnNames, NameIsKey, Constants

LEMMA Weights ==
  ASSUME Standing, NEW k \in Keys
  PROVE  learners[k].Weight \in Nat
<1>1. learners[k] \in Reg!Learner
  BY NowTyped DEF Standing, now, Registries
<1> QED BY <1>1 DEF Reg!Learner

\* A step that leaves the rows of the benchmarks, and serve's place, alone.
LEMMA WholeKept ==
  ASSUME WholeSoFar, PlanApart, UNCHANGED <<step, Benchmarks_finished>>,
         serve' # serve => serve' # "benchmarks" /\ serve # "benchmarks",
         registered => registered',
         \A b \in DOMAIN rounds \cup {BENCH_SPAN} : learners'[b] = learners[b]
  PROVE  WholeSoFar'
<1>1. Runs' = Runs
  BY DEF Runs
<1>2. ASSUME NEW b \in DOMAIN rounds
      PROVE  learners'[b].Weight = rounds[b] * Runs' + upto(b, step' - 1)
  BY <1>1, <1>2 DEF WholeSoFar
<1>3. serve' # "benchmarks" => step' = 1
  BY DEF WholeSoFar
<1> QED BY <1>1, <1>2, <1>3 DEF WholeSoFar

LEMMA WholeRegister ==
  ASSUME Standing, WholeSoFar, NEW g \in Goroutines, InitBuild(g)
  PROVE  WholeSoFar'
<1>1. /\ ~registered /\ serve = "absent" /\ UNCHANGED <<serve, step, Benchmarks_finished>>
      /\ \E spans_app \in AppSpans : Reg!register(spans_app)
  BY DEF InitBuild, Standing, IInv, InitOnce, InitLabels, srvvars, flagvars
<1>2. step = 1 /\ ~Benchmarks_finished
  BY <1>1 DEF WholeSoFar
<1>3. \A k \in Keys : learners'[k].Weight = 0
  <2>1. \A kind : Reg!fresh(kind).Weight = 0
    BY DEF Reg!fresh
  <2>2. \A k \in Keys : learners'[k] = Reg!fresh("LL") \/ learners'[k] = Reg!NoLearner
    BY <1>1 DEF Reg!register, Keys
  <2> QED BY <2>1, <2>2 DEF Reg!NoLearner
<1>4. \A b \in DOMAIN rounds : b \in Keys
  BY OwnRows, OwnNames, NameIsKey DEF rounds
<1>5. Runs' = 0
  BY <1>3, NameIsKey, Constants DEF Runs
<1>6. ASSUME NEW b \in DOMAIN rounds
      PROVE  learners'[b].Weight = rounds[b] * Runs' + upto(b, step' - 1)
  <2>1. learners'[b].Weight = 0 /\ upto(b, 0) = 0 /\ rounds[b] \in Nat
    BY <1>3, <1>4, Upto
  <2>2. step' - 1 = 0
    BY <1>1, <1>2
  <2> QED BY <1>5, <2>1, <2>2
<1> QED BY <1>1, <1>2, <1>6 DEF WholeSoFar

\* The three samples that serve takes by itself.
LEMMA WholeReport ==
  ASSUME Standing, PlanApart, WholeSoFar, ReportDone
  PROVE  WholeSoFar'
<1>1. /\ serve = "report" /\ serve' = "select" /\ step' = 1 /\ UNCHANGED Benchmarks_finished
      /\ \E d \in Durs : Reg!handle_ssu_A(REPORT_SPAN, no_variant, d)
  BY DEF ReportDone, back_to_select, after_and_update, flagvars
<1>2. step' = step
  BY <1>1 DEF WholeSoFar
<1>3. registered' /\ \A k \in Keys \ {REPORT_SPAN} : learners'[k] = learners[k]
  BY <1>1, OwnRows, OwnCounted
<1>4. \A b \in DOMAIN rounds \cup {BENCH_SPAN} : b \in Keys \ {REPORT_SPAN}
  BY PlanRows, NameIsKey, Constants DEF BENCH_SPAN, REPORT_SPAN
<1> QED BY <1>1, <1>2, <1>3, <1>4, WholeKept

LEMMA WholeSample ==
  ASSUME Standing, PlanApart, WholeSoFar, BenchmarkSample
  PROVE  WholeSoFar'
<1>1. /\ serve = "benchmarks" /\ serve' = "benchmarks" /\ step' = step + 1
      /\ UNCHANGED Benchmarks_finished /\ step \in 1 .. Len(BenchPlan) /\ step - 1 \in Nat
      /\ \E d \in Durs : Reg!handle_ssu_A(BenchPlan[step], no_variant, d)
  BY DEF BenchmarkSample, after_and_update, flagvars, Standing, IInv, Typed
<1> PICK p : p = BenchPlan[step]
  OBVIOUS
<1>2. p \in own_rows /\ p \in DOMAIN rounds
  BY <1>1, OwnRows, Constants DEF rounds
<1>3. /\ learners'[p].Weight = learners[p].Weight + 1 /\ registered'
      /\ \A k \in Keys \ {p} : learners'[k] = learners[k]
  BY <1>1, <1>2, OwnCounted
<1>4. Runs' = Runs
  BY <1>2, <1>3, PlanRows DEF Runs
<1>5. ASSUME NEW b \in DOMAIN rounds
      PROVE  learners'[b].Weight = rounds[b] * Runs' + upto(b, step' - 1)
  <2>1. learners'[b].Weight = learners[b].Weight + IF p = b THEN 1 ELSE 0
    <3>1. b \in Keys /\ learners[b].Weight \in Nat
      BY PlanRows, Weights
    <3> QED BY <1>3, <3>1
  <2>2. upto(b, step) = upto(b, step - 1) + IF p = b THEN 1 ELSE 0
    <3>1. upto(b, (step - 1) + 1) = upto(b, step - 1) + IF BenchPlan[(step - 1) + 1] = b THEN 1 ELSE 0
      BY <1>1, Upto
    <3>2. (step - 1) + 1 = step
      BY <1>1
    <3> QED BY <3>1, <3>2
  <2>3. learners[b].Weight = rounds[b] * Runs + upto(b, step - 1)
    BY DEF WholeSoFar
  <2>4. rounds[b] * Runs \in Int /\ upto(b, step - 1) \in Int
    <3>1. rounds[b] \in Nat /\ Runs \in Nat /\ upto(b, step - 1) \in Nat
      BY <1>1, Upto, PlanRows, Weights DEF Runs
    <3> QED BY <3>1
  <2>5. step' - 1 = step
    BY <1>1
  <2> PICK rr : rr = rounds[b] * Runs
    OBVIOUS
  <2> QED BY <1>4, <2>1, <2>2, <2>3, <2>4, <2>5
<1> QED BY <1>1, <1>3, <1>4, <1>5 DEF WholeSoFar

LEMMA WholeDone ==
  ASSUME Standing, PlanApart, WholeSoFar, step \in 1 .. Len(BenchPlan) + 1, BenchmarksDone
  PROVE  WholeSoFar'
<1>1. /\ serve = "benchmarks" /\ serve' = "select" /\ step' = 1
      /\ step - 1 = Len(BenchPlan)
      /\ \E d \in Durs : Reg!handle_ssu_A(BENCH_SPAN, no_variant, d)
  BY Constants DEF BenchmarksDone, plan_over, back_to_select, after_and_update
<1>2. /\ learners'[BENCH_SPAN].Weight = learners[BENCH_SPAN].Weight + 1 /\ registered'
      /\ \A k \in Keys \ {BENCH_SPAN} : learners'[k] = learners[k]
  BY <1>1, OwnRows, OwnCounted
<1>3. Runs' = Runs + 1 /\ Runs \in Nat
  BY <1>2, Weights, NameIsKey, Constants DEF Runs
<1>4. ASSUME NEW b \in DOMAIN rounds
      PROVE  learners'[b].Weight = rounds[b] * Runs' + upto(b, step' - 1)
  <2>1. learners'[b].Weight = rounds[b] * Runs + upto(b, step - 1)
    BY <1>2, PlanRows DEF WholeSoFar
  <2>2. upto(b, step - 1) = rounds[b] /\ rounds[b] \in Nat
    BY <1>1, Upto
  <2>3. step' - 1 = 0 /\ upto(b, 0) = 0
    BY <1>1, Upto
  <2>4. rounds[b] * (Runs + 1) = rounds[b] * Runs + rounds[b]
    BY <1>3, <2>2
  <2> QED BY <1>3, <2>1, <2>2, <2>3, <2>4
<1> QED BY <1>1, <1>2, <1>3, <1>4 DEF WholeSoFar

LEMMA NextWhole ==
  ASSUME Standing, OwnApart, PlanApart, WholeSoFar, step \in 1 .. Len(BenchPlan) + 1, [Next]_vars
  PROVE  WholeSoFar'
<1>1. CASE ServeSample
  <2>1. UNCHANGED <<step, Benchmarks_finished, serve>>
    BY <1>1 DEF ServeSample, srvvars, flagvars
  <2>2. UNCHANGED registered /\ \A k \in own_rows : learners'[k] = learners[k]
    BY <1>1, OthersPass
  <2>3. \A b \in DOMAIN rounds \cup {BENCH_SPAN} : b \in own_rows
    BY PlanRows, OwnRows
  <2> QED BY <2>1, <2>2, <2>3, WholeKept
<1>2. CASE \/ ServeStart \/ ServeValues \/ ServeReport \/ ReportFail \/ ServeStop \/ ServeFinish
           \/ UNCHANGED vars
  <2>1. UNCHANGED <<regvars, Benchmarks_finished>>
    BY <1>2 DEF ServeStart, ServeValues, ServeReport, ReportFail, ServeStop, ServeFinish, flagvars,
           vars
  <2>2. serve' # serve => serve' # "benchmarks" /\ serve # "benchmarks"
    BY <1>2 DEF ServeStart, ServeValues, ServeReport, ReportFail, ServeStop, ServeFinish,
           back_to_select, leave_serve, receive, srvvars, vars
  <2>3. step' = step
    BY <1>2 DEF ServeStart, ServeValues, ServeReport, ReportFail, ServeStop, ServeFinish,
           back_to_select, srvvars, vars, WholeSoFar
  <2> QED BY <2>1, <2>2, <2>3, WholeKept DEF regvars
<1>3. CASE ServeBenchmarks
  <2>1. UNCHANGED <<regvars, Benchmarks_finished>> /\ serve = "select" /\ step' = 1
    BY <1>3 DEF ServeBenchmarks, receive
  <2>2. step = 1
    BY <2>1 DEF WholeSoFar
  <2>3. Runs' = Runs /\ UNCHANGED <<learners, registered>>
    BY <2>1 DEF Runs, regvars
  <2> QED BY <2>1, <2>2, <2>3 DEF WholeSoFar
<1>4. ASSUME NEW g \in Goroutines, Enter(g) \/ Inside(g) \/ Send(g), ~InitBuild(g)
      PROVE  WholeSoFar'
  <2>1. UNCHANGED <<regvars, step, Benchmarks_finished>>
    BY <1>4 DEF Enter, InitCall, CallRefused, SelfStart, Call, Begin, EndTest, EndIgnored, vars,
       Inside, OnceEnter, OnceReturn, InitComplete, InitGo, EndMark, EndRefused, EndSubmit,
       SelfSample, SelfAbort, SelfDone, CallReturn, Send, srvvars, flagvars
  <2>2. UNCHANGED serve \/ InitGo(g)
    BY <1>4 DEF Enter, InitCall, CallRefused, SelfStart, Call, Begin, EndTest, EndIgnored, vars,
       Inside, OnceEnter, OnceReturn, InitComplete, EndMark, EndRefused, EndSubmit,
       SelfSample, SelfAbort, SelfDone, CallReturn, Send, srvvars
  <2>3. InitGo(g) => serve = "absent" /\ serve' = "start"
    BY DEF InitGo, Standing, IInv, InitOnce, InitLabels
  <2> QED BY <2>1, <2>2, <2>3, WholeKept DEF regvars
<1> QED
  BY <1>1, <1>2, <1>3, <1>4, WholeRegister, WholeReport, WholeSample, WholeDone DEF Next, Serve

LEMMA WholeHolds ==
  ASSUME VariantsJoin, OwnApart, PlanApart
  PROVE  Spec => []WholeSoFar
<1>1. Init => WholeSoFar
  <2> SUFFICES ASSUME Init PROVE WholeSoFar
    OBVIOUS
  <2>1. step = 1 /\ ~Benchmarks_finished /\ \A k \in Keys : learners[k].Weight = 0
    BY DEF Init, Reg!Init, Reg!NoLearner, Reg!fresh, Keys
  <2>2. ASSUME NEW b \in DOMAIN rounds
        PROVE  learners[b].Weight = rounds[b] * Runs + upto(b, step - 1)
    <3>1. b \in Keys /\ BENCH_SPAN \in Keys
      BY PlanRows
    <3>2. learners[b].Weight = 0 /\ Runs = 0
      BY <2>1, <3>1 DEF Runs
    <3>3. rounds[b] \in Nat /\ upto(b, 0) = 0 /\ step - 1 = 0
      BY <2>1, Upto
    <3> QED BY <3>2, <3>3
  <2> QED BY <2>1, <2>2 DEF WholeSoFar
<1>2. Standing /\ TypeOK /\ WholeSoFar /\ [Next]_vars => WholeSoFar'
  BY NextWhole DEF TypeOK
<1> QED BY <1>1, <1>2, StandingHolds, LatLearnTypeCorrect, PTL DEF Spec

(***************************************************************************)
(* Every benchmark run is whole.  However long a run takes and whatever    *)
(* the goroutines put into the channel meanwhile, between runs each row of *)
(* a benchmark has the samples of exactly as many runs as there were.      *)
(***************************************************************************)
THEOREM BenchmarksAreWhole ==
  ASSUME VariantsJoin, OwnApart, PlanApart
  PROVE  Spec => []BenchmarksWhole
<1>1. Standing /\ WholeSoFar => BenchmarksWhole
  <2> SUFFICES ASSUME Standing, WholeSoFar, serve # "benchmarks", NEW b \in DOMAIN rounds
               PROVE  learners[b].Weight = rounds[b] * learners[BENCH_SPAN].Weight
    BY DEF BenchmarksWhole
  <2>1. step - 1 = 0 /\ upto(b, 0) = 0 /\ rounds[b] \in Nat
    BY Upto DEF WholeSoFar
  <2>2. learners[b].Weight = rounds[b] * Runs + 0
    BY <2>1 DEF WholeSoFar
  <2>3. rounds[b] * Runs \in Int
    <3>1. Runs \in Nat
      BY PlanRows, Weights DEF Runs
    <3> QED BY <2>1, <3>1
  <2> QED BY <2>2, <2>3 DEF Runs
<1> QED BY <1>1, StandingHolds, WholeHolds, PTL

-------------------------------------------------------------------------------
(***************************************************************************)
(* What the benchmarks leave in a report: a line for each, and data in it. *)
(***************************************************************************)
Expects(k) == \E j \in DOMAIN expected : expected[j] = k

\* Every span that can be sampled is expected, and every row is.
AllExpected ==
  /\ registered => \A k \in AppNames \cup own_rows : Expects(k)
  /\ \A k \in Keys : Reg!found(learners, k) => Expects(k)

LEMMA SampleExpected ==
  ASSUME Standing, AllExpected, NoAdHoc, registered, NEW m, Accountable(m),
         m.name \in AppNames \cup own_rows, Reg!handle_ssu_A(m.name, m.variant, m.dur)
  PROVE  AllExpected'
<1>1. UNCHANGED <<registered, expected>>
  BY DEF Reg!handle_ssu_A
<1>2. key_of(m) = m.name
  <2>1. m.variant = no_variant
    BY DEF NoAdHoc, Accountable
  <2> QED BY <2>1 DEF key_of, Reg!span_key_form, no_variant
<1>3. Handles(now', now, m)
  BY NowTyped, ServeHandles, HandledShape DEF Standing
<1>4. \A k \in Keys \ {m.name} : learners'[k] = learners[k]
  <2>1. \A k \in Keys \ {m.name, key_of(m)} : now'.learners[k] = now.learners[k]
    BY <1>3, Zenon DEF Handles
  <2> QED BY <1>2, <2>1 DEF now
<1> QED BY <1>1, <1>4 DEF AllExpected, Expects, Reg!found

LEMMA OwnExpected ==
  ASSUME Standing, AllExpected, NoAdHoc, NEW b \in own_rows, NEW d \in Durs, registered,
         Reg!handle_ssu_A(b, no_variant, d)
  PROVE  AllExpected'
<1> PICK o : o = own_sample(b, d)
  OBVIOUS
<1>1. o.name = b /\ o.variant = no_variant /\ o.dur = d /\ Accountable(o)
  BY OwnNames, OwnAccountable DEF no_variant
<1> QED BY <1>1, SampleExpected

LEMMA RegisterExpected ==
  ASSUME OwnApart, NoAdHoc, NEW spans_app \in AppSpans, Reg!register(spans_app)
  PROVE  AllExpected'
<1> DEFINE spans == spans_app \o Builtins
<1>1. spans_app \in Seq(Names) /\ Builtins \in Seq(Names)
  BY LatLearnAssumption DEF Reg!ConstantsOK
<1>2. /\ expected' = spans
      /\ learners' = [k \in Keys |-> IF k \in Reg!Range(spans) THEN Reg!fresh("LL") ELSE Reg!NoLearner]
  BY DEF Reg!register, Keys
<1>3. \A i \in DOMAIN Builtins : \E j \in DOMAIN spans : spans[j] = Builtins[i]
  <2>1. ASSUME NEW i \in DOMAIN Builtins
        PROVE  Len(spans_app) + i \in DOMAIN spans /\ spans[Len(spans_app) + i] = Builtins[i]
    BY <1>1
  <2> QED BY <2>1
<1>4. \A k \in AppNames \cup own_rows : \E j \in DOMAIN spans : spans[j] = k
  <2>1. \A k \in own_rows : \E i \in DOMAIN Builtins : Builtins[i] = k
    BY DEF OwnApart
  <2>2. \A k \in AppNames : \E j \in DOMAIN spans : spans[j] = k
    BY DEF NoAdHoc
  <2> QED BY <1>3, <2>1, <2>2
<1>5. \A k : k \in Reg!Range(spans) => \E j \in DOMAIN spans : spans[j] = k
  BY DEF Reg!Range
<1> HIDE DEF spans
<1>6. \A k \in Keys : Reg!found(learners', k) => k \in Reg!Range(spans)
  BY <1>2 DEF Reg!found, Reg!NoLearner, Reg!fresh
<1> QED BY <1>2, <1>4, <1>5, <1>6 DEF AllExpected, Expects

LEMMA NextExpected ==
  ASSUME Standing, OwnApart, NoAdHoc, AllExpected, [Next]_vars
  PROVE  AllExpected'
<1>1. serve # "absent" => registered
  BY DEF Standing, IInv, InitOnce
<1>2. CASE ServeSample
  <2> PICK m : m = Head(outer)
    OBVIOUS
  <2>1. /\ outer # << >> /\ serve = "select" /\ m.ttype = "A"
        /\ Reg!handle_ssu_A(m.name, m.variant, m.dur)
    BY <1>2 DEF ServeSample, receive, handle_msg_A
  <2>2. 1 \in 1 .. Len(outer) /\ m = outer[1]
    BY <2>1 DEF Standing, IInv, Typed
  <2>3. m.name \in AppNames /\ Accountable(m)
    BY <2>1, <2>2 DEF Standing, IInv, SamplesOK, Named, SampleOK, NamedMsg, Accountable
  <2> QED BY <1>1, <2>1, <2>3, SampleExpected
<1>3. CASE ReportDone \/ BenchmarkSample \/ BenchmarksDone
  <2>1. serve # "absent" /\ \E b \in own_rows, d \in Durs : Reg!handle_ssu_A(b, no_variant, d)
    <3>1. CASE BenchmarkSample
      <4>1. step \in 1 .. Len(BenchPlan) /\ serve = "benchmarks" /\ after_and_update(BenchPlan[step])
        BY <3>1 DEF BenchmarkSample, Standing, IInv, Typed
      <4>2. BenchPlan[step] \in own_rows
        BY <4>1, OwnRows, Constants
      <4> QED BY <4>1, <4>2 DEF after_and_update
    <3>2. CASE ReportDone \/ BenchmarksDone
      BY <3>2, OwnRows DEF ReportDone, BenchmarksDone, after_and_update
    <3> QED BY <1>3, <3>1, <3>2
  <2> QED BY <1>1, <2>1, OwnExpected
<1>4. CASE UNCHANGED regvars
  BY <1>4 DEF regvars, AllExpected, Expects
<1>5. ASSUME NEW g \in Goroutines, InitBuild(g) PROVE AllExpected'
  BY <1>5, RegisterExpected DEF InitBuild
<1>6. Serve => \/ ServeSample \/ ReportDone \/ BenchmarkSample \/ BenchmarksDone
               \/ UNCHANGED regvars
  BY DEF Serve, ServeStart, ServeValues, ServeReport, ReportFail, ServeBenchmarks, ServeStop,
         ServeFinish
<1>7. ASSUME NEW g \in Goroutines, Enter(g) \/ Inside(g) \/ Send(g), ~InitBuild(g)
      PROVE  UNCHANGED regvars
  BY <1>7 DEF Enter, InitCall, CallRefused, SelfStart, Call, Begin, EndTest, EndIgnored, vars,
     Inside, OnceEnter, OnceReturn, InitComplete, InitGo, EndMark, EndRefused, EndSubmit,
     SelfSample, SelfAbort, SelfDone, CallReturn, Send
<1>8. UNCHANGED vars => UNCHANGED regvars
  BY DEF vars
<1> QED BY <1>2, <1>3, <1>4, <1>5, <1>6, <1>7, <1>8 DEF Next

\* After a run the row of each benchmark, and that of the runs, has a sample.
LEMMA RunsFill ==
  ASSUME Standing, PlanApart, ListsAgree, WholeSoFar, Benchmarks_finished,
         NEW i \in DOMAIN Builtins, Builtins[i] \notin {OVERHEAD_SPAN, REPORT_SPAN}
  PROVE  Builtins[i] \in Keys /\ learners[Builtins[i]].Weight > 0
<1> PICK k : k = Builtins[i]
  OBVIOUS
<1>1. k \in own_rows /\ k # REPORT_SPAN
  BY DEF ListsAgree
<1>2. k \in Keys /\ Runs \in Nat /\ Runs > 0
  BY <1>1, OwnNames, NameIsKey, Constants, Weights DEF Runs, WholeSoFar
<1>3. CASE k = BENCH_SPAN
  BY <1>2, <1>3 DEF Runs
<1>4. CASE k # BENCH_SPAN
  <2>1. k \in DOMAIN rounds
    BY <1>1, <1>4 DEF own_rows, rounds
  <2>2. rounds[k] \in Nat /\ rounds[k] >= 1 /\ Runs >= 1
    BY <1>2, <2>1, Upto
  <2>3. step - 1 \in Nat /\ upto(k, step - 1) \in Nat
    <3>1. step - 1 \in Nat
      BY DEF Standing, IInv, Typed
    <3> QED BY <3>1, Upto
  <2>4. learners[k].Weight = rounds[k] * Runs + upto(k, step - 1)
    BY <2>1 DEF WholeSoFar
  <2>5. \A r, w \in Nat : r >= 1 /\ w >= 1 => r * w \in Nat /\ r * w >= 1
    OBVIOUS
  <2>6. rounds[k] * Runs \in Nat /\ rounds[k] * Runs >= 1
    BY <1>2, <2>2, <2>5
  <2> PICK rr : rr = rounds[k] * Runs
    OBVIOUS
  <2> QED BY <1>2, <2>3, <2>4, <2>6
<1> QED BY <1>2, <1>3, <1>4

(***************************************************************************)
(* The benchmarks fill their lines.  In an application that uses only what *)
(* it told Init of, nothing is ever added to the report order, and after a *)
(* run every built-in line but those of the no-ops and the reports has     *)
(* data, provided that the two lists of benchmarks in the code agree.      *)
(***************************************************************************)
THEOREM BenchmarksFill ==
  ASSUME VariantsJoin, OwnApart, PlanApart, ListsAgree, NoAdHoc
  PROVE  Spec => []BenchmarksFillTheirLines
<1>1. Init => AllExpected
  BY DEF Init, AllExpected, Reg!Init, Reg!found, Reg!NoLearner, Reg!fresh, Keys
<1>2. Standing /\ AllExpected /\ [Next]_vars => AllExpected'
  BY NextExpected
<1>3. Standing /\ AllExpected /\ WholeSoFar /\ RP!RowCoherent => BenchmarksFillTheirLines
  <2> SUFFICES ASSUME Standing, AllExpected, WholeSoFar, RP!RowCoherent
               PROVE  BenchmarksFillTheirLines
    OBVIOUS
  <2>1. ASSUME NEW i \in DOMAIN tracked_spans
        PROVE  \E j \in DOMAIN expected : tracked_spans[i] = expected[j]
    <3>1. tracked_spans[i] \in RP!Range(tracked_spans)
      BY DEF RP!Range
    <3>2. tracked_spans[i] \in Keys /\ Reg!found(learners, tracked_spans[i])
      BY <3>1, SameRows DEF Standing, RP!ReportOrderSound, Keys
    <3> QED BY <3>2 DEF AllExpected, Expects
  <2>2. ASSUME Benchmarks_finished, NEW i \in DOMAIN Builtins,
               Builtins[i] \notin {OVERHEAD_SPAN, REPORT_SPAN}
        PROVE  learners[Builtins[i]].Pair_ever_completed
    <3>1. Builtins[i] \in Keys /\ learners[Builtins[i]].Weight > 0
      BY <2>2, RunsFill
    <3> QED BY <3>1, SameRows DEF RP!RowCoherent, Keys
  <2> QED BY <2>1, <2>2 DEF BenchmarksFillTheirLines
<1>4. Spec => []RP!RowCoherent
  BY StatisticsSound, PTL
<1> QED BY <1>1, <1>2, <1>3, <1>4, StandingHolds, WholeHolds, PTL DEF Spec

-------------------------------------------------------------------------------
(***************************************************************************)
(* What the rows of the application count.  A sample carries the name and  *)
(* the variant of a span that has ended and does not change any more; what *)
(* serve makes of it is one more in the rows of these two keys, whatever   *)
(* else happened since.                                                    *)
(***************************************************************************)
\* The sample of a span carries its name and the variant it ended with.
Carries(m, objects) ==
  m.ttype = "A" =>
    IF m.span = None THEN m.name = OVERHEAD_SPAN /\ m.variant = no_variant
    ELSE LET s == objects[m.span] IN s.Ended /\ m.name = s.Name /\ m.variant = s.Variant

Carried ==
  /\ \A k \in 1 .. Len(outer) : Carries(outer[k], ssu)
  /\ \A g \in Goroutines : Carries(go[g].out, ssu)

\* Nothing is counted before init_inner.
Unrecorded == ~registered => \A s \in Spans : recorded[s] = 0

CountsIn(k) ==
  /\ IsFiniteSet(counted_in(k))
  /\ learners[k].Weight = Cardinality(counted_in(k))

app_keys == Keys \ (own_rows \cup {OVERHEAD_SPAN})

RowsExact == \A k \in app_keys : CountsIn(k)

Tallied == Carried /\ Unrecorded /\ RowsExact

\* A span that has ended stays as it is.
LEMMA EndedStays ==
  ASSUME NotShared, IInv, OnePlace, [Next]_vars, NEW s \in Spans, ssu[s].Ended
  PROVE  ssu'[s] = ssu[s]
<1>1. ssu \in [Spans -> SSU] /\ ssu[s].begun
  BY DEF IInv, Typed, OnePlace
<1>2. CASE UNCHANGED ssu
  BY <1>2
<1>3. ASSUME NEW g \in Goroutines, NEW t \in Spans, NEW b \in Begins, Begin(g, t, b[1], b[2])
      PROVE  ssu'[s] = ssu[s]
  BY <1>1, <1>3 DEF Begin
<1>4. ASSUME NEW g \in Goroutines, EndMark(g) PROVE ssu'[s] = ssu[s]
  <2>1. go[g].handle \in Spans /\ ~ssu[go[g].handle].Ended
    BY <1>4 DEF EndMark, IInv, EndsOK
  <2> QED BY <1>1, <1>4, <2>1 DEF EndMark
<1>5. CASE Serve
  BY <1>2, <1>5 DEF Serve, ServeStart, ServeSample, ServeValues, ServeReport, ReportFail,
     ReportDone, ServeBenchmarks, BenchmarkSample, BenchmarksDone, ServeStop, ServeFinish
<1>6. ASSUME NEW g \in Goroutines, Enter(g) PROVE ssu'[s] = ssu[s]
  BY <1>2, <1>3, <1>6 DEF Enter, InitCall, CallRefused, SelfStart, Call, EndTest, EndIgnored, vars
<1>7. ASSUME NEW g \in Goroutines, Inside(g) PROVE ssu'[s] = ssu[s]
  BY <1>2, <1>4, <1>7 DEF Inside, OnceEnter, OnceReturn, InitBuild, InitComplete, InitGo,
     EndRefused, EndSubmit, SelfSample, SelfAbort, SelfDone, CallReturn
<1>8. ASSUME NEW g \in Goroutines, Send(g) PROVE ssu'[s] = ssu[s]
  BY <1>2, <1>8 DEF Send
<1> QED BY <1>2, <1>5, <1>6, <1>7, <1>8 DEF Next, vars

LEMMA CarriesStays ==
  ASSUME NotShared, IInv, OnePlace, [Next]_vars, NEW m, m.span \in Spans \cup {None}, Carries(m, ssu)
  PROVE  Carries(m, ssu')
<1>1. CASE m.span = None
  BY <1>1 DEF Carries
<1>2. CASE m.span \in Spans /\ m.ttype = "A"
  <2>1. ssu[m.span].Ended /\ m.span # None
    BY <1>2, Constants DEF Carries
  <2>2. ssu'[m.span] = ssu[m.span]
    BY <1>2, <2>1, EndedStays
  <2> QED BY <1>2, <2>1, <2>2 DEF Carries
<1> QED BY <1>1, <1>2 DEF Carries


LEMMA CarriedTyped ==
  ASSUME IInv
  PROVE  /\ \A k \in 1 .. Len(outer) : outer[k].span \in Spans \cup {None}
         /\ \A g \in Goroutines : go[g].out.span \in Spans \cup {None}
<1>1. outer \in Seq(Msg) /\ go \in [Goroutines -> Goroutine]
  BY DEF IInv, Typed
<1>2. \A k \in 1 .. Len(outer) : outer[k] \in Msg
  BY <1>1
<1>3. \A g \in Goroutines : go[g].out \in Msg
  BY <1>1 DEF Goroutine
<1>4. \A m \in Msg : m.span \in Spans \cup {None}
  BY DEF Msg
<1> QED BY <1>2, <1>3, <1>4

\* A goroutine takes nothing new in hand, or something that fits its span.
Fits == \A h \in Goroutines : go'[h].out = go[h].out \/ Carries(go'[h].out, ssu')

LEMMA CarriedKept ==
  ASSUME NotShared, IInv, OnePlace, Carried, [Next]_vars, Fits,
         \A k \in 1 .. Len(outer') : Carries(outer'[k], ssu') \/ \E j \in 1 .. Len(outer) : outer'[k] = outer[j]
  PROVE  Carried'
<1>1. ASSUME NEW h \in Goroutines PROVE Carries(go'[h].out, ssu')
  <2>1. Carries(go[h].out, ssu')
    BY CarriedTyped, CarriesStays DEF Carried
  <2> QED BY <2>1 DEF Fits, Carries
<1>2. ASSUME NEW k \in 1 .. Len(outer') PROVE Carries(outer'[k], ssu')
  <2>1. ASSUME NEW j \in 1 .. Len(outer) PROVE Carries(outer[j], ssu')
    BY CarriedTyped, CarriesStays DEF Carried
  <2> QED BY <2>1 DEF Carries
<1> QED BY <1>1, <1>2 DEF Carried, Carries

LEMMA EnterFits ==
  ASSUME IInv, NEW g \in Goroutines, Enter(g)
  PROVE  Fits /\ outer' = outer
<1>1. go \in [Goroutines -> Goroutine]
  BY DEF IInv, Typed
<1>2. ASSUME NEW r \in Requests, NEW k, Call(g, r, k) PROVE Fits /\ outer' = outer
  <2>1. go' = [go EXCEPT ![g].pc = "send", ![g].calls = @ + 1, ![g].chan = comm_outer,
                         ![g].out = request_msg(g, r, k)] /\ outer' = outer
    BY <1>2 DEF Call
  <2>2. request_msg(g, r, k).ttype # "A"
    BY Constants DEF request_msg
  <2> HIDE DEF request_msg
  <2>3. \A h \in Goroutines : go'[h].out = IF h = g THEN request_msg(g, r, k) ELSE go[h].out
    BY <1>1, <2>1 DEF Goroutine
  <2> QED BY <2>1, <2>2, <2>3 DEF Fits, Carries
<1>3. CASE UNCHANGED go /\ outer' = outer
  BY <1>3 DEF Fits
<1>4. ASSUME NEW s \in Spans, NEW b, Begin(g, s, b[1], b[2]) PROVE Fits /\ outer' = outer
  BY <1>3, <1>4 DEF Begin
<1>5. ASSUME NEW s \in Spans, NEW w, EndTest(g, s, w) PROVE Fits /\ outer' = outer
  <2>1. \A h \in Goroutines : go'[h].out = go[h].out
    BY <1>1, <1>5 DEF EndTest, Goroutine
  <2> QED BY <1>5, <2>1 DEF EndTest, Fits
<1>6. CASE InitCall(g) \/ CallRefused(g)
  <2>1. \A h \in Goroutines : go'[h].out = go[h].out
    BY <1>1, <1>6 DEF InitCall, CallRefused, Goroutine
  <2> QED BY <1>6, <2>1 DEF InitCall, CallRefused, Fits
<1>7. ASSUME NEW n, SelfStart(g, n) PROVE Fits /\ outer' = outer
  <2>1. \A h \in Goroutines : go'[h].out = go[h].out
    BY <1>1, <1>7 DEF SelfStart, Goroutine
  <2> QED BY <1>7, <2>1 DEF SelfStart, Fits
<1>8. ASSUME NEW s \in Spans, EndIgnored(g, s) PROVE Fits /\ outer' = outer
  BY <1>3, <1>8 DEF EndIgnored, vars
<1> QED BY <1>2, <1>4, <1>5, <1>6, <1>7, <1>8 DEF Enter

LEMMA InsideFits ==
  ASSUME IInv, OnePlace, NEW g \in Goroutines, Inside(g)
  PROVE  Fits /\ outer' \in {outer, << >>}
<1>1. go \in [Goroutines -> Goroutine]
  BY DEF IInv, Typed
<1>2. CASE SelfSample(g)
  <2>1. PICK d \in Durs :
          go' = [go EXCEPT ![g].pc = "send", ![g].left = @ - 1, ![g].chan = comm_outer,
                           ![g].out = sample_msg(g, OVERHEAD_SPAN, no_variant, d, None)]
    BY <1>2 DEF SelfSample
  <2> DEFINE m == sample_msg(g, OVERHEAD_SPAN, no_variant, d, None)
  <2>2. m.span = None /\ m.name = OVERHEAD_SPAN /\ m.variant = no_variant
    BY DEF sample_msg
  <2>3. go' = [go EXCEPT ![g].pc = "send", ![g].left = @ - 1, ![g].chan = comm_outer, ![g].out = m]
    BY <2>1
  <2> HIDE DEF m
  <2>4. \A h \in Goroutines : go'[h].out = IF h = g THEN m ELSE go[h].out
    BY <1>1, <2>3 DEF Goroutine
  <2> QED BY <1>2, <2>2, <2>4 DEF Fits, Carries, SelfSample
<1>3. CASE EndSubmit(g)
  <2> DEFINE s == go[g].handle
  <2>1. s \in Spans /\ ssu[s].Ended /\ s # None
    BY <1>3, Constants DEF EndSubmit, IInv, EndsOK, OnePlace, UnderWay
  <2>2. PICK d \in Durs :
          go' = [go EXCEPT ![g].pc = "send", ![g].handle = None,
                           ![g].out = sample_msg(g, ssu[s].Name, ssu[s].Variant, d, s)]
    BY <1>3 DEF EndSubmit
  <2> DEFINE m == sample_msg(g, ssu[s].Name, ssu[s].Variant, d, s)
  <2>3. m.span = s /\ m.name = ssu[s].Name /\ m.variant = ssu[s].Variant
    BY DEF sample_msg
  <2>4. go' = [go EXCEPT ![g].pc = "send", ![g].handle = None, ![g].out = m]
    BY <2>2
  <2> HIDE DEF m, s
  <2>5. \A h \in Goroutines : go'[h].out = IF h = g THEN m ELSE go[h].out
    BY <1>1, <2>4 DEF Goroutine
  <2>6. UNCHANGED <<ssu, outer>>
    BY <1>3 DEF EndSubmit
  <2> QED BY <2>1, <2>3, <2>5, <2>6 DEF Fits, Carries
<1>4. CASE OnceEnter(g) \/ OnceReturn(g) \/ InitComplete(g) \/ InitGo(g) \/ InitBuild(g) \/ SelfDone(g) \/ CallReturn(g)
  <2>1. \A h \in Goroutines : go'[h].out = go[h].out
    BY <1>1, <1>4 DEF OnceEnter, OnceReturn, InitComplete, InitGo, InitBuild, SelfDone, CallReturn, goto, Goroutine
  <2>2. outer' \in {outer, << >>}
    BY <1>4 DEF OnceEnter, OnceReturn, InitComplete, InitGo, InitBuild, SelfDone, CallReturn
  <2> QED BY <2>1, <2>2 DEF Fits
<1>5. CASE EndMark(g) \/ EndRefused(g) \/ SelfAbort(g)
  <2>1. \A h \in Goroutines : go'[h].out = go[h].out
    BY <1>1, <1>5 DEF EndMark, EndRefused, SelfAbort, Goroutine
  <2>2. outer' = outer
    BY <1>5 DEF EndMark, EndRefused, SelfAbort
  <2> QED BY <2>1, <2>2 DEF Fits
<1> QED BY <1>2, <1>3, <1>4, <1>5 DEF Inside

LEMMA NextCarried ==
  ASSUME NotShared, IInv, OnePlace, Carried, [Next]_vars
  PROVE  Carried'
<1>1. outer \in Seq(Msg) /\ go \in [Goroutines -> Goroutine]
  BY DEF IInv, Typed
<1>2. CASE UNCHANGED vars
  BY <1>2, CarriedKept DEF vars, Fits
<1>3. ASSUME NEW g \in Goroutines, Enter(g) \/ Inside(g) PROVE Carried'
  <2>1. Fits /\ outer' \in {outer, << >>}
    BY <1>3, EnterFits, InsideFits
  <2>2. \A k \in 1 .. Len(outer') : \E j \in 1 .. Len(outer) : outer'[k] = outer[j]
    BY <2>1
  <2> QED BY <2>1, <2>2, CarriedKept
<1>4. CASE Serve
  <2>1. go' = go /\ (outer' = outer \/ (outer # << >> /\ outer' = Tail(outer)))
    BY <1>4 DEF Serve, ServeStart, ServeSample, ServeValues, ServeReport, ReportFail, ReportDone,
           ServeBenchmarks, BenchmarkSample, BenchmarksDone, ServeStop, ServeFinish, receive,
           after_and_update
  <2>2. \A k \in 1 .. Len(outer') : \E j \in 1 .. Len(outer) : outer'[k] = outer[j]
    <3>1. CASE outer' = outer
      BY <3>1
    <3>2. CASE outer # << >> /\ outer' = Tail(outer)
      <4>1. \A k \in 1 .. Len(outer') : k + 1 \in 1 .. Len(outer) /\ outer'[k] = outer[k + 1]
        BY <1>1, <3>2, HeadTailProperties
      <4> QED BY <4>1
    <3> QED BY <2>1, <3>1, <3>2
  <2> QED BY <2>1, <2>2, CarriedKept DEF Fits
<1>5. ASSUME NEW g \in Goroutines, Send(g) PROVE Carried'
  <2> DEFINE m == go[g].out
  <2>1. outer' = Append(outer, m) /\ m \in Msg /\ Carries(m, ssu)
    BY <1>1, <1>5 DEF Send, enqueue, Goroutine, Carried
  <2>2. go' = [go EXCEPT ![g].pc = after_send(m), ![g].chan = "nil", ![g].out = NoMsg]
    BY <1>5 DEF Send
  <2>3. Carries(m, ssu')
    BY <1>1, <2>1, CarriesStays DEF Msg
  <2> HIDE DEF m
  <2>4. \A h \in Goroutines : go'[h].out = IF h = g THEN NoMsg ELSE go[h].out
    BY <1>1, <2>2 DEF Goroutine
  <2>5. \A k \in 1 .. Len(outer') : outer'[k] = m \/ (k \in 1 .. Len(outer) /\ outer'[k] = outer[k])
    BY <1>1, <2>1
  <2>6. Fits
    BY <2>4 DEF Fits, Carries, NoMsg, request_msg
  <2>7. \A k \in 1 .. Len(outer') : Carries(outer'[k], ssu') \/ \E j \in 1 .. Len(outer) : outer'[k] = outer[j]
    BY <2>3, <2>5 DEF Carries
  <2> QED BY <2>6, <2>7, CarriedKept
<1> QED BY <1>2, <1>3, <1>4, <1>5 DEF Next

\* A row that counts a span more.
LEMMA OneMore ==
  ASSUME NEW A, NEW s, IsFiniteSet(A), s \notin A
  PROVE  IsFiniteSet(A \cup {s}) /\ Cardinality(A \cup {s}) = Cardinality(A) + 1
BY FS_AddElement

\* Nothing is counted, and no row of the application changes.
LEMMA RowsKept ==
  ASSUME NotShared, IInv, Kept, OnePlace, RowsExact, [Next]_vars, recorded' = recorded,
         \A k \in app_keys : learners'[k].Weight = learners[k].Weight
  PROVE  RowsExact'
<1>1. ASSUME NEW s \in Spans, recorded[s] > 0 PROVE ssu'[s] = ssu[s]
  <2>1. accepted[s] > 0
    <3>1. recorded[s] \in Nat /\ In(outer, For(s)) \in Nat /\ accepted[s] = recorded[s] + In(outer, For(s))
      BY OfFinite DEF IInv, Typed, Kept, Counts, Conserved
    <3> QED BY <1>1, <3>1
  <2>2. ssu[s].Ended
    BY <2>1 DEF OnePlace
  <2> QED BY <2>2, EndedStays
<1>2. ASSUME NEW k \in app_keys PROVE CountsIn(k)'
  <2>1. counted_in(k)' = counted_in(k)
    BY <1>1 DEF counted_in, rows_of
  <2>2. CountsIn(k) /\ learners'[k].Weight = learners[k].Weight
    BY <1>2 DEF RowsExact
  <2> QED BY <2>1, <2>2 DEF CountsIn
<1>3. app_keys' = app_keys
  BY DEF app_keys, own_rows, Keys, Reg!Keys
<1> QED BY <1>2, <1>3 DEF RowsExact

\* init_inner starts from empty rows.
LEMMA RowsBuilt ==
  ASSUME IInv, Unrecorded, NEW g \in Goroutines, InitBuild(g)
  PROVE  RowsExact'
<1>1. ~registered /\ recorded' = recorded
  BY DEF InitBuild, IInv, InitOnce, hist, pc
<1>2. PICK spans : Reg!register(spans)
  BY DEF InitBuild
<1>3. \A k \in Keys : learners'[k].Weight = 0
  BY <1>2 DEF Reg!register, Reg!fresh, Reg!NoLearner, Keys
<1>4. \A k : counted_in(k)' = {}
  BY <1>1 DEF counted_in, Unrecorded
<1> QED BY <1>3, <1>4, FS_EmptySet DEF RowsExact, CountsIn, app_keys

\* A sample that comes through the channel.
LEMMA RowsSample ==
  ASSUME NotShared, OwnApart, KeysDistinct, Standing, OnePlace, Carried, RowsExact, RP!KindInv,
         IInv', Kept', OnePlace', ServeSample
  PROVE  RowsExact'
<1> PICK m : m = Head(outer)
  OBVIOUS
<1>1. /\ outer # << >> /\ m.ttype = "A" /\ Reg!handle_ssu_A(m.name, m.variant, m.dur)
      /\ recorded' = [s \in Spans |-> recorded[s] + IF s = m.span THEN 1 ELSE 0]
      /\ UNCHANGED <<ssu, accepted>>
  BY DEF ServeSample, receive, handle_msg_A
<1>2. 1 \in 1 .. Len(outer) /\ m = outer[1] /\ m \in Msg
  BY <1>1 DEF Standing, IInv, Typed
<1>3. SampleOK(m) /\ Carries(m, ssu) /\ m.span \in Spans \cup {None}
  BY <1>2 DEF Standing, IInv, SamplesOK, Carried, Msg
<1>4. Accountable(m)
  BY <1>1, <1>3 DEF SampleOK, Accountable
<1>5. now \in Registries /\ now' = handled(now, m)
  BY <1>1, <1>4, NowTyped, ServeHandles DEF Standing
<1>6. Handles(now', now, m)
  BY <1>4, <1>5, HandledShape
<1> DEFINE name == m.name
           key == key_of(m)
<1>7. name \in Keys /\ key \in Keys /\ m.dur \in Reg!Int64 /\ (m.variant = "" <=> key = name)
  BY <1>4, KeyOf
<1>8. ~(m.variant # "" /\ learners[key].kind = "LL")
  <2>1. SUFFICES ASSUME learners[key].kind = "LL", m.variant # "" PROVE FALSE
    OBVIOUS
  <2>2. key \in Names
    BY <1>7, <2>1, SameRows DEF RP!KindInv, Keys
  <2>3. Reg!span_key_form(key, no_variant) = Reg!span_key_form(m.name, m.variant)
    BY DEF Reg!span_key_form, no_variant, key_of
  <2>4. m.variant = no_variant
    BY <1>4, <2>2, <2>3, NoVariant DEF KeysDistinct, Accountable
  <2> QED BY <2>1, <2>4 DEF no_variant
<1>9. /\ \A k \in Keys \ {name, key} : learners'[k] = learners[k]
      /\ learners'[name] = Reg!after2(made(learners[name], "LL"), m.dur)
      /\ \E kind \in {"LL", "VLL"} : learners'[key] = Reg!after2(made(learners[key], kind), m.dur)
  <2>1. now.learners = learners /\ now'.learners = learners'
    BY DEF now
  <2>2. /\ \A k \in Keys \ {m.name, key_of(m)} : now'.learners[k] = now.learners[k]
        /\ IF m.variant # "" /\ now.learners[key_of(m)].kind = "LL"
           THEN TRUE
           ELSE /\ now'.learners[m.name] = Reg!after2(made(now.learners[m.name], "LL"), m.dur)
                /\ now'.learners[key_of(m)] =
                     Reg!after2(made(now.learners[key_of(m)], IF m.variant = "" THEN "LL" ELSE "VLL"), m.dur)
    BY <1>6, Zenon DEF Handles
  <2> QED BY <1>8, <2>1, <2>2
<1>10. \A k \in {name, key} : learners'[k].Weight = learners[k].Weight + 1
  <2>1. ASSUME NEW ll \in Reg!Learner, NEW kind \in {"LL", "VLL"}
        PROVE  Reg!after2(made(ll, kind), m.dur).Weight = made(ll, kind).Weight + 1
    BY <2>1, MadeTyped DEF Reg!after2, Reg!Learner
  <2>2. ASSUME NEW k \in Keys, NEW kind \in {"LL", "VLL"}
        PROVE  made(learners[k], kind).Weight = learners[k].Weight /\ learners[k] \in Reg!Learner
    <3>1. learners[k] \in Reg!Learner /\ (~Reg!found(learners, k) => learners[k] = Reg!NoLearner)
      BY DEF Standing, RegistryTyped, Reg!TypeOK, Keys
    <3> QED BY <3>1 DEF made, Reg!found, Reg!fresh, Reg!NoLearner
  <2>3. ASSUME NEW k \in Keys, NEW kind \in {"LL", "VLL"},
               learners'[k] = Reg!after2(made(learners[k], kind), m.dur)
        PROVE  learners'[k].Weight = learners[k].Weight + 1
    <3>1. Reg!after2(made(learners[k], kind), m.dur).Weight = made(learners[k], kind).Weight + 1
      BY <2>1, <2>2
    <3> QED BY <2>2, <2>3, <3>1
  <2> HIDE DEF name, key
  <2> QED BY <1>7, <1>9, <2>3
<1>11. app_keys' = app_keys /\ app_keys \subseteq Keys
  BY DEF app_keys, own_rows, Keys, Reg!Keys
<1> HIDE DEF name, key
<1>12. CASE m.span = None
  <2>1. m.name = OVERHEAD_SPAN /\ m.variant = no_variant
    BY <1>1, <1>3, <1>12 DEF Carries
  <2>2. name = OVERHEAD_SPAN /\ key = OVERHEAD_SPAN
    BY <2>1 DEF name, key, key_of, Reg!span_key_form, no_variant
  <2>3. \A k \in app_keys : learners'[k] = learners[k]
    BY <1>9, <1>11, <2>2 DEF app_keys
  <2>4. recorded' = recorded
    BY <1>1, <1>12, Constants DEF Standing, IInv, Kept, Counts
  <2>5. \A k : counted_in(k)' = counted_in(k)
    BY <1>1, <2>4 DEF counted_in, rows_of
  <2> QED BY <1>11, <2>3, <2>5 DEF RowsExact, CountsIn
<1>13. CASE m.span \in Spans
  <2> DEFINE s == m.span
  <2>1. m.name = ssu[s].Name /\ m.variant = ssu[s].Variant
    BY <1>1, <1>3, <1>13, Constants DEF Carries
  <2>2. rows_of(s) = {name, key}
    BY <2>1 DEF rows_of, name, key, key_of
  <2>3. recorded[s] = 0 /\ recorded'[s] = 1
    <3>1. recorded[s] \in Nat /\ recorded'[s] = recorded[s] + 1
      BY <1>1, <1>13 DEF Standing, Kept, Counts
    <3>2. In(outer, For(s))' \in Nat /\ accepted'[s] = recorded'[s] + In(outer, For(s))'
      <4>1. In(outer', For(s)) \in Nat
        BY OfFinite DEF IInv, Typed
      <4> QED BY <1>13, <4>1 DEF Kept, Conserved, In, Of, For
    <3>3. accepted'[s] \in {0, 1}
      BY <1>13 DEF OnePlace
    <3> QED BY <3>1, <3>2, <3>3
  <2>4. \A t \in Spans \ {s} : recorded'[t] = recorded[t]
    BY <1>1 DEF Standing, Kept, Counts
  <2>5. ASSUME NEW k \in app_keys PROVE CountsIn(k)'
    <3>1. IsFiniteSet(counted_in(k)) /\ learners[k].Weight = Cardinality(counted_in(k)) /\ k \in Keys
      BY <1>11, <2>5 DEF RowsExact, CountsIn
    <3>2. CASE k \in {name, key}
      <4>1. counted_in(k)' = counted_in(k) \cup {s} /\ s \notin counted_in(k)
        <5>1. k \in rows_of(s)
          BY <2>2, <3>2
        <5>2. counted_in(k)' = {t \in Spans : recorded'[t] > 0 /\ k \in rows_of(t)}
          BY <1>1 DEF counted_in, rows_of
        <5> HIDE DEF s
        <5> QED BY <1>13, <2>3, <2>4, <5>1, <5>2 DEF counted_in, s
      <4> HIDE DEF s
      <4>2. IsFiniteSet(counted_in(k)') /\ Cardinality(counted_in(k)') = Cardinality(counted_in(k)) + 1
        BY <3>1, <4>1, OneMore
      <4> QED BY <1>10, <3>1, <3>2, <4>2 DEF CountsIn
    <3>3. CASE k \notin {name, key}
      <4>1. counted_in(k)' = counted_in(k)
        <5>1. k \notin rows_of(s)
          BY <2>2, <3>3
        <5>2. counted_in(k)' = {t \in Spans : recorded'[t] > 0 /\ k \in rows_of(t)}
          BY <1>1 DEF counted_in, rows_of
        <5> HIDE DEF s
        <5> QED BY <2>4, <5>1, <5>2 DEF counted_in
      <4>2. learners'[k] = learners[k]
        BY <1>9, <3>1, <3>3
      <4> QED BY <3>1, <4>1, <4>2 DEF CountsIn
    <3> QED BY <3>2, <3>3
  <2> QED BY <1>11, <2>5 DEF RowsExact
<1> QED BY <1>3, <1>12, <1>13

\* A sample of serve's own.
LEMMA RowsOwn ==
  ASSUME Standing, OwnApart, ReportDone \/ BenchmarkSample \/ BenchmarksDone
  PROVE  recorded' = recorded /\ \A k \in app_keys : learners'[k] = learners[k]
<1>1. recorded' = recorded /\ serve # "absent"
  BY DEF ReportDone, BenchmarkSample, BenchmarksDone, hist
<1>2. \E b \in own_rows, d \in Durs : Reg!handle_ssu_A(b, no_variant, d)
  <2>1. CASE ReportDone \/ BenchmarksDone
    BY <2>1, OwnRows DEF ReportDone, BenchmarksDone, after_and_update
  <2>2. CASE BenchmarkSample
    <3>1. step \in DOMAIN BenchPlan
      BY <2>2, Constants DEF BenchmarkSample, Standing, IInv, Typed
    <3> QED BY <2>2, <3>1, OwnRows DEF BenchmarkSample, after_and_update
  <2> QED BY <2>1, <2>2
<1>3. PICK b \in own_rows, d \in Durs : Reg!handle_ssu_A(b, no_variant, d)
  BY <1>2
<1>4. \A k \in Keys \ {b} : learners'[k] = learners[k]
  BY <1>1, <1>3, OwnCounted
<1> QED BY <1>1, <1>4 DEF app_keys

LEMMA NextTallied ==
  ASSUME NotShared, OwnApart, KeysDistinct, Standing, OnePlace, RP!KindInv, Tallied,
         IInv', Kept', OnePlace', [Next]_vars
  PROVE  Tallied'
<1>1. Carried'
  BY NextCarried DEF Standing, Tallied
<1>2. CASE UNCHANGED <<learners, registered, recorded>>
  <2>1. RowsExact'
    BY <1>2, RowsKept DEF Standing, Tallied
  <2> QED BY <1>1, <1>2, <2>1 DEF Tallied, Unrecorded
<1>3. ASSUME NEW g \in Goroutines, InitBuild(g) PROVE Tallied'
  <2>1. registered'
    BY <1>3 DEF InitBuild, Reg!register
  <2>2. RowsExact'
    BY <1>3, RowsBuilt DEF Standing, Tallied
  <2> QED BY <1>1, <2>1, <2>2 DEF Tallied, Unrecorded
<1>4. CASE ServeSample
  <2>1. registered'
    BY <1>4 DEF ServeSample, receive, handle_msg_A, Reg!handle_ssu_A, Standing, IInv, InitOnce
  <2>2. RowsExact'
    BY <1>4, RowsSample DEF Tallied
  <2> QED BY <1>1, <2>1, <2>2 DEF Tallied, Unrecorded
<1>5. CASE ReportDone \/ BenchmarkSample \/ BenchmarksDone
  <2>1. recorded' = recorded /\ \A k \in app_keys : learners'[k] = learners[k]
    BY <1>5, RowsOwn
  <2>2. RowsExact'
    BY <2>1, RowsKept DEF Standing, Tallied
  <2>3. registered' = registered
    BY <1>5 DEF ReportDone, BenchmarkSample, BenchmarksDone, after_and_update, Reg!handle_ssu_A
  <2> QED BY <1>1, <2>1, <2>2, <2>3 DEF Tallied, Unrecorded
<1>6. CASE Serve
  <2>1. CASE ServeStart \/ ServeValues \/ ServeReport \/ ReportFail \/ ServeBenchmarks \/ ServeStop
               \/ ServeFinish
    BY <1>2, <2>1 DEF ServeStart, ServeValues, ServeReport, ReportFail, ServeBenchmarks,
       ServeStop, ServeFinish, regvars, hist
  <2> QED BY <1>4, <1>5, <1>6, <2>1 DEF Serve
<1>7. ASSUME NEW g \in Goroutines, Enter(g) \/ Inside(g) \/ Send(g) PROVE Tallied'
  <2>1. CASE Enter(g) \/ Send(g)
    BY <1>2, <2>1 DEF Enter, InitCall, CallRefused, SelfStart, Call, Begin, EndTest, EndIgnored,
       vars, Send, regvars, hist
  <2>2. CASE Inside(g)
    BY <1>2, <1>3, <2>2 DEF Inside, OnceEnter, OnceReturn, InitComplete, InitGo, EndMark,
       EndRefused, EndSubmit, SelfSample, SelfAbort, SelfDone, CallReturn, regvars, hist
  <2> QED BY <1>7, <2>1, <2>2
<1>8. CASE UNCHANGED vars
  BY <1>2, <1>8 DEF vars, regvars, hist
<1> QED BY <1>6, <1>7, <1>8 DEF Next

LEMMA InitTallied == Init => Tallied
<1> SUFFICES ASSUME Init PROVE Tallied
  OBVIOUS
<1>1. Carried
  BY DEF Init, Carried, Carries, AtRest, NoMsg, request_msg
<1>2. Unrecorded
  BY DEF Init, Unrecorded
<1>3. \A k \in Keys : learners[k].Weight = 0
  BY DEF Init, Reg!Init, Reg!NoLearner, Reg!fresh, Keys
<1>4. \A k : counted_in(k) = {}
  BY DEF Init, counted_in
<1>5. RowsExact
  BY <1>3, <1>4, FS_EmptySet DEF RowsExact, CountsIn, app_keys
<1> QED BY <1>1, <1>2, <1>5 DEF Tallied

(***************************************************************************)
(* A row of the application is of as many spans as its weight says: those  *)
(* of its name, or of its name and variant, that serve has been told of,   *)
(* each once, whoever ended them.  Only LatLearn's own rows, and keys that *)
(* two spans share, are left out.                                          *)
(***************************************************************************)
THEOREM RowsAreTallies ==
  ASSUME NotShared, OwnApart, KeysDistinct
  PROVE  Spec => []RowsCountSpans
<1>1. VariantsJoin
  BY DEF VariantsJoin
<1>2. Spec => []RP!KindInv
  <2>1. RP!Spec => []RP!IInv
    BY RP!Invariance, SameConstants
  <2>2. RP!IInv => RP!KindInv
    BY DEF RP!IInv
  <2> QED BY <1>1, <2>1, <2>2, DrivesRegistry, PTL
<1>3. Standing /\ OnePlace /\ RP!KindInv /\ Tallied /\ (IInv /\ Kept /\ OnePlace)' /\ [Next]_vars
        => Tallied'
  BY NextTallied
<1>4. Tallied => RowsCountSpans
  BY DEF Tallied, RowsExact, CountsIn, RowsCountSpans, app_keys
<1> QED BY <1>1, <1>2, <1>3, <1>4, InitTallied, StandingHolds, OnePlaceHolds, PTL DEF Spec

===============================================================================
