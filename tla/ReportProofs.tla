----------------------------- MODULE ReportProofs -----------------------------
(***************************************************************************)
(* Proofs about what report_inner writes.  A cell of a line is a function  *)
(* of a row, of the estimate and of the switches; what is known of rows    *)
(* comes from RegistryProofs.                                              *)
(***************************************************************************)
EXTENDS Report, SequenceTheorems, Induction

\* The registry and its theorems, over the variables of Report.
RP == INSTANCE RegistryProofs

-------------------------------------------------------------------------------
(***************************************************************************)
(* Reg and RP are two instances of one module.  The prover takes their     *)
(* definitions for different ones until it is shown that they agree.       *)
(***************************************************************************)
LEMMA Constants == MaxInt64 \in Nat \ {0} /\ RP!ConstantsOK
<1>1. RP!Int64 = Reg!Int64
  BY DEF RP!Int64, Reg!Int64, RP!MinInt64, Reg!MinInt64
<1>2. \A n, v : RP!span_key_form(n, v) = Reg!span_key_form(n, v)
  BY DEF RP!span_key_form, Reg!span_key_form
<1> QED BY <1>1, <1>2, ReportAssumption DEF RP!ConstantsOK, Reg!ConstantsOK

LEMMA SameRows ==
  /\ RP!Int64 = Reg!Int64
  /\ RP!Keys = Reg!Keys
  /\ RP!Learner = Reg!Learner
  /\ RP!NoLearner = Reg!NoLearner
  /\ \A n, v : RP!span_key_form(n, v) = Reg!span_key_form(n, v)
  /\ \A kind : RP!fresh(kind) = Reg!fresh(kind)
  /\ \A ll : RP!mean(ll) = Reg!mean(ll)
  /\ \A s : RP!Range(s) = Reg!Range(s)
<1>1. RP!Int64 = Reg!Int64
  BY DEF RP!Int64, Reg!Int64, RP!MinInt64, Reg!MinInt64
<1>2. \A n, v : RP!span_key_form(n, v) = Reg!span_key_form(n, v)
  BY DEF RP!span_key_form, Reg!span_key_form
<1>3. RP!Keys = Reg!Keys
  BY <1>2 DEF RP!Keys, Reg!Keys
<1>4. RP!Learner = Reg!Learner
  BY <1>1 DEF RP!Learner, Reg!Learner
<1>5. \A kind : RP!fresh(kind) = Reg!fresh(kind)
  BY DEF RP!fresh, Reg!fresh
<1>6. RP!NoLearner = Reg!NoLearner
  BY <1>5 DEF RP!NoLearner, Reg!NoLearner
<1>7. \A a, b : RP!quo(a, b) = Reg!quo(a, b)
  BY DEF RP!quo, Reg!quo
<1>8. \A ll : RP!mean(ll) = Reg!mean(ll)
  BY <1>7 DEF RP!mean, Reg!mean
<1>9. \A s : RP!Range(s) = Reg!Range(s)
  BY DEF RP!Range, Reg!Range
<1> QED BY <1>1, <1>2, <1>3, <1>4, <1>5, <1>6, <1>8, <1>9

LEMMA SameSample ==
  ASSUME NEW n, NEW v, NEW d, Reg!handle_ssu_A(n, v, d)
  PROVE  RP!handle_ssu_A(n, v, d)
<1>1. \A a, b : RP!add64(a, b) = Reg!add64(a, b)
  BY DEF RP!add64, Reg!add64, RP!Modulus, Reg!Modulus, RP!MinInt64, Reg!MinInt64
<1>2. \A ll, dur : RP!after2(ll, dur) = Reg!after2(ll, dur)
  BY <1>1 DEF RP!after2, Reg!after2
<1>3. \A L, k : RP!found(L, k) <=> Reg!found(L, k)
  BY DEF RP!found, Reg!found
<1>4. \A L, k, kind : RP!ensure(L, k, kind) = Reg!ensure(L, k, kind)
  BY <1>3, SameRows DEF RP!ensure, Reg!ensure
<1>5. \A T, L, k : RP!track(T, L, k) = Reg!track(T, L, k)
  BY <1>3 DEF RP!track, Reg!track
<1>6. \A S, L, dur : Reg!count_sample(S, L, dur) => RP!count_sample(S, L, dur)
  BY <1>2, SameRows DEF RP!count_sample, Reg!count_sample
<1>7. \A k : RP!rows(n, k) = Reg!rows(n, k)
  BY DEF RP!rows, Reg!rows
<1>8. Reg!handle_plain(n, d) => RP!handle_plain(n, d)
  BY <1>4, <1>5, <1>6 DEF RP!handle_plain, Reg!handle_plain
<1>9. \A k : Reg!handle_variant(n, k, d) => RP!handle_variant(n, k, d)
  BY <1>4, <1>5, <1>6, <1>7 DEF RP!handle_variant, Reg!handle_variant
<1>10. \A k : Reg!reject_variant(n, k) => RP!reject_variant(n, k)
  BY <1>4, <1>5 DEF RP!reject_variant, Reg!reject_variant
<1> QED
  BY <1>8, <1>9, <1>10, SameRows DEF RP!handle_ssu_A, Reg!handle_ssu_A

LEMMA SameNext == Reg!Next => RP!Next
<1>1. \A s : Reg!register(s) => RP!register(s)
  BY SameRows DEF RP!register, Reg!register
<1>2. Reg!Sample => RP!Sample
  BY SameSample DEF RP!Sample, Reg!Sample
<1> QED BY <1>1, <1>2 DEF RP!Next, Reg!Next, RP!Register, Reg!Register

LEMMA SameInit == Reg!Init => RP!Init
BY SameRows DEF RP!Init, Reg!Init

-------------------------------------------------------------------------------
(***************************************************************************)
(* What is true of the variables of report_inner between any two steps.    *)
(***************************************************************************)
Line_record == [key : Reg!Keys, cells : Seq(Reg!Int64)]

Writing ==
  /\ Should_subtract_overhead \in BOOLEAN /\ Should_report_builtins \in BOOLEAN
  /\ reporting \in BOOLEAN /\ subtract \in BOOLEAN /\ builtins \in BOOLEAN /\ moved \in Nat
  /\ at \in 1 .. Len(tracked_spans) + 1
  /\ cells \in Seq(Reg!Int64) /\ Len(cells) <= 4
  /\ lines \in Seq(Line_record)
  /\ reporting => registered
  /\ ~reporting => at = 1 /\ cells = << >> /\ lines = << >>
  /\ overhead = IF reporting /\ subtract THEN measure_overhead_estimate ELSE -1
  /\ reporting /\ moved = 0 => Should_subtract_overhead = subtract
  /\ cells # << >> => at <= Len(tracked_spans) /\ row.Pair_ever_completed

\* The i-th cell on the line of key k, if no switch is moved: a function of
\* the row, of the estimate and of the switch as it was at the beginning.
cell_of(k, i) ==
  LET metric == metrics(learners[k])[i] IN
  IF exempt(k, i) \/ ~subtract THEN metric
  ELSE IF Reg!sub64(metric, overhead) < 0 THEN 0 ELSE Reg!sub64(metric, overhead)

filled(k, c) ==
  /\ moved = 0 => \A i \in 1 .. Len(c) : c[i] = cell_of(k, i)
  /\ k = OVERHEAD_SPAN /\ c # << >> => c[1] = learners[OVERHEAD_SPAN].Min

Filled ==
  /\ cells # << >> => filled(key, cells)
  /\ \A n \in 1 .. Len(lines) :
       LET l == lines[n] IN
       l.cells # << >> =>
         /\ Len(l.cells) = 4
         /\ learners[l.key].Pair_ever_completed
         /\ filled(l.key, l.cells)

IInv == RP!IInv /\ Writing /\ Filled

-------------------------------------------------------------------------------
LEMMA Tracked ==
  ASSUME RP!IInv
  PROVE  /\ tracked_spans \in Seq(Reg!Keys)
         /\ learners \in [Reg!Keys -> Reg!Learner]
         /\ total \in [Reg!Keys -> Int]
         /\ OVERHEAD_SPAN \in Reg!Keys
         /\ \A k \in Reg!Keys : RP!RowInv(learners[k], total[k])
BY SameRows, ReportAssumption DEF RP!IInv, RP!TypeOK, RP!RowsInv

LEMMA Numbers ==
  /\ MaxInt64 \in Nat \ {0}
  /\ \A a : a \in Reg!Int64 <=> a \in Int /\ -MaxInt64 - 1 <= a /\ a <= MaxInt64
  /\ \A a, b \in Reg!Int64 : Reg!sub64(a, b) \in Reg!Int64
BY Constants DEF Reg!Int64, Reg!MinInt64, Reg!sub64, Reg!Modulus

\* A mean is an int64, as the sum is that it is computed from.
LEMMA MeanInt64 ==
  ASSUME NEW ll \in Reg!Learner
  PROVE  Reg!mean(ll) \in Reg!Int64
<1>1. CASE ~(ll.Weight > 0)
  BY <1>1, Numbers DEF Reg!mean
<1>2. CASE ll.Weight > 0
  <2> DEFINE w == ll.Weight
             s == ll.Cumul
  <2>1. w \in Nat \ {0} /\ s \in Int /\ -MaxInt64 - 1 <= s /\ s <= MaxInt64
    BY <1>2, Numbers DEF Reg!Learner
  <2>2. Reg!mean(ll) = IF s >= 0 THEN s \div w ELSE -((-s) \div w)
    BY <1>2 DEF Reg!mean, Reg!quo
  <2> HIDE DEF w, s
  <2>3. \A a \in Nat : a \div w \in Int /\ 0 <= a \div w /\ a \div w <= a
    <3> SUFFICES ASSUME NEW a \in Nat PROVE a \div w \in Int /\ 0 <= a \div w /\ a \div w <= a
      OBVIOUS
    <3> QED BY <2>1
  <2>4. CASE s >= 0
    <3>1. s \in Nat
      BY <2>1, <2>4
    <3> QED BY <3>1, <2>1, <2>2, <2>3, <2>4, Numbers
  <2>5. CASE ~(s >= 0)
    <3>1. -s \in Nat /\ -s <= MaxInt64 + 1
      BY <2>1, <2>5, Numbers
    <3> QED BY <3>1, <2>1, <2>2, <2>3, <2>5, Numbers
  <2> QED BY <2>4, <2>5
<1> QED BY <1>1, <1>2

LEMMA Metrics ==
  ASSUME NEW ll \in Reg!Learner, NEW i \in 1 .. 4
  PROVE  metrics(ll)[i] \in Reg!Int64
<1>1. ll.Min \in Reg!Int64 /\ ll.Last \in Reg!Int64 /\ ll.Max \in Reg!Int64
  BY DEF Reg!Learner
<1> QED BY <1>1, MeanInt64 DEF metrics

-------------------------------------------------------------------------------
(***************************************************************************)
(* The steps.  Between reports, and at the end of one, the registry moves; *)
(* within a report it stands still.                                        *)
(***************************************************************************)
LEMMA InitHolds == Init => IInv
<1> SUFFICES ASSUME Init PROVE IInv
  OBVIOUS
<1>1. RP!IInv
  BY SameInit, RP!InitInv, Constants DEF Init
<1>2. tracked_spans = << >>
  BY DEF Init, Reg!Init
<1>3. Writing
  <2>1. << >> \in Seq(Reg!Int64) /\ << >> \in Seq(Line_record) /\ Len(<< >>) = 0
    OBVIOUS
  <2>2. 1 \in 1 .. Len(tracked_spans) + 1
    BY <1>2
  <2>3. at = 1 /\ cells = << >> /\ lines = << >> /\ overhead = -1 /\ moved = 0 /\ ~reporting
    BY DEF Init
  <2>4. /\ Should_subtract_overhead \in BOOLEAN /\ Should_report_builtins \in BOOLEAN
        /\ reporting \in BOOLEAN /\ subtract \in BOOLEAN /\ builtins \in BOOLEAN
    BY DEF Init
  <2>5. at \in 1 .. Len(tracked_spans) + 1 /\ moved \in Nat
    BY <2>2, <2>3
  <2>6. cells \in Seq(Reg!Int64) /\ Len(cells) <= 4 /\ lines \in Seq(Line_record)
    BY <2>1, <2>3
  <2> QED BY <2>3, <2>4, <2>5, <2>6 DEF Writing
<1>4. Filled
  BY DEF Init, Filled
<1> QED BY <1>1, <1>3, <1>4 DEF IInv

\* Nothing of a report is left while none is being written.
LEMMA Between ==
  ASSUME IInv, ~reporting',
         at' = 1, cells' = << >>, lines' = << >>, overhead' = -1,
         subtract' \in BOOLEAN, builtins' \in BOOLEAN, moved' \in Nat,
         Should_subtract_overhead' \in BOOLEAN, Should_report_builtins' \in BOOLEAN,
         reporting' \in BOOLEAN,
         Reg!Next
  PROVE  IInv'
<1>1. RP!IInv'
  BY SameNext, RP!NextInv, Constants DEF IInv
<1>2. Len(tracked_spans') \in Nat
  BY <1>1 DEF RP!IInv, RP!TypeOK
<1>3. Writing'
  BY <1>2 DEF Writing
<1>4. Filled'
  BY DEF Filled
<1> QED BY <1>1, <1>3, <1>4 DEF IInv

\* RP!IInv only speaks of the registry.
LEMMA StandsStill ==
  ASSUME RP!IInv, UNCHANGED regvars
  PROVE  RP!IInv'
<1>1. UNCHANGED RP!regvars
  BY DEF regvars, RP!regvars
<1> QED BY <1>1, RP!NextInv, Constants

LEMMA RowsHolds == IInv /\ Rows => IInv'
<1> SUFFICES ASSUME IInv, Rows PROVE IInv'
  OBVIOUS
<1> QED BY Between DEF Rows, switches, repvars, hist, IInv, Writing

LEMMA ReportEndHolds == IInv /\ ReportEnd => IInv'
<1> SUFFICES ASSUME IInv, ReportEnd PROVE IInv'
  OBVIOUS
<1>1. Reg!Next
  <2>1. REPORT_SPAN \in Names /\ "" \in Variants
    BY ReportAssumption DEF Reg!ConstantsOK
  <2>2. registered
    BY DEF ReportEnd, IInv, Writing
  <2>3. PICK d \in Durs : Reg!handle_ssu_A(REPORT_SPAN, "", d)
    BY DEF ReportEnd
  <2> QED BY <2>1, <2>2, <2>3 DEF Reg!Next, Reg!Sample
<1> QED BY <1>1, Between DEF ReportEnd, switches, IInv, Writing

LEMMA ToggleHolds == IInv /\ Toggle => IInv'
<1> SUFFICES ASSUME IInv, Toggle PROVE IInv'
  OBVIOUS
<1>1. RP!IInv'
  BY StandsStill DEF IInv, Toggle
<1>2. /\ UNCHANGED <<learners, tracked_spans, registered, total, reporting, overhead, at, cells,
                     lines, subtract, builtins>>
      /\ moved' = IF reporting THEN moved + 1 ELSE 0
      /\ Should_subtract_overhead' \in BOOLEAN /\ Should_report_builtins' \in BOOLEAN
  BY DEF Toggle, regvars, repvars, IInv, Writing
<1>3. moved' \in Nat /\ (reporting => moved' # 0)
  BY <1>2 DEF IInv, Writing
<1>4. Writing'
  <2>1. measure_overhead_estimate' = measure_overhead_estimate /\ row' = row
    BY <1>2 DEF measure_overhead_estimate, has_estimate, row, key
  <2> QED BY <1>2, <1>3, <2>1 DEF IInv, Writing
<1>5. Filled'
  <2>1. ~reporting => cells' = << >> /\ lines' = << >>
    BY <1>2 DEF IInv, Writing
  <2>2. reporting => \A k, c : filled(k, c) => filled(k, c)'
    BY <1>2, <1>3 DEF filled
  <2>3. CASE reporting
    BY <2>2, <2>3, <1>2 DEF IInv, Filled, key
  <2> QED BY <2>1, <2>3 DEF Filled
<1> QED BY <1>1, <1>4, <1>5 DEF IInv

LEMMA ReportBeginHolds == IInv /\ ReportBegin => IInv'
<1> SUFFICES ASSUME IInv, ReportBegin PROVE IInv'
  OBVIOUS
<1>1. RP!IInv'
  BY StandsStill DEF IInv, ReportBegin
<1>2. Writing'
  <2>1. measure_overhead_estimate' = measure_overhead_estimate
    BY DEF measure_overhead_estimate, has_estimate, ReportBegin, regvars
  <2>2. Len(tracked_spans') \in Nat
    BY <1>1 DEF RP!IInv, RP!TypeOK
  <2> QED BY <2>1, <2>2 DEF ReportBegin, regvars, switches, IInv, Writing
<1>3. Filled'
  BY DEF Filled, ReportBegin
<1> QED BY <1>1, <1>2, <1>3 DEF IInv

\* A step within the report that leaves the registry and the switches alone.
LEMMA Within ==
  ASSUME IInv, reporting, at <= Len(tracked_spans),
         UNCHANGED <<regvars, switches, reporting, overhead, hist>>
  PROVE  /\ RP!IInv'
         /\ key \in Reg!Keys /\ row \in Reg!Learner
         /\ \A k, c : filled(k, c)' <=> filled(k, c)
         /\ /\ at' \in 1 .. Len(tracked_spans) + 1
            /\ cells' \in Seq(Reg!Int64) /\ Len(cells') <= 4
            /\ lines' \in Seq(Line_record)
            /\ cells' # << >> =>
                 at' <= Len(tracked_spans) /\ learners[tracked_spans[at']].Pair_ever_completed
            => Writing'
<1>1. RP!IInv'
  BY StandsStill DEF IInv
<1>2. at \in 1 .. Len(tracked_spans) /\ key \in Reg!Keys /\ row \in Reg!Learner
  <2>1. at \in 1 .. Len(tracked_spans)
    BY DEF IInv, Writing
  <2> QED BY <2>1, Tracked DEF IInv, key, row
<1>3. \A k, c : filled(k, c)' <=> filled(k, c)
  BY DEF filled, cell_of, regvars, hist, exempt, metrics
<1>4. ASSUME at' \in 1 .. Len(tracked_spans) + 1,
             cells' \in Seq(Reg!Int64), Len(cells') <= 4,
             lines' \in Seq(Line_record),
             cells' # << >> => at' <= Len(tracked_spans) /\ learners[tracked_spans[at']].Pair_ever_completed
      PROVE  Writing'
  <2>1. measure_overhead_estimate' = measure_overhead_estimate
    BY DEF measure_overhead_estimate, has_estimate, regvars
  <2>2. row' = learners[tracked_spans[at']]
    BY DEF row, key, regvars
  <2>3. Line_record' = Line_record
    BY DEF Line_record
  <2> QED BY <1>4, <2>1, <2>2, <2>3 DEF regvars, switches, hist, IInv, Writing
<1> QED BY <1>1, <1>2, <1>3, <1>4

LEMMA NextRowHolds ==
  ASSUME IInv, Skip \/ Unsampled
  PROVE  IInv'
<1>1. /\ reporting /\ at <= Len(tracked_spans)
      /\ UNCHANGED <<regvars, switches, reporting, overhead, hist>>
      /\ at' = at + 1 /\ cells' = << >>
      /\ lines' = lines \/ lines' = Append(lines, [key |-> key, cells |-> << >>])
  BY DEF Skip, Unsampled, next_row
<1>2. /\ RP!IInv' /\ key \in Reg!Keys
      /\ \A k, c : filled(k, c)' <=> filled(k, c)
  BY <1>1, Within
<1>3. lines \in Seq(Line_record) /\ [key |-> key, cells |-> << >>] \in Line_record
      /\ at + 1 \in 1 .. Len(tracked_spans) + 1
  BY <1>1, <1>2 DEF IInv, Writing, Line_record
<1>4. Writing'
  BY <1>1, <1>3, Within
<1>5. Filled'
  <2> SUFFICES ASSUME NEW n \in 1 .. Len(lines'), lines'[n].cells # << >>
               PROVE  (/\ Len(lines[n].cells) = 4
                       /\ learners[lines[n].key].Pair_ever_completed
                       /\ filled(lines[n].key, lines[n].cells))'
    BY <1>1 DEF Filled
  <2>1. n \in 1 .. Len(lines) /\ lines'[n] = lines[n]
    BY <1>1, <1>3
  <2>2. learners' = learners
    BY <1>1 DEF regvars
  <2> QED BY <1>2, <2>1, <2>2 DEF IInv, Filled
<1> QED BY <1>2, <1>4, <1>5 DEF IInv

LEMMA CellHolds == IInv /\ Cell => IInv'
<1> SUFFICES ASSUME IInv, Cell PROVE IInv'
  OBVIOUS
<1>1. /\ reporting /\ at <= Len(tracked_spans)
      /\ UNCHANGED <<regvars, switches, reporting, overhead, hist, at, lines>>
      /\ cells' = Append(cells, cell(Len(cells) + 1))
      /\ row.Pair_ever_completed /\ Len(cells) < 4
  BY DEF Cell
<1>2. /\ RP!IInv' /\ key \in Reg!Keys /\ row \in Reg!Learner
      /\ \A k, c : filled(k, c)' <=> filled(k, c)
  BY <1>1, Within
<1> DEFINE n == Len(cells) + 1
<1>3. n \in 1 .. 4 /\ overhead \in Reg!Int64 /\ cells \in Seq(Reg!Int64)
  <2>1. learners[OVERHEAD_SPAN].Min \in Reg!Int64
    BY Tracked DEF IInv, Reg!Learner
  <2>2. -1 \in Reg!Int64
    BY Numbers
  <2> QED BY <1>1, <2>1, <2>2 DEF IInv, Writing, measure_overhead_estimate
<1>4. cell(n) \in Reg!Int64
  <2>1. metrics(row)[n] \in Reg!Int64 /\ 0 \in Reg!Int64
    BY <1>2, <1>3, Metrics, Numbers
  <2> QED BY <2>1, <1>3, Numbers DEF cell, overhead_comp
<1>5. Writing'
  <2>1. cells' \in Seq(Reg!Int64) /\ Len(cells') <= 4
    BY <1>1, <1>3, <1>4
  <2>2. at' \in 1 .. Len(tracked_spans) + 1 /\ lines' \in Seq(Line_record)
    BY <1>1 DEF IInv, Writing
  <2>3. learners[tracked_spans[at']].Pair_ever_completed
    BY <1>1 DEF row, key
  <2> QED BY <1>1, <2>1, <2>2, <2>3, Within
<1>6. filled(key, cells')
  <2>1. moved = 0 => cell(n) = cell_of(key, n)
    <3>1. moved = 0 => Should_subtract_overhead = subtract
      BY <1>1 DEF IInv, Writing
    <3> QED BY <3>1 DEF cell, cell_of, overhead_comp, row
  <2>2. cells # << >> => filled(key, cells)
    BY DEF IInv, Filled
  <2>3. /\ Len(cells') = n /\ cells'[n] = cell(n)
        /\ \A i \in 1 .. Len(cells) : cells'[i] = cells[i]
        /\ \A i \in 1 .. n : i = n \/ (i \in 1 .. Len(cells) /\ cells # << >>)
    BY <1>1, <1>3, <1>4
  <2>4. moved = 0 => \A i \in 1 .. Len(cells') : cells'[i] = cell_of(key, i)
    BY <2>1, <2>2, <2>3 DEF filled
  <2>5. key = OVERHEAD_SPAN => cells'[1] = learners[OVERHEAD_SPAN].Min
    <3>1. CASE cells = << >>
      <4>1. n = 1
        BY <3>1
      <4>2. key = OVERHEAD_SPAN => cell(1) = metrics(row)[1]
        BY DEF cell, exempt
      <4> QED BY <4>1, <4>2, <2>3 DEF metrics, row
    <3>2. CASE cells # << >>
      <4>1. 1 \in 1 .. Len(cells)
        BY <3>2, <1>3
      <4> QED BY <4>1, <3>2, <2>2, <2>3 DEF filled
    <3> QED BY <3>1, <3>2
  <2> QED BY <2>4, <2>5 DEF filled
<1>7. Filled'
  <2>1. learners' = learners /\ lines' = lines /\ key' = key
    BY <1>1 DEF regvars, key
  <2>2. filled(key, cells)'
    BY <1>2, <1>6, <2>1
  <2> QED BY <1>2, <2>1, <2>2 DEF IInv, Filled
<1> QED BY <1>2, <1>5, <1>7 DEF IInv

LEMMA LineHolds == IInv /\ Line => IInv'
<1> SUFFICES ASSUME IInv, Line PROVE IInv'
  OBVIOUS
<1> DEFINE new == [key |-> key, cells |-> cells]
<1>1. /\ reporting /\ Len(cells) = 4
      /\ UNCHANGED <<regvars, switches, reporting, overhead, hist>>
      /\ lines' = Append(lines, new) /\ at' = at + 1 /\ cells' = << >>
  BY DEF Line, next_row
<1>2. cells # << >> /\ at <= Len(tracked_spans) /\ row.Pair_ever_completed
  <2>1. cells # << >>
    BY <1>1
  <2> QED BY <2>1 DEF IInv, Writing
<1>3. /\ RP!IInv' /\ key \in Reg!Keys
      /\ \A k, c : filled(k, c)' <=> filled(k, c)
  BY <1>1, <1>2, Within
<1>4. lines \in Seq(Line_record) /\ new \in Line_record
      /\ at + 1 \in 1 .. Len(tracked_spans) + 1
  BY <1>2, <1>3 DEF IInv, Writing, Line_record
<1>5. Writing'
  BY <1>1, <1>2, <1>4, Within
<1>6. Filled'
  <2> SUFFICES ASSUME NEW n \in 1 .. Len(lines'), lines'[n].cells # << >>
               PROVE  (/\ Len(lines[n].cells) = 4
                       /\ learners[lines[n].key].Pair_ever_completed
                       /\ filled(lines[n].key, lines[n].cells))'
    BY <1>1 DEF Filled
  <2>1. \/ n \in 1 .. Len(lines) /\ lines'[n] = lines[n]
        \/ lines'[n] = new
    BY <1>1, <1>4
  <2>2. learners' = learners
    BY <1>1 DEF regvars
  <2>3. CASE n \in 1 .. Len(lines) /\ lines'[n] = lines[n]
    BY <2>2, <2>3, <1>3 DEF IInv, Filled
  <2>4. CASE lines'[n] = new
    <3>1. filled(key, cells)
      BY <1>2 DEF IInv, Filled
    <3>2. lines'[n].key = key /\ lines'[n].cells = cells
      BY <2>4
    <3> QED BY <3>1, <3>2, <2>2, <1>1, <1>2, <1>3 DEF row
  <2> QED BY <2>1, <2>3, <2>4
<1> QED BY <1>3, <1>5, <1>6 DEF IInv

LEMMA NextHolds == IInv /\ [Next]_vars => IInv'
<1> SUFFICES ASSUME IInv, [Next]_vars PROVE IInv'
  OBVIOUS
<1>1. CASE UNCHANGED vars
  <2>1. RP!IInv'
    BY <1>1, StandsStill DEF IInv, vars
  <2>2. Writing'
    BY <1>1 DEF IInv, vars, regvars, switches, repvars, hist, Writing, Line_record,
            measure_overhead_estimate, has_estimate, row, key
  <2>3. Filled'
    BY <1>1 DEF IInv, vars, regvars, switches, repvars, hist, Filled, filled, cell_of,
            exempt, key
  <2> QED BY <2>1, <2>2, <2>3 DEF IInv
<1> QED
  BY <1>1, RowsHolds, ToggleHolds, ReportBeginHolds, NextRowHolds, CellHolds, LineHolds,
     ReportEndHolds DEF Next

-------------------------------------------------------------------------------
(***************************************************************************)
(* The theorems.                                                           *)
(***************************************************************************)
THEOREM Invariance == Spec => []IInv
<1> QED BY InitHolds, NextHolds, PTL DEF Spec

(***************************************************************************)
(* Type correctness: report_inner never looks past the tracked spans, and  *)
(* what it computes from the rows is an int64 whatever wraps on the way.   *)
(***************************************************************************)
THEOREM TypeCorrect == Spec => []TypeOK
<1>1. ASSUME IInv PROVE TypeOK
  <2>1. Reg!TypeOK
    <3>1. RP!TypeOK
      BY <1>1 DEF IInv, RP!IInv
    <3>2. \A L, k : RP!found(L, k) <=> Reg!found(L, k)
      BY DEF RP!found, Reg!found
    <3> QED BY <3>1, <3>2, SameRows DEF RP!TypeOK, Reg!TypeOK
  <2>2. overhead \in Reg!Int64
    <3>1. learners[OVERHEAD_SPAN].Min \in Reg!Int64 /\ -1 \in Reg!Int64
      <4>1. learners[OVERHEAD_SPAN].Min \in Reg!Int64
        BY <1>1, Tracked DEF IInv, Reg!Learner
      <4> QED BY <4>1, Numbers
    <3> QED BY <1>1, <3>1 DEF IInv, Writing, measure_overhead_estimate
  <2> QED BY <1>1, <2>1, <2>2 DEF IInv, Writing, Line_record, TypeOK
<1> QED BY <1>1, Invariance, PTL

(***************************************************************************)
(* The minimum of the no-op span is reported as it was measured, however   *)
(* the application moves the switches while the report is written.         *)
(***************************************************************************)
THEOREM OverheadSpanKept == Spec => []OverheadSpanMin
<1>1. ASSUME IInv PROVE OverheadSpanMin
  <2> SUFFICES ASSUME NEW i \in DOMAIN lines, lines[i].key = OVERHEAD_SPAN,
                      lines[i].cells # << >>
               PROVE  lines[i].cells[1] = learners[OVERHEAD_SPAN].Min
    BY DEF OverheadSpanMin
  <2>1. i \in 1 .. Len(lines)
    BY <1>1 DEF IInv, Writing
  <2> QED BY <1>1, <2>1 DEF IInv, Filled, filled
<1> QED BY <1>1, Invariance, PTL

-------------------------------------------------------------------------------
(***************************************************************************)
(* Which lines a report has.                                               *)
(***************************************************************************)
line_keys == [i \in DOMAIN lines |-> lines[i].key]

wanted == {k \in Reg!Keys : shown(k)}

passed(n) == Selected(SubSeq(tracked_spans, 1, n), wanted)

\* While no switch is moved, report_inner goes by the one it began with, and
\* a line it has begun is one to be shown.
Complete ==
  reporting /\ moved = 0 =>
    /\ Should_report_builtins = builtins
    /\ cells # << >> => shown(key)
    /\ line_keys = passed(at - 1)

\* One span further on.
LEMMA PassedOne ==
  ASSUME IInv, at <= Len(tracked_spans)
  PROVE  passed(at) = IF shown(key) THEN Append(passed(at - 1), key) ELSE passed(at - 1)
<1> DEFINE s == SubSeq(tracked_spans, 1, at - 1)
<1>1. at \in 1 .. Len(tracked_spans) /\ tracked_spans \in Seq(Reg!Keys)
  BY Tracked DEF IInv, Writing
<1>2. key \in Reg!Keys /\ s \in Seq(Reg!Keys)
  BY <1>1 DEF key
<1>3. SubSeq(tracked_spans, 1, at) = Append(s, key)
  BY <1>1 DEF key
<1>4. key \in wanted <=> shown(key)
  BY <1>2 DEF wanted
<1> HIDE DEF s
<1>5. Selected(Append(s, key), wanted)
        = IF key \in wanted THEN Append(Selected(s, wanted), key) ELSE Selected(s, wanted)
  BY <1>2, SelectedAppend
<1> QED BY <1>3, <1>4, <1>5 DEF passed, s

\* The keys of the lines when there is one more.
LEMMA OneMoreLine ==
  ASSUME NEW l, lines \in Seq(Line_record), l \in Line_record, lines' = Append(lines, l)
  PROVE  line_keys' = Append(line_keys, l.key)
<1>1. /\ Len(lines) \in Nat /\ DOMAIN lines = 1 .. Len(lines) /\ DOMAIN lines' = 1 .. Len(lines) + 1
      /\ lines'[Len(lines) + 1] = l /\ \A i \in 1 .. Len(lines) : lines'[i] = lines[i]
  OBVIOUS
<1>2. \A i \in 1 .. Len(lines) : lines[i].key \in Reg!Keys
  <2> SUFFICES ASSUME NEW i \in 1 .. Len(lines) PROVE lines[i].key \in Reg!Keys
    OBVIOUS
  <2>1. lines[i] \in Line_record
    OBVIOUS
  <2> QED BY <2>1 DEF Line_record
<1>3. line_keys \in Seq(Reg!Keys) /\ Len(line_keys) = Len(lines) /\ l.key \in Reg!Keys
      /\ \A i \in 1 .. Len(lines) : line_keys[i] = lines[i].key
  BY <1>1, <1>2 DEF line_keys, Line_record
<1> DEFINE a == Append(line_keys, l.key)
<1>4. /\ a \in [1 .. Len(lines) + 1 -> Reg!Keys] /\ a[Len(lines) + 1] = l.key
      /\ \A i \in 1 .. Len(lines) : a[i] = lines[i].key
  <2> DEFINE q == line_keys
             k == l.key
  <2>1. q \in Seq(Reg!Keys) /\ Len(q) = Len(lines) /\ k \in Reg!Keys
        /\ \A i \in 1 .. Len(lines) : q[i] = lines[i].key
    BY <1>3
  <2> HIDE DEF q, k
  <2>2. /\ Append(q, k) \in Seq(Reg!Keys) /\ Len(Append(q, k)) = Len(lines) + 1
        /\ Append(q, k)[Len(lines) + 1] = k /\ \A i \in 1 .. Len(lines) : Append(q, k)[i] = q[i]
    BY <1>1, <2>1
  <2>3. \A b \in Seq(Reg!Keys) : b \in [1 .. Len(b) -> Reg!Keys]
    OBVIOUS
  <2>4. Append(q, k) \in [1 .. Len(lines) + 1 -> Reg!Keys]
    BY <2>2, <2>3
  <2> QED BY <2>1, <2>2, <2>4 DEF q, k
<1>5. \A i \in 1 .. Len(lines) + 1 : lines'[i].key = a[i]
  BY <1>1, <1>4
<1> HIDE DEF a
<1>6. [i \in 1 .. Len(lines) + 1 |-> lines'[i].key] = a
  BY <1>4, <1>5
<1> QED BY <1>1, <1>6 DEF line_keys, a

\* Within a report what is to be shown and what has been tracked stand still.
LEMMA SameWanted ==
  ASSUME UNCHANGED <<regvars, hist>>
  PROVE  /\ \A k : shown(k)' <=> shown(k)
         /\ \A n : passed(n)' = passed(n)
<1>1. \A k : shown(k)' <=> shown(k)
  BY DEF hist, shown
<1>2. wanted' = wanted
  BY <1>1 DEF wanted
<1> QED BY <1>1, <1>2 DEF passed, regvars

LEMMA CompleteHolds == IInv /\ Complete /\ [Next]_vars => Complete'
<1> SUFFICES ASSUME IInv, Complete, [Next]_vars, reporting', moved' = 0
             PROVE  /\ Should_report_builtins' = builtins'
                    /\ cells' # << >> => shown(key)'
                    /\ line_keys' = passed(at - 1)'
  BY DEF Complete
<1>1. CASE ReportBegin
  <2>1. lines' = << >> /\ at' = 1 /\ cells' = << >> /\ Should_report_builtins' = builtins'
        /\ tracked_spans' = tracked_spans
    BY <1>1 DEF ReportBegin, regvars, switches
  <2>2. line_keys' = << >>
    BY <2>1 DEF line_keys
  <2>3. SubSeq(tracked_spans, 1, 0) = << >>
    BY Tracked DEF IInv
  <2>4. passed(at - 1)' = Selected(SubSeq(tracked_spans', 1, at' - 1), wanted')
    BY DEF passed
  <2>5. at' - 1 = 0
    BY <2>1
  <2>6. passed(at - 1)' = << >>
    BY <2>1, <2>3, <2>4, <2>5, SelectedEmpty
  <2> QED BY <2>1, <2>2, <2>6
<1>2. CASE Rows \/ ReportEnd
  BY <1>2 DEF Rows, ReportEnd, repvars, IInv, Writing
<1>3. CASE Toggle
  BY <1>3 DEF Toggle, repvars, IInv, Writing
<1>4. CASE Skip \/ Unsampled \/ Cell \/ Line \/ UNCHANGED vars
  <2>1. UNCHANGED <<regvars, switches, reporting, overhead, hist>>
    BY <1>4 DEF Skip, Unsampled, Cell, Line, vars, repvars
  <2>2. /\ \A k : shown(k)' <=> shown(k)
        /\ \A n : passed(n)' = passed(n)
    BY <2>1, SameWanted
  <2>3. /\ Should_report_builtins = builtins /\ Should_report_builtins' = builtins'
        /\ cells # << >> => shown(key)
        /\ line_keys = passed(at - 1)
        /\ Should_report_builtins \/ key \notin LLKeys <=> shown(key)
    BY <2>1 DEF Complete, switches, hist, shown
  <2>4. at \in Nat /\ lines \in Seq(Line_record)
    BY <1>4 DEF IInv, Writing
  <2>5. CASE Cell
    <3>1. lines' = lines /\ at' = at /\ shown(key) /\ key' = key
      BY <2>1, <2>3, <2>5 DEF Cell, key, regvars
    <3> QED BY <2>2, <2>3, <3>1 DEF line_keys
  <2>6. CASE Skip
    <3>1. at <= Len(tracked_spans) /\ lines' = lines /\ at' = at + 1 /\ cells' = << >> /\ ~shown(key)
      BY <2>3, <2>6 DEF Skip, next_row
    <3>2. passed(at) = passed(at - 1) /\ at' - 1 = at
      BY <2>4, <3>1, PassedOne
    <3>3. passed(at - 1)' = passed(at)
      BY <2>1, <2>2, <3>2 DEF passed
    <3> QED BY <2>3, <3>1, <3>2, <3>3 DEF line_keys
  <2>7. CASE Unsampled \/ Line
    <3> DEFINE c == IF Line THEN cells ELSE << >>
               l == [key |-> key, cells |-> c]
    <3>1. /\ at <= Len(tracked_spans) /\ lines' = Append(lines, l) /\ at' = at + 1
          /\ cells' = << >> /\ shown(key)
      <4>1. Line => cells # << >>
        BY DEF Line
      <4>2. cells # << >> => at <= Len(tracked_spans)
        BY DEF IInv, Writing
      <4>3. Unsampled => cells = << >>
        BY DEF Unsampled
      <4>4. CASE Line
        BY <4>1, <4>2, <4>4, <2>3 DEF Line, next_row
      <4>5. CASE Unsampled /\ ~Line
        BY <4>5, <2>3 DEF Unsampled, next_row
      <4> QED BY <2>7, <4>4, <4>5
    <3>2. key \in Reg!Keys /\ c \in Seq(Reg!Int64)
      <4>1. at \in 1 .. Len(tracked_spans)
        BY <3>1 DEF IInv, Writing
      <4> QED BY <4>1, Tracked DEF IInv, key, Writing
    <3>3. l \in Line_record /\ l.key = key
      BY <3>2 DEF Line_record
    <3> HIDE DEF l, c
    <3>4. line_keys' = Append(line_keys, key)
      BY <2>4, <3>1, <3>3, OneMoreLine
    <3>5. passed(at) = Append(passed(at - 1), key) /\ at' - 1 = at
      BY <2>4, <3>1, PassedOne
    <3>6. passed(at - 1)' = passed(at)
      BY <2>1, <2>2, <3>5 DEF passed
    <3> QED BY <2>3, <3>1, <3>4, <3>5, <3>6
  <2>8. CASE UNCHANGED vars
    <3>1. lines' = lines /\ at' = at /\ key' = key /\ cells' = cells
      BY <2>1, <2>8 DEF vars, repvars, key, regvars
    <3> QED BY <2>2, <2>3, <3>1 DEF line_keys
  <2> QED BY <1>4, <2>5, <2>6, <2>7, <2>8
<1> QED BY <1>1, <1>2, <1>3, <1>4 DEF Next

(***************************************************************************)
(* Unless a switch is moved under it, report_inner writes a line for every *)
(* tracked span that is to be shown, and for no other, in their order.     *)
(***************************************************************************)
THEOREM EveryLineWritten == Spec => []ReportComplete
<1>1. Init => Complete
  BY DEF Init, Complete
<1>2. Complete => ReportComplete
  BY DEF Complete, ReportComplete, line_keys, passed, wanted
<1> QED BY <1>1, <1>2, CompleteHolds, Invariance, PTL DEF Spec

-------------------------------------------------------------------------------
(***************************************************************************)
(* Durations as the clock gives them: none is negative, none the longest   *)
(* an int64 holds.                                                         *)
(***************************************************************************)
ClockOK == Durs \subseteq 0 .. MaxInt64 - 1

\* So all of a row's samples are in that range.
RowsTimed ==
  \A k \in Reg!Keys :
    learners[k].Weight > 0 => 0 <= learners[k].Min /\ learners[k].Max <= MaxInt64 - 1

LEMMA RowTimed ==
  ASSUME ClockOK,
         NEW old \in Reg!Learner, NEW new, NEW sum \in Int, NEW sum2,
         RP!RowInv(old, sum), RP!RowChange(old, new, sum, sum2),
         old.Weight > 0 => 0 <= old.Min /\ old.Max <= MaxInt64 - 1,
         new.Weight > 0
  PROVE  0 <= new.Min /\ new.Max <= MaxInt64 - 1
<1>1. CASE new = old
  BY <1>1
<1>2. CASE new \in {RP!fresh("LL"), RP!fresh("VLL")}
  BY <1>2 DEF RP!fresh
<1>3. ASSUME NEW dur \in Durs, NEW base \in {old, RP!fresh("LL"), RP!fresh("VLL")},
             new = RP!after2(base, dur)
      PROVE  0 <= new.Min /\ new.Max <= MaxInt64 - 1
  <2>1. base \in RP!Learner /\ (base.Pair_ever_completed <=> base.Weight > 0)
        /\ (base.Weight > 0 => base = old)
    <3>1. CASE base = old
      BY <3>1, SameRows DEF RP!RowInv
    <3>2. CASE base # old
      BY <3>2, RP!Fresh, Constants DEF RP!RowInv, RP!fresh
    <3> QED BY <3>1, <3>2
  <2>2. dur \in Int /\ 0 <= dur /\ dur <= MaxInt64 - 1 /\ dur \in RP!Int64
    BY Numbers, SameRows DEF ClockOK
  <2>3. /\ base.Weight = 0 => new.Min = dur /\ new.Max = dur
        /\ base.Weight > 0 => new.Min \in {base.Min, dur} /\ new.Max \in {base.Max, dur}
        /\ base.Weight \in Nat
    BY <2>1, <2>2, <1>3, RP!After2, Constants DEF RP!Learner
  <2> QED BY <2>1, <2>2, <2>3
<1> QED BY <1>1, <1>2, <1>3 DEF RP!RowChange

LEMMA NextTimed ==
  ASSUME ClockOK, RP!IInv, RowsTimed, Reg!Next
  PROVE  RowsTimed'
<1>1. CASE Reg!Register
  <2>1. \A k \in Reg!Keys : learners'[k].Weight = 0
    BY <1>1 DEF Reg!Register, Reg!register, Reg!fresh, Reg!NoLearner
  <2> QED BY <2>1 DEF RowsTimed
<1>2. CASE Reg!Sample
  <2>1. PICK n \in Names, v \in Variants, d \in Durs : Reg!handle_ssu_A(n, v, d)
    BY <1>2 DEF Reg!Sample
  <2>2. RP!handle_ssu_A(n, v, d)
    BY <2>1, SameSample
  <2> SUFFICES ASSUME NEW k \in Reg!Keys, learners'[k].Weight > 0
               PROVE  0 <= learners'[k].Min /\ learners'[k].Max <= MaxInt64 - 1
    BY DEF RowsTimed
  <2>3. RP!RowChange(learners[k], learners'[k], total[k], total'[k])
    BY <2>2, RP!SampleRows, Constants, SameRows DEF RP!IInv
  <2> QED BY <2>3, RowTimed, Tracked DEF RowsTimed
<1> QED BY <1>1, <1>2 DEF Reg!Next

LEMMA Timed ==
  ASSUME ClockOK
  PROVE  Spec => []RowsTimed
<1>1. Init => RowsTimed
  BY DEF Init, Reg!Init, RowsTimed, Reg!NoLearner, Reg!fresh
<1>2. IInv /\ RowsTimed /\ [Next]_vars => RowsTimed'
  <2> SUFFICES ASSUME IInv, RowsTimed, [Next]_vars PROVE RowsTimed'
    OBVIOUS
  <2>1. CASE UNCHANGED regvars
    BY <2>1 DEF regvars, RowsTimed
  <2>2. CASE Reg!Next
    BY <2>2, NextTimed DEF IInv
  <2>3. ASSUME ReportEnd PROVE Reg!Next
    <3>1. REPORT_SPAN \in Names /\ "" \in Variants /\ registered
      BY <2>3, ReportAssumption DEF Reg!ConstantsOK, ReportEnd, IInv, Writing
    <3> QED BY <2>3, <3>1 DEF ReportEnd, Reg!Next, Reg!Sample
  <2> QED
    BY <2>1, <2>2, <2>3 DEF Next, Rows, Toggle, ReportBegin, Skip, Unsampled, Cell, Line, vars
<1> QED BY <1>1, <1>2, Invariance, PTL DEF Spec

\* The four numbers of a row with samples fit together, and with the clock.
LEMMA RowNumbers ==
  ASSUME RP!IInv, RowsTimed, NEW k \in Reg!Keys, learners[k].Pair_ever_completed,
         total[k] \in Reg!Int64
  PROVE  LET m == metrics(learners[k]) IN
         /\ \A j \in 1 .. 4 : m[j] \in Int /\ 0 <= m[j] /\ m[j] <= MaxInt64 - 1
         /\ m[1] <= m[2] /\ m[2] <= m[3]
         /\ m[1] <= m[4] /\ m[4] <= m[3]
<1> DEFINE ll == learners[k]
<1>1. ll \in Reg!Learner /\ RP!RowInv(ll, total[k]) /\ total[k] \in Int /\ ll.Weight > 0
  BY Tracked DEF RP!RowInv
<1>2. /\ ll.Min <= ll.Last /\ ll.Last <= ll.Max
      /\ ll.Min <= Reg!mean(ll) /\ Reg!mean(ll) <= ll.Max
  BY <1>1, RP!RowFigures, Constants, SameRows
<1>3. 0 <= ll.Min /\ ll.Max <= MaxInt64 - 1
  BY <1>1 DEF RowsTimed
<1>4. ll.Min \in Int /\ ll.Last \in Int /\ ll.Max \in Int /\ Reg!mean(ll) \in Int
  <2>1. ll.Min \in Reg!Int64 /\ ll.Last \in Reg!Int64 /\ ll.Max \in Reg!Int64
    BY <1>1 DEF Reg!Learner
  <2> QED BY <1>1, <2>1, MeanInt64, Numbers
<1>5. metrics(ll) = <<ll.Min, ll.Last, ll.Max, Reg!mean(ll)>>
  BY DEF metrics
<1> DEFINE a == ll.Min  b == ll.Last  c == ll.Max  d == Reg!mean(ll)
<1> HIDE DEF ll, a, b, c, d
<1>6. /\ a \in Int /\ b \in Int /\ c \in Int /\ d \in Int
      /\ 0 <= a /\ a <= b /\ b <= c /\ a <= d /\ d <= c /\ c <= MaxInt64 - 1
      /\ metrics(ll) = <<a, b, c, d>>
  BY <1>2, <1>3, <1>4, <1>5 DEF a, b, c, d
<1>7. metrics(ll)[1] = a /\ metrics(ll)[2] = b /\ metrics(ll)[3] = c /\ metrics(ll)[4] = d
  BY <1>6
<1>8. \A j \in 1 .. 4 : j = 1 \/ j = 2 \/ j = 3 \/ j = 4
  OBVIOUS
<1>9. \A j \in 1 .. 4 :
        metrics(ll)[j] \in Int /\ 0 <= metrics(ll)[j] /\ metrics(ll)[j] <= MaxInt64 - 1
  BY <1>6, <1>7, <1>8, Constants
<1> QED BY <1>6, <1>7, <1>9 DEF ll

\* Within the clock's range, overhead_comp subtracts without wrapping.
LEMMA Subtracted ==
  ASSUME NEW m \in Int, 0 <= m, m <= MaxInt64 - 1,
         NEW o \in Int, -1 <= o, o <= MaxInt64 - 1
  PROVE  Reg!sub64(m, o) = m - o
BY Constants DEF Reg!sub64, Reg!MinInt64, Reg!Modulus

\* The estimate is -1, or the least sample of the no-op span.
LEMMA Estimate ==
  ASSUME IInv, RowsTimed, reporting
  PROVE  /\ overhead \in Int /\ -1 <= overhead /\ overhead <= MaxInt64 - 1
         /\ subtract /\ has_estimate =>
              0 <= overhead /\ overhead = learners[OVERHEAD_SPAN].Min
<1> DEFINE ll == learners[OVERHEAD_SPAN]
<1>1. ll \in Reg!Learner /\ RP!RowInv(ll, total[OVERHEAD_SPAN]) /\ OVERHEAD_SPAN \in Reg!Keys
  BY Tracked DEF IInv
<1>2. has_estimate => ll.Weight > 0
  BY <1>1 DEF RP!RowInv, has_estimate
<1>3. has_estimate => ll.Min \in Int /\ 0 <= ll.Min /\ ll.Min <= MaxInt64 - 1
  <2>1. ll.Min \in Int /\ ll.Max \in Int /\ ll.Weight \in Nat
    <3>1. ll.Min \in Reg!Int64 /\ ll.Max \in Reg!Int64 /\ ll.Weight \in Nat
      BY <1>1 DEF Reg!Learner
    <3> QED BY <3>1, Numbers
  <2>2. ll.Weight > 0 => ll.Min <= ll.Max
    <3>1. ll.Weight > 0 => ll.Min <= ll.Last /\ ll.Last <= ll.Max /\ ll.Last \in Int
      BY <1>1, Numbers DEF RP!RowInv, Reg!Learner
    <3> QED BY <2>1, <3>1
  <2> QED BY <1>1, <1>2, <2>1, <2>2, Constants DEF RowsTimed
<1>4. overhead = IF subtract THEN measure_overhead_estimate ELSE -1
  BY DEF IInv, Writing
<1> QED BY <1>3, <1>4, Constants DEF measure_overhead_estimate

\* A line with cells, in a report in which no switch has been moved.
LEMMA LineCells ==
  ASSUME IInv, moved = 0, NEW i \in DOMAIN lines, lines[i].cells # << >>
  PROVE  /\ lines[i].key \in Reg!Keys /\ learners[lines[i].key].Pair_ever_completed
         /\ DOMAIN lines[i].cells = 1 .. 4
         /\ \A j \in 1 .. 4 : lines[i].cells[j] = cell_of(lines[i].key, j)
<1>1. i \in 1 .. Len(lines) /\ lines[i] \in Line_record
  BY DEF IInv, Writing
<1>2. /\ Len(lines[i].cells) = 4 /\ learners[lines[i].key].Pair_ever_completed
      /\ filled(lines[i].key, lines[i].cells)
  BY <1>1 DEF IInv, Filled
<1>3. lines[i].key \in Reg!Keys /\ DOMAIN lines[i].cells = 1 .. 4
  BY <1>1, <1>2 DEF Line_record
<1> QED BY <1>2, <1>3 DEF filled

(***************************************************************************)
(* In a report in which no switch is moved, overhead is subtracted where   *)
(* the estimate leaves something, and never more than the estimate.        *)
(***************************************************************************)
THEOREM CompensatedAlways ==
  ASSUME ClockOK
  PROVE  Spec => []Compensated
<1>1. ASSUME IInv, RowsTimed PROVE Compensated
  <2> SUFFICES ASSUME reporting, moved = 0, subtract, has_estimate,
                      NEW i \in DOMAIN lines, NEW j \in DOMAIN lines[i].cells,
                      sound(lines[i])
               PROVE  LET metric == metrics(learners[lines[i].key])[j]
                          c      == lines[i].cells[j]
                      IN  0 <= c /\ c <= metric /\ metric - c <= overhead
    BY DEF Compensated
  <2> DEFINE k == lines[i].key
             m == metrics(learners[k])[j]
  <2>1. k \in Reg!Keys /\ learners[k].Pair_ever_completed /\ j \in 1 .. 4
        /\ lines[i].cells[j] = cell_of(k, j)
    BY <1>1, LineCells DEF sound
  <2>2. m \in Int /\ 0 <= m /\ m <= MaxInt64 - 1
    BY <1>1, <2>1, RowNumbers DEF IInv, sound
  <2>3. overhead \in Int /\ 0 <= overhead /\ overhead <= MaxInt64 - 1
    BY <1>1, Estimate
  <2>4. cell_of(k, j) = IF exempt(k, j) THEN m ELSE IF m - overhead < 0 THEN 0 ELSE m - overhead
    BY <2>2, <2>3, Subtracted DEF cell_of
  <2> HIDE DEF k, m
  <2>5. 0 <= cell_of(k, j) /\ cell_of(k, j) <= m /\ m - cell_of(k, j) <= overhead
    BY <2>2, <2>3, <2>4
  <2> QED BY <2>1, <2>5 DEF k, m
<1> QED BY <1>1, Invariance, Timed, PTL

(***************************************************************************)
(* On one line of such a report the numbers keep their order, floor and    *)
(* missing estimate notwithstanding.                                       *)
(***************************************************************************)
THEOREM LinesKeepOrder ==
  ASSUME ClockOK
  PROVE  Spec => []LinesOrdered
<1>1. ASSUME IInv, RowsTimed PROVE LinesOrdered
  <2> SUFFICES ASSUME reporting, moved = 0, NEW i \in DOMAIN lines, sound(lines[i])
               PROVE  LET c == lines[i].cells IN
                      /\ c[2] <= c[3] /\ c[4] <= c[3]
                      /\ lines[i].key # OVERHEAD_SPAN \/ ~subtract => c[1] <= c[2] /\ c[1] <= c[4]
    BY DEF LinesOrdered
  <2> DEFINE k == lines[i].key
             m == metrics(learners[k])
             comp(x) == IF x - overhead < 0 THEN 0 ELSE x - overhead
  <2>1. k \in Reg!Keys /\ learners[k].Pair_ever_completed
        /\ \A j \in 1 .. 4 : lines[i].cells[j] = cell_of(k, j)
    BY <1>1, LineCells DEF sound
  <2>2. /\ \A j \in 1 .. 4 : m[j] \in Int /\ 0 <= m[j] /\ m[j] <= MaxInt64 - 1
        /\ m[1] <= m[2] /\ m[2] <= m[3] /\ m[1] <= m[4] /\ m[4] <= m[3]
    BY <1>1, <2>1, RowNumbers DEF IInv, sound
  <2>3. overhead \in Int /\ -1 <= overhead /\ overhead <= MaxInt64 - 1
    BY <1>1, Estimate
  <2>4. \A j \in 1 .. 4 :
          cell_of(k, j) = IF exempt(k, j) \/ ~subtract THEN m[j] ELSE comp(m[j])
    BY <2>2, <2>3, Subtracted DEF cell_of
  <2>5. \A j \in 1 .. 4 : exempt(k, j) <=> j = 1 /\ (overhead = -1 \/ k = OVERHEAD_SPAN)
    BY DEF exempt
  <2> DEFINE a == m[1]  b == m[2]  c == m[3]  d == m[4]
  <2>6. /\ a \in Int /\ b \in Int /\ c \in Int /\ d \in Int
        /\ 0 <= a /\ a <= b /\ b <= c /\ a <= d /\ d <= c
    BY <2>2
  <2>7. /\ lines[i].cells[1] = IF overhead = -1 \/ k = OVERHEAD_SPAN \/ ~subtract THEN a ELSE comp(a)
        /\ lines[i].cells[2] = IF ~subtract THEN b ELSE comp(b)
        /\ lines[i].cells[3] = IF ~subtract THEN c ELSE comp(c)
        /\ lines[i].cells[4] = IF ~subtract THEN d ELSE comp(d)
    BY <2>1, <2>4, <2>5
  <2> HIDE DEF a, b, c, d, m
  <2>8. comp(b) <= comp(c) /\ comp(d) <= comp(c) /\ comp(a) <= comp(b) /\ comp(a) <= comp(d)
        /\ (overhead = -1 => a <= comp(b) /\ a <= comp(d))
    BY <2>3, <2>6
  <2> QED BY <2>6, <2>7, <2>8
<1> QED BY <1>1, Invariance, Timed, PTL

=============================================================================
