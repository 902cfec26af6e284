-------------------------------- MODULE Report --------------------------------
(***************************************************************************)
(* What report_inner writes about the rows of Registry.  It runs on the    *)
(* serve goroutine, so the rows stand still under it; the two exported     *)
(* switches do not: report_inner and overhead_comp read them again and     *)
(* again while the application may set them.  One step per such read.      *)
(*                                                                         *)
(* A line of the file is a key and the cells min, last, max and mean.      *)
(* Left out: the header (host, runtime and context parameters), the        *)
(* weight, which is copied, the time fraction, and the layout.             *)
(***************************************************************************)
EXTENDS Integers, Sequences, SequencesExt, Filtering

CONSTANTS
  MaxInt64, Names, Variants, Durs, Builtins, AppSpans,    \* see Registry
  LLKeys                    \* the keys that begin with "LL."

VARIABLES
  learners, tracked_spans, registered, expected, submitted, total,
  Should_subtract_overhead, Should_report_builtins,
  reporting,                \* report_inner is writing the lines
  overhead,                 \* its variable of that name
  at,                       \* its position in tracked_spans
  cells,                    \* the cells of the line it is working on
  lines,                    \* the lines it has written
  (*************************************************************************)
  (* History: the switches as they were when the report began, and how     *)
  (* often one of them has been moved since.                               *)
  (*************************************************************************)
  subtract, builtins, moved

Reg == INSTANCE Registry

regvars  == <<learners, tracked_spans, registered, expected, submitted, total>>
switches == <<Should_subtract_overhead, Should_report_builtins>>
repvars  == <<reporting, overhead, at, cells, lines>>
hist     == <<subtract, builtins, moved>>
vars     == <<regvars, switches, repvars, hist>>

OVERHEAD_SPAN == "LL.no-op"
REPORT_SPAN   == "LL.lat-report"

ASSUME ReportAssumption ==
  /\ MaxInt64 \in Nat \ {0} /\ Reg!ConstantsOK
  /\ {OVERHEAD_SPAN, REPORT_SPAN} \subseteq Reg!Keys
  /\ OVERHEAD_SPAN \in LLKeys /\ LLKeys \subseteq Reg!Keys
  /\ REPORT_SPAN \in Names

Init ==
  /\ Reg!Init
  /\ Should_subtract_overhead = FALSE /\ Should_report_builtins = TRUE
  /\ reporting = FALSE /\ overhead = -1 /\ at = 1 /\ cells = << >> /\ lines = << >>
  /\ subtract = FALSE /\ builtins = TRUE /\ moved = 0

-------------------------------------------------------------------------------
\* Reg!Next: Init, and the samples serve handles between reports.
Rows ==
  /\ ~reporting
  /\ Reg!Next
  /\ UNCHANGED <<switches, repvars, hist>>

\* The application sets a switch.
Toggle ==
  /\ \/ /\ Should_subtract_overhead' = ~Should_subtract_overhead
        /\ UNCHANGED Should_report_builtins
     \/ /\ Should_report_builtins' = ~Should_report_builtins
        /\ UNCHANGED Should_subtract_overhead
  /\ moved' = IF reporting THEN moved + 1 ELSE 0
  /\ UNCHANGED <<regvars, repvars, subtract, builtins>>

-------------------------------------------------------------------------------
has_estimate == learners[OVERHEAD_SPAN].Pair_ever_completed

\* The least no-op latency, or -1 for "no usable estimate".
measure_overhead_estimate ==
  IF has_estimate THEN learners[OVERHEAD_SPAN].Min ELSE -1

\* The loop starts at zero, where no span is.
ReportBegin_zero ==
  /\ registered /\ ~reporting
  /\ reporting' = TRUE /\ at' = 0 /\ cells' = << >> /\ lines' = << >>
  /\ overhead' = IF Should_subtract_overhead THEN measure_overhead_estimate ELSE -1
  /\ subtract' = Should_subtract_overhead
  /\ builtins' = Should_report_builtins
  /\ moved' = 0
  /\ UNCHANGED <<regvars, switches>>

\* report_inner up to its loop over the tracked spans.
ReportBegin ==
  /\ registered /\ ~reporting
  /\ reporting' = TRUE /\ at' = 1 /\ cells' = << >> /\ lines' = << >>
  /\ overhead' = IF Should_subtract_overhead THEN measure_overhead_estimate ELSE -1
  /\ subtract' = Should_subtract_overhead
  /\ builtins' = Should_report_builtins
  /\ moved' = 0
  /\ UNCHANGED <<regvars, switches>>

key == tracked_spans[at]
row == learners[key]

next_row == at' = at + 1 /\ cells' = << >>

\* A built-in span ends the loop instead of being passed over.
Skip_rest ==
  /\ reporting /\ at <= Len(tracked_spans) /\ cells = << >>
  /\ ~Should_report_builtins /\ key \in LLKeys
  /\ at' = Len(tracked_spans) + 1 /\ cells' = << >>
  /\ UNCHANGED <<regvars, switches, reporting, overhead, lines, hist>>

\* The test of Should_report_builtins passes over a built-in span.
Skip ==
  /\ reporting /\ at <= Len(tracked_spans) /\ cells = << >>
  /\ ~Should_report_builtins /\ key \in LLKeys
  /\ next_row
  /\ UNCHANGED <<regvars, switches, reporting, overhead, lines, hist>>

\* That test lets a span pass that has no sample: the line says so.
Unsampled ==
  /\ reporting /\ at <= Len(tracked_spans) /\ cells = << >>
  /\ Should_report_builtins \/ key \notin LLKeys
  /\ ~row.Pair_ever_completed
  /\ lines' = Append(lines, [key |-> key, cells |-> << >>])
  /\ next_row
  /\ UNCHANGED <<regvars, switches, reporting, overhead, hist>>

\* No floor under the compensated value.
overhead_comp_no_floor(metric) ==
  IF Should_subtract_overhead THEN Reg!sub64(metric, overhead) ELSE metric

overhead_comp(metric) ==
  IF ~Should_subtract_overhead THEN metric
  ELSE IF Reg!sub64(metric, overhead) < 0 THEN 0 ELSE Reg!sub64(metric, overhead)

\* The four numbers of a row, in the order report compensates them.
metrics(ll) == <<ll.Min, ll.Last, ll.Max, Reg!mean(ll)>>

\* The built-in spans' minima are all left as they are.
exempt_builtins(k, i) == i = 1 /\ (overhead = -1 \/ k \in LLKeys)

\* The no-op span is treated like any other.
exempt_none(k, i) == i = 1 /\ overhead = -1

\* The minimum is left as it is when there is no estimate, or for the no-op span.
exempt(k, i) == i = 1 /\ (overhead = -1 \/ k = OVERHEAD_SPAN)

cell(i) == IF exempt(key, i) THEN metrics(row)[i] ELSE overhead_comp(metrics(row)[i])

\* report computes the next cell of the line.
Cell ==
  /\ reporting /\ at <= Len(tracked_spans)
  /\ cells = << >> => Should_report_builtins \/ key \notin LLKeys
  /\ row.Pair_ever_completed
  /\ Len(cells) < 4
  /\ cells' = Append(cells, cell(Len(cells) + 1))
  /\ UNCHANGED <<regvars, switches, reporting, overhead, at, lines, hist>>

Line ==
  /\ reporting /\ Len(cells) = 4
  /\ lines' = Append(lines, [key |-> key, cells |-> cells])
  /\ next_row
  /\ UNCHANGED <<regvars, switches, reporting, overhead, hist>>

\* The loop is done: the report's own latency becomes a sample, the file is
\* closed and the variables of report_inner are gone.
ReportEnd ==
  /\ reporting /\ at > Len(tracked_spans)
  /\ \E d \in Durs : Reg!handle_ssu_A(REPORT_SPAN, "", d)
  /\ reporting' = FALSE
  /\ overhead' = -1 /\ at' = 1 /\ cells' = << >> /\ lines' = << >>
  /\ subtract' = FALSE /\ builtins' = TRUE /\ moved' = 0
  /\ UNCHANGED switches

Next ==
  \/ Rows \/ Toggle
  \/ ReportBegin \/ Skip \/ Unsampled \/ Cell \/ Line \/ ReportEnd

Spec == Init /\ [][Next]_vars

-------------------------------------------------------------------------------
TypeOK ==
  /\ Reg!TypeOK
  /\ Should_subtract_overhead \in BOOLEAN /\ Should_report_builtins \in BOOLEAN
  /\ reporting \in BOOLEAN
  /\ overhead \in Reg!Int64
  /\ at \in 1 .. Len(tracked_spans) + 1
  /\ cells \in Seq(Reg!Int64) /\ Len(cells) <= 4
  /\ lines \in Seq([key : Reg!Keys, cells : Seq(Reg!Int64)])
  /\ subtract \in BOOLEAN /\ builtins \in BOOLEAN /\ moved \in Nat

(***************************************************************************)
(* Unless the application moves a switch under it, a report has one line   *)
(* for each tracked span that is to be shown, in the order of              *)
(* tracked_spans: none is left out, repeated or misplaced.                 *)
(***************************************************************************)
shown(k) == builtins \/ k \notin LLKeys

ReportComplete ==
  reporting /\ moved = 0 =>
    [i \in DOMAIN lines |-> lines[i].key]
      = Selected(SubSeq(tracked_spans, 1, at - 1), {k \in Reg!Keys : shown(k)})

\* Written for a row that has samples, all of which were sums the int64 holds.
sound(l) == l.cells # << >> /\ total[l.key] \in Reg!Int64

(***************************************************************************)
(* On one line of an undisturbed report the minimum is the least and the   *)
(* maximum the greatest of the four numbers, compensation and its floor    *)
(* notwithstanding.  README, on overhead: LL.no-op is the one exception.   *)
(***************************************************************************)
LinesOrdered ==
  reporting /\ moved = 0 =>
    \A i \in DOMAIN lines :
      LET c == lines[i].cells IN
      sound(lines[i]) =>
        /\ c[2] <= c[3] /\ c[4] <= c[3]
        /\ lines[i].key # OVERHEAD_SPAN \/ ~subtract => c[1] <= c[2] /\ c[1] <= c[4]

(***************************************************************************)
(* The minimum of LL.no-op always passes through unchanged (README), even  *)
(* if the switches are moved while the report is written.                  *)
(***************************************************************************)
OverheadSpanMin ==
  reporting =>
    \A i \in DOMAIN lines :
      lines[i].key = OVERHEAD_SPAN /\ lines[i].cells # << >> =>
        lines[i].cells[1] = learners[OVERHEAD_SPAN].Min

(***************************************************************************)
(* Overhead is subtracted: no number in a report is above the one that was *)
(* measured ...                                                            *)
(***************************************************************************)
NeverInflated ==
  reporting =>
    \A i \in DOMAIN lines : \A j \in DOMAIN lines[i].cells :
      lines[i].cells[j] <= metrics(learners[lines[i].key])[j]

(***************************************************************************)
(* ... nor below zero or short by more than the estimate: so it is in an   *)
(* undisturbed report that has an estimate to work with.                   *)
(***************************************************************************)
Compensated ==
  reporting /\ moved = 0 /\ subtract /\ has_estimate =>
    \A i \in DOMAIN lines : \A j \in DOMAIN lines[i].cells :
      LET metric == metrics(learners[lines[i].key])[j]
          c      == lines[i].cells[j]
      IN  sound(lines[i]) => 0 <= c /\ c <= metric /\ metric - c <= overhead

===============================================================================
