------------------------------- MODULE MCReport -------------------------------
(***************************************************************************)
(* Report on a small instance: one span of the application, expected or    *)
(* found ad hoc (so listed before or after the built-in ones), the no-op   *)
(* span and the report's own; non-negative durations, as the clock gives   *)
(* them.                                                                   *)
(***************************************************************************)
EXTENDS Report

CONSTANTS MaxSamples, MaxMoves

MCNames == {"f", "LL.no-op", "LL.lat-report"}
MCVariants == {""}
MCDurs == {0, 2, 5}
MCBuiltins == <<"LL.no-op", "LL.lat-report">>
MCAppSpans == {<< >>, <<"f">>}
MCLLKeys == {Reg!span_key_form(n, v) : n \in {"LL.no-op", "LL.lat-report"}, v \in MCVariants}

ASSUME SelectsLikeSelectSeq({"f"} \cup MCLLKeys, 4)

Handled == FoldFunction(+, 0, submitted)

\* At most MaxSamples samples are followed, the reports' own included, and
\* the switches are moved at most MaxMoves times in a report.
Bound == Handled <= MaxSamples /\ moved <= MaxMoves
===============================================================================
