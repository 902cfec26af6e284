------------------------------ MODULE MCLatLearn ------------------------------
(***************************************************************************)
(* LatLearn on small instances: two goroutines, one ad hoc span "f" that   *)
(* may end with the variant "x", a channel of one or two slots.            *)
(***************************************************************************)
EXTENDS LatLearnService, BuiltinSpans, TLC

MCNames == {"f", "LL.no-op", "LL.lat-report", "LL.benchmarks-total"}
MCVariants == {"", "x"}
NoVariants == {""}
MCBuiltins == <<"LL.no-op", "LL.benchmarks-total", "LL.lat-report">>
MCAppSpans == {<< >>}
\* Init by one goroutine, Init2 by another.
MCEitherInit == {<< >>, <<"f">>}
MCBegins == {<<"f", "">>}
NoBegins == {}

\* The program's own benchmarks, two rounds where it makes a thousand.
BenchBuiltins == spans_latlearn_builtin
MCBenchPlan == benchmarks_plan(2, "darwin")
NoBenchPlan == << >>

CONSTANTS g1, g2, s1, s2

\* Each goroutine ends spans it has begun itself ...
MCOwn == (g1 :> {s1}) @@ (g2 :> {s2})
\* ... or both hold a pointer to the same one.
MCShared == (g1 :> {s1}) @@ (g2 :> {s1})
\* ... or there are no spans but the built-in ones.
MCIdle == (g1 :> {}) @@ (g2 :> {})

\* The theorems of LatLearnProofs and of the modules above it speak of these
\* instances.  (That ListsAgree is what the run self is about.)
ASSUME HypothesesHold ==
  /\ VariantsJoin /\ OwnApart /\ KeysDistinct /\ OneSampler /\ PlanApart
  /\ BenchPlan # << >> => NoAdHoc
===============================================================================
