-------------------------------- MODULE MCApps --------------------------------
(***************************************************************************)
(* The five example programs, one after the other, with a main goroutine   *)
(* and two workers, and a channel of two slots for one of a hundred.       *)
(***************************************************************************)
EXTENDS Apps, Functions

MCBuiltins == <<"LL.no-op", "LL.fn-call-return", "LL.benchmarks-total", "LL.lat-report">>
MCAppSpans == {<< >>, <<"print-yo", "fn1", "fn2">>}
MCBenchPlan == <<"LL.fn-call-return">>

\* What the texts do, for the constants of LatLearn.
ops(g, kind) == {op \in UNION {Range(text_of(p, g)) : p \in Programs} : op[1] = kind}
all_ops(kind) == UNION {ops(g, kind) : g \in Goroutines}

MCBegins      == {<<op[3], op[4]>> : op \in all_ops("B")}
MCEndVariants == {op[3] : op \in all_ops("A")}
MCVariants    == {b[2] : b \in MCBegins}
                   \cup {end_variant(b[2], w) : b \in MCBegins, w \in MCEndVariants}
MCHolds       == [g \in Goroutines |-> {op[2] : op \in ops(g, "B")}]
MCSpans       == {op[2] : op \in all_ops("B")}
MCAsked       == {op[2] : op \in all_ops("values")}

\* The texts are as the theorems about LatLearn and about Apps suppose.
ASSUME HypothesesHold ==
  /\ NotShared /\ VariantsJoin /\ OneSampler /\ PlanApart /\ OwnApart /\ KeysDistinct
  /\ CallsAllowed /\ TextsFinite /\ PathsFirst /\ MainLeads /\ AsksAlone /\ ReportsLast

===============================================================================
