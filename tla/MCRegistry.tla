------------------------------ MODULE MCRegistry ------------------------------
(***************************************************************************)
(* Registry on a small instance.  "f" is not a clear name: a sample of its *)
(* variant "x" and a span named "f(x)" compete for one key.  MaxInt64 = 4  *)
(* lets two samples overflow a row, and a negative one (a caller may set   *)
(* T2 before T1) bring its sum back.                                       *)
(***************************************************************************)
EXTENDS Registry

CONSTANT MaxSamples

MCNames == {"f", "f(x)", "g", "LL.no-op"}
MCVariants == {"", "x"}
MCDurs == {-3, 1, 3}
MCBuiltins == <<"LL.no-op">>
MCAppSpans == {<< >>, <<"f", "f">>, <<"f(x)">>}

Handled == FoldFunction(+, 0, submitted)

\* At most MaxSamples samples are followed.
SampleBound == Handled <= MaxSamples
===============================================================================
