CONSTANTS
  MaxInt64 = 9
  Names <- MCNames
  Variants <- MCVariants
  Durs <- MCDurs
  Builtins <- MCBuiltins
  AppSpans <- MCAppSpans
  LLKeys <- MCLLKeys
  MaxSamples = 4
  MaxMoves = 1
SPECIFICATION Spec
CONSTRAINT Bound
INVARIANTS
  TypeOK
  ReportComplete
  LinesOrdered
  OverheadSpanMin
  Compensated
CHECK_DEADLOCK FALSE
