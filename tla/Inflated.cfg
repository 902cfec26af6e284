CONSTANTS
  MaxInt64 = 9
  Names <- MCNames
  Variants <- MCVariants
  Durs <- MCDurs
  Builtins <- MCBuiltins
  AppSpans <- MCAppSpans
  LLKeys <- MCLLKeys
  MaxSamples = 1
  MaxMoves = 1
SPECIFICATION Spec
CONSTRAINT Bound
INVARIANT NeverInflated
CHECK_DEADLOCK FALSE
