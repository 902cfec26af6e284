CONSTANTS
  MaxInt64 = 4
  Names <- MCNames
  Variants <- MCVariants
  Durs <- MCDurs
  Builtins <- MCBuiltins
  AppSpans <- MCAppSpans
  MaxSamples = 3
SPECIFICATION Spec
CONSTRAINT SampleBound
INVARIANTS
  TypeOK
  ReportOrderSound
  ClearParentCountsAll
  FamilyEnclosed
  RowCoherent
PROPERTY RowsOnlyGrow
