CONSTANTS
  MaxInt64 = 100
  Names <- MCNames
  Variants <- MCVariants
  Durs = {1}
  Builtins <- MCBuiltins
  AppSpans <- MCAppSpans
  g1 = g1
  g2 = g2
  s1 = s1
  s2 = s2
  Goroutines = {g1, g2}
  Spans = {s1, s2}
  Holds <- MCOwn
  Begins <- MCBegins
  EndVariants = {"x"}
  Requests = {"values", "report", "stop"}
  Asked = {"f", "f(x)"}
  SelfCounts = {}
  Samplers = {}
  BenchPlan <- NoBenchPlan
  Outer_queue_capacity = 0
  LeastCapacity = 2
  MaxCalls = 2
  InitFirst = TRUE
  None = None
SPECIFICATION FairSpec
INVARIANTS
  SampleConserved
  StopDrains
PROPERTIES
  ReturnOrStopped
  StopStops
  ImplementsService
CHECK_DEADLOCK FALSE
