CONSTANTS
  MaxInt64 = 100
  Names = {"print-yo", "fn1", "fn2", "fn3", "fn4", "totally-adhoc", "loop", "log-foo",
           "example-app3/fn", "big-iloop-iter", "example-app4/fn",
           "task-537/worker-0", "task-296/worker-0",
           "LL.no-op", "LL.fn-call-return", "LL.benchmarks-total", "LL.lat-report"}
  Variants <- MCVariants
  Durs = {1, 4}
  Builtins <- MCBuiltins
  AppSpans <- MCAppSpans
  Goroutines = {"main", "w1", "w2", "w3"}
  Spans <- MCSpans
  Holds <- MCHolds
  Begins <- MCBegins
  EndVariants <- MCEndVariants
  Requests = {"values", "report", "benchmarks", "stop"}
  Asked <- MCAsked
  SelfCounts = {2}
  Samplers = {"main"}
  BenchPlan <- MCBenchPlan
  Outer_queue_capacity = 0
  LeastCapacity = 2
  MaxCalls = 15
  InitFirst = TRUE
  None = None
  Programs = {"app1", "app2", "app3", "app4", "app5"}
SPECIFICATION AppsSpec
INVARIANTS
  LastReportExact
  FilesWhereAsked
  DecidesOnAllIterations
PROPERTY MainFinishes
CHECK_DEADLOCK FALSE
