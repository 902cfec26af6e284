CONSTANTS
  MaxInt64 = 100
  Names = {"LL.no-op", "LL.fn-call-return",
           "LL.for-iters(n=1000)", "LL.accum-ints(n=1000)",
           "LL.add-int-literals(n=2)", "LL.add-str-literals(n=2)",
           "LL.map-str-int-set", "LL.map-str-int-get(k=100,key0)",
           "LL.map-str-int-get(k=100,key49)", "LL.map-str-int-get(k=100,key99)",
           "LL.span-map-lookup", "LL.sort-strs(n=10)",
           "LL.log-hellos(n=10)", "LL.byte-array-make(n=1)",
           "LL.byte-array-make(n=1k)", "LL.byte-array-make(n=100k)",
           "LL.exec-command(mac,sysctl)", "LL.exec-command(mac,pwd)",
           "LL.exec-command(mac,date)", "LL.exec-command(mac,host)",
           "LL.exec-command(mac,hostname)", "LL.exec-command(mac,uname)",
           "LL.exec-command(mac,ls)", "LL.exec-command(mac,df)",
           "LL.exec-command(mac,kill)", "LL.exec-command(mac,sleep=0.01s)",
           "LL.exec-command(mac,sleep=0.001s)", "LL.exec-command(mac,sleep=0.0001s)",
           "LL.exec-command(mac,sh-version)", "LL.benchmarks-total",
           "LL.lat-report"}
  Variants <- NoVariants
  Durs = {1}
  Builtins <- BenchBuiltins
  AppSpans <- MCAppSpans
  g1 = g1
  g2 = g2
  s1 = s1
  s2 = s2
  Goroutines = {g1, g2}
  Spans = {}
  Holds <- MCIdle
  Begins <- NoBegins
  EndVariants = {}
  Requests = {"benchmarks", "stop"}
  Asked = {}
  SelfCounts = {0, 2}
  Samplers = {g1}
  BenchPlan <- MCBenchPlan
  Outer_queue_capacity = 0
  LeastCapacity = 1
  MaxCalls = 2
  InitFirst = TRUE
  None = None
SPECIFICATION FairSpec
INVARIANTS
  BenchmarksWhole
  
  
PROPERTIES
  ReturnOrStopped
CHECK_DEADLOCK FALSE
