------------------------------ MODULE BuiltinSpans ------------------------------
(***************************************************************************)
(* The spans LatLearn brings with it, in the two places where the program  *)
(* spells their names: init_inner's list, which makes their rows and their *)
(* places in the report, and benchmarks_inner, which samples them.         *)
(***************************************************************************)
EXTENDS Integers, Sequences

\* spans_latlearn_builtin
spans_latlearn_builtin ==
  << "LL.no-op", "LL.fn-call-return",
     "LL.for-iters(n=1000)", "LL.accum-ints(n=1000)", "LL.add-int-literals(n=2)",
     "LL.add-str-literals(n=2)", "LL.map-str-int-set",
     "LL.map-str-int-get(k=100,key0)", "LL.map-str-int-get(k=100,key49)",
     "LL.map-str-int-get(k=100,key99)",
     "LL.span-map-lookup", "LL.sort-strs(n=10)", "LL.log-hellos(n=10)",
     "LL.byte-array-make(n=1)", "LL.byte-array-make(n=1k)", "LL.byte-array-make(n=100k)",
     "LL.exec-command(mac,sysctl)", "LL.exec-command(mac,pwd)",
     "LL.exec-command(mac,date)", "LL.exec-command(mac,host)",
     "LL.exec-command(mac,hostname)", "LL.exec-command(mac,uname)",
     "LL.exec-command(mac,ls)", "LL.exec-command(mac,df)",
     "LL.exec-command(mac,kill)", "LL.exec-command(mac,sleep=0.01s)",
     "LL.exec-command(mac,sleep=0.001s)", "LL.exec-command(mac,sleep=0.0001s)",
     "LL.exec-command(mac,sh-version)",
     "LL.benchmarks-total", "LL.lat-report" >>

\* The loop body's samples, n times over; n is 1000 in the program.
loop(n, body) == [i \in 1 .. n * Len(body) |-> body[((i - 1) % Len(body)) + 1]]

\* benchmark_exec's span.
exec_span(name_sub) == "LL.exec-command(" \o name_sub \o ")"

exec_names ==
  << "mac,sysctl", "mac,pwd", "mac,date", "mac,host", "mac,hostname", "mac,uname", "mac,ls",
     "mac,df", "mac,kill", "mac,sleep=0.01s", "mac,sleep=0.001s", "mac,sleep=0.0001s",
     "mac,sh-version" >>

\* benchmark_exec for each of these commands.
benchmark_execs(n) ==
  [i \in 1 .. n * Len(exec_names) |-> exec_span(exec_names[((i - 1) \div n) + 1])]

\* The system is called by another name.
on_mac_misnamed(GOOS) == GOOS = "mac"

on_mac(GOOS) == GOOS = "darwin"

\* The spans benchmarks_inner samples, in order, with n for each 1000.
benchmarks_plan(n, GOOS) ==
  loop(n, <<"LL.fn-call-return">>) \o loop(n, <<"LL.for-iters(n=1000)">>)
    \o loop(n, <<"LL.accum-ints(n=1000)">>) \o loop(n, <<"LL.add-int-literals(n=2)">>)
    \o loop(n, <<"LL.add-str-literals(n=2)">>) \o loop(n, <<"LL.map-str-int-set">>)
    \o loop(n, <<"LL.map-str-int-get(k=100,key0)", "LL.map-str-int-get(k=100,key49)",
                 "LL.map-str-int-get(k=100,key99)">>)
    \o loop(n, <<"LL.span-map-lookup">>) \o loop(n, <<"LL.sort-strs(n=10)">>)
    \o <<"LL.log-hellos(n=10)">>
    \o loop(n, <<"LL.byte-array-make(n=1)", "LL.byte-array-make(n=1k)",
                 "LL.byte-array-make(n=100k)">>)
    \o IF on_mac(GOOS) THEN benchmark_execs(n) ELSE << >>

===============================================================================
