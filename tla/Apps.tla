--------------------------------- MODULE Apps ---------------------------------
(***************************************************************************)
(* LatLearn at work in the five example programs of the repository.  Where *)
(* LatLearn lets its callers do anything at any time, a goroutine here     *)
(* follows the text of its function: a sequence of operations, a loop      *)
(* unrolled a few times (the variable of the loop is in the comment).      *)
(* The programs show how to begin, wait, report and stop; what is checked  *)
(* is that doing as they do gives whole reports in the right files, loses  *)
(* nothing, and comes to an end.                                           *)
(*                                                                         *)
(* The process is over when main returns, whatever the others are doing.   *)
(* Logging, sleeping and the Should_... switches are left out.             *)
(***************************************************************************)
EXTENDS LatLearn

CONSTANT Programs          \* which of "app1" .. "app5"

VARIABLES
  program,                 \* the one that runs
  at,                      \* goroutine -> its place in its text; 0: not started
  cancelled,               \* goroutines whose context is cancelled or timed out
  Report_fpath,
  opened,                  \* the path report_inner has opened
  optional,                \* should_do_optional_tasks, in example-app2
  \* history variables, read only by the properties
  asked_path,              \* goroutine -> Report_fpath when it asked for a report
  last_report              \* the rows of the last report main has asked for

ctxvars    == <<cancelled, optional>>
reportvars == <<Report_fpath, opened, asked_path, last_report>>
appvars    == <<program, at, ctxvars, reportvars>>

-------------------------------------------------------------------------------
(***************************************************************************)
(* Operations.  Spans are numbered by the place where they begin.          *)
(***************************************************************************)
op_init(spans)      == << <<"init", spans>> >>
B(s, name)          == << <<"B", s, name, "">> >>
B2(s, name, v)      == << <<"B", s, name, v>> >>
A(s)                == << <<"A", s, "">> >>
A2(s, v)            == << <<"A", s, v>> >>
self_sample         == << <<"self", 2>> >>       \* a million
op_report           == << <<"report">> >>
op_values(key)      == << <<"values", key>> >>
op_benchmarks       == << <<"benchmarks">> >>
op_stop             == << <<"stop">> >>
set_path(path)      == << <<"path", path>> >>
op_go(ws)           == << <<"go", ws>> >>        \* one goroutine for each
op_wait             == << <<"wait">> >>          \* wg.Wait
op_cancel(ws)       == << <<"cancel", ws>> >>    \* the context of all of them
check_ctx           == << <<"check">> >>         \* leave the loop once cancelled

-------------------------------------------------------------------------------
\* example-app1.go: spans 1 and 2 expected, 4 and 5 ad hoc, 6 and 7 variants.
fn1(s)    == B(s, "fn1") \o A(s)
fn2(s)    == B(s, "fn2") \o A(s)
fn3(s, v) == B2(s, "fn3", v) \o A(s)
fn4(s, v) == B2(s, "fn4", v) \o A(s)

app1 ==
  op_init(<<"print-yo", "fn1", "fn2">>) \o B("s1", "print-yo") \o A("s1") \o fn1("s2")
    \o op_report \o op_report \o op_benchmarks
    \o set_path("report2") \o op_report \o fn2("s3")               \* i < 1
    \o set_path("report3") \o op_report
    \o B("s4", "totally-adhoc") \o A("s4") \o B("s5", "totally-adhoc") \o A("s5")
    \o set_path("report4") \o op_report
    \o set_path("report5") \o op_report
    \o set_path("report6") \o self_sample \o op_report
    \o fn3("s6", "n=1") \o fn3("s7", "n=50") \o fn4("s8", "a=1,b=1")
    \o set_path("report7") \o op_report

\* example-app2.go: Values tells whether the loop has time for more.
loop_iter(s, dyn_adjust) ==
  IF dyn_adjust THEN B2(s, "loop", "dyn_adjust=true") \o op_values("loop") \o A(s)
                ELSE B2(s, "loop", "dyn_adjust=false") \o A(s)

app2 ==
  op_init(<< >>) \o self_sample
    \o loop_iter("s1", FALSE) \o loop_iter("s2", FALSE)               \* i < 2
    \o loop_iter("s3", TRUE) \o loop_iter("s4", TRUE) \o loop_iter("s5", TRUE)
    \o set_path("report2") \o op_report

\* example-app3.go: n = 3; those with an even id ask for a report.
app3_fn(s, id) ==
  B(s, "example-app3/fn") \o A(s) \o IF id % 2 = 0 THEN op_report ELSE << >>

app3 ==
  op_init(<< >>) \o set_path("report2") \o self_sample
    \o B("s1", "log-foo") \o A("s1")
    \o op_go({"w1", "w2", "w3"}) \o op_wait
    \o op_report \o op_report \o op_stop

\* example-app4.go: redundant ends, spans that never end, a deferred end
\* after an early return and after the panic that main's handler, deferred
\* like Stop, turns into a report.
app4_fn(s, return_case) ==
  LET ended_before == CASE return_case = 0 -> << >>
                        [] return_case = 1 -> A2(s, "earlyreturn")
                        [] return_case = 2 -> A2(s, "panic")
  IN B(s, "example-app4/fn") \o ended_before \o A(s)

panic_handler_for_main == op_report

app4 ==
  op_init(<< >>) \o set_path("report2") \o self_sample
    \o B2("s1", "big-iloop-iter", "i<10")                        \* i < 1
    \o A("s1") \o A("s1") \o A2("s1", "") \o A("s1") \o A2("s1", "irrelevant")
    \o B2("s2", "big-iloop-iter", "i<100") \o A("s2")            \* i < 2
    \o B2("s3", "big-iloop-iter", "")                            \* i < 3
    \o app4_fn("s4", 0) \o app4_fn("s5", 1) \o app4_fn("s6", 2)  \* i < 3
    \o panic_handler_for_main \o op_stop

\* example-app5.go: one worker for each task, up to two rounds of its loop.
app5_fn(s1, s2, span_name) ==
  B(s1, span_name) \o A(s1) \o check_ctx \o B(s2, span_name) \o A(s2) \o check_ctx

run_workers(ws) == op_go(ws) \o op_cancel(ws)

app5 ==
  op_init(<< >>) \o set_path("report2") \o self_sample
    \o run_workers({"w1"}) \o run_workers({"w2"}) \o op_report \o op_stop

text_of_worker(p, w) ==
  CASE p = "app3" /\ w = "w1" -> app3_fn("w1s1", 0)
    [] p = "app3" /\ w = "w2" -> app3_fn("w2s1", 1)
    [] p = "app3" /\ w = "w3" -> app3_fn("w3s1", 2)
    [] p = "app5" /\ w = "w1" -> app5_fn("w1s1", "w1s2", "task-537/worker-0")
    [] p = "app5" /\ w = "w2" -> app5_fn("w2s1", "w2s2", "task-296/worker-0")
    [] OTHER -> << >>

text_of_main(p) ==
  CASE p = "app1" -> app1
    [] p = "app2" -> app2
    [] p = "app3" -> app3
    [] p = "app4" -> app4
    [] p = "app5" -> app5

text_of(p, g) == IF g = "main" THEN text_of_main(p) ELSE text_of_worker(p, g)

text(g) == text_of(program, g)

ASSUME AppsAssumption ==
  /\ "main" \in Goroutines
  /\ Programs \subseteq {"app1", "app2", "app3", "app4", "app5"}

-------------------------------------------------------------------------------
AppsInit ==
  /\ Init
  /\ program \in Programs
  /\ at = [g \in Goroutines |-> IF g = "main" THEN 1 ELSE 0]
  /\ cancelled = {}
  /\ Report_fpath = "report" /\ opened = "report"
  /\ optional = TRUE
  /\ asked_path = [g \in Goroutines |-> "report"]
  /\ last_report = NoRows

length(g) == Len(text(g))
over(g) == at[g] > length(g) /\ pc(g) = "idle"

exited == over("main")

\* g is about to do an operation of this kind ...
next_op(g) == text(g)[at[g]]

about_to(g, kind) ==
  /\ ~exited /\ pc(g) = "idle"
  /\ at[g] \in 1 .. length(g) /\ next_op(g)[1] = kind

\* ... and does it.
advance(g) == at' = [at EXCEPT ![g] = @ + 1]

CallInit(g) ==
  /\ about_to(g, "init") /\ InitCall(g) /\ advance(g)
  /\ UNCHANGED <<program, ctxvars, reportvars>>

CallB(g) ==
  /\ about_to(g, "B") /\ Begin(g, next_op(g)[2], next_op(g)[3], next_op(g)[4]) /\ advance(g)
  /\ UNCHANGED <<program, ctxvars, reportvars>>

CallA(g) ==
  /\ about_to(g, "A")
  /\ EndTest(g, next_op(g)[2], next_op(g)[3]) \/ EndIgnored(g, next_op(g)[2])
  /\ advance(g)
  /\ UNCHANGED <<program, ctxvars, reportvars>>

CallSelfSample(g) ==
  /\ about_to(g, "self") /\ SelfStart(g, next_op(g)[2]) /\ advance(g)
  /\ UNCHANGED <<program, ctxvars, reportvars>>

\* Report, Values, Benchmarks, Stop.
CallRequest(g) ==
  /\ \/ about_to(g, "values") /\ (Call(g, "values", next_op(g)[2]) \/ CallRefused(g))
     \/ \E r \in {"report", "benchmarks", "stop"} :
          about_to(g, r) /\ (Call(g, r, OVERHEAD_SPAN) \/ CallRefused(g))
  /\ advance(g)
  /\ asked_path' = [asked_path EXCEPT ![g] = Report_fpath]
  /\ UNCHANGED <<program, ctxvars, Report_fpath, opened, last_report>>

SetPath(g) ==
  /\ about_to(g, "path") /\ Report_fpath' = next_op(g)[2] /\ advance(g)
  /\ UNCHANGED <<vars, program, ctxvars, opened, asked_path, last_report>>

GoStatement(g) ==
  /\ about_to(g, "go")
  /\ at' = [w \in Goroutines |-> IF w = g THEN at[w] + 1
                               ELSE IF w \in next_op(g)[2] THEN 1 ELSE at[w]]
  /\ UNCHANGED <<vars, program, ctxvars, reportvars>>

\* wg.Done is called before the end.
all_done_early == \A w \in Goroutines \ {"main"} : at[w] > length(w)

all_done == \A w \in Goroutines \ {"main"} : over(w)

WgWait(g) ==
  /\ about_to(g, "wait") /\ all_done /\ advance(g)
  /\ UNCHANGED <<vars, program, ctxvars, reportvars>>

Cancel(g) ==
  /\ about_to(g, "cancel") /\ cancelled' = cancelled \cup next_op(g)[2] /\ advance(g)
  /\ UNCHANGED <<vars, program, optional, reportvars>>

\* context.WithTimeout
Timeout(w) ==
  /\ ~exited /\ program = "app5" /\ at[w] > 0 /\ w \notin cancelled \cup {"main"}
  /\ cancelled' = cancelled \cup {w}
  /\ UNCHANGED <<vars, program, at, optional, reportvars>>

\* Bound: the context is cancelled by the time the text has no more rounds.
CheckContext(g) ==
  /\ about_to(g, "check")
  /\ \/ g \in cancelled /\ at' = [at EXCEPT ![g] = length(g) + 1]
     \/ g \notin cancelled /\ at[g] < length(g) /\ advance(g)
  /\ UNCHANGED <<vars, program, ctxvars, reportvars>>

-------------------------------------------------------------------------------
limit == 2                 \* 50 ms

\* entry is the answer of Values, which app2 asks before an optional task.
should_do_optional_tasks(entry) ==
  \/ ~entry.Pair_ever_completed
  \/ entry.Weight < 1
  \/ Reg!mean(entry) <= limit

\* All spans last 1, but an iteration with optional tasks may take 4.
durations(g) ==
  IF program = "app2" /\ optional /\ go[g].handle # None THEN {0, 1, 4} ELSE {0, 1}

\* The answer of this kind that g returns with in this step, if any.
returns(g, ttype) == pc(g) = "wait" /\ pc(g)' = "idle" /\ reply[g].ttype = ttype

\* The steps of LatLearn below a call, with the arguments of the program.
Below(g, step_of_g) ==
  /\ ~exited /\ step_of_g
  /\ ~registered /\ registered' => expected' = text("main")[1][2] \o Builtins
  /\ go'[g].out.dur \in durations(g)
  /\ optional' = IF returns(g, "values") THEN should_do_optional_tasks(reply[g].entry)
                 ELSE optional
  /\ last_report' = IF g = "main" /\ returns(g, "report") THEN reply[g].rows ELSE last_report
  /\ UNCHANGED <<program, at, cancelled, Report_fpath, opened, asked_path>>

AppInside(g) == Below(g, Inside(g))
AppSend(g)   == Below(g, Send(g))

\* report_inner opens Report_fpath first, and later writes to what it opened.
AppServe ==
  /\ ~exited /\ Serve
  /\ \A k \in {REPORT_SPAN, BENCH_SPAN} : learners'[k].Last \in {0, 1}
  /\ opened' = IF serve' = "report" /\ serve # "report" THEN Report_fpath ELSE opened
  /\ UNCHANGED <<program, at, ctxvars, Report_fpath, asked_path, last_report>>

Statement(g) ==
  \/ CallInit(g) \/ CallB(g) \/ CallA(g) \/ CallSelfSample(g) \/ CallRequest(g)
  \/ SetPath(g) \/ GoStatement(g) \/ WgWait(g) \/ Cancel(g) \/ CheckContext(g)

AppsNext ==
  \/ AppServe
  \/ \E g \in Goroutines : Statement(g) \/ AppInside(g) \/ AppSend(g) \/ Timeout(g)

allvars == <<vars, appvars>>

\* The Go scheduler lets every goroutine that can run do so, in the
\* program's own code as in LatLearn's.
AppsFairness ==
  /\ WF_allvars(AppServe)
  /\ \A g \in Goroutines :
       WF_allvars(Statement(g)) /\ WF_allvars(AppInside(g)) /\ SF_allvars(AppSend(g))

AppsSpec == AppsInit /\ [][AppsNext]_allvars /\ AppsFairness

-------------------------------------------------------------------------------
\* The spans of this name, and of this variant, that have been ended.
ended(n) == {s \in Spans : ssu[s].Ended /\ ssu[s].Name = n}
ended_as(n, v) == {s \in ended(n) : ssu[s].Variant = v}

weight(rows, key) == IF key \in DOMAIN rows THEN rows[key].Weight ELSE 0

\* These rows are of all spans that have been ended, but for LatLearn's own.
Exact(rows) ==
  \A n \in Names \ (own_rows \cup {OVERHEAD_SPAN}) :
    /\ weight(rows, n) = Cardinality(ended(n))
    /\ \A v \in Variants \ {""} :
         weight(rows, Reg!span_key_form(n, v)) = Cardinality(ended_as(n, v))

(***************************************************************************)
(* The last report that main asks for, unless its file could not be        *)
(* created, has all the application's spans and each of them once: those   *)
(* of goroutines main has waited for, those that ended by a return, an     *)
(* early return or a panic, and no more for a span ended many times over   *)
(* or never.  (example-app4.go: "only 100 samples of that span -- not      *)
(* 10M", and it "did NOT distort the stats".)                              *)
(***************************************************************************)
LastReportExact ==
  exited /\ program # "app5" /\ last_report # NoRows => Exact(last_report)

(***************************************************************************)
(* Report_fpath is set without a lock and read by serve.  As the programs  *)
(* do it, a report goes to the file that was set when it was asked for,    *)
(* never to the next one.                                                  *)
(***************************************************************************)
FilesWhereAsked == serve = "report" => opened = asked_path[current.from]

(***************************************************************************)
(* example-app2.go adapts its loop to what Values says of the loop so far. *)
(* It decides on nothing stale: the answer counts every iteration that has *)
(* ended, though A returned before it was accounted.                       *)
(***************************************************************************)
DecidesOnAllIterations ==
  \A g \in Goroutines :
    reply[g].ttype = "values" =>
      (IF reply[g].entry = NoEntry THEN 0 ELSE reply[g].entry.Weight) = Cardinality(ended(reply[g].key))

(***************************************************************************)
(* Every program comes to its end: no report, no stop and no last sample   *)
(* keeps main for ever, with workers that report at the same time          *)
(* (example-app3.go), after a panic (example-app4.go), and with workers    *)
(* that still end spans while it stops LatLearn (example-app5.go).         *)
(***************************************************************************)
MainFinishes == <>exited

-------------------------------------------------------------------------------
(***************************************************************************)
(* What the theorems suppose of the constants and of the programs' texts.  *)
(***************************************************************************)
\* The constants of LatLearn allow what the programs do.
CallsAllowed ==
  \A p \in Programs : \A g \in Goroutines : \A i \in 1 .. Len(text_of(p, g)) :
    LET op == text_of(p, g)[i] IN
    /\ op[1] = "B" => <<op[3], op[4]>> \in Begins
    /\ op[1] = "A" => op[3] \in EndVariants
    /\ op[1] = "self" => g \in Samplers /\ op[2] \in SelfCounts
    /\ op[1] = "values" => op[2] \in Asked
    /\ op[1] \in {"values", "report", "benchmarks", "stop"} => op[1] \in Requests

\* A text is a sequence.
TextsFinite == \A p \in Programs : \A g \in Goroutines : Len(text_of(p, g)) \in Nat

\* Only main starts goroutines and sets Report_fpath, and only before the
\* first of them.
PathsFirst ==
  \A p \in Programs : \A g \in Goroutines : \A i \in 1 .. Len(text_of(p, g)) :
    LET op == text_of(p, g)[i] IN
    /\ op[1] \in {"go", "path"} => g = "main"
    /\ op[1] = "path" => \A j \in 1 .. i : text_of(p, g)[j][1] # "go"

\* Only main stops LatLearn, and it leaves no loop early.
MainLeads ==
  \A p \in Programs : \A g \in Goroutines : \A i \in 1 .. Len(text_of(p, g)) :
    LET kind == text_of(p, g)[i][1] IN
    (kind = "stop" => g = "main") /\ (kind = "check" => g # "main")

\* By the i-th operation of its text, main has waited for all it has started.
alone_at(p, i) ==
  LET kind(j) == text_of(p, "main")[j][1] IN
  \A j \in 1 .. i - 1 : kind(j) = "go" => \E k \in j .. i - 1 : kind(k) = "wait"

\* Values is asked by main, while nobody else runs, and about the
\* application's spans.
AsksAlone ==
  /\ Asked \subseteq Names \ (own_rows \cup {OVERHEAD_SPAN})
  /\ \A p \in Programs : \A g \in Goroutines : \A i \in 1 .. Len(text_of(p, g)) :
       text_of(p, g)[i][1] = "values" => g = "main" /\ alone_at(p, i)

\* The r-th operation of main is its last report: it asks for it when nobody
\* else runs, before it stops LatLearn and after all else.  (In example-app5
\* it does not wait for the others.)
last_report_at(p, r) ==
  LET kind(j) == text_of(p, "main")[j][1] IN
  /\ kind(r) = "report" /\ alone_at(p, r)
  /\ \A j \in 1 .. Len(text_of(p, "main")) :
       (j > r => kind(j) = "stop") /\ (j < r => kind(j) # "stop")

ReportsLast ==
  \A p \in Programs \ {"app5"} : \E r \in 1 .. Len(text_of(p, "main")) : last_report_at(p, r)

===============================================================================
