------------------------------- MODULE LatLearn -------------------------------
(***************************************************************************)
(* The whole of LatLearn as its callers see it: any number of application  *)
(* goroutines call the exported functions, one goroutine (serve) owns the  *)
(* statistics and takes requests from a bounded channel (comm_outer).      *)
(*                                                                         *)
(* Grain of atomicity: one step per access to a variable that goroutines   *)
(* share, except that consecutive accesses are one step where no property  *)
(* and no other goroutine could tell them apart (the flags that SelfStart  *)
(* writes, say).  What serve does to the statistics between two receives   *)
(* touches nothing another goroutine reads, so a handler is one step,      *)
(* except for the two long ones (report, benchmarks), during which others  *)
(* run.                                                                    *)
(*                                                                         *)
(* comm_inner has no sender anywhere in the program; serve's second case   *)
(* never fires and is left out.  An operator whose name extends that of    *)
(* its neighbour (enqueue_lossy) is a slip the code could have, kept to    *)
(* show that the properties would notice it.                               *)
(***************************************************************************)
EXTENDS Integers, Sequences, FiniteSets

CONSTANTS
  MaxInt64, Names, Variants, Durs, Builtins, AppSpans,    \* see Registry
  Goroutines,            \* the application's goroutines
  Spans,                 \* identities of the SpanSampleUnderway objects
  Holds,                 \* goroutine -> the spans it has a pointer to
  Begins,                \* <<name, variant>> pairs passed to B and B2
  EndVariants,           \* arguments of A2; "" is what A does
  Requests,              \* which of "report", "values", "benchmarks", "stop"
  Asked,                 \* arguments of Values
  SelfCounts,            \* arguments of Latency_measure_self_sample
  Samplers,              \* the goroutines that call it
  BenchPlan,             \* the spans benchmarks_inner samples, in order
  Outer_queue_capacity,  \* as the application left it before Init
  LeastCapacity,         \* init_inner's floor for it; 100 in the program
  MaxCalls,              \* bound: calls per goroutine other than B, A and A2
  InitFirst,             \* the application waits for Init before other calls
  None                   \* no span, no goroutine

VARIABLES
  \* serve's private state, see Registry
  learners, tracked_spans, registered, expected, submitted, total,
  \* package variables
  init_once,             \* state of init_oncer
  init_completed,
  comm_outer,            \* "nil" or "chan"
  outer,                 \* what the channel holds
  Overhead_samples_started, Overhead_samples_finished, Overhead_samples_aborted,
  Benchmarks_started, Benchmarks_finished,
  \* objects and goroutines
  ssu,                   \* the SpanSampleUnderway objects
  go,                    \* the goroutines: where each is, and its locals
  reply,                 \* the done or reply channel of its current request
  serve,                 \* where the serve goroutine is
  current,               \* the request serve works on
  step,                  \* its position in BenchPlan
  \* history variables, read only by the properties
  init_returned,         \* some call of Init or Init2 has returned
  accepted,              \* span -> messages sent for it
  recorded,              \* span -> messages for it that serve has handled
  stopped,               \* a "stop" message has been sent
  before_stop            \* the spans accepted before the first of them

Reg == INSTANCE Registry

regvars  == <<learners, tracked_spans, registered, expected, submitted, total>>
initvars == <<init_once, init_completed, comm_outer, init_returned>>
ohvars   == <<Overhead_samples_started, Overhead_samples_finished,
              Overhead_samples_aborted>>
flagvars == <<ohvars, Benchmarks_started, Benchmarks_finished>>
srvvars  == <<serve, current, step>>
hist     == <<accepted, recorded, stopped, before_stop>>
vars     == <<regvars, initvars, flagvars, srvvars, hist, ssu, go, outer, reply>>

no_variant    == ""
OVERHEAD_SPAN == "LL.no-op"
REPORT_SPAN   == "LL.lat-report"
BENCH_SPAN    == "LL.benchmarks-total"

Keys == Reg!Keys

-------------------------------------------------------------------------------
(***************************************************************************)
(* Messages, replies and local state.                                      *)
(***************************************************************************)
\* comm_msg; `span' is history: the object an "A" message came from.
Msg == [ttype : {"none", "A", "values", "report", "benchmarks", "stop"},
        from : Goroutines \cup {None}, name : Keys, variant : Variants,
        dur : Durs \cup {0}, span : Spans \cup {None}]

sample_msg(g, n, v, d, s) ==
  [ttype |-> "A", from |-> g, name |-> n, variant |-> v, dur |-> d, span |-> s]

request_msg(g, ttype, key) ==
  [ttype |-> ttype, from |-> g, name |-> key, variant |-> no_variant, dur |-> 0, span |-> None]

NoMsg == request_msg(None, "none", OVERHEAD_SPAN)

\* no_entry_found: how Values answers for a key that is not in the map.
NoEntry == [kind |-> "none", Last |-> -1, Cumul |-> -1, Weight |-> -1,
            Min |-> -1, Max |-> -1, Pair_ever_completed |-> FALSE]

\* What comes back: a bool on `done', or a ReplyMsg.  `rows' is history: what
\* a report showed, or NoRows.
NoRows == << >>
Reply == [ttype : {"none", "values", "report", "benchmarks"}, key : Keys,
          entry : Reg!Learner \cup {NoEntry},
          rows : {NoRows} \cup UNION {[S -> Reg!Learner] : S \in SUBSET Keys}]

NoReply == [ttype |-> "none", key |-> OVERHEAD_SPAN, entry |-> Reg!NoLearner,
            rows |-> NoRows]

SSU == [begun : BOOLEAN, Name : Names, Variant : Variants, Ended : BOOLEAN]

\* A goroutine: its control point; the span it is ending, and with what
\* variant; the channel value it has read; the message it is sending; self
\* samples it has still to take; calls it has made.
Labels == {"idle", "once", "init_inner", "init_built", "init_go", "mark", "check",
           "send", "wait", "self"}

Ends == EndVariants \cup {no_variant}

Goroutine == [pc : Labels, handle : Spans \cup {None}, end : Ends,
              chan : {"nil", "chan"}, out : Msg, left : Nat, calls : 0 .. MaxCalls]

AtRest == [pc |-> "idle", handle |-> None, end |-> no_variant, chan |-> "nil", out |-> NoMsg,
           left |-> 0, calls |-> 0]

\* The variant with which A2(variant) ends a span that began with `begun'.
end_variant(begun, variant) ==
  IF begun # no_variant /\ variant # no_variant THEN begun \o "," \o variant ELSE begun \o variant

ASSUME LatLearnAssumption ==
  /\ MaxInt64 \in Nat \ {0} /\ Reg!ConstantsOK
  /\ {OVERHEAD_SPAN, REPORT_SPAN, BENCH_SPAN} \subseteq Names
  /\ BenchPlan \in Seq(Names)
  /\ Begins \subseteq Names \X Variants
  /\ \A b \in Begins, w \in EndVariants :
       b[2] \in Variants /\ end_variant(b[2], w) \in Variants
  /\ Holds \in [Goroutines -> SUBSET Spans]
  /\ Requests \subseteq {"values", "report", "benchmarks", "stop"} /\ Asked \subseteq Keys
  /\ SelfCounts \subseteq Nat /\ Samplers \subseteq Goroutines
  /\ Outer_queue_capacity \in Int /\ LeastCapacity \in Nat \ {0}
  /\ MaxCalls \in Nat
  /\ InitFirst \in BOOLEAN
  /\ None \notin Spans \cup Goroutines

Serve_finished == serve = "done"

\* The capacity comm_outer is made with.
Capacity == IF Outer_queue_capacity < LeastCapacity THEN LeastCapacity
            ELSE Outer_queue_capacity

Init ==
  /\ Reg!Init
  /\ init_once = "new" /\ init_completed = FALSE /\ init_returned = FALSE
  /\ comm_outer = "nil" /\ outer = << >>
  /\ Overhead_samples_started = FALSE /\ Overhead_samples_finished = FALSE
  /\ Overhead_samples_aborted = FALSE
  /\ Benchmarks_started = FALSE /\ Benchmarks_finished = FALSE
  /\ ssu = [s \in Spans |-> [begun |-> FALSE, Name |-> OVERHEAD_SPAN,
                             Variant |-> no_variant, Ended |-> FALSE]]
  /\ go = [g \in Goroutines |-> AtRest]
  /\ reply = [g \in Goroutines |-> NoReply]
  /\ serve = "absent" /\ current = NoMsg /\ step = 1
  /\ accepted = [s \in Spans |-> 0] /\ recorded = [s \in Spans |-> 0]
  /\ stopped = FALSE /\ before_stop = {}

-------------------------------------------------------------------------------
pc(g) == go[g].pc
goto(g, label) == go' = [go EXCEPT ![g].pc = label]

\* README: an application "must explicitly make a call to initialize LatLearn
\* before" it does anything else with it.
Free(g) == pc(g) = "idle" /\ (InitFirst => init_returned)

\* ... and makes at most MaxCalls of the longer calls.
May_call(g) == Free(g) /\ go[g].calls < MaxCalls

Refused == ~init_completed \/ Serve_finished

(***************************************************************************)
(* Init and Init2: sync.Once lets one caller through and makes the others  *)
(* wait until that one has returned.                                       *)
(***************************************************************************)
InitCall(g) ==
  /\ pc(g) = "idle" /\ go[g].calls < MaxCalls
  /\ go' = [go EXCEPT ![g].pc = "once", ![g].calls = @ + 1]
  /\ UNCHANGED <<regvars, initvars, flagvars, srvvars, hist, ssu, outer, reply>>

\* Every caller goes through.
once_open_always == TRUE

once_open == init_once = "new"

OnceEnter(g) ==
  /\ pc(g) = "once" /\ once_open
  /\ init_once' = "running"
  /\ goto(g, "init_inner")
  /\ UNCHANGED <<regvars, init_completed, comm_outer, init_returned, flagvars, srvvars,
                 hist, ssu, outer, reply>>

\* A second caller does not wait for the first to be through.
once_over_early == init_once # "new"

once_over == init_once = "done"

OnceReturn(g) ==
  /\ pc(g) = "once" /\ once_over
  /\ init_returned' = TRUE
  /\ goto(g, "idle")
  /\ UNCHANGED <<regvars, init_once, init_completed, comm_outer, flagvars, srvvars, hist,
                 ssu, outer, reply>>

\* init_inner, to the making of the channels.  Its own test of
\* init_completed never succeeds, OnceEnter being passed once.
InitBuild(g) ==
  /\ pc(g) = "init_inner" /\ ~init_completed
  /\ \E spans_app \in AppSpans : Reg!register(spans_app)
  /\ comm_outer' = "chan" /\ outer' = << >>
  /\ goto(g, "init_built")
  /\ UNCHANGED <<init_once, init_completed, init_returned, flagvars, srvvars, hist, ssu,
                 reply>>

InitComplete(g) ==
  /\ pc(g) = "init_built"
  /\ init_completed' = TRUE
  /\ goto(g, "init_go")
  /\ UNCHANGED <<regvars, init_once, comm_outer, init_returned, flagvars, srvvars, hist,
                 ssu, outer, reply>>

\* go serve(), and the return through sync.Once.
InitGo(g) ==
  /\ pc(g) = "init_go"
  /\ serve' = "start"
  /\ init_once' = "done" /\ init_returned' = TRUE
  /\ goto(g, "idle")
  /\ UNCHANGED <<regvars, init_completed, comm_outer, flagvars, current, step, hist, ssu,
                 outer, reply>>

-------------------------------------------------------------------------------
(***************************************************************************)
(* B, B2, A and A2.                                                        *)
(***************************************************************************)
Begin(g, s, name, variant) ==
  /\ Free(g) /\ s \in Holds[g] /\ ~ssu[s].begun
  /\ ssu' = [ssu EXCEPT ![s] = [begun |-> TRUE, Name |-> name, Variant |-> variant,
                                Ended |-> FALSE]]
  /\ UNCHANGED <<regvars, initvars, flagvars, srvvars, hist, go, outer, reply>>

\* The redundancy of an end is not noticed.
redundant_never(s) == FALSE

redundant(s) == ssu[s].Ended

\* A redundant A or A2 returns false and touches nothing.
EndIgnored(g, s) ==
  /\ Free(g) /\ s \in Holds[g] /\ ssu[s].begun /\ redundant(s)
  /\ UNCHANGED vars

\* A and A2 read Ended ...
EndTest(g, s, variant) ==
  /\ Free(g) /\ s \in Holds[g] /\ ssu[s].begun /\ ~redundant(s)
  /\ go' = [go EXCEPT ![g].pc = "mark", ![g].handle = s, ![g].end = variant]
  /\ UNCHANGED <<regvars, initvars, flagvars, srvvars, hist, ssu, outer, reply>>

\* ... and then set it, join the variant, and read comm_outer to pass it on:
\* before after_and_submit has looked at init_completed.
EndMark(g) ==
  /\ pc(g) = "mark"
  /\ ssu' = [ssu EXCEPT ![go[g].handle].Ended = TRUE,
                        ![go[g].handle].Variant = end_variant(@, go[g].end)]
  /\ go' = [go EXCEPT ![g].pc = "check", ![g].end = no_variant, ![g].chan = comm_outer]
  /\ UNCHANGED <<regvars, initvars, flagvars, srvvars, hist, outer, reply>>

\* after_and_submit refuses: the span has ended and its sample is lost.
EndRefused(g) ==
  /\ pc(g) = "check" /\ Refused
  /\ go' = [go EXCEPT ![g].pc = "idle", ![g].handle = None, ![g].chan = "nil"]
  /\ UNCHANGED <<regvars, initvars, flagvars, srvvars, hist, ssu, outer, reply>>

\* The goroutine updates the rows itself, as after_and_update does.
EndSubmit_updates(g) ==
  /\ pc(g) = "check" /\ ~Refused
  /\ LET s == go[g].handle IN \E d \in Durs : Reg!handle_ssu_A(ssu[s].Name, ssu[s].Variant, d)
  /\ go' = [go EXCEPT ![g].pc = "idle", ![g].handle = None, ![g].chan = "nil"]
  /\ UNCHANGED <<initvars, flagvars, srvvars, hist, ssu, outer, reply>>

EndSubmit(g) ==
  /\ pc(g) = "check" /\ ~Refused
  /\ LET s == go[g].handle IN
     \E d \in Durs :
       go' = [go EXCEPT ![g].pc = "send", ![g].handle = None,
                        ![g].out = sample_msg(g, ssu[s].Name, ssu[s].Variant, d, s)]
  /\ UNCHANGED <<regvars, initvars, flagvars, srvvars, hist, ssu, outer, reply>>

-------------------------------------------------------------------------------
(***************************************************************************)
(* comm_outer <- msg.  A send on a nil channel blocks for ever, one on a   *)
(* full channel until serve has taken something out.                       *)
(***************************************************************************)
\* One slot too many.
enqueue_overfull(m) == Len(outer) <= Capacity /\ outer' = Append(outer, m)

\* select with a default case: a full channel drops the message.
enqueue_lossy(m) == outer' = IF Len(outer) < Capacity THEN Append(outer, m) ELSE outer

\* Requests travel on a channel of their own that serve looks at first.
enqueue_requests_first(m) ==
  /\ Len(outer) < Capacity
  /\ outer' = IF m.ttype = "A" THEN Append(outer, m) ELSE <<m>> \o outer

enqueue(m) == Len(outer) < Capacity /\ outer' = Append(outer, m)

\* Report does not wait for the answer.
after_send_unanswered(m) ==
  CASE m.ttype = "A" /\ m.span = None -> "self"
    [] m.ttype = "values"             -> "wait"
    [] OTHER                          -> "idle"

\* Where a goroutine is after its message has been taken.
after_send(m) ==
  CASE m.ttype = "A" /\ m.span = None                 -> "self"
    [] m.ttype \in {"values", "report", "benchmarks"} -> "wait"
    [] OTHER                                          -> "idle"

Send(g) ==
  /\ pc(g) = "send" /\ go[g].chan = "chan"
  /\ LET m == go[g].out IN
     /\ enqueue(m)
     /\ go' = [go EXCEPT ![g].pc = after_send(m), ![g].chan = "nil", ![g].out = NoMsg]
     /\ accepted' = [s \in Spans |-> accepted[s] + IF s = m.span THEN 1 ELSE 0]
     /\ before_stop' = IF m.ttype = "stop" /\ ~stopped
                       THEN {s \in Spans : accepted[s] > 0} ELSE before_stop
     /\ stopped' = (stopped \/ m.ttype = "stop")
  /\ UNCHANGED <<regvars, initvars, flagvars, srvvars, ssu, recorded, reply>>

-------------------------------------------------------------------------------
(***************************************************************************)
(* Values, Report, Report2, Benchmarks and Stop; Overhead is Values of     *)
(* OVERHEAD_SPAN.                                                          *)
(***************************************************************************)
CallRefused(g) ==
  /\ May_call(g) /\ Refused
  /\ go' = [go EXCEPT ![g].calls = @ + 1]
  /\ UNCHANGED <<regvars, initvars, flagvars, srvvars, hist, ssu, outer, reply>>

\* The checks pass, a reply channel is made, comm_outer is read for the send.
Call(g, ttype, key) ==
  /\ May_call(g) /\ ~Refused
  /\ go' = [go EXCEPT ![g].pc = "send", ![g].calls = @ + 1, ![g].chan = comm_outer,
                      ![g].out = request_msg(g, ttype, key)]
  /\ UNCHANGED <<regvars, initvars, flagvars, srvvars, hist, ssu, outer, reply>>

\* The caller takes the answer and returns true, whatever became of the request.
CallReturn(g) ==
  /\ pc(g) = "wait" /\ reply[g] # NoReply
  /\ reply' = [reply EXCEPT ![g] = NoReply]
  /\ goto(g, "idle")
  /\ UNCHANGED <<regvars, initvars, flagvars, srvvars, hist, ssu, outer>>

-------------------------------------------------------------------------------
(***************************************************************************)
(* Latency_measure_self_sample: n no-op spans in a row.  A refused sample  *)
(* ends the call.                                                          *)
(***************************************************************************)
\* The flags keep what an earlier call left in them.
reset_flags_not ==
  Overhead_samples_started' = TRUE
    /\ UNCHANGED <<Overhead_samples_finished, Overhead_samples_aborted>>

reset_flags ==
  /\ Overhead_samples_started' = TRUE
  /\ Overhead_samples_finished' = FALSE
  /\ Overhead_samples_aborted' = FALSE

SelfStart(g, n) ==
  /\ May_call(g) /\ init_completed
  /\ go' = [go EXCEPT ![g].pc = "self", ![g].calls = @ + 1, ![g].left = n]
  /\ reset_flags
  /\ UNCHANGED <<regvars, initvars, Benchmarks_started, Benchmarks_finished, srvvars, hist,
                 ssu, outer, reply>>

SelfSample(g) ==
  /\ pc(g) = "self" /\ go[g].left > 0 /\ ~Refused
  /\ \E d \in Durs :
       go' = [go EXCEPT ![g].pc = "send", ![g].left = @ - 1, ![g].chan = comm_outer,
                        ![g].out = sample_msg(g, OVERHEAD_SPAN, no_variant, d, None)]
  /\ UNCHANGED <<regvars, initvars, flagvars, srvvars, hist, ssu, outer, reply>>

SelfAbort(g) ==
  /\ pc(g) = "self" /\ go[g].left > 0 /\ Refused
  /\ go' = [go EXCEPT ![g].pc = "idle", ![g].left = 0]
  /\ Overhead_samples_finished' = TRUE
  /\ Overhead_samples_aborted' = TRUE
  /\ UNCHANGED <<regvars, initvars, Overhead_samples_started, Benchmarks_started,
                 Benchmarks_finished, srvvars, hist, ssu, outer, reply>>

SelfDone(g) ==
  /\ pc(g) = "self" /\ go[g].left = 0
  /\ goto(g, "idle")
  /\ Overhead_samples_finished' = TRUE
  /\ UNCHANGED <<regvars, initvars, Overhead_samples_started, Overhead_samples_aborted,
                 Benchmarks_started, Benchmarks_finished, srvvars, hist, ssu, outer, reply>>

-------------------------------------------------------------------------------
(***************************************************************************)
(* The serve goroutine.                                                    *)
(***************************************************************************)
ServeStart ==
  /\ serve = "start" /\ serve' = "select"
  /\ UNCHANGED <<regvars, initvars, flagvars, current, step, hist, ssu, go, outer, reply>>

\* The select receives a message of the given kind.
receive(ttype) ==
  /\ serve = "select" /\ outer # << >> /\ Head(outer).ttype = ttype
  /\ outer' = Tail(outer)

\* No answer for a key that has no entry.
answer_found(m, entry, rows) ==
  IF entry = NoEntry THEN UNCHANGED reply
  ELSE reply' = [reply EXCEPT ![m.from] = [ttype |-> m.ttype, key |-> m.name,
                                           entry |-> entry, rows |-> rows]]

\* A failed report leaves its caller without an answer.
answer_success(m, entry, rows) ==
  IF m.ttype = "report" /\ rows = NoRows THEN UNCHANGED reply
  ELSE reply' = [reply EXCEPT ![m.from] = [ttype |-> m.ttype, key |-> m.name,
                                           entry |-> entry, rows |-> rows]]

\* done <- true, or reply_chan <- msg: a channel of capacity one.
answer(m, entry, rows) ==
  /\ reply[m.from] = NoReply
  /\ reply' = [reply EXCEPT ![m.from] = [ttype |-> m.ttype, key |-> m.name,
                                         entry |-> entry, rows |-> rows]]

\* A span nobody registered is ignored.
handle_msg_A_expected_only(m) ==
  IF Reg!found(learners, m.name)
  THEN /\ Reg!handle_ssu_A(m.name, m.variant, m.dur)
       /\ recorded' = [s \in Spans |-> recorded[s] + IF s = m.span THEN 1 ELSE 0]
  ELSE UNCHANGED <<regvars, recorded>>

handle_msg_A(m) ==
  /\ Reg!handle_ssu_A(m.name, m.variant, m.dur)
  /\ recorded' = [s \in Spans |-> recorded[s] + IF s = m.span THEN 1 ELSE 0]

ServeSample ==
  /\ receive("A")
  /\ handle_msg_A(Head(outer))
  /\ UNCHANGED <<initvars, flagvars, srvvars, accepted, stopped, before_stop, ssu, go, reply>>

\* handle_msg_values: a copy of the row, or the entry that says there is none.
ServeValues ==
  /\ receive("values")
  /\ LET key == Head(outer).name IN
     answer(Head(outer), IF Reg!found(learners, key) THEN learners[key] ELSE NoEntry, NoRows)
  /\ UNCHANGED <<regvars, initvars, flagvars, srvvars, hist, ssu, go>>

\* handle_msg_report; report_inner runs until one of the two steps below.
ServeReport ==
  /\ receive("report")
  /\ serve' = "report" /\ current' = Head(outer)
  /\ UNCHANGED <<regvars, initvars, flagvars, step, hist, ssu, go, reply>>

back_to_select == serve' = "select" /\ current' = NoMsg /\ step' = 1

\* The report file cannot be created; the caller is told nothing of it.
ReportFail ==
  /\ serve = "report"
  /\ answer(current, Reg!NoLearner, NoRows)
  /\ back_to_select
  /\ UNCHANGED <<regvars, initvars, flagvars, hist, ssu, go, outer>>

\* Sent through the queue that serve itself drains.
after_and_update_by_queue(name) ==
  /\ Len(outer) < Capacity
  /\ \E d \in Durs : outer' = Append(outer, sample_msg(None, name, no_variant, d, None))
  /\ UNCHANGED regvars

\* A sample of serve's own goes straight to the rows.
after_and_update(name) ==
  /\ \E d \in Durs : Reg!handle_ssu_A(name, no_variant, d)
  /\ UNCHANGED outer

\* The rows a report shows: those of all tracked spans.
shown_rows == [k \in {tracked_spans[i] : i \in DOMAIN tracked_spans} |-> learners[k]]

\* The report is written; its own latency is one more sample.
ReportDone ==
  /\ serve = "report"
  /\ answer(current, Reg!NoLearner, shown_rows)
  /\ after_and_update(REPORT_SPAN)
  /\ back_to_select
  /\ UNCHANGED <<initvars, flagvars, hist, ssu, go>>

\* handle_msg_benchmarks, benchmarks_inner.
ServeBenchmarks ==
  /\ receive("benchmarks")
  /\ serve' = "benchmarks" /\ current' = Head(outer) /\ step' = 1
  /\ Benchmarks_started' = TRUE
  /\ UNCHANGED <<regvars, initvars, ohvars, Benchmarks_finished, hist, ssu, go, reply>>

BenchmarkSample ==
  /\ serve = "benchmarks" /\ step <= Len(BenchPlan)
  /\ after_and_update(BenchPlan[step])
  /\ step' = step + 1
  /\ UNCHANGED <<initvars, flagvars, serve, current, hist, ssu, go, reply>>

\* The loop ends one sample early.
plan_over_early == step >= Len(BenchPlan)

plan_over == step > Len(BenchPlan)

BenchmarksDone ==
  /\ serve = "benchmarks" /\ plan_over
  /\ after_and_update(BENCH_SPAN)
  /\ Benchmarks_finished' = TRUE
  /\ answer(current, Reg!NoLearner, NoRows)
  /\ back_to_select
  /\ UNCHANGED <<initvars, ohvars, Benchmarks_started, hist, ssu, go>>

\* handle_comm_msg reports "stop" as handled and serve goes on.
leave_serve_not == UNCHANGED serve

\* serve returns ...
leave_serve == serve' = "returning"

ServeStop ==
  /\ receive("stop")
  /\ leave_serve
  /\ UNCHANGED <<regvars, initvars, flagvars, current, step, hist, ssu, go, reply>>

\* ... and its deferred function sets Serve_finished.  Nobody closes or
\* drains comm_outer.
ServeFinish ==
  /\ serve = "returning" /\ serve' = "done"
  /\ UNCHANGED <<regvars, initvars, flagvars, current, step, hist, ssu, go, outer, reply>>

-------------------------------------------------------------------------------
\* Steps inside a call, which the Go scheduler lets happen.
Inside(g) ==
  \/ OnceEnter(g) \/ OnceReturn(g) \/ InitBuild(g) \/ InitComplete(g) \/ InitGo(g)
  \/ EndMark(g) \/ EndRefused(g) \/ EndSubmit(g)
  \/ SelfSample(g) \/ SelfAbort(g) \/ SelfDone(g)
  \/ CallReturn(g)

keys_asked(ttype) == IF ttype = "values" THEN Asked ELSE {OVERHEAD_SPAN}

\* Steps with which the application enters a call, if it wants to.
Enter(g) ==
  \/ InitCall(g) \/ CallRefused(g)
  \/ \E n \in SelfCounts : g \in Samplers /\ SelfStart(g, n)
  \/ \E r \in Requests : \E k \in keys_asked(r) : Call(g, r, k)
  \/ \E s \in Spans :
       \/ \E b \in Begins : Begin(g, s, b[1], b[2])
       \/ \E w \in EndVariants : EndTest(g, s, w)
       \/ EndIgnored(g, s)

Serve ==
  \/ ServeStart \/ ServeSample \/ ServeValues \/ ServeReport \/ ReportFail \/ ReportDone
  \/ ServeBenchmarks \/ BenchmarkSample \/ BenchmarksDone \/ ServeStop \/ ServeFinish

Next == Serve \/ \E g \in Goroutines : Enter(g) \/ Inside(g) \/ Send(g)

(***************************************************************************)
(* A goroutine that can run eventually does.  Goroutines parked on a full  *)
(* channel are served first come first served, so a send that is possible  *)
(* again and again happens: strong fairness.  Nobody has to make a call.   *)
(***************************************************************************)
Fairness ==
  /\ WF_vars(Serve)
  /\ \A g \in Goroutines : WF_vars(Inside(g)) /\ SF_vars(Send(g))

Spec == Init /\ [][Next]_vars
FairSpec == Spec /\ Fairness

-------------------------------------------------------------------------------
IsReply(r) ==
  /\ r.ttype \in {"none", "values", "report", "benchmarks"} /\ r.key \in Keys
  /\ r.entry \in Reg!Learner \cup {NoEntry}
  /\ DOMAIN r.rows \subseteq Keys /\ \A k \in DOMAIN r.rows : r.rows[k] \in Reg!Learner

TypeOK ==
  /\ Reg!TypeOK
  /\ init_once \in {"new", "running", "done"}
  /\ init_completed \in BOOLEAN /\ init_returned \in BOOLEAN
  /\ comm_outer \in {"nil", "chan"}
  /\ outer \in Seq(Msg) /\ Len(outer) <= Capacity
  /\ Overhead_samples_started \in BOOLEAN /\ Overhead_samples_finished \in BOOLEAN
  /\ Overhead_samples_aborted \in BOOLEAN
  /\ Benchmarks_started \in BOOLEAN /\ Benchmarks_finished \in BOOLEAN
  /\ ssu \in [Spans -> SSU]
  /\ go \in [Goroutines -> Goroutine]
  /\ \A g \in Goroutines : IsReply(reply[g])
  /\ serve \in {"absent", "start", "select", "report", "benchmarks", "returning", "done"}
  /\ current \in Msg
  /\ step \in 1 .. Len(BenchPlan) + 1
  /\ accepted \in [Spans -> Nat] /\ recorded \in [Spans -> Nat]
  /\ stopped \in BOOLEAN /\ before_stop \subseteq Spans

(***************************************************************************)
(* The statistics behave as the sequential object Registry: however the    *)
(* goroutines interleave, every change to a row or to the report order is  *)
(* one registration or one whole sample, and registration happens once.    *)
(***************************************************************************)
ImplementsRegistry == Reg!Spec

(***************************************************************************)
(* README, "Defers, Panics & Panic Recovery": redundant ends are ignored   *)
(* with no stat distortions.  No span is sent, or counted, twice, and none *)
(* is counted that was not sent.                                           *)
(***************************************************************************)
CountedAtMostOnce == \A s \in Spans : recorded[s] <= accepted[s] /\ accepted[s] <= 1

\* The rows that serve samples by itself.
own_rows == {REPORT_SPAN, BENCH_SPAN} \cup {BenchPlan[i] : i \in DOMAIN BenchPlan}

\* The spans whose samples have been counted and belong in row k: by their
\* names, or their names and variants.
rows_of(s) == {ssu[s].Name, Reg!span_key_form(ssu[s].Name, ssu[s].Variant)}
counted_in(k) == {s \in Spans : recorded[s] > 0 /\ k \in rows_of(s)}

(***************************************************************************)
(* A row of the application says of how many spans it is: those of its     *)
(* name, or of its name and variant, that have been counted, whichever     *)
(* goroutines ended them, in whatever order their messages were sent, and  *)
(* although the variant is only known at the end.                          *)
(***************************************************************************)
RowsCountSpans ==
  \A k \in Keys \ (own_rows \cup {OVERHEAD_SPAN}) :
    learners[k].Weight = Cardinality(counted_in(k))

\* Messages for span s that wait in the channel.
waiting(s) == {i \in DOMAIN outer : outer[i].span = s}

(***************************************************************************)
(* A sample whose A or A2 got through is neither lost nor duplicated: it   *)
(* is in the channel or it has been counted, for as long as serve runs and *)
(* after.  (After Stop it may stay in the channel for ever.)               *)
(***************************************************************************)
SampleConserved ==
  \A s \in Spans :
    accepted[s] = recorded[s] + Cardinality(waiting(s))

(***************************************************************************)
(* A and A2 set Ended before after_and_submit may refuse, and no later end *)
(* makes up for a refusal.  Still no ended span is lost while LatLearn     *)
(* serves: some goroutine is submitting it, or it has been accepted, or    *)
(* serve is gone for good.                                                 *)
(***************************************************************************)
EndedNotLost ==
  \A s \in Spans : ssu[s].Ended =>
    \/ \E g \in Goroutines : go[g].handle = s \/ go[g].out.span = s
    \/ accepted[s] > 0
    \/ Serve_finished

\* The requests serve has yet to answer for g: queued or in hand.
open_requests(g) ==
  {i \in DOMAIN outer : outer[i].from = g /\ outer[i].ttype \in {"values", "report", "benchmarks"}}

(***************************************************************************)
(* serve never blocks on a reply, and no answer reaches the wrong call:    *)
(* a goroutine that waits has one request open or one answer ready, never  *)
(* both, and one that does not wait has neither.                           *)
(***************************************************************************)
OneAnswerPerCall ==
  \A g \in Goroutines :
    Cardinality(open_requests(g)) + (IF current.from = g THEN 1 ELSE 0)
      + (IF reply[g] # NoReply THEN 1 ELSE 0) = (IF pc(g) = "wait" THEN 1 ELSE 0)

(***************************************************************************)
(* No goroutine is about to send on the nil channel that comm_outer is     *)
(* until init_inner has run: such a send would block it for ever.          *)
(***************************************************************************)
NoSendOnNil == \A g \in Goroutines : pc(g) = "send" => go[g].chan = "chan"

(***************************************************************************)
(* A sample whose A or A2 returned true is counted in the end, unless the  *)
(* application stops LatLearn.                                             *)
(***************************************************************************)
SamplesArrive == \A s \in Spans : accepted[s] > 0 ~> recorded[s] = accepted[s]

(***************************************************************************)
(* Nobody needs a lock around a report: from the moment serve starts one   *)
(* until it ends, whatever the goroutines do, no row and no entry of the   *)
(* report order changes under it.                                          *)
(***************************************************************************)
ReportUndisturbed ==
  [][serve = "report" /\ serve' = "report" => UNCHANGED <<learners, tracked_spans>>]_vars

\* How often a benchmark is sampled in one run.
rounds == [b \in {BenchPlan[i] : i \in DOMAIN BenchPlan} |->
             Cardinality({i \in DOMAIN BenchPlan : BenchPlan[i] = b})]

(***************************************************************************)
(* Whoever sees the rows sees whole benchmark runs: outside of Benchmarks  *)
(* every built-in benchmark has the samples of as many runs as the row of  *)
(* the runs themselves counts.                                             *)
(***************************************************************************)
BenchmarksWhole ==
  serve # "benchmarks" =>
    \A b \in DOMAIN rounds : learners[b].Weight = rounds[b] * learners[BENCH_SPAN].Weight

(***************************************************************************)
(* The names of the benchmarks are written twice, in init_inner and where  *)
(* they are measured.  They agree: a benchmark run adds no line to the     *)
(* report order and leaves none without data, but for those of the no-op   *)
(* span and of the reports.                                                *)
(***************************************************************************)
BenchmarksFillTheirLines ==
  /\ \A i \in DOMAIN tracked_spans : \E j \in DOMAIN expected : tracked_spans[i] = expected[j]
  /\ Benchmarks_finished =>
       \A i \in DOMAIN Builtins :
         Builtins[i] \in {OVERHEAD_SPAN, REPORT_SPAN} \/ learners[Builtins[i]].Pair_ever_completed

(***************************************************************************)
(* Every call returns, as long as nobody calls Stop.                       *)
(***************************************************************************)
CallsReturn == \A g \in Goroutines : pc(g) # "idle" ~> pc(g) = "idle"

(***************************************************************************)
(* With Stop in play: a call returns, or serve finishes without it.        *)
(***************************************************************************)
ReturnOrStopped == \A g \in Goroutines : pc(g) # "idle" ~> pc(g) = "idle" \/ Serve_finished

(***************************************************************************)
(* A Stop that returned true does stop serve ...                           *)
(***************************************************************************)
StopStops == stopped ~> Serve_finished

(***************************************************************************)
(* ... but not before everything sent ahead of it has been counted.        *)
(***************************************************************************)
StopDrains == Serve_finished => \A s \in before_stop : recorded[s] = 1

(***************************************************************************)
(* example-app3.go: "no known ... deadlock vulnerabilities, by design".    *)
(* No goroutine waits for an answer that nobody is left to give.           *)
(***************************************************************************)
NoOrphanedCaller ==
  Serve_finished => \A g \in Goroutines : pc(g) = "wait" => reply[g] # NoReply

(***************************************************************************)
(* latlearn.go, in Overhead: Overhead_samples_finished and not aborted     *)
(* "ensure that all 1M samples were carried out and finished".             *)
(***************************************************************************)
sampling(g) ==
  pc(g) = "self" \/ (pc(g) = "send" /\ go[g].out.ttype = "A" /\ go[g].out.span = None)

FlagsMeanAllSampled ==
  Overhead_samples_finished /\ ~Overhead_samples_aborted => \A g \in Goroutines : ~sampling(g)

(***************************************************************************)
(* example-app4.go prints the result of Report as "report generated".      *)
(***************************************************************************)
ReportOkMeansWritten ==
  \A g \in Goroutines : reply[g].ttype = "report" => reply[g].rows # NoRows

-------------------------------------------------------------------------------
(***************************************************************************)
(* What the theorems suppose of an application, beyond LatLearnAssumption. *)
(***************************************************************************)
\* The variant of a span stays among Variants however often A2 joins one to
\* it, or A2 joins only one to it, no other goroutine having a pointer to it.
NotShared == \A g, h \in Goroutines : g # h => Holds[g] \cap Holds[h] = {}

VariantsJoin ==
  \/ \A v \in Variants, w \in Ends : end_variant(v, w) \in Variants
  \/ NotShared

\* One goroutine samples no-ops.  The flags it sets are package variables.
OneSampler == \A g, h \in Samplers : g = h

\* The names of the samples that come through the channel.
AppNames == {b[1] : b \in Begins} \cup {OVERHEAD_SPAN}

\* init_inner registers the rows that serve samples by itself, and these are
\* nobody else's: no span of the application, and no variant of one, has the
\* name of a benchmark or of the reports.
OwnApart ==
  /\ own_rows \subseteq {Builtins[i] : i \in DOMAIN Builtins}
  /\ \A n \in AppNames, v \in Variants : Reg!span_key_form(n, v) \notin own_rows

\* No two spans have the same key.
KeysDistinct ==
  \A m, n \in Names : \A v, w \in Variants :
    Reg!span_key_form(m, v) = Reg!span_key_form(n, w) => m = n /\ v = w

\* The spans of the reports and of a whole benchmark run are no benchmarks.
PlanApart == \A i \in DOMAIN BenchPlan : BenchPlan[i] \notin {REPORT_SPAN, BENCH_SPAN}

===============================================================================
