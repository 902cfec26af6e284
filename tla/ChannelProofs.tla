---------------------------- MODULE ChannelProofs ----------------------------
(***************************************************************************)
(* Proofs about comm_outer and serve from beginning to end: that nobody    *)
(* uses the channel before Init has made it, that serve has the rows to    *)
(* itself, which spans may be lost to a Stop, that each request has one    *)
(* answer, and that the rows are those of a sequential registry.           *)
(***************************************************************************)
EXTENDS LatLearnProofs

-------------------------------------------------------------------------------
(***************************************************************************)
(* The channel exists whenever somebody could send on it.  That depends on *)
(* the order in which init_inner publishes comm_outer and init_completed,  *)
(* and on sync.Once: who sees Init return sees both.                       *)
(***************************************************************************)
Users == {"mark", "check", "send", "wait", "self"}

ChanOK ==
  /\ init_returned \/ init_completed \/ init_once = "done" => comm_outer = "chan"
  /\ \A g \in Goroutines :
       /\ pc(g) \in {"init_built", "init_go"} \cup Users => comm_outer = "chan"
       /\ pc(g) \in {"check", "send"} => go[g].chan = "chan"

\* What a step of g does to the goroutines and to the channel.
OnlyMoves(g) ==
  /\ \A h \in Goroutines \ {g} : go'[h] = go[h]
  /\ comm_outer' \in {comm_outer, "chan"}

LEMMA ChanStep ==
  ASSUME ChanOK, NEW g \in Goroutines, OnlyMoves(g),
         \/ comm_outer' = "chan"
         \/ UNCHANGED <<init_returned, init_completed, init_once>>
         \/ init_once' = "running" /\ UNCHANGED <<init_returned, init_completed>>,
         pc(g)' \in {"init_built", "init_go"} \cup Users => comm_outer' = "chan",
         pc(g)' \in {"check", "send"} => go'[g].chan = "chan"
  PROVE  ChanOK'
BY DEF ChanOK, OnlyMoves, pc

LEMMA EnterChan ==
  ASSUME InitFirst, IInv, ChanOK, NEW g \in Goroutines, Enter(g)
  PROVE  ChanOK'
<1> USE DEF pc, OnlyMoves, initvars
<1>1. /\ go \in [Goroutines -> Goroutine] /\ comm_outer \in {"nil", "chan"}
      /\ Free(g) => comm_outer = "chan"
  BY DEF IInv, Typed, Free, ChanOK
<1>2. ASSUME InitCall(g) \/ CallRefused(g) PROVE ChanOK'
  <2>1. go'[g].pc \in {"once", "idle"}
    BY <1>1, <1>2 DEF InitCall, CallRefused, May_call, Free, Goroutine
  <2> QED
    BY <1>1, <1>2, <2>1, ChanStep DEF InitCall, CallRefused, Users
<1>3. ASSUME NEW n \in SelfCounts, SelfStart(g, n) PROVE ChanOK'
  BY <1>1, <1>3, ChanStep DEF SelfStart, May_call, Users
<1>4. ASSUME NEW r \in Requests, NEW k \in Keys, Call(g, r, k) PROVE ChanOK'
  BY <1>1, <1>4, ChanStep DEF Call, May_call, Users
<1>5. ASSUME NEW s \in Spans, NEW b \in Begins, Begin(g, s, b[1], b[2]) PROVE ChanOK'
  BY <1>5 DEF Begin, ChanOK
<1>6. ASSUME NEW s \in Spans, NEW w \in EndVariants, EndTest(g, s, w) PROVE ChanOK'
  BY <1>1, <1>6, ChanStep DEF EndTest, Users
<1>7. ASSUME NEW s \in Spans, EndIgnored(g, s) PROVE ChanOK'
  BY <1>7 DEF EndIgnored, vars, ChanOK
<1> QED
  <2>1. \A r \in Requests : keys_asked(r) \subseteq Keys
    BY Constants, NameIsKey DEF keys_asked
  <2> QED
    BY <1>2, <1>3, <1>4, <1>5, <1>6, <1>7, <2>1 DEF Enter

LEMMA InsideChan ==
  ASSUME IInv, ChanOK, NEW g \in Goroutines, Inside(g) \/ Send(g)
  PROVE  ChanOK'
<1> USE DEF pc, goto, OnlyMoves, initvars
<1>1. go \in [Goroutines -> Goroutine] /\ comm_outer \in {"nil", "chan"}
  BY DEF IInv, Typed
<1>2. CASE OnceEnter(g)
  BY <1>1, <1>2, ChanStep DEF OnceEnter, Users
<1>3. CASE OnceReturn(g)
  BY <1>1, <1>3, ChanStep DEF OnceReturn, once_over, ChanOK, Users
<1>4. CASE InitBuild(g) \/ InitComplete(g) \/ InitGo(g)
  <2>1. comm_outer' = "chan" /\ \A h \in Goroutines \ {g} : go'[h] = go[h]
    BY <1>1, <1>4 DEF InitBuild, InitComplete, InitGo, ChanOK
  <2>2. go'[g].pc \in {"init_built", "init_go", "idle"}
    BY <1>1, <1>4 DEF InitBuild, InitComplete, InitGo, Goroutine
  <2> QED
    BY <2>1, <2>2 DEF ChanOK
<1>5. CASE EndMark(g)
  BY <1>1, <1>5, ChanStep DEF EndMark, ChanOK, Users
<1>6. CASE EndRefused(g)
  BY <1>1, <1>6, ChanStep DEF EndRefused, ChanOK, Users
<1>7. CASE EndSubmit(g)
  BY <1>1, <1>7, ChanStep DEF EndSubmit, ChanOK, Users
<1>8. CASE SelfSample(g)
  BY <1>1, <1>8, ChanStep DEF SelfSample, ChanOK, Users
<1>9. CASE SelfAbort(g) \/ SelfDone(g)
  <2>1. go'[g].pc = "idle"
    BY <1>1, <1>9 DEF SelfAbort, SelfDone, Goroutine
  <2> QED
    BY <1>1, <1>9, <2>1, ChanStep DEF SelfAbort, SelfDone, Users
<1>10. CASE CallReturn(g)
  BY <1>1, <1>10, ChanStep DEF CallReturn, ChanOK, Users
<1>11. CASE Send(g)
  <2>1. after_send(go[g].out) \in {"self", "wait", "idle"}
    BY DEF after_send
  <2> QED
    BY <1>1, <1>11, <2>1, ChanStep DEF Send, ChanOK, Users
<1> QED
  BY <1>2, <1>3, <1>4, <1>5, <1>6, <1>7, <1>8, <1>9, <1>10, <1>11 DEF Inside

LEMMA ServeChan ==
  ASSUME ChanOK, Serve
  PROVE  ChanOK'
<1>1. UNCHANGED <<go, comm_outer, init_returned, init_completed, init_once>>
  BY DEF Serve, ServeStart, ServeSample, ServeValues, ServeReport, ReportFail, ReportDone,
         ServeBenchmarks, BenchmarkSample, BenchmarksDone, ServeStop, ServeFinish, initvars
<1> QED
  BY <1>1 DEF ChanOK, pc

(***************************************************************************)
(* In an application that waits for Init, as the README demands, nobody    *)
(* ever sends on the nil channel, which would block for ever.              *)
(***************************************************************************)
THEOREM NobodySendsOnNil ==
  ASSUME InitFirst, VariantsJoin
  PROVE  Spec => []NoSendOnNil
<1>1. Init => ChanOK
  BY DEF Init, ChanOK, pc, AtRest, Users
<1>2. IInv /\ ChanOK /\ [Next]_vars => ChanOK'
  <2> SUFFICES ASSUME IInv, ChanOK, [Next]_vars PROVE ChanOK'
    OBVIOUS
  <2>1. CASE UNCHANGED vars
    BY <2>1 DEF vars, initvars, ChanOK, pc
  <2> QED
    BY <2>1, EnterChan, InsideChan, ServeChan DEF Next
<1>3. ChanOK => NoSendOnNil
  BY DEF ChanOK, NoSendOnNil
<1>4. Spec => []IInv
  BY IInvHolds
<1> QED
  BY <1>1, <1>2, <1>3, <1>4, PTL DEF Spec

-------------------------------------------------------------------------------
(***************************************************************************)
(* report_inner needs no lock: while it walks the rows, nobody but serve   *)
(* could change them, and serve is busy with the report.                   *)
(***************************************************************************)
THEOREM ReportsUndisturbed ==
  ASSUME VariantsJoin
  PROVE  Spec => ReportUndisturbed
<1> DEFINE A == serve = "report" /\ serve' = "report" => UNCHANGED <<learners, tracked_spans>>
<1>1. IInv /\ [Next]_vars => [A]_vars
  <2> SUFFICES ASSUME IInv, Next, serve = "report", serve' = "report"
               PROVE  UNCHANGED <<learners, tracked_spans>>
    OBVIOUS
  <2>1. CASE Serve
    BY <2>1 DEF Serve, ServeStart, ServeSample, ServeValues, ServeReport, ReportFail, ReportDone,
         ServeBenchmarks, BenchmarkSample, BenchmarksDone, ServeStop, ServeFinish, receive,
         back_to_select
  <2>2. ASSUME NEW g \in Goroutines, Enter(g) PROVE UNCHANGED regvars
    BY <2>2 DEF Enter, InitCall, CallRefused, SelfStart, Call, Begin, EndTest, EndIgnored, vars
  <2>3. ASSUME NEW g \in Goroutines, InitBuild(g) PROVE FALSE
    BY <2>3 DEF InitBuild, IInv, InitOnce
  <2>4. ASSUME NEW g \in Goroutines, Inside(g) \/ Send(g) PROVE UNCHANGED regvars
    BY <2>3, <2>4 DEF Inside, OnceEnter, OnceReturn, InitComplete, InitGo, EndMark, EndRefused,
         EndSubmit, SelfSample, SelfAbort, SelfDone, CallReturn, Send
  <2> QED
    BY <2>1, <2>2, <2>4 DEF Next, regvars
<1>2. Spec => []IInv
  BY IInvHolds
<1> QED
  BY <1>1, <1>2, PTL DEF Spec, ReportUndisturbed

-------------------------------------------------------------------------------
(***************************************************************************)
(* Before Stop.  A goroutine that gets as far as after_and_submit has seen *)
(* Init return, so that only Serve_finished can make it refuse.            *)
(***************************************************************************)
Completed ==
  /\ init_returned \/ init_once = "done" => init_completed
  /\ \A g \in Goroutines : pc(g) \in {"init_go"} \cup Users => init_completed

\* A goroutine has a span in its hands only while it ends it.
Hands ==
  \A g \in Goroutines :
    /\ go[g].handle # None => pc(g) \in {"mark", "check"}
    /\ go[g].out.span # None => pc(g) = "send"

NotLost == Completed /\ Hands /\ EndedNotLost

Has(g, s) == go[g].handle = s \/ go[g].out.span = s

\* A step of g that drops no span.
Careful(g) ==
  /\ \A h \in Goroutines \ {g} : go'[h] = go[h]
  /\ go'[g].handle # None => go'[g].pc \in {"mark", "check"}
  /\ go'[g].out.span # None => go'[g].pc = "send"
  /\ \A s \in Spans :
       /\ Has(g, s) => Has(g, s)' \/ accepted'[s] > 0 \/ Serve_finished'
       /\ ssu'[s].Ended => ssu[s].Ended \/ Has(g, s)'
       /\ accepted[s] > 0 => accepted'[s] > 0
  /\ Serve_finished => Serve_finished'

LEMMA CarefulStep ==
  ASSUME Hands, EndedNotLost, NEW g \in Goroutines, Careful(g)
  PROVE  Hands' /\ EndedNotLost'
<1>1. Hands'
  BY DEF Hands, Careful, pc
<1>2. EndedNotLost'
  <2> SUFFICES ASSUME NEW s \in Spans, ssu'[s].Ended
               PROVE  \/ \E h \in Goroutines : Has(h, s)'
                      \/ accepted'[s] > 0
                      \/ Serve_finished'
    BY DEF EndedNotLost, Has
  <2>1. CASE Has(g, s)'
    BY <2>1
  <2>2. CASE ~Has(g, s)'
    <3>1. \/ \E h \in Goroutines : Has(h, s)
          \/ accepted[s] > 0
          \/ Serve_finished
      BY <2>2 DEF Careful, EndedNotLost, Has
    <3>2. \A h \in Goroutines \ {g} : Has(h, s) => Has(h, s)'
      BY DEF Careful, Has
    <3> QED
      BY <3>1, <3>2 DEF Careful
  <2> QED
    BY <2>1, <2>2
<1> QED
  BY <1>1, <1>2

\* Where g goes, Init is over, or g is not where that would matter.
LEMMA CompletedStep ==
  ASSUME Completed, NEW g \in Goroutines,
         \A h \in Goroutines \ {g} : go'[h] = go[h],
         init_completed => init_completed',
         init_completed' \/ UNCHANGED <<init_returned, init_once>>
                         \/ (init_once' = "running" /\ UNCHANGED init_returned),
         pc(g)' \in {"init_go"} \cup Users => init_completed'
  PROVE  Completed'
BY DEF Completed, pc

LEMMA EnterNotLost ==
  ASSUME InitFirst, IInv, Kept, NotLost, NEW g \in Goroutines, Enter(g)
  PROVE  NotLost'
<1> USE DEF pc, hist, srvvars, initvars, May_call, Free, Serve_finished
<1>1. /\ go \in [Goroutines -> Goroutine]
      /\ pc(g) = "idle" => go[g].handle = None /\ go[g].out.span = None
      /\ pc(g) = "idle" /\ init_returned => init_completed
      /\ Hands /\ EndedNotLost /\ Completed
  BY DEF IInv, Typed, NotLost, Hands, Completed
<1>2. CASE InitCall(g)
  <2>1. Careful(g) /\ go'[g].pc = "once"
    BY <1>1, <1>2 DEF InitCall, Careful, Has, Goroutine
  <2>2. Completed'
    BY <1>1, <1>2, <2>1, CompletedStep DEF InitCall, Users, Careful
  <2> QED
    BY <1>1, <2>1, <2>2, CarefulStep DEF NotLost
<1>3. CASE CallRefused(g)
  <2>1. Careful(g) /\ go'[g].pc = "idle"
    BY <1>1, <1>3 DEF CallRefused, Careful, Has, Goroutine
  <2>2. Completed'
    BY <1>1, <1>3, <2>1, CompletedStep DEF CallRefused, Users, Careful
  <2> QED
    BY <1>1, <2>1, <2>2, CarefulStep DEF NotLost
<1>4. ASSUME NEW n \in SelfCounts, SelfStart(g, n) PROVE NotLost'
  <2>1. Careful(g)
    BY <1>1, <1>4 DEF SelfStart, Careful, Has, Goroutine
  <2>2. Completed'
    BY <1>1, <1>4, <2>1, CompletedStep DEF SelfStart, Careful
  <2> QED
    BY <1>1, <2>1, <2>2, CarefulStep DEF NotLost
<1>5. ASSUME NEW r \in Requests, NEW k \in Keys, Call(g, r, k) PROVE NotLost'
  <2>1. request_msg(g, r, k).span = None
    BY DEF request_msg
  <2>2. Careful(g)
    BY <1>1, <1>5, <2>1 DEF Call, Careful, Has, Goroutine
  <2>3. Completed'
    BY <1>1, <1>5, <2>2, CompletedStep DEF Call, Careful
  <2> QED
    BY <1>1, <2>2, <2>3, CarefulStep DEF NotLost
<1>6. ASSUME NEW s \in Spans, NEW b \in Begins, Begin(g, s, b[1], b[2]) PROVE NotLost'
  <2>1. \A t \in Spans : ssu'[t].Ended => ssu[t].Ended
    BY <1>6 DEF Begin, IInv, Typed
  <2>2. Careful(g)
    BY <1>1, <1>6, <2>1 DEF Begin, Careful, Has
  <2>3. Completed'
    BY <1>1, <1>6 DEF Begin, Completed
  <2> QED
    BY <1>1, <2>2, <2>3, CarefulStep DEF NotLost
<1>7. ASSUME NEW s \in Spans, NEW w \in EndVariants, EndTest(g, s, w) PROVE NotLost'
  <2>1. Careful(g)
    BY <1>1, <1>7 DEF EndTest, Careful, Has, Goroutine
  <2>2. Completed'
    BY <1>1, <1>7, <2>1, CompletedStep DEF EndTest, Careful
  <2> QED
    BY <1>1, <2>1, <2>2, CarefulStep DEF NotLost
<1>8. ASSUME NEW s \in Spans, EndIgnored(g, s) PROVE NotLost'
  BY <1>8 DEF EndIgnored, vars, NotLost, Completed, Hands, EndedNotLost
<1> QED
  <2>1. \A r \in Requests : keys_asked(r) \subseteq Keys
    BY Constants, NameIsKey DEF keys_asked
  <2> QED
    BY <1>2, <1>3, <1>4, <1>5, <1>6, <1>7, <1>8, <2>1 DEF Enter

LEMMA InsideNotLost ==
  ASSUME IInv, Kept, NotLost, NEW g \in Goroutines, Inside(g)
  PROVE  NotLost'
<1> USE DEF pc, goto, hist, srvvars, initvars, Serve_finished
<1>1. /\ go \in [Goroutines -> Goroutine] /\ ssu \in [Spans -> SSU]
      /\ pc(g) \notin {"mark", "check"} => go[g].handle = None
      /\ pc(g) # "send" => go[g].out.span = None
      /\ Hands /\ EndedNotLost /\ Completed
  BY DEF IInv, Typed, NotLost, Hands
<1>2. CASE OnceEnter(g) \/ OnceReturn(g) \/ InitBuild(g) \/ InitComplete(g) \/ InitGo(g)
  <2>1. /\ go[g].pc \in {"once"} \cup InitLabels /\ UNCHANGED <<ssu, accepted>>
        /\ \E label \in {"idle"} \cup InitLabels : go' = [go EXCEPT ![g].pc = label]
        /\ serve' = serve \/ go[g].pc \in InitLabels
    BY <1>2 DEF OnceEnter, OnceReturn, InitBuild, InitComplete, InitGo, InitLabels
  <2>2. Serve_finished => Serve_finished'
    BY <2>1 DEF IInv, InitOnce
  <2>3. go[g].handle = None /\ go[g].out.span = None
    BY <1>1, <2>1 DEF InitLabels
  <2>4. go'[g].handle = None /\ go'[g].out.span = None /\ \A h \in Goroutines \ {g} : go'[h] = go[h]
    BY <1>1, <2>1, <2>3 DEF Goroutine
  <2>5. Careful(g)
    BY <2>1, <2>2, <2>3, <2>4, Constants DEF Careful, Has
  <2>6. Completed'
    <3>1. CASE OnceEnter(g)
      <4>1. go'[g].pc = "init_inner"
        BY <1>1, <3>1 DEF OnceEnter, Goroutine
      <4> QED
        BY <1>1, <2>4, <3>1, <4>1, CompletedStep DEF OnceEnter, Users
    <3>2. CASE OnceReturn(g)
      <4>1. go'[g].pc = "idle" /\ init_completed
        BY <1>1, <3>2 DEF OnceReturn, once_over, Completed, Goroutine
      <4> QED
        BY <1>1, <2>4, <3>2, <4>1, CompletedStep DEF OnceReturn, Users
    <3>3. CASE InitBuild(g)
      <4>1. go'[g].pc = "init_built"
        BY <1>1, <3>3 DEF InitBuild, Goroutine
      <4> QED
        BY <1>1, <2>4, <3>3, <4>1, CompletedStep DEF InitBuild, Users
    <3>4. CASE InitComplete(g)
      BY <3>4 DEF InitComplete, Completed
    <3>5. CASE InitGo(g)
      BY <1>1, <3>5 DEF InitGo, Completed
    <3> QED
      BY <1>2, <3>1, <3>2, <3>3, <3>4, <3>5
  <2> QED
    BY <1>1, <2>5, <2>6, CarefulStep DEF NotLost
<1>3. CASE EndMark(g)
  <2>1. go[g].handle \in Spans /\ go[g].out.span = None /\ go[g].pc = "mark"
    BY <1>1, <1>3 DEF EndMark, IInv, EndsOK
  <2>2. /\ go'[g].pc = "check" /\ go'[g].handle = go[g].handle /\ go'[g].out = go[g].out
        /\ \A h \in Goroutines \ {g} : go'[h] = go[h]
        /\ \A s \in Spans \ {go[g].handle} : ssu'[s] = ssu[s]
        /\ UNCHANGED <<accepted, serve, init_returned, init_completed, init_once>>
    BY <1>1, <1>3 DEF EndMark, Goroutine
  <2>3. Careful(g)
    BY <2>1, <2>2 DEF Careful, Has
  <2>4. Completed'
    BY <1>1, <2>1, <2>2, CompletedStep DEF Completed, Users
  <2> QED
    BY <1>1, <2>3, <2>4, CarefulStep DEF NotLost
<1>4. CASE EndRefused(g)
  <2>1. init_completed /\ Serve_finished /\ go[g].out.span = None
    BY <1>1, <1>4 DEF EndRefused, Refused, Completed, Users
  <2>2. /\ go'[g].pc = "idle" /\ go'[g].handle = None /\ go'[g].out = go[g].out
        /\ \A h \in Goroutines \ {g} : go'[h] = go[h]
        /\ UNCHANGED <<ssu, accepted, serve, init_returned, init_completed, init_once>>
    BY <1>1, <1>4 DEF EndRefused, Goroutine
  <2>3. Careful(g)
    BY <2>1, <2>2 DEF Careful, Has
  <2>4. Completed'
    BY <1>1, <2>2, CompletedStep DEF Users
  <2> QED
    BY <1>1, <2>3, <2>4, CarefulStep DEF NotLost
<1>5. CASE EndSubmit(g)
  <2> DEFINE m(d) == sample_msg(g, ssu[go[g].handle].Name, ssu[go[g].handle].Variant, d, go[g].handle)
  <2>1. /\ \E d \in Durs : go' = [go EXCEPT ![g].pc = "send", ![g].handle = None, ![g].out = m(d)]
        /\ \A d : m(d).span = go[g].handle
        /\ go[g].pc = "check"
        /\ UNCHANGED <<ssu, accepted, serve, init_returned, init_completed, init_once>>
    BY <1>5 DEF EndSubmit, sample_msg
  <2> HIDE DEF m
  <2>2. /\ go'[g].pc = "send" /\ go'[g].handle = None /\ go'[g].out.span = go[g].handle
        /\ \A h \in Goroutines \ {g} : go'[h] = go[h]
    BY <1>1, <2>1 DEF Goroutine
  <2>3. Careful(g)
    BY <1>1, <2>1, <2>2, Constants DEF Careful, Has
  <2>4. Completed'
    BY <1>1, <2>1, <2>2, CompletedStep DEF Completed, Users
  <2> QED
    BY <1>1, <2>3, <2>4, CarefulStep DEF NotLost
<1>6. CASE SelfSample(g)
  <2> DEFINE m(d) == sample_msg(g, OVERHEAD_SPAN, no_variant, d, None)
  <2>1. /\ \E d \in Durs : go' = [go EXCEPT ![g].pc = "send", ![g].left = @ - 1,
                                            ![g].chan = comm_outer, ![g].out = m(d)]
        /\ \A d : m(d).span = None
        /\ go[g].pc = "self"
        /\ UNCHANGED <<ssu, accepted, serve, init_returned, init_completed, init_once>>
    BY <1>6 DEF SelfSample, sample_msg
  <2> HIDE DEF m
  <2>2. /\ go'[g].pc = "send" /\ go'[g].handle = go[g].handle /\ go'[g].out.span = None
        /\ \A h \in Goroutines \ {g} : go'[h] = go[h]
    BY <1>1, <2>1 DEF Goroutine
  <2>3. Careful(g)
    BY <1>1, <2>1, <2>2, Constants DEF Careful, Has
  <2>4. Completed'
    BY <1>1, <2>1, <2>2, CompletedStep DEF Completed, Users
  <2> QED
    BY <1>1, <2>3, <2>4, CarefulStep DEF NotLost
<1>7. CASE SelfAbort(g) \/ SelfDone(g) \/ CallReturn(g)
  <2>1. /\ go[g].pc \in {"self", "wait"} /\ go'[g].pc = "idle"
        /\ go'[g].handle = go[g].handle /\ go'[g].out = go[g].out
        /\ \A h \in Goroutines \ {g} : go'[h] = go[h]
    BY <1>1, <1>7 DEF SelfAbort, SelfDone, CallReturn, Goroutine
  <2>2. UNCHANGED <<ssu, accepted, serve, init_returned, init_completed, init_once>>
    BY <1>7 DEF SelfAbort, SelfDone, CallReturn
  <2>3. Careful(g)
    BY <1>1, <2>1, <2>2, Constants DEF Careful, Has
  <2>4. Completed'
    BY <1>1, <2>1, <2>2, CompletedStep DEF Users
  <2> QED
    BY <1>1, <2>3, <2>4, CarefulStep DEF NotLost
<1> QED
  BY <1>2, <1>3, <1>4, <1>5, <1>6, <1>7 DEF Inside

LEMMA SendNotLost ==
  ASSUME IInv, Kept, NotLost, NEW g \in Goroutines, Send(g)
  PROVE  NotLost'
<1> USE DEF pc, srvvars, initvars, Serve_finished
<1>1. /\ go \in [Goroutines -> Goroutine] /\ accepted \in [Spans -> Nat]
      /\ go[g].pc = "send" /\ go[g].handle = None
      /\ Hands /\ EndedNotLost /\ Completed
  BY DEF IInv, Typed, Kept, Counts, NotLost, Hands, Send
<1>2. /\ UNCHANGED <<ssu, serve, init_returned, init_completed, init_once>>
      /\ \A s \in Spans : accepted'[s] = accepted[s] + IF s = go[g].out.span THEN 1 ELSE 0
  BY DEF Send
<1>3. /\ go'[g].out.span = None /\ go'[g].handle = None
      /\ go'[g].pc = after_send(go[g].out)
      /\ \A h \in Goroutines \ {g} : go'[h] = go[h]
  BY <1>1 DEF Send, Goroutine, NoMsg, request_msg
<1>4. \A s \in Spans : /\ accepted[s] > 0 => accepted'[s] > 0
                       /\ go[g].out.span = s => accepted'[s] > 0
  BY <1>1, <1>2
<1>5. Careful(g)
  BY <1>1, <1>2, <1>3, <1>4, Constants DEF Careful, Has
<1>6. Completed'
  BY <1>1, <1>2, <1>3, CompletedStep DEF Completed, Users
<1> QED
  BY <1>1, <1>5, <1>6, CarefulStep DEF NotLost

LEMMA ServeNotLost ==
  ASSUME NotLost, Serve
  PROVE  NotLost'
<1>1. /\ UNCHANGED <<go, ssu, accepted, init_returned, init_completed, init_once>>
      /\ Serve_finished => Serve_finished'
  BY DEF Serve, ServeStart, ServeSample, ServeValues, ServeReport, ReportFail, ReportDone,
         ServeBenchmarks, BenchmarkSample, BenchmarksDone, ServeStop, ServeFinish, initvars, hist,
         receive, srvvars, Serve_finished
<1> QED
  BY <1>1 DEF NotLost, Completed, Hands, EndedNotLost, Serve_finished, pc

LEMMA NotLostHolds ==
  ASSUME InitFirst, VariantsJoin
  PROVE  Spec => []NotLost
<1>1. Init => NotLost
  BY DEF Init, NotLost, Completed, Hands, EndedNotLost, pc, AtRest, NoMsg, request_msg, Users
<1>2. IInv /\ Kept /\ NotLost /\ [Next]_vars => NotLost'
  <2> SUFFICES ASSUME IInv, Kept, NotLost, [Next]_vars PROVE NotLost'
    OBVIOUS
  <2>1. CASE UNCHANGED vars
    BY <2>1 DEF vars, initvars, srvvars, hist, NotLost, Completed, Hands, EndedNotLost,
            Serve_finished, pc
  <2> QED
    BY <2>1, EnterNotLost, InsideNotLost, SendNotLost, ServeNotLost DEF Next
<1> QED
  BY <1>1, <1>2, KeptHolds, PTL DEF Spec

(***************************************************************************)
(* A and A2 mark a span as ended before they know whether its sample will  *)
(* be taken.  An application that waits for Init loses nothing by it: the  *)
(* sample of a span that is marked is under way or accepted, until serve   *)
(* has finished.                                                           *)
(***************************************************************************)
THEOREM EndedSpansNotLost ==
  ASSUME InitFirst, VariantsJoin
  PROVE  Spec => []EndedNotLost
<1>1. NotLost => EndedNotLost
  BY DEF NotLost
<1> QED
  BY <1>1, NotLostHolds, PTL

-------------------------------------------------------------------------------
(***************************************************************************)
(* After Stop.                                                             *)
(***************************************************************************)
\* Whatever a stop in the queue must not overtake is ahead of it.
Ahead ==
  \A i, j \in 1 .. Len(outer) :
    outer[j].ttype = "stop" /\ outer[i].span \in before_stop => i < j

Drain ==
  /\ \A s \in before_stop : s \in Spans /\ accepted[s] = 1
  /\ ~stopped => /\ before_stop = {} /\ serve \notin {"returning", "done"}
                 /\ \A j \in 1 .. Len(outer) : outer[j].ttype # "stop"
  /\ Ahead
  /\ serve \in {"returning", "done"} => \A s \in before_stop : recorded[s] = 1

\* Steps that have nothing to do with the queue.
Quiet ==
  /\ UNCHANGED <<outer, accepted, recorded, stopped, before_stop>>
  /\ serve' \in {"returning", "done"} => serve \in {"returning", "done"}

LEMMA QuietDrain == ASSUME Drain, Quiet PROVE Drain'
BY DEF Drain, Quiet, Ahead

LEMMA GoroutineQuiet ==
  ASSUME Kept, NEW g \in Goroutines, Enter(g) \/ Inside(g)
  PROVE  Quiet
<1>1. CASE Enter(g)
  BY <1>1 DEF Enter, InitCall, CallRefused, SelfStart, Call, Begin, EndTest, EndIgnored, Quiet,
     vars, hist, srvvars
<1>2. CASE InitBuild(g)
  BY <1>2 DEF InitBuild, Kept, Unmade, Quiet, hist, srvvars
<1>3. CASE \/ OnceEnter(g) \/ OnceReturn(g) \/ InitComplete(g) \/ InitGo(g)
           \/ EndMark(g) \/ EndRefused(g) \/ EndSubmit(g)
           \/ SelfSample(g) \/ SelfAbort(g) \/ SelfDone(g) \/ CallReturn(g)
  BY <1>3 DEF OnceEnter, OnceReturn, InitComplete, InitGo, EndMark, EndRefused, EndSubmit,
     SelfSample, SelfAbort, SelfDone, CallReturn, Quiet, hist, srvvars
<1> QED
  BY <1>1, <1>2, <1>3 DEF Inside

LEMMA SendDrain ==
  ASSUME IInv, Kept, OnePlace, Drain, NEW g \in Goroutines, Send(g)
  PROVE  Drain'
<1> DEFINE m == go[g].out
           n == Len(outer) + 1
<1>1. /\ outer \in Seq(Msg) /\ m \in Msg /\ Spanless(m)
      /\ accepted \in [Spans -> Nat]
  BY DEF IInv, Typed, Goroutine, Kept, Counts
<1>2. /\ outer' = Append(outer, m) /\ UNCHANGED <<recorded, serve>>
      /\ stopped' = (stopped \/ m.ttype = "stop")
      /\ before_stop' = IF m.ttype = "stop" /\ ~stopped
                        THEN {s \in Spans : accepted[s] > 0} ELSE before_stop
      /\ \A s \in Spans : accepted'[s] = accepted[s] + IF s = m.span THEN 1 ELSE 0
  BY DEF Send, enqueue, srvvars
<1>3. /\ Len(outer') = n /\ outer'[n] = m /\ n \in Nat
      /\ \A k \in 1 .. Len(outer) : outer'[k] = outer[k] /\ k < n
      /\ \A k \in 1 .. n : k = n \/ k \in 1 .. Len(outer)
  BY <1>1, <1>2, AppendProperties
\* A span that is sent now was not sent before.
<1>4. \A s \in Spans : s = m.span => accepted[s] = 0
  BY Constants DEF OnePlace, UnderWay
<1>5. m.ttype = "stop" => m.span \notin Spans
  BY <1>1, Constants DEF Spanless
<1> HIDE DEF m, n
<1>6. m.span \notin before_stop'
  BY <1>2, <1>4, <1>5 DEF Drain
<1>7. \A s \in before_stop' : s \in Spans /\ accepted'[s] = 1
  <2>1. \A s \in before_stop' : s \in Spans /\ accepted[s] = 1
    BY <1>2, <1>1 DEF Drain, OnePlace
  <2> QED
    BY <2>1, <1>2, <1>6
<1>8. Ahead'
  <2>1. CASE m.ttype = "stop" /\ ~stopped
    <3>1. \A j \in 1 .. Len(outer) : outer[j].ttype # "stop"
      BY <2>1 DEF Drain
    <3> QED
      BY <3>1, <1>3, <1>6 DEF Ahead
  <2>2. CASE ~(m.ttype = "stop" /\ ~stopped)
    <3>1. before_stop' = before_stop
      BY <2>2, <1>2
    <3> QED
      BY <3>1, <1>3, <1>6 DEF Drain, Ahead
  <2> QED
    BY <2>1, <2>2
<1>9. ~stopped' => /\ before_stop' = {} /\ serve' \notin {"returning", "done"}
                   /\ \A j \in 1 .. Len(outer') : outer'[j].ttype # "stop"
  BY <1>2, <1>3 DEF Drain
<1>10. serve' \in {"returning", "done"} => \A s \in before_stop' : recorded'[s] = 1
  BY <1>2 DEF Drain
<1> QED
  BY <1>7, <1>8, <1>9, <1>10 DEF Drain

LEMMA ServeDrain ==
  ASSUME IInv, Kept, Drain, Serve
  PROVE  Drain'
<1>1. UNCHANGED <<accepted, stopped, before_stop>>
  BY DEF Serve, ServeStart, ServeSample, ServeValues, ServeReport, ReportFail, ReportDone,
         ServeBenchmarks, BenchmarkSample, BenchmarksDone, ServeStop, ServeFinish, hist
<1>2. CASE ServeStart \/ ServeFinish \/ ReportFail \/ ReportDone \/ BenchmarkSample \/ BenchmarksDone
  <2>1. Quiet
    BY <1>2 DEF ServeStart, ServeFinish, ReportFail, ReportDone, BenchmarkSample, BenchmarksDone,
       back_to_select, after_and_update, Quiet, hist
  <2> QED
    BY <2>1, QuietDrain
<1>3. CASE \/ ServeSample \/ ServeValues \/ ServeReport \/ ServeBenchmarks \/ ServeStop
  <2>1. outer \in Seq(Msg) /\ outer # << >> /\ outer' = Tail(outer) /\ serve = "select"
    BY <1>3 DEF ServeSample, ServeValues, ServeReport, ServeBenchmarks, ServeStop, receive,
       IInv, Typed
  <2>2. /\ Len(outer) \in Nat /\ 1 \in 1 .. Len(outer) /\ Head(outer) = outer[1]
        /\ \A k \in 1 .. Len(outer') : k + 1 \in 1 .. Len(outer) /\ outer'[k] = outer[k + 1]
        /\ Len(outer') \in Nat
    BY <2>1, HeadTailProperties
  <2>3. Ahead'
    <3> SUFFICES ASSUME NEW i \in 1 .. Len(outer'), NEW j \in 1 .. Len(outer'),
                        outer'[j].ttype = "stop", outer'[i].span \in before_stop
                 PROVE  i < j
      BY <1>1 DEF Ahead
    <3>1. i + 1 \in 1 .. Len(outer) /\ j + 1 \in 1 .. Len(outer) /\ i + 1 < j + 1
      BY <2>2 DEF Drain, Ahead
    <3> QED
      BY <3>1, <2>2
  <2>4. CASE serve' \notin {"returning", "done"}
    BY <2>2, <2>3, <2>4, <1>1 DEF Drain
  <2>5. CASE serve' \in {"returning", "done"}
    <3>1. Head(outer).ttype = "stop" /\ UNCHANGED recorded
      BY <1>3, <2>1, <2>5 DEF ServeSample, ServeValues, ServeReport, ServeBenchmarks, ServeStop,
         receive, srvvars, hist
    <3>2. stopped
      BY <3>1, <2>2 DEF Drain
    <3>3. ASSUME NEW s \in before_stop PROVE recorded[s] = 1
      <4>1. s \in Spans /\ accepted[s] = 1 /\ recorded[s] \in Nat
        BY DEF Drain, Kept, Counts
      <4>2. \A i \in 1 .. Len(outer) : outer[i].span # s
        BY <3>1, <2>2 DEF Drain, Ahead
      <4>3. Of(outer, For(s)) = {}
        BY <4>2 DEF Of, For
      <4>4. In(outer, For(s)) = 0
        BY <4>3, FS_EmptySet DEF In
      <4> QED
        BY <4>1, <4>4 DEF Kept, Conserved
    <3> QED
      BY <1>1, <2>3, <3>1, <3>2, <3>3 DEF Drain
  <2> QED
    BY <2>4, <2>5
<1> QED
  BY <1>2, <1>3 DEF Serve

LEMMA DrainHolds ==
  ASSUME NotShared
  PROVE  Spec => []Drain
<1>1. Init => Drain
  BY DEF Init, Drain, Ahead
<1>2. IInv /\ Kept /\ OnePlace /\ Drain /\ [Next]_vars => Drain'
  <2> SUFFICES ASSUME IInv, Kept, OnePlace, Drain, [Next]_vars PROVE Drain'
    OBVIOUS
  <2>1. CASE UNCHANGED vars
    BY <2>1 DEF vars, srvvars, hist, Drain, Ahead
  <2>2. ASSUME NEW g \in Goroutines, Enter(g) \/ Inside(g) PROVE Drain'
    BY <2>2, GoroutineQuiet, QuietDrain
  <2> QED
    BY <2>1, <2>2, SendDrain, ServeDrain DEF Next
<1> QED
  BY <1>1, <1>2, OnePlaceHolds, PTL DEF Spec

(***************************************************************************)
(* Stop overtakes nothing: when serve has finished, every sample accepted  *)
(* before the first Stop was sent has been counted, if no two goroutines   *)
(* have a pointer to one span.                                             *)
(***************************************************************************)
THEOREM StopDrainsQueue ==
  ASSUME NotShared
  PROVE  Spec => []StopDrains
<1>1. Drain => StopDrains
  BY DEF Drain, StopDrains, Serve_finished
<1> QED
  BY <1>1, DrainHolds, PTL

-------------------------------------------------------------------------------
(***************************************************************************)
(* Requests and their answers: there is one answer to each request, and    *)
(* serve never waits for room in a reply channel.                          *)
(***************************************************************************)

Answered == {"values", "report", "benchmarks"}

\* The requests of g.
Of_g(g) == {m \in Msg : m.from = g /\ m.ttype \in Answered}

one(P) == IF P THEN 1 ELSE 0

Balanced(g) ==
  In(outer, Of_g(g)) + one(current.from = g) + one(reply[g] # NoReply) = one(pc(g) = "wait")

\* Who asks is who is answered.
Addressed ==
  /\ \A g \in Goroutines : go[g].out.ttype \in Answered => go[g].out.from = g
  /\ \A k \in 1 .. Len(outer) : outer[k].ttype \in Answered => outer[k].from \in Goroutines

\* serve has a request in hand while it writes a report or runs benchmarks.
InHand ==
  IF serve \in {"report", "benchmarks"}
  THEN current \in Msg /\ current.from \in Goroutines /\ current.ttype \in Answered
  ELSE current = NoMsg

Balance ==
  /\ DOMAIN reply = Goroutines
  /\ Addressed
  /\ InHand
  /\ \A g \in Goroutines : Balanced(g)

-------------------------------------------------------------------------------
LEMMA BalanceAnswers == ASSUME IInv, Balance PROVE OneAnswerPerCall
<1>1. outer \in Seq(Msg) /\ DOMAIN outer = 1 .. Len(outer) /\ \A i \in 1 .. Len(outer) : outer[i] \in Msg
  BY DEF IInv, Typed
<1>2. \A g \in Goroutines : open_requests(g) = Of(outer, Of_g(g))
  BY <1>1, Zenon DEF open_requests, Of, Of_g, Answered
<1> QED
  BY <1>2 DEF OneAnswerPerCall, Balance, Balanced, In, one

LEMMA InitBalance == Init => Balance
<1> SUFFICES ASSUME Init PROVE Balance
  OBVIOUS
<1>1. /\ outer = << >> /\ current = NoMsg /\ serve = "absent"
      /\ reply = [g \in Goroutines |-> NoReply]
      /\ \A g \in Goroutines : go[g] = AtRest
  BY DEF Init
<1>2. NoMsg.ttype = "none" /\ NoMsg.from = None
  BY DEF NoMsg, request_msg
<1>3. \A g \in Goroutines : In(outer, Of_g(g)) = 0
  BY <1>1, InEmpty
<1>4. \A g \in Goroutines : Balanced(g)
  BY <1>1, <1>2, <1>3, Constants DEF Balanced, one, pc, AtRest
<1>5. Addressed
  BY <1>1, <1>2 DEF Addressed, AtRest, Answered
<1> QED
  BY <1>1, <1>4, <1>5 DEF Balance, InHand

-------------------------------------------------------------------------------
(***************************************************************************)
(* Steps of a goroutine outside of Send and CallReturn.                    *)
(***************************************************************************)
Silent(g) ==
  /\ \A h \in Goroutines \ {g} : go'[h] = go[h]
  /\ go'[g].out.ttype \in Answered => go'[g].out.from = g
  /\ go[g].pc # "wait" /\ go'[g].pc # "wait"
  /\ UNCHANGED <<outer, current, reply>>
  /\ (serve' = serve) \/ (serve = "absent" /\ serve' = "start")

LEMMA SilentBalance ==
  ASSUME Balance, NEW g \in Goroutines, Silent(g)
  PROVE  Balance'
<1>1. UNCHANGED <<outer, current, reply>>
  BY DEF Silent
<1>2. Addressed' /\ InHand'
  BY <1>1 DEF Balance, Addressed, InHand, Silent
<1>3. \A h \in Goroutines : Balanced(h)'
  BY <1>1 DEF Balance, Balanced, Silent, pc
<1> QED
  BY <1>1, <1>2, <1>3 DEF Balance

LEMMA EnterBalance ==
  ASSUME IInv, Balance, NEW g \in Goroutines, Enter(g)
  PROVE  Balance'
<1> USE DEF pc, srvvars, May_call, Free
<1>1. /\ go \in [Goroutines -> Goroutine]
      /\ go[g].out.ttype \in Answered => go[g].out.from = g
  BY DEF IInv, Typed, Balance, Addressed
<1>2. CASE InitCall(g)
  <2>1. Silent(g)
    BY <1>1, <1>2 DEF InitCall, Silent, Goroutine
  <2> QED
    BY <2>1, SilentBalance
<1>3. CASE CallRefused(g)
  <2>1. Silent(g)
    BY <1>1, <1>3 DEF CallRefused, Silent, Goroutine
  <2> QED
    BY <2>1, SilentBalance
<1>4. ASSUME NEW n \in SelfCounts, SelfStart(g, n) PROVE Balance'
  <2>1. Silent(g)
    BY <1>1, <1>4 DEF SelfStart, Silent, Goroutine
  <2> QED
    BY <2>1, SilentBalance
<1>5. ASSUME NEW r \in Requests, NEW k \in Keys, Call(g, r, k) PROVE Balance'
  <2>1. request_msg(g, r, k).from = g
    BY DEF request_msg
  <2>2. Silent(g)
    BY <1>1, <1>5, <2>1 DEF Call, Silent, Goroutine
  <2> QED
    BY <2>2, SilentBalance
<1>6. ASSUME NEW s \in Spans, NEW b \in Begins, Begin(g, s, b[1], b[2]) PROVE Balance'
  <2>1. Silent(g)
    BY <1>1, <1>6 DEF Begin, Silent
  <2> QED
    BY <2>1, SilentBalance
<1>7. ASSUME NEW s \in Spans, NEW w \in EndVariants, EndTest(g, s, w) PROVE Balance'
  <2>1. Silent(g)
    BY <1>1, <1>7 DEF EndTest, Silent, Goroutine
  <2> QED
    BY <2>1, SilentBalance
<1>8. ASSUME NEW s \in Spans, EndIgnored(g, s) PROVE Balance'
  <2>1. Silent(g)
    BY <1>1, <1>8 DEF EndIgnored, vars, Silent
  <2> QED
    BY <2>1, SilentBalance
<1> QED
  <2>1. \A r \in Requests : keys_asked(r) \subseteq Keys
    BY Constants, NameIsKey DEF keys_asked
  <2> QED
    BY <1>2, <1>3, <1>4, <1>5, <1>6, <1>7, <1>8, <2>1 DEF Enter

LEMMA InsideBalance ==
  ASSUME IInv, Kept, Balance, NEW g \in Goroutines, Inside(g)
  PROVE  Balance'
<1> USE DEF pc, goto, srvvars
<1>1. /\ go \in [Goroutines -> Goroutine]
      /\ go[g].out.ttype \in Answered => go[g].out.from = g
  BY DEF IInv, Typed, Balance, Addressed
<1>2. CASE OnceEnter(g) \/ OnceReturn(g) \/ InitComplete(g)
  <2>1. /\ go[g].pc # "wait" /\ UNCHANGED <<outer, serve, current, reply>>
        /\ \E label : label # "wait" /\ go' = [go EXCEPT ![g].pc = label]
    BY <1>2 DEF OnceEnter, OnceReturn, InitComplete
  <2>2. Silent(g)
    BY <1>1, <2>1 DEF Silent, Goroutine
  <2> QED
    BY <2>2, SilentBalance
<1>3. CASE InitBuild(g)
  <2>1. UNCHANGED outer
    BY <1>3 DEF InitBuild, Kept, Unmade
  <2>2. Silent(g)
    BY <1>1, <1>3, <2>1 DEF InitBuild, Silent, Goroutine
  <2> QED
    BY <2>2, SilentBalance
<1>4. CASE InitGo(g)
  <2>1. serve = "absent"
    BY <1>4 DEF InitGo, IInv, InitOnce, InitLabels
  <2>2. Silent(g)
    BY <1>1, <1>4, <2>1 DEF InitGo, Silent, Goroutine
  <2> QED
    BY <2>2, SilentBalance
<1>5. CASE EndMark(g)
  <2>1. Silent(g)
    BY <1>1, <1>5 DEF EndMark, Silent, Goroutine
  <2> QED
    BY <2>1, SilentBalance
<1>6. CASE EndRefused(g) \/ SelfAbort(g) \/ SelfDone(g)
  <2>1. Silent(g)
    BY <1>1, <1>6 DEF EndRefused, SelfAbort, SelfDone, Silent, Goroutine
  <2> QED
    BY <2>1, SilentBalance
<1>7. CASE EndSubmit(g)
  <2> DEFINE m(d) == sample_msg(g, ssu[go[g].handle].Name, ssu[go[g].handle].Variant, d, go[g].handle)
  <2>1. /\ \E d \in Durs : go' = [go EXCEPT ![g].pc = "send", ![g].handle = None, ![g].out = m(d)]
        /\ \A d : m(d).from = g
    BY <1>7 DEF EndSubmit, sample_msg
  <2> HIDE DEF m
  <2>2. Silent(g)
    BY <1>1, <1>7, <2>1 DEF EndSubmit, Silent, Goroutine
  <2> QED
    BY <2>2, SilentBalance
<1>8. CASE SelfSample(g)
  <2> DEFINE m(d) == sample_msg(g, OVERHEAD_SPAN, no_variant, d, None)
  <2>1. /\ \E d \in Durs : go' = [go EXCEPT ![g].pc = "send", ![g].left = @ - 1,
                                            ![g].chan = comm_outer, ![g].out = m(d)]
        /\ \A d : m(d).from = g
    BY <1>8 DEF SelfSample, sample_msg
  <2> HIDE DEF m
  <2>2. Silent(g)
    BY <1>1, <1>8, <2>1 DEF SelfSample, Silent, Goroutine
  <2> QED
    BY <2>2, SilentBalance
<1>9. CASE CallReturn(g)
  <2>1. /\ go[g].pc = "wait" /\ go'[g].pc = "idle" /\ go'[g].out = go[g].out
        /\ \A h \in Goroutines \ {g} : go'[h] = go[h] /\ reply'[h] = reply[h]
        /\ reply[g] # NoReply /\ reply'[g] = NoReply /\ DOMAIN reply' = Goroutines
        /\ UNCHANGED <<outer, serve, current>>
    BY <1>1, <1>9 DEF CallReturn, Goroutine, Balance
  <2>2. In(outer, Of_g(g)) \in Nat
    BY OfFinite DEF IInv, Typed
  <2>3. \A h \in Goroutines : Balanced(h)'
    BY <2>1, <2>2 DEF Balance, Balanced, one
  <2> QED
    BY <2>1, <2>3 DEF Balance, Addressed, InHand
<1> QED
  BY <1>2, <1>3, <1>4, <1>5, <1>6, <1>7, <1>8, <1>9 DEF Inside

\* A request in the channel, and its sender waits.
LEMMA SendBalance ==
  ASSUME IInv, Balance, NEW g \in Goroutines, Send(g)
  PROVE  Balance'
<1> USE DEF pc
<1> DEFINE m == go[g].out
<1>1. /\ go \in [Goroutines -> Goroutine] /\ outer \in Seq(Msg) /\ m \in Msg
      /\ m.ttype \in Answered => m.from = g
  BY DEF IInv, Typed, Goroutine, Balance, Addressed
<1>2. outer' = Append(outer, m) /\ UNCHANGED <<serve, current, reply>> /\ go[g].pc = "send"
  BY DEF Send, enqueue, srvvars
<1>3. /\ go'[g].out = NoMsg /\ go'[g].pc = after_send(m)
      /\ \A h \in Goroutines \ {g} : go'[h] = go[h]
  BY <1>1 DEF Send, Goroutine
<1> HIDE DEF m
<1>4. one(go'[g].pc = "wait") = IF m \in Of_g(g) THEN 1 ELSE 0
  BY <1>1, <1>3 DEF after_send, Of_g, Answered, one
<1>5. \A h \in Goroutines \ {g} : m \notin Of_g(h)
  BY <1>1 DEF Of_g
<1>6. \A h \in Goroutines : /\ In(outer', Of_g(h)) = In(outer, Of_g(h)) + (IF m \in Of_g(h) THEN 1 ELSE 0)
                            /\ In(outer, Of_g(h)) \in Nat
  BY <1>1, <1>2, InAppend, OfFinite
<1>7. Balanced(g)'
  <2>1. In(outer, Of_g(g)) + one(current.from = g) + one(reply[g] # NoReply) = 0
    BY <1>2 DEF Balance, Balanced, one
  <2>2. one(current.from = g) \in Nat /\ one(reply[g] # NoReply) \in Nat
    BY DEF one
  <2> QED
    BY <2>1, <2>2, <1>2, <1>4, <1>6 DEF Balanced
<1>8. \A h \in Goroutines \ {g} : Balanced(h)'
  <2>1. \A h \in Goroutines \ {g} : In(outer', Of_g(h)) = In(outer, Of_g(h))
    BY <1>5, <1>6
  <2> QED
    BY <2>1, <1>2, <1>3 DEF Balance, Balanced
<1>9. Addressed'
  <2>1. \A k \in 1 .. Len(outer') : outer'[k] = m \/ (k \in 1 .. Len(outer) /\ outer'[k] = outer[k])
    BY <1>1, <1>2, AppendProperties
  <2>2. NoMsg.ttype \notin Answered
    BY DEF NoMsg, request_msg, Answered
  <2> QED
    BY <1>1, <1>3, <2>1, <2>2 DEF Balance, Addressed
<1> QED
  BY <1>2, <1>7, <1>8, <1>9 DEF Balance, InHand

-------------------------------------------------------------------------------
(***************************************************************************)
(* Steps of serve.                                                         *)
(***************************************************************************)
\* What it means for the requests that serve takes the head of the queue.
LEMMA Taken ==
  ASSUME IInv, Balance, NEW t, receive(t), UNCHANGED go
  PROVE  /\ Addressed'
         /\ Head(outer) \in Msg /\ Head(outer).ttype = t
         /\ t \in Answered => Head(outer).from \in Goroutines
         /\ \A h \in Goroutines :
              /\ In(outer', Of_g(h)) \in Nat
              /\ In(outer, Of_g(h)) = In(outer', Of_g(h)) + one(t \in Answered /\ Head(outer).from = h)
         /\ serve = "select" /\ current = NoMsg
<1>1. outer \in Seq(Msg) /\ outer # << >> /\ outer' = Tail(outer) /\ Head(outer).ttype = t
  BY DEF IInv, Typed, receive
<1>2. /\ Head(outer) = outer[1] /\ 1 \in 1 .. Len(outer) /\ Head(outer) \in Msg
      /\ outer' \in Seq(Msg)
      /\ \A k \in 1 .. Len(outer') : k + 1 \in 1 .. Len(outer) /\ outer'[k] = outer[k + 1]
  BY <1>1, HeadTailProperties
<1>3. Addressed'
  BY <1>2 DEF Balance, Addressed
<1>4. t \in Answered => Head(outer).from \in Goroutines
  BY <1>1, <1>2 DEF Balance, Addressed
<1>5. ASSUME NEW h \in Goroutines
      PROVE  /\ In(outer', Of_g(h)) \in Nat
             /\ In(outer, Of_g(h)) = In(outer', Of_g(h)) + one(t \in Answered /\ Head(outer).from = h)
  <2>1. Head(outer) \in Of_g(h) <=> t \in Answered /\ Head(outer).from = h
    BY <1>1, <1>2 DEF Of_g
  <2>2. In(outer, Of_g(h)) = In(Tail(outer), Of_g(h)) + (IF Head(outer) \in Of_g(h) THEN 1 ELSE 0)
    BY <1>1, InTail
  <2>3. In(outer', Of_g(h)) \in Nat
    BY <1>2, OfFinite
  <2> QED
    BY <2>1, <2>2, <2>3, <1>1 DEF one
<1>6. serve = "select" /\ current = NoMsg
  BY DEF receive, Balance, InHand
<1> QED
  BY <1>1, <1>2, <1>3, <1>4, <1>5, <1>6

\* An answer for m, which was in the queue or in hand.
LEMMA Answering ==
  ASSUME DOMAIN reply = Goroutines, NEW m \in Msg, m.from \in Goroutines, m.ttype \in Answered,
         NEW entry, NEW rows, answer(m, entry, rows)
  PROVE  /\ DOMAIN reply' = Goroutines
         /\ \A h \in Goroutines : one(reply'[h] # NoReply) = one(reply[h] # NoReply) + one(m.from = h)
<1> DEFINE r == [ttype |-> m.ttype, key |-> m.name, entry |-> entry, rows |-> rows]
<1>1. reply' = [reply EXCEPT ![m.from] = r] /\ reply[m.from] = NoReply
  BY DEF answer
<1>2. r.ttype # "none" /\ NoReply.ttype = "none"
  BY DEF NoReply, Answered
<1> HIDE DEF r
<1>3. r # NoReply
  BY <1>2
<1> QED
  BY <1>1, <1>3 DEF one

LEMMA ServeBalance ==
  ASSUME IInv, Balance, Serve
  PROVE  Balance'
<1> DEFINE m == Head(outer)
<1>1. UNCHANGED go /\ outer \in Seq(Msg)
  BY DEF Serve, ServeStart, ServeSample, ServeValues, ServeReport, ReportFail, ReportDone,
         ServeBenchmarks, BenchmarkSample, BenchmarksDone, ServeStop, ServeFinish, IInv, Typed
<1>2. NoMsg.from \notin Goroutines
  BY Constants DEF NoMsg, request_msg
<1>3. \A P : one(P) \in Nat
  BY DEF one
<1>4. \A h \in Goroutines : In(outer, Of_g(h)) \in Nat
  BY <1>1, OfFinite
<1>5. CASE ServeStart \/ ServeFinish \/ BenchmarkSample
  <2>1. UNCHANGED <<outer, current, reply>>
    BY <1>5 DEF ServeStart, ServeFinish, BenchmarkSample, after_and_update
  <2>2. InHand'
    BY <1>5, <2>1 DEF ServeStart, ServeFinish, BenchmarkSample, Balance, InHand
  <2> QED
    BY <1>1, <2>1, <2>2 DEF Balance, Balanced, Addressed, pc
<1>6. CASE ServeSample \/ ServeStop
  <2>1. /\ receive("A") \/ receive("stop")
        /\ UNCHANGED <<current, reply>>
        /\ serve' \notin {"report", "benchmarks"}
    BY <1>6 DEF ServeSample, ServeStop, receive, srvvars, leave_serve
  <2>2. /\ Addressed' /\ current = NoMsg
        /\ \A h \in Goroutines : In(outer', Of_g(h)) = In(outer, Of_g(h))
    <3>1. "A" \notin Answered /\ "stop" \notin Answered
      BY DEF Answered
    <3> QED
      BY <1>1, <1>4, <2>1, <3>1, Taken DEF one
  <2> QED
    BY <1>1, <2>1, <2>2 DEF Balance, Balanced, InHand, pc
<1>7. CASE ServeValues
  <2>1. /\ receive("values") /\ UNCHANGED <<serve, current>>
        /\ \E entry, rows : answer(m, entry, rows)
    BY <1>7 DEF ServeValues, srvvars
  <2>2. "values" \in Answered
    BY DEF Answered
  <2>3. /\ Addressed' /\ current = NoMsg /\ serve = "select"
        /\ m \in Msg /\ m.from \in Goroutines /\ m.ttype \in Answered
        /\ \A h \in Goroutines : /\ In(outer', Of_g(h)) \in Nat
                                 /\ In(outer, Of_g(h)) = In(outer', Of_g(h)) + one(m.from = h)
    BY <1>1, <2>1, <2>2, Taken
  <2> HIDE DEF m
  <2>4. /\ DOMAIN reply' = Goroutines
        /\ \A h \in Goroutines : one(reply'[h] # NoReply) = one(reply[h] # NoReply) + one(m.from = h)
    BY <2>1, <2>3, Answering DEF Balance
  <2>5. \A h \in Goroutines : Balanced(h)'
    BY <1>1, <1>3, <2>1, <2>3, <2>4 DEF Balance, Balanced, pc
  <2> QED
    BY <2>1, <2>3, <2>4, <2>5 DEF Balance, InHand
<1>8. CASE ServeReport \/ ServeBenchmarks
  <2>1. /\ receive("report") \/ receive("benchmarks")
        /\ current' = m /\ serve' \in {"report", "benchmarks"} /\ UNCHANGED reply
    BY <1>8 DEF ServeReport, ServeBenchmarks
  <2>2. "report" \in Answered /\ "benchmarks" \in Answered
    BY DEF Answered
  <2>3. /\ Addressed' /\ current = NoMsg
        /\ m \in Msg /\ m.from \in Goroutines /\ m.ttype \in Answered
        /\ \A h \in Goroutines : /\ In(outer', Of_g(h)) \in Nat
                                 /\ In(outer, Of_g(h)) = In(outer', Of_g(h)) + one(m.from = h)
    BY <1>1, <2>1, <2>2, Taken
  <2> HIDE DEF m
  <2>4. \A h \in Goroutines : one(current.from = h) = 0
    BY <1>2, <2>3 DEF one
  <2>5. \A h \in Goroutines : Balanced(h)'
    <3> SUFFICES ASSUME NEW h \in Goroutines PROVE Balanced(h)'
      OBVIOUS
    <3>1. Balanced(h) /\ one(current.from = h) = 0
      BY <2>4 DEF Balance
    <3>2. /\ one(current'.from = h) = one(m.from = h)
          /\ one(reply'[h] # NoReply) = one(reply[h] # NoReply)
          /\ one(pc(h)' = "wait") = one(pc(h) = "wait")
      BY <1>1, <2>1 DEF pc
    <3>3. one(m.from = h) \in Nat /\ one(reply[h] # NoReply) \in Nat
      BY DEF one
    <3> QED
      BY <2>3, <3>1, <3>2, <3>3 DEF Balanced
  <2> QED
    BY <2>1, <2>3, <2>5 DEF Balance, InHand
<1>9. CASE ReportFail \/ ReportDone \/ BenchmarksDone
  <2>1. /\ serve \in {"report", "benchmarks"} /\ serve' = "select" /\ current' = NoMsg
        /\ UNCHANGED outer
        /\ \E entry, rows : answer(current, entry, rows)
    BY <1>9 DEF ReportFail, ReportDone, BenchmarksDone, back_to_select, after_and_update
  <2>2. current \in Msg /\ current.from \in Goroutines /\ current.ttype \in Answered
    BY <2>1 DEF Balance, InHand
  <2>3. /\ DOMAIN reply' = Goroutines
        /\ \A h \in Goroutines :
             one(reply'[h] # NoReply) = one(reply[h] # NoReply) + one(current.from = h)
    BY <2>1, <2>2, Answering DEF Balance
  <2>4. \A h \in Goroutines : one(current'.from = h) = 0
    BY <1>2, <2>1 DEF one
  <2>5. \A h \in Goroutines : Balanced(h)'
    BY <1>1, <1>3, <1>4, <2>1, <2>3, <2>4 DEF Balance, Balanced, pc
  <2> QED
    BY <1>1, <2>1, <2>3, <2>5 DEF Balance, InHand, Addressed
<1> QED
  BY <1>5, <1>6, <1>7, <1>8, <1>9 DEF Serve

LEMMA BalanceHolds ==
  ASSUME VariantsJoin
  PROVE  Spec => [](IInv /\ Kept /\ Balance)
<1>1. IInv /\ Kept /\ Balance /\ [Next]_vars => Balance'
  <2> SUFFICES ASSUME IInv, Kept, Balance, [Next]_vars PROVE Balance'
    OBVIOUS
  <2>1. CASE UNCHANGED vars
    BY <2>1 DEF vars, srvvars, Balance, Balanced, Addressed, InHand, pc
  <2> QED
    BY <2>1, EnterBalance, InsideBalance, SendBalance, ServeBalance DEF Next
<1> QED
  BY <1>1, InitBalance, KeptHolds, PTL DEF Spec

(***************************************************************************)
(* Every request is answered once and by nobody but serve: as long as a    *)
(* call of Values, Report or Benchmarks waits, its request is in the queue *)
(* or in hand, or its answer is ready.  So the reply channel is empty when *)
(* serve comes to answer, and serve never blocks on one.                   *)
(***************************************************************************)
THEOREM AnsweredOnce ==
  ASSUME VariantsJoin
  PROVE  Spec => []OneAnswerPerCall
BY BalanceHolds, BalanceAnswers, PTL

-------------------------------------------------------------------------------
(***************************************************************************)
(* What the flags of self-sampling say.  They are plain package variables  *)
(* that every call of Latency_measure_self_sample resets and sets, so they *)
(* mean something only if the calls come from one goroutine: with two, the *)
(* one that is through sets the flag while the other goes on.              *)
(***************************************************************************)
\* While a goroutine samples, nobody has set the flag since it started.
Unfinished ==
  \A g \in Goroutines : sampling(g) => g \in Samplers /\ ~Overhead_samples_finished

\* A step that leaves the flag alone and starts nobody's sampling.
LEMMA UnfinishedStep ==
  ASSUME Unfinished, UNCHANGED Overhead_samples_finished,
         \A h \in Goroutines : sampling(h)' => sampling(h)
  PROVE  Unfinished'
BY DEF Unfinished

LEMMA EnterUnfinished ==
  ASSUME IInv, Unfinished, NEW g \in Goroutines, Enter(g)
  PROVE  Unfinished'
<1> USE DEF pc, sampling
<1>1. go \in [Goroutines -> Goroutine]
  BY DEF IInv, Typed
<1>2. CASE \E n \in SelfCounts : g \in Samplers /\ SelfStart(g, n)
  <2>1. g \in Samplers /\ ~Overhead_samples_finished' /\ \A h \in Goroutines \ {g} : go'[h] = go[h]
    BY <1>1, <1>2 DEF SelfStart, reset_flags
  <2> QED
    BY <2>1 DEF Unfinished
<1>3. ASSUME NEW r \in Requests, NEW k, Call(g, r, k) PROVE Unfinished'
  <2>1. go'[g].out.ttype = r
    BY <1>1, <1>3 DEF Call, request_msg, Goroutine
  <2>2. go'[g].pc = "send" /\ \A h \in Goroutines \ {g} : go'[h] = go[h]
    BY <1>1, <1>3 DEF Call, Goroutine
  <2>3. r # "A"
    BY Constants
  <2>4. \A h \in Goroutines : sampling(h)' => sampling(h)
    BY <2>1, <2>2, <2>3
  <2> QED
    BY <1>3, <2>4, UnfinishedStep DEF Call, flagvars, ohvars
<1>4. ASSUME NEW s \in Spans, NEW w \in EndVariants, EndTest(g, s, w) PROVE Unfinished'
  <2>1. go'[g].pc = "mark" /\ \A h \in Goroutines \ {g} : go'[h] = go[h]
    BY <1>1, <1>4 DEF EndTest, Goroutine
  <2> QED
    BY <1>4, <2>1, UnfinishedStep DEF EndTest, flagvars, ohvars
<1>5. CASE InitCall(g) \/ CallRefused(g)
  <2>1. go'[g].pc \in {"once", "idle"} /\ \A h \in Goroutines \ {g} : go'[h] = go[h]
    BY <1>1, <1>5 DEF InitCall, CallRefused, May_call, Free, Goroutine
  <2>2. UNCHANGED Overhead_samples_finished
    BY <1>5 DEF InitCall, CallRefused, flagvars, ohvars
  <2> QED
    BY <2>1, <2>2, UnfinishedStep
<1>6. ASSUME NEW s \in Spans, EndIgnored(g, s) \/ \E b \in Begins : Begin(g, s, b[1], b[2])
      PROVE  Unfinished'
  BY <1>6, UnfinishedStep DEF EndIgnored, Begin, vars, flagvars, ohvars
<1> QED
  BY <1>2, <1>3, <1>4, <1>5, <1>6 DEF Enter

LEMMA InsideUnfinished ==
  ASSUME OneSampler, IInv, Unfinished, NEW g \in Goroutines, Inside(g) \/ Send(g)
  PROVE  Unfinished'
<1> USE DEF pc, sampling, goto
<1>1. go \in [Goroutines -> Goroutine] /\ (pc(g) = "check" => go[g].handle \in Spans)
  BY DEF IInv, Typed, EndsOK
<1>2. \A h \in Goroutines \ {g} : go'[h] = go[h]
  <2>1. CASE EndSubmit(g)
    BY <1>1, <2>1 DEF EndSubmit
  <2>2. CASE SelfSample(g)
    BY <1>1, <2>2 DEF SelfSample
  <2> QED
    BY <1>1, <2>1, <2>2 DEF Inside, OnceEnter, OnceReturn, InitBuild, InitComplete, InitGo, EndMark,
       EndRefused, SelfAbort, SelfDone, CallReturn, Send
\* The sampler has the flags to itself when it sets them.
<1>3. CASE SelfAbort(g) \/ SelfDone(g)
  <2>1. pc(g) = "self" /\ go'[g].pc = "idle"
    BY <1>1, <1>3 DEF SelfAbort, SelfDone, Goroutine
  <2>2. g \in Samplers
    BY <2>1 DEF Unfinished
  <2>3. \A h \in Goroutines : ~sampling(h)'
    BY <1>2, <2>1, <2>2 DEF Unfinished, OneSampler
  <2> QED
    BY <2>3 DEF Unfinished
\* A sample that carries a span, and a request, are not samples of its own.
<1>4. CASE EndSubmit(g)
  <2>1. go[g].handle \in Spans /\ go[g].handle # None
    BY <1>1, <1>4, Constants DEF EndSubmit
  <2>2. go'[g].pc = "send" /\ go'[g].out.span = go[g].handle
    BY <1>1, <1>4 DEF EndSubmit, sample_msg, Goroutine
  <2> QED
    BY <1>2, <1>4, <2>1, <2>2, UnfinishedStep DEF EndSubmit, flagvars, ohvars
<1>5. CASE Send(g)
  <2>1. go'[g].pc = after_send(go[g].out)
    BY <1>1, <1>5 DEF Send, Goroutine
  <2>2. go'[g].pc # "send" /\ (go'[g].pc = "self" => sampling(g))
    BY <1>5, <2>1 DEF after_send, Send
  <2> QED
    BY <1>2, <1>5, <2>2, UnfinishedStep DEF Send, flagvars, ohvars
<1>6. CASE SelfSample(g)
  BY <1>2, <1>6, UnfinishedStep DEF SelfSample, flagvars, ohvars
<1>7. CASE \/ OnceEnter(g) \/ OnceReturn(g) \/ InitBuild(g) \/ InitComplete(g) \/ InitGo(g)
           \/ EndMark(g) \/ EndRefused(g) \/ CallReturn(g)
  <2>1. go'[g].pc \in {"init_inner", "idle", "init_built", "init_go", "check"}
    BY <1>1, <1>7 DEF OnceEnter, OnceReturn, InitBuild, InitComplete, InitGo, EndMark, EndRefused,
       CallReturn, Goroutine
  <2>2. UNCHANGED Overhead_samples_finished
    BY <1>7 DEF OnceEnter, OnceReturn, InitBuild, InitComplete, InitGo, EndMark, EndRefused,
       CallReturn, flagvars, ohvars
  <2> QED
    BY <1>2, <2>1, <2>2, UnfinishedStep
<1> QED
  BY <1>3, <1>4, <1>5, <1>6, <1>7 DEF Inside

(***************************************************************************)
(* If only one goroutine calls Latency_measure_self_sample, the flags      *)
(* "finished" and "not aborted" mean what Overhead takes them to mean:     *)
(* nobody is still sampling.                                               *)
(***************************************************************************)
THEOREM FlagsTellTheTruth ==
  ASSUME VariantsJoin, OneSampler
  PROVE  Spec => []FlagsMeanAllSampled
<1>1. Init => Unfinished
  BY DEF Init, Unfinished, sampling, pc, AtRest
<1>2. IInv /\ Unfinished /\ [Next]_vars => Unfinished'
  <2> SUFFICES ASSUME IInv, Unfinished, [Next]_vars PROVE Unfinished'
    OBVIOUS
  <2>1. CASE UNCHANGED vars \/ Serve
    <3>1. UNCHANGED <<go, Overhead_samples_finished>>
      BY <2>1 DEF vars, flagvars, ohvars, Serve, ServeStart, ServeSample, ServeValues, ServeReport,
         ReportFail, ReportDone, ServeBenchmarks, BenchmarkSample, BenchmarksDone, ServeStop,
         ServeFinish
    <3> QED
      BY <3>1 DEF Unfinished, sampling, pc
  <2> QED
    BY <2>1, EnterUnfinished, InsideUnfinished DEF Next
<1>3. Unfinished => FlagsMeanAllSampled
  BY DEF Unfinished, FlagsMeanAllSampled
<1>4. Spec => []IInv
  BY IInvHolds
<1> QED
  BY <1>1, <1>2, <1>3, <1>4, PTL DEF Spec

-------------------------------------------------------------------------------
(***************************************************************************)
(* What the refinement is good for: the statistics of a program with any   *)
(* number of goroutines have every property that RegistryProofs proves of  *)
(* the sequential registry.  Type correctness of LatLearn comes with it.   *)
(***************************************************************************)
\* The registry and its theorems, over the variables of LatLearn.
RP == INSTANCE RegistryProofs

(***************************************************************************)
(* Reg and RP are two instances of one module.  The prover takes their     *)
(* definitions for different ones until it is shown that they agree.       *)
(***************************************************************************)
LEMMA SameRows ==
  /\ RP!Int64 = Reg!Int64
  /\ RP!Keys = Reg!Keys
  /\ RP!Learner = Reg!Learner
  /\ RP!NoLearner = Reg!NoLearner
  /\ \A n, v : RP!span_key_form(n, v) = Reg!span_key_form(n, v)
  /\ \A kind : RP!fresh(kind) = Reg!fresh(kind)
  /\ \A L, k : RP!found(L, k) <=> Reg!found(L, k)
  /\ \A s : RP!Range(s) = Reg!Range(s)
<1>1. RP!Int64 = Reg!Int64
  BY DEF RP!Int64, Reg!Int64, RP!MinInt64, Reg!MinInt64
<1>2. \A n, v : RP!span_key_form(n, v) = Reg!span_key_form(n, v)
  BY DEF RP!span_key_form, Reg!span_key_form
<1>3. RP!Keys = Reg!Keys
  BY <1>2 DEF RP!Keys, Reg!Keys
<1>4. RP!Learner = Reg!Learner
  BY <1>1 DEF RP!Learner, Reg!Learner
<1>5. \A kind : RP!fresh(kind) = Reg!fresh(kind)
  BY DEF RP!fresh, Reg!fresh
<1>6. RP!NoLearner = Reg!NoLearner
  BY <1>5 DEF RP!NoLearner, Reg!NoLearner
<1>7. \A s : RP!Range(s) = Reg!Range(s)
  BY DEF RP!Range, Reg!Range
<1>8. \A L, k : RP!found(L, k) <=> Reg!found(L, k)
  BY DEF RP!found, Reg!found
<1> QED BY <1>1, <1>2, <1>3, <1>4, <1>5, <1>6, <1>7, <1>8

LEMMA SameConstants == MaxInt64 \in Nat \ {0} /\ RP!ConstantsOK
BY SameRows, LatLearnAssumption DEF RP!ConstantsOK, Reg!ConstantsOK

LEMMA SameSample ==
  ASSUME NEW n, NEW v, NEW d, Reg!handle_ssu_A(n, v, d)
  PROVE  RP!handle_ssu_A(n, v, d)
<1>1. \A a, b : RP!add64(a, b) = Reg!add64(a, b)
  BY DEF RP!add64, Reg!add64, RP!Modulus, Reg!Modulus, RP!MinInt64, Reg!MinInt64
<1>2. \A ll, dur : RP!after2(ll, dur) = Reg!after2(ll, dur)
  BY <1>1 DEF RP!after2, Reg!after2
<1>3. \A L, k, kind : RP!ensure(L, k, kind) = Reg!ensure(L, k, kind)
  BY SameRows DEF RP!ensure, Reg!ensure
<1>4. \A T, L, k : RP!track(T, L, k) = Reg!track(T, L, k)
  BY SameRows DEF RP!track, Reg!track
<1>5. \A S, L, dur : Reg!count_sample(S, L, dur) => RP!count_sample(S, L, dur)
  BY <1>2, SameRows DEF RP!count_sample, Reg!count_sample
<1>6. \A k : RP!rows(n, k) = Reg!rows(n, k)
  BY DEF RP!rows, Reg!rows
<1>7. Reg!handle_plain(n, d) => RP!handle_plain(n, d)
  BY <1>3, <1>4, <1>5 DEF RP!handle_plain, Reg!handle_plain
<1>8. \A k : Reg!handle_variant(n, k, d) => RP!handle_variant(n, k, d)
  BY <1>3, <1>4, <1>5, <1>6 DEF RP!handle_variant, Reg!handle_variant
<1>9. \A k : Reg!reject_variant(n, k) => RP!reject_variant(n, k)
  BY <1>3, <1>4 DEF RP!reject_variant, Reg!reject_variant
<1> QED
  BY <1>7, <1>8, <1>9, SameRows DEF RP!handle_ssu_A, Reg!handle_ssu_A

LEMMA SameNext == Reg!Next => RP!Next
<1>1. \A s : Reg!register(s) => RP!register(s)
  BY SameRows DEF RP!register, Reg!register
<1>2. Reg!Sample => RP!Sample
  BY SameSample DEF RP!Sample, Reg!Sample
<1> QED BY <1>1, <1>2 DEF RP!Next, Reg!Next, RP!Register, Reg!Register

LEMMA DrivesRegistry ==
  ASSUME VariantsJoin
  PROVE  Spec => RP!Spec
<1>1. Init => RP!Init
  BY SameRows DEF Init, RP!Init, Reg!Init
<1>2. IInv /\ [Next]_vars => [RP!Next]_(RP!regvars)
  <2> SUFFICES ASSUME IInv, [Next]_vars PROVE RP!Next \/ UNCHANGED RP!regvars
    BY Zenon
  <2>1. Reg!Next \/ UNCHANGED Reg!regvars
    BY NextImplements
  <2>2. UNCHANGED Reg!regvars => UNCHANGED RP!regvars
    BY DEF Reg!regvars, RP!regvars
  <2> QED BY <2>1, <2>2, SameNext
<1> QED BY <1>1, <1>2, IInvHolds, PTL DEF Spec, RP!Spec

(***************************************************************************)
(* However many goroutines submit spans, and whenever Init, Stop, reports  *)
(* and benchmarks come between: report order and map agree, a clear name's *)
(* row counts all of its family and encloses it, the numbers of each row   *)
(* fit together, and no row is ever lost or restarted.                     *)
(***************************************************************************)
THEOREM StatisticsSound ==
  ASSUME VariantsJoin
  PROVE  Spec => /\ [](/\ RP!ReportOrderSound
                       /\ RP!ClearParentCountsAll
                       /\ RP!FamilyEnclosed
                       /\ RP!RowCoherent)
                 /\ RP!RowsOnlyGrow
<1>1. RP!Spec => []RP!ReportOrderSound
  BY RP!ReportOrderAlwaysSound, SameConstants
<1>2. RP!Spec => []RP!ClearParentCountsAll
  BY RP!ParentsCountAll, SameConstants
<1>3. RP!Spec => []RP!FamilyEnclosed
  BY RP!FamiliesEnclosed, SameConstants
<1>4. RP!Spec => []RP!RowCoherent
  BY RP!RowsCoherent, SameConstants
<1>5. RP!Spec => RP!RowsOnlyGrow
  BY RP!RowsGrow, SameConstants
<1> QED BY <1>1, <1>2, <1>3, <1>4, <1>5, DrivesRegistry, PTL

-------------------------------------------------------------------------------
(***************************************************************************)
(* Type correctness, as far as it does not follow from the above.          *)
(***************************************************************************)
RegistryTyped == Reg!TypeOK

Flags ==
  /\ Overhead_samples_started \in BOOLEAN /\ Overhead_samples_finished \in BOOLEAN
  /\ Overhead_samples_aborted \in BOOLEAN
  /\ Benchmarks_started \in BOOLEAN /\ Benchmarks_finished \in BOOLEAN
  /\ init_completed \in BOOLEAN /\ init_returned \in BOOLEAN
  /\ stopped \in BOOLEAN

Places ==
  /\ init_once \in {"new", "running", "done"}
  /\ serve \in {"absent", "start", "select", "report", "benchmarks", "returning", "done"}
  /\ step \in 1 .. Len(BenchPlan) + 1
  /\ before_stop \subseteq Spans
  /\ Len(outer) <= Capacity

Replies == \A g \in Goroutines : IsReply(reply[g])

LEMMA NextFlags ==
  ASSUME Flags, [Next]_vars
  PROVE  Flags'
<1> USE DEF Flags, regvars, initvars, flagvars, ohvars, hist
<1>1. CASE UNCHANGED vars
  BY <1>1 DEF vars
<1>2. CASE Serve
  <2>1. UNCHANGED <<ohvars, init_completed, init_returned, stopped>>
    BY <1>2 DEF Serve, ServeStart, ServeSample, ServeValues, ServeReport, ReportFail, ReportDone,
           ServeBenchmarks, BenchmarkSample, BenchmarksDone, ServeStop, ServeFinish
  <2>2. Benchmarks_started' \in BOOLEAN
    <3>1. Benchmarks_started' \in {Benchmarks_started, TRUE}
      BY <1>2 DEF Serve, ServeStart, ServeSample, ServeValues, ServeReport, ReportFail, ReportDone,
           ServeBenchmarks, BenchmarkSample, BenchmarksDone, ServeStop, ServeFinish
    <3> QED BY <3>1
  <2>3. Benchmarks_finished' \in BOOLEAN
    <3>1. Benchmarks_finished' \in {Benchmarks_finished, TRUE}
      BY <1>2 DEF Serve, ServeStart, ServeSample, ServeValues, ServeReport, ReportFail, ReportDone,
           ServeBenchmarks, BenchmarkSample, BenchmarksDone, ServeStop, ServeFinish
    <3> QED BY <3>1
  <2>4. Overhead_samples_started' \in BOOLEAN /\ Overhead_samples_finished' \in BOOLEAN
        /\ Overhead_samples_aborted' \in BOOLEAN
    BY <2>1
  <2>5. init_completed' \in BOOLEAN /\ init_returned' \in BOOLEAN /\ stopped' \in BOOLEAN
    BY <2>1
  <2> QED
    BY <2>2, <2>3, <2>4, <2>5
<1>3. ASSUME NEW g \in Goroutines, Enter(g) PROVE Flags'
  <2>1. CASE \E n \in SelfCounts : SelfStart(g, n)
    BY <2>1 DEF SelfStart, reset_flags
  <2>2. UNCHANGED <<initvars, flagvars, hist>> \/ \E n \in SelfCounts : SelfStart(g, n)
    BY <1>3 DEF Enter, InitCall, CallRefused, Call, Begin, EndTest, EndIgnored, vars
  <2> QED
    BY <2>1, <2>2
<1>4. ASSUME NEW g \in Goroutines, Inside(g) PROVE Flags'
  BY <1>4 DEF Inside, OnceEnter, OnceReturn, InitBuild, InitComplete, InitGo, EndMark, EndRefused,
         EndSubmit, SelfSample, SelfAbort, SelfDone, CallReturn
<1>5. ASSUME NEW g \in Goroutines, Send(g) PROVE Flags'
  BY <1>5 DEF Send
<1> QED
  BY <1>1, <1>2, <1>3, <1>4, <1>5 DEF Next

LEMMA NextPlaces ==
  ASSUME IInv, Places, [Next]_vars
  PROVE  Places'
<1> USE DEF Places, regvars, initvars, srvvars, hist
<1>1. /\ outer \in Seq(Msg) /\ Len(outer) \in Nat /\ Len(BenchPlan) \in Nat
      /\ Capacity \in Nat
  BY LatLearnAssumption DEF IInv, Typed, Capacity
<1>2. CASE UNCHANGED vars
  BY <1>2 DEF vars
<1>3. CASE Serve
  <2>1. Len(outer') <= Len(outer)
    <3>1. outer' = outer \/ (outer # << >> /\ outer' = Tail(outer))
      BY <1>3 DEF Serve, ServeStart, ServeSample, ServeValues, ServeReport, ReportFail, ReportDone,
             ServeBenchmarks, BenchmarkSample, BenchmarksDone, ServeStop, ServeFinish, receive,
             after_and_update
    <3> QED
      BY <1>1, <3>1, HeadTailProperties
  <2>2. step' \in 1 .. Len(BenchPlan) + 1
    BY <1>1, <1>3 DEF Serve, ServeStart, ServeSample, ServeValues, ServeReport, ReportFail,
           ReportDone, ServeBenchmarks, BenchmarkSample, BenchmarksDone, ServeStop, ServeFinish,
           back_to_select
  <2>3. serve' \in {"absent", "start", "select", "report", "benchmarks", "returning", "done"}
    BY <1>3 DEF Serve, ServeStart, ServeSample, ServeValues, ServeReport, ReportFail,
           ReportDone, ServeBenchmarks, BenchmarkSample, BenchmarksDone, ServeStop, ServeFinish,
           back_to_select, leave_serve
  <2>4. UNCHANGED <<init_once, before_stop>>
    BY <1>3 DEF Serve, ServeStart, ServeSample, ServeValues, ServeReport, ReportFail,
           ReportDone, ServeBenchmarks, BenchmarkSample, BenchmarksDone, ServeStop, ServeFinish
  <2>5. Len(outer') \in Nat
    BY <1>3, ServeIInv DEF IInv, Typed
  <2> QED
    BY <1>1, <2>1, <2>2, <2>3, <2>4, <2>5
<1>4. ASSUME NEW g \in Goroutines, Enter(g) PROVE Places'
  <2>1. UNCHANGED <<init_once, serve, step, before_stop, outer>>
    BY <1>4 DEF Enter, InitCall, CallRefused, SelfStart, Call, Begin, EndTest, EndIgnored, vars
  <2> QED
    BY <2>1
<1>5. ASSUME NEW g \in Goroutines, Inside(g) PROVE Places'
  <2>1. /\ UNCHANGED <<step, before_stop>> /\ outer' \in {outer, << >>}
        /\ init_once' \in {init_once, "running", "done"} /\ serve' \in {serve, "start"}
    BY <1>5 DEF Inside, OnceEnter, OnceReturn, InitBuild, InitComplete, InitGo, EndMark,
           EndRefused, EndSubmit, SelfSample, SelfAbort, SelfDone, CallReturn
  <2>2. Len(outer') <= Capacity
    BY <1>1, <2>1
  <2> QED
    BY <2>1, <2>2
<1>6. ASSUME NEW g \in Goroutines, Send(g) PROVE Places'
  <2> DEFINE m == go[g].out
  <2>1. /\ UNCHANGED <<init_once, serve, step>>
        /\ before_stop' = before_stop \/ before_stop' \subseteq Spans
        /\ Len(outer) < Capacity /\ outer' = Append(outer, m)
    BY <1>6 DEF Send, enqueue
  <2>2. m \in Msg
    BY DEF IInv, Typed, Goroutine
  <2>3. Len(outer') = Len(outer) + 1
    BY <1>1, <2>1, <2>2
  <2> QED
    BY <1>1, <2>1, <2>3
<1> QED
  BY <1>2, <1>3, <1>4, <1>5, <1>6 DEF Next

\* What serve puts into a reply channel is a row, or says that there is none.
LEMMA Replied ==
  ASSUME Replies, DOMAIN reply = Goroutines, NEW m \in Msg, m.ttype \in Answered,
         NEW entry \in Reg!Learner \cup {NoEntry}, NEW rows,
         DOMAIN rows \subseteq Keys /\ \A k \in DOMAIN rows : rows[k] \in Reg!Learner,
         answer(m, entry, rows)
  PROVE  Replies'
<1> DEFINE r == [ttype |-> m.ttype, key |-> m.name, entry |-> entry, rows |-> rows]
<1>1. IsReply(r)
  BY DEF IsReply, Answered, Msg
<1>2. reply' = [reply EXCEPT ![m.from] = r]
  BY DEF answer
<1> HIDE DEF r
<1>3. \A g \in Goroutines : reply'[g] = r \/ reply'[g] = reply[g]
  BY <1>2
<1>4. \A g \in Goroutines : IsReply(reply'[g])
  BY <1>1, <1>3 DEF Replies
<1> QED BY <1>4 DEF Replies

LEMMA NoReplyTyped == IsReply(NoReply)
<1>1. OVERHEAD_SPAN \in Keys
  BY NameIsKey, Constants
<1>2. Reg!NoLearner \in Reg!Learner
  BY RP!Fresh, SameConstants, SameRows DEF Reg!NoLearner
<1>3. DOMAIN NoRows = {}
  BY DEF NoRows
<1> QED
  BY <1>1, <1>2, <1>3 DEF NoReply, IsReply

LEMMA NextReplies ==
  ASSUME IInv, Balance, RegistryTyped, Replies, [Next]_vars
  PROVE  Replies'
<1>1. /\ learners \in [Keys -> Reg!Learner] /\ tracked_spans \in Seq(Keys)
      /\ DOMAIN reply = Goroutines
  BY DEF RegistryTyped, Reg!TypeOK, Keys, Balance
<1>2. Reg!NoLearner \in Reg!Learner \cup {NoEntry} /\ DOMAIN NoRows = {}
  BY NoReplyTyped, RP!Fresh, SameConstants, SameRows DEF Reg!NoLearner, NoRows
<1>3. CASE UNCHANGED reply
  BY <1>3 DEF Replies, IsReply
<1>4. CASE ServeValues
  <2> DEFINE m == Head(outer)
             entry == IF Reg!found(learners, m.name) THEN learners[m.name] ELSE NoEntry
  <2>1. receive("values") /\ UNCHANGED go /\ answer(m, entry, NoRows)
    BY <1>4 DEF ServeValues
  <2>2. m \in Msg /\ m.ttype = "values"
    BY <2>1, Taken
  <2>3. m.name \in Keys /\ m.ttype \in Answered
    BY <2>2 DEF Msg, Answered
  <2>4. entry \in Reg!Learner \cup {NoEntry}
    BY <1>1, <2>3
  <2> HIDE DEF m, entry
  <2> QED BY <1>1, <1>2, <2>1, <2>2, <2>3, <2>4, Replied
<1>5. CASE ReportFail \/ ReportDone \/ BenchmarksDone
  <2>1. current \in Msg /\ current.ttype \in Answered
    BY <1>5 DEF Balance, InHand, ReportFail, ReportDone, BenchmarksDone
  <2>2. DOMAIN shown_rows \subseteq Keys /\ \A k \in DOMAIN shown_rows : shown_rows[k] \in Reg!Learner
    BY <1>1 DEF shown_rows
  <2>3. PICK rows \in {NoRows, shown_rows} : answer(current, Reg!NoLearner, rows)
    BY <1>5 DEF ReportFail, ReportDone, BenchmarksDone
  <2>4. DOMAIN rows \subseteq Keys /\ \A k \in DOMAIN rows : rows[k] \in Reg!Learner
    BY <1>2, <2>2
  <2> QED BY <1>1, <1>2, <2>1, <2>3, <2>4, Replied
<1>6. ASSUME NEW g \in Goroutines, CallReturn(g) PROVE Replies'
  <2>1. \A h \in Goroutines : reply'[h] = NoReply \/ reply'[h] = reply[h]
    BY <1>1, <1>6 DEF CallReturn
  <2>2. \A h \in Goroutines : IsReply(reply'[h])
    BY <2>1, NoReplyTyped DEF Replies
  <2> QED BY <2>2 DEF Replies
<1>7. ASSUME Serve PROVE UNCHANGED reply \/ ServeValues \/ ReportFail \/ ReportDone \/ BenchmarksDone
  BY <1>7 DEF Serve, ServeStart, ServeSample, ServeReport, ServeBenchmarks, BenchmarkSample,
         ServeStop, ServeFinish
<1>8. ASSUME NEW g \in Goroutines, Enter(g) \/ Inside(g) \/ Send(g)
      PROVE  UNCHANGED reply \/ CallReturn(g)
  BY <1>8 DEF Enter, InitCall, CallRefused, SelfStart, Call, Begin, EndTest, EndIgnored, vars,
         Inside, OnceEnter, OnceReturn, InitBuild, InitComplete, InitGo, EndMark, EndRefused,
         EndSubmit, SelfSample, SelfAbort, SelfDone, Send
<1>9. CASE UNCHANGED vars
  BY <1>3, <1>9 DEF vars
<1> QED
  BY <1>3, <1>4, <1>5, <1>6, <1>7, <1>8, <1>9 DEF Next

(***************************************************************************)
(* Type correctness: the queue never exceeds the capacity that init_inner  *)
(* gave it, what travels on the channels is what the handlers expect, and  *)
(* Values answers with a row or with the entry that says there is none.    *)
(***************************************************************************)
THEOREM LatLearnTypeCorrect ==
  ASSUME VariantsJoin
  PROVE  Spec => []TypeOK
<1>1. Spec => []RegistryTyped
  <2>1. RP!Spec => []RP!TypeOK
    BY RP!TypeCorrect, SameConstants
  <2>2. RP!TypeOK => RegistryTyped
    BY SameRows DEF RP!TypeOK, Reg!TypeOK, RegistryTyped
  <2> QED BY <2>1, <2>2, DrivesRegistry, PTL
<1>2. Init => Flags
  BY DEF Init, Flags
<1>3. Init => Places
  <2> SUFFICES ASSUME Init PROVE Places
    OBVIOUS
  <2>1. Len(BenchPlan) \in Nat /\ Capacity \in Nat
    BY LatLearnAssumption DEF Capacity
  <2>2. outer = << >> /\ step = 1 /\ before_stop = {} /\ init_once = "new" /\ serve = "absent"
    BY DEF Init
  <2>3. Len(outer) = 0 /\ 1 \in 1 .. Len(BenchPlan) + 1
    BY <2>1, <2>2
  <2> QED BY <2>1, <2>2, <2>3 DEF Places
<1>4. Init => Replies
  BY NoReplyTyped DEF Init, Replies
<1>5. IInv /\ Balance /\ RegistryTyped /\ Flags /\ Places /\ Replies /\ [Next]_vars
        => Flags' /\ Places' /\ Replies'
  BY NextFlags, NextPlaces, NextReplies
<1>6. IInv /\ Kept /\ Balance /\ RegistryTyped /\ Flags /\ Places /\ Replies => TypeOK
  <2> SUFFICES ASSUME IInv, Kept, Balance, RegistryTyped, Flags, Places, Replies PROVE TypeOK
    OBVIOUS
  <2>1. current \in Msg
    BY NoMsgTyped DEF Balance, InHand
  <2>2. accepted \in [Spans -> Nat] /\ recorded \in [Spans -> Nat]
    BY DEF Kept, Counts
  <2> QED BY <2>1, <2>2 DEF IInv, Typed, RegistryTyped, Flags, Places, Replies, TypeOK
<1> QED BY <1>1, <1>2, <1>3, <1>4, <1>5, <1>6, BalanceHolds, PTL DEF Spec

=============================================================================
