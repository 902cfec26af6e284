------------------------------ MODULE AppsProofs ------------------------------
(***************************************************************************)
(* Proofs about the example programs: that they use LatLearn as LatLearn   *)
(* supposes, so that all that is proved of it is true of them, and what    *)
(* their own order of calls gives them.                                    *)
(***************************************************************************)
EXTENDS Apps, ServiceProofs

-------------------------------------------------------------------------------
(***************************************************************************)
(* A program is an application of LatLearn.                                *)
(***************************************************************************)
\* Where g stands when it is about to do an operation.
LEMMA Stands ==
  ASSUME program \in Programs, NEW g \in Goroutines, NEW kind, about_to(g, kind)
  PROVE  /\ at[g] \in 1 .. Len(text_of(program, g))
         /\ next_op(g) = text_of(program, g)[at[g]] /\ next_op(g)[1] = kind
         /\ pc(g) = "idle"
BY DEF about_to, next_op, length, text

\* A statement of a program enters LatLearn as one of its callers may, or
\* leaves it alone.
LEMMA StatementEnters ==
  ASSUME CallsAllowed, program \in Programs, NEW g \in Goroutines, Statement(g)
  PROVE  Enter(g) \/ UNCHANGED vars
<1> DEFINE op == next_op(g)
<1>1. \A kind : about_to(g, kind) =>
        /\ op[1] = kind
        /\ kind = "B" => <<op[3], op[4]>> \in Begins
        /\ kind = "A" => op[3] \in EndVariants
        /\ kind = "self" => g \in Samplers /\ op[2] \in SelfCounts
        /\ kind = "values" => op[2] \in Asked
        /\ kind \in {"values", "report", "benchmarks", "stop"} => kind \in Requests
  BY Stands DEF CallsAllowed
<1>2. Holds[g] \subseteq Spans
  BY Constants
<1>3. CASE CallInit(g)
  BY <1>3 DEF CallInit, Enter
<1>4. CASE CallB(g)
  <2>1. Begin(g, op[2], op[3], op[4]) /\ <<op[3], op[4]>> \in Begins
    BY <1>1, <1>4 DEF CallB
  <2> DEFINE b == <<op[3], op[4]>>
  <2>2. b[1] = op[3] /\ b[2] = op[4]
    OBVIOUS
  <2> HIDE DEF op
  <2>3. op[2] \in Spans
    BY <1>2, <2>1 DEF Begin
  <2> QED BY <2>1, <2>2, <2>3 DEF Enter
<1>5. CASE CallA(g)
  <2>1. EndTest(g, op[2], op[3]) \/ EndIgnored(g, op[2])
    BY <1>5 DEF CallA
  <2>2. op[3] \in EndVariants
    BY <1>1, <1>5 DEF CallA
  <2> HIDE DEF op
  <2>3. op[2] \in Spans
    BY <1>2, <2>1 DEF EndTest, EndIgnored
  <2> QED BY <2>1, <2>2, <2>3 DEF Enter
<1>6. CASE CallSelfSample(g)
  <2>1. SelfStart(g, op[2]) /\ g \in Samplers /\ op[2] \in SelfCounts
    BY <1>1, <1>6 DEF CallSelfSample
  <2> QED BY <2>1 DEF Enter
<1>7. CASE CallRequest(g)
  <2>1. CASE CallRefused(g)
    BY <2>1 DEF Enter
  <2>2. CASE about_to(g, "values") /\ Call(g, "values", op[2])
    <3>1. "values" \in Requests /\ op[2] \in keys_asked("values")
      BY <1>1, <2>2 DEF keys_asked
    <3> QED BY <2>2, <3>1 DEF Enter
  <2>3. ASSUME NEW r \in {"report", "benchmarks", "stop"}, about_to(g, r), Call(g, r, OVERHEAD_SPAN)
        PROVE  Enter(g)
    <3>1. r \in Requests /\ OVERHEAD_SPAN \in keys_asked(r)
      BY <1>1, <2>3 DEF keys_asked
    <3> QED BY <2>3, <3>1 DEF Enter
  <2> QED BY <1>7, <2>1, <2>2, <2>3 DEF CallRequest
<1>8. CASE SetPath(g) \/ GoStatement(g) \/ WgWait(g) \/ Cancel(g) \/ CheckContext(g)
  BY <1>8 DEF SetPath, GoStatement, WgWait, Cancel, CheckContext
<1> QED BY <1>3, <1>4, <1>5, <1>6, <1>7, <1>8 DEF Statement

LEMMA SameProgram ==
  ASSUME [AppsNext]_allvars
  PROVE  program' = program
BY DEF AppsNext, Statement, CallInit, CallB, CallA, CallSelfSample, CallRequest, SetPath,
       GoStatement, WgWait, Cancel, CheckContext, AppServe, AppInside, AppSend, Below, Timeout,
       allvars, appvars

LEMMA StepOfLatLearn ==
  ASSUME CallsAllowed, program \in Programs, [AppsNext]_allvars
  PROVE  [Next]_vars
<1>1. CASE AppServe
  BY <1>1 DEF AppServe, Next
<1>2. ASSUME NEW g \in Goroutines, Statement(g) PROVE [Next]_vars
  BY <1>2, StatementEnters DEF Next
<1>3. ASSUME NEW g \in Goroutines, AppInside(g) \/ AppSend(g) PROVE [Next]_vars
  BY <1>3 DEF AppInside, AppSend, Below, Next
<1>4. ASSUME NEW g \in Goroutines, Timeout(g) PROVE [Next]_vars
  BY <1>4 DEF Timeout
<1>5. CASE UNCHANGED allvars
  BY <1>5 DEF allvars
<1> QED BY <1>1, <1>2, <1>3, <1>4, <1>5 DEF AppsNext

(***************************************************************************)
(* What the five programs do is what LatLearn lets its callers do.         *)
(***************************************************************************)
THEOREM ProgramsAreCallers ==
  ASSUME CallsAllowed
  PROVE  AppsSpec => Spec /\ [](program \in Programs)
<1>1. AppsInit => Init /\ program \in Programs
  BY DEF AppsInit
<1>2. program \in Programs /\ [AppsNext]_allvars => [Next]_vars /\ (program \in Programs)'
  BY StepOfLatLearn, SameProgram
<1> QED BY <1>1, <1>2, PTL DEF AppsSpec, Spec

(***************************************************************************)
(* So the programs have what is proved of LatLearn: every sample that got  *)
(* through is counted once and none is lost, no request goes unanswered    *)
(* because of another, no send is to a nil channel, Stop drains the queue, *)
(* and the flags of self-sampling tell the truth.                          *)
(***************************************************************************)
THEOREM ProgramsSound ==
  ASSUME CallsAllowed, InitFirst, NotShared, OneSampler
  PROVE  AppsSpec => []( /\ SampleConserved /\ CountedAtMostOnce /\ OneAnswerPerCall
                         /\ NoSendOnNil /\ EndedNotLost /\ StopDrains /\ FlagsMeanAllSampled)
<1>1. VariantsJoin
  BY DEF VariantsJoin
<1>2. Spec => []SampleConserved
  BY <1>1, SamplesConserved
<1>3. Spec => []CountedAtMostOnce
  BY NothingCountedTwice
<1>4. Spec => []OneAnswerPerCall
  BY <1>1, AnsweredOnce
<1>5. Spec => []NoSendOnNil
  BY <1>1, NobodySendsOnNil
<1>6. Spec => []EndedNotLost
  BY <1>1, EndedSpansNotLost
<1>7. Spec => []StopDrains
  BY <1>1, StopDrainsQueue
<1>8. Spec => []FlagsMeanAllSampled
  BY <1>1, FlagsTellTheTruth
<1> QED BY <1>2, <1>3, <1>4, <1>5, <1>6, <1>7, <1>8, ProgramsAreCallers, PTL

-------------------------------------------------------------------------------
(***************************************************************************)
(* Reports go where they were meant to.                                    *)
(***************************************************************************)
\* g has been sent off to ask something of serve and has no answer yet.
asking(g) == pc(g) = "wait" \/ (pc(g) = "send" /\ go[g].out.ttype # "A")

\* main has come past a go statement.
gone == \E j \in 1 .. Len(text("main")) : j < at["main"] /\ text("main")[j][1] = "go"

\* A goroutine that has not been started has done nothing, and the first is
\* started by main.
Started ==
  /\ program \in Programs
  /\ at \in [Goroutines -> Nat]
  /\ \A g \in Goroutines : at[g] = 0 => pc(g) = "idle" /\ g # "main"
  /\ \A g \in Goroutines \ {"main"} : at[g] # 0 => gone

PathKept ==
  /\ DOMAIN asked_path = Goroutines
  /\ \A g \in Goroutines : asking(g) => asked_path[g] = Report_fpath

PathInv == Started /\ PathKept /\ FilesWhereAsked

\* A step of g is one of g.
LEMMA MovesOne ==
  ASSUME IInv, NEW g \in Goroutines, Enter(g) \/ Inside(g) \/ Send(g)
  PROVE  \A h \in Goroutines \ {g} : go'[h] = go[h]
<1>1. go \in [Goroutines -> Goroutine]
  BY DEF IInv, Typed
<1>2. CASE Enter(g)
  BY <1>1, <1>2 DEF Enter, InitCall, CallRefused, SelfStart, Call, Begin, EndTest, EndIgnored, vars
<1>3. CASE Inside(g)
  BY <1>1, <1>3 DEF Inside, OnceEnter, OnceReturn, InitBuild, InitComplete, InitGo, EndMark,
     EndRefused, EndSubmit, SelfSample, SelfAbort, SelfDone, CallReturn, goto
<1>4. CASE Send(g)
  BY <1>1, <1>4 DEF Send
<1> QED BY <1>2, <1>3, <1>4

\* Only the statements that are requests make a goroutine ask.
LEMMA NobodyElseAsks ==
  ASSUME IInv, NEW g \in Goroutines, Inside(g) \/ Send(g), asking(g)'
  PROVE  asking(g)
<1>1. go \in [Goroutines -> Goroutine]
  BY DEF IInv, Typed
<1>2. CASE Inside(g)
  <2>1. pc(g)' # "wait" /\ (pc(g)' = "send" => go'[g].out.ttype = "A")
    BY <1>1, <1>2 DEF Inside, OnceEnter, OnceReturn, InitBuild, InitComplete, InitGo, EndMark,
       EndRefused, EndSubmit, SelfSample, SelfAbort, SelfDone, CallReturn, goto, pc, sample_msg,
       Goroutine
  <2> QED BY <2>1 DEF asking
<1>3. CASE Send(g)
  <2>1. pc(g) = "send" /\ pc(g)' = after_send(go[g].out)
    BY <1>1, <1>3 DEF Send, pc, Goroutine
  <2>2. after_send(go[g].out) = "wait"
    BY <2>1 DEF asking, after_send
  <2>3. go[g].out.ttype # "A"
    BY <2>2 DEF after_send
  <2> QED BY <2>1, <2>3 DEF asking
<1> QED BY <1>2, <1>3

\* A statement takes its goroutine on in its text.
LEMMA Advances ==
  ASSUME TextsFinite, Started, NEW g \in Goroutines, Statement(g)
  PROVE  /\ at[g] \in 1 .. Len(text(g)) /\ pc(g) = "idle"
         /\ at'[g] \in Nat /\ at'[g] > at[g]
         /\ \/ \A h \in Goroutines \ {g} : at'[h] = at[h]
            \/ /\ about_to(g, "go")
               /\ \A h \in Goroutines \ {g} : at'[h] \in {1, at[h]}
         /\ at' \in [Goroutines -> Nat]
<1>1. Len(text(g)) \in Nat /\ at \in [Goroutines -> Nat]
  BY DEF TextsFinite, Started, text
<1>2. \E kind : about_to(g, kind)
  BY DEF Statement, CallInit, CallB, CallA, CallSelfSample, CallRequest, SetPath, GoStatement,
         WgWait, Cancel, CheckContext
<1>3. at[g] \in 1 .. Len(text(g)) /\ pc(g) = "idle"
  BY <1>2 DEF about_to, length
<1>4. CASE advance(g)
  BY <1>1, <1>3, <1>4 DEF advance
<1>5. CASE CheckContext(g)
  <2>1. \/ at' = [at EXCEPT ![g] = Len(text(g)) + 1]
        \/ advance(g)
    BY <1>5 DEF CheckContext, length
  <2> QED BY <1>1, <1>3, <1>4, <2>1
<1>6. CASE GoStatement(g)
  <2>1. /\ about_to(g, "go")
        /\ at' = [w \in Goroutines |-> IF w = g THEN at[w] + 1
                                       ELSE IF w \in next_op(g)[2] THEN 1 ELSE at[w]]
    BY <1>6 DEF GoStatement
  <2> QED BY <1>1, <1>3, <2>1
<1> QED
  BY <1>4, <1>5, <1>6 DEF Statement, CallInit, CallB, CallA, CallSelfSample, CallRequest, SetPath,
     WgWait, Cancel

\* What a statement does to the goroutines.
LEMMA StatementMovesOne ==
  ASSUME IInv, CallsAllowed, program \in Programs, NEW g \in Goroutines, Statement(g)
  PROVE  \A h \in Goroutines \ {g} : go'[h] = go[h]
BY StatementEnters, MovesOne DEF vars

LEMMA StartedHolds ==
  ASSUME CallsAllowed, TextsFinite, PathsFirst, IInv, Started, [AppsNext]_allvars
  PROVE  Started'
<1>1. program' = program /\ program \in Programs
  BY SameProgram DEF Started
<1>2. text("main")' = text("main")
  BY <1>1 DEF text
<1>3. ASSUME NEW g \in Goroutines, Statement(g) PROVE Started'
  <2>1. /\ at[g] \in 1 .. Len(text(g)) /\ pc(g) = "idle"
        /\ at'[g] \in Nat /\ at'[g] > at[g]
        /\ \/ \A h \in Goroutines \ {g} : at'[h] = at[h]
           \/ /\ about_to(g, "go")
              /\ \A h \in Goroutines \ {g} : at'[h] \in {1, at[h]}
        /\ at' \in [Goroutines -> Nat]
    BY <1>3, Advances
  <2>2. \A h \in Goroutines \ {g} : pc(h)' = pc(h)
    BY <1>1, <1>3, StatementMovesOne DEF pc
  <2>3. \A h \in Goroutines : at'[h] = 0 => h # g /\ at[h] = 0
    BY <2>1
  <2>4. gone => gone'
    <3>1. about_to(g, "go") => g = "main"
      BY <1>1, Stands DEF PathsFirst
    <3>2. at["main"] \in Nat /\ at'["main"] \in Nat /\ at'["main"] >= at["main"]
      <4>1. CASE g = "main"
        BY <4>1, <2>1 DEF Started
      <4>2. CASE g # "main"
        BY <4>2, <2>1, <3>1, AppsAssumption DEF Started
      <4> QED BY <4>1, <4>2
    <3>3. \A j \in Nat : j < at["main"] => j < at'["main"]
      BY <3>2
    <3>4. Len(text("main")) \in Nat
      BY <1>1, AppsAssumption DEF TextsFinite, text
    <3>5. \A j \in 1 .. Len(text("main")) : j \in Nat
      BY <3>4
    <3> QED BY <1>2, <3>3, <3>5 DEF gone
  <2>5. ASSUME about_to(g, "go") PROVE gone'
    <3>1. at[g] \in 1 .. Len(text(g)) /\ text(g)[at[g]][1] = "go"
      BY <1>1, <2>5, Stands DEF text
    <3>2. g = "main"
      BY <1>1, <3>1 DEF PathsFirst, text
    <3> QED BY <1>2, <2>1, <3>1, <3>2 DEF gone
  <2>6. \A h \in Goroutines \ {"main"} : at'[h] # 0 => gone'
    <3> SUFFICES ASSUME NEW h \in Goroutines \ {"main"}, at'[h] # 0 PROVE gone'
      OBVIOUS
    <3>1. CASE at[h] # 0
      BY <3>1, <2>4 DEF Started
    <3>2. CASE at[h] = 0
      BY <3>2, <2>1, <2>5
    <3> QED BY <3>1, <3>2
  <2> QED BY <1>1, <2>1, <2>2, <2>3, <2>6 DEF Started
<1>4. ASSUME NEW g \in Goroutines, AppInside(g) \/ AppSend(g) PROVE Started'
  <2>1. (Inside(g) \/ Send(g)) /\ at' = at
    BY <1>4 DEF AppInside, AppSend, Below
  <2>2. pc(g) # "idle"
    BY <2>1 DEF Inside, OnceEnter, OnceReturn, InitBuild, InitComplete, InitGo, EndMark,
       EndRefused, EndSubmit, SelfSample, SelfAbort, SelfDone, CallReturn, Send
  <2>3. at[g] # 0
    BY <2>2 DEF Started
  <2>4. \A h \in Goroutines \ {g} : pc(h)' = pc(h)
    BY <2>1, MovesOne DEF pc
  <2>5. gone' <=> gone
    BY <1>2, <2>1 DEF gone
  <2> QED BY <1>1, <2>1, <2>3, <2>4, <2>5 DEF Started
<1>5. ASSUME at' = at, go' = go PROVE Started'
  BY <1>1, <1>2, <1>5 DEF Started, gone, pc
<1>6. CASE AppServe
  <2>1. go' = go
    BY <1>6 DEF AppServe, Serve, ServeStart, ServeSample, ServeValues, ServeReport, ReportFail,
       ReportDone, ServeBenchmarks, BenchmarkSample, BenchmarksDone, ServeStop, ServeFinish
  <2> QED BY <1>5, <1>6, <2>1 DEF AppServe
<1>7. CASE (\E g \in Goroutines : Timeout(g)) \/ UNCHANGED allvars
  BY <1>5, <1>7 DEF Timeout, allvars, appvars, vars
<1> QED BY <1>3, <1>4, <1>6, <1>7 DEF AppsNext

\* While somebody asks, main sets no path: it has come past the go statement
\* that started the others.
LEMMA PathKeptHolds ==
  ASSUME CallsAllowed, TextsFinite, PathsFirst, IInv, Started, PathKept, [AppsNext]_allvars
  PROVE  PathKept'
<1>1. program' = program /\ program \in Programs
  BY SameProgram DEF Started
<1>2. ASSUME UNCHANGED <<asked_path, Report_fpath>>,
             \A h \in Goroutines : asking(h)' => asking(h)
      PROVE  PathKept'
  BY <1>2 DEF PathKept
<1>3. ASSUME NEW g \in Goroutines, Statement(g) PROVE PathKept'
  <2>1. \A h \in Goroutines \ {g} : go'[h] = go[h]
    BY <1>1, <1>3, StatementMovesOne
  <2>2. \A h \in Goroutines \ {g} : asking(h)' => asking(h)
    BY <2>1 DEF asking, pc
  <2>3. pc(g) = "idle" /\ ~asking(g)
    BY <1>3, Advances DEF asking
  <2>4. CASE CallRequest(g)
    BY <2>2, <2>4 DEF CallRequest, PathKept
  <2>5. CASE SetPath(g)
    <3>1. about_to(g, "path") /\ go' = go /\ asked_path' = asked_path
      BY <2>5 DEF SetPath, vars
    <3>2. at[g] \in 1 .. Len(text(g)) /\ text(g)[at[g]][1] = "path"
      BY <1>1, <3>1, Stands DEF text
    <3>3. g = "main" /\ \A j \in 1 .. at[g] : text(g)[j][1] # "go"
      BY <1>1, <3>2 DEF PathsFirst, text
    <3>4. ~gone
      BY <3>2, <3>3 DEF gone
    <3>5. \A h \in Goroutines \ {g} : pc(h) = "idle"
      BY <3>3, <3>4 DEF Started
    <3>6. \A h \in Goroutines : ~asking(h)'
      BY <2>3, <3>1, <3>5 DEF asking, pc
    <3> QED BY <3>1, <3>6 DEF PathKept
  <2>6. CASE ~CallRequest(g) /\ ~SetPath(g)
    <3>1. UNCHANGED <<asked_path, Report_fpath>>
      BY <1>3, <2>6 DEF Statement, CallInit, CallB, CallA, CallSelfSample, GoStatement, WgWait,
         Cancel, CheckContext, reportvars
    <3>2. pc(g)' \notin {"wait", "send"}
      <4>1. go \in [Goroutines -> Goroutine]
        BY DEF IInv, Typed
      <4>2. CASE CallInit(g)
        BY <4>1, <4>2 DEF CallInit, InitCall, pc
      <4>3. CASE CallB(g)
        BY <2>3, <4>3 DEF CallB, Begin, pc
      <4>4. CASE CallA(g)
        <5>1. PICK s, v : EndTest(g, s, v) \/ EndIgnored(g, s)
          BY <4>4 DEF CallA
        <5>2. EndTest(g, s, v) => pc(g)' = "mark"
          BY <4>1 DEF EndTest, pc
        <5>3. EndIgnored(g, s) => pc(g)' = pc(g)
          BY DEF EndIgnored, vars, pc
        <5> QED BY <2>3, <5>1, <5>2, <5>3
      <4>5. CASE CallSelfSample(g)
        BY <4>1, <4>5 DEF CallSelfSample, SelfStart, pc
      <4>6. CASE GoStatement(g) \/ WgWait(g) \/ Cancel(g) \/ CheckContext(g)
        BY <2>3, <4>6 DEF GoStatement, WgWait, Cancel, CheckContext, vars, pc
      <4> QED BY <4>2, <4>3, <4>4, <4>5, <4>6, <1>3, <2>6 DEF Statement
    <3>3. ~asking(g)'
      BY <3>2 DEF asking
    <3> QED BY <1>2, <2>2, <3>1, <3>3
  <2> QED BY <2>4, <2>5, <2>6
<1>4. ASSUME NEW g \in Goroutines, AppInside(g) \/ AppSend(g) PROVE PathKept'
  <2>1. (Inside(g) \/ Send(g)) /\ UNCHANGED <<asked_path, Report_fpath>>
    BY <1>4 DEF AppInside, AppSend, Below
  <2>2. asking(g)' => asking(g)
    BY <2>1, NobodyElseAsks
  <2>3. \A h \in Goroutines \ {g} : asking(h)' => asking(h)
    BY <2>1, MovesOne DEF asking, pc
  <2> QED BY <1>2, <2>1, <2>2, <2>3
<1>5. ASSUME go' = go, UNCHANGED <<asked_path, Report_fpath>> PROVE PathKept'
  BY <1>2, <1>5 DEF asking, pc
<1>6. CASE AppServe
  <2>1. go' = go
    BY <1>6 DEF AppServe, Serve, ServeStart, ServeSample, ServeValues, ServeReport, ReportFail,
       ReportDone, ServeBenchmarks, BenchmarkSample, BenchmarksDone, ServeStop, ServeFinish
  <2> QED BY <1>5, <1>6, <2>1 DEF AppServe
<1>7. CASE (\E g \in Goroutines : Timeout(g)) \/ UNCHANGED allvars
  BY <1>5, <1>7 DEF Timeout, allvars, appvars, vars, reportvars
<1> QED BY <1>3, <1>4, <1>6, <1>7 DEF AppsNext

LEMMA FilesHold ==
  ASSUME CallsAllowed, TextsFinite, IInv, Balance, Started, PathKept, FilesWhereAsked,
         [AppsNext]_allvars
  PROVE  FilesWhereAsked'
<1> SUFFICES ASSUME serve' = "report" PROVE opened' = asked_path'[current'.from]
  BY DEF FilesWhereAsked
<1>1. program \in Programs
  BY DEF Started
<1>2. CASE serve = "report" /\ current' = current /\ opened' = opened
  <2>1. current.from \in Goroutines /\ pc(current.from) = "wait"
    <3>1. current.from \in Goroutines
      BY <1>2 DEF Balance, InHand
    <3>2. Balanced(current.from) /\ In(outer, Of_g(current.from)) \in Nat
      BY <3>1, OfFinite DEF Balance, IInv, Typed
    <3> QED BY <3>1, <3>2 DEF Balanced, one
  <2>2. asked_path'[current.from] = asked_path[current.from]
    <3>1. CASE asked_path' = asked_path
      BY <3>1
    <3>2. ASSUME NEW g \in Goroutines, CallRequest(g)
          PROVE  asked_path'[current.from] = asked_path[current.from]
      <4>1. pc(g) = "idle"
        BY <3>2, <1>1, Advances DEF Statement
      <4> QED BY <4>1, <3>2, <2>1 DEF CallRequest, PathKept
    <3> QED
      BY <3>1, <3>2 DEF AppsNext, Statement, CallInit, CallB, CallA, CallSelfSample, SetPath,
         GoStatement, WgWait, Cancel, CheckContext, AppServe, AppInside, AppSend, Below, Timeout,
         allvars, appvars, reportvars
  <2> QED BY <1>2, <2>1, <2>2 DEF FilesWhereAsked
<1>3. CASE AppServe
  <2>1. Serve /\ opened' = (IF serve' = "report" /\ serve # "report" THEN Report_fpath ELSE opened)
        /\ asked_path' = asked_path
    BY <1>3 DEF AppServe
  <2>2. CASE ServeReport
    <3>1. receive("report") /\ current' = Head(outer) /\ serve = "select" /\ UNCHANGED go
      BY <2>2 DEF ServeReport, receive
    <3> DEFINE h == Head(outer).from
    <3>2. /\ Head(outer) \in Msg /\ h \in Goroutines
          /\ In(outer', Of_g(h)) \in Nat
          /\ In(outer, Of_g(h)) = In(outer', Of_g(h)) + 1
      BY <3>1, Taken DEF Answered, one
    <3>3. pc(h) = "wait"
      <4> HIDE DEF h
      <4> QED BY <3>2 DEF Balance, Balanced, one
    <3>4. asked_path[h] = Report_fpath
      BY <3>2, <3>3 DEF PathKept, asking
    <3> QED BY <2>1, <3>1, <3>4
  <2>3. CASE ~ServeReport
    <3>1. serve = "report" /\ current' = current
      BY <2>1, <2>3 DEF Serve, ServeStart, ServeSample, ServeValues, ReportFail, ReportDone,
         ServeBenchmarks, BenchmarkSample, BenchmarksDone, ServeStop, leave_serve, ServeFinish,
         back_to_select, receive, srvvars
    <3> QED BY <1>2, <2>1, <3>1
  <2> QED BY <2>2, <2>3
<1>4. ASSUME NEW g \in Goroutines, Statement(g) \/ AppInside(g) \/ AppSend(g)
      PROVE  opened' = asked_path'[current'.from]
  <2>1. Enter(g) \/ Inside(g) \/ Send(g) \/ UNCHANGED vars
    BY <1>1, <1>4, StatementEnters DEF AppInside, AppSend, Below
  <2>2. serve = "report" /\ current' = current
    BY <2>1 DEF Enter, InitCall, CallRefused, SelfStart, Call, Begin, EndTest, EndIgnored,
       Inside, OnceEnter, OnceReturn, InitBuild, InitComplete, InitGo, EndMark,
       EndRefused, EndSubmit, SelfSample, SelfAbort, SelfDone, CallReturn, Send, vars, srvvars
  <2>3. opened' = opened
    BY <1>4 DEF Statement, CallInit, CallB, CallA, CallSelfSample, CallRequest, SetPath,
       GoStatement, WgWait, Cancel, CheckContext, AppInside, AppSend, Below, reportvars
  <2> QED BY <1>2, <2>2, <2>3
<1>5. CASE (\E g \in Goroutines : Timeout(g)) \/ UNCHANGED allvars
  BY <1>2, <1>5 DEF Timeout, allvars, appvars, vars, srvvars, reportvars
<1> QED BY <1>3, <1>4, <1>5 DEF AppsNext

(***************************************************************************)
(* In every program a report goes to the file that was set when it was     *)
(* asked for, although Report_fpath is not protected: it is only set       *)
(* before the first goroutine is started, by one that waits for its own    *)
(* reports.                                                                *)
(***************************************************************************)
THEOREM FilesAreRight ==
  ASSUME CallsAllowed, TextsFinite, PathsFirst, VariantsJoin
  PROVE  AppsSpec => []FilesWhereAsked
<1>1. AppsInit => PathInv
  <2> SUFFICES ASSUME AppsInit PROVE PathInv
    OBVIOUS
  <2>1. \A g \in Goroutines : pc(g) = "idle"
    BY DEF AppsInit, Init, AtRest, pc
  <2>2. Started
    BY <2>1 DEF AppsInit, Started
  <2>3. PathKept
    BY <2>1 DEF AppsInit, PathKept, asking
  <2>4. FilesWhereAsked
    BY DEF AppsInit, Init, FilesWhereAsked
  <2> QED BY <2>2, <2>3, <2>4 DEF PathInv
<1>2. IInv /\ Balance /\ PathInv /\ [AppsNext]_allvars => PathInv'
  BY StartedHolds, PathKeptHolds, FilesHold DEF PathInv
<1>3. PathInv => FilesWhereAsked
  BY DEF PathInv
<1>4. Spec => [](IInv /\ Kept /\ Balance)
  BY BalanceHolds
<1>5. AppsSpec => Spec
  BY ProgramsAreCallers, PTL
<1> QED BY <1>1, <1>2, <1>3, <1>4, <1>5, PTL DEF AppsSpec

-------------------------------------------------------------------------------
(***************************************************************************)
(* main alone.  Once main has waited for all that it has started, a step   *)
(* is one of its own or of serve.                                          *)
(***************************************************************************)
\* main is alone: it has waited for all that it has started.
alone == alone_at(program, at["main"])

\* ... so that nobody else runs.
Aside == alone => \A g \in Goroutines \ {"main"} : at[g] = 0 \/ over(g)

\* What an operation leaves of main's being alone.
LEMMA AloneNext ==
  ASSUME NEW p, NEW i \in Nat \ {0}, alone_at(p, i + 1)
  PROVE  /\ text_of(p, "main")[i][1] # "go"
         /\ text_of(p, "main")[i][1] = "wait" \/ alone_at(p, i)
<1> DEFINE kind(j) == text_of(p, "main")[j][1]
<1>1. \A j \in 1 .. i : kind(j) = "go" => \E k \in j .. i : kind(k) = "wait"
  BY DEF alone_at
<1>2. i \in 1 .. i /\ i .. i = {i}
  OBVIOUS
<1> HIDE DEF kind
<1>3. kind(i) # "go"
  <2>1. SUFFICES ASSUME kind(i) = "go" PROVE FALSE
    OBVIOUS
  <2>2. PICK k \in i .. i : kind(k) = "wait"
    BY <1>1, <1>2, <2>1
  <2>3. k = i
    BY <1>2
  <2> QED BY <2>1, <2>2, <2>3
<1>4. ASSUME kind(i) # "wait", NEW j \in 1 .. i - 1, kind(j) = "go"
      PROVE  \E k \in j .. i - 1 : kind(k) = "wait"
  <2>1. j \in 1 .. i
    OBVIOUS
  <2>2. PICK k \in j .. i : kind(k) = "wait"
    BY <1>1, <1>4, <2>1
  <2>3. k # i
    BY <1>4, <2>2
  <2> QED BY <2>2, <2>3
<1> QED BY <1>3, <1>4 DEF alone_at, kind

\* Where nobody is started, main stays alone.
LEMMA AloneStays ==
  ASSUME NEW p, NEW i \in Nat \ {0}, alone_at(p, i), text_of(p, "main")[i][1] # "go"
  PROVE  alone_at(p, i + 1)
<1> DEFINE kind(j) == text_of(p, "main")[j][1]
<1>1. \A j \in 1 .. i - 1 : kind(j) = "go" => \E k \in j .. i - 1 : kind(k) = "wait"
  BY DEF alone_at
<1>2. kind(i) # "go"
  OBVIOUS
<1> HIDE DEF kind
<1>3. ASSUME NEW j \in 1 .. i, kind(j) = "go" PROVE \E k \in j .. i : kind(k) = "wait"
  <2>1. j \in 1 .. i - 1
    BY <1>2, <1>3
  <2>2. PICK k \in j .. i - 1 : kind(k) = "wait"
    BY <1>1, <1>3, <2>1
  <2> QED BY <2>2
<1> QED BY <1>3 DEF alone_at, kind

\* What somebody does who has a statement to do.
LEMMA Who ==
  ASSUME TextsFinite, MainLeads, Started, NEW g \in Goroutines, Statement(g)
  PROVE  /\ at[g] \in 1 .. Len(text(g)) /\ pc(g) = "idle"
         /\ g = "main" => /\ at'["main"] = at["main"] + 1
                          /\ text("main")[at["main"]][1] = "wait" => WgWait("main")
                          /\ text("main")[at["main"]][1] # "go" =>
                               \A h \in Goroutines \ {"main"} : at'[h] = at[h]
<1>1. at[g] \in 1 .. Len(text(g)) /\ pc(g) = "idle" /\ at \in [Goroutines -> Nat]
  BY Advances DEF Started
<1> SUFFICES ASSUME g = "main"
             PROVE  /\ at'["main"] = at["main"] + 1
                    /\ text("main")[at["main"]][1] = "wait" => WgWait("main")
                    /\ text("main")[at["main"]][1] # "go" =>
                         \A h \in Goroutines \ {"main"} : at'[h] = at[h]
  BY <1>1
<1>2. \A kind : about_to(g, kind) => text("main")[at["main"]][1] = kind
  BY Stands DEF Started, text
<1>3. CASE advance(g)
  <2>1. at'["main"] = at["main"] + 1 /\ \A h \in Goroutines \ {"main"} : at'[h] = at[h]
    BY <1>1, <1>3 DEF advance
  <2>2. text("main")[at["main"]][1] = "wait" => WgWait("main")
    BY <1>2 DEF Statement, CallInit, CallB, CallA, CallSelfSample, CallRequest, SetPath,
       GoStatement, Cancel, CheckContext
  <2> QED BY <2>1, <2>2
<1>4. CASE GoStatement(g)
  <2>1. text("main")[at["main"]][1] = "go"
    BY <1>2, <1>4 DEF GoStatement
  <2>2. at'["main"] = at["main"] + 1
    BY <1>1, <1>4 DEF GoStatement
  <2> QED BY <2>1, <2>2
<1>5. ~CheckContext(g)
  <2>1. SUFFICES ASSUME CheckContext(g) PROVE FALSE
    OBVIOUS
  <2>2. text("main")[at["main"]][1] = "check"
    BY <1>2, <2>1 DEF CheckContext
  <2> QED BY <1>1, <2>2 DEF MainLeads, Started, text
<1> QED
  BY <1>3, <1>4, <1>5 DEF Statement, CallInit, CallB, CallA, CallSelfSample, CallRequest, SetPath,
     WgWait, Cancel

\* Whoever is aside does nothing.
LEMMA NobodyElse ==
  ASSUME TextsFinite, Started, Aside, alone, NEW g \in Goroutines, g # "main"
  PROVE  pc(g) = "idle" /\ ~Statement(g) /\ ~Inside(g) /\ ~Send(g)
<1>1. at[g] = 0 \/ over(g)
  BY DEF Aside
<1>2. pc(g) = "idle"
  BY <1>1 DEF Started, over
<1>3. ~Statement(g)
  BY <1>1, Advances DEF over, length, Started
<1>4. ~Inside(g) /\ ~Send(g)
  BY <1>2 DEF Inside, OnceEnter, OnceReturn, InitBuild, InitComplete, InitGo, EndMark,
     EndRefused, EndSubmit, SelfSample, SelfAbort, SelfDone, CallReturn, Send
<1> QED BY <1>2, <1>3, <1>4

\* main moves on in its text by a statement of its own only.
LEMMA MainStays ==
  ASSUME TextsFinite, PathsFirst, Started, [AppsNext]_allvars, ~Statement("main")
  PROVE  at'["main"] = at["main"] /\ (alone' <=> alone)
<1>1. program' = program
  BY SameProgram
<1>2. at'["main"] = at["main"]
  <2>1. ASSUME NEW g \in Goroutines, Statement(g) PROVE at'["main"] = at["main"]
    <3>1. g # "main"
      BY <2>1
    <3>2. \/ \A h \in Goroutines \ {g} : at'[h] = at[h]
          \/ about_to(g, "go")
      BY <2>1, Advances
    <3>3. ~about_to(g, "go")
      BY <3>1, Stands DEF PathsFirst, Started
    <3> QED BY <3>1, <3>2, <3>3, AppsAssumption
  <2> QED
    BY <2>1 DEF AppsNext, AppServe, AppInside, AppSend, Below, Timeout, allvars, appvars
<1> QED BY <1>1, <1>2 DEF alone

LEMMA AsideHolds ==
  ASSUME CallsAllowed, TextsFinite, PathsFirst, MainLeads, IInv, Started, Aside,
         [AppsNext]_allvars
  PROVE  Aside'
<1>1. program' = program /\ program \in Programs
  BY SameProgram DEF Started
<1>2. ASSUME NEW g \in Goroutines \ {"main"}, at'[g] = at[g], pc(g)' = pc(g), at[g] = 0 \/ over(g)
      PROVE  at'[g] = 0 \/ over(g)'
  BY <1>1, <1>2 DEF over, length, text
<1> SUFFICES ASSUME alone', NEW g \in Goroutines \ {"main"} PROVE at'[g] = 0 \/ over(g)'
  BY DEF Aside
<1>3. CASE Statement("main")
  <2>1. /\ at["main"] \in 1 .. Len(text("main")) /\ at'["main"] = at["main"] + 1
        /\ text("main")[at["main"]][1] = "wait" => WgWait("main")
        /\ text("main")[at["main"]][1] # "go" => at'[g] = at[g]
    BY <1>3, Who, AppsAssumption
  <2>2. at["main"] \in Nat \ {0} /\ alone_at(program, at["main"] + 1)
    BY <1>1, <2>1, AppsAssumption DEF alone, Started
  <2>3. text("main")[at["main"]][1] # "go" /\ (text("main")[at["main"]][1] = "wait" \/ alone)
    BY <2>2, AloneNext DEF text, text_of, alone
  <2>4. at'[g] = at[g]
    BY <2>1, <2>3
  <2>5. pc(g)' = pc(g)
    BY <1>1, <1>3, StatementMovesOne, AppsAssumption DEF pc
  <2>6. at[g] = 0 \/ over(g)
    BY <2>1, <2>3 DEF Aside, WgWait, all_done
  <2> QED BY <1>2, <2>4, <2>5, <2>6
<1>4. CASE ~Statement("main")
  <2>1. alone
    BY <1>4, MainStays
  <2>2. at[g] = 0 \/ over(g)
    BY <2>1 DEF Aside
  <2>3. at'[g] = at[g] /\ pc(g)' = pc(g)
    <3>1. \A h \in Goroutines : ~Statement(h)
      BY <1>4, <2>1, NobodyElse
    <3>2. \A h \in Goroutines \ {"main"} : ~Inside(h) /\ ~Send(h)
      BY <2>1, NobodyElse
    <3>3. CASE AppInside("main") \/ AppSend("main")
      <4>1. (Inside("main") \/ Send("main")) /\ at' = at
        BY <3>3 DEF AppInside, AppSend, Below
      <4> QED BY <4>1, MovesOne, AppsAssumption DEF pc
    <3>4. CASE AppServe
      BY <3>4 DEF AppServe, Serve, ServeStart, ServeSample, ServeValues, ServeReport, ReportFail,
         ReportDone, ServeBenchmarks, BenchmarkSample, BenchmarksDone, ServeStop, ServeFinish, pc
    <3>5. CASE (\E h \in Goroutines : Timeout(h)) \/ UNCHANGED allvars
      BY <3>5 DEF Timeout, allvars, appvars, vars, pc
    <3> QED BY <3>1, <3>2, <3>3, <3>4, <3>5 DEF AppsNext, AppInside, AppSend, Below
  <2> QED BY <1>2, <2>2, <2>3
<1> QED BY <1>3, <1>4

-------------------------------------------------------------------------------
(***************************************************************************)
(* Who waits for what.                                                     *)
(***************************************************************************)
\* g waits for an answer to a request of these kinds, or is about to.
Awaits(g, T) ==
  \/ \E k \in 1 .. Len(outer) : outer[k].from = g /\ outer[k].ttype \in T
  \/ current.from = g /\ current.ttype \in T
  \/ reply[g].ttype \in T

Sends(g, T) == pc(g) = "send" /\ go[g].out.ttype \in T

\* What somebody awaits has been sent for.
LEMMA AwaitsSent ==
  ASSUME IInv, Balance, NEW T \in SUBSET Answered, [Next]_vars, NEW h \in Goroutines,
         Awaits(h, T)'
  PROVE  Awaits(h, T) \/ Sends(h, T)
<1>1. CASE UNCHANGED <<outer, current, reply>>
  BY <1>1 DEF Awaits
<1>2. \A t \in T : t # "none" /\ t # "A"
  BY DEF Answered
<1>3. outer \in Seq(Msg) /\ go \in [Goroutines -> Goroutine] /\ DOMAIN reply = Goroutines
  BY DEF IInv, Typed, Balance
<1>4. ASSUME NEW g \in Goroutines, Enter(g) \/ Inside(g) PROVE Awaits(h, T) \/ Sends(h, T)
  <2>1. CASE CallReturn(g)
    <3>1. UNCHANGED <<outer, current>> /\ reply'[h] \in {reply[h], NoReply}
      BY <1>3, <2>1 DEF CallReturn, srvvars
    <3>2. NoReply.ttype \notin T
      BY <1>2 DEF NoReply
    <3> QED BY <3>1, <3>2 DEF Awaits
  <2>2. CASE InitBuild(g)
    <3>1. outer' = << >> /\ UNCHANGED <<current, reply>>
      BY <2>2 DEF InitBuild, srvvars
    <3>2. \A k \in 1 .. Len(outer') : FALSE
      BY <3>1
    <3> QED BY <3>1, <3>2 DEF Awaits
  <2> QED
    BY <1>1, <1>4, <2>1, <2>2 DEF Enter, InitCall, CallRefused, SelfStart, Call, Begin, EndTest,
       EndIgnored, vars, Inside, OnceEnter, OnceReturn, InitComplete, InitGo, EndMark,
       EndRefused, EndSubmit, SelfSample, SelfAbort, SelfDone, srvvars
<1>5. ASSUME NEW g \in Goroutines, Send(g) PROVE Awaits(h, T) \/ Sends(h, T)
  <2> DEFINE m == go[g].out
  <2>1. pc(g) = "send" /\ outer' = Append(outer, m) /\ UNCHANGED <<current, reply>>
    BY <1>5 DEF Send, enqueue, srvvars
  <2>2. m \in Msg /\ (m.ttype \in T => m.from = g)
    BY <1>3 DEF Balance, Addressed, Goroutine
  <2> HIDE DEF m
  <2>3. \A k \in 1 .. Len(outer') : outer'[k] = m \/ (k \in 1 .. Len(outer) /\ outer'[k] = outer[k])
    BY <1>3, <2>1, <2>2, AppendProperties
  <2>4. m.from = h /\ m.ttype \in T => Sends(h, T)
    BY <2>1, <2>2 DEF Sends, m
  <2> QED BY <2>1, <2>3, <2>4 DEF Awaits
<1>6. CASE Serve
  <2>1. \A k \in 1 .. Len(Tail(outer)) :
          outer # << >> => k + 1 \in 1 .. Len(outer) /\ Tail(outer)[k] = outer[k + 1]
    BY <1>3, HeadTailProperties
  <2>2. outer # << >> => 1 \in 1 .. Len(outer) /\ Head(outer) = outer[1]
    BY <1>3
  <2>3. outer' = outer \/ (outer # << >> /\ outer' = Tail(outer))
    BY <1>6 DEF Serve, ServeStart, ServeSample, ServeValues, ServeReport, ReportFail,
       ReportDone, ServeBenchmarks, BenchmarkSample, BenchmarksDone, ServeStop, ServeFinish,
       receive, after_and_update
  <2>4. \A k \in 1 .. Len(outer') : \E j \in 1 .. Len(outer) : outer'[k] = outer[j]
    BY <2>1, <2>3
  <2>5. current' \in {current, NoMsg} \/ (outer # << >> /\ current' = Head(outer))
    BY <1>6 DEF Serve, ServeStart, ServeSample, ServeValues, ServeReport, ReportFail,
       ReportDone, ServeBenchmarks, BenchmarkSample, BenchmarksDone, ServeStop, ServeFinish,
       receive, srvvars, back_to_select
  <2>6. NoMsg.ttype \notin T
    BY <1>2 DEF NoMsg, request_msg
  <2>7. reply'[h].ttype \in T => Awaits(h, T)
    <3>1. CASE reply' = reply
      BY <3>1 DEF Awaits
    <3>2. ASSUME NEW m, NEW e, NEW r, answer(m, e, r), reply'[h].ttype \in T,
                 m = current \/ (outer # << >> /\ m = Head(outer))
          PROVE  Awaits(h, T)
      <4>1. reply'[h] = reply[h] \/ (m.from = h /\ reply'[h].ttype = m.ttype)
        BY <1>3, <3>2 DEF answer
      <4> QED BY <2>2, <3>2, <4>1 DEF Awaits
    <3>3. CASE ServeValues
      BY <3>2, <3>3 DEF ServeValues, receive
    <3>4. CASE ReportFail \/ ReportDone \/ BenchmarksDone
      BY <3>2, <3>4 DEF ReportFail, ReportDone, BenchmarksDone
    <3> QED
      BY <1>6, <3>1, <3>3, <3>4 DEF Serve, ServeStart, ServeSample, ServeReport,
         ServeBenchmarks, BenchmarkSample, ServeStop, ServeFinish
  <2> QED BY <2>2, <2>4, <2>5, <2>6, <2>7 DEF Awaits
<1>7. CASE UNCHANGED vars
  BY <1>1, <1>7 DEF vars, srvvars
<1> QED BY <1>4, <1>5, <1>6, <1>7 DEF Next

\* What somebody is sending it was sending before, or it is a sample, or it
\* has just been called for.
LEMMA NewMessage ==
  ASSUME IInv, CallsAllowed, TextsFinite, Started, [AppsNext]_allvars, NEW h \in Goroutines,
         pc(h)' = "send"
  PROVE  \/ pc(h) = "send" /\ go'[h].out = go[h].out
         \/ go'[h].out.ttype = "A"
         \/ /\ CallRequest(h) /\ go'[h].out.ttype \in Answered \cup {"stop"}
            /\ text(h)[at[h]][1] = go'[h].out.ttype
<1> DEFINE Goal == \/ pc(h) = "send" /\ go'[h].out = go[h].out
                   \/ go'[h].out.ttype = "A"
                   \/ /\ CallRequest(h) /\ go'[h].out.ttype \in Answered \cup {"stop"}
                      /\ text(h)[at[h]][1] = go'[h].out.ttype
<1>1. go \in [Goroutines -> Goroutine] /\ program \in Programs
  BY DEF IInv, Typed, Started
<1>2. CASE go'[h] = go[h]
  BY <1>2 DEF pc
<1>3. CASE CallRequest(h)
  <2>1. pc(h) = "idle"
    BY <1>3, Advances DEF Statement
  <2> HIDE DEF Goal
  <2>2. ASSUME NEW t \in {"values", "report", "benchmarks", "stop"}, NEW k,
               about_to(h, t) /\ Call(h, t, k)
        PROVE  Goal
    <3>1. go'[h].out.ttype = t
      BY <1>1, <2>2 DEF Call, request_msg
    <3>2. text(h)[at[h]][1] = t
      BY <1>1, <2>2, Stands DEF text
    <3> QED BY <1>3, <3>1, <3>2 DEF Goal, Answered
  <2>3. ASSUME CallRefused(h) PROVE Goal
    <3>1. pc(h)' = pc(h)
      BY <1>1, <2>3 DEF CallRefused, pc, Goroutine
    <3> QED BY <2>1, <3>1
  <2>4. ASSUME about_to(h, "values") /\ Call(h, "values", next_op(h)[2]) PROVE Goal
    BY <2>2, <2>4, Zenon
  <2>5. ASSUME NEW r \in {"report", "benchmarks", "stop"},
               about_to(h, r) /\ Call(h, r, OVERHEAD_SPAN)
        PROVE  Goal
    <3>1. r \in {"values", "report", "benchmarks", "stop"}
      OBVIOUS
    <3> QED BY <2>2, <2>5, <3>1, Zenon
  <2>6. Goal
    BY <1>3, <2>3, <2>4, <2>5 DEF CallRequest
  <2> QED BY <2>6 DEF Goal
<1>4. ASSUME Statement(h), ~CallRequest(h) PROVE Goal
  <2>1. pc(h) = "idle"
    BY <1>4, Advances
  <2>2. pc(h)' # "send"
    <3>1. CASE CallInit(h)
      BY <1>1, <3>1 DEF CallInit, InitCall, pc
    <3>2. CASE CallB(h)
      BY <2>1, <3>2 DEF CallB, Begin, pc
    <3>3. CASE CallA(h)
      <4>1. PICK s, v : EndTest(h, s, v) \/ EndIgnored(h, s)
        BY <3>3 DEF CallA
      <4>2. EndTest(h, s, v) => pc(h)' = "mark"
        BY <1>1 DEF EndTest, pc
      <4>3. EndIgnored(h, s) => pc(h)' = pc(h)
        BY DEF EndIgnored, vars, pc
      <4> QED BY <2>1, <4>1, <4>2, <4>3
    <3>4. CASE CallSelfSample(h)
      BY <1>1, <3>4 DEF CallSelfSample, SelfStart, pc
    <3>5. CASE SetPath(h) \/ GoStatement(h) \/ WgWait(h) \/ Cancel(h) \/ CheckContext(h)
      BY <2>1, <3>5 DEF SetPath, GoStatement, WgWait, Cancel, CheckContext, vars, pc
    <3> QED BY <1>4, <3>1, <3>2, <3>3, <3>4, <3>5 DEF Statement
  <2> QED BY <2>2
<1>5. CASE Inside(h) \/ Send(h)
  <2>1. CASE EndSubmit(h)
    <3>1. PICK n, v, d, s : go'[h].out = sample_msg(h, n, v, d, s)
      BY <1>1, <2>1 DEF EndSubmit
    <3> QED BY <3>1 DEF sample_msg
  <2>2. CASE SelfSample(h)
    <3>1. PICK n, v, d, s : go'[h].out = sample_msg(h, n, v, d, s)
      BY <1>1, <2>2 DEF SelfSample
    <3> QED BY <3>1 DEF sample_msg
  <2>3. CASE Send(h)
    <3>1. pc(h)' = after_send(go[h].out)
      BY <1>1, <2>3 DEF Send, pc
    <3> QED BY <3>1 DEF after_send
  <2>4. CASE CallReturn(h) \/ OnceEnter(h) \/ OnceReturn(h) \/ InitBuild(h) \/ InitComplete(h)
             \/ InitGo(h) \/ SelfDone(h)
    <3>1. \A l : goto(h, l) => pc(h)' = l
      BY <1>1 DEF goto, pc
    <3>2. pc(h)' # "send"
      BY <2>4, <3>1 DEF CallReturn, OnceEnter, OnceReturn, InitBuild, InitComplete, InitGo, SelfDone
    <3> QED BY <3>2
  <2>5. CASE EndMark(h)
    BY <1>1, <2>5 DEF EndMark, pc
  <2>6. CASE EndRefused(h)
    BY <1>1, <2>6 DEF EndRefused, pc
  <2>7. CASE SelfAbort(h)
    BY <1>1, <2>7 DEF SelfAbort, pc
  <2> QED BY <1>5, <2>1, <2>2, <2>3, <2>4, <2>5, <2>6, <2>7 DEF Inside
<1>6. ASSUME NEW g \in Goroutines \ {h}, Statement(g) \/ Inside(g) \/ Send(g) PROVE Goal
  <2>1. go'[h] = go[h]
    BY <1>1, <1>6, StatementMovesOne, MovesOne
  <2> QED BY <1>2, <2>1
<1>7. CASE AppServe
  <2>1. go' = go
    BY <1>7 DEF AppServe, Serve, ServeStart, ServeSample, ServeValues, ServeReport, ReportFail,
       ReportDone, ServeBenchmarks, BenchmarkSample, BenchmarksDone, ServeStop, ServeFinish
  <2> QED BY <1>2, <2>1
<1>8. CASE (\E g \in Goroutines : Timeout(g)) \/ UNCHANGED allvars
  BY <1>2, <1>8 DEF Timeout, allvars, vars
<1>9. CASE Statement(h)
  BY <1>3, <1>4, <1>9
<1> HIDE DEF Goal
<1>10. Goal
  BY <1>2, <1>5, <1>6, <1>7, <1>8, <1>9 DEF AppsNext, AppInside, AppSend, Below, Goal
<1> QED BY <1>10 DEF Goal

-------------------------------------------------------------------------------
(***************************************************************************)
(* What main is told when it is alone.  Its request is the last thing in   *)
(* the queue, every span that has ended is ahead of it or accounted, and   *)
(* none is ended while main waits.                                         *)
(***************************************************************************)
\* All spans that have ended are accounted.
Counted == \A s \in Spans : ssu[s].Ended => recorded[s] > 0

\* What the rows then say.
LEMMA Numbers ==
  ASSUME KeysDistinct, Standing, OnePlace, RowsCountSpans, Counted,
         NEW n \in Names \ (own_rows \cup {OVERHEAD_SPAN})
  PROVE  /\ n \in Keys /\ learners[n].Weight = Cardinality(ended(n))
         /\ \A v \in Variants \ {no_variant} :
              /\ Reg!span_key_form(n, v) \in Keys
              /\ learners[Reg!span_key_form(n, v)].Weight = Cardinality(ended_as(n, v))
<1> DEFINE key(m, v) == Reg!span_key_form(m, v)
<1>1. /\ \A s \in Spans : ssu[s].Name \in Names /\ ssu[s].Variant \in Variants
      /\ \A s \in Spans : recorded[s] > 0 <=> ssu[s].Ended
  <2>1. \A s \in Spans : ssu[s].Name \in Names /\ ssu[s].Variant \in Variants
    BY DEF Standing, IInv, Typed, SSU
  <2>2. ASSUME NEW s \in Spans, recorded[s] > 0 PROVE ssu[s].Ended
    <3>1. recorded[s] \in Nat /\ In(outer, For(s)) \in Nat /\ accepted[s] = recorded[s] + In(outer, For(s))
      BY OfFinite DEF Standing, IInv, Typed, Kept, Counts, Conserved
    <3>2. accepted[s] # 0
      BY <2>2, <3>1
    <3> QED BY <3>2 DEF OnePlace
  <2> QED BY <2>1, <2>2 DEF Counted
<1>2. \A m \in Names : key(m, no_variant) = m
  BY DEF Reg!span_key_form, no_variant
<1>3. \A m \in Names, v \in Variants : key(m, v) \in Keys
  BY DEF Keys, Reg!Keys
<1>4. \A m, o \in Names : \A v, w \in Variants : key(m, v) = key(o, w) => m = o /\ v = w
  BY DEF KeysDistinct
<1>5. \A s : rows_of(s) = {ssu[s].Name, key(ssu[s].Name, ssu[s].Variant)}
  BY DEF rows_of
<1>6. own_rows \cup {OVERHEAD_SPAN} \subseteq Names
  BY OwnNames, Constants
<1> HIDE DEF key
<1>7. counted_in(n) = ended(n)
  <2>1. ASSUME NEW s \in Spans PROVE n \in rows_of(s) <=> ssu[s].Name = n
    BY <1>1, <1>2, <1>4, <1>5, NoVariant
  <2> QED BY <1>1, <2>1 DEF counted_in, ended
<1>8. n \in Keys /\ n \notin own_rows \cup {OVERHEAD_SPAN}
  BY NameIsKey
<1>9. ASSUME NEW v \in Variants \ {no_variant}
      PROVE  /\ key(n, v) \in Keys \ (own_rows \cup {OVERHEAD_SPAN})
             /\ counted_in(key(n, v)) = ended_as(n, v)
  <2>1. \A m \in Names : key(n, v) # m
    BY <1>2, <1>4, NoVariant
  <2>2. ASSUME NEW s \in Spans
        PROVE  key(n, v) \in rows_of(s) <=> ssu[s].Name = n /\ ssu[s].Variant = v
    BY <1>1, <1>4, <1>5, <2>1
  <2>3. counted_in(key(n, v)) = ended_as(n, v)
    BY <1>1, <2>2 DEF counted_in, ended, ended_as
  <2> QED BY <1>3, <1>6, <2>1, <2>3
<1> QED BY <1>7, <1>8, <1>9 DEF RowsCountSpans, key

LEMMA NoRow ==
  ASSUME Standing, NEW k \in Keys, ~Reg!found(learners, k)
  PROVE  learners[k].Weight = 0
BY DEF Standing, RegistryTyped, Reg!TypeOK, Keys, Reg!NoLearner, Reg!fresh

\* So a report that is made then is exact.
LEMMA ShownExact ==
  ASSUME KeysDistinct, Standing, OnePlace, RowsCountSpans, Counted
  PROVE  Exact(shown_rows)
<1> DEFINE T == {tracked_spans[i] : i \in DOMAIN tracked_spans}
<1>1. T = {k \in Keys : Reg!found(learners, k)}
  BY TrackedRows DEF Standing
<1>2. DOMAIN shown_rows = T /\ \A k \in T : shown_rows[k] = learners[k]
  BY DEF shown_rows
<1> HIDE DEF T
<1>3. \A k \in Keys : weight(shown_rows, k) = learners[k].Weight
  BY <1>1, <1>2, NoRow DEF weight
<1>4. ASSUME NEW n \in Names \ (own_rows \cup {OVERHEAD_SPAN})
      PROVE  /\ weight(shown_rows, n) = Cardinality(ended(n))
             /\ \A v \in Variants \ {no_variant} :
                  weight(shown_rows, Reg!span_key_form(n, v)) = Cardinality(ended_as(n, v))
  BY <1>3, Numbers
<1> QED BY <1>4 DEF Exact, no_variant

\* ... and so is an answer of Values.
LEMMA ValueExact ==
  ASSUME KeysDistinct, AsksAlone, Standing, OnePlace, RowsCountSpans, Counted, NEW k \in Asked,
         NEW e, e = IF Reg!found(learners, k) THEN learners[k] ELSE NoEntry
  PROVE  (IF e = NoEntry THEN 0 ELSE e.Weight) = Cardinality(ended(k))
<1>1. k \in Keys /\ learners[k].Weight = Cardinality(ended(k))
  BY Numbers DEF AsksAlone
<1>2. CASE Reg!found(learners, k)
  <2>1. learners[k] # NoEntry
    BY <1>2 DEF Reg!found, NoEntry
  <2> QED BY <1>1, <1>2, <2>1
<1>3. CASE ~Reg!found(learners, k)
  BY <1>1, <1>3, NoRow
<1> QED BY <1>2, <1>3

\* When main is alone and serve comes to its request, which nothing is behind,
\* there is no sample left.
LEMMA AllCounted ==
  ASSUME TextsFinite, Standing, OnePlace, NotLost, Started, Aside, alone, pc("main") = "wait",
         outer # << >>, asked_by(Head(outer), "main"), serve = "select",
         \A k \in 1 .. Len(outer) : asked_by(outer[k], "main") => k = Len(outer)
  PROVE  Counted
<1>1. outer \in Seq(Msg) /\ Len(outer) = 1 /\ Head(outer) = outer[1]
  <2>1. outer \in Seq(Msg)
    BY DEF Standing, IInv, Typed
  <2>2. 1 \in 1 .. Len(outer) /\ Head(outer) = outer[1]
    BY <2>1
  <2> QED BY <2>1, <2>2
<1>2. Head(outer).ttype # "A" /\ Head(outer).span = None
  BY <1>1 DEF asked_by, Answered, Standing, Kept, Counts, Spanless
<1> SUFFICES ASSUME NEW s \in Spans, ssu[s].Ended PROVE recorded[s] > 0
  BY DEF Counted
<1>3. In(outer, For(s)) = 0
  <2>1. Of(outer, For(s)) = {}
    BY <1>1, <1>2, Constants DEF Of, For
  <2> QED BY <2>1, FS_EmptySet DEF In
<1>4. accepted[s] = recorded[s] /\ recorded[s] \in Nat
  BY <1>3 DEF Standing, Kept, Conserved, Counts
<1>5. accepted[s] > 0
  <2>1. \A g \in Goroutines : pc(g) \in {"idle", "wait"}
    BY NobodyElse
  <2>2. \A g \in Goroutines : go[g].handle # s /\ go[g].out.span # s
    BY <2>1, Constants DEF NotLost, Hands
  <2> QED BY <2>2 DEF NotLost, EndedNotLost, Serve_finished
<1> QED BY <1>4, <1>5

LEMMA WaitsAfterSend ==
  ASSUME IInv, NEW g \in Goroutines, Enter(g) \/ Inside(g)
  PROVE  pc(g)' = "wait" => pc(g) = "wait" /\ UNCHANGED vars
<1>1. go \in [Goroutines -> Goroutine]
  BY DEF IInv, Typed
<1>2. CASE Enter(g)
  <2>1. CASE InitCall(g)
    BY <1>1, <2>1 DEF InitCall, pc
  <2>2. CASE CallRefused(g)
    <3>1. pc(g)' = pc(g) /\ pc(g) = "idle"
      BY <1>1, <2>2 DEF CallRefused, May_call, Free, pc, Goroutine
    <3> QED BY <3>1
  <2>3. ASSUME NEW n, SelfStart(g, n) PROVE pc(g)' # "wait"
    BY <1>1, <2>3 DEF SelfStart, pc
  <2>4. ASSUME NEW r, NEW k, Call(g, r, k) PROVE pc(g)' # "wait"
    BY <1>1, <2>4 DEF Call, pc
  <2>5. ASSUME NEW s, NEW n, NEW v, Begin(g, s, n, v) PROVE pc(g)' # "wait"
    BY <2>5 DEF Begin, Free, pc
  <2>6. ASSUME NEW s, NEW w, EndTest(g, s, w) PROVE pc(g)' # "wait"
    BY <1>1, <2>6 DEF EndTest, pc
  <2>7. ASSUME NEW s, EndIgnored(g, s) PROVE pc(g)' # "wait"
    BY <2>7 DEF EndIgnored, Free, vars, pc
  <2> QED BY <1>2, <2>1, <2>2, <2>3, <2>4, <2>5, <2>6, <2>7 DEF Enter
<1>3. CASE Inside(g)
  <2>1. \A l : goto(g, l) => pc(g)' = l
    BY <1>1 DEF goto, pc
  <2>2. CASE CallReturn(g) \/ OnceEnter(g) \/ OnceReturn(g) \/ InitBuild(g) \/ InitComplete(g)
             \/ InitGo(g) \/ SelfDone(g)
    BY <2>1, <2>2 DEF CallReturn, OnceEnter, OnceReturn, InitBuild, InitComplete, InitGo, SelfDone
  <2>3. CASE EndMark(g)
    BY <1>1, <2>3 DEF EndMark, pc
  <2>4. CASE EndRefused(g)
    BY <1>1, <2>4 DEF EndRefused, pc
  <2>5. CASE EndSubmit(g)
    BY <1>1, <2>5 DEF EndSubmit, pc
  <2>6. CASE SelfSample(g)
    BY <1>1, <2>6 DEF SelfSample, pc
  <2>7. CASE SelfAbort(g)
    BY <1>1, <2>7 DEF SelfAbort, pc
  <2> QED BY <1>3, <2>2, <2>3, <2>4, <2>5, <2>6, <2>7 DEF Inside
<1> QED BY <1>2, <1>3

\* Whoever awaits an answer waits.
LEMMA AwaitsWaits ==
  ASSUME IInv, Balance, NEW T \in SUBSET Answered, NEW g \in Goroutines, Awaits(g, T)
  PROVE  pc(g) = "wait"
<1> SUFFICES ASSUME pc(g) # "wait" PROVE FALSE
  OBVIOUS
<1>1. reply[g] = NoReply /\ current.from # g /\ asks(outer, g) = {}
  BY NotWaiting DEF Free_of
<1>2. outer \in Seq(Msg)
  BY DEF IInv, Typed
<1>3. \A k \in 1 .. Len(outer) : outer[k].from = g => outer[k].ttype \notin T
  BY <1>1, <1>2 DEF asks
<1>4. NoReply.ttype \notin T
  BY DEF NoReply, Answered
<1> QED BY <1>1, <1>3, <1>4 DEF Awaits

\* Values is main's to ask, when it is alone.
ByMain ==
  \A g \in Goroutines : Awaits(g, {"values"}) \/ Sends(g, {"values"}) => g = "main" /\ alone

LEMMA ByMainHolds ==
  ASSUME CallsAllowed, TextsFinite, PathsFirst, MainLeads, AsksAlone, IInv, Balance, Started,
         ByMain, [AppsNext]_allvars
  PROVE  ByMain'
<1> SUFFICES ASSUME NEW g \in Goroutines, Awaits(g, {"values"})' \/ Sends(g, {"values"})'
             PROVE  g = "main" /\ alone'
  BY DEF ByMain
<1>1. program' = program /\ program \in Programs /\ [Next]_vars /\ {"values"} \in SUBSET Answered
  BY SameProgram, StepOfLatLearn DEF Started, Answered
<1>2. CASE Awaits(g, {"values"}) \/ Sends(g, {"values"})
  <2>1. g = "main" /\ alone
    BY <1>2 DEF ByMain
  <2>2. pc(g) # "idle"
    BY <1>1, <1>2, AwaitsWaits DEF Sends
  <2>3. ~Statement("main")
    BY <2>1, <2>2, Who
  <2> QED BY <2>1, <2>3, MainStays
<1>3. CASE ~Awaits(g, {"values"}) /\ ~Sends(g, {"values"})
  <2>1. Sends(g, {"values"})'
    BY <1>1, <1>3, AwaitsSent
  <2>2. pc(g)' = "send" /\ go'[g].out.ttype = "values"
    BY <2>1 DEF Sends
  <2>3. ~(pc(g) = "send" /\ go'[g].out = go[g].out)
    BY <1>3, <2>2 DEF Sends
  <2>4. CallRequest(g) /\ text(g)[at[g]][1] = "values"
    BY <2>2, <2>3, NewMessage
  <2>5. at[g] \in 1 .. Len(text(g))
    BY <2>4, Who DEF Statement
  <2>6. g = "main" /\ alone_at(program, at["main"])
    BY <1>1, <2>4, <2>5 DEF AsksAlone, text
  <2>7. at'["main"] = at["main"] + 1 /\ at["main"] \in Nat \ {0}
    BY <2>4, <2>5, <2>6, Who DEF Statement, Started
  <2>8. text_of(program, "main")[at["main"]][1] # "go"
    BY <2>4, <2>6 DEF text
  <2> QED BY <1>1, <2>6, <2>7, <2>8, AloneStays DEF alone
<1> QED BY <1>2, <1>3

-------------------------------------------------------------------------------
\* What main is told is right.
RowsTold == reply["main"].rows # NoRows => Exact(reply["main"].rows)

EntryTold ==
  (IF reply["main"].entry = NoEntry THEN 0 ELSE reply["main"].entry.Weight)
    = Cardinality(ended(reply["main"].key))

\* While main waits, and nobody else runs.
Settled ==
  alone /\ pc("main") = "wait" =>
    /\ \A k \in 1 .. Len(outer) : asked_by(outer[k], "main") => k = Len(outer)
    /\ current.from = "main" \/ reply["main"] # NoReply => Counted
    /\ RowsTold

\* What can happen then.
LEMMA MainWaiting ==
  ASSUME CallsAllowed, TextsFinite, PathsFirst, MainLeads, IInv, Started, Aside,
         [AppsNext]_allvars, alone', pc("main")' = "wait"
  PROVE  /\ alone
         /\ \/ Send("main")
            \/ pc("main") = "wait" /\ (Serve \/ UNCHANGED vars)
<1>1. program \in Programs /\ "main" \in Goroutines
  BY AppsAssumption DEF Started
<1>2. CASE Statement("main")
  <2>1. pc("main") = "idle"
    BY <1>1, <1>2, Who
  <2>2. Enter("main") \/ UNCHANGED vars
    BY <1>1, <1>2, StatementEnters
  <2>3. pc("main") = "wait"
    BY <1>1, <2>2, WaitsAfterSend DEF vars, pc
  <2> QED BY <2>1, <2>3
<1>3. CASE ~Statement("main")
  <2>1. alone
    BY <1>3, MainStays
  <2>2. \A h \in Goroutines \ {"main"} : ~Statement(h) /\ ~Inside(h) /\ ~Send(h)
    BY <2>1, NobodyElse
  <2>3. CASE Inside("main")
    BY <1>1, <2>1, <2>3, WaitsAfterSend
  <2>4. CASE AppServe
    <3>1. Serve /\ go' = go
      BY <2>4 DEF AppServe, Serve, ServeStart, ServeSample, ServeValues, ServeReport, ReportFail,
         ReportDone, ServeBenchmarks, BenchmarkSample, BenchmarksDone, ServeStop, ServeFinish
    <3> QED BY <2>1, <3>1 DEF pc
  <2>5. CASE (\E h \in Goroutines : Timeout(h)) \/ UNCHANGED allvars
    <3>1. UNCHANGED vars
      BY <2>5 DEF Timeout, allvars
    <3> QED BY <2>1, <3>1 DEF vars, pc
  <2> QED
    BY <1>3, <2>1, <2>2, <2>3, <2>4, <2>5 DEF AppsNext, AppInside, AppSend, Below
<1> QED BY <1>2, <1>3

\* What serve does to the answer for main.
LEMMA ServeAnswers ==
  ASSUME Standing, Serve, "main" \in Goroutines
  PROVE  /\ UNCHANGED <<go, ssu, accepted>>
         /\ Counted => Counted'
         /\ \/ outer' = outer
            \/ outer # << >> /\ serve = "select" /\ outer' = Tail(outer)
         /\ \/ current'.from # "main"
            \/ current' = current
            \/ outer # << >> /\ serve = "select" /\ current' = Head(outer) /\ asked_by(current', "main")
         /\ \/ reply'["main"] = reply["main"]
            \/ /\ ServeValues /\ asked_by(Head(outer), "main")
               /\ LET k == Head(outer).name IN
                  /\ reply'["main"].key = k /\ reply'["main"].rows = NoRows
                  /\ reply'["main"].entry = IF Reg!found(learners, k) THEN learners[k] ELSE NoEntry
            \/ /\ current.from = "main" /\ reply'["main"].ttype # "values"
               /\ reply'["main"].rows \in {NoRows, shown_rows}
<1>1. UNCHANGED <<go, ssu, accepted>>
  BY DEF Serve, ServeStart, ServeSample, ServeValues, ServeReport, ReportFail,
         ReportDone, ServeBenchmarks, BenchmarkSample, BenchmarksDone, ServeStop, ServeFinish, hist
<1>2. \A s \in Spans : recorded'[s] >= recorded[s] /\ recorded[s] \in Nat /\ recorded'[s] \in Nat
  <2>1. recorded \in [Spans -> Nat]
    BY DEF Standing, Kept, Counts
  <2>2. recorded' = recorded
          \/ \E m : recorded' = [s \in Spans |-> recorded[s] + IF s = m.span THEN 1 ELSE 0]
    BY DEF Serve, ServeStart, ServeSample, handle_msg_A, ServeValues, ServeReport, ReportFail,
       ReportDone, ServeBenchmarks, BenchmarkSample, BenchmarksDone, ServeStop, ServeFinish, hist
  <2> QED BY <2>1, <2>2
<1>3. Counted => Counted'
  BY <1>1, <1>2 DEF Counted
<1>4. outer' = outer \/ (outer # << >> /\ serve = "select" /\ outer' = Tail(outer))
  BY DEF Serve, ServeStart, ServeSample, ServeValues, ServeReport, ReportFail,
       ReportDone, ServeBenchmarks, BenchmarkSample, BenchmarksDone, ServeStop, ServeFinish,
       receive, after_and_update
<1>5. \/ current'.from # "main"
      \/ current' = current
      \/ outer # << >> /\ serve = "select" /\ current' = Head(outer) /\ asked_by(current', "main")
  <2>1. CASE ServeReport \/ ServeBenchmarks
    BY <2>1 DEF ServeReport, ServeBenchmarks, receive, asked_by, Answered
  <2>2. CASE ~ServeReport /\ ~ServeBenchmarks
    <3>1. current' \in {current, NoMsg}
      BY <2>2 DEF Serve, ServeStart, ServeSample, ServeValues, ReportFail, ReportDone,
         BenchmarkSample, BenchmarksDone, ServeStop, ServeFinish, back_to_select, srvvars
    <3>2. NoMsg.from # "main"
      BY Constants DEF NoMsg, request_msg
    <3> QED BY <3>1, <3>2
  <2> QED BY <2>1, <2>2
<1>6. DOMAIN reply = Goroutines
  BY DEF Standing, Balance
<1>7. CASE reply' = reply
  BY <1>1, <1>3, <1>4, <1>5, <1>7
<1>8. CASE ServeValues
  <2> DEFINE m == Head(outer)
             e == IF Reg!found(learners, m.name) THEN learners[m.name] ELSE NoEntry
  <2>1. answer(m, e, NoRows) /\ m.ttype = "values"
    BY <1>8 DEF ServeValues, receive
  <2> HIDE DEF m, e
  <2>2. reply'["main"] = reply["main"]
          \/ (m.from = "main" /\ reply'["main"].key = m.name /\ reply'["main"].rows = NoRows
                /\ reply'["main"].entry = e)
    BY <1>6, <2>1 DEF answer
  <2>3. m.from = "main" => asked_by(m, "main")
    BY <2>1 DEF asked_by, Answered
  <2> QED BY <1>1, <1>3, <1>4, <1>5, <1>8, <2>2, <2>3 DEF m, e
<1>9. CASE ReportFail \/ ReportDone \/ BenchmarksDone
  <2>1. current.ttype # "values"
    BY <1>9 DEF ReportFail, ReportDone, BenchmarksDone, Standing, Minding
  <2>2. ASSUME NEW e, NEW r \in {NoRows, shown_rows}, answer(current, e, r)
        PROVE  reply'["main"] = reply["main"]
                 \/ (current.from = "main" /\ reply'["main"].ttype # "values"
                       /\ reply'["main"].rows \in {NoRows, shown_rows})
    BY <1>6, <2>1, <2>2 DEF answer
  <2>3. reply'["main"] = reply["main"]
          \/ (current.from = "main" /\ reply'["main"].ttype # "values"
                /\ reply'["main"].rows \in {NoRows, shown_rows})
    BY <1>9, <2>2 DEF ReportFail, ReportDone, BenchmarksDone
  <2> QED BY <1>1, <1>3, <1>4, <1>5, <2>3
<1> QED
  BY <1>7, <1>8, <1>9 DEF Serve, ServeStart, ServeSample, ServeReport, ServeBenchmarks,
     BenchmarkSample, ServeStop, ServeFinish

LEMMA SettledHolds ==
  ASSUME CallsAllowed, TextsFinite, PathsFirst, MainLeads, KeysDistinct,
         Standing, OnePlace, NotLost, RowsCountSpans, Started, Aside, Settled, [AppsNext]_allvars
  PROVE  Settled'
<1> SUFFICES ASSUME alone', pc("main")' = "wait"
             PROVE  /\ \A k \in 1 .. Len(outer') : asked_by(outer'[k], "main") => k = Len(outer')
                    /\ current'.from = "main" \/ reply'["main"] # NoReply => Counted'
                    /\ RowsTold'
  BY DEF Settled
<1>1. IInv /\ Balance /\ "main" \in Goroutines /\ outer \in Seq(Msg)
  BY AppsAssumption DEF Standing, IInv, Typed
<1>2. alone /\ (Send("main") \/ (pc("main") = "wait" /\ (Serve \/ UNCHANGED vars)))
  BY <1>1, MainWaiting
<1>3. CASE Send("main")
  <2> DEFINE m == go["main"].out
  <2>1. pc("main") = "send" /\ outer' = Append(outer, m) /\ UNCHANGED <<current, reply>>
    BY <1>3 DEF Send, enqueue, srvvars
  <2>2. reply["main"] = NoReply /\ current.from # "main" /\ asks(outer, "main") = {}
    BY <1>1, <2>1, NotWaiting DEF Free_of
  <2>3. m \in Msg
    BY <1>1 DEF IInv, Typed, Goroutine
  <2> HIDE DEF m
  <2>4. /\ Len(outer') = Len(outer) + 1
        /\ \A k \in 1 .. Len(outer') : k = Len(outer) + 1 \/ (k \in 1 .. Len(outer) /\ outer'[k] = outer[k])
    BY <1>1, <2>1, <2>3, AppendProperties
  <2>5. \A k \in 1 .. Len(outer) : ~asked_by(outer[k], "main")
    BY <1>1, <2>2 DEF asks, asked_by
  <2>6. NoReply.rows = NoRows
    BY DEF NoReply
  <2> QED BY <2>1, <2>2, <2>4, <2>5, <2>6 DEF RowsTold
<1>4. ASSUME pc("main") = "wait", Serve
      PROVE  /\ \A k \in 1 .. Len(outer') : asked_by(outer'[k], "main") => k = Len(outer')
             /\ current'.from = "main" \/ reply'["main"] # NoReply => Counted'
             /\ RowsTold'
  <2>1. /\ \A k \in 1 .. Len(outer) : asked_by(outer[k], "main") => k = Len(outer)
        /\ current.from = "main" \/ reply["main"] # NoReply => Counted
        /\ RowsTold
    BY <1>2, <1>4 DEF Settled
  <2>2. outer # << >> /\ serve = "select" /\ asked_by(Head(outer), "main") => Counted
    BY <1>2, <1>4, <2>1, AllCounted
  <2>3. ServeValues => outer # << >> /\ serve = "select"
    BY DEF ServeValues, receive
  <2>4. (Counted => Counted') /\ ssu' = ssu
    BY <1>1, <1>4, ServeAnswers
  <2>5. \A k \in 1 .. Len(outer') : asked_by(outer'[k], "main") => k = Len(outer')
    <3>1. CASE outer' = outer
      BY <2>1, <3>1
    <3>2. CASE outer # << >> /\ outer' = Tail(outer)
      <4>1. /\ Len(outer') = Len(outer) - 1 /\ Len(outer) \in Nat
            /\ \A k \in 1 .. Len(outer') : k + 1 \in 1 .. Len(outer) /\ outer'[k] = outer[k + 1]
        BY <1>1, <3>2, HeadTailProperties
      <4> QED BY <2>1, <4>1
    <3> QED BY <1>1, <1>4, <3>1, <3>2, ServeAnswers
  <2>6. current'.from = "main" => Counted
    BY <1>1, <1>4, <2>1, <2>2, ServeAnswers
  <2>7. reply'["main"] # NoReply => Counted
    <3>1. \/ reply'["main"] = reply["main"]
          \/ ServeValues /\ asked_by(Head(outer), "main")
          \/ current.from = "main"
      BY <1>1, <1>4, ServeAnswers
    <3> QED BY <2>1, <2>2, <2>3, <3>1
  <2>8. reply'["main"].rows # NoRows => Exact(reply'["main"].rows)
    <3>1. \/ reply'["main"] = reply["main"]
          \/ reply'["main"].rows = NoRows
          \/ current.from = "main" /\ reply'["main"].rows \in {NoRows, shown_rows}
      BY <1>1, <1>4, ServeAnswers
    <3>2. current.from = "main" => Exact(shown_rows)
      BY <2>1, ShownExact
    <3> QED BY <2>1, <3>1, <3>2 DEF RowsTold
  <2>9. \A n, v : ended(n)' = ended(n) /\ ended_as(n, v)' = ended_as(n, v)
    BY <2>4 DEF ended, ended_as
  <2>10. RowsTold'
    BY <2>8, <2>9 DEF RowsTold, Exact, weight
  <2> QED BY <2>4, <2>5, <2>6, <2>7, <2>10
<1>5. CASE pc("main") = "wait" /\ UNCHANGED vars
  BY <1>2, <1>5 DEF vars, srvvars, hist, Settled, Counted, RowsTold, Exact, ended, ended_as, pc
<1> QED BY <1>2, <1>3, <1>4, <1>5

LEMMA DecidesHold ==
  ASSUME CallsAllowed, TextsFinite, PathsFirst, MainLeads, AsksAlone, KeysDistinct,
         Standing, OnePlace, NotLost, RowsCountSpans, Started, Aside, Settled,
         DecidesOnAllIterations, ByMain', Standing', [AppsNext]_allvars
  PROVE  DecidesOnAllIterations'
<1> SUFFICES ASSUME NEW g \in Goroutines, reply'[g].ttype = "values" PROVE g = "main" /\ EntryTold'
  BY DEF DecidesOnAllIterations, EntryTold
<1>1. g = "main" /\ alone'
  BY DEF ByMain, Awaits
<1>2. pc("main")' = "wait"
  <2>1. (IInv /\ Balance)'
    BY DEF Standing
  <2>2. SUFFICES ASSUME pc("main")' # "wait" PROVE FALSE
    OBVIOUS
  <2>3. reply'["main"] = NoReply
    BY <1>1, <2>1, <2>2, NotWaitingNext DEF Free_of
  <2> QED BY <1>1, <2>3 DEF NoReply
<1>3. IInv /\ Balance /\ outer \in Seq(Msg)
  BY DEF Standing, IInv, Typed
<1>4. alone /\ (Send("main") \/ (pc("main") = "wait" /\ (Serve \/ UNCHANGED vars)))
  BY <1>1, <1>2, <1>3, MainWaiting
<1>5. ASSUME reply'["main"] = reply["main"], ssu' = ssu PROVE EntryTold'
  <2>1. EntryTold
    BY <1>1, <1>5 DEF DecidesOnAllIterations, EntryTold
  <2> QED BY <1>5, <2>1 DEF EntryTold, ended
<1>6. Send("main") \/ UNCHANGED vars => UNCHANGED <<reply, ssu>>
  BY DEF Send, vars
<1>7. ASSUME pc("main") = "wait", Serve PROVE EntryTold'
  <2>1. ssu' = ssu
    BY <1>1, <1>7, ServeAnswers
  <2>2. CASE reply'["main"] # reply["main"]
    <3>1. PICK k : k = Head(outer).name
      OBVIOUS
    <3>2. /\ ServeValues /\ asked_by(Head(outer), "main") /\ reply'["main"].key = k
          /\ reply'["main"].entry = IF Reg!found(learners, k) THEN learners[k] ELSE NoEntry
      BY <1>1, <1>7, <2>2, <3>1, ServeAnswers
    <3>3. outer # << >> /\ serve = "select" /\ Head(outer).ttype = "values"
      BY <3>2 DEF ServeValues, receive
    <3>4. Counted
      BY <1>4, <1>7, <3>2, <3>3, AllCounted DEF Settled
    <3>5. k \in Asked
      <4>1. 1 \in 1 .. Len(outer) /\ Head(outer) = outer[1]
        BY <1>3, <3>3
      <4> QED BY <3>1, <3>3, <4>1 DEF Standing, Named, NamedMsg
    <3>6. PICK e : e = reply'["main"].entry
      OBVIOUS
    <3>7. (IF e = NoEntry THEN 0 ELSE e.Weight) = Cardinality(ended(k))
      BY <3>2, <3>4, <3>5, <3>6, ValueExact
    <3> QED BY <2>1, <3>2, <3>6, <3>7 DEF EntryTold, ended
  <2> QED BY <1>5, <2>1, <2>2
<1> QED BY <1>1, <1>4, <1>5, <1>6, <1>7

-------------------------------------------------------------------------------
(***************************************************************************)
(* The last report.                                                        *)
(***************************************************************************)
\* Where main asks for its last report.
last_ask == CHOOSE r \in 1 .. Len(text("main")) : last_report_at(program, r)

reporting == pc("main") = "wait" \/ Sends("main", {"report"})

\* Before its last report main stops nothing, and so nobody does; after it
\* main is alone, does nothing but stop, and has what it was told.
Reporting ==
  program # "app5" =>
    /\ at["main"] \in 1 .. Len(text("main")) + 1
    /\ at["main"] <= last_ask => ~stopped /\ \A g \in Goroutines : ~Sends(g, {"stop"})
    /\ at["main"] > last_ask =>
         /\ pc("main") \in {"idle", "wait"} \/ Sends("main", {"report", "stop"})
         /\ ~Awaits("main", {"values", "benchmarks"})
         /\ last_report = NoRows \/ Exact(last_report) \/ reporting

LEMMA LastAsk ==
  ASSUME TextsFinite, ReportsLast, program \in Programs, program # "app5"
  PROVE  /\ Len(text("main")) \in Nat /\ last_ask \in 1 .. Len(text("main"))
         /\ text("main")[last_ask][1] = "report"
         /\ \A j \in 1 .. Len(text("main")) :
              /\ j > last_ask => text("main")[j][1] = "stop"
              /\ j < last_ask => text("main")[j][1] # "stop"
         /\ \A i \in 1 .. Len(text("main")) + 1 : i > last_ask => alone_at(program, i)
<1> DEFINE kind(j) == text_of(program, "main")[j][1]
           n == Len(text_of(program, "main"))
<1>1. text("main") = text_of(program, "main") /\ n \in Nat
  BY AppsAssumption DEF text, TextsFinite
<1>2. \E r \in 1 .. n : last_report_at(program, r)
  BY DEF ReportsLast
<1>3. last_ask \in 1 .. n /\ last_report_at(program, last_ask)
  BY <1>1, <1>2 DEF last_ask
<1>4. /\ kind(last_ask) = "report" /\ alone_at(program, last_ask)
      /\ \A j \in 1 .. n : (j > last_ask => kind(j) = "stop") /\ (j < last_ask => kind(j) # "stop")
  BY <1>3 DEF last_report_at
<1>5. \A j \in 1 .. last_ask - 1 : kind(j) = "go" => \E k \in j .. last_ask - 1 : kind(k) = "wait"
  BY <1>4 DEF alone_at
<1> HIDE DEF kind, n
<1>6. ASSUME NEW i \in 1 .. n + 1, i > last_ask, NEW j \in 1 .. i - 1, kind(j) = "go"
      PROVE  \E k \in j .. i - 1 : kind(k) = "wait"
  <2>1. j \in 1 .. n /\ j < last_ask
    BY <1>1, <1>3, <1>4, <1>6
  <2>2. PICK k \in j .. last_ask - 1 : kind(k) = "wait"
    BY <1>3, <1>5, <1>6, <2>1
  <2>3. k \in j .. i - 1
    BY <1>1, <1>3, <1>6, <2>1, <2>2
  <2> QED BY <2>2, <2>3
<1>7. \A i \in 1 .. n + 1 : i > last_ask => alone_at(program, i)
  BY <1>6 DEF alone_at, kind
<1> QED BY <1>1, <1>3, <1>4, <1>7 DEF kind, n

\* LatLearn refuses nobody who has waited for Init, before it is stopped.
LEMMA NotRefused ==
  ASSUME InitFirst, NotLost, Drain, ~stopped, NEW g \in Goroutines
  PROVE  ~CallRefused(g)
BY DEF CallRefused, May_call, Free, Refused, NotLost, Completed, Drain, Serve_finished

LEMMA StopSent ==
  ASSUME [Next]_vars, ~stopped, stopped'
  PROVE  \E g \in Goroutines : Sends(g, {"stop"})
<1>1. ASSUME NEW g \in Goroutines, Send(g) PROVE Sends(g, {"stop"})
  BY <1>1 DEF Send, Sends
<1>2. ASSUME NEW g \in Goroutines, Enter(g) \/ Inside(g) PROVE FALSE
  BY <1>2 DEF Enter, InitCall, CallRefused, SelfStart, Call, Begin, EndTest, EndIgnored, vars,
     Inside, OnceEnter, OnceReturn, InitBuild, InitComplete, InitGo, EndMark, EndRefused,
     EndSubmit, SelfSample, SelfAbort, SelfDone, CallReturn, hist
<1>3. CASE Serve
  BY <1>3 DEF Serve, ServeStart, ServeSample, ServeValues, ServeReport, ReportFail, ReportDone,
     ServeBenchmarks, BenchmarkSample, BenchmarksDone, ServeStop, ServeFinish, hist
<1>4. CASE UNCHANGED vars
  BY <1>4 DEF vars, hist
<1> QED BY <1>1, <1>2, <1>3, <1>4 DEF Next

LEMMA ExactStays ==
  ASSUME UNCHANGED <<ssu, last_report>>
  PROVE  Exact(last_report)' <=> Exact(last_report)
<1>1. \A n, v : ended(n)' = ended(n) /\ ended_as(n, v)' = ended_as(n, v)
  BY DEF ended, ended_as
<1> QED BY <1>1 DEF Exact, weight

\* What main's statement is.
LEMMA MainAsks ==
  ASSUME TextsFinite, program \in Programs, Started, Statement("main"),
         NEW kind \in {"report", "stop"}, text("main")[at["main"]][1] = kind
  PROVE  /\ CallRequest("main") /\ UNCHANGED <<ssu, outer, current, reply, last_report>>
         /\ Call("main", kind, OVERHEAD_SPAN) \/ CallRefused("main")
<1>1. \A k : about_to("main", k) => k = kind
  BY Stands, AppsAssumption DEF text
<1>2. CallRequest("main")
  BY <1>1 DEF Statement, CallInit, CallB, CallA, CallSelfSample, SetPath,
       GoStatement, WgWait, Cancel, CheckContext
<1>3. Call("main", kind, OVERHEAD_SPAN) \/ CallRefused("main")
  BY <1>1, <1>2 DEF CallRequest
<1> QED BY <1>2, <1>3 DEF CallRequest, Call, CallRefused, srvvars

LEMMA BeforeLast ==
  ASSUME CallsAllowed, TextsFinite, PathsFirst, MainLeads, ReportsLast, IInv, Started,
         program # "app5", at["main"] <= last_ask, ~stopped,
         \A g \in Goroutines : ~Sends(g, {"stop"}),
         [AppsNext]_allvars
  PROVE  ~stopped' /\ \A g \in Goroutines : ~Sends(g, {"stop"})'
<1>1. program \in Programs /\ [Next]_vars
  BY StepOfLatLearn DEF Started
<1>2. ~stopped'
  BY <1>1, StopSent
<1>3. ASSUME NEW g \in Goroutines, Sends(g, {"stop"})' PROVE FALSE
  <2>1. pc(g)' = "send" /\ go'[g].out.ttype = "stop"
    BY <1>3 DEF Sends
  <2>2. ~(pc(g) = "send" /\ go'[g].out = go[g].out)
    BY <2>1 DEF Sends
  <2>3. CallRequest(g) /\ text(g)[at[g]][1] = "stop"
    BY <2>1, <2>2, NewMessage
  <2>4. at[g] \in 1 .. Len(text(g))
    BY <2>3, Who DEF Statement
  <2>5. g = "main"
    BY <1>1, <2>3, <2>4 DEF MainLeads, text
  <2> QED BY <1>1, <2>3, <2>4, <2>5, LastAsk
<1> QED BY <1>2, <1>3

LEMMA AtLast ==
  ASSUME TextsFinite, MainLeads, InitFirst, IInv, Balance, NotLost, Drain, Started,
         ~stopped, Statement("main"), text("main")[at["main"]][1] = "report"
  PROVE  Sends("main", {"report"})' /\ ~Awaits("main", {"values", "benchmarks"})'
<1>1. "main" \in Goroutines /\ program \in Programs /\ go \in [Goroutines -> Goroutine]
      /\ outer \in Seq(Msg)
  BY AppsAssumption DEF Started, IInv, Typed
<1>2. Call("main", "report", OVERHEAD_SPAN) /\ UNCHANGED <<outer, current, reply>>
  BY <1>1, MainAsks, NotRefused
<1>3. Sends("main", {"report"})'
  BY <1>1, <1>2 DEF Call, request_msg, Sends, pc
<1>4. pc("main") # "wait"
  BY <1>2 DEF Call, May_call, Free
<1>5. ~Awaits("main", {"values", "benchmarks"})
  BY <1>1, <1>4, AwaitsWaits DEF Answered
<1> QED BY <1>2, <1>3, <1>5 DEF Awaits

LEMMA AfterLast ==
  ASSUME CallsAllowed, TextsFinite, PathsFirst, MainLeads, ReportsLast, Standing, Started, Aside,
         Settled, Reporting, program # "app5", at["main"] > last_ask, [AppsNext]_allvars
  PROVE  /\ pc("main")' \in {"idle", "wait"} \/ Sends("main", {"report", "stop"})'
         /\ ~Awaits("main", {"values", "benchmarks"})'
         /\ last_report' = NoRows \/ Exact(last_report)' \/ reporting'
<1> DEFINE Quietly == pc("main")' \in {"idle", "wait"} \/ Sends("main", {"report", "stop"})'
           Unasked == ~Awaits("main", {"values", "benchmarks"})'
           Told == last_report' = NoRows \/ Exact(last_report)' \/ reporting'
<1>1. /\ "main" \in Goroutines /\ program \in Programs /\ [Next]_vars
      /\ IInv /\ Balance /\ go \in [Goroutines -> Goroutine] /\ DOMAIN reply = Goroutines
  BY StepOfLatLearn, AppsAssumption DEF Started, Standing, IInv, Typed, Balance
<1>2. /\ at["main"] \in 1 .. Len(text("main")) + 1
      /\ pc("main") \in {"idle", "wait"} \/ Sends("main", {"report", "stop"})
      /\ ~Awaits("main", {"values", "benchmarks"})
      /\ last_report = NoRows \/ Exact(last_report) \/ reporting
  BY DEF Reporting
<1>3. alone
  BY <1>1, <1>2, LastAsk DEF alone
<1>4. \A h \in Goroutines \ {"main"} : ~Statement(h) /\ ~Inside(h) /\ ~Send(h)
  BY <1>3, NobodyElse
<1>5. Unasked
  <2>1. ~Sends("main", {"values", "benchmarks"})
    BY <1>2 DEF Sends
  <2> QED BY <1>1, <1>2, <2>1, AwaitsSent DEF Answered
<1> HIDE DEF Unasked
<1>6. ASSUME UNCHANGED <<go, ssu, last_report>> PROVE Quietly /\ Told
  BY <1>2, <1>6, ExactStays DEF Sends, reporting, pc
<1>7. CASE Statement("main")
  <2>1. at["main"] \in 1 .. Len(text("main")) /\ pc("main") = "idle"
    BY <1>1, <1>7, Who
  <2>2. text("main")[at["main"]][1] = "stop"
    BY <1>1, <2>1, LastAsk
  <2>3. /\ UNCHANGED <<ssu, last_report>>
        /\ Call("main", "stop", OVERHEAD_SPAN) \/ CallRefused("main")
    BY <1>1, <1>7, <2>2, MainAsks
  <2>4. Told
    BY <1>2, <2>1, <2>3, ExactStays DEF reporting, Sends
  <2>5. CASE Call("main", "stop", OVERHEAD_SPAN)
    <3>1. Sends("main", {"report", "stop"})'
      BY <1>1, <2>5 DEF Call, request_msg, Sends, pc
    <3> QED BY <1>5, <2>4, <3>1 DEF Unasked
  <2>6. CASE CallRefused("main")
    <3>1. pc("main")' = pc("main")
      BY <1>1, <2>6 DEF CallRefused, pc, Goroutine
    <3> QED BY <1>5, <2>1, <2>4, <3>1 DEF Unasked
  <2> QED BY <2>3, <2>5, <2>6
<1>8. ASSUME AppInside("main") PROVE Quietly /\ Told
  <2>1. CallReturn("main")
    <3>1. pc("main") \in {"idle", "wait", "send"} /\ Inside("main")
      BY <1>2, <1>8 DEF Sends, AppInside, Below
    <3> QED
      BY <3>1 DEF Inside, OnceEnter, OnceReturn, InitBuild, InitComplete, InitGo, EndMark,
         EndRefused, EndSubmit, SelfSample, SelfAbort, SelfDone
  <2>2. pc("main") = "wait" /\ pc("main")' = "idle" /\ reply["main"] # NoReply /\ ssu' = ssu
    BY <1>1, <2>1 DEF CallReturn, goto, pc
  <2>3. reply["main"].ttype = "report"
    BY <1>1, <1>2, <2>2 DEF Standing, Minding, Awaits, Answered
  <2>4. last_report' = reply["main"].rows
    BY <1>8, <2>2, <2>3 DEF AppInside, Below, returns
  <2>5. reply["main"].rows # NoRows => Exact(reply["main"].rows)
    BY <1>3, <2>2 DEF Settled, RowsTold
  <2>6. \A n, v : ended(n)' = ended(n) /\ ended_as(n, v)' = ended_as(n, v)
    BY <2>2 DEF ended, ended_as
  <2>7. last_report' = NoRows \/ Exact(last_report)'
    BY <2>4, <2>5, <2>6 DEF Exact, weight
  <2> QED BY <2>2, <2>7
<1>9. ASSUME AppSend("main") PROVE Quietly /\ Told
  <2> DEFINE m == go["main"].out
  <2>1. Send("main") /\ pc("main") = "send" /\ pc("main")' = after_send(m) /\ ssu' = ssu
    BY <1>1, <1>9 DEF AppSend, Below, Send, pc
  <2>2. m.ttype \in {"report", "stop"}
    BY <1>2, <2>1 DEF Sends
  <2>3. last_report' = last_report
    BY <1>9, <2>1 DEF AppSend, Below, returns
  <2>4. CASE m.ttype = "report"
    <3>1. pc("main")' = "wait"
      BY <2>1, <2>4 DEF after_send
    <3> QED BY <3>1 DEF reporting
  <2>5. CASE m.ttype = "stop"
    <3>1. pc("main")' = "idle"
      BY <2>1, <2>5 DEF after_send
    <3>2. ~reporting
      BY <2>1, <2>5 DEF reporting, Sends
    <3> QED BY <1>2, <2>1, <2>3, <3>1, <3>2, ExactStays
  <2> QED BY <2>2, <2>4, <2>5
<1>10. CASE AppServe
  <2>1. UNCHANGED <<go, ssu, last_report>>
    BY <1>10 DEF AppServe, Serve, ServeStart, ServeSample, ServeValues, ServeReport, ReportFail,
       ReportDone, ServeBenchmarks, BenchmarkSample, BenchmarksDone, ServeStop, ServeFinish
  <2> QED BY <1>5, <1>6, <2>1 DEF Unasked
<1>11. CASE (\E h \in Goroutines : Timeout(h)) \/ UNCHANGED allvars
  <2>1. UNCHANGED <<go, ssu, last_report>>
    BY <1>11 DEF Timeout, allvars, appvars, vars, reportvars
  <2> QED BY <1>5, <1>6, <2>1 DEF Unasked
<1> QED
  BY <1>4, <1>5, <1>7, <1>8, <1>9, <1>10, <1>11 DEF AppsNext, AppInside, AppSend, Below, Unasked

LEMMA ReportingHolds ==
  ASSUME CallsAllowed, TextsFinite, PathsFirst, MainLeads, ReportsLast, InitFirst,
         Standing, NotLost, Drain, Started, Aside, Settled, Reporting, [AppsNext]_allvars
  PROVE  Reporting'
<1> SUFFICES ASSUME program' # "app5" PROVE Reporting'
  BY DEF Reporting
<1>1. /\ program' = program /\ program # "app5" /\ program \in Programs
      /\ IInv /\ Balance /\ "main" \in Goroutines
  BY SameProgram, AppsAssumption DEF Started, Standing
<1>2. text("main")' = text("main") /\ last_ask' = last_ask
  BY <1>1 DEF text, last_ask
<1>3. last_ask \in 1 .. Len(text("main")) /\ Len(text("main")) \in Nat
      /\ at["main"] \in 1 .. Len(text("main")) + 1
  BY <1>1, LastAsk DEF Reporting
<1>4. /\ at'["main"] \in 1 .. Len(text("main")) + 1
      /\ \/ at'["main"] = at["main"]
         \/ /\ at'["main"] = at["main"] + 1 /\ Statement("main")
            /\ at["main"] \in 1 .. Len(text("main"))
  <2>1. CASE Statement("main")
    BY <1>1, <1>3, <2>1, Who
  <2>2. CASE ~Statement("main")
    BY <1>3, <2>2, MainStays
  <2> QED BY <2>1, <2>2
<1>5. at'["main"] <= last_ask => ~stopped' /\ \A g \in Goroutines : ~Sends(g, {"stop"})'
  <2>1. at'["main"] <= last_ask => at["main"] <= last_ask
    BY <1>3, <1>4
  <2> QED BY <1>1, <2>1, BeforeLast DEF Reporting
<1>6. at'["main"] > last_ask =>
        /\ pc("main")' \in {"idle", "wait"} \/ Sends("main", {"report", "stop"})'
        /\ ~Awaits("main", {"values", "benchmarks"})'
        /\ last_report' = NoRows \/ Exact(last_report)' \/ reporting'
  <2>1. CASE at["main"] > last_ask
    BY <1>1, <2>1, AfterLast
  <2>2. CASE at["main"] <= last_ask /\ at'["main"] > last_ask
    <3>1. at["main"] = last_ask /\ Statement("main")
      BY <1>3, <1>4, <2>2
    <3>2. ~stopped /\ text("main")[at["main"]][1] = "report"
      BY <1>1, <2>2, <3>1, LastAsk DEF Reporting
    <3>3. Sends("main", {"report"})' /\ ~Awaits("main", {"values", "benchmarks"})'
      BY <1>1, <3>1, <3>2, AtLast
    <3> QED BY <3>3 DEF Sends, reporting
  <2> QED BY <1>3, <2>1, <2>2
<1> QED BY <1>2, <1>4, <1>5, <1>6 DEF Reporting

-------------------------------------------------------------------------------
(***************************************************************************)
(* Along every run of a program.                                           *)
(***************************************************************************)
\* The inductive invariants, on top of those of LatLearn.
AloneInv == Started /\ Aside /\ Settled

LEMMA InitAlone == AppsInit => AloneInv /\ ByMain /\ DecidesOnAllIterations
<1> SUFFICES ASSUME AppsInit PROVE AloneInv /\ ByMain /\ DecidesOnAllIterations
  OBVIOUS
<1>1. /\ \A g \in Goroutines : pc(g) = "idle" /\ reply[g].ttype = "none"
      /\ outer = << >> /\ current.ttype = "none"
  BY DEF AppsInit, Init, AtRest, NoReply, NoMsg, request_msg, pc
<1>2. Started
  BY <1>1 DEF AppsInit, Started
<1>3. Aside
  BY DEF AppsInit, Aside
<1>4. Settled
  BY <1>1, AppsAssumption DEF Settled
<1>5. \A g \in Goroutines : ~Awaits(g, {"values"}) /\ ~Sends(g, {"values"})
  BY <1>1 DEF Awaits, Sends
<1>6. DecidesOnAllIterations
  BY <1>1 DEF DecidesOnAllIterations
<1> QED BY <1>2, <1>3, <1>4, <1>5, <1>6 DEF AloneInv, ByMain

\* What is known of LatLearn.
Known == Standing /\ OnePlace /\ NotLost /\ Drain /\ RowsCountSpans

LEMMA KnownHolds ==
  ASSUME CallsAllowed, InitFirst, NotShared, OwnApart, KeysDistinct
  PROVE  AppsSpec => []Known
<1>1. VariantsJoin
  BY DEF VariantsJoin
<1>2. Spec => []Standing
  BY <1>1, StandingHolds
<1>3. Spec => []OnePlace
  <2>1. Spec => [](IInv /\ Kept /\ OnePlace)
    BY OnePlaceHolds
  <2> QED BY <2>1, PTL
<1>4. Spec => []NotLost
  BY <1>1, NotLostHolds
<1>5. Spec => []Drain
  BY DrainHolds
<1>6. Spec => []RowsCountSpans
  BY RowsAreTallies
<1> QED BY <1>2, <1>3, <1>4, <1>5, <1>6, ProgramsAreCallers, PTL DEF Known

LEMMA AloneHolds ==
  ASSUME CallsAllowed, TextsFinite, PathsFirst, MainLeads, InitFirst, NotShared, OwnApart,
         KeysDistinct
  PROVE  AppsSpec => [](Known /\ AloneInv)
<1>1. Known /\ AloneInv /\ [AppsNext]_allvars => AloneInv'
  <2> SUFFICES ASSUME Known, AloneInv, [AppsNext]_allvars PROVE AloneInv'
    OBVIOUS
  <2>1. IInv
    BY DEF Known, Standing
  <2>2. Started'
    BY <2>1, StartedHolds DEF AloneInv
  <2>3. Aside'
    BY <2>1, AsideHolds DEF AloneInv
  <2>4. Settled'
    BY SettledHolds DEF Known, AloneInv
  <2> QED BY <2>2, <2>3, <2>4 DEF AloneInv
<1> QED BY <1>1, InitAlone, KnownHolds, PTL DEF AppsSpec

(***************************************************************************)
(* Whenever Values answers a program, the answer counts every span of that *)
(* name that has been ended, though A returned before it was accounted:    *)
(* the programs ask when nobody else runs, and the question queues up      *)
(* behind the samples.  example-app2.go never adapts to a stale figure.    *)
(***************************************************************************)
THEOREM DecidesRightly ==
  ASSUME CallsAllowed, TextsFinite, PathsFirst, MainLeads, AsksAlone, InitFirst, NotShared,
         OwnApart, KeysDistinct
  PROVE  AppsSpec => []DecidesOnAllIterations
<1>1. Known /\ AloneInv /\ ByMain /\ [AppsNext]_allvars => ByMain'
  <2> SUFFICES ASSUME Known, AloneInv, ByMain, [AppsNext]_allvars PROVE ByMain'
    OBVIOUS
  <2> QED BY ByMainHolds DEF Known, Standing, AloneInv
<1>2. Known /\ AloneInv /\ DecidesOnAllIterations /\ Known' /\ ByMain' /\ [AppsNext]_allvars
        => DecidesOnAllIterations'
  BY DecidesHold DEF Known, AloneInv
<1> QED BY <1>1, <1>2, InitAlone, AloneHolds, PTL DEF AppsSpec

(***************************************************************************)
(* When main is over, its last report, if it could be written, is of every *)
(* span that has been ended and of each once: it is asked for when nobody  *)
(* else runs, it queues up behind all samples, and nothing ends a span     *)
(* after it.                                                               *)
(***************************************************************************)
THEOREM LastReportIsExact ==
  ASSUME CallsAllowed, TextsFinite, PathsFirst, MainLeads, ReportsLast, InitFirst, NotShared,
         OwnApart, KeysDistinct
  PROVE  AppsSpec => []LastReportExact
<1>1. AppsInit => Reporting
  <2> SUFFICES ASSUME AppsInit, program # "app5" PROVE Reporting
    BY DEF Reporting
  <2>1. program \in Programs /\ at["main"] = 1 /\ ~stopped /\ last_report = NoRows
        /\ \A g \in Goroutines : pc(g) = "idle"
    BY AppsAssumption DEF AppsInit, Init, AtRest, pc
  <2>2. last_ask \in 1 .. Len(text("main")) /\ Len(text("main")) \in Nat
    BY <2>1, LastAsk
  <2> QED BY <2>1, <2>2 DEF Reporting, Sends
<1>2. Known /\ AloneInv /\ Reporting /\ [AppsNext]_allvars => Reporting'
  BY ReportingHolds DEF Known, AloneInv
<1>3. AloneInv /\ Reporting => LastReportExact
  <2> SUFFICES ASSUME AloneInv, Reporting, exited, program # "app5", last_report # NoRows
               PROVE  Exact(last_report)
    BY DEF LastReportExact
  <2>1. at["main"] > Len(text("main")) /\ pc("main") = "idle"
    BY DEF exited, over, length
  <2>2. at["main"] > last_ask
    <3>1. last_ask \in 1 .. Len(text("main")) /\ Len(text("main")) \in Nat
          /\ at["main"] \in 1 .. Len(text("main")) + 1
      BY LastAsk DEF AloneInv, Started, Reporting
    <3> QED BY <2>1, <3>1
  <2> QED BY <2>1, <2>2 DEF Reporting, reporting, Sends
<1> QED BY <1>1, <1>2, <1>3, AloneHolds, PTL DEF AppsSpec

===============================================================================
