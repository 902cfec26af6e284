---------------------------- MODULE LatLearnProofs ----------------------------
(***************************************************************************)
(* Proofs about LatLearn, for any number of goroutines, spans and calls,   *)
(* any names and variants and any capacity of the channel: that the        *)
(* statistics behave as Registry, and what becomes of a span that was      *)
(* ended.                                                                  *)
(***************************************************************************)
EXTENDS LatLearn, SequenceTheorems, FiniteSetTheorems, FunctionTheorems, TLAPS

\* What an "A" message carries can be accounted.
SampleOK(m) ==
  m.ttype = "A" => m.name \in Names /\ m.variant \in Variants /\ m.dur \in Durs

InitLabels == {"init_inner", "init_built", "init_go"}

Typed ==
  /\ outer \in Seq(Msg)
  /\ comm_outer \in {"nil", "chan"}
  /\ ssu \in [Spans -> SSU]
  /\ go \in [Goroutines -> Goroutine]
  /\ step \in Nat /\ step > 0

SamplesOK ==
  /\ \A k \in 1 .. Len(outer) : SampleOK(outer[k])
  /\ \A g \in Goroutines : SampleOK(go[g].out)

\* A goroutine that is ending a span holds it, and may still join a variant.
EndsOK ==
  /\ \A g \in Goroutines :
       /\ pc(g) \in {"mark", "check"} => go[g].handle \in Spans
       /\ pc(g) = "mark" =>
            /\ go[g].end \in EndVariants
            /\ go[g].handle \in Holds[g] /\ ssu[go[g].handle].begun
            /\ NotShared => ~ssu[go[g].handle].Ended
  /\ \A s \in Spans : ssu[s].begun /\ ~ssu[s].Ended => \E b \in Begins : ssu[s].Variant = b[2]

\* sync.Once lets one goroutine, once, into init_inner, and serve starts after.
InitOnce ==
  /\ init_once = "new" => ~registered /\ \A g \in Goroutines : pc(g) \notin InitLabels
  /\ \A g, h \in Goroutines : pc(g) \in InitLabels /\ pc(h) \in InitLabels => g = h
  /\ \A g \in Goroutines : pc(g) = "init_inner" => ~registered
  /\ \A g \in Goroutines : pc(g) \in {"init_built", "init_go"} => registered
  /\ serve # "absent" => registered
  /\ init_once = "new" \/ (\E g \in Goroutines : pc(g) \in InitLabels) => serve = "absent"

IInv == Typed /\ SamplesOK /\ EndsOK /\ InitOnce

-------------------------------------------------------------------------------
LEMMA Constants ==
  /\ Reg!ConstantsOK
  /\ OVERHEAD_SPAN \in Names /\ REPORT_SPAN \in Names /\ BENCH_SPAN \in Names
  /\ BenchPlan \in Seq(Names)
  /\ Holds \in [Goroutines -> SUBSET Spans]
  /\ SelfCounts \subseteq Nat /\ MaxCalls \in Nat
  /\ Asked \subseteq Keys
  /\ Requests \subseteq {"values", "report", "benchmarks", "stop"}
  /\ \A b \in Begins : b[1] \in Names /\ b[2] \in Variants
  /\ \A b \in Begins, w \in EndVariants : end_variant(b[2], w) \in Variants
  /\ None \notin Spans /\ None \notin Goroutines
BY LatLearnAssumption

LEMMA NoVariant == no_variant \in Variants /\ no_variant \in Ends /\ EndVariants \subseteq Ends
BY Constants, Zenon DEF Reg!ConstantsOK, Ends, no_variant

LEMMA NameIsKey == ASSUME NEW n \in Names PROVE n \in Keys
<1>1. Reg!span_key_form(n, no_variant) = n
  BY DEF Reg!span_key_form, no_variant
<1>2. Reg!span_key_form(n, no_variant) \in Reg!Keys
  BY NoVariant DEF Reg!Keys
<1> QED
  BY <1>1, <1>2 DEF Keys

LEMMA SampleMsg ==
  ASSUME NEW g \in Goroutines \cup {None}, NEW n \in Names, NEW v \in Variants,
         NEW d \in Durs, NEW s \in Spans \cup {None}
  PROVE  sample_msg(g, n, v, d, s) \in Msg /\ SampleOK(sample_msg(g, n, v, d, s))
BY NameIsKey DEF sample_msg, Msg, SampleOK

LEMMA RequestMsg ==
  ASSUME NEW g \in Goroutines \cup {None}, NEW k \in Keys,
         NEW t \in {"none", "values", "report", "benchmarks", "stop"}
  PROVE  request_msg(g, t, k) \in Msg /\ SampleOK(request_msg(g, t, k))
BY NoVariant DEF request_msg, Msg, SampleOK

LEMMA NoMsgTyped == NoMsg \in Msg /\ SampleOK(NoMsg)
BY RequestMsg, NameIsKey, Constants DEF NoMsg

LEMMA InitIInv == Init => IInv
<1> SUFFICES ASSUME Init PROVE IInv
  OBVIOUS
<1>1. AtRest \in Goroutine /\ AtRest.pc = "idle" /\ AtRest.out = NoMsg
  BY NoMsgTyped, NoVariant, Constants DEF AtRest, Goroutine, Labels
<1>2. Typed
  BY <1>1, NoVariant, Constants DEF Init, Typed, SSU
<1>3. SamplesOK
  BY <1>1, NoMsgTyped DEF Init, SamplesOK
<1>4. EndsOK
  BY <1>1 DEF Init, EndsOK, pc
<1>5. InitOnce
  BY <1>1 DEF Init, InitOnce, pc, InitLabels, Reg!Init
<1> QED
  BY <1>2, <1>3, <1>4, <1>5 DEF IInv

-------------------------------------------------------------------------------
(***************************************************************************)
(* Steps of a goroutine that neither begin nor end anything.               *)
(***************************************************************************)
\* Such a step: g moves to a place outside of init_inner and of the ends.
Plain(g) ==
  /\ go' \in [Goroutines -> Goroutine]
  /\ \A h \in Goroutines \ {g} : go'[h] = go[h]
  /\ SampleOK(go'[g].out)
  /\ go'[g].pc \notin InitLabels \cup {"mark", "check"}
  /\ UNCHANGED <<outer, comm_outer, ssu, init_once, registered, serve, step>>

LEMMA PlainIInv ==
  ASSUME IInv, NEW g \in Goroutines, Plain(g)
  PROVE  IInv'
<1>1. Typed'
  BY DEF IInv, Typed, Plain
<1>2. SamplesOK'
  BY DEF IInv, SamplesOK, Plain
<1>3. EndsOK'
  BY DEF IInv, EndsOK, Plain, pc
<1>4. InitOnce'
  <2>1. \A h \in Goroutines : pc(h)' \in InitLabels => pc(h) \in InitLabels /\ pc(h)' = pc(h)
    BY DEF Plain, pc
  <2> QED
    BY <2>1 DEF IInv, InitOnce, Plain, InitLabels
<1> QED
  BY <1>1, <1>2, <1>3, <1>4 DEF IInv

LEMMA CallsPlain ==
  ASSUME IInv, NEW g \in Goroutines
  PROVE  /\ CallRefused(g) => Plain(g)
         /\ CallReturn(g) => Plain(g)
         /\ \A n \in SelfCounts : SelfStart(g, n) => Plain(g)
         /\ \A r \in Requests, k \in Keys : Call(g, r, k) => Plain(g)
<1> USE DEF Labels, InitLabels, pc, goto, Free, May_call, regvars, initvars, srvvars
<1>1. /\ go \in [Goroutines -> Goroutine] /\ SampleOK(go[g].out)
      /\ comm_outer \in {"nil", "chan"}
  BY DEF IInv, Typed, SamplesOK
<1>2. ASSUME CallRefused(g) PROVE Plain(g)
  <2>1. go[g].calls + 1 \in 0 .. MaxCalls
    BY <1>1, <1>2, Constants DEF CallRefused, Goroutine
  <2>2. go' \in [Goroutines -> Goroutine]
    BY <1>1, <1>2, <2>1 DEF CallRefused, Goroutine
  <2> QED
    BY <1>1, <1>2, <2>2 DEF CallRefused, Plain, Goroutine
<1>3. ASSUME CallReturn(g) PROVE Plain(g)
  BY <1>1, <1>3, Constants DEF CallReturn, Plain, Goroutine
<1>4. ASSUME NEW n \in SelfCounts, SelfStart(g, n) PROVE Plain(g)
  <2>1. go[g].calls + 1 \in 0 .. MaxCalls
    BY <1>1, <1>4, Constants DEF SelfStart, Goroutine
  <2>2. go' \in [Goroutines -> Goroutine]
    <3> DEFINE r == [go[g] EXCEPT !.pc = "self", !.calls = @ + 1, !.left = n]
    <3>1. go' = [go EXCEPT ![g] = r]
      BY <1>1, <1>4 DEF SelfStart
    <3>2. r \in Goroutine
      BY <1>1, <2>1, Constants DEF Goroutine
    <3> QED
      BY <1>1, <3>1, <3>2
  <2> QED
    BY <1>1, <1>4, <2>2 DEF SelfStart, Plain, Goroutine
<1>5. ASSUME NEW r \in Requests, NEW k \in Keys, Call(g, r, k) PROVE Plain(g)
  <2>1. go[g].calls + 1 \in 0 .. MaxCalls
    BY <1>1, <1>5, Constants DEF Call, Goroutine
  <2>2. request_msg(g, r, k) \in Msg /\ SampleOK(request_msg(g, r, k))
    BY RequestMsg, Constants
  <2>3. go' \in [Goroutines -> Goroutine]
    BY <1>1, <1>5, <2>1, <2>2 DEF Call, Goroutine
  <2> QED
    BY <1>1, <1>5, <2>2, <2>3 DEF Call, Plain, Goroutine
<1> QED
  BY <1>2, <1>3, <1>4, <1>5

LEMMA InsidePlain ==
  ASSUME IInv, NEW g \in Goroutines
  PROVE  /\ InitCall(g) => Plain(g)
         /\ OnceReturn(g) => Plain(g)
         /\ EndRefused(g) => Plain(g)
         /\ EndSubmit(g) => Plain(g)
         /\ SelfSample(g) => Plain(g)
         /\ SelfAbort(g) => Plain(g)
         /\ SelfDone(g) => Plain(g)
<1> USE DEF Labels, InitLabels, pc, goto, regvars, initvars, srvvars
<1>1. /\ go \in [Goroutines -> Goroutine] /\ SampleOK(go[g].out)
      /\ ssu \in [Spans -> SSU] /\ comm_outer \in {"nil", "chan"}
      /\ go[g].pc = "check" => go[g].handle \in Spans
  BY DEF IInv, Typed, SamplesOK, EndsOK
<1>2. ASSUME InitCall(g) PROVE Plain(g)
  <2>1. go[g].calls + 1 \in 0 .. MaxCalls
    BY <1>1, <1>2, Constants DEF InitCall, Goroutine
  <2>2. go' \in [Goroutines -> Goroutine]
    BY <1>1, <1>2, <2>1 DEF InitCall, Goroutine
  <2> QED
    BY <1>1, <1>2, <2>2 DEF InitCall, Plain, Goroutine
<1>3. ASSUME OnceReturn(g) PROVE Plain(g)
  BY <1>1, <1>3 DEF OnceReturn, Plain, Goroutine
<1>4. ASSUME EndRefused(g) PROVE Plain(g)
  <2>1. go' \in [Goroutines -> Goroutine]
    <3> DEFINE r == [go[g] EXCEPT !.pc = "idle", !.handle = None, !.chan = "nil"]
    <3>1. go' = [go EXCEPT ![g] = r]
      BY <1>1, <1>4 DEF EndRefused
    <3>2. r \in Goroutine
      BY <1>1 DEF Goroutine
    <3> QED
      BY <1>1, <3>1, <3>2
  <2> QED
    BY <1>1, <1>4, <2>1 DEF EndRefused, Plain, Goroutine
<1>5. ASSUME EndSubmit(g) PROVE Plain(g)
  <2>1. PICK d \in Durs :
          go' = [go EXCEPT ![g].pc = "send", ![g].handle = None,
                           ![g].out = sample_msg(g, ssu[go[g].handle].Name,
                                                 ssu[go[g].handle].Variant, d, go[g].handle)]
    BY <1>5 DEF EndSubmit
  <2>2. go[g].handle \in Spans /\ ssu[go[g].handle] \in SSU
    BY <1>1, <1>5 DEF EndSubmit
  <2> DEFINE m == sample_msg(g, ssu[go[g].handle].Name, ssu[go[g].handle].Variant, d, go[g].handle)
  <2>3. m \in Msg /\ SampleOK(m)
    BY <2>2, SampleMsg DEF SSU
  <2> HIDE DEF m
  <2>4. go' = [go EXCEPT ![g].pc = "send", ![g].handle = None, ![g].out = m]
    BY <2>1 DEF m
  <2>5. UNCHANGED <<outer, comm_outer, ssu, init_once, registered, serve, step>>
    BY <1>5 DEF EndSubmit
  <2>6. go' \in [Goroutines -> Goroutine]
    <3> DEFINE r == [go[g] EXCEPT !.pc = "send", !.handle = None, !.out = m]
    <3>1. go' = [go EXCEPT ![g] = r]
      BY <1>1, <2>4
    <3>2. r \in Goroutine
      BY <1>1, <2>3 DEF Goroutine
    <3> QED
      BY <1>1, <3>1, <3>2
  <2> QED
    BY <1>1, <2>3, <2>4, <2>5, <2>6 DEF Plain, Goroutine
<1>6. ASSUME SelfSample(g) PROVE Plain(g)
  <2>1. PICK d \in Durs :
          go' = [go EXCEPT ![g].pc = "send", ![g].left = @ - 1, ![g].chan = comm_outer,
                           ![g].out = sample_msg(g, OVERHEAD_SPAN, no_variant, d, None)]
    BY <1>6 DEF SelfSample
  <2>2. go[g].left - 1 \in Nat
    BY <1>1, <1>6 DEF SelfSample, Goroutine
  <2> DEFINE m == sample_msg(g, OVERHEAD_SPAN, no_variant, d, None)
  <2>3. m \in Msg /\ SampleOK(m)
    BY SampleMsg, NoVariant, Constants
  <2> HIDE DEF m
  <2>4. go' = [go EXCEPT ![g].pc = "send", ![g].left = @ - 1, ![g].chan = comm_outer,
                         ![g].out = m]
    BY <2>1 DEF m
  <2>5. UNCHANGED <<outer, comm_outer, ssu, init_once, registered, serve, step>>
    BY <1>6 DEF SelfSample
  <2> QED
    BY <1>1, <2>2, <2>3, <2>4, <2>5 DEF Plain, Goroutine
<1>7. ASSUME SelfAbort(g) PROVE Plain(g)
  BY <1>1, <1>7 DEF SelfAbort, Plain, Goroutine
<1>8. ASSUME SelfDone(g) PROVE Plain(g)
  BY <1>1, <1>8 DEF SelfDone, Plain, Goroutine
<1> QED
  BY <1>2, <1>3, <1>4, <1>5, <1>6, <1>7, <1>8

-------------------------------------------------------------------------------
(***************************************************************************)
(* Init and Init2.                                                         *)
(***************************************************************************)
LEMMA InitSteps ==
  ASSUME IInv, NEW g \in Goroutines,
         OnceEnter(g) \/ InitBuild(g) \/ InitComplete(g) \/ InitGo(g)
  PROVE  IInv'
<1> USE DEF pc, goto, regvars, initvars, srvvars
<1>1. /\ go \in [Goroutines -> Goroutine]
      /\ UNCHANGED <<ssu, step>> /\ comm_outer' \in {"nil", "chan"}
      /\ outer' = outer \/ outer' = << >>
  BY DEF IInv, Typed, OnceEnter, InitBuild, InitComplete, InitGo
<1>2. PICK label \in {"init_inner", "init_built", "init_go", "idle"} : go' = [go EXCEPT ![g].pc = label]
  BY DEF OnceEnter, InitBuild, InitComplete, InitGo
<1>3. /\ go' \in [Goroutines -> Goroutine] /\ go'[g].pc = label
      /\ \A h \in Goroutines : go'[h].out = go[h].out /\ go'[h].handle = go[h].handle
      /\ \A h \in Goroutines \ {g} : go'[h] = go[h]
  BY <1>1, <1>2 DEF Goroutine, Labels
<1>4. Typed'
  <2>1. outer \in Seq(Msg) /\ << >> \in Seq(Msg)
    BY DEF IInv, Typed
  <2>2. outer' \in Seq(Msg)
    BY <1>1, <2>1
  <2> QED
    BY <2>2, <1>1, <1>3 DEF IInv, Typed
<1>5. SamplesOK'
  BY <1>1, <1>3 DEF IInv, SamplesOK
<1>6. EndsOK'
  BY <1>1, <1>3 DEF IInv, EndsOK
<1>7. InitOnce'
  <2>1. CASE OnceEnter(g)
    <3>1. label = "init_inner"
      BY <2>1, <1>1, <1>2, <1>3 DEF OnceEnter, Goroutine
    <3> QED
      BY <2>1, <3>1, <1>3 DEF OnceEnter, once_open, IInv, InitOnce, InitLabels
  <2>2. CASE InitBuild(g)
    <3>1. label = "init_built"
      BY <2>2, <1>1, <1>2, <1>3 DEF InitBuild, Goroutine
    <3>2. registered'
      BY <2>2 DEF InitBuild, Reg!register
    <3> QED
      BY <2>2, <3>1, <3>2, <1>3 DEF InitBuild, IInv, InitOnce, InitLabels
  <2>3. CASE InitComplete(g)
    <3>1. label = "init_go"
      BY <2>3, <1>1, <1>2, <1>3 DEF InitComplete, Goroutine
    <3> QED
      BY <2>3, <3>1, <1>3 DEF InitComplete, IInv, InitOnce, InitLabels
  <2>4. CASE InitGo(g)
    <3>1. label = "idle"
      BY <2>4, <1>1, <1>2, <1>3 DEF InitGo, Goroutine
    <3> QED
      BY <2>4, <3>1, <1>3 DEF InitGo, IInv, InitOnce, InitLabels
  <2> QED
    BY <2>1, <2>2, <2>3, <2>4
<1> QED
  BY <1>4, <1>5, <1>6, <1>7 DEF IInv

-------------------------------------------------------------------------------
(***************************************************************************)
(* B, B2, A and A2, as far as Ended.                                       *)
(***************************************************************************)
LEMMA BeginIInv ==
  ASSUME IInv, NEW g \in Goroutines, NEW s \in Spans, NEW b \in Begins, Begin(g, s, b[1], b[2])
  PROVE  IInv'
<1> USE DEF pc, regvars, initvars, srvvars
<1>1. UNCHANGED <<outer, comm_outer, init_once, registered, serve, step, go>>
  BY DEF Begin
<1> DEFINE o == [begun |-> TRUE, Name |-> b[1], Variant |-> b[2], Ended |-> FALSE]
<1>2. ssu' = [ssu EXCEPT ![s] = o] /\ ~ssu[s].begun
  BY DEF Begin
<1>3. o \in SSU /\ o.Ended = FALSE /\ o.Variant = b[2]
  BY Constants DEF SSU
<1> HIDE DEF o
<1>4. ssu' \in [Spans -> SSU] /\ ssu'[s] = o /\ \A t \in Spans \ {s} : ssu'[t] = ssu[t]
  BY <1>2, <1>3 DEF IInv, Typed
<1>5. Typed'
  BY <1>1, <1>4 DEF IInv, Typed
<1>6. SamplesOK'
  BY <1>1 DEF IInv, SamplesOK
<1>7. EndsOK'
  BY <1>1, <1>2, <1>3, <1>4 DEF IInv, EndsOK
<1>8. InitOnce'
  BY <1>1 DEF IInv, InitOnce
<1> QED
  BY <1>5, <1>6, <1>7, <1>8 DEF IInv

LEMMA EndTestIInv ==
  ASSUME IInv, NEW g \in Goroutines, NEW s \in Spans, NEW w \in EndVariants, EndTest(g, s, w)
  PROVE  IInv'
<1> USE DEF pc, Free, regvars, initvars, srvvars
<1>1. UNCHANGED <<outer, comm_outer, init_once, registered, serve, step, ssu>>
  BY DEF EndTest
<1>2. /\ go \in [Goroutines -> Goroutine] /\ go[g].pc = "idle"
      /\ s \in Holds[g] /\ ssu[s].begun /\ ~ssu[s].Ended
  BY DEF IInv, Typed, EndTest, redundant
<1> DEFINE r == [go[g] EXCEPT !.pc = "mark", !.handle = s, !.end = w]
<1>3. go' = [go EXCEPT ![g] = r]
  BY <1>2 DEF EndTest
<1>4. r \in Goroutine /\ r.pc = "mark" /\ r.handle = s /\ r.end = w /\ r.out = go[g].out
  BY <1>2, NoVariant DEF Goroutine, Labels
<1> HIDE DEF r
<1>5. /\ go' \in [Goroutines -> Goroutine] /\ go'[g] = r
      /\ \A h \in Goroutines \ {g} : go'[h] = go[h]
  BY <1>2, <1>3, <1>4
<1>6. Typed'
  BY <1>1, <1>5 DEF IInv, Typed
<1>7. SamplesOK'
  BY <1>1, <1>4, <1>5 DEF IInv, SamplesOK
<1>8. EndsOK'
  BY <1>1, <1>2, <1>4, <1>5 DEF IInv, EndsOK
<1>9. InitOnce'
  BY <1>1, <1>4, <1>5 DEF IInv, InitOnce, InitLabels
<1> QED
  BY <1>6, <1>7, <1>8, <1>9 DEF IInv

\* Here the variants have to join.
LEMMA EndMarkIInv ==
  ASSUME VariantsJoin, IInv, NEW g \in Goroutines, EndMark(g)
  PROVE  IInv'
<1> USE DEF pc, regvars, initvars, srvvars
<1> DEFINE s == go[g].handle
           v == end_variant(ssu[s].Variant, go[g].end)
<1>1. UNCHANGED <<outer, comm_outer, init_once, registered, serve, step>>
  BY DEF EndMark
<1>2. /\ go \in [Goroutines -> Goroutine] /\ ssu \in [Spans -> SSU] /\ comm_outer \in {"nil", "chan"}
      /\ go[g].pc = "mark"
  BY DEF IInv, Typed, EndMark
<1>3. /\ s \in Spans /\ s \in Holds[g] /\ ssu[s].begun
      /\ go[g].end \in EndVariants
      /\ NotShared => ~ssu[s].Ended
  BY <1>2 DEF IInv, EndsOK
<1>4. v \in Variants
  <2>1. CASE NotShared
    <3>1. PICK b \in Begins : ssu[s].Variant = b[2]
      BY <2>1, <1>3 DEF IInv, EndsOK
    <3> QED
      BY <3>1, <1>3, Constants
  <2>2. CASE \A u \in Variants, w \in Ends : end_variant(u, w) \in Variants
    <3>1. ssu[s].Variant \in Variants /\ go[g].end \in Ends
      BY <1>2, <1>3, NoVariant DEF SSU
    <3> QED
      BY <2>2, <3>1
  <2> QED
    BY <2>1, <2>2 DEF VariantsJoin
<1> DEFINE o == [ssu[s] EXCEPT !.Ended = TRUE, !.Variant = v]
           r == [go[g] EXCEPT !.pc = "check", !.end = no_variant, !.chan = comm_outer]
<1>5. ssu' = [ssu EXCEPT ![s] = o] /\ go' = [go EXCEPT ![g] = r]
  BY <1>2, <1>3 DEF EndMark
<1>6. o \in SSU /\ o.Ended = TRUE /\ o.begun = ssu[s].begun
  BY <1>2, <1>3, <1>4 DEF SSU
<1>7. r \in Goroutine /\ r.pc = "check" /\ r.handle = s /\ r.out = go[g].out
  BY <1>2, NoVariant DEF Goroutine, Labels
<1> HIDE DEF o, r, v
<1>8. /\ go' \in [Goroutines -> Goroutine] /\ go'[g] = r
      /\ \A h \in Goroutines \ {g} : go'[h] = go[h]
      /\ ssu' \in [Spans -> SSU] /\ ssu'[s] = o
      /\ \A t \in Spans \ {s} : ssu'[t] = ssu[t]
  BY <1>2, <1>3, <1>5, <1>6, <1>7
<1> HIDE DEF s
<1>9. Typed'
  BY <1>1, <1>8 DEF IInv, Typed
<1>10. SamplesOK'
  BY <1>1, <1>7, <1>8 DEF IInv, SamplesOK
<1>11. EndsOK'
  <2>1. \A t \in Spans : ssu'[t].begun /\ ~ssu'[t].Ended => ssu'[t] = ssu[t]
    BY <1>6, <1>8
  <2>2. \A h \in Goroutines : go'[h].pc = "mark" => h # g /\ go'[h] = go[h]
    BY <1>7, <1>8
  <2>3. ASSUME NEW h \in Goroutines \ {g}, NotShared, go[h].pc = "mark"
        PROVE  go[h].handle # s
    <3>1. go[h].handle \in Holds[h] /\ Holds[h] \cap Holds[g] = {}
      BY <2>3 DEF IInv, EndsOK, NotShared
    <3> QED
      BY <3>1, <1>3
  <2>4. \A t \in Spans : ssu'[t].begun = ssu[t].begun
    BY <1>6, <1>8
  <2>5. \A h \in Goroutines : go'[h].pc \in {"mark", "check"} => go'[h].handle \in Spans
    BY <1>3, <1>7, <1>8 DEF IInv, EndsOK
  <2>6. ASSUME NEW h \in Goroutines, go'[h].pc = "mark"
        PROVE  /\ go'[h].end \in EndVariants
               /\ go'[h].handle \in Holds[h] /\ ssu'[go'[h].handle].begun
               /\ NotShared => ~ssu'[go'[h].handle].Ended
    <3>1. h # g /\ go'[h] = go[h] /\ go[h].pc = "mark"
      BY <2>2, <2>6
    <3>2. /\ go[h].end \in EndVariants /\ go[h].handle \in Spans
          /\ go[h].handle \in Holds[h] /\ ssu[go[h].handle].begun
          /\ NotShared => ~ssu[go[h].handle].Ended
      BY <3>1 DEF IInv, EndsOK
    <3> QED
      BY <3>1, <3>2, <2>3, <2>4, <1>8
  <2>7. \A t \in Spans : ssu'[t].begun /\ ~ssu'[t].Ended => \E b \in Begins : ssu'[t].Variant = b[2]
    BY <2>1 DEF IInv, EndsOK
  <2> QED
    BY <2>5, <2>6, <2>7 DEF EndsOK
<1>12. InitOnce'
  BY <1>1, <1>7, <1>8 DEF IInv, InitOnce, InitLabels
<1> QED
  BY <1>9, <1>10, <1>11, <1>12 DEF IInv

-------------------------------------------------------------------------------
(***************************************************************************)
(* The channel and serve.                                                  *)
(***************************************************************************)
LEMMA SendIInv ==
  ASSUME IInv, NEW g \in Goroutines, Send(g)
  PROVE  IInv'
<1> USE DEF pc, regvars, initvars, srvvars
<1> DEFINE m == go[g].out
           r == [go[g] EXCEPT !.pc = after_send(m), !.chan = "nil", !.out = NoMsg]
<1>1. UNCHANGED <<comm_outer, init_once, registered, serve, step, ssu>>
  BY DEF Send
<1>2. go \in [Goroutines -> Goroutine] /\ outer \in Seq(Msg) /\ m \in Msg /\ SampleOK(m)
  BY DEF IInv, Typed, SamplesOK, Goroutine
<1>3. go' = [go EXCEPT ![g] = r] /\ outer' = Append(outer, m)
  BY <1>2 DEF Send, enqueue
<1>4. after_send(m) \in {"self", "wait", "idle"}
  BY DEF after_send
<1>5. r \in Goroutine /\ r.pc \in {"self", "wait", "idle"} /\ r.out = NoMsg
  BY <1>2, <1>4, NoMsgTyped DEF Goroutine, Labels
<1> HIDE DEF m, r
<1>6. /\ go' \in [Goroutines -> Goroutine] /\ go'[g] = r
      /\ \A h \in Goroutines \ {g} : go'[h] = go[h]
  BY <1>2, <1>3, <1>5
<1>7. outer' \in Seq(Msg) /\ \A k \in 1 .. Len(outer') : outer'[k] = m \/ (k \in 1 .. Len(outer) /\ outer'[k] = outer[k])
  BY <1>2, <1>3
<1>8. Typed'
  BY <1>1, <1>6, <1>7 DEF IInv, Typed
<1>9. SamplesOK'
  BY <1>2, <1>5, <1>6, <1>7, NoMsgTyped DEF IInv, SamplesOK
<1>10. EndsOK'
  BY <1>1, <1>5, <1>6 DEF IInv, EndsOK
<1>11. InitOnce'
  BY <1>1, <1>5, <1>6 DEF IInv, InitOnce, InitLabels
<1> QED
  BY <1>8, <1>9, <1>10, <1>11 DEF IInv

LEMMA ServeIInv ==
  ASSUME IInv, Serve
  PROVE  IInv'
<1> USE DEF pc, regvars, initvars, srvvars
<1>1. UNCHANGED <<comm_outer, init_once, registered, ssu, go>>
  BY DEF Serve, ServeStart, ServeSample, ServeValues, ServeReport, ReportFail, ReportDone,
         ServeBenchmarks, BenchmarkSample, BenchmarksDone, ServeStop, ServeFinish,
         handle_msg_A, after_and_update, Reg!handle_ssu_A
<1>2. serve # "absent"
  BY DEF Serve, ServeStart, ServeSample, ServeValues, ServeReport, ReportFail, ReportDone,
         ServeBenchmarks, BenchmarkSample, BenchmarksDone, ServeStop, ServeFinish, receive
<1>3. outer' = outer \/ (outer # << >> /\ outer' = Tail(outer))
  BY DEF Serve, ServeStart, ServeSample, ServeValues, ServeReport, ReportFail, ReportDone,
         ServeBenchmarks, BenchmarkSample, BenchmarksDone, ServeStop, ServeFinish, receive,
         after_and_update
<1>4. outer' \in Seq(Msg) /\ \A k \in 1 .. Len(outer') : \E j \in 1 .. Len(outer) : outer'[k] = outer[j]
  <2>1. outer \in Seq(Msg)
    BY DEF IInv, Typed
  <2>2. CASE outer' = outer
    BY <2>1, <2>2
  <2>3. CASE outer # << >> /\ outer' = Tail(outer)
    <3>1. Len(outer) \in Nat /\ Len(outer) > 0
      BY <2>1, <2>3
    <3>2. outer' \in Seq(Msg) /\ Len(outer') = Len(outer) - 1
      BY <2>1, <2>3, HeadTailProperties
    <3>3. \A k \in 1 .. Len(outer') : outer'[k] = outer[k + 1]
      BY <2>1, <2>3, <3>2
    <3>4. \A k \in 1 .. Len(outer') : k + 1 \in 1 .. Len(outer)
      BY <3>1, <3>2
    <3> QED
      BY <3>2, <3>3, <3>4
  <2> QED
    BY <1>3, <2>2, <2>3
<1>5. Typed'
  <2>1. step' = step \/ step' = 1 \/ step' = step + 1
    BY DEF Serve, ServeStart, ServeSample, ServeValues, ServeReport, ReportFail, ReportDone,
           ServeBenchmarks, BenchmarkSample, BenchmarksDone, ServeStop, ServeFinish, back_to_select
  <2> QED
    BY <2>1, <1>1, <1>4 DEF IInv, Typed
<1>6. SamplesOK'
  BY <1>1, <1>4 DEF IInv, SamplesOK
<1>7. EndsOK'
  BY <1>1 DEF IInv, EndsOK
<1>8. InitOnce'
  BY <1>1, <1>2 DEF IInv, InitOnce
<1> QED
  BY <1>5, <1>6, <1>7, <1>8 DEF IInv

LEMMA NextIInv ==
  ASSUME VariantsJoin, IInv, [Next]_vars
  PROVE  IInv'
<1>1. CASE Serve
  BY <1>1, ServeIInv
<1>2. ASSUME NEW g \in Goroutines, Enter(g) PROVE IInv'
  <2>1. CASE InitCall(g)
    BY <2>1, InsidePlain, PlainIInv
  <2>2. CASE CallRefused(g)
    BY <2>2, CallsPlain, PlainIInv
  <2>3. ASSUME NEW n \in SelfCounts, SelfStart(g, n) PROVE IInv'
    BY <2>3, CallsPlain, PlainIInv
  <2>4. ASSUME NEW r \in Requests, NEW k \in keys_asked(r), Call(g, r, k) PROVE IInv'
    <3>1. k \in Keys
      BY NameIsKey, Constants DEF keys_asked
    <3> QED
      BY <2>4, <3>1, CallsPlain, PlainIInv
  <2>5. ASSUME NEW s \in Spans, NEW b \in Begins, Begin(g, s, b[1], b[2]) PROVE IInv'
    BY <2>5, BeginIInv
  <2>6. ASSUME NEW s \in Spans, NEW w \in EndVariants, EndTest(g, s, w) PROVE IInv'
    BY <2>6, EndTestIInv
  <2>7. ASSUME NEW s \in Spans, EndIgnored(g, s) PROVE IInv'
    BY <2>7 DEF EndIgnored, vars, regvars, initvars, srvvars, IInv, Typed, SamplesOK, EndsOK,
                InitOnce, pc
  <2> QED
    BY <1>2, <2>1, <2>2, <2>3, <2>4, <2>5, <2>6, <2>7 DEF Enter
<1>3. ASSUME NEW g \in Goroutines, Inside(g) PROVE IInv'
  <2>1. CASE OnceEnter(g) \/ InitBuild(g) \/ InitComplete(g) \/ InitGo(g)
    BY <2>1, InitSteps
  <2>2. CASE EndMark(g)
    BY <2>2, EndMarkIInv
  <2>3. CASE \/ OnceReturn(g) \/ EndRefused(g) \/ EndSubmit(g)
             \/ SelfSample(g) \/ SelfAbort(g) \/ SelfDone(g)
    BY <2>3, InsidePlain, PlainIInv
  <2>4. CASE CallReturn(g)
    BY <2>4, CallsPlain, PlainIInv
  <2> QED
    BY <1>3, <2>1, <2>2, <2>3, <2>4 DEF Inside
<1>4. ASSUME NEW g \in Goroutines, Send(g) PROVE IInv'
  BY <1>4, SendIInv
<1>5. CASE UNCHANGED vars
  BY <1>5 DEF vars, regvars, initvars, srvvars, IInv, Typed, SamplesOK, EndsOK, InitOnce, pc
<1> QED
  BY <1>1, <1>2, <1>3, <1>4, <1>5 DEF Next

LEMMA IInvHolds ==
  ASSUME VariantsJoin
  PROVE  Spec => []IInv
<1>1. Init => IInv
  BY InitIInv
<1>2. IInv /\ [Next]_vars => IInv'
  BY NextIInv
<1> QED
  BY <1>1, <1>2, PTL DEF Spec

-------------------------------------------------------------------------------
(***************************************************************************)
(* The refinement.  Only three kinds of step touch the registry.           *)
(***************************************************************************)
\* A sample of serve's own.
LEMMA OwnSample ==
  ASSUME NEW n \in Names, registered, after_and_update(n)
  PROVE  Reg!Next
<1>1. PICK d \in Durs : Reg!handle_ssu_A(n, no_variant, d)
  BY DEF after_and_update
<1> QED
  BY <1>1, NoVariant DEF Reg!Next, Reg!Sample

LEMMA ServeImplements ==
  ASSUME IInv, Serve
  PROVE  Reg!Next \/ UNCHANGED regvars
<1>1. serve # "absent" => registered
  BY DEF IInv, InitOnce
<1>2. CASE ServeSample
  <2> DEFINE m == Head(outer)
  <2>1. registered /\ outer # << >> /\ m.ttype = "A" /\ handle_msg_A(m)
    BY <1>1, <1>2 DEF ServeSample, receive
  <2>2. Len(outer) \in Nat \ {0} /\ m = outer[1]
    BY <2>1 DEF IInv, Typed
  <2>3. SampleOK(m)
    BY <2>2 DEF IInv, SamplesOK
  <2> HIDE DEF m
  <2>4. m.name \in Names /\ m.variant \in Variants /\ m.dur \in Durs
    BY <2>1, <2>3 DEF SampleOK
  <2>5. Reg!handle_ssu_A(m.name, m.variant, m.dur)
    BY <2>1 DEF handle_msg_A
  <2> QED
    BY <2>1, <2>4, <2>5 DEF Reg!Next, Reg!Sample
<1>3. CASE ReportDone
  BY <1>1, <1>3, OwnSample, Constants DEF ReportDone
<1>4. CASE BenchmarkSample
  <2>1. step \in 1 .. Len(BenchPlan) /\ BenchPlan[step] \in Names
    BY <1>4, Constants DEF BenchmarkSample, IInv, Typed
  <2> QED
    BY <1>1, <1>4, <2>1, OwnSample DEF BenchmarkSample
<1>5. CASE BenchmarksDone
  BY <1>1, <1>5, OwnSample, Constants DEF BenchmarksDone
<1>6. CASE \/ ServeStart \/ ServeValues \/ ServeReport \/ ReportFail \/ ServeBenchmarks
           \/ ServeStop \/ ServeFinish
  BY <1>6 DEF ServeStart, ServeValues, ServeReport, ReportFail, ServeBenchmarks, ServeStop,
              ServeFinish
<1> QED
  BY <1>2, <1>3, <1>4, <1>5, <1>6 DEF Serve

LEMMA NextImplements ==
  ASSUME IInv, [Next]_vars
  PROVE  [Reg!Next]_(Reg!regvars)
<1>1. ASSUME Serve PROVE Reg!Next \/ UNCHANGED regvars
  BY <1>1, ServeImplements
<1>2. ASSUME NEW g \in Goroutines, Enter(g) PROVE UNCHANGED regvars
  BY <1>2 DEF Enter, InitCall, CallRefused, SelfStart, Call, Begin, EndTest, EndIgnored, vars
<1>3. ASSUME NEW g \in Goroutines, InitBuild(g) PROVE Reg!Next
  <2>1. ~registered
    BY <1>3 DEF InitBuild, IInv, InitOnce
  <2> QED
    BY <1>3, <2>1 DEF InitBuild, Reg!Next, Reg!Register
<1>4. ASSUME NEW g \in Goroutines,
             \/ OnceEnter(g) \/ OnceReturn(g) \/ InitComplete(g) \/ InitGo(g)
             \/ EndMark(g) \/ EndRefused(g) \/ EndSubmit(g)
             \/ SelfSample(g) \/ SelfAbort(g) \/ SelfDone(g) \/ CallReturn(g) \/ Send(g)
      PROVE  UNCHANGED regvars
  BY <1>4 DEF OnceEnter, OnceReturn, InitComplete, InitGo, EndMark, EndRefused, EndSubmit,
              SelfSample, SelfAbort, SelfDone, CallReturn, Send
<1>5. UNCHANGED vars => UNCHANGED regvars
  BY DEF vars
<1>6. UNCHANGED regvars => UNCHANGED Reg!regvars
  BY DEF Reg!regvars, regvars
<1>7. Reg!Next \/ UNCHANGED Reg!regvars
  BY <1>1, <1>2, <1>3, <1>4, <1>5, <1>6 DEF Next, Inside
<1> QED
  BY <1>7, Zenon

(***************************************************************************)
(* Whatever the goroutines do and however they interleave, learners and    *)
(* tracked_spans go through the steps of the sequential registry and no    *)
(* others: one registration, and then whole samples, one after the other.  *)
(***************************************************************************)
THEOREM RefinesRegistry ==
  ASSUME VariantsJoin
  PROVE  Spec => ImplementsRegistry
<1>1. Init => Reg!Init
  BY DEF Init
<1>2. IInv /\ [Next]_vars => [Reg!Next]_(Reg!regvars)
  BY NextImplements
<1>3. Spec => []IInv
  BY IInvHolds
<1> QED
  BY <1>1, <1>2, <1>3, PTL DEF Spec, ImplementsRegistry, Reg!Spec

-------------------------------------------------------------------------------
(***************************************************************************)
(* What becomes of a span that was ended: it is in the channel or counted, *)
(* and, if no two goroutines have a pointer to it, only once.              *)
(***************************************************************************)

-------------------------------------------------------------------------------
(***************************************************************************)
(* How many elements of a kind are in a queue, and how that number changes *)
(* when one comes in at the end or goes out at the head.                   *)
(***************************************************************************)
\* The places in q of elements in S.
Of(q, S) == {i \in 1 .. Len(q) : q[i] \in S}
In(q, S) == Cardinality(Of(q, S))

LEMMA OfFinite ==
  ASSUME NEW E, NEW q \in Seq(E), NEW S
  PROVE  IsFiniteSet(Of(q, S)) /\ In(q, S) \in Nat
<1>1. IsFiniteSet(1 .. Len(q)) /\ Of(q, S) \in SUBSET (1 .. Len(q))
  BY FS_Interval DEF Of
<1>2. IsFiniteSet(Of(q, S))
  BY <1>1, FS_Subset
<1> QED
  BY <1>2, FS_CardinalityType DEF In

LEMMA InEmpty == ASSUME NEW S PROVE In(<< >>, S) = 0
<1>1. Of(<< >>, S) = {}
  BY DEF Of
<1> QED
  BY <1>1, FS_EmptySet DEF In

LEMMA InAppend ==
  ASSUME NEW E, NEW q \in Seq(E), NEW m \in E, NEW S
  PROVE  In(Append(q, m), S) = In(q, S) + (IF m \in S THEN 1 ELSE 0)
<1> DEFINE n == Len(q) + 1
<1>1. /\ Len(Append(q, m)) = n /\ Append(q, m)[n] = m /\ n \in Nat
      /\ \A i \in 1 .. Len(q) : Append(q, m)[i] = q[i]
  BY AppendProperties
<1>2. n \notin Of(q, S)
  BY DEF Of
<1>3. CASE m \in S
  <2>1. Of(Append(q, m), S) = Of(q, S) \cup {n}
    BY <1>1, <1>3 DEF Of
  <2> QED
    BY <2>1, <1>2, <1>3, OfFinite, FS_AddElement DEF In
<1>4. CASE m \notin S
  <2>1. Of(Append(q, m), S) = Of(q, S)
    BY <1>1, <1>4 DEF Of
  <2> QED
    BY <2>1, <1>4, OfFinite DEF In
<1> QED
  BY <1>3, <1>4

LEMMA InTail ==
  ASSUME NEW E, NEW q \in Seq(E), q # << >>, NEW S
  PROVE  In(q, S) = In(Tail(q), S) + (IF Head(q) \in S THEN 1 ELSE 0)
<1> DEFINE t == Tail(q)
           B == {i \in 2 .. Len(q) : q[i] \in S}
           f == [i \in Of(t, S) |-> i + 1]
<1>1. /\ t \in Seq(E) /\ Len(t) = Len(q) - 1 /\ Len(q) \in Nat \ {0} /\ Head(q) = q[1]
      /\ \A i \in 1 .. Len(t) : t[i] = q[i + 1]
  BY HeadTailProperties
<1>2. f \in [Of(t, S) -> B]
  BY <1>1 DEF Of
<1>3. \A a, b \in Of(t, S) : f[a] = f[b] => a = b
  BY DEF Of
<1>4. ASSUME NEW j \in B PROVE \E i \in Of(t, S) : f[i] = j
  <2>1. j - 1 \in 1 .. Len(t) /\ t[j - 1] = q[j]
    BY <1>1
  <2>2. j - 1 \in Of(t, S) /\ f[j - 1] = j
    BY <2>1 DEF Of
  <2> QED
    BY <2>2
<1>5. IsFiniteSet(B) /\ Cardinality(B) = In(t, S)
  <2>1. f \in Bijection(Of(t, S), B)
    BY <1>2, <1>3, <1>4, Fun_IsBij
  <2>2. ExistsBijection(Of(t, S), B)
    BY <2>1 DEF ExistsBijection
  <2> QED
    BY <2>2, <1>1, OfFinite, FS_Bijection DEF In
<1> HIDE DEF f, t
<1>6. CASE Head(q) \in S
  <2>1. Of(q, S) = B \cup {1} /\ 1 \notin B
    BY <1>1, <1>6 DEF Of
  <2> HIDE DEF B
  <2> QED
    BY <2>1, <1>5, <1>6, FS_AddElement DEF In, t
<1>7. CASE Head(q) \notin S
  <2>1. Of(q, S) = B
    BY <1>1, <1>7 DEF Of
  <2> HIDE DEF B
  <2>2. In(t, S) \in Nat
    BY <1>1, OfFinite
  <2> QED
    BY <2>1, <2>2, <1>5, <1>7 DEF In, t
<1> QED
  BY <1>6, <1>7

-------------------------------------------------------------------------------
(***************************************************************************)
(* The queue and the two counts.                                           *)
(***************************************************************************)
\* The messages for span s.
For(s) == {m \in Msg : m.span = s}

\* Only a sample carries a span.
Spanless(m) == m.ttype # "A" => m.span = None

Counts ==
  /\ accepted \in [Spans -> Nat] /\ recorded \in [Spans -> Nat]
  /\ \A k \in 1 .. Len(outer) : Spanless(outer[k])
  /\ \A g \in Goroutines : Spanless(go[g].out)

\* Nobody can have sent anything before the channel is made.
Unmade ==
  /\ init_once = "new" => comm_outer = "nil"
  /\ \A g \in Goroutines : pc(g) = "init_inner" => comm_outer = "nil"
  /\ comm_outer = "nil" => outer = << >> /\ \A g \in Goroutines : go[g].chan = "nil"

Conserved == \A s \in Spans : accepted[s] = recorded[s] + In(outer, For(s))

Kept == Counts /\ Unmade /\ Conserved

LEMMA KeptIsSampleConserved == ASSUME IInv, Kept PROVE SampleConserved
<1>1. outer \in Seq(Msg) /\ DOMAIN outer = 1 .. Len(outer) /\ \A i \in 1 .. Len(outer) : outer[i] \in Msg
  BY DEF IInv, Typed
<1>2. \A s \in Spans : waiting(s) = Of(outer, For(s))
  BY <1>1, Zenon DEF waiting, Of, For
<1> QED
  BY <1>2 DEF SampleConserved, Kept, Conserved, In

LEMMA InitKept == Init => Kept
<1> SUFFICES ASSUME Init PROVE Kept
  OBVIOUS
<1>1. \A g \in Goroutines : go[g] = AtRest
  BY DEF Init
<1>2. Counts
  BY <1>1 DEF Init, Counts, Spanless, AtRest, NoMsg, request_msg
<1>3. Unmade
  BY <1>1 DEF Init, Unmade, pc, AtRest
<1>4. Conserved
  <2>1. \A s \in Spans : Of(outer, For(s)) = {}
    BY DEF Init, Of
  <2>2. \A s \in Spans : In(outer, For(s)) = 0
    BY <2>1, FS_EmptySet DEF In
  <2>3. \A s \in Spans : accepted[s] = 0 /\ recorded[s] = 0
    BY DEF Init
  <2> QED
    BY <2>2, <2>3 DEF Conserved
<1> QED
  BY <1>2, <1>3, <1>4 DEF Kept

\* Steps that leave queue and counts alone, those of init_inner excepted.
Local(g) ==
  /\ \A h \in Goroutines \ {g} : go'[h] = go[h]
  /\ Spanless(go'[g].out)
  /\ go'[g].chan \in {go[g].chan, comm_outer, "nil"}
  /\ go'[g].pc # "init_inner" \/ comm_outer = "nil"
  /\ init_once' \in {init_once, "running"}
  /\ UNCHANGED <<outer, accepted, recorded, comm_outer>>

LEMMA LocalKept ==
  ASSUME Kept, NEW g \in Goroutines, Local(g)
  PROVE  Kept'
<1>1. Counts'
  BY DEF Kept, Counts, Local
<1>2. Unmade'
  BY DEF Kept, Unmade, Local, pc
<1>3. Conserved'
  BY DEF Kept, Conserved, Local, In, Of
<1> QED
  BY <1>1, <1>2, <1>3 DEF Kept

LEMMA EnterLocal ==
  ASSUME IInv, Kept, NEW g \in Goroutines, Enter(g)
  PROVE  Kept'
<1> USE DEF pc, initvars, hist
<1>1. /\ go \in [Goroutines -> Goroutine] /\ Spanless(go[g].out)
  BY DEF IInv, Typed, Kept, Counts
<1>2. CASE InitCall(g)
  <2>1. Local(g)
    BY <1>1, <1>2 DEF InitCall, Local, Goroutine
  <2> QED
    BY <2>1, LocalKept
<1>3. CASE CallRefused(g)
  <2>1. Local(g)
    BY <1>1, <1>3 DEF CallRefused, May_call, Free, Local, Goroutine
  <2> QED
    BY <2>1, LocalKept
<1>4. ASSUME NEW n \in SelfCounts, SelfStart(g, n) PROVE Kept'
  <2>1. Local(g)
    BY <1>1, <1>4 DEF SelfStart, Local, Goroutine
  <2> QED
    BY <2>1, LocalKept
<1>5. ASSUME NEW r \in Requests, NEW k \in Keys, Call(g, r, k) PROVE Kept'
  <2>1. Spanless(request_msg(g, r, k))
    BY DEF Spanless, request_msg
  <2>2. Local(g)
    BY <1>1, <1>5, <2>1 DEF Call, Local, Goroutine
  <2> QED
    BY <2>2, LocalKept
<1>6. ASSUME NEW s \in Spans, NEW b \in Begins, Begin(g, s, b[1], b[2]) PROVE Kept'
  <2>1. Local(g)
    BY <1>1, <1>6 DEF Begin, Free, Local
  <2> QED
    BY <2>1, LocalKept
<1>7. ASSUME NEW s \in Spans, NEW w \in EndVariants, EndTest(g, s, w) PROVE Kept'
  <2>1. Local(g)
    BY <1>1, <1>7 DEF EndTest, Local, Goroutine
  <2> QED
    BY <2>1, LocalKept
<1>8. ASSUME NEW s \in Spans, EndIgnored(g, s) PROVE Kept'
  <2>1. Local(g)
    BY <1>1, <1>8 DEF EndIgnored, vars, Free, Local
  <2> QED
    BY <2>1, LocalKept
<1> QED
  <2>1. \A r \in Requests : keys_asked(r) \subseteq Keys
    BY Constants, NameIsKey DEF keys_asked
  <2> QED
    BY <1>2, <1>3, <1>4, <1>5, <1>6, <1>7, <1>8, <2>1 DEF Enter

LEMMA InsideLocal ==
  ASSUME IInv, Kept, NEW g \in Goroutines, Inside(g)
  PROVE  Kept'
<1> USE DEF pc, goto, initvars, hist
<1>1. /\ go \in [Goroutines -> Goroutine] /\ Spanless(go[g].out)
  BY DEF IInv, Typed, Kept, Counts
<1>2. CASE OnceEnter(g)
  <2>1. Local(g)
    BY <1>1, <1>2 DEF OnceEnter, once_open, Local, Goroutine, Kept, Unmade
  <2> QED
    BY <2>1, LocalKept
<1>3. CASE OnceReturn(g) \/ CallReturn(g)
  <2>1. Local(g)
    BY <1>1, <1>3 DEF OnceReturn, CallReturn, Local, Goroutine
  <2> QED
    BY <2>1, LocalKept
<1>4. CASE InitBuild(g)
  <2>1. /\ outer = << >> /\ outer' = << >> /\ comm_outer' = "chan"
        /\ UNCHANGED <<accepted, recorded, init_once>>
        /\ init_once # "new"
    BY <1>4 DEF InitBuild, Kept, Unmade, IInv, InitOnce, InitLabels
  <2>2. \A h \in Goroutines : go'[h].out = go[h].out /\ go'[h].pc # "init_inner"
    <3>1. \A h \in Goroutines \ {g} : go'[h] = go[h] /\ go[h].pc # "init_inner"
      BY <1>1, <1>4 DEF InitBuild, IInv, InitOnce, InitLabels
    <3>2. go'[g].out = go[g].out /\ go'[g].pc = "init_built"
      BY <1>1, <1>4 DEF InitBuild, Goroutine
    <3> QED
      BY <3>1, <3>2
  <2>3. Counts'
    BY <2>1, <2>2 DEF Kept, Counts
  <2>4. Unmade'
    BY <2>1, <2>2 DEF Unmade
  <2>5. Conserved'
    BY <2>1 DEF Kept, Conserved, In, Of
  <2> QED
    BY <2>3, <2>4, <2>5 DEF Kept
<1>5. CASE InitComplete(g)
  <2>1. Local(g)
    BY <1>1, <1>5 DEF InitComplete, Local, Goroutine
  <2> QED
    BY <2>1, LocalKept
<1>6. CASE InitGo(g)
  <2>1. go'[g].pc = "idle" /\ init_once' = "done"
    BY <1>1, <1>6 DEF InitGo, Goroutine
  <2>2. /\ UNCHANGED <<outer, accepted, recorded, comm_outer>>
        /\ \A h \in Goroutines : go'[h].out = go[h].out /\ go'[h].chan = go[h].chan
        /\ \A h \in Goroutines \ {g} : go'[h] = go[h]
    BY <1>1, <1>6 DEF InitGo, Goroutine
  <2>3. Counts' /\ Unmade' /\ Conserved'
    BY <2>1, <2>2 DEF Kept, Counts, Unmade, Conserved, In, Of
  <2> QED
    BY <2>3 DEF Kept
<1>7. CASE EndMark(g) \/ EndRefused(g)
  <2>1. Local(g)
    BY <1>1, <1>7 DEF EndMark, EndRefused, Local, Goroutine
  <2> QED
    BY <2>1, LocalKept
<1>8. CASE EndSubmit(g)
  <2> DEFINE m(d) == sample_msg(g, ssu[go[g].handle].Name, ssu[go[g].handle].Variant, d, go[g].handle)
  <2>1. /\ \E d \in Durs : go' = [go EXCEPT ![g].pc = "send", ![g].handle = None, ![g].out = m(d)]
        /\ \A d : m(d).ttype = "A"
    BY <1>8 DEF EndSubmit, sample_msg
  <2> HIDE DEF m
  <2>2. Local(g)
    BY <1>1, <1>8, <2>1 DEF EndSubmit, Local, Goroutine, Spanless
  <2> QED
    BY <2>2, LocalKept
<1>9. CASE SelfSample(g)
  <2> DEFINE m(d) == sample_msg(g, OVERHEAD_SPAN, no_variant, d, None)
  <2>1. /\ \E d \in Durs : go' = [go EXCEPT ![g].pc = "send", ![g].left = @ - 1,
                                            ![g].chan = comm_outer, ![g].out = m(d)]
        /\ \A d : m(d).ttype = "A"
    BY <1>9 DEF SelfSample, sample_msg
  <2> HIDE DEF m
  <2>2. Local(g)
    BY <1>1, <1>9, <2>1 DEF SelfSample, Local, Goroutine, Spanless
  <2> QED
    BY <2>2, LocalKept
<1>10. CASE SelfAbort(g) \/ SelfDone(g)
  <2>1. Local(g)
    BY <1>1, <1>10 DEF SelfAbort, SelfDone, Local, Goroutine
  <2> QED
    BY <2>1, LocalKept
<1> QED
  BY <1>2, <1>3, <1>4, <1>5, <1>6, <1>7, <1>8, <1>9, <1>10 DEF Inside

LEMMA SendKept ==
  ASSUME IInv, Kept, NEW g \in Goroutines, Send(g)
  PROVE  Kept'
<1> DEFINE m == go[g].out
<1>1. /\ go \in [Goroutines -> Goroutine] /\ outer \in Seq(Msg) /\ m \in Msg /\ Spanless(m)
  BY DEF IInv, Typed, Kept, Counts, Goroutine
<1>2. /\ outer' = Append(outer, m) /\ UNCHANGED <<recorded, comm_outer, init_once>>
      /\ accepted' = [s \in Spans |-> accepted[s] + IF s = m.span THEN 1 ELSE 0]
      /\ go[g].chan = "chan"
  BY DEF Send, enqueue, initvars
<1>3. /\ go'[g].out = NoMsg /\ go'[g].pc # "init_inner"
      /\ \A h \in Goroutines \ {g} : go'[h] = go[h]
  BY <1>1 DEF Send, Goroutine, after_send
<1> HIDE DEF m
<1>4. Counts'
  <2>1. \A k \in 1 .. Len(outer') : outer'[k] = m \/ (k \in 1 .. Len(outer) /\ outer'[k] = outer[k])
    BY <1>1, <1>2, AppendProperties
  <2>2. Spanless(NoMsg)
    BY DEF Spanless, NoMsg, request_msg
  <2>3. accepted' \in [Spans -> Nat]
    BY <1>2 DEF Kept, Counts
  <2> QED
    BY <1>1, <1>2, <1>3, <2>1, <2>2, <2>3 DEF Kept, Counts
<1>5. Unmade'
  BY <1>2, <1>3 DEF Kept, Unmade, pc
<1>6. Conserved'
  <2> SUFFICES ASSUME NEW s \in Spans PROVE accepted'[s] = recorded'[s] + In(outer', For(s))
    BY DEF Conserved
  <2>1. In(outer', For(s)) = In(outer, For(s)) + (IF m.span = s THEN 1 ELSE 0)
    <3>1. m \in For(s) <=> m.span = s
      BY <1>1 DEF For
    <3> QED
      BY <1>1, <1>2, <3>1, InAppend
  <2>2. accepted[s] = recorded[s] + In(outer, For(s)) /\ recorded[s] \in Nat /\ In(outer, For(s)) \in Nat
    BY <1>1, OfFinite DEF Kept, Conserved, Counts
  <2> QED
    BY <1>2, <2>1, <2>2
<1> QED
  BY <1>4, <1>5, <1>6 DEF Kept

LEMMA ServeKept ==
  ASSUME IInv, Kept, Serve
  PROVE  Kept'
<1>1. UNCHANGED <<go, comm_outer, init_once, accepted>>
  BY DEF Serve, ServeStart, ServeSample, ServeValues, ServeReport, ReportFail, ReportDone,
         ServeBenchmarks, BenchmarkSample, BenchmarksDone, ServeStop, ServeFinish, initvars, hist
<1>2. outer \in Seq(Msg)
  BY DEF IInv, Typed
<1> DEFINE step_of(m) == [s \in Spans |-> recorded[s] + IF s = m.span THEN 1 ELSE 0]
<1>3. \/ UNCHANGED <<outer, recorded>>
      \/ /\ outer # << >> /\ outer' = Tail(outer)
         /\ \/ recorded' = step_of(Head(outer))
            \/ recorded' = recorded /\ Head(outer).ttype # "A"
  BY DEF Serve, ServeStart, ServeSample, ServeValues, ServeReport, ReportFail, ReportDone,
         ServeBenchmarks, BenchmarkSample, BenchmarksDone, ServeStop, ServeFinish, receive,
         after_and_update, handle_msg_A, hist
<1>4. CASE UNCHANGED <<outer, recorded>>
  BY <1>1, <1>4 DEF Kept, Counts, Unmade, Conserved, In, Of, pc
<1>5. CASE /\ outer # << >> /\ outer' = Tail(outer)
           /\ \/ recorded' = step_of(Head(outer))
              \/ recorded' = recorded /\ Head(outer).ttype # "A"
  <2>1. /\ Head(outer) = outer[1] /\ 1 \in 1 .. Len(outer)
        /\ \A k \in 1 .. Len(outer') : k + 1 \in 1 .. Len(outer) /\ outer'[k] = outer[k + 1]
    BY <1>2, <1>5, HeadTailProperties
  <2>2. \A s \in Spans : recorded'[s] = recorded[s] + IF s = Head(outer).span THEN 1 ELSE 0
    <3>1. CASE recorded' = step_of(Head(outer))
      BY <3>1
    <3>2. CASE recorded' = recorded /\ Head(outer).ttype # "A"
      <4>1. Head(outer).span = None
        BY <3>2, <2>1 DEF Kept, Counts, Spanless
      <4> QED
        BY <4>1, <3>2, Constants DEF Kept, Counts
    <3> QED
      BY <1>5, <3>1, <3>2
  <2>3. recorded' \in [Spans -> Nat]
    BY <1>5 DEF Kept, Counts
  <2>4. Counts'
    BY <1>1, <2>1, <2>3 DEF Kept, Counts
  <2>5. Unmade'
    BY <1>1, <1>5 DEF Kept, Unmade, pc
  <2>6. Conserved'
    <3> SUFFICES ASSUME NEW s \in Spans PROVE accepted'[s] = recorded'[s] + In(outer', For(s))
      BY DEF Conserved
    <3>1. In(outer, For(s)) = In(outer', For(s)) + (IF Head(outer).span = s THEN 1 ELSE 0)
      <4>1. Head(outer) \in For(s) <=> Head(outer).span = s
        BY <1>2, <2>1 DEF For
      <4> QED
        BY <1>2, <1>5, <4>1, InTail
    <3>2. outer' \in Seq(Msg)
      BY <1>2, <1>5, HeadTailProperties
    <3>3. accepted[s] = recorded[s] + In(outer, For(s)) /\ recorded[s] \in Nat /\ In(outer', For(s)) \in Nat
      BY <3>2, OfFinite DEF Kept, Conserved, Counts
    <3> QED
      BY <1>1, <2>2, <3>1, <3>3
  <2> QED
    BY <2>4, <2>5, <2>6 DEF Kept
<1> QED
  BY <1>3, <1>4, <1>5

LEMMA KeptHolds ==
  ASSUME VariantsJoin
  PROVE  Spec => [](IInv /\ Kept)
<1>1. IInv /\ Kept /\ [Next]_vars => Kept'
  <2> SUFFICES ASSUME IInv, Kept, [Next]_vars PROVE Kept'
    OBVIOUS
  <2>1. CASE UNCHANGED vars
    BY <2>1 DEF vars, initvars, hist, Kept, Counts, Unmade, Conserved, In, Of, pc
  <2> QED
    BY <2>1, EnterLocal, InsideLocal, SendKept, ServeKept DEF Next
<1> QED
  BY <1>1, InitKept, IInvHolds, PTL DEF Spec

(***************************************************************************)
(* However large the channel, and whoever sends on it or stops serve, a    *)
(* sample that got into it is counted once or still in it.                 *)
(***************************************************************************)
THEOREM SamplesConserved ==
  ASSUME VariantsJoin
  PROVE  Spec => []SampleConserved
BY KeptHolds, KeptIsSampleConserved, PTL

-------------------------------------------------------------------------------
(***************************************************************************)
(* No span twice.  Holds is what counts: A and A2 test Ended and set it in *)
(* two steps, which only another goroutine that has the span can part.     *)
(***************************************************************************)
\* A span under way to the channel: with g, and not sent before.
UnderWay(g, s) == s \in Holds[g] /\ ssu[s].Ended /\ accepted[s] = 0

OnePlace ==
  /\ \A s \in Spans :
       /\ accepted[s] \in {0, 1}
       /\ ~ssu[s].begun => ~ssu[s].Ended
       /\ ~ssu[s].Ended => accepted[s] = 0
  /\ \A g \in Goroutines :
       /\ pc(g) = "check" => UnderWay(g, go[g].handle)
       /\ go[g].out.span # None => pc(g) = "send" /\ UnderWay(g, go[g].out.span)

\* Steps of g that neither change a span nor put one under way.
Away(g) ==
  /\ \A h \in Goroutines \ {g} : go'[h] = go[h]
  /\ go'[g].pc # "check" /\ go'[g].out.span = None
  /\ UNCHANGED <<ssu, accepted>>

LEMMA AwayOnePlace ==
  ASSUME OnePlace, NEW g \in Goroutines, Away(g)
  PROVE  OnePlace'
BY DEF OnePlace, UnderWay, Away, pc

LEMMA EnterOnePlace ==
  ASSUME IInv, OnePlace, NEW g \in Goroutines, Enter(g)
  PROVE  OnePlace'
<1> USE DEF pc, hist, May_call, Free
<1>1. /\ go \in [Goroutines -> Goroutine]
      /\ pc(g) # "send" => go[g].out.span = None
  BY DEF IInv, Typed, OnePlace
<1>2. CASE InitCall(g)
  <2>1. Away(g)
    BY <1>1, <1>2 DEF InitCall, Away, Goroutine
  <2> QED
    BY <2>1, AwayOnePlace
<1>3. CASE CallRefused(g)
  <2>1. Away(g)
    BY <1>1, <1>3 DEF CallRefused, Away, Goroutine
  <2> QED
    BY <2>1, AwayOnePlace
<1>4. ASSUME NEW n \in SelfCounts, SelfStart(g, n) PROVE OnePlace'
  <2>1. Away(g)
    BY <1>1, <1>4 DEF SelfStart, Away, Goroutine
  <2> QED
    BY <2>1, AwayOnePlace
<1>5. ASSUME NEW r \in Requests, NEW k \in Keys, Call(g, r, k) PROVE OnePlace'
  <2>1. request_msg(g, r, k).span = None
    BY DEF request_msg
  <2>2. Away(g)
    BY <1>1, <1>5, <2>1 DEF Call, Away, Goroutine
  <2> QED
    BY <2>2, AwayOnePlace
<1>6. ASSUME NEW s \in Spans, NEW b \in Begins, Begin(g, s, b[1], b[2]) PROVE OnePlace'
  <2>1. /\ ~ssu[s].begun /\ ~ssu[s].Ended
        /\ \A t \in Spans \ {s} : ssu'[t] = ssu[t]
        /\ ssu'[s].begun /\ ~ssu'[s].Ended
        /\ UNCHANGED <<go, accepted>>
    BY <1>6 DEF Begin, OnePlace, IInv, Typed
  <2>2. \A h \in Goroutines, t \in Spans : UnderWay(h, t) => UnderWay(h, t)'
    BY <2>1 DEF UnderWay
  <2>3. \A h \in Goroutines : /\ pc(h) = "check" => go[h].handle \in Spans
                              /\ go[h].out.span # None => go[h].out.span \in Spans
    BY DEF IInv, Typed, EndsOK, Goroutine, Msg
  <2> QED
    BY <2>1, <2>2, <2>3 DEF OnePlace
<1>7. ASSUME NEW s \in Spans, NEW w \in EndVariants, EndTest(g, s, w) PROVE OnePlace'
  <2>1. Away(g)
    BY <1>1, <1>7 DEF EndTest, Away, Goroutine
  <2> QED
    BY <2>1, AwayOnePlace
<1>8. ASSUME NEW s \in Spans, EndIgnored(g, s) PROVE OnePlace'
  BY <1>8 DEF EndIgnored, vars, OnePlace, UnderWay
<1> QED
  <2>1. \A r \in Requests : keys_asked(r) \subseteq Keys
    BY Constants, NameIsKey DEF keys_asked
  <2> QED
    BY <1>2, <1>3, <1>4, <1>5, <1>6, <1>7, <1>8, <2>1 DEF Enter

LEMMA InsideOnePlace ==
  ASSUME NotShared, IInv, OnePlace, NEW g \in Goroutines, Inside(g)
  PROVE  OnePlace'
<1> USE DEF pc, goto, hist
<1>1. /\ go \in [Goroutines -> Goroutine] /\ ssu \in [Spans -> SSU]
      /\ pc(g) # "send" => go[g].out.span = None
  BY DEF IInv, Typed, OnePlace
<1>2. CASE \/ OnceEnter(g) \/ OnceReturn(g) \/ InitBuild(g) \/ InitComplete(g) \/ InitGo(g)
  <2>1. /\ go[g].pc # "send" /\ UNCHANGED <<ssu, accepted>>
        /\ \E label : label # "check" /\ go' = [go EXCEPT ![g].pc = label]
    BY <1>2 DEF OnceEnter, OnceReturn, InitBuild, InitComplete, InitGo
  <2>2. Away(g)
    BY <1>1, <2>1 DEF Away, Goroutine
  <2> QED
    BY <2>2, AwayOnePlace
<1>3. CASE EndRefused(g) \/ SelfAbort(g) \/ SelfDone(g)
  <2>1. Away(g)
    BY <1>1, <1>3 DEF EndRefused, SelfAbort, SelfDone, Away, Goroutine
  <2> QED
    BY <2>1, AwayOnePlace
<1>4. CASE CallReturn(g)
  <2>1. Away(g)
    BY <1>1, <1>4 DEF CallReturn, Away, Goroutine
  <2> QED
    BY <2>1, AwayOnePlace
<1>5. CASE SelfSample(g)
  <2> DEFINE m(d) == sample_msg(g, OVERHEAD_SPAN, no_variant, d, None)
  <2>1. /\ \E d \in Durs : go' = [go EXCEPT ![g].pc = "send", ![g].left = @ - 1,
                                            ![g].chan = comm_outer, ![g].out = m(d)]
        /\ \A d : m(d).span = None
    BY <1>5 DEF SelfSample, sample_msg
  <2> HIDE DEF m
  <2>2. Away(g)
    BY <1>1, <1>5, <2>1 DEF SelfSample, Away, Goroutine
  <2> QED
    BY <2>2, AwayOnePlace
<1>6. CASE EndMark(g)
  <2>1. PICK s \in Spans : /\ s = go[g].handle
                           /\ s \in Holds[g] /\ ssu[s].begun /\ ~ssu[s].Ended
    BY <1>6 DEF EndMark, IInv, EndsOK
  <2>2. /\ ssu'[s].Ended /\ ssu'[s].begun /\ \A t \in Spans \ {s} : ssu'[t] = ssu[t]
        /\ UNCHANGED accepted
    BY <1>1, <1>6, <2>1 DEF EndMark, SSU
  <2>3. /\ go'[g].pc = "check" /\ go'[g].handle = s /\ go'[g].out.span = None
        /\ \A h \in Goroutines \ {g} : go'[h] = go[h]
    BY <1>1, <1>6, <2>1 DEF EndMark, Goroutine
  <2>4. UnderWay(g, s)'
    BY <2>1, <2>2 DEF UnderWay, OnePlace
  <2>5. \A h \in Goroutines, t \in Spans : UnderWay(h, t) => UnderWay(h, t)'
    BY <2>2 DEF UnderWay
  <2>6. \A h \in Goroutines : /\ pc(h) = "check" => go[h].handle \in Spans
                              /\ go[h].out.span # None => go[h].out.span \in Spans
    BY DEF IInv, Typed, EndsOK, Goroutine, Msg
  <2> QED
    BY <2>1, <2>2, <2>3, <2>4, <2>5, <2>6 DEF OnePlace
<1>7. CASE EndSubmit(g)
  <2> DEFINE m(d) == sample_msg(g, ssu[go[g].handle].Name, ssu[go[g].handle].Variant, d, go[g].handle)
  <2>1. /\ \E d \in Durs : go' = [go EXCEPT ![g].pc = "send", ![g].handle = None, ![g].out = m(d)]
        /\ \A d : m(d).span = go[g].handle
    BY <1>7 DEF EndSubmit, sample_msg
  <2> HIDE DEF m
  <2>2. UNCHANGED <<ssu, accepted>> /\ go[g].pc = "check"
    BY <1>7 DEF EndSubmit
  <2>3. /\ go'[g].pc = "send" /\ go'[g].out.span = go[g].handle
        /\ \A h \in Goroutines \ {g} : go'[h] = go[h]
    BY <1>1, <2>1 DEF Goroutine
  <2> QED
    BY <2>2, <2>3 DEF OnePlace, UnderWay
<1> QED
  BY <1>2, <1>3, <1>4, <1>5, <1>6, <1>7 DEF Inside

LEMMA SendOnePlace ==
  ASSUME NotShared, IInv, Kept, OnePlace, NEW g \in Goroutines, Send(g)
  PROVE  OnePlace'
<1> USE DEF pc
<1> DEFINE t == go[g].out.span
<1>1. go \in [Goroutines -> Goroutine] /\ accepted \in [Spans -> Nat] /\ t \in Spans \cup {None}
  BY DEF IInv, Typed, Kept, Counts, Goroutine, Msg
<1>2. UNCHANGED ssu /\ accepted' = [s \in Spans |-> accepted[s] + IF s = t THEN 1 ELSE 0]
  BY DEF Send
<1>3. /\ go'[g].out.span = None /\ go'[g].pc # "check"
      /\ \A h \in Goroutines \ {g} : go'[h] = go[h]
  BY <1>1 DEF Send, Goroutine, after_send, NoMsg, request_msg
<1> HIDE DEF t
<1>4. t # None => UnderWay(g, t)
  BY DEF OnePlace, t
<1>5. ASSUME NEW h \in Goroutines \ {g}, NEW s \in Spans, UnderWay(h, s) PROVE UnderWay(h, s)'
  <2>1. s # t
    <3> SUFFICES ASSUME s = t PROVE FALSE
      OBVIOUS
    <3>1. s \in Holds[g] /\ s \in Holds[h]
      BY <1>4, <1>5, Constants DEF UnderWay
    <3> QED
      BY <3>1 DEF NotShared
  <2> QED
    BY <2>1, <1>2, <1>5 DEF UnderWay
<1>6. \A s \in Spans : accepted'[s] = IF s = t THEN 1 ELSE accepted[s]
  BY <1>1, <1>2, <1>4, Constants DEF UnderWay
<1>7. \A h \in Goroutines : /\ pc(h) = "check" => go[h].handle \in Spans
                            /\ go[h].out.span # None => go[h].out.span \in Spans
  BY DEF IInv, Typed, EndsOK, Goroutine, Msg
<1>8. \A s \in Spans : s = t => ssu[s].Ended
  BY <1>4, Constants DEF UnderWay
<1> QED
  BY <1>2, <1>3, <1>5, <1>6, <1>7, <1>8 DEF OnePlace

LEMMA ServeOnePlace ==
  ASSUME OnePlace, Serve
  PROVE  OnePlace'
<1>1. UNCHANGED <<go, ssu, accepted>>
  BY DEF Serve, ServeStart, ServeSample, ServeValues, ServeReport, ReportFail, ReportDone,
         ServeBenchmarks, BenchmarkSample, BenchmarksDone, ServeStop, ServeFinish, hist
<1> QED
  BY <1>1 DEF OnePlace, UnderWay, pc

LEMMA OnePlaceHolds ==
  ASSUME NotShared
  PROVE  Spec => [](IInv /\ Kept /\ OnePlace)
<1>1. Init => OnePlace
  BY DEF Init, OnePlace, pc, AtRest, NoMsg, request_msg
<1>2. IInv /\ Kept /\ OnePlace /\ [Next]_vars => OnePlace'
  <2> SUFFICES ASSUME IInv, Kept, OnePlace, [Next]_vars PROVE OnePlace'
    OBVIOUS
  <2>1. CASE UNCHANGED vars
    BY <2>1 DEF vars, hist, OnePlace, UnderWay, pc
  <2> QED
    BY <2>1, EnterOnePlace, InsideOnePlace, SendOnePlace, ServeOnePlace DEF Next
<1>3. VariantsJoin
  BY DEF VariantsJoin
<1> QED
  BY <1>1, <1>2, <1>3, KeptHolds, PTL DEF Spec

(***************************************************************************)
(* As long as every span is ended by the goroutine that began it, it is    *)
(* counted at most once, however often that goroutine ends it.  Without    *)
(* that, TLC finds two goroutines that both submit the span.               *)
(***************************************************************************)
THEOREM NothingCountedTwice ==
  ASSUME NotShared
  PROVE  Spec => []CountedAtMostOnce
<1>1. IInv /\ Kept /\ OnePlace => CountedAtMostOnce
  <2> SUFFICES ASSUME IInv, Kept, OnePlace, NEW s \in Spans
               PROVE  recorded[s] <= accepted[s] /\ accepted[s] <= 1
    BY DEF CountedAtMostOnce
  <2>1. recorded[s] \in Nat /\ In(outer, For(s)) \in Nat /\ accepted[s] = recorded[s] + In(outer, For(s))
    BY OfFinite DEF IInv, Typed, Kept, Counts, Conserved
  <2> QED
    BY <2>1 DEF OnePlace
<1> QED
  BY <1>1, OnePlaceHolds, PTL

===============================================================================
