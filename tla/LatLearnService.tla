---------------------------- MODULE LatLearnService ----------------------------
(***************************************************************************)
(* LatLearn implements Service.  A call takes effect when its message gets *)
(* into comm_outer, although serve comes to it only later: a sample is     *)
(* accounted, and a question answered, as if what is ahead of it in the    *)
(* channel had been dealt with already.  So the rows of Service are those  *)
(* of serve with all the samples that wait in the channel added, and the   *)
(* answer a caller has been promised is what the rows say once the samples *)
(* ahead of its request are added.                                         *)
(***************************************************************************)
EXTENDS LatLearn

\* The registry as it is now.
now == [learners |-> learners, tracked_spans |-> tracked_spans,
        submitted |-> submitted, total |-> total]

\* What an "A" message makes of a registry: handle_ssu_A as a function.
handled(R, m) ==
  LET key   == Reg!span_key_form(m.name, m.variant)
      named == Reg!ensure(R.learners, m.name, "LL")
      both  == IF m.variant = "" THEN named ELSE Reg!ensure(named, key, "VLL")
      T     == Reg!track(R.tracked_spans, R.learners, m.name)
      vain  == m.variant # "" /\ named[key].kind = "LL"
      rows  == IF vain THEN {} ELSE Reg!rows(m.name, key)
  IN [learners      |-> [k \in Keys |-> IF k \in rows THEN Reg!after2(both[k], m.dur) ELSE both[k]],
      tracked_spans |-> IF m.variant = "" THEN T ELSE Reg!track(T, named, key),
      submitted     |-> [R.submitted EXCEPT ![m.name] = @ + 1],
      total         |-> [k \in Keys |-> R.total[k] + IF k \in rows THEN m.dur ELSE 0]]

\* The registries that R goes through when the samples in q are handled: the
\* i-th is the one after i messages.
drained(R, q) ==
  LET at[i \in 0 .. Len(q)] == IF i = 0 THEN R
                               ELSE IF q[i].ttype = "A" THEN handled(at[i - 1], q[i])
                               ELSE at[i - 1]
  IN at

\* The registry once the channel is drained.
settled == drained(now, outer)[Len(outer)]

\* The names of the benchmarks are the same where they are registered and
\* where they are measured.
ListsAgree ==
  {Builtins[i] : i \in DOMAIN Builtins} = own_rows \cup {OVERHEAD_SPAN}

\* The application uses no variants, and no span that it has not told Init of.
NoAdHoc ==
  /\ Variants = {no_variant}
  /\ \A spans \in AppSpans, n \in AppNames :
       \E i \in DOMAIN (spans \o Builtins) : (spans \o Builtins)[i] = n

\* The answer to request m with the registry R, in Service's terms.
answer_from(m, R) ==
  LET tracked == {R.tracked_spans[i] : i \in DOMAIN R.tracked_spans}
      shown   == CASE m.ttype = "values" -> {m.name} \cap tracked
                   [] m.ttype = "report" -> tracked
                   [] OTHER              -> {}
  IN [ttype |-> m.ttype, key |-> IF m.ttype = "values" THEN m.name ELSE "",
      rows  |-> [k \in shown \ own_rows |-> R.learners[k]]]

\* The answer that lies ready in a reply.
answer_in(r) ==
  [ttype |-> r.ttype, key |-> IF r.ttype = "values" THEN r.key ELSE "",
   rows  |-> IF r.ttype = "values"
             THEN [k \in IF r.entry = NoEntry THEN {} ELSE {r.key} \ own_rows |-> r.entry]
             ELSE [k \in DOMAIN r.rows \ own_rows |-> r.rows[k]]]

promised(g) ==
  IF reply[g] # NoReply THEN answer_in(reply[g])
  ELSE IF current.from = g THEN answer_from(current, now)
  ELSE IF open_requests(g) # {}
       THEN LET i == CHOOSE i \in open_requests(g) : TRUE
            IN answer_from(outer[i], drained(now, outer)[i - 1])
       ELSE [ttype |-> "none", key |-> "", rows |-> << >>]

Svc == INSTANCE Service WITH
         learners <- settled.learners, tracked_spans <- settled.tracked_spans,
         submitted <- settled.submitted, total <- settled.total,
         Askers <- Goroutines, Own <- own_rows,
         promise <- [g \in Goroutines |-> promised(g)]

(***************************************************************************)
(* However samples, questions and reports of different goroutines race in  *)
(* the channel, the answers are those of an object that does each call at  *)
(* once: a report or a Values shows all samples accepted before it, none   *)
(* accepted after it, and no two callers disagree on the order.            *)
(***************************************************************************)
ImplementsService == Svc!ServiceSpec

===============================================================================
