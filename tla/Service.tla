-------------------------------- MODULE Service --------------------------------
(***************************************************************************)
(* What LatLearn promises those who ask it for values and reports: every   *)
(* call takes effect at one moment, between its being made and its return. *)
(* A sample is accounted and a question is answered in that moment; the    *)
(* asker returns with the answer later, whatever has been accounted since. *)
(*                                                                         *)
(* There is no channel and no serve goroutine here, and Registry does the  *)
(* accounting.                                                             *)
(***************************************************************************)
EXTENDS Registry

CONSTANTS
  Askers,         \* the goroutines that ask
  Asked,          \* the keys they ask for
  Own             \* the rows in which LatLearn itself counts what it does for
                  \* them (LL.lat-report ...): nothing is promised of these

VARIABLE promise  \* asker -> the answer it will return with

svcvars == <<regvars, promise>>

NoAnswer == [ttype |-> "none", key |-> "", rows |-> << >>]

\* The rows with a key in K, without those of LatLearn's own.
view(K) == [k \in K \ Own |-> learners[k]]

\* What Values says of a key: its row, or none if there is no such row.
values_answer(key) ==
  [ttype |-> "values", key |-> key, rows |-> view({key} \cap Range(tracked_spans))]

report_answer == [ttype |-> "report", key |-> "", rows |-> view(Range(tracked_spans))]

benchmarks_answer == [ttype |-> "benchmarks", key |-> "", rows |-> << >>]

\* Report answers also when it could not write the file.
failed_report == [ttype |-> "report", key |-> "", rows |-> << >>]

ServiceInit == Init /\ promise = [g \in Askers |-> NoAnswer]

Account == Next /\ UNCHANGED promise

Ask(g) ==
  /\ registered
  /\ promise[g] = NoAnswer /\ promise'[g] # NoAnswer
  /\ \E a \in {values_answer(k) : k \in Asked} \cup {report_answer, benchmarks_answer} :
       promise' = [promise EXCEPT ![g] = a]
  /\ UNCHANGED regvars

Fail(g) ==
  /\ promise[g].ttype = "report"
  /\ promise' = [promise EXCEPT ![g] = failed_report]
  /\ UNCHANGED regvars

Return(g) ==
  /\ promise[g] # NoAnswer
  /\ promise' = [promise EXCEPT ![g] = NoAnswer]
  /\ UNCHANGED regvars

ServiceNext == Account \/ \E g \in Askers : Ask(g) \/ Fail(g) \/ Return(g)

ServiceSpec == ServiceInit /\ [][ServiceNext]_svcvars

===============================================================================
