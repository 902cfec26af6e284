------------------------------- MODULE Registry -------------------------------
(***************************************************************************)
(* The heart of LatLearn: the map `learners' and the report order          *)
(* `tracked_spans', both private to one goroutine, and the two operations  *)
(* that change them: init_inner, which registers the expected spans, and   *)
(* handle_ssu_A, which accounts one completed span.                        *)
(*                                                                         *)
(* Seen alone, with its own Spec, it is a sequential object: what LatLearn *)
(* promises to any number of goroutines is that they together drive this   *)
(* object and nothing else (LatLearn refines Spec).                        *)
(***************************************************************************)
EXTENDS LatencyLearner, SequencesExt

CONSTANTS
  Names,        \* span names the application and the library use
  Variants,     \* variants of a span, "" (no variant) among them
  Durs,         \* durations t2 - t1 of completed spans
  Builtins,     \* init_inner's spans_latlearn_builtin, a sequence of names
  AppSpans      \* the argument lists of Init and Init2

\* The key of a span: "name" or "name(variant)".
span_key_form(name, variant) ==
  IF variant # "" THEN name \o "(" \o variant \o ")" ELSE name

Keys == {span_key_form(n, v) : n \in Names, v \in Variants}

\* Go durations are int64, and no string equals a longer one.
ConstantsOK ==
  /\ "" \in Variants
  /\ Durs \subseteq Int64
  /\ Builtins \in Seq(Names)
  /\ AppSpans \subseteq Seq(Names)
  /\ \A n \in Names, v \in Variants \ {""} : span_key_form(n, v) # n

ASSUME RegistryAssumption == ConstantsOK

\* Applications choose names, and nothing keeps a name from looking like the
\* key of a variant.  A name is clear when neither it nor a key of its family
\* is also the key of another span.
clear(n) ==
  /\ \A m \in Names, v \in Variants \ {""} : span_key_form(m, v) # n
  /\ \A v \in Variants \ {""}, m \in Names, w \in Variants :
       span_key_form(n, v) = span_key_form(m, w) => n = m

-------------------------------------------------------------------------------
VARIABLES
  learners,       \* key -> row; NoLearner where the map has no entry
  tracked_spans,  \* the keys in report order
  registered,     \* init_inner has built the two structures above
  (*************************************************************************)
  (* History variables, read only by the properties.                       *)
  (*************************************************************************)
  expected,       \* the spans init_inner registered
  submitted,      \* name -> samples handled for that name, any variant
  total           \* key -> exact sum of the durations counted in its row

regvars == <<learners, tracked_spans, registered, expected, submitted, total>>

found(L, k) == L[k].kind # "none"

Init ==
  /\ learners = [k \in Keys |-> NoLearner]
  /\ tracked_spans = << >>
  /\ registered = FALSE
  /\ expected = << >>
  /\ submitted = [n \in Names |-> 0]
  /\ total = [k \in Keys |-> 0]

-------------------------------------------------------------------------------
\* init_inner, up to the channels: an empty map, then a plain learner for
\* each expected span, the application's before the built-in ones.
register(spans_app) ==
  LET spans == spans_app \o Builtins IN
  /\ learners' = [k \in Keys |-> IF k \in Range(spans) THEN fresh("LL") ELSE NoLearner]
  /\ tracked_spans' = spans
  /\ registered' = TRUE
  /\ expected' = spans
  /\ submitted' = [n \in Names |-> 0]
  /\ total' = [k \in Keys |-> 0]

\* A lookup that always makes a new learner forgets the old one.
ensure_always(L, k, kind) == [L EXCEPT ![k] = fresh(kind)]

\* The new learner does not make it into the map.
ensure_unbound(L, k, kind) == L

\* latency_learner and variant_latency_learner: look a key up and bind it to
\* a new learner of the given kind if it has none.
ensure(L, k, kind) == IF found(L, k) THEN L ELSE [L EXCEPT ![k] = fresh(kind)]

\* A key joins the report order when, and only when, it was not in the map.
track(T, L, k) == IF found(L, k) THEN T ELSE Append(T, k)

\* A variant's sample does not reach the family's parent.
rows_no_parent(name, key) == {key}

\* The rows a sample counts in: its own, and for a variant its parent's.
rows(name, key) == {name, key}

\* Rows S take one more sample each.
count_sample(S, L, dur) ==
  /\ learners' = [k \in Keys |-> IF k \in S THEN after2(L[k], dur) ELSE L[k]]
  /\ total' = [k \in Keys |-> total[k] + IF k \in S THEN dur ELSE 0]

\* handle_ssu_A for B .. A: the span has no variant.
handle_plain(name, dur) ==
  /\ tracked_spans' = track(tracked_spans, learners, name)
  /\ count_sample({name}, ensure(learners, name, "LL"), dur)

\* The variant's key is counted but never enters the report order.
handle_variant_untracked(name, key, dur) ==
  LET withParent == ensure(learners, name, "LL") IN
  /\ withParent[key].kind # "LL"
  /\ tracked_spans' = track(tracked_spans, learners, name)
  /\ count_sample(rows(name, key), ensure(withParent, key, "VLL"), dur)

\* handle_ssu_A for a variant: the parent is looked up (or made) first, then
\* the variant; both rows take the sample.
handle_variant(name, key, dur) ==
  LET withParent == ensure(learners, name, "LL") IN
  /\ withParent[key].kind # "LL"
  /\ tracked_spans' = track(track(tracked_spans, learners, name), withParent, key)
  /\ count_sample(rows(name, key), ensure(withParent, key, "VLL"), dur)

\* handle_ssu_A for a variant whose key is bound to a plain learner: getVLL
\* returns nil and the handler gives up, the parent made and tracked but
\* no row updated.
reject_variant(name, key) ==
  LET withParent == ensure(learners, name, "LL") IN
  /\ withParent[key].kind = "LL"
  /\ tracked_spans' = track(tracked_spans, learners, name)
  /\ learners' = withParent
  /\ UNCHANGED total

handle_ssu_A(name, variant, dur) ==
  LET key == span_key_form(name, variant) IN
  /\ submitted' = [submitted EXCEPT ![name] = @ + 1]
  /\ UNCHANGED <<registered, expected>>
  /\ \/ variant =  "" /\ handle_plain(name, dur)
     \/ variant # "" /\ handle_variant(name, key, dur)
     \/ variant # "" /\ reject_variant(name, key)

-------------------------------------------------------------------------------
Register == \E spans_app \in AppSpans : ~registered /\ register(spans_app)

Sample ==
  \E n \in Names, v \in Variants, d \in Durs : registered /\ handle_ssu_A(n, v, d)

Next == Register \/ Sample

Spec == Init /\ [][Next]_regvars

-------------------------------------------------------------------------------
TypeOK ==
  /\ learners \in [Keys -> Learner]
  /\ tracked_spans \in Seq(Keys)
  /\ registered \in BOOLEAN
  /\ expected \in Seq(Names)
  /\ submitted \in [Names -> Nat]
  /\ total \in [Keys -> Int]
  /\ \A k \in Keys : ~found(learners, k) => learners[k] = NoLearner

(***************************************************************************)
(* report_inner walks tracked_spans and calls a method on learners[span]   *)
(* without looking whether it is there ("TODO add found-in-map guard"): a  *)
(* tracked key with no learner is a nil dereference in the serve           *)
(* goroutine, and a learner that is not tracked is measured and never      *)
(* reported.  The list starts with the expected spans, in their order, and *)
(* a span found ad hoc is added exactly once.                              *)
(***************************************************************************)
ReportOrderSound ==
  /\ Range(tracked_spans) = {k \in Keys : found(learners, k)}
  /\ IsPrefix(expected, tracked_spans)
  /\ \A i, j \in DOMAIN tracked_spans :
       i < j /\ Len(expected) < j => tracked_spans[i] # tracked_spans[j]

(***************************************************************************)
(* README, "Span Variants": a variant's data is counted towards its        *)
(* family's parent.  Every sample handled for a name, with whatever        *)
(* variant, counts in the row of that name exactly once ...                *)
(***************************************************************************)
ParentCountsAll == \A n \in Names : learners[n].Weight = submitted[n]

(***************************************************************************)
(* ... which is so for clear names, whatever others are in use.            *)
(***************************************************************************)
ClearParentCountsAll == \A n \in Names : clear(n) => learners[n].Weight = submitted[n]

(***************************************************************************)
(* The parent row of a clear family encloses each of its variants' rows:   *)
(* at least their weight, and a range of latencies that contains theirs.   *)
(***************************************************************************)
FamilyEnclosed ==
  \A n \in Names, v \in Variants \ {""} :
    LET parent == learners[n]
        child  == learners[span_key_form(n, v)]
    IN  clear(n) /\ child.Weight > 0 =>
          /\ parent.Weight >= child.Weight
          /\ parent.Min <= child.Min
          /\ parent.Max >= child.Max

(***************************************************************************)
(* The reported numbers fit together: unless the exact sum of a row's      *)
(* samples has left the int64 range, its mean lies between its minimum and *)
(* its maximum, as its last sample always does.  Sums that leave the range *)
(* and return to it do no harm.                                            *)
(***************************************************************************)
RowCoherent ==
  \A k \in Keys :
    LET ll == learners[k] IN
    ll.Weight > 0 =>
      /\ ll.Pair_ever_completed
      /\ ll.Min <= ll.Last /\ ll.Last <= ll.Max
      /\ ll.Weight = 1 => ll.Min = ll.Max
      /\ total[k] \in Int64 => ll.Min <= mean(ll) /\ mean(ll) <= ll.Max

(***************************************************************************)
(* No row is ever forgotten, restarted or rebound: weights grow, extremes  *)
(* only widen, a plain learner never becomes a variant, and the report     *)
(* order is only ever extended.                                            *)
(***************************************************************************)
RowsOnlyGrow ==
  [][registered =>
       /\ IsPrefix(tracked_spans, tracked_spans')
       /\ \A k \in Keys :
            LET old == learners[k]
                new == learners'[k]
            IN  /\ found(learners, k) => new.kind = old.kind
                /\ new.Weight >= old.Weight
                /\ old.Weight > 0 => new.Min <= old.Min /\ new.Max >= old.Max]_regvars

===============================================================================
