------------------------------- MODULE Filtering -------------------------------
(***************************************************************************)
(* What is left of a sequence when only the members of a set are kept.     *)
(* SelectSeq says the same, but the prover knows nothing of it; the MC     *)
(* modules that use Selected suppose, and TLC checks, that they agree.     *)
(***************************************************************************)
EXTENDS Integers, Sequences

Selected(s, S) ==
  LET from[n \in 0 .. Len(s)] ==
        IF n = 0 THEN << >>
        ELSE IF s[n] \in S THEN Append(from[n - 1], s[n])
        ELSE from[n - 1]
  IN  from[Len(s)]

\* They agree on the sequences over T of at most n elements.
SelectsLikeSelectSeq(T, n) ==
  \A S \in SUBSET T : \A m \in 0 .. n : \A s \in [1 .. m -> T] :
    Selected(s, S) = SelectSeq(s, LAMBDA e : e \in S)

===============================================================================
