---------------------------- MODULE MCNumberGrouped ----------------------------
(***************************************************************************)
(* Numbers of one to eight digits around every boundary of a group, and    *)
(* negative ones, written with "%d".                                       *)
(***************************************************************************)
EXTENDS NumberGrouped, FiniteSets

MaxDigits == 8

decimal(n) ==
  LET abs   == IF n < 0 THEN -n ELSE n
      width == Cardinality({u \in 1 .. MaxDigits - 1 : abs >= 10 ^ u}) + 1
  IN (IF n < 0 THEN <<"-">> ELSE << >>)
       \o [k \in 1 .. width |-> Digits[((abs \div 10 ^ (width - k)) % 10) + 1]]

MCVals == UNION {{10 ^ w - 1, 10 ^ w, 10 ^ w + 1, -(10 ^ w) + 1, -(10 ^ w)} : w \in 0 .. 7}
            \cup 1200 .. 1250 \cup {1222333, 99999999}

ASSUME SelectsLikeSelectSeq({Sep, "0", "-"}, 5)

MCTexts == {decimal(n) : n \in MCVals}
===============================================================================
