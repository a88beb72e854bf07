------------------------------- MODULE Filters -------------------------------
(***************************************************************************)
(* Array.filter and the loop that drops repeated elements, as recursive     *)
(* functions: SelectSeq and FoldLeft take an operator, and their definitions *)
(* are not there to be expanded in a proof.                                  *)
(***************************************************************************)
EXTENDS Integers, Sequences

(* The elements of s that are in S, in their order.                          *)
Keep(s, S) ==
  LET n == Len(s)
      kept[i \in 0..n] ==
        IF i = 0 THEN <<>>
        ELSE IF s[i] \in S THEN Append(kept[i - 1], s[i]) ELSE kept[i - 1]
  IN kept[n]

(* Every element whose key did not come before.                              *)
FirstOf(s, key) ==
  LET first == {i \in DOMAIN s : \A j \in 1..(i - 1) : key[j] # key[i]}
      places == Keep([i \in DOMAIN s |-> i], first)
  IN [k \in DOMAIN places |-> s[places[k]]]

(* Every element where it comes first.                                       *)
Once(s) == FirstOf(s, s)
=============================================================================
