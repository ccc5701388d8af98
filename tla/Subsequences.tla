----------------------------- MODULE Subsequences -----------------------------
(***************************************************************************)
(* The part of a sequence that meets a condition: what retain, filter and  *)
(* partition make of a Vec; and the sum of what its elements weigh.  They  *)
(* are SelectSeq, with the condition given as a set, and a fold, defined   *)
(* by recursive functions so that proofs can look into them                *)
(* (Subsequences_proofs).                                                  *)
(***************************************************************************)
EXTENDS Naturals, Sequences

\* The elements of s that are in S, in their order.
Filter(s, S) ==
    LET kept[n \in 0..Len(s)] ==
            IF n = 0 THEN <<>>
            ELSE IF s[n] \in S THEN Append(kept[n - 1], s[n]) ELSE kept[n - 1]
    IN  kept[Len(s)]

\* The sum of f over the elements of s.
Total(f, s) ==
    LET sum[n \in 0..Len(s)] == IF n = 0 THEN 0 ELSE sum[n - 1] + f[s[n]]
    IN  sum[Len(s)]
=============================================================================
