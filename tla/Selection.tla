----------------------------- MODULE Selection -----------------------------
(***************************************************************************)
(* The loop that keeps some elements of a queue, in their order: SelectSeq *)
(* with a set for its test, as a function of how far the loop has come, so *)
(* that it can be reasoned about.                                          *)
(***************************************************************************)
EXTENDS Naturals, Sequences

Select(q, S) ==
  LET kept[n \in 0..Len(q)] ==
        IF n = 0 THEN <<>>
        ELSE IF q[n] \in S THEN Append(kept[n - 1], q[n]) ELSE kept[n - 1]
  IN  kept[Len(q)]
=============================================================================
