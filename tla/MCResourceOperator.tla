------------------------- MODULE MCResourceOperator -------------------------
(***************************************************************************)
(* Small instances of ResourceOperator.                                    *)
(***************************************************************************)
EXTENDS ResourceOperator, TLC

WorkerSymmetry == Permutations(Workers)
=============================================================================
