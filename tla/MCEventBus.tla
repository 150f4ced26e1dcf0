----------------------------- MODULE MCEventBus -----------------------------
(***************************************************************************)
(* Small instances of EventBus.                                            *)
(***************************************************************************)
EXTENDS EventBus, TLC

CONSTANTS e1, e2, e3, h1, h2

NoBatch == <<>>
BatchOfTwo == <<e2, e3>>

\* h1 takes every event, h2 only e1.
MCTakes == [h \in Handlers |-> IF h = h1 THEN Events ELSE Events \cap {e1}]

WorkerSymmetry == Permutations(Workers)
=============================================================================
