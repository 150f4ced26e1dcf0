------------------------ MODULE MCAgentOrchestrator ------------------------
(***************************************************************************)
(* Small instances of AgentOrchestrator.                                   *)
(***************************************************************************)
EXTENDS AgentOrchestrator, TLC

CONSTANTS w1, w2, t1, t2, t3, a1, a2

\* t1 and t2 ask for a1, t3 for no particular agent.
MCRequested == [t \in Tasks |-> IF t = t3 THEN NoAgent ELSE a1]

\* t1 can go to either agent, t2 only to a2, t3 only to a1.
MCHandles == [a \in Agents |-> Tasks \cap (IF a = a1 THEN {t1, t3} ELSE {t1, t2})]

WorkerSymmetry == Permutations(Workers)
=============================================================================
