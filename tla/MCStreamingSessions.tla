------------------------ MODULE MCStreamingSessions ------------------------
(***************************************************************************)
(* Small instances of StreamingSessions.                                   *)
(***************************************************************************)
EXTENDS StreamingSessions, TLC

CallerSymmetry == Permutations(Callers)

Unix == <<LF>>
Dos == <<CR, LF>>
=============================================================================
