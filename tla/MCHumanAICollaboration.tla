----------------------- MODULE MCHumanAICollaboration -----------------------
(***************************************************************************)
(* Small instances of HumanAICollaboration.                                *)
(***************************************************************************)
EXTENDS HumanAICollaboration
=============================================================================
