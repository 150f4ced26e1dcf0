------------------------ MODULE MCAgentActivityFeed ------------------------
(***************************************************************************)
(* Small instances of AgentActivityFeed.                                   *)
(***************************************************************************)
EXTENDS AgentActivityFeed
=============================================================================
