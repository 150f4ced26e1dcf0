-------------------------- MODULE MCMonitorOnPool --------------------------
(***************************************************************************)
(* Small instances of MonitorOnPool.                                       *)
(***************************************************************************)
EXTENDS MonitorOnPool, TLC
=============================================================================
