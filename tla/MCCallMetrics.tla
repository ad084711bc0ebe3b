---------------------------- MODULE MCCallMetrics ----------------------------
(***************************************************************************)
(* Instances of CallMetrics for TLC.                                       *)
(***************************************************************************)
EXTENDS MCCoordinator, CallMetrics
==============================================================================
