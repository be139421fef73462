-------------------------- MODULE MCSupervisorHandoff --------------------------
(* Small instance of SupervisorHandoff. *)
EXTENDS SupervisorHandoff

CONSTANTS r1, r2
=============================================================================
