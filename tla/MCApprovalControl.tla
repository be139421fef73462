-------------------------- MODULE MCApprovalControl --------------------------
(* An instance of SingleUseRequests for TLC. *)
EXTENDS SingleUseRequests

CONSTANTS r1, o1, d1, d2, p1, j1, j2, a, b
=============================================================================
