-------------------------- MODULE MCIncidentOutbox --------------------------
(* Instances of IncidentOutbox for TLC. *)
EXTENDS IncidentOutbox, TLC

CONSTANTS r1, r2, u1, u2, w1
=============================================================================
