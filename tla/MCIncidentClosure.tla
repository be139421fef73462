-------------------------- MODULE MCIncidentClosure --------------------------
(* Instances of IncidentClosure for TLC. *)
EXTENDS IncidentClosure, TLC

CONSTANTS a1, k1, k2

\* Operators' keys are interchangeable.
Symmetric == Permutations(Keys)
=============================================================================
