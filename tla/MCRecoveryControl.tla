------------------------- MODULE MCRecoveryControl -------------------------
(* Instances of RecoveryControl for TLC. *)
EXTENDS RecoveryControl, TLC

CONSTANTS p1, p2, j1, j2, j3, a, b

\* Plans and processes are only named.
Symmetry == Permutations(Plans) \cup Permutations(Jobs)

\* Bound: two open plans are explored while nobody else writes, closes or reconciles and
\* their POSTs are answered; everything else happens beside one open plan.
Explored ==
  Cardinality({p \in Plans : draft[p].state # "none"}) > 1 =>
    /\ rec.plan = Nobody /\ writes = 0 /\ incident.revision = 1 /\ warehouse = a
    /\ \A p \in Plans : draft[p].facts = a /\ exe[p].trigger # "unknown" /\ api[p] # "unknown"
=============================================================================
