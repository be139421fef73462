----------------------- MODULE MCPartitionPublication -----------------------
(* Instances of PartitionPublication for TLC. *)
EXTENDS PartitionPublication, TLC

CONSTANTS w1, w2, w3, e1, e2, e3, d1, d2

\* An Airflow retry that shares the execution identity of a living loader, and a
\* raw recovery; beside them a writer that ignores the lock.
ExternalExecOf == w1 :> e1 @@ w2 :> e1 @@ w3 :> e2
ExternalKind == e1 :> "load" @@ e2 :> "replay_raw_partition"

\* A full recovery and a dbt build, with two raw contents to mix up.
PublicationExecOf == w1 :> e1 @@ w2 :> e2 @@ w3 :> e3
PublicationKind == e1 :> "replay_and_rebuild_partition" @@ e2 :> "dbt" @@ e3 :> "load"

\* Bound: the recovery competes with the loader or with dbt, not with both: one of them is
\* refused (PostgreSQL is out of reach) before the others begin.
Begun(w) == pc[w] \notin {"idle", "done"} \/ \E t \in Tables : stage[<<ExecOf[w], t>>] # Absent
OneRival ==
  /\ ~(Begun(w2) /\ Begun(w3))
  /\ Begun(w1) \/ Begun(w2) \/ Begun(w3) => "done" \in {pc[w2], pc[w3]}

\* One full recovery on its own.
SoloExecOf == w1 :> e1
SoloKind == e1 :> "replay_and_rebuild_partition"
=============================================================================
