-------------------------- MODULE MCSupervisorFanout --------------------------
(* Small instance of SupervisorFanout: three workers in a chain, two that  *)
(* run in parallel before the third, and a cycle.                          *)
EXTENDS SupervisorFanout, TLC

CONSTANTS w1, w2, w3

Plan(a, b, c) == w1 :> a @@ w2 :> b @@ w3 :> c
MCPlans == {Plan({}, {w1}, {w2}), Plan({w2, w3}, {}, {}), Plan({}, {w3}, {w2})}
=============================================================================
