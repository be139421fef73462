-------------------------- MODULE SingleUseApproval --------------------------
(***************************************************************************)
(* What an approval promises, whoever stores and executes it: a person     *)
(* decides once, a claim excludes cancellation, the approved work happens  *)
(* only between the claim and its outcome and each part of it at most      *)
(* once, and a reported outcome is final unless it was "unknown".  One     *)
(* executor is excepted: one that escaped the scheduler, which may report  *)
(* a failure while it still works, but no success, and nothing twice.      *)
(*                                                                         *)
(* ApprovalControl (actions executed by DAGs 90 and 90_02) and             *)
(* RecoveryControl (recovery plans) are both checked against this module.  *)
(***************************************************************************)
CONSTANTS
  Requests,    \* approval requests
  Parts        \* the external effects one request may consist of

VARIABLES
  status,      \* what people decided about the request
  exec,        \* execution_status
  acts,        \* the parts of the work that have been started
  escaped      \* requests whose executor the scheduler no longer controls

abstractVars == <<status, exec, acts, escaped>>

Outcomes == {"succeeded", "failed"}
Claimed  == {"dispatching", "dispatched", "unknown"}

Init ==
  /\ status = [r \in Requests |-> "none"]
  /\ exec = [r \in Requests |-> "not_started"]
  /\ acts = [r \in Requests |-> {}]
  /\ escaped = {}

Propose(r) ==
  /\ status[r] = "none"
  /\ status' = [status EXCEPT ![r] = "pending"]
  /\ UNCHANGED <<exec, acts, escaped>>

\* A request may enter the store decided and finished elsewhere, never running.
Import(r) ==
  /\ status[r] = "none"
  /\ \/ /\ \E s \in {"pending", "approved", "rejected", "cancelled"} :
             status' = [status EXCEPT ![r] = s]
        /\ exec' = exec
     \/ /\ status' = [status EXCEPT ![r] = "approved"]
        /\ \E o \in Outcomes : exec' = [exec EXCEPT ![r] = o]
  /\ UNCHANGED <<acts, escaped>>

Decide(r) ==
  /\ status[r] = "pending"
  /\ \E s \in {"approved", "rejected"} : status' = [status EXCEPT ![r] = s]
  /\ UNCHANGED <<exec, acts, escaped>>

Cancel(r) ==
  /\ status[r] \in {"pending", "approved"} /\ exec[r] = "not_started"
  /\ status' = [status EXCEPT ![r] = "cancelled"]
  /\ UNCHANGED <<exec, acts, escaped>>

Claim(r) ==
  /\ status[r] = "approved" /\ exec[r] = "not_started"
  /\ exec' = [exec EXCEPT ![r] = "dispatching"]
  /\ UNCHANGED <<status, acts, escaped>>

Act(r, i) ==
  /\ status[r] = "approved" /\ i \notin acts[r]
  /\ exec[r] \in Claimed \/ (r \in escaped /\ exec[r] = "failed")
  /\ acts' = [acts EXCEPT ![r] = @ \cup {i}]
  /\ UNCHANGED <<status, exec, escaped>>

\* The executor of a claimed request outlives its scheduled run, or that run starts again.
Escape(r) ==
  /\ exec[r] # "not_started"
  /\ escaped' = escaped \cup {r}
  /\ UNCHANGED <<status, exec, acts>>

Later(e) ==
  IF e = "dispatching" THEN {"dispatched", "unknown"} \cup Outcomes
  ELSE IF e = "dispatched" THEN {"unknown"} \cup Outcomes
  ELSE IF e = "unknown" THEN Outcomes ELSE {}

Report(r) ==
  /\ status[r] = "approved"
  /\ \E e \in Later(exec[r]) : exec' = [exec EXCEPT ![r] = e]
  /\ UNCHANGED <<status, acts, escaped>>

Next == \E r \in Requests :
  \/ Propose(r) \/ Import(r) \/ Decide(r) \/ Cancel(r) \/ Claim(r) \/ Report(r) \/ Escape(r)
  \/ \E i \in Parts : Act(r, i)

Spec == Init /\ [][Next]_abstractVars
==============================================================================
