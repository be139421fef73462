--------------------------- MODULE ApprovalControl ---------------------------
(***************************************************************************)
(* The approval requests of dq_control.approval_requests outside recovery: *)
(* creation and import, decisions, the claim and the outcome               *)
(* (agent/tools/approval_control_store.py, approval_queue.py,              *)
(* scripts/migrate_legacy_approvals.py), the two executors                 *)
(* (agent/tools/approved_actions.py behind DAG 90_02,                      *)
(* dags/dq_platform/backfill_dispatcher.py behind DAG 90), the approval    *)
(* half of the reconciler and the ClickHouse projection.                   *)
(*                                                                         *)
(* Every store method is one transaction under the lifecycle lock, hence   *)
(* one action; the callers read first and write later with the version     *)
(* they saw.  updated_at follows the version, because the lock is granted  *)
(* in the order of arrival, so ReplacingMergeTree(updated_at) FINAL shows  *)
(* the highest version that arrived.                                       *)
(***************************************************************************)
EXTENDS Naturals, FiniteSets, FiniteSetsExt

CONSTANTS
  Requests,       \* identities: scope hash and generation
  Operators,      \* people who decide or cancel, one API call each at a time
  DagRuns,        \* runs of DAG 90 or 90_02; the run id is the claim's owner
  Nobody,
  Dates           \* number of business dates of a backfill

ASSUME ApprovalAssumption ==
  /\ Nobody \notin DagRuns \cup Requests \cup Operators
  /\ Dates \in Nat \ {0}

VARIABLES
  row,            \* approval_requests
  outbox,         \* approval_projection_outbox: versions not yet delivered
  projection,     \* version shown by dq.approval_requests FINAL, 0 if none
  op,             \* an API call between its read and its transaction
  disp,           \* DagRuns and the task process inside them
  child,          \* DagRuns created for a request, by date
  effects,        \* history: how often each external effect happened
  rec             \* the reconciler between its inspection and its transaction

vars == <<row, outbox, projection, op, disp, child, effects, rec>>

Slots    == 1..Dates
Versions == 1..6       \* created, decided, claimed, dispatched or unknown, settled
Terminal == {"succeeded", "failed"}
InFlight == {"dispatching", "dispatched", "unknown"}
Actions  == {"rerun_dbt", "provider", "backfill"}   \* provider: create_ticket, post_notification
Over     == {"ok", "failed"}                        \* how a DagRun ended

\* error stands for execution_error, as far as it tells what a failed call may have done.
NoRow  == [status |-> "none", exec |-> "not_started", version |-> 0, owner |-> Nobody,
           error |-> "none", requester |-> Nobody, action |-> "provider", eligible |-> FALSE,
           wait |-> FALSE, failFast |-> FALSE]
IdleOp == [req |-> Nobody, what |-> "none", seen |-> 0]
NewRun == [req |-> Nobody, pc |-> "idle", seen |-> 0, next |-> 1, failures |-> FALSE,
           result |-> "none"]
NoRec  == [req |-> Nobody, result |-> "none"]

Init ==
  /\ row = [r \in Requests |-> NoRow]
  /\ outbox = [r \in Requests |-> {}]
  /\ projection = [r \in Requests |-> 0]
  /\ op = [o \in Operators |-> IdleOp]
  /\ disp = [d \in DagRuns |-> NewRun]
  /\ child = [r \in Requests |-> [i \in Slots |-> "absent"]]
  /\ effects = [r \in Requests |-> [i \in Slots |-> 0]]
  /\ rec = NoRec

\* What an approval consists of: one effect, or one child run per date.
PartsOf(r) == IF row[r].action = "backfill" THEN Slots ELSE {1}

----------------------------------------------------------------------------
(* approval_control_store.py: every change of a row adds its projection    *)
(* intent in the same transaction (_enqueue, and the table's trigger).     *)

\* Mutant: the outcome is stored without its projection intent.
WriteSilently(r, new) ==
  /\ row' = [row EXCEPT ![r] = new]
  /\ outbox' = [outbox EXCEPT ![r] =
       @ \cup (IF new.exec \in Terminal THEN {} ELSE {new.version})]

Write(r, new) ==
  /\ row' = [row EXCEPT ![r] = new]
  /\ outbox' = [outbox EXCEPT ![r] = @ \cup {new.version}]

Changed(r, new) == Write(r, [new EXCEPT !.version = row[r].version + 1])

\* An outcome, with what execution_error says of it: only a broken answer is told apart.
Report(r, outcome, error) == Changed(r, [row[r] EXCEPT !.exec = outcome, !.error = error])

\* create_request / create_queue_request; an existing identity is returned as it
\* is.  The public backfill queue writes execution_eligibility = simulation_only,
\* typed scopes carry none and are eligible.
Create(r) ==
  /\ row[r].status = "none"
  /\ \E a \in Actions, e, w, f \in BOOLEAN, q \in Operators \cup {Nobody} :
       /\ a # "backfill" => e /\ ~w        \* w, f: the parameters of a backfill that
       /\ (~e => ~w) /\ (~w => ~f)         \* may run, read only where they matter
       /\ Write(r, [NoRow EXCEPT !.status = "pending", !.version = 1, !.action = a,
                                 !.requester = q, !.eligible = e, !.wait = w, !.failFast = f])
  /\ UNCHANGED <<projection, op, disp, child, effects, rec>>

\* import_legacy_request: only backfills that are not in flight, never eligible.
ImportLegacy(r) ==
  /\ row[r].status = "none"
  /\ \E s \in {"pending", "approved", "rejected", "cancelled"}, d \in DagRuns,
        e \in {"not_started"} \cup Terminal :
       /\ e # "not_started" => s = "approved"
       /\ Write(r, [NoRow EXCEPT !.status = s, !.exec = e, !.version = 1, !.action = "backfill",
                      !.owner = IF e = "not_started" THEN Nobody ELSE d])
  /\ UNCHANGED <<projection, op, disp, child, effects, rec>>

\* decide refuses the person who asked for the action.
Decidable(o, r, what) ==
  row[r].status = "pending" /\ (what = "approved" => row[r].requester # o)

Cancellable(r) ==
  /\ row[r].status \in {"pending", "approved"}
  /\ row[r].exec = "not_started" /\ row[r].owner = Nobody

\* The guards of decide and cancel.
Allowed(o, r, what) == IF what = "cancelled" THEN Cancellable(r) ELSE Decidable(o, r, what)

\* _runtime_transition: the caller reads the row ...  (A call that reads a row it may
\* not change cannot change it later either, because the version only grows.)
ReadForChange(o, r, what) ==
  /\ op[o] = IdleOp /\ Allowed(o, r, what)
  /\ op' = [op EXCEPT ![o] = [req |-> r, what |-> what, seen |-> row[r].version]]
  /\ UNCHANGED <<row, outbox, projection, disp, child, effects, rec>>

\* Mutant: the update trusts what was read and repeats only part of the guard.
CompareAndSetStale(o) ==
  LET r == op[o].req IN
  /\ op[o] # IdleOp
  /\ op' = [op EXCEPT ![o] = IdleOp]
  /\ IF row[r].status \in {"pending", "approved"}
     THEN Changed(r, [row[r] EXCEPT !.status = op[o].what])
     ELSE UNCHANGED <<row, outbox>>
  /\ UNCHANGED <<projection, disp, child, effects, rec>>

\* ... and decide or cancel compares the version and the state again.
CompareAndSet(o) ==
  LET r == op[o].req IN
  /\ op[o] # IdleOp
  /\ op' = [op EXCEPT ![o] = IdleOp]
  /\ IF row[r].version = op[o].seen /\ Allowed(o, r, op[o].what)
     THEN Changed(r, [row[r] EXCEPT !.status = op[o].what])
     ELSE UNCHANGED <<row, outbox>>
  /\ UNCHANGED <<projection, disp, child, effects, rec>>

\* claim, by the DagRun d with the version it validated.  (The store refuses imported
\* requests, the validation before it simulation-only ones.)
Claimable(d, r) ==
  /\ row[r].status = "approved" /\ row[r].exec = "not_started" /\ row[r].owner = Nobody
  /\ row[r].version = disp[d].seen
  /\ row[r].action = "backfill" => row[r].eligible

\* record_execution_outcome: only the owner, only from dispatching or dispatched.
Recordable(d, r, outcome) ==
  /\ row[r].status = "approved" /\ row[r].owner = d
  /\ \/ row[r].exec = "dispatching"
     \/ row[r].exec = "dispatched" /\ outcome # "dispatched"

----------------------------------------------------------------------------
(* The executors.  A DagRun keeps its configuration and its run id when it *)
(* is cleared or its task is retried.                                      *)

Become(d, label) ==
  disp' = [disp EXCEPT ![d] = IF label \in Over THEN [NewRun EXCEPT !.req = disp[d].req, !.pc = label]
                              ELSE [@ EXCEPT !.pc = label]]

\* require_approved_backfill_request; execute_approved_action leaves the execution
\* status to the claim.
Executable(r) ==
  /\ row[r].status = "approved"
  /\ row[r].action = "backfill" => row[r].eligible /\ row[r].exec = "not_started"

\* The task reads the request before it claims it.
Validate(d, r) ==
  /\ disp[d].pc = "idle" /\ disp[d].req \in {Nobody, r} /\ row[r].status # "none"
  /\ disp' = [disp EXCEPT ![d] = IF Executable(r)
                 THEN [@ EXCEPT !.req = r, !.pc = "claim", !.seen = row[r].version]
                 ELSE [@ EXCEPT !.req = r, !.pc = "failed"]]
  /\ UNCHANGED <<row, outbox, projection, op, child, effects, rec>>

\* Mutant: a DagRun that already owns the request goes on as if it had claimed it.
TakeClaimAgain(d) ==
  LET r == disp[d].req IN
  /\ disp[d].pc = "claim"
  /\ \/ /\ Claimable(d, r)
        /\ Changed(r, [row[r] EXCEPT !.exec = "dispatching", !.owner = d])
     \/ row[r].owner = d /\ UNCHANGED <<row, outbox>>
  /\ disp' = [disp EXCEPT ![d].pc = "act", ![d].seen = row'[r].version, ![d].next = 1]
  /\ UNCHANGED <<projection, op, child, effects, rec>>

TakeClaim(d) ==
  LET r == disp[d].req IN
  /\ disp[d].pc = "claim"
  /\ IF Claimable(d, r)
     THEN /\ Changed(r, [row[r] EXCEPT !.exec = "dispatching", !.owner = d])
          /\ disp' = [disp EXCEPT ![d].pc = "act", ![d].seen = row[r].version + 1]
     ELSE /\ Become(d, "failed")
          /\ UNCHANGED <<row, outbox>>
  /\ UNCHANGED <<projection, op, child, effects, rec>>

Happens(r, i) == effects' = [effects EXCEPT ![r][i] = @ + 1]
Starts(r, i)  == Happens(r, i) /\ child' = [child EXCEPT ![r][i] = "running"]

\* _run_dbt_rerun: `airflow dags trigger` with a run id derived from the request.
\* A non-zero exit is reported as a failure, whether or not the run exists.
RerunDbt(d) ==
  LET r == disp[d].req IN
  /\ disp[d].pc = "act" /\ row[r].action = "rerun_dbt"
  /\ \E result \in {"dispatched", "failed"} :
       /\ disp' = [disp EXCEPT ![d].pc = "record", ![d].result = result]
       /\ \/ child[r][1] = "absent" /\ Starts(r, 1)
          \/ result = "failed" /\ UNCHANGED <<child, effects>>
  /\ UNCHANGED <<row, outbox, projection, op, rec>>

\* Mutant: a timeout is an ordinary failure.
CallProviderTimeoutFails(d) ==
  LET r == disp[d].req IN
  /\ disp[d].pc = "act" /\ row[r].action = "provider"
  /\ \E result \in {"succeeded", "failed", "broken_answer"} :
       /\ disp' = [disp EXCEPT ![d].pc = "record", ![d].result = result]
       /\ \/ Happens(r, 1)
          \/ result # "succeeded" /\ UNCHANGED effects
  /\ UNCHANGED <<row, outbox, projection, op, child, rec>>

\* _create_github_ticket, _post_discord_notification: one POST.  A timeout, a lost
\* connection, a 5xx or an unreadable answer is unknown; a refusal is a failure, and so is
\* an answer that breaks off in its body or is another 2xx, whatever the provider did.
CallProvider(d) ==
  LET r == disp[d].req IN
  /\ disp[d].pc = "act" /\ row[r].action = "provider"
  /\ \E result \in {"succeeded", "failed", "unknown", "broken_answer"} :
       /\ disp' = [disp EXCEPT ![d].pc = "record", ![d].result = result]
       /\ \/ result # "failed" /\ Happens(r, 1)
          \/ result # "succeeded" /\ UNCHANGED effects
  /\ UNCHANGED <<row, outbox, projection, op, child, rec>>

\* The end of execute_approved_action, with the version of the claim.  The task fails
\* after a failure, and when the acknowledgement of a recorded outcome is lost.
RecordAction(d) ==
  LET r == disp[d].req
      broken == disp[d].result = "broken_answer"
      outcome == IF broken THEN "failed" ELSE disp[d].result IN
  /\ disp[d].pc = "record" /\ row[r].action # "backfill"
  /\ IF Recordable(d, r, outcome) /\ row[r].version = disp[d].seen
     THEN /\ Report(r, outcome, IF broken THEN "broken_answer" ELSE "none")
          /\ \/ Become(d, "failed")
             \/ outcome \notin {"failed", "unknown"} /\ Become(d, "ok")
     ELSE Become(d, "failed") /\ UNCHANGED <<row, outbox>>
  /\ UNCHANGED <<projection, op, child, effects, rec>>

----------------------------------------------------------------------------
(* run_backfill_dispatcher, after its claim: one child run per date.       *)

\* trigger_child_dag: the command may fail after Airflow created the run.
TriggerChild(d) ==
  LET r == disp[d].req  i == disp[d].next IN
  /\ disp[d].pc = "act" /\ row[r].action = "backfill" /\ i <= Dates
  /\ \/ /\ child[r][i] = "absent" /\ Starts(r, i)
        /\ disp' = IF row[r].wait THEN [disp EXCEPT ![d].pc = "wait"]
                   ELSE [disp EXCEPT ![d].next = i + 1]
     \/ /\ Become(d, "mark")
        /\ \/ child[r][i] = "absent" /\ Starts(r, i)
           \/ UNCHANGED <<child, effects>>
  /\ UNCHANGED <<row, outbox, projection, op, rec>>

\* Mutant: the loop advances twice past a failed date.
AwaitChildTwice(d) ==
  LET r == disp[d].req  i == disp[d].next IN
  /\ disp[d].pc = "wait"
  /\ \/ /\ child[r][i] = "success"
        /\ disp' = [disp EXCEPT ![d].pc = "act", ![d].next = i + 1]
     \/ /\ child[r][i] = "failed"
        /\ disp' = [disp EXCEPT ![d].pc = IF row[r].failFast THEN "mark" ELSE "act",
                                ![d].next = i + 2, ![d].failures = TRUE]
  /\ UNCHANGED <<row, outbox, projection, op, child, effects, rec>>

\* wait_for_child_completion: success, failure (fail_fast or not), or a timeout or
\* a failing poll, which end the dispatch.
AwaitChild(d) ==
  LET r == disp[d].req  i == disp[d].next IN
  /\ disp[d].pc = "wait"
  /\ \/ /\ child[r][i] = "success"
        /\ disp' = [disp EXCEPT ![d].pc = "act", ![d].next = i + 1]
     \/ /\ child[r][i] = "failed"
        /\ disp' = [disp EXCEPT ![d].pc = IF row[r].failFast THEN "mark" ELSE "act",
                                ![d].next = i + 1, ![d].failures = TRUE]
     \/ Become(d, "mark")
  /\ UNCHANGED <<row, outbox, projection, op, child, effects, rec>>

\* After the last date.  Without a version, the store compares only the owner.  The
\* dispatch counts as failed when the transaction fails or its acknowledgement is lost.
FinishBackfill(d) ==
  LET r == disp[d].req
      outcome == IF row[r].wait THEN "succeeded" ELSE "dispatched" IN
  /\ disp[d].pc = "act" /\ row[r].action = "backfill" /\ disp[d].next > Dates
  /\ \/ /\ ~disp[d].failures /\ Recordable(d, r, outcome)
        /\ Report(r, outcome, "none")
        /\ \E label \in {"ok", "mark"} : Become(d, label)
     \/ Become(d, "mark") /\ UNCHANGED <<row, outbox>>
  /\ UNCHANGED <<projection, op, child, effects, rec>>

\* mark_approval_execution_failed swallows its own errors.
MarkFailed(d) ==
  LET r == disp[d].req IN
  /\ disp[d].pc = "mark" /\ Become(d, "failed")
  /\ \/ Recordable(d, r, "failed") /\ Report(r, "failed", "none")
     \/ UNCHANGED <<row, outbox>>
  /\ UNCHANGED <<projection, op, child, effects, rec>>

----------------------------------------------------------------------------
(* Airflow.                                                                *)

\* A worker dies, or the task reaches its execution_timeout.
Crash(d) ==
  /\ disp[d].pc \notin Over \cup {"idle"} /\ Become(d, "failed")
  /\ UNCHANGED <<row, outbox, projection, op, child, effects, rec>>

\* A retry, or an operator who clears the task: the run starts again.
Clear(d) ==
  /\ disp[d].pc \in Over
  /\ disp' = [disp EXCEPT ![d] = [NewRun EXCEPT !.req = disp[d].req]]
  /\ UNCHANGED <<row, outbox, projection, op, child, effects, rec>>

ChildEnds(r, i) ==
  /\ child[r][i] = "running"
  /\ \E e \in {"success", "failed"} : child' = [child EXCEPT ![r][i] = e]
  /\ UNCHANGED <<row, outbox, projection, op, disp, effects, rec>>

----------------------------------------------------------------------------
(* reconcile(): the approvals that claim to be running, looked up in       *)
(* Airflow outside a transaction and then updated by their state alone.    *)

\* Mutant: a missing child of a finished dispatcher does not keep the approval open.
ObservedIgnoringMissing(r) ==
  IF row[r].action = "rerun_dbt"
  THEN IF child[r][1] \in {"success", "failed"} THEN child[r][1] ELSE "unresolved"
  ELSE LET d == row[r].owner IN
       IF row[r].owner = Nobody \/ disp[d].pc \notin Over \/ disp[d].req # r THEN "unresolved"
       ELSE IF row[r].wait THEN (IF disp[d].pc = "ok" THEN "success" ELSE "failed")
       ELSE IF \E i \in Slots : child[r][i] = "failed" THEN "failed" ELSE "success"

\* inspect_dispatched_backfill for a backfill, the child's own state for a rerun.
Observed(r) ==
  IF row[r].action = "rerun_dbt"
  THEN IF child[r][1] \in {"success", "failed"} THEN child[r][1] ELSE "unresolved"
  ELSE LET d == row[r].owner IN
       IF d = Nobody \/ disp[d].pc \notin Over \/ disp[d].req # r THEN "unresolved"
       ELSE IF row[r].wait THEN (IF disp[d].pc = "ok" THEN "success" ELSE "failed")
       ELSE IF \E i \in Slots : \/ child[r][i] = "running"
                                \/ child[r][i] = "absent" /\ disp[d].pc = "ok" THEN "unresolved"
       ELSE IF disp[d].pc = "failed" \/ \E i \in Slots : child[r][i] = "failed" THEN "failed"
       ELSE "success"

\* Mutant: only approvals that reached "dispatched" are looked up.
InspectDispatched(r) ==
  /\ rec = NoRec /\ row[r].action # "provider" /\ row[r].exec = "dispatched"
  /\ Observed(r) # "unresolved"
  /\ rec' = [req |-> r, result |-> IF Observed(r) = "success" THEN "succeeded" ELSE "failed"]
  /\ UNCHANGED <<row, outbox, projection, op, disp, child, effects>>

Inspect(r) ==
  /\ rec = NoRec /\ row[r].action # "provider" /\ row[r].exec \in InFlight
  /\ Observed(r) # "unresolved"
  /\ rec' = [req |-> r, result |-> IF Observed(r) = "success" THEN "succeeded" ELSE "failed"]
  /\ UNCHANGED <<row, outbox, projection, op, disp, child, effects>>

\* Mutant: the update does not repeat the state the approval was selected by.
ReconcileAnyState ==
  /\ rec # NoRec /\ rec' = NoRec
  /\ Report(rec.req, rec.result, row[rec.req].error)
  /\ UNCHANGED <<projection, op, disp, child, effects>>

Reconcile ==
  /\ rec # NoRec /\ rec' = NoRec
  /\ IF row[rec.req].exec \in InFlight
     THEN Report(rec.req, rec.result, row[rec.req].error)
     ELSE UNCHANGED <<row, outbox>>
  /\ UNCHANGED <<projection, op, disp, child, effects>>

\* flush_approval_projections, for one of the pending versions: each is delivered on
\* its own, and may land without being marked (a lost answer, a lost commit).
Deliver(r, v) ==
  /\ v \in outbox[r]
  /\ projection' = [projection EXCEPT ![r] = Max({@, v})]
  /\ outbox' \in {outbox, [outbox EXCEPT ![r] = @ \ {v}]}
  /\ UNCHANGED <<row, op, disp, child, effects, rec>>

----------------------------------------------------------------------------
Next ==
  \/ \E r \in Requests :
       \/ Create(r) \/ ImportLegacy(r) \/ Inspect(r)
       \/ \E v \in Versions : Deliver(r, v)
       \/ \E o \in Operators, what \in {"approved", "rejected", "cancelled"} :
            ReadForChange(o, r, what)
       \/ \E d \in DagRuns : Validate(d, r)
       \/ \E i \in Slots : ChildEnds(r, i)
  \/ \E o \in Operators : CompareAndSet(o)
  \/ \E d \in DagRuns :
       \/ TakeClaim(d) \/ RerunDbt(d) \/ CallProvider(d) \/ RecordAction(d)
       \/ TriggerChild(d) \/ AwaitChild(d) \/ FinishBackfill(d) \/ MarkFailed(d)
       \/ Crash(d) \/ Clear(d)
  \/ Reconcile

Spec == Init /\ [][Next]_vars

\* DAG 90_06 runs every few minutes, and the runs it looks up end.
Fairness ==
  /\ \A r \in Requests :
       /\ WF_vars(Inspect(r))
       /\ \A i \in Slots : WF_vars(ChildEnds(r, i))
  /\ WF_vars(Reconcile)

FairSpec == Spec /\ Fairness

----------------------------------------------------------------------------
(* Properties.                                                             *)

\* Every variable keeps its type; a dispatcher is at one of its dates, or past the last.
RowsOK == [status : {"none", "pending", "approved", "rejected", "cancelled"},
           exec : {"not_started"} \cup InFlight \cup Terminal, version : Nat,
           owner : DagRuns \cup {Nobody}, action : Actions,
           error : {"none", "broken_answer"}, requester : Operators \cup {Nobody},
           eligible : BOOLEAN, wait : BOOLEAN, failFast : BOOLEAN]
RunsOK == [req : Requests \cup {Nobody}, seen : Nat, next : 1..(Dates + 1),
           pc : {"idle", "claim", "act", "wait", "record", "mark"} \cup Over,
           failures : BOOLEAN, result : {"none", "dispatched", "unknown", "broken_answer"} \cup Terminal]

TypeOK ==
  /\ row \in [Requests -> RowsOK]
  /\ outbox \in [Requests -> SUBSET Nat]
  /\ projection \in [Requests -> Nat]
  /\ op \in [Operators -> [req : Requests \cup {Nobody}, seen : Nat,
                           what : {"none", "approved", "rejected", "cancelled"}]]
  /\ disp \in [DagRuns -> RunsOK]
  /\ child \in [Requests -> [Slots -> {"absent", "running", "success", "failed"}]]
  /\ effects \in [Requests -> [Slots -> Nat]]
  /\ rec \in [req : Requests \cup {Nobody}, result : Terminal \cup {"none"}]

\* The abstract promise: decided once, claimed once, every part of the work at most
\* once and only under an approved claim, outcomes final.
Abstract == INSTANCE SingleUseApproval WITH
  Parts <- Slots,
  status <- [r \in Requests |-> row[r].status],
  exec   <- [r \in Requests |-> row[r].exec],
  acts   <- [r \in Requests |-> {i \in Slots : effects[r][i] > 0}],
  escaped <- {}

\* The approval store, its executors and the reconciler implement SingleUseApproval.
ImplementsSingleUse == Abstract!Spec

\* No interleaving of retries, cleared runs and reconciliation performs a part of an
\* approved action twice (execute_approved_action, run_backfill_dispatcher).
NeverTwice == \A r \in Requests, i \in Slots : effects[r][i] <= 1

\* An effect belongs to an approved request that may be executed: simulation-only
\* and imported requests never act (require_approved_backfill_request, claim).
OnlyEligibleActs ==
  \A r \in Requests : (\E i \in Slots : effects[r][i] > 0) =>
    /\ row[r].status = "approved" /\ row[r].owner # Nobody
    /\ row[r].action = "backfill" => row[r].eligible

\* A task that has the claim and not yet reported its end.
Acting(d) == disp[d].pc \in {"act", "wait", "record", "mark"}

\* A backfill that may not run here: imported, or for simulation only.
Ineligible(r) == row[r].action = "backfill" /\ ~row[r].eligible

\* Whoever waits between a read and a write names a request; a claimed request is approved
\* and has an owner, which stays the run of that request; and only the owner acts, before
\* any outcome is reported (after one, it only has a stale report to make).
ClaimsAreOwned ==
  /\ \A o \in Operators : op[o] # IdleOp => op[o].req \in Requests /\ op[o].what # "none"
  /\ \A r \in Requests :
       /\ row[r].owner = Nobody <=> row[r].exec = "not_started"
       /\ row[r].exec # "not_started" => row[r].status = "approved"
       /\ row[r].owner # Nobody =>
            \/ disp[row[r].owner].req = r
            \/ Ineligible(r) /\ row[r].exec \in Terminal
  /\ \A d \in DagRuns :
       /\ disp[d].pc # "idle" => disp[d].req \in Requests
       /\ Acting(d) => row[disp[d].req].owner = d /\ ~Ineligible(disp[d].req)
       /\ disp[d].pc \in {"act", "wait"} => row[disp[d].req].exec = "dispatching"
       /\ disp[d].pc = "mark" => row[disp[d].req].exec \in {"dispatching", "dispatched", "succeeded"}
       /\ disp[d].pc = "record" => row[disp[d].req].action # "backfill"
       /\ disp[d].pc \in {"wait", "mark"} => row[disp[d].req].action = "backfill"
       /\ disp[d].pc = "wait" => disp[d].next <= Dates

\* Effects are counted by the child runs there are; a request that was not claimed here has
\* none; and a single effect is still to come when its task is about to cause it.
EffectsAreCounted ==
  /\ \A r \in Requests, i \in Slots :
       /\ row[r].owner = Nobody \/ Ineligible(r) => effects[r][i] = 0 /\ child[r][i] = "absent"
       /\ row[r].action # "provider" =>
            effects[r][i] = IF child[r][i] = "absent" THEN 0 ELSE 1
  /\ \A d \in DagRuns :
       disp[d].pc = "act" /\ row[disp[d].req].action # "backfill" =>
         effects[disp[d].req][1] = 0 /\ child[disp[d].req][1] = "absent"

\* What the reconciler has inspected is over: the run it looked up does nothing any more.
InspectedIsOver ==
  rec # NoRec =>
    /\ rec.req \in Requests /\ rec.result \in Terminal
    /\ row[rec.req].exec # "not_started" /\ row[rec.req].action # "provider"
    /\ IF row[rec.req].action = "rerun_dbt" THEN child[rec.req][1] \in {"success", "failed"}
       ELSE disp[row[rec.req].owner].req = rec.req /\ ~Acting(row[rec.req].owner)

\* What an approval may do, whatever is retried, cleared, decided late or reconciled:
\* each part once, and only if the request is approved, claimed and eligible.
ApprovalInv ==
  /\ TypeOK /\ NeverTwice /\ OnlyEligibleActs
  /\ ClaimsAreOwned /\ EffectsAreCounted /\ InspectedIsOver

\* A success that was not imported is backed by what happened: the provider acted,
\* the dbt run or every child run of the backfill succeeded.
SucceededIsProven ==
  \A r \in Requests :
    row[r].exec = "succeeded" /\ (row[r].action = "backfill" => row[r].eligible) =>
      IF row[r].action = "provider" THEN effects[r][1] = 1
      ELSE \A i \in PartsOf(r) : child[r][i] = "success"

\* A provider call reported as failed did nothing, so that a new request is safe, unless
\* its execution_error tells of a broken answer: whatever ended in a timeout, a lost
\* connection or a 5xx is never reported as failed (ApprovedActionDeliveryUnknown).
FailedDidNothing ==
  \A r \in Requests :
    row[r].action = "provider" /\ row[r].exec = "failed" =>
      effects[r][1] = 0 \/ row[r].error = "broken_answer"

\* What is about to be reported is what happened: by the task of a provider call, by a
\* dispatcher that waited for the dates before its position, by a dispatcher that ended
\* well, and by the reconciler.
ReportsAreTrue ==
  /\ \A d \in DagRuns :
       LET r == disp[d].req IN
       /\ ~Acting(d) => disp[d].next = 1
       /\ disp[d].pc = "record" => disp[d].result # "none"
       /\ disp[d].pc = "record" /\ row[r].action = "provider" =>
            /\ disp[d].result = "succeeded" => effects[r][1] = 1
            /\ disp[d].result = "failed" => effects[r][1] = 0
       /\ disp[d].pc = "record" /\ row[r].action = "rerun_dbt" => disp[d].result # "succeeded"
       /\ disp[d].pc \in {"act", "wait"} /\ row[r].action = "backfill" /\ row[r].wait =>
            disp[d].failures \/ \A i \in 1..(disp[d].next - 1) : child[r][i] = "success"
       /\ disp[d].pc = "ok" /\ row[r].owner = d /\ row[r].action = "backfill" /\ row[r].wait =>
            row[r].exec \in Terminal
  /\ rec.result = "succeeded" => \A i \in PartsOf(rec.req) : child[rec.req][i] = "success"

\* A reported outcome is what happened.
OutcomeIsTrue == SucceededIsProven /\ FailedDidNothing /\ ReportsAreTrue

\* With nothing pending, ClickHouse shows the row Postgres holds, whatever order or
\* repetition the deliveries had.
ProjectionCurrent ==
  \A r \in Requests :
    /\ outbox[r] = {} => projection[r] = row[r].version
    /\ outbox[r] \subseteq 1..row[r].version /\ projection[r] <= row[r].version
    /\ row[r].version \in outbox[r] \/ projection[r] = row[r].version

\* An approval whose run exists in Airflow does not stay in flight for ever: the
\* reconciler settles it once the run is over, even if the executor died.
RunsSettle ==
  \A r \in Requests :
    (row[r].action = "rerun_dbt" /\ child[r][1] # "absent" /\ row[r].exec \in InFlight)
      ~> (row[r].exec \in Terminal)
=============================================================================
