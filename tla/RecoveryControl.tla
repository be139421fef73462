--------------------------- MODULE RecoveryControl ---------------------------
(***************************************************************************)
(* One incident's recovery plans from preview to outcome: plan creation,   *)
(* human decision, dispatch, the Airflow run, the recovery process and the *)
(* reconciler (agent/recovery/service.py, runtime.py, reconciliation.py,   *)
(* apps/common/recovery_airflow.py).                                       *)
(*                                                                         *)
(* Every control_transaction holds the one lifecycle lock, so each is one  *)
(* action; whatever the code does between two of them interleaves.  A plan *)
(* has at most one execution, whose id is derived from the plan.           *)
(*                                                                         *)
(* Publication is the summary of PartitionPublication that these modules   *)
(* see: nobody enters the lock scope while another writer is inside or a   *)
(* row is unresolved, and a recovery only on its pinned revision.  An      *)
(* execution is "uncertain" from its first in-flight row until all of them *)
(* are settled, and "unacknowledged" when a row is in flight whose record  *)
(* was not acknowledged, so that its command was never sent.               *)
(***************************************************************************)
EXTENDS Naturals, FiniteSets

CONSTANTS
  Plans, Jobs,     \* recovery plans; processes started by Airflow
  Nobody,          \* no plan (an idle process or reconciler)
  Contents,        \* what the date's partitions may hold; facts are equal iff it is
  Detached,        \* does a process survive the failure of its Airflow run?
  MayClear,        \* may an administrator clear or mark a run in Airflow?
  ApiMayCrash,     \* may the API process die during a dispatch?
  MaxWrites,       \* bound on publications by other writers
  MaxIncident      \* bound on the incident revision

ASSUME ConstantAssumption ==
  /\ Nobody \notin Plans
  /\ Contents # {}
  /\ Detached \in BOOLEAN /\ MayClear \in BOOLEAN /\ ApiMayCrash \in BOOLEAN
  /\ MaxWrites \in Nat /\ MaxIncident \in Nat \ {0}

VARIABLES
  incident,    \* incident_controls: revision and whether it is resolved
  warehouse,   \* the live partitions of the date
  revision,    \* partition_revisions.revision
  draft,       \* create_plan calls in progress or finished
  approval,    \* approval_requests of the plan: decision and execution_status
  exe,         \* recovery_executions record
  api,         \* the process inside dispatch_execution
  run,         \* the Airflow DagRun of the execution
  job,         \* processes running agent.recovery.runtime
  pub,         \* partition_publications of the execution, summarised
  rec,         \* the reconciler between its Airflow read and its transaction
  writes,      \* publications by other writers so far
  mutations,   \* history: how often each execution reached the live tables
  apart        \* history: plans whose process outlived its run, or whose run was cleared

vars == <<incident, warehouse, revision, draft, approval, exe, api, run, job, pub, rec,
          writes, mutations, apart>>

ExecStates == {"not_started", "dispatching", "dispatched", "unknown", "succeeded", "failed"}
Terminal   == {"succeeded", "failed"}
InFlight   == {"dispatching", "dispatched", "unknown"}
JobPCs     == {"idle", "start", "pipeline", "locked", "built", "begun", "mutated", "verify", "finish",
               "exit_ok", "exit_failed"}
LockScope  == {"locked", "built", "begun", "mutated"}    \* holds the publication lock

TypeOK ==
  /\ incident \in [revision : 1..MaxIncident, resolved : BOOLEAN]
  /\ warehouse \in Contents /\ revision \in Nat /\ writes \in 0..MaxWrites
  /\ draft \in [Plans -> [state : {"none", "collected", "previewed", "pinned", "stored"},
                          incident : Nat, facts : Contents, revision : Nat]]
  /\ approval \in [Plans -> [status : {"none", "pending", "approved", "rejected", "cancelled"},
                             exec : ExecStates]]
  /\ exe \in [Plans -> [status : {"none", "queued", "running", "unknown"} \cup Terminal,
                        trigger : {"pending", "claimed", "accepted", "unknown"},
                        error : {"", "PublicationUnknown", "AirflowExecutionFailed",
                                 "TerminalRunMissingVerification", "other"},
                        validated : BOOLEAN, finished : BOOLEAN]]
  /\ api \in [Plans -> {"idle", "claim", "trigger", "accepted", "unknown", "done"}]
  /\ run \in [Plans -> {"absent", "posted", "queued", "running", "success", "failed"}]
  /\ job \in [Jobs -> [plan : Plans \cup {Nobody}, pc : JobPCs,
                       outcome : {"none", "unknown"} \cup Terminal]]
  /\ pub \in [Plans -> {"none", "prepared", "uncertain", "unacknowledged", "published", "restored",
                         "partial", "aborted"}]
  /\ rec \in [plan : Plans \cup {Nobody},
              state : {"none", "queued", "running", "success", "failed"}]
  /\ mutations \in [Plans -> Nat] /\ apart \subseteq Plans

Init ==
  /\ incident = [revision |-> 1, resolved |-> FALSE]
  /\ warehouse \in Contents /\ revision = 0 /\ writes = 0
  /\ draft = [p \in Plans |-> [state |-> "none", incident |-> 0, facts |-> warehouse,
                               revision |-> 0]]
  /\ approval = [p \in Plans |-> [status |-> "none", exec |-> "not_started"]]
  /\ exe = [p \in Plans |-> [status |-> "none", trigger |-> "pending", error |-> "",
                             validated |-> FALSE, finished |-> FALSE]]
  /\ api = [p \in Plans |-> "idle"]
  /\ run = [p \in Plans |-> "absent"]
  /\ job = [j \in Jobs |-> [plan |-> Nobody, pc |-> "idle", outcome |-> "none"]]
  /\ pub = [p \in Plans |-> "none"]
  /\ rec = [plan |-> Nobody, state |-> "none"]
  /\ mutations = [p \in Plans |-> 0] /\ apart = {}

----------------------------------------------------------------------------
(* The incident and the other writers. *)

\* Mutant: an unknown dispatch no longer counts as open work.
BlockingIgnoresUnknown(p) ==
  \/ approval[p].exec \in InFlight \ {"unknown"}
  \/ approval[p].status \in {"pending", "approved"} /\ approval[p].exec = "not_started"

\* remediation_blockers: work that is neither finished nor cancelled.
Blocking(p) ==
  \/ approval[p].exec \in InFlight
  \/ approval[p].status \in {"pending", "approved"} /\ approval[p].exec = "not_started"

\* confirm_resolution as far as recovery is concerned: only without blockers.
Resolve ==
  /\ ~incident.resolved /\ incident.revision < MaxIncident
  /\ \A p \in Plans : ~Blocking(p)
  /\ incident' = [revision |-> incident.revision + 1, resolved |-> TRUE]
  /\ UNCHANGED <<warehouse, revision, draft, approval, exe, api, run, job, pub, rec, writes,
                 mutations, apart>>

\* publish_candidates reopens a resolved incident on newer failing evidence.
Reopen ==
  /\ incident.resolved /\ incident.revision < MaxIncident
  /\ incident' = [revision |-> incident.revision + 1, resolved |-> FALSE]
  /\ UNCHANGED <<warehouse, revision, draft, approval, exe, api, run, job, pub, rec, writes,
                 mutations, apart>>

LockFree == \A j \in Jobs : job[j].pc \notin LockScope
NothingUnresolved == \A p \in Plans : pub[p] \notin {"prepared", "uncertain", "unacknowledged"}

\* The daily loader or dbt publishes the same date.
OtherWriter ==
  /\ writes < MaxWrites /\ LockFree /\ NothingUnresolved
  /\ writes' = writes + 1 /\ warehouse' \in Contents /\ revision' = revision + 1
  /\ UNCHANGED <<incident, draft, approval, exe, api, run, job, pub, rec, mutations, apart>>

----------------------------------------------------------------------------
(* service.py: planning. *)

\* preview_with_facts reads the incident and collects the evidence ...
CollectFacts(p) ==
  /\ draft[p].state = "none" /\ ~incident.resolved
  /\ draft' = [draft EXCEPT ![p].state = "collected", ![p].incident = incident.revision,
                            ![p].facts = warehouse]
  /\ UNCHANGED <<incident, warehouse, revision, approval, exe, api, run, job, pub, rec, writes,
                 mutations, apart>>

\* ... then looks for blockers in a transaction.
Preview(p) ==
  /\ draft[p].state = "collected" /\ draft[p].incident = incident.revision
  /\ \A q \in Plans : ~Blocking(q)
  /\ draft' = [draft EXCEPT ![p].state = "previewed"]
  /\ UNCHANGED <<incident, warehouse, revision, approval, exe, api, run, job, pub, rec, writes,
                 mutations, apart>>

\* create_plan reads the publication revision later, in a transaction of its own.
PinRevision(p) ==
  /\ draft[p].state = "previewed"
  /\ draft' = [draft EXCEPT ![p].state = "pinned", ![p].revision = revision]
  /\ UNCHANGED <<incident, warehouse, revision, approval, exe, api, run, job, pub, rec, writes,
                 mutations, apart>>

\* ... and stores plan and approval; the blockers are not read again.
StorePlan(p) ==
  /\ draft[p].state = "pinned"
  /\ draft[p].incident = incident.revision /\ ~incident.resolved
  /\ draft' = [draft EXCEPT ![p].state = "stored"]
  /\ approval' = [approval EXCEPT ![p].status = "pending"]
  /\ UNCHANGED <<incident, warehouse, revision, exe, api, run, job, pub, rec, writes, mutations, apart>>

\* ApprovalControlStore.decide and .cancel
Decide(p) ==
  /\ approval[p].status = "pending"
  /\ \E d \in {"approved", "rejected"} : approval' = [approval EXCEPT ![p].status = d]
  /\ UNCHANGED <<incident, warehouse, revision, draft, exe, api, run, job, pub, rec, writes,
                 mutations, apart>>

\* Mutant: cancellation does not look at execution_status.
CancelAnyTime(p) ==
  /\ approval[p].status \in {"pending", "approved"}
  /\ approval' = [approval EXCEPT ![p].status = "cancelled"]
  /\ UNCHANGED <<incident, warehouse, revision, draft, exe, api, run, job, pub, rec, writes,
                 mutations, apart>>

Cancel(p) ==
  /\ approval[p].status \in {"pending", "approved"} /\ approval[p].exec = "not_started"
  /\ approval' = [approval EXCEPT ![p].status = "cancelled"]
  /\ UNCHANGED <<incident, warehouse, revision, draft, exe, api, run, job, pub, rec, writes,
                 mutations, apart>>

----------------------------------------------------------------------------
(* service.py: dispatch. *)

\* verify_plan: incident revision, and facts collected again.
PlanCurrent(p) ==
  /\ incident.revision = draft[p].incident /\ ~incident.resolved
  /\ warehouse = draft[p].facts

\* The claiming transaction of create_execution.
CreateExecution(p) ==
  /\ draft[p].state = "stored" /\ exe[p].status = "none"
  /\ PlanCurrent(p)
  /\ approval[p].status = "approved" /\ approval[p].exec = "not_started"
  /\ approval' = [approval EXCEPT ![p].exec = "dispatching"]
  /\ exe' = [exe EXCEPT ![p].status = "queued"]
  /\ api' = [api EXCEPT ![p] = "claim"]
  /\ UNCHANGED <<incident, warehouse, revision, draft, run, job, pub, rec, writes, mutations, apart>>

\* dispatch_execution, first transaction.
ClaimTrigger(p) ==
  /\ api[p] = "claim"
  /\ exe' = [exe EXCEPT ![p].trigger = "claimed"]
  /\ api' = [api EXCEPT ![p] = "trigger"]
  /\ UNCHANGED <<incident, warehouse, revision, draft, approval, run, job, pub, rec, writes,
                 mutations, apart>>

\* RecoveryAirflowClient.trigger: one POST.  It is accepted (or found by the
\* read-back), lost or refused, or it lands after the client gave up.
Trigger(p) ==
  /\ api[p] = "trigger"
  /\ \/ run' = [run EXCEPT ![p] = "queued"] /\ api' = [api EXCEPT ![p] = "accepted"]
     \/ run' = run                          /\ api' = [api EXCEPT ![p] = "unknown"]
     \/ run' = [run EXCEPT ![p] = "posted"] /\ api' = [api EXCEPT ![p] = "unknown"]
  /\ UNCHANGED <<incident, warehouse, revision, draft, approval, exe, job, pub, rec, writes,
                 mutations, apart>>

\* Mutant: the late answer overwrites a finished execution.
RecordTriggerAlways(p) ==
  /\ api[p] \in {"accepted", "unknown"}
  /\ api' = [api EXCEPT ![p] = "done"]
  /\ IF exe[p].status = "running"
     THEN UNCHANGED <<exe, approval>>
     ELSE /\ exe' = [exe EXCEPT ![p].trigger = api[p],
                                ![p].status = IF api[p] = "accepted" THEN "queued" ELSE "unknown"]
          /\ approval' = [approval EXCEPT ![p].exec =
                            IF @ # "dispatching" THEN @
                            ELSE IF api[p] = "accepted" THEN "dispatched" ELSE "unknown"]
  /\ UNCHANGED <<incident, warehouse, revision, draft, run, job, pub, rec, writes, mutations, apart>>

\* Mutant: the trigger state lands in the status field.
RecordTriggerSwapped(p) ==
  /\ api[p] \in {"accepted", "unknown"}
  /\ api' = [api EXCEPT ![p] = "done"]
  /\ IF exe[p].status \in {"running"} \cup Terminal
     THEN UNCHANGED <<exe, approval>>
     ELSE /\ exe' = [exe EXCEPT ![p].status = api[p]]
          /\ approval' = [approval EXCEPT ![p].exec =
                            IF @ # "dispatching" THEN @
                            ELSE IF api[p] = "accepted" THEN "dispatched" ELSE "unknown"]
  /\ UNCHANGED <<incident, warehouse, revision, draft, run, job, pub, rec, writes, mutations, apart>>

\* dispatch_execution, second transaction.
RecordTrigger(p) ==
  /\ api[p] \in {"accepted", "unknown"}
  /\ api' = [api EXCEPT ![p] = "done"]
  /\ IF exe[p].status \in {"running"} \cup Terminal
     THEN UNCHANGED <<exe, approval>>
     ELSE /\ exe' = [exe EXCEPT ![p].trigger = api[p],
                                ![p].status = IF api[p] = "accepted" THEN "queued" ELSE "unknown"]
          /\ approval' = [approval EXCEPT ![p].exec =
                            IF @ # "dispatching" THEN @
                            ELSE IF api[p] = "accepted" THEN "dispatched" ELSE "unknown"]
  /\ UNCHANGED <<incident, warehouse, revision, draft, run, job, pub, rec, writes, mutations, apart>>

\* The API process dies; a POST it was sending may still arrive.
ApiCrash(p) ==
  /\ ApiMayCrash /\ api[p] \in {"claim", "trigger", "accepted", "unknown"}
  /\ api' = [api EXCEPT ![p] = "done"]
  /\ \/ run' = run
     \/ api[p] = "trigger" /\ run' = [run EXCEPT ![p] = "posted"]
  /\ UNCHANGED <<incident, warehouse, revision, draft, approval, exe, job, pub, rec, writes,
                 mutations, apart>>

----------------------------------------------------------------------------
(* Airflow. *)

PostLands(p) ==
  /\ run[p] = "posted" /\ run' = [run EXCEPT ![p] = "queued"]
  /\ UNCHANGED <<incident, warehouse, revision, draft, approval, exe, api, job, pub, rec, writes,
                 mutations, apart>>

\* The scheduler starts the only task (max_active_runs=1).
StartRun(p, j) ==
  /\ run[p] = "queued" /\ \A q \in Plans : run[q] # "running"
  /\ job[j].pc = "idle"
  /\ run' = [run EXCEPT ![p] = "running"]
  /\ job' = [job EXCEPT ![j] = [plan |-> p, pc |-> "start", outcome |-> "none"]]
  /\ UNCHANGED <<incident, warehouse, revision, draft, approval, exe, api, pub, rec, writes,
                 mutations, apart>>

\* The process ended and the DagRun takes its exit code.
EndRun(p) ==
  /\ run[p] = "running"
  /\ \E j \in Jobs :
       /\ job[j].plan = p
       /\ \A i \in Jobs : job[i].plan = p => job[i].pc \in {"exit_ok", "exit_failed"}
       /\ run' = [run EXCEPT ![p] = IF job[j].pc = "exit_ok" THEN "success" ELSE "failed"]
  /\ UNCHANGED <<incident, warehouse, revision, draft, approval, exe, api, job, pub, rec, writes,
                 mutations, apart>>

\* execution_timeout, dagrun_timeout or a lost worker fail the run.  The command
\* runs through docker exec, so the process in the runner container may live on.
Stopped(p) ==
  IF Detached THEN job
  ELSE [j \in Jobs |-> IF job[j].plan = p THEN [job[j] EXCEPT !.pc = "exit_failed", !.outcome = "none"] ELSE job[j]]

Working(p) == \E j \in Jobs : job[j].plan = p /\ job[j].pc \notin {"exit_ok", "exit_failed"}

\* The run gets a final state from somebody else than its process.
EndedFor(p, state) ==
  /\ run' = [run EXCEPT ![p] = state]
  /\ job' = Stopped(p)
  /\ apart' = IF Detached /\ Working(p) THEN apart \cup {p} ELSE apart

FailRun(p) ==
  /\ run[p] = "running" /\ EndedFor(p, "failed")
  /\ UNCHANGED <<incident, warehouse, revision, draft, approval, exe, api, pub, rec, writes,
                 mutations>>

\* An administrator marks the run as successful.
MarkSuccess(p) ==
  /\ MayClear /\ run[p] \in {"running", "failed"} /\ EndedFor(p, "success")
  /\ UNCHANGED <<incident, warehouse, revision, draft, approval, exe, api, pub, rec, writes,
                 mutations>>

\* An administrator clears the finished run, so its task starts again.
ClearRun(p) ==
  /\ MayClear /\ run[p] \in {"success", "failed"} /\ \E j \in Jobs : job[j].pc = "idle"
  /\ run' = [run EXCEPT ![p] = "queued"]
  /\ apart' = apart \cup {p}
  /\ UNCHANGED <<incident, warehouse, revision, draft, approval, exe, api, job, pub, rec, writes,
                 mutations>>

----------------------------------------------------------------------------
(* runtime.py *)

P(j) == job[j].plan
Become(j, label) == job' = [job EXCEPT ![j].pc = label, ![j].outcome = "none"]
Ends(j, result)  == job' = [job EXCEPT ![j].pc = "finish", ![j].outcome = result]

\* The opening transaction of run_execution.
MayRun(p) ==
  /\ exe[p].status \in {"queued", "unknown"}
  /\ ~(exe[p].status = "unknown" /\ exe[p].finished)
  /\ PlanCurrent(p)
  /\ approval[p].status = "approved" /\ approval[p].exec \in InFlight

ClaimRun(j) ==
  /\ job[j].pc = "start" /\ MayRun(P(j))
  /\ exe' = [exe EXCEPT ![P(j)].status = "running", ![P(j)].trigger = "accepted"]
  /\ Become(j, "pipeline")
  /\ UNCHANGED <<incident, warehouse, revision, draft, approval, api, run, pub, rec, writes,
                 mutations, apart>>

\* A finished execution is returned as it is; every other refusal raises.
RefuseRun(j) ==
  /\ job[j].pc = "start" /\ ~MayRun(P(j))
  /\ Become(j, IF exe[P(j)].status \in Terminal THEN "exit_ok" ELSE "exit_failed")
  /\ UNCHANGED <<incident, warehouse, revision, draft, approval, exe, api, run, pub, rec, writes,
                 mutations, apart>>

\* Mutant: expected_revision is not compared.
EnterLockAnyRevision(j) ==
  /\ job[j].pc = "pipeline" /\ LockFree /\ NothingUnresolved
  /\ Become(j, "locked")
  /\ UNCHANGED <<incident, warehouse, revision, draft, approval, exe, api, run, pub, rec, writes,
                 mutations, apart>>

\* execute_recovery_pipeline: the publication lock and the pinned revision.
EnterLock(j) ==
  /\ job[j].pc = "pipeline" /\ LockFree /\ NothingUnresolved
  /\ revision = draft[P(j)].revision
  /\ Become(j, "locked")
  /\ UNCHANGED <<incident, warehouse, revision, draft, approval, exe, api, run, pub, rec, writes,
                 mutations, apart>>

\* Stages, backups and prepared rows of every target.
Build(j) ==
  /\ job[j].pc = "locked" /\ pub[P(j)] = "none"
  /\ pub' = [pub EXCEPT ![P(j)] = "prepared"]
  /\ Become(j, "built")
  /\ UNCHANGED <<incident, warehouse, revision, draft, approval, exe, api, run, rec, writes,
                 mutations, apart>>

\* lock() raises PublicationUnknown on an unresolved row.  Whatever else fails
\* before the first in-flight record is a definite failure; prepared rows are
\* aborted unless the control session is gone.
PipelineFails(j) ==
  /\ job[j].pc \in {"pipeline", "locked", "built"}
  /\ Ends(j, IF job[j].pc = "pipeline" /\ LockFree /\ ~NothingUnresolved
             THEN "unknown" ELSE "failed")
  /\ \E s \in IF job[j].pc = "built" THEN {"aborted", "prepared"} ELSE {pub[P(j)]} :
       pub' = [pub EXCEPT ![P(j)] = s]
  /\ UNCHANGED <<incident, warehouse, revision, draft, approval, exe, api, run, rec, writes,
                 mutations, apart>>

\* validate_built_recovery compares the live partitions with the plan; then the
\* first member's in-flight record is committed.
BeginPublication(j) ==
  /\ job[j].pc = "built" /\ warehouse = draft[P(j)].facts
  /\ pub' = [pub EXCEPT ![P(j)] = "uncertain"]
  /\ Become(j, "begun")
  /\ UNCHANGED <<incident, warehouse, revision, draft, approval, exe, api, run, rec, writes,
                 mutations, apart>>

\* Mutant: the client sends the command again when it is not sure.
MutateRetrying(j) ==
  /\ job[j].pc = "begun"
  /\ warehouse' \in Contents
  /\ mutations' = [mutations EXCEPT ![P(j)] = @ + 1]
  /\ \E label \in {"begun", "mutated"} : Become(j, label)
  /\ UNCHANGED <<incident, revision, draft, approval, exe, api, run, pub, rec, writes, apart>>

Mutate(j) ==
  /\ job[j].pc = "begun"
  /\ warehouse' \in Contents
  /\ mutations' = [mutations EXCEPT ![P(j)] = @ + 1]
  /\ Become(j, "mutated")
  /\ UNCHANGED <<incident, revision, draft, approval, exe, api, run, pub, rec, writes, apart>>

\* Every member is published.
CompletePublication(j) ==
  /\ job[j].pc = "mutated"
  /\ pub' = [pub EXCEPT ![P(j)] = "published"]
  /\ revision' = revision + 1
  /\ Become(j, "verify")
  /\ UNCHANGED <<incident, warehouse, draft, approval, exe, api, run, rec, writes, mutations, apart>>

\* A later member failed before its own command: the prefix is compensated, or
\* its compensation is refused and it stays, with the rest aborted or not.
UndoPublication(j) ==
  /\ job[j].pc = "mutated"
  /\ \/ pub' = [pub EXCEPT ![P(j)] = "restored"] /\ warehouse' = draft[P(j)].facts
     \/ /\ \E s \in {"partial", "prepared"} : pub' = [pub EXCEPT ![P(j)] = s]
        /\ warehouse' = warehouse
  /\ revision' = revision + 1
  /\ Ends(j, "failed")
  /\ UNCHANGED <<incident, draft, approval, exe, api, run, rec, writes, mutations, apart>>

\* A command or its verification failed: PublicationUnknown, rows stay.  It may be the
\* command of a later member, after others were finished.
LosePublication(j) ==
  /\ job[j].pc \in {"begun", "mutated"}
  /\ revision' \in {revision} \cup (IF job[j].pc = "mutated" THEN {revision + 1} ELSE {})
  /\ Ends(j, "unknown")
  /\ UNCHANGED <<incident, warehouse, draft, approval, exe, api, run, pub, rec, writes,
                 mutations, apart>>

\* The in-flight record of the first or a later member is committed, its acknowledgement
\* lost.  transition is called outside publish_partition's try, so this is an ordinary
\* failure to everybody: the row stays in flight and the execution ends as failed.
LoseAcknowledgement(j) ==
  /\ \/ job[j].pc = "built" /\ warehouse = draft[P(j)].facts /\ revision' = revision
     \/ job[j].pc = "mutated" /\ revision' = revision + 1
  /\ pub' = [pub EXCEPT ![P(j)] = "unacknowledged"]
  /\ Ends(j, "failed")
  /\ UNCHANGED <<incident, warehouse, draft, approval, exe, api, run, rec, writes, mutations,
                 apart>>

\* capture_revalidation returns evidence or raises.
Revalidate(j) ==
  /\ job[j].pc = "verify"
  /\ \E result \in Terminal : Ends(j, result)
  /\ UNCHANGED <<incident, warehouse, revision, draft, approval, exe, api, run, pub, rec, writes,
                 mutations, apart>>

\* _finish: the execution is overwritten, the approval only while in flight.
Finish(j) ==
  /\ job[j].pc = "finish"
  /\ LET p == P(j)
         o == job[j].outcome IN
     /\ exe' = [exe EXCEPT ![p].status = o, ![p].validated = (o = "succeeded"),
                           ![p].finished = TRUE,
                           ![p].error = IF o = "unknown" THEN "PublicationUnknown"
                                        ELSE IF o = "failed" THEN "other" ELSE ""]
     /\ approval' = [approval EXCEPT ![p].exec = IF @ \in InFlight THEN o ELSE @]
     /\ Become(j, IF o = "succeeded" THEN "exit_ok" ELSE "exit_failed")
  /\ UNCHANGED <<incident, warehouse, revision, draft, api, run, pub, rec, writes, mutations, apart>>

\* The process dies, possibly between two members of the group.
JobCrash(j) ==
  /\ job[j].pc \notin {"idle", "exit_ok", "exit_failed"}
  /\ Become(j, "exit_failed")
  /\ \/ UNCHANGED <<pub, revision>>
     \/ /\ job[j].pc = "mutated" /\ revision' = revision + 1
        /\ \E s \in {"prepared", "uncertain"} : pub' = [pub EXCEPT ![P(j)] = s]
  /\ UNCHANGED <<incident, warehouse, draft, approval, exe, api, run, rec, writes, mutations, apart>>

----------------------------------------------------------------------------
(* reconciliation.py *)

\* An unfinished execution is read, then its DagRun, without the lock.
Inspect(p) ==
  /\ rec.plan = Nobody /\ exe[p].status \in {"queued", "running", "unknown"}
  /\ run[p] \in {"queued", "running", "success", "failed"}
  /\ rec' = [plan |-> p, state |-> run[p]]
  /\ UNCHANGED <<incident, warehouse, revision, draft, approval, exe, api, run, job, pub, writes,
                 mutations, apart>>

\* Mutant: a successful DagRun is taken for a successful recovery.
ReconciledTrusting(e, state, uncertain) ==
  IF uncertain THEN [e EXCEPT !.status = "unknown", !.error = "PublicationUnknown"]
  ELSE IF state \in {"failed", "success"}
  THEN [e EXCEPT !.status = IF state = "success" THEN "succeeded" ELSE "failed",
                 !.finished = TRUE]
  ELSE e

\* Mutant: the failed DagRun is looked at before the publication journal.
ReconciledFailedFirst(e, state, uncertain) ==
  IF state = "failed" /\ e.error # "PublicationUnknown"
  THEN [e EXCEPT !.status = "failed", !.error = "AirflowExecutionFailed", !.finished = TRUE]
  ELSE IF uncertain THEN [e EXCEPT !.status = "unknown", !.error = "PublicationUnknown"] ELSE e

\* What the transaction makes of that possibly stale state.
Reconciled(e, state, uncertain) ==
  IF uncertain
  THEN [e EXCEPT !.status = "unknown", !.error = "PublicationUnknown"]
  ELSE IF state = "failed" /\ e.error # "PublicationUnknown"
  THEN [e EXCEPT !.status = "failed", !.error = "AirflowExecutionFailed", !.finished = TRUE]
  ELSE IF state = "success" /\ ~e.validated
  THEN [e EXCEPT !.status = "unknown", !.error = "TerminalRunMissingVerification"]
  ELSE IF state = "running" THEN [e EXCEPT !.trigger = "accepted"] ELSE e

\* Mutant: the approval is not told of the failure.
ReconcileExecutionOnly ==
  /\ rec.plan # Nobody
  /\ rec' = [plan |-> Nobody, state |-> "none"]
  /\ LET p == rec.plan
         uncertain == pub[p] \in {"uncertain", "unacknowledged"}
         e == Reconciled(exe[p], rec.state, uncertain)
     IN  IF exe[p].status \in Terminal THEN UNCHANGED <<exe, approval>>
         ELSE /\ exe' = [exe EXCEPT ![p] = e]
              /\ UNCHANGED approval
  /\ UNCHANGED <<incident, warehouse, revision, draft, api, run, job, pub, writes, mutations, apart>>

Reconcile ==
  /\ rec.plan # Nobody
  /\ rec' = [plan |-> Nobody, state |-> "none"]
  /\ LET p == rec.plan
         uncertain == pub[p] \in {"uncertain", "unacknowledged"}
         e == Reconciled(exe[p], rec.state, uncertain)
     IN  IF exe[p].status \in Terminal THEN UNCHANGED <<exe, approval>>
         ELSE /\ exe' = [exe EXCEPT ![p] = e]
              /\ approval' = [approval EXCEPT ![p].exec =
                   IF uncertain /\ @ \in {"dispatching", "dispatched"} THEN "unknown"
                   ELSE IF e.status = "failed" /\ @ \in InFlight THEN "failed" ELSE @]
  /\ UNCHANGED <<incident, warehouse, revision, draft, api, run, job, pub, writes, mutations, apart>>

----------------------------------------------------------------------------
ApiStep(p) == CreateExecution(p) \/ ClaimTrigger(p) \/ Trigger(p) \/ RecordTrigger(p)

JobStep(j) ==
  \/ ClaimRun(j) \/ RefuseRun(j) \/ EnterLock(j) \/ Build(j) \/ PipelineFails(j) \/ BeginPublication(j)
  \/ Mutate(j) \/ CompletePublication(j) \/ UndoPublication(j) \/ LosePublication(j)
  \/ LoseAcknowledgement(j) \/ Revalidate(j) \/ Finish(j)

Operator(p) == CollectFacts(p) \/ Preview(p) \/ PinRevision(p) \/ StorePlan(p) \/ Decide(p) \/ Cancel(p)

Airflow(p) == PostLands(p) \/ (\E j \in Jobs : StartRun(p, j)) \/ EndRun(p)

Next ==
  \/ \E p \in Plans : \/ Operator(p) \/ ApiStep(p) \/ ApiCrash(p)
                      \/ Airflow(p) \/ FailRun(p) \/ MarkSuccess(p) \/ ClearRun(p) \/ Inspect(p)
  \/ \E j \in Jobs : JobStep(j) \/ JobCrash(j)
  \/ Reconcile \/ Resolve \/ Reopen \/ OtherWriter

Spec == Init /\ [][Next]_vars

\* Processes run on, Airflow schedules accepted runs and notices exits, and the
\* reconciliation DAG is enabled.
Fairness ==
  /\ \A p \in Plans : WF_vars(ClaimTrigger(p) \/ Trigger(p) \/ RecordTrigger(p))
  /\ \A p \in Plans : WF_vars(Airflow(p)) /\ SF_vars(Inspect(p))
  /\ \A j \in Jobs : WF_vars(JobStep(j))
  /\ WF_vars(Reconcile)

FairSpec == Spec /\ Fairness

----------------------------------------------------------------------------
(* Properties. *)

\* "Single-use mutation boundary": an approved plan reaches the live tables at most
\* once, whatever runs are cleared, crash, or live on after Airflow gave up on them.
SingleUse == \A p \in Plans : mutations[p] <= 1

\* A recovery replaces exactly the state its approver saw: the same contents and
\* the same publication revision, although the two were read in different
\* transactions and the pipeline runs long after the last verify_plan.
ApprovedState ==
  [][\A p \in Plans : mutations'[p] # mutations[p] =>
        warehouse = draft[p].facts /\ revision = draft[p].revision]_vars

\* A rejected or cancelled request never has an execution, a run or an effect,
\* however decisions, cancellation and dispatch interleave.
RefusedNeverRuns ==
  \A p \in Plans : approval[p].status \in {"rejected", "cancelled"} =>
    exe[p].status = "none" /\ run[p] = "absent" /\ mutations[p] = 0

\* Success is only ever reported for a complete publication with stored evidence,
\* never inferred from the scheduler's state (docs/recovery-workflow.md:67).
SuccessIsProven ==
  \A p \in Plans : exe[p].status = "succeeded" => exe[p].validated /\ pub[p] = "published"

\* An execution exists exactly for a claimed approval, which was granted for a stored plan;
\* whatever was dispatched, run or published belongs to one, and a claim keeps its incident open.
PlansAreSound ==
  /\ \A p \in Plans :
       /\ approval[p].status # "none" => draft[p].state = "stored"
       /\ exe[p].status = "none" <=> approval[p].exec = "not_started"
       /\ exe[p].status # "none" => approval[p].status = "approved"
       /\ api[p] # "idle" \/ run[p] # "absent" \/ pub[p] # "none" => exe[p].status # "none"
       /\ pub[p] = "none" => mutations[p] = 0
       /\ approval[p].exec \in InFlight => ~incident.resolved
  /\ rec.plan # Nobody => exe[rec.plan].status # "none"

\* Processes of one plan may outlive their run and each other; still only one holds the lock,
\* on the revision the plan pinned, and what it has prepared is not yet live until it acts.
JobsAreSound ==
  /\ \A j \in Jobs : job[j].pc # "idle" =>
       LET p == job[j].plan IN
       /\ p \in Plans /\ exe[p].status # "none"
       /\ job[j].pc \in LockScope => revision = draft[p].revision
       /\ job[j].pc = "built" => pub[p] = "prepared" /\ mutations[p] = 0
       /\ job[j].pc = "begun" => mutations[p] = 0 /\ warehouse = draft[p].facts
       /\ job[j].pc \in {"begun", "mutated"} => pub[p] = "uncertain"
       /\ job[j].pc = "finish" => job[j].outcome # "none"
       /\ job[j].pc = "verify" \/ job[j].outcome = "succeeded" => pub[p] = "published"
  /\ \A i, j \in Jobs : job[i].pc \in LockScope /\ job[j].pc \in LockScope => i = j

\* A publication of unknown outcome keeps its approval in a state that blocks closure, so
\* the incident cannot be resolved over it.  Only when run and process came apart may
\* somebody who knew nothing of the process have reported a failure meanwhile. A record
\* that was only not acknowledged is not among them: its command was never sent.
UncertainBlocksClosure ==
  \A p \in Plans : pub[p] = "uncertain" =>
    \/ approval[p].exec \in InFlight /\ ~incident.resolved
    \/ p \in apart /\ approval[p].exec = "failed"

\* Success is only ever reported to the approval for a complete publication; and execution
\* and approval report the same final outcome, unless two of those who report it - the
\* process, a second process of the cleared run, the reconciler - did not know each other.
OutcomesAgree ==
  \A p \in Plans :
    /\ approval[p].exec = "succeeded" => pub[p] = "published"
    /\ p \notin apart /\ approval[p].exec \in Terminal => exe[p].status = approval[p].exec

\* A plan whose run and process did not come apart has at most one process, which works
\* only while its run does and has not been given an outcome by anybody else; what the
\* reconciler saw ended stays ended.
OneProcess ==
  /\ \A p \in Plans \ apart :
       /\ api[p] \in {"idle", "claim", "trigger"} => run[p] = "absent"
       /\ run[p] \in {"absent", "posted", "queued"} => pub[p] = "none"
  /\ \A j \in Jobs : job[j].plan \in Plans \ apart =>
       LET p == job[j].plan IN
       /\ run[p] \in {"running", "success", "failed"}
       /\ job[j].pc \notin {"exit_ok", "exit_failed"} => run[p] = "running"
       /\ job[j].pc \notin {"start", "exit_ok", "exit_failed"} => exe[p].status \notin Terminal
       /\ job[j].pc \in {"start", "pipeline", "locked"} => pub[p] = "none"
       /\ job[j].pc = "finish" /\ pub[p] = "uncertain" => job[j].outcome = "unknown"
  /\ \A i, j \in Jobs : job[i].plan = job[j].plan /\ job[i].plan \in Plans \ apart => i = j
  /\ rec.plan \in Plans \ apart /\ rec.state \in {"success", "failed"} =>
       run[rec.plan] \in {"success", "failed"}

\* What a plan may do, whatever is cleared, killed, cancelled or reconciled meanwhile:
\* mutate once, never if it was refused, be called successful only on evidence, and be
\* given up by nobody while its publication is uncertain.
RecoveryInv ==
  /\ TypeOK /\ SingleUse /\ RefusedNeverRuns /\ SuccessIsProven
  /\ PlansAreSound /\ JobsAreSound /\ OneProcess /\ OutcomesAgree /\ UncertainBlocksClosure

\* Live data is not replaced after the incident was closed (docs/local-operations.md:653
\* "running or uncertain remediation also blocks closure").
ClosedIsLeftAlone == incident.resolved => mutations' = mutations

\* No step replaces live data of a closed incident.
NoMutationAfterClosure == [][ClosedIsLeftAlone]_vars

\* What the code does keep: a plan that replaces live data of a closed incident is one whose
\* process outlived its run or was started again, and whose approval was reported as failed
\* before the incident could be closed.
ClosedOrApart ==
  incident.resolved =>
    \A p \in Plans : mutations'[p] # mutations[p] => p \in apart /\ approval[p].exec = "failed"

\* No step replaces live data of a closed incident for a plan that kept to its run.
MutatesAfterClosureOnlyApart == [][ClosedOrApart]_vars

\* A claimed approval is eventually reported finished or unknown; it never stays
\* "dispatching" or "dispatched" for ever, whatever responses are lost, runs time out
\* and processes die, as long as the API process survives and 90_06 is enabled.
ApprovalSettles ==
  \A p \in Plans :
    approval[p].exec \in {"dispatching", "dispatched"}
      ~> approval[p].exec \in {"unknown"} \cup Terminal

\* The abstract promise, seen from the recovery plans: the live tables are the one
\* part of the approved work, and a process that came apart from its run has escaped.
Abstract == INSTANCE SingleUseApproval WITH
  Requests <- Plans,
  Parts    <- {1},
  status   <- [p \in Plans |-> approval[p].status],
  exec     <- [p \in Plans |-> approval[p].exec],
  acts     <- [p \in Plans |-> {i \in {1} : mutations[p] > 0}],
  escaped  <- apart

\* Planning, dispatch, the runtime and the reconciler together implement
\* SingleUseApproval, also with processes that outlive their runs and cleared runs.
ImplementsSingleUse == Abstract!Spec
=============================================================================
