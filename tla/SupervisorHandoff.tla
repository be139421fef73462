-------------------------- MODULE SupervisorHandoff --------------------------
(***************************************************************************)
(* Single handoffs of the control-plane supervisor to one specialist       *)
(* (agent/supervisor/runtime.py, resilience.py, budgets.py): the budget    *)
(* and circuit gates, attempts under one hard deadline, retries, the       *)
(* outcome row the circuit is derived from, the acceptance of the result   *)
(* and the failure handler.                                                *)
(*                                                                         *)
(* The circuit has no state of its own: it is what a query finds in the    *)
(* audit table, shared by all runs.  Every audit or context write may      *)
(* fail, also after it was stored.                                         *)
(***************************************************************************)
EXTENDS Integers

CONSTANTS
  Runs,          \* concurrent supervisor processes
  MaxRetries,    \* largest max_retries of a request
  Threshold      \* failure_threshold of the circuit policy

ASSUME HandoffAssumption == MaxRetries \in Nat /\ Threshold \in Nat \ {0}

VARIABLES
  circuit,       \* the audit history as load_circuit_breaker_snapshot sees it
  run,           \* the supervisor processes
  retrySafe,     \* retry_safe of the specialist
  calm           \* the specialist and the stores work from now on

vars == <<circuit, run, retrySafe, calm>>

NewRun(m) ==
  [pc |-> "init", maxRetries |-> m, retries |-> 0, started |-> 0, expired |-> FALSE,
   over |-> FALSE, late |-> FALSE, result |-> "none", why |-> "none", attempted |-> FALSE,
   written |-> FALSE, rows |-> 0, flaky |-> FALSE, skipped |-> FALSE, memory |-> FALSE,
   listed |-> FALSE, accepted |-> FALSE]

Usable == {"success", "partial"}

Init ==
  /\ circuit = [failures |-> 0, cooled |-> TRUE]
  /\ run = [r \in Runs |-> [NewRun(0) EXCEPT !.pc = "done"]]
  /\ retrySafe \in BOOLEAN /\ calm = FALSE

----------------------------------------------------------------------------
(* The circuit.                                                            *)

Tripped == circuit.failures >= Threshold
Open    == Tripped /\ ~circuit.cooled

\* Mutant: a partial result is counted as a failure.
AfterRowStrict(c, s) ==
  IF s = "success" THEN [failures |-> 0, cooled |-> TRUE]
  ELSE [failures |-> IF c.failures > Threshold THEN c.failures ELSE c.failures + 1, cooled |-> FALSE]

\* What one more outcome row does to the count of consecutive failures and to the
\* time since the last one (of no use below the threshold); rows with another status are
\* skipped, and so are rows beyond event_limit.
AfterRow(c, s) ==
  IF s \in Usable THEN [failures |-> 0, cooled |-> TRUE]
  ELSE IF s = "blocked" THEN c
  ELSE [failures |-> IF c.failures > Threshold THEN c.failures ELSE c.failures + 1,
        cooled |-> c.failures + 1 < Threshold]

\* recovery_timeout_seconds pass since the last failure.
CoolDown ==
  /\ Open
  /\ circuit' = [circuit EXCEPT !.cooled = TRUE]
  /\ UNCHANGED <<run, retrySafe, calm>>

\* Mutant: the count is lowered without a failure.
ForgetAlways ==
  /\ circuit' = [failures |-> circuit.failures - 1,
                 cooled |-> circuit.cooled \/ circuit.failures = Threshold]
  /\ UNCHANGED <<run, retrySafe, calm>>

\* The oldest failure leaves history_window_seconds.
Forget ==
  /\ circuit.failures > 0
  /\ circuit' = [failures |-> circuit.failures - 1,
                 cooled |-> circuit.cooled \/ circuit.failures = Threshold]
  /\ UNCHANGED <<run, retrySafe, calm>>

----------------------------------------------------------------------------
(* run_control_plane_supervisor up to the handoff.                         *)

Step(r, fields) ==
  /\ run' = [run EXCEPT ![r] = fields]
  /\ UNCHANGED <<circuit, retrySafe, calm>>

At(r, pc) == [run[r] EXCEPT !.pc = pc]

\* Leaving the attempts, their counters are of no further use.
Left(r) == [run[r] EXCEPT !.maxRetries = 0, !.retries = 0, !.started = 0, !.expired = FALSE]
Raised(r, why) == [Left(r) EXCEPT !.pc = "failing", !.why = why]

\* What is left of a run that ended.
Ended(r) == [Left(r) EXCEPT !.pc = "done", !.result = "none", !.why = "none", !.written = FALSE,
                             !.listed = FALSE]

\* A request arrives; once things are calm, requests respect the specialist's policy.
Start(r) ==
  /\ run[r].pc = "done"
  /\ \E m \in 0..MaxRetries :
       /\ calm => m = 0 \/ retrySafe
       /\ Step(r, NewRun(m))

\* evaluate_pre_handoff_budgets
Admit(r) ==
  /\ run[r].pc = "init"
  /\ \/ Step(r, At(r, "circuit"))
     \/ ~calm /\ Step(r, Raised(r, "budget"))

\* load_circuit_breaker_snapshot and require_circuit_allows
CheckCircuit(r) ==
  /\ run[r].pc = "circuit"
  /\ IF Open THEN Step(r, Raised(r, "failure"))
     ELSE Step(r, At(r, "routed"))

\* The handoff starts; invoke_specialist_with_resilience refuses retries of a
\* specialist that is not retry-safe.
Handoff(r) ==
  /\ run[r].pc = "routed"
  /\ IF run[r].maxRetries > 0 /\ ~retrySafe
     THEN Step(r, [Raised(r, "failure") EXCEPT !.attempted = TRUE])
     ELSE Step(r, [At(r, "attempt") EXCEPT !.attempted = TRUE])

----------------------------------------------------------------------------
(* Attempts.                                                               *)

\* Mutant: the remaining time is not checked before the timer is armed.
BeginAttemptLate(r) ==
  /\ run[r].pc = "attempt"
  /\ Step(r, [At(r, "running") EXCEPT !.started = @ + 1])

\* enforce_hard_deadline: no time left, or the timer is armed.
BeginAttempt(r) ==
  /\ run[r].pc = "attempt"
  /\ IF run[r].expired THEN Step(r, Raised(r, "failure"))
     ELSE Step(r, [At(r, "running") EXCEPT !.started = @ + 1])

\* The deadline that all attempts share passes.
Tick(r) ==
  /\ run[r].pc \in {"attempt", "running"} /\ ~run[r].expired /\ ~calm
  /\ Step(r, [run[r] EXCEPT !.expired = TRUE])

\* A provider reports more usage than was reserved; the exception of the ledger only
\* makes the specialist fall back.
Overspend(r) ==
  /\ run[r].pc = "running" /\ ~run[r].over /\ ~run[r].expired /\ ~calm
  /\ Step(r, [run[r] EXCEPT !.over = TRUE])

Exceeded(r) == run[r].over \/ run[r].late

\* The time of the whole run, audit writes included, passes its latency budget after the
\* specialist returned; after its check nobody looks at it any more, and usage over budget
\* makes no difference to it.
Overrun(r) ==
  /\ run[r].pc \in {"outcome", "reconcile"} /\ ~Exceeded(r) /\ ~calm
  /\ Step(r, [run[r] EXCEPT !.late = TRUE])

\* Mutant: off by one.
MayRetryOnceMore(r) == retrySafe /\ run[r].retries <= run[r].maxRetries

\* retry_is_allowed
MayRetry(r) == retrySafe /\ run[r].retries < run[r].maxRetries

Retried(r) == [At(r, "attempt") EXCEPT !.retries = @ + 1]

Returns(r, s) == Step(r, [Left(r) EXCEPT !.pc = "outcome", !.result = s])

\* A terminal result, or a failed one without a transient marker, is returned.
AttemptReturns(r) ==
  /\ run[r].pc = "running" /\ ~run[r].expired
  /\ \E s \in {"success", "partial", "blocked", "failed"} :
       /\ calm => s \in Usable
       /\ Returns(r, s)

\* A failed result with a transient marker, or a transient exception: retried when
\* resolve_retry_schedule finds a retry left and its backoff fits the deadline.
AttemptTransient(r) ==
  /\ run[r].pc = "running" /\ ~run[r].expired /\ ~calm
  /\ \/ MayRetry(r) /\ Step(r, Retried(r))
     \/ Returns(r, "failed")
     \/ ~MayRetry(r) /\ Step(r, Raised(r, "failure"))
     \/ MayRetry(r) /\ Step(r, Raised(r, "failure"))

AttemptRaises(r) ==
  /\ run[r].pc = "running" /\ ~run[r].expired /\ ~calm
  /\ Step(r, Raised(r, "failure"))

\* SIGALRM: never retried, no output.
AttemptTimesOut(r) ==
  /\ run[r].pc = "running" /\ run[r].expired
  /\ Step(r, Raised(r, "failure"))

----------------------------------------------------------------------------
(* Acceptance.                                                             *)

\* The supervisor_specialist_outcome row.
WriteOutcome(r) ==
  /\ run[r].pc = "outcome"
  /\ circuit' = AfterRow(circuit, run[r].result)
  /\ run' = [run EXCEPT ![r] = [At(r, "reconcile") EXCEPT !.written = TRUE, !.rows = @ + 1]]
  /\ UNCHANGED <<retrySafe, calm>>

\* Mutant: actual usage is only audited.
ReconcileUnchecked(r) ==
  /\ run[r].pc = "reconcile"
  /\ Step(r, At(r, "persist"))

\* reconcile_specialist_result_usage and evaluate_post_handoff_budgets: usage and elapsed time
Reconcile(r) ==
  /\ run[r].pc = "reconcile"
  /\ IF run[r].over \/ run[r].late THEN Step(r, Raised(r, "budget")) ELSE Step(r, At(r, "persist"))

\* The completed context, persist_supervisor_incident_memory (whose id is derived from
\* the parent run), the validated state and the final decision.
Persist(r) ==
  /\ run[r].pc = "persist"
  /\ Step(r, [Ended(r) EXCEPT !.memory = TRUE, !.accepted = TRUE])

\* One of these writes raises; the memory may be stored then, and its id listed.
PersistFails(r) ==
  /\ run[r].pc = "persist" /\ ~calm
  /\ \E stored, listed \in BOOLEAN :
       /\ listed => stored
       /\ Step(r, [Raised(r, "failure") EXCEPT !.memory = stored, !.listed = listed])

\* Any write between two stages raises; after the result, its budget check is skipped.
WriteFails(r) ==
  /\ run[r].pc \in {"init", "circuit", "routed", "attempt", "reconcile"}
  /\ ~calm
  /\ Step(r, [Raised(r, "failure") EXCEPT !.skipped = Exceeded(r) /\ run[r].pc = "reconcile"])

\* The write of the outcome raises, before or after the row is stored.
OutcomeFails(r) ==
  /\ run[r].pc = "outcome" /\ ~calm
  /\ \/ Step(r, [Raised(r, "failure") EXCEPT !.flaky = TRUE, !.skipped = Exceeded(r)])
     \/ /\ circuit' = AfterRow(circuit, run[r].result)
        /\ run' = [run EXCEPT ![r] = [Raised(r, "failure") EXCEPT
                                        !.flaky = TRUE, !.skipped = Exceeded(r), !.rows = @ + 1]]
        /\ UNCHANGED <<retrySafe, calm>>

\* Mutant: the handler keeps every result.
KeptAlways(r) == run[r].result # "none"

\* The result the handler keeps: all but one over budget.
Kept(r) == run[r].result # "none" /\ run[r].why # "budget"

\* The handler up to blocked_state: context and memory are written and may fail, then the
\* state is validated.  Neither usage over budget nor a memory id that is listed twice
\* survives that; elapsed time is not a part of the state.
Contain(r) ==
  /\ run[r].pc = "failing"
  /\ \E stored \in BOOLEAN :
       /\ calm => stored
       /\ LET invalid == Kept(r) /\ (run[r].over \/ (run[r].listed /\ stored))
              next == IF invalid THEN Ended(r) ELSE [At(r, "report") EXCEPT !.listed = FALSE] IN
          Step(r, [next EXCEPT !.memory = @ \/ (Kept(r) /\ stored)])

\* Mutant: every contained failure is reported to the circuit.
OwesOutcomeAlways(r) == ~run[r].written

\* handoff_attempted and not outcome_audit_written
OwesOutcome(r) == run[r].attempted /\ ~run[r].written

\* The rest of the handler: the outcome row of an attempted handoff, guarded, and the
\* final decision, whose failure leaves the function by an exception.
Report(r) ==
  /\ run[r].pc = "report"
  /\ \E stored, raises \in BOOLEAN :
       /\ calm => stored /\ ~raises
       /\ LET row == OwesOutcome(r) /\ stored IN
          /\ circuit' = IF row THEN AfterRow(circuit, "failed") ELSE circuit
          /\ run' = [run EXCEPT ![r] =
               [Ended(r) EXCEPT !.rows = IF row THEN @ + 1 ELSE @,
                                !.flaky = @ \/ ~stored, !.accepted = Kept(r) /\ ~raises]]
  /\ UNCHANGED <<retrySafe, calm>>

\* The process dies; nothing of the run is left but what it wrote.
Crash(r) ==
  /\ run[r].pc # "done" /\ ~calm
  /\ Step(r, [NewRun(0) EXCEPT !.pc = "done"])

----------------------------------------------------------------------------

Settle ==
  /\ ~calm /\ calm' = TRUE
  /\ UNCHANGED <<circuit, run, retrySafe>>

\* Steps a live supervisor takes by itself.
Own(r) ==
  \/ Admit(r) \/ CheckCircuit(r) \/ Handoff(r) \/ BeginAttempt(r) \/ AttemptTimesOut(r)
  \/ WriteOutcome(r) \/ Reconcile(r) \/ Persist(r) \/ Contain(r) \/ Report(r)

Next ==
  \/ CoolDown \/ Forget \/ Settle
  \/ \E r \in Runs :
       \/ Start(r) \/ Own(r) \/ Tick(r) \/ Overspend(r) \/ Overrun(r)
       \/ AttemptReturns(r) \/ AttemptTransient(r) \/ AttemptRaises(r)
       \/ WriteFails(r) \/ OutcomeFails(r) \/ PersistFails(r) \/ Crash(r)

Spec == Init /\ [][Next]_vars

\* Time passes, a live process goes on, requests keep coming, and a specialist
\* answers once things are calm.  Before that it may hang.
FairSpec ==
  /\ Spec /\ WF_vars(CoolDown)
  /\ \A r \in Runs :
       /\ WF_vars(Own(r)) /\ WF_vars(Tick(r)) /\ WF_vars(Start(r))
       /\ WF_vars(calm /\ AttemptReturns(r))

----------------------------------------------------------------------------
(* Properties.                                                             *)

RunsOK ==
  [pc : {"init", "circuit", "routed", "attempt", "running", "outcome", "reconcile", "persist",
         "failing", "report", "done"},
   maxRetries : 0..MaxRetries, retries : Nat, started : Nat, expired : BOOLEAN, over : BOOLEAN, late : BOOLEAN,
   result : {"none", "success", "partial", "blocked", "failed"},
   why : {"none", "budget", "failure"},
   attempted : BOOLEAN, written : BOOLEAN, rows : 0..2, flaky : BOOLEAN,
   skipped : BOOLEAN, memory : BOOLEAN, listed : BOOLEAN, accepted : BOOLEAN]

\* Every variable keeps its type.
TypeOK ==
  /\ circuit \in [failures : 0..(Threshold + 1), cooled : BOOLEAN]
  /\ retrySafe \in BOOLEAN /\ calm \in BOOLEAN
  /\ run \in [Runs -> RunsOK]

\* A handoff that ended without a failed outcome write has told the circuit exactly
\* once, on whichever of the two paths it ended; a request that was rejected by the
\* budget or by the open circuit has not, so that the circuit cannot keep itself open.
OutcomeOnce ==
  \A r \in Runs :
    run[r].pc = "done" /\ ~run[r].flaky =>
      run[r].rows = IF run[r].attempted THEN 1 ELSE 0

\* A specialist is invoked at most max_retries + 1 times for a request, and once if
\* it is not retry-safe (resolve_retry_schedule).
AttemptsBounded ==
  \A r \in Runs : run[r].started <= run[r].maxRetries + 1 /\ (~retrySafe => run[r].started <= 1)

\* A result whose usage is over the run's budget is never accepted into the supervisor's
\* state, also when the run is handled as failed for another reason (SupervisorState).
\* One that came too late is accepted only if a write failed between the result and the
\* budget check: the handler does not make up for the check, and SupervisorState adds up
\* the durations of results, not the time of the run.
AcceptedInBudget ==
  \A r \in Runs : run[r].accepted => ~run[r].over /\ (run[r].late => run[r].skipped)

\* A result over budget in usage or time reaches durable incident memory only in the same
\* case; a result the check rejected never does (the handler of
\* run_control_plane_supervisor).
MemoryInBudget == \A r \in Runs : run[r].memory /\ Exceeded(r) => run[r].skipped

\* How the counters of the attempts follow the program: an attempt is counted when it
\* starts, a retry when it is scheduled, and retries are of retry-safe specialists only.
AttemptsCounted ==
  \A r \in Runs : LET x == run[r] IN
    /\ x.pc \in {"attempt", "running"} =>
         /\ x.started = x.retries + (IF x.pc = "running" THEN 1 ELSE 0)
         /\ x.retries <= x.maxRetries /\ (x.maxRetries > 0 => retrySafe)
    /\ x.pc \notin {"attempt", "running"} => x.started = 0 /\ x.retries = 0 /\ ~x.expired

\* Where a result is known: from the end of the attempts to the end of the run.
ResultsKept ==
  \A r \in Runs : LET x == run[r] IN
    /\ x.pc \in {"outcome", "reconcile", "persist"} => x.result # "none"
    /\ x.pc \in {"init", "circuit", "routed", "attempt", "running"} => x.result = "none"
    /\ x.pc \in {"init", "circuit", "routed"} => ~x.over
    /\ x.pc \in {"init", "circuit", "routed", "attempt", "running"} => ~x.late
    /\ x.pc = "persist" => ~Exceeded(r)
    /\ x.pc \notin {"failing", "report", "done"} => ~x.memory /\ ~x.skipped /\ ~x.listed
    /\ x.listed => x.written
    /\ x.pc # "done" => ~x.accepted
    /\ x.pc \in {"failing", "report"} /\ Kept(r) /\ Exceeded(r) => x.skipped
    /\ x.pc = "report" /\ Kept(r) => ~x.over

\* The outcome rows of a run: none before its result, then what the flags say.
RowsCounted ==
  \A r \in Runs : LET x == run[r] IN
    /\ x.pc \in {"init", "circuit", "routed"} => ~x.attempted
    /\ x.pc \in {"attempt", "running", "outcome", "reconcile", "persist"} => x.attempted
    /\ x.pc \in {"reconcile", "persist"} => x.written
    /\ x.pc = "failing" /\ x.result # "none" => x.written \/ x.flaky
    /\ x.pc # "done" =>
         /\ x.rows <= 1 /\ (x.rows = 1 => x.written \/ x.flaky)
         /\ x.written => x.rows = 1 /\ x.attempted
    /\ x.pc \in {"init", "circuit", "routed", "attempt", "running", "outcome"} =>
         ~x.written /\ ~x.flaky

\* A request stays within its number of attempts, and what becomes of results over budget.
BudgetInv ==
  /\ TypeOK /\ AttemptsBounded /\ AcceptedInBudget /\ MemoryInBudget
  /\ AttemptsCounted /\ ResultsKept /\ RowsCounted

\* After the shared deadline of the attempts none starts, none is scheduled and none
\* delivers a result (enforce_hard_deadline).
DeadlineIsHard ==
  [][\A r \in Runs : run[r].expired =>
       run'[r].started <= run[r].started /\ run'[r].retries <= run[r].retries
       /\ run'[r].result = run[r].result]_vars

\* Once the specialist works, failures of the past do not keep its circuit open.
CircuitRecovers == calm ~> [](~Tripped)

=============================================================================
