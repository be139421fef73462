--------------------------- MODULE SupervisorFanout ---------------------------
(***************************************************************************)
(* One fan-out request of the control-plane supervisor                     *)
(* (agent/supervisor/fanout.py, execution_plan.py, budgets.py): the plan   *)
(* and its topological waves, the allocator that reserves every worker's   *)
(* ceiling, the isolated worker processes (scripts/run_agent_worker.py)    *)
(* with the provider ledger that agent/llm/client.py draws from, the       *)
(* checkpoint of every worker, the aggregation, and re-runs of the same    *)
(* external run id after a crash or a clear.                               *)
(*                                                                         *)
(* The ledger lives in the worker process, the allocator in the parent;    *)
(* only checkpoints survive, and only where AGENT_CHECKPOINT_MODE, which   *)
(* is off by default, provides them.  Estimated cost behaves like tokens   *)
(* and is not modelled separately.                                         *)
(***************************************************************************)
EXTENDS Naturals, FiniteSets, FiniteSetsExt

CONSTANTS
  Workers,         \* planned tasks
  Required,        \* those whose evidence is mandatory
  Plans,           \* dependency graphs a request may be compiled to
  TaskCalls,       \* model_call_budget of every task
  TaskTokens,      \* token_budget of every task
  ParentCalls,     \* max_model_calls of the request
  ParentTokens,    \* token_budget of the request
  Projected,       \* tokens reserved for a provider call
  ActualTokens,    \* tokens a provider may report for a call
  MaxConcurrency,
  MaxReruns        \* bound on restarts of the parent

ASSUME FanoutAssumption ==
  /\ IsFiniteSet(Workers) /\ Workers # {} /\ Required \subseteq Workers
  /\ Plans \subseteq [Workers -> SUBSET Workers]
  /\ TaskCalls \in Nat /\ TaskTokens \in Nat /\ ParentCalls \in Nat /\ ParentTokens \in Nat
  /\ Projected \in Nat /\ ActualTokens \subseteq Nat
  /\ MaxConcurrency \in Nat \ {0} /\ MaxReruns \in Nat

VARIABLES
  deps,            \* the plan's dependencies: worker -> its upstream workers
  external,        \* allow_external_llm
  parent,          \* the process in run_control_plane_fanout
  alloc,           \* workers with a reservation in the allocator
  worker,          \* worker processes and their ledgers
  durable,         \* AGENT_CHECKPOINT_MODE is not off
  child,           \* completed child graphs: their result
  results,         \* results_by_id of the parent
  executions,      \* history: how often each worker process was started
  spent            \* history: provider calls of this run of the parent

vars == <<deps, external, durable, parent, alloc, worker, child, results, executions, spent>>

Usable    == {"success", "partial"}
NoResult  == [status |-> "none", calls |-> 0, tokens |-> 0]
Plain(s)  == [status |-> s, calls |-> 0, tokens |-> 0]      \* a result without usage
IdleProc  == [pc |-> "idle", calls |-> 0, tokens |-> 0]
Active    == {"think", "call"}

Init ==
  /\ deps \in Plans /\ external \in BOOLEAN /\ durable \in BOOLEAN
  /\ parent = [pc |-> "begin", wave |-> 1, status |-> "none", verdict |-> "none", runs |-> 0]
  /\ alloc = {}
  /\ worker = [w \in Workers |-> IdleProc]
  /\ child = [w \in Workers |-> NoResult]
  /\ results = [w \in Workers |-> NoResult]
  /\ executions = [w \in Workers |-> 0] /\ spent = 0

----------------------------------------------------------------------------
(* The plan.                                                               *)

\* effective_fanout_worker_budget
Calls  == IF external /\ ParentCalls > 0 THEN TaskCalls ELSE 0
Tokens == IF external /\ ParentCalls > 0 THEN TaskTokens ELSE 0

\* build_execution_waves: what is complete after n waves; a cycle never completes.
Complete[n \in Nat] ==
  IF n = 0 THEN {}
  ELSE Complete[n - 1] \cup {w \in Workers : deps[w] \subseteq Complete[n - 1]}

Acyclic  == Complete[Cardinality(Workers)] = Workers
Wave(n)  == Complete[n] \ Complete[n - 1]
LastWave == CHOOSE n \in 1..Cardinality(Workers) : Complete[n] = Workers /\ Complete[n - 1] # Workers

\* The sums of validate_execution_plan and reserve_worker.
Fits(S) == Cardinality(S) * Calls <= ParentCalls /\ Cardinality(S) * Tokens <= ParentTokens

Finish(status) ==
  parent' = [parent EXCEPT !.pc = "done", !.status = status,
                           !.verdict = IF status = "blocked" THEN @ ELSE status]

\* compile_execution_plan and validate_execution_plan.
Compile ==
  /\ parent.pc = "begin"
  /\ IF Acyclic /\ Fits(Workers)
     THEN parent' = [parent EXCEPT !.pc = "reserve", !.wave = 1]
     ELSE Finish("blocked")
  /\ UNCHANGED <<deps, external, durable, alloc, worker, child, results, executions, spent>>

\* execute_agent_wave reserves the whole wave before any of its workers starts; a
\* task that already holds its reservation keeps it.
ReserveWave ==
  /\ parent.pc = "reserve"
  /\ LET all == alloc \cup Wave(parent.wave) IN
     IF Fits(all) THEN /\ alloc' = all
                       /\ parent' = [parent EXCEPT !.pc = "run"]
     ELSE Finish("blocked") /\ UNCHANGED alloc
  /\ UNCHANGED <<deps, external, durable, worker, child, results, executions, spent>>

----------------------------------------------------------------------------
(* Workers of the current wave.                                            *)

Running == {w \in Workers : worker[w].pc \in Active}

\* Mutant: an upstream worker that merely ended is enough.
EvidenceAnyEnd(w) == \A u \in deps[w] : results[u].status # "none"

\* dependency_blocked_result
EvidenceFor(w) == \A u \in deps[w] : results[u].status \in Usable

Pending(w) ==
  /\ parent.pc = "run" /\ w \in Wave(parent.wave)
  /\ results[w] = NoResult /\ worker[w].pc = "idle"

\* Mutant: only a required worker gets a blocked result.
BlockWorkerRequired(w) ==
  /\ Pending(w) /\ ~EvidenceFor(w) /\ w \in Required
  /\ results' = [results EXCEPT ![w] = Plain("blocked")]
  /\ UNCHANGED <<deps, external, durable, parent, alloc, worker, child, executions, spent>>

\* run_worker_node without a process: the dependency failed ...
BlockWorker(w) ==
  /\ Pending(w) /\ ~EvidenceFor(w)
  /\ results' = [results EXCEPT ![w] = Plain("blocked")]
  /\ UNCHANGED <<deps, external, durable, parent, alloc, worker, child, executions, spent>>

\* ... or the checkpoint of the child graph says that it completed in an earlier run.
ReuseCheckpoint(w) ==
  /\ durable /\ Pending(w) /\ EvidenceFor(w) /\ child[w] # NoResult
  /\ results' = [results EXCEPT ![w] = child[w]]
  /\ UNCHANGED <<deps, external, durable, parent, alloc, worker, child, executions, spent>>

\* Mutant: a completed child graph is invoked again.
StartWorkerAgain(w) ==
  /\ Pending(w) /\ EvidenceFor(w)
  /\ Cardinality(Running) < MaxConcurrency /\ w \in alloc
  /\ worker' = [worker EXCEPT ![w] = [IdleProc EXCEPT !.pc = "think"]]
  /\ executions' = [executions EXCEPT ![w] = @ + 1]
  /\ UNCHANGED <<deps, external, durable, parent, alloc, child, results, spent>>

\* execute_planned_worker, with its circuit closed: one process, one new ledger.
StartWorker(w) ==
  /\ Pending(w) /\ EvidenceFor(w) /\ child[w] = NoResult
  /\ Cardinality(Running) < MaxConcurrency /\ w \in alloc
  /\ worker' = [worker EXCEPT ![w] = [IdleProc EXCEPT !.pc = "think"]]
  /\ executions' = [executions EXCEPT ![w] = @ + 1]
  /\ UNCHANGED <<deps, external, durable, parent, alloc, child, results, spent>>

\* Mutant: a failed result is not checkpointed, and a re-run tries again.
RecordUsable(w, r) ==
  /\ child' = IF r.status \in Usable THEN [child EXCEPT ![w] = r] ELSE child
  /\ results' = IF parent.pc = "run" THEN [results EXCEPT ![w] = r] ELSE results

\* The node ends and with it its child graph; a parent that is still in this wave takes
\* the result as well.
Record(w, r) ==
  /\ child' = [child EXCEPT ![w] = r]
  /\ results' = IF parent.pc = "run" THEN [results EXCEPT ![w] = r] ELSE results

\* require_circuit_allows fails, or the audit before the start does.
RejectWorker(w) ==
  /\ Pending(w) /\ EvidenceFor(w) /\ child[w] = NoResult
  /\ Cardinality(Running) < MaxConcurrency
  /\ Record(w, Plain("failed"))
  /\ UNCHANGED <<deps, external, durable, parent, alloc, worker, executions, spent>>

\* Mutant: every worker's ledger is opened with the limits of the request.
AdmitsForParent(w) ==
  worker[w].calls + 1 <= ParentCalls /\ worker[w].tokens + Projected <= ParentTokens

\* reserve_model_call
Admits(w) ==
  worker[w].calls + 1 <= Calls /\ worker[w].tokens + Projected <= Tokens

\* run_openai_compatible_route reserves before the network call.  A refused
\* reservation is an exception that run_llm_task turns into the heuristic route.
ReserveCall(w) ==
  /\ worker[w].pc = "think" /\ external /\ Calls > 0 /\ Tokens > 0 /\ Admits(w)
  /\ worker' = [worker EXCEPT ![w].pc = "call", ![w].calls = @ + 1,
                              ![w].tokens = @ + Projected]
  /\ spent' = spent + 1
  /\ UNCHANGED <<deps, external, durable, parent, alloc, child, results, executions>>

\* The provider answers and reconcile_model_call replaces the projection by the
\* actual usage; usage over the budget raises, which again only means fallback.
\* A provider error leaves the projection in the ledger.
EndCall(w) ==
  /\ worker[w].pc = "call"
  /\ \/ \E t \in ActualTokens :
          worker' = [worker EXCEPT ![w].pc = "think", ![w].tokens = (@ + t) - Projected]
     \/ worker' = [worker EXCEPT ![w].pc = "think"]
  /\ UNCHANGED <<deps, external, durable, parent, alloc, child, results, executions, spent>>

\* Mutant: the usage of the returned result is not compared.
AcceptedUnchecked(w, s) == [status |-> s, calls |-> worker[w].calls, tokens |-> worker[w].tokens]

\* reconcile_specialist_result_usage, then validate_worker_usage: a result over its
\* allocation is replaced by a failure.
Accepted(w, s) ==
  IF worker[w].calls <= Calls /\ worker[w].tokens <= Tokens
  THEN [status |-> s, calls |-> worker[w].calls, tokens |-> worker[w].tokens]
  ELSE Plain("failed")

\* The process returns an envelope, exits with an error, or is killed at its timeout.
EndWorker(w) ==
  /\ worker[w].pc \in Active
  /\ \/ worker[w].pc = "think" /\ \E s \in Usable \cup {"failed"} : Record(w, Accepted(w, s))
     \/ Record(w, Plain("failed"))
  /\ worker' = [worker EXCEPT ![w] = IdleProc]
  /\ UNCHANGED <<deps, external, durable, parent, alloc, executions, spent>>

----------------------------------------------------------------------------
(* The parent.                                                             *)

\* Mutant: the loop runs past the last wave.
NextWaveBeyond ==
  /\ parent.pc = "run" /\ \A w \in Wave(parent.wave) : results[w] # NoResult
  /\ parent' = IF parent.wave > LastWave + 1 THEN [parent EXCEPT !.pc = "aggregate"]
               ELSE [parent EXCEPT !.pc = "reserve", !.wave = @ + 1]
  /\ UNCHANGED <<deps, external, durable, alloc, worker, child, results, executions, spent>>

\* The loop over plan.waves.
NextWave ==
  /\ parent.pc = "run" /\ \A w \in Wave(parent.wave) : results[w] # NoResult
  /\ parent' = IF parent.wave = LastWave THEN [parent EXCEPT !.pc = "aggregate"]
               ELSE [parent EXCEPT !.pc = "reserve", !.wave = @ + 1]
  /\ UNCHANGED <<deps, external, durable, alloc, worker, child, results, executions, spent>>

\* The worker's handler raises as well (its audit write fails, or its client cannot
\* be created): the child graph does not complete, the graph starts no further worker and waits
\* for those that run.
LoseWorker(w) ==
  /\ parent.pc = "run"
  /\ \/ worker[w].pc \in Active
     \/ Pending(w) /\ EvidenceFor(w) /\ child[w] = NoResult
        /\ Cardinality(Running) < MaxConcurrency
  /\ worker' = [worker EXCEPT ![w] = IdleProc]
  /\ parent' = [parent EXCEPT !.pc = "unwind"]
  /\ UNCHANGED <<deps, external, durable, alloc, child, results, executions, spent>>

\* The parent's handler: the exception of a wave, or of an audit or context write
\* between two stages, blocks the request.
Block ==
  /\ \/ parent.pc = "unwind" /\ Running = {}
     \/ parent.pc \in {"begin", "reserve", "aggregate"}
  /\ Finish("blocked")
  /\ UNCHANGED <<deps, external, durable, alloc, worker, child, results, executions, spent>>

\* The usage of the results is summed over all tasks.
Total(used) == MapThenSumSet(LAMBDA w : used[w], Workers)
UsedCalls  == Total([w \in Workers |-> results[w].calls])
UsedTokens == Total([w \in Workers |-> results[w].tokens])

\* Mutant: a failed worker never blocks.
VerdictLenient ==
  IF \E w \in Workers : results[w].status # "success" THEN "partial" ELSE "success"

\* aggregate_agent_results
Verdict ==
  IF \E w \in Required : results[w].status \notin Usable THEN "blocked"
  ELSE IF \E w \in Workers : results[w].status # "success" THEN "partial"
  ELSE "success"

Aggregate ==
  /\ parent.pc = "aggregate"
  /\ Finish(IF UsedCalls <= ParentCalls /\ UsedTokens <= ParentTokens THEN Verdict
            ELSE "blocked")
  /\ UNCHANGED <<deps, external, durable, alloc, worker, child, results, executions, spent>>

\* The container of the parent and of its workers stops.
Crash ==
  /\ parent.pc # "done"
  /\ parent' = [parent EXCEPT !.pc = "done", !.status = "none"]
  /\ worker' = [w \in Workers |-> IdleProc]
  /\ alloc' = {} /\ results' = [w \in Workers |-> NoResult]
  /\ UNCHANGED <<deps, external, durable, child, executions, spent>>

\* The task is cleared: the same external run id, hence the same plan, task ids and
\* checkpoint threads; allocator, ledgers and results are new, and without a checkpointer
\* nothing is known of the child graphs of earlier runs.
Rerun ==
  /\ parent.pc = "done" /\ parent.runs < MaxReruns
  /\ parent' = [parent EXCEPT !.pc = "begin", !.status = "none", !.runs = @ + 1,
                             !.verdict = IF durable THEN @ ELSE "none"]
  /\ alloc' = {} /\ spent' = 0
  /\ results' = [w \in Workers |-> NoResult]
  /\ child' = IF durable THEN child ELSE [w \in Workers |-> NoResult]
  /\ UNCHANGED <<deps, external, durable, worker, executions>>

----------------------------------------------------------------------------

Progress ==
  \/ Compile \/ ReserveWave \/ NextWave \/ Aggregate
  \/ \E w \in Workers :
       \/ BlockWorker(w) \/ ReuseCheckpoint(w) \/ StartWorker(w) \/ RejectWorker(w)
       \/ ReserveCall(w) \/ EndCall(w) \/ EndWorker(w)
  \/ Block

Next ==
  \/ Progress
  \/ \E w \in Workers : LoseWorker(w)
  \/ Crash \/ Rerun

Spec == Init /\ [][Next]_vars

\* A process that is up goes on, and subprocess.run kills a worker at its timeout.
FairSpec == Spec /\ WF_vars(Progress) /\ \A w \in Workers : WF_vars(EndWorker(w))

----------------------------------------------------------------------------
(* Properties.                                                             *)

Result == [status : {"none", "success", "partial", "failed", "blocked"},
           calls : Nat, tokens : Nat]

\* Every variable keeps its type.
TypeOK ==
  /\ deps \in Plans /\ external \in BOOLEAN /\ durable \in BOOLEAN
  /\ parent \in [pc : {"begin", "reserve", "run", "unwind", "aggregate", "done"},
                 wave : 1..Cardinality(Workers),
                 status : {"none", "success", "partial", "blocked"},
                 verdict : {"none", "success", "partial"}, runs : 0..MaxReruns]
  /\ alloc \subseteq Workers
  /\ worker \in [Workers -> [pc : {"idle"} \cup Active, calls : Nat, tokens : Nat]]
  /\ child \in [Workers -> Result] /\ results \in [Workers -> Result]
  /\ executions \in [Workers -> Nat] /\ spent \in Nat

\* One run of the request makes at most max_model_calls provider calls, however its
\* workers interleave and although every worker has a ledger of its own
\* (SupervisorFanoutBudgetAllocator, SupervisorLlmBudgetLedger).
SpendBounded == spent <= ParentCalls

\* The budget exceptions of the ledger are swallowed by the model fallback
\* (run_llm_task), yet evidence that is used never cost more than its task and its
\* request allow.
AcceptedWithinBudget ==
  /\ \A w \in Workers : results[w].status \in Usable =>
       results[w].calls <= Calls /\ results[w].tokens <= Tokens
  /\ parent.status \in Usable => UsedCalls <= ParentCalls /\ UsedTokens <= ParentTokens

\* Every ledger draws on its worker's own share of the reservation, which fits the request;
\* a call in progress has its projected tokens in the ledger.
LedgersAreReserved ==
  /\ Fits(alloc)
  /\ \A w \in Workers :
       /\ worker[w].pc \in Active => w \in alloc /\ worker[w].calls <= Calls
       /\ worker[w].pc = "call" => worker[w].tokens >= Projected
       /\ child[w].status \in Usable =>
            child[w].calls <= Calls /\ child[w].tokens <= Tokens

\* The request stays within its budget in what it spends and in what it uses.
WithinBudget == SpendBounded /\ AcceptedWithinBudget /\ LedgersAreReserved

\* A worker process only runs on usable evidence of all its upstream workers
\* (dependency_blocked_result); with checkpoints that is true of all runs together.
DependencyRespected ==
  \A w \in Workers : worker[w].pc \in Active \/ (durable /\ executions[w] > 0) =>
    \A u \in deps[w] : child[u].status \in Usable

\* One run starts a worker at most once, whatever fails in it; without checkpoints that is
\* all that is promised of re-runs.
OncePerRun ==
  \A w \in Workers :
    /\ executions[w] <= parent.runs + 1
    /\ parent.pc \in {"begin", "reserve", "run"} /\ results[w] = NoResult
         /\ worker[w].pc = "idle" => executions[w] <= parent.runs

\* A parent that reports usable evidence has it of every required worker
\* (aggregate_agent_results).
RequiredEvidence ==
  parent.status \in Usable => \A w \in Required : child[w].status \in Usable

\* A wave starts when everything it depends on has a result, and the plan ends when all have.
WavesAreOrdered ==
  /\ parent.pc \in {"reserve", "run"} =>
       /\ Acyclic /\ parent.wave <= LastWave
       /\ \A w \in Complete[parent.wave - 1] : results[w] # NoResult
  /\ parent.pc = "aggregate" => \A w \in Workers : results[w] # NoResult

\* A process belongs to the wave that the parent is in, and has no result yet.
ProcessesAreCurrent ==
  \A w \in Workers : worker[w].pc \in Active =>
    /\ parent.pc \in {"run", "unwind"} /\ executions[w] > 0
    /\ parent.pc = "run" => w \in Wave(parent.wave)
    /\ results[w] = NoResult /\ child[w] = NoResult

\* What ended had usable evidence; a result is that of the child graph, or blocked by a
\* failure that is on record.
ResultsAreKept ==
  \A w \in Workers :
    /\ child[w] # NoResult =>
         /\ child[w].status # "none"
         /\ \A u \in deps[w] : child[u].status \in Usable
    /\ results[w] # NoResult =>
         \/ results[w] = child[w]
         \/ /\ results[w] = Plain("blocked") /\ child[w].status \notin Usable
            /\ \E u \in Workers : child[u].status \notin {"none"} \cup Usable

\* A usable verdict can be read off the child graphs that are still known.
VerdictIsKept ==
  /\ parent.verdict = "success" => \A w \in Workers : child[w].status = "success"
  /\ parent.verdict = "partial" => \E w \in Workers : child[w].status \notin {"none", "success"}

\* Results rest on evidence: what runs and what is reported.
EvidenceInv ==
  /\ TypeOK /\ DependencyRespected /\ RequiredEvidence /\ OncePerRun
  /\ WavesAreOrdered /\ ProcessesAreCurrent /\ ResultsAreKept /\ VerdictIsKept

\* A new run of the parent to which the earlier ones left nothing.
StartsOver == ~durable /\ parent'.runs = parent.runs + 1

\* A worker whose child graph completed is not executed again and its result never changes
\* (invoke_checkpointed_worker), until a re-run without checkpoints knows nothing of it.
ResumeSkipsDone ==
  \A w \in Workers : child[w] # NoResult =>
    executions'[w] = executions[w] /\ (child'[w] = child[w] \/ StartsOver)

\* A re-run with checkpoints may be blocked, but never comes to another usable verdict.
VerdictStable ==
  parent.verdict # "none" => parent'.verdict = parent.verdict \/ StartsOver

\* With checkpoints a re-run continues the request rather than repeating or revising it, and
\* without them nothing but a re-run repeats or revises a worker.
RerunContinues == [][ResumeSkipsDone /\ VerdictStable]_vars

\* Every request ends, also one with a cyclic plan or a lost worker.
RequestEnds == <>[](parent.pc = "done")

=============================================================================
