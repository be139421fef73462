----------------------- MODULE SupervisorHandoffProofs -----------------------
(***************************************************************************)
(* Theorems about SupervisorHandoff, for every set of runs, every number   *)
(* of retries and every threshold of the circuit.                          *)
(***************************************************************************)
EXTENDS SupervisorHandoff, TLAPS

----------------------------------------------------------------------------
(* The invariant of one run.                                               *)

\* What BudgetInv and OutcomeOnce say of one run x.
AttemptsOK(x) ==
  /\ x.pc \in {"attempt", "running"} =>
       /\ x.started = x.retries + (IF x.pc = "running" THEN 1 ELSE 0)
       /\ x.retries <= x.maxRetries /\ (x.maxRetries > 0 => retrySafe)
  /\ x.pc \notin {"attempt", "running"} => x.started = 0 /\ x.retries = 0 /\ ~x.expired

ResultOK(x) ==
  /\ x.pc \in {"outcome", "reconcile", "persist"} => x.result # "none"
  /\ x.pc \in {"init", "circuit", "routed", "attempt", "running"} => x.result = "none"

SpendOK(x) ==
  /\ x.pc \in {"init", "circuit", "routed"} => ~x.over
  /\ x.pc \in {"init", "circuit", "routed", "attempt", "running"} => ~x.late
  /\ x.pc = "persist" => ~x.over /\ ~x.late
  /\ x.pc \notin {"failing", "report", "done"} => ~x.memory /\ ~x.skipped /\ ~x.listed
  /\ x.listed => x.written
  /\ x.pc # "done" => ~x.accepted
  /\ x.pc \in {"failing", "report"} /\ x.result # "none" /\ x.why # "budget" =>
       (x.over \/ x.late => x.skipped)
  /\ x.pc = "report" /\ x.result # "none" /\ x.why # "budget" => ~x.over
  /\ x.accepted => ~x.over /\ (x.late => x.skipped)
  /\ x.memory /\ (x.over \/ x.late) => x.skipped

OutcomeOK(x) ==
  /\ x.pc \in {"init", "circuit", "routed"} => ~x.attempted
  /\ x.pc \in {"attempt", "running", "outcome", "reconcile", "persist"} => x.attempted
  /\ x.pc \in {"reconcile", "persist"} => x.written
  /\ x.pc = "failing" /\ x.result # "none" => x.written \/ x.flaky
  /\ x.pc # "done" =>
       /\ x.rows <= 1 /\ (x.rows = 1 => x.written \/ x.flaky)
       /\ x.written => x.rows = 1 /\ x.attempted
  /\ x.pc \in {"init", "circuit", "routed", "attempt", "running", "outcome"} =>
       ~x.written /\ ~x.flaky
  /\ x.pc = "done" /\ ~x.flaky => x.rows = IF x.attempted THEN 1 ELSE 0

RunOK(x) == x \in RunsOK /\ AttemptsOK(x) /\ ResultOK(x) /\ SpendOK(x) /\ OutcomeOK(x)

Shared ==
  /\ circuit \in [failures : 0..(Threshold + 1), cooled : BOOLEAN]
  /\ retrySafe \in BOOLEAN /\ calm \in BOOLEAN /\ run \in [Runs -> RunsOK]

HandoffInv == Shared /\ \A r \in Runs : RunOK(run[r])

\* The invariant is made of the parts that the run checks.
LEMMA InvParts == HandoffInv => BudgetInv /\ OutcomeOnce
<1> SUFFICES ASSUME HandoffInv PROVE BudgetInv /\ OutcomeOnce OBVIOUS
<1>1. TypeOK
  BY DEF HandoffInv, Shared, TypeOK
<1>2. AttemptsCounted
  BY DEF HandoffInv, RunOK, AttemptsOK, AttemptsCounted
<1>3. AttemptsBounded
  <2> SUFFICES ASSUME NEW r \in Runs
               PROVE  run[r].started <= run[r].maxRetries + 1 /\ (~retrySafe => run[r].started <= 1)
    BY DEF AttemptsBounded
  <2> DEFINE x == run[r]
  <2>1. x.maxRetries \in Nat /\ x.retries \in Nat
    BY HandoffAssumption DEF HandoffInv, Shared, RunsOK
  <2>2. CASE x.pc \in {"attempt", "running"}
    BY <2>1, <2>2 DEF HandoffInv, RunOK, AttemptsOK
  <2>3. CASE x.pc \notin {"attempt", "running"}
    BY <2>1, <2>3 DEF HandoffInv, RunOK, AttemptsOK
  <2> QED BY <2>2, <2>3
<1>4. AcceptedInBudget /\ MemoryInBudget
  BY DEF HandoffInv, RunOK, SpendOK, AcceptedInBudget, MemoryInBudget, Exceeded
<1>5. ResultsKept
  BY DEF HandoffInv, RunOK, SpendOK, ResultOK, ResultsKept, Kept, Exceeded
<1>6. RowsCounted /\ OutcomeOnce
  BY DEF HandoffInv, RunOK, OutcomeOK, RowsCounted, OutcomeOnce
<1> QED BY <1>1, <1>2, <1>3, <1>4, <1>5, <1>6 DEF BudgetInv

\* A step of one run leaves the others as they are.
LEMMA OneRunMoves ==
  ASSUME HandoffInv, NEW r \in Runs, NEW x, run' = [run EXCEPT ![r] = x], RunOK(x),
         UNCHANGED <<retrySafe, calm>>,
         circuit' \in [failures : 0..(Threshold + 1), cooled : BOOLEAN]
  PROVE  HandoffInv'
<1>1. x \in RunsOK
  BY DEF RunOK
<1>2. Shared'
  BY <1>1 DEF HandoffInv, Shared
<1>3. run'[r] = x /\ \A u \in Runs \ {r} : run'[u] = run[u]
  BY DEF HandoffInv, Shared
<1>4. \A u \in Runs : RunOK(run[u])'
  BY <1>3 DEF HandoffInv, RunOK, AttemptsOK, ResultOK, SpendOK, OutcomeOK
<1> QED BY <1>2, <1>4 DEF HandoffInv

\* Step moves one run and nothing else.
LEMMA StepMoves ==
  ASSUME HandoffInv, NEW r \in Runs, NEW x, Step(r, x), RunOK(x)
  PROVE  HandoffInv'
BY OneRunMoves DEF Step, HandoffInv, Shared

\* A new request, and a run of which nothing is left.
LEMMA NewRunOK ==
  ASSUME NEW m \in 0..MaxRetries
  PROVE  RunOK(NewRun(m)) /\ RunOK([NewRun(m) EXCEPT !.pc = "done"])
<1> DEFINE Fresh(x) ==
      /\ x.started = 0 /\ x.retries = 0 /\ x.rows = 0 /\ x.result = "none"
      /\ x.expired = FALSE /\ x.over = FALSE /\ x.attempted = FALSE /\ x.memory = FALSE
      /\ x.late = FALSE /\ x.listed = FALSE
      /\ x.skipped = FALSE /\ x.accepted = FALSE /\ x.written = FALSE /\ x.flaky = FALSE
<1>1. ASSUME NEW x \in RunsOK, x.pc \in {"init", "done"}, Fresh(x) PROVE RunOK(x)
  BY <1>1 DEF RunOK, AttemptsOK, ResultOK, SpendOK, OutcomeOK
<1>2. NewRun(m) \in RunsOK /\ NewRun(m).pc = "init" /\ Fresh(NewRun(m))
  BY HandoffAssumption DEF NewRun, RunsOK
<1> DEFINE y == [NewRun(m) EXCEPT !.pc = "done"]
<1>3. y \in RunsOK /\ y.pc = "done" /\ Fresh(y)
  BY <1>2 DEF RunsOK
<1>4. RunOK(NewRun(m))
  BY <1>1, <1>2
<1>5. RunOK(y)
  BY <1>1, <1>3
<1> QED BY <1>4, <1>5

\* The counters may be reset in every run.
LEMMA LeftType ==
  ASSUME NEW x \in RunsOK
  PROVE  [x EXCEPT !.maxRetries = 0, !.retries = 0, !.started = 0, !.expired = FALSE]
          \in RunsOK
<1>1. 0 \in 0..MaxRetries
  BY HandoffAssumption
<1> QED BY <1>1 DEF RunsOK

\* A request that fails before its result, or with it.
LEMMA RaisedOK ==
  ASSUME HandoffInv, NEW r \in Runs, NEW why \in {"budget", "failure"},
         run[r].pc \notin {"done", "report", "failing"},
         run[r].result # "none" /\ Exceeded(r) => why = "budget",
         run[r].pc \in {"reconcile", "persist"} \/ run[r].result = "none"
  PROVE  RunOK(Raised(r, why))
<1>1. RunOK(run[r]) /\ run[r] \in RunsOK
  BY DEF HandoffInv, RunOK
<1> DEFINE x == Raised(r, why)
<1>2. x \in RunsOK
  <2>1. Left(r) \in RunsOK
    BY <1>1, LeftType DEF Left
  <2> QED BY <2>1 DEF Raised, RunsOK
<1>3. /\ x.pc = "failing" /\ x.started = 0 /\ x.retries = 0 /\ x.rows = run[r].rows
      /\ x.result = run[r].result /\ x.why = why
      /\ x.expired = FALSE /\ x.over = run[r].over /\ x.attempted = run[r].attempted
      /\ x.late = run[r].late /\ x.listed = run[r].listed
      /\ x.memory = run[r].memory /\ x.skipped = run[r].skipped
      /\ x.accepted = run[r].accepted /\ x.written = run[r].written /\ x.flaky = run[r].flaky
  BY <1>1 DEF Raised, Left, RunsOK
<1> SUFFICES RunOK(x) OBVIOUS
<1> HIDE DEF x
<1>4. AttemptsOK(x) /\ ResultOK(x)
  BY <1>3 DEF AttemptsOK, ResultOK
<1>5. SpendOK(x)
  BY <1>1, <1>3 DEF RunOK, SpendOK, Exceeded
<1>6. OutcomeOK(x)
  BY <1>1, <1>3 DEF RunOK, OutcomeOK
<1> QED BY <1>2, <1>4, <1>5, <1>6 DEF RunOK

Same(x, y) ==
  /\ x.result = y.result /\ x.why = y.why /\ x.over = y.over /\ x.memory = y.memory
  /\ x.skipped = y.skipped /\ x.accepted = y.accepted
  /\ x.late = y.late /\ x.listed = y.listed

SameCounts(x, y) ==
  /\ x.started = y.started /\ x.retries = y.retries /\ x.maxRetries = y.maxRetries
  /\ x.expired = y.expired

SameRows(x, y) ==
  x.rows = y.rows /\ x.written = y.written /\ x.flaky = y.flaky /\ x.attempted = y.attempted

PCs == {"init", "circuit", "routed", "attempt", "running", "outcome", "reconcile", "persist",
        "failing", "report", "done"}

\* Moving the program counter changes nothing else.
LEMMA AtFacts ==
  ASSUME HandoffInv, NEW r \in Runs, NEW pc \in PCs
  PROVE  /\ run[r] \in RunsOK /\ RunOK(run[r])
         /\ At(r, pc) \in RunsOK /\ At(r, pc).pc = pc
         /\ Same(At(r, pc), run[r]) /\ SameCounts(At(r, pc), run[r]) /\ SameRows(At(r, pc), run[r])
BY DEF HandoffInv, Shared, At, RunsOK, PCs, Same, SameCounts, SameRows

\* The steps up to the first attempt.
LEMMA RoutingSteps ==
  ASSUME HandoffInv, NEW r \in Runs, Start(r) \/ Admit(r) \/ CheckCircuit(r) \/ Handoff(r)
  PROVE  HandoffInv'
<1>0. /\ run[r] \in RunsOK /\ RunOK(run[r])
      /\ retrySafe \in BOOLEAN
  BY AtFacts DEF PCs, HandoffInv, Shared
<1>1. CASE Start(r)
  <2>1. PICK m \in 0..MaxRetries : Step(r, NewRun(m))
    BY <1>1 DEF Start
  <2> QED BY <2>1, NewRunOK, StepMoves
<1>2. CASE Admit(r)
  <2>1. CASE Step(r, At(r, "circuit"))
    <3>1. RunOK(At(r, "circuit"))
      <4> DEFINE x == At(r, "circuit")
      <4>1. x \in RunsOK /\ x.pc = "circuit" /\ Same(x, run[r]) /\ SameCounts(x, run[r]) /\ SameRows(x, run[r])
        BY AtFacts DEF PCs
      <4> HIDE DEF x
      <4>2. RunOK(x)
        BY <1>0, <1>2, <4>1 DEF Admit, RunOK, AttemptsOK, ResultOK, SpendOK, OutcomeOK, Same, SameCounts, SameRows
      <4> QED BY <4>2 DEF x
    <3> QED BY <2>1, <3>1, StepMoves
  <2>2. CASE Step(r, Raised(r, "budget"))
    BY <1>0, <1>2, <2>2, RaisedOK, StepMoves DEF Admit, RunOK, ResultOK
  <2> QED BY <1>2, <2>1, <2>2 DEF Admit
<1>3. CASE CheckCircuit(r)
  <2>1. CASE Step(r, Raised(r, "failure"))
    BY <1>0, <1>3, <2>1, RaisedOK, StepMoves DEF CheckCircuit, RunOK, ResultOK
  <2>2. CASE Step(r, At(r, "routed"))
    <3> DEFINE x == At(r, "routed")
    <3>1. x \in RunsOK /\ x.pc = "routed" /\ Same(x, run[r]) /\ SameCounts(x, run[r]) /\ SameRows(x, run[r])
      BY AtFacts DEF PCs
    <3> HIDE DEF x
    <3>2. RunOK(x)
      BY <1>0, <1>3, <3>1 DEF CheckCircuit, RunOK, AttemptsOK, ResultOK, SpendOK, OutcomeOK, Same, SameCounts, SameRows
    <3> QED BY <2>2, <3>2, StepMoves DEF x
  <2> QED BY <1>3, <2>1, <2>2 DEF CheckCircuit
<1>4. CASE Handoff(r)
  <2>1. CASE Step(r, [Raised(r, "failure") EXCEPT !.attempted = TRUE])
    <3> DEFINE y == Raised(r, "failure")
               x == [y EXCEPT !.attempted = TRUE]
    <3>1. RunOK(y) /\ y \in RunsOK /\ y.pc = "failing" /\ y.rows = 0 /\ y.written = FALSE
      <4>1. RunOK(y)
        BY <1>0, <1>4, RaisedOK DEF Handoff, RunOK, ResultOK
      <4>2. y.pc = "failing" /\ y.rows = run[r].rows /\ y.written = run[r].written
        BY <1>0 DEF Raised, Left, RunsOK
      <4>3. run[r].rows = 0 /\ run[r].written = FALSE
        BY <1>0, <1>4 DEF Handoff, RunOK, OutcomeOK, RunsOK
      <4> QED BY <4>1, <4>2, <4>3 DEF RunOK
    <3> HIDE DEF y
    <3>2. /\ x \in RunsOK /\ x.pc = y.pc /\ Same(x, y) /\ SameCounts(x, y)
          /\ x.rows = y.rows /\ x.written = y.written /\ x.flaky = y.flaky
      <4>1. x \in RunsOK
        BY <3>1 DEF RunsOK
      <4>2. x.pc = y.pc /\ x.rows = y.rows /\ x.written = y.written /\ x.flaky = y.flaky
        BY <3>1 DEF RunsOK
      <4>3. Same(x, y)
        BY <3>1 DEF RunsOK, Same
      <4>4. SameCounts(x, y)
        BY <3>1 DEF RunsOK, SameCounts
      <4> QED BY <4>1, <4>2, <4>3, <4>4
    <3> HIDE DEF x
    <3>3. AttemptsOK(x) /\ ResultOK(x) /\ SpendOK(x)
      BY <3>1, <3>2 DEF RunOK, AttemptsOK, ResultOK, SpendOK, Same, SameCounts
    <3>4. OutcomeOK(x)
      BY <3>1, <3>2 DEF RunOK, OutcomeOK, Same
    <3>5. RunOK(x)
      BY <3>2, <3>3, <3>4 DEF RunOK
    <3> QED BY <2>1, <3>5, StepMoves DEF x, y
  <2>2. CASE /\ run[r].maxRetries > 0 => retrySafe
             /\ Step(r, [At(r, "attempt") EXCEPT !.attempted = TRUE])
    <3> DEFINE y == At(r, "attempt")
               x == [y EXCEPT !.attempted = TRUE]
    <3>1. /\ y \in RunsOK /\ y.pc = "attempt" /\ Same(y, run[r]) /\ SameCounts(y, run[r])
          /\ SameRows(y, run[r])
      BY AtFacts DEF PCs
    <3> HIDE DEF y
    <3>2. /\ x \in RunsOK /\ x.pc = "attempt" /\ Same(x, run[r]) /\ SameCounts(x, run[r])
          /\ x.rows = run[r].rows /\ x.written = run[r].written /\ x.flaky = run[r].flaky
          /\ x.attempted = TRUE
      BY <3>1 DEF RunsOK, Same, SameCounts, SameRows
    <3> HIDE DEF x
    <3>3. run[r].pc = "routed" /\ run[r].maxRetries \in Nat
      BY <1>0, <1>4, HandoffAssumption DEF Handoff, RunsOK
    <3>4. RunOK(x)
      BY <1>0, <2>2, <3>2, <3>3 DEF RunOK, AttemptsOK, ResultOK, SpendOK, OutcomeOK, Same, SameCounts, SameRows
    <3> QED BY <2>2, <3>4, StepMoves DEF x, y
  <2>3. run[r].maxRetries \in Nat
    BY <1>0, HandoffAssumption DEF RunsOK
  <2> QED BY <1>0, <1>4, <2>1, <2>2, <2>3 DEF Handoff
<1> QED BY <1>1, <1>2, <1>3, <1>4

Zero(x) == x.started = 0 /\ x.retries = 0 /\ x.expired = FALSE

\* What is left of a run after its attempts.
LEMMA LeftFacts ==
  ASSUME HandoffInv, NEW r \in Runs
  PROVE  /\ Left(r) \in RunsOK /\ Left(r).pc = run[r].pc /\ Zero(Left(r))
         /\ Same(Left(r), run[r]) /\ SameRows(Left(r), run[r])
<1>1. run[r] \in RunsOK
  BY DEF HandoffInv, Shared
<1>2. Left(r) \in RunsOK
  BY <1>1, LeftType DEF Left
<1> QED BY <1>1, <1>2 DEF Left, RunsOK, Zero, Same, SameRows

\* What is left of a run that failed.
LEMMA RaisedFacts ==
  ASSUME HandoffInv, NEW r \in Runs, NEW why \in {"budget", "failure"}
  PROVE  LET x == Raised(r, why) IN
         /\ x \in RunsOK /\ x.pc = "failing" /\ Zero(x) /\ SameRows(x, run[r])
         /\ x.result = run[r].result /\ x.why = why /\ x.over = run[r].over
         /\ x.memory = run[r].memory /\ x.skipped = run[r].skipped /\ x.accepted = run[r].accepted
         /\ x.late = run[r].late /\ x.listed = run[r].listed
<1> DEFINE y == Left(r)
<1>1. /\ y \in RunsOK /\ y.pc = run[r].pc /\ Zero(y) /\ Same(y, run[r]) /\ SameRows(y, run[r])
  BY LeftFacts
<1>2. Raised(r, why) = [y EXCEPT !.pc = "failing", !.why = why]
  BY DEF Raised
<1> HIDE DEF y
<1>3. Raised(r, why) \in RunsOK
  BY <1>1, <1>2 DEF RunsOK
<1> DEFINE x == Raised(r, why)
<1>4. x.pc = "failing" /\ x.why = why /\ Zero(x)
  BY <1>1, <1>2 DEF RunsOK, Zero
<1>5. /\ x.result = y.result /\ x.over = y.over /\ x.memory = y.memory
      /\ x.skipped = y.skipped /\ x.accepted = y.accepted
      /\ x.late = y.late /\ x.listed = y.listed
  BY <1>1, <1>2 DEF RunsOK
<1>6. x.rows = y.rows /\ x.written = y.written /\ x.flaky = y.flaky /\ x.attempted = y.attempted
  BY <1>1, <1>2 DEF RunsOK
<1> QED BY <1>1, <1>3, <1>4, <1>5, <1>6 DEF Same, SameRows

\* What is left of a run that ended.
LEMMA EndedFacts ==
  ASSUME HandoffInv, NEW r \in Runs
  PROVE  LET x == Ended(r) IN
         /\ x \in RunsOK /\ x.pc = "done" /\ Zero(x)
         /\ x.result = "none" /\ x.over = run[r].over /\ x.memory = run[r].memory
         /\ x.skipped = run[r].skipped /\ x.accepted = run[r].accepted
         /\ x.rows = run[r].rows /\ x.flaky = run[r].flaky /\ x.attempted = run[r].attempted
         /\ x.late = run[r].late /\ x.listed = FALSE
<1> DEFINE y == Left(r)
<1>1. /\ y \in RunsOK /\ y.pc = run[r].pc /\ Zero(y) /\ Same(y, run[r]) /\ SameRows(y, run[r])
  BY LeftFacts
<1>2. Ended(r) = [y EXCEPT !.pc = "done", !.result = "none", !.why = "none",
                       !.written = FALSE, !.listed = FALSE]
  BY DEF Ended
<1> HIDE DEF y
<1>3. Ended(r) \in RunsOK
  BY <1>1, <1>2 DEF RunsOK
<1> DEFINE x == Ended(r)
<1>4. x.pc = "done" /\ x.result = "none" /\ Zero(x) /\ x.listed = FALSE
  BY <1>1, <1>2 DEF RunsOK, Zero
<1>5. /\ x.over = y.over /\ x.memory = y.memory /\ x.skipped = y.skipped
      /\ x.accepted = y.accepted /\ x.late = y.late
  BY <1>1, <1>2 DEF RunsOK
<1>6. x.rows = y.rows /\ x.flaky = y.flaky /\ x.attempted = y.attempted
  BY <1>1, <1>2 DEF RunsOK
<1> QED BY <1>1, <1>3, <1>4, <1>5, <1>6 DEF Same, SameRows

\* The attempts and their deadline.
LEMMA AttemptSteps ==
  ASSUME HandoffInv, NEW r \in Runs,
         \/ BeginAttempt(r) \/ Tick(r) \/ Overspend(r) \/ AttemptReturns(r)
         \/ AttemptTransient(r) \/ AttemptRaises(r) \/ AttemptTimesOut(r)
  PROVE  HandoffInv'
<1>0. /\ run[r] \in RunsOK /\ RunOK(run[r]) /\ run[r].pc \in {"attempt", "running"}
      /\ run[r].result = "none" /\ run[r].maxRetries \in Nat /\ run[r].retries \in Nat
      /\ retrySafe \in BOOLEAN
  <2>1. run[r] \in RunsOK /\ RunOK(run[r]) /\ retrySafe \in BOOLEAN
    BY DEF HandoffInv, Shared
  <2>2. run[r].pc \in {"attempt", "running"}
    BY DEF BeginAttempt, Tick, Overspend, AttemptReturns, AttemptTransient, AttemptRaises,
           AttemptTimesOut
  <2>3. run[r].maxRetries \in Nat /\ run[r].retries \in Nat
    BY <2>1, HandoffAssumption DEF RunsOK
  <2> QED BY <2>1, <2>2, <2>3 DEF RunOK, ResultOK
<1>1. ASSUME Step(r, Raised(r, "failure")) PROVE HandoffInv'
  BY <1>0, <1>1, RaisedOK, StepMoves
<1>2. ASSUME run[r].pc = "attempt", Step(r, [At(r, "running") EXCEPT !.started = @ + 1])
      PROVE  HandoffInv'
  <2> DEFINE y == At(r, "running")
             x == [y EXCEPT !.started = @ + 1]
  <2>1. /\ y \in RunsOK /\ y.pc = "running" /\ Same(y, run[r]) /\ SameCounts(y, run[r])
        /\ SameRows(y, run[r])
    BY AtFacts DEF PCs
  <2> HIDE DEF y
  <2>2. /\ x \in RunsOK /\ x.pc = "running" /\ Same(x, y) /\ SameRows(x, y)
        /\ x.started = y.started + 1 /\ x.retries = y.retries /\ x.maxRetries = y.maxRetries
    BY <2>1 DEF RunsOK, Same, SameRows
  <2> HIDE DEF x
  <2>3. RunOK(x)
    BY <1>0, <1>2, <2>1, <2>2 DEF RunOK, AttemptsOK, ResultOK, SpendOK, OutcomeOK, Same, SameCounts, SameRows
  <2> QED BY <1>2, <2>3, StepMoves DEF x, y
<1>3. ASSUME Step(r, [run[r] EXCEPT !.expired = TRUE]) PROVE HandoffInv'
  <2> DEFINE x == [run[r] EXCEPT !.expired = TRUE]
  <2>1. /\ x \in RunsOK /\ x.pc = run[r].pc /\ Same(x, run[r]) /\ SameRows(x, run[r])
        /\ x.started = run[r].started /\ x.retries = run[r].retries
        /\ x.maxRetries = run[r].maxRetries
    BY <1>0 DEF RunsOK, Same, SameRows
  <2> HIDE DEF x
  <2>2. RunOK(x)
    BY <1>0, <2>1 DEF RunOK, AttemptsOK, ResultOK, SpendOK, OutcomeOK, Same, SameCounts, SameRows
  <2> QED BY <1>3, <2>2, StepMoves DEF x
<1>4. ASSUME run[r].pc = "running", Step(r, [run[r] EXCEPT !.over = TRUE]) PROVE HandoffInv'
  <2> DEFINE x == [run[r] EXCEPT !.over = TRUE]
  <2>1. /\ x \in RunsOK /\ x.pc = run[r].pc /\ SameCounts(x, run[r]) /\ SameRows(x, run[r])
        /\ x.result = run[r].result /\ x.memory = run[r].memory /\ x.skipped = run[r].skipped
        /\ x.accepted = run[r].accepted /\ x.late = run[r].late /\ x.listed = run[r].listed
    BY <1>0 DEF RunsOK, SameCounts, SameRows
  <2> HIDE DEF x
  <2>2. RunOK(x)
    BY <1>0, <1>4, <2>1 DEF RunOK, AttemptsOK, ResultOK, SpendOK, OutcomeOK, SameCounts, SameRows
  <2> QED BY <1>4, <2>2, StepMoves DEF x
<1>5. ASSUME run[r].pc = "running", MayRetry(r), Step(r, Retried(r)) PROVE HandoffInv'
  <2> DEFINE y == At(r, "attempt")
             x == [y EXCEPT !.retries = @ + 1]
  <2>1. /\ y \in RunsOK /\ y.pc = "attempt" /\ Same(y, run[r]) /\ SameCounts(y, run[r])
        /\ SameRows(y, run[r])
    BY AtFacts DEF PCs
  <2>2. Step(r, x)
    BY <1>5 DEF Retried
  <2> HIDE DEF y
  <2>3. /\ x \in RunsOK /\ x.pc = "attempt" /\ Same(x, y) /\ SameRows(x, y)
        /\ x.started = y.started /\ x.retries = y.retries + 1 /\ x.maxRetries = y.maxRetries
    BY <2>1 DEF RunsOK, Same, SameRows
  <2> HIDE DEF x
  <2>4. RunOK(x)
    BY <1>0, <1>5, <2>1, <2>3 DEF MayRetry, RunOK, AttemptsOK, ResultOK, SpendOK, OutcomeOK, Same, SameCounts, SameRows
  <2> QED BY <2>2, <2>4, StepMoves
<1>6. ASSUME NEW t \in {"success", "partial", "blocked", "failed"}, Returns(r, t) PROVE HandoffInv'
  <2> DEFINE y == Left(r)
             x == [y EXCEPT !.pc = "outcome", !.result = t]
  <2>1. /\ y \in RunsOK /\ Zero(y) /\ Same(y, run[r]) /\ SameRows(y, run[r])
    BY LeftFacts
  <2>2. Step(r, x)
    BY <1>6 DEF Returns
  <2> HIDE DEF y
  <2>3. /\ x \in RunsOK /\ x.pc = "outcome" /\ Zero(x) /\ SameRows(x, y)
        /\ x.result = t /\ x.why = y.why /\ x.over = y.over /\ x.memory = y.memory
        /\ x.skipped = y.skipped /\ x.accepted = y.accepted
        /\ x.late = y.late /\ x.listed = y.listed
    BY <2>1 DEF RunsOK, Zero, Same, SameRows
  <2> HIDE DEF x
  <2>4. RunOK(x)
    BY <1>0, <2>1, <2>3 DEF Zero, RunOK, AttemptsOK, ResultOK, SpendOK, OutcomeOK, Same, SameCounts, SameRows
  <2> QED BY <2>2, <2>4, StepMoves
<1>7. CASE BeginAttempt(r)
  BY <1>1, <1>2, <1>7 DEF BeginAttempt
<1>8. CASE Tick(r) \/ Overspend(r)
  BY <1>3, <1>4, <1>8 DEF Tick, Overspend
<1>9. CASE AttemptReturns(r) \/ AttemptTransient(r)
  BY <1>1, <1>5, <1>6, <1>9 DEF AttemptReturns, AttemptTransient
<1>10. CASE AttemptRaises(r) \/ AttemptTimesOut(r)
  BY <1>1, <1>10 DEF AttemptRaises, AttemptTimesOut
<1> QED BY <1>7, <1>8, <1>9, <1>10

\* A run may write its outcome row.
LEMMA RowsType ==
  ASSUME NEW y \in RunsOK, NEW n \in 0..2, NEW b \in BOOLEAN
  PROVE  [y EXCEPT !.written = b, !.rows = n] \in RunsOK
BY DEF RunsOK

\* A run whose outcome row may or may not be stored.
LEMMA FlakyType ==
  ASSUME NEW y \in RunsOK, NEW n \in 0..2, NEW b \in BOOLEAN
  PROVE  [y EXCEPT !.flaky = TRUE, !.skipped = b, !.rows = n] \in RunsOK
BY DEF RunsOK

\* A run that its handler ends.
LEMMA ReportType ==
  ASSUME NEW y \in RunsOK, NEW n \in 0..2, NEW f \in BOOLEAN, NEW a \in BOOLEAN
  PROVE  [y EXCEPT !.rows = n, !.flaky = f, !.accepted = a] \in RunsOK
BY DEF RunsOK

\* The circuit counts failures up to one more than its threshold.
LEMMA AfterRowType ==
  ASSUME NEW c \in [failures : 0..(Threshold + 1), cooled : BOOLEAN], NEW s
  PROVE  AfterRow(c, s) \in [failures : 0..(Threshold + 1), cooled : BOOLEAN]
BY HandoffAssumption DEF AfterRow

\* The outcome row, the budget check and the acceptance.
LEMMA AcceptanceSteps ==
  ASSUME HandoffInv, NEW r \in Runs,
         WriteOutcome(r) \/ Reconcile(r) \/ Persist(r) \/ PersistFails(r)
  PROVE  HandoffInv'
<1>0. run[r] \in RunsOK /\ RunOK(run[r]) /\ circuit \in [failures : 0..(Threshold + 1), cooled : BOOLEAN]
  BY DEF HandoffInv, Shared
<1>1. CASE WriteOutcome(r)
  <2> DEFINE y == At(r, "reconcile")
             x == [y EXCEPT !.written = TRUE, !.rows = @ + 1]
  <2>1. /\ y \in RunsOK /\ Same(y, run[r]) /\ SameCounts(y, run[r]) /\ SameRows(y, run[r])
        /\ y.pc = "reconcile" /\ y.rows = 0
    <3>1. run[r].rows = 0
      BY <1>0, <1>1 DEF WriteOutcome, RunOK, OutcomeOK, RunsOK
    <3> QED BY <3>1, AtFacts DEF PCs, SameRows
  <2>2. run' = [run EXCEPT ![r] = x]
    BY <1>1 DEF WriteOutcome
  <2> HIDE DEF y
  <2>3. /\ x \in RunsOK /\ x.pc = "reconcile" /\ Same(x, y) /\ SameCounts(x, y)
        /\ x.rows = 1 /\ x.written = TRUE /\ x.flaky = y.flaky /\ x.attempted = y.attempted
    <3>1. y.rows + 1 \in 0..2
      BY <2>1
    <3>2. x \in RunsOK
      BY <2>1, <3>1, RowsType
    <3> QED BY <2>1, <3>2 DEF RunsOK, Same, SameCounts
  <2> HIDE DEF x
  <2>4. RunOK(x)
    BY <1>0, <1>1, <2>1, <2>3 DEF WriteOutcome, RunOK, AttemptsOK, ResultOK, SpendOK, OutcomeOK, Same, SameCounts, SameRows, Zero
  <2>5. UNCHANGED <<retrySafe, calm>> /\ circuit' \in [failures : 0..(Threshold + 1), cooled : BOOLEAN]
    BY <1>0, <1>1, AfterRowType DEF WriteOutcome
  <2> QED BY <2>2, <2>4, <2>5, OneRunMoves
<1>2. CASE Reconcile(r)
  <2>1. CASE Step(r, Raised(r, "budget"))
    BY <1>2, <2>1, RaisedOK, StepMoves DEF Reconcile
  <2>2. CASE ~run[r].over /\ ~run[r].late /\ Step(r, At(r, "persist"))
    <3> DEFINE x == At(r, "persist")
    <3>1. /\ x \in RunsOK /\ x.pc = "persist" /\ Same(x, run[r]) /\ SameCounts(x, run[r])
          /\ SameRows(x, run[r])
      BY AtFacts DEF PCs
    <3> HIDE DEF x
    <3>2. RunOK(x)
      BY <1>0, <1>2, <2>2, <3>1 DEF Reconcile, RunOK, AttemptsOK, ResultOK, SpendOK, OutcomeOK, Same, SameCounts, SameRows, Zero
    <3> QED BY <2>2, <3>2, StepMoves DEF x
  <2> QED BY <1>2, <2>1, <2>2 DEF Reconcile
<1>3. CASE Persist(r)
  <2> DEFINE y == Ended(r)
             x == [y EXCEPT !.memory = TRUE, !.accepted = TRUE]
  <2>1. /\ y \in RunsOK /\ y.pc = "done" /\ Zero(y) /\ y.over = run[r].over
        /\ y.late = run[r].late /\ y.listed = FALSE
        /\ y.rows = run[r].rows /\ y.attempted = run[r].attempted
    BY EndedFacts
  <2> HIDE DEF y
  <2>2. /\ x \in RunsOK /\ x.pc = "done" /\ Zero(x) /\ x.over = y.over
        /\ x.late = y.late /\ x.listed = FALSE
        /\ x.rows = y.rows /\ x.attempted = y.attempted
    BY <2>1 DEF RunsOK, Zero
  <2> HIDE DEF x
  <2>3. run[r].pc = "persist" /\ run[r].attempted = TRUE /\ run[r].over = FALSE
        /\ run[r].late = FALSE
    BY <1>0, <1>3 DEF Persist, RunsOK, RunOK, SpendOK, OutcomeOK
  <2>4. run[r].rows = 1
    BY <1>0, <2>3 DEF RunOK, OutcomeOK
  <2>5. RunOK(x)
    BY <2>1, <2>2, <2>3, <2>4 DEF RunOK, AttemptsOK, ResultOK, SpendOK, OutcomeOK, Same, SameCounts, SameRows, Zero
  <2> QED BY <1>3, <2>5, StepMoves DEF x, y, Persist
<1>4. CASE PersistFails(r)
  <2>1. PICK stored \in BOOLEAN, listed \in BOOLEAN :
          Step(r, [Raised(r, "failure") EXCEPT !.memory = stored, !.listed = listed])
    BY <1>4 DEF PersistFails
  <2> DEFINE y == Raised(r, "failure")
             x == [y EXCEPT !.memory = stored, !.listed = listed]
  <2>2. /\ RunOK(y) /\ y \in RunsOK /\ y.pc = "failing" /\ y.over = FALSE /\ y.late = FALSE
        /\ y.written = TRUE
    <3>1. run[r].over = FALSE /\ run[r].late = FALSE /\ run[r].written = TRUE
      BY <1>0, <1>4 DEF PersistFails, RunsOK, RunOK, SpendOK, OutcomeOK
    <3>2. RunOK(y)
      BY <1>4, <3>1, RaisedOK DEF PersistFails, Exceeded
    <3> QED BY <3>1, <3>2, RaisedFacts DEF SameRows
  <2> HIDE DEF y
  <2>3. /\ x \in RunsOK /\ x.pc = y.pc /\ SameCounts(x, y) /\ SameRows(x, y)
        /\ x.result = y.result /\ x.why = y.why /\ x.over = y.over /\ x.late = y.late
        /\ x.skipped = y.skipped /\ x.accepted = y.accepted
    BY <2>2 DEF RunsOK, SameCounts, SameRows
  <2> HIDE DEF x
  <2>4. RunOK(x)
    BY <2>2, <2>3 DEF RunOK, AttemptsOK, ResultOK, SpendOK, OutcomeOK, SameCounts, SameRows
  <2> QED BY <2>1, <2>4, StepMoves DEF x, y
<1> QED BY <1>1, <1>2, <1>3, <1>4

\* Writes that fail between the stages and the death of the process.
LEMMA FailureSteps ==
  ASSUME HandoffInv, NEW r \in Runs,
         WriteFails(r) \/ OutcomeFails(r) \/ Crash(r) \/ Overrun(r)
  PROVE  HandoffInv'
<1>0. run[r] \in RunsOK /\ RunOK(run[r]) /\ circuit \in [failures : 0..(Threshold + 1), cooled : BOOLEAN]
  BY DEF HandoffInv, Shared
<1> DEFINE y == Raised(r, "failure")
<1>1. /\ y \in RunsOK /\ y.pc = "failing" /\ Zero(y) /\ SameRows(y, run[r])
      /\ y.result = run[r].result /\ y.why = "failure" /\ y.over = run[r].over
      /\ y.memory = run[r].memory /\ y.skipped = run[r].skipped /\ y.accepted = run[r].accepted
      /\ y.late = run[r].late /\ y.listed = run[r].listed
  BY RaisedFacts
<1>2. CASE WriteFails(r)
  <2> DEFINE b == Exceeded(r) /\ run[r].pc = "reconcile"
             x == [y EXCEPT !.skipped = b]
  <2>1. Step(r, x)
    BY <1>2 DEF WriteFails
  <2>2. /\ b \in BOOLEAN /\ (run[r].result # "none" /\ (run[r].over \/ run[r].late) => b)
        /\ run[r].memory = FALSE /\ run[r].accepted = FALSE /\ run[r].listed = FALSE
    BY <1>0, <1>2 DEF WriteFails, RunsOK, RunOK, ResultOK, SpendOK, Exceeded
  <2> HIDE DEF y, b
  <2>3. /\ x \in RunsOK /\ x.pc = "failing" /\ Zero(x) /\ SameRows(x, y)
        /\ x.result = y.result /\ x.why = y.why /\ x.over = y.over
        /\ x.memory = y.memory /\ x.skipped = b /\ x.accepted = y.accepted
        /\ x.late = y.late /\ x.listed = y.listed
    BY <1>1, <2>2 DEF RunsOK, Zero, SameRows
  <2> HIDE DEF x
  <2>4. OutcomeOK(x)
    BY <1>0, <1>1, <1>2, <2>3 DEF WriteFails, RunOK, ResultOK, OutcomeOK, SameRows
  <2>5. RunOK(x)
    BY <1>1, <2>2, <2>3, <2>4 DEF RunOK, AttemptsOK, ResultOK, SpendOK, Zero
  <2> QED BY <2>1, <2>5, StepMoves
<1>3. CASE OutcomeFails(r)
  <2> DEFINE b == Exceeded(r)
             x == [y EXCEPT !.flaky = TRUE, !.skipped = b]
             z == [y EXCEPT !.flaky = TRUE, !.skipped = b, !.rows = @ + 1]
  <2>1. \/ Step(r, x)
        \/ /\ circuit' = AfterRow(circuit, run[r].result) /\ run' = [run EXCEPT ![r] = z]
           /\ UNCHANGED <<retrySafe, calm>>
    BY <1>3 DEF OutcomeFails
  <2>2. /\ b \in BOOLEAN /\ (y.over \/ y.late <=> b) /\ run[r].listed = FALSE
        /\ run[r].memory = FALSE /\ run[r].accepted = FALSE /\ run[r].rows = 0
        /\ run[r].written = FALSE /\ run[r].attempted = TRUE
    BY <1>0, <1>1, <1>3 DEF OutcomeFails, RunsOK, RunOK, SpendOK, OutcomeOK, Exceeded
  <2> HIDE DEF y, b
  <2>3. /\ x \in RunsOK /\ x.pc = "failing" /\ Zero(x) /\ x.flaky = TRUE
        /\ x.rows = y.rows /\ x.written = y.written /\ x.attempted = y.attempted
        /\ x.result = y.result /\ x.why = y.why /\ x.over = y.over
        /\ x.memory = y.memory /\ x.skipped = b /\ x.accepted = y.accepted
        /\ x.late = y.late /\ x.listed = y.listed
    BY <1>1, <2>2 DEF RunsOK, Zero
  <2>4. /\ z \in RunsOK /\ z.pc = "failing" /\ Zero(z) /\ z.flaky = TRUE
        /\ z.rows = 1 /\ z.written = y.written /\ z.attempted = y.attempted
        /\ z.result = y.result /\ z.why = y.why /\ z.over = y.over
        /\ z.memory = y.memory /\ z.skipped = b /\ z.accepted = y.accepted
        /\ z.late = y.late /\ z.listed = y.listed
    <3>1. y.rows + 1 \in 0..2 /\ y.rows + 1 = 1
      BY <1>1, <2>2 DEF SameRows
    <3>2. z \in RunsOK
      BY <1>1, <2>2, <3>1, FlakyType
    <3> QED BY <1>1, <2>2, <3>1, <3>2 DEF RunsOK, Zero
  <2> HIDE DEF x, z
  <2>5. RunOK(x)
    BY <1>1, <2>2, <2>3 DEF RunOK, AttemptsOK, ResultOK, SpendOK, OutcomeOK, Same, SameCounts, SameRows, Zero
  <2>6. RunOK(z)
    BY <1>1, <2>2, <2>4 DEF RunOK, AttemptsOK, ResultOK, SpendOK, OutcomeOK, Same, SameCounts, SameRows, Zero
  <2> QED BY <1>0, <2>1, <2>5, <2>6, AfterRowType, StepMoves, OneRunMoves
<1>4. CASE Crash(r)
  <2>1. 0 \in 0..MaxRetries
    BY HandoffAssumption
  <2> QED BY <1>4, <2>1, NewRunOK, StepMoves DEF Crash
<1>5. CASE Overrun(r)
  <2> DEFINE x == [run[r] EXCEPT !.late = TRUE]
  <2>1. /\ x \in RunsOK /\ x.pc = run[r].pc /\ SameCounts(x, run[r]) /\ SameRows(x, run[r])
        /\ x.result = run[r].result /\ x.memory = run[r].memory /\ x.skipped = run[r].skipped
        /\ x.accepted = run[r].accepted /\ x.over = run[r].over /\ x.listed = run[r].listed
    BY <1>0 DEF RunsOK, SameCounts, SameRows
  <2>2. Step(r, x) /\ run[r].pc \in {"outcome", "reconcile"}
    BY <1>5 DEF Overrun
  <2> HIDE DEF x
  <2>3. RunOK(x)
    BY <1>0, <2>1, <2>2 DEF RunOK, AttemptsOK, ResultOK, SpendOK, OutcomeOK, SameCounts, SameRows
  <2> QED BY <2>2, <2>3, StepMoves
<1> QED BY <1>2, <1>3, <1>4, <1>5

\* The failure handler.
LEMMA HandlerSteps ==
  ASSUME HandoffInv, NEW r \in Runs, Contain(r) \/ Report(r)
  PROVE  HandoffInv'
<1>0. run[r] \in RunsOK /\ RunOK(run[r]) /\ circuit \in [failures : 0..(Threshold + 1), cooled : BOOLEAN]
  BY DEF HandoffInv, Shared
<1>1. CASE Contain(r)
  <2> DEFINE Invalid(stored) == Kept(r) /\ (run[r].over \/ (run[r].listed /\ stored))
             Rest == [At(r, "report") EXCEPT !.listed = FALSE]
  <2>1. PICK stored \in BOOLEAN :
          Step(r, [(IF Invalid(stored) THEN Ended(r) ELSE Rest)
                     EXCEPT !.memory = @ \/ (Kept(r) /\ stored)])
    BY <1>1, Zenon DEF Contain
  <2> DEFINE k == Kept(r) /\ stored
  <2>2. /\ run[r].pc = "failing" /\ k \in BOOLEAN /\ Kept(r) \in BOOLEAN
        /\ Kept(r) <=> run[r].result # "none" /\ run[r].why # "budget"
        /\ k => Kept(r)
    BY <1>1 DEF Contain, Kept
  <2>3. CASE Invalid(stored)
    <3> DEFINE y == Ended(r)
               x == [y EXCEPT !.memory = @ \/ k]
    <3>1. /\ y \in RunsOK /\ y.pc = "done" /\ Zero(y)
          /\ y.result = "none" /\ y.over = run[r].over /\ y.memory = run[r].memory
          /\ y.skipped = run[r].skipped /\ y.accepted = run[r].accepted
          /\ y.rows = run[r].rows /\ y.flaky = run[r].flaky /\ y.attempted = run[r].attempted
          /\ y.late = run[r].late /\ y.listed = FALSE
      BY EndedFacts
    <3>2. Step(r, x)
      BY <2>1, <2>3
    <3>3. /\ run[r].accepted = FALSE /\ (run[r].over \/ run[r].late => run[r].skipped = TRUE)
          /\ run[r].result # "none"
      BY <1>0, <2>2, <2>3 DEF RunOK, SpendOK, RunsOK
    <3> HIDE DEF y, k, Invalid, Rest
    <3>4. /\ x \in RunsOK /\ x.pc = "done" /\ Zero(x) /\ x.over = y.over /\ x.skipped = y.skipped
          /\ x.accepted = y.accepted /\ x.late = y.late /\ x.listed = FALSE
          /\ x.rows = y.rows /\ x.flaky = y.flaky /\ x.attempted = y.attempted
      BY <2>2, <3>1 DEF RunsOK, Zero
    <3> HIDE DEF x
    <3>5. run[r].flaky \/ (run[r].rows = IF run[r].attempted THEN 1 ELSE 0)
      BY <1>0, <2>2, <3>3 DEF RunOK, OutcomeOK, SpendOK, RunsOK
    <3>6. SpendOK(x) /\ AttemptsOK(x) /\ ResultOK(x)
      BY <3>1, <3>3, <3>4 DEF SpendOK, AttemptsOK, ResultOK, Zero
    <3>7. OutcomeOK(x)
      BY <3>1, <3>4, <3>5 DEF OutcomeOK
    <3> QED BY <3>2, <3>4, <3>6, <3>7, StepMoves DEF RunOK
  <2>4. CASE ~Invalid(stored)
    <3> DEFINE y == Rest
               x == [y EXCEPT !.memory = @ \/ k]
    <3>1. /\ y \in RunsOK /\ y.pc = "report" /\ SameCounts(y, run[r]) /\ SameRows(y, run[r])
          /\ y.result = run[r].result /\ y.why = run[r].why /\ y.over = run[r].over
          /\ y.late = run[r].late /\ y.skipped = run[r].skipped /\ y.memory = run[r].memory
          /\ y.accepted = run[r].accepted /\ y.listed = FALSE
      <4> DEFINE z == At(r, "report")
      <4>1. /\ z \in RunsOK /\ z.pc = "report" /\ Same(z, run[r]) /\ SameCounts(z, run[r])
            /\ SameRows(z, run[r]) /\ y = [z EXCEPT !.listed = FALSE]
        BY AtFacts DEF PCs
      <4> HIDE DEF z, Rest
      <4>2. y \in RunsOK /\ y.pc = "report" /\ y.listed = FALSE
        BY <4>1 DEF RunsOK
      <4>3. SameCounts(y, run[r]) /\ SameRows(y, run[r])
        BY <4>1 DEF RunsOK, SameCounts, SameRows
      <4>4. /\ y.result = z.result /\ y.why = z.why /\ y.over = z.over /\ y.late = z.late
            /\ y.skipped = z.skipped /\ y.memory = z.memory /\ y.accepted = z.accepted
        BY <4>1 DEF RunsOK
      <4> QED BY <4>1, <4>2, <4>3, <4>4 DEF Same
    <3>2. Step(r, x)
      BY <2>1, <2>4
    <3>3. Kept(r) => ~run[r].over
      BY <2>4
    <3> HIDE DEF y, k, Invalid, Rest
    <3>4. /\ x \in RunsOK /\ x.pc = "report" /\ SameCounts(x, y) /\ SameRows(x, y)
          /\ x.result = y.result /\ x.why = y.why /\ x.over = y.over /\ x.skipped = y.skipped
          /\ x.accepted = y.accepted /\ (x.memory => y.memory \/ k)
          /\ x.late = y.late /\ x.listed = FALSE
      BY <2>2, <3>1 DEF RunsOK, SameCounts, SameRows
    <3> HIDE DEF x
    <3>5. AttemptsOK(x) /\ ResultOK(x) /\ OutcomeOK(x)
      BY <1>0, <2>2, <3>1, <3>4 DEF RunOK, AttemptsOK, ResultOK, OutcomeOK, SameCounts, SameRows
    <3>6. SpendOK(x)
      BY <1>0, <2>2, <3>1, <3>3, <3>4 DEF RunOK, SpendOK
    <3> QED BY <3>2, <3>4, <3>5, <3>6, StepMoves DEF RunOK
  <2> QED BY <2>3, <2>4
<1>2. CASE Report(r)
  <2>1. PICK stored \in BOOLEAN, raises \in BOOLEAN :
          LET row == OwesOutcome(r) /\ stored IN
          /\ circuit' = IF row THEN AfterRow(circuit, "failed") ELSE circuit
          /\ run' = [run EXCEPT ![r] =
               [Ended(r) EXCEPT !.rows = IF row THEN @ + 1 ELSE @,
                                !.flaky = @ \/ ~stored, !.accepted = Kept(r) /\ ~raises]]
    BY <1>2 DEF Report
  <2> DEFINE row == OwesOutcome(r) /\ stored
             acc == Kept(r) /\ ~raises
             y == Ended(r)
             x == [y EXCEPT !.rows = IF row THEN @ + 1 ELSE @,
                            !.flaky = @ \/ ~stored, !.accepted = acc]
  <2>2. run' = [run EXCEPT ![r] = x] /\ circuit' = IF row THEN AfterRow(circuit, "failed") ELSE circuit
    BY <2>1
  <2>3. /\ y \in RunsOK /\ y.pc = "done" /\ Zero(y)
        /\ y.result = "none" /\ y.over = run[r].over /\ y.memory = run[r].memory
        /\ y.skipped = run[r].skipped /\ y.accepted = run[r].accepted
        /\ y.rows = run[r].rows /\ y.flaky = run[r].flaky /\ y.attempted = run[r].attempted
        /\ y.late = run[r].late /\ y.listed = FALSE
    BY EndedFacts
  <2>4. /\ run[r].pc = "report" /\ run[r].rows \in 0..1 /\ acc \in BOOLEAN /\ row \in BOOLEAN
        /\ acc => ~run[r].over /\ (run[r].late => run[r].skipped)
        /\ run[r].memory /\ (run[r].over \/ run[r].late) => run[r].skipped
    <3>1. run[r].pc = "report" /\ (Kept(r) => ~run[r].over /\ (run[r].late => run[r].skipped))
          /\ (run[r].memory /\ (run[r].over \/ run[r].late) => run[r].skipped)
      BY <1>0, <1>2 DEF Report, Kept, RunOK, SpendOK
    <3>2. run[r].rows \in 0..1
      BY <1>0, <3>1 DEF RunsOK, RunOK, OutcomeOK
    <3>3. acc \in BOOLEAN /\ row \in BOOLEAN /\ (acc => Kept(r))
      BY DEF OwesOutcome, Kept
    <3> QED BY <3>1, <3>2, <3>3
  <2>5. /\ row <=> run[r].attempted /\ ~run[r].written /\ stored
        /\ run[r].flaky \/ (run[r].rows = IF run[r].written THEN 1 ELSE 0)
        /\ run[r].written => run[r].attempted
    BY <1>0, <2>4 DEF OwesOutcome, RunsOK, RunOK, OutcomeOK
  <2> HIDE DEF y, row, acc
  <2> DEFINE n == IF row THEN y.rows + 1 ELSE y.rows
             f == y.flaky \/ ~stored
  <2>6. n \in 0..2 /\ f \in BOOLEAN
    BY <2>3, <2>4 DEF RunsOK
  <2>7. x = [y EXCEPT !.rows = n, !.flaky = f, !.accepted = acc]
    BY <2>3 DEF RunsOK
  <2> HIDE DEF n, f, x
  <2>8. /\ x \in RunsOK /\ x.pc = "done" /\ Zero(x) /\ x.over = y.over /\ x.memory = y.memory
        /\ x.skipped = y.skipped /\ x.attempted = y.attempted /\ x.rows = n /\ x.flaky = f
        /\ x.accepted = acc /\ x.late = y.late /\ x.listed = FALSE
    <3>1. x \in RunsOK
      BY <2>3, <2>4, <2>6, <2>7, ReportType
    <3> QED BY <2>3, <2>7, <3>1 DEF RunsOK, Zero
  <2>9. OutcomeOK(x)
    <3>1. ~f => n = IF run[r].attempted THEN 1 ELSE 0
      BY <2>3, <2>4, <2>5 DEF f, n
    <3> QED BY <2>3, <2>8, <3>1 DEF OutcomeOK
  <2>10. SpendOK(x) /\ AttemptsOK(x) /\ ResultOK(x)
    BY <2>3, <2>4, <2>8 DEF SpendOK, AttemptsOK, ResultOK, Zero
  <2>11. /\ UNCHANGED <<retrySafe, calm>>
         /\ circuit' \in [failures : 0..(Threshold + 1), cooled : BOOLEAN]
    BY <1>0, <1>2, <2>2, AfterRowType DEF Report
  <2> QED BY <2>2, <2>8, <2>9, <2>10, <2>11, OneRunMoves DEF RunOK
<1> QED BY <1>1, <1>2

----------------------------------------------------------------------------
(* The theorems.                                                           *)

\* Before the first request every run is over.
LEMMA HandoffInit == Init => HandoffInv
<1> SUFFICES ASSUME Init PROVE HandoffInv OBVIOUS
<1> DEFINE x == [NewRun(0) EXCEPT !.pc = "done"]
<1>1. RunOK(x)
  BY HandoffAssumption, NewRunOK
<1>2. run = [r \in Runs |-> x]
  BY DEF Init
<1> HIDE DEF x
<1>3. x \in RunsOK
  BY <1>1 DEF RunOK
<1>4. Shared
  <2>1. 0 \in 0..(Threshold + 1)
    BY HandoffAssumption
  <2> QED BY <1>2, <1>3, <2>1 DEF Init, Shared
<1> QED BY <1>1, <1>2, <1>4 DEF HandoffInv

\* Every step keeps the invariant.
LEMMA HandoffNext == HandoffInv /\ [Next]_vars => HandoffInv'
<1> SUFFICES ASSUME HandoffInv, [Next]_vars PROVE HandoffInv' OBVIOUS
<1>1. CASE UNCHANGED <<run, retrySafe>> /\ circuit' \in [failures : 0..(Threshold + 1), cooled : BOOLEAN]
           /\ calm' \in BOOLEAN
  BY <1>1 DEF HandoffInv, Shared, RunOK, AttemptsOK, ResultOK, SpendOK, OutcomeOK
<1>2. CASE UNCHANGED vars \/ CoolDown \/ Forget \/ Settle
  <2>1. UNCHANGED <<run, retrySafe>> /\ calm' \in BOOLEAN
    BY <1>2 DEF vars, CoolDown, Forget, Settle, HandoffInv, Shared
  <2>2. circuit' \in [failures : 0..(Threshold + 1), cooled : BOOLEAN]
    <3>1. circuit \in [failures : 0..(Threshold + 1), cooled : BOOLEAN]
      BY DEF HandoffInv, Shared
    <3>2. CASE Forget
      <4> DEFINE n == circuit.failures - 1
                 c == circuit.cooled \/ circuit.failures = Threshold
      <4>1. n \in 0..(Threshold + 1) /\ c \in BOOLEAN
        BY <3>1, <3>2, HandoffAssumption DEF Forget
      <4>2. circuit' = [failures |-> n, cooled |-> c]
        BY <3>2 DEF Forget
      <4> HIDE DEF n, c
      <4> QED BY <4>1, <4>2
    <3>3. CASE UNCHANGED circuit \/ circuit' = [circuit EXCEPT !.cooled = TRUE]
      BY <3>1, <3>3
    <3> QED BY <1>2, <3>2, <3>3 DEF vars, CoolDown, Settle
  <2> QED BY <1>1, <2>1, <2>2
<1>3. ASSUME NEW r \in Runs,
             \/ Start(r) \/ Own(r) \/ Tick(r) \/ Overspend(r) \/ Overrun(r)
             \/ AttemptReturns(r) \/ AttemptTransient(r) \/ AttemptRaises(r)
             \/ WriteFails(r) \/ OutcomeFails(r) \/ PersistFails(r) \/ Crash(r)
      PROVE  HandoffInv'
  BY <1>3, RoutingSteps, AttemptSteps, AcceptanceSteps, FailureSteps, HandlerSteps DEF Own
<1> QED BY <1>2, <1>3 DEF Next

\* The invariant holds throughout.
LEMMA HandoffAlways == Spec => []HandoffInv
BY HandoffInit, HandoffNext, PTL DEF Spec

\* A specialist is invoked at most max_retries + 1 times for a request, and once if it is
\* not retry-safe; a result whose usage is over budget is never accepted, one that came too
\* late is accepted, and either reaches incident memory, only past a write that failed
\* before the budget check
\* (agent/supervisor/runtime.py, resilience.py).
THEOREM BudgetHolds == Spec => []BudgetInv
BY HandoffAlways, InvParts, PTL

\* A handoff that ended without a failed outcome write has told the circuit exactly once,
\* and a request that was rejected before its handoff not at all
\* (run_control_plane_supervisor).
THEOREM CircuitToldOnce == Spec => []OutcomeOnce
BY HandoffAlways, InvParts, PTL

\* After the deadline that all attempts share none starts, none is scheduled and none
\* delivers a result (enforce_hard_deadline).
THEOREM NothingAfterDeadline == Spec => DeadlineIsHard
<1> DEFINE Late(r) ==
      run[r].expired => /\ run'[r].started <= run[r].started /\ run'[r].retries <= run[r].retries
                        /\ run'[r].result = run[r].result
<1>1. HandoffInv /\ [Next]_vars => [\A r \in Runs : Late(r)]_vars
  <2> SUFFICES ASSUME HandoffInv, Next, NEW r \in Runs, run[r].expired PROVE Late(r)
    BY DEF vars
  <2>1. /\ run[r] \in RunsOK /\ run[r].pc \in {"attempt", "running"} /\ run[r].result = "none"
        /\ run[r].started \in Nat /\ run[r].retries \in Nat
    BY DEF HandoffInv, Shared, RunsOK, RunOK, AttemptsOK, ResultOK
  <2>2. CASE run'[r] = run[r]
    BY <2>1, <2>2
  <2>3. ASSUME NEW x, run' = [run EXCEPT ![r] = x],
               x.started = 0 /\ x.retries = 0 /\ x.result = "none"
        PROVE  Late(r)
    <3>1. run'[r] = x
      BY <2>3 DEF HandoffInv, Shared
    <3> QED BY <2>1, <2>3, <3>1
  <2>4. /\ Raised(r, "failure") \in RunsOK
        /\ Raised(r, "failure").started = 0 /\ Raised(r, "failure").retries = 0
        /\ Raised(r, "failure").result = "none"
    <3>1. /\ Raised(r, "failure") \in RunsOK /\ Zero(Raised(r, "failure"))
          /\ Raised(r, "failure").result = run[r].result
      BY RaisedFacts
    <3> QED BY <2>1, <3>1 DEF Zero
  <2>5. CASE CoolDown \/ Forget \/ Settle
    BY <2>2, <2>5 DEF CoolDown, Forget, Settle
  <2>6. ASSUME NEW u \in Runs \ {r}, NEW x, run' = [run EXCEPT ![u] = x] PROVE Late(r)
    BY <2>2, <2>6 DEF HandoffInv, Shared
  <2>7. ASSUME NEW u \in Runs,
               \/ Start(u) \/ Own(u) \/ Tick(u) \/ Overspend(u) \/ Overrun(u)
               \/ AttemptReturns(u) \/ AttemptTransient(u) \/ AttemptRaises(u)
               \/ WriteFails(u) \/ OutcomeFails(u) \/ PersistFails(u) \/ Crash(u)
        PROVE  \E x : run' = [run EXCEPT ![u] = x]
    <3>1. ASSUME NEW x, Step(u, x) PROVE \E z : run' = [run EXCEPT ![u] = z]
      BY <3>1 DEF Step
    <3>2. CASE Start(u) \/ Admit(u) \/ CheckCircuit(u) \/ Handoff(u)
      BY <3>1, <3>2, Zenon DEF Start, Admit, CheckCircuit, Handoff
    <3>3. CASE BeginAttempt(u) \/ AttemptTimesOut(u) \/ Tick(u) \/ Overspend(u) \/ Overrun(u) \/ AttemptRaises(u)
      BY <3>1, <3>3, Zenon DEF BeginAttempt, AttemptTimesOut, Tick, Overspend, Overrun, AttemptRaises
    <3>4. CASE AttemptReturns(u) \/ AttemptTransient(u)
      BY <3>1, <3>4 DEF AttemptReturns, AttemptTransient, Returns
    <3>5. CASE WriteOutcome(u)
      BY <3>5, Zenon DEF WriteOutcome
    <3>6. CASE Reconcile(u) \/ Persist(u) \/ PersistFails(u) \/ WriteFails(u) \/ Crash(u)
      BY <3>1, <3>6, Zenon DEF Reconcile, Persist, PersistFails, WriteFails, Crash
    <3>7. CASE OutcomeFails(u)
      BY <3>1, <3>7, Zenon DEF OutcomeFails
    <3>8. CASE Contain(u)
      BY <3>1, <3>8, Zenon DEF Contain
    <3>9. CASE Report(u)
      BY <3>9, Zenon DEF Report
    <3> QED BY <2>7, <3>2, <3>3, <3>4, <3>5, <3>6, <3>7, <3>8, <3>9 DEF Own
  <2>8. ASSUME \/ Start(r) \/ Own(r) \/ Tick(r) \/ Overspend(r) \/ Overrun(r)
               \/ AttemptReturns(r) \/ AttemptTransient(r) \/ AttemptRaises(r)
               \/ WriteFails(r) \/ OutcomeFails(r) \/ PersistFails(r) \/ Crash(r)
        PROVE  BeginAttempt(r) \/ AttemptTimesOut(r) \/ WriteFails(r) \/ Crash(r)
    BY <2>1, <2>8 DEF Start, Own, Admit, CheckCircuit, Handoff, WriteOutcome, Reconcile, Persist,
         Contain, Report, Tick, Overspend, Overrun, AttemptReturns, AttemptTransient, AttemptRaises,
         OutcomeFails, PersistFails
  <2>9. CASE BeginAttempt(r) \/ AttemptTimesOut(r)
    BY <2>3, <2>4, <2>9 DEF BeginAttempt, AttemptTimesOut, Step
  <2>10. CASE WriteFails(r)
    <3> DEFINE b == Exceeded(r) /\ run[r].pc = "reconcile"
               y == Raised(r, "failure")
               x == [y EXCEPT !.skipped = b]
    <3>1. run' = [run EXCEPT ![r] = x]
      BY <2>10 DEF WriteFails, Step
    <3>2. y \in RunsOK /\ y.started = 0 /\ y.retries = 0 /\ y.result = "none"
      BY <2>4
    <3> HIDE DEF y, b
    <3>3. x.started = 0 /\ x.retries = 0 /\ x.result = "none"
      BY <3>2 DEF RunsOK
    <3> QED BY <2>3, <3>1, <3>3
  <2>11. CASE Crash(r)
    <3> DEFINE x == [NewRun(0) EXCEPT !.pc = "done"]
    <3>1. run' = [run EXCEPT ![r] = x]
      BY <2>11 DEF Crash, Step
    <3>2. x.started = 0 /\ x.retries = 0 /\ x.result = "none"
      BY DEF NewRun
    <3> QED BY <2>3, <3>1, <3>2
  <2> QED BY <2>5, <2>6, <2>7, <2>8, <2>9, <2>10, <2>11 DEF Next
<1>2. HandoffInv /\ [Next]_vars =>
        [\A r \in Runs : run[r].expired =>
           run'[r].started <= run[r].started /\ run'[r].retries <= run[r].retries
           /\ run'[r].result = run[r].result]_vars
  BY <1>1
<1> QED BY <1>2, HandoffAlways, PTL DEF Spec, DeadlineIsHard

=============================================================================
