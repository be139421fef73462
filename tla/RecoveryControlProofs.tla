------------------------ MODULE RecoveryControlProofs ------------------------
(***************************************************************************)
(* Theorems about RecoveryControl, for every number of plans, processes,   *)
(* contents and other writers.                                             *)
(***************************************************************************)
EXTENDS RecoveryControl, TLAPS

Drafts == [state : {"none", "collected", "previewed", "pinned", "stored"},
           incident : Nat, facts : Contents, revision : Nat]
Approvals == [status : {"none", "pending", "approved", "rejected", "cancelled"}, exec : ExecStates]
Executions == [status : {"none", "queued", "running", "unknown"} \cup Terminal,
               trigger : {"pending", "claimed", "accepted", "unknown"},
               error : {"", "PublicationUnknown", "AirflowExecutionFailed",
                        "TerminalRunMissingVerification", "other"},
               validated : BOOLEAN, finished : BOOLEAN]
ApiStates == {"idle", "claim", "trigger", "accepted", "unknown", "done"}
RunStates == {"absent", "posted", "queued", "running", "success", "failed"}
Processes == [plan : Plans \cup {Nobody}, pc : JobPCs, outcome : {"none", "unknown"} \cup Terminal]
PubStates == {"none", "prepared", "uncertain", "unacknowledged", "published", "restored",
              "partial", "aborted"}
Readings == [plan : Plans \cup {Nobody}, state : {"none", "queued", "running", "success", "failed"}]
Exits == {"exit_ok", "exit_failed"}

----------------------------------------------------------------------------
(* The inductive invariant, by the records it is about: the draft d, the     *)
(* approval a and the execution e of a plan, its dispatch i, run r,          *)
(* publication u and mutations m; a process x; whether the incident is       *)
(* resolved, the live revision and the live contents; and the plans out      *)
(* whose run and process came apart, of which much less is known.            *)

\* The approval still allows the work that is going on, or was reported over the head of it.
Allows(p, a, out) == a.exec \in InFlight \/ (p \in out /\ a.exec = "failed")

PlanGood(p, d, a, e, i, r, u, m, resolved, out) ==
  /\ a.status # "none" => d.state = "stored"
  /\ e.status = "none" <=> a.exec = "not_started"
  /\ e.status # "none" => a.status = "approved"
  /\ i # "idle" \/ r # "absent" \/ u # "none" => e.status # "none"
  /\ u = "none" => m = 0
  /\ m <= 1
  /\ a.exec \in InFlight => ~resolved
  /\ e.status = "succeeded" => e.validated = TRUE /\ u = "published"
  /\ a.exec = "succeeded" => u = "published"
  /\ u = "uncertain" => Allows(p, a, out)
  /\ p \notin out =>
       /\ i \in {"idle", "claim", "trigger"} => r = "absent"
       /\ r \in {"absent", "posted", "queued"} => u = "none"
       /\ a.exec \in Terminal => e.status = a.exec

JobGood(x, d, e, r, u, m, live, contents, out) ==
  /\ e.status # "none"
  /\ x.pc \in LockScope => live = d.revision
  /\ x.pc = "built" => u = "prepared" /\ m = 0
  /\ x.pc = "begun" => m = 0 /\ contents = d.facts
  /\ x.pc \in {"begun", "mutated"} => u = "uncertain"
  /\ x.pc = "finish" => x.outcome # "none"
  /\ x.pc = "verify" \/ x.outcome = "succeeded" => u = "published"
  /\ x.plan \notin out =>
       /\ r \in {"running", "success", "failed"}
       /\ x.pc \notin Exits => r = "running"
       /\ x.pc \notin {"start"} \cup Exits => e.status \notin Terminal
       /\ x.pc \in {"start", "pipeline", "locked"} => u = "none"
       /\ x.pc = "finish" /\ u = "uncertain" => x.outcome = "unknown"

PlansGood == \A p \in Plans :
  PlanGood(p, draft[p], approval[p], exe[p], api[p], run[p], pub[p], mutations[p], incident.resolved, apart)
JobsGood == \A j \in Jobs :
  /\ job[j].pc = "idle" => job[j].plan = Nobody
  /\ job[j].pc # "idle" =>
       /\ job[j].plan \in Plans
       /\ LET p == job[j].plan IN
          JobGood(job[j], draft[p], exe[p], run[p], pub[p], mutations[p], revision, warehouse, apart)
OneLocked == \A i, j \in Jobs : job[i].pc \in LockScope /\ job[j].pc \in LockScope => i = j
OneEach ==
  \A i, j \in Jobs : job[i].plan = job[j].plan /\ job[i].plan \in Plans \ apart => i = j
HeldGood ==
  /\ rec.plan = Nobody => rec.state = "none"
  /\ rec.plan # Nobody =>
       /\ exe[rec.plan].status # "none"
       /\ rec.plan \notin apart /\ rec.state \in {"success", "failed"} =>
            run[rec.plan] \in {"success", "failed"}

Inv == TypeOK /\ PlansGood /\ JobsGood /\ OneLocked /\ OneEach /\ HeldGood

\* The types of the records.
LEMMA Types ==
  ASSUME TypeOK
  PROVE  /\ draft \in [Plans -> Drafts] /\ approval \in [Plans -> Approvals]
         /\ exe \in [Plans -> Executions] /\ api \in [Plans -> ApiStates]
         /\ run \in [Plans -> RunStates] /\ job \in [Jobs -> Processes]
         /\ pub \in [Plans -> PubStates] /\ rec \in Readings /\ mutations \in [Plans -> Nat]
         /\ warehouse \in Contents /\ revision \in Nat
BY DEF TypeOK, Drafts, Approvals, Executions, ApiStates, RunStates, Processes, PubStates, Readings

\* The records satisfy what the module's invariants say.
LEMMA InvImplies ==
  ASSUME Inv
  PROVE  RecoveryInv
<1>1. TypeOK /\ Nobody \notin Plans
  BY ConstantAssumption DEF Inv
<1>2. SingleUse
  BY DEF Inv, PlansGood, PlanGood, SingleUse
<1>3. RefusedNeverRuns
  BY DEF Inv, PlansGood, PlanGood, RefusedNeverRuns
<1>4. SuccessIsProven
  BY DEF Inv, PlansGood, PlanGood, SuccessIsProven
<1>5. PlansAreSound
  BY DEF Inv, PlansGood, PlanGood, HeldGood, PlansAreSound
<1>6. JobsAreSound
  BY DEF Inv, JobsGood, JobGood, OneLocked, JobsAreSound
<1>7. OutcomesAgree /\ UncertainBlocksClosure
  BY DEF Inv, PlansGood, PlanGood, Allows, OutcomesAgree, UncertainBlocksClosure
<1>8. OneProcess
  <2>1. ASSUME NEW p \in Plans \ apart
        PROVE  /\ api[p] \in {"idle", "claim", "trigger"} => run[p] = "absent"
               /\ run[p] \in {"absent", "posted", "queued"} => pub[p] = "none"
    BY DEF Inv, PlansGood, PlanGood
  <2>2. ASSUME NEW j \in Jobs, job[j].plan \in Plans \ apart
        PROVE  LET p == job[j].plan IN
               /\ run[p] \in {"running", "success", "failed"}
               /\ job[j].pc \notin {"exit_ok", "exit_failed"} => run[p] = "running"
               /\ job[j].pc \notin {"start", "exit_ok", "exit_failed"} => exe[p].status \notin Terminal
               /\ job[j].pc \in {"start", "pipeline", "locked"} => pub[p] = "none"
               /\ job[j].pc = "finish" /\ pub[p] = "uncertain" => job[j].outcome = "unknown"
    <3>1. job[j].pc # "idle"
      BY <1>1, <2>2 DEF Inv, JobsGood
    <3> QED BY <2>2, <3>1 DEF Inv, JobsGood, JobGood, Exits
  <2>3. rec.plan \in Plans \ apart /\ rec.state \in {"success", "failed"} =>
          run[rec.plan] \in {"success", "failed"}
    BY <1>1 DEF Inv, HeldGood
  <2> QED BY <2>1, <2>2, <2>3 DEF OneProcess, Inv, OneEach
<1> QED BY <1>1, <1>2, <1>3, <1>4, <1>5, <1>6, <1>7, <1>8 DEF RecoveryInv

----------------------------------------------------------------------------
(* Steps that change one plan, or one process and its plan.                  *)

\* Nothing of a plan changes.
LEMMA NoChange ==
  ASSUME TypeOK, NEW p \in Plans
  PROVE  /\ draft = [draft EXCEPT ![p] = draft[p]] /\ approval = [approval EXCEPT ![p] = approval[p]]
         /\ exe = [exe EXCEPT ![p] = exe[p]] /\ api = [api EXCEPT ![p] = api[p]]
         /\ run = [run EXCEPT ![p] = run[p]] /\ pub = [pub EXCEPT ![p] = pub[p]]
         /\ mutations = [mutations EXCEPT ![p] = mutations[p]]
         /\ draft[p] \in Drafts /\ approval[p] \in Approvals /\ exe[p] \in Executions
         /\ api[p] \in ApiStates /\ run[p] \in RunStates /\ pub[p] \in PubStates
         /\ mutations[p] \in Nat
<1>1. /\ draft \in [Plans -> Drafts] /\ approval \in [Plans -> Approvals]
      /\ exe \in [Plans -> Executions] /\ api \in [Plans -> ApiStates]
      /\ run \in [Plans -> RunStates] /\ pub \in [Plans -> PubStates]
      /\ mutations \in [Plans -> Nat]
  BY Types
<1>2. ASSUME NEW S, NEW g \in [Plans -> S] PROVE g = [g EXCEPT ![p] = g[p]] /\ g[p] \in S
  OBVIOUS
<1>3. /\ draft = [draft EXCEPT ![p] = draft[p]] /\ draft[p] \in Drafts
      /\ approval = [approval EXCEPT ![p] = approval[p]] /\ approval[p] \in Approvals
  BY <1>1, <1>2, Zenon
<1>4. /\ exe = [exe EXCEPT ![p] = exe[p]] /\ exe[p] \in Executions
      /\ api = [api EXCEPT ![p] = api[p]] /\ api[p] \in ApiStates
  BY <1>1, <1>2, Zenon
<1>5. /\ run = [run EXCEPT ![p] = run[p]] /\ run[p] \in RunStates
      /\ pub = [pub EXCEPT ![p] = pub[p]] /\ pub[p] \in PubStates
      /\ mutations = [mutations EXCEPT ![p] = mutations[p]] /\ mutations[p] \in Nat
  BY <1>1, <1>2, Zenon
<1> QED BY <1>3, <1>4, <1>5

Planned(p, d, a, e, i, r) ==
  /\ d \in Drafts /\ a \in Approvals /\ e \in Executions /\ i \in ApiStates /\ r \in RunStates
  /\ draft' = [draft EXCEPT ![p] = d] /\ approval' = [approval EXCEPT ![p] = a]
  /\ exe' = [exe EXCEPT ![p] = e] /\ api' = [api EXCEPT ![p] = i] /\ run' = [run EXCEPT ![p] = r]

\* The types, of a step outside every process.
LEMMA TypesKept ==
  ASSUME TypeOK, draft' \in [Plans -> Drafts], approval' \in [Plans -> Approvals],
         exe' \in [Plans -> Executions], api' \in [Plans -> ApiStates], run' \in [Plans -> RunStates],
         rec' \in Readings, apart' \subseteq Plans,
         incident' = incident, warehouse' = warehouse, revision' = revision, job' = job,
         pub' = pub, writes' = writes, mutations' = mutations
  PROVE  TypeOK'
<1>1. /\ incident' \in [revision : 1..MaxIncident, resolved : BOOLEAN]
      /\ warehouse' \in Contents /\ revision' \in Nat /\ writes' \in 0..MaxWrites
      /\ mutations' \in [Plans -> Nat]
  BY DEF TypeOK
<1>2. /\ job' \in [Jobs -> [plan : Plans \cup {Nobody}, pc : JobPCs,
                             outcome : {"none", "unknown"} \cup Terminal]]
      /\ pub' \in [Plans -> {"none", "prepared", "uncertain", "unacknowledged", "published",
                              "restored", "partial", "aborted"}]
  BY DEF TypeOK
<1> QED BY <1>1, <1>2, Zenon DEF TypeOK, Drafts, Approvals, Executions, ApiStates, RunStates, Readings

\* A step outside every process that changes plan p, and possibly what the reconciler holds;
\* its run and its process may come apart.
LEMMA PlanStep ==
  ASSUME Inv, NEW p \in Plans, NEW d, NEW a, NEW e, NEW i, NEW r, Planned(p, d, a, e, i, r),
         UNCHANGED <<incident, warehouse, revision, job, pub, writes, mutations>>,
         apart' \in {apart, apart \cup {p}},
         PlanGood(p, d, a, e, i, r, pub[p], mutations[p], incident.resolved, apart'),
         \A k \in Jobs : job[k].plan = p /\ job[k].pc # "idle" =>
           JobGood(job[k], d, e, r, pub[p], mutations[p], revision, warehouse, apart'),
         rec' \in Readings, HeldGood'
  PROVE  Inv'
<1>1. /\ draft' \in [Plans -> Drafts] /\ approval' \in [Plans -> Approvals]
      /\ exe' \in [Plans -> Executions] /\ api' \in [Plans -> ApiStates] /\ run' \in [Plans -> RunStates]
      /\ draft'[p] = d /\ approval'[p] = a /\ exe'[p] = e /\ api'[p] = i /\ run'[p] = r
      /\ \A q \in Plans \ {p} : /\ draft'[q] = draft[q] /\ approval'[q] = approval[q]
                                /\ exe'[q] = exe[q] /\ api'[q] = api[q] /\ run'[q] = run[q]
  <2>1. /\ draft \in [Plans -> Drafts] /\ approval \in [Plans -> Approvals]
        /\ exe \in [Plans -> Executions] /\ api \in [Plans -> ApiStates]
        /\ run \in [Plans -> RunStates]
    BY Types DEF Inv
  <2>2. /\ draft' \in [Plans -> Drafts] /\ draft'[p] = d
        /\ \A q \in Plans \ {p} : draft'[q] = draft[q]
        /\ approval' \in [Plans -> Approvals] /\ approval'[p] = a
        /\ \A q \in Plans \ {p} : approval'[q] = approval[q]
    BY <2>1 DEF Planned
  <2>3. /\ exe' \in [Plans -> Executions] /\ exe'[p] = e
        /\ \A q \in Plans \ {p} : exe'[q] = exe[q]
        /\ api' \in [Plans -> ApiStates] /\ api'[p] = i
        /\ \A q \in Plans \ {p} : api'[q] = api[q]
    BY <2>1 DEF Planned
  <2>4. /\ run' \in [Plans -> RunStates] /\ run'[p] = r
        /\ \A q \in Plans \ {p} : run'[q] = run[q]
    BY <2>1 DEF Planned
  <2> QED BY <2>2, <2>3, <2>4
<1>2. TypeOK'
  <2>1. TypeOK /\ apart' \subseteq Plans
    BY DEF Inv, TypeOK
  <2>2. /\ incident' = incident /\ warehouse' = warehouse /\ revision' = revision /\ job' = job
        /\ pub' = pub /\ writes' = writes /\ mutations' = mutations /\ rec' \in Readings
    OBVIOUS
  <2> QED BY <1>1, <2>1, <2>2, TypesKept
<1>3. PlansGood'
  <2> SUFFICES ASSUME NEW q \in Plans
               PROVE  PlanGood(q, draft'[q], approval'[q], exe'[q], api'[q], run'[q], pub[q],
                               mutations[q], incident.resolved, apart')
    BY DEF PlansGood
  <2>1. CASE q = p
    BY <1>1, <2>1
  <2>2. CASE q # p
    <3>1. PlanGood(q, draft[q], approval[q], exe[q], api[q], run[q], pub[q], mutations[q],
                   incident.resolved, apart)
      BY DEF Inv, PlansGood
    <3> QED BY <1>1, <2>2, <3>1 DEF PlanGood, Allows
  <2> QED BY <2>1, <2>2
<1>4. JobsGood'
  <2> SUFFICES ASSUME NEW k \in Jobs, job[k].pc # "idle"
               PROVE  LET q == job[k].plan IN
                      JobGood(job[k], draft'[q], exe'[q], run'[q], pub[q], mutations[q], revision,
                              warehouse, apart')
    BY DEF Inv, JobsGood
  <2>1. CASE job[k].plan = p
    BY <1>1, <2>1
  <2>2. CASE job[k].plan # p
    <3> DEFINE q == job[k].plan
    <3>1. JobGood(job[k], draft[q], exe[q], run[q], pub[q], mutations[q], revision, warehouse, apart)
      BY DEF Inv, JobsGood
    <3> QED BY <1>1, <2>2, <3>1 DEF Inv, JobsGood, JobGood
  <2> QED BY <2>1, <2>2
<1>5. OneEach'
  BY DEF Inv, OneEach
<1> QED BY <1>2, <1>3, <1>4, <1>5 DEF Inv, OneLocked

\* The same while the reconciler's reading stays, and stays true.
LEMMA PlanAlone ==
  ASSUME Inv, NEW p \in Plans, NEW d, NEW a, NEW e, NEW i, NEW r, Planned(p, d, a, e, i, r),
         UNCHANGED <<incident, warehouse, revision, job, pub, writes, mutations, rec, apart>>,
         PlanGood(p, d, a, e, i, r, pub[p], mutations[p], incident.resolved, apart),
         \A k \in Jobs : job[k].plan = p /\ job[k].pc # "idle" =>
           JobGood(job[k], d, e, r, pub[p], mutations[p], revision, warehouse, apart),
         exe[p].status # "none" => e.status # "none",
         p \notin apart /\ run[p] \in {"success", "failed"} => r = run[p]
  PROVE  Inv'
<1>1. rec' \in Readings
  BY Types DEF Inv
<1>2. HeldGood'
  <2>1. /\ exe'[p] = e /\ run'[p] = r
        /\ \A q \in Plans \ {p} : exe'[q] = exe[q] /\ run'[q] = run[q]
    BY Types DEF Inv, Planned
  <2>2. rec.plan \in Plans \cup {Nobody}
    BY Types DEF Inv, Readings
  <2> QED BY <2>1, <2>2 DEF Inv, HeldGood
<1> QED BY <1>1, <1>2, PlanStep

\* The same while the plan keeps its execution and its run: no process notices.
LEMMA PlanQuiet ==
  ASSUME Inv, NEW p \in Plans, NEW d, NEW a, NEW e, NEW i, NEW r, Planned(p, d, a, e, i, r),
         UNCHANGED <<incident, warehouse, revision, job, pub, writes, mutations, rec, apart>>,
         PlanGood(p, d, a, e, i, r, pub[p], mutations[p], incident.resolved, apart),
         exe[p].status # "none" => d = draft[p] /\ e.status # "none",
         exe[p].status \notin Terminal => e.status \notin Terminal,
         p \notin apart /\ run[p] \in {"running", "success", "failed"} => r = run[p]
  PROVE  Inv'
<1>1. ASSUME NEW k \in Jobs, job[k].plan = p, job[k].pc # "idle"
      PROVE  JobGood(job[k], d, e, r, pub[p], mutations[p], revision, warehouse, apart)
  <2>1. JobGood(job[k], draft[p], exe[p], run[p], pub[p], mutations[p], revision, warehouse, apart)
    BY <1>1 DEF Inv, JobsGood
  <2> QED BY <1>1, <2>1 DEF JobGood
<1> QED BY <1>1, PlanAlone

Worked(j, x, p, a, e, u, m) ==
  /\ x \in Processes /\ a \in Approvals /\ e \in Executions /\ u \in PubStates /\ m \in Nat
  /\ job' = [job EXCEPT ![j] = x] /\ approval' = [approval EXCEPT ![p] = a]
  /\ exe' = [exe EXCEPT ![p] = e] /\ pub' = [pub EXCEPT ![p] = u]
  /\ mutations' = [mutations EXCEPT ![p] = m]

\* A step of process j on its plan p.
LEMMA ProcessStep ==
  ASSUME Inv, NEW j \in Jobs, job[j].pc # "idle", NEW p, p = job[j].plan,
         NEW x, NEW a, NEW e, NEW u, NEW m, Worked(j, x, p, a, e, u, m),
         x.plan = p, x.pc # "idle",
         UNCHANGED <<incident, draft, api, run, rec, writes, apart>>,
         warehouse' \in Contents, revision' \in Nat,
         PlanGood(p, draft[p], a, e, api[p], run[p], u, m, incident.resolved, apart),
         JobGood(x, draft[p], e, run[p], u, m, revision', warehouse', apart),
         pub[p] = "published" => u = "published",
         x.pc \in LockScope => job[j].pc \in LockScope \/ LockFree,
         \/ job[j].pc \in LockScope
         \/ u = pub[p] /\ m = mutations[p] /\ UNCHANGED <<warehouse, revision>>
  PROVE  Inv'
<1>1. p \in Plans /\ p # Nobody
  BY ConstantAssumption DEF Inv, JobsGood
<1>2. /\ approval' \in [Plans -> Approvals] /\ exe' \in [Plans -> Executions]
      /\ pub' \in [Plans -> PubStates] /\ mutations' \in [Plans -> Nat]
      /\ approval'[p] = a /\ exe'[p] = e /\ pub'[p] = u /\ mutations'[p] = m
      /\ \A q \in Plans \ {p} : /\ approval'[q] = approval[q] /\ exe'[q] = exe[q]
                                /\ pub'[q] = pub[q] /\ mutations'[q] = mutations[q]
  BY <1>1, Types DEF Inv, Worked
<1>3. /\ job' \in [Jobs -> Processes] /\ job'[j] = x
      /\ \A k \in Jobs \ {j} : job'[k] = job[k]
  BY Types DEF Inv, Worked
<1>4. TypeOK'
  BY <1>2, <1>3 DEF Inv, TypeOK, Approvals, Executions, PubStates, Processes
<1>5. PlansGood'
  BY <1>1, <1>2 DEF Inv, PlansGood
<1>6. ASSUME NEW k \in Jobs \ {j}, job[k].pc # "idle"
      PROVE  LET q == job[k].plan IN
             JobGood(job[k], draft[q], exe'[q], run[q], pub'[q], mutations'[q], revision', warehouse', apart)
  <2> DEFINE q == job[k].plan
  <2>1. q \in Plans /\ JobGood(job[k], draft[q], exe[q], run[q], pub[q], mutations[q], revision, warehouse, apart)
    BY <1>6 DEF Inv, JobsGood
  <2>2. job[j].pc \in LockScope => job[k].pc \notin LockScope
    BY <1>6 DEF Inv, OneLocked
  <2>3. p \notin apart => q # p
    BY <1>1, <1>6 DEF Inv, OneEach
  <2>4. e.status # "none"
    BY DEF JobGood
  <2>5. CASE q = p
    BY <1>2, <2>1, <2>2, <2>3, <2>4, <2>5 DEF JobGood, LockScope
  <2>6. CASE q # p
    BY <1>2, <2>1, <2>2, <2>6 DEF JobGood, LockScope
  <2> QED BY <2>5, <2>6
<1>7. JobsGood'
  BY <1>1, <1>2, <1>3, <1>6 DEF Inv, JobsGood
<1>8. OneLocked'
  BY <1>3 DEF Inv, OneLocked, LockFree
<1>9. OneEach'
  BY <1>3 DEF Inv, OneEach
<1>10. HeldGood'
  <2>1. e.status # "none"
    BY DEF JobGood
  <2>2. rec.plan \in Plans \cup {Nobody}
    BY Types DEF Inv, Readings
  <2> QED BY <1>2, <2>1, <2>2 DEF Inv, HeldGood
<1> QED BY <1>4, <1>5, <1>7, <1>8, <1>9, <1>10 DEF Inv

----------------------------------------------------------------------------
(* Planning and dispatch.                                                    *)

\* What the invariant says of a plan.
LEMMA PlanFacts ==
  ASSUME Inv, NEW p \in Plans
  PROVE  /\ draft[p] \in Drafts /\ approval[p] \in Approvals /\ exe[p] \in Executions
         /\ api[p] \in ApiStates /\ run[p] \in RunStates /\ pub[p] \in PubStates
         /\ mutations[p] \in Nat /\ revision \in Nat /\ warehouse \in Contents
         /\ incident.revision \in Nat
         /\ PlanGood(p, draft[p], approval[p], exe[p], api[p], run[p], pub[p], mutations[p],
                     incident.resolved, apart)
<1>1. incident.revision \in Nat
  <2>1. incident \in [revision : 1..MaxIncident, resolved : BOOLEAN]
    BY DEF Inv, TypeOK
  <2>2. incident.revision \in 1..MaxIncident
    BY <2>1
  <2> QED BY <2>2
<1> QED BY <1>1, Types DEF Inv, PlansGood

\* The draft advances, and is stored with its approval.
LEMMA DraftSteps ==
  ASSUME Inv, NEW p \in Plans,
         CollectFacts(p) \/ Preview(p) \/ PinRevision(p) \/ StorePlan(p)
  PROVE  Inv'
<1>1. /\ draft[p] \in Drafts /\ approval[p] \in Approvals /\ revision \in Nat
      /\ warehouse \in Contents /\ incident.revision \in Nat
      /\ PlanGood(p, draft[p], approval[p], exe[p], api[p], run[p], pub[p], mutations[p],
                  incident.resolved, apart)
  BY PlanFacts
<1>2. /\ draft[p].state # "stored"
      /\ UNCHANGED <<incident, warehouse, revision, exe, api, run, job, pub, rec, writes, mutations, apart>>
  BY DEF CollectFacts, Preview, PinRevision, StorePlan
<1>3. approval[p].status = "none" /\ exe[p].status = "none"
  BY <1>1, <1>2 DEF PlanGood
<1>4. PICK d \in Drafts : draft' = [draft EXCEPT ![p] = d] /\ (StorePlan(p) => d.state = "stored")
  <2>1. CASE CollectFacts(p)
    <3> DEFINE d == [draft[p] EXCEPT !.state = "collected", !.incident = incident.revision,
                                     !.facts = warehouse]
    <3>1. d \in Drafts
      BY <1>1 DEF Drafts
    <3>2. draft' = [draft EXCEPT ![p] = d]
      BY <2>1 DEF CollectFacts
    <3>3. ~StorePlan(p)
      BY <2>1 DEF CollectFacts, StorePlan
    <3> QED BY <3>1, <3>2, <3>3
  <2>2. CASE Preview(p)
    <3> DEFINE d == [draft[p] EXCEPT !.state = "previewed"]
    <3>1. d \in Drafts
      BY <1>1 DEF Drafts
    <3>2. draft' = [draft EXCEPT ![p] = d]
      BY <2>2 DEF Preview
    <3>3. ~StorePlan(p)
      BY <2>2 DEF Preview, StorePlan
    <3> QED BY <3>1, <3>2, <3>3
  <2>3. CASE PinRevision(p)
    <3> DEFINE d == [draft[p] EXCEPT !.state = "pinned", !.revision = revision]
    <3>1. d \in Drafts
      BY <1>1 DEF Drafts
    <3>2. draft' = [draft EXCEPT ![p] = d]
      BY <2>3 DEF PinRevision
    <3>3. ~StorePlan(p)
      BY <2>3 DEF PinRevision, StorePlan
    <3> QED BY <3>1, <3>2, <3>3
  <2>4. CASE StorePlan(p)
    <3> DEFINE d == [draft[p] EXCEPT !.state = "stored"]
    <3>1. d \in Drafts /\ d.state = "stored"
      BY <1>1 DEF Drafts
    <3>2. draft' = [draft EXCEPT ![p] = d]
      BY <2>4 DEF StorePlan
    <3> QED BY <3>1, <3>2
  <2> QED BY <2>1, <2>2, <2>3, <2>4
<1>5. PICK a \in Approvals : /\ approval' = [approval EXCEPT ![p] = a]
                             /\ a = approval[p] \/ (StorePlan(p) /\ a.exec = approval[p].exec)
  <2>1. CASE UNCHANGED approval
    BY <1>1, <2>1, NoChange DEF Inv
  <2>2. CASE StorePlan(p)
    <3> DEFINE a == [approval[p] EXCEPT !.status = "pending"]
    <3>1. a \in Approvals /\ a.exec = approval[p].exec
      BY <1>1 DEF Approvals
    <3>2. approval' = [approval EXCEPT ![p] = a]
      BY <2>2 DEF StorePlan
    <3> QED BY <2>2, <3>1, <3>2
  <2> QED BY <2>1, <2>2 DEF CollectFacts, Preview, PinRevision
<1>6. Planned(p, d, a, exe[p], api[p], run[p])
  BY <1>2, <1>4, <1>5, NoChange DEF Planned, Inv
<1>7. PlanGood(p, d, a, exe[p], api[p], run[p], pub[p], mutations[p], incident.resolved, apart)
  BY <1>1, <1>3, <1>4, <1>5 DEF PlanGood
<1> QED BY <1>2, <1>3, <1>6, <1>7, PlanQuiet

\* The decision and its cancellation.
LEMMA DecideSteps ==
  ASSUME Inv, NEW p \in Plans, Decide(p) \/ Cancel(p)
  PROVE  Inv'
<1>1. /\ approval[p] \in Approvals
      /\ PlanGood(p, draft[p], approval[p], exe[p], api[p], run[p], pub[p], mutations[p],
                  incident.resolved, apart)
  BY PlanFacts
<1>2. UNCHANGED <<incident, warehouse, revision, draft, exe, api, run, job, pub, rec, writes,
                  mutations, apart>>
  BY DEF Decide, Cancel
<1>3. PICK s \in {"approved", "rejected", "cancelled"} : approval' = [approval EXCEPT ![p].status = s]
  BY DEF Decide, Cancel
<1>4. exe[p].status = "none" /\ approval[p].status # "none" /\ approval[p].exec = "not_started"
  BY <1>1 DEF Decide, Cancel, PlanGood
<1> DEFINE a == [approval[p] EXCEPT !.status = s]
<1>5. a \in Approvals /\ a.status = s /\ a.exec = approval[p].exec
  BY <1>1 DEF Approvals
<1>6. approval' = [approval EXCEPT ![p] = a]
  BY <1>3
<1> HIDE DEF a
<1>7. Planned(p, draft[p], a, exe[p], api[p], run[p])
  BY <1>2, <1>5, <1>6, NoChange DEF Planned, Inv
<1>8. PlanGood(p, draft[p], a, exe[p], api[p], run[p], pub[p], mutations[p], incident.resolved, apart)
  BY <1>1, <1>4, <1>5 DEF PlanGood
<1> QED BY <1>2, <1>4, <1>7, <1>8, PlanQuiet

\* The claim of the approval.
LEMMA CreateStep ==
  ASSUME Inv, NEW p \in Plans, CreateExecution(p)
  PROVE  Inv'
<1>1. /\ approval[p] \in Approvals /\ exe[p] \in Executions
      /\ PlanGood(p, draft[p], approval[p], exe[p], api[p], run[p], pub[p], mutations[p],
                  incident.resolved, apart)
  BY PlanFacts
<1>2. /\ UNCHANGED <<incident, warehouse, revision, draft, run, job, pub, rec, writes, mutations, apart>>
      /\ exe[p].status = "none" /\ ~incident.resolved /\ approval[p].status = "approved"
      /\ api' = [api EXCEPT ![p] = "claim"]
  BY DEF CreateExecution, PlanCurrent
<1> DEFINE a == [approval[p] EXCEPT !.exec = "dispatching"]
           e == [exe[p] EXCEPT !.status = "queued"]
<1>3. /\ a \in Approvals /\ a.status = approval[p].status /\ a.exec = "dispatching"
      /\ e \in Executions /\ e.status = "queued"
  BY <1>1 DEF Approvals, Executions, ExecStates
<1>4. approval' = [approval EXCEPT ![p] = a] /\ exe' = [exe EXCEPT ![p] = e]
  BY DEF CreateExecution
<1> HIDE DEF a, e
<1>5. Planned(p, draft[p], a, e, "claim", run[p])
  BY <1>2, <1>3, <1>4, NoChange DEF Planned, Inv, ApiStates
<1>6. run[p] = "absent" /\ pub[p] = "none"
  BY <1>1, <1>2 DEF PlanGood
<1>7. PlanGood(p, draft[p], a, e, "claim", run[p], pub[p], mutations[p], incident.resolved, apart)
  BY <1>1, <1>2, <1>3, <1>6 DEF PlanGood, Terminal
<1> QED BY <1>2, <1>3, <1>5, <1>7, PlanQuiet DEF Terminal

\* A dispatch that changes only its own state and the run of the plan.
LEMMA DispatchStep ==
  ASSUME Inv, NEW p \in Plans, NEW i \in ApiStates, NEW r \in RunStates,
         api' = [api EXCEPT ![p] = i], run' = [run EXCEPT ![p] = r],
         UNCHANGED <<incident, warehouse, revision, draft, approval, exe, job, pub, rec, writes,
                     mutations, apart>>,
         exe[p].status # "none",
         p \notin apart => (i \in {"idle", "claim", "trigger"} => r = "absent"),
         p \notin apart /\ run[p] \in {"running", "success", "failed"} => r = run[p]
  PROVE  Inv'
<1>1. /\ run[p] \in RunStates
      /\ PlanGood(p, draft[p], approval[p], exe[p], api[p], run[p], pub[p], mutations[p],
                  incident.resolved, apart)
  BY PlanFacts
<1>2. Planned(p, draft[p], approval[p], exe[p], i, r)
  BY NoChange DEF Planned, Inv
<1>3. PlanGood(p, draft[p], approval[p], exe[p], i, r, pub[p], mutations[p], incident.resolved, apart)
  BY <1>1 DEF PlanGood, RunStates
<1> QED BY <1>2, <1>3, PlanQuiet

\* The dispatch of a claimed plan, its POST, its death and the late arrival of the POST.
LEMMA DispatchSteps ==
  ASSUME Inv, NEW p \in Plans, ClaimTrigger(p) \/ Trigger(p) \/ ApiCrash(p) \/ PostLands(p)
  PROVE  Inv'
<1>1. /\ exe[p] \in Executions /\ api[p] \in ApiStates /\ run[p] \in RunStates
      /\ PlanGood(p, draft[p], approval[p], exe[p], api[p], run[p], pub[p], mutations[p],
                  incident.resolved, apart)
  BY PlanFacts
<1>2. exe[p].status # "none"
  BY <1>1 DEF ClaimTrigger, Trigger, ApiCrash, PostLands, PlanGood
<1>3. CASE ClaimTrigger(p)
  <2> DEFINE e == [exe[p] EXCEPT !.trigger = "claimed"]
  <2>1. e \in Executions /\ e.status = exe[p].status
    BY <1>1 DEF Executions
  <2>2. e.validated = exe[p].validated
    BY <1>1 DEF Executions
  <2>3. /\ exe' = [exe EXCEPT ![p] = e] /\ api' = [api EXCEPT ![p] = "trigger"] /\ api[p] = "claim"
        /\ UNCHANGED <<incident, warehouse, revision, draft, approval, run, job, pub, rec, writes,
                       mutations, apart>>
    BY <1>3 DEF ClaimTrigger
  <2> HIDE DEF e
  <2>4. Planned(p, draft[p], approval[p], e, "trigger", run[p])
    BY <2>1, <2>3, NoChange DEF Planned, Inv, ApiStates
  <2>5. PlanGood(p, draft[p], approval[p], e, "trigger", run[p], pub[p], mutations[p],
                 incident.resolved, apart)
    BY <1>1, <1>2, <2>1, <2>2, <2>3 DEF PlanGood
  <2> QED BY <1>2, <2>1, <2>3, <2>4, <2>5, PlanQuiet
<1>4. CASE Trigger(p)
  <2>1. p \notin apart => run[p] = "absent"
    BY <1>1, <1>4 DEF Trigger, PlanGood
  <2>2. UNCHANGED <<incident, warehouse, revision, draft, approval, exe, job, pub, rec, writes,
                    mutations, apart>>
    BY <1>4 DEF Trigger
  <2>3. PICK i \in {"accepted", "unknown"}, r \in {"queued", "posted", run[p]} :
          api' = [api EXCEPT ![p] = i] /\ run' = [run EXCEPT ![p] = r]
    <3>1. run = [run EXCEPT ![p] = run[p]]
      BY NoChange DEF Inv
    <3> QED BY <1>4, <3>1 DEF Trigger
  <2>4. i \in ApiStates /\ r \in RunStates /\ i \notin {"idle", "claim", "trigger"}
    BY <1>1, <2>3 DEF ApiStates, RunStates
  <2> QED BY <1>2, <2>1, <2>2, <2>3, <2>4, DispatchStep
<1>5. CASE ApiCrash(p)
  <2>1. UNCHANGED <<incident, warehouse, revision, draft, approval, exe, job, pub, rec, writes,
                    mutations, apart>>
    BY <1>5 DEF ApiCrash
  <2>2. PICK r \in {"posted", run[p]} :
          /\ api' = [api EXCEPT ![p] = "done"] /\ run' = [run EXCEPT ![p] = r]
          /\ r = run[p] \/ api[p] = "trigger"
    <3>1. run = [run EXCEPT ![p] = run[p]]
      BY NoChange DEF Inv
    <3> QED BY <1>5, <3>1 DEF ApiCrash
  <2>3. "done" \in ApiStates /\ r \in RunStates
    BY <1>1 DEF ApiStates, RunStates
  <2>4. p \notin apart /\ run[p] \in {"running", "success", "failed"} => r = run[p]
    BY <1>1, <2>2 DEF PlanGood
  <2> QED BY <1>2, <2>1, <2>2, <2>3, <2>4, DispatchStep
<1>6. CASE PostLands(p)
  <2>1. /\ UNCHANGED <<incident, warehouse, revision, draft, approval, exe, job, pub, rec, writes,
                       mutations, apart>>
        /\ run[p] = "posted" /\ run' = [run EXCEPT ![p] = "queued"] /\ UNCHANGED api
    BY <1>6 DEF PostLands
  <2>2. api' = [api EXCEPT ![p] = api[p]]
    BY <2>1, NoChange DEF Inv
  <2>3. "queued" \in RunStates /\ (p \notin apart => api[p] \notin {"idle", "claim", "trigger"})
    BY <1>1, <2>1 DEF PlanGood, RunStates
  <2> QED BY <1>1, <1>2, <2>1, <2>2, <2>3, DispatchStep
<1> QED BY <1>3, <1>4, <1>5, <1>6

\* The answer of the dispatch is recorded, unless the run was faster.
LEMMA RecordStep ==
  ASSUME Inv, NEW p \in Plans, RecordTrigger(p)
  PROVE  Inv'
<1>1. /\ exe[p] \in Executions /\ api[p] \in ApiStates /\ run[p] \in RunStates
      /\ approval[p] \in Approvals
      /\ PlanGood(p, draft[p], approval[p], exe[p], api[p], run[p], pub[p], mutations[p],
                  incident.resolved, apart)
  BY PlanFacts
<1>2. exe[p].status # "none" /\ api[p] \in {"accepted", "unknown"}
  BY <1>1 DEF RecordTrigger, PlanGood
<1>3. /\ UNCHANGED <<incident, warehouse, revision, draft, run, job, pub, rec, writes, mutations, apart>>
      /\ api' = [api EXCEPT ![p] = "done"] /\ "done" \in ApiStates
  BY DEF RecordTrigger, ApiStates
<1>4. CASE UNCHANGED <<exe, approval>>
  <2>1. run' = [run EXCEPT ![p] = run[p]]
    BY <1>3, NoChange DEF Inv
  <2> QED BY <1>1, <1>2, <1>3, <1>4, <2>1, DispatchStep
<1>5. CASE exe[p].status \notin {"running"} \cup Terminal
  <2> DEFINE s == IF api[p] = "accepted" THEN "queued" ELSE "unknown"
             o == IF approval[p].exec # "dispatching" THEN approval[p].exec
                  ELSE IF api[p] = "accepted" THEN "dispatched" ELSE "unknown"
             e == [exe[p] EXCEPT !.trigger = api[p], !.status = s]
             a == [approval[p] EXCEPT !.exec = o]
  <2>1. exe' = [exe EXCEPT ![p] = e] /\ approval' = [approval EXCEPT ![p] = a]
    BY <1>5 DEF RecordTrigger
  <2>2. /\ s \in {"queued", "unknown"} /\ o \in ExecStates /\ (o \in InFlight <=> approval[p].exec \in InFlight)
        /\ (o = "not_started" <=> approval[p].exec = "not_started")
        /\ o \in Terminal \/ approval[p].exec \in Terminal => o = approval[p].exec
    BY <1>1 DEF Approvals, ExecStates, InFlight, Terminal
  <2> HIDE DEF s, o
  <2>3. /\ e \in Executions /\ e.status = s /\ a \in Approvals /\ a.status = approval[p].status
        /\ a.exec = o
    BY <1>1, <1>2, <2>2 DEF Executions, Approvals
  <2> HIDE DEF e, a
  <2>4. Planned(p, draft[p], a, e, "done", run[p])
    BY <1>3, <2>1, <2>3, NoChange DEF Planned, Inv
  <2>5. e.status \notin Terminal /\ e.status # "none" /\ e.status # "succeeded"
    BY <2>2, <2>3 DEF Terminal
  <2>6. PlanGood(p, draft[p], a, e, "done", run[p], pub[p], mutations[p], incident.resolved, apart)
    BY <1>1, <1>2, <1>5, <2>2, <2>3, <2>5 DEF PlanGood, Allows, Terminal
  <2> QED BY <1>2, <1>3, <2>4, <2>5, <2>6, PlanQuiet
<1> QED BY <1>4, <1>5 DEF RecordTrigger

----------------------------------------------------------------------------
(* Airflow.                                                                  *)

\* What the invariant says of a process and its plan.
LEMMA JobFacts ==
  ASSUME Inv, NEW j \in Jobs, job[j].pc # "idle"
  PROVE  LET p == job[j].plan IN
         /\ p \in Plans /\ p # Nobody /\ job[j] \in Processes
         /\ JobGood(job[j], draft[p], exe[p], run[p], pub[p], mutations[p], revision, warehouse, apart)
         /\ p \notin apart => \A k \in Jobs : job[k].plan = p => k = j
<1>1. job[j].plan \in Plans /\ job[j].plan # Nobody
  BY ConstantAssumption DEF Inv, JobsGood
<1> QED BY <1>1, Types DEF Inv, JobsGood, OneEach

\* A run is ended from outside: its processes stop, or live on apart from it.
LEMMA StopStep ==
  ASSUME Inv, NEW p \in Plans, NEW r \in {"success", "failed"},
         run[p] \in {"running", "failed"}, EndedFor(p, r),
         UNCHANGED <<incident, warehouse, revision, draft, approval, exe, api, pub, rec, writes,
                     mutations>>
  PROVE  Inv'
<1>1. PlanGood(p, draft[p], approval[p], exe[p], api[p], run[p], pub[p], mutations[p],
               incident.resolved, apart) /\ run \in [Plans -> RunStates] /\ job \in [Jobs -> Processes]
  BY PlanFacts, Types DEF Inv
<1>2. /\ run' \in [Plans -> RunStates] /\ run'[p] = r /\ \A q \in Plans \ {p} : run'[q] = run[q]
      /\ apart' \in {apart, apart \cup {p}}
  BY <1>1 DEF RunStates, EndedFor
<1>3. \A j \in Jobs :
        \/ job'[j] = job[j] /\ (p \notin apart' /\ job[j].plan = p => job[j].pc \in Exits)
        \/ /\ job[j].plan = p /\ job'[j] \in Processes
           /\ job'[j].plan = p /\ job'[j].pc = "exit_failed" /\ job'[j].outcome = "none"
  <2> SUFFICES ASSUME NEW j \in Jobs,
                      job'[j] # job[j] \/ (p \notin apart' /\ job[j].plan = p /\ job[j].pc \notin Exits)
               PROVE  /\ job[j].plan = p /\ job'[j] \in Processes
                      /\ job'[j].plan = p /\ job'[j].pc = "exit_failed" /\ job'[j].outcome = "none"
    OBVIOUS
  <2>1. ~Detached
    BY DEF EndedFor, Stopped, Working, Exits
  <2>2. job[j].plan = p /\ job'[j] = [job[j] EXCEPT !.pc = "exit_failed", !.outcome = "none"]
    BY <2>1 DEF EndedFor, Stopped
  <2>3. job[j] \in Processes
    BY <1>1
  <2> QED BY <2>2, <2>3 DEF Processes, JobPCs
<1>4. job' \in [Jobs -> Processes]
  <2>1. job' = [k \in Jobs |-> job'[k]]
    BY <1>1 DEF EndedFor, Stopped, Processes
  <2>2. \A k \in Jobs : job'[k] \in Processes
    BY <1>1, <1>3
  <2> QED BY <2>1, <2>2
<1>5. TypeOK'
  BY <1>2, <1>4 DEF Inv, TypeOK, RunStates, Processes
<1>6. PlansGood'
  <2> SUFFICES ASSUME NEW q \in Plans
               PROVE  PlanGood(q, draft[q], approval[q], exe[q], api[q], run'[q], pub[q],
                               mutations[q], incident.resolved, apart')
    BY DEF PlansGood
  <2>1. PlanGood(q, draft[q], approval[q], exe[q], api[q], run[q], pub[q], mutations[q],
                 incident.resolved, apart)
    BY DEF Inv, PlansGood
  <2>2. q \notin apart' => q \notin apart
    BY <1>2
  <2>3. CASE q = p
    BY <1>2, <2>1, <2>2, <2>3 DEF PlanGood, Allows
  <2>4. CASE q # p
    BY <1>2, <2>1, <2>2, <2>4 DEF PlanGood, Allows
  <2> QED BY <2>3, <2>4
<1>7. JobsGood'
  <2> SUFFICES ASSUME NEW j \in Jobs
               PROVE  /\ job'[j].pc = "idle" => job'[j].plan = Nobody
                      /\ job'[j].pc # "idle" =>
                           /\ job'[j].plan \in Plans
                           /\ LET q == job'[j].plan IN
                              JobGood(job'[j], draft[q], exe[q], run'[q], pub[q], mutations[q],
                                      revision, warehouse, apart')
    BY DEF JobsGood
  <2>1. /\ job[j].pc = "idle" => job[j].plan = Nobody
        /\ job[j].pc # "idle" =>
             /\ job[j].plan \in Plans
             /\ LET q == job[j].plan IN
                JobGood(job[j], draft[q], exe[q], run[q], pub[q], mutations[q], revision, warehouse,
                        apart)
    BY DEF Inv, JobsGood
  <2>2. CASE job'[j] = job[j] /\ job[j].plan # p
    BY <1>2, <2>1, <2>2 DEF JobGood
  <2>3. CASE /\ job'[j] = job[j] /\ job[j].plan = p
             /\ p \notin apart' => job[j].pc \in Exits
    BY <1>2, <2>1, <2>3 DEF JobGood
  <2>4. CASE /\ job[j].plan = p /\ job'[j].plan = p /\ job'[j].pc = "exit_failed"
             /\ job'[j].outcome = "none"
    <3>1. exe[p].status # "none"
      BY <1>1 DEF PlanGood
    <3> QED BY <1>2, <2>4, <3>1 DEF JobGood, LockScope, Exits
  <2> QED BY <1>3, <2>2, <2>3, <2>4
<1>8. OneLocked'
  BY <1>3 DEF Inv, OneLocked, LockScope
<1>9. OneEach'
  BY <1>2, <1>3 DEF Inv, OneEach
<1>10. HeldGood'
  <2>1. rec.plan \in Plans \cup {Nobody}
    BY Types DEF Inv, Readings
  <2> QED BY <1>2, <2>1 DEF Inv, HeldGood
<1> QED BY <1>5, <1>6, <1>7, <1>8, <1>9, <1>10 DEF Inv

\* Runs fail, are marked, end with their process, and are cleared.
LEMMA RunSteps ==
  ASSUME Inv, NEW p \in Plans, FailRun(p) \/ MarkSuccess(p) \/ EndRun(p) \/ ClearRun(p)
  PROVE  Inv'
<1>1. /\ run[p] \in RunStates
      /\ PlanGood(p, draft[p], approval[p], exe[p], api[p], run[p], pub[p], mutations[p],
                  incident.resolved, apart)
  BY PlanFacts
<1>2. CASE FailRun(p)
  BY <1>2, StopStep DEF FailRun
<1>3. CASE MarkSuccess(p)
  BY <1>3, StopStep DEF MarkSuccess
<1>4. CASE ClearRun(p)
  <2>1. /\ UNCHANGED <<incident, warehouse, revision, draft, approval, exe, api, job, pub, rec,
                       writes, mutations>>
        /\ run' = [run EXCEPT ![p] = "queued"] /\ apart' = apart \cup {p} /\ run[p] # "absent"
    BY <1>4 DEF ClearRun
  <2>2. Planned(p, draft[p], approval[p], exe[p], api[p], "queued")
    BY <2>1, NoChange DEF Planned, Inv, RunStates
  <2>3. PlanGood(p, draft[p], approval[p], exe[p], api[p], "queued", pub[p], mutations[p],
                 incident.resolved, apart')
    BY <1>1, <2>1 DEF PlanGood, Allows
  <2>4. ASSUME NEW k \in Jobs, job[k].plan = p, job[k].pc # "idle"
        PROVE  JobGood(job[k], draft[p], exe[p], "queued", pub[p], mutations[p], revision,
                       warehouse, apart')
    <3>1. JobGood(job[k], draft[p], exe[p], run[p], pub[p], mutations[p], revision, warehouse, apart)
      BY <2>4, JobFacts
    <3> QED BY <2>1, <2>4, <3>1 DEF JobGood
  <2>5. HeldGood' /\ rec' \in Readings
    <3>1. rec \in Readings /\ run \in [Plans -> RunStates] /\ rec.plan \in Plans \cup {Nobody}
      BY Types DEF Inv, Readings
    <3> QED BY <2>1, <3>1 DEF Inv, HeldGood
  <2> QED BY <2>1, <2>2, <2>3, <2>4, <2>5, PlanStep
<1>5. CASE EndRun(p)
  <2>1. PICK r \in {"success", "failed"} :
          /\ run' = [run EXCEPT ![p] = r] /\ run[p] = "running"
          /\ \A i \in Jobs : job[i].plan = p => job[i].pc \in Exits
          /\ UNCHANGED <<incident, warehouse, revision, draft, approval, exe, api, job, pub, rec,
                         writes, mutations, apart>>
    BY <1>5 DEF EndRun, Exits
  <2>2. Planned(p, draft[p], approval[p], exe[p], api[p], r)
    BY <2>1, NoChange DEF Planned, Inv, RunStates
  <2>3. PlanGood(p, draft[p], approval[p], exe[p], api[p], r, pub[p], mutations[p],
                 incident.resolved, apart)
    BY <1>1, <2>1 DEF PlanGood
  <2>4. ASSUME NEW k \in Jobs, job[k].plan = p, job[k].pc # "idle"
        PROVE  JobGood(job[k], draft[p], exe[p], r, pub[p], mutations[p], revision, warehouse, apart)
    <3>1. JobGood(job[k], draft[p], exe[p], run[p], pub[p], mutations[p], revision, warehouse, apart)
      BY <2>4, JobFacts
    <3> QED BY <2>1, <2>4, <3>1 DEF JobGood
  <2> QED BY <2>1, <2>2, <2>3, <2>4, PlanAlone
<1> QED BY <1>2, <1>3, <1>4, <1>5

\* The scheduler starts a process for a queued run.
LEMMA StartStep ==
  ASSUME Inv, NEW p \in Plans, NEW j \in Jobs, StartRun(p, j)
  PROVE  Inv'
<1> DEFINE x == [plan |-> p, pc |-> "start", outcome |-> "none"]
<1>1. /\ PlanGood(p, draft[p], approval[p], exe[p], api[p], run[p], pub[p], mutations[p],
                  incident.resolved, apart)
      /\ run \in [Plans -> RunStates] /\ job \in [Jobs -> Processes]
  BY PlanFacts, Types DEF Inv
<1>2. /\ run[p] = "queued" /\ job[j].pc = "idle"
      /\ run' = [run EXCEPT ![p] = "running"] /\ job' = [job EXCEPT ![j] = x]
      /\ UNCHANGED <<incident, warehouse, revision, draft, approval, exe, api, pub, rec, writes,
                     mutations, apart>>
  BY DEF StartRun
<1>3. x \in Processes /\ x.plan = p /\ x.pc = "start" /\ x.outcome = "none"
  BY DEF Processes, JobPCs
<1> HIDE DEF x
<1>4. /\ run' \in [Plans -> RunStates] /\ run'[p] = "running"
      /\ \A q \in Plans \ {p} : run'[q] = run[q]
  BY <1>1, <1>2 DEF RunStates
<1>5. /\ job' \in [Jobs -> Processes] /\ job'[j] = x /\ \A k \in Jobs \ {j} : job'[k] = job[k]
  BY <1>1, <1>2, <1>3
<1>6. exe[p].status # "none" /\ p # Nobody
  BY <1>1, <1>2, ConstantAssumption DEF PlanGood
<1>7. \A k \in Jobs : p \notin apart => job[k].plan # p
  <2> SUFFICES ASSUME NEW k \in Jobs, p \notin apart, job[k].plan = p PROVE FALSE
    OBVIOUS
  <2>1. job[k].pc # "idle"
    BY <1>6 DEF Inv, JobsGood
  <2> QED BY <1>2, <2>1, JobFacts DEF JobGood
<1>8. TypeOK'
  BY <1>2, <1>4, <1>5 DEF Inv, TypeOK, RunStates, Processes
<1>9. PlansGood'
  <2>1. PlanGood(p, draft[p], approval[p], exe[p], api[p], "running", pub[p], mutations[p],
                 incident.resolved, apart)
    BY <1>1, <1>2 DEF PlanGood
  <2> QED BY <1>2, <1>4, <2>1 DEF Inv, PlansGood
<1>10. JobsGood'
  <2> SUFFICES ASSUME NEW k \in Jobs, job'[k].pc # "idle"
               PROVE  /\ job'[k].plan \in Plans
                      /\ LET q == job'[k].plan IN
                         JobGood(job'[k], draft[q], exe[q], run'[q], pub[q], mutations[q],
                                 revision, warehouse, apart)
    BY <1>2, <1>3, <1>5 DEF Inv, JobsGood
  <2>1. CASE k = j
    <3>1. JobGood(x, draft[p], exe[p], "running", pub[p], mutations[p], revision, warehouse, apart)
      BY <1>1, <1>2, <1>3, <1>6 DEF JobGood, PlanGood, LockScope, Exits
    <3> QED BY <1>3, <1>4, <1>5, <2>1, <3>1
  <2>2. CASE k # j
    <3> DEFINE q == job[k].plan
    <3>1. job'[k] = job[k] /\ q \in Plans
          /\ JobGood(job[k], draft[q], exe[q], run[q], pub[q], mutations[q], revision, warehouse, apart)
      BY <1>5, <2>2 DEF Inv, JobsGood
    <3>2. CASE q = p
      <4>1. p \in apart
        BY <1>7, <3>2
      <4> QED BY <3>1, <3>2, <4>1 DEF JobGood
    <3>3. CASE q # p
      BY <1>4, <3>1, <3>3
    <3> QED BY <3>2, <3>3
  <2> QED BY <2>1, <2>2
<1>11. OneLocked'
  BY <1>3, <1>5 DEF Inv, OneLocked, LockScope
<1>12. OneEach'
  BY <1>2, <1>3, <1>5, <1>7 DEF Inv, OneEach
<1>13. HeldGood'
  <2>1. p \notin apart /\ rec.plan = p => rec.state \notin {"success", "failed"}
    BY <1>2, <1>6 DEF Inv, HeldGood
  <2>2. rec.plan \in Plans \cup {Nobody}
    BY Types DEF Inv, Readings
  <2> QED BY <1>2, <1>4, <2>1, <2>2 DEF Inv, HeldGood
<1> QED BY <1>8, <1>9, <1>10, <1>11, <1>12, <1>13 DEF Inv

----------------------------------------------------------------------------
(* The process.                                                              *)

\* A process of plan p may say b with outcome o, given the publication and what is live.
Fits(b, o, p, u, m, live, contents) ==
  \A x : x.plan = p /\ x.pc = b /\ x.outcome = o =>
    JobGood(x, draft[p], exe[p], run[p], u, m, live, contents, apart)

Labelled(j, b, o) ==
  /\ b \in JobPCs \ {"idle"} /\ o \in {"none", "unknown"} \cup Terminal
  /\ job' = [job EXCEPT ![j].pc = b, ![j].outcome = o]
Counted(p, u, m) ==
  /\ u \in PubStates /\ m \in Nat
  /\ pub' = [pub EXCEPT ![p] = u] /\ mutations' = [mutations EXCEPT ![p] = m]

\* Process j of plan p steps to label b with outcome o, and the publication of p to u and m.
Moved(j, p, b, o, u, m) ==
  /\ job[j].pc # "idle" /\ p = job[j].plan /\ Labelled(j, b, o) /\ Counted(p, u, m)
  /\ UNCHANGED <<incident, draft, approval, exe, api, run, rec, writes, apart>>
  /\ warehouse' \in Contents /\ revision' \in Nat
  /\ u # "none" \/ pub[p] = "none"
  /\ u = "none" => m = 0
  /\ m <= 1
  /\ pub[p] = "published" => u = "published"
  /\ u = "uncertain" => Allows(p, approval[p], apart)
  /\ p \notin apart => (u # pub[p] => run[p] = "running")
  /\ Fits(b, o, p, u, m, revision', warehouse')
  /\ b \in LockScope => job[j].pc \in LockScope \/ LockFree
  /\ \/ job[j].pc \in LockScope
     \/ u = pub[p] /\ m = mutations[p] /\ UNCHANGED <<warehouse, revision>>

\* A process and the publication, with the approval and the execution as they are.
LEMMA LabelStep ==
  ASSUME Inv, NEW j \in Jobs, NEW p, NEW b, NEW o, NEW u, NEW m, Moved(j, p, b, o, u, m)
  PROVE  Inv'
<1>0. /\ job[j].pc # "idle" /\ p = job[j].plan /\ Labelled(j, b, o) /\ Counted(p, u, m)
      /\ UNCHANGED <<incident, draft, approval, exe, api, run, rec, writes, apart>>
      /\ warehouse' \in Contents /\ revision' \in Nat
      /\ u # "none" \/ pub[p] = "none"
      /\ u = "none" => m = 0
      /\ m <= 1
      /\ pub[p] = "published" => u = "published"
      /\ u = "uncertain" => Allows(p, approval[p], apart)
      /\ p \notin apart => (u # pub[p] => run[p] = "running")
      /\ Fits(b, o, p, u, m, revision', warehouse')
      /\ b \in LockScope => job[j].pc \in LockScope \/ LockFree
      /\ \/ job[j].pc \in LockScope
         \/ u = pub[p] /\ m = mutations[p] /\ UNCHANGED <<warehouse, revision>>
  BY DEF Moved
<1> DEFINE x == [job[j] EXCEPT !.pc = b, !.outcome = o]
<1>1. /\ p \in Plans /\ job[j] \in Processes
      /\ JobGood(job[j], draft[p], exe[p], run[p], pub[p], mutations[p], revision, warehouse, apart)
      /\ PlanGood(p, draft[p], approval[p], exe[p], api[p], run[p], pub[p], mutations[p],
                  incident.resolved, apart)
  BY <1>0, JobFacts, PlanFacts
<1>2. x \in Processes /\ x.plan = p /\ x.pc = b /\ x.outcome = o /\ job' = [job EXCEPT ![j] = x]
  BY <1>0, <1>1 DEF Processes, Labelled
<1> HIDE DEF x
<1>3. Worked(j, x, p, approval[p], exe[p], u, m)
  BY <1>0, <1>1, <1>2, NoChange DEF Worked, Inv, Counted
<1>4. PlanGood(p, draft[p], approval[p], exe[p], api[p], run[p], u, m, incident.resolved, apart)
  <2>1. exe[p].status # "none"
    BY <1>1 DEF JobGood
  <2>2. p \notin apart /\ run[p] \in {"absent", "posted", "queued"} => u = "none"
    BY <1>0, <1>1 DEF PlanGood
  <2>3. exe[p].status = "succeeded" => exe[p].validated = TRUE /\ u = "published"
    BY <1>0, <1>1 DEF PlanGood
  <2> QED BY <1>0, <1>1, <2>1, <2>2, <2>3 DEF PlanGood
<1>5. x.plan = p /\ x.pc # "idle" /\ JobGood(x, draft[p], exe[p], run[p], u, m, revision', warehouse', apart)
  BY <1>0, <1>2 DEF Fits, Labelled
<1>6. x.pc \in LockScope => job[j].pc \in LockScope \/ LockFree
  BY <1>0, <1>2
<1> QED BY <1>0, <1>2, <1>3, <1>4, <1>5, <1>6, ProcessStep

\* A step of a process that touches nothing else.
LEMMA LabelAlone ==
  ASSUME Inv, NEW j \in Jobs, job[j].pc # "idle", NEW p, p = job[j].plan,
         NEW b, NEW o, Labelled(j, b, o),
         UNCHANGED <<incident, warehouse, revision, draft, approval, exe, api, run, pub, rec, writes,
                     mutations, apart>>,
         Fits(b, o, p, pub[p], mutations[p], revision, warehouse),
         b \in LockScope => job[j].pc \in LockScope \/ LockFree
  PROVE  Inv'
<1>1. /\ p \in Plans
      /\ PlanGood(p, draft[p], approval[p], exe[p], api[p], run[p], pub[p], mutations[p],
                  incident.resolved, apart)
  BY JobFacts, PlanFacts
<1>2. /\ pub[p] \in PubStates /\ mutations[p] \in Nat /\ warehouse \in Contents /\ revision \in Nat
      /\ pub' = [pub EXCEPT ![p] = pub[p]] /\ mutations' = [mutations EXCEPT ![p] = mutations[p]]
  BY <1>1, PlanFacts, NoChange DEF Inv
<1>3. /\ pub[p] = "none" => mutations[p] = 0
      /\ mutations[p] <= 1 /\ (pub[p] = "uncertain" => Allows(p, approval[p], apart))
  BY <1>1 DEF PlanGood
<1>4. Fits(b, o, p, pub[p], mutations[p], revision', warehouse')
  OBVIOUS
<1>5. UNCHANGED <<incident, draft, approval, exe, api, run, rec, writes, warehouse, revision>>
  OBVIOUS
<1>6. warehouse' \in Contents /\ revision' \in Nat
  BY <1>2, <1>5
<1> DEFINE u == pub[p]
           m == mutations[p]
<1>7. /\ Counted(p, u, m)
      /\ Fits(b, o, p, u, m, revision', warehouse')
      /\ u = "none" => m = 0
      /\ m <= 1 /\ (u = "uncertain" => Allows(p, approval[p], apart))
      /\ u = pub[p] /\ m = mutations[p]
  BY <1>2, <1>3, <1>4 DEF Counted
<1> HIDE DEF u, m
<1>8. Moved(j, p, b, o, u, m)
  BY <1>5, <1>6, <1>7 DEF Moved
<1> QED BY <1>8, LabelStep

\* Become and Ends are labels.
LEMMA LabelsOf ==
  ASSUME NEW j \in Jobs, NEW b
  PROVE  /\ b \in JobPCs \ {"idle"} /\ Become(j, b) => Labelled(j, b, "none")
         /\ b \in {"unknown"} \cup Terminal /\ Ends(j, b) => Labelled(j, "finish", b)
BY DEF Become, Ends, Labelled, JobPCs

\* A process that works on its plan.
LEMMA ActiveFacts ==
  ASSUME Inv, NEW j \in Jobs, job[j].pc # "idle"
  PROVE  LET p == job[j].plan IN
         /\ p \in Plans /\ draft[p] \in Drafts /\ exe[p] \in Executions /\ approval[p] \in Approvals
         /\ pub[p] \in PubStates /\ mutations[p] \in Nat /\ revision \in Nat /\ warehouse \in Contents
         /\ pub = [pub EXCEPT ![p] = pub[p]] /\ mutations = [mutations EXCEPT ![p] = mutations[p]]
         /\ JobGood(job[j], draft[p], exe[p], run[p], pub[p], mutations[p], revision, warehouse, apart)
         /\ PlanGood(p, draft[p], approval[p], exe[p], api[p], run[p], pub[p], mutations[p],
                     incident.resolved, apart)
         /\ p \notin apart /\ job[j].pc \notin {"start"} \cup Exits => approval[p].exec \in InFlight
<1> DEFINE p == job[j].plan
<1>1. /\ p \in Plans
      /\ JobGood(job[j], draft[p], exe[p], run[p], pub[p], mutations[p], revision, warehouse, apart)
  BY JobFacts
<1>2. PlanGood(p, draft[p], approval[p], exe[p], api[p], run[p], pub[p], mutations[p],
               incident.resolved, apart) /\ approval[p] \in Approvals
  BY <1>1, PlanFacts
<1>3. ASSUME p \notin apart, job[j].pc \notin {"start"} \cup Exits PROVE approval[p].exec \in InFlight
  <2>1. exe[p].status \notin {"none"} \cup Terminal
    BY <1>1, <1>3 DEF JobGood
  <2>2. approval[p].exec \notin {"not_started"} \cup Terminal
    BY <1>2, <1>3, <2>1 DEF PlanGood
  <2> QED BY <1>2, <2>2 DEF Approvals, ExecStates, InFlight, Terminal
<1> QED BY <1>1, <1>2, <1>3, PlanFacts, NoChange DEF Inv

\* Refusal, the lock and the revalidation.
LEMMA QuietSteps ==
  ASSUME Inv, NEW j \in Jobs, RefuseRun(j) \/ EnterLock(j) \/ Revalidate(j)
  PROVE  Inv'
<1> DEFINE p == job[j].plan
<1>1. job[j].pc # "idle"
  BY DEF RefuseRun, EnterLock, Revalidate
<1>2. /\ p \in Plans
      /\ JobGood(job[j], draft[p], exe[p], run[p], pub[p], mutations[p], revision, warehouse, apart)
      /\ p \notin apart /\ job[j].pc \notin {"start"} \cup Exits => approval[p].exec \in InFlight
  BY <1>1, ActiveFacts
<1>3. UNCHANGED <<incident, warehouse, revision, draft, approval, exe, api, run, pub, rec, writes,
                  mutations, apart>>
  BY DEF RefuseRun, EnterLock, Revalidate
<1>4. CASE RefuseRun(j)
  <2>1. PICK b \in Exits : Become(j, b)
    BY <1>4 DEF RefuseRun, Exits
  <2>2. Labelled(j, b, "none")
    BY <2>1, LabelsOf DEF Exits, JobPCs
  <2>3. Fits(b, "none", p, pub[p], mutations[p], revision, warehouse)
    BY <1>2, <1>4 DEF RefuseRun, Fits, JobGood, Exits, LockScope
  <2>4. b \notin LockScope
    BY DEF Exits, LockScope
  <2> QED BY <1>1, <1>3, <2>2, <2>3, <2>4, LabelAlone
<1>5. CASE EnterLock(j)
  <2>1. /\ LockFree /\ revision = draft[p].revision /\ job[j].pc = "pipeline"
        /\ Labelled(j, "locked", "none")
    BY <1>5, LabelsOf DEF EnterLock, JobPCs, P
  <2>2. Fits("locked", "none", p, pub[p], mutations[p], revision, warehouse)
    BY <1>2, <2>1 DEF Fits, JobGood, Exits
  <2> QED BY <1>1, <1>3, <2>1, <2>2, LabelAlone
<1>6. CASE Revalidate(j)
  <2>1. PICK o \in Terminal : job[j].pc = "verify" /\ Ends(j, o)
    BY <1>6 DEF Revalidate
  <2>2. Labelled(j, "finish", o)
    BY <2>1, LabelsOf
  <2>3. Fits("finish", o, p, pub[p], mutations[p], revision, warehouse)
    BY <1>2, <2>1 DEF Fits, JobGood, Exits, LockScope, Terminal
  <2>4. "finish" \notin LockScope
    BY DEF LockScope
  <2> QED BY <1>1, <1>3, <2>2, <2>3, <2>4, LabelAlone
<1> QED BY <1>4, <1>5, <1>6

\* A step of the process j of plan p that holds the publication lock.
LockedMove(j, p, b, o, u, m) ==
  /\ p = job[j].plan /\ job[j].pc \in LockScope /\ Labelled(j, b, o) /\ Counted(p, u, m)
  /\ UNCHANGED <<incident, draft, approval, exe, api, run, rec, writes, apart>>
  /\ warehouse' \in Contents /\ revision' \in Nat
  /\ u = pub[p] \/ u # "none"
  /\ u = "none" => m = 0
  /\ m <= 1
  /\ pub[p] = "published" => u = "published"
  /\ u = "uncertain" => pub[p] \in {"prepared", "uncertain"}
  /\ Fits(b, o, p, u, m, revision', warehouse')

\* It preserves the invariant.
LEMMA LockStep ==
  ASSUME Inv, NEW j \in Jobs, NEW p, NEW b, NEW o, NEW u, NEW m, LockedMove(j, p, b, o, u, m)
  PROVE  Inv'
<1>1. job[j].pc \in LockScope /\ p = job[j].plan
  BY DEF LockedMove
<1>2. job[j].pc \notin {"idle", "start"} \cup Exits
  BY <1>1 DEF LockScope, Exits
<1>3. job[j].pc # "idle"
  BY <1>2
<1>4. p \notin apart => run[p] = "running" /\ approval[p].exec \in InFlight
  BY <1>1, <1>2, ActiveFacts DEF JobGood
<1>5. u = "uncertain" => Allows(p, approval[p], apart)
  <2> SUFFICES ASSUME u = "uncertain" PROVE Allows(p, approval[p], apart)
    OBVIOUS
  <2>1. /\ approval[p] \in Approvals /\ exe[p].status # "none"
        /\ PlanGood(p, draft[p], approval[p], exe[p], api[p], run[p], pub[p], mutations[p],
                    incident.resolved, apart)
    BY <1>1, <1>3, ActiveFacts DEF JobGood
  <2>2. CASE pub[p] = "uncertain"
    BY <2>1, <2>2 DEF PlanGood
  <2>3. CASE pub[p] = "prepared"
    <3>1. approval[p].exec \notin {"not_started", "succeeded"}
      BY <2>1, <2>3 DEF PlanGood
    <3>2. approval[p].exec \in InFlight \cup {"failed"}
      BY <2>1, <3>1 DEF Approvals, ExecStates, InFlight
    <3> QED BY <1>4, <3>2 DEF Allows
  <2> QED BY <2>2, <2>3 DEF LockedMove
<1>6. Moved(j, p, b, o, u, m)
  BY <1>1, <1>3, <1>4, <1>5 DEF LockedMove, Moved
<1> QED BY <1>6, LabelStep

\* The publication: rows are prepared, recorded in flight, published, undone or abandoned.
LEMMA PublicationSteps ==
  ASSUME Inv, NEW j \in Jobs,
         \/ Build(j) \/ PipelineFails(j) \/ BeginPublication(j) \/ Mutate(j)
         \/ CompletePublication(j) \/ UndoPublication(j) \/ LosePublication(j)
         \/ LoseAcknowledgement(j) \/ JobCrash(j)
  PROVE  Inv'
<1> DEFINE p == job[j].plan
<1>1. job[j].pc # "idle"
  BY DEF Build, PipelineFails, BeginPublication, Mutate, CompletePublication, UndoPublication,
         LosePublication, LoseAcknowledgement, JobCrash
<1>2. /\ p \in Plans /\ draft[p] \in Drafts /\ pub[p] \in PubStates /\ mutations[p] \in Nat
      /\ revision \in Nat /\ warehouse \in Contents
      /\ pub = [pub EXCEPT ![p] = pub[p]] /\ mutations = [mutations EXCEPT ![p] = mutations[p]]
      /\ JobGood(job[j], draft[p], exe[p], run[p], pub[p], mutations[p], revision, warehouse, apart)
      /\ PlanGood(p, draft[p], approval[p], exe[p], api[p], run[p], pub[p], mutations[p],
                  incident.resolved, apart)
      /\ p \notin apart /\ job[j].pc \notin {"start"} \cup Exits => approval[p].exec \in InFlight
  BY <1>1, ActiveFacts
<1>3. UNCHANGED <<incident, draft, approval, exe, api, run, rec, writes, apart>>
  BY DEF Build, PipelineFails, BeginPublication, Mutate, CompletePublication, UndoPublication,
         LosePublication, LoseAcknowledgement, JobCrash
<1>4. {"locked", "built", "begun", "mutated"} = LockScope
  BY DEF LockScope
<1>5. mutations[p] <= 1 /\ (pub[p] = "none" => mutations[p] = 0)
  BY <1>2 DEF PlanGood
<1>6. CASE Build(j)
  <2>1. /\ job[j].pc = "locked" /\ pub[p] = "none" /\ Labelled(j, "built", "none")
        /\ UNCHANGED <<warehouse, revision>>
    BY <1>6, LabelsOf DEF Build, P, JobPCs
  <2>2. Counted(p, "prepared", mutations[p])
    BY <1>2, <1>6 DEF Build, P, Counted, PubStates
  <2>3. Fits("built", "none", p, "prepared", mutations[p], revision', warehouse')
    BY <1>2, <1>5, <2>1 DEF Fits, JobGood, Exits, LockScope
  <2>9. LockedMove(j, p, "built", "none", "prepared", mutations[p])
    BY <1>2, <1>3, <1>4, <1>5, <2>1, <2>2, <2>3 DEF LockedMove
  <2> QED BY <2>9, LockStep
<1>7. CASE BeginPublication(j)
  <2>1. /\ job[j].pc = "built" /\ warehouse = draft[p].facts /\ Labelled(j, "begun", "none")
        /\ UNCHANGED <<warehouse, revision>>
    BY <1>7, LabelsOf DEF BeginPublication, P, JobPCs
  <2>2. Counted(p, "uncertain", mutations[p])
    BY <1>2, <1>7 DEF BeginPublication, P, Counted, PubStates
  <2>3. pub[p] = "prepared" /\ mutations[p] = 0
    BY <1>2, <2>1 DEF JobGood
  <2>4. Fits("begun", "none", p, "uncertain", mutations[p], revision', warehouse')
    BY <1>2, <2>1, <2>3 DEF Fits, JobGood, Exits, LockScope
  <2>9. LockedMove(j, p, "begun", "none", "uncertain", mutations[p])
    BY <1>2, <1>3, <1>4, <1>5, <2>1, <2>2, <2>3, <2>4 DEF LockedMove
  <2> QED BY <2>9, LockStep
<1>8. CASE Mutate(j)
  <2>1. /\ job[j].pc = "begun" /\ warehouse' \in Contents /\ Labelled(j, "mutated", "none")
        /\ UNCHANGED revision
    BY <1>8, LabelsOf DEF Mutate, JobPCs
  <2>2. pub[p] = "uncertain" /\ mutations[p] = 0
    BY <1>2, <2>1 DEF JobGood
  <2>3. Counted(p, "uncertain", 1)
    <3>1. mutations' = [mutations EXCEPT ![p] = 1] /\ UNCHANGED pub
      BY <1>8, <2>2 DEF Mutate, P
    <3> QED BY <1>2, <2>2, <3>1 DEF Counted, PubStates
  <2>4. Fits("mutated", "none", p, "uncertain", 1, revision', warehouse')
    BY <1>2, <2>1, <2>2 DEF Fits, JobGood, Exits, LockScope
  <2>9. LockedMove(j, p, "mutated", "none", "uncertain", 1)
    BY <1>2, <1>3, <1>4, <1>5, <2>1, <2>2, <2>3, <2>4 DEF LockedMove
  <2> QED BY <2>9, LockStep
<1>9. CASE CompletePublication(j)
  <2>1. /\ job[j].pc = "mutated" /\ revision' = revision + 1 /\ Labelled(j, "verify", "none")
        /\ UNCHANGED warehouse
    BY <1>9, LabelsOf DEF CompletePublication, JobPCs
  <2>2. pub[p] = "uncertain"
    BY <1>2, <2>1 DEF JobGood
  <2>3. Counted(p, "published", mutations[p])
    BY <1>2, <1>9 DEF CompletePublication, P, Counted, PubStates
  <2>4. Fits("verify", "none", p, "published", mutations[p], revision', warehouse')
    BY <1>2, <2>1, <2>2 DEF Fits, JobGood, Exits, LockScope
  <2>9. LockedMove(j, p, "verify", "none", "published", mutations[p])
    BY <1>2, <1>3, <1>4, <1>5, <2>1, <2>2, <2>3, <2>4 DEF LockedMove
  <2> QED BY <2>9, LockStep
<1>10. CASE UndoPublication(j)
  <2>1. /\ job[j].pc = "mutated" /\ revision' = revision + 1 /\ Labelled(j, "finish", "failed")
        /\ UNCHANGED mutations
    BY <1>10, LabelsOf DEF UndoPublication, Terminal
  <2>2. pub[p] = "uncertain" /\ draft[p].facts \in Contents
    BY <1>2, <2>1 DEF JobGood, Drafts
  <2>3. PICK u \in {"restored", "partial", "prepared"} :
          pub' = [pub EXCEPT ![p] = u] /\ warehouse' \in Contents
    BY <1>2, <1>10, <2>2 DEF UndoPublication, P
  <2>4. Counted(p, u, mutations[p])
    BY <1>2, <2>1, <2>3 DEF Counted, PubStates
  <2>5. Fits("finish", "failed", p, u, mutations[p], revision', warehouse')
    BY <1>2, <2>1, <2>3 DEF Fits, JobGood, Exits, LockScope, Terminal
  <2>9. LockedMove(j, p, "finish", "failed", u, mutations[p])
    BY <1>2, <1>3, <1>4, <1>5, <2>1, <2>2, <2>3, <2>4, <2>5 DEF LockedMove
  <2> QED BY <2>9, LockStep
<1>11. CASE PipelineFails(j)
  <2>1. PICK o \in {"unknown", "failed"}, u \in {"aborted", "prepared", pub[p]} :
          /\ job[j].pc \in {"pipeline", "locked", "built"} /\ Ends(j, o)
          /\ pub' = [pub EXCEPT ![p] = u]
          /\ u = pub[p] \/ (job[j].pc = "built" /\ u \in {"aborted", "prepared"})
          /\ UNCHANGED <<warehouse, revision, mutations, apart>>
    BY <1>11 DEF PipelineFails, P
  <2>2. Labelled(j, "finish", o)
    BY <2>1, LabelsOf DEF Terminal
  <2>3. Counted(p, u, mutations[p])
    BY <1>2, <2>1 DEF Counted, PubStates
  <2>4. job[j].pc = "built" => pub[p] = "prepared"
    BY <1>2 DEF JobGood
  <2>5. p \notin apart => u # "uncertain"
    <3>1. p \notin apart /\ job[j].pc # "built" => pub[p] = "none"
      BY <1>2, <2>1 DEF JobGood
    <3> QED BY <2>1, <2>4, <3>1
  <2>6. Fits("finish", o, p, u, mutations[p], revision', warehouse')
    BY <1>2, <2>1, <2>5 DEF Fits, JobGood, Exits, LockScope, Terminal
  <2>7. CASE job[j].pc = "pipeline"
    <3>1. u = pub[p] /\ pub' = pub
      BY <1>2, <2>1, <2>7
    <3>2. Fits("finish", o, p, pub[p], mutations[p], revision, warehouse)
      BY <2>1, <2>6, <3>1
    <3>3. "finish" \notin LockScope
      BY DEF LockScope
    <3> QED BY <1>1, <1>3, <2>1, <2>2, <3>1, <3>2, <3>3, LabelAlone
  <2>8. CASE job[j].pc # "pipeline"
    <3>1. job[j].pc \in LockScope
      BY <2>1, <2>8 DEF LockScope
    <3>2. u = "none" => mutations[p] = 0
      BY <1>5, <2>1
    <3>3. u = pub[p] \/ u # "none"
      BY <2>1
    <3>4. pub[p] = "published" => u = "published"
      BY <2>1, <2>4
    <3>5. warehouse' \in Contents /\ revision' \in Nat
      BY <1>2, <2>1
    <3>6. u = "uncertain" => pub[p] = "uncertain"
      BY <2>1
    <3>7. LockedMove(j, p, "finish", o, u, mutations[p])
      BY <1>3, <1>5, <2>2, <2>3, <2>6, <3>1, <3>2, <3>3, <3>4, <3>5, <3>6 DEF LockedMove
    <3> QED BY <3>7, LockStep
  <2> QED BY <2>7, <2>8
<1>12. CASE JobCrash(j)
  <2>1. Labelled(j, "exit_failed", "none") /\ UNCHANGED <<warehouse, mutations, apart>>
        /\ job[j].pc \notin Exits
    BY <1>12, LabelsOf DEF JobCrash, JobPCs, Exits
  <2>2. CASE UNCHANGED <<pub, revision>>
    <3>1. Fits("exit_failed", "none", p, pub[p], mutations[p], revision, warehouse)
      BY <1>2, <2>1 DEF Fits, JobGood, Exits, LockScope
    <3> QED BY <1>1, <1>3, <2>1, <2>2, <3>1, LabelAlone DEF LockScope
  <2>3. ASSUME NEW u \in {"prepared", "uncertain"}, job[j].pc = "mutated",
               pub' = [pub EXCEPT ![p] = u], revision' = revision + 1
        PROVE  Inv'
    <3>1. pub[p] = "uncertain"
      BY <1>2, <2>3 DEF JobGood
    <3>2. Counted(p, u, mutations[p])
      BY <1>2, <2>1, <2>3 DEF Counted, PubStates
    <3>3. Fits("exit_failed", "none", p, u, mutations[p], revision', warehouse')
      BY <1>2, <2>1, <2>3 DEF Fits, JobGood, Exits, LockScope
    <3>4. LockedMove(j, p, "exit_failed", "none", u, mutations[p])
      BY <1>2, <1>3, <1>4, <1>5, <2>1, <2>3, <3>1, <3>2, <3>3 DEF LockedMove
    <3> QED BY <3>4, LockStep
  <2> QED BY <1>12, <2>2, <2>3 DEF JobCrash, P
<1>13. CASE LosePublication(j)
  <2>1. /\ job[j].pc \in {"begun", "mutated"} /\ Labelled(j, "finish", "unknown")
        /\ UNCHANGED <<warehouse, pub, mutations>> /\ revision' \in {revision, revision + 1}
    BY <1>13, LabelsOf DEF LosePublication
  <2>2. pub[p] = "uncertain" /\ Counted(p, "uncertain", mutations[p])
    BY <1>2, <2>1 DEF JobGood, Counted, PubStates
  <2>3. Fits("finish", "unknown", p, "uncertain", mutations[p], revision', warehouse')
    BY <1>2, <2>1, <2>2 DEF Fits, JobGood, Exits, LockScope
  <2>9. LockedMove(j, p, "finish", "unknown", "uncertain", mutations[p])
    BY <1>2, <1>3, <1>4, <1>5, <2>1, <2>2, <2>3 DEF LockedMove
  <2> QED BY <2>9, LockStep
<1>14. CASE LoseAcknowledgement(j)
  <2>1. /\ job[j].pc \in {"built", "mutated"} /\ Labelled(j, "finish", "failed")
        /\ pub' = [pub EXCEPT ![p] = "unacknowledged"]
        /\ UNCHANGED <<warehouse, mutations>> /\ revision' \in {revision, revision + 1}
    BY <1>14, LabelsOf DEF LoseAcknowledgement, P, Terminal
  <2>2. Counted(p, "unacknowledged", mutations[p]) /\ pub[p] \in {"prepared", "uncertain"}
    BY <1>2, <2>1 DEF JobGood, Counted, PubStates
  <2>3. Fits("finish", "failed", p, "unacknowledged", mutations[p], revision', warehouse')
    BY <1>2, <2>1 DEF Fits, JobGood, Exits, LockScope, Terminal
  <2>9. LockedMove(j, p, "finish", "failed", "unacknowledged", mutations[p])
    BY <1>2, <1>3, <1>4, <1>5, <2>1, <2>2, <2>3 DEF LockedMove
  <2> QED BY <2>9, LockStep
<1> QED BY <1>6, <1>7, <1>8, <1>9, <1>10, <1>11, <1>12, <1>13, <1>14

\* A process takes up its plan.
LEMMA ClaimRunStep ==
  ASSUME Inv, NEW j \in Jobs, ClaimRun(j)
  PROVE  Inv'
<1> DEFINE p == job[j].plan
           x == [job[j] EXCEPT !.pc = "pipeline", !.outcome = "none"]
           e == [exe[p] EXCEPT !.status = "running", !.trigger = "accepted"]
<1>1. /\ job[j].pc = "start" /\ exe[p].status \in {"queued", "unknown"}
      /\ exe' = [exe EXCEPT ![p] = e] /\ job' = [job EXCEPT ![j] = x]
      /\ UNCHANGED <<incident, warehouse, revision, draft, approval, api, run, pub, rec, writes,
                     mutations, apart>>
  BY DEF ClaimRun, MayRun, Become, P
<1>2. job[j] \in Processes /\ exe[p] \in Executions /\ p \in Plans
  BY <1>1, JobFacts, ActiveFacts
<1>3. /\ x \in Processes /\ x.plan = p /\ x.pc = "pipeline" /\ x.outcome = "none"
      /\ e \in Executions /\ e.status = "running" /\ e.validated = exe[p].validated
  BY <1>2 DEF Processes, JobPCs, Executions
<1>4. /\ JobGood(job[j], draft[p], exe[p], run[p], pub[p], mutations[p], revision, warehouse, apart)
      /\ PlanGood(p, draft[p], approval[p], exe[p], api[p], run[p], pub[p], mutations[p],
                  incident.resolved, apart)
      /\ pub[p] \in PubStates /\ mutations[p] \in Nat /\ revision \in Nat /\ warehouse \in Contents
      /\ approval[p] \in Approvals
  BY <1>1, ActiveFacts
<1> HIDE DEF x, e
<1>5. Worked(j, x, p, approval[p], e, pub[p], mutations[p])
  BY <1>1, <1>2, <1>3, <1>4, NoChange DEF Worked, Inv
<1>7. PlanGood(p, draft[p], approval[p], e, api[p], run[p], pub[p], mutations[p], incident.resolved, apart)
  BY <1>1, <1>3, <1>4 DEF PlanGood, Terminal
<1>8. JobGood(x, draft[p], e, run[p], pub[p], mutations[p], revision', warehouse', apart)
  BY <1>1, <1>3, <1>4 DEF JobGood, LockScope, Exits, Terminal
<1>9. /\ x.pc \in LockScope => job[j].pc \in LockScope \/ LockFree
      /\ job[j].pc # "idle" /\ x.pc # "idle" /\ warehouse' \in Contents /\ revision' \in Nat
      /\ UNCHANGED <<incident, draft, api, run, rec, writes, apart>> /\ UNCHANGED <<warehouse, revision>>
  BY <1>1, <1>3, <1>4 DEF LockScope
<1> QED BY <1>2, <1>3, <1>5, <1>7, <1>8, <1>9, ProcessStep

\* The outcome is stored.
LEMMA FinishStep ==
  ASSUME Inv, NEW j \in Jobs, Finish(j)
  PROVE  Inv'
<1> DEFINE p == job[j].plan
           o == job[j].outcome
           b == IF o = "succeeded" THEN "exit_ok" ELSE "exit_failed"
           n == IF approval[p].exec \in InFlight THEN o ELSE approval[p].exec
           why == IF o = "unknown" THEN "PublicationUnknown" ELSE IF o = "failed" THEN "other" ELSE ""
           ok == (o = "succeeded")
           x == [job[j] EXCEPT !.pc = b, !.outcome = "none"]
           e == [exe[p] EXCEPT !.status = o, !.validated = ok, !.finished = TRUE, !.error = why]
           a == [approval[p] EXCEPT !.exec = n]
<1>1. /\ job[j].pc = "finish"
      /\ exe' = [exe EXCEPT ![p] = e] /\ job' = [job EXCEPT ![j] = x]
      /\ approval' = [approval EXCEPT ![p] = a]
      /\ UNCHANGED <<incident, warehouse, revision, draft, api, run, pub, rec, writes, mutations, apart>>
  BY DEF Finish, Become, P
<1>2. job[j] \in Processes /\ exe[p] \in Executions /\ p \in Plans
  BY <1>1, JobFacts, ActiveFacts
<1>3. /\ JobGood(job[j], draft[p], exe[p], run[p], pub[p], mutations[p], revision, warehouse, apart)
      /\ PlanGood(p, draft[p], approval[p], exe[p], api[p], run[p], pub[p], mutations[p],
                  incident.resolved, apart)
      /\ pub[p] \in PubStates /\ mutations[p] \in Nat /\ revision \in Nat /\ warehouse \in Contents
      /\ approval[p] \in Approvals
      /\ p \notin apart => approval[p].exec \in InFlight
  BY <1>1, ActiveFacts DEF Exits
<1>4. o \in {"unknown", "succeeded", "failed"}
  BY <1>1, <1>2, <1>3 DEF JobGood, Processes, Terminal
<1>5. /\ b \in Exits /\ n \in ExecStates /\ why \in {"", "PublicationUnknown", "other"} /\ ok \in BOOLEAN
      /\ o = "succeeded" => ok = TRUE
      /\ approval[p].exec \in InFlight => n = o
      /\ approval[p].exec \notin InFlight => n = approval[p].exec
  BY <1>3, <1>4 DEF Exits, ExecStates, Approvals
<1> HIDE DEF b, n, why, ok
<1>6. x \in Processes /\ x.plan = p /\ x.pc = b /\ x.outcome = "none"
  BY <1>2, <1>5 DEF Processes, JobPCs, Exits
<1>7. e \in Executions /\ e.status = o
  BY <1>2, <1>4, <1>5 DEF Executions, Terminal
<1>8. e.validated = ok
  BY <1>2, <1>5 DEF Executions
<1>9. a \in Approvals /\ a.exec = n /\ a.status = approval[p].status
  BY <1>3, <1>5 DEF Approvals
<1> HIDE DEF x, e, a
<1>10. Worked(j, x, p, a, e, pub[p], mutations[p])
  BY <1>1, <1>2, <1>3, <1>6, <1>7, <1>9, NoChange DEF Worked, Inv
<1>11. JobGood(x, draft[p], e, run[p], pub[p], mutations[p], revision', warehouse', apart)
  BY <1>1, <1>3, <1>4, <1>5, <1>6, <1>7 DEF JobGood, LockScope, Exits
<1>12. PlanGood(p, draft[p], a, e, api[p], run[p], pub[p], mutations[p], incident.resolved, apart)
  <2>1. exe[p].status # "none"
    BY <1>3 DEF JobGood
  <2>2. approval[p].status # "none" => draft[p].state = "stored"
    BY <1>3 DEF PlanGood
  <2>3. a.exec # "not_started" /\ e.status # "none" /\ approval[p].status = "approved"
    BY <1>3, <1>4, <1>5, <1>7, <1>9, <2>1 DEF PlanGood, InFlight
  <2>4. (pub[p] = "none" => mutations[p] = 0) /\ mutations[p] <= 1
    BY <1>3 DEF PlanGood
  <2>5. a.exec \in InFlight => ~incident.resolved
    BY <1>3, <1>5, <1>9 DEF PlanGood
  <2>6. o = "succeeded" => e.validated = TRUE /\ pub[p] = "published"
    BY <1>3, <1>5, <1>8 DEF JobGood
  <2>7. a.exec = "succeeded" => pub[p] = "published"
    BY <1>3, <1>5, <1>9 DEF JobGood, PlanGood
  <2>8. ASSUME p \notin apart
        PROVE  /\ api[p] \in {"idle", "claim", "trigger"} => run[p] = "absent"
               /\ run[p] \in {"absent", "posted", "queued"} => pub[p] = "none"
               /\ a.exec = o
               /\ pub[p] = "uncertain" => o = "unknown"
    <3>1. a.exec = o
      BY <1>3, <1>5, <1>9, <2>8
    <3>2. pub[p] = "uncertain" => o = "unknown"
      BY <1>1, <1>3, <2>8 DEF JobGood
    <3> QED BY <1>3, <2>8, <3>1, <3>2 DEF PlanGood
  <2>9. pub[p] = "uncertain" => Allows(p, a, apart)
    <3>1. pub[p] = "uncertain" => Allows(p, approval[p], apart)
      BY <1>3 DEF PlanGood
    <3>2. pub[p] = "uncertain" => a.exec # "succeeded"
      BY <2>7
    <3> QED BY <1>4, <1>5, <1>9, <2>8, <3>1, <3>2 DEF Allows, InFlight
  <2> QED BY <1>7, <1>9, <2>2, <2>3, <2>4, <2>5, <2>6, <2>7, <2>8, <2>9 DEF PlanGood
<1>13. /\ x.pc \in LockScope => job[j].pc \in LockScope \/ LockFree
       /\ job[j].pc # "idle" /\ x.pc # "idle" /\ warehouse' \in Contents /\ revision' \in Nat
       /\ UNCHANGED <<incident, draft, api, run, rec, writes, apart>> /\ UNCHANGED <<warehouse, revision>>
  BY <1>1, <1>3, <1>5, <1>6 DEF LockScope, Exits
<1> QED BY <1>2, <1>6, <1>10, <1>11, <1>12, <1>13, ProcessStep

----------------------------------------------------------------------------
(* The reconciler, the incident and the other writers.                       *)

\* The reconciler reads a run.
LEMMA InspectStep ==
  ASSUME Inv, NEW p \in Plans, Inspect(p)
  PROVE  Inv'
<1>1. /\ exe[p].status # "none" /\ p # Nobody
      /\ run[p] \in {"queued", "running", "success", "failed"}
      /\ rec' = [plan |-> p, state |-> run[p]]
      /\ UNCHANGED <<incident, warehouse, revision, draft, approval, exe, api, run, job, pub, writes,
                     mutations, apart>>
  BY ConstantAssumption DEF Inspect
<1>2. rec' \in Readings /\ rec'.plan = p /\ rec'.state = run[p]
  BY <1>1 DEF Readings
<1>3. HeldGood'
  BY <1>1, <1>2 DEF HeldGood
<1>4. TypeOK'
  BY <1>1, <1>2 DEF Inv, TypeOK, Readings
<1> QED BY <1>1, <1>3, <1>4 DEF Inv, PlansGood, JobsGood, OneLocked, OneEach

\* The execution that the reconciler leaves, of the execution e it finds.
LEMMA ReconciledFacts ==
  ASSUME NEW e \in Executions, NEW state, NEW uncertain \in BOOLEAN, e.status # "none",
         e.status \notin Terminal
  PROVE  LET r == Reconciled(e, state, uncertain) IN
         /\ r \in Executions /\ r.status \notin {"none", "succeeded"}
         /\ r.status = "failed" => state = "failed" /\ ~uncertain
<1> DEFINE r == Reconciled(e, state, uncertain)
<1>1. CASE uncertain
  <2>1. r = [e EXCEPT !.status = "unknown", !.error = "PublicationUnknown"]
    BY <1>1 DEF Reconciled
  <2> QED BY <2>1 DEF Executions, Terminal
<1>2. CASE ~uncertain /\ state = "failed" /\ e.error # "PublicationUnknown"
  <2>1. r = [e EXCEPT !.status = "failed", !.error = "AirflowExecutionFailed", !.finished = TRUE]
    BY <1>2 DEF Reconciled
  <2> QED BY <1>2, <2>1 DEF Executions, Terminal
<1>3. CASE /\ ~uncertain /\ ~(state = "failed" /\ e.error # "PublicationUnknown")
           /\ state = "success" /\ ~e.validated
  <2>1. r = [e EXCEPT !.status = "unknown", !.error = "TerminalRunMissingVerification"]
    BY <1>3 DEF Reconciled
  <2> QED BY <2>1 DEF Executions, Terminal
<1>4. CASE /\ ~uncertain /\ ~(state = "failed" /\ e.error # "PublicationUnknown")
           /\ ~(state = "success" /\ ~e.validated) /\ state = "running"
  <2>1. r = [e EXCEPT !.trigger = "accepted"]
    BY <1>4 DEF Reconciled
  <2> QED BY <2>1 DEF Executions, Terminal
<1>5. CASE /\ ~uncertain /\ ~(state = "failed" /\ e.error # "PublicationUnknown")
           /\ ~(state = "success" /\ ~e.validated) /\ state # "running"
  <2>1. r = e
    BY <1>5 DEF Reconciled
  <2> QED BY <2>1 DEF Terminal
<1> QED BY <1>1, <1>2, <1>3, <1>4, <1>5

\* The reconciler acts on what it read.
LEMMA ReconcileStep ==
  ASSUME Inv, Reconcile
  PROVE  Inv'
<1> DEFINE p == rec.plan
           uncertain == (pub[p] \in {"uncertain", "unacknowledged"})
           e == Reconciled(exe[p], rec.state, uncertain)
           n == IF uncertain /\ approval[p].exec \in {"dispatching", "dispatched"} THEN "unknown"
                ELSE IF e.status = "failed" /\ approval[p].exec \in InFlight THEN "failed"
                ELSE approval[p].exec
           a == [approval[p] EXCEPT !.exec = n]
<1>1. /\ p # Nobody /\ rec' = [plan |-> Nobody, state |-> "none"]
      /\ UNCHANGED <<incident, warehouse, revision, draft, api, run, job, pub, writes, mutations, apart>>
  BY DEF Reconcile
<1>2. p \in Plans
  BY <1>1, Types DEF Inv, Readings
<1>3. /\ draft[p] \in Drafts /\ approval[p] \in Approvals /\ exe[p] \in Executions
      /\ api[p] \in ApiStates /\ run[p] \in RunStates /\ pub[p] \in PubStates
      /\ PlanGood(p, draft[p], approval[p], exe[p], api[p], run[p], pub[p], mutations[p],
                  incident.resolved, apart)
      /\ exe[p].status # "none"
  BY <1>1, <1>2, PlanFacts DEF Inv, HeldGood
<1>4. rec' \in Readings /\ HeldGood'
  BY <1>1 DEF HeldGood, Readings
<1>5. CASE UNCHANGED <<exe, approval>>
  <2>1. Planned(p, draft[p], approval[p], exe[p], api[p], run[p])
    BY <1>1, <1>2, <1>5, NoChange DEF Planned, Inv
  <2>2. ASSUME NEW k \in Jobs, job[k].plan = p, job[k].pc # "idle"
        PROVE  JobGood(job[k], draft[p], exe[p], run[p], pub[p], mutations[p], revision, warehouse, apart)
    BY <2>2, JobFacts
  <2> QED BY <1>1, <1>2, <1>3, <1>4, <2>1, <2>2, PlanStep
<1>6. CASE exe[p].status \notin Terminal /\ exe' = [exe EXCEPT ![p] = e]
           /\ approval' = [approval EXCEPT ![p] = a]
  <2>0. /\ uncertain \in BOOLEAN /\ (pub[p] = "uncertain" => uncertain)
    OBVIOUS
  <2> HIDE DEF uncertain
  <2>1. /\ e \in Executions /\ e.status \notin {"none", "succeeded"}
        /\ e.status = "failed" => rec.state = "failed" /\ ~uncertain
    BY <1>3, <1>6, <2>0, ReconciledFacts
  <2> HIDE DEF e
  <2>2. /\ n \in ExecStates /\ (n = "not_started" <=> approval[p].exec = "not_started")
        /\ n \in InFlight => approval[p].exec \in InFlight
        /\ pub[p] = "uncertain" /\ approval[p].exec \in InFlight => n \in InFlight
        /\ n \in Terminal => n = approval[p].exec \/ (n = "failed" /\ e.status = "failed")
        /\ approval[p].exec \in Terminal => n = approval[p].exec
        /\ e.status = "failed" => n \notin InFlight
    BY <1>3, <2>0, <2>1 DEF Approvals, ExecStates, InFlight, Terminal
  <2> HIDE DEF n
  <2>3. a \in Approvals /\ a.status = approval[p].status /\ a.exec = n
    BY <1>3, <2>2 DEF Approvals
  <2> HIDE DEF a
  <2>4. Planned(p, draft[p], a, e, api[p], run[p])
    BY <1>1, <1>2, <1>6, <2>1, <2>3, NoChange DEF Planned, Inv
  <2>5. p \notin apart => approval[p].exec \notin Terminal
    BY <1>3, <1>6 DEF PlanGood, Terminal
  <2>6. PlanGood(p, draft[p], a, e, api[p], run[p], pub[p], mutations[p], incident.resolved, apart)
    <3>1. ASSUME p \notin apart
          PROVE  /\ api[p] \in {"idle", "claim", "trigger"} => run[p] = "absent"
                 /\ run[p] \in {"absent", "posted", "queued"} => pub[p] = "none"
                 /\ a.exec \in Terminal => e.status = a.exec
      BY <1>3, <2>2, <2>3, <2>5, <3>1 DEF PlanGood
    <3>2. /\ a.status # "none" => draft[p].state = "stored"
          /\ e.status # "none" /\ a.exec # "not_started" /\ a.status = "approved"
          /\ pub[p] = "none" => mutations[p] = 0
          /\ mutations[p] <= 1
          /\ a.exec \in InFlight => ~incident.resolved
      BY <1>3, <2>1, <2>2, <2>3 DEF PlanGood
    <3>3. a.exec = "succeeded" => pub[p] = "published"
      BY <1>3, <2>2, <2>3 DEF PlanGood, Terminal
    <3>4. pub[p] = "uncertain" => Allows(p, a, apart)
      <4>1. pub[p] = "uncertain" => Allows(p, approval[p], apart)
        BY <1>3 DEF PlanGood
      <4> QED BY <2>2, <2>3, <4>1 DEF Allows, InFlight, Terminal
    <3> QED BY <2>1, <3>1, <3>2, <3>3, <3>4 DEF PlanGood
  <2>7. ASSUME NEW k \in Jobs, job[k].plan = p, job[k].pc # "idle"
        PROVE  JobGood(job[k], draft[p], e, run[p], pub[p], mutations[p], revision, warehouse, apart)
    <3>1. JobGood(job[k], draft[p], exe[p], run[p], pub[p], mutations[p], revision, warehouse, apart)
      BY <2>7, JobFacts
    <3>2. p \notin apart /\ rec.state = "failed" => run[p] \in {"success", "failed"}
      BY <1>1 DEF Inv, HeldGood
    <3>3. e.status \in Terminal => rec.state = "failed"
      BY <2>1 DEF Terminal
    <3>4. p \notin apart /\ e.status \in Terminal => job[k].pc \in Exits
      BY <2>7, <3>1, <3>2, <3>3 DEF JobGood
    <3> QED BY <2>1, <2>7, <3>1, <3>4 DEF JobGood
  <2> QED BY <1>1, <1>2, <1>4, <2>4, <2>6, <2>7, PlanStep
<1> QED BY <1>5, <1>6 DEF Reconcile

\* The incident is resolved or reopened.
LEMMA IncidentSteps ==
  ASSUME Inv, Resolve \/ Reopen
  PROVE  Inv'
<1>1. /\ UNCHANGED <<warehouse, revision, draft, approval, exe, api, run, job, pub, rec, writes,
                     mutations, apart>>
      /\ incident.revision < MaxIncident
      /\ \/ incident' = [revision |-> incident.revision + 1, resolved |-> TRUE]
         \/ incident' = [revision |-> incident.revision + 1, resolved |-> FALSE]
  BY DEF Resolve, Reopen
<1>2. incident' \in [revision : 1..MaxIncident, resolved : BOOLEAN]
  <2>1. incident \in [revision : 1..MaxIncident, resolved : BOOLEAN] /\ MaxIncident \in Nat
    BY ConstantAssumption DEF Inv, TypeOK
  <2>2. incident.revision \in 1..MaxIncident
    BY <2>1
  <2> DEFINE v == incident.revision + 1
  <2>3. v \in 1..MaxIncident
    BY <1>1, <2>1, <2>2
  <2>4. PICK b \in BOOLEAN : incident' = [revision |-> v, resolved |-> b]
    BY <1>1
  <2> HIDE DEF v
  <2> QED BY <2>3, <2>4
<1>3. TypeOK'
  BY <1>1, <1>2 DEF Inv, TypeOK
<1>4. \A p \in Plans : approval[p].exec \in InFlight => ~incident'.resolved
  <2>1. CASE Resolve
    BY <2>1 DEF Resolve, Blocking
  <2>2. CASE Reopen
    BY <2>2 DEF Reopen
  <2> QED BY <2>1, <2>2
<1>5. PlansGood'
  <2> SUFFICES ASSUME NEW p \in Plans
               PROVE  PlanGood(p, draft[p], approval[p], exe[p], api[p], run[p], pub[p], mutations[p],
                               incident'.resolved, apart)
    BY <1>1 DEF PlansGood
  <2>1. PlanGood(p, draft[p], approval[p], exe[p], api[p], run[p], pub[p], mutations[p],
                 incident.resolved, apart)
    BY DEF Inv, PlansGood
  <2> QED BY <1>4, <2>1 DEF PlanGood
<1> QED BY <1>1, <1>3, <1>5 DEF Inv, JobsGood, OneLocked, OneEach, HeldGood

\* Another writer publishes while nobody holds the lock.
LEMMA OtherWriterStep ==
  ASSUME Inv, OtherWriter
  PROVE  Inv'
<1>1. /\ UNCHANGED <<incident, draft, approval, exe, api, run, job, pub, rec, mutations, apart>>
      /\ LockFree /\ writes < MaxWrites /\ writes' = writes + 1
      /\ warehouse' \in Contents /\ revision' = revision + 1
  BY DEF OtherWriter
<1>2. TypeOK'
  <2>1. writes \in 0..MaxWrites /\ MaxWrites \in Nat /\ revision \in Nat
    BY ConstantAssumption DEF Inv, TypeOK
  <2>2. writes' \in 0..MaxWrites /\ revision' \in Nat
    BY <1>1, <2>1
  <2> QED BY <1>1, <2>2 DEF Inv, TypeOK
<1>3. JobsGood'
  <2> SUFFICES ASSUME NEW k \in Jobs, job[k].pc # "idle"
               PROVE  LET q == job[k].plan IN
                      JobGood(job[k], draft[q], exe[q], run[q], pub[q], mutations[q], revision', warehouse', apart)
    BY <1>1 DEF Inv, JobsGood
  <2>1. job[k].pc \notin LockScope
    BY <1>1 DEF LockFree
  <2> QED BY <2>1, JobFacts DEF JobGood, LockScope
<1> QED BY <1>1, <1>2, <1>3 DEF Inv, PlansGood, OneLocked, OneEach, HeldGood

----------------------------------------------------------------------------
(* The theorems.                                                             *)

\* Nothing is planned, running or held at first.
LEMMA InitInv ==
  ASSUME Init
  PROVE  Inv
<1>1. TypeOK
  <2>1. incident \in [revision : 1..MaxIncident, resolved : BOOLEAN]
    <3>1. 1 \in 1..MaxIncident
      BY ConstantAssumption
    <3> QED BY <3>1 DEF Init
  <2>2. 0 \in 0..MaxWrites
    BY ConstantAssumption
  <2>3. /\ draft \in [Plans -> Drafts] /\ approval \in [Plans -> Approvals]
        /\ exe \in [Plans -> Executions] /\ job \in [Jobs -> Processes] /\ rec \in Readings
    BY DEF Init, Drafts, Approvals, Executions, ExecStates, Processes, JobPCs, Readings
  <2>4. /\ api \in [Plans -> ApiStates] /\ run \in [Plans -> RunStates]
        /\ pub \in [Plans -> PubStates] /\ mutations \in [Plans -> Nat]
    BY DEF Init, ApiStates, RunStates, PubStates
  <2>5. warehouse \in Contents /\ revision \in Nat /\ writes \in 0..MaxWrites /\ apart \subseteq Plans
    BY <2>2 DEF Init
  <2> QED BY <2>1, <2>3, <2>4, <2>5 DEF TypeOK, Drafts, Approvals, Executions, ApiStates, RunStates,
         Processes, PubStates, Readings
<1>2. PlansGood
  <2> SUFFICES ASSUME NEW p \in Plans
               PROVE  PlanGood(p, draft[p], approval[p], exe[p], api[p], run[p], pub[p], mutations[p],
                               incident.resolved, apart)
    BY DEF PlansGood
  <2>1. /\ approval[p].status = "none" /\ approval[p].exec = "not_started"
        /\ exe[p].status = "none" /\ api[p] = "idle" /\ run[p] = "absent" /\ pub[p] = "none"
        /\ mutations[p] = 0
    BY DEF Init
  <2> QED BY <2>1 DEF PlanGood, InFlight, Terminal
<1>3. JobsGood /\ OneLocked /\ OneEach
  BY ConstantAssumption DEF Init, JobsGood, OneLocked, OneEach, LockScope
<1>4. HeldGood
  BY DEF Init, HeldGood
<1> QED BY <1>1, <1>2, <1>3, <1>4 DEF Inv

\* Every step preserves the invariant.
LEMMA NextInv ==
  ASSUME Inv, [Next]_vars
  PROVE  Inv'
<1>1. ASSUME NEW p \in Plans, Operator(p)
      PROVE  Inv'
  BY <1>1, DraftSteps, DecideSteps DEF Operator
<1>2. ASSUME NEW p \in Plans, ApiStep(p) \/ ApiCrash(p)
      PROVE  Inv'
  BY <1>2, CreateStep, DispatchSteps, RecordStep DEF ApiStep
<1>3. ASSUME NEW p \in Plans, Airflow(p)
      PROVE  Inv'
  BY <1>3, DispatchSteps, StartStep, RunSteps DEF Airflow
<1>4. ASSUME NEW p \in Plans, FailRun(p) \/ MarkSuccess(p) \/ ClearRun(p)
      PROVE  Inv'
  BY <1>4, RunSteps
<1>5. ASSUME NEW j \in Jobs, JobStep(j) \/ JobCrash(j)
      PROVE  Inv'
  BY <1>5, ClaimRunStep, QuietSteps, PublicationSteps, FinishStep DEF JobStep
<1>6. CASE UNCHANGED vars
  BY <1>6 DEF vars, Inv, TypeOK, PlansGood, JobsGood, OneLocked, OneEach, HeldGood
<1> QED BY <1>1, <1>2, <1>3, <1>4, <1>5, <1>6, InspectStep, ReconcileStep, IncidentSteps,
           OtherWriterStep DEF Next

\* The invariant is inductive.
LEMMA AlwaysInv == Spec => []Inv
<1>1. Init => Inv
  BY InitInv
<1>2. Inv /\ [Next]_vars => Inv'
  BY NextInv
<1> QED BY <1>1, <1>2, PTL DEF Spec

\* Whatever is cleared, killed, lost or reconciled meanwhile, a plan reaches the live tables
\* at most once, never after a refusal, and is reported successful only on stored evidence of
\* a complete publication; a publication of unknown outcome keeps its incident open, execution
\* and approval report the same outcome, and one process works on the plan, unless its run and
\* process came apart (dispatch_execution, run_execution, reconcile_execution).
THEOREM RecoveryIsSound == Spec => []RecoveryInv
<1>1. Inv => RecoveryInv
  BY InvImplies
<1> QED BY <1>1, AlwaysInv, PTL

\* The one action that replaces live data, and what holds when it does.
LEMMA OnlyMutate ==
  ASSUME Inv, [Next]_vars
  PROVE  \/ UNCHANGED mutations
         \/ \E j \in Jobs : LET p == job[j].plan IN
              /\ p \in Plans /\ job[j].pc = "begun" /\ mutations' = [mutations EXCEPT ![p] = @ + 1]
              /\ mutations[p] = 0 /\ warehouse = draft[p].facts /\ revision = draft[p].revision
              /\ approval[p].status = "approved" /\ UNCHANGED approval
              /\ Allows(p, approval[p], apart) /\ (approval[p].exec \in InFlight => ~incident.resolved)
<1>1. ASSUME NEW j \in Jobs, Mutate(j)
      PROVE  LET p == job[j].plan IN
             /\ p \in Plans /\ job[j].pc = "begun" /\ mutations' = [mutations EXCEPT ![p] = @ + 1]
             /\ mutations[p] = 0 /\ warehouse = draft[p].facts /\ revision = draft[p].revision
             /\ approval[p].status = "approved" /\ UNCHANGED approval
             /\ Allows(p, approval[p], apart) /\ (approval[p].exec \in InFlight => ~incident.resolved)
  <2> DEFINE p == job[j].plan
  <2>1. /\ job[j].pc = "begun" /\ mutations' = [mutations EXCEPT ![p] = @ + 1] /\ UNCHANGED approval
    BY <1>1 DEF Mutate, P
  <2>2. /\ p \in Plans
        /\ JobGood(job[j], draft[p], exe[p], run[p], pub[p], mutations[p], revision, warehouse, apart)
        /\ PlanGood(p, draft[p], approval[p], exe[p], api[p], run[p], pub[p], mutations[p],
                    incident.resolved, apart)
    BY <2>1, JobFacts, PlanFacts
  <2>3. /\ mutations[p] = 0 /\ warehouse = draft[p].facts /\ revision = draft[p].revision
        /\ exe[p].status # "none" /\ pub[p] = "uncertain"
    BY <2>1, <2>2 DEF JobGood, LockScope
  <2>4. /\ approval[p].status = "approved"
        /\ Allows(p, approval[p], apart) /\ (approval[p].exec \in InFlight => ~incident.resolved)
    BY <2>2, <2>3 DEF PlanGood
  <2> QED BY <2>1, <2>2, <2>3, <2>4
<1>2. ASSUME NEW p \in Plans, \/ Operator(p) \/ ApiStep(p) \/ ApiCrash(p) \/ Airflow(p) \/ FailRun(p)
                              \/ MarkSuccess(p) \/ ClearRun(p) \/ Inspect(p)
      PROVE  UNCHANGED mutations
  BY <1>2 DEF Operator, CollectFacts, Preview, PinRevision, StorePlan, Decide, Cancel, ApiStep,
     CreateExecution, ClaimTrigger, Trigger, RecordTrigger, ApiCrash, Airflow, PostLands, StartRun,
     EndRun, FailRun, MarkSuccess, ClearRun, Inspect
<1>3. ASSUME NEW j \in Jobs, JobStep(j) \/ JobCrash(j), ~Mutate(j)
      PROVE  UNCHANGED mutations
  BY <1>3 DEF JobStep, JobCrash, ClaimRun, RefuseRun, EnterLock, Build, PipelineFails,
     BeginPublication, CompletePublication, UndoPublication, LosePublication,
     LoseAcknowledgement, Revalidate, Finish
<1>4. ASSUME Reconcile \/ Resolve \/ Reopen \/ OtherWriter \/ UNCHANGED vars
      PROVE  UNCHANGED mutations
  BY <1>4 DEF Reconcile, Resolve, Reopen, OtherWriter, vars
<1> QED BY <1>1, <1>2, <1>3, <1>4 DEF Next

\* A recovery replaces exactly the contents and the revision its approver saw, however long
\* after the last verify_plan the pipeline runs (PublicationTransaction.lock, validate_built_recovery).
THEOREM ReplacesWhatWasApproved == Spec => ApprovedState
<1>1. Inv /\ [Next]_vars =>
        [\A p \in Plans : mutations'[p] # mutations[p] =>
           warehouse = draft[p].facts /\ revision = draft[p].revision]_vars
  <2> SUFFICES ASSUME Inv, [Next]_vars, NEW p \in Plans, mutations'[p] # mutations[p]
               PROVE  warehouse = draft[p].facts /\ revision = draft[p].revision
    OBVIOUS
  <2>1. mutations \in [Plans -> Nat]
    BY DEF Inv, TypeOK
  <2> QED BY <2>1, OnlyMutate
<1> QED BY <1>1, AlwaysInv, PTL DEF Spec, ApprovedState

\* No step replaces live data of a closed incident, except for a plan whose process outlived
\* its run or was started again, and whose approval had been reported as failed.
THEOREM ClosureEndsRecovery == Spec => MutatesAfterClosureOnlyApart
<1>1. Inv /\ [Next]_vars => [ClosedOrApart]_vars
  <2> SUFFICES ASSUME Inv, [Next]_vars, incident.resolved, NEW p \in Plans,
                      mutations'[p] # mutations[p]
               PROVE  p \in apart /\ approval[p].exec = "failed"
    BY DEF ClosedOrApart
  <2>1. mutations \in [Plans -> Nat]
    BY DEF Inv, TypeOK
  <2> QED BY <2>1, OnlyMutate DEF Allows
<1> QED BY <1>1, AlwaysInv, PTL DEF Spec, MutatesAfterClosureOnlyApart

----------------------------------------------------------------------------
(* The refinement of SingleUseApproval, by what a step does to the approval  *)
(* of a plan.  OnlyMutate is the part about the live tables.                 *)

Proposed(a, n) == a.status = "none" /\ n.status = "pending" /\ n.exec = a.exec
Decided(a, n) ==
  /\ n.exec = a.exec
  /\ \/ a.status = "pending" /\ n.status \in {"approved", "rejected"}
     \/ /\ a.status \in {"pending", "approved"} /\ a.exec = "not_started"
        /\ n.status = "cancelled"
Advanced(a, n) ==
  /\ a.status = "approved" /\ n.status = "approved"
  /\ \/ a.exec = "not_started" /\ n.exec = "dispatching"
     \/ a.exec = "dispatching" /\ n.exec \in {"dispatched", "unknown"} \cup Terminal
     \/ a.exec = "dispatched" /\ n.exec \in {"unknown"} \cup Terminal
     \/ a.exec = "unknown" /\ n.exec \in Terminal

\* The approval of plan p becomes n.
Writes(p, n) ==
  /\ n \in Approvals /\ approval' = [approval EXCEPT ![p] = n] /\ UNCHANGED mutations
  /\ Proposed(approval[p], n) \/ Decided(approval[p], n) \/ Advanced(approval[p], n)

\* A recorded execution_status.
LEMMA ReportKind ==
  ASSUME Inv, NEW p \in Plans, NEW e \in ExecStates, UNCHANGED mutations,
         exe[p].status # "none",
         approval' = [approval EXCEPT ![p] = [approval[p] EXCEPT !.exec = e]],
         \/ e = approval[p].exec
         \/ approval[p].exec = "dispatching" /\ e \in {"dispatched", "unknown"}
         \/ approval[p].exec \in {"dispatching", "dispatched"} /\ e = "unknown"
         \/ approval[p].exec \in InFlight /\ e \in Terminal
  PROVE  UNCHANGED approval \/ \E q \in Plans, n \in Approvals : Writes(q, n)
<1> DEFINE n == [approval[p] EXCEPT !.exec = e]
<1>1. /\ approval[p] \in Approvals
      /\ PlanGood(p, draft[p], approval[p], exe[p], api[p], run[p], pub[p], mutations[p],
                  incident.resolved, apart)
  BY PlanFacts
<1>2. n \in Approvals /\ n.exec = e /\ n.status = approval[p].status
  BY <1>1 DEF Approvals
<1>3. approval[p].status = "approved"
  BY <1>1 DEF PlanGood
<1>4. CASE e = approval[p].exec
  <2>1. n = approval[p]
    BY <1>1, <1>4 DEF Approvals
  <2> QED BY <2>1, NoChange DEF Inv
<1>5. CASE e # approval[p].exec
  <2> HIDE DEF n
  <2>1. Advanced(approval[p], n)
    BY <1>2, <1>3, <1>5 DEF Advanced, InFlight
  <2>2. approval' = [approval EXCEPT ![p] = n]
    BY DEF n
  <2> QED BY <1>2, <2>1, <2>2 DEF Writes
<1> QED BY <1>4, <1>5

\* Planning, decision and claim.
LEMMA DecisionKinds ==
  ASSUME Inv, NEW p \in Plans, StorePlan(p) \/ Decide(p) \/ Cancel(p) \/ CreateExecution(p)
  PROVE  \E n \in Approvals : Writes(p, n)
<1>1. /\ approval[p] \in Approvals /\ UNCHANGED mutations
      /\ PlanGood(p, draft[p], approval[p], exe[p], api[p], run[p], pub[p], mutations[p],
                  incident.resolved, apart)
  BY PlanFacts DEF StorePlan, Decide, Cancel, CreateExecution
<1>2. CASE StorePlan(p)
  <2> DEFINE n == [approval[p] EXCEPT !.status = "pending"]
  <2>1. n \in Approvals /\ n.status = "pending" /\ n.exec = approval[p].exec
    BY <1>1 DEF Approvals
  <2>2. approval' = [approval EXCEPT ![p] = n] /\ draft[p].state # "stored"
    BY <1>2 DEF StorePlan
  <2>3. approval[p].status = "none"
    BY <1>1, <2>2 DEF PlanGood
  <2> HIDE DEF n
  <2> QED BY <1>1, <2>1, <2>2, <2>3 DEF Writes, Proposed
<1>3. CASE Decide(p) \/ Cancel(p)
  <2>1. PICK s \in {"approved", "rejected", "cancelled"} :
          /\ approval' = [approval EXCEPT ![p].status = s]
          /\ \/ approval[p].status = "pending" /\ s \in {"approved", "rejected"}
             \/ /\ approval[p].status \in {"pending", "approved"} /\ s = "cancelled"
                /\ approval[p].exec = "not_started"
    BY <1>3 DEF Decide, Cancel
  <2> DEFINE n == [approval[p] EXCEPT !.status = s]
  <2>2. n \in Approvals /\ n.status = s /\ n.exec = approval[p].exec
    BY <1>1 DEF Approvals
  <2>3. approval' = [approval EXCEPT ![p] = n]
    BY <2>1
  <2> HIDE DEF n
  <2> QED BY <1>1, <2>1, <2>2, <2>3 DEF Writes, Decided
<1>4. CASE CreateExecution(p)
  <2> DEFINE n == [approval[p] EXCEPT !.exec = "dispatching"]
  <2>1. n \in Approvals /\ n.status = approval[p].status /\ n.exec = "dispatching"
    BY <1>1 DEF Approvals, ExecStates
  <2>2. /\ approval' = [approval EXCEPT ![p] = n] /\ approval[p].status = "approved"
        /\ approval[p].exec = "not_started"
    BY <1>4 DEF CreateExecution
  <2> HIDE DEF n
  <2> QED BY <1>1, <2>1, <2>2 DEF Writes, Advanced
<1> QED BY <1>2, <1>3, <1>4

\* The trigger's answer, the process's outcome and the reconciler's.
LEMMA OutcomeKinds ==
  ASSUME Inv, \/ \E p \in Plans : RecordTrigger(p)
              \/ \E j \in Jobs : Finish(j)
              \/ Reconcile
  PROVE  UNCHANGED approval \/ \E q \in Plans, n \in Approvals : Writes(q, n)
<1>1. ASSUME NEW p \in Plans, RecordTrigger(p), ~UNCHANGED approval
      PROVE  \E q \in Plans, n \in Approvals : Writes(q, n)
  <2> DEFINE e == IF approval[p].exec # "dispatching" THEN approval[p].exec
                  ELSE IF api[p] = "accepted" THEN "dispatched" ELSE "unknown"
  <2>1. /\ approval' = [approval EXCEPT ![p] = [approval[p] EXCEPT !.exec = e]]
        /\ UNCHANGED mutations /\ api[p] # "idle"
    BY <1>1 DEF RecordTrigger
  <2>2. /\ approval[p].exec \in ExecStates /\ exe[p].status # "none"
    BY <2>1, PlanFacts DEF Approvals, PlanGood
  <2>3. e \in ExecStates /\ (e = approval[p].exec
          \/ (approval[p].exec = "dispatching" /\ e \in {"dispatched", "unknown"}))
    BY <2>2 DEF ExecStates
  <2> HIDE DEF e
  <2> QED BY <1>1, <2>1, <2>2, <2>3, ReportKind
<1>2. ASSUME NEW j \in Jobs, Finish(j), ~UNCHANGED approval
      PROVE  \E q \in Plans, n \in Approvals : Writes(q, n)
  <2> DEFINE p == job[j].plan
             o == job[j].outcome
             e == IF approval[p].exec \in InFlight THEN o ELSE approval[p].exec
  <2>1. /\ approval' = [approval EXCEPT ![p] = [approval[p] EXCEPT !.exec = e]]
        /\ UNCHANGED mutations /\ job[j].pc = "finish"
    BY <1>2 DEF Finish, P
  <2>2. /\ p \in Plans /\ exe[p].status # "none" /\ o \in {"unknown"} \cup Terminal
        /\ approval[p].exec \in ExecStates
    BY <2>1, JobFacts, PlanFacts DEF JobGood, Processes, Approvals
  <2>3. /\ e \in ExecStates
        /\ \/ e = approval[p].exec
           \/ approval[p].exec \in {"dispatching", "dispatched"} /\ e = "unknown"
           \/ approval[p].exec \in InFlight /\ e \in Terminal
    BY <2>2 DEF ExecStates, InFlight, Terminal
  <2> HIDE DEF e, p
  <2> QED BY <1>2, <2>1, <2>2, <2>3, ReportKind
<1>3. ASSUME Reconcile, ~UNCHANGED approval
      PROVE  \E q \in Plans, n \in Approvals : Writes(q, n)
  <2> DEFINE p == rec.plan
             uncertain == (pub[p] \in {"uncertain", "unacknowledged"})
             failed == (Reconciled(exe[p], rec.state, uncertain).status = "failed")
             e == IF uncertain /\ approval[p].exec \in {"dispatching", "dispatched"} THEN "unknown"
                  ELSE IF failed /\ approval[p].exec \in InFlight THEN "failed" ELSE approval[p].exec
  <2>1. /\ approval' = [approval EXCEPT ![p] = [approval[p] EXCEPT !.exec = e]]
        /\ UNCHANGED mutations /\ p # Nobody
    BY <1>3 DEF Reconcile
  <2>2. /\ p \in Plans /\ exe[p].status # "none" /\ approval[p].exec \in ExecStates
    <3>1. p \in Plans
      BY <2>1, Types DEF Inv, Readings
    <3> QED BY <2>1, <3>1, PlanFacts DEF Inv, HeldGood, Approvals
  <2> HIDE DEF uncertain, failed
  <2>3. /\ e \in ExecStates
        /\ \/ e = approval[p].exec
           \/ approval[p].exec \in {"dispatching", "dispatched"} /\ e = "unknown"
           \/ approval[p].exec \in InFlight /\ e \in Terminal
    BY <2>2 DEF ExecStates, InFlight, Terminal
  <2> HIDE DEF e, p
  <2> QED BY <1>3, <2>1, <2>2, <2>3, ReportKind
<1> QED BY <1>1, <1>2, <1>3

\* Every step, by what it does to an approval.
LEMMA StepKinds ==
  ASSUME Inv, [Next]_vars
  PROVE  UNCHANGED approval \/ \E p \in Plans, n \in Approvals : Writes(p, n)
<1>1. ASSUME NEW p \in Plans,
             \/ CollectFacts(p) \/ Preview(p) \/ PinRevision(p) \/ ClaimTrigger(p) \/ Trigger(p)
             \/ ApiCrash(p) \/ Airflow(p) \/ FailRun(p) \/ MarkSuccess(p) \/ ClearRun(p) \/ Inspect(p)
      PROVE  UNCHANGED approval
  BY <1>1 DEF CollectFacts, Preview, PinRevision, ClaimTrigger, Trigger, ApiCrash, Airflow, PostLands,
     StartRun, EndRun, FailRun, MarkSuccess, ClearRun, Inspect
<1>2. ASSUME NEW j \in Jobs, JobStep(j) \/ JobCrash(j), ~Finish(j)
      PROVE  UNCHANGED approval
  BY <1>2 DEF JobStep, JobCrash, ClaimRun, RefuseRun, EnterLock, Build, PipelineFails,
     BeginPublication, Mutate, CompletePublication, UndoPublication, LosePublication,
     LoseAcknowledgement, Revalidate
<1>3. ASSUME Resolve \/ Reopen \/ OtherWriter \/ UNCHANGED vars
      PROVE  UNCHANGED approval
  BY <1>3 DEF Resolve, Reopen, OtherWriter, vars
<1> QED BY <1>1, <1>2, <1>3, DecisionKinds, OutcomeKinds DEF Next, Operator, ApiStep

\* A plan comes apart only when its run is ended from outside or cleared.
LEMMA ApartKinds ==
  ASSUME Inv, [Next]_vars
  PROVE  \/ UNCHANGED apart
         \/ /\ UNCHANGED <<approval, mutations>>
            /\ \E p \in Plans : approval[p].exec # "not_started" /\ apart' = apart \cup {p}
<1>1. ASSUME NEW p \in Plans, FailRun(p) \/ MarkSuccess(p) \/ ClearRun(p)
      PROVE  \/ UNCHANGED apart
             \/ /\ UNCHANGED <<approval, mutations>>
                /\ approval[p].exec # "not_started" /\ apart' = apart \cup {p}
  <2>1. PlanGood(p, draft[p], approval[p], exe[p], api[p], run[p], pub[p], mutations[p],
                 incident.resolved, apart)
    BY PlanFacts
  <2>2. approval[p].exec # "not_started"
    BY <1>1, <2>1 DEF FailRun, MarkSuccess, ClearRun, PlanGood
  <2> QED BY <1>1, <2>2 DEF FailRun, MarkSuccess, ClearRun, EndedFor
<1>2. ASSUME NEW p \in Plans, Operator(p) \/ ApiStep(p) \/ ApiCrash(p) \/ Airflow(p) \/ Inspect(p)
      PROVE  UNCHANGED apart
  BY <1>2 DEF Operator, CollectFacts, Preview, PinRevision, StorePlan, Decide, Cancel, ApiStep,
     CreateExecution, ClaimTrigger, Trigger, RecordTrigger, ApiCrash, Airflow, PostLands, StartRun,
     EndRun, Inspect
<1>3. ASSUME NEW j \in Jobs, JobStep(j) \/ JobCrash(j)
      PROVE  UNCHANGED apart
  BY <1>3 DEF JobStep, JobCrash, ClaimRun, RefuseRun, EnterLock, Build, PipelineFails,
     BeginPublication, Mutate, CompletePublication, UndoPublication, LosePublication,
     LoseAcknowledgement, Revalidate, Finish
<1>4. ASSUME Reconcile \/ Resolve \/ Reopen \/ OtherWriter \/ UNCHANGED vars
      PROVE  UNCHANGED apart
  BY <1>4 DEF Reconcile, Resolve, Reopen, OtherWriter, vars
<1> QED BY <1>1, <1>2, <1>3, <1>4 DEF Next

Statuses == [p \in Plans |-> approval[p].status]
Execs    == [p \in Plans |-> approval[p].exec]
ActsOf   == [p \in Plans |-> {i \in {1} : mutations[p] > 0}]

\* Every step is a step of the abstract approval, or invisible there.
LEMMA StepMaps ==
  ASSUME Inv, [Next]_vars
  PROVE  [Abstract!Next]_(Abstract!abstractVars)
<1> USE DEF Abstract!abstractVars
<1>1. approval \in [Plans -> Approvals] /\ mutations \in [Plans -> Nat]
  BY Types DEF Inv
<1>2. CASE UNCHANGED <<approval, mutations, apart>>
  BY <1>2
<1>3. ASSUME NEW p \in Plans, NEW n \in Approvals, Writes(p, n), UNCHANGED apart
      PROVE  Abstract!Next
  <2>1. approval' = [approval EXCEPT ![p] = n] /\ mutations' = mutations
    BY <1>3 DEF Writes
  <2>2. /\ Statuses' = [Statuses EXCEPT ![p] = n.status]
        /\ Execs' = [Execs EXCEPT ![p] = n.exec] /\ ActsOf' = ActsOf
        /\ Statuses[p] = approval[p].status /\ Execs[p] = approval[p].exec
    BY <1>1, <2>1 DEF Statuses, Execs, ActsOf
  <2>3. Execs[p] = n.exec => Execs' = Execs
    BY <2>2 DEF Execs
  <2>4. Statuses[p] = n.status => Statuses' = Statuses
    BY <2>2 DEF Statuses
  <2>5. CASE Proposed(approval[p], n)
    <3>1. Abstract!Propose(p)
      BY <1>3, <2>2, <2>3, <2>5 DEF Proposed, Abstract!Propose, Statuses, Execs, ActsOf
    <3> QED BY <3>1 DEF Abstract!Next
  <2>6. CASE Decided(approval[p], n)
    <3>1. Abstract!Decide(p) \/ Abstract!Cancel(p)
      BY <1>3, <2>2, <2>3, <2>6 DEF Decided, Abstract!Decide, Abstract!Cancel, Statuses, Execs, ActsOf
    <3> QED BY <3>1 DEF Abstract!Next
  <2>7. CASE Advanced(approval[p], n)
    <3>1. Abstract!Claim(p) \/ Abstract!Report(p)
      BY <1>3, <2>2, <2>4, <2>7 DEF Advanced, Abstract!Claim, Abstract!Report, Abstract!Later,
         Abstract!Outcomes, Terminal, Statuses, Execs, ActsOf
    <3> QED BY <3>1 DEF Abstract!Next
  <2> QED BY <1>3, <2>5, <2>6, <2>7 DEF Writes
<1>4. ASSUME NEW p \in Plans,
             mutations' = [mutations EXCEPT ![p] = @ + 1], mutations[p] = 0,
             approval[p].status = "approved", UNCHANGED <<approval, apart>>,
             Allows(p, approval[p], apart)
      PROVE  Abstract!Next
  <2>1. /\ p \in Plans /\ mutations'[p] = 1 /\ mutations[p] = 0
        /\ \A q \in Plans \ {p} : mutations'[q] = mutations[q]
    BY <1>1, <1>4
  <2>2. /\ Statuses' = Statuses /\ Execs' = Execs
        /\ Statuses[p] = "approved"
        /\ Execs[p] \in InFlight \/ (p \in apart /\ Execs[p] = "failed")
    BY <1>4 DEF Statuses, Execs, Allows
  <2>3. 1 \notin ActsOf[p] /\ ActsOf' = [ActsOf EXCEPT ![p] = @ \cup {1}]
    <3>1. ActsOf[p] = {} /\ ActsOf'[p] = {1}
      BY <2>1 DEF ActsOf
    <3>2. \A q \in Plans \ {p} : ActsOf'[q] = ActsOf[q]
      BY <2>1 DEF ActsOf
    <3>3. ActsOf = [q \in Plans |-> ActsOf[q]] /\ ActsOf' = [q \in Plans |-> ActsOf'[q]]
      BY DEF ActsOf
    <3> DEFINE new == [ActsOf EXCEPT ![p] = @ \cup {1}]
    <3>4. new = [q \in Plans |-> IF q = p THEN ActsOf[q] \cup {1} ELSE ActsOf[q]]
      BY <3>3
    <3>5. ActsOf' = [q \in Plans |-> IF q = p THEN ActsOf[q] \cup {1} ELSE ActsOf[q]]
      BY <3>1, <3>2, <3>3
    <3> QED BY <3>1, <3>4, <3>5
  <2>4. Abstract!Act(p, 1)
    BY <1>4, <2>1, <2>2, <2>3 DEF Abstract!Act, Abstract!Claimed, InFlight, Statuses, Execs, ActsOf
  <2> QED BY <2>4 DEF Abstract!Next
<1>5. CASE UNCHANGED <<mutations, apart>>
  <2>1. UNCHANGED approval \/ \E p \in Plans, n \in Approvals : Writes(p, n)
    BY StepKinds
  <2> QED BY <1>2, <1>3, <1>5, <2>1
<1>6. CASE ~UNCHANGED mutations /\ UNCHANGED apart
  <2>1. PICK p \in Plans :
          /\ mutations' = [mutations EXCEPT ![p] = @ + 1] /\ mutations[p] = 0
          /\ approval[p].status = "approved" /\ UNCHANGED approval
          /\ Allows(p, approval[p], apart)
    BY <1>6, OnlyMutate
  <2>2. Abstract!Next
    BY <1>4, <1>6, <2>1
  <2> QED BY <2>2
<1>7. CASE ~UNCHANGED apart
  <2>1. PICK p \in Plans : /\ approval[p].exec # "not_started" /\ apart' = apart \cup {p}
                           /\ UNCHANGED <<approval, mutations>>
    BY <1>7, ApartKinds
  <2>2. Abstract!Escape(p)
    BY <2>1 DEF Abstract!Escape
  <2> QED BY <2>2 DEF Abstract!Next
<1> QED BY <1>5, <1>6, <1>7

\* Planning, dispatch, the runtime and the reconciler together implement SingleUseApproval,
\* also when processes outlive their runs and runs are cleared: the plan is claimed once and
\* never after a cancellation, the live tables are replaced at most once, between its claim and
\* its outcome or after a failure reported over the head of a process that came apart, and
\* a reported outcome is final unless it was "unknown".
THEOREM RecoveryIsSingleUse == Spec => ImplementsSingleUse
<1>1. Init => Abstract!Init
  <2> SUFFICES ASSUME Init PROVE Abstract!Init
    OBVIOUS
  <2>1. ASSUME NEW p \in Plans PROVE {i \in {1} : mutations[p] > 0} = {}
    <3>1. mutations[p] = 0
      BY DEF Init
    <3> QED BY <3>1
  <2>2. ActsOf = [p \in Plans |-> {}]
    BY <2>1 DEF ActsOf
  <2> QED BY <2>2 DEF Init, Abstract!Init, ActsOf
<1>2. Inv /\ [Next]_vars => [Abstract!Next]_(Abstract!abstractVars)
  BY StepMaps
<1> QED BY <1>1, <1>2, AlwaysInv, PTL DEF Spec, ImplementsSingleUse, Abstract!Spec
=============================================================================
