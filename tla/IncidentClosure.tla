--------------------------- MODULE IncidentClosure ---------------------------
(***************************************************************************)
(* Evidence-gated closure of one incident: revalidation requests, their      *)
(* dispatch to Airflow, the stages of the revalidation run, and the gate of   *)
(* confirm_resolution (agent/tools/incident_resolution.py).                   *)
(*                                                                           *)
(* Control transactions are serialised by the lifecycle lock and are single   *)
(* actions, except confirm_resolution: its transaction reads the warehouse,   *)
(* and pipelines write there without that lock. Everything between two        *)
(* transactions (the POST, the capture of evidence) is an action of its own.  *)
(***************************************************************************)
EXTENDS Integers, Sequences, FiniteSets

CONSTANTS
  Api,           \* concurrent API calls
  Keys,          \* idempotency keys of operators, for checks and for closures
  NoKey,         \* no closure in progress
  MaxRequests,   \* bound on revalidation requests
  MaxTime,       \* bound on the clock
  MaxData,       \* bound on the versions of the data
  MaxRevision,   \* bound on the revisions of the incident
  MaxContract,   \* bound on the versions of the contract
  Deadline,      \* lifetime of a request (15 minutes)
  Lifetime,      \* lifetime of evidence (10 minutes)
  Events         \* what an instance includes: uncertain "airflow" answers, an "api" or a
                 \* "task" process dying, an administrator's "clear" of a run, a
                 \* "remedy" and a "recheck" of the rule by the scheduled checks

ASSUME ClosureAssumption ==
  /\ NoKey \notin Keys
  /\ {MaxRequests, MaxTime, MaxData, MaxRevision, MaxContract, Deadline, Lifetime} \subseteq Nat
  /\ Deadline > 0 /\ Lifetime > 0
  /\ MaxTime > 0 /\ MaxData > 0 /\ MaxRevision > 0
  /\ Api \cap (1..MaxRequests) = {}
  /\ Events \subseteq {"airflow", "api", "task", "clear", "remedy", "recheck"}

VARIABLES
  now,        \* the clock
  incident,   \* the incident_controls row, with the time of its last closure
  requests,   \* the incident_revalidations rows in order of creation
  keys,       \* incident_revalidation_keys: key -> request (0: unused)
  decisions,  \* incident_resolution_decisions: key -> request (0: unused)
  call,       \* callers of get/create/dispatch_revalidation
  run,        \* request -> where its DagRun is
  worker,     \* request -> the process of its checks stage
  data,       \* the versions of the checked data: the contracts each one meets
  contract,   \* version of the approved contracts
  remedy,     \* the linked remediation approval
  lastFail,   \* run_at of the newest failing check result (0: none)
  gate,       \* the confirm_resolution holding the lifecycle lock, and what it read
  posts       \* request -> POSTs sent to Airflow

vars == <<now, incident, requests, keys, decisions, call, run, worker, data, contract,
          remedy, lastFail, gate, posts>>

Ids == 1..MaxRequests
Callers == Api \cup Ids          \* a DagRun's process is the caller named like its request
Latest == Len(requests)
Watermark == Len(data)

NoResult == [verdict |-> "none", data |-> 0, contract |-> 0, observed |-> 0]
Results == [verdict : {"none", "pass", "blocked"}, data : 0..MaxData,
            contract : 0..MaxContract, observed : 0..MaxTime]
NoCapture == [pc |-> "none", before |-> 0, contract |-> 0, observed |-> 0,
              ok |-> FALSE, finished |-> 0]
NoGate == [key |-> NoKey, data |-> 0, contract |-> 0]
Idle == [pc |-> "idle", request |-> 0, previous |-> "pending", answer |-> "none"]

RequestRows ==
  [status : {"queued", "running", "pass", "blocked", "error", "expired"},
   trigger : {"pending", "claimed", "unknown", "confirmed", "rejected", "absent"},
   revision : 1..MaxRevision, episode : 1..MaxRevision,
   created : 1..MaxTime, started : 0..MaxTime, finished : 0..MaxTime,
   contract : 0..MaxContract, claimed : BOOLEAN, result : Results]
CallRows ==
  [pc : {"idle", "dispatch", "trigger", "settle", "ready"}, request : 0..MaxRequests,
   previous : {"pending", "claimed", "unknown"},
   answer : {"none", "found", "not_found", "unknown", "unavailable"}]
Captures ==
  [pc : {"none", "begin", "read", "compare", "store", "over"}, before : 0..MaxData,
   contract : 0..MaxContract, observed : 0..MaxTime, ok : BOOLEAN, finished : 0..MaxTime]

\* The linked approval: by the alert_key in its scope or by the date alone, and whether
\* it was proposed while the incident was closed.
Remedies ==
  [state : {"none", "pending", "running", "finished"}, link : {"key", "date"},
   late : BOOLEAN, updated : 0..MaxTime]

TypeOK ==
  /\ now \in 1..MaxTime
  /\ incident \in [revision : 1..MaxRevision, episode : 1..MaxRevision,
                   status : {"open", "triaged", "resolved"}, resolvedAt : 0..MaxTime]
  /\ requests \in Seq(RequestRows) /\ Len(requests) <= MaxRequests
  /\ keys \in [Keys -> 0..MaxRequests] /\ decisions \in [Keys -> 0..MaxRequests]
  /\ call \in [Callers -> CallRows]
  /\ run \in [Ids -> {"none", "late", "load", "checks", "capture",
                     "persist", "notify", "done"}]
  /\ worker \in [Ids -> Captures]
  /\ data \in Seq(SUBSET (0..MaxContract)) /\ Len(data) \in 1..MaxData
  /\ contract \in 0..MaxContract
  /\ remedy \in Remedies
  /\ lastFail \in 0..MaxTime
  /\ gate \in [key : Keys \cup {NoKey}, data : 0..MaxData, contract : 0..MaxContract]
  /\ posts \in [Ids -> Nat]

Init ==
  /\ now = 1
  /\ incident = [revision |-> 1, episode |-> 1, status |-> "open", resolvedAt |-> 0]
  /\ requests = <<>>
  /\ keys = [k \in Keys |-> 0] /\ decisions = [k \in Keys |-> 0]
  /\ call = [c \in Callers |-> Idle]
  /\ run = [r \in Ids |-> "none"]
  /\ worker = [r \in Ids |-> NoCapture]
  /\ \E meets \in {{}, 0..MaxContract} : data = <<meets>>   \* still failing, or repaired
  /\ contract = 0
  /\ remedy = [state |-> "none", link |-> "key", late |-> FALSE, updated |-> 0]
  /\ lastFail = 0
  /\ gate = NoGate
  /\ posts = [r \in Ids |-> 0]

\* pg_advisory_xact_lock(LIFECYCLE_LOCK): a control transaction can run.
Unlocked == gate = NoGate

(***************************************************************************)
(* Remediation blockers and the expiry of requests.                         *)
(***************************************************************************)
Unfinished == remedy.state \in {"pending", "running"}
FinishedSince(t) == remedy.state = "finished" /\ remedy.updated > t

DeadlineOf(q) == q.created + Deadline

\* A queued request whose dispatch is uncertain is left to the dispatcher.
Overdue(q) ==
  /\ \/ q.status = "running"
     \/ q.status = "queued" /\ q.trigger \notin {"claimed", "unknown"}
  /\ now >= DeadlineOf(q)

Expire(q) == IF Overdue(q) THEN [q EXCEPT !.status = "expired"] ELSE q

(***************************************************************************)
(* create_revalidation, get_revalidation and dispatch_revalidation.          *)
(***************************************************************************)
\* An API call that has nothing more to do ends; a stage goes on with its body.
Return(c) == IF c \in Api THEN Idle ELSE [Idle EXCEPT !.pc = "ready"]

NewRequest ==
  [status |-> "queued", trigger |-> "pending",
   revision |-> incident.revision, episode |-> incident.episode,
   created |-> now, started |-> 0, finished |-> 0,
   contract |-> contract, claimed |-> FALSE, result |-> NoResult]

Active(q) == q.status \in {"queued", "running"}

\* An active request is shared by later keys.
CreateRevalidation(c, k) ==
  /\ Unlocked /\ call[c].pc = "idle"
  /\ \/ /\ keys[k] # 0                                    \* replay of a known key
        /\ UNCHANGED <<requests, keys>>
     \/ /\ keys[k] = 0
        /\ incident.status # "resolved" /\ ~Unfinished
        /\ LET old == [r \in DOMAIN requests |->
                         IF r = Latest THEN Expire(requests[r]) ELSE requests[r]]
           IN  IF Latest > 0 /\ Active(old[Latest])
               THEN requests' = old
               ELSE Latest < MaxRequests /\ requests' = Append(old, NewRequest)
        /\ keys' = [keys EXCEPT ![k] = Len(requests')]
  /\ call' = [call EXCEPT ![c] = [Idle EXCEPT !.pc = "dispatch", !.request = keys'[k]]]
  /\ UNCHANGED <<now, incident, decisions, run, worker, data, contract, remedy,
                 lastFail, gate, posts>>

\* get_revalidation: expire, and reconcile a dispatch whose outcome is uncertain.
Get(c, r) ==
  LET q == Expire(requests[r]) IN
  /\ requests' = [requests EXCEPT ![r] = q]
  /\ call' = [call EXCEPT ![c] =
                IF q.status = "queued" /\ q.trigger \in {"claimed", "unknown"}
                THEN [Idle EXCEPT !.pc = "dispatch", !.request = r] ELSE Return(c)]

GetRevalidation(c, r) ==
  /\ Unlocked /\ c \in Api /\ call[c].pc = "idle" /\ r \in DOMAIN requests
  /\ Get(c, r)
  /\ UNCHANGED <<now, incident, keys, decisions, run, worker, data, contract, remedy,
                 lastFail, gate, posts>>

\* The first transaction of dispatch_revalidation claims the intent.
ClaimDispatch(c) ==
  LET r == call[c].request
      q == requests[r] IN
  /\ Unlocked /\ call[c].pc = "dispatch"
  /\ IF q.status # "queued" \/ q.trigger = "confirmed"
     THEN /\ call' = [call EXCEPT ![c] = Return(c)]
          /\ UNCHANGED requests
     ELSE /\ call' = [call EXCEPT ![c].pc = "trigger",
                                  ![c].previous = q.trigger]
          /\ requests' = [requests EXCEPT ![r].trigger = "claimed"]
  /\ UNCHANGED <<now, incident, keys, decisions, run, worker, data, contract, remedy,
                 lastFail, gate, posts>>

Exists(r) == run[r] \notin {"none", "late"}

\* AirflowRevalidationClient.trigger with reconcile_only: look, never POST.
Reconcile(c) ==
  /\ call[c].pc = "trigger" /\ call[c].previous # "pending"
  /\ \E answer \in {IF Exists(call[c].request) THEN "found" ELSE "not_found", "unavailable"} :
       /\ answer = "unavailable" => "airflow" \in Events
       /\ call' = [call EXCEPT ![c].pc = "settle", ![c].answer = answer]
  /\ UNCHANGED <<now, incident, requests, keys, decisions, run, worker, data, contract,
                 remedy, lastFail, gate, posts>>

\* The same when Airflow answers.
ReconcileAnswered(c) ==
  Reconcile(c) /\ call'[c].answer # "unavailable"

\* trigger by the first dispatcher: the run exists; refused before or by the POST (unavailable), or
\* sent; a POST that was sent may have worked, may still arrive, or may be lost.
Post(c) ==
  LET r == call[c].request IN
  /\ call[c].pc = "trigger" /\ call[c].previous = "pending"
  /\ \E o \in IF Exists(r) THEN {<<"found", run[r], 0>>, <<"unavailable", run[r], 0>>}
               ELSE {<<"unavailable", run[r], 0>>, <<"unavailable", run[r], 1>>,
                     <<"found", "load", 1>>, <<"unknown", "load", 1>>,
                     <<"unknown", "late", 1>>, <<"unknown", run[r], 1>>} :
       /\ o[1] # "found" => "airflow" \in Events
       /\ call' = [call EXCEPT ![c].pc = "settle", ![c].answer = o[1]]
       /\ run' = [run EXCEPT ![r] = o[2]]
       /\ posts' = [posts EXCEPT ![r] = @ + o[3]]
  /\ UNCHANGED <<now, incident, requests, keys, decisions, worker, data, contract, remedy,
                 lastFail, gate>>

\* Mutant: the answer itself is recorded as the state of the dispatch.
SettledAnswer(q, previous, answer) == [q EXCEPT !.trigger = answer]

\* Mutant: an absent run never ends the request.
SettledNeverAbsent(q, previous, answer) ==
  IF q.trigger = "confirmed" /\ answer # "found" THEN q
  ELSE IF answer = "found" THEN [q EXCEPT !.trigger = "confirmed"]
  ELSE IF answer = "unavailable" /\ previous = "pending"
       THEN [q EXCEPT !.status = "error", !.trigger = "rejected"]
  ELSE [q EXCEPT !.trigger = "unknown"]

\* Mutant: a failed look-up makes the intent available again.
SettledRetry(q, previous, answer) ==
  IF q.trigger = "confirmed" /\ answer # "found" THEN q
  ELSE IF answer = "found" THEN [q EXCEPT !.trigger = "confirmed"]
  ELSE IF answer = "not_found" /\ now > DeadlineOf(q)
       THEN [q EXCEPT !.status = "expired", !.trigger = "absent"]
  ELSE IF answer = "unavailable" /\ previous = "pending"
       THEN [q EXCEPT !.status = "error", !.trigger = "rejected"]
  ELSE [q EXCEPT !.trigger = "pending"]

\* What the last transaction of dispatch_revalidation makes of the answer.
Settled(q, previous, answer) ==
  IF q.trigger = "confirmed" /\ answer # "found" THEN q
  ELSE IF answer = "found" THEN [q EXCEPT !.trigger = "confirmed"]
  ELSE IF answer = "not_found" /\ now > DeadlineOf(q)
       THEN [q EXCEPT !.status = "expired", !.trigger = "absent"]
  ELSE IF answer = "unavailable" /\ previous = "pending"
       THEN [q EXCEPT !.status = "error", !.trigger = "rejected"]
  ELSE [q EXCEPT !.trigger = "unknown"]

SettleDispatch(c) ==
  /\ Unlocked /\ call[c].pc = "settle"
  /\ requests' = [requests EXCEPT ![call[c].request] =
                    Settled(@, call[c].previous, call[c].answer)]
  /\ call' = [call EXCEPT ![c] = Return(c)]
  /\ UNCHANGED <<now, incident, keys, decisions, run, worker, data, contract, remedy,
                 lastFail, gate, posts>>

\* The API process dies in the middle of a call.
ApiDies(c) ==
  /\ "api" \in Events /\ c \in Api /\ call[c].pc # "idle"
  /\ call' = [call EXCEPT ![c] = Idle]
  /\ UNCHANGED <<now, incident, requests, keys, decisions, run, worker, data, contract,
                 remedy, lastFail, gate, posts>>

(***************************************************************************)
(* The stages of DAG 90_03. Each begins with get_revalidation.               *)
(***************************************************************************)
BeginStage(r) ==
  /\ Unlocked /\ call[r].pc = "idle"
  /\ run[r] \in {"load", "checks", "persist", "notify"}
  /\ Get(r, r)
  /\ UNCHANGED <<now, incident, keys, decisions, run, worker, data, contract, remedy,
                 lastFail, gate, posts>>

\* The rest of a stage: the next one, and its effect on the request.
Stage(r, at, next, q) ==
  /\ Unlocked /\ call[r].pc = "ready" /\ run[r] = at
  /\ call' = [call EXCEPT ![r] = Idle]
  /\ run' = [run EXCEPT ![r] = next]
  /\ requests' = [requests EXCEPT ![r] = q]
  /\ UNCHANGED <<now, incident, keys, decisions, data, contract, remedy, lastFail,
                 gate, posts>>

LoadStage(r) ==
  /\ Stage(r, "load", IF requests[r].status = "expired" THEN "notify" ELSE "checks",
           requests[r])
  /\ UNCHANGED worker

HasResult(q) == q.result # NoResult

\* Mutant: a repeated stage starts the check again.
MayStartAgain(q) == q.status \in {"queued", "running"}

\* "Pemeriksaan sudah dimulai; tidak diulang otomatis."
MayStart(q) == ~q.claimed /\ q.status = "queued"

\* The transaction of the checks stage: the result exists; the check was started
\* before (raise); the incident changed or the deadline passed; or claim it.
ChecksStage(r) ==
  LET q == requests[r]
      known   == q.status \in {"pass", "blocked"} \/ HasResult(q)
      refused == ~known /\ ~MayStart(q)
      late    == incident.revision # q.revision \/ now > DeadlineOf(q)
  IN  /\ r \in DOMAIN requests
      /\ \/ known /\ Stage(r, "checks", "persist", q) /\ UNCHANGED worker
         \/ refused /\ Stage(r, "checks", "notify", q) /\ UNCHANGED worker
         \/ /\ ~known /\ ~refused /\ late
            /\ Stage(r, "checks", "persist", [q EXCEPT !.status = "expired"])
            /\ UNCHANGED worker
         \/ /\ ~known /\ ~refused /\ ~late
            /\ Stage(r, "checks", "capture",
                     [q EXCEPT !.status = "running", !.claimed = TRUE, !.started = now])
            /\ worker' = [worker EXCEPT ![r] = [NoCapture EXCEPT !.pc = "begin"]]

\* capture_revalidation: contract and watermark first, then the rule, then both again.
CaptureBegin(r) ==
  /\ worker[r].pc = "begin"
  /\ worker' = [worker EXCEPT ![r].pc = "read", ![r].observed = now,
                              ![r].contract = contract, ![r].before = Watermark]
  /\ UNCHANGED <<now, incident, requests, keys, decisions, call, run, data, contract,
                 remedy, lastFail, gate, posts>>

CaptureRead(r) ==
  /\ worker[r].pc = "read"
  /\ worker' = [worker EXCEPT ![r].pc = "compare", ![r].ok = worker[r].contract \in data[Watermark]]
  /\ UNCHANGED <<now, incident, requests, keys, decisions, call, run, data, contract,
                 remedy, lastFail, gate, posts>>

\* Mutant: the watermark kept is the one after the check, and nothing is compared.
ComparedAfterwards(w) == [w EXCEPT !.before = Watermark]

\* A scope that changed during the check blocks.
Compared(w) == [w EXCEPT !.ok = @ /\ w.before = Watermark]

\* The results are inserted, so a blocked check is itself a newer failure.
CaptureCompare(r) ==
  LET w == Compared(worker[r]) IN
  /\ worker[r].pc = "compare"
  /\ worker' = [worker EXCEPT ![r] = [w EXCEPT !.pc = "store", !.finished = now]]
  /\ lastFail' = IF ~w.ok /\ w.observed > lastFail THEN w.observed ELSE lastFail
  /\ UNCHANGED <<now, incident, requests, keys, decisions, call, run, data, contract,
                 remedy, gate, posts>>

\* The task goes on when its process ends, unless it was killed before.
AfterWorker(r, next) == [run EXCEPT ![r] = IF @ = "capture" THEN next ELSE @]

\* This stage, like the next two, ends with another get_revalidation (Expire).
Stored(q, w) ==
  [q EXCEPT !.result = [verdict |-> IF w.ok THEN "pass" ELSE "blocked", data |-> w.before,
                        contract |-> w.contract, observed |-> w.observed],
            !.finished = w.finished,
            !.status = IF w.finished > DeadlineOf(q) THEN "expired" ELSE @]

StoreResult(r) ==
  /\ Unlocked /\ worker[r].pc = "store"
  /\ requests' = [requests EXCEPT ![r] = Expire(Stored(@, worker[r]))]
  /\ worker' = [worker EXCEPT ![r] = [NoCapture EXCEPT !.pc = "over"]]
  /\ run' = AfterWorker(r, "persist")
  /\ UNCHANGED <<now, incident, keys, decisions, call, data, contract, remedy, lastFail,
                 gate, posts>>

\* An exception of the capture or of its transaction ends the request.
CaptureFails(r) ==
  /\ "task" \in Events /\ Unlocked /\ worker[r].pc \in {"begin", "read", "compare", "store"}
  /\ requests' = [requests EXCEPT ![r].status = "error", ![r].finished = now]
  /\ worker' = [worker EXCEPT ![r] = [NoCapture EXCEPT !.pc = "over"]]
  /\ run' = AfterWorker(r, "notify")
  /\ UNCHANGED <<now, incident, keys, decisions, call, data, contract, remedy, lastFail,
                 gate, posts>>

WorkerDies(r) ==
  /\ "task" \in Events /\ worker[r].pc \in {"begin", "read", "compare", "store"}
  /\ worker' = [worker EXCEPT ![r] = [NoCapture EXCEPT !.pc = "over"]]
  /\ run' = AfterWorker(r, "notify")
  /\ UNCHANGED <<now, incident, requests, keys, decisions, call, data, contract, remedy,
                 lastFail, gate, posts>>

\* Mutant: a stored result decides, whatever became of the request meanwhile.
PersistedAlways(q) == IF HasResult(q) THEN [q EXCEPT !.status = q.result.verdict] ELSE q

Persisted(q) ==
  IF q.status = "running" /\ HasResult(q) THEN [q EXCEPT !.status = q.result.verdict] ELSE q

PersistStage(r) == Stage(r, "persist", "notify", Expire(Persisted(requests[r]))) /\ UNCHANGED worker

Notified(q) ==
  IF Active(q) /\ ~HasResult(q) THEN [q EXCEPT !.status = "error", !.finished = now] ELSE q

NotifyStage(r) == Stage(r, "notify", "done", Expire(Notified(requests[r]))) /\ UNCHANGED worker

\* execution_timeout, dagrun_timeout or a failing task: t40 has trigger_rule all_done.
\* The process of the checks stage is not stopped with its task.
TaskFails(r) ==
  /\ "task" \in Events /\ run[r] \in {"load", "checks", "capture", "persist", "notify"}
  /\ \E next \in {"notify", "done"} : next # run[r] /\ run' = [run EXCEPT ![r] = next]
  /\ call' = [call EXCEPT ![r] = Idle]
  /\ UNCHANGED <<now, incident, requests, keys, decisions, worker, data, contract, remedy,
                 lastFail, gate, posts>>

\* A POST whose sender gave up arrives; an administrator clears a run.
RunAppears(r) ==
  /\ run[r] = "late" \/ ("clear" \in Events /\ run[r] = "done")
  /\ run' = [run EXCEPT ![r] = "load"]
  /\ UNCHANGED <<now, incident, requests, keys, decisions, call, worker, data, contract,
                 remedy, lastFail, gate, posts>>

(***************************************************************************)
(* confirm_resolution, the lifecycle of the incident, and the world.         *)
(***************************************************************************)
\* resolution_preview reads the latest request with _latest_request.
ResolutionPreview ==
  /\ Unlocked /\ Latest > 0 /\ Overdue(requests[Latest])
  /\ requests' = [requests EXCEPT ![Latest] = Expire(@)]
  /\ UNCHANGED <<now, incident, keys, decisions, call, run, worker, data, contract,
                 remedy, lastFail, gate, posts>>

AtLeast(a, b) == IF a >= b THEN a ELSE b

\* validate_closure, with the blockers that confirm_resolution collects.
ValidClosure(q) ==
  /\ incident.status # "resolved" /\ q.revision = incident.revision
  /\ q.status = "pass" /\ q.result.verdict = "pass"
  /\ q.finished <= now /\ now < q.finished + Lifetime /\ q.finished <= DeadlineOf(q)
  /\ AtLeast(q.created, q.started) <= q.result.observed /\ q.result.observed <= q.finished
  /\ contract = q.contract /\ contract = q.result.contract
  /\ Watermark = q.result.data
  /\ ~Unfinished /\ ~FinishedSince(q.result.observed)
  /\ lastFail < q.result.observed

\* The transaction of confirm_resolution with a new key up to validate_closure ...
ConfirmGate(k) ==
  /\ Unlocked /\ decisions[k] = 0 /\ Latest > 0
  /\ ValidClosure(requests[Latest])
  /\ gate' = [key |-> k, data |-> Watermark, contract |-> contract]
  /\ UNCHANGED <<now, incident, requests, keys, decisions, call, run, worker, data,
                 contract, remedy, lastFail, posts>>

\* ... and its commit.
CommitClosure ==
  /\ ~Unlocked /\ incident.revision < MaxRevision
  /\ incident' = [incident EXCEPT !.revision = @ + 1, !.status = "resolved",
                                  !.resolvedAt = now]
  /\ decisions' = [decisions EXCEPT ![gate.key] = Latest]
  /\ gate' = NoGate
  /\ UNCHANGED <<now, requests, keys, call, run, worker, data, contract, remedy,
                 lastFail, posts>>

RollbackClosure ==
  /\ ~Unlocked /\ gate' = NoGate
  /\ UNCHANGED <<now, incident, requests, keys, decisions, call, run, worker, data,
                 contract, remedy, lastFail, posts>>

\* transition_triaged with a new report: a late one leaves a closed incident closed.
Triage ==
  /\ Unlocked /\ incident.revision < MaxRevision
  /\ incident' = [incident EXCEPT !.revision = @ + 1,
                     !.status = IF @ = "resolved" THEN @ ELSE "triaged"]
  /\ UNCHANGED <<now, requests, keys, decisions, call, run, worker, data, contract,
                 remedy, lastFail, gate, posts>>

\* publish_candidates on a closed incident.
Reopen ==
  /\ Unlocked /\ incident.revision < MaxRevision
  /\ incident.status = "resolved" /\ lastFail > incident.resolvedAt
  /\ incident' = [incident EXCEPT !.revision = @ + 1, !.episode = @ + 1, !.status = "open"]
  /\ UNCHANGED <<now, requests, keys, decisions, call, run, worker, data, contract,
                 remedy, lastFail, gate, posts>>

\* A pipeline or a remediation writes the data without the lifecycle lock.
PipelineWrite ==
  /\ Watermark < MaxData
  /\ \E meets \in SUBSET (0..MaxContract) : data' = Append(data, meets)
  /\ UNCHANGED <<now, incident, requests, keys, decisions, call, run, worker, contract,
                 remedy, lastFail, gate, posts>>

\* The next scheduled check inserts a failing result.
ScheduledCheck ==
  /\ "recheck" \in Events /\ contract \notin data[Watermark] /\ lastFail # now
  /\ lastFail' = now
  /\ UNCHANGED <<now, incident, requests, keys, decisions, call, run, worker, data,
                 contract, remedy, gate, posts>>

ChangeContract ==
  /\ contract < MaxContract
  /\ contract' = contract + 1
  /\ UNCHANGED <<now, incident, requests, keys, decisions, call, run, worker, data,
                 remedy, lastFail, gate, posts>>

\* Mutant: a remediation may be proposed for a closed incident.
MayProposeAlways(link) == TRUE

\* _incident_open looks for the incident by the alert_key in the scope; a request for a
\* date, which remediation_blockers count as well, passes.
MayPropose(link) == link = "key" => incident.status # "resolved"

\* The linked remediation approval: every move of it takes the lifecycle lock.
MoveRemedy ==
  /\ "remedy" \in Events /\ Unlocked
  /\ \/ /\ remedy.state = "none"
        /\ \E link \in {"key", "date"} :
             /\ MayPropose(link)
             /\ remedy' = [remedy EXCEPT !.state = "pending", !.link = link,
                                         !.late = (incident.status = "resolved")]
     \/ remedy.state = "pending" /\ remedy' = [remedy EXCEPT !.state = "none"]
     \/ remedy.state = "pending" /\ remedy' = [remedy EXCEPT !.state = "running"]
     \/ remedy.state = "running" /\ remedy' = [remedy EXCEPT !.state = "finished", !.updated = now]
  /\ UNCHANGED <<now, incident, requests, keys, decisions, call, run, worker, data,
                 contract, lastFail, gate, posts>>

Tick ==
  /\ now < MaxTime /\ now' = now + 1
  /\ UNCHANGED <<incident, requests, keys, decisions, call, run, worker, data, contract,
                 remedy, lastFail, gate, posts>>

ApiStep(c) ==
  \/ \E k \in Keys : CreateRevalidation(c, k)
  \/ \E r \in Ids : GetRevalidation(c, r)
  \/ ApiDies(c)

DispatchStep(c) == ClaimDispatch(c) \/ Reconcile(c) \/ Post(c) \/ SettleDispatch(c)

RunStep(r) ==
  \/ BeginStage(r) \/ LoadStage(r) \/ ChecksStage(r) \/ PersistStage(r) \/ NotifyStage(r)
  \/ CaptureBegin(r) \/ CaptureRead(r) \/ CaptureCompare(r) \/ StoreResult(r)
  \/ CaptureFails(r) \/ WorkerDies(r) \/ TaskFails(r) \/ RunAppears(r)

Next ==
  \/ \E c \in Api : ApiStep(c)
  \/ \E c \in Callers : DispatchStep(c)
  \/ \E r \in Ids : RunStep(r)
  \/ ResolutionPreview
  \/ \E k \in Keys : ConfirmGate(k)
  \/ CommitClosure \/ RollbackClosure
  \/ Triage \/ Reopen
  \/ PipelineWrite \/ ScheduledCheck \/ ChangeContract \/ MoveRemedy
  \/ Tick

Spec == Init /\ [][Next]_vars

\* Somebody keeps asking for the state of a request, a dispatch in progress goes on,
\* and Airflow answers now and then; nothing is assumed of the DagRun.
Fairness ==
  /\ WF_vars(Tick)
  /\ WF_vars(CommitClosure \/ RollbackClosure)
  /\ \A c \in Api :
       /\ \A r \in Ids : SF_vars(GetRevalidation(c, r))
       /\ SF_vars(ClaimDispatch(c)) /\ SF_vars(Post(c)) /\ SF_vars(ReconcileAnswered(c))
       /\ SF_vars(SettleDispatch(c))
       /\ SF_vars(SettleDispatch(c) /\ call[c].answer # "unavailable")

FairSpec == Spec /\ Fairness

(***************************************************************************)
(* Properties.                                                               *)
(***************************************************************************)
\* An incident is only closed on proof about its current episode, and the data that the
\* confirmation found in the warehouse met the contract in force then
\* (confirm_resolution, validate_closure and capture_revalidation together).
ClosedOnProof ==
  [][incident.status # "resolved" /\ incident'.status = "resolved" =>
       /\ gate.contract \in data[gate.data]
       /\ requests[Latest].episode = incident.episode]_vars

\* A closure leaves no linked remediation waiting or under way, and none that names a closed
\* incident starts: the blockers of confirm_resolution and _incident_open exclude each other
\* under the lifecycle lock. What is under way was proposed for the date, after the closure.
ClosedIsQuiet ==
  incident.status = "resolved" /\ Unfinished => remedy.link = "date" /\ remedy.late

\* What a call, a key, a run or a process names is a request that exists, and a process
\* of the checks stage belongs to a request it has claimed.
NamesExist ==
  /\ \A k \in Keys : keys[k] \in 0..Latest
  /\ \A c \in Callers :
       call[c].pc \in {"dispatch", "trigger", "settle"} => call[c].request \in 1..Latest
  /\ \A r \in Ids :
       /\ run[r] # "none" => r \in 1..Latest
       /\ worker[r].pc # "none" => r \in 1..Latest /\ requests[r].claimed

\* A request is about an episode the incident was in; one whose dispatch was given up has
\* ended; and a stored "pass" is about a version of the data that meets its contract.
RequestIsSound(q) ==
  /\ q.revision <= incident.revision
  /\ q.revision = incident.revision => q.episode = incident.episode
  /\ q.trigger \in {"rejected", "absent"} => ~Active(q)
  /\ q.result.verdict = "none" => ~HasResult(q)
  /\ q.result.verdict = "pass" =>
       q.result.data \in 1..Watermark /\ q.result.contract \in data[q.result.data]
RequestsAreSound == \A r \in 1..Latest : RequestIsSound(requests[r])

\* What the process of the checks stage holds: a version it saw, and after the rule was
\* read a verdict that counts for that version unless a newer one has appeared.
CaptureIsSound(w) ==
  /\ w.pc \in {"read", "compare", "store"} => w.before \in 1..Watermark
  /\ w.pc = "compare" /\ w.ok /\ w.before = Watermark => w.contract \in data[w.before]
  /\ w.pc = "store" /\ w.ok => w.contract \in data[w.before]
CapturesAreSound == \A r \in Ids : CaptureIsSound(worker[r])

\* While confirm_resolution holds the lifecycle lock, what it read stays proved.
GateIsProved ==
  ~Unlocked =>
    /\ ~Unfinished
    /\ gate.data \in 1..Watermark /\ gate.contract \in data[gate.data]
    /\ Latest > 0 /\ requests[Latest].episode = incident.episode

\* The state of a closed incident, and what makes its closure a proof.
ClosureInv ==
  /\ TypeOK /\ incident.episode <= incident.revision
  /\ ClosedIsQuiet /\ NamesExist /\ RequestsAreSound /\ CapturesAreSound /\ GateIsProved

\* A request that ended never becomes usable: results of a slow check, late dispatch
\* answers and cleared runs may only turn it into error or expired.
NoRevival ==
  \A r \in DOMAIN requests :
    ~Active(requests[r]) =>
      \/ requests'[r].status = requests[r].status
      \/ requests'[r].status \in {"error", "expired"}

\* The call that may send the POST of a request: it found the intent unclaimed.
MayPost(c, r) ==
  call[c].pc = "trigger" /\ call[c].previous = "pending" /\ call[c].request = r

\* At most one call may send the POST of a request, its intent is claimed by then, and
\* once the POST was sent none may.
IntentIsClaimed ==
  \A r \in Ids :
    /\ posts[r] > 0 => r \in 1..Latest /\ requests[r].trigger # "pending"
    /\ \A c \in Callers : MayPost(c, r) =>
         /\ requests[r].trigger # "pending" /\ posts[r] = 0
         /\ \A d \in Callers : MayPost(d, r) => d = c

\* Airflow is asked at most once to start the run of a request, whatever is replayed,
\* polled or killed ("Claim the durable dispatch intent once; replay reconciles
\* instead of POSTing").
PostedOnce == IntentIsClaimed /\ \A r \in Ids : posts[r] <= 1

\* The check of a request is started at most once, also when its run is cleared or its
\* first process outlives its task ("Pemeriksaan sudah dimulai; tidak diulang otomatis.").
CheckedOnce ==
  \A r \in Ids : worker[r].pc # "none" => worker'[r].pc # "begin" \/ worker'[r] = worker[r]

\* Nothing that arrives late for a request has an effect: neither a result nor a restart.
LateIsIgnored == [][NoRevival /\ CheckedOnce]_vars

\* Every request ends, whatever happens to its POST, its run and its process, as long
\* as somebody asks for it: the deadline and the reconciliation see to it.
RequestSettles ==
  \A r \in Ids :
    (r \in DOMAIN requests /\ Active(requests[r]) /\ DeadlineOf(requests[r]) < MaxTime)
      ~> (r \in DOMAIN requests /\ ~Active(requests[r]))
=============================================================================
