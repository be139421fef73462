------------------------- MODULE IncidentClosureProofs -------------------------
(***************************************************************************)
(* Theorems about IncidentClosure, for every number of callers, keys,       *)
(* requests, contracts and versions of the data.                            *)
(***************************************************************************)
EXTENDS IncidentClosure, SequenceTheorems, TLAPS

----------------------------------------------------------------------------
(* The inductive invariant, by the parts of the state it is about.          *)

RowsPart ==
  requests \in Seq(RequestRows) /\ Latest <= MaxRequests /\ RequestsAreSound
KeysPart ==
  /\ keys \in [Keys -> 0..MaxRequests] /\ decisions \in [Keys -> 0..MaxRequests]
  /\ \A k \in Keys : keys[k] \in 0..Latest
CallsPart ==
  /\ call \in [Callers -> CallRows]
  /\ \A c \in Callers :
       call[c].pc \in {"dispatch", "trigger", "settle"} => call[c].request \in 1..Latest
PostsPart == posts \in [Ids -> Nat] /\ PostedOnce
RunsPart ==
  /\ run \in [Ids -> {"none", "late", "load", "checks", "capture", "persist", "notify", "done"}]
  /\ \A r \in Ids : run[r] # "none" => r \in 1..Latest
WorkersPart ==
  /\ worker \in [Ids -> Captures] /\ CapturesAreSound
  /\ \A r \in Ids : worker[r].pc # "none" => r \in 1..Latest /\ requests[r].claimed
DataPart == data \in Seq(SUBSET (0..MaxContract)) /\ Watermark \in 1..MaxData
WorldPart ==
  /\ now \in 1..MaxTime /\ contract \in 0..MaxContract /\ lastFail \in 0..MaxTime
  /\ incident \in [revision : 1..MaxRevision, episode : 1..MaxRevision,
                   status : {"open", "triaged", "resolved"}, resolvedAt : 0..MaxTime]
  /\ incident.episode <= incident.revision
  /\ remedy \in Remedies
  /\ gate \in [key : Keys \cup {NoKey}, data : 0..MaxData, contract : 0..MaxContract]
  /\ ClosedIsQuiet /\ GateIsProved

Inv ==
  /\ RowsPart /\ KeysPart /\ CallsPart /\ PostsPart
  /\ RunsPart /\ WorkersPart /\ DataPart /\ WorldPart

\* The parts are the two invariants of the module.
LEMMA InvIs == Inv <=> ClosureInv /\ PostedOnce
BY DEF Inv, RowsPart, KeysPart, CallsPart, PostsPart, RunsPart, WorkersPart, DataPart, WorldPart,
       ClosureInv, TypeOK, NamesExist, Latest, Watermark

----------------------------------------------------------------------------
(* How a step may change the rows of the requests.                          *)

\* What no step undoes in a row: a claimed intent, a started check, an end.
Evolves(p, q) ==
  /\ p.trigger # "pending" => q.trigger # "pending"
  /\ p.claimed => q.claimed
  /\ ~Active(p) => q.status = p.status \/ q.status \in {"error", "expired"}
  /\ q.episode = p.episode

\* The rows after a step: still sound, none lost, each one evolved.
RowsKept ==
  /\ RowsPart' /\ Latest \in Nat /\ Latest' \in Nat /\ Latest <= Latest'
  /\ \A r \in 1..Latest : Evolves(requests[r], requests'[r])

\* A step that leaves the rows, the incident and the data alone keeps the rows.
LEMMA RowsSame ==
  ASSUME Inv, UNCHANGED <<requests, incident, data>>
  PROVE  RowsKept
BY DEF Inv, RowsPart, RowsKept, Evolves, Latest, Watermark, RequestsAreSound, RequestIsSound

\* A step that replaces one row by a sound one that has evolved from it keeps the rows.
LEMMA RowReplaced ==
  ASSUME Inv, UNCHANGED <<incident, data>>, NEW r \in 1..Latest, NEW q \in RequestRows,
         RequestIsSound(q), Evolves(requests[r], q), requests' = [requests EXCEPT ![r] = q]
  PROVE  RowsKept /\ Latest' = Latest /\ requests'[r] = q
<1>1. requests \in Seq(RequestRows)
  BY DEF Inv, RowsPart
<1>2. /\ requests' \in Seq(RequestRows) /\ Latest' = Latest
      /\ \A j \in 1..Latest : requests'[j] = IF j = r THEN q ELSE requests[j]
  BY <1>1, ExceptSeq DEF Latest
<1>3. \A j \in 1..Latest : RequestIsSound(requests'[j])
  BY <1>2 DEF Inv, RowsPart, RequestsAreSound
<1>4. RequestsAreSound'
  BY <1>2, <1>3 DEF RequestsAreSound, RequestIsSound, Watermark
<1>5. \A j \in 1..Latest : Evolves(requests[j], requests'[j])
  BY <1>2 DEF Evolves
<1>6. Latest \in Nat
  BY <1>1 DEF Latest
<1> QED BY <1>2, <1>4, <1>5, <1>6 DEF RowsKept, RowsPart, Inv

\* q may take the place of p.
Follows(p, q) == q \in RequestRows /\ RequestIsSound(q) /\ Evolves(p, q)

\* A row may stay as it is, and changes may follow each other.
LEMMA FollowsSelf ==
  ASSUME NEW q \in RequestRows, RequestIsSound(q)
  PROVE  Follows(q, q)
BY DEF Follows, Evolves

LEMMA FollowsTrans ==
  ASSUME NEW p, NEW q, NEW u, Follows(p, q), Follows(q, u)
  PROVE  Follows(p, u)
BY DEF Follows, Evolves, Active

\* A request may end in error or expire at any time.
LEMMA RowEnds ==
  ASSUME NEW q \in RequestRows, RequestIsSound(q), NEW e \in {"error", "expired"}
  PROVE  Follows(q, [q EXCEPT !.status = e])
<1> DEFINE u == [q EXCEPT !.status = e]
<1>1. u \in RequestRows /\ u.status = e
  BY DEF RequestRows
<1>2. /\ u.trigger = q.trigger /\ u.revision = q.revision /\ u.episode = q.episode
      /\ u.claimed = q.claimed /\ u.result = q.result
  BY DEF RequestRows
<1> HIDE DEF u
<1>3. RequestIsSound(u)
  BY <1>1, <1>2 DEF RequestIsSound, HasResult, Active
<1>4. Evolves(q, u)
  BY <1>1, <1>2 DEF Evolves
<1> QED BY <1>1, <1>3, <1>4 DEF Follows, u

LEMMA RowExpires ==
  ASSUME NEW q \in RequestRows, RequestIsSound(q)
  PROVE  Follows(q, Expire(q))
BY RowEnds, FollowsSelf DEF Expire

\* The time a request ended is recorded with its end.
LEMMA RowFinishes ==
  ASSUME NEW q \in RequestRows, RequestIsSound(q), NEW e \in {"error", "expired"},
         NEW t \in 0..MaxTime
  PROVE  Follows(q, [q EXCEPT !.status = e, !.finished = t])
<1> DEFINE u == [q EXCEPT !.status = e, !.finished = t]
<1>1. u \in RequestRows /\ u.status = e
  BY DEF RequestRows
<1>2. /\ u.trigger = q.trigger /\ u.revision = q.revision /\ u.episode = q.episode
      /\ u.claimed = q.claimed /\ u.result = q.result
  BY DEF RequestRows
<1> HIDE DEF u
<1>3. RequestIsSound(u)
  BY <1>1, <1>2 DEF RequestIsSound, HasResult, Active
<1>4. Evolves(q, u)
  BY <1>1, <1>2 DEF Evolves
<1> QED BY <1>1, <1>3, <1>4 DEF Follows, u

\* The state of the dispatch may change to one that claims the intent; to one that gives
\* it up only with the end of the request.
LEMMA RowTriggers ==
  ASSUME NEW q \in RequestRows, RequestIsSound(q),
         NEW t \in {"claimed", "unknown", "confirmed"}
  PROVE  Follows(q, [q EXCEPT !.trigger = t])
<1> DEFINE u == [q EXCEPT !.trigger = t]
<1>1. u \in RequestRows /\ u.trigger = t
  BY DEF RequestRows
<1>2. /\ u.status = q.status /\ u.revision = q.revision /\ u.episode = q.episode
      /\ u.claimed = q.claimed /\ u.result = q.result
  BY DEF RequestRows
<1> HIDE DEF u
<1>3. RequestIsSound(u)
  BY <1>1, <1>2 DEF RequestIsSound, HasResult, Active
<1>4. Evolves(q, u)
  BY <1>1, <1>2 DEF Evolves
<1> QED BY <1>1, <1>3, <1>4 DEF Follows, u

LEMMA RowGivenUp ==
  ASSUME NEW q \in RequestRows, RequestIsSound(q),
         NEW e \in {"error", "expired"}, NEW t \in {"rejected", "absent"}
  PROVE  Follows(q, [q EXCEPT !.status = e, !.trigger = t])
<1> DEFINE u == [q EXCEPT !.status = e, !.trigger = t]
<1>1. u \in RequestRows /\ u.trigger = t /\ u.status = e
  BY DEF RequestRows
<1>2. /\ u.revision = q.revision /\ u.episode = q.episode
      /\ u.claimed = q.claimed /\ u.result = q.result
  BY DEF RequestRows
<1> HIDE DEF u
<1>3. RequestIsSound(u)
  BY <1>1, <1>2 DEF RequestIsSound, HasResult, Active
<1>4. Evolves(q, u)
  BY <1>1, <1>2 DEF Evolves
<1> QED BY <1>1, <1>3, <1>4 DEF Follows, u

LEMMA RowSettles ==
  ASSUME NEW q \in RequestRows, RequestIsSound(q), NEW previous, NEW answer
  PROVE  Follows(q, Settled(q, previous, answer))
BY FollowsSelf, RowTriggers, RowGivenUp DEF Settled

\* The check of a queued request may start.
LEMMA RowStarts ==
  ASSUME NEW q \in RequestRows, RequestIsSound(q), MayStart(q), NEW t \in 0..MaxTime
  PROVE  LET u == [q EXCEPT !.status = "running", !.claimed = TRUE, !.started = t] IN
         Follows(q, u) /\ u.claimed
<1> DEFINE u == [q EXCEPT !.status = "running", !.claimed = TRUE, !.started = t]
<1>1. u \in RequestRows /\ u.status = "running" /\ u.claimed = TRUE
  BY DEF RequestRows
<1>2. /\ u.revision = q.revision /\ u.episode = q.episode
      /\ u.trigger = q.trigger /\ u.result = q.result /\ q.status = "queued"
  BY DEF RequestRows, MayStart
<1> HIDE DEF u
<1>3. RequestIsSound(u)
  BY <1>1, <1>2 DEF RequestIsSound, HasResult, Active
<1>4. Evolves(q, u)
  BY <1>1, <1>2 DEF Evolves, Active
<1>5. Follows(q, u) /\ u.claimed
  BY <1>1, <1>3, <1>4 DEF Follows
<1> QED BY <1>5 DEF u

\* A result may be stored when it is that of a sound capture.
LEMMA RowStores ==
  ASSUME DataPart, NEW q \in RequestRows, RequestIsSound(q), NEW w \in Captures, w.pc = "store",
         CaptureIsSound(w)
  PROVE  Follows(q, Stored(q, w))
<1> DEFINE v == [verdict |-> IF w.ok THEN "pass" ELSE "blocked", data |-> w.before,
                 contract |-> w.contract, observed |-> w.observed]
           s == IF w.finished > DeadlineOf(q) THEN "expired" ELSE q.status
           u == Stored(q, w)
<1>1. v \in Results /\ v.verdict # "none" /\ v # NoResult
  BY DEF Results, Captures, NoResult
<1>2. v.verdict = "pass" => v.data \in 1..Watermark /\ v.contract \in data[v.data]
  BY DEF CaptureIsSound, Captures
<1>3. u = [q EXCEPT !.result = v, !.finished = w.finished, !.status = s]
  BY DEF Stored
<1>4. s = q.status \/ s = "expired"
  OBVIOUS
<1>5. w.finished \in 0..MaxTime
  BY DEF Captures
<1> HIDE DEF v, s, u
<1>6. u \in RequestRows /\ u.result = v /\ u.status = s
  BY <1>1, <1>3, <1>4, <1>5 DEF RequestRows
<1>7. /\ u.revision = q.revision /\ u.episode = q.episode
      /\ u.claimed = q.claimed /\ u.trigger = q.trigger
  BY <1>3 DEF RequestRows
<1>8. RequestIsSound(u)
  BY <1>1, <1>2, <1>4, <1>6, <1>7 DEF RequestIsSound, HasResult, Active
<1>9. Evolves(q, u)
  BY <1>4, <1>6, <1>7 DEF Evolves
<1> QED BY <1>6, <1>8, <1>9 DEF Follows, u

\* The verdict of a stored result may become the state of a running request.
LEMMA RowPersists ==
  ASSUME NEW q \in RequestRows, RequestIsSound(q)
  PROVE  Follows(q, Persisted(q))
<1>1. CASE ~(q.status = "running" /\ HasResult(q))
  BY <1>1, FollowsSelf DEF Persisted
<1>2. CASE q.status = "running" /\ HasResult(q)
  <2> DEFINE s == q.result.verdict
             u == [q EXCEPT !.status = s]
  <2>1. s \in {"pass", "blocked"}
    BY <1>2 DEF RequestIsSound, RequestRows, Results
  <2> HIDE DEF s
  <2>2. u \in RequestRows /\ u.status = s
    BY <2>1 DEF RequestRows
  <2>3. /\ u.revision = q.revision /\ u.episode = q.episode
        /\ u.claimed = q.claimed /\ u.trigger = q.trigger /\ u.result = q.result
    BY DEF RequestRows
  <2>4. Persisted(q) = u
    BY <1>2 DEF Persisted, s
  <2> HIDE DEF u
  <2>5. RequestIsSound(u)
    BY <2>1, <2>2, <2>3 DEF RequestIsSound, HasResult, Active
  <2>6. Evolves(q, u)
    BY <1>2, <2>2, <2>3 DEF Evolves, Active
  <2> QED BY <2>2, <2>4, <2>5, <2>6 DEF Follows
<1> QED BY <1>1, <1>2

LEMMA RowNotifies ==
  ASSUME WorldPart, NEW q \in RequestRows, RequestIsSound(q)
  PROVE  Follows(q, Notified(q))
<1>1. now \in 0..MaxTime
  BY DEF WorldPart
<1> QED BY <1>1, FollowsSelf, RowFinishes DEF Notified

----------------------------------------------------------------------------
(* The other parts, under a step that keeps the rows.                        *)

\* A call that goes on without the right to POST.
LEMMA CallMoves ==
  ASSUME Inv, RowsKept, NEW c \in Callers, NEW x \in CallRows,
         x.pc \in {"dispatch", "settle"} \/ (x.pc = "trigger" /\ x.previous # "pending")
           => x.request \in 1..Latest',
         x.pc = "trigger" => x.previous # "pending",
         call' = [call EXCEPT ![c] = x], UNCHANGED posts
  PROVE  CallsPart' /\ PostsPart'
<1>1. /\ call' \in [Callers -> CallRows]
      /\ \A d \in Callers : call'[d] = IF d = c THEN x ELSE call[d]
  BY DEF Inv, CallsPart
<1>2. \A i \in 1..Latest : i \in 1..Latest'
  BY DEF RowsKept
<1>3. CallsPart'
  BY <1>1, <1>2 DEF Inv, CallsPart
<1>4. \A d \in Callers, r \in Ids : MayPost(d, r)' => MayPost(d, r)
  BY <1>1 DEF MayPost
<1>5. \A d \in Callers, r \in Ids : MayPost(d, r) => r \in 1..Latest
  BY DEF MayPost, Inv, CallsPart
<1>6. \A r \in Ids : posts[r] > 0 => r \in 1..Latest' /\ requests'[r].trigger # "pending"
  BY <1>2 DEF Inv, PostsPart, PostedOnce, IntentIsClaimed, RowsKept, Evolves
<1>7. \A r \in Ids, d \in Callers : MayPost(d, r)' =>
        /\ requests'[r].trigger # "pending" /\ posts[r] = 0
        /\ \A e \in Callers : MayPost(e, r)' => e = d
  BY <1>4, <1>5 DEF Inv, PostsPart, PostedOnce, IntentIsClaimed, RowsKept, Evolves
<1> QED BY <1>3, <1>6, <1>7 DEF Inv, PostsPart, PostedOnce, IntentIsClaimed

\* A step that leaves the calls and the POSTs alone.
LEMMA CallsSame ==
  ASSUME Inv, RowsKept, UNCHANGED <<call, posts>>
  PROVE  CallsPart' /\ PostsPart'
<1>1. \A i \in 1..Latest : i \in 1..Latest'
  BY DEF RowsKept
<1>2. CallsPart'
  BY <1>1 DEF Inv, CallsPart
<1>3. \A d \in Callers, r \in Ids : MayPost(d, r)' <=> MayPost(d, r)
  BY DEF MayPost
<1>4. \A d \in Callers, r \in Ids : MayPost(d, r) => r \in 1..Latest
  BY DEF MayPost, Inv, CallsPart
<1>5. \A r \in Ids : posts[r] > 0 => r \in 1..Latest' /\ requests'[r].trigger # "pending"
  BY <1>1 DEF Inv, PostsPart, PostedOnce, IntentIsClaimed, RowsKept, Evolves
<1>6. \A r \in Ids, d \in Callers : MayPost(d, r)' =>
        /\ requests'[r].trigger # "pending" /\ posts[r] = 0
        /\ \A e \in Callers : MayPost(e, r)' => e = d
  BY <1>3, <1>4 DEF Inv, PostsPart, PostedOnce, IntentIsClaimed, RowsKept, Evolves
<1> QED BY <1>2, <1>5, <1>6 DEF Inv, PostsPart, PostedOnce, IntentIsClaimed

\* The keys of requests.
LEMMA KeysSame ==
  ASSUME Inv, RowsKept, UNCHANGED <<keys, decisions>>
  PROVE  KeysPart'
<1>1. \A i \in 0..Latest : i \in 0..Latest'
  BY DEF RowsKept
<1> QED BY <1>1 DEF Inv, KeysPart

\* The run of a request that exists goes on, or no run does.
LEMMA RunsMove ==
  ASSUME Inv, RowsKept,
         \/ UNCHANGED run
         \/ \E r \in 1..Latest :
              \E x \in {"none", "late", "load", "checks", "capture", "persist", "notify", "done"} :
                run' = [run EXCEPT ![r] = x]
  PROVE  RunsPart'
<1>1. \A i \in 1..Latest : i \in 1..Latest'
  BY DEF RowsKept
<1>2. CASE UNCHANGED run
  BY <1>1, <1>2 DEF Inv, RunsPart
<1>3. CASE ~UNCHANGED run
  <2>1. PICK r \in 1..Latest,
             x \in {"none", "late", "load", "checks", "capture", "persist", "notify", "done"} :
          run' = [run EXCEPT ![r] = x]
    BY <1>3
  <2> QED BY <1>1, <2>1 DEF Inv, RunsPart
<1> QED BY <1>2, <1>3

\* The process of a check goes on, or none does.
LEMMA WorkersMove ==
  ASSUME Inv, RowsKept, UNCHANGED data,
         \/ UNCHANGED worker
         \/ \E r \in 1..Latest, w \in Captures :
              /\ worker' = [worker EXCEPT ![r] = w]
              /\ CaptureIsSound(w)
              /\ w.pc # "none" => requests'[r].claimed
  PROVE  WorkersPart'
<1>1. \A i \in 1..Latest : i \in 1..Latest' /\ (requests[i].claimed => requests'[i].claimed)
  BY DEF RowsKept, Evolves
<1>3. CASE UNCHANGED worker
  BY <1>1, <1>3 DEF Inv, WorkersPart, CapturesAreSound, CaptureIsSound, Watermark
<1>4. CASE ~UNCHANGED worker
  <2>1. PICK r \in 1..Latest, w \in Captures :
          /\ worker' = [worker EXCEPT ![r] = w] /\ CaptureIsSound(w)
          /\ w.pc # "none" => requests'[r].claimed
    BY <1>4
  <2>2. /\ worker' \in [Ids -> Captures]
        /\ \A i \in Ids : worker'[i] = IF i = r THEN w ELSE worker[i]
    BY <2>1 DEF Inv, WorkersPart
  <2>3. \A i \in Ids : CaptureIsSound(worker'[i])
    BY <2>1, <2>2 DEF Inv, WorkersPart, CapturesAreSound
  <2>4. CapturesAreSound'
    BY <2>3 DEF CapturesAreSound, CaptureIsSound, Watermark
  <2> QED BY <1>1, <2>1, <2>2, <2>4 DEF Inv, WorkersPart
<1> QED BY <1>3, <1>4

\* A control transaction leaves the world alone; so does every step of a call or a run,
\* but for the failure that a check inserts.
LEMMA WorldSame ==
  ASSUME Inv, RowsKept, UNCHANGED <<now, incident, data, contract, remedy, gate>>,
         lastFail' \in 0..MaxTime, Unlocked \/ UNCHANGED requests
  PROVE  WorldPart' /\ DataPart'
BY DEF Inv, WorldPart, DataPart, ClosedIsQuiet, GateIsProved, Unlocked, Unfinished, Watermark, Latest

\* The parts of a step that only concerns requests, calls, runs and processes.
LEMMA Together ==
  ASSUME Inv, RowsKept, UNCHANGED <<now, incident, data, contract, remedy, gate>>,
         lastFail' \in 0..MaxTime, Unlocked \/ UNCHANGED requests,
         KeysPart', CallsPart', PostsPart', RunsPart', WorkersPart'
  PROVE  Inv'
BY WorldSame DEF Inv, RowsKept

\* What the invariant says of one row.
LEMMA RowFacts ==
  ASSUME Inv
  PROVE  /\ Latest \in Nat /\ Latest <= MaxRequests /\ MaxRequests \in Nat
         /\ DOMAIN requests = 1..Latest
         /\ \A r \in 1..Latest :
              r \in Ids /\ requests[r] \in RequestRows /\ RequestIsSound(requests[r])
<1>1. requests \in Seq(RequestRows) /\ Latest <= MaxRequests /\ MaxRequests \in Nat
  BY ClosureAssumption DEF Inv, RowsPart
<1>2. Latest \in Nat /\ DOMAIN requests = 1..Latest
  BY <1>1 DEF Latest
<1>3. \A r \in 1..Latest : r \in Ids
  BY <1>1, <1>2 DEF Ids
<1>4. \A r \in 1..Latest : requests[r] \in RequestRows
  BY <1>1, <1>2 DEF Latest
<1> QED BY <1>1, <1>2, <1>3, <1>4 DEF Inv, RowsPart, RequestsAreSound

\* What a call may become when it starts a dispatch or has nothing more to do.
LEMMA NewCalls ==
  ASSUME Inv, NEW c \in Callers
  PROVE  /\ Idle \in CallRows /\ Idle.pc = "idle"
         /\ Return(c) \in CallRows /\ Return(c).pc \in {"idle", "ready"}
         /\ \A r \in 0..MaxRequests :
              LET x == [Idle EXCEPT !.pc = "dispatch", !.request = r] IN
              x \in CallRows /\ x.pc = "dispatch" /\ x.request = r
<1>1. 0 \in 0..MaxRequests
  BY ClosureAssumption
<1>2. Idle \in CallRows /\ Idle.pc = "idle"
  BY <1>1 DEF Idle, CallRows
<1>3. LET x == [Idle EXCEPT !.pc = "ready"] IN x \in CallRows /\ x.pc = "ready"
  BY <1>1 DEF Idle, CallRows
<1>4. Return(c) \in CallRows /\ Return(c).pc \in {"idle", "ready"}
  BY <1>2, <1>3 DEF Return
<1>5. ASSUME NEW r \in 0..MaxRequests
      PROVE  LET x == [Idle EXCEPT !.pc = "dispatch", !.request = r] IN
             x \in CallRows /\ x.pc = "dispatch" /\ x.request = r
  BY DEF Idle, CallRows
<1> QED BY <1>2, <1>4, <1>5

----------------------------------------------------------------------------
(* The initial states, and the calls.                                        *)

\* The invariant holds initially.
LEMMA InitInv == Init => Inv
<1> SUFFICES ASSUME Init PROVE Inv
  OBVIOUS
<1>1. requests = <<>> /\ Latest = 0 /\ requests \in Seq(RequestRows)
  BY DEF Init, Latest
<1>2. RowsPart
  BY <1>1, ClosureAssumption DEF RowsPart, RequestsAreSound
<1>3. KeysPart
  BY <1>1, ClosureAssumption DEF Init, KeysPart
<1>4. CallsPart
  BY ClosureAssumption DEF Init, CallsPart, CallRows, Idle
<1>5. PostsPart
  BY DEF Init, PostsPart, PostedOnce, IntentIsClaimed, MayPost, Idle
<1>6. RunsPart
  BY DEF Init, RunsPart
<1>7. NoCapture \in Captures /\ NoCapture.pc = "none"
  BY ClosureAssumption DEF NoCapture, Captures
<1>8. WorkersPart
  BY <1>7 DEF Init, WorkersPart, CapturesAreSound, CaptureIsSound
<1>9. DataPart
  <2>1. PICK meets \in {{}, 0..MaxContract} : data = <<meets>>
    BY DEF Init
  <2>2. meets \in SUBSET (0..MaxContract)
    OBVIOUS
  <2> HIDE DEF Inv
  <2>3. data \in Seq(SUBSET (0..MaxContract)) /\ Len(data) = 1
    BY <2>1, <2>2
  <2> QED BY <2>3, ClosureAssumption DEF DataPart, Watermark
<1>10. WorldPart
  BY ClosureAssumption DEF Init, WorldPart, NoGate, ClosedIsQuiet, GateIsProved, Unlocked, Unfinished, Remedies
<1> QED BY <1>2, <1>3, <1>4, <1>5, <1>6, <1>8, <1>9, <1>10 DEF Inv

\* get_revalidation: by an API call or by a stage.
LEMMA GetKeeps ==
  ASSUME Inv, NEW c \in Callers, NEW r \in 1..Latest, Unlocked, Get(c, r),
         UNCHANGED <<now, incident, keys, decisions, run, worker, data, contract, remedy,
                     lastFail, gate, posts>>
  PROVE  Inv' /\ RowsKept
<1> DEFINE q == Expire(requests[r])
           x == IF q.status = "queued" /\ q.trigger \in {"claimed", "unknown"}
                THEN [Idle EXCEPT !.pc = "dispatch", !.request = r] ELSE Return(c)
<1>1. requests' = [requests EXCEPT ![r] = q] /\ call' = [call EXCEPT ![c] = x]
  BY DEF Get
<1>2. Follows(requests[r], q)
  BY RowFacts, RowExpires
<1>3. x \in CallRows /\ ((x.pc = "dispatch" /\ x.request = r) \/ x.pc \in {"idle", "ready"})
  <2>1. r \in 0..MaxRequests
    BY RowFacts
  <2> HIDE DEF q
  <2> QED BY <2>1, NewCalls
<1> HIDE DEF q, x
<1>4. RowsKept /\ Latest' = Latest
  BY <1>1, <1>2, RowReplaced DEF Follows
<1>5. CallsPart' /\ PostsPart'
  BY <1>1, <1>3, <1>4, CallMoves
<1>6. lastFail \in 0..MaxTime
  BY DEF Inv, WorldPart
<1> QED BY <1>4, <1>5, <1>6, KeysSame, RunsMove, WorkersMove, Together

\* create_revalidation: the key of a known request, of the active one or of a new one.
LEMMA CreateKeeps ==
  ASSUME Inv, NEW c \in Api, NEW k \in Keys, CreateRevalidation(c, k)
  PROVE  Inv' /\ RowsKept
<1>1. c \in Callers
  BY DEF Callers
<1>2. UNCHANGED <<now, incident, decisions, run, worker, data, contract, remedy, lastFail,
                  gate, posts>> /\ Unlocked
  BY DEF CreateRevalidation
<1>3. call' = [call EXCEPT ![c] = [Idle EXCEPT !.pc = "dispatch", !.request = keys'[k]]]
  BY DEF CreateRevalidation
<1>4. ASSUME RowsKept, KeysPart', keys'[k] # 0 PROVE Inv'
  <2>1. keys'[k] \in 1..Latest' /\ keys'[k] \in 0..MaxRequests
    BY <1>4 DEF KeysPart
  <2> DEFINE i == keys'[k]
             x == [Idle EXCEPT !.pc = "dispatch", !.request = i]
  <2>2. x \in CallRows /\ x.pc = "dispatch" /\ x.request = i
    BY <1>1, <2>1, NewCalls
  <2>3. call' = [call EXCEPT ![c] = x] /\ i \in 1..Latest'
    BY <1>3, <2>1
  <2> HIDE DEF x, i
  <2>4. CallsPart' /\ PostsPart'
    BY <1>1, <1>2, <1>4, <2>2, <2>3, CallMoves
  <2>5. lastFail \in 0..MaxTime
    BY DEF Inv, WorldPart
  <2> QED BY <1>2, <1>4, <2>4, <2>5, RunsMove, WorkersMove, Together
<1>5. CASE keys[k] # 0 /\ UNCHANGED <<requests, keys>>
  BY <1>2, <1>4, <1>5, RowsSame, KeysSame
<1>6. CASE keys[k] = 0
  <2> DEFINE old == [r \in DOMAIN requests |->
                       IF r = Latest THEN Expire(requests[r]) ELSE requests[r]]
  <2>1. /\ IF Latest > 0 /\ Active(old[Latest])
           THEN requests' = old ELSE Latest < MaxRequests /\ requests' = Append(old, NewRequest)
        /\ keys' = [keys EXCEPT ![k] = Len(requests')]
    BY <1>6 DEF CreateRevalidation
  <2>2. \A r \in 1..Latest : old[r] = requests[r] \/ old[r] = Expire(requests[r])
    BY RowFacts
  <2>3. \A r \in 1..Latest : Follows(requests[r], old[r])
    BY <2>2, RowFacts, RowExpires, FollowsSelf
  <2>4. DOMAIN old = 1..Latest /\ old = [r \in 1..Latest |-> old[r]]
    BY RowFacts
  <2> HIDE DEF old
  <2>5. old \in Seq(RequestRows) /\ Len(old) = Latest
    BY <2>3, <2>4, RowFacts, IsASeq DEF Follows
  <2>6. NewRequest \in RequestRows /\ NewRequest.episode = incident.episode
    BY ClosureAssumption DEF NewRequest, RequestRows, Results, NoResult, Inv, WorldPart
  <2>7. RequestIsSound(NewRequest)
    BY DEF NewRequest, RequestIsSound, NoResult, HasResult, Inv, WorldPart
  <2>8. CASE requests' = old /\ Latest > 0
    <3>1. Latest' = Latest
      BY <2>5, <2>8 DEF Latest
    <3>2. RequestsAreSound'
      BY <1>2, <2>3, <2>8, <3>1 DEF RequestsAreSound, RequestIsSound, Follows, Watermark
    <3>3. RowsKept
      BY <2>3, <2>5, <2>8, <3>1, <3>2, RowFacts DEF RowsKept, RowsPart, Follows
    <3> QED BY <1>2, <1>4, <1>6, <2>1, <2>8, <3>1, <3>3, RowFacts DEF KeysPart, Inv, Latest
  <2>9. CASE Latest < MaxRequests /\ requests' = Append(old, NewRequest)
    <3>1. /\ requests' \in Seq(RequestRows) /\ Latest' = Latest + 1
          /\ \A r \in 1..Latest : requests'[r] = old[r]
          /\ requests'[Latest + 1] = NewRequest
      BY <2>5, <2>6, <2>9, AppendProperties DEF Latest
    <3>2. \A r \in 1..Latest' : RequestIsSound(requests'[r])
      BY <2>3, <2>7, <3>1, RowFacts DEF Follows
    <3>3. RequestsAreSound'
      BY <1>2, <3>2 DEF RequestsAreSound, RequestIsSound, Watermark
    <3>4. RowsKept
      <4>1. \A r \in 1..Latest : Evolves(requests[r], requests'[r])
        BY <2>3, <3>1 DEF Follows
      <4>2. Latest' \in Nat /\ Latest <= Latest' /\ Latest' <= MaxRequests
        BY <2>9, <3>1, RowFacts
      <4>3. RowsPart'
        BY <3>1, <3>3, <4>2 DEF RowsPart
      <4> QED BY <4>1, <4>2, <4>3, RowFacts DEF RowsKept
    <3>5. KeysPart' /\ keys'[k] # 0
      BY <1>2, <2>1, <2>9, <3>1, RowFacts DEF KeysPart, Inv, Latest
    <3> QED BY <1>4, <3>4, <3>5
  <2> QED BY <2>1, <2>8, <2>9
<1> QED BY <1>5, <1>6 DEF CreateRevalidation

\* A step of a call that leaves the rows alone and does not POST.
LEMMA CallOnly ==
  ASSUME Inv, NEW c \in Callers, NEW x \in CallRows, call' = [call EXCEPT ![c] = x],
         x.pc \in {"idle", "ready", "settle"}, x.pc = "settle" => x.request \in 1..Latest,
         UNCHANGED <<now, incident, requests, keys, decisions, run, worker, data, contract,
                     remedy, lastFail, gate, posts>>
  PROVE  Inv' /\ RowsKept
<1>1. RowsKept /\ Latest' = Latest
  BY RowsSame DEF Latest
<1>2. CallsPart' /\ PostsPart'
  BY <1>1, CallMoves
<1>3. lastFail \in 0..MaxTime
  BY DEF Inv, WorldPart
<1> QED BY <1>1, <1>2, <1>3, KeysSame, RunsMove, WorkersMove, Together

\* The claim of the dispatch: whoever finds the intent unclaimed is the first and the only
\* one that may POST.
LEMMA ClaimKeeps ==
  ASSUME Inv, NEW c \in Callers, ClaimDispatch(c)
  PROVE  Inv' /\ RowsKept
<1> DEFINE r == call[c].request
           q == requests[r]
<1>1. r \in 1..Latest /\ call[c] \in CallRows
  BY DEF ClaimDispatch, Inv, CallsPart
<1>2. q \in RequestRows /\ RequestIsSound(q) /\ r \in Ids
  BY <1>1, RowFacts
<1>3. UNCHANGED <<now, incident, keys, decisions, run, worker, data, contract, remedy,
                  lastFail, gate, posts>> /\ Unlocked
  BY DEF ClaimDispatch
<1>4. CASE q.status # "queued" \/ q.trigger = "confirmed"
  <2>1. call' = [call EXCEPT ![c] = Return(c)] /\ UNCHANGED requests
    BY <1>4 DEF ClaimDispatch
  <2> QED BY <1>3, <2>1, NewCalls, CallOnly
<1>5. CASE q.status = "queued" /\ q.trigger # "confirmed"
  <2> DEFINE t == q.trigger
             x == [call[c] EXCEPT !.pc = "trigger", !.previous = t]
             u == [q EXCEPT !.trigger = "claimed"]
  <2>1. call' = [call EXCEPT ![c] = x] /\ requests' = [requests EXCEPT ![r] = u]
    BY <1>5 DEF ClaimDispatch
  <2>2. t \in {"pending", "claimed", "unknown"}
    BY <1>2, <1>5 DEF RequestIsSound, RequestRows, Active
  <2>3. x \in CallRows /\ x.pc = "trigger" /\ x.previous = t /\ x.request = r
    <3> HIDE DEF t
    <3> QED BY <1>1, <2>2 DEF CallRows
  <2>4. Follows(q, u) /\ u.trigger = "claimed"
    BY <1>2, RowTriggers DEF RequestRows
  <2> HIDE DEF x, u
  <2>5. RowsKept /\ Latest' = Latest /\ requests'[r] = u
    BY <1>1, <1>3, <2>1, <2>4, RowReplaced DEF Follows
  <2>6. CallsPart' /\ PostsPart'
    <3>1. CASE t # "pending"
      BY <1>1, <1>3, <2>1, <2>3, <2>5, <3>1, CallMoves
    <3>2. CASE t = "pending"
      <4>1. /\ call' \in [Callers -> CallRows]
            /\ \A d \in Callers : call'[d] = IF d = c THEN x ELSE call[d]
        BY <2>1, <2>3 DEF Inv, CallsPart
      <4>2. CallsPart'
        BY <1>1, <2>3, <2>5, <4>1 DEF Inv, CallsPart
      <4>3. posts[r] = 0 /\ \A d \in Callers : ~MayPost(d, r)
        BY <1>2, <3>2 DEF Inv, PostsPart, PostedOnce, IntentIsClaimed
      <4>4. \A d \in Callers, i \in Ids :
              MayPost(d, i)' => (d = c /\ i = r) \/ (d # c /\ i # r /\ MayPost(d, i))
        BY <2>3, <4>1, <4>3 DEF MayPost
      <4>5. \A d \in Callers, i \in Ids : MayPost(d, i) => i \in 1..Latest
        BY DEF MayPost, Inv, CallsPart
      <4>6. \A i \in 1..Latest :
              requests[i].trigger # "pending" \/ i = r => requests'[i].trigger # "pending"
        BY <2>4, <2>5 DEF RowsKept, Evolves
      <4>7. \A i \in Ids : posts[i] > 0 => i \in 1..Latest' /\ requests'[i].trigger # "pending"
        BY <2>5, <4>6 DEF Inv, PostsPart, PostedOnce, IntentIsClaimed
      <4>8. \A i \in Ids, d \in Callers : MayPost(d, i)' =>
              /\ requests'[i].trigger # "pending" /\ posts[i] = 0
              /\ \A e \in Callers : MayPost(e, i)' => e = d
        BY <1>1, <4>3, <4>4, <4>5, <4>6 DEF Inv, PostsPart, PostedOnce, IntentIsClaimed
      <4> QED BY <1>3, <4>2, <4>7, <4>8 DEF Inv, PostsPart, PostedOnce, IntentIsClaimed
    <3> QED BY <3>1, <3>2
  <2>7. lastFail \in 0..MaxTime
    BY DEF Inv, WorldPart
  <2> QED BY <1>3, <2>5, <2>6, <2>7, KeysSame, RunsMove, WorkersMove, Together
<1> QED BY <1>4, <1>5

\* A look-up that never POSTs.
LEMMA ReconcileKeeps ==
  ASSUME Inv, NEW c \in Callers, Reconcile(c)
  PROVE  Inv' /\ RowsKept
<1>1. PICK answer \in {IF Exists(call[c].request) THEN "found" ELSE "not_found", "unavailable"} :
        call' = [call EXCEPT ![c].pc = "settle", ![c].answer = answer]
  BY DEF Reconcile
<1> DEFINE x == [call[c] EXCEPT !.pc = "settle", !.answer = answer]
<1>2. call[c] \in CallRows /\ call[c].request \in 1..Latest
  BY DEF Reconcile, Inv, CallsPart
<1>3. answer \in {"found", "not_found", "unavailable"}
  BY <1>1
<1>4. x \in CallRows /\ x.pc = "settle" /\ x.request = call[c].request
  BY <1>2, <1>3 DEF CallRows
<1>5. call' = [call EXCEPT ![c] = x]
  BY <1>1
<1> HIDE DEF x
<1> QED BY <1>2, <1>4, <1>5, CallOnly DEF Reconcile

\* The POST: only the call that may send it does, and then no call may any more.
LEMMA PostKeeps ==
  ASSUME Inv, NEW c \in Callers, Post(c)
  PROVE  Inv' /\ RowsKept
<1> DEFINE r == call[c].request
<1>1. r \in 1..Latest /\ r \in Ids /\ call[c] \in CallRows /\ MayPost(c, r)
  BY RowFacts DEF Post, Inv, CallsPart, MayPost
<1>2. UNCHANGED <<now, incident, requests, keys, decisions, worker, data, contract, remedy,
                  lastFail, gate>>
  BY DEF Post
<1>3. run[r] \in {"none", "late", "load", "checks", "capture", "persist", "notify", "done"}
  BY <1>1 DEF Inv, RunsPart
<1>4. PICK a \in {"found", "unknown", "unavailable"},
           g \in {"none", "late", "load", "checks", "capture", "persist", "notify", "done"},
           n \in {0, 1} :
        /\ call' = [call EXCEPT ![c].pc = "settle", ![c].answer = a]
        /\ run' = [run EXCEPT ![r] = g] /\ posts' = [posts EXCEPT ![r] = @ + n]
  <2>1. PICK o \in IF Exists(r) THEN {<<"found", run[r], 0>>, <<"unavailable", run[r], 0>>}
                   ELSE {<<"unavailable", run[r], 0>>, <<"unavailable", run[r], 1>>,
                         <<"found", "load", 1>>, <<"unknown", "load", 1>>,
                         <<"unknown", "late", 1>>, <<"unknown", run[r], 1>>} :
          /\ call' = [call EXCEPT ![c].pc = "settle", ![c].answer = o[1]]
          /\ run' = [run EXCEPT ![r] = o[2]] /\ posts' = [posts EXCEPT ![r] = @ + o[3]]
    BY DEF Post
  <2>2. /\ o[1] \in {"found", "unknown", "unavailable"} /\ o[3] \in {0, 1}
        /\ o[2] = run[r] \/ o[2] \in {"load", "late"}
    BY <2>1
  <2> QED BY <1>3, <2>1, <2>2
<1> DEFINE x == [call[c] EXCEPT !.pc = "settle", !.answer = a]
<1>5. x \in CallRows /\ x.pc = "settle" /\ x.request = r
  BY <1>1 DEF CallRows
<1>6. call' = [call EXCEPT ![c] = x]
  BY <1>4
<1> HIDE DEF x
<1>7. RowsKept /\ Latest' = Latest
  BY <1>2, RowsSame DEF Latest
<1>8. /\ call' \in [Callers -> CallRows]
      /\ \A d \in Callers : call'[d] = IF d = c THEN x ELSE call[d]
  BY <1>5, <1>6 DEF Inv, CallsPart
<1>9. CallsPart'
  BY <1>1, <1>5, <1>7, <1>8 DEF Inv, CallsPart
<1>10. PostsPart'
  <2>1. /\ posts' \in [Ids -> Nat] /\ posts'[r] <= 1
        /\ \A i \in Ids \ {r} : posts'[i] = posts[i]
    BY <1>1, <1>4 DEF Inv, PostsPart, PostedOnce, IntentIsClaimed
  <2>2. \A d \in Callers, i \in Ids : MayPost(d, i)' => d # c /\ i # r /\ MayPost(d, i)
    BY <1>1, <1>5, <1>8 DEF MayPost, Inv, PostsPart, PostedOnce, IntentIsClaimed
  <2>3. requests[r].trigger # "pending"
    BY <1>1 DEF Inv, PostsPart, PostedOnce, IntentIsClaimed
  <2>4. \A i \in Ids : posts'[i] > 0 => i \in 1..Latest /\ requests[i].trigger # "pending"
    BY <1>1, <2>1, <2>3 DEF Inv, PostsPart, PostedOnce, IntentIsClaimed
  <2>5. \A i \in Ids : posts'[i] <= 1
    BY <2>1 DEF Inv, PostsPart, PostedOnce
  <2>6. \A i \in Ids, d \in Callers : MayPost(d, i)' =>
          /\ requests[i].trigger # "pending" /\ posts'[i] = 0
          /\ \A e \in Callers : MayPost(e, i)' => e = d
    BY <2>1, <2>2 DEF Inv, PostsPart, PostedOnce, IntentIsClaimed
  <2> QED BY <1>2, <1>7, <2>1, <2>4, <2>5, <2>6 DEF PostsPart, PostedOnce, IntentIsClaimed
<1>11. lastFail \in 0..MaxTime
  BY DEF Inv, WorldPart
<1>12. RunsPart'
  BY <1>1, <1>4, <1>7, RunsMove
<1> QED BY <1>2, <1>7, <1>9, <1>10, <1>11, <1>12, KeysSame, WorkersMove, Together

\* What the last transaction of the dispatch makes of the answer.
LEMMA SettleKeeps ==
  ASSUME Inv, NEW c \in Callers, SettleDispatch(c)
  PROVE  Inv' /\ RowsKept
<1> DEFINE r == call[c].request
           u == Settled(requests[r], call[c].previous, call[c].answer)
<1>1. r \in 1..Latest
  BY DEF SettleDispatch, Inv, CallsPart
<1>2. requests[r] \in RequestRows /\ RequestIsSound(requests[r])
  BY <1>1, RowFacts
<1>3. Follows(requests[r], u)
  BY <1>2, RowSettles
<1>4. /\ requests' = [requests EXCEPT ![r] = u] /\ call' = [call EXCEPT ![c] = Return(c)]
      /\ UNCHANGED <<now, incident, keys, decisions, run, worker, data, contract, remedy,
                     lastFail, gate, posts>> /\ Unlocked
  BY DEF SettleDispatch
<1> HIDE DEF u
<1>5. RowsKept /\ Latest' = Latest
  BY <1>1, <1>3, <1>4, RowReplaced DEF Follows
<1>6. CallsPart' /\ PostsPart'
  BY <1>4, <1>5, NewCalls, CallMoves
<1>7. lastFail \in 0..MaxTime
  BY DEF Inv, WorldPart
<1> QED BY <1>4, <1>5, <1>6, <1>7, KeysSame, RunsMove, WorkersMove, Together

----------------------------------------------------------------------------
(* The stages of the run and the process of its checks.                      *)

\* The rest of a stage.
LEMMA StageKeeps ==
  ASSUME Inv, NEW r \in Ids, NEW at, at # "none", NEW q, NEW next, Stage(r, at, next, q),
         next \in {"checks", "capture", "persist", "notify", "done"},
         Follows(requests[r], q),
         \/ UNCHANGED worker
         \/ \E w \in Captures : /\ worker' = [worker EXCEPT ![r] = w]
                                /\ CaptureIsSound(w) /\ q.claimed
  PROVE  Inv' /\ RowsKept
<1>1. r \in 1..Latest /\ r \in Callers
  BY DEF Stage, Inv, RunsPart, Callers
<1>2. /\ requests' = [requests EXCEPT ![r] = q] /\ call' = [call EXCEPT ![r] = Idle]
      /\ run' = [run EXCEPT ![r] = next] /\ Unlocked
      /\ UNCHANGED <<now, incident, keys, decisions, data, contract, remedy, lastFail, gate, posts>>
  BY DEF Stage
<1>3. RowsKept /\ Latest' = Latest /\ requests'[r] = q
  BY <1>1, <1>2, RowReplaced DEF Follows
<1>4. CallsPart' /\ PostsPart'
  BY <1>1, <1>2, <1>3, NewCalls, CallMoves
<1>5. lastFail \in 0..MaxTime
  BY DEF Inv, WorldPart
<1>6. RunsPart'
  BY <1>1, <1>2, <1>3, RunsMove
<1>7. WorkersPart'
  BY <1>1, <1>2, <1>3, WorkersMove
<1> QED BY <1>2, <1>3, <1>4, <1>5, <1>6, <1>7, KeysSame, Together

\* A stage that starts no process.
LEMMA StageOnly ==
  ASSUME Inv, NEW r \in Ids, NEW at \in {"load", "checks", "persist", "notify"}, NEW q,
         NEW next \in {"checks", "persist", "notify", "done"}, Stage(r, at, next, q),
         Follows(requests[r], q), UNCHANGED worker
  PROVE  Inv' /\ RowsKept
BY StageKeeps

\* The stages other than the checks.
LEMMA SimpleStages ==
  ASSUME Inv, NEW r \in Ids, BeginStage(r) \/ LoadStage(r) \/ PersistStage(r) \/ NotifyStage(r)
  PROVE  Inv' /\ RowsKept /\ CheckedOnce
<1>1. UNCHANGED worker
  BY DEF BeginStage, LoadStage, PersistStage, NotifyStage
<1> SUFFICES Inv' /\ RowsKept
  BY <1>1 DEF CheckedOnce
<1>2. r \in 1..Latest /\ r \in Callers
  BY DEF BeginStage, LoadStage, PersistStage, NotifyStage, Stage, Inv, RunsPart, Callers
<1>3. requests[r] \in RequestRows /\ RequestIsSound(requests[r]) /\ WorldPart
  BY <1>2, RowFacts DEF Inv
<1>4. CASE BeginStage(r)
  <2>1. /\ Unlocked /\ Get(r, r)
        /\ UNCHANGED <<now, incident, keys, decisions, run, worker, data, contract, remedy,
                       lastFail, gate, posts>>
    BY <1>4 DEF BeginStage
  <2> QED BY <1>2, <2>1, GetKeeps
<1>5. CASE LoadStage(r)
  <2> DEFINE next == IF requests[r].status = "expired" THEN "notify" ELSE "checks"
  <2>1. Stage(r, "load", next, requests[r]) /\ next \in {"notify", "checks"}
    BY <1>5 DEF LoadStage
  <2> HIDE DEF next
  <2> QED BY <1>1, <1>3, <2>1, StageOnly, FollowsSelf
<1>6. CASE PersistStage(r)
  <2> DEFINE p == Persisted(requests[r])
             q == Expire(p)
  <2>1. Follows(requests[r], p)
    BY <1>3, RowPersists
  <2>2. Follows(p, q)
    BY <2>1, RowExpires DEF Follows
  <2>3. Stage(r, "persist", "notify", q)
    BY <1>6 DEF PersistStage
  <2> HIDE DEF p, q
  <2>4. Follows(requests[r], q)
    BY <2>1, <2>2, FollowsTrans
  <2> QED BY <1>1, <2>3, <2>4, StageOnly
<1>7. CASE NotifyStage(r)
  <2> DEFINE p == Notified(requests[r])
             q == Expire(p)
  <2>1. Follows(requests[r], p)
    BY <1>3, RowNotifies
  <2>2. Follows(p, q)
    BY <2>1, RowExpires DEF Follows
  <2>3. Stage(r, "notify", "done", q)
    BY <1>7 DEF NotifyStage
  <2> HIDE DEF p, q
  <2>4. Follows(requests[r], q)
    BY <2>1, <2>2, FollowsTrans
  <2> QED BY <1>1, <2>3, <2>4, StageOnly
<1> QED BY <1>4, <1>5, <1>6, <1>7

\* What a process is when it starts and when it is over.
LEMMA NewCaptures ==
  ASSUME NEW pc \in {"begin", "over"}
  PROVE  LET w == [NoCapture EXCEPT !.pc = pc] IN
         w \in Captures /\ w.pc = pc /\ CaptureIsSound(w)
<1> DEFINE w == [NoCapture EXCEPT !.pc = pc]
<1>1. 0 \in 0..MaxTime /\ 0 \in 0..MaxData /\ 0 \in 0..MaxContract
  BY ClosureAssumption
<1>2. w \in Captures /\ w.pc = pc
  BY <1>1 DEF NoCapture, Captures
<1> HIDE DEF w
<1>3. CaptureIsSound(w)
  BY <1>2 DEF CaptureIsSound
<1>4. w \in Captures /\ w.pc = pc /\ CaptureIsSound(w)
  BY <1>2, <1>3
<1> QED BY <1>4 DEF w

\* The checks stage: a check starts only when the request was never claimed.
LEMMA ChecksKeep ==
  ASSUME Inv, NEW r \in Ids, ChecksStage(r)
  PROVE  Inv' /\ RowsKept /\ CheckedOnce
<1> DEFINE q == requests[r]
<1>1. r \in 1..Latest
  BY RowFacts DEF ChecksStage
<1>2. q \in RequestRows /\ RequestIsSound(q) /\ now \in 0..MaxTime
  BY <1>1, RowFacts DEF Inv, WorldPart
<1>3. CASE UNCHANGED worker /\ \E next \in {"persist", "notify"} : Stage(r, "checks", next, q)
  <2>1. Inv' /\ RowsKept
    BY <1>2, <1>3, StageOnly, FollowsSelf
  <2> QED BY <1>3, <2>1 DEF CheckedOnce
<1>4. CASE UNCHANGED worker /\ Stage(r, "checks", "persist", [q EXCEPT !.status = "expired"])
  <2> DEFINE u == [q EXCEPT !.status = "expired"]
  <2>1. Follows(q, u)
    BY <1>2, RowEnds
  <2> HIDE DEF u
  <2>2. Stage(r, "checks", "persist", u)
    BY <1>4 DEF u
  <2>3. Inv' /\ RowsKept
    BY <1>4, <2>1, <2>2, StageOnly
  <2> QED BY <1>4, <2>3 DEF CheckedOnce
<1>5. CASE /\ MayStart(q)
           /\ Stage(r, "checks", "capture",
                    [q EXCEPT !.status = "running", !.claimed = TRUE, !.started = now])
           /\ worker' = [worker EXCEPT ![r] = [NoCapture EXCEPT !.pc = "begin"]]
  <2> DEFINE u == [q EXCEPT !.status = "running", !.claimed = TRUE, !.started = now]
             w == [NoCapture EXCEPT !.pc = "begin"]
  <2>1. Follows(q, u) /\ u.claimed
    BY <1>2, <1>5, RowStarts
  <2>2. w \in Captures /\ CaptureIsSound(w)
    BY NewCaptures
  <2>3. Stage(r, "checks", "capture", u) /\ worker' = [worker EXCEPT ![r] = w]
    BY <1>5
  <2> HIDE DEF u, w
  <2>4. Inv' /\ RowsKept
    BY <2>1, <2>2, <2>3, StageKeeps
  <2>5. worker[r].pc = "none"
    BY <1>1, <1>5 DEF MayStart, Inv, WorkersPart
  <2>6. CheckedOnce
    BY <2>3, <2>5 DEF CheckedOnce, Inv, WorkersPart
  <2> QED BY <2>4, <2>6
<1> QED BY <1>3, <1>4, <1>5 DEF ChecksStage

\* A step of the process of a check that is not its start.
LEMMA ProcessKeeps ==
  ASSUME Inv, NEW r \in 1..Latest, requests[r].claimed, RowsKept,
         NEW w \in Captures, worker' = [worker EXCEPT ![r] = w],
         w.pc # "begin", CaptureIsSound(w),
         \/ UNCHANGED run
         \/ \E x \in {"none", "late", "load", "checks", "capture", "persist", "notify", "done"} :
              run' = [run EXCEPT ![r] = x],
         lastFail' \in 0..MaxTime, Unlocked \/ UNCHANGED requests,
         UNCHANGED <<now, incident, keys, decisions, call, data, contract, remedy, gate, posts>>
  PROVE  Inv' /\ CheckedOnce
<1>1. r \in Ids /\ requests'[r].claimed
  BY RowFacts DEF RowsKept, Evolves
<1>2. WorkersPart'
  BY <1>1, WorkersMove
<1>3. RunsPart'
  BY RunsMove
<1>4. CheckedOnce
  BY <1>1 DEF CheckedOnce, Inv, WorkersPart
<1> QED BY <1>2, <1>3, <1>4, CallsSame, KeysSame, Together

\* The process reads contract and watermark, then the rule, then both again.
LEMMA CaptureKeeps ==
  ASSUME Inv, NEW r \in Ids, CaptureBegin(r) \/ CaptureRead(r) \/ CaptureCompare(r)
  PROVE  Inv' /\ RowsKept /\ CheckedOnce
<1>1. /\ r \in 1..Latest /\ requests[r].claimed /\ worker[r] \in Captures
      /\ CaptureIsSound(worker[r])
  BY DEF CaptureBegin, CaptureRead, CaptureCompare, Inv, WorkersPart, CapturesAreSound
<1>2. /\ UNCHANGED <<now, incident, requests, keys, decisions, call, run, data, contract,
                     remedy, gate, posts>>
      /\ RowsKept
  BY RowsSame DEF CaptureBegin, CaptureRead, CaptureCompare
<1>3. /\ now \in 1..MaxTime /\ contract \in 0..MaxContract /\ lastFail \in 0..MaxTime
      /\ Watermark \in 1..MaxData /\ MaxData \in Nat /\ MaxTime \in Nat
  BY ClosureAssumption DEF Inv, WorldPart, DataPart
<1>4. CASE CaptureBegin(r)
  <2> DEFINE m == Watermark
             w == [worker[r] EXCEPT !.pc = "read", !.observed = now, !.contract = contract,
                                    !.before = m]
  <2>1. worker' = [worker EXCEPT ![r] = w] /\ UNCHANGED lastFail
    BY <1>4 DEF CaptureBegin
  <2>2. m \in 1..MaxData /\ m \in 0..MaxData /\ now \in 0..MaxTime
    BY <1>3
  <2>3. m \in 1..Watermark
    BY <1>3
  <2> HIDE DEF m
  <2>4. w \in Captures /\ w.pc = "read" /\ w.before = m
    BY <1>1, <1>3, <2>2 DEF Captures
  <2> HIDE DEF w
  <2>5. CaptureIsSound(w)
    BY <2>3, <2>4 DEF CaptureIsSound
  <2> QED BY <1>1, <1>2, <1>3, <2>1, <2>4, <2>5, ProcessKeeps
<1>5. CASE CaptureRead(r)
  <2> DEFINE k == worker[r].contract \in data[Watermark]
             w == [worker[r] EXCEPT !.pc = "compare", !.ok = k]
  <2>1. worker' = [worker EXCEPT ![r] = w] /\ UNCHANGED lastFail
    BY <1>5 DEF CaptureRead
  <2>2. k \in BOOLEAN /\ worker[r].before \in 1..Watermark
    BY <1>1, <1>5 DEF CaptureRead, CaptureIsSound
  <2>3. k = TRUE => worker[r].contract \in data[Watermark]
    OBVIOUS
  <2> HIDE DEF k
  <2>4. /\ w \in Captures /\ w.pc = "compare" /\ w.before = worker[r].before
        /\ w.contract = worker[r].contract
    BY <1>1, <2>2 DEF Captures
  <2>5. w.ok = k
    BY <1>1 DEF Captures
  <2> HIDE DEF w
  <2>6. CaptureIsSound(w)
    BY <2>2, <2>3, <2>4, <2>5 DEF CaptureIsSound
  <2> QED BY <1>1, <1>2, <1>3, <2>1, <2>4, <2>6, ProcessKeeps
<1>6. CASE CaptureCompare(r)
  <2> DEFINE k == worker[r].ok /\ worker[r].before = Watermark
             v == [worker[r] EXCEPT !.ok = k]
             w == [v EXCEPT !.pc = "store", !.finished = now]
  <2>1. Compared(worker[r]) = v
    BY DEF Compared
  <2>2. /\ worker' = [worker EXCEPT ![r] = w]
        /\ lastFail' = IF ~v.ok /\ v.observed > lastFail THEN v.observed ELSE lastFail
    BY <1>6, <2>1 DEF CaptureCompare
  <2>3. k \in BOOLEAN /\ worker[r].before \in 1..Watermark
    BY <1>1, <1>6 DEF CaptureCompare, CaptureIsSound
  <2>4. k = TRUE => worker[r].contract \in data[worker[r].before]
    BY <1>1, <1>6 DEF CaptureCompare, CaptureIsSound
  <2> HIDE DEF k
  <2>5. v \in Captures /\ v.before = worker[r].before /\ v.contract = worker[r].contract
    BY <1>1, <2>3 DEF Captures
  <2>6. v.ok = k
    BY <1>1 DEF Captures
  <2> HIDE DEF v
  <2>7. now \in 0..MaxTime
    BY <1>3
  <2>8. w \in Captures /\ w.pc = "store" /\ w.before = v.before /\ w.contract = v.contract
    BY <2>5, <2>7 DEF Captures
  <2>9. w.ok = v.ok
    BY <2>5 DEF Captures
  <2> HIDE DEF w
  <2>10. CaptureIsSound(w)
    BY <2>3, <2>4, <2>5, <2>6, <2>8, <2>9 DEF CaptureIsSound
  <2>11. lastFail' \in 0..MaxTime
    BY <1>3, <2>2, <2>5 DEF Captures
  <2> QED BY <1>1, <1>2, <2>2, <2>8, <2>10, <2>11, ProcessKeeps
<1> QED BY <1>4, <1>5, <1>6

\* The end of the process: it stores its result, fails or dies.
LEMMA ProcessEnds ==
  ASSUME Inv, NEW r \in Ids, StoreResult(r) \/ CaptureFails(r) \/ WorkerDies(r)
  PROVE  Inv' /\ RowsKept /\ CheckedOnce
<1>1. /\ r \in 1..Latest /\ requests[r].claimed /\ worker[r] \in Captures
      /\ CaptureIsSound(worker[r])
  BY DEF StoreResult, CaptureFails, WorkerDies, Inv, WorkersPart, CapturesAreSound
<1>2. requests[r] \in RequestRows /\ RequestIsSound(requests[r])
  BY <1>1, RowFacts
<1>3. /\ now \in 0..MaxTime /\ lastFail \in 0..MaxTime /\ DataPart
      /\ run[r] \in {"none", "late", "load", "checks", "capture", "persist", "notify", "done"}
  BY DEF Inv, WorldPart, RunsPart
<1> DEFINE w == [NoCapture EXCEPT !.pc = "over"]
<1>4. /\ UNCHANGED <<now, incident, keys, decisions, call, data, contract, remedy, lastFail,
                     gate, posts>>
      /\ worker' = [worker EXCEPT ![r] = w]
      /\ Unlocked \/ UNCHANGED requests
  BY DEF StoreResult, CaptureFails, WorkerDies
<1>5. w \in Captures /\ w.pc = "over" /\ CaptureIsSound(w)
  BY NewCaptures
<1>6. \E x \in {"none", "late", "load", "checks", "capture", "persist", "notify", "done"} :
        run' = [run EXCEPT ![r] = x]
  <2>1. run' = AfterWorker(r, "persist") \/ run' = AfterWorker(r, "notify")
    BY DEF StoreResult, CaptureFails, WorkerDies
  <2> DEFINE x(n) == IF run[r] = "capture" THEN n ELSE run[r]
  <2>2. run' = [run EXCEPT ![r] = x("persist")] \/ run' = [run EXCEPT ![r] = x("notify")]
    BY <2>1 DEF AfterWorker
  <2>3. /\ x("persist") \in {"none", "late", "load", "checks", "capture", "persist", "notify", "done"}
        /\ x("notify") \in {"none", "late", "load", "checks", "capture", "persist", "notify", "done"}
    BY <1>3
  <2> HIDE DEF x
  <2> QED BY <2>2, <2>3
<1> HIDE DEF w
<1>7. RowsKept
  <2>1. CASE WorkerDies(r)
    BY <1>4, <2>1, RowsSame DEF WorkerDies
  <2>2. CASE CaptureFails(r)
    <3> DEFINE u == [requests[r] EXCEPT !.status = "error", !.finished = now]
    <3>1. requests' = [requests EXCEPT ![r] = u]
      BY <2>2 DEF CaptureFails
    <3>2. Follows(requests[r], u)
      BY <1>2, <1>3, RowFinishes
    <3> HIDE DEF u
    <3> QED BY <1>1, <1>4, <3>1, <3>2, RowReplaced DEF Follows
  <2>3. CASE StoreResult(r)
    <3> DEFINE p == Stored(requests[r], worker[r])
               u == Expire(p)
    <3>1. requests' = [requests EXCEPT ![r] = u]
      BY <2>3 DEF StoreResult
    <3>2. Follows(requests[r], p)
      BY <1>1, <1>2, <1>3, <2>3, RowStores DEF StoreResult
    <3>3. Follows(p, u)
      BY <3>2, RowExpires DEF Follows
    <3> HIDE DEF p, u
    <3>4. Follows(requests[r], u)
      BY <3>2, <3>3, FollowsTrans
    <3> QED BY <1>1, <1>4, <3>1, <3>4, RowReplaced DEF Follows
  <2> QED BY <2>1, <2>2, <2>3
<1> QED BY <1>1, <1>3, <1>4, <1>5, <1>6, <1>7, ProcessKeeps

\* A failing task, a late POST and a cleared run.
LEMMA RunKeeps ==
  ASSUME Inv, NEW r \in Ids, TaskFails(r) \/ RunAppears(r)
  PROVE  Inv' /\ RowsKept /\ CheckedOnce
<1>1. r \in 1..Latest /\ r \in Callers
  BY DEF TaskFails, RunAppears, Inv, RunsPart, Callers
<1>2. UNCHANGED <<now, incident, requests, keys, decisions, worker, data, contract, remedy,
                  lastFail, gate, posts>>
  BY DEF TaskFails, RunAppears
<1>3. RowsKept
  BY <1>2, RowsSame
<1>4. \E x \in {"notify", "done", "load"} : run' = [run EXCEPT ![r] = x]
  BY DEF TaskFails, RunAppears
<1>5. RunsPart'
  BY <1>1, <1>3, <1>4, RunsMove
<1>6. CallsPart' /\ PostsPart'
  <2>1. CASE TaskFails(r)
    <3>1. call' = [call EXCEPT ![r] = Idle]
      BY <2>1 DEF TaskFails
    <3> QED BY <1>1, <1>2, <1>3, <3>1, NewCalls, CallMoves
  <2>2. CASE RunAppears(r)
    BY <1>3, <2>2, CallsSame DEF RunAppears
  <2> QED BY <2>1, <2>2
<1>7. lastFail \in 0..MaxTime
  BY DEF Inv, WorldPart
<1>8. CheckedOnce
  BY <1>2 DEF CheckedOnce
<1> QED BY <1>2, <1>3, <1>5, <1>6, <1>7, <1>8, KeysSame, WorkersMove, Together

----------------------------------------------------------------------------
(* The closure, the incident and the world.                                  *)

\* resolution_preview expires the latest request.
LEMMA PreviewKeeps ==
  ASSUME Inv, ResolutionPreview
  PROVE  Inv' /\ RowsKept
<1> DEFINE u == Expire(requests[Latest])
<1>1. Latest \in 1..Latest
  BY RowFacts DEF ResolutionPreview
<1>2. /\ requests' = [requests EXCEPT ![Latest] = u] /\ Unlocked
      /\ UNCHANGED <<now, incident, keys, decisions, call, run, worker, data, contract,
                     remedy, lastFail, gate, posts>>
  BY DEF ResolutionPreview
<1>3. Follows(requests[Latest], u)
  BY <1>1, RowFacts, RowExpires
<1> HIDE DEF u
<1>4. RowsKept
  BY <1>1, <1>2, <1>3, RowReplaced DEF Follows
<1>5. lastFail \in 0..MaxTime
  BY DEF Inv, WorldPart
<1> QED BY <1>2, <1>4, <1>5, CallsSame, KeysSame, RunsMove, WorkersMove, Together

\* A step that concerns the clock, the contract, the remediation or the newest failure,
\* or that leaves the gate.
LEMMA WorldMoves ==
  ASSUME Inv, UNCHANGED <<requests, keys, decisions, call, run, worker, posts, data, incident>>,
         WorldPart'
  PROVE  Inv' /\ RowsKept
<1>1. RowsKept
  BY RowsSame
<1>2. DataPart'
  BY DEF Inv, DataPart, Watermark
<1> QED BY <1>1, <1>2, CallsSame, KeysSame, RunsMove, WorkersMove DEF Inv, RowsKept

\* The gate of confirm_resolution: its evidence proves what it read.
LEMMA GateKeeps ==
  ASSUME Inv, NEW k \in Keys, ConfirmGate(k)
  PROVE  Inv' /\ RowsKept
<1> DEFINE q == requests[Latest]
           m == Watermark
<1>1. Latest \in 1..Latest /\ q \in RequestRows /\ RequestIsSound(q)
  BY RowFacts DEF ConfirmGate
<1>2. /\ ~Unfinished /\ m = q.result.data /\ contract = q.result.contract
      /\ q.revision = incident.revision /\ q.result.verdict = "pass"
  BY DEF ConfirmGate, ValidClosure
<1>3. m \in 1..Watermark /\ contract \in data[m] /\ q.episode = incident.episode
  BY <1>1, <1>2 DEF RequestIsSound
<1>4. /\ gate' = [key |-> k, data |-> m, contract |-> contract]
      /\ UNCHANGED <<now, incident, requests, keys, decisions, call, run, worker, data,
                     contract, remedy, lastFail, posts>> /\ Latest > 0
  BY DEF ConfirmGate
<1>5. m \in 0..MaxData
  BY DEF Inv, DataPart
<1> HIDE DEF m
<1>6. /\ gate'.data = m /\ gate'.contract = contract
      /\ gate' \in [key : Keys \cup {NoKey}, data : 0..MaxData, contract : 0..MaxContract]
  BY <1>4, <1>5 DEF Inv, WorldPart
<1>7. ~Unfinished' /\ Latest' = Latest /\ Watermark' = Watermark
  BY <1>2, <1>4 DEF Unfinished, Latest, Watermark
<1>8. GateIsProved'
  BY <1>3, <1>4, <1>6, <1>7 DEF GateIsProved
<1>9. ClosedIsQuiet'
  BY <1>7 DEF ClosedIsQuiet
<1>10. WorldPart'
  BY <1>4, <1>6, <1>8, <1>9 DEF Inv, WorldPart
<1> QED BY <1>4, <1>10, WorldMoves

\* The remediation moves only when no closure is being confirmed, and one that names a
\* closed incident is not proposed.
LEMMA RemedyKeeps ==
  ASSUME Inv, MoveRemedy
  PROVE  Inv' /\ RowsKept
<1>1. /\ Unlocked /\ UNCHANGED <<now, incident, requests, keys, decisions, call, run, worker, data,
                                 contract, lastFail, gate, posts>>
  BY DEF MoveRemedy
<1>2. remedy \in Remedies /\ now \in 0..MaxTime
  BY DEF Inv, WorldPart
<1>3. /\ remedy' \in Remedies
      /\ incident.status = "resolved" /\ remedy'.state \in {"pending", "running"} =>
           remedy'.link = "date" /\ remedy'.late
  <2>1. CASE /\ remedy.state = "none"
             /\ \E link \in {"key", "date"} :
                  /\ MayPropose(link)
                  /\ remedy' = [remedy EXCEPT !.state = "pending", !.link = link,
                                              !.late = (incident.status = "resolved")]
    <3>1. PICK link \in {"key", "date"} :
            /\ MayPropose(link)
            /\ remedy' = [remedy EXCEPT !.state = "pending", !.link = link,
                                        !.late = (incident.status = "resolved")]
      BY <2>1
    <3> DEFINE late == (incident.status = "resolved")
    <3>2. remedy' = [remedy EXCEPT !.state = "pending", !.link = link, !.late = late]
      BY <3>1
    <3>3. /\ late \in BOOLEAN /\ (incident.status = "resolved" => late)
          /\ incident.status = "resolved" => link = "date"
      BY <3>1 DEF MayPropose
    <3> HIDE DEF late
    <3>4. remedy' \in Remedies /\ remedy'.link = link /\ remedy'.late = late
      BY <1>2, <3>2, <3>3 DEF Remedies
    <3> QED BY <3>3, <3>4
  <2>2. CASE remedy.state = "pending" /\ remedy' = [remedy EXCEPT !.state = "none"]
    BY <1>2, <2>2 DEF Remedies
  <2>3. CASE remedy.state = "pending" /\ remedy' = [remedy EXCEPT !.state = "running"]
    <3>1. incident.status = "resolved" => remedy.link = "date" /\ remedy.late
      BY <2>3 DEF Inv, WorldPart, ClosedIsQuiet, Unfinished
    <3>2. remedy' \in Remedies /\ remedy'.link = remedy.link /\ remedy'.late = remedy.late
      BY <1>2, <2>3 DEF Remedies
    <3> QED BY <3>1, <3>2
  <2>4. CASE remedy.state = "running"
             /\ remedy' = [remedy EXCEPT !.state = "finished", !.updated = now]
    BY <1>2, <2>4 DEF Remedies
  <2> QED BY <2>1, <2>2, <2>3, <2>4 DEF MoveRemedy
<1>4. ClosedIsQuiet'
  BY <1>1, <1>3 DEF ClosedIsQuiet, Unfinished
<1>5. GateIsProved'
  BY <1>1 DEF GateIsProved, Unlocked
<1>6. WorldPart'
  BY <1>1, <1>3, <1>4, <1>5 DEF Inv, WorldPart
<1> QED BY <1>1, <1>6, WorldMoves

Incidents ==
  [revision : 1..MaxRevision, episode : 1..MaxRevision,
   status : {"open", "triaged", "resolved"}, resolvedAt : 0..MaxTime]

\* A new revision of the incident leaves every request sound: none is about it.
LEMMA NewRevision ==
  ASSUME Inv, UNCHANGED <<requests, data>>, incident'.revision = incident.revision + 1
  PROVE  RowsKept
<1>1. incident.revision \in 1..MaxRevision
  BY DEF Inv, WorldPart
<1>2. ASSUME NEW q \in RequestRows, RequestIsSound(q) PROVE RequestIsSound(q)'
  BY <1>1, <1>2 DEF RequestIsSound, RequestRows, Watermark
<1>3. RequestsAreSound'
  BY <1>2, RowFacts DEF RequestsAreSound, Latest
<1> QED BY <1>3 DEF RowsKept, Evolves, RowsPart, Inv, Latest

\* The commit of a closure.
LEMMA CloseKeeps ==
  ASSUME Inv, CommitClosure
  PROVE  Inv' /\ RowsKept
<1>1. UNCHANGED <<now, requests, keys, call, run, worker, data, contract, remedy, lastFail, posts>>
  BY DEF CommitClosure
<1>2. incident \in Incidents /\ incident.episode <= incident.revision /\ now \in 0..MaxTime
  BY DEF Inv, WorldPart, Incidents
<1>3. /\ incident' \in Incidents
      /\ incident'.episode = incident.episode /\ incident'.revision = incident.revision + 1
  <2> DEFINE n == incident.revision + 1
  <2>1. n \in 1..MaxRevision
    BY <1>2, ClosureAssumption DEF CommitClosure, Incidents
  <2>2. incident' = [incident EXCEPT !.revision = n, !.status = "resolved", !.resolvedAt = now]
    BY DEF CommitClosure
  <2> SUFFICES /\ incident' \in Incidents
               /\ incident'.episode = incident.episode /\ incident'.revision = n
    OBVIOUS
  <2> HIDE DEF n
  <2> QED BY <1>2, <2>1, <2>2 DEF Incidents
<1>4. RowsKept
  BY <1>1, <1>3, NewRevision
<1>5. gate' = NoGate /\ ~Unfinished'
  BY <1>1 DEF CommitClosure, Inv, WorldPart, GateIsProved, Unfinished
<1>6. NoGate \in [key : Keys \cup {NoKey}, data : 0..MaxData, contract : 0..MaxContract]
  BY ClosureAssumption DEF NoGate
<1>7. WorldPart'
  BY <1>1, <1>2, <1>3, <1>5, <1>6
     DEF Inv, WorldPart, ClosedIsQuiet, GateIsProved, Unlocked, Incidents
<1>8. KeysPart'
  <2>1. Latest \in 0..MaxRequests
    BY RowFacts
  <2>2. decisions' = [decisions EXCEPT ![gate.key] = Latest]
    BY DEF CommitClosure
  <2> QED BY <1>1, <2>1, <2>2 DEF Inv, KeysPart, Latest
<1>9. DataPart'
  BY <1>1 DEF Inv, DataPart, Watermark
<1> QED BY <1>1, <1>4, <1>7, <1>8, <1>9, CallsSame, RunsMove, WorkersMove DEF Inv, RowsKept

\* A report or a new failure makes a revision; neither closes an incident.
LEMMA IncidentKeeps ==
  ASSUME Inv, Triage \/ Reopen
  PROVE  Inv' /\ RowsKept /\ (incident'.status = "resolved" => incident.status = "resolved")
<1>1. /\ UNCHANGED <<now, requests, keys, decisions, call, run, worker, data, contract, remedy,
                     lastFail, gate, posts>>
      /\ Unlocked
  BY DEF Triage, Reopen
<1>2. incident \in Incidents /\ incident.episode <= incident.revision
  BY DEF Inv, WorldPart, Incidents
<1> DEFINE n == incident.revision + 1
           m == incident.episode + 1
<1>3. /\ n \in 1..MaxRevision /\ m \in 1..MaxRevision /\ m <= n
      /\ n = incident.revision + 1 /\ incident.episode <= n
  BY <1>2, ClosureAssumption DEF Triage, Reopen, Incidents
<1>4. /\ incident' \in Incidents /\ incident'.episode <= incident'.revision
      /\ incident'.revision = n
      /\ incident'.status = "resolved" => incident.status = "resolved"
  <2>1. CASE Triage
    <3> DEFINE t == IF incident.status = "resolved" THEN incident.status ELSE "triaged"
    <3>1. incident' = [incident EXCEPT !.revision = n, !.status = t]
      BY <2>1 DEF Triage
    <3>2. t \in {"resolved", "triaged"} /\ (t = "resolved" => incident.status = "resolved")
      OBVIOUS
    <3> HIDE DEF n, m, t
    <3> QED BY <1>2, <1>3, <3>1, <3>2 DEF Incidents
  <2>2. CASE Reopen
    <3>1. incident' = [incident EXCEPT !.revision = n, !.episode = m, !.status = "open"]
      BY <2>2 DEF Reopen
    <3> HIDE DEF n, m
    <3> QED BY <1>2, <1>3, <3>1 DEF Incidents
  <2> QED BY <2>1, <2>2
<1>5. RowsKept
  BY <1>1, <1>3, <1>4, NewRevision
<1>6. WorldPart'
  BY <1>1, <1>4 DEF Inv, WorldPart, ClosedIsQuiet, GateIsProved, Unlocked, Unfinished, Incidents
<1>7. DataPart'
  BY <1>1 DEF Inv, DataPart, Watermark
<1> QED BY <1>1, <1>4, <1>5, <1>6, <1>7, CallsSame, KeysSame, RunsMove, WorkersMove
        DEF Inv, RowsKept

\* A pipeline writes: the versions that were checked, read or captured are still what they
\* were.
LEMMA WriteKeeps ==
  ASSUME Inv, PipelineWrite
  PROVE  Inv' /\ RowsKept
<1>1. UNCHANGED <<now, incident, requests, keys, decisions, call, run, worker, contract, remedy,
                  lastFail, gate, posts>>
  BY DEF PipelineWrite
<1>2. PICK meets \in SUBSET (0..MaxContract) : data' = Append(data, meets)
  BY DEF PipelineWrite
<1>3. data \in Seq(SUBSET (0..MaxContract)) /\ Watermark \in Nat /\ Watermark < MaxData
  BY DEF Inv, DataPart, PipelineWrite, Watermark
<1>4. /\ data' \in Seq(SUBSET (0..MaxContract)) /\ Watermark' = Watermark + 1
      /\ \A i \in 1..Watermark : data'[i] = data[i] /\ i \in 1..Watermark' /\ i # Watermark'
  BY <1>2, <1>3, AppendProperties DEF Watermark
<1>5. DataPart'
  BY <1>3, <1>4, ClosureAssumption DEF DataPart
<1>6. ASSUME NEW q, RequestIsSound(q) PROVE RequestIsSound(q)'
  BY <1>1, <1>4, <1>6 DEF RequestIsSound
<1>7. RequestsAreSound'
  BY <1>1, <1>6 DEF RequestsAreSound, Inv, RowsPart, Latest
<1>8. RowsKept
  BY <1>1, <1>7 DEF RowsKept, Evolves, RowsPart, Inv, Latest
<1>9. ASSUME NEW w, CaptureIsSound(w) PROVE CaptureIsSound(w)'
  BY <1>4, <1>9 DEF CaptureIsSound
<1>10. CapturesAreSound'
  BY <1>1, <1>9 DEF CapturesAreSound, Inv, WorkersPart
<1>11. WorkersPart'
  BY <1>1, <1>10 DEF Inv, WorkersPart, Latest
<1>12. WorldPart'
  BY <1>1, <1>4 DEF Inv, WorldPart, ClosedIsQuiet, GateIsProved, Unlocked, Unfinished, Latest
<1> QED BY <1>1, <1>5, <1>8, <1>11, <1>12, CallsSame, KeysSame, RunsMove DEF Inv, RowsKept

\* The rest of the world: a rollback, a scheduled check, a new contract and the clock.
LEMMA WorldKeeps ==
  ASSUME Inv, RollbackClosure \/ ScheduledCheck \/ ChangeContract \/ Tick
  PROVE  Inv' /\ RowsKept /\ UNCHANGED <<incident, worker>>
<1>1. UNCHANGED <<requests, keys, decisions, call, run, worker, posts, data, incident, remedy>>
  BY DEF RollbackClosure, ScheduledCheck, ChangeContract, Tick
<1>2. gate' = gate \/ gate' = NoGate
  BY DEF RollbackClosure, ScheduledCheck, ChangeContract, Tick
<1>3. NoGate \in [key : Keys \cup {NoKey}, data : 0..MaxData, contract : 0..MaxContract]
  BY ClosureAssumption DEF NoGate
<1>4. GateIsProved' /\ ClosedIsQuiet'
  BY <1>1, <1>2 DEF Inv, WorldPart, GateIsProved, ClosedIsQuiet, Unlocked, Unfinished, Latest, Watermark
<1>5. now' \in 1..MaxTime /\ contract' \in 0..MaxContract /\ lastFail' \in 0..MaxTime
  BY ClosureAssumption DEF Inv, WorldPart, RollbackClosure, ScheduledCheck, ChangeContract, Tick
<1>6. WorldPart'
  BY <1>1, <1>2, <1>3, <1>4, <1>5 DEF Inv, WorldPart
<1> QED BY <1>1, <1>6, WorldMoves

----------------------------------------------------------------------------
(* The theorems.                                                             *)

\* No step but the commit of a closure closes an incident, and each one keeps the
\* invariant, lets the rows only evolve, and starts no check a second time.
LEMMA NextKeeps ==
  ASSUME Inv, [Next]_vars
  PROVE  /\ Inv' /\ RowsKept /\ CheckedOnce
         /\ incident'.status = "resolved" => incident.status = "resolved" \/ CommitClosure
<1>1. CASE UNCHANGED vars
  <2>1. RowsKept /\ UNCHANGED <<worker, incident>>
    BY <1>1, RowsSame DEF vars
  <2>2. lastFail' \in 0..MaxTime
    BY <1>1 DEF Inv, WorldPart, vars
  <2>3. Inv'
    BY <1>1, <2>1, <2>2, CallsSame, KeysSame, RunsMove, WorkersMove, Together DEF vars
  <2> QED BY <2>1, <2>3 DEF CheckedOnce
<1>2. ASSUME NEW c \in Api, ApiStep(c) PROVE Inv' /\ RowsKept /\ UNCHANGED <<worker, incident>>
  <2>1. c \in Callers
    BY DEF Callers
  <2>2. CASE \E k \in Keys : CreateRevalidation(c, k)
    BY <2>2, CreateKeeps DEF CreateRevalidation
  <2>3. CASE \E r \in Ids : GetRevalidation(c, r)
    <3>1. PICK r \in Ids : GetRevalidation(c, r)
      BY <2>3
    <3>2. /\ Unlocked /\ Get(c, r) /\ r \in 1..Latest
          /\ UNCHANGED <<now, incident, keys, decisions, run, worker, data, contract, remedy,
                         lastFail, gate, posts>>
      BY <3>1, RowFacts DEF GetRevalidation
    <3> QED BY <2>1, <3>2, GetKeeps
  <2>4. CASE ApiDies(c)
    <3>1. /\ call' = [call EXCEPT ![c] = Idle]
          /\ UNCHANGED <<now, incident, requests, keys, decisions, run, worker, data, contract,
                         remedy, lastFail, gate, posts>>
      BY <2>4 DEF ApiDies
    <3> QED BY <2>1, <3>1, NewCalls, CallOnly
  <2> QED BY <1>2, <2>2, <2>3, <2>4 DEF ApiStep
<1>3. ASSUME NEW c \in Callers, DispatchStep(c)
      PROVE  Inv' /\ RowsKept /\ UNCHANGED <<worker, incident>>
  <2>1. UNCHANGED <<worker, incident>>
    BY <1>3 DEF DispatchStep, ClaimDispatch, Reconcile, Post, SettleDispatch
  <2> QED BY <1>3, <2>1, ClaimKeeps, ReconcileKeeps, PostKeeps, SettleKeeps DEF DispatchStep
<1>4. ASSUME NEW r \in Ids, RunStep(r) PROVE Inv' /\ RowsKept /\ CheckedOnce /\ UNCHANGED incident
  <2>1. UNCHANGED incident
    BY <1>4 DEF RunStep, BeginStage, LoadStage, ChecksStage, PersistStage, NotifyStage, Stage,
         CaptureBegin, CaptureRead, CaptureCompare, StoreResult, CaptureFails, WorkerDies,
         TaskFails, RunAppears
  <2> QED BY <1>4, <2>1, SimpleStages, ChecksKeep, CaptureKeeps, ProcessEnds, RunKeeps
          DEF RunStep
<1>5. CASE ResolutionPreview \/ MoveRemedy \/ \E k \in Keys : ConfirmGate(k)
  <2>1. UNCHANGED <<worker, incident>>
    BY <1>5 DEF ResolutionPreview, MoveRemedy, ConfirmGate
  <2>2. Inv' /\ RowsKept
    BY <1>5, PreviewKeeps, RemedyKeeps, GateKeeps
  <2> QED BY <2>1, <2>2 DEF CheckedOnce
<1>6. CASE CommitClosure
  <2>1. UNCHANGED worker
    BY <1>6 DEF CommitClosure
  <2> QED BY <1>6, <2>1, CloseKeeps DEF CheckedOnce
<1>7. CASE Triage \/ Reopen \/ PipelineWrite
  <2>1. UNCHANGED worker /\ (PipelineWrite => UNCHANGED incident)
    BY <1>7 DEF Triage, Reopen, PipelineWrite
  <2> QED BY <1>7, <2>1, IncidentKeeps, WriteKeeps DEF CheckedOnce
<1>8. CASE RollbackClosure \/ ScheduledCheck \/ ChangeContract \/ Tick
  BY <1>8, WorldKeeps DEF CheckedOnce
<1>9. ASSUME UNCHANGED worker PROVE CheckedOnce
  BY <1>9 DEF CheckedOnce
<1> QED BY <1>1, <1>2, <1>3, <1>4, <1>5, <1>6, <1>7, <1>8, <1>9 DEF Next

\* The invariant holds throughout.
LEMMA Always == Spec => []Inv
BY InitInv, NextKeeps, PTL DEF Spec

\* The state of a closed incident and of a closure in progress: no remediation of a closed
\* incident is waiting or under way, and while confirm_resolution holds the lifecycle lock
\* what it read stays proved by the latest request (agent/tools/incident_resolution.py).
THEOREM ClosureIsSound == Spec => []ClosureInv
BY Always, InvIs, PTL

\* Airflow is asked at most once to start the run of a request, whatever is replayed, polled
\* or killed (dispatch_revalidation).
THEOREM OnePost == Spec => []PostedOnce
BY Always, InvIs, PTL

\* A request that ended never becomes usable again, and its check is started at most once,
\* also when its run is cleared or its first process outlives its task.
THEOREM LateHasNoEffect == Spec => LateIsIgnored
<1>1. Inv /\ [Next]_vars => [NoRevival /\ CheckedOnce]_vars
  <2> SUFFICES ASSUME Inv, [Next]_vars PROVE NoRevival /\ CheckedOnce
    OBVIOUS
  <2>1. RowsKept /\ CheckedOnce
    BY NextKeeps
  <2> QED BY <2>1, RowFacts DEF NoRevival, RowsKept, Evolves
<1> QED BY <1>1, Always, PTL DEF Spec, LateIsIgnored

\* An incident is only closed on proof about its current episode: the data that the
\* confirmation read met the contract in force then (confirm_resolution, validate_closure
\* and capture_revalidation together).
THEOREM ClosureNeedsProof == Spec => ClosedOnProof
<1> DEFINE A == incident.status # "resolved" /\ incident'.status = "resolved" =>
                  /\ gate.contract \in data[gate.data]
                  /\ requests[Latest].episode = incident.episode
<1>1. Inv /\ [Next]_vars => [A]_vars
  <2> SUFFICES ASSUME Inv, [Next]_vars, incident.status # "resolved",
                      incident'.status = "resolved"
               PROVE  /\ gate.contract \in data[gate.data]
                      /\ requests[Latest].episode = incident.episode
    OBVIOUS
  <2>1. ~Unlocked
    BY NextKeeps DEF CommitClosure
  <2> QED BY <2>1 DEF Inv, WorldPart, GateIsProved
<1>2. ClosedOnProof <=> [][A]_vars
  BY DEF ClosedOnProof
<1> HIDE DEF A
<1> QED BY <1>1, <1>2, Always, PTL DEF Spec
=============================================================================
