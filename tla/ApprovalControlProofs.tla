------------------------- MODULE ApprovalControlProofs -------------------------
(***************************************************************************)
(* Theorems about ApprovalControl, for every number of requests, operators, *)
(* runs and dates.                                                          *)
(***************************************************************************)
EXTENDS SingleUseRequests, TLAPS

ChildStates == {"absent", "running", "success", "failed"}
Children == [Slots -> ChildStates]
Counts == [Slots -> Nat]
Working == {"act", "wait", "record", "mark"}

----------------------------------------------------------------------------
(* The inductive invariant, by the records it is about: the row q of a       *)
(* request with its children c and effects f, the state x of a run d, and    *)
(* what the reconciler holds.                                                *)

Barred(q) == q.action = "backfill" /\ ~q.eligible
PartsFor(q) == IF q.action = "backfill" THEN Slots ELSE {1}

RowGood(q, c, f) ==
  /\ q.owner = Nobody <=> q.exec = "not_started"
  /\ q.exec # "not_started" => q.status = "approved"
  /\ \A i \in Slots :
       /\ f[i] <= 1
       /\ q.owner = Nobody \/ Barred(q) => f[i] = 0 /\ c[i] = "absent"
       /\ q.action # "provider" => f[i] = IF c[i] = "absent" THEN 0 ELSE 1
  /\ q.exec = "succeeded" /\ ~Barred(q) =>
       IF q.action = "provider" THEN f[1] = 1 ELSE \A i \in PartsFor(q) : c[i] = "success"
  /\ q.action = "provider" /\ q.exec = "failed" => f[1] = 0 \/ q.error = "broken_answer"

OwnerGood(r, q, x) ==
  q.owner # Nobody => x.req = r \/ (Barred(q) /\ q.exec \in Terminal)

RunGood(d, x, q, c, f) ==
  /\ x.pc \in Working => q.owner = d /\ ~Barred(q)
  /\ x.pc \in {"act", "wait"} => q.exec = "dispatching"
  /\ x.pc = "mark" => q.exec \in {"dispatching", "dispatched", "succeeded"}
  /\ x.pc = "record" => q.action # "backfill" /\ x.result # "none"
  /\ x.pc \in {"wait", "mark"} => q.action = "backfill"
  /\ x.pc = "wait" => x.next <= Dates
  /\ x.pc = "act" /\ q.action # "backfill" => f[1] = 0 /\ c[1] = "absent"
  /\ x.pc = "record" /\ q.action = "provider" =>
       /\ x.result = "succeeded" => f[1] = 1
       /\ x.result = "failed" => f[1] = 0
  /\ x.pc = "record" /\ q.action = "rerun_dbt" => x.result # "succeeded"
  /\ x.pc \in {"act", "wait"} /\ q.action = "backfill" /\ q.wait =>
       x.failures \/ \A i \in 1..(x.next - 1) : c[i] = "success"
  /\ x.pc = "ok" /\ q.owner = d /\ q.action = "backfill" /\ q.wait => q.exec \in Terminal

RecGood(v, q, c, x) ==
  /\ v.result \in Terminal /\ q.exec # "not_started" /\ q.action # "provider"
  /\ IF q.action = "rerun_dbt" THEN c[1] \in {"success", "failed"}
     ELSE x.req = v.req /\ x.pc \notin Working
  /\ v.result = "succeeded" => \A i \in PartsFor(q) : c[i] = "success"

RowsGood == \A r \in Requests :
  /\ RowGood(row[r], child[r], effects[r])
  /\ OwnerGood(r, row[r], disp[row[r].owner])
RunsGood == \A d \in DagRuns :
  /\ disp[d].pc # "idle" => disp[d].req \in Requests
  /\ disp[d].pc \notin Working => disp[d].next = 1
  /\ disp[d].req \in Requests =>
       RunGood(d, disp[d], row[disp[d].req], child[disp[d].req], effects[disp[d].req])
HeldGood == rec # NoRec =>
  /\ rec.req \in Requests
  /\ RecGood(rec, row[rec.req], child[rec.req], disp[row[rec.req].owner])
CallsGood == \A o \in Operators : op[o] # IdleOp => op[o].req \in Requests /\ op[o].what # "none"

Inv == TypeOK /\ RowsGood /\ RunsGood /\ HeldGood /\ CallsGood

\* The first position of a backfill.
LEMMA OneIsSlot == 1 \in Slots /\ Dates \in Nat
BY ApprovalAssumption DEF Slots

\* The records satisfy what the module's invariants say.
LEMMA InvImplies == Inv => ApprovalInv /\ OutcomeIsTrue
<1> SUFFICES ASSUME Inv PROVE ApprovalInv /\ OutcomeIsTrue
  OBVIOUS
<1> USE OneIsSlot
<1>1. NeverTwice
  BY DEF Inv, RowsGood, RowGood, NeverTwice
<1>2. OnlyEligibleActs
  <2> SUFFICES ASSUME NEW r \in Requests, NEW i \in Slots, effects[r][i] > 0
               PROVE  /\ row[r].status = "approved" /\ row[r].owner # Nobody
                      /\ row[r].action = "backfill" => row[r].eligible
    BY DEF OnlyEligibleActs
  <2> QED BY DEF Inv, RowsGood, RowGood, Barred
<1>3. ClaimsAreOwned
  <2>1. \A r \in Requests :
          /\ row[r].owner = Nobody <=> row[r].exec = "not_started"
          /\ row[r].exec # "not_started" => row[r].status = "approved"
          /\ row[r].owner # Nobody =>
               disp[row[r].owner].req = r \/ (Ineligible(r) /\ row[r].exec \in Terminal)
    BY DEF Inv, RowsGood, RowGood, OwnerGood, Barred, Ineligible
  <2>2. \A d \in DagRuns :
          /\ disp[d].pc # "idle" => disp[d].req \in Requests
          /\ Acting(d) => row[disp[d].req].owner = d /\ ~Ineligible(disp[d].req)
          /\ disp[d].pc \in {"act", "wait"} => row[disp[d].req].exec = "dispatching"
          /\ disp[d].pc = "mark" => row[disp[d].req].exec \in {"dispatching", "dispatched", "succeeded"}
          /\ disp[d].pc = "record" => row[disp[d].req].action # "backfill"
          /\ disp[d].pc \in {"wait", "mark"} => row[disp[d].req].action = "backfill"
          /\ disp[d].pc = "wait" => disp[d].next <= Dates
    BY DEF Inv, RunsGood, RunGood, Barred, Ineligible, Acting, Working
  <2> QED BY <2>1, <2>2 DEF ClaimsAreOwned, Inv, CallsGood
<1>4. EffectsAreCounted
  <2>1. \A r \in Requests, i \in Slots :
          /\ row[r].owner = Nobody \/ Ineligible(r) => effects[r][i] = 0 /\ child[r][i] = "absent"
          /\ row[r].action # "provider" =>
               effects[r][i] = IF child[r][i] = "absent" THEN 0 ELSE 1
    BY DEF Inv, RowsGood, RowGood, Barred, Ineligible
  <2> QED BY <2>1 DEF EffectsAreCounted, Inv, RunsGood, RunGood
<1>5. InspectedIsOver
  BY DEF Inv, HeldGood, RecGood, InspectedIsOver, Acting, Working
<1>6. SucceededIsProven /\ FailedDidNothing
  BY DEF Inv, RowsGood, RowGood, Barred, SucceededIsProven, FailedDidNothing, PartsOf, PartsFor
<1>7. ReportsAreTrue
  <2>1. ASSUME NEW d \in DagRuns PROVE
          LET r == disp[d].req IN
          /\ ~Acting(d) => disp[d].next = 1
          /\ disp[d].pc = "record" => disp[d].result # "none"
          /\ disp[d].pc = "record" /\ row[r].action = "provider" =>
               /\ disp[d].result = "succeeded" => effects[r][1] = 1
               /\ disp[d].result = "failed" => effects[r][1] = 0
          /\ disp[d].pc = "record" /\ row[r].action = "rerun_dbt" => disp[d].result # "succeeded"
          /\ disp[d].pc \in {"act", "wait"} /\ row[r].action = "backfill" /\ row[r].wait =>
               disp[d].failures \/ \A i \in 1..(disp[d].next - 1) : child[r][i] = "success"
          /\ disp[d].pc = "ok" /\ row[r].owner = d /\ row[r].action = "backfill" /\ row[r].wait =>
               row[r].exec \in Terminal
    BY DEF Inv, RunsGood, RunGood, Acting, Working
  <2>2. rec.result = "succeeded" => \A i \in PartsOf(rec.req) : child[rec.req][i] = "success"
    BY DEF Inv, HeldGood, RecGood, PartsOf, PartsFor, NoRec
  <2> QED BY <2>1, <2>2 DEF ReportsAreTrue
<1> QED BY <1>1, <1>2, <1>3, <1>4, <1>5, <1>6, <1>7 DEF ApprovalInv, OutcomeIsTrue, Inv

----------------------------------------------------------------------------
(* Steps that change one request, or one run and its request.                *)

\* The parts of the state that no invariant relates to requests and runs.
Rest ==
  /\ outbox' \in [Requests -> SUBSET Nat] /\ projection' \in [Requests -> Nat]
  /\ op' \in [Operators -> [req : Requests \cup {Nobody}, seen : Nat,
                            what : {"none", "approved", "rejected", "cancelled"}]]
  /\ CallsGood'

\* Request r becomes n, c and f.
Changes(r, n, c, f) ==
  /\ n \in RowsOK /\ c \in Children /\ f \in Counts
  /\ row' = [row EXCEPT ![r] = n]
  /\ child' = [child EXCEPT ![r] = c]
  /\ effects' = [effects EXCEPT ![r] = f]

\* What a change of request r means, request by request.
LEMMA ChangesWhere ==
  ASSUME Inv, NEW r \in Requests, NEW n, NEW c, NEW f, Changes(r, n, c, f)
  PROVE  /\ row' \in [Requests -> RowsOK] /\ child' \in [Requests -> Children]
         /\ effects' \in [Requests -> Counts]
         /\ row'[r] = n /\ child'[r] = c /\ effects'[r] = f
         /\ \A s \in Requests \ {r} :
              row'[s] = row[s] /\ child'[s] = child[s] /\ effects'[s] = effects[s]
BY DEF Inv, TypeOK, Changes, Children, ChildStates, Counts

\* A step of no run that changes request r, possibly by what the reconciler holds.
LEMMA RequestStep ==
  ASSUME Inv, Rest, NEW r \in Requests, NEW n, NEW c, NEW f, Changes(r, n, c, f),
         UNCHANGED disp, RowGood(n, c, f), OwnerGood(r, n, disp[n.owner]),
         \A e \in DagRuns : disp[e].req = r => RunGood(e, disp[e], n, c, f),
         rec' = NoRec \/ (rec' = rec /\ (rec # NoRec /\ rec.req = r =>
                                           RecGood(rec, n, c, disp[n.owner])))
  PROVE  Inv'
<1>1. /\ row' \in [Requests -> RowsOK] /\ child' \in [Requests -> Children]
      /\ effects' \in [Requests -> Counts]
      /\ row'[r] = n /\ child'[r] = c /\ effects'[r] = f
      /\ \A s \in Requests \ {r} :
           row'[s] = row[s] /\ child'[s] = child[s] /\ effects'[s] = effects[s]
  BY ChangesWhere
<1>2. RowsGood'
  BY <1>1 DEF Inv, RowsGood
<1>3. RunsGood'
  BY <1>1 DEF Inv, RunsGood
<1>4. rec' \in [req : Requests \cup {Nobody}, result : Terminal \cup {"none"}]
  BY DEF Inv, TypeOK, NoRec
<1>5. HeldGood'
  <2>1. CASE rec' = NoRec
    BY <2>1 DEF HeldGood, NoRec
  <2>2. CASE rec' = rec /\ rec # NoRec
    BY <1>1, <2>2 DEF Inv, HeldGood
  <2>3. CASE rec' = rec /\ rec = NoRec
    BY <2>3 DEF HeldGood, NoRec
  <2> QED BY <2>1, <2>2, <2>3
<1>6. TypeOK'
  BY <1>1, <1>4 DEF Inv, TypeOK, Rest, Children, ChildStates, Counts
<1> QED BY <1>2, <1>3, <1>5, <1>6 DEF Inv, Rest

\* A step of run d on request r: it only looks, or it has or takes the claim.
LEMMA RunStep ==
  ASSUME Inv, Rest, NEW r \in Requests, NEW n, NEW c, NEW f, Changes(r, n, c, f),
         NEW d \in DagRuns, NEW x \in RunsOK, disp' = [disp EXCEPT ![d] = x],
         x.req = r, disp[d].req \in {r, Nobody}, x.pc \notin Working => x.next = 1,
         RowGood(n, c, f), RunGood(d, x, n, c, f),
         \/ n = row[r] /\ c = child[r] /\ f = effects[r]
         \/ row[r].owner \in {d, Nobody} /\ n.owner = d,
         UNCHANGED rec,
         rec # NoRec /\ rec.req = r =>
           RecGood(rec, n, c, IF n.owner = d THEN x ELSE disp[n.owner])
  PROVE  Inv'
<1>1. /\ row' \in [Requests -> RowsOK] /\ child' \in [Requests -> Children]
      /\ effects' \in [Requests -> Counts]
      /\ row'[r] = n /\ child'[r] = c /\ effects'[r] = f
      /\ \A s \in Requests \ {r} :
           row'[s] = row[s] /\ child'[s] = child[s] /\ effects'[s] = effects[s]
  BY ChangesWhere
<1>2. /\ disp' \in [DagRuns -> RunsOK] /\ disp'[d] = x
      /\ \A e \in DagRuns \ {d} : disp'[e] = disp[e]
  BY DEF Inv, TypeOK
<1>3. Nobody \notin Requests /\ d # Nobody
  BY ApprovalAssumption
<1>4. RowsGood'
  <2>1. ASSUME NEW s \in Requests \ {r} PROVE OwnerGood(s, row[s], disp'[row[s].owner])
    <3>1. OwnerGood(s, row[s], disp[row[s].owner]) /\ row[s].owner \in DagRuns \cup {Nobody}
      BY DEF Inv, RowsGood, TypeOK, RowsOK
    <3>2. CASE row[s].owner = d
      BY <1>3, <3>1, <3>2 DEF OwnerGood
    <3>3. CASE row[s].owner # d
      BY <1>2, <3>1, <3>3 DEF OwnerGood
    <3> QED BY <3>2, <3>3
  <2>2. OwnerGood(r, n, disp'[n.owner])
    <3>1. CASE n.owner = d
      BY <1>2, <3>1 DEF OwnerGood
    <3>2. CASE n.owner # d
      <4>1. n = row[r] /\ row[r].owner \in DagRuns \cup {Nobody}
        BY <3>2 DEF Inv, TypeOK, RowsOK
      <4> QED BY <1>2, <3>2, <4>1 DEF Inv, RowsGood, OwnerGood
    <3> QED BY <3>1, <3>2
  <2>3. \A s \in Requests : RowGood(row'[s], child'[s], effects'[s])
    BY <1>1 DEF Inv, RowsGood
  <2> QED BY <1>1, <2>1, <2>2, <2>3 DEF RowsGood
<1>5. RunsGood'
  <2>1. ASSUME NEW e \in DagRuns \ {d}, disp[e].req = r PROVE RunGood(e, disp[e], n, c, f)
    <3>1. RunGood(e, disp[e], row[r], child[r], effects[r])
      BY <2>1 DEF Inv, RunsGood
    <3>2. CASE n = row[r] /\ c = child[r] /\ f = effects[r]
      BY <3>1, <3>2
    <3>3. CASE row[r].owner \in {d, Nobody} /\ n.owner = d
      <4>1. disp[e].pc \notin Working /\ e # Nobody
        BY <3>1, <3>3, ApprovalAssumption DEF RunGood
      <4> QED BY <3>3, <4>1 DEF RunGood, Working
    <3> QED BY <3>2, <3>3
  <2>2. ASSUME NEW e \in DagRuns \ {d}, disp[e].req \in Requests
        PROVE  RunGood(e, disp'[e], row'[disp'[e].req], child'[disp'[e].req], effects'[disp'[e].req])
    <3>1. CASE disp[e].req = r
      BY <1>1, <1>2, <2>1, <3>1
    <3>2. CASE disp[e].req # r
      BY <1>1, <1>2, <2>2, <3>2 DEF Inv, RunsGood
    <3> QED BY <3>1, <3>2
  <2>3. RunGood(d, disp'[d], row'[disp'[d].req], child'[disp'[d].req], effects'[disp'[d].req])
    BY <1>1, <1>2
  <2>4. \A e \in DagRuns : /\ disp'[e].pc # "idle" => disp'[e].req \in Requests
                           /\ disp'[e].pc \notin Working => disp'[e].next = 1
    BY <1>2 DEF Inv, RunsGood
  <2>5. \A e \in DagRuns : disp'[e].req \in Requests => e = d \/ disp[e].req \in Requests
    BY <1>2
  <2> QED BY <2>2, <2>3, <2>4, <2>5 DEF RunsGood
<1>6. HeldGood'
  <2> SUFFICES ASSUME rec # NoRec
               PROVE  /\ rec.req \in Requests
                      /\ RecGood(rec, row'[rec.req], child'[rec.req], disp'[row'[rec.req].owner])
    BY DEF HeldGood, NoRec
  <2>1. /\ rec.req \in Requests
        /\ RecGood(rec, row[rec.req], child[rec.req], disp[row[rec.req].owner])
    BY DEF Inv, HeldGood
  <2>2. CASE rec.req # r
    <3>1. row'[rec.req] = row[rec.req] /\ child'[rec.req] = child[rec.req]
      BY <1>1, <2>1, <2>2
    <3>2. row[rec.req].owner \in DagRuns \cup {Nobody}
      BY <2>1 DEF Inv, TypeOK, RowsOK
    <3>3. row[rec.req].owner # Nobody
      BY <2>1 DEF RecGood, Inv, RowsGood, RowGood
    <3>4. CASE row[rec.req].action = "rerun_dbt"
      BY <2>1, <3>1, <3>4 DEF RecGood
    <3>5. CASE row[rec.req].action # "rerun_dbt"
      <4>1. row[rec.req].owner # d
        BY <1>3, <2>1, <2>2, <3>5 DEF RecGood
      <4> QED BY <1>2, <2>1, <3>1, <3>2, <3>3, <4>1
    <3> QED BY <2>1, <3>4, <3>5
  <2>3. CASE rec.req = r
    <3>1. row'[rec.req] = n /\ child'[rec.req] = c
      BY <1>1, <2>3
    <3>2. CASE n.owner = d
      BY <1>2, <2>3, <3>1, <3>2
    <3>3. CASE n.owner # d
      <4>1. n = row[r] /\ row[r].owner \in DagRuns \cup {Nobody}
        BY <3>3 DEF Inv, TypeOK, RowsOK
      <4>2. n.owner # Nobody
        BY <2>1, <2>3, <4>1 DEF RecGood, Inv, RowsGood, RowGood
      <4> QED BY <1>2, <2>3, <3>1, <3>3, <4>1, <4>2
    <3> QED BY <3>2, <3>3, <2>3
  <2> QED BY <2>2, <2>3
<1>7. TypeOK'
  BY <1>1, <1>2 DEF Inv, TypeOK, Rest, Children, ChildStates, Counts
<1> QED BY <1>4, <1>5, <1>6, <1>7 DEF Inv, Rest

\* A step of run d that leaves every request as it is.
LEMMA RunAlone ==
  ASSUME Inv, Rest, NEW r \in Requests, NEW d \in DagRuns, NEW x \in RunsOK,
         disp' = [disp EXCEPT ![d] = x], x.req = r, disp[d].req \in {r, Nobody},
         x.pc \notin Working => x.next = 1,
         RunGood(d, x, row[r], child[r], effects[r]),
         x.pc \in Working => disp[d].pc \in Working,
         UNCHANGED <<row, child, effects, rec>>
  PROVE  Inv'
<1> DEFINE n == row[r]
           c == child[r]
           f == effects[r]
<1>1. n \in RowsOK /\ c \in Children /\ f \in Counts
  BY DEF Inv, TypeOK, Children, ChildStates, Counts
<1>2. Changes(r, n, c, f)
  BY <1>1 DEF Changes, Inv, TypeOK
<1>3. RowGood(n, c, f)
  BY DEF Inv, RowsGood
<1>4. ASSUME rec # NoRec, rec.req = r
      PROVE  RecGood(rec, n, c, IF n.owner = d THEN x ELSE disp[n.owner])
  <2>1. RecGood(rec, n, c, disp[n.owner])
    BY <1>4 DEF Inv, HeldGood
  <2>2. CASE n.owner # d
    BY <2>1, <2>2
  <2>3. CASE n.owner = d
    BY <1>4, <2>1, <2>3 DEF RecGood
  <2> QED BY <2>2, <2>3
<1>5. RunGood(d, x, n, c, f)
  OBVIOUS
<1>6. n = row[r] /\ c = child[r] /\ f = effects[r]
  OBVIOUS
<1> HIDE DEF n, c, f
<1> QED BY <1>2, <1>3, <1>4, <1>5, <1>6, RunStep

\* A run that ended, or starts again, claims nothing.
LEMMA Ended ==
  ASSUME Inv, NEW d \in DagRuns, NEW pc \in {"idle", "ok", "failed"}
  PROVE  LET x == [NewRun EXCEPT !.req = disp[d].req, !.pc = pc] IN
         x \in RunsOK /\ x.req = disp[d].req /\ x.pc = pc /\ x.next = 1
<1>1. disp[d].req \in Requests \cup {Nobody} /\ 1 \in 1..(Dates + 1)
  BY OneIsSlot DEF Inv, TypeOK, RunsOK
<1> QED BY <1>1 DEF NewRun, RunsOK, Over

\* A failed or idle run makes no claim about its request.
LEMMA QuietRun ==
  ASSUME NEW d, NEW x, NEW q, NEW c, NEW f, x.pc \in {"idle", "claim", "failed"}
  PROVE  RunGood(d, x, q, c, f)
BY DEF RunGood, Working

\* What the invariant says of a run on a request.
LEMMA RunFacts ==
  ASSUME Inv, NEW d \in DagRuns, disp[d].pc # "idle"
  PROVE  LET r == disp[d].req IN
         /\ r \in Requests /\ r # Nobody /\ disp[d] \in RunsOK /\ row[r] \in RowsOK
         /\ child[r] \in Children /\ effects[r] \in Counts
         /\ RunGood(d, disp[d], row[r], child[r], effects[r])
         /\ RowGood(row[r], child[r], effects[r]) /\ disp[d].req \in {r, Nobody}
         /\ rec # NoRec /\ rec.req = r => RecGood(rec, row[r], child[r], disp[row[r].owner])
<1>1. disp[d].req \in Requests /\ disp[d].req # Nobody
  BY ApprovalAssumption DEF Inv, RunsGood
<1> QED BY <1>1 DEF Inv, RunsGood, RowsGood, HeldGood, TypeOK, Children, ChildStates, Counts

\* Unchanged deliveries and calls.
LEMMA RestSame ==
  ASSUME Inv, UNCHANGED <<outbox, projection, op>>
  PROVE  Rest
BY DEF Inv, TypeOK, Rest, CallsGood

\* A change of a row writes its projection intent.
LEMMA RestWrites ==
  ASSUME Inv, UNCHANGED <<projection, op>>, NEW r \in Requests, NEW new, new.version \in Nat,
         Write(r, new)
  PROVE  Rest
BY DEF Inv, TypeOK, Rest, CallsGood, Write

----------------------------------------------------------------------------
(* The steps of a run.                                                       *)

\* The task reads a request, dies, or starts again.
LEMMA LookSteps ==
  ASSUME Inv, NEW d \in DagRuns,
         Crash(d) \/ Clear(d) \/ \E r \in Requests : Validate(d, r)
  PROVE  Inv'
<1>1. UNCHANGED <<row, outbox, projection, op, child, effects, rec>>
  BY DEF Crash, Clear, Validate
<1>2. Rest /\ disp[d] \in RunsOK
  BY <1>1, RestSame DEF Inv, TypeOK
<1>3. CASE Crash(d) \/ Clear(d)
  <2>1. PICK x \in RunsOK :
          /\ disp' = [disp EXCEPT ![d] = x] /\ x.req = disp[d].req
          /\ x.pc \in {"idle", "failed"} /\ x.next = 1
    <3>1. CASE Crash(d)
      BY <3>1, Ended DEF Crash, Become, Over
    <3>2. CASE Clear(d)
      <4> DEFINE x == [NewRun EXCEPT !.req = disp[d].req]
      <4>1. disp[d].req \in Requests \cup {Nobody} /\ 1 \in 1..(Dates + 1)
        BY <1>2, OneIsSlot DEF RunsOK
      <4>2. x \in RunsOK /\ x.req = disp[d].req /\ x.pc = "idle" /\ x.next = 1
        BY <4>1 DEF NewRun, RunsOK
      <4>3. disp' = [disp EXCEPT ![d] = x]
        BY <3>2 DEF Clear
      <4> HIDE DEF x
      <4> QED BY <4>2, <4>3
    <3> QED BY <1>3, <3>1, <3>2
  <2>2. disp[d].pc # "idle"
    BY <1>3 DEF Crash, Clear, Over
  <2>5. disp[d].req \in Requests
    BY <2>2, RunFacts
  <2>6. RunGood(d, x, row[disp[d].req], child[disp[d].req], effects[disp[d].req])
    BY <2>1, QuietRun
  <2>7. x.pc \notin Working
    BY <2>1 DEF Working
  <2> QED BY <1>1, <1>2, <2>1, <2>5, <2>6, <2>7, RunAlone
<1>4. ASSUME NEW r \in Requests, Validate(d, r) PROVE Inv'
  <2> DEFINE v == row[r].version
             x == IF Executable(r) THEN [disp[d] EXCEPT !.req = r, !.pc = "claim", !.seen = v]
                  ELSE [disp[d] EXCEPT !.req = r, !.pc = "failed"]
  <2>1. disp' = [disp EXCEPT ![d] = x] /\ disp[d].req \in {Nobody, r}
    BY <1>4 DEF Validate
  <2>2. v \in Nat /\ disp[d].next = 1
    BY <1>4 DEF Inv, TypeOK, RowsOK, Validate, RunsGood, Working
  <2> HIDE DEF v
  <2>3. x \in RunsOK /\ x.req = r /\ x.pc \in {"claim", "failed"} /\ x.next = 1
    BY <1>2, <2>2 DEF RunsOK, Over
  <2> HIDE DEF x
  <2>4. RunGood(d, x, row[r], child[r], effects[r]) /\ x.pc \notin Working
    BY <2>3, QuietRun DEF Working
  <2> QED BY <1>1, <1>2, <2>1, <2>3, <2>4, RunAlone
<1> QED BY <1>3, <1>4

\* A run that takes the request makes its step.
LEMMA TakerStep ==
  ASSUME Inv, Rest, NEW r \in Requests, NEW n, NEW c, NEW f, Changes(r, n, c, f),
         NEW d \in DagRuns, NEW x \in RunsOK, disp' = [disp EXCEPT ![d] = x],
         x.req = r, disp[d].req \in {r, Nobody}, x.pc \in Working,
         row[r].owner = Nobody, n.owner = d,
         RowGood(n, c, f), RunGood(d, x, n, c, f),
         UNCHANGED rec, ~(rec # NoRec /\ rec.req = r)
  PROVE  Inv'
BY RunStep

\* The claim.
LEMMA ClaimStep ==
  ASSUME Inv, NEW d \in DagRuns, TakeClaim(d)
  PROVE  Inv'
<1> DEFINE r == disp[d].req
           q == row[r]
<1>1. /\ r \in Requests /\ r # Nobody /\ disp[d] \in RunsOK /\ q \in RowsOK
      /\ child[r] \in Children /\ effects[r] \in Counts
      /\ RunGood(d, disp[d], q, child[r], effects[r]) /\ RowGood(q, child[r], effects[r])
      /\ rec # NoRec /\ rec.req = r => RecGood(rec, q, child[r], disp[q.owner])
      /\ disp[d].pc = "claim"
  BY RunFacts DEF TakeClaim
<1>2. UNCHANGED <<projection, op, child, effects, rec>>
  BY DEF TakeClaim
<1>3. CASE ~Claimable(d, r)
  <2> DEFINE x == [NewRun EXCEPT !.req = disp[d].req, !.pc = "failed"]
  <2>1. disp' = [disp EXCEPT ![d] = x] /\ UNCHANGED <<row, outbox>>
    BY <1>3 DEF TakeClaim, Become, Over
  <2>2. x \in RunsOK /\ x.req = r /\ x.pc = "failed" /\ x.next = 1
    BY Ended
  <2> HIDE DEF x
  <2>3. RunGood(d, x, q, child[r], effects[r]) /\ x.pc \notin Working
    BY <2>2, QuietRun DEF Working
  <2> QED BY <1>1, <1>2, <2>1, <2>2, <2>3, RestSame, RunAlone
<1>4. CASE Claimable(d, r)
  <2> DEFINE v == q.version + 1
             n == [[q EXCEPT !.exec = "dispatching", !.owner = d] EXCEPT !.version = v]
             x == [disp[d] EXCEPT !.pc = "act", !.seen = v]
             c == child[r]
             f == effects[r]
  <2>1. /\ Write(r, n) /\ disp' = [disp EXCEPT ![d] = x]
    BY <1>4 DEF TakeClaim, Changed
  <2>2. v \in Nat
    BY <1>1 DEF RowsOK
  <2>3. /\ q.status = "approved" /\ q.exec = "not_started" /\ q.owner = Nobody
        /\ q.action = "backfill" => q.eligible
    BY <1>4 DEF Claimable
  <2> HIDE DEF v
  <2>4. /\ n \in RowsOK /\ n.version = v /\ n.exec = "dispatching" /\ n.owner = d
        /\ n.status = q.status /\ n.action = q.action
    BY <1>1, <2>2 DEF RowsOK, InFlight
  <2>5. n.eligible = q.eligible /\ n.wait = q.wait
    BY <1>1 DEF RowsOK
  <2>6. x \in RunsOK /\ x.req = r /\ x.pc = "act" /\ x.pc \in Working /\ x.next = disp[d].next
    BY <1>1, <2>2 DEF RunsOK, Working
  <2>7. n.owner = d /\ c = child[r] /\ f = effects[r] /\ c \in Children /\ f \in Counts
    BY <1>1, <2>4
  <2>8. Changes(r, n, c, f)
    BY <1>2, <2>1, <2>4, <2>7 DEF Changes, Write, Inv, TypeOK
  <2>9. Rest
    BY <1>1, <1>2, <2>1, <2>2, <2>4, RestWrites
  <2> HIDE DEF n, x, c, f
  <2>10. ~Barred(q) /\ ~Barred(n)
    BY <2>3, <2>4, <2>5 DEF Barred
  <2>11. d # Nobody /\ 1 \in Slots
    BY OneIsSlot, ApprovalAssumption
  <2>12. \A i \in Slots : f[i] = 0 /\ c[i] = "absent"
    BY <1>1, <2>3, <2>7 DEF RowGood
  <2>13. RowGood(n, c, f)
    BY <2>3, <2>4, <2>10, <2>11, <2>12 DEF RowGood
  <2>14. RunGood(d, x, n, c, f)
    <3>1. x.next = 1
      BY <1>1, <2>6 DEF Inv, RunsGood, Working
    <3> QED BY <3>1, <2>3, <2>4, <2>5, <2>6, <2>10, <2>11, <2>12 DEF RunGood
  <2>15. ~(rec # NoRec /\ rec.req = r)
    BY <1>1, <2>3 DEF RecGood
  <2>16. row[r].owner = Nobody /\ n.owner = d /\ r \in Requests
    BY <1>1, <2>3, <2>4
  <2>17. disp' = [disp EXCEPT ![d] = x] /\ ~(rec # NoRec /\ rec.req = r)
    BY <2>1, <2>15
  <2>18. UNCHANGED rec /\ disp[d].req \in {r, Nobody}
    BY <1>1, <1>2
  <2> HIDE DEF r, q
  <2> QED BY <2>6, <2>7, <2>8, <2>9, <2>13, <2>14, <2>16, <2>17, <2>18, TakerStep
<1> QED BY <1>3, <1>4

\* A run that has the claim keeps it while it works.
LEMMA WorkingRun ==
  ASSUME Inv, NEW d \in DagRuns, disp[d].pc \in Working
  PROVE  LET r == disp[d].req IN
         /\ r \in Requests /\ disp[d].req \in {r, Nobody} /\ disp[d] \in RunsOK
         /\ row[r] \in RowsOK /\ child[r] \in Children /\ effects[r] \in Counts
         /\ RunGood(d, disp[d], row[r], child[r], effects[r])
         /\ RowGood(row[r], child[r], effects[r])
         /\ row[r].owner = d /\ d # Nobody /\ ~Barred(row[r]) /\ row[r].exec # "not_started"
         /\ rec # NoRec /\ rec.req = r =>
              RecGood(rec, row[r], child[r], disp[d]) /\ row[r].action = "rerun_dbt"
<1>1. disp[d].pc # "idle"
  BY DEF Working
<1>2. row[disp[d].req].owner = d /\ ~Barred(row[disp[d].req])
  BY <1>1, RunFacts DEF RunGood
<1>3. d # Nobody
  BY ApprovalAssumption
<1>4. row[disp[d].req].exec # "not_started"
  BY <1>1, <1>2, <1>3, RunFacts DEF RowGood
<1>5. ASSUME rec # NoRec, rec.req = disp[d].req
      PROVE  RecGood(rec, row[disp[d].req], child[disp[d].req], disp[d])
             /\ row[disp[d].req].action = "rerun_dbt"
  BY <1>1, <1>2, <1>5, RunFacts DEF RecGood
<1> QED BY <1>1, <1>2, <1>3, <1>4, <1>5, RunFacts

\* A step of the owner of a request that no reconciler has inspected, and that goes on.
LEMMA OwnerStep ==
  ASSUME Inv, Rest, NEW r \in Requests, NEW c, NEW f, Changes(r, row[r], c, f),
         NEW d \in DagRuns, NEW x \in RunsOK, disp' = [disp EXCEPT ![d] = x],
         x.req = r, disp[d].req = r, x.pc \in Working, row[r].owner = d,
         RowGood(row[r], c, f), RunGood(d, x, row[r], c, f),
         UNCHANGED rec, ~(rec # NoRec /\ rec.req = r)
  PROVE  Inv'
BY RunStep

\* The single effect of an action that is no backfill.
LEMMA OneEffect ==
  ASSUME Inv, NEW d \in DagRuns, disp[d].pc = "act", NEW r, r = disp[d].req,
         row[r].action # "backfill", NEW a \in {"dispatched", "unknown", "broken_answer"} \cup Terminal,
         NEW c, NEW f,
         disp' = [disp EXCEPT ![d].pc = "record", ![d].result = a],
         UNCHANGED <<row, outbox, projection, op, rec>>,
         \/ row[r].action = "rerun_dbt" /\ a # "succeeded"
         \/ row[r].action = "provider" /\ (a = "succeeded" => f[1] = 1) /\ (a = "failed" => f[1] = 0),
         Changes(r, row[r], c, f), RowGood(row[r], c, f)
  PROVE  Inv'
<1> DEFINE q == row[r]
           x == [disp[d] EXCEPT !.pc = "record", !.result = a]
<1>1. disp[d].pc \in Working
  BY DEF Working
<1>2. disp' = [disp EXCEPT ![d] = x]
  OBVIOUS
<1>3. disp[d] \in RunsOK
  BY DEF Inv, TypeOK
<1>4. x \in RunsOK /\ x.req = r /\ x.pc = "record" /\ x.result = a
  BY <1>3 DEF RunsOK
<1> HIDE DEF x
<1>5. q.owner = d /\ ~Barred(q) /\ r \in Requests
  BY <1>1, WorkingRun
<1>6. RunGood(d, x, q, c, f)
  BY <1>4, <1>5 DEF RunGood, Terminal
<1>7. ~(rec # NoRec /\ rec.req = r)
  <2>1. child[r][1] = "absent"
    BY <1>1, WorkingRun DEF RunGood
  <2> QED BY <1>1, <2>1, WorkingRun DEF RecGood
<1>8. x.pc \in Working /\ x.req = r /\ disp[d].req \in {r, Nobody}
  BY <1>4 DEF Working
<1>9. Rest
  BY RestSame
<1>10. row[r].owner = d
  BY <1>5
<1> HIDE DEF q
<1>11. RunGood(d, x, row[r], c, f) /\ UNCHANGED rec
  BY <1>6 DEF q
<1>12. r \in Requests /\ x \in RunsOK
  BY <1>4, <1>5
<1> QED BY <1>2, <1>7, <1>8, <1>9, <1>10, <1>11, <1>12, OwnerStep, Zenon

\* A row whose request has another child or effect keeps its guarantees when it is claimed
\* and not yet successful or failed.
LEMMA RowStarts ==
  ASSUME NEW q, NEW c \in Children, NEW f \in Counts, RowGood(q, c, f), NEW i \in Slots,
         q.owner # Nobody, ~Barred(q), q.exec = "dispatching", c[i] = "absent", f[i] = 0
  PROVE  /\ [c EXCEPT ![i] = "running"] \in Children /\ [f EXCEPT ![i] = @ + 1] \in Counts
         /\ RowGood(q, [c EXCEPT ![i] = "running"], [f EXCEPT ![i] = @ + 1])
<1> DEFINE cc == [c EXCEPT ![i] = "running"]
           ff == [f EXCEPT ![i] = @ + 1]
<1>1. /\ cc \in Children /\ ff \in Counts
      /\ \A j \in Slots : /\ cc[j] = IF j = i THEN "running" ELSE c[j]
                          /\ ff[j] = IF j = i THEN 1 ELSE f[j]
  BY DEF Children, ChildStates, Counts
<1> HIDE DEF cc, ff
<1>2. RowGood(q, cc, ff)
  BY <1>1 DEF RowGood
<1> QED BY <1>1, <1>2 DEF cc, ff

LEMMA RowActs ==
  ASSUME NEW q, NEW c \in Children, NEW f \in Counts, RowGood(q, c, f), NEW i \in Slots,
         q.owner # Nobody, q.action = "provider", q.exec = "dispatching", f[i] = 0
  PROVE  /\ [f EXCEPT ![i] = @ + 1] \in Counts /\ [f EXCEPT ![i] = @ + 1][i] = 1
         /\ RowGood(q, c, [f EXCEPT ![i] = @ + 1])
<1> DEFINE ff == [f EXCEPT ![i] = @ + 1]
<1>1. ff \in Counts /\ \A j \in Slots : ff[j] = IF j = i THEN 1 ELSE f[j]
  BY DEF Counts
<1> HIDE DEF ff
<1>2. RowGood(q, c, ff)
  BY <1>1 DEF RowGood, Barred
<1> QED BY <1>1, <1>2 DEF ff

\* An unchanged request.
LEMMA NoChange ==
  ASSUME Inv, NEW r \in Requests
  PROVE  /\ row = [row EXCEPT ![r] = row[r]] /\ child = [child EXCEPT ![r] = child[r]]
         /\ effects = [effects EXCEPT ![r] = effects[r]]
         /\ row[r] \in RowsOK /\ child[r] \in Children /\ effects[r] \in Counts
BY DEF Inv, TypeOK, Children, ChildStates, Counts

\* The dbt rerun and the provider call.
LEMMA ActionSteps ==
  ASSUME Inv, NEW d \in DagRuns, RerunDbt(d) \/ CallProvider(d)
  PROVE  Inv'
<1> DEFINE r == disp[d].req
           c == child[r]
           f == effects[r]
<1>1. disp[d].pc = "act" /\ disp[d].pc \in Working
  BY DEF RerunDbt, CallProvider, Working
<1>2. /\ r \in Requests /\ RowGood(row[r], c, f) /\ RunGood(d, disp[d], row[r], c, f)
      /\ row[r].owner # Nobody /\ ~Barred(row[r]) /\ c \in Children /\ f \in Counts
  BY <1>1, WorkingRun
<1>3. row[r].action # "backfill" /\ UNCHANGED <<row, outbox, projection, op, rec>>
  BY DEF RerunDbt, CallProvider
<1>4. f[1] = 0 /\ c[1] = "absent" /\ row[r].exec = "dispatching" /\ 1 \in Slots
  BY <1>1, <1>2, <1>3, OneIsSlot DEF RunGood
<1>5. CASE RerunDbt(d)
  <2>1. PICK a \in {"dispatched", "failed"} :
          /\ disp' = [disp EXCEPT ![d].pc = "record", ![d].result = a]
          /\ \/ Starts(r, 1)
             \/ UNCHANGED <<child, effects>>
    BY <1>5 DEF RerunDbt
  <2>2. row[r].action = "rerun_dbt" /\ a \in {"dispatched", "unknown", "broken_answer"} \cup Terminal /\ a # "succeeded"
    BY <1>5 DEF RerunDbt, Terminal
  <2>3. CASE Starts(r, 1)
    <3> DEFINE cc == [c EXCEPT ![1] = "running"]
               ff == [f EXCEPT ![1] = @ + 1]
    <3>1. cc \in Children /\ ff \in Counts /\ RowGood(row[r], cc, ff)
      BY <1>2, <1>4, RowStarts
    <3>2. child' = [child EXCEPT ![r] = cc] /\ effects' = [effects EXCEPT ![r] = ff]
      BY <2>3 DEF Starts, Happens
    <3> HIDE DEF cc, ff
    <3>3. Changes(r, row[r], cc, ff)
      BY <1>2, <1>3, <3>1, <3>2, NoChange DEF Changes
    <3> QED BY <1>1, <1>3, <2>1, <2>2, <3>1, <3>3, OneEffect
  <2>4. CASE UNCHANGED <<child, effects>>
    <3>1. Changes(r, row[r], c, f)
      BY <1>2, <1>3, <2>4, NoChange DEF Changes
    <3> QED BY <1>1, <1>2, <1>3, <2>1, <2>2, <3>1, OneEffect
  <2> QED BY <2>1, <2>3, <2>4
<1>6. CASE CallProvider(d)
  <2>1. PICK a \in {"succeeded", "failed", "unknown", "broken_answer"} :
          /\ disp' = [disp EXCEPT ![d].pc = "record", ![d].result = a]
          /\ \/ a # "failed" /\ Happens(r, 1)
             \/ a # "succeeded" /\ UNCHANGED effects
    BY <1>6 DEF CallProvider
  <2>2. row[r].action = "provider" /\ a \in {"dispatched", "unknown", "broken_answer"} \cup Terminal
        /\ UNCHANGED child
    BY <1>6 DEF CallProvider, Terminal
  <2>3. CASE a # "failed" /\ Happens(r, 1)
    <3> DEFINE ff == [f EXCEPT ![1] = @ + 1]
    <3>1. ff \in Counts /\ ff[1] = 1 /\ RowGood(row[r], c, ff)
      BY <1>2, <1>4, <2>2, RowActs
    <3>2. effects' = [effects EXCEPT ![r] = ff]
      BY <2>3 DEF Happens
    <3> HIDE DEF ff
    <3>3. Changes(r, row[r], c, ff)
      BY <1>2, <1>3, <2>2, <3>1, <3>2, NoChange DEF Changes
    <3> QED BY <1>1, <1>3, <2>1, <2>2, <2>3, <3>1, <3>3, OneEffect
  <2>4. CASE a # "succeeded" /\ UNCHANGED effects
    <3>1. Changes(r, row[r], c, f)
      BY <1>2, <1>3, <2>2, <2>4, NoChange DEF Changes
    <3> QED BY <1>1, <1>2, <1>3, <1>4, <2>1, <2>2, <2>4, <3>1, OneEffect
  <2> QED BY <2>1, <2>3, <2>4
<1> QED BY <1>5, <1>6

\* An outcome e is recorded in a claimed row, with its error g and a new version.
Outcome(q, e, g) == [q EXCEPT !.exec = e, !.error = g, !.version = q.version + 1]

\* What happened allows the report of e with the error g.
Founded(q, c, f, e, g) ==
  /\ e = "succeeded" /\ ~Barred(q) =>
       IF q.action = "provider" THEN f[1] = 1 ELSE \A i \in PartsFor(q) : c[i] = "success"
  /\ q.action = "provider" /\ e = "failed" => f[1] = 0 \/ g = "broken_answer"

LEMMA RowReports ==
  ASSUME NEW q \in RowsOK, NEW c, NEW f, RowGood(q, c, f), q.owner # Nobody,
         NEW e \in InFlight \cup Terminal, NEW g \in {"none", "broken_answer"},
         Founded(q, c, f, e, g)
  PROVE  LET n == Outcome(q, e, g) IN
         /\ n \in RowsOK /\ RowGood(n, c, f)
         /\ n.exec = e /\ n.owner = q.owner /\ n.action = q.action /\ n.wait = q.wait
         /\ n.eligible = q.eligible /\ n.status = q.status /\ n.version = q.version + 1
<1> DEFINE v == q.version + 1
           n == [q EXCEPT !.exec = e, !.error = g, !.version = v]
<1>1. v \in Nat
  BY DEF RowsOK
<1>2. Outcome(q, e, g) = n /\ v = q.version + 1
  BY DEF Outcome
<1> HIDE DEF v
<1>3. /\ n \in RowsOK /\ n.exec = e /\ n.owner = q.owner /\ n.action = q.action
      /\ n.status = q.status /\ n.version = v /\ n.error = g
  BY <1>1 DEF RowsOK
<1>4. n.wait = q.wait /\ n.eligible = q.eligible
  BY DEF RowsOK
<1> HIDE DEF n
<1>5. Barred(n) = Barred(q) /\ PartsFor(n) = PartsFor(q)
  BY <1>3, <1>4 DEF Barred, PartsFor
<1>6. e # "not_started" /\ q.exec # "not_started"
  BY DEF InFlight, Terminal, RowGood
<1>7. RowGood(n, c, f)
  BY <1>3, <1>5, <1>6 DEF RowGood, Founded
<1> QED BY <1>2, <1>3, <1>4, <1>7

\* A run that works records an outcome, and then ends or goes on to report a failure.
LEMMA Reported ==
  ASSUME Inv, NEW d \in DagRuns, disp[d].pc \in Working, NEW r, r = disp[d].req,
         NEW e \in InFlight \cup Terminal, NEW g \in {"none", "broken_answer"}, Report(r, e, g),
         UNCHANGED <<projection, op, child, effects, rec>>,
         Founded(row[r], child[r], effects[r], e, g),
         NEW x \in RunsOK, disp' = [disp EXCEPT ![d] = x], x.req = r,
         x.pc \notin Working => x.next = 1,
         x.pc \in Over \/ (x.pc = "mark" /\ row[r].action = "backfill"
                             /\ e \in {"dispatched", "succeeded"}),
         x.pc = "ok" /\ row[r].action = "backfill" /\ row[r].wait => e \in Terminal
  PROVE  Inv'
<1> DEFINE q == row[r]
           c == child[r]
           f == effects[r]
           n == Outcome(q, e, g)
<1>1. /\ r \in Requests /\ disp[d].req \in {r, Nobody}
      /\ q \in RowsOK /\ c \in Children /\ f \in Counts
      /\ RowGood(q, c, f) /\ q.owner = d /\ d # Nobody /\ ~Barred(q)
      /\ rec # NoRec /\ rec.req = r => RecGood(rec, q, c, disp[d]) /\ q.action = "rerun_dbt"
  BY WorkingRun
<1>2. Write(r, n)
  <2>1. [[q EXCEPT !.exec = e, !.error = g] EXCEPT !.version = q.version + 1] = n
    BY DEF Outcome
  <2> QED BY <2>1 DEF Report, Changed
<1>3. /\ n \in RowsOK /\ RowGood(n, c, f)
      /\ n.exec = e /\ n.owner = q.owner /\ n.action = q.action /\ n.wait = q.wait
      /\ n.eligible = q.eligible
  <2>1. q \in RowsOK /\ RowGood(q, c, f) /\ q.owner # Nobody /\ Founded(q, c, f, e, g)
    BY <1>1
  <2> HIDE DEF q, c, f
  <2> QED BY <2>1, RowReports
<1> HIDE DEF n
<1>4. n.version \in Nat
  BY <1>3 DEF RowsOK
<1>5. Changes(r, n, c, f)
  BY <1>1, <1>2, <1>3, NoChange DEF Changes, Write
<1>6. Rest
  BY <1>1, <1>2, <1>4, RestWrites
<1>7. RunGood(d, x, n, c, f)
  BY <1>1, <1>3 DEF RunGood, Working, Over, Barred
<1>8. e # "not_started"
  BY DEF InFlight, Terminal
<1>9. rec # NoRec /\ rec.req = r =>
        RecGood(rec, n, c, IF n.owner = d THEN x ELSE disp[n.owner])
  BY <1>1, <1>3, <1>8 DEF RecGood, PartsFor
<1>10. row[r].owner \in {d, Nobody} /\ n.owner = d
  BY <1>1, <1>3
<1> HIDE DEF q, c, f
<1> QED BY <1>1, <1>3, <1>5, <1>6, <1>7, <1>9, <1>10, RunStep

\* A run that ends records an outcome of its request, or none.
LEMMA EndStep ==
  ASSUME Inv, NEW d \in DagRuns, disp[d].pc \in Working, NEW r, r = disp[d].req,
         NEW pc \in Over, Become(d, pc),
         UNCHANGED <<projection, op, child, effects, rec>>,
         \/ UNCHANGED <<row, outbox>> /\ pc = "failed"
         \/ \E e \in InFlight \cup Terminal, g \in {"none", "broken_answer"} :
              /\ Report(r, e, g) /\ Founded(row[r], child[r], effects[r], e, g)
              /\ pc = "ok" /\ row[r].action = "backfill" /\ row[r].wait => e \in Terminal
  PROVE  Inv'
<1> DEFINE x == [NewRun EXCEPT !.req = disp[d].req, !.pc = pc]
<1>1. disp' = [disp EXCEPT ![d] = x]
  BY DEF Become
<1>2. x \in RunsOK /\ x.req = r /\ x.pc = pc /\ x.next = 1
  <2>1. pc \in {"idle", "ok", "failed"}
    BY DEF Over
  <2> QED BY <2>1, Ended
<1> HIDE DEF x
<1>3. r \in Requests /\ disp[d].req \in {r, Nobody}
  BY WorkingRun
<1>4. x.pc \notin Working
  BY <1>2 DEF Working, Over
<1>5. CASE UNCHANGED <<row, outbox>> /\ pc = "failed"
  <2>1. RunGood(d, x, row[r], child[r], effects[r])
    BY <1>2, <1>5, QuietRun
  <2> QED BY <1>1, <1>2, <1>3, <1>4, <1>5, <2>1, RestSame, RunAlone
<1>6. ASSUME NEW e \in InFlight \cup Terminal, NEW g \in {"none", "broken_answer"},
             Report(r, e, g), Founded(row[r], child[r], effects[r], e, g),
             pc = "ok" /\ row[r].action = "backfill" /\ row[r].wait => e \in Terminal
      PROVE  Inv'
  BY <1>1, <1>2, <1>6, Reported
<1> QED BY <1>5, <1>6

\* The end of an approved action, of a dispatcher, and of a failed dispatch.
LEMMA EndSteps ==
  ASSUME Inv, NEW d \in DagRuns, RecordAction(d) \/ MarkFailed(d)
  PROVE  Inv'
<1> DEFINE r == disp[d].req
           e == disp[d].result
<1>1. disp[d].pc \in Working
  BY DEF RecordAction, MarkFailed, Working
<1>2. /\ r \in Requests /\ disp[d] \in RunsOK
      /\ RunGood(d, disp[d], row[r], child[r], effects[r])
  BY <1>1, WorkingRun
<1>3. UNCHANGED <<projection, op, child, effects, rec>>
  BY DEF RecordAction, MarkFailed
<1>4. CASE RecordAction(d)
  <2> DEFINE o == IF e = "broken_answer" THEN "failed" ELSE e
             g == IF e = "broken_answer" THEN "broken_answer" ELSE "none"
  <2>1. /\ disp[d].pc = "record" /\ row[r].action # "backfill"
        /\ \/ Report(r, o, g) /\ (Become(d, "failed") \/ Become(d, "ok"))
           \/ Become(d, "failed") /\ UNCHANGED <<row, outbox>>
    BY <1>4 DEF RecordAction
  <2>2. o \in InFlight \cup Terminal /\ g \in {"none", "broken_answer"}
    BY <1>2, <2>1 DEF RunGood, RunsOK, InFlight, Terminal
  <2>3. row[r].action \in Actions
    BY <1>2 DEF Inv, TypeOK, RowsOK
  <2>4. Founded(row[r], child[r], effects[r], o, g)
    BY <1>2, <2>1, <2>3 DEF RunGood, Actions, Founded
  <2>5. CASE Become(d, "failed") /\ UNCHANGED <<row, outbox>>
    BY <1>1, <1>3, <2>5, EndStep DEF Over
  <2>6. ASSUME NEW pc \in Over, Become(d, pc), Report(r, o, g) PROVE Inv'
    <3> HIDE DEF o, g, e
    <3> QED BY <1>1, <1>3, <2>1, <2>2, <2>4, <2>6, EndStep
  <2> QED BY <2>1, <2>5, <2>6 DEF Over
<1>5. CASE MarkFailed(d)
  <2>1. /\ disp[d].pc = "mark" /\ Become(d, "failed")
        /\ Report(r, "failed", "none") \/ UNCHANGED <<row, outbox>>
    BY <1>5 DEF MarkFailed
  <2>2. row[r].action = "backfill"
    BY <1>2, <2>1 DEF RunGood
  <2>3. "failed" \in InFlight \cup Terminal /\ "failed" \in Over
    BY DEF Terminal, Over
  <2>4. CASE UNCHANGED <<row, outbox>>
    BY <1>1, <1>3, <2>1, <2>3, <2>4, EndStep
  <2>5. CASE Report(r, "failed", "none")
    <3>1. Founded(row[r], child[r], effects[r], "failed", "none")
      BY <2>2 DEF Founded
    <3> QED BY <1>1, <1>3, <2>1, <2>2, <2>3, <2>5, <3>1, EndStep
  <2> QED BY <2>1, <2>4, <2>5
<1> QED BY <1>4, <1>5

----------------------------------------------------------------------------
(* The steps of a dispatcher.                                                *)

\* A dispatcher at work starts the child of a date, waits, or goes on.
LEMMA DispatchStep ==
  ASSUME Inv, NEW d \in DagRuns, disp[d].pc \in {"act", "wait"}, NEW r, r = disp[d].req,
         row[r].action = "backfill",
         NEW x \in RunsOK, disp' = [disp EXCEPT ![d] = x], x.req = r,
         x.pc \in {"act", "wait", "mark"}, x.pc = "wait" => x.next <= Dates,
         NEW c, NEW f, Changes(r, row[r], c, f), RowGood(row[r], c, f),
         x.pc \in {"act", "wait"} /\ row[r].wait =>
           x.failures \/ \A i \in 1..(x.next - 1) : c[i] = "success",
         UNCHANGED <<row, outbox, projection, op, rec>>
  PROVE  Inv'
<1>1. disp[d].pc \in Working
  BY DEF Working
<1>2. /\ r \in Requests /\ disp[d].req \in {r, Nobody} /\ row[r].owner = d /\ ~Barred(row[r])
      /\ RunGood(d, disp[d], row[r], child[r], effects[r])
      /\ ~(rec # NoRec /\ rec.req = r)
  BY <1>1, WorkingRun
<1>3. row[r].exec = "dispatching"
  BY <1>2 DEF RunGood
<1>4. RunGood(d, x, row[r], c, f)
  BY <1>2, <1>3 DEF RunGood
<1>5. x.pc \in Working /\ row[r].owner \in {d, Nobody} /\ Rest
  BY <1>2, RestSame DEF Working
<1> QED BY <1>2, <1>4, <1>5, RunStep

LEMMA DispatcherSteps ==
  ASSUME Inv, NEW d \in DagRuns, TriggerChild(d) \/ AwaitChild(d) \/ FinishBackfill(d)
  PROVE  Inv'
<1> DEFINE r == disp[d].req
           i == disp[d].next
           q == row[r]
           c == child[r]
           f == effects[r]
<1>1. disp[d].pc \in Working /\ disp[d].pc \in {"act", "wait"}
  BY DEF TriggerChild, AwaitChild, FinishBackfill, Working
<1>2. /\ r \in Requests /\ disp[d] \in RunsOK /\ c \in Children /\ f \in Counts /\ q \in RowsOK
      /\ RunGood(d, disp[d], q, c, f) /\ RowGood(q, c, f)
      /\ q.owner # Nobody /\ ~Barred(q) /\ q.exec # "not_started"
  BY <1>1, WorkingRun
<1>3. q.action = "backfill" /\ q.exec = "dispatching" /\ i \in 1..(Dates + 1) /\ Dates \in Nat
      /\ disp[d].failures \in BOOLEAN
  BY <1>1, <1>2, OneIsSlot DEF TriggerChild, AwaitChild, FinishBackfill, RunGood, RunsOK
<1>4. \A b \in {"act", "wait", "mark"} :
        LET x == [disp[d] EXCEPT !.pc = b] IN
        x \in RunsOK /\ x.req = r /\ x.pc = b /\ x.next = i /\ x.failures = disp[d].failures
  BY <1>2 DEF RunsOK
<1>5. q.wait => disp[d].failures \/ \A j \in 1..(i - 1) : c[j] = "success"
  BY <1>1, <1>2, <1>3 DEF RunGood
<1>7. CASE TriggerChild(d)
  <2>1. /\ i <= Dates /\ i \in Slots /\ disp[d].pc = "act"
        /\ UNCHANGED <<row, outbox, projection, op, rec>>
    BY <1>3, <1>7 DEF TriggerChild, Slots
  <2>2. PICK b \in {"act", "wait", "mark"}, m \in {i, i + 1} :
          /\ disp' = [disp EXCEPT ![d].pc = b, ![d].next = m]
          /\ b \in {"wait", "mark"} => m = i
          /\ q.wait => b # "act"
          /\ (c[i] = "absent" /\ Starts(r, i)) \/ UNCHANGED <<child, effects>>
    <3>1. [disp EXCEPT ![d].pc = "wait"] = [disp EXCEPT ![d].pc = "wait", ![d].next = i]
      BY <1>2 DEF Inv, TypeOK, RunsOK
    <3>2. [disp EXCEPT ![d].pc = "mark"] = [disp EXCEPT ![d].pc = "mark", ![d].next = i]
      BY <1>2 DEF Inv, TypeOK, RunsOK
    <3>3. [disp EXCEPT ![d].next = i + 1] = [disp EXCEPT ![d].pc = "act", ![d].next = i + 1]
      BY <1>2, <2>1 DEF Inv, TypeOK, RunsOK
    <3>4. Become(d, "mark") => disp' = [disp EXCEPT ![d].pc = "mark"]
      BY DEF Become, Over
    <3>5. CASE /\ c[i] = "absent" /\ Starts(r, i) /\ q.wait
               /\ disp' = [disp EXCEPT ![d].pc = "wait"]
      <4>1. disp' = [disp EXCEPT ![d].pc = "wait", ![d].next = i]
        BY <3>1, <3>5
      <4> QED BY <3>5, <4>1
    <3>6. CASE /\ c[i] = "absent" /\ Starts(r, i) /\ ~q.wait
               /\ disp' = [disp EXCEPT ![d].next = i + 1]
      <4>1. disp' = [disp EXCEPT ![d].pc = "act", ![d].next = i + 1]
        BY <3>3, <3>6
      <4> QED BY <3>6, <4>1
    <3>7. CASE /\ Become(d, "mark")
               /\ (c[i] = "absent" /\ Starts(r, i)) \/ UNCHANGED <<child, effects>>
      <4>1. disp' = [disp EXCEPT ![d].pc = "mark", ![d].next = i]
        BY <3>2, <3>4, <3>7
      <4> QED BY <3>7, <4>1
    <3> QED BY <1>7, <3>5, <3>6, <3>7 DEF TriggerChild
  <2> DEFINE x == [disp[d] EXCEPT !.pc = b, !.next = m]
  <2>3. x \in RunsOK /\ x.req = r /\ x.pc = b /\ x.next = m
    <3>1. m \in 1..(Dates + 1)
      BY <1>3, <2>1, <2>2
    <3> QED BY <1>2, <3>1 DEF RunsOK
  <2>4. x.failures = disp[d].failures
    BY <1>2 DEF RunsOK
  <2>5. disp' = [disp EXCEPT ![d] = x]
    BY <2>2
  <2> HIDE DEF x
  <2>6. \E cc, ff : /\ Changes(r, q, cc, ff) /\ RowGood(q, cc, ff)
                    /\ \A j \in 1..(i - 1) : c[j] = "success" => cc[j] = "success"
    <3>1. CASE c[i] = "absent" /\ Starts(r, i)
      <4> DEFINE cc == [c EXCEPT ![i] = "running"]
                 ff == [f EXCEPT ![i] = @ + 1]
      <4>1. f[i] = 0
        BY <1>2, <1>3, <2>1, <3>1 DEF RowGood
      <4>2. cc \in Children /\ ff \in Counts /\ RowGood(q, cc, ff)
        BY <1>2, <1>3, <2>1, <3>1, <4>1, RowStarts
      <4>3. child' = [child EXCEPT ![r] = cc] /\ effects' = [effects EXCEPT ![r] = ff]
        BY <3>1 DEF Starts, Happens
      <4>4. \A j \in 1..(i - 1) : c[j] = "success" => cc[j] = "success"
        BY <1>2, <1>3, <3>1 DEF Children, Slots
      <4> HIDE DEF cc, ff
      <4>5. Changes(r, q, cc, ff)
        BY <1>2, <2>1, <4>2, <4>3, NoChange DEF Changes
      <4> QED BY <4>2, <4>4, <4>5
    <3>2. CASE UNCHANGED <<child, effects>>
      <4>1. Changes(r, q, c, f)
        BY <1>2, <2>1, <3>2, NoChange DEF Changes
      <4> QED BY <1>2, <4>1
    <3> QED BY <2>2, <3>1, <3>2
  <2>7. PICK cc, ff : /\ Changes(r, q, cc, ff) /\ RowGood(q, cc, ff)
                      /\ \A j \in 1..(i - 1) : c[j] = "success" => cc[j] = "success"
    BY <2>6
  <2>8. x.pc \in {"act", "wait"} /\ q.wait =>
          x.failures \/ \A j \in 1..(x.next - 1) : cc[j] = "success"
    BY <1>5, <2>2, <2>3, <2>4, <2>7
  <2>9. x.pc = "wait" => x.next <= Dates
    BY <2>1, <2>2, <2>3
  <2> QED BY <1>1, <1>3, <2>1, <2>3, <2>5, <2>7, <2>8, <2>9, DispatchStep
<1>8. ASSUME NEW x \in RunsOK, disp' = [disp EXCEPT ![d] = x], x.req = r,
             x.pc \in {"act", "mark"},
             x.pc = "act" /\ q.wait => x.failures \/ \A j \in 1..(x.next - 1) : c[j] = "success",
             UNCHANGED <<row, outbox, projection, op, child, effects, rec>>
      PROVE  Inv'
  <2>1. Changes(r, q, c, f)
    BY <1>2, <1>8, NoChange DEF Changes
  <2> QED BY <1>1, <1>2, <1>3, <1>8, <2>1, DispatchStep
<1>9. CASE AwaitChild(d)
  <2>1. /\ UNCHANGED <<row, outbox, projection, op, child, effects, rec>>
        /\ disp[d].pc = "wait" /\ i <= Dates
    BY <1>2, <1>9 DEF AwaitChild, RunGood
  <2>2. CASE c[i] = "success" /\ disp' = [disp EXCEPT ![d].pc = "act", ![d].next = i + 1]
    <3> DEFINE k == i + 1
               x == [disp[d] EXCEPT !.pc = "act", !.next = k]
    <3>1. /\ x \in RunsOK /\ x.req = r /\ x.pc = "act" /\ x.next = i + 1
      <4>1. k \in 1..(Dates + 1) /\ k = i + 1
        BY <1>3, <2>1
      <4> HIDE DEF k
      <4> QED BY <1>2, <4>1 DEF RunsOK
    <3>2. x.failures = disp[d].failures
      BY <1>2 DEF RunsOK
    <3>3. disp' = [disp EXCEPT ![d] = x]
      BY <2>2
    <3> HIDE DEF x
    <3>4. q.wait => x.failures \/ \A j \in 1..(x.next - 1) : c[j] = "success"
      BY <1>3, <1>5, <2>2, <3>1, <3>2
    <3> QED BY <1>8, <2>1, <3>1, <3>3, <3>4
  <2>3. ASSUME NEW b \in {"act", "mark"},
               disp' = [disp EXCEPT ![d].pc = b, ![d].next = i + 1, ![d].failures = TRUE]
        PROVE  Inv'
    <3> DEFINE k == i + 1
               x == [disp[d] EXCEPT !.pc = b, !.next = k, !.failures = TRUE]
    <3>1. /\ x \in RunsOK /\ x.req = r /\ x.pc = b
      <4>1. k \in 1..(Dates + 1)
        BY <1>3, <2>1
      <4> HIDE DEF k
      <4> QED BY <1>2, <4>1 DEF RunsOK
    <3>2. x.failures = TRUE
      BY <1>2 DEF RunsOK
    <3>3. disp' = [disp EXCEPT ![d] = x]
      BY <2>3
    <3> HIDE DEF x
    <3> QED BY <1>8, <2>1, <3>1, <3>2, <3>3
  <2>4. CASE Become(d, "mark")
    <3> DEFINE x == [disp[d] EXCEPT !.pc = "mark"]
    <3>1. x \in RunsOK /\ x.req = r /\ x.pc = "mark"
      BY <1>4
    <3>2. disp' = [disp EXCEPT ![d] = x]
      BY <2>4 DEF Become, Over
    <3> HIDE DEF x
    <3> QED BY <1>8, <2>1, <3>1, <3>2
  <2> QED BY <1>9, <2>2, <2>3, <2>4 DEF AwaitChild
<1>10. CASE FinishBackfill(d)
  <2> DEFINE e == IF q.wait THEN "succeeded" ELSE "dispatched"
  <2>1. /\ UNCHANGED <<projection, op, child, effects, rec>>
        /\ disp[d].pc = "act" /\ i > Dates
        /\ \/ /\ ~disp[d].failures /\ Report(r, e, "none")
              /\ Become(d, "ok") \/ Become(d, "mark")
           \/ Become(d, "mark") /\ UNCHANGED <<row, outbox>>
    BY <1>10 DEF FinishBackfill
  <2>2. e \in InFlight \cup Terminal /\ (e = "succeeded" <=> q.wait)
    BY DEF InFlight, Terminal
  <2>3. CASE Become(d, "mark") /\ UNCHANGED <<row, outbox>>
    <3> DEFINE x == [disp[d] EXCEPT !.pc = "mark"]
    <3>1. x \in RunsOK /\ x.req = r /\ x.pc = "mark"
      BY <1>4
    <3>2. disp' = [disp EXCEPT ![d] = x]
      BY <2>3 DEF Become, Over
    <3> HIDE DEF x
    <3> QED BY <1>8, <2>1, <2>3, <3>1, <3>2
  <2>4. ASSUME ~disp[d].failures, Report(r, e, "none"), Become(d, "ok") \/ Become(d, "mark")
        PROVE  Inv'
    <3>1. q.wait => \A j \in Slots : c[j] = "success"
      BY <1>3, <1>5, <2>1, <2>4 DEF Slots
    <3>2. Founded(q, c, f, e, "none")
      BY <1>3, <2>2, <3>1 DEF PartsFor, Founded
    <3>3. q.wait => e \in Terminal
      BY DEF Terminal
    <3>4. e \in {"dispatched", "succeeded"}
      OBVIOUS
    <3> HIDE DEF e
    <3>5. CASE Become(d, "ok")
      <4>1. "ok" \in Over
        BY DEF Over
      <4> QED BY <1>1, <1>3, <2>1, <2>2, <2>4, <3>2, <3>3, <3>5, <4>1, EndStep
    <3>6. CASE Become(d, "mark")
      <4> DEFINE x == [disp[d] EXCEPT !.pc = "mark"]
      <4>1. x \in RunsOK /\ x.req = r /\ x.pc = "mark"
        BY <1>4
      <4>2. disp' = [disp EXCEPT ![d] = x]
        BY <3>6 DEF Become, Over
      <4>3. x.pc \in Working
        BY <4>1 DEF Working
      <4> HIDE DEF x
      <4> QED BY <1>1, <1>3, <2>1, <2>2, <2>4, <3>2, <3>4, <4>1, <4>2, <4>3, Reported
    <3> QED BY <2>4, <3>5, <3>6
  <2> QED BY <2>1, <2>3, <2>4
<1> QED BY <1>7, <1>9, <1>10

----------------------------------------------------------------------------
(* The steps of people, of Airflow and of the reconciler.                    *)

\* A request that is still unclaimed, or was finished elsewhere, changes.
LEMMA StoreStep ==
  ASSUME Inv, NEW r \in Requests, NEW n \in RowsOK, Write(r, n),
         UNCHANGED <<projection, disp, child, effects>>, Rest,
         row[r].owner = Nobody, n.owner # Nobody => Barred(n) /\ n.exec \in Terminal,
         n.owner = Nobody => n.exec = "not_started",
         n.exec # "not_started" => n.status = "approved",
         rec' = rec
  PROVE  Inv'
<1> DEFINE c == child[r]
           f == effects[r]
<1>1. Changes(r, n, c, f)
  BY NoChange DEF Changes, Write
<1>2. RowGood(row[r], c, f)
  BY DEF Inv, RowsGood
<1>3. \A i \in Slots : f[i] = 0 /\ c[i] = "absent"
  BY <1>2 DEF RowGood
<1>4. n.owner # Nobody <=> n.exec # "not_started"
  BY DEF Terminal
<1>5. RowGood(n, c, f)
  BY <1>3, <1>4, OneIsSlot DEF RowGood
<1>6. OwnerGood(r, n, disp[n.owner])
  BY DEF OwnerGood
<1>7. ASSUME NEW e \in DagRuns, disp[e].req = r PROVE RunGood(e, disp[e], n, c, f)
  <2>1. RunGood(e, disp[e], row[r], c, f) /\ e # Nobody
    BY <1>7, ApprovalAssumption DEF Inv, RunsGood
  <2>2. disp[e].pc \notin Working
    BY <2>1 DEF RunGood
  <2>3. n.owner = e => n.exec \in Terminal
    BY <2>1
  <2> QED BY <2>2, <2>3 DEF RunGood, Working
<1>8. ~(rec # NoRec /\ rec.req = r)
  BY <1>2 DEF Inv, HeldGood, RecGood, RowGood
<1> HIDE DEF c, f
<1> QED BY <1>1, <1>5, <1>6, <1>7, <1>8, RequestStep

\* Requests are created and imported.
LEMMA CreateSteps ==
  ASSUME Inv, NEW r \in Requests, Create(r) \/ ImportLegacy(r)
  PROVE  Inv'
<1>1. UNCHANGED <<projection, op, disp, child, effects, rec>> /\ row[r].status = "none"
  BY DEF Create, ImportLegacy
<1>2. row[r].owner = Nobody
  BY <1>1 DEF Inv, RowsGood, RowGood
<1>3. CASE Create(r)
  <2>1. PICK a \in Actions, e, w, f \in BOOLEAN, q \in Operators \cup {Nobody} :
          /\ a # "backfill" => e /\ ~w
          /\ (~e => ~w) /\ (~w => ~f)
          /\ Write(r, [NoRow EXCEPT !.status = "pending", !.version = 1, !.action = a,
                                    !.requester = q, !.eligible = e, !.wait = w, !.failFast = f])
    BY <1>3, Zenon DEF Create
  <2> DEFINE n == [NoRow EXCEPT !.status = "pending", !.version = 1, !.action = a,
                                !.requester = q, !.eligible = e, !.wait = w, !.failFast = f]
  <2>2. n \in RowsOK /\ n.owner = Nobody /\ n.exec = "not_started" /\ n.version = 1
    BY DEF NoRow, RowsOK
  <2> HIDE DEF n
  <2>3. Write(r, n)
    BY <2>1 DEF n
  <2>4. n.version \in Nat
    BY <2>2
  <2>5. Rest
    BY <1>1, <2>3, <2>4, RestWrites
  <2> QED BY <1>1, <1>2, <2>2, <2>3, <2>5, StoreStep
<1>4. CASE ImportLegacy(r)
  <2>1. PICK s \in {"pending", "approved", "rejected", "cancelled"}, d \in DagRuns,
             e \in {"not_started"} \cup Terminal :
          /\ e # "not_started" => s = "approved"
          /\ Write(r, [NoRow EXCEPT !.status = s, !.exec = e, !.version = 1, !.action = "backfill",
                          !.owner = IF e = "not_started" THEN Nobody ELSE d])
    BY <1>4 DEF ImportLegacy
  <2> DEFINE o == IF e = "not_started" THEN Nobody ELSE d
             n == [NoRow EXCEPT !.status = s, !.exec = e, !.version = 1, !.action = "backfill",
                                !.owner = o]
  <2>2. o \in DagRuns \cup {Nobody} /\ (o # Nobody => e \in Terminal)
        /\ (o = Nobody => e = "not_started")
    BY ApprovalAssumption
  <2>3. Write(r, n)
    BY <2>1
  <2> HIDE DEF o
  <2>4. /\ n \in RowsOK /\ n.owner = o /\ n.exec = e /\ n.version = 1 /\ n.status = s
        /\ n.action = "backfill"
    BY <2>2 DEF NoRow, RowsOK, Actions
  <2>5. n.eligible = FALSE
    BY DEF NoRow
  <2> HIDE DEF n
  <2>6. n.version \in Nat
    BY <2>4
  <2>7. Rest
    BY <1>1, <2>3, <2>6, RestWrites
  <2> QED BY <1>1, <1>2, <2>1, <2>2, <2>3, <2>4, <2>5, <2>7, StoreStep DEF Barred
<1> QED BY <1>3, <1>4

\* A person reads, and later decides or cancels.
LEMMA PeopleSteps ==
  ASSUME Inv, NEW o \in Operators,
         \/ CompareAndSet(o)
         \/ \E r \in Requests, what \in {"approved", "rejected", "cancelled"} :
              ReadForChange(o, r, what)
  PROVE  Inv'
<1>1. UNCHANGED <<projection, disp, child, effects, rec>>
  BY DEF CompareAndSet, ReadForChange
<1>2. ASSUME UNCHANGED <<row, outbox>>, Rest PROVE Inv'
  BY <1>1, <1>2 DEF Inv, TypeOK, RowsGood, RunsGood, HeldGood, Rest
<1>3. ASSUME NEW r \in Requests, NEW what \in {"approved", "rejected", "cancelled"},
             ReadForChange(o, r, what)
      PROVE  Inv'
  <2>1. /\ UNCHANGED <<row, outbox>>
        /\ op' = [op EXCEPT ![o] = [req |-> r, what |-> what, seen |-> row[r].version]]
    BY <1>3 DEF ReadForChange
  <2>2. row[r].version \in Nat
    BY DEF Inv, TypeOK, RowsOK
  <2>3. Rest
    BY <1>1, <2>1, <2>2 DEF Inv, TypeOK, Rest, CallsGood
  <2> QED BY <1>2, <2>1, <2>3
<1>4. CASE CompareAndSet(o)
  <2> DEFINE r == op[o].req
             what == op[o].what
  <2>1. /\ op[o] # IdleOp /\ op' = [op EXCEPT ![o] = IdleOp]
        /\ r \in Requests /\ what \in {"approved", "rejected", "cancelled"}
    BY <1>4 DEF CompareAndSet, Inv, CallsGood, TypeOK
  <2>2. /\ op' \in [Operators -> [req : Requests \cup {Nobody}, seen : Nat,
                                  what : {"none", "approved", "rejected", "cancelled"}]]
        /\ CallsGood'
    BY <2>1 DEF Inv, TypeOK, CallsGood, IdleOp
  <2>3. CASE UNCHANGED <<row, outbox>>
    <3>1. Rest
      BY <1>1, <2>2, <2>3 DEF Inv, TypeOK, Rest
    <3> QED BY <1>2, <2>3, <3>1
  <2>4. CASE Allowed(o, r, what) /\ Changed(r, [row[r] EXCEPT !.status = what])
    <3> DEFINE v == row[r].version + 1
               n == [row[r] EXCEPT !.status = what, !.version = v]
    <3>1. row[r] \in RowsOK /\ v \in Nat
      BY <2>1 DEF Inv, TypeOK, RowsOK
    <3>2. Write(r, n)
      BY <2>4 DEF Changed
    <3>3. row[r].exec = "not_started" /\ row[r].owner = Nobody
      BY <2>1, <2>4 DEF Allowed, Decidable, Cancellable, Inv, RowsGood, RowGood
    <3> HIDE DEF v, what
    <3>4. n \in RowsOK /\ n.exec = "not_started" /\ n.owner = Nobody /\ n.version = v
      BY <2>1, <3>1, <3>3 DEF RowsOK
    <3> HIDE DEF n
    <3>5. Rest
      BY <1>1, <2>1, <2>2, <3>1, <3>2, <3>4 DEF Inv, TypeOK, Rest, Write
    <3> QED BY <1>1, <2>1, <3>2, <3>3, <3>4, <3>5, StoreStep
  <2> QED BY <1>4, <2>3, <2>4 DEF CompareAndSet
<1> QED BY <1>3, <1>4

\* A child run ends.
LEMMA ChildStep ==
  ASSUME Inv, NEW r \in Requests, NEW i \in Slots, ChildEnds(r, i)
  PROVE  Inv'
<1> DEFINE q == row[r]
           c == child[r]
           f == effects[r]
<1>1. /\ c[i] = "running" /\ UNCHANGED <<row, outbox, projection, op, disp, effects, rec>>
      /\ q \in RowsOK /\ c \in Children /\ f \in Counts /\ RowGood(q, c, f)
  BY NoChange DEF ChildEnds, Inv, RowsGood
<1>2. PICK e \in {"success", "failed"} : child' = [child EXCEPT ![r][i] = e]
  BY DEF ChildEnds
<1> DEFINE cc == [c EXCEPT ![i] = e]
<1>3. /\ cc \in Children /\ child' = [child EXCEPT ![r] = cc]
      /\ \A j \in Slots : cc[j] = IF j = i THEN e ELSE c[j]
  BY <1>1, <1>2 DEF Children, ChildStates
<1>4. Changes(r, q, cc, f)
  BY <1>1, <1>3, NoChange DEF Changes
<1>5. \A j \in Slots : /\ c[j] \in {"success", "failed", "absent"} => cc[j] = c[j]
                       /\ cc[j] = "absent" <=> c[j] = "absent"
  BY <1>1, <1>3
<1>6. 1 \in Slots /\ PartsFor(q) \subseteq Slots
  BY OneIsSlot DEF PartsFor
<1> HIDE DEF cc, c, f, q
<1>7. RowGood(q, cc, f)
  BY <1>1, <1>5, <1>6 DEF RowGood
<1>8. OwnerGood(r, q, disp[q.owner])
  BY DEF Inv, RowsGood, q
<1>9. ASSUME NEW d \in DagRuns, disp[d].req = r PROVE RunGood(d, disp[d], q, cc, f)
  <2>1. RunGood(d, disp[d], q, c, f) /\ disp[d] \in RunsOK
    BY <1>9 DEF Inv, RunsGood, TypeOK, q, c, f
  <2>2. disp[d].pc \in {"act", "wait"} /\ q.action = "backfill" /\ q.wait =>
          disp[d].failures \/ \A j \in 1..(disp[d].next - 1) : cc[j] = "success"
    <3>1. disp[d].next \in 1..(Dates + 1) /\ Dates \in Nat
      BY <2>1, OneIsSlot DEF RunsOK
    <3>2. \A j \in 1..(disp[d].next - 1) : j \in Slots
      BY <3>1 DEF Slots
    <3> QED BY <1>5, <2>1, <3>2 DEF RunGood
  <2> QED BY <1>5, <1>6, <2>1, <2>2 DEF RunGood
<1>10. rec # NoRec /\ rec.req = r => RecGood(rec, q, cc, disp[q.owner])
  <2>1. rec # NoRec /\ rec.req = r => RecGood(rec, q, c, disp[q.owner])
    BY DEF Inv, HeldGood, q, c
  <2> QED BY <1>5, <1>6, <2>1 DEF RecGood
<1> QED BY <1>1, <1>4, <1>7, <1>8, <1>9, <1>10, RestSame, RequestStep

\* The reconciler looks a request up.
LEMMA InspectStep ==
  ASSUME Inv, NEW r \in Requests, Inspect(r)
  PROVE  Inv'
<1> DEFINE q == row[r]
           c == child[r]
           d == q.owner
           u == IF Observed(r) = "success" THEN "succeeded" ELSE "failed"
           v == [req |-> r, result |-> u]
<1>1. /\ q.action # "provider" /\ q.exec \in InFlight /\ Observed(r) # "unresolved"
      /\ rec' = v /\ UNCHANGED <<row, outbox, projection, op, disp, child, effects>>
  BY DEF Inspect
<1>2. /\ q \in RowsOK /\ c \in Children /\ RowGood(q, c, effects[r]) /\ 1 \in Slots
      /\ q.action \in {"rerun_dbt", "backfill"} /\ q.exec # "not_started" /\ q.exec \notin Terminal
  BY <1>1, NoChange, OneIsSlot DEF Inv, RowsGood, RowsOK, Actions, InFlight, Terminal
<1>3. /\ v.req = r /\ v.result = u /\ u \in Terminal
      /\ v \in [req : Requests \cup {Nobody}, result : Terminal \cup {"none"}]
  BY DEF Terminal
<1>4. CASE q.action = "rerun_dbt"
  <2>1. c[1] \in {"success", "failed"} /\ (u = "succeeded" => c[1] = "success")
    BY <1>1, <1>4 DEF Observed
  <2>2. PartsFor(q) = {1}
    BY <1>4 DEF PartsFor
  <2> QED BY <1>1, <1>2, <1>3, <1>4, <2>1, <2>2 DEF Inv, TypeOK, RowsGood, RunsGood, CallsGood,
            HeldGood, RecGood
<1>5. CASE q.action = "backfill"
  <2>1. d \in DagRuns /\ disp[d].pc \in Over /\ disp[d].req = r
    BY <1>1, <1>2, <1>5 DEF Observed, RowsOK
  <2>2. disp[d].pc \notin Working
    BY <2>1 DEF Over, Working
  <2>3. RunGood(d, disp[d], q, c, effects[r])
    BY <2>1 DEF Inv, RunsGood
  <2>4. ~(q.wait /\ disp[d].pc = "ok")
    BY <1>2, <1>5, <2>3 DEF RunGood
  <2>5. ASSUME u = "succeeded", NEW i \in Slots PROVE c[i] = "success"
    <3>1. Observed(r) = "success"
      BY <2>5
    <3>2. ~q.wait
      BY <1>5, <2>1, <2>4, <3>1 DEF Observed
    <3>3. /\ \A j \in Slots : c[j] # "running" /\ ~(c[j] = "absent" /\ disp[d].pc = "ok")
          /\ disp[d].pc # "failed" /\ \A j \in Slots : c[j] # "failed"
      BY <1>1, <1>5, <2>1, <3>1, <3>2 DEF Observed
    <3>4. disp[d].pc = "ok"
      BY <2>1, <3>3 DEF Over
    <3> QED BY <1>2, <3>3, <3>4 DEF Children, ChildStates
  <2>6. PartsFor(q) = Slots
    BY <1>5 DEF PartsFor
  <2>7. RecGood(v, q, c, disp[d])
    <3> HIDE DEF u
    <3> QED BY <1>2, <1>3, <1>5, <2>1, <2>2, <2>5, <2>6 DEF RecGood
  <2> QED BY <1>1, <1>3, <2>7 DEF Inv, TypeOK, RowsGood, RunsGood, CallsGood, HeldGood
<1> QED BY <1>2, <1>4, <1>5

\* The reconciler settles what it looked up.
LEMMA ReconcileStep ==
  ASSUME Inv, Reconcile
  PROVE  Inv'
<1> DEFINE r == rec.req
           q == row[r]
           c == child[r]
           f == effects[r]
           e == rec.result
<1>1. rec # NoRec /\ rec' = NoRec /\ UNCHANGED <<projection, op, disp, child, effects>>
  BY DEF Reconcile
<1>2. /\ r \in Requests /\ RecGood(rec, q, c, disp[q.owner])
      /\ RowGood(q, c, f) /\ OwnerGood(r, q, disp[q.owner]) /\ q \in RowsOK
  BY <1>1 DEF Inv, HeldGood, RowsGood, TypeOK
<1>3. CASE UNCHANGED <<row, outbox>>
  <2>1. rec' \in [req : Requests \cup {Nobody}, result : Terminal \cup {"none"}]
    BY <1>1 DEF NoRec
  <2> QED BY <1>1, <1>3, <2>1 DEF Inv, TypeOK, RowsGood, RunsGood, CallsGood, HeldGood
<1>4. CASE q.exec \in InFlight /\ Report(r, e, q.error)
  <2> DEFINE n == Outcome(q, e, q.error)
  <2>1. Write(r, n)
    <3>1. [[q EXCEPT !.exec = e, !.error = q.error] EXCEPT !.version = q.version + 1] = n
      BY DEF Outcome
    <3> QED BY <1>4, <3>1 DEF Report, Changed
  <2>2. e \in Terminal /\ e \in InFlight \cup Terminal /\ q.owner # Nobody
        /\ q.action # "provider"
    BY <1>2 DEF RecGood, RowGood
  <2>3. e = "succeeded" => \A i \in PartsFor(q) : c[i] = "success"
    BY <1>2 DEF RecGood
  <2>4. /\ n \in RowsOK /\ RowGood(n, c, f)
        /\ n.exec = e /\ n.owner = q.owner /\ n.action = q.action /\ n.wait = q.wait
        /\ n.eligible = q.eligible
    <3>1. q.error \in {"none", "broken_answer"} /\ Founded(q, c, f, e, q.error)
      BY <1>2, <2>2, <2>3 DEF RowsOK, Founded
    <3> QED BY <1>2, <2>2, <3>1, RowReports
  <2> HIDE DEF n
  <2>5. n.version \in Nat
    BY <2>4 DEF RowsOK
  <2>6. Changes(r, n, c, f)
    BY <1>1, <1>2, <2>1, <2>4, NoChange DEF Changes, Write
  <2>7. Rest
    BY <1>1, <1>2, <2>1, <2>5, RestWrites
  <2>8. OwnerGood(r, n, disp[n.owner])
    BY <1>2, <1>4, <2>4 DEF OwnerGood, InFlight, Terminal
  <2>9. ASSUME NEW d \in DagRuns, disp[d].req = r PROVE RunGood(d, disp[d], n, c, f)
    <3>1. RunGood(d, disp[d], q, c, f)
      BY <1>2, <2>9 DEF Inv, RunsGood
    <3>2. disp[d].pc \notin {"act", "wait", "mark"}
      <4>1. CASE q.action = "rerun_dbt"
        BY <1>2, <3>1, <4>1 DEF RecGood, RunGood
      <4>2. CASE q.action # "rerun_dbt"
        BY <1>2, <3>1, <4>2 DEF RecGood, RunGood, Working
      <4> QED BY <4>1, <4>2
    <3> QED BY <2>2, <2>4, <3>1, <3>2 DEF RunGood, Working, Barred
  <2> HIDE DEF q, c, f, r
  <2>10. UNCHANGED disp /\ r \in Requests
    BY <1>1, <1>2
  <2> QED BY <1>1, <2>4, <2>6, <2>7, <2>8, <2>9, <2>10, RequestStep
<1> QED BY <1>3, <1>4 DEF Reconcile

\* The larger of two versions.
LEMMA MaxOfTwo ==
  ASSUME NEW a \in Nat, NEW b \in Nat
  PROVE  Max({a, b}) = IF a >= b THEN a ELSE b
<1> DEFINE m == IF a >= b THEN a ELSE b
<1>1. m \in {a, b} /\ \A y \in {a, b} : m >= y
  OBVIOUS
<1>2. \A x \in {a, b} : (\A y \in {a, b} : x >= y) => x = m
  OBVIOUS
<1> QED BY <1>1, <1>2 DEF Max

\* A projection is delivered.
LEMMA DeliverStep ==
  ASSUME Inv, NEW r \in Requests, NEW v, Deliver(r, v)
  PROVE  Inv'
<1>1. UNCHANGED <<row, op, disp, child, effects, rec>>
  BY DEF Deliver
<1>2. v \in Nat /\ projection[r] \in Nat
  BY DEF Inv, TypeOK, Deliver
<1>3. Max({projection[r], v}) \in Nat
  BY <1>2, MaxOfTwo
<1>4. projection' \in [Requests -> Nat]
  BY <1>3 DEF Inv, TypeOK, Deliver
<1>5. outbox' \in [Requests -> SUBSET Nat]
  BY DEF Inv, TypeOK, Deliver
<1> QED BY <1>1, <1>4, <1>5 DEF Inv, TypeOK, RowsGood, RunsGood, HeldGood, CallsGood

----------------------------------------------------------------------------
\* It holds at the start.
LEMMA InitInv == Init => Inv
<1> SUFFICES ASSUME Init PROVE Inv
  OBVIOUS
<1> USE OneIsSlot, ApprovalAssumption DEF Init
<1>1. TypeOK
  <2>1. NoRow \in RowsOK
    BY DEF NoRow, RowsOK, Actions
  <2>2. NewRun \in RunsOK
    BY DEF NewRun, RunsOK
  <2>3. IdleOp \in [req : Requests \cup {Nobody}, seen : Nat,
                    what : {"none", "approved", "rejected", "cancelled"}]
    BY DEF IdleOp
  <2>4. rec \in [req : Requests \cup {Nobody}, result : Terminal \cup {"none"}]
    BY DEF NoRec
  <2> QED BY <2>1, <2>2, <2>3, <2>4 DEF TypeOK
<1>2. RowsGood
  BY DEF RowsGood, RowGood, OwnerGood, NoRow, Barred
<1>3. RunsGood
  BY DEF RunsGood, NewRun
<1> QED BY <1>1, <1>2, <1>3 DEF Inv, HeldGood, CallsGood

\* Every step keeps it.
LEMMA NextInv ==
  ASSUME Inv, [Next]_vars
  PROVE  Inv'
<1>1. CASE UNCHANGED vars
  BY <1>1 DEF vars, Inv, TypeOK, RowsGood, RunsGood, HeldGood, CallsGood
<1>2. ASSUME NEW r \in Requests,
             \/ Create(r) \/ ImportLegacy(r) \/ Inspect(r)
             \/ \E v \in Versions : Deliver(r, v)
             \/ \E i \in Slots : ChildEnds(r, i)
      PROVE  Inv'
  BY <1>2, CreateSteps, InspectStep, DeliverStep, ChildStep
<1>3. ASSUME NEW o \in Operators,
             \/ CompareAndSet(o)
             \/ \E r \in Requests, what \in {"approved", "rejected", "cancelled"} :
                  ReadForChange(o, r, what)
      PROVE  Inv'
  BY <1>3, PeopleSteps
<1>4. ASSUME NEW d \in DagRuns,
             \/ \E r \in Requests : Validate(d, r)
             \/ TakeClaim(d) \/ RerunDbt(d) \/ CallProvider(d) \/ RecordAction(d)
             \/ TriggerChild(d) \/ AwaitChild(d) \/ FinishBackfill(d) \/ MarkFailed(d)
             \/ Crash(d) \/ Clear(d)
      PROVE  Inv'
  <2>1. CASE Crash(d) \/ Clear(d) \/ \E r \in Requests : Validate(d, r)
    BY <2>1, LookSteps
  <2>2. CASE TakeClaim(d)
    BY <2>2, ClaimStep
  <2>3. CASE RerunDbt(d) \/ CallProvider(d)
    BY <2>3, ActionSteps
  <2>4. CASE RecordAction(d) \/ MarkFailed(d)
    BY <2>4, EndSteps
  <2>5. CASE TriggerChild(d) \/ AwaitChild(d) \/ FinishBackfill(d)
    BY <2>5, DispatcherSteps
  <2> QED BY <1>4, <2>1, <2>2, <2>3, <2>4, <2>5
<1>5. CASE Reconcile
  BY <1>5, ReconcileStep
<1> QED BY <1>1, <1>2, <1>3, <1>4, <1>5 DEF Next

\* The invariant of every reachable state.
LEMMA Invariant == Spec => []Inv
<1> QED BY InitInv, NextInv, PTL DEF Spec

\* Whatever is retried, cleared, decided late or reconciled, an approved action happens
\* at most once, part by part, and only under the approval it belongs to
\* (approval_control_store.py, execute_approved_action, run_backfill_dispatcher).
THEOREM ApprovalIsSound == Spec => []ApprovalInv
<1> QED BY Invariant, InvImplies, PTL

\* An outcome in the store is what happened, whoever wrote it - the task, the dispatcher or the
\* reconciler - except for a "failed" whose recorded error is an answer that could not be read
\* (record_execution_outcome, reconcile, execute_approved_action).
THEOREM OutcomesAreProven == Spec => []OutcomeIsTrue
<1> QED BY Invariant, InvImplies, PTL

----------------------------------------------------------------------------
(* The projection and the refinement: what a step does to the rows, the      *)
(* effects and the deliveries.                                               *)

\* How a row may change.
Created(q, n) ==
  /\ q.status = "none" /\ n.version = 1
  /\ \/ n.status = "pending" /\ n.exec = "not_started"
     \/ n.status \in {"pending", "approved", "rejected", "cancelled"} /\ n.exec = "not_started"
     \/ n.status = "approved" /\ n.exec \in Terminal
Decided(q, n) ==
  /\ n.version = q.version + 1 /\ n.exec = q.exec
  /\ \/ q.status = "pending" /\ n.status \in {"approved", "rejected"}
     \/ q.status \in {"pending", "approved"} /\ q.exec = "not_started" /\ n.status = "cancelled"
Advanced(q, n) ==
  /\ n.version = q.version + 1 /\ n.status = q.status /\ q.status = "approved"
  /\ \/ q.exec = "not_started" /\ n.exec = "dispatching"
     \/ q.exec = "dispatching" /\ n.exec \in {"dispatched", "unknown"} \cup Terminal
     \/ q.exec = "dispatched" /\ n.exec \in {"unknown"} \cup Terminal
     \/ q.exec = "unknown" /\ n.exec \in Terminal

Writes(r, n) ==
  /\ Write(r, n) /\ UNCHANGED <<effects, projection>>
  /\ Created(row[r], n) \/ Decided(row[r], n) \/ Advanced(row[r], n)
Acts(r, i) ==
  /\ Happens(r, i) /\ UNCHANGED <<row, outbox, projection>>
  /\ effects[r][i] = 0 /\ row[r].status = "approved" /\ row[r].exec = "dispatching"
Quiet ==
  /\ UNCHANGED <<row, effects>>
  /\ UNCHANGED <<outbox, projection>> \/ \E r \in Requests, v \in Versions : Deliver(r, v)

Kind == \/ Quiet
        \/ \E r \in Requests, i \in Slots : Acts(r, i)
        \/ \E r \in Requests, n \in RowsOK : Writes(r, n)

\* A recorded outcome is a legal change of an approved row.
LEMMA ReportKind ==
  ASSUME Inv, NEW r \in Requests, NEW e \in {"dispatched", "unknown"} \cup Terminal,
         NEW g \in {"none", "broken_answer"}, Report(r, e, g), UNCHANGED <<effects, projection>>,
         \/ row[r].exec = "dispatching"
         \/ row[r].exec = "dispatched" /\ e # "dispatched"
         \/ row[r].exec = "unknown" /\ e \in Terminal
  PROVE  Kind
<1> DEFINE v == row[r].version + 1
           n == [row[r] EXCEPT !.exec = e, !.error = g, !.version = v]
<1>1. row[r] \in RowsOK /\ v \in Nat /\ v = row[r].version + 1
  BY DEF Inv, TypeOK, RowsOK
<1>2. row[r].status = "approved"
  BY DEF Inv, RowsGood, RowGood
<1>3. Write(r, n)
  BY DEF Report, Changed
<1> HIDE DEF v
<1>4. n \in RowsOK /\ n.exec = e /\ n.version = v /\ n.status = row[r].status
  BY <1>1 DEF RowsOK, InFlight
<1> HIDE DEF n
<1>5. Advanced(row[r], n)
  BY <1>1, <1>2, <1>4 DEF Advanced
<1> QED BY <1>3, <1>4, <1>5 DEF Kind, Writes

\* The steps of a run.
LEMMA RunKinds ==
  ASSUME Inv, NEW d \in DagRuns,
         \/ \E r \in Requests : Validate(d, r)
         \/ TakeClaim(d) \/ RerunDbt(d) \/ CallProvider(d) \/ RecordAction(d)
         \/ TriggerChild(d) \/ AwaitChild(d) \/ FinishBackfill(d) \/ MarkFailed(d)
         \/ Crash(d) \/ Clear(d)
  PROVE  Kind
<1> DEFINE r == disp[d].req
<1>1. CASE (\E s \in Requests : Validate(d, s)) \/ AwaitChild(d) \/ Crash(d) \/ Clear(d)
  BY <1>1 DEF Validate, AwaitChild, Crash, Clear, Kind, Quiet
<1>2. CASE TakeClaim(d)
  <2>1. r \in Requests /\ row[r] \in RowsOK /\ UNCHANGED <<projection, effects>>
    BY <1>2, RunFacts DEF TakeClaim
  <2>2. CASE UNCHANGED <<row, outbox>>
    BY <2>1, <2>2 DEF Kind, Quiet
  <2>3. CASE Claimable(d, r) /\ Changed(r, [row[r] EXCEPT !.exec = "dispatching", !.owner = d])
    <3> DEFINE v == row[r].version + 1
               n == [row[r] EXCEPT !.exec = "dispatching", !.owner = d, !.version = v]
    <3>1. v \in Nat /\ v = row[r].version + 1
      BY <2>1 DEF RowsOK
    <3>2. Write(r, n)
      BY <2>3 DEF Changed
    <3>3. row[r].status = "approved" /\ row[r].exec = "not_started"
      BY <2>3 DEF Claimable
    <3> HIDE DEF v
    <3>4. n \in RowsOK /\ n.exec = "dispatching" /\ n.version = v /\ n.status = row[r].status
      BY <2>1, <3>1 DEF RowsOK, InFlight
    <3> HIDE DEF n
    <3>5. Advanced(row[r], n)
      BY <3>1, <3>3, <3>4 DEF Advanced
    <3> QED BY <2>1, <3>2, <3>4, <3>5 DEF Kind, Writes
  <2> QED BY <1>2, <2>2, <2>3 DEF TakeClaim
<1>3. CASE RerunDbt(d) \/ CallProvider(d)
  <2>1. disp[d].pc = "act" /\ disp[d].pc \in Working /\ row[r].action # "backfill" /\ 1 \in Slots
        /\ UNCHANGED <<row, outbox, projection>> /\ (Happens(r, 1) \/ UNCHANGED effects)
    BY <1>3, OneIsSlot DEF RerunDbt, CallProvider, Starts, Working
  <2>2. /\ r \in Requests /\ effects[r][1] = 0 /\ row[r].exec = "dispatching"
        /\ row[r].status = "approved"
    BY <2>1, WorkingRun DEF RunGood, RowGood
  <2> QED BY <2>1, <2>2 DEF Kind, Quiet, Acts
<1>4. CASE TriggerChild(d)
  <2> DEFINE i == disp[d].next
  <2>1. /\ disp[d].pc = "act" /\ disp[d].pc \in Working /\ row[r].action = "backfill"
        /\ i <= Dates /\ UNCHANGED <<row, outbox, projection>>
        /\ (child[r][i] = "absent" /\ Happens(r, i)) \/ UNCHANGED effects
    BY <1>4 DEF TriggerChild, Starts, Working
  <2>2. /\ r \in Requests /\ row[r].exec = "dispatching" /\ row[r].status = "approved"
        /\ i \in 1..(Dates + 1) /\ Dates \in Nat
    BY <2>1, WorkingRun, OneIsSlot DEF RunGood, RowGood, RunsOK
  <2>3. i \in Slots
    BY <2>1, <2>2 DEF Slots
  <2>4. child[r][i] = "absent" => effects[r][i] = 0
    BY <2>1, <2>2, <2>3 DEF Inv, RowsGood, RowGood
  <2> HIDE DEF i, r
  <2> QED BY <2>1, <2>2, <2>3, <2>4 DEF Kind, Quiet, Acts
<1>5. CASE RecordAction(d) \/ FinishBackfill(d) \/ MarkFailed(d)
  <2>1. disp[d].pc \in Working /\ UNCHANGED <<projection, effects>>
    BY <1>5 DEF RecordAction, FinishBackfill, MarkFailed, Working
  <2>2. r \in Requests /\ disp[d] \in RunsOK /\ RunGood(d, disp[d], row[r], child[r], effects[r])
    BY <2>1, WorkingRun
  <2>3. CASE UNCHANGED <<row, outbox>>
    BY <2>1, <2>3 DEF Kind, Quiet
  <2>4. ASSUME NEW e \in {"dispatched", "unknown"} \cup Terminal, Recordable(d, r, e),
               NEW g \in {"none", "broken_answer"}, Report(r, e, g)
        PROVE  Kind
    BY <2>1, <2>2, <2>4, ReportKind DEF Recordable
  <2>5. CASE RecordAction(d)
    <3> DEFINE broken == disp[d].result = "broken_answer"
               e == IF broken THEN "failed" ELSE disp[d].result
               g == IF broken THEN "broken_answer" ELSE "none"
    <3>1. e \in {"dispatched", "unknown"} \cup Terminal /\ g \in {"none", "broken_answer"}
      BY <2>2, <2>5 DEF RecordAction, RunGood, RunsOK, Terminal
    <3>2. (Recordable(d, r, e) /\ Report(r, e, g)) \/ UNCHANGED <<row, outbox>>
      BY <2>5 DEF RecordAction
    <3> HIDE DEF e, g
    <3> QED BY <2>3, <2>4, <3>1, <3>2
  <2>6. CASE FinishBackfill(d)
    <3> DEFINE e == IF row[r].wait THEN "succeeded" ELSE "dispatched"
    <3>1. e \in {"dispatched", "unknown"} \cup Terminal
      BY DEF Terminal
    <3>2. (Recordable(d, r, e) /\ Report(r, e, "none")) \/ UNCHANGED <<row, outbox>>
      BY <2>6 DEF FinishBackfill
    <3> HIDE DEF e
    <3> QED BY <2>3, <2>4, <3>1, <3>2
  <2>7. CASE MarkFailed(d)
    <3>1. "failed" \in {"dispatched", "unknown"} \cup Terminal
      BY DEF Terminal
    <3> QED BY <2>3, <2>4, <2>7, <3>1 DEF MarkFailed
  <2> QED BY <1>5, <2>5, <2>6, <2>7
<1> QED BY <1>1, <1>2, <1>3, <1>4, <1>5

\* The other steps.
LEMMA StepKinds ==
  ASSUME Inv, [Next]_vars
  PROVE  Kind
<1>1. CASE UNCHANGED vars
  BY <1>1 DEF vars, Kind, Quiet
<1>2. ASSUME NEW r \in Requests, \/ Inspect(r) \/ \E v \in Versions : Deliver(r, v)
                                 \/ \E i \in Slots : ChildEnds(r, i)
                                 \/ \E o \in Operators, what \in {"approved", "rejected", "cancelled"} :
                                      ReadForChange(o, r, what)
      PROVE  Kind
  BY <1>2 DEF Kind, Quiet, Inspect, Deliver, ChildEnds, ReadForChange
<1>3. ASSUME NEW r \in Requests, Create(r) PROVE Kind
  <2>1. PICK a \in Actions, e, w, f \in BOOLEAN, q \in Operators \cup {Nobody} :
          /\ a # "backfill" => e /\ ~w
          /\ (~e => ~w) /\ (~w => ~f)
          /\ Write(r, [NoRow EXCEPT !.status = "pending", !.version = 1, !.action = a,
                                    !.requester = q, !.eligible = e, !.wait = w, !.failFast = f])
    BY <1>3, Zenon DEF Create
  <2> DEFINE n == [NoRow EXCEPT !.status = "pending", !.version = 1, !.action = a,
                                !.requester = q, !.eligible = e, !.wait = w, !.failFast = f]
  <2>2. n \in RowsOK /\ n.exec = "not_started" /\ n.version = 1 /\ n.status = "pending"
    BY DEF NoRow, RowsOK
  <2>3. Write(r, n)
    BY <2>1
  <2> HIDE DEF n
  <2> QED BY <1>3, <2>2, <2>3 DEF Create, Kind, Writes, Created
<1>4. ASSUME NEW r \in Requests, ImportLegacy(r) PROVE Kind
  <2>1. PICK s \in {"pending", "approved", "rejected", "cancelled"}, d \in DagRuns,
             e \in {"not_started"} \cup Terminal :
          /\ e # "not_started" => s = "approved"
          /\ Write(r, [NoRow EXCEPT !.status = s, !.exec = e, !.version = 1, !.action = "backfill",
                          !.owner = IF e = "not_started" THEN Nobody ELSE d])
    BY <1>4 DEF ImportLegacy
  <2> DEFINE o == IF e = "not_started" THEN Nobody ELSE d
             n == [NoRow EXCEPT !.status = s, !.exec = e, !.version = 1, !.action = "backfill",
                                !.owner = o]
  <2>2. o \in DagRuns \cup {Nobody} /\ Write(r, n)
    BY <2>1
  <2> HIDE DEF o
  <2>3. n \in RowsOK /\ n.exec = e /\ n.version = 1 /\ n.status = s
    BY <2>2 DEF NoRow, RowsOK, Actions
  <2> HIDE DEF n
  <2> QED BY <1>4, <2>1, <2>2, <2>3 DEF ImportLegacy, Kind, Writes, Created
<1>5. ASSUME NEW o \in Operators, CompareAndSet(o) PROVE Kind
  <2> DEFINE r == op[o].req
             what == op[o].what
  <2>1. /\ r \in Requests /\ what \in {"approved", "rejected", "cancelled"}
        /\ UNCHANGED <<projection, effects>>
    BY <1>5 DEF CompareAndSet, Inv, CallsGood, TypeOK
  <2>2. CASE UNCHANGED <<row, outbox>>
    BY <2>1, <2>2 DEF Kind, Quiet
  <2>3. CASE Allowed(o, r, what) /\ Changed(r, [row[r] EXCEPT !.status = what])
    <3> DEFINE v == row[r].version + 1
               n == [row[r] EXCEPT !.status = what, !.version = v]
    <3>1. row[r] \in RowsOK /\ v \in Nat /\ v = row[r].version + 1
      BY <2>1 DEF Inv, TypeOK, RowsOK
    <3>2. Write(r, n)
      BY <2>3 DEF Changed
    <3>3. \/ row[r].status = "pending" /\ what \in {"approved", "rejected"}
          \/ /\ row[r].status \in {"pending", "approved"} /\ row[r].exec = "not_started"
             /\ what = "cancelled"
      BY <2>1, <2>3 DEF Allowed, Decidable, Cancellable
    <3> HIDE DEF v, what
    <3>4. n \in RowsOK /\ n.exec = row[r].exec /\ n.version = v /\ n.status = what
      BY <2>1, <3>1 DEF RowsOK
    <3> HIDE DEF n
    <3>5. Decided(row[r], n)
      BY <3>1, <3>3, <3>4 DEF Decided
    <3> QED BY <2>1, <3>2, <3>4, <3>5 DEF Kind, Writes
  <2> QED BY <1>5, <2>2, <2>3 DEF CompareAndSet
<1>6. CASE Reconcile
  <2>1. rec # NoRec /\ UNCHANGED <<projection, effects>>
    BY <1>6 DEF Reconcile
  <2>2. rec.req \in Requests /\ rec.result \in Terminal
    BY <2>1 DEF Inv, HeldGood, RecGood
  <2>3. CASE UNCHANGED <<row, outbox>>
    BY <2>1, <2>3 DEF Kind, Quiet
  <2>4. CASE /\ row[rec.req].exec \in InFlight
             /\ Report(rec.req, rec.result, row[rec.req].error)
    <3>1. row[rec.req].error \in {"none", "broken_answer"}
      BY <2>2 DEF Inv, TypeOK, RowsOK
    <3> QED BY <2>1, <2>2, <2>4, <3>1, ReportKind DEF InFlight, Terminal
  <2> QED BY <1>6, <2>3, <2>4 DEF Reconcile
<1>7. ASSUME NEW d \in DagRuns,
             \/ \E r \in Requests : Validate(d, r)
             \/ TakeClaim(d) \/ RerunDbt(d) \/ CallProvider(d) \/ RecordAction(d)
             \/ TriggerChild(d) \/ AwaitChild(d) \/ FinishBackfill(d) \/ MarkFailed(d)
             \/ Crash(d) \/ Clear(d)
      PROVE  Kind
  BY <1>7, RunKinds
<1> QED BY <1>1, <1>2, <1>3, <1>4, <1>5, <1>6, <1>7 DEF Next

----------------------------------------------------------------------------
(* The projection.  A request that does not exist has no version yet.        *)

ProjectionGood(st, w, o, p) ==
  /\ o \subseteq 1..w /\ p <= w /\ (w \in o \/ p = w)
  /\ st = "none" => w = 0
Projected == \A r \in Requests :
  ProjectionGood(row[r].status, row[r].version, outbox[r], projection[r])

LEMMA ProjectedStep ==
  ASSUME Inv, Projected, [Next]_vars
  PROVE  Projected'
<1>1. \A r \in Requests : /\ row[r].version \in Nat /\ outbox[r] \in SUBSET Nat
                          /\ projection[r] \in Nat
  BY DEF Inv, TypeOK, RowsOK
<1>2. CASE UNCHANGED <<row, outbox, projection>>
  BY <1>2 DEF Projected
<1>3. ASSUME NEW r \in Requests, NEW v, Deliver(r, v), UNCHANGED row PROVE Projected'
  <2> DEFINE w == row[r].version
             o == outbox[r]
             p == projection[r]
  <2>1. v \in o /\ ProjectionGood(row[r].status, w, o, p) /\ v \in 1..w /\ p <= w /\ w \in Nat
        /\ p \in Nat
    BY <1>1, <1>3 DEF Projected, ProjectionGood, Deliver
  <2>2. Max({p, v}) = IF p >= v THEN p ELSE v
    BY <2>1, MaxOfTwo
  <2>3. projection' = [projection EXCEPT ![r] = IF p >= v THEN p ELSE v]
        /\ outbox' \in {outbox, [outbox EXCEPT ![r] = o \ {v}]}
    BY <1>3, <2>2 DEF Deliver
  <2>4. /\ projection'[r] = (IF p >= v THEN p ELSE v) /\ outbox'[r] \in {o, o \ {v}}
        /\ \A s \in Requests \ {r} : projection'[s] = projection[s] /\ outbox'[s] = outbox[s]
    BY <2>3 DEF Inv, TypeOK
  <2>5. ProjectionGood(row[r].status, w, outbox'[r], projection'[r])
    <3> DEFINE oo == outbox'[r]
               pp == projection'[r]
    <3>1. oo \in {o, o \ {v}} /\ pp = (IF p >= v THEN p ELSE v)
      BY <2>4
    <3> HIDE DEF w, o, p, oo, pp
    <3>2. oo \subseteq 1..w /\ pp <= w
      BY <2>1, <3>1 DEF ProjectionGood
    <3>3. w \in oo \/ pp = w
      BY <2>1, <3>1 DEF ProjectionGood
    <3> QED BY <2>1, <3>2, <3>3 DEF ProjectionGood, oo, pp
  <2> QED BY <1>3, <2>4, <2>5 DEF Projected
<1>4. ASSUME NEW r \in Requests, NEW n \in RowsOK, Writes(r, n) PROVE Projected'
  <2>1. /\ row'[r] = n /\ outbox'[r] = outbox[r] \cup {n.version} /\ projection' = projection
        /\ \A s \in Requests \ {r} : row'[s] = row[s] /\ outbox'[s] = outbox[s]
    BY <1>4 DEF Writes, Write, Inv, TypeOK
  <2>2. ProjectionGood(row[r].status, row[r].version, outbox[r], projection[r])
    BY DEF Projected
  <2>3. n.version = row[r].version + 1 /\ n.status # "none"
    <3>1. n.status # "none"
      BY <1>4 DEF Writes, Created, Decided, Advanced
    <3>2. n.version = row[r].version + 1
      BY <1>4, <2>2 DEF Writes, Created, Decided, Advanced, ProjectionGood
    <3> QED BY <3>1, <3>2
  <2>4. ProjectionGood(n.status, n.version, outbox[r] \cup {n.version}, projection[r])
    BY <1>1, <2>2, <2>3 DEF ProjectionGood
  <2> QED BY <2>1, <2>4 DEF Projected
<1>5. Kind
  BY StepKinds
<1> QED BY <1>2, <1>3, <1>4, <1>5 DEF Kind, Quiet, Acts

\* Once nothing is pending, ClickHouse shows the version Postgres holds, whatever order,
\* repetition or loss of acknowledgements the deliveries had (flush_approval_projections).
THEOREM ProjectionConverges == Spec => []ProjectionCurrent
<1>1. Init => Projected
  BY DEF Init, Projected, ProjectionGood, NoRow
<1>2. Projected => ProjectionCurrent
  BY DEF Projected, ProjectionGood, ProjectionCurrent
<1> QED BY <1>1, <1>2, Invariant, ProjectedStep, PTL DEF Spec

----------------------------------------------------------------------------
(* The refinement of SingleUseApproval.                                      *)

Statuses == [r \in Requests |-> row[r].status]
Execs    == [r \in Requests |-> row[r].exec]
ActsOf   == [r \in Requests |-> {i \in Slots : effects[r][i] > 0}]

\* A written row, seen abstractly.
LEMMA WriteMaps ==
  ASSUME Inv, NEW r \in Requests, NEW n, Write(r, n), UNCHANGED effects
  PROVE  /\ Statuses' = [Statuses EXCEPT ![r] = n.status]
         /\ Execs' = [Execs EXCEPT ![r] = n.exec] /\ ActsOf' = ActsOf
<1>1. row' = [row EXCEPT ![r] = n] /\ row \in [Requests -> RowsOK]
  BY DEF Write, Inv, TypeOK
<1> QED BY <1>1 DEF Statuses, Execs, ActsOf

\* An effect, seen abstractly.
LEMMA EffectMaps ==
  ASSUME Inv, NEW r \in Requests, NEW i \in Slots, Acts(r, i)
  PROVE  /\ Statuses' = Statuses /\ Execs' = Execs /\ i \notin ActsOf[r]
         /\ ActsOf' = [ActsOf EXCEPT ![r] = @ \cup {i}]
<1>1. /\ effects' = [effects EXCEPT ![r][i] = @ + 1] /\ effects \in [Requests -> [Slots -> Nat]]
      /\ row' = row /\ effects[r][i] = 0
  BY DEF Acts, Happens, Inv, TypeOK
<1>2. \A s \in Requests, j \in Slots :
        effects'[s][j] > 0 <=> (effects[s][j] > 0 \/ (s = r /\ j = i))
  BY <1>1
<1>3. ActsOf \in [Requests -> SUBSET Slots] /\ ActsOf' \in [Requests -> SUBSET Slots]
  BY DEF ActsOf
<1>4. \A s \in Requests : ActsOf'[s] = IF s = r THEN ActsOf[s] \cup {i} ELSE ActsOf[s]
  <2> SUFFICES ASSUME NEW s \in Requests
               PROVE  \A j \in Slots : j \in ActsOf'[s] <=> (j \in ActsOf[s] \/ (s = r /\ j = i))
    BY <1>3
  <2> QED BY <1>2 DEF ActsOf
<1>5. ActsOf' = [ActsOf EXCEPT ![r] = @ \cup {i}]
  BY <1>3, <1>4
<1>6. i \notin ActsOf[r]
  BY <1>1 DEF ActsOf
<1> QED BY <1>1, <1>5, <1>6 DEF Statuses, Execs

\* Every step is a step of the abstract approval, or invisible there.
LEMMA StepMaps ==
  ASSUME Inv, [Next]_vars
  PROVE  [Abstract!Next]_(Abstract!abstractVars)
<1> USE DEF Abstract!abstractVars
<1>1. CASE Quiet
  BY <1>1 DEF Quiet
<1>2. ASSUME NEW r \in Requests, NEW i \in Slots, Acts(r, i) PROVE Abstract!Act(r, i)
  <2>1. Statuses[r] = "approved" /\ Execs[r] = "dispatching"
    BY <1>2 DEF Acts, Statuses, Execs
  <2> QED BY <1>2, <2>1, EffectMaps DEF Abstract!Act, Abstract!Claimed, Statuses, Execs, ActsOf
<1>3. ASSUME NEW r \in Requests, NEW n \in RowsOK, Writes(r, n)
      PROVE  \/ Abstract!Propose(r) \/ Abstract!Import(r) \/ Abstract!Decide(r)
             \/ Abstract!Cancel(r) \/ Abstract!Claim(r) \/ Abstract!Report(r)
  <2>1. /\ Statuses' = [Statuses EXCEPT ![r] = n.status]
        /\ Execs' = [Execs EXCEPT ![r] = n.exec] /\ ActsOf' = ActsOf
        /\ Statuses[r] = row[r].status /\ Execs[r] = row[r].exec
    BY <1>3, WriteMaps DEF Writes, Statuses, Execs
  <2>2. Execs[r] = n.exec => Execs' = Execs
    BY <2>1 DEF Execs
  <2>3. Statuses[r] = n.status => Statuses' = Statuses
    BY <2>1 DEF Statuses
  <2>4. row[r].status = "none" => row[r].exec = "not_started"
    BY DEF Inv, RowsGood, RowGood
  <2>5. CASE Created(row[r], n)
    BY <2>1, <2>2, <2>4, <2>5 DEF Created, Abstract!Propose, Abstract!Import, Abstract!Outcomes,
          Terminal, Statuses, Execs, ActsOf
  <2>6. CASE Decided(row[r], n)
    BY <2>1, <2>2, <2>6 DEF Decided, Abstract!Decide, Abstract!Cancel, Statuses, Execs, ActsOf
  <2>7. CASE Advanced(row[r], n)
    BY <2>1, <2>3, <2>7 DEF Advanced, Abstract!Claim, Abstract!Report, Abstract!Later,
          Abstract!Outcomes, Terminal, Statuses, Execs, ActsOf
  <2> QED BY <1>3, <2>5, <2>6, <2>7 DEF Writes
<1>4. Kind
  BY StepKinds
<1> QED BY <1>1, <1>2, <1>3, <1>4 DEF Kind, Abstract!Next

\* The approval store, its executors and the reconciler implement SingleUseApproval: a
\* decision is taken once, the claim excludes cancellation, the work of an approval is
\* done between its claim and its outcome, and outcomes are final.
THEOREM SingleUse == Spec => ImplementsSingleUse
<1>1. Init => Abstract!Init
  BY DEF Init, Abstract!Init, NoRow
<1> QED BY <1>1, Invariant, StepMaps, PTL DEF Spec, ImplementsSingleUse, Abstract!Spec

----------------------------------------------------------------------------
(* Approvals and recoveries together (SingleUseRequests).                  *)

\* The theorems about recoveries.
RP == INSTANCE RecoveryControlProofs WITH rec <- reconciler

\* Recovery and RP are instances of one specification: its steps are the same.
LEMMA SameSteps == Recovery!Next <=> RP!Next
BY DEF Recovery!vars, RP!vars, Recovery!ExecStates, RP!ExecStates, Recovery!Terminal,
       RP!Terminal, Recovery!InFlight, RP!InFlight, Recovery!JobPCs, RP!JobPCs,
       Recovery!LockScope, RP!LockScope, Recovery!Blocking, RP!Blocking, Recovery!Resolve,
       RP!Resolve, Recovery!Reopen, RP!Reopen, Recovery!LockFree, RP!LockFree,
       Recovery!NothingUnresolved, RP!NothingUnresolved, Recovery!OtherWriter, RP!OtherWriter,
       Recovery!CollectFacts, RP!CollectFacts, Recovery!Preview, RP!Preview,
       Recovery!PinRevision, RP!PinRevision, Recovery!StorePlan, RP!StorePlan, Recovery!Decide,
       RP!Decide, Recovery!Cancel, RP!Cancel, Recovery!PlanCurrent, RP!PlanCurrent,
       Recovery!CreateExecution, RP!CreateExecution, Recovery!ClaimTrigger, RP!ClaimTrigger,
       Recovery!Trigger, RP!Trigger, Recovery!RecordTrigger, RP!RecordTrigger,
       Recovery!ApiCrash, RP!ApiCrash, Recovery!PostLands, RP!PostLands, Recovery!StartRun,
       RP!StartRun, Recovery!EndRun, RP!EndRun, Recovery!Stopped, RP!Stopped, Recovery!FailRun,
       RP!FailRun, Recovery!MarkSuccess, RP!MarkSuccess, Recovery!ClearRun, RP!ClearRun,
       Recovery!P, RP!P, Recovery!Become, RP!Become, Recovery!Ends, RP!Ends, Recovery!MayRun,
       RP!MayRun, Recovery!ClaimRun, RP!ClaimRun, Recovery!RefuseRun, RP!RefuseRun,
       Recovery!EnterLock, RP!EnterLock, Recovery!Build, RP!Build, Recovery!PipelineFails,
       RP!PipelineFails, Recovery!BeginPublication, RP!BeginPublication, Recovery!Mutate,
       RP!Mutate, Recovery!CompletePublication, RP!CompletePublication,
       Recovery!UndoPublication, RP!UndoPublication, Recovery!LosePublication,
       RP!LosePublication, Recovery!LoseAcknowledgement, RP!LoseAcknowledgement,
       Recovery!Working, RP!Working, Recovery!EndedFor, RP!EndedFor, Recovery!Revalidate, RP!Revalidate, Recovery!Finish, RP!Finish,
       Recovery!JobCrash, RP!JobCrash, Recovery!Inspect, RP!Inspect, Recovery!Reconciled,
       RP!Reconciled, Recovery!Reconcile, RP!Reconcile, Recovery!ApiStep, RP!ApiStep,
       Recovery!JobStep, RP!JobStep, Recovery!Operator, RP!Operator, Recovery!Airflow,
       RP!Airflow, Recovery!Next, RP!Next

\* A behaviour of the two together is one of each on its own part of the state.
LEMMA BothSpecs == RequestsSpec => Spec /\ RP!Spec
<1>1. RequestsInit => Init /\ RP!Init
  BY DEF RequestsInit, Recovery!Init, RP!Init
<1>2. [RequestsNext]_<<vars, recoveryVars, part>> => [Next]_vars /\ [RP!Next]_(RP!vars)
  <2> SUFFICES ASSUME RequestsNext PROVE [Next]_vars /\ [RP!Next]_(RP!vars)
    BY DEF recoveryVars, RP!vars
  <2> QED BY SameSteps DEF RequestsNext, recoveryVars, RP!vars
<1> QED BY <1>1, <1>2, PTL DEF RequestsSpec, Spec, RP!Spec

\* Every outcome in the store is what happened: that of an approved action as well as that of
\* a recovery, which succeeds only with its publication, whose unknown publication keeps the
\* incident open and whose execution and approval agree, also when processes outlive their
\* runs and runs are cleared, as far as OutcomesAreTrue says (record_execution_outcome,
\* reconcile_execution, _finish).
THEOREM AllOutcomesAreTrue == RequestsSpec => []OutcomesAreTrue
<1>1. RP!Spec => []RP!RecoveryInv
  BY RecoveryAssumption, RP!RecoveryIsSound
<1>2. RP!RecoveryInv => RP!OutcomesAgree /\ RP!UncertainBlocksClosure /\ RP!OneProcess
  BY DEF RP!RecoveryInv
<1>3. RP!OutcomesAgree => Recovery!OutcomesAgree
  BY DEF RP!OutcomesAgree, Recovery!OutcomesAgree, RP!Terminal, Recovery!Terminal
<1>4. RP!UncertainBlocksClosure => Recovery!UncertainBlocksClosure
  BY DEF RP!UncertainBlocksClosure, Recovery!UncertainBlocksClosure, RP!InFlight,
     Recovery!InFlight
<1>5. RP!OneProcess => Recovery!OneProcess
  BY DEF RP!OneProcess, Recovery!OneProcess, RP!Terminal, Recovery!Terminal
<1> QED BY <1>1, <1>2, <1>3, <1>4, <1>5, BothSpecs, OutcomesAreProven, PTL DEF OutcomesAreTrue

\* Live data of a closed incident is replaced at most by a process that outlived its run or was
\* started again, after its approval had been reported as failed.
THEOREM NothingAfterClosure == RequestsSpec => ClosureIsSafe
<1>1. RP!Spec => RP!MutatesAfterClosureOnlyApart
  BY RecoveryAssumption, RP!ClosureEndsRecovery
<1>2. [RP!ClosedOrApart]_(RP!vars) => [Recovery!ClosedOrApart]_recoveryVars
  BY DEF RP!ClosedOrApart, Recovery!ClosedOrApart, RP!vars, recoveryVars
<1> QED BY <1>1, <1>2, BothSpecs, PTL DEF ClosureIsSafe, RP!MutatesAfterClosureOnlyApart

\* Recoveries beside approved actions implement SingleUseApproval, also with processes that
\* outlive their runs and with cleared runs.
THEOREM RecoveriesAreSingleUse == RequestsSpec => RecoveryImplementsSingleUse
<1>1. RP!Spec => RP!ImplementsSingleUse
  BY RecoveryAssumption, RP!RecoveryIsSingleUse
<1>2. RP!Abstract!Init <=> Recovery!Abstract!Init
  BY DEF RP!Abstract!Init, Recovery!Abstract!Init
<1>3. [RP!Abstract!Next]_(RP!Abstract!abstractVars)
        <=> [Recovery!Abstract!Next]_(Recovery!Abstract!abstractVars)
  BY DEF RP!Abstract!abstractVars, Recovery!Abstract!abstractVars, RP!Abstract!Outcomes,
         Recovery!Abstract!Outcomes, RP!Abstract!Claimed, Recovery!Abstract!Claimed,
         RP!Abstract!Propose, Recovery!Abstract!Propose, RP!Abstract!Import,
         Recovery!Abstract!Import, RP!Abstract!Decide, Recovery!Abstract!Decide,
         RP!Abstract!Cancel, Recovery!Abstract!Cancel, RP!Abstract!Claim,
         Recovery!Abstract!Claim, RP!Abstract!Act, Recovery!Abstract!Act, RP!Abstract!Escape,
         Recovery!Abstract!Escape, RP!Abstract!Later, Recovery!Abstract!Later,
         RP!Abstract!Report, Recovery!Abstract!Report, RP!Abstract!Next, Recovery!Abstract!Next
<1> QED BY <1>1, <1>2, <1>3, BothSpecs, PTL DEF RecoveryImplementsSingleUse,
     RP!ImplementsSingleUse, Recovery!ImplementsSingleUse, RP!Abstract!Spec,
     Recovery!Abstract!Spec

=============================================================================
