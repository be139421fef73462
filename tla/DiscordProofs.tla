----------------------------- MODULE DiscordProofs -----------------------------
(***************************************************************************)
(* Theorems about the two users of Discord, RecoveryOutbox and             *)
(* DiscordWorkspace, for every number of callers, events and generations.  *)
(***************************************************************************)
EXTENDS DiscordWorkspace, RecoveryOutbox, FiniteSetTheorems, NaturalsInduction, TLAPS

----------------------------------------------------------------------------
(* RecoveryOutbox: the row a flush works on.                               *)

\* A set of event numbers that is not empty has a least member.
LEMMA LeastEvent ==
  ASSUME NEW S \in SUBSET Events, S # {}
  PROVE  \E e \in S : \A d \in S : e <= d
<1>1. S \subseteq Nat
  BY FlushAssumption DEF Events
<1> DEFINE R == {p \in Nat \X Nat : p[1] < p[2]}
<1>2. IsWellFoundedOn(R, Nat)
  BY NatLessThanWellFounded DEF OpToRel
<1> HIDE DEF R
<1>3. PICK e \in S : \A d \in S : ~(<<d, e>> \in R)
  BY <1>1, <1>2, WFMin, Zenon
<1>4. ASSUME NEW d \in S PROVE e <= d
  <2>1. ~(d < e)
    BY <1>1, <1>3 DEF R
  <2> QED BY <1>1, <2>1
<1> QED BY <1>4

\* A flush at work is at the oldest row of its snapshot.
LEMMA EventOfSnapshot ==
  ASSUME OutboxTypeOK, NEW f \in Flushers, ~At(f, "idle")
  PROVE  Event(f) \in call[f].todo /\ Event(f) \in Events
<1>1. call[f].todo \in SUBSET Events /\ call[f].todo # {}
  BY DEF OutboxTypeOK, CallsOK
<1>2. \E e \in call[f].todo : \A d \in call[f].todo : e <= d
  BY <1>1, LeastEvent
<1>3. Event(f) \in call[f].todo
  BY <1>2 DEF Event
<1> QED BY <1>1, <1>3

\* A step that leaves a snapshot alone leaves the flush at the same row.
LEMMA SameEvent ==
  ASSUME NEW f \in Flushers, call'[f].todo = call[f].todo
  PROVE  Event(f)' = Event(f)
BY DEF Event

\* What the steps of flush f do to the calls: the others stay, and the snapshot of f only
\* shrinks.
Moves(f) ==
  /\ call' \in [Flushers -> CallsOK]
  /\ \A g \in Flushers : call'[g].pc = "idle" <=> call'[g].todo = {}
  /\ \A g \in Flushers \ {f} : call'[g] = call[g] /\ Event(g)' = Event(g)
  /\ call'[f].todo \subseteq call[f].todo
  /\ \A e \in call'[f].todo : call'[f].seen[e] = call[f].seen[e]

\* Going on with the same row.
LEMMA ToMoves ==
  ASSUME OutboxTypeOK, NEW f \in Flushers, ~At(f, "idle"), NEW pc, To(f, pc),
         pc \in {"insert", "audited", "kind", "search", "claim", "post", "settle", "failed"}
  PROVE  Moves(f) /\ Event(f)' = Event(f) /\ call'[f].pc = pc
<1>1. call' = [call EXCEPT ![f].pc = pc]
  BY DEF To
<1>2. call' \in [Flushers -> CallsOK]
  <2>1. call \in [Flushers -> CallsOK]
    BY DEF OutboxTypeOK
  <2>2. [call[f] EXCEPT !.pc = pc] \in CallsOK
    <3>1. call[f] \in CallsOK
      BY <2>1
    <3> QED BY <3>1 DEF CallsOK
  <2> QED BY <1>1, <2>1, <2>2
<1>3. /\ call'[f].pc = pc /\ call'[f].todo = call[f].todo /\ call'[f].seen = call[f].seen
      /\ \A g \in Flushers \ {f} : call'[g] = call[g]
  BY <1>1 DEF OutboxTypeOK, CallsOK
<1>4. \A g \in Flushers : Event(g)' = Event(g)
  BY <1>3, SameEvent
<1>5. \A g \in Flushers : call'[g].pc = "idle" <=> call'[g].todo = {}
  BY <1>3 DEF OutboxTypeOK, At
<1> QED BY <1>2, <1>3, <1>4, <1>5 DEF Moves

\* Going on with the next row, or returning.
LEMMA SkipMoves ==
  ASSUME OutboxTypeOK, NEW f \in Flushers, ~At(f, "idle"), Skip(f)
  PROVE  Moves(f) /\ call'[f].pc \in {"idle", "audit"}
<1> DEFINE next == [pc |-> "audit", todo |-> call[f].todo \ {Event(f)},
                    seen |-> [call[f].seen EXCEPT ![Event(f)] = Blank]]
<1>1. call[f] \in CallsOK /\ Event(f) \in call[f].todo /\ Event(f) \in Events
  BY EventOfSnapshot DEF OutboxTypeOK
<1>2. Blank \in RowsOK
  BY DEF Blank, RowsOK
<1>3. NoCall \in CallsOK
  BY <1>2 DEF NoCall, CallsOK
<1>4. next \in CallsOK
  BY <1>1, <1>2 DEF CallsOK
<1>5. call' = [call EXCEPT ![f] = IF call[f].todo = {Event(f)} THEN NoCall ELSE next]
  BY DEF Skip, OutboxTypeOK
<1>6. call' \in [Flushers -> CallsOK]
  BY <1>3, <1>4, <1>5 DEF OutboxTypeOK
<1>7. /\ \A g \in Flushers \ {f} : call'[g] = call[g]
      /\ call'[f] = IF call[f].todo = {Event(f)} THEN NoCall ELSE next
  BY <1>5 DEF OutboxTypeOK
<1>8. \A g \in Flushers \ {f} : Event(g)' = Event(g)
  BY <1>7, SameEvent
<1>9. /\ call'[f].pc = "idle" <=> call'[f].todo = {}
      /\ call'[f].pc \in {"idle", "audit"}
      /\ call'[f].todo \subseteq call[f].todo
      /\ \A e \in call'[f].todo : call'[f].seen[e] = call[f].seen[e]
  BY <1>1, <1>7 DEF NoCall, CallsOK
<1>10. \A g \in Flushers : call'[g].pc = "idle" <=> call'[g].todo = {}
  BY <1>7, <1>9 DEF OutboxTypeOK, At
<1> QED BY <1>6, <1>7, <1>8, <1>9, <1>10 DEF Moves

----------------------------------------------------------------------------
(* RecoveryOutbox: the invariant.                                          *)

\* The first state satisfies the invariant.
LEMMA OutboxInitInv == OutboxInit => OutboxInv
<1> SUFFICES ASSUME OutboxInit PROVE OutboxInv OBVIOUS
<1>1. Blank \in RowsOK
  BY DEF Blank, RowsOK
<1>2. NoCall \in CallsOK /\ NoCall.pc = "idle" /\ NoCall.todo = {}
  BY <1>1 DEF NoCall, CallsOK
<1>3. OutboxTypeOK
  BY <1>1, <1>2, FlushAssumption DEF OutboxInit, OutboxTypeOK, At
<1>4. \A f \in Flushers : call[f].pc = "idle" /\ call[f].todo = {}
  BY <1>2 DEF OutboxInit
<1>5. \A e \in Events : ~row[e].audited /\ ~row[e].delivered /\ posts[e] = 0 /\ e \notin late
  BY DEF OutboxInit, Blank
<1>6. AnnouncedOnce /\ AuditedFirst /\ DeliveredIsTrue /\ SnapshotIsPast
  BY <1>4, <1>5 DEF AnnouncedOnce, AuditedFirst, DeliveredIsTrue, SnapshotIsPast
<1>7. AuditIsTrue /\ ClaimIsExclusive /\ FoundIsPosted
  BY <1>4, <1>5 DEF AuditIsTrue, ClaimIsExclusive, FoundIsPosted, At, Past, OutboxInit
<1> QED BY <1>3, <1>6, <1>7 DEF OutboxInv

\* The steps around flush: what recovery stores, and what Discord does on its own.
LEMMA AroundFlush ==
  ASSUME OutboxInv, NEW e \in Events, Emit(e) \/ EndExecution(e) \/ Arrive(e) \/ ScrollAway(e)
  PROVE  OutboxInv'
<1> USE DEF OutboxInv
<1>0. \A f \in Flushers : call'[f] = call[f] /\ Event(f)' = Event(f)
  BY SameEvent DEF Emit, EndExecution, Arrive, ScrollAway
<1>00. \A f \in Flushers : ~At(f, "idle") => Event(f) \in Events
  BY EventOfSnapshot
<1>1. CASE Emit(e)
  <2>1. PICK k \in Kinds : row' = [row EXCEPT ![e].kind = k]
    BY <1>1 DEF Emit
  <2>2. OutboxTypeOK'
    BY <1>1, <2>1 DEF Emit, OutboxTypeOK, RowsOK, Kinds, Silent, Smooth, discordVars, At
  <2>3. \A d \in Events : /\ d # e => row'[d] = row[d]
                          /\ row'[d].audited = row[d].audited
                          /\ row'[d].delivered = row[d].delivered
                          /\ row'[d].state = row[d].state
    BY <2>1 DEF OutboxTypeOK, RowsOK
  <2>4. \A f \in Flushers : e \notin call[f].todo
    BY <1>1 DEF SnapshotIsPast, Emit
  <2>5. ~row[e].delivered
    BY <1>1 DEF OutboxTypeOK, Blank, Emit
  <2> QED BY <1>0, <1>00, <1>1, <2>2, <2>3, <2>4, <2>5
       DEF Emit, discordVars, AnnouncedOnce, AuditedFirst, DeliveredIsTrue, SnapshotIsPast,
           AuditIsTrue, ClaimIsExclusive, FoundIsPosted, At, Past
<1>2. CASE EndExecution(e)
  BY <1>0, <1>00, <1>2 DEF EndExecution, Smooth, discordVars, At, Past, OutboxTypeOK, AnnouncedOnce, AuditedFirst, DeliveredIsTrue, SnapshotIsPast,
         AuditIsTrue, ClaimIsExclusive, FoundIsPosted
<1>3. CASE Arrive(e)
  BY <1>0, <1>00, <1>3 DEF Arrive, Smooth, At, Past, OutboxTypeOK, AnnouncedOnce, AuditedFirst, DeliveredIsTrue, SnapshotIsPast,
         AuditIsTrue, ClaimIsExclusive, FoundIsPosted
<1>4. CASE ScrollAway(e)
  BY <1>0, <1>00, <1>4, FlushAssumption DEF ScrollAway, Error, At, Past, OutboxTypeOK, AnnouncedOnce, AuditedFirst, DeliveredIsTrue, SnapshotIsPast,
         AuditIsTrue, ClaimIsExclusive, FoundIsPosted
<1> QED BY <1>1, <1>2, <1>3, <1>4

\* Reading the open rows.
LEMMA SelectInv ==
  ASSUME OutboxInv, NEW f \in Flushers, Select(f)
  PROVE  OutboxInv'
<1> USE DEF OutboxInv
<1>1. PICK todo \in SUBSET Events :
        /\ todo # {} /\ \A e \in todo : row[e].kind # "none"
        /\ call' = [call EXCEPT ![f] =
             [pc |-> "audit", todo |-> todo,
              seen |-> [e \in Events |-> IF e \in todo THEN row[e] ELSE Blank]]]
  BY DEF Select, Open
<1>2. Blank \in RowsOK
  BY DEF Blank, RowsOK
<1>3. [pc |-> "audit", todo |-> todo,
       seen |-> [e \in Events |-> IF e \in todo THEN row[e] ELSE Blank]] \in CallsOK
  BY <1>2 DEF OutboxTypeOK, CallsOK
<1>4. /\ call' \in [Flushers -> CallsOK] /\ call'[f].pc = "audit" /\ call'[f].todo = todo
      /\ \A e \in todo : call'[f].seen[e] = row[e]
      /\ \A g \in Flushers \ {f} : call'[g] = call[g]
  BY <1>1, <1>3 DEF OutboxTypeOK
<1>5. \A g \in Flushers \ {f} : Event(g)' = Event(g)
  BY <1>4, SameEvent
<1>6. UNCHANGED <<row, ended, log, posts, visible, late, errors>>
  BY DEF Select, Smooth, discordVars
<1>7. OutboxTypeOK'
  BY <1>1, <1>4, <1>6 DEF OutboxTypeOK, At
<1>8. SnapshotIsPast'
  BY <1>1, <1>4, <1>6 DEF SnapshotIsPast
<1>9. AuditIsTrue' /\ ClaimIsExclusive' /\ FoundIsPosted'
  BY <1>4, <1>5, <1>6 DEF AuditIsTrue, ClaimIsExclusive, FoundIsPosted, At, Past
<1> QED BY <1>6, <1>7, <1>8, <1>9 DEF AnnouncedOnce, AuditedFirst, DeliveredIsTrue

\* A step of flush f that keeps what the rows say and how many messages there are keeps
\* what the invariant says of Discord and of the other calls.
LEMMA FlushKeeps ==
  ASSUME OutboxInv, NEW f \in Flushers, ~At(f, "idle"), Moves(f),
         UNCHANGED <<ended, posts, visible, late>>, errors' \in 0..MaxErrors,
         row' \in [Events -> RowsOK], log' \in [Events -> Nat],
         \A e \in Events :
           /\ row'[e].kind = row[e].kind /\ log'[e] >= log[e]
           /\ row[e].audited => row'[e].audited
           /\ row[e].delivered => row'[e].delivered
           /\ row'[e].state = "pending" => row[e].state = "pending"
           /\ row[e].kind = "none" => row'[e] = row[e]
  PROVE  /\ OutboxTypeOK' /\ AnnouncedOnce' /\ AuditedFirst' /\ SnapshotIsPast'
         /\ \A g \in Flushers \ {f} : call'[g].pc \in Past => log'[Event(g)'] > 0
         /\ \A g \in Flushers \ {f} : call'[g].pc = "settle" => posts[Event(g)'] > 0
         /\ \A e \in Events : row'[e].state = "pending" => posts[e] = 0 /\ e \notin late
         /\ \A g \in Flushers \ {f} : call'[g].pc = "post" =>
              /\ row'[Event(g)'].state # "pending"
              /\ posts[Event(g)'] = 0 /\ Event(g)' \notin late
              /\ \A h \in Flushers \ {f, g} : call'[h].pc = "post" => Event(h)' # Event(g)'
<1> USE DEF OutboxInv
<1>1. \A g \in Flushers : ~At(g, "idle") => Event(g) \in Events
  BY EventOfSnapshot
<1>2. OutboxTypeOK'
  BY DEF OutboxTypeOK, Moves, At
<1>3. AnnouncedOnce' /\ AuditedFirst'
  BY DEF AnnouncedOnce, AuditedFirst, OutboxTypeOK
<1>4. SnapshotIsPast'
  <2> SUFFICES ASSUME NEW g \in Flushers, NEW e \in call'[g].todo
               PROVE  /\ call'[g].seen[e].kind = row'[e].kind /\ row'[e].kind # "none"
                      /\ call'[g].seen[e].audited => row'[e].audited
                      /\ call'[g].seen[e].delivered => row'[e].delivered
    BY DEF SnapshotIsPast
  <2>1. e \in call[g].todo /\ call'[g].seen[e] = call[g].seen[e] /\ e \in Events
    BY DEF Moves, OutboxTypeOK, CallsOK
  <2> QED BY <2>1 DEF SnapshotIsPast
<1>5. \A g \in Flushers \ {f} : call'[g] = call[g] /\ Event(g)' = Event(g)
  BY DEF Moves
<1>6. \A g \in Flushers \ {f} : call'[g].pc \in Past => log'[Event(g)'] > 0
  BY <1>1, <1>5 DEF AuditIsTrue, Past, At, OutboxTypeOK
<1>7. \A g \in Flushers \ {f} : call'[g].pc = "settle" => posts[Event(g)'] > 0
  BY <1>5 DEF FoundIsPosted, At
<1>8. \A e \in Events : row'[e].state = "pending" => posts[e] = 0 /\ e \notin late
  BY DEF ClaimIsExclusive
<1>9. \A g \in Flushers \ {f} : call'[g].pc = "post" =>
              /\ row'[Event(g)'].state # "pending"
              /\ posts[Event(g)'] = 0 /\ Event(g)' \notin late
              /\ \A h \in Flushers \ {f, g} : call'[h].pc = "post" => Event(h)' # Event(g)'
  BY <1>1, <1>5 DEF ClaimIsExclusive, At
<1> QED BY <1>2, <1>3, <1>4, <1>6, <1>7, <1>8, <1>9

\* A step that leaves the rows and the audit log alone and does not go on to post.
LEMMA QuietStep ==
  ASSUME OutboxInv, NEW f \in Flushers, ~At(f, "idle"), Moves(f),
         UNCHANGED <<row, ended, log, posts, visible, late>>, errors' \in 0..MaxErrors,
         call'[f].pc # "post",
         call'[f].pc \in Past => log[Event(f)'] > 0,
         call'[f].pc = "settle" => posts[Event(f)'] > 0
  PROVE  OutboxInv'
<1>1. /\ row' \in [Events -> RowsOK] /\ log' \in [Events -> Nat]
      /\ \A e \in Events : log'[e] >= log[e]
  BY DEF OutboxInv, OutboxTypeOK
<1>2. AuditIsTrue /\ ClaimIsExclusive /\ FoundIsPosted /\ DeliveredIsTrue
  BY DEF OutboxInv
<1>3. AuditIsTrue' /\ FoundIsPosted'
  BY <1>1, <1>2, FlushKeeps DEF AuditIsTrue, FoundIsPosted, At
<1>4. ClaimIsExclusive'
  BY <1>1, FlushKeeps DEF ClaimIsExclusive, At
<1>5. DeliveredIsTrue'
  BY <1>2 DEF DeliveredIsTrue
<1> QED BY <1>1, <1>3, <1>4, <1>5, FlushKeeps DEF OutboxInv

\* A step that writes the row of f, and then leaves it.
LEMMA WritingStep ==
  ASSUME OutboxInv, NEW f \in Flushers, ~At(f, "idle"), Skip(f), NEW r \in RowsOK,
         row' = [row EXCEPT ![Event(f)] = r],
         UNCHANGED <<ended, log, posts, visible, late, errors>>,
         r.kind = row[Event(f)].kind,
         r.audited = row[Event(f)].audited,
         row[Event(f)].delivered => r.delivered,
         r.state = "pending" => row[Event(f)].state = "pending",
         r.delivered /\ ~row[Event(f)].delivered =>
           posts[Event(f)] > 0 \/ r.kind = Silent \/ (r.kind = "started" /\ Event(f) \in ended)
  PROVE  OutboxInv'
<1> USE DEF OutboxInv
<1>1. Event(f) \in Events /\ Event(f) \in call[f].todo
  BY EventOfSnapshot
<1>2. Moves(f) /\ call'[f].pc \in {"idle", "audit"}
  BY SkipMoves
<1>3. row[Event(f)].kind # "none"
  BY <1>1 DEF SnapshotIsPast
<1>4. /\ row' \in [Events -> RowsOK] /\ log' \in [Events -> Nat] /\ errors' \in 0..MaxErrors
      /\ \A e \in Events : e # Event(f) => row'[e] = row[e]
      /\ row'[Event(f)] = r
      /\ \A e \in Events : log'[e] >= log[e]
  BY <1>1 DEF OutboxTypeOK
<1>5. \A e \in Events :
           /\ row'[e].kind = row[e].kind /\ log'[e] >= log[e]
           /\ row[e].audited => row'[e].audited
           /\ row[e].delivered => row'[e].delivered
           /\ row'[e].state = "pending" => row[e].state = "pending"
           /\ row[e].kind = "none" => row'[e] = row[e]
  BY <1>3, <1>4
<1>6. AuditIsTrue' /\ FoundIsPosted' /\ ClaimIsExclusive'
  <2>1. \A e \in Events : row'[e].audited = row[e].audited
    BY <1>4
  <2> QED BY <1>2, <1>4, <1>5, <2>1, FlushKeeps
          DEF AuditIsTrue, FoundIsPosted, ClaimIsExclusive, At, Past
<1>7. DeliveredIsTrue'
  BY <1>1, <1>4 DEF DeliveredIsTrue
<1> QED BY <1>2, <1>4, <1>5, <1>6, <1>7, FlushKeeps

\* The audit half of a flush.
LEMMA AuditSteps ==
  ASSUME OutboxInv, NEW f \in Flushers, Audit(f) \/ InsertAudit(f) \/ MarkAudited(f)
  PROVE  OutboxInv'
<1> USE DEF OutboxInv
<1>1. ~At(f, "idle") /\ errors \in 0..MaxErrors
  BY DEF Audit, InsertAudit, MarkAudited, At, OutboxTypeOK
<1>2. Event(f) \in Events /\ Event(f) \in call[f].todo
  BY <1>1, EventOfSnapshot
<1>3. CASE Audit(f)
  <2>1. PICK pc \in {"kind", "audited", "insert"} :
          /\ To(f, pc)
          /\ pc = "kind" => Seen(f).audited
          /\ pc = "audited" => log[Event(f)] > 0
    BY <1>3 DEF Audit
  <2>2. Moves(f) /\ Event(f)' = Event(f) /\ call'[f].pc = pc
    BY <1>1, <2>1, ToMoves
  <2>3. Seen(f).audited => log[Event(f)] > 0
    BY <1>2 DEF Seen, SnapshotIsPast, AuditIsTrue
  <2>4. UNCHANGED <<row, ended, log, posts, visible, late, errors>>
    BY <1>3 DEF Audit, Smooth, discordVars
  <2> QED BY <1>1, <2>1, <2>2, <2>3, <2>4, QuietStep DEF Past
<1>4. CASE InsertAudit(f)
  <2>1. PICK pc \in {"audited", "failed"} :
          /\ To(f, pc)
          /\ \/ log' = [log EXCEPT ![Event(f)] = @ + 1]
             \/ log' = log /\ pc = "failed"
    BY <1>4 DEF InsertAudit
  <2>2. Moves(f) /\ Event(f)' = Event(f) /\ call'[f].pc = pc
    BY <1>1, <2>1, ToMoves
  <2>3. UNCHANGED <<row, ended, posts, visible, late>> /\ errors' \in 0..MaxErrors
    BY <1>1, <1>4, FlushAssumption DEF InsertAudit, Smooth, Error, discordVars
  <2>4. /\ log' \in [Events -> Nat] /\ \A e \in Events : log'[e] >= log[e]
        /\ pc = "audited" => log'[Event(f)] > 0
        /\ row' \in [Events -> RowsOK]
    BY <1>2, <2>1, <2>3 DEF OutboxTypeOK
  <2>5. AuditIsTrue'
    BY <1>1, <2>1, <2>2, <2>3, <2>4, FlushKeeps DEF AuditIsTrue, Past, OutboxTypeOK
  <2>6. FoundIsPosted' /\ ClaimIsExclusive'
    BY <1>1, <2>1, <2>2, <2>3, <2>4, FlushKeeps DEF FoundIsPosted, ClaimIsExclusive, At
  <2>7. DeliveredIsTrue'
    BY <2>3 DEF DeliveredIsTrue
  <2> QED BY <1>1, <2>2, <2>3, <2>4, <2>5, <2>6, <2>7, FlushKeeps
<1>5. CASE MarkAudited(f)
  <2>1. Moves(f) /\ Event(f)' = Event(f) /\ call'[f].pc = "kind"
    BY <1>1, <1>5, ToMoves DEF MarkAudited
  <2>2. UNCHANGED <<ended, log, posts, visible, late, errors>>
    BY <1>5 DEF MarkAudited, Smooth, discordVars
  <2>3. log[Event(f)] > 0
    BY <1>5 DEF AuditIsTrue, MarkAudited, At, Past
  <2> DEFINE r == [row[Event(f)] EXCEPT !.audited = TRUE]
  <2>4. /\ row' \in [Events -> RowsOK] /\ log' \in [Events -> Nat]
        /\ row'[Event(f)] = r
        /\ r.kind = row[Event(f)].kind /\ r.audited = TRUE
        /\ r.delivered = row[Event(f)].delivered /\ r.state = row[Event(f)].state
        /\ \A e \in Events : log'[e] >= log[e] /\ (e # Event(f) => row'[e] = row[e])
    <3>1. row' = [row EXCEPT ![Event(f)] = r]
      BY <1>2, <1>5 DEF MarkAudited, OutboxTypeOK
    <3>2. row[Event(f)] \in RowsOK
      BY <1>2 DEF OutboxTypeOK
    <3>3. /\ r \in RowsOK /\ r.kind = row[Event(f)].kind /\ r.audited = TRUE
          /\ r.delivered = row[Event(f)].delivered /\ r.state = row[Event(f)].state
      BY <3>2 DEF RowsOK
    <3> HIDE DEF r
    <3> QED BY <1>2, <2>2, <3>1, <3>3 DEF OutboxTypeOK
  <2> HIDE DEF r
  <2>5. \A e \in Events :
          /\ row'[e].kind = row[e].kind /\ log'[e] >= log[e]
          /\ row[e].audited => row'[e].audited
          /\ row[e].delivered => row'[e].delivered
          /\ row'[e].state = "pending" => row[e].state = "pending"
          /\ row[e].kind = "none" => row'[e] = row[e]
    BY <1>2, <2>4 DEF SnapshotIsPast
  <2>6. AuditIsTrue'
    BY <1>1, <2>1, <2>2, <2>3, <2>4, <2>5, FlushKeeps DEF AuditIsTrue
  <2>7. FoundIsPosted' /\ ClaimIsExclusive'
    BY <1>1, <2>1, <2>2, <2>4, <2>5, FlushKeeps DEF FoundIsPosted, ClaimIsExclusive, At
  <2>8. DeliveredIsTrue'
    BY <1>2, <2>2, <2>4 DEF DeliveredIsTrue
  <2> QED BY <1>1, <2>1, <2>2, <2>4, <2>5, <2>6, <2>7, <2>8, FlushKeeps
<1> QED BY <1>3, <1>4, <1>5

\* The steps that decide whether a row needs a message, and look for one.
LEMMA DecisionSteps ==
  ASSUME OutboxInv, NEW f \in Flushers, NeedsNone(f) \/ Identify(f) \/ Search(f)
  PROVE  OutboxInv'
<1> USE DEF OutboxInv
<1>1. ~At(f, "idle") /\ errors \in 0..MaxErrors
  BY DEF NeedsNone, Identify, Search, At, OutboxTypeOK
<1>2. /\ Event(f) \in Events /\ row[Event(f)] \in RowsOK
      /\ Seen(f).kind = row[Event(f)].kind
      /\ log[Event(f)] > 0
  <2>1. Event(f) \in Events /\ Event(f) \in call[f].todo
    BY <1>1, EventOfSnapshot
  <2>2. call[f].pc \in Past
    BY DEF NeedsNone, Identify, Search, At, Past
  <2> QED BY <2>1, <2>2 DEF Seen, SnapshotIsPast, AuditIsTrue, OutboxTypeOK
<1>3. CASE NeedsNone(f)
  <2>1. UNCHANGED <<ended, log, posts, visible, late, errors>> /\ Skip(f)
    BY <1>3 DEF NeedsNone, Smooth, discordVars
  <2>2. CASE UNCHANGED row
    BY <1>1, <2>1, <2>2, SkipMoves, QuietStep DEF Past
  <2>3. CASE /\ Settled(Event(f))
             /\ Seen(f).kind = Silent \/ (Seen(f).kind = "started" /\ Event(f) \in ended)
    <3> DEFINE r == [row[Event(f)] EXCEPT !.delivered = TRUE, !.state = "done"]
    <3>1. row' = [row EXCEPT ![Event(f)] = r]
      BY <1>2, <2>3 DEF Settled, OutboxTypeOK
    <3>2. /\ r \in RowsOK /\ r.kind = row[Event(f)].kind
          /\ r.audited = row[Event(f)].audited /\ r.delivered /\ r.state = "done"
      BY <1>2 DEF RowsOK
    <3> HIDE DEF r
    <3> QED BY <1>1, <1>2, <2>1, <2>3, <3>1, <3>2, WritingStep
  <2> QED BY <1>3, <2>2, <2>3 DEF NeedsNone
<1>4. CASE Identify(f)
  <2>1. UNCHANGED <<row, ended, log, posts, visible, late>> /\ errors' \in 0..MaxErrors
    BY <1>1, <1>4, FlushAssumption DEF Identify, Smooth, Error, discordVars
  <2>2. CASE Skip(f)
    BY <1>1, <2>1, <2>2, SkipMoves, QuietStep DEF Past
  <2>3. CASE \E pc \in {"claim", "search", "failed"} : To(f, pc)
    BY <1>1, <1>2, <2>1, <2>3, ToMoves, QuietStep DEF Past
  <2> QED BY <1>4, <2>2, <2>3 DEF Identify
<1>5. CASE Search(f)
  <2>1. UNCHANGED <<row, ended, log, posts, visible, late>> /\ errors' \in 0..MaxErrors
    BY <1>1, <1>5, FlushAssumption DEF Search, Smooth, Error, discordVars
  <2>2. CASE Skip(f)
    BY <1>1, <2>1, <2>2, SkipMoves, QuietStep DEF Past
  <2>3. CASE To(f, "failed")
    BY <1>1, <2>1, <2>3, ToMoves, QuietStep DEF Past
  <2>4. CASE Event(f) \in visible /\ To(f, "settle")
    BY <1>1, <1>2, <2>1, <2>4, ToMoves, QuietStep DEF FoundIsPosted
  <2> QED BY <1>5, <2>2, <2>3, <2>4 DEF Search
<1> QED BY <1>3, <1>4, <1>5

\* The claim of a row and the post of its message.
LEMMA PostingSteps ==
  ASSUME OutboxInv, NEW f \in Flushers, ClaimRow(f) \/ Post(f)
  PROVE  OutboxInv'
<1> USE DEF OutboxInv
<1>1. ~At(f, "idle") /\ errors \in 0..MaxErrors
  BY DEF ClaimRow, Post, At, OutboxTypeOK
<1>2. Event(f) \in Events /\ row[Event(f)].kind # "none" /\ log[Event(f)] > 0
  <2>1. Event(f) \in Events /\ Event(f) \in call[f].todo
    BY <1>1, EventOfSnapshot
  <2>2. call[f].pc \in Past
    BY DEF ClaimRow, Post, At, Past
  <2> QED BY <2>1, <2>2 DEF SnapshotIsPast, AuditIsTrue
<1>3. CASE ClaimRow(f)
  <2>1. UNCHANGED <<ended, log, posts, visible, late, errors>>
    BY <1>3 DEF ClaimRow, Smooth, discordVars
  <2>2. CASE UNCHANGED row /\ Skip(f)
    BY <1>1, <2>1, <2>2, SkipMoves, QuietStep DEF Past
  <2>3. CASE /\ row[Event(f)].state = "pending" /\ To(f, "post")
             /\ row' = [row EXCEPT ![Event(f)].state = "claimed"]
    <3>1. Moves(f) /\ Event(f)' = Event(f) /\ call'[f].pc = "post"
      BY <1>1, <2>3, ToMoves
    <3> DEFINE r == [row[Event(f)] EXCEPT !.state = "claimed"]
    <3>2. /\ row' \in [Events -> RowsOK] /\ log' \in [Events -> Nat]
          /\ row'[Event(f)] = r
          /\ r.kind = row[Event(f)].kind /\ r.audited = row[Event(f)].audited
          /\ r.delivered = row[Event(f)].delivered /\ r.state = "claimed"
          /\ \A e \in Events : log'[e] >= log[e] /\ (e # Event(f) => row'[e] = row[e])
      BY <1>2, <2>1, <2>3 DEF OutboxTypeOK, RowsOK
    <3> HIDE DEF r
    <3>3. posts[Event(f)] = 0 /\ Event(f) \notin late
      BY <1>2, <2>3 DEF ClaimIsExclusive
    <3>4. \A g \in Flushers \ {f} : call'[g].pc = "post" => Event(g)' # Event(f)
      BY <2>3, <3>1 DEF ClaimIsExclusive, Moves, At
    <3>5. \A e \in Events :
            /\ row'[e].kind = row[e].kind /\ log'[e] >= log[e]
            /\ row[e].audited => row'[e].audited
            /\ row[e].delivered => row'[e].delivered
            /\ row'[e].state = "pending" => row[e].state = "pending"
            /\ row[e].kind = "none" => row'[e] = row[e]
      BY <1>2, <3>2
    <3>6. AuditIsTrue' /\ FoundIsPosted'
      BY <1>1, <1>2, <2>1, <3>1, <3>2, <3>5, FlushKeeps DEF AuditIsTrue, FoundIsPosted, At
    <3>7. ClaimIsExclusive'
      BY <1>1, <1>2, <2>1, <3>1, <3>2, <3>3, <3>4, <3>5, FlushKeeps DEF ClaimIsExclusive, At
    <3>8. DeliveredIsTrue'
      BY <2>1, <3>2 DEF DeliveredIsTrue
    <3> QED BY <1>1, <1>2, <2>1, <3>1, <3>2, <3>5, <3>6, <3>7, <3>8, FlushKeeps
  <2> QED BY <1>3, <2>2, <2>3 DEF ClaimRow
<1>4. CASE Post(f)
  <2>1. UNCHANGED <<row, ended, log>> /\ errors' \in 0..MaxErrors
    BY <1>1, <1>4, FlushAssumption DEF Post, Smooth, Error
  <2>2. PICK pc \in {"settle", "failed"} :
          /\ To(f, pc)
          /\ pc = "settle" => posts' = [posts EXCEPT ![Event(f)] = @ + 1]
          /\ \/ /\ posts' = [posts EXCEPT ![Event(f)] = @ + 1] /\ late' = late
                /\ visible' = visible \cup {Event(f)}
             \/ late' = late \cup {Event(f)} /\ UNCHANGED <<posts, visible>>
             \/ UNCHANGED <<posts, visible, late>>
    BY <1>4 DEF Post, discordVars
  <2>3. Moves(f) /\ Event(f)' = Event(f) /\ call'[f].pc = pc
    BY <1>1, <2>2, ToMoves
  <2>4. /\ row[Event(f)].state # "pending" /\ posts[Event(f)] = 0 /\ Event(f) \notin late
        /\ \A g \in Flushers \ {f} : call'[g].pc = "post" => Event(g)' # Event(f)
    BY <1>4, <2>3 DEF Post, At, ClaimIsExclusive, Moves
  <2>5. /\ posts' \in [Events -> Nat] /\ late' \subseteq Events /\ visible' \subseteq Events
        /\ \A e \in Events : posts'[e] >= posts[e]
        /\ \A e \in Events \ {Event(f)} :
             posts'[e] = posts[e] /\ (e \in late' <=> e \in late) /\ (e \in visible' <=> e \in visible)
        /\ posts'[Event(f)] + (IF Event(f) \in late' THEN 1 ELSE 0) <= 1
        /\ \A e \in visible' : posts'[e] > 0
        /\ pc = "settle" => posts'[Event(f)] > 0
    BY <1>2, <2>2, <2>4 DEF OutboxTypeOK, FoundIsPosted
  <2>6. OutboxTypeOK'
    BY <2>1, <2>3, <2>5 DEF OutboxTypeOK, Moves, At
  <2>7. AnnouncedOnce' /\ AuditedFirst' /\ DeliveredIsTrue'
    BY <1>2, <2>1, <2>5 DEF AnnouncedOnce, AuditedFirst, DeliveredIsTrue, OutboxTypeOK
  <2>8. SnapshotIsPast'
    BY <2>1, <2>3 DEF SnapshotIsPast, Moves
  <2>9. \A g \in Flushers \ {f} : /\ call'[g] = call[g] /\ Event(g)' = Event(g)
                                  /\ ~At(g, "idle") => Event(g) \in Events
    BY <2>3, EventOfSnapshot DEF Moves
  <2>10. AuditIsTrue'
    BY <1>2, <2>1, <2>3, <2>9 DEF AuditIsTrue
  <2>11. FoundIsPosted'
    BY <2>3, <2>5, <2>9 DEF FoundIsPosted, At, OutboxTypeOK
  <2>12. ClaimIsExclusive'
    BY <2>1, <2>3, <2>4, <2>5, <2>9 DEF ClaimIsExclusive, At
  <2> QED BY <2>6, <2>7, <2>8, <2>10, <2>11, <2>12
<1> QED BY <1>3, <1>4

\* The end of a row, of its failure handler or of the whole flush.
LEMMA ClosingSteps ==
  ASSUME OutboxInv, NEW f \in Flushers, Settle(f) \/ Handle(f) \/ Die(f)
  PROVE  OutboxInv'
<1> USE DEF OutboxInv
<1>1. ~At(f, "idle") /\ errors \in 0..MaxErrors
  BY DEF Settle, Handle, Die, At, OutboxTypeOK
<1>2. Event(f) \in Events /\ row[Event(f)] \in RowsOK
  BY <1>1, EventOfSnapshot DEF OutboxTypeOK
<1>3. CASE Settle(f)
  <2> DEFINE r == [row[Event(f)] EXCEPT !.delivered = TRUE, !.state = "done"]
  <2>1. row' = [row EXCEPT ![Event(f)] = r]
    BY <1>2, <1>3 DEF Settle, Settled, OutboxTypeOK
  <2>2. /\ r \in RowsOK /\ r.kind = row[Event(f)].kind
        /\ r.audited = row[Event(f)].audited /\ r.delivered /\ r.state = "done"
    BY <1>2 DEF RowsOK
  <2>3. UNCHANGED <<ended, log, posts, visible, late, errors>> /\ Skip(f)
    BY <1>3 DEF Settle, Smooth, discordVars
  <2>4. posts[Event(f)] > 0
    BY <1>3 DEF Settle, FoundIsPosted
  <2> HIDE DEF r
  <2> QED BY <1>1, <1>2, <2>1, <2>2, <2>3, <2>4, WritingStep
<1>4. CASE Handle(f)
  <2> DEFINE r == [row[Event(f)] EXCEPT !.state = IF @ = "claimed" THEN "unknown" ELSE @]
  <2>1. row' = [row EXCEPT ![Event(f)] = r]
    BY <1>2, <1>4 DEF Handle, OutboxTypeOK
  <2>2. /\ r \in RowsOK /\ r.kind = row[Event(f)].kind
        /\ r.audited = row[Event(f)].audited /\ r.delivered = row[Event(f)].delivered
        /\ r.state = "pending" => row[Event(f)].state = "pending"
    BY <1>2 DEF RowsOK
  <2>3. UNCHANGED <<ended, log, posts, visible, late, errors>> /\ Skip(f)
    BY <1>4 DEF Handle, Smooth, discordVars
  <2> HIDE DEF r
  <2> QED BY <1>1, <1>2, <2>1, <2>2, <2>3, WritingStep
<1>5. CASE Die(f)
  <2>1. NoCall \in CallsOK /\ NoCall.pc = "idle" /\ NoCall.todo = {}
    BY DEF NoCall, CallsOK, Blank, RowsOK
  <2>2. call' = [call EXCEPT ![f] = NoCall]
    BY <1>5 DEF Die
  <2>3. /\ call' \in [Flushers -> CallsOK] /\ call'[f] = NoCall
        /\ \A g \in Flushers \ {f} : call'[g] = call[g]
    BY <2>1, <2>2 DEF OutboxTypeOK
  <2>4. Moves(f)
    BY <2>1, <2>3, SameEvent DEF Moves, OutboxTypeOK, At
  <2>5. UNCHANGED <<row, ended, log, posts, visible, late>> /\ errors' \in 0..MaxErrors
    BY <1>1, <1>5, FlushAssumption DEF Die, Error, discordVars
  <2> QED BY <1>1, <2>1, <2>3, <2>4, <2>5, QuietStep DEF Past
<1> QED BY <1>3, <1>4, <1>5

\* However many flushes run at once, wherever they die and whatever answers Discord and
\* the audit log lose, an event is announced at most once, never before it is in the
\* audit log, and a row is delivered only if its message exists or none is due
\* (agent/recovery/outbox.py, flush).
THEOREM OutboxIsTruthful == OutboxSpec => []OutboxInv
<1>1. OutboxInv /\ [OutboxNext]_outboxVars => OutboxInv'
  <2> SUFFICES ASSUME OutboxInv, [OutboxNext]_outboxVars PROVE OutboxInv' OBVIOUS
  <2>1. CASE UNCHANGED outboxVars
    <3>1. UNCHANGED <<row, ended, log, posts, visible, late, call, errors>>
      BY <2>1 DEF outboxVars, discordVars
    <3>2. \A f \in Flushers : Event(f)' = Event(f)
      BY <3>1, SameEvent
    <3> QED BY <3>1, <3>2
         DEF OutboxInv, OutboxTypeOK, AnnouncedOnce, AuditedFirst, DeliveredIsTrue,
             SnapshotIsPast, AuditIsTrue, ClaimIsExclusive, FoundIsPosted, At
  <2>2. ASSUME NEW e \in Events, Emit(e) \/ EndExecution(e) \/ Arrive(e) \/ ScrollAway(e)
        PROVE  OutboxInv'
    BY <2>2, AroundFlush
  <2>3. ASSUME NEW f \in Flushers, Select(f) \/ FlushStep(f) \/ Die(f)
        PROVE  OutboxInv'
    BY <2>3, SelectInv, AuditSteps, DecisionSteps, PostingSteps, ClosingSteps DEF FlushStep
  <2> QED BY <2>1, <2>2, <2>3 DEF OutboxNext
<1> QED BY <1>1, OutboxInitInv, PTL DEF OutboxSpec

----------------------------------------------------------------------------
(* DiscordWorkspace: the workspace of an incident.                         *)

TaskType ==
  [pc : {"idle", "known", "message", "search", "send", "reconcile", "starter", "thread", "create",
         "save", "leave"},
   row : RowType, session : BOOLEAN]

\* A new row has no ids and no intents.
LEMMA NewRowFacts ==
  ASSUME NEW g \in Generations
  PROVE  /\ NewRow(g) \in RowType /\ NewRow(g).gen = g
         /\ NewRow(g).starterId = NoId /\ NewRow(g).threadId = NoId
         /\ ~NewRow(g).starterAttempted
BY WorkspaceAssumption DEF NewRow, RowType, Generations, NoId

\* An idle task holds the row of the first generation and no session.
LEMMA IdleFacts == Idle \in TaskType /\ Idle.pc = "idle" /\ ~Idle.session /\ Idle.row = NewRow(0)
<1>1. 0 \in Generations
  BY WorkspaceAssumption DEF Generations
<1> QED BY <1>1, NewRowFacts DEF Idle, TaskType

\* The first state satisfies the invariant.
LEMMA WorkspaceInit == Init => OneWorkspace
<1> SUFFICES ASSUME Init PROVE OneWorkspace OBVIOUS
<1>1. 0 \in Generations /\ MaxGeneration \in Generations /\ \A g \in Generations : ~(g < 0)
  BY WorkspaceAssumption DEF Generations
<1>2. TypeOK
  BY <1>1, NewRowFacts, IdleFacts, WorkspaceAssumption DEF Init, TypeOK, TaskType
<1>3. OneStarter /\ OneThread /\ MissedIsOrphaned
  BY IdleFacts DEF Init, OneStarter, OneThread, MissedIsOrphaned
<1>4. LeaseIsCurrent
  BY IdleFacts, WorkspaceAssumption DEF Init, LeaseIsCurrent
<1>5. RowsAreHonest
  BY <1>1, IdleFacts, NewRowFacts DEF Init, RowsAreHonest, RowIsHonest, Row, Gen
<1>6. IntentIsFirst
  BY IdleFacts DEF Init, IntentIsFirst
<1>7. LeftForGood
  BY <1>1, NewRowFacts DEF Init, LeftForGood
<1> QED BY <1>2, <1>3, <1>4, <1>5, <1>6, <1>7 DEF OneWorkspace

\* A call that ends, or goes on without writing: what the task holds is still true.
LEMMA TaskMoves ==
  ASSUME OneWorkspace, NEW t \in Tasks, NEW new \in TaskType,
         task' = [task EXCEPT ![t] = new], faults' \in 0..MaxFaults,
         UNCHANGED <<reg, starter, thread, sent, orphaned, inquiries>>, lock' \in Tasks \cup {Nobody},
         flight' = flight \/ (\E g \in Generations : flight' = flight \cup {<<"thread", g>>}),
         new.session <=> lock' = t,
         lock' = lock \/ (lock \in {Nobody, t} /\ lock' \in {Nobody, t}),
         new.session => new.row = reg /\ new.pc # "idle",
         RowIsHonest(new.row),
         new.pc # "send",
         new.pc = "starter" => starter[new.row.gen] # "none",
         new.pc = "save" => thread[new.row.gen] # "none",
         new.pc = "message" =>
           /\ new.row.starterId # NoId
           /\ new.session /\ thread[new.row.gen] = "live" => new.row.gen \in orphaned
  PROVE  OneWorkspace'
<1> USE DEF OneWorkspace
<1>1. /\ task'[t] = new /\ \A u \in Tasks \ {t} : task'[u] = task[u]
      /\ task' \in [Tasks -> TaskType]
  BY DEF TypeOK, TaskType
<1>2. /\ UNCHANGED <<starter, thread, sent, orphaned, attempt, inquiry, triage>>
      /\ flight' \subseteq ({"starter", "thread"} \X Generations)
      /\ \A g : <<"starter", g>> \in flight' <=> <<"starter", g>> \in flight
  BY DEF inquiries, TypeOK
<1>3. TypeOK'
  BY <1>1, <1>2 DEF TypeOK, TaskType
<1>4. OneStarter' /\ OneThread' /\ LeftForGood'
  BY <1>2 DEF OneStarter, OneThread, LeftForGood
<1>5. LeaseIsCurrent'
  BY <1>1, WorkspaceAssumption DEF LeaseIsCurrent, Row
<1>6. RowsAreHonest'
  BY <1>1, <1>2 DEF RowsAreHonest, RowIsHonest, Row, Gen
<1>7. IntentIsFirst'
  BY <1>1, <1>2 DEF IntentIsFirst, Row, Gen
<1>8. MissedIsOrphaned'
  BY <1>1, <1>2 DEF MissedIsOrphaned, Row, Gen
<1> QED BY <1>3, <1>4, <1>5, <1>6, <1>7, <1>8

\* A call that ends, maybe with the creation of a thread still on its way.
LEMMA QuitLate ==
  ASSUME OneWorkspace, NEW t \in Tasks, Quit(t), UNCHANGED <<starter, thread, sent, orphaned, inquiries>>,
         flight' = flight \/ (\E g \in Generations : flight' = flight \cup {<<"thread", g>>}),
         faults' \in 0..MaxFaults
  PROVE  OneWorkspace'
<1>1. 0 \in Generations
  BY WorkspaceAssumption DEF Generations
<1>2. RowIsHonest(Idle.row)
  <2>1. reg.gen \in Nat
    BY WorkspaceAssumption DEF OneWorkspace, TypeOK, RowType, Generations
  <2>2. Idle.row.gen = 0 /\ Idle.row.starterId = NoId /\ Idle.row.threadId = NoId
    BY <1>1, IdleFacts, NewRowFacts
  <2> QED BY <2>1, <2>2 DEF RowIsHonest
<1>3. task' = [task EXCEPT ![t] = Idle] /\ lock' = IF task[t].session THEN Nobody ELSE lock
  BY DEF Quit, Leave
<1>4. task[t].session <=> lock = t
  BY DEF OneWorkspace, LeaseIsCurrent
<1>5. UNCHANGED reg
  BY DEF Quit
<1> HIDE DEF Idle
<1>6. /\ lock' \in Tasks \cup {Nobody} /\ lock' # t
      /\ lock' = lock \/ (lock \in {Nobody, t} /\ lock' \in {Nobody, t})
  BY <1>3, <1>4, WorkspaceAssumption DEF OneWorkspace, TypeOK
<1> QED BY <1>2, <1>3, <1>5, <1>6, IdleFacts, TaskMoves

\* A call that ends.
LEMMA QuitInv ==
  ASSUME OneWorkspace, NEW t \in Tasks, Quit(t), UNCHANGED <<discord, inquiries>>,
         faults' \in 0..MaxFaults
  PROVE  OneWorkspace'
BY QuitLate DEF discord

\* A step that only goes on.
LEMMA GotoInv ==
  ASSUME OneWorkspace, NEW t \in Tasks, task[t].pc # "idle", NEW pc, Goto(t, pc),
         UNCHANGED <<discord, inquiries>>, faults' \in 0..MaxFaults,
         pc \in {"search", "reconcile", "starter", "save", "thread", "leave", "message"},
         pc = "starter" => starter[Gen(t)] # "none",
         pc = "save" => thread[Gen(t)] # "none",
         pc = "message" => Row(t).starterId # NoId /\ thread[Gen(t)] # "live"
  PROVE  OneWorkspace'
<1> DEFINE new == [task[t] EXCEPT !.pc = pc]
<1>1. task[t] \in TaskType
  BY DEF OneWorkspace, TypeOK, TaskType
<1>2. new \in TaskType /\ new.pc = pc /\ new.row = Row(t) /\ new.session = task[t].session
  BY <1>1 DEF TaskType, Row
<1>3. task' = [task EXCEPT ![t] = new] /\ UNCHANGED <<reg, lock>>
  BY DEF Goto, OneWorkspace, TypeOK
<1>4. /\ task[t].session <=> lock = t
      /\ task[t].session => Row(t) = reg
      /\ RowIsHonest(Row(t))
  BY DEF OneWorkspace, LeaseIsCurrent, RowsAreHonest
<1>5. lock \in Tasks \cup {Nobody}
  BY DEF OneWorkspace, TypeOK
<1> HIDE DEF new
<1> QED BY <1>2, <1>3, <1>4, <1>5, TaskMoves DEF Gen, discord

\* A save within the generation: what was intended stays, and ids are of what exists.
LEMMA SaveInv ==
  ASSUME OneWorkspace, NEW t \in Tasks, NEW r \in RowType, NEW pc, Save(t, r, pc),
         UNCHANGED <<discord, inquiries, faults>>,
         r.gen = Gen(t), Row(t).starterAttempted => r.starterAttempted,
         r.starterId # NoId => r.starterId = r.gen /\ starter[r.gen] # "none",
         r.threadId # NoId => r.threadId = r.gen /\ thread[r.gen] # "none",
         \/ pc \in {"thread", "create", "leave"}
         \/ pc = "send" /\ ~Row(t).starterAttempted /\ r.starterAttempted
  PROVE  OneWorkspace'
<1> USE DEF OneWorkspace
<1>0. faults' \in 0..MaxFaults
  BY DEF TypeOK
<1>1. CASE ~task[t].session
  BY <1>0, <1>1, QuitInv DEF Save, Quit
<1>2. CASE task[t].session
  <2>1. Row(t) = reg /\ lock = t /\ task[t].pc # "idle"
    BY <1>2 DEF LeaseIsCurrent
  <2> DEFINE new == [task[t] EXCEPT !.row = r, !.pc = pc]
  <2>2. reg' = r /\ task' = [task EXCEPT ![t] = new] /\ lock' = lock
    BY <1>2 DEF Save, TypeOK
  <2>3. new \in TaskType /\ new.row = r /\ new.pc = pc /\ new.session = task[t].session
    <3>1. pc \in {"thread", "create", "leave", "send"}
      OBVIOUS
    <3>2. task[t] \in TaskType
      BY DEF TypeOK, TaskType
    <3> QED BY <3>1, <3>2 DEF TaskType
  <2> HIDE DEF new
  <2>4. /\ task'[t] = new /\ \A u \in Tasks \ {t} : task'[u] = task[u]
        /\ task' \in [Tasks -> TaskType]
    BY <2>2, <2>3 DEF TypeOK, TaskType
  <2>5. UNCHANGED <<starter, thread, sent, flight, orphaned, attempt, inquiry, triage, faults>>
    BY DEF discord, inquiries
  <2>6. reg'.gen = reg.gen /\ (reg.starterAttempted => reg'.starterAttempted)
    BY <2>1, <2>2 DEF Gen
  <2>7. TypeOK'
    BY <2>2, <2>4, <2>5 DEF TypeOK, TaskType
  <2>8. OneStarter' /\ OneThread' /\ LeftForGood'
    BY <2>5, <2>6 DEF OneStarter, OneThread, LeftForGood
  <2>9. LeaseIsCurrent'
    BY <1>2, <2>1, <2>2, <2>3, <2>4 DEF LeaseIsCurrent, Row
  <2>10. RowsAreHonest'
    <3>1. RowIsHonest(r)'
      BY <2>1, <2>5, <2>6 DEF RowIsHonest, RowsAreHonest, Gen
    <3>2. \A u \in Tasks \ {t} : RowIsHonest(Row(u))'
      BY <2>4, <2>5, <2>6 DEF RowIsHonest, RowsAreHonest, Row
    <3>3. pc # "starter" /\ pc # "save"
      OBVIOUS
    <3> QED BY <2>2, <2>3, <2>4, <2>5, <3>1, <3>2, <3>3 DEF RowsAreHonest, Row, Gen
  <2>11. IntentIsFirst'
    <3>1. CASE pc # "send"
      BY <2>3, <2>4, <2>5, <2>6, <3>1 DEF IntentIsFirst, Row, Gen
    <3>2. CASE pc = "send"
      <4>1. ~reg.starterAttempted /\ reg'.starterAttempted /\ r.gen = reg.gen
        BY <2>1, <2>2, <3>2 DEF Gen
      <4>2. reg.gen \in Generations /\ reg.gen \in Nat
        BY WorkspaceAssumption DEF TypeOK, RowType, Generations
      <4>3. /\ ~(sent[reg.gen] > 0) /\ <<"starter", reg.gen>> \notin flight
            /\ \A u \in Tasks : task[u].pc = "send" => Gen(u) # reg.gen
        BY <4>1, <4>2 DEF IntentIsFirst
      <4>4. sent[reg.gen] = 0
        BY <4>2, <4>3 DEF TypeOK
      <4>5. Gen(t)' = reg.gen /\ \A u \in Tasks \ {t} : Gen(u)' = Gen(u)
        BY <2>3, <2>4, <4>1 DEF Row, Gen
      <4>6. \A g \in Generations :
              (sent[g] > 0 \/ <<"starter", g>> \in flight \/ (\E u \in Tasks : task'[u].pc = "send" /\ Gen(u)' = g))
                => g < reg.gen \/ g = reg.gen
        BY <2>4, <4>5 DEF IntentIsFirst
      <4>7. \A u \in Tasks : task'[u].pc = "send" =>
              /\ sent[Gen(u)'] = 0 /\ <<"starter", Gen(u)'>> \notin flight
              /\ \A v \in Tasks \ {u} : task'[v].pc = "send" => Gen(v)' # Gen(u)'
        BY <2>4, <4>3, <4>4, <4>5 DEF IntentIsFirst
      <4> QED BY <2>5, <2>6, <4>1, <4>6, <4>7 DEF IntentIsFirst
    <3> QED BY <3>1, <3>2
  <2>12. MissedIsOrphaned'
    BY <2>3, <2>4, <2>5 DEF MissedIsOrphaned, Row, Gen
  <2> QED BY <2>7, <2>8, <2>9, <2>10, <2>11, <2>12
<1> QED BY <1>1, <1>2 DEF TypeOK

\* replace_missing: the generation that is left can get no thread any more, and one that
\* it has is orphaned.
LEMMA ReplaceInv ==
  ASSUME OneWorkspace, NEW t \in Tasks, Save(t, Replaced(Row(t)), "search"),
         UNCHANGED <<discord, inquiries, faults>>,
         \/ thread[Gen(t)] = "deleted"
         \/ /\ starter[Gen(t)] = "deleted"
            /\ task[t].session /\ thread[Gen(t)] = "live" => Gen(t) \in orphaned
  PROVE  OneWorkspace'
<1> USE DEF OneWorkspace
<1>0. faults' \in 0..MaxFaults
  BY DEF TypeOK
<1>1. CASE ~task[t].session
  BY <1>0, <1>1, QuitInv DEF Save, Quit
<1>2. CASE task[t].session
  <2>1. Row(t) = reg /\ lock = t /\ Gen(t) = reg.gen
    BY <1>2 DEF LeaseIsCurrent, Gen
  <2>2. reg.gen \in Generations /\ reg.gen # MaxGeneration
    BY <2>1 DEF TypeOK, RowType, LeftForGood
  <2>3. reg.gen \in Nat /\ reg.gen + 1 \in Generations /\ MaxGeneration \in Nat
        /\ \A g \in Generations : g \in Nat
    BY <2>2, WorkspaceAssumption DEF Generations
  <2> DEFINE r == NewRow(reg.gen + 1)
             new == [task[t] EXCEPT !.row = r, !.pc = "search"]
  <2>4. /\ r \in RowType /\ r.gen = reg.gen + 1 /\ r.starterId = NoId /\ r.threadId = NoId
    BY <2>3, NewRowFacts
  <2>5. reg' = r /\ task' = [task EXCEPT ![t] = new] /\ lock' = lock
    BY <1>2, <2>1 DEF Save, TypeOK, Replaced
  <2> HIDE DEF r
  <2>6. new \in TaskType /\ new.row = r /\ new.pc = "search" /\ new.session = task[t].session
    <3>1. task[t] \in TaskType
      BY DEF TypeOK, TaskType
    <3> QED BY <2>4, <3>1 DEF TaskType
  <2> HIDE DEF new
  <2>7. /\ task'[t] = new /\ \A u \in Tasks \ {t} : task'[u] = task[u]
        /\ task' \in [Tasks -> TaskType]
    BY <2>5, <2>6 DEF TypeOK, TaskType
  <2>8. UNCHANGED <<starter, thread, sent, flight, orphaned, attempt, inquiry, triage, faults>>
    BY DEF discord, inquiries
  <2>9. TypeOK'
    BY <2>4, <2>5, <2>7, <2>8 DEF TypeOK, TaskType
  <2>10. OneStarter' /\ OneThread'
    <3>1. \A g \in Generations : thread[g] = "live" => g \in orphaned /\ starter[g] = "deleted"
      BY <1>2, <2>1 DEF OneThread
    <3> QED BY <2>8, <3>1 DEF OneStarter, OneThread
  <2>11. LeftForGood'
    BY <2>1, <2>3, <2>4, <2>5, <2>8 DEF LeftForGood
  <2>12. LeaseIsCurrent'
    BY <1>2, <2>1, <2>5, <2>6, <2>7 DEF LeaseIsCurrent, Row
  <2>13. RowsAreHonest'
    <3>1. RowIsHonest(reg)'
      BY <2>3, <2>4, <2>5 DEF RowIsHonest
    <3>2. Row(t)' = reg'
      BY <2>5, <2>6, <2>7 DEF Row
    <3>3. \A u \in Tasks \ {t} : RowIsHonest(Row(u))'
      <4>1. \A u \in Tasks : Row(u).gen \in Nat
        BY <2>3 DEF TypeOK, RowType, Row
      <4> QED BY <2>3, <2>4, <2>5, <2>7, <2>8, <4>1 DEF RowIsHonest, RowsAreHonest, Row
    <3>4. RowIsHonest(Row(t))'
      BY <3>1, <3>2 DEF RowIsHonest
    <3> QED BY <2>6, <2>7, <2>8, <3>1, <3>3, <3>4 DEF RowsAreHonest, Row, Gen
  <2>14. IntentIsFirst'
    <3>1. \A g \in Generations : g < reg.gen \/ g = reg.gen => g < reg'.gen
      BY <2>3, <2>4, <2>5
    <3> QED BY <2>6, <2>7, <2>8, <3>1 DEF IntentIsFirst, Row, Gen
  <2>15. MissedIsOrphaned'
    BY <2>6, <2>7, <2>8 DEF MissedIsOrphaned, Row, Gen
  <2> QED BY <2>9, <2>10, <2>11, <2>12, <2>13, <2>14, <2>15
<1> QED BY <1>1, <1>2

\* What Discord does to a generation g, by itself or for the task that asks: a request is
\* put on its way, a first starter is created, or a thread is opened.  The tasks that go
\* on leave "send" and hold what they held.
LEMMA DiscordActs ==
  ASSUME OneWorkspace, NEW g \in Generations, faults' \in 0..MaxFaults,
         UNCHANGED <<reg, lock, inquiries>>,
         task' \in [Tasks -> TaskType],
         \A u \in Tasks :
           /\ task'[u].row = task[u].row /\ task'[u].session = task[u].session
           /\ task'[u].pc = task[u].pc
              \/ (task[u].pc # "idle" /\ task'[u].pc \notin {"idle", "send", "starter", "save", "message"})
              \/ (task[u].pc # "idle" /\ task'[u].pc = "starter" /\ starter'[Gen(u)] # "none")
              \/ (task[u].pc # "idle" /\ task'[u].pc = "save" /\ thread'[Gen(u)] # "none"),
         \/ /\ UNCHANGED <<thread, flight, sent, starter, orphaned>>
         \/ /\ Created(g) /\ UNCHANGED <<thread, orphaned>>
            /\ <<"starter", g>> \in flight /\ flight' = flight \ {<<"starter", g>>}
         \/ /\ Created(g) /\ UNCHANGED <<thread, flight, orphaned>>
            /\ \E u \in Tasks : task[u].pc = "send" /\ Gen(u) = g /\ task'[u].pc # "send"
         \/ /\ flight' = flight \cup {<<"starter", g>>} /\ UNCHANGED <<starter, thread, sent, orphaned>>
            /\ \E u \in Tasks : task[u].pc = "send" /\ Gen(u) = g /\ task'[u].pc # "send"
         \/ /\ flight' \in {flight, flight \ {<<"thread", g>>}, flight \cup {<<"thread", g>>}}
            /\ UNCHANGED <<starter, sent>>
            /\ \E leased \in BOOLEAN :
                 /\ Opened(g, leased)
                 /\ leased => \E u \in Tasks : task[u].session /\ task[u].pc # "message"
         \/ /\ flight' = flight \cup {<<"thread", g>>} /\ UNCHANGED <<starter, thread, sent, orphaned>>
  PROVE  OneWorkspace'
<1> USE DEF OneWorkspace
<1>1. /\ starter \in [Generations -> {"none", "live", "deleted"}]
      /\ thread \in [Generations -> {"none", "live", "deleted"}]
      /\ sent \in [Generations -> Nat] /\ flight \subseteq ({"starter", "thread"} \X Generations)
      /\ reg.gen \in Generations /\ MaxGeneration \in Generations
      /\ \A h \in Generations : h \in Nat
  <2>1. reg.gen \in Generations
    BY DEF TypeOK, RowType
  <2>2. MaxGeneration \in Generations /\ \A h \in Generations : h \in Nat
    BY WorkspaceAssumption DEF Generations
  <2> QED BY <2>1, <2>2 DEF TypeOK
<1>2. UNCHANGED <<attempt, inquiry, triage>>
  BY DEF inquiries
<1>3. \A u \in Tasks : Gen(u) \in Generations /\ Gen(u)' = Gen(u) /\ Row(u)' = Row(u)
  BY DEF TypeOK, RowType, Gen, Row
<1>4. LeaseIsCurrent'
  BY <1>3 DEF LeaseIsCurrent
<1>5. /\ starter' \in [Generations -> {"none", "live", "deleted"}]
      /\ thread' \in [Generations -> {"none", "live", "deleted"}]
      /\ sent' \in [Generations -> Nat] /\ flight' \subseteq ({"starter", "thread"} \X Generations)
      /\ orphaned' \subseteq Generations /\ orphaned \subseteq orphaned'
  <2>1. orphaned \subseteq Generations
    BY DEF TypeOK
  <2>2. starter' \in [Generations -> {"none", "live", "deleted"}] /\ sent' \in [Generations -> Nat]
    BY <1>1 DEF Created
  <2>3. flight' \subseteq ({"starter", "thread"} \X Generations)
    BY <1>1
  <2>4. CASE UNCHANGED <<thread, orphaned>>
    BY <1>1, <2>1, <2>2, <2>3, <2>4
  <2>5. ASSUME NEW leased \in BOOLEAN, Opened(g, leased)
        PROVE  /\ thread' \in [Generations -> {"none", "live", "deleted"}]
               /\ orphaned' \subseteq Generations /\ orphaned \subseteq orphaned'
    BY <1>1, <2>1, <2>5 DEF Opened
  <2> QED BY <2>2, <2>3, <2>4, <2>5
<1>6. TypeOK'
  BY <1>2, <1>5 DEF TypeOK, TaskType
<1>7. ASSUME Created(g), sent[g] = 0 PROVE
         /\ g >= reg.gen /\ starter'[g] = "live" /\ sent'[g] = 1 /\ starter[g] = "none"
         /\ \A h \in Generations \ {g} : starter'[h] = starter[h] /\ sent'[h] = sent[h]
         /\ \A h \in Generations : starter[h] # "none" => starter'[h] # "none"
  BY <1>1, <1>7 DEF Created, LeftForGood
<1>8. ASSUME NEW leased, Opened(g, leased) PROVE
         /\ \A h \in Generations : thread[h] # "none" => thread'[h] = thread[h]
         /\ \/ thread' = thread
            \/ /\ g = reg.gen /\ thread'[g] = "live" /\ starter[g] = "live"
               /\ \A h \in Generations \ {g} : thread'[h] = thread[h]
               /\ leased \/ g \in orphaned'
  <2>1. CASE starter[g] = "live" /\ thread[g] = "none"
    <3>1. g = reg.gen
      BY <1>1, <2>1 DEF LeftForGood, IntentIsFirst
    <3> QED BY <1>1, <1>8, <2>1, <3>1 DEF Opened
  <2>2. CASE ~(starter[g] = "live" /\ thread[g] = "none")
    BY <1>8, <2>2 DEF Opened
  <2> QED BY <2>1, <2>2
<1>9. ASSUME Created(g),
             <<"starter", g>> \in flight \/ \E u \in Tasks : task[u].pc = "send" /\ Gen(u) = g
      PROVE  sent[g] = 0
  BY <1>1, <1>9 DEF OneStarter, IntentIsFirst
<1>10. \A h \in Generations : /\ starter[h] # "none" => starter'[h] # "none"
                              /\ thread[h] # "none" => thread'[h] # "none"
  BY <1>7, <1>8, <1>9
<1>11. RowsAreHonest'
  <2>1. RowIsHonest(reg)'
    BY <1>1, <1>10 DEF RowsAreHonest, RowIsHonest
  <2>2. \A u \in Tasks : RowIsHonest(Row(u))'
    BY <1>3, <1>10 DEF RowsAreHonest, RowIsHonest, Gen
  <2>3. \A u \in Tasks : /\ task'[u].pc = "starter" => starter'[Gen(u)'] # "none"
                         /\ task'[u].pc = "save" => thread'[Gen(u)'] # "none"
    BY <1>3, <1>10 DEF RowsAreHonest
  <2> QED BY <2>1, <2>2, <2>3 DEF RowsAreHonest
<1>12. OneThread' /\ MissedIsOrphaned'
  <2>1. \A h \in Generations : starter[h] = "deleted" => starter'[h] = "deleted"
    BY <1>7, <1>9
  <2>2. \A h \in Generations : thread'[h] = "live" => thread[h] = "live" \/ h = reg.gen
    BY <1>8
  <2>3. OneThread'
    BY <1>5, <2>1, <2>2 DEF OneThread
  <2>4. ASSUME NEW u \in Tasks, task'[u].pc = "message"
        PROVE  /\ Row(u)'.starterId # NoId
               /\ task'[u].session /\ thread'[Gen(u)'] = "live" => Gen(u)' \in orphaned'
    <3>1. /\ task[u].pc = "message" /\ Row(u).starterId # NoId
          /\ task'[u].session = task[u].session
          /\ task[u].session /\ thread[Gen(u)] = "live" => Gen(u) \in orphaned
      BY <2>4 DEF MissedIsOrphaned
    <3>2. ASSUME task[u].session, thread[Gen(u)] # "live", thread'[Gen(u)] = "live"
          PROVE  Gen(u) \in orphaned'
      <4>1. PICK leased \in BOOLEAN :
              /\ Opened(g, leased)
              /\ leased => \E v \in Tasks : task[v].session /\ task[v].pc # "message"
        BY <3>2
      <4>2. ~leased
        BY <3>1, <3>2, <4>1 DEF LeaseIsCurrent
      <4> QED BY <1>3, <1>8, <3>2, <4>1, <4>2
    <3> QED BY <1>3, <1>5, <3>1, <3>2
  <2> QED BY <2>3, <2>4 DEF MissedIsOrphaned
<1>13. LeftForGood'
  <2>1. CASE UNCHANGED thread
    BY <1>1, <1>5, <1>7, <1>9, <2>1 DEF LeftForGood
  <2>2. CASE UNCHANGED <<starter, sent>> /\ \E leased \in BOOLEAN : Opened(g, leased)
    <3>1. \/ thread' = thread
          \/ /\ g = reg.gen /\ thread'[g] = "live" /\ starter[g] = "live"
             /\ \A h \in Generations \ {g} : thread'[h] = thread[h]
      BY <1>8, <2>2
    <3> QED BY <1>1, <1>5, <2>2, <3>1 DEF LeftForGood
  <2> QED BY <2>1, <2>2
<1>14. \A u \in Tasks : task'[u].pc = "send" => task[u].pc = "send"
  OBVIOUS
<1>15. \/ /\ UNCHANGED sent
          /\ \A h \in Generations : <<"starter", h>> \in flight' <=> <<"starter", h>> \in flight
       \/ /\ sent[g] = 0 /\ sent'[g] = 1 /\ <<"starter", g>> \notin flight'
          /\ g <= reg.gen /\ (g = reg.gen => reg.starterAttempted)
          /\ \A u \in Tasks : task'[u].pc = "send" => Gen(u) # g
          /\ \A h \in Generations \ {g} :
               sent'[h] = sent[h] /\ (<<"starter", h>> \in flight' <=> <<"starter", h>> \in flight)
       \/ /\ UNCHANGED sent /\ sent[g] = 0
          /\ g <= reg.gen /\ (g = reg.gen => reg.starterAttempted)
          /\ \A u \in Tasks : task'[u].pc = "send" => Gen(u) # g
          /\ \A h \in Generations \ {g} : <<"starter", h>> \in flight' <=> <<"starter", h>> \in flight
  <2>1. CASE /\ Created(g) /\ <<"starter", g>> \in flight /\ flight' = flight \ {<<"starter", g>>}
    <3>1. sent[g] = 0 /\ sent'[g] = 1 /\ \A h \in Generations \ {g} : sent'[h] = sent[h]
      BY <1>7, <1>9, <2>1
    <3>2. \A u \in Tasks : task'[u].pc = "send" => Gen(u) # g
      BY <1>14, <2>1 DEF IntentIsFirst
    <3>3. g <= reg.gen /\ (g = reg.gen => reg.starterAttempted)
      BY <1>1, <2>1 DEF IntentIsFirst
    <3> QED BY <2>1, <3>1, <3>2, <3>3
  <2>2. CASE \E u \in Tasks : task[u].pc = "send" /\ Gen(u) = g /\ task'[u].pc # "send"
    <3>1. PICK v \in Tasks : task[v].pc = "send" /\ Gen(v) = g /\ task'[v].pc # "send"
      BY <2>2
    <3>2. sent[g] = 0 /\ <<"starter", g>> \notin flight
      BY <3>1 DEF IntentIsFirst
    <3>3. \A u \in Tasks : task'[u].pc = "send" => Gen(u) # g
      BY <1>14, <3>1 DEF IntentIsFirst
    <3>4. g <= reg.gen /\ (g = reg.gen => reg.starterAttempted)
      BY <1>1, <3>1 DEF IntentIsFirst
    <3>5. CASE Created(g) /\ UNCHANGED flight
      <4>1. sent'[g] = 1 /\ \A h \in Generations \ {g} : sent'[h] = sent[h]
        BY <1>7, <3>2, <3>5
      <4> QED BY <3>2, <3>3, <3>4, <3>5, <4>1
    <3>6. CASE flight' = flight \cup {<<"starter", g>>} /\ UNCHANGED sent
      BY <3>2, <3>3, <3>4, <3>6
    <3>7. CASE UNCHANGED sent /\ flight' \in {flight, flight \ {<<"thread", g>>}, flight \cup {<<"thread", g>>}}
      BY <3>7
    <3> QED BY <2>1, <3>5, <3>6, <3>7
  <2>3. CASE UNCHANGED sent /\ flight' \in {flight, flight \ {<<"thread", g>>}, flight \cup {<<"thread", g>>}}
    BY <2>3
  <2> QED BY <2>1, <2>2, <2>3
<1>16. OneStarter'
  <2> SUFFICES ASSUME NEW h \in Generations
               PROVE  sent'[h] + (IF <<"starter", h>> \in flight' THEN 1 ELSE 0) <= 1
    BY DEF OneStarter
  <2>1. CASE sent'[h] = sent[h] /\ (<<"starter", h>> \in flight' <=> <<"starter", h>> \in flight)
    BY <1>1, <2>1 DEF OneStarter
  <2>2. CASE sent'[h] = 1 /\ <<"starter", h>> \notin flight'
    BY <2>2
  <2>3. CASE sent'[h] = 0
    BY <2>3
  <2> QED BY <1>15, <2>1, <2>2, <2>3
<1>17. IntentIsFirst'
  <2>1. ASSUME NEW h \in Generations,
               \/ sent'[h] > 0 \/ <<"starter", h>> \in flight'
               \/ \E u \in Tasks : task'[u].pc = "send" /\ Gen(u) = h
        PROVE  h < reg.gen \/ (h = reg.gen /\ reg.starterAttempted)
    <3>1. CASE h = g /\ sent[g] = 0 /\ g <= reg.gen /\ (g = reg.gen => reg.starterAttempted)
      BY <1>1, <3>1
    <3>2. CASE sent'[h] = sent[h] /\ (<<"starter", h>> \in flight' <=> <<"starter", h>> \in flight)
      BY <1>14, <2>1, <3>2 DEF IntentIsFirst
    <3> QED BY <1>15, <3>1, <3>2
  <2>2. ASSUME NEW u \in Tasks, task'[u].pc = "send"
        PROVE  /\ sent'[Gen(u)] = 0 /\ <<"starter", Gen(u)>> \notin flight'
               /\ \A v \in Tasks \ {u} : task'[v].pc = "send" => Gen(v) # Gen(u)
    <3>1. /\ sent[Gen(u)] = 0 /\ <<"starter", Gen(u)>> \notin flight
          /\ \A v \in Tasks \ {u} : task'[v].pc = "send" => Gen(v) # Gen(u)
      BY <1>14, <2>2 DEF IntentIsFirst
    <3> QED BY <1>3, <1>15, <2>2, <3>1
  <2> QED BY <1>3, <2>1, <2>2 DEF IntentIsFirst
<1> QED BY <1>4, <1>6, <1>11, <1>12, <1>13, <1>16, <1>17

\* A task that goes on with what it holds has one of the types of a task.
LEMMA GotoType ==
  ASSUME OneWorkspace, NEW t \in Tasks, NEW pc, Goto(t, pc),
         pc \in {"search", "send", "reconcile", "starter", "save", "thread", "create", "leave"}
  PROVE  /\ task' \in [Tasks -> TaskType] /\ task'[t].pc = pc /\ UNCHANGED <<reg, lock>>
         /\ \A u \in Tasks : task'[u].row = task[u].row /\ task'[u].session = task[u].session
         /\ \A u \in Tasks \ {t} : task'[u].pc = task[u].pc
<1>1. task \in [Tasks -> TaskType]
  BY DEF OneWorkspace, TypeOK, TaskType
<1>2. task' = [task EXCEPT ![t].pc = pc] /\ UNCHANGED <<reg, lock>>
  BY DEF Goto
<1> QED BY <1>1, <1>2 DEF TaskType

\* The reads of ensure.
LEMMA ReadSteps ==
  ASSUME OneWorkspace, NEW t \in Tasks,
         \/ CheckThread(t) \/ CheckStarter(t) \/ FetchStarter(t)
         \/ ReconcileStarter(t) \/ Return(t)
  PROVE  OneWorkspace'
<1>1. /\ UNCHANGED <<discord, inquiries, faults>> /\ faults' \in 0..MaxFaults
      /\ task[t].pc # "idle"
  BY DEF CheckThread, CheckStarter, FetchStarter, ReconcileStarter, Return, Fine, OneWorkspace, TypeOK
<1>2. /\ RowIsHonest(Row(t)) /\ Row(t) \in RowType /\ Gen(t) \in Generations
      /\ thread[Gen(t)] \in {"none", "live", "deleted"}
      /\ starter[Gen(t)] \in {"none", "live", "deleted"}
  BY DEF OneWorkspace, TypeOK, RowsAreHonest, Row, Gen, RowType
<1>3. CASE CheckThread(t)
  <2>1. Row(t).threadId = Gen(t) /\ thread[Gen(t)] # "none"
    BY <1>2, <1>3 DEF CheckThread, RowIsHonest, Gen
  <2>2. CASE Quit(t)
    BY <1>1, <2>2, QuitInv
  <2>3. CASE thread[Row(t).threadId] # "live" /\ Save(t, Replaced(Row(t)), "search")
    <3>1. thread[Gen(t)] = "deleted"
      BY <1>2, <2>1, <2>3
    <3> QED BY <1>1, <1>3, <2>3, <3>1, ReplaceInv DEF CheckThread
  <2> QED BY <1>3, <2>2, <2>3 DEF CheckThread
<1>4. CASE CheckStarter(t)
  <2>1. Row(t).starterId # NoId => Row(t).starterId = Gen(t) /\ starter[Gen(t)] # "none"
    BY <1>2 DEF RowIsHonest, Gen
  <2>2. CASE Goto(t, "search")
    BY <1>1, <2>2, GotoInv
  <2>3. CASE /\ Row(t).starterId # NoId /\ thread[Row(t).starterId] = "live"
             /\ Save(t, [Row(t) EXCEPT !.threadId = Row(t).starterId], "leave")
    <3> DEFINE r == [Row(t) EXCEPT !.threadId = Row(t).starterId]
    <3>1. /\ r \in RowType /\ r.gen = Gen(t) /\ r.starterAttempted = Row(t).starterAttempted
          /\ r.starterId = Row(t).starterId /\ r.threadId = Row(t).starterId
      BY <1>2 DEF RowType, Gen
    <3> HIDE DEF r
    <3>2. thread[Gen(t)] = "live"
      BY <2>1, <2>3
    <3>3. Save(t, r, "leave")
      BY <2>3 DEF r
    <3> QED BY <1>1, <2>1, <2>3, <3>1, <3>2, <3>3, SaveInv
  <2>4. CASE Row(t).starterId # NoId /\ thread[Row(t).starterId] # "live" /\ Goto(t, "message")
    BY <1>1, <2>1, <2>4, GotoInv
  <2> QED BY <1>4, <2>2, <2>3, <2>4 DEF CheckStarter
<1>7. CASE FetchStarter(t)
  <2>1. /\ Row(t).starterId = Gen(t) /\ starter[Gen(t)] # "none"
        /\ task[t].session /\ thread[Gen(t)] = "live" => Gen(t) \in orphaned
    BY <1>2, <1>7 DEF FetchStarter, RowIsHonest, Gen, OneWorkspace, MissedIsOrphaned
  <2>2. CASE Goto(t, "starter")
    BY <1>1, <2>1, <2>2, GotoInv
  <2>3. CASE starter[Row(t).starterId] # "live" /\ Save(t, Replaced(Row(t)), "search")
    <3>1. starter[Gen(t)] = "deleted"
      BY <1>2, <2>1, <2>3
    <3> QED BY <1>1, <2>1, <2>3, <3>1, ReplaceInv
  <2> QED BY <1>7, <2>2, <2>3 DEF FetchStarter
<1>5. CASE ReconcileStarter(t)
  BY <1>1, <1>5, QuitInv, GotoInv DEF ReconcileStarter
<1>6. CASE Return(t)
  BY <1>1, <1>6, QuitInv DEF Return
<1> QED BY <1>3, <1>4, <1>5, <1>6, <1>7

\* The commits of ensure: intents before a write, ids after it.
LEMMA CommitSteps ==
  ASSUME OneWorkspace, NEW t \in Tasks,
         IntendStarter(t) \/ SaveStarter(t) \/ IntendThread(t) \/ SaveThread(t)
  PROVE  OneWorkspace'
<1>1. /\ UNCHANGED <<discord, inquiries, faults>> /\ faults' \in 0..MaxFaults
      /\ task[t].pc # "idle"
  BY DEF IntendStarter, SaveStarter, IntendThread, SaveThread, Fine, OneWorkspace, TypeOK
<1>2. Row(t) \in RowType /\ Gen(t) \in Generations
  BY DEF OneWorkspace, TypeOK, Row, Gen, RowType
<1>3. /\ Row(t).starterId # NoId => Row(t).starterId = Gen(t) /\ starter[Gen(t)] # "none"
      /\ Row(t).threadId # NoId => Row(t).threadId = Gen(t) /\ thread[Gen(t)] # "none"
  BY DEF OneWorkspace, RowsAreHonest, RowIsHonest, Gen
<1>4. Generations \subseteq 0..NoId
  BY WorkspaceAssumption DEF Generations, NoId
<1>5. CASE IntendStarter(t)
  <2>1. CASE Goto(t, "reconcile")
    BY <1>1, <2>1, GotoInv
  <2>2. CASE ~Row(t).starterAttempted /\ Save(t, [Row(t) EXCEPT !.starterAttempted = TRUE], "send")
    <3> DEFINE r == [Row(t) EXCEPT !.starterAttempted = TRUE]
    <3>1. /\ r \in RowType /\ r.gen = Gen(t) /\ r.starterAttempted = TRUE
          /\ r.starterId = Row(t).starterId /\ r.threadId = Row(t).threadId
      BY <1>2 DEF RowType, Gen
    <3> HIDE DEF r
    <3>2. Save(t, r, "send")
      BY <2>2 DEF r
    <3> QED BY <1>1, <1>3, <2>2, <3>1, <3>2, SaveInv
  <2> QED BY <1>5, <2>1, <2>2 DEF IntendStarter
<1>6. CASE SaveStarter(t)
  <2> DEFINE r == [Row(t) EXCEPT !.starterId = Gen(t)]
  <2>1. /\ r \in RowType /\ r.gen = Gen(t) /\ r.starterAttempted = Row(t).starterAttempted
        /\ r.starterId = Gen(t) /\ r.threadId = Row(t).threadId
    BY <1>2, <1>4 DEF RowType, Gen
  <2> HIDE DEF r
  <2>2. Save(t, r, "thread")
    BY <1>6 DEF r, SaveStarter
  <2>3. starter[Gen(t)] # "none"
    BY <1>6 DEF SaveStarter, OneWorkspace, RowsAreHonest
  <2> QED BY <1>1, <1>3, <2>1, <2>2, <2>3, SaveInv
<1>7. CASE IntendThread(t)
  <2>1. CASE Quit(t)
    BY <1>1, <2>1, QuitInv
  <2>2. CASE thread[Gen(t)] = "live" /\ Goto(t, "save")
    BY <1>1, <2>2, GotoInv
  <2>3. CASE Save(t, [Row(t) EXCEPT !.threadAttempted = TRUE], "create")
    <3> DEFINE r == [Row(t) EXCEPT !.threadAttempted = TRUE]
    <3>1. /\ r \in RowType /\ r.gen = Gen(t) /\ r.starterAttempted = Row(t).starterAttempted
          /\ r.starterId = Row(t).starterId /\ r.threadId = Row(t).threadId
      BY <1>2 DEF RowType, Gen
    <3> HIDE DEF r
    <3>2. Save(t, r, "create")
      BY <2>3 DEF r
    <3> QED BY <1>1, <1>3, <3>1, <3>2, SaveInv
  <2> QED BY <1>7, <2>1, <2>2, <2>3 DEF IntendThread
<1>8. CASE SaveThread(t)
  <2> DEFINE r == [Row(t) EXCEPT !.threadId = Gen(t)]
  <2>1. /\ r \in RowType /\ r.gen = Gen(t) /\ r.starterAttempted = Row(t).starterAttempted
        /\ r.starterId = Row(t).starterId /\ r.threadId = Gen(t)
    BY <1>2, <1>4 DEF RowType, Gen
  <2> HIDE DEF r
  <2>2. Save(t, r, "leave")
    BY <1>8 DEF r, SaveThread
  <2>3. thread[Gen(t)] # "none"
    BY <1>8 DEF SaveThread, OneWorkspace, RowsAreHonest
  <2> QED BY <1>1, <1>3, <2>1, <2>2, <2>3, SaveInv
<1> QED BY <1>5, <1>6, <1>7, <1>8

\* The writes of ensure.
LEMMA WriteSteps ==
  ASSUME OneWorkspace, NEW t \in Tasks, SendStarter(t) \/ CreateThread(t)
  PROVE  OneWorkspace'
<1>1. /\ UNCHANGED inquiries /\ faults' \in 0..MaxFaults /\ task[t].pc # "idle"
      /\ Gen(t) \in Generations
  BY WorkspaceAssumption
     DEF SendStarter, CreateThread, Fine, Fault, OneWorkspace, TypeOK, Gen, Row, RowType
<1>2. CASE SendStarter(t)
  <2>1. PICK pc \in {"starter", "reconcile"} :
          /\ Goto(t, pc)
          /\ pc = "starter" => Created(Gen(t))
          /\ UNCHANGED <<thread, orphaned>>
          /\ \/ Created(Gen(t)) /\ UNCHANGED flight
             \/ flight' = flight \cup {<<"starter", Gen(t)>>} /\ UNCHANGED <<starter, sent>>
             \/ UNCHANGED <<starter, sent, flight>>
    BY <1>2 DEF SendStarter
  <2>2. /\ task' \in [Tasks -> TaskType] /\ task'[t].pc = pc /\ UNCHANGED <<reg, lock>>
        /\ \A u \in Tasks : task'[u].row = task[u].row /\ task'[u].session = task[u].session
        /\ \A u \in Tasks \ {t} : task'[u].pc = task[u].pc
    BY <2>1, GotoType
  <2>3. pc = "starter" => starter'[Gen(t)] # "none"
    BY <1>1, <2>1 DEF Created, OneWorkspace, TypeOK
  <2>4. task[t].pc = "send" /\ task'[t].pc # "send"
    BY <1>2, <2>2 DEF SendStarter
  <2> QED BY <1>1, <2>1, <2>2, <2>3, <2>4, DiscordActs
<1>3. CASE CreateThread(t)
  <2>1. CASE /\ Opened(Gen(t), task[t].session) /\ thread'[Gen(t)] = "live" /\ Goto(t, "save")
             /\ UNCHANGED <<starter, sent, flight>>
    <3>1. /\ task' \in [Tasks -> TaskType] /\ task'[t].pc = "save" /\ UNCHANGED <<reg, lock>>
          /\ \A u \in Tasks : task'[u].row = task[u].row /\ task'[u].session = task[u].session
          /\ \A u \in Tasks \ {t} : task'[u].pc = task[u].pc
      BY <2>1, GotoType
    <3>2. task[t].pc # "message" /\ task[t].session \in BOOLEAN
      BY <1>3 DEF CreateThread, OneWorkspace, TypeOK
    <3> QED BY <1>1, <2>1, <3>1, <3>2, DiscordActs
  <2>2. CASE /\ Opened(Gen(t), task[t].session) /\ thread'[Gen(t)] # "live" /\ Quit(t)
             /\ UNCHANGED <<starter, sent, flight>>
    <3>1. UNCHANGED <<thread, orphaned>>
      BY <1>1, <2>2 DEF Opened, OneWorkspace, TypeOK
    <3> QED BY <1>1, <2>2, <3>1, QuitLate
  <2>3. CASE /\ flight' = flight \cup {<<"thread", Gen(t)>>} /\ Quit(t)
             /\ UNCHANGED <<starter, thread, sent, orphaned>>
    BY <1>1, <2>3, QuitLate
  <2>4. CASE Quit(t) /\ UNCHANGED discord
    BY <1>1, <2>4, QuitInv
  <2> QED BY <1>3, <2>1, <2>2, <2>3, <2>4 DEF CreateThread
<1> QED BY <1>2, <1>3

\* The lease is taken, lost or given up.
LEMMA LeaseSteps ==
  ASSUME OneWorkspace, NEW t \in Tasks, Enter(t) \/ LoseSession(t) \/ Abandon(t)
  PROVE  OneWorkspace'
<1>1. /\ UNCHANGED <<discord, inquiries, reg>> /\ faults' \in 0..MaxFaults
  BY WorkspaceAssumption
     DEF Enter, LoseSession, Abandon, Quit, Fine, Fault, OneWorkspace, TypeOK
<1>2. CASE Enter(t)
  <2> DEFINE new == [pc |-> "known", row |-> reg, session |-> TRUE]
  <2>1. new \in TaskType
    BY DEF OneWorkspace, TypeOK, TaskType
  <2>2. task' = [task EXCEPT ![t] = new] /\ lock = Nobody /\ lock' = t
    BY <1>2 DEF Enter
  <2>3. RowIsHonest(reg)
    BY DEF OneWorkspace, RowsAreHonest
  <2> QED BY <1>1, <2>1, <2>2, <2>3, TaskMoves DEF discord
<1>3. CASE LoseSession(t)
  <2> DEFINE new == [task[t] EXCEPT !.session = FALSE]
  <2>1. task[t] \in TaskType /\ task[t].session /\ lock = t /\ RowIsHonest(task[t].row)
    BY <1>3 DEF LoseSession, OneWorkspace, TypeOK, TaskType, LeaseIsCurrent, RowsAreHonest, Row
  <2>2. /\ new \in TaskType /\ new.row = task[t].row /\ new.pc = task[t].pc
        /\ new.session = FALSE
    BY <2>1 DEF TaskType
  <2>3. task' = [task EXCEPT ![t] = new] /\ lock' = Nobody
    BY <1>3 DEF LoseSession, OneWorkspace, TypeOK
  <2> HIDE DEF new
  <2>4. CASE task[t].pc # "send"
    <3>1. /\ task[t].pc = "starter" => starter[task[t].row.gen] # "none"
          /\ task[t].pc = "save" => thread[task[t].row.gen] # "none"
          /\ task[t].pc = "message" => task[t].row.starterId # NoId
      BY DEF OneWorkspace, RowsAreHonest, MissedIsOrphaned, Row, Gen
    <3> QED BY <1>1, <2>1, <2>2, <2>3, <2>4, <3>1, TaskMoves, WorkspaceAssumption DEF discord
  <2>5. CASE task[t].pc = "send"
    <3>1. /\ task'[t] = new /\ \A u \in Tasks \ {t} : task'[u] = task[u]
          /\ task' \in [Tasks -> TaskType]
      BY <2>2, <2>3 DEF OneWorkspace, TypeOK, TaskType
    <3>2. \A u \in Tasks : task'[u].pc = task[u].pc /\ Row(u)' = Row(u) /\ Gen(u)' = Gen(u)
      BY <2>2, <3>1 DEF Row, Gen
    <3>3. UNCHANGED <<starter, thread, sent, flight, orphaned, attempt, inquiry, triage>>
      BY <1>1 DEF discord, inquiries
    <3>4. TypeOK'
      BY <1>1, <2>3, <3>1, <3>3 DEF OneWorkspace, TypeOK, TaskType
    <3>5. LeaseIsCurrent'
      BY <2>1, <2>2, <2>3, <3>1, <3>2, <1>1, WorkspaceAssumption DEF OneWorkspace, LeaseIsCurrent
    <3>6. RowsAreHonest'
      BY <1>1, <3>2, <3>3 DEF OneWorkspace, RowsAreHonest, RowIsHonest
    <3>7. IntentIsFirst' /\ LeftForGood' /\ OneStarter' /\ OneThread'
      BY <1>1, <3>2, <3>3 DEF OneWorkspace, IntentIsFirst, LeftForGood, OneStarter, OneThread
    <3>8. MissedIsOrphaned'
      BY <2>2, <3>1, <3>2, <3>3 DEF OneWorkspace, MissedIsOrphaned
    <3> QED BY <3>4, <3>5, <3>6, <3>7, <3>8 DEF OneWorkspace
  <2> QED BY <2>4, <2>5
<1>4. CASE Abandon(t)
  BY <1>1, <1>4, QuitInv DEF Abandon
<1> QED BY <1>2, <1>3, <1>4

\* What Discord and its moderators do on their own.
LEMMA AloneSteps ==
  ASSUME OneWorkspace, Land \/ Delete
  PROVE  OneWorkspace'
<1>1. UNCHANGED <<reg, lock, task, inquiries, faults>> /\ faults' \in 0..MaxFaults
  BY DEF Land, Delete, Fine, OneWorkspace, TypeOK
<1>2. CASE Land
  <2>1. PICK g \in Generations :
       \/ /\ <<"starter", g>> \in flight /\ flight' = flight \ {<<"starter", g>>}
          /\ Created(g) /\ UNCHANGED <<thread, orphaned>>
       \/ /\ <<"thread", g>> \in flight /\ flight' = flight \ {<<"thread", g>>}
          /\ Opened(g, FALSE) /\ UNCHANGED <<starter, sent>>
    BY <1>2 DEF Land
  <2>2. task' \in [Tasks -> TaskType]
    BY <1>1 DEF OneWorkspace, TypeOK, TaskType
  <2>3. \A u \in Tasks : /\ task'[u].row = task[u].row /\ task'[u].session = task[u].session
                         /\ task'[u].pc = task[u].pc
    BY <1>1
  <2> QED BY <1>1, <2>1, <2>2, <2>3, DiscordActs
<1>3. CASE Delete
  <2> USE DEF OneWorkspace
  <2>1. PICK g \in Generations \ {MaxGeneration} :
       \/ starter[g] = "live" /\ starter' = [starter EXCEPT ![g] = "deleted"] /\ UNCHANGED thread
       \/ thread[g] = "live" /\ thread' = [thread EXCEPT ![g] = "deleted"] /\ UNCHANGED starter
    BY <1>3 DEF Delete
  <2>2. UNCHANGED <<sent, flight, orphaned, attempt, inquiry, triage>>
    BY <1>3 DEF Delete, inquiries
  <2>3. MaxGeneration \in Generations /\ reg.gen \in Generations /\ \A t \in Tasks : Gen(t) \in Generations
    BY WorkspaceAssumption DEF Generations, TypeOK, RowType, Gen, Row
  <2>4. /\ starter' \in [Generations -> {"none", "live", "deleted"}]
        /\ thread' \in [Generations -> {"none", "live", "deleted"}]
        /\ \A h \in Generations : /\ starter'[h] = "none" <=> starter[h] = "none"
                                  /\ thread'[h] = "none" <=> thread[h] = "none"
                                  /\ thread[h] # "live" => thread'[h] # "live"
                                  /\ starter[h] = "deleted" => starter'[h] = "deleted"
                                  /\ thread[h] = "deleted" => thread'[h] = "deleted"
        /\ starter'[MaxGeneration] = starter[MaxGeneration]
        /\ thread'[MaxGeneration] = thread[MaxGeneration]
    BY <2>1, <2>3 DEF TypeOK
  <2>5. TypeOK'
    BY <1>1, <2>2, <2>4 DEF TypeOK
  <2>6. OneStarter' /\ OneThread' /\ LeftForGood'
    BY <1>1, <2>2, <2>3, <2>4 DEF OneStarter, OneThread, LeftForGood
  <2>9. MissedIsOrphaned'
    BY <1>1, <2>2, <2>3, <2>4 DEF MissedIsOrphaned, Row, Gen
  <2>7. LeaseIsCurrent' /\ IntentIsFirst'
    BY <1>1, <2>2 DEF LeaseIsCurrent, IntentIsFirst, Row, Gen
  <2>8. RowsAreHonest'
    BY <1>1, <2>3, <2>4 DEF RowsAreHonest, RowIsHonest, Row, Gen
  <2> QED BY <2>5, <2>6, <2>7, <2>8, <2>9
<1> QED BY <1>2, <1>3

\* An investigation does not touch the workspace.
LEMMA InquirySteps ==
  ASSUME OneWorkspace, NEW q \in Requests,
         \/ Claim(q) \/ CancelClaim(q) \/ StartTriage(q) \/ FinishTriage(q)
         \/ FailTriage(q) \/ BotDies(q) \/ TriageEnds(q)
  PROVE  OneWorkspace'
<1>1. UNCHANGED <<reg, lock, task, starter, thread, sent, flight, orphaned>>
  BY DEF Claim, CancelClaim, StartTriage, FinishTriage, FailTriage, BotDies, TriageEnds,
         ensures, discord
<1>2. /\ attempt' \in [Requests -> {"none", "claimed", "cancelled", "complete", "uncertain"}]
      /\ inquiry' \in [Requests -> {"idle", "claimed", "triage"}]
      /\ triage' \in [Requests -> {"none", "running", "over"}] /\ faults' \in 0..MaxFaults
  BY WorkspaceAssumption
     DEF OneWorkspace, TypeOK, Claim, CancelClaim, StartTriage, FinishTriage, FailTriage,
         BotDies, TriageEnds, Fine, Fault
<1>3. TypeOK'
  BY <1>1, <1>2 DEF OneWorkspace, TypeOK
<1> QED BY <1>1, <1>3
    DEF OneWorkspace, OneStarter, OneThread, LeaseIsCurrent, RowsAreHonest, RowIsHonest,
        IntentIsFirst, LeftForGood, MissedIsOrphaned, Row, Gen

\* However answers and database sessions are lost, however late Discord executes a
\* request and whatever moderators delete, no generation gets a second starter message,
\* and a thread beside the registry's is one that Discord made for a caller without the
\* lease and whose starter was deleted (apps/discord_bot/workspace.py, ensure).
THEOREM WorkspaceIsUnique == Spec => []OneWorkspace
<1>1. OneWorkspace /\ [Next]_vars => OneWorkspace'
  <2> SUFFICES ASSUME OneWorkspace, [Next]_vars PROVE OneWorkspace' OBVIOUS
  <2>1. CASE UNCHANGED vars
    BY <2>1 DEF vars, ensures, discord, inquiries, OneWorkspace, TypeOK, OneStarter, OneThread,
         LeaseIsCurrent, RowsAreHonest, RowIsHonest, IntentIsFirst, LeftForGood, MissedIsOrphaned,
         Row, Gen
  <2>2. ASSUME NEW t \in Tasks, Enter(t) \/ EnsureStep(t) \/ LoseSession(t) \/ Abandon(t)
        PROVE  OneWorkspace'
    BY <2>2, LeaseSteps, ReadSteps, CommitSteps, WriteSteps DEF EnsureStep
  <2>3. ASSUME Land \/ Delete PROVE OneWorkspace'
    BY <2>3, AloneSteps
  <2>4. ASSUME NEW q \in Requests,
               \/ Claim(q) \/ CancelClaim(q) \/ StartTriage(q) \/ FinishTriage(q)
               \/ FailTriage(q) \/ BotDies(q) \/ TriageEnds(q)
        PROVE  OneWorkspace'
    BY <2>4, InquirySteps
  <2> QED BY <2>1, <2>2, <2>3, <2>4 DEF Next
<1> QED BY <1>1, WorkspaceInit, PTL DEF Spec

----------------------------------------------------------------------------
(* DiscordWorkspace: the investigations.                                   *)

\* A set whose members are all equal has at most one.
LEMMA AtMostOne ==
  ASSUME NEW S, \A x, y \in S : x = y
  PROVE  Cardinality(S) <= 1
<1>1. CASE S = {}
  BY <1>1, FS_EmptySet
<1>2. CASE S # {}
  <2>1. PICK x \in S : TRUE
    BY <1>2
  <2>2. S = {x}
    BY <2>1
  <2> QED BY <2>2, FS_Singleton
<1> QED BY <1>1, <1>2

\* Without two blocking attempts no two triage runs overlap.
LEMMA OneTriageFollows == AttemptCovers /\ OneBlocks => OneTriage
<1> SUFFICES ASSUME AttemptCovers, OneBlocks PROVE OneTriage OBVIOUS
<1> DEFINE S == {q \in Requests : triage[q] = "running"}
<1>1. \A x, y \in S : x = y
  BY DEF AttemptCovers, OneBlocks
<1>2. Cardinality(S) <= 1
  BY <1>1, AtMostOne
<1> QED BY <1>2 DEF OneTriage

\* However the bot dies, is cancelled or gives up while a triage runs, no two triage runs
\* of an incident overlap and only a claim whose triage never started is withdrawn
\* (apps/discord_bot/thread_store.py, claim_investigation).
THEOREM InvestigationIsUnique == Spec => []OneInvestigation
<1> DEFINE Inv == AttemptCovers /\ OneBlocks /\ CancelledNeverRan
<1>1. Init => Inv
  BY DEF Init, AttemptCovers, OneBlocks, CancelledNeverRan, Blocking
<1>2. Inv /\ TypeOK /\ [Next]_vars => Inv'
  <2> SUFFICES ASSUME Inv, TypeOK, [Next]_vars PROVE Inv' OBVIOUS
  <2> USE DEF AttemptCovers, OneBlocks, CancelledNeverRan, Blocking
  <2>0. /\ attempt \in [Requests -> {"none", "claimed", "cancelled", "complete", "uncertain"}]
        /\ inquiry \in [Requests -> {"idle", "claimed", "triage"}]
        /\ triage \in [Requests -> {"none", "running", "over"}]
    BY DEF TypeOK
  <2>1. CASE UNCHANGED <<attempt, inquiry, triage>>
    BY <2>1
  <2>2. ASSUME NEW q \in Requests, Claim(q) PROVE Inv'
    BY <2>0, <2>2 DEF Claim, Claimable, Blocking
  <2>3. ASSUME NEW q \in Requests, CancelClaim(q) PROVE Inv'
    BY <2>0, <2>3 DEF CancelClaim
  <2>4. ASSUME NEW q \in Requests, StartTriage(q) PROVE Inv'
    BY <2>0, <2>4 DEF StartTriage
  <2>5. ASSUME NEW q \in Requests, FinishTriage(q) PROVE Inv'
    BY <2>0, <2>5 DEF FinishTriage
  <2>6. ASSUME NEW q \in Requests, FailTriage(q) PROVE Inv'
    BY <2>0, <2>6 DEF FailTriage
  <2>7. ASSUME NEW q \in Requests, BotDies(q) PROVE Inv'
    BY <2>0, <2>7 DEF BotDies
  <2>8. ASSUME NEW q \in Requests, TriageEnds(q) PROVE Inv'
    BY <2>0, <2>8 DEF TriageEnds
  <2>9. ASSUME NEW t \in Tasks, Enter(t) \/ EnsureStep(t) \/ LoseSession(t) \/ Abandon(t)
        PROVE  UNCHANGED inquiries
    BY <2>9 DEF Enter, EnsureStep, LoseSession, Abandon, CheckThread, CheckStarter, FetchStarter, IntendStarter,
         SendStarter, ReconcileStarter, SaveStarter, IntendThread, CreateThread, SaveThread, Return
  <2>10. ASSUME Land \/ Delete PROVE UNCHANGED inquiries
    BY <2>10 DEF Land, Delete
  <2> QED BY <2>1, <2>2, <2>3, <2>4, <2>5, <2>6, <2>7, <2>8, <2>9, <2>10 DEF Next, vars, inquiries
<1>3. OneWorkspace => TypeOK
  BY DEF OneWorkspace
<1>4. Inv => OneInvestigation
  BY OneTriageFollows DEF OneInvestigation
<1> QED BY <1>1, <1>2, <1>3, <1>4, WorkspaceIsUnique, PTL DEF Spec

=============================================================================
