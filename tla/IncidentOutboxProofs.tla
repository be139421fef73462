------------------------- MODULE IncidentOutboxProofs -------------------------
(***************************************************************************)
(* Proofs about the durable outbox of an incident, for every set of         *)
(* requests and reports and every bound.                                    *)
(*                                                                         *)
(* A sink is written before the flag that says so, and it is written with   *)
(* the incident as it is. A flag of an event about the current revision is  *)
(* therefore true of its sink (FlagsAreTrue), and since that revision       *)
(* always has its event (EventsInOrder), nothing pending means current. The *)
(* card may also be written, or be left alone, because of a row that was     *)
(* read earlier: such rows are never newer than dq.alerts (CardsInOrder),    *)
(* and who says that the card has the newest one is right, unless an older   *)
(* row was put over it (CardIsTracked).                                     *)
(***************************************************************************)
EXTENDS IncidentOutbox, SequenceTheorems, TLAPS

----------------------------------------------------------------------------
(* The outbox table.                                                        *)

\* A recorded event is in the outbox, every other event is where it was, and what is
\* new has no flag set.
LEMMA RecordedFacts ==
  ASSUME outbox \in Seq(Event), NEW kind, NEW request, NEW revision,
         NewEvent(kind, request, revision) \in Event,
         NEW s, s = Recorded(kind, request, revision)
  PROVE  /\ s \in Seq(Event) /\ DOMAIN outbox \subseteq DOMAIN s
         /\ \A n \in DOMAIN outbox : s[n] = outbox[n]
         /\ \A n \in DOMAIN s \ DOMAIN outbox : s[n] = NewEvent(kind, request, revision)
         /\ \E n \in DOMAIN s : s[n].kind = kind /\ s[n].revision = revision
<1>1. CASE \E n \in DOMAIN outbox : /\ outbox[n].kind = kind /\ outbox[n].request = request
                                    /\ outbox[n].revision = revision
  BY <1>1 DEF Recorded
<1>2. CASE ~\E n \in DOMAIN outbox : /\ outbox[n].kind = kind /\ outbox[n].request = request
                                     /\ outbox[n].revision = revision
  <2> DEFINE e == NewEvent(kind, request, revision)
  <2>1. e \in Event /\ e.kind = kind /\ e.revision = revision
    BY DEF NewEvent
  <2> HIDE DEF e
  <2>2. s = Append(outbox, e)
    BY <1>2 DEF Recorded, e
  <2>3. /\ s \in Seq(Event) /\ DOMAIN outbox = 1..Len(outbox) /\ Len(outbox) \in Nat
        /\ DOMAIN s = 1..(Len(outbox) + 1) /\ s[Len(outbox) + 1] = e
        /\ \A n \in 1..Len(outbox) : s[n] = outbox[n]
    BY <2>1, <2>2, AppendProperties, LenProperties
  <2>4. \A n \in DOMAIN s \ DOMAIN outbox : n = Len(outbox) + 1
    BY <2>3
  <2> QED BY <2>1, <2>3, <2>4 DEF e
<1> QED BY <1>1, <1>2

\* A delivery gets through the projection and the audit of its event.
LEMMA ReachesInOrder ==
  ASSUME NEW n, NEW o, Reaches(n, o, "delivery")
  PROVE  Reaches(n, o, "projection") /\ Reaches(n, o, "audit")
BY DEF Reaches

\* Flagging changes flags only.
LEMMA FlaggedFacts ==
  ASSUME outbox \in Seq(Event), NEW o, NEW deliver \in BOOLEAN,
         NEW s, s = Flagged(o, deliver)
  PROVE  /\ s \in Seq(Event) /\ DOMAIN s = DOMAIN outbox
         /\ \A n \in DOMAIN outbox :
              /\ s[n].kind = outbox[n].kind /\ s[n].revision = outbox[n].revision
              /\ s[n].projected <=> outbox[n].projected \/ Reaches(n, o, "projection")
              /\ s[n].audited <=> outbox[n].audited \/ Reaches(n, o, "audit")
              /\ s[n].delivered <=>
                   outbox[n].delivered \/ (deliver /\ Reaches(n, o, "delivery"))
<1>1. DOMAIN outbox = 1..Len(outbox) /\ Len(outbox) \in Nat
  BY LenProperties
<1>2. DOMAIN s = DOMAIN outbox
  BY DEF Flagged
<1>3. ASSUME NEW n \in DOMAIN outbox
      PROVE  /\ s[n] \in Event
             /\ s[n].kind = outbox[n].kind /\ s[n].revision = outbox[n].revision
             /\ s[n].projected <=> outbox[n].projected \/ Reaches(n, o, "projection")
             /\ s[n].audited <=> outbox[n].audited \/ Reaches(n, o, "audit")
             /\ s[n].delivered <=>
                  outbox[n].delivered \/ (deliver /\ Reaches(n, o, "delivery"))
  <2> DEFINE p == outbox[n].projected \/ Reaches(n, o, "projection")
             a == outbox[n].audited \/ Reaches(n, o, "audit")
             d == outbox[n].delivered \/ (deliver /\ Reaches(n, o, "delivery"))
  <2>1. p \in BOOLEAN /\ a \in BOOLEAN /\ d \in BOOLEAN
    OBVIOUS
  <2>2. outbox[n] \in Event
    BY <1>1, <1>3
  <2>3. s[n] = [outbox[n] EXCEPT !.projected = p, !.audited = a, !.delivered = d]
    BY <1>3 DEF Flagged
  <2> HIDE DEF p, a, d
  <2>4. /\ s[n] \in Event
        /\ s[n].kind = outbox[n].kind /\ s[n].revision = outbox[n].revision
        /\ s[n].projected = p /\ s[n].audited = a /\ s[n].delivered = d
    BY <2>1, <2>2, <2>3 DEF Event
  <2> QED BY <2>4, Zenon DEF p, a, d
<1>4. s \in Seq(Event)
  <2>1. s = [n \in 1..Len(outbox) |-> s[n]]
    BY <1>1 DEF Flagged
  <2>2. \A n \in 1..Len(outbox) : s[n] \in Event
    BY <1>1, <1>3
  <2>3. s \in [1..Len(outbox) -> Event]
    BY <2>1, <2>2
  <2> QED BY <1>1, <2>3, SeqDef
<1> QED BY <1>2, <1>3, <1>4

----------------------------------------------------------------------------
(* The invariant.                                                           *)

\* A row of dq.alerts that somebody read is the one it has now, or an older one.
Older(row) == row = warehouse \/ row.revision < warehouse.revision

\* dq.alerts is never ahead of the control row, and shows the incident when it is level
\* with it; a control row without an event was taken over from dq.alerts.
RowsInOrder ==
  /\ incident.status = "absent" <=> incident.revision = 0
  /\ incident.adopted => warehouse.revision >= 1
  /\ warehouse.revision = 0 => warehouse = Absent
  /\ warehouse.revision <= Current.revision
  /\ warehouse.revision = Current.revision => warehouse = Shown(Current)
  /\ \A r \in Requests : asked[r] <= incident.revision

\* The card, its delivery state and the writers have rows that dq.alerts had.
CardsInOrder == Older(card) /\ Older(recorded) /\ \A w \in Writers : Older(notice[w].row)

\* Unless the card is known to be stale, a delivery state or a writer that says it has the
\* row of dq.alerts is right, so a card that is left alone shows that row.
CardIsTracked ==
  ~stale => /\ recorded = warehouse => card = warehouse
            /\ \A w \in Writers :
                 notice[w].pc = "patched" /\ notice[w].row = warehouse => card = warehouse

\* The events of the outbox.
EventsInOrder ==
  /\ HasNews =>
       \E n \in DOMAIN outbox : UpdatesCard(outbox[n]) /\ outbox[n].revision = incident.revision
  /\ \A n \in DOMAIN outbox : outbox[n].revision \in 1..incident.revision

Tracked == RowsInOrder /\ CardsInOrder /\ CardIsTracked
OutboxInd == TypeOK /\ Tracked /\ EventsInOrder /\ FlagsAreTrue

\* The rows of the incident table.
IncidentRow ==
  [revision : Nat, episode : Nat, status : Statuses \cup {"absent"},
   report : Reports \cup {NoReport}, source : Nat, resolvedAt : Nat, adopted : BOOLEAN]

\* What a transaction finds: the control row, or the row of dq.alerts taken over.
LEMMA CurrentFacts ==
  ASSUME TypeOK, RowsInOrder
  PROVE  /\ Current \in IncidentRow /\ Current.revision >= incident.revision
         /\ Current.status = "absent" <=> Current.revision = 0
         /\ incident.status # "absent" => Current = incident
         /\ Current # incident =>
              /\ incident.revision = 0 /\ Current.revision = 1 /\ Current.adopted
              /\ warehouse.revision = 1
         /\ Current.adopted => warehouse.revision >= 1
         /\ Current.status = "absent" => Current = incident /\ warehouse = Absent
         /\ Current.source = incident.source /\ Current.resolvedAt = incident.resolvedAt
<1>1. incident \in IncidentRow /\ warehouse \in View
  BY DEF TypeOK, IncidentRow
<1>2. CASE incident.status = "absent" /\ warehouse.status # "absent"
  <2>1. Current = [incident EXCEPT !.revision = 1, !.episode = 1,
                                   !.status = warehouse.status, !.adopted = TRUE]
    BY <1>2 DEF Current
  <2>2. /\ Current \in IncidentRow /\ Current.revision = 1 /\ Current.adopted
        /\ Current.status = warehouse.status
        /\ Current.source = incident.source /\ Current.resolvedAt = incident.resolvedAt
    BY <1>1, <2>1 DEF IncidentRow, View
  <2>3. warehouse.revision = 1
    BY <1>1, <1>2, <2>2 DEF RowsInOrder, Absent, View
  <2> QED BY <1>2, <2>2, <2>3 DEF RowsInOrder
<1>3. CASE ~(incident.status = "absent" /\ warehouse.status # "absent")
  <2>1. Current = incident
    BY <1>3 DEF Current
  <2>2. incident.status = "absent" => warehouse = Absent
    BY <1>1, <2>1 DEF RowsInOrder, IncidentRow, View
  <2> QED BY <1>1, <2>1, <2>2 DEF RowsInOrder, IncidentRow
<1> QED BY <1>2, <1>3

----------------------------------------------------------------------------
(* What the steps do to the outbox and its sinks.                           *)

\* A lifecycle change commits the event of its revision together with it.
Revises(kind) ==
  /\ incident' \in IncidentRow /\ incident'.status # "absent"
  /\ incident'.revision = Current.revision + 1 /\ incident'.adopted = Current.adopted
  /\ outbox' = Recorded(kind, NoRequest, Current.revision + 1)
  /\ UNCHANGED <<warehouse, cards, asked>>

\* The event of the new revision is recorded, and no flag speaks of that revision yet.
LEMMA RevisionStep ==
  ASSUME OutboxInd, NEW kind \in AboutIncident, Revises(kind)
  PROVE  outbox' \in Seq(Event) /\ Tracked' /\ EventsInOrder' /\ FlagsAreTrue'
<1>r. PICK r : r = Current.revision + 1
  OBVIOUS
<1>1. /\ outbox \in Seq(Event) /\ incident.revision \in Nat /\ Current.revision \in Nat
      /\ Current.revision >= incident.revision /\ r \in Nat /\ kind \in Kinds
      /\ warehouse.revision \in Nat
      /\ \A n \in DOMAIN outbox : outbox[n].revision \in Nat
  <2>1. outbox \in Seq(Event) /\ DOMAIN outbox = 1..Len(outbox)
    BY LenProperties DEF OutboxInd, TypeOK
  <2>2. \A n \in DOMAIN outbox : outbox[n] \in Event
    BY <2>1
  <2>3. Current.revision \in Nat /\ Current.revision >= incident.revision
    BY CurrentFacts DEF OutboxInd, Tracked, IncidentRow
  <2> QED BY <1>r, <2>1, <2>2, <2>3 DEF OutboxInd, TypeOK, View, Event, Kinds
<1>2. outbox' = Recorded(kind, NoRequest, r)
  BY <1>r DEF Revises
<1>3. /\ outbox' \in Seq(Event)
      /\ \A n \in DOMAIN outbox : outbox'[n] = outbox[n]
      /\ \A n \in DOMAIN outbox' \ DOMAIN outbox : outbox'[n] = NewEvent(kind, NoRequest, r)
      /\ \E n \in DOMAIN outbox' : outbox'[n].kind = kind /\ outbox'[n].revision = r
  <2>1. NewEvent(kind, NoRequest, r) \in Event
    BY <1>1 DEF NewEvent, Event
  <2> QED BY <1>1, <1>2, <2>1, RecordedFacts
<1>4. \A n \in DOMAIN outbox' \ DOMAIN outbox :
        /\ outbox'[n].kind = kind /\ outbox'[n].revision = r
        /\ ~outbox'[n].projected /\ ~outbox'[n].audited /\ ~outbox'[n].delivered
  BY <1>3 DEF NewEvent
<1>5. \A n \in DOMAIN outbox : outbox'[n].revision \in 1..incident.revision
  BY <1>3 DEF OutboxInd, EventsInOrder
<1>6. r = incident'.revision /\ incident'.status # "absent" /\ Current' = incident'
  BY <1>r DEF Revises, Current
<1>7. EventsInOrder'
  <2>1. \A n \in DOMAIN outbox' : outbox'[n].revision \in 1..r
    BY <1>r, <1>1, <1>3, <1>4, <1>5
  <2> QED BY <1>3, <1>6, <2>1 DEF EventsInOrder, UpdatesCard
<1>8. Tracked'
  <2>1. warehouse.revision <= Current.revision /\ (Current.adopted => warehouse.revision >= 1)
    BY CurrentFacts DEF OutboxInd, Tracked, RowsInOrder
  <2>2. \A q \in Requests : asked[q] \in Nat /\ asked[q] <= incident.revision
    BY DEF OutboxInd, TypeOK, Tracked, RowsInOrder
  <2>3. RowsInOrder'
    BY <1>r, <1>1, <1>6, <2>1, <2>2 DEF OutboxInd, Tracked, RowsInOrder, Revises, Absent
  <2>4. CardsInOrder' /\ CardIsTracked'
    BY DEF Revises, cards, OutboxInd, Tracked, CardsInOrder, CardIsTracked, Older
  <2> QED BY <2>3, <2>4 DEF Tracked
<1>9. FlagsAreTrue'
  <2>1. ASSUME NEW n \in DOMAIN outbox'
        PROVE  /\ outbox'[n].delivered => outbox'[n].projected /\ outbox'[n].audited
               /\ outbox'[n].revision = r => ~outbox'[n].projected /\ ~outbox'[n].delivered
    <3>1. CASE n \in DOMAIN outbox
      BY <1>r, <1>1, <1>3, <1>5, <3>1 DEF OutboxInd, FlagsAreTrue
    <3>2. CASE n \notin DOMAIN outbox
      BY <1>4, <3>2
    <3> QED BY <3>1, <3>2
  <2> QED BY <1>6, <2>1 DEF FlagsAreTrue
<1> QED BY <1>3, <1>7, <1>8, <1>9

\* A step that may take an alert over, and may record an event about a check.
TakesOver ==
  /\ incident' = Current /\ UNCHANGED <<warehouse, cards>>
  /\ \A r \in Requests : asked'[r] = asked[r] \/ asked'[r] = Current.revision
  /\ \/ outbox' = outbox
     \/ \E kind \in {"requested", "completed"}, q \in Requests :
          Current.revision >= 1 /\ outbox' = Recorded(kind, q, Current.revision)

\* A row that is taken over agrees with dq.alerts, and an event about a check says nothing
\* of the sinks.
LEMMA TakeOverStep ==
  ASSUME OutboxInd, TakesOver, asked' \in [Requests -> Nat]
  PROVE  outbox' \in Seq(Event) /\ Tracked' /\ EventsInOrder' /\ FlagsAreTrue'
<1>1. outbox \in Seq(Event) /\ Current.revision \in Nat /\ incident.revision \in Nat
      /\ Current.revision >= incident.revision
  BY CurrentFacts DEF OutboxInd, TypeOK, Tracked, IncidentRow
<1>2. Current' = Current
  BY CurrentFacts DEF OutboxInd, Tracked, TakesOver, Current
<1>3. /\ outbox' \in Seq(Event) /\ DOMAIN outbox \subseteq DOMAIN outbox'
      /\ \A n \in DOMAIN outbox : outbox'[n] = outbox[n]
      /\ \A n \in DOMAIN outbox' \ DOMAIN outbox :
           /\ ~UpdatesCard(outbox'[n]) /\ outbox'[n].revision = Current.revision
           /\ Current.revision >= 1
           /\ ~outbox'[n].projected /\ ~outbox'[n].audited /\ ~outbox'[n].delivered
  <2>1. CASE outbox' = outbox
    BY <1>1, <2>1
  <2>2. CASE outbox' # outbox
    <3>0. PICK kind \in {"requested", "completed"}, q \in Requests :
            Current.revision >= 1 /\ outbox' = Recorded(kind, q, Current.revision)
      BY <2>2 DEF TakesOver
    <3>1. NewEvent(kind, q, Current.revision) \in Event /\ kind \notin AboutIncident
      BY <1>1 DEF NewEvent, Event, Kinds, AboutIncident
    <3>2. /\ outbox' \in Seq(Event) /\ DOMAIN outbox \subseteq DOMAIN outbox'
          /\ \A n \in DOMAIN outbox : outbox'[n] = outbox[n]
          /\ \A n \in DOMAIN outbox' \ DOMAIN outbox :
               outbox'[n] = NewEvent(kind, q, Current.revision)
      BY <1>1, <3>0, <3>1, RecordedFacts
    <3> QED BY <3>0, <3>1, <3>2 DEF NewEvent, UpdatesCard
  <2> QED BY <2>1, <2>2
<1>4. \A n \in DOMAIN outbox : outbox[n].revision \in 1..incident.revision
  BY DEF OutboxInd, EventsInOrder
<1>5. CASE Current = incident
  <2>1. incident' = incident
    BY <1>5 DEF TakesOver
  <2>2. EventsInOrder'
    <3>1. \A n \in DOMAIN outbox' : outbox'[n].revision \in 1..incident.revision
      BY <1>1, <1>3, <1>4, <1>5
    <3>2. HasNews =>
            \E n \in DOMAIN outbox' :
               UpdatesCard(outbox'[n]) /\ outbox'[n].revision = incident.revision
      <4>1. ASSUME HasNews, NEW n \in DOMAIN outbox, UpdatesCard(outbox[n]),
                   outbox[n].revision = incident.revision
            PROVE  n \in DOMAIN outbox' /\ UpdatesCard(outbox'[n])
                   /\ outbox'[n].revision = incident.revision
        BY <1>3, <4>1
      <4> QED BY <4>1 DEF OutboxInd, EventsInOrder
    <3> QED BY <2>1, <3>1, <3>2 DEF EventsInOrder, HasNews, UpdatesCard
  <2>3. FlagsAreTrue'
    <3>1. ASSUME NEW n \in DOMAIN outbox'
          PROVE  /\ outbox'[n].delivered => outbox'[n].projected /\ outbox'[n].audited
                 /\ UpdatesCard(outbox'[n]) /\ outbox'[n].revision = incident.revision =>
                      /\ outbox'[n].projected => warehouse = Shown(incident)
                      /\ outbox'[n].delivered /\ ~stale => card = Shown(incident)
      <4>1. CASE n \in DOMAIN outbox
        BY <1>3, <4>1 DEF OutboxInd, FlagsAreTrue
      <4>2. CASE n \notin DOMAIN outbox
        BY <1>3, <4>2
      <4> QED BY <4>1, <4>2
    <3> QED BY <2>1, <3>1 DEF FlagsAreTrue, UpdatesCard, Shown, TakesOver, cards
  <2>4. RowsInOrder'
    BY <1>1, <1>2, <1>5, <2>1 DEF OutboxInd, TypeOK, Tracked, RowsInOrder, TakesOver, Absent,
                                  Shown
  <2> QED BY <1>3, <2>2, <2>3, <2>4
          DEF OutboxInd, Tracked, CardsInOrder, CardIsTracked, Older, TakesOver, cards
<1>6. CASE Current # incident
  <2>1. /\ incident.revision = 0 /\ Current.revision = 1 /\ Current.adopted
        /\ warehouse.revision = 1 /\ Current.status # "absent"
    BY <1>6, CurrentFacts DEF OutboxInd, Tracked
  <2>2. incident' = Current /\ ~HasNews'
    BY <2>1 DEF TakesOver, HasNews
  <2>3. DOMAIN outbox = {}
    <3>1. \A n \in DOMAIN outbox : FALSE
      BY <1>4, <2>1
    <3> QED BY <3>1
  <2>4. EventsInOrder' /\ FlagsAreTrue'
    BY <1>3, <2>1, <2>2, <2>3 DEF EventsInOrder, FlagsAreTrue, UpdatesCard
  <2>5. RowsInOrder'
    <3>1. \A r \in Requests : asked'[r] <= 1
      BY <2>1 DEF TakesOver, OutboxInd, TypeOK, Tracked, RowsInOrder
    <3> QED BY <1>2, <2>1, <2>2, <3>1 DEF OutboxInd, Tracked, RowsInOrder, TakesOver, Shown
  <2> QED BY <1>3, <2>4, <2>5
          DEF OutboxInd, Tracked, CardsInOrder, CardIsTracked, Older, TakesOver, cards
<1> QED BY <1>5, <1>6

\* What a synchronisation writes to dq.alerts, and the row its card is rendered from.
LEMMA SinksFacts ==
  ASSUME NEW o
  PROVE  /\ WarehouseAfter(o) \in {Shown(incident), warehouse}
         /\ RowPosted(o) \in {WarehouseAfter(o), warehouse}
         /\ Inserted(o) # {} => WarehouseAfter(o) = Shown(incident)
         /\ warehouse = Shown(incident) =>
              WarehouseAfter(o) = Shown(incident) /\ RowPosted(o) = Shown(incident)
BY DEF WarehouseAfter, RowPosted

\* What a synchronisation does to the card and its delivery state: nothing, if nothing is
\* posted or the recorded content is the row already; or it records the row it posted, and
\* the card shows that row or is known to be stale.
LEMMA CardsFacts ==
  ASSUME TypeOK, NEW o, NEW deliver \in BOOLEAN, RowPosted(o) \in View,
         NEW e \in CardsAfter(o, deliver),
         card' = e.card, recorded' = e.recorded, notice' = e.notice, stale' = e.stale
  PROVE  /\ card' \in View /\ recorded' \in View /\ stale' \in BOOLEAN
         /\ notice' \in [Writers -> Notices]
         /\ \A w \in Writers : notice'[w].row = notice[w].row
         /\ card' \in {card, RowPosted(o)} \cup {notice[w].row : w \in Writers}
         /\ \/ /\ UNCHANGED cards
               /\ deliver /\ CardsPosted(o) # {} => recorded = RowPosted(o)
            \/ recorded' = RowPosted(o) /\ (~stale' => card' = RowPosted(o))
<1>0. /\ card \in View /\ recorded \in View /\ stale \in BOOLEAN
      /\ notice \in [Writers -> Notices]
  BY DEF TypeOK
<1>1. CASE ~(deliver /\ Posts(o))
  <2>1. e = CardNow
    BY <1>1 DEF CardsAfter
  <2>2. UNCHANGED cards
    BY <2>1 DEF CardNow, cards
  <2> QED BY <1>0, <1>1, <2>2 DEF cards, Posts
<1>2. CASE e = Patched(o)
  <2>1. /\ card' = RowPosted(o) /\ recorded' = RowPosted(o)
        /\ stale' = FALSE /\ notice' = notice
    BY <1>2 DEF Patched, CardNow
  <2> QED BY <1>0, <2>1
<1>3. CASE e \in Overtaken(o)
  <2>1. PICK w \in Writers :
          e = [card |-> notice[w].row, recorded |-> RowPosted(o),
               notice |-> [notice EXCEPT ![w].pc = "patched"],
               stale |-> notice[w].row # RowPosted(o)]
    BY <1>3 DEF Overtaken
  <2>2. /\ card' = notice[w].row /\ recorded' = RowPosted(o)
        /\ notice' = [notice EXCEPT ![w].pc = "patched"]
        /\ stale' = (notice[w].row # RowPosted(o))
    BY <2>1
  <2>3. /\ notice' \in [Writers -> Notices]
        /\ \A v \in Writers : notice'[v].row = notice[v].row
    BY <1>0, <2>2 DEF Notices
  <2>4. notice[w].row \in View
    BY <1>0 DEF Notices
  <2> QED BY <1>0, <2>2, <2>3, <2>4
<1> QED BY <1>1, <1>2, <1>3 DEF CardsAfter

\* A synchronisation, wherever it stops and whether or not it commits, leaves no flag that
\* its sink does not bear out, unless the card is known to be stale.
LEMMA SyncStep ==
  ASSUME OutboxInd, NEW deliver \in BOOLEAN, Pending # {}, Synchronize(AnyEffect(deliver))
  PROVE  OutboxInd' /\ warehouse'.revision >= warehouse.revision
<1>f. PICK f \in AnyEffect(deliver) :
        /\ warehouse' = f.warehouse /\ outbox' = f.outbox
        /\ card' = f.cards.card /\ recorded' = f.cards.recorded
        /\ notice' = f.cards.notice /\ stale' = f.cards.stale
  BY DEF Synchronize
<1>o. PICK o \in Outcomes(deliver) :
        f \in Effects(o, deliver, {Flagged(o, deliver), outbox})
  BY DEF AnyEffect
<1>1. PICK c \in BOOLEAN, e \in CardsAfter(o, deliver) :
        /\ warehouse' = WarehouseAfter(o)
        /\ card' = e.card /\ recorded' = e.recorded /\ notice' = e.notice /\ stale' = e.stale
        /\ outbox' = IF c THEN Flagged(o, deliver) ELSE outbox
  <2>1. /\ f.warehouse = WarehouseAfter(o) /\ f.cards \in CardsAfter(o, deliver)
        /\ f.outbox \in {Flagged(o, deliver), outbox}
    BY <1>o DEF Effects
  <2>2. outbox' = (IF f.outbox = Flagged(o, deliver) THEN Flagged(o, deliver) ELSE outbox)
    BY <1>f, <2>1
  <2> QED BY <1>f, <2>1, <2>2
<1>2. UNCHANGED <<incident, asked, stage, check, clock, candidate>>
  BY DEF Synchronize
<1>3. incident.revision \in 1..incident.revision /\ incident.revision \in Nat
      /\ Current = incident /\ incident.status # "absent"
  <2>1. PICK n \in DOMAIN outbox : TRUE
    BY DEF Pending
  <2>2. outbox[n].revision \in 1..incident.revision /\ incident.revision \in Nat
    BY DEF OutboxInd, EventsInOrder, TypeOK
  <2>3. incident.revision # 0
    BY <2>2
  <2> QED BY <2>2, <2>3, CurrentFacts DEF OutboxInd, Tracked, RowsInOrder
<1>4. Shown(incident) \in View /\ Shown(incident).revision = incident.revision
      /\ Shown(incident) # Absent
  BY <1>3 DEF OutboxInd, TypeOK, Shown, View, Statuses, Absent
<1>5. /\ warehouse \in View /\ card \in View /\ recorded \in View
      /\ notice \in [Writers -> Notices] /\ outbox \in Seq(Event)
  BY DEF OutboxInd, TypeOK
<1>6. /\ warehouse' \in {Shown(incident), warehouse} /\ warehouse' \in View
      /\ RowPosted(o) \in {warehouse', warehouse} /\ RowPosted(o) \in View
  BY <1>1, <1>4, <1>5, SinksFacts
<1>7. /\ card' \in View /\ recorded' \in View /\ stale' \in BOOLEAN
      /\ notice' \in [Writers -> Notices]
      /\ \A w \in Writers : notice'[w].row = notice[w].row
      /\ card' \in {card, RowPosted(o)} \cup {notice[w].row : w \in Writers}
      /\ \/ /\ UNCHANGED cards
            /\ deliver /\ CardsPosted(o) # {} => recorded = RowPosted(o)
         \/ recorded' = RowPosted(o) /\ (~stale' => card' = RowPosted(o))
  BY <1>1, <1>6, CardsFacts DEF OutboxInd
<1>8. /\ warehouse.revision \in Nat /\ warehouse.revision <= incident.revision
      /\ warehouse.revision = incident.revision => warehouse = Shown(incident)
  BY <1>3, <1>5 DEF OutboxInd, Tracked, RowsInOrder, View
<1>9. warehouse'.revision >= warehouse.revision /\ warehouse'.revision <= incident.revision
      /\ (warehouse' # warehouse => warehouse'.revision > warehouse.revision)
  BY <1>3, <1>4, <1>6, <1>8
\* Who has an older row has one now, too.
<1>10. ASSUME NEW row \in View, Older(row)
       PROVE  /\ row = warehouse' \/ row.revision < warehouse'.revision
              /\ row = warehouse' => warehouse' = warehouse
  BY <1>6, <1>8, <1>9, <1>10 DEF Older, View
<1>11. /\ Older(card) /\ Older(recorded)
       /\ \A w \in Writers : Older(notice[w].row) /\ notice[w].row \in View
  BY <1>5 DEF OutboxInd, Tracked, CardsInOrder, Notices
<1>12. Tracked'
  <2>1. RowsInOrder'
    <3>1. Current' = Current
      BY <1>2, <1>3 DEF Current
    <3>2. warehouse'.revision = incident.revision => warehouse' = Shown(incident)
      BY <1>6, <1>8
    <3>3. warehouse'.revision = 0 => warehouse' = Absent
      BY <1>3, <1>4, <1>6 DEF OutboxInd, Tracked, RowsInOrder
    <3>4. incident.adopted => warehouse'.revision >= 1
      BY <1>3, <1>4, <1>6 DEF OutboxInd, Tracked, RowsInOrder
    <3> QED BY <1>2, <1>3, <1>9, <3>1, <3>2, <3>3, <3>4
            DEF OutboxInd, Tracked, RowsInOrder, Absent, Shown
  <2>2. CardsInOrder'
    <3>1. Older(warehouse)
      BY DEF Older
    <3>2. RowPosted(o) = warehouse' \/ RowPosted(o).revision < warehouse'.revision
      BY <1>5, <1>6, <1>10, <3>1
    <3>3. card' = warehouse' \/ card'.revision < warehouse'.revision
      BY <1>5, <1>7, <1>10, <1>11, <3>2
    <3>4. recorded' = warehouse' \/ recorded'.revision < warehouse'.revision
      BY <1>5, <1>7, <1>10, <1>11, <3>2 DEF cards
    <3>5. \A w \in Writers :
            notice'[w].row = warehouse' \/ notice'[w].row.revision < warehouse'.revision
      BY <1>7, <1>10, <1>11
    <3> QED BY <3>3, <3>4, <3>5 DEF CardsInOrder, Older
  <2>3. CardIsTracked'
    <3>1. CASE UNCHANGED cards
      <4>1. recorded = warehouse' => warehouse' = warehouse
        BY <1>5, <1>10, <1>11
      <4>2. \A w \in Writers : notice[w].row = warehouse' => warehouse' = warehouse
        BY <1>10, <1>11
      <4> QED BY <3>1, <4>1, <4>2 DEF OutboxInd, Tracked, CardIsTracked, cards
    <3>2. CASE recorded' = RowPosted(o) /\ (~stale' => card' = RowPosted(o))
      <4>1. \A w \in Writers : notice'[w].row = warehouse' => RowPosted(o) = warehouse'
        BY <1>6, <1>7, <1>10, <1>11
      <4> QED BY <3>2, <4>1 DEF CardIsTracked
    <3> QED BY <1>7, <3>1, <3>2
  <2> QED BY <2>1, <2>2, <2>3 DEF Tracked
<1>13. /\ outbox' \in Seq(Event) /\ DOMAIN outbox' = DOMAIN outbox
       /\ \A n \in DOMAIN outbox :
            /\ outbox'[n].kind = outbox[n].kind /\ outbox'[n].revision = outbox[n].revision
            /\ outbox'[n].projected => outbox[n].projected \/ Reaches(n, o, "projection")
            /\ outbox'[n].delivered =>
                 \/ outbox[n].delivered /\ outbox'[n].projected /\ outbox'[n].audited
                 \/ /\ deliver /\ Reaches(n, o, "delivery")
                    /\ outbox'[n].projected /\ outbox'[n].audited
  <2>0. \A n \in DOMAIN outbox : outbox[n].delivered => outbox[n].projected /\ outbox[n].audited
    BY DEF OutboxInd, FlagsAreTrue
  <2>1. CASE c
    <3>1. outbox' = Flagged(o, deliver)
      BY <1>1, <2>1
    <3>2. /\ outbox' \in Seq(Event) /\ DOMAIN outbox' = DOMAIN outbox
          /\ \A n \in DOMAIN outbox :
               /\ outbox'[n].kind = outbox[n].kind /\ outbox'[n].revision = outbox[n].revision
               /\ outbox'[n].projected <=> outbox[n].projected \/ Reaches(n, o, "projection")
               /\ outbox'[n].audited <=> outbox[n].audited \/ Reaches(n, o, "audit")
               /\ outbox'[n].delivered <=>
                    outbox[n].delivered \/ (deliver /\ Reaches(n, o, "delivery"))
      BY <1>5, <3>1, FlaggedFacts
    <3> QED BY <2>0, <3>2, ReachesInOrder
  <2>2. CASE ~c
    BY <1>1, <1>5, <2>0, <2>2
  <2> QED BY <2>1, <2>2
<1>14. EventsInOrder'
  BY <1>2, <1>13 DEF OutboxInd, EventsInOrder, HasNews, UpdatesCard
<1>15. ASSUME NEW n \in DOMAIN outbox, UpdatesCard(outbox[n]),
              outbox[n].revision = incident.revision, outbox'[n].projected
       PROVE  warehouse' = Shown(incident)
  <2>1. CASE outbox[n].projected
    BY <1>1, <1>15, <2>1, SinksFacts DEF OutboxInd, FlagsAreTrue
  <2>2. CASE ~outbox[n].projected
    <3>1. n \in Inserted(o)
      BY <1>13, <1>15, <2>2 DEF Inserted
    <3> QED BY <1>1, <3>1, SinksFacts
  <2> QED BY <2>1, <2>2
<1>16. ASSUME NEW n \in DOMAIN outbox, UpdatesCard(outbox[n]),
              outbox[n].revision = incident.revision, outbox'[n].delivered, ~stale'
       PROVE  card' = Shown(incident)
  \* The card was posted with the current row, or its delivery state names that row.
  <2>1. CASE RowPosted(o) = Shown(incident) /\ recorded' = RowPosted(o)
    <3>1. CASE UNCHANGED cards
      <4>1. recorded = Shown(incident) /\ ~stale
        BY <1>16, <2>1, <3>1 DEF cards
      <4>2. warehouse = Shown(incident)
        BY <1>3, <1>4, <1>8, <1>11, <4>1 DEF Older
      <4> QED BY <3>1, <4>1, <4>2 DEF OutboxInd, Tracked, CardIsTracked, cards
    <3> QED BY <1>7, <1>16, <2>1, <3>1
  <2>2. CASE outbox[n].delivered
    <3>1. warehouse = Shown(incident) /\ RowPosted(o) = Shown(incident)
      BY <1>16, <2>2, SinksFacts DEF OutboxInd, FlagsAreTrue
    <3>2. CASE UNCHANGED cards
      BY <1>16, <2>2, <3>2 DEF OutboxInd, FlagsAreTrue, cards
    <3> QED BY <1>7, <2>1, <3>1, <3>2
  <2>3. CASE ~outbox[n].delivered
    <3>1. deliver /\ Reaches(n, o, "delivery") /\ Reaches(n, o, "projection")
      BY <1>13, <1>16, <2>3, ReachesInOrder
    <3>2. n \in CardsPosted(o)
      BY <1>16, <2>3, <3>1 DEF CardsPosted
    <3>3. RowPosted(o) = Shown(incident)
      <4>1. CASE outbox[n].projected
        BY <1>16, <4>1, SinksFacts DEF OutboxInd, FlagsAreTrue
      <4>2. CASE ~outbox[n].projected
        <5>1. n \in Inserted(o) /\ n <= n
          BY <1>5, <3>1, <4>2, LenProperties DEF Inserted
        <5> QED BY <3>2, <5>1 DEF RowPosted
      <4> QED BY <4>1, <4>2
    <3> QED BY <1>7, <2>1, <3>1, <3>2, <3>3 DEF cards
  <2> QED BY <2>2, <2>3
<1>17. FlagsAreTrue'
  BY <1>2, <1>13, <1>15, <1>16 DEF FlagsAreTrue, UpdatesCard, Shown
<1>18. TypeOK'
  BY <1>2, <1>6, <1>7, <1>13 DEF OutboxInd, TypeOK
<1> QED BY <1>9, <1>12, <1>14, <1>17, <1>18 DEF OutboxInd

----------------------------------------------------------------------------
(* Every step keeps the invariant.                                          *)

\* Nothing is recorded before the first candidate.
LEMMA OutboxInit == Init => OutboxInd
<1> SUFFICES ASSUME Init PROVE OutboxInd
  OBVIOUS
<1>1. outbox = <<>> /\ <<>> \in Seq(Event) /\ DOMAIN outbox = {}
  BY DEF Init
<1>2. Absent \in View /\ warehouse \in View
      /\ \/ warehouse = Absent
         \/ warehouse.revision = 1 /\ warehouse.status # "absent"
  BY OutboxAssumption DEF Init, View, Absent, Statuses
<1>3. TypeOK
  <2>1. notice \in [Writers -> Notices]
    BY <1>2 DEF Init, Notices, NoNotice
  <2> QED BY <1>1, <1>2, <2>1 DEF Init, TypeOK
<1>4. EventsInOrder /\ FlagsAreTrue
  BY <1>1 DEF Init, EventsInOrder, HasNews, FlagsAreTrue
<1>5. RowsInOrder
  BY <1>2 DEF Init, RowsInOrder, Current, Shown, Absent
<1>6. CardsInOrder /\ CardIsTracked
  BY <1>2 DEF Init, CardsInOrder, CardIsTracked, Older, Absent, NoNotice
<1> QED BY <1>3, <1>4, <1>5, <1>6 DEF OutboxInd, Tracked

\* A step that leaves the outbox, its sinks and the incident alone keeps what is said of them.
LEMMA Untouched ==
  ASSUME OutboxInd, UNCHANGED <<incident, outbox, warehouse, cards, asked>>
  PROVE  outbox' \in Seq(Event) /\ Tracked' /\ EventsInOrder' /\ FlagsAreTrue'
BY DEF OutboxInd, TypeOK, Tracked, RowsInOrder, CardsInOrder, CardIsTracked, Older, Current,
       EventsInOrder, HasNews, FlagsAreTrue, UpdatesCard, Shown, cards

\* A row whose fields are replaced by values of their types is a row.
LEMMA RowUpdates ==
  ASSUME NEW i \in IncidentRow, NEW v \in Nat, NEW s \in Statuses
  PROVE  /\ \A e, t \in Nat :
              [i EXCEPT !.revision = v, !.episode = e, !.status = s, !.source = t] \in IncidentRow
         /\ \A report \in Reports :
              [i EXCEPT !.revision = v, !.status = s, !.report = report] \in IncidentRow
         /\ \A t \in Nat :
              [i EXCEPT !.revision = v, !.status = s, !.resolvedAt = t] \in IncidentRow
BY DEF IncidentRow

\* Publishing a candidate opens an episode, or drops the candidate.
LEMMA PublishStep ==
  ASSUME OutboxInd, PublishCandidate
  PROVE  OutboxInd' /\ ReopenIsNew
<1>0. /\ Current \in IncidentRow /\ candidate \in Nat /\ asked \in [Requests -> Nat]
      /\ (incident.status # "absent" => Current = incident)
      /\ Current.resolvedAt = incident.resolvedAt
  BY CurrentFacts DEF OutboxInd, Tracked, TypeOK
<1>1. CASE Current.status = "absent" \/ Reopens
  <2>1. /\ incident' = [Current EXCEPT !.revision = @ + 1, !.episode = @ + 1,
                                       !.status = "open", !.source = candidate]
        /\ outbox' = Recorded("incident_detected", NoRequest, Current.revision + 1)
        /\ candidate' = 0 /\ UNCHANGED <<warehouse, cards, asked, stage, check, clock>>
    BY <1>1 DEF PublishCandidate
  <2>2. /\ incident'.revision = Current.revision + 1 /\ incident'.source = candidate
        /\ incident'.status = "open" /\ incident'.adopted = Current.adopted
        /\ incident' \in IncidentRow
    <3>1. /\ "open" \in Statuses
          /\ Current.revision + 1 \in Nat /\ Current.episode + 1 \in Nat
      BY <1>0 DEF IncidentRow, Statuses
    <3>2. /\ incident'.revision = Current.revision + 1 /\ incident'.source = candidate
          /\ incident'.status = "open" /\ incident'.adopted = Current.adopted
      BY <1>0, <2>1 DEF IncidentRow
    <3>3. PICK v \in Nat, e \in Nat, s \in Statuses :
            incident' = [Current EXCEPT !.revision = v, !.episode = e, !.status = s,
                                        !.source = candidate]
      BY <2>1, <3>1
    <3>4. [Current EXCEPT !.revision = v, !.episode = e, !.status = s,
                          !.source = candidate] \in IncidentRow
      BY <1>0, <3>1, RowUpdates
    <3> QED BY <3>2, <3>3, <3>4
  <2>3. "incident_detected" \in AboutIncident /\ Revises("incident_detected")
    BY <2>1, <2>2 DEF AboutIncident, Revises
  <2>4. outbox' \in Seq(Event) /\ Tracked' /\ EventsInOrder' /\ FlagsAreTrue'
    BY <2>3, RevisionStep
  <2>5. TypeOK'
    BY <2>1, <2>2, <2>4 DEF OutboxInd, TypeOK, IncidentRow, cards
  <2>6. ReopenIsNew
    BY <1>0, <1>1, <2>2 DEF ReopenIsNew, Reopens
  <2> QED BY <2>4, <2>5, <2>6 DEF OutboxInd
<1>2. CASE ~(Current.status = "absent" \/ Reopens)
  <2>1. /\ candidate' = 0 /\ incident' = Current
        /\ UNCHANGED <<outbox, warehouse, cards, asked, stage, check, clock>>
    BY <1>2 DEF PublishCandidate
  <2>2. TakesOver /\ asked' \in [Requests -> Nat]
    BY <1>0, <2>1 DEF TakesOver
  <2>3. outbox' \in Seq(Event) /\ Tracked' /\ EventsInOrder' /\ FlagsAreTrue'
    BY <2>2, TakeOverStep
  <2>4. TypeOK'
    BY <1>0, <2>1, <2>3 DEF OutboxInd, TypeOK, IncidentRow, cards
  <2>5. ReopenIsNew
    BY <1>0, <2>1 DEF ReopenIsNew
  <2> QED BY <2>3, <2>4, <2>5 DEF OutboxInd
<1> QED BY <1>1, <1>2

\* A triage report that changes something is a revision; a resolved incident stays resolved.
LEMMA TriagedStep ==
  ASSUME OutboxInd, TransitionTriaged
  PROVE  OutboxInd' /\ ReopenIsNew
<1>0. /\ Current \in IncidentRow /\ asked \in [Requests -> Nat]
      /\ (incident.status # "absent" => Current = incident)
  BY CurrentFacts DEF OutboxInd, Tracked, TypeOK
<1>1. PICK report \in Reports, status \in {"resolved", "triaged"} :
        /\ Current.status = "resolved" => status = "resolved"
        /\ \/ /\ incident' = [Current EXCEPT !.revision = @ + 1, !.status = status,
                                             !.report = report]
              /\ outbox' = Recorded("incident_triaged", NoRequest, Current.revision + 1)
           \/ incident' = Current /\ UNCHANGED outbox
        /\ UNCHANGED <<warehouse, cards, asked, stage, check, clock, candidate>>
  <2>1. PICK report \in Reports :
          LET status == IF Current.status = "resolved" THEN "resolved" ELSE "triaged" IN
          /\ IF Current.report # report \/ Current.status # status
             THEN /\ incident' = [Current EXCEPT !.revision = @ + 1, !.status = status,
                                                 !.report = report]
                  /\ outbox' = Recorded("incident_triaged", NoRequest, Current.revision + 1)
             ELSE incident' = Current /\ UNCHANGED outbox
          /\ UNCHANGED <<warehouse, cards, asked, stage, check, clock, candidate>>
    BY Zenon DEF TransitionTriaged
  <2>2. CASE Current.status = "resolved"
    BY <2>1, <2>2
  <2>3. CASE Current.status # "resolved"
    BY <2>1, <2>3
  <2> QED BY <2>2, <2>3
<1>2. CASE /\ incident' = [Current EXCEPT !.revision = @ + 1, !.status = status,
                                          !.report = report]
           /\ outbox' = Recorded("incident_triaged", NoRequest, Current.revision + 1)
  <2>1. /\ incident'.revision = Current.revision + 1 /\ incident'.status = status
        /\ incident'.adopted = Current.adopted /\ incident' \in IncidentRow
    <3>1. Current.revision + 1 \in Nat /\ status \in Statuses
      BY <1>0 DEF IncidentRow, Statuses
    <3>2. /\ incident'.revision = Current.revision + 1 /\ incident'.status = status
          /\ incident'.adopted = Current.adopted
      BY <1>0, <1>2 DEF IncidentRow
    <3>3. PICK v \in Nat :
            incident' = [Current EXCEPT !.revision = v, !.status = status, !.report = report]
      BY <1>2, <3>1
    <3>4. [Current EXCEPT !.revision = v, !.status = status, !.report = report] \in IncidentRow
      BY <1>0, <3>1, RowUpdates
    <3> QED BY <3>2, <3>3, <3>4
  <2>2. "incident_triaged" \in AboutIncident /\ Revises("incident_triaged")
    BY <1>1, <1>2, <2>1 DEF AboutIncident, Revises
  <2>3. outbox' \in Seq(Event) /\ Tracked' /\ EventsInOrder' /\ FlagsAreTrue'
    BY <2>2, RevisionStep
  <2>4. TypeOK'
    BY <1>1, <2>1, <2>3 DEF OutboxInd, TypeOK, IncidentRow, cards
  <2>5. ReopenIsNew
    BY <1>0, <1>1, <2>1 DEF ReopenIsNew
  <2> QED BY <2>3, <2>4, <2>5 DEF OutboxInd
<1>3. CASE incident' = Current /\ UNCHANGED outbox
  <2>1. TakesOver /\ asked' \in [Requests -> Nat]
    BY <1>0, <1>1, <1>3 DEF TakesOver
  <2>2. outbox' \in Seq(Event) /\ Tracked' /\ EventsInOrder' /\ FlagsAreTrue'
    BY <2>1, TakeOverStep
  <2>3. TypeOK'
    BY <1>0, <1>1, <1>3, <2>2 DEF OutboxInd, TypeOK, IncidentRow, cards
  <2>4. ReopenIsNew
    BY <1>0, <1>3 DEF ReopenIsNew
  <2> QED BY <2>2, <2>3, <2>4 DEF OutboxInd
<1> QED BY <1>1, <1>2, <1>3

\* A confirmed closure is a revision.
LEMMA ConfirmStep ==
  ASSUME OutboxInd, ConfirmResolution
  PROVE  OutboxInd' /\ ReopenIsNew
<1>0. Current = incident /\ incident \in IncidentRow /\ clock + 1 \in Nat
  BY CurrentFacts DEF ConfirmResolution, OutboxInd, Tracked, TypeOK, IncidentRow
<1>1. /\ incident' = [incident EXCEPT !.revision = @ + 1, !.status = "resolved",
                                      !.resolvedAt = clock + 1]
      /\ outbox' = Recorded("incident_resolved", NoRequest, incident.revision + 1)
      /\ clock' = clock + 1 /\ UNCHANGED <<warehouse, cards, asked, stage, check, candidate>>
  BY DEF ConfirmResolution
<1>2. /\ incident'.revision = incident.revision + 1 /\ incident'.status = "resolved"
      /\ incident'.adopted = incident.adopted /\ incident' \in IncidentRow
  <2>1. "resolved" \in Statuses /\ incident.revision + 1 \in Nat
    BY <1>0 DEF IncidentRow, Statuses
  <2>2. /\ incident'.revision = incident.revision + 1 /\ incident'.status = "resolved"
        /\ incident'.adopted = incident.adopted
    BY <1>0, <1>1 DEF IncidentRow
  <2>3. PICK v \in Nat, s \in Statuses, t \in Nat :
          incident' = [incident EXCEPT !.revision = v, !.status = s, !.resolvedAt = t]
    BY <1>0, <1>1, <2>1
  <2>4. [incident EXCEPT !.revision = v, !.status = s, !.resolvedAt = t] \in IncidentRow
    BY <1>0, <2>1, RowUpdates
  <2> QED BY <2>2, <2>3, <2>4
<1>3. "incident_resolved" \in AboutIncident /\ Revises("incident_resolved")
  BY <1>0, <1>1, <1>2 DEF AboutIncident, Revises
<1>4. outbox' \in Seq(Event) /\ Tracked' /\ EventsInOrder' /\ FlagsAreTrue'
  BY <1>3, RevisionStep
<1>5. TypeOK'
  BY <1>0, <1>1, <1>2, <1>4 DEF OutboxInd, TypeOK, IncidentRow, cards
<1> QED BY <1>2, <1>4, <1>5 DEF OutboxInd, ReopenIsNew

\* A request, its result and a preview record no revision.
LEMMA CheckEventStep ==
  ASSUME OutboxInd,
         CreateRevalidation \/ PersistResult \/ NotifyResult \/ ResolutionPreview
  PROVE  OutboxInd' /\ warehouse' = warehouse /\ ReopenIsNew
<1>0. /\ Current \in IncidentRow /\ asked \in [Requests -> Nat]
      /\ incident.revision \in Nat /\ Current.revision \in Nat
      /\ stage \in [Requests -> {"none", "persist", "notify"}]
      /\ (incident.status # "absent" => Current = incident)
      /\ (incident.status = "absent" <=> incident.revision = 0)
      /\ (Current.status = "absent" <=> Current.revision = 0)
      /\ \A r \in Requests : asked[r] <= incident.revision
  BY CurrentFacts DEF OutboxInd, Tracked, TypeOK, IncidentRow, RowsInOrder
<1>1. /\ TakesOver /\ asked' \in [Requests -> Nat]
      /\ stage' \in [Requests -> {"none", "persist", "notify"}]
      /\ UNCHANGED <<check, clock, candidate>>
  <2>1. CASE CreateRevalidation
    <3>1. PICK r \in Requests :
            /\ Current.status \in {"open", "triaged"} /\ incident' = Current
            /\ asked' = [asked EXCEPT ![r] = Current.revision]
            /\ outbox' = Recorded("requested", r, Current.revision)
            /\ UNCHANGED <<warehouse, cards, stage, check, clock, candidate>>
      BY <2>1 DEF CreateRevalidation
    <3>2. asked' \in [Requests -> Nat]
          /\ \A q \in Requests : asked'[q] = asked[q] \/ asked'[q] = Current.revision
      BY <1>0, <3>1
    <3>3. Current.revision >= 1
      BY <1>0, <3>1
    <3> QED BY <1>0, <3>1, <3>2, <3>3 DEF TakesOver
  <2>2. CASE PersistResult \/ NotifyResult
    <3>1. PICK r \in Requests, s \in {"persist", "notify"} :
            /\ asked[r] # 0 /\ stage' = [stage EXCEPT ![r] = s]
            /\ outbox' = Recorded("completed", r, incident.revision)
            /\ UNCHANGED <<incident, warehouse, cards, asked, check, clock, candidate>>
      BY <2>2 DEF PersistResult, NotifyResult
    <3>2. incident.revision >= 1 /\ Current = incident
      BY <1>0, <3>1
    <3>3. stage' \in [Requests -> {"none", "persist", "notify"}]
      BY <1>0, <3>1
    <3> QED BY <1>0, <3>1, <3>2, <3>3 DEF TakesOver
  <2>3. CASE ResolutionPreview
    BY <1>0, <2>3 DEF ResolutionPreview, TakesOver
  <2> QED BY <2>1, <2>2, <2>3
<1>2. outbox' \in Seq(Event) /\ Tracked' /\ EventsInOrder' /\ FlagsAreTrue'
  BY <1>1, TakeOverStep
<1>3. TypeOK'
  BY <1>0, <1>1, <1>2 DEF OutboxInd, TypeOK, IncidentRow, TakesOver, cards
<1>4. ReopenIsNew
  BY <1>0, <1>1 DEF ReopenIsNew, TakesOver
<1> QED BY <1>1, <1>2, <1>3, <1>4 DEF OutboxInd, TakesOver

\* Another writer of the card puts an older row over it, and says so, or the row it has now.
LEMMA NoticeStep ==
  ASSUME OutboxInd, NEW w \in Writers,
         NoticeReads(w) \/ NoticePatches(w) \/ NoticeRecords(w)
  PROVE  OutboxInd' /\ UNCHANGED <<incident, warehouse>>
<1>0. /\ notice \in [Writers -> Notices] /\ warehouse \in View /\ stale \in BOOLEAN
      /\ notice[w].row \in View /\ card \in View /\ recorded \in View
  BY DEF OutboxInd, TypeOK, Notices
<1>1. UNCHANGED <<incident, outbox, warehouse, asked, stage, check, clock, candidate>>
  BY DEF NoticeReads, NoticePatches, NoticeRecords
<1>2. Older(warehouse) /\ Older(Absent)
  BY <1>0 DEF Older, OutboxInd, Tracked, RowsInOrder, Absent, View
<1>3. /\ TypeOK' /\ CardsInOrder' /\ CardIsTracked'
      /\ ~stale' => (card' = card /\ ~stale) \/ card' = warehouse
  <2>1. CASE NoticeReads(w)
    <3>1. /\ notice' = [notice EXCEPT ![w] = [pc |-> "read", row |-> warehouse]]
          /\ UNCHANGED <<card, recorded, stale>>
      BY <2>1 DEF NoticeReads
    <3>2. notice' \in [Writers -> Notices]
      BY <1>0, <3>1 DEF Notices
    <3> QED BY <1>0, <1>1, <1>2, <3>1, <3>2
            DEF OutboxInd, TypeOK, Tracked, CardsInOrder, CardIsTracked, Older
  <2>2. CASE NoticePatches(w) /\ recorded = notice[w].row
    <3>1. notice' = [notice EXCEPT ![w] = NoticeOver] /\ UNCHANGED <<card, recorded, stale>>
      BY <2>2 DEF NoticePatches
    <3>2. NoticeOver = [pc |-> "over", row |-> Absent] /\ Absent \in View
      BY DEF NoticeOver, NoNotice, Absent, View
    <3>3. notice' \in [Writers -> Notices]
      BY <1>0, <3>1, <3>2 DEF Notices
    <3> QED BY <1>0, <1>1, <1>2, <3>1, <3>2, <3>3
            DEF OutboxInd, TypeOK, Tracked, CardsInOrder, CardIsTracked, Older
  <2>3. CASE NoticePatches(w) /\ recorded # notice[w].row
    <3>1. /\ notice' = [notice EXCEPT ![w].pc = "patched"] /\ recorded' = recorded
          /\ card' = notice[w].row /\ stale' = (notice[w].row # warehouse)
      BY <2>3 DEF NoticePatches
    <3>2. /\ notice' \in [Writers -> Notices]
          /\ \A v \in Writers : notice'[v].row = notice[v].row
      BY <1>0, <3>1 DEF Notices
    <3>3. TypeOK'
      BY <1>0, <1>1, <3>1, <3>2 DEF OutboxInd, TypeOK
    <3>4. CardsInOrder' /\ CardIsTracked'
      BY <1>0, <1>1, <3>1, <3>2 DEF OutboxInd, Tracked, CardsInOrder, CardIsTracked, Older
    <3> QED BY <3>1, <3>3, <3>4
  <2>4. CASE NoticeRecords(w)
    <3>1. /\ notice[w].pc = "patched" /\ recorded' = notice[w].row
          /\ notice' = [notice EXCEPT ![w] = NoticeOver] /\ UNCHANGED <<card, stale>>
      BY <2>4 DEF NoticeRecords
    <3>2. NoticeOver = [pc |-> "over", row |-> Absent] /\ Absent \in View
      BY DEF NoticeOver, NoNotice, Absent, View
    <3>3. notice' \in [Writers -> Notices]
      BY <1>0, <3>1, <3>2 DEF Notices
    <3> QED BY <1>0, <1>1, <1>2, <3>1, <3>2, <3>3
            DEF OutboxInd, TypeOK, Tracked, CardsInOrder, CardIsTracked, Older
  <2> QED BY <2>1, <2>2, <2>3, <2>4
<1>4. RowsInOrder' /\ EventsInOrder'
  BY <1>1 DEF OutboxInd, Tracked, RowsInOrder, Current, Shown, EventsInOrder, HasNews,
              UpdatesCard
<1>5. FlagsAreTrue'
  <2>1. ASSUME NEW n \in DOMAIN outbox
        PROVE  /\ outbox[n].delivered => outbox[n].projected /\ outbox[n].audited
               /\ UpdatesCard(outbox[n]) /\ outbox[n].revision = incident.revision =>
                    /\ outbox[n].projected => warehouse = Shown(incident)
                    /\ outbox[n].delivered /\ ~stale' => card' = Shown(incident)
    BY <1>3 DEF OutboxInd, FlagsAreTrue
  <2> QED BY <1>1, <2>1 DEF FlagsAreTrue, UpdatesCard, Shown
<1> QED BY <1>1, <1>3, <1>4, <1>5 DEF OutboxInd, Tracked

\* Every step keeps the invariant and takes nothing back.
LEMMA OutboxStep ==
  ASSUME OutboxInd, [Next]_vars
  PROVE  OutboxInd' /\ NoRegression /\ ReopenIsNew
<1>0. warehouse.revision \in Nat
  BY DEF OutboxInd, TypeOK, View
<1>1. CASE SyncDue \/ Flush
  <2>1. PICK deliver \in BOOLEAN : Pending # {} /\ Synchronize(AnyEffect(deliver))
    BY <1>1 DEF SyncDue, Flush
  <2>2. incident' = incident
    BY <2>1 DEF Synchronize
  <2> QED BY <2>1, <2>2, SyncStep DEF NoRegression, ReopenIsNew
<1>2. ASSUME NEW w \in Writers, NoticeReads(w) \/ NoticePatches(w) \/ NoticeRecords(w)
      PROVE  OutboxInd' /\ NoRegression /\ ReopenIsNew
  BY <1>0, <1>2, NoticeStep DEF NoRegression, ReopenIsNew
<1>3. CASE CheckRuns \/ SelectCandidate
  <2>1. UNCHANGED <<incident, outbox, warehouse, cards, asked>>
    BY <1>3 DEF CheckRuns, SelectCandidate
  <2>2. TypeOK'
    <3>1. /\ clock' \in Nat /\ candidate' \in Nat
          /\ check' \in [status : {"pass", "fail"}, at : Nat, seen : BOOLEAN]
      <4>1. /\ clock \in Nat /\ candidate \in Nat
            /\ check \in [status : {"pass", "fail"}, at : Nat, seen : BOOLEAN]
        BY DEF OutboxInd, TypeOK
      <4>2. CASE CheckRuns
        BY <4>1, <4>2 DEF CheckRuns
      <4>3. CASE SelectCandidate
        BY <4>1, <4>3 DEF SelectCandidate
      <4> QED BY <1>3, <4>2, <4>3
    <3>2. stage' = stage
      BY <1>3 DEF CheckRuns, SelectCandidate
    <3> QED BY <2>1, <3>1, <3>2 DEF OutboxInd, TypeOK, cards
  <2> QED BY <1>0, <2>1, <2>2, Untouched DEF OutboxInd, NoRegression, ReopenIsNew
<1>4. CASE PublishCandidate
  <2>1. warehouse' = warehouse
    BY <1>4 DEF PublishCandidate
  <2> QED BY <1>0, <1>4, <2>1, PublishStep DEF NoRegression
<1>5. CASE TransitionTriaged
  <2>1. warehouse' = warehouse
    BY <1>5 DEF TransitionTriaged
  <2> QED BY <1>0, <1>5, <2>1, TriagedStep DEF NoRegression
<1>6. CASE ConfirmResolution
  <2>1. warehouse' = warehouse
    BY <1>6 DEF ConfirmResolution
  <2> QED BY <1>0, <1>6, <2>1, ConfirmStep DEF NoRegression
<1>7. CASE CreateRevalidation \/ PersistResult \/ NotifyResult \/ ResolutionPreview
  BY <1>0, <1>7, CheckEventStep DEF NoRegression
<1>8. CASE UNCHANGED vars
  <2>1. TypeOK'
    BY <1>8 DEF vars, OutboxInd, TypeOK, cards
  <2> QED BY <1>0, <1>8, <2>1, Untouched DEF vars, OutboxInd, NoRegression, ReopenIsNew
<1> QED BY <1>1, <1>2, <1>3, <1>4, <1>5, <1>6, <1>7, <1>8 DEF Next

\* With nothing pending, the event of the current revision is done, and so are its sinks;
\* a row that was only taken over is the row of dq.alerts.
LEMMA DoneIsCurrent ==
  ASSUME OutboxInd
  PROVE  SyncInv
<1>0. /\ incident.revision \in Nat /\ warehouse.revision \in Nat
      /\ warehouse \in View /\ card \in View
  BY DEF OutboxInd, TypeOK, View
<1>1. SyncedIsCurrent
  <2> SUFFICES ASSUME Pending = {}, incident.status # "absent"
               PROVE  warehouse = Shown(incident) /\ (HasNews /\ ~stale => card = Shown(incident))
    BY DEF SyncedIsCurrent
  <2>1. CASE HasNews
    <3>1. PICK n \in DOMAIN outbox :
            UpdatesCard(outbox[n]) /\ outbox[n].revision = incident.revision
      BY <2>1 DEF OutboxInd, EventsInOrder
    <3>2. Done(outbox[n])
      BY <3>1 DEF Pending
    <3>3. outbox[n].projected /\ outbox[n].delivered
      BY <3>2 DEF Done
    <3> QED BY <3>1, <3>3 DEF OutboxInd, FlagsAreTrue
  <2>2. CASE ~HasNews
    <3>1. incident.adopted /\ incident.revision = 1 /\ Current = incident
      BY <2>2, CurrentFacts DEF HasNews, OutboxInd, Tracked
    <3>2. warehouse.revision = 1
      BY <1>0, <3>1 DEF OutboxInd, Tracked, RowsInOrder
    <3> QED BY <2>2, <3>1, <3>2 DEF OutboxInd, Tracked, RowsInOrder
  <2> QED BY <2>1, <2>2
<1>2. NewsIsRecorded
  <2>1. card.revision <= warehouse.revision
    BY <1>0 DEF OutboxInd, Tracked, CardsInOrder, Older, View
  <2> QED BY <2>1 DEF OutboxInd, Tracked, RowsInOrder, EventsInOrder, NewsIsRecorded
<1> QED BY <1>1, <1>2 DEF OutboxInd, SyncInv

(***************************************************************************)
(* synchronization_pending = false is kept as a promise to the operator:    *)
(* with no event pending, the alert table shows the incident as the control *)
(* database has it, and so does the Discord card, unless a delivery outside *)
(* the outbox put an older row over it. It is kept although a               *)
(* synchronisation may stop at any event and phase, may write its sinks and *)
(* still be rolled back, and may skip a card whose delivery state another   *)
(* writer recorded.                                                        *)
(***************************************************************************)
THEOREM SyncedIsTrue == Spec => []SyncInv
<1>1. OutboxInd /\ [Next]_vars => OutboxInd'
  BY OutboxStep
<1>2. OutboxInd => SyncInv
  BY DoneIsCurrent
<1> QED BY <1>1, <1>2, OutboxInit, PTL DEF Spec

(***************************************************************************)
(* Old news stays old: neither the replay of an event, nor a candidate that *)
(* the producer selected before the closure, takes the projection or the    *)
(* incident back.                                                           *)
(***************************************************************************)
THEOREM OldNewsStaysOld == Spec => NoStepBack
<1>1. OutboxInd /\ [Next]_vars => OutboxInd'
  BY OutboxStep
<1>2. OutboxInd /\ [Next]_vars => [NoRegression /\ ReopenIsNew]_vars
  BY OutboxStep
<1> QED BY <1>1, <1>2, OutboxInit, PTL DEF Spec, NoStepBack

=============================================================================
