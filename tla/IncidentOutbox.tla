--------------------------- MODULE IncidentOutbox ---------------------------
(***************************************************************************)
(* The durable outbox of one incident (agent/tools/incident_resolution.py). *)
(* A lifecycle change and its event commit in one control transaction; the  *)
(* ClickHouse projection, the audit row and the Discord message follow in    *)
(* synchronize_incident, whose sinks do not roll back with PostgreSQL.       *)
(* The alert producer decides from the projection whether a failing check    *)
(* deserves a candidate, so a projection that lags changes what it does.     *)
(* The card has writers outside the outbox: the notification tasks of the    *)
(* DAGs, the command line and the interfaces deliver rows of dq.alerts that   *)
(* they read before, without the lifecycle lock (apps/discord_bot/delivery.py).*)
(***************************************************************************)
EXTENDS Integers, Sequences, FiniteSets

CONSTANTS
  Requests,           \* revalidation requests the operators may make
  Reports,            \* triage reports
  NoReport,           \* a snapshot without report
  NoRequest,          \* the request of an event about the incident itself
  Writers,            \* deliveries of the card outside the outbox
  Legacy,             \* states of an alert that dq.alerts held before it had a control row
  DiscordConfigured,  \* are bot token and channels set?
  MaxRevision,        \* bound on the revisions of the incident
  MaxChecks           \* bound on the runs of the scheduled check

ASSUME OutboxAssumption ==
  /\ NoReport \notin Reports
  /\ NoRequest \notin Requests
  /\ Legacy \subseteq {"open", "triaged", "resolved"}
  /\ DiscordConfigured \in BOOLEAN
  /\ MaxRevision \in Nat
  /\ MaxChecks \in Nat

VARIABLES
  incident,   \* the dq_control.incident_controls row (revision 0: no row yet)
  outbox,     \* dq_control.incident_outbox in created_at order
  warehouse,  \* what dq.alerts FINAL shows of the incident
  card,       \* what the Discord message named by the delivery state shows
  recorded,   \* the content the delivery state says it has
  notice,     \* writer -> its delivery: the row it read, and whether it patched the card
  stale,      \* was the card last written with a row that dq.alerts had replaced by then?
  asked,      \* request -> incident revision it was created for (0: not created)
  stage,      \* request -> the last stage of its run that wrote its event
  check,      \* the newest scheduled check result
  clock,      \* logical time of check runs and closures
  candidate   \* detection time of the candidate the producer selected (0: none)

cards == <<card, recorded, notice, stale>>
vars == <<incident, outbox, warehouse, cards, asked, stage, check, clock, candidate>>

Statuses == {"open", "triaged", "resolved"}
AboutIncident == {"incident_detected", "incident_triaged", "incident_resolved"}
Kinds == AboutIncident \cup {"requested", "completed"}
View == [revision : Nat, status : Statuses \cup {"absent"}]
Event == [kind : Kinds, request : Requests \cup {NoRequest}, revision : Nat,
          projected : BOOLEAN, audited : BOOLEAN, delivered : BOOLEAN]
Notices == [pc : {"idle", "read", "patched", "over"}, row : View]

TypeOK ==
  /\ incident \in [revision : Nat, episode : Nat, status : Statuses \cup {"absent"},
                   report : Reports \cup {NoReport}, source : Nat, resolvedAt : Nat,
                   adopted : BOOLEAN]
  /\ outbox \in Seq(Event)
  /\ warehouse \in View /\ card \in View /\ recorded \in View
  /\ notice \in [Writers -> Notices] /\ stale \in BOOLEAN
  /\ asked \in [Requests -> Nat]
  /\ stage \in [Requests -> {"none", "persist", "notify"}]
  /\ check \in [status : {"pass", "fail"}, at : Nat, seen : BOOLEAN]
  /\ clock \in Nat /\ candidate \in Nat

\* Mutant: the projection writes a label that is no status.
ShownLabel(i) ==
  [revision |-> i.revision, status |-> IF i.status = "resolved" THEN "closed" ELSE i.status]

Shown(i) == [revision |-> i.revision, status |-> i.status]
Absent == [revision |-> 0, status |-> "absent"]
NoNotice == [pc |-> "idle", row |-> Absent]
NoticeOver == [NoNotice EXCEPT !.pc = "over"]

Init ==
  /\ incident = [revision |-> 0, episode |-> 0, status |-> "absent",
                 report |-> NoReport, source |-> 0, resolvedAt |-> 0, adopted |-> FALSE]
  /\ outbox = <<>>
  /\ warehouse \in {Absent} \cup {[revision |-> 1, status |-> s] : s \in Legacy}
  /\ card = Absent /\ recorded = Absent
  /\ notice = [w \in Writers |-> NoNotice] /\ stale = FALSE
  /\ asked = [r \in Requests |-> 0]
  /\ stage = [r \in Requests |-> "none"]
  /\ check = [status |-> "pass", at |-> 0, seen |-> TRUE]
  /\ clock = 0 /\ candidate = 0

\* initialize: an alert without control row is taken over from dq.alerts, as revision 1
\* and without an event. What a transaction finds after it:
Current ==
  IF incident.status = "absent" /\ warehouse.status # "absent"
  THEN [incident EXCEPT !.revision = 1, !.episode = 1, !.status = warehouse.status,
                        !.adopted = TRUE]
  ELSE incident

(***************************************************************************)
(* The outbox table.                                                        *)
(***************************************************************************)
NewEvent(kind, request, revision) ==
  [kind |-> kind, request |-> request, revision |-> revision,
   projected |-> FALSE, audited |-> FALSE, delivered |-> FALSE]

\* INSERT ... ON CONFLICT(alert_key,revision,event_type) DO NOTHING; the type of an
\* event about a check contains the request id.
Recorded(kind, request, revision) ==
  IF \E n \in DOMAIN outbox : /\ outbox[n].kind = kind /\ outbox[n].request = request
                              /\ outbox[n].revision = revision
  THEN outbox ELSE Append(outbox, NewEvent(kind, request, revision))

Done(e) == e.projected /\ e.audited /\ e.delivered
Pending == {n \in DOMAIN outbox : ~Done(outbox[n])}

\* Events that post to Discord: the card, or the result of a check. A requested
\* event is marked delivered without a transport.
UpdatesCard(e) == e.kind \in AboutIncident
NeedsDiscord(e) == e.kind # "requested"

(***************************************************************************)
(* synchronize_incident. The pending events are handled in order until one  *)
(* of them raises (stop, phase) or none does (stop = 0).                     *)
(***************************************************************************)
Phases == {"projection", "audit", "delivery"}

\* Does event n still have this phase ahead of it?
Ahead(n, phase, deliver) ==
  CASE phase = "projection" -> ~outbox[n].projected
    [] phase = "audit"      -> ~outbox[n].audited
    [] phase = "delivery"   -> deliver /\ ~outbox[n].delivered /\ NeedsDiscord(outbox[n])

\* Without configuration the first delivery that needs Discord raises.
Refused(deliver) ==
  IF DiscordConfigured THEN {} ELSE {n \in Pending : Ahead(n, "delivery", deliver)}

Outcomes(deliver) ==
  {o \in ({0} \cup Pending) \X Phases :
     /\ o[1] = 0 => o[2] = "projection" /\ Refused(deliver) = {}
     /\ o[1] # 0 => /\ Ahead(o[1], o[2], deliver)
                    /\ \A n \in Refused(deliver) : o[1] <= n}

\* The outcome when nothing fails but what the configuration makes fail.
Clean(deliver) ==
  IF Refused(deliver) = {} THEN <<0, "projection">>
  ELSE <<CHOOSE n \in Refused(deliver) : \A m \in Refused(deliver) : n <= m, "delivery">>

\* Does event n get through a phase?
Reaches(n, o, phase) ==
  /\ ~Done(outbox[n])
  /\ \/ o[1] = 0
     \/ n < o[1]
     \/ n = o[1] /\ \/ o[2] = "delivery" /\ phase \in {"projection", "audit"}
                    \/ o[2] = "audit" /\ phase = "projection"

\* Mutant: an event without a transport is never marked as delivered.
FlaggedTransportOnly(o, deliver) ==
  [n \in DOMAIN outbox |->
     [outbox[n] EXCEPT !.projected = @ \/ Reaches(n, o, "projection"),
                       !.audited   = @ \/ Reaches(n, o, "audit"),
                       !.delivered = @ \/ (deliver /\ NeedsDiscord(outbox[n])
                                            /\ Reaches(n, o, "delivery"))]]

\* The flags committed for the events that were handled.
Flagged(o, deliver) ==
  [n \in DOMAIN outbox |->
     [outbox[n] EXCEPT !.projected = @ \/ Reaches(n, o, "projection"),
                       !.audited   = @ \/ Reaches(n, o, "audit"),
                       !.delivered = @ \/ (deliver /\ Reaches(n, o, "delivery"))]]

\* The events whose projection is inserted.
Inserted(o) == {n \in DOMAIN outbox : Reaches(n, o, "projection") /\ ~outbox[n].projected}

\* Mutant: the projection inserts the version the event was recorded for.
WarehouseAfterStale(o) ==
  IF Inserted(o) = {} THEN warehouse
  ELSE LET n == CHOOSE m \in Inserted(o) : \A k \in Inserted(o) : k <= m
       IN  [revision |-> outbox[n].revision, status |-> incident.status]

\* Every projection inserts the incident as it is now, not as the event found it.
WarehouseAfter(o) == IF Inserted(o) # {} THEN Shown(incident) ELSE warehouse

\* The card is rendered from dq.alerts as it is when that event is delivered.
CardsPosted(o) ==
  {n \in DOMAIN outbox : /\ Reaches(n, o, "delivery")
                         /\ ~outbox[n].delivered /\ UpdatesCard(outbox[n])}
RowPosted(o) ==
  IF \E m \in Inserted(o), n \in CardsPosted(o) : m <= n THEN Shown(incident) ELSE warehouse

\* Mutant: a card that shows the same lifecycle is left alone.
PostsLifecycle(o) == CardsPosted(o) # {} /\ recorded.status # RowPosted(o).status

\* deliver_alert leaves a card alone whose recorded content is the same already.
Posts(o) == CardsPosted(o) # {} /\ recorded # RowPosted(o)

CardNow == [card |-> card, recorded |-> recorded, notice |-> notice, stale |-> stale]

\* The card is patched and recorded. A delivery that fails between the two is repeated
\* like one that was rolled back, with the same result.
Patched(o) ==
  [CardNow EXCEPT !.card = RowPosted(o), !.recorded = RowPosted(o), !.stale = FALSE]

\* Another writer patches it between the patch of the outbox and its record.
Overtaken(o) ==
  {[card |-> notice[w].row, recorded |-> RowPosted(o),
    notice |-> [notice EXCEPT ![w].pc = "patched"],
    stale |-> notice[w].row # RowPosted(o)] : w \in {v \in Writers : notice[v].pc = "read"}}

CardsAfter(o, deliver) ==
  IF deliver /\ Posts(o) THEN {Patched(o)} \cup Overtaken(o) ELSE {CardNow}

\* The sinks are written inside the transaction; when it is rolled back (a crash,
\* a lost connection) they keep what they got and the flags stay as they were.
Effects(o, deliver, outboxes) ==
  [warehouse : {WarehouseAfter(o)}, cards : CardsAfter(o, deliver), outbox : outboxes]

Synchronize(effects) ==
  /\ UNCHANGED <<incident, asked, stage, check, clock, candidate>>
  /\ \E e \in effects :
       /\ warehouse' = e.warehouse /\ outbox' = e.outbox
       /\ card' = e.cards.card /\ recorded' = e.cards.recorded
       /\ notice' = e.cards.notice /\ stale' = e.cards.stale

\* A call that may fail anywhere.
AnyEffect(deliver) == 
  UNION {Effects(o, deliver, {Flagged(o, deliver), outbox}) : o \in Outcomes(deliver)}

\* The call with deliver=False at the end of publish_candidates and transition_triaged.
\* A caller that dies first never makes it, and a triage repeated with the same report
\* changes nothing but makes it again: it may come at any time.
SyncDue == Pending # {} /\ Synchronize(AnyEffect(FALSE))

\* The call with deliver=True: at the end of confirm_resolution and of the notify stage,
\* and by flush_incident_outbox of the reconciliation DAG at any other time.
Flush == Pending # {} /\ Synchronize(AnyEffect(TRUE))

\* The same call while PostgreSQL, ClickHouse and a configured Discord answer.
FlushClean ==
  /\ Pending # {} /\ outbox' = Flagged(Clean(TRUE), TRUE)
  /\ Synchronize(Effects(Clean(TRUE), TRUE, {outbox'}))

(***************************************************************************)
(* The other writers of the card: run_discord_bot_notifications and          *)
(* synchronize_incident_message called outside synchronize_incident.         *)
(***************************************************************************)
\* The rows are read first; the delivery may end after any of its steps.
NoticeReads(w) ==
  /\ notice[w].pc = "idle" /\ DiscordConfigured /\ warehouse.status # "absent"
  /\ notice' = [notice EXCEPT ![w] = [pc |-> "read", row |-> warehouse]]
  /\ UNCHANGED <<incident, outbox, warehouse, card, recorded, stale, asked, stage, check,
                 clock, candidate>>

\* deliver_alert, a row at a time: skip an unchanged card, or patch it ...
NoticePatches(w) ==
  /\ notice[w].pc = "read"
  /\ IF recorded = notice[w].row
     THEN notice' = [notice EXCEPT ![w] = NoticeOver] /\ UNCHANGED <<card, stale>>
     ELSE /\ notice' = [notice EXCEPT ![w].pc = "patched"]
          /\ card' = notice[w].row /\ stale' = (notice[w].row # warehouse)
  /\ UNCHANGED <<incident, outbox, warehouse, recorded, asked, stage, check, clock,
                 candidate>>

\* ... and write the delivery state.
NoticeRecords(w) ==
  /\ notice[w].pc = "patched"
  /\ recorded' = notice[w].row
  /\ notice' = [notice EXCEPT ![w] = NoticeOver]
  /\ UNCHANGED <<incident, outbox, warehouse, card, stale, asked, stage, check, clock,
                 candidate>>

(***************************************************************************)
(* The alert producer.                                                      *)
(***************************************************************************)
\* The clock counts the runs of the check and the closures.
ChecksRun == clock - Cardinality({n \in DOMAIN outbox : outbox[n].kind = "incident_resolved"})

\* A scheduled run of the checks writes the newest result of the rule.
CheckRuns ==
  \E s \in {"pass", "fail"} :
    /\ ChecksRun < MaxChecks
    /\ clock' = clock + 1
    /\ check' = [status |-> s, at |-> clock + 1, seen |-> FALSE]
    /\ UNCHANGED <<incident, outbox, warehouse, cards, asked, stage, candidate>>

\* Mutant: any alert row of the key counts, a resolved one too.
SelectCandidateFirst ==
  /\ candidate = 0
  /\ candidate' = IF check.status = "fail" /\ warehouse.status = "absent" THEN check.at ELSE 0
  /\ check' = [check EXCEPT !.seen = TRUE]
  /\ UNCHANGED <<incident, outbox, warehouse, cards, asked, stage, clock>>

\* insert_new_alerts: the newest result is bad and dq.alerts shows no active alert; a
\* candidate of an active alert is dropped. The DAG runs it once for a run of the checks,
\* or again when the task is retried.
SelectCandidate ==
  /\ candidate = 0
  /\ candidate' = IF check.status = "fail" /\ warehouse.status \notin {"open", "triaged"}
                  THEN check.at ELSE 0
  /\ check' = [check EXCEPT !.seen = TRUE]
  /\ UNCHANGED <<incident, outbox, warehouse, cards, asked, stage, clock>>

\* Mutant: any failure that the snapshot did not come from reopens.
ReopensAlways == Current.status = "resolved" /\ candidate # Current.source

\* Only a failure detected after the closure opens a new episode.
Reopens ==
  /\ Current.status = "resolved"
  /\ candidate > Current.resolvedAt
  /\ candidate # Current.source

\* publish_candidates, for one candidate.
PublishCandidate ==
  /\ candidate # 0
  /\ candidate' = 0
  /\ IF Current.status = "absent" \/ Reopens
     THEN /\ Current.revision < MaxRevision
          /\ incident' = [Current EXCEPT !.revision = @ + 1, !.episode = @ + 1,
                                         !.status = "open", !.source = candidate]
          /\ outbox' = Recorded("incident_detected", NoRequest, Current.revision + 1)
     ELSE incident' = Current /\ UNCHANGED outbox
  /\ UNCHANGED <<warehouse, cards, asked, stage, check, clock>>

(***************************************************************************)
(* Triage, revalidation and closure, as far as they write events.            *)
(***************************************************************************)
\* transition_triaged: a late report does not revive a resolved incident.
TransitionTriaged ==
  \E report \in Reports :
    LET status == IF Current.status = "resolved" THEN "resolved" ELSE "triaged" IN
    /\ warehouse.status # "absent"
    /\ Current.revision < MaxRevision
    /\ IF Current.report # report \/ Current.status # status
       THEN /\ incident' = [Current EXCEPT !.revision = @ + 1, !.status = status,
                                           !.report = report]
            /\ outbox' = Recorded("incident_triaged", NoRequest, Current.revision + 1)
       ELSE incident' = Current /\ UNCHANGED outbox
    /\ UNCHANGED <<warehouse, cards, asked, stage, check, clock, candidate>>

\* resolution_preview takes an alert over, and changes nothing else here.
ResolutionPreview ==
  /\ Current # incident /\ incident' = Current
  /\ UNCHANGED <<outbox, warehouse, cards, asked, stage, check, clock, candidate>>

\* create_revalidation stores the request and its event, and does not synchronize.
CreateRevalidation ==
  \E r \in Requests :
    /\ asked[r] = 0
    /\ warehouse.status # "absent" /\ Current.status \in {"open", "triaged"}
    /\ incident' = Current
    /\ asked' = [asked EXCEPT ![r] = Current.revision]
    /\ outbox' = Recorded("requested", r, Current.revision)
    /\ UNCHANGED <<warehouse, cards, stage, check, clock, candidate>>

\* The persist stage (and the error path of the checks stage) records the result.
PersistResult ==
  \E r \in Requests :
    /\ asked[r] # 0 /\ stage[r] = "none"
    /\ stage' = [stage EXCEPT ![r] = "persist"]
    /\ outbox' = Recorded("completed", r, incident.revision)
    /\ UNCHANGED <<incident, warehouse, cards, asked, check, clock, candidate>>

\* The notify stage records it again, for the case that nobody did, and delivers.
NotifyResult ==
  \E r \in Requests :
    /\ asked[r] # 0 /\ stage[r] # "notify"
    /\ stage' = [stage EXCEPT ![r] = "notify"]
    /\ outbox' = Recorded("completed", r, incident.revision)
    /\ UNCHANGED <<incident, warehouse, cards, asked, check, clock, candidate>>

\* confirm_resolution, with a request made for the current revision whose result
\* is recorded; the rest of the evidence gate is the subject of IncidentClosure.
ConfirmResolution ==
  /\ incident.status \in {"open", "triaged"}
  /\ incident.revision < MaxRevision
  /\ \E r \in Requests :
       asked[r] = incident.revision /\ stage[r] # "none"
  /\ clock' = clock + 1
  /\ incident' = [incident EXCEPT !.revision = @ + 1, !.status = "resolved",
                                  !.resolvedAt = clock + 1]
  /\ outbox' = Recorded("incident_resolved", NoRequest, incident.revision + 1)
  /\ UNCHANGED <<warehouse, cards, asked, stage, check, candidate>>

Next ==
  \/ SyncDue \/ Flush
  \/ \E w \in Writers : NoticeReads(w) \/ NoticePatches(w) \/ NoticeRecords(w)
  \/ CheckRuns \/ SelectCandidate \/ PublishCandidate
  \/ TransitionTriaged \/ CreateRevalidation \/ PersistResult \/ NotifyResult
  \/ ConfirmResolution \/ ResolutionPreview

Spec == Init /\ [][Next]_vars

\* The reconciliation DAG replays the outbox again and again and outages end; a run of
\* the checks is followed by one run of the producer, which publishes what it selected.
\* Callers may all die before their own synchronisation.
FirstLook == ~check.seen /\ SelectCandidate

FairSpec ==
  /\ Spec
  /\ WF_vars(FlushClean)
  /\ WF_vars(FirstLook) /\ WF_vars(PublishCandidate)

(***************************************************************************)
(* Properties.                                                              *)
(***************************************************************************)
\* An incident that was only taken over from dq.alerts has had no event.
HasNews == incident.status # "absent" /\ ~(incident.adopted /\ incident.revision = 1)

\* synchronization_pending = false is a promise to the operator: with no event pending,
\* dq.alerts shows the authoritative incident, and so does the card, unless another writer
\* put an older row over it or nothing was ever delivered about the incident.
SyncedIsCurrent ==
  (Pending = {} /\ incident.status # "absent")
    => warehouse = Shown(incident) /\ (HasNews /\ ~stale => card = Shown(incident))

\* The current revision has its event, and neither the outbox nor a sink is ahead of it.
NewsIsRecorded ==
  /\ HasNews =>
       \E n \in DOMAIN outbox : UpdatesCard(outbox[n]) /\ outbox[n].revision = incident.revision
  /\ \A n \in DOMAIN outbox : outbox[n].revision \in 1..incident.revision
  /\ warehouse.revision <= Current.revision /\ card.revision <= warehouse.revision

\* A flag of the outbox is true of its sink, as far as the event is about the incident
\* as it is now and no other writer has put an older row over the card; what was
\* delivered was projected first.
FlagsAreTrue ==
  \A n \in DOMAIN outbox :
    /\ outbox[n].delivered => outbox[n].projected /\ outbox[n].audited
    /\ UpdatesCard(outbox[n]) /\ outbox[n].revision = incident.revision =>
         /\ outbox[n].projected => warehouse = Shown(incident)
         /\ outbox[n].delivered /\ ~stale => card = Shown(incident)

\* Nothing pending means current, because every flag is true of its sink.
SyncInv == TypeOK /\ SyncedIsCurrent /\ NewsIsRecorded /\ FlagsAreTrue

\* Replaying an old event never brings dq.alerts back to an older version.
NoRegression == warehouse'.revision >= warehouse.revision

\* "historical failure evidence cannot" reopen: a new episode follows a failing
\* check that ran after the closure, also when its candidate was selected before.
ReopenIsNew ==
  (incident.status = "resolved" /\ incident'.status = "open")
    => incident'.source > incident.resolvedAt

\* Old news stays old: neither the replay of an event nor a candidate selected before
\* the closure takes the incident or its projection back.
NoStepBack == [][NoRegression /\ ReopenIsNew]_vars

\* With Discord configured every event is delivered in the end, so the promise
\* of SyncedIsCurrent is eventually available.
Converges == [](Pending # {} => <>(Pending = {}))

\* A failure detected after a closure reopens the incident, unless a newer check of the
\* rule passes, if dq.alerts shows the closure by the time the producer looks; one that it
\* looks at while the projection lags is dropped.
FailureReopens ==
  (incident.status = "resolved" /\ warehouse.status = "resolved" /\ ~check.seen
     /\ check.status = "fail" /\ check.at > incident.resolvedAt)
    ~> (incident.status = "open" \/ check.status = "pass" \/ incident.revision = MaxRevision)
=============================================================================
