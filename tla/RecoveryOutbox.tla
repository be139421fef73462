---------------------------- MODULE RecoveryOutbox ----------------------------
(***************************************************************************)
(* The recovery outbox (agent/recovery/outbox.py): the events that recovery *)
(* transactions store are copied to the audit log and announced in Discord *)
(* by flush, which every reconciler pass calls and which may run several   *)
(* times at once.  flush works on the rows it read at its start; the claim *)
(* of a row is the only step that looks at it again.  A POST whose answer  *)
(* is lost is searched for, never repeated.                                *)
(***************************************************************************)
EXTENDS Naturals, FiniteSets

CONSTANTS
  Flushers,         \* concurrent calls of flush
  MaxEvent,         \* bound: events are 1..MaxEvent, in the order of created_at
  Limit,            \* rows one flush reads
  MaxErrors         \* bound on failures, crashes and messages out of the window

ASSUME FlushAssumption == MaxEvent \in Nat /\ Limit \in Nat /\ MaxErrors \in Nat

VARIABLES
  row,              \* dq_control.recovery_outbox
  ended,            \* events whose execution succeeded or failed
  log,              \* rows of agent_audit_log per event
  posts, visible,   \* messages per event, and those among the last 100
  late,             \* POSTs Discord may still execute
  call,             \* flush calls
  errors

discordVars == <<posts, visible, late>>
outboxVars == <<row, ended, log, discordVars, call, errors>>

Events == 1..MaxEvent
Silent == "requested"          \* also approved_execution_reconciled
Kinds  == {"plan", "started", Silent}
Blank  == [kind |-> "none", audited |-> FALSE, delivered |-> FALSE, state |-> "pending"]
NoCall == [pc |-> "idle", todo |-> {}, seen |-> [e \in Events |-> Blank]]

OutboxInit ==
  /\ row = [e \in Events |-> Blank]
  /\ ended = {} /\ late = {} /\ visible = {}
  /\ log = [e \in Events |-> 0] /\ posts = [e \in Events |-> 0]
  /\ call = [f \in Flushers |-> NoCall]
  /\ errors = 0

Error  == errors < MaxErrors /\ errors' = errors + 1
Smooth == UNCHANGED errors

Open(e) == row[e].kind # "none" /\ ~(row[e].audited /\ row[e].delivered)
Older(e) == {d \in Events : d < e /\ Open(d)}
Event(f) == CHOOSE e \in call[f].todo : \A d \in call[f].todo : e <= d
Seen(f)  == call[f].seen[Event(f)]
At(f, pc) == call[f].pc = pc

To(f, pc) == call' = [call EXCEPT ![f].pc = pc]

\* continue: on to the next row of the snapshot, whose copy is not used again.
Skip(f) ==
  call' = [call EXCEPT ![f] = IF @.todo = {Event(f)} THEN NoCall
             ELSE [pc |-> "audit", todo |-> @.todo \ {Event(f)},
                   seen |-> [@.seen EXCEPT ![Event(f)] = Blank]]]

----------------------------------------------------------------------------
(* Around flush.                                                           *)

\* outbox_event, in the transaction of a recovery step.
Emit(e) ==
  /\ row[e].kind = "none" /\ \A d \in 1..(e - 1) : row[d].kind # "none"
  /\ \E k \in Kinds : row' = [row EXCEPT ![e].kind = k]
  /\ Smooth /\ UNCHANGED <<ended, log, discordVars, call>>

\* The execution an event announces reaches its end.
EndExecution(e) ==
  /\ row[e].kind = "started" /\ e \notin ended
  /\ ended' = ended \cup {e}
  /\ Smooth /\ UNCHANGED <<row, log, discordVars, call>>

\* Discord executes a POST whose caller gave up on it.
Arrive(e) ==
  /\ e \in late
  /\ late' = late \ {e} /\ visible' = visible \cup {e}
  /\ posts' = [posts EXCEPT ![e] = @ + 1]
  /\ Smooth /\ UNCHANGED <<row, ended, log, call>>

\* A hundred newer messages, or a deletion.
ScrollAway(e) ==
  /\ e \in visible /\ Error
  /\ visible' = visible \ {e}
  /\ UNCHANGED <<row, ended, log, posts, late, call>>

----------------------------------------------------------------------------
(* flush.                                                                  *)

\* The oldest open rows.
Select(f) ==
  /\ At(f, "idle")
  /\ LET todo == {e \in Events : Open(e) /\ Cardinality(Older(e)) < Limit} IN
     /\ todo # {}
     /\ call' = [call EXCEPT ![f] =
          [pc |-> "audit", todo |-> todo,
           seen |-> [e \in Events |-> IF e \in todo THEN row[e] ELSE Blank]]]
  /\ Smooth /\ UNCHANGED <<row, ended, log, discordVars>>

\* write_agent_audit_event looks for its key before it inserts.
Audit(f) ==
  /\ At(f, "audit")
  /\ To(f, IF Seen(f).audited THEN "kind" ELSE IF log[Event(f)] > 0 THEN "audited" ELSE "insert")
  /\ Smooth /\ UNCHANGED <<row, ended, log, discordVars>>

\* Mutant: an audit log that is down does not stop the announcement.
InsertAuditLeniently(f) ==
  /\ At(f, "insert")
  /\ \/ log' = [log EXCEPT ![Event(f)] = @ + 1] /\ To(f, "audited") /\ Smooth
     \/ UNCHANGED log /\ To(f, "kind") /\ Error
  /\ UNCHANGED <<row, ended, discordVars>>

\* The insert, which may fail before or after it took effect.
InsertAudit(f) ==
  /\ At(f, "insert")
  /\ \/ log' = [log EXCEPT ![Event(f)] = @ + 1] /\ To(f, "audited") /\ Smooth
     \/ log' = [log EXCEPT ![Event(f)] = @ + 1] /\ To(f, "failed") /\ Error
     \/ UNCHANGED log /\ To(f, "failed") /\ Error
  /\ UNCHANGED <<row, ended, discordVars>>

MarkAudited(f) ==
  /\ At(f, "audited")
  /\ row' = [row EXCEPT ![Event(f)].audited = TRUE]
  /\ To(f, "kind")
  /\ Smooth /\ UNCHANGED <<ended, log, discordVars>>

Settled(e) == row' = [row EXCEPT ![e].delivered = TRUE, ![e].state = "done"]

\* A row that needs no message: it had one, or it announces what is over or internal.
NeedsNone(f) ==
  LET e == Event(f) IN
  /\ At(f, "kind")
  /\ \/ Seen(f).delivered /\ UNCHANGED row
     \/ ~Seen(f).delivered /\ Seen(f).kind = "started" /\ e \in ended /\ Settled(e)
     \/ ~Seen(f).delivered /\ Seen(f).kind = Silent /\ Settled(e)
  /\ Skip(f)
  /\ Smooth /\ UNCHANGED <<ended, log, discordVars>>

\* Discord is not configured, its identity cannot be read, or it can.
Identify(f) ==
  LET e == Event(f) IN
  /\ At(f, "kind") /\ ~Seen(f).delivered
  /\ Seen(f).kind = "plan" \/ (Seen(f).kind = "started" /\ e \notin ended)
  /\ \/ To(f, IF Seen(f).state = "pending" THEN "claim" ELSE "search") /\ Smooth
     \/ Skip(f) /\ Error
     \/ To(f, "failed") /\ Error
  /\ UNCHANGED <<row, ended, log, discordVars>>

\* Mutant: an attempted row counts as delivered.
SearchNothing(f) ==
  /\ At(f, "search")
  /\ To(f, "settle")
  /\ Smooth /\ UNCHANGED <<row, ended, log, discordVars>>

\* Mutant: only the row of an unknown outcome is searched for.
SearchUnknown(f) ==
  /\ At(f, "search")
  /\ IF Event(f) \in visible /\ Seen(f).state = "unknown" THEN To(f, "settle") ELSE Skip(f)
  /\ Smooth /\ UNCHANGED <<row, ended, log, discordVars>>

\* An attempted row: its marker among the last hundred messages, or nothing.
Search(f) ==
  /\ At(f, "search")
  /\ \/ Event(f) \in visible /\ To(f, "settle") /\ Smooth
     \/ Event(f) \notin visible /\ Skip(f) /\ Smooth
     \/ To(f, "failed") /\ Error
  /\ UNCHANGED <<row, ended, log, discordVars>>

\* Mutant: the claim trusts the snapshot.
ClaimSeen(f) ==
  /\ At(f, "claim")
  /\ row' = [row EXCEPT ![Event(f)].state = "claimed"] /\ To(f, "post")
  /\ Smooth /\ UNCHANGED <<ended, log, discordVars>>

\* The compare-and-set from pending to claimed.
ClaimRow(f) ==
  /\ At(f, "claim")
  /\ IF row[Event(f)].state = "pending"
     THEN row' = [row EXCEPT ![Event(f)].state = "claimed"] /\ To(f, "post")
     ELSE UNCHANGED row /\ Skip(f)
  /\ Smooth /\ UNCHANGED <<ended, log, discordVars>>

\* The embed cannot be built, or post_bot_message: answered, or the answer is lost or
\* refused and the message exists now, later or never.
Post(f) ==
  LET e == Event(f) IN
  /\ At(f, "post")
  /\ \/ /\ posts' = [posts EXCEPT ![e] = @ + 1] /\ visible' = visible \cup {e}
        /\ UNCHANGED late
        /\ \/ To(f, "settle") /\ Smooth
           \/ To(f, "failed") /\ Error
     \/ late' = late \cup {e} /\ UNCHANGED <<posts, visible>> /\ To(f, "failed") /\ Error
     \/ UNCHANGED discordVars /\ To(f, "failed") /\ Error
  /\ UNCHANGED <<row, ended, log>>

Settle(f) ==
  /\ At(f, "settle")
  /\ Settled(Event(f)) /\ Skip(f)
  /\ Smooth /\ UNCHANGED <<ended, log, discordVars>>

\* Mutant: the handler writes a state that no reader of the row knows.
HandleNaming(f) ==
  LET e == Event(f) IN
  /\ At(f, "failed")
  /\ row' = [row EXCEPT ![e].state = IF @ = "claimed" THEN "failed" ELSE @]
  /\ Skip(f)
  /\ Smooth /\ UNCHANGED <<ended, log, discordVars>>

\* The handler reads the row as it is now, whoever claimed it.
Handle(f) ==
  LET e == Event(f) IN
  /\ At(f, "failed")
  /\ row' = [row EXCEPT ![e].state = IF @ = "claimed" THEN "unknown" ELSE @]
  /\ Skip(f)
  /\ Smooth /\ UNCHANGED <<ended, log, discordVars>>

\* The process dies, or the control database is gone.
Die(f) ==
  /\ ~At(f, "idle") /\ Error
  /\ call' = [call EXCEPT ![f] = NoCall]
  /\ UNCHANGED <<row, ended, log, discordVars>>

----------------------------------------------------------------------------

FlushStep(f) ==
  \/ Audit(f) \/ InsertAudit(f) \/ MarkAudited(f) \/ NeedsNone(f) \/ Identify(f)
  \/ Search(f) \/ ClaimRow(f) \/ Post(f) \/ Settle(f) \/ Handle(f)

OutboxNext ==
  \/ \E e \in Events : Emit(e) \/ EndExecution(e) \/ Arrive(e) \/ ScrollAway(e)
  \/ \E f \in Flushers : Select(f) \/ FlushStep(f) \/ Die(f)

OutboxSpec == OutboxInit /\ [][OutboxNext]_outboxVars

\* The reconciler comes back, and a flush that is up goes on.
OutboxFairness ==
  \A f \in Flushers : WF_outboxVars(Select(f)) /\ WF_outboxVars(FlushStep(f) /\ Smooth)

OutboxFairSpec == OutboxSpec /\ OutboxFairness

----------------------------------------------------------------------------
(* Properties.                                                             *)

RowsOK == [kind : Kinds \cup {"none"}, audited : BOOLEAN, delivered : BOOLEAN,
           state : {"pending", "claimed", "unknown", "done"}]
CallsOK == [pc : {"idle", "audit", "insert", "audited", "kind", "search", "claim", "post",
                  "settle", "failed"},
            todo : SUBSET Events, seen : [Events -> RowsOK]]

\* Every variable keeps its type; a row that is not stored yet is blank, and a flush that
\* is at work has a row to work on.
OutboxTypeOK ==
  /\ row \in [Events -> RowsOK] /\ \A e \in Events : row[e].kind = "none" => row[e] = Blank
  /\ ended \subseteq Events
  /\ log \in [Events -> Nat] /\ posts \in [Events -> Nat]
  /\ visible \subseteq Events /\ late \subseteq Events /\ errors \in 0..MaxErrors
  /\ call \in [Flushers -> CallsOK]
  /\ \A f \in Flushers : At(f, "idle") <=> call[f].todo = {}

\* An event is announced at most once, whatever answers are lost, whatever flush dies
\* where, however late Discord executes a POST, and however stale the snapshot is.
AnnouncedOnce == \A e \in Events : posts[e] + (IF e \in late THEN 1 ELSE 0) <= 1

\* Nothing is announced, not even by a POST that is still on its way, that is not in the
\* audit log.
AuditedFirst == \A e \in Events : posts[e] > 0 \/ e \in late => log[e] > 0

\* A row is delivered only if its message was created, or none is due: an uncertain
\* POST is never taken for a message.
DeliveredIsTrue ==
  \A e \in Events : row[e].delivered =>
    posts[e] > 0 \/ row[e].kind = Silent \/ (row[e].kind = "started" /\ e \in ended)

\* A snapshot is stale in one direction only: the kind of its rows stays, and what it
\* shows as audited or delivered still is.
SnapshotIsPast ==
  \A f \in Flushers : \A e \in call[f].todo :
    /\ call[f].seen[e].kind = row[e].kind /\ row[e].kind # "none"
    /\ call[f].seen[e].audited => row[e].audited
    /\ call[f].seen[e].delivered => row[e].delivered

Past == {"audited", "kind", "search", "claim", "post", "settle"}

\* A row is marked as audited, and a flush is past the audit of its row, only when the
\* audit log holds the event.
AuditIsTrue ==
  /\ \A e \in Events : row[e].audited => log[e] > 0
  /\ \A f \in Flushers : call[f].pc \in Past => log[Event(f)] > 0

\* The right to post an event is the step of its row out of pending: nothing was posted
\* for a pending row or for a claimed one whose owner is about to post, and no two
\* flushes are about to post the same event.
ClaimIsExclusive ==
  /\ \A e \in Events : row[e].state = "pending" => posts[e] = 0 /\ e \notin late
  /\ \A f \in Flushers : At(f, "post") =>
       /\ row[Event(f)].state # "pending"
       /\ posts[Event(f)] = 0 /\ Event(f) \notin late
       /\ \A g \in Flushers \ {f} : At(g, "post") => Event(g) # Event(f)

\* What can be found in the channel, and what a flush found or got an answer for, exists.
FoundIsPosted ==
  /\ \A e \in visible : posts[e] > 0
  /\ \A f \in Flushers : At(f, "settle") => posts[Event(f)] > 0

\* The rows never claim more than Discord and the audit log hold, and never post twice.
OutboxInv ==
  /\ OutboxTypeOK /\ AnnouncedOnce /\ AuditedFirst /\ DeliveredIsTrue
  /\ SnapshotIsPast /\ AuditIsTrue /\ ClaimIsExclusive /\ FoundIsPosted

\* A message whose answer was lost is found by a later flush, as long as it is among the
\* last hundred and fewer than Limit older rows are stuck.
FoundAgain ==
  \A e \in Events :
    e \in visible ~> row[e].delivered \/ e \notin visible \/ Cardinality(Older(e)) >= Limit

=============================================================================
