--------------------------- MODULE DiscordWorkspace ---------------------------
(***************************************************************************)
(* The public thread of one incident and the investigations started in it  *)
(* (apps/discord_bot/workspace.py, thread_store.py).  ensure holds a       *)
(* session-level advisory lock and commits the intent of every Discord     *)
(* write before it; a write whose answer is lost is looked up, never sent  *)
(* again.  A lost database session frees the lock while its task goes on.  *)
(*                                                                         *)
(* A generation has one starter message at most, and Discord gives the     *)
(* thread of a message the message's id, so generations stand for both     *)
(* ids.  Archived and locked threads are not modelled.                     *)
(***************************************************************************)
EXTENDS Naturals, FiniteSets

CONSTANTS
  Tasks,            \* bot tasks that call ensure
  Requests,         \* interactions that ask for an investigation
  Nobody,
  MaxGeneration,    \* bound on replacements
  MaxFaults         \* bound on lost answers, lost sessions and cancellations

ASSUME WorkspaceAssumption ==
  /\ Nobody \notin Tasks /\ MaxGeneration \in Nat /\ MaxFaults \in Nat

VARIABLES
  reg,              \* the registry row of the incident
  lock,             \* holder of the advisory lock
  task,             \* ensure calls: program counter, leased row, session alive?
  starter, thread,  \* what exists in Discord, per generation
  sent,             \* history: starter messages Discord created, per generation
  flight,           \* requests Discord may still execute
  orphaned,         \* history: generations whose thread was made when its caller no
                    \* longer held the lease
  attempt,          \* dq_control rows of investigations
  inquiry,          \* investigate calls
  triage,           \* triage runs: "none", "running" or "over"
  faults

discord == <<starter, thread, sent, flight, orphaned>>
ensures == <<reg, lock, task, discord>>
inquiries == <<attempt, inquiry, triage>>
vars == <<ensures, inquiries, faults>>

Generations == 0..MaxGeneration
NoId == MaxGeneration + 1
NewRow(g) == [gen |-> g, starterId |-> NoId, threadId |-> NoId,
              starterAttempted |-> FALSE, threadAttempted |-> FALSE]
Idle == [pc |-> "idle", row |-> NewRow(0), session |-> FALSE]

Init ==
  /\ reg = NewRow(0) /\ lock = Nobody
  /\ task = [t \in Tasks |-> Idle]
  /\ starter = [g \in Generations |-> "none"] /\ thread = [g \in Generations |-> "none"]
  /\ sent = [g \in Generations |-> 0] /\ flight = {} /\ orphaned = {}
  /\ attempt = [q \in Requests |-> "none"]
  /\ inquiry = [q \in Requests |-> "idle"]
  /\ triage = [q \in Requests |-> "none"]
  /\ faults = 0

Fault == faults < MaxFaults /\ faults' = faults + 1
Fine  == UNCHANGED faults

----------------------------------------------------------------------------
(* The lease.                                                              *)

\* IncidentThreadStore.locked: whoever does not get the lock gives up at once.
Enter(t) ==
  /\ task[t].pc = "idle" /\ lock = Nobody
  /\ lock' = t
  /\ task' = [task EXCEPT ![t] = [pc |-> "known", row |-> reg, session |-> TRUE]]
  /\ Fine /\ UNCHANGED <<reg, discord, inquiries>>

\* The call ends, with a workspace or an exception; an intact session unlocks.
Leave(t) ==
  /\ task' = [task EXCEPT ![t] = Idle]
  /\ lock' = IF task[t].session THEN Nobody ELSE lock

Goto(t, pc) == task' = [task EXCEPT ![t].pc = pc] /\ UNCHANGED <<reg, lock>>

\* WorkspaceLease.save: commits, or raises when the session is gone.
Save(t, row, pc) ==
  IF task[t].session
  THEN /\ reg' = row
       /\ task' = [task EXCEPT ![t].row = row, ![t].pc = pc]
       /\ UNCHANGED lock
  ELSE Leave(t) /\ UNCHANGED reg

Quit(t) == Leave(t) /\ UNCHANGED reg

\* The database connection breaks, and with it the lock.
LoseSession(t) ==
  /\ task[t].pc # "idle" /\ task[t].session /\ Fault
  /\ task' = [task EXCEPT ![t].session = FALSE]
  /\ lock' = Nobody
  /\ UNCHANGED <<reg, discord, inquiries>>

\* The task is cancelled, the process dies, or a read of Discord fails.
Abandon(t) ==
  /\ task[t].pc # "idle" /\ Fault
  /\ Quit(t) /\ UNCHANGED <<discord, inquiries>>

----------------------------------------------------------------------------
(* ensure.                                                                 *)

Row(t) == task[t].row
Gen(t) == Row(t).gen

\* Mutant: the generation is counted twice.
ReplacedTwice(row) == NewRow(row.gen + 2)

\* replace_missing
Replaced(row) == NewRow(row.gen + 1)

\* A known thread is fetched; 404 starts the next generation.
CheckThread(t) ==
  /\ task[t].pc = "known" /\ Row(t).threadId # NoId
  /\ \/ thread[Row(t).threadId] = "live" /\ Quit(t)
     \/ thread[Row(t).threadId] # "live" /\ Save(t, Replaced(Row(t)), "search")
  /\ Fine /\ UNCHANGED <<discord, inquiries>>

\* Mutant: the thread that survived its starter is not looked for.
CheckStarterOnly(t) ==
  /\ task[t].pc = "known" /\ Row(t).threadId = NoId
  /\ Goto(t, IF Row(t).starterId = NoId THEN "search" ELSE "message")
  /\ Fine /\ UNCHANGED <<discord, inquiries>>

\* Without a thread: the first read looks for the thread of the starter.
CheckStarter(t) ==
  /\ task[t].pc = "known" /\ Row(t).threadId = NoId
  /\ LET s == Row(t).starterId IN
     \/ s = NoId /\ Goto(t, "search")
     \/ s # NoId /\ thread[s] = "live" /\ Save(t, [Row(t) EXCEPT !.threadId = s], "leave")
     \/ s # NoId /\ thread[s] # "live" /\ Goto(t, "message")
  /\ Fine /\ UNCHANGED <<discord, inquiries>>

\* The second read looks for the starter; when it is gone too, the next generation starts.
\* Nobody looks for the thread again.
FetchStarter(t) ==
  /\ task[t].pc = "message"
  /\ \/ starter[Row(t).starterId] = "live" /\ Goto(t, "starter")
     \/ starter[Row(t).starterId] # "live" /\ Save(t, Replaced(Row(t)), "search")
  /\ Fine /\ UNCHANGED <<discord, inquiries>>

\* Mutant: the intent is not looked at.
IntendStarterAgain(t) ==
  /\ task[t].pc = "search"
  /\ Save(t, [Row(t) EXCEPT !.starterAttempted = TRUE], "send")
  /\ Fine /\ UNCHANGED <<discord, inquiries>>

\* An earlier attempt allows reads only; otherwise the intent is committed.
IntendStarter(t) ==
  /\ task[t].pc = "search"
  /\ IF Row(t).starterAttempted THEN Goto(t, "reconcile")
     ELSE Save(t, [Row(t) EXCEPT !.starterAttempted = TRUE], "send")
  /\ Fine /\ UNCHANGED <<discord, inquiries>>

\* Discord creates the message now.
Created(g) == /\ starter' = [starter EXCEPT ![g] = "live"]
              /\ sent' = [sent EXCEPT ![g] = @ + 1]

\* channel.send: answered, or the answer is lost and the message exists now, later
\* or never.
SendStarter(t) ==
  /\ task[t].pc = "send"
  /\ \/ Created(Gen(t)) /\ Goto(t, "starter") /\ Fine /\ UNCHANGED flight
     \/ Created(Gen(t)) /\ Goto(t, "reconcile") /\ Fault /\ UNCHANGED flight
     \/ /\ flight' = flight \cup {<<"starter", Gen(t)>>}
        /\ Goto(t, "reconcile") /\ Fault /\ UNCHANGED <<starter, sent>>
     \/ Goto(t, "reconcile") /\ Fault /\ UNCHANGED <<starter, sent, flight>>
  /\ UNCHANGED <<thread, orphaned, inquiries>>

\* reconcile_starter: exactly one own message, or WorkspaceUncertain.
ReconcileStarter(t) ==
  /\ task[t].pc = "reconcile"
  /\ IF starter[Gen(t)] = "live" /\ sent[Gen(t)] = 1 THEN Goto(t, "starter") ELSE Quit(t)
  /\ Fine /\ UNCHANGED <<discord, inquiries>>

\* The starter is known: its id is saved.
SaveStarter(t) ==
  /\ task[t].pc = "starter"
  /\ Save(t, [Row(t) EXCEPT !.starterId = Gen(t)], "thread")
  /\ Fine /\ UNCHANGED <<discord, inquiries>>

\* The thread of the starter exists, was attempted, or is intended now.
IntendThread(t) ==
  /\ task[t].pc = "thread"
  /\ \/ thread[Gen(t)] = "live" /\ Goto(t, "save")
     \/ thread[Gen(t)] # "live" /\ Row(t).threadAttempted /\ Quit(t)
     \/ /\ thread[Gen(t)] # "live" /\ ~Row(t).threadAttempted
        /\ Save(t, [Row(t) EXCEPT !.threadAttempted = TRUE], "create")
  /\ Fine /\ UNCHANGED <<discord, inquiries>>

\* Discord makes at most one thread of a message that exists.
Opened(g, leased) ==
  IF starter[g] = "live" /\ thread[g] = "none"
  THEN /\ thread' = [thread EXCEPT ![g] = "live"]
       /\ orphaned' = IF leased THEN orphaned ELSE orphaned \cup {g}
  ELSE UNCHANGED <<thread, orphaned>>

\* starter.create_thread, and after a lost answer one look at the thread.
CreateThread(t) ==
  /\ task[t].pc = "create"
  /\ \/ Opened(Gen(t), task[t].session) /\ (IF thread'[Gen(t)] = "live" THEN Goto(t, "save") ELSE Quit(t))
        /\ Fine /\ UNCHANGED <<starter, sent, flight>>
     \/ flight' = flight \cup {<<"thread", Gen(t)>>} /\ Quit(t) /\ Fault
        /\ UNCHANGED <<starter, thread, sent, orphaned>>
     \/ Quit(t) /\ Fault /\ UNCHANGED discord
  /\ UNCHANGED inquiries

SaveThread(t) ==
  /\ task[t].pc = "save"
  /\ Save(t, [Row(t) EXCEPT !.threadId = Gen(t)], "leave")
  /\ Fine /\ UNCHANGED <<discord, inquiries>>

Return(t) ==
  /\ task[t].pc = "leave"
  /\ Quit(t) /\ Fine /\ UNCHANGED <<discord, inquiries>>

\* Discord executes a request whose caller gave up on it.
Land ==
  /\ \E g \in Generations :
       \/ /\ <<"starter", g>> \in flight /\ flight' = flight \ {<<"starter", g>>}
          /\ Created(g) /\ UNCHANGED <<thread, orphaned>>
       \/ /\ <<"thread", g>> \in flight /\ flight' = flight \ {<<"thread", g>>}
          /\ Opened(g, FALSE) /\ UNCHANGED <<starter, sent>>
  /\ Fine /\ UNCHANGED <<reg, lock, task, inquiries>>

\* A moderator deletes the starter (its thread survives) or the thread; what the last
\* generation of the bound made stays.
Delete ==
  /\ \E g \in Generations \ {MaxGeneration} :
       \/ starter[g] = "live" /\ starter' = [starter EXCEPT ![g] = "deleted"] /\ UNCHANGED thread
       \/ thread[g] = "live" /\ thread' = [thread EXCEPT ![g] = "deleted"] /\ UNCHANGED starter
  /\ Fine /\ UNCHANGED <<sent, flight, orphaned, reg, lock, task, inquiries>>

----------------------------------------------------------------------------
(* investigate.                                                            *)

Blocking(s) == s \in {"claimed", "uncertain"}

\* Mutant: an uncertain attempt does not block.
ClaimableAgain(q, again) ==
  /\ attempt[q] = "none" /\ \A p \in Requests : attempt[p] # "claimed"
  /\ again \/ \A p \in Requests : attempt[p] \in {"none", "cancelled", "uncertain"}

\* claim_investigation
Claimable(q, again) ==
  /\ attempt[q] = "none" /\ \A p \in Requests : ~Blocking(attempt[p])
  /\ again \/ \A p \in Requests : attempt[p] \in {"none", "cancelled"}

\* The claim waits for the lock of the workspace.  A stored report is reused unless a
\* new investigation is asked for.
Claim(q) ==
  /\ inquiry[q] = "idle" /\ attempt[q] = "none" /\ lock = Nobody
  /\ \E again \in BOOLEAN :
       /\ again \/ \A p \in Requests : attempt[p] # "complete"
       /\ Claimable(q, again)
  /\ attempt' = [attempt EXCEPT ![q] = "claimed"]
  /\ inquiry' = [inquiry EXCEPT ![q] = "claimed"]
  /\ Fine /\ UNCHANGED <<ensures, triage>>

\* Mutant: a cancelled caller releases its claim whatever it had started.
CancelAnyClaim(q) ==
  /\ attempt[q] = "claimed" /\ inquiry[q] # "idle" /\ Fault
  /\ attempt' = [attempt EXCEPT ![q] = "cancelled"]
  /\ inquiry' = [inquiry EXCEPT ![q] = "idle"]
  /\ UNCHANGED <<ensures, triage>>

\* Cancelled while it waited for the claim: cancel_unstarted_investigation.
CancelClaim(q) ==
  /\ inquiry[q] = "claimed" /\ Fault
  /\ attempt' = [attempt EXCEPT ![q] = "cancelled"]
  /\ inquiry' = [inquiry EXCEPT ![q] = "idle"]
  /\ UNCHANGED <<ensures, triage>>

StartTriage(q) ==
  /\ inquiry[q] = "claimed"
  /\ triage' = [triage EXCEPT ![q] = "running"]
  /\ inquiry' = [inquiry EXCEPT ![q] = "triage"]
  /\ Fine /\ UNCHANGED <<ensures, attempt>>

\* finish_investigation after the report came back.
FinishTriage(q) ==
  /\ inquiry[q] = "triage" /\ triage[q] = "running"
  /\ triage' = [triage EXCEPT ![q] = "over"]
  /\ attempt' = [attempt EXCEPT ![q] = "complete"]
  /\ inquiry' = [inquiry EXCEPT ![q] = "idle"]
  /\ Fine /\ UNCHANGED ensures

\* Cancellation, an error or a timeout: uncertain, while the triage may still run.
FailTriage(q) ==
  /\ inquiry[q] = "triage" /\ Fault
  /\ attempt' = [attempt EXCEPT ![q] = "uncertain"]
  /\ inquiry' = [inquiry EXCEPT ![q] = "idle"]
  /\ UNCHANGED <<ensures, triage>>

\* The bot dies: the claim stays.
BotDies(q) ==
  /\ inquiry[q] # "idle" /\ Fault
  /\ inquiry' = [inquiry EXCEPT ![q] = "idle"]
  /\ UNCHANGED <<ensures, attempt, triage>>

\* A triage nobody waits for ends.
TriageEnds(q) ==
  /\ inquiry[q] # "triage" /\ triage[q] = "running"
  /\ triage' = [triage EXCEPT ![q] = "over"]
  /\ Fine /\ UNCHANGED <<ensures, attempt, inquiry>>

----------------------------------------------------------------------------

EnsureStep(t) ==
  \/ CheckThread(t) \/ CheckStarter(t) \/ FetchStarter(t) \/ IntendStarter(t) \/ SendStarter(t)
  \/ ReconcileStarter(t) \/ SaveStarter(t) \/ IntendThread(t) \/ CreateThread(t)
  \/ SaveThread(t) \/ Return(t)

Next ==
  \/ \E t \in Tasks : Enter(t) \/ EnsureStep(t) \/ LoseSession(t) \/ Abandon(t)
  \/ Land \/ Delete
  \/ \E q \in Requests :
       \/ Claim(q) \/ CancelClaim(q) \/ StartTriage(q) \/ FinishTriage(q)
       \/ FailTriage(q) \/ BotDies(q) \/ TriageEnds(q)

Spec == Init /\ [][Next]_vars

----------------------------------------------------------------------------
(* Properties.                                                             *)

RowType == [gen : Generations, starterId : 0..NoId, threadId : 0..NoId,
            starterAttempted : BOOLEAN, threadAttempted : BOOLEAN]

\* Every variable keeps its type.
TypeOK ==
  /\ reg \in RowType /\ lock \in Tasks \cup {Nobody}
  /\ task \in [Tasks -> [pc : {"idle", "known", "message", "search", "send", "reconcile", "starter",
                               "thread", "create", "save", "leave"},
                         row : RowType, session : BOOLEAN]]
  /\ starter \in [Generations -> {"none", "live", "deleted"}]
  /\ thread \in [Generations -> {"none", "live", "deleted"}]
  /\ sent \in [Generations -> Nat] /\ flight \subseteq ({"starter", "thread"} \X Generations)
  /\ orphaned \subseteq Generations
  /\ attempt \in [Requests -> {"none", "claimed", "cancelled", "complete", "uncertain"}]
  /\ inquiry \in [Requests -> {"idle", "claimed", "triage"}]
  /\ triage \in [Requests -> {"none", "running", "over"}] /\ faults \in 0..MaxFaults

\* However answers and sessions are lost, and however late Discord executes a request,
\* no generation gets a second starter message (reconcile_starter).
OneStarter ==
  \A g \in Generations : sent[g] + (IF <<"starter", g>> \in flight THEN 1 ELSE 0) <= 1

\* A second live thread beside that of the registry's generation takes a create_thread
\* that Discord executed when its caller no longer held the lease, and a starter that was
\* deleted after that: the two reads of ensure (workspace.py, canonical_thread and
\* fetch_message) then see a 404 each, and replace_missing leaves a thread that lives.
\* In every other behaviour the incident has at most one.
OneThread ==
  \A g \in Generations :
    thread[g] = "live" /\ g # reg.gen => g \in orphaned /\ starter[g] = "deleted"

\* Between the two reads of the task that holds the lease, only somebody who does not can
\* have made the thread that the first read did not find.
MissedIsOrphaned ==
  \A t \in Tasks : task[t].pc = "message" =>
    /\ Row(t).starterId # NoId
    /\ task[t].session /\ thread[Gen(t)] = "live" => Gen(t) \in orphaned

\* Whoever has a live session holds the lock and works on the row of the registry.
LeaseIsCurrent ==
  \A t \in Tasks : /\ task[t].session <=> lock = t
                   /\ task[t].session => Row(t) = reg /\ task[t].pc # "idle"

\* A leased row, stale ones included, is of a generation the registry reached, and the
\* ids it holds are of things that existed.
RowIsHonest(r) ==
  /\ r.gen <= reg.gen
  /\ r.starterId # NoId => r.starterId = r.gen /\ starter[r.gen] # "none"
  /\ r.threadId # NoId => r.threadId = r.gen /\ thread[r.gen] # "none"

\* So is what a task found or was answered.
RowsAreHonest ==
  /\ RowIsHonest(reg)
  /\ \A t \in Tasks : /\ RowIsHonest(Row(t))
                      /\ task[t].pc = "starter" => starter[Gen(t)] # "none"
                      /\ task[t].pc = "save" => thread[Gen(t)] # "none"

\* A starter message is sent only under an intent that the registry holds, and only by
\* the one task that committed it.
IntentIsFirst ==
  /\ \A g \in Generations :
       sent[g] > 0 \/ <<"starter", g>> \in flight \/ (\E t \in Tasks : task[t].pc = "send" /\ Gen(t) = g)
         => g < reg.gen \/ (g = reg.gen /\ reg.starterAttempted)
  /\ \A t \in Tasks : task[t].pc = "send" =>
       /\ sent[Gen(t)] = 0 /\ <<"starter", Gen(t)>> \notin flight
       /\ \A u \in Tasks \ {t} : task[u].pc = "send" => Gen(u) # Gen(t)

\* What Discord holds: a starter was sent and a thread has a starter; what a generation
\* that was left had cannot get a thread any more, and the last generation of the bound
\* is never left.
LeftForGood ==
  /\ \A g \in Generations : /\ sent[g] > 0 <=> starter[g] # "none"
                            /\ thread[g] # "none" => starter[g] # "none"
                            /\ g < reg.gen => thread[g] = "deleted" \/ starter[g] = "deleted"
  /\ starter[MaxGeneration] # "deleted" /\ thread[MaxGeneration] # "deleted"

\* An incident has one place in Discord, whatever is lost, late or deleted.
OneWorkspace ==
  /\ TypeOK /\ OneStarter /\ OneThread /\ MissedIsOrphaned
  /\ LeaseIsCurrent /\ RowsAreHonest /\ IntentIsFirst /\ LeftForGood

\* No two triage runs of an incident overlap, also when the bot died or gave up while
\* one of them was running (claim_investigation).
OneTriage == Cardinality({q \in Requests : triage[q] = "running"}) <= 1

\* Only a claim whose triage never started is released (cancel_unstarted_investigation).
CancelledNeverRan == \A q \in Requests : attempt[q] = "cancelled" => triage[q] = "none"

\* A caller and a running triage are covered by their attempt, also after the bot died.
AttemptCovers ==
  \A q \in Requests :
    /\ inquiry[q] = "claimed" => attempt[q] = "claimed" /\ triage[q] = "none"
    /\ inquiry[q] = "triage" => attempt[q] = "claimed"
    /\ triage[q] = "running" => Blocking(attempt[q])
    /\ attempt[q] = "none" => triage[q] = "none"

\* At most one attempt blocks the others.
OneBlocks ==
  \A p, q \in Requests : Blocking(attempt[p]) /\ Blocking(attempt[q]) => p = q

\* An incident has one investigation at a time, and only unstarted ones are withdrawn.
OneInvestigation == OneTriage /\ CancelledNeverRan /\ AttemptCovers /\ OneBlocks

=============================================================================
