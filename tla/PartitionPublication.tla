------------------------ MODULE PartitionPublication ------------------------
(***************************************************************************)
(* Journaled publication of one business date of the orders dataset        *)
(* (pipelines/common/publication.py) together with its writers: the raw    *)
(* loader, the dbt runner and the recovery pipeline.                       *)
(*                                                                         *)
(* A worker is one attempt (one process) of an execution; an Airflow retry *)
(* is a second worker with the same execution identity.  PostgreSQL keeps  *)
(* the revision row and the journal, ClickHouse keeps the live partitions, *)
(* the stages and the backups.  The session advisory lock is held exactly  *)
(* while the worker's control connection is alive, so `lock = w' also says *)
(* that w can still reach PostgreSQL.                                      *)
(*                                                                         *)
(* A partition's fingerprint is its content.  The derived tables are a     *)
(* function of the raw input they were built from, so a derived content is *)
(* named by that input.                                                    *)
(***************************************************************************)
EXTENDS Naturals, FiniteSets

CONSTANTS
  Workers,          \* attempts, one process each
  NoWorker,         \* the advisory lock is free
  Execs,            \* execution identities
  ExecOf,           \* the execution each attempt belongs to
  Kind,             \* what each execution runs
  Data,             \* non-empty partition contents
  Empty,            \* the content of a partition without rows
  Absent,           \* a scratch table that was never created
  NoPlan,           \* a recovery whose plan is not yet pinned
  ExternalWriters   \* may writers outside the platform touch live tables?

Tables == {"raw", "stg", "fct"}
Rank == [t \in Tables |-> IF t = "raw" THEN 1 ELSE IF t = "stg" THEN 2 ELSE 3]

Recoveries == {"replay_raw_partition", "rebuild_derived_partition",
               "replay_and_rebuild_partition"}
Kinds == {"load", "dbt", "inspect"} \cup Recoveries

ASSUME ConstantAssumption ==
  /\ NoWorker \notin Workers
  /\ ExecOf \in [Workers -> Execs]
  /\ Kind \in [Execs -> Kinds]
  /\ Empty \notin Data
  /\ Absent \notin Data \cup {Empty}
  /\ ExternalWriters \in BOOLEAN

Contents == Data \cup {Empty}
Rows == Execs \X Tables          \* UNIQUE(execution_id, target_table, partition_dt)

\* The members of an execution's publication group; "inspect" is a lock holder
\* that publishes nothing (the dbt test step, capture_recovery_preconditions).
Targets(k) ==
  IF k = "inspect" THEN {}
  ELSE IF k \in {"load", "replay_raw_partition"} THEN {"raw"}
  ELSE IF k \in {"dbt", "rebuild_derived_partition"} THEN {"stg", "fct"}
  ELSE Tables

Modes == {"publish", "compensate"}
Inflight(m) == IF m = "publish" THEN "publishing" ELSE "compensating"
Settles(m)  == IF m = "publish" THEN "published" ELSE "compensated"

\* Mutant: a publication in flight does not refuse the next writer.
UnresolvedAtRest == {"prepared", "unknown", "compensating"}

Unresolved == {"prepared", "publishing", "unknown", "compensating"}
Uncertain  == {"publishing", "unknown", "compensating"}
Status     == Unresolved \cup {"none", "published", "compensated", "aborted"}
Intents    == {"daily", "recovery", "simulation_empty"}

Watermarks == {<<>>} \cup (Rows \X {"published", "compensated"})
Preconditions == [revision : Nat, watermark : Watermarks]
\* A plan that is not pinned is told from every pinned one.
ASSUME PlanAssumption == NoPlan \notin Preconditions

NoRow == [status |-> "none", before |-> Empty, staged |-> Empty, intent |-> "daily",
          revision |-> 0, expected |-> [revision |-> 0, watermark |-> <<>>]]
Row == [status : Status, before : Contents, staged : Contents, intent : Intents,
        revision : Nat, expected : Preconditions]

VARIABLES
  live,       \* ClickHouse: the live partition of each table
  stage,      \* ClickHouse: scratch stage of each execution and table
  backup,     \* ClickHouse: retained backup of each execution and table
  late,       \* ClickHouse: commands whose client gave up but that may still land
  part,       \* PostgreSQL: the partition_revisions row
  journal,    \* PostgreSQL: the partition_publications rows
  lock,       \* PostgreSQL: the session holding the advisory lock
  plan,       \* the revision and watermark pinned by each approved recovery plan
  pc, mode, at, intent, expected, current, owned,   \* the workers
  settled     \* history: what the last finished publication left in each table

ghVars  == <<live, stage, backup, late>>
wkVars  == <<pc, mode, at, intent, expected, current, owned>>
vars    == <<ghVars, part, journal, lock, plan, wkVars, settled>>

PCs == {"idle", "stage", "backup", "journal", "validate", "preflight", "check",
        "begin", "command", "verify", "finish", "mark", "abort", "done"}

TypeOK ==
  /\ live \in [Tables -> Contents]
  /\ settled \in [Tables -> Contents]
  /\ stage \in [Rows -> Contents \cup {Absent}]
  /\ backup \in [Rows -> Contents \cup {Absent}]
  /\ late \in SUBSET (Rows \X Modes)
  /\ part \in Preconditions
  /\ journal \in [Rows -> Row]
  /\ lock \in Workers \cup {NoWorker}
  /\ plan \in [Execs -> Preconditions \cup {NoPlan}]
  /\ pc \in [Workers -> PCs]
  /\ mode \in [Workers -> Modes]
  /\ at \in [Workers -> Tables]
  /\ intent \in [Workers -> Intents]
  /\ expected \in [Workers -> Preconditions]
  /\ current \in [Workers -> Preconditions]
  /\ owned \in [Workers -> SUBSET Preconditions]

----------------------------------------------------------------------------
(* Views of one worker. *)

K(w)   == Kind[ExecOf[w]]
Own(w) == <<ExecOf[w], at[w]>>                \* the journal row it works on
RowOf(w) == journal[Own(w)]

\* What the command of publish_partition / compensate_partition installs.
Source(r, m) == IF m = "publish" THEN journal[r].staged ELSE journal[r].before
Goal(w) == Source(Own(w), mode[w])

Later(w)   == {t \in Targets(K(w)) : Rank[t] > Rank[at[w]]}
Earlier(w) == {t \in Targets(K(w)) : Rank[t] < Rank[at[w]]}
First(S) == {t \in S : \A u \in S : Rank[t] <= Rank[u]}
Last(S)  == {t \in S : \A u \in S : Rank[u] <= Rank[t]}

Goto(w, label) == pc' = [pc EXCEPT ![w] = label]
\* Closing the connection releases the advisory lock.
Close(w) == lock' = IF lock = w THEN NoWorker ELSE lock
\* Mutant: the connection is left to the garbage collector.
LeaveOpen(w) == Goto(w, "done") /\ lock' = lock

Leave(w) == Goto(w, "done") /\ Close(w)

SetStatus(r, s) == journal' = [journal EXCEPT ![r].status = s]

Init ==
  /\ \E c \in Contents : live = [t \in Tables |-> c] /\ settled = [t \in Tables |-> c]
  /\ stage = [r \in Rows |-> Absent]
  /\ backup = [r \in Rows |-> Absent]
  /\ late = {}
  /\ part = [revision |-> 0, watermark |-> <<>>]
  /\ journal = [r \in Rows |-> NoRow]
  /\ lock = NoWorker
  /\ plan = [e \in Execs |-> NoPlan]
  /\ pc = [w \in Workers |-> "idle"]
  /\ mode = [w \in Workers |-> "publish"]
  /\ at = [w \in Workers |-> "raw"]
  /\ intent = [w \in Workers |-> "daily"]
  /\ expected = [w \in Workers |-> part]
  /\ current = [w \in Workers |-> part]
  /\ owned = [w \in Workers |-> {}]

----------------------------------------------------------------------------
(* Planning and locking. *)

\* agent/recovery/service.py create_plan reads the revision row without the
\* advisory lock, so it may pin it in the middle of another writer's group.
PinPlan(e) ==
  /\ Kind[e] \in Recoveries /\ plan[e] = NoPlan
  /\ plan' = [plan EXCEPT ![e] = part]
  /\ UNCHANGED <<ghVars, part, journal, lock, wkVars, settled>>

NothingUnresolved == \A r \in Rows : journal[r].status \notin Unresolved

\* The intent of the newest raw row that is still published.
RawReceipts == {r \in Rows : r[2] = "raw" /\ journal[r].status = "published"}
LastRawIntent ==
  IF \E r \in RawReceipts : /\ journal[r].intent = "simulation_empty"
                            /\ \A q \in RawReceipts : journal[q].revision <= journal[r].revision
  THEN "simulation_empty" ELSE "daily"

\* What an attempt starts with; run_dbt_step's allow_empty_simulation overrides the
\* receipt of the raw publication.
FirstIntent(w) ==
  IF K(w) \in Recoveries THEN {"recovery"}
  ELSE IF K(w) = "dbt" THEN {LastRawIntent, "simulation_empty"} ELSE {"daily"}

\* Mutant: unresolved rows are not looked for.
AcquireOverPending(w) ==
  /\ pc[w] = "idle" /\ lock = NoWorker
  /\ K(w) \in Recoveries => plan[ExecOf[w]] = part
  /\ lock' = w
  /\ owned' = [owned EXCEPT ![w] = {part}]
  /\ expected' = [expected EXCEPT ![w] = part]
  /\ \E i \in FirstIntent(w) : intent' = [intent EXCEPT ![w] = i]
  /\ IF Targets(K(w)) = {}
     THEN Goto(w, "validate") /\ at' = at
     ELSE Goto(w, "stage") /\ \E t \in First(Targets(K(w))) : at' = [at EXCEPT ![w] = t]
  /\ UNCHANGED <<ghVars, part, journal, plan, mode, current, settled>>

\* Mutant: the approved revision is not compared.
AcquireAnyRevision(w) ==
  /\ pc[w] = "idle" /\ lock = NoWorker /\ NothingUnresolved
  /\ lock' = w
  /\ owned' = [owned EXCEPT ![w] = {part}]
  /\ expected' = [expected EXCEPT ![w] = part]
  /\ \E i \in FirstIntent(w) : intent' = [intent EXCEPT ![w] = i]
  /\ IF Targets(K(w)) = {}
     THEN Goto(w, "validate") /\ at' = at
     ELSE Goto(w, "stage") /\ \E t \in First(Targets(K(w))) : at' = [at EXCEPT ![w] = t]
  /\ UNCHANGED <<ghVars, part, journal, plan, mode, current, settled>>

\* PostgresPublicationStore.lock up to the yield, then the caller's first reads.
Acquire(w) ==
  /\ pc[w] = "idle" /\ lock = NoWorker /\ NothingUnresolved
  /\ K(w) \in Recoveries => plan[ExecOf[w]] = part
  /\ lock' = w
  /\ owned' = [owned EXCEPT ![w] = {part}]
  /\ expected' = [expected EXCEPT ![w] = part]
  /\ \E i \in FirstIntent(w) : intent' = [intent EXCEPT ![w] = i]
  /\ IF Targets(K(w)) = {}
     THEN Goto(w, "validate") /\ at' = at
     ELSE Goto(w, "stage") /\ \E t \in First(Targets(K(w))) : at' = [at EXCEPT ![w] = t]
  /\ UNCHANGED <<ghVars, part, journal, plan, mode, current, settled>>

\* The attempt ends before it owns anything: PostgreSQL is out of reach, the
\* fail-fast lock is taken, an unresolved row refuses the writer, or a recovery
\* finds a revision other than the planned one.
Refused(w) ==
  /\ pc[w] = "idle"
  /\ Goto(w, "done")
  /\ UNCHANGED <<ghVars, part, journal, lock, plan, mode, at, intent, expected, current,
                 owned, settled>>

----------------------------------------------------------------------------
(* Building and preparing.  None of these steps touches a live table. *)

\* The scratch tables filled in one go: the raw stage, or both derived stages.
StagedTogether(w) == {t \in Targets(K(w)) : t = at[w] \/ (at[w] # "raw" /\ t # "raw")}
Fresh(w) == \A t \in StagedTogether(w) : stage[<<ExecOf[w], t>>] = Absent

\* Mutant: the derived build always reads the live raw table.
RawInputLive(w) == live["raw"]

\* What a stage may be filled with: the loader's landing file, the pinned
\* snapshot, or the image of the raw input captured once for the build.
RawInput(w) == IF "raw" \in Targets(K(w)) THEN stage[<<ExecOf[w], "raw">>] ELSE live["raw"]
Built(w) == IF at[w] # "raw" THEN {RawInput(w)}
            ELSE IF K(w) = "load" THEN Contents ELSE Data

FillStage(w, c) ==
  stage' = [r \in Rows |-> IF r[1] = ExecOf[w] /\ r[2] \in StagedTogether(w)
                           THEN c ELSE stage[r]]

\* stage_raw_frame / the first half of build_scoped_dbt_outputs: CREATE TABLE
\* fails when an earlier attempt of this execution already staged.
Stage(w) ==
  /\ pc[w] = "stage" /\ Fresh(w)
  /\ \E c \in Built(w) : FillStage(w, c)
  /\ \E i \in IF K(w) = "load" THEN {"daily", "simulation_empty"} ELSE {intent[w]} :
        intent' = [intent EXCEPT ![w] = i]
  /\ Goto(w, "backup")
  /\ UNCHANGED <<live, backup, late, part, journal, lock, plan, mode, at, expected,
                 current, owned, settled>>

\* prepare_partition up to the backup copy.
Backup(w) ==
  /\ pc[w] = "backup" /\ lock = w /\ part = expected[w]
  /\ stage[Own(w)] = Empty => intent[w] = "simulation_empty"
  /\ backup[Own(w)] = Absent
  /\ backup' = [backup EXCEPT ![Own(w)] = live[at[w]]]
  /\ Goto(w, "journal")
  /\ UNCHANGED <<live, stage, late, part, journal, lock, plan, mode, at, intent, expected,
                 current, owned, settled>>

\* Mutant: the row records the backup of the wrong table.
PreparedRowRawBackup(w) ==
  [status |-> "prepared", before |-> backup[<<ExecOf[w], "raw">>], staged |-> stage[Own(w)],
   intent |-> intent[w], revision |-> 0, expected |-> expected[w]]

\* prepare_partition from the second look at the live table: the prepared row.
PreparedRow(w) ==
  [status |-> "prepared", before |-> backup[Own(w)], staged |-> stage[Own(w)],
   intent |-> intent[w], revision |-> 0, expected |-> expected[w]]

InsertPrepared(w) ==
  /\ pc[w] = "journal" /\ lock = w
  /\ live[at[w]] = backup[Own(w)]
  /\ stage[Own(w)] # Absent /\ RowOf(w).status = "none"
  /\ journal' = [journal EXCEPT ![Own(w)] = PreparedRow(w)]
  /\ UNCHANGED <<ghVars, part, plan, mode, intent, expected, current, owned, settled>>

\* The raw stage is followed by the derived build, stg by fct (already staged),
\* and the last member by the caller's validation; the loader has none.
Journal(w) ==
  /\ InsertPrepared(w) /\ lock' = lock
  /\ IF Later(w) = {}
     THEN Goto(w, IF K(w) = "load" THEN "check" ELSE "validate") /\ at' = at
     ELSE /\ Goto(w, IF at[w] = "raw" THEN "stage" ELSE "backup")
          /\ \E t \in First(Later(w)) : at' = [at EXCEPT ![w] = t]

\* The row committed but the session died before the acknowledgement.
JournalUnacked(w) ==
  InsertPrepared(w) /\ lock' = NoWorker /\ Goto(w, "abort") /\ at' = at

\* validate_recovery accepted the group, and nobody moved the revision.
Validate(w) ==
  /\ pc[w] = "validate" /\ lock = w /\ part = expected[w]
  /\ IF Targets(K(w)) = {}
     THEN Leave(w) /\ at' = at
     ELSE /\ Goto(w, "preflight") /\ lock' = lock
          /\ \E t \in First(Targets(K(w))) : at' = [at EXCEPT ![w] = t]
  /\ UNCHANGED <<ghVars, part, journal, plan, mode, intent, expected, current, owned, settled>>

\* _check_prepared
CheckPrepared(w, r) ==
  /\ journal[r].expected \in owned[w]
  /\ stage[r] = journal[r].staged
  /\ backup[r] = journal[r].before

\* The first loop of publish_group.
Preflight(w) ==
  /\ pc[w] = "preflight" /\ lock = w
  /\ \A t \in Targets(K(w)) :
        LET r == <<ExecOf[w], t>> IN
        /\ CheckPrepared(w, r)
        /\ journal[r].status = "prepared"
        /\ live[t] = journal[r].before
  /\ Goto(w, "check")
  /\ UNCHANGED <<ghVars, part, journal, lock, plan, mode, at, intent, expected, current,
                 owned, settled>>

----------------------------------------------------------------------------
(* publish_partition and compensate_partition. *)

\* Everything read before the journal moves.
Check(w) ==
  /\ pc[w] = "check" /\ lock = w
  /\ CheckPrepared(w, Own(w)) /\ part \in owned[w]
  /\ RowOf(w).status = IF mode[w] = "publish" THEN "prepared" ELSE "published"
  /\ live[at[w]] = IF mode[w] = "publish" THEN RowOf(w).before ELSE RowOf(w).staged
  /\ current' = [current EXCEPT ![w] = part]
  /\ Goto(w, "begin")
  /\ UNCHANGED <<ghVars, part, journal, lock, plan, mode, at, intent, expected, owned, settled>>

\* Mutant: the command is sent without a durable in-flight record.
CommitInflightVolatile(w) ==
  /\ pc[w] = "begin" /\ lock = w
  /\ mode[w] = "publish" => part = current[w]
  /\ RowOf(w).status = IF mode[w] = "publish" THEN "prepared" ELSE "published"
  /\ UNCHANGED journal
  /\ UNCHANGED <<ghVars, part, plan, intent, expected, current, owned, settled>>

\* The durable in-flight record, committed before any ClickHouse command.
CommitInflight(w) ==
  /\ pc[w] = "begin" /\ lock = w
  /\ mode[w] = "publish" => part = current[w]
  /\ RowOf(w).status = IF mode[w] = "publish" THEN "prepared" ELSE "published"
  /\ SetStatus(Own(w), Inflight(mode[w]))
  /\ UNCHANGED <<ghVars, part, plan, intent, expected, current, owned, settled>>

Begin(w) == CommitInflight(w) /\ lock' = lock /\ Goto(w, "command") /\ UNCHANGED <<mode, at>>

\* ALTER TABLE ... REPLACE/DROP PARTITION, acknowledged.
Command(w) ==
  /\ pc[w] = "command"
  /\ live' = [live EXCEPT ![at[w]] = Goal(w)]
  /\ Goto(w, "verify")
  /\ UNCHANGED <<stage, backup, late, part, journal, lock, plan, mode, at, intent, expected,
                 current, owned, settled>>

\* The client saw an error or a timeout: the command may land later, or never.
CommandUncertain(w) ==
  /\ pc[w] = "command"
  /\ late' = late \cup {<<Own(w), mode[w]>>}
  /\ Goto(w, "mark")
  /\ UNCHANGED <<live, stage, backup, part, journal, lock, plan, mode, at, intent, expected,
                 current, owned, settled>>

LateCommand ==
  \E c \in late :
    /\ live' = [live EXCEPT ![c[1][2]] = Source(c[1], c[2])]
    /\ late' = late \ {c}
    /\ UNCHANGED <<stage, backup, part, journal, lock, plan, wkVars, settled>>

\* The fingerprint after the command; a mismatch or a failed read is uncertain.
Verify(w) ==
  /\ pc[w] = "verify"
  /\ \/ live[at[w]] = Goal(w) /\ Goto(w, "finish")
     \/ Goto(w, "mark")
  /\ UNCHANGED <<ghVars, part, journal, lock, plan, mode, at, intent, expected, current,
                 owned, settled>>

\* PublicationLock.finish: revision and journal in one transaction.
FinishedRow(w) ==
  [RowOf(w) EXCEPT !.status = Settles(mode[w]), !.revision = part.revision + 1]
CommitFinish(w) ==
  /\ pc[w] = "finish" /\ lock = w
  /\ part = current[w] /\ RowOf(w).status = Inflight(mode[w])
  /\ part' = [revision |-> part.revision + 1,
              watermark |-> <<Own(w), Settles(mode[w])>>]
  /\ journal' = [journal EXCEPT ![Own(w)] = FinishedRow(w)]
  /\ settled' = [settled EXCEPT ![at[w]] = Goal(w)]
  /\ UNCHANGED <<ghVars, plan, mode, intent, expected, current>>

\* ... acknowledged: the next member of the group, forwards when publishing,
\* backwards when compensating.
Finish(w) ==
  /\ CommitFinish(w)
  /\ owned' = [owned EXCEPT ![w] = @ \cup {part'}]
  /\ LET rest == IF mode[w] = "publish" THEN First(Later(w)) ELSE Last(Earlier(w)) IN
     IF rest # {}
     THEN Goto(w, "check") /\ lock' = lock /\ \E t \in rest : at' = [at EXCEPT ![w] = t]
     ELSE /\ at' = at
          /\ IF mode[w] = "publish" THEN Leave(w) ELSE Goto(w, "abort") /\ lock' = lock

\* ... committed, but the session died before the acknowledgement.
FinishUnacked(w) ==
  CommitFinish(w) /\ lock' = NoWorker /\ Goto(w, "mark") /\ UNCHANGED <<at, owned>>

\* finish could not commit: the connection is gone.
FinishFails(w) ==
  /\ pc[w] = "finish" /\ lock # w
  /\ Goto(w, "mark")
  /\ UNCHANGED <<ghVars, part, journal, lock, plan, mode, at, intent, expected, current,
                 owned, settled>>

\* Mutant: a failed command is taken for one that did nothing.
MarkAborted(w) ==
  /\ pc[w] = "mark"
  /\ IF lock = w /\ RowOf(w).status = Inflight(mode[w])
     THEN SetStatus(Own(w), "aborted") ELSE UNCHANGED journal
  /\ Leave(w)
  /\ UNCHANGED <<ghVars, part, plan, mode, at, intent, expected, current, owned, settled>>

\* _mark_unknown, then PublicationUnknown leaves the lock scope without aborting.
Mark(w) ==
  /\ pc[w] = "mark"
  /\ IF lock = w /\ RowOf(w).status = Inflight(mode[w])
     THEN SetStatus(Own(w), "unknown") ELSE UNCHANGED journal
  /\ Leave(w)
  /\ UNCHANGED <<ghVars, part, plan, mode, at, intent, expected, current, owned, settled>>

----------------------------------------------------------------------------
(* Failures. *)

\* Where a definite failure of the current step leads: publish_group compensates
\* the completed members when that was approved, everything else aborts.
Recover(w) ==
  IF /\ mode[w] = "publish" /\ pc[w] \in {"check", "begin"}
     /\ K(w) \in Recoveries /\ Earlier(w) # {}
  THEN /\ mode' = [mode EXCEPT ![w] = "compensate"]
       /\ \E t \in Last(Earlier(w)) : at' = [at EXCEPT ![w] = t]
       /\ Goto(w, "check")
  ELSE UNCHANGED <<mode, at>> /\ Goto(w, "abort")

\* Any other exception before a command is sent: an unmet guard, a failed
\* ClickHouse read, a rejected validation, a dead control connection.
Fail(w) ==
  /\ pc[w] \in {"stage", "backup", "journal", "validate", "preflight", "check", "begin"}
  /\ Recover(w)
  /\ UNCHANGED <<ghVars, part, journal, lock, plan, intent, expected, current, owned, settled>>

\* A stage that failed half way leaves its tables behind.
StageFails(w) ==
  /\ pc[w] = "stage" /\ Fresh(w) /\ FillStage(w, Empty) /\ Goto(w, "abort")
  /\ UNCHANGED <<live, backup, late, part, journal, lock, plan, mode, at, intent, expected,
                 current, owned, settled>>

\* The in-flight record committed but its acknowledgement was lost.
BeginUnacked(w) == CommitInflight(w) /\ lock' = NoWorker /\ Recover(w)

\* Mutant: the clean-up uses a new connection, not the session that owned the lock.
AbortWithoutSession(w) ==
  /\ pc[w] = "abort"
  /\ journal' = [r \in Rows |-> IF r[1] = ExecOf[w] /\ journal[r].status = "prepared"
                         THEN [journal[r] EXCEPT !.status = "aborted"]
                         ELSE journal[r]]
  /\ Leave(w)
  /\ UNCHANGED <<ghVars, part, plan, mode, at, intent, expected, current, owned, settled>>

\* The exception handler of lock(): prepared rows of this execution are released.
Abort(w) ==
  /\ pc[w] = "abort"
  /\ journal' = IF lock = w
                THEN [r \in Rows |-> IF r[1] = ExecOf[w] /\ journal[r].status = "prepared"
                                     THEN [journal[r] EXCEPT !.status = "aborted"]
                                     ELSE journal[r]]
                ELSE journal
  /\ Leave(w)
  /\ UNCHANGED <<ghVars, part, plan, mode, at, intent, expected, current, owned, settled>>

\* The control session dies; the worker does not notice before its next query.
SessionLost(w) ==
  /\ lock = w /\ lock' = NoWorker
  /\ UNCHANGED <<ghVars, part, journal, plan, wkVars, settled>>

\* The process is killed (or interrupted by a BaseException).
Crash(w) ==
  /\ pc[w] \notin {"idle", "done"}
  /\ Leave(w)
  /\ UNCHANGED <<ghVars, part, journal, plan, mode, at, intent, expected, current, owned, settled>>

\* A writer that does not cooperate.
ExternalWrite ==
  /\ ExternalWriters
  /\ \E t \in Tables, c \in Contents : live' = [live EXCEPT ![t] = c]
  /\ UNCHANGED <<stage, backup, late, part, journal, lock, plan, wkVars, settled>>

----------------------------------------------------------------------------
\* A worker's own steps, without the failures that strike it from outside.
Step(w) ==
  \/ Acquire(w) \/ Refused(w) \/ Stage(w) \/ StageFails(w) \/ Backup(w) \/ Journal(w)
  \/ JournalUnacked(w) \/ Validate(w) \/ Preflight(w) \/ Check(w) \/ Begin(w)
  \/ BeginUnacked(w) \/ Command(w) \/ CommandUncertain(w) \/ Verify(w) \/ Finish(w)
  \/ FinishUnacked(w) \/ FinishFails(w) \/ Mark(w) \/ Fail(w) \/ Abort(w)

Next ==
  \/ \E w \in Workers : Step(w) \/ SessionLost(w) \/ Crash(w)
  \/ \E e \in Execs : PinPlan(e)
  \/ LateCommand
  \/ ExternalWrite

Spec == Init /\ [][Next]_vars
FairSpec == Spec /\ \A w \in Workers : WF_vars(Step(w))

----------------------------------------------------------------------------
(* Properties. *)

\* Whenever no row of a table is in flight or uncertain, the live partition is
\* exactly what the last finished publication or compensation recorded, whatever
\* sessions were lost, processes killed, or commands landed late.
SettledLive ==
  \A t \in Tables :
    (\A e \in Execs : journal[<<e, t>>].status \notin Uncertain) => live[t] = settled[t]

\* Losing the session lock never lets a second execution prepare or publish while
\* the first still has an unresolved row (publication.py lock(), pending check).
SingleUnresolved ==
  \A r, q \in Rows :
    (journal[r].status \in Unresolved /\ journal[q].status \in Unresolved) => r[1] = q[1]

\* At most one process is between its in-flight record and its outcome, even when
\* an Airflow retry shares the execution identity of a process that is still alive.
Mutating == {"command", "verify", "finish"}
OneMutator ==
  \A v, w \in Workers : (pc[v] \in Mutating /\ pc[w] \in Mutating) => v = w

\* When the newest revision is a published mart, and nothing is uncertain, all
\* three layers come from the same raw input.
LayersAgree ==
  LET clean == \A r \in Rows : journal[r].status \notin Uncertain
      mart  == \E e \in Execs : part.watermark = <<<<e, "fct">>, "published">>
  IN  (clean /\ mart) => live["raw"] = live["stg"] /\ live["stg"] = live["fct"]

\* A recovery publishes on top of the revision its plan pinned, with no revision of
\* another writer in between, although the pin was read without the lock.
Position(k, t) == Cardinality({u \in Targets(k) : Rank[u] <= Rank[t]})
RecoveryOnPlan ==
  \A e \in Execs, t \in Tables :
    (Kind[e] \in Recoveries /\ journal[<<e, t>>].status = "published")
      => /\ plan[e] # NoPlan
         /\ journal[<<e, t>>].revision = plan[e].revision + Position(Kind[e], t)

\* Inside a live session the guards "no longer prepared; do not retry it" and
\* "requires an owned, known-published state" never see a row they must refuse.
OwnRowExpected ==
  \A w \in Workers :
    (pc[w] \in {"check", "begin"} /\ lock = w) =>
      /\ RowOf(w).status = IF mode[w] = "publish" THEN "prepared" ELSE "published"
      /\ part \in owned[w]

\* The phases of an attempt: before and after the first guard of publish_partition.
Building == {"stage", "backup", "journal", "validate", "preflight"}
Sending  == {"check", "begin", "command", "verify", "finish"}

StatusOf(e, t) == journal[<<e, t>>].status

\* Where one attempt stands, whether or not it still has its session.
LocalOK(w) ==
  /\ pc[w] \in {"idle"} \cup Building => mode[w] = "publish"
  /\ pc[w] \in {"stage", "backup", "journal", "preflight"} => at[w] \in Targets(K(w))
  /\ pc[w] = "preflight" => Earlier(w) = {}

\* The group of an attempt that publishes: members before the current one are published,
\* those after it are still prepared.
InGroup(w) ==
  /\ at[w] \in Targets(K(w))
  /\ \A t \in Earlier(w) : StatusOf(ExecOf[w], t) = "published"
  /\ mode[w] = "publish" => \A t \in Later(w) : StatusOf(ExecOf[w], t) = "prepared"
  /\ RowOf(w).status = IF pc[w] \notin {"check", "begin"} THEN Inflight(mode[w])
                       ELSE IF mode[w] = "publish" THEN "prepared" ELSE "published"

\* The revision of a recovery counts up from its plan.
OnPlan(w) ==
  K(w) \in Recoveries =>
    /\ plan[ExecOf[w]] # NoPlan
    /\ pc[w] \in Building => part = plan[ExecOf[w]]
    /\ pc[w] \in Sending /\ mode[w] = "publish" =>
         part.revision + 1 = plan[ExecOf[w]].revision + Position(K(w), at[w])

\* What the holder of the session lock can rely on.
HoldsLock(w) ==
  /\ pc[w] \notin {"idle", "done"} /\ part \in owned[w]
  /\ \A r \in Rows : journal[r].status \in Unresolved => r[1] = ExecOf[w]
  /\ pc[w] \in Sending => InGroup(w)
  /\ OnPlan(w)

\* What every attempt and the holder of the lock can rely on.
AttemptsAreSound == \A w \in Workers : LocalOK(w)
HolderIsSound == \A w \in Workers : lock = w => HoldsLock(w)

\* However the attempts of one execution, a rival and an uncooperative writer interleave,
\* the journal stays with one execution, no attempt disturbs the rows of another, and what
\* the holder of the session lock found out about its group stays true.
JournalInv == SingleUnresolved /\ OwnRowExpected /\ AttemptsAreSound /\ HolderIsSound

\* A live partition only ever changes under a durable in-flight record of that
\* table, including commands that land after their client gave up.
JournalBeforeMutation ==
  [][\A t \in Tables : live'[t] # live[t] =>
        \E e \in Execs : journal[<<e, t>>].status \in Uncertain]_vars

\* A compensation puts back what was settled before the execution's own publication.
CompensationRestores ==
  [][\A r \in Rows :
       (journal[r].status = "prepared" /\ journal'[r].status = "publishing")
          => journal[r].before = settled[r[2]]]_vars

\* The advisory lock is never held forever.
LockReleased == \A w \in Workers : lock = w ~> lock # w

\* A recovery whose rows are all resolved published all of its targets or left none
\* of them replaced (service.py rollback "Compensate partial publication using
\* only this execution's backup").
RecoveryAllOrNothing ==
  \A e \in Execs :
    LET published == {t \in Tables : journal[<<e, t>>].status = "published"} IN
    (/\ Kind[e] \in Recoveries
     /\ \A t \in Tables : journal[<<e, t>>].status \notin Unresolved
     /\ \A w \in Workers : ExecOf[w] = e => pc[w] \in {"idle", "done"})
      => published \in {{}, Targets(Kind[e])}

----------------------------------------------------------------------------
(* The inductive invariant behind SettledLive. *)

\* The in-flight record of a mutating worker is still in the journal.
MutatorRow == \A w \in Workers : pc[w] \in Mutating => RowOf(w).status = Inflight(mode[w])
\* Its session may be gone, but no other session has taken over.
MutatorLock == \A w \in Workers : pc[w] \in Mutating => lock \in {w, NoWorker}
\* A command that may still land keeps its row uncertain and everybody else out.
LateUncertain == \A c \in late : journal[c[1]].status \in Uncertain
LateAlone == \A w \in Workers :
               late # {} => pc[w] \notin Mutating /\ (lock = w => pc[w] = "mark")
\* What was verified is still live when the revision is committed.
VerifiedLive == \A w \in Workers : pc[w] = "finish" => live[at[w]] = Goal(w)

\* The inductive strengthening of SettledLive: the journal record of a mutating
\* worker, not the session lock it may have lost, keeps every other writer out.
SafetyInv ==
  /\ MutatorRow /\ MutatorLock /\ OneMutator
  /\ LateUncertain /\ LateAlone
  /\ VerifiedLive /\ SettledLive
=============================================================================
