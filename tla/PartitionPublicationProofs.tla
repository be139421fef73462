--------------------- MODULE PartitionPublicationProofs ---------------------
(***************************************************************************)
(* Theorems about PartitionPublication, for every set of workers,          *)
(* executions and contents.                                                *)
(***************************************************************************)
EXTENDS PartitionPublication, FiniteSetTheorems, TLAPS

----------------------------------------------------------------------------
(* Types of the helpers. *)

\* The members of every publication group are live tables (LIVE_TABLES).
LEMMA TargetsAreTables == \A k : Targets(k) \subseteq Tables
BY DEF Targets, Tables

\* Moving to the next or previous member of a group stays among the live tables.
LEMMA NeighbourType ==
  \A w : /\ First(Later(w)) \subseteq Tables
         /\ Last(Earlier(w)) \subseteq Tables
         /\ First(Targets(K(w))) \subseteq Tables
BY TargetsAreTables DEF First, Last, Later, Earlier

\* The journal row of a worker is a row of the journal table.
LEMMA OwnType ==
  ASSUME TypeOK, NEW w \in Workers
  PROVE  /\ ExecOf[w] \in Execs
         /\ Own(w) \in Rows
         /\ RowOf(w) \in Row
         /\ Goal(w) \in Contents
         /\ at[w] \in Tables /\ mode[w] \in Modes
<1>1. ExecOf[w] \in Execs /\ at[w] \in Tables /\ mode[w] \in Modes
  BY ConstantAssumption DEF TypeOK
<1>2. Own(w) \in Rows
  BY <1>1 DEF Own, Rows
<1>3. RowOf(w) \in Row
  BY <1>2 DEF RowOf, TypeOK
<1>4. Goal(w) \in Contents
  BY <1>3 DEF Goal, Source, RowOf, Row
<1> QED BY <1>1, <1>2, <1>3, <1>4

\* Status of a row under an update of the whole row or of its status.
LEMMA StatusUpdateType ==
  ASSUME TypeOK, NEW r \in Rows, NEW s \in Status
  PROVE  [journal EXCEPT ![r].status = s] \in [Rows -> Row]
BY DEF TypeOK, Row

\* Finishing a row changes its status and revision and nothing else.
LEMMA FinishedRowType ==
  ASSUME NEW r \in Row, NEW s \in Status, NEW n \in Nat
  PROVE  [r EXCEPT !.status = s, !.revision = n] \in Row
BY DEF Row

----------------------------------------------------------------------------
(* Type correctness. *)

\* The initial state of the control tables and of the workers is well typed.
LEMMA InitTypeOK == Init => TypeOK
<1> SUFFICES ASSUME Init PROVE TypeOK OBVIOUS
<1>1. part \in Preconditions
  BY DEF Init, Preconditions, Watermarks
<1>2. NoRow \in Row
  BY DEF NoRow, Row, Status, Unresolved, Intents, Preconditions, Watermarks, Contents
<1> QED BY <1>1, <1>2 DEF Init, TypeOK, Tables, Contents, PCs, Modes, Intents

\* Every step keeps the control tables, the warehouse and the workers well typed.
LEMMA NextTypeOK == TypeOK /\ [Next]_vars => TypeOK'
<1> SUFFICES ASSUME TypeOK, [Next]_vars PROVE TypeOK' OBVIOUS
<1>0. CASE UNCHANGED vars
  BY <1>0 DEF vars, ghVars, wkVars, TypeOK
<1>1. ASSUME NEW w \in Workers, Acquire(w) PROVE TypeOK'
  <2>1. at' \in [Workers -> Tables]
    BY <1>1, NeighbourType DEF Acquire, TypeOK
  <2>2. intent' \in [Workers -> Intents]
    <3>1. FirstIntent(w) \subseteq Intents
      BY DEF FirstIntent, LastRawIntent, Intents
    <3> QED
      BY <1>1, <3>1 DEF Acquire, TypeOK
  <2>3. pc' \in [Workers -> PCs]
    BY <1>1 DEF Acquire, TypeOK, Goto, PCs
  <2> QED BY <1>1, <2>1, <2>2, <2>3 DEF Acquire, TypeOK, ghVars
<1>2. ASSUME NEW w \in Workers, Refused(w) PROVE TypeOK'
  BY <1>2 DEF Refused, TypeOK, ghVars, Goto, PCs
<1>3. ASSUME NEW w \in Workers, Stage(w) \/ StageFails(w) PROVE TypeOK'
  <2>1. stage' \in [Rows -> Contents \cup {Absent}]
    <3>1. Empty \in Contents BY DEF Contents
    <3>2. Built(w) \subseteq Contents \cup {Absent}
      <4>1. <<ExecOf[w], "raw">> \in Rows
        BY OwnType DEF Rows, Tables
      <4> QED BY <4>1 DEF Built, RawInput, Contents, TypeOK, Tables
    <3> QED BY <1>3, <3>1, <3>2 DEF Stage, StageFails, FillStage, TypeOK
  <2>2. intent' \in [Workers -> Intents]
    BY <1>3 DEF Stage, StageFails, TypeOK, Intents
  <2>3. pc' \in [Workers -> PCs]
    BY <1>3 DEF Stage, StageFails, TypeOK, Goto, PCs
  <2> QED BY <1>3, <2>1, <2>2, <2>3 DEF Stage, StageFails, TypeOK
<1>4. ASSUME NEW w \in Workers, Backup(w) PROVE TypeOK'
  <2>1. backup' \in [Rows -> Contents \cup {Absent}]
    BY <1>4, OwnType DEF Backup, TypeOK
  <2>2. pc' \in [Workers -> PCs]
    BY <1>4 DEF Backup, TypeOK, Goto, PCs
  <2> QED BY <1>4, <2>1, <2>2 DEF Backup, TypeOK
<1>5. ASSUME NEW w \in Workers, Journal(w) \/ JournalUnacked(w) PROVE TypeOK'
  <2>1. InsertPrepared(w)
    BY <1>5 DEF Journal, JournalUnacked
  <2>2. journal' \in [Rows -> Row]
    <3>1. backup[Own(w)] \in Contents /\ stage[Own(w)] \in Contents
      BY <2>1, OwnType DEF InsertPrepared, TypeOK
    <3>2. PreparedRow(w) \in Row
      BY <3>1 DEF PreparedRow, Row, TypeOK, Status, Unresolved
    <3> QED BY <3>2, <2>1, OwnType DEF InsertPrepared, TypeOK
  <2>3. at' \in [Workers -> Tables]
    BY <1>5, NeighbourType DEF Journal, JournalUnacked, TypeOK
  <2>4. pc' \in [Workers -> PCs]
    BY <1>5 DEF Journal, JournalUnacked, TypeOK, Goto, PCs
  <2>5. lock' \in Workers \cup {NoWorker}
    BY <1>5 DEF Journal, JournalUnacked, TypeOK
  <2> QED BY <2>1, <2>2, <2>3, <2>4, <2>5 DEF InsertPrepared, ghVars, TypeOK
<1>6. ASSUME NEW w \in Workers, Validate(w) PROVE TypeOK'
  <2>1. at' \in [Workers -> Tables]
    BY <1>6, NeighbourType DEF Validate, TypeOK
  <2>2. pc' \in [Workers -> PCs] /\ lock' \in Workers \cup {NoWorker}
    BY <1>6 DEF Validate, TypeOK, Leave, Close, Goto, PCs
  <2> QED BY <1>6, <2>1, <2>2 DEF Validate, ghVars, TypeOK
<1>7. ASSUME NEW w \in Workers, Preflight(w) \/ Verify(w) \/ FinishFails(w) PROVE TypeOK'
  BY <1>7 DEF Preflight, Verify, FinishFails, TypeOK, ghVars, Goto, PCs
<1>8. ASSUME NEW w \in Workers, Check(w) PROVE TypeOK'
  BY <1>8 DEF Check, TypeOK, ghVars, Goto, PCs
<1>9. ASSUME NEW w \in Workers, Begin(w) \/ BeginUnacked(w) PROVE TypeOK'
  <2>1. CommitInflight(w)
    BY <1>9 DEF Begin, BeginUnacked
  <2>2. journal' \in [Rows -> Row]
    <3>1. Inflight(mode[w]) \in Status
      BY DEF Inflight, Status, Unresolved
    <3> QED BY <2>1, <3>1, OwnType, StatusUpdateType DEF CommitInflight, SetStatus
  <2>3. at' \in [Workers -> Tables] /\ mode' \in [Workers -> Modes]
    BY <1>9, NeighbourType DEF Begin, BeginUnacked, Recover, TypeOK, Modes
  <2>4. pc' \in [Workers -> PCs]
    BY <1>9 DEF Begin, BeginUnacked, Recover, TypeOK, Goto, PCs
  <2>5. lock' \in Workers \cup {NoWorker}
    BY <1>9 DEF Begin, BeginUnacked, TypeOK
  <2> QED BY <2>1, <2>2, <2>3, <2>4, <2>5 DEF CommitInflight, ghVars, TypeOK
<1>10. ASSUME NEW w \in Workers, Command(w) PROVE TypeOK'
  <2>1. live' \in [Tables -> Contents]
    BY <1>10, OwnType DEF Command, TypeOK
  <2> QED BY <1>10, <2>1 DEF Command, TypeOK, Goto, PCs
<1>11. ASSUME NEW w \in Workers, CommandUncertain(w) PROVE TypeOK'
  <2>1. late' \in SUBSET (Rows \X Modes)
    BY <1>11, OwnType DEF CommandUncertain, TypeOK
  <2> QED BY <1>11, <2>1 DEF CommandUncertain, TypeOK, Goto, PCs
<1>12. ASSUME LateCommand PROVE TypeOK'
  <2>1. PICK c \in late : /\ live' = [live EXCEPT ![c[1][2]] = Source(c[1], c[2])]
                         /\ late' = late \ {c}
    BY <1>12 DEF LateCommand
  <2>2. c[1] \in Rows /\ c[1][2] \in Tables
    BY DEF TypeOK, Rows
  <2>3. Source(c[1], c[2]) \in Contents
    BY <2>2 DEF Source, TypeOK, Row
  <2> QED BY <1>12, <2>1, <2>2, <2>3 DEF LateCommand, TypeOK, wkVars
<1>13. ASSUME NEW w \in Workers, Finish(w) \/ FinishUnacked(w) PROVE TypeOK'
  <2>1. CommitFinish(w)
    BY <1>13 DEF Finish, FinishUnacked
  <2>2. part.revision \in Nat
    BY DEF TypeOK, Preconditions
  <2>3. Settles(mode[w]) \in {"published", "compensated"}
    BY DEF Settles
  <2>4. part' \in Preconditions
    BY <2>1, <2>2, <2>3, OwnType DEF CommitFinish, Preconditions, Watermarks
  <2>5. journal' \in [Rows -> Row]
    <3>1. FinishedRow(w) \in Row
      <4>1. Settles(mode[w]) \in Status /\ part.revision + 1 \in Nat
        BY <2>2, <2>3 DEF Status
      <4> QED BY <4>1, OwnType, FinishedRowType DEF FinishedRow
    <3> QED BY <2>1, <3>1, OwnType DEF CommitFinish, TypeOK
  <2>6. settled' \in [Tables -> Contents]
    BY <2>1, OwnType DEF CommitFinish, TypeOK
  <2>7. at' \in [Workers -> Tables]
    BY <1>13, NeighbourType DEF Finish, FinishUnacked, TypeOK
  <2>8. pc' \in [Workers -> PCs] /\ lock' \in Workers \cup {NoWorker}
    BY <1>13 DEF Finish, FinishUnacked, TypeOK, Leave, Close, Goto, PCs
  <2>9. owned' \in [Workers -> SUBSET Preconditions]
    BY <1>13, <2>4 DEF Finish, FinishUnacked, TypeOK
  <2> QED BY <2>1, <2>4, <2>5, <2>6, <2>7, <2>8, <2>9 DEF CommitFinish, ghVars, TypeOK
<1>14. ASSUME NEW w \in Workers, Mark(w) PROVE TypeOK'
  <2>1. journal' \in [Rows -> Row]
    <3>1. "unknown" \in Status
      BY DEF Status, Unresolved
    <3> QED BY <1>14, <3>1, OwnType, StatusUpdateType DEF Mark, SetStatus, TypeOK
  <2> QED BY <1>14, <2>1 DEF Mark, TypeOK, ghVars, Leave, Close, Goto, PCs
<1>15. ASSUME NEW w \in Workers, Fail(w) PROVE TypeOK'
  <2>1. at' \in [Workers -> Tables] /\ mode' \in [Workers -> Modes]
    BY <1>15, NeighbourType DEF Fail, Recover, TypeOK, Modes
  <2>2. pc' \in [Workers -> PCs]
    BY <1>15 DEF Fail, Recover, TypeOK, Goto, PCs
  <2> QED BY <1>15, <2>1, <2>2 DEF Fail, TypeOK, ghVars
<1>16. ASSUME NEW w \in Workers, Abort(w) PROVE TypeOK'
  <2>1. journal' \in [Rows -> Row]
    <3>1. ASSUME NEW r \in Rows PROVE [journal[r] EXCEPT !.status = "aborted"] \in Row
      <4>1. journal[r] \in Row
        BY DEF TypeOK
      <4>2. "aborted" \in Status
        BY DEF Status
      <4> QED BY <4>1, <4>2 DEF Row
    <3>2. ASSUME NEW r \in Rows PROVE journal[r] \in Row
      BY DEF TypeOK
    <3>3. CASE lock = w
      BY <1>16, <3>1, <3>2, <3>3 DEF Abort
    <3>4. CASE lock # w
      BY <1>16, <3>4 DEF Abort, TypeOK
    <3> QED BY <3>3, <3>4
  <2> QED BY <1>16, <2>1 DEF Abort, TypeOK, ghVars, Leave, Close, Goto, PCs
<1>17. ASSUME NEW w \in Workers, SessionLost(w) \/ Crash(w) PROVE TypeOK'
  BY <1>17 DEF SessionLost, Crash, TypeOK, ghVars, wkVars, Leave, Close, Goto, PCs
<1>18. ASSUME NEW e \in Execs, PinPlan(e) PROVE TypeOK'
  BY <1>18 DEF PinPlan, TypeOK, ghVars, wkVars
<1>19. ASSUME ExternalWrite PROVE TypeOK'
  BY <1>19 DEF ExternalWrite, TypeOK, wkVars
<1> QED
  BY <1>0, <1>1, <1>2, <1>3, <1>4, <1>5, <1>6, <1>7, <1>8, <1>9, <1>10, <1>11, <1>12,
     <1>13, <1>14, <1>15, <1>16, <1>17, <1>18, <1>19 DEF Next, Step

\* Type correctness of the publication protocol in every reachable state.
THEOREM TypeCorrect == Spec => []TypeOK
BY InitTypeOK, NextTypeOK, PTL DEF Spec

----------------------------------------------------------------------------
(* The live partitions are what the journal says. *)

\* A worker with a live session that has nothing in flight is alone: nobody else
\* mutates, and no command is still on its way.
LEMMA Alone ==
  ASSUME TypeOK, SafetyInv, NEW w \in Workers, lock = w, pc[w] \notin Mutating, pc[w] # "mark"
  PROVE  late = {} /\ \A v \in Workers : pc[v] \notin Mutating
<1>1. late = {}
  BY DEF SafetyInv, LateAlone
<1>2. \A v \in Workers : pc[v] \notin Mutating
  BY ConstantAssumption DEF SafetyInv, MutatorLock
<1> QED BY <1>1, <1>2

\* A step that moves one worker without touching the warehouse, the journal or
\* the lock (other than by releasing it) keeps the invariant.
LEMMA QuietStep ==
  ASSUME TypeOK, SafetyInv, NEW w \in Workers,
         UNCHANGED <<live, journal, late, settled>>,
         \A v \in Workers \ {w} : pc'[v] = pc[v] /\ at'[v] = at[v] /\ mode'[v] = mode[v],
         pc'[w] \notin Mutating,
         lock' \in {lock, NoWorker},
         late # {} /\ lock' = w => pc'[w] = "mark"
  PROVE  SafetyInv'
<1>1. \A v \in Workers : pc'[v] \in Mutating =>
        /\ v # w /\ pc[v] \in Mutating /\ pc'[v] = pc[v]
        /\ RowOf(v)' = RowOf(v) /\ Goal(v)' = Goal(v)
        /\ mode'[v] = mode[v] /\ at'[v] = at[v]
  BY DEF RowOf, Goal, Own, Source
<1>2. MutatorRow' /\ MutatorLock' /\ OneMutator'
  BY <1>1 DEF SafetyInv, MutatorRow, MutatorLock, OneMutator
<1>3. LateUncertain' /\ SettledLive'
  BY DEF SafetyInv, LateUncertain, SettledLive
<1>4. LateAlone'
  BY <1>1, ConstantAssumption DEF SafetyInv, LateAlone
<1>5. VerifiedLive'
  BY <1>1 DEF SafetyInv, VerifiedLive, Mutating
<1> QED BY <1>2, <1>3, <1>4, <1>5 DEF SafetyInv

\* A step of the only worker, with nothing late, that leaves the live partitions
\* alone and no row less uncertain than before, keeps the invariant.
LEMMA AloneStep ==
  ASSUME TypeOK, SafetyInv, NEW w \in Workers, lock = w,
         late = {}, \A v \in Workers : pc[v] \notin Mutating,
         UNCHANGED <<live, late, settled>>,
         \A v \in Workers \ {w} : pc'[v] = pc[v],
         lock' \in {lock, NoWorker},
         \A r \in Rows : journal[r].status \in Uncertain => journal'[r].status \in Uncertain,
         pc'[w] # "finish",
         pc'[w] \in Mutating => RowOf(w)'.status = Inflight(mode[w])' 
  PROVE  SafetyInv'
<1>1. MutatorRow' /\ MutatorLock' /\ OneMutator'
  BY DEF MutatorRow, MutatorLock, OneMutator
<1>2. LateUncertain' /\ LateAlone'
  BY DEF LateUncertain, LateAlone
<1>3. VerifiedLive'
  BY DEF VerifiedLive, Mutating
<1>4. SettledLive'
  BY DEF SafetyInv, SettledLive, Rows
<1> QED BY <1>1, <1>2, <1>3, <1>4 DEF SafetyInv

\* The invariant holds initially: nothing is in flight, settled is the live data.
LEMMA InitSafety == Init => SafetyInv
BY DEF Init, SafetyInv, MutatorRow, MutatorLock, OneMutator, LateUncertain, LateAlone,
       VerifiedLive, SettledLive, Mutating

\* Without writers that bypass the platform, every step keeps the invariant.
LEMMA NextSafety ==
  ASSUME ~ExternalWriters, TypeOK, TypeOK', SafetyInv, [Next]_vars
  PROVE  SafetyInv'
<1>0. CASE UNCHANGED vars
  BY <1>0 DEF vars, ghVars, wkVars, SafetyInv, MutatorRow, MutatorLock, OneMutator,
     LateUncertain, LateAlone, VerifiedLive, SettledLive, RowOf, Own, Goal, Source
<1>1. ASSUME NEW w \in Workers, Acquire(w) PROVE SafetyInv'
  <2>1. late = {} /\ \A v \in Workers : pc[v] \notin Mutating
    <3>1. \A v \in Workers : pc[v] \notin Mutating
      BY <1>1, OwnType DEF Acquire, NothingUnresolved, SafetyInv, MutatorRow, RowOf, Inflight,
         Unresolved
    <3>2. late = {}
      BY <1>1 DEF Acquire, NothingUnresolved, SafetyInv, LateUncertain, TypeOK, Uncertain,
         Unresolved
    <3> QED BY <3>1, <3>2
  <2>2. /\ UNCHANGED <<live, late, settled, journal>> /\ pc'[w] \in {"validate", "stage"}
        /\ \A v \in Workers \ {w} : pc'[v] = pc[v]
    BY <1>1 DEF Acquire, ghVars, Goto, TypeOK
  <2> QED BY <2>1, <2>2 DEF SafetyInv, MutatorRow, MutatorLock, OneMutator, LateUncertain,
             LateAlone, VerifiedLive, SettledLive, Mutating
<1>2. ASSUME NEW w \in Workers,
             Refused(w) \/ Stage(w) \/ StageFails(w) \/ Backup(w) \/ Validate(w)
               \/ Preflight(w) \/ Check(w) \/ Fail(w) \/ FinishFails(w) \/ Crash(w)
      PROVE  SafetyInv'
  <2>1. UNCHANGED <<live, journal, late, settled>>
    BY <1>2 DEF Refused, Stage, StageFails, Backup, Validate, Preflight, Check, Fail,
       FinishFails, Crash, ghVars
  <2>2. \A v \in Workers \ {w} : pc'[v] = pc[v] /\ at'[v] = at[v] /\ mode'[v] = mode[v]
    BY <1>2 DEF Refused, Stage, StageFails, Backup, Validate, Preflight, Check, Fail, Recover,
       FinishFails, Crash, Goto, Leave, TypeOK
  <2>3. pc'[w] \notin Mutating
    BY <1>2 DEF Refused, Stage, StageFails, Backup, Validate, Preflight, Check, Fail, Recover,
       FinishFails, Crash, Goto, Leave, TypeOK, Mutating
  <2>4. lock' \in {lock, NoWorker}
    BY <1>2 DEF Refused, Stage, StageFails, Backup, Validate, Preflight, Check, Fail,
       FinishFails, Crash, Leave, Close
  <2>5. late # {} /\ lock' = w => pc'[w] = "mark"
    <3>1. CASE Crash(w)
      BY <3>1, ConstantAssumption DEF Crash, Leave, Close
    <3>2. CASE ~Crash(w)
      <4>1. pc[w] # "mark" /\ (lock' = w => lock = w)
        BY <1>2, <3>2, <2>4, ConstantAssumption DEF Refused, Stage, StageFails, Backup, Validate,
           Preflight, Check, Fail, FinishFails
      <4> QED BY <4>1 DEF SafetyInv, LateAlone
    <3> QED BY <3>1, <3>2
  <2> QED BY <2>1, <2>2, <2>3, <2>4, <2>5, QuietStep
<1>3. ASSUME NEW w \in Workers, Journal(w) \/ JournalUnacked(w) PROVE SafetyInv'
  <2>1. /\ InsertPrepared(w) /\ lock = w /\ pc[w] = "journal"
    BY <1>3 DEF Journal, JournalUnacked, InsertPrepared
  <2>2. late = {} /\ \A v \in Workers : pc[v] \notin Mutating
    BY <2>1, Alone DEF Mutating
  <2>3. /\ \A v \in Workers \ {w} : pc'[v] = pc[v]
        /\ lock' \in {lock, NoWorker} /\ pc'[w] \notin Mutating
    BY <1>3 DEF Journal, JournalUnacked, Goto, TypeOK, Mutating
  <2>4. \A r \in Rows : journal[r].status \in Uncertain => journal'[r].status \in Uncertain
    BY <2>1, OwnType DEF InsertPrepared, RowOf, TypeOK, Uncertain
  <2>5. UNCHANGED <<live, late, settled>>
    BY <2>1 DEF InsertPrepared, ghVars
  <2> QED BY <2>1, <2>2, <2>3, <2>4, <2>5, AloneStep DEF Mutating
<1>4. ASSUME NEW w \in Workers, Begin(w) \/ BeginUnacked(w) PROVE SafetyInv'
  <2>1. CommitInflight(w) /\ lock = w /\ pc[w] = "begin"
    BY <1>4 DEF Begin, BeginUnacked, CommitInflight
  <2>2. late = {} /\ \A v \in Workers : pc[v] \notin Mutating
    BY <2>1, Alone DEF Mutating
  <2>3. /\ \A v \in Workers \ {w} : pc'[v] = pc[v]
        /\ lock' \in {lock, NoWorker}
        /\ pc'[w] # "finish"
        /\ pc'[w] \in Mutating => UNCHANGED <<mode, at>>
    BY <1>4 DEF Begin, BeginUnacked, Recover, Goto, TypeOK, Mutating
  <2>4. journal'[Own(w)].status = Inflight(mode[w])
    BY <2>1, OwnType DEF CommitInflight, SetStatus, TypeOK, Row
  <2>5. \A r \in Rows : r # Own(w) => journal'[r] = journal[r]
    BY <2>1, OwnType DEF CommitInflight, SetStatus, TypeOK
  <2>6. \A r \in Rows : journal[r].status \in Uncertain => journal'[r].status \in Uncertain
    BY <2>4, <2>5 DEF Inflight, Uncertain
  <2>7. pc'[w] \in Mutating => RowOf(w)'.status = Inflight(mode[w])'
    BY <2>3, <2>4 DEF RowOf, Own, Inflight
  <2>8. UNCHANGED <<live, late, settled>>
    BY <2>1 DEF CommitInflight, ghVars
  <2> QED BY <2>1, <2>2, <2>3, <2>6, <2>7, <2>8, AloneStep
<1>5. ASSUME NEW w \in Workers, Abort(w) PROVE SafetyInv'
  <2>1. UNCHANGED <<live, late, settled>> /\ pc[w] = "abort" /\ pc'[w] = "done"
    BY <1>5 DEF Abort, ghVars, Leave, Goto, TypeOK
  <2>2. /\ \A v \in Workers \ {w} : pc'[v] = pc[v] /\ at'[v] = at[v] /\ mode'[v] = mode[v]
        /\ lock' \in {lock, NoWorker} /\ lock' # w
    BY <1>5, ConstantAssumption DEF Abort, Leave, Close, Goto, TypeOK
  <2>3. CASE lock # w
    BY <1>5, <2>1, <2>2, <2>3, QuietStep DEF Abort, Mutating
  <2>4. CASE lock = w
    <3>1. late = {} /\ \A v \in Workers : pc[v] \notin Mutating
      BY <2>1, <2>4, Alone DEF Mutating
    <3>2. \A r \in Rows : journal[r].status \in Uncertain => journal'[r] = journal[r]
      BY <1>5, <2>4 DEF Abort, Uncertain
    <3> QED BY <2>1, <2>2, <2>4, <3>1, <3>2, AloneStep DEF Mutating
  <2> QED BY <2>3, <2>4
<1>6. ASSUME NEW w \in Workers, Command(w) PROVE SafetyInv'
  <2>1. /\ pc[w] = "command" /\ pc' = [pc EXCEPT ![w] = "verify"]
        /\ UNCHANGED <<late, journal, lock, mode, at, settled>>
        /\ live' = [live EXCEPT ![at[w]] = Goal(w)]
    BY <1>6 DEF Command, Goto
  <2>2. /\ \A v \in Workers : pc'[v] \in Mutating <=> pc[v] \in Mutating
        /\ \A v \in Workers : RowOf(v)' = RowOf(v) /\ Inflight(mode[v])' = Inflight(mode[v])
    BY <2>1 DEF TypeOK, Mutating, RowOf, Own, Inflight
  <2>3. MutatorRow' /\ MutatorLock' /\ OneMutator'
    BY <2>1, <2>2 DEF SafetyInv, MutatorRow, MutatorLock, OneMutator
  <2>4. late = {}
    BY <2>1 DEF SafetyInv, LateAlone, Mutating
  <2>5. LateUncertain' /\ LateAlone'
    BY <2>1, <2>4 DEF LateUncertain, LateAlone
  <2>6. VerifiedLive'
    BY <2>1 DEF SafetyInv, OneMutator, VerifiedLive, Mutating, TypeOK
  <2>7. SettledLive'
    <3>1. journal[<<ExecOf[w], at[w]>>].status \in Uncertain
      BY <2>1 DEF SafetyInv, MutatorRow, RowOf, Own, Mutating, Inflight, Uncertain
    <3> QED BY <2>1, <3>1, OwnType DEF SafetyInv, SettledLive, TypeOK
  <2> QED BY <2>3, <2>5, <2>6, <2>7 DEF SafetyInv
<1>7. ASSUME NEW w \in Workers, CommandUncertain(w) PROVE SafetyInv'
  <2>1. /\ pc[w] = "command" /\ pc' = [pc EXCEPT ![w] = "mark"]
        /\ UNCHANGED <<live, journal, lock, mode, at, settled>>
        /\ late' = late \cup {<<Own(w), mode[w]>>}
    BY <1>7 DEF CommandUncertain, Goto
  <2>2. \A v \in Workers : pc'[v] \notin Mutating
    BY <2>1 DEF SafetyInv, OneMutator, Mutating, TypeOK
  <2>3. lock \in {w, NoWorker} /\ RowOf(w).status \in Uncertain
    BY <2>1 DEF SafetyInv, MutatorLock, MutatorRow, Mutating, Inflight, Uncertain
  <2>4. MutatorRow' /\ MutatorLock' /\ OneMutator' /\ VerifiedLive'
    BY <2>2 DEF MutatorRow, MutatorLock, OneMutator, VerifiedLive, Mutating
  <2>5. LateUncertain'
    BY <2>1, <2>3 DEF SafetyInv, LateUncertain, RowOf
  <2>6. LateAlone'
    BY <2>1, <2>2, <2>3, ConstantAssumption DEF LateAlone, TypeOK
  <2>7. SettledLive'
    BY <2>1 DEF SafetyInv, SettledLive
  <2> QED BY <2>4, <2>5, <2>6, <2>7 DEF SafetyInv
<1>8. ASSUME LateCommand PROVE SafetyInv'
  <2>1. PICK c \in late : /\ live' = [live EXCEPT ![c[1][2]] = Source(c[1], c[2])]
                         /\ late' = late \ {c}
    BY <1>8 DEF LateCommand
  <2>2. UNCHANGED <<journal, lock, pc, mode, at, settled>>
    BY <1>8 DEF LateCommand, wkVars
  <2>3. \A v \in Workers : pc'[v] \notin Mutating
    BY <2>2 DEF SafetyInv, LateAlone
  <2>4. MutatorRow' /\ MutatorLock' /\ OneMutator' /\ VerifiedLive'
    BY <2>3 DEF MutatorRow, MutatorLock, OneMutator, VerifiedLive, Mutating
  <2>5. LateUncertain' /\ LateAlone'
    BY <2>1, <2>2 DEF SafetyInv, LateUncertain, LateAlone
  <2>6. SettledLive'
    <3>1. PICK e \in Execs, t \in Tables : c[1] = <<e, t>>
      BY DEF TypeOK, Rows
    <3>2. journal[<<e, t>>].status \in Uncertain
      BY <3>1 DEF SafetyInv, LateUncertain
    <3>3. \A u \in Tables : u # t => live'[u] = live[u]
      BY <2>1, <3>1 DEF TypeOK
    <3> QED BY <2>2, <3>2, <3>3 DEF SafetyInv, SettledLive
  <2> QED BY <2>4, <2>5, <2>6 DEF SafetyInv
<1>9. ASSUME NEW w \in Workers, Verify(w) PROVE SafetyInv'
  <2>1. /\ pc[w] = "verify"
        /\ UNCHANGED <<live, late, journal, lock, mode, at, settled>>
    BY <1>9 DEF Verify, ghVars
  <2>2. late = {}
    BY <2>1 DEF SafetyInv, LateAlone, Mutating
  <2>3. CASE Goto(w, "mark")
    BY <2>1, <2>2, <2>3, QuietStep DEF Goto, Mutating, TypeOK
  <2>4. CASE live[at[w]] = Goal(w) /\ Goto(w, "finish")
    <3>1. /\ \A v \in Workers : pc'[v] \in Mutating <=> pc[v] \in Mutating
          /\ \A v \in Workers : /\ RowOf(v)' = RowOf(v) /\ Goal(v)' = Goal(v)
                               /\ Inflight(mode[v])' = Inflight(mode[v])
      BY <2>1, <2>4 DEF TypeOK, Mutating, RowOf, Own, Inflight, Goal, Source, Goto
    <3>2. MutatorRow' /\ MutatorLock' /\ OneMutator'
      BY <2>1, <3>1 DEF SafetyInv, MutatorRow, MutatorLock, OneMutator
    <3>3. LateUncertain' /\ LateAlone' /\ SettledLive'
      BY <2>1, <2>2 DEF SafetyInv, LateUncertain, LateAlone, SettledLive
    <3>4. VerifiedLive'
      BY <2>1, <2>4, <3>1 DEF SafetyInv, VerifiedLive, Goto, TypeOK
    <3> QED BY <3>2, <3>3, <3>4 DEF SafetyInv
  <2> QED BY <1>9, <2>3, <2>4 DEF Verify
<1>10. ASSUME NEW w \in Workers, Finish(w) \/ FinishUnacked(w) PROVE SafetyInv'
  <2>1. CommitFinish(w) /\ pc[w] = "finish"
    BY <1>10 DEF Finish, FinishUnacked, CommitFinish
  <2>2. pc'[w] \notin Mutating /\ \A v \in Workers \ {w} : pc'[v] = pc[v]
    BY <1>10 DEF Finish, FinishUnacked, Leave, Goto, TypeOK, Mutating
  <2>3. \A v \in Workers : pc'[v] \notin Mutating
    BY <2>1, <2>2 DEF SafetyInv, OneMutator, Mutating
  <2>4. MutatorRow' /\ MutatorLock' /\ OneMutator' /\ VerifiedLive'
    BY <2>3 DEF MutatorRow, MutatorLock, OneMutator, VerifiedLive, Mutating
  <2>5. late' = {}
    BY <2>1 DEF CommitFinish, ghVars, SafetyInv, LateAlone, Mutating
  <2>6. LateUncertain' /\ LateAlone'
    BY <2>5 DEF LateUncertain, LateAlone
  <2>7. SettledLive'
    <3>1. live' = live /\ live[at[w]] = Goal(w) /\ settled' = [settled EXCEPT ![at[w]] = Goal(w)]
      BY <2>1 DEF CommitFinish, ghVars, SafetyInv, VerifiedLive
    <3>2. \A e \in Execs, t \in Tables : t # at[w] => journal'[<<e, t>>] = journal[<<e, t>>]
      BY <2>1, OwnType DEF CommitFinish, TypeOK, Own, Rows
    <3> QED BY <3>1, <3>2, OwnType DEF SafetyInv, SettledLive, TypeOK
  <2> QED BY <2>4, <2>6, <2>7 DEF SafetyInv
<1>11. ASSUME NEW w \in Workers, Mark(w) PROVE SafetyInv'
  <2>1. /\ UNCHANGED <<live, late, settled, mode, at>>
        /\ pc[w] = "mark" /\ pc'[w] = "done" /\ \A v \in Workers \ {w} : pc'[v] = pc[v]
        /\ lock' \in {lock, NoWorker} /\ lock' # w
    BY <1>11, ConstantAssumption DEF Mark, ghVars, Leave, Close, Goto, TypeOK
  <2>2. CASE ~(lock = w /\ RowOf(w).status = Inflight(mode[w]))
    BY <1>11, <2>1, <2>2, QuietStep DEF Mark, Mutating
  <2>3. CASE lock = w /\ RowOf(w).status = Inflight(mode[w])
    <3>1. journal' = [journal EXCEPT ![Own(w)].status = "unknown"]
      BY <1>11, <2>3 DEF Mark, SetStatus
    <3>2. journal'[Own(w)].status = "unknown"
      BY <3>1, OwnType DEF TypeOK, Row
    <3>3. \A r \in Rows : r # Own(w) => journal'[r] = journal[r]
      BY <3>1, OwnType DEF TypeOK
    <3>4. \A r \in Rows : journal[r].status \in Uncertain => journal'[r].status \in Uncertain
      BY <3>2, <3>3 DEF Uncertain
    <3>5. \A v \in Workers : pc[v] \notin Mutating
      BY <2>1, <2>3, ConstantAssumption DEF SafetyInv, MutatorLock, Mutating
    <3>6. MutatorRow' /\ MutatorLock' /\ OneMutator' /\ VerifiedLive'
      BY <2>1, <3>5 DEF MutatorRow, MutatorLock, OneMutator, VerifiedLive, Mutating
    <3>7. LateUncertain'
      BY <2>1, <3>4 DEF SafetyInv, LateUncertain, TypeOK
    <3>8. LateAlone'
      BY <2>1, <2>3, <3>5, ConstantAssumption DEF LateAlone, Mutating
    <3>9. SettledLive'
      BY <2>1, <3>4 DEF SafetyInv, SettledLive, Rows
    <3> QED BY <3>6, <3>7, <3>8, <3>9 DEF SafetyInv
  <2> QED BY <2>2, <2>3
<1>12. ASSUME NEW w \in Workers, SessionLost(w) PROVE SafetyInv'
  BY <1>12, ConstantAssumption DEF SessionLost, ghVars, wkVars, SafetyInv, MutatorRow,
     MutatorLock, OneMutator, LateUncertain, LateAlone, VerifiedLive, SettledLive,
     RowOf, Own, Goal, Source
<1>13. ASSUME NEW e \in Execs, PinPlan(e) PROVE SafetyInv'
  BY <1>13 DEF PinPlan, ghVars, wkVars, SafetyInv, MutatorRow, MutatorLock, OneMutator,
     LateUncertain, LateAlone, VerifiedLive, SettledLive, RowOf, Own, Goal, Source
<1> QED
  BY <1>0, <1>1, <1>2, <1>3, <1>4, <1>5, <1>6, <1>7, <1>8, <1>9, <1>10, <1>11, <1>12, <1>13
     DEF Next, Step, ExternalWrite

\* As long as every writer cooperates, every state satisfies the inductive invariant:
\* a mutating worker is alone and has its in-flight row, and a command that may still
\* land keeps its row uncertain and everybody else out.
THEOREM SafetyInvariant == ~ExternalWriters => (Spec => []SafetyInv)
<1> SUFFICES ASSUME ~ExternalWriters PROVE Spec => []SafetyInv OBVIOUS
<1>1. Init => TypeOK /\ SafetyInv
  BY InitTypeOK, InitSafety
<1>2. (TypeOK /\ SafetyInv) /\ [Next]_vars => (TypeOK /\ SafetyInv)'
  BY NextTypeOK, NextSafety
<1> QED BY <1>1, <1>2, PTL DEF Spec

\* As long as every writer cooperates, the live partition of a table without an
\* uncertain row is what the last finished publication recorded; no lost session,
\* killed process or late ClickHouse command can falsify the journal.
THEOREM LiveMatchesJournal == ~ExternalWriters => (Spec => []SettledLive)
<1> SUFFICES ASSUME ~ExternalWriters PROVE Spec => []SettledLive OBVIOUS
<1>1. Spec => []SafetyInv
  BY SafetyInvariant
<1>2. SafetyInv => SettledLive
  BY DEF SafetyInv
<1> QED BY <1>1, <1>2, PTL

\* As long as every writer cooperates, at most one process is between its in-flight
\* record and the outcome, though sessions die and retries share identities.
THEOREM MutualExclusion == ~ExternalWriters => (Spec => []OneMutator)
<1> SUFFICES ASSUME ~ExternalWriters PROVE Spec => []OneMutator OBVIOUS
<1>1. Spec => []SafetyInv
  BY SafetyInvariant
<1>2. SafetyInv => OneMutator
  BY DEF SafetyInv
<1> QED BY <1>1, <1>2, PTL

\* As long as every writer cooperates, a live partition changes only under a
\* durable in-flight record of its table.
THEOREM MutationIsJournaled == ~ExternalWriters => (Spec => JournalBeforeMutation)
<1> SUFFICES ASSUME ~ExternalWriters PROVE Spec => JournalBeforeMutation OBVIOUS
<1> DEFINE Journaled == \A t \in Tables : live'[t] # live[t] =>
                          \E e \in Execs : journal[<<e, t>>].status \in Uncertain
<1>1. Init => TypeOK /\ SafetyInv
  BY InitTypeOK, InitSafety
<1>2. (TypeOK /\ SafetyInv) /\ [Next]_vars => (TypeOK /\ SafetyInv)'
  BY NextTypeOK, NextSafety
<1>3. TypeOK /\ SafetyInv /\ [Next]_vars => [Journaled]_vars
  <2> SUFFICES ASSUME TypeOK, SafetyInv, Next, live' # live PROVE Journaled
    BY DEF vars, ghVars
  <2>1. CASE \E w \in Workers : Command(w)
    <3>1. PICK w \in Workers : Command(w) BY <2>1
    <3>2. journal[<<ExecOf[w], at[w]>>].status \in Uncertain
      BY <3>1 DEF Command, SafetyInv, MutatorRow, RowOf, Own, Mutating, Inflight, Uncertain
    <3>3. \A t \in Tables : live'[t] # live[t] => t = at[w]
      BY <3>1, OwnType DEF Command, TypeOK
    <3> QED BY <3>2, <3>3, OwnType
  <2>2. CASE LateCommand
    <3>1. PICK c \in late : live' = [live EXCEPT ![c[1][2]] = Source(c[1], c[2])]
      BY <2>2 DEF LateCommand
    <3>2. PICK e \in Execs, t \in Tables : c[1] = <<e, t>>
      BY DEF TypeOK, Rows
    <3>3. journal[<<e, t>>].status \in Uncertain
      BY <3>2 DEF SafetyInv, LateUncertain
    <3>4. \A u \in Tables : u # t => live'[u] = live[u]
      BY <3>1, <3>2 DEF TypeOK
    <3> QED BY <3>3, <3>4
  <2>3. (\E w \in Workers : Command(w)) \/ LateCommand
    BY DEF Next, Step, Acquire, Refused, Stage, StageFails, Backup, Journal, JournalUnacked,
       InsertPrepared, Validate, Preflight, Check, Begin, BeginUnacked, CommitInflight,
       CommandUncertain, Verify, Finish, FinishUnacked, CommitFinish, FinishFails, Mark, Fail,
       Abort, SessionLost, Crash, PinPlan, ExternalWrite, ghVars
  <2> QED BY <2>1, <2>2, <2>3
<1> QED BY <1>1, <1>2, <1>3, PTL DEF Spec, JournalBeforeMutation

----------------------------------------------------------------------------
(* The journal under rival attempts and uncooperative writers.             *)
(*                                                                         *)
(* Nothing here speaks of the live tables: the argument is that every      *)
(* journal write needs the session lock, so that what its holder found out *)
(* about the rows of its execution stays true until it loses the session.  *)

JournalInd ==
  /\ SingleUnresolved /\ RecoveryOnPlan
  /\ \A w \in Workers : LocalOK(w)
  /\ \A w \in Workers : lock = w => HoldsLock(w)

\* A step that moves one worker, and writes the journal and the revision only as the holder
\* of the lock.
JournalMove(w) ==
  /\ plan' = plan
  /\ \A v \in Workers \ {w} :
       pc'[v] = pc[v] /\ at'[v] = at[v] /\ mode'[v] = mode[v] /\ owned'[v] = owned[v]
  /\ \/ UNCHANGED <<journal, part>> /\ lock' \in {lock, NoWorker}
     \/ /\ lock' \in {w, NoWorker}
        /\ \A r \in Rows : journal'[r].status \in Unresolved => r[1] = ExecOf[w]
        /\ RecoveryOnPlan'

\* It is enough to look at the worker that moves.
LEMMA JournalFrame ==
  ASSUME JournalInd, NEW w \in Workers, JournalMove(w), LocalOK(w)', lock' = w => HoldsLock(w)'
  PROVE  JournalInd'
<1>1. ASSUME NEW v \in Workers PROVE LocalOK(v)'
  <2>1. CASE v = w
    BY <2>1
  <2>2. CASE v # w
    <3>1. LocalOK(v) /\ pc'[v] = pc[v] /\ at'[v] = at[v] /\ mode'[v] = mode[v]
      BY <2>2 DEF JournalInd, JournalMove
    <3> QED BY <3>1 DEF LocalOK, Earlier, K
  <2> QED BY <2>1, <2>2
<1>2. CASE UNCHANGED <<journal, part>> /\ lock' \in {lock, NoWorker}
  <2>1. ASSUME NEW v \in Workers, lock' = v PROVE HoldsLock(v)'
    <3>1. CASE v = w
      BY <2>1, <3>1
    <3>2. CASE v # w
      <4>1. lock = v
        BY <1>2, <2>1, ConstantAssumption
      <4>2. /\ HoldsLock(v) /\ plan' = plan /\ UNCHANGED <<journal, part>>
            /\ pc'[v] = pc[v] /\ at'[v] = at[v] /\ mode'[v] = mode[v] /\ owned'[v] = owned[v]
        BY <1>2, <3>2, <4>1 DEF JournalInd, JournalMove
      <4>3. K(v)' = K(v) /\ Earlier(v)' = Earlier(v) /\ Later(v)' = Later(v)
            /\ RowOf(v)' = RowOf(v)
        BY <4>2 DEF K, Earlier, Later, RowOf, Own
      <4>4. InGroup(v) => InGroup(v)'
        BY <4>2, <4>3 DEF InGroup, StatusOf, Inflight
      <4>5. OnPlan(v) => OnPlan(v)'
        BY <4>2, <4>3 DEF OnPlan, Position
      <4> QED BY <4>2, <4>4, <4>5 DEF HoldsLock
    <3> QED BY <3>1, <3>2
  <2>2. SingleUnresolved' /\ RecoveryOnPlan'
    BY <1>2 DEF JournalInd, JournalMove, SingleUnresolved, RecoveryOnPlan, Position
  <2> QED BY <1>1, <2>1, <2>2 DEF JournalInd
<1>3. CASE /\ lock' \in {w, NoWorker}
           /\ \A r \in Rows : journal'[r].status \in Unresolved => r[1] = ExecOf[w]
           /\ RecoveryOnPlan'
  <2>1. \A v \in Workers : lock' = v => v = w
    BY <1>3, ConstantAssumption
  <2>2. SingleUnresolved'
    BY <1>3 DEF SingleUnresolved
  <2> QED BY <1>1, <1>3, <2>1, <2>2 DEF JournalInd
<1> QED BY <1>2, <1>3 DEF JournalMove

\* The tables of a group are ordered by their layers.
LEMMA RankIsOrder ==
  \A t, u \in Tables : /\ Rank[t] \in Nat
                       /\ Rank[t] = Rank[u] => t = u
BY DEF Rank, Tables

\* The raw input comes first, the mart last, and who publishes the mart publishes both of its
\* derived layers.
LEMMA LayerRanks ==
  /\ Rank["raw"] = 1 /\ Rank["stg"] = 2 /\ Rank["fct"] = 3
  /\ \A k : "fct" \in Targets(k) => "stg" \in Targets(k)
BY DEF Rank, Tables, Targets

\* A set of tables is finite.
LEMMA TablesAreFinite == ASSUME NEW S \in SUBSET Tables PROVE IsFiniteSet(S)
<1>1. IsFiniteSet({"raw"})
  BY FS_Singleton
<1>2. IsFiniteSet({"raw"} \cup {"stg"})
  BY <1>1, FS_AddElement
<1>3. IsFiniteSet(({"raw"} \cup {"stg"}) \cup {"fct"})
  BY <1>2, FS_AddElement
<1>4. Tables = ({"raw"} \cup {"stg"}) \cup {"fct"}
  BY DEF Tables
<1> QED BY <1>3, <1>4, FS_Subset

\* The first member of a group is the first to be counted.
LEMMA PositionFirst ==
  ASSUME TypeOK, NEW w \in Workers, at[w] \in Targets(K(w)), Earlier(w) = {}
  PROVE  Position(K(w), at[w]) = 1
<1>1. {u \in Targets(K(w)) : Rank[u] <= Rank[at[w]]} = {at[w]}
  <2>1. ASSUME NEW u \in Targets(K(w)), Rank[u] <= Rank[at[w]] PROVE u = at[w]
    <3>1. u \in Tables /\ at[w] \in Tables
      BY TargetsAreTables
    <3>2. ~(Rank[u] < Rank[at[w]])
      BY DEF Earlier
    <3> QED BY <2>1, <3>1, <3>2, RankIsOrder
  <2>2. Rank[at[w]] <= Rank[at[w]]
    BY TargetsAreTables, RankIsOrder
  <2> QED BY <2>1, <2>2
<1> QED BY <1>1, FS_Singleton DEF Position

\* Each further member counts one more.
LEMMA PositionNext ==
  ASSUME TypeOK, NEW w \in Workers, at[w] \in Targets(K(w)), NEW t \in First(Later(w))
  PROVE  /\ Position(K(w), t) = Position(K(w), at[w]) + 1
         /\ Position(K(w), at[w]) \in Nat
<1> DEFINE A == {u \in Targets(K(w)) : Rank[u] <= Rank[at[w]]}
           B == {u \in Targets(K(w)) : Rank[u] <= Rank[t]}
<1>1. t \in Targets(K(w)) /\ Rank[t] > Rank[at[w]] /\ t \in Tables /\ at[w] \in Tables
      /\ \A u \in Later(w) : Rank[t] <= Rank[u]
  BY TargetsAreTables DEF First, Later
<1>2. t \notin A
  BY <1>1, RankIsOrder
<1>3. ASSUME NEW u \in B PROVE u \in A \cup {t}
  <2>1. u \in Targets(K(w)) /\ u \in Tables /\ Rank[u] <= Rank[t]
    BY TargetsAreTables
  <2>2. CASE Rank[u] > Rank[at[w]]
    <3>1. Rank[t] <= Rank[u]
      BY <1>1, <2>1, <2>2 DEF Later
    <3> QED BY <1>1, <2>1, <3>1, RankIsOrder
  <2>3. CASE ~(Rank[u] > Rank[at[w]])
    BY <1>1, <2>1, <2>3, RankIsOrder
  <2> QED BY <2>2, <2>3
<1>4. ASSUME NEW u \in A \cup {t} PROVE u \in B
  <2>1. CASE u \in A
    BY <1>1, <2>1, TargetsAreTables, RankIsOrder
  <2>2. CASE u = t
    BY <1>1, <2>2, RankIsOrder
  <2> QED BY <2>1, <2>2
<1>5. B = A \cup {t}
  BY <1>3, <1>4
<1>6. IsFiniteSet(A)
  BY TargetsAreTables, TablesAreFinite
<1>7. Cardinality(A \cup {t}) = Cardinality(A) + 1 /\ Cardinality(A) \in Nat
  <2> HIDE DEF A
  <2> QED BY <1>2, <1>6, FS_AddElement, FS_CardinalityType
<1> QED BY <1>5, <1>7 DEF Position

\* Before the next member come the current one and those before it.
LEMMA NextMember ==
  ASSUME NEW w \in Workers, at[w] \in Tables, NEW t \in First(Later(w)),
         NEW u \in Targets(K(w)), Rank[u] < Rank[t]
  PROVE  u = at[w] \/ u \in Earlier(w)
<1>1. t \in Tables /\ \A q \in Later(w) : Rank[t] <= Rank[q]
  BY TargetsAreTables DEF First, Later
<1>2. u \in Tables
  BY TargetsAreTables
<1>3. u \notin Later(w)
  BY <1>1, <1>2, RankIsOrder
<1> QED BY <1>2, <1>3, RankIsOrder DEF Later, Earlier

\* A step of one attempt that writes nothing.
Quiet(w) ==
  /\ UNCHANGED <<journal, part, plan, owned>> /\ lock' \in {lock, NoWorker}
  /\ \A v \in Workers \ {w} : pc'[v] = pc[v] /\ at'[v] = at[v] /\ mode'[v] = mode[v]

\* The lock holder keeps what it relies on where it stays in its group.
LEMMA StaysInGroup ==
  ASSUME JournalInd, NEW w \in Workers, Quiet(w), at'[w] = at[w], mode'[w] = mode[w],
         \/ pc'[w] \notin {"idle", "done"} \cup Building \cup Sending
         \/ pc[w] \in Building /\ pc'[w] \in Building
         \/ pc[w] \in {"check", "begin"} /\ pc'[w] \in {"check", "begin"}
         \/ pc[w] \in {"command", "verify", "finish"} /\ pc'[w] \in {"command", "verify", "finish"},
         LocalOK(w)'
  PROVE  JournalInd'
<1>1. JournalMove(w)
  BY DEF Quiet, JournalMove
<1>2. ASSUME lock' = w PROVE HoldsLock(w)'
  <2>1. HoldsLock(w)
    BY <1>2, ConstantAssumption DEF Quiet, JournalInd
  <2>2. /\ K(w)' = K(w) /\ Earlier(w)' = Earlier(w) /\ Later(w)' = Later(w)
        /\ RowOf(w)' = RowOf(w)
    BY DEF Quiet, K, Earlier, Later, RowOf, Own
  <2>3. pc'[w] \in Sending => InGroup(w)'
    BY <2>1, <2>2 DEF HoldsLock, InGroup, StatusOf, Inflight, Quiet, Building, Sending
  <2>4. OnPlan(w)'
    BY <2>1, <2>2 DEF HoldsLock, OnPlan, Position, Quiet, Building, Sending
  <2>5. pc'[w] \notin {"idle", "done"}
    BY DEF Building
  <2> QED BY <2>1, <2>3, <2>4, <2>5 DEF HoldsLock, Quiet
<1> QED BY <1>1, <1>2, JournalFrame

\* A step of an attempt that has or gives up no session.
LEMMA WithoutLock ==
  ASSUME JournalInd, NEW w \in Workers, Quiet(w), lock' # w, LocalOK(w)'
  PROVE  JournalInd'
<1>1. JournalMove(w)
  BY DEF Quiet, JournalMove
<1> QED BY <1>1, JournalFrame

\* Publication begins with a group that is prepared as a whole.
LEMMA PreflightJournal ==
  ASSUME TypeOK, JournalInd, NEW w \in Workers, Preflight(w)
  PROVE  JournalInd'
<1>1. /\ pc[w] = "preflight" /\ pc'[w] = "check" /\ lock = w
      /\ UNCHANGED <<journal, part, lock, plan, mode, at, owned>>
      /\ \A v \in Workers \ {w} : pc'[v] = pc[v]
  BY DEF Preflight, Goto, TypeOK
<1>2. JournalMove(w)
  BY <1>1 DEF JournalMove
<1>3. HoldsLock(w) /\ LocalOK(w)
  BY <1>1 DEF JournalInd
<1>4. mode[w] = "publish" /\ at[w] \in Targets(K(w)) /\ Earlier(w) = {}
  BY <1>1, <1>3 DEF LocalOK, Building
<1>5. LocalOK(w)'
  BY <1>1, <1>4 DEF LocalOK, Building, K, Earlier
<1>6. \A t \in Targets(K(w)) : StatusOf(ExecOf[w], t) = "prepared"
  BY DEF Preflight, StatusOf
<1>7. RowOf(w).status = "prepared"
  BY <1>4, <1>6 DEF RowOf, Own, StatusOf
<1>8. InGroup(w)'
  BY <1>1, <1>4, <1>6, <1>7 DEF InGroup, K, Earlier, Later, RowOf, Own, StatusOf
<1>9. OnPlan(w)'
  <2> SUFFICES ASSUME K(w) \in Recoveries PROVE OnPlan(w)'
    BY DEF OnPlan, K
  <2>1. plan[ExecOf[w]] # NoPlan /\ part = plan[ExecOf[w]]
    BY <1>1, <1>3 DEF HoldsLock, OnPlan, Building
  <2>2. Position(K(w), at[w]) = 1
    BY <1>4, PositionFirst
  <2> QED BY <1>1, <2>1, <2>2 DEF OnPlan, K, Building, Position
<1>10. HoldsLock(w)'
  BY <1>1, <1>3, <1>8, <1>9 DEF HoldsLock
<1> QED BY <1>2, <1>5, <1>10, JournalFrame

\* A failure of a recovery turns round to its last published member.
LEMMA FailJournal ==
  ASSUME TypeOK, JournalInd, NEW w \in Workers, Recover(w),
         pc[w] \notin {"idle", "done", "command", "verify", "finish"}, Quiet(w)
  PROVE  JournalInd'
<1>1. JournalMove(w)
  BY DEF Quiet, JournalMove
<1>2. CASE pc' = [pc EXCEPT ![w] = "abort"] /\ UNCHANGED <<mode, at>>
  <2>1. pc'[w] = "abort"
    BY <1>2 DEF TypeOK
  <2>2. LocalOK(w)'
    BY <2>1 DEF LocalOK, Building
  <2> QED BY <1>2, <2>1, <2>2, StaysInGroup DEF Building, Sending
<1>3. CASE /\ mode[w] = "publish" /\ pc[w] \in {"check", "begin"}
           /\ mode' = [mode EXCEPT ![w] = "compensate"]
           /\ \E t \in Last(Earlier(w)) : at' = [at EXCEPT ![w] = t]
           /\ Goto(w, "check")
  <2>1. PICK t \in Last(Earlier(w)) : at' = [at EXCEPT ![w] = t]
    BY <1>3
  <2>2. /\ at'[w] = t /\ mode'[w] = "compensate" /\ pc'[w] = "check"
        /\ t \in Targets(K(w)) /\ t \in Earlier(w) /\ t \in Tables /\ at[w] \in Tables
        /\ Rank[t] < Rank[at[w]]
    BY <1>3, <2>1, TargetsAreTables DEF TypeOK, Goto, Last, Earlier
  <2>3. LocalOK(w)'
    BY <2>2 DEF LocalOK, Building
  <2>4. ASSUME lock' = w PROVE HoldsLock(w)'
    <3>1. HoldsLock(w) /\ InGroup(w)
      BY <1>3, <2>4, ConstantAssumption DEF Quiet, JournalInd, HoldsLock, Sending
    <3>2. \A u \in Earlier(w)' : u \in Earlier(w)
      <4>1. \A u \in Earlier(w)' : u \in Targets(K(w)) /\ Rank[u] < Rank[t]
        BY <2>2 DEF Earlier, K
      <4> QED BY <2>2, <4>1, TargetsAreTables, RankIsOrder DEF Earlier
    <3>3. InGroup(w)'
      BY <2>2, <3>1, <3>2 DEF InGroup, K, StatusOf, RowOf, Own, Quiet
    <3>4. OnPlan(w)'
      BY <2>2, <3>1 DEF OnPlan, HoldsLock, K, Quiet, Building
    <3> QED BY <2>2, <3>1, <3>3, <3>4 DEF HoldsLock, Quiet
  <2> QED BY <1>1, <2>3, <2>4, JournalFrame
<1> QED BY <1>2, <1>3 DEF Recover, Goto

\* The steps that only move an attempt.
LEMMA QuietJournal ==
  ASSUME TypeOK, JournalInd, NEW w \in Workers,
         \/ Refused(w) \/ Stage(w) \/ StageFails(w) \/ Backup(w) \/ Validate(w) \/ Check(w)
         \/ Command(w) \/ CommandUncertain(w) \/ Verify(w) \/ FinishFails(w) \/ Fail(w)
         \/ SessionLost(w) \/ Crash(w)
  PROVE  JournalInd'
<1>0. LocalOK(w) /\ (lock = w => HoldsLock(w))
  BY DEF JournalInd
<1>1. Quiet(w)
  BY DEF Quiet, Refused, Stage, StageFails, Backup, Validate, Check, Command, CommandUncertain,
         Verify, FinishFails, Fail, Recover, SessionLost, Crash, Goto, Leave, Close, ghVars,
         wkVars, TypeOK
<1>2. CASE Refused(w) \/ FinishFails(w) \/ SessionLost(w) \/ Crash(w)
  <2>1. lock' # w
    BY <1>0, <1>2, ConstantAssumption
       DEF Refused, FinishFails, SessionLost, Crash, Leave, Close, HoldsLock
  <2>2. LocalOK(w)'
    BY <1>0, <1>2 DEF Refused, FinishFails, SessionLost, Crash, Leave, Goto, wkVars, TypeOK,
                      LocalOK, Building, K, Earlier
  <2> QED BY <1>1, <2>1, <2>2, WithoutLock
<1>3. CASE Fail(w)
  BY <1>1, <1>3, FailJournal DEF Fail
<1>4. CASE Stage(w) \/ StageFails(w) \/ Backup(w) \/ Check(w) \/ Command(w)
           \/ CommandUncertain(w) \/ Verify(w)
  <2>1. at' = at /\ mode' = mode
    BY <1>4 DEF Stage, StageFails, Backup, Check, Command, CommandUncertain, Verify
  <2>2. \/ pc[w] = "stage" /\ pc'[w] \in {"backup", "abort"}
        \/ pc[w] = "backup" /\ pc'[w] = "journal"
        \/ pc[w] = "check" /\ pc'[w] = "begin"
        \/ pc[w] = "command" /\ pc'[w] \in {"verify", "mark"}
        \/ pc[w] = "verify" /\ pc'[w] \in {"finish", "mark"}
    BY <1>4 DEF Stage, StageFails, Backup, Check, Command, CommandUncertain, Verify, Goto, TypeOK
  <2>3. LocalOK(w)'
    BY <1>0, <2>1, <2>2 DEF LocalOK, Building, K, Earlier
  <2> QED BY <1>1, <2>1, <2>2, <2>3, StaysInGroup DEF Building, Sending
<1>5. CASE Validate(w)
  <2>1. pc[w] = "validate" /\ mode' = mode /\ lock = w
    BY <1>5 DEF Validate
  <2>2. CASE Targets(K(w)) = {}
    <3>1. pc'[w] = "done" /\ lock' = NoWorker
      BY <1>5, <2>1, <2>2 DEF Validate, Leave, Close, Goto, TypeOK
    <3>2. LocalOK(w)'
      BY <3>1 DEF LocalOK, Building
    <3> QED BY <1>1, <3>1, <3>2, WithoutLock, ConstantAssumption
  <2>3. CASE Targets(K(w)) # {}
    <3>1. PICK t \in First(Targets(K(w))) : at' = [at EXCEPT ![w] = t]
      BY <1>5, <2>3 DEF Validate
    <3>2. pc'[w] = "preflight" /\ lock' = lock /\ at'[w] = t /\ t \in Targets(K(w))
          /\ \A u \in Targets(K(w)) : Rank[t] <= Rank[u]
      BY <1>5, <2>1, <2>3, <3>1 DEF Validate, Goto, TypeOK, First
    <3>3. Earlier(w)' = {}
      <4>1. \A u \in Targets(K(w)) : ~(Rank[u] < Rank[t])
        BY <3>2, TargetsAreTables, RankIsOrder
      <4> QED BY <3>2, <4>1 DEF Earlier, K
    <3>4. LocalOK(w)'
      BY <1>0, <2>1, <3>2, <3>3 DEF LocalOK, Building, K
    <3>5. HoldsLock(w)'
      BY <1>0, <1>1, <2>1, <3>2 DEF HoldsLock, OnPlan, K, Building, Sending, Quiet
    <3>6. JournalMove(w)
      BY <1>1 DEF Quiet, JournalMove
    <3> QED BY <3>4, <3>5, <3>6, JournalFrame
  <2> QED BY <2>2, <2>3
<1> QED BY <1>2, <1>3, <1>4, <1>5

\* Rows that stay published keep the revision they were published at.
LEMMA PublishedKept ==
  ASSUME RecoveryOnPlan, plan' = plan,
         \A r \in Rows : journal'[r].status = "published" =>
           journal[r].status = "published" /\ journal'[r].revision = journal[r].revision
  PROVE  RecoveryOnPlan'
<1> SUFFICES ASSUME NEW e \in Execs, NEW t \in Tables, Kind[e] \in Recoveries,
                    journal'[<<e, t>>].status = "published"
             PROVE  /\ plan[e] # NoPlan
                    /\ journal'[<<e, t>>].revision = plan[e].revision + Position(Kind[e], t)
  BY DEF RecoveryOnPlan, Position
<1>1. <<e, t>> \in Rows
  BY DEF Rows
<1> QED BY <1>1 DEF RecoveryOnPlan

\* The lock is only given when nothing is unresolved, and a recovery is on its plan.
LEMMA AcquireJournal ==
  ASSUME TypeOK, JournalInd, NEW w \in Workers, Acquire(w)
  PROVE  JournalInd'
<1>1. /\ pc[w] = "idle" /\ pc'[w] \in {"validate", "stage"} /\ lock' = w
      /\ UNCHANGED <<journal, part, plan, mode>> /\ owned'[w] = {part}
      /\ \A v \in Workers \ {w} : pc'[v] = pc[v] /\ at'[v] = at[v] /\ owned'[v] = owned[v]
      /\ K(w) \in Recoveries => plan[ExecOf[w]] = part
  BY DEF Acquire, Goto, TypeOK
<1>2. pc'[w] = "stage" => at'[w] \in Targets(K(w))
  BY DEF Acquire, Goto, TypeOK, First
<1>3. LocalOK(w)'
  BY <1>1, <1>2 DEF JournalInd, LocalOK, Building, K
<1>4. \A r \in Rows : journal'[r].status \notin Unresolved
  BY <1>1 DEF Acquire, NothingUnresolved
<1>5. RecoveryOnPlan'
  BY <1>1, PublishedKept DEF JournalInd
<1>6. JournalMove(w)
  BY <1>1, <1>4, <1>5 DEF JournalMove
<1>7. part # NoPlan
  BY PlanAssumption DEF TypeOK
<1>8. HoldsLock(w)'
  BY <1>1, <1>4, <1>7 DEF HoldsLock, OnPlan, K, Building, Sending
<1> QED BY <1>3, <1>6, <1>8, JournalFrame

\* A prepared row is a row of the holder's execution.
LEMMA JournalJournal ==
  ASSUME TypeOK, JournalInd, NEW w \in Workers, Journal(w) \/ JournalUnacked(w)
  PROVE  JournalInd'
<1>1. /\ pc[w] = "journal" /\ lock = w /\ RowOf(w).status = "none"
      /\ journal' = [journal EXCEPT ![Own(w)] = PreparedRow(w)]
      /\ UNCHANGED <<part, plan, mode, owned>>
  BY DEF Journal, JournalUnacked, InsertPrepared
<1>2. HoldsLock(w) /\ LocalOK(w)
  BY <1>1 DEF JournalInd
<1>3. mode[w] = "publish" /\ at[w] \in Targets(K(w)) /\ Own(w) \in Rows
  BY <1>1, <1>2, OwnType DEF LocalOK, Building
<1>4. journal'[Own(w)].status = "prepared" /\ \A r \in Rows : r # Own(w) => journal'[r] = journal[r]
  BY <1>1, <1>3 DEF PreparedRow, TypeOK
<1>5. \A r \in Rows : journal'[r].status \in Unresolved => r[1] = ExecOf[w]
  BY <1>2, <1>4 DEF HoldsLock, Own
<1>6. RecoveryOnPlan'
  BY <1>1, <1>4, PublishedKept DEF JournalInd
<1>7. /\ \A v \in Workers \ {w} : pc'[v] = pc[v] /\ at'[v] = at[v]
      /\ lock' \in {w, NoWorker}
  BY <1>1 DEF Journal, JournalUnacked, Goto, TypeOK
<1>8. JournalMove(w)
  BY <1>1, <1>5, <1>6, <1>7 DEF JournalMove
<1>9. CASE JournalUnacked(w)
  <2>1. lock' = NoWorker /\ pc'[w] = "abort"
    BY <1>9 DEF JournalUnacked, Goto, TypeOK
  <2>2. LocalOK(w)'
    BY <2>1 DEF LocalOK, Building
  <2> QED BY <1>8, <2>1, <2>2, ConstantAssumption, JournalFrame
<1>10. CASE Journal(w) /\ Later(w) = {}
  <2>1. /\ pc'[w] = IF K(w) = "load" THEN "check" ELSE "validate"
        /\ at' = at /\ lock' = w
    BY <1>1, <1>10 DEF Journal, Goto, TypeOK
  <2>2. LocalOK(w)'
    BY <1>1, <1>3, <2>1 DEF LocalOK, Building
  <2>3. CASE K(w) = "load"
    <3>1. at[w] = "raw" /\ Targets(K(w)) = {"raw"}
      BY <1>3, <2>3 DEF Targets
    <3>2. Earlier(w) = {}
      BY <3>1, RankIsOrder DEF Earlier, Tables
    <3>3. InGroup(w)'
      BY <1>1, <1>3, <1>4, <1>10, <2>1, <2>3, <3>2
         DEF InGroup, K, Earlier, Later, RowOf, Own
    <3>4. OnPlan(w)'
      BY <2>3 DEF OnPlan, K, Recoveries
    <3>5. HoldsLock(w)'
      BY <1>1, <1>2, <1>5, <2>1, <2>3, <3>3, <3>4 DEF HoldsLock
    <3> QED BY <1>8, <2>2, <3>5, JournalFrame
  <2>4. CASE K(w) # "load"
    <3>1. OnPlan(w)'
      BY <1>1, <1>2, <2>1, <2>4 DEF HoldsLock, OnPlan, K, Building, Sending
    <3>2. HoldsLock(w)'
      BY <1>1, <1>2, <1>5, <2>1, <2>4, <3>1 DEF HoldsLock, Sending
    <3> QED BY <1>8, <2>2, <3>2, JournalFrame
  <2> QED BY <2>3, <2>4
<1>11. CASE Journal(w) /\ Later(w) # {}
  <2>1. pc'[w] \in {"stage", "backup"} /\ lock' = w
    BY <1>1, <1>11 DEF Journal, Goto, TypeOK
  <2>2. at'[w] \in Targets(K(w))
    <3>1. PICK t \in First(Later(w)) : at' = [at EXCEPT ![w] = t]
      BY <1>11 DEF Journal
    <3> QED BY <3>1 DEF First, Later, TypeOK
  <2>3. LocalOK(w)'
    BY <1>1, <1>3, <2>1, <2>2 DEF LocalOK, Building, K
  <2>4. OnPlan(w)'
    BY <1>1, <1>2, <2>1 DEF HoldsLock, OnPlan, K, Building, Sending
  <2>5. HoldsLock(w)'
    BY <1>1, <1>2, <1>5, <2>1, <2>4 DEF HoldsLock, Sending
  <2> QED BY <1>8, <2>3, <2>5, JournalFrame
<1> QED BY <1>9, <1>10, <1>11

\* An in-flight record is a row of the holder's execution.
LEMMA BeginJournal ==
  ASSUME TypeOK, JournalInd, NEW w \in Workers, Begin(w) \/ BeginUnacked(w)
  PROVE  JournalInd'
<1>1. /\ pc[w] = "begin" /\ lock = w
      /\ journal' = [journal EXCEPT ![Own(w)].status = Inflight(mode[w])]
      /\ UNCHANGED <<part, plan, owned>>
  BY DEF Begin, BeginUnacked, CommitInflight, SetStatus
<1>2. HoldsLock(w) /\ LocalOK(w) /\ InGroup(w)
  BY <1>1 DEF JournalInd, HoldsLock, Sending
<1>3. Own(w) \in Rows /\ at[w] \in Tables
  BY OwnType
<1>4. /\ journal'[Own(w)].status = Inflight(mode[w])
      /\ \A r \in Rows : r # Own(w) => journal'[r] = journal[r]
  BY <1>1, <1>3 DEF TypeOK, Row
<1>5. \A r \in Rows : journal'[r].status \in Unresolved => r[1] = ExecOf[w]
  BY <1>2, <1>4 DEF HoldsLock, Own
<1>6. RecoveryOnPlan'
  BY <1>1, <1>4, PublishedKept DEF JournalInd, Inflight
<1>7. /\ \A v \in Workers \ {w} : pc'[v] = pc[v] /\ at'[v] = at[v] /\ mode'[v] = mode[v]
      /\ lock' \in {w, NoWorker}
  BY <1>1 DEF Begin, BeginUnacked, Recover, Goto, TypeOK
<1>8. JournalMove(w)
  BY <1>1, <1>5, <1>6, <1>7 DEF JournalMove
<1>9. CASE Begin(w)
  <2>1. lock' = w /\ pc'[w] = "command" /\ UNCHANGED <<mode, at>>
    BY <1>1, <1>9 DEF Begin, Goto, TypeOK
  <2>2. LocalOK(w)'
    BY <2>1 DEF LocalOK, Building
  <2>3. \A t \in Earlier(w) \cup Later(w) : StatusOf(ExecOf[w], t)' = StatusOf(ExecOf[w], t)
    <3>1. \A t \in Earlier(w) \cup Later(w) : t \in Tables /\ t # at[w]
      BY <1>3, TargetsAreTables, RankIsOrder DEF Earlier, Later
    <3> QED BY <1>3, <1>4, <3>1 DEF Own, Rows, StatusOf
  <2>4. InGroup(w)'
    BY <1>2, <1>4, <2>1, <2>3 DEF InGroup, K, Earlier, Later, RowOf, Own, Inflight
  <2>5. OnPlan(w)'
    BY <1>1, <1>2, <2>1 DEF HoldsLock, OnPlan, Position, K, Building, Sending
  <2>6. HoldsLock(w)'
    BY <1>1, <1>2, <1>5, <2>1, <2>4, <2>5 DEF HoldsLock
  <2> QED BY <1>8, <2>2, <2>6, JournalFrame
<1>10. CASE BeginUnacked(w)
  <2>1. lock' = NoWorker /\ pc'[w] \in {"check", "abort"}
    BY <1>10 DEF BeginUnacked, Recover, Goto, TypeOK
  <2>2. LocalOK(w)'
    BY <2>1 DEF LocalOK, Building
  <2> QED BY <1>8, <2>1, <2>2, ConstantAssumption, JournalFrame
<1> QED BY <1>9, <1>10

\* Resolving rows is no publication.
LEMMA ResolveJournal ==
  ASSUME TypeOK, JournalInd, NEW w \in Workers, Mark(w) \/ Abort(w)
  PROVE  JournalInd'
<1>1. /\ pc'[w] = "done" /\ UNCHANGED <<part, plan, mode, at, owned>>
      /\ \A v \in Workers \ {w} : pc'[v] = pc[v] /\ lock' # w
  BY ConstantAssumption DEF Mark, Abort, Leave, Close, Goto, TypeOK
<1>2. lock' \in {lock, NoWorker} /\ lock' # w
  BY ConstantAssumption DEF Mark, Abort, Leave, Close
<1>3. LocalOK(w)'
  BY <1>1 DEF LocalOK, Building
<1>4. CASE journal' = journal
  <2>1. JournalMove(w)
    BY <1>1, <1>2, <1>4 DEF JournalMove
  <2> QED BY <1>2, <1>3, <2>1, JournalFrame
<1>5. CASE journal' # journal
  <2>1. lock = w
    BY <1>5 DEF Mark, Abort
  <2>2. \A r \in Rows : journal'[r] # journal[r] =>
          r[1] = ExecOf[w] /\ journal'[r].status \in {"unknown", "aborted"}
    <3>1. CASE Mark(w)
      <4>1. journal' = [journal EXCEPT ![Own(w)].status = "unknown"]
        BY <1>5, <3>1 DEF Mark, SetStatus
      <4>2. Own(w) \in Rows /\ Own(w)[1] = ExecOf[w] /\ journal[Own(w)] \in Row
        BY OwnType DEF Own, RowOf
      <4>3. \A r \in Rows : r # Own(w) => journal'[r] = journal[r]
        BY <4>1 DEF TypeOK
      <4>4. journal'[Own(w)].status = "unknown"
        BY <4>1, <4>2 DEF TypeOK, Row
      <4> QED BY <4>2, <4>3, <4>4, Zenon
    <3>2. CASE Abort(w)
      <4>1. ASSUME NEW r \in Rows, journal'[r] # journal[r]
            PROVE  r[1] = ExecOf[w] /\ journal'[r] = [journal[r] EXCEPT !.status = "aborted"]
        BY <2>1, <3>2, <4>1 DEF Abort
      <4>2. \A r \in Rows : [journal[r] EXCEPT !.status = "aborted"].status = "aborted"
        BY DEF TypeOK, Row
      <4> QED BY <4>1, <4>2
    <3> QED BY <3>1, <3>2
  <2>3. \A r \in Rows : journal'[r].status \in Unresolved => r[1] = ExecOf[w]
    BY <2>1, <2>2 DEF JournalInd, HoldsLock
  <2>4. RecoveryOnPlan'
    BY <1>1, <2>2, PublishedKept DEF JournalInd
  <2>5. JournalMove(w)
    BY <1>1, <1>2, <2>1, <2>3, <2>4 DEF JournalMove
  <2> QED BY <1>2, <1>3, <2>5, JournalFrame
<1> QED BY <1>4, <1>5

\* A finished publication is one more revision on the plan, and the group goes on from there.
LEMMA FinishJournal ==
  ASSUME TypeOK, JournalInd, NEW w \in Workers, Finish(w) \/ FinishUnacked(w)
  PROVE  JournalInd'
<1>1. /\ pc[w] = "finish" /\ lock = w
      /\ part' = [revision |-> part.revision + 1,
                  watermark |-> <<Own(w), Settles(mode[w])>>]
      /\ journal' = [journal EXCEPT ![Own(w)] = FinishedRow(w)]
      /\ UNCHANGED <<plan, mode>>
  BY DEF Finish, FinishUnacked, CommitFinish
<1>2. HoldsLock(w) /\ InGroup(w) /\ OnPlan(w)
  BY <1>1 DEF JournalInd, HoldsLock, Sending
<1>3. Own(w) \in Rows /\ at[w] \in Tables /\ ExecOf[w] \in Execs /\ mode[w] \in Modes
  BY OwnType, ConstantAssumption DEF TypeOK
<1>4. part'.revision = part.revision + 1 /\ part.revision \in Nat
  BY <1>1 DEF TypeOK, Preconditions
<1>5. /\ journal'[Own(w)].status = Settles(mode[w])
      /\ journal'[Own(w)].revision = part.revision + 1
      /\ \A r \in Rows : r # Own(w) => journal'[r] = journal[r]
  <2>1. RowOf(w) \in Row
    BY <1>3 DEF TypeOK, RowOf
  <2>2. FinishedRow(w).status = Settles(mode[w]) /\ FinishedRow(w).revision = part.revision + 1
    BY <2>1 DEF FinishedRow, Row
  <2> QED BY <1>1, <1>3, <2>2 DEF TypeOK
<1>6. \A r \in Rows : journal'[r].status \in Unresolved => r[1] = ExecOf[w]
  BY <1>2, <1>5 DEF HoldsLock, Own
<1>7. RecoveryOnPlan'
  <2> SUFFICES ASSUME NEW e \in Execs, NEW t \in Tables, Kind[e] \in Recoveries,
                      journal'[<<e, t>>].status = "published"
               PROVE  /\ plan[e] # NoPlan
                      /\ journal'[<<e, t>>].revision = plan[e].revision + Position(Kind[e], t)
    BY <1>1 DEF RecoveryOnPlan, Position
  <2>1. <<e, t>> \in Rows
    BY DEF Rows
  <2>2. CASE <<e, t>> = Own(w)
    <3>1. e = ExecOf[w] /\ t = at[w]
      BY <2>2 DEF Own
    <3>2. mode[w] = "publish"
      BY <1>3, <1>5, <2>2 DEF Settles, Modes
    <3> QED BY <1>1, <1>2, <1>5, <2>2, <3>1, <3>2 DEF OnPlan, K, Sending
  <2>3. CASE <<e, t>> # Own(w)
    BY <1>5, <2>1, <2>3 DEF JournalInd, RecoveryOnPlan
  <2> QED BY <2>2, <2>3
<1>8. /\ \A v \in Workers \ {w} : pc'[v] = pc[v] /\ at'[v] = at[v] /\ owned'[v] = owned[v]
      /\ lock' \in {w, NoWorker}
  BY <1>1 DEF Finish, FinishUnacked, Leave, Close, Goto, TypeOK
<1>9. JournalMove(w)
  BY <1>1, <1>6, <1>7, <1>8 DEF JournalMove
<1>10. \A t \in Targets(K(w)) : t # at[w] => StatusOf(ExecOf[w], t)' = StatusOf(ExecOf[w], t)
  <2> TAKE t \in Targets(K(w))
  <2>1. <<ExecOf[w], t>> \in Rows
    BY <1>3, TargetsAreTables DEF Rows
  <2> QED BY <1>5, <2>1 DEF Own, StatusOf
<1>11. CASE lock' # w
  <2>1. pc'[w] \in {"mark", "done"}
    <3>1. CASE FinishUnacked(w)
      BY <3>1 DEF FinishUnacked, Goto, TypeOK
    <3>2. CASE Finish(w)
      BY <1>1, <1>11, <3>2 DEF Finish, Goto, Leave, TypeOK
    <3> QED BY <3>1, <3>2
  <2>2. LocalOK(w)'
    BY <2>1 DEF LocalOK, Building
  <2> QED BY <1>9, <1>11, <2>2, JournalFrame
<1>12. CASE lock' = w
  <2>1. Finish(w)
    BY <1>12, ConstantAssumption DEF FinishUnacked
  <2>2. part' \in owned'[w]
    BY <2>1 DEF Finish, TypeOK
  <2>3. CASE pc'[w] = "abort"
    <3>1. LocalOK(w)'
      BY <2>3 DEF LocalOK, Building
    <3>2. OnPlan(w)'
      BY <1>1, <1>2, <2>3 DEF OnPlan, K, Building, Sending
    <3>3. HoldsLock(w)'
      BY <1>6, <2>2, <2>3, <3>2 DEF HoldsLock, Sending
    <3> QED BY <1>9, <3>1, <3>3, JournalFrame
  <2>4. CASE mode[w] = "publish" /\ pc'[w] # "abort"
    <3>0. Goto(w, "check") /\ \E t \in First(Later(w)) : at' = [at EXCEPT ![w] = t]
      BY <1>1, <1>12, <2>1, <2>4, ConstantAssumption DEF Finish, Leave, Close
    <3>1. PICK t \in First(Later(w)) : at' = [at EXCEPT ![w] = t]
      BY <3>0
    <3>2. /\ pc'[w] = "check" /\ at'[w] = t /\ t \in Later(w) /\ t \in Targets(K(w))
          /\ t \in Tables /\ Rank[t] > Rank[at[w]] /\ \A u \in Later(w) : Rank[t] <= Rank[u]
      BY <3>0, <3>1, TargetsAreTables DEF First, Later, Goto, TypeOK
    <3>3. LocalOK(w)'
      BY <3>2 DEF LocalOK, Building
    <3>4. \A u \in Earlier(w)' : u \in Earlier(w) \cup {at[w]}
      <4>1. \A u \in Earlier(w)' : u \in Targets(K(w)) /\ Rank[u] < Rank[t]
        BY <3>2 DEF Earlier, K
      <4> QED BY <1>3, <3>1, <4>1, NextMember
    <3>5. \A u \in Later(w)' : u \in Later(w)
      <4> SUFFICES ASSUME NEW u \in Targets(K(w)), Rank[u] > Rank[t]
                   PROVE  Rank[u] > Rank[at[w]]
        BY <3>2 DEF Later, K
      <4>1. u \in Tables
        BY TargetsAreTables
      <4> QED BY <1>3, <3>2, <4>1, RankIsOrder
    <3>6. /\ \A u \in Earlier(w) : u \in Targets(K(w)) /\ u # at[w]
          /\ \A u \in Later(w) : u \in Targets(K(w)) /\ u # at[w]
      BY <1>3, TargetsAreTables, RankIsOrder DEF Earlier, Later
    <3>7. journal'[<<ExecOf[w], at[w]>>].status = "published"
      BY <1>5, <2>4 DEF Own, Settles
    <3>8. InGroup(w)'
      <4>1. \A u \in Earlier(w)' : StatusOf(ExecOf[w], u)' = "published"
        BY <1>2, <1>10, <3>4, <3>6, <3>7 DEF InGroup, StatusOf
      <4>2. \A u \in Later(w) : StatusOf(ExecOf[w], u)' = "prepared"
        BY <1>2, <1>10, <2>4, <3>6 DEF InGroup
      <4>3. RowOf(w)'.status = "prepared"
        BY <3>2, <4>2 DEF RowOf, Own, StatusOf
      <4> QED BY <1>1, <2>4, <3>2, <3>5, <4>1, <4>2, <4>3 DEF InGroup, K
    <3>9. OnPlan(w)'
      <4> SUFFICES ASSUME K(w) \in Recoveries PROVE OnPlan(w)'
        BY DEF OnPlan, K
      <4>1. /\ plan[ExecOf[w]] # NoPlan
            /\ part.revision + 1 = plan[ExecOf[w]].revision + Position(K(w), at[w])
        BY <1>1, <1>2, <2>4 DEF OnPlan, Sending
      <4>2. /\ Position(K(w), t) = Position(K(w), at[w]) + 1
            /\ Position(K(w), at[w]) \in Nat
        BY <1>2, <3>1, PositionNext DEF InGroup
      <4>3. plan[ExecOf[w]].revision \in Nat
        BY <1>3, <4>1 DEF TypeOK, Preconditions
      <4>4. part'.revision + 1 = plan[ExecOf[w]].revision + Position(K(w), t)
        BY <1>4, <4>1, <4>2, <4>3
      <4> QED BY <1>1, <3>2, <4>1, <4>4 DEF OnPlan, K, Building, Position
    <3>10. HoldsLock(w)'
      BY <1>6, <2>2, <3>2, <3>8, <3>9 DEF HoldsLock
    <3> QED BY <1>9, <3>3, <3>10, JournalFrame
  <2>5. CASE mode[w] = "compensate" /\ pc'[w] # "abort"
    <3>0. Goto(w, "check") /\ \E t \in Last(Earlier(w)) : at' = [at EXCEPT ![w] = t]
      BY <1>1, <1>12, <2>1, <2>5 DEF Finish, Goto, TypeOK
    <3>1. PICK t \in Last(Earlier(w)) : at' = [at EXCEPT ![w] = t]
      BY <3>0
    <3>2. /\ pc'[w] = "check" /\ at'[w] = t /\ t \in Earlier(w) /\ t \in Targets(K(w))
          /\ t \in Tables /\ Rank[t] < Rank[at[w]]
      BY <3>0, <3>1, TargetsAreTables DEF Last, Earlier, Goto, TypeOK
    <3>3. LocalOK(w)'
      BY <3>2 DEF LocalOK, Building
    <3>4. \A u \in Earlier(w)' : u \in Earlier(w)
      <4> SUFFICES ASSUME NEW u \in Targets(K(w)), Rank[u] < Rank[t]
                   PROVE  Rank[u] < Rank[at[w]]
        BY <3>2 DEF Earlier, K
      <4>1. u \in Tables
        BY TargetsAreTables
      <4> QED BY <1>3, <3>2, <4>1, RankIsOrder
    <3>5. \A u \in Earlier(w) : StatusOf(ExecOf[w], u)' = "published"
      <4>1. \A u \in Earlier(w) : u \in Targets(K(w)) /\ u # at[w]
        BY <1>3, TargetsAreTables, RankIsOrder DEF Earlier
      <4> QED BY <1>2, <1>10, <4>1 DEF InGroup
    <3>6. RowOf(w)'.status = "published"
      BY <3>2, <3>5 DEF RowOf, Own, StatusOf
    <3>7. InGroup(w)'
      BY <1>1, <2>5, <3>2, <3>4, <3>5, <3>6 DEF InGroup, K
    <3>8. OnPlan(w)'
      BY <1>1, <1>2, <2>5, <3>2 DEF OnPlan, K, Building
    <3>9. HoldsLock(w)'
      BY <1>6, <2>2, <3>2, <3>7, <3>8 DEF HoldsLock
    <3> QED BY <1>9, <3>3, <3>9, JournalFrame
  <2> QED BY <1>3, <2>3, <2>4, <2>5 DEF Modes
<1> QED BY <1>11, <1>12

\* The steps that are no attempt's: a plan is pinned, a command lands late, a stranger writes.
LEMMA OutsideJournal ==
  ASSUME TypeOK, JournalInd,
         \/ \E e \in Execs : PinPlan(e)
         \/ LateCommand \/ ExternalWrite \/ UNCHANGED vars
  PROVE  JournalInd'
<1>1. UNCHANGED <<part, journal, lock, pc, mode, at, owned>>
  BY DEF PinPlan, LateCommand, ExternalWrite, vars, wkVars
<1>2. \A e \in Execs : plan[e] # NoPlan => plan'[e] = plan[e]
  BY DEF PinPlan, LateCommand, ExternalWrite, vars, TypeOK
<1>3. SingleUnresolved'
  BY <1>1 DEF JournalInd, SingleUnresolved
<1>4. RecoveryOnPlan'
  BY <1>1, <1>2 DEF JournalInd, RecoveryOnPlan, Position
<1>5. \A w \in Workers : LocalOK(w)'
  BY <1>1 DEF JournalInd, LocalOK, Earlier, K
<1>6. ASSUME NEW w \in Workers, lock' = w PROVE HoldsLock(w)'
  <2>1. HoldsLock(w) /\ ExecOf[w] \in Execs
    BY <1>1, <1>6, ConstantAssumption DEF JournalInd
  <2>2. /\ K(w)' = K(w) /\ Earlier(w)' = Earlier(w) /\ Later(w)' = Later(w)
        /\ RowOf(w)' = RowOf(w)
    BY <1>1 DEF K, Earlier, Later, RowOf, Own
  <2>3. InGroup(w) => InGroup(w)'
    BY <1>1, <2>2 DEF InGroup, StatusOf, Inflight
  <2>4. OnPlan(w)'
    BY <1>1, <1>2, <2>1, <2>2 DEF HoldsLock, OnPlan, Position
  <2> QED BY <1>1, <2>1, <2>3, <2>4 DEF HoldsLock
<1> QED BY <1>3, <1>4, <1>5, <1>6 DEF JournalInd

\* Nobody holds the lock and no row exists when the system starts.
LEMMA InitJournal == Init => JournalInd
<1> SUFFICES ASSUME Init PROVE JournalInd
  OBVIOUS
<1>1. \A r \in Rows : journal[r].status = "none"
  BY DEF Init, NoRow
<1>2. SingleUnresolved /\ RecoveryOnPlan
  BY <1>1 DEF SingleUnresolved, RecoveryOnPlan, Unresolved, Rows
<1>3. \A w \in Workers : pc[w] = "idle" /\ mode[w] = "publish" /\ lock # w
  BY ConstantAssumption DEF Init
<1> QED BY <1>2, <1>3 DEF JournalInd, LocalOK

\* Every step of every process keeps the journal's invariant.
LEMMA NextJournal == TypeOK /\ JournalInd /\ [Next]_vars => JournalInd'
<1> SUFFICES ASSUME TypeOK, JournalInd, [Next]_vars PROVE JournalInd'
  OBVIOUS
<1>1. ASSUME NEW w \in Workers, Step(w) \/ SessionLost(w) \/ Crash(w) PROVE JournalInd'
  BY <1>1, AcquireJournal, QuietJournal, JournalJournal, PreflightJournal, BeginJournal,
     FinishJournal, ResolveJournal DEF Step
<1>2. CASE ~ \E w \in Workers : Step(w) \/ SessionLost(w) \/ Crash(w)
  BY <1>2, OutsideJournal DEF Next
<1> QED BY <1>1, <1>2

\* What the holder of the lock relies on is what the guards of its next publication ask for.
LEMMA JournalHolds == JournalInd => JournalInv
<1> SUFFICES ASSUME JournalInd PROVE JournalInv
  OBVIOUS
<1>1. ASSUME NEW w \in Workers, pc[w] \in {"check", "begin"}, lock = w
      PROVE  /\ RowOf(w).status = IF mode[w] = "publish" THEN "prepared" ELSE "published"
             /\ part \in owned[w]
  BY <1>1 DEF JournalInd, HoldsLock, InGroup, Sending
<1> QED BY <1>1 DEF JournalInd, JournalInv, OwnRowExpected, AttemptsAreSound, HolderIsSound

\* However the attempts of one execution, their retries, rivals, crashes, lost sessions and
\* writers outside the platform interleave, the unresolved rows of the journal all belong to
\* one execution, and the holder of the session lock finds its own row in the state that
\* publish_partition and compensate_partition demand ("no longer prepared; do not retry it",
\* "requires an owned, known-published state").
THEOREM JournalIsSound == Spec => []JournalInv
<1>1. Init => TypeOK /\ JournalInd
  BY InitTypeOK, InitJournal
<1>2. (TypeOK /\ JournalInd) /\ [Next]_vars => (TypeOK /\ JournalInd)'
  BY NextTypeOK, NextJournal
<1>3. JournalInd => JournalInv
  BY JournalHolds
<1> QED BY <1>1, <1>2, <1>3, PTL DEF Spec

\* A recovery publishes on top of exactly the revision its plan pinned, member by member with
\* no revision of another writer in between, although create_plan read it without the lock.
THEOREM RecoveryPublishesOnPlan == Spec => []RecoveryOnPlan
<1>1. Init => TypeOK /\ JournalInd
  BY InitTypeOK, InitJournal
<1>2. (TypeOK /\ JournalInd) /\ [Next]_vars => (TypeOK /\ JournalInd)'
  BY NextTypeOK, NextJournal
<1>3. JournalInd => RecoveryOnPlan
  BY DEF JournalInd
<1> QED BY <1>1, <1>2, <1>3, PTL DEF Spec

----------------------------------------------------------------------------
(* The contents of a published group.                                      *)
(*                                                                         *)
(* What an attempt put into its stages is never overwritten, and while it  *)
(* holds the session lock nobody else settles a table: so the mart it      *)
(* publishes last was built from the raw input that is settled by then.    *)

\* What a derived build of the holder reads: its own raw stage, or the settled raw input.
BuildInput(w) == IF "raw" \in Targets(K(w)) THEN stage[<<ExecOf[w], "raw">>] ELSE settled["raw"]

\* The attempt is past the step that fills both derived stages.
DerivedStaged(w) ==
  \/ pc[w] \in {"backup", "journal"} /\ at[w] # "raw"
  \/ pc[w] \in {"validate", "preflight"} \cup Sending

\* What a holder of the session lock that will publish a mart has built and journaled.
MartHolder(w) ==
  /\ pc[w] = "stage" /\ at[w] # "raw" => BuildInput(w) # Absent
  /\ DerivedStaged(w) => /\ BuildInput(w) # Absent
                         /\ stage[<<ExecOf[w], "stg">>] = BuildInput(w)
                         /\ stage[<<ExecOf[w], "fct">>] = BuildInput(w)
  /\ pc[w] \in Sending =>
       \A t \in Targets(K(w)) : journal[<<ExecOf[w], t>>].staged = stage[<<ExecOf[w], t>>]
  /\ pc[w] \in Sending /\ mode[w] = "publish" =>
       \A t \in Earlier(w) : settled[t] = stage[<<ExecOf[w], t>>]

\* Nothing is uncertain while an attempt builds, and what it is about to replace is what its
\* row remembers.
BuildsOnSettled(w) ==
  /\ pc[w] \in Building => \A r \in Rows : journal[r].status \notin Uncertain
  /\ pc[w] = "begin" /\ mode[w] = "publish" => live[at[w]] = RowOf(w).before

\* A published mart is settled in all three layers alike.
MartAgrees ==
  (\E e \in Execs : part.watermark = <<<<e, "fct">>, "published">>)
    => settled["raw"] = settled["stg"] /\ settled["stg"] = settled["fct"]

\* What the holder of the session lock knows about the contents of the tables.
HoldsContent(w) == BuildsOnSettled(w) /\ ("fct" \in Targets(K(w)) => MartHolder(w))

ContentInd == MartAgrees /\ \A w \in Workers : lock = w => HoldsContent(w)

\* What all those arguments assume of the step they look at.
Background == ~ExternalWriters /\ TypeOK /\ SafetyInv /\ JournalInd

\* CREATE TABLE fails where an earlier attempt staged: a filled stage keeps its content.
LEMMA StagesKept ==
  ASSUME TypeOK, [Next]_vars
  PROVE  \A r \in Rows : stage[r] # Absent => stage'[r] = stage[r]
<1>1. CASE stage' = stage
  BY <1>1
<1>2. CASE stage' # stage
  <2>1. PICK w \in Workers : Fresh(w) /\ \E c : FillStage(w, c)
    <3>1. \E w \in Workers : Stage(w) \/ StageFails(w)
      BY <1>2 DEF Next, Step, Acquire, Refused, Backup, Journal, JournalUnacked,
         InsertPrepared, Validate, Preflight, Check, Begin, BeginUnacked, CommitInflight,
         Command, CommandUncertain, Verify, Finish, FinishUnacked, CommitFinish, FinishFails,
         Mark, Fail, Abort, SessionLost, Crash, PinPlan, LateCommand, ExternalWrite, vars,
         ghVars
    <3> QED BY <3>1 DEF Stage, StageFails
  <2> QED BY <2>1 DEF FillStage, Fresh, Rows
<1> QED BY <1>1, <1>2

\* Only the holder of the session lock writes the journal or settles a table.
LEMMA HolderWrites ==
  ASSUME TypeOK, NEW w \in Workers, Step(w) \/ SessionLost(w) \/ Crash(w), lock # w
  PROVE  (UNCHANGED <<journal, settled>>) /\ (~Acquire(w) => lock' \in {lock, NoWorker})
BY DEF Step, Acquire, Refused, Stage, StageFails, Backup, Journal, JournalUnacked,
   InsertPrepared, Validate, Preflight, Check, Begin, BeginUnacked, CommitInflight, Command,
   CommandUncertain, Verify, Finish, FinishUnacked, CommitFinish, FinishFails, Mark, Fail,
   Abort, SessionLost, Crash, Leave, Close, ghVars

\* A step of one worker moves no other.
LEMMA OthersStay ==
  ASSUME TypeOK, NEW w \in Workers, Step(w) \/ SessionLost(w) \/ Crash(w)
  PROVE  \A v \in Workers \ {w} : pc'[v] = pc[v] /\ at'[v] = at[v] /\ mode'[v] = mode[v]
<1>1. CASE \/ Acquire(w) \/ Refused(w) \/ Stage(w) \/ StageFails(w) \/ Backup(w) \/ Journal(w)
           \/ JournalUnacked(w) \/ Validate(w) \/ Preflight(w) \/ Check(w)
  BY <1>1 DEF Acquire, Refused, Stage, StageFails, Backup, Journal, JournalUnacked,
     InsertPrepared, Validate, Preflight, Check, Goto, Leave, TypeOK
<1>2. CASE \/ Begin(w) \/ BeginUnacked(w) \/ Command(w) \/ CommandUncertain(w) \/ Verify(w)
           \/ Fail(w)
  BY <1>2 DEF Begin, BeginUnacked, CommitInflight, Command, CommandUncertain, Verify, Fail,
     Recover, Goto, TypeOK
<1>3. CASE \/ Finish(w) \/ FinishUnacked(w) \/ FinishFails(w) \/ Mark(w) \/ Abort(w)
           \/ SessionLost(w) \/ Crash(w)
  BY <1>3 DEF Finish, FinishUnacked, CommitFinish, FinishFails, Mark, Abort, SessionLost, Crash,
     Leave, Goto, wkVars, TypeOK
<1> QED BY <1>1, <1>2, <1>3 DEF Step

\* Before the holder begins to publish, nothing reaches a live table.
LEMMA LiveStays ==
  ASSUME Background, NEW w \in Workers, lock = w, pc[w] = "begin", [Next]_vars
  PROVE  live' = live
<1>1. late = {} /\ \A v \in Workers : pc[v] # "command"
  BY Alone DEF Background, Mutating
<1> QED BY <1>1 DEF Background, Next, Step, Acquire, Refused, Stage, StageFails, Backup,
     Journal, JournalUnacked, InsertPrepared, Validate, Preflight, Check, Begin, BeginUnacked,
     CommitInflight, Command, CommandUncertain, Verify, Finish, FinishUnacked, CommitFinish,
     FinishFails, Mark, Fail, Abort, SessionLost, Crash, PinPlan, LateCommand, ExternalWrite,
     vars, ghVars

\* A step that neither fills a stage of its own nor settles a table, and leads no further
\* than the attempt already was.
LEMMA HolderKeeps ==
  ASSUME TypeOK, NEW w \in Workers, HoldsContent(w), settled' = settled,
         \A r \in Rows : stage[r] # Absent => stage'[r] = stage[r],
         \A r \in Rows : journal'[r].staged = journal[r].staged,
         pc'[w] \in Building => pc[w] \in Building /\ journal' = journal,
         pc'[w] = "stage" => pc[w] = "stage" /\ at'[w] = at[w],
         DerivedStaged(w)' => DerivedStaged(w),
         pc'[w] \in Sending => pc[w] \in Sending,
         pc'[w] \in Sending /\ mode'[w] = "publish" => mode[w] = "publish" /\ at'[w] = at[w],
         pc'[w] = "begin" /\ mode'[w] = "publish" => live'[at[w]] = RowOf(w)'.before
  PROVE  HoldsContent(w)'
<1>1. BuildsOnSettled(w)'
  BY DEF HoldsContent, BuildsOnSettled, Sending
<1>2. ASSUME "fct" \in Targets(K(w)) PROVE MartHolder(w)'
  <2>1. MartHolder(w)
    BY <1>2 DEF HoldsContent
  <2>2. ExecOf[w] \in Execs /\ \A t \in Tables : <<ExecOf[w], t>> \in Rows
    BY ConstantAssumption DEF Rows
  <2>3. K(w)' = K(w) /\ settled["raw"] # Absent
    BY ConstantAssumption DEF K, TypeOK, Contents, Tables
  <2>4. BuildInput(w) # Absent => BuildInput(w)' = BuildInput(w)
    BY <2>2, <2>3 DEF BuildInput, Tables
  <2>5. pc'[w] = "stage" /\ at'[w] # "raw" => BuildInput(w)' # Absent
    BY <2>1, <2>4 DEF MartHolder
  <2>6. DerivedStaged(w)' => /\ BuildInput(w)' # Absent
                             /\ stage'[<<ExecOf[w], "stg">>] = BuildInput(w)'
                             /\ stage'[<<ExecOf[w], "fct">>] = BuildInput(w)'
    BY <2>1, <2>2, <2>4 DEF MartHolder, Tables
  <2>7. ASSUME pc'[w] \in Sending, NEW t \in Targets(K(w))
        PROVE  journal'[<<ExecOf[w], t>>].staged = stage'[<<ExecOf[w], t>>]
    <3>1. <<ExecOf[w], t>> \in Rows
      BY <2>2, TargetsAreTables
    <3>2. journal[<<ExecOf[w], t>>].staged = stage[<<ExecOf[w], t>>]
      BY <2>1, <2>7 DEF MartHolder
    <3>3. journal[<<ExecOf[w], t>>].staged # Absent
      BY <3>1, ConstantAssumption DEF TypeOK, Row, Contents
    <3> QED BY <3>1, <3>2, <3>3
  <2>8. ASSUME pc'[w] \in Sending, mode'[w] = "publish", NEW t \in Earlier(w)'
        PROVE  settled'[t] = stage'[<<ExecOf[w], t>>]
    <3>1. t \in Earlier(w) /\ t \in Tables /\ <<ExecOf[w], t>> \in Rows
      BY <2>2, <2>8, TargetsAreTables DEF Earlier, K
    <3>2. settled[t] = stage[<<ExecOf[w], t>>]
      BY <2>1, <2>8, <3>1 DEF MartHolder
    <3>3. settled[t] # Absent
      BY <3>1, ConstantAssumption DEF TypeOK, Contents
    <3> QED BY <3>1, <3>2, <3>3
  <2> QED BY <2>3, <2>5, <2>6, <2>7, <2>8 DEF MartHolder
<1> QED BY <1>1, <1>2 DEF HoldsContent, K

\* It is enough to look at the worker that moves.
LEMMA ContentFrame ==
  ASSUME Background, ContentInd, NEW w \in Workers, Step(w) \/ SessionLost(w) \/ Crash(w),
         MartAgrees', lock' = w => HoldsContent(w)'
  PROVE  ContentInd'
<1> SUFFICES ASSUME NEW v \in Workers, v # w, lock' = v PROVE HoldsContent(v)'
  BY DEF ContentInd
<1>1. lock = v /\ UNCHANGED <<journal, settled>>
  <2>1. CASE lock = w
    <3>1. lock' \in {w, NoWorker}
      BY <2>1, ConstantAssumption DEF Background, Step, Acquire, Refused, Stage, StageFails,
         Backup, Journal, JournalUnacked, Validate, Preflight, Check, Begin, BeginUnacked,
         Command, CommandUncertain, Verify, Finish, FinishUnacked, FinishFails, Mark, Fail,
         Abort, SessionLost, Crash, Leave, Close
    <3> QED BY <3>1, ConstantAssumption
  <2>2. CASE lock # w
    BY <2>2, HolderWrites, ConstantAssumption DEF Background, Acquire
  <2> QED BY <2>1, <2>2
<1>2. pc'[v] = pc[v] /\ at'[v] = at[v] /\ mode'[v] = mode[v]
  BY OthersStay DEF Background
<1>3. [Next]_vars
  BY DEF Next
<1>4. HoldsContent(v) /\ \A r \in Rows : stage[r] # Absent => stage'[r] = stage[r]
  BY <1>1, <1>3, StagesKept DEF ContentInd, Background
<1>5. pc'[v] = "begin" /\ mode'[v] = "publish" => live'[at[v]] = RowOf(v)'.before
  <2> SUFFICES ASSUME pc[v] = "begin", mode[v] = "publish"
               PROVE  live'[at[v]] = RowOf(v)'.before
    BY <1>2
  <2>1. live' = live
    BY <1>1, <1>3, LiveStays
  <2>2. live[at[v]] = RowOf(v).before
    BY <1>4 DEF HoldsContent, BuildsOnSettled
  <2> QED BY <1>1, <1>2, <2>1, <2>2 DEF RowOf, Own
<1>6. DerivedStaged(v)' => DerivedStaged(v)
  BY <1>2 DEF DerivedStaged
<1>7. TypeOK
  BY DEF Background
<1> QED BY <1>1, <1>2, <1>4, <1>5, <1>6, <1>7, HolderKeeps

\* Only a finished publication moves the revision or settles a table.
LEMMA MartsStay ==
  ASSUME ContentInd, UNCHANGED <<part, settled>>
  PROVE  MartAgrees'
BY DEF ContentInd, MartAgrees

\* A new holder has built nothing, and nothing is uncertain.
LEMMA AcquireContent ==
  ASSUME Background, ContentInd, NEW w \in Workers, Acquire(w)
  PROVE  ContentInd'
<1>1. /\ pc'[w] \in {"validate", "stage"} /\ UNCHANGED <<journal, part, settled, stage>>
      /\ \A r \in Rows : journal[r].status \notin Uncertain
  BY DEF Background, Acquire, NothingUnresolved, Unresolved, Uncertain, Goto, TypeOK, ghVars
<1>2. BuildsOnSettled(w)'
  BY <1>1 DEF BuildsOnSettled
<1>3. ASSUME "fct" \in Targets(K(w)) PROVE MartHolder(w)'
  <2>1. PICK t \in First(Targets(K(w))) : at' = [at EXCEPT ![w] = t] /\ pc'[w] = "stage"
    BY <1>3 DEF Background, Acquire, Goto, TypeOK
  <2>2. at'[w] = t /\ t \in Tables /\ \A u \in Targets(K(w)) : Rank[t] <= Rank[u]
    BY <2>1, TargetsAreTables DEF Background, TypeOK, First
  <2>3. t # "raw" => "raw" \notin Targets(K(w))
    BY <2>2, LayerRanks DEF Tables
  <2>4. settled["raw"] # Absent
    BY ConstantAssumption DEF Background, TypeOK, Contents, Tables
  <2>5. at'[w] # "raw" => BuildInput(w)' # Absent
    BY <1>1, <2>2, <2>3, <2>4 DEF BuildInput, K
  <2> QED BY <2>1, <2>5 DEF MartHolder, DerivedStaged, Sending
<1>4. MartAgrees'
  BY <1>1, MartsStay
<1> QED BY <1>2, <1>3, <1>4, ContentFrame DEF HoldsContent, K, Step

\* Both derived stages are filled from the same raw input, which is the settled one.
LEMMA StageContent ==
  ASSUME Background, ContentInd, NEW w \in Workers, Stage(w)
  PROVE  ContentInd'
<1>1. /\ pc[w] = "stage" /\ pc'[w] = "backup"
      /\ UNCHANGED <<live, journal, part, settled, lock, mode, at>>
  BY DEF Background, Stage, Goto, TypeOK
<1>2. MartAgrees'
  BY <1>1, MartsStay
<1>3. ASSUME lock' = w PROVE HoldsContent(w)'
  <2>1. HoldsContent(w) /\ \A r \in Rows : journal[r].status \notin Uncertain
    BY <1>1, <1>3 DEF ContentInd, HoldsContent, BuildsOnSettled, Building
  <2>2. BuildsOnSettled(w)'
    BY <1>1, <2>1 DEF BuildsOnSettled
  <2>3. ASSUME "fct" \in Targets(K(w)), at[w] # "raw" PROVE MartHolder(w)'
    <3>1. MartHolder(w) /\ ExecOf[w] \in Execs /\ \A t \in Tables : <<ExecOf[w], t>> \in Rows
      BY <2>1, <2>3, ConstantAssumption DEF HoldsContent, Rows
    <3>2. PICK c \in Built(w) : FillStage(w, c)
      BY DEF Stage
    <3>3. c = RawInput(w)
      BY <2>3, <3>2 DEF Built
    <3>4. "raw" \notin Targets(K(w)) => live["raw"] = settled["raw"]
      BY <2>1, <3>1 DEF Background, SafetyInv, SettledLive, Tables, Rows
    <3>5. c = BuildInput(w) /\ BuildInput(w) # Absent
      BY <1>1, <2>3, <3>1, <3>3, <3>4 DEF RawInput, BuildInput, MartHolder
    <3>6. {"stg", "fct"} \subseteq StagedTogether(w) /\ "raw" \notin StagedTogether(w)
      BY <2>3, LayerRanks DEF StagedTogether
    <3>7. /\ stage'[<<ExecOf[w], "stg">>] = c /\ stage'[<<ExecOf[w], "fct">>] = c
          /\ stage'[<<ExecOf[w], "raw">>] = stage[<<ExecOf[w], "raw">>]
      BY <3>1, <3>2, <3>6 DEF FillStage, Tables
    <3>8. BuildInput(w)' = BuildInput(w)
      BY <1>1, <3>7 DEF BuildInput, K
    <3> QED BY <1>1, <3>5, <3>7, <3>8 DEF MartHolder, Sending
  <2>4. at[w] = "raw" => MartHolder(w)'
    BY <1>1 DEF MartHolder, DerivedStaged, Sending
  <2> QED BY <2>2, <2>3, <2>4 DEF HoldsContent, K
<1> QED BY <1>2, <1>3, ContentFrame DEF Step

\* The steps that neither stage, prepare nor settle anything.
LEMMA QuietContent ==
  ASSUME Background, ContentInd, NEW w \in Workers,
         \/ Refused(w) \/ StageFails(w) \/ Backup(w) \/ JournalUnacked(w) \/ Validate(w)
         \/ Check(w) \/ Begin(w) \/ BeginUnacked(w) \/ Command(w) \/ CommandUncertain(w)
         \/ Verify(w) \/ FinishFails(w) \/ Mark(w) \/ Fail(w) \/ Abort(w) \/ SessionLost(w)
         \/ Crash(w)
  PROVE  ContentInd'
<1>1. Step(w) \/ SessionLost(w) \/ Crash(w)
  BY DEF Step
<1>2. UNCHANGED <<part, settled>>
  BY DEF Refused, StageFails, Backup, JournalUnacked, InsertPrepared, Validate, Check, Begin,
     BeginUnacked, CommitInflight, Command, CommandUncertain, Verify, FinishFails, Mark, Fail,
     Abort, SessionLost, Crash, ghVars
<1>3. MartAgrees'
  BY <1>2, MartsStay
<1>4. CASE lock' # w
  BY <1>1, <1>3, <1>4, ContentFrame
<1>5. CASE lock' = w
  <2>1. lock = w /\ ~JournalUnacked(w) /\ ~SessionLost(w) /\ ~BeginUnacked(w)
    BY <1>5, ConstantAssumption DEF Refused, StageFails, Backup, JournalUnacked, Validate,
       Check, Begin, BeginUnacked, CommitInflight, Command, CommandUncertain, Verify,
       FinishFails, Mark, Fail, Abort, SessionLost, Crash, Leave, Close
  <2>2. ~Mark(w) /\ ~Abort(w) /\ ~Crash(w)
    BY <1>5, ConstantAssumption DEF Mark, Abort, Crash, Leave, Close
  <2>3. HoldsContent(w) /\ HoldsLock(w) /\ LocalOK(w) /\ TypeOK
    BY <2>1 DEF ContentInd, Background, JournalInd
  <2>4. \A r \in Rows : stage[r] # Absent => stage'[r] = stage[r]
    BY <1>1, <2>3, StagesKept DEF Next
  <2>5. CASE StageFails(w)
    <3>1. pc'[w] = "abort" /\ journal' = journal
      BY <2>3, <2>5 DEF StageFails, Goto, TypeOK
    <3> QED BY <1>1, <1>2, <1>3, <2>3, <2>4, <3>1, HolderKeeps, ContentFrame
            DEF DerivedStaged, Building, Sending
  <2>6. CASE Validate(w)
    <3>1. /\ pc[w] = "validate" /\ pc'[w] \in {"done", "preflight"} /\ journal' = journal
      BY <2>3, <2>6 DEF Validate, Leave, Goto, TypeOK
    <3> QED BY <1>1, <1>2, <1>3, <2>3, <2>4, <3>1, HolderKeeps, ContentFrame
            DEF DerivedStaged, Building, Sending
  <2>7. CASE Begin(w)
    <3>1. /\ pc[w] = "begin" /\ pc'[w] = "command" /\ UNCHANGED <<at, mode>>
          /\ journal' = [journal EXCEPT ![Own(w)].status = Inflight(mode[w])]
      BY <2>3, <2>7 DEF Begin, CommitInflight, SetStatus, Goto, TypeOK
    <3>2. \A r \in Rows : journal'[r].staged = journal[r].staged
      BY <2>3, <3>1, OwnType DEF TypeOK, Row
    <3> QED BY <1>1, <1>2, <1>3, <2>3, <2>4, <3>1, <3>2, HolderKeeps, ContentFrame
            DEF DerivedStaged, Building, Sending
  <2>8. CASE Check(w)
    <3>1. /\ pc[w] = "check" /\ pc'[w] = "begin" /\ UNCHANGED <<at, mode, live, journal>>
          /\ mode[w] = "publish" => live[at[w]] = RowOf(w).before
      BY <2>3, <2>8 DEF Check, Goto, TypeOK, ghVars
    <3>2. mode[w] = "publish" => live'[at[w]] = RowOf(w)'.before
      BY <3>1 DEF RowOf, Own
    <3> QED BY <1>1, <1>2, <1>3, <2>3, <2>4, <3>1, <3>2, HolderKeeps, ContentFrame
            DEF DerivedStaged, Building, Sending
  <2>9. CASE Fail(w)
    <3>1. /\ journal' = journal
          /\ \/ pc'[w] = "abort"
             \/ pc[w] \in Sending /\ pc'[w] = "check" /\ mode'[w] = "compensate"
      BY <2>3, <2>9 DEF Fail, Recover, Goto, TypeOK, Sending
    <3> QED BY <1>1, <1>2, <1>3, <2>3, <2>4, <3>1, HolderKeeps, ContentFrame
            DEF DerivedStaged, Building, Sending
  <2>10. CASE Refused(w) \/ Backup(w) \/ Command(w) \/ CommandUncertain(w) \/ Verify(w)
              \/ FinishFails(w)
    <3>1. UNCHANGED <<at, mode, journal>>
      BY <2>10 DEF Refused, Backup, Command, CommandUncertain, Verify, FinishFails
    <3>2. \/ pc[w] = "backup" /\ pc'[w] = "journal"
          \/ pc[w] \in Sending /\ pc'[w] \in {"verify", "finish"}
          \/ pc'[w] \in {"mark", "done"}
      BY <2>3, <2>10 DEF Refused, Backup, Command, CommandUncertain, Verify, FinishFails, Goto,
         TypeOK, Sending
    <3> QED BY <1>1, <1>2, <1>3, <2>3, <2>4, <3>1, <3>2, HolderKeeps, ContentFrame
            DEF DerivedStaged, Building, Sending
  <2> QED BY <2>1, <2>2, <2>5, <2>6, <2>7, <2>8, <2>9, <2>10
<1> QED BY <1>4, <1>5

\* A prepared row remembers the stage, and the raw stage is there for the derived build.
LEMMA JournalContent ==
  ASSUME Background, ContentInd, NEW w \in Workers, Journal(w)
  PROVE  ContentInd'
<1>1. /\ pc[w] = "journal" /\ lock = w /\ lock' = w /\ UNCHANGED <<live, stage, part, settled>>
      /\ stage[Own(w)] # Absent /\ mode' = mode
      /\ journal' = [journal EXCEPT ![Own(w)] = PreparedRow(w)]
  BY DEF Journal, InsertPrepared, ghVars
<1>2. TypeOK /\ HoldsContent(w) /\ LocalOK(w) /\ at[w] \in Targets(K(w)) /\ mode[w] = "publish"
  BY <1>1 DEF ContentInd, Background, JournalInd, LocalOK, Building
<1>3. pc'[w] \in {"check", "validate", "stage", "backup"}
  BY <1>2 DEF Journal, Goto, TypeOK
<1>4. BuildsOnSettled(w)'
  <2>1. \A r \in Rows : journal'[r].status \notin Uncertain
    BY <1>1, <1>2 DEF HoldsContent, BuildsOnSettled, Building, PreparedRow, Uncertain, TypeOK
  <2> QED BY <1>3, <2>1 DEF BuildsOnSettled
<1>5. ASSUME "fct" \in Targets(K(w)) PROVE MartHolder(w)'
  <2>1. MartHolder(w) /\ BuildInput(w)' = BuildInput(w) /\ K(w) # "load"
    BY <1>1, <1>2, <1>5 DEF HoldsContent, BuildInput, K, Targets
  <2>2. CASE at[w] = "raw"
    <3>1. Later(w) # {}
      BY <1>5, <2>2, LayerRanks DEF Later
    <3>2. pc'[w] = "stage"
      BY <1>2, <2>2, <3>1 DEF Journal, Goto, TypeOK
    <3>3. BuildInput(w) # Absent
      BY <1>1, <1>2, <2>2 DEF BuildInput, Own
    <3> QED BY <2>1, <3>2, <3>3 DEF MartHolder, DerivedStaged, Sending
  <2>3. CASE at[w] # "raw"
    <3>1. DerivedStaged(w) /\ pc'[w] \in {"validate", "backup"}
      BY <1>1, <1>2, <2>1, <2>3 DEF DerivedStaged, Journal, Goto, TypeOK
    <3> QED BY <1>1, <2>1, <3>1 DEF MartHolder, Sending
  <2> QED BY <2>2, <2>3
<1>6. MartAgrees'
  BY <1>1, MartsStay
<1> QED BY <1>4, <1>5, <1>6, ContentFrame DEF HoldsContent, K, Step

\* The rows of a group whose preparation is checked hold what is in its stages.
LEMMA PreflightContent ==
  ASSUME Background, ContentInd, NEW w \in Workers, Preflight(w)
  PROVE  ContentInd'
<1>1. /\ pc[w] = "preflight" /\ lock = w /\ pc'[w] = "check"
      /\ UNCHANGED <<live, stage, journal, part, settled, mode, at>>
      /\ \A t \in Targets(K(w)) : journal[<<ExecOf[w], t>>].staged = stage[<<ExecOf[w], t>>]
  BY DEF Background, Preflight, CheckPrepared, Goto, TypeOK, ghVars
<1>2. HoldsContent(w) /\ Earlier(w) = {}
  BY <1>1 DEF ContentInd, Background, JournalInd, LocalOK
<1>3. BuildsOnSettled(w)'
  BY <1>1 DEF BuildsOnSettled, Building
<1>4. Earlier(w)' = {} /\ K(w)' = K(w) /\ BuildInput(w)' = BuildInput(w)
  BY <1>1, <1>2 DEF Earlier, K, BuildInput
<1>5. "fct" \in Targets(K(w)) => MartHolder(w)'
  BY <1>1, <1>2, <1>4 DEF HoldsContent, MartHolder, DerivedStaged
<1>6. MartAgrees'
  BY <1>1, MartsStay
<1> QED BY <1>3, <1>4, <1>5, <1>6, ContentFrame DEF HoldsContent, Step

\* A published member settles what its stage holds; the mart is the last of the three.
LEMMA FinishContent ==
  ASSUME Background, ContentInd, NEW w \in Workers, Finish(w) \/ FinishUnacked(w)
  PROVE  ContentInd'
<1>1. /\ pc[w] = "finish" /\ lock = w
      /\ part' = [revision |-> part.revision + 1,
                  watermark |-> <<Own(w), Settles(mode[w])>>]
      /\ journal' = [journal EXCEPT ![Own(w)] = FinishedRow(w)]
      /\ settled' = [settled EXCEPT ![at[w]] = Goal(w)]
      /\ UNCHANGED <<stage, mode>>
  BY DEF Finish, FinishUnacked, CommitFinish, ghVars
<1>2. /\ TypeOK /\ InGroup(w) /\ HoldsContent(w) /\ at[w] \in Targets(K(w))
      /\ Own(w) \in Rows /\ at[w] \in Tables
  BY <1>1, OwnType DEF ContentInd, Background, JournalInd, HoldsLock, InGroup, Sending
<1>3. \A r \in Rows : journal'[r].staged = journal[r].staged
  <2>1. RowOf(w) \in Row /\ RowOf(w) = journal[Own(w)]
    BY <1>2 DEF TypeOK, RowOf
  <2>2. FinishedRow(w).staged = journal[Own(w)].staged
    BY <2>1 DEF FinishedRow, Row
  <2> QED BY <1>1, <1>2, <2>2 DEF TypeOK
<1>4. /\ settled'[at[w]] = Goal(w)
      /\ \A t \in Tables : t # at[w] => settled'[t] = settled[t]
  BY <1>1, <1>2 DEF TypeOK
<1>5. mode[w] = "publish" /\ "fct" \in Targets(K(w)) =>
        settled'[at[w]] = stage[<<ExecOf[w], at[w]>>]
  BY <1>1, <1>2, <1>4 DEF Goal, Source, Own, HoldsContent, MartHolder, Sending
<1>6. mode[w] = "publish" /\ "fct" \in Targets(K(w)) =>
        \A t \in Earlier(w) : settled'[t] = stage[<<ExecOf[w], t>>]
  <2> SUFFICES ASSUME mode[w] = "publish", "fct" \in Targets(K(w)), NEW t \in Earlier(w)
               PROVE  settled'[t] = stage[<<ExecOf[w], t>>]
    OBVIOUS
  <2>1. t \in Tables /\ t # at[w]
    BY <1>2, TargetsAreTables, RankIsOrder DEF Earlier
  <2>2. settled[t] = stage[<<ExecOf[w], t>>]
    BY <1>1, <1>2 DEF HoldsContent, MartHolder, Sending
  <2> QED BY <1>4, <2>1, <2>2
<1>7. "fct" \in Targets(K(w)) => /\ BuildInput(w)' = BuildInput(w) /\ BuildInput(w) # Absent
                                 /\ stage[<<ExecOf[w], "stg">>] = BuildInput(w)
                                 /\ stage[<<ExecOf[w], "fct">>] = BuildInput(w)
  <2>1. "raw" \notin Targets(K(w)) => settled'["raw"] = settled["raw"]
    BY <1>2, <1>4 DEF Tables
  <2> QED BY <1>1, <1>2, <2>1 DEF HoldsContent, MartHolder, DerivedStaged, Sending, BuildInput, K
<1>8. MartAgrees'
  <2> SUFFICES ASSUME NEW e \in Execs, part'.watermark = <<<<e, "fct">>, "published">>
               PROVE  settled'["raw"] = settled'["stg"] /\ settled'["stg"] = settled'["fct"]
    BY DEF MartAgrees
  <2>1. at[w] = "fct" /\ mode[w] = "publish"
    <3>1. <<Own(w), Settles(mode[w])>> = <<<<e, "fct">>, "published">>
      BY <1>1
    <3>2. Own(w) = <<e, "fct">> /\ Settles(mode[w]) = "published"
      BY <3>1
    <3> QED BY <1>2, <3>2 DEF Own, Settles, TypeOK, Modes
  <2>2. "stg" \in Earlier(w) /\ ("raw" \in Targets(K(w)) => "raw" \in Earlier(w))
    BY <1>2, <2>1, LayerRanks DEF Earlier
  <2>3. settled'["fct"] = BuildInput(w) /\ settled'["stg"] = BuildInput(w)
    BY <1>2, <1>5, <1>6, <1>7, <2>1, <2>2
  <2>4. settled'["raw"] = BuildInput(w)
    BY <1>2, <1>4, <1>6, <2>1, <2>2 DEF BuildInput, Tables
  <2> QED BY <2>3, <2>4
<1>9. ASSUME lock' = w PROVE HoldsContent(w)'
  <2>1. Finish(w)
    BY <1>9, ConstantAssumption DEF FinishUnacked
  <2>2. pc'[w] \in {"check", "abort"}
    BY <1>1, <1>2, <1>9, <2>1, ConstantAssumption DEF Finish, Leave, Close, Goto, TypeOK
  <2>3. BuildsOnSettled(w)'
    BY <2>2 DEF BuildsOnSettled, Building
  <2>4. ASSUME "fct" \in Targets(K(w)) PROVE MartHolder(w)'
    <3>1. \A t \in Targets(K(w)) :
            journal'[<<ExecOf[w], t>>].staged = stage'[<<ExecOf[w], t>>]
      <4> TAKE t \in Targets(K(w))
      <4>1. <<ExecOf[w], t>> \in Rows
        BY TargetsAreTables, ConstantAssumption DEF Rows
      <4> QED BY <1>1, <1>2, <1>3, <2>4, <4>1 DEF HoldsContent, MartHolder, Sending
    <3>2. ASSUME pc'[w] = "check", mode[w] = "publish", NEW u \in Earlier(w)'
          PROVE  settled'[u] = stage'[<<ExecOf[w], u>>]
      <4>1. PICK t \in First(Later(w)) : at' = [at EXCEPT ![w] = t]
        BY <1>1, <1>2, <1>9, <2>1, <3>2, ConstantAssumption
           DEF Finish, Leave, Close, Goto, TypeOK
      <4>2. u \in Targets(K(w)) /\ Rank[u] < Rank[t]
        BY <1>2, <3>2, <4>1 DEF Earlier, K, TypeOK
      <4>3. u = at[w] \/ u \in Earlier(w)
        BY <1>2, <4>1, <4>2, NextMember
      <4> QED BY <1>1, <1>5, <1>6, <2>4, <3>2, <4>3
    <3>3. BuildInput(w)' = BuildInput(w) /\ K(w)' = K(w)
      BY <1>7, <2>4 DEF K
    <3> QED BY <1>1, <1>7, <2>2, <2>4, <3>1, <3>2, <3>3 DEF MartHolder, DerivedStaged, Sending
  <2> QED BY <2>3, <2>4 DEF HoldsContent, K
<1> QED BY <1>8, <1>9, ContentFrame DEF Step

\* The steps that are no attempt's.
LEMMA OutsideContent ==
  ASSUME Background, ContentInd,
         (\E e \in Execs : PinPlan(e)) \/ LateCommand \/ ExternalWrite \/ UNCHANGED vars
  PROVE  ContentInd'
<1>1. UNCHANGED <<stage, journal, part, settled, lock, pc, mode, at>>
  BY DEF Background, PinPlan, LateCommand, ExternalWrite, vars, ghVars, wkVars
<1>2. MartAgrees'
  BY <1>1, MartsStay
<1>3. ASSUME NEW w \in Workers, lock' = w PROVE HoldsContent(w)'
  <2>1. HoldsContent(w) /\ [Next]_vars /\ lock = w
    BY <1>1, <1>3 DEF ContentInd, Next
  <2>2. pc[w] = "begin" => live' = live
    BY <2>1, LiveStays
  <2>3. BuildsOnSettled(w)'
    BY <1>1, <2>1, <2>2 DEF HoldsContent, BuildsOnSettled, RowOf, Own
  <2>4. MartHolder(w) => MartHolder(w)'
    BY <1>1 DEF MartHolder, DerivedStaged, BuildInput, Earlier, K
  <2> QED BY <2>1, <2>3, <2>4 DEF HoldsContent, K
<1> QED BY <1>2, <1>3 DEF ContentInd

\* Initially nothing is published and nobody holds the lock.
LEMMA InitContent == Init => ContentInd
<1> SUFFICES ASSUME Init PROVE ContentInd
  OBVIOUS
<1>1. settled["raw"] = settled["stg"] /\ settled["stg"] = settled["fct"]
  BY DEF Init, Tables
<1>2. \A w \in Workers : lock # w
  BY ConstantAssumption DEF Init
<1> QED BY <1>1, <1>2 DEF ContentInd, MartAgrees

\* Without writers that bypass the platform, every step keeps the invariant.
LEMMA NextContent ==
  ASSUME Background, ContentInd, [Next]_vars
  PROVE  ContentInd'
<1>1. ASSUME NEW w \in Workers, Step(w) \/ SessionLost(w) \/ Crash(w) PROVE ContentInd'
  BY <1>1, AcquireContent, StageContent, QuietContent, JournalContent, PreflightContent,
     FinishContent DEF Step
<1>2. CASE ~ \E w \in Workers : Step(w) \/ SessionLost(w) \/ Crash(w)
  BY <1>2, OutsideContent DEF Next
<1> QED BY <1>1, <1>2

\* All the invariants of a protocol that nobody bypasses.
LEMMA ContentIsInvariant ==
  ~ExternalWriters => (Spec => [](Background /\ ContentInd))
<1> SUFFICES ASSUME ~ExternalWriters PROVE Spec => [](Background /\ ContentInd)
  OBVIOUS
<1>1. Init => Background /\ ContentInd
  BY InitTypeOK, InitSafety, InitJournal, InitContent DEF Background
<1>2. (Background /\ ContentInd) /\ [Next]_vars => (Background /\ ContentInd)'
  BY NextTypeOK, NextSafety, NextJournal, NextContent DEF Background
<1> QED BY <1>1, <1>2, PTL DEF Spec

\* Whenever the newest revision is a published mart and nothing is uncertain, the three live
\* layers come from the same raw input: across crashes, lost sessions, retries that share the
\* stages of an execution, late commands and compensations, no mart is published over a raw
\* partition it was not built from.
THEOREM LayersStayTogether == ~ExternalWriters => (Spec => []LayersAgree)
<1> SUFFICES ASSUME ~ExternalWriters PROVE Spec => []LayersAgree
  OBVIOUS
<1>1. Spec => [](Background /\ ContentInd)
  BY ContentIsInvariant
<1>2. Background /\ ContentInd => LayersAgree
  <2> SUFFICES ASSUME Background, ContentInd, \A r \in Rows : journal[r].status \notin Uncertain,
                      NEW e \in Execs, part.watermark = <<<<e, "fct">>, "published">>
               PROVE  live["raw"] = live["stg"] /\ live["stg"] = live["fct"]
    BY DEF LayersAgree
  <2>1. settled["raw"] = settled["stg"] /\ settled["stg"] = settled["fct"]
    BY DEF ContentInd, MartAgrees
  <2>2. \A t \in Tables : live[t] = settled[t]
    BY DEF Background, SafetyInv, SettledLive, Rows
  <2> QED BY <2>1, <2>2 DEF Tables
<1> QED BY <1>1, <1>2, PTL

\* At the moment a publication goes in flight, the content its row would restore is the one that
\* was settled before: a later compensation puts back what the group found, not what a rival,
\* a late command or an earlier attempt left on the way.
THEOREM CompensationIsSound == ~ExternalWriters => (Spec => CompensationRestores)
<1> SUFFICES ASSUME ~ExternalWriters PROVE Spec => CompensationRestores
  OBVIOUS
<1> DEFINE Restores == \A r \in Rows :
             (journal[r].status = "prepared" /\ journal'[r].status = "publishing")
                => journal[r].before = settled[r[2]]
<1>1. Spec => [](Background /\ ContentInd)
  BY ContentIsInvariant
<1>2. Background /\ ContentInd /\ [Next]_vars => [Restores]_vars
  <2> SUFFICES ASSUME Background, ContentInd, Next, NEW r \in Rows,
                      journal[r].status = "prepared", journal'[r].status = "publishing"
               PROVE  journal[r].before = settled[r[2]]
    BY DEF vars
  <2>0. TypeOK
    BY DEF Background
  <2>1. PICK w \in Workers : Step(w) /\ lock = w
    <3>1. journal' # journal
      OBVIOUS
    <3>2. PICK w \in Workers : Step(w) \/ SessionLost(w) \/ Crash(w)
      BY <3>1 DEF Next, PinPlan, LateCommand, ExternalWrite
    <3>3. lock = w
      BY <2>0, <3>1, <3>2, HolderWrites
    <3> QED BY <3>1, <3>2, <3>3 DEF SessionLost, Crash
  <2>2. HoldsContent(w) /\ Own(w) \in Rows /\ at[w] \in Tables
    BY <2>0, <2>1, OwnType DEF ContentInd
  <2>3. pc[w] = "begin" /\ mode[w] = "publish" /\ r = Own(w)
    <3>1. CASE Begin(w) \/ BeginUnacked(w)
      <4>1. pc[w] = "begin" /\ journal' = [journal EXCEPT ![Own(w)].status = Inflight(mode[w])]
        BY <3>1 DEF Begin, BeginUnacked, CommitInflight, SetStatus
      <4>2. r = Own(w) /\ Inflight(mode[w]) = "publishing"
        BY <2>0, <2>2, <4>1 DEF TypeOK, Row
      <4> QED BY <4>1, <4>2 DEF Inflight
    <3>2. CASE Journal(w) \/ JournalUnacked(w)
      BY <2>0, <2>2, <3>2 DEF Journal, JournalUnacked, InsertPrepared, PreparedRow, TypeOK
    <3>3. CASE Finish(w) \/ FinishUnacked(w)
      <4>1. journal' = [journal EXCEPT ![Own(w)] = FinishedRow(w)]
        BY <3>3 DEF Finish, FinishUnacked, CommitFinish
      <4>2. RowOf(w) \in Row
        BY <2>0, <2>2 DEF TypeOK, RowOf
      <4>3. FinishedRow(w).status # "publishing"
        BY <4>2 DEF FinishedRow, Row, Settles
      <4> QED BY <2>0, <2>2, <4>1, <4>3 DEF TypeOK
    <3>4. CASE Mark(w)
      <4>1. \/ journal' = journal
            \/ journal' = [journal EXCEPT ![Own(w)].status = "unknown"]
        BY <3>4 DEF Mark, SetStatus
      <4> QED BY <2>0, <2>2, <4>1 DEF TypeOK, Row
    <3>5. CASE Abort(w)
      <4>1. journal'[r] = journal[r] \/ journal'[r] = [journal[r] EXCEPT !.status = "aborted"]
        BY <3>5 DEF Abort
      <4> QED BY <2>0, <4>1 DEF TypeOK, Row
    <3>6. journal' = journal \/ Begin(w) \/ BeginUnacked(w) \/ Journal(w) \/ JournalUnacked(w)
          \/ Finish(w) \/ FinishUnacked(w) \/ Mark(w) \/ Abort(w)
      BY <2>1 DEF Step, Acquire, Refused, Stage, StageFails, Backup, Validate, Preflight, Check,
         Command, CommandUncertain, Verify, FinishFails, Fail
    <3> QED BY <3>1, <3>2, <3>3, <3>4, <3>5, <3>6
  <2>4. live[at[w]] = journal[r].before /\ r = <<ExecOf[w], at[w]>>
    BY <2>2, <2>3 DEF HoldsContent, BuildsOnSettled, RowOf, Own
  <2>5. ASSUME NEW e \in Execs PROVE journal[<<e, at[w]>>].status \notin Uncertain
    <3>1. <<e, at[w]>> \in Rows
      BY <2>2 DEF Rows
    <3>2. journal[<<e, at[w]>>].status \in Unresolved => e = ExecOf[w]
      BY <2>4, <3>1 DEF Background, JournalInd, SingleUnresolved, Unresolved
    <3> QED BY <2>4, <3>2 DEF Unresolved, Uncertain
  <2>6. live[at[w]] = settled[at[w]]
    BY <2>2, <2>5 DEF Background, SafetyInv, SettledLive
  <2> QED BY <2>4, <2>6
<1> QED BY <1>1, <1>2, PTL DEF Spec, CompensationRestores

=============================================================================
