-------------------------- MODULE SingleUseRequests --------------------------
(* The two implementations of SingleUseApproval: approved actions and backfills *)
(* (ApprovalControl), and recovery plans (RecoveryControl).  A request is of    *)
(* one of the two and they share no state, so each behaviour is one of either.  *)
EXTENDS ApprovalControl

CONSTANTS Plans, Jobs, Contents, Detached, MayClear, ApiMayCrash, MaxWrites, MaxIncident

ASSUME RecoveryAssumption ==
  /\ Nobody \notin Plans
  /\ Contents # {}
  /\ Detached \in BOOLEAN /\ MayClear \in BOOLEAN /\ ApiMayCrash \in BOOLEAN
  /\ MaxWrites \in Nat /\ MaxIncident \in Nat \ {0}

VARIABLES incident, warehouse, revision, draft, approval, exe, api, run, job, pub,
          reconciler, writes, mutations, apart
VARIABLE part     \* whose behaviour this is

recoveryVars == <<incident, warehouse, revision, draft, approval, exe, api, run, job, pub,
                  reconciler, writes, mutations, apart>>

Recovery == INSTANCE RecoveryControl WITH rec <- reconciler

\* The other half of the state stays what it was: one of its initial values is enough.
RequestsInit ==
  /\ Init /\ Recovery!Init
  /\ part = "recovery" \/ (part = "actions" /\ warehouse = CHOOSE c \in Contents : TRUE)

RequestsNext ==
  /\ UNCHANGED part
  /\ \/ part = "actions" /\ Next /\ UNCHANGED recoveryVars
     \/ part = "recovery" /\ Recovery!Next /\ UNCHANGED vars

\* A part that never starts has none of its fair actions enabled.
RequestsSpec ==
  /\ RequestsInit /\ [][RequestsNext]_<<vars, recoveryVars, part>>
  /\ Fairness /\ Recovery!Fairness

\* What an approval reports is what happened (ApprovalControl); a recovery succeeds only with
\* its publication, its execution and its approval report the same final outcome, an uncertain
\* publication keeps its incident open, and one process at a time works on a plan, unless it
\* came apart from its run (RecoveryControl).
OutcomesAreTrue ==
  /\ OutcomeIsTrue
  /\ Recovery!OutcomesAgree /\ Recovery!UncertainBlocksClosure /\ Recovery!OneProcess
\* RecoveryControl: a closed incident's live data is replaced only by a process that came
\* apart from its run and was reported failed.
ClosureIsSafe == [][Recovery!ClosedOrApart]_recoveryVars
\* Whatever claims to be running is settled in the end: an approval whose run exists
\* (ApprovalControl), and a claimed recovery approval (RecoveryControl).
ApprovalsSettle == RunsSettle /\ Recovery!ApprovalSettles
\* RecoveryControl implements SingleUseApproval.
RecoveryImplementsSingleUse == Recovery!ImplementsSingleUse
=============================================================================
