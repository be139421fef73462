------------------------------ MODULE MCDiscord ------------------------------
(* The two users of Discord that never repeat a POST, DiscordWorkspace and       *)
(* RecoveryOutbox.  They share no state: each behaviour is one of either.        *)
EXTENDS DiscordWorkspace, RecoveryOutbox
CONSTANTS t1, t2, q1, q2, f1, f2

VARIABLE part     \* whose behaviour this is

DiscordInit == Init /\ OutboxInit /\ part \in {"workspace", "outbox"}

DiscordNext ==
  /\ UNCHANGED part
  /\ \/ part = "workspace" /\ Next /\ UNCHANGED outboxVars
     \/ part = "outbox" /\ OutboxNext /\ UNCHANGED vars

DiscordSpec ==
  DiscordInit /\ [][DiscordNext]_<<vars, outboxVars, part>> /\ OutboxFairness
=============================================================================
