-------------------------- MODULE ExecutionLedger --------------------------
(***************************************************************************)
(* What the trader gateway promises to signal.execute.*, with no delivery, *)
(* retry or restart: an opening execution opens one position, and an       *)
(* execution is finished only once its effect is in the database.          *)
(***************************************************************************)
EXTENDS Naturals

CONSTANTS Opens, Closes, Bad

VARIABLES
  published,  \* executions accepted by the stream
  positions,  \* rows of the positions table per opening execution
  logged,     \* closing executions in trade_log
  finished    \* executions the stream will not deliver again

ledgerVars == <<published, positions, logged, finished>>

Execution == Opens \cup Closes \cup Bad

LedgerInit ==
  /\ published = {}
  /\ positions = [m \in Opens |-> 0]
  /\ logged = {}
  /\ finished = {}

Publish(m) ==
  /\ published' = published \cup {m}
  /\ UNCHANGED <<positions, logged, finished>>

OpenPosition(m) ==
  /\ m \in published \cap Opens
  /\ positions[m] = 0
  /\ positions' = [positions EXCEPT ![m] = 1]
  /\ UNCHANGED <<published, logged, finished>>

LogClosing(m) ==
  /\ m \in published \cap Closes
  /\ logged' = logged \cup {m}
  /\ UNCHANGED <<published, positions, finished>>

Finish(m) ==
  /\ m \in published
  /\ m \in Opens => positions[m] = 1
  /\ m \in Closes => m \in logged
  /\ finished' = finished \cup {m}
  /\ UNCHANGED <<published, positions, logged>>

LedgerNext ==
  \E m \in Execution : Publish(m) \/ OpenPosition(m) \/ LogClosing(m) \/ Finish(m)

LedgerSpec == LedgerInit /\ [][LedgerNext]_ledgerVars
=============================================================================
