--------------------------- MODULE TraderGateway ---------------------------
(***************************************************************************)
(* The trader agent's execution path: analysts/trader/agent.go             *)
(* handleExecution and papertrader.go Execute, fed by the durable          *)
(* explicit-ack subscription of pkg/nats/pubsub.go on signal.execute.*.    *)
(* One goroutine handles one message at a time; every database call may    *)
(* fail before or after it took effect; a message is delivered again until *)
(* it is acknowledged, and a second copy may already be queued when it is. *)
(***************************************************************************)
EXTENDS TradingSchema, FiniteSets

CONSTANTS
  Opens,        \* executions that open a position; each has its execution_ref
  Closes,       \* executions of the exit monitor and the square-off
  Bad,          \* payloads that do not parse or do not validate
  Unfit,        \* openings that validate though a boundary of theirs is below zero
  SideOf,       \* the side of an opening execution
  PositionOf,   \* the position a closing execution names
  NoMsg,
  MaxCopies,    \* bound on the copies of a message queued at the client
  MaxCrashes    \* bound on process restarts

VARIABLES
  published,    \* what the stream holds
  unacked,      \* what the consumer still has to acknowledge
  copies,       \* deliveries queued at the client
  handling,     \* the message in handleExecution
  pc,
  positions,    \* positions table: number of rows per execution_ref
  tradeLog,     \* trade_log table: number of rows per execution: 0, 1, 2 (many)
  crashes

Execution == Opens \cup Closes \cup Bad

Many == 2

ASSUME KindsAreDisjoint ==
  Opens \cap Closes = {} /\ Opens \cap Bad = {} /\ Closes \cap Bad = {}

ASSUME UnfitAssumption == Unfit \subseteq Opens

ASSUME NoMsgAssumption == NoMsg \notin Execution

ASSUME SideOfAssumption == SideOf \in [Opens -> {"LONG", "SHORT"}]

ASSUME PositionOfAssumption == PositionOf \in [Closes -> Opens]

ASSUME BoundsAssumption == MaxCopies \in Nat \ {0} /\ MaxCrashes \in Nat

\* A position is closed by an order of the opposite side.
Side(m) ==
  IF m \in Opens THEN SideOf[m]
                 ELSE IF SideOf[PositionOf[m]] = "LONG" THEN "SHORT" ELSE "LONG"

streamVars == <<published, unacked, copies>>

databaseVars == <<positions, tradeLog>>

vars == <<streamVars, handling, pc, databaseVars, crashes>>

Init ==
  /\ published = {}
  /\ unacked = {}
  /\ copies = [m \in Execution |-> 0]
  /\ handling = NoMsg
  /\ pc = "idle"
  /\ positions = [m \in Opens |-> 0]
  /\ tradeLog = [m \in Execution |-> 0]
  /\ crashes = 0
-----------------------------------------------------------------------------
(* The stream. *)

\* The risk manager publishes an opening execution under a fresh execution_ref,
\* the exit monitor or the square-off a closing one for a position in the table.
Publish(m) ==
  /\ m \notin published
  /\ m \in Closes => positions[PositionOf[m]] > 0
  /\ published' = published \cup {m}
  /\ unacked' = unacked \cup {m}
  /\ copies' = [copies EXCEPT ![m] = 1]
  /\ UNCHANGED <<handling, pc, databaseVars, crashes>>

\* The consumer delivers an unacknowledged message again: after a Nak, when its
\* AckWait has run out though the handler is still at work, or after a restart.
Redeliver(m) ==
  /\ m \in unacked
  /\ copies[m] < MaxCopies
  /\ copies' = [copies EXCEPT ![m] = @ + 1]
  /\ UNCHANGED <<published, unacked, handling, pc, databaseVars, crashes>>
-----------------------------------------------------------------------------
(* handleExecution. *)

\* The payload is parsed and validated; Execute tells closings (isClosing) from
\* openings.  An unprocessable message is acknowledged at once.
Receive(m) ==
  /\ pc = "idle"
  /\ copies[m] > 0
  /\ copies' = [copies EXCEPT ![m] = @ - 1]
  /\ handling' = m
  /\ pc' = CASE m \in Bad    -> "ack"
             [] m \in Closes -> "log"
             [] m \in Opens  -> "check"
  /\ UNCHANGED <<published, unacked, databaseVars, crashes>>

\* No duplicate detection.
HasExecutionSkipped ==
  /\ pc = "check"
  /\ pc' = "insert"
  /\ UNCHANGED <<streamVars, handling, databaseVars, crashes>>

\* hasExecution: a reference that is already in the table is a duplicate, and the
\* handler acknowledges it as executed.
HasExecution ==
  /\ pc = "check"
  /\ pc' = IF positions[handling] > 0 THEN "ack" ELSE "insert"
  /\ UNCHANGED <<streamVars, handling, databaseVars, crashes>>

\* hasExecution takes every query error for "not found".
HasExecutionFails ==
  /\ pc = "check"
  /\ pc' = "insert"
  /\ UNCHANGED <<streamVars, handling, databaseVars, crashes>>

\* The table without UNIQUE(execution_ref).
InsertNotUnique(m) ==
  positions' = [positions EXCEPT ![m] = IF @ < Many THEN @ + 1 ELSE @]

\* INSERT INTO positions: execution_ref is UNIQUE, side must fit its column.
InsertRow(m) ==
  /\ SideFits(Side(m))
  /\ positions[m] = 0
  /\ positions' = [positions EXCEPT ![m] = 1]

\* pos.Validate asks for more than exec.Validate did: Execute returns its error.
RefuseUnfit ==
  /\ pc = "insert"
  /\ handling \in Unfit
  /\ pc' = "nak"
  /\ UNCHANGED <<streamVars, handling, databaseVars, crashes>>

InsertPosition ==
  /\ pc = "insert"
  /\ handling \notin Unfit
  /\ InsertRow(handling)
  /\ pc' = "log"
  /\ UNCHANGED <<streamVars, handling, tradeLog, crashes>>

\* The insert violates UNIQUE, fails, or loses its answer: Execute returns the error.
InsertPositionFails ==
  /\ pc = "insert"
  /\ handling \notin Unfit
  /\ InsertRow(handling) \/ UNCHANGED positions
  /\ pc' = "nak"
  /\ UNCHANGED <<streamVars, handling, tradeLog, crashes>>

\* A handler that acknowledges before it has written.
LogNothing(m) == UNCHANGED tradeLog

\* INSERT INTO trade_log: side must fit its column, nothing is unique.
LogRow(m) ==
  /\ SideFits(Side(m))
  /\ tradeLog' = [tradeLog EXCEPT ![m] = IF @ < Many THEN @ + 1 ELSE @]

InsertTradeLog ==
  /\ pc = "log"
  /\ LogRow(handling)
  /\ pc' = "ack"
  /\ UNCHANGED <<streamVars, handling, positions, crashes>>

InsertTradeLogFails ==
  /\ pc = "log"
  /\ LogRow(handling) \/ UNCHANGED tradeLog
  /\ pc' = "nak"
  /\ UNCHANGED <<streamVars, handling, positions, crashes>>

Return == handling' = NoMsg /\ pc' = "idle"

Ack ==
  /\ pc = "ack"
  /\ unacked' = unacked \ {handling}
  /\ Return
  /\ UNCHANGED <<published, copies, databaseVars, crashes>>

\* The acknowledgement is lost or fails: the handler logs it and returns.
AckFails ==
  /\ pc = "ack"
  /\ Return
  /\ UNCHANGED <<streamVars, databaseVars, crashes>>

\* Execute failed: the message stays with the consumer.
Nak ==
  /\ pc = "nak"
  /\ Return
  /\ UNCHANGED <<streamVars, databaseVars, crashes>>

\* The process dies and is started again; the durable consumer and the database
\* keep what they have.
Restart ==
  /\ crashes < MaxCrashes
  /\ crashes' = crashes + 1
  /\ Return
  /\ copies' = [m \in Execution |-> 0]
  /\ UNCHANGED <<published, unacked, databaseVars>>
-----------------------------------------------------------------------------
Next ==
  \/ \E m \in Execution : Publish(m)
  \/ \E m \in Execution : Redeliver(m)
  \/ \E m \in Execution : Receive(m)
  \/ HasExecution
  \/ HasExecutionFails
  \/ RefuseUnfit
  \/ InsertPosition
  \/ InsertPositionFails
  \/ InsertTradeLog
  \/ InsertTradeLogFails
  \/ Ack
  \/ AckFails
  \/ Nak
  \/ Restart

Spec == Init /\ [][Next]_vars

\* The handler runs, the consumer delivers each message again, and the database and the
\* acknowledgements get through again and again; the query of hasExecution for each
\* message, since one that cannot be stored keeps asking.
Fairness ==
  /\ \A m \in Execution : WF_vars(Redeliver(m)) /\ SF_vars(Receive(m))
  /\ WF_vars(HasExecution \/ HasExecutionFails)
  /\ \A m \in Opens : SF_vars(handling = m /\ HasExecution)
  /\ WF_vars(RefuseUnfit \/ InsertPosition \/ InsertPositionFails)
  /\ SF_vars(InsertPosition)
  /\ WF_vars(InsertTradeLog \/ InsertTradeLogFails) /\ SF_vars(InsertTradeLog)
  /\ WF_vars(Ack \/ AckFails) /\ SF_vars(Ack)
  /\ WF_vars(Nak)

FairSpec == Spec /\ Fairness
-----------------------------------------------------------------------------
TypeOK ==
  /\ published \subseteq Execution
  /\ unacked \subseteq published
  /\ copies \in [Execution -> 0..MaxCopies]
  /\ handling \in Execution \cup {NoMsg}
  /\ pc \in {"idle", "check", "insert", "log", "ack", "nak"}
  /\ positions \in [Opens -> 0..Many]
  /\ tradeLog \in [Execution -> 0..Many]
  /\ crashes \in 0..MaxCrashes
  /\ (pc = "idle") <=> (handling = NoMsg)
  /\ pc \in {"check", "insert"} => handling \in Opens
  /\ pc = "log" => handling \in Opens \cup Closes

Acked(m) == m \in published \ unacked

\* However often an execution is delivered, and whichever of its calls fail, it
\* opens one position.
OnePositionPerRef == \A m \in Opens : positions[m] <= 1

\* An execution the stream lets go of has had its effect: no fill is lost.
AckedWasExecuted ==
  /\ \A m \in Opens : Acked(m) => positions[m] > 0
  /\ \A m \in Closes : Acked(m) => tradeLog[m] > 0

\* What was delivered is on the stream.
DeliveredWasPublished ==
  /\ \A m \in Execution : copies[m] > 0 => m \in published
  /\ handling # NoMsg => handling \in published

\* A message about to be acknowledged has had its effect.
AboutToAck ==
  /\ pc \in {"log", "ack"} /\ handling \in Opens => positions[handling] > 0
  /\ pc = "ack" /\ handling \in Closes => tradeLog[handling] > 0

\* The inductive invariant of the proofs.
IInv == /\ TypeOK
        /\ DeliveredWasPublished
        /\ AboutToAck
        /\ OnePositionPerRef
        /\ AckedWasExecuted

Ledger == INSTANCE ExecutionLedger WITH
            logged <- {m \in Closes : tradeLog[m] > 0},
            finished <- published \ unacked

\* The gateway implements the ledger.
ImplementsLedger == Ledger!LedgerSpec

\* What the schema and pos.Validate let in: its side fits the columns, and it is no
\* opening with a boundary below zero.
Storable(m) == m \in Bad \/ (SideFits(Side(m)) /\ m \notin Unfit)

\* What can be stored is acknowledged in the end, in spite of failures, lost
\* acknowledgements and restarts: the redelivery of pkg/nats/pubsub.go:42 repairs what
\* failed, also when what cannot be stored is delivered in between for ever.
StorableExecutionFinishes ==
  \A m \in Execution : Storable(m) => (m \in published ~> Acked(m))

\* papertrader.go:31: closing executions are logged to trade_log, and every execution
\* has its row there (trade_log.go:10), upon which it is acknowledged.
EveryExecutionFinishes == \A m \in Execution : m \in published ~> Acked(m)
=============================================================================
