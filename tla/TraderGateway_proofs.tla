------------------------ MODULE TraderGateway_proofs ------------------------
(***************************************************************************)
(* Proofs about TraderGateway, for any executions, any number of queued    *)
(* copies and any number of restarts.                                      *)
(***************************************************************************)
EXTENDS TraderGateway, TLAPS

USE DEF Execution

\* An empty stream and empty tables satisfy the invariant.
LEMMA InitIInv == Init => IInv
<1> SUFFICES ASSUME Init PROVE IInv
  OBVIOUS
<1> USE DEF Init
<1>1. copies \in [Execution -> 0..MaxCopies] /\ crashes \in 0..MaxCrashes
  BY BoundsAssumption
<1>2. positions \in [Opens -> 0..Many] /\ tradeLog \in [Execution -> 0..Many]
  BY DEF Many
<1>3. TypeOK
  BY <1>1, <1>2, NoMsgAssumption DEF TypeOK
<1>4. DeliveredWasPublished /\ AboutToAck /\ OnePositionPerRef /\ AckedWasExecuted
  BY NoMsgAssumption
  DEF DeliveredWasPublished, AboutToAck, OnePositionPerRef, AckedWasExecuted, Acked
<1> QED
  BY <1>3, <1>4 DEF IInv

\* Rows are only added, at most one per reference.
LEMMA InsertRowAdds ==
  ASSUME positions \in [Opens -> 0..Many], NEW m \in Opens, InsertRow(m)
  PROVE  /\ positions' \in [Opens -> 0..Many]
         /\ positions'[m] = 1
         /\ \A n \in Opens : n # m => positions'[n] = positions[n]
BY DEF InsertRow, Many

\* The audit trail only grows, and only for the execution being logged.
LEMMA LogRowAdds ==
  ASSUME tradeLog \in [Execution -> 0..Many], NEW m \in Execution, LogRow(m)
  PROVE  /\ tradeLog' \in [Execution -> 0..Many]
         /\ tradeLog'[m] > 0
         /\ \A n \in Execution : n # m => tradeLog'[n] = tradeLog[n]
BY DEF LogRow, Many

\* Every step of the stream, the handler and the restart keeps the invariant.
LEMMA NextIInv == IInv /\ [Next]_vars => IInv'
<1> SUFFICES ASSUME IInv, [Next]_vars PROVE IInv'
  OBVIOUS
<1> USE NoMsgAssumption, KindsAreDisjoint
    DEF IInv, TypeOK, DeliveredWasPublished, AboutToAck, OnePositionPerRef,
        AckedWasExecuted, Acked, streamVars, databaseVars
<1>1. ASSUME NEW m \in Execution, Publish(m)
      PROVE  IInv'
  <2>1. copies' \in [Execution -> 0..MaxCopies]
    BY <1>1, BoundsAssumption DEF Publish
  <2> QED
    BY <1>1, <2>1 DEF Publish
<1>2. ASSUME NEW m \in Execution, Redeliver(m)
      PROVE  IInv'
  <2>1. copies' \in [Execution -> 0..MaxCopies]
    BY <1>2, BoundsAssumption DEF Redeliver
  <2> QED
    BY <1>2, <2>1 DEF Redeliver
<1>3. ASSUME NEW m \in Execution, Receive(m)
      PROVE  IInv'
  <2>1. copies' \in [Execution -> 0..MaxCopies]
    BY <1>3, BoundsAssumption DEF Receive
  <2>2. /\ m \in Bad => pc' = "ack"
        /\ m \in Closes => pc' = "log"
        /\ m \in Opens => pc' = "check"
    BY <1>3 DEF Receive
  <2>3. \A n \in Execution : copies'[n] > 0 => n \in published
    BY <1>3, BoundsAssumption DEF Receive
  <2> QED
    BY <1>3, <2>1, <2>2, <2>3 DEF Receive
<1>4. CASE HasExecution \/ HasExecutionFails \/ RefuseUnfit
  BY <1>4 DEF HasExecution, HasExecutionFails, RefuseUnfit
<1>5. CASE InsertPosition
  <2>1. handling \in Opens /\ InsertRow(handling)
    BY <1>5 DEF InsertPosition
  <2> QED
    BY <1>5, <2>1, InsertRowAdds DEF InsertPosition
<1>6. CASE InsertPositionFails
  <2>1. handling \in Opens
    BY <1>6 DEF InsertPositionFails
  <2>2. CASE InsertRow(handling)
    BY <1>6, <2>1, <2>2, InsertRowAdds DEF InsertPositionFails
  <2>3. CASE UNCHANGED positions
    BY <1>6, <2>3 DEF InsertPositionFails
  <2> QED
    BY <1>6, <2>2, <2>3 DEF InsertPositionFails
<1>7. CASE InsertTradeLog
  <2>1. handling \in Opens \cup Closes /\ LogRow(handling)
    BY <1>7 DEF InsertTradeLog
  <2> QED
    BY <1>7, <2>1, LogRowAdds DEF InsertTradeLog
<1>8. CASE InsertTradeLogFails
  <2>1. handling \in Opens \cup Closes
    BY <1>8 DEF InsertTradeLogFails
  <2>2. CASE LogRow(handling)
    BY <1>8, <2>1, <2>2, LogRowAdds DEF InsertTradeLogFails
  <2>3. CASE UNCHANGED tradeLog
    BY <1>8, <2>3 DEF InsertTradeLogFails
  <2> QED
    BY <1>8, <2>2, <2>3 DEF InsertTradeLogFails
<1>9. CASE Ack
  BY <1>9 DEF Ack, Return
<1>10. CASE AckFails \/ Nak
  BY <1>10 DEF AckFails, Nak, Return
<1>11. CASE Restart
  <2>1. /\ copies' \in [Execution -> 0..MaxCopies]
        /\ crashes' \in 0..MaxCrashes
        /\ \A m \in Execution : ~(copies'[m] > 0)
    BY <1>11, BoundsAssumption DEF Restart
  <2> QED
    BY <1>11, <2>1 DEF Restart, Return
<1>12. CASE UNCHANGED vars
  BY <1>12 DEF vars
<1> QED
  BY <1>1, <1>2, <1>3, <1>4, <1>5, <1>6, <1>7, <1>8, <1>9, <1>10, <1>11, <1>12
  DEF Next

\* The inductive invariant holds for every set of executions, every column width,
\* any number of queued copies and of restarts.
THEOREM Invariance == Spec => []IInv
BY InitIInv, NextIInv, PTL DEF Spec

\* Type correctness of the gateway.
THEOREM TypeCorrect == Spec => []TypeOK
BY Invariance, PTL DEF IInv

\* Redelivery never opens a second position for an execution_ref.
THEOREM AtMostOnePosition == Spec => []OnePositionPerRef
BY Invariance, PTL DEF IInv

\* No execution is acknowledged before its effect is in the database.
THEOREM NoFillIsLost == Spec => []AckedWasExecuted
BY Invariance, PTL DEF IInv

\* The gateway, with its deliveries, retries, failures and restarts, implements the
\* ledger.
THEOREM Implements == Spec => ImplementsLedger
<1> DEFINE logged == {m \in Closes : tradeLog[m] > 0}
           finished == published \ unacked
<1>1. Init => Ledger!LedgerInit
  BY DEF Init, Ledger!LedgerInit
<1>2. IInv /\ [Next]_vars => [Ledger!LedgerNext]_(Ledger!ledgerVars)
  <2> SUFFICES ASSUME IInv, [Next]_vars
               PROVE  \/ Ledger!LedgerNext
                      \/ UNCHANGED <<published, positions, logged, finished>>
    BY DEF Ledger!ledgerVars
  <2> USE KindsAreDisjoint, NoMsgAssumption
      DEF IInv, TypeOK, DeliveredWasPublished, AboutToAck, OnePositionPerRef,
          AckedWasExecuted, Acked, streamVars, databaseVars, Ledger!LedgerNext,
          Ledger!Execution
  <2>1. ASSUME NEW m \in Execution, Publish(m)
        PROVE  Ledger!LedgerNext
    <3>1. Ledger!Publish(m)
      BY <2>1 DEF Publish, Ledger!Publish
    <3> QED
      BY <3>1
  <2>2. ASSUME handling \in Opens, InsertRow(handling), UNCHANGED <<streamVars, tradeLog>>
        PROVE  Ledger!LedgerNext
    <3>1. Ledger!OpenPosition(handling)
      BY <2>2 DEF InsertRow, Ledger!OpenPosition
    <3> QED
      BY <2>2, <3>1
  <2>3. ASSUME handling \in Opens \cup Closes, LogRow(handling),
               UNCHANGED <<streamVars, positions>>
        PROVE  \/ Ledger!LedgerNext
               \/ UNCHANGED <<published, positions, logged, finished>>
    <3>1. CASE handling \in Closes
      <4>1. logged' = logged \cup {handling}
        BY <2>3, <3>1, LogRowAdds
      <4> QED
        BY <2>3, <3>1, <4>1 DEF Ledger!LogClosing, Ledger!LedgerNext
    <3>2. CASE handling \in Opens
      BY <2>3, <3>2, LogRowAdds
    <3> QED
      BY <2>3, <3>1, <3>2
  <2>4. CASE Ack
    <3>1. handling \in published /\ handling \in Execution
      BY <2>4 DEF Ack
    <3>2. finished' = finished \cup {handling}
      BY <2>4, <3>1 DEF Ack
    <3>3. handling \in Opens => positions[handling] = 1
      BY <2>4 DEF Ack, Many
    <3>4. Ledger!Finish(handling)
      BY <2>4, <3>1, <3>2, <3>3 DEF Ack, Ledger!Finish
    <3> QED
      BY <3>1, <3>4
  <2>5. \/ Ack
        \/ UNCHANGED <<published, unacked, positions, tradeLog>>
        \/ \E m \in Execution : Publish(m)
        \/ handling \in Opens /\ InsertRow(handling) /\ UNCHANGED <<streamVars, tradeLog>>
        \/ handling \in Opens \cup Closes /\ LogRow(handling)
           /\ UNCHANGED <<streamVars, positions>>
    BY DEF Next, vars, Redeliver, Receive, HasExecution, HasExecutionFails,
           RefuseUnfit, InsertPosition, InsertPositionFails, InsertTradeLog, InsertTradeLogFails,
           AckFails, Nak, Restart
  <2>6. CASE UNCHANGED <<published, unacked, positions, tradeLog>>
    BY <2>6
  <2> HIDE DEF logged, finished
  <2> QED
    BY ONLY <2>1, <2>2, <2>3, <2>4, <2>5, <2>6
<1> QED
  BY Invariance, <1>1, <1>2, PTL DEF Spec, ImplementsLedger, Ledger!LedgerSpec
=============================================================================
