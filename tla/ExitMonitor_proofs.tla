------------------------- MODULE ExitMonitor_proofs -------------------------
(***************************************************************************)
(* Proofs about ExitMonitor, for any positions, prices, clock and number   *)
(* of restarts.                                                            *)
(***************************************************************************)
EXTENDS ExitMonitor, TLAPS

\* A crossed boundary is a stop-loss or a take-profit.
LEMMA CrossedType ==
  \A id \in Ids, p \in Prices : crossed(id, p) \in {"stop_loss", "take_profit", "NULL"}
BY DEF crossed

\* The opposite side is a side, and another one.
LEMMA OppositeSide ==
  \A id \in Ids : /\ Opposite(Book[id].side) \in Side
                  /\ Opposite(Book[id].side) # Book[id].side
BY BookAssumption DEF Opposite, Side

\* A closing order for a crossed boundary is well formed.
LEMMA ClosingOrderType ==
  ASSUME NEW id \in Ids, NEW p \in Prices, crossed(id, p) # "NULL"
  PROVE  ClosingOrder(id, p, crossed(id, p)) \in Order
BY CrossedType, OppositeSide DEF ClosingOrder, Order, ExitReason

\* MarkClosed keeps the table well formed.
LEMMA MarkClosedType ==
  ASSUME rows \in [Ids -> Row], NEW id \in Ids, NEW p \in Prices,
         NEW reason \in ExitReason, MarkClosed(id, p, reason)
  PROVE  rows' \in [Ids -> Row]
BY DEF MarkClosed, Row

\* What a callback at work holds is a position, at a price of the grid.
LEMMA CurrentType ==
  ASSUME IInv, pc \in {"mark", "drop"}
  PROVE  /\ current \in Ids
         /\ price \in Prices
         /\ crossed(current, price) \in {"stop_loss", "take_profit"}
BY CrossedType DEF IInv, TypeOK, StageOK

\* NewExitMonitor holds nothing: the invariant holds before the first step.
LEMMA InitIInv == Init => IInv
<1> SUFFICES ASSUME Init PROVE IInv
  OBVIOUS
<1> USE DEF Init
<1>1. TypeOK
  <2>1. rows \in [Ids -> Row]
    BY DEF NoRow, Row
  <2>2. crashes \in 0..MaxCrashes
    BY MaxCrashesAssumption
  <2> QED
    BY <2>1, <2>2 DEF TypeOK
<1>2. StageOK /\ MarksAreClosings /\ HeldWasFilled /\ OrderSent
  BY DEF StageOK, MarksAreClosings, HeldWasFilled, OrderSent
<1>3. ClosedWasLiquidated
  BY DEF ClosedWasLiquidated, NoRow
<1> QED
  BY <1>1, <1>2, <1>3 DEF IInv

\* Every step keeps the state well formed.
LEMMA NextTypeOK == IInv /\ [Next]_vars => TypeOK'
<1> SUFFICES ASSUME IInv, [Next]_vars PROVE TypeOK'
  OBVIOUS
<1> USE DEF IInv, TypeOK
<1>1. ASSUME NEW ticker \in Tickers, NEW p \in Prices, HandlePrice(ticker, p)
      PROVE  TypeOK'
  BY <1>1 DEF HandlePrice
<1>2. ASSUME NEW id \in Ids, PublishOk(id)
      PROVE  TypeOK'
  <2>1. sent' \subseteq Order
    BY <1>2, ClosingOrderType DEF PublishOk, Record, StageOK
  <2> QED
    BY <1>2, <2>1 DEF PublishOk
<1>3. ASSUME NEW id \in Ids, PublishFails(id)
      PROVE  TypeOK'
  <2>1. sent' \subseteq Order
    BY <1>3, ClosingOrderType DEF PublishFails, Record, StageOK
  <2> QED
    BY <1>3, <2>1 DEF PublishFails, FinishTarget
<1>4. CASE MarkClosedOk
  <2>1. rows' \in [Ids -> Row]
    BY <1>4, CurrentType, MarkClosedType DEF MarkClosedOk, ExitReason
  <2> QED
    BY <1>4, <2>1 DEF MarkClosedOk
<1>5. CASE MarkClosedFails
  BY <1>5 DEF MarkClosedFails
<1>6. CASE DropFromCache
  BY <1>6 DEF DropFromCache, FinishTarget
<1>7. CASE RefreshList
  BY <1>7 DEF RefreshList, ListOpen, handlerVars
<1>8. CASE RefreshInstall
  BY <1>8 DEF RefreshInstall
<1>9. CASE Restart
  <2>1. crashes' \in 0..MaxCrashes
    BY <1>9, MaxCrashesAssumption DEF Restart
  <2> QED
    BY <1>9, <2>1 DEF Restart
<1>10. ASSUME NEW id \in Ids, Fill(id)
       PROVE  TypeOK'
  <2>1. rows' \in [Ids -> Row]
    BY <1>10 DEF Fill, Insert, Row
  <2> QED
    BY <1>10, <2>1 DEF Fill, unchangedByOthers, handlerVars
<1>11. ASSUME NEW id \in Ids, NEW p \in Prices, SquareOff(id, p)
       PROVE  TypeOK'
  <2>1. rows' \in [Ids -> Row]
    BY <1>11, MarkClosedType DEF SquareOff, ExitReason
  <2> QED
    BY <1>11, <2>1 DEF SquareOff, unchangedByOthers, handlerVars
<1>12. CASE TimePasses
  BY <1>12 DEF TimePasses, unchangedByOthers, handlerVars
<1>13. CASE UNCHANGED vars
  BY <1>13 DEF vars
<1> QED
  BY <1>1, <1>2, <1>3, <1>4, <1>5, <1>6, <1>7, <1>8, <1>9, <1>10, <1>11, <1>12,
     <1>13 DEF Next

\* A row that exists keeps existing; only Fill makes one.
LEMMA RowsStay ==
  ASSUME IInv, [Next]_vars, NEW id \in Ids, rows[id].status # "ABSENT"
  PROVE  rows'[id].status # "ABSENT"
<1> USE DEF IInv, TypeOK
<1>1. CASE UNCHANGED rows
  BY <1>1
<1>2. ASSUME NEW other \in Ids, Fill(other)
      PROVE  rows'[id].status # "ABSENT"
  BY <1>2 DEF Fill, Insert, Row
<1>3. ASSUME NEW other \in Ids, NEW p \in Prices, NEW reason \in ExitReason,
             MarkClosed(other, p, reason)
      PROVE  rows'[id].status # "ABSENT"
  BY <1>3 DEF MarkClosed, Row
<1>4. CASE MarkClosedOk
  BY <1>4, <1>3, CurrentType DEF MarkClosedOk, ExitReason
<1>5. ASSUME NEW other \in Ids, NEW p \in Prices, SquareOff(other, p)
      PROVE  rows'[id].status # "ABSENT"
  BY <1>5, <1>3 DEF SquareOff, ExitReason
<1>6. [Next]_vars => \/ UNCHANGED rows
                     \/ MarkClosedOk
                     \/ \E other \in Ids : Fill(other)
                     \/ \E other \in Ids, p \in Prices : SquareOff(other, p)
  BY DEF Next, vars, HandlePrice, PublishOk, PublishFails, MarkClosedFails,
         DropFromCache, RefreshList, RefreshInstall, Restart, TimePasses
<1> QED
  BY <1>1, <1>2, <1>4, <1>5, <1>6

\* The callback and its marks stay in step: the marks are the targets left.
LEMMA NextStage ==
  IInv /\ [Next]_vars => StageOK' /\ MarksAreClosings' /\ OrderSent'
<1> SUFFICES ASSUME IInv, [Next]_vars
             PROVE  StageOK' /\ MarksAreClosings' /\ OrderSent'
  OBVIOUS
<1> USE DEF IInv, TypeOK, StageOK, MarksAreClosings, OrderSent
<1>1. ASSUME NEW ticker \in Tickers, NEW p \in Prices, HandlePrice(ticker, p)
      PROVE  StageOK' /\ MarksAreClosings' /\ OrderSent'
  <2>1. StageOK' /\ OrderSent'
    BY <1>1 DEF HandlePrice, crossed
  <2>2. MarksAreClosings'
    BY <1>1 DEF HandlePrice
  <2> QED
    BY <2>1, <2>2
<1>2. ASSUME NEW id \in Ids, PublishOk(id)
      PROVE  StageOK' /\ MarksAreClosings' /\ OrderSent'
  <2>1. StageOK' /\ MarksAreClosings'
    BY <1>2 DEF PublishOk, crossed
  <2>2. OrderSent'
    BY <1>2 DEF PublishOk, Record, ClosingOrder, crossed
  <2> QED
    BY <2>1, <2>2
<1>3. ASSUME NEW id \in targets, FinishTarget(id)
      PROVE  StageOK' /\ MarksAreClosings' /\ OrderSent'
  BY <1>3 DEF FinishTarget, crossed
<1>4. ASSUME NEW id \in Ids, PublishFails(id)
      PROVE  StageOK' /\ MarksAreClosings' /\ OrderSent'
  BY <1>4, <1>3 DEF PublishFails
<1>5. CASE DropFromCache
  BY <1>5, <1>3 DEF DropFromCache
<1>6. CASE MarkClosedOk \/ MarkClosedFails
  BY <1>6 DEF MarkClosedOk, MarkClosedFails, crossed, ClosingOrder
<1>7. CASE Restart
  BY <1>7 DEF Restart
<1>8. CASE UNCHANGED <<handlerVars, sent>>
  BY <1>8 DEF handlerVars, crossed, ClosingOrder
<1>9. CASE RefreshInstall
  BY <1>9 DEF RefreshInstall, crossed, ClosingOrder
<1>10. [Next]_vars =>
         \/ UNCHANGED <<handlerVars, sent>>
         \/ MarkClosedOk \/ MarkClosedFails \/ DropFromCache \/ RefreshInstall \/ Restart
         \/ \E ticker \in Tickers, p \in Prices : HandlePrice(ticker, p)
         \/ \E id \in Ids : PublishOk(id) \/ PublishFails(id)
  BY DEF Next, vars, RefreshList, Fill, SquareOff, TimePasses, unchangedByOthers,
         handlerVars
<1> QED
  BY <1>1, <1>2, <1>4, <1>5, <1>6, <1>7, <1>8, <1>9, <1>10

\* What the monitor holds was read from the table, and rows stay.
LEMMA NextHeldWasFilled == IInv /\ [Next]_vars => HeldWasFilled'
<1> SUFFICES ASSUME IInv, [Next]_vars PROVE HeldWasFilled'
  OBVIOUS
<1> USE DEF IInv, TypeOK
<1>1. (cache \cup listed \cup targets)' \subseteq cache \cup listed \cup targets \cup ListOpen
  BY DEF Next, vars, HandlePrice, PublishOk, PublishFails, FinishTarget, MarkClosedOk,
         MarkClosedFails, DropFromCache, RefreshList, RefreshInstall, Restart, Fill,
         SquareOff, TimePasses, unchangedByOthers, handlerVars
<1>2. \A id \in cache \cup listed \cup targets \cup ListOpen :
        id \in Ids /\ rows[id].status # "ABSENT"
  BY DEF HeldWasFilled, ListOpen, Open
<1> QED
  BY <1>1, <1>2, RowsStay DEF HeldWasFilled, IInv

\* A row is booked for a boundary by MarkClosedOk alone, whose order is sent.
LEMMA NextClosedWasLiquidated == IInv /\ [Next]_vars => ClosedWasLiquidated'
<1> SUFFICES ASSUME IInv, [Next]_vars PROVE ClosedWasLiquidated'
  OBVIOUS
<1> USE DEF IInv, TypeOK, ClosedWasLiquidated
<1>1. ASSUME NEW id \in Ids, Fill(id)
      PROVE  ClosedWasLiquidated'
  BY <1>1 DEF Fill, Insert, Row, unchangedByOthers
<1>2. ASSUME NEW id \in Ids, NEW p \in Prices, SquareOff(id, p)
      PROVE  ClosedWasLiquidated'
  BY <1>2 DEF SquareOff, MarkClosed, Row, unchangedByOthers
<1>3. CASE MarkClosedOk
  <2> DEFINE order == ClosingOrder(current, price, crossed(current, price))
  <2>1. current \in Ids /\ order \in sent
    BY <1>3, CurrentType DEF MarkClosedOk, OrderSent
  <2>2. order.id = current /\ order.side # Book[current].side
    BY <2>1, OppositeSide DEF ClosingOrder
  <2>3. order.reason = crossed(current, price) /\ order.price = price
    BY DEF ClosingOrder
  <2>4. /\ sent' = sent
        /\ \/ rows' = rows
           \/ rows' = [rows EXCEPT ![current] =
                         [status |-> "CLOSED", exit_reason |-> order.reason,
                          exit_price |-> order.price]]
    BY <1>3, <2>3 DEF MarkClosedOk, MarkClosed
  <2> HIDE DEF order
  <2>5. \A id \in Ids : id # current => rows'[id] = rows[id]
    BY <2>1, <2>4
  <2>6. \/ rows'[current] = rows[current]
        \/ /\ rows'[current].exit_reason = order.reason
           /\ rows'[current].exit_price = order.price
    BY <2>1, <2>4
  <2> QED
    BY <2>1, <2>2, <2>4, <2>5, <2>6
<1>4. [Next]_vars =>
        \/ rows' = rows /\ sent \subseteq sent'
        \/ MarkClosedOk
        \/ \E id \in Ids : Fill(id)
        \/ \E id \in Ids, p \in Prices : SquareOff(id, p)
  BY DEF Next, vars, HandlePrice, PublishOk, PublishFails, Record, MarkClosedFails,
         DropFromCache, RefreshList, RefreshInstall, Restart, TimePasses,
         unchangedByOthers
<1>5. CASE rows' = rows /\ sent \subseteq sent'
  BY <1>5
<1> QED
  BY <1>1, <1>2, <1>3, <1>4, <1>5

\* The inductive invariant holds for every set of positions, every price grid and
\* clock and any number of restarts.
THEOREM Invariance == Spec => []IInv
<1>1. IInv /\ [Next]_vars => IInv'
  BY NextTypeOK, NextStage, NextHeldWasFilled, NextClosedWasLiquidated DEF IInv
<1> QED
  BY InitIInv, <1>1, PTL DEF Spec

\* Type correctness of the exit monitor.
THEOREM TypeCorrect == Spec => []TypeOK
BY Invariance, PTL DEF IInv

\* No in-flight mark is ever leaked: exitmonitor.go clears it on every way out of
\* close.
THEOREM NoMarkLeaks == Spec => []MarksAreClosings
BY Invariance, PTL DEF IInv

\* A row closed for a boundary has its closing order on the stream.
THEOREM Liquidated == Spec => []ClosedWasLiquidated
BY Invariance, PTL DEF IInv

\* A closed row is final: the WHERE status = 'OPEN' of MarkClosed decides every race.
THEOREM ClosedStays == Spec => ClosedIsFinal
<1>1. IInv /\ [Next]_vars => [\A id \in Ids : Closed(id) => rows'[id] = rows[id]]_vars
  <2> SUFFICES ASSUME IInv, [Next]_vars, NEW id \in Ids, Closed(id)
               PROVE  rows'[id] = rows[id]
    OBVIOUS
  <2> USE DEF IInv, TypeOK
  <2>1. CASE UNCHANGED rows
    BY <2>1
  <2>2. ASSUME NEW other \in Ids, Fill(other)
        PROVE  rows'[id] = rows[id]
    BY <2>2 DEF Fill, Insert, Closed
  <2>3. ASSUME NEW other \in Ids, NEW p, NEW reason, MarkClosed(other, p, reason)
        PROVE  rows'[id] = rows[id]
    BY <2>3 DEF MarkClosed, Closed, Open
  <2>4. CASE MarkClosedOk
    BY <2>4, <2>3, CurrentType DEF MarkClosedOk
  <2>5. ASSUME NEW other \in Ids, NEW p \in Prices, SquareOff(other, p)
        PROVE  rows'[id] = rows[id]
    BY <2>5, <2>3 DEF SquareOff
  <2>6. \/ UNCHANGED rows
        \/ MarkClosedOk
        \/ \E other \in Ids : Fill(other)
        \/ \E other \in Ids, p \in Prices : SquareOff(other, p)
    BY DEF Next, vars, HandlePrice, PublishOk, PublishFails, MarkClosedFails,
           DropFromCache, RefreshList, RefreshInstall, Restart, TimePasses
  <2> QED
    BY <2>1, <2>2, <2>4, <2>5, <2>6
<1> QED
  BY Invariance, <1>1, PTL DEF Spec, ClosedIsFinal

\* Exit prices justify exit reasons, for longs and shorts alike.
THEOREM ExitPrices == Spec => []ExitPriceJustified
<1>1. Init => ExitPriceJustified
  <2> SUFFICES ASSUME Init PROVE ExitPriceJustified
    OBVIOUS
  <2>1. \A id \in Ids : rows[id] = NoRow
    BY DEF Init
  <2>2. NoRow.exit_reason \notin {"stop_loss", "take_profit"}
    BY DEF NoRow
  <2> QED
    BY <2>1, <2>2 DEF ExitPriceJustified
<1>2. ExitPriceJustified /\ IInv /\ [Next]_vars => ExitPriceJustified'
  <2> SUFFICES ASSUME ExitPriceJustified, IInv, [Next]_vars
               PROVE  ExitPriceJustified'
    OBVIOUS
  <2> USE DEF IInv, TypeOK, ExitPriceJustified
  <2>1. CASE UNCHANGED rows
    BY <2>1
  <2>2. ASSUME NEW id \in Ids, Fill(id)
        PROVE  ExitPriceJustified'
    <3>1. \A other \in Ids : /\ rows'[other].exit_reason = rows[other].exit_reason
                             /\ rows'[other].exit_price = rows[other].exit_price
      BY <2>2 DEF Fill, Insert, Row
    <3> QED
      BY <3>1
  <2>3. ASSUME NEW id \in Ids, NEW p \in Prices, SquareOff(id, p)
        PROVE  ExitPriceJustified'
    BY <2>3 DEF SquareOff, MarkClosed
  <2>4. CASE MarkClosedOk
    <3>1. current \in Ids /\ price \in Prices
      BY <2>4, CurrentType DEF MarkClosedOk
    <3>2. Book[current] \in [ticker: Tickers, side: Side, stop: Prices, take: Prices]
      BY <3>1, BookAssumption
    <3>3. \A q \in Prices : q \in Nat
      BY PricesAssumption
    <3>4. /\ crossed(current, price) = "stop_loss" =>
               IF Book[current].side = "LONG" THEN price <= Book[current].stop
                                              ELSE price >= Book[current].stop
          /\ crossed(current, price) = "take_profit" =>
               IF Book[current].side = "LONG" THEN price >= Book[current].take
                                              ELSE price <= Book[current].take
      BY <3>1, <3>2, <3>3 DEF crossed, Opposite, Side
    <3>5. \A id \in Ids :
            \/ rows'[id] = rows[id]
            \/ /\ id = current
               /\ rows'[id].exit_reason = crossed(current, price)
               /\ rows'[id].exit_price = price
      BY <2>4, <3>1 DEF MarkClosedOk, MarkClosed
    <3> QED
      BY <3>4, <3>5
  <2>5. \/ UNCHANGED rows
        \/ MarkClosedOk
        \/ \E id \in Ids : Fill(id)
        \/ \E id \in Ids, p \in Prices : SquareOff(id, p)
    BY DEF Next, vars, HandlePrice, PublishOk, PublishFails, MarkClosedFails,
           DropFromCache, RefreshList, RefreshInstall, Restart, TimePasses
  <2> QED
    BY <2>1, <2>2, <2>3, <2>4, <2>5
<1> QED
  BY Invariance, <1>1, <1>2, PTL DEF Spec

\* The monitor with its cache, marks, goroutines and restarts implements the
\* abstract liquidation of Liquidation.tla.
THEOREM Implements == Spec => ImplementsLiquidation
<1> USE DEF Promise!Insert, Promise!MarkClosed, Promise!Open, Promise!crossed,
            Promise!Opposite, Promise!ClosingOrder, Promise!NoRow, Promise!NoPrice
<1>1. Init => Promise!LiquidationInit
  BY DEF Init, Promise!LiquidationInit, NoRow, NoPrice
<1>2. IInv /\ [Next]_vars => [Promise!LiquidationNext]_(Promise!liquidationVars)
  <2> SUFFICES ASSUME IInv, [Next]_vars
               PROVE  \/ Promise!LiquidationNext
                      \/ UNCHANGED <<rows, sent>>
    BY DEF Promise!liquidationVars
  <2> USE DEF IInv, TypeOK
  <2>1. ASSUME NEW id \in targets, price \in Prices, Record(id), UNCHANGED rows
        PROVE  Promise!LiquidationNext
    <3>1. Promise!SendOrder(id, price)
      BY <2>1 DEF Promise!SendOrder, Record, HeldWasFilled, StageOK, ClosingOrder,
                  crossed, Opposite
    <3> QED
      BY <2>1, <3>1 DEF Promise!LiquidationNext
  <2>2. ASSUME NEW id \in Ids, PublishOk(id)
        PROVE  Promise!LiquidationNext
    BY <2>2, <2>1 DEF PublishOk, StageOK
  <2>3. ASSUME NEW id \in Ids, PublishFails(id)
        PROVE  Promise!LiquidationNext \/ UNCHANGED <<rows, sent>>
    BY <2>3, <2>1 DEF PublishFails, StageOK
  <2>4. CASE MarkClosedOk
    <3>1. current \in Ids /\ price \in Prices
      BY <2>4, CurrentType DEF MarkClosedOk
    <3>2. CASE Open(current)
      <4>1. Promise!CloseAtBoundary(current, price)
        BY <2>4, <3>1, <3>2 DEF Promise!CloseAtBoundary, MarkClosedOk, MarkClosed,
           OrderSent, ClosingOrder, crossed, Opposite, Open
      <4> QED
        BY <3>1, <4>1 DEF Promise!LiquidationNext
    <3>3. CASE ~Open(current)
      BY <2>4, <3>3 DEF MarkClosedOk, MarkClosed
    <3> QED
      BY <3>2, <3>3
  <2>5. ASSUME NEW id \in Ids, Fill(id)
        PROVE  Promise!LiquidationNext
    BY <2>5 DEF Fill, Insert, SideFits, TextLength, unchangedByOthers, Promise!SideFits,
                Promise!TextLength, Promise!LiquidationNext, Promise!Fill
  <2>6. ASSUME NEW id \in Ids, NEW p \in Prices, SquareOff(id, p)
        PROVE  Promise!LiquidationNext
    <3>1. Promise!SquareOff(id, p)
      BY <2>6 DEF SquareOff, MarkClosed, Open, unchangedByOthers, Promise!SquareOff
    <3> QED
      BY <3>1 DEF Promise!LiquidationNext
  <2>7. \/ UNCHANGED <<rows, sent>>
        \/ MarkClosedOk
        \/ \E id \in Ids : PublishOk(id) \/ PublishFails(id) \/ Fill(id)
        \/ \E id \in Ids, p \in Prices : SquareOff(id, p)
    BY DEF Next, vars, HandlePrice, MarkClosedFails, DropFromCache, RefreshList,
           RefreshInstall, Restart, TimePasses, unchangedByOthers
  <2> QED
    BY <2>2, <2>3, <2>4, <2>5, <2>6, <2>7
<1> QED
  BY Invariance, <1>1, <1>2, PTL DEF Spec, ImplementsLiquidation,
     Promise!LiquidationSpec
=============================================================================
