---------------------------- MODULE Liquidation ----------------------------
(***************************************************************************)
(* What the exit monitor promises, with no cache, mark or goroutine: a     *)
(* position is opened once and closed at most once; when it is closed for  *)
(* a boundary, a closing order for that boundary at that price is already  *)
(* on the stream.  The order may have been sent more than once.            *)
(***************************************************************************)
EXTENDS PositionTable

VARIABLE sent     \* closing orders accepted by the stream

liquidationVars == <<rows, sent>>

\* The order that closes position id at price: opposite side, tied to id.
ClosingOrder(id, price, reason) ==
  [id |-> id, side |-> Opposite(Book[id].side), reason |-> reason, price |-> price]

LiquidationInit ==
  /\ rows = [id \in Ids |-> NoRow]
  /\ sent = {}

Fill(id) == Insert(id) /\ UNCHANGED sent

\* An order is only ever sent for a position that was opened and at a price
\* beyond the boundary it names.
SendOrder(id, price) ==
  /\ rows[id].status # "ABSENT"
  /\ crossed(id, price) # "NULL"
  /\ sent' = sent \cup {ClosingOrder(id, price, crossed(id, price))}
  /\ UNCHANGED rows

CloseAtBoundary(id, price) ==
  /\ Open(id)
  /\ ClosingOrder(id, price, crossed(id, price)) \in sent
  /\ MarkClosed(id, price, crossed(id, price))
  /\ UNCHANGED sent

SquareOff(id, price) ==
  /\ Open(id)
  /\ MarkClosed(id, price, "square_off")
  /\ UNCHANGED sent

LiquidationNext ==
  \E id \in Ids :
    \/ Fill(id)
    \/ \E price \in Prices : \/ SendOrder(id, price)
                             \/ CloseAtBoundary(id, price)
                             \/ SquareOff(id, price)

LiquidationSpec == LiquidationInit /\ [][LiquidationNext]_liquidationVars
=============================================================================
