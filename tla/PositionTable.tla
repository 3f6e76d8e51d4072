--------------------------- MODULE PositionTable ---------------------------
(***************************************************************************)
(* The positions table (pkg/database/positions.go), shared by the trader,  *)
(* the exit monitor and the risk manager.  A row is named by the           *)
(* execution_ref it was opened under, which the schema keeps UNIQUE.       *)
(* Book holds the columns no statement ever updates; a row keeps the       *)
(* columns that do change.  Prices are points of a price grid: only the    *)
(* order of a price and a boundary matters here.                           *)
(***************************************************************************)
EXTENDS TradingSchema

CONSTANTS
  Ids,       \* positions that may ever be opened
  Tickers,
  Prices,    \* the price grid
  Book       \* Ids -> the immutable columns of each position

VARIABLE rows

Side == {"LONG", "SHORT"}

ExitReason == {"stop_loss", "take_profit", "square_off"}

NoPrice == 0

\* Validate rejects a position with a price or a boundary that is not positive.
ASSUME PricesAssumption == Prices \subseteq Nat \ {NoPrice}

ASSUME BookAssumption ==
  Book \in [Ids -> [ticker: Tickers, side: Side, stop: Prices, take: Prices]]

Row == [status: {"ABSENT", "OPEN", "CLOSED"},
        exit_reason: ExitReason \cup {"NULL"},
        exit_price: Prices \cup {NoPrice}]

NoRow == [status |-> "ABSENT", exit_reason |-> "NULL", exit_price |-> NoPrice]

Open(id) == rows[id].status = "OPEN"

Closed(id) == rows[id].status = "CLOSED"

\* A ListOpen without WHERE status = 'OPEN'.
ListAll == Ids

ListOpen == {id \in Ids : Open(id)}

Opposite(side) == IF side = "LONG" THEN "SHORT" ELSE "LONG"

\* INSERT: the unique execution_ref admits one row per id.
Insert(id) ==
  /\ SideFits(Book[id].side)
  /\ rows[id].status = "ABSENT"
  /\ rows' = [rows EXCEPT ![id].status = "OPEN"]

\* A MarkClosed that forgets AND status = 'OPEN'.
MarkClosedAnyStatus(id, price, reason) ==
  rows' = [rows EXCEPT ![id] = [status |-> "CLOSED",
                                exit_reason |-> reason,
                                exit_price |-> price]]

\* UPDATE ... WHERE id = $1 AND status = 'OPEN': no row is touched otherwise.
MarkClosed(id, price, reason) ==
  rows' = IF Open(id)
            THEN [rows EXCEPT ![id] = [status |-> "CLOSED",
                                       exit_reason |-> reason,
                                       exit_price |-> price]]
            ELSE rows

\* A boundary test that ignores the side of the position.
crossedAnySide(id, price) ==
  CASE price <= Book[id].stop -> "stop_loss"
    [] price > Book[id].stop /\ price >= Book[id].take -> "take_profit"
    [] OTHER -> "NULL"

\* The boundary of the position that price has breached, "NULL" for none.
\* The stop-loss is tested first.
crossed(id, price) ==
  LET beyond(p, boundary, side) ==
        IF side = "LONG" THEN p <= boundary ELSE p >= boundary
  IN  CASE beyond(price, Book[id].stop, Book[id].side) -> "stop_loss"
        [] /\ ~beyond(price, Book[id].stop, Book[id].side)
           /\ beyond(price, Book[id].take, Opposite(Book[id].side)) -> "take_profit"
        [] OTHER -> "NULL"
=============================================================================
