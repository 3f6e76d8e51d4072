---------------------------- MODULE ExitMonitor ----------------------------
(***************************************************************************)
(* analysts/trader/exitmonitor.go: the intraday exit monitor of the trader *)
(* agent.  Two goroutines share its cache of open positions and its set of *)
(* in-flight marks under one mutex: the NATS callback of signal.price.*    *)
(* (evaluate and close) and the refresh loop (ListOpen, then install).     *)
(* The database and the stream are touched outside the mutex.              *)
(*                                                                         *)
(* One action is one critical section or one call that leaves the process, *)
(* so that the two goroutines interleave exactly where the code lets them. *)
(***************************************************************************)
EXTENDS PositionTable, MarketClock, FiniteSets

CONSTANTS
  Instants,     \* the minutes at which the clock is observed
  NoId,         \* no position
  MaxCrashes    \* bound on process restarts

VARIABLES
  now,          \* the wall clock
  sent,         \* closing orders accepted by signal.execute.*
  cache,        \* em.cache: the positions believed open
  inFlight,     \* em.inFlight: ids already being closed
  pc,           \* where the price callback is
  targets,      \* the positions this callback still has to close
  current,      \* the target between publish and drop
  price,        \* the price this callback handles
  refreshing,   \* the refresh goroutine holds a ListOpen result
  listed,       \* that result
  crashes

vars == <<now, rows, sent, cache, inFlight, pc, targets, current,
          price, refreshing, listed, crashes>>

handlerVars == <<cache, inFlight, pc, targets, current, price>>

ASSUME InstantsAssumption == Instants \subseteq Nat

ASSUME NoIdAssumption == NoId \notin Ids

ASSUME MaxCrashesAssumption == MaxCrashes \in Nat

Order == [id: Ids, side: Side, reason: ExitReason, price: Prices]

\* A closing order on the side of the position instead of against it.
ClosingOrderSameSide(id, p, reason) ==
  [id |-> id, side |-> Book[id].side, reason |-> reason, price |-> p]

ClosingOrder(id, p, reason) ==
  [id |-> id, side |-> Opposite(Book[id].side), reason |-> reason, price |-> p]

\* Exits are taken between 09:30 and 15:00 only (and at any time of a weekend).
ExitsEnabled(t) == ~IsOpeningBuffer(t) /\ ~IsClosingCutoff(t)

Init ==
  /\ now \in Instants
  /\ rows = [id \in Ids |-> NoRow]
  /\ sent = {}
  /\ cache = {}
  /\ inFlight = {}
  /\ pc = "idle"
  /\ targets = {}
  /\ current = NoId
  /\ price = NoPrice
  /\ refreshing = FALSE
  /\ listed = {}
  /\ crashes = 0
-----------------------------------------------------------------------------
(* The price callback. *)

\* HandlePrice and evaluate: pick under the lock every cached position of the
\* ticker that is not in flight and whose boundary the price crosses, and mark it.
HandlePrice(ticker, p) ==
  LET hit == {id \in cache \ inFlight : /\ Book[id].ticker = ticker
                                        /\ crossed(id, p) # "NULL"}
  IN  /\ pc = "idle"
      /\ ExitsEnabled(now)
      /\ hit # {}
      /\ targets' = hit
      /\ inFlight' = inFlight \cup hit
      /\ price' = p
      /\ pc' = "publish"
      /\ UNCHANGED <<now, rows, sent, cache, current, refreshing,
                     listed, crashes>>

\* A close that leaves the mark set.
FinishTargetKeepingMark(id) ==
  /\ inFlight' = inFlight
  /\ targets' = targets \ {id}
  /\ current' = NoId
  /\ IF targets = {id} THEN pc' = "idle"    /\ price' = NoPrice
                       ELSE pc' = "publish" /\ UNCHANGED price

\* The loop of evaluate goes on with the next target or the callback returns.
\* Both ways out of close clear the in-flight mark of id.
FinishTarget(id) ==
  /\ inFlight' = inFlight \ {id}
  /\ targets' = targets \ {id}
  /\ current' = NoId
  /\ IF targets = {id} THEN pc' = "idle"    /\ price' = NoPrice
                       ELSE pc' = "publish" /\ UNCHANGED price

Record(id) ==
  sent' = sent \cup {ClosingOrder(id, price, crossed(id, price))}

\* close: the closing execution is published and acknowledged.
PublishOk(id) ==
  /\ pc = "publish"
  /\ id \in targets
  /\ Record(id)
  /\ current' = id
  /\ pc' = "mark"
  /\ UNCHANGED <<now, rows, cache, inFlight, targets, price, refreshing, listed,
                 crashes>>

\* A close that goes on to MarkClosed after a failed publish.
PublishFailureIgnored(id) ==
  /\ pc = "publish"
  /\ id \in targets
  /\ current' = id
  /\ pc' = "mark"
  /\ UNCHANGED <<now, rows, sent, cache, inFlight, targets, price,
                 refreshing, listed, crashes>>

\* close: Publish returns an error; the mark is released for the next tick.  The
\* stream may hold the message all the same when only its answer was lost.
PublishFails(id) ==
  /\ pc = "publish"
  /\ id \in targets
  /\ Record(id) \/ UNCHANGED sent
  /\ FinishTarget(id)
  /\ UNCHANGED <<now, rows, cache, refreshing, listed, crashes>>

\* close: MarkClosed returns nil or sql.ErrNoRows.
MarkClosedOk ==
  /\ pc = "mark"
  /\ MarkClosed(current, price, crossed(current, price))
  /\ pc' = "drop"
  /\ UNCHANGED <<now, sent, cache, inFlight, targets, current, price,
                 refreshing, listed, crashes>>

\* close: MarkClosed fails with the row untouched; an update whose answer is lost
\* is MarkClosedOk, for close goes on alike in both cases.
MarkClosedFails ==
  /\ pc = "mark"
  /\ pc' = "drop"
  /\ UNCHANGED <<now, rows, sent, cache, inFlight, targets, current,
                 price, refreshing, listed, crashes>>

\* dropFromCache: the position leaves the cache and its mark is deleted, whether
\* MarkClosed succeeded or not.
DropFromCache ==
  /\ pc = "drop"
  /\ cache' = cache \ {current}
  /\ FinishTarget(current)
  /\ UNCHANGED <<now, rows, sent, refreshing, listed, crashes>>
-----------------------------------------------------------------------------
(* The refresh loop, every ExitRefreshInterval and once when Run starts. *)

\* Refresh reads the open positions outside the mutex.  A failed ListOpen leaves
\* everything as it is and is no step.
RefreshList ==
  /\ ~refreshing
  /\ refreshing' = TRUE
  /\ listed' = ListOpen
  /\ UNCHANGED <<now, rows, sent, handlerVars, crashes>>

\* A refresh that adds to the cache and never removes.
RefreshMerge ==
  /\ refreshing
  /\ cache' = cache \cup listed
  /\ refreshing' = FALSE
  /\ listed' = {}
  /\ UNCHANGED <<now, rows, sent, inFlight, pc, targets, current, price,
                 crashes>>

\* Refresh replaces the cache by what it read.
RefreshInstall ==
  /\ refreshing
  /\ cache' = listed
  /\ refreshing' = FALSE
  /\ listed' = {}
  /\ UNCHANGED <<now, rows, sent, inFlight, pc, targets, current, price,
                 crashes>>
-----------------------------------------------------------------------------
(* The process stops at any point and is started again (restart:           *)
(* unless-stopped): what is in memory is lost, the table and the stream    *)
(* are not.                                                                *)
Restart ==
  /\ crashes < MaxCrashes
  /\ crashes' = crashes + 1
  /\ cache' = {}
  /\ inFlight' = {}
  /\ pc' = "idle"
  /\ targets' = {}
  /\ current' = NoId
  /\ price' = NoPrice
  /\ refreshing' = FALSE
  /\ listed' = {}
  /\ UNCHANGED <<now, rows, sent>>
-----------------------------------------------------------------------------
(* The actors around the monitor: the paper trader opens a position, the   *)
(* square-off routine of the risk manager closes one, the clock advances.  *)

unchangedByOthers == <<sent, handlerVars, refreshing, listed, crashes>>

Fill(id) == Insert(id) /\ UNCHANGED <<now, unchangedByOthers>>

\* The routine runs from 15:15 on, on any day of the week (squareoff.go).
SquareOff(id, p) ==
  /\ MinuteOfDay(now) >= At(15, 15)
  /\ Open(id)
  /\ MarkClosed(id, p, "square_off")
  /\ UNCHANGED <<now, unchangedByOthers>>

TimePasses ==
  /\ \E t \in Instants : t > now /\ now' = t
  /\ UNCHANGED <<rows, unchangedByOthers>>
-----------------------------------------------------------------------------
Close(id) == PublishOk(id) \/ PublishFails(id)

Next ==
  \/ \E ticker \in Tickers, p \in Prices : HandlePrice(ticker, p)
  \/ \E id \in Ids : PublishOk(id)
  \/ \E id \in Ids : PublishFails(id)
  \/ MarkClosedOk
  \/ MarkClosedFails
  \/ DropFromCache
  \/ RefreshList
  \/ RefreshInstall
  \/ Restart
  \/ \E id \in Ids : Fill(id)
  \/ \E id \in Ids, p \in Prices : SquareOff(id, p)
  \/ TimePasses

Spec == Init /\ [][Next]_vars

\* The goroutines run; the stream and the database answer again and again; the
\* market comes back beyond the boundary of a position that the monitor watches.
Fairness ==
  /\ WF_vars(RefreshList) /\ WF_vars(RefreshInstall)
  /\ WF_vars(\E id \in Ids : Close(id))
  /\ WF_vars(MarkClosedOk \/ MarkClosedFails)
  /\ WF_vars(DropFromCache)
  /\ SF_vars(MarkClosedOk)
  /\ \A id \in Ids :
       /\ SF_vars(PublishOk(id))
       /\ SF_vars(\E p \in Prices : id \in cache /\ crossed(id, p) # "NULL"
                                    /\ HandlePrice(Book[id].ticker, p))

FairSpec == Spec /\ Fairness
-----------------------------------------------------------------------------
TypeOK ==
  /\ now \in Instants
  /\ rows \in [Ids -> Row]
  /\ sent \subseteq Order
  /\ cache \subseteq Ids
  /\ inFlight \subseteq Ids
  /\ pc \in {"idle", "publish", "mark", "drop"}
  /\ targets \subseteq Ids
  /\ (pc = "idle") <=> (targets = {})
  /\ current \in Ids \cup {NoId}
  /\ price \in Prices \cup {NoPrice}
  /\ refreshing \in BOOLEAN
  /\ listed \subseteq Ids
  /\ crashes \in 0..MaxCrashes

\* Where the callback is and what it holds agree.
StageOK ==
  /\ pc \in {"mark", "drop"} => current \in targets
  /\ pc # "idle" => /\ price \in Prices
                    /\ \A id \in targets : crossed(id, price) # "NULL"

\* Whatever the monitor holds was once read from the table.
HeldWasFilled ==
  \A id \in cache \cup listed \cup targets : rows[id].status # "ABSENT"

\* The order of the target being booked is on the stream.
OrderSent ==
  pc \in {"mark", "drop"} =>
    ClosingOrder(current, price, crossed(current, price)) \in sent

\* The marks are exactly the positions the running callback has yet to close.  A
\* mark left behind would take its position out of every later evaluate: it
\* could never hit its stop again.
MarksAreClosings == inFlight = targets

\* A row closed for a boundary was liquidated first: the order that closes it,
\* against its side, at its exit price, for its exit reason, is on the stream.
\* Failures, stale cache entries and restarts never close the books on a position
\* the market was not told to close.
ClosedWasLiquidated ==
  \A id \in Ids :
    rows[id].exit_reason \in {"stop_loss", "take_profit"} =>
      \E order \in sent : /\ order.id = id
                          /\ order.side # Book[id].side
                          /\ order.reason = rows[id].exit_reason
                          /\ order.price = rows[id].exit_price

\* The exit price of a row justifies its exit reason: a stop-loss is booked at the
\* stop or worse, a take-profit at the target or better, whatever the side.
ExitPriceJustified ==
  \A id \in Ids :
    LET exit == rows[id].exit_price
        long == Book[id].side = "LONG"
    IN  CASE rows[id].exit_reason = "stop_loss" ->
               IF long THEN exit <= Book[id].stop ELSE exit >= Book[id].stop
          [] rows[id].exit_reason = "take_profit" ->
               IF long THEN exit >= Book[id].take ELSE exit <= Book[id].take
          [] OTHER -> TRUE

\* A closed row never changes again: the second close of a position, from a stale
\* cache entry or from the square-off, alters neither its price nor its reason.
ClosedIsFinal == [][\A id \in Ids : Closed(id) => rows'[id] = rows[id]]_vars

\* The inductive invariant of the proofs.
IInv == /\ TypeOK
        /\ StageOK
        /\ MarksAreClosings
        /\ HeldWasFilled
        /\ OrderSent
        /\ ClosedWasLiquidated

Promise == INSTANCE Liquidation

\* The monitor implements the abstract liquidation.
ImplementsLiquidation == Promise!LiquidationSpec

\* As long as exits are enabled, a position that the market keeps beyond its
\* boundary is closed: no failure, race or restart takes it out of the monitor's
\* sight for good.
CrossedPositionCloses ==
  \A id \in Ids :
    (Open(id) /\ ExitsEnabled(now)) ~> (Closed(id) \/ ~ExitsEnabled(now))

\* A closed position leaves the cache for good, even when a refresh that read it
\* open installs it after it was dropped.
ClosedLeavesCache == \A id \in Ids : Closed(id) ~> [](id \notin cache)

\* exitmonitor.go:44 and :125: the in-flight mark makes closing idempotent, a
\* position the monitor has closed is not fired again.
NoDoubleFire ==
  [][\A id \in Ids :
       /\ rows[id].exit_reason \in {"stop_loss", "take_profit"}
       /\ current # id
       => current' # id]_vars
=============================================================================
