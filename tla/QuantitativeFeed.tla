-------------------------- MODULE QuantitativeFeed --------------------------
(***************************************************************************)
(* The feed connector of the scout: analysts/quantitative/feed.go with     *)
(* pkg/groww/feed.go under it and tickstore.go behind it.  The reader      *)
(* (FeedConnection) replaces the snapshot with every message; the poller   *)
(* copies the snapshot, appends a tick per symbol and publishes its price; *)
(* the quoter patches volumes.  An exchange token is named by its symbol.  *)
(***************************************************************************)
EXTENDS FeedConnection, TickStore, FiniteSets

CONSTANTS
  Symbols,      \* the trading universe
  Resolved,     \* symbols whose ExchangeToken has been filled in: none by main's wiring
  MaxTickers,   \* most symbols the ticker store tracks
  Batches,      \* the sets of symbols one feed message may carry
  NoSymbol

ASSUME SymbolsAssumption == IsFiniteSet(Symbols) /\ Symbols # {} /\ NoSymbol \notin Symbols

ASSUME ResolvedAssumption == Resolved \subseteq Symbols

ASSUME MaxTickersAssumption == MaxTickers \in Nat \ {0}

ASSUME BatchesAssumption == Batches \subseteq SUBSET Symbols

VARIABLES
  snapshot,    \* ltpSnapshot: the prices of the last message; empty for nil
  poller,      \* "off", "wait", "append", "publish", "exit"
  pending,     \* what the poller has yet to take from its copy of the snapshot
  current,     \* the symbol whose price is to be published
  quoter,      \* "off", "wait", "poll", "exit"
  toQuote,     \* symbols pollQuotes has yet to ask for
  quoted,      \* the symbol whose quote is under way
  stores,      \* the tick stores; one that was never written is not in the map
  throttled,   \* symbols whose last price was sent less than an interval ago
  heard        \* the last price on signal.price.<symbol>

pollerVars == <<poller, pending, current>>

quoterVars == <<quoter, toQuote, quoted>>

priceVars == <<throttled, heard>>

feedVars == <<snapshot, pollerVars, quoterVars, stores, priceVars>>

vars == <<connectionVars, feedVars>>

Snapshot == UNION {[batch -> Prices] : batch \in SUBSET Symbols}

Nothing == [s \in {} |-> NoPrice]

Without(f, s) == [x \in DOMAIN f \ {s} |-> f[x]]

\* The symbols in the map of the ticker store.
Tracked == {s \in Symbols : count(stores[s]) > 0}

Init ==
  /\ ConnectionInit
  /\ snapshot = Nothing
  /\ poller = "off" /\ pending = Nothing /\ current = NoSymbol
  /\ quoter = "off" /\ toQuote = {} /\ quoted = NoSymbol
  /\ stores = [s \in Symbols |-> NewTickStore]
  /\ throttled = {}
  /\ heard = [s \in Symbols |-> NoPrice]
-----------------------------------------------------------------------------
(* The reader. *)

\* FeedConnector.Start launches both loops once the subscription is written.
Start ==
  /\ StartSubscribe
  /\ poller' = "wait"
  /\ quoter' = "wait"
  /\ UNCHANGED <<snapshot, pending, current, toQuote, quoted, stores, priceVars>>

\* dispatch and handleLTP: the parsed message takes the place of the snapshot.
Message(batch) ==
  /\ reader = "consume"
  /\ conn = "subscribed"
  /\ snapshot' \in [batch -> Prices]
  /\ UNCHANGED <<connectionVars, pollerVars, quoterVars, stores, priceVars>>

Connection ==
  /\ ReaderStep \/ CloseStopChan \/ CloseClient \/ ConnDrops \/ Clock
  /\ UNCHANGED feedVars
-----------------------------------------------------------------------------
(* The poller: pollLoop and processSnapshot. *)

\* GetLTP: the map is replaced as a whole and never written to, so this is a copy.
PollSnapshot ==
  /\ poller = "wait"
  /\ DOMAIN snapshot # {}
  /\ pending' = snapshot
  /\ poller' = "append"
  /\ UNCHANGED <<connectionVars, snapshot, current, quoterVars, stores, priceVars>>

\* tokenSymbol finds the symbol of a token.
tokenSymbol(s) == s \in Resolved

\* A limit that is off by one.
StoreOffByOne(s) == s \in Tracked \/ Cardinality(Tracked) <= MaxTickers

\* Store returns the store of a symbol, or makes one while there are fewer than max.
Store(s) == s \in Tracked \/ Cardinality(Tracked) < MaxTickers

\* processSnapshot goes on with the next token, or returns to the loop.
NextToken(s) ==
  /\ pending' = Without(pending, s)
  /\ poller' = IF DOMAIN pending = {s} THEN "wait" ELSE "append"
  /\ current' = NoSymbol

SkipToken(s) ==
  /\ poller = "append"
  /\ s \in DOMAIN pending
  /\ ~tokenSymbol(s) \/ ~Store(s)
  /\ NextToken(s)
  /\ UNCHANGED <<connectionVars, snapshot, quoterVars, stores, priceVars>>

StoreTick(s) ==
  /\ poller = "append"
  /\ s \in DOMAIN pending
  /\ tokenSymbol(s) /\ Store(s)
  /\ stores' = [stores EXCEPT ![s] = AppendTick(@, [price |-> pending[s], volume |-> NoVolume])]
  /\ current' = s
  /\ poller' = "publish"
  /\ UNCHANGED <<connectionVars, snapshot, pending, quoterVars, priceVars>>

\* publishPrice within PricePublishInterval of the last attempt.
PublishThrottled ==
  /\ poller = "publish"
  /\ current \in throttled
  /\ NextToken(current)
  /\ UNCHANGED <<connectionVars, snapshot, quoterVars, stores, priceVars>>

\* A publisher that looks at the snapshot again.
PublishFresh ==
  /\ poller = "publish"
  /\ current \notin throttled
  /\ throttled' = throttled \cup {current}
  /\ heard' = [heard EXCEPT ![current] = IF current \in DOMAIN snapshot THEN snapshot[current] ELSE @]
  /\ NextToken(current)
  /\ UNCHANGED <<connectionVars, snapshot, quoterVars, stores>>

\* The attempt counts for the throttle whether or not it succeeds; one that only loses
\* its answer is one that succeeds.
PublishPrice ==
  /\ poller = "publish"
  /\ current \notin throttled
  /\ throttled' = throttled \cup {current}
  /\ heard' = [heard EXCEPT ![current] = pending[current]]
  /\ NextToken(current)
  /\ UNCHANGED <<connectionVars, snapshot, quoterVars, stores>>

PublishPriceFails ==
  /\ poller = "publish"
  /\ current \notin throttled
  /\ throttled' = throttled \cup {current}
  /\ NextToken(current)
  /\ UNCHANGED <<connectionVars, snapshot, quoterVars, stores, heard>>

\* A throttle that measures time by the timestamps of the feed.
IntervalByFeedTime(s) ==
  /\ s \in throttled
  /\ conn = "subscribed"
  /\ throttled' = throttled \ {s}
  /\ UNCHANGED <<connectionVars, snapshot, pollerVars, quoterVars, stores, heard>>

\* PricePublishInterval of wall-clock time since the last attempt.
IntervalPasses(s) ==
  /\ s \in throttled
  /\ throttled' = throttled \ {s}
  /\ UNCHANGED <<connectionVars, snapshot, pollerVars, quoterVars, stores, heard>>

PollerStops ==
  /\ poller = "wait"
  /\ FeedStopped
  /\ poller' = "exit"
  /\ UNCHANGED <<connectionVars, snapshot, pending, current, quoterVars, stores, priceVars>>
-----------------------------------------------------------------------------
(* The quoter: quoteLoop and pollQuotes. *)

PollQuotes ==
  /\ quoter = "wait"
  /\ quoter' = "poll"
  /\ toQuote' = Symbols
  /\ UNCHANGED <<connectionVars, snapshot, pollerVars, quoted, stores, priceVars>>

NextQuote(s) ==
  /\ toQuote' = toQuote \ {s}
  /\ quoter' = IF toQuote = {s} THEN "wait" ELSE "poll"
  /\ quoted' = NoSymbol

\* Nothing to patch.
SkipQuote(s) ==
  /\ quoter = "poll" /\ quoted = NoSymbol
  /\ s \in toQuote \ Tracked
  /\ NextQuote(s)
  /\ UNCHANGED <<connectionVars, snapshot, pollerVars, stores, priceVars>>

\* GetQuote is called without a lock.
AskQuote(s) ==
  /\ quoter = "poll" /\ quoted = NoSymbol
  /\ s \in toQuote \cap Tracked
  /\ quoted' = s
  /\ UNCHANGED <<connectionVars, snapshot, pollerVars, quoter, toQuote, stores, priceVars>>

\* The volume goes to the tick that is the newest by now.
PatchVolume(volume) ==
  /\ quoted # NoSymbol
  /\ stores' = [stores EXCEPT ![quoted] = UpdateLatestVolume(@, volume)]
  /\ NextQuote(quoted)
  /\ UNCHANGED <<connectionVars, snapshot, pollerVars, priceVars>>

QuoteFails ==
  /\ quoted # NoSymbol
  /\ NextQuote(quoted)
  /\ UNCHANGED <<connectionVars, snapshot, pollerVars, stores, priceVars>>

QuoterStops ==
  /\ quoter = "wait"
  /\ FeedStopped
  /\ quoter' = "exit"
  /\ UNCHANGED <<connectionVars, snapshot, pollerVars, toQuote, quoted, stores, priceVars>>
-----------------------------------------------------------------------------
Next ==
  \/ Connection
  \/ Start
  \/ \E batch \in Batches : Message(batch)
  \/ PollSnapshot
  \/ \E s \in Symbols : SkipToken(s) \/ StoreTick(s)
  \/ PublishThrottled
  \/ PublishPrice
  \/ PublishPriceFails
  \/ \E s \in Symbols : IntervalPasses(s)
  \/ PollerStops
  \/ PollQuotes
  \/ \E s \in Symbols : SkipQuote(s) \/ AskQuote(s)
  \/ \E volume \in Volumes : PatchVolume(volume)
  \/ QuoteFails
  \/ QuoterStops

Spec == Init /\ [][Next]_vars

Poller ==
  \/ PollSnapshot
  \/ \E s \in Symbols : SkipToken(s) \/ StoreTick(s)
  \/ PublishThrottled \/ PublishPrice \/ PublishPriceFails

Quoter ==
  \/ PollQuotes
  \/ \E s \in Symbols : SkipQuote(s) \/ AskQuote(s)
  \/ \E volume \in Volumes : PatchVolume(volume)
  \/ QuoteFails

\* Goroutines run, throttle intervals pass, Stop goes through once it is called.  The
\* exchange accepts a dial and a subscription, and the stream a price, again and again.
\* A select with both channels ready picks the stop channel some time.
Fairness ==
  /\ WF_vars(Start \/ (ReaderStep /\ UNCHANGED feedVars))
  /\ SF_vars(StartConnect /\ UNCHANGED feedVars)
  /\ SF_vars(Start /\ conn = "open")
  /\ SF_vars(Reconnect /\ UNCHANGED feedVars)
  /\ SF_vars(Resubscribe /\ conn = "open" /\ UNCHANGED feedVars)
  /\ WF_vars(Poller) /\ SF_vars(PublishPrice) /\ SF_vars(PollerStops)
  /\ WF_vars(Quoter) /\ SF_vars(QuoterStops)
  /\ \A s \in Symbols : WF_vars(IntervalPasses(s))
  /\ WF_vars(stopper # "running" /\ (CloseStopChan \/ CloseClient) /\ UNCHANGED feedVars)

FairSpec == Spec /\ Fairness
-----------------------------------------------------------------------------
PollerTypeOK ==
  /\ snapshot \in Snapshot
  /\ poller \in {"off", "wait", "append", "publish", "exit"}
  /\ pending \in Snapshot
  /\ poller \in {"append", "publish"} <=> DOMAIN pending # {}
  /\ current \in DOMAIN pending \cup {NoSymbol}
  /\ poller = "publish" <=> current # NoSymbol

QuoterTypeOK ==
  /\ quoter \in {"off", "wait", "poll", "exit"}
  /\ toQuote \subseteq Symbols
  /\ quoter = "poll" <=> toQuote # {}
  /\ quoted \in toQuote \cup {NoSymbol}

StoreTypeOK ==
  /\ stores \in [Symbols -> RingBuffer]
  /\ Cardinality(Tracked) <= MaxTickers
  /\ throttled \subseteq Tracked
  /\ heard \in [Symbols -> Prices \cup {NoPrice}]

TypeOK == ConnectionTypeOK /\ PollerTypeOK /\ QuoterTypeOK /\ StoreTypeOK

\* The reader never waits on a socket it has not subscribed (feed.go:102).
NeverSilent == reader = "consume" => conn # "open"

\* What is about to be published is what was stored, whatever the quoter has patched.
PublishedIsStored ==
  poller = "publish" =>
    /\ current \in Tracked
    /\ pending[current] = at(stores[current], count(stores[current]) - 1).price

\* Nothing but a fresh dial opens a socket, and a subscription follows it.
OpenIsFresh == conn = "open" => reader \in {"firstSubscribe", "subscribe"}

\* Start launches the loops once.
LoopsAreOff ==
  reader \in {"start", "startPause", "firstSubscribe"} => poller = "off" /\ quoter = "off"

\* The inductive invariant of the proofs.
IInv == TypeOK /\ PublishedIsStored /\ OpenIsFresh /\ LoopsAreOff

Ticks == INSTANCE TickHistory WITH history <- [s \in Symbols |-> History(stores[s])]

\* Two goroutines write the stores of tickstore.go and the detector reads them; what a
\* store holds is the last ticks in order, and only the newest one's volume changes.
ImplementsHistory == Ticks!HistorySpec

\* RecentPrices and RecentVolumes are the end of that history, before and after the
\* buffer wraps.
RecentIsLatest ==
  \A s \in Symbols : \A n \in 0..(Size + 1) :
    Recent(stores[s], n) = Latest(History(stores[s]), n)

\* publishPrice: the exit monitor hears of no price the scout does not hold as the
\* newest of that symbol.
HeardIsNewest ==
  [][\A s \in Symbols :
       heard'[s] # heard[s] => heard'[s] = at(stores[s], count(stores[s]) - 1).price]_vars

\* A dropped feed comes back while the market is open (feed.go:102-105).
FeedRecovers ==
  <>[](IsMarketOpen(now) /\ stopper = "running") => []<>(conn = "subscribed")

\* What the market keeps saying of these symbols, where the store has room for them, is
\* what the exit monitor hears in the end, throttle and failing publishes notwithstanding.
PricesOf(symbols) ==
  \A s \in symbols, p \in Prices :
    <>[](/\ stopper = "running"
         /\ s \in DOMAIN snapshot /\ snapshot[s] = p
         /\ s \in Tracked \/ Cardinality(Symbols) <= MaxTickers)
      => <>[](heard[s] = p)

\* publishPrice passes on the prices of the symbols whose exchange token is known.
ResolvedPricesArrive == PricesOf(Resolved)

\* FeedConnector (feed.go:28-30) is there for "every symbol in the trading universe",
\* whose exchange tokens are "left empty and can be resolved later" (universe.go:67-68).
PricesArrive == PricesOf(Symbols)

\* Stop ends all three goroutines if it comes while the reader is reading.
StopEndsTheLoops ==
  reader = "consume" /\ stopper = "client"
    ~> reader = "exit" /\ poller = "exit" /\ quoter = "exit"
=============================================================================
