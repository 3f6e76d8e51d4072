----------------------- MODULE QuantitativeFeed_proofs -----------------------
(***************************************************************************)
(* For every universe, every capacity of the stores and every limit on     *)
(* their number: the types of the feed, that the stores are bounded        *)
(* queues, that readers get their end, and that the exit monitor hears     *)
(* the newest price.                                                       *)
(***************************************************************************)
EXTENDS QuantitativeFeed, TickStore_proofs, FiniteSetTheorems

\* What it takes to be a snapshot.
LEMMA SnapshotForm ==
  ASSUME NEW f
  PROVE  f \in Snapshot <=> /\ f = [s \in DOMAIN f |-> f[s]]
                            /\ DOMAIN f \subseteq Symbols
                            /\ \A s \in DOMAIN f : f[s] \in Prices
BY DEF Snapshot

\* An empty snapshot, and one without a symbol.
LEMMA NothingType == Nothing \in Snapshot /\ DOMAIN Nothing = {}
BY SnapshotForm DEF Nothing

\* Taking a symbol out of a snapshot leaves a snapshot.
LEMMA WithoutType ==
  ASSUME NEW f \in Snapshot, NEW s
  PROVE  Without(f, s) \in Snapshot /\ DOMAIN Without(f, s) = DOMAIN f \ {s}
<1>1. DOMAIN Without(f, s) = DOMAIN f \ {s}
  BY DEF Without
<1>2. \A x \in DOMAIN f \ {s} : Without(f, s)[x] = f[x]
  BY DEF Without
<1>3. Without(f, s) = [x \in DOMAIN Without(f, s) |-> Without(f, s)[x]]
  BY <1>1, <1>2 DEF Without
<1> QED BY <1>1, <1>2, <1>3, SnapshotForm

\* NextToken keeps the poller's variables in step.
LEMMA NextTokenType ==
  ASSUME PollerTypeOK, NEW s \in DOMAIN pending, NextToken(s), UNCHANGED snapshot
  PROVE  PollerTypeOK' /\ poller' # "publish" /\ poller' # "off"
<1>1. pending' \in Snapshot /\ DOMAIN pending' = DOMAIN pending \ {s}
  BY WithoutType DEF PollerTypeOK, NextToken
<1>2. CASE DOMAIN pending = {s}
  BY <1>1, <1>2 DEF PollerTypeOK, NextToken
<1>3. CASE DOMAIN pending # {s}
  BY <1>1, <1>3 DEF PollerTypeOK, NextToken
<1> QED BY <1>2, <1>3

\* NextQuote keeps the quoter's variables in step.
LEMMA NextQuoteType ==
  ASSUME QuoterTypeOK, NEW s \in toQuote, NextQuote(s)
  PROVE  QuoterTypeOK' /\ quoter' # "off"
BY DEF QuoterTypeOK, NextQuote

\* What the steps of the connection alone leave alone.
LEMMA ConnectionStep ==
  ASSUME ConnectionTypeOK, OpenIsFresh, Connection
  PROVE  /\ ConnectionTypeOK'
         /\ OpenIsFresh'
         /\ reader' \in {"start", "startPause", "firstSubscribe"} =>
              reader \in {"start", "startPause", "firstSubscribe"}
<1> USE DEF ConnectionTypeOK, OpenIsFresh, Connection
<1>1. CASE StartDeferred \/ StartConnect \/ StartPause \/ StartSubscribeFails
  BY <1>1 DEF StartDeferred, StartConnect, StartPause, StartSubscribeFails, Goto, Connect, Pause
<1>2. CASE ConsumeReturns \/ CheckStop \/ WaitForMarket \/ MarketPause
  BY <1>2 DEF ConsumeReturns, CheckStop, WaitForMarket, MarketPause, Goto, Pause
<1>3. CASE Reconnect \/ ReconnectFails \/ Resubscribe
  BY <1>3 DEF Reconnect, ReconnectFails, Resubscribe, Goto, Connect, Subscribe
<1>4. CASE ResubscribeFails \/ RetryPause
  BY <1>4 DEF ResubscribeFails, RetryPause, Goto, Pause
<1>5. CASE CloseStopChan \/ CloseClient
  BY <1>5 DEF CloseStopChan, CloseClient
<1>6. CASE ConnDrops \/ Clock
  BY <1>6 DEF ConnDrops, Clock
<1> QED BY <1>1, <1>2, <1>3, <1>4, <1>5, <1>6 DEF ReaderStep

\* The poller keeps its types; it publishes only what it took from a snapshot.
LEMMA PollerStep ==
  ASSUME PollerTypeOK, LoopsAreOff, [Next]_vars
  PROVE  PollerTypeOK'
<1>1. CASE Connection \/ UNCHANGED vars
  BY <1>1 DEF Connection, feedVars, vars, pollerVars, PollerTypeOK
<1>2. CASE Start
  <2>1. poller = "off"
    BY <1>2 DEF Start, StartSubscribe, Subscribe, Goto, LoopsAreOff
  <2> QED BY <1>2, <2>1 DEF Start, PollerTypeOK
<1>3. ASSUME NEW batch \in Batches, Message(batch)
      PROVE  PollerTypeOK'
  <2>1. snapshot' \in Snapshot
    BY <1>3, BatchesAssumption DEF Message, Snapshot
  <2> QED BY <1>3, <2>1 DEF Message, pollerVars, PollerTypeOK
<1>4. CASE PollSnapshot
  BY <1>4 DEF PollSnapshot, PollerTypeOK
<1>5. ASSUME NEW s \in Symbols, SkipToken(s)
      PROVE  PollerTypeOK'
  BY <1>5, NextTokenType DEF SkipToken
<1>6. ASSUME NEW s \in Symbols, StoreTick(s)
      PROVE  PollerTypeOK'
  BY <1>6, SymbolsAssumption DEF StoreTick, PollerTypeOK
<1>7. CASE PublishThrottled \/ PublishPrice \/ PublishPriceFails
  <2>1. current \in DOMAIN pending /\ NextToken(current) /\ UNCHANGED snapshot
    BY <1>7 DEF PublishThrottled, PublishPrice, PublishPriceFails, PollerTypeOK
  <2> QED BY <2>1, NextTokenType
<1>8. ASSUME NEW s \in Symbols, IntervalPasses(s)
      PROVE  PollerTypeOK'
  BY <1>8 DEF IntervalPasses, pollerVars, PollerTypeOK
<1>9. CASE PollerStops
  BY <1>9 DEF PollerStops, PollerTypeOK
<1>10. CASE PollQuotes \/ QuoteFails \/ QuoterStops
  BY <1>10 DEF PollQuotes, QuoteFails, QuoterStops, pollerVars, PollerTypeOK
<1>11. ASSUME NEW s \in Symbols, SkipQuote(s) \/ AskQuote(s)
       PROVE  PollerTypeOK'
  BY <1>11 DEF SkipQuote, AskQuote, pollerVars, PollerTypeOK
<1>12. ASSUME NEW volume \in Volumes, PatchVolume(volume)
       PROVE  PollerTypeOK'
  BY <1>12 DEF PatchVolume, pollerVars, PollerTypeOK
<1> QED BY <1>1, <1>2, <1>3, <1>4, <1>5, <1>6, <1>7, <1>8, <1>9, <1>10, <1>11, <1>12 DEF Next

\* The quoter keeps its types.
LEMMA QuoterStep ==
  ASSUME QuoterTypeOK, LoopsAreOff, [Next]_vars
  PROVE  QuoterTypeOK'
<1>1. CASE Connection \/ UNCHANGED vars
  BY <1>1 DEF Connection, feedVars, vars, quoterVars, QuoterTypeOK
<1>2. CASE Start
  <2>1. quoter = "off"
    BY <1>2 DEF Start, StartSubscribe, Subscribe, Goto, LoopsAreOff
  <2> QED BY <1>2, <2>1 DEF Start, QuoterTypeOK
<1>3. ASSUME NEW batch \in Batches, Message(batch)
      PROVE  QuoterTypeOK'
  BY <1>3 DEF Message, quoterVars, QuoterTypeOK
<1>4. CASE PollSnapshot \/ PublishThrottled \/ PublishPrice \/ PublishPriceFails \/ PollerStops
  BY <1>4 DEF PollSnapshot, PublishThrottled, PublishPrice, PublishPriceFails, PollerStops,
     quoterVars, QuoterTypeOK
<1>5. ASSUME NEW s \in Symbols, SkipToken(s) \/ StoreTick(s) \/ IntervalPasses(s)
      PROVE  QuoterTypeOK'
  BY <1>5 DEF SkipToken, StoreTick, IntervalPasses, quoterVars, QuoterTypeOK
<1>6. CASE PollQuotes
  BY <1>6, SymbolsAssumption DEF PollQuotes, QuoterTypeOK
<1>7. ASSUME NEW s \in Symbols, SkipQuote(s)
      PROVE  QuoterTypeOK'
  BY <1>7, NextQuoteType DEF SkipQuote
<1>8. ASSUME NEW s \in Symbols, AskQuote(s)
      PROVE  QuoterTypeOK'
  BY <1>8 DEF AskQuote, QuoterTypeOK
<1>9. ASSUME NEW volume \in Volumes, PatchVolume(volume)
      PROVE  QuoterTypeOK'
  <2>1. quoted \in toQuote /\ NextQuote(quoted)
    BY <1>9 DEF PatchVolume, QuoterTypeOK
  <2> QED BY <2>1, NextQuoteType
<1>10. CASE QuoteFails
  <2>1. quoted \in toQuote /\ NextQuote(quoted)
    BY <1>10 DEF QuoteFails, QuoterTypeOK
  <2> QED BY <2>1, NextQuoteType
<1>11. CASE QuoterStops
  BY <1>11 DEF QuoterStops, QuoterTypeOK
<1> QED BY <1>1, <1>2, <1>3, <1>4, <1>5, <1>6, <1>7, <1>8, <1>9, <1>10, <1>11 DEF Next

\* The tick the poller stores.
NewTick(s) == [price |-> pending[s], volume |-> NoVolume]

\* A stored tick is the newest of its store, and the store is tracked from then on.
LEMMA StoreTickEffect ==
  ASSUME StoreTypeOK, PollerTypeOK, NEW s \in Symbols, StoreTick(s)
  PROVE  /\ NewTick(s) \in Tick
         /\ stores' = [stores EXCEPT ![s] = AppendTick(stores[s], NewTick(s))]
         /\ stores' \in [Symbols -> RingBuffer]
         /\ Tracked' = Tracked \cup {s}
         /\ at(stores'[s], count(stores'[s]) - 1) = NewTick(s)
<1>1. stores \in [Symbols -> RingBuffer] /\ stores[s] \in RingBuffer
  BY DEF StoreTypeOK
<1>2. NewTick(s) \in Tick
  BY SnapshotForm, VolumesAssumption DEF StoreTick, PollerTypeOK, NewTick, Tick
<1>3. stores' = [stores EXCEPT ![s] = AppendTick(stores[s], NewTick(s))]
  BY DEF StoreTick, NewTick
<1> DEFINE new == AppendTick(stores[s], NewTick(s))
<1>4. /\ new \in RingBuffer
      /\ count(new) \in 1..Size
      /\ at(new, count(new) - 1) = NewTick(s)
  <2>1. new \in RingBuffer /\ count(new) = IF count(stores[s]) < Size THEN count(stores[s]) + 1 ELSE Size
    BY <1>1, <1>2, AppendType
  <2>2. count(new) \in 1..Size
    BY <2>1, <1>1, Fields, SizeAssumption
  <2>3. count(new) - 1 \in 0..(count(new) - 1)
    BY <2>2, SizeAssumption
  <2> QED BY <2>1, <2>2, <2>3, <1>1, <1>2, AppendAt
<1> HIDE DEF new
<1>5. stores' \in [Symbols -> RingBuffer] /\ stores'[s] = new
      /\ \A x \in Symbols : x # s => stores'[x] = stores[x]
  BY <1>1, <1>3, <1>4 DEF new
<1>6. Tracked' = Tracked \cup {s}
  <2>1. count(stores'[s]) > 0
    BY <1>4, <1>5, SizeAssumption
  <2> QED BY <1>5, <2>1 DEF Tracked
<1> QED BY <1>2, <1>3, <1>4, <1>5, <1>6

\* A patched volume changes no price and no set of tracked symbols.
LEMMA PatchVolumeEffect ==
  ASSUME StoreTypeOK, QuoterTypeOK, NEW volume \in Volumes, PatchVolume(volume)
  PROVE  /\ quoted \in Symbols
         /\ stores' = [stores EXCEPT ![quoted] = UpdateLatestVolume(stores[quoted], volume)]
         /\ stores' \in [Symbols -> RingBuffer]
         /\ Tracked' = Tracked
         /\ \A s \in Tracked : at(stores'[s], count(stores'[s]) - 1).price
                               = at(stores[s], count(stores[s]) - 1).price
<1>1. quoted \in Symbols /\ stores \in [Symbols -> RingBuffer] /\ stores[quoted] \in RingBuffer
  BY DEF StoreTypeOK, QuoterTypeOK, PatchVolume
<1>2. stores' = [stores EXCEPT ![quoted] = UpdateLatestVolume(stores[quoted], volume)]
  BY DEF PatchVolume
<1> DEFINE new == UpdateLatestVolume(stores[quoted], volume)
<1>3. new \in RingBuffer /\ count(new) = count(stores[quoted])
  BY <1>1, UpdateIsPatch
<1>4. count(stores[quoted]) # 0 =>
        at(new, count(new) - 1).price = at(stores[quoted], count(stores[quoted]) - 1).price
  <2>1. CASE count(stores[quoted]) # 0
    <3>1. at(new, count(stores[quoted]) - 1)
            = [at(stores[quoted], count(stores[quoted]) - 1) EXCEPT !.volume = volume]
      BY <1>1, <2>1, UpdateAt
    <3>2. at(stores[quoted], count(stores[quoted]) - 1) \in Cell
      BY <1>1, <2>1, LatestSlot, Fields
    <3> QED BY <3>1, <3>2, <1>3 DEF Cell
  <2> QED BY <2>1
<1> HIDE DEF new
<1>5. /\ stores' \in [Symbols -> RingBuffer] /\ stores'[quoted] = new
      /\ \A x \in Symbols : x # quoted => stores'[x] = stores[x]
  BY <1>1, <1>2, <1>3 DEF new
<1>6. Tracked' = Tracked
  BY <1>3, <1>5 DEF Tracked
<1>7. ASSUME NEW s \in Tracked
      PROVE  at(stores'[s], count(stores'[s]) - 1).price = at(stores[s], count(stores[s]) - 1).price
  <2>1. s \in Symbols /\ count(stores[s]) # 0
    BY Fields DEF Tracked, StoreTypeOK
  <2> QED BY <2>1, <1>4, <1>5
<1> QED BY <1>1, <1>2, <1>5, <1>6, <1>7

\* The stores keep their types and the ticker store its limit.
LEMMA StoreStep ==
  ASSUME StoreTypeOK, PollerTypeOK, QuoterTypeOK, PublishedIsStored, [Next]_vars
  PROVE  StoreTypeOK'
<1>1. CASE UNCHANGED <<stores, throttled, heard>>
  BY <1>1 DEF StoreTypeOK, Tracked
<1>2. CASE Connection \/ UNCHANGED vars
  BY <1>1, <1>2 DEF Connection, feedVars, vars, priceVars
<1>3. CASE Start \/ PollSnapshot \/ PublishThrottled \/ PollerStops \/ PollQuotes \/ QuoteFails \/ QuoterStops
  BY <1>1, <1>3 DEF Start, PollSnapshot, PublishThrottled, PollerStops, PollQuotes, QuoteFails,
     QuoterStops, priceVars
<1>4. ASSUME NEW batch \in Batches, Message(batch)
      PROVE  StoreTypeOK'
  BY <1>1, <1>4 DEF Message, priceVars
<1>5. ASSUME NEW s \in Symbols, SkipToken(s) \/ SkipQuote(s) \/ AskQuote(s)
      PROVE  StoreTypeOK'
  BY <1>1, <1>5 DEF SkipToken, SkipQuote, AskQuote, priceVars
<1>6. ASSUME NEW s \in Symbols, StoreTick(s)
      PROVE  StoreTypeOK'
  <2>1. stores' \in [Symbols -> RingBuffer] /\ Tracked' = Tracked \cup {s}
    BY <1>6, StoreTickEffect
  <2>2. IsFiniteSet(Tracked)
    BY SymbolsAssumption, FS_Subset DEF Tracked
  <2>3. Cardinality(Tracked \cup {s}) <= MaxTickers
    <3>1. CASE s \in Tracked
      <4>1. Tracked \cup {s} = Tracked
        BY <3>1
      <4> QED BY <4>1 DEF StoreTypeOK
    <3>2. CASE s \notin Tracked
      <4>1. Cardinality(Tracked) < MaxTickers
        BY <1>6, <3>2 DEF StoreTick, Store
      <4>2. Cardinality(Tracked \cup {s}) = Cardinality(Tracked) + 1 /\ Cardinality(Tracked) \in Nat
        BY <2>2, <3>2, FS_AddElement, FS_CardinalityType
      <4> QED BY <4>1, <4>2, MaxTickersAssumption
    <3> QED BY <3>1, <3>2
  <2> QED BY <1>6, <2>1, <2>3 DEF StoreTick, priceVars, StoreTypeOK
<1>7. CASE PublishPrice \/ PublishPriceFails
  <2>1. current \in Tracked /\ UNCHANGED stores /\ throttled' = throttled \cup {current}
    BY <1>7 DEF PublishPrice, PublishPriceFails, PublishedIsStored
  <2>2. current \in DOMAIN pending /\ pending[current] \in Prices
    BY <1>7, SnapshotForm DEF PublishPrice, PublishPriceFails, PollerTypeOK
  <2>3. heard' \in [Symbols -> Prices \cup {NoPrice}]
    BY <1>7, <2>2 DEF PublishPrice, PublishPriceFails, StoreTypeOK
  <2> QED BY <2>1, <2>3 DEF StoreTypeOK, Tracked
<1>8. ASSUME NEW s \in Symbols, IntervalPasses(s)
      PROVE  StoreTypeOK'
  BY <1>8 DEF IntervalPasses, StoreTypeOK, Tracked
<1>9. ASSUME NEW volume \in Volumes, PatchVolume(volume)
      PROVE  StoreTypeOK'
  <2>1. stores' \in [Symbols -> RingBuffer] /\ Tracked' = Tracked
    BY <1>9, PatchVolumeEffect
  <2> QED BY <1>9, <2>1 DEF PatchVolume, priceVars, StoreTypeOK
<1> QED BY <1>2, <1>3, <1>4, <1>5, <1>6, <1>7, <1>8, <1>9 DEF Next

\* The price to be published stays the newest one of its store while the quoter works.
LEMMA PublishedStep ==
  ASSUME StoreTypeOK, PollerTypeOK, QuoterTypeOK, PublishedIsStored, [Next]_vars
  PROVE  PublishedIsStored'
<1>1. CASE UNCHANGED <<poller, pending, current, stores>>
  BY <1>1 DEF PublishedIsStored, Tracked
<1>2. CASE Connection \/ UNCHANGED vars
  BY <1>1, <1>2 DEF Connection, feedVars, vars, pollerVars
<1>3. CASE Start \/ PollSnapshot \/ PollerStops
  BY <1>3 DEF Start, PollSnapshot, PollerStops, PublishedIsStored
<1>4. ASSUME NEW batch \in Batches, Message(batch)
      PROVE  PublishedIsStored'
  BY <1>1, <1>4 DEF Message, pollerVars
<1>5. ASSUME NEW s \in Symbols, SkipToken(s)
      PROVE  PublishedIsStored'
  BY <1>5, NextTokenType DEF SkipToken, PublishedIsStored
<1>6. ASSUME NEW s \in Symbols, StoreTick(s)
      PROVE  PublishedIsStored'
  <2>1. current' = s /\ pending' = pending
    BY <1>6 DEF StoreTick
  <2>2. Tracked' = Tracked \cup {s} /\ at(stores'[s], count(stores'[s]) - 1) = NewTick(s)
    BY <1>6, StoreTickEffect
  <2>3. NewTick(s).price = pending[s]
    BY DEF NewTick
  <2>4. s \in Tracked' /\ at(stores'[s], count(stores'[s]) - 1).price = pending[s]
    BY <2>2, <2>3
  <2> QED BY <2>1, <2>4 DEF PublishedIsStored
<1>7. CASE PublishThrottled \/ PublishPrice \/ PublishPriceFails
  <2>1. current \in DOMAIN pending /\ NextToken(current) /\ UNCHANGED snapshot
    BY <1>7 DEF PublishThrottled, PublishPrice, PublishPriceFails, PollerTypeOK
  <2> QED BY <2>1, NextTokenType DEF PublishedIsStored
<1>8. ASSUME NEW s \in Symbols, IntervalPasses(s) \/ SkipQuote(s) \/ AskQuote(s)
      PROVE  PublishedIsStored'
  BY <1>1, <1>8 DEF IntervalPasses, SkipQuote, AskQuote, pollerVars
<1>9. CASE PollQuotes \/ QuoteFails \/ QuoterStops
  BY <1>1, <1>9 DEF PollQuotes, QuoteFails, QuoterStops, pollerVars
<1>10. ASSUME NEW volume \in Volumes, PatchVolume(volume)
       PROVE  PublishedIsStored'
  <2>1. /\ Tracked' = Tracked
        /\ \A s \in Tracked : at(stores'[s], count(stores'[s]) - 1).price
                              = at(stores[s], count(stores[s]) - 1).price
    BY <1>10, PatchVolumeEffect
  <2> QED BY <1>10, <2>1 DEF PatchVolume, pollerVars, PublishedIsStored
<1> QED BY <1>2, <1>3, <1>4, <1>5, <1>6, <1>7, <1>8, <1>9, <1>10 DEF Next

\* The connection, and the loops it starts.
LEMMA ConnectionParts ==
  ASSUME ConnectionTypeOK, QuoterTypeOK, OpenIsFresh, LoopsAreOff, [Next]_vars
  PROVE  ConnectionTypeOK' /\ OpenIsFresh' /\ LoopsAreOff'
<1>1. CASE Connection
  BY <1>1, ConnectionStep DEF Connection, feedVars, pollerVars, quoterVars, LoopsAreOff
<1>2. CASE Start
  BY <1>2 DEF Start, StartSubscribe, Subscribe, Goto, ConnectionTypeOK, OpenIsFresh, LoopsAreOff
<1>3. CASE UNCHANGED connectionVars /\ (poller' = "off" <=> poller = "off")
                                    /\ (quoter' = "off" <=> quoter = "off")
  BY <1>3 DEF connectionVars, ConnectionTypeOK, OpenIsFresh, LoopsAreOff
<1>4. CASE UNCHANGED vars
  BY <1>3, <1>4 DEF vars, feedVars, pollerVars, quoterVars
<1>5. ASSUME NEW batch \in Batches, Message(batch)
      PROVE  ConnectionTypeOK' /\ OpenIsFresh' /\ LoopsAreOff'
  BY <1>3, <1>5 DEF Message, pollerVars, quoterVars
<1>6. CASE PollSnapshot \/ PollerStops
  BY <1>3, <1>6 DEF PollSnapshot, PollerStops, quoterVars
<1>7. CASE PublishThrottled \/ PublishPrice \/ PublishPriceFails
  <2>1. poller = "publish" /\ poller' # "off"
    BY <1>7 DEF PublishThrottled, PublishPrice, PublishPriceFails, NextToken
  <2> QED BY <1>3, <1>7, <2>1 DEF PublishThrottled, PublishPrice, PublishPriceFails, quoterVars
<1>8. ASSUME NEW s \in Symbols, SkipToken(s) \/ StoreTick(s)
      PROVE  ConnectionTypeOK' /\ OpenIsFresh' /\ LoopsAreOff'
  BY <1>3, <1>8 DEF SkipToken, StoreTick, NextToken, quoterVars
<1>9. ASSUME NEW s \in Symbols, IntervalPasses(s) \/ AskQuote(s)
      PROVE  ConnectionTypeOK' /\ OpenIsFresh' /\ LoopsAreOff'
  BY <1>3, <1>9 DEF IntervalPasses, AskQuote, pollerVars, quoterVars
<1>10. ASSUME NEW s \in Symbols, SkipQuote(s)
       PROVE  ConnectionTypeOK' /\ OpenIsFresh' /\ LoopsAreOff'
  BY <1>3, <1>10 DEF SkipQuote, NextQuote, pollerVars
<1>11. CASE PollQuotes \/ QuoterStops
  BY <1>3, <1>11 DEF PollQuotes, QuoterStops, pollerVars
<1>12. CASE QuoteFails
  <2>1. quoter = "poll" /\ quoter' # "off"
    BY <1>12 DEF QuoteFails, NextQuote, QuoterTypeOK
  <2> QED BY <1>3, <1>12, <2>1 DEF QuoteFails, pollerVars
<1>13. ASSUME NEW volume \in Volumes, PatchVolume(volume)
       PROVE  ConnectionTypeOK' /\ OpenIsFresh' /\ LoopsAreOff'
  <2>1. quoter = "poll" /\ quoter' # "off"
    BY <1>13 DEF PatchVolume, NextQuote, QuoterTypeOK
  <2> QED BY <1>3, <1>13, <2>1 DEF PatchVolume, pollerVars
<1> QED BY <1>1, <1>2, <1>4, <1>5, <1>6, <1>7, <1>8, <1>9, <1>10, <1>11, <1>12, <1>13 DEF Next

\* The initial states of the feed satisfy the inductive invariant.
LEMMA InitIInv == Init => IInv
<1> SUFFICES ASSUME Init PROVE IInv
  OBVIOUS
<1>1. ConnectionTypeOK /\ OpenIsFresh /\ LoopsAreOff /\ PublishedIsStored
  BY DEF Init, ConnectionInit, ConnectionTypeOK, OpenIsFresh, LoopsAreOff, PublishedIsStored
<1>2. PollerTypeOK /\ QuoterTypeOK
  BY NothingType DEF Init, PollerTypeOK, QuoterTypeOK
<1>3. StoreTypeOK
  <2>1. stores \in [Symbols -> RingBuffer] /\ Tracked = {}
    BY NewTickStoreType DEF Init, Tracked
  <2>2. Cardinality(Tracked) <= MaxTickers
    BY <2>1, FS_EmptySet, MaxTickersAssumption
  <2> QED BY <2>1, <2>2 DEF Init, StoreTypeOK
<1> QED BY <1>1, <1>2, <1>3 DEF IInv, TypeOK

\* Every step of reader, poller, quoter and Stop preserves it.
LEMMA StepIInv == IInv /\ [Next]_vars => IInv'
BY ConnectionParts, PollerStep, QuoterStep, StoreStep, PublishedStep DEF IInv, TypeOK

\* The inductive invariant.
THEOREM Invariance == Spec => []IInv
BY InitIInv, StepIInv, PTL DEF Spec

\* The variables of the feed keep their types, and the ticker store its limit.
THEOREM TypeCorrect == Spec => []TypeOK
<1>1. IInv => TypeOK
  BY DEF IInv
<1> QED BY <1>1, Invariance, PTL

\* The reader never waits on a socket it has not subscribed.
THEOREM ReaderIsSubscribed == Spec => []NeverSilent
<1>1. IInv => NeverSilent
  BY DEF IInv, OpenIsFresh, NeverSilent
<1> QED BY <1>1, Invariance, PTL

\* RecentPrices and RecentVolumes return the end of the history.
THEOREM ReadersGetTheLatest == Spec => []RecentIsLatest
<1>1. IInv => RecentIsLatest
  <2> SUFFICES ASSUME IInv, NEW s \in Symbols, NEW n \in 0..(Size + 1)
               PROVE  Recent(stores[s], n) = Latest(History(stores[s]), n)
    BY DEF RecentIsLatest
  <2>1. stores[s] \in RingBuffer /\ n \in Nat
    BY SizeAssumption DEF IInv, TypeOK, StoreTypeOK
  <2> QED BY <2>1, RecentIsSuffix
<1> QED BY <1>1, Invariance, PTL

\* The exit monitor hears the newest price of a symbol.
THEOREM HearsTheNewest == Spec => HeardIsNewest
<1> DEFINE Step == \A s \in Symbols : heard'[s] # heard[s] =>
                     heard'[s] = at(stores[s], count(stores[s]) - 1).price
<1>1. IInv /\ [Next]_vars => [Step]_vars
  <2> SUFFICES ASSUME IInv, [Next]_vars PROVE [Step]_vars
    OBVIOUS
  <2>1. CASE UNCHANGED heard
    BY <2>1
  <2>2. CASE PublishPrice
    <3>1. poller = "publish" /\ heard' = [heard EXCEPT ![current] = pending[current]]
      BY <2>2 DEF PublishPrice
    <3>2. pending[current] = at(stores[current], count(stores[current]) - 1).price
      BY <3>1 DEF IInv, PublishedIsStored
    <3>3. heard \in [Symbols -> Prices \cup {NoPrice}]
      BY DEF IInv, TypeOK, StoreTypeOK
    <3> HIDE DEF IInv
    <3> QED BY <3>1, <3>2, <3>3
  <2>3. PublishPrice \/ UNCHANGED heard
    BY DEF Next, vars, feedVars, priceVars, Connection, Start, Message, PollSnapshot, SkipToken,
       StoreTick, PublishThrottled, PublishPriceFails, IntervalPasses, PollerStops, PollQuotes,
       SkipQuote, AskQuote, PatchVolume, QuoteFails, QuoterStops
  <2> QED BY <2>1, <2>2, <2>3
<1>2. Spec => [][Step]_vars
  BY <1>1, Invariance, PTL DEF Spec
<1> QED BY <1>2 DEF HeardIsNewest

\* The histories the stores stand for.
Histories == [s \in Symbols |-> History(stores[s])]

\* A store has a history if and only if it is tracked.
LEMMA KnownIsTracked ==
  ASSUME StoreTypeOK
  PROVE  {s \in Symbols : Histories[s] # <<>>} = Tracked
<1> SUFFICES ASSUME NEW s \in Symbols
             PROVE  Histories[s] # <<>> <=> count(stores[s]) > 0
  BY DEF Tracked
<1>1. stores[s] \in RingBuffer
  BY DEF StoreTypeOK
<1>2. /\ Histories[s] \in Seq(Cell) /\ Len(Histories[s]) = count(stores[s])
      /\ count(stores[s]) \in Nat
  BY <1>1, HistoryType, Fields, SizeAssumption DEF Histories
<1> QED BY <1>2

\* Every step of the feed is a tick, a patch or no step of the history.
LEMMA StepHistory == IInv /\ [Next]_vars => [Ticks!HistoryNext]_Histories
<1> SUFFICES ASSUME IInv, [Next]_vars
             PROVE  Ticks!HistoryNext \/ UNCHANGED Histories
  OBVIOUS
<1>1. StoreTypeOK /\ PollerTypeOK /\ QuoterTypeOK /\ stores \in [Symbols -> RingBuffer]
  BY DEF IInv, TypeOK, StoreTypeOK
<1> HIDE DEF IInv
<1>2. CASE UNCHANGED stores
  BY <1>2 DEF Histories
<1>3. ASSUME NEW s \in Symbols, StoreTick(s)
      PROVE  Ticks!Record(s)
  <2>1. NewTick(s) \in Tick /\ stores' = [stores EXCEPT ![s] = AppendTick(stores[s], NewTick(s))]
    BY <1>1, <1>3, StoreTickEffect
  <2>2. History(AppendTick(stores[s], NewTick(s))) = Push(History(stores[s]), NewTick(s))
    BY <1>1, <2>1, AppendIsPush
  <2>3. Histories' = [Histories EXCEPT ![s] = Push(@, NewTick(s))]
    BY <1>1, <2>1, <2>2 DEF Histories
  <2>4. s \in Tracked \/ Cardinality(Tracked) < MaxTickers
    BY <1>3 DEF StoreTick, Store
  <2>5. {x \in Symbols : Histories[x] # <<>>} = Tracked
    BY <1>1, KnownIsTracked
  <2>6. Ticks!Known = Tracked
    BY <2>5 DEF Ticks!Known, Histories
  <2>7. \E t \in Ticks!Tick : Histories' = [Histories EXCEPT ![s] = Ticks!Push(@, t)]
    BY <2>1, <2>3 DEF Ticks!Tick, Tick, Ticks!Push, Push
  <2>8. \E t \in Ticks!Tick :
          [x \in Symbols |-> History(stores'[x])] =
          [[x \in Symbols |-> History(stores[x])] EXCEPT ![s] = Ticks!Push(@, t)]
    BY <2>7 DEF Histories
  <2>9. s \in Ticks!Known \/ Ticks!Cardinality(Ticks!Known) < MaxTickers
    <3>1. Ticks!Cardinality(Ticks!Known) = Cardinality(Ticks!Known)
      BY DEF Ticks!Cardinality, Cardinality
    <3> QED BY <3>1, <2>4, <2>6
  <2> QED BY <2>8, <2>9 DEF Ticks!Record
<1>4. ASSUME NEW volume \in Volumes, PatchVolume(volume)
      PROVE  quoted \in Symbols /\ Ticks!Enrich(quoted)
  <2>1. /\ quoted \in Symbols
        /\ stores' = [stores EXCEPT ![quoted] = UpdateLatestVolume(stores[quoted], volume)]
    BY <1>1, <1>4, PatchVolumeEffect
  <2>2. History(UpdateLatestVolume(stores[quoted], volume)) = Patch(History(stores[quoted]), volume)
    BY <1>1, <2>1, UpdateIsPatch
  <2>3. Histories' = [Histories EXCEPT ![quoted] = Patch(@, volume)]
    BY <1>1, <2>1, <2>2 DEF Histories
  <2>4. \E v \in Volumes : Histories' = [Histories EXCEPT ![quoted] = Ticks!Patch(@, v)]
    BY <2>3 DEF Ticks!Patch, Patch
  <2> QED BY <2>1, <2>4 DEF Ticks!Enrich, Histories
<1>5. \/ UNCHANGED stores
      \/ \E s \in Symbols : StoreTick(s)
      \/ \E volume \in Volumes : PatchVolume(volume)
  BY DEF Next, vars, feedVars, Connection, Start, Message, PollSnapshot, SkipToken,
     PublishThrottled, PublishPrice, PublishPriceFails, IntervalPasses, PollerStops, PollQuotes,
     SkipQuote, AskQuote, QuoteFails, QuoterStops
<1> QED BY <1>2, <1>3, <1>4, <1>5 DEF Ticks!HistoryNext

\* The stores implement the bounded queues of TickHistory.
THEOREM Implements == Spec => ImplementsHistory
<1>1. Init => Ticks!HistoryInit
  <2> SUFFICES ASSUME Init, NEW s \in Symbols
               PROVE  History(stores[s]) = <<>>
    BY DEF Ticks!HistoryInit
  <2>1. stores[s] = NewTickStore
    BY DEF Init
  <2>2. History(stores[s]) \in Seq(Cell) /\ Len(History(stores[s])) = 0
    BY <2>1, NewTickStoreType, HistoryType
  <2> QED BY <2>2
<1>2. IInv /\ [Next]_vars => [Ticks!HistoryNext]_([s \in Symbols |-> History(stores[s])])
  BY StepHistory DEF Histories
<1> QED BY <1>1, <1>2, Invariance, PTL DEF Spec, ImplementsHistory, Ticks!HistorySpec
=============================================================================
