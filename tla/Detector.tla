------------------------------ MODULE Detector ------------------------------
(***************************************************************************)
(* The breakout detector of the scout, analysts/quantitative/breakout.go   *)
(* with indicators/ and pkg/math under it, for one symbol.  An evaluation  *)
(* reads the store three times, under three locks, while the poller        *)
(* appends the last snapshot again and again and the quoter patches the    *)
(* volume of the newest tick.                                              *)
(*                                                                         *)
(* The store is the queue that QuantitativeFeed shows it to be; a tick     *)
(* also has the minute of its time stamp.  Divisions and the root of the   *)
(* standard deviation are multiplied out: the arithmetic is exact.         *)
(***************************************************************************)
EXTENDS TickStore, SequencesExt, FiniteSetsExt

CONSTANTS
  LastMinute,    \* time stamps lie in minute 1 to LastMinute
  Period,        \* BollingerPeriod
  Multiplier,    \* BollingerMultiplier
  Window,        \* VolumeWindow
  Threshold      \* VolumeThreshold

ASSUME DetectorAssumption ==
  /\ LastMinute \in Nat \ {0}
  /\ Period \in Nat \ {0, 1}
  /\ {Multiplier, Window, Threshold} \subseteq Nat \ {0}

VARIABLES
  ltp,           \* the snapshot of the feed client, NoLtp before the first message
  polls,         \* polls since its message, counted up to Period
  ticks,         \* what the tick store holds, the oldest first
  detector,      \* "off", "idle", about to read "prices" or "volumes", "judged"
  close,         \* the last close, of the candles the evaluation read
  side,          \* the side every condition so far agrees with, or "none"
  touched,       \* the store was written to during the evaluation
  stale          \* it began after Period polls of one snapshot, still the same

scoutVars == <<ltp, polls, ticks>>
evaluationVars == <<close, side, touched, stale>>
detectorVars == <<scoutVars, detector, evaluationVars>>

Minutes == 1..LastMinute

NoLtp == [price |-> NoPrice, minute |-> 1]

FeedTick == [price : Prices, volume : Volumes, minute : Minutes]

\* What a store of Size ticks may hold.
IsHistory(h) == h \in Seq(FeedTick) /\ Len(h) <= Size

DetectorTypeOK ==
  /\ ltp \in [price : Prices, minute : Minutes] \cup {NoLtp}
  /\ polls \in 0..Period
  /\ IsHistory(ticks)
  /\ detector \in {"off", "idle", "prices", "volumes", "judged"}
  /\ close \in Prices \cup {NoPrice}
  /\ side \in {"LONG", "SHORT", "none"}
  /\ touched \in BOOLEAN /\ stale \in BOOLEAN

NoEvaluation == close' = NoPrice /\ side' = "none" /\ touched' = FALSE /\ stale' = FALSE

DetectorInit ==
  /\ ltp = NoLtp /\ polls = 0 /\ ticks = <<>>
  /\ detector = "off"
  /\ close = NoPrice /\ side = "none" /\ touched = FALSE /\ stale = FALSE

StartDetector ==
  /\ detector = "off"
  /\ detector' = "idle"
  /\ UNCHANGED <<scoutVars, evaluationVars>>

\* stopChan is read between two evaluations; the store goes with the process.
StopDetector ==
  /\ detector = "idle"
  /\ detector' = "off"
  /\ ltp' = NoLtp /\ polls' = 0 /\ ticks' = <<>>
  /\ UNCHANGED evaluationVars
-----------------------------------------------------------------------------
\* The writers.

Evaluating == detector \in {"prices", "volumes", "judged"}

\* A message with the same price and stamp is a message all the same, and so is one with
\* an earlier stamp.
LtpMessage ==
  /\ detector # "off"
  /\ ltp' \in [price : Prices, minute : Minutes]
  /\ polls' = 0 /\ stale' = FALSE
  /\ UNCHANGED <<ticks, detector, close, side, touched>>

\* processSnapshot appends the snapshot whether it is new or not, without a volume.
PollLtp ==
  /\ detector # "off" /\ ltp # NoLtp
  /\ ticks' = Push(ticks, [price |-> ltp.price, volume |-> NoVolume, minute |-> ltp.minute])
  /\ polls' = IF polls < Period THEN polls + 1 ELSE polls
  /\ touched' = Evaluating
  /\ UNCHANGED <<ltp, detector, close, side, stale>>

PatchVolume ==
  /\ detector # "off" /\ ticks # <<>>
  /\ \E v \in Volumes : ticks' = Patch(ticks, v)
  /\ touched' = Evaluating
  /\ UNCHANGED <<ltp, polls, detector, close, side, stale>>
-----------------------------------------------------------------------------
\* The evaluation.

Total(s) == FoldLeft(LAMBDA x, y : x + y, 0, s)

Each(op(_), s) == [i \in DOMAIN s |-> op(s[i])]

\* A tick of a new minute begins a candle, another one closes the last candle anew.
\* Candles are without open, high and low, which evaluate does not look at.
AddTick(candles, t) ==
  IF candles = <<>> \/ Last(candles).minute # t.minute
    THEN Append(candles, [minute |-> t.minute, close |-> t.price, volume |-> t.volume])
    ELSE [candles EXCEPT ![Len(candles)] = [minute |-> t.minute, close |-> t.price,
                                            volume |-> @.volume + t.volume]]

Candles(h) == FoldLeft(AddTick, <<>>, h)

\* Where a price is to the VWAP of the candles; without a volume there is none.
VWAPSide(price, candles) ==
  LET volume == Total(Each(LAMBDA c : c.volume, candles))
      pv     == Total(Each(LAMBDA c : c.close * c.volume, candles))
  IN  CASE volume > 0 /\ price * volume > pv -> "LONG"
        [] volume > 0 /\ price * volume < pv -> "SHORT"
        [] OTHER -> "none"

\* The variance, and the distance from the mean below, times a power of the length.
Variance(s) == Len(s) * Total(Each(LAMBDA x : x * x, s)) - Total(s) * Total(s)

\* Outside a band counts, and on it.
BandSideOnBand(price, prices) ==
  LET distance == Len(prices) * price - Total(prices)
      outside  == distance * distance >= Multiplier * Multiplier * Variance(prices)
  IN  CASE outside /\ distance >= 0 -> "LONG"
        [] outside /\ distance < 0  -> "SHORT"
        [] OTHER -> "none"

\* Which Bollinger band a price is outside of.
BandSide(price, prices) ==
  LET distance == Len(prices) * price - Total(prices)
      outside  == distance * distance > Multiplier * Multiplier * Variance(prices)
  IN  CASE outside /\ distance > 0 -> "LONG"
        [] outside /\ distance < 0 -> "SHORT"
        [] OTHER -> "none"

\* A baseline that contains the volume it is compared with.
VolumeBreakoutOverAll(volumes) ==
  /\ Total(volumes) # 0
  /\ Last(volumes) * Len(volumes) >= Threshold * Total(volumes)

\* The last volume against the average of those before it.
VolumeBreakout(volumes) ==
  LET baseline == Front(volumes)
  IN  /\ Total(baseline) # 0
      /\ Last(volumes) * Len(baseline) >= Threshold * Total(baseline)

\* evaluateAll takes a symbol with two ticks; the first read of evaluate.
ReadCandles ==
  /\ detector = "idle" /\ Len(ticks) >= 2
  /\ LET candles == Candles(ticks)
         price   == Last(candles).close
     IN  IF Len(candles) < 2 \/ Total(Each(LAMBDA c : c.volume, candles)) = 0
           THEN detector' = "judged" /\ UNCHANGED <<close, side>>
           ELSE detector' = "prices" /\ close' = price /\ side' = VWAPSide(price, candles)
  /\ stale' = (polls = Period)
  /\ UNCHANGED <<scoutVars, touched>>

ReadPrices ==
  /\ detector = "prices"
  /\ IF Len(ticks) < Period
       THEN detector' = "judged" /\ side' = "none"
       ELSE LET band == BandSide(close, Each(LAMBDA t : t.price, Latest(ticks, Period)))
            IN  detector' = "volumes" /\ side' = IF side = band THEN side ELSE "none"
  /\ UNCHANGED <<scoutVars, close, touched, stale>>

ReadVolumes ==
  /\ detector = "volumes"
  /\ detector' = "judged"
  /\ side' = IF /\ Len(ticks) >= Window + 1
                /\ VolumeBreakout(Each(LAMBDA t : t.volume, Latest(ticks, Window + 1)))
               THEN side ELSE "none"
  /\ UNCHANGED <<scoutVars, close, touched, stale>>

\* publish, when there is a side: a failure is logged.
Conclude ==
  /\ detector = "judged"
  /\ detector' = "idle"
  /\ NoEvaluation
  /\ UNCHANGED scoutVars

DetectorNext ==
  \/ StartDetector \/ StopDetector \/ LtpMessage \/ PollLtp \/ PatchVolume
  \/ ReadCandles \/ ReadPrices \/ ReadVolumes \/ Conclude

DetectorSpec == DetectorInit /\ [][DetectorNext]_detectorVars
-----------------------------------------------------------------------------
\* The setup as the comments of breakout.go and of the indicators put it, over the
\* ticks themselves: the variance is the mean over all pairs, a candle closes where
\* no later tick of its minute is.

CandleClose(h, m) == h[Max({i \in DOMAIN h : h[i].minute = m})].price

\* A setup for the direction d, 1 for long and -1 for short.
IsSetup(h, d) ==
  LET n        == Len(h)
      price    == h[n].price
      volumes  == [k \in 1..Window |-> h[n - Window - 1 + k].volume]
      prices   == [k \in 1..Period |-> h[n - Period + k].price]
      far      == SumFunction([k \in 1..Period |-> d * (price - prices[k])])
      apart(i) == [j \in 1..Period |-> (prices[i] - prices[j]) * (prices[i] - prices[j])]
      spread   == SumFunction([i \in 1..Period |-> SumFunction(apart(i))])
      above    == [i \in 1..n |-> d * (price - CandleClose(h, h[i].minute)) * h[i].volume]
  IN  /\ n >= Period /\ n > Window
      /\ \E i \in 1..n : h[i].minute # h[n].minute
      /\ SumFunction(above) > 0
      /\ far > 0 /\ 2 * far * far > Multiplier * Multiplier * spread
      /\ SumFunction(volumes) > 0 /\ h[n].volume * Window >= Threshold * SumFunction(volumes)

\* The exchange stamps the ticks in their order.
MinutesAscend ==
  \A i, j \in DOMAIN ticks : i <= j => ticks[i].minute <= ticks[j].minute

\* An evaluation the writers leave alone comes to the right intent, and to one
\* whenever there is a setup: the candles, the bands and the ratio of volumes,
\* computed from three reads of the ring, agree with their definition (breakout.go:111).
\* The candles are those of their minutes if the stamps ascend; a tick that comes late
\* begins a second candle of its minute (tickstore.go:146-147).
QuietIntentIsRight ==
  (detector = "judged" /\ ~touched /\ MinutesAscend) =>
     side = CASE IsSetup(ticks, 1) -> "LONG" [] IsSetup(ticks, -1) -> "SHORT" [] OTHER -> "none"

\* A feed that has gone quiet gives no intent, whatever volumes the quoter goes on to
\* patch and whatever is appended during the evaluation: once the poller has filled
\* the window with one snapshot, the bands lie on its price (feed.go:178).
StaleFeedIsSilent == (detector = "judged" /\ stale) => side = "none"

\* The inductive invariant of StaleFeedIsSilent.  The polls since the last message
\* stored the price of the snapshot.
TailIsSnapshot ==
  \A i \in DOMAIN ticks : i > Len(ticks) - polls => ticks[i].price = ltp.price

\* An evaluation that began on a quiet feed judges that price, and has no side once it
\* has read the prices.
StaleHasNoSide ==
  /\ detector \in {"off", "idle"} => side = "none" /\ ~stale
  /\ stale => /\ polls = Period
              /\ detector = "prices" => close = ltp.price
              /\ detector \in {"volumes", "judged"} => side = "none"

DetectorIInv == DetectorTypeOK /\ TailIsSnapshot /\ StaleHasNoSide

\* What the second read makes of a history: the side of a price on the bands of the latest.
BandSideIn(history, price) ==
  BandSide(price, Each(LAMBDA t : t.price, Latest(history, Period)))

\* What else QuietIntentIsRight needs: an evaluation that no writer has touched has what
\* its reads so far make of the ticks as they are.
QuietReads ==
  /\ detector \in {"off", "idle"} => ~touched
  /\ detector \in {"prices", "volumes"} /\ ~touched =>
       /\ Len(ticks) >= 2 /\ Len(Candles(ticks)) >= 2 /\ close = Last(Candles(ticks)).close
       /\ detector = "prices" => side = VWAPSide(close, Candles(ticks))
       /\ detector = "volumes" =>
            /\ Len(ticks) >= Period
            /\ side = IF VWAPSide(close, Candles(ticks)) = BandSideIn(ticks, close)
                        THEN BandSideIn(ticks, close) ELSE "none"

\* The inductive invariant of QuietIntentIsRight.
QuietIInv == DetectorIInv /\ QuietReads /\ QuietIntentIsRight
=============================================================================
