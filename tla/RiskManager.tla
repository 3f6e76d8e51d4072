---------------------------- MODULE RiskManager ----------------------------
(***************************************************************************)
(* analysts/riskmanager: the agent that turns intents into executions.     *)
(* Two goroutines: the callback of signal.intent.* (evaluate, promote) and *)
(* the loop of Run (squareOff, then the refresh of the exposure), which    *)
(* share the counters of Exposure without a lock.                          *)
(*                                                                         *)
(* NewAgent leaves the position store and the score store nil; only        *)
(* SetPositions and SetScoreStore, which nothing but the tests calls, put  *)
(* them in place.  StoresWired = FALSE is the agent that main.go runs.     *)
(*                                                                         *)
(* An execution is <<i, k>>, the k-th promotion of intent i: its reference *)
(* is stamped anew each time.  Prices and quantities are left out.         *)
(***************************************************************************)
EXTENDS Exposure, MarketClock, TradingSchema

CONSTANTS
  Intents,
  Malformed,       \* the intents that do not parse or validate
  Unaffordable,    \* the intents the allocator sizes to zero shares
  SideOf, SectorOf,
  Instants,        \* the minutes at which the clock is observed
  StoresWired,
  AnswersMayBeLost, \* an acknowledgement of the stream or the table may get lost
  MaxPromotions,   \* bound on the executions published per intent
  MaxCrashes,      \* bound on process restarts
  NoIntent

Executions == Intents \X (1..MaxPromotions)

\* No day is squared off yet.
Never == -1

ASSUME IntentsAssumption ==
  /\ Malformed \subseteq Intents /\ Unaffordable \subseteq Intents
  /\ SideOf \in [Intents -> {"LONG", "SHORT"}]
  /\ SectorOf \in [Intents -> Sectors]
  /\ NoIntent \notin Intents

ASSUME InstantsAssumption == Instants \subseteq Nat

ASSUME WiringAssumption == StoresWired \in BOOLEAN /\ AnswersMayBeLost \in BOOLEAN

ASSUME BoundsAssumption == MaxPromotions \in Nat \ {0} /\ MaxCrashes \in Nat

VARIABLES
  now,
  unacked,      \* intents the consumer has not seen acknowledged
  status,       \* what became of each execution
  counted,      \* executions registered since the process started
  handling, pc, \* the intent callback
  seenLongs,    \* what BiasGate has read so far
  mpc,          \* the Run loop
  day,          \* the day of the tick it works on
  todo,         \* the positions of ListOpen it has still to work on
  current,      \* the position being squared off or recounted
  allClosed, sqDone,
  crashes

handlerVars == <<handling, pc, seenLongs>>
loopVars == <<mpc, day, todo, current, allClosed, sqDone>>
vars == <<exposureVars, now, unacked, status, counted, handlerVars, loopVars, crashes>>

Sector(e) == SectorOf[e[1]]

Side(e) == SideOf[e[1]]

NoExecution == <<NoIntent, 0>>

ListOpen == {e \in Executions : status[e] = "OPEN"}

\* The executions of intent i published so far.
Promotions(i) == {k \in 1..MaxPromotions : status[<<i, k>>] # "NONE"}

Init ==
  /\ ExposureInit
  /\ now \in Instants
  /\ unacked = Intents
  /\ status = [e \in Executions |-> "NONE"]
  /\ counted = {}
  /\ handling = NoIntent /\ pc = "idle" /\ seenLongs = 0
  /\ mpc = "idle" /\ day = Never /\ todo = {} /\ current = NoExecution
  /\ allClosed = FALSE /\ sqDone = Never
  /\ crashes = 0
-----------------------------------------------------------------------------
(* handleIntent. *)

\* Malformed and invalid intents are acknowledged at once.
Receive(i) ==
  /\ pc = "idle"
  /\ i \in unacked
  /\ handling' = i
  /\ pc' = IF i \in Malformed THEN "ack" ELSE "time"
  /\ UNCHANGED <<exposureVars, now, unacked, status, counted, seenLongs,
                 loopVars, crashes>>

\* One gate of evaluate: on to the next, or the intent is rejected, which the
\* handler acknowledges.
Gate(from, rejects, to) ==
  /\ pc = from
  /\ pc' = IF rejects THEN "ack" ELSE to
  /\ UNCHANGED <<exposureVars, now, unacked, status, counted, handling, loopVars,
                 crashes>>

\* evaluate, one action per read of shared state.
TimeGate == Gate("time", ~timeWindowGuard(now), "sector") /\ UNCHANGED seenLongs

SectorGate ==
  Gate("sector", SectorFull(SectorOf[handling]), "total") /\ UNCHANGED seenLongs

TotalGate == Gate("total", PlatformFull, "longs") /\ UNCHANGED seenLongs

BiasGateLongs == Gate("longs", FALSE, "shorts") /\ seenLongs' = longs

BiasGateShorts ==
  /\ Gate("shorts", BiasLimit(seenLongs, shorts, SideOf[handling]),
          IF StoresWired THEN "score" ELSE "size")
  /\ seenLongs' = 0

\* sentimentGate with a score store: a score at or above the floor passes; a lower
\* one, none, or a query that fails rejects.
ScoreGate ==
  /\ \E rejects \in BOOLEAN : Gate("score", rejects, "size")
  /\ UNCHANGED seenLongs

\* buildExecution: ErrInsufficientCapital is acknowledged like a rejection.
Size == Gate("size", handling \in Unaffordable, "publish") /\ UNCHANGED seenLongs

\* The execution published last for the intent being handled.
Published == <<handling, Cardinality(Promotions(handling))>>

Send ==
  LET k == Cardinality(Promotions(handling)) + 1
  IN  /\ k <= MaxPromotions
      /\ status' = [status EXCEPT ![<<handling, k>>] = "SENT"]

PublishOk ==
  /\ pc = "publish"
  /\ Send
  /\ pc' = "registerTotal"
  /\ UNCHANGED <<exposureVars, now, unacked, counted, handling, seenLongs,
                 loopVars, crashes>>

\* A promote that takes a failed publish for a promotion.
PublishFailsIgnored ==
  /\ pc = "publish"
  /\ pc' = "registerTotal"
  /\ UNCHANGED <<exposureVars, now, unacked, status, counted, handling, seenLongs,
                 loopVars, crashes>>

\* The publish fails; the stream may have stored the message all the same.
PublishFails ==
  /\ pc = "publish"
  /\ (AnswersMayBeLost /\ Send) \/ UNCHANGED status
  /\ pc' = "nak"
  /\ UNCHANGED <<exposureVars, now, unacked, counted, handling, seenLongs,
                 loopVars, crashes>>

\* Register, after the publish, in its four operations.
Registering(from, to) ==
  /\ pc = from
  /\ pc' = to
  /\ UNCHANGED <<now, unacked, status, handling, seenLongs, loopVars, crashes>>

DoRegisterTotal ==
  /\ Registering("registerTotal", "registerSide")
  /\ RegisterTotal
  /\ UNCHANGED counted

DoRegisterSide ==
  /\ Registering("registerSide", "registerLoad")
  /\ RegisterSide(SideOf[handling])
  /\ UNCHANGED counted

DoRegisterLoad ==
  /\ Registering("registerLoad", "registerSector")
  /\ RegisterLoad(SectorOf[handling])
  /\ UNCHANGED counted

DoRegisterSector ==
  /\ Registering("registerSector", "ack")
  /\ RegisterSector(SectorOf[handling])
  /\ counted' = counted \cup {Published}

Return ==
  /\ handling' = NoIntent
  /\ seenLongs' = 0
  /\ pc' = "idle"
  /\ UNCHANGED <<exposureVars, now, status, counted, loopVars, crashes>>

Ack == pc = "ack" /\ unacked' = unacked \ {handling} /\ Return

\* The acknowledgement is lost: the consumer delivers the intent again.
AckLost == AnswersMayBeLost /\ pc = "ack" /\ UNCHANGED unacked /\ Return

\* NakWithDelay: the intent comes again after five seconds.
Nak == pc = "nak" /\ UNCHANGED unacked /\ Return
-----------------------------------------------------------------------------
(* The loop of Run: squareOff, then RefreshFromDB, every 30 seconds. *)

unchangedByLoop == <<now, unacked, counted, handlerVars, crashes>>

HandlerSector == IF handling = NoIntent THEN {} ELSE {SectorOf[handling]}

\* The ticker fires; without a position store neither routine does anything.
\* squareOff is quiet before the trigger and once the day is done.
Tick ==
  /\ StoresWired
  /\ mpc = "idle"
  /\ day' = Day(now)
  /\ mpc' = IF MinuteOfDay(now) >= At(15, 15) /\ sqDone # Day(now)
              THEN "list" ELSE "refresh"
  /\ UNCHANGED <<exposureVars, unchangedByLoop, status, todo, current, allClosed,
                 sqDone>>

\* liquidate
LiquidateList ==
  /\ mpc = "list"
  /\ todo' = ListOpen
  /\ allClosed' = TRUE
  /\ mpc' = "liquidate"
  /\ UNCHANGED <<exposureVars, unchangedByLoop, status, day, current, sqDone>>

LiquidateListFails ==
  /\ mpc = "list"
  /\ mpc' = "refresh"
  /\ UNCHANGED <<exposureVars, unchangedByLoop, status, day, todo, current, allClosed,
                 sqDone>>

\* signalSquareOff succeeds for one of the positions listed.
SquareOffPublishOk(e) ==
  /\ mpc = "liquidate"
  /\ e \in todo
  /\ current' = e
  /\ todo' = todo \ {e}
  /\ mpc' = "mark"
  /\ UNCHANGED <<exposureVars, unchangedByLoop, status, day, allClosed, sqDone>>

\* ... or fails: the position stays open, to be retried on a later tick.
SquareOffPublishFails(e) ==
  /\ mpc = "liquidate"
  /\ e \in todo
  /\ todo' = todo \ {e}
  /\ allClosed' = FALSE
  /\ UNCHANGED <<exposureVars, unchangedByLoop, status, day, mpc, current, sqDone>>

\* MarkClosed affects the row.
SquareOffMark ==
  /\ mpc = "mark"
  /\ status[current] = "OPEN"
  /\ status' = [status EXCEPT ![current] = "CLOSED"]
  /\ mpc' = "releaseSector"
  /\ UNCHANGED <<exposureVars, unchangedByLoop, day, todo, current, allClosed, sqDone>>

\* A square-off that takes a failed MarkClosed for a closed position.
SquareOffMarkFailsIgnored ==
  /\ mpc = "mark"
  /\ mpc' = "liquidate"
  /\ current' = NoExecution
  /\ UNCHANGED <<exposureVars, unchangedByLoop, status, day, todo, allClosed, sqDone>>

\* MarkClosed finds the row closed, fails, or loses its answer: nothing is released
\* and the day is not done.
SquareOffMarkFails ==
  /\ mpc = "mark"
  /\ \/ UNCHANGED status
     \/ AnswersMayBeLost /\ status' = [status EXCEPT ![current] = "CLOSED"]
  /\ allClosed' = FALSE
  /\ mpc' = "liquidate"
  /\ current' = NoExecution
  /\ UNCHANGED <<exposureVars, unchangedByLoop, day, todo, sqDone>>

Releasing(from, to) ==
  /\ mpc = from
  /\ mpc' = to
  /\ UNCHANGED <<unchangedByLoop, status, day, todo, allClosed, sqDone>>

\* exposure.Release
DoReleaseSector ==
  LET s == Sector(current)
  IN  /\ mpc = "releaseSector"
      /\ IF s \in keys
           THEN /\ ReleaseSector(s)
                /\ Releasing("releaseSector", IF sectorCount[s] <= 1 THEN "releaseDelete"
                                                                     ELSE "releaseTotal")
           ELSE Releasing("releaseSector", "releaseTotal") /\ UNCHANGED exposureVars
      /\ UNCHANGED current

DoReleaseDelete ==
  /\ Releasing("releaseDelete", "releaseTotal")
  /\ DeleteSectors({Sector(current)}, HandlerSector)
  /\ UNCHANGED <<total, longs, shorts, current>>

DoReleaseTotal ==
  /\ Releasing("releaseTotal", IF total <= 0 THEN "undoTotal" ELSE "releaseSide")
  /\ ReleaseTotal
  /\ UNCHANGED current

DoUndoTotal ==
  /\ Releasing("undoTotal", "releaseSide")
  /\ UndoTotal
  /\ UNCHANGED current

OfSide(side) == IF side = "SHORT" THEN shorts ELSE longs

DoReleaseSide ==
  LET underflows == OfSide(Side(current)) <= 0
  IN  /\ Releasing("releaseSide", IF underflows THEN "undoSide" ELSE "liquidate")
      /\ ReleaseSide(Side(current))
      /\ current' = IF underflows THEN current ELSE NoExecution

DoUndoSide ==
  /\ Releasing("undoSide", "liquidate")
  /\ UndoSide(Side(current))
  /\ current' = NoExecution

\* The day is done only when every position listed was closed.
LiquidateDone ==
  /\ mpc = "liquidate"
  /\ todo = {}
  /\ sqDone' = IF allClosed THEN day ELSE sqDone
  /\ mpc' = "refresh"
  /\ UNCHANGED <<exposureVars, unchangedByLoop, status, day, todo, current, allClosed>>

\* RefreshFromDB
RefreshList ==
  /\ mpc = "refresh"
  /\ todo' = ListOpen
  /\ mpc' = "resetTotal"
  /\ UNCHANGED <<exposureVars, unchangedByLoop, status, day, current, allClosed, sqDone>>

RefreshListFails ==
  /\ mpc = "refresh"
  /\ mpc' = "idle"
  /\ UNCHANGED <<exposureVars, unchangedByLoop, status, day, todo, current, allClosed,
                 sqDone>>

DoReset ==
  /\ \/ Releasing("resetTotal", "resetLongs")  /\ ResetTotal
     \/ Releasing("resetLongs", "resetShorts") /\ ResetLongs
     \/ Releasing("resetShorts", "resetSectors") /\ ResetShorts
     \/ /\ Releasing("resetSectors", IF todo = {} THEN "idle" ELSE "recount")
        /\ DeleteSectors(Sectors, HandlerSector)
        /\ UNCHANGED <<total, longs, shorts>>
  /\ UNCHANGED current

\* One position after the other, in three operations.
DoRecountTotal(e) ==
  /\ mpc = "recount"
  /\ e \in todo
  /\ RecountTotal
  /\ current' = e
  /\ todo' = todo \ {e}
  /\ mpc' = "recountSide"
  /\ UNCHANGED <<unchangedByLoop, status, day, allClosed, sqDone>>

DoRecountSide ==
  /\ Releasing("recountSide", "recountSector")
  /\ RecountSide(Side(current))
  /\ UNCHANGED current

DoRecountSector ==
  /\ Releasing("recountSector", IF todo = {} THEN "idle" ELSE "recount")
  /\ RecountSector(Sector(current))
  /\ current' = NoExecution
-----------------------------------------------------------------------------
(* Around the agent: the gateway fills an execution, the exit monitor      *)
(* closes a position, the clock advances, the process restarts.            *)

Move(e, from, to) ==
  /\ status[e] = from
  /\ status' = [status EXCEPT ![e] = to]
  /\ UNCHANGED <<exposureVars, unchangedByLoop, loopVars>>

Fill(e) == SideFits(Side(e)) /\ Move(e, "SENT", "OPEN")

Exit(e) == Move(e, "OPEN", "CLOSED")

TimePasses ==
  /\ \E t \in Instants : t > now /\ now' = t
  /\ UNCHANGED <<exposureVars, unacked, status, counted, handlerVars, loopVars, crashes>>

\* A new process starts with an empty exposure: NewAgent reads no positions.
Restart ==
  /\ crashes < MaxCrashes
  /\ crashes' = crashes + 1
  /\ sectorCount' = [s \in Sectors |-> 0] /\ keys' = {}
  /\ total' = 0 /\ longs' = 0 /\ shorts' = 0 /\ handlerHolds' = FALSE
  /\ counted' = {}
  /\ handling' = NoIntent /\ pc' = "idle" /\ seenLongs' = 0
  /\ mpc' = "idle" /\ day' = Never /\ todo' = {} /\ current' = NoExecution
  /\ allClosed' = FALSE /\ sqDone' = Never
  /\ UNCHANGED <<now, unacked, status>>
-----------------------------------------------------------------------------
Evaluate ==
  TimeGate \/ SectorGate \/ TotalGate \/ BiasGateLongs \/ BiasGateShorts \/ ScoreGate

Register == DoRegisterTotal \/ DoRegisterSide \/ DoRegisterLoad \/ DoRegisterSector

HandleIntent ==
  \/ \E i \in Intents : Receive(i)
  \/ Evaluate
  \/ Size
  \/ PublishOk \/ PublishFails
  \/ Register
  \/ Ack \/ AckLost \/ Nak

Release ==
  \/ DoReleaseSector \/ DoReleaseDelete
  \/ DoReleaseTotal \/ DoUndoTotal
  \/ DoReleaseSide \/ DoUndoSide

Liquidate ==
  \/ LiquidateList \/ LiquidateListFails
  \/ \E e \in Executions : SquareOffPublishOk(e) \/ SquareOffPublishFails(e)
  \/ SquareOffMark \/ SquareOffMarkFails
  \/ Release
  \/ LiquidateDone

RefreshExposure ==
  \/ RefreshList \/ RefreshListFails
  \/ DoReset
  \/ \E e \in Executions : DoRecountTotal(e)
  \/ DoRecountSide \/ DoRecountSector

Next ==
  \/ HandleIntent
  \/ Tick \/ Liquidate \/ RefreshExposure
  \/ \E e \in Executions : Fill(e) \/ Exit(e)
  \/ TimePasses
  \/ Restart

Spec == Init /\ [][Next]_vars

\* Both goroutines run, the ticker fires, the table and the stream answer again and
\* again, and the consumer delivers what is not acknowledged.
Fairness ==
  /\ WF_vars(HandleIntent)
  /\ WF_vars(Tick)
  /\ WF_vars(Liquidate) /\ SF_vars(LiquidateList) /\ SF_vars(SquareOffMark)
  /\ SF_vars(\E e \in Executions : SquareOffPublishOk(e))
  /\ WF_vars(RefreshExposure) /\ SF_vars(RefreshList)

FairSpec == Spec /\ Fairness
-----------------------------------------------------------------------------
InSector(es, s) == {e \in es : Sector(e) = s}

OnSide(es, side) == {e \in es : Side(e) = side}

\* What the handler has read of the longs may be below zero: see UnderflowIsUndone.
TypeOK ==
  /\ ExposureTypeOK
  /\ now \in Instants
  /\ unacked \subseteq Intents
  /\ status \in [Executions -> {"NONE", "SENT", "OPEN", "CLOSED"}]
  /\ counted \subseteq Executions
  /\ handling \in Intents \cup {NoIntent}
  /\ pc \in {"idle", "time", "sector", "total", "longs", "shorts", "score", "size",
             "publish", "registerTotal", "registerSide", "registerLoad",
             "registerSector", "ack", "nak"}
  /\ seenLongs \in Int
  /\ mpc \in {"idle", "list", "liquidate", "mark", "releaseSector", "releaseDelete",
              "releaseTotal", "undoTotal", "releaseSide", "undoSide", "refresh",
              "resetTotal", "resetLongs", "resetShorts", "resetSectors", "recount",
              "recountSide", "recountSector"}
  /\ day \in Nat \cup {Never} /\ sqDone \in Nat \cup {Never}
  /\ todo \subseteq Executions
  /\ current \in Executions \cup {NoExecution}
  /\ allClosed \in BOOLEAN
  /\ crashes \in 0..MaxCrashes

\* What the execution being registered, part by part, has added so far.
InTotal == IF pc \in {"registerSide", "registerLoad", "registerSector"} THEN 1 ELSE 0

InSide(side) ==
  IF /\ pc \in {"registerLoad", "registerSector"}
     /\ handling # NoIntent /\ SideOf[handling] = side THEN 1 ELSE 0

\* As main.go runs it, the exposure is the number of executions the agent knows it
\* has published since it started, per sector, per side and in all: an execution is
\* never counted twice nor forgotten, whether its publish is retried, its answer lost
\* or its intent delivered again.  The one being registered is counted part by part.
ExposureIsPublished ==
  ~StoresWired =>
    /\ total = Cardinality(counted) + InTotal
    /\ longs = Cardinality(OnSide(counted, "LONG")) + InSide("LONG")
    /\ shorts = Cardinality(OnSide(counted, "SHORT")) + InSide("SHORT")
    /\ \A s \in Sectors : sectorCount[s] = Cardinality(InSector(counted, s))

\* As main.go runs it, the gates hold for what the agent knows it has published: at
\* most MaxSectorPositions per sector, MaxTotalPositions in all, and neither side
\* more than MaxBiasRatio times the other once both are held.
GatesHold ==
  LET l == Cardinality(OnSide(counted, "LONG"))
      s == Cardinality(OnSide(counted, "SHORT"))
  IN  ~StoresWired =>
        /\ \A sector \in Sectors :
             Cardinality(InSector(counted, sector)) <= MaxSectorPositions
        /\ Cardinality(counted) <= MaxTotalPositions
        /\ l > 0 /\ s > 0 => l <= MaxBiasRatio * s /\ s <= MaxBiasRatio * l

\* The inductive invariant behind both.  The handler: where it is, it has an intent,
\* and behind the publish an execution of it.
RegisterState == {"registerTotal", "registerSide", "registerLoad", "registerSector"}

HandlerHasWork ==
  /\ pc # "idle" => handling \in Intents
  /\ pc \in RegisterState => Promotions(handling) # {}

\* The executions of an intent are published in their order, so that the last one
\* published is told by their number.
PromotionsInOrder ==
  \A i \in Intents : Promotions(i) = 1..Cardinality(Promotions(i))

\* Only what was published is counted, the execution being registered not yet.
CountedWasPublished ==
  /\ IsFiniteSet(counted)
  /\ \A e \in counted : status[e] # "NONE"
  /\ pc \in RegisterState => Published \notin counted

\* What the loop works on was open when it listed it, and can only have closed since.
ListedWasOpen ==
  \A e \in todo \cup ({current} \ {NoExecution}) : status[e] \in {"OPEN", "CLOSED"}

LoopHasWork ==
  mpc \in {"mark", "releaseSector", "releaseDelete", "releaseTotal", "undoTotal",
           "releaseSide", "undoSide", "recountSide", "recountSector"}
    => current \in Executions

\* With the stores and without, whatever the callback, the loop, failing calls and a
\* restart do between each other's steps: what is counted and registered was published,
\* and what is squared off, released or recounted was open when the table was asked.
Bookkeeping ==
  /\ TypeOK /\ HandlerHasWork /\ PromotionsInOrder /\ CountedWasPublished
  /\ LoopHasWork /\ ListedWasOpen

\* A counter is below zero only while the Release that took it there has still to undo
\* it (exposure.go:94, 98, 102), or to delete it (exposure.go:90), and by no more than
\* that one position, though the callback increments and reads it all the time.
UnderflowIsUndone ==
  LET undoing(at, applies) == IF mpc = at /\ applies THEN -1 ELSE 0
  IN  /\ total >= undoing("undoTotal", TRUE)
      /\ longs >= undoing("undoSide", Side(current) # "SHORT")
      /\ shorts >= undoing("undoSide", Side(current) = "SHORT")
      /\ \A s \in Sectors : sectorCount[s] >= undoing("releaseDelete", Sector(current) = s)

\* Without its stores the callback asks for no score and the loop does nothing, so that
\* nobody takes the counter of a sector away between its load and its increment.
NoStoreIsUsed ==
  ~StoresWired => /\ mpc = "idle" /\ pc # "score"
                  /\ pc = "registerSector" => handlerHolds

\* What each gate found on the way holds until the execution is counted: nobody else
\* registers, and a restart forgets the intent with the counters.
GatesPassed ==
  LET l == Cardinality(OnSide(counted, "LONG"))
      s == Cardinality(OnSide(counted, "SHORT"))
      sized == {"size", "publish"} \cup RegisterState
  IN  ~StoresWired =>
        /\ pc \in {"total", "longs", "shorts"} \cup sized =>
             Cardinality(InSector(counted, SectorOf[handling])) < MaxSectorPositions
        /\ pc \in {"longs", "shorts"} \cup sized =>
             Cardinality(counted) < MaxTotalPositions
        /\ pc = "shorts" => seenLongs = l
        /\ pc \in sized => ~BiasLimit(l, s, SideOf[handling])

IInv ==
  /\ Bookkeeping /\ UnderflowIsUndone
  /\ NoStoreIsUsed /\ ExposureIsPublished /\ GatesPassed /\ GatesHold

\* The counters are those of the positions open in the table.
Accurate ==
  /\ total = Cardinality(ListOpen)
  /\ longs = Cardinality(OnSide(ListOpen, "LONG"))
  /\ shorts = Cardinality(OnSide(ListOpen, "SHORT"))
  /\ \A s \in Sectors : sectorCount[s] = Cardinality(InSector(ListOpen, s))

\* exposure.go:136: the refresh brings the counters back to the open positions, so
\* that once trading has settled they are right for good.
ExposureConverges == <>[](mpc = "idle" => Accurate)

SquareOffDue == MinuteOfDay(now) >= At(15, 15)

\* A position the square-off has listed is closed before the day ends, though its
\* publish or its MarkClosed fail at first: the day is not taken as done before.
ListedIsSquaredOff ==
  \A e \in Executions :
    (mpc = "liquidate" /\ e \in todo) ~> (status[e] = "CLOSED" \/ ~SquareOffDue)

\* squareoff.go:12: all positions must be liquidated by 15:15.
EveryPositionIsSquaredOff ==
  \A e \in Executions :
    (status[e] = "OPEN" /\ SquareOffDue) ~> (status[e] = "CLOSED" \/ ~SquareOffDue)
=============================================================================
