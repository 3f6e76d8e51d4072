------------------------- MODULE RiskManager_proofs -------------------------
(***************************************************************************)
(* Proofs about RiskManager, for any intents, sectors, limits and instants *)
(* and any number of promotions and restarts.                              *)
(*                                                                         *)
(* First what concerns the executions and holds with the stores and        *)
(* without (Bookkeeping); then that the loop undoes what it takes below    *)
(* zero, with the callback in between (UnderflowIsUndone); then the        *)
(* exposure and the gates of the agent without its stores (Exposed).       *)
(***************************************************************************)
EXTENDS RiskManager, FiniteSetTheorems, TLAPS

Exposed == NoStoreIsUsed /\ ExposureIsPublished /\ GatesPassed /\ GatesHold

\* What TypeOK says of the status column.
StatusTypeOK == status \in [Executions -> {"NONE", "SENT", "OPEN", "CLOSED"}]
-----------------------------------------------------------------------------
(* The executions of an intent. *)

\* Their number stays within the bound, and the last one has it for its own.
LEMMA PromotionsAreCounted ==
  ASSUME PromotionsInOrder, NEW i \in Intents
  PROVE  /\ Cardinality(Promotions(i)) \in 0..MaxPromotions
         /\ Promotions(i) # {} => /\ <<i, Cardinality(Promotions(i))>> \in Executions
                                  /\ Cardinality(Promotions(i)) \in Promotions(i)
<1> DEFINE n == Cardinality(Promotions(i))
<1>1. Promotions(i) \subseteq 1..MaxPromotions
  BY DEF Promotions
<1>2. n \in Nat
  <2>1. IsFiniteSet(1..MaxPromotions)
    BY FS_Interval, BoundsAssumption
  <2> QED
    BY <1>1, <2>1, FS_Subset, FS_CardinalityType
<1>3. Promotions(i) = 1..n
  BY DEF PromotionsInOrder
<1> HIDE DEF n
<1>4. n \in 0..MaxPromotions
  BY <1>1, <1>2, <1>3, BoundsAssumption
<1>5. Promotions(i) # {} => n \in Promotions(i) /\ n \in 1..MaxPromotions
  BY <1>1, <1>2, <1>3
<1> QED
  BY <1>4, <1>5 DEF n, Executions

\* A step that publishes nothing leaves them as they are.
LEMMA PromotionsStay ==
  ASSUME \A e \in Executions : status[e] = "NONE" <=> status'[e] = "NONE",
         NEW i \in Intents
  PROVE  Promotions(i)' = Promotions(i)
<1>1. \A k \in 1..MaxPromotions : status[<<i, k>>] # "NONE" <=> status'[<<i, k>>] # "NONE"
  BY DEF Executions
<1> QED
  BY <1>1 DEF Promotions

\* Send adds one to those of the intent in hand, in order, and none elsewhere.
LEMMA SendAddsOne ==
  ASSUME StatusTypeOK, PromotionsInOrder, handling \in Intents, Send,
         UNCHANGED handling
  PROVE  /\ StatusTypeOK'
         /\ PromotionsInOrder'
         /\ Promotions(handling)' # {}
         /\ Published' \in Executions /\ status[Published'] = "NONE"
         /\ \A e \in Executions : status[e] # "NONE" => status'[e] = status[e]
<1> DEFINE k == Cardinality(Promotions(handling)) + 1
           e0 == <<handling, k>>
<1>1. k \in 1..MaxPromotions /\ status' = [status EXCEPT ![e0] = "SENT"]
  <2>1. Cardinality(Promotions(handling)) \in 0..MaxPromotions
    BY PromotionsAreCounted
  <2> QED
    BY <2>1, BoundsAssumption DEF Send
<1>2. e0 \in Executions
  BY <1>1 DEF Executions
<1>3. Promotions(handling) = 1..(k - 1)
  <2>1. Cardinality(Promotions(handling)) \in 0..MaxPromotions
    BY PromotionsAreCounted
  <2>2. Cardinality(Promotions(handling)) = k - 1
    BY <2>1, BoundsAssumption
  <2> QED
    BY <2>2 DEF PromotionsInOrder
<1> HIDE DEF k
<1>4. status[e0] = "NONE"
  BY <1>1, <1>3 DEF Promotions
<1>5. StatusTypeOK'
  BY <1>1, <1>2 DEF StatusTypeOK
<1>6. \A e \in Executions : e # e0 => status'[e] = status[e]
  BY <1>1, <1>2 DEF StatusTypeOK
<1>7. status'[e0] = "SENT"
  BY <1>1, <1>2 DEF StatusTypeOK
<1>8. Promotions(handling)' = 1..k
  <2>1. \A j \in 1..MaxPromotions : <<handling, j>> \in Executions /\ (j # k => <<handling, j>> # e0)
    BY DEF Executions
  <2>2. Promotions(handling)' = Promotions(handling) \cup {k}
    BY <1>1, <1>6, <1>7, <2>1 DEF Promotions
  <2> QED
    BY <1>1, <1>3, <2>2
<1>9. Cardinality(Promotions(handling)') = k
  BY <1>1, <1>8, FS_Interval
<1>10. Published' = e0
  BY <1>9 DEF Published
<1>11. ASSUME NEW i \in Intents, i # handling
       PROVE  Promotions(i)' = Promotions(i)
  <2>1. \A j \in 1..MaxPromotions : <<i, j>> \in Executions /\ <<i, j>> # e0
    BY <1>11 DEF Executions
  <2> QED
    BY <1>6, <2>1 DEF Promotions
<1>12. PromotionsInOrder'
  <2> SUFFICES ASSUME NEW i \in Intents
               PROVE  Promotions(i)' = 1..Cardinality(Promotions(i)')
    BY DEF PromotionsInOrder
  <2>1. CASE i = handling
    BY <1>8, <1>9, <2>1
  <2>2. CASE i # handling
    BY <1>11, <2>2 DEF PromotionsInOrder
  <2> QED
    BY <2>1, <2>2
<1>13. Promotions(handling)' # {}
  BY <1>1, <1>8
<1> QED
  BY <1>2, <1>4, <1>5, <1>6, <1>7, <1>10, <1>12, <1>13
-----------------------------------------------------------------------------
(* Types and bookkeeping. *)

\* The operations of Register, Release and the refresh on the counters.
LEMMA AddKeepsTypes ==
  ASSUME ExposureTypeOK, NEW side, NEW n \in Int, AddTotal(n) \/ AddSide(side, n)
  PROVE  ExposureTypeOK'
<1>1. CASE AddTotal(n)
  BY <1>1 DEF AddTotal, ExposureTypeOK
<1>2. CASE AddSide(side, n)
  BY <1>2 DEF AddSide, ExposureTypeOK
<1> QED
  BY <1>1, <1>2

LEMMA RegisterKeepsTypes ==
  ASSUME ExposureTypeOK, NEW side, NEW s \in Sectors,
         RegisterTotal \/ RegisterSide(side) \/ RegisterLoad(s) \/ RegisterSector(s)
  PROVE  ExposureTypeOK'
<1>1. CASE RegisterTotal \/ RegisterSide(side)
  BY <1>1, AddKeepsTypes DEF RegisterTotal, RegisterSide
<1>2. CASE RegisterLoad(s)
  BY <1>2 DEF RegisterLoad, ExposureTypeOK
<1>3. CASE RegisterSector(s)
  <2>1. sectorCount' \in [Sectors -> Int]
    <3>1. CASE handlerHolds
      BY <1>3, <3>1 DEF RegisterSector, ExposureTypeOK
    <3>2. CASE ~handlerHolds
      BY <1>3, <3>2 DEF RegisterSector, ExposureTypeOK
    <3> QED
      BY <3>1, <3>2
  <2> QED
    BY <1>3, <2>1 DEF RegisterSector, ExposureTypeOK
<1> QED
  BY <1>1, <1>2, <1>3

LEMMA ReleaseKeepsTypes ==
  ASSUME ExposureTypeOK, NEW side,
         \/ ReleaseTotal \/ UndoTotal \/ ReleaseSide(side) \/ UndoSide(side)
         \/ \E s \in Sectors : ReleaseSector(s)
  PROVE  ExposureTypeOK'
<1>1. CASE \E s \in Sectors : ReleaseSector(s)
  BY <1>1 DEF ReleaseSector, ExposureTypeOK
<1> DEFINE down == -1
<1>2. down \in Int
  OBVIOUS
<1>3. CASE ReleaseTotal \/ ReleaseSide(side)
  <2>1. AddTotal(down) \/ AddSide(side, down)
    BY <1>3 DEF ReleaseTotal, ReleaseSide
  <2> HIDE DEF down
  <2> QED
    BY <1>2, <2>1, AddKeepsTypes
<1>4. CASE UndoTotal \/ UndoSide(side)
  BY <1>4, AddKeepsTypes DEF UndoTotal, UndoSide
<1> QED
  BY <1>1, <1>3, <1>4

LEMMA RefreshKeepsTypes ==
  ASSUME ExposureTypeOK, NEW side,
         \/ ResetTotal \/ ResetLongs \/ ResetShorts
         \/ RecountTotal \/ RecountSide(side) \/ \E s \in Sectors : RecountSector(s)
  PROVE  ExposureTypeOK'
<1>1. CASE ResetTotal \/ ResetLongs \/ ResetShorts
  BY <1>1 DEF ResetTotal, ResetLongs, ResetShorts, ExposureTypeOK
<1>2. CASE RecountTotal \/ RecountSide(side)
  BY <1>2, AddKeepsTypes DEF RecountTotal, RecountSide
<1>3. CASE \E s \in Sectors : RecountSector(s)
  BY <1>3 DEF RecountSector, ExposureTypeOK
<1> QED
  BY <1>1, <1>2, <1>3

\* Counters that leave the map take nothing along.
LEMMA DeleteKeepsTypes ==
  ASSUME ExposureTypeOK, NEW gone, NEW S,
         DeleteSectors(gone, S), UNCHANGED <<total, longs, shorts>>
  PROVE  ExposureTypeOK'
BY DEF ExposureTypeOK, DeleteSectors

LEMMA InitBookkeeping == Init => Bookkeeping
<1> SUFFICES ASSUME Init PROVE Bookkeeping
  OBVIOUS
<1>1. ExposureTypeOK
  <2>1. handlerHolds \in BOOLEAN
    BY DEF Init, ExposureInit
  <2>2. sectorCount \in [Sectors -> Int]
    BY DEF Init, ExposureInit
  <2>3. keys = {} /\ total = 0 /\ longs = 0 /\ shorts = 0
    BY DEF Init, ExposureInit
  <2> QED
    BY <2>1, <2>2, <2>3 DEF ExposureTypeOK
<1>2. TypeOK
  <2>2. status \in [Executions -> {"NONE", "SENT", "OPEN", "CLOSED"}]
    BY DEF Init
  <2>3. seenLongs \in Int /\ crashes \in 0..MaxCrashes
    BY BoundsAssumption DEF Init
  <2>4. allClosed \in BOOLEAN
    BY DEF Init
  <2>5. /\ now \in Instants
        /\ unacked = Intents /\ counted = {} /\ todo = {}
        /\ handling = NoIntent /\ current = NoExecution
        /\ pc = "idle" /\ mpc = "idle"
        /\ day = Never /\ sqDone = Never
    BY DEF Init
  <2> QED
    BY <1>1, <2>2, <2>3, <2>4, <2>5 DEF TypeOK
<1>3. \A i \in Intents : Promotions(i) = {}
  BY DEF Init, Promotions, Executions
<1>4. PromotionsInOrder
  BY <1>3, FS_EmptySet DEF PromotionsInOrder
<1>5. HandlerHasWork /\ CountedWasPublished /\ LoopHasWork /\ ListedWasOpen
  BY FS_EmptySet
  DEF Init, LoopHasWork, HandlerHasWork, CountedWasPublished, ListedWasOpen, RegisterState
<1> QED
  BY <1>2, <1>4, <1>5 DEF Bookkeeping

\* What was listed stays listed when no position is opened again.
LEMMA ListedStays ==
  ASSUME TypeOK, ListedWasOpen, todo' \subseteq todo, current' \in todo \cup {current, NoExecution},
         \A e \in Executions :
           status[e] \in {"OPEN", "CLOSED"} => status'[e] \in {"OPEN", "CLOSED"}
  PROVE  ListedWasOpen'
BY DEF TypeOK, ListedWasOpen

\* A step that neither publishes nor counts, and starts no registration, keeps the
\* books when it keeps the types.
LEMMA QuietStep ==
  ASSUME Bookkeeping, TypeOK', LoopHasWork', ListedWasOpen', counted' = counted,
         \A e \in Executions : status[e] = "NONE" <=> status'[e] = "NONE",
         pc' # "idle" => handling' \in Intents,
         pc' \in RegisterState => pc \in RegisterState /\ handling' = handling
  PROVE  Bookkeeping'
<1> USE DEF Bookkeeping
<1>1. \A i \in Intents : Promotions(i)' = Promotions(i)
  BY PromotionsStay
<1>2. PromotionsInOrder'
  BY <1>1 DEF PromotionsInOrder
<1>3. pc' \in RegisterState => Published' = Published /\ Promotions(handling)' = Promotions(handling)
  <2> SUFFICES ASSUME pc' \in RegisterState
               PROVE  Published' = Published /\ Promotions(handling)' = Promotions(handling)
    OBVIOUS
  <2>1. handling' = handling /\ handling \in Intents
    BY DEF RegisterState
  <2> QED
    BY <1>1, <2>1 DEF Published
<1>4. HandlerHasWork'
  BY <1>3 DEF HandlerHasWork
<1>5. CountedWasPublished'
  <2>1. \A e \in counted : status'[e] # "NONE"
    BY DEF CountedWasPublished, TypeOK
  <2> QED
    BY <1>3, <2>1 DEF CountedWasPublished
<1> QED
  BY <1>2, <1>4, <1>5

\* The steps of the callback that touch neither the exposure nor the table.
LEMMA EvaluateKeepsBooks ==
  ASSUME Bookkeeping,
         (\E i \in Intents : Receive(i)) \/ Evaluate \/ Size \/ Ack \/ AckLost \/ Nak
  PROVE  Bookkeeping'
<1> USE DEF Bookkeeping, exposureVars, loopVars
<1>1. /\ UNCHANGED <<exposureVars, loopVars, now, status, counted, crashes>>
      /\ unacked' \subseteq unacked
  BY DEF Receive, Evaluate, TimeGate, SectorGate, TotalGate, BiasGateLongs,
         BiasGateShorts, ScoreGate, Size, Gate, Ack, AckLost, Nak, Return
<1>2. /\ pc' \in {"idle", "time", "sector", "total", "longs", "shorts", "score", "size",
                  "publish", "ack"}
      /\ pc' # "idle" => handling' \in Intents
      /\ handling' \in Intents \cup {NoIntent}
  <2>1. CASE \E i \in Intents : Receive(i)
    BY <2>1 DEF Receive
  <2>2. CASE Evaluate \/ Size
    BY <2>2 DEF HandlerHasWork, TypeOK, Evaluate, TimeGate, SectorGate, TotalGate,
         BiasGateLongs, BiasGateShorts, ScoreGate, Size, Gate
  <2>3. CASE Ack \/ AckLost \/ Nak
    BY <2>3 DEF Ack, AckLost, Nak, Return
  <2> QED
    BY <2>1, <2>2, <2>3
<1>3. seenLongs' \in Int
  BY DEF TypeOK, ExposureTypeOK, Receive, Evaluate, TimeGate, SectorGate, TotalGate,
         BiasGateLongs, BiasGateShorts, ScoreGate, Size, Gate, Ack, AckLost, Nak, Return
<1>4. TypeOK' /\ LoopHasWork' /\ ListedWasOpen'
  BY <1>1, <1>2, <1>3, ListedStays DEF TypeOK, ExposureTypeOK, LoopHasWork
<1> QED
  BY <1>1, <1>2, <1>4, QuietStep DEF RegisterState

LEMMA PublishKeepsBooks ==
  ASSUME Bookkeeping, PublishOk \/ PublishFails
  PROVE  Bookkeeping'
<1> USE DEF Bookkeeping, exposureVars, loopVars
<1>1. handling \in Intents /\ UNCHANGED <<exposureVars, loopVars, now, unacked, counted,
                                          handling, seenLongs, crashes>>
  BY DEF PublishOk, PublishFails, HandlerHasWork
<1>2. StatusTypeOK
  BY DEF TypeOK, StatusTypeOK
<1>3. ASSUME Send
      PROVE  Bookkeeping'
  <2>1. /\ StatusTypeOK' /\ PromotionsInOrder' /\ Promotions(handling)' # {}
        /\ status[Published'] = "NONE"
        /\ \A e \in Executions : status[e] # "NONE" => status'[e] = status[e]
    BY <1>1, <1>2, <1>3, SendAddsOne
  <2>2. TypeOK'
    BY <1>1, <2>1 DEF TypeOK, ExposureTypeOK, StatusTypeOK, PublishOk, PublishFails
  <2>3. HandlerHasWork'
    BY <1>1, <2>1 DEF HandlerHasWork
  <2>4. CountedWasPublished'
    BY <1>1, <2>1 DEF CountedWasPublished, TypeOK
  <2>5. LoopHasWork' /\ ListedWasOpen'
    BY <1>1, <2>1, ListedStays DEF LoopHasWork
  <2> QED
    BY <2>1, <2>2, <2>3, <2>4, <2>5
<1>4. CASE ~Send
  <2>1. pc' = "nak" /\ status' = status
    BY <1>4 DEF PublishOk, PublishFails
  <2>2. TypeOK' /\ LoopHasWork' /\ ListedWasOpen'
    BY <1>1, <2>1, ListedStays DEF TypeOK, ExposureTypeOK, LoopHasWork
  <2> QED
    BY <1>1, <2>1, <2>2, QuietStep DEF RegisterState
<1> QED
  BY <1>3, <1>4

\* The counters of Register go up, and what is registered is then counted.
LEMMA RegisterKeepsBooks ==
  ASSUME Bookkeeping, Register
  PROVE  Bookkeeping'
<1> USE DEF Bookkeeping, loopVars, Registering
<1>1. /\ UNCHANGED <<loopVars, now, unacked, status, handling, seenLongs, crashes>>
      /\ pc \in RegisterState /\ pc' \in RegisterState \cup {"ack"}
  BY DEF Register, DoRegisterTotal, DoRegisterSide, DoRegisterLoad, DoRegisterSector,
         RegisterState
<1>2. handling \in Intents /\ SectorOf[handling] \in Sectors
  BY <1>1, IntentsAssumption DEF HandlerHasWork, RegisterState
<1>3. ExposureTypeOK'
  <2>1. ExposureTypeOK
    BY DEF TypeOK
  <2> QED
    BY <1>2, <2>1, RegisterKeepsTypes
    DEF Register, DoRegisterTotal, DoRegisterSide, DoRegisterLoad, DoRegisterSector
<1>4. Published \in Executions /\ status[Published] # "NONE"
  BY <1>1, <1>2, PromotionsAreCounted DEF HandlerHasWork, Published, Promotions
<1>5. LoopHasWork' /\ ListedWasOpen'
  BY <1>1, ListedStays DEF LoopHasWork
<1>6. CASE counted' = counted
  <2>1. TypeOK'
    BY <1>1, <1>3, <1>6 DEF TypeOK, RegisterState
  <2> QED
    BY <1>1, <1>2, <1>5, <1>6, <2>1, QuietStep
<1>7. CASE counted' = counted \cup {Published} /\ pc' = "ack"
  <2>1. TypeOK'
    BY <1>1, <1>3, <1>4, <1>7 DEF TypeOK
  <2>2. PromotionsInOrder'
    <3>1. \A i \in Intents : Promotions(i)' = Promotions(i)
      BY <1>1, PromotionsStay
    <3> QED
      BY <3>1 DEF PromotionsInOrder
  <2>3. HandlerHasWork' /\ CountedWasPublished'
    BY <1>1, <1>2, <1>4, <1>7, FS_AddElement
    DEF HandlerHasWork, CountedWasPublished, RegisterState
  <2> QED
    BY <1>5, <2>1, <2>2, <2>3
<1> QED
  BY <1>6, <1>7 DEF Register, DoRegisterTotal, DoRegisterSide, DoRegisterLoad,
                    DoRegisterSector

\* A step of the loop of Run, and the actions it may be.
LoopStep == Tick \/ Liquidate \/ RefreshExposure

USE DEF LoopStep, Tick, Liquidate, LiquidateList, LiquidateListFails,
        SquareOffPublishOk, SquareOffPublishFails, SquareOffMark, SquareOffMarkFails,
        Release, Releasing, DoReleaseSector, DoReleaseDelete, DoReleaseTotal,
        DoUndoTotal, DoReleaseSide, DoUndoSide, LiquidateDone, RefreshExposure, RefreshList,
        RefreshListFails, DoReset, DoRecountTotal, DoRecountSide, DoRecountSector

\* The loop leaves the callback alone.
LEMMA LoopLeavesHandler ==
  ASSUME LoopStep
  PROVE  UNCHANGED <<now, unacked, counted, handling, pc, seenLongs, crashes>>
BY DEF unchangedByLoop, handlerVars

\* Square-off and refresh keep the types of the counters.
LEMMA LoopKeepsTypes ==
  ASSUME ExposureTypeOK, LoopHasWork, LoopStep
  PROVE  ExposureTypeOK'
<1>1. CASE UNCHANGED exposureVars
  BY <1>1 DEF exposureVars, ExposureTypeOK
<1>2. CASE DoReleaseSector
  <2>1. CASE Sector(current) \in keys
    <3>1. Sector(current) \in Sectors /\ ReleaseSector(Sector(current))
      BY <1>2, <2>1 DEF ExposureTypeOK
    <3> QED
      BY <3>1, ReleaseKeepsTypes
  <2>2. CASE Sector(current) \notin keys
    BY <1>1, <1>2, <2>2
  <2> QED
    BY <2>1, <2>2
<1>3. CASE DoReleaseDelete
  BY <1>3, DeleteKeepsTypes
<1>4. CASE DoReleaseTotal \/ DoUndoTotal \/ DoReleaseSide \/ DoUndoSide
  BY <1>4, ReleaseKeepsTypes
<1>5. CASE DoReset
  BY <1>5, RefreshKeepsTypes, DeleteKeepsTypes
<1>6. CASE (\E e \in Executions : DoRecountTotal(e)) \/ DoRecountSide
  BY <1>6, RefreshKeepsTypes
<1>7. CASE DoRecountSector
  <2>1. Sector(current) \in Sectors
    BY <1>7, IntentsAssumption DEF LoopHasWork, Executions, Sector
  <2> QED
    BY <1>7, <2>1, RefreshKeepsTypes
<1> QED
  BY <1>1, <1>2, <1>3, <1>4, <1>5, <1>6, <1>7

\* In the table the loop closes positions that were open and does nothing else.
LEMMA LoopCloses ==
  ASSUME StatusTypeOK, ListedWasOpen, LoopStep
  PROVE  /\ StatusTypeOK'
         /\ \A e \in Executions :
              /\ status[e] = "NONE" <=> status'[e] = "NONE"
              /\ status[e] \in {"OPEN", "CLOSED"} => status'[e] \in {"OPEN", "CLOSED"}
<1>1. CASE UNCHANGED status
  BY <1>1 DEF StatusTypeOK
<1>2. CASE status' = [status EXCEPT ![current] = "CLOSED"]
  <2>1. \A e \in Executions : status'[e] = IF e = current THEN "CLOSED" ELSE status[e]
    BY <1>2 DEF StatusTypeOK
  <2>2. NoExecution \notin Executions
    BY IntentsAssumption DEF NoExecution, Executions
  <2>3. StatusTypeOK'
    BY <1>2 DEF StatusTypeOK
  <2> QED
    BY <2>1, <2>2, <2>3 DEF ListedWasOpen
<1> QED
  BY <1>1, <1>2

\* What it works on next is what it lists, or part of what it listed.
LEMMA LoopLists ==
  ASSUME TypeOK, ListedWasOpen, LoopStep
  PROVE  ListedWasOpen'
<1>1. \A e \in Executions :
        status[e] \in {"OPEN", "CLOSED"} => status'[e] \in {"OPEN", "CLOSED"}
  BY LoopCloses DEF TypeOK, StatusTypeOK
<1>2. CASE todo' = ListOpen /\ UNCHANGED <<status, current>>
  BY <1>2 DEF ListedWasOpen, ListOpen
<1>3. CASE todo' \subseteq todo /\ current' \in todo \cup {current, NoExecution}
  BY <1>1, <1>3, ListedStays
<1> QED
  BY <1>2, <1>3

LEMMA LoopKeepsBooks ==
  ASSUME Bookkeeping, LoopStep
  PROVE  Bookkeeping'
<1> USE DEF Bookkeeping
<1>1. UNCHANGED <<now, unacked, counted, handling, pc, seenLongs, crashes>>
  BY LoopLeavesHandler
<1>2. ExposureTypeOK'
  BY LoopKeepsTypes DEF TypeOK
<1>3. StatusTypeOK' /\ \A e \in Executions : status[e] = "NONE" <=> status'[e] = "NONE"
  BY LoopCloses DEF TypeOK, StatusTypeOK
<1>4. /\ mpc' \in {"idle", "list", "liquidate", "mark", "releaseSector", "releaseDelete",
                   "releaseTotal", "undoTotal", "releaseSide", "undoSide", "refresh",
                   "resetTotal", "resetLongs", "resetShorts", "resetSectors", "recount",
                   "recountSide", "recountSector"}
      /\ todo' \subseteq Executions
      /\ current' \in Executions \cup {NoExecution}
  BY DEF TypeOK, ListOpen
<1>5. day' \in Nat \cup {Never} /\ sqDone' \in Nat \cup {Never}
  <2>1. Day(now) \in Nat
    BY InstantsAssumption DEF TypeOK, Day, MinutesPerDay
  <2> QED
    BY <2>1 DEF TypeOK
<1>6. allClosed' \in BOOLEAN
  BY DEF TypeOK
<1>7. TypeOK'
  BY <1>1, <1>2, <1>3, <1>4, <1>5, <1>6 DEF TypeOK, StatusTypeOK
<1>8. ListedWasOpen'
  BY LoopLists
<1>9. LoopHasWork'
  BY <1>4 DEF LoopHasWork
<1> QED
  BY <1>1, <1>3, <1>7, <1>8, <1>9, QuietStep DEF HandlerHasWork

HIDE DEF LoopStep, Tick, Liquidate, LiquidateList, LiquidateListFails,
        SquareOffPublishOk, SquareOffPublishFails, SquareOffMark, SquareOffMarkFails,
        Release, Releasing, DoReleaseSector, DoReleaseDelete, DoReleaseTotal,
        DoUndoTotal, DoReleaseSide, DoUndoSide, LiquidateDone, RefreshExposure, RefreshList,
        RefreshListFails, DoReset, DoRecountTotal, DoRecountSide, DoRecountSector

\* The gateway, the exit monitor, the clock and a new process.
LEMMA SurroundingsKeepBooks ==
  ASSUME Bookkeeping,
         (\E e \in Executions : Fill(e) \/ Exit(e)) \/ TimePasses \/ Restart
  PROVE  Bookkeeping'
<1> USE DEF Bookkeeping, exposureVars, loopVars, handlerVars, unchangedByLoop
<1>1. ASSUME NEW e \in Executions, Fill(e) \/ Exit(e)
      PROVE  Bookkeeping'
  <2>1. /\ UNCHANGED <<exposureVars, loopVars, handlerVars, now, unacked, counted, crashes>>
        /\ \/ status[e] = "SENT" /\ status' = [status EXCEPT ![e] = "OPEN"]
           \/ status[e] = "OPEN" /\ status' = [status EXCEPT ![e] = "CLOSED"]
    BY <1>1 DEF Fill, Exit, Move
  <2>2. /\ StatusTypeOK'
        /\ \A f \in Executions :
             /\ status[f] = "NONE" <=> status'[f] = "NONE"
             /\ status[f] \in {"OPEN", "CLOSED"} => status'[f] \in {"OPEN", "CLOSED"}
    BY <2>1 DEF TypeOK, StatusTypeOK
  <2>3. TypeOK'
    BY <2>1, <2>2 DEF TypeOK, ExposureTypeOK, StatusTypeOK
  <2>4. LoopHasWork' /\ ListedWasOpen'
    BY <2>1, <2>2, ListedStays DEF LoopHasWork
  <2> QED
    BY <2>1, <2>2, <2>3, <2>4, QuietStep DEF HandlerHasWork
<1>2. CASE TimePasses
  <2>1. TypeOK' /\ LoopHasWork' /\ ListedWasOpen'
    BY <1>2, ListedStays DEF TimePasses, TypeOK, ExposureTypeOK, LoopHasWork
  <2> QED
    BY <1>2, <2>1, QuietStep DEF TimePasses, HandlerHasWork
<1>3. CASE Restart
  <2>1. /\ pc' = "idle" /\ mpc' = "idle" /\ handling' = NoIntent /\ current' = NoExecution
        /\ counted' = {} /\ todo' = {} /\ day' = Never /\ sqDone' = Never
        /\ UNCHANGED <<now, unacked, status>>
    BY <1>3 DEF Restart
  <2>2. seenLongs' \in Int /\ crashes' \in 0..MaxCrashes
    BY <1>3, BoundsAssumption DEF Restart, TypeOK
  <2>3. allClosed' \in BOOLEAN
    BY <1>3 DEF Restart
  <2>4. ExposureTypeOK'
    <3>1. sectorCount' \in [Sectors -> Int]
      BY <1>3 DEF Restart
    <3>2. handlerHolds' \in BOOLEAN
      BY <1>3 DEF Restart
    <3>3. keys' = {} /\ total' = 0 /\ longs' = 0 /\ shorts' = 0
      BY <1>3 DEF Restart
    <3> QED
      BY <3>1, <3>2, <3>3 DEF ExposureTypeOK
  <2>5. TypeOK'
    BY <2>1, <2>2, <2>3, <2>4 DEF TypeOK
  <2>6. \A i \in Intents : Promotions(i)' = Promotions(i)
    BY <2>1, PromotionsStay
  <2> QED
    BY <2>1, <2>5, <2>6, FS_EmptySet
    DEF HandlerHasWork, PromotionsInOrder, CountedWasPublished, ListedWasOpen, LoopHasWork,
        RegisterState
<1> QED
  BY <1>1, <1>2, <1>3

LEMMA NextBookkeeping == Bookkeeping /\ [Next]_vars => Bookkeeping'
<1> SUFFICES ASSUME Bookkeeping, [Next]_vars PROVE Bookkeeping'
  OBVIOUS
<1>1. CASE HandleIntent
  BY <1>1, EvaluateKeepsBooks, PublishKeepsBooks, RegisterKeepsBooks DEF HandleIntent
<1>2. CASE Tick \/ Liquidate \/ RefreshExposure
  BY <1>2, LoopKeepsBooks DEF LoopStep
<1>3. CASE (\E e \in Executions : Fill(e) \/ Exit(e)) \/ TimePasses \/ Restart
  BY <1>3, SurroundingsKeepBooks
<1>4. CASE UNCHANGED vars
  BY <1>4 DEF vars, exposureVars, handlerVars, loopVars, Bookkeeping, TypeOK, ExposureTypeOK,
              HandlerHasWork, PromotionsInOrder, CountedWasPublished, LoopHasWork,
              ListedWasOpen, Promotions, Published
<1> QED
  BY <1>1, <1>2, <1>3, <1>4 DEF Next

\* The books agree with the table and the stream, with the stores and without, for any
\* intents, sectors, clocks and numbers of restarts: nothing is registered that was not
\* published, nothing squared off, released or recounted that was not open.
THEOREM BooksAreKept == Spec => []Bookkeeping
BY InitBookkeeping, NextBookkeeping, PTL DEF Spec
-----------------------------------------------------------------------------
(* What the loop takes below zero, it undoes. *)

NonNegative ==
  total >= 0 /\ longs >= 0 /\ shorts >= 0 /\ \A s \in Sectors : sectorCount[s] >= 0

UndoState == {"undoTotal", "undoSide", "releaseDelete"}

LEMMA SaneIsUndone == ExposureTypeOK /\ NonNegative => UnderflowIsUndone
BY DEF ExposureTypeOK, NonNegative, UnderflowIsUndone

\* The same of the state after a step.
LEMMA SaneAfterIsUndone ==
  ASSUME ExposureTypeOK', NonNegative'
  PROVE  UnderflowIsUndone'
<1>1. (ExposureTypeOK /\ NonNegative)' => UnderflowIsUndone'
  BY SaneIsUndone, PTL
<1> QED
  BY <1>1

LEMMA UndoneIsSane ==
  ASSUME UnderflowIsUndone, mpc \notin UndoState
  PROVE  NonNegative
BY DEF UndoState, NonNegative, UnderflowIsUndone

\* The callback only adds, at whatever point the loop is.
LEMMA RisingIsUndone ==
  ASSUME ExposureTypeOK, ExposureTypeOK', UnderflowIsUndone, UNCHANGED <<mpc, current>>,
         total' >= total, longs' >= longs, shorts' >= shorts,
         \A s \in Sectors : sectorCount'[s] >= sectorCount[s]
  PROVE  UnderflowIsUndone'
<1> DEFINE T == IF mpc = "undoTotal" /\ TRUE THEN -1 ELSE 0
           L == IF mpc = "undoSide" /\ Side(current) # "SHORT" THEN -1 ELSE 0
           S == IF mpc = "undoSide" /\ Side(current) = "SHORT" THEN -1 ELSE 0
           C(s) == IF mpc = "releaseDelete" /\ Sector(current) = s THEN -1 ELSE 0
<1>1. T \in Int /\ L \in Int /\ S \in Int /\ \A s : C(s) \in Int
  OBVIOUS
<1>2. UnderflowIsUndone <=> /\ total >= T /\ longs >= L /\ shorts >= S
                            /\ \A s \in Sectors : sectorCount[s] >= C(s)
  BY DEF UnderflowIsUndone
<1>3. UnderflowIsUndone' <=> /\ total' >= T /\ longs' >= L /\ shorts' >= S
                             /\ \A s \in Sectors : sectorCount'[s] >= C(s)
  BY DEF UnderflowIsUndone, Side, Sector
<1> HIDE DEF T, L, S, C
<1>4. \A a, b, c \in Int : a >= b /\ b >= c => a >= c
  OBVIOUS
<1>5. /\ total \in Int /\ longs \in Int /\ shorts \in Int
      /\ total' \in Int /\ longs' \in Int /\ shorts' \in Int
      /\ \A s \in Sectors : sectorCount[s] \in Int /\ sectorCount'[s] \in Int
  BY DEF ExposureTypeOK
<1> QED
  BY <1>1, <1>2, <1>3, <1>4, <1>5

\* Release, operation by operation.
LEMMA ReleaseIsUndone ==
  ASSUME ExposureTypeOK, ExposureTypeOK', UnderflowIsUndone, Release
  PROVE  UnderflowIsUndone'
<1> USE DEF ExposureTypeOK, Releasing
<1>1. CASE DoReleaseSector
  <2>1. NonNegative
    BY <1>1, UndoneIsSane DEF DoReleaseSector, UndoState
  <2>2. CASE Sector(current) \notin keys
    <3>1. NonNegative'
      BY <1>1, <2>1, <2>2 DEF DoReleaseSector, NonNegative, exposureVars
    <3> QED
      BY <3>1, SaneAfterIsUndone
  <2>3. CASE Sector(current) \in keys
    <3>1. /\ sectorCount' = [sectorCount EXCEPT ![Sector(current)] = @ - 1]
          /\ UNCHANGED <<total, longs, shorts, current>>
          /\ mpc' = IF sectorCount[Sector(current)] <= 1 THEN "releaseDelete"
                                                        ELSE "releaseTotal"
      BY <1>1, <2>3 DEF DoReleaseSector, ReleaseSector
    <3>2. CASE sectorCount[Sector(current)] <= 1
      BY <2>1, <3>1, <3>2 DEF NonNegative, UnderflowIsUndone, Sector
    <3>3. CASE ~(sectorCount[Sector(current)] <= 1)
      <4>1. NonNegative'
        BY <2>1, <2>3, <3>1, <3>3 DEF NonNegative
      <4> QED
        BY <4>1, SaneAfterIsUndone
    <3> QED
      BY <3>2, <3>3
  <2> QED
    BY <2>2, <2>3
<1>2. CASE DoReleaseDelete
  <2>1. NonNegative'
    BY <1>2 DEF DoReleaseDelete, DeleteSectors, UnderflowIsUndone, NonNegative
  <2> QED
    BY <2>1, SaneAfterIsUndone
<1>3. CASE DoReleaseTotal
  <2>1. NonNegative
    BY <1>3, UndoneIsSane DEF DoReleaseTotal, UndoState
  <2>2. /\ total' = total - 1 /\ UNCHANGED <<longs, shorts, sectorCount, current>>
        /\ mpc' = IF total <= 0 THEN "undoTotal" ELSE "releaseSide"
    BY <1>3 DEF DoReleaseTotal, ReleaseTotal, AddTotal
  <2> QED
    BY <2>1, <2>2 DEF NonNegative, UnderflowIsUndone
<1>4. CASE DoUndoTotal
  <2>1. NonNegative'
    BY <1>4 DEF DoUndoTotal, UndoTotal, AddTotal, UnderflowIsUndone, NonNegative
  <2> QED
    BY <2>1, SaneAfterIsUndone
<1>5. CASE DoReleaseSide
  <2>1. NonNegative
    BY <1>5, UndoneIsSane DEF DoReleaseSide, UndoState
  <2>2. /\ UNCHANGED <<total, sectorCount>>
        /\ mpc' = IF OfSide(Side(current)) <= 0 THEN "undoSide" ELSE "liquidate"
        /\ OfSide(Side(current)) <= 0 => current' = current
        /\ IF Side(current) = "SHORT" THEN shorts' = shorts - 1 /\ UNCHANGED longs
                                      ELSE longs' = longs - 1 /\ UNCHANGED shorts
    BY <1>5 DEF DoReleaseSide, ReleaseSide, AddSide
  <2>3. CASE Side(current) = "SHORT"
    BY <2>1, <2>2, <2>3 DEF NonNegative, UnderflowIsUndone, OfSide, Side
  <2>4. CASE Side(current) # "SHORT"
    BY <2>1, <2>2, <2>4 DEF NonNegative, UnderflowIsUndone, OfSide, Side
  <2> QED
    BY <2>3, <2>4
<1>6. CASE DoUndoSide
  <2>1. /\ mpc = "undoSide" /\ UNCHANGED <<total, sectorCount>>
        /\ IF Side(current) = "SHORT" THEN shorts' = shorts + 1 /\ UNCHANGED longs
                                      ELSE longs' = longs + 1 /\ UNCHANGED shorts
    BY <1>6 DEF DoUndoSide, UndoSide, AddSide
  <2>2. NonNegative'
    BY <2>1 DEF UnderflowIsUndone, NonNegative
  <2> QED
    BY <2>2, SaneAfterIsUndone
<1> QED
  BY <1>1, <1>2, <1>3, <1>4, <1>5, <1>6 DEF Release

\* Nothing else takes a counter down but the resets, to zero.
LEMMA LoopUndoes ==
  ASSUME ExposureTypeOK, ExposureTypeOK', UnderflowIsUndone, LoopStep
  PROVE  UnderflowIsUndone'
<1> USE DEF Releasing
<1>1. CASE Release
  BY <1>1, ReleaseIsUndone
<1>2. CASE ~Release
  <2>1. mpc \notin UndoState
    BY <1>2 DEF LoopStep, Tick, Liquidate, LiquidateList, LiquidateListFails,
                SquareOffPublishOk, SquareOffPublishFails, SquareOffMark,
                SquareOffMarkFails, LiquidateDone, RefreshExposure, RefreshList,
                RefreshListFails, DoReset, DoRecountTotal, DoRecountSide,
                DoRecountSector, UndoState
  <2>2. NonNegative
    BY <2>1, UndoneIsSane
  <2> SUFFICES NonNegative'
    BY SaneAfterIsUndone
  <2>3. CASE UNCHANGED exposureVars
    BY <2>2, <2>3 DEF exposureVars, NonNegative
  <2>4. CASE DoReset
    BY <2>2, <2>4 DEF DoReset, ResetTotal, ResetLongs, ResetShorts, DeleteSectors,
                      ExposureTypeOK, NonNegative
  <2>5. CASE (\E e \in Executions : DoRecountTotal(e)) \/ DoRecountSide
    BY <2>2, <2>5 DEF DoRecountTotal, DoRecountSide, RecountTotal, RecountSide, AddTotal,
                      AddSide, ExposureTypeOK, NonNegative
  <2>6. CASE DoRecountSector
    BY <2>2, <2>6 DEF DoRecountSector, RecountSector, ExposureTypeOK, NonNegative
  <2> QED
    BY <1>2, <2>2, <2>3, <2>4, <2>5, <2>6
    DEF LoopStep, Tick, Liquidate, LiquidateList, LiquidateListFails,
        SquareOffPublishOk, SquareOffPublishFails, SquareOffMark, SquareOffMarkFails,
        LiquidateDone, RefreshExposure, RefreshList, RefreshListFails
<1> QED
  BY <1>1, <1>2

\* The callback, in all its steps.
LEMMA HandlerRises ==
  ASSUME ExposureTypeOK, HandleIntent
  PROVE  /\ UNCHANGED <<mpc, current>>
         /\ total' >= total /\ longs' >= longs /\ shorts' >= shorts
         /\ \A s \in Sectors : sectorCount'[s] >= sectorCount[s]
<1> USE DEF ExposureTypeOK, loopVars
<1>1. CASE Register
  <2>1. UNCHANGED <<mpc, current>>
    BY <1>1 DEF Register, DoRegisterTotal, DoRegisterSide, DoRegisterLoad,
                DoRegisterSector, Registering
  <2>2. CASE RegisterTotal
    BY <2>1, <2>2 DEF RegisterTotal, AddTotal
  <2>3. CASE RegisterSide(SideOf[handling])
    BY <2>1, <2>3 DEF RegisterSide, AddSide
  <2>4. CASE RegisterLoad(SectorOf[handling])
    BY <2>1, <2>4 DEF RegisterLoad
  <2>5. CASE RegisterSector(SectorOf[handling])
    BY <2>1, <2>5 DEF RegisterSector
  <2> QED
    BY <1>1, <2>2, <2>3, <2>4, <2>5
    DEF Register, DoRegisterTotal, DoRegisterSide, DoRegisterLoad, DoRegisterSector
<1>2. CASE UNCHANGED <<exposureVars, loopVars>>
  BY <1>2 DEF exposureVars
<1> QED
  BY <1>1, <1>2 DEF HandleIntent, Receive, Evaluate, TimeGate, SectorGate, TotalGate,
     BiasGateLongs, BiasGateShorts, ScoreGate, Size, Gate, PublishOk, PublishFails, Ack,
     AckLost, Nak, Return

LEMMA InitUndone == Init => UnderflowIsUndone
BY DEF Init, ExposureInit, UnderflowIsUndone

LEMMA NextUndone ==
  Bookkeeping /\ UnderflowIsUndone /\ [Next]_vars /\ Bookkeeping' => UnderflowIsUndone'
<1> SUFFICES ASSUME Bookkeeping, UnderflowIsUndone, [Next]_vars, Bookkeeping'
             PROVE  UnderflowIsUndone'
  OBVIOUS
<1>1. ExposureTypeOK /\ ExposureTypeOK'
  BY DEF Bookkeeping, TypeOK
<1>2. CASE HandleIntent
  BY <1>1, <1>2, HandlerRises, RisingIsUndone
<1>3. CASE Tick \/ Liquidate \/ RefreshExposure
  BY <1>1, <1>3, LoopUndoes DEF LoopStep
<1>4. CASE UNCHANGED <<exposureVars, mpc, current>>
  BY <1>4 DEF exposureVars, UnderflowIsUndone, Side, Sector
<1>5. CASE Restart
  <2>1. NonNegative'
    BY <1>5 DEF Restart, NonNegative
  <2> QED
    BY <1>1, <2>1, SaneAfterIsUndone
<1> QED
  BY <1>2, <1>3, <1>4, <1>5
  DEF Next, Fill, Exit, Move, TimePasses, vars, unchangedByLoop, loopVars

\* A counter below zero is one that the Release at work has still to put right, by one
\* position: the callback never finds the exposure short by more, and once the loop is
\* past its Release no counter is below zero (exposure.go:88).
THEOREM UnderflowsAreUndone == Spec => []UnderflowIsUndone
BY BooksAreKept, InitUndone, NextUndone, PTL DEF Spec
-----------------------------------------------------------------------------
(* The exposure and the gates of the agent as main.go runs it. *)

LEMMA PartsAreFinite ==
  ASSUME NEW C, IsFiniteSet(C)
  PROVE  /\ Cardinality(C) \in Nat
         /\ \A side : /\ IsFiniteSet(OnSide(C, side))
                      /\ Cardinality(OnSide(C, side)) \in Nat
         /\ \A s : /\ IsFiniteSet(InSector(C, s))
                   /\ Cardinality(InSector(C, s)) \in Nat
<1>1. \A D \in SUBSET C : IsFiniteSet(D) /\ Cardinality(D) \in Nat
  BY FS_Subset, FS_CardinalityType
<1>2. C \in SUBSET C
  OBVIOUS
<1>3. \A side : OnSide(C, side) \in SUBSET C
  BY DEF OnSide
<1>4. \A s : InSector(C, s) \in SUBSET C
  BY DEF InSector
<1> QED
  BY <1>1, <1>2, <1>3, <1>4

\* One execution more is one more in all, on its side and in its sector.
LEMMA OneMore ==
  ASSUME NEW C, IsFiniteSet(C), NEW e, e \notin C
  PROVE  /\ Cardinality(C \cup {e}) = Cardinality(C) + 1
         /\ \A side : Cardinality(OnSide(C \cup {e}, side)) =
                      IF Side(e) = side THEN Cardinality(OnSide(C, side)) + 1
                                        ELSE Cardinality(OnSide(C, side))
         /\ \A s : Cardinality(InSector(C \cup {e}, s)) =
                   IF Sector(e) = s THEN Cardinality(InSector(C, s)) + 1
                                    ELSE Cardinality(InSector(C, s))
<1>1. Cardinality(C \cup {e}) = Cardinality(C) + 1
  BY FS_AddElement
<1>2. ASSUME NEW side
      PROVE  Cardinality(OnSide(C \cup {e}, side)) =
             IF Side(e) = side THEN Cardinality(OnSide(C, side)) + 1
                               ELSE Cardinality(OnSide(C, side))
  <2>1. IsFiniteSet(OnSide(C, side)) /\ e \notin OnSide(C, side)
    BY PartsAreFinite DEF OnSide
  <2>2. OnSide(C \cup {e}, side) =
        IF Side(e) = side THEN OnSide(C, side) \cup {e} ELSE OnSide(C, side)
    BY DEF OnSide
  <2> QED
    BY <2>1, <2>2, FS_AddElement
<1>3. ASSUME NEW s
      PROVE  Cardinality(InSector(C \cup {e}, s)) =
             IF Sector(e) = s THEN Cardinality(InSector(C, s)) + 1
                              ELSE Cardinality(InSector(C, s))
  <2>1. IsFiniteSet(InSector(C, s)) /\ e \notin InSector(C, s)
    BY PartsAreFinite DEF InSector
  <2>2. InSector(C \cup {e}, s) =
        IF Sector(e) = s THEN InSector(C, s) \cup {e} ELSE InSector(C, s)
    BY DEF InSector
  <2> QED
    BY <2>1, <2>2, FS_AddElement
<1> QED
  BY <1>1, <1>2, <1>3

\* Nothing counted, nothing exposed; the first intent finds every gate open.
NothingYet == ExposureInit /\ counted = {} /\ pc = "idle" /\ mpc = "idle"

LEMMA NothingIsExposed == NothingYet => Exposed
<1> SUFFICES ASSUME NothingYet PROVE Exposed
  OBVIOUS
<1> USE DEF NothingYet
<1>1. \A x : OnSide({}, x) = {} /\ InSector({}, x) = {}
  BY DEF OnSide, InSector
<1>2. Cardinality({}) = 0
  BY FS_EmptySet
<1>3. ExposureIsPublished
  <2>1. total = 0 /\ longs = 0 /\ shorts = 0 /\ \A s \in Sectors : sectorCount[s] = 0
    BY DEF ExposureInit
  <2>2. InTotal = 0 /\ \A side : InSide(side) = 0
    BY DEF InTotal, InSide
  <2> QED
    BY <1>1, <1>2, <2>1, <2>2 DEF ExposureIsPublished
<1>4. GatesHold
  BY <1>1, <1>2, LimitsAssumption DEF GatesHold
<1>5. NoStoreIsUsed /\ GatesPassed
  BY DEF NoStoreIsUsed, GatesPassed, RegisterState
<1> QED
  BY <1>3, <1>4, <1>5 DEF Exposed

\* Without stores the callback is the only one to work, with the exposure to itself.
LEMMA OnlyTheCallbackWorks ==
  ASSUME ~StoresWired, NoStoreIsUsed
  PROVE  ~LoopStep
BY DEF NoStoreIsUsed, LoopStep, Tick, Liquidate, LiquidateList, LiquidateListFails,
       SquareOffPublishOk, SquareOffPublishFails, SquareOffMark, SquareOffMarkFails,
       Release, Releasing, DoReleaseSector, DoReleaseDelete, DoReleaseTotal,
       DoUndoTotal, DoReleaseSide, DoUndoSide, LiquidateDone, RefreshExposure, RefreshList,
       RefreshListFails, DoReset, DoRecountTotal, DoRecountSide, DoRecountSector

\* A step that neither registers nor counts keeps the exposure and what is counted.
LEMMA NothingRegistered ==
  ASSUME ~StoresWired, Exposed, UNCHANGED <<exposureVars, counted, mpc>>,
         {pc, pc'} \cap RegisterState \subseteq {"registerTotal"}, pc' # "score"
  PROVE  NoStoreIsUsed' /\ ExposureIsPublished' /\ GatesHold'
<1> USE DEF Exposed
<1>1. InTotal = 0 /\ InTotal' = 0
  BY DEF InTotal, RegisterState
<1>2. \A side : InSide(side) = 0 /\ InSide(side)' = 0
  BY DEF InSide, RegisterState
<1>3. ExposureIsPublished'
  BY <1>1, <1>2 DEF ExposureIsPublished, exposureVars, OnSide, InSector
<1>4. GatesHold'
  BY DEF GatesHold, OnSide, InSector
<1> QED
  BY <1>3, <1>4 DEF NoStoreIsUsed, RegisterState

\* Each gate leaves what it has found, until the execution is published.
LEMMA EvaluateIsExposed ==
  ASSUME ~StoresWired, Bookkeeping, Exposed,
         (\E i \in Intents : Receive(i)) \/ Evaluate \/ Size \/ Ack \/ AckLost \/ Nak
  PROVE  Exposed'
<1> USE DEF Exposed
<1>1. /\ UNCHANGED <<exposureVars, counted, mpc>>
      /\ pc \notin RegisterState /\ pc' \notin RegisterState /\ pc' # "score"
  BY DEF loopVars, Receive, Evaluate, TimeGate, SectorGate, TotalGate, BiasGateLongs,
         BiasGateShorts, ScoreGate, Size, Gate, Ack, AckLost, Nak, Return, RegisterState
<1>2. NoStoreIsUsed' /\ ExposureIsPublished' /\ GatesHold'
  BY <1>1, NothingRegistered
<1> SUFFICES GatesPassed'
  BY <1>2
<1> DEFINE l == Cardinality(OnSide(counted, "LONG"))
           s == Cardinality(OnSide(counted, "SHORT"))
           n == Cardinality(InSector(counted, SectorOf[handling]))
<1>3. l \in Nat /\ s \in Nat /\ n \in Nat /\ Cardinality(counted) \in Nat
  BY PartsAreFinite DEF Bookkeeping, CountedWasPublished
<1>4. pc # "idle" => /\ total = Cardinality(counted) /\ longs = l /\ shorts = s
                     /\ sectorCount[SectorOf[handling]] = n
  <2>1. InTotal = 0 /\ InSide("LONG") = 0 /\ InSide("SHORT") = 0
    BY <1>1 DEF InTotal, InSide, RegisterState
  <2>2. pc # "idle" => SectorOf[handling] \in Sectors
    BY IntentsAssumption DEF Bookkeeping, HandlerHasWork
  <2> QED
    BY <1>3, <2>1, <2>2 DEF ExposureIsPublished
<1>5. CASE (\E i \in Intents : Receive(i)) \/ Ack \/ AckLost \/ Nak
  BY <1>5 DEF Receive, Ack, AckLost, Nak, Return, GatesPassed, RegisterState
<1>6. CASE TimeGate
  BY <1>6 DEF TimeGate, Gate, GatesPassed, RegisterState
<1>7. CASE SectorGate
  <2>1. pc' = "total" => n < MaxSectorPositions
    BY <1>3, <1>4, <1>7, LimitsAssumption DEF SectorGate, Gate, SectorFull
  <2> QED
    BY <1>7, <2>1 DEF SectorGate, Gate, GatesPassed, RegisterState
<1>8. CASE TotalGate
  <2>1. pc' = "longs" => Cardinality(counted) < MaxTotalPositions
    BY <1>3, <1>4, <1>8, LimitsAssumption DEF TotalGate, Gate, PlatformFull
  <2> QED
    BY <1>8, <2>1 DEF TotalGate, Gate, GatesPassed, RegisterState
<1>9. CASE BiasGateLongs
  <2>1. seenLongs' = l
    BY <1>4, <1>9 DEF BiasGateLongs, Gate
  <2> QED
    BY <1>9, <2>1 DEF BiasGateLongs, Gate, GatesPassed, RegisterState
<1>10. CASE BiasGateShorts
  <2>1. seenLongs = l /\ shorts = s
    BY <1>4, <1>10 DEF BiasGateShorts, Gate, GatesPassed
  <2>2. pc' = "size" => ~BiasLimit(l, s, SideOf[handling])
    BY <1>10, <2>1 DEF BiasGateShorts, Gate
  <2> QED
    BY <1>10, <2>2 DEF BiasGateShorts, Gate, GatesPassed, RegisterState
<1>11. CASE Size
  BY <1>11 DEF Size, Gate, GatesPassed, RegisterState
<1>12. ~ScoreGate
  BY DEF ScoreGate, Gate, NoStoreIsUsed
<1> QED
  BY <1>5, <1>6, <1>7, <1>8, <1>9, <1>10, <1>11, <1>12 DEF Evaluate

\* The publish comes after the gates and before the count.
LEMMA PublishIsExposed ==
  ASSUME ~StoresWired, Exposed, PublishOk \/ PublishFails
  PROVE  Exposed'
<1> USE DEF Exposed
<1>1. /\ UNCHANGED <<exposureVars, counted, handling, mpc>>
      /\ pc = "publish" /\ pc' \in {"registerTotal", "nak"}
  BY DEF PublishOk, PublishFails, loopVars
<1>2. NoStoreIsUsed' /\ ExposureIsPublished' /\ GatesHold'
  BY <1>1, NothingRegistered DEF RegisterState
<1>3. GatesPassed'
  BY <1>1 DEF GatesPassed, RegisterState
<1> QED
  BY <1>2, <1>3

\* Register adds up to one execution more, which the gates have left room for.
LEMMA RegisterIsExposed ==
  ASSUME ~StoresWired, Bookkeeping, Exposed, Register
  PROVE  Exposed'
<1> USE DEF Exposed
<1> DEFINE l == Cardinality(OnSide(counted, "LONG"))
           s == Cardinality(OnSide(counted, "SHORT"))
<1>1. /\ handling \in Intents /\ handling # NoIntent
      /\ SideOf[handling] \in {"LONG", "SHORT"} /\ SectorOf[handling] \in Sectors
      /\ UNCHANGED <<handling, mpc>> /\ mpc = "idle"
  <2>1. pc # "idle" /\ UNCHANGED <<handling, mpc>>
    BY DEF Register, DoRegisterTotal, DoRegisterSide, DoRegisterLoad, DoRegisterSector,
           Registering, loopVars
  <2> QED
    BY <2>1, IntentsAssumption DEF Bookkeeping, HandlerHasWork, NoStoreIsUsed
<1>2. /\ Cardinality(counted) \in Nat /\ l \in Nat /\ s \in Nat
      /\ \A x : Cardinality(InSector(counted, x)) \in Nat
  BY PartsAreFinite DEF Bookkeeping, CountedWasPublished
<1>3. /\ sectorCount \in [Sectors -> Int]
      /\ total \in Int /\ longs \in Int /\ shorts \in Int
  BY DEF Bookkeeping, TypeOK, ExposureTypeOK
<1>4. /\ total = Cardinality(counted) + InTotal
      /\ longs = l + InSide("LONG") /\ shorts = s + InSide("SHORT")
      /\ \A x \in Sectors : sectorCount[x] = Cardinality(InSector(counted, x))
  BY DEF ExposureIsPublished
<1>5. ASSUME UNCHANGED counted, pc' \in RegisterState, pc \in RegisterState
      PROVE  GatesPassed' /\ GatesHold'
  BY <1>1, <1>5 DEF GatesPassed, GatesHold, OnSide, InSector, RegisterState
<1>6. CASE DoRegisterTotal
  <2>1. /\ pc = "registerTotal" /\ pc' = "registerSide" /\ total' = total + 1
        /\ UNCHANGED <<counted, longs, shorts, sectorCount>>
    BY <1>6 DEF DoRegisterTotal, Registering, RegisterTotal, AddTotal
  <2>2. /\ InTotal = 0 /\ InTotal' = 1
        /\ \A side : InSide(side) = 0 /\ InSide(side)' = 0
    BY <2>1 DEF InTotal, InSide
  <2>3. ExposureIsPublished'
    BY <1>2, <1>4, <2>1, <2>2 DEF ExposureIsPublished, OnSide, InSector
  <2> QED
    BY <1>1, <1>5, <2>1, <2>3 DEF NoStoreIsUsed, RegisterState
<1>7. CASE DoRegisterSide
  <2>1. /\ pc = "registerSide" /\ pc' = "registerLoad" /\ AddSide(SideOf[handling], 1)
        /\ UNCHANGED <<counted, total, sectorCount>>
    BY <1>7 DEF DoRegisterSide, Registering, RegisterSide, AddSide
  <2>2. /\ InTotal = 1 /\ InTotal' = 1
        /\ \A side : InSide(side) = 0
        /\ \A side : InSide(side)' = IF SideOf[handling] = side THEN 1 ELSE 0
    BY <1>1, <2>1 DEF InTotal, InSide
  <2>3. longs' = l + InSide("LONG")' /\ shorts' = s + InSide("SHORT")'
    <3>1. CASE SideOf[handling] = "LONG"
      BY <1>2, <1>4, <2>1, <2>2, <3>1 DEF AddSide
    <3>2. CASE SideOf[handling] = "SHORT"
      BY <1>2, <1>4, <2>1, <2>2, <3>2 DEF AddSide
    <3> QED
      BY <1>1, <3>1, <3>2
  <2>4. ExposureIsPublished'
    BY <1>2, <1>4, <2>1, <2>2, <2>3 DEF ExposureIsPublished, OnSide, InSector
  <2> QED
    BY <1>1, <1>5, <2>1, <2>4 DEF NoStoreIsUsed, RegisterState
<1>8. CASE DoRegisterLoad
  <2>1. /\ pc = "registerLoad" /\ pc' = "registerSector" /\ handlerHolds'
        /\ UNCHANGED <<counted, total, longs, shorts, sectorCount>>
    BY <1>8 DEF DoRegisterLoad, Registering, RegisterLoad
  <2>2. /\ InTotal = 1 /\ InTotal' = 1
        /\ \A side : InSide(side)' = InSide(side)
    BY <1>1, <2>1 DEF InTotal, InSide
  <2>3. ExposureIsPublished'
    BY <1>4, <2>1, <2>2 DEF ExposureIsPublished, OnSide, InSector
  <2> QED
    BY <1>1, <1>5, <2>1, <2>3 DEF NoStoreIsUsed, RegisterState
<1>9. CASE DoRegisterSector
  <2>1. /\ pc = "registerSector" /\ pc' = "ack" /\ counted' = counted \cup {Published}
        /\ UNCHANGED <<total, longs, shorts>>
    BY <1>9 DEF DoRegisterSector, Registering, RegisterSector
  <2>2. sectorCount' = [sectorCount EXCEPT ![SectorOf[handling]] = @ + 1]
    BY <1>9, <2>1 DEF DoRegisterSector, RegisterSector, NoStoreIsUsed
  <2>3. /\ IsFiniteSet(counted) /\ Published \notin counted
        /\ Side(Published) = SideOf[handling] /\ Sector(Published) = SectorOf[handling]
    BY <2>1 DEF Bookkeeping, CountedWasPublished, RegisterState, Published, Side, Sector
  <2>4. /\ Cardinality(counted') = Cardinality(counted) + 1
        /\ \A side : Cardinality(OnSide(counted', side)) =
                     IF SideOf[handling] = side THEN Cardinality(OnSide(counted, side)) + 1
                                                ELSE Cardinality(OnSide(counted, side))
        /\ \A x : Cardinality(InSector(counted', x)) =
                  IF SectorOf[handling] = x THEN Cardinality(InSector(counted, x)) + 1
                                            ELSE Cardinality(InSector(counted, x))
    BY <2>1, <2>3, OneMore
  <2>5. /\ InTotal = 1 /\ InTotal' = 0
        /\ \A side : InSide(side) = IF SideOf[handling] = side THEN 1 ELSE 0
        /\ \A side : InSide(side)' = 0
    BY <1>1, <2>1 DEF InTotal, InSide
  <2>6. ExposureIsPublished'
    <3>1. total' = Cardinality(counted')
      BY <1>2, <1>4, <2>1, <2>4, <2>5
    <3>2. /\ longs' = Cardinality(OnSide(counted', "LONG"))
          /\ shorts' = Cardinality(OnSide(counted', "SHORT"))
      <4>1. CASE SideOf[handling] = "LONG"
        <5>1. longs = l + 1 /\ shorts = s
          BY <1>2, <1>4, <2>5, <4>1
        <5> QED
          BY <2>1, <2>4, <4>1, <5>1
      <4>2. CASE SideOf[handling] = "SHORT"
        <5>1. longs = l /\ shorts = s + 1
          BY <1>2, <1>4, <2>5, <4>2
        <5> QED
          BY <2>1, <2>4, <4>2, <5>1
      <4> QED
        BY <1>1, <4>1, <4>2
    <3>3. \A x \in Sectors : sectorCount'[x] = Cardinality(InSector(counted', x))
      BY <1>1, <1>2, <1>3, <1>4, <2>2, <2>4
    <3>4. /\ Cardinality(counted') \in Nat
          /\ \A side : Cardinality(OnSide(counted', side)) \in Nat
      BY <1>2, <2>1, <2>3, FS_AddElement, PartsAreFinite
    <3> QED
      BY <2>5, <3>1, <3>2, <3>3, <3>4 DEF ExposureIsPublished, OnSide, InSector
  <2>7. GatesHold'
    <3>1. /\ Cardinality(InSector(counted, SectorOf[handling])) < MaxSectorPositions
          /\ Cardinality(counted) < MaxTotalPositions
          /\ ~BiasLimit(l, s, SideOf[handling])
      BY <2>1 DEF GatesPassed, RegisterState
    <3>2. \A x \in Sectors : Cardinality(InSector(counted', x)) <= MaxSectorPositions
      BY <1>2, <2>4, <3>1, LimitsAssumption DEF GatesHold
    <3>3. Cardinality(counted') <= MaxTotalPositions
      BY <1>2, <2>4, <3>1, LimitsAssumption
    <3> DEFINE l1 == Cardinality(OnSide(counted', "LONG"))
               s1 == Cardinality(OnSide(counted', "SHORT"))
    <3>4. /\ l1 = (IF SideOf[handling] = "SHORT" THEN l ELSE l + 1)
          /\ s1 = (IF SideOf[handling] = "SHORT" THEN s + 1 ELSE s)
          /\ l1 \in Nat /\ s1 \in Nat
      BY <1>1, <1>2, <2>4
    <3>5. l1 > 0 /\ s1 > 0 => ~(l1 > MaxBiasRatio * s1) /\ ~(s1 > MaxBiasRatio * l1)
      BY <3>1, <3>4 DEF BiasLimit
    <3> HIDE DEF l1, s1
    <3>6. l1 > 0 /\ s1 > 0 => l1 <= MaxBiasRatio * s1 /\ s1 <= MaxBiasRatio * l1
      BY <3>4, <3>5, LimitsAssumption
    <3> QED
      BY <3>2, <3>3, <3>6 DEF l1, s1, GatesHold, OnSide, InSector
  <2> QED
    BY <1>1, <2>1, <2>6, <2>7 DEF NoStoreIsUsed, GatesPassed, RegisterState
<1> QED
  BY <1>6, <1>7, <1>8, <1>9 DEF Register

LEMMA InitExposed == Init => Exposed
BY NothingIsExposed DEF Init, NothingYet

LEMMA NextExposed == Bookkeeping /\ Exposed /\ [Next]_vars => Exposed'
<1> SUFFICES ASSUME ~StoresWired, Bookkeeping, Exposed, [Next]_vars PROVE Exposed'
  BY DEF Exposed, NoStoreIsUsed, ExposureIsPublished, GatesPassed, GatesHold
<1>1. CASE HandleIntent
  BY <1>1, EvaluateIsExposed, PublishIsExposed, RegisterIsExposed DEF HandleIntent
<1>2. ~(Tick \/ Liquidate \/ RefreshExposure)
  BY OnlyTheCallbackWorks DEF Exposed, LoopStep
<1>3. CASE UNCHANGED <<exposureVars, counted, mpc, pc, handling, seenLongs>>
  BY <1>3 DEF Exposed, NoStoreIsUsed, ExposureIsPublished, GatesPassed, GatesHold,
              InTotal, InSide, exposureVars, OnSide, InSector
<1>4. CASE (\E e \in Executions : Fill(e) \/ Exit(e)) \/ TimePasses \/ UNCHANGED vars
  BY <1>3, <1>4 DEF Fill, Exit, Move, TimePasses, vars, unchangedByLoop, handlerVars, loopVars
<1>5. CASE Restart
  <2>1. NothingYet'
    BY <1>5 DEF Restart, ExposureInit, NothingYet
  <2>2. NothingYet' => Exposed'
    BY NothingIsExposed, PTL
  <2> QED
    BY <2>1, <2>2
<1> QED
  BY <1>1, <1>2, <1>4, <1>5 DEF Next

\* The inductive invariant holds for any intents, sectors and limits.
THEOREM Invariance == Spec => []IInv
<1>1. Bookkeeping /\ UnderflowIsUndone /\ Exposed <=> IInv
  BY DEF Exposed, IInv
<1> QED
  BY <1>1, BooksAreKept, UnderflowsAreUndone, InitExposed, NextExposed, PTL DEF Spec

\* The exposure of the agent as main.go runs it is what it has published since it
\* started: no failed publish, lost answer, redelivered intent or restart makes it
\* count an execution twice or forget one (exposure.go:74).
THEOREM ExposureIsRight == Spec => []ExposureIsPublished
BY Invariance, PTL DEF IInv

\* Its gates hold for all that is exposed: the caps per sector and in all, and the ratio
\* of the sides, though they are read one by one and before the publish.
THEOREM GatesAreKept == Spec => []GatesHold
BY Invariance, PTL DEF IInv
=============================================================================
