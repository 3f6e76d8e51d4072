------------------------------ MODULE Exposure ------------------------------
(***************************************************************************)
(* analysts/riskmanager/exposure.go and bias.go: the in-memory count of    *)
(* open positions behind Gates 1 to 3.  Two goroutines use it with no lock *)
(* around their sequences of atomic operations: the intent handler (gates, *)
(* Register) and the Run loop (Release, RefreshFromDB).  The operators     *)
(* below are those atomic operations.                                      *)
(*                                                                         *)
(* sectorCount is 0 for a key the sync.Map does not hold: the gate passes  *)
(* both alike.  A counter the handler has loaded may be deleted by the     *)
(* loop before it is incremented: handlerHolds tells whether the counter   *)
(* the handler is about to increment is still the one in the map.          *)
(***************************************************************************)
EXTENDS Integers, FiniteSets

CONSTANTS
  Sectors,
  MaxSectorPositions,   \* Gate 1
  MaxTotalPositions,    \* Gate 2
  MaxBiasRatio          \* Gate 3

ASSUME LimitsAssumption ==
  /\ MaxSectorPositions \in Nat \ {0}
  /\ MaxTotalPositions \in Nat \ {0}
  /\ MaxBiasRatio \in Nat \ {0}

VARIABLES
  sectorCount,
  keys,           \* the keys of the sync.Map
  total, longs, shorts,
  handlerHolds

exposureVars == <<sectorCount, keys, total, longs, shorts, handlerHolds>>

\* NewExposure
ExposureInit ==
  /\ sectorCount = [s \in Sectors |-> 0]
  /\ keys = {}
  /\ total = 0 /\ longs = 0 /\ shorts = 0
  /\ handlerHolds = FALSE

ExposureTypeOK ==
  /\ sectorCount \in [Sectors -> Int]
  /\ keys \subseteq Sectors
  /\ total \in Int /\ longs \in Int /\ shorts \in Int
  /\ handlerHolds \in BOOLEAN

\* A sector gate that admits one position too many.
SectorFullOffByOne(s) == sectorCount[s] > MaxSectorPositions

\* EntryGate, Gate 1 and Gate 2.
SectorFull(s) == sectorCount[s] >= MaxSectorPositions

PlatformFull == total >= MaxTotalPositions

\* CheckBias: after the entry neither side exceeds MaxBiasRatio times the other;
\* a side without a position imposes nothing.
BiasLimit(nLongs, nShorts, side) ==
  LET l == IF side = "SHORT" THEN nLongs ELSE nLongs + 1
      s == IF side = "SHORT" THEN nShorts + 1 ELSE nShorts
  IN  /\ l > 0 /\ s > 0
      /\ l > MaxBiasRatio * s \/ s > MaxBiasRatio * l

\* The Add of the atomic counters.
AddTotal(n) ==
  /\ total' = total + n
  /\ UNCHANGED <<sectorCount, keys, longs, shorts, handlerHolds>>

AddSide(side, n) ==
  /\ IF side = "SHORT" THEN shorts' = shorts + n /\ UNCHANGED longs
                       ELSE longs' = longs + n /\ UNCHANGED shorts
  /\ UNCHANGED <<sectorCount, keys, total, handlerHolds>>

\* Register, in its four operations.
RegisterTotal == AddTotal(1)

\* A Register that tallies every position as a long.
RegisterAsLong(side) == AddSide("LONG", 1)

RegisterSide(side) == AddSide(side, 1)

\* LoadOrStore
RegisterLoad(s) ==
  /\ keys' = keys \cup {s}
  /\ handlerHolds' = TRUE
  /\ UNCHANGED <<sectorCount, total, longs, shorts>>

RegisterSector(s) ==
  /\ sectorCount' = IF handlerHolds THEN [sectorCount EXCEPT ![s] = @ + 1]
                                    ELSE sectorCount
  /\ handlerHolds' = FALSE
  /\ UNCHANGED <<keys, total, longs, shorts>>

\* sectorCount.Delete: the counter leaves the map; handlerOn holds the
\* sector the handler is working on.
DeleteSectors(gone, handlerOn) ==
  /\ sectorCount' = [s \in Sectors |-> IF s \in gone THEN 0 ELSE sectorCount[s]]
  /\ keys' = keys \ gone
  /\ handlerHolds' = (handlerHolds /\ handlerOn \cap gone = {})

\* Release: the decrement of the sector, the deletion of a counter that was seen at
\* zero or below (DeleteSectors), then the decrement of the total and of the side.  A
\* decrement that came out below zero is undone by an increment of its own: until
\* then everybody reads the counter below zero.
ReleaseSector(s) ==
  /\ sectorCount' = [sectorCount EXCEPT ![s] = @ - 1]
  /\ UNCHANGED <<keys, total, longs, shorts, handlerHolds>>

ReleaseTotal == AddTotal(-1)

\* A Release that sees the underflow of the total and leaves it.
UndoTotalForgotten == UNCHANGED exposureVars

UndoTotal == AddTotal(1)

ReleaseSide(side) == AddSide(side, -1)

UndoSide(side) == AddSide(side, 1)

\* A refresh that adds to the old total.
ResetTotalForgotten == UNCHANGED exposureVars

\* RefreshFromDB: three stores, the deletion of every key (DeleteSectors), then one
\* round of increments per position.
ResetTotal ==
  /\ total' = 0
  /\ UNCHANGED <<sectorCount, keys, longs, shorts, handlerHolds>>

ResetLongs ==
  /\ longs' = 0
  /\ UNCHANGED <<sectorCount, keys, total, shorts, handlerHolds>>

ResetShorts ==
  /\ shorts' = 0
  /\ UNCHANGED <<sectorCount, keys, total, longs, handlerHolds>>

RecountTotal == AddTotal(1)

RecountSide(side) == AddSide(side, 1)

\* LoadOrStore and Add in one: only the loop itself deletes a key, so the counter it
\* has loaded stays in the map, and at zero it reads like one that is not there.
RecountSector(s) ==
  /\ keys' = keys \cup {s}
  /\ sectorCount' = [sectorCount EXCEPT ![s] = @ + 1]
  /\ UNCHANGED <<total, longs, shorts, handlerHolds>>
=============================================================================
