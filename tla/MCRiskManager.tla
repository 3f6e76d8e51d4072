--------------------------- MODULE MCRiskManager ---------------------------
(* Instances of RiskManager for TLC. *)
EXTENDS RiskManager, TLC

CONSTANTS i1, i2, i3, i4, x1, IT, BANK

\* Two entries compete for one sector, one trades the other way in another sector,
\* one more makes the platform full.
MCSideOf == (i1 :> "LONG") @@ (i2 :> "LONG") @@ (i3 :> "SHORT") @@ (i4 :> "LONG")
            @@ (x1 :> "LONG")
MCSectorOf == (i1 :> IT) @@ (i2 :> IT) @@ (i3 :> BANK) @@ (i4 :> BANK) @@ (x1 :> IT)

SideOfSome == [i \in Intents |-> MCSideOf[i]]
SectorOfSome == [i \in Intents |-> MCSectorOf[i]]

\* A Monday in the session, or in the session and after the square-off trigger.
Session == {At(11, 0)}
Afternoon == {At(11, 0), At(15, 20)}
=============================================================================
