--------------------------- MODULE TradingSchema ---------------------------
(***************************************************************************)
(* The one column of the positions and trade_log tables that an insert can *)
(* fail on for what it stores: side VARCHAR(n).  001_initial_schema.up.sql *)
(* declares n = 4, though its CHECK admits 'SHORT'; PostgreSQL refuses a   *)
(* longer value.                                                           *)
(***************************************************************************)
EXTENDS Naturals

CONSTANT SideWidth

ASSUME SideWidthAssumption == SideWidth \in Nat

TextLength(side) == IF side = "SHORT" THEN 5 ELSE 4

SideFits(side) == TextLength(side) <= SideWidth
=============================================================================
