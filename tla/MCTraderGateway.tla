-------------------------- MODULE MCTraderGateway --------------------------
(* Instances of TraderGateway for TLC. *)
EXTENDS TraderGateway, TLC

CONSTANTS o1, s1, u1, c1, x1

\* An entry, its exit, an entry of the other side, one whose boundary is below zero,
\* and a payload that does not validate.
MCPositionOf == c1 :> o1
MCSideOf == (o1 :> "LONG") @@ (s1 :> "SHORT") @@ (u1 :> "LONG")

SideOfSome == [m \in Opens |-> MCSideOf[m]]
=============================================================================
