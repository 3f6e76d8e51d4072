------------------------- MODULE MCQuantitativeFeed -------------------------
(* Instances of QuantitativeFeed for TLC. *)
EXTENDS QuantitativeFeed

CONSTANTS s1, s2

\* Monday 10:00 and Saturday 10:00.
MCInstants == {At(10, 0), 5 * MinutesPerDay + At(10, 0)}

OneByOne == {{s} : s \in Symbols}
=============================================================================
