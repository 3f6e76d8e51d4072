--------------------------- MODULE MCExitMonitor ---------------------------
(* Instances of ExitMonitor for TLC. *)
EXTENDS ExitMonitor, TLC

CONSTANTS a, b

\* A long and a short of one ticker, so that one price hits both: 3 is the target
\* of the long and the stop of the short, 1 the other way round.  A price between
\* them would be no step.
MCIds == {a, b}
MCTickers == {"T"}
MCPrices == {1, 3}
MCBook ==
  (a :> [ticker |-> "T", side |-> "LONG",  stop |-> 1, take |-> 3]) @@
  (b :> [ticker |-> "T", side |-> "SHORT", stop |-> 3, take |-> 1])

\* Inside the exit window of a Monday and after it, past 15:15.
MCInstants == {At(10, 0), At(15, 20)}

\* One position.
OneId == {a}
OneBook == a :> [ticker |-> "T", side |-> "LONG", stop |-> 1, take |-> 3]
=============================================================================
