---------------------------- MODULE TickHistory ----------------------------
(***************************************************************************)
(* What the tick stores of the scout promise: the last Size ticks of each  *)
(* symbol in the order they came, for at most MaxTickers symbols.  Nothing *)
(* but the volume of the newest tick ever changes.                         *)
(***************************************************************************)
EXTENDS TickStore, FiniteSets

CONSTANTS
  Symbols,
  MaxTickers    \* most symbols the ticker store tracks

VARIABLE history

HistoryInit == history = [s \in Symbols |-> <<>>]

Known == {s \in Symbols : history[s] # <<>>}

\* A tick of s comes in.
Record(s) ==
  /\ s \in Known \/ Cardinality(Known) < MaxTickers
  /\ \E t \in Tick : history' = [history EXCEPT ![s] = Push(@, t)]

\* The volume of the newest tick of s becomes known.
Enrich(s) ==
  \E v \in Volumes : history' = [history EXCEPT ![s] = Patch(@, v)]

HistoryNext == \E s \in Symbols : Record(s) \/ Enrich(s)

HistorySpec == HistoryInit /\ [][HistoryNext]_history
=============================================================================
