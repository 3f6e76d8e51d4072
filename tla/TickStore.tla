----------------------------- MODULE TickStore -----------------------------
(***************************************************************************)
(* analysts/quantitative/tickstore.go: the ring buffer of the last Size    *)
(* ticks of one symbol.  Every operation runs under the lock of the store. *)
(* A tick keeps its price and its volume; the timestamp is left out.       *)
(***************************************************************************)
EXTENDS Integers, Sequences

CONSTANTS
  Prices,
  Volumes,
  Size       \* capacity of the ring buffer

\* A feed tick carries no volume; a zero price is what an unwritten slot holds.
NoPrice == 0

NoVolume == 0

ASSUME SizeAssumption == Size \in Nat \ {0}

ASSUME PricesAssumption == Prices \subseteq Nat \ {NoPrice}

ASSUME VolumesAssumption == NoVolume \in Volumes /\ Volumes \subseteq Nat

Tick == [price: Prices, volume: Volumes]

Unwritten == [price |-> NoPrice, volume |-> NoVolume]

Cell == [price: Prices \cup {NoPrice}, volume: Volumes]

Slots == 0..(Size - 1)

RingBuffer == [buf: [Slots -> Cell], write: Slots, full: BOOLEAN]

NewTickStore == [buf |-> [k \in Slots |-> Unwritten], write |-> 0, full |-> FALSE]

\* An Append that forgets that the buffer has wrapped.
AppendNeverFull(st, t) ==
  [buf |-> [st.buf EXCEPT ![st.write] = t],
   write |-> IF st.write + 1 = Size THEN 0 ELSE st.write + 1,
   full |-> FALSE]

\* Append
AppendTick(st, t) ==
  [buf |-> [st.buf EXCEPT ![st.write] = t],
   write |-> IF st.write + 1 = Size THEN 0 ELSE st.write + 1,
   full |-> st.full \/ st.write + 1 = Size]

count(st) == IF st.full THEN Size ELSE st.write

\* The i-th tick in insertion order, 0 being the oldest.
at(st, i) == IF st.full THEN st.buf[(st.write + i) % Size] ELSE st.buf[i]

\* RecentPrices and RecentVolumes: the last n ticks, the oldest first, or all there are.
Recent(st, n) ==
  LET k == IF n > count(st) THEN count(st) ELSE n
  IN  [i \in 1..k |-> at(st, count(st) - k + i - 1)]

UpdateLatestVolume(st, volume) ==
  IF count(st) = 0
    THEN st
    ELSE [st EXCEPT !.buf[IF st.write = 0 THEN Size - 1 ELSE st.write - 1].volume = volume]

\* What the buffer stands for: its ticks in the order they came.
History(st) == [i \in 1..count(st) |-> at(st, i - 1)]

\* A bounded queue.
Push(history, t) ==
  Append(IF Len(history) < Size THEN history ELSE Tail(history), t)

\* What UpdateLatestVolume and Recent mean for the queue.
Patch(history, volume) ==
  IF history = <<>> THEN history
                    ELSE [history EXCEPT ![Len(history)].volume = volume]

Latest(history, n) ==
  SubSeq(history, IF n > Len(history) THEN 1 ELSE Len(history) - n + 1, Len(history))
=============================================================================
