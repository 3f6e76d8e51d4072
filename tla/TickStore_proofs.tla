-------------------------- MODULE TickStore_proofs --------------------------
(***************************************************************************)
(* The ring buffer is a bounded queue: lemmas about the operators of       *)
(* TickStore, for every capacity.                                          *)
(***************************************************************************)
EXTENDS TickStore, TLAPS

\* An index of the buffer wraps at most once.
LEMMA WrapOnce ==
  ASSUME NEW k \in 0..(2 * Size - 1)
  PROVE  k % Size = IF k < Size THEN k ELSE k - Size
<1> DEFINE q == k \div Size
           r == k % Size
<1>1. q \in Nat /\ r \in Slots /\ k = Size * q + r
  BY SizeAssumption DEF Slots
<1> HIDE DEF q, r
<1>2. q < 2
  <2>1. SUFFICES ASSUME q >= 2 PROVE FALSE
    BY <1>1
  <2>2. Size * q >= Size * 2
    BY <2>1, <1>1, SizeAssumption
  <2> QED BY <2>2, <1>1, SizeAssumption DEF Slots
<1>3. CASE q = 0
  <2>1. Size * q = 0
    BY <1>3, SizeAssumption
  <2> QED BY <2>1, <1>1, SizeAssumption DEF r, Slots
<1>4. CASE q = 1
  <2>1. Size * q = Size
    BY <1>4, SizeAssumption
  <2> QED BY <2>1, <1>1, SizeAssumption DEF r, Slots
<1> QED BY <1>1, <1>2, <1>3, <1>4

\* The fields of a buffer.
LEMMA Fields ==
  ASSUME NEW st \in RingBuffer
  PROVE  /\ st.write \in 0..(Size - 1)
         /\ st.full \in BOOLEAN
         /\ st.buf \in [Slots -> Cell]
         /\ count(st) \in 0..Size
         /\ st.full => count(st) = Size
         /\ ~st.full => count(st) = st.write
<1>1. /\ st.write \in 0..(Size - 1)
      /\ st.full \in BOOLEAN
      /\ st.buf \in [Slots -> Cell]
  BY DEF RingBuffer, Slots
<1>2. st.full => count(st) = Size
  BY DEF count
<1>3. ~st.full => count(st) = st.write
  BY DEF count
<1> QED BY <1>1, <1>2, <1>3, SizeAssumption

\* Where the i-th tick lies.
LEMMA AtSlot ==
  ASSUME NEW st \in RingBuffer, NEW i \in 0..(count(st) - 1)
  PROVE  /\ ~st.full => at(st, i) = st.buf[i] /\ i \in Slots
         /\ st.full /\ st.write + i < Size =>
              at(st, i) = st.buf[st.write + i] /\ st.write + i \in Slots
         /\ st.full /\ st.write + i >= Size =>
              at(st, i) = st.buf[st.write + i - Size] /\ st.write + i - Size \in Slots
<1>1. i \in 0..(Size - 1) /\ st.write \in 0..(Size - 1)
  BY Fields, SizeAssumption
<1>2. st.write + i \in 0..(2 * Size - 1)
  BY <1>1, SizeAssumption
<1>3. (st.write + i) % Size = IF st.write + i < Size THEN st.write + i ELSE st.write + i - Size
  <2> DEFINE k == st.write + i
  <2>1. k \in 0..(2 * Size - 1)
    BY <1>2
  <2> HIDE DEF k
  <2>2. k % Size = IF k < Size THEN k ELSE k - Size
    BY <2>1, WrapOnce
  <2> QED BY <1>1, <1>2, <2>2, SizeAssumption DEF k
<1>4. CASE ~st.full
  BY <1>4, <1>1, Fields, SizeAssumption DEF at, Slots
<1>5. CASE st.full
  BY <1>5, <1>1, <1>3, SizeAssumption DEF at, Slots
<1> QED BY <1>4, <1>5

\* A tick fits a cell, and so does what is never written.
LEMMA TickIsCell == Tick \subseteq Cell /\ Unwritten \in Cell
BY VolumesAssumption DEF Tick, Cell, Unwritten

\* A new store is well formed and empty.
LEMMA NewTickStoreType == NewTickStore \in RingBuffer /\ count(NewTickStore) = 0
<1>1. 0 \in Slots
  BY SizeAssumption DEF Slots
<1> QED BY <1>1, TickIsCell DEF NewTickStore, RingBuffer, count

\* AppendTick keeps the buffer well formed.
LEMMA AppendType ==
  ASSUME NEW st \in RingBuffer, NEW t \in Tick
  PROVE  /\ AppendTick(st, t) \in RingBuffer
         /\ count(AppendTick(st, t)) = IF count(st) < Size THEN count(st) + 1 ELSE Size
<1> DEFINE new == AppendTick(st, t)
<1>1. new.buf = [st.buf EXCEPT ![st.write] = t] /\ new.buf \in [Slots -> Cell]
  BY Fields, TickIsCell DEF AppendTick
<1>2. new.write = (IF st.write + 1 = Size THEN 0 ELSE st.write + 1) /\ new.write \in Slots
  BY Fields, SizeAssumption DEF AppendTick, Slots
<1>3. (new.full <=> st.full \/ st.write + 1 = Size) /\ new.full \in BOOLEAN
  BY Fields DEF AppendTick
<1>4. new \in RingBuffer
  BY <1>1, <1>2, <1>3 DEF RingBuffer, AppendTick
<1>5. CASE st.full \/ st.write + 1 = Size
  <2>1. new.full
    BY <1>5, <1>3
  <2> QED BY <2>1, <1>4, <1>5, Fields, SizeAssumption
<1>6. CASE ~(st.full \/ st.write + 1 = Size)
  <2>1. ~new.full
    BY <1>6, <1>3
  <2> QED BY <2>1, <1>2, <1>4, <1>6, Fields, SizeAssumption
<1> QED BY <1>5, <1>6

\* The ticks of a buffer are those of its slots.
LEMMA HistoryType ==
  ASSUME NEW st \in RingBuffer
  PROVE  /\ History(st) \in Seq(Cell)
         /\ Len(History(st)) = count(st)
         /\ \A i \in 1..count(st) : History(st)[i] = at(st, i - 1)
<1>1. \A i \in 1..count(st) : at(st, i - 1) \in Cell
  <2> SUFFICES ASSUME NEW i \in 1..count(st)
               PROVE  at(st, i - 1) \in Cell
    OBVIOUS
  <2>1. i - 1 \in 0..(count(st) - 1) /\ i - 1 \in Int /\ st.write \in Int
    BY Fields, SizeAssumption
  <2>2. CASE ~st.full
    BY <2>1, <2>2, AtSlot, Fields
  <2>3. CASE st.full
    <3>1. CASE st.write + (i - 1) < Size
      BY <2>1, <2>3, <3>1, AtSlot, Fields
    <3>2. CASE st.write + (i - 1) >= Size
      BY <2>1, <2>3, <3>2, AtSlot, Fields
    <3> QED BY <2>1, <3>1, <3>2, SizeAssumption
  <2> QED BY <2>2, <2>3
<1>2. count(st) \in Nat
  BY Fields, SizeAssumption
<1> QED BY <1>1, <1>2 DEF History

\* The buffer after an append, tick by tick.
LEMMA AppendAt ==
  ASSUME NEW st \in RingBuffer, NEW t \in Tick, NEW i \in 0..(count(AppendTick(st, t)) - 1)
  PROVE  /\ i = count(AppendTick(st, t)) - 1 => at(AppendTick(st, t), i) = t
         /\ i < count(AppendTick(st, t)) - 1 /\ count(st) < Size =>
              at(AppendTick(st, t), i) = at(st, i)
         /\ i < count(AppendTick(st, t)) - 1 /\ count(st) = Size =>
              at(AppendTick(st, t), i) = at(st, i + 1)
<1> DEFINE new == AppendTick(st, t)
<1>1. /\ new \in RingBuffer
      /\ count(new) = IF count(st) < Size THEN count(st) + 1 ELSE Size
  BY AppendType
<1>2. /\ new.buf = [st.buf EXCEPT ![st.write] = t]
      /\ new.write = (IF st.write + 1 = Size THEN 0 ELSE st.write + 1)
      /\ new.full <=> (st.full \/ st.write + 1 = Size)
  BY Fields DEF AppendTick
<1>3. /\ st.write \in 0..(Size - 1) /\ count(st) \in 0..Size /\ i \in 0..(Size - 1)
      /\ st.full => count(st) = Size
      /\ ~st.full => count(st) = st.write
      /\ st.buf \in [Slots -> Cell]
  BY <1>1, Fields, SizeAssumption
<1> HIDE DEF new
<1>4. CASE ~new.full
  <2>1. ~st.full /\ st.write + 1 < Size /\ count(new) = count(st) + 1
    BY <1>1, <1>2, <1>3, <1>4, SizeAssumption
  <2>2. at(new, i) = new.buf[i] /\ i \in Slots
    BY <1>1, <1>4, AtSlot DEF new
  <2>3. i < count(st) => at(st, i) = st.buf[i]
    BY <2>1, <1>3, AtSlot
  <2> QED BY <2>1, <2>2, <2>3, <1>2, <1>3, SizeAssumption DEF new
<1>5. CASE new.full /\ ~st.full
  <2>1. st.write + 1 = Size /\ count(st) = Size - 1 /\ count(new) = Size /\ new.write = 0
    BY <1>1, <1>2, <1>3, <1>5, SizeAssumption
  <2>2. at(new, i) = new.buf[i] /\ i \in Slots
    <3>1. new.write + i < Size /\ new.write + i = i
      BY <2>1, <1>3, SizeAssumption
    <3> QED BY <3>1, <1>1, <1>5, AtSlot DEF new
  <2>3. i < count(st) => at(st, i) = st.buf[i]
    BY <2>1, <1>3, <1>5, AtSlot
  <2> QED BY <2>1, <2>2, <2>3, <1>2, <1>3, SizeAssumption DEF new
<1>6. CASE st.full
  <2>1. new.full /\ count(st) = Size /\ count(new) = Size
    BY <1>1, <1>2, <1>3, <1>6, SizeAssumption
  <2> DEFINE slot == IF new.write + i < Size THEN new.write + i ELSE new.write + i - Size
  <2>2. at(new, i) = new.buf[slot] /\ slot \in Slots
    <3>1. new.write \in 0..(Size - 1)
      BY <1>2, <1>3, SizeAssumption
    <3>2. CASE new.write + i < Size
      BY <3>1, <3>2, <2>1, <1>1, <1>3, AtSlot DEF new
    <3>3. CASE new.write + i >= Size
      BY <3>1, <3>3, <2>1, <1>1, <1>3, AtSlot, SizeAssumption DEF new
    <3> QED BY <3>1, <3>2, <3>3, <1>3, SizeAssumption
  <2>3. CASE i = Size - 1
    <3>1. slot = st.write
      BY <2>3, <1>2, <1>3, SizeAssumption
    <3> QED BY <3>1, <2>1, <2>2, <2>3, <1>2, <1>3, SizeAssumption DEF new, Slots
  <2>4. CASE i < Size - 1
    <3>1. slot # st.write /\ slot = IF st.write + (i + 1) < Size THEN st.write + (i + 1)
                                                                ELSE st.write + (i + 1) - Size
      BY <2>4, <1>2, <1>3, SizeAssumption
    <3>2. new.buf[slot] = st.buf[slot]
      BY <3>1, <2>2, <1>2, <1>3
    <3>3. at(st, i + 1) = st.buf[slot]
      <4>1. i + 1 \in 0..(count(st) - 1)
        BY <2>1, <2>4, <1>3, SizeAssumption
      <4>2. CASE st.write + (i + 1) < Size
        BY <4>1, <4>2, <3>1, <1>6, AtSlot
      <4>3. CASE st.write + (i + 1) >= Size
        BY <4>1, <4>3, <3>1, <1>3, <1>6, AtSlot, SizeAssumption
      <4> QED BY <4>2, <4>3, <1>3, SizeAssumption
    <3> QED BY <3>2, <3>3, <2>1, <2>2, <2>4, SizeAssumption DEF new
  <2> QED BY <2>3, <2>4, <1>3, SizeAssumption
<1> QED BY <1>2, <1>3, <1>4, <1>5, <1>6

\* Append adds at the end; a full buffer loses its oldest tick and nothing else.
LEMMA AppendIsPush ==
  ASSUME NEW st \in RingBuffer, NEW t \in Tick
  PROVE  History(AppendTick(st, t)) = Push(History(st), t)
<1> DEFINE new == AppendTick(st, t)
           T == Cell
<1>1. /\ new \in RingBuffer
      /\ count(new) = IF count(st) < Size THEN count(st) + 1 ELSE Size
      /\ count(st) \in 0..Size
  BY AppendType, Fields
<1>2. /\ History(st) \in Seq(T) /\ Len(History(st)) = count(st)
      /\ \A i \in 1..count(st) : History(st)[i] = at(st, i - 1)
  BY HistoryType
<1>3. /\ History(new) \in Seq(T) /\ Len(History(new)) = count(new)
      /\ \A i \in 1..count(new) : History(new)[i] = at(new, i - 1)
  BY <1>1, HistoryType
<1>4. \A i \in 1..count(new) :
        /\ i = count(new) => History(new)[i] = t
        /\ i < count(new) /\ count(st) < Size => History(new)[i] = History(st)[i]
        /\ i < count(new) /\ count(st) = Size => History(new)[i] = History(st)[i + 1]
  <2> SUFFICES ASSUME NEW i \in 1..count(new)
      PROVE /\ i = count(new) => History(new)[i] = t
            /\ i < count(new) /\ count(st) < Size => History(new)[i] = History(st)[i]
            /\ i < count(new) /\ count(st) = Size => History(new)[i] = History(st)[i + 1]
    OBVIOUS
  <2>1. i - 1 \in 0..(count(new) - 1)
    BY <1>1, SizeAssumption
  <2>2. /\ i - 1 = count(new) - 1 => at(new, i - 1) = t
        /\ i - 1 < count(new) - 1 /\ count(st) < Size => at(new, i - 1) = at(st, i - 1)
        /\ i - 1 < count(new) - 1 /\ count(st) = Size => at(new, i - 1) = at(st, (i - 1) + 1)
    BY <2>1, AppendAt
  <2> HIDE DEF new
  <2> QED BY <2>2, <1>1, <1>2, <1>3, SizeAssumption
<1> HIDE DEF new, T
<1>5. t \in T
  BY TickIsCell DEF T
<1>6. CASE count(st) < Size
  <2>1. Push(History(st), t) = Append(History(st), t)
    BY <1>2, <1>6 DEF Push
  <2>2. /\ Append(History(st), t) \in Seq(T)
        /\ Len(Append(History(st), t)) = count(st) + 1
        /\ \A i \in 1..(count(st) + 1) :
             Append(History(st), t)[i] = IF i = count(st) + 1 THEN t ELSE History(st)[i]
    BY <1>1, <1>2, <1>5
  <2>3. History(new) = Append(History(st), t)
    BY <2>2, <1>1, <1>3, <1>4, <1>6, SizeAssumption
  <2> QED BY <2>1, <2>3 DEF new
<1>7. CASE count(st) = Size
  <2>1. Push(History(st), t) = Append(Tail(History(st)), t)
    BY <1>2, <1>7, SizeAssumption DEF Push
  <2>2. /\ Tail(History(st)) \in Seq(T) /\ Len(Tail(History(st))) = Size - 1
        /\ \A i \in 1..(Size - 1) : Tail(History(st))[i] = History(st)[i + 1]
    BY <1>2, <1>7, SizeAssumption
  <2>3. /\ Append(Tail(History(st)), t) \in Seq(T)
        /\ Len(Append(Tail(History(st)), t)) = Size
        /\ \A i \in 1..Size : Append(Tail(History(st)), t)[i] =
             IF i = Size THEN t ELSE Tail(History(st))[i]
    BY <2>2, <1>5, SizeAssumption
  <2>4. History(new) = Append(Tail(History(st)), t)
    BY <2>2, <2>3, <1>1, <1>3, <1>4, <1>7, SizeAssumption
  <2> QED BY <2>1, <2>4 DEF new
<1> QED BY <1>1, <1>6, <1>7, SizeAssumption

\* The slot UpdateLatestVolume writes is that of the newest tick and of no other.
LEMMA LatestSlot ==
  ASSUME NEW st \in RingBuffer, count(st) # 0
  PROVE  \E latest \in Slots :
           /\ latest = IF st.write = 0 THEN Size - 1 ELSE st.write - 1
           /\ at(st, count(st) - 1) = st.buf[latest]
<1>1. st.write \in 0..(Size - 1) /\ count(st) - 1 \in 0..(count(st) - 1) /\ count(st) \in 1..Size
  BY Fields, SizeAssumption
<1>2. CASE ~st.full
  <2>1. count(st) = st.write
    BY <1>2, Fields
  <2> QED BY <2>1, <1>1, <1>2, AtSlot, SizeAssumption DEF Slots
<1>3. CASE st.full
  <2>1. count(st) = Size
    BY <1>3, Fields
  <2>2. CASE st.write = 0
    <3>1. st.write + (count(st) - 1) < Size /\ st.write + (count(st) - 1) = Size - 1
      BY <2>1, <2>2, SizeAssumption
    <3> QED BY <3>1, <2>2, <1>1, <1>3, AtSlot, SizeAssumption DEF Slots
  <2>3. CASE st.write # 0
    <3>1. /\ st.write + (count(st) - 1) >= Size
          /\ st.write + (count(st) - 1) - Size = st.write - 1
      BY <2>1, <2>3, <1>1, SizeAssumption
    <3> QED BY <3>1, <2>3, <1>1, <1>3, AtSlot, SizeAssumption DEF Slots
  <2> QED BY <2>2, <2>3
<1> QED BY <1>2, <1>3

\* The buffer after an update of the newest volume.
LEMMA UpdateAt ==
  ASSUME NEW st \in RingBuffer, NEW volume \in Volumes, count(st) # 0
  PROVE  LET new == UpdateLatestVolume(st, volume)
         IN  /\ new \in RingBuffer
             /\ count(new) = count(st)
             /\ at(new, count(st) - 1) = [at(st, count(st) - 1) EXCEPT !.volume = volume]
             /\ \A i \in 0..(count(st) - 2) : at(new, i) = at(st, i)
<1> DEFINE new == UpdateLatestVolume(st, volume)
           slot == IF st.write = 0 THEN Size - 1 ELSE st.write - 1
<1>1. slot \in Slots /\ at(st, count(st) - 1) = st.buf[slot]
  BY LatestSlot
<1>2. /\ new.buf = [st.buf EXCEPT ![slot] = [st.buf[slot] EXCEPT !.volume = volume]]
      /\ new.write = st.write
      /\ new.full <=> st.full
      /\ new = [buf |-> new.buf, write |-> st.write, full |-> st.full]
  BY Fields DEF UpdateLatestVolume, RingBuffer
<1> HIDE DEF slot
<1>3. [st.buf[slot] EXCEPT !.volume = volume] \in Cell
  BY <1>1, Fields DEF Cell
<1>4. new.buf \in [Slots -> Cell]
  BY <1>1, <1>2, <1>3, Fields
<1>5. new \in RingBuffer
  BY <1>2, <1>4, Fields DEF RingBuffer, Slots
<1>6. count(new) = count(st)
  BY <1>2, Fields DEF count
<1> HIDE DEF new
<1>7. ASSUME NEW i \in 0..(count(st) - 1)
      PROVE  \E k \in Slots : /\ at(st, i) = st.buf[k] /\ at(new, i) = new.buf[k]
                              /\ k = slot => i = count(st) - 1
  <2>1. /\ st.write \in 0..(Size - 1) /\ count(st) \in 0..Size
        /\ st.full => count(st) = Size
        /\ ~st.full => count(st) = st.write
        /\ i \in Int
    BY Fields, SizeAssumption
  <2>2. CASE ~st.full
    <3>1. at(st, i) = st.buf[i] /\ at(new, i) = new.buf[i] /\ i \in Slots
      BY <2>2, <1>2, <1>5, <1>6, AtSlot
    <3>2. i = slot => i = count(st) - 1
      BY <2>1, <2>2, SizeAssumption DEF slot
    <3> QED BY <3>1, <3>2
  <2>3. CASE st.full /\ st.write + i < Size
    <3>1. new.full /\ new.write + i < Size /\ i \in 0..(count(new) - 1)
      BY <2>3, <1>2, <1>6
    <3>2. at(st, i) = st.buf[st.write + i] /\ st.write + i \in Slots
      BY <2>3, AtSlot
    <3>3. at(new, i) = new.buf[new.write + i]
      BY <3>1, <1>5, AtSlot
    <3>4. at(st, i) = st.buf[st.write + i] /\ at(new, i) = new.buf[st.write + i] /\ st.write + i \in Slots
      BY <3>2, <3>3, <1>2
    <3>5. st.write + i = slot => i = count(st) - 1
      BY <2>1, <2>3, SizeAssumption DEF slot
    <3> QED BY <3>4, <3>5
  <2>4. CASE st.full /\ st.write + i >= Size
    <3>1. new.full /\ new.write + i >= Size /\ i \in 0..(count(new) - 1)
      BY <2>4, <1>2, <1>6
    <3>2. at(st, i) = st.buf[st.write + i - Size] /\ st.write + i - Size \in Slots
      BY <2>4, AtSlot
    <3>3. at(new, i) = new.buf[new.write + i - Size]
      BY <3>1, <1>5, AtSlot
    <3>4. /\ at(st, i) = st.buf[st.write + i - Size] /\ at(new, i) = new.buf[st.write + i - Size]
          /\ st.write + i - Size \in Slots
      BY <3>2, <3>3, <1>2
    <3>5. st.write + i - Size = slot => i = count(st) - 1
      BY <2>1, <2>4, SizeAssumption DEF slot
    <3> QED BY <3>4, <3>5
  <2> QED BY <2>1, <2>2, <2>3, <2>4, SizeAssumption
<1>8. \A i \in 0..(count(st) - 2) : at(new, i) = at(st, i)
  <2> SUFFICES ASSUME NEW i \in 0..(count(st) - 2)
               PROVE  at(new, i) = at(st, i)
    OBVIOUS
  <2>1. i \in 0..(count(st) - 1) /\ i # count(st) - 1
    BY Fields, SizeAssumption
  <2>2. PICK k \in Slots : at(st, i) = st.buf[k] /\ at(new, i) = new.buf[k] /\ k # slot
    BY <2>1, <1>7
  <2> QED BY <2>2, <1>1, <1>2, Fields
<1>9. at(new, count(st) - 1) = new.buf[slot]
  <2>1. at(new, count(new) - 1) = new.buf[IF new.write = 0 THEN Size - 1 ELSE new.write - 1]
    BY <1>5, <1>6, LatestSlot
  <2> QED BY <2>1, <1>2, <1>6 DEF slot
<1>10. at(new, count(st) - 1) = [at(st, count(st) - 1) EXCEPT !.volume = volume]
  BY <1>1, <1>2, <1>9, Fields
<1> QED BY <1>5, <1>6, <1>8, <1>10 DEF new

\* UpdateLatestVolume patches the newest tick of the queue and no other; it keeps the
\* buffer well formed and as long as it was.
LEMMA UpdateIsPatch ==
  ASSUME NEW st \in RingBuffer, NEW volume \in Volumes
  PROVE  /\ UpdateLatestVolume(st, volume) \in RingBuffer
         /\ count(UpdateLatestVolume(st, volume)) = count(st)
         /\ History(UpdateLatestVolume(st, volume)) = Patch(History(st), volume)
<1> DEFINE new == UpdateLatestVolume(st, volume)
<1>1. History(st) \in Seq(Cell) /\ Len(History(st)) = count(st) /\ count(st) \in Nat
  BY HistoryType, Fields, SizeAssumption
<1>2. CASE count(st) = 0
  <2>1. new = st /\ History(st) = <<>>
    BY <1>1, <1>2 DEF UpdateLatestVolume
  <2> QED BY <2>1 DEF Patch
<1>3. CASE count(st) # 0
  <2>1. /\ new \in RingBuffer
        /\ count(new) = count(st)
        /\ at(new, count(st) - 1) = [at(st, count(st) - 1) EXCEPT !.volume = volume]
        /\ \A i \in 0..(count(st) - 2) : at(new, i) = at(st, i)
    BY <1>3, UpdateAt
  <2> HIDE DEF new
  <2>2. History(new) = [i \in 1..count(st) |-> at(new, i - 1)]
    BY <2>1 DEF History
  <2>3. Patch(History(st), volume) =
          [History(st) EXCEPT ![count(st)] = [History(st)[count(st)] EXCEPT !.volume = volume]]
    BY <1>1, <1>3 DEF Patch
  <2>4. History(st) = [i \in 1..count(st) |-> at(st, i - 1)]
    BY DEF History
  <2>5. ASSUME NEW i \in 1..count(st)
        PROVE  at(new, i - 1) = Patch(History(st), volume)[i]
    <3>1. CASE i = count(st)
      BY <3>1, <2>1, <2>3, <2>4, <1>1, <1>3
    <3>2. CASE i # count(st)
      <4>1. i - 1 \in 0..(count(st) - 2)
        BY <3>2, <1>1
      <4> QED BY <4>1, <3>2, <2>1, <2>3, <2>4, <1>1
    <3> QED BY <3>1, <3>2
  <2>6. /\ DOMAIN Patch(History(st), volume) = 1..count(st)
        /\ Patch(History(st), volume) = [i \in 1..count(st) |-> Patch(History(st), volume)[i]]
    BY <2>3, <2>4
  <2>7. History(new) = Patch(History(st), volume)
    BY <2>2, <2>5, <2>6
  <2> QED BY <2>1, <2>7 DEF new
<1> QED BY <1>2, <1>3

\* What a reader of the last n ticks gets is the end of the queue.
LEMMA RecentIsSuffix ==
  ASSUME NEW st \in RingBuffer, NEW n \in Nat
  PROVE  Recent(st, n) = Latest(History(st), n)
<1> DEFINE k == IF n > count(st) THEN count(st) ELSE n
           first == IF n > count(st) THEN 1 ELSE count(st) - n + 1
<1>1. /\ History(st) \in Seq(Cell) /\ Len(History(st)) = count(st) /\ count(st) \in Nat
      /\ \A i \in 1..count(st) : History(st)[i] = at(st, i - 1)
  BY HistoryType, Fields, SizeAssumption
<1>2. k \in Nat /\ k <= count(st) /\ first = count(st) - k + 1 /\ first \in 1..(count(st) + 1)
  BY <1>1
<1>3. Recent(st, n) = [i \in 1..k |-> at(st, count(st) - k + i - 1)]
  BY DEF Recent
<1>4. Latest(History(st), n) = SubSeq(History(st), first, count(st))
  BY <1>1 DEF Latest
<1> HIDE DEF k, first
<1>5. SubSeq(History(st), first, count(st)) = [i \in 1..k |-> History(st)[first + i - 1]]
  <2>1. 1 + count(st) - first = k
    BY <1>1, <1>2
  <2> QED BY SMTT(30), <2>1, <1>1, <1>2
<1>6. \A i \in 1..k : History(st)[first + i - 1] = at(st, count(st) - k + i - 1)
  <2> SUFFICES ASSUME NEW i \in 1..k
               PROVE  History(st)[first + i - 1] = at(st, count(st) - k + i - 1)
    OBVIOUS
  <2>1. i \in Nat /\ 1 <= i /\ i <= k /\ first = count(st) - k + 1 /\ k \in Nat /\ count(st) \in Nat
    BY <1>1, <1>2
  <2> HIDE DEF History
  <2>2. (first + i - 1) - 1 = count(st) - k + i - 1
    BY <2>1
  <2>3. first + i - 1 \in 1..count(st)
    BY <2>1, <1>2
  <2> QED BY <2>2, <2>3, <1>1
<1> QED BY <1>3, <1>4, <1>5, <1>6
=============================================================================
