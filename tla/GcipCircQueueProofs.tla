------------------------ MODULE GcipCircQueueProofs ------------------------
(***************************************************************************)
(* The occupancy of a circular queue, and that it is a FIFO, for every     *)
(* size and every wrap bit.                                                *)
(***************************************************************************)
EXTENDS GcipCircQueue, SequenceTheorems, TLAPS

\* t is n elements ahead of h: on the same lap, or one lap further.
Ahead(h, t, n) ==
  RealIndex(h) + n = RealIndex(t) + (IF Wrapped(h) # Wrapped(t) THEN Size ELSE 0)

\* The invariant that is inductive: the distance of the indices, lap included,
\* and, in the copy loop, that of the reader's own index.
RingInv ==
  /\ TypeOK
  /\ Ahead(head, tail, used)
  /\ reading => /\ total <= used
                /\ Ahead(head, local, total)

\* gcip_circ_queue_inc moves an index inside the ring, by at most one lap.
LEMMA IncIsIndex ==
  ASSUME NEW i \in Indices, NEW n \in 0..Size
  PROVE  Inc(i, n) \in Indices
BY SizeAssumption DEF Indices, Inc, FlipWrapBit, RealIndex, Wrapped

\* Moving the tail by n adds n to the distance, while that fits in the ring.
LEMMA IncTail ==
  ASSUME NEW h \in Indices, NEW t \in Indices, NEW k \in 0..Size,
         NEW n \in 0..Size, k + n <= Size, Ahead(h, t, k)
  PROVE  Ahead(h, Inc(t, n), k + n)
BY SizeAssumption DEF Indices, Ahead, Inc, FlipWrapBit, RealIndex, Wrapped

\* Moving the head by n takes n from it.
LEMMA IncHead ==
  ASSUME NEW h \in Indices, NEW t \in Indices, NEW k \in 0..Size,
         NEW n \in 0..k, Ahead(h, t, k)
  PROVE  Ahead(Inc(h, n), t, k - n)
BY SizeAssumption DEF Indices, Ahead, Inc, FlipWrapBit, RealIndex, Wrapped

\* gcip_circ_queue_cnt computes the distance.
LEMMA CntIsDistance ==
  ASSUME NEW h \in Indices, NEW t \in Indices, NEW k \in 0..Size, Ahead(h, t, k)
  PROVE  Cnt(h, t) = k
BY SizeAssumption DEF Indices, Ahead, Cnt, RealIndex, Wrapped

\* A ring is full when the indices differ by the wrap bit alone, and empty
\* when they are equal.
LEMMA FullAndEmpty ==
  ASSUME NEW h \in Indices, NEW t \in Indices, NEW k \in 0..Size, Ahead(h, t, k)
  PROVE  /\ h = FlipWrapBit(t) <=> k = Size
         /\ h = t <=> k = 0
BY SizeAssumption DEF Indices, Ahead, FlipWrapBit, RealIndex, Wrapped

\* Two indices ahead of the same head: the second distance is the difference.
LEMMA AheadDifference ==
  ASSUME NEW h \in Indices, NEW l \in Indices, NEW t \in Indices,
         NEW k \in 0..Size, NEW n \in 0..k, Ahead(h, l, n), Ahead(h, t, k)
  PROVE  Ahead(l, t, k - n)
BY SizeAssumption DEF Indices, Ahead, RealIndex, Wrapped

LEMMA RingInit == Init => RingInv
BY SizeAssumption DEF Init, RingInv, TypeOK, Indices, Ahead, RealIndex, Wrapped

\* Every step of the writer, the reader and the reset keeps RingInv.
LEMMA RingNext == RingInv /\ [Next]_vars => RingInv'
<1> SUFFICES ASSUME RingInv, [Next]_vars PROVE RingInv'
  OBVIOUS
<1> USE SizeAssumption
<1>t. /\ head \in Indices /\ tail \in Indices /\ local \in Indices
      /\ total \in 0..Size /\ used \in 0..Size
  BY DEF RingInv, TypeOK
<1>z. 0 \in Indices /\ Ahead(0, 0, 0)
  BY DEF Indices, Ahead, RealIndex, Wrapped
<1>1. ASSUME NEW v \in Values, Enqueue(v) PROVE RingInv'
  <2>1. used + 1 \in 0..Size
    <3>1. used # Size
      BY <1>1, <1>t, FullAndEmpty DEF RingInv, Enqueue
    <3> QED BY <3>1, <1>t
  <2>2. tail' \in Indices
    BY <1>1, <1>t, IncIsIndex DEF Enqueue
  <2>3. Ahead(head, tail', used')
    BY <1>1, <1>t, <2>1, IncTail DEF RingInv, Enqueue
  <2> QED
    BY <1>1, <1>t, <2>1, <2>2, <2>3 DEF RingInv, TypeOK, Enqueue, readerVars, Ahead
<1>2. CASE FetchStart
  <2>1. Ahead(head, head, 0)
    BY <1>t DEF Ahead, Indices, RealIndex, Wrapped
  <2> QED
    BY <1>2, <1>t, <2>1 DEF RingInv, TypeOK, FetchStart, Ahead
<1>3. CASE FetchTurn
  <2>1. total <= used /\ Ahead(head, local, total)
    BY <1>3 DEF RingInv, FetchTurn
  <2>2. Cnt(local, tail) = used - total
    <3>1. Ahead(local, tail, used - total)
      BY <1>t, <2>1, AheadDifference DEF RingInv
    <3> QED BY <1>t, <2>1, <3>1, CntIsDistance
  <2>3. used - total \in 0..Size /\ total + (used - total) = used
    BY <1>t, <2>1
  <2>4. local' \in Indices
    BY <1>3, <1>t, <2>2, <2>3, IncIsIndex DEF FetchTurn
  <2>5. Ahead(head, local', total')
    BY <1>3, <1>t, <2>1, <2>2, <2>3, IncTail DEF FetchTurn
  <2> QED
    BY <1>3, <1>t, <2>2, <2>3, <2>4, <2>5 DEF RingInv, TypeOK, FetchTurn, Ahead
<1>4. CASE FetchEnds
  <2>1. total \in 0..used
    BY <1>4, <1>t DEF RingInv, FetchEnds
  <2>2. head' \in Indices
    BY <1>4, <1>t, IncIsIndex DEF FetchEnds
  <2>3. Ahead(head', tail, used - total)
    BY <1>4, <1>t, <2>1, IncHead DEF RingInv, FetchEnds
  <2> QED
    BY <1>4, <1>t, <2>1, <2>2, <2>3 DEF RingInv, TypeOK, FetchEnds, Ahead
<1>5. CASE FetchOne
  <2>1. 1 \in 0..used
    BY <1>5, <1>t, FullAndEmpty DEF RingInv, FetchOne
  <2>2. head' \in Indices
    BY <1>5, <1>t, IncIsIndex DEF FetchOne
  <2>3. Ahead(head', tail, used - 1)
    BY <1>5, <1>t, <2>1, IncHead DEF RingInv, FetchOne
  <2> QED
    BY <1>5, <1>t, <2>1, <2>2, <2>3 DEF RingInv, TypeOK, FetchOne, readerVars, Ahead
<1>6. CASE Reset
  BY <1>6, <1>t, <1>z DEF RingInv, TypeOK, Reset, readerVars
<1>7. CASE UNCHANGED vars
  BY <1>7 DEF RingInv, TypeOK, vars, readerVars, Ahead
<1> QED BY <1>1, <1>2, <1>3, <1>4, <1>5, <1>6, <1>7 DEF Next

\* RingInv is an invariant of every ring.
THEOREM RingInductive == Spec => []RingInv
BY RingInit, RingNext, PTL DEF Spec

\* Both indices stay inside the ring, for every size gcip_valid_circ_queue_size
\* accepts.
THEOREM IndicesStayInRing == Spec => []TypeOK
<1>1. RingInv => TypeOK
  BY DEF RingInv
<1> QED BY <1>1, RingInductive, PTL

\* gcip_circ_queue_cnt, the test for a full command queue and the test for an
\* empty response queue are exact on every lap and for every size.
THEOREM OccupancyIsExact == Spec => []OccupancyExact
<1>1. RingInv => OccupancyExact
  <2> SUFFICES ASSUME RingInv PROVE OccupancyExact
    OBVIOUS
  <2>t. /\ head \in Indices /\ tail \in Indices /\ local \in Indices
        /\ total \in 0..Size /\ used \in 0..Size /\ Ahead(head, tail, used)
    BY DEF RingInv, TypeOK
  <2>1. Cnt(head, tail) = used
    BY <2>t, CntIsDistance
  <2>2. ASSUME reading PROVE Cnt(local, tail) = used - total
    <3>1. total \in 0..used /\ Ahead(head, local, total)
      BY <2>2, <2>t DEF RingInv
    <3>2. Ahead(local, tail, used - total)
      BY <2>t, <3>1, AheadDifference
    <3>3. used - total \in 0..Size
      BY <2>t, <3>1, SizeAssumption
    <3> QED BY <2>t, <3>2, <3>3, CntIsDistance
  <2>3. (head = FlipWrapBit(tail) <=> used = Size) /\ (head = tail <=> used = 0)
    BY <2>t, FullAndEmpty
  <2> QED BY <2>1, <2>2, <2>3 DEF OccupancyExact
<1> QED BY <1>1, RingInductive, PTL

-----------------------------------------------------------------------------
(***************************************************************************)
(* The ring implements a FIFO.                                             *)
(***************************************************************************)
\* Where the i-th element from an index on is, without a division.
At(index, i) ==
  IF RealIndex(index) + i - 1 < Size THEN RealIndex(index) + i - 1
                                     ELSE RealIndex(index) + i - 1 - Size

\* The copies of n elements of a ring s.
CopyOf(s, index, n) == [i \in 1..n |-> s[At(index, i)]]

\* What a ring may hold.
Rings == [0..(Size - 1) -> Values]

\* A number of less than two laps, modulo the ring.
LEMMA ModFact ==
  ASSUME NEW S \in Nat \ {0}, NEW x \in 0..(2 * S - 1)
  PROVE  x % S = IF x < S THEN x ELSE x - S
  OBVIOUS

\* The position is inside the ring, and is the one the code computes.
LEMMA AtFact ==
  ASSUME NEW i \in Indices, NEW n \in 1..Size
  PROVE  At(i, n) \in 0..(Size - 1) /\ (RealIndex(i) + n - 1) % Size = At(i, n)
<1>1. RealIndex(i) \in Nat /\ RealIndex(i) < Size /\ Size \in Nat \ {0} /\ n \in Nat
  BY SizeAssumption DEF Indices, RealIndex, Wrapped
<1> DEFINE x == RealIndex(i) + n - 1
<1>2. x \in 0..(2 * Size - 1)
  BY <1>1
<1>3. At(i, n) \in 0..(Size - 1) /\ At(i, n) = IF x < Size THEN x ELSE x - Size
  BY <1>1 DEF At
<1> HIDE DEF x
<1>4. x % Size = IF x < Size THEN x ELSE x - Size
  BY <1>1, <1>2, ModFact
<1> QED
  BY <1>3, <1>4 DEF x

\* The copies are a sequence of n elements.
LEMMA CopyFact ==
  ASSUME NEW s \in Rings, NEW h \in Indices, NEW n \in 0..Size
  PROVE  /\ CopyOf(s, h, n) \in Seq(Values) /\ Len(CopyOf(s, h, n)) = n
         /\ \A i \in 1..n : CopyOf(s, h, n)[i] = s[At(h, i)]
<1>1. n \in Nat /\ \A i \in 1..n : i \in 1..Size
  BY SizeAssumption
<1>2. \A i \in 1..n : At(h, i) \in 0..(Size - 1)
  BY <1>1, AtFact
<1>3. \A i \in 1..n : s[At(h, i)] \in Values
  BY <1>2 DEF Rings
<1> QED
  BY <1>1, <1>3 DEF CopyOf

\* gcip_mailbox_fetch_responses copies what CopyOf says.
LEMMA CopyIs ==
  ASSUME NEW h \in Indices, NEW n \in 0..Size
  PROVE  Copy(h, n) = CopyOf(slots, h, n)
<1>1. \A i \in 1..n : i \in 1..Size
  BY SizeAssumption
<1>2. \A i \in 1..n : (RealIndex(h) + i - 1) % Size = At(h, i)
  BY <1>1, AtFact
<1> QED
  BY <1>2 DEF Copy, CopyOf

\* No element is read from the slot the next one is written to, which is the one
\* after the last.
LEMMA TailSlot ==
  ASSUME NEW h \in Indices, NEW t \in Indices, NEW k \in 0..(Size - 1), Ahead(h, t, k)
  PROVE  /\ At(h, k + 1) = RealIndex(t)
         /\ \A i \in 1..k : At(h, i) # RealIndex(t)
  BY SizeAssumption DEF Indices, Ahead, At, RealIndex, Wrapped

\* The elements from l on are those from h on, n further.
LEMMA LaterSlot ==
  ASSUME NEW h \in Indices, NEW l \in Indices, NEW n \in 0..Size, NEW i \in 1..Size,
         n + i <= Size, Ahead(h, l, n)
  PROVE  At(l, i) = At(h, n + i)
  BY SizeAssumption DEF Indices, Ahead, At, RealIndex, Wrapped

\* Writing the slot of the tail appends an element.
LEMMA WriteAppends ==
  ASSUME NEW s \in Rings, NEW h \in Indices, NEW t \in Indices, NEW k \in 0..(Size - 1),
         Ahead(h, t, k), NEW v \in Values, NEW r \in Rings, r[RealIndex(t)] = v,
         \A j \in 0..(Size - 1) : j # RealIndex(t) => r[j] = s[j]
  PROVE  /\ CopyOf(r, h, k + 1) = Append(CopyOf(s, h, k), v)
         /\ \A n \in 0..k : CopyOf(r, h, n) = CopyOf(s, h, n)
<1>1. k \in 0..Size /\ k + 1 \in 0..Size
  BY SizeAssumption
<1>3. ASSUME NEW i \in 1..(k + 1) PROVE At(h, i) \in 0..(Size - 1)
  <2>1. i \in 1..Size
    BY SizeAssumption
  <2> QED
    BY <2>1, AtFact
<1>4. \A i \in 1..k : r[At(h, i)] = s[At(h, i)]
  BY <1>3, TailSlot
<1>5. r[At(h, k + 1)] = v
  BY TailSlot
<1>6. \A n \in 0..k : CopyOf(r, h, n) = CopyOf(s, h, n)
  BY <1>4 DEF CopyOf
<1> DEFINE a == CopyOf(s, h, k)
           b == CopyOf(r, h, k + 1)
<1>7. /\ a \in Seq(Values) /\ Len(a) = k /\ b \in Seq(Values) /\ Len(b) = k + 1
      /\ \A i \in 1..k : a[i] = s[At(h, i)]
      /\ \A i \in 1..(k + 1) : b[i] = r[At(h, i)]
  BY <1>1, CopyFact
<1> HIDE DEF a, b
<1>8. /\ Append(a, v) \in Seq(Values) /\ Len(Append(a, v)) = k + 1
      /\ \A i \in 1..k : Append(a, v)[i] = a[i]
      /\ Append(a, v)[k + 1] = v
  BY <1>7, AppendProperties
<1>9. \A i \in 1..(k + 1) : b[i] = Append(a, v)[i]
  BY <1>4, <1>5, <1>7, <1>8
<1>10. b = Append(a, v)
  BY <1>7, <1>8, <1>9, SeqEqual
<1> QED
  BY <1>6, <1>10 DEF a, b

\* An index in the middle parts the elements in two.
LEMMA CopyParts ==
  ASSUME NEW s \in Rings, NEW h \in Indices, NEW l \in Indices,
         NEW k \in 0..Size, NEW n \in 0..k, Ahead(h, l, n)
  PROVE  LET q == CopyOf(s, h, k) IN
         /\ CopyOf(s, h, n) = SubSeq(q, 1, n)
         /\ CopyOf(s, l, k - n) = SubSeq(q, n + 1, k)
         /\ CopyOf(s, h, n) \o CopyOf(s, l, k - n) = q
<1> DEFINE q == CopyOf(s, h, k)
           a == CopyOf(s, h, n)
           b == CopyOf(s, l, k - n)
<1>1. n \in 0..Size /\ k - n \in 0..Size /\ n + (k - n) = k /\ k \in Nat /\ n \in Nat
  BY SizeAssumption
<1>2. /\ q \in Seq(Values) /\ Len(q) = k /\ \A i \in 1..k : q[i] = s[At(h, i)]
      /\ a \in Seq(Values) /\ Len(a) = n /\ \A i \in 1..n : a[i] = s[At(h, i)]
      /\ b \in Seq(Values) /\ Len(b) = k - n /\ \A i \in 1..(k - n) : b[i] = s[At(l, i)]
  BY <1>1, CopyFact
<1>3. ASSUME NEW i \in 1..(k - n) PROVE At(l, i) = At(h, n + i) /\ n + i \in 1..k
  <2>1. i \in 1..Size /\ n + i <= Size /\ n + i \in 1..k
    BY SizeAssumption
  <2> QED
    BY <1>1, <2>1, LaterSlot
<1> HIDE DEF q, a, b
<1>4. (\A i \in 1..n : a[i] = q[i]) /\ \A i \in 1..(k - n) : b[i] = q[n + i]
  <2>1. \A i \in 1..n : i \in 1..k
    BY <1>1
  <2>2. \A i \in 1..n : a[i] = q[i]
    BY <1>2, <2>1
  <2>3. ASSUME NEW i \in 1..(k - n) PROVE b[i] = q[n + i]
    BY <1>2, <1>3
  <2> QED
    BY <2>2, <2>3
<1>5. \A i \in 1..k : q[i] \in Values
  BY <1>2
<1>6. a = SubSeq(q, 1, n)
  <2>1. /\ SubSeq(q, 1, n) \in Seq(Values) /\ Len(SubSeq(q, 1, n)) = n
        /\ \A i \in 1..n : SubSeq(q, 1, n)[i] = q[i]
    <3>1. \A i \in 1..n : q[i] \in Values
      BY <1>1, <1>5
    <3> QED
      BY <1>1, <3>1, SubSeqProperties
  <2>2. \A i \in 1..n : a[i] = SubSeq(q, 1, n)[i]
    BY <1>4, <2>1
  <2> QED
    BY <1>2, <2>1, <2>2, SeqEqual
<1>7. b = SubSeq(q, n + 1, k)
  <2>1. /\ SubSeq(q, n + 1, k) \in Seq(Values) /\ Len(SubSeq(q, n + 1, k)) = k - n
        /\ \A i \in 1..(k - n) : SubSeq(q, n + 1, k)[i] = q[n + i]
    <3>1. \A i \in (n + 1)..k : q[i] \in Values
      BY <1>1, <1>5
    <3>2. /\ SubSeq(q, n + 1, k) \in Seq(Values)
          /\ Len(SubSeq(q, n + 1, k)) = IF n + 1 <= k THEN k - (n + 1) + 1 ELSE 0
          /\ \A i \in 1..(k - (n + 1) + 1) : SubSeq(q, n + 1, k)[i] = q[n + 1 + i - 1]
      BY <1>1, <3>1, SubSeqProperties
    <3>3. k - (n + 1) + 1 = k - n /\ \A i \in 1..(k - n) : n + 1 + i - 1 = n + i
      BY <1>1
    <3> QED
      BY <1>1, <3>2, <3>3
  <2>2. \A i \in 1..(k - n) : b[i] = SubSeq(q, n + 1, k)[i]
    BY <1>4, <2>1
  <2> QED
    BY <1>2, <2>1, <2>2, SeqEqual
<1>8. a \o b = q
  <2>1. /\ a \o b \in Seq(Values) /\ Len(a \o b) = n + (k - n)
        /\ \A i \in 1..(n + (k - n)) : (a \o b)[i] = IF i <= n THEN a[i] ELSE b[i - n]
    <3>1. a \in Seq(Values) /\ b \in Seq(Values) /\ Len(a) = n /\ Len(b) = k - n
      BY <1>2
    <3>2. /\ a \o b \in Seq(Values) /\ Len(a \o b) = Len(a) + Len(b)
          /\ \A i \in 1..(Len(a) + Len(b)) :
               (a \o b)[i] = IF i <= Len(a) THEN a[i] ELSE b[i - Len(a)]
      BY <3>1, ConcatProperties
    <3> QED
      BY <3>1, <3>2
  <2>2. ASSUME NEW i \in 1..k PROVE (a \o b)[i] = q[i]
    <3>1. CASE i <= n
      BY <1>1, <1>4, <2>1, <3>1
    <3>2. CASE ~(i <= n)
      <4>1. i - n \in 1..(k - n) /\ n + (i - n) = i
        BY <1>1, <3>2
      <4> QED
        BY <1>1, <1>4, <2>1, <3>2, <4>1
    <3> QED
      BY <3>1, <3>2
  <2> QED
    BY <1>1, <1>2, <2>1, <2>2, SeqEqual
<1> QED
  BY <1>6, <1>7, <1>8 DEF q, a, b

\* What the reader has copied is the beginning of the queue, although the writer
\* goes on.
CopyInv == slots \in Rings /\ (reading => batch = CopyOf(slots, head, total))

\* The queue that the ring holds.
LEMMA QueueIs == RingInv => Copy(head, Cnt(head, tail)) = CopyOf(slots, head, used)
<1> SUFFICES ASSUME RingInv
    PROVE Copy(head, Cnt(head, tail)) = CopyOf(slots, head, used)
  OBVIOUS
<1>1. head \in Indices /\ tail \in Indices /\ used \in 0..Size /\ Ahead(head, tail, used)
  BY DEF RingInv, TypeOK
<1>2. Cnt(head, tail) = used
  BY <1>1, CntIsDistance
<1> QED
  BY <1>1, <1>2, CopyIs

\* Nothing is left of an empty ring.
LEMMA NoCopy == ASSUME NEW s, NEW h PROVE CopyOf(s, h, 0) = <<>>
  BY DEF CopyOf

\* Every step keeps CopyInv, and is a step of the FIFO or none.
LEMMA FifoStep ==
  RingInv /\ RingInv' /\ CopyInv /\ [Next]_vars
    => CopyInv' /\ [Fifo!FifoNext]_<<Copy(head, Cnt(head, tail)), out>>
<1> SUFFICES ASSUME RingInv, RingInv', CopyInv, [Next]_vars
             PROVE  CopyInv' /\ [Fifo!FifoNext]_<<Copy(head, Cnt(head, tail)), out>>
  OBVIOUS
<1> DEFINE q == CopyOf(slots, head, used)
           p == CopyOf(slots', head', used')
           Writes == /\ Len(q) < Size /\ \E v \in Values : p = Append(q, v)
                     /\ out' = out
           Takes == \E n \in 0..Len(q) : /\ out' = SubSeq(q, 1, n)
                                         /\ p = SubSeq(q, n + 1, Len(q))
           Discards == p = <<>> /\ out' = out
           Same == p = q /\ out' = out
<1>t. /\ head \in Indices /\ tail \in Indices /\ local \in Indices
      /\ total \in 0..Size /\ used \in 0..Size /\ Ahead(head, tail, used)
      /\ reading => total \in 0..used /\ Ahead(head, local, total)
      /\ slots \in Rings
  BY DEF RingInv, TypeOK, CopyInv
<1>u. head' \in Indices /\ used' \in 0..Size
  BY DEF RingInv, TypeOK
<1>s. Size \in Nat /\ Size >= 1 /\ 0 \in 0..Size /\ 1 \in 0..Size
  BY SizeAssumption
<1>q. q \in Seq(Values) /\ Len(q) = used
  BY <1>t, CopyFact
<1>h. Ahead(head, head, 0)
  BY <1>t DEF Ahead, Indices, RealIndex, Wrapped
<1>i. ASSUME NEW n \in 0..Size
PROVE Inc(head, n) \in Indices /\ Ahead(head, Inc(head, n), n)
  <2>1. 0 + n <= Size /\ 0 + n = n
    BY <1>s
  <2> QED
    BY <1>t, <1>s, <1>h, <2>1, IncIsIndex, IncTail
<1>1. ASSUME NEW v \in Values, Enqueue(v) PROVE CopyInv' /\ Writes
  <2>1. /\ head' = head /\ used' = used + 1 /\ out' = out /\ reading' = reading
        /\ total' = total /\ batch' = batch
        /\ slots' = [slots EXCEPT ![RealIndex(tail)] = v]
    BY <1>1 DEF Enqueue, readerVars
  <2>2. used \in 0..(Size - 1)
    <3>1. used + 1 \in 0..Size
      BY <1>u, <2>1
    <3> QED
      BY <1>t, <1>s, <3>1
  <2>3. PICK r : r = slots'
    OBVIOUS
  <2>4. /\ r \in Rings
        /\ CopyOf(r, head, used + 1) = Append(CopyOf(slots, head, used), v)
        /\ \A n \in 0..used : CopyOf(r, head, n) = CopyOf(slots, head, n)
    <3>1. RealIndex(tail) \in 0..(Size - 1)
      BY <1>t, SizeAssumption DEF Indices, RealIndex, Wrapped
    <3>2. /\ r \in Rings /\ r[RealIndex(tail)] = v
          /\ \A j \in 0..(Size - 1) : j # RealIndex(tail) => r[j] = slots[j]
      BY <1>t, <2>1, <2>3, <3>1 DEF Rings
    <3>3. /\ slots \in Rings /\ head \in Indices /\ tail \in Indices
          /\ Ahead(head, tail, used)
      BY <1>t
    <3> QED
      BY <2>2, <3>2, <3>3, WriteAppends
  <2>5. CopyInv'
    BY <1>t, <2>1, <2>3, <2>4 DEF CopyInv
  <2>6. p = Append(q, v)
    BY <2>1, <2>3, <2>4
  <2>7. Len(q) < Size
    BY <1>q, <1>s, <2>2
  <2> HIDE DEF q, p
  <2> QED
    BY <2>1, <2>5, <2>6, <2>7
<1>2. ASSUME FetchStart PROVE CopyInv' /\ Same
  BY <1>2, NoCopy DEF FetchStart, CopyInv
<1>3. ASSUME FetchTurn PROVE CopyInv' /\ Same
  <2>1. /\ reading /\ slots' = slots /\ head' = head /\ used' = used /\ out' = out
        /\ batch' = batch \o Copy(local, Cnt(local, tail))
        /\ total' = total + Cnt(local, tail)
    BY <1>3 DEF FetchTurn
  <2>2. Ahead(local, tail, used - total)
    BY <1>t, <2>1, AheadDifference
  <2>3. used - total \in 0..Size /\ total + (used - total) = used
    BY <1>t, <1>s, <2>1
  <2>4. Cnt(local, tail) = used - total
    BY <1>t, <2>2, <2>3, CntIsDistance
  <2>5. Copy(local, used - total) = CopyOf(slots, local, used - total)
    BY <1>t, <2>3, CopyIs
  <2>6. CopyOf(slots, head, total) \o CopyOf(slots, local, used - total) = q
    BY <1>t, <2>1, CopyParts
  <2>7. batch = CopyOf(slots, head, total)
    BY <2>1 DEF CopyInv
  <2>8. batch' = CopyOf(slots, head, used) /\ total' = used
    BY <2>1, <2>3, <2>4, <2>5, <2>6, <2>7
  <2> QED
    BY <1>t, <2>1, <2>8 DEF CopyInv
<1>4. ASSUME FetchEnds PROVE CopyInv' /\ Takes
  <2>1. /\ reading /\ slots' = slots /\ head' = Inc(head, total) /\ used' = used - total
        /\ out' = batch /\ ~reading'
    BY <1>4 DEF FetchEnds
  <2>2. head' \in Indices /\ Ahead(head, head', total)
    BY <1>i, <1>t, <2>1
  <2>3. PICK l : l = head'
    OBVIOUS
  <2>4. /\ CopyOf(slots, head, total) = SubSeq(q, 1, total)
        /\ CopyOf(slots, l, used - total) = SubSeq(q, total + 1, used)
    <3>1. l \in Indices /\ Ahead(head, l, total) /\ total \in 0..used
      BY <1>t, <2>1, <2>2, <2>3
    <3> QED
      BY <1>t, <3>1, CopyParts
  <2>5. out' = SubSeq(q, 1, total) /\ p = SubSeq(q, total + 1, used)
    BY <2>1, <2>3, <2>4 DEF CopyInv
  <2>6. CopyInv'
    BY <1>t, <2>1 DEF CopyInv
  <2> HIDE DEF q, p
  <2> QED
    BY <1>t, <1>q, <2>1, <2>5, <2>6
<1>5. ASSUME FetchOne PROVE CopyInv' /\ Takes
  <2>1. /\ slots' = slots /\ head' = Inc(head, 1) /\ used' = used - 1 /\ head # tail
        /\ out' = Copy(head, 1) /\ ~reading' /\ UNCHANGED readerVars
    BY <1>5 DEF FetchOne, readerVars
  <2>2. used # 0
    BY <1>t, <2>1, FullAndEmpty
  <2>3. 1 \in 0..used
    BY <1>t, <2>2
  <2>4. head' \in Indices /\ Ahead(head, head', 1)
    BY <1>i, <1>s, <2>1
  <2>5. PICK l : l = head'
    OBVIOUS
  <2>6. /\ CopyOf(slots, head, 1) = SubSeq(q, 1, 1)
        /\ CopyOf(slots, l, used - 1) = SubSeq(q, 1 + 1, used)
    <3>1. l \in Indices /\ Ahead(head, l, 1)
      BY <2>4, <2>5
    <3> QED
      <4>1. slots \in Rings /\ head \in Indices /\ used \in 0..Size
        BY <1>t
      <4>2. PICK n : n = 1
        OBVIOUS
      <4>3. n \in 0..used /\ Ahead(head, l, n) /\ l \in Indices
        BY <2>3, <3>1, <4>2
      <4>4. /\ CopyOf(slots, head, n) = SubSeq(q, 1, n)
            /\ CopyOf(slots, l, used - n) = SubSeq(q, n + 1, used)
        BY <4>1, <4>3, CopyParts
      <4> QED
        BY <4>2, <4>4
  <2>7. Copy(head, 1) = CopyOf(slots, head, 1)
    BY <1>t, <1>s, CopyIs
  <2>8. out' = SubSeq(q, 1, 1) /\ p = SubSeq(q, 1 + 1, used)
    BY <2>1, <2>5, <2>6, <2>7
  <2>9. CopyInv'
    BY <1>t, <2>1 DEF CopyInv
  <2> HIDE DEF q, p
  <2> QED
    BY <1>q, <2>3, <2>8, <2>9
<1>6. ASSUME Reset PROVE CopyInv' /\ Discards
  BY <1>6, NoCopy DEF Reset, CopyInv, readerVars
<1>7. ASSUME UNCHANGED vars PROVE CopyInv' /\ Same
  BY <1>7 DEF vars, readerVars, CopyInv
<1>8. CopyInv' /\ (Writes \/ Takes \/ Discards \/ Same)
  BY <1>1, <1>2, <1>3, <1>4, <1>5, <1>6, <1>7 DEF Next
<1>9. Copy(head, Cnt(head, tail)) = q
  BY QueueIs
<1>10. (RingInv => Copy(head, Cnt(head, tail)) = CopyOf(slots, head, used))'
  BY QueueIs, PTL
<1>11. Copy(head, Cnt(head, tail))' = p
  BY <1>10
<1> HIDE DEF q, p
<1> QED
  BY <1>8, <1>9, <1>11 DEF Fifo!FifoNext, Fifo!Write, Fifo!Take, Fifo!Discard

\* The ring, its wrap bits and the copy loop implement the bounded FIFO, for every
\* size: no element is overwritten before it is taken, lost, taken twice or out of
\* order.
THEOREM RingImplementsFifo == Spec => ImplementsFifo
<1>1. Init => CopyInv
  BY DEF Init, CopyInv, Rings
<1>2. Init => Copy(head, Cnt(head, tail)) = <<>> /\ out = <<>>
  <2> SUFFICES ASSUME Init PROVE Copy(head, Cnt(head, tail)) = <<>> /\ out = <<>>
    OBVIOUS
  <2>1. Copy(head, Cnt(head, tail)) = CopyOf(slots, head, used)
    BY RingInit, QueueIs
  <2> QED
    BY <2>1, NoCopy DEF Init
<1> QED
  BY <1>1, <1>2, RingInductive, FifoStep, PTL DEF Spec, ImplementsFifo, Fifo!FifoSpec
=============================================================================
