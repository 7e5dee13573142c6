---------------------------- MODULE QueueLemmas ----------------------------
(***************************************************************************)
(* What the proofs about the two queues share, for every ring size and     *)
(* every pool: ring indices, with the modulus restated by cases so that    *)
(* what follows needs linear arithmetic only; the part of a ring between   *)
(* two positions as a sequence; and what the operations of a pool do to    *)
(* the set of free buffers.                                                *)
(***************************************************************************)
EXTENDS Ring, Mempool, SequenceTheorems, TLAPS

\* The modulus of a number below twice the ring size.
LEMMA ModByCases ==
    ASSUME NEW N \in Nat, N >= 1, NEW a \in 0 .. 2 * N - 1
    PROVE  a % N = IF a < N THEN a ELSE a - N
<1>1. CASE a < N
  BY <1>1, SMT
<1>2. CASE a >= N
  BY <1>2, SMT
<1> QED
  BY <1>1, <1>2

\* inc_and_wrap_ring adds one, and goes back to 0 after the last slot.
LEMMA IncByCases ==
    ASSUME NEW N \in Nat, N >= 2, NEW k \in 0 .. N - 1
    PROVE  /\ inc_and_wrap_ring(k, N) = IF k = N - 1 THEN 0 ELSE k + 1
           /\ inc_and_wrap_ring(k, N) \in 0 .. N - 1
<1> DEFINE a == k + 1
<1>1. a \in 0 .. 2 * N - 1 /\ N >= 1
  OBVIOUS
<1> HIDE DEF a
<1>2. a % N = IF a < N THEN a ELSE a - N
  BY <1>1, ModByCases, Zenon
<1> QED
  BY <1>2 DEF inc_and_wrap_ring, a

\* A distance is a number of slots below the ring size, and zero only from a
\* slot to itself.
LEMMA DistanceType ==
    ASSUME NEW N \in Nat, NEW from \in 0 .. N - 1, NEW to \in 0 .. N - 1
    PROVE  /\ Distance(from, to, N) \in 0 .. N - 1
           /\ Distance(from, to, N) = 0 <=> from = to
BY DEF Distance

\* Moving the far end of a window adds the slot it passes, unless the window
\* would close.
LEMMA WindowExtend ==
    ASSUME NEW N \in Nat, N >= 2, NEW from \in 0 .. N - 1, NEW to \in 0 .. N - 1,
           inc_and_wrap_ring(to, N) # from
    PROVE  /\ Window(from, inc_and_wrap_ring(to, N), N) = Window(from, to, N) \cup {to}
           /\ to \notin Window(from, to, N)
<1> DEFINE next == inc_and_wrap_ring(to, N)
<1>1. next = (IF to = N - 1 THEN 0 ELSE to + 1) /\ next \in 0 .. N - 1
  BY IncByCases
<1>2. next # from
  OBVIOUS
<1> HIDE DEF next
<1>3. \A k \in 0 .. N - 1 : Distance(from, k, N) < Distance(from, next, N)
                              <=> Distance(from, k, N) < Distance(from, to, N) \/ k = to
  BY <1>1, <1>2 DEF Distance
<1>4. Window(from, next, N) = Window(from, to, N) \cup {to}
  BY <1>3 DEF Window
<1>5. to \notin Window(from, to, N)
  BY DistanceType DEF Window
<1> QED
  BY <1>4, <1>5 DEF next

\* Moving the near end of a window removes the slot it passes.
LEMMA WindowShrink ==
    ASSUME NEW N \in Nat, N >= 2, NEW from \in 0 .. N - 1, NEW to \in 0 .. N - 1,
           from # to
    PROVE  /\ Window(inc_and_wrap_ring(from, N), to, N) = Window(from, to, N) \ {from}
           /\ from \in Window(from, to, N)
BY IncByCases DEF Window, Distance
-----------------------------------------------------------------------------
\* A sequence with one element more.
LEMMA AppendIs ==
    ASSUME NEW S, NEW s \in Seq(S), NEW t \in Seq(S), NEW e \in S, Len(t) = Len(s) + 1,
           \A k \in 1 .. Len(s) : t[k] = s[k], t[Len(s) + 1] = e
    PROVE  t = Append(s, e)
<1>1. Append(s, e) \in Seq(S) /\ Len(Append(s, e)) = Len(s) + 1 /\ Len(s) \in Nat
  OBVIOUS
<1>2. \A k \in 1 .. Len(t) : t[k] = Append(s, e)[k]
  OBVIOUS
<1> QED
  BY <1>1, <1>2, SeqEqual

\* A sequence without its first element.
LEMMA TailIs ==
    ASSUME NEW S, NEW s \in Seq(S), NEW t \in Seq(S), Len(s) = Len(t) + 1,
           \A k \in 1 .. Len(t) : t[k] = s[k + 1]
    PROVE  s # << >> /\ Head(s) = s[1] /\ t = Tail(s)
<1>1. s # << >> /\ Head(s) = s[1]
  OBVIOUS
<1>2. Tail(s) \in Seq(S) /\ Len(Tail(s)) = Len(t)
  BY <1>1
<1>3. \A k \in 1 .. Len(t) : t[k] = Tail(s)[k]
  BY <1>1
<1> QED
  BY <1>1, <1>2, <1>3, SeqEqual

\* The entries of a ring from one position up to another, oldest first.
InOrder(entry, from, to, N) ==
    [k \in 1 .. Distance(from, to, N) |-> entry[(from + k - 1) % N]]

\* The slots between two positions of a ring hold members of S.
Entries(entry, from, to, N, S) ==
    /\ N \in Nat /\ N >= 2
    /\ from \in 0 .. N - 1 /\ to \in 0 .. N - 1
    /\ \A k \in Window(from, to, N) : entry[k] \in S

\* The slot of the k-th entry.
LEMMA SlotInOrder ==
    ASSUME NEW N \in Nat, N >= 2, NEW from \in 0 .. N - 1, NEW to \in 0 .. N - 1,
           NEW k \in 1 .. Distance(from, to, N)
    PROVE  /\ (from + k - 1) % N = IF from + k - 1 < N THEN from + k - 1
                                   ELSE from + k - 1 - N
           /\ (from + k - 1) % N \in Window(from, to, N)
<1> DEFINE a == from + k - 1
<1>1. a \in 0 .. 2 * N - 1 /\ N >= 1 /\ k \in Nat /\ k >= 1
  BY DistanceType
<1>2. a % N = IF a < N THEN a ELSE a - N
  <2> HIDE DEF a
  <2> QED
    BY <1>1, ModByCases, Zenon
<1>3. a % N \in 0 .. N - 1 /\ Distance(from, a % N, N) = k - 1
  BY <1>1, <1>2, DistanceType DEF Distance
<1> DEFINE slot == a % N
<1>4. slot \in Window(from, to, N)
  <2>1. Distance(from, slot, N) < Distance(from, to, N)
    BY <1>1, <1>3, DistanceType
  <2> HIDE DEF slot
  <2> QED
    BY <1>3, <2>1 DEF Window, slot
<1> QED
  BY <1>2, <1>4

\* It is a sequence of the ring's entries; a slot's place in it is its distance.
LEMMA InOrderFacts ==
    ASSUME NEW N, NEW from, NEW to, NEW S, NEW entry, Entries(entry, from, to, N, S)
    PROVE  /\ InOrder(entry, from, to, N) \in Seq(S)
           /\ Len(InOrder(entry, from, to, N)) = Distance(from, to, N)
           /\ \A k \in Window(from, to, N) :
                 InOrder(entry, from, to, N)[Distance(from, k, N) + 1] = entry[k]
<1> DEFINE d == Distance(from, to, N)
           s == InOrder(entry, from, to, N)
<1>0. /\ N \in Nat /\ N >= 2 /\ from \in 0 .. N - 1 /\ to \in 0 .. N - 1
      /\ \A k \in Window(from, to, N) : entry[k] \in S
  BY DEF Entries
<1>1. d \in Nat
  BY <1>0, DistanceType
<1>2. \A k \in 1 .. d : (from + k - 1) % N \in Window(from, to, N)
  BY <1>0, SlotInOrder
<1>3. s \in [1 .. d -> S]
  BY <1>0, <1>2 DEF InOrder
<1>4. ASSUME NEW k \in Window(from, to, N)
      PROVE  s[Distance(from, k, N) + 1] = entry[k]
  <2>1. k \in 0 .. N - 1 /\ Distance(from, k, N) \in 0 .. N - 1 /\ Distance(from, k, N) < d
    BY <1>0, DistanceType DEF Window
  <2> DEFINE j == Distance(from, k, N) + 1
  <2>2. j \in 1 .. d
    BY <1>1, <2>1
  <2>3. (from + j - 1) % N = k
    <3>1. (from + j - 1) % N = IF from + j - 1 < N THEN from + j - 1 ELSE from + j - 1 - N
      BY <1>0, <2>2, SlotInOrder
    <3> QED
      BY <1>0, <2>1, <3>1 DEF Distance
  <2> QED
    BY <2>2, <2>3 DEF InOrder
<1> QED
  BY <1>1, <1>3, <1>4

\* What is between two positions depends on the slots between them only.
LEMMA InOrderSame ==
    ASSUME NEW N \in Nat, N >= 2, NEW from \in 0 .. N - 1, NEW to \in 0 .. N - 1,
           NEW entry, NEW new, \A k \in Window(from, to, N) : new[k] = entry[k]
    PROVE  InOrder(new, from, to, N) = InOrder(entry, from, to, N)
<1>1. \A k \in 1 .. Distance(from, to, N) : (from + k - 1) % N \in Window(from, to, N)
  BY SlotInOrder
<1> QED
  BY <1>1 DEF InOrder

\* Moving the far end appends the slot it passes.
LEMMA InOrderExtend ==
    ASSUME NEW N, NEW from, NEW to, NEW S, NEW entry, NEW new,
           Entries(entry, from, to, N, S), inc_and_wrap_ring(to, N) # from,
           \A k \in Window(from, to, N) : new[k] = entry[k], new[to] \in S
    PROVE  /\ InOrder(new, from, inc_and_wrap_ring(to, N), N)
                = Append(InOrder(entry, from, to, N), new[to])
           /\ Distance(from, to, N) < N - 1
<1> DEFINE next == inc_and_wrap_ring(to, N)
           d == Distance(from, to, N)
           s == InOrder(entry, from, to, N)
           t == InOrder(new, from, next, N)
<1>0. /\ N \in Nat /\ N >= 2 /\ from \in 0 .. N - 1 /\ to \in 0 .. N - 1
      /\ \A k \in Window(from, to, N) : entry[k] \in S
  BY DEF Entries
<1>1. next = (IF to = N - 1 THEN 0 ELSE to + 1) /\ next \in 0 .. N - 1 /\ next # from
  BY <1>0, IncByCases
<1>2. d \in Nat /\ Distance(from, next, N) = d + 1 /\ d < N - 1
  <2> HIDE DEF next
  <2> QED
    BY <1>0, <1>1 DEF Distance
<1>3. s \in Seq(S) /\ Len(s) = d
  BY InOrderFacts
<1>4. \A k \in 1 .. d : t[k] = s[k]
  <2>1. \A k \in 1 .. d : (from + k - 1) % N \in Window(from, to, N)
    BY <1>0, SlotInOrder
  <2> QED
    BY <1>2, <2>1 DEF InOrder
<1>5. t[d + 1] = new[to]
  <2>1. (from + (d + 1) - 1) % N = to
    <3>1. d + 1 \in 1 .. Distance(from, next, N)
      BY <1>2
    <3>2. (from + (d + 1) - 1) % N = IF from + (d + 1) - 1 < N THEN from + (d + 1) - 1
                                     ELSE from + (d + 1) - 1 - N
      BY <1>0, <1>1, <3>1, SlotInOrder
    <3> QED
      BY <1>0, <3>2 DEF Distance
  <2> QED
    BY <1>2, <2>1 DEF InOrder
<1>6. t \in Seq(S) /\ Len(t) = d + 1
  <2>1. Window(from, next, N) = Window(from, to, N) \cup {to}
    BY <1>0, WindowExtend, Zenon
  <2>2. \A k \in Window(from, next, N) : new[k] \in S
    BY <1>0, <2>1
  <2>3. next \in 0 .. N - 1
    BY <1>1
  <2> HIDE DEF next
  <2>4. t \in Seq(S) /\ Len(t) = Distance(from, next, N)
    BY <1>0, <2>2, <2>3, InOrderFacts DEF Entries
  <2> QED
    BY <1>2, <2>4
<1> HIDE DEF s, t, d, next
<1>7. t = Append(s, new[to])
  BY <1>2, <1>3, <1>4, <1>5, <1>6, AppendIs
<1> QED
  BY <1>2, <1>7 DEF s, t, d, next

\* Moving the near end takes the first one off.
LEMMA InOrderShrink ==
    ASSUME NEW N, NEW from, NEW to, NEW S, NEW entry,
           Entries(entry, from, to, N, S), from # to
    PROVE  /\ InOrder(entry, from, to, N) # << >>
           /\ Head(InOrder(entry, from, to, N)) = entry[from]
           /\ InOrder(entry, inc_and_wrap_ring(from, N), to, N)
                = Tail(InOrder(entry, from, to, N))
<1> DEFINE next == inc_and_wrap_ring(from, N)
           d == Distance(from, to, N)
           s == InOrder(entry, from, to, N)
           t == InOrder(entry, next, to, N)
<1>0. /\ N \in Nat /\ N >= 2 /\ from \in 0 .. N - 1 /\ to \in 0 .. N - 1
      /\ \A k \in Window(from, to, N) : entry[k] \in S
  BY DEF Entries
<1>1. next = (IF from = N - 1 THEN 0 ELSE from + 1) /\ next \in 0 .. N - 1
  BY <1>0, IncByCases
<1>2. d \in Nat /\ d >= 1 /\ Distance(next, to, N) = d - 1
  <2> HIDE DEF next
  <2> QED
    BY <1>0, <1>1 DEF Distance
<1>3. s \in Seq(S) /\ Len(s) = d
  BY InOrderFacts
<1>4. s[1] = entry[from]
  <2>1. (from + 1 - 1) % N = from
    BY <1>0
  <2> QED
    BY <1>2, <2>1 DEF InOrder
<1>5. ASSUME NEW k \in 1 .. d - 1 PROVE t[k] = s[k + 1]
  <2>1. k \in 1 .. Distance(next, to, N) /\ k + 1 \in 1 .. d
    BY <1>2
  <2>2. (next + k - 1) % N = IF next + k - 1 < N THEN next + k - 1 ELSE next + k - 1 - N
    BY <1>0, <1>1, <2>1, SlotInOrder
  <2>3. (from + (k + 1) - 1) % N
            = IF from + (k + 1) - 1 < N THEN from + (k + 1) - 1
              ELSE from + (k + 1) - 1 - N
    BY <1>0, <2>1, SlotInOrder, Zenon
  <2>4. (next + k - 1) % N = (from + (k + 1) - 1) % N
    <3> HIDE DEF next
    <3> QED
      BY <1>0, <1>1, <2>1, <2>2, <2>3 DEF Distance
  <2> QED
    BY <2>1, <2>4 DEF InOrder
<1>6. t \in Seq(S) /\ Len(t) = d - 1
  <2>1. Window(next, to, N) = Window(from, to, N) \ {from}
    BY <1>0, WindowShrink
  <2>2. \A k \in Window(next, to, N) : entry[k] \in S
    BY <1>0, <2>1
  <2>3. next \in 0 .. N - 1
    BY <1>1
  <2> HIDE DEF next
  <2>4. t \in Seq(S) /\ Len(t) = Distance(next, to, N)
    BY <1>0, <2>2, <2>3, InOrderFacts DEF Entries
  <2> QED
    BY <1>2, <2>4
<1> HIDE DEF s, t, d, next
<1>7. s # << >> /\ Head(s) = entry[from] /\ t = Tail(s)
  BY <1>2, <1>3, <1>4, <1>5, <1>6, TailIs
<1> QED
  BY <1>7 DEF s, t, next
-----------------------------------------------------------------------------
\* A fresh pool has every buffer on its stack, once.
LEMMA MempoolInitFacts ==
    ASSUME MempoolInit
    PROVE  free_stack \in Seq(Bufs) /\ FreeOnce /\ Free = Bufs
<1>0. NUM_BUFS \in Nat
  BY MempoolAssumption
<1>1. free_stack \in [1 .. NUM_BUFS -> Bufs]
  BY <1>0 DEF MempoolInit, Bufs
<1>2. free_stack \in Seq(Bufs) /\ Len(free_stack) = NUM_BUFS
  BY <1>0, <1>1
<1>3. \A k \in 1 .. NUM_BUFS : free_stack[k] = k - 1
  BY <1>0 DEF MempoolInit
<1>4. FreeOnce
  BY <1>0, <1>2, <1>3 DEF FreeOnce
<1>5. \A b \in Bufs : b + 1 \in 1 .. NUM_BUFS /\ free_stack[b + 1] = b
  BY <1>0, <1>3 DEF Bufs
<1>6. Free = Bufs
  BY <1>0, <1>1, <1>2, <1>5 DEF Free
<1> QED
  BY <1>2, <1>4, <1>6

\* pkt_buf_alloc takes one buffer out of the set of free ones, and it is no
\* longer on the stack.
LEMMA AllocFacts ==
    ASSUME free_stack \in Seq(Bufs), FreeOnce, pkt_buf_alloc
    PROVE  /\ free_stack' \in Seq(Bufs)
           /\ FreeOnce'
           /\ Top \in Free
           /\ Top \in Bufs
           /\ Free' = Free \ {Top}
<1> DEFINE n == Len(free_stack)
<1>1. n \in Nat /\ n >= 1
  BY DEF pkt_buf_alloc
<1>2. /\ free_stack' \in Seq(Bufs)
      /\ Len(free_stack') = n - 1
      /\ \A k \in 1 .. n - 1 : free_stack'[k] = free_stack[k]
  <2> DEFINE m == n - 1
             s == SubSeq(free_stack, 1, m)
  <2>1. m \in Nat /\ (\A k \in 1 .. m : free_stack[k] \in Bufs)
    BY <1>1
  <2>2. free_stack' = s
    BY DEF pkt_buf_alloc
  <2> HIDE DEF m
  <2>3. /\ s \in Seq(Bufs)
        /\ Len(s) = IF 1 <= m THEN m - 1 + 1 ELSE 0
        /\ \A k \in 1 .. m - 1 + 1 : s[k] = free_stack[1 + k - 1]
    BY <2>1, SubSeqProperties
  <2> HIDE DEF s
  <2>4. Len(s) = m /\ \A k \in 1 .. m : s[k] = free_stack[k]
    BY <2>1, <2>3
  <2> QED
    BY <2>2, <2>3, <2>4 DEF m
<1>3. Top = free_stack[n] /\ Top \in Bufs
  BY <1>1 DEF Top, pkt_buf_alloc
<1>4. FreeOnce'
  BY <1>1, <1>2 DEF FreeOnce
<1>5. Top \in Free
  BY <1>1, <1>3 DEF Free
<1>6. \A k \in 1 .. n : free_stack[k] = Top => k = n
  BY <1>1, <1>3 DEF FreeOnce
<1>7. \A b : b \in Free' <=> b \in Free /\ b # Top
  BY <1>1, <1>2, <1>3, <1>6 DEF Free
<1> QED
  BY <1>2, <1>3, <1>4, <1>5, <1>7

\* pkt_buf_free adds the buffer; if it was not free before, no buffer is on the
\* stack twice afterwards.
LEMMA FreeFacts ==
    ASSUME free_stack \in Seq(Bufs), NEW b \in Bufs, pkt_buf_free(b)
    PROVE  /\ free_stack' \in Seq(Bufs)
           /\ Free' = Free \cup {b}
           /\ FreeOnce /\ b \notin Free => FreeOnce'
<1> DEFINE n == Len(free_stack)
<1>1. n \in Nat
  OBVIOUS
<1>2. /\ free_stack' \in Seq(Bufs)
      /\ Len(free_stack') = n + 1
      /\ \A k \in 1 .. n : free_stack'[k] = free_stack[k]
      /\ free_stack'[n + 1] = b
  BY <1>1 DEF pkt_buf_free
<1>3. Free' = Free \cup {b}
  BY <1>1, <1>2 DEF Free
<1>4. ASSUME FreeOnce, b \notin Free PROVE FreeOnce'
  BY <1>1, <1>2, <1>4 DEF FreeOnce, Free
<1> QED
  BY <1>2, <1>3, <1>4
=============================================================================
