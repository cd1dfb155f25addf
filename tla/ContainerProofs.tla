-------------------------- MODULE ContainerProofs ---------------------------
(***************************************************************************)
(* Proofs about the containers: BytesQueue, for every set of entry lengths *)
(* and every capacity; RingBuffer, which implements Fifo whatever its size *)
(* and its growth; and LinkedLists, whose queue implements it too.         *)
(***************************************************************************)
EXTENDS BytesQueue, Containers, FiniteSetTheorems, SequenceTheorems, WellFoundedInduction, TLAPS

-----------------------------------------------------------------------------
(* The bytes queue.                                                        *)

\* The header getNeededSize reserves has the length of the uvarint push writes:
\* the payload read back from a block has the length of the entry.
LEMMA HeaderFits ==
    ASSUME NEW len \in Lengths
    PROVE  /\ getNeededSize(len) \in Nat \ {0}
           /\ getNeededSize(len) - PutUvarint(getNeededSize(len)) = len
<1> DEFINE n == getNeededSize(len)
<1>1. len \in Nat
  BY LengthsAreNat
<1>2. n \in Nat \ {0} /\ n = len + HeaderSize(len, 127, 16382, 2097149, 268435452)
  BY SMT, <1>1 DEF getNeededSize, HeaderSize
<1> HIDE DEF n
<1>3. PutUvarint(n) = HeaderSize(len, 127, 16382, 2097149, 268435452)
  BY SMT, <1>1, <1>2 DEF PutUvarint, HeaderSize
<1>4. HeaderSize(len, 127, 16382, 2097149, 268435452) \in Nat
  BY SMT, <1>1 DEF HeaderSize
<1> QED BY SMT, <1>1, <1>2, <1>3, <1>4 DEF n

-----------------------------------------------------------------------------
(* The layout of the ring: the blocks tile the data area without overlap.  *)

End(b) == b.at + b.size

Starts(bs, i) == \E b \in bs : b.at = i

Layout(cap, h, t, m, bs) ==
    /\ cap \in Nat /\ h \in Nat \ {0} /\ t \in Nat \ {0} /\ m \in Nat \ {0}
    /\ bs \subseteq Block
    /\ \A b \in bs : b.at >= 1 /\ b.size >= 1
    /\ \A b, c \in bs : b = c \/ End(b) <= c.at \/ End(c) <= b.at
    /\ bs = {} => h = 1 /\ t = 1 /\ m = 1
    /\ bs # {} => /\ Starts(bs, h) /\ h < m /\ m <= cap /\ t <= cap
                  /\ t > h => m = t /\ \A b \in bs : h <= b.at /\ End(b) <= t
                  /\ t <= h => /\ Starts(bs, 1) /\ t > 1
                               /\ \A b \in bs : (h <= b.at /\ End(b) <= m) \/ End(b) <= t
    /\ \A b \in bs : End(b) = t \/ End(b) = m \/ Starts(bs, End(b))

\* push at tail, with room at the end of the array or in the gap.
LEMMA PushKeepsLayout ==
    ASSUME NEW cap, NEW h, NEW t, NEW m, NEW bs, Layout(cap, h, t, m, bs),
           NEW x \in Block, x.at = t, x.size >= 1,
           \/ (t > h \/ bs = {}) /\ cap - t >= x.size
           \/ t < h /\ t + x.size <= h
    PROVE  /\ \A c \in bs : ~Overlaps(x, c)
           /\ Layout(cap, h, t + x.size, IF t + x.size > h THEN t + x.size ELSE m, bs \cup {x})
<1> DEFINE t2 == t + x.size
           m2 == IF t2 > h THEN t2 ELSE m
           bs2 == bs \cup {x}
<1> USE DEF End, Block
<1>1. /\ cap \in Nat /\ h \in Nat \ {0} /\ t \in Nat \ {0} /\ m \in Nat \ {0} /\ bs \subseteq Block
      /\ \A b \in bs : b.at \in Nat /\ b.size \in Nat /\ b.at >= 1 /\ b.size >= 1
      /\ x.at \in Nat /\ x.size \in Nat /\ t2 \in Nat \ {0} /\ m2 \in Nat \ {0} /\ x \in Block
  BY DEF Layout
<1>2. \A c \in bs : End(c) <= x.at \/ End(x) <= c.at
  BY <1>1 DEF Layout
<1>3. \A c \in bs : ~Overlaps(x, c)
  BY <1>1, <1>2 DEF Overlaps
<1>4. \A b, c \in bs2 : b = c \/ End(b) <= c.at \/ End(c) <= b.at
  BY <1>2 DEF Layout
<1>5. Starts(bs2, h) /\ h < m2 /\ m2 <= cap /\ t2 <= cap
  BY <1>1 DEF Layout, Starts
<1>6. t2 > h => m2 = t2 /\ \A b \in bs2 : h <= b.at /\ End(b) <= t2
  BY <1>1 DEF Layout
<1>7. t2 <= h => /\ Starts(bs2, 1) /\ t2 > 1
                 /\ \A b \in bs2 : (h <= b.at /\ End(b) <= m2) \/ End(b) <= t2
  BY <1>1 DEF Layout, Starts
<1>8. \A b \in bs2 : End(b) = t2 \/ End(b) = m2 \/ Starts(bs2, End(b))
  BY <1>1 DEF Layout, Starts
<1>9. bs2 \subseteq Block /\ bs2 # {} /\ \A b \in bs2 : b.at >= 1 /\ b.size >= 1
  BY <1>1
<1> HIDE DEF t2, m2, bs2, End
<1>10. Layout(cap, h, t2, m2, bs2)
  BY <1>1, <1>4, <1>5, <1>6, <1>7, <1>8, <1>9 DEF Layout
<1> QED BY <1>3, <1>10 DEF t2, m2, bs2

\* push at the left margin, in front of head.
LEMMA WrapKeepsLayout ==
    ASSUME NEW cap, NEW h, NEW t, NEW m, NEW bs, Layout(cap, h, t, m, bs), t > h,
           NEW x \in Block, x.at = 1, x.size >= 1, 1 + x.size <= h
    PROVE  /\ \A c \in bs : ~Overlaps(x, c)
           /\ Layout(cap, h, 1 + x.size, m, bs \cup {x})
<1> DEFINE t2 == 1 + x.size
           bs2 == bs \cup {x}
<1> USE DEF End, Block
<1>1. /\ cap \in Nat /\ h \in Nat \ {0} /\ t \in Nat \ {0} /\ m \in Nat \ {0} /\ bs \subseteq Block
      /\ \A b \in bs : b.at \in Nat /\ b.size \in Nat /\ b.at >= 1 /\ b.size >= 1
      /\ x.at \in Nat /\ x.size \in Nat /\ t2 \in Nat \ {0} /\ x \in Block /\ bs # {}
  BY DEF Layout
<1>2. \A c \in bs : End(x) <= c.at
  BY <1>1 DEF Layout
<1>3. \A c \in bs : ~Overlaps(x, c)
  BY <1>1, <1>2 DEF Overlaps
<1>4. \A b, c \in bs2 : b = c \/ End(b) <= c.at \/ End(c) <= b.at
  BY <1>2 DEF Layout
<1>5. Starts(bs2, h) /\ h < m /\ m <= cap /\ t2 <= cap /\ t2 <= h /\ t2 > 1 /\ m = t
  BY <1>1 DEF Layout, Starts
<1>6. Starts(bs2, 1) /\ \A b \in bs2 : (h <= b.at /\ End(b) <= m) \/ End(b) <= t2
  BY <1>1 DEF Layout, Starts
<1>7. \A b \in bs2 : End(b) = t2 \/ End(b) = m \/ Starts(bs2, End(b))
  BY <1>1 DEF Layout, Starts
<1>8. bs2 \subseteq Block /\ bs2 # {} /\ \A b \in bs2 : b.at >= 1 /\ b.size >= 1
  BY <1>1
<1> HIDE DEF t2, bs2, End
<1>9. ~(t2 > h)
  BY <1>1, <1>5
<1>10. Layout(cap, h, t2, m, bs2)
  BY <1>1, <1>4, <1>5, <1>6, <1>7, <1>8, <1>9 DEF Layout
<1> QED BY <1>3, <1>10 DEF t2, bs2

\* allocateAdditionalMemory on a wrapped ring, the gap being empty or filled.
LEMMA GrowKeepsLayout ==
    ASSUME NEW cap, NEW h, NEW t, NEW m, NEW bs, Layout(cap, h, t, m, bs), bs # {}, t <= h,
           NEW cap2 \in Nat, cap2 >= cap
    PROVE  /\ t = h => Layout(cap2, 1, m, m, bs)
           /\ \A x \in Block : t < h /\ x.at = t /\ x.size = h - t =>
                /\ \A c \in bs : ~Overlaps(x, c)
                /\ Layout(cap2, 1, m, m, bs \cup {x})
<1> USE DEF End, Block
<1>1. /\ cap \in Nat /\ h \in Nat \ {0} /\ t \in Nat \ {0} /\ m \in Nat \ {0} /\ bs \subseteq Block
      /\ \A b \in bs : b.at \in Nat /\ b.size \in Nat /\ b.at >= 1 /\ b.size >= 1
      /\ h < m /\ m <= cap2 /\ m > 1 /\ ~(m <= 1)
      /\ Starts(bs, 1) /\ Starts(bs, h) /\ bs # {}
      /\ \A b \in bs : (h <= b.at /\ End(b) <= m) \/ End(b) <= t
  BY DEF Layout
<1>2. \A b \in bs : 1 <= b.at /\ End(b) <= m
  BY <1>1
<1>3. ASSUME t = h PROVE Layout(cap2, 1, m, m, bs)
  <2>1. \A b \in bs : End(b) = m \/ Starts(bs, End(b))
    BY <1>1, <1>3 DEF Layout
  <2> QED BY <1>1, <1>2, <2>1 DEF Layout
<1>4. ASSUME NEW x \in Block, t < h, x.at = t, x.size = h - t
      PROVE  (\A c \in bs : ~Overlaps(x, c)) /\ Layout(cap2, 1, m, m, bs \cup {x})
  <2> DEFINE bs2 == bs \cup {x}
  <2>1. \A c \in bs : End(c) <= x.at \/ End(x) <= c.at
    BY <1>1, <1>4
  <2>2. \A c \in bs : ~Overlaps(x, c)
    BY <1>1, <1>4, <2>1 DEF Overlaps
  <2>3. \A b, c \in bs2 : b = c \/ End(b) <= c.at \/ End(c) <= b.at
    BY <2>1 DEF Layout
  <2>4. \A b \in bs2 : End(b) = m \/ Starts(bs2, End(b))
    BY <1>1, <1>4 DEF Layout, Starts
  <2>5. Starts(bs2, 1) /\ bs2 \subseteq Block /\ bs2 # {}
    BY <1>1 DEF Starts
  <2>6. \A b \in bs2 : b.at >= 1 /\ b.size >= 1 /\ End(b) <= m
    BY <1>1, <1>2, <1>4
  <2> HIDE DEF bs2, End
  <2>7. Layout(cap2, 1, m, m, bs2)
    BY <1>1, <2>3, <2>4, <2>5, <2>6 DEF Layout
  <2> QED BY <2>2, <2>7 DEF bs2
<1> QED BY <1>3, <1>4

\* Pop: the block at head goes; at the right margin reading goes back to the left.
LEMMA PopKeepsLayout ==
    ASSUME NEW cap, NEW h, NEW t, NEW m, NEW bs, Layout(cap, h, t, m, bs),
           NEW b \in bs, b.at = h
    PROVE  LET next == h + b.size
               t2   == IF next = m /\ t = m THEN 1 ELSE t
           IN  Layout(cap, IF next = m THEN 1 ELSE next, t2,
                      IF next = m THEN t2 ELSE m, bs \ {b})
<1> DEFINE next == h + b.size
           bs2 == bs \ {b}
<1> USE DEF End, Block
<1>1. /\ cap \in Nat /\ h \in Nat \ {0} /\ t \in Nat \ {0} /\ m \in Nat \ {0} /\ bs \subseteq Block
      /\ \A c \in bs : c.at \in Nat /\ c.size \in Nat /\ c.at >= 1 /\ c.size >= 1
      /\ next \in Nat \ {0} /\ next = End(b) /\ h < m /\ m <= cap /\ t <= cap
      /\ t > h => m = t
      /\ t <= h => t > 1
      /\ bs2 \subseteq Block
      /\ \A c \in bs2 : c.at >= 1 /\ c.size >= 1
  BY DEF Layout
<1>2. \A c, d \in bs2 : c = d \/ End(c) <= d.at \/ End(d) <= c.at
  BY DEF Layout
<1>3. \A c \in bs2 : next <= c.at \/ End(c) <= h
  BY <1>1 DEF Layout
<1>4. CASE next = m /\ t = m
  <2>1. bs2 = {}
    BY <1>1, <1>3, <1>4 DEF Layout
  <2> QED BY <1>1, <1>4, <2>1 DEF Layout
<1>5. CASE next = m /\ t # m
  <2>1. t <= h /\ t > 1
    BY <1>1, <1>5
  <2>2. \A c \in bs2 : End(c) <= t
    BY <1>1, <1>3, <1>5, <2>1 DEF Layout
  <2>3. Starts(bs2, 1) /\ bs2 # {}
    BY <1>1, <2>1 DEF Layout, Starts
  <2>4. \A c \in bs2 : End(c) = t \/ Starts(bs2, End(c))
    BY <1>1, <1>5, <2>1, <2>2 DEF Layout, Starts
  <2> HIDE DEF bs2, End
  <2>5. Layout(cap, 1, t, t, bs2)
    BY <1>1, <1>2, <2>1, <2>2, <2>3, <2>4 DEF Layout
  <2> QED BY <1>5, <2>5 DEF bs2
<1>6. CASE next # m
  <2>1. Starts(bs2, next) /\ bs2 # {}
    BY <1>1, <1>6 DEF Layout, Starts
  <2>2. t > h => t > next /\ next < m /\ \A c \in bs2 : next <= c.at /\ End(c) <= t
    BY <1>1, <1>3, <2>1 DEF Layout, Starts
  <2>3. t <= h => /\ t <= next /\ next < m /\ Starts(bs2, 1)
                  /\ \A c \in bs2 : (next <= c.at /\ End(c) <= m) \/ End(c) <= t
    <3> SUFFICES ASSUME t <= h
                 PROVE  /\ t <= next /\ next < m /\ Starts(bs2, 1)
                        /\ \A c \in bs2 : (next <= c.at /\ End(c) <= m) \/ End(c) <= t
      OBVIOUS
    <3>1. \A c \in bs2 : (next <= c.at /\ End(c) <= m) \/ End(c) <= t
      BY <1>1, <1>3 DEF Layout
    <3>2. Starts(bs2, 1)
      BY <1>1 DEF Layout, Starts
    <3>3. next < m
      BY <1>1, <2>1, <3>1 DEF Starts
    <3> QED BY <1>1, <3>1, <3>2, <3>3
  <2>4. \A c \in bs2 : End(c) = t \/ End(c) = m \/ Starts(bs2, End(c))
    BY <1>1, <1>3 DEF Layout, Starts
  <2> HIDE DEF bs2, End, next
  <2>5. next < m /\ (t > h <=> t > next)
    BY <1>1, <2>2, <2>3 DEF next
  <2>6. Layout(cap, next, t, m, bs2)
    <3>1. CASE t > h
      BY <1>1, <1>2, <2>1, <2>2, <2>4, <2>5, <3>1 DEF Layout
    <3>2. CASE t <= h
      BY <1>1, <1>2, <2>1, <2>3, <2>4, <2>5, <3>2 DEF Layout
    <3> QED BY <1>1, <3>1, <3>2
  <2> QED BY <1>6, <2>6 DEF bs2, next
<1> QED BY <1>4, <1>5, <1>6

-----------------------------------------------------------------------------
(* The inductive invariant.                                                *)

\* The entries that were pushed and not popped are whole in the blocks bs.
Readable(bs) ==
    \A e \in entries : \E b \in bs :
        b.id = e.id /\ b.at = e.at /\ b.size - PutUvarint(b.size) = e.len

RingInv ==
    /\ Layout(capacity, head, tail, rightMargin, blocks)
    /\ MaxCapacity > 0 => capacity <= MaxCapacity
    /\ full \in BOOLEAN /\ (full <=> blocks # {} /\ tail = head)
    /\ IsFiniteSet(blocks) /\ count = Cardinality(blocks)
    /\ entries \subseteq BQEntry /\ pushes \in Nat /\ resets \in Nat /\ regrown \in BOOLEAN
    /\ Readable(blocks)

NewBlock(t, len) == [at |-> t, size |-> getNeededSize(len), id |-> pushes + 1]

\* The part all successful pushes share: with room for the new block and no block
\* in the way, push restores the invariant.
LEMMA PushAtKeepsInv ==
    ASSUME NEW cap \in Nat, NEW t \in Nat, NEW h \in Nat, NEW m, NEW bs, NEW len \in Lengths,
           PushAt(cap, t, h, m, bs, getNeededSize(len), len),
           cap - t >= getNeededSize(len),
           \A c \in bs : ~Overlaps(NewBlock(t, len), c),
           Layout(cap, h, t + getNeededSize(len),
                  IF t + getNeededSize(len) > h THEN t + getNeededSize(len) ELSE m,
                  bs \cup {NewBlock(t, len)}),
           MaxCapacity > 0 => cap <= MaxCapacity,
           IsFiniteSet(bs), Readable(bs), count' = Cardinality(bs) + 1,
           entries \subseteq BQEntry, pushes \in Nat, resets \in Nat, regrown' \in BOOLEAN
    PROVE  RingInv'
<1> DEFINE need == getNeededSize(len)
           x == NewBlock(t, len)
<1>1. need \in Nat \ {0} /\ need - PutUvarint(need) = len /\ len \in Nat
  BY HeaderFits, LengthsAreNat
<1>2. x.at = t /\ x.size = need /\ x.id = pushes + 1
  BY DEF NewBlock
<1>3. blocks' = bs \cup {x}
  <2>1. blocks' = Written(bs, [at |-> t, size |-> need, id |-> pushes + 1])
    BY <1>1 DEF PushAt
  <2>2. Written(bs, x) = bs \cup {x}
    BY DEF Written
  <2> QED BY <2>1, <2>2 DEF NewBlock
<1>4. /\ tail' = t + need /\ head' = h /\ capacity' = cap
      /\ rightMargin' = IF t + need > h THEN t + need ELSE m
      /\ full' = (t + need = h)
      /\ entries' = entries \cup {[at |-> t, len |-> len, id |-> pushes + 1]}
      /\ pushes' = pushes + 1 /\ resets' = resets
  BY <1>1 DEF PushAt
<1>5. x \notin bs
  <2>1. Overlaps(x, x)
    BY <1>1, <1>2 DEF Overlaps
  <2> QED BY <2>1
<1>6. IsFiniteSet(blocks') /\ count' = Cardinality(blocks')
  BY <1>3, <1>5, FS_AddElement
<1>7. Layout(capacity', head', tail', rightMargin', blocks')
  BY <1>3, <1>4
<1>8. entries' \subseteq BQEntry
  BY <1>1, <1>4 DEF BQEntry
<1>9. Readable(blocks)'
  <2> SUFFICES ASSUME NEW e \in entries'
               PROVE  \E b \in blocks' :
                        b.id = e.id /\ b.at = e.at /\ b.size - PutUvarint(b.size) = e.len
    BY DEF Readable
  <2>1. CASE e \in entries
    BY <1>3, <2>1 DEF Readable
  <2>2. CASE e = [at |-> t, len |-> len, id |-> pushes + 1]
    BY <1>1, <1>2, <1>3, <2>2
  <2> QED BY <1>4, <2>1, <2>2
<1>10. full' \in BOOLEAN /\ (full' <=> blocks' # {} /\ tail' = head')
  BY <1>3, <1>4
<1>11. pushes' \in Nat /\ resets' \in Nat /\ (MaxCapacity > 0 => capacity' <= MaxCapacity)
  BY <1>4
<1> QED BY <1>6, <1>7, <1>8, <1>9, <1>10, <1>11 DEF RingInv

\* What the invariant says about one state, in the form the step proofs use.
LEMMA RingFacts ==
    ASSUME RingInv
    PROVE  /\ capacity \in Nat /\ head \in Nat \ {0} /\ tail \in Nat \ {0} /\ rightMargin \in Nat \ {0}
           /\ blocks = {} => head = 1 /\ tail = 1 /\ rightMargin = 1
           /\ blocks # {} => /\ head < rightMargin /\ rightMargin <= capacity /\ tail <= capacity
                             /\ tail > head => rightMargin = tail
           /\ Copied = blocks
<1>1. Layout(capacity, head, tail, rightMargin, blocks)
  BY DEF RingInv
<1>2. \A b \in blocks : b.at + b.size <= rightMargin
  BY <1>1 DEF Layout, End, Block
<1> QED BY <1>1, <1>2 DEF Layout, Copied

\* The grown array has room for the entry behind the data.
LEMMA GrowthHasRoom ==
    ASSUME RingInv, NEW need \in Nat \ {0}, ~MustRefuse(need),
           NEW t \in Nat, t <= capacity \/ t = 1
    PROVE  /\ GrownCapacity(need) \in Nat /\ GrownCapacity(need) - t >= need
           /\ GrownCapacity(need) >= capacity
           /\ MaxCapacity > 0 => GrownCapacity(need) <= MaxCapacity
BY RingFacts, CapacitiesAreNat DEF RingInv, MustRefuse, GrownCapacity

\* The block push writes is well formed.
LEMMA NewBlockIsBlock ==
    ASSUME NEW t \in Nat, NEW len \in Lengths, pushes \in Nat
    PROVE  /\ NewBlock(t, len) \in Block
           /\ NewBlock(t, len).at = t /\ NewBlock(t, len).size = getNeededSize(len)
           /\ getNeededSize(len) \in Nat \ {0}
BY HeaderFits DEF NewBlock, Block

\* Push behind tail, at the end of the array or in the gap, keeps the invariant.
LEMMA PushAfterTailKeepsInv ==
    ASSUME RingInv, NEW len \in Lengths, PushAfterTail(len)
    PROVE  RingInv'
<1> DEFINE x == NewBlock(tail, len)
<1>1. /\ x \in Block /\ x.at = tail /\ x.size = getNeededSize(len)
      /\ getNeededSize(len) \in Nat \ {0}
  BY RingFacts, NewBlockIsBlock DEF RingInv
<1> HIDE DEF x
<1>2. \/ (tail > head \/ blocks = {}) /\ capacity - tail >= x.size
      \/ tail < head /\ tail + x.size <= head
  BY <1>1, RingFacts DEF PushAfterTail, canInsertAfterTail, GapFits, minimumHeaderSize, RingInv
<1>3. capacity - tail >= x.size
  BY <1>1, <1>2, RingFacts
<1>4. /\ \A c \in blocks : ~Overlaps(x, c)
      /\ Layout(capacity, head, tail + x.size,
                IF tail + x.size > head THEN tail + x.size ELSE rightMargin, blocks \cup {x})
  <2>1. x.size >= 1 /\ Layout(capacity, head, tail, rightMargin, blocks)
    BY <1>1 DEF RingInv
  <2> QED BY <1>1, <1>2, <2>1, PushKeepsLayout
<1>5. count' = Cardinality(blocks) + 1 /\ regrown' \in BOOLEAN
  BY DEF PushAfterTail, RingInv
<1> QED BY <1>1, <1>3, <1>4, <1>5, RingFacts, PushAtKeepsInv DEF PushAfterTail, RingInv, x

\* Push that wraps to the left margin keeps the invariant.
LEMMA PushBeforeHeadKeepsInv ==
    ASSUME RingInv, NEW len \in Lengths, PushBeforeHead(len)
    PROVE  RingInv'
<1> DEFINE x == NewBlock(1, len)
<1>1. /\ x \in Block /\ x.at = 1 /\ x.size = getNeededSize(len)
      /\ getNeededSize(len) \in Nat \ {0}
  BY NewBlockIsBlock DEF RingInv
<1> HIDE DEF x
<1>2. tail > head /\ 1 + x.size <= head
  BY <1>1, RingFacts DEF PushBeforeHead, canInsertAfterTail, canInsertBeforeHead, GapFits,
                         minimumHeaderSize, leftMarginIndex, RingInv
<1>3. capacity - 1 >= x.size /\ ~(1 + x.size > head)
  BY <1>1, <1>2, RingFacts
<1>4. /\ \A c \in blocks : ~Overlaps(x, c)
      /\ Layout(capacity, head, 1 + x.size, rightMargin, blocks \cup {x})
  BY <1>1, <1>2, WrapKeepsLayout DEF RingInv
<1>5. count' = Cardinality(blocks) + 1 /\ regrown' \in BOOLEAN
  BY DEF PushBeforeHead, RingInv
<1> QED BY <1>1, <1>3, <1>4, <1>5, RingFacts, PushAtKeepsInv
        DEF PushBeforeHead, RingInv, x, leftMarginIndex

\* Push that grows an unwrapped ring keeps the invariant.
LEMMA PushGrowKeepsInv ==
    ASSUME RingInv, NEW len \in Lengths, PushGrow(len)
    PROVE  RingInv'
<1> DEFINE x == NewBlock(tail, len)
           cap == GrownCapacity(getNeededSize(len))
<1>1. /\ x \in Block /\ x.at = tail /\ x.size = getNeededSize(len)
      /\ getNeededSize(len) \in Nat \ {0}
  BY RingFacts, NewBlockIsBlock DEF RingInv
<1>2. tail > head \/ blocks = {}
  BY RingFacts DEF PushGrow, leftMarginIndex
<1>3. /\ cap \in Nat /\ cap - tail >= getNeededSize(len) /\ cap >= capacity
      /\ MaxCapacity > 0 => cap <= MaxCapacity
  BY <1>1, RingFacts, GrowthHasRoom DEF PushGrow
<1>4. PushAt(cap, tail, head, rightMargin, blocks, getNeededSize(len), len)
  <2>1. (IF leftMarginIndex # rightMargin THEN Copied ELSE {}) = blocks
    BY RingFacts DEF leftMarginIndex
  <2> QED BY <2>1 DEF PushGrow
<1> HIDE DEF x, cap
<1>5. Layout(cap, head, tail, rightMargin, blocks)
  <2>1. Layout(capacity, head, tail, rightMargin, blocks)
    BY DEF RingInv
  <2> QED BY <1>3, <2>1, RingFacts DEF Layout
<1>6. /\ \A c \in blocks : ~Overlaps(x, c)
      /\ Layout(cap, head, tail + x.size,
                IF tail + x.size > head THEN tail + x.size ELSE rightMargin, blocks \cup {x})
  <2>1. x.size >= 1 /\ (tail > head \/ blocks = {}) /\ cap - tail >= x.size
    BY <1>1, <1>2, <1>3
  <2> QED BY <1>1, <1>5, <2>1, PushKeepsLayout
<1>7. count' = Cardinality(blocks) + 1 /\ regrown' \in BOOLEAN
  BY DEF PushGrow, RingInv
<1> QED BY <1>1, <1>3, <1>4, <1>6, <1>7, RingFacts, PushAtKeepsInv DEF RingInv, x

\* Push that grows a wrapped ring, filling its gap, keeps the invariant.
LEMMA PushGrowWrappedKeepsInv ==
    ASSUME RingInv, NEW len \in Lengths, PushGrowWrapped(len)
    PROVE  RingInv'
<1> DEFINE x == NewBlock(rightMargin, len)
           cap == GrownCapacity(getNeededSize(len))
           gap == [at |-> tail, size |-> head - tail, id |-> Filler]
           bs  == IF tail # head THEN Written(Copied, gap) ELSE Copied
<1>1. /\ x \in Block /\ x.at = rightMargin /\ x.size = getNeededSize(len)
      /\ getNeededSize(len) \in Nat \ {0}
  BY RingFacts, NewBlockIsBlock DEF RingInv
<1>2. blocks # {} /\ tail <= head /\ rightMargin <= capacity /\ rightMargin > 1
  BY RingFacts DEF PushGrowWrapped, leftMarginIndex
<1>3. /\ cap \in Nat /\ cap - rightMargin >= getNeededSize(len) /\ cap >= capacity
      /\ MaxCapacity > 0 => cap <= MaxCapacity
  BY <1>1, <1>2, RingFacts, GrowthHasRoom DEF PushGrowWrapped
<1>4. PushAt(cap, rightMargin, 1, rightMargin, bs, getNeededSize(len), len)
  BY DEF PushGrowWrapped, leftMarginIndex
<1>5. count' = count + (IF tail # head THEN 2 ELSE 1) /\ regrown' \in BOOLEAN
  BY DEF PushGrowWrapped
<1> HIDE DEF x, cap
<1>6. /\ Layout(cap, 1, rightMargin, rightMargin, bs)
      /\ IsFiniteSet(bs) /\ Readable(bs) /\ count' = Cardinality(bs) + 1
  <2>1. CASE tail = head
    <3>1. bs = blocks
      BY <2>1, RingFacts
    <3>2. Layout(cap, 1, rightMargin, rightMargin, blocks)
      BY <1>2, <1>3, <2>1, GrowKeepsLayout DEF RingInv
    <3> QED BY <1>5, <2>1, <3>1, <3>2 DEF RingInv
  <2>2. CASE tail # head
    <3>1. gap \in Block /\ gap.at = tail /\ gap.size = head - tail /\ tail < head
      BY <1>2, <2>2, RingFacts DEF Block, Filler
    <3> HIDE DEF gap
    <3>2. /\ \A c \in blocks : ~Overlaps(gap, c)
          /\ Layout(cap, 1, rightMargin, rightMargin, blocks \cup {gap})
      BY <1>2, <1>3, <3>1, GrowKeepsLayout DEF RingInv
    <3>3. bs = blocks \cup {gap}
      BY <2>2, <3>2, RingFacts DEF Written
    <3>4. gap \notin blocks
      <4>1. Overlaps(gap, gap)
        BY <3>1, RingFacts DEF Overlaps
      <4> QED BY <3>2, <4>1
    <3>5. IsFiniteSet(bs) /\ Cardinality(bs) = Cardinality(blocks) + 1 /\ Cardinality(blocks) \in Nat
      BY <3>3, <3>4, FS_AddElement, FS_CardinalityType DEF RingInv
    <3>6. Readable(bs)
      BY <3>3 DEF RingInv, Readable
    <3> QED BY <1>5, <2>2, <3>2, <3>3, <3>5, <3>6 DEF RingInv
  <2> QED BY <2>1, <2>2
<1> HIDE DEF bs
<1>7. /\ \A c \in bs : ~Overlaps(x, c)
      /\ Layout(cap, 1, rightMargin + x.size,
                IF rightMargin + x.size > 1 THEN rightMargin + x.size ELSE rightMargin, bs \cup {x})
  <2>1. x.size >= 1 /\ rightMargin > 1 /\ cap - rightMargin >= x.size
    BY <1>1, <1>2, <1>3
  <2> QED BY <1>1, <1>6, <2>1, PushKeepsLayout
<1> QED BY <1>1, <1>3, <1>4, <1>5, <1>6, <1>7, RingFacts, PushAtKeepsInv DEF RingInv, x

\* Pop keeps the invariant.
LEMMA PopKeepsInv ==
    ASSUME RingInv, Pop
    PROVE  RingInv'
<1>1. PICK b \in BlocksAt(head) :
        LET next == head + b.size IN
        /\ blocks' = blocks \ {b}
        /\ entries' = {e \in entries : e.id # b.id}
        /\ head' = IF next = rightMargin THEN leftMarginIndex ELSE next
        /\ tail' = IF next = rightMargin /\ tail = rightMargin THEN leftMarginIndex ELSE tail
        /\ rightMargin' = IF next = rightMargin THEN tail' ELSE rightMargin
  BY DEF Pop
<1>2. b \in blocks /\ b.at = head
  BY DEF BlocksAt
<1>3. Layout(capacity, head, tail, rightMargin, blocks) /\ capacity' = capacity
  BY DEF RingInv, Pop
<1>4. Layout(capacity', head', tail', rightMargin', blocks')
  BY <1>1, <1>2, <1>3, PopKeepsLayout DEF leftMarginIndex
<1>5. IsFiniteSet(blocks') /\ count' = Cardinality(blocks')
  BY <1>1, <1>2, FS_RemoveElement DEF Pop, RingInv
<1>6. full' = FALSE /\ ~(blocks' # {} /\ tail' = head')
  <2>1. \A c \in blocks : c.size \in Nat /\ c.size >= 1
    BY <1>3 DEF Layout, Block
  <2>2. CASE head + b.size = rightMargin /\ tail = rightMargin
    <3>1. head' = 1 /\ rightMargin' = 1
      BY <1>1, <2>2 DEF leftMarginIndex
    <3> QED BY <1>4, <3>1 DEF Layout, Pop
  <2>3. CASE head + b.size = rightMargin /\ tail # rightMargin
    <3>1. head' = 1 /\ tail' = tail /\ (tail <= head => tail > 1)
      BY <1>1, <1>2, <1>3, <2>3 DEF leftMarginIndex, Layout
    <3> QED BY <1>2, <2>3, <3>1, RingFacts DEF Pop
  <2>4. CASE head + b.size # rightMargin
    <3>1. head' = head + b.size /\ tail' = tail /\ rightMargin' = rightMargin
      BY <1>1, <2>4
    <3>2. CASE tail <= head
      BY <1>2, <2>1, <3>1, <3>2, RingFacts DEF Pop
    <3>3. CASE tail > head
      <4>1. tail = rightMargin
        BY <1>2, <3>3, RingFacts
      <4> QED BY <2>4, <3>1, <4>1 DEF Pop
    <3>4. tail <= head \/ tail > head
      BY RingFacts
    <3> QED BY <3>2, <3>3, <3>4
  <2> QED BY <2>2, <2>3, <2>4
<1>7. Readable(blocks)'
  BY <1>1 DEF Readable, RingInv
<1>8. entries' \subseteq BQEntry
  BY <1>1 DEF RingInv
<1> QED BY <1>4, <1>5, <1>6, <1>7, <1>8 DEF RingInv, Pop

\* Reset keeps the invariant.
LEMMA ResetKeepsInv ==
    ASSUME RingInv, Reset
    PROVE  RingInv'
<1>1. /\ head' = 1 /\ tail' = 1 /\ rightMargin' = 1 /\ blocks' = {} /\ capacity' = capacity
      /\ count' = 0 /\ full' = FALSE /\ entries' = {} /\ resets' = resets + 1
      /\ pushes' = pushes /\ regrown' = FALSE
  BY DEF Reset, leftMarginIndex
<1>2. Layout(capacity', head', tail', rightMargin', blocks')
  BY <1>1, RingFacts DEF Layout
<1>3. IsFiniteSet(blocks') /\ count' = Cardinality(blocks')
  BY <1>1, FS_EmptySet
<1>4. Readable(blocks)' /\ entries' \subseteq BQEntry
  BY <1>1 DEF Readable
<1>5. full' \in BOOLEAN /\ ~full' /\ blocks' = {} /\ regrown' \in BOOLEAN
  BY <1>1
<1>6. /\ pushes' \in Nat /\ resets' \in Nat
      /\ MaxCapacity > 0 => capacity' <= MaxCapacity
  BY <1>1 DEF RingInv
<1> QED BY <1>2, <1>3, <1>4, <1>5, <1>6 DEF RingInv

\* The blocks tile the ring, count and full agree with them, and every pushed
\* entry is readable at its index: the inductive invariant of Push, Pop and Reset.
THEOREM RingInvariant == BQSpec => []RingInv
<1>1. BQInit => RingInv
  <2> SUFFICES ASSUME BQInit PROVE RingInv
    OBVIOUS
  <2>1. Layout(capacity, head, tail, rightMargin, blocks)
    BY CapacitiesAreNat DEF BQInit, Layout, leftMarginIndex
  <2>2. IsFiniteSet(blocks) /\ count = Cardinality(blocks)
    BY FS_EmptySet DEF BQInit
  <2>3. Readable(blocks) /\ entries \subseteq BQEntry
    BY DEF BQInit, Readable
  <2>4. full \in BOOLEAN /\ ~full /\ blocks = {} /\ regrown \in BOOLEAN
    BY DEF BQInit
  <2>5. /\ pushes \in Nat /\ resets \in Nat
        /\ MaxCapacity > 0 => capacity <= MaxCapacity
    BY CapacitiesAreNat DEF BQInit
  <2> QED BY <2>1, <2>2, <2>3, <2>4, <2>5 DEF RingInv
<1>2. RingInv /\ [BQNext]_bqVars => RingInv'
  <2> SUFFICES ASSUME RingInv, [BQNext]_bqVars PROVE RingInv'
    OBVIOUS
  <2>1. ASSUME NEW len \in Lengths, BQPush(len) PROVE RingInv'
    <3>1. CASE PushFullQueue(len)
      BY <3>1 DEF PushFullQueue, RingInv, Readable, ring
    <3> QED BY <2>1, <3>1, PushAfterTailKeepsInv, PushBeforeHeadKeepsInv, PushGrowKeepsInv,
               PushGrowWrappedKeepsInv DEF BQPush
  <2>2. CASE UNCHANGED bqVars
    BY <2>2 DEF bqVars, ring, history, RingInv, Readable
  <2> QED BY <2>1, <2>2, PopKeepsInv, ResetKeepsInv DEF BQNext
<1> QED BY <1>1, <1>2, PTL DEF BQSpec

\* The fields keep their types and the indices stay inside the array, whose size
\* stays within MaxCapacity.
THEOREM TypeCorrect == BQSpec => []BQTypeOK
<1>1. RingInv => BQTypeOK
  <2> SUFFICES ASSUME RingInv PROVE BQTypeOK
    OBVIOUS
  <2>1. count \in Nat /\ (count > 0 => blocks # {})
    BY FS_CardinalityType, FS_EmptySet DEF RingInv
  <2>2. blocks # {} => head < capacity /\ tail <= capacity /\ rightMargin <= capacity
    BY RingFacts
  <2>3. blocks \subseteq Block
    BY DEF RingInv, Layout
  <2> QED BY <2>1, <2>2, <2>3, RingFacts DEF RingInv, BQTypeOK
<1> QED BY <1>1, RingInvariant, PTL

\* The index Push returned reads the entry until it is popped.
THEOREM IndexStable == BQSpec => []IndexReadsEntry
<1>1. RingInv => IndexReadsEntry
  BY DEF RingInv, Readable, IndexReadsEntry
<1> QED BY <1>1, RingInvariant, PTL

\* Pop always finds a block at head, and Len counts the blocks.
THEOREM HeadReadable == BQSpec => []HeadIsABlock
<1>1. RingInv => HeadIsABlock
  <2> SUFFICES ASSUME RingInv PROVE HeadIsABlock
    OBVIOUS
  <2>1. count > 0 => blocks # {}
    BY FS_EmptySet DEF RingInv
  <2>2. blocks # {} => BlocksAt(head) # {}
    BY DEF RingInv, Layout, Starts, BlocksAt
  <2> QED BY <2>1, <2>2 DEF RingInv, HeadIsABlock
<1> QED BY <1>1, RingInvariant, PTL

\* The flag full is set exactly when the ring holds data and has no gap.
THEOREM FullIsExact == BQSpec => []FullMeansNoGap
<1>1. RingInv => FullMeansNoGap
  <2> SUFFICES ASSUME RingInv PROVE FullMeansNoGap
    OBVIOUS
  <2>1. count > 0 <=> blocks # {}
    BY FS_CardinalityType, FS_EmptySet DEF RingInv
  <2>2. full <=> (blocks # {} /\ tail = head)
    BY DEF RingInv
  <2> QED BY <2>1, <2>2 DEF FullMeansNoGap
<1> QED BY <1>1, RingInvariant, PTL

-----------------------------------------------------------------------------
(* Order.                                                                  *)

\* Reading order of two blocks: from head to the right margin, then from the left.
Before(h, b, c) ==
    IF b.at >= h <=> c.at >= h THEN b.at < c.at ELSE b.at >= h

Ordered(h, bs, last) ==
    /\ \A b \in bs : b.id <= last
    /\ \A b, c \in bs : Before(h, b, c) => b.id < c.id

\* Until the array grows while wrapped, blocks are read in the order of their ids.
OrderInv == ~regrown => Ordered(head, blocks, pushes)

\* push adds at most the new block.
LEMMA PushAtAddsOne ==
    ASSUME NEW cap, NEW t, NEW h, NEW m, NEW bs, NEW len,
           PushAt(cap, t, h, m, bs, getNeededSize(len), len)
    PROVE  /\ blocks' \subseteq bs \cup {NewBlock(t, len)}
           /\ head' = h /\ pushes' = pushes + 1
BY DEF PushAt, Written, NewBlock

\* A block with a new id behind all others in reading order keeps the order.
LEMMA AppendKeepsOrder ==
    ASSUME RingInv, Ordered(head, blocks, pushes), NEW x \in Block, x.id = pushes + 1,
           \A c \in blocks : Before(head, c, x) /\ ~Before(head, x, c),
           ~Before(head, x, x),
           blocks' \subseteq blocks \cup {x}, head' = head, pushes' = pushes + 1
    PROVE  Ordered(head', blocks', pushes')
<1>1. pushes \in Nat /\ \A b \in blocks : b.id \in Nat /\ b.id <= pushes
  BY DEF RingInv, Layout, Block, Ordered
<1>2. \A b \in blocks \cup {x} : b.id <= pushes + 1
  BY <1>1
<1>3. \A b, c \in blocks \cup {x} : Before(head, b, c) => b.id < c.id
  BY <1>1 DEF Ordered
<1> QED BY <1>2, <1>3 DEF Ordered

\* Push keeps the blocks in the order of their ids.
LEMMA PushKeepsOrder ==
    ASSUME RingInv, OrderInv, NEW len \in Lengths, BQPush(len)
    PROVE  OrderInv'
<1> SUFFICES ASSUME ~regrown' PROVE Ordered(head', blocks', pushes')
  BY DEF OrderInv
<1>1. Layout(capacity, head, tail, rightMargin, blocks) /\ pushes \in Nat
  BY DEF RingInv
<1>2. CASE PushFullQueue(len)
  <2>1. head' = head /\ blocks' = blocks /\ pushes' = pushes + 1 /\ ~regrown
    BY <1>2 DEF PushFullQueue, ring
  <2>2. Ordered(head, blocks, pushes) /\ \A b \in blocks : b.id \in Nat
    BY <1>1, <2>1 DEF OrderInv, Layout, Block
  <2> QED BY <1>1, <2>1, <2>2 DEF Ordered
<1>3. CASE PushAfterTail(len) \/ PushGrow(len)
  <2> DEFINE x == NewBlock(tail, len)
  <2>1. x \in Block /\ x.at = tail /\ x.id = pushes + 1 /\ x.size \in Nat \ {0}
    BY <1>1, RingFacts, NewBlockIsBlock DEF NewBlock
  <2>2. \/ tail > head \/ blocks = {}
        \/ tail < head
    BY <1>3, RingFacts DEF PushAfterTail, PushGrow, canInsertAfterTail, RingInv, leftMarginIndex
  <2>3. blocks' \subseteq blocks \cup {x} /\ head' = head /\ pushes' = pushes + 1
    <3>1. CASE PushAfterTail(len)
      BY <3>1, PushAtAddsOne DEF PushAfterTail
    <3>2. CASE PushGrow(len)
      <4>1. (IF leftMarginIndex # rightMargin THEN Copied ELSE {}) = blocks
        BY RingFacts DEF leftMarginIndex
      <4> QED BY <3>2, <4>1, PushAtAddsOne DEF PushGrow
    <3> QED BY <1>3, <3>1, <3>2
  <2> HIDE DEF x
  <2>4. \A c \in blocks : Before(head, c, x) /\ ~Before(head, x, c)
    <3> SUFFICES ASSUME NEW c \in blocks PROVE Before(head, c, x) /\ ~Before(head, x, c)
      OBVIOUS
    <3>1. c.at \in Nat /\ c.size \in Nat /\ c.size >= 1 /\ head \in Nat /\ tail \in Nat
      BY <1>1 DEF Layout, Block
    <3>2. CASE tail > head
      <4>1. c.at >= head /\ c.at < tail
        BY <1>1, <3>1, <3>2 DEF Layout, End
      <4> QED BY <2>1, <3>1, <3>2, <4>1 DEF Before
    <3>3. CASE tail < head
      <4>1. c.at >= head \/ c.at < tail
        BY <1>1, <3>1, <3>3 DEF Layout, End
      <4> QED BY <2>1, <3>1, <3>3, <4>1 DEF Before
    <3> QED BY <2>2, <3>2, <3>3
  <2>5. ~Before(head, x, x)
    BY <2>1 DEF Before, Block
  <2>6. Ordered(head, blocks, pushes)
    BY <1>3 DEF PushAfterTail, PushGrow, OrderInv
  <2> QED BY <2>1, <2>3, <2>4, <2>5, <2>6, AppendKeepsOrder
<1>4. CASE PushBeforeHead(len)
  <2> DEFINE x == NewBlock(1, len)
  <2>1. x \in Block /\ x.at = 1 /\ x.id = pushes + 1 /\ x.size = getNeededSize(len)
        /\ getNeededSize(len) \in Nat \ {0}
    BY <1>1, NewBlockIsBlock DEF NewBlock
  <2>2. tail > head /\ head > 1
    BY <1>4, <2>1, RingFacts DEF PushBeforeHead, canInsertAfterTail, canInsertBeforeHead,
                                 GapFits, minimumHeaderSize, leftMarginIndex, RingInv
  <2>3. blocks' \subseteq blocks \cup {x} /\ head' = head /\ pushes' = pushes + 1
    BY <1>4, PushAtAddsOne DEF PushBeforeHead, leftMarginIndex
  <2> HIDE DEF x
  <2>4. \A c \in blocks : Before(head, c, x) /\ ~Before(head, x, c)
    <3> SUFFICES ASSUME NEW c \in blocks PROVE Before(head, c, x) /\ ~Before(head, x, c)
      OBVIOUS
    <3>1. c.at \in Nat /\ head \in Nat /\ c.at >= head
      BY <1>1, <2>2 DEF Layout, Block
    <3> QED BY <2>1, <2>2, <3>1 DEF Before
  <2>5. ~Before(head, x, x)
    BY <2>1 DEF Before, Block
  <2>6. Ordered(head, blocks, pushes)
    BY <1>4 DEF PushBeforeHead, OrderInv
  <2> QED BY <2>1, <2>3, <2>4, <2>5, <2>6, AppendKeepsOrder
<1>5. ~PushGrowWrapped(len)
  BY DEF PushGrowWrapped
<1> QED BY <1>2, <1>3, <1>4, <1>5 DEF BQPush

\* Pop keeps the blocks in the order of their ids, also when reading restarts at
\* the left margin.
LEMMA PopKeepsOrder ==
    ASSUME RingInv, OrderInv, Pop
    PROVE  OrderInv'
<1> SUFFICES ASSUME ~regrown' PROVE Ordered(head', blocks', pushes')
  BY DEF OrderInv
<1>1. Layout(capacity, head, tail, rightMargin, blocks) /\ Ordered(head, blocks, pushes)
  BY DEF RingInv, OrderInv, Pop
<1>2. PICK b \in BlocksAt(head) :
        /\ blocks' = blocks \ {b}
        /\ head' = IF head + b.size = rightMargin THEN leftMarginIndex ELSE head + b.size
  BY DEF Pop
<1>3. b \in blocks /\ b.at = head /\ pushes' = pushes
  BY DEF BlocksAt, Pop
<1>4. /\ head \in Nat \ {0} /\ tail \in Nat /\ rightMargin \in Nat
      /\ \A c \in blocks : c.at \in Nat /\ c.at >= 1 /\ c.size \in Nat /\ c.size >= 1
  BY <1>1 DEF Layout, Block
<1>5. \A c \in blocks' : c \in blocks /\ (head + b.size <= c.at \/ c.at + c.size <= head)
  BY <1>1, <1>2, <1>3 DEF Layout, End
<1>6. \A c, d \in blocks' : Before(head', c, d) => Before(head, c, d)
  <2>1. CASE head + b.size = rightMargin
    <3>1. \A c \in blocks' : c.at < head
      BY <1>1, <1>3, <1>4, <1>5, <2>1 DEF Layout, End
    <3> QED BY <1>2, <1>4, <1>5, <2>1, <3>1 DEF Before, leftMarginIndex
  <2>2. CASE head + b.size # rightMargin
    <3>1. \A c \in blocks' : c.at >= head <=> c.at >= head'
      BY <1>2, <1>3, <1>4, <1>5, <2>2
    <3> QED BY <3>1 DEF Before
  <2> QED BY <2>1, <2>2
<1> QED BY <1>1, <1>3, <1>5, <1>6 DEF Ordered

\* As long as the array never grew while the ring was wrapped, Pop takes the
\* oldest entry.
THEOREM FifoOrder == BQSpec => FifoUntilRegrown
<1>1. BQInit => OrderInv
  BY DEF BQInit, OrderInv, Ordered
<1>2. RingInv /\ OrderInv /\ [BQNext]_bqVars => OrderInv'
  <2> SUFFICES ASSUME RingInv, OrderInv, [BQNext]_bqVars PROVE OrderInv'
    OBVIOUS
  <2>1. CASE Reset
    BY <2>1 DEF Reset, OrderInv, Ordered
  <2>2. CASE UNCHANGED bqVars
    BY <2>2 DEF bqVars, ring, history, OrderInv
  <2> QED BY <2>1, <2>2, PushKeepsOrder, PopKeepsOrder DEF BQNext
<1>3. RingInv /\ OrderInv /\ [BQNext]_bqVars =>
        [~regrown /\ Pop => \A e \in entries' : \A p \in entries \ entries' : p.id < e.id]_bqVars
  <2> SUFFICES ASSUME RingInv, OrderInv, ~regrown, Pop,
                      NEW e \in entries', NEW p \in entries \ entries'
               PROVE  p.id < e.id
    OBVIOUS
  <2>1. PICK b \in BlocksAt(head) : entries' = {f \in entries : f.id # b.id}
    BY DEF Pop
  <2>2. b \in blocks /\ b.at = head /\ p.id = b.id /\ e \in entries /\ e.id # b.id
    BY <2>1 DEF BlocksAt
  <2>3. PICK c \in blocks : c.id = e.id
    BY <2>2 DEF RingInv, Readable
  <2>4. c # b /\ head \in Nat /\ c.at \in Nat /\ c.size \in Nat /\ c.size >= 1 /\ b.size \in Nat /\ b.size >= 1
    BY <2>2, <2>3 DEF RingInv, Layout, Block
  <2>5. c.at # head
    BY <2>2, <2>3, <2>4 DEF RingInv, Layout, End
  <2>6. Before(head, b, c)
    BY <2>2, <2>4, <2>5 DEF Before
  <2> QED BY <2>2, <2>3, <2>6 DEF OrderInv, Ordered
<1> QED BY <1>1, <1>2, <1>3, RingInvariant, PTL DEF BQSpec, FifoUntilRegrown

\* The queue keeps what it promises to the callers of Push, Get and Pop.
THEOREM QueueIsCorrect == BQSpec => QueueCorrect
<1>1. BQSpec => [](BQTypeOK /\ IndexReadsEntry /\ HeadIsABlock /\ FullMeansNoGap)
  BY TypeCorrect, IndexStable, HeadReadable, FullIsExact, PTL
<1> QED BY <1>1, FifoOrder DEF QueueCorrect

-----------------------------------------------------------------------------
(* The range buffer.                                                       *)

\* One turn around a ring of n slots.
LEMMA OneTurn ==
    ASSUME NEW n \in Nat, n # 0, NEW a \in Nat, a < 2 * n
    PROVE  a % n = IF a < n THEN a ELSE a - n
OBVIOUS

\* k slots behind slot h.
LEMMA SlotsBehind ==
    ASSUME NEW n \in Nat, n # 0, NEW h \in 0 .. n - 1, NEW k \in 0 .. n - 1
    PROVE  (h + k) % n = IF h + k < n THEN h + k ELSE h + k - n
<1> DEFINE a == h + k
<1>1. a \in Nat /\ a < 2 * n OBVIOUS
<1> HIDE DEF a
<1>2. a % n = IF a < n THEN a ELSE a - n BY <1>1, OneTurn, Zenon
<1> QED BY <1>2 DEF a

\* cap of a slice that begins at 0.
LEMMA CapOf ==
    ASSUME NEW n \in Nat, NEW e, DOMAIN e = 0 .. n - 1
    PROVE  Cap(e) = n
<1>1. Cardinality(0 .. n - 1) = IF 0 > n - 1 THEN 0 ELSE n - 1 - 0 + 1 BY FS_Interval
<1> QED BY <1>1 DEF Cap

\* The elements of a ring with slots e, head h and tail t, by their number.
LenOf(n, h, t) == IF h <= t THEN t - h ELSE n - h + t
Slot(n, h, i) == IF h + i - 1 < n THEN h + i - 1 ELSE h + i - 1 - n
View(e, h, t) == [i \in 1 .. LenOf(Cap(e), h, t) |-> e[(h + i - 1) % Cap(e)]]

\* The elements are a sequence, and element i is i - 1 slots behind the head.
LEMMA ViewIs ==
    ASSUME NEW V, NEW n \in Nat, n >= 2, NEW e \in [0 .. n - 1 -> V],
           NEW h \in 0 .. n - 1, NEW t \in 0 .. n - 1
    PROVE  /\ LenOf(n, h, t) \in 0 .. n - 1
           /\ View(e, h, t) \in Seq(V) /\ Len(View(e, h, t)) = LenOf(n, h, t)
           /\ \A i \in 1 .. LenOf(n, h, t) : View(e, h, t)[i] = e[Slot(n, h, i)]
<1> DEFINE len == LenOf(n, h, t)
           slot(i) == Slot(n, h, i)
<1>1. len \in 0 .. n - 1 BY DEF LenOf
<1>2. Cap(e) = n BY CapOf
<1>3. \A i \in 1 .. len : (h + i - 1) % n = slot(i) /\ slot(i) \in 0 .. n - 1
  <2> SUFFICES ASSUME NEW i \in 1 .. len PROVE (h + i - 1) % n = slot(i) /\ slot(i) \in 0 .. n - 1
    OBVIOUS
  <2> DEFINE a == h + i - 1
  <2>1. a \in Nat /\ a < 2 * n /\ n # 0 BY <1>1
  <2> HIDE DEF a
  <2>2. a % n = IF a < n THEN a ELSE a - n BY <2>1, OneTurn, Zenon
  <2> USE DEF a
  <2> QED BY <2>1, <2>2 DEF Slot
<1>4. View(e, h, t) = [i \in 1 .. len |-> e[slot(i)]] BY <1>2, <1>3 DEF View
<1>5. \A i \in 1 .. len : e[slot(i)] \in V BY <1>3
<1> HIDE DEF len, slot
<1>6. View(e, h, t) \in Seq(V) /\ Len(View(e, h, t)) = len BY <1>1, <1>4, <1>5
<1>7. \A i \in 1 .. len : View(e, h, t)[i] = e[slot(i)] BY <1>4
<1> QED BY <1>1, <1>6, <1>7 DEF len, slot

\* The shape of the ring: slots from 0, and head and tail among them.
RBTypeOK ==
    /\ Cap(rbElements) \in Nat /\ Cap(rbElements) >= 2
    /\ rbElements \in [0 .. Cap(rbElements) - 1 -> RBValues \cup {Nil}]
    /\ rbHead \in 0 .. Cap(rbElements) - 1 /\ rbTail \in 0 .. Cap(rbElements) - 1

\* Element i of a ring.
LEMMA ViewElement ==
    ASSUME NEW V, NEW n \in Nat, n >= 2, NEW e \in [0 .. n - 1 -> V],
           NEW h \in 0 .. n - 1, NEW t \in 0 .. n - 1, NEW i \in 1 .. LenOf(n, h, t)
    PROVE  View(e, h, t)[i] = e[Slot(n, h, i)]
<1>1. \A j \in 1 .. LenOf(n, h, t) : View(e, h, t)[j] = e[Slot(n, h, j)] BY ViewIs
<1> QED BY <1>1

\* A slot outside the ring has been cleared, and one inside holds an element.
OnlyLive == \A i \in DOMAIN rbElements : (rbElements[i] # Nil) = (i \in LiveSlots)

RBInv == RBTypeOK /\ OnlyLive

\* Contents and RBLen are those of the view.
LEMMA ContentsIsView ==
    /\ Contents = View(rbElements, rbHead, rbTail)
    /\ RBLen = LenOf(Cap(rbElements), rbHead, rbTail)
    /\ Contents' = View(rbElements', rbHead', rbTail')
BY DEF Contents, View, RBLen, LenOf

\* A ring in order: its elements are values, and element i is in its slot.
LEMMA BufferFacts ==
    ASSUME RBInv
    PROVE  /\ Cap(rbElements) \in Nat /\ Cap(rbElements) >= 2
           /\ rbElements \in [0 .. Cap(rbElements) - 1 -> RBValues \cup {Nil}]
           /\ rbHead \in 0 .. Cap(rbElements) - 1 /\ rbTail \in 0 .. Cap(rbElements) - 1
           /\ RBLen \in 0 .. Cap(rbElements) - 1
           /\ RBLen = LenOf(Cap(rbElements), rbHead, rbTail)
           /\ Contents \in Seq(RBValues) /\ Len(Contents) = RBLen
           /\ \A i \in 1 .. RBLen : /\ Slot(Cap(rbElements), rbHead, i) \in LiveSlots
                                    /\ Contents[i] = rbElements[Slot(Cap(rbElements), rbHead, i)]
<1> DEFINE n == Cap(rbElements)
           V == RBValues \cup {Nil}
           len == RBLen
           slot(i) == Slot(n, rbHead, i)
<1>1. /\ n \in Nat /\ n >= 2 /\ rbElements \in [0 .. n - 1 -> V]
      /\ rbHead \in 0 .. n - 1 /\ rbTail \in 0 .. n - 1
  BY DEF RBInv, RBTypeOK
<1>2. /\ len \in 0 .. n - 1 /\ Contents \in Seq(V) /\ Len(Contents) = len
      /\ \A i \in 1 .. len : Contents[i] = rbElements[slot(i)]
  <2> DEFINE c == View(rbElements, rbHead, rbTail)
             l == LenOf(n, rbHead, rbTail)
  <2> HIDE DEF n, V
  <2>1. l \in 0 .. n - 1 /\ c \in Seq(V) /\ Len(c) = l
    <3>1. l \in 0 .. n - 1 BY <1>1, ViewIs
    <3>2. c \in Seq(V) BY <1>1, ViewIs
    <3>3. Len(c) = l BY <1>1, <3>1, <3>2, ViewIs
    <3> QED BY <3>1, <3>2, <3>3
  <2>2. \A i \in 1 .. l : c[i] = rbElements[Slot(n, rbHead, i)] BY <1>1, ViewIs DEF Slot
  <2>3. c = Contents /\ l = len BY ContentsIsView DEF n
  <2> HIDE DEF c, l, len
  <2> QED BY <2>1, <2>2, <2>3
<1>3. len = LenOf(n, rbHead, rbTail) BY ContentsIsView
<1>4. \A i \in 1 .. len : slot(i) \in LiveSlots /\ slot(i) \in 0 .. n - 1
  <2> SUFFICES ASSUME NEW i \in 1 .. len PROVE slot(i) \in LiveSlots /\ slot(i) \in 0 .. n - 1
    OBVIOUS
  <2>1. /\ len = IF rbHead <= rbTail THEN rbTail - rbHead ELSE n - rbHead + rbTail
        /\ LiveSlots = IF rbHead <= rbTail THEN rbHead .. rbTail - 1
                       ELSE (rbHead .. n - 1) \cup (0 .. rbTail - 1)
        /\ slot(i) = IF rbHead + i - 1 < n THEN rbHead + i - 1 ELSE rbHead + i - 1 - n
    BY <1>3 DEF LenOf, LiveSlots, Slot
  <2> HIDE DEF n, len, slot
  <2> QED BY <1>1, <2>1
<1>5. \A i \in 1 .. len : Contents[i] \in RBValues
  BY <1>1, <1>2, <1>4 DEF RBInv, OnlyLive
<1> HIDE DEF n, V, len, slot
<1>6. Contents \in Seq(RBValues) BY <1>2, <1>5
<1> QED BY <1>1, <1>2, <1>3, <1>4, <1>6 DEF n, V, len, slot

\* elements[a:b].
LEMMA SliceIs ==
    ASSUME RBInv, NEW a \in Nat, NEW b \in Nat, a <= b, b <= Cap(rbElements)
    PROVE  /\ Slice(a, b) \in Seq(RBValues \cup {Nil}) /\ Len(Slice(a, b)) = b - a
           /\ \A i \in 1 .. b - a : Slice(a, b)[i] = rbElements[a + i - 1]
<1> DEFINE n == Cap(rbElements)
           V == RBValues \cup {Nil}
           f == [i \in 1 .. b - a |-> rbElements[a + i - 1]]
<1>1. n \in Nat /\ rbElements \in [0 .. n - 1 -> V] BY DEF RBInv, RBTypeOK
<1>2. b - a \in Nat /\ Slice(a, b) = f BY DEF Slice
<1>3. \A i \in 1 .. b - a : f[i] = rbElements[a + i - 1] /\ f[i] \in V BY <1>1
<1> HIDE DEF V
<1>4. f \in Seq(V) /\ Len(f) = b - a BY <1>2, <1>3
<1> QED BY <1>2, <1>3, <1>4 DEF V

\* ForEach goes through the slots as they are numbered.
LEMMA ForEachIsContents == RBInv => ForEach = Contents
<1> SUFFICES ASSUME RBInv PROVE ForEach = Contents OBVIOUS
<1> DEFINE n == Cap(rbElements)
           V == RBValues \cup {Nil}
           len == RBLen
           slot(i) == Slot(n, rbHead, i)
<1>1. /\ n \in Nat /\ n >= 2 /\ rbElements \in [0 .. n - 1 -> V]
      /\ rbHead \in 0 .. n - 1 /\ rbTail \in 0 .. n - 1
  BY DEF RBInv, RBTypeOK
<1>2. /\ len \in 0 .. n - 1 /\ Contents \in Seq(V) /\ Len(Contents) = len
      /\ \A i \in 1 .. len : Contents[i] = rbElements[slot(i)]
  <2>1. Contents \in Seq(RBValues) /\ RBValues \subseteq V BY BufferFacts
  <2> HIDE DEF V
  <2> QED BY <2>1, BufferFacts, SeqMonotonic
<1>3. len = IF rbHead <= rbTail THEN rbTail - rbHead ELSE n - rbHead + rbTail BY DEF RBLen
<1>4. ASSUME NEW a \in Nat, NEW b \in Nat, a <= b, b <= n
      PROVE  /\ Slice(a, b) \in Seq(V) /\ Len(Slice(a, b)) = b - a
             /\ \A i \in 1 .. b - a : Slice(a, b)[i] = rbElements[a + i - 1]
  BY <1>4, SliceIs
<1>5. CASE rbHead < rbTail
  <2>1. /\ Slice(rbHead, rbTail) \in Seq(V) /\ Len(Slice(rbHead, rbTail)) = rbTail - rbHead
        /\ \A i \in 1 .. rbTail - rbHead : Slice(rbHead, rbTail)[i] = rbElements[rbHead + i - 1]
    <3>1. rbHead \in Nat /\ rbTail \in Nat /\ rbHead <= rbTail /\ rbTail <= n BY <1>1, <1>5
    <3> HIDE DEF n, V
    <3> QED BY <1>4, <3>1
  <2>2. len = rbTail - rbHead /\ \A i \in 1 .. len : slot(i) = rbHead + i - 1 BY <1>1, <1>3, <1>5 DEF Slot
  <2>3. ForEach = Slice(rbHead, rbTail) BY <1>5 DEF ForEach
  <2> HIDE DEF n, V, len, slot
  <2>4. \A i \in 1 .. Len(Contents) : Contents[i] = Slice(rbHead, rbTail)[i] BY <1>2, <2>1, <2>2
  <2>5. Contents = Slice(rbHead, rbTail) BY <1>2, <2>1, <2>2, <2>4, SeqEqual
  <2> QED BY <2>3, <2>5
<1>6. CASE rbHead = rbTail
  <2>1. len = 0 BY <1>1, <1>3, <1>6
  <2>2. ForEach = <<>> BY <1>1, <1>6, <2>1 DEF ForEach
  <2> HIDE DEF n, V, len, slot
  <2>3. Contents = <<>> BY <1>2, <2>1, EmptySeq
  <2> QED BY <2>2, <2>3
<1>7. CASE rbTail < rbHead
  <2> DEFINE s == Slice(rbHead, n)
             u == Slice(0, rbTail)
  <2>1. /\ s \in Seq(V) /\ Len(s) = n - rbHead /\ u \in Seq(V) /\ Len(u) = rbTail
        /\ \A i \in 1 .. n - rbHead : s[i] = rbElements[rbHead + i - 1]
        /\ \A i \in 1 .. rbTail : u[i] = rbElements[i - 1]
    <3>0. n \in Nat /\ rbHead \in Nat /\ rbTail \in Nat /\ 0 \in Nat /\ n <= n
             /\ rbHead <= n /\ rbTail <= n /\ 0 <= rbTail
      BY <1>1
    <3> HIDE DEF n, V
    <3>1. /\ s \in Seq(V) /\ Len(s) = n - rbHead
          /\ \A i \in 1 .. n - rbHead : s[i] = rbElements[rbHead + i - 1]
      BY <1>4, <3>0
    <3>2. /\ u \in Seq(V) /\ Len(u) = rbTail - 0
          /\ \A i \in 1 .. rbTail - 0 : u[i] = rbElements[0 + i - 1]
      BY <1>4, <3>0
    <3> QED BY <1>1, <3>1, <3>2
  <2>2. len = n - rbHead + rbTail /\ len # 0 BY <1>1, <1>3, <1>7
  <2>3. ForEach = s \o u BY <1>1, <1>7, <2>2 DEF ForEach
  <2> HIDE DEF n, V, s, u, len
  <2>4. /\ s \o u \in Seq(V) /\ Len(s \o u) = Len(s) + Len(u)
        /\ \A i \in 1 .. Len(s) + Len(u) : (s \o u)[i] = IF i <= Len(s) THEN s[i] ELSE u[i - Len(s)]
    BY <2>1, ConcatProperties
  <2>5. \A i \in 1 .. len : (s \o u)[i] = rbElements[slot(i)]
    <3> SUFFICES ASSUME NEW i \in 1 .. len PROVE (s \o u)[i] = rbElements[slot(i)] OBVIOUS
    <3>1. CASE i <= n - rbHead
      <4>1. (s \o u)[i] = s[i] BY <1>1, <2>1, <2>2, <2>4, <3>1
      <4>2. s[i] = rbElements[rbHead + i - 1] BY <1>1, <2>1, <2>2, <3>1
      <4>3. slot(i) = rbHead + i - 1 BY <1>1, <1>2, <3>1 DEF Slot
      <4> QED BY <4>1, <4>2, <4>3
    <3>2. CASE ~(i <= n - rbHead)
      <4>1. (s \o u)[i] = u[i - (n - rbHead)] BY <1>1, <2>1, <2>2, <2>4, <3>2
      <4>2. i - (n - rbHead) \in 1 .. rbTail BY <1>1, <1>2, <2>2, <3>2
      <4>3. u[i - (n - rbHead)] = rbElements[i - (n - rbHead) - 1] BY <2>1, <4>2
      <4>4. slot(i) = i - (n - rbHead) - 1 BY <1>1, <1>2, <3>2 DEF Slot
      <4> QED BY <4>1, <4>3, <4>4
    <3> QED BY <3>1, <3>2
  <2> HIDE DEF slot
  <2>6. Len(s \o u) = len /\ \A i \in 1 .. len : (s \o u)[i] = Contents[i]
    BY <1>1, <1>2, <2>1, <2>2, <2>4, <2>5
  <2>7. s \o u = Contents BY <1>2, <2>4, <2>6, SeqEqual
  <2> QED BY <2>3, <2>7
<1> QED BY <1>1, <1>5, <1>6, <1>7

\* The reverse of a concatenation.
LEMMA ReverseConcat ==
    ASSUME NEW V, NEW s \in Seq(V), NEW u \in Seq(V)
    PROVE  Reverse(s \o u) = Reverse(u) \o Reverse(s)
<1> DEFINE c == s \o u
           a == Reverse(s)
           b == Reverse(u)
<1>1. ASSUME NEW w \in Seq(V)
      PROVE  /\ Reverse(w) \in Seq(V) /\ Len(Reverse(w)) = Len(w)
             /\ \A i \in 1 .. Len(w) : Reverse(w)[i] = w[Len(w) - i + 1]
  <2>1. Len(w) \in Nat /\ \A i \in 1 .. Len(w) : w[Len(w) - i + 1] \in V BY <1>1
  <2>2. Reverse(w) = [i \in 1 .. Len(w) |-> w[(Len(w) - i) + 1]] BY DEF Reverse
  <2> QED BY <2>1, <2>2
<1>2. /\ c \in Seq(V) /\ Len(c) = Len(s) + Len(u) /\ Len(s) \in Nat /\ Len(u) \in Nat
      /\ \A i \in 1 .. Len(s) + Len(u) : c[i] = IF i <= Len(s) THEN s[i] ELSE u[i - Len(s)]
  BY ConcatProperties, LenProperties
<1>3. /\ a \in Seq(V) /\ Len(a) = Len(s) /\ \A i \in 1 .. Len(s) : a[i] = s[Len(s) - i + 1]
      /\ b \in Seq(V) /\ Len(b) = Len(u) /\ \A i \in 1 .. Len(u) : b[i] = u[Len(u) - i + 1]
  BY <1>1
<1> HIDE DEF a, b, c
<1>4. /\ Reverse(c) \in Seq(V) /\ Len(Reverse(c)) = Len(c)
      /\ \A i \in 1 .. Len(c) : Reverse(c)[i] = c[Len(c) - i + 1]
  BY <1>1, <1>2
<1>5. /\ b \o a \in Seq(V) /\ Len(b \o a) = Len(b) + Len(a)
      /\ \A i \in 1 .. Len(b) + Len(a) : (b \o a)[i] = IF i <= Len(b) THEN b[i] ELSE a[i - Len(b)]
  <2>1. a \in Seq(V) /\ b \in Seq(V) BY <1>3
  <2> QED BY <2>1, ConcatProperties
<1>6. ASSUME NEW i \in 1 .. Len(c) PROVE Reverse(c)[i] = (b \o a)[i]
  <2>1. Reverse(c)[i] = c[Len(c) - i + 1] /\ Len(c) - i + 1 \in 1 .. Len(s) + Len(u) BY <1>2, <1>4
  <2>2. CASE i <= Len(u)
    <3>1. Len(c) - i + 1 - Len(s) = Len(u) - i + 1 /\ ~(Len(c) - i + 1 <= Len(s)) BY <1>2, <2>2
    <3>2. c[Len(c) - i + 1] = u[Len(u) - i + 1] BY <1>2, <2>1, <3>1
    <3>3. (b \o a)[i] = b[i] /\ i \in 1 .. Len(u) BY <1>2, <1>3, <1>5, <2>2
    <3> QED BY <1>3, <2>1, <3>2, <3>3
  <2>3. CASE ~(i <= Len(u))
    <3>1. Len(c) - i + 1 = Len(s) - (i - Len(u)) + 1 /\ Len(c) - i + 1 <= Len(s) BY <1>2, <2>3
    <3>2. c[Len(c) - i + 1] = s[Len(s) - (i - Len(u)) + 1] BY <1>2, <2>1, <3>1
    <3>3. (b \o a)[i] = a[i - Len(u)] /\ i - Len(u) \in 1 .. Len(s) BY <1>2, <1>3, <1>5, <2>3
    <3> QED BY <1>3, <2>1, <3>2, <3>3
  <2> QED BY <2>2, <2>3
<1>7. Reverse(c) = b \o a
  <2> DEFINE r == Reverse(c)
             q == b \o a
  <2>1. r \in Seq(V) /\ q \in Seq(V) BY <1>4, <1>5
  <2>2. Len(r) = Len(q) BY <1>2, <1>3, <1>4, <1>5
  <2>3. \A i \in 1 .. Len(r) : r[i] = q[i] BY <1>4, <1>6
  <2> HIDE DEF r, q
  <2>4. r = q BY <2>1, <2>2, <2>3, SeqEqual
  <2> QED BY <2>4 DEF r, q
<1> QED BY <1>7 DEF a, b, c

\* What RingIterates says follows from the invariant.
LEMMA IteratesInOrder == RBInv => RingIterates
<1> SUFFICES ASSUME RBInv PROVE ForEachReverse = Reverse(Contents)
  BY ForEachIsContents DEF RBInv, OnlyLive, RingIterates
<1> DEFINE n == Cap(rbElements)
<1>1. n \in Nat /\ rbHead \in 0 .. n - 1 /\ rbTail \in 0 .. n - 1 BY DEF RBInv, RBTypeOK
<1>2. ForEach = Contents BY ForEachIsContents
<1>3. CASE rbHead < rbTail BY <1>2, <1>3 DEF ForEach, ForEachReverse
<1>4. CASE ~(rbHead < rbTail) /\ RBLen = 0
  <2>1. Contents = <<>> /\ ForEachReverse = <<>> BY <1>2, <1>4 DEF ForEach, ForEachReverse
  <2>2. Reverse(<<>>) = <<>> BY DEF Reverse
  <2> QED BY <2>1, <2>2
<1>5. CASE ~(rbHead < rbTail) /\ RBLen # 0
  <2>1. Slice(rbHead, n) \in Seq(RBValues \cup {Nil}) /\ Slice(0, rbTail) \in Seq(RBValues \cup {Nil})
    <3>1. /\ rbHead \in Nat /\ rbTail \in Nat /\ n \in Nat /\ 0 \in Nat
          /\ rbHead <= n /\ n <= n /\ 0 <= rbTail /\ rbTail <= n
      BY <1>1
    <3>2. Slice(rbHead, n) \in Seq(RBValues \cup {Nil}) BY <3>1, SliceIs
    <3>3. Slice(0, rbTail) \in Seq(RBValues \cup {Nil}) BY <3>1, SliceIs
    <3> QED BY <3>2, <3>3
  <2>2. Contents = Slice(rbHead, n) \o Slice(0, rbTail) BY <1>2, <1>5 DEF ForEach
  <2>3. ForEachReverse = Reverse(Slice(0, rbTail)) \o Reverse(Slice(rbHead, n))
    BY <1>5 DEF ForEachReverse
  <2> HIDE DEF n
  <2>4. Reverse(Slice(rbHead, n) \o Slice(0, rbTail)) =
            Reverse(Slice(0, rbTail)) \o Reverse(Slice(rbHead, n))
    BY <2>1, ReverseConcat
  <2> QED BY <2>2, <2>3, <2>4
<1> QED BY <1>3, <1>4, <1>5

\* NewRingBuffer: empty, with slots that hold nothing.
LEMMA RBInitInv == RBInit => RBInv /\ Contents = <<>>
<1> SUFFICES ASSUME NEW size \in RBSizes, NewRingBuffer(size) PROVE RBInv /\ Contents = <<>>
  BY DEF RBInit
<1> DEFINE n == IF size <= RINGBUFFER_MIN THEN RINGBUFFER_MIN ELSE size
<1>1. n \in Nat /\ n >= 2 BY RBAssumption
<1>2. rbElements = [i \in 0 .. n - 1 |-> Nil] /\ rbHead = 0 /\ rbTail = 0 BY DEF NewRingBuffer
<1> HIDE DEF n
<1>3. Cap(rbElements) = n BY <1>1, <1>2, CapOf
<1>4. RBTypeOK BY <1>1, <1>2, <1>3 DEF RBTypeOK
<1>5. OnlyLive BY <1>1, <1>2 DEF OnlyLive, LiveSlots
<1>6. RBInv BY <1>4, <1>5 DEF RBInv
<1>7. RBLen = 0 BY <1>2 DEF RBLen
<1>8. Contents \in Seq(RBValues) /\ Len(Contents) = 0 BY <1>6, <1>7, BufferFacts
<1> QED BY <1>6, <1>8, EmptySeq

\* What the elements are after a step, from where its slots are.
LEMMA NextContents ==
    ASSUME NEW n \in Nat, n >= 2, rbElements' \in [0 .. n - 1 -> RBValues \cup {Nil}],
           rbHead' \in 0 .. n - 1, rbTail' \in 0 .. n - 1
    PROVE  /\ Cap(rbElements') = n /\ RBTypeOK'
           /\ Contents' \in Seq(RBValues \cup {Nil})
           /\ Len(Contents') = LenOf(n, rbHead', rbTail')
           /\ \A i \in 1 .. LenOf(n, rbHead', rbTail') :
                Contents'[i] = rbElements'[Slot(n, rbHead', i)]
<1> DEFINE V == RBValues \cup {Nil}
           e == rbElements'
           h == rbHead'
           t == rbTail'
           c == View(e, h, t)
<1>1. e \in [0 .. n - 1 -> V] /\ h \in 0 .. n - 1 /\ t \in 0 .. n - 1 OBVIOUS
<1>2. Cap(e) = n BY CapOf
<1>3. RBTypeOK' BY <1>2 DEF RBTypeOK
<1>4. Contents' = c BY ContentsIsView
<1> HIDE DEF V, e, h, t
<1>5. LenOf(n, h, t) \in 0 .. n - 1 BY <1>1, ViewIs
<1>6. c \in Seq(V) BY <1>1, ViewIs
<1>7. Len(c) = LenOf(n, h, t) BY <1>1, <1>5, <1>6, ViewIs
<1>8. \A i \in 1 .. LenOf(n, h, t) : c[i] = e[Slot(n, h, i)]
  <2>1. ASSUME NEW ee \in [0 .. n - 1 -> V], NEW hh \in 0 .. n - 1, NEW tt \in 0 .. n - 1
        PROVE  \A i \in 1 .. LenOf(n, hh, tt) : View(ee, hh, tt)[i] = ee[Slot(n, hh, i)]
    <3> TAKE i \in 1 .. LenOf(n, hh, tt)
    <3> QED BY ViewElement, ZenonT(60)
  <2> QED BY <1>1, <2>1, Zenon
<1> HIDE DEF c
<1> QED BY <1>2, <1>3, <1>4, <1>6, <1>7, <1>8 DEF V, e, h, t

\* Push into a ring with room.
LEMMA PushStep ==
    ASSUME RBInv, NEW v \in RBValues, Push(v), ~IsFull
    PROVE  RBInv' /\ Contents' = Append(Contents, v)
<1> DEFINE n == Cap(rbElements)
           h == rbHead
           t == rbTail
           u == IF t + 1 < n THEN t + 1 ELSE 0
           len == RBLen
           V == RBValues \cup {Nil}
<1>1. /\ n \in Nat /\ n >= 2 /\ rbElements \in [0 .. n - 1 -> V] /\ h \in 0 .. n - 1 /\ t \in 0 .. n - 1
      /\ len \in 0 .. n - 1 /\ len = LenOf(n, h, t)
      /\ Contents \in Seq(RBValues) /\ Len(Contents) = len
      /\ \A i \in 1 .. len : Contents[i] = rbElements[Slot(n, h, i)]
  BY BufferFacts
<1>2. (t + 1) % n = u
  <2> DEFINE a == t + 1
  <2>1. n \in Nat /\ n # 0 /\ a \in Nat /\ a < 2 * n BY <1>1
  <2> HIDE DEF a, n
  <2>2. a % n = IF a < n THEN a ELSE a - n BY <2>1, OneTurn, Zenon
  <2> QED BY <1>1, <2>2 DEF a
<1>3. u # h BY <1>2 DEF IsFull
<1>4. /\ rbElements' = [rbElements EXCEPT ![t] = v]
      /\ rbTail' = u /\ rbHead' = h
  BY <1>2 DEF Push
<1>5. /\ rbElements' \in [0 .. n - 1 -> V] /\ rbHead' \in 0 .. n - 1 /\ rbTail' \in 0 .. n - 1
      /\ rbElements'[t] = v /\ \A i \in 0 .. n - 1 : i # t => rbElements'[i] = rbElements[i]
  BY <1>1, <1>4
<1>6. LenOf(n, h, u) = len + 1
  <2> HIDE DEF n, h, t, len
  <2> QED BY <1>1, <1>3 DEF LenOf
<1>7. /\ \A i \in 1 .. len : Slot(n, h, i) \in 0 .. n - 1 /\ Slot(n, h, i) # t
      /\ Slot(n, h, len + 1) = t
  <2>1. len = IF h <= t THEN t - h ELSE n - h + t BY <1>1 DEF LenOf
  <2> HIDE DEF n, h, t, len
  <2> QED BY <1>1, <2>1 DEF Slot
<1>8. /\ Cap(rbElements') = n /\ RBTypeOK' /\ Contents' \in Seq(V) /\ Len(Contents') = len + 1
      /\ \A i \in 1 .. len + 1 : Contents'[i] = rbElements'[Slot(n, h, i)]
  <2>1. rbHead' = h /\ rbTail' = u BY <1>4
  <2> HIDE DEF n, h, t, u, len
  <2> QED BY <1>1, <1>5, <1>6, <2>1, NextContents DEF V
<1>9. OnlyLive'
  <2>1. DOMAIN rbElements' = 0 .. n - 1 BY <1>5
  <2>2. LiveSlots' = IF h <= u THEN h .. u - 1 ELSE (h .. n - 1) \cup (0 .. u - 1)
    BY <1>4, <1>8 DEF LiveSlots
  <2>3. LiveSlots = IF h <= t THEN h .. t - 1 ELSE (h .. n - 1) \cup (0 .. t - 1) BY DEF LiveSlots
  <2>4. \A i \in 0 .. n - 1 : i \in LiveSlots' <=> i \in LiveSlots \/ i = t
    <3> HIDE DEF n, h, t
    <3> QED BY <1>1, <1>3, <2>2, <2>3
  <2>5. \A i \in 0 .. n - 1 : (rbElements[i] # Nil) = (i \in LiveSlots) BY <1>1 DEF RBInv, OnlyLive
  <2>6. v # Nil BY RBAssumption
  <2> HIDE DEF n, h, t
  <2>7. ASSUME NEW i \in 0 .. n - 1 PROVE (rbElements'[i] # Nil) = (i \in LiveSlots')
    BY <1>5, <2>4, <2>5, <2>6
  <2> QED BY <2>1, <2>7 DEF OnlyLive
<1>10. Contents' = Append(Contents, v)
  <2>1. /\ Append(Contents, v) \in Seq(RBValues) /\ Len(Append(Contents, v)) = len + 1
        /\ \A i \in 1 .. len : Append(Contents, v)[i] = Contents[i]
        /\ Append(Contents, v)[len + 1] = v
    <3> HIDE DEF len
    <3> QED BY <1>1, AppendProperties
  <2> DEFINE a == Append(Contents, v)
  <2>2. a \in Seq(V) BY <2>1, SeqMonotonic
  <2> HIDE DEF a, V, n, h, t, len
  <2>3. ASSUME NEW i \in 1 .. len + 1 PROVE Contents'[i] = a[i]
    <3>1. CASE i = len + 1 BY <1>5, <1>7, <1>8, <2>1, <3>1 DEF a
    <3>2. CASE i # len + 1
      <4>1. i \in 1 .. len BY <1>1, <3>2
      <4> QED BY <1>1, <1>5, <1>7, <1>8, <2>1, <4>1 DEF a
    <3> QED BY <3>1, <3>2
  <2>4. Contents' = a BY <1>8, <2>1, <2>2, <2>3, SeqEqual DEF a
  <2> QED BY <2>4 DEF a
<1> QED BY <1>8, <1>9, <1>10 DEF RBInv

\* Push into a full ring: grow moves the elements to the start of a larger slice.
LEMMA PushGrowStep ==
    ASSUME RBInv, NEW v \in RBValues, Push(v), IsFull
    PROVE  RBInv' /\ Contents' = Append(Contents, v)
<1> DEFINE n == Cap(rbElements)
           m == GrownSize(n)
           h == rbHead
           t == rbTail
           len == RBLen
           V == RBValues \cup {Nil}
<1>1. /\ n \in Nat /\ n >= 2 /\ h \in 0 .. n - 1 /\ t \in 0 .. n - 1
      /\ len \in 0 .. n - 1 /\ len = LenOf(n, h, t)
      /\ Contents \in Seq(RBValues) /\ Len(Contents) = len
  BY BufferFacts
<1>2. len + 1 = n
  <2> DEFINE a == t + 1
  <2>1. n \in Nat /\ n # 0 /\ a \in Nat /\ a < 2 * n BY <1>1
  <2>2. a % n = h BY DEF IsFull
  <2> HIDE DEF a, n, len
  <2>3. a % n = IF a < n THEN a ELSE a - n BY <2>1, OneTurn, Zenon
  <2> QED BY <1>1, <2>2, <2>3 DEF a, LenOf
<1>3. m \in Nat /\ m > n
  <2> HIDE DEF n
  <2>1. RINGBUFFER_MIN \in Nat /\ RINGBUFFER_EXP \in Nat BY RBAssumption
  <2>2. (n + 9) \div 10 \in Nat /\ (n + 9) \div 10 >= 1 BY <1>1
  <2> QED BY <1>1, <2>1, <2>2 DEF GrownSize
<1>4. /\ DOMAIN Grown = 0 .. m - 1 /\ Grown \in [0 .. m - 1 -> V]
      /\ \A i \in 0 .. m - 1 : Grown[i] = IF i < len THEN Contents[i + 1] ELSE Nil
  <2>1. Grown = [i \in 0 .. m - 1 |-> IF i < len THEN Contents[i + 1] ELSE Nil]
    BY ForEachIsContents DEF Grown
  <2> HIDE DEF m, len
  <2>2. \A i \in 0 .. m - 1 : i < len => Contents[i + 1] \in RBValues
    <3> SUFFICES ASSUME NEW i \in 0 .. m - 1, i < len PROVE Contents[i + 1] \in RBValues OBVIOUS
    <3>1. i + 1 \in 1 .. Len(Contents) BY <1>1, <1>3
    <3> QED BY <1>1, <3>1, ElementOfSeq
  <2> QED BY <2>1, <2>2
<1>5. /\ rbElements' = [Grown EXCEPT ![len] = v] /\ rbTail' = n /\ rbHead' = 0
  <2>1. Cap(Grown) = m BY <1>3, <1>4, CapOf
  <2>2. n % m = n
    <3> HIDE DEF n, m
    <3>1. m # 0 /\ n < 2 * m BY <1>1, <1>3
    <3>2. n % m = IF n < m THEN n ELSE n - m BY <1>1, <1>3, <3>1, OneTurn
    <3> QED BY <1>1, <1>3, <3>2
  <2>3. rbElements' = [Grown EXCEPT ![len] = v] /\ rbTail' = (len + 1) % Cap(Grown) /\ rbHead' = 0
    BY DEF Push
  <2> QED BY <1>2, <2>1, <2>2, <2>3
<1> HIDE DEF m, len, n, h, t
<1>6. /\ rbElements' \in [0 .. m - 1 -> V] /\ rbHead' \in 0 .. m - 1 /\ rbTail' \in 0 .. m - 1
      /\ rbElements'[len] = v
      /\ \A i \in 0 .. m - 1 : i # len => rbElements'[i] = IF i < len THEN Contents[i + 1] ELSE Nil
  BY <1>1, <1>2, <1>3, <1>4, <1>5
<1>7. LenOf(m, rbHead', rbTail') = n /\ \A i \in 1 .. n : Slot(m, rbHead', i) = i - 1
  BY <1>1, <1>3, <1>5 DEF LenOf, Slot
<1>8. /\ Cap(rbElements') = m /\ RBTypeOK' /\ Contents' \in Seq(V) /\ Len(Contents') = n
      /\ \A i \in 1 .. n : Contents'[i] = rbElements'[i - 1]
  <2>1. m >= 2 BY <1>1, <1>3
  <2>2. /\ Cap(rbElements') = m /\ RBTypeOK' /\ Contents' \in Seq(V)
        /\ Len(Contents') = LenOf(m, rbHead', rbTail')
        /\ \A i \in 1 .. LenOf(m, rbHead', rbTail') : Contents'[i] = rbElements'[Slot(m, rbHead', i)]
    BY <1>3, <1>6, <2>1, NextContents DEF V
  <2> QED BY <1>7, <2>2
<1>9. OnlyLive'
  <2>1. DOMAIN rbElements' = 0 .. m - 1 BY <1>6
  <2>2. LiveSlots' = 0 .. n - 1 BY <1>1, <1>5 DEF LiveSlots
  <2>3. v # Nil /\ Nil \notin RBValues BY RBAssumption
  <2>4. ASSUME NEW i \in 0 .. m - 1 PROVE (rbElements'[i] # Nil) = (i \in LiveSlots')
    <3>1. CASE i < len
      <4>1. i + 1 \in 1 .. Len(Contents) BY <1>1, <1>3, <3>1
      <4>2. Contents[i + 1] \in RBValues BY <1>1, <4>1, ElementOfSeq
      <4>3. i # len /\ i \in 0 .. n - 1 BY <1>1, <1>2, <1>3, <3>1
      <4> QED BY <1>6, <2>2, <2>3, <3>1, <4>2, <4>3
    <3>2. CASE i = len
      <4>1. i \in 0 .. n - 1 BY <1>1, <1>2, <3>2
      <4> QED BY <1>6, <2>2, <2>3, <3>2, <4>1
    <3>3. CASE i > len
      <4>1. i # len /\ ~(i < len) /\ i \notin 0 .. n - 1 BY <1>1, <1>2, <1>3, <3>3
      <4> QED BY <1>6, <2>2, <4>1
    <3> QED BY <1>1, <1>3, <3>1, <3>2, <3>3
  <2> QED BY <2>1, <2>4 DEF OnlyLive
<1>10. Contents' = Append(Contents, v)
  <2> DEFINE a == Append(Contents, v)
  <2>1. /\ a \in Seq(RBValues) /\ Len(a) = len + 1
        /\ \A i \in 1 .. len : a[i] = Contents[i]
        /\ a[len + 1] = v
    BY <1>1, AppendProperties
  <2> HIDE DEF a
  <2>2. a \in Seq(V) BY <2>1, SeqMonotonic
  <2> HIDE DEF V
  <2>3. ASSUME NEW i \in 1 .. n PROVE Contents'[i] = a[i]
    <3>1. CASE i = n
      <4>1. i - 1 = len BY <1>1, <1>2, <3>1
      <4> QED BY <1>2, <1>6, <1>8, <2>1, <3>1, <4>1
    <3>2. CASE i # n
      <4>1. i - 1 \in 0 .. m - 1 /\ i - 1 # len /\ i - 1 < len /\ i - 1 + 1 = i /\ i \in 1 .. len
        BY <1>1, <1>2, <1>3, <3>2
      <4>2. rbElements'[i - 1] = Contents[i] BY <1>6, <4>1
      <4> QED BY <1>8, <2>1, <4>1, <4>2
    <3> QED BY <3>1, <3>2
  <2>4. Contents' = a BY <1>2, <1>8, <2>1, <2>2, <2>3, SeqEqual
  <2> QED BY <2>4 DEF a
<1> QED BY <1>8, <1>9, <1>10 DEF RBInv

\* Clear, and Discard of everything.
LEMMA ClearStep ==
    ASSUME RBInv, rbElements' = Cleared, rbHead' = 0, rbTail' = 0
    PROVE  RBInv' /\ Contents' = <<>>
<1> DEFINE n == Cap(rbElements)
           V == RBValues \cup {Nil}
<1>1. n \in Nat /\ n >= 2 /\ rbElements \in [0 .. n - 1 -> V] BY BufferFacts
<1>2. \A i \in 0 .. n - 1 : (rbElements[i] # Nil) = (i \in LiveSlots) BY <1>1 DEF RBInv, OnlyLive
<1> HIDE DEF n, V
<1>3. rbElements' = [i \in 0 .. n - 1 |-> Nil] BY <1>1, <1>2 DEF Cleared
<1>4. /\ rbElements' \in [0 .. n - 1 -> RBValues \cup {Nil}]
      /\ rbHead' \in 0 .. n - 1 /\ rbTail' \in 0 .. n - 1
  BY <1>1, <1>3
<1>5. LenOf(n, rbHead', rbTail') = 0 BY DEF LenOf
<1>6. /\ Cap(rbElements') = n /\ RBTypeOK' /\ Contents' \in Seq(RBValues \cup {Nil})
      /\ Len(Contents') = LenOf(n, rbHead', rbTail')
  BY <1>1, <1>4, NextContents
<1>7. OnlyLive' BY <1>3 DEF OnlyLive, LiveSlots
<1>8. Contents' = <<>> BY <1>5, <1>6, EmptySeq
<1> QED BY <1>6, <1>7, <1>8 DEF RBInv

\* The first k slots lie behind the head, around the end of the slice if need be.
LEMMA FirstSlotsAre ==
    ASSUME RBInv, NEW k \in 0 .. RBLen, NEW i \in 0 .. Cap(rbElements) - 1
    PROVE  i \in FirstSlots(k) <=> IF rbHead + k <= Cap(rbElements) THEN rbHead <= i /\ i < rbHead + k
                                  ELSE rbHead <= i \/ i < rbHead + k - Cap(rbElements)
<1> DEFINE n == Cap(rbElements)
           h == rbHead
<1>1. n \in Nat /\ n >= 2 /\ h \in 0 .. n - 1 /\ k \in 0 .. n - 1 BY BufferFacts
<1>2. FirstSlots(k) = {(h + j) % n : j \in 0 .. k - 1} BY DEF FirstSlots
<1> HIDE DEF n, h
<1>3. \A j \in 0 .. k - 1 : (h + j) % n = IF h + j < n THEN h + j ELSE h + j - n
  <2> SUFFICES ASSUME NEW j \in 0 .. k - 1
               PROVE  (h + j) % n = IF h + j < n THEN h + j ELSE h + j - n
    OBVIOUS
  <2> DEFINE a == h + j
  <2>1. n \in Nat /\ n # 0 /\ a \in Nat /\ a < 2 * n BY <1>1
  <2> HIDE DEF a
  <2>2. a % n = IF a < n THEN a ELSE a - n BY <2>1, OneTurn, Zenon
  <2> QED BY <1>1, <2>2 DEF a
<1>4. i \in FirstSlots(k) <=> \E j \in 0 .. k - 1 : i = IF h + j < n THEN h + j ELSE h + j - n
  BY <1>2, <1>3
<1>5. i \in 0 .. n - 1 BY DEF n
<1>6. (\E j \in 0 .. k - 1 : i = IF h + j < n THEN h + j ELSE h + j - n) <=>
        IF h + k <= n THEN h <= i /\ i < h + k ELSE h <= i \/ i < h + k - n
  <2>1. ASSUME NEW j \in 0 .. k - 1, i = IF h + j < n THEN h + j ELSE h + j - n
        PROVE  IF h + k <= n THEN h <= i /\ i < h + k ELSE h <= i \/ i < h + k - n
    BY <1>1, <1>5, <2>1
  <2>2. ASSUME IF h + k <= n THEN h <= i /\ i < h + k ELSE h <= i \/ i < h + k - n
        PROVE  \E j \in 0 .. k - 1 : i = IF h + j < n THEN h + j ELSE h + j - n
    <3>1. CASE h <= i
      <4> DEFINE j == i - h
      <4>1. j \in 0 .. k - 1 /\ i = IF h + j < n THEN h + j ELSE h + j - n BY <1>1, <1>5, <2>2, <3>1
      <4> QED BY <4>1
    <3>2. CASE ~(h <= i)
      <4> DEFINE j == i - h + n
      <4>1. j \in 0 .. k - 1 /\ i = IF h + j < n THEN h + j ELSE h + j - n BY <1>1, <1>5, <2>2, <3>2
      <4> QED BY <4>1
    <3> QED BY <3>1, <3>2
  <2> QED BY <2>1, <2>2
<1> QED BY <1>4, <1>6 DEF n, h

\* Taking the first k elements out: Pop with one, Discard with fewer than there are.
LEMMA DropStep ==
    ASSUME RBInv, NEW k \in 0 .. RBLen, rbTail' = rbTail,
           rbHead' = (rbHead + k) % Cap(rbElements),
           rbElements' = [i \in DOMAIN rbElements |-> IF i \in FirstSlots(k) THEN Nil ELSE rbElements[i]]
    PROVE  RBInv' /\ Contents' = SubSeq(Contents, k + 1, Len(Contents))
<1> DEFINE n == Cap(rbElements)
           h == rbHead
           t == rbTail
           g == IF h + k < n THEN h + k ELSE h + k - n
           len == RBLen
           V == RBValues \cup {Nil}
<1>1. /\ n \in Nat /\ n >= 2 /\ rbElements \in [0 .. n - 1 -> V] /\ h \in 0 .. n - 1 /\ t \in 0 .. n - 1
      /\ len \in 0 .. n - 1 /\ len = LenOf(n, h, t)
      /\ Contents \in Seq(RBValues) /\ Len(Contents) = len
      /\ \A i \in 1 .. len : Contents[i] = rbElements[Slot(n, h, i)]
  BY BufferFacts
<1>2. rbHead' = g
  <2>1. n \in Nat /\ n # 0 /\ h \in 0 .. n - 1 /\ k \in 0 .. n - 1 BY <1>1
  <2>2. rbHead' = (h + k) % n OBVIOUS
  <2> HIDE DEF n, h
  <2>3. (h + k) % n = g BY <2>1, SlotsBehind, Zenon
  <2> HIDE DEF g
  <2> QED BY <2>2, <2>3
<1>3. \A i \in 0 .. n - 1 : i \in FirstSlots(k) <=>
         IF h + k <= n THEN h <= i /\ i < h + k ELSE h <= i \/ i < h + k - n
  BY FirstSlotsAre
<1>4. k \in 0 .. len OBVIOUS
<1>5. LiveSlots = IF h <= t THEN h .. t - 1 ELSE (h .. n - 1) \cup (0 .. t - 1) BY DEF LiveSlots
<1>6. \A i \in 0 .. n - 1 : (rbElements[i] # Nil) = (i \in LiveSlots) BY <1>1 DEF RBInv, OnlyLive
<1>7. /\ rbElements' \in [0 .. n - 1 -> V]
      /\ \A i \in 0 .. n - 1 : rbElements'[i] = IF i \in FirstSlots(k) THEN Nil ELSE rbElements[i]
  BY <1>1
<1>8. rbTail' = t OBVIOUS
<1> HIDE DEF n, h, t, len
<1>9. LenOf(n, g, t) = len - k /\ g \in 0 .. n - 1 BY <1>1, <1>4 DEF LenOf
<1>10. /\ Cap(rbElements') = n /\ RBTypeOK' /\ Contents' \in Seq(V) /\ Len(Contents') = len - k
       /\ \A i \in 1 .. len - k : Contents'[i] = rbElements'[Slot(n, g, i)]
  <2> HIDE DEF g
  <2>1. rbHead' \in 0 .. n - 1 /\ rbTail' \in 0 .. n - 1 BY <1>1, <1>2, <1>8, <1>9
  <2>2. /\ Cap(rbElements') = n /\ RBTypeOK' /\ Contents' \in Seq(V)
        /\ Len(Contents') = LenOf(n, rbHead', rbTail')
        /\ \A i \in 1 .. LenOf(n, rbHead', rbTail') : Contents'[i] = rbElements'[Slot(n, rbHead', i)]
    BY <1>1, <1>7, <2>1, NextContents DEF V
  <2> QED BY <1>2, <1>8, <1>9, <2>2
<1>11. OnlyLive'
  <2>1. DOMAIN rbElements' = 0 .. n - 1 BY <1>7
  <2>2. LiveSlots' = IF g <= t THEN g .. t - 1 ELSE (g .. n - 1) \cup (0 .. t - 1)
    BY <1>2, <1>8, <1>10 DEF LiveSlots
  <2>3. ASSUME NEW i \in 0 .. n - 1
        PROVE  i \in LiveSlots' <=> i \in LiveSlots /\ i \notin FirstSlots(k)
    <3>1. len = IF h <= t THEN t - h ELSE n - h + t BY <1>1 DEF LenOf
    <3>2. i \in FirstSlots(k) <=> IF h + k <= n THEN h <= i /\ i < h + k ELSE h <= i \/ i < h + k - n
      BY <1>3
    <3> DEFINE dropped == i \in FirstSlots(k)
    <3>3. h \in 0 .. n - 1 /\ t \in 0 .. n - 1 /\ n \in Nat /\ k \in 0 .. len BY <1>1, <1>4
    <3> HIDE DEF dropped
    <3>4. dropped <=> IF h + k <= n THEN h <= i /\ i < h + k ELSE h <= i \/ i < h + k - n
      BY <3>2 DEF dropped
    <3>5. CASE h <= t
      <4>1. len = t - h /\ LiveSlots = h .. t - 1 BY <1>5, <3>1, <3>5
      <4>2. g = h + k /\ g <= t /\ h + k <= n BY <3>3, <3>5, <4>1
      <4>3. LiveSlots' = g .. t - 1 BY <2>2, <4>2
      <4>4. dropped <=> h <= i /\ i < h + k BY <3>4, <4>2
      <4>5. i \in h + k .. t - 1 <=> i \in h .. t - 1 /\ ~dropped BY <3>3, <4>4
      <4> QED BY <4>1, <4>2, <4>3, <4>5 DEF dropped
    <3>6. CASE ~(h <= t) /\ h + k < n
      <4>1. LiveSlots = (h .. n - 1) \cup (0 .. t - 1) BY <1>5, <3>6
      <4>2. g = h + k /\ ~(g <= t) /\ h + k <= n BY <3>3, <3>6
      <4>3. LiveSlots' = (g .. n - 1) \cup (0 .. t - 1) BY <2>2, <4>2
      <4>4. dropped <=> h <= i /\ i < h + k BY <3>4, <4>2
      <4>5. i \in (h + k .. n - 1) \cup (0 .. t - 1) <=> i \in (h .. n - 1) \cup (0 .. t - 1) /\ ~dropped
        BY <3>3, <3>6, <4>4
      <4> QED BY <4>1, <4>2, <4>3, <4>5 DEF dropped
    <3>7. CASE ~(h <= t) /\ ~(h + k < n)
      <4>1. LiveSlots = (h .. n - 1) \cup (0 .. t - 1) /\ len = n - h + t BY <1>5, <3>1, <3>7
      <4>2. g = h + k - n /\ g <= t /\ g \in Nat BY <3>3, <3>7, <4>1
      <4>3. LiveSlots' = g .. t - 1 BY <2>2, <4>2
      <4>4. dropped <=> h <= i \/ i < h + k - n BY <3>3, <3>4, <3>7
      <4>5. i \in h + k - n .. t - 1 <=> i \in (h .. n - 1) \cup (0 .. t - 1) /\ ~dropped
        BY <3>3, <3>7, <4>2, <4>4
      <4> QED BY <4>1, <4>2, <4>3, <4>5 DEF dropped
    <3> QED BY <3>5, <3>6, <3>7
  <2>4. ASSUME NEW i \in 0 .. n - 1 PROVE (rbElements'[i] # Nil) = (i \in LiveSlots')
    BY <1>6, <1>7, <2>3
  <2> QED BY <2>1, <2>4 DEF OnlyLive
<1>12. Contents' = SubSeq(Contents, k + 1, Len(Contents))
  <2> DEFINE s == SubSeq(Contents, k + 1, len)
  <2>1. \A i \in k + 1 .. len : Contents[i] \in RBValues
    <3> SUFFICES ASSUME NEW i \in k + 1 .. len PROVE Contents[i] \in RBValues OBVIOUS
    <3>1. i \in 1 .. Len(Contents) BY <1>1, <1>4
    <3> QED BY <1>1, <3>1, ElementOfSeq
  <2>2. k + 1 \in Int /\ len \in Int /\ (IF k + 1 <= len THEN len - (k + 1) + 1 ELSE 0) = len - k
        /\ len - (k + 1) + 1 = len - k
    BY <1>1, <1>4
  <2>3. /\ s \in Seq(RBValues) /\ Len(s) = IF k + 1 <= len THEN len - (k + 1) + 1 ELSE 0
        /\ \A i \in 1 .. len - (k + 1) + 1 : s[i] = Contents[k + 1 + i - 1]
    BY <2>1, <2>2, SubSeqProperties
  <2> HIDE DEF s
  <2>4. s \in Seq(V) BY <2>3, SeqMonotonic
  <2>5. ASSUME NEW i \in 1 .. len - k PROVE Contents'[i] = s[i]
    <3>1. k + 1 + i - 1 = k + i /\ k + i \in 1 .. len BY <1>1, <1>4
    <3>2. s[i] = Contents[k + i] BY <2>2, <2>3, <3>1
    <3>3. Contents[k + i] = rbElements[Slot(n, h, k + i)] BY <1>1, <3>1
    <3>4. Slot(n, g, i) = Slot(n, h, k + i) BY <1>1, <1>4, <3>1 DEF Slot
    <3>5. Slot(n, h, k + i) \in 0 .. n - 1 /\ Slot(n, h, k + i) \notin FirstSlots(k)
      <4> DEFINE x == Slot(n, h, k + i)
      <4>a. n \in Nat /\ h \in 0 .. n - 1 /\ k \in Nat /\ i \in Nat /\ i > 0 /\ k + i <= n
        BY <1>1, <1>4, <3>1
      <4>b. x = IF h + (k + i) - 1 < n THEN h + (k + i) - 1 ELSE h + (k + i) - 1 - n BY DEF Slot
      <4>c. h + (k + i) - 1 = h + k + i - 1 BY <4>a
      <4>1. x \in 0 .. n - 1 /\ x = IF h + k + i - 1 < n THEN h + k + i - 1 ELSE h + k + i - 1 - n
        BY <4>a, <4>b, <4>c
      <4> HIDE DEF x
      <4>2. ~(IF h + k <= n THEN h <= x /\ x < h + k ELSE h <= x \/ x < h + k - n)
        BY <1>1, <1>4, <3>1, <4>1
      <4>3. x \notin FirstSlots(k) BY <1>3, <4>1, <4>2
      <4> QED BY <4>1, <4>3 DEF x
    <3> HIDE DEF g
    <3>6. Contents'[i] = rbElements'[Slot(n, g, i)] BY <1>10
    <3>7. rbElements'[Slot(n, h, k + i)] = rbElements[Slot(n, h, k + i)] BY <1>7, <3>5
    <3> QED BY <3>2, <3>3, <3>4, <3>6, <3>7
  <2> HIDE DEF V
  <2>6. Len(s) = len - k BY <2>2, <2>3
  <2>7. Contents' = s BY <1>10, <2>4, <2>5, <2>6, SeqEqual
  <2> QED BY <1>1, <2>7 DEF s
<1> QED BY <1>10, <1>11, <1>12 DEF RBInv

\* Every operation of the ring is one of the queue, and keeps the invariant.
LEMMA RingStep ==
    ASSUME RBInv, [RBNext]_rbVars
    PROVE  RBInv' /\ [Queue!FFNext]_(Queue!ffVars)
<1>1. Contents \in Seq(RBValues) /\ Len(Contents) = RBLen /\ RBLen \in Nat BY BufferFacts
<1>2. ASSUME NEW v \in RBValues, Push(v) PROVE RBInv' /\ Queue!FFNext
  <2>1. RBInv' /\ Contents' = Append(Contents, v) BY <1>2, PushStep, PushGrowStep
  <2>2. rbOut' = Nil BY <1>2 DEF Push
  <2>3. Queue!FFPush(v) BY <2>1, <2>2 DEF Queue!FFPush
  <2> QED BY <2>1, <2>3 DEF Queue!FFNext
<1>3. RBLen = 0 <=> Contents = <<>> BY <1>1, EmptySeq
<1>4. RBLen # 0 => rbElements[rbHead] = Head(Contents)
  <2> SUFFICES ASSUME RBLen # 0 PROVE rbElements[rbHead] = Head(Contents) OBVIOUS
  <2>1. 1 \in 1 .. RBLen BY <1>1
  <2>2. Contents[1] = rbElements[Slot(Cap(rbElements), rbHead, 1)] BY <2>1, BufferFacts
  <2>3. Slot(Cap(rbElements), rbHead, 1) = rbHead BY BufferFacts DEF Slot
  <2> QED BY <1>1, <1>3, <2>2, <2>3
<1>5. ASSUME UNCHANGED <<rbHead, rbTail, rbElements>> PROVE RBInv' /\ Contents' = Contents
  BY <1>5 DEF RBInv, RBTypeOK, OnlyLive, LiveSlots, Contents, RBLen
<1>6. CASE RBPop
  <2>1. CASE RBLen = 0
    <3>1. UNCHANGED <<rbHead, rbTail, rbElements>> /\ rbOut' = Failed BY <1>6, <2>1 DEF RBPop
    <3>2. RBInv' /\ Contents' = Contents BY <1>5, <3>1
    <3>3. Queue!FFPop BY <1>3, <2>1, <3>1, <3>2 DEF Queue!FFPop
    <3> QED BY <3>2, <3>3 DEF Queue!FFNext
  <2>2. CASE RBLen # 0
    <3>1. /\ rbOut' = rbElements[rbHead] /\ rbElements' = [rbElements EXCEPT ![rbHead] = Nil]
          /\ rbHead' = (rbHead + 1) % Cap(rbElements) /\ rbTail' = rbTail
      BY <1>6, <2>2 DEF RBPop
    <3>2. 1 \in 0 .. RBLen BY <1>1, <2>2
    <3>3. \A i \in 0 .. Cap(rbElements) - 1 : i \in FirstSlots(1) <=> i = rbHead
      <4> SUFFICES ASSUME NEW i \in 0 .. Cap(rbElements) - 1
                   PROVE  i \in FirstSlots(1) <=> i = rbHead
        OBVIOUS
      <4> DEFINE n == Cap(rbElements)
      <4>1. i \in FirstSlots(1) <=> IF rbHead + 1 <= n THEN rbHead <= i /\ i < rbHead + 1
                                   ELSE rbHead <= i \/ i < rbHead + 1 - n
        BY <3>2, FirstSlotsAre
      <4>2. n \in Nat /\ rbHead \in 0 .. n - 1 BY BufferFacts
      <4> HIDE DEF n
      <4> QED BY <4>1, <4>2
    <3>4. rbElements' = [i \in DOMAIN rbElements |-> IF i \in FirstSlots(1) THEN Nil ELSE rbElements[i]]
      <4>1. DOMAIN rbElements = 0 .. Cap(rbElements) - 1 BY BufferFacts
      <4> QED BY <3>1, <3>3, <4>1
    <3>5. RBInv' /\ Contents' = SubSeq(Contents, 2, Len(Contents))
      <4>1. RBInv' /\ Contents' = SubSeq(Contents, 1 + 1, Len(Contents))
        BY <3>1, <3>2, <3>4, DropStep
      <4> QED BY <4>1
    <3>6. Contents' = Tail(Contents) /\ Contents # <<>> BY <1>1, <1>3, <2>2, <3>5, TailIsSubSeq
    <3>7. Queue!FFPop BY <1>4, <2>2, <3>1, <3>6 DEF Queue!FFPop
    <3> QED BY <3>5, <3>7 DEF Queue!FFNext
  <2> QED BY <2>1, <2>2
<1>7. CASE Peek
  <2>1. RBInv' /\ Contents' = Contents BY <1>5, <1>7 DEF Peek
  <2>2. Queue!FFPeek BY <1>3, <1>4, <1>7, <2>1 DEF Peek, Queue!FFPeek
  <2> QED BY <2>1, <2>2 DEF Queue!FFNext
<1>8. CASE Clear
  <2>1. RBInv' /\ Contents' = <<>> BY <1>8, ClearStep DEF Clear
  <2>2. Queue!FFClear BY <1>8, <2>1 DEF Clear, Queue!FFClear
  <2> QED BY <2>1, <2>2 DEF Queue!FFNext
<1>9. ASSUME NEW d \in 0 .. RBMaxSize, Discard(d) PROVE RBInv' /\ Queue!FFNext
  <2> DEFINE k == IF d < RBLen THEN d ELSE RBLen
  <2>1. d \in Nat BY RBAssumption
  <2>2. k \in 0 .. RBLen BY <1>1, <2>1
  <2>3. rbOut' = [discarded |-> k] BY <1>9 DEF Discard
  <2>4. RBInv' /\ Contents' = SubSeq(Contents, k + 1, Len(Contents))
    <3>1. CASE k = RBLen
      <4>1. rbElements' = Cleared /\ rbHead' = 0 /\ rbTail' = 0 BY <1>9, <3>1 DEF Discard
      <4>2. RBInv' /\ Contents' = <<>> BY <4>1, ClearStep
      <4>3. SubSeq(Contents, k + 1, Len(Contents)) = <<>>
        <5>1. k + 1 \in Int /\ Len(Contents) \in Int /\ Len(Contents) < k + 1 BY <1>1, <3>1
        <5> HIDE DEF k
        <5> QED BY <5>1, SubSeqEmpty
      <4> QED BY <4>2, <4>3
    <3>2. CASE k # RBLen
      <4>1. /\ rbElements' = [i \in DOMAIN rbElements |-> IF i \in FirstSlots(k) THEN Nil ELSE rbElements[i]]
            /\ rbHead' = (rbHead + k) % Cap(rbElements) /\ rbTail' = rbTail
        BY <1>9, <3>2 DEF Discard
      <4> HIDE DEF k
      <4> QED BY <2>2, <4>1, DropStep
    <3> QED BY <3>1, <3>2
  <2> HIDE DEF k
  <2>5. k \in 0 .. Len(Contents) BY <1>1, <2>2
  <2>6. Queue!FFDiscard(k) BY <2>3, <2>4 DEF Queue!FFDiscard
  <2> QED BY <2>4, <2>5, <2>6 DEF Queue!FFNext
<1>10. CASE UNCHANGED rbVars
  <2>1. RBInv' /\ Contents' = Contents BY <1>5, <1>10 DEF rbVars
  <2>2. UNCHANGED Queue!ffVars BY <1>10, <2>1 DEF rbVars, Queue!ffVars
  <2> QED BY <2>1, <2>2
<1> QED BY <1>2, <1>6, <1>7, <1>8, <1>9, <1>10 DEF RBNext

\* The ring buffer is a queue: every Push, Pop, Peek, Discard and Clear of go/range, with the
\* growing behind it, does what the same call of a sequence does.
THEOREM RingImplementsFifo == RBSpec => RingIsFifo
<1>1. RBInit => RBInv /\ Queue!FFInit BY RBInitInv DEF RBInit, NewRingBuffer, Queue!FFInit
<1>2. RBInv /\ [RBNext]_rbVars => RBInv' /\ [Queue!FFNext]_(Queue!ffVars) BY RingStep
<1> QED BY <1>1, <1>2, PTL DEF RBSpec, RingIsFifo, Queue!FFSpec

\* ForEach and ForEachReverse visit what is in the ring, in order and against it, and the
\* slots outside it hold no reference.
THEOREM RingIteratesInOrder == RBSpec => []RingIterates
<1>1. RBInit => RBInv BY RBInitInv
<1>2. RBInv /\ [RBNext]_rbVars => RBInv' BY RingStep
<1>3. RBInv => RingIterates BY IteratesInOrder
<1> QED BY <1>1, <1>2, <1>3, PTL DEF RBSpec

-----------------------------------------------------------------------------
(* The linked containers: what the loops along the pointers meet.          *)

\* A nonempty set of natural numbers has a least element.
LEMMA LeastNumber ==
    ASSUME NEW T \in SUBSET Nat, T # {}
    PROVE  \E n \in T : \A l \in T : n <= l
<1>1. PICK n \in T : \A l \in T : ~(<<l, n>> \in OpToRel(<, Nat)) BY NatLessThanWellFounded, WFMin
<1>2. ASSUME NEW l \in T PROVE n <= l
  <2>1. ~(l < n) BY <1>1 DEF OpToRel
  <2> QED BY <2>1
<1> QED BY <1>2

\* One more in front.
LEMMA ConsIs ==
    ASSUME NEW S, NEW s \in Seq(S), NEW x \in S
    PROVE  <<x>> \o s = [k \in 1 .. Len(s) + 1 |-> IF k = 1 THEN x ELSE s[k - 1]]
<1> DEFINE t == <<x>> \o s
           u == [k \in 1 .. Len(s) + 1 |-> IF k = 1 THEN x ELSE s[k - 1]]
<1>1. t \in Seq(S) /\ Len(t) = Len(s) + 1 /\ Len(s) \in Nat OBVIOUS
<1>2. \A k \in 1 .. Len(s) + 1 : t[k] = u[k] OBVIOUS
<1> QED BY <1>1, <1>2

\* A function on the first p numbers is a sequence.
LEMMA FunctionIsSeq ==
    ASSUME NEW S, NEW p \in Nat, NEW g \in [1 .. p -> S]
    PROVE  g \in Seq(S) /\ Len(g) = p
OBVIOUS

\* What the elements of a sequence are.
LEMMA SeqElements ==
    ASSUME NEW S, NEW s \in Seq(S)
    PROVE  /\ \A a \in 1 .. Len(s) : s[a] \in S
           /\ Len(s) \in Nat /\ (s = <<>> <=> Len(s) = 0)
OBVIOUS

\* The nodes of c follow one another along nx, and the last one is followed by none.
Follows(c, nx) ==
    /\ \A i \in 1 .. Len(c) - 1 : nx[c[i]] = c[i + 1]
    /\ nx[c[Len(c)]] = 0

\* The recursion along the pointers, started at the first node of such a chain, gives
\* the chain.
LEMMA ChainRead ==
    ASSUME NEW n \in Nat, NEW nx, NEW f, NEW c \in Seq(1 .. n), c # <<>>, Follows(c, nx),
           f[0] = <<>>, \A a \in 1 .. n : f[a] = <<a>> \o f[nx[a]]
    PROVE  f[c[1]] = c
<1> DEFINE m == Len(c)
           Rest(i) == [k \in 1 .. m - i + 1 |-> c[i + k - 1]]
           T == {j \in Nat : j < m /\ f[c[m - j]] # Rest(m - j)}
<1>1. m \in Nat /\ m > 0 /\ c = [k \in 1 .. m |-> c[k]] /\ \A i \in 1 .. m : c[i] \in 1 .. n OBVIOUS
<1>2. /\ \A i \in 1 .. m - 1 : nx[c[i]] = c[i + 1]
      /\ nx[c[m]] = 0
  BY DEF Follows
<1>0. m \in Nat /\ m > 0 /\ m \in 1 .. m BY <1>1
<1> HIDE DEF m
<1>3. \A i \in 1 .. m : Rest(i) \in Seq(1 .. n) /\ Len(Rest(i)) = m - i + 1
  <2> SUFFICES ASSUME NEW i \in 1 .. m PROVE Rest(i) \in Seq(1 .. n) /\ Len(Rest(i)) = m - i + 1 OBVIOUS
  <2>1. m - i + 1 \in Nat /\ \A k \in 1 .. m - i + 1 : i + k - 1 \in 1 .. m BY <1>1
  <2>2. Rest(i) \in [1 .. m - i + 1 -> 1 .. n] BY <1>1, <2>1
  <2> HIDE DEF Rest
  <2> QED BY <2>1, <2>2, FunctionIsSeq
<1>4. f[c[m]] = Rest(m)
  <2>0. c[m] \in 1 .. n BY <1>0, <1>1
  <2>1. f[c[m]] = <<c[m]>> \o <<>> BY <1>2, <2>0
  <2>2. <<c[m]>> \o <<>> = <<c[m]>> BY <1>1
  <2>3. Rest(m) = <<c[m]>>
    <3>1. m - m + 1 = 1 /\ m + 1 - 1 = m BY <1>1
    <3>2. Rest(m) = [k \in 1 .. 1 |-> c[m]]
      <4>1. \A k \in 1 .. 1 : m + k - 1 = m BY <1>1
      <4> QED BY <3>1, <4>1
    <3> QED BY <3>2
  <2> QED BY <2>1, <2>2, <2>3
<1>5. ASSUME NEW i \in 1 .. m - 1, f[c[i + 1]] = Rest(i + 1) PROVE f[c[i]] = Rest(i)
  <2>0. i \in 1 .. m /\ i + 1 \in 1 .. m /\ i \in Nat BY <1>0
  <2>a. c[i] \in 1 .. n /\ nx[c[i]] = c[i + 1] BY <1>1, <1>2, <2>0
  <2>b. f[c[i]] = <<c[i]>> \o f[c[i + 1]] BY <2>a
  <2>1. f[c[i]] = <<c[i]>> \o Rest(i + 1) BY <1>5, <2>b
  <2>2. Rest(i + 1) \in Seq(1 .. n) /\ Len(Rest(i + 1)) = m - (i + 1) + 1 /\ c[i] \in 1 .. n
    BY <1>1, <1>3, <2>0
  <2>3. m - (i + 1) + 1 + 1 = m - i + 1 BY <1>1
  <2> DEFINE r == Rest(i + 1)
  <2>4. \A k \in 1 .. m - (i + 1) + 1 : r[k] = c[i + 1 + k - 1] OBVIOUS
  <2> HIDE DEF r
  <2>c. r \in Seq(1 .. n) /\ c[i] \in 1 .. n BY <2>2 DEF r
  <2>5. <<c[i]>> \o r = [k \in 1 .. Len(r) + 1 |-> IF k = 1 THEN c[i] ELSE r[k - 1]]
    BY <2>c, ConsIs
  <2>6. Len(r) + 1 = m - i + 1 BY <2>2, <2>3 DEF r
  <2>7. ASSUME NEW k \in 1 .. m - i + 1 PROVE (IF k = 1 THEN c[i] ELSE r[k - 1]) = c[i + k - 1]
    <3>1. CASE k = 1 BY <1>1, <3>1
    <3>2. CASE k # 1
      <4>1. k - 1 \in 1 .. m - (i + 1) + 1 /\ i + 1 + (k - 1) - 1 = i + k - 1 BY <1>0, <2>0, <3>2
      <4>2. r[k - 1] = c[i + 1 + (k - 1) - 1] BY <2>4, <4>1
      <4> QED BY <3>2, <4>1, <4>2
    <3> QED BY <3>1, <3>2
  <2>8. <<c[i]>> \o r = Rest(i) BY <2>5, <2>6, <2>7
  <2> QED BY <2>1, <2>8 DEF r
<1> HIDE DEF Rest
<1>6. T = {}
  <2> SUFFICES ASSUME T # {} PROVE FALSE OBVIOUS
  <2>1. PICK j \in T : \A l \in T : j <= l BY LeastNumber
  <2>2. j # 0
    <3>1. m - 0 = m BY <1>1
    <3> QED BY <1>4, <2>1, <3>1
  <2>a. j \in Nat /\ j < m BY <2>1
  <2>b. j - 1 \in Nat /\ j - 1 < m /\ ~(j <= j - 1) BY <1>0, <2>2, <2>a
  <2>3. j - 1 \in Nat /\ j - 1 < m /\ j - 1 \notin T BY <2>1, <2>b
  <2>4. f[c[m - (j - 1)]] = Rest(m - (j - 1)) BY <2>3
  <2>5. m - (j - 1) = (m - j) + 1 /\ m - j \in 1 .. m - 1 BY <1>0, <2>1, <2>2
  <2>6. f[c[m - j]] = Rest(m - j) BY <1>5, <2>4, <2>5
  <2> QED BY <2>1, <2>6
<1>7. f[c[1]] = Rest(1)
  <2>1. m - 1 \in Nat /\ m - 1 < m /\ m - (m - 1) = 1 BY <1>1
  <2>2. m - 1 \notin T BY <1>6
  <2> QED BY <2>1, <2>2
<1>8. Rest(1) = c
  <2>1. \A k \in 1 .. m : 1 + k - 1 = k BY <1>1
  <2>2. m - 1 + 1 = m BY <1>1
  <2>3. Rest(1) = [k \in 1 .. m |-> c[k]] BY <2>1, <2>2 DEF Rest
  <2> QED BY <1>1, <2>3
<1> QED BY <1>7, <1>8

\* Where every step of the walk lowers a rank, the recursion along it is defined.
LEMMA WalkDefined ==
    ASSUME NEW n \in Nat, NEW nx, NEW r \in [0 .. n -> 0 .. n], r[0] = 0,
           \A a \in 1 .. n : nx[a] \in 0 .. n /\ r[nx[a]] < r[a]
    PROVE  \E g : g = [a \in 0 .. n |-> IF a = 0 THEN <<>> ELSE <<a>> \o g[nx[a]]]
<1> DEFINE Longer(a, s) == <<a>> \o s
           Def(g, a) == IF a = 0 THEN <<>> ELSE Longer(a, g[nx[a]])
           Solves(g, l) == \A a \in 0 .. n : r[a] <= l => g[a] = Def(g, a)
           T == {l \in Nat : ~ \E g : Solves(g, l)}
<1> HIDE DEF Longer
<1>1. \E g : Solves(g, 0)
  <2>1. Solves([a \in 0 .. 0 |-> <<>>], 0)
    <3>1. \A a \in 0 .. n : r[a] <= 0 => a = 0
      <4> SUFFICES ASSUME NEW a \in 1 .. n, r[a] <= 0 PROVE FALSE OBVIOUS
      <4>1. r[nx[a]] < r[a] /\ r[nx[a]] \in 0 .. n /\ r[a] \in 0 .. n OBVIOUS
      <4> QED BY <4>1
    <3> QED BY <3>1
  <2> QED BY <2>1
<1>2. ASSUME NEW l \in Nat, \E g : Solves(g, l) PROVE \E g : Solves(g, l + 1)
  <2>1. PICK g : Solves(g, l) BY <1>2
  <2> DEFINE u == [a \in 0 .. n |-> IF r[a] <= l THEN g[a] ELSE Longer(a, g[nx[a]])]
  <2>2. ASSUME NEW a \in 0 .. n, r[a] <= l + 1 PROVE u[a] = Def(u, a)
    <3>1. CASE a = 0
      <4>1. r[0] <= l /\ 0 \in 0 .. n OBVIOUS
      <4>2. g[0] = <<>> BY <2>1, <4>1
      <4> QED BY <3>1, <4>1, <4>2
    <3>2. CASE a # 0
      <4>1. a \in 1 .. n BY <3>2
      <4>2. nx[a] \in 0 .. n /\ r[nx[a]] \in Nat /\ r[a] \in Nat /\ r[nx[a]] < r[a] BY <4>1
      <4>3. r[nx[a]] <= l BY <2>2, <4>2
      <4>4. u[nx[a]] = g[nx[a]] BY <4>2, <4>3
      <4>5. r[a] <= l => g[a] = Longer(a, g[nx[a]]) BY <2>1, <3>2
      <4>6. u[a] = Longer(a, g[nx[a]]) BY <4>5
      <4> HIDE DEF u
      <4> QED BY <3>2, <4>4, <4>6
    <3> QED BY <3>1, <3>2
  <2> HIDE DEF u
  <2>3. Solves(u, l + 1) BY <2>2
  <2> QED BY <2>3
<1>3. T = {}
  <2> HIDE DEF Solves
  <2> SUFFICES ASSUME T # {} PROVE FALSE OBVIOUS
  <2>1. PICK l \in T : \A k \in T : l <= k BY LeastNumber
  <2>2. l # 0 BY <1>1, <2>1
  <2>a. l - 1 \in Nat /\ ~(l <= l - 1) BY <2>1, <2>2
  <2>3. l - 1 \in Nat /\ l - 1 \notin T BY <2>1, <2>a
  <2>4. \E g : Solves(g, l - 1) BY <2>3
  <2>5. l - 1 + 1 = l BY <2>1
  <2>6. \E g : Solves(g, l) BY <1>2, <2>3, <2>4, <2>5
  <2> QED BY <2>1, <2>6
<1>4. PICK g : Solves(g, n)
  <2> HIDE DEF Solves
  <2> QED BY <1>3
<1> DEFINE u == [a \in 0 .. n |-> g[a]]
<1>5. ASSUME NEW a \in 0 .. n PROVE u[a] = Def(u, a)
  <2>1. r[a] <= n /\ g[a] = Def(g, a) BY <1>4
  <2>2. a # 0 => nx[a] \in 0 .. n BY <1>5
  <2> QED BY <2>1, <2>2
<1>6. u = [a \in 0 .. n |-> u[a]] OBVIOUS
<1> HIDE DEF u
<1>7. u = [a \in 0 .. n |-> Def(u, a)] BY <1>5, <1>6
<1> QED BY <1>7 DEF Longer

-----------------------------------------------------------------------------
(* The linked containers: queue and stack.                                 *)

\* The nodes that can be reached, as a chain from the root.
Chain(c) ==
    /\ c \in Seq(1 .. Len(llHeap))
    /\ llSize = Len(c)
    /\ llRoot = IF c = <<>> THEN 0 ELSE c[1]
    /\ \A i \in 1 .. Len(c) - 1 : llHeap[c[i]].next = c[i + 1]
    /\ c # <<>> => llHeap[c[Len(c)]].next = 0
    /\ \A i, j \in 1 .. Len(c) : i < j => c[j] < c[i]

HeapOK ==
    /\ llHeap \in Seq([value : LLValues, previous : Nat, next : Nat])
    /\ llRoot \in 0 .. Len(llHeap)
    /\ llSize \in Nat

\* Every pointer of a queue or a stack leads to an older node, so that no loop is endless.
OlderNext == \A a \in 1 .. Len(llHeap) : llHeap[a].next \in 0 .. a - 1

\* The list's nodes are in the order they were made, linked both ways, each value once.
ListShape ==
    LET n == Len(llHeap) IN
    /\ llRoot = IF n = 0 THEN 0 ELSE 1
    /\ \A a \in 1 .. n : /\ llHeap[a].next = IF a = n THEN 0 ELSE a + 1
                         /\ llHeap[a].previous = a - 1
    /\ \A a, b \in 1 .. n : llHeap[a].value = llHeap[b].value => a = b

LinkInv ==
    /\ llKind \in {"queue", "stack", "list"}
    /\ HeapOK
    /\ llKind # "list" => OlderNext /\ \E c : Chain(c)
    /\ llKind = "list" => ListShape

\* The loop along next meets the nodes of the chain.
LEMMA ForwardIsChain ==
    ASSUME HeapOK, OlderNext, NEW c, Chain(c)
    PROVE  Forward = c
<1> DEFINE n == Len(llHeap)
           f == CHOOSE g : g = [a \in 0 .. n |-> IF a = 0 THEN <<>> ELSE <<a>> \o g[llHeap[a].next]]
           nx == [a \in 1 .. n |-> llHeap[a].next]
<1>0. n \in Nat BY DEF HeapOK
<1>1. Forward = f[llRoot] BY DEF Forward
<1>2. \E g : g = [a \in 0 .. n |-> IF a = 0 THEN <<>> ELSE <<a>> \o g[llHeap[a].next]]
  <2> DEFINE r == [a \in 0 .. n |-> a]
  <2>1. r \in [0 .. n -> 0 .. n] /\ r[0] = 0 BY <1>0
  <2>2. \A a \in 1 .. n : nx[a] = llHeap[a].next OBVIOUS
  <2>3. \A a \in 1 .. n : nx[a] \in 0 .. n /\ r[nx[a]] < r[a] BY <1>0, <2>2 DEF OlderNext
  <2> HIDE DEF n, nx, r
  <2>4. PICK g : g = [a \in 0 .. n |-> IF a = 0 THEN <<>> ELSE <<a>> \o g[nx[a]]]
    BY <1>0, <2>1, <2>3, WalkDefined
  <2> DEFINE Longer(a, s) == <<a>> \o s
             N(a) == llHeap[a].next
  <2>5. \A a \in 0 .. n : a # 0 => nx[a] = N(a) BY <1>0, <2>2
  <2>6. g = [a \in 0 .. n |-> IF a = 0 THEN <<>> ELSE Longer(a, g[nx[a]])] BY <2>4
  <2> HIDE DEF Longer, N
  <2>7. g = [a \in 0 .. n |-> IF a = 0 THEN <<>> ELSE Longer(a, g[N(a)])]
    BY <2>5, <2>6
  <2> QED BY <2>7 DEF Longer, N
<1>3. f = [a \in 0 .. n |-> IF a = 0 THEN <<>> ELSE <<a>> \o f[llHeap[a].next]] BY <1>2
<1> HIDE DEF f
<1>4. f[0] = <<>> BY <1>0, <1>3
<1>5. \A a \in 1 .. n : f[a] = <<a>> \o f[nx[a]]
  <2> SUFFICES ASSUME NEW a \in 1 .. n PROVE f[a] = <<a>> \o f[nx[a]] OBVIOUS
  <2>1. a \in 0 .. n /\ a # 0 /\ nx[a] = llHeap[a].next BY <1>0
  <2> HIDE DEF nx
  <2> QED BY <1>3, <2>1
<1>6. CASE c = <<>> BY <1>1, <1>4, <1>6 DEF Chain
<1>7. CASE c # <<>>
  <2>1. c \in Seq(1 .. n) /\ llRoot = c[1] BY <1>7 DEF Chain
  <2>2. \A i \in 1 .. Len(c) : c[i] \in 1 .. n BY <2>1
  <2>3. Len(c) \in Nat /\ Len(c) > 0 BY <1>7, <2>1
  <2>4. Follows(c, nx)
    <3>1. \A i \in 1 .. Len(c) - 1 : i \in 1 .. Len(c) BY <2>3
    <3>2. Len(c) \in 1 .. Len(c) BY <2>3
    <3>3. \A i \in 1 .. Len(c) : nx[c[i]] = llHeap[c[i]].next BY <2>2
    <3> HIDE DEF nx
    <3> QED BY <1>7, <3>1, <3>2, <3>3 DEF Follows, Chain
  <2> HIDE DEF nx, n
  <2>5. f[c[1]] = c BY <1>0, <1>4, <1>5, <1>7, <2>1, <2>4, ChainRead
  <2> QED BY <1>1, <2>1, <2>5
<1> QED BY <1>6, <1>7

\* Push: the new node is in front of the chain.
LEMMA PushChain ==
    ASSUME HeapOK, OlderNext, NEW c, Chain(c), NEW v \in LLValues, NEW k, LLPush(v, k), k = llSize + 1,
           NEW d, d = <<Len(llHeap) + 1>> \o c
    PROVE  /\ HeapOK' /\ OlderNext'
           /\ Chain(d)'
           /\ \A a \in 1 .. Len(llHeap) : llHeap'[a] = llHeap[a]
           /\ llHeap'[Len(llHeap) + 1].value = v
<1> DEFINE n == Len(llHeap)
           m == Len(c)
           x == NodeOf(v, 0, llRoot)
<1>1. llHeap' = Append(llHeap, x) /\ llRoot' = n + 1 /\ llSize' = llSize + 1 BY DEF LLPush, NewAddress
<1>2. n \in Nat /\ llRoot \in 0 .. n /\ llSize \in Nat BY DEF HeapOK
<1>3. x \in [value : LLValues, previous : Nat, next : Nat] /\ x.next = llRoot /\ x.value = v
  BY <1>2 DEF NodeOf
<1>4. c \in Seq(1 .. n) /\ m \in Nat /\ llSize = m BY DEF Chain
<1>a. \A i \in 1 .. m : c[i] \in 1 .. n BY <1>4
<1>b. d = <<n + 1>> \o c OBVIOUS
<1>m. m \in Nat /\ n \in Nat BY <1>2, <1>4
<1> HIDE DEF x
<1>5. /\ llHeap' \in Seq([value : LLValues, previous : Nat, next : Nat]) /\ Len(llHeap') = n + 1
      /\ llHeap'[n + 1] = x /\ \A a \in 1 .. n : llHeap'[a] = llHeap[a]
  BY <1>1, <1>3 DEF HeapOK
<1> HIDE DEF n, m
<1>6. HeapOK' BY <1>1, <1>2, <1>5 DEF HeapOK
<1>7. OlderNext'
  <2> SUFFICES ASSUME NEW a \in 1 .. n + 1 PROVE llHeap'[a].next \in 0 .. a - 1 BY <1>5 DEF OlderNext
  <2>1. CASE a = n + 1 BY <1>2, <1>3, <1>5, <2>1
  <2>2. CASE a # n + 1
    <3>1. a \in 1 .. n BY <1>2, <2>2
    <3> QED BY <1>5, <3>1 DEF OlderNext, n
  <2> QED BY <2>1, <2>2
<1>8. c \in Seq(1 .. n + 1) /\ n + 1 \in 1 .. n + 1 /\ \A i \in 1 .. m : c[i] \in 1 .. n
  <2>2. \A i \in 1 .. m : c[i] \in 1 .. n + 1 BY <1>2, <1>a
  <2>3. c \in [1 .. m -> 1 .. n + 1] BY <1>4, <2>2 DEF m
  <2>4. c \in Seq(1 .. n + 1) BY <1>4, <2>3, FunctionIsSeq
  <2> QED BY <1>2, <1>a, <2>4
<1>9. d = [p \in 1 .. m + 1 |-> IF p = 1 THEN n + 1 ELSE c[p - 1]] BY <1>8, <1>b, ConsIs DEF m
<1>10. d \in Seq(1 .. n + 1) /\ Len(d) = m + 1 BY <1>8, <1>b DEF m
<1>11. d[1] = n + 1 /\ \A i \in 2 .. m + 1 : d[i] = c[i - 1] BY <1>4, <1>9
<1>c. \A i \in 1 .. m : d[i + 1] = c[i]
  <2> SUFFICES ASSUME NEW i \in 1 .. m PROVE d[i + 1] = c[i] OBVIOUS
  <2>1. i + 1 \in 1 .. m + 1 /\ i + 1 # 1 /\ i + 1 - 1 = i BY <1>m
  <2> DEFINE e == [p \in 1 .. m + 1 |-> IF p = 1 THEN n + 1 ELSE c[p - 1]]
  <2>2. e[i + 1] = c[i] BY <2>1
  <2>3. d = e BY <1>9
  <2> HIDE DEF e
  <2> QED BY <2>2, <2>3
<1>12. \A i \in 1 .. m : llHeap'[d[i]].next = d[i + 1]
  <2> SUFFICES ASSUME NEW i \in 1 .. m PROVE llHeap'[d[i]].next = d[i + 1] OBVIOUS
  <2>a. i + 1 \in 2 .. m + 1 /\ i + 1 - 1 = i BY <1>m
  <2>0. d[i + 1] = c[i] BY <1>c
  <2>1. CASE i = 1
    <3>1. llRoot = c[1] BY <2>1, <1>4 DEF Chain, m
    <3> QED BY <1>3, <1>5, <1>11, <2>0, <2>1, <3>1
  <2>2. CASE i # 1
    <3>1. i \in 2 .. m + 1 /\ i - 1 \in 1 .. m - 1 /\ i - 1 \in 1 .. m /\ i - 1 + 1 = i BY <1>m, <2>2
    <3>2. llHeap[c[i - 1]].next = c[i] BY <3>1 DEF Chain, m
    <3> QED BY <1>5, <1>8, <1>11, <2>0, <3>1, <3>2
  <2> QED BY <2>1, <2>2
<1>13. llHeap'[d[m + 1]].next = 0
  <2>1. CASE m = 0
    <3>1. llRoot = 0 BY <1>4, <2>1 DEF Chain, m
    <3> QED BY <1>3, <1>5, <1>11, <2>1, <3>1
  <2>2. CASE m # 0
    <3>1. m + 1 \in 2 .. m + 1 /\ m + 1 - 1 = m /\ m \in 1 .. m BY <1>m, <2>2
    <3>2. c # <<>> /\ llHeap[c[m]].next = 0 BY <1>4, <2>2 DEF Chain, m
    <3>3. d[m + 1] = c[m] /\ c[m] \in 1 .. n BY <1>8, <1>c, <3>1
    <3>4. llHeap'[c[m]] = llHeap[c[m]] BY <1>5, <3>3
    <3> QED BY <3>2, <3>3, <3>4
  <2> QED BY <2>1, <2>2
<1>14. ASSUME NEW i \in 1 .. m + 1, NEW j \in 1 .. m + 1, i < j PROVE d[j] < d[i]
  <2>a. j \in 2 .. m + 1 /\ j - 1 \in 1 .. m BY <1>m, <1>14
  <2>1. d[j] = c[j - 1] /\ c[j - 1] \in 1 .. n BY <1>8, <1>11, <2>a
  <2>2. CASE i = 1
    <3>1. d[i] = n + 1 /\ c[j - 1] < n + 1 BY <1>m, <1>11, <2>1, <2>2
    <3> QED BY <2>1, <3>1
  <2>3. CASE i # 1
    <3>1. i \in 2 .. m + 1 /\ i - 1 \in 1 .. m /\ i - 1 < j - 1 BY <1>m, <1>14, <2>3
    <3>2. d[i] = c[i - 1] BY <1>11, <3>1
    <3>3. c[j - 1] < c[i - 1] BY <2>a, <3>1 DEF Chain, m
    <3> QED BY <2>1, <3>2, <3>3
  <2> QED BY <2>2, <2>3
<1>15. d # <<>> BY <1>4, <1>10
<1>16. Chain(d)'
  <2>1. d \in Seq(1 .. Len(llHeap')) /\ llSize' = Len(d) /\ llRoot' = IF d = <<>> THEN 0 ELSE d[1]
    BY <1>1, <1>4, <1>5, <1>10, <1>11, <1>15
  <2>2. /\ \A i \in 1 .. Len(d) - 1 : llHeap'[d[i]].next = d[i + 1]
        /\ llHeap'[d[Len(d)]].next = 0
    <3>1. Len(d) - 1 = m BY <1>m, <1>10
    <3>2. \A i \in 1 .. Len(d) - 1 : llHeap'[d[i]].next = d[i + 1] BY <1>12, <3>1
    <3>3. llHeap'[d[Len(d)]].next = 0 BY <1>10, <1>13
    <3> QED BY <3>2, <3>3
  <2>3. \A i, j \in 1 .. Len(d) : i < j => d[j] < d[i] BY <1>10, <1>14
  <2> QED BY <2>1, <2>2, <2>3 DEF Chain
<1> QED BY <1>5, <1>6, <1>7, <1>16, <1>3 DEF n

\* What a chain is made of.
LEMMA ChainFacts ==
    ASSUME HeapOK, NEW c, Chain(c)
    PROVE  /\ Len(c) \in Nat /\ Len(llHeap) \in Nat
           /\ \A i \in 1 .. Len(c) : c[i] \in 1 .. Len(llHeap) /\ llHeap[c[i]].value \in LLValues
           /\ c = <<>> <=> Len(c) = 0
<1>1. c \in Seq(1 .. Len(llHeap)) BY DEF Chain
<1>2. \A i \in 1 .. Len(c) : c[i] \in 1 .. Len(llHeap) BY <1>1
<1>3. \A a \in 1 .. Len(llHeap) : llHeap[a] \in [value : LLValues, previous : Nat, next : Nat]
  BY SeqElements DEF HeapOK
<1>4. \A i \in 1 .. Len(c) : llHeap[c[i]].value \in LLValues BY <1>2, <1>3
<1>5. Len(llHeap) \in Nat BY SeqElements DEF HeapOK
<1> QED BY <1>1, <1>2, <1>4, <1>5, SeqElements

\* Pop of the queue: the chain loses its last node.
LEMMA CutChain ==
    ASSUME HeapOK, OlderNext, NEW c, Chain(c), QueuePop,
           NEW d, d = [i \in 1 .. Len(c) - 1 |-> c[i]]
    PROVE  /\ HeapOK' /\ OlderNext'
           /\ Chain(d)'
           /\ \A a \in 1 .. Len(llHeap) : llHeap'[a].value = llHeap[a].value
           /\ Len(llHeap') = Len(llHeap)
           /\ llOut' = llHeap[c[Len(c)]].value
           /\ Len(c) > 1 /\ d \in Seq(1 .. Len(llHeap)) /\ Len(d) = Len(c) - 1
<1> DEFINE n == Len(llHeap)
           m == Len(c)
           temp == c[m - 1]
<1>0. Forward = c BY ForwardIsChain
<1>1. /\ llSize > 1 /\ llSize = m
      /\ llOut' = llHeap[llHeap[temp].next].value
      /\ llHeap' = [llHeap EXCEPT ![temp].next = 0]
      /\ llSize' = m - 1 /\ llRoot' = llRoot
  BY <1>0 DEF QueuePop, Chain
<1>2. m \in Nat /\ n \in Nat /\ \A i \in 1 .. m : c[i] \in 1 .. n BY ChainFacts
<1>m. m \in Nat /\ n \in Nat /\ m > 1 BY <1>1, <1>2
<1>3. llHeap \in Seq([value : LLValues, previous : Nat, next : Nat]) BY DEF HeapOK
<1> HIDE DEF n, m
<1>4. m - 1 \in 1 .. m - 1 /\ m - 1 \in 1 .. m /\ m \in 1 .. m /\ m - 1 + 1 = m BY <1>m
<1>5. temp \in 1 .. n BY <1>2, <1>4
<1>6. llHeap[temp].next = c[m] BY <1>4 DEF Chain, m
<1> HIDE DEF temp
<1>7. \A a \in 1 .. n : llHeap[a] \in [value : LLValues, previous : Nat, next : Nat]
  BY <1>3, SeqElements DEF n
<1>8. llHeap' = [llHeap EXCEPT ![temp] =
                   [value |-> llHeap[temp].value, previous |-> llHeap[temp].previous, next |-> 0]]
  <2>1. [llHeap[temp] EXCEPT !.next = 0]
          = [value |-> llHeap[temp].value, previous |-> llHeap[temp].previous, next |-> 0]
    BY <1>5, <1>7
  <2> QED BY <1>1, <2>1
<1>9. /\ llHeap' \in Seq([value : LLValues, previous : Nat, next : Nat]) /\ Len(llHeap') = n
      /\ \A a \in 1 .. n : /\ llHeap'[a].value = llHeap[a].value
                           /\ llHeap'[a].next = IF a = temp THEN 0 ELSE llHeap[a].next
  <2> DEFINE x == [value |-> llHeap[temp].value, previous |-> llHeap[temp].previous, next |-> 0]
  <2>1. x \in [value : LLValues, previous : Nat, next : Nat] BY <1>5, <1>7
  <2>2. x.value = llHeap[temp].value /\ x.next = 0 OBVIOUS
  <2> HIDE DEF x
  <2>3. llHeap' = [llHeap EXCEPT ![temp] = x] BY <1>8 DEF x
  <2>4. llHeap' \in Seq([value : LLValues, previous : Nat, next : Nat]) /\ Len(llHeap') = n
    BY <1>3, <1>5, <2>1, <2>3 DEF n
  <2>5. \A a \in 1 .. n : llHeap'[a] = IF a = temp THEN x ELSE llHeap[a] BY <1>3, <1>5, <2>3 DEF n
  <2> QED BY <2>2, <2>4, <2>5
<1>10. HeapOK' BY <1>m, <1>1, <1>9 DEF HeapOK, n
<1>11. OlderNext'
  <2>1. \A a \in 1 .. n : llHeap[a].next \in 0 .. a - 1 BY DEF OlderNext, n
  <2>2. \A a \in 1 .. n : 0 \in 0 .. a - 1 BY <1>m
  <2>3. \A a \in 1 .. n : llHeap'[a].next \in 0 .. a - 1 BY <1>9, <2>1, <2>2
  <2> QED BY <1>9, <2>3 DEF OlderNext
<1>12. d = [i \in 1 .. m - 1 |-> c[i]] BY DEF m
<1>13. \A i \in 1 .. m - 1 : i \in 1 .. m /\ d[i] = c[i] /\ d[i] \in 1 .. n
  <2>1. \A i \in 1 .. m - 1 : i \in 1 .. m BY <1>m
  <2> QED BY <1>2, <1>12, <2>1
<1>14. d \in Seq(1 .. n) /\ Len(d) = m - 1
  <2>1. m - 1 \in Nat BY <1>m
  <2> DEFINE e == [i \in 1 .. m - 1 |-> c[i]]
  <2>2. d = e BY <1>12
  <2>3. e \in [1 .. m - 1 -> 1 .. n] BY <1>13
  <2> HIDE DEF e
  <2>4. e \in Seq(1 .. n) /\ Len(e) = m - 1 BY <2>1, <2>3, FunctionIsSeq
  <2> QED BY <2>2, <2>4
<1>15. \A i, j \in 1 .. m : i < j => c[j] < c[i] BY DEF Chain, m
<1>16. Chain(d)'
  <2>0. d # <<>>
    <3>1. m - 1 # 0 BY <1>m
    <3> QED BY <1>14, <3>1, SeqElements
  <2>1. llRoot' = d[1]
    <3>1. 1 \in 1 .. m - 1 BY <1>m
    <3>2. c # <<>> BY <1>m DEF m
    <3>3. llRoot = c[1] BY <3>2 DEF Chain
    <3> QED BY <1>1, <1>13, <3>1, <3>3
  <2>2. ASSUME NEW i \in 1 .. m - 1 - 1 PROVE llHeap'[d[i]].next = d[i + 1]
    <3>1. i \in 1 .. m - 1 /\ i + 1 \in 1 .. m - 1 /\ i < m - 1 /\ i \in 1 .. m BY <1>m
    <3>2. llHeap[c[i]].next = c[i + 1] BY <3>1 DEF Chain, m
    <3>3. c[m - 1] < c[i] BY <1>4, <1>15, <3>1
    <3>4. c[i] # temp /\ c[i] \in 1 .. n /\ d[i] = c[i]
      <4>1. c[i] \in 1 .. n /\ d[i] = c[i] BY <1>13, <3>1
      <4>2. c[i] # c[m - 1] BY <1>m, <3>3, <4>1
      <4> QED BY <4>1, <4>2 DEF temp
    <3>5. d[i + 1] = c[i + 1] BY <1>13, <3>1
    <3> QED BY <1>9, <3>2, <3>4, <3>5
  <2>3. llHeap'[d[m - 1]].next = 0
    <3>1. d[m - 1] = temp BY <1>4, <1>13 DEF temp
    <3> QED BY <1>5, <1>9, <3>1
  <2>4. \A i, j \in 1 .. m - 1 : i < j => d[j] < d[i] BY <1>13, <1>15
  <2>5. Len(d) - 1 = m - 1 - 1 /\ llSize' = Len(d) BY <1>1, <1>14
  <2>6. d \in Seq(1 .. Len(llHeap')) BY <1>9, <1>14
  <2>7. \A i \in 1 .. Len(d) - 1 : llHeap'[d[i]].next = d[i + 1] BY <2>2, <2>5
  <2>8. llHeap'[d[Len(d)]].next = 0 BY <1>14, <2>3
  <2>9. \A i, j \in 1 .. Len(d) : i < j => d[j] < d[i] BY <1>14, <2>4
  <2>10. llRoot' = IF d = <<>> THEN 0 ELSE d[1] BY <2>0, <2>1
  <2> QED BY <2>5, <2>6, <2>7, <2>8, <2>9, <2>10 DEF Chain
<1>17. \A a \in 1 .. n : llHeap'[a].value = llHeap[a].value BY <1>9
<1>18. llOut' = llHeap[c[m]].value BY <1>1, <1>6
<1> QED BY <1>m, <1>9, <1>10, <1>11, <1>14, <1>16, <1>17, <1>18 DEF n, m

\* Pop of the stack: the chain loses its first node.
LEMMA PopChain ==
    ASSUME HeapOK, OlderNext, NEW c, Chain(c), StackPop,
           NEW d, d = [i \in 1 .. Len(c) - 1 |-> c[i + 1]]
    PROVE  HeapOK' /\ OlderNext' /\ Chain(d)'
<1> DEFINE n == Len(llHeap)
           m == Len(c)
<1>1. /\ llSize > 1 /\ llSize = m
      /\ llRoot' = llHeap[llRoot].next
      /\ llSize' = m - 1 /\ llHeap' = llHeap
  BY DEF StackPop, Chain
<1>2. m \in Nat /\ n \in Nat /\ \A i \in 1 .. m : c[i] \in 1 .. n BY ChainFacts
<1>m. m \in Nat /\ n \in Nat /\ m > 1 BY <1>1, <1>2
<1>3. /\ \A i \in 1 .. m - 1 : llHeap[c[i]].next = c[i + 1]
      /\ llHeap[c[m]].next = 0
      /\ \A i, j \in 1 .. m : i < j => c[j] < c[i]
      /\ llRoot = c[1]
  <2>1. c # <<>> BY <1>m, ChainFacts
  <2> QED BY <2>1 DEF Chain
<1> HIDE DEF n, m
<1>4. d = [i \in 1 .. m - 1 |-> c[i + 1]] BY DEF m
<1>5. \A i \in 1 .. m - 1 : i \in 1 .. m /\ i + 1 \in 1 .. m /\ d[i] = c[i + 1] /\ d[i] \in 1 .. n
  <2>1. \A i \in 1 .. m - 1 : i \in 1 .. m /\ i + 1 \in 1 .. m BY <1>m
  <2> QED BY <1>2, <1>4, <2>1
<1>6. d \in Seq(1 .. n) /\ Len(d) = m - 1
  <2>1. m - 1 \in Nat BY <1>m
  <2> DEFINE e == [i \in 1 .. m - 1 |-> c[i + 1]]
  <2>2. d = e BY <1>4
  <2>3. e \in [1 .. m - 1 -> 1 .. n] BY <1>5
  <2> HIDE DEF e
  <2>4. e \in Seq(1 .. n) /\ Len(e) = m - 1 BY <2>1, <2>3, FunctionIsSeq
  <2> QED BY <2>2, <2>4
<1>7. llRoot' = d[1] /\ d # <<>>
  <2>1. 1 \in 1 .. m - 1 BY <1>m
  <2>2. llHeap[c[1]].next = c[1 + 1] /\ d[1] = c[1 + 1] BY <1>3, <1>5, <2>1
  <2>3. d # <<>>
    <3>1. m - 1 # 0 BY <1>m
    <3> QED BY <1>6, <3>1, SeqElements
  <2> QED BY <1>1, <1>3, <2>2, <2>3
<1>8. ASSUME NEW i \in 1 .. m - 1 - 1 PROVE llHeap[d[i]].next = d[i + 1]
  <2>1. i \in 1 .. m - 1 /\ i + 1 \in 1 .. m - 1 BY <1>m
  <2>2. d[i] = c[i + 1] /\ d[i + 1] = c[i + 1 + 1] BY <1>5, <2>1
  <2>3. llHeap[c[i + 1]].next = c[i + 1 + 1] BY <1>3, <2>1
  <2> QED BY <2>2, <2>3
<1>9. llHeap[d[m - 1]].next = 0
  <2>1. m - 1 \in 1 .. m - 1 /\ m - 1 + 1 = m BY <1>m
  <2>2. d[m - 1] = c[m - 1 + 1] BY <1>5, <2>1
  <2>3. d[m - 1] = c[m] BY <2>1, <2>2
  <2> QED BY <1>3, <2>3
<1>10. ASSUME NEW i \in 1 .. m - 1, NEW j \in 1 .. m - 1, i < j PROVE d[j] < d[i]
  <2>1. i + 1 \in 1 .. m /\ j + 1 \in 1 .. m /\ i + 1 < j + 1 BY <1>m, <1>10
  <2>2. c[j + 1] < c[i + 1] BY <1>3, <2>1
  <2> QED BY <1>5, <2>2
<1>11. Chain(d)'
  <2>1. Len(d) - 1 = m - 1 - 1 /\ llSize' = Len(d) BY <1>1, <1>6
  <2>2. d \in Seq(1 .. Len(llHeap')) BY <1>1, <1>6 DEF n
  <2>3. \A i \in 1 .. Len(d) - 1 : llHeap'[d[i]].next = d[i + 1] BY <1>1, <1>8, <2>1
  <2>4. llHeap'[d[Len(d)]].next = 0 BY <1>1, <1>6, <1>9
  <2>5. \A i, j \in 1 .. Len(d) : i < j => d[j] < d[i] BY <1>6, <1>10
  <2>6. \A i \in 1 .. Len(d) - 1 : llHeap'[d[i]].next = d[i + 1] BY <2>3
  <2>7. llRoot' = IF d = <<>> THEN 0 ELSE d[1] BY <1>7
  <2> QED BY <2>1, <2>2, <2>4, <2>5, <2>6, <2>7 DEF Chain
<1>12. llRoot' \in 0 .. n
  <2>1. 1 \in 1 .. m - 1 BY <1>m
  <2>2. d[1] \in 1 .. n BY <1>5, <2>1
  <2> QED BY <1>m, <1>7, <2>2
<1>13. HeapOK' BY <1>m, <1>1, <1>12 DEF HeapOK, n
<1> QED BY <1>1, <1>11, <1>13 DEF OlderNext

-----------------------------------------------------------------------------
(* The linked containers: what the queue holds.                            *)

\* The values along chain c of heap h, oldest first.
Held(c, h) == [i \in 1 .. Len(c) |-> h[c[Len(c) - i + 1]].value]

QueueItems == IF llKind = "queue" THEN Reverse(traverse) ELSE <<>>

\* What a chain holds is a sequence of values, as long as the chain.
LEMMA HeldIs ==
    ASSUME NEW n \in Nat, NEW c \in Seq(1 .. n), NEW h, \A a \in 1 .. n : h[a].value \in LLValues
    PROVE  /\ Held(c, h) \in Seq(LLValues) /\ Len(Held(c, h)) = Len(c) /\ Len(c) \in Nat
           /\ \A i \in 1 .. Len(c) : Held(c, h)[i] = h[c[Len(c) - i + 1]].value
<1> DEFINE m == Len(c)
<1>1. m \in Nat /\ \A i \in 1 .. m : c[i] \in 1 .. n BY SeqElements
<1> HIDE DEF m
<1>2. \A i \in 1 .. m : m - i + 1 \in 1 .. m BY <1>1
<1>3. \A i \in 1 .. m : h[c[m - i + 1]].value \in LLValues BY <1>1, <1>2
<1>4. Held(c, h) \in [1 .. m -> LLValues] BY <1>3 DEF Held, m
<1>5. Held(c, h) \in Seq(LLValues) /\ Len(Held(c, h)) = m BY <1>1, <1>4, FunctionIsSeq
<1>6. \A i \in 1 .. m : Held(c, h)[i] = h[c[m - i + 1]].value BY DEF Held, m
<1> QED BY <1>1, <1>5, <1>6 DEF m

\* traverse, along the chain; backwards, it is what the queue holds.
LEMMA TraverseIs ==
    ASSUME HeapOK, OlderNext, NEW c, Chain(c)
    PROVE  /\ traverse \in Seq(LLValues) /\ Len(traverse) = Len(c)
           /\ Reverse(traverse) = Held(c, llHeap)
<1> DEFINE m == Len(c)
           t == [i \in 1 .. m |-> llHeap[c[i]].value]
<1>1. Forward = c BY ForwardIsChain
<1>2. m \in Nat /\ \A i \in 1 .. m : llHeap[c[i]].value \in LLValues BY ChainFacts
<1>3. DOMAIN c = 1 .. m BY DEF Chain
<1>4. traverse = t BY <1>1, <1>3 DEF traverse
<1> HIDE DEF m
<1>5. t \in [1 .. m -> LLValues] BY <1>2
<1>6. t \in Seq(LLValues) /\ Len(t) = m BY <1>2, <1>5, FunctionIsSeq
<1>7. \A i \in 1 .. m : m - i + 1 \in 1 .. m BY <1>2
<1>8. \A i \in 1 .. m : t[m - i + 1] = llHeap[c[m - i + 1]].value BY <1>7
<1> HIDE DEF t
<1>9. Reverse(t) = [i \in 1 .. m |-> t[m - i + 1]] BY <1>6 DEF Reverse
<1>10. Held(c, llHeap) = [i \in 1 .. m |-> llHeap[c[m - i + 1]].value] BY DEF Held, m
<1>11. Reverse(t) = Held(c, llHeap) BY <1>8, <1>9, <1>10
<1> QED BY <1>4, <1>6, <1>11 DEF m

\* The same, in the next state.
LEMMA ItemsNext ==
    ASSUME NEW c
    PROVE  (HeapOK /\ OlderNext /\ Chain(c) /\ llKind = "queue" => QueueItems = Held(c, llHeap))'
<1>1. HeapOK /\ OlderNext /\ Chain(c) /\ llKind = "queue" => QueueItems = Held(c, llHeap)
  BY TraverseIs DEF QueueItems
<1> QED BY <1>1, PTL

\* The first n nodes keep their values from heap h to heap g.
Kept(n, h, g) == \A a \in 1 .. n : h[a].value \in LLValues /\ g[a].value = h[a].value

\* Chain d is chain c without its last node.
CutOf(d, c) == Len(d) = Len(c) - 1 /\ \A i \in 1 .. Len(d) : d[i] = c[i]

\* A node in front of the chain is the value that joined last.
LEMMA PushHeld ==
    ASSUME NEW n \in Nat, NEW c \in Seq(1 .. n), NEW h, NEW g, NEW v \in LLValues,
           Kept(n, h, g), g[n + 1].value = v
    PROVE  Held(<<n + 1>> \o c, g) = Append(Held(c, h), v)
<1> USE DEF Kept
<1> DEFINE d == <<n + 1>> \o c
           m == Len(c)
           e == [p \in 1 .. m + 1 |-> IF p = 1 THEN n + 1 ELSE c[p - 1]]
<1>1. m \in Nat /\ \A i \in 1 .. m : c[i] \in 1 .. n BY SeqElements
<1>2. c \in Seq(1 .. n + 1) /\ n + 1 \in 1 .. n + 1
  <2>1. \A i \in 1 .. m : c[i] \in 1 .. n + 1 BY <1>1
  <2>2. c \in [1 .. m -> 1 .. n + 1] BY <2>1
  <2> QED BY <1>1, <2>2, FunctionIsSeq
<1>3. d = e BY <1>2, ConsIs
<1>4. d \in Seq(1 .. n + 1) /\ Len(d) = m + 1 BY <1>2
<1> HIDE DEF m, d
<1>5. \A a \in 1 .. n + 1 : g[a].value \in LLValues
  <2> SUFFICES ASSUME NEW a \in 1 .. n + 1 PROVE g[a].value \in LLValues OBVIOUS
  <2>1. CASE a = n + 1 BY <2>1
  <2>2. CASE a # n + 1
    <3>1. a \in 1 .. n BY <2>2
    <3> QED BY <3>1
  <2> QED BY <2>1, <2>2
<1>6. /\ Held(d, g) \in Seq(LLValues) /\ Len(Held(d, g)) = m + 1
      /\ \A i \in 1 .. m + 1 : Held(d, g)[i] = g[d[m + 1 - i + 1]].value
  <2>1. n + 1 \in Nat OBVIOUS
  <2>6. d \in Seq(1 .. n + 1) BY <1>4
  <2>2. /\ Held(d, g) \in Seq(LLValues) /\ Len(Held(d, g)) = Len(d)
        /\ \A i \in 1 .. Len(d) : Held(d, g)[i] = g[d[Len(d) - i + 1]].value
    BY <1>5, <2>1, <2>6, HeldIs, Zenon
  <2>3. Len(d) = m + 1 /\ m \in Nat BY <1>1, <1>4
  <2>4. ASSUME NEW i \in 1 .. m + 1 PROVE Held(d, g)[i] = g[d[m + 1 - i + 1]].value
    <3>1. i \in 1 .. Len(d) /\ Len(d) - i + 1 = m + 1 - i + 1 BY <2>3
    <3> QED BY <2>2, <3>1
  <2>5. Len(Held(d, g)) = m + 1 BY <2>2, <2>3
  <2> QED BY <2>2, <2>4, <2>5
<1>7. /\ Held(c, h) \in Seq(LLValues) /\ Len(Held(c, h)) = m
      /\ \A i \in 1 .. m : Held(c, h)[i] = h[c[m - i + 1]].value
  BY HeldIs DEF m
<1>8. /\ Append(Held(c, h), v) \in Seq(LLValues) /\ Len(Append(Held(c, h), v)) = m + 1
      /\ Append(Held(c, h), v)[m + 1] = v
      /\ \A i \in 1 .. m : Append(Held(c, h), v)[i] = Held(c, h)[i]
  BY <1>7
<1>9. ASSUME NEW i \in 1 .. m + 1 PROVE Held(d, g)[i] = Append(Held(c, h), v)[i]
  <2>1. CASE i = m + 1
    <3>1. m + 1 - i + 1 = 1 /\ e[1] = n + 1 BY <1>1, <2>1
    <3>2. d[m + 1 - i + 1] = n + 1 BY <1>3, <3>1
    <3> QED BY <1>6, <1>8, <2>1, <3>2
  <2>2. CASE i # m + 1
    <3>1. i \in 1 .. m /\ m - i + 1 \in 1 .. m BY <1>1, <2>2
    <3>2. /\ m + 1 - i + 1 \in 1 .. m + 1 /\ m + 1 - i + 1 # 1
          /\ m + 1 - i + 1 - 1 = m - i + 1
      BY <1>1, <2>2
    <3>3. e[m + 1 - i + 1] = c[m - i + 1]
      <4> DEFINE p == m + 1 - i + 1
      <4>a. m \in Nat /\ i \in 1 .. m + 1 BY <1>1
      <4>1. p \in 1 .. m + 1 /\ p # 1 /\ p - 1 = m - i + 1 BY <3>2, <4>a
      <4> HIDE DEF p
      <4>2. e[p] = c[p - 1] BY <4>1
      <4>3. e[p] = c[m - i + 1] BY <4>1, <4>2
      <4> QED BY <4>3 DEF p
    <3> HIDE DEF e
    <3>4. d[m + 1 - i + 1] = c[m - i + 1] /\ c[m - i + 1] \in 1 .. n BY <1>1, <1>3, <3>1, <3>3
    <3>5. Held(d, g)[i] = h[c[m - i + 1]].value BY <1>6, <3>4
    <3> QED BY <1>7, <1>8, <3>1, <3>5
  <2> QED BY <2>1, <2>2
<1> HIDE DEF e
<1>10. Held(d, g) = Append(Held(c, h), v) BY <1>6, <1>8, <1>9, SeqEqual
<1> QED BY <1>10 DEF d

\* Without its last node, the chain holds what joined after the first.
LEMMA CutHeld ==
    ASSUME NEW n \in Nat, NEW c \in Seq(1 .. n), c # <<>>, NEW h, NEW g,
           Kept(n, h, g), NEW d \in Seq(1 .. n), CutOf(d, c)
    PROVE  /\ Held(c, h) # <<>>
           /\ Head(Held(c, h)) = h[c[Len(c)]].value
           /\ Tail(Held(c, h)) = Held(d, g)
<1>0. /\ \A a \in 1 .. n : h[a].value \in LLValues
      /\ \A a \in 1 .. n : g[a].value \in LLValues
      /\ \A a \in 1 .. n : g[a].value = h[a].value
      /\ Len(d) = Len(c) - 1 /\ \A i \in 1 .. Len(d) : d[i] = c[i]
  BY DEF Kept, CutOf
<1>a. \A a \in 1 .. n : h[a].value \in LLValues BY <1>0
<1>b. \A a \in 1 .. n : g[a].value \in LLValues BY <1>0
<1> DEFINE m == Len(c)
           s == Held(c, h)
<1>1. m \in Nat /\ m # 0 /\ \A i \in 1 .. m : c[i] \in 1 .. n BY SeqElements
<1>2. /\ s \in Seq(LLValues) /\ Len(s) = m
      /\ \A i \in 1 .. m : s[i] = h[c[m - i + 1]].value
  BY <1>a, HeldIs, Zenon
<1>3. /\ Held(d, g) \in Seq(LLValues) /\ Len(Held(d, g)) = m - 1
      /\ \A i \in 1 .. m - 1 : Held(d, g)[i] = g[d[m - 1 - i + 1]].value
  <2>2. /\ Held(d, g) \in Seq(LLValues) /\ Len(Held(d, g)) = Len(d)
        /\ \A i \in 1 .. Len(d) : Held(d, g)[i] = g[d[Len(d) - i + 1]].value
    BY <1>b, HeldIs, Zenon
  <2> QED BY <1>0, <2>2
<1> HIDE DEF m, s
<1>4. s # <<>> BY <1>1, <1>2, SeqElements
<1>5. Head(s) = h[c[m]].value
  <2>1. 1 \in 1 .. m /\ m - 1 + 1 = m BY <1>1
  <2>2. s[1] = h[c[m]].value BY <1>2, <2>1
  <2>3. Head(s) = s[1] OBVIOUS
  <2> QED BY <2>2, <2>3
<1>6. /\ Tail(s) \in Seq(LLValues) /\ Len(Tail(s)) = m - 1
      /\ \A i \in 1 .. m - 1 : Tail(s)[i] = s[i + 1]
  BY <1>2, <1>4, HeadTailProperties
<1>7. ASSUME NEW i \in 1 .. m - 1 PROVE Tail(s)[i] = Held(d, g)[i]
  <2>1. /\ i + 1 \in 1 .. m /\ m - (i + 1) + 1 = m - i /\ m - 1 - i + 1 = m - i
        /\ m - i \in 1 .. m - 1 /\ m - i \in 1 .. m
    BY <1>1
  <2>2. Tail(s)[i] = h[c[m - i]].value BY <1>2, <1>6, <2>1
  <2>3. d[m - i] = c[m - i] /\ c[m - i] \in 1 .. n BY <1>0, <1>1, <2>1 DEF m
  <2>4. Held(d, g)[i] = h[c[m - i]].value
    <3>1. Held(d, g)[i] = g[d[m - i]].value BY <1>3, <2>1
    <3>2. g[c[m - i]].value = h[c[m - i]].value BY <1>0, <2>3
    <3> QED BY <2>3, <3>1, <3>2
  <2> QED BY <2>2, <2>4
<1>8. Tail(s) = Held(d, g) BY <1>3, <1>6, <1>7, SeqEqual
<1> QED BY <1>4, <1>5, <1>8 DEF s, m

-----------------------------------------------------------------------------
(* The linked containers: the list.                                        *)

\* The list from its root to its end.
LEMMA ListForward ==
    ASSUME HeapOK, ListShape
    PROVE  /\ Forward = [i \in 1 .. Len(llHeap) |-> i]
           /\ Len(llHeap) \in Nat
<1> DEFINE n == Len(llHeap)
           f == CHOOSE g : g = [a \in 0 .. n |-> IF a = 0 THEN <<>> ELSE <<a>> \o g[llHeap[a].next]]
           nx == [a \in 1 .. n |-> IF a = n THEN 0 ELSE a + 1]
           c == [i \in 1 .. n |-> i]
<1>0. n \in Nat BY SeqElements DEF HeapOK
<1>1. Forward = f[llRoot] BY DEF Forward
<1>2. llRoot = (IF n = 0 THEN 0 ELSE 1) /\ \A a \in 1 .. n : llHeap[a].next = nx[a] BY DEF ListShape
<1>3. \E g : g = [a \in 0 .. n |-> IF a = 0 THEN <<>> ELSE <<a>> \o g[llHeap[a].next]]
  <2> DEFINE r == [a \in 0 .. n |-> IF a = 0 THEN 0 ELSE n + 1 - a]
  <2>1. r \in [0 .. n -> 0 .. n] /\ r[0] = 0 BY <1>0
  <2>2. ASSUME NEW a \in 1 .. n PROVE nx[a] \in 0 .. n /\ r[nx[a]] < r[a]
    <3>1. r[a] = n + 1 - a /\ r[0] = 0 /\ n + 1 - a > 0 BY <1>0
    <3>2. CASE a = n BY <1>0, <3>1, <3>2
    <3>3. CASE a # n
      <4>1. a + 1 \in 1 .. n /\ a + 1 # 0 /\ n + 1 - (a + 1) < n + 1 - a BY <1>0, <3>3
      <4>2. r[a + 1] = n + 1 - (a + 1) /\ nx[a] = a + 1 BY <1>0, <3>3, <4>1
      <4> HIDE DEF r, nx
      <4> QED BY <1>0, <3>1, <4>1, <4>2
    <3> QED BY <3>2, <3>3
  <2> HIDE DEF n, nx, r
  <2>4. PICK g : g = [a \in 0 .. n |-> IF a = 0 THEN <<>> ELSE <<a>> \o g[nx[a]]]
    BY <1>0, <2>1, <2>2, WalkDefined
  <2> DEFINE Longer(a, s) == <<a>> \o s
             N(a) == llHeap[a].next
  <2>5. \A a \in 0 .. n : a # 0 => nx[a] = N(a) BY <1>0, <1>2
  <2>6. g = [a \in 0 .. n |-> IF a = 0 THEN <<>> ELSE Longer(a, g[nx[a]])] BY <2>4
  <2> HIDE DEF Longer, N
  <2>7. g = [a \in 0 .. n |-> IF a = 0 THEN <<>> ELSE Longer(a, g[N(a)])]
    BY <2>5, <2>6
  <2> QED BY <2>7 DEF Longer, N
<1>4. f = [a \in 0 .. n |-> IF a = 0 THEN <<>> ELSE <<a>> \o f[llHeap[a].next]] BY <1>3
<1> HIDE DEF f
<1>5. f[0] = <<>> BY <1>0, <1>4
<1>6. \A a \in 1 .. n : f[a] = <<a>> \o f[nx[a]]
  <2> SUFFICES ASSUME NEW a \in 1 .. n PROVE f[a] = <<a>> \o f[nx[a]] OBVIOUS
  <2>1. a \in 0 .. n /\ a # 0 /\ nx[a] = llHeap[a].next BY <1>0, <1>2
  <2> HIDE DEF nx
  <2> QED BY <1>4, <2>1
<1>7. c \in Seq(1 .. n) /\ Len(c) = n
  <2>1. c \in [1 .. n -> 1 .. n] OBVIOUS
  <2> HIDE DEF c
  <2> QED BY <1>0, <2>1, FunctionIsSeq
<1>8. CASE n = 0
  <2>1. c = <<>> BY <1>7, <1>8, SeqElements
  <2> QED BY <1>1, <1>2, <1>5, <1>8, <2>1
<1>9. CASE n # 0
  <2>1. c # <<>> BY <1>7, <1>9, SeqElements
  <2>2. Follows(c, nx)
    <3>1. \A i \in 1 .. n - 1 : i \in 1 .. n /\ i + 1 \in 1 .. n /\ i # n BY <1>0
    <3>2. \A i \in 1 .. n : c[i] = i OBVIOUS
    <3>3. n \in 1 .. n BY <1>0, <1>9
    <3>4. nx[n] = 0 /\ \A i \in 1 .. n : i # n => nx[i] = i + 1 BY <3>3
    <3> HIDE DEF c, nx
    <3> QED BY <1>7, <3>1, <3>2, <3>3, <3>4 DEF Follows
  <2>3. c[1] = 1 BY <1>0, <1>9
  <2> HIDE DEF c, nx
  <2>4. f[c[1]] = c BY <1>0, <1>5, <1>6, <1>7, <2>1, <2>2, ChainRead
  <2> HIDE DEF n
  <2>5. Forward = c BY <1>1, <1>2, <1>9, <2>3, <2>4
  <2> QED BY <2>5 DEF c, n
<1> QED BY <1>0, <1>8, <1>9

\* The list from its end to its root.
LEMMA ListBackward ==
    ASSUME HeapOK, ListShape
    PROVE  Backward = [i \in 1 .. Len(llHeap) |-> Len(llHeap) + 1 - i]
<1> DEFINE n == Len(llHeap)
           f == CHOOSE g : g = [a \in 0 .. n |-> IF a = 0 THEN <<>> ELSE <<a>> \o g[llHeap[a].previous]]
           nx == [a \in 1 .. n |-> a - 1]
           c == [i \in 1 .. n |-> n + 1 - i]
<1>0. n \in Nat BY SeqElements DEF HeapOK
<1>1. Backward = IF llRoot = 0 THEN <<>> ELSE f[Last(Forward)] BY DEF Backward
<1>2. llRoot = (IF n = 0 THEN 0 ELSE 1) /\ \A a \in 1 .. n : llHeap[a].previous = nx[a] BY DEF ListShape
<1>3. \E g : g = [a \in 0 .. n |-> IF a = 0 THEN <<>> ELSE <<a>> \o g[llHeap[a].previous]]
  <2> DEFINE r == [a \in 0 .. n |-> a]
  <2>1. r \in [0 .. n -> 0 .. n] /\ r[0] = 0 BY <1>0
  <2>2. \A a \in 1 .. n : nx[a] = a - 1 OBVIOUS
  <2>3. \A a \in 1 .. n : nx[a] \in 0 .. n /\ r[nx[a]] < r[a] BY <1>0, <2>2
  <2> HIDE DEF n, nx, r
  <2>4. PICK g : g = [a \in 0 .. n |-> IF a = 0 THEN <<>> ELSE <<a>> \o g[nx[a]]]
    BY <1>0, <2>1, <2>3, WalkDefined
  <2> DEFINE Longer(a, s) == <<a>> \o s
             N(a) == llHeap[a].previous
  <2>5. \A a \in 0 .. n : a # 0 => nx[a] = N(a) BY <1>0, <1>2
  <2>6. g = [a \in 0 .. n |-> IF a = 0 THEN <<>> ELSE Longer(a, g[nx[a]])] BY <2>4
  <2> HIDE DEF Longer, N
  <2>7. g = [a \in 0 .. n |-> IF a = 0 THEN <<>> ELSE Longer(a, g[N(a)])]
    BY <2>5, <2>6
  <2> QED BY <2>7 DEF Longer, N
<1>4. f = [a \in 0 .. n |-> IF a = 0 THEN <<>> ELSE <<a>> \o f[llHeap[a].previous]] BY <1>3
<1> HIDE DEF f
<1>5. f[0] = <<>> BY <1>0, <1>4
<1>6. \A a \in 1 .. n : f[a] = <<a>> \o f[nx[a]]
  <2> SUFFICES ASSUME NEW a \in 1 .. n PROVE f[a] = <<a>> \o f[nx[a]] OBVIOUS
  <2>1. a \in 0 .. n /\ a # 0 /\ nx[a] = llHeap[a].previous BY <1>0, <1>2
  <2> HIDE DEF nx
  <2> QED BY <1>4, <2>1
<1>7. c \in Seq(1 .. n) /\ Len(c) = n
  <2>1. c \in [1 .. n -> 1 .. n] BY <1>0
  <2> HIDE DEF c
  <2> QED BY <1>0, <2>1, FunctionIsSeq
<1>8. CASE n = 0
  <2>1. c = <<>> BY <1>7, <1>8, SeqElements
  <2> QED BY <1>1, <1>2, <1>8, <2>1
<1>9. CASE n # 0
  <2>1. c # <<>> BY <1>7, <1>9, SeqElements
  <2>2. Follows(c, nx)
    <3>1. \A i \in 1 .. n - 1 : i \in 1 .. n /\ i + 1 \in 1 .. n
                               /\ n + 1 - i \in 1 .. n /\ n + 1 - (i + 1) = n + 1 - i - 1
      BY <1>0
    <3>2. \A i \in 1 .. n : c[i] = n + 1 - i OBVIOUS
    <3>3. n \in 1 .. n /\ n + 1 - n = 1 /\ 1 \in 1 .. n /\ 1 - 1 = 0 BY <1>0, <1>9
    <3>4. \A i \in 1 .. n : nx[i] = i - 1 OBVIOUS
    <3> HIDE DEF c, nx
    <3>5. ASSUME NEW i \in 1 .. n - 1 PROVE nx[c[i]] = c[i + 1]
      <4>1. c[i] = n + 1 - i /\ c[i + 1] = n + 1 - (i + 1) BY <3>1, <3>2
      <4>2. nx[n + 1 - i] = n + 1 - i - 1 BY <3>1, <3>4
      <4>3. n + 1 - (i + 1) = n + 1 - i - 1 BY <3>1
      <4> QED BY <4>1, <4>2, <4>3
    <3>6. nx[c[n]] = 0 BY <3>2, <3>3, <3>4
    <3> QED BY <1>7, <3>5, <3>6 DEF Follows
  <2>3. c[1] = n
    <3>1. 1 \in 1 .. n /\ n + 1 - 1 = n BY <1>0, <1>9
    <3> QED BY <3>1
  <2>4. Last(Forward) = n
    <3> DEFINE w == [i \in 1 .. n |-> i]
    <3>1. Forward = w BY ListForward
    <3>2. w \in [1 .. n -> 1 .. n] OBVIOUS
    <3>3. n \in 1 .. n /\ w[n] = n BY <1>0, <1>9
    <3> HIDE DEF w
    <3>4. Len(w) = n BY <1>0, <3>2, FunctionIsSeq
    <3> QED BY <3>1, <3>3, <3>4 DEF Last
  <2> HIDE DEF c, nx
  <2>5. f[c[1]] = c BY <1>0, <1>5, <1>6, <1>7, <2>1, <2>2, ChainRead
  <2> HIDE DEF n
  <2>6. Backward = c BY <1>1, <1>2, <1>9, <2>3, <2>4, <2>5
  <2> QED BY <2>6 DEF c, n
<1> QED BY <1>0, <1>8, <1>9

\* What traverse and reverse meet in the list.
LEMMA ListTraverse ==
    ASSUME HeapOK, ListShape
    PROVE  /\ traverse = [i \in 1 .. Len(llHeap) |-> llHeap[i].value]
           /\ Len(traverse) = Len(llHeap)
           /\ reverse = Reverse(traverse)
           /\ IsInjective(traverse)
<1> DEFINE n == Len(llHeap)
           t == [i \in 1 .. n |-> llHeap[i].value]
<1>0. n \in Nat /\ \A a \in 1 .. n : llHeap[a].value \in LLValues
  <2>1. n \in Nat /\ \A a \in 1 .. n : llHeap[a] \in [value : LLValues, previous : Nat, next : Nat]
    BY SeqElements DEF HeapOK
  <2> QED BY <2>1
<1>1. Forward = [i \in 1 .. n |-> i] BY ListForward
<1>2. Backward = [i \in 1 .. n |-> n + 1 - i] BY ListBackward
<1> HIDE DEF n
<1>3. traverse = t BY <1>1 DEF traverse
<1>4. t \in Seq(LLValues) /\ Len(t) = n
  <2>1. t \in [1 .. n -> LLValues] BY <1>0
  <2> HIDE DEF t
  <2> QED BY <1>0, <2>1, FunctionIsSeq
<1>5. reverse = [i \in 1 .. n |-> llHeap[n + 1 - i].value] BY <1>2 DEF reverse
<1>6. \A i \in 1 .. n : n - i + 1 \in 1 .. n /\ n - i + 1 = n + 1 - i BY <1>0
<1>7. \A i \in 1 .. n : t[n - i + 1] = llHeap[n + 1 - i].value BY <1>6
<1>8. IsInjective(t) BY DEF IsInjective, ListShape, n
<1> HIDE DEF t
<1>9. Reverse(t) = [i \in 1 .. n |-> t[n - i + 1]] BY <1>4 DEF Reverse
<1>10. Reverse(t) = reverse BY <1>5, <1>7, <1>9
<1> QED BY <1>3, <1>4, <1>8, <1>10 DEF t, n

\* addNode links the new node behind the last, or refuses a value that is there.
LEMMA AddStep ==
    ASSUME HeapOK, ListShape, NEW v \in LLValues, addNode(v)
    PROVE  HeapOK' /\ ListShape'
<1> DEFINE n == Len(llHeap)
           R == [value : LLValues, previous : Nat, next : Nat]
<1>1. llSize' = llSize BY DEF addNode
<1>2. CASE Contains(traverse, v)
  <2>1. UNCHANGED <<llHeap, llRoot, llSize>> BY <1>2 DEF addNode
  <2> QED BY <2>1 DEF HeapOK, ListShape
<1>3. CASE ~Contains(traverse, v)
  <2>1. n \in Nat /\ llHeap \in Seq(R) /\ \A a \in 1 .. n : llHeap[a] \in R BY SeqElements DEF HeapOK
  <2>2. \A a \in 1 .. n : llHeap[a].value # v BY <1>3, ListTraverse DEF Contains
  <2>3. ASSUME NEW g \in Seq(R), NEW x \in R, Len(g) = n,
               \A a \in 1 .. n : /\ g[a].value = llHeap[a].value
                                 /\ g[a].previous = llHeap[a].previous
                                 /\ g[a].next = a + 1,
               x.value = v, x.previous = n, x.next = 0,
               llHeap' = Append(g, x), llRoot' = 1
        PROVE  HeapOK' /\ ListShape'
    <3> HIDE DEF n, R
    <3>1. /\ llHeap' \in Seq(R) /\ Len(llHeap') = n + 1
          /\ llHeap'[n + 1] = x /\ \A a \in 1 .. n : llHeap'[a] = g[a]
      BY <2>3
    <3>2. HeapOK'
      <4>1. 1 \in 0 .. n + 1 BY <2>1
      <4> QED BY <1>1, <2>3, <3>1, <4>1 DEF HeapOK, R
    <3>3. \A a \in 1 .. n + 1 : a = n + 1 \/ a \in 1 .. n BY <2>1
    <3>4. \A a \in 1 .. n : a # n + 1 BY <2>1
    <3>5. \A a \in 1 .. n : llHeap[a].previous = a - 1 BY DEF ListShape, n
    <3>6. ASSUME NEW a \in 1 .. n + 1
          PROVE  llHeap'[a].next = (IF a = n + 1 THEN 0 ELSE a + 1) /\ llHeap'[a].previous = a - 1
      <4>1. CASE a = n + 1
        <5>1. a - 1 = n BY <2>1, <4>1
        <5> QED BY <2>3, <3>1, <4>1, <5>1
      <4>2. CASE a # n + 1
        <5>1. a \in 1 .. n BY <3>3, <4>2
        <5> QED BY <2>3, <3>1, <3>5, <4>2, <5>1
      <4> QED BY <4>1, <4>2
    <3>7. ASSUME NEW a \in 1 .. n + 1, NEW b \in 1 .. n + 1, llHeap'[a].value = llHeap'[b].value
          PROVE  a = b
      <4>1. \A k \in 1 .. n : llHeap'[k].value = llHeap[k].value BY <2>3, <3>1
      <4>2. llHeap'[n + 1].value = v BY <2>3, <3>1
      <4>3. \A k, l \in 1 .. n : llHeap[k].value = llHeap[l].value => k = l BY DEF ListShape, n
      <4> QED BY <2>2, <3>3, <3>7, <4>1, <4>2, <4>3
    <3>8. llRoot' = IF n + 1 = 0 THEN 0 ELSE 1 BY <2>1, <2>3
    <3>9. ListShape' BY <3>1, <3>6, <3>7, <3>8 DEF ListShape
    <3> QED BY <3>2, <3>9
  <2>4. CASE n = 0
    <3>1. llRoot = 0 BY <2>4 DEF ListShape
    <3>2. llHeap' = Append(llHeap, NodeOf(v, 0, 0)) /\ llRoot' = 1
      BY <1>3, <2>4, <3>1 DEF addNode, NewAddress
    <3> DEFINE x == NodeOf(v, 0, 0)
    <3>3. x \in R /\ x.value = v /\ x.previous = 0 /\ x.next = 0 BY DEF NodeOf
    <3>4. \A a \in 1 .. n : a # a BY <2>4
    <3> HIDE DEF x, R
    <3>5. llHeap' = Append(llHeap, x) BY <3>2 DEF x
    <3> QED BY <2>1, <2>3, <2>4, <3>2, <3>3, <3>4, <3>5
  <2>5. CASE n # 0
    <3> DEFINE y == [value |-> llHeap[n].value, previous |-> llHeap[n].previous, next |-> n + 1]
               x == NodeOf(v, n, 0)
               g == [llHeap EXCEPT ![n] = y]
    <3>0. n \in 1 .. n BY <2>1, <2>5
    <3>1. llRoot = 1 BY <2>5 DEF ListShape
    <3>2. Last(Forward) = n
      <4> DEFINE w == [i \in 1 .. n |-> i]
      <4>1. Forward = w BY ListForward
      <4>2. w \in [1 .. n -> 1 .. n] OBVIOUS
      <4>3. w[n] = n BY <3>0
      <4> HIDE DEF w, n
      <4>4. Len(w) = n BY <2>1, <4>2, FunctionIsSeq
      <4> QED BY <4>1, <4>3, <4>4 DEF Last
    <3>3. llHeap' = Append([llHeap EXCEPT ![n].next = n + 1], x) /\ llRoot' = 1
      BY <1>3, <3>1, <3>2 DEF addNode, NewAddress
    <3>4. [llHeap[n] EXCEPT !.next = n + 1] = y BY <2>1, <3>0
    <3>5. llHeap' = Append(g, x) BY <3>3, <3>4
    <3>6. x \in R /\ x.value = v /\ x.previous = n /\ x.next = 0 BY <2>1 DEF NodeOf
    <3>7. y \in R /\ y.value = llHeap[n].value /\ y.previous = llHeap[n].previous /\ y.next = n + 1
      BY <2>1, <3>0
    <3> HIDE DEF x, y, R
    <3>8. g \in Seq(R) /\ Len(g) = n /\ \A a \in 1 .. n : g[a] = IF a = n THEN y ELSE llHeap[a]
      BY <2>1, <3>0, <3>7
    <3>9. \A a \in 1 .. n : a # n => llHeap[a].next = a + 1 BY DEF ListShape
    <3> HIDE DEF g, n
    <3>10. \A a \in 1 .. n : /\ g[a].value = llHeap[a].value
                            /\ g[a].previous = llHeap[a].previous
                            /\ g[a].next = a + 1
      BY <3>7, <3>8, <3>9
    <3> QED BY <2>3, <3>3, <3>5, <3>6, <3>8, <3>10
  <2> QED BY <2>4, <2>5
<1> QED BY <1>2, <1>3

-----------------------------------------------------------------------------
(* The linked containers: what holds, and what the queue implements.       *)

\* At the start nothing is linked, and nothing is queued.
LEMMA LinkInit == LLInit => LinkInv /\ LinkedQueue!FFInit
<1> SUFFICES ASSUME LLInit PROVE LinkInv /\ LinkedQueue!FFInit OBVIOUS
<1>1. /\ llKind \in {"queue", "stack", "list"}
      /\ llHeap = <<>> /\ llRoot = 0 /\ llSize = 0 /\ llOut = Nil
  BY DEF LLInit
<1>2. HeapOK /\ Len(llHeap) = 0 BY <1>1 DEF HeapOK
<1>3. OlderNext BY <1>2 DEF OlderNext
<1>4. Chain(<<>>)
  <2> DEFINE c == <<>>
  <2>1. c \in Seq(1 .. Len(llHeap)) /\ Len(c) = 0 /\ c = <<>> OBVIOUS
  <2> HIDE DEF c
  <2>2. Chain(c) BY <1>1, <2>1 DEF Chain
  <2> QED BY <2>2 DEF c
<1>5. ListShape BY <1>1, <1>2 DEF ListShape
<1>6. LinkInv BY <1>1, <1>2, <1>3, <1>4, <1>5 DEF LinkInv
<1>7. llKind = "queue" => QueueItems = <<>>
  <2>1. Held(<<>>, llHeap) = <<>> BY DEF Held
  <2> QED BY <1>2, <1>3, <1>4, <2>1, TraverseIs DEF QueueItems
<1>8. QueueItems = <<>> BY <1>7 DEF QueueItems
<1>9. LinkedQueue!FFInit BY <1>1, <1>8 DEF LinkedQueue!FFInit, QueueItems
<1> QED BY <1>6, <1>9

\* PopLast: the last node, and nothing.
LEMMA LastChain ==
    ASSUME HeapOK, OlderNext, NEW c, Chain(c), PopLast
    PROVE  HeapOK' /\ OlderNext' /\ Chain(<<>>)'
<1> DEFINE d == <<>>
<1>1. llHeap' = llHeap /\ llSize' = 0 /\ llRoot' = (IF llSize = 0 THEN llRoot ELSE 0) /\ llSize <= 1
  BY DEF PopLast
<1>2. llSize = 0 => llRoot = 0 BY ChainFacts DEF Chain
<1>3. llRoot' = 0 BY <1>1, <1>2
<1>4. Len(llHeap) \in Nat BY ChainFacts
<1>5. HeapOK' /\ OlderNext' BY <1>1, <1>3, <1>4 DEF HeapOK, OlderNext
<1>6. d \in Seq(1 .. Len(llHeap')) /\ Len(d) = 0 /\ d = <<>> OBVIOUS
<1> HIDE DEF d
<1>7. Chain(d)' BY <1>1, <1>3, <1>6 DEF Chain
<1> QED BY <1>5, <1>7 DEF d

\* What the queue keeps, step by step, and that every step is one of a sequence.
LEMMA QueueStep ==
    ASSUME LinkInv, LLNext, llKind = "queue"
    PROVE  LinkInv' /\ LinkedQueue!FFNext
<1>1. HeapOK /\ OlderNext /\ \E c : Chain(c) BY DEF LinkInv
<1>2. PICK c : Chain(c) BY <1>1
<1>3. QueueItems = Held(c, llHeap) BY <1>1, <1>2, TraverseIs DEF QueueItems
<1>4. /\ Len(llHeap) \in Nat /\ Len(c) \in Nat
      /\ \A i \in 1 .. Len(c) : c[i] \in 1 .. Len(llHeap) /\ llHeap[c[i]].value \in LLValues
      /\ c = <<>> <=> Len(c) = 0
  BY <1>1, <1>2, ChainFacts
<1>5. c \in Seq(1 .. Len(llHeap)) /\ llSize = Len(c) /\ (c # <<>> => llRoot = c[1])
  BY <1>2 DEF Chain
<1>6. \A a \in 1 .. Len(llHeap) : llHeap[a].value \in LLValues
  <2>1. \A a \in 1 .. Len(llHeap) : llHeap[a] \in [value : LLValues, previous : Nat, next : Nat]
    BY <1>1, SeqElements DEF HeapOK
  <2> QED BY <2>1
<1>7. llKind' = "queue"
  BY DEF LLNext, QueuePush, StackPush, addNode, lookupNode, QueuePop, StackPop, PopLast, LLPush
<1>8. ASSUME NEW d, HeapOK', OlderNext', Chain(d)'
      PROVE  LinkInv' /\ QueueItems' = Held(d, llHeap')
  <2>1. LinkInv' BY <1>7, <1>8 DEF LinkInv
  <2>2. QueueItems' = Held(d, llHeap') BY <1>7, <1>8, ItemsNext
  <2> QED BY <2>1, <2>2
<1>9. ASSUME NEW v \in LLValues, QueuePush(v) PROVE LinkInv' /\ LinkedQueue!FFNext
  <2>a. PICK d : d = <<Len(llHeap) + 1>> \o c OBVIOUS
  <2>b. PICK k : k = llSize + 1 OBVIOUS
  <2>c. PICK n : n = Len(llHeap) OBVIOUS
  <2>d. PICK h : h = llHeap OBVIOUS
  <2>1. LLPush(v, k) /\ llOut' = Nil BY <1>9, <2>b DEF QueuePush, LLPush
  <2>2. /\ HeapOK' /\ OlderNext' /\ Chain(d)'
        /\ \A a \in 1 .. Len(llHeap) : llHeap'[a] = llHeap[a]
        /\ llHeap'[Len(llHeap) + 1].value = v
    BY <1>1, <1>2, <2>a, <2>b, <2>1, PushChain
  <2>3. Held(d, llHeap') = Append(Held(c, llHeap), v)
    <3> DEFINE g == llHeap'
    <3>1. /\ n \in Nat /\ c \in Seq(1 .. n)
          /\ Kept(n, h, g) /\ g[n + 1].value = v
      BY <1>4, <1>5, <1>6, <2>2, <2>c, <2>d DEF Kept
    <3> HIDE DEF g
    <3>2. Held(<<n + 1>> \o c, g) = Append(Held(c, h), v) BY <3>1, PushHeld
    <3> QED BY <2>a, <2>c, <2>d, <3>2 DEF g
  <2>4. LinkInv' /\ QueueItems' = Held(d, llHeap') BY <1>8, <2>2
  <2>5. QueueItems' = Append(QueueItems, v) BY <1>3, <2>3, <2>4
  <2>6. LinkedQueue!FFPush(v) BY <1>7, <2>1, <2>5 DEF LinkedQueue!FFPush, QueueItems
  <2> QED BY <2>4, <2>6 DEF LinkedQueue!FFNext
<1>10. CASE QueuePop
  <2> DEFINE d == [i \in 1 .. Len(c) - 1 |-> c[i]]
  <2>1. /\ HeapOK' /\ OlderNext' /\ Chain(d)'
        /\ \A a \in 1 .. Len(llHeap) : llHeap'[a].value = llHeap[a].value
        /\ llOut' = llHeap[c[Len(c)]].value
        /\ Len(c) > 1 /\ d \in Seq(1 .. Len(llHeap)) /\ Len(d) = Len(c) - 1
    BY <1>1, <1>2, <1>10, CutChain
  <2>2. \A i \in 1 .. Len(c) - 1 : d[i] = c[i] OBVIOUS
  <2> HIDE DEF d
  <2>3. /\ Held(c, llHeap) # <<>> /\ Head(Held(c, llHeap)) = llHeap[c[Len(c)]].value
        /\ Tail(Held(c, llHeap)) = Held(d, llHeap')
    <3>1. c # <<>> BY <1>4, <2>1
    <3>2. \A i \in 1 .. Len(d) : d[i] = c[i] BY <2>1, <2>2
    <3> DEFINE n == Len(llHeap)
               g == llHeap'
    <3>3. n \in Nat /\ c \in Seq(1 .. n) /\ d \in Seq(1 .. n) BY <1>4, <1>5, <2>1
    <3>5. Kept(n, llHeap, g) /\ CutOf(d, c) BY <1>6, <2>1, <3>2 DEF Kept, CutOf
    <3> HIDE DEF n, g
    <3>4. /\ Held(c, llHeap) # <<>> /\ Head(Held(c, llHeap)) = llHeap[c[Len(c)]].value
          /\ Tail(Held(c, llHeap)) = Held(d, g)
      BY <3>1, <3>3, <3>5, CutHeld
    <3> QED BY <3>4 DEF g
  <2>4. LinkInv' /\ QueueItems' = Held(d, llHeap') BY <1>8, <2>1
  <2>5. /\ QueueItems # <<>> /\ llOut' = Head(QueueItems) /\ QueueItems' = Tail(QueueItems)
    BY <1>3, <2>1, <2>3, <2>4
  <2>6. LinkedQueue!FFPop BY <1>7, <2>5 DEF LinkedQueue!FFPop, QueueItems
  <2> QED BY <2>4, <2>6 DEF LinkedQueue!FFNext
<1>11. CASE PopLast
  <2> DEFINE d == <<>>
  <2>0. d = <<>> /\ Len(d) = 0 OBVIOUS
  <2>1. HeapOK' /\ OlderNext' /\ Chain(d)' BY <1>1, <1>2, <1>11, LastChain
  <2> HIDE DEF d
  <2>2. LinkInv' /\ QueueItems' = Held(d, llHeap') BY <1>8, <2>1
  <2>3. Held(d, llHeap') = <<>> BY <2>0 DEF Held
  <2>4. /\ llSize <= 1 /\ llHeap' = llHeap
        /\ llOut' = IF llSize = 0 THEN Failed ELSE llHeap[llRoot].value
    BY <1>11 DEF PopLast
  <2>5. CASE llSize = 0
    <3>1. QueueItems = <<>>
      <4>1. Len(c) = 0 BY <1>5, <2>5
      <4> QED BY <1>3, <4>1 DEF Held
    <3>2. LinkedQueue!FFPop BY <1>7, <2>2, <2>3, <2>4, <2>5, <3>1 DEF LinkedQueue!FFPop, QueueItems
    <3> QED BY <2>2, <3>2 DEF LinkedQueue!FFNext
  <2>6. CASE llSize # 0
    <3>1. Len(c) = 1 /\ c # <<>> BY <1>4, <1>5, <2>4, <2>6
    <3>2. d \in Seq(1 .. Len(llHeap)) /\ Len(d) = Len(c) - 1 /\ \A i \in 1 .. Len(d) : d[i] = c[i]
      BY <2>0, <3>1
    <3>3. /\ Held(c, llHeap) # <<>> /\ Head(Held(c, llHeap)) = llHeap[c[Len(c)]].value
          /\ Tail(Held(c, llHeap)) = Held(d, llHeap')
      <4> DEFINE n == Len(llHeap)
                 g == llHeap'
      <4>3. n \in Nat /\ c \in Seq(1 .. n) /\ d \in Seq(1 .. n) BY <1>4, <1>5, <3>2
      <4>5. Kept(n, llHeap, g) /\ CutOf(d, c) BY <1>6, <2>4, <3>2 DEF Kept, CutOf
      <4> HIDE DEF n, g
      <4>4. /\ Held(c, llHeap) # <<>> /\ Head(Held(c, llHeap)) = llHeap[c[Len(c)]].value
            /\ Tail(Held(c, llHeap)) = Held(d, g)
        BY <3>1, <4>3, <4>5, CutHeld
      <4> QED BY <4>4 DEF g
    <3>4. llOut' = llHeap[c[Len(c)]].value BY <1>5, <2>4, <2>6, <3>1
    <3>5. /\ QueueItems # <<>> /\ llOut' = Head(QueueItems) /\ QueueItems' = Tail(QueueItems)
      BY <1>3, <2>2, <3>3, <3>4
    <3>6. LinkedQueue!FFPop BY <1>7, <3>5 DEF LinkedQueue!FFPop, QueueItems
    <3> QED BY <2>2, <3>6 DEF LinkedQueue!FFNext
  <2> QED BY <2>5, <2>6
<1> QED BY <1>9, <1>10, <1>11 DEF LLNext, StackPush, addNode, lookupNode, StackPop

\* What the stack keeps, step by step.
LEMMA StackStep ==
    ASSUME LinkInv, LLNext, llKind = "stack"
    PROVE  LinkInv' /\ llKind' = "stack"
<1>1. HeapOK /\ OlderNext /\ \E c : Chain(c) BY DEF LinkInv
<1>2. PICK c : Chain(c) BY <1>1
<1>3. llKind' = "stack"
  BY DEF LLNext, QueuePush, StackPush, addNode, lookupNode, QueuePop, StackPop, PopLast, LLPush
<1>4. ASSUME NEW d, HeapOK', OlderNext', Chain(d)' PROVE LinkInv' BY <1>3, <1>4 DEF LinkInv
<1>5. ASSUME NEW v \in LLValues, StackPush(v) PROVE LinkInv'
  <2>a. PICK d : d = <<Len(llHeap) + 1>> \o c OBVIOUS
  <2>b. PICK k : k = IF llRoot = 0 THEN 1 ELSE llSize + 1 OBVIOUS
  <2>1. LLPush(v, k) BY <1>5, <2>b DEF StackPush
  <2>2. k = llSize + 1
    <3>1. llSize = Len(c) /\ Len(c) \in Nat /\ (c = <<>> <=> Len(c) = 0) BY <1>1, <1>2, ChainFacts DEF Chain
    <3>2. c # <<>> => llRoot = c[1] /\ c[1] \in 1 .. Len(llHeap)
      <4>1. c # <<>> => 1 \in 1 .. Len(c) BY <3>1
      <4> QED BY <1>1, <1>2, <4>1, ChainFacts DEF Chain
    <3>3. c = <<>> => llRoot = 0 BY <1>2 DEF Chain
    <3> QED BY <2>b, <3>1, <3>2, <3>3
  <2>3. HeapOK' /\ OlderNext' /\ Chain(d)' BY <1>1, <1>2, <2>a, <2>1, <2>2, PushChain
  <2> QED BY <1>4, <2>3
<1>6. CASE StackPop
  <2>a. PICK d : d = [i \in 1 .. Len(c) - 1 |-> c[i + 1]] OBVIOUS
  <2>1. HeapOK' /\ OlderNext' /\ Chain(d)' BY <1>1, <1>2, <1>6, <2>a, PopChain
  <2> QED BY <1>3, <1>4, <2>1
<1>7. CASE PopLast
  <2>a. PICK d : d = <<>> OBVIOUS
  <2>1. HeapOK' /\ OlderNext' /\ Chain(d)' BY <1>1, <1>2, <1>7, <2>a, LastChain
  <2> QED BY <1>3, <1>4, <2>1
<1> QED BY <1>3, <1>5, <1>6, <1>7 DEF LLNext, QueuePush, addNode, lookupNode, QueuePop

\* What the list keeps, step by step.
LEMMA ListStep ==
    ASSUME LinkInv, LLNext, llKind = "list"
    PROVE  LinkInv' /\ llKind' = "list"
<1>1. HeapOK /\ ListShape BY DEF LinkInv
<1>2. llKind' = "list"
  BY DEF LLNext, QueuePush, StackPush, addNode, lookupNode, QueuePop, StackPop, PopLast, LLPush
<1>3. ASSUME NEW v \in LLValues, addNode(v) PROVE LinkInv'
  <2>1. HeapOK' /\ ListShape' BY <1>1, <1>3, AddStep
  <2> QED BY <1>2, <2>1 DEF LinkInv
<1>4. ASSUME NEW v \in LLValues, lookupNode(v) PROVE LinkInv'
  <2>1. UNCHANGED <<llHeap, llRoot, llSize>> BY <1>4 DEF lookupNode
  <2>2. HeapOK' /\ ListShape' BY <1>1, <2>1 DEF HeapOK, ListShape
  <2> QED BY <1>2, <2>2 DEF LinkInv
<1> QED BY <1>2, <1>3, <1>4 DEF LLNext, QueuePush, StackPush, QueuePop, StackPop, PopLast

\* Every operation of a linked container keeps its shape; one of the queue is one of a sequence.
LEMMA LinkStep ==
    ASSUME LinkInv, [LLNext]_llVars
    PROVE  LinkInv' /\ [LinkedQueue!FFNext]_(LinkedQueue!ffVars)
<1>1. CASE UNCHANGED llVars
  <2>1. UNCHANGED <<llKind, llHeap, llRoot, llSize, llOut>> BY <1>1 DEF llVars
  <2>2. LinkInv' BY <2>1 DEF LinkInv, HeapOK, OlderNext, Chain, ListShape
  <2>3. traverse' = traverse BY <2>1 DEF traverse, Forward
  <2>4. UNCHANGED LinkedQueue!ffVars BY <2>1, <2>3 DEF LinkedQueue!ffVars
  <2> QED BY <2>2, <2>4
<1>2. CASE LLNext
  <2>1. CASE llKind = "queue" BY <1>2, <2>1, QueueStep
  <2>2. CASE llKind = "stack"
    <3>1. LinkInv' /\ llKind' = "stack" BY <1>2, <2>2, StackStep
    <3>2. UNCHANGED LinkedQueue!ffVars BY <2>2, <3>1 DEF LinkedQueue!ffVars
    <3> QED BY <3>1, <3>2
  <2>3. CASE llKind = "list"
    <3>1. LinkInv' /\ llKind' = "list" BY <1>2, <2>3, ListStep
    <3>2. UNCHANGED LinkedQueue!ffVars BY <2>3, <3>1 DEF LinkedQueue!ffVars
    <3> QED BY <3>1, <3>2
  <2> QED BY <2>1, <2>2, <2>3 DEF LinkInv
<1> QED BY <1>1, <1>2

\* In that shape the counts and the order backwards are right.
LEMMA LinkInvLinks == LinkInv => ListsLinked
<1> SUFFICES ASSUME LinkInv PROVE ListsLinked OBVIOUS
<1>1. llKind # "list" => llSize = Len(traverse)
  <2> SUFFICES ASSUME llKind # "list" PROVE llSize = Len(traverse) OBVIOUS
  <2>1. HeapOK /\ OlderNext /\ \E c : Chain(c) BY DEF LinkInv
  <2>2. PICK c : Chain(c) BY <2>1
  <2>3. Len(traverse) = Len(c) BY <2>1, <2>2, TraverseIs
  <2> QED BY <2>2, <2>3 DEF Chain
<1>2. llKind = "list" => reverse = Reverse(traverse) /\ IsInjective(traverse)
  BY ListTraverse DEF LinkInv
<1> QED BY <1>1, <1>2 DEF ListsLinked

\* The linked queue of go/container/queue is a queue: Push and Pop, walking to the last node
\* but one or taking the only one, do what the same call of a sequence does.
THEOREM LinkedQueueImplementsFifo == LLSpec => LinkedQueueIsFifo
<1> QED BY LinkInit, LinkStep, PTL DEF LLSpec, LinkedQueueIsFifo, LinkedQueue!FFSpec

\* Pointers and counts of go/container: the size is the number of nodes that can be reached,
\* and the list, read from its end, is the list backwards, with each value once.
THEOREM LinksHold == LLSpec => []ListsLinked
<1> QED BY LinkInit, LinkStep, LinkInvLinks, PTL DEF LLSpec

\* The containers are correct: both queues implement a sequence, the ring is visited in order,
\* and the linked nodes are as many as counted.
THEOREM ContainersAreCorrect == RBSpec /\ LLSpec => ContainersCorrect
<1> QED BY RingImplementsFifo, RingIteratesInOrder, LinkedQueueImplementsFifo, LinksHold, PTL
        DEF ContainersCorrect
=============================================================================
