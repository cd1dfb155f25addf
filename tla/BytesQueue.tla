---------------------------- MODULE BytesQueue -----------------------------
(***************************************************************************)
(* BytesQueue: a queue of byte entries in one ring of bytes that grows.    *)
(* The array is abstracted to the set of blocks that are intact in it: a   *)
(* block starts at "at" with the uvarint of its own size, takes "size"     *)
(* bytes in all, and carries entry "id" (Filler for the empty block        *)
(* allocateAdditionalMemory writes over the gap of a wrapped ring).        *)
(* A write destroys every block it overlaps.                               *)
(***************************************************************************)
EXTENDS Integers, FiniteSets

CONSTANTS
    Lengths,        \* lengths of the entries pushed
    InitCapacity,   \* NewBytesQueue(capacity, maxCapacity, ...)
    MaxCapacity,    \* 0: unlimited
    MaxPushes,      \* bound: number of Push calls explored
    MaxResets       \* bound: number of Reset calls explored

ASSUME LengthsAreNat == Lengths \subseteq Nat
\* headerBuffer has five bytes; Go on 32 bits has no longer slices either.
ASSUME LengthsFitHeader == \A len \in Lengths : len <= 2147483642
ASSUME CapacitiesAreNat == /\ InitCapacity \in Nat /\ MaxCapacity \in Nat
                           /\ MaxCapacity = 0 \/ InitCapacity <= MaxCapacity
ASSUME BoundsAreNat == MaxPushes \in Nat /\ MaxResets \in Nat

VARIABLES
    capacity, head, tail, rightMargin, full, count,   \* fields of BytesQueue
    blocks,     \* the intact blocks of array that have not been popped
    entries,    \* history: [id, at, len] of every entry pushed and not popped
    pushes,     \* history: number of Push calls, the source of entry ids
    resets,     \* history: number of Reset calls
    regrown     \* history: the array grew while the ring was wrapped

ring == <<capacity, head, tail, rightMargin, full, count, blocks>>
history == <<entries, pushes, resets, regrown>>
bqVars == <<ring, history>>

minimumHeaderSize == 17
leftMarginIndex == 1
Filler == 0

Block == [at : Nat, size : Nat, id : Nat]
BQEntry == [at : Nat, len : Nat, id : Nat]

BQInit ==
    /\ capacity = InitCapacity
    /\ head = leftMarginIndex /\ tail = leftMarginIndex /\ rightMargin = leftMarginIndex
    /\ full = FALSE /\ count = 0
    /\ blocks = {}
    /\ entries = {} /\ pushes = 0 /\ resets = 0 /\ regrown = FALSE

-----------------------------------------------------------------------------
(* Sizes and room.                                                         *)

\* The number of bytes of a header, given the first values that need one byte more.
HeaderSize(x, two, three, four, five) ==
    IF x < two THEN 1 ELSE IF x < three THEN 2 ELSE IF x < four THEN 3
    ELSE IF x < five THEN 4 ELSE 5

getNeededSize(length) ==
    length + HeaderSize(length, 127, 16382, 2097149, 268435452)

\* binary.PutUvarint: seven bits of the value per byte.
PutUvarint(x) == HeaderSize(x, 128, 16384, 2097152, 268435456)

\* The free gap in front of head holds need bytes exactly, or with the space of
\* a further header to spare.
GapFits(gap, need) == gap = need \/ gap >= need + minimumHeaderSize

canInsertAfterTail(need) ==
    /\ ~full
    /\ IF tail >= head THEN capacity - tail >= need ELSE GapFits(head - tail, need)

canInsertBeforeHead(need) ==
    /\ ~full
    /\ IF tail >= head THEN GapFits(head - leftMarginIndex, need) ELSE GapFits(head - tail, need)

\* The capacity allocateAdditionalMemory(minimum) chooses.
GrownCapacity(minimum) ==
    LET doubled == 2 * (IF capacity < minimum THEN capacity + minimum ELSE capacity)
    IN  IF MaxCapacity > 0 /\ doubled > MaxCapacity THEN MaxCapacity ELSE doubled

-----------------------------------------------------------------------------
(* Push.                                                                     *)

Overlaps(b, c) == b.at < c.at + c.size /\ c.at < b.at + b.size

\* The blocks in the array after block b has been written.
Written(bs, b) == {c \in bs : ~Overlaps(b, c)} \cup {b}

\* push(data, len): copy stops at the end of the array, which tears the block.
\* cap, t, h, m, bs are the fields the caller has set before.
PushAt(cap, t, h, m, bs, size, len) ==
    LET room  == IF cap - t >= size THEN size ELSE cap - t
        block == [at |-> t, size |-> size, id |-> pushes + 1]
        torn  == [at |-> t, size |-> room, id |-> Filler]
    IN  /\ blocks' = IF room = size THEN Written(bs, block)
                     ELSE {c \in bs : ~Overlaps(torn, c)}
        /\ tail' = t + room
        /\ rightMargin' = IF t + room > h THEN t + room ELSE m
        /\ full' = (t + room = h)
        /\ head' = h
        /\ capacity' = cap
        /\ entries' = entries \cup {[at |-> t, len |-> len, id |-> pushes + 1]}
        /\ pushes' = pushes + 1
        /\ UNCHANGED resets

PushAfterTail(len) ==
    LET need == getNeededSize(len) IN
    /\ pushes < MaxPushes
    /\ canInsertAfterTail(need)
    /\ PushAt(capacity, tail, head, rightMargin, blocks, need, len)
    /\ count' = count + 1
    /\ UNCHANGED regrown

PushBeforeHead(len) ==
    LET need == getNeededSize(len) IN
    /\ pushes < MaxPushes
    /\ ~canInsertAfterTail(need) /\ canInsertBeforeHead(need)
    /\ PushAt(capacity, leftMarginIndex, head, rightMargin, blocks, need, len)
    /\ count' = count + 1
    /\ UNCHANGED regrown

NoRoom(need) ==
    /\ pushes < MaxPushes
    /\ ~canInsertAfterTail(need) /\ ~canInsertBeforeHead(need)

MustRefuse(need) == capacity + need >= MaxCapacity /\ MaxCapacity > 0

\* errFullQueue: nothing changes.
PushFullQueue(len) ==
    /\ NoRoom(getNeededSize(len)) /\ MustRefuse(getNeededSize(len))
    /\ pushes' = pushes + 1
    /\ UNCHANGED <<ring, entries, resets, regrown>>

\* The blocks copied to the new array: oldArray[:rightMargin].
Copied == {b \in blocks : b.at + b.size <= rightMargin}

\* allocateAdditionalMemory with the data in one piece (or none), then push.
PushGrow(len) ==
    LET need == getNeededSize(len) IN
    /\ NoRoom(need) /\ ~MustRefuse(need)
    /\ leftMarginIndex = rightMargin \/ tail > head
    /\ PushAt(GrownCapacity(need), tail, head, rightMargin,
              IF leftMarginIndex # rightMargin THEN Copied ELSE {}, need, len)
    /\ count' = count + 1
    /\ UNCHANGED regrown

\* Mutant: the gap of the wrapped ring is not filled.
PushGrowWrapped_NoFiller(len) ==
    LET need == getNeededSize(len) IN
    /\ NoRoom(need) /\ ~MustRefuse(need)
    /\ leftMarginIndex # rightMargin /\ tail <= head
    /\ PushAt(GrownCapacity(need), rightMargin, leftMarginIndex, rightMargin, Copied, need, len)
    /\ count' = count + 1
    /\ regrown' = TRUE

\* The same with the ring wrapped: an empty block fills the gap between tail and
\* head, it counts as an element, and reading restarts at the left margin.
PushGrowWrapped(len) ==
    LET need == getNeededSize(len)
        gap  == [at |-> tail, size |-> head - tail, id |-> Filler]
    IN  /\ NoRoom(need) /\ ~MustRefuse(need)
        /\ leftMarginIndex # rightMargin /\ tail <= head
        /\ PushAt(GrownCapacity(need), rightMargin, leftMarginIndex, rightMargin,
                  IF tail # head THEN Written(Copied, gap) ELSE Copied, need, len)
        /\ count' = count + (IF tail # head THEN 2 ELSE 1)
        /\ regrown' = TRUE

BQPush(len) == \/ PushAfterTail(len) \/ PushBeforeHead(len) \/ PushFullQueue(len)
               \/ PushGrow(len) \/ PushGrowWrapped(len)

-----------------------------------------------------------------------------
(* Pop and Reset.  Peek, Get, CheckGet, Capacity and Len only read.        *)

\* peek(index): what is read from an index is the block that starts there.
BlocksAt(index) == {b \in blocks : b.at = index}

Pop ==
    /\ count > 0
    /\ \E b \in BlocksAt(head) :
        LET next == head + b.size IN
        /\ blocks' = blocks \ {b}
        /\ entries' = {e \in entries : e.id # b.id}
        /\ head' = IF next = rightMargin THEN leftMarginIndex ELSE next
        /\ tail' = IF next = rightMargin /\ tail = rightMargin THEN leftMarginIndex ELSE tail
        /\ rightMargin' = IF next = rightMargin THEN tail' ELSE rightMargin
    /\ count' = count - 1
    /\ full' = FALSE
    /\ UNCHANGED <<capacity, pushes, resets, regrown>>

Reset ==
    /\ resets < MaxResets
    /\ tail' = leftMarginIndex /\ head' = leftMarginIndex /\ rightMargin' = leftMarginIndex
    /\ count' = 0 /\ full' = FALSE
    /\ blocks' = {} /\ entries' = {}
    /\ resets' = resets + 1 /\ regrown' = FALSE
    /\ UNCHANGED <<capacity, pushes>>

BQNext == (\E len \in Lengths : BQPush(len)) \/ Pop \/ Reset

BQSpec == BQInit /\ [][BQNext]_bqVars

-----------------------------------------------------------------------------
(* Properties.                                                             *)

\* Types, and the bounds of the fields: the indices stay inside the array, and
\* the array within MaxCapacity.
BQTypeOK ==
    /\ capacity \in Nat /\ (MaxCapacity > 0 => capacity <= MaxCapacity)
    /\ head \in Nat /\ tail \in Nat /\ rightMargin \in Nat
    /\ count > 0 => head < capacity /\ tail <= capacity /\ rightMargin <= capacity
    /\ full \in BOOLEAN /\ count \in Nat
    /\ blocks \subseteq Block /\ entries \subseteq BQEntry
    /\ pushes \in Nat /\ resets \in Nat /\ regrown \in BOOLEAN

\* "For every push operation index of entry is returned. It can be used to read
\* the entry later": until the entry is popped, a whole block with the entry and
\* its length is at the index Push returned, through wrap-around and growth.
IndexReadsEntry ==
    \A e \in entries : \E b \in blocks :
        b.id = e.id /\ b.at = e.at /\ b.size - PutUvarint(b.size) = e.len

\* Pop never reads anything but a block: while Len is positive a block starts at
\* head, and Len counts the blocks.
HeadIsABlock == count = Cardinality(blocks) /\ (count > 0 => BlocksAt(head) # {})

\* The flag full tells the two meanings of tail = head apart: full is set if and
\* only if there is data and no gap, so an empty queue always accepts an entry
\* that fits into its array.
FullMeansNoGap == full <=> (count > 0 /\ tail = head)

\* As long as the array never grew while wrapped, Pop takes the oldest entry.
FifoUntilRegrown ==
    [][~regrown /\ Pop => \A e \in entries' : \A p \in entries \ entries' : p.id < e.id]_bqVars

\* The queue as its callers see it: an index reads its entry, Pop finds a block, the flag
\* full is exact, and order is kept until the array grows while wrapped.
QueueCorrect ==
    /\ [](BQTypeOK /\ IndexReadsEntry /\ HeadIsABlock /\ FullMeansNoGap)
    /\ FifoUntilRegrown
=============================================================================
