----------------------------- MODULE RingBuffer -----------------------------
(***************************************************************************)
(* go/range/buffer.go: a ring of slots between head and tail that grows    *)
(* when one slot is left.  One slot stays empty, so that head = tail means *)
(* empty.  Nil is the zero value of a slot.                                *)
(***************************************************************************)
EXTENDS Outcomes, Naturals, Sequences, FiniteSets, SequencesExt

CONSTANTS
    RBValues,       \* elements
    RBSizes,        \* sizes NewRingBuffer is asked for
    RINGBUFFER_MIN, RINGBUFFER_EXP,
    RBMaxSize       \* bound: a full ring of this size is not pushed to

ASSUME RBAssumption ==
    /\ RBSizes \subseteq Nat /\ RBMaxSize \in Nat
    /\ RINGBUFFER_MIN \in Nat \ {0, 1} /\ RINGBUFFER_EXP \in Nat
    /\ Nil \notin RBValues

VARIABLES rbHead, rbTail, rbElements, rbOut

rbVars == <<rbHead, rbTail, rbElements, rbOut>>

Cap(e) == Cardinality(DOMAIN e)

NewRingBuffer(size) ==
    /\ rbHead = 0 /\ rbTail = 0 /\ rbOut = Nil
    /\ rbElements = [i \in 0 .. (IF size <= RINGBUFFER_MIN THEN RINGBUFFER_MIN ELSE size) - 1 |-> Nil]

RBInit == \E size \in RBSizes : NewRingBuffer(size)

RBLen == IF rbHead <= rbTail THEN rbTail - rbHead ELSE Cap(rbElements) - rbHead + rbTail

IsFull == (rbTail + 1) % Cap(rbElements) = rbHead

\* elements[a:b]
Slice(a, b) == [i \in 1 .. b - a |-> rbElements[a + i - 1]]

\* The order in which ForEach, and grow's copies, go through the ring.
ForEach == IF rbHead < rbTail THEN Slice(rbHead, rbTail)
           ELSE IF RBLen = 0 THEN <<>> ELSE Slice(rbHead, Cap(rbElements)) \o Slice(0, rbTail)

ForEachReverse ==
    IF rbHead < rbTail THEN Reverse(Slice(rbHead, rbTail))
    ELSE IF RBLen = 0 THEN <<>>
    ELSE Reverse(Slice(0, rbTail)) \o Reverse(Slice(rbHead, Cap(rbElements)))

\* The size grow goes to.
GrownSize(n) ==
    IF n < RINGBUFFER_MIN THEN RINGBUFFER_MIN
    ELSE IF n < RINGBUFFER_EXP THEN n * 2 ELSE n + (n + 9) \div 10

\* Mutant: the slots are copied as they lie.
Grown_Unordered == [i \in 0 .. GrownSize(Cap(rbElements)) - 1 |->
                      IF i < Cap(rbElements) THEN rbElements[i] ELSE Nil]

\* grow: the elements in their order at the start of a larger slice.
Grown == [i \in 0 .. GrownSize(Cap(rbElements)) - 1 |->
            IF i < RBLen THEN ForEach[i + 1] ELSE Nil]

Push(v) ==
    LET elements == IF IsFull THEN Grown ELSE rbElements
        tail == IF IsFull THEN RBLen ELSE rbTail
    IN
    /\ IsFull => Cap(rbElements) < RBMaxSize
    /\ rbElements' = [elements EXCEPT ![tail] = v]
    /\ rbTail' = (tail + 1) % Cap(elements)
    /\ rbHead' = IF IsFull THEN 0 ELSE rbHead
    /\ rbOut' = Nil

\* Pop clears the slot.
RBPop ==
    /\ IF RBLen = 0 THEN rbOut' = Failed /\ UNCHANGED <<rbHead, rbElements>>
       ELSE /\ rbOut' = rbElements[rbHead]
            /\ rbElements' = [rbElements EXCEPT ![rbHead] = Nil]
            /\ rbHead' = (rbHead + 1) % Cap(rbElements)
    /\ UNCHANGED rbTail

Peek ==
    /\ rbOut' = IF RBLen = 0 THEN Failed ELSE rbElements[rbHead]
    /\ UNCHANGED <<rbHead, rbTail, rbElements>>

\* The slots of the first n elements.
FirstSlots(n) == {(rbHead + i) % Cap(rbElements) : i \in 0 .. n - 1}

\* The slots Clear goes through.
LiveSlots == IF rbHead <= rbTail THEN rbHead .. rbTail - 1
             ELSE (rbHead .. Cap(rbElements) - 1) \cup (0 .. rbTail - 1)

Cleared == [i \in DOMAIN rbElements |-> IF i \in LiveSlots THEN Nil ELSE rbElements[i]]

Clear ==
    /\ rbElements' = Cleared
    /\ rbHead' = 0 /\ rbTail' = 0 /\ rbOut' = Nil

\* Discard of all there is clears the ring.
Discard(n) ==
    LET k == IF n < RBLen THEN n ELSE RBLen IN
    /\ rbOut' = [discarded |-> k]
    /\ IF k = RBLen THEN rbElements' = Cleared /\ rbHead' = 0 /\ rbTail' = 0
       ELSE /\ rbElements' = [i \in DOMAIN rbElements |-> IF i \in FirstSlots(k) THEN Nil ELSE rbElements[i]]
            /\ rbHead' = (rbHead + k) % Cap(rbElements)
            /\ UNCHANGED rbTail

RBNext ==
    \/ \E v \in RBValues : Push(v)
    \/ RBPop \/ Peek \/ Clear
    \/ \E n \in 0 .. RBMaxSize : Discard(n)

RBSpec == RBInit /\ [][RBNext]_rbVars

-----------------------------------------------------------------------------

\* The elements from head on, by their number.
Contents == [i \in 1 .. RBLen |-> rbElements[(rbHead + i - 1) % Cap(rbElements)]]

\* Push, Pop, Peek, Discard and Clear, with the growing behind them, are those of a queue:
\* nothing is lost, doubled or reordered by wrapping around or by growing.
Queue == INSTANCE Fifo WITH FFValues <- RBValues, ffItems <- Contents, ffOut <- rbOut
RingIsFifo == Queue!FFSpec

\* ForEach and ForEachReverse visit just what is in the ring, in its order and against it,
\* and a slot that holds no element holds no reference either.
RingIterates ==
    /\ ForEach = Contents /\ ForEachReverse = Reverse(Contents)
    /\ \A i \in DOMAIN rbElements : (rbElements[i] # Nil) = (i \in LiveSlots)
=============================================================================
