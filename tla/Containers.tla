----------------------------- MODULE Containers -----------------------------
(***************************************************************************)
(* The containers of go/range and go/container side by side: they share    *)
(* no state, and promise the same things.                                  *)
(***************************************************************************)
EXTENDS RingBuffer, LinkedLists

\* The ring buffer and the linked queue are queues, and both they and the stack and the
\* list keep their slots, pointers and counts.
ContainersCorrect ==
    RingIsFifo /\ LinkedQueueIsFifo /\ [](RingIterates /\ ListsLinked)
=============================================================================
