-------------------------------- MODULE Fifo --------------------------------
(***************************************************************************)
(* What a first-in first-out container promises: a sequence, and what the  *)
(* last call has returned.  RingBuffer and LinkedQueue implement it.       *)
(***************************************************************************)
EXTENDS Outcomes, Naturals, Sequences

CONSTANT FFValues

VARIABLES ffItems, ffOut

ffVars == <<ffItems, ffOut>>

FFInit == ffItems = <<>> /\ ffOut = Nil

FFPush(v) == ffItems' = Append(ffItems, v) /\ ffOut' = Nil

\* Pop says when there is nothing.
FFPop ==
    \/ ffItems # <<>> /\ ffOut' = Head(ffItems) /\ ffItems' = Tail(ffItems)
    \/ ffItems = <<>> /\ ffOut' = Failed /\ UNCHANGED ffItems

FFPeek ==
    /\ ffOut' = IF ffItems = <<>> THEN Failed ELSE Head(ffItems)
    /\ UNCHANGED ffItems

\* Discard returns how many it has removed.
FFDiscard(k) ==
    /\ ffItems' = SubSeq(ffItems, k + 1, Len(ffItems))
    /\ ffOut' = [discarded |-> k]

FFClear == ffItems' = <<>> /\ ffOut' = Nil

FFNext ==
    \/ \E v \in FFValues : FFPush(v)
    \/ FFPop \/ FFPeek \/ FFClear
    \/ \E k \in 0 .. Len(ffItems) : FFDiscard(k)

FFSpec == FFInit /\ [][FFNext]_ffVars
=============================================================================
