---------------------------- MODULE LinkedLists ----------------------------
(***************************************************************************)
(* go/container/queue, stack and list: linked nodes behind a pointer in a  *)
(* global variable, with a count beside it.  A behaviour is one of one of  *)
(* the three, llKind.                                                      *)
(*                                                                         *)
(* Nodes are records in a heap; address 0 is nil.  Each program sets its   *)
(* variable to nil before the first call.                                  *)
(***************************************************************************)
EXTENDS Outcomes, Naturals, Sequences, SequencesExt

CONSTANTS
    LLValues,
    LLMaxNodes      \* bound: how many nodes are ever made

ASSUME LLAssumption == LLMaxNodes \in Nat /\ Nil \notin LLValues /\ Failed \notin LLValues

VARIABLES llKind, llHeap, llRoot, llSize, llOut

llVars == <<llKind, llHeap, llRoot, llSize, llOut>>

LLInit ==
    /\ llKind \in {"queue", "stack", "list"}
    /\ llHeap = <<>> /\ llRoot = 0 /\ llSize = 0 /\ llOut = Nil

NodeOf(v, previous, next) == [value |-> v, previous |-> previous, next |-> next]
NewAddress == Len(llHeap) + 1

\* The nodes from address a on, as the loops that follow Next meet them.
Forward ==
    LET f[a \in 0 .. Len(llHeap)] == IF a = 0 THEN <<>> ELSE <<a>> \o f[llHeap[a].next]
    IN  f[llRoot]

Backward ==
    LET f[a \in 0 .. Len(llHeap)] == IF a = 0 THEN <<>> ELSE <<a>> \o f[llHeap[a].previous]
    IN  IF llRoot = 0 THEN <<>> ELSE f[Last(Forward)]

\* traverse, and reverse, of the values.
traverse == [i \in DOMAIN Forward |-> llHeap[Forward[i]].value]
reverse == [i \in DOMAIN Backward |-> llHeap[Backward[i]].value]

-----------------------------------------------------------------------------
(* The queue takes the newest node first and the oldest one last; the      *)
(* stack is pushed to alike.                                               *)

LLPush(v, n) ==
    /\ Len(llHeap) < LLMaxNodes
    /\ llHeap' = Append(llHeap, NodeOf(v, 0, llRoot))
    /\ llRoot' = NewAddress
    /\ llSize' = n
    /\ llOut' = Nil
    /\ UNCHANGED llKind

QueuePush(v) == llKind = "queue" /\ LLPush(v, llSize + 1)

StackPush(v) == llKind = "stack" /\ LLPush(v, IF llRoot = 0 THEN 1 ELSE llSize + 1)

\* Pop walks to the last node but one and cuts the last.
QueuePop ==
    LET n == Len(Forward)
        temp == Forward[n - 1]
    IN
    /\ llKind = "queue" /\ llSize > 1
    /\ llOut' = llHeap[llHeap[temp].next].value
    /\ llHeap' = [llHeap EXCEPT ![temp].next = 0]
    /\ llSize' = llSize - 1
    /\ UNCHANGED <<llKind, llRoot>>

StackPop ==
    /\ llKind = "stack" /\ llSize > 1
    /\ llOut' = llHeap[llRoot].value
    /\ llRoot' = llHeap[llRoot].next
    /\ llSize' = llSize - 1
    /\ UNCHANGED <<llKind, llHeap>>

\* Pop of the last node, and of nothing.
PopLast ==
    /\ llKind \in {"queue", "stack"} /\ llSize <= 1
    /\ llOut' = IF llSize = 0 THEN Failed ELSE llHeap[llRoot].value
    /\ llSize' = 0
    /\ llRoot' = IF llSize = 0 THEN llRoot ELSE 0
    /\ UNCHANGED <<llKind, llHeap>>

-----------------------------------------------------------------------------
(* The list: addNode and lookupNode walk from the root until the value or  *)
(* the end.                                                                *)

addNode(v) ==
    /\ llKind = "list" /\ Len(llHeap) < LLMaxNodes
    /\ IF Contains(traverse, v) THEN llOut' = Failed /\ UNCHANGED <<llHeap, llRoot>>
       ELSE /\ llOut' = Nil
            /\ IF llRoot = 0 THEN llRoot' = NewAddress /\ llHeap' = Append(llHeap, NodeOf(v, 0, 0))
               ELSE /\ llHeap' = Append([llHeap EXCEPT ![Last(Forward)].next = NewAddress],
                                        NodeOf(v, Last(Forward), 0))
                    /\ UNCHANGED llRoot
    /\ UNCHANGED <<llKind, llSize>>

lookupNode(v) ==
    /\ llKind = "list"
    /\ llOut' = IF Contains(traverse, v) THEN v ELSE Failed
    /\ UNCHANGED <<llKind, llHeap, llRoot, llSize>>

LLNext ==
    \/ \E v \in LLValues : QueuePush(v) \/ StackPush(v) \/ addNode(v) \/ lookupNode(v)
    \/ QueuePop \/ StackPop \/ PopLast

LLSpec == LLInit /\ [][LLNext]_llVars

-----------------------------------------------------------------------------

\* The linked queue is a queue: what is pushed first is popped first, once, whatever the
\* pushes and pops between; the last node is taken like any other.
LinkedQueue == INSTANCE Fifo WITH
    FFValues <- LLValues,
    ffItems <- IF llKind = "queue" THEN Reverse(traverse) ELSE <<>>,
    ffOut <- IF llKind = "queue" THEN llOut ELSE Nil
LinkedQueueIsFifo == LinkedQueue!FFSpec

\* Pointers and counts: the count is the number of nodes that can be reached, and the list
\* read backwards is the list, each value once.
ListsLinked ==
    /\ llKind # "list" => llSize = Len(traverse)
    /\ llKind = "list" => reverse = Reverse(traverse) /\ IsInjective(traverse)
=============================================================================
