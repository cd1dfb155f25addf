----------------------------- MODULE Pipelines -----------------------------
(***************************************************************************)
(* concurrency/channel/pipeline.go and cmd/pipleline: stages that hand     *)
(* values on over unbuffered channels, and Or, which joins channels into   *)
(* one that is closed as soon as one of them is.                           *)
(*                                                                         *)
(* A pipeline is a Generator with a Multiply and an Add behind it, or a    *)
(* feeder, which knows nothing of done, with AddOnPipes, which do not see  *)
(* that the channel before them is closed and then read zeros from it.     *)
(* Stage 0 makes the values; the consumer is one more than the last stage. *)
(***************************************************************************)
EXTENDS Outcomes, Naturals, Sequences, SequencesExt

CONSTANTS
    PLValues,       \* the values of the generator or feeder, in order
    PLStages,       \* how many stages follow
    PLOrInputs      \* how many channels Or is given, two at least

ASSUME PLAssumption ==
    PLValues \in Seq(Nat \ {0}) /\ PLStages \in Nat \ {0} /\ PLOrInputs \in Nat \ {0, 1}

VARIABLES
    plChecked,      \* Generator, Multiply and Add; FALSE: AddOnPipe
    plPc, plVal,    \* each stage: "recv", "send" or "closed", and the value it sends
    plNext,         \* stage 0: how many values it has handed on
    plDone,         \* done, or quit, is closed
    plGot, plLeft,  \* what the consumer has received; it receives no more
    plUse, orClosed \* "idle", "pipe" or "or"; Or: the channels that are closed

plVars == <<plChecked, plPc, plVal, plNext, plDone, plGot, plLeft, plUse, orClosed>>

Stages == 1 .. PLStages

PLInit ==
    /\ plChecked \in BOOLEAN
    /\ plPc = [i \in 0 .. PLStages |-> "recv"]
    /\ plVal = [i \in Stages |-> 0]
    /\ plNext = 0 /\ plDone = FALSE
    /\ plGot = <<>> /\ plLeft = FALSE
    /\ plUse = "idle" /\ orClosed = {}

\* A pipeline is made, or Or is called.
Begin ==
    /\ plUse = "idle"
    /\ plUse' \in {"pipe", "or"}
    /\ UNCHANGED <<plChecked, plPc, plVal, plNext, plDone, plGot, plLeft, orClosed>>

\* What stage i makes of a value: v * factor, v + delta.
Apply(i, v) == IF i % 2 = 1 THEN v * 2 ELSE v + 1

\* Stage i takes v: it will block in the send until its reader takes it, done or not.
Takes(i, v) ==
    /\ plPc[i] = "recv"
    /\ plPc' = [plPc EXCEPT ![i] = "send"]
    /\ plVal' = [plVal EXCEPT ![i] = Apply(i, v)]

\* Stage 0 hands its next value to stage 1.
GenerateNext ==
    /\ plUse = "pipe" /\ plPc[0] = "recv" /\ plNext < Len(PLValues)
    /\ Takes(1, PLValues[plNext + 1])
    /\ plNext' = plNext + 1
    /\ UNCHANGED <<plChecked, plDone, plGot, plLeft, plUse, orClosed>>

\* The Generator closes at the end of its values, or when it sees done instead of a reader.
\* The feeder does not close anything.
GeneratorEnds ==
    /\ plUse = "pipe" /\ plChecked /\ plPc[0] = "recv"
    /\ plNext = Len(PLValues) \/ plDone
    /\ plPc' = [plPc EXCEPT ![0] = "closed"]
    /\ UNCHANGED <<plChecked, plVal, plNext, plDone, plGot, plLeft, plUse, orClosed>>

\* Stage i hands its value on to the next stage.
Hand(i) ==
    /\ i < PLStages /\ plPc[i] = "send" /\ plPc[i + 1] = "recv"
    /\ plPc' = [plPc EXCEPT ![i] = "recv", ![i + 1] = "send"]
    /\ plVal' = [plVal EXCEPT ![i + 1] = Apply(i + 1, plVal[i])]
    /\ UNCHANGED <<plChecked, plNext, plDone, plGot, plLeft, plUse, orClosed>>

\* Mutant: a closed channel is read like any other.
UpstreamClosed_Unchecked(i) ==
    /\ plPc[i - 1] = "closed" /\ plPc[i] = "recv"
    /\ Takes(i, 0)
    /\ UNCHANGED <<plChecked, plNext, plDone, plGot, plLeft, plUse, orClosed>>

\* The channel before stage i is closed: Multiply and Add see it, AddOnPipe reads a zero.
UpstreamClosed(i) ==
    /\ plPc[i - 1] = "closed" /\ plPc[i] = "recv"
    /\ IF plChecked THEN plPc' = [plPc EXCEPT ![i] = "closed"] /\ UNCHANGED plVal
       ELSE Takes(i, 0)
    /\ UNCHANGED <<plChecked, plNext, plDone, plGot, plLeft, plUse, orClosed>>

\* Mutant: only the first stage looks at done.
SeesDone_FirstOnly(i) ==
    /\ plDone /\ plPc[i] = "recv" /\ i = 1
    /\ plPc' = [plPc EXCEPT ![i] = "closed"]
    /\ UNCHANGED <<plChecked, plVal, plNext, plDone, plGot, plLeft, plUse, orClosed>>

\* A stage that waits for a value may see done instead.
SeesDone(i) ==
    /\ plDone /\ plPc[i] = "recv"
    /\ plPc' = [plPc EXCEPT ![i] = "closed"]
    /\ UNCHANGED <<plChecked, plVal, plNext, plDone, plGot, plLeft, plUse, orClosed>>

\* The consumer receives what the last stage sends.  AddOnPipe's may get more than was fed
\* once quit is closed: bounded by one zero too many.
Consume ==
    /\ ~plLeft /\ plPc[PLStages] = "send"
    /\ plPc' = [plPc EXCEPT ![PLStages] = "recv"]
    /\ plGot' = IF Len(plGot) <= Len(PLValues) THEN Append(plGot, plVal[PLStages]) ELSE plGot
    /\ UNCHANGED <<plChecked, plVal, plNext, plDone, plLeft, plUse, orClosed>>

Leave ==
    /\ plUse = "pipe" /\ ~plLeft
    /\ plLeft' = TRUE
    /\ UNCHANGED <<plChecked, plPc, plVal, plNext, plDone, plGot, plUse, orClosed>>

CloseDone ==
    /\ plUse = "pipe" /\ ~plDone
    /\ plDone' = TRUE
    /\ UNCHANGED <<plChecked, plPc, plVal, plNext, plGot, plLeft, plUse, orClosed>>

-----------------------------------------------------------------------------
(* Or: the goroutine of a call with more than two channels waits for the   *)
(* first three and for the result of a further call with the others and    *)
(* its own channel.  Channels 1..n are the inputs, n + j the one call j    *)
(* makes.                                                                  *)

orArgs[j \in Nat \ {0}] ==
    IF j = 1 THEN [i \in 1 .. PLOrInputs |-> i]
    ELSE SubSeq(orArgs[j - 1], 4, Len(orArgs[j - 1])) \o <<PLOrInputs + j - 1>>

\* The calls that make a goroutine.
OrCalls == {j \in 1 .. PLOrInputs : \A k \in 1 .. j : Len(orArgs[k]) >= 2}

\* What the select of call j waits for.
OrWaits(j) ==
    IF Len(orArgs[j]) = 2 THEN {orArgs[j][1], orArgs[j][2]}
    ELSE {orArgs[j][1], orArgs[j][2], orArgs[j][3],
          IF Len(orArgs[j + 1]) = 1 THEN orArgs[j + 1][1] ELSE PLOrInputs + j + 1}

CloseInput(i) ==
    /\ plUse = "or" /\ i \notin orClosed
    /\ orClosed' = orClosed \cup {i}
    /\ UNCHANGED <<plChecked, plPc, plVal, plNext, plDone, plGot, plLeft, plUse>>

OrSees(j) ==
    /\ plUse = "or" /\ PLOrInputs + j \notin orClosed
    /\ OrWaits(j) \cap orClosed # {}
    /\ orClosed' = orClosed \cup {PLOrInputs + j}
    /\ UNCHANGED <<plChecked, plPc, plVal, plNext, plDone, plGot, plLeft, plUse>>

-----------------------------------------------------------------------------

PipeNext ==
    \/ GenerateNext \/ GeneratorEnds \/ Consume \/ Leave \/ CloseDone
    \/ \E i \in Stages : Hand(i) \/ UpstreamClosed(i) \/ SeesDone(i)

OrNext ==
    \/ \E i \in 1 .. PLOrInputs : CloseInput(i)
    \/ \E j \in OrCalls : OrSees(j)

PLNext == Begin \/ PipeNext \/ OrNext

PLSpec == PLInit /\ [][PLNext]_plVars

\* Goroutines run, and a select that finds done closed again and again takes it at last.
PLFairness ==
    /\ WF_plVars(GenerateNext)
    /\ WF_plVars(GeneratorEnds)
    /\ WF_plVars(Consume)
    /\ \A i \in Stages : WF_plVars(Hand(i)) /\ WF_plVars(UpstreamClosed(i)) /\ SF_plVars(SeesDone(i))
    /\ \A j \in OrCalls : WF_plVars(OrSees(j))

-----------------------------------------------------------------------------

\* What the stages one after the other make of a value.
StageOut(v) == LET out[i \in 0 .. PLStages] == IF i = 0 THEN v ELSE Apply(i, out[i - 1]) IN out

\* What comes out for the first n values.
Expected(n) == [k \in 1 .. n |-> StageOut(PLValues[k])[PLStages]]

\* The consumer gets the results of the first values, in order and once each, however done
\* races with the stages; only AddOnPipe may make something of nothing after quit.
ResultsInOrder ==
    plChecked \/ ~plDone =>
        /\ Len(plGot) <= Len(PLValues)
        /\ plGot = Expected(Len(plGot))

\* Once done is closed every stage ends, but for one that sends to a stage that is gone: a
\* stage is deaf to done while it sends, and is then left behind for good.
StagesEnd ==
    plDone ~> plLeft \/ \A i \in Stages :
        plPc[i] = "closed" \/ (plPc[i] = "send" /\ \E j \in i + 1 .. PLStages : plPc[j] = "closed")

\* Without done every value comes out and all the channels are closed, if the consumer stays.
AllComeOut ==
    plUse = "pipe" /\ plChecked ~>
        plDone \/ plLeft \/ (plPc[PLStages] = "closed" /\ plGot = Expected(Len(PLValues)))

\* Or: no channel is closed unless an input is, and when one is, the result and the
\* channels of all the further calls are closed as well, so that no goroutine stays behind.
OrNotSpurious == orClosed \cap (1 .. PLOrInputs) = {} => orClosed = {}
OrEnds == plUse = "or" /\ orClosed # {} ~> \A j \in OrCalls : PLOrInputs + j \in orClosed

\* What comes out of a pipeline, or of Or, is right.
PipelineResults == ResultsInOrder /\ OrNotSpurious

\* Nothing waits for ever, but for the stages above.
PipelinesEnd == StagesEnd /\ AllComeOut /\ OrEnds
=============================================================================
