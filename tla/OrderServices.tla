---------------------------- MODULE OrderServices ----------------------------
(***************************************************************************)
(* gRPC: the order management servers of the examples stream,              *)
(* cancellation, compression, errorhandling, multiplexing, grpcprometheus  *)
(* and timeout, which differ in how they treat deadlines, cancellation and *)
(* errors of their streams, and their clients.                             *)
(*                                                                         *)
(* orderMap is a global map without a lock, and every call has a goroutine *)
(* of its own: a write that meets another access may end the process       *)
(* ("concurrent map writes").  An order is its destination and its items.  *)
(* gRPC itself is external: ordered streams, a context that a deadline or  *)
(* the client ends, Recv and Send that fail from then on.                  *)
(***************************************************************************)
EXTENDS Outcomes, Naturals, Sequences, FiniteSets, TLC

CONSTANTS
    OSIds,              \* order ids
    OSSample,           \* initSampleData: id to order, Zero for none
    OSOrders,           \* orders that clients send
    OSUpdates,          \* what a client streams as updates: sequences of an id with an order
    OSBadId,            \* the id that validation refuses
    OSScripts,          \* what a client sends for processing: sequences of ids
    OrderBatchSize,
    Zero                \* the zero order, without a destination

ASSUME OSAssumption ==
    /\ OrderBatchSize \in Nat \ {0} /\ \A s \in OSScripts : s # <<>>
    /\ OSSample = [id \in OSIds |-> OSSample[id]] /\ OSBadId \in OSIds
    /\ Nil # "OK"

VARIABLES
    osServer,           \* which server runs
    orderMap,
    osCrashed,          \* the server's process has died
    osCall,             \* a call of one of the first four methods, with its arguments
    osSent,             \* what that call has been sent: orders found, or a result
    osCtx,              \* the context of the bidirectional stream
    osUp, osHalf,       \* ids on their way to ProcessOrders, and whether CloseSend was called
    osDown,             \* shipments on their way to the client
    osProc,             \* where ProcessOrders is
    osCur, osDest,      \* the id it works on and the destination it read for it
    batchMarker, combinedShipmentMap,
    osStatus,           \* what ProcessOrders returned
    osRecvd, osShipped, \* history: how many ids were received, which of them were shipped
    osMain, osRecvr,    \* where the client's main and its receiving goroutine are
    osClient,           \* which client runs, with what it sends
    osSends             \* ids it has sent

osVars == <<osServer, orderMap, osCrashed, osCall, osSent, osCtx, osUp, osHalf, osDown, osProc,
            osCur, osDest, batchMarker, combinedShipmentMap, osStatus, osRecvd, osShipped,
            osMain, osRecvr, osClient, osSends>>

callVars == <<osCall, osSent>>
clientVars == <<osMain, osRecvr, osClient, osSends>>
procVars == <<osProc, osCur, osDest, batchMarker, combinedShipmentMap, osStatus, osRecvd, osShipped>>
wireVars == <<osCtx, osUp, osHalf, osDown>>

-----------------------------------------------------------------------------
(* The servers.  add: AddOrder just stores, validates the id first, or     *)
(* sleeps after it has stored; get: an unknown id is an error or a zero    *)
(* order; errors: errors of Recv in UpdateOrders and of Send end the call, *)
(* or are not looked at; checksCtx: ProcessOrders looks at the context     *)
(* after Recv.                                                             *)

StreamServer == [add |-> "store", get |-> "notFound", errors |-> "end", checksCtx |-> FALSE]

CancellationServer == [add |-> "sleep", get |-> "notFound", errors |-> "end", checksCtx |-> TRUE]

PrometheusServer == [add |-> "sleep", get |-> "notFound", errors |-> "end", checksCtx |-> TRUE]

CompressionServer == [add |-> "store", get |-> "zero", errors |-> "ignored", checksCtx |-> FALSE]

ErrorHandlingServer ==
    [add |-> "validate", get |-> "zero", errors |-> "ignored", checksCtx |-> FALSE]

MultiplexingServer ==
    [add |-> "validate", get |-> "zero", errors |-> "ignored", checksCtx |-> FALSE]

\* This one has no streams; the others of its methods are unimplemented.
TimeoutServer == [add |-> "sleep", get |-> "notFound", errors |-> "unimplemented",
                  checksCtx |-> FALSE]

Servers == {StreamServer, CancellationServer, PrometheusServer, CompressionServer,
            ErrorHandlingServer, MultiplexingServer, TimeoutServer}

HasStreams == osServer.errors # "unimplemented"

StreamClient == [checksSend |-> TRUE, cancels |-> FALSE, endsOn |-> "EOF"]

CancellationClient == [checksSend |-> FALSE, cancels |-> TRUE, endsOn |-> "any error"]

PrometheusClient == [checksSend |-> FALSE, cancels |-> TRUE, endsOn |-> "any error"]

OSInit ==
    /\ osServer \in Servers
    /\ orderMap = OSSample
    /\ osCrashed = FALSE
    /\ osCall = [kind |-> "none", fails |-> "logs", pc |-> "idle", ctx |-> "live", args |-> Nil]
    /\ osSent = <<>>
    /\ osCtx = "live" /\ osUp = <<>> /\ osHalf = FALSE /\ osDown = <<>>
    /\ osProc = "idle" /\ osCur = Nil /\ osDest = Nil
    /\ batchMarker = 1
    /\ combinedShipmentMap = {}
    /\ osStatus = Nil
    /\ osRecvd = 0 /\ osShipped = {}
    /\ osMain = "idle" /\ osRecvr = "idle"
    /\ osClient \in {c @@ [script |-> s] :
                        c \in {StreamClient, CancellationClient, PrometheusClient}, s \in OSScripts}
    /\ osSends = 0

-----------------------------------------------------------------------------
(* AddOrder, GetOrder, SearchOrders, UpdateOrders: one such call, beside   *)
(* ProcessOrders.                                                          *)

Call(kind, fails, args) ==
    /\ osCall.pc = "idle" /\ ~osCrashed
    /\ osCall' = [kind |-> kind, fails |-> fails, pc |-> "run", ctx |-> "live", args |-> args]
    /\ UNCHANGED <<osServer, orderMap, osCrashed, osSent, wireVars, procVars, clientVars>>

\* The clients, with what each does when its call fails.  The stream client reads search
\* results until io.EOF and goes on with any other error, for ever; an update that fails
\* ends it.
StreamClientCalls ==
    \/ \E id \in OSIds, o \in OSOrders : Call("add", "logs", [id |-> id, order |-> o])
    \/ \E id \in OSIds : Call("get", "logs", [id |-> id])
    \/ HasStreams /\ Call("search", "spins", [left |-> {id \in OSIds : orderMap[id] # Zero}])
    \/ HasStreams /\ \E msgs \in OSUpdates : Call("update", "fatal", [msgs |-> msgs])

TimeoutClientCalls ==
    \E id \in OSIds : \/ Call("get", "logs", [id |-> id])
                       \/ \E o \in OSOrders : Call("add", "logs", [id |-> id, order |-> o])

\* An order with an id that is refused, whose error is decoded and logged.
ErrorHandlingClientCalls == \E o \in OSOrders : Call("add", "logs", [id |-> OSBadId, order |-> o])

MultiplexingClientCalls ==
    \E id \in OSIds, o \in OSOrders : Call("add", "logs", [id |-> id, order |-> o])

\* The error is dropped and the nil answer dereferenced.
CompressionClientCalls ==
    \E id \in OSIds, o \in OSOrders : Call("add", "panics", [id |-> id, order |-> o])

Calls == StreamClientCalls \/ TimeoutClientCalls \/ ErrorHandlingClientCalls
           \/ MultiplexingClientCalls \/ CompressionClientCalls

Reply(r) == osCall' = [osCall EXCEPT !.pc = "done"] /\ osSent' = Append(osSent, r)

Fail(code) == osCall' = [osCall EXCEPT !.pc = "failed"] /\ osSent' = Append(osSent, code)

\* AddOrder: an id that is refused is not stored; the sleep comes after the store, so
\* that a call whose deadline has passed has still added its order.  One that was
\* cancelled is answered as if it had not been.
AddOrder ==
    /\ osCall.kind = "add" /\ ~osCrashed
    /\ \/ /\ osCall.pc = "run"
          /\ IF osServer.add = "validate" /\ osCall.args.id = OSBadId
             THEN Fail("InvalidArgument") /\ UNCHANGED orderMap
             ELSE /\ orderMap' = [orderMap EXCEPT ![osCall.args.id] = osCall.args.order]
                  /\ IF osServer.add = "sleep"
                     THEN osCall' = [osCall EXCEPT !.pc = "slept"] /\ UNCHANGED osSent
                     ELSE Reply("OK")
       \/ /\ osCall.pc = "slept"
          /\ IF osCall.ctx = "deadline" THEN Fail("DeadlineExceeded") ELSE Reply("OK")
          /\ UNCHANGED orderMap
    /\ UNCHANGED <<osServer, osCrashed, wireVars, procVars, clientVars>>

GetOrder ==
    /\ osCall.kind = "get" /\ osCall.pc = "run" /\ ~osCrashed
    /\ IF orderMap[osCall.args.id] = Zero /\ osServer.get = "notFound"
       THEN Fail("NotFound") ELSE Reply(orderMap[osCall.args.id])
    /\ UNCHANGED <<osServer, orderMap, osCrashed, wireVars, procVars, clientVars>>

\* SearchOrders: one order of the map after the other, in any order; those that match
\* are sent.  An error of Send ends the call where it is looked at.
SearchOrders(id) ==
    /\ osCall.kind = "search" /\ osCall.pc = "run" /\ ~osCrashed
    /\ id \in osCall.args.left
    /\ IF osCall.ctx # "live" /\ osServer.errors = "end" THEN Fail("SendError")
       ELSE LET left == osCall.args.left \ {id}
                found == IF orderMap[id].match /\ osCall.ctx = "live" THEN Append(osSent, id) ELSE osSent
            IN  IF left = {} THEN /\ osCall' = [osCall EXCEPT !.pc = "done"]
                                  /\ osSent' = Append(found, "OK")
                ELSE /\ osCall' = [osCall EXCEPT !.args = [left |-> left]]
                     /\ osSent' = found
    /\ UNCHANGED <<osServer, orderMap, osCrashed, wireVars, procVars, clientVars>>

\* Mutant: the error of Recv is not looked at.
UpdateOrders_Unchecked ==
    /\ osCall.kind = "update" /\ osCall.pc = "run" /\ ~osCrashed
    /\ IF osCall.ctx # "live" THEN osCrashed' = TRUE /\ UNCHANGED <<orderMap, callVars>>
       ELSE Reply("OK") /\ UNCHANGED <<orderMap, osCrashed>>
    /\ UNCHANGED <<osServer, wireVars, procVars, clientVars>>

\* UpdateOrders: orders are stored until the stream ends.  Where the error of Recv is not
\* looked at, the nil order that comes with it is dereferenced.
UpdateOrders ==
    /\ osCall.kind = "update" /\ osCall.pc = "run" /\ ~osCrashed
    /\ IF osCall.ctx # "live" THEN
           IF osServer.errors = "end"
           THEN Fail("RecvError") /\ UNCHANGED <<orderMap, osCrashed>>
           ELSE osCrashed' = TRUE /\ UNCHANGED <<orderMap, callVars>>
       ELSE IF osCall.args.msgs = <<>> THEN Reply("OK") /\ UNCHANGED <<orderMap, osCrashed>>
       ELSE /\ orderMap' = [orderMap EXCEPT ![Head(osCall.args.msgs).id] = Head(osCall.args.msgs).order]
            /\ osCall' = [osCall EXCEPT !.args = [msgs |-> Tail(@.msgs)]]
            /\ UNCHANGED <<osSent, osCrashed>>
    /\ UNCHANGED <<osServer, wireVars, procVars, clientVars>>

\* The deadline of the call passes, or its client goes away.
CallDies ==
    /\ osCall.pc \in {"run", "slept"} /\ osCall.ctx = "live"
    /\ \E why \in {"deadline", "canceled"} : osCall' = [osCall EXCEPT !.ctx = why]
    /\ UNCHANGED <<osServer, orderMap, osCrashed, osSent, wireVars, procVars, clientVars>>

\* The client has the outcome: an error if the handler gave one, its deadline has passed,
\* or the server has died.
ClientReads ==
    /\ osCall.pc \in {"done", "failed"} \/ (osCrashed /\ osCall.pc \in {"run", "slept"})
    /\ osCall' = [osCall EXCEPT !.args = Nil,
                     !.pc = IF osCall.pc = "done" /\ osCall.ctx = "live" THEN "logs" ELSE osCall.fails]
    /\ osSent' = <<>>
    /\ UNCHANGED <<osServer, orderMap, osCrashed, wireVars, procVars, clientVars>>

\* A write of orderMap meets a read of ProcessOrders.
MapRace ==
    /\ osCall.pc = "run" /\ osCall.kind \in {"add", "update"} /\ ~osCrashed
    /\ osProc \in {"read", "file"}
    /\ osCrashed' = TRUE
    /\ UNCHANGED <<osServer, orderMap, callVars, wireVars, procVars, clientVars>>

-----------------------------------------------------------------------------
(* ProcessOrders.  combinedShipmentMap is a set of records: destination    *)
(* and the orders filed under it, each with the number of its id.          *)

Return(status) == osProc' = "returned" /\ osStatus' = status

\* Recv.  Once the context has ended it fails; where the server looks, that is
\* Canceled, whatever Recv gave.
ProcRecv ==
    /\ osProc = "recv" /\ ~osCrashed
    /\ \/ /\ osCtx # "live"
          /\ Return(IF osServer.checksCtx /\ osCtx = "canceled" THEN "Canceled" ELSE "RecvError")
          /\ UNCHANGED <<osUp, osCur, osRecvd>>
       \/ /\ osUp # <<>>
          /\ osCtx = "canceled" => ~osServer.checksCtx
          /\ osUp' = Tail(osUp)
          /\ osCur' = Head(osUp)
          /\ osRecvd' = osRecvd + 1
          /\ osProc' = "read"
          /\ UNCHANGED osStatus
       \/ /\ osUp = <<>> /\ osHalf /\ osCtx = "live"
          /\ IF combinedShipmentMap = {} THEN Return("OK") ELSE osProc' = "flush" /\ UNCHANGED osStatus
          /\ UNCHANGED <<osUp, osCur, osRecvd>>
    /\ UNCHANGED <<osServer, orderMap, osCrashed, callVars, osCtx, osHalf, osDown, osDest,
                   batchMarker, combinedShipmentMap, osShipped, clientVars>>

\* The first read of orderMap, for the destination.
ProcRead ==
    /\ osProc = "read" /\ ~osCrashed
    /\ osDest' = orderMap[osCur].dest
    /\ osProc' = "file"
    /\ UNCHANGED <<osServer, orderMap, osCrashed, callVars, wireVars, osCur, batchMarker,
                   combinedShipmentMap, osStatus, osRecvd, osShipped, clientVars>>

\* Mutant: a shipment that is there already is replaced instead of extended.
ProcFile_Replaces ==
    LET filed == [no |-> osRecvd, id |-> osCur, dest |-> orderMap[osCur].dest] IN
    /\ osProc = "file" /\ ~osCrashed
    /\ combinedShipmentMap' = {s \in combinedShipmentMap : s.dest # osDest}
                                \cup {[dest |-> osDest, orders |-> <<filed>>]}
    /\ IF batchMarker = OrderBatchSize
       THEN osProc' = "ship" /\ UNCHANGED batchMarker
       ELSE osProc' = "recv" /\ batchMarker' = batchMarker + 1
    /\ osCur' = Nil /\ osDest' = Nil
    /\ UNCHANGED <<osServer, orderMap, osCrashed, callVars, wireVars, osStatus, osRecvd, osShipped,
                   clientVars>>

\* The second read, for the order, which is filed under the destination of the first.
ProcFile ==
    LET filed == [no |-> osRecvd, id |-> osCur, dest |-> orderMap[osCur].dest]
        old == {s \in combinedShipmentMap : s.dest = osDest}
        list == IF old = {} THEN <<>> ELSE (CHOOSE s \in old : TRUE).orders
    IN
    /\ osProc = "file" /\ ~osCrashed
    /\ combinedShipmentMap' = (combinedShipmentMap \ old)
                                \cup {[dest |-> osDest, orders |-> Append(list, filed)]}
    /\ IF batchMarker = OrderBatchSize
       THEN osProc' = "ship" /\ UNCHANGED batchMarker
       ELSE osProc' = "recv" /\ batchMarker' = batchMarker + 1
    /\ osCur' = Nil /\ osDest' = Nil
    /\ UNCHANGED <<osServer, orderMap, osCrashed, callVars, wireVars, osStatus, osRecvd, osShipped,
                   clientVars>>

\* The numbers of the orders in some shipments.
Numbers(shipments) == UNION {{s.orders[i].no : i \in DOMAIN s.orders} : s \in shipments}

\* One Send of the loops over combinedShipmentMap, of a full batch ("ship", after which
\* the marker starts at 0) or of the rest ("flush").
ProcSend(s) ==
    /\ osProc \in {"ship", "flush"} /\ ~osCrashed
    /\ s \in combinedShipmentMap
    /\ LET left == combinedShipmentMap \ {s} IN
       \/ /\ osCtx # "live" /\ osServer.errors = "end"
          /\ Return("SendError")
          /\ UNCHANGED <<combinedShipmentMap, batchMarker, osDown, osShipped>>
       \/ /\ osCtx = "live" \/ osServer.errors # "end"
          /\ combinedShipmentMap' = left
          /\ IF osCtx = "live"
             THEN osDown' = Append(osDown, s) /\ osShipped' = osShipped \cup Numbers({s})
             ELSE UNCHANGED <<osDown, osShipped>>
          /\ IF left # {} THEN UNCHANGED <<osProc, osStatus, batchMarker>>
             ELSE IF osProc = "ship" THEN /\ osProc' = "recv" /\ batchMarker' = 0
                                          /\ UNCHANGED osStatus
             ELSE Return("OK") /\ UNCHANGED batchMarker
    /\ UNCHANGED <<osServer, orderMap, osCrashed, callVars, osCtx, osUp, osHalf, osCur, osDest,
                   osRecvd, clientVars>>

-----------------------------------------------------------------------------
(* The clients of ProcessOrders: main sends the script, the last id after  *)
(* the receiving goroutine is there, closes its side, and meets the        *)
(* goroutine on an unbuffered channel.  They differ in whether they look   *)
(* at the errors of Send, cancel before the last id, and take any error of *)
(* Recv for the end.                                                       *)

Over == osStatus # Nil \/ osCrashed \/ osCtx # "live"

MainStarts ==
    /\ osMain = "idle" /\ HasStreams
    /\ osProc' = "recv"
    /\ osMain' = "send"
    /\ UNCHANGED <<osServer, orderMap, osCrashed, callVars, wireVars, osCur, osDest, batchMarker,
                   combinedShipmentMap, osStatus, osRecvd, osShipped, osRecvr, osClient, osSends>>

\* What one Send of an id does: the stream client gives up when it fails, the others do
\* not look.
SendId(then) ==
    /\ osSends' = osSends + 1
    /\ IF ~Over THEN osUp' = Append(osUp, osClient.script[osSends + 1]) /\ osMain' = then
       ELSE /\ osMain' = IF osClient.checksSend THEN "fatal" ELSE then
            /\ UNCHANGED osUp

MainSends ==
    /\ osMain = "send" /\ osSends < Len(osClient.script) - 1
    /\ SendId("send")
    /\ UNCHANGED <<osServer, orderMap, osCrashed, callVars, osCtx, osHalf, osDown, procVars,
                   osRecvr, osClient>>

MainSpawns ==
    /\ osMain = "send" /\ osSends = Len(osClient.script) - 1
    /\ osRecvr' = "recv"
    /\ osMain' = "spawned"
    /\ UNCHANGED <<osServer, orderMap, osCrashed, callVars, wireVars, procVars, osClient, osSends>>

\* Two of the clients cancel before they send the last id.
MainSendsLast ==
    \/ /\ osMain = "spawned" /\ osClient.cancels
       /\ osCtx' = IF osCtx = "live" THEN "canceled" ELSE osCtx
       /\ osMain' = "last"
       /\ UNCHANGED <<osServer, orderMap, osCrashed, callVars, osUp, osHalf, osDown, procVars,
                      osRecvr, osClient, osSends>>
    \/ /\ osMain = IF osClient.cancels THEN "last" ELSE "spawned"
       /\ SendId("close")
       /\ UNCHANGED <<osServer, orderMap, osCrashed, callVars, osCtx, osHalf, osDown, procVars,
                      osRecvr, osClient>>

MainCloses ==
    /\ osMain = "close"
    /\ osHalf' = TRUE
    /\ osMain' = "meet"
    /\ UNCHANGED <<osServer, orderMap, osCrashed, callVars, osCtx, osUp, osDown, procVars,
                   osRecvr, osClient, osSends>>

\* Mutant: the receiving goroutine ends without meeting main.
Receives_NoMeeting ==
    /\ osRecvr = "recv" /\ osMain # "fatal"
    /\ osDown = <<>> /\ Over
    /\ osRecvr' = "end"
    /\ UNCHANGED <<osServer, orderMap, osCrashed, callVars, wireVars, procVars, osMain, osClient,
                   osSends>>

\* asncClientBidirectionalRPC.  The stream client only knows io.EOF: with any other
\* error it dereferences a nil shipment, which ends the client.
Receives ==
    /\ osRecvr = "recv" /\ osMain # "fatal"
    /\ \/ /\ osDown # <<>>
          /\ osDown' = Tail(osDown)
          /\ UNCHANGED osRecvr
       \/ /\ (osDown = <<>> /\ Over) \/ osCtx # "live"
          /\ osRecvr' = IF osClient.endsOn = "any error" \/ (osStatus = "OK" /\ osCtx = "live")
                        THEN "meet" ELSE "panic"
          /\ UNCHANGED osDown
    /\ UNCHANGED <<osServer, orderMap, osCrashed, callVars, osCtx, osUp, osHalf, procVars, osMain,
                   osClient, osSends>>

\* The unbuffered channel: sender and receiver go on together.
Meet ==
    /\ osMain = "meet" /\ osRecvr = "meet"
    /\ osMain' = "end"
    /\ osRecvr' = "end"
    /\ UNCHANGED <<osServer, orderMap, osCrashed, callVars, wireVars, procVars, osClient, osSends>>

DeadlinePasses ==
    /\ osMain \notin {"idle", "end", "fatal"} /\ osCtx = "live"
    /\ osCtx' = "deadline"
    /\ UNCHANGED <<osServer, orderMap, osCrashed, callVars, osUp, osHalf, osDown, procVars,
                   clientVars>>

-----------------------------------------------------------------------------

CallStep == AddOrder \/ GetOrder \/ UpdateOrders \/ \E id \in OSIds : SearchOrders(id)

ProcStep == ProcRecv \/ ProcRead \/ ProcFile \/ \E s \in combinedShipmentMap : ProcSend(s)

MainStep == MainSends \/ MainSpawns \/ MainSendsLast \/ MainCloses \/ Meet

OSNext ==
    \/ Calls \/ CallStep \/ CallDies \/ ClientReads \/ MapRace
    \/ ProcStep
    \/ MainStarts \/ (osRecvr # "panic" /\ MainStep) \/ Receives \/ DeadlinePasses

OSSpec == OSInit /\ [][OSNext]_osVars

\* The goroutines run; the clients' contexts have deadlines.
OSFairness ==
    /\ WF_osVars(ProcStep)
    /\ WF_osVars(osRecvr # "panic" /\ MainStep)
    /\ WF_osVars(Receives)
    /\ WF_osVars(DeadlinePasses)

-----------------------------------------------------------------------------

Filed == Numbers(combinedShipmentMap)
InHand == IF osProc \in {"read", "file"} THEN {osRecvd} ELSE {}

\* ProcessOrders: while its stream lives, every id received is on its way to be filed,
\* filed in one shipment, or shipped, exactly once, across full batches and the rest, and
\* a call that ends well has shipped them all.  Nothing is filed beyond a batch and one,
\* and under another destination only if the order was changed meanwhile.
ShippedOnce ==
    /\ osCtx = "live" => osShipped \cup Filed \cup InHand = 1 .. osRecvd
    /\ osShipped \cap Filed = {} /\ InHand \cap (osShipped \cup Filed) = {}
    /\ \A s, t \in combinedShipmentMap : \A i \in DOMAIN s.orders, j \in DOMAIN t.orders :
         s.orders[i].no = t.orders[j].no => s = t /\ i = j
    /\ osStatus = "OK" /\ osCtx = "live" => osShipped = 1 .. osRecvd
    /\ Cardinality(Filed) <= OrderBatchSize + 1
    /\ \A s \in combinedShipmentMap : \A i \in DOMAIN s.orders :
         s.orders[i].dest = s.dest \/ osCall.kind \in {"add", "update"}

\* Only a race on orderMap or an error of Recv that is not looked at ends the server, and
\* the latter only in the servers that do not look; and only the end of its context or of
\* the server leaves the client of a search in its loop.
CrashIsExplained ==
    /\ osCrashed => \/ osCall.kind \in {"add", "update"} /\ osProc \in {"read", "file"}
                    \/ osCall.kind = "update" /\ osCall.ctx # "live" /\ osServer.errors = "ignored"
    /\ osCall.pc = "spins" => osCall.ctx # "live" \/ osCrashed

\* AddOrder: an answer other than InvalidArgument, DeadlineExceeded included, leaves the
\* order in the map; InvalidArgument leaves the map alone.
AddAnswerTruthful ==
    osCall.kind = "add" /\ osCall.pc \in {"done", "failed"} =>
        IF osSent = <<"InvalidArgument">> THEN orderMap[osCall.args.id] = OSSample[osCall.args.id]
        ELSE orderMap[osCall.args.id] = osCall.args.order

\* What becomes of a call and of its server has a cause in the code, and the answer of
\* AddOrder says what it has done.
CallsExplained == CrashIsExplained /\ AddAnswerTruthful

\* The clients come to an end, orderly or not: nobody waits for ever on the channel.
ClientEnds == osMain = "send" ~> osMain \in {"end", "fatal"} \/ osRecvr = "panic"
=============================================================================
