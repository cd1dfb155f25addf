------------------------------ MODULE Exporter ------------------------------
(***************************************************************************)
(* The exporter: Start assembles the metrics handler (handler.go), and a   *)
(* scrape runs every collector in a goroutine of its own (collector.go),   *)
(* of which example.go is one.  The promhttp handler, its limit on         *)
(* requests in flight, and the registry, whose channel takes every metric  *)
(* until Collect returns and is closed then, are the Prometheus library's. *)
(***************************************************************************)
EXTENDS Outcomes, Naturals, FiniteSets

CONSTANTS
    EXFields,       \* EXFields[c]: the fields collector c pushes, with the kind of value
    EXOutcomes,     \* EXOutcomes[c]: what Update of c may return: Nil, "NoData" or Failed
    EXOptions,      \* the options of Start: paths, whether there is a logger, maxRequests
    EXScrapes       \* requests

ASSUME EXAssumption ==
    /\ DOMAIN EXOutcomes = DOMAIN EXFields /\ IsFiniteSet(DOMAIN EXFields)
    /\ \A c \in DOMAIN EXFields : \A f \in EXFields[c] : f.name \notin {"duration", "success"}
    /\ \A o \in EXOptions : o.paths \in Nat /\ o.logger \in BOOLEAN /\ o.maxRequests \in Nat

VARIABLES
    exHandler,      \* the handler: "none", "ready", "failed", or "panic" in Start
    exOptions,      \* its options
    exDescs,        \* metricDescs of each collector
    exPc, exWg,     \* where each scrape is, and the WaitGroup of its Collect
    exGo, exErr,    \* where the goroutine of each collector is, and what Update returned
    exSent,         \* what it has sent to the channel of the scrape
    exLate          \* history: a metric was sent to a closed channel

exVars == <<exHandler, exOptions, exDescs, exPc, exWg, exGo, exErr, exSent, exLate>>

Collectors == DOMAIN EXFields

\* Every collector is registered by an init function.
EXInit ==
    /\ exHandler = "none" /\ exOptions = Nil
    /\ exDescs = [c \in Collectors |-> {}]
    /\ exPc = [s \in EXScrapes |-> "idle"]
    /\ exWg = [s \in EXScrapes |-> 0]
    /\ exGo = [s \in EXScrapes |-> [c \in Collectors |-> "none"]]
    /\ exErr = [s \in EXScrapes |-> [c \in Collectors |-> Nil]]
    /\ exSent = [s \in EXScrapes |-> [c \in Collectors |-> {}]]
    /\ exLate = FALSE

\* NewNodeCollector: one factory that fails fails them all, and innerHandler with them.
NewNodeCollector(failing) == IF failing = {} THEN "ready" ELSE "failed"

\* Start: no logger is a nil pointer, and no path an index out of range.
ExporterStart(o, failing) ==
    /\ exHandler = "none"
    /\ exOptions' = o
    /\ exHandler' = IF ~o.logger \/ o.paths = 0 THEN "panic" ELSE NewNodeCollector(failing)
    /\ UNCHANGED <<exDescs, exPc, exWg, exGo, exErr, exSent, exLate>>

\* ServeHTTP up to Collect: 503 beyond maxRequests, otherwise Collect starts the goroutines.
Scrape(s) ==
    LET inFlight == {r \in EXScrapes : exPc[r] \in {"collect", "collected"}} IN
    /\ exHandler = "ready" /\ exPc[s] = "idle"
    /\ IF exOptions.maxRequests # 0 /\ Cardinality(inFlight) >= exOptions.maxRequests
       THEN exPc' = [exPc EXCEPT ![s] = "503"] /\ UNCHANGED <<exWg, exGo>>
       ELSE /\ exPc' = [exPc EXCEPT ![s] = "collect"]
            /\ exWg' = [exWg EXCEPT ![s] = Cardinality(Collectors)]
            /\ exGo' = [exGo EXCEPT ![s] = [c \in Collectors |-> "update"]]
    /\ UNCHANGED <<exHandler, exOptions, exDescs, exErr, exSent, exLate>>

SendMetrics(s, c, metrics) ==
    /\ exSent' = [exSent EXCEPT ![s][c] = @ \cup metrics]
    /\ exLate' = (exLate \/ (metrics # {} /\ exPc[s] # "collect"))

GoOn(s, c, pc) == exGo' = [exGo EXCEPT ![s][c] = pc]

\* pushMetric: numbers and pointers to numbers, unless nil; anything else is dropped.
Pushes(field) == field.kind \in {"number", "pointer"}

\* getFieldDesc: the description of a field is made once, under the collector's mutex.
GetFieldDesc(c, field) == exDescs' = [exDescs EXCEPT ![c] = @ \cup {field.name}]

\* netClassSysfsUpdate: the metric "up", and each field; an Update that fails stops anywhere.
UpdateField(s, c, field) ==
    /\ exGo[s][c] = "update" /\ field \in EXFields[c]
    /\ [metric |-> field.name] \notin exSent[s][c]
    /\ GetFieldDesc(c, field)
    /\ SendMetrics(s, c, {[metric |-> f.name] : f \in {g \in {field} : Pushes(g)}})
    /\ UNCHANGED <<exHandler, exOptions, exPc, exWg, exGo, exErr>>

UpdateReturns(s, c, err) ==
    /\ exGo[s][c] = "update" /\ err \in EXOutcomes[c]
    /\ err = Nil => \A f \in EXFields[c] : f.name \in exDescs[c] /\
                      (Pushes(f) => [metric |-> f.name] \in exSent[s][c])
    /\ exErr' = [exErr EXCEPT ![s][c] = err]
    /\ GoOn(s, c, "duration")
    /\ UNCHANGED <<exHandler, exOptions, exDescs, exPc, exWg, exSent, exLate>>

\* execute after Update: two metrics, the second of which says whether there was an error,
\* no data being one.
ReportDuration(s, c) ==
    /\ exGo[s][c] = "duration"
    /\ SendMetrics(s, c, {[metric |-> "duration"]})
    /\ GoOn(s, c, "success")
    /\ UNCHANGED <<exHandler, exOptions, exDescs, exPc, exWg, exErr>>

ReportSuccess(s, c) ==
    /\ exGo[s][c] = "success"
    /\ SendMetrics(s, c, {[metric |-> "success", value |-> IF exErr[s][c] = Nil THEN 1 ELSE 0]})
    /\ GoOn(s, c, "executed")
    /\ UNCHANGED <<exHandler, exOptions, exDescs, exPc, exWg, exErr>>

\* Mutant: wg.Done is not reached when Update has failed.
CollectorDone_UnlessFailed(s, c) ==
    /\ exGo[s][c] = "executed"
    /\ exWg' = [exWg EXCEPT ![s] = IF exErr[s][c] = Failed THEN @ ELSE @ - 1]
    /\ GoOn(s, c, "done")
    /\ UNCHANGED <<exHandler, exOptions, exDescs, exPc, exErr, exSent, exLate>>

\* wg.Done.
CollectorDone(s, c) ==
    /\ exGo[s][c] = "executed"
    /\ exWg' = [exWg EXCEPT ![s] = @ - 1]
    /\ GoOn(s, c, "done")
    /\ UNCHANGED <<exHandler, exOptions, exDescs, exPc, exErr, exSent, exLate>>

\* wg.Wait returns, and with it Collect.
CollectReturns(s) ==
    /\ exPc[s] = "collect" /\ exWg[s] = 0
    /\ exPc' = [exPc EXCEPT ![s] = "collected"]
    /\ UNCHANGED <<exHandler, exOptions, exDescs, exWg, exGo, exErr, exSent, exLate>>

\* The answer, ContinueOnError: what was gathered.
ScrapeAnswered(s) ==
    /\ exPc[s] = "collected"
    /\ exPc' = [exPc EXCEPT ![s] = "200"]
    /\ UNCHANGED <<exHandler, exOptions, exDescs, exWg, exGo, exErr, exSent, exLate>>

CollectorStep(s, c) ==
    \/ \E f \in EXFields[c] : UpdateField(s, c, f)
    \/ \E err \in EXOutcomes[c] : UpdateReturns(s, c, err)
    \/ ReportDuration(s, c) \/ ReportSuccess(s, c) \/ CollectorDone(s, c)

EXNext ==
    \/ \E o \in EXOptions, failing \in SUBSET Collectors : ExporterStart(o, failing)
    \/ \E s \in EXScrapes : Scrape(s) \/ CollectReturns(s) \/ ScrapeAnswered(s)
                            \/ \E c \in Collectors : CollectorStep(s, c)

EXSpec == EXInit /\ [][EXNext]_exVars

\* The goroutines of a scrape run, and an Update comes to its end.
EXFairness == \A s \in EXScrapes :
    /\ WF_exVars(CollectReturns(s) \/ ScrapeAnswered(s))
    /\ \A c \in Collectors : WF_exVars(CollectorStep(s, c))

-----------------------------------------------------------------------------

\* Collect and execute: nothing is sent once Collect has returned, and a scrape that is
\* answered has the duration and the success of every collector, once each and true, and
\* of a collector that succeeded every field that is a number.
ScrapeComplete ==
    /\ ~exLate
    /\ \A s \in EXScrapes, c \in Collectors : exPc[s] = "200" =>
        /\ [metric |-> "duration"] \in exSent[s][c]
        /\ {m \in exSent[s][c] : m.metric = "success"} =
             {[metric |-> "success", value |-> IF exErr[s][c] = Nil THEN 1 ELSE 0]}
        /\ exErr[s][c] = Nil =>
             \A f \in EXFields[c] : Pushes(f) => [metric |-> f.name] \in exSent[s][c]

\* Every scrape is answered, completely or with 503.
ScrapesReported ==
    /\ []ScrapeComplete
    /\ \A s \in EXScrapes : exPc[s] # "idle" ~> exPc[s] \in {"200", "503"}
=============================================================================
