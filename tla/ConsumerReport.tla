---------------------------- MODULE ConsumerReport ----------------------------
(***************************************************************************)
(* What an execution reports to consumers (src/src/consumers,               *)
(* src/src/compliance/cra-reporting.ts and the two functions of             *)
(* src/src/cli/main.ts that call them).  Consumers are served one after the  *)
(* other: the findings that one wants are put into its queue, the queue is   *)
(* drained, and what goes wrong with one is not to stop the others.  CRA     *)
(* reporting that is configured on its own is served before them, unless a   *)
(* consumer takes its place.  Between executions the configuration changes. *)
(* ConsumerDelivery models the queue, the attempts and overlapping           *)
(* executions; here a drain delivers any of what is queued.                 *)
(***************************************************************************)
EXTENDS Naturals, Sequences, FiniteSets, SequencesExt

CONSTANTS
  Configs,  \* configurations: a sequence of consumers, and CRA reporting
  Reports,  \* reports: sequences of findings, no two of one id
  MaxRuns   \* bound: executions

ADAPTERS == {"cra", "cyber"}

\* consumerConfigs refuses a second consumer of one id.
ValidConfig(config) ==
  \A i, j \in DOMAIN config.consumers :
    config.consumers[i].consumerId = config.consumers[j].consumerId => i = j

IsList(v) == v \in Seq(ToSet(v))

ASSUME ReportAssumption ==
  /\ MaxRuns \in Nat \ {0}
  /\ \A config \in Configs : IsList(config.consumers) /\ ValidConfig(config)
  /\ \A report \in Reports : IsList(report) /\ \A i, j \in DOMAIN report : report[i].id = report[j].id => i = j

VARIABLES
  past,    \* history: configuration and report of each execution
  pc,      \* where the execution is: "idle" between two
  left,    \* the consumers still to be served, each at its place in the order
  opened,  \* the store of the configured consumers is open
  todo,    \* messages still to be put into the queue, each at its finding's place in the report
  queue,   \* sentrycode_consumer_delivery: <<consumer, message>> -> row
  posted,  \* history: what was posted: to whom, by which adapter, made by which, with evidence
  log,     \* audit log of this execution: places of consumers noted as unavailable
  served,  \* history of this execution: places of consumers served to the end
  faulty,  \* history of this execution: places of consumers that met a fault
  silent   \* history of this execution: places of consumers whose failure could not be logged

reportVars == <<past, pc, left, opened, todo, queue, posted, log, served, faulty, silent>>

Run == Len(past)
config == past[Run].config
report == past[Run].report

\* The consumer whose turn it is.
Place == Min(DOMAIN left)
Current == left[Place]

\* What is left behind the first.
Others(list) == Restrict(list, DOMAIN list \ {Min(DOMAIN list)})

ReportTypeOK ==
  /\ past \in Seq([config : Configs, report : Reports]) /\ Run <= MaxRuns
  /\ pc \in {"idle", "open", "build", "enqueue", "drain"}
  /\ opened \in BOOLEAN
  /\ \A row \in Range(queue) : row.payload.about.run \in 1 .. Run /\ row.delivered \in BOOLEAN

ReportInit ==
  /\ past = <<>> /\ pc = "idle" /\ left = <<>> /\ opened = FALSE /\ todo = <<>>
  /\ queue = <<>> /\ posted = {} /\ log = {} /\ served = {} /\ faulty = {} /\ silent = {}

-----------------------------------------------------------------------------
(* Who is served.                                                          *)

legacyCraConsumer(cra) ==
  [consumerId |-> "cra", adapter |-> "cra", legacy |-> TRUE, enabled |-> cra.enabled,
   endpoint |-> cra.endpoint, context |-> cra.assessment,
   severities |-> cra.severities, findingTypes |-> cra.findingTypes, evidenceTypes |-> {}]

Explicit(c) == {i \in DOMAIN c.consumers : c.consumers[i].enabled}

\* CRA reporting of its own gives way to a consumer of that adapter.
OfItsOwn(c) == c.cra.enabled /\ \A i \in Explicit(c) : c.consumers[i].adapter # "cra"

\* Who is served, each at its place: CRA reporting of its own first, then the
\* enabled consumers in the order of the configuration.
ToServe(c) ==
  [i \in Explicit(c) \cup {j \in {0} : OfItsOwn(c)} |->
     IF i = 0 THEN legacyCraConsumer(c.cra) ELSE c.consumers[i]]

-----------------------------------------------------------------------------
(* What each of them gets.                                                 *)

isConsumerFindingSelected(consumer, finding) ==
  /\ consumer.severities = {} \/ finding.severity \in consumer.severities
  /\ consumer.findingTypes = {} \/ finding.type \in consumer.findingTypes
  /\ consumer.evidenceTypes = {} \/ consumer.evidenceTypes \cap finding.evidence # {}

\* CRA reporting of its own takes no severities to mean none of them.
isCraReportableFinding(consumer, finding) ==
  /\ finding.severity \in consumer.severities
  /\ consumer.findingTypes = {} \/ finding.type \in consumer.findingTypes

\* Places of the findings that a consumer gets.
Selected(consumer, r) ==
  {i \in DOMAIN r : IF consumer.legacy THEN isCraReportableFinding(consumer, r[i])
                    ELSE isConsumerFindingSelected(consumer, r[i])}

\* A finding that no evidence refers to is not reported.
Linked(finding) == finding.evidence # {}

buildTechnicalFindingEnvelope(run, finding) ==
  [run |-> run, finding |-> finding.id, status |-> IF finding.waived THEN "waived" ELSE "active",
   evidence |-> finding.evidence]

CraFindingReport(envelope) ==
  [reportId |-> <<"cra-report", envelope.run, envelope.finding>>, adapter |-> "cra", about |-> envelope]

CyberSecurityEvidence(envelope) ==
  [messageId |-> <<"finding", envelope.run, envelope.finding>>, adapter |-> "cyber", about |-> envelope]

\* A row of the queue, which names the consumer's adapter and holds the payload.
Row(run, consumer, finding) ==
  LET envelope == buildTechnicalFindingEnvelope(run, finding)
      document == CraFindingReport(envelope)
      evidence == CyberSecurityEvidence(envelope)
  IN  IF consumer.adapter = "cra" THEN [id |-> document.reportId, payload |-> document, delivered |-> FALSE]
      ELSE [id |-> evidence.messageId, payload |-> evidence, delivered |-> FALSE]

buildConsumerDeliveryMessages(consumer, r) ==
  [i \in Selected(consumer, r) |-> Row(Run, consumer, r[i])]

\* The cyber adapter looks at the context only when it has a finding to map.
Unmappable(consumer, finding) ==
  ~Linked(finding) \/ (consumer.adapter = "cyber" /\ ~consumer.context)

\* What makes a consumer unavailable without anything failing.
Unservable(consumer, r) ==
  \/ consumer.adapter \notin ADAPTERS
  \/ ~consumer.endpoint
  \/ consumer.legacy /\ ~consumer.context
  \/ \E i \in Selected(consumer, r) : Unmappable(consumer, r[i])

-----------------------------------------------------------------------------
(* The loop over the consumers.                                            *)

\* Mutant: the exception of a consumer is not caught in the loop.
EndLoop(consumers) == Restrict(consumers, {})

\* The consumers after one that failed.
Continue(consumers) == Others(consumers)

\* Consumers wait for their store, and do not open it twice; CRA reporting
\* starts without one.
StartOf(consumer, ready) == IF consumer.legacy \/ ready THEN "build" ELSE "open"

Proceed(rest, ready) ==
  /\ left' = rest
  /\ pc' = IF DOMAIN rest = {} THEN "idle" ELSE StartOf(rest[Min(DOMAIN rest)], ready)

\* The consumer is noted as unavailable, unless that fails as well.
Unavailable ==
  /\ Proceed(Continue(left), opened)
  /\ todo' = <<>>
  /\ \/ log' = log \cup {Place} /\ UNCHANGED silent
     \/ silent' = silent \cup {Place} /\ UNCHANGED log
  /\ UNCHANGED <<past, opened, served>>

\* The execution ends without a word on the consumers that are left.
Abandon ==
  /\ faulty' = faulty \cup DOMAIN left /\ silent' = silent \cup DOMAIN left
  /\ left' = <<>> /\ todo' = <<>> /\ pc' = "idle"
  /\ UNCHANGED <<past, opened, queue, posted, log, served>>

Begin ==
  /\ pc = "idle" /\ Run < MaxRuns
  /\ \E c \in Configs, r \in Reports :
       /\ past' = Append(past, [config |-> c, report |-> r])
       /\ Proceed(ToServe(c), FALSE)
  /\ opened' = FALSE /\ log' = {} /\ served' = {} /\ faulty' = {} /\ silent' = {}
  /\ UNCHANGED <<todo, queue, posted>>

\* One store for all configured consumers, once CRA reporting has had its own.
Open ==
  /\ pc = "open" /\ ~Current.legacy
  /\ opened' = TRUE /\ pc' = "build"
  /\ UNCHANGED <<past, left, todo, queue, posted, log, served, faulty, silent>>

\* Without it none of them is served, and the execution fails.
OpenFails ==
  /\ pc = "open" /\ ~Current.legacy
  /\ Abandon

\* CRA reporting builds its reports before it opens its store.
Build ==
  /\ pc = "build"
  /\ IF Unservable(Current, report) THEN Unavailable
     ELSE /\ todo' = buildConsumerDeliveryMessages(Current, report)
          /\ pc' = IF Current.legacy THEN "open" ELSE "enqueue"
          /\ UNCHANGED <<past, left, opened, log, served, silent>>
  /\ UNCHANGED <<queue, posted, faulty>>

OpenLegacy ==
  /\ pc = "open" /\ Current.legacy
  /\ pc' = "enqueue"
  /\ UNCHANGED <<past, left, opened, todo, queue, posted, log, served, faulty, silent>>

Enqueue ==
  /\ pc = "enqueue" /\ DOMAIN todo # {}
  /\ LET row == todo[Min(DOMAIN todo)]
         key == <<Current.consumerId, row.id>>
     IN  queue' = [k \in DOMAIN queue \cup {key} |-> IF k \in DOMAIN queue THEN queue[k] ELSE row]
  /\ todo' = Others(todo)
  /\ UNCHANGED <<past, pc, left, opened, posted, log, served, faulty, silent>>

Audited ==
  /\ pc = "enqueue" /\ DOMAIN todo = {}
  /\ pc' = "drain"
  /\ UNCHANGED <<past, left, opened, todo, queue, posted, log, served, faulty, silent>>

\* The queue knows a consumer by its name only: rows that another adapter has made
\* under the same name are among them.
Pending(consumer) ==
  {key \in DOMAIN queue : key[1] = consumer.consumerId /\ ~queue[key].delivered}

\* Nothing of CRA is posted without an assessment to bind it to.
Postable(consumer) ==
  IF consumer.adapter = "cra" /\ ~consumer.context THEN {} ELSE Pending(consumer)

Deliver(keys) ==
  /\ queue' = [k \in DOMAIN queue |-> IF k \in keys THEN [queue[k] EXCEPT !.delivered = TRUE] ELSE queue[k]]
  /\ posted' = posted \cup
       {[to |-> k[1], by |-> Current.adapter, of |-> queue[k].payload.adapter,
         linked |-> queue[k].payload.about.evidence # {}] : k \in keys}

\* Deliveries that fail stay in the queue; that is no failure of the drain.
Drain ==
  /\ pc = "drain"
  /\ \E keys \in SUBSET Postable(Current) : Deliver(keys)
  /\ served' = served \cup {Place}
  /\ Proceed(Others(left), opened)
  /\ UNCHANGED <<past, opened, todo, log, faulty, silent>>

\* The store or the audit log fails, anywhere in the work for one consumer; a
\* drain may have delivered some by then.
Fault ==
  /\ pc \in {"enqueue", "drain"} \/ (pc = "open" /\ Current.legacy)
  /\ \/ pc = "drain" /\ \E keys \in SUBSET Postable(Current) : Deliver(keys)
     \/ UNCHANGED <<queue, posted>>
  /\ faulty' = faulty \cup {Place}
  /\ Unavailable

\* The process is killed.
Die == pc # "idle" /\ Abandon

ReportNext ==
  \/ Begin \/ Open \/ OpenFails \/ Build \/ OpenLegacy \/ Enqueue \/ Audited \/ Drain
  \/ Fault \/ Die

ReportSpec == ReportInit /\ [][ReportNext]_reportVars

-----------------------------------------------------------------------------
\* What an execution is to leave in the queue of a consumer, and what it left.
Due(consumer, r) ==
  {[finding |-> r[i].id, status |-> IF r[i].waived THEN "waived" ELSE "active", evidence |-> r[i].evidence]
     : i \in Selected(consumer, r)}

About(k) == queue[k].payload.about
Entry(k) == [finding |-> About(k).finding, status |-> About(k).status, evidence |-> About(k).evidence]

\* Rows that an execution has made for a consumer, with its adapter.
KeysOf(consumer, run) ==
  {k \in DOMAIN queue :
     k[1] = consumer.consumerId /\ queue[k].payload.adapter = consumer.adapter /\ About(k).run = run}

\* Adapters with which a name has been configured so far.
AdaptersOf(name) ==
  {c.adapter : c \in {d \in UNION {Range(ToServe(past[run].config)) : run \in DOMAIN past} : d.consumerId = name}}

\* What happens to a consumer is its own affair.  When an execution is over,
\* each consumer of its configuration that met no fault itself and can be
\* served has all the findings it asked for in its queue, each once, and its queue was
\* drained, whatever became of the others; of each that was not served the log says so,
\* unless that could not be written or the execution did not come to its end.
\* Nobody has a row of a finding it did not ask for, made by an adapter it had not, or
\* while it could not be served.  A backlog is posted by another adapter than made it only
\* if both have been configured under the name of that consumer: names are all that
\* the queue knows, and nothing reserves one (main.ts:372-430 and 449-488).
ConsumersApart ==
  /\ pc = "idle" /\ past # <<>> => \A i \in DOMAIN ToServe(config) :
       LET consumer == ToServe(config)[i] IN
         IF Unservable(consumer, report) \/ i \in faulty THEN i \in log \cup silent
         ELSE /\ i \in served
              /\ {Entry(k) : k \in KeysOf(consumer, Run)} = Due(consumer, report)
              /\ \A k, l \in KeysOf(consumer, Run) : About(k).finding = About(l).finding => k = l
  /\ \A k \in DOMAIN queue :
       LET execution == past[About(k).run] IN
         \E i \in DOMAIN ToServe(execution.config) :
           LET consumer == ToServe(execution.config)[i] IN
           /\ ~Unservable(consumer, execution.report)
           /\ k \in KeysOf(consumer, About(k).run) /\ Entry(k) \in Due(consumer, execution.report)
  /\ \A post \in posted : post.linked /\ {post.by, post.of} \subseteq AdaptersOf(post.to)
=============================================================================
