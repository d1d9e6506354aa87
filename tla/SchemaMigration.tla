--------------------------- MODULE SchemaMigration ---------------------------
(***************************************************************************)
(* The upgrade of the application state (src/src/application/postgres.ts,   *)
(* migrate, and src/migrations).  Whoever deploys a container or calls      *)
(* "database migrate" applies the migrations that are missing, each a       *)
(* transaction of its own.  Meanwhile executions of the release that        *)
(* reports to CRA through a queue of its own (cra-delivery.ts) go on, and   *)
(* executions of the new release begin to use the queue of all consumers,   *)
(* which takes over what the old one holds.                                *)
(***************************************************************************)
EXTENDS Naturals, FiniteSets, FiniteSetsExt

CONSTANTS
  Reports,      \* ids of CRA reports
  Migrators,    \* processes that migrate
  Old, New,     \* executions of the earlier and of the new release
  AttemptLimit, \* options.maxAttempts
  MaxRuns       \* bound: migrations that are started

Queues == {"cra", "consumer"}
Versions == 1 .. 4

ASSUME MigrationAssumption ==
  Old \cap New = {} /\ AttemptLimit \in Nat /\ MaxRuns \in Nat

VARIABLES
  ledger,     \* sentrycode_schema_migrations
  queue,      \* sentrycode_cra_report_delivery and sentrycode_consumer_delivery
  migrator,   \* what each migrator does, the versions it takes to be applied
  execution,  \* what each execution does, the rows it has listed
  recorded,   \* history: attempts of each report that either release recorded
  settled,    \* history: reports that either release recorded as delivered
  late,       \* history: reports that the earlier release queued after the upgrade
  astray,     \* history: reports of which it recorded an attempt after they were copied
  runs

history == <<recorded, settled, late, astray>>
schemaVars == <<ledger, queue, migrator, execution, recorded, settled, late, astray, runs>>
database == <<ledger, queue, history>>

NoReport == [status |-> "absent", attempts |-> 0, contract |-> "none"]
Idle == [at |-> "idle", applied |-> {}, version |-> 0]
Rest == [at |-> "idle", todo |-> {}, report |-> "none"]

SchemaInit ==
  /\ ledger = {}
  /\ queue = [q \in Queues |-> [r \in Reports |-> NoReport]]
  /\ migrator = [m \in Migrators |-> Idle]
  /\ execution = [e \in Old \cup New |-> Rest]
  /\ recorded = [r \in Reports |-> 0] /\ settled = {} /\ late = {} /\ astray = {}
  /\ runs = 0

-----------------------------------------------------------------------------
(* migrate.                                                                *)

Waiting == UNCHANGED <<database, execution>>
Becomes(m, state) == migrator' = [migrator EXCEPT ![m] = state]

Begin(m) ==
  /\ migrator[m].at = "idle" /\ runs < MaxRuns /\ runs' = runs + 1
  /\ Becomes(m, [at |-> IF ledger = {} THEN "apply" ELSE "select", applied |-> {}, version |-> 0])
  /\ Waiting

SelectVersions(m) ==
  /\ migrator[m].at = "select"
  /\ Becomes(m, [migrator[m] EXCEPT !.at = "apply", !.applied = ledger])
  /\ UNCHANGED runs /\ Waiting

\* The statement fails, or the process is killed: the transaction leaves nothing.
Throw(m) ==
  /\ migrator[m].at # "idle"
  /\ Becomes(m, Idle)
  /\ UNCHANGED runs /\ Waiting

\* Mutant of CopyQueue: rows that are there already are written again.
CopyQueueOver ==
  [r \in Reports |-> IF queue["cra"][r] = NoReport THEN queue["consumer"][r] ELSE queue["cra"][r]]

\* Migration 3: ON CONFLICT DO NOTHING.
CopyQueue ==
  [r \in Reports |-> IF queue["consumer"][r] = NoReport THEN queue["cra"][r] ELSE queue["consumer"][r]]

\* Migration 4.
AddContract ==
  [r \in Reports |-> IF queue["consumer"][r] = NoReport THEN NoReport ELSE [queue["consumer"][r] EXCEPT !.contract = "1.0.0"]]

\* A migration can be applied again, but for the copy when its rows lack a column that
\* may not be null: that is checked before the conflict is seen.
Applicable(v) == v = 3 /\ 4 \in ledger => \A r \in Reports : queue["cra"][r] = NoReport

Missing(m) == Versions \ migrator[m].applied

\* The connection may be lost when all is done.
Apply(m) ==
  /\ migrator[m].at = "apply" /\ Missing(m) # {}
  /\ LET v == Min(Missing(m)) IN
     /\ Applicable(v)
     /\ ledger' = ledger \cup {v}
     /\ queue' = [queue EXCEPT !["consumer"] = CASE v = 3 -> CopyQueue [] v = 4 -> AddContract [] OTHER -> @]
     /\ \/ Becomes(m, [migrator[m] EXCEPT !.applied = @ \cup {v}])
        \/ Becomes(m, Idle)
  /\ UNCHANGED <<execution, history, runs>>

Finish(m) ==
  /\ migrator[m].at = "apply" /\ Missing(m) = {}
  /\ Becomes(m, [Idle EXCEPT !.version = Max(migrator[m].applied)])
  /\ UNCHANGED runs /\ Waiting

Migrate(m) == Begin(m) \/ SelectVersions(m) \/ Throw(m) \/ Apply(m) \/ Finish(m)

-----------------------------------------------------------------------------
(* Executions that report.  ConsumerDelivery has the pages, retry times and *)
(* audit of the new queue; the old one differs in none that matters here.  *)

QueueOf(e) == IF e \in Old THEN "cra" ELSE "consumer"
Rows(e) == queue[QueueOf(e)]
Exists(e) == IF e \in Old THEN 2 \in ledger ELSE 3 \in ledger

Go(e, state) == execution' = [execution EXCEPT ![e] = state]
Own == UNCHANGED <<ledger, migrator, runs>>

\* enqueueCraReportDelivery, enqueueConsumerDelivery.
Insert(q, r) ==
  queue' = [queue EXCEPT ![q][r] =
              [status |-> "pending", attempts |-> 0, contract |-> IF q = "consumer" THEN "1.0.0" ELSE "none"]]

\* Ids of reports are made from the id of the run.  The new release names the column
\* that migration 4 adds.
Enqueue(e) ==
  /\ execution[e].at = "idle" /\ Exists(e) /\ e \in New => 4 \in ledger
  /\ \E r \in Reports :
       /\ \A q \in Queues : queue[q][r] = NoReport
       /\ Insert(QueueOf(e), r)
       /\ late' = IF e \in Old /\ 3 \in ledger THEN late \cup {r} ELSE late
  /\ UNCHANGED <<execution, recorded, settled, astray>> /\ Own

Pending(e) == {r \in Reports : Rows(e)[r].status \in {"pending", "failed"} /\ Rows(e)[r].attempts < AttemptLimit}

ListPending(e) ==
  /\ execution[e].at = "idle" /\ Exists(e) /\ Pending(e) # {}
  /\ Go(e, [Rest EXCEPT !.at = "publish", !.todo = Pending(e)])
  /\ UNCHANGED <<queue, history>> /\ Own

Publish(e) ==
  /\ execution[e].at = "publish"
  /\ \E r \in execution[e].todo, outcome \in {"delivered", "failed"} :
       Go(e, [at |-> outcome, todo |-> execution[e].todo \ {r}, report |-> r])
  /\ UNCHANGED <<queue, history>> /\ Own

\* recordCraReportDeliveryAttempt, recordConsumerDeliveryAttempt: what is delivered stays so.
Record(e) ==
  /\ execution[e].at \in {"delivered", "failed"}
  /\ LET outcome == execution[e].at
         r == execution[e].report
         copied == e \in Old /\ queue["consumer"][r] # NoReport
     IN  IF Rows(e)[r].status = "delivered" THEN UNCHANGED <<queue, history>>
         ELSE /\ queue' = [queue EXCEPT ![QueueOf(e)][r].status = outcome, ![QueueOf(e)][r].attempts = @ + 1]
              /\ recorded' = [recorded EXCEPT ![r] = @ + 1]
              /\ settled' = IF outcome = "delivered" THEN settled \cup {r} ELSE settled
              /\ astray' = IF copied THEN astray \cup {r} ELSE astray
              /\ UNCHANGED late
  /\ Go(e, IF execution[e].todo = {} THEN Rest ELSE [Rest EXCEPT !.at = "publish", !.todo = execution[e].todo])
  /\ Own

\* It is killed, or a statement or the audit of a failure throws.
End(e) ==
  /\ execution[e].at # "idle" /\ Go(e, Rest)
  /\ UNCHANGED <<queue, history>> /\ Own

Execute(e) == Enqueue(e) \/ ListPending(e) \/ Publish(e) \/ Record(e) \/ End(e)

SchemaNext == (\E m \in Migrators : Migrate(m)) \/ (\E e \in Old \cup New : Execute(e))

SchemaSpec == SchemaInit /\ [][SchemaNext]_schemaVars

-----------------------------------------------------------------------------
(* Properties.                                                             *)

\* What the ledger says is there, in order, whoever else migrates; and who is told that
\* the schema is current can rely on it.
LedgerHonest ==
  /\ \A v \in ledger : 1 .. v \subseteq ledger
  /\ \A m \in Migrators : migrator[m].version # 0 => migrator[m].version = 4 /\ ledger = Versions

\* What either release has recorded is known to one of the queues.
Known(r) ==
  /\ recorded[r] <= queue["cra"][r].attempts + queue["consumer"][r].attempts
  /\ r \in settled => \E q \in Queues : queue[q][r].status = "delivered"

\* The queue of the new release has no attempt but recorded ones, and all of them unless
\* the earlier release went on with the report.
Kept(r) ==
  LET row == queue["consumer"][r] IN
  /\ row.attempts <= recorded[r] /\ (row.status = "delivered" => r \in settled)
  /\ r \notin astray => row.attempts = recorded[r] /\ (r \in settled => row.status = "delivered")
  /\ 4 \in ledger => row.contract = "1.0.0"

\* However many migrate at a time, are interrupted and begin again: a report of the
\* earlier release is taken over as it was, and neither a repeated migration nor the two
\* queues lose or undo an attempt that either release has recorded (migrations 003 and 004).
\* The queues are not kept in step after the copy: what an execution of the earlier
\* release records from then on stays in the old queue, so a report that it delivers then
\* is still pending in the new one and will be posted once more.  "astray" and "late" say
\* which reports these are; of all others the new queue knows everything.
UpgradeKeepsReports ==
  /\ LedgerHonest
  /\ \A r \in Reports :
       /\ Known(r)
       /\ IF queue["consumer"][r] # NoReport THEN Kept(r)
          ELSE 3 \in ledger /\ queue["cra"][r] # NoReport => r \in late
=============================================================================
