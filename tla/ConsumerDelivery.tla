-------------------------- MODULE ConsumerDelivery --------------------------
(***************************************************************************)
(* The durable outbox of one consumer (src/src/consumers/delivery.ts over  *)
(* the sentrycode_consumer_delivery table) as several SentryCode           *)
(* executions use it at once.  An execution enqueues the messages of its   *)
(* own scan, then drains the queue page by page: it lists due messages,    *)
(* posts each to the consumer, and records the attempt.  Rows are never    *)
(* claimed, so two executions may hold the same message at the same time;  *)
(* an execution may die, a statement may fail and a response may be lost   *)
(* between any two of these steps.                                         *)
(***************************************************************************)
EXTENDS Naturals, FiniteSets, Sequences

CONSTANTS
  Procs,        \* SentryCode executions that report to this consumer
  Msgs,         \* message identifiers
  Bodies,       \* message contents (identity fields and payload)
  Batches,      \* what a scan may want to enqueue: sequences of <<id, body>>
  MaxAttempts,  \* options.maxAttempts
  RetryDelay,   \* options.retryDelayMs, in clock ticks
  BatchSize,    \* options.batchSize
  Horizon,      \* bound: last value of the clock
  MaxFaults,    \* bound: crashes and failed statements or audit writes
  NoMsg, NoBody \* no message in hand, no content stored

ASSUME DeliveryAssumption ==
  /\ IsFiniteSet(Procs) /\ IsFiniteSet(Msgs)
  /\ Batches \subseteq Seq(Msgs \X Bodies)
  /\ MaxAttempts \in Nat \ {0} /\ BatchSize \in Nat \ {0}
  /\ RetryDelay \in Nat /\ Horizon \in Nat /\ MaxFaults \in Nat
  /\ NoMsg \notin Msgs /\ NoBody \notin Bodies

VARIABLES
  row,       \* the table: one row per message, absent until enqueued
  clock,     \* wall clock
  received,  \* <<id, body>> pairs the consumer has processed
  produced,  \* batches that scans have already produced (runId is fresh)
  faults,    \* faults spent
  pc,        \* control state of each execution
  todo,      \* messages an execution still has to enqueue
  now,       \* the time an execution read once, when its drain began
  page,      \* messages of the current page not yet taken up
  cur,       \* the message in hand
  last,      \* the current page ends the drain
  sent       \* history: messages posted in the current drain

store == <<row, received>>
drain == <<todo, now, page, cur, last, sent>>
vars == <<row, clock, received, produced, faults, pc, drain>>

Control == {"idle", "enqueue", "list", "publish", "record", "audit", "catch"}
Status == {"absent", "pending", "failed", "delivered"}
Row == [status : Status, attempts : Nat, next : Nat, created : Nat,
        body : Bodies \cup {NoBody}]

\* next_attempt_at is 0 when NULL: both mean "due at any time".
NoRow == [status |-> "absent", attempts |-> 0, next |-> 0, created |-> 0,
          body |-> NoBody]

TypeOK ==
  /\ row \in [Msgs -> Row]
  /\ clock \in Nat
  /\ received \subseteq Msgs \X Bodies
  /\ produced \subseteq Batches
  /\ faults \in 0 .. MaxFaults
  /\ pc \in [Procs -> Control]
  /\ todo \in [Procs -> Seq(Msgs \X Bodies)]
  /\ now \in [Procs -> Nat]
  /\ page \in [Procs -> SUBSET Msgs]
  /\ cur \in [Procs -> Msgs \cup {NoMsg}]
  /\ last \in [Procs -> BOOLEAN]
  /\ sent \in [Procs -> SUBSET Msgs]

Init ==
  /\ row = [m \in Msgs |-> NoRow]
  /\ clock = 0 /\ received = {} /\ produced = {} /\ faults = 0
  /\ pc = [p \in Procs |-> "idle"]
  /\ todo = [p \in Procs |-> <<>>]
  /\ now = [p \in Procs |-> 0]
  /\ page = [p \in Procs |-> {}]
  /\ cur = [p \in Procs |-> NoMsg]
  /\ last = [p \in Procs |-> FALSE]
  /\ sent = [p \in Procs |-> {}]

Goto(p, from, to) == pc[p] = from /\ pc' = [pc EXCEPT ![p] = to]
Fault == faults < MaxFaults /\ faults' = faults + 1

-----------------------------------------------------------------------------
(* The table operations.                                                   *)

Present == {m \in Msgs : row[m].status # "absent"}

\* An INSERT takes its place behind every row there is (created_at).
NewRow(b) ==
  [status |-> "pending", attempts |-> 0, next |-> 0,
   created |-> Cardinality(Present) + 1, body |-> b]

\* Mutant of Due: the listing forgets attempt_count < maxAttempts.
DueUnbounded(t) ==
  {m \in Msgs : row[m].status \in {"pending", "failed"} /\ row[m].next <= t}

\* listPendingConsumerDeliveries, before ORDER BY and LIMIT.
Due(t) ==
  {m \in Msgs : /\ row[m].status \in {"pending", "failed"}
                /\ row[m].attempts < MaxAttempts
                /\ row[m].next <= t}

\* ORDER BY created_at LIMIT BatchSize.
FirstPage(S) ==
  {m \in S : Cardinality({n \in S : row[n].created < row[m].created}) < BatchSize}

\* The page is worked off in the order it was listed.
Oldest(m, S) == m \in S /\ \A n \in S : row[m].created <= row[n].created

\* now + retryDelayMs; at the end of the clock there is no later to wait for.
RetryAt(t) == IF t + RetryDelay < Horizon THEN t + RetryDelay ELSE Horizon

\* The columns an attempt with the given outcome writes.
Attempted(r, outcome, t) ==
  [status |-> outcome, attempts |-> r.attempts + 1,
   next |-> IF outcome = "delivered" THEN 0 ELSE RetryAt(t),
   created |-> r.created, body |-> r.body]

\* Mutant of RecordAttempt: the update forgets status <> 'delivered'.
RecordAttemptUnguarded(m, outcome, t) ==
  row' = [row EXCEPT ![m] = Attempted(@, outcome, t)]

\* Mutant of RecordAttempt: only a success counts as an attempt.
RecordAttemptUncounted(m, outcome, t) ==
  row' = IF row[m].status = "delivered"
         THEN row
         ELSE [row EXCEPT ![m] = IF outcome = "delivered"
                                 THEN Attempted(@, outcome, t)
                                 ELSE [@ EXCEPT !.status = outcome,
                                                !.next = RetryAt(t)]]

\* recordConsumerDeliveryAttempt: an update that skips delivered rows.
RecordAttempt(m, outcome, t) ==
  row' = IF row[m].status = "delivered"
         THEN row
         ELSE [row EXCEPT ![m] = Attempted(@, outcome, t)]

-----------------------------------------------------------------------------
(* One execution: enqueue, then drain.                                     *)

\* The drain is over: what it kept in local variables is gone.
Forget(p) ==
  /\ now' = [now EXCEPT ![p] = 0]
  /\ last' = [last EXCEPT ![p] = FALSE]
  /\ sent' = [sent EXCEPT ![p] = {}]

\* A scan ends with the messages b; a scan may also select nothing.
Start(p, b) ==
  /\ b \notin produced
  /\ Goto(p, "idle", "enqueue")
  /\ todo' = [todo EXCEPT ![p] = b]
  /\ produced' = IF b = <<>> THEN produced ELSE produced \cup {b}
  /\ UNCHANGED <<store, clock, faults, now, page, cur, last, sent>>

\* INSERT ... ON CONFLICT DO NOTHING created the row.
EnqueueNew(p) ==
  /\ pc[p] = "enqueue" /\ todo[p] # <<>>
  /\ LET m == Head(todo[p])[1]
         b == Head(todo[p])[2]
     IN /\ row[m].status = "absent"
        /\ row' = [row EXCEPT ![m] = NewRow(b)]
  /\ todo' = [todo EXCEPT ![p] = Tail(@)]
  /\ UNCHANGED <<clock, received, produced, faults, pc, now, page, cur, last, sent>>

\* The key exists with the same identity and payload: nothing to do.
EnqueueMatch(p) ==
  /\ pc[p] = "enqueue" /\ todo[p] # <<>>
  /\ row[Head(todo[p])[1]].status # "absent"
  /\ row[Head(todo[p])[1]].body = Head(todo[p])[2]
  /\ todo' = [todo EXCEPT ![p] = Tail(@)]
  /\ UNCHANGED <<store, clock, produced, faults, pc, now, page, cur, last, sent>>

\* Mutant of EnqueueCollision: ON CONFLICT DO UPDATE, keeping the newest.
EnqueueOverwrites(p) ==
  /\ pc[p] = "enqueue" /\ todo[p] # <<>>
  /\ LET m == Head(todo[p])[1]
         b == Head(todo[p])[2]
     IN /\ row[m].status # "absent" /\ row[m].body # b
        /\ row' = [row EXCEPT ![m].body = b]
  /\ todo' = [todo EXCEPT ![p] = Tail(@)]
  /\ UNCHANGED <<clock, received, produced, faults, pc, now, page, cur, last, sent>>

\* The key exists with other content: the caller gives up this consumer.
EnqueueCollision(p) ==
  /\ todo[p] # <<>>
  /\ row[Head(todo[p])[1]].status # "absent"
  /\ row[Head(todo[p])[1]].body # Head(todo[p])[2]
  /\ Goto(p, "enqueue", "idle")
  /\ todo' = [todo EXCEPT ![p] = <<>>]
  /\ UNCHANGED <<store, clock, produced, faults, now, page, cur, last, sent>>

BeginDrain(p) ==
  /\ todo[p] = <<>>
  /\ Goto(p, "enqueue", "list")
  /\ now' = [now EXCEPT ![p] = clock]
  /\ sent' = [sent EXCEPT ![p] = {}]
  /\ UNCHANGED <<store, clock, produced, faults, todo, page, cur, last>>

ListPage(p) ==
  LET found == FirstPage(Due(now[p])) IN
  /\ Goto(p, "list", IF found = {} THEN "idle" ELSE "publish")
  /\ page' = [page EXCEPT ![p] = found]
  /\ IF found = {} THEN Forget(p)
     ELSE /\ last' = [last EXCEPT ![p] = Cardinality(found) < BatchSize]
          /\ UNCHANGED <<now, sent>>
  /\ UNCHANGED <<store, clock, produced, faults, todo, cur>>

TakeUp(p) ==
  /\ \E m \in page[p] : /\ Oldest(m, page[p])
                         /\ page' = [page EXCEPT ![p] = @ \ {m}]
                         /\ cur' = [cur EXCEPT ![p] = m]
                         /\ sent' = [sent EXCEPT ![p] = @ \cup {m}]
  /\ UNCHANGED <<row, clock, produced, faults, todo, now, last>>

Processed(p) == received' = received \cup {<<cur'[p], row[cur'[p]].body>>}

\* The consumer processed the post and its 2xx came back in time.
PublishOk(p) == TakeUp(p) /\ Processed(p) /\ Goto(p, "publish", "record")

\* It processed the post, but the timeout, a lost connection or an error
\* status hid that from the publisher.
PublishLost(p) == TakeUp(p) /\ Processed(p) /\ Goto(p, "publish", "catch")

\* Mutant of PublishRefused: the publisher does not look at response.ok.
PublishUnchecked(p) == TakeUp(p) /\ UNCHANGED received /\ Goto(p, "publish", "record")

\* It never processed the post.
PublishRefused(p) == TakeUp(p) /\ UNCHANGED received /\ Goto(p, "publish", "catch")

RecordDelivered(p) ==
  /\ Goto(p, "record", "audit")
  /\ RecordAttempt(cur[p], "delivered", now[p])
  /\ UNCHANGED <<clock, received, produced, faults, drain>>

\* The statement failed, before or after it took effect.
RecordThrows(p) ==
  /\ Goto(p, "record", "catch")
  /\ Fault
  /\ RecordAttempt(cur[p], "delivered", now[p]) \/ UNCHANGED row
  /\ UNCHANGED <<clock, received, produced, drain>>

AuditDelivered(p) ==
  /\ Goto(p, "audit", "publish")
  /\ cur' = [cur EXCEPT ![p] = NoMsg]
  /\ UNCHANGED <<store, clock, produced, faults, todo, now, page, last, sent>>

\* The audit append shares the try block with the post.
AuditThrows(p) ==
  /\ Goto(p, "audit", "catch")
  /\ Fault
  /\ UNCHANGED <<store, clock, produced, drain>>

\* Mutant of RecordFailed: a failure does not end the drain.
RecordFailedGoesOn(p) ==
  /\ Goto(p, "catch", "publish")
  /\ RecordAttempt(cur[p], "failed", now[p])
  /\ cur' = [cur EXCEPT ![p] = NoMsg]
  /\ UNCHANGED <<clock, received, produced, faults, todo, now, page, last, sent>>

\* The catch block; its audit append changes nothing here, its own failure
\* is Die.
RecordFailed(p) ==
  /\ Goto(p, "catch", "publish")
  /\ RecordAttempt(cur[p], "failed", now[p])
  /\ cur' = [cur EXCEPT ![p] = NoMsg]
  /\ last' = [last EXCEPT ![p] = TRUE]
  /\ UNCHANGED <<clock, received, produced, faults, todo, now, page, sent>>

PageDone(p) ==
  /\ page[p] = {}
  /\ Goto(p, "publish", IF last[p] THEN "idle" ELSE "list")
  /\ IF last[p] THEN Forget(p) ELSE UNCHANGED <<now, last, sent>>
  /\ UNCHANGED <<store, clock, produced, faults, todo, page, cur>>

\* The execution is killed, or an exception leaves the enqueue or the drain.
Die(p) ==
  /\ pc[p] # "idle"
  /\ Fault
  /\ pc' = [pc EXCEPT ![p] = "idle"]
  /\ todo' = [todo EXCEPT ![p] = <<>>]
  /\ page' = [page EXCEPT ![p] = {}]
  /\ cur' = [cur EXCEPT ![p] = NoMsg]
  /\ Forget(p)
  /\ UNCHANGED <<store, clock, produced>>

Tick ==
  /\ clock < Horizon
  /\ clock' = clock + 1
  /\ UNCHANGED <<store, produced, faults, pc, drain>>

Work(p) ==
  \/ EnqueueNew(p) \/ EnqueueMatch(p) \/ EnqueueCollision(p)
  \/ BeginDrain(p) \/ ListPage(p)
  \/ PublishOk(p) \/ PublishLost(p) \/ PublishRefused(p)
  \/ RecordDelivered(p) \/ RecordThrows(p)
  \/ AuditDelivered(p) \/ AuditThrows(p)
  \/ RecordFailed(p) \/ PageDone(p)

Next ==
  \/ \E p \in Procs : \/ \E b \in Batches \cup {<<>>} : Start(p, b)
                      \/ Work(p)
                      \/ Die(p)
  \/ Tick

Spec == Init /\ [][Next]_vars

\* A running execution keeps going unless it dies, time passes, and
\* SentryCode is executed again now and then (with any scan result).
Fairness ==
  /\ \A p \in Procs : WF_vars(Work(p))
  /\ \A p \in Procs : WF_vars(\E b \in Batches \cup {<<>>} : Start(p, b))
  /\ WF_vars(Tick)

FairSpec == Spec /\ Fairness

-----------------------------------------------------------------------------
(* Properties.                                                             *)

\* Executions that may still record an attempt of m.
Holders(m) ==
  {p \in Procs : m \in page[p] \/ (cur[p] = m /\ pc[p] \in {"record", "catch"})}

\* A row says "delivered" only if the consumer processed exactly the content
\* the row holds: no failure path and no other execution's outcome may mark
\* a message delivered that never got through (delivery.ts records after
\* the post resolves).
DeliveredWasReceived ==
  \A m \in Msgs : row[m].status = "delivered" => <<m, row[m].body>> \in received

\* A message id never reaches the consumer with two different contents, even
\* when a later enqueue collides with it.
OneContentPerMessage ==
  \A r1, r2 \in received : r1[1] = r2[1] => r1[2] = r2[2]

\* attempt_count can exceed maxAttempts, because the listing is the only
\* place that looks at it, but by no more than one per other execution.
AttemptsBounded ==
  \A m \in Msgs : row[m].attempts <= MaxAttempts + Cardinality(Procs) - 1

\* One drain never posts a message twice, although it lists the queue again
\* after every full page: what it posted is delivered, or it has stopped.
OncePerDrain == \A p \in Procs : page[p] \cap sent[p] = {}

\* A delivered row never changes again: an execution that learns of its own
\* failure late cannot put a delivered message back into the queue.
DeliveredIsFinal ==
  [][\A m \in Msgs : row[m].status = "delivered" => row'[m] = row[m]]_vars

\* A queued message is eventually delivered or has used up its attempts: a
\* message the consumer keeps refusing does not hold up the ones behind it.
Exhausted(m) == row[m].attempts >= MaxAttempts
Settles ==
  \A m \in Msgs :
    row[m].status = "pending" ~> row[m].status = "delivered" \/ Exhausted(m)

\* The table and the consumer, seen from outside the executions.
Outcome(m) ==
  CASE row[m].status = "absent" -> "absent"
    [] row[m].status = "delivered" -> "delivered"
    [] OTHER -> "queued"

Contract == INSTANCE DeliveryContract
  WITH outcome <- [m \in Msgs |-> Outcome(m)],
       content <- [m \in Msgs |-> row[m].body]

\* Executions that race, fail and die still deliver at least once, the
\* content first queued, and settle only what was received.
ContractSpec == Contract!Spec
=============================================================================
