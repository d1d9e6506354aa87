----------------------- MODULE ConsumerDeliveryProofs -----------------------
(***************************************************************************)
(* Proofs about the database of the application.  ConsumerDelivery, for    *)
(* every number of executions, messages, scans, attempts, page sizes,      *)
(* delays and faults; and SchemaMigration, for every number of reports,    *)
(* migrators and executions of both releases: what the ledger of the       *)
(* migrations means, and that the upgrade neither loses nor undoes what    *)
(* was recorded.                                                           *)
(***************************************************************************)
EXTENDS ConsumerDelivery, SchemaMigration, FiniteSetTheorems, SequenceTheorems, TLAPS

\* The execution has a message in hand.
InTry == {"record", "audit", "catch"}

\* What an execution holds is in the table, and it holds nothing else.
Hands ==
  \A p \in Procs :
    /\ \A m \in page[p] : row[m].status # "absent"
    /\ pc[p] \in InTry => cur[p] \in Msgs /\ row[cur[p]].status # "absent"
    /\ pc[p] \notin InTry => cur[p] = NoMsg
    /\ pc[p] \notin InTry \cup {"publish"} => page[p] = {}

Stored == \A m \in Msgs : row[m].status # "absent" => row[m].body \in Bodies

IndType == TypeOK /\ Hands /\ Stored

-----------------------------------------------------------------------------
(* Typing.                                                                 *)

\* The typing invariant holds before any execution has run.
LEMMA InitIndType == Init => IndType
  BY DeliveryAssumption
     DEF Init, IndType, TypeOK, Hands, Stored, InTry, Row, Status, Control, NoRow

\* The number of rows, from which created_at is drawn, is a natural number.
LEMMA PresentSize == Cardinality(Present) \in Nat
  BY DeliveryAssumption, FS_Subset, FS_CardinalityType DEF Present

\* What an INSERT writes is a well-formed row.
LEMMA NewRowType ==
  ASSUME NEW b \in Bodies
  PROVE  NewRow(b) \in Row /\ NewRow(b).status # "absent" /\ NewRow(b).body = b
  BY PresentSize DEF NewRow, Row, Status

\* What one guarded UPDATE of the attempt columns does to the table.
LEMMA AttemptOnRow ==
  ASSUME row \in [Msgs -> Row], NEW m \in Msgs, NEW outcome \in {"delivered", "failed"},
         NEW t \in Nat, RecordAttempt(m, outcome, t), row[m].status # "absent"
  PROVE  /\ row' \in [Msgs -> Row]
         /\ \A n \in Msgs \ {m} : row'[n] = row[n]
         /\ row[m].status = "delivered" => row'[m] = row[m]
         /\ row[m].status # "delivered" => /\ row'[m].status = outcome
                                           /\ row'[m].attempts = row[m].attempts + 1
         /\ row'[m].status # "absent"
         /\ row'[m].body = row[m].body
  <1>1. CASE row[m].status = "delivered"
    BY <1>1 DEF RecordAttempt
  <1>2. CASE row[m].status # "delivered"
    <2>1. row' = [row EXCEPT ![m] = Attempted(row[m], outcome, t)]
      BY <1>2 DEF RecordAttempt
    <2>2. RetryAt(t) \in Nat
      BY DeliveryAssumption DEF RetryAt
    <2>r. row[m] \in Row
      OBVIOUS
    <2>3. /\ Attempted(row[m], outcome, t) \in Row
          /\ Attempted(row[m], outcome, t).status = outcome
          /\ Attempted(row[m], outcome, t).attempts = row[m].attempts + 1
          /\ Attempted(row[m], outcome, t).body = row[m].body
      BY <2>2, <2>r DEF Attempted, Row, Status
    <2>4. QED
      BY <1>2, <2>1, <2>3
  <1>3. QED
    BY <1>1, <1>2

\* An attempt on a row neither makes nor unmakes a row, and keeps contents.
LEMMA AttemptKeepsRows ==
  ASSUME row \in [Msgs -> Row], NEW m \in Msgs, NEW outcome \in {"delivered", "failed"},
         NEW t \in Nat, RecordAttempt(m, outcome, t) \/ UNCHANGED row,
         row[m].status # "absent"
  PROVE  /\ row' \in [Msgs -> Row]
         /\ \A n \in Msgs : row'[n].body = row[n].body
         /\ \A n \in Msgs : row'[n].status = "absent" <=> row[n].status = "absent"
  <1>1. CASE UNCHANGED row
    BY <1>1
  <1>2. CASE RecordAttempt(m, outcome, t)
    <2>1. /\ row' \in [Msgs -> Row] /\ \A n \in Msgs \ {m} : row'[n] = row[n]
          /\ row'[m].status # "absent" /\ row'[m].body = row[m].body
      BY <1>2, AttemptOnRow
    <2>2. QED
      BY <2>1
  <1>3. QED
    BY <1>1, <1>2

\* Starting an execution with the batch of its scan keeps the typing.
LEMMA StartIndType ==
  ASSUME IndType, NEW p \in Procs, NEW b \in Batches \cup {<<>>}, Start(p, b)
  PROVE  IndType'
  <1>1. b \in Seq(Msgs \X Bodies)
    BY DeliveryAssumption, EmptySeq
  <1>2. todo' \in [Procs -> Seq(Msgs \X Bodies)]
    BY <1>1 DEF IndType, TypeOK, Start
  <1>3. b # <<>> => b \in Batches
    OBVIOUS
  <1>4. produced' \subseteq Batches
    BY <1>3 DEF IndType, TypeOK, Start
  <1>5. QED
    BY <1>2, <1>4 DEF IndType, TypeOK, Hands, Stored, InTry, Control, Start, Goto, store

\* What a drain forgets keeps its type.
LEMMA ForgetTypes ==
  ASSUME TypeOK, NEW p \in Procs, Forget(p)
  PROVE  /\ now' \in [Procs -> Nat] /\ last' \in [Procs -> BOOLEAN]
         /\ sent' \in [Procs -> SUBSET Msgs]
  <1>1. now' \in [Procs -> Nat]
    BY DEF TypeOK, Forget
  <1>2. last' \in [Procs -> BOOLEAN]
    BY Zenon DEF TypeOK, Forget
  <1>3. sent' \in [Procs -> SUBSET Msgs]
    BY DEF TypeOK, Forget
  <1>4. QED
    BY <1>1, <1>2, <1>3

\* Every step of the enqueue and drain loops keeps the typing.
LEMMA WorkIndType ==
  ASSUME IndType, NEW p \in Procs, Work(p)
  PROVE  IndType'
  <1> USE DEF IndType, TypeOK, Hands, Stored, InTry, Control, Goto, store, drain
  <1>1. CASE EnqueueNew(p)
    <2>1. Head(todo[p]) \in Msgs \X Bodies /\ Tail(todo[p]) \in Seq(Msgs \X Bodies)
      BY <1>1, HeadTailProperties DEF EnqueueNew
    <2>2. PICK m \in Msgs, b \in Bodies :
            row[m].status = "absent" /\ row' = [row EXCEPT ![m] = NewRow(b)]
      BY <1>1, <2>1 DEF EnqueueNew
    <2>3. row' \in [Msgs -> Row] /\ row'[m].status # "absent" /\ row'[m].body = b
      BY <2>2, NewRowType
    <2>4. \A n \in Msgs : n # m => row'[n] = row[n]
      BY <2>2
    <2>5. todo' \in [Procs -> Seq(Msgs \X Bodies)]
      BY <1>1, <2>1 DEF EnqueueNew
    <2>6. TypeOK'
      BY <1>1, <2>3, <2>5 DEF EnqueueNew
    <2>7. Hands'
      <3>1. UNCHANGED <<pc, page, cur>>
        BY <1>1 DEF EnqueueNew
      <3>2. \A n \in Msgs : row[n].status # "absent" => row'[n].status # "absent"
        BY <2>3, <2>4
      <3>3. QED
        BY <3>1, <3>2
    <2>8. Stored'
      BY <2>3, <2>4
    <2>9. QED
      BY <2>6, <2>7, <2>8
  <1>2. CASE EnqueueMatch(p)
    <2>1. Tail(todo[p]) \in Seq(Msgs \X Bodies)
      BY <1>2, HeadTailProperties DEF EnqueueMatch
    <2>2. todo' \in [Procs -> Seq(Msgs \X Bodies)]
      BY <1>2, <2>1 DEF EnqueueMatch
    <2>3. UNCHANGED <<row, received, clock, produced, faults, pc, now, page, cur, last, sent>>
      BY <1>2 DEF EnqueueMatch
    <2>4. TypeOK'
      BY <2>2, <2>3
    <2>5. Hands' /\ Stored'
      BY <2>3
    <2>6. QED
      BY <2>4, <2>5
  <1>3. CASE EnqueueCollision(p)
    BY <1>3 DEF EnqueueCollision
  <1>4. CASE BeginDrain(p)
    BY <1>4 DEF BeginDrain
  <1>5. CASE ListPage(p)
    <2>1. FirstPage(Due(now[p])) \subseteq {m \in Msgs : row[m].status # "absent"}
      BY DEF FirstPage, Due
    <2>2. /\ now' \in [Procs -> Nat] /\ last' \in [Procs -> BOOLEAN]
          /\ sent' \in [Procs -> SUBSET Msgs]
      <3>1. CASE FirstPage(Due(now[p])) = {}
        BY <1>5, <3>1, ForgetTypes DEF ListPage
      <3>2. CASE FirstPage(Due(now[p])) # {}
        <4>1. /\ UNCHANGED <<now, sent>>
              /\ last' = [last EXCEPT ![p] = Cardinality(FirstPage(Due(now[p]))) < BatchSize]
          BY <1>5, <3>2 DEF ListPage
        <4>2. last' \in [Procs -> BOOLEAN]
          BY <4>1
        <4>3. QED
          BY <4>1, <4>2
      <3>3. QED
        BY <3>1, <3>2
    <2>3. /\ UNCHANGED <<row, received, clock, produced, faults, todo, cur>>
          /\ pc' = [pc EXCEPT ![p] = IF FirstPage(Due(now[p])) = {} THEN "idle" ELSE "publish"]
          /\ pc[p] = "list" /\ page' = [page EXCEPT ![p] = FirstPage(Due(now[p]))]
      BY <1>5 DEF ListPage
    <2>4. TypeOK'
      BY <2>1, <2>2, <2>3
    <2>5. Hands' /\ Stored'
      BY <2>1, <2>3
    <2>6. QED
      BY <2>4, <2>5
  <1>6. CASE PublishOk(p) \/ PublishLost(p) \/ PublishRefused(p)
    <2>1. TakeUp(p)
      BY <1>6 DEF PublishOk, PublishLost, PublishRefused
    <2>2. PICK step \in {"record", "catch"} : pc[p] = "publish" /\ pc' = [pc EXCEPT ![p] = step]
      BY <1>6 DEF PublishOk, PublishLost, PublishRefused
    <2>3. received' \subseteq received \cup {<<cur'[p], row[cur'[p]].body>>}
      BY <1>6 DEF PublishOk, PublishLost, PublishRefused, Processed
    <2>4. PICK m \in page[p] : /\ page' = [page EXCEPT ![p] = @ \ {m}] /\ cur' = [cur EXCEPT ![p] = m]
                               /\ sent' = [sent EXCEPT ![p] = @ \cup {m}]
      BY <2>1 DEF TakeUp
    <2>5. UNCHANGED <<row, clock, produced, faults, todo, now, last>>
      BY <2>1 DEF TakeUp
    <2>6. m \in Msgs /\ row[m].status # "absent" /\ row[m].body \in Bodies
      OBVIOUS
    <2>7. received' \subseteq Msgs \X Bodies
      <3>1. cur'[p] = m
        BY <2>4
      <3>2. QED
        BY <2>3, <2>6, <3>1
    <2>8. TypeOK'
      BY <2>2, <2>4, <2>5, <2>6, <2>7
    <2>9. Hands' /\ Stored'
      BY <2>2, <2>4, <2>5, <2>6
    <2>10. QED
      BY <2>8, <2>9
  <1>7. CASE RecordDelivered(p)
    <2>1. cur[p] \in Msgs /\ row[cur[p]].status # "absent" /\ now[p] \in Nat
      BY <1>7 DEF RecordDelivered
    <2>2. /\ row' \in [Msgs -> Row]
          /\ \A n \in Msgs : row'[n].body = row[n].body
          /\ \A n \in Msgs : row'[n].status = "absent" <=> row[n].status = "absent"
      <3>1. RecordAttempt(cur[p], "delivered", now[p])
        BY <1>7 DEF RecordDelivered
      <3> HIDE DEF IndType, TypeOK, Hands, Stored, InTry, Control, Goto, store, drain
      <3>2. row \in [Msgs -> Row]
        BY DEF IndType, TypeOK
      <3>3. QED
        BY <2>1, <3>1, <3>2, AttemptKeepsRows
    <2>3. QED
      BY <1>7, <2>1, <2>2 DEF RecordDelivered
  <1>8. CASE RecordThrows(p)
    <2>1. cur[p] \in Msgs /\ row[cur[p]].status # "absent" /\ now[p] \in Nat
      BY <1>8 DEF RecordThrows
    <2>2. /\ row' \in [Msgs -> Row]
          /\ \A n \in Msgs : row'[n].body = row[n].body
          /\ \A n \in Msgs : row'[n].status = "absent" <=> row[n].status = "absent"
      <3>1. RecordAttempt(cur[p], "delivered", now[p]) \/ UNCHANGED row
        BY <1>8 DEF RecordThrows
      <3> HIDE DEF IndType, TypeOK, Hands, Stored, InTry, Control, Goto, store, drain
      <3>2. row \in [Msgs -> Row]
        BY DEF IndType, TypeOK
      <3>3. QED
        BY <2>1, <3>1, <3>2, AttemptKeepsRows
    <2>3. /\ pc[p] = "record" /\ pc' = [pc EXCEPT ![p] = "catch"]
          /\ faults' \in 0 .. MaxFaults
          /\ UNCHANGED <<clock, received, produced, todo, now, page, cur, last, sent>>
      BY <1>8, DeliveryAssumption DEF RecordThrows, Fault
    <2>4. TypeOK'
      BY <2>2, <2>3
    <2>5. Hands'
      BY <2>1, <2>2, <2>3
    <2>6. Stored'
      BY <2>2
    <2>7. QED
      BY <2>4, <2>5, <2>6
  <1>9. CASE AuditDelivered(p)
    BY <1>9 DEF AuditDelivered
  <1>10. CASE AuditThrows(p)
    BY <1>10, DeliveryAssumption DEF AuditThrows, Fault
  <1>11. CASE RecordFailed(p)
    <2>1. cur[p] \in Msgs /\ row[cur[p]].status # "absent" /\ now[p] \in Nat
      BY <1>11 DEF RecordFailed
    <2>2. /\ row' \in [Msgs -> Row]
          /\ \A n \in Msgs : row'[n].body = row[n].body
          /\ \A n \in Msgs : row'[n].status = "absent" <=> row[n].status = "absent"
      <3>1. RecordAttempt(cur[p], "failed", now[p])
        BY <1>11 DEF RecordFailed
      <3> HIDE DEF IndType, TypeOK, Hands, Stored, InTry, Control, Goto, store, drain
      <3>2. row \in [Msgs -> Row]
        BY DEF IndType, TypeOK
      <3>3. QED
        BY <2>1, <3>1, <3>2, AttemptKeepsRows
    <2>3. QED
      BY <1>11, <2>1, <2>2 DEF RecordFailed
  <1>12. CASE PageDone(p)
    <2>1. /\ now' \in [Procs -> Nat] /\ last' \in [Procs -> BOOLEAN]
          /\ sent' \in [Procs -> SUBSET Msgs]
      <3>1. CASE last[p]
        BY <1>12, <3>1, ForgetTypes DEF PageDone
      <3>2. CASE ~ last[p]
        BY <1>12, <3>2 DEF PageDone
      <3>3. QED
        BY <3>1, <3>2
    <2>2. /\ UNCHANGED <<row, received, clock, produced, faults, todo, page, cur>>
          /\ pc' = [pc EXCEPT ![p] = IF last[p] THEN "idle" ELSE "list"]
          /\ pc[p] = "publish" /\ page[p] = {}
      BY <1>12 DEF PageDone
    <2>3. TypeOK'
      BY <2>1, <2>2
    <2>4. Hands' /\ Stored'
      BY <2>2
    <2>5. QED
      BY <2>3, <2>4
  <1> QED
    BY <1>1, <1>2, <1>3, <1>4, <1>5, <1>6, <1>7, <1>8, <1>9, <1>10, <1>11, <1>12 DEF Work

\* Killing an execution keeps the typing: the rows outlive it.
LEMMA DieIndType ==
  ASSUME IndType, NEW p \in Procs, Die(p)
  PROVE  IndType'
  <1>1. UNCHANGED <<row, clock, received, produced>> /\ faults' \in 0 .. MaxFaults
    BY DeliveryAssumption DEF Die, Fault, store, IndType, TypeOK
  <1>2. /\ pc' = [pc EXCEPT ![p] = "idle"] /\ todo' = [todo EXCEPT ![p] = <<>>]
        /\ page' = [page EXCEPT ![p] = {}] /\ cur' = [cur EXCEPT ![p] = NoMsg] /\ Forget(p)
    BY DEF Die
  <1>3. Hands'
    BY <1>1, <1>2 DEF IndType, TypeOK, Hands, InTry
  <1>4. TypeOK'
    <2>1. todo' \in [Procs -> Seq(Msgs \X Bodies)]
      BY <1>2, EmptySeq DEF IndType, TypeOK
    <2>2. pc' \in [Procs -> Control] /\ page' \in [Procs -> SUBSET Msgs] /\ cur' \in [Procs -> Msgs \cup {NoMsg}]
      BY <1>2 DEF IndType, TypeOK, Control
    <2>3. TypeOK /\ UNCHANGED <<row, clock, received, produced>> /\ faults' \in 0 .. MaxFaults
      BY <1>1 DEF IndType
    <2>4. now' \in [Procs -> Nat] /\ last' \in [Procs -> BOOLEAN] /\ sent' \in [Procs -> SUBSET Msgs]
      BY <2>3, <1>2, ForgetTypes
    <2>5. QED
      BY <2>1, <2>2, <2>3, <2>4 DEF TypeOK
  <1>5. QED
    BY <1>1, <1>3, <1>4 DEF IndType, Stored

\* The typing invariant is inductive over the whole next-state relation.
LEMMA NextIndType == IndType /\ [Next]_vars => IndType'
  <1> SUFFICES ASSUME IndType, [Next]_vars
               PROVE  IndType'
    OBVIOUS
  <1>1. ASSUME NEW p \in Procs, NEW b \in Batches \cup {<<>>}, Start(p, b)
        PROVE  IndType'
    BY <1>1, StartIndType
  <1>2. ASSUME NEW p \in Procs, Work(p)
        PROVE  IndType'
    BY <1>2, WorkIndType
  <1>3. ASSUME NEW p \in Procs, Die(p)
        PROVE  IndType'
    BY <1>3, DieIndType
  <1>4. CASE Tick
    BY <1>4 DEF Tick, IndType, TypeOK, Hands, Stored, store, drain
  <1>5. CASE UNCHANGED vars
    BY <1>5 DEF vars, IndType, TypeOK, Hands, Stored, drain
  <1>6. QED
    BY <1>1, <1>2, <1>3, <1>4, <1>5 DEF Next

\* The typing invariant holds of every reachable state.
LEMMA InductiveType == Spec => []IndType
  BY InitIndType, NextIndType, PTL DEF Spec

\* Every variable keeps its type.
THEOREM TypeCorrect == Spec => []TypeOK
  <1>1. IndType => TypeOK
    BY DEF IndType
  <1>2. QED
    BY <1>1, InductiveType, PTL

-----------------------------------------------------------------------------
(* How a step may change the table and what the consumer has received.      *)

InsertStep == \E m \in Msgs, b \in Bodies :
  row[m].status = "absent" /\ row' = [row EXCEPT ![m] = NewRow(b)]

RecordStep == \E p \in Procs :
  /\ \/ pc[p] = "record" /\ RecordAttempt(cur[p], "delivered", now[p])
     \/ pc[p] = "catch" /\ RecordAttempt(cur[p], "failed", now[p])

\* Only an insert and a record of an attempt write the table.
LEMMA TableStep ==
  ASSUME IndType, [Next]_vars
  PROVE  InsertStep \/ RecordStep \/ UNCHANGED row
  <1> USE DEF InsertStep, RecordStep, store, Goto
  <1>1. ASSUME NEW p \in Procs, EnqueueNew(p)
        PROVE  InsertStep
    <2>1. Head(todo[p]) \in Msgs \X Bodies
      BY <1>1, HeadTailProperties DEF EnqueueNew, IndType, TypeOK
    <2>2. QED
      BY <1>1, <2>1 DEF EnqueueNew
  <1>2. ASSUME NEW p \in Procs, Work(p), ~ EnqueueNew(p)
        PROVE  RecordStep \/ UNCHANGED row
    BY <1>2 DEF Work, EnqueueMatch, EnqueueCollision, BeginDrain, ListPage,
       PublishOk, PublishLost, PublishRefused, TakeUp, RecordDelivered,
       RecordThrows, AuditDelivered, AuditThrows, RecordFailed, PageDone
  <1>3. ASSUME NEW p \in Procs, Die(p) \/ \E b \in Batches \cup {<<>>} : Start(p, b)
        PROVE  UNCHANGED row
    BY <1>3 DEF Die, Start
  <1>4. Tick \/ UNCHANGED vars => UNCHANGED row
    BY DEF Tick, vars
  <1>5. QED
    BY <1>1, <1>2, <1>3, <1>4 DEF Next

\* A row is never removed, its content never changes, and once delivered it
\* never changes at all.
LEMMA TableMonotone ==
  ASSUME IndType, [Next]_vars, NEW m \in Msgs, row[m].status # "absent"
  PROVE  /\ row'[m].status # "absent"
         /\ row'[m].body = row[m].body
         /\ row[m].status = "delivered" => row'[m] = row[m]
  <1>1. CASE InsertStep
    BY <1>1 DEF InsertStep, IndType, TypeOK
  <1>2. CASE RecordStep
    <2>1. PICK p \in Procs, outcome \in {"delivered", "failed"} :
            /\ pc[p] \in InTry
            /\ RecordAttempt(cur[p], outcome, now[p])
      BY <1>2 DEF RecordStep, InTry
    <2>2. cur[p] \in Msgs /\ row[cur[p]].status # "absent" /\ now[p] \in Nat
      BY <2>1 DEF IndType, TypeOK, Hands
    <2>3. row \in [Msgs -> Row]
      BY DEF IndType, TypeOK
    <2>4. QED
      BY <2>1, <2>2, <2>3, AttemptOnRow
  <1>3. CASE UNCHANGED row
    BY <1>3
  <1>4. QED
    BY <1>1, <1>2, <1>3, TableStep

\* No step changes a delivered row.
THEOREM DeliveredRowsFinal == Spec => DeliveredIsFinal
  <1>1. IndType /\ [Next]_vars
          => [\A m \in Msgs : row[m].status = "delivered" => row'[m] = row[m]]_vars
    BY TableMonotone
  <1>2. QED
    BY <1>1, InductiveType, PTL DEF Spec, DeliveredIsFinal

-----------------------------------------------------------------------------
(* Delivered means received, with one content per message.                 *)

Contents ==
  /\ \A r \in received : row[r[1]].status # "absent" /\ row[r[1]].body = r[2]
  /\ \A p \in Procs : pc[p] \in {"record", "audit"}
                        => <<cur[p], row[cur[p]].body>> \in received
  /\ DeliveredWasReceived

\* No content is stored or received before the first enqueue.
LEMMA InitContents == Init => Contents
  BY DEF Init, Contents, DeliveredWasReceived, NoRow

\* A post sends the stored content of a message in the table.
LEMMA ReceivedStep ==
  ASSUME IndType, [Next]_vars
  PROVE  \/ UNCHANGED received
         \/ \E p \in Procs : /\ PublishOk(p) \/ PublishLost(p)
                             /\ cur'[p] \in Msgs /\ row[cur'[p]].status # "absent"
                             /\ received' = received \cup {<<cur'[p], row[cur'[p]].body>>}
  <1>1. ASSUME NEW p \in Procs, PublishOk(p) \/ PublishLost(p)
        PROVE  /\ cur'[p] \in Msgs /\ row[cur'[p]].status # "absent"
               /\ received' = received \cup {<<cur'[p], row[cur'[p]].body>>}
    <2>1. PICK m \in page[p] : cur' = [cur EXCEPT ![p] = m]
      BY <1>1 DEF PublishOk, PublishLost, TakeUp
    <2>2. cur'[p] = m /\ m \in Msgs /\ row[m].status # "absent"
      BY <2>1 DEF IndType, TypeOK, Hands
    <2>3. received' = received \cup {<<cur'[p], row[cur'[p]].body>>}
      BY <1>1 DEF PublishOk, PublishLost, Processed
    <2>4. QED
      BY <2>2, <2>3
  <1>2. ASSUME NEW p \in Procs, Work(p), ~ PublishOk(p), ~ PublishLost(p)
        PROVE  UNCHANGED received
    BY <1>2 DEF Work, EnqueueNew, EnqueueMatch, EnqueueCollision, BeginDrain, ListPage,
       PublishRefused, TakeUp, RecordDelivered, RecordThrows, AuditDelivered,
       AuditThrows, RecordFailed, PageDone, store, drain
  <1>3. ASSUME NEW p \in Procs, Die(p) \/ \E b \in Batches \cup {<<>>} : Start(p, b)
        PROVE  UNCHANGED received
    BY <1>3 DEF Die, Start, store
  <1>4. Tick \/ UNCHANGED vars => UNCHANGED received
    BY DEF Tick, vars, store
  <1>5. QED
    BY <1>1, <1>2, <1>3, <1>4 DEF Next

\* Enqueue never rewrites a body, and only stored bodies are ever posted.
LEMMA ContentsNext == IndType /\ IndType' /\ Contents /\ [Next]_vars => Contents'
  <1> SUFFICES ASSUME IndType, IndType', Contents, [Next]_vars
               PROVE  Contents'
    OBVIOUS
  <1>1. \A r \in received : r[1] \in Msgs /\ r = <<r[1], r[2]>>
    BY DEF IndType, TypeOK
  <1>2. received \subseteq received'
    BY ReceivedStep
  <1>3. \A r \in received' : row'[r[1]].status # "absent" /\ row'[r[1]].body = r[2]
    BY <1>1, ReceivedStep, TableMonotone DEF Contents
  <1>4. ASSUME NEW p \in Procs, pc'[p] \in {"record", "audit"}
        PROVE  <<cur'[p], row'[cur'[p]].body>> \in received'
    <2>1. CASE pc[p] \in {"record", "audit"} /\ cur'[p] = cur[p]
      <3>1. cur[p] \in Msgs /\ row[cur[p]].status # "absent"
        BY <2>1 DEF IndType, Hands, InTry
      <3>2. <<cur[p], row[cur[p]].body>> \in received
        BY <2>1 DEF Contents
      <3>3. QED
        BY <1>2, <2>1, <3>1, <3>2, TableMonotone
    <2>2. CASE PublishOk(p)
      <3>1. UNCHANGED row /\ received' = received \cup {<<cur'[p], row[cur'[p]].body>>}
        BY <2>2 DEF PublishOk, TakeUp, Processed
      <3>2. QED
        BY <3>1
    <2>3. PublishOk(p) \/ (pc[p] \in {"record", "audit"} /\ cur'[p] = cur[p])
      <3>1. ASSUME NEW q \in Procs, Work(q), ~ PublishOk(p)
            PROVE  pc[p] \in {"record", "audit"} /\ cur'[p] = cur[p]
        <4>1. CASE EnqueueNew(q) \/ EnqueueMatch(q) \/ EnqueueCollision(q)
          BY <4>1, <1>4 DEF EnqueueNew, EnqueueMatch, EnqueueCollision, Goto, IndType, TypeOK
        <4>2. CASE BeginDrain(q) \/ ListPage(q) \/ PageDone(q)
          BY <4>2, <1>4 DEF BeginDrain, ListPage, PageDone, Goto, IndType, TypeOK
        <4>3. CASE PublishLost(q) \/ PublishRefused(q)
          BY <4>3, <1>4 DEF PublishLost, PublishRefused, TakeUp, Goto, IndType, TypeOK
        <4>4. CASE RecordDelivered(q) \/ RecordThrows(q) \/ AuditThrows(q)
          BY <4>4, <1>4 DEF RecordDelivered, RecordThrows, AuditThrows, Goto, drain, IndType, TypeOK
        <4>5. CASE AuditDelivered(q) \/ RecordFailed(q)
          BY <4>5, <1>4 DEF AuditDelivered, RecordFailed, Goto, IndType, TypeOK
        <4>6. CASE PublishOk(q)
          BY <3>1, <4>6, <1>4 DEF PublishOk, TakeUp, Goto, IndType, TypeOK
        <4> QED
          BY <3>1, <4>1, <4>2, <4>3, <4>4, <4>5, <4>6 DEF Work
      <3>2. ASSUME NEW q \in Procs, Die(q) \/ \E b \in Batches \cup {<<>>} : Start(q, b)
            PROVE  pc[p] \in {"record", "audit"} /\ cur'[p] = cur[p]
        BY <3>2, <1>4 DEF Die, Start, Goto, IndType, TypeOK
      <3>3. Tick \/ UNCHANGED vars => pc[p] \in {"record", "audit"} /\ cur'[p] = cur[p]
        BY <1>4 DEF Tick, vars, drain
      <3>4. QED
        BY <3>1, <3>2, <3>3 DEF Next
    <2>4. QED
      BY <2>1, <2>2, <2>3
  <1>5. ASSUME NEW m \in Msgs, row'[m].status = "delivered"
        PROVE  <<m, row'[m].body>> \in received'
    <2>1. CASE row[m].status = "delivered"
      BY <1>2, <2>1, TableMonotone DEF Contents, DeliveredWasReceived
    <2>2. CASE row[m].status # "delivered"
      <3>1. CASE InsertStep
        BY <1>5, <2>2, <3>1 DEF InsertStep, NewRow, IndType, TypeOK
      <3>2. CASE RecordStep
        <4>1. PICK p \in Procs, outcome \in {"delivered", "failed"} :
                /\ pc[p] \in InTry
                /\ RecordAttempt(cur[p], outcome, now[p])
                /\ outcome = "delivered" => pc[p] = "record"
          BY <3>2 DEF RecordStep, InTry
        <4>2. cur[p] \in Msgs /\ row[cur[p]].status # "absent" /\ now[p] \in Nat
          BY <4>1 DEF IndType, TypeOK, Hands
        <4>3. row \in [Msgs -> Row]
          BY DEF IndType, TypeOK
        <4>4. m = cur[p] /\ outcome = "delivered" /\ row'[m].body = row[m].body
          BY <1>5, <2>2, <4>1, <4>2, <4>3, AttemptOnRow
        <4>5. QED
          BY <1>2, <4>1, <4>4 DEF Contents
      <3>3. CASE UNCHANGED row
        BY <1>5, <2>2, <3>3
      <3>4. QED
        BY <3>1, <3>2, <3>3, TableStep
    <2>3. QED
      BY <2>1, <2>2
  <1>6. QED
    BY <1>3, <1>4, <1>5 DEF Contents, DeliveredWasReceived

\* The relation of stored and received contents always holds.
LEMMA InductiveContents == Spec => []Contents
  BY InitContents, ContentsNext, InductiveType, PTL DEF Spec

\* A message recorded as delivered was received by the consumer with the
\* content of its row, whatever failed and whoever else was sending.
THEOREM DeliveredReceived == Spec => []DeliveredWasReceived
  <1>1. Contents => DeliveredWasReceived
    BY DEF Contents
  <1>2. QED
    BY <1>1, InductiveContents, PTL

\* The consumer never sees two contents under one message id.
THEOREM OneContent == Spec => []OneContentPerMessage
  <1>1. Contents => OneContentPerMessage
    BY DEF Contents, OneContentPerMessage
  <1>2. QED
    BY <1>1, InductiveContents, PTL

-----------------------------------------------------------------------------
(* The table and the consumer implement DeliveryContract.                  *)

\* An empty outbox maps to the initial state of the contract.
LEMMA InitContract == Init => Contract!Init
  BY DEF Init, Contract!Init, Outcome, NoRow

\* Every step of the outbox is a step of the contract or changes
\* nothing the contract can see.
LEMMA StepContract == IndType /\ Contents /\ [Next]_vars => [Contract!Next]_(Contract!vars)
  <1> SUFFICES ASSUME IndType, Contents, [Next]_vars
               PROVE  [Contract!Next]_(Contract!vars)
    OBVIOUS
  <1> DEFINE out == [m \in Msgs |-> Outcome(m)]
             con == [m \in Msgs |-> row[m].body]
  <1>1. CASE InsertStep
    <2>1. PICK m \in Msgs, b \in Bodies :
            row[m].status = "absent" /\ row' = [row EXCEPT ![m] = NewRow(b)]
      BY <1>1 DEF InsertStep
    <2>2. UNCHANGED received
      <3>1. UNCHANGED received \/ UNCHANGED row
        BY ReceivedStep DEF PublishOk, PublishLost, TakeUp
      <3>2. row' # row
        BY <2>1 DEF NewRow, IndType, TypeOK
      <3>3. QED
        BY <3>1, <3>2
    <2>3. out[m] = "absent" /\ out' = [out EXCEPT ![m] = "queued"]
      BY <2>1 DEF Outcome, NewRow, IndType, TypeOK
    <2>4. con' = [con EXCEPT ![m] = b]
      BY <2>1 DEF NewRow, IndType, TypeOK
    <2>5. Contract!Enqueue(m, b)
      BY <2>2, <2>3, <2>4 DEF Contract!Enqueue
    <2>6. QED
      BY <2>5 DEF Contract!Next
  <1>2. CASE RecordStep /\ row' # row
    <2>1. PICK p \in Procs, outcome \in {"delivered", "failed"} :
            /\ pc[p] \in InTry
            /\ RecordAttempt(cur[p], outcome, now[p])
            /\ outcome = "delivered" => pc[p] = "record"
      BY <1>2 DEF RecordStep, InTry
    <2>2. PICK m \in Msgs : m = cur[p] /\ row[m].status # "absent" /\ now[p] \in Nat
      BY <2>1 DEF IndType, TypeOK, Hands
    <2>3. row \in [Msgs -> Row]
      BY DEF IndType, TypeOK
    <2>4. /\ \A n \in Msgs \ {m} : row'[n] = row[n]
          /\ row[m].status = "delivered" => row'[m] = row[m]
          /\ row[m].status # "delivered" => row'[m].status = outcome
          /\ row'[m].body = row[m].body
      BY <2>1, <2>2, <2>3, AttemptOnRow
    <2>5. UNCHANGED con
      BY <2>4
    <2>6. \/ out' = out
          \/ /\ outcome = "delivered" /\ out[m] = "queued"
             /\ out' = [out EXCEPT ![m] = "delivered"]
      <3>1. \A n \in Msgs \ {m} : out'[n] = out[n]
        BY <2>4 DEF Outcome
      <3>2. CASE row'[m] = row[m]
        <4>1. out'[m] = out[m]
          BY <3>2 DEF Outcome
        <4>2. QED
          BY <3>1, <4>1
      <3>3. CASE row[m].status # "delivered" /\ row'[m].status = "failed"
        <4>1. out[m] = "queued" /\ out'[m] = "queued"
          BY <2>2, <3>3 DEF Outcome
        <4>2. QED
          BY <3>1, <4>1
      <3>4. CASE row[m].status # "delivered" /\ row'[m].status = "delivered"
                 /\ outcome = "delivered"
        <4>1. out[m] = "queued" /\ out'[m] = "delivered"
          BY <2>2, <3>4 DEF Outcome
        <4>2. QED
          BY <2>2, <3>1, <3>4, <4>1
      <3>5. \/ row'[m] = row[m]
            \/ row[m].status # "delivered" /\ row'[m].status = "failed"
            \/ /\ row[m].status # "delivered" /\ row'[m].status = "delivered"
               /\ outcome = "delivered"
        BY <2>4
      <3>6. QED
        BY <3>2, <3>3, <3>4, <3>5
    <2>7. UNCHANGED received
      BY <1>2, ReceivedStep DEF PublishOk, PublishLost, TakeUp
    <2>8. CASE out' = out
      BY <2>5, <2>7, <2>8 DEF Contract!vars
    <2>9. CASE outcome = "delivered" /\ out[m] = "queued" /\ out' = [out EXCEPT ![m] = "delivered"]
      <3>1. <<m, con[m]>> \in received
        BY <2>1, <2>2, <2>9 DEF Contents
      <3>2. Contract!Settle(m)
        BY <2>5, <2>7, <2>9, <3>1 DEF Contract!Settle
      <3>3. QED
        BY <2>2, <3>2 DEF Contract!Next
    <2>10. QED
      BY <2>6, <2>8, <2>9
  <1>3. CASE UNCHANGED row
    <2>1. UNCHANGED <<out, con>>
      BY <1>3 DEF Outcome
    <2>2. CASE UNCHANGED received
      BY <2>1, <2>2 DEF Contract!vars
    <2>3. ASSUME NEW m \in Msgs, row[m].status # "absent",
                 received' = received \cup {<<m, row[m].body>>}
          PROVE  Contract!Next
      <3>1. out[m] # "absent" /\ con[m] = row[m].body
        BY <2>3 DEF Outcome
      <3>2. Contract!Receive(m)
        BY <2>1, <2>3, <3>1 DEF Contract!Receive
      <3>3. QED
        BY <3>2 DEF Contract!Next
    <2>4. QED
      BY <2>2, <2>3, ReceivedStep
  <1>4. QED
    BY <1>1, <1>2, <1>3, TableStep

\* Any number of racing, failing executions implement the contract: content
\* is fixed at the first enqueue, only stored content is sent, and only what
\* was received is settled, for good.
THEOREM ImplementsContract == Spec => ContractSpec
  <1>1. Contract!Spec <=> Contract!Init /\ [][Contract!Next]_(Contract!vars)
    BY DEF Contract!Spec
  <1>2. QED
    BY <1>1, InitContract, StepContract, InductiveType, InductiveContents, PTL
       DEF Spec, ContractSpec

-----------------------------------------------------------------------------
(* Within one drain nothing is posted twice.                               *)

\* What the drain has posted and settled is delivered, unless the drain is
\* about to stop, and it is never on the current page.
Drains ==
  \A p \in Procs :
    /\ cur[p] \notin page[p]
    /\ pc[p] = "audit" => row[cur[p]].status = "delivered"
    /\ page[p] \cap sent[p] = {}
    /\ pc[p] = "list" \/ (pc[p] \in InTry \cup {"publish"} /\ ~ last[p])
         => \A m \in sent[p] : m = cur[p] \/ row[m].status = "delivered"

\* No drain has posted anything before it began.
LEMMA InitDrains == Init => Drains
  BY DeliveryAssumption DEF Init, Drains, InTry

\* A delivered row stays delivered over any table operation.
LEMMA DeliveredStays ==
  ASSUME IndType, [Next]_vars, NEW m \in Msgs, row[m].status = "delivered"
  PROVE  row'[m].status = "delivered"
  BY TableMonotone

\* What a drain posted is delivered or in hand, or the drain is ending.
LEMMA WorkDrains ==
  ASSUME IndType, Drains, NEW p \in Procs, Work(p)
  PROVE  Drains'
  <1> USE DEF Goto, InTry, drain, store
  <1>0. [Next]_vars
    BY DEF Next
  <1>a. \A m \in Msgs : row[m].status = "delivered" => row'[m].status = "delivered"
    BY <1>0, DeliveredStays
  <1>t. /\ pc \in [Procs -> Control] /\ page \in [Procs -> SUBSET Msgs]
        /\ cur \in [Procs -> Msgs \cup {NoMsg}] /\ sent \in [Procs -> SUBSET Msgs]
        /\ last \in [Procs -> BOOLEAN] /\ row \in [Msgs -> Row]
        /\ now \in [Procs -> Nat] /\ NoMsg \notin Msgs
    BY DeliveryAssumption DEF IndType, TypeOK
  <1>h. Hands
    BY DEF IndType
  <1>1. CASE EnqueueNew(p)
    BY <1>1, <1>a, <1>t, <1>h DEF EnqueueNew, Drains, Hands
  <1>2. CASE EnqueueMatch(p)
    BY <1>2, <1>t, <1>h DEF EnqueueMatch, Drains, Hands
  <1>3. CASE EnqueueCollision(p)
    BY <1>3, <1>t, <1>h DEF EnqueueCollision, Drains, Hands
  <1>4. CASE BeginDrain(p)
    BY <1>4, <1>t, <1>h DEF BeginDrain, Drains, Hands
  <1>5. CASE ListPage(p)
    <2>1. FirstPage(Due(now[p])) \subseteq {m \in Msgs : row[m].status # "delivered"}
      BY DEF FirstPage, Due
    <2>2. cur[p] = NoMsg /\ pc[p] = "list"
      BY <1>5, <1>h DEF ListPage, Hands
    <2>3. \A m \in sent[p] : row[m].status = "delivered"
      BY <1>t, <2>2 DEF Drains
    <2>4. QED
      BY <1>5, <1>t, <2>1, <2>2, <2>3 DEF ListPage, Forget, Drains
  <1>6. ASSUME TakeUp(p), pc[p] = "publish",
               \E to \in {"record", "catch"} : pc' = [pc EXCEPT ![p] = to]
        PROVE  Drains'
    BY <1>6, <1>t, <1>h DEF TakeUp, Oldest, Drains, Hands
  <1>7. CASE PublishOk(p) \/ PublishLost(p) \/ PublishRefused(p)
    BY <1>6, <1>7 DEF PublishOk, PublishLost, PublishRefused
  <1>8. CASE RecordDelivered(p)
    <2>1. cur[p] \in Msgs /\ row[cur[p]].status # "absent" /\ now[p] \in Nat
      BY <1>8, <1>h, <1>t DEF RecordDelivered, Hands
    <2>2. row'[cur[p]].status = "delivered"
      BY <1>8, <1>t, <2>1, AttemptOnRow DEF RecordDelivered
    <2>3. QED
      BY <1>8, <1>a, <1>t, <1>h, <2>1, <2>2 DEF RecordDelivered, Drains, Hands
  <1>9. CASE RecordThrows(p)
    BY <1>9, <1>a, <1>t, <1>h DEF RecordThrows, Drains, Hands
  <1>10. CASE AuditDelivered(p)
    BY <1>10, <1>t, <1>h DEF AuditDelivered, Drains, Hands
  <1>11. CASE AuditThrows(p)
    BY <1>11, <1>t, <1>h DEF AuditThrows, Drains, Hands
  <1>12. CASE RecordFailed(p)
    BY <1>12, <1>a, <1>t, <1>h DEF RecordFailed, Drains, Hands
  <1>13. CASE PageDone(p)
    BY <1>13, <1>t, <1>h DEF PageDone, Forget, Drains, Hands
  <1>14. QED
    BY <1>1, <1>2, <1>3, <1>4, <1>5, <1>7, <1>8, <1>9, <1>10, <1>11, <1>12, <1>13
       DEF Work

\* The relation of a drain to what it posted is inductive.
LEMMA NextDrains == IndType /\ Drains /\ [Next]_vars => Drains'
  <1> SUFFICES ASSUME IndType, Drains, [Next]_vars
               PROVE  Drains'
    OBVIOUS
  <1>1. ASSUME NEW p \in Procs, NEW b \in Batches \cup {<<>>}, Start(p, b)
        PROVE  Drains'
    BY <1>1 DEF Start, Goto, store, Drains, InTry, IndType, TypeOK, Hands
  <1>2. ASSUME NEW p \in Procs, Die(p)
        PROVE  Drains'
    BY <1>2 DEF Die, Forget, store, Drains, InTry, IndType, TypeOK
  <1>3. CASE Tick \/ UNCHANGED vars
    BY <1>3 DEF Tick, vars, store, drain, Drains
  <1>4. QED
    BY <1>1, <1>2, <1>3, WorkDrains DEF Next

\* The relation of a drain to what it posted always holds.
LEMMA InductiveDrains == Spec => []Drains
  BY InitDrains, NextDrains, InductiveType, PTL DEF Spec

\* However often a drain lists the queue, and whatever the other executions
\* do meanwhile, no page offers a message this drain has already posted.
THEOREM PostedOncePerDrain == Spec => []OncePerDrain
  <1>1. Drains => OncePerDrain
    BY DEF Drains, OncePerDrain
  <1>2. QED
    BY <1>1, InductiveDrains, PTL

-----------------------------------------------------------------------------
(* The bound on attempts.                                                  *)

Limit == MaxAttempts + Cardinality(Procs) - 1

\* While a message is undelivered, every execution that holds it may still
\* add one attempt, and together they stay within the limit.
Budget ==
  \A m \in Msgs :
    /\ row[m].attempts <= Limit
    /\ row[m].status = "absent" => row[m].attempts = 0
    /\ row[m].status # "delivered" => row[m].attempts + Cardinality(Holders(m)) <= Limit

\* The executions that hold a message are a finite number of them,
\* at most all of them.
LEMMA HoldersSize ==
  /\ Cardinality(Procs) \in Nat /\ Limit \in Int
  /\ \A m : IsFiniteSet(Holders(m)) /\ Cardinality(Holders(m)) \in Nat
            /\ Cardinality(Holders(m)) <= Cardinality(Procs)
  BY DeliveryAssumption, FS_Subset, FS_CardinalityType DEF Holders, Limit

\* No attempts are counted before anything is posted.
LEMMA InitBudget == Init => Budget
  <1> SUFFICES ASSUME Init
               PROVE  Budget
    OBVIOUS
  <1>1. \A m \in Msgs : Cardinality(Holders(m)) = 0
    BY FS_EmptySet DEF Init, Holders
  <1>2. 0 <= Limit
    BY DeliveryAssumption, HoldersSize DEF Limit
  <1>3. \A m \in Msgs : row[m].status = "absent" /\ row[m].attempts = 0
    BY DEF Init, NoRow
  <1>4. QED
    BY <1>1, <1>2, <1>3 DEF Budget

\* Fewer holders of a row that did not change fit the budget as before.
LEMMA FewerHolders ==
  ASSUME IndType, Budget, NEW m \in Msgs, row'[m] = row[m],
         Holders(m)' \subseteq Holders(m) \/ row[m].status = "delivered"
  PROVE  /\ row'[m].attempts <= Limit
         /\ row'[m].status = "absent" => row'[m].attempts = 0
         /\ row'[m].status # "delivered" => row'[m].attempts + Cardinality(Holders(m)') <= Limit
  <1>1. CASE row[m].status = "delivered"
    BY <1>1 DEF Budget
  <1>2. CASE Holders(m)' \subseteq Holders(m)
    <2>1. /\ Cardinality(Holders(m)') <= Cardinality(Holders(m))
          /\ Cardinality(Holders(m)') \in Nat
      BY <1>2, HoldersSize, FS_Subset, FS_CardinalityType
    <2>2. row[m].attempts \in Nat
      BY DEF IndType, TypeOK, Row
    <2>3. QED
      BY <2>1, <2>2, HoldersSize DEF Budget
  <1>3. QED
    BY <1>1, <1>2

\* A step that leaves the table alone and hands nobody an undelivered row.
LEMMA QuietBudget ==
  ASSUME IndType, Budget, UNCHANGED row,
         \A m \in Msgs : Holders(m)' \subseteq Holders(m) \/ row[m].status = "delivered"
  PROVE  Budget'
  BY FewerHolders DEF Budget

\* An execution that records an attempt of the message it has in hand.
LEMMA RecordBudget ==
  ASSUME IndType, Drains, Budget, NEW p \in Procs, pc[p] \in {"record", "catch"},
         NEW outcome \in {"delivered", "failed"}, RecordAttempt(cur[p], outcome, now[p]),
         \A n \in Msgs : Holders(n)' \subseteq Holders(n),
         outcome = "failed" => \A n \in Msgs : n = cur[p] => p \notin Holders(n)'
  PROVE  Budget'
  <1>1. PICK m \in Msgs : m = cur[p] /\ row[m].status # "absent" /\ now[p] \in Nat
    BY DEF IndType, TypeOK, Hands, InTry
  <1>2. row \in [Msgs -> Row] /\ row[m].attempts \in Nat
    BY DEF IndType, TypeOK, Row
  <1>3. /\ row' \in [Msgs -> Row]
        /\ \A n \in Msgs \ {m} : row'[n] = row[n]
        /\ row[m].status = "delivered" => row'[m] = row[m]
        /\ row[m].status # "delivered" => /\ row'[m].status = outcome
                                          /\ row'[m].attempts = row[m].attempts + 1
    BY <1>1, <1>2, AttemptOnRow
  <1>4. ASSUME NEW n \in Msgs, row'[n] = row[n]
        PROVE  /\ row'[n].attempts <= Limit
               /\ row'[n].status = "absent" => row'[n].attempts = 0
               /\ row'[n].status # "delivered" => row'[n].attempts + Cardinality(Holders(n)') <= Limit
    BY <1>4, FewerHolders
  <1>5. ASSUME row[m].status # "delivered"
        PROVE  /\ row'[m].attempts <= Limit
               /\ row'[m].status # "absent"
               /\ row'[m].status # "delivered" => row'[m].attempts + Cardinality(Holders(m)') <= Limit
    <2>1. p \in Holders(m)
      BY <1>1 DEF Holders
    <2>2. Cardinality(Holders(m) \ {p}) = Cardinality(Holders(m)) - 1
      BY <2>1, HoldersSize, FS_RemoveElement
    <2>3. Cardinality(Holders(m) \ {p}) \in Nat
      BY HoldersSize, FS_RemoveElement, FS_CardinalityType
    <2>4. row'[m].attempts <= Limit
      BY <1>2, <1>3, <1>5, <2>2, <2>3, HoldersSize DEF Budget
    <2>5. CASE outcome = "delivered"
      BY <1>3, <1>5, <2>4, <2>5
    <2>6. CASE outcome = "failed" /\ p \notin Holders(m)'
      <3>1. Holders(m)' \subseteq Holders(m) \ {p}
        BY <2>6
      <3>2. /\ Cardinality(Holders(m)') <= Cardinality(Holders(m) \ {p})
            /\ Cardinality(Holders(m)') \in Nat
        BY <3>1, HoldersSize, FS_RemoveElement, FS_Subset, FS_CardinalityType
      <3>3. QED
        BY <1>2, <1>3, <1>5, <2>2, <2>3, <2>4, <2>6, <3>2, HoldersSize DEF Budget
    <2>7. QED
      BY <1>1, <2>5, <2>6
  <1>6. QED
    BY <1>3, <1>4, <1>5 DEF Budget

\* Listing a row needs attempts to spare, and recording an attempt lets
\* go of the row: the sum of attempts and holders stays bounded.
LEMMA WorkBudget ==
  ASSUME IndType, Drains, Budget, NEW p \in Procs, Work(p)
  PROVE  Budget'
  <1> USE DEF Goto, drain, store
  <1>t. /\ pc \in [Procs -> Control] /\ page \in [Procs -> SUBSET Msgs]
        /\ cur \in [Procs -> Msgs \cup {NoMsg}] /\ row \in [Msgs -> Row]
    BY DEF IndType, TypeOK
  <1>h. Hands
    BY DEF IndType
  <1>1. CASE EnqueueNew(p)
    <2>1. Head(todo[p]) \in Msgs \X Bodies
      BY <1>1, HeadTailProperties DEF EnqueueNew, IndType, TypeOK
    <2>2. PICK m \in Msgs, b \in Bodies :
            row[m].status = "absent" /\ row' = [row EXCEPT ![m] = NewRow(b)]
      BY <1>1, <2>1 DEF EnqueueNew
    <2>3. \A n \in Msgs : Holders(n)' = Holders(n)
      BY <1>1 DEF EnqueueNew, Holders
    <2>4. row'[m].attempts = 0 /\ row'[m].status = "pending"
      BY <1>t, <2>2 DEF NewRow
    <2>5. 0 + Cardinality(Holders(m)') <= Limit /\ 0 <= Limit
      BY <2>3, HoldersSize, DeliveryAssumption DEF Limit
    <2>6. \A n \in Msgs \ {m} : row'[n] = row[n]
      BY <1>t, <2>2
    <2>7. \A n \in Msgs \ {m} :
            /\ row'[n].attempts <= Limit
            /\ row'[n].status = "absent" => row'[n].attempts = 0
            /\ row'[n].status # "delivered" => row'[n].attempts + Cardinality(Holders(n)') <= Limit
      BY <2>3, <2>6, FewerHolders
    <2>8. QED
      BY <2>4, <2>5, <2>7 DEF Budget
  <1>2. CASE EnqueueMatch(p)
    BY <1>2, QuietBudget DEF EnqueueMatch, Holders
  <1>3. CASE EnqueueCollision(p)
    BY <1>3, <1>t, QuietBudget DEF EnqueueCollision, Holders
  <1>4. CASE BeginDrain(p)
    BY <1>4, <1>t, QuietBudget DEF BeginDrain, Holders
  <1>5. CASE ListPage(p)
    <2> DEFINE found == FirstPage(Due(now[p]))
    <2>1. UNCHANGED <<row, cur>> /\ page' = [page EXCEPT ![p] = found]
          /\ pc[p] = "list" /\ (\E to \in {"idle", "publish"} : pc' = [pc EXCEPT ![p] = to])
      BY <1>5 DEF ListPage
    <2>2. ASSUME NEW m \in Msgs, m \in found
          PROVE  row[m].attempts + Cardinality(Holders(m)') <= Limit
      <3>1. row[m].attempts < MaxAttempts /\ row[m].attempts \in Nat
        BY <1>t, <2>2 DEF FirstPage, Due, Row
      <3>2. Cardinality(Holders(m)') \in Nat /\ Cardinality(Holders(m)') <= Cardinality(Procs)
        BY DeliveryAssumption, FS_Subset, FS_CardinalityType DEF Holders
      <3>3. QED
        BY <3>1, <3>2, HoldersSize, DeliveryAssumption DEF Limit
    <2>3. ASSUME NEW m \in Msgs, m \notin found
          PROVE  Holders(m)' \subseteq Holders(m)
      BY <1>t, <2>1, <2>3 DEF Holders
    <2>4. ASSUME NEW m \in Msgs
          PROVE  /\ row'[m].attempts <= Limit
                 /\ row'[m].status = "absent" => row'[m].attempts = 0
                 /\ row'[m].status # "delivered" => row'[m].attempts + Cardinality(Holders(m)') <= Limit
      BY <2>1, <2>2, <2>3, FewerHolders DEF Budget
    <2>5. QED
      BY <2>4 DEF Budget
  <1>6. ASSUME TakeUp(p), pc[p] = "publish",
               \E to \in {"record", "catch"} : pc' = [pc EXCEPT ![p] = to]
        PROVE  Budget'
    <2>1. \A m \in Msgs : Holders(m)' \subseteq Holders(m)
      BY <1>6, <1>t DEF TakeUp, Holders
    <2>2. QED
      BY <1>6, <2>1, QuietBudget DEF TakeUp
  <1>7. CASE PublishOk(p) \/ PublishLost(p) \/ PublishRefused(p)
    BY <1>6, <1>7 DEF PublishOk, PublishLost, PublishRefused
  <1>8. CASE RecordDelivered(p)
    <2>1. \A m \in Msgs : Holders(m)' \subseteq Holders(m)
      BY <1>8, <1>t DEF RecordDelivered, Holders
    <2>2. QED
      BY <1>8, <2>1, RecordBudget DEF RecordDelivered
  <1>9. CASE RecordThrows(p)
    <2>1. \A m \in Msgs : Holders(m)' \subseteq Holders(m)
      BY <1>9, <1>t DEF RecordThrows, Holders
    <2>2. QED
      BY <1>9, <2>1, RecordBudget, QuietBudget DEF RecordThrows
  <1>10. CASE AuditDelivered(p)
    BY <1>10, <1>t, QuietBudget DEF AuditDelivered, Holders
  <1>11. CASE AuditThrows(p)
    <2>1. \A m \in Msgs : Holders(m)' \subseteq Holders(m) \/ row[m].status = "delivered"
      BY <1>11, <1>t DEF AuditThrows, Holders, Drains
    <2>2. QED
      BY <1>11, <2>1, QuietBudget DEF AuditThrows
  <1>12. CASE RecordFailed(p)
    <2>1. \A m \in Msgs : Holders(m)' \subseteq Holders(m)
      BY <1>12, <1>t DEF RecordFailed, Holders
    <2>2. \A m \in Msgs : m = cur[p] => p \notin Holders(m)'
      BY <1>12, <1>t DEF RecordFailed, Holders, Drains
    <2>3. QED
      BY <1>12, <2>1, <2>2, RecordBudget DEF RecordFailed
  <1>13. CASE PageDone(p)
    BY <1>13, <1>t, QuietBudget DEF PageDone, Holders
  <1>14. QED
    BY <1>1, <1>2, <1>3, <1>4, <1>5, <1>7, <1>8, <1>9, <1>10, <1>11, <1>12, <1>13
       DEF Work

\* The bound on attempts and holders is inductive.
LEMMA NextBudget == IndType /\ Drains /\ Budget /\ [Next]_vars => Budget'
  <1> SUFFICES ASSUME IndType, Drains, Budget, [Next]_vars
               PROVE  Budget'
    OBVIOUS
  <1>1. ASSUME NEW p \in Procs, NEW b \in Batches \cup {<<>>}, Start(p, b)
        PROVE  Budget'
    BY <1>1, QuietBudget DEF Start, Goto, store, Holders, IndType, TypeOK
  <1>2. ASSUME NEW p \in Procs, Die(p)
        PROVE  Budget'
    <2>1. \A m \in Msgs : Holders(m)' \subseteq Holders(m)
      BY <1>2 DEF Die, Holders, IndType, TypeOK
    <2>2. QED
      BY <1>2, <2>1, QuietBudget DEF Die, store
  <1>3. CASE Tick \/ UNCHANGED vars
    BY <1>3, QuietBudget DEF Tick, vars, store, drain, Holders
  <1>4. QED
    BY <1>1, <1>2, <1>3, WorkBudget DEF Next

\* Racing executions exceed maxAttempts by at most one attempt each, for any
\* number of executions and whatever fails.
THEOREM AttemptsStayBounded == Spec => []AttemptsBounded
  <1>1. Budget => AttemptsBounded
    BY DEF Budget, AttemptsBounded, Limit
  <1>2. QED
    BY <1>1, InitBudget, NextBudget, InductiveType, InductiveDrains, PTL DEF Spec

-----------------------------------------------------------------------------
(* The upgrade of the database (SchemaMigration).                          *)

QueueRow ==
  [status : {"absent", "pending", "failed", "delivered"}, attempts : Nat, contract : {"none", "1.0.0"}]
Migration == [at : {"idle", "select", "apply"}, applied : SUBSET Versions, version : {0, 4}]
Executing ==
  [at : {"idle", "publish", "delivered", "failed"}, todo : SUBSET Reports, report : Reports \cup {"none"}]

Types ==
  /\ ledger \subseteq Versions
  /\ queue \in [Queues -> [Reports -> QueueRow]]
  /\ migrator \in [Migrators -> Migration]
  /\ execution \in [Old \cup New -> Executing]
  /\ recorded \in [Reports -> Nat] /\ settled \subseteq Reports /\ late \subseteq Reports /\ astray \subseteq Reports

\* No migration without those before it.
Closed(S) == \A v \in S : 1 .. v \subseteq S

\* What a migrator takes to be applied is.
InOrder ==
  /\ Closed(ledger)
  /\ \A m \in Migrators :
       /\ migrator[m].applied \subseteq ledger /\ Closed(migrator[m].applied)
       /\ migrator[m].version # 0 => ledger = Versions

\* A row that is not there is empty, and executions work on rows that are.
InQueue(q, r) == queue[q][r] # NoReport
Listed ==
  /\ \A q \in Queues, r \in Reports : InQueue(q, r) => queue[q][r].status # "absent"
  /\ \A e \in Old \cup New :
       /\ \A r \in execution[e].todo : InQueue(QueueOf(e), r)
       /\ execution[e].at \in {"delivered", "failed"} =>
            execution[e].report \in Reports /\ InQueue(QueueOf(e), execution[e].report)

\* Every recorded attempt is in the row that counts: that of the new queue, or
\* that of the old one until it is copied; but for those of the earlier release from
\* then on.
Tracks(r, entry) ==
  /\ entry.attempts <= recorded[r] /\ (entry.status = "delivered" => r \in settled)
  /\ r \notin astray => entry.attempts = recorded[r] /\ (r \in settled => entry.status = "delivered")
Recorded ==
  \A r \in Reports :
    /\ Known(r)
    /\ InQueue("consumer", r) =>
         Tracks(r, queue["consumer"][r]) /\ (4 \in ledger => queue["consumer"][r].contract = "1.0.0")
    /\ ~ InQueue("consumer", r) =>
         Tracks(r, queue["cra"][r]) /\ (3 \in ledger /\ InQueue("cra", r) => r \in late)

UpgradeInv == Types /\ InOrder /\ Listed /\ Recorded

-----------------------------------------------------------------------------
(* Versions.                                                               *)

\* The least of the missing migrations comes next.
LEMMA NextVersion ==
  ASSUME NEW S \in SUBSET Versions, Closed(S), Versions \ S # {}
  PROVE  /\ Min(Versions \ S) \in Versions \ S
         /\ \A v \in Versions \ S : Min(Versions \ S) <= v
         /\ Closed(S \cup {Min(Versions \ S)})
<1> DEFINE missing == Versions \ S
<1>1. \E x \in missing : \A y \in missing : x =< y
  <2>1. CASE 1 \in missing  BY <2>1 DEF Versions
  <2>2. CASE 1 \notin missing /\ 2 \in missing  BY <2>2 DEF Versions
  <2>3. CASE 1 \notin missing /\ 2 \notin missing /\ 3 \in missing  BY <2>3 DEF Versions
  <2>4. CASE 1 \notin missing /\ 2 \notin missing /\ 3 \notin missing
    <3>1. missing = {4}  BY <2>4 DEF Versions
    <3> QED  BY <3>1
  <2> QED  BY <2>1, <2>2, <2>3, <2>4
<1>2. Min(missing) \in missing /\ \A y \in missing : Min(missing) =< y
  <2>1. Min(missing) = CHOOSE x \in missing : \A y \in missing : x =< y  BY DEF Min
  <2> HIDE DEF missing
  <2> QED  BY <1>1, <2>1
<1>3. PICK least \in Versions \ S : least = Min(missing) /\ \A y \in missing : least =< y
  BY <1>2
<1>4. Closed(S \cup {least})
  <2> SUFFICES ASSUME NEW v \in S \cup {least}, NEW x \in 1 .. v PROVE x \in S \cup {least}
    BY DEF Closed
  <2>1. CASE v \in S  BY <2>1 DEF Closed
  <2>2. CASE v = least /\ x # least
    <3>1. x \in Versions /\ ~ least =< x  BY <2>2 DEF Versions
    <3> QED  BY <1>3, <3>1
  <2> QED  BY <2>1, <2>2
<1> QED  BY <1>2, <1>3, <1>4

\* The greatest version is 4.
LEMMA LastVersion == Max(Versions) = 4
<1>1. \E x \in Versions : \A y \in Versions : x >= y
  <2>1. 4 \in Versions /\ \A y \in Versions : 4 >= y  BY DEF Versions
  <2> QED  BY <2>1
<1>2. PICK latest : latest = CHOOSE x \in Versions : \A y \in Versions : x >= y  OBVIOUS
<1>3. latest \in Versions /\ \A y \in Versions : latest >= y  BY <1>1, <1>2
<1>4. latest = 4  BY <1>3 DEF Versions
<1> QED  BY <1>2, <1>4 DEF Max

-----------------------------------------------------------------------------
(* Migrators.                                                              *)

\* A row that is not there is a row, and has no attempt.
LEMMA NoRowType == NoReport \in QueueRow /\ NoReport.status = "absent" /\ NoReport.attempts = 0
BY DEF NoReport, QueueRow

\* SchemaInit establishes the invariant: nothing is recorded, nobody at work.
LEMMA InitUpgrade == SchemaInit => UpgradeInv
<1> SUFFICES ASSUME SchemaInit PROVE UpgradeInv
  OBVIOUS
<1>1. Idle \in Migration /\ Idle.applied = {} /\ Idle.version = 0  BY DEF Idle, Migration
<1>2. Rest \in Executing /\ Rest.at = "idle" /\ Rest.todo = {}  BY DEF Rest, Executing
<1>3. Types  BY <1>1, <1>2, NoRowType DEF SchemaInit, Types
<1>4. InOrder  BY <1>1 DEF SchemaInit, InOrder, Closed
<1>5. \A q \in Queues, r \in Reports : queue[q][r] = NoReport  BY DEF SchemaInit
<1>6. Listed  BY <1>2, <1>5 DEF SchemaInit, Listed, InQueue
<1>7. Recorded
  <2>1. "consumer" \in Queues /\ "cra" \in Queues  BY DEF Queues
  <2>2. \A r \in Reports : recorded[r] = 0 /\ r \notin settled /\ r \notin astray  BY DEF SchemaInit
  <2> QED  BY <1>5, <2>1, <2>2, NoRowType DEF SchemaInit, Recorded, Known, InQueue, Tracks
<1> QED  BY <1>3, <1>4, <1>6, <1>7 DEF UpgradeInv

\* A migrator that takes for applied what is applied keeps the order.
LEMMA BecomesNext ==
  ASSUME Types, InOrder, NEW m \in Migrators, NEW state \in Migration, Becomes(m, state),
         ledger \subseteq ledger', ledger' \subseteq Versions, Closed(ledger'),
         state.applied \subseteq ledger', Closed(state.applied),
         state.version # 0 => ledger' = Versions
  PROVE  InOrder' /\ migrator' \in [Migrators -> Migration]
<1>1. /\ migrator' \in [Migrators -> Migration] /\ migrator'[m] = state
      /\ \A n \in Migrators \ {m} : migrator'[n] = migrator[n]
  BY DEF Types, Becomes
<1>2. ASSUME NEW n \in Migrators
      PROVE  /\ migrator'[n].applied \subseteq ledger' /\ Closed(migrator'[n].applied)
             /\ migrator'[n].version # 0 => ledger' = Versions
  <2>1. CASE n = m  BY <1>1, <2>1
  <2>2. CASE n # m
    <3>1. migrator'[n] = migrator[n]  BY <1>1, <2>2
    <3>2. migrator[n].version # 0 => ledger = Versions  BY DEF InOrder
    <3> QED  BY <3>1, <3>2 DEF InOrder
  <2> QED  BY <2>1, <2>2
<1> QED  BY <1>1, <1>2, Zenon DEF InOrder, Closed

\* The steps of a migrator that leave the database alone.
LEMMA WaitNext ==
  ASSUME UpgradeInv, NEW m \in Migrators, NEW state \in Migration, Becomes(m, state), Waiting,
         state.applied \subseteq ledger, Closed(state.applied), state.version # 0 => ledger = Versions
  PROVE  UpgradeInv'
<1>1. Types /\ InOrder /\ Listed /\ Recorded  BY DEF UpgradeInv
<1>2. UNCHANGED <<ledger, queue, recorded, settled, late, astray, execution>>
  BY DEF Waiting, database, history
<1>3. InOrder' /\ migrator' \in [Migrators -> Migration]
  <2>1. ledger \subseteq ledger' /\ ledger' \subseteq Versions /\ Closed(ledger')
    BY <1>1, <1>2 DEF Types, InOrder, Closed
  <2> QED  BY <1>1, <1>2, <2>1, BecomesNext
<1>4. Types'  BY <1>1, <1>2, <1>3 DEF Types
<1>5. Listed' /\ Recorded'  BY <1>1, <1>2 DEF Listed, Recorded, Known, InQueue, Tracks
<1> QED  BY <1>3, <1>4, <1>5 DEF UpgradeInv

\* Beginning, looking at the ledger, failing and finishing.
LEMMA MigratorNext ==
  ASSUME UpgradeInv, NEW m \in Migrators, Begin(m) \/ SelectVersions(m) \/ Throw(m) \/ Finish(m)
  PROVE  UpgradeInv'
<1>1. Types /\ InOrder  BY DEF UpgradeInv
<1>2. PICK state0 \in Migration : state0 = migrator[m]  BY <1>1 DEF Types
<1>3. CASE Begin(m)
  <2>1. PICK state : state = [at |-> IF ledger = {} THEN "apply" ELSE "select", applied |-> {}, version |-> 0]
    OBVIOUS
  <2>2. state \in Migration /\ state.applied = {} /\ state.version = 0  BY <2>1 DEF Migration
  <2>3. Becomes(m, state) /\ Waiting  BY <1>3, <2>1 DEF Begin
  <2> QED  BY <2>2, <2>3, WaitNext DEF UpgradeInv, Closed
<1>4. CASE SelectVersions(m)
  <2>1. PICK state : state = [state0 EXCEPT !.at = "apply", !.applied = ledger]  OBVIOUS
  <2>2. state \in Migration /\ state.applied = ledger /\ state.version = state0.version
    BY <1>1, <2>1 DEF Migration, Types
  <2>3. Becomes(m, state) /\ Waiting  BY <1>2, <1>4, <2>1 DEF SelectVersions
  <2>4. Closed(ledger) /\ (state.version # 0 => ledger = Versions)  BY <1>1, <1>2, <2>2 DEF InOrder
  <2> QED  BY <2>2, <2>3, <2>4, WaitNext
<1>5. CASE Throw(m)
  <2>1. Idle \in Migration /\ Idle.applied = {} /\ Idle.version = 0  BY DEF Idle, Migration
  <2>2. Becomes(m, Idle) /\ Waiting  BY <1>5 DEF Throw
  <2> QED  BY <2>1, <2>2, WaitNext DEF Closed
<1>6. CASE Finish(m)
  <2>1. state0.applied = Versions /\ ledger = Versions
    BY <1>1, <1>2, <1>6 DEF Finish, Missing, Migration, InOrder, Types
  <2>2. PICK state : state = [Idle EXCEPT !.version = 4]  OBVIOUS
  <2>3. state \in Migration /\ state.applied = {}  BY <2>2 DEF Idle, Migration
  <2>4. Becomes(m, state) /\ Waiting  BY <1>2, <1>6, <2>1, <2>2, LastVersion DEF Finish
  <2> QED  BY <2>1, <2>3, <2>4, WaitNext DEF Closed
<1> QED  BY <1>3, <1>4, <1>5, <1>6

\* A migration is applied: its rows are copied, or get their contract.
LEMMA ApplyNext == ASSUME UpgradeInv, NEW m \in Migrators, Apply(m) PROVE UpgradeInv'
<1>1. Types /\ InOrder /\ Listed /\ Recorded  BY DEF UpgradeInv
<1>2. PICK state0 \in Migration : state0 = migrator[m]  BY <1>1 DEF Types
<1>3. state0.applied \in SUBSET Versions /\ Closed(state0.applied) /\ state0.applied \subseteq ledger
  BY <1>1, <1>2 DEF InOrder, Migration
<1>4. PICK v : v = Min(Versions \ state0.applied)  OBVIOUS
<1>5. v \in Versions /\ Closed(state0.applied \cup {v}) /\ 1 .. v \subseteq state0.applied \cup {v}
  <2>1. Versions \ state0.applied # {}  BY <1>2 DEF Apply, Missing
  <2>2. v \in Versions /\ Closed(state0.applied \cup {v})  BY <1>3, <1>4, <2>1, NextVersion
  <2> QED  BY <2>2 DEF Closed
<1>6. /\ Applicable(v) /\ ledger' = ledger \cup {v}
      /\ queue' = [queue EXCEPT !["consumer"] = CASE v = 3 -> CopyQueue [] v = 4 -> AddContract [] OTHER -> @]
      /\ \/ Becomes(m, [state0 EXCEPT !.applied = @ \cup {v}])
         \/ Becomes(m, Idle)
      /\ UNCHANGED <<execution, recorded, settled, late, astray>>
  BY <1>2, <1>4, Zenon DEF Apply, Missing, history
<1>7. ledger' \subseteq Versions /\ Closed(ledger')
  BY <1>1, <1>3, <1>5, <1>6 DEF Types, InOrder, Closed
<1>8. InOrder' /\ migrator' \in [Migrators -> Migration]
  <2>1. CASE Becomes(m, Idle)
    <3>1. Idle \in Migration /\ Idle.applied = {} /\ Idle.version = 0  BY DEF Idle, Migration
    <3> QED  BY <1>1, <1>6, <1>7, <2>1, <3>1, BecomesNext DEF Closed
  <2>2. CASE Becomes(m, [state0 EXCEPT !.applied = @ \cup {v}])
    <3>1. PICK state : state = [state0 EXCEPT !.applied = @ \cup {v}]  OBVIOUS
    <3>2. state \in Migration /\ state.applied = state0.applied \cup {v} /\ state.version = state0.version
      BY <1>5, <3>1 DEF Migration
    <3>3. state.version # 0 => ledger' = Versions
      BY <1>1, <1>2, <1>5, <1>6, <3>2 DEF InOrder
    <3>4. state.applied \subseteq ledger' /\ Closed(state.applied)  BY <1>3, <1>5, <1>6, <3>2
    <3> QED  BY <1>1, <1>6, <1>7, <2>2, <3>1, <3>2, <3>3, <3>4, BecomesNext
  <2> QED  BY <1>6, <2>1, <2>2
<1>9. \A r \in Reports : queue["consumer"][r] \in QueueRow /\ queue["cra"][r] \in QueueRow
  BY <1>1 DEF Types, Queues
\* Whatever was done to the rows of the new queue.
<1>10. ASSUME NEW rows \in [Reports -> QueueRow], queue' = [queue EXCEPT !["consumer"] = rows],
              \A r \in Reports : rows[r] # NoReport => rows[r].status # "absent",
              \A r \in Reports : InQueue("consumer", r) => rows[r] # NoReport,
              \A r \in Reports : rows[r] # NoReport =>
                Tracks(r, rows[r]) /\ (4 \in ledger' => rows[r].contract = "1.0.0"),
              v = 3 => \A r \in Reports : rows[r] = NoReport => ~ InQueue("cra", r),
              \A r \in Reports : InQueue("consumer", r) =>
                /\ rows[r].attempts = queue["consumer"][r].attempts
                /\ rows[r].status = queue["consumer"][r].status
       PROVE  UpgradeInv'
  <2>1. queue' \in [Queues -> [Reports -> QueueRow]] /\ queue'["consumer"] = rows /\ queue'["cra"] = queue["cra"]
    BY <1>1, <1>10 DEF Types, Queues
  <2>2. Types'  BY <1>1, <1>6, <1>7, <1>8, <2>1 DEF Types
  <2>3. \A q \in Queues, r \in Reports : InQueue(q, r) => InQueue(q, r)'
    BY <1>10, <2>1 DEF InQueue, Queues
  <2>4. Listed'
    <3>1. \A q \in Queues, r \in Reports : InQueue(q, r)' => queue'[q][r].status # "absent"
      BY <1>1, <1>10, <2>1 DEF Listed, InQueue, Queues
    <3>2. \A e \in Old \cup New : QueueOf(e) \in Queues /\ execution[e].todo \subseteq Reports
      BY <1>1 DEF QueueOf, Queues, Types, Executing
    <3>3. ASSUME NEW e \in Old \cup New
          PROVE  /\ \A r \in execution[e].todo : InQueue(QueueOf(e), r)'
                 /\ execution[e].at \in {"delivered", "failed"} =>
                      execution[e].report \in Reports /\ InQueue(QueueOf(e), execution[e].report)'
      BY <1>1, <1>6, <2>3, <3>2 DEF Listed
    <3> QED  BY <1>6, <3>1, <3>3 DEF Listed, QueueOf
  <2>5. Recorded'
    <3> SUFFICES ASSUME NEW r \in Reports
                 PROVE  /\ InQueue("consumer", r)' =>
                             Tracks(r, rows[r]) /\ (4 \in ledger' => rows[r].contract = "1.0.0")
                        /\ ~ InQueue("consumer", r)' =>
                             Tracks(r, queue["cra"][r]) /\ (3 \in ledger' /\ InQueue("cra", r) => r \in late)
                        /\ Known(r)'
      BY <1>6, <2>1 DEF Recorded, InQueue, Tracks
    <3>1. InQueue("consumer", r)' <=> rows[r] # NoReport  BY <2>1 DEF InQueue
    <3>2. InQueue("consumer", r)' => Tracks(r, rows[r]) /\ (4 \in ledger' => rows[r].contract = "1.0.0")
      BY <1>10, <3>1
    <3>3. ~ InQueue("consumer", r)' => ~ InQueue("consumer", r)  BY <1>10, <3>1
    <3>4. v # 3 => (3 \in ledger' <=> 3 \in ledger)  BY <1>6
    <3>5. ~ InQueue("consumer", r) =>
            Tracks(r, queue["cra"][r]) /\ (3 \in ledger /\ InQueue("cra", r) => r \in late)
      BY <1>1 DEF Recorded
    <3>6. Known(r)'
      <4>1. Known(r) /\ rows[r].attempts \in Nat /\ queue["cra"][r].attempts \in Nat /\ recorded[r] \in Nat
        BY <1>1, <1>9, <1>10 DEF Recorded, QueueRow, Types
      <4>2. /\ rows[r].attempts >= queue["consumer"][r].attempts
            /\ queue["consumer"][r].status = "delivered" => rows[r].status = "delivered"
        <5>1. CASE InQueue("consumer", r)  BY <1>10, <4>1, <5>1
        <5>2. CASE ~ InQueue("consumer", r)  BY <4>1, <5>2, NoRowType DEF InQueue
        <5> QED  BY <5>1, <5>2
      <4>3. queue["consumer"][r].attempts \in Nat  BY <1>9 DEF QueueRow
      <4>4. recorded[r] <= queue["cra"][r].attempts + rows[r].attempts  BY <4>1, <4>2, <4>3 DEF Known
      <4>5. r \in settled => queue["cra"][r].status = "delivered" \/ rows[r].status = "delivered"
        BY <4>1, <4>2 DEF Known, Queues
      <4> QED  BY <1>6, <2>1, <4>4, <4>5 DEF Known, Queues
    <3> QED  BY <1>10, <3>1, <3>2, <3>3, <3>4, <3>5, <3>6
  <2> QED  BY <1>8, <2>2, <2>4, <2>5 DEF UpgradeInv
<1>11. CASE v = 3
  <2>1. queue' = [queue EXCEPT !["consumer"] = CopyQueue]  BY <1>6, <1>11
  <2>2. CopyQueue \in [Reports -> QueueRow]
        /\ \A r \in Reports : CopyQueue[r] = IF InQueue("consumer", r) THEN queue["consumer"][r] ELSE queue["cra"][r]
    BY <1>9 DEF CopyQueue, InQueue
  <2>3. PICK rows \in [Reports -> QueueRow] : rows = CopyQueue  BY <2>2
  <2>4. 4 \in ledger' => \A r \in Reports : ~ InQueue("cra", r)  BY <1>6, <1>11 DEF Applicable, InQueue
  <2>5. \A r \in Reports : rows[r] # NoReport => rows[r].status # "absent"
    BY <1>1, <2>2, <2>3 DEF Listed, InQueue, Queues
  <2>6. \A r \in Reports : InQueue("consumer", r) => rows[r] # NoReport  BY <2>2, <2>3 DEF InQueue
  <2>7. ASSUME NEW r \in Reports, rows[r] # NoReport
        PROVE  Tracks(r, rows[r]) /\ (4 \in ledger' => rows[r].contract = "1.0.0")
    <3>1. CASE InQueue("consumer", r)
      BY <1>1, <1>6, <1>11, <2>2, <2>3, <3>1 DEF Recorded
    <3>2. CASE ~ InQueue("consumer", r)
      <4>1. rows[r] = queue["cra"][r] /\ InQueue("cra", r)  BY <2>2, <2>3, <2>7, <3>2 DEF InQueue
      <4>2. Tracks(r, queue["cra"][r])  BY <1>1, <3>2 DEF Recorded
      <4> QED  BY <2>4, <4>1, <4>2
    <3> QED  BY <3>1, <3>2
  <2>8. \A r \in Reports : rows[r] = NoReport => ~ InQueue("cra", r)  BY <2>2, <2>3 DEF InQueue
  <2>9. \A r \in Reports : InQueue("consumer", r) => rows[r] = queue["consumer"][r]  BY <2>2, <2>3
  <2> QED  BY <1>10, <2>1, <2>3, <2>5, <2>6, <2>7, <2>8, <2>9
<1>12. CASE v = 4
  <2>1. queue' = [queue EXCEPT !["consumer"] = AddContract]  BY <1>6, <1>12
  <2>2. \A r \in Reports : InQueue("consumer", r) =>
          /\ [queue["consumer"][r] EXCEPT !.contract = "1.0.0"] \in QueueRow
          /\ [queue["consumer"][r] EXCEPT !.contract = "1.0.0"].status = queue["consumer"][r].status
          /\ [queue["consumer"][r] EXCEPT !.contract = "1.0.0"].attempts = queue["consumer"][r].attempts
          /\ [queue["consumer"][r] EXCEPT !.contract = "1.0.0"].contract = "1.0.0"
    BY <1>9 DEF QueueRow
  <2>3. AddContract \in [Reports -> QueueRow]
        /\ \A r \in Reports : AddContract[r] = IF InQueue("consumer", r)
                                               THEN [queue["consumer"][r] EXCEPT !.contract = "1.0.0"] ELSE NoReport
    BY <2>2, NoRowType DEF AddContract, InQueue
  <2>4. PICK rows \in [Reports -> QueueRow] : rows = AddContract  BY <2>3
  <2>5. \A r \in Reports : InQueue("consumer", r) =>
          /\ rows[r].status = queue["consumer"][r].status /\ rows[r].status # "absent"
          /\ rows[r].attempts = queue["consumer"][r].attempts /\ rows[r].contract = "1.0.0"
    BY <1>1, <2>2, <2>3, <2>4 DEF Listed, Queues
  <2>6. \A r \in Reports : rows[r] # NoReport <=> InQueue("consumer", r)
    BY <2>3, <2>4, <2>5, NoRowType
  <2>7. \A r \in Reports : InQueue("consumer", r) => Tracks(r, rows[r])
    BY <1>1, <2>5 DEF Recorded, Tracks
  <2>8. \A r \in Reports : rows[r] # NoReport => rows[r].status # "absent"  BY <2>5, <2>6
  <2>9. \A r \in Reports : rows[r] # NoReport =>
          Tracks(r, rows[r]) /\ (4 \in ledger' => rows[r].contract = "1.0.0")
    BY <2>5, <2>6, <2>7
  <2>10. queue' = [queue EXCEPT !["consumer"] = rows]  BY <2>1, <2>4
  <2>11. \A r \in Reports : InQueue("consumer", r) => rows[r] # NoReport  BY <2>6
  <2>12. v # 3  BY <1>12
  <2> QED  BY <1>10, <2>5, <2>8, <2>9, <2>10, <2>11, <2>12
<1>13. CASE v \notin {3, 4}
  <2>1. PICK rows : rows = queue["consumer"]  OBVIOUS
  <2>2. rows \in [Reports -> QueueRow] /\ queue' = [queue EXCEPT !["consumer"] = rows]
    BY <1>1, <1>6, <1>13, <2>1 DEF Types, Queues
  <2>3. \A r \in Reports : InQueue("consumer", r) <=> rows[r] # NoReport  BY <2>1 DEF InQueue
  <2>4. \A r \in Reports : rows[r] # NoReport => rows[r].status # "absent"
    BY <1>1, <2>1 DEF Listed, InQueue, Queues
  <2>5. \A r \in Reports : rows[r] # NoReport =>
          Tracks(r, rows[r]) /\ (4 \in ledger' => rows[r].contract = "1.0.0")
    BY <1>1, <1>6, <1>13, <2>1, <2>3 DEF Recorded
  <2> QED  BY <1>10, <1>13, <2>1, <2>2, <2>3, <2>4, <2>5
<1> QED  BY <1>11, <1>12, <1>13

-----------------------------------------------------------------------------
(* Executions.                                                             *)

\* An execution goes on with rows that are there, and no row goes away.
LEMMA GoNext ==
  ASSUME Types, Listed, NEW e \in Old \cup New, NEW state \in Executing, Go(e, state),
         \A q \in Queues, r \in Reports : InQueue(q, r) => InQueue(q, r)',
         \A q \in Queues, r \in Reports : InQueue(q, r)' => queue'[q][r].status # "absent",
         \A r \in state.todo : InQueue(QueueOf(e), r),
         state.at \in {"delivered", "failed"} => state.report \in Reports /\ InQueue(QueueOf(e), state.report)
  PROVE  Listed' /\ execution' \in [Old \cup New -> Executing]
<1>1. /\ execution' \in [Old \cup New -> Executing] /\ execution'[e] = state
      /\ \A f \in Old \cup New : f # e => execution'[f] = execution[f]
  BY DEF Types, Go
<1>2. ASSUME NEW f \in Old \cup New
      PROVE  /\ QueueOf(f) \in Queues /\ execution[f].todo \subseteq Reports
             /\ state.todo \subseteq Reports
  BY DEF QueueOf, Queues, Types, Executing
<1>3. ASSUME NEW f \in Old \cup New
      PROVE  /\ \A r \in execution'[f].todo : InQueue(QueueOf(f), r)'
             /\ execution'[f].at \in {"delivered", "failed"} =>
                  execution'[f].report \in Reports /\ InQueue(QueueOf(f), execution[f].report)'
  <2>1. PICK x : x = execution'[f]  OBVIOUS
  <2>2. /\ x.todo \subseteq Reports /\ \A r \in x.todo : InQueue(QueueOf(f), r)
        /\ x.at \in {"delivered", "failed"} => x.report \in Reports /\ InQueue(QueueOf(f), x.report)
    <3>1. CASE f = e  BY <1>1, <1>2, <2>1, <3>1
    <3>2. CASE f # e
      <4>1. x = execution[f]  BY <1>1, <2>1, <3>2
      <4> QED  BY <1>2, <4>1 DEF Listed
    <3> QED  BY <3>1, <3>2
  <2>3. \A r \in x.todo : InQueue(QueueOf(f), r)'  BY <1>2, <2>2
  <2>4. x.at \in {"delivered", "failed"} => x.report \in Reports /\ queue'[QueueOf(f)][x.report] # NoReport
    BY <1>2, <2>2 DEF InQueue
  <2> QED  BY <2>1, <2>3, <2>4 DEF InQueue, QueueOf
<1> QED  BY <1>1, <1>3, Zenon DEF Listed

\* Writing one row.
Put(q, r, entry) == queue' = [queue EXCEPT ![q][r] = entry]

LEMMA PutRow ==
  ASSUME Types, NEW q \in Queues, NEW r \in Reports, NEW entry \in QueueRow, Put(q, r, entry)
  PROVE  /\ queue' \in [Queues -> [Reports -> QueueRow]] /\ queue'[q][r] = entry
         /\ \A p \in Queues, x \in Reports : p # q \/ x # r => queue'[p][x] = queue[p][x]
<1>1. queue \in [Queues -> [Reports -> QueueRow]]  BY DEF Types
<1>2. PICK rows : rows = [queue[q] EXCEPT ![r] = entry]  OBVIOUS
<1>3. rows \in [Reports -> QueueRow] /\ rows[r] = entry /\ \A x \in Reports : x # r => rows[x] = queue[q][x]
  BY <1>1, <1>2
<1>4. queue' = [queue EXCEPT ![q] = rows]  BY <1>2 DEF Put
<1> QED  BY <1>1, <1>3, <1>4

\* Executions leave the migrations alone.
LEMMA OwnKeeps == ASSUME InOrder, Own PROVE InOrder' /\ ledger' = ledger /\ migrator' = migrator
BY DEF Own, InOrder, Closed

\* The old queue is the one of the earlier release.
LEMMA QueueOfRelease ==
  ASSUME NEW e \in Old \cup New
  PROVE  QueueOf(e) \in Queues /\ (QueueOf(e) = "cra" <=> e \in Old) /\ (QueueOf(e) = "consumer" <=> e \notin Old)
BY DEF QueueOf, Queues

\* A report that no queue holds is enqueued.
LEMMA EnqueueNext == ASSUME UpgradeInv, NEW e \in Old \cup New, Enqueue(e) PROVE UpgradeInv'
<1>1. Types /\ InOrder /\ Listed /\ Recorded  BY DEF UpgradeInv
<1>2. PICK q \in Queues : q = QueueOf(e)  BY QueueOfRelease
<1>3. PICK r \in Reports : /\ \A p \in Queues : queue[p][r] = NoReport
                           /\ Insert(q, r)
                           /\ late' = IF e \in Old /\ 3 \in ledger THEN late \cup {r} ELSE late
  BY <1>2 DEF Enqueue
<1>4. PICK entry : entry = [status |-> "pending", attempts |-> 0, contract |-> IF q = "consumer" THEN "1.0.0" ELSE "none"]
  OBVIOUS
<1>5. /\ entry \in QueueRow /\ entry.status = "pending" /\ entry.attempts = 0 /\ entry # NoReport
      /\ q = "consumer" => entry.contract = "1.0.0"
  BY <1>4 DEF QueueRow, NoReport
<1>6. Put(q, r, entry)  BY <1>3, <1>4 DEF Insert, Put
<1>7. /\ queue' \in [Queues -> [Reports -> QueueRow]] /\ queue'[q][r] = entry
      /\ \A p \in Queues, x \in Reports : p # q \/ x # r => queue'[p][x] = queue[p][x]
  <2>1. entry \in QueueRow  BY <1>5
  <2>2. Types  BY <1>1
  <2> QED  BY <1>6, <2>1, <2>2, PutRow
<1>8. UNCHANGED <<execution, recorded, settled, astray>> /\ Own  BY DEF Enqueue
<1>9. InOrder' /\ ledger' = ledger /\ migrator' = migrator  BY <1>1, <1>8, OwnKeeps
<1>10. late' \subseteq Reports /\ late \subseteq late'  BY <1>1, <1>3 DEF Types
<1>11. Types'  BY <1>1, <1>7, <1>8, <1>9, <1>10 DEF Types
<1>12. \A p \in Queues, x \in Reports : InQueue(p, x) => InQueue(p, x)'
  BY <1>3, <1>5, <1>7 DEF InQueue
<1>13. \A p \in Queues, x \in Reports : InQueue(p, x)' => queue'[p][x].status # "absent"
  BY <1>1, <1>5, <1>7 DEF Listed, InQueue
<1>14. Listed'
  <2>1. PICK state \in Executing : state = execution[e]  BY <1>1 DEF Types
  <2>2. Go(e, state)  BY <1>1, <1>8, <2>1 DEF Go, Types
  <2>3. \A x \in state.todo : InQueue(QueueOf(e), x)  BY <1>1, <2>1 DEF Listed
  <2>4. state.at \in {"delivered", "failed"} => state.report \in Reports /\ InQueue(QueueOf(e), state.report)
    BY <1>1, <2>1 DEF Listed
  <2> QED  BY <1>1, <1>12, <1>13, <2>2, <2>3, <2>4, GoNext
<1>15. Recorded'
  <2> SUFFICES ASSUME NEW x \in Reports
               PROVE  /\ queue'["consumer"][x] # NoReport =>
                           /\ Tracks(x, queue'["consumer"][x])
                           /\ 4 \in ledger => queue'["consumer"][x].contract = "1.0.0"
                      /\ queue'["consumer"][x] = NoReport =>
                           /\ Tracks(x, queue'["cra"][x])
                           /\ 3 \in ledger /\ queue'["cra"][x] # NoReport => x \in late'
                      /\ Known(x)'
    BY <1>8, <1>9 DEF Recorded, InQueue, Tracks
  <2>1. "consumer" \in Queues /\ "cra" \in Queues /\ (q = "consumer" \/ q = "cra")  BY <1>2 DEF Queues
  <2>2. CASE x # r
    <3>1. queue'["consumer"][x] = queue["consumer"][x] /\ queue'["cra"][x] = queue["cra"][x]
      BY <1>7, <2>1, <2>2
    <3>2. Known(x)'  BY <1>1, <1>8, <2>1, <3>1 DEF Recorded, Known, Queues
    <3> QED  BY <1>1, <1>10, <3>1, <3>2 DEF Recorded, InQueue
  <2>3. CASE x = r
    <3>1. recorded[r] = 0 /\ r \notin settled
      <4>1. Known(r) /\ recorded[r] \in Nat  BY <1>1 DEF Recorded, Types
      <4> QED  BY <1>3, <2>1, <4>1, NoRowType DEF Known
    <3>5. Known(r)'
      <4>1. queue'["cra"][r].attempts \in Nat /\ queue'["consumer"][r].attempts \in Nat
        BY <1>7, <2>1 DEF QueueRow
      <4> QED  BY <1>8, <3>1, <4>1 DEF Known
    <3>2. Tracks(r, entry)  BY <1>5, <3>1 DEF Tracks
    <3>3. CASE q = "consumer"  BY <1>5, <1>7, <2>3, <3>2, <3>3, <3>5
    <3>4. CASE q = "cra"
      <4>1. queue'["consumer"][r] = NoReport /\ queue'["cra"][r] = entry  BY <1>3, <1>7, <2>1, <3>4
      <4>2. 3 \in ledger => r \in late'  BY <1>2, <1>3, <3>4, QueueOfRelease
      <4> QED  BY <2>3, <3>2, <3>5, <4>1, <4>2
    <3> QED  BY <2>1, <3>3, <3>4
  <2> QED  BY <2>2, <2>3
<1> QED  BY <1>9, <1>11, <1>14, <1>15 DEF UpgradeInv

\* Listing, posting and ending change no row.
LEMMA HandNext ==
  ASSUME UpgradeInv, NEW e \in Old \cup New, NEW state \in Executing, Go(e, state),
         UNCHANGED <<queue, history>>, Own,
         \A r \in state.todo : InQueue(QueueOf(e), r),
         state.at \in {"delivered", "failed"} => state.report \in Reports /\ InQueue(QueueOf(e), state.report)
  PROVE  UpgradeInv'
<1>1. Types /\ InOrder /\ Listed /\ Recorded  BY DEF UpgradeInv
<1>2. UNCHANGED <<queue, recorded, settled, late, astray>>  BY DEF history
<1>3. InOrder' /\ ledger' = ledger /\ migrator' = migrator  BY <1>1, OwnKeeps
<1>4. Listed' /\ execution' \in [Old \cup New -> Executing]
  <2>1. \A p \in Queues, x \in Reports : InQueue(p, x) <=> InQueue(p, x)'  BY <1>2 DEF InQueue
  <2>2. \A p \in Queues, x \in Reports : InQueue(p, x)' => queue'[p][x].status # "absent"
    BY <1>1, <1>2, <2>1 DEF Listed
  <2> QED  BY <1>1, <2>1, <2>2, GoNext
<1>5. Types'  BY <1>1, <1>2, <1>3, <1>4 DEF Types
<1>6. Recorded'  BY <1>1, <1>2, <1>3 DEF Recorded, Known, InQueue, Tracks
<1> QED  BY <1>3, <1>4, <1>5, <1>6 DEF UpgradeInv

LEMMA ListingNext ==
  ASSUME UpgradeInv, NEW e \in Old \cup New, ListPending(e) \/ Publish(e) \/ End(e)
  PROVE  UpgradeInv'
<1>1. Types /\ Listed  BY DEF UpgradeInv
<1>2. QueueOf(e) \in Queues  BY QueueOfRelease
<1>3. CASE ListPending(e)
  <2>1. PICK state : state = [Rest EXCEPT !.at = "publish", !.todo = Pending(e)]  OBVIOUS
  <2>2. Pending(e) \subseteq Reports /\ \A r \in Pending(e) : InQueue(QueueOf(e), r)
    BY NoRowType DEF Pending, Rows, InQueue
  <2>3. state \in Executing /\ state.todo = Pending(e) /\ state.at = "publish"
    BY <2>1, <2>2 DEF Rest, Executing
  <2>4. Go(e, state) /\ UNCHANGED <<queue, history>> /\ Own  BY <1>3, <2>1 DEF ListPending
  <2> QED  BY <2>2, <2>3, <2>4, HandNext
<1>4. CASE Publish(e)
  <2>1. PICK hand \in Executing : hand = execution[e]  BY <1>1 DEF Types
  <2>2. PICK r \in hand.todo, outcome \in {"delivered", "failed"} :
          Go(e, [at |-> outcome, todo |-> hand.todo \ {r}, report |-> r])
    BY <1>4, <2>1 DEF Publish
  <2>3. PICK state : state = [at |-> outcome, todo |-> hand.todo \ {r}, report |-> r]  OBVIOUS
  <2>4. hand.todo \subseteq Reports  BY DEF Executing
  <2>5. state \in Executing /\ state.todo = hand.todo \ {r} /\ state.report = r
    BY <2>3, <2>4 DEF Executing
  <2>6. \A x \in hand.todo : InQueue(QueueOf(e), x)  BY <1>1, <2>1 DEF Listed
  <2>7. UNCHANGED <<queue, history>> /\ Own  BY <1>4 DEF Publish
  <2>8. Go(e, state)  BY <2>2, <2>3
  <2>9. \A x \in state.todo : InQueue(QueueOf(e), x)  BY <2>5, <2>6
  <2>10. state.report \in Reports /\ InQueue(QueueOf(e), state.report)  BY <2>4, <2>5, <2>6
  <2> QED  BY <2>5, <2>7, <2>8, <2>9, <2>10, HandNext
<1>5. CASE End(e)
  <2>1. Rest \in Executing /\ Rest.at = "idle" /\ Rest.todo = {}  BY DEF Rest, Executing
  <2>2. Go(e, Rest) /\ UNCHANGED <<queue, history>> /\ Own  BY <1>5 DEF End
  <2> QED  BY <2>1, <2>2, HandNext
<1> QED  BY <1>3, <1>4, <1>5

\* An attempt is recorded in the row the execution works on.
LEMMA RecordNext == ASSUME UpgradeInv, NEW e \in Old \cup New, Record(e) PROVE UpgradeInv'
<1>1. Types /\ InOrder /\ Listed /\ Recorded  BY DEF UpgradeInv
<1>2. PICK q \in Queues : q = QueueOf(e)  BY QueueOfRelease
<1>3. PICK hand \in Executing : hand = execution[e]  BY <1>1 DEF Types
<1>4. PICK r : r = hand.report  OBVIOUS
<1>5. PICK outcome : outcome = hand.at  OBVIOUS
<1>6. /\ outcome \in {"delivered", "failed"} /\ r \in Reports /\ InQueue(q, r)
      /\ \A x \in hand.todo : InQueue(q, x)
  BY <1>1, <1>2, <1>3, <1>4, <1>5 DEF Record, Listed
<1>7. PICK entry : entry = queue[q][r]  OBVIOUS
<1>8. entry \in QueueRow /\ entry # NoReport /\ entry.status # "absent"
  BY <1>1, <1>6, <1>7 DEF Types, Listed, InQueue
<1>9. PICK copied : copied = (e \in Old /\ queue["consumer"][r] # NoReport)  OBVIOUS
<1>10. PICK state : state = IF hand.todo = {} THEN Rest ELSE [Rest EXCEPT !.at = "publish", !.todo = hand.todo]
  OBVIOUS
<1>11. state \in Executing /\ state.todo = hand.todo /\ state.at \in {"idle", "publish"}
  BY <1>10 DEF Executing, Rest
<1>12. Go(e, state) /\ Own  BY <1>3, <1>10 DEF Record
<1>13. IF entry.status = "delivered" THEN UNCHANGED <<queue, history>>
       ELSE /\ queue' = [queue EXCEPT ![q][r].status = outcome, ![q][r].attempts = @ + 1]
            /\ recorded' = [recorded EXCEPT ![r] = @ + 1]
            /\ settled' = IF outcome = "delivered" THEN settled \cup {r} ELSE settled
            /\ astray' = IF copied THEN astray \cup {r} ELSE astray
            /\ late' = late
  BY <1>2, <1>3, <1>4, <1>5, <1>7, <1>9 DEF Record, Rows
<1>14. \A x \in state.todo : InQueue(QueueOf(e), x)  BY <1>2, <1>6, <1>11
\* What is delivered stays as it is.
<1>15. CASE entry.status = "delivered"
  BY <1>11, <1>12, <1>13, <1>14, <1>15, HandNext
\* The row that is worked on is the one that counts, unless it has been copied.
<1>16. CASE entry.status # "delivered"
  <2>1. InOrder' /\ ledger' = ledger /\ migrator' = migrator  BY <1>1, <1>12, OwnKeeps
  <2>2. PICK row2 : row2 = [entry EXCEPT !.status = outcome, !.attempts = @ + 1]  OBVIOUS
  <2>3. /\ row2 \in QueueRow /\ row2.status = outcome /\ row2.attempts = entry.attempts + 1
        /\ row2.contract = entry.contract /\ row2.status # "absent" /\ row2 # NoReport
    <3>1. entry \in QueueRow /\ outcome \in {"delivered", "failed"}  BY <1>6, <1>8
    <3>2. row2 = [status |-> outcome, attempts |-> entry.attempts + 1, contract |-> entry.contract]
      BY <2>2, <3>1 DEF QueueRow
    <3>4. entry.attempts \in Nat /\ entry.contract \in {"none", "1.0.0"}  BY <3>1 DEF QueueRow
    <3>5. row2 \in QueueRow /\ row2.status = outcome  BY <3>1, <3>2, <3>4 DEF QueueRow
    <3>6. row2.attempts = entry.attempts + 1 /\ row2.contract = entry.contract  BY <3>2
    <3>3. row2.status # "absent"  BY <3>1, <3>5
    <3> QED  BY <3>3, <3>5, <3>6, NoRowType
  <2>4. Put(q, r, row2)
    <3>1. queue' = [queue EXCEPT ![q][r].status = outcome, ![q][r].attempts = @ + 1]  BY <1>13, <1>16
    <3>2. queue \in [Queues -> [Reports -> QueueRow]] /\ r \in Reports  BY <1>1, <1>6 DEF Types
    <3>3. queue[q][r] = entry /\ entry \in QueueRow  BY <1>7, <1>8
    <3> QED  BY <2>2, <3>1, <3>2, <3>3 DEF QueueRow, Put
  <2>5. /\ queue' \in [Queues -> [Reports -> QueueRow]] /\ queue'[q][r] = row2
        /\ \A p \in Queues, x \in Reports : p # q \/ x # r => queue'[p][x] = queue[p][x]
    <3>1. Types /\ r \in Reports  BY <1>1, <1>6
    <3>2. row2 \in QueueRow  BY <2>3
    <3> QED  BY <2>4, <3>1, <3>2, PutRow
  <2>6. /\ recorded' \in [Reports -> Nat] /\ recorded'[r] = recorded[r] + 1
        /\ \A x \in Reports : x # r => recorded'[x] = recorded[x]
        /\ settled' \subseteq Reports /\ (r \in settled' <=> r \in settled \/ outcome = "delivered")
        /\ \A x \in Reports : x # r => (x \in settled' <=> x \in settled) /\ (x \in astray' <=> x \in astray)
        /\ astray' \subseteq Reports /\ (r \in astray' <=> r \in astray \/ copied)
    <3>1. recorded' = [recorded EXCEPT ![r] = @ + 1] /\ recorded \in [Reports -> Nat]
      BY <1>1, <1>13, <1>16 DEF Types
    <3>2. settled' = (IF outcome = "delivered" THEN settled \cup {r} ELSE settled) /\ settled \subseteq Reports
      BY <1>1, <1>13, <1>16 DEF Types
    <3>3. astray' = (IF copied THEN astray \cup {r} ELSE astray) /\ astray \subseteq Reports
      BY <1>1, <1>13, <1>16 DEF Types
    <3> QED  BY <1>6, <3>1, <3>2, <3>3
  <2>7. \A p \in Queues, x \in Reports : InQueue(p, x) <=> InQueue(p, x)'
    BY <1>6, <2>3, <2>5 DEF InQueue
  <2>8. \A p \in Queues, x \in Reports : InQueue(p, x)' => queue'[p][x].status # "absent"
    BY <1>1, <2>3, <2>5 DEF Listed, InQueue
  <2>9. Listed' /\ execution' \in [Old \cup New -> Executing]
    BY <1>1, <1>11, <1>12, <1>14, <2>7, <2>8, GoNext
  <2>10. late' = late  BY <1>13, <1>16
  <2>11. Types'  BY <1>1, <2>1, <2>5, <2>6, <2>9, <2>10 DEF Types
  <2>12. "consumer" \in Queues /\ "cra" \in Queues /\ (q = "consumer" \/ q = "cra")  BY DEF Queues
  <2>13. /\ queue["cra"][r].attempts \in Nat /\ queue["consumer"][r].attempts \in Nat /\ recorded[r] \in Nat
         /\ entry.attempts \in Nat
    BY <1>1, <1>6, <1>8, <2>12 DEF Types, QueueRow
  <2>14. Known(r)'
    <3>1. Known(r)  BY <1>1, <1>6 DEF Recorded
    <3>2. \A p \in Queues : p # q => queue'[p][r] = queue[p][r]  BY <1>6, <2>5
    <3>3. recorded'[r] <= queue'["cra"][r].attempts + queue'["consumer"][r].attempts
      <4>1. CASE q = "cra"  BY <1>7, <2>3, <2>5, <2>6, <2>12, <2>13, <3>1, <3>2, <4>1 DEF Known
      <4>2. CASE q = "consumer"  BY <1>7, <2>3, <2>5, <2>6, <2>12, <2>13, <3>1, <3>2, <4>2 DEF Known
      <4> QED  BY <2>12, <4>1, <4>2
    <3>4. r \in settled' => \E p \in Queues : queue'[p][r].status = "delivered"
      <4>1. CASE outcome = "delivered"  BY <2>3, <2>5, <4>1
      <4>2. CASE outcome # "delivered" /\ r \in settled
        <5>1. PICK p \in Queues : queue[p][r].status = "delivered"  BY <3>1, <4>2 DEF Known
        <5>2. p # q  BY <1>7, <1>16, <5>1
        <5> QED  BY <3>2, <5>1, <5>2
      <4> QED  BY <2>6, <4>1, <4>2
    <3> QED  BY <3>3, <3>4 DEF Known
  <2>15. Tracks(r, entry) => Tracks(r, row2)'
    BY <1>6, <1>16, <2>3, <2>6, <2>13 DEF Tracks
  <2>16. ASSUME NEW x \in Reports
         PROVE  /\ Known(x)'
                /\ InQueue("consumer", x)' =>
                     Tracks(x, queue["consumer"][x])' /\ (4 \in ledger' => queue'["consumer"][x].contract = "1.0.0")
                /\ ~ InQueue("consumer", x)' =>
                     Tracks(x, queue["cra"][x])' /\ (3 \in ledger' /\ InQueue("cra", x)' => x \in late')
    <3>1. /\ Known(x)
          /\ InQueue("consumer", x) =>
               Tracks(x, queue["consumer"][x]) /\ (4 \in ledger => queue["consumer"][x].contract = "1.0.0")
          /\ ~ InQueue("consumer", x) =>
               Tracks(x, queue["cra"][x]) /\ (3 \in ledger /\ InQueue("cra", x) => x \in late)
      BY <1>1 DEF Recorded
    <3>2. (InQueue("consumer", x)' <=> InQueue("consumer", x)) /\ (InQueue("cra", x)' <=> InQueue("cra", x))
      BY <2>7, <2>12
    <3>3. CASE x # r
      <4>1. queue'["consumer"][x] = queue["consumer"][x] /\ queue'["cra"][x] = queue["cra"][x]
        BY <2>5, <2>12, <3>3
      <4>2. recorded'[x] = recorded[x] /\ (x \in settled' <=> x \in settled) /\ (x \in astray' <=> x \in astray)
        BY <2>6, <3>3
      <4>3. Known(x)'  BY <3>1, <4>1, <4>2 DEF Known, Queues
      <4> QED  BY <2>1, <2>10, <3>1, <3>2, <4>1, <4>2, <4>3 DEF Tracks
    <3>4. CASE x = r /\ q = "consumer"
      <4>1. queue'["consumer"][r] = row2 /\ queue["consumer"][r] = entry /\ InQueue("consumer", r)
        BY <1>6, <1>7, <2>5, <3>4
      <4>2. Tracks(r, queue["consumer"][r])'  BY <2>15, <3>1, <3>4, <4>1 DEF Tracks
      <4> QED  BY <2>1, <2>3, <2>14, <3>1, <3>2, <3>4, <4>1, <4>2
    <3>5. CASE x = r /\ q = "cra" /\ ~ InQueue("consumer", r)
      <4>1. queue'["cra"][r] = row2 /\ queue["cra"][r] = entry  BY <1>7, <2>5, <3>5
      <4>2. Tracks(r, queue["cra"][r])'  BY <2>15, <3>1, <3>5, <4>1 DEF Tracks
      <4> QED  BY <2>1, <2>10, <2>14, <3>1, <3>2, <3>5, <4>2
    <3>6. CASE x = r /\ q = "cra" /\ InQueue("consumer", r)
      <4>1. queue'["consumer"][r] = queue["consumer"][r]  BY <1>6, <2>5, <2>12, <3>6
      <4>2. copied  BY <1>2, <1>9, <3>6, QueueOfRelease DEF InQueue
      <4>3. Tracks(r, queue["consumer"][r])'
        BY <1>6, <2>6, <2>13, <3>1, <3>6, <4>1, <4>2 DEF Tracks
      <4> QED  BY <2>1, <2>14, <3>1, <3>2, <3>6, <4>1, <4>3
    <3> QED  BY <2>12, <3>3, <3>4, <3>5, <3>6
  <2>17. Recorded'  BY <2>16 DEF Recorded
  <2> QED  BY <2>1, <2>9, <2>11, <2>17 DEF UpgradeInv
<1> QED  BY <1>15, <1>16

-----------------------------------------------------------------------------
(* The upgrade.                                                            *)

\* Every step preserves the invariant.
LEMMA UpgradeNext == UpgradeInv /\ [SchemaNext]_schemaVars => UpgradeInv'
<1> SUFFICES ASSUME UpgradeInv, [SchemaNext]_schemaVars PROVE UpgradeInv'
  OBVIOUS
<1>1. CASE UNCHANGED schemaVars
  <2>1. UNCHANGED <<ledger, queue, migrator, execution, recorded, settled, late, astray>>  BY <1>1 DEF schemaVars
  <2> QED
    BY <2>1 DEF UpgradeInv, Types, InOrder, Closed, Listed, Recorded, Known, InQueue, Tracks
<1>2. ASSUME NEW m \in Migrators, Migrate(m) PROVE UpgradeInv'
  BY <1>2, MigratorNext, ApplyNext DEF Migrate
<1>3. ASSUME NEW e \in Old \cup New, Execute(e) PROVE UpgradeInv'
  BY <1>3, EnqueueNext, ListingNext, RecordNext DEF Execute
<1> QED  BY <1>1, <1>2, <1>3 DEF SchemaNext

\* What the invariant says of the ledger and of the rows is what the upgrade promises.
LEMMA UpgradeKeeps == UpgradeInv => UpgradeKeepsReports
<1> SUFFICES ASSUME UpgradeInv PROVE UpgradeKeepsReports
  OBVIOUS
<1>1. Types /\ InOrder /\ Recorded  BY DEF UpgradeInv
<1>2. \A m \in Migrators : migrator[m].version \in {0, 4}  BY <1>1 DEF Types, Migration
<1>3. LedgerHonest  BY <1>1, <1>2 DEF LedgerHonest, InOrder, Closed
<1>4. ASSUME NEW r \in Reports, queue["consumer"][r] # NoReport PROVE Kept(r)
  BY <1>1, <1>4 DEF Kept, Recorded, InQueue, Tracks
<1>5. ASSUME NEW r \in Reports, queue["consumer"][r] = NoReport
      PROVE  3 \in ledger /\ queue["cra"][r] # NoReport => r \in late
  BY <1>1, <1>5 DEF Recorded, InQueue
<1> QED  BY <1>1, <1>3, <1>4, <1>5 DEF UpgradeKeepsReports, Recorded

\* However many migrators and executions of both releases there are, and wherever they
\* are interrupted: the ledger of migrate says in order what is applied, every attempt that
\* either release has recorded is known to one of the queues, and the queue of the new
\* release has none but recorded ones and misses none, except of the reports that the
\* earlier release went on with after they were copied ("astray").  Those it may post again.
THEOREM ReportsSurviveUpgrade == SchemaSpec => []UpgradeKeepsReports
<1>1. SchemaSpec => []UpgradeInv
  <2> QED  BY InitUpgrade, UpgradeNext, PTL DEF SchemaSpec
<1> QED  BY <1>1, UpgradeKeeps, PTL
=============================================================================
