-------------------------- MODULE AuditChainProofs --------------------------
(***************************************************************************)
(* Proofs about AuditChain, for any number of writers, events and edits.   *)
(***************************************************************************)
EXTENDS AuditChain, WellFoundedInduction, SequenceTheorems, TLAPS

\* A content names a hash that was known when it was written: an older one.
Given == \A n \in 1 .. Made : contents[n].prev < n

ChainInv == TypeOK /\ Given

\* What typing says of the lines of the log and of what they may say.
LEMMA LogShape ==
  ASSUME TypeOK
  PROVE  /\ Len(log) \in Nat /\ DOMAIN log = 1 .. Len(log)
         /\ log = <<>> <=> Len(log) = 0
         /\ Made \in Nat /\ DOMAIN contents = 1 .. Made
         /\ \A i \in DOMAIN log : log[i].base \in 1 .. Made /\ log[i].hash \in 1 .. Made
         /\ \A n \in 1 .. Made : contents[n] \in Content
  <1>1. contents \in Seq(Content) /\ log \in Seq(Line)
    BY DEF TypeOK
  <1>2. Len(log) \in Nat /\ DOMAIN log = 1 .. Len(log) /\ \A i \in 1 .. Len(log) : log[i] \in Line
    BY <1>1, LenProperties, ElementOfSeq
  <1>3. Made \in Nat /\ DOMAIN contents = 1 .. Made /\ \A n \in 1 .. Made : contents[n] \in Content
    BY <1>1, LenProperties, ElementOfSeq DEF Made
  <1>4. log = <<>> <=> Len(log) = 0
    BY <1>1, EmptySeq
  <1>5. \A i \in DOMAIN log : log[i].base \in 1 .. Made /\ log[i].hash \in 1 .. Made
    BY <1>2 DEF Line
  <1>6. QED
    BY <1>2, <1>3, <1>4, <1>5

\* Composing adds one content and leaves the others.
LEMMA ComposeShape ==
  ASSUME TypeOK, NEW previous \in 0 .. Made, NEW lines \in Nat, NEW mine \in BOOLEAN,
         Compose(previous, lines, mine)
  PROVE  /\ contents' \in Seq(Content) /\ Made' = Made + 1 /\ Made' <= MaxEvents
         /\ \A n \in 1 .. Made : contents'[n] = contents[n]
         /\ contents'[Made + 1] = [prev |-> previous, seen |-> lines, own |-> mine]
  <1> DEFINE new == [prev |-> previous, seen |-> lines, own |-> mine]
  <1>1. contents \in Seq(Content) /\ Made \in Nat /\ MaxEvents \in Nat
    BY LogShape, AuditAssumption DEF TypeOK
  <1>2. new \in Content
    BY <1>1 DEF Content
  <1>3. contents' = Append(contents, new) /\ Made + 1 <= MaxEvents
    BY <1>1 DEF Compose
  <1> HIDE DEF new
  <1>4. /\ Append(contents, new) \in Seq(Content)
        /\ Len(Append(contents, new)) = Len(contents) + 1
        /\ \A n \in 1 .. Len(contents) : Append(contents, new)[n] = contents[n]
        /\ Append(contents, new)[Len(contents) + 1] = new
    BY <1>1, <1>2, AppendProperties
  <1>5. QED
    BY <1>3, <1>4 DEF Made, new

\* The content a step adds keeps names older than contents.
LEMMA ComposeGiven ==
  ASSUME TypeOK, Given, NEW previous \in 0 .. Made, NEW lines \in Nat, NEW mine \in BOOLEAN,
         Compose(previous, lines, mine)
  PROVE  Given'
  <1>1. Made \in Nat
    BY LogShape
  <1>2. /\ Made' = Made + 1
        /\ \A n \in 1 .. Made : contents'[n] = contents[n]
        /\ contents'[Made + 1] = [prev |-> previous, seen |-> lines, own |-> mine]
    BY ComposeShape
  <1>3. contents'[Made + 1].prev = previous
    BY <1>2
  <1>4. QED
    BY <1>1, <1>2, <1>3 DEF Given

\* Lines stay lines when contents are added.
LEMMA LinesStay ==
  ASSUME NEW m \in Nat, NEW n \in Nat, m <= n, NEW s \in Seq([base : 1 .. m, hash : 1 .. m])
  PROVE  s \in Seq([base : 1 .. n, hash : 1 .. n])
  <1>1. [base : 1 .. m, hash : 1 .. m] \subseteq [base : 1 .. n, hash : 1 .. n]
    OBVIOUS
  <1>2. QED
    BY <1>1, SeqMonotonic

\* A write adds one content and one line that says it, or is swallowed by a
\* torn one.
LEMMA WriteShape ==
  ASSUME TypeOK, NEW p \in Writers, Write(p)
  PROVE  /\ Made' = Made + 1 /\ log' \in Seq(Line')
         /\ \A n \in 1 .. Made : contents'[n] = contents[n]
         /\ contents'[Made + 1] = [prev |-> prev[p], seen |-> seen[p], own |-> TRUE]
         /\ \/ tail = "torn" /\ tail' = "closed" /\ log' = log
            \/ /\ tail # "torn" /\ tail' = tail
               /\ Len(log') = Len(log) + 1 /\ DOMAIN log' = 1 .. Len(log) + 1
               /\ \A i \in DOMAIN log : log'[i] = log[i]
               /\ log'[Len(log) + 1] = [base |-> Made + 1, hash |-> Made + 1]
  <1>1. prev[p] \in 0 .. Made /\ seen[p] \in Nat /\ Made \in Nat
    BY LogShape DEF TypeOK
  <1>2. Compose(prev[p], seen[p], TRUE)
    BY DEF Write
  <1>3. /\ Made' = Made + 1
        /\ \A n \in 1 .. Made : contents'[n] = contents[n]
        /\ contents'[Made + 1] = [prev |-> prev[p], seen |-> seen[p], own |-> TRUE]
    BY <1>1, <1>2, ComposeShape
  <1>4. log \in Seq(Line')
    <2>1. log \in Seq([base : 1 .. Made, hash : 1 .. Made])
      BY DEF TypeOK, Line
    <2>2. Made <= Made + 1 /\ Made + 1 \in Nat
      BY <1>1
    <2>3. log \in Seq([base : 1 .. Made + 1, hash : 1 .. Made + 1])
      BY <1>1, <2>1, <2>2, LinesStay
    <2>4. QED
      BY <1>3, <2>3 DEF Line
  <1>5. CASE tail = "torn" /\ tail' = "closed" /\ log' = log
    BY <1>3, <1>4, <1>5
  <1>6. CASE tail # "torn" /\ log' = Append(log, Fresh) /\ tail' = tail
    <2>1. Fresh \in Line'
      BY <1>1, <1>3 DEF Fresh, Line
    <2>2. Fresh = [base |-> Made + 1, hash |-> Made + 1]
      BY DEF Fresh
    <2> DEFINE new == Fresh
               S == Line'
    <2>3. new \in S /\ log \in Seq(S)
      BY <1>4, <2>1
    <2> HIDE DEF new, S
    <2>4. /\ Append(log, new) \in Seq(S)
          /\ Len(Append(log, new)) = Len(log) + 1
          /\ \A i \in 1 .. Len(log) : Append(log, new)[i] = log[i]
          /\ Append(log, new)[Len(log) + 1] = new
      BY <2>3, AppendProperties
    <2>5. DOMAIN Append(log, new) = 1 .. Len(log) + 1
      BY <2>4, LenProperties
    <2>6. DOMAIN log = 1 .. Len(log)
      BY LogShape
    <2>7. QED
      BY <1>3, <1>6, <2>2, <2>4, <2>5, <2>6 DEF new, S
  <1>7. QED
    BY <1>5, <1>6 DEF Write

\* A forged line says something new, which nobody wrote with authority, and
\* keeps its hash or carries the new one.
LEMMA ForgeShape ==
  ASSUME TypeOK, NEW i \in DOMAIN log, Forge(i)
  PROVE  /\ Made' = Made + 1 /\ log' \in Seq(Line')
         /\ contents' \in Seq(Content) /\ Made' <= MaxEvents
         /\ \A n \in 1 .. Made : contents'[n] = contents[n]
         /\ contents'[Made + 1].own = FALSE
         /\ Len(log') = Len(log) /\ DOMAIN log' = DOMAIN log
         /\ \A j \in DOMAIN log : j # i => log'[j] = log[j]
         /\ log'[i].base = Made + 1 /\ log'[i].hash \in {log[i].hash, Made + 1}
         /\ moved' = moved
  <1>1. PICK p \in 0 .. Made : Compose(p, 0, FALSE)
    BY DEF Forge
  <1>2. Made \in Nat /\ Len(log) \in Nat /\ i \in 1 .. Len(log) /\ DOMAIN log = 1 .. Len(log)
        /\ log[i].hash \in 1 .. Made
    BY LogShape
  <1>3. /\ Made' = Made + 1 /\ Made' <= MaxEvents /\ contents' \in Seq(Content)
        /\ \A n \in 1 .. Made : contents'[n] = contents[n]
        /\ contents'[Made + 1] = [prev |-> p, seen |-> 0, own |-> FALSE]
    BY <1>1, ComposeShape
  <1>4. contents'[Made + 1].own = FALSE
    BY <1>3
  <1>5. log \in Seq(Line')
    <2>1. log \in Seq([base : 1 .. Made, hash : 1 .. Made])
      BY DEF TypeOK, Line
    <2>2. Made <= Made + 1 /\ Made + 1 \in Nat
      BY <1>2
    <2>3. log \in Seq([base : 1 .. Made + 1, hash : 1 .. Made + 1])
      BY <1>2, <2>1, <2>2, LinesStay
    <2>4. QED
      BY <1>3, <2>3 DEF Line
  <1>6. PICK line : /\ log' = [log EXCEPT ![i] = line] /\ line \in Line'
                    /\ line.base = Made + 1 /\ line.hash \in {log[i].hash, Made + 1}
    <2>1. CASE log' = [log EXCEPT ![i].base = Made + 1]
      <3> DEFINE line == [log[i] EXCEPT !.base = Made + 1]
      <3>1. log[i] \in Line
        BY <1>2, ElementOfSeq DEF TypeOK
      <3>2. line \in Line' /\ line.base = Made + 1 /\ line.hash = log[i].hash
        BY <1>2, <1>3, <3>1 DEF Line
      <3>3. log' = [log EXCEPT ![i] = line]
        BY <2>1
      <3> HIDE DEF line
      <3>4. QED
        BY <3>2, <3>3
    <2>2. CASE log' = [log EXCEPT ![i] = Fresh]
      <3>1. Fresh \in Line' /\ Fresh.base = Made + 1 /\ Fresh.hash = Made + 1
        BY <1>2, <1>3 DEF Fresh, Line
      <3>2. QED
        BY <2>2, <3>1
    <2>3. QED
      BY <2>1, <2>2 DEF Forge
  <1>7. /\ log' \in Seq(Line') /\ Len(log') = Len(log)
        /\ log'[i] = line /\ \A j \in 1 .. Len(log) : j # i => log'[j] = log[j]
    <2> DEFINE S == Line'
    <2>1. log \in Seq(S) /\ line \in S
      BY <1>5, <1>6
    <2> HIDE DEF S
    <2>2. /\ [log EXCEPT ![i] = line] \in Seq(S)
          /\ Len([log EXCEPT ![i] = line]) = Len(log)
          /\ \A j \in 1 .. Len(log) : [log EXCEPT ![i] = line][j] = IF j = i THEN line ELSE log[j]
      BY <1>2, <2>1, ExceptSeq
    <2>3. QED
      BY <1>2, <1>6, <2>2 DEF S
  <1>8. DOMAIN log' = DOMAIN log
    BY <1>6
  <1>9. moved' = moved
    BY DEF Forge
  <1>10. QED
    BY <1>2, <1>3, <1>4, <1>6, <1>7, <1>8, <1>9

\* Rearranged lines are still lines, and nothing new was written.
LEMMA RearrangeShape ==
  ASSUME TypeOK, NEW i \in 1 .. Len(log) + 1, Rearrange(i)
  PROVE  log' \in Seq(Line) /\ contents' = contents /\ moved'
  <1>1. log \in Seq(Line) /\ Len(log) \in Nat
    BY LogShape DEF TypeOK
  <1>2. \A m, n \in 0 .. Len(log) + 1 : m > 0 /\ n <= Len(log) => SubSeq(log, m, n) \in Seq(Line)
    BY <1>1, SubSeqProperties
  <1>3. ASSUME i \in DOMAIN log, log' = RemoveAt(log, i) PROVE log' \in Seq(Line)
    <2>1. i \in 1 .. Len(log)
      BY <1>3, LogShape
    <2>2. SubSeq(log, 1, i - 1) \in Seq(Line) /\ SubSeq(log, i + 1, Len(log)) \in Seq(Line)
      BY <1>1, <1>2, <2>1
    <2>3. QED
      BY <1>3, <2>2, ConcatProperties DEF RemoveAt
  <1>4. ASSUME NEW line \in ToSet(log) \cup {[base |-> n, hash |-> n] : n \in 1 .. Made},
               log' = InsertAt(log, i, line)
        PROVE  log' \in Seq(Line)
    <2>1. line \in Line
      <3>1. CASE line \in ToSet(log)
        BY <1>1, <3>1, ElementOfSeq, LogShape DEF ToSet
      <3>2. CASE line \in {[base |-> n, hash |-> n] : n \in 1 .. Made}
        BY <3>2 DEF Line
      <3>3. QED
        BY <1>4, <3>1, <3>2
    <2>2. SubSeq(log, 1, i - 1) \in Seq(Line) /\ SubSeq(log, i, Len(log)) \in Seq(Line)
      BY <1>1, <1>2
    <2>3. <<line>> \in Seq(Line)
      BY <2>1
    <2>4. SubSeq(log, 1, i - 1) \o <<line>> \in Seq(Line)
      BY <2>2, <2>3, ConcatProperties
    <2>5. QED
      BY <1>4, <2>2, <2>4, ConcatProperties DEF InsertAt
  <1>5. QED
    BY <1>3, <1>4 DEF Rearrange

\* The typing, and that contents name older ones, is inductive.
LEMMA ChainNext == ChainInv /\ [Next]_vars => ChainInv'
  <1> SUFFICES ASSUME ChainInv, [Next]_vars PROVE ChainInv'
    OBVIOUS
  <1>0. /\ TypeOK /\ Given /\ Made \in Nat /\ Len(log) \in Nat
        /\ pc \in [Writers -> {"idle", "write"}]
        /\ prev \in [Writers -> 0 .. Made] /\ seen \in [Writers -> Nat]
    BY LogShape DEF ChainInv, TypeOK
  <1>1. ASSUME NEW p \in Writers, Read(p) PROVE ChainInv'
    <2>1. LastHash \in 0 .. Made
      <3>1. CASE log = <<>>
        BY <1>0, <3>1 DEF LastHash, Genesis
      <3>2. CASE log # <<>>
        <4>1. Len(log) \in DOMAIN log
          BY <1>0, <3>2, LogShape
        <4>2. log[Len(log)].hash \in 1 .. Made
          BY <1>0, <4>1, LogShape
        <4>3. QED
          BY <1>0, <3>2, <4>2 DEF LastHash
      <3>3. QED
        BY <3>1, <3>2
    <2>2. /\ prev' = [prev EXCEPT ![p] = LastHash] /\ seen' = [seen EXCEPT ![p] = Len(log)]
          /\ UNCHANGED <<contents, log, tail, edits, moved>>
          /\ pc' = [pc EXCEPT ![p] = "write"]
      BY <1>1 DEF Read
    <2>3. Made' = Made /\ Line' = Line
      BY <2>2 DEF Made, Line
    <2>4. /\ pc' \in [Writers -> {"idle", "write"}]
          /\ prev' \in [Writers -> 0 .. Made] /\ seen' \in [Writers -> Nat]
      BY <1>0, <2>1, <2>2
    <2>5. TypeOK'
      BY <1>0, <2>2, <2>3, <2>4 DEF TypeOK
    <2>6. QED
      BY <1>0, <2>2, <2>3, <2>5 DEF ChainInv, Given
  <1>2. ASSUME NEW p \in Writers, Return(p) , Made <= Made', Made' \in Nat
        PROVE  /\ pc' \in [Writers -> {"idle", "write"}]
               /\ prev' \in [Writers -> 0 .. Made'] /\ seen' \in [Writers -> Nat]
    BY <1>0, <1>2 DEF Return, Genesis
  <1>3. ASSUME NEW p \in Writers, Write(p) PROVE ChainInv'
    <2>1. prev[p] \in 0 .. Made /\ seen[p] \in Nat /\ Compose(prev[p], seen[p], TRUE)
      BY <1>0, <1>3 DEF Write
    <2>2. contents' \in Seq(Content) /\ Made' = Made + 1 /\ Made' <= MaxEvents
      BY <1>0, <2>1, ComposeShape
    <2>3. Given'
      BY <1>0, <2>1, ComposeGiven
    <2>4. log' \in Seq(Line') /\ tail' \in {"whole", "torn", "closed"}
      BY <1>0, <1>3, WriteShape DEF TypeOK
    <2>5. /\ pc' \in [Writers -> {"idle", "write"}]
          /\ prev' \in [Writers -> 0 .. Made'] /\ seen' \in [Writers -> Nat]
      BY <1>0, <1>2, <1>3, <2>2 DEF Write
    <2>6. edits' = edits /\ moved' = moved
      BY <1>3 DEF Write
    <2>7. TypeOK'
      BY <1>0, <2>2, <2>4, <2>5, <2>6 DEF TypeOK
    <2>8. QED
      BY <2>3, <2>7 DEF ChainInv
  <1>4. ASSUME NEW p \in Writers, GiveUp(p) \/ WriteTorn(p) PROVE ChainInv'
    <2>1. /\ UNCHANGED <<contents, log, edits, moved>> /\ Return(p)
          /\ tail' \in {"whole", "torn", "closed"}
      BY <1>0, <1>4 DEF GiveUp, WriteTorn, TypeOK
    <2>2. Made' = Made /\ Line' = Line
      BY <2>1 DEF Made, Line
    <2>3. /\ pc' \in [Writers -> {"idle", "write"}]
          /\ prev' \in [Writers -> 0 .. Made'] /\ seen' \in [Writers -> Nat]
      BY <1>0, <1>2, <2>1, <2>2
    <2>4. TypeOK'
      BY <1>0, <2>1, <2>2, <2>3 DEF TypeOK
    <2>5. QED
      BY <1>0, <2>1, <2>2, <2>4 DEF ChainInv, Given
  <1>5. ASSUME Edit PROVE ChainInv'
    <2>1. /\ edits' \in 0 .. MaxEdits /\ tail' \in {"whole", "torn", "closed"}
          /\ UNCHANGED <<pc, prev, seen>>
      BY <1>0, <1>5, AuditAssumption DEF Edit, TypeOK, mind
    <2>2. ASSUME NEW i \in DOMAIN log, Forge(i) PROVE ChainInv'
      <3>1. /\ Made' = Made + 1 /\ log' \in Seq(Line') /\ moved' = moved
            /\ contents' \in Seq(Content) /\ Made' <= MaxEvents
        BY <1>0, <2>2, ForgeShape
      <3>2. Given'
        <4>1. PICK p \in 0 .. Made : Compose(p, 0, FALSE)
          BY <2>2 DEF Forge
        <4>2. QED
          BY <1>0, <4>1, ComposeGiven
      <3>3. prev' \in [Writers -> 0 .. Made']
        BY <1>0, <2>1, <3>1
      <3>4. TypeOK'
        BY <1>0, <2>1, <3>1, <3>3 DEF TypeOK
      <3>5. QED
        BY <3>2, <3>4 DEF ChainInv
    <2>3. ASSUME NEW i \in 1 .. Len(log) + 1, Rearrange(i) PROVE ChainInv'
      <3>1. log' \in Seq(Line) /\ contents' = contents /\ moved' = TRUE
        BY <1>0, <2>3, RearrangeShape DEF Rearrange
      <3>2. Made' = Made /\ Line' = Line
        BY <3>1 DEF Made, Line
      <3>3. TypeOK'
        BY <1>0, <2>1, <3>1, <3>2 DEF TypeOK
      <3>4. QED
        BY <1>0, <3>1, <3>2, <3>3 DEF ChainInv, Given
    <2>4. QED
      BY <1>5, <2>2, <2>3 DEF Edit
  <1>6. CASE UNCHANGED vars
    BY <1>0, <1>6 DEF vars, mind, ChainInv, TypeOK, Given, Line, Made
  <1>7. QED
    BY <1>1, <1>3, <1>4, <1>5, <1>6 DEF Next

\* The log is empty at first.
LEMMA InitChain == Init => ChainInv
  <1> SUFFICES ASSUME Init PROVE ChainInv
    OBVIOUS
  <1>1. contents = <<>> /\ log = <<>> /\ Made = 0
    BY EmptySeq DEF Init, Made
  <1>2. log \in Seq(Line) /\ contents \in Seq(Content)
    BY <1>1, EmptySeq
  <1>3. /\ pc \in [Writers -> {"idle", "write"}]
        /\ prev \in [Writers -> 0 .. Made] /\ seen \in [Writers -> Nat]
    BY <1>1 DEF Init, Genesis
  <1>4. Made <= MaxEvents
    BY <1>1, AuditAssumption
  <1>5. edits \in 0 .. MaxEdits /\ moved \in BOOLEAN /\ tail = "whole"
    <2>1. edits = 0 /\ moved = FALSE /\ tail = "whole"
      BY DEF Init
    <2>2. 0 \in 0 .. MaxEdits
      BY AuditAssumption
    <2>3. QED
      BY <2>1, <2>2, Zenon
  <1>6. TypeOK
    BY <1>2, <1>3, <1>4, <1>5 DEF TypeOK
  <1>7. QED
    BY <1>1, <1>6 DEF ChainInv, Given

\* The typing holds, and contents name older ones, in every reachable state.
LEMMA InductiveChain == Spec => []ChainInv
  BY InitChain, ChainNext, PTL DEF Spec

\* Every reachable log is well typed: its lines say and carry only what was
\* written and given out.
THEOREM AuditTypeCorrect == Spec => []TypeOK
  BY InductiveChain, PTL DEF ChainInv

-----------------------------------------------------------------------------
(* Rewriting is noticed.                                                   *)

\* Numbers have a least one.
LEMMA Least ==
  ASSUME NEW S \in SUBSET Nat, S # {}
  PROVE  \E x \in S : \A y \in S : x <= y
<1>1. PICK R : R = OpToRel(<, Nat)  OBVIOUS
<1>2. IsWellFoundedOn(R, Nat)  BY <1>1, NatLessThanWellFounded
<1>3. PICK x \in S : \A y \in S : ~ (<<y, x>> \in R)  BY <1>2, WFMin
<1>4. \A a, b \in Nat : a < b => <<a, b>> \in R
  <2>1. R = {ss \in Nat \X Nat : ss[1] < ss[2]}  BY <1>1 DEF OpToRel
  <2> QED  BY <2>1
<1>5. ASSUME NEW y \in S PROVE x <= y
  <2>1. x \in Nat /\ y \in Nat  OBVIOUS
  <2>2. ~ (y < x)  BY <1>3, <1>4, <2>1
  <2> QED  BY <2>1, <2>2
<1> QED  BY <1>5

\* In a log that passes, each line's content is younger than the one before.
LEMMA Younger ==
  ASSUME ChainInv, Verified, NEW i \in DOMAIN log, i # 1
  PROVE  i - 1 \in DOMAIN log /\ log[i - 1].base < log[i].base
  <1>1. i - 1 \in DOMAIN log
    BY LogShape DEF ChainInv
  <1>2. Sound(i) /\ Sound(i - 1)
    BY <1>1 DEF Verified
  <1>3. contents[log[i].base].prev = log[i - 1].base
    BY <1>2 DEF Sound, Expected
  <1>4. log[i].base \in 1 .. Made
    BY LogShape DEF ChainInv
  <1>5. QED
    BY <1>1, <1>3, <1>4 DEF ChainInv, Given

\* So the contents of a log that passes get younger from line to line: the
\* first line after j that said something older would be younger than its
\* predecessor, which is not older than line j.
LEMMA OrderShows == ChainInv => RewritingShows
  <1> SUFFICES ASSUME ChainInv, Verified,
                      NEW i \in DOMAIN log, NEW j \in 1 .. i - 1, ~ (log[j].base < log[i].base)
               PROVE  FALSE
    BY DEF RewritingShows
  <1> DEFINE Older == {k \in DOMAIN log : j < k /\ ~ (log[j].base < log[k].base)}
  <1>1. /\ DOMAIN log = 1 .. Len(log) /\ Len(log) \in Nat
        /\ \A k \in DOMAIN log : log[k].base \in Nat
    BY LogShape DEF ChainInv
  <1>2. Older \in SUBSET Nat /\ Older # {}
    <2>1. i \in Older
      BY <1>1
    <2>2. QED
      BY <1>1, <2>1
  <1>3. PICK n \in Older : \A m \in Older : n <= m
    <2> HIDE DEF Older
    <2>1. QED
      BY <1>2, Least
  <1>4. n \in DOMAIN log /\ j < n /\ ~ (log[j].base < log[n].base) /\ n # 1
    BY <1>1, <1>3
  <1>5. n - 1 \in DOMAIN log /\ log[n - 1].base < log[n].base
    BY <1>4, Younger
  <1>6. CASE n - 1 = j
    BY <1>4, <1>5, <1>6
  <1>7. CASE n - 1 # j
    <2>1. n - 1 \notin Older /\ j < n - 1
      BY <1>1, <1>3, <1>4, <1>7
    <2>2. log[j].base < log[n - 1].base
      BY <1>5, <2>1
    <2>3. QED
      BY <1>1, <1>4, <1>5, <2>2
  <1>8. QED
    BY <1>6, <1>7

\* In a log that passes verification the events were written in the order of
\* the lines, whatever was appended, changed, linked anew, taken out or put
\* in: a rewritten event shows until everything behind it is written anew.
THEOREM RewritingIsNoticed == Spec => []RewritingShows
  BY InductiveChain, OrderShows, PTL

-----------------------------------------------------------------------------
(* A log that verifies is a serial history.                                *)

\* The hash an event behind the first k lines should name.
HashAt(k) == IF k = 0 THEN Genesis ELSE log[k].hash

\* As long as no line was moved, no two lines have one hash; and whoever took
\* line k's hash, for the event it has written or is about to write, took it
\* from a file of k lines.
Witnessed ==
  ~ moved =>
    /\ \A j, k \in 0 .. Len(log) : HashAt(j) = HashAt(k) => j = k
    /\ \A i \in DOMAIN log : contents[log[i].base].own =>
         \A k \in 0 .. i - 1 :
           HashAt(k) = contents[log[i].base].prev => contents[log[i].base].seen = k
    /\ \A p \in Writers : pc[p] = "write" =>
         \A k \in 0 .. Len(log) : HashAt(k) = prev[p] => seen[p] = k

\* Hashes of lines are among those given out.
LEMMA HashBounds ==
  ASSUME TypeOK
  PROVE  Made \in Nat /\ \A k \in 0 .. Len(log) : HashAt(k) \in 0 .. Made
  <1>1. Len(log) \in Nat /\ DOMAIN log = 1 .. Len(log) /\ Made \in Nat
    BY LogShape
  <1>2. \A i \in DOMAIN log : log[i].hash \in 1 .. Made
    BY LogShape
  <1>3. QED
    BY <1>1, <1>2 DEF HashAt, Genesis

\* Reading takes the last line's hash and the length together.
LEMMA WitnessedRead ==
  ASSUME ChainInv, Witnessed, NEW p \in Writers, Read(p)
  PROVE  Witnessed'
  <1>1. /\ UNCHANGED <<contents, log, moved>> /\ pc' = [pc EXCEPT ![p] = "write"]
        /\ prev' = [prev EXCEPT ![p] = LastHash] /\ seen' = [seen EXCEPT ![p] = Len(log)]
    BY DEF Read
  <1>2. /\ Len(log) \in Nat /\ log = <<>> <=> Len(log) = 0
        /\ prev \in [Writers -> 0 .. Made] /\ seen \in [Writers -> Nat]
        /\ pc \in [Writers -> {"idle", "write"}]
    BY LogShape DEF ChainInv, TypeOK
  <1>3. LastHash = HashAt(Len(log))
    BY <1>2 DEF LastHash, HashAt
  <1>4. ASSUME ~ moved, NEW q \in Writers, pc'[q] = "write",
               NEW k \in 0 .. Len(log), HashAt(k) = prev'[q]
        PROVE  seen'[q] = k
    <2>1. CASE q = p
      <3>1. HashAt(k) = HashAt(Len(log)) /\ Len(log) \in 0 .. Len(log)
        BY <1>1, <1>2, <1>3, <1>4, <2>1
      <3>2. k = Len(log)
        BY <1>4, <3>1 DEF Witnessed
      <3>3. QED
        BY <1>1, <1>2, <2>1, <3>2
    <2>2. CASE q # p
      <3>1. pc[q] = "write" /\ prev'[q] = prev[q] /\ seen'[q] = seen[q]
        BY <1>1, <1>2, <1>4, <2>2
      <3>2. QED
        BY <1>4, <3>1 DEF Witnessed
    <2>3. QED
      BY <2>1, <2>2
  <1>5. QED
    BY <1>1, <1>4 DEF Witnessed, HashAt

\* What a writer that returned had read does not matter any more; the others
\* know what they knew.
LEMMA ReturnOthers ==
  ASSUME TypeOK, NEW p \in Writers, Return(p), NEW q \in Writers, pc'[q] = "write"
  PROVE  pc[q] = "write" /\ prev'[q] = prev[q] /\ seen'[q] = seen[q]
  BY DEF Return, TypeOK

\* A new line has a hash nobody has taken, and the writer's own knowledge.
LEMMA WitnessedWrite ==
  ASSUME ChainInv, Witnessed, NEW p \in Writers, Write(p), ~ moved'
  PROVE  Witnessed'
  <1> DEFINE L == Len(log)
  <1>0. /\ TypeOK /\ L \in Nat /\ DOMAIN log = 1 .. L /\ Made \in Nat
        /\ Made' = Made + 1 /\ ~ moved
        /\ \A n \in 1 .. Made : contents'[n] = contents[n]
        /\ contents'[Made + 1] = [prev |-> prev[p], seen |-> seen[p], own |-> TRUE]
        /\ \A i \in DOMAIN log : log[i].base \in 1 .. Made
    <2>1. TypeOK /\ ~ moved
      BY DEF ChainInv, Write
    <2>2. QED
      BY <2>1, LogShape, WriteShape
  <1>1. /\ pc[p] = "write" /\ prev[p] \in 0 .. Made
        /\ \A q \in Writers : pc'[q] = "write" =>
             pc[q] = "write" /\ prev'[q] = prev[q] /\ seen'[q] = seen[q] /\ prev[q] \in 0 .. Made
    BY <1>0, ReturnOthers DEF Write, Return, TypeOK
  <1>2. \A i \in DOMAIN log : contents'[log[i].base] = contents[log[i].base]
    BY <1>0
  <1>3. CASE log' = log
    BY <1>0, <1>1, <1>2, <1>3 DEF Witnessed, HashAt
  <1>4. CASE /\ Len(log') = L + 1 /\ \A i \in DOMAIN log : log'[i] = log[i]
             /\ log'[L + 1] = [base |-> Made + 1, hash |-> Made + 1]
             /\ DOMAIN log' = 1 .. L + 1
    <2>1. \A k \in 0 .. L : HashAt(k)' = HashAt(k)
      <3> SUFFICES ASSUME NEW k \in 0 .. L PROVE HashAt(k)' = HashAt(k)
        OBVIOUS
      <3>1. CASE k = 0
        BY <3>1 DEF HashAt
      <3>2. CASE k # 0
        <4>1. k \in DOMAIN log
          BY <1>0, <3>2
        <4>2. QED
          BY <1>4, <3>2, <4>1 DEF HashAt
      <3>3. QED
        BY <3>1, <3>2
    <2>2. \A k \in 0 .. Len(log') : k = L + 1 => HashAt(k)' = Made + 1
      <3>1. L + 1 # 0 /\ log'[L + 1].hash = Made + 1
        BY <1>0, <1>4
      <3>2. QED
        BY <1>0, <3>1 DEF HashAt
    <2>3. \A k \in 0 .. L : HashAt(k) \in 0 .. Made
      BY <1>0, HashBounds
    <2>4. 0 .. Len(log') = (0 .. L) \cup {L + 1}
      BY <1>0, <1>4
    <2>5. ASSUME NEW j \in 0 .. Len(log'), NEW k \in 0 .. Len(log'), HashAt(j)' = HashAt(k)'
          PROVE  j = k
      <3>1. CASE j \in 0 .. L /\ k \in 0 .. L
        BY <1>0, <2>1, <2>5, <3>1 DEF Witnessed
      <3>2. CASE j = L + 1 /\ k \in 0 .. L
        BY <1>0, <2>1, <2>2, <2>3, <2>5, <3>2
      <3>3. CASE j \in 0 .. L /\ k = L + 1
        BY <1>0, <2>1, <2>2, <2>3, <2>5, <3>3
      <3>4. QED
        BY <2>4, <3>1, <3>2, <3>3
    <2>6. ASSUME NEW i \in DOMAIN log', contents'[log'[i].base].own,
                 NEW k \in 0 .. i - 1, HashAt(k)' = contents'[log'[i].base].prev
          PROVE  contents'[log'[i].base].seen = k
      <3>1. k \in 0 .. L /\ HashAt(k)' = HashAt(k)
        BY <1>0, <1>4, <2>1, <2>6
      <3>2. CASE i \in DOMAIN log
        <4>1. log'[i] = log[i] /\ contents'[log'[i].base] = contents[log[i].base]
          BY <1>2, <1>4, <3>2
        <4>2. QED
          BY <1>0, <2>6, <3>1, <3>2, <4>1 DEF Witnessed
      <3>3. CASE i = L + 1
        <4>1. log'[i].base = Made + 1
          BY <1>4, <3>3
        <4>2. /\ contents'[log'[i].base].prev = prev[p]
              /\ contents'[log'[i].base].seen = seen[p]
          BY <1>0, <4>1
        <4>3. HashAt(k) = prev[p]
          BY <2>6, <3>1, <4>2
        <4>4. seen[p] = k
          BY <1>0, <1>1, <3>1, <4>3 DEF Witnessed
        <4>5. QED
          BY <4>2, <4>4
      <3>4. QED
        BY <1>0, <1>4, <3>2, <3>3
    <2>7. ASSUME NEW q \in Writers, pc'[q] = "write",
                 NEW k \in 0 .. Len(log'), HashAt(k)' = prev'[q]
          PROVE  seen'[q] = k
      <3>1. k # L + 1
        BY <1>0, <1>1, <2>2, <2>7
      <3>2. k \in 0 .. L /\ HashAt(k) = prev[q]
        BY <1>1, <2>1, <2>4, <2>7, <3>1
      <3>3. QED
        BY <1>0, <1>1, <2>7, <3>2 DEF Witnessed
    <2>8. QED
      BY <2>5, <2>6, <2>7 DEF Witnessed
  <1>5. QED
    BY <1>0, <1>3, <1>4, WriteShape

\* A forged line keeps its hash or gets one nobody has taken, and has no author.
LEMMA WitnessedForge ==
  ASSUME ChainInv, Witnessed, NEW i \in DOMAIN log, Forge(i), UNCHANGED mind, ~ moved'
  PROVE  Witnessed'
  <1> DEFINE L == Len(log)
  <1>0. /\ TypeOK /\ L \in Nat /\ DOMAIN log = 1 .. L /\ Made \in Nat /\ ~ moved
        /\ pc' = pc /\ prev' = prev /\ seen' = seen
        /\ prev \in [Writers -> 0 .. Made]
        /\ \A j \in DOMAIN log : log[j].base \in 1 .. Made
        /\ \A n \in 1 .. Made : contents[n].prev \in 0 .. Made
    <2>1. TypeOK /\ ~ moved
      BY ForgeShape DEF ChainInv
    <2>2. \A n \in 1 .. Made : contents[n].prev \in 0 .. Made
      BY <2>1, LogShape DEF ChainInv, Given, Content
    <2>3. QED
      BY <2>1, <2>2, LogShape DEF TypeOK, mind
  <1>1. /\ Len(log') = L /\ DOMAIN log' = DOMAIN log
        /\ \A n \in 1 .. Made : contents'[n] = contents[n]
        /\ ~ contents'[Made + 1].own
        /\ \A j \in DOMAIN log : j # i => log'[j] = log[j]
        /\ log'[i].base = Made + 1 /\ log'[i].hash \in {log[i].hash, Made + 1}
    BY <1>0, ForgeShape
  <1>2. \A k \in 0 .. L : HashAt(k) \in 0 .. Made
    BY <1>0, HashBounds
  <1>3. \A k \in 0 .. L : HashAt(k)' = HashAt(k) \/ (k = i /\ HashAt(k)' = Made + 1)
    <2> SUFFICES ASSUME NEW k \in 0 .. L
                 PROVE  HashAt(k)' = HashAt(k) \/ (k = i /\ HashAt(k)' = Made + 1)
      OBVIOUS
    <2>1. CASE k = 0
      BY <2>1 DEF HashAt
    <2>2. CASE k # 0 /\ k # i
      <3>1. k \in DOMAIN log
        BY <1>0, <2>2
      <3>2. log'[k] = log[k]
        BY <1>1, <2>2, <3>1
      <3>3. QED
        BY <2>2, <3>2 DEF HashAt
    <2>3. CASE k # 0 /\ k = i
      BY <1>1, <2>3 DEF HashAt
    <2>4. QED
      BY <2>1, <2>2, <2>3
  <1>4. ASSUME NEW j \in 0 .. L, NEW k \in 0 .. L, HashAt(j)' = HashAt(k)'
        PROVE  j = k
    <2>1. CASE HashAt(j)' = HashAt(j) /\ HashAt(k)' = HashAt(k)
      BY <1>0, <1>4, <2>1 DEF Witnessed
    <2>2. CASE j = i /\ HashAt(j)' = Made + 1
      <3>1. HashAt(k) \in 0 .. Made /\ HashAt(k)' = Made + 1
        BY <1>2, <1>4, <2>2
      <3>2. HashAt(k)' # HashAt(k)
        BY <1>0, <3>1
      <3>3. QED
        BY <1>3, <2>2, <3>2
    <2>3. CASE k = i /\ HashAt(k)' = Made + 1
      <3>1. HashAt(j) \in 0 .. Made /\ HashAt(j)' = Made + 1
        BY <1>2, <1>4, <2>3
      <3>2. HashAt(j)' # HashAt(j)
        BY <1>0, <3>1
      <3>3. QED
        BY <1>3, <2>3, <3>2
    <2>4. QED
      BY <1>3, <2>1, <2>2, <2>3
  <1>5. ASSUME NEW j \in DOMAIN log, contents'[log'[j].base].own,
               NEW k \in 0 .. j - 1, HashAt(k)' = contents'[log'[j].base].prev
        PROVE  contents'[log'[j].base].seen = k
    <2>1. j # i
      BY <1>1, <1>5
    <2>2. log'[j] = log[j] /\ contents'[log[j].base] = contents[log[j].base]
      BY <1>0, <1>1, <2>1
    <2>3. k \in 0 .. L /\ contents[log[j].base].prev \in 0 .. Made
      BY <1>0
    <2>4. HashAt(k) = contents[log[j].base].prev
      BY <1>0, <1>3, <1>5, <2>2, <2>3
    <2>5. QED
      BY <1>0, <1>5, <2>2, <2>4 DEF Witnessed
  <1>6. ASSUME NEW q \in Writers, pc'[q] = "write", NEW k \in 0 .. L, HashAt(k)' = prev'[q]
        PROVE  seen'[q] = k
    <2>1. HashAt(k) = prev[q]
      BY <1>0, <1>3, <1>6
    <2>2. QED
      BY <1>0, <1>6, <2>1 DEF Witnessed
  <1>7. QED
    BY <1>1, <1>4, <1>5, <1>6 DEF Witnessed

\* The chain knows who had read what, whatever the order of the steps.
LEMMA WitnessedNext == ChainInv /\ Witnessed /\ [Next]_vars => Witnessed'
  <1> SUFFICES ASSUME ChainInv, Witnessed, [Next]_vars, ~ moved' PROVE Witnessed'
    BY DEF Witnessed
  <1>0. TypeOK
    BY DEF ChainInv
  <1>1. CASE UNCHANGED vars
    BY <1>1 DEF Witnessed, HashAt, vars, mind
  <1>2. ASSUME NEW p \in Writers, GiveUp(p) \/ WriteTorn(p) PROVE Witnessed'
    <2>1. UNCHANGED <<contents, log, moved>> /\ Return(p)
      BY <1>2 DEF GiveUp, WriteTorn
    <2>2. \A q \in Writers : pc'[q] = "write" =>
            pc[q] = "write" /\ prev'[q] = prev[q] /\ seen'[q] = seen[q]
      BY <1>0, <2>1, ReturnOthers
    <2>3. QED
      BY <2>1, <2>2 DEF Witnessed, HashAt
  <1>3. ASSUME Edit PROVE Witnessed'
    <2>1. UNCHANGED mind /\ \/ \E i \in DOMAIN log : Forge(i)
                            \/ \E i \in 1 .. Len(log) + 1 : Rearrange(i)
      BY <1>3 DEF Edit
    <2>2. ASSUME NEW i \in 1 .. Len(log) + 1, Rearrange(i) PROVE FALSE
      BY <2>2 DEF Rearrange
    <2>3. QED
      BY <2>1, <2>2, WitnessedForge
  <1>4. QED
    BY <1>1, <1>2, <1>3, WitnessedRead, WitnessedWrite DEF Next

\* In an empty log everybody has seen nothing.
LEMMA InitWitnessed == Init => Witnessed
  <1> SUFFICES ASSUME Init PROVE Witnessed
    OBVIOUS
  <1>1. Len(log) = 0 /\ DOMAIN log = {}
    BY EmptySeq DEF Init
  <1>2. \A j, k \in 0 .. Len(log) : HashAt(j) = HashAt(k) => j = k
    BY <1>1
  <1>3. \A p \in Writers : pc[p] # "write"
    BY DEF Init
  <1>4. QED
    BY <1>1, <1>2, <1>3 DEF Witnessed

\* When every line names the hash before it, every author had read exactly
\* the lines before its own.
LEMMA VerifiedReads == ChainInv /\ Witnessed => VerifiedIsSerial
  <1> SUFFICES ASSUME ChainInv, Witnessed, Verified, ~ moved,
                      NEW i \in DOMAIN log, contents[log[i].base].own
               PROVE  contents[log[i].base].seen = i - 1
    BY DEF VerifiedIsSerial, Serial
  <1>1. i \in Nat /\ i - 1 \in 0 .. i - 1 /\ (i - 1 = 0 <=> i = 1)
    BY LogShape DEF ChainInv
  <1>2. contents[log[i].base].prev = Expected(i)
    BY DEF Verified, Sound
  <1>3. HashAt(i - 1) = contents[log[i].base].prev
    BY <1>1, <1>2 DEF HashAt, Expected
  <1>4. QED
    BY <1>1, <1>3 DEF Witnessed

\* A log that passes verification and that nobody took lines out of or put
\* lines into is a serial history: whatever overlapped while it was written,
\* and whatever was rewritten and linked anew, the author of each event had
\* read all the lines before it and no others.
THEOREM VerifiedLogIsSerial == Spec => []VerifiedIsSerial
  BY InitChain, ChainNext, InitWitnessed, WitnessedNext, VerifiedReads, PTL DEF Spec

-----------------------------------------------------------------------------
(* What an unedited log says.                                              *)

\* Every line and every writer names the hash of the last line it had read.
AsRead ==
  edits = 0 =>
    /\ \A i \in DOMAIN log : /\ log[i].hash = log[i].base
                             /\ contents[log[i].base].own
                             /\ contents[log[i].base].seen \in 0 .. i - 1
                             /\ contents[log[i].base].prev = HashAt(contents[log[i].base].seen)
    /\ \A p \in Writers : pc[p] = "write" =>
         seen[p] \in 0 .. Len(log) /\ prev[p] = HashAt(seen[p])

\* Reading takes the last line's hash and the length together.
LEMMA AsReadRead ==
  ASSUME ChainInv, AsRead, NEW p \in Writers, Read(p)
  PROVE  AsRead'
  <1>1. /\ UNCHANGED <<contents, log, edits>> /\ pc' = [pc EXCEPT ![p] = "write"]
        /\ prev' = [prev EXCEPT ![p] = LastHash] /\ seen' = [seen EXCEPT ![p] = Len(log)]
    BY DEF Read
  <1>2. /\ Len(log) \in Nat /\ log = <<>> <=> Len(log) = 0
        /\ prev \in [Writers -> 0 .. Made] /\ seen \in [Writers -> Nat]
        /\ pc \in [Writers -> {"idle", "write"}]
    BY LogShape DEF ChainInv, TypeOK
  <1>3. LastHash = HashAt(Len(log))
    BY <1>2 DEF LastHash, HashAt
  <1>4. ASSUME NEW q \in Writers, pc'[q] = "write", edits = 0
        PROVE  seen'[q] \in 0 .. Len(log) /\ prev'[q] = HashAt(seen'[q])
    <2>1. CASE q = p
      <3>1. seen'[q] = Len(log) /\ prev'[q] = LastHash /\ Len(log) \in 0 .. Len(log)
        BY <1>1, <1>2, <2>1
      <3>2. QED
        BY <1>3, <3>1
    <2>2. CASE q # p
      <3>1. pc[q] = "write" /\ seen'[q] = seen[q] /\ prev'[q] = prev[q]
        BY <1>1, <1>2, <1>4, <2>2
      <3>2. QED
        BY <1>4, <3>1 DEF AsRead
    <2>3. QED
      BY <2>1, <2>2
  <1>5. QED
    BY <1>1, <1>4 DEF AsRead, HashAt

\* Writing adds a line that says what its writer had read.
LEMMA AsReadWrite ==
  ASSUME ChainInv, AsRead, NEW p \in Writers, Write(p), edits' = 0
  PROVE  AsRead'
  <1> DEFINE L == Len(log)
  <1>0. /\ TypeOK /\ L \in Nat /\ DOMAIN log = 1 .. L /\ Made \in Nat
        /\ Made' = Made + 1 /\ edits = 0
        /\ \A n \in 1 .. Made : contents'[n] = contents[n]
        /\ contents'[Made + 1] = [prev |-> prev[p], seen |-> seen[p], own |-> TRUE]
        /\ \A i \in DOMAIN log : log[i].base \in 1 .. Made
    <2>1. TypeOK /\ edits = 0
      BY DEF ChainInv, Write
    <2>2. QED
      BY <2>1, LogShape, WriteShape
  <1>1. /\ pc[p] = "write" /\ seen[p] \in 0 .. L /\ prev[p] = HashAt(seen[p])
        /\ \A q \in Writers : pc'[q] = "write" =>
             /\ prev'[q] = prev[q] /\ seen'[q] = seen[q]
             /\ seen[q] \in 0 .. L /\ prev[q] = HashAt(seen[q])
    <2>1. pc[p] = "write" /\ Return(p)
      BY DEF Write, Return
    <2>2. QED
      BY <1>0, <2>1, ReturnOthers DEF AsRead
  <1>2. \A i \in DOMAIN log : contents'[log[i].base] = contents[log[i].base]
    BY <1>0
  <1>3. CASE log' = log
    <2>1. \A k : HashAt(k)' = HashAt(k)
      BY <1>3 DEF HashAt
    <2>2. ASSUME NEW i \in DOMAIN log
          PROVE  /\ log[i].hash = log[i].base /\ contents'[log[i].base].own
                 /\ contents'[log[i].base].seen \in 0 .. i - 1
                 /\ contents'[log[i].base].prev = HashAt(contents'[log[i].base].seen)
      BY <1>0, <1>2 DEF AsRead
    <2>3. QED
      BY <1>1, <1>3, <2>2 DEF AsRead, HashAt
  <1>4. CASE /\ Len(log') = L + 1 /\ \A i \in DOMAIN log : log'[i] = log[i]
             /\ log'[L + 1] = [base |-> Made + 1, hash |-> Made + 1]
             /\ DOMAIN log' = 1 .. L + 1
    <2>1. \A k \in 0 .. L : HashAt(k)' = HashAt(k)
      <3> SUFFICES ASSUME NEW k \in 0 .. L PROVE HashAt(k)' = HashAt(k)
        OBVIOUS
      <3>1. CASE k = 0
        BY <3>1 DEF HashAt
      <3>2. CASE k # 0
        <4>1. k \in DOMAIN log
          BY <1>0, <3>2
        <4>2. QED
          BY <1>4, <3>2, <4>1 DEF HashAt
      <3>3. QED
        BY <3>1, <3>2
    <2>2. ASSUME NEW i \in DOMAIN log'
          PROVE  /\ log'[i].hash = log'[i].base /\ contents'[log'[i].base].own
                 /\ contents'[log'[i].base].seen \in 0 .. i - 1
                 /\ contents'[log'[i].base].seen \in 0 .. L
                 /\ \A k \in 0 .. L : k = contents'[log'[i].base].seen =>
                      contents'[log'[i].base].prev = HashAt(k)'
      <3>1. CASE i \in DOMAIN log
        <4>1. log'[i] = log[i] /\ contents'[log'[i].base] = contents[log[i].base]
          BY <1>2, <1>4, <3>1
        <4>2. /\ log[i].hash = log[i].base /\ contents[log[i].base].own
              /\ contents[log[i].base].seen \in 0 .. i - 1
              /\ contents[log[i].base].prev = HashAt(contents[log[i].base].seen)
          BY <1>0, <3>1 DEF AsRead
        <4>3. contents[log[i].base].seen \in 0 .. L
          BY <1>0, <3>1, <4>2
        <4>4. QED
          BY <2>1, <4>1, <4>2, <4>3
      <3>2. CASE i = L + 1
        <4>1. log'[i].hash = Made + 1 /\ log'[i].base = Made + 1
          BY <1>4, <3>2
        <4>2. /\ contents'[log'[i].base].prev = prev[p]
              /\ contents'[log'[i].base].seen = seen[p] /\ contents'[log'[i].base].own
          BY <1>0, <4>1
        <4>3. seen[p] \in 0 .. i - 1 /\ seen[p] \in 0 .. L
          BY <1>0, <1>1, <3>2
        <4>4. QED
          BY <1>1, <2>1, <4>1, <4>2, <4>3
      <3>3. QED
        BY <1>0, <1>4, <3>1, <3>2
    <2>3. ASSUME NEW q \in Writers, pc'[q] = "write"
          PROVE  /\ seen'[q] \in 0 .. L /\ seen'[q] \in 0 .. Len(log')
                 /\ \A k \in 0 .. L : k = seen'[q] => prev'[q] = HashAt(k)'
      <3>1. seen'[q] = seen[q] /\ seen[q] \in 0 .. L /\ prev'[q] = HashAt(seen[q])
        BY <1>1, <2>3
      <3>2. seen[q] \in 0 .. Len(log')
        BY <1>0, <1>4, <3>1
      <3>3. QED
        BY <2>1, <3>1, <3>2
    <2>4. QED
      BY <2>2, <2>3 DEF AsRead
  <1>5. QED
    BY <1>0, <1>3, <1>4, WriteShape

\* Until the first edit, nobody names a hash other than the one it had read.
LEMMA AsReadNext == ChainInv /\ AsRead /\ [Next]_vars => AsRead'
  <1> SUFFICES ASSUME ChainInv, AsRead, [Next]_vars, edits' = 0 PROVE AsRead'
    BY DEF AsRead
  <1>0. TypeOK
    BY DEF ChainInv
  <1>1. CASE UNCHANGED vars
    BY <1>1 DEF AsRead, HashAt, vars, mind
  <1>2. ASSUME NEW p \in Writers, GiveUp(p) \/ WriteTorn(p) PROVE AsRead'
    <2>1. UNCHANGED <<contents, log, edits>> /\ Return(p)
      BY <1>2 DEF GiveUp, WriteTorn
    <2>2. \A q \in Writers : pc'[q] = "write" =>
            pc[q] = "write" /\ prev'[q] = prev[q] /\ seen'[q] = seen[q]
      BY <1>0, <2>1, ReturnOthers
    <2>3. QED
      BY <2>1, <2>2 DEF AsRead, HashAt
  <1>3. ASSUME Edit PROVE FALSE
    BY <1>0, <1>3 DEF Edit, TypeOK
  <1>4. QED
    BY <1>1, <1>2, <1>3, AsReadRead, AsReadWrite DEF Next

\* In an empty log nobody has read anything.
LEMMA InitAsRead == Init => AsRead
  <1> SUFFICES ASSUME Init PROVE AsRead
    OBVIOUS
  <1>1. DOMAIN log = {} /\ \A p \in Writers : pc[p] # "write"
    BY EmptySeq DEF Init
  <1>2. QED
    BY <1>1 DEF AsRead

\* If moreover every author had read all the lines before its own, every line
\* names the hash before it.
LEMMA SerialIsSound == ChainInv /\ AsRead => SerialVerifies
  <1> SUFFICES ASSUME ChainInv, AsRead, Serial, edits = 0, NEW i \in DOMAIN log
               PROVE  Sound(i)
    BY DEF SerialVerifies, Verified
  <1>1. /\ log[i].hash = log[i].base
        /\ contents[log[i].base].prev = HashAt(contents[log[i].base].seen)
        /\ contents[log[i].base].seen = i - 1
    BY DEF AsRead, Serial
  <1>2. i \in Nat /\ (i - 1 = 0 <=> i = 1)
    BY LogShape DEF ChainInv
  <1>3. HashAt(i - 1) = Expected(i)
    BY <1>2 DEF HashAt, Expected
  <1>4. QED
    BY <1>1, <1>3 DEF Sound

\* As long as appends take turns, a log that nobody edited and no interrupted
\* write damaged passes verification: it raises no false alarm.
THEOREM SerialLogVerifies == Spec => []SerialVerifies
  BY InitChain, ChainNext, InitAsRead, AsReadNext, SerialIsSound, PTL DEF Spec

\* Whatever overlaps, an event of an unedited log continues one that is in the
\* log before it.
THEOREM ForksContinue == Spec => []ContinuesEarlier
  <1>1. ChainInv /\ AsRead => ContinuesEarlier
    <2> SUFFICES ASSUME ChainInv, AsRead, edits = 0, NEW i \in DOMAIN log
                 PROVE  \/ contents[log[i].base].prev = Genesis
                        \/ \E j \in 1 .. i - 1 : log[j].hash = contents[log[i].base].prev
      BY DEF ContinuesEarlier
    <2> DEFINE k == contents[log[i].base].seen
    <2>1. k \in 0 .. i - 1 /\ contents[log[i].base].prev = HashAt(k)
      BY DEF AsRead
    <2> HIDE DEF k
    <2>2. CASE k = 0
      BY <2>1, <2>2 DEF HashAt
    <2>3. CASE k # 0
      <3>1. k \in 1 .. i - 1 /\ i \in Nat
        BY <2>1, <2>3, LogShape DEF ChainInv
      <3>2. log[k].hash = contents[log[i].base].prev
        BY <2>1, <2>3 DEF HashAt
      <3>3. QED
        BY <3>1, <3>2
    <2>4. QED
      BY <2>2, <2>3
  <1>2. QED
    BY <1>1, InitChain, ChainNext, InitAsRead, AsReadNext, PTL DEF Spec

-----------------------------------------------------------------------------
(* What was kept stays.                                                    *)

\* An append that returned has put its event into the log, and an append of
\* another writer does not take it out again.
LEMMA KeptWrite ==
  ASSUME ChainInv, KeptEventsStay, NEW p \in Writers, Write(p), edits' = 0, tail' = "whole"
  PROVE  \A n \in 1 .. Made' : \E i \in DOMAIN log' : log'[i].hash = n
  <1>0. TypeOK /\ edits = 0 /\ Made \in Nat /\ Len(log) \in Nat /\ DOMAIN log = 1 .. Len(log)
    BY LogShape DEF ChainInv, Write
  <1>1. /\ Made' = Made + 1 /\ tail = "whole"
        /\ DOMAIN log' = 1 .. Len(log) + 1
        /\ \A i \in DOMAIN log : log'[i] = log[i]
        /\ log'[Len(log) + 1] = [base |-> Made + 1, hash |-> Made + 1]
    BY <1>0, WriteShape
  <1>2. SUFFICES ASSUME NEW n \in 1 .. Made' PROVE \E i \in DOMAIN log' : log'[i].hash = n
    OBVIOUS
  <1>3. CASE n \in 1 .. Made
    <2>1. PICK i \in DOMAIN log : log[i].hash = n
      BY <1>0, <1>1, <1>3 DEF KeptEventsStay
    <2>2. i \in DOMAIN log' /\ log'[i].hash = n
      BY <1>0, <1>1, <2>1
    <2>3. QED
      BY <2>2
  <1>4. CASE n = Made + 1
    <2>1. log'[Len(log) + 1].hash = n /\ Len(log) + 1 \in DOMAIN log'
      BY <1>0, <1>1, <1>4
    <2>2. QED
      BY <2>1
  <1>5. QED
    BY <1>0, <1>1, <1>3, <1>4

\* Nothing else removes a line, makes a torn file whole, or undoes an edit.
LEMMA KeptNext == ChainInv /\ KeptEventsStay /\ [Next]_vars => KeptEventsStay'
  <1> SUFFICES ASSUME ChainInv, KeptEventsStay, [Next]_vars, edits' = 0, tail' = "whole"
               PROVE  \A n \in 1 .. Made' : \E i \in DOMAIN log' : log'[i].hash = n
    BY DEF KeptEventsStay
  <1>1. CASE UNCHANGED <<contents, log, tail, edits>>
    BY <1>1 DEF KeptEventsStay, Made
  <1>2. ASSUME Edit PROVE FALSE
    BY <1>2 DEF Edit, ChainInv, TypeOK
  <1>3. ASSUME NEW p \in Writers, WriteTorn(p) PROVE FALSE
    BY <1>3 DEF WriteTorn
  <1>4. ASSUME NEW p \in Writers, Read(p) \/ GiveUp(p)
        PROVE  UNCHANGED <<contents, log, tail, edits>>
    BY <1>4 DEF Read, GiveUp
  <1>5. QED
    BY <1>1, <1>2, <1>3, <1>4, KeptWrite DEF Next, vars

\* An event whose append returned is in the log for as long as nobody edits
\* the file and no write is cut short, however appends overlap.
THEOREM NoEventIsLost == Spec => []KeptEventsStay
  <1>1. Init => KeptEventsStay
    <2> SUFFICES ASSUME Init PROVE KeptEventsStay
      OBVIOUS
    <2>1. Made = 0
      BY EmptySeq DEF Init, Made
    <2>2. QED
      BY <2>1 DEF KeptEventsStay
  <1>2. QED
    BY <1>1, InitChain, ChainNext, KeptNext, PTL DEF Spec
=============================================================================
