-------------------------- MODULE ScanEngineProofs --------------------------
(***************************************************************************)
(* Proofs about ScanEngine, for any scanners, findings, policy documents   *)
(* and waivers: that the gate decides as declared whatever the order it    *)
(* goes through them in, that locks and the floor hold, and that the first *)
(* answer of a scanner stands.                                             *)
(***************************************************************************)
EXTENDS ScanEngine, FiniteSetTheorems, SequenceTheorems, WellFoundedInduction, TLAPS

-----------------------------------------------------------------------------
(* Least and greatest numbers.                                             *)

\* A set of natural numbers has a least element.
LEMMA Least ==
  ASSUME NEW S \in SUBSET Nat, S # {}
  PROVE  \E x \in S : \A y \in S : x <= y
<1>1. PICK R : R = OpToRel(<, Nat)  OBVIOUS
<1>2. IsWellFoundedOn(R, Nat)  BY <1>1, NatLessThanWellFounded
<1>3. PICK x \in S : \A y \in S : ~ (<<y, x>> \in R)  BY <1>2, WFMin
<1>4. \A a, b \in Nat : a < b => <<a, b>> \in R
  <2>1. R = {ss \in Nat \X Nat : ss[1] < ss[2]}  BY <1>1 DEF OpToRel
  <2> QED  BY <2>1
<1>5. ASSUME NEW y \in S PROVE x <= y
  <2>1. x \in Nat /\ y \in Nat  OBVIOUS
  <2>2. ~ (y < x)  BY <1>3, <1>4, <2>1
  <2> QED  BY <2>1, <2>2
<1> QED  BY <1>5

\* A set of places in a sequence has a greatest element.
LEMMA Greatest ==
  ASSUME NEW n \in Nat, NEW S \in SUBSET (1 .. n), S # {}
  PROVE  Max(S) \in S
<1> DEFINE rest == {n - x : x \in S}
<1>1. rest \in SUBSET Nat /\ rest # {}
  <2>1. \A x \in S : n - x \in Nat  OBVIOUS
  <2> QED  BY <2>1
<1>2. PICK d \in rest : \A e \in rest : d <= e  BY <1>1, Least
<1>3. PICK x \in S : d = n - x  OBVIOUS
<1>4. ASSUME NEW y \in S PROVE x >= y
  <2>1. n - x <= n - y  BY <1>2, <1>3
  <2> QED  BY <2>1
<1>5. \E z \in S : \A y \in S : z >= y  BY <1>4
<1> QED  BY <1>5 DEF Max

-----------------------------------------------------------------------------
(* The loop over the scanners.                                             *)

FailsAs(mode, S) == \E i \in S : results[Plugins[i]].status = "failed" /\ Mode(Plugins[i]) = mode

\* What the loop makes of the scanners at the places S.
Verdict(S) ==
  IF AtFirst = "FAIL" \/ FailsAs("fail", S) THEN "FAIL"
  ELSE IF FailsAs("warn", S) THEN "WARN" ELSE "PASS"

\* The fold, as a recursive function on the sets of places.
IsFold(fold, D) ==
  fold = [S \in SUBSET D |-> IF S = {} THEN AtFirst ELSE After(fold[S \ {Max(S)}], Plugins[Max(S)])]

LEMMA ForcedIsFold == Forced = (CHOOSE fold : IsFold(fold, DOMAIN Plugins))[DOMAIN Plugins]
BY DEF Forced, FoldLeft, MapThenFoldSet, IsFold

\* One iteration: the scanner at place m joins those at the places S.
LEMMA OneMore ==
  ASSUME NEW S, NEW m \in S
  PROVE  Verdict(S) = After(Verdict(S \ {m}), Plugins[m])
<1> DEFINE s == Plugins[m]
<1>1. \A mode : FailsAs(mode, S) <=> FailsAs(mode, S \ {m}) \/ (results[s].status = "failed" /\ Mode(s) = mode)
  BY DEF FailsAs
<1>2. CASE results[s].status = "failed" /\ Mode(s) = "fail"
  BY <1>1, <1>2 DEF Verdict, After
<1>3. CASE results[s].status = "failed" /\ Mode(s) = "warn"
  BY <1>1, <1>3 DEF Verdict, After
<1>4. CASE ~ (results[s].status = "failed" /\ Mode(s) \in {"fail", "warn"})
  <2>1. Verdict(S) = Verdict(S \ {m})  BY <1>1, <1>4 DEF Verdict
  <2> QED  BY <1>4, <2>1 DEF After
<1> QED  BY <1>2, <1>3, <1>4

\* Whatever order it goes in, the loop fails if a required scanner is missing or a scanner
\* has failed that may not, and warns if a scanner has failed that may.
LEMMA LoopVerdict == Forced = Verdict(DOMAIN Plugins)
<1> DEFINE D == DOMAIN Plugins
<1>1. PICK n \in Nat : D = 1 .. n  BY EngineAssumption DEF IsList
<1>2. \A S \in SUBSET D : S # {} => Max(S) \in S  BY <1>1, Greatest
<1>3. Verdict({}) = AtFirst  BY DEF Verdict, FailsAs, AtFirst
<1>4. \A S \in SUBSET D : S # {} => Verdict(S) = After(Verdict(S \ {Max(S)}), Plugins[Max(S)])
  BY <1>2, OneMore
<1> HIDE DEF D
<1>5. \E fold : IsFold(fold, D)
  <2> DEFINE fold == [S \in SUBSET D |-> Verdict(S)]
  <2>1. \A S \in SUBSET D : S # {} => fold[S \ {Max(S)}] = Verdict(S \ {Max(S)})  OBVIOUS
  <2>2. \A S \in SUBSET D : Verdict(S) = IF S = {} THEN AtFirst ELSE After(fold[S \ {Max(S)}], Plugins[Max(S)])
    BY <1>3, <1>4, <2>1
  <2> HIDE DEF fold
  <2>3. fold = [S \in SUBSET D |-> IF S = {} THEN AtFirst ELSE After(fold[S \ {Max(S)}], Plugins[Max(S)])]
    BY <2>2 DEF fold
  <2> QED  BY <2>3 DEF IsFold
<1>6. PICK fold : IsFold(fold, D) /\ Forced = fold[D]
  BY <1>5, ForcedIsFold DEF D
<1>7. \A S \in SUBSET D : fold[S] = IF S = {} THEN AtFirst ELSE After(fold[S \ {Max(S)}], Plugins[Max(S)])
  BY <1>6 DEF IsFold
<1>8. \A S \in SUBSET D : IsFiniteSet(S) /\ Cardinality(S) \in Nat
  <2>1. IsFiniteSet(D)  BY <1>1, FS_Interval
  <2> QED  BY <2>1, FS_Subset, FS_CardinalityType
<1>9. \A S \in SUBSET D : fold[S] = Verdict(S)
  <2> DEFINE wrong == {Cardinality(S) : S \in {T \in SUBSET D : fold[T] # Verdict(T)}}
  <2> SUFFICES ASSUME wrong # {} PROVE FALSE  OBVIOUS
  <2>1. wrong \in SUBSET Nat  BY <1>8
  <2>2. PICK k \in wrong : \A l \in wrong : k <= l  BY <2>1, Least
  <2>3. PICK S \in SUBSET D : fold[S] # Verdict(S) /\ Cardinality(S) = k  BY <2>2
  <2>4. S # {}  BY <1>3, <1>7, <2>3
  <2>5. PICK m \in S : m = Max(S)  BY <1>2, <2>4
  <2>6. Cardinality(S \ {m}) = k - 1 /\ k \in Nat  BY <1>8, <2>3, FS_RemoveElement
  <2>7. fold[S \ {m}] = Verdict(S \ {m})  BY <2>2, <2>6
  <2> QED  BY <1>4, <1>7, <2>3, <2>4, <2>5, <2>7
<1> QED  BY <1>6, <1>9 DEF D

-----------------------------------------------------------------------------
(* The floor.                                                              *)

\* A finite set as a sequence has the elements of the set.
LEMMA SequenceOf ==
  ASSUME NEW S, IsFiniteSet(S)
  PROVE  SetToSeq(S) \in Seq(S) /\ ToSet(SetToSeq(S)) = S
<1>1. PICK n \in Nat : n = Cardinality(S) /\ ExistsBijection(1 .. n, S)  BY FS_CardinalityType
<1>2. PICK f \in Bijection(1 .. n, S) : TRUE  BY <1>1 DEF ExistsBijection
<1>3. f \in [1 .. n -> S] /\ IsInjective(f)
  BY DEF Bijection, Injection, IsInjective
<1>4. PICK g : g = SetToSeq(S)  OBVIOUS
<1>5. g \in [1 .. n -> S] /\ IsInjective(g)  BY <1>1, <1>3, <1>4 DEF SetToSeq
<1>6. g \in Injection(1 .. n, S)  BY <1>5 DEF Injection, IsInjective
<1>7. Cardinality(1 .. n) = n  BY FS_Interval
<1>8. g \in Surjection(1 .. n, S)  BY <1>1, <1>6, <1>7, FS_Injection
<1>9. ToSet(g) = S  BY <1>8 DEF Surjection, ToSet
<1> QED  BY <1>4, <1>5, <1>9

\* What is a list over one set is a list over every set that has its elements.
LEMMA ListOver ==
  ASSUME NEW A, NEW v \in Seq(A), NEW B, \A i \in 1 .. Len(v) : v[i] \in B
  PROVE  v \in Seq(B)
<1>1. PICK n \in Nat : n = Len(v) /\ v \in [1 .. n -> A]  OBVIOUS
<1>2. v \in [1 .. n -> B]  BY <1>1
<1> QED  BY <1>2, SeqDef

\* A list that is longer by another one has the elements of both.
LEMMA Longer ==
  ASSUME NEW v, IsList(v), NEW S, NEW w \in Seq(S)
  PROVE  IsList(v \o w) /\ ToSet(v \o w) = ToSet(v) \cup ToSet(w)
<1>1. PICK m, n \in Nat : DOMAIN v = 1 .. m /\ Len(v) = m /\ DOMAIN w = 1 .. n /\ Len(w) = n
  BY DEF IsList
<1>2. PICK u : u = v \o w  OBVIOUS
<1>3. PICK A : v \in Seq(A) /\ w \in Seq(A)
  <2> PICK B : B = ToSet(v) /\ v \in Seq(B)  BY DEF IsList
  <2>1. \A i \in 1 .. m : v[i] \in B \cup S  BY <1>1
  <2>2. \A i \in 1 .. n : w[i] \in B \cup S  BY <1>1
  <2>3. v \in Seq(B \cup S)  BY <1>1, <2>1, ListOver
  <2>4. w \in Seq(B \cup S)  BY <1>1, <2>2, ListOver
  <2> QED  BY <2>3, <2>4
<1>4. /\ u \in Seq(A) /\ Len(u) = Len(v) + Len(w)
      /\ \A i \in 1 .. Len(v) + Len(w) : u[i] = IF i <= Len(v) THEN v[i] ELSE w[i - Len(v)]
  BY <1>2, <1>3, ConcatProperties
<1>5. /\ DOMAIN u = 1 .. (m + n) /\ Len(u) = m + n
      /\ \A i \in 1 .. m : u[i] = v[i]
      /\ \A i \in 1 .. n : u[m + i] = w[i]
  <2>1. \A i \in 1 .. m : i \in 1 .. (m + n) /\ i <= m  OBVIOUS
  <2>2. \A i \in 1 .. n : m + i \in 1 .. (m + n) /\ ~ (m + i <= m) /\ (m + i) - m = i  OBVIOUS
  <2>3. DOMAIN u = 1 .. Len(u)  BY <1>4
  <2> QED  BY <1>1, <1>4, <2>1, <2>2, <2>3
<1>6. \A i \in 1 .. (m + n) : i \in 1 .. m \/ (i - m \in 1 .. n /\ u[i] = w[i - m])
  <2> TAKE i \in 1 .. (m + n)
  <2>1. i \in 1 .. m \/ (i - m \in 1 .. n /\ m + (i - m) = i)  BY <1>1
  <2> QED  BY <1>5, <2>1
<1>7. ToSet(u) \subseteq ToSet(v) \cup ToSet(w)
  <2>1. \A i \in DOMAIN u : u[i] \in ToSet(v) \/ u[i] \in ToSet(w)  BY <1>1, <1>5, <1>6 DEF ToSet
  <2> QED  BY <2>1 DEF ToSet
<1>8. ToSet(v) \subseteq ToSet(u)  BY <1>1, <1>5 DEF ToSet
<1>9. ToSet(w) \subseteq ToSet(u)
  <2>1. \A i \in 1 .. n : m + i \in 1 .. (m + n)  BY <1>1
  <2> QED  BY <1>1, <1>5, <2>1 DEF ToSet
<1>10. IsList(u)
  <2>1. \A i \in DOMAIN u : u[i] \in ToSet(u)  BY DEF ToSet
  <2>2. PICK B : B = ToSet(u)  OBVIOUS
  <2>3. u \in Seq(B)  BY <1>4, <1>5, <2>1, <2>2, ListOver
  <2> QED  BY <2>2, <2>3 DEF IsList
<1> QED  BY <1>2, <1>7, <1>8, <1>9, <1>10

\* The floor is finite, and has what every consumer that counts requires.
LEMMA FloorIsFinite ==
  /\ IsFiniteSet(Floor)
  /\ Managed \subseteq Floor
  /\ \A c \in Consumers : c.enabled /\ c.adapter \in {"cra", "cyber"} => c.requiredScanners \subseteq Floor
<1> DEFINE counting == {d \in listConfiguredConsumers : d.enabled /\ Available(d)}
           lists == {c.requiredScanners : c \in counting}
<1>1. Consumers \subseteq listConfiguredConsumers
      /\ listConfiguredConsumers \subseteq Consumers \cup {legacyCraConsumer}
  BY DEF listConfiguredConsumers
<1>2. IsFiniteSet(Consumers \cup {legacyCraConsumer})  BY EngineAssumption, FS_AddElement
<1>3. IsFiniteSet(counting)  BY <1>1, <1>2, FS_Subset
<1>4. \A c \in counting : IsFiniteSet(c.requiredScanners)
  <2>1. IsFiniteSet(legacyCraConsumer.requiredScanners)  BY FS_EmptySet DEF legacyCraConsumer
  <2>2. \A c \in Consumers : IsFiniteSet(c.requiredScanners)  BY EngineAssumption
  <2> QED  BY <1>1, <2>1, <2>2
<1>5. IsFiniteSet(lists)
  <2> PICK f : f = [c \in counting |-> c.requiredScanners]  OBVIOUS
  <2>1. f \in Surjection(counting, lists)  BY DEF Surjection
  <2> QED  BY <1>3, <2>1, FS_Surjection
<1>6. IsFiniteSet(UNION lists)
  <2>1. \A T \in lists : IsFiniteSet(T)  BY <1>4
  <2> QED  BY <1>5, <2>1, FS_UNION
<1>7. consumerRequiredScanners = UNION lists  BY DEF consumerRequiredScanners
<1>8. IsFiniteSet(Floor)  BY <1>6, <1>7, EngineAssumption, FS_Union DEF Floor
<1>9. ASSUME NEW c \in Consumers, c.enabled, c.adapter \in {"cra", "cyber"}
      PROVE  c.requiredScanners \subseteq Floor
  <2>1. c \in counting  BY <1>1, <1>9 DEF Available
  <2> QED  BY <1>7, <2>1 DEF Floor
<1> QED  BY <1>8, <1>9 DEF Floor

-----------------------------------------------------------------------------
(* The invariant.                                                          *)

Result ==
  [status : {"none", "success", "skipped", "failed"}, found : SUBSET Findings,
   failure : {"none", "unknown"} \cup {Categories[i] : i \in DOMAIN Categories}]

Types ==
  /\ scan \in [Scanners -> {"running", "settled", "abandoned", "over"}]
  /\ results \in [Scanners -> Result]
  /\ pc \in {"scanning", "documents", "resolving", "waivers", "gate", "opa"} \cup Ended
  /\ decision \in Decisions

\* A scanner has an answer once it does not run any more, or is given up, which
\* is a failure; and nothing goes on before all have.
Answered ==
  /\ \A s \in Scanners :
       /\ scan[s] = "running" => results[s] = None
       /\ scan[s] # "running" => results[s].status # "none"
       /\ scan[s] \in {"abandoned", "over"} =>
            results[s].status = "failed" /\ results[s].failure = "scanner_execution"
  /\ pc # "scanning" => \A s \in Scanners : scan[s] # "running"

\* What a document says of the required scanners is a list, and it locks fields that there are.
Lists(d) == "requiredScanners" \in DOMAIN d.enforces => IsList(d.enforces["requiredScanners"])
Policy ==
  /\ DOMAIN effective = Fields /\ IsList(effective["requiredScanners"])
  /\ locked \subseteq Fields /\ \A i \in DOMAIN documents : documents[i].lock \subseteq Fields
  /\ \A i \in DOMAIN documents : Lists(documents[i])

Floored == pc \in {"waivers", "gate", "opa", "report", "released"} => Floor \subseteq Required

\* The decision as GateDeclared declares it.
Declared == IF Blocked THEN "FAIL" ELSE IF Warned THEN "WARN" ELSE "PASS"

Reported ==
  /\ report.decision \in Decisions /\ Rank[report.decision] >= Rank[Declared]
  /\ report.policy.decision = report.decision
  /\ report.policy.waivedCount = Cardinality({a \in Applied : a[2] \in waived})
  /\ report.scanners = results
  /\ DOMAIN report.failures = Failed /\ \A s \in Failed : report.failures[s] = results[s].failure

\* From the gate on, nothing that the decision depends on changes.
Gated ==
  /\ IsList(waivers)
  /\ pc \in {"opa", "report", "released"} => waived = {x \in Found : Covered(x)}
  /\ pc = "opa" => decision = Declared
  /\ pc \in {"report", "released"} => Reported
  /\ pc = "released" =>
       release.decision = report.decision /\ release.findings = {a \in Applied : a[2] \notin waived}

EngineInv == Types /\ Answered /\ Policy /\ Floored /\ Gated

-----------------------------------------------------------------------------
(* Frames.                                                                 *)

\* What the decision depends on.
LEMMA SameGate ==
  ASSUME UNCHANGED <<clock, results, effective, waivers>>
  PROVE  /\ Found' = Found /\ Applied' = Applied /\ Failed' = Failed /\ Required' = Required
         /\ \A x : Covered(x)' <=> Covered(x)
         /\ Declared' = Declared
<1>1. Found' = Found /\ Applied' = Applied /\ Failed' = Failed /\ Required' = Required /\ Present' = Present
  BY DEF Found, Applied, Failed, Required, Present
<1>2. \A x : Covered(x)' <=> Covered(x)  BY DEF Covered, Matches, Valid
<1>3. \A f : Counts(f)' <=> Counts(f)  BY <1>1, <1>2 DEF Counts
<1>4. \A mode : FailedAs(mode)' <=> FailedAs(mode)
  <2>1. \A s : Mode(s)' = Mode(s)  BY <1>1 DEF Mode
  <2> QED  BY <2>1 DEF FailedAs
<1>5. (Blocked' <=> Blocked) /\ (Warned' <=> Warned)  BY <1>1, <1>3, <1>4 DEF Blocked, Warned
<1> QED  BY <1>1, <1>2, <1>5 DEF Declared

\* Before the gate there is nothing to preserve of it.
LEMMA BeforeGate ==
  ASSUME IsList(waivers)', pc' \notin {"opa", "report", "released"}
  PROVE  Gated'
BY DEF Gated

\* After it, what has been decided stays.
LEMMA SameDecision ==
  ASSUME Gated, UNCHANGED <<clock, results, effective, waivers, waived, decision, report, release, pc>>
  PROVE  Gated'
<1>1. PICK S : S = {x \in Found : Covered(x)} /\ {x \in Found : Covered(x)}' = S
  BY SameGate
<1>2. Reported' <=> Reported  BY SameGate DEF Reported
<1>3. {a \in Applied : a[2] \notin waived}' = {a \in Applied : a[2] \notin waived}  BY SameGate
<1> QED  BY <1>1, <1>2, <1>3, SameGate DEF Gated

\* Documents and effective policy.
LEMMA SamePolicy == ASSUME Policy, UNCHANGED <<documents, effective, locked>> PROVE Policy'
BY DEF Policy, Lists

LEMMA SameFloor ==
  ASSUME Floored, UNCHANGED effective, pc' = pc \/ pc' \in {"scanning", "documents", "resolving", "thrown"}
                                         \/ pc \in {"waivers", "gate", "opa", "report", "released"}
  PROVE  Floored'
BY DEF Floored, Required

\* Init establishes the invariant.
LEMMA InitEngine == Init => EngineInv
<1> SUFFICES ASSUME Init PROVE EngineInv  OBVIOUS
<1>1. None \in Result /\ None.status = "none"  BY DEF None, Result
<1>2. Types  BY <1>1 DEF Init, Types, Decisions, Ended
<1>3. Answered  BY DEF Init, Answered
<1>4. Policy
  <2>1. DOMAIN documents = {}  BY DEF Init
  <2> QED  BY <2>1, EngineAssumption DEF Init, Policy
<1>5. Gated
  <2>1. <<>> \in Seq({}) /\ ToSet(<<>>) = {}  BY DEF ToSet
  <2> QED  BY <2>1 DEF Init, Gated, IsList
<1> QED  BY <1>2, <1>3, <1>4, <1>5 DEF EngineInv, Floored, Init

-----------------------------------------------------------------------------
(* The scanners.                                                           *)

\* The first category that a message of the timer matches.
LEMMA TimeOutCategory ==
  /\ classifyScannerFailure({"scanner_execution"}) = "scanner_execution"
  /\ \A message : classifyScannerFailure(message) \in {"none", "unknown"} \cup {Categories[i] : i \in DOMAIN Categories}
<1>1. DOMAIN Categories = 1 .. 5 /\ Categories[4] = "scanner_execution"
      /\ \A i \in 1 .. 5 : Categories[i] = "scanner_execution" => i = 4
  BY DEF Categories
<1>2. {i \in DOMAIN Categories : Categories[i] \in {"scanner_execution"}} = {4}  BY <1>1
<1>3. Min({4}) = 4  BY DEF Min
<1>4. \A message : {i \in DOMAIN Categories : Categories[i] \in message} # {} =>
                   Min({i \in DOMAIN Categories : Categories[i] \in message}) \in DOMAIN Categories
  <2> TAKE message
  <2> DEFINE S == {i \in DOMAIN Categories : Categories[i] \in message}
  <2>1. S \in SUBSET Nat  BY <1>1
  <2>2. ASSUME S # {} PROVE Min(S) \in S
    <3>1. \E x \in S : \A y \in S : x <= y  BY <2>1, <2>2, Least
    <3> QED  BY <3>1 DEF Min
  <2> QED  BY <2>2
<1> QED  BY <1>1, <1>2, <1>3, <1>4 DEF classifyScannerFailure

\* A scanner that runs, as long as the scan waits, gets its answer.
LEMMA AnswerNext ==
  ASSUME EngineInv, NEW s \in Scanners, Settle(s) \/ TimeOut(s)
  PROVE  EngineInv'
<1>1. scan[s] = "running" /\ pc = "scanning" /\ UNCHANGED <<clock, pc, resolution, gate>>
  BY DEF EngineInv, Types, Answered, Settle, TimeOut
<1>2. PICK to, r : /\ r \in Result /\ r.status # "none" /\ to \in {"settled", "abandoned"}
                   /\ to = "abandoned" => r.status = "failed" /\ r.failure = "scanner_execution"
                   /\ scan' = [scan EXCEPT ![s] = to] /\ results' = [results EXCEPT ![s] = r]
  <2>1. CASE Settle(s)
    <3>1. PICK st \in {"success", "skipped", "failed"}, F \in SUBSET Findings, message \in Messages :
            results' = [results EXCEPT ![s] =
              [status |-> st, found |-> F,
               failure |-> IF st = "failed" THEN classifyScannerFailure(message) ELSE "none"]]
      BY <2>1 DEF Settle
    <3>2. PICK failure \in {"none", "unknown"} \cup {Categories[i] : i \in DOMAIN Categories} :
            failure = IF st = "failed" THEN classifyScannerFailure(message) ELSE "none"
      BY TimeOutCategory
    <3>3. [status |-> st, found |-> F, failure |-> failure] \in Result  BY DEF Result
    <3> QED  BY <2>1, <3>1, <3>2, <3>3 DEF Settle
  <2>2. CASE TimeOut(s)
    <3>1. [status |-> "failed", found |-> {}, failure |-> "scanner_execution"] \in Result
      BY DEF Result, Categories
    <3> QED  BY <2>2, <3>1, TimeOutCategory DEF TimeOut
  <2> QED  BY <2>1, <2>2
<1>3. Types'  BY <1>1, <1>2 DEF EngineInv, Types, gate
<1>4. Answered'
  <2>1. \A x \in Scanners : IF x = s THEN scan'[x] = to /\ results'[x] = r
                            ELSE scan'[x] = scan[x] /\ results'[x] = results[x]
    BY <1>2 DEF EngineInv, Types
  <2> QED  BY <1>1, <1>2, <2>1 DEF EngineInv, Answered
<1>5. Policy' /\ Floored' /\ Gated'
  BY <1>1, SamePolicy, SameFloor, BeforeGate DEF EngineInv, resolution, gate, Gated, IsList
<1> QED  BY <1>3, <1>4, <1>5 DEF EngineInv

\* A late answer changes nothing but the scanner itself.
LEMMA LateNext == ASSUME EngineInv, NEW s \in Scanners, LateResult(s) PROVE EngineInv'
<1>1. Types'  BY DEF EngineInv, Types, LateResult, gate
<1>2. Answered'  BY DEF EngineInv, Types, Answered, LateResult
<1> QED
  BY <1>1, <1>2, SamePolicy, SameFloor, SameDecision DEF EngineInv, LateResult, resolution, gate

-----------------------------------------------------------------------------
(* The scan.                                                               *)

\* A step that ends the scan with an error, or only lets time pass, or waits.
LEMMA QuietNext ==
  ASSUME EngineInv,
         \/ Throw /\ pc # "scanning"
         \/ AllSettled
         \/ Tick
         \/ UNCHANGED vars
  PROVE  EngineInv'
<1>1. UNCHANGED <<scan, results, documents, effective, locked, waivers, waived, decision, report, release>>
  BY DEF Throw, AllSettled, Tick, vars, resolution, gate
<1>2. Types'
  <2>1. pc' \in {pc, "thrown", "documents"}  BY DEF Throw, AllSettled, Tick, vars
  <2> QED  BY <1>1, <2>1 DEF EngineInv, Types, Ended
<1>3. Answered'
  <2>1. AllSettled => \A s \in Scanners : scan[s] # "running"
    BY DEF AllSettled, EngineInv, Types, Answered
  <2>2. pc' # "scanning" => pc # "scanning" \/ AllSettled  BY DEF Throw, Tick, vars
  <2> QED  BY <1>1, <2>1, <2>2 DEF EngineInv, Answered
<1>4. Policy'  BY <1>1, SamePolicy DEF EngineInv
<1>5. Floored'
  <2>1. pc' = pc \/ pc' \in {"thrown", "documents"}  BY DEF Throw, AllSettled, Tick, vars
  <2> QED  BY <1>1, <2>1, SameFloor DEF EngineInv
<1>6. Gated'
  <2>1. CASE pc' \notin {"opa", "report", "released"}
    BY <1>1, <2>1, BeforeGate DEF EngineInv, Gated, IsList
  <2>2. CASE pc' \in {"opa", "report", "released"}
    <3>1. UNCHANGED <<clock, pc>>  BY <2>2 DEF Throw, AllSettled, Tick, vars, Ended
    <3> QED  BY <1>1, <3>1, SameDecision DEF EngineInv
  <2> QED  BY <2>1, <2>2
<1> QED  BY <1>2, <1>3, <1>4, <1>5, <1>6 DEF EngineInv

\* The documents in force are documents of the directory.
LEMMA LoadPolicyNext == ASSUME EngineInv, LoadPolicyDocuments PROVE EngineInv'
<1>1. CASE Throw /\ pc # "scanning"  BY <1>1, QuietNext
<1>2. CASE ~ Throw
  <2>1. PICK D \in Directories : documents' = InForce(D) /\ \A i \in DOMAIN D : D[i].lock \subseteq Fields
    BY <1>2 DEF LoadPolicyDocuments, Parses
  <2>2. /\ pc = "documents" /\ pc' = "resolving"
        /\ UNCHANGED <<clock, scan, results, effective, locked, gate>>
    BY <1>2 DEF LoadPolicyDocuments
  <2>3. \A i \in DOMAIN documents' : i \in DOMAIN D /\ documents'[i] = D[i]
    BY <2>1 DEF InForce
  <2>4. Policy'
    <3>1. \A i \in DOMAIN documents' : Lists(documents'[i])
      BY <2>1, <2>3, EngineAssumption DEF Lists
    <3>2. \A i \in DOMAIN documents' : documents'[i].lock \subseteq Fields  BY <2>1, <2>3
    <3> QED  BY <2>2, <3>1, <3>2 DEF EngineInv, Policy, Lists
  <2>5. Types' /\ Answered'  BY <2>2 DEF EngineInv, Types, Answered, gate
  <2>6. Floored' /\ Gated'
    BY <2>2, BeforeGate, SameFloor DEF EngineInv, gate, Gated, IsList
  <2> QED  BY <2>4, <2>5, <2>6 DEF EngineInv
<1> QED  BY <1>1, <1>2 DEF LoadPolicyDocuments

\* A document replaces lists by lists.
LEMMA ApplyNext == ASSUME EngineInv, ApplyDocument PROVE EngineInv'
<1>1. CASE Throw /\ pc # "scanning"  BY <1>1, QuietNext
<1>2. CASE ~ Throw
  <2>1. PICK i \in DOMAIN documents :
          /\ effective' = [f \in Fields |-> Value(documents[i], f)]
          /\ locked' = locked \cup documents[i].lock
          /\ documents' = [j \in DOMAIN documents \ {i} |-> documents[j]]
          /\ UNCHANGED <<clock, scan, results, pc, gate>>
    BY <1>2 DEF ApplyDocument
  <2>2. pc = "resolving" /\ UNCHANGED <<scan, results, pc, waivers>>  BY <2>1 DEF ApplyDocument, gate
  <2>3. Policy'
    <3>1. Lists(documents[i]) /\ IsList(effective["requiredScanners"])  BY DEF EngineInv, Policy
    <3>2. IsList(Value(documents[i], "requiredScanners"))  BY <3>1 DEF Value, Lists
    <3>3. DOMAIN effective' = Fields /\ effective'["requiredScanners"] = Value(documents[i], "requiredScanners")
      BY <2>1 DEF Fields
    <3>4. \A j \in DOMAIN documents' : Lists(documents'[j]) /\ documents'[j].lock \subseteq Fields
      BY <2>1 DEF EngineInv, Policy
    <3>5. locked' \subseteq Fields  BY <2>1 DEF EngineInv, Policy
    <3> QED  BY <3>2, <3>3, <3>4, <3>5 DEF Policy, Lists
  <2>4. Types' /\ Answered'  BY <2>1 DEF EngineInv, Types, Answered, gate
  <2>5. Floored' /\ Gated'
    BY <2>2, BeforeGate DEF EngineInv, Floored, Gated, IsList
  <2> QED  BY <2>3, <2>4, <2>5 DEF EngineInv
<1> QED  BY <1>1, <1>2 DEF ApplyDocument

\* What adding the floor makes of the required scanners.
LEMMA FloorAdded ==
  ASSUME Policy, AddFloor
  PROVE  /\ DOMAIN effective' = Fields /\ IsList(effective'["requiredScanners"])
         /\ ToSet(effective'["requiredScanners"]) = ToSet(effective["requiredScanners"]) \cup Floor
         /\ \A f \in Fields \ {"requiredScanners"} : effective'[f] = effective[f]
<1> DEFINE missing == Floor \ ToSet(effective["requiredScanners"])
<1>1. PICK v : v = effective["requiredScanners"] /\ IsList(v)  BY DEF Policy
<1>2. IsFiniteSet(missing)  BY FloorIsFinite, FS_Subset
<1>3. PICK w \in Seq(missing) : w = SetToSeq(missing) /\ ToSet(w) = missing  BY <1>2, SequenceOf
<1>4. IsList(v \o w) /\ ToSet(v \o w) = ToSet(v) \cup ToSet(w)  BY <1>1, Longer
<1>5. effective' = [effective EXCEPT !["requiredScanners"] = v \o w]  BY <1>1, <1>3 DEF AddFloor
<1>6. "requiredScanners" \in Fields /\ DOMAIN effective = Fields  BY DEF Policy, Fields
<1>7. effective'["requiredScanners"] = v \o w /\ DOMAIN effective' = Fields
      /\ \A f \in Fields \ {"requiredScanners"} : effective'[f] = effective[f]
  BY <1>5, <1>6
<1>8. ToSet(v) \cup ToSet(w) = ToSet(v) \cup Floor  BY <1>1, <1>3
<1> QED  BY <1>1, <1>4, <1>7, <1>8

LEMMA FloorNext == ASSUME EngineInv, AddFloor PROVE EngineInv'
<1>1. pc' = "waivers" /\ pc = "resolving" /\ UNCHANGED <<scan, results, documents, locked, gate>>  BY DEF AddFloor
<1>2. Policy'  BY <1>1, FloorAdded DEF EngineInv, Policy, Lists
<1>3. Floored'  BY FloorAdded DEF EngineInv, Floored, Required
<1>4. Types' /\ Answered'  BY <1>1 DEF EngineInv, Types, Answered, gate
<1>5. Gated'  BY <1>1, BeforeGate DEF EngineInv, Gated, IsList, gate
<1> QED  BY <1>2, <1>3, <1>4, <1>5 DEF EngineInv

LEMMA WaiversNext == ASSUME EngineInv, LoadWaivers PROVE EngineInv'
<1>1. CASE Throw /\ pc # "scanning"  BY <1>1, QuietNext
<1>2. CASE ~ Throw
  <2>1. /\ pc = "waivers" /\ pc' = "gate" /\ waivers' \in WaiverFiles
        /\ UNCHANGED <<clock, scan, results, resolution, waived, decision, report, release>>
    BY <1>2 DEF LoadWaivers
  <2>2. IsList(waivers)'  BY <2>1, EngineAssumption DEF IsList
  <2>3. Types' /\ Answered'  BY <2>1 DEF EngineInv, Types, Answered
  <2>4. Policy' /\ Floored' /\ Gated'
    BY <2>1, <2>2, SamePolicy, SameFloor, BeforeGate DEF EngineInv, resolution
  <2> QED  BY <2>3, <2>4 DEF EngineInv
<1> QED  BY <1>1, <1>2 DEF LoadWaivers

-----------------------------------------------------------------------------
(* The gate.                                                               *)

\* The first waiver that applies exists if there is one that applies.
LEMMA WaivedIsCovered == ASSUME IsList(waivers), NEW x PROVE Waived(x) <=> Covered(x)
<1>1. Waived(x) => Covered(x)  BY DEF Waived, Applies, Covered
<1>2. ASSUME Covered(x) PROVE Waived(x)
  <2> DEFINE S == {i \in DOMAIN waivers : Applies(i, x)}
  <2>1. PICK n \in Nat : DOMAIN waivers = 1 .. n  BY DEF IsList
  <2>2. S \in SUBSET Nat /\ S # {}  BY <1>2, <2>1 DEF Covered, Applies
  <2>3. PICK i \in S : \A j \in S : i <= j  BY <2>2, Least
  <2>4. \A j \in 1 .. (i - 1) : j \in DOMAIN waivers /\ ~ (i <= j)  BY <2>1
  <2> QED  BY <2>3, <2>4 DEF Waived
<1> QED  BY <1>1, <1>2

\* The loop over the scanners fails and warns as declared.
LEMMA ForcedAsDeclared ==
  Forced = IF Required \ Present # {} \/ FailedAs("fail") THEN "FAIL"
           ELSE IF FailedAs("warn") THEN "WARN" ELSE "PASS"
<1>1. \A mode : FailsAs(mode, DOMAIN Plugins) <=> FailedAs(mode)  BY DEF FailsAs, FailedAs, Scanners
<1>2. AtFirst = "FAIL" <=> Required \ Present # {}  BY DEF AtFirst
<1> QED  BY <1>1, <1>2, LoopVerdict DEF Verdict

\* The gate decides as declared.
LEMMA EvaluateNext == ASSUME EngineInv, EvaluatePolicy PROVE EngineInv'
<1>1. /\ pc = "gate" /\ pc' = "opa" /\ waived' = {x \in Found : Waived(x)}
      /\ UNCHANGED <<clock, scan, results, documents, effective, locked, waivers, report, release>>
  BY DEF EvaluatePolicy, resolution
<1>2. waived' = {x \in Found : Covered(x)}  BY <1>1, WaivedIsCovered DEF EngineInv, Gated
<1> DEFINE Hits(f) == \E x \in Found \ waived' : x.severity \in ToSet(effective[f])
           byFindings == IF Hits("failOn") THEN "FAIL" ELSE IF Hits("warnOn") THEN "WARN" ELSE "PASS"
<1>3. decision' = Stricter(byFindings, Forced)  BY DEF EvaluatePolicy
<1>4. \A f : Hits(f) <=> Counts(f)  BY <1>2 DEF Counts
<1>5. decision' = Declared
  <2>1. byFindings = IF Counts("failOn") THEN "FAIL" ELSE IF Counts("warnOn") THEN "WARN" ELSE "PASS"  BY <1>4
  <2> HIDE DEF byFindings
  <2> QED  BY <1>3, <2>1, ForcedAsDeclared DEF Stricter, Rank, Declared, Blocked, Warned
<1>6. Types' /\ Answered'  BY <1>1, <1>5 DEF EngineInv, Types, Answered, Declared, Decisions
<1>7. Policy' /\ Floored'  BY <1>1, SamePolicy, SameFloor DEF EngineInv
<1>8. Gated'
  <2>1. {x \in Found : Covered(x)}' = {x \in Found : Covered(x)} /\ Declared' = Declared  BY <1>1, SameGate
  <2>2. IsList(waivers)'  BY <1>1 DEF EngineInv, Gated, IsList
  <2> QED  BY <1>1, <1>2, <1>5, <2>1, <2>2 DEF Gated
<1> QED  BY <1>6, <1>7, <1>8 DEF EngineInv

\* OPA only makes the decision stricter, and the report is of this scan.
LEMMA OpaNext == ASSUME EngineInv, SkipOpa \/ OpaAnswers PROVE EngineInv'
<1>1. CASE Throw /\ pc # "scanning"  BY <1>1, QuietNext
<1>2. ASSUME Conclude, decision' = decision \/ \E answer \in Decisions : decision' = Stricter(decision, answer),
             UNCHANGED <<clock, scan, results, resolution, waivers, waived>>, pc = "opa"
      PROVE  EngineInv'
  <2>1. /\ pc' = "report" /\ UNCHANGED <<clock, scan, results, documents, effective, locked, waivers, waived, release>>
    BY <1>2 DEF Conclude, resolution
  <2>2. decision = Declared /\ decision \in Decisions  BY <1>2 DEF EngineInv, Gated, Types
  <2>3. decision' \in Decisions /\ Rank[decision'] >= Rank[Declared]
    <3>1. Rank["PASS"] = 0 /\ Rank["WARN"] = 1 /\ Rank["FAIL"] = 2  BY DEF Rank
    <3> QED  BY <1>2, <2>2, <3>1 DEF Stricter, Decisions
  <2>4. /\ report'.decision = decision' /\ report'.policy.decision = decision' /\ report'.scanners = results
        /\ report'.failures = [s \in Failed |-> results[s].failure]
        /\ report'.policy.waivedCount = Cardinality({a \in Applied : a[2] \in waived})
    BY <1>2 DEF Conclude
  <2>5. Types' /\ Answered'  BY <1>2, <2>1, <2>3 DEF EngineInv, Types, Answered, Ended
  <2>6. Policy' /\ Floored'  BY <1>2, <2>1, SamePolicy, SameFloor DEF EngineInv
  <2>7. Reported'
    <3>1. /\ Declared' = Declared /\ Failed' = Failed
          /\ {a \in Applied : a[2] \in waived}' = {a \in Applied : a[2] \in waived}
      BY <2>1, SameGate
    <3> QED  BY <2>1, <2>3, <2>4, <3>1 DEF Reported
  <2>8. Gated'
    <3>1. {x \in Found : Covered(x)}' = {x \in Found : Covered(x)}  BY <2>1, SameGate
    <3>2. IsList(waivers)' /\ waived = {x \in Found : Covered(x)}
      BY <1>2, <2>1 DEF EngineInv, Gated, IsList
    <3> QED  BY <2>1, <2>7, <3>1, <3>2 DEF Gated
  <2> QED  BY <2>5, <2>6, <2>7, <2>8 DEF EngineInv
<1> QED  BY <1>1, <1>2 DEF SkipOpa, OpaAnswers

LEMMA ReleaseNext == ASSUME EngineInv, ReleaseCheck PROVE EngineInv'
<1>1. /\ pc = "report" /\ pc' = "released"
      /\ UNCHANGED <<clock, scan, results, documents, effective, locked, waivers, waived, decision, report>>
  BY DEF ReleaseCheck, resolution
<1>2. release'.decision = report.decision /\ release'.findings = {a \in Applied : a[2] \notin waived}
  BY DEF ReleaseCheck
<1>3. Types' /\ Answered'  BY <1>1 DEF EngineInv, Types, Answered, Ended
<1>4. Policy' /\ Floored'  BY <1>1, SamePolicy, SameFloor DEF EngineInv
<1>5. Gated'
  <2>1. /\ {x \in Found : Covered(x)}' = {x \in Found : Covered(x)}
        /\ {a \in Applied : a[2] \notin waived}' = {a \in Applied : a[2] \notin waived}
    BY <1>1, SameGate
  <2>2. Reported'
    <3>1. Reported  BY <1>1 DEF EngineInv, Gated
    <3> QED  BY <1>1, <3>1, SameGate DEF Reported
  <2>3. IsList(waivers)' /\ waived = {x \in Found : Covered(x)}  BY <1>1 DEF EngineInv, Gated, IsList
  <2> QED  BY <1>1, <1>2, <2>1, <2>2, <2>3 DEF Gated
<1> QED  BY <1>3, <1>4, <1>5 DEF EngineInv

-----------------------------------------------------------------------------
(* The theorems.                                                           *)

LEMMA EngineNext == EngineInv /\ [Next]_vars => EngineInv'
<1> SUFFICES ASSUME EngineInv, [Next]_vars PROVE EngineInv'  OBVIOUS
<1>1. CASE \E s \in Scanners : Settle(s) \/ TimeOut(s) \/ LateResult(s)  BY <1>1, AnswerNext, LateNext
<1>2. CASE RunScan \/ OpaAnswers
  BY <1>2, QuietNext, LoadPolicyNext, ApplyNext, FloorNext, WaiversNext, EvaluateNext, OpaNext DEF RunScan
<1>3. CASE ReleaseCheck \/ Tick \/ Done \/ UNCHANGED vars  BY <1>3, ReleaseNext, QuietNext DEF Done
<1> QED  BY <1>1, <1>2, <1>3 DEF Next

LEMMA InductiveEngine == Spec => []EngineInv
BY InitEngine, EngineNext, PTL DEF Spec

\* The variables keep their types, and the clock its bound, whatever the scanners
\* answer and the documents say.
THEOREM EngineTypeCorrect == Spec => []TypeOK
<1> DEFINE InTime == clock \in 0 .. Horizon /\ settings \in Settings
<1>1. Init => InTime  BY EngineAssumption DEF Init
<1>2. EngineInv /\ InTime /\ [Next]_vars => InTime'
  <2> SUFFICES ASSUME InTime, [Next]_vars PROVE InTime'  OBVIOUS
  <2>1. CASE Tick  BY <2>1, EngineAssumption DEF Tick
  <2>2. (Tick \/ clock' = clock) /\ settings' = settings
    BY DEF Next, RunScan, Settle, TimeOut, LateResult, AllSettled, LoadPolicyDocuments, ApplyDocument, AddFloor,
           LoadWaivers, EvaluatePolicy, SkipOpa, OpaAnswers, ReleaseCheck, Tick, Done, Throw, vars
  <2> QED  BY <2>1, <2>2
<1>3. EngineInv /\ InTime => TypeOK
  <2> SUFFICES ASSUME EngineInv, InTime PROVE TypeOK  OBVIOUS
  <2>1. {Categories[i] : i \in DOMAIN Categories} = ToSet(Categories)  BY DEF ToSet
  <2>2. \A s \in Scanners : results[s] \in Result  BY DEF EngineInv, Types
  <2>3. \A s \in Scanners :
          /\ results[s].status \in {"none", "success", "skipped", "failed"}
          /\ results[s].found \subseteq Findings
          /\ results[s].failure \in ToSet(Categories) \cup {"none", "unknown"}
    BY <2>1, <2>2 DEF Result
  <2> QED  BY <2>3 DEF EngineInv, Types, Policy, TypeOK
<1> QED  BY <1>1, <1>2, <1>3, InductiveEngine, PTL DEF Spec

\* The decision of the gate and of its report is the declared one (evaluatePolicy,
\* runScan), for any number of scanners, findings and waivers, in whatever order
\* they are gone through.
THEOREM GateDecides == Spec => []GateDeclared
<1>1. EngineInv => GateDeclared
  <2> SUFFICES ASSUME EngineInv PROVE GateDeclared  OBVIOUS
  <2>1. pc = "opa" => decision = Declared  BY DEF EngineInv, Gated
  <2>2. ASSUME pc = "released"
        PROVE  /\ release.decision = report.decision
               /\ {a[2] : a \in release.findings} = {x \in Found : ~ Covered(x)}
    <3>1. /\ release.decision = report.decision /\ release.findings = {a \in Applied : a[2] \notin waived}
          /\ waived = {x \in Found : Covered(x)}
      BY <2>2 DEF EngineInv, Gated
    <3>2. Found = {a[2] : a \in Applied}
      <4>1. \A s \in Scanners : results[s].found \subseteq Findings  BY DEF EngineInv, Types, Result
      <4>2. \A a \in Applied : a[2] \in Found  BY DEF Applied, Found
      <4>3. ASSUME NEW x \in Found PROVE x \in {a[2] : a \in Applied}
        <5>1. PICK s \in Scanners : x \in results[s].found  BY DEF Found
        <5>2. <<s, x>> \in Applied /\ <<s, x>>[2] = x  BY <4>1, <5>1 DEF Applied
        <5> QED  BY <5>2
      <4> QED  BY <4>2, <4>3
    <3>3. \A a \in Applied : a[2] \notin waived <=> ~ Covered(a[2])  BY <3>1, <3>2
    <3> QED  BY <3>1, <3>2, <3>3
  <2>3. ASSUME pc = "report"
        PROVE  /\ Rank[report.decision] >= Rank[Declared] /\ report.policy.decision = report.decision
               /\ report.policy.waivedCount = Cardinality({a \in Applied : Covered(a[2])})
               /\ \A s \in Scanners : \/ s \in DOMAIN report.failures
                                      \/ report.scanners[s].status \in {"success", "skipped"}
               /\ \A s \in Scanners : scan[s] \in {"abandoned", "over"} => report.failures[s] = "scanner_execution"
    <3>1. Reported /\ waived = {x \in Found : Covered(x)}  BY <2>3 DEF EngineInv, Gated
    <3>2. {a \in Applied : a[2] \in waived} = {a \in Applied : Covered(a[2])}
      <4>1. \A a \in Applied : a[2] \in Found  BY DEF Applied, Found
      <4> QED  BY <3>1, <4>1
    <3>3. \A s \in Scanners : results[s].status \in {"success", "skipped"} \/ s \in Failed
      <4>1. \A s \in Scanners : results[s].status # "none"  BY <2>3 DEF EngineInv, Answered
      <4>2. \A s \in Scanners : results[s].status \in {"none", "success", "skipped", "failed"}
        BY DEF EngineInv, Types, Result
      <4> QED  BY <4>1, <4>2 DEF Failed
    <3>4. \A s \in Scanners : scan[s] \in {"abandoned", "over"} =>
            s \in Failed /\ results[s].failure = "scanner_execution"
      BY DEF EngineInv, Answered, Failed
    <3> QED  BY <3>1, <3>2, <3>3, <3>4 DEF Reported
  <2> QED  BY <2>1, <2>2, <2>3 DEF GateDeclared, Declared
<1> QED  BY <1>1, InductiveEngine, PTL

\* No policy document, lock or skipped scanner is a way around the scanners that a consumer
\* or a managed profile requires (requiredScannersFloor).
THEOREM FloorIsEnforced == Spec => []FloorEnforced
<1>1. EngineInv => FloorEnforced
  <2> SUFFICES ASSUME EngineInv, pc = "report", report.decision # "FAIL", NEW s \in Floor
               PROVE  /\ s \in DOMAIN report.scanners /\ report.scanners[s].status # "skipped"
                      /\ report.scanners[s].status = "failed" => s \in DOMAIN effective["scannerFailureModes"]
    BY FloorIsFinite DEF FloorEnforced
  <2>1. Reported /\ report.scanners = results /\ DOMAIN results = Scanners
    BY DEF EngineInv, Gated, Types, Reported
  <2>2. ~ Blocked
    <3>1. Rank["PASS"] = 0 /\ Rank["WARN"] = 1 /\ Rank["FAIL"] = 2  BY DEF Rank
    <3>2. Declared # "FAIL"  BY <2>1, <3>1 DEF Reported, Decisions
    <3> QED  BY <3>2 DEF Declared
  <2>3. s \in Required /\ s \in Present  BY <2>2 DEF EngineInv, Floored, Blocked
  <2>4. results[s].status = "failed" => Mode(s) # "fail"  BY <2>2, <2>3 DEF Blocked, FailedAs, Present
  <2> QED  BY <2>1, <2>3, <2>4 DEF Present, Mode
<1> QED  BY <1>1, InductiveEngine, PTL

\* What a document has locked stays, whatever documents come later (changesLockedField).
THEOREM LocksAreKept == Spec => LocksHold
<1> DEFINE Kept == \A f \in locked :
       \/ effective'[f] = effective[f]
       \/ f = "requiredScanners" /\ ToSet(effective'[f]) = ToSet(effective[f]) \cup Floor
<1>1. EngineInv /\ [Next]_vars => [Kept]_vars
  <2> SUFFICES ASSUME EngineInv, Next PROVE Kept  OBVIOUS
  <2>1. CASE UNCHANGED effective  BY <2>1
  <2>2. CASE ApplyDocument /\ ~ UNCHANGED effective
    <3>1. PICK i \in DOMAIN documents : /\ effective' = [f \in Fields |-> Value(documents[i], f)]
                                        /\ ~ \E f \in locked : ChangesLockedField(f, documents[i])
      BY <2>2 DEF ApplyDocument, Throw, resolution
    <3>2. \A f \in locked : f \in Fields  BY DEF EngineInv, Policy
    <3> QED  BY <3>1, <3>2 DEF ChangesLockedField
  <2>3. CASE AddFloor
    BY <2>3, FloorAdded DEF EngineInv, Policy
  <2>4. ApplyDocument \/ AddFloor \/ UNCHANGED effective
    BY DEF Next, RunScan, Settle, TimeOut, LateResult, AllSettled, LoadPolicyDocuments, LoadWaivers, EvaluatePolicy,
           SkipOpa, OpaAnswers, ReleaseCheck, Tick, Done, Throw, resolution, vars
  <2> QED  BY <2>1, <2>2, <2>3, <2>4
<1> QED  BY <1>1, InductiveEngine, PTL DEF Spec, LocksHold

\* The first answer of a scanner or of its timer stands (runOne).
THEOREM FirstAnswersStand == Spec => FirstAnswerStands
<1> DEFINE Stands == \A s \in Scanners : results[s] # None => results'[s] = results[s]
<1>1. EngineInv /\ [Next]_vars => [Stands]_vars
  <2> SUFFICES ASSUME EngineInv, Next PROVE Stands  OBVIOUS
  <2>1. ASSUME NEW s \in Scanners, Settle(s) \/ TimeOut(s) PROVE Stands
    <3>1. results[s] = None /\ \A x \in Scanners \ {s} : results'[x] = results[x]
      BY <2>1 DEF Settle, TimeOut, EngineInv, Answered, Types
    <3> QED  BY <3>1
  <2>2. (\E s \in Scanners : Settle(s) \/ TimeOut(s)) \/ UNCHANGED results
    BY DEF Next, RunScan, LateResult, AllSettled, LoadPolicyDocuments, ApplyDocument, AddFloor, LoadWaivers,
           EvaluatePolicy, SkipOpa, OpaAnswers, ReleaseCheck, Tick, Done, Throw, vars
  <2> QED  BY <2>1, <2>2
<1> QED  BY <1>1, InductiveEngine, PTL DEF Spec, FirstAnswerStands
=============================================================================
