-------------------------- MODULE SupplyChainProofs --------------------------
(***************************************************************************)
(* Proofs about SupplyChain, for any files, profiles, documents, databases *)
(* and answers: what the operators of SupplyInventory compute of documents *)
(* of any length is what their readers expect; and whatever is written and *)
(* replaced meanwhile, a result is about what it says it is about and      *)
(* holds all that its documents say.  The folds are followed along the     *)
(* sets of places in the list; there is one closed form for each, and      *)
(* SameFold shows that two functions with the same steps are the same.     *)
(***************************************************************************)
EXTENDS SupplyChain, FiniteSetTheorems, SequenceTheorems, WellFoundedInduction, TLAPS

-----------------------------------------------------------------------------
(* Least and greatest numbers, and folds over a sequence: whatever satisfies *)
(* the equation of a fold for each set of places is what it computes.        *)

\* A set of natural numbers has a least element.
LEMMA Least ==
  ASSUME NEW S \in SUBSET Nat, S # {}
  PROVE  \E x \in S : \A y \in S : x <= y
<1>1. PICK R : R = OpToRel(<, Nat)  OBVIOUS
<1>2. IsWellFoundedOn(R, Nat)  BY <1>1, NatLessThanWellFounded
<1>3. PICK x \in S : \A y \in S : ~ (<<y, x>> \in R)  BY <1>2, WFMin
<1>4. \A a, b \in Nat : a < b => <<a, b>> \in R
  <2>1. R = {ss \in Nat \X Nat : ss[1] < ss[2]}  BY <1>1 DEF OpToRel
  <2> QED  BY <2>1
<1>5. ASSUME NEW y \in S PROVE x <= y
  <2>1. x \in Nat /\ y \in Nat  OBVIOUS
  <2>2. ~ (y < x)  BY <1>3, <1>4, <2>1
  <2> QED  BY <2>1, <2>2
<1> QED  BY <1>5

\* So Min chooses one.
LEMMA LeastIsMin ==
  ASSUME NEW S \in SUBSET Nat, S # {}
  PROVE  Min(S) \in S /\ \A y \in S : Min(S) <= y
<1>1. \E x \in S : \A y \in S : x <= y  BY Least
<1> QED  BY <1>1 DEF Min

\* A bounded set of natural numbers has a greatest element, which Max chooses.
LEMMA GreatestIsMax ==
  ASSUME NEW n \in Nat, NEW S \in SUBSET (0 .. n), S # {}
  PROVE  Max(S) \in S /\ \A y \in S : Max(S) >= y
<1> DEFINE rest == {n - x : x \in S}
<1>1. rest \in SUBSET Nat /\ rest # {}
  <2>1. \A x \in S : n - x \in Nat  OBVIOUS
  <2> QED  BY <2>1
<1>2. PICK d \in rest : \A e \in rest : d <= e  BY <1>1, Least
<1>3. PICK x \in S : d = n - x  OBVIOUS
<1>4. ASSUME NEW y \in S PROVE x >= y
  <2>1. n - x <= n - y  BY <1>2, <1>3
  <2> QED  BY <2>1
<1>5. \E z \in S : \A y \in S : z >= y  BY <1>4
<1> QED  BY <1>5 DEF Max

\* Two functions on sets of places agree if they do so on the empty set and
\* whenever they agree without the last place.
StepsAgree(f, g, n) ==
  /\ f[{}] = g[{}]
  /\ \A S \in SUBSET (1 .. n) : S # {} /\ f[S \ {Max(S)}] = g[S \ {Max(S)}] => f[S] = g[S]

LEMMA SameFold ==
  ASSUME NEW n \in Nat, NEW f, NEW g, StepsAgree(f, g, n)
  PROVE  f[1 .. n] = g[1 .. n]
<1> DEFINE D == 1 .. n
<1>1. \A S \in SUBSET D : IsFiniteSet(S) /\ Cardinality(S) \in Nat
  <2>1. IsFiniteSet(D)  BY FS_Interval
  <2> QED  BY <2>1, FS_Subset, FS_CardinalityType
<1> DEFINE wrong == {Cardinality(S) : S \in {T \in SUBSET D : f[T] # g[T]}}
<1> SUFFICES ASSUME wrong # {} PROVE FALSE
  <2>1. \A S \in SUBSET D : f[S] = g[S]  OBVIOUS
  <2> QED  BY <2>1
<1>2. wrong \in SUBSET Nat  BY <1>1
<1>3. PICK k \in wrong : \A l \in wrong : k <= l  BY <1>2, Least
<1>4. PICK S \in SUBSET D : f[S] # g[S] /\ Cardinality(S) = k  BY <1>3
<1>5. S # {}  BY <1>4 DEF StepsAgree
<1>6. PICK m \in S : m = Max(S)
  <2>1. S \in SUBSET (0 .. n)  OBVIOUS
  <2> QED  BY <1>5, <2>1, GreatestIsMax
<1>7. Cardinality(S \ {m}) = k - 1 /\ k \in Nat  BY <1>1, <1>4, FS_RemoveElement
<1>8. f[S \ {m}] = g[S \ {m}]  BY <1>3, <1>7
<1> QED  BY <1>4, <1>5, <1>6, <1>8 DEF StepsAgree

\* One number more.
LEMMA MaxWith ==
  ASSUME NEW n \in Nat, NEW S \in SUBSET (0 .. n), S # {}, NEW x \in 0 .. n
  PROVE  Max(S \cup {x}) = IF x > Max(S) THEN x ELSE Max(S)
<1>1. Max(S) \in S /\ \A y \in S : Max(S) >= y  BY GreatestIsMax
<1>2. PICK T : T = S \cup {x}  OBVIOUS
<1>3. Max(T) \in T /\ \A y \in T : Max(T) >= y  BY <1>2, GreatestIsMax
<1>4. Max(S) \in 0 .. n /\ Max(T) \in 0 .. n  BY <1>1, <1>2, <1>3
<1>5. Max(T) >= x /\ Max(T) >= Max(S) /\ (Max(T) = x \/ Max(S) >= Max(T))  BY <1>1, <1>2, <1>3
<1> QED  BY <1>2, <1>4, <1>5

LEMMA MaxOfOne == ASSUME NEW x \in Nat PROVE Max({x}) = x
<1>1. Max({x}) \in {x}  BY GreatestIsMax
<1> QED  BY <1>1

-----------------------------------------------------------------------------
(* Matches.                                                                *)

KeyOf(match) == <<match.id, match.purl>>
At(matches, S, key) == {i \in S : KeyOf(matches[i]) = key}
Severities(matches, S, key) == {severity(matches[i].severity) : i \in At(matches, S, key)}
Fixes(matches, S, key) == UNION {matches[i].fixes : i \in At(matches, S, key)}

\* The findings that the matches at the places S make.
Merged(matches, S) ==
  [key \in {KeyOf(matches[i]) : i \in S} |->
     [severity |-> Max(Severities(matches, S, key)), fixes |-> Fixes(matches, S, key)]]

\* The fold, as a recursive function on the sets of places.
MatchFold(fold, matches) ==
  fold = [S \in SUBSET DOMAIN matches |->
            IF S = {} THEN <<>> ELSE AddMatch(fold[S \ {Max(S)}], matches[Max(S)])]

LEMMA FindingsAreFold ==
  ASSUME NEW matches
  PROVE  findingsFromGrype(matches) = (CHOOSE fold : MatchFold(fold, matches))[DOMAIN matches]
BY DEF findingsFromGrype, FoldLeft, MapThenFoldSet, MatchFold

LEMMA SeveritiesBounded ==
  ASSUME NEW matches, NEW S, NEW key
  PROVE  Severities(matches, S, key) \in SUBSET (0 .. 4)
BY DEF Severities, severity

\* One match more.
LEMMA OneMatch ==
  ASSUME NEW matches, NEW S, NEW m \in S
  PROVE  Merged(matches, S) = AddMatch(Merged(matches, S \ {m}), matches[m])
<1> DEFINE T == S \ {m}
           k == KeyOf(matches[m])
           s == severity(matches[m].severity)
           next == [severity |-> s, fixes |-> matches[m].fixes]
           old == Merged(matches, T)
           new == Merged(matches, S)
<1>1. DOMAIN new = DOMAIN old \cup {k}  BY DEF Merged
<1>2. ASSUME NEW key \in DOMAIN old, key # k PROVE new[key] = old[key]
  <2>1. At(matches, S, key) = At(matches, T, key)  BY <1>2 DEF At
  <2> QED  BY <1>1, <1>2, <2>1 DEF Merged, Severities, Fixes
<1>3. At(matches, S, k) = At(matches, T, k) \cup {m}  BY DEF At
<1>4. Severities(matches, S, k) = Severities(matches, T, k) \cup {s} /\ Fixes(matches, S, k) = Fixes(matches, T, k) \cup matches[m].fixes
  BY <1>3 DEF Severities, Fixes
<1>5. new[k] = [severity |-> Max(Severities(matches, S, k)), fixes |-> Fixes(matches, S, k)]
  BY <1>1 DEF Merged
<1>6. s \in 0 .. 4  BY DEF severity
<1>7. CASE k \notin DOMAIN old
  <2>1. At(matches, T, k) = {}  BY <1>7 DEF At, Merged
  <2>2. Severities(matches, S, k) = {s} /\ Fixes(matches, S, k) = matches[m].fixes
    BY <1>4, <2>1 DEF Severities, Fixes
  <2>3. new[k] = next  BY <1>5, <1>6, <2>2, MaxOfOne
  <2>4. new = Bind(old, k, next)
    <3>1. new = [key \in DOMAIN old \cup {k} |-> IF key = k THEN next ELSE old[key]]
      BY <1>1, <1>2, <2>3 DEF Merged
    <3> QED  BY <3>1 DEF Bind
  <2> QED  BY <1>7, <2>4 DEF AddMatch, KeyOf
<1>8. CASE k \in DOMAIN old
  <2> DEFINE both == [severity |-> IF s > old[k].severity THEN s ELSE old[k].severity,
                      fixes |-> old[k].fixes \cup matches[m].fixes]
  <2>1. At(matches, T, k) # {}  BY <1>8 DEF At, Merged
  <2>2. PICK Q : Q = Severities(matches, T, k)  OBVIOUS
  <2>3. Q # {} /\ Q \in SUBSET (0 .. 4)  BY <2>1, <2>2, SeveritiesBounded DEF Severities
  <2>4. Max(Q \cup {s}) = IF s > Max(Q) THEN s ELSE Max(Q)  BY <1>6, <2>3, MaxWith
  <2>5. old[k].severity = Max(Q) /\ old[k].fixes = Fixes(matches, T, k)  BY <1>8, <2>2 DEF Merged
  <2>6. new[k] = both  BY <1>4, <1>5, <2>2, <2>4, <2>5
  <2>7. new = Bind(old, k, both)
    <3>1. new = [key \in DOMAIN old \cup {k} |-> IF key = k THEN both ELSE old[key]]
      BY <1>1, <1>2, <2>6 DEF Merged
    <3> QED  BY <3>1 DEF Bind
  <2> QED  BY <1>8, <2>7 DEF AddMatch, KeyOf
<1> QED  BY <1>7, <1>8

LEMMA FindingsMerged ==
  ASSUME NEW matches, matches \in Seq(ToSet(matches))
  PROVE  findingsFromGrype(matches) = Merged(matches, DOMAIN matches)
<1>1. PICK n \in Nat : n = Len(matches) /\ DOMAIN matches = 1 .. n  BY LenProperties
<1>2. \A S \in SUBSET (1 .. n) : S # {} => Max(S) \in S
  <2>1. \A S \in SUBSET (1 .. n) : S \in SUBSET (0 .. n)  OBVIOUS
  <2> QED  BY <2>1, GreatestIsMax
<1> DEFINE closed == [S \in SUBSET (1 .. n) |-> Merged(matches, S)]
<1>3. closed[{}] = <<>>
  BY DEF Merged
<1>4. \A S \in SUBSET (1 .. n) : S # {} => closed[S] = AddMatch(closed[S \ {Max(S)}], matches[Max(S)])
  BY <1>2, OneMatch
<1> HIDE DEF closed
<1>5. closed = [S \in SUBSET (1 .. n) |->
                  IF S = {} THEN <<>> ELSE AddMatch(closed[S \ {Max(S)}], matches[Max(S)])]
  BY <1>3, <1>4 DEF closed
<1>6. PICK fold : MatchFold(fold, matches) /\ findingsFromGrype(matches) = fold[DOMAIN matches]
  <2>1. \E fold : MatchFold(fold, matches)  BY <1>1, <1>5 DEF MatchFold
  <2> QED  BY <2>1, FindingsAreFold
<1>7. \A S \in SUBSET (1 .. n) :
        fold[S] = IF S = {} THEN <<>> ELSE AddMatch(fold[S \ {Max(S)}], matches[Max(S)])
  BY <1>1, <1>6 DEF MatchFold
<1>8. fold[1 .. n] = closed[1 .. n]
  <2>1. fold[{}] = closed[{}]  BY <1>3, <1>7
  <2>2. \A S \in SUBSET (1 .. n) : S # {} /\ fold[S \ {Max(S)}] = closed[S \ {Max(S)}] => fold[S] = closed[S]
    BY <1>4, <1>7
  <2>3. StepsAgree(fold, closed, n)  BY <2>1, <2>2 DEF StepsAgree
  <2> QED  BY <2>3, SameFold
<1> QED  BY <1>1, <1>6, <1>8 DEF closed

\* Every match is in a finding, and a finding has the highest severity and all
\* the fixes of its matches, however many there are and in whatever order.
LEMMA FindingsAreComplete ==
  ASSUME NEW matches, matches \in Seq(ToSet(matches))
  PROVE  FindingsComplete(findingsFromGrype(matches), matches)
<1> DEFINE D == DOMAIN matches
<1>1. DOMAIN Merged(matches, D) = {<<e.id, e.purl>> : e \in ToSet(matches)}
  BY DEF Merged, KeyOf, ToSet
<1>2. ASSUME NEW key
      PROVE  /\ Severities(matches, D, key) = {severity(e.severity) : e \in MatchesOf(key, matches)}
             /\ Fixes(matches, D, key) = UNION {e.fixes : e \in MatchesOf(key, matches)}
  <2>1. MatchesOf(key, matches) = {matches[i] : i \in At(matches, D, key)}
    BY DEF MatchesOf, At, KeyOf, ToSet
  <2> QED  BY <2>1 DEF Severities, Fixes
<1>3. \A key \in DOMAIN Merged(matches, D) :
        Merged(matches, D)[key] = [severity |-> Max(Severities(matches, D, key)), fixes |-> Fixes(matches, D, key)]
  BY DEF Merged
<1>4. PICK f : f = findingsFromGrype(matches) /\ f = Merged(matches, D)  BY FindingsMerged
<1>5. ASSUME NEW key \in DOMAIN f
      PROVE  /\ f[key].severity = Max({severity(e.severity) : e \in MatchesOf(key, matches)})
             /\ f[key].fixes = UNION {e.fixes : e \in MatchesOf(key, matches)}
  <2>1. f[key] = [severity |-> Max(Severities(matches, D, key)), fixes |-> Fixes(matches, D, key)]
    BY <1>3, <1>4
  <2>2. f[key].severity = Max(Severities(matches, D, key)) /\ f[key].fixes = Fixes(matches, D, key)
    BY <2>1
  <2> HIDE DEF D
  <2> QED  BY <1>2, <2>2, Zenon
<1>7. DOMAIN f = {<<e.id, e.purl>> : e \in ToSet(matches)}  BY <1>1, <1>4
<1> HIDE DEF D
<1> QED  BY <1>4, <1>5, <1>7 DEF FindingsComplete

-----------------------------------------------------------------------------
(* Entries of lock files.                                                  *)

\* The least place does not change with one above all others.
LEMMA MinWith ==
  ASSUME NEW S \in SUBSET Nat, S # {}, NEW m \in Nat, \A y \in S : y <= m
  PROVE  Min(S \cup {m}) = Min(S)
<1>1. Min(S) \in S /\ \A y \in S : Min(S) <= y  BY LeastIsMin
<1>2. PICK T : T = S \cup {m}  OBVIOUS
<1>3. Min(T) \in T /\ \A y \in T : Min(T) <= y  BY <1>2, LeastIsMin
<1>4. Min(S) \in Nat /\ Min(T) \in Nat /\ Min(T) <= Min(S) /\ Min(S) <= Min(T)  BY <1>1, <1>2, <1>3
<1> QED  BY <1>1, <1>2, <1>3, <1>4

LEMMA MinOfOne == ASSUME NEW x \in Nat PROVE Min({x}) = x
<1>1. Min({x}) \in {x}  BY LeastIsMin
<1> QED  BY <1>1

PlacesOf(lock, S, p) == {i \in S : Identity(lock[i]) = p}
DirectPlaces(lock, S, p) == {i \in PlacesOf(lock, S, p) : lock[i].direct}

\* The place of the entry that counts: the first direct one, or else the first.
Chosen(lock, S, p) ==
  Min(IF DirectPlaces(lock, S, p) # {} THEN DirectPlaces(lock, S, p) ELSE PlacesOf(lock, S, p))

Kept(lock, S) == [p \in {Identity(lock[i]) : i \in S} |-> lock[Chosen(lock, S, p)]]

LockFold(fold, lock) ==
  fold = [S \in SUBSET DOMAIN lock |->
            IF S = {} THEN <<>> ELSE AddEntry(fold[S \ {Max(S)}], lock[Max(S)])]

LEMMA UniqIsFold ==
  ASSUME NEW lock
  PROVE  uniq(lock) = (CHOOSE fold : LockFold(fold, lock))[DOMAIN lock]
BY DEF uniq, FoldLeft, MapThenFoldSet, LockFold

\* The entry that counts is one of the package, direct if one of them is.
LEMMA ChosenPlace ==
  ASSUME NEW lock, NEW S \in SUBSET Nat, NEW p, PlacesOf(lock, S, p) # {}
  PROVE  /\ Chosen(lock, S, p) \in PlacesOf(lock, S, p)
         /\ lock[Chosen(lock, S, p)].direct <=> DirectPlaces(lock, S, p) # {}
<1>1. CASE DirectPlaces(lock, S, p) # {}
  <2>1. DirectPlaces(lock, S, p) \in SUBSET Nat  BY DEF DirectPlaces, PlacesOf
  <2>2. Chosen(lock, S, p) \in DirectPlaces(lock, S, p)  BY <1>1, <2>1, LeastIsMin DEF Chosen
  <2> QED  BY <1>1, <2>2 DEF DirectPlaces
<1>2. CASE DirectPlaces(lock, S, p) = {}
  <2>1. PlacesOf(lock, S, p) \in SUBSET Nat  BY DEF PlacesOf
  <2>2. Chosen(lock, S, p) \in PlacesOf(lock, S, p)  BY <1>2, <2>1, LeastIsMin DEF Chosen
  <2> QED  BY <1>2, <2>2 DEF DirectPlaces
<1> QED  BY <1>1, <1>2

\* One entry more, after all others.
LEMMA OneEntry ==
  ASSUME NEW lock, NEW S \in SUBSET Nat, NEW m \in S, \A i \in S : i <= m
  PROVE  Kept(lock, S) = AddEntry(Kept(lock, S \ {m}), lock[m])
<1> DEFINE T == S \ {m}
           e == lock[m]
           p == Identity(e)
           old == Kept(lock, T)
           new == Kept(lock, S)
<1>0. m \in Nat /\ T \in SUBSET Nat  OBVIOUS
<1>1. DOMAIN new = DOMAIN old \cup {p}  BY DEF Kept
<1>2. ASSUME NEW q \in DOMAIN old, q # p PROVE new[q] = old[q]
  <2>1. PlacesOf(lock, S, q) = PlacesOf(lock, T, q)  BY <1>2 DEF PlacesOf
  <2>2. Chosen(lock, S, q) = Chosen(lock, T, q)  BY <2>1 DEF Chosen, DirectPlaces
  <2> QED  BY <1>1, <1>2, <2>2 DEF Kept
<1>3. PlacesOf(lock, S, p) = PlacesOf(lock, T, p) \cup {m}  BY DEF PlacesOf
<1>4. DirectPlaces(lock, S, p) = IF e.direct THEN DirectPlaces(lock, T, p) \cup {m} ELSE DirectPlaces(lock, T, p)
  BY <1>3 DEF DirectPlaces
<1>5. new[p] = lock[Chosen(lock, S, p)]  BY <1>1 DEF Kept
<1>6. ASSUME Chosen(lock, S, p) = m PROVE new = Bind(old, p, e)
  <2>1. new = [q \in DOMAIN old \cup {p} |-> IF q = p THEN e ELSE old[q]]
    BY <1>1, <1>2, <1>5, <1>6 DEF Kept
  <2> QED  BY <2>1 DEF Bind
<1>7. ASSUME p \in DOMAIN old, Chosen(lock, S, p) = Chosen(lock, T, p) PROVE new = old
  <2>1. new[p] = old[p]  BY <1>5, <1>7 DEF Kept
  <2>2. DOMAIN new = DOMAIN old  BY <1>1, <1>7
  <2> QED  BY <1>2, <2>1, <2>2 DEF Kept
<1>8. CASE p \notin DOMAIN old
  <2>1. PlacesOf(lock, T, p) = {} /\ DirectPlaces(lock, T, p) = {}  BY <1>8 DEF PlacesOf, DirectPlaces, Kept
  <2>2. Chosen(lock, S, p) = m  BY <1>0, <1>3, <1>4, <2>1, MinOfOne DEF Chosen
  <2> QED  BY <1>6, <1>8, <2>2 DEF AddEntry
<1>9. CASE p \in DOMAIN old
  <2>1. PlacesOf(lock, T, p) # {}  BY <1>9 DEF PlacesOf, Kept
  <2>2. old[p].direct <=> DirectPlaces(lock, T, p) # {}  BY <1>0, <1>9, <2>1, ChosenPlace DEF Kept
  <2>3. CASE old[p].direct
    <3>1. DirectPlaces(lock, T, p) # {} /\ DirectPlaces(lock, T, p) \in SUBSET Nat
      BY <1>0, <2>2, <2>3 DEF DirectPlaces, PlacesOf
    <3>2. \A i \in DirectPlaces(lock, T, p) : i <= m  BY DEF DirectPlaces, PlacesOf
    <3>3. Min(DirectPlaces(lock, T, p) \cup {m}) = Min(DirectPlaces(lock, T, p))  BY <1>0, <3>1, <3>2, MinWith
    <3>4. Chosen(lock, S, p) = Chosen(lock, T, p)  BY <1>4, <3>1, <3>3 DEF Chosen
    <3> QED  BY <1>7, <1>9, <2>3, <3>4 DEF AddEntry
  <2>4. CASE ~old[p].direct /\ ~e.direct
    <3>1. DirectPlaces(lock, T, p) = {} /\ DirectPlaces(lock, S, p) = {}  BY <1>4, <2>2, <2>4
    <3>2. PlacesOf(lock, T, p) \in SUBSET Nat /\ \A i \in PlacesOf(lock, T, p) : i <= m  BY <1>0 DEF PlacesOf
    <3>3. Min(PlacesOf(lock, T, p) \cup {m}) = Min(PlacesOf(lock, T, p))  BY <1>0, <2>1, <3>2, MinWith
    <3>4. Chosen(lock, S, p) = Chosen(lock, T, p)  BY <1>3, <3>1, <3>3 DEF Chosen
    <3> QED  BY <1>7, <1>9, <2>4, <3>4 DEF AddEntry
  <2>5. CASE ~old[p].direct /\ e.direct
    <3>1. DirectPlaces(lock, S, p) = {m}  BY <1>4, <2>2, <2>5
    <3>2. Chosen(lock, S, p) = m  BY <1>0, <3>1, MinOfOne DEF Chosen
    <3> QED  BY <1>6, <1>9, <2>5, <3>2 DEF AddEntry
  <2> QED  BY <2>3, <2>4, <2>5
<1> QED  BY <1>8, <1>9

LEMMA UniqKeeps ==
  ASSUME NEW lock, lock \in Seq(ToSet(lock))
  PROVE  uniq(lock) = Kept(lock, DOMAIN lock)
<1>1. PICK n \in Nat : n = Len(lock) /\ DOMAIN lock = 1 .. n  BY LenProperties
<1>2. \A S \in SUBSET (1 .. n) : S # {} => S \in SUBSET Nat /\ Max(S) \in S /\ \A i \in S : i <= Max(S)
  <2>1. \A S \in SUBSET (1 .. n) : S \in SUBSET (0 .. n) /\ S \in SUBSET Nat  OBVIOUS
  <2>2. \A S \in SUBSET (1 .. n) : S # {} => Max(S) \in S /\ \A i \in S : Max(S) >= i  BY <2>1, GreatestIsMax
  <2> QED  BY <2>1, <2>2
<1> DEFINE closed == [S \in SUBSET (1 .. n) |-> Kept(lock, S)]
<1>3. closed[{}] = <<>>
  BY DEF Kept
<1>4. \A S \in SUBSET (1 .. n) : S # {} => closed[S] = AddEntry(closed[S \ {Max(S)}], lock[Max(S)])
  BY <1>2, OneEntry
<1> HIDE DEF closed
<1>5. closed = [S \in SUBSET (1 .. n) |->
                  IF S = {} THEN <<>> ELSE AddEntry(closed[S \ {Max(S)}], lock[Max(S)])]
  BY <1>3, <1>4 DEF closed
<1>6. PICK fold : LockFold(fold, lock) /\ uniq(lock) = fold[DOMAIN lock]
  <2>1. \E fold : LockFold(fold, lock)  BY <1>1, <1>5 DEF LockFold
  <2> QED  BY <2>1, UniqIsFold
<1>7. \A S \in SUBSET (1 .. n) :
        fold[S] = IF S = {} THEN <<>> ELSE AddEntry(fold[S \ {Max(S)}], lock[Max(S)])
  BY <1>1, <1>6 DEF LockFold
<1>8. fold[1 .. n] = closed[1 .. n]
  <2>1. fold[{}] = closed[{}]  BY <1>3, <1>7
  <2>2. \A S \in SUBSET (1 .. n) : S # {} /\ fold[S \ {Max(S)}] = closed[S \ {Max(S)}] => fold[S] = closed[S]
    BY <1>4, <1>7
  <2>3. StepsAgree(fold, closed, n)  BY <2>1, <2>2 DEF StepsAgree
  <2> QED  BY <2>3, SameFold
<1> QED  BY <1>1, <1>6, <1>8 DEF closed

\* Every package of the lock files is kept, as one of its entries describes it,
\* and as direct if one of them does.
LEMMA UniqOf ==
  ASSUME NEW lock, lock \in Seq(ToSet(lock))
  PROVE  /\ DOMAIN uniq(lock) = Identities(lock)
         /\ \A p \in Identities(lock) :
              /\ uniq(lock)[p] \in EntriesOf(p, lock)
              /\ uniq(lock)[p].direct <=> \E entry \in EntriesOf(p, lock) : entry.direct
<1>1. PICK D : D = DOMAIN lock  OBVIOUS
<1>2. D \in SUBSET Nat
  <2>1. Len(lock) \in Nat /\ DOMAIN lock = 1 .. Len(lock)  BY LenProperties
  <2> QED  BY <1>1, <2>1
<1>3. PICK u : u = uniq(lock) /\ u = Kept(lock, D)  BY <1>1, UniqKeeps
<1>4. ToSet(lock) = {lock[i] : i \in D}  BY <1>1 DEF ToSet
<1>5. DOMAIN u = Identities(lock)  BY <1>3, <1>4 DEF Kept, Identities
<1>6. ASSUME NEW p \in Identities(lock)
      PROVE  u[p] \in EntriesOf(p, lock) /\ (u[p].direct <=> \E entry \in EntriesOf(p, lock) : entry.direct)
  <2>1. u[p] = lock[Chosen(lock, D, p)]  BY <1>3, <1>5 DEF Kept
  <2>2. PlacesOf(lock, D, p) # {}  BY <1>4 DEF PlacesOf, Identities
  <2>3. /\ Chosen(lock, D, p) \in PlacesOf(lock, D, p)
        /\ lock[Chosen(lock, D, p)].direct <=> DirectPlaces(lock, D, p) # {}
    BY <1>2, <2>2, ChosenPlace
  <2>4. EntriesOf(p, lock) = {lock[i] : i \in PlacesOf(lock, D, p)}  BY <1>4 DEF EntriesOf, PlacesOf
  <2>5. DirectPlaces(lock, D, p) # {} <=> \E entry \in EntriesOf(p, lock) : entry.direct
    BY <2>4 DEF DirectPlaces
  <2> QED  BY <2>1, <2>3, <2>4, <2>5
<1> QED  BY <1>3, <1>5, <1>6

-----------------------------------------------------------------------------
(* Components of the SBOM.                                                 *)

Relationships == {"direct", "os", "transitive", "unknown"}

\* The relationship of a set that ranks first.
Best(R) ==
  IF "direct" \in R THEN "direct" ELSE IF "os" \in R THEN "os"
  ELSE IF "transitive" \in R THEN "transitive" ELSE "unknown"

ItemsAt(sbom, S, p) == {i \in S : Reason(sbom.items[i]) = "none" /\ sbom.items[i].purl = p}
RelationsAt(sbom, S, p) == {relationshipFor(sbom.items[i], sbom) : i \in ItemsAt(sbom, S, p)}

Ranked(sbom, S) ==
  [p \in {sbom.items[i].purl : i \in {j \in S : Reason(sbom.items[j]) = "none"}} |->
     Best(RelationsAt(sbom, S, p))]

ItemFold(fold, sbom) ==
  fold = [S \in SUBSET DOMAIN sbom.items |->
            IF S = {} THEN <<>> ELSE AddComponent(fold[S \ {Max(S)}], sbom.items[Max(S)], sbom)]

LEMMA ComponentsAreFold ==
  ASSUME NEW sbom
  PROVE  inventoryFromCycloneDx(sbom).components = (CHOOSE fold : ItemFold(fold, sbom))[DOMAIN sbom.items]
BY DEF inventoryFromCycloneDx, FoldLeft, MapThenFoldSet, ItemFold

LEMMA RelationTypes == ASSUME NEW item, NEW sbom PROVE relationshipFor(item, sbom) \in Relationships
BY DEF relationshipFor, Relationships

LEMMA BestOf ==
  ASSUME NEW R \in SUBSET Relationships, R # {}
  PROVE  /\ Best(R) \in R
         /\ \A r \in Relationships :
              Best(R \cup {r}) = IF relationshipRank(r) <= relationshipRank(Best(R)) THEN Best(R) ELSE r
<1>1. /\ relationshipRank("direct") = 4 /\ relationshipRank("os") = 3
      /\ relationshipRank("transitive") = 2 /\ relationshipRank("unknown") = 1
  BY DEF relationshipRank
<1>2. Best(R) \in R  BY DEF Best, Relationships
<1>3. Best(R) \in Relationships  BY <1>2
<1>4. ASSUME NEW r \in Relationships
      PROVE  Best(R \cup {r}) = IF relationshipRank(r) <= relationshipRank(Best(R)) THEN Best(R) ELSE r
  <2>1. CASE r = "direct"  BY <1>1, <1>3, <2>1 DEF Best, Relationships
  <2>2. CASE r = "os"  BY <1>1, <1>3, <2>2 DEF Best, Relationships
  <2>3. CASE r = "transitive"  BY <1>1, <1>3, <2>3 DEF Best, Relationships
  <2>4. CASE r = "unknown"  BY <1>1, <1>2, <2>4 DEF Best, Relationships
  <2> QED  BY <2>1, <2>2, <2>3, <2>4 DEF Relationships
<1> QED  BY <1>2, <1>4

\* One component more.
LEMMA OneComponent ==
  ASSUME NEW sbom, NEW S, NEW m \in S
  PROVE  Ranked(sbom, S) = AddComponent(Ranked(sbom, S \ {m}), sbom.items[m], sbom)
<1> DEFINE T == S \ {m}
           item == sbom.items[m]
           p == item.purl
           r == relationshipFor(item, sbom)
           old == Ranked(sbom, T)
           new == Ranked(sbom, S)
<1>1. CASE Reason(item) # "none"
  <2>1. \A q : ItemsAt(sbom, S, q) = ItemsAt(sbom, T, q)  BY <1>1 DEF ItemsAt
  <2>2. {j \in S : Reason(sbom.items[j]) = "none"} = {j \in T : Reason(sbom.items[j]) = "none"}  BY <1>1
  <2>3. \A q : RelationsAt(sbom, S, q) = RelationsAt(sbom, T, q)  BY <2>1 DEF RelationsAt
  <2>4. new = old  BY <2>2, <2>3 DEF Ranked
  <2> QED  BY <1>1, <2>4 DEF AddComponent
<1>2. CASE Reason(item) = "none"
  <2>1. DOMAIN new = DOMAIN old \cup {p}  BY <1>2 DEF Ranked
  <2>2. ASSUME NEW q \in DOMAIN old, q # p PROVE new[q] = old[q]
    <3>1. ItemsAt(sbom, S, q) = ItemsAt(sbom, T, q)  BY <2>2 DEF ItemsAt
    <3>2. RelationsAt(sbom, S, q) = RelationsAt(sbom, T, q)  BY <3>1 DEF RelationsAt
    <3> QED  BY <2>1, <2>2, <3>2 DEF Ranked
  <2>3. ItemsAt(sbom, S, p) = ItemsAt(sbom, T, p) \cup {m}  BY <1>2 DEF ItemsAt
  <2>4. RelationsAt(sbom, S, p) = RelationsAt(sbom, T, p) \cup {r}  BY <2>3 DEF RelationsAt
  <2>5. r \in Relationships /\ new[p] = Best(RelationsAt(sbom, T, p) \cup {r})  BY <2>1, <2>4, RelationTypes DEF Ranked
  <2>6. ASSUME new[p] = r PROVE new = Bind(old, p, r)
    <3>1. new = [q \in DOMAIN old \cup {p} |-> IF q = p THEN r ELSE old[q]]
      BY <2>1, <2>2, <2>6 DEF Ranked
    <3> QED  BY <3>1 DEF Bind
  <2>7. CASE p \notin DOMAIN old
    <3>1. RelationsAt(sbom, T, p) = {}  BY <2>7 DEF RelationsAt, ItemsAt, Ranked
    <3>2. new[p] = r  BY <2>5, <3>1 DEF Best, Relationships
    <3> QED  BY <1>2, <2>6, <2>7, <3>2 DEF AddComponent
  <2>8. CASE p \in DOMAIN old
    <3>1. PICK R : R = RelationsAt(sbom, T, p)  OBVIOUS
    <3>2. R \in SUBSET Relationships /\ R # {}  BY <2>8, <3>1, RelationTypes DEF RelationsAt, ItemsAt, Ranked
    <3>3. old[p] = Best(R)  BY <2>8, <3>1 DEF Ranked
    <3>4. new[p] = IF relationshipRank(r) <= relationshipRank(old[p]) THEN old[p] ELSE r
      BY <2>5, <3>1, <3>2, <3>3, BestOf
    <3>5. CASE relationshipRank(r) <= relationshipRank(old[p])
      <4>1. new[p] = old[p] /\ DOMAIN new = DOMAIN old  BY <2>1, <2>8, <3>4, <3>5
      <4>2. new = old  BY <2>2, <4>1 DEF Ranked
      <4> QED  BY <2>8, <3>5, <4>2 DEF AddComponent
    <3>6. CASE ~ (relationshipRank(r) <= relationshipRank(old[p]))
      BY <1>2, <2>6, <2>8, <3>4, <3>6 DEF AddComponent
    <3> QED  BY <3>5, <3>6
  <2> QED  BY <2>7, <2>8
<1> QED  BY <1>1, <1>2

LEMMA ComponentsRanked ==
  ASSUME NEW sbom, sbom.items \in Seq(ToSet(sbom.items))
  PROVE  inventoryFromCycloneDx(sbom).components = Ranked(sbom, DOMAIN sbom.items)
<1>1. PICK n \in Nat : n = Len(sbom.items) /\ DOMAIN sbom.items = 1 .. n
  <2>1. PICK seq : seq = sbom.items  OBVIOUS
  <2>2. Len(seq) \in Nat /\ DOMAIN seq = 1 .. Len(seq)  BY <2>1, LenProperties
  <2> QED  BY <2>1, <2>2
<1>2. \A S \in SUBSET (1 .. n) : S # {} => Max(S) \in S
  <2>1. \A S \in SUBSET (1 .. n) : S \in SUBSET (0 .. n)  OBVIOUS
  <2> QED  BY <2>1, GreatestIsMax
<1> DEFINE closed == [S \in SUBSET (1 .. n) |-> Ranked(sbom, S)]
<1>3. closed[{}] = <<>>
  BY DEF Ranked
<1>4. \A S \in SUBSET (1 .. n) : S # {} => closed[S] = AddComponent(closed[S \ {Max(S)}], sbom.items[Max(S)], sbom)
  BY <1>2, OneComponent
<1> HIDE DEF closed
<1>5. closed = [S \in SUBSET (1 .. n) |->
                  IF S = {} THEN <<>> ELSE AddComponent(closed[S \ {Max(S)}], sbom.items[Max(S)], sbom)]
  BY <1>3, <1>4 DEF closed
<1>6. PICK fold : ItemFold(fold, sbom) /\ inventoryFromCycloneDx(sbom).components = fold[DOMAIN sbom.items]
  <2>1. \E fold : ItemFold(fold, sbom)  BY <1>1, <1>5 DEF ItemFold
  <2> QED  BY <2>1, ComponentsAreFold
<1>7. \A S \in SUBSET (1 .. n) :
        fold[S] = IF S = {} THEN <<>> ELSE AddComponent(fold[S \ {Max(S)}], sbom.items[Max(S)], sbom)
  BY <1>1, <1>6 DEF ItemFold
<1>8. fold[1 .. n] = closed[1 .. n]
  <2>1. fold[{}] = closed[{}]  BY <1>3, <1>7
  <2>2. \A S \in SUBSET (1 .. n) : S # {} /\ fold[S \ {Max(S)}] = closed[S \ {Max(S)}] => fold[S] = closed[S]
    BY <1>4, <1>7
  <2>3. StepsAgree(fold, closed, n)  BY <2>1, <2>2 DEF StepsAgree
  <2> QED  BY <2>3, SameFold
<1> QED  BY <1>1, <1>6, <1>8 DEF closed

\* A package is in the inventory if one of its components can be normalised,
\* with the relationship of them that ranks first.
LEMMA InventoryOf ==
  ASSUME NEW sbom, sbom.items \in Seq(ToSet(sbom.items)), NEW inventory, inventory = inventoryFromCycloneDx(sbom)
  PROVE  /\ DOMAIN inventory.components = {p \in {item.purl : item \in ToSet(sbom.items)} : ComponentsOf(p, sbom) # {}}
         /\ \A p \in DOMAIN inventory.components :
              inventory.components[p] = Best({relationshipFor(item, sbom) : item \in ComponentsOf(p, sbom)})
<1>1. PICK D : D = DOMAIN sbom.items  OBVIOUS
<1>2. PICK u : u = inventory.components /\ u = Ranked(sbom, D)  BY <1>1, ComponentsRanked
<1>3. ToSet(sbom.items) = {sbom.items[i] : i \in D}  BY <1>1 DEF ToSet
<1>4. \A p : ComponentsOf(p, sbom) = {sbom.items[i] : i \in ItemsAt(sbom, D, p)}  BY <1>3 DEF ComponentsOf, ItemsAt
<1>5. DOMAIN u = {p \in {item.purl : item \in ToSet(sbom.items)} : ComponentsOf(p, sbom) # {}}
  <2>1. \A p : ComponentsOf(p, sbom) # {} <=> p \in {sbom.items[i].purl : i \in {j \in D : Reason(sbom.items[j]) = "none"}}
    BY <1>3 DEF ComponentsOf
  <2>2. DOMAIN u = {sbom.items[i].purl : i \in {j \in D : Reason(sbom.items[j]) = "none"}}  BY <1>2 DEF Ranked
  <2>3. DOMAIN u \subseteq {item.purl : item \in ToSet(sbom.items)}  BY <1>3, <2>2
  <2> QED  BY <2>1, <2>2, <2>3
<1>6. \A p : RelationsAt(sbom, D, p) = {relationshipFor(item, sbom) : item \in ComponentsOf(p, sbom)}
  BY <1>4 DEF RelationsAt
<1>7. ASSUME NEW p \in DOMAIN u
      PROVE  u[p] = Best({relationshipFor(item, sbom) : item \in ComponentsOf(p, sbom)})
  BY <1>2, <1>6 DEF Ranked
<1> QED  BY <1>2, <1>5, <1>7

\* A component has the identity of one of those that it stands for.
LEMMA IdentityOf ==
  ASSUME NEW sbom, IsSbom(sbom), NEW inventory, inventory = inventoryFromCycloneDx(sbom),
         NEW p \in DOMAIN inventory.components
  PROVE  inventory.identities[p] \in {Identity(item) : item \in ComponentsOf(p, sbom)}
<1>1. PICK S : S = {i \in DOMAIN sbom.items : Reason(sbom.items[i]) = "none" /\ sbom.items[i].purl = p}  OBVIOUS
<1>2. ComponentsOf(p, sbom) = {sbom.items[i] : i \in S}  BY <1>1 DEF ComponentsOf, ToSet
<1>3. S # {}  BY <1>2, InventoryOf DEF IsSbom, IsList
<1>4. S \in SUBSET Nat
  <2>1. PICK seq : seq = sbom.items  OBVIOUS
  <2>2. Len(seq) \in Nat /\ DOMAIN seq = 1 .. Len(seq)  BY <2>1, LenProperties DEF IsSbom, IsList
  <2> QED  BY <1>1, <2>1, <2>2
<1>5. Min(S) \in S  BY <1>3, <1>4, LeastIsMin
<1>6. inventory.identities[p] = Identity(sbom.items[Min(S)])  BY <1>1 DEF inventoryFromCycloneDx
<1> QED  BY <1>2, <1>5, <1>6

\* One key is of one reason, purl, and name and version unless the ecosystem is the reason.
LEMMA KeysTell ==
  ASSUME NEW item, NEW other, UnresolvedKey(item) = UnresolvedKey(other),
         Reason(item) # "none", Reason(other) # "none"
  PROVE  StandsFor(other, item)
<1>1. \A i : Reason(i) \in {"missing-purl", "missing-version", "unsupported-ecosystem", "none"}  BY DEF Reason
<1>2. \A i : Reason(i) = "missing-purl" => i.purl = Absent  BY DEF Reason
<1>3. \A i : Reason(i) = "missing-version" => i.version = Absent  BY DEF Reason
<1>4. /\ \A i : Reason(i) = "missing-purl" => UnresolvedKey(i) = <<"missing-purl", i.name, i.version>>
      /\ \A i : Reason(i) = "missing-version" => UnresolvedKey(i) = <<"missing-version", i.name, i.purl>>
      /\ \A i : Reason(i) = "unsupported-ecosystem" => UnresolvedKey(i) = <<"unsupported-ecosystem", i.purl>>
  BY DEF UnresolvedKey
<1>5. UnresolvedKey(item)[1] = Reason(item) /\ UnresolvedKey(other)[1] = Reason(other)  BY <1>1, <1>4
<1>6. Reason(other) = Reason(item)  BY <1>5
<1>7. CASE Reason(item) = "missing-purl"  BY <1>2, <1>4, <1>6, <1>7 DEF StandsFor
<1>8. CASE Reason(item) = "missing-version"  BY <1>3, <1>4, <1>6, <1>8 DEF StandsFor
<1>9. CASE Reason(item) = "unsupported-ecosystem"  BY <1>4, <1>6, <1>9 DEF StandsFor
<1> QED  BY <1>1, <1>7, <1>8, <1>9

\* Of each component that cannot be normalised one is kept that stands for it.
LEMMA UnresolvedOf ==
  ASSUME NEW sbom, IsSbom(sbom), NEW unresolved, unresolved = inventoryFromCycloneDx(sbom).unresolved,
         NEW item \in ToSet(sbom.items), Reason(item) # "none"
  PROVE  \E key \in DOMAIN unresolved : StandsFor(unresolved[key], item)
<1>1. PICK F : F = {i \in DOMAIN sbom.items : Reason(sbom.items[i]) # "none"}  OBVIOUS
<1>2. PICK k : k = UnresolvedKey(item)  OBVIOUS
<1>3. PICK S : S = {i \in F : UnresolvedKey(sbom.items[i]) = k}  OBVIOUS
<1>4. PICK i \in S : sbom.items[i] = item  BY <1>1, <1>2, <1>3 DEF ToSet
<1>5. k \in {UnresolvedKey(sbom.items[j]) : j \in F}  BY <1>3, <1>4
<1>6. PICK n \in Nat : S \in SUBSET (0 .. n)
  <2>1. PICK seq : seq = sbom.items  OBVIOUS
  <2>2. Len(seq) \in Nat /\ DOMAIN seq = 1 .. Len(seq)  BY <2>1, LenProperties DEF IsSbom, IsList
  <2>3. S \in SUBSET (0 .. Len(seq))  BY <1>1, <1>3, <2>1, <2>2
  <2> QED  BY <2>2, <2>3
<1>7. Max(S) \in S  BY <1>4, <1>6, GreatestIsMax
<1>8. k \in DOMAIN unresolved /\ unresolved[k] = sbom.items[Max(S)]
  BY <1>1, <1>3, <1>5 DEF inventoryFromCycloneDx
<1>9. StandsFor(sbom.items[Max(S)], item)  BY <1>1, <1>2, <1>3, <1>4, <1>7, KeysTell
<1> QED  BY <1>8, <1>9

-----------------------------------------------------------------------------
(* References that can be reached.                                         *)

ChildrenOf(refs, sbom) == UNION {sbom.edges[r] : r \in refs \cap DOMAIN sbom.edges}

IsRounds(rounds, sbom) ==
  rounds = [n \in Nat |-> IF n = 0 THEN DirectRefs(sbom) ELSE rounds[n - 1] \cup ChildrenOf(rounds[n - 1], sbom)]

LEMMA ReachableIsRound ==
  ASSUME NEW sbom
  PROVE  ReachableRefs(sbom) = (CHOOSE rounds : IsRounds(rounds, sbom))[Cardinality(DOMAIN sbom.edges)]
BY DEF ReachableRefs, IsRounds, ChildrenOf

\* The first rounds, up to the nth.
FirstRounds(f, n, sbom) ==
  /\ f[0] = DirectRefs(sbom)
  /\ \A k \in 1 .. n : f[k] = f[k - 1] \cup ChildrenOf(f[k - 1], sbom)

LEMMA RoundsUnique ==
  ASSUME NEW sbom, NEW n \in Nat, NEW f, NEW g, FirstRounds(f, n, sbom), FirstRounds(g, n, sbom)
  PROVE  \A k \in 0 .. n : f[k] = g[k]
<1> DEFINE wrong == {k \in 0 .. n : f[k] # g[k]}
<1> SUFFICES ASSUME wrong # {} PROVE FALSE  OBVIOUS
<1>0. wrong \in SUBSET Nat  OBVIOUS
<1>1. PICK k \in wrong : \A l \in wrong : k <= l  BY <1>0, Least
<1>2. k # 0  BY <1>1 DEF FirstRounds
<1>3. k \in 1 .. n /\ k - 1 \in 0 .. n /\ k - 1 \notin wrong  BY <1>1, <1>2
<1>4. f[k - 1] = g[k - 1]  BY <1>3
<1> QED  BY <1>1, <1>3, <1>4 DEF FirstRounds

LEMMA RoundsExist ==
  ASSUME NEW sbom, NEW n \in Nat
  PROVE  \E f : FirstRounds(f, n, sbom)
<1> DEFINE wrong == {k \in Nat : ~ \E f : FirstRounds(f, k, sbom)}
<1> SUFFICES ASSUME wrong # {} PROVE FALSE  OBVIOUS
<1>0. wrong \in SUBSET Nat  OBVIOUS
<1>1. PICK k \in wrong : \A l \in wrong : k <= l  BY <1>0, Least
<1>2. k # 0
  <2> DEFINE f == [i \in 0 .. 0 |-> DirectRefs(sbom)]
  <2>1. FirstRounds(f, 0, sbom)  BY DEF FirstRounds
  <2> QED  BY <1>1, <2>1
<1>3. PICK f : FirstRounds(f, k - 1, sbom)
  <2>1. k - 1 \in Nat /\ k - 1 \notin wrong  BY <1>1, <1>2
  <2> QED  BY <2>1
<1> DEFINE g == [i \in 0 .. k |-> IF i = k THEN f[k - 1] \cup ChildrenOf(f[k - 1], sbom) ELSE f[i]]
<1>4. FirstRounds(g, k, sbom)
  <2>1. g[0] = DirectRefs(sbom)  BY <1>1, <1>2, <1>3 DEF FirstRounds
  <2>2. ASSUME NEW i \in 1 .. k PROVE g[i] = g[i - 1] \cup ChildrenOf(g[i - 1], sbom)
    <3>1. g[i - 1] = f[i - 1]  BY <1>1, <2>2
    <3>2. CASE i = k  BY <1>1, <3>1, <3>2
    <3>3. CASE i # k
      <4>1. i \in 1 .. k - 1 /\ g[i] = f[i]  BY <1>1, <3>3
      <4> QED  BY <1>3, <3>1, <4>1 DEF FirstRounds
    <3> QED  BY <3>2, <3>3
  <2> HIDE DEF g
  <2> QED  BY <2>1, <2>2 DEF FirstRounds
<1> QED  BY <1>1, <1>4

\* The rounds: the direct references, and then the children of what was there.
LEMMA RoundsOf ==
  ASSUME NEW sbom
  PROVE  \E f : /\ \A n \in Nat : FirstRounds(f, n, sbom)
                /\ ReachableRefs(sbom) = f[Cardinality(DOMAIN sbom.edges)]
<1> DEFINE upTo(n) == CHOOSE f : FirstRounds(f, n, sbom)
           all == [n \in Nat |-> upTo(n)[n]]
<1>1. \A n \in Nat : FirstRounds(upTo(n), n, sbom)  BY RoundsExist
<1>2. all[0] = DirectRefs(sbom)  BY <1>1 DEF FirstRounds
<1>3. ASSUME NEW n \in Nat, n # 0 PROVE all[n] = all[n - 1] \cup ChildrenOf(all[n - 1], sbom)
  <2>1. FirstRounds(upTo(n), n, sbom) /\ FirstRounds(upTo(n - 1), n - 1, sbom)  BY <1>1, <1>3
  <2>2. PICK f, g : f = upTo(n) /\ g = upTo(n - 1)  OBVIOUS
  <2>3. all[n] = f[n] /\ all[n - 1] = g[n - 1]  BY <1>3, <2>2
  <2> HIDE DEF upTo, all
  <2>4. FirstRounds(f, n - 1, sbom)  BY <1>3, <2>1, <2>2 DEF FirstRounds
  <2>5. f[n - 1] = g[n - 1]  BY <1>3, <2>1, <2>2, <2>4, RoundsUnique
  <2>6. f[n] = f[n - 1] \cup ChildrenOf(f[n - 1], sbom)  BY <1>3, <2>1, <2>2 DEF FirstRounds
  <2> QED  BY <2>3, <2>5, <2>6
<1> HIDE DEF upTo
<1>4. all = [n \in Nat |-> IF n = 0 THEN DirectRefs(sbom) ELSE all[n - 1] \cup ChildrenOf(all[n - 1], sbom)]
  <2> HIDE DEF all
  <2>1. \A n \in Nat : all[n] = IF n = 0 THEN DirectRefs(sbom) ELSE all[n - 1] \cup ChildrenOf(all[n - 1], sbom)
    BY <1>2, <1>3
  <2> QED  BY <2>1 DEF all
<1>5. PICK f : IsRounds(f, sbom) /\ ReachableRefs(sbom) = f[Cardinality(DOMAIN sbom.edges)]
  <2> HIDE DEF all
  <2>1. IsRounds(all, sbom)  BY <1>4 DEF IsRounds
  <2> QED  BY <2>1, ReachableIsRound
<1>6. \A n \in Nat : f[n] = IF n = 0 THEN DirectRefs(sbom) ELSE f[n - 1] \cup ChildrenOf(f[n - 1], sbom)
  BY <1>5 DEF IsRounds
<1>7. ASSUME NEW n \in Nat PROVE FirstRounds(f, n, sbom)
  <2>1. \A k \in 1 .. n : f[k] = f[k - 1] \cup ChildrenOf(f[k - 1], sbom)
    <3>1. \A k \in 1 .. n : k \in Nat /\ k # 0  OBVIOUS
    <3> QED  BY <1>6, <3>1
  <2>2. f[0] = DirectRefs(sbom)  BY <1>6
  <2> QED  BY <2>1, <2>2 DEF FirstRounds
<1> QED  BY <1>5, <1>7

ClosedUnder(S, sbom) == \A r \in S \cap DOMAIN sbom.edges : sbom.edges[r] \subseteq S

\* What is reached in any round is in every closed set with the direct ones.
LEMMA RoundsWithin ==
  ASSUME NEW sbom, NEW f, NEW n \in Nat, FirstRounds(f, n, sbom),
         NEW S, DirectRefs(sbom) \subseteq S, ClosedUnder(S, sbom)
  PROVE  f[n] \subseteq S
<1> DEFINE wrong == {k \in 0 .. n : ~ (f[k] \subseteq S)}
<1> SUFFICES ASSUME wrong # {} PROVE FALSE
  <2>1. n \in 0 .. n  OBVIOUS
  <2> QED  BY <2>1
<1>0. wrong \in SUBSET Nat  OBVIOUS
<1>1. PICK k \in wrong : \A l \in wrong : k <= l  BY <1>0, Least
<1>2. k # 0  BY <1>1 DEF FirstRounds
<1>3. k \in 1 .. n /\ k - 1 \in 0 .. n /\ k - 1 \notin wrong  BY <1>1, <1>2
<1>4. f[k - 1] \subseteq S  BY <1>3
<1>5. ChildrenOf(f[k - 1], sbom) \subseteq S  BY <1>4 DEF ChildrenOf, ClosedUnder
<1>6. f[k] = f[k - 1] \cup ChildrenOf(f[k - 1], sbom)  BY <1>3 DEF FirstRounds
<1> QED  BY <1>1, <1>4, <1>5, <1>6

\* Each round is closed or has come by one more reference with an entry than
\* there were rounds.
LEMMA RoundsGrow ==
  ASSUME NEW sbom, NEW f, NEW n \in Nat, FirstRounds(f, n, sbom), IsFiniteSet(DOMAIN sbom.edges)
  PROVE  ClosedUnder(f[n], sbom) \/ Cardinality(f[n] \cap DOMAIN sbom.edges) > n
<1> DEFINE E == DOMAIN sbom.edges
           size(k) == Cardinality(f[k] \cap E)
           wrong == {k \in 0 .. n : ~ (ClosedUnder(f[k], sbom) \/ size(k) > k)}
<1> SUFFICES ASSUME wrong # {} PROVE FALSE
  <2>1. n \in 0 .. n  OBVIOUS
  <2> QED  BY <2>1
<1>0. wrong \in SUBSET Nat  OBVIOUS
<1>1. PICK k \in wrong : \A l \in wrong : k <= l  BY <1>0, Least
<1>2. \A j : IsFiniteSet(f[j] \cap E) /\ size(j) \in Nat
  <2>1. \A j : f[j] \cap E \in SUBSET E  OBVIOUS
  <2> QED  BY <2>1, FS_Subset, FS_CardinalityType
<1>3. k # 0
  <2>1. SUFFICES ASSUME k = 0 PROVE FALSE  OBVIOUS
  <2>2. ~ClosedUnder(f[0], sbom) /\ size(0) = 0  BY <1>1, <1>2, <2>1
  <2>3. f[0] \cap E = {}  BY <1>2, <2>2, FS_EmptySet
  <2> QED  BY <2>2, <2>3 DEF ClosedUnder
<1>4. k \in 1 .. n /\ k - 1 \in 0 .. n /\ k - 1 \notin wrong  BY <1>1, <1>3
<1>5. f[k] = f[k - 1] \cup ChildrenOf(f[k - 1], sbom)  BY <1>4 DEF FirstRounds
<1>6. CASE ClosedUnder(f[k - 1], sbom)
  <2>1. f[k] = f[k - 1]  BY <1>5, <1>6 DEF ClosedUnder, ChildrenOf
  <2> QED  BY <1>1, <1>6, <2>1
<1>7. CASE size(k - 1) > k - 1
  <2>1. CASE f[k] \cap E = f[k - 1] \cap E
    <3>1. ChildrenOf(f[k], sbom) \subseteq f[k]  BY <1>5, <2>1 DEF ChildrenOf
    <3>2. ClosedUnder(f[k], sbom)  BY <3>1 DEF ClosedUnder, ChildrenOf
    <3> QED  BY <1>1, <3>2
  <2>2. CASE f[k] \cap E # f[k - 1] \cap E
    <3>1. f[k - 1] \cap E \subseteq f[k] \cap E  BY <1>5
    <3>2. size(k - 1) < size(k)
      <4>1. PICK A, B : A = f[k - 1] \cap E /\ B = f[k] \cap E  OBVIOUS
      <4>2. IsFiniteSet(B) /\ A \in SUBSET B /\ A # B  BY <1>2, <2>2, <3>1, <4>1
      <4>3. Cardinality(A) < Cardinality(B)
        <5>1. Cardinality(A) \in Nat /\ Cardinality(B) \in Nat  BY <1>2, <4>1
        <5>2. Cardinality(A) <= Cardinality(B) /\ (Cardinality(A) = Cardinality(B) => A = B)  BY <4>2, FS_Subset
        <5> QED  BY <4>2, <5>1, <5>2
      <4>4. size(k - 1) = Cardinality(A)  BY <4>1
      <4>5. size(k) = Cardinality(B)  BY <4>1
      <4> QED  BY <4>3, <4>4, <4>5
    <3>3. size(k) \in Nat /\ size(k - 1) \in Nat /\ k \in Nat
      <4>1. size(k) \in Nat  BY <1>2
      <4>2. size(k - 1) \in Nat  BY <1>2
      <4>3. k \in Nat  BY <1>4
      <4> QED  BY <4>1, <4>2, <4>3
    <3> HIDE DEF size
    <3>4. size(k) > k  BY <1>7, <3>2, <3>3
    <3> QED  BY <1>1, <3>4
  <2> QED  BY <2>1, <2>2
<1> QED  BY <1>4, <1>6, <1>7

\* The worklist of dependencyGraph, which follows the edges of the SBOM from the direct
\* references, ends with those that every closed set has, also if they go round.
THEOREM ReachableIsReached ==
  ASSUME NEW sbom, IsFiniteSet(DOMAIN sbom.edges), NEW ref
  PROVE  ref \in ReachableRefs(sbom) <=> Reached(ref, sbom)
<1> DEFINE E == DOMAIN sbom.edges
           Refs == DirectRefs(sbom) \cup UNION {sbom.edges[r] : r \in E}
<1>1. PICK f : /\ \A n \in Nat : FirstRounds(f, n, sbom)
               /\ ReachableRefs(sbom) = f[Cardinality(E)]
  BY RoundsOf
<1>2. PICK n \in Nat : n = Cardinality(E)  BY FS_CardinalityType
<1>3. FirstRounds(f, n, sbom) /\ ReachableRefs(sbom) = f[n]  BY <1>1, <1>2
<1>4. ClosedUnder(Refs, sbom)  BY DEF ClosedUnder
<1>5. f[n] \subseteq Refs  BY <1>3, <1>4, RoundsWithin
<1>6. ClosedUnder(f[n], sbom)
  <2>1. f[n] \cap E \in SUBSET E  OBVIOUS
  <2>2. PICK A : A = f[n] \cap E  OBVIOUS
  <2>3. IsFiniteSet(A) /\ Cardinality(A) <= Cardinality(E)  BY <2>1, <2>2, FS_Subset
  <2>4. Cardinality(A) \in Nat  BY <2>3, FS_CardinalityType
  <2>5. ~ (Cardinality(f[n] \cap E) > n)  BY <1>2, <2>2, <2>3, <2>4
  <2> HIDE DEF E
  <2>6. ClosedUnder(f[n], sbom) \/ Cardinality(f[n] \cap E) > n  BY <1>3, RoundsGrow DEF E
  <2> QED  BY <2>5, <2>6
<1>7. DirectRefs(sbom) \subseteq f[n]
  <2> DEFINE wrong == {k \in 0 .. n : ~ (DirectRefs(sbom) \subseteq f[k])}
  <2> SUFFICES ASSUME wrong # {} PROVE FALSE
    <3>1. n \in 0 .. n  OBVIOUS
    <3> QED  BY <3>1
  <2>0. wrong \in SUBSET Nat  OBVIOUS
  <2>1. PICK k \in wrong : \A l \in wrong : k <= l  BY <2>0, Least
  <2>2. k # 0  BY <1>3, <2>1 DEF FirstRounds
  <2>3. k \in 1 .. n /\ k - 1 \in 0 .. n /\ k - 1 \notin wrong  BY <2>1, <2>2
  <2> QED  BY <1>3, <2>1, <2>3 DEF FirstRounds
<1>8. ASSUME ref \in f[n] PROVE Reached(ref, sbom)
  <2>1. \A S \in SUBSET Refs : DirectRefs(sbom) \subseteq S /\ ClosedUnder(S, sbom) => f[n] \subseteq S
    BY <1>3, RoundsWithin
  <2> QED  BY <1>5, <1>8, <2>1 DEF Reached, ClosedUnder
<1>9. ASSUME Reached(ref, sbom) PROVE ref \in f[n]
  BY <1>5, <1>6, <1>7, <1>9 DEF Reached, ClosedUnder
<1> QED  BY <1>3, <1>8, <1>9

\* What ranks first among the relationships of the components of a package is
\* what the SBOM states of it, and unknown if that is nothing.
LEMMA BestIsStated ==
  ASSUME NEW sbom, IsFiniteSet(DOMAIN sbom.edges), NEW p, ComponentsOf(p, sbom) # {},
         NEW b, b = Best({relationshipFor(item, sbom) : item \in ComponentsOf(p, sbom)})
  PROVE  /\ Stated(p, sbom) # {} =>
              /\ b \in Stated(p, sbom)
              /\ "direct" \in Stated(p, sbom) => b = "direct"
              /\ "os" \in Stated(p, sbom) => b # "transitive"
         /\ Stated(p, sbom) = {} => b = "unknown"
         /\ b = "unknown" => Stated(p, sbom) = {}
<1> DEFINE C == ComponentsOf(p, sbom)
           L == {item \in C : item.ecosystem # "os"}
<1>1. PICK R : R = {relationshipFor(item, sbom) : item \in C}  OBVIOUS
<1>2. PICK T : T = Stated(p, sbom)  OBVIOUS
<1>3. /\ "direct" \in T <=> \E item \in L : item.ref \in DirectRefs(sbom)
      /\ "os" \in T <=> L # C
      /\ "transitive" \in T <=> \E item \in L : Reached(item.ref, sbom)
      /\ T \subseteq {"direct", "os", "transitive"}
  BY <1>2 DEF Stated
<1>4. ASSUME NEW item
      PROVE  /\ relationshipFor(item, sbom) = "os" <=> item.ecosystem = "os"
             /\ relationshipFor(item, sbom) = "direct" <=> item.ecosystem # "os" /\ item.ref \in DirectRefs(sbom)
             /\ relationshipFor(item, sbom) = "transitive" <=>
                  item.ecosystem # "os" /\ Reached(item.ref, sbom) /\ item.ref \notin DirectRefs(sbom)
  <2>1. item.ref \in ReachableRefs(sbom) <=> Reached(item.ref, sbom)  BY ReachableIsReached
  <2>2. CASE item.ecosystem = "os"  BY <2>2 DEF relationshipFor
  <2>3. CASE item.ecosystem # "os" /\ item.ref \in DirectRefs(sbom)  BY <2>3 DEF relationshipFor
  <2>4. CASE item.ecosystem # "os" /\ item.ref \in ReachableRefs(sbom) \ DirectRefs(sbom)
    BY <2>1, <2>4 DEF relationshipFor
  <2>5. CASE item.ecosystem # "os" /\ item.ref \notin ReachableRefs(sbom) \cup DirectRefs(sbom)
    BY <2>1, <2>5 DEF relationshipFor
  <2> QED  BY <2>2, <2>3, <2>4, <2>5
<1>5. "os" \in R <=> "os" \in T  BY <1>1, <1>3, <1>4
<1>6. "direct" \in R <=> "direct" \in T  BY <1>1, <1>3, <1>4
<1>7. "transitive" \in R => "transitive" \in T  BY <1>1, <1>3, <1>4
<1>8. "transitive" \in T => "transitive" \in R \/ "direct" \in R
  <2>1. SUFFICES ASSUME "transitive" \in T PROVE "transitive" \in R \/ "direct" \in R  OBVIOUS
  <2>2. PICK item \in L : Reached(item.ref, sbom)  BY <1>3, <2>1
  <2>3. relationshipFor(item, sbom) \in R  BY <1>1
  <2> QED  BY <1>4, <2>2, <2>3
<1>9. b = Best(R)  BY <1>1
<1> HIDE DEF C, L
<1>10. /\ T # {} => b \in T /\ ("direct" \in T => b = "direct") /\ ("os" \in T => b # "transitive")
       /\ T = {} => b = "unknown"
       /\ b = "unknown" => T = {}
  <2>1. T \subseteq {"direct", "os", "transitive"}  BY <1>3
  <2>2. CASE "direct" \in T  BY <1>6, <1>9, <2>2 DEF Best
  <2>3. CASE "direct" \notin T /\ "os" \in T  BY <1>5, <1>6, <1>9, <2>3 DEF Best
  <2>4. CASE "direct" \notin T /\ "os" \notin T /\ "transitive" \in T
    BY <1>5, <1>6, <1>8, <1>9, <2>4 DEF Best
  <2>5. CASE T = {}  BY <1>5, <1>6, <1>7, <1>9, <2>5 DEF Best
  <2> QED  BY <2>1, <2>2, <2>3, <2>4, <2>5
<1> QED  BY <1>2, <1>10

\* What an inventory with the relationships of the SBOM, settled by the lock files
\* where it leaves them open, promises.
Holds(inventory, sbom, lock) ==
  /\ InventoryComplete(inventory, sbom, lock)
  /\ DOMAIN inventory.unresolved = {} => \A item \in ToSet(sbom.items) : Reason(item) = "none"
  /\ \A p \in DOMAIN inventory.components : inventory.components[p] \in Relationships

Settled(r, b, p, sbom, lock) ==
  IF b = "unknown" THEN \E key \in FoundBy(p, sbom, lock) : r = Listed(key, lock) ELSE r = b

\* Such an inventory is complete.
LEMMA SettledIsComplete ==
  ASSUME NEW sbom, IsSbom(sbom), NEW lock, NEW plain, plain = inventoryFromCycloneDx(sbom),
         NEW inventory, inventory.unresolved = plain.unresolved,
         DOMAIN inventory.components = DOMAIN plain.components,
         \A p \in DOMAIN plain.components :
           Settled(inventory.components[p], plain.components[p], p, sbom, lock)
  PROVE  Holds(inventory, sbom, lock)
<1>1. DOMAIN plain.components = {p \in {item.purl : item \in ToSet(sbom.items)} : ComponentsOf(p, sbom) # {}}
  BY InventoryOf DEF IsSbom, IsList
<1>2. ASSUME NEW p \in DOMAIN plain.components
      PROVE  /\ IsRelationship(inventory.components[p], p, sbom, lock)
             /\ inventory.components[p] \in Relationships
  <2>1. PICK b : b = plain.components[p]  OBVIOUS
  <2>2. PICK r : r = inventory.components[p]  OBVIOUS
  <2>3. b = Best({relationshipFor(item, sbom) : item \in ComponentsOf(p, sbom)})  BY <2>1, InventoryOf DEF IsSbom, IsList
  <2>4. ComponentsOf(p, sbom) # {}  BY <1>1
  <2>5. Settled(r, b, p, sbom, lock)  BY <2>1, <2>2
  <2>6. PICK T : T = Stated(p, sbom)  OBVIOUS
  <2>7. /\ T # {} => b \in T /\ ("direct" \in T => b = "direct") /\ ("os" \in T => b # "transitive")
        /\ T = {} <=> b = "unknown"
    BY <2>3, <2>4, <2>6, BestIsStated DEF IsSbom, IsList
  <2>8. CASE b = "unknown"
    <3>1. PICK key \in FoundBy(p, sbom, lock) : r = Listed(key, lock)  BY <2>5, <2>8 DEF Settled
    <3>2. r \in Relationships  BY <3>1 DEF Listed, Relationships
    <3>3. IsRelationship(r, p, sbom, lock)  BY <2>6, <2>7, <2>8, <3>1 DEF IsRelationship
    <3> QED  BY <2>2, <3>2, <3>3
  <2>9. CASE b # "unknown"
    <3>1. r = b  BY <2>5, <2>9 DEF Settled
    <3>2. b \in {"direct", "os", "transitive"}  BY <2>6, <2>7, <2>9 DEF Stated
    <3>3. IsRelationship(b, p, sbom, lock)  BY <2>6, <2>7, <2>9 DEF IsRelationship
    <3> QED  BY <2>2, <3>1, <3>2, <3>3 DEF Relationships
  <2> QED  BY <2>8, <2>9
<1>3. ASSUME NEW item \in ToSet(sbom.items), Reason(item) # "none"
      PROVE  \E key \in DOMAIN inventory.unresolved : StandsFor(inventory.unresolved[key], item)
  <2>1. PICK u : u = inventory.unresolved /\ u = inventoryFromCycloneDx(sbom).unresolved  OBVIOUS
  <2>2. \E key \in DOMAIN u : StandsFor(u[key], item)  BY <1>3, <2>1, UnresolvedOf
  <2> QED  BY <2>1, <2>2
<1>4. ASSUME NEW item \in ToSet(sbom.items), Reason(item) = "none"
      PROVE  item.purl \in DOMAIN inventory.components
  <2>1. item \in ComponentsOf(item.purl, sbom)  BY <1>4 DEF ComponentsOf
  <2> QED  BY <1>1, <2>1
<1>5. InventoryComplete(inventory, sbom, lock)  BY <1>2, <1>3, <1>4 DEF InventoryComplete
<1>6. DOMAIN inventory.unresolved = {} => \A item \in ToSet(sbom.items) : Reason(item) = "none"  BY <1>3
<1> QED  BY <1>2, <1>5, <1>6 DEF Holds

\* So is the inventory that is looked up in the lock files, as each purl is of one
\* identity in them ...
LEMMA ReconciledIsComplete ==
  ASSUME NEW sbom, IsSbom(sbom), NEW lock, IsList(lock), Identified(ToSet(lock)),
         NEW inventory, inventory = reconcileRelationships(inventoryFromCycloneDx(sbom), lock)
  PROVE  Holds(inventory, sbom, lock)
<1>1. PICK plain : plain = inventoryFromCycloneDx(sbom)  OBVIOUS
<1>2. PICK c, d, u : plain = [components |-> c, identities |-> d, unresolved |-> u]
  BY <1>1 DEF inventoryFromCycloneDx
<1>3. PICK native : native = uniq(lock)  OBVIOUS
<1> DEFINE byPurl(p) == {k \in DOMAIN native : native[k].purl = p}
           matched(p) == IF byPurl(p) # {} THEN byPurl(p) ELSE {d[p]} \cap DOMAIN native
           Relation(p) ==
             IF c[p] # "unknown" \/ matched(p) = {} THEN c[p]
             ELSE IF \E k \in matched(p) : native[k].direct THEN "direct" ELSE "transitive"
<1>4. inventory = [components |-> [p \in DOMAIN c |-> Relation(p)], identities |-> d, unresolved |-> u]
  BY <1>1, <1>2, <1>3 DEF reconcileRelationships
<1>5. inventory.unresolved = plain.unresolved /\ DOMAIN inventory.components = DOMAIN plain.components
  BY <1>2, <1>4
<1>6. DOMAIN native = Identities(lock)  BY <1>3, UniqOf DEF IsList
<1>7. ASSUME NEW k \in DOMAIN native
      PROVE  /\ native[k] \in EntriesOf(k, lock) /\ native[k] \in ToSet(lock) /\ Identity(native[k]) = k
             /\ Listed(k, lock) = IF native[k].direct THEN "direct" ELSE "transitive"
  <2>1. /\ native[k] \in EntriesOf(k, lock)
        /\ native[k].direct <=> \E entry \in EntriesOf(k, lock) : entry.direct
    BY <1>3, <1>6, UniqOf DEF IsList
  <2>2. native[k] \in ToSet(lock) /\ Identity(native[k]) = k  BY <2>1 DEF EntriesOf
  <2>3. Listed(k, lock) = IF native[k].direct THEN "direct" ELSE "transitive"  BY <2>1 DEF Listed
  <2> QED  BY <2>1, <2>2, <2>3
<1>8. ASSUME NEW p \in DOMAIN plain.components
      PROVE  Settled(inventory.components[p], plain.components[p], p, sbom, lock)
  <2>1. plain.components[p] = c[p] /\ inventory.components[p] = Relation(p)  BY <1>2, <1>4
  <2> SUFFICES ASSUME c[p] = "unknown" PROVE \E key \in FoundBy(p, sbom, lock) : Relation(p) = Listed(key, lock)
    BY <2>1 DEF Settled
  <2> DEFINE listed == {Identity(entry) : entry \in {e \in ToSet(lock) : e.purl = p}}
             only == {key \in listed : \A entry \in EntriesOf(key, lock) : entry.purl = p}
  <2>2. FoundBy(p, sbom, lock) =
          IF only # {} THEN only ELSE listed \cup {Identity(item) : item \in ComponentsOf(p, sbom)}
    BY DEF FoundBy
  <2>3. \A k, l \in listed : k = l  BY DEF Identified
  <2>4. byPurl(p) \subseteq listed  BY <1>7
  <2>5. ASSUME NEW key \in only PROVE key \in byPurl(p)
    <3>1. key \in DOMAIN native  BY <1>6 DEF Identities
    <3> QED  BY <1>7, <3>1
  <2>6. CASE byPurl(p) # {}
    <3>1. PICK k : k \in byPurl(p)  BY <2>6
    <3>2. byPurl(p) = {k}  BY <2>3, <2>4, <3>1
    <3>3. matched(p) = {k}  BY <2>6, <3>2
    <3>4. Relation(p) = IF native[k].direct THEN "direct" ELSE "transitive"  BY <3>3
    <3>5. Relation(p) = Listed(k, lock)  BY <1>7, <3>1, <3>4
    <3>6. k \in FoundBy(p, sbom, lock)
      <4>1. k \in listed  BY <2>4, <3>1
      <4>2. CASE only # {}  BY <2>2, <2>3, <4>1, <4>2
      <4>3. CASE only = {}  BY <2>2, <4>1, <4>3
      <4> QED  BY <4>2, <4>3
    <3> QED  BY <3>5, <3>6
  <2>7. CASE byPurl(p) = {}
    <3>1. only = {}  BY <2>5, <2>7
    <3>2. d[p] \in {Identity(item) : item \in ComponentsOf(p, sbom)}
      <4>1. plain.identities[p] \in {Identity(item) : item \in ComponentsOf(p, sbom)}  BY <1>1, IdentityOf
      <4> QED  BY <1>2, <4>1
    <3>3. d[p] \in FoundBy(p, sbom, lock)  BY <2>2, <3>1, <3>2
    <3>4. Relation(p) = Listed(d[p], lock)
      <4>1. CASE d[p] \in DOMAIN native
        <5>1. matched(p) = {d[p]}  BY <2>7, <4>1
        <5>2. Relation(p) = IF native[d[p]].direct THEN "direct" ELSE "transitive"  BY <5>1
        <5> QED  BY <1>7, <4>1, <5>2
      <4>2. CASE d[p] \notin DOMAIN native
        <5>1. matched(p) = {}  BY <2>7, <4>2
        <5>2. Relation(p) = "unknown"  BY <5>1
        <5>3. EntriesOf(d[p], lock) = {}  BY <1>6, <4>2 DEF EntriesOf, Identities
        <5> QED  BY <5>2, <5>3 DEF Listed
      <4> QED  BY <4>1, <4>2
    <3> QED  BY <3>3, <3>4
  <2> QED  BY <2>6, <2>7
<1> QED  BY <1>1, <1>5, <1>8, SettledIsComplete

\* ... and the one that leaves nothing to look up.
LEMMA PlainIsComplete ==
  ASSUME NEW sbom, IsSbom(sbom), NEW lock,
         NEW inventory, inventory = inventoryFromCycloneDx(sbom), Unknown(inventory) = {}
  PROVE  Holds(inventory, sbom, lock)
<1>1. \A p \in DOMAIN inventory.components :
        Settled(inventory.components[p], inventory.components[p], p, sbom, lock)
  BY DEF Unknown, Settled
<1> QED  BY <1>1, SettledIsComplete

-----------------------------------------------------------------------------
(* Versions.                                                               *)

LEMMA BelowIs ==
  ASSUME NEW v, NEW w, IsVersion(v), IsVersion(w)
  PROVE  Below(v, w) <=> \/ v[1] < w[1]
                         \/ v[1] = w[1] /\ v[2] < w[2]
                         \/ v[1] = w[1] /\ v[2] = w[2] /\ v[3] < w[3]
<1>1. 1 .. 3 = {1, 2, 3} /\ 1 .. (1 - 1) = {} /\ 1 .. (2 - 1) = {1} /\ 1 .. (3 - 1) = {1, 2}  OBVIOUS
<1>2. \A i \in {1, 2, 3} : (v[i] < w[i] /\ \A j \in 1 .. (i - 1) : v[j] = w[j]) <=>
        \/ i = 1 /\ v[1] < w[1]
        \/ i = 2 /\ v[1] = w[1] /\ v[2] < w[2]
        \/ i = 3 /\ v[1] = w[1] /\ v[2] = w[2] /\ v[3] < w[3]
  BY <1>1
<1> QED  BY <1>1, <1>2 DEF Below

\* Comparing the first numbers that differ is comparing in order.
LEMMA ComparesInOrder ==
  ASSUME NEW v, NEW w, IsVersion(v), IsVersion(w)
  PROVE  /\ compareVersions(v, w) \in {0 - 1, 0, 1}
         /\ compareVersions(v, w) < 0 <=> Below(v, w)
         /\ compareVersions(v, w) > 0 <=> Below(w, v)
<1> DEFINE D == {i \in 1 .. 3 : v[i] # w[i]}
<1>1. CASE D = {}
  <2>1. v[1] = w[1] /\ v[2] = w[2] /\ v[3] = w[3]  BY <1>1
  <2>2. compareVersions(v, w) = 0  BY <1>1 DEF compareVersions
  <2> QED  BY <2>1, <2>2, BelowIs DEF IsVersion
<1>2. CASE D # {}
  <2>1. D \in SUBSET Nat  OBVIOUS
  <2>2. PICK m : m = Min(D)  OBVIOUS
  <2>3. m \in D /\ \A y \in D : m <= y  BY <1>2, <2>1, <2>2, LeastIsMin
  <2>4. compareVersions(v, w) = IF v[m] < w[m] THEN 0 - 1 ELSE 1  BY <1>2, <2>2 DEF compareVersions
  <2>5. m \in {1, 2, 3} /\ v[m] # w[m]  BY <2>3
  <2>6. CASE m = 1
    BY <2>4, <2>5, <2>6, BelowIs DEF IsVersion
  <2>7. CASE m = 2
    <3>1. v[1] = w[1]  BY <2>3, <2>7
    <3> QED  BY <2>4, <2>5, <2>7, <3>1, BelowIs DEF IsVersion
  <2>8. CASE m = 3
    <3>1. v[1] = w[1] /\ v[2] = w[2]  BY <2>3, <2>8
    <3> QED  BY <2>4, <2>5, <2>8, <3>1, BelowIs DEF IsVersion
  <2> QED  BY <2>5, <2>6, <2>7, <2>8
<1> QED  BY <1>1, <1>2

\* A clause holds of a version if it is within it.
LEMMA ClauseIsWithin ==
  ASSUME NEW v, NEW clause, IsVersion(v), IsClause(clause)
  PROVE  satisfiesClause(v, clause) <=> Within(v, clause)
<1> DEFINE b == clause.version
<1>0. CASE clause.op = "literal"
  BY <1>0 DEF satisfiesClause, Within
<1> SUFFICES ASSUME clause.op # "literal" PROVE satisfiesClause(v, clause) <=> Within(v, clause)
  BY <1>0
<1>1. IsVersion(b)  BY DEF IsClause
<1>2. PICK c : c = compareVersions(v, b)  OBVIOUS
<1>3. c \in {0 - 1, 0, 1} /\ (c < 0 <=> Below(v, b)) /\ (c > 0 <=> Below(b, v))  BY <1>1, <1>2, ComparesInOrder
<1>4. CASE clause.op = "^"
  <2>1. PICK n : n = <<b[1] + 1, 0, 0>>  OBVIOUS
  <2>2. n[1] = b[1] + 1 /\ n[2] = 0 /\ n[3] = 0  BY <2>1
  <2>3. IsVersion(n)  BY <1>1, <2>2 DEF IsVersion
  <2>4. compareVersions(v, n) < 0 <=> Below(v, n)  BY <2>3, ComparesInOrder
  <2>5. Below(v, n) <=> v[1] <= b[1]  BY <1>1, <2>2, <2>3, BelowIs DEF IsVersion
  <2>6. ~Below(v, b) => v[1] >= b[1]  BY <1>1, BelowIs DEF IsVersion
  <2>7. satisfiesClause(v, clause) <=> c >= 0 /\ compareVersions(v, n) < 0  BY <1>2, <1>4, <2>1 DEF satisfiesClause
  <2>8. Within(v, clause) <=> ~Below(v, b) /\ v[1] = b[1]  BY <1>4 DEF Within
  <2> QED  BY <1>1, <1>3, <2>4, <2>5, <2>6, <2>7, <2>8 DEF IsVersion
<1>5. CASE clause.op = "~"
  <2>1. PICK n : n = <<b[1], b[2] + 1, 0>>  OBVIOUS
  <2>2. n[1] = b[1] /\ n[2] = b[2] + 1 /\ n[3] = 0  BY <2>1
  <2>3. IsVersion(n)  BY <1>1, <2>2 DEF IsVersion
  <2>4. compareVersions(v, n) < 0 <=> Below(v, n)  BY <2>3, ComparesInOrder
  <2>5. Below(v, n) <=> v[1] < b[1] \/ (v[1] = b[1] /\ v[2] <= b[2])
    <3>1. Below(v, n) <=> \/ v[1] < b[1]
                          \/ v[1] = b[1] /\ v[2] < b[2] + 1
                          \/ v[1] = b[1] /\ v[2] = b[2] + 1 /\ v[3] < 0
      BY <2>2, <2>3, BelowIs
    <3> QED  BY <1>1, <3>1 DEF IsVersion
  <2>6. ~Below(v, b) => v[1] >= b[1] /\ (v[1] = b[1] => v[2] >= b[2])  BY <1>1, BelowIs DEF IsVersion
  <2>7. satisfiesClause(v, clause) <=> c >= 0 /\ compareVersions(v, n) < 0  BY <1>2, <1>5, <2>1 DEF satisfiesClause
  <2>8. Within(v, clause) <=> ~Below(v, b) /\ v[1] = b[1] /\ v[2] = b[2]  BY <1>5 DEF Within
  <2> QED  BY <1>1, <1>3, <2>4, <2>5, <2>6, <2>7, <2>8 DEF IsVersion
<1>6. CASE clause.op = "="
  BY <1>2, <1>3, <1>6 DEF satisfiesClause, Within
<1>7. CASE clause.op = "<"
  BY <1>2, <1>3, <1>7 DEF satisfiesClause, Within
<1>8. CASE clause.op = "<="
  BY <1>2, <1>3, <1>8 DEF satisfiesClause, Within
<1>9. CASE clause.op = ">"
  BY <1>2, <1>3, <1>9 DEF satisfiesClause, Within
<1>10. CASE clause.op = ">="
  BY <1>2, <1>3, <1>10 DEF satisfiesClause, Within
<1> QED  BY <1>4, <1>5, <1>6, <1>7, <1>8, <1>9, <1>10 DEF IsClause

InRange(v, range) == \E alternative \in range : \A clause \in alternative : Within(v, clause)

\* satisfiesSimpleRange, which compares a version with each clause of each alternative,
\* holds exactly of the versions that lie within an alternative in the order of versions.
THEOREM RangeIsWithin ==
  ASSUME NEW v, IsVersion(v), NEW range, IsRange(range)
  PROVE  satisfiesSimpleRange(v, range) <=> InRange(v, range)
<1>1. \A alternative \in range : \A clause \in alternative : satisfiesClause(v, clause) <=> Within(v, clause)
  BY ClauseIsWithin DEF IsRange
<1> QED  BY <1>1 DEF satisfiesSimpleRange, InRange

-----------------------------------------------------------------------------
(* Advisories.                                                             *)

Applying(entry, advisories, S) == {i \in S : vulnerableTo(entry, advisories[i])}
PlacesOfId(entry, advisories, S, id) == {i \in Applying(entry, advisories, S) : advisories[i].id = id}

\* The last advisory of each identifier.
LastSaid(entry, advisories, S) ==
  [id \in {advisories[i].id : i \in Applying(entry, advisories, S)} |->
     advisories[Max(PlacesOfId(entry, advisories, S, id))]]

AdvisoryFold(fold, entry, advisories) ==
  fold = [S \in SUBSET DOMAIN advisories |->
            IF S = {} THEN <<>> ELSE AddAdvisory(fold[S \ {Max(S)}], advisories[Max(S)], entry)]

LEMMA AdvisoriesAreFold ==
  ASSUME NEW entry, NEW advisories
  PROVE  AdvisoriesFor(entry, advisories) = (CHOOSE fold : AdvisoryFold(fold, entry, advisories))[DOMAIN advisories]
BY DEF AdvisoriesFor, FoldLeft, MapThenFoldSet, AdvisoryFold

\* One advisory more, after all others.
LEMMA OneAdvisory ==
  ASSUME NEW entry, NEW advisories, NEW n \in Nat, NEW S \in SUBSET (0 .. n), NEW m \in S, \A i \in S : i <= m
  PROVE  LastSaid(entry, advisories, S) = AddAdvisory(LastSaid(entry, advisories, S \ {m}), advisories[m], entry)
<1> DEFINE T == S \ {m}
           a == advisories[m]
           old == LastSaid(entry, advisories, T)
           new == LastSaid(entry, advisories, S)
<1>1. CASE ~vulnerableTo(entry, a)
  <2>1. Applying(entry, advisories, S) = Applying(entry, advisories, T)  BY <1>1 DEF Applying
  <2>2. \A id : PlacesOfId(entry, advisories, S, id) = PlacesOfId(entry, advisories, T, id)  BY <2>1 DEF PlacesOfId
  <2>3. new = old  BY <2>1, <2>2 DEF LastSaid
  <2> QED  BY <1>1, <2>3 DEF AddAdvisory
<1>2. CASE vulnerableTo(entry, a)
  <2>1. Applying(entry, advisories, S) = Applying(entry, advisories, T) \cup {m}  BY <1>2 DEF Applying
  <2>2. DOMAIN new = DOMAIN old \cup {a.id}  BY <2>1 DEF LastSaid
  <2>3. ASSUME NEW id \in DOMAIN old, id # a.id PROVE new[id] = old[id]
    <3>1. PlacesOfId(entry, advisories, S, id) = PlacesOfId(entry, advisories, T, id)  BY <2>1, <2>3 DEF PlacesOfId
    <3> QED  BY <2>2, <2>3, <3>1 DEF LastSaid
  <2>4. new[a.id] = a
    <3>1. PICK Q : Q = PlacesOfId(entry, advisories, S, a.id)  OBVIOUS
    <3>2. m \in Q /\ Q \in SUBSET (0 .. n) /\ \A i \in Q : i <= m  BY <2>1, <3>1 DEF PlacesOfId, Applying
    <3>3. Max(Q) \in Q /\ Max(Q) >= m  BY <3>2, GreatestIsMax
    <3>4. Max(Q) \in 0 .. n /\ m \in 0 .. n /\ Max(Q) <= m  BY <3>2, <3>3
    <3>5. Max(Q) = m  BY <3>3, <3>4
    <3> QED  BY <2>2, <3>1, <3>5 DEF LastSaid
  <2>5. new = [id \in DOMAIN old \cup {a.id} |-> IF id = a.id THEN a ELSE old[id]]
    BY <2>2, <2>3, <2>4 DEF LastSaid
  <2>6. new = Bind(old, a.id, a)  BY <2>5 DEF Bind
  <2> QED  BY <1>2, <2>6 DEF AddAdvisory
<1> QED  BY <1>1, <1>2

LEMMA LastAdvisoryCounts ==
  ASSUME NEW entry, NEW advisories, advisories \in Seq(ToSet(advisories))
  PROVE  AdvisoriesFor(entry, advisories) = LastSaid(entry, advisories, DOMAIN advisories)
<1>1. PICK n \in Nat : n = Len(advisories) /\ DOMAIN advisories = 1 .. n  BY LenProperties
<1>2. \A S \in SUBSET (1 .. n) : S # {} => S \in SUBSET (0 .. n) /\ Max(S) \in S /\ \A i \in S : i <= Max(S)
  <2>1. \A S \in SUBSET (1 .. n) : S \in SUBSET (0 .. n)  OBVIOUS
  <2>2. \A S \in SUBSET (1 .. n) : S # {} => Max(S) \in S /\ \A i \in S : Max(S) >= i  BY <2>1, GreatestIsMax
  <2> QED  BY <2>1, <2>2
<1> DEFINE closed == [S \in SUBSET (1 .. n) |-> LastSaid(entry, advisories, S)]
<1>3. closed[{}] = <<>>
  BY DEF LastSaid, Applying
<1>4. \A S \in SUBSET (1 .. n) : S # {} => closed[S] = AddAdvisory(closed[S \ {Max(S)}], advisories[Max(S)], entry)
  BY <1>2, OneAdvisory
<1> HIDE DEF closed
<1>5. closed = [S \in SUBSET (1 .. n) |->
                  IF S = {} THEN <<>> ELSE AddAdvisory(closed[S \ {Max(S)}], advisories[Max(S)], entry)]
  BY <1>3, <1>4 DEF closed
<1>6. PICK fold : AdvisoryFold(fold, entry, advisories) /\ AdvisoriesFor(entry, advisories) = fold[DOMAIN advisories]
  <2>1. \E fold : AdvisoryFold(fold, entry, advisories)  BY <1>1, <1>5 DEF AdvisoryFold
  <2> QED  BY <2>1, AdvisoriesAreFold
<1>7. \A S \in SUBSET (1 .. n) :
        fold[S] = IF S = {} THEN <<>> ELSE AddAdvisory(fold[S \ {Max(S)}], advisories[Max(S)], entry)
  BY <1>1, <1>6 DEF AdvisoryFold
<1>8. fold[1 .. n] = closed[1 .. n]
  <2>1. fold[{}] = closed[{}]  BY <1>3, <1>7
  <2>2. \A S \in SUBSET (1 .. n) : S # {} /\ fold[S \ {Max(S)}] = closed[S \ {Max(S)}] => fold[S] = closed[S]
    BY <1>4, <1>7
  <2>3. StepsAgree(fold, closed, n)  BY <2>1, <2>2 DEF StepsAgree
  <2> QED  BY <2>3, SameFold
<1> QED  BY <1>1, <1>6, <1>8 DEF closed

\* What is found of a package is what applies to it, of each identifier one advisory
\* that does.
LEMMA AdvisoriesOf ==
  ASSUME NEW entry, NEW advisories, advisories \in Seq(ToSet(advisories)),
         NEW found, found = AdvisoriesFor(entry, advisories)
  PROVE  /\ \A id : id \in DOMAIN found <=> \E a \in ToSet(advisories) : a.id = id /\ vulnerableTo(entry, a)
         /\ \A id \in DOMAIN found : found[id] \in ToSet(advisories) /\ found[id].id = id /\ vulnerableTo(entry, found[id])
<1>1. PICK n \in Nat : n = Len(advisories) /\ DOMAIN advisories = 1 .. n  BY LenProperties
<1>2. ToSet(advisories) = {advisories[i] : i \in 1 .. n}  BY <1>1 DEF ToSet
<1>3. found = LastSaid(entry, advisories, 1 .. n)  BY <1>1, LastAdvisoryCounts
<1>4. \A id : id \in DOMAIN found <=> \E i \in 1 .. n : advisories[i].id = id /\ vulnerableTo(entry, advisories[i])
  BY <1>3 DEF LastSaid, Applying
<1>5. ASSUME NEW id \in DOMAIN found
      PROVE  found[id] \in ToSet(advisories) /\ found[id].id = id /\ vulnerableTo(entry, found[id])
  <2>1. PICK Q : Q = PlacesOfId(entry, advisories, 1 .. n, id)  OBVIOUS
  <2>2. Q \in SUBSET (0 .. n) /\ Q # {}  BY <1>4, <2>1 DEF PlacesOfId, Applying
  <2>3. PICK m \in Q : m = Max(Q)  BY <2>2, GreatestIsMax
  <2>4. m \in 1 .. n /\ advisories[m].id = id /\ vulnerableTo(entry, advisories[m])
    BY <2>1, <2>3 DEF PlacesOfId, Applying
  <2>5. found[id] = advisories[m]  BY <1>3, <2>1, <2>3 DEF LastSaid
  <2> QED  BY <1>2, <2>4, <2>5
<1> QED  BY <1>2, <1>4, <1>5

\* The packages that are examined: those that are due, and only possible ones,
\* each as one of its entries describes it.
LEMMA ExaminedAre ==
  ASSUME NEW lock, lock \in Seq(ToSet(lock)), NEW policy, NEW E, E = Examined(lock, policy)
  PROVE  /\ Due(lock, policy) \subseteq DOMAIN E
         /\ DOMAIN E \subseteq Possible(lock, policy)
         /\ \A p \in DOMAIN E : E[p] \in EntriesOf(p, lock)
<1>1. PICK u : u = uniq(lock)  OBVIOUS
<1>2. DOMAIN u = Identities(lock) /\ \A p \in Identities(lock) : u[p] \in EntriesOf(p, lock)  BY <1>1, UniqOf
<1>3. E = [p \in {q \in DOMAIN u : policy.includeDev \/ ~u[q].dev} |-> u[p]]
  BY <1>1 DEF Examined, Restrict
<1> QED  BY <1>2, <1>3 DEF Due, Possible

\* The rules of the policy, and no others.
LEMMA RulesAreNamed == ASSUME NEW entry, NEW policy PROVE PolicyRules(entry, policy) \subseteq RuleNames
<1>1. licenseRules(entry, policy.licenses) \subseteq RuleNames
  <2>1. ~policy.licenses.enabled => licenseRules(entry, policy.licenses) = {}  BY DEF licenseRules
  <2>2. policy.licenses.enabled => licenseRules(entry, policy.licenses) \subseteq RuleNames
    BY DEF licenseRules, RuleNames
  <2> QED  BY <2>1, <2>2
<1>2. MaintenanceRules(policy.health[entry.package], policy.maintenance) \subseteq RuleNames
  BY DEF MaintenanceRules, RuleNames
<1> QED  BY <1>1, <1>2 DEF PolicyRules, RuleNames

LEMMA EffectiveIsMax ==
  ASSUME NEW a, a.severity \in Nat, NEW policy
  PROVE  EffectiveSeverity(a, policy) =
           Max({a.severity} \cup (IF a.knownExploited /\ policy.failOnKnownExploited THEN {3} ELSE {}))
<1>1. PICK s \in Nat : s = a.severity  OBVIOUS
<1>2. Max({s}) = s  BY MaxOfOne
<1>3. CASE a.knownExploited /\ policy.failOnKnownExploited
  <2>1. {s} \in SUBSET (0 .. (s + 3)) /\ 3 \in 0 .. (s + 3) /\ s + 3 \in Nat  OBVIOUS
  <2>2. Max({s} \cup {3}) = IF 3 > s THEN 3 ELSE s  BY <1>2, <2>1, MaxWith
  <2> QED  BY <1>1, <1>3, <2>2 DEF EffectiveSeverity
<1>4. CASE ~(a.knownExploited /\ policy.failOnKnownExploited)
  BY <1>1, <1>2, <1>4 DEF EffectiveSeverity
<1> QED  BY <1>3, <1>4

\* The findings of a scan by a database: for every advisory that affects a
\* package that is due, and only for those that affect a possible one.
LEMMA AdvisoriesAreComplete ==
  ASSUME NEW lock, IsLock(lock),
         NEW advisories, IsDatabase(advisories),
         NEW policy, NEW E, E = Examined(lock, policy),
         NEW findings, findings = Join(findingsFromAdvisories(E, advisories, policy), findingsFromPolicy(E, policy))
  PROVE  AdvisoriesComplete(findings, lock, policy, advisories)
<1> DEFINE Ids == {a.id : a \in ToSet(advisories)}
           Effective(a) == Max({a.severity} \cup (IF a.knownExploited /\ policy.failOnKnownExploited THEN {3} ELSE {}))
<1>0. /\ lock \in Seq(ToSet(lock)) /\ \A e \in ToSet(lock) : IsEntry(e)
      /\ advisories \in Seq(ToSet(advisories)) /\ \A a \in ToSet(advisories) : IsAdvisory(a)
  BY DEF IsLock, IsDatabase, IsList
<1>1. /\ Due(lock, policy) \subseteq DOMAIN E /\ DOMAIN E \subseteq Possible(lock, policy)
      /\ \A p \in DOMAIN E : E[p] \in EntriesOf(p, lock)
  BY <1>0, ExaminedAre
<1>2. PICK A : A = findingsFromAdvisories(E, advisories, policy)  OBVIOUS
<1>3. PICK P : P = findingsFromPolicy(E, policy)  OBVIOUS
<1>4. PICK Found : Found = [p \in DOMAIN E |-> AdvisoriesFor(E[p], advisories)]  OBVIOUS
<1>5. A = [key \in UNION {(DOMAIN Found[p]) \X {p} : p \in DOMAIN E} |->
           [severity |-> EffectiveSeverity(Found[key[2]][key[1]], policy), fixes |-> {}]]
  BY <1>2, <1>4 DEF findingsFromAdvisories
<1>6. ASSUME NEW key
      PROVE  key \in DOMAIN A <=> \E p \in DOMAIN E : \E id \in DOMAIN Found[p] : key = <<id, p>>
  BY <1>5
<1>7. \A key \in DOMAIN P : key[1] \notin Ids
  <2>1. DOMAIN P = UNION {PolicyRules(E[p], policy) \X {p} : p \in DOMAIN E}  BY <1>3 DEF findingsFromPolicy
  <2>2. \A key \in DOMAIN P : key[1] \in RuleNames  BY <2>1, RulesAreNamed
  <2> QED  BY <1>0, <2>2 DEF IsAdvisory
<1>8. DOMAIN findings = DOMAIN A \cup DOMAIN P /\ \A key \in DOMAIN A : findings[key] = A[key]
  BY <1>2, <1>3 DEF Join
\* An advisory affects a package as the entry that is examined says.
<1>9. ASSUME NEW p \in DOMAIN E, NEW id, NEW a \in ToSet(advisories), a.id = id
      PROVE  a \in Affecting(<<id, p>>, lock, advisories) <=> vulnerableTo(E[p], a)
  <2>1. PICK e : e = E[p]  OBVIOUS
  <2>2. e \in ToSet(lock) /\ Identity(e) = p  BY <1>1, <2>1 DEF EntriesOf
  <2>3. \A v : IsVersion(v) => (satisfiesSimpleRange(v, a.affected) <=> InRange(v, a.affected))
    BY <1>0, RangeIsWithin DEF IsAdvisory
  <2>4. vulnerableTo(e, a) <=> a.package = e.package /\ InRange(e.version, a.affected)
    BY <1>0, <2>2, <2>3 DEF vulnerableTo, IsEntry
  <2>5. PICK key : key = <<id, p>>  OBVIOUS
  <2>6. key[1] = id /\ key[2] = p  BY <2>5
  <2>7. a \in Affecting(key, lock, advisories) <=>
          \E f \in ToSet(lock) : Identity(f) = p /\ f.package = a.package /\ InRange(f.version, a.affected)
    BY <1>9, <2>6 DEF Affecting, InRange
  <2>8. \A f : Identity(f) = p => f.package = e.package /\ f.version = e.version  BY <2>2 DEF Identity
  <2> QED  BY <2>1, <2>2, <2>4, <2>5, <2>7, <2>8
<1>10. ASSUME NEW p \in DOMAIN E, NEW id
       PROVE  /\ id \in DOMAIN Found[p] <=> id \in Ids /\ Affecting(<<id, p>>, lock, advisories) # {}
              /\ id \in DOMAIN Found[p] => Found[p][id] \in Affecting(<<id, p>>, lock, advisories)
  <2>1. Found[p] = AdvisoriesFor(E[p], advisories)  BY <1>4
  <2>2. id \in DOMAIN Found[p] <=> \E a \in ToSet(advisories) : a.id = id /\ vulnerableTo(E[p], a)
    BY <1>0, <2>1, AdvisoriesOf
  <2>3. id \in DOMAIN Found[p] =>
          Found[p][id] \in ToSet(advisories) /\ Found[p][id].id = id /\ vulnerableTo(E[p], Found[p][id])
    BY <1>0, <2>1, AdvisoriesOf
  <2>4. \A a \in Affecting(<<id, p>>, lock, advisories) : a \in ToSet(advisories) /\ a.id = id
    BY DEF Affecting
  <2>5. id \in DOMAIN Found[p] => id \in Ids /\ Affecting(<<id, p>>, lock, advisories) # {}
    BY <1>9, <2>2
  <2>6. id \in Ids /\ Affecting(<<id, p>>, lock, advisories) # {} => id \in DOMAIN Found[p]
    BY <1>9, <2>2, <2>4
  <2>7. id \in DOMAIN Found[p] => Found[p][id] \in Affecting(<<id, p>>, lock, advisories)
    BY <1>9, <2>3
  <2> QED  BY <2>5, <2>6, <2>7
<1>11. \A key \in Ids \X Due(lock, policy) : Affecting(key, lock, advisories) # {} => key \in DOMAIN findings /\ key[1] \in Ids
  <2>1. ASSUME NEW id \in Ids, NEW p \in Due(lock, policy), Affecting(<<id, p>>, lock, advisories) # {}
        PROVE  <<id, p>> \in DOMAIN findings
    <3>1. p \in DOMAIN E  BY <1>1
    <3>2. id \in DOMAIN Found[p]  BY <1>10, <2>1, <3>1
    <3> QED  BY <1>6, <1>8, <3>1, <3>2
  <2>2. \A key \in Ids \X Due(lock, policy) : key = <<key[1], key[2]>> /\ key[1] \in Ids /\ key[2] \in Due(lock, policy)
    OBVIOUS
  <2> HIDE DEF Ids
  <2> QED  BY <2>1, <2>2
<1>12. ASSUME NEW key \in DOMAIN findings, key[1] \in Ids
       PROVE  /\ key \in Ids \X Possible(lock, policy)
              /\ Affecting(key, lock, advisories) # {}
              /\ \E a \in Affecting(key, lock, advisories) :
                   findings[key].severity = Effective(a)
  <2>1. key \in DOMAIN A  BY <1>7, <1>8, <1>12
  <2>2. PICK p \in DOMAIN E : \E id \in DOMAIN Found[p] : key = <<id, p>>  BY <1>6, <2>1
  <2>3. PICK id \in DOMAIN Found[p] : key = <<id, p>>  BY <2>2
  <2>4. key[1] = id /\ key[2] = p  BY <2>3
  <2>5. PICK a : a = Found[p][id]  OBVIOUS
  <2>6. findings[key].severity = EffectiveSeverity(a, policy)
    <3>1. A[key] = [severity |-> EffectiveSeverity(a, policy), fixes |-> {}]
      <4>1. A[key] = [severity |-> EffectiveSeverity(Found[key[2]][key[1]], policy), fixes |-> {}]
        BY <1>5, <2>1
      <4>2. Found[key[2]][key[1]] = a  BY <2>4, <2>5
      <4> QED  BY <4>1, <4>2, Zenon
    <3> QED  BY <1>8, <2>1, <3>1
  <2>7. a \in Affecting(key, lock, advisories) /\ a \in ToSet(advisories)
    <3>1. a \in Affecting(<<id, p>>, lock, advisories)  BY <1>10, <2>5
    <3> QED  BY <2>3, <3>1 DEF Affecting
  <2>8. EffectiveSeverity(a, policy) = Effective(a)  BY <1>0, <2>7, EffectiveIsMax DEF IsAdvisory
  <2>9. id \in Ids /\ p \in Possible(lock, policy)  BY <1>1, <1>12, <2>4
  <2> HIDE DEF Ids, Effective
  <2> QED  BY <2>3, <2>6, <2>7, <2>8, <2>9
<1> HIDE DEF Ids, Effective
<1> DEFINE Reports == {key \in DOMAIN findings : key[1] \in Ids}
           Affected(purls) == {key \in Ids \X purls : Affecting(key, lock, advisories) # {}}
<1>13. Affected(Due(lock, policy)) \subseteq Reports  BY <1>11
<1>14. Reports \subseteq Affected(Possible(lock, policy))  BY <1>12
<1>15. \A key \in Reports : \E a \in Affecting(key, lock, advisories) :
         findings[key].severity = Effective(a)
  BY <1>12
<1> QED  BY <1>13, <1>14, <1>15 DEF AdvisoriesComplete, Ids, Effective

-----------------------------------------------------------------------------
(* The policy.                                                             *)

\* A list of labels ends in another if its last labels are those.
LEMMA SuffixIsEnd ==
  ASSUME NEW s, NEW t, IsList(s), IsList(t)
  PROVE  IsSuffix(s, t) <=> Len(t) >= Len(s) /\ SubSeq(t, Len(t) - Len(s) + 1, Len(t)) = s
<1>1. PICK X : X = ToSet(s) \cup ToSet(t)  OBVIOUS
<1>2. s \in Seq(X) /\ t \in Seq(X)  BY <1>1 DEF IsList
<1>3. PICK m \in Nat, n \in Nat : m = Len(s) /\ n = Len(t)  BY <1>2, LenProperties
<1>4. DOMAIN s = 1 .. m /\ DOMAIN t = 1 .. n /\ (\A i \in 1 .. m : s[i] \in X) /\ (\A i \in 1 .. n : t[i] \in X)
  BY <1>2, <1>3, LenProperties, ElementOfSeq
<1>5. s = [i \in 1 .. m |-> s[i]]  BY <1>2, <1>3, LenProperties
<1>6. PICK rs, rt : rs = Reverse(s) /\ rt = Reverse(t)  OBVIOUS
<1>7. rs = [i \in 1 .. m |-> s[m - i + 1]] /\ rt = [i \in 1 .. n |-> t[n - i + 1]]
  BY <1>3, <1>6 DEF Reverse
<1>8. rs \in Seq(X) /\ rt \in Seq(X) /\ Len(rs) = m /\ Len(rt) = n
  <2>1. \A i \in 1 .. m : m - i + 1 \in 1 .. m  OBVIOUS
  <2>2. \A i \in 1 .. n : n - i + 1 \in 1 .. n  OBVIOUS
  <2>3. rs \in [1 .. m -> X] /\ rt \in [1 .. n -> X]  BY <1>4, <1>7, <2>1, <2>2
  <2> QED  BY <2>3, SeqDef, LenProperties
<1>9. IsSuffix(s, t) <=> m <= n /\ SubSeq(rs, 1, m) = SubSeq(rt, 1, m)
  BY <1>3, <1>6, <1>8 DEF IsSuffix, IsPrefix
<1>10. CASE m <= n
  <2>1. SubSeq(rs, 1, m) = [i \in 1 .. m |-> s[m - i + 1]]  BY <1>7
  <2>2. SubSeq(rt, 1, m) = [i \in 1 .. m |-> t[n - i + 1]]  BY <1>7, <1>10
  <2>3. SubSeq(t, n - m + 1, n) = [i \in 1 .. m |-> t[n - m + i]]  BY <1>10
  <2>4. SubSeq(rs, 1, m) = SubSeq(rt, 1, m) <=> \A i \in 1 .. m : s[m - i + 1] = t[n - i + 1]
    BY <2>1, <2>2
  <2>5. SubSeq(t, n - m + 1, n) = s <=> \A i \in 1 .. m : t[n - m + i] = s[i]
    BY <1>5, <2>3
  <2>6. (\A i \in 1 .. m : s[m - i + 1] = t[n - i + 1]) <=> (\A i \in 1 .. m : t[n - m + i] = s[i])
    OBVIOUS
  <2> QED  BY <1>3, <1>9, <1>10, <2>4, <2>5, <2>6
<1>11. CASE m > n
  BY <1>3, <1>9, <1>11
<1> QED  BY <1>10, <1>11

LEMMA HostIsBeneath ==
  ASSUME NEW host, NEW hosts, host = Absent \/ IsList(host), \A item \in hosts : IsList(item)
  PROVE  hostMatches(host, hosts) <=> host # Absent /\ Beneath(host, hosts)
<1>1. host # Absent => \A item \in hosts : IsSuffix(item, host) <=>
                         Len(host) >= Len(item) /\ SubSeq(host, Len(host) - Len(item) + 1, Len(host)) = item
  BY SuffixIsEnd
<1> QED  BY <1>1 DEF hostMatches, Beneath

\* The rules about the package, its version and where it comes from.
SourceRules(entry, policy) ==
  LET range == policy.restrictions[entry.package]
      Broken ==
        [denied |-> entry.package \in policy.denied,
         unapproved |-> policy.allowed # {} /\ entry.package \notin policy.allowed,
         version |-> range # Absent /\ ~satisfiesSimpleRange(entry.version, range),
         registryDenied |-> registryDenied(entry.host, policy.deniedHosts),
         registryUnapproved |-> /\ ~registryDenied(entry.host, policy.deniedHosts)
                                /\ ~registryAllowed(entry.host, policy.allowedHosts)]
  IN  {rule \in DOMAIN Broken : Broken[rule]}

SourceAcceptable(entry, policy) ==
  LET range == policy.restrictions[entry.package] IN
  /\ entry.package \notin policy.denied
  /\ entry.package \in policy.allowed \/ policy.allowed = {}
  /\ range # Absent => InRange(entry.version, range)
  /\ entry.host # Absent =>
       /\ ~Beneath(entry.host, policy.deniedHosts)
       /\ Beneath(entry.host, policy.allowedHosts) \/ policy.allowedHosts = {}

LEMMA SourceRulesBroken ==
  ASSUME NEW entry, IsEntry(entry), NEW policy, PolicyFor(policy, entry.package)
  PROVE  SourceRules(entry, policy) = {} <=> SourceAcceptable(entry, policy)
<1> DEFINE range == policy.restrictions[entry.package]
           denies == registryDenied(entry.host, policy.deniedHosts)
           allows == registryAllowed(entry.host, policy.allowedHosts)
           banned == entry.package \in policy.denied
           unapproved == policy.allowed # {} /\ entry.package \notin policy.allowed
           outside == range # Absent /\ ~satisfiesSimpleRange(entry.version, range)
           Broken == [denied |-> banned, unapproved |-> unapproved, version |-> outside,
                      registryDenied |-> denies, registryUnapproved |-> ~denies /\ ~allows]
<1>1. SourceRules(entry, policy) = {rule \in DOMAIN Broken : Broken[rule]}  BY DEF SourceRules
<1>2. denies <=> entry.host # Absent /\ Beneath(entry.host, policy.deniedHosts)
  BY HostIsBeneath DEF registryDenied, IsEntry, PolicyFor
<1>3. allows <=> (entry.host # Absent => Beneath(entry.host, policy.allowedHosts) \/ policy.allowedHosts = {})
  BY HostIsBeneath DEF registryAllowed, IsEntry, PolicyFor
<1>4. outside <=> ~ (range # Absent => InRange(entry.version, range))
  BY RangeIsWithin DEF IsEntry, PolicyFor
<1>5. SourceAcceptable(entry, policy) <=> ~banned /\ ~unapproved /\ ~outside /\ ~denies /\ allows
  BY <1>2, <1>3, <1>4 DEF SourceAcceptable
<1>6. DOMAIN Broken = {"denied", "unapproved", "version", "registryDenied", "registryUnapproved"}  OBVIOUS
<1>7. (Broken["denied"] <=> banned) /\ (Broken["unapproved"] <=> unapproved) /\ (Broken["version"] <=> outside)
      /\ (Broken["registryDenied"] <=> denies) /\ (Broken["registryUnapproved"] <=> ~denies /\ ~allows)
  OBVIOUS
<1> HIDE DEF Broken
<1>8. {rule \in DOMAIN Broken : Broken[rule]} = {} <=>
        ~Broken["denied"] /\ ~Broken["unapproved"] /\ ~Broken["version"]
        /\ ~Broken["registryDenied"] /\ ~Broken["registryUnapproved"]
  BY <1>6
<1> HIDE DEF denies, allows, banned, unapproved, outside
<1> QED  BY <1>1, <1>5, <1>7, <1>8

MaintenanceAcceptable(record, maintenance) ==
  maintenance.enabled =>
    IF record = Absent THEN ~maintenance.requireMetadata
    ELSE /\ ~(record.deprecated /\ maintenance.denyDeprecated)
         /\ record.date # "invalid"
         /\ record.date = "valid" => record.age <= maintenance.maxAge

LEMMA MaintenanceRulesBroken ==
  ASSUME NEW record, NEW maintenance, record = Absent \/ (record.age \in Int /\ maintenance.maxAge \in Int)
  PROVE  MaintenanceRules(record, maintenance) = {} <=> MaintenanceAcceptable(record, maintenance)
<1> DEFINE known == record # Absent
           missing == ~known /\ maintenance.requireMetadata
           deprecated == known /\ record.deprecated /\ maintenance.denyDeprecated
           invalid == known /\ record.date = "invalid"
           stale == known /\ record.date = "valid" /\ record.age > maintenance.maxAge
           Broken == [missing |-> missing, deprecated |-> deprecated, invalid |-> invalid, stale |-> stale]
<1>1. MaintenanceRules(record, maintenance) = IF maintenance.enabled THEN {rule \in DOMAIN Broken : Broken[rule]} ELSE {}
  BY DEF MaintenanceRules
<1>2. stale <=> ~ (known => (record.date = "valid" => record.age <= maintenance.maxAge))
  OBVIOUS
<1>3. MaintenanceAcceptable(record, maintenance) <=>
        (maintenance.enabled => ~missing /\ ~deprecated /\ ~invalid /\ ~stale)
  BY <1>2 DEF MaintenanceAcceptable
<1> HIDE DEF missing, deprecated, invalid, stale
<1>4. {rule \in DOMAIN Broken : Broken[rule]} = {} <=> ~missing /\ ~deprecated /\ ~invalid /\ ~stale
  OBVIOUS
<1> QED  BY <1>1, <1>3, <1>4

LicenseOf(entry, licenses) ==
  IF licenses.overrides[entry.package] = Absent THEN entry.license ELSE licenses.overrides[entry.package]

LicenseAcceptable(entry, licenses) ==
  LET license == LicenseOf(entry, licenses) IN
  licenses.enabled =>
    IF license = Absent THEN licenses.unknown # "fail"
    ELSE license \notin licenses.denied /\ (license \in licenses.allowed \/ licenses.allowed = {})

\* Of the rules for licenses, review is no serious one, and neither is an
\* unknown license unless it is to fail.
LEMMA LicenseRulesBroken ==
  ASSUME NEW entry, NEW policy
  PROVE  (\E rule \in licenseRules(entry, policy.licenses) : RuleSeverity(rule, policy) >= 3)
           <=> ~LicenseAcceptable(entry, policy.licenses)
<1>1. PICK l : l = policy.licenses  OBVIOUS
<1>2. PICK license : license = LicenseOf(entry, l)  OBVIOUS
<1>3. PICK Rules : Rules = licenseRules(entry, l)  OBVIOUS
<1>4. license = IF l.overrides[entry.package] # Absent THEN l.overrides[entry.package] ELSE entry.license
  BY <1>2 DEF LicenseOf
<1>5. RuleSeverity("license review", policy) = 2 /\ RuleSeverity("license denied", policy) = 3
      /\ RuleSeverity("license not allowed", policy) = 3
      /\ RuleSeverity("license unknown", policy) = IF l.unknown # "fail" THEN 2 ELSE 3
  BY <1>1 DEF RuleSeverity
<1>6. SUFFICES (\E rule \in Rules : RuleSeverity(rule, policy) >= 3) <=> ~LicenseAcceptable(entry, l)
  BY <1>1, <1>3
<1>7. CASE ~l.enabled
  <2>1. Rules = {}  BY <1>3, <1>7 DEF licenseRules
  <2> QED  BY <1>7, <2>1 DEF LicenseAcceptable
<1>8. CASE l.enabled /\ license = Absent
  <2>1. Rules = IF l.unknown = "allow" THEN {} ELSE {"license unknown"}  BY <1>3, <1>4, <1>8 DEF licenseRules
  <2>2. LicenseAcceptable(entry, l) <=> l.unknown # "fail"  BY <1>2, <1>8 DEF LicenseAcceptable
  <2>3. CASE l.unknown = "allow"
    <3>1. Rules = {}  BY <2>1, <2>3
    <3>2. "allow" # "fail"  OBVIOUS
    <3> QED  BY <2>2, <2>3, <3>1, <3>2
  <2>4. CASE l.unknown # "allow"
    <3>1. Rules = {"license unknown"}  BY <2>1, <2>4
    <3>2. (\E rule \in Rules : RuleSeverity(rule, policy) >= 3) <=> RuleSeverity("license unknown", policy) >= 3  BY <3>1
    <3>3. RuleSeverity("license unknown", policy) >= 3 <=> l.unknown = "fail"
      <4>1. PICK s : s = RuleSeverity("license unknown", policy)  OBVIOUS
      <4>2. s = IF l.unknown # "fail" THEN 2 ELSE 3  BY <1>5, <4>1
      <4>3. s >= 3 <=> l.unknown = "fail"  BY <4>2
      <4> QED  BY <4>1, <4>3
    <3> QED  BY <2>2, <3>2, <3>3
  <2> QED  BY <2>3, <2>4
<1>9. CASE l.enabled /\ license # Absent
  <2>1. Rules = IF license \in l.denied THEN {"license denied"}
                ELSE IF l.allowed # {} /\ license \notin l.allowed THEN {"license not allowed"}
                ELSE IF license \in l.reviewRequired THEN {"license review"} ELSE {}
    BY <1>3, <1>4, <1>9 DEF licenseRules
  <2>2. LicenseAcceptable(entry, l) <=> license \notin l.denied /\ (license \in l.allowed \/ l.allowed = {})
    BY <1>2, <1>9 DEF LicenseAcceptable
  <2>3. CASE license \in l.denied
    <3>1. "license denied" \in Rules  BY <2>1, <2>3
    <3>2. \E rule \in Rules : RuleSeverity(rule, policy) >= 3
      <4>1. PICK rule \in Rules : RuleSeverity(rule, policy) = 3  BY <1>5, <3>1
      <4> QED  BY <4>1
    <3> QED  BY <2>2, <2>3, <3>2
  <2>4. CASE license \notin l.denied /\ l.allowed # {} /\ license \notin l.allowed
    <3>1. "license not allowed" \in Rules  BY <2>1, <2>4
    <3>2. \E rule \in Rules : RuleSeverity(rule, policy) >= 3
      <4>1. PICK rule \in Rules : RuleSeverity(rule, policy) = 3  BY <1>5, <3>1
      <4> QED  BY <4>1
    <3> QED  BY <2>2, <2>4, <3>2
  <2>5. CASE license \notin l.denied /\ ~ (l.allowed # {} /\ license \notin l.allowed)
    <3>1. \A rule \in Rules : rule = "license review"  BY <2>1, <2>5
    <3>2. \A rule \in Rules : RuleSeverity(rule, policy) = 2  BY <1>5, <3>1
    <3>3. ~ \E rule \in Rules : RuleSeverity(rule, policy) >= 3  BY <3>2
    <3> QED  BY <2>2, <2>5, <3>3
  <2> QED  BY <2>3, <2>4, <2>5
<1> QED  BY <1>7, <1>8, <1>9

\* A package breaks a serious rule unless it is acceptable.
LEMMA SeriousIsUnacceptable ==
  ASSUME NEW entry, IsEntry(entry), NEW policy, PolicyFor(policy, entry.package)
  PROVE  (\E rule \in PolicyRules(entry, policy) : RuleSeverity(rule, policy) >= 3) <=> ~Acceptable(entry, policy)
<1> DEFINE S == SourceRules(entry, policy)
           M == MaintenanceRules(policy.health[entry.package], policy.maintenance)
           L == licenseRules(entry, policy.licenses)
<1>1. PolicyRules(entry, policy) = S \cup M \cup L  BY DEF PolicyRules, SourceRules
<1>2. Acceptable(entry, policy) <=>
        /\ SourceAcceptable(entry, policy)
        /\ MaintenanceAcceptable(policy.health[entry.package], policy.maintenance)
        /\ LicenseAcceptable(entry, policy.licenses)
  BY DEF Acceptable, SourceAcceptable, MaintenanceAcceptable, LicenseAcceptable, LicenseOf, InRange
<1>3. S = {} <=> SourceAcceptable(entry, policy)  BY SourceRulesBroken
<1>4. M = {} <=> MaintenanceAcceptable(policy.health[entry.package], policy.maintenance)
  BY MaintenanceRulesBroken DEF PolicyFor
<1>5. (\E rule \in L : RuleSeverity(rule, policy) >= 3) <=> ~LicenseAcceptable(entry, policy.licenses)
  BY LicenseRulesBroken
<1>6. \A rule \in S \cup M : RuleSeverity(rule, policy) = 3
  <2>1. S \subseteq {"denied", "unapproved", "version", "registryDenied", "registryUnapproved"}  BY DEF SourceRules
  <2>2. M \subseteq {"missing", "deprecated", "invalid", "stale"}  BY DEF MaintenanceRules
  <2> QED  BY <2>1, <2>2 DEF RuleSeverity
<1> HIDE DEF S, M, L
<1> QED  BY <1>1, <1>2, <1>3, <1>4, <1>5, <1>6

\* A package without a serious finding is acceptable as one of its entries
\* describes it, and one that is acceptable by all of them has none.
LEMMA PolicyIsComplete ==
  ASSUME NEW lock, IsLock(lock),
         NEW advisories, IsDatabase(advisories),
         NEW policy, \A e \in ToSet(lock) : PolicyFor(policy, e.package),
         NEW E, E = Examined(lock, policy),
         NEW findings, findings = Join(findingsFromAdvisories(E, advisories, policy), findingsFromPolicy(E, policy))
  PROVE  PolicyComplete(findings, lock, policy, advisories)
<1> DEFINE Ids == {a.id : a \in ToSet(advisories)}
           Serious(p) == \E key \in DOMAIN findings : key[2] = p /\ key[1] \notin Ids /\ findings[key].severity >= 3
           Good(p) == {entry \in EntriesOf(p, lock) : Acceptable(entry, policy)}
<1>0. /\ lock \in Seq(ToSet(lock)) /\ \A e \in ToSet(lock) : IsEntry(e)
      /\ advisories \in Seq(ToSet(advisories)) /\ \A a \in ToSet(advisories) : IsAdvisory(a)
  BY DEF IsLock, IsDatabase, IsList
<1>1. /\ Due(lock, policy) \subseteq DOMAIN E /\ DOMAIN E \subseteq Possible(lock, policy)
      /\ \A p \in DOMAIN E : E[p] \in EntriesOf(p, lock)
  BY <1>0, ExaminedAre
<1>2. PICK A : A = findingsFromAdvisories(E, advisories, policy)  OBVIOUS
<1>3. PICK P : P = findingsFromPolicy(E, policy)  OBVIOUS
<1>4. \A key \in DOMAIN A : key[1] \in Ids
  <2>1. PICK Found : Found = [p \in DOMAIN E |-> AdvisoriesFor(E[p], advisories)]  OBVIOUS
  <2>2. DOMAIN A = UNION {(DOMAIN Found[p]) \X {p} : p \in DOMAIN E}
    BY <1>2, <2>1 DEF findingsFromAdvisories
  <2>3. \A p \in DOMAIN E : DOMAIN Found[p] \subseteq Ids
    BY <1>0, <2>1, AdvisoriesOf
  <2> HIDE DEF Ids
  <2> QED  BY <2>2, <2>3
<1>5. P = [key \in UNION {PolicyRules(E[p], policy) \X {p} : p \in DOMAIN E} |->
             [severity |-> RuleSeverity(key[1], policy), fixes |-> {}]]
  BY <1>3 DEF findingsFromPolicy
<1>6. \A key \in DOMAIN P : key[1] \notin Ids
  <2>1. \A key \in DOMAIN P : key[1] \in RuleNames  BY <1>5, RulesAreNamed
  <2> QED  BY <1>0, <2>1 DEF IsAdvisory
<1>7. DOMAIN findings = DOMAIN A \cup DOMAIN P /\ \A key \in DOMAIN P : key \notin DOMAIN A => findings[key] = P[key]
  BY <1>2, <1>3 DEF Join
<1>8. ASSUME NEW p
      PROVE  Serious(p) <=> p \in DOMAIN E /\ \E rule \in PolicyRules(E[p], policy) : RuleSeverity(rule, policy) >= 3
  <2>1. ASSUME Serious(p)
        PROVE  p \in DOMAIN E /\ \E rule \in PolicyRules(E[p], policy) : RuleSeverity(rule, policy) >= 3
    <3>1. PICK key \in DOMAIN findings : key[2] = p /\ key[1] \notin Ids /\ findings[key].severity >= 3  BY <2>1
    <3>2. key \in DOMAIN P /\ key \notin DOMAIN A  BY <1>4, <1>7, <3>1
    <3>3. findings[key] = [severity |-> RuleSeverity(key[1], policy), fixes |-> {}]  BY <1>5, <1>7, <3>2
    <3>4. RuleSeverity(key[1], policy) >= 3  BY <3>1, <3>3
    <3>5. p \in DOMAIN E /\ key[1] \in PolicyRules(E[p], policy)  BY <1>5, <3>1, <3>2
    <3> QED  BY <3>4, <3>5
  <2>2. ASSUME p \in DOMAIN E, NEW rule \in PolicyRules(E[p], policy), RuleSeverity(rule, policy) >= 3
        PROVE  Serious(p)
    <3>1. PICK key : key = <<rule, p>>  OBVIOUS
    <3>2. key[1] = rule /\ key[2] = p  BY <3>1
    <3>3. key \in PolicyRules(E[p], policy) \X {p}  BY <3>1
    <3>4. key \in DOMAIN P  BY <1>5, <2>2, <3>3
    <3>5. key[1] \notin Ids /\ key \notin DOMAIN A /\ key \in DOMAIN findings  BY <1>4, <1>6, <1>7, <3>4
    <3>6. findings[key] = [severity |-> RuleSeverity(rule, policy), fixes |-> {}]  BY <1>5, <1>7, <3>2, <3>4, <3>5
    <3>7. findings[key].severity >= 3  BY <2>2, <3>6
    <3> QED  BY <3>2, <3>5, <3>7
  <2> QED  BY <2>1, <2>2
<1>9. ASSUME NEW p \in DOMAIN E PROVE Serious(p) <=> ~Acceptable(E[p], policy)
  <2>1. PICK e : e = E[p]  OBVIOUS
  <2>2. IsEntry(e) /\ PolicyFor(policy, e.package)  BY <1>0, <1>1, <2>1 DEF EntriesOf
  <2>3. (\E rule \in PolicyRules(e, policy) : RuleSeverity(rule, policy) >= 3) <=> ~Acceptable(e, policy)
    BY <2>2, SeriousIsUnacceptable
  <2> HIDE DEF Serious
  <2> QED  BY <1>8, <2>1, <2>3
<1> HIDE DEF Serious
<1>10. \A p \in Due(lock, policy) : Serious(p) \/ Good(p) # {}  BY <1>1, <1>9
<1>11. \A p \in Identities(lock) : Serious(p) => p \in Possible(lock, policy) /\ Good(p) # EntriesOf(p, lock)
  <2>1. \A p : Serious(p) => p \in DOMAIN E  BY <1>8
  <2> QED  BY <1>1, <1>9, <2>1
<1> QED  BY <1>10, <1>11 DEF PolicyComplete, Serious

-----------------------------------------------------------------------------
(* What has changed.                                                       *)

VersionsIn(entries) == {entry.version : entry \in entries}

MovedIn(before, after, c) ==
  \E old \in before, new \in after :
    /\ old.version \notin VersionsIn(after) /\ new.version \notin VersionsIn(before)
    /\ c.before = old /\ c.after = new
    /\ c.kind = "upgraded" => compareVersions(new.version, old.version) > 0
    /\ c.kind = "downgraded" => compareVersions(new.version, old.version) < 0
    /\ c.kind \in {"upgraded", "downgraded", "changed"}
GoneIn(before, after, c) ==
  c.kind = "removed" /\ c.before \in before /\ c.before.version \notin VersionsIn(after) /\ c.after = Absent
NewIn(before, after, c) ==
  c.kind = "added" /\ c.after \in after /\ c.after.version \notin VersionsIn(before) /\ c.before = Absent
StaysIn(before, after, c) ==
  c.kind = "changed" /\ c.before \in before /\ c.after \in after /\ c.before.version = c.after.version

\* Each change is of one of four kinds, and what one side only has is in one.
LEMMA ChangesAre ==
  ASSUME NEW before, NEW after, IsFiniteSet(before), IsFiniteSet(after)
  PROVE  /\ \A c \in changesOf(before, after) :
              \/ MovedIn(before, after, c) \/ GoneIn(before, after, c)
              \/ NewIn(before, after, c) \/ StaysIn(before, after, c)
         /\ \A old \in before : old.version \notin VersionsIn(after) =>
              \E c \in changesOf(before, after) : c.before = old
         /\ \A new \in after : new.version \notin VersionsIn(before) =>
              \E c \in changesOf(before, after) : c.after = new
<1> DEFINE removed == {entry \in before : entry.version \notin VersionsIn(after)}
           added == {entry \in after : entry.version \notin VersionsIn(before)}
           Change(kind, old, new) == [kind |-> kind, before |-> old, after |-> new]
           Kind(n) == IF n > 0 THEN "upgraded" ELSE IF n < 0 THEN "downgraded" ELSE "changed"
           One == Cardinality(before) = 1 /\ Cardinality(after) = 1 /\ removed # {}
           C == changesOf(before, after)
<1>1. CASE One
  <2>1. C = {Change(Kind(compareVersions(new.version, old.version)), old, new) : old \in before, new \in after}
    BY <1>1 DEF changesOf, VersionsIn
  <2>2. PICK o, n : before = {o} /\ after = {n}
    <3>1. \E o : before = {o}  BY <1>1, FS_Singleton
    <3>2. \E n : after = {n}  BY <1>1, FS_Singleton
    <3> QED  BY <3>1, <3>2
  <2>3. VersionsIn(before) = {o.version} /\ VersionsIn(after) = {n.version}  BY <2>2 DEF VersionsIn
  <2>4. o.version \notin VersionsIn(after) /\ n.version \notin VersionsIn(before)
    <3>1. PICK entry \in before : entry.version \notin VersionsIn(after)  BY <1>1
    <3>2. entry = o  BY <2>2, <3>1
    <3> QED  BY <2>3, <3>1, <3>2
  <2>5. PICK k : k = Kind(compareVersions(n.version, o.version))  OBVIOUS
  <2>6. PICK c : c = Change(k, o, n)  OBVIOUS
  <2>7. C = {c}  BY <2>1, <2>2, <2>5, <2>6
  <2>8. c.kind = k /\ c.before = o /\ c.after = n  BY <2>6
  <2>9. /\ k = "upgraded" => compareVersions(n.version, o.version) > 0
        /\ k = "downgraded" => compareVersions(n.version, o.version) < 0
        /\ k \in {"upgraded", "downgraded", "changed"}
    BY <2>5
  <2>10. MovedIn(before, after, c)  BY <2>2, <2>4, <2>8, <2>9 DEF MovedIn
  <2> QED  BY <2>2, <2>7, <2>8, <2>10
<1>2. CASE ~One
  <2>1. C = {Change("removed", old, Absent) : old \in removed}
            \cup {Change("added", Absent, new) : new \in added}
            \cup {Change("changed", pair[1], pair[2]) : pair \in
                   {pair \in before \X after : pair[1].version = pair[2].version /\ pair[1].host # pair[2].host}}
    BY <1>2 DEF changesOf, VersionsIn
  <2>2. ASSUME NEW c \in C
        PROVE  GoneIn(before, after, c) \/ NewIn(before, after, c) \/ StaysIn(before, after, c)
    <3>1. CASE \E old \in removed : c = Change("removed", old, Absent)  BY <3>1 DEF GoneIn
    <3>2. CASE \E new \in added : c = Change("added", Absent, new)  BY <3>2 DEF NewIn
    <3>3. CASE \E pair \in before \X after : c = Change("changed", pair[1], pair[2]) /\ pair[1].version = pair[2].version
      BY <3>3 DEF StaysIn
    <3> QED  BY <2>1, <3>1, <3>2, <3>3
  <2>3. ASSUME NEW old \in before, old.version \notin VersionsIn(after)
        PROVE  \E c \in C : c.before = old
    <3>1. Change("removed", old, Absent) \in C  BY <2>1, <2>3
    <3>2. Change("removed", old, Absent).before = old  OBVIOUS
    <3> QED  BY <3>1, <3>2
  <2>4. ASSUME NEW new \in after, new.version \notin VersionsIn(before)
        PROVE  \E c \in C : c.after = new
    <3>1. Change("added", Absent, new) \in C  BY <2>1, <2>4
    <3>2. Change("added", Absent, new).after = new  OBVIOUS
    <3> QED  BY <3>1, <3>2
  <2> QED  BY <2>2, <2>3, <2>4
<1> QED  BY <1>1, <1>2

\* The packages of a commit: what uniq keeps of one of them.
KeptOf(package, lock) == {uniq(lock)[p] : p \in {q \in DOMAIN uniq(lock) : uniq(lock)[q].package = package}}

LEMMA KeptAre ==
  ASSUME NEW lock, lock \in Seq(ToSet(lock))
  PROVE  /\ \A package : \A e \in KeptOf(package, lock) : e \in ToSet(lock) /\ e.package = package
         /\ \A e \in ToSet(lock) : \E package : \E f \in KeptOf(package, lock) : Identity(f) = Identity(e)
         /\ \A package : IsFiniteSet(KeptOf(package, lock))
<1>1. PICK u : u = uniq(lock)  OBVIOUS
<1>2. DOMAIN u = Identities(lock) /\ \A p \in DOMAIN u : u[p] \in EntriesOf(p, lock)
  BY <1>1, UniqOf
<1>3. \A package : KeptOf(package, lock) = {u[p] : p \in {q \in DOMAIN u : u[q].package = package}}
  BY <1>1 DEF KeptOf
<1>4. \A p \in DOMAIN u : u[p] \in ToSet(lock) /\ Identity(u[p]) = p  BY <1>2 DEF EntriesOf
<1>5. \A package : \A e \in KeptOf(package, lock) : e \in ToSet(lock) /\ e.package = package  BY <1>3, <1>4
<1>6. ASSUME NEW e \in ToSet(lock) PROVE \E package : \E f \in KeptOf(package, lock) : Identity(f) = Identity(e)
  <2>1. Identity(e) \in DOMAIN u  BY <1>2 DEF Identities
  <2>2. PICK f : f = u[Identity(e)]  OBVIOUS
  <2>3. f \in KeptOf(f.package, lock) /\ Identity(f) = Identity(e)  BY <1>3, <1>4, <2>1, <2>2
  <2> QED  BY <2>3
<1>7. ASSUME NEW package PROVE IsFiniteSet(KeptOf(package, lock))
  <2>1. IsFiniteSet(ToSet(lock))
    <3>1. IsFiniteSet(1 .. Len(lock))  BY LenProperties, FS_Interval
    <3>2. ToSet(lock) = {lock[i] : i \in 1 .. Len(lock)}  BY LenProperties DEF ToSet
    <3>3. lock \in [1 .. Len(lock) -> ToSet(lock)]  BY LenProperties
    <3>4. lock \in Surjection(1 .. Len(lock), ToSet(lock))  BY <3>2, <3>3 DEF Surjection
    <3> QED  BY <3>1, <3>4, FS_Surjection
  <2>2. KeptOf(package, lock) \subseteq ToSet(lock)  BY <1>5
  <2> QED  BY <2>1, <2>2, FS_Subset
<1> QED  BY <1>5, <1>6, <1>7

\* Whoever applies the changes to what was there before gets what is there now,
\* and a package that was neither there before nor is now has none.
LEMMA ChangesAreComplete ==
  ASSUME NEW before, IsLock(before),
         NEW after, IsLock(after)
  PROVE  DiffComplete(diffDependencies(before, after), before, after)
<1>0. before \in Seq(ToSet(before)) /\ after \in Seq(ToSet(after))  BY DEF IsLock, IsList
<1>1. PICK B, A : B = ToSet(before) /\ A = ToSet(after)  OBVIOUS
<1>2. PICK C : C = diffDependencies(before, after)  OBVIOUS
<1> DEFINE Packages == {entry.package : entry \in B \cup A}
           Old(k) == KeptOf(k, before)
           New(k) == KeptOf(k, after)
           IdsOf(entries) == {Identity(entry) : entry \in entries}
           Was == {c.before : c \in {d \in C : d.before # Absent}}
           Is == {c.after : c \in {d \in C : d.after # Absent}}
<1>3. C = UNION {changesOf(Old(k), New(k)) : k \in Packages}
  BY <1>1, <1>2 DEF diffDependencies, KeptOf
<1>4. /\ \A k : \A e \in Old(k) : e \in B /\ e.package = k
      /\ \A e \in B : \E k : \E f \in Old(k) : Identity(f) = Identity(e)
      /\ \A k : IsFiniteSet(Old(k))
  BY <1>0, <1>1, KeptAre
<1>5. /\ \A k : \A e \in New(k) : e \in A /\ e.package = k
      /\ \A e \in A : \E k : \E f \in New(k) : Identity(f) = Identity(e)
      /\ \A k : IsFiniteSet(New(k))
  BY <1>0, <1>1, KeptAre
<1> HIDE DEF Old, New
<1>6. \A e \in B \cup A : e # Absent /\ IsVersion(e.version)  BY <1>1 DEF IsLock, IsEntry
<1>7. \A e, f \in B \cup A : Identity(e) = Identity(f) <=> e.package = f.package /\ e.version = f.version
  BY DEF Identity
\* What one identity names on either side is a version of one package.
<1>8. ASSUME NEW k, NEW e \in B \cup A, e.package = k
      PROVE  /\ Identity(e) \in IdsOf(B) <=> e.version \in VersionsIn(Old(k))
             /\ Identity(e) \in IdsOf(A) <=> e.version \in VersionsIn(New(k))
  <2>1. ASSUME NEW f \in B, Identity(f) = Identity(e) PROVE e.version \in VersionsIn(Old(k))
    <3>1. PICK j : \E g \in Old(j) : Identity(g) = Identity(f)  BY <1>4
    <3>2. PICK g \in Old(j) : Identity(g) = Identity(f)  BY <3>1
    <3>3. g \in B /\ g.package = j /\ Identity(g) = Identity(e)  BY <1>4, <2>1, <3>2
    <3>4. g.package = k /\ g.version = e.version  BY <1>7, <1>8, <3>3
    <3> QED  BY <3>2, <3>3, <3>4 DEF VersionsIn
  <2>2. ASSUME NEW f \in A, Identity(f) = Identity(e) PROVE e.version \in VersionsIn(New(k))
    <3>1. PICK j : \E g \in New(j) : Identity(g) = Identity(f)  BY <1>5
    <3>2. PICK g \in New(j) : Identity(g) = Identity(f)  BY <3>1
    <3>3. g \in A /\ g.package = j /\ Identity(g) = Identity(e)  BY <1>5, <2>2, <3>2
    <3>4. g.package = k /\ g.version = e.version  BY <1>7, <1>8, <3>3
    <3> QED  BY <3>2, <3>3, <3>4 DEF VersionsIn
  <2>3. ASSUME NEW f \in Old(k), f.version = e.version PROVE Identity(e) \in IdsOf(B)
    <3>1. f \in B /\ f.package = k  BY <1>4
    <3>2. Identity(f) = Identity(e)  BY <1>7, <1>8, <2>3, <3>1
    <3> QED  BY <3>1, <3>2
  <2>4. ASSUME NEW f \in New(k), f.version = e.version PROVE Identity(e) \in IdsOf(A)
    <3>1. f \in A /\ f.package = k  BY <1>5
    <3>2. Identity(f) = Identity(e)  BY <1>7, <1>8, <2>4, <3>1
    <3> QED  BY <3>1, <3>2
  <2>5. /\ Identity(e) \in IdsOf(B) => \E f \in B : Identity(f) = Identity(e)
        /\ Identity(e) \in IdsOf(A) => \E f \in A : Identity(f) = Identity(e)
        /\ e.version \in VersionsIn(Old(k)) => \E f \in Old(k) : f.version = e.version
        /\ e.version \in VersionsIn(New(k)) => \E f \in New(k) : f.version = e.version
    BY DEF VersionsIn
  <2> QED  BY <2>1, <2>2, <2>3, <2>4, <2>5
<1>9. \A k : /\ \A c \in changesOf(Old(k), New(k)) :
                   \/ MovedIn(Old(k), New(k), c) \/ GoneIn(Old(k), New(k), c)
                   \/ NewIn(Old(k), New(k), c) \/ StaysIn(Old(k), New(k), c)
             /\ \A old \in Old(k) : old.version \notin VersionsIn(New(k)) =>
                  \E c \in changesOf(Old(k), New(k)) : c.before = old
             /\ \A new \in New(k) : new.version \notin VersionsIn(Old(k)) =>
                  \E c \in changesOf(Old(k), New(k)) : c.after = new
  BY <1>4, <1>5, ChangesAre
<1> HIDE DEF IdsOf
\* What a change says of the two sides, wherever it comes from.
<1>10. ASSUME NEW c \in C
       PROVE  /\ c.before # Absent => c.before \in B /\
                    \/ Identity(c.before) \notin IdsOf(A)
                    \/ c.after # Absent /\ Identity(c.after) = Identity(c.before)
              /\ c.after # Absent => c.after \in A
              /\ c.kind = "upgraded" => Below(c.before.version, c.after.version)
              /\ c.kind = "downgraded" => Below(c.after.version, c.before.version)
              /\ c.kind = "added" => Identity(c.after) \notin IdsOf(B)
              /\ c.kind = "removed" => Identity(c.before) \notin IdsOf(A)
  <2>1. PICK k \in Packages : c \in changesOf(Old(k), New(k))  BY <1>3
  <2>2. CASE MovedIn(Old(k), New(k), c)
    <3>1. PICK old \in Old(k), new \in New(k) :
            /\ old.version \notin VersionsIn(New(k)) /\ new.version \notin VersionsIn(Old(k))
            /\ c.before = old /\ c.after = new
            /\ c.kind = "upgraded" => compareVersions(new.version, old.version) > 0
            /\ c.kind = "downgraded" => compareVersions(new.version, old.version) < 0
            /\ c.kind \in {"upgraded", "downgraded", "changed"}
      BY <2>2 DEF MovedIn
    <3>2. old \in B /\ new \in A /\ old.package = k /\ new.package = k  BY <1>4, <1>5
    <3>3. IsVersion(old.version) /\ IsVersion(new.version)  BY <1>6, <3>2
    <3>4. /\ c.kind = "upgraded" => Below(old.version, new.version)
          /\ c.kind = "downgraded" => Below(new.version, old.version)
      BY <3>1, <3>3, ComparesInOrder
    <3>5. Identity(old) \notin IdsOf(A)  BY <1>8, <3>1, <3>2
    <3>6. c.kind # "added" /\ c.kind # "removed"  BY <3>1
    <3> QED  BY <3>1, <3>2, <3>4, <3>5, <3>6
  <2>3. CASE GoneIn(Old(k), New(k), c)
    <3>1. c.kind = "removed" /\ c.before \in Old(k) /\ c.before.version \notin VersionsIn(New(k)) /\ c.after = Absent
      BY <2>3 DEF GoneIn
    <3>2. c.before \in B /\ c.before.package = k  BY <1>4, <3>1
    <3>3. Identity(c.before) \notin IdsOf(A)  BY <1>8, <3>1, <3>2
    <3> QED  BY <3>1, <3>2, <3>3
  <2>4. CASE NewIn(Old(k), New(k), c)
    <3>1. c.kind = "added" /\ c.after \in New(k) /\ c.after.version \notin VersionsIn(Old(k)) /\ c.before = Absent
      BY <2>4 DEF NewIn
    <3>2. c.after \in A /\ c.after.package = k  BY <1>5, <3>1
    <3>3. Identity(c.after) \notin IdsOf(B)  BY <1>8, <3>1, <3>2
    <3> QED  BY <3>1, <3>2, <3>3
  <2>5. CASE StaysIn(Old(k), New(k), c)
    <3>1. c.kind = "changed" /\ c.before \in Old(k) /\ c.after \in New(k) /\ c.before.version = c.after.version
      BY <2>5 DEF StaysIn
    <3>2. c.before \in B /\ c.before.package = k /\ c.after \in A /\ c.after.package = k  BY <1>4, <1>5, <3>1
    <3>3. Identity(c.after) = Identity(c.before) /\ c.after # Absent  BY <1>6, <1>7, <3>1, <3>2
    <3> QED  BY <3>1, <3>2, <3>3
  <2> QED  BY <1>9, <2>1, <2>2, <2>3, <2>4, <2>5
\* What only one side has is in a change.
<1>11. ASSUME NEW p \in IdsOf(B), p \notin IdsOf(A) PROVE p \in IdsOf(Was)
  <2>0. PICK k : \E old \in Old(k) : Identity(old) = p
    <3>1. PICK e \in B : Identity(e) = p  BY DEF IdsOf
    <3> QED  BY <1>4, <3>1
  <2>1. PICK old \in Old(k) : Identity(old) = p  BY <2>0
  <2>2. old \in B /\ old.package = k  BY <1>4, <2>1
  <2>3. old.version \notin VersionsIn(New(k))  BY <1>8, <1>11, <2>1, <2>2
  <2>4. PICK c \in changesOf(Old(k), New(k)) : c.before = old  BY <1>9, <2>1, <2>3
  <2>5. k \in Packages  BY <2>2
  <2>6. c \in C /\ c.before # Absent  BY <1>3, <1>6, <2>2, <2>4, <2>5
  <2> QED  BY <2>1, <2>4, <2>6 DEF IdsOf
<1>12. ASSUME NEW p \in IdsOf(A), p \notin IdsOf(B) PROVE p \in IdsOf(Is)
  <2>0. PICK k : \E new \in New(k) : Identity(new) = p
    <3>1. PICK e \in A : Identity(e) = p  BY DEF IdsOf
    <3> QED  BY <1>5, <3>1
  <2>1. PICK new \in New(k) : Identity(new) = p  BY <2>0
  <2>2. new \in A /\ new.package = k  BY <1>5, <2>1
  <2>3. new.version \notin VersionsIn(Old(k))  BY <1>8, <1>12, <2>1, <2>2
  <2>4. PICK c \in changesOf(Old(k), New(k)) : c.after = new  BY <1>9, <2>1, <2>3
  <2>5. k \in Packages  BY <2>2
  <2>6. c \in C /\ c.after # Absent  BY <1>3, <1>6, <2>2, <2>4, <2>5
  <2> QED  BY <2>1, <2>4, <2>6 DEF IdsOf
<1>13. IdsOf(Was) \subseteq IdsOf(B) /\ IdsOf(Is) \subseteq IdsOf(A)  BY <1>10 DEF IdsOf
<1>14. ASSUME NEW p \in IdsOf(A), p \in IdsOf(Was) PROVE p \in IdsOf(Is)
  <2>1. PICK c \in C : c.before # Absent /\ Identity(c.before) = p  BY <1>14 DEF IdsOf
  <2>2. c.after # Absent /\ Identity(c.after) = p  BY <1>10, <1>14, <2>1
  <2> QED  BY <2>2 DEF IdsOf
<1>15. IdsOf(A) = (IdsOf(B) \ IdsOf(Was)) \cup IdsOf(Is)
  BY <1>11, <1>12, <1>13, <1>14
<1>16. \A c \in C :
        /\ c.kind = "upgraded" => Below(c.before.version, c.after.version)
        /\ c.kind = "downgraded" => Below(c.after.version, c.before.version)
        /\ c.kind = "added" => Identity(c.after) \notin IdsOf(B)
        /\ c.kind = "removed" => Identity(c.before) \notin IdsOf(A)
  BY <1>10
<1> QED  BY <1>1, <1>2, <1>13, <1>15, <1>16 DEF DiffComplete, IdsOf

-----------------------------------------------------------------------------
(* SupplyChain: the invariant.                                             *)

Snapshotting == {"lstat", "read", "stat"}
Loading == {"manifest", "hash", "age", "job", "answer"}

\* Each mode has its own steps.
Ways ==
  /\ mode \in Modes
  /\ mode = "managed" => pc \in Snapshotting \cup Loading \cup {"discover", "done"}
  /\ mode = "imported" => Importing \/ pc \in {"discover", "done"}
  /\ mode \notin {"managed", "imported"} => pc \in {"lock", "database", "refs", "done"}
  /\ pc # "done" => result = NoResult
  /\ result.status \in {"none", "ok", "incomplete", "skipped", "error", "diff"}

Shapes ==
  /\ clock \in 0 .. Horizon /\ replaced \in Nat
  /\ raw = [syft |-> raw.syft, grype |-> raw.grype, binding |-> raw.binding, bytes |-> raw.bytes,
            lock |-> raw.lock, policy |-> raw.policy]
  /\ reports = [syft |-> reports.syft, grype |-> reports.grype, binding |-> reports.binding]
  /\ reports.syft \in Inventories \cup {Absent} /\ reports.grype \in MatchLists \cup {Absent}
  /\ profile = [manifest |-> profile.manifest, assets |-> profile.assets]
  /\ profile.manifest \in DOMAIN Profiles /\ profile.assets \in [Assets -> Nat]

\* A file that was not written since it was looked at reads the same all through.
Reading ==
  /\ tree \in [ToSet(Files) -> 0 .. MaxWrites]
  /\ reading = [write |-> reading.write, chunks |-> reading.chunks]
  /\ payload \in Seq(Seq(Nat)) /\ Len(payload) <= Len(Files)
  /\ InputWhole
  /\ pc \in Snapshotting => Len(payload) < Len(Files)
  /\ pc \in Loading => Len(payload) = Len(Files)
  /\ pc \in {"read", "stat"} =>
       /\ reading.chunks \in Seq(Nat) /\ (pc = "stat" => Len(reading.chunks) = 2)
       /\ reading.write \in Nat /\ reading.write <= tree[Current]
       /\ \A i \in DOMAIN reading.chunks : reading.write <= reading.chunks[i] /\ reading.chunks[i] <= tree[Current]

\* What was hashed is what the manifest says, unless it was replaced.
Hashing ==
  /\ loaded \in DOMAIN Profiles \cup {Absent} /\ hashed \subseteq Assets
  /\ pc \in Snapshotting \cup {"manifest"} => hashed = {}
  /\ pc \in Loading \ {"manifest"} => loaded \in DOMAIN Profiles /\ Consistent(Profiles[loaded])
  /\ pc \in {"hash", "age", "job"} => \A a \in hashed : switched \/ Declared(a)
  /\ pc \in {"age", "job"} => hashed = Assets
  /\ pc = "answer" => answer.intelligence = loaded /\ (switched \/ used = Profiles[loaded].digest)

\* What was read of the reports is what is there, unless it was replaced.
Parsing ==
  /\ replaced = 0 =>
       /\ Importing /\ pc # "syft" => raw.syft = reports.syft
       /\ Importing /\ pc \notin {"syft", "grype"} => raw.grype = reports.grype
       /\ pc = "grype-bytes" => raw.bytes[1] = raw.syft
  /\ pc \in {"syft-bytes", "grype-bytes"} => raw.binding.commit

ManagedSound ==
  /\ Len(payload) = Len(Files) /\ answer.bound
  /\ answer.artifacts["syft"] = "whole" /\ answer.artifacts["grype"] = "whole"
  /\ switched \/ used = Profiles[answer.intelligence].digest
  /\ clock - Profiles[answer.intelligence].built <= Profiles[answer.intelligence].maxAge

ImportedSound ==
  /\ raw.bytes = <<raw.syft, raw.grype>> \/ replaced > 0
  /\ raw.binding.commit
  /\ Matches(raw.binding.syft, raw.bytes[1]) /\ Matches(raw.binding.grype, raw.bytes[2])

\* What is ready to be reported is what the result will say it is.
Sound ==
  pc = "discover" \/ Reported =>
    /\ mode = "managed" => ManagedSound
    /\ mode = "imported" => ImportedSound /\ (Reported => result.evidence = raw.bytes)

SupplyInv == Ways /\ Shapes /\ Reading /\ Hashing /\ Parsing /\ Sound

-----------------------------------------------------------------------------
(* Its steps.                                                              *)

Parsed == ReadSyft \/ ReadGrype \/ ReadBinding \/ SyftBytes \/ GrypeBytes
Installed == InstallManifest \/ \E a \in Assets : InstallAsset(a)
Snapped == Lstat \/ ReadChunk \/ Restat

LEMMA ProfilesInOrder ==
  /\ \A n \in DOMAIN Profiles : Profiles[n].assets \in [Assets -> Nat]
  /\ DOMAIN Profiles = 1 .. Len(Profiles) /\ Len(Profiles) \in Nat \ {0}
<1>1. Profiles \in Seq(ToSet(Profiles)) /\ Profiles # <<>>  BY SupplyAssumption
<1>2. DOMAIN Profiles = 1 .. Len(Profiles) /\ Len(Profiles) \in Nat \ {0}  BY <1>1, EmptySeq
<1>3. ASSUME NEW n \in DOMAIN Profiles PROVE Profiles[n].assets \in [Assets -> Nat]
  <2>1. Profiles[n] \in ToSet(Profiles)  BY DEF ToSet
  <2> QED  BY <2>1, SupplyAssumption
<1> QED  BY <1>2, <1>3

\* What was parsed and hashed is s, g, b and d after this step.
Changed(s, g, b, d) ==
  raw' = [syft |-> s, grype |-> g, binding |-> b, bytes |-> d, lock |-> raw'.lock, policy |-> raw'.policy]

Failed == pc' = "done" /\ result' = [status |-> "error"]

LEMMA RawNext ==
  ASSUME Shapes
  PROVE  /\ RunJob => \E s, g : Changed(s, g, raw.binding, <<s, g>>)
         /\ Discover \/ DiscoverPackages => Changed(raw.syft, raw.grype, raw.binding, raw.bytes)
         /\ DiffRefs => Changed(raw.syft, raw.grype, raw.binding, raw'.bytes)
         /\ ReadSyft => Changed(reports.syft, raw.grype, raw.binding, raw.bytes)
         /\ ReadGrype => Changed(raw.syft, reports.grype, raw.binding, raw.bytes)
         /\ ReadBinding => Changed(raw.syft, raw.grype, reports.binding, raw.bytes)
         /\ SyftBytes => \/ Changed(raw.syft, raw.grype, raw.binding, <<reports.syft>>)
                         \/ UNCHANGED raw /\ Failed
         /\ GrypeBytes => \/ Changed(raw.syft, raw.grype, raw.binding, <<raw.bytes[1], reports.grype>>)
                          \/ UNCHANGED raw /\ Failed
<1>1. PICK s, g, b, d, l, p : /\ raw = [syft |-> s, grype |-> g, binding |-> b, bytes |-> d, lock |-> l, policy |-> p]
                              /\ s = raw.syft /\ g = raw.grype /\ b = raw.binding /\ d = raw.bytes
  BY DEF Shapes
<1>2. ASSUME RunJob PROVE \E t, o : Changed(t, o, raw.binding, <<t, o>>)
  <2>1. PICK t \in Inventories, o \in MatchLists : raw' = Join([syft |-> t, grype |-> o, bytes |-> <<t, o>>], raw)
    BY <1>2 DEF RunJob
  <2>2. raw' = [syft |-> t, grype |-> o, binding |-> b, bytes |-> <<t, o>>, lock |-> l, policy |-> p]
    BY <1>1, <2>1 DEF Join
  <2> QED  BY <1>1, <2>2 DEF Changed
<1>3. ASSUME Discover PROVE Changed(s, g, b, d)
  <2>1. PICK t \in Looked : raw' = [raw EXCEPT !.lock = t]  BY <1>3 DEF Discover
  <2>2. raw' = [syft |-> s, grype |-> g, binding |-> b, bytes |-> d, lock |-> t, policy |-> p]  BY <1>1, <2>1
  <2> QED  BY <2>2 DEF Changed
<1>4. ASSUME DiscoverPackages PROVE Changed(s, g, b, d)
  <2>1. PICK t \in Looked, q \in Policies : raw' = Join([lock |-> t, policy |-> q], raw)  BY <1>4 DEF DiscoverPackages
  <2>2. raw' = [syft |-> s, grype |-> g, binding |-> b, bytes |-> d, lock |-> t, policy |-> q]
    BY <1>1, <2>1 DEF Join
  <2> QED  BY <2>2 DEF Changed
<1>5. ASSUME DiffRefs PROVE Changed(s, g, b, raw'.bytes)
  <2>1. PICK t \in Looked, u \in Looked : raw' = Join([lock |-> t, bytes |-> u], raw)  BY <1>5 DEF DiffRefs
  <2>2. raw' = [syft |-> s, grype |-> g, binding |-> b, bytes |-> u, lock |-> t, policy |-> p]
    BY <1>1, <2>1 DEF Join
  <2> QED  BY <2>2 DEF Changed
<1>6. ASSUME ReadSyft PROVE Changed(reports.syft, g, b, d)
  <2>1. raw' = [syft |-> reports.syft, grype |-> g, binding |-> b, bytes |-> d, lock |-> l, policy |-> p]
    BY <1>1, <1>6 DEF ReadSyft
  <2> QED  BY <2>1 DEF Changed
<1>7. ASSUME ReadGrype PROVE Changed(s, reports.grype, b, d)
  <2>1. raw' = [raw EXCEPT !.grype = reports.grype]  BY <1>7 DEF ReadGrype
  <2>2. raw' = [syft |-> s, grype |-> reports.grype, binding |-> b, bytes |-> d, lock |-> l, policy |-> p]
    BY <1>1, <2>1
  <2> QED  BY <2>2 DEF Changed
<1>8. ASSUME ReadBinding PROVE Changed(s, g, reports.binding, d)
  <2>1. raw' = [raw EXCEPT !.binding = reports.binding]  BY <1>8 DEF ReadBinding
  <2>2. raw' = [syft |-> s, grype |-> g, binding |-> reports.binding, bytes |-> d, lock |-> l, policy |-> p]
    BY <1>1, <2>1
  <2> QED  BY <2>2 DEF Changed
<1>9. ASSUME SyftBytes PROVE Changed(s, g, b, <<reports.syft>>) \/ (UNCHANGED raw /\ Failed)
  <2>1. CASE UNCHANGED raw /\ Failed  BY <2>1
  <2>2. CASE raw' = [raw EXCEPT !.bytes = <<reports.syft>>]
    <3>1. raw' = [syft |-> s, grype |-> g, binding |-> b, bytes |-> <<reports.syft>>, lock |-> l, policy |-> p]
      BY <1>1, <2>2
    <3> QED  BY <3>1 DEF Changed
  <2> QED  BY <1>9, <2>1, <2>2 DEF SyftBytes, Throw, Failed
<1>10. ASSUME GrypeBytes PROVE Changed(s, g, b, <<d[1], reports.grype>>) \/ (UNCHANGED raw /\ Failed)
  <2>1. CASE UNCHANGED raw /\ Failed  BY <2>1
  <2>2. CASE raw' = [raw EXCEPT !.bytes = <<raw.bytes[1], reports.grype>>]
    <3>1. raw' = [syft |-> s, grype |-> g, binding |-> b, bytes |-> <<d[1], reports.grype>>, lock |-> l, policy |-> p]
      BY <1>1, <2>2
    <3> QED  BY <3>1 DEF Changed
  <2> QED  BY <1>10, <2>1, <2>2 DEF GrypeBytes, Throw, Failed
<1> QED  BY <1>1, <1>2, <1>3, <1>4, <1>5, <1>6, <1>7, <1>8, <1>9, <1>10

LEMMA WaysNext == ASSUME Ways, [SupplyNext]_supplyVars PROVE Ways'
<1>1. CASE Snapped
  BY <1>1 DEF Ways, Snapped, Lstat, ReadChunk, Restat, Throw, NextFile, Snapshotting, Loading, Importing, NoResult
<1>2. CASE ReadManifest \/ HashAsset \/ CheckAge \/ RunJob
  <2>1. mode' = mode /\ mode = "managed" /\ pc # "done"
    BY <1>2 DEF Ways, ReadManifest, HashAsset, CheckAge, RunJob, Importing
  <2>2. \/ pc' = "done" /\ result'.status = "error"
        \/ pc' \in Loading /\ result' = result
    <3>1. CASE ReadManifest  BY <3>1 DEF ReadManifest, Throw, Loading
    <3>2. CASE HashAsset
      <4>1. PICK a \in Assets : IF Declared(a) THEN pc' \in {"age", "hash"} /\ result' = result ELSE Throw
        BY <3>2 DEF HashAsset
      <4> QED  BY <4>1 DEF Throw, Loading
    <3>3. CASE CheckAge  BY <3>3 DEF CheckAge, Throw, Loading
    <3>4. CASE RunJob  BY <3>4 DEF RunJob, Loading
    <3> QED  BY <1>2, <3>1, <3>2, <3>3, <3>4
  <2> QED  BY <2>1, <2>2 DEF Ways, Loading
<1>3. CASE Answer \/ Discover
  <2>1. mode' = mode /\ mode \in {"managed", "imported"}  BY <1>3 DEF Ways, Answer, Discover
  <2>2. \/ pc' = "done" /\ result'.status \in {"ok", "incomplete", "error"}
        \/ pc' = "discover" /\ result' = result /\ pc # "done"
    BY <1>3 DEF Answer, Discover, Normalise, Report, Throw
  <2> QED  BY <2>1, <2>2 DEF Ways, Importing
<1>4. CASE Parsed
  <2>1. mode' = mode /\ mode = "imported"  BY <1>4 DEF Ways, Parsed, ReadSyft, ReadGrype, ReadBinding, SyftBytes, GrypeBytes, Snapshotting, Loading
  <2>2. \/ pc' = "done" /\ result'.status \in {"ok", "incomplete", "error", "skipped"}
        \/ (pc' = "discover" \/ Importing') /\ result' = result /\ pc # "done"
    BY <1>4 DEF Parsed, ReadSyft, ReadGrype, ReadBinding, SyftBytes, GrypeBytes, Normalise, Report, Throw, Importing
  <2> QED  BY <2>1, <2>2 DEF Ways
<1>5. CASE DiscoverPackages \/ LookUp \/ DiffRefs
  <2>1. mode' = mode /\ mode \notin {"managed", "imported"}
    BY <1>5 DEF Ways, DiscoverPackages, LookUp, DiffRefs, Snapshotting, Loading, Importing
  <2>2. \/ pc' = "done" /\ result'.status \in {"ok", "diff", "error"}
        \/ pc' = "database" /\ result' = result /\ pc # "done"
    <3>1. CASE DiscoverPackages  BY <3>1 DEF DiscoverPackages
    <3>3. CASE DiffRefs
      <4>1. PICK c : pc' = "done" /\ result' = [status |-> "diff", changes |-> c]  BY <3>3 DEF DiffRefs
      <4> QED  BY <4>1
    <3>2. CASE LookUp
      <4>1. CASE Throw  BY <4>1 DEF Throw
      <4>2. CASE ~Throw
        <5>1. PICK f : pc' = "done" /\ result' = [status |-> "ok", evidence |-> Advisories, findings |-> f]
          BY <3>2, <4>2 DEF LookUp
        <5> QED  BY <5>1
      <4> QED  BY <4>1, <4>2
    <3> QED  BY <1>5, <3>1, <3>2, <3>3
  <2> QED  BY <2>1, <2>2 DEF Ways
<1>6. CASE Fault  BY <1>6 DEF Ways, Fault, Throw
<1>7. CASE UNCHANGED <<mode, pc, result>>  BY <1>7 DEF Ways, Importing
<1> QED
  <2>1. SUFFICES ASSUME SupplyNext PROVE Ways'  BY <1>7 DEF supplyVars
  <2>2. CASE ImportBundle \/ Tick \/ Replace \/ InstallManifest
             \/ (\E f \in ToSet(Files) : Write(f)) \/ (\E a \in Assets : InstallAsset(a))
    BY <2>2, <1>7 DEF ImportBundle, Tick, Replace, InstallManifest, Write, InstallAsset
  <2> QED  BY <1>1, <1>2, <1>3, <1>4, <1>5, <1>6, <2>1, <2>2 DEF SupplyNext, Snapped, Parsed

LEMMA ShapesNext == ASSUME Shapes, [SupplyNext]_supplyVars PROVE Shapes'
<1>1. CASE UNCHANGED <<clock, replaced, raw, reports, profile>>  BY <1>1 DEF Shapes
<1>2. CASE Tick
  BY <1>2, SupplyAssumption DEF Shapes, Tick, registry, directory
<1>3. CASE Installed
  <2>1. UNCHANGED <<clock, replaced, raw, reports>>
    BY <1>3 DEF Installed, InstallManifest, InstallAsset, directory
  <2>2. PICK m, f : profile = [manifest |-> m, assets |-> f] /\ m \in DOMAIN Profiles /\ f \in [Assets -> Nat]
    BY DEF Shapes
  <2>3. CASE InstallManifest
    <3>1. profile' = [manifest |-> m + 1, assets |-> f] /\ m < Len(Profiles)  BY <2>2, <2>3 DEF InstallManifest
    <3>2. m + 1 \in DOMAIN Profiles  BY <2>2, <3>1, ProfilesInOrder
    <3> QED  BY <2>1, <2>2, <3>1, <3>2 DEF Shapes
  <2>4. ASSUME NEW a \in Assets, InstallAsset(a) PROVE Shapes'
    <3>1. PICK n \in DOMAIN Profiles : profile' = [profile EXCEPT !.assets = [@ EXCEPT ![a] = Profiles[n].assets[a]]]
      BY <2>4 DEF InstallAsset
    <3>2. PICK v : v = Profiles[n].assets[a] /\ v \in Nat  BY <2>4, ProfilesInOrder
    <3>3. profile' = [manifest |-> m, assets |-> [f EXCEPT ![a] = v]]  BY <2>2, <3>1, <3>2
    <3>4. [f EXCEPT ![a] = v] \in [Assets -> Nat]  BY <2>2, <3>2
    <3> QED  BY <2>1, <2>2, <3>3, <3>4 DEF Shapes
  <2> QED  BY <1>3, <2>3, <2>4 DEF Installed
<1>4. CASE Replace
  <2>1. UNCHANGED <<clock, raw, profile>> /\ replaced' = replaced + 1  BY <1>4 DEF Replace, registry
  <2>2. PICK s, g, b : /\ reports = [syft |-> s, grype |-> g, binding |-> b]
                       /\ s \in Inventories \cup {Absent} /\ g \in MatchLists \cup {Absent}
    BY DEF Shapes
  <2>3. PICK t, o, c : /\ reports' = [syft |-> t, grype |-> o, binding |-> c]
                       /\ t \in Inventories \cup {Absent} /\ o \in MatchLists \cup {Absent}
    <3>1. CASE \E t \in Inventories \cup {Absent} : reports' = [reports EXCEPT !.syft = t]
      <4>1. PICK t \in Inventories \cup {Absent} : reports' = [reports EXCEPT !.syft = t]  BY <3>1
      <4>2. reports' = [syft |-> t, grype |-> g, binding |-> b]  BY <2>2, <4>1
      <4> QED  BY <2>2, <4>2
    <3>2. CASE \E o \in MatchLists \cup {Absent} : reports' = [reports EXCEPT !.grype = o]
      <4>1. PICK o \in MatchLists \cup {Absent} : reports' = [reports EXCEPT !.grype = o]  BY <3>2
      <4>2. reports' = [syft |-> s, grype |-> o, binding |-> b]  BY <2>2, <4>1
      <4> QED  BY <2>2, <4>2
    <3>3. CASE \E c \in Bindings \cup {Absent} : reports' = [reports EXCEPT !.binding = c]
      <4>1. PICK c \in Bindings \cup {Absent} : reports' = [reports EXCEPT !.binding = c]  BY <3>3
      <4>2. reports' = [syft |-> s, grype |-> g, binding |-> c]  BY <2>2, <4>1
      <4> QED  BY <2>2, <4>2
    <3> QED  BY <1>4, <3>1, <3>2, <3>3 DEF Replace
  <2> QED  BY <2>1, <2>3 DEF Shapes
<1>5. CASE UNCHANGED <<clock, replaced, reports, profile>> /\ \E s, g, b, d : Changed(s, g, b, d)
  BY <1>5 DEF Shapes, Changed
<1>6. CASE RunJob \/ DiscoverPackages \/ DiffRefs \/ Discover \/ Parsed
  <2>1. UNCHANGED <<clock, replaced, reports, profile>>
    BY <1>6 DEF RunJob, DiscoverPackages, DiffRefs, Discover, Parsed, ReadSyft, ReadGrype, ReadBinding, SyftBytes, GrypeBytes, registry, directory
  <2>2. (\E s, g, b, d : Changed(s, g, b, d)) \/ UNCHANGED raw  BY <1>6, RawNext DEF Parsed
  <2> QED  BY <1>1, <1>5, <2>1, <2>2
<1>7. CASE Snapped \/ ReadManifest \/ HashAsset \/ CheckAge \/ Answer \/ LookUp \/ ImportBundle \/ Fault
           \/ (\E f \in ToSet(Files) : Write(f))
  BY <1>1, <1>7 DEF Snapped, Lstat, ReadChunk, Restat, ReadManifest, HashAsset, CheckAge, Answer, LookUp, ImportBundle, Fault, Write, registry, directory
<1> QED
  <2>1. CASE UNCHANGED supplyVars  BY <1>1, <2>1 DEF supplyVars, directory, registry
  <2> QED  BY <1>2, <1>3, <1>4, <1>6, <1>7, <2>1 DEF SupplyNext, Installed, Parsed, Snapped

\* Where the other steps lead.
LEMMA PlaceNext ==
  /\ ReadManifest \/ HashAsset \/ CheckAge \/ RunJob => pc \in Loading /\ pc' \in Loading \cup {"done"}
  /\ Answer => pc = "answer" /\ pc' \in {"discover", "done"}
  /\ Discover \/ DiscoverPackages \/ LookUp \/ DiffRefs \/ Fault => pc' \in {"database", "done"}
  /\ Parsed => Importing /\ (Importing' \/ pc' \in {"discover", "done"})
  /\ ImportBundle \/ Tick \/ Replace \/ Installed \/ UNCHANGED supplyVars => pc' = pc
<1>1. ReadManifest \/ HashAsset \/ CheckAge \/ RunJob => pc \in Loading /\ pc' \in Loading \cup {"done"}
  BY DEF ReadManifest, HashAsset, CheckAge, RunJob, Throw, Loading
<1>2. Answer => pc = "answer" /\ pc' \in {"discover", "done"}  BY DEF Answer, Normalise, Report, Throw
<1>3. Discover \/ DiscoverPackages \/ LookUp \/ DiffRefs \/ Fault => pc' \in {"database", "done"}
  BY DEF Discover, Report, DiscoverPackages, LookUp, DiffRefs, Fault, Throw
<1>4. Parsed => Importing /\ (Importing' \/ pc' \in {"discover", "done"})
  BY DEF Parsed, ReadSyft, ReadGrype, ReadBinding, SyftBytes, GrypeBytes, Normalise, Report, Throw, Importing
<1>5. ImportBundle \/ Tick \/ Replace \/ Installed \/ UNCHANGED supplyVars => pc' = pc
  BY DEF ImportBundle, Tick, Replace, Installed, InstallManifest, InstallAsset, supplyVars
<1> QED  BY <1>1, <1>2, <1>3, <1>4, <1>5

\* A file that reads the same all through and was written by one write is whole.
LEMMA WholeFile ==
  ASSUME NEW s \in Seq(Nat), Len(s) = 2, NEW v, \A i \in DOMAIN s : s[i] = v
  PROVE  Cardinality(ToSet(s)) = 1
<1>1. DOMAIN s = 1 .. 2  BY LenProperties
<1>2. ToSet(s) = {v}  BY <1>1 DEF ToSet
<1> QED  BY <1>2, FS_Singleton

\* Where the file is that is being read.
LEMMA AtFile == ASSUME Reading, pc \in Snapshotting PROVE Current \in ToSet(Files) /\ tree[Current] \in Nat
<1>1. Files \in Seq(ToSet(Files)) /\ MaxWrites \in Nat  BY SupplyAssumption
<1>2. Len(payload) \in Nat /\ Len(payload) < Len(Files)  BY LenProperties DEF Reading
<1>3. PICK n : n = Len(payload) + 1 /\ n \in 1 .. Len(Files)  BY <1>1, <1>2, LenProperties
<1>4. n \in DOMAIN Files /\ Current = Files[n]  BY <1>1, <1>3, LenProperties DEF Current
<1>5. Current \in ToSet(Files)  BY <1>4 DEF ToSet
<1> QED  BY <1>1, <1>5 DEF Reading

LEMMA ReadingNext == ASSUME Ways, Reading, [SupplyNext]_supplyVars PROVE Reading'
<1>1. CASE Lstat
  <2>1. UNCHANGED <<tree, payload>> /\ pc = "lstat" /\ pc' = "read"
        /\ reading' = [write |-> tree[Current], chunks |-> <<>>]
    BY <1>1 DEF Lstat
  <2>2. reading'.chunks \in Seq(Nat) /\ DOMAIN reading'.chunks = {} /\ reading'.write = tree'[Current']
    BY <2>1 DEF Current
  <2>3. tree[Current] \in Nat  BY <2>1, AtFile DEF Snapshotting
  <2> QED  BY <2>1, <2>2, <2>3 DEF Reading, InputWhole, Snapshotting, Loading
<1>2. CASE ReadChunk
  <2>1. UNCHANGED <<tree, payload>> /\ pc = "read" /\ Current' = Current  BY <1>2 DEF ReadChunk, Current
  <2>2. PICK w, c, v : /\ reading = [write |-> w, chunks |-> c] /\ v = tree[Current]
                       /\ c \in Seq(Nat) /\ v \in Nat /\ w \in Nat /\ w <= v
                       /\ \A i \in DOMAIN c : w <= c[i] /\ c[i] <= v
    BY <2>1, AtFile DEF Reading, Snapshotting
  <2>3. PICK d : d = Append(c, v) /\ reading' = [write |-> w, chunks |-> d]  BY <1>2, <2>2 DEF ReadChunk
  <2>4. d \in Seq(Nat) /\ \A i \in DOMAIN d : w <= d[i] /\ d[i] <= v
    <3>1. /\ d \in Seq(Nat) /\ Len(d) = Len(c) + 1 /\ Len(c) \in Nat
          /\ \A i \in 1 .. Len(c) : d[i] = c[i]
          /\ d[Len(c) + 1] = v
      BY <2>2, <2>3, AppendProperties
    <3>2. DOMAIN d = 1 .. Len(c) + 1 /\ DOMAIN c = 1 .. Len(c)  BY <2>2, <3>1
    <3>3. ASSUME NEW i \in DOMAIN d PROVE w <= d[i] /\ d[i] <= v
      <4>1. CASE i \in 1 .. Len(c)  BY <2>2, <3>1, <3>2, <4>1
      <4>2. CASE i = Len(c) + 1  BY <2>2, <3>1, <4>2
      <4> QED  BY <3>1, <3>2, <4>1, <4>2
    <3> QED  BY <3>1, <3>3
  <2>5. \/ pc' = "stat" /\ Len(d) = 2
        \/ pc' = "read"
    BY <1>2, <2>3 DEF ReadChunk
  <2>6. w <= v /\ tree'[Current'] = v  BY <2>1, <2>2
  <2>7. /\ tree' \in [ToSet(Files) -> 0 .. MaxWrites] /\ payload' \in Seq(Seq(Nat))
        /\ Len(payload') < Len(Files) /\ Len(payload') <= Len(Files) /\ InputWhole'
    BY <2>1 DEF Reading, InputWhole, Snapshotting
  <2>8. reading'.write = w /\ reading'.chunks = d  BY <2>3
  <2>9. pc' \notin Loading  BY <2>5 DEF Loading
  <2> QED  BY <2>2, <2>3, <2>4, <2>5, <2>6, <2>7, <2>8, <2>9 DEF Reading
<1>3. CASE Restat
  <2>1. UNCHANGED <<tree, reading>> /\ pc = "stat"  BY <1>3 DEF Restat
  <2>2. CASE Unchanged(tree[Current])
    <3>1. PICK w, c : reading = [write |-> w, chunks |-> c] /\ c \in Seq(Nat) /\ Len(c) = 2 /\ w = tree[Current]
                      /\ \A i \in DOMAIN c : w <= c[i] /\ c[i] <= w
      BY <2>1, <2>2 DEF Reading, Unchanged
    <3>2. w \in Nat
      <4>1. pc \in Snapshotting  BY <2>1 DEF Snapshotting
      <4> QED  BY <3>1, <4>1, AtFile
    <3>3. Cardinality(ToSet(c)) = 1
      <4>1. ASSUME NEW i \in DOMAIN c PROVE c[i] \in Nat
        <5>1. i \in 1 .. Len(c)  BY <3>1, LenProperties
        <5> QED  BY <3>1, <5>1, ElementOfSeq
      <4>2. \A i \in DOMAIN c : c[i] = w  BY <3>1, <3>2, <4>1
      <4> QED  BY <3>1, <4>2, WholeFile
    <3>4. PICK p, q : p = payload /\ q = payload' /\ q = Append(p, c) /\ p \in Seq(Seq(Nat))
      BY <1>3, <2>2, <3>1 DEF Restat, Reading
    <3>5. /\ q \in Seq(Seq(Nat)) /\ Len(q) = Len(p) + 1 /\ Len(p) \in Nat
          /\ \A i \in 1 .. Len(p) : q[i] = p[i]
          /\ q[Len(p) + 1] = c
      BY <3>1, <3>4, AppendProperties
    <3>6. InputWhole'
      <4>1. DOMAIN q = 1 .. Len(p) + 1 /\ DOMAIN p = 1 .. Len(p)  BY <3>4, <3>5
      <4>2. ASSUME NEW i \in DOMAIN q PROVE Cardinality(ToSet(q[i])) = 1
        <5>1. CASE i \in 1 .. Len(p)  BY <3>4, <3>5, <4>1, <5>1 DEF Reading, InputWhole
        <5>2. CASE i = Len(p) + 1  BY <3>3, <3>5, <5>2
        <5> QED  BY <3>5, <4>1, <5>1, <5>2
      <4> QED  BY <3>4, <4>2 DEF InputWhole
    <3>7. pc' = NextFile(Len(q)) /\ Len(p) < Len(Files)
      BY <1>3, <2>1, <2>2, <3>4 DEF Restat, Reading, Snapshotting
    <3>8. Len(Files) \in Nat  BY SupplyAssumption, LenProperties
    <3>9. /\ pc' \in {"manifest", "lstat"} /\ Len(q) <= Len(Files)
          /\ pc' = "manifest" => Len(q) = Len(Files)
          /\ pc' = "lstat" => Len(q) < Len(Files)
      BY <3>5, <3>7, <3>8 DEF NextFile
    <3> QED  BY <2>1, <3>4, <3>5, <3>6, <3>9 DEF Reading, Snapshotting, Loading
  <2>3. CASE ~ Unchanged(tree[Current])
    <3>1. UNCHANGED payload /\ pc' = "done"  BY <1>3, <2>3 DEF Restat, Throw
    <3> QED  BY <2>1, <3>1 DEF Reading, InputWhole, Snapshotting, Loading
  <2> QED  BY <2>2, <2>3
<1>4. ASSUME NEW f \in ToSet(Files), Write(f) PROVE Reading'
  <2>1. UNCHANGED <<reading, payload, pc>> /\ pc \in Snapshotting /\ Current' = Current
    BY <1>4 DEF Write, Snapshotting, Current
  <2>2. tree \in [ToSet(Files) -> 0 .. MaxWrites] /\ MaxWrites \in Nat /\ tree[f] < MaxWrites
        /\ tree' = [tree EXCEPT ![f] = @ + 1]
    BY <1>4, SupplyAssumption DEF Write, Reading
  <2>3. tree' \in [ToSet(Files) -> 0 .. MaxWrites]  BY <2>2
  <2>4. PICK v, u : v = tree[Current] /\ u = tree'[Current] /\ v \in Nat /\ u \in Nat /\ v <= u
    BY <2>1, <2>2, AtFile
  <2>5. pc \in {"read", "stat"} =>
          /\ reading.write <= u
          /\ \A i \in DOMAIN reading.chunks : reading.write <= reading.chunks[i] /\ reading.chunks[i] <= u
    <3> SUFFICES ASSUME pc \in {"read", "stat"} PROVE
          /\ reading.write <= u
          /\ \A i \in DOMAIN reading.chunks : reading.write <= reading.chunks[i] /\ reading.chunks[i] <= u
      OBVIOUS
    <3>1. PICK w, c : /\ w = reading.write /\ c = reading.chunks /\ w \in Nat /\ c \in Seq(Nat) /\ w <= v
                      /\ \A i \in DOMAIN c : w <= c[i] /\ c[i] <= v
      BY <2>4 DEF Reading
    <3>2. \A i \in DOMAIN c : c[i] \in Nat  BY <3>1, ElementOfSeq
    <3> QED  BY <2>4, <3>1, <3>2
  <2> QED  BY <2>1, <2>3, <2>4, <2>5 DEF Reading, InputWhole
<1>5. CASE UNCHANGED snapshot /\ pc' \notin Snapshotting /\ (pc' \in Loading => pc \in Loading)
  BY <1>5 DEF Reading, InputWhole, snapshot, Snapshotting
<1>6. CASE UNCHANGED snapshot /\ pc' = pc
  BY <1>6 DEF Reading, InputWhole, snapshot, Current
<1>7. CASE ReadManifest \/ HashAsset \/ CheckAge \/ RunJob \/ Answer \/ Discover \/ Parsed \/ DiscoverPackages \/ LookUp
           \/ ImportBundle \/ DiffRefs \/ Fault \/ Tick \/ Replace \/ Installed \/ UNCHANGED supplyVars
  <2>1. UNCHANGED snapshot
    BY <1>7 DEF ReadManifest, HashAsset, CheckAge, RunJob, Answer, Discover, Parsed, ReadSyft, ReadGrype, ReadBinding, SyftBytes,
      GrypeBytes, DiscoverPackages, LookUp, ImportBundle, DiffRefs, Fault, Tick, Replace, Installed, InstallManifest, InstallAsset, supplyVars
  <2>2. CASE ReadManifest \/ HashAsset \/ CheckAge \/ RunJob
    BY <1>5, <2>1, <2>2, PlaceNext DEF Loading, Snapshotting
  <2>3. CASE Answer  BY <1>5, <2>1, <2>3, PlaceNext DEF Loading, Snapshotting
  <2>4. CASE Discover \/ DiscoverPackages \/ LookUp \/ DiffRefs \/ Fault
    BY <1>5, <2>1, <2>4, PlaceNext DEF Loading, Snapshotting
  <2>5. CASE Parsed
    <3>1. pc' \in {"syft", "grype", "binding", "syft-bytes", "grype-bytes", "discover", "done"}
      BY <2>5, PlaceNext DEF Importing
    <3> QED  BY <1>5, <2>1, <3>1 DEF Loading, Snapshotting
  <2>6. CASE ImportBundle \/ Tick \/ Replace \/ Installed \/ UNCHANGED supplyVars
    <3>1. pc' = pc  BY <2>6, PlaceNext
    <3> QED  BY <1>6, <2>1, <3>1
  <2> QED  BY <1>7, <2>2, <2>3, <2>4, <2>5, <2>6
<1> QED  BY <1>1, <1>2, <1>3, <1>4, <1>7 DEF SupplyNext, Installed, Parsed

LEMMA HashingNext == ASSUME Shapes, Reading, Hashing, [SupplyNext]_supplyVars PROVE Hashing'
<1>1. CASE ReadManifest
  <2>1. UNCHANGED <<profile, hashed, used, switched, answer>> /\ pc = "manifest"  BY <1>1 DEF ReadManifest
  <2>2. CASE Consistent(Profiles[profile.manifest])
    <3>1. loaded' = profile.manifest /\ pc' = "hash" /\ hashed = {}  BY <1>1, <2>1, <2>2 DEF ReadManifest, Hashing
    <3> QED  BY <2>1, <2>2, <3>1 DEF Shapes, Hashing, Snapshotting, Loading
  <2>3. CASE ~ Consistent(Profiles[profile.manifest])
    <3>1. UNCHANGED loaded /\ pc' = "done"  BY <1>1, <2>3 DEF ReadManifest, Throw
    <3> QED  BY <2>1, <3>1 DEF Hashing, Snapshotting, Loading
  <2> QED  BY <2>2, <2>3
<1>2. CASE HashAsset
  <2>1. UNCHANGED <<profile, loaded, used, switched, answer>> /\ pc = "hash"  BY <1>2 DEF HashAsset
  <2>2. PICK a \in Assets \ hashed :
          IF Declared(a) THEN /\ hashed' = hashed \cup {a}
                              /\ pc' = IF hashed' = Assets THEN "age" ELSE "hash"
          ELSE pc' = "done" /\ UNCHANGED hashed
    BY <1>2 DEF HashAsset, Throw
  <2>3. \A b \in Assets : Declared(b)' = Declared(b)  BY <2>1 DEF Declared
  <2>4. CASE Declared(a)
    <3>1. \A b \in hashed' : switched' \/ Declared(b)'  BY <2>1, <2>2, <2>3, <2>4 DEF Hashing
    <3>2. hashed' \subseteq Assets /\ pc' \in {"age", "hash"} /\ (pc' = "age" => hashed' = Assets)  BY <2>2, <2>4 DEF Hashing
    <3> QED  BY <2>1, <3>1, <3>2 DEF Hashing, Snapshotting, Loading
  <2>5. CASE ~ Declared(a)  BY <2>1, <2>2, <2>5 DEF Hashing, Snapshotting, Loading
  <2> QED  BY <2>4, <2>5
<1>3. CASE RunJob
  <2>1. UNCHANGED <<profile, loaded, hashed, switched>> /\ pc = "job" /\ pc' = "answer" /\ used' = profile.assets
    BY <1>3 DEF RunJob
  <2>2. PICK response \in Answers : answer' = Join([intelligence |-> loaded], response)  BY <1>3 DEF RunJob
  <2>3. answer'.intelligence = loaded  BY <2>2 DEF Join
  <2>4. loaded \in DOMAIN Profiles /\ Consistent(Profiles[loaded]) /\ hashed = Assets
        /\ \A a \in Assets : switched \/ Declared(a)
    BY <2>1 DEF Hashing, Loading
  <2>5. ASSUME ~ switched PROVE used' = Profiles[loaded].digest
    <3>1. PICK f, g : f = profile.assets /\ g = Profiles[loaded].assets  OBVIOUS
    <3>2. f \in [Assets -> Nat] /\ g \in [Assets -> Nat]  BY <2>4, <3>1, ProfilesInOrder DEF Shapes
    <3>3. \A a \in Assets : f[a] = g[a]  BY <2>4, <2>5, <3>1 DEF Declared
    <3>4. f = g  BY <3>2, <3>3
    <3> QED  BY <2>1, <2>4, <3>1, <3>4 DEF Consistent
  <2> QED  BY <2>1, <2>3, <2>4, <2>5 DEF Hashing, Snapshotting, Loading
<1>4. CASE InstallManifest
  <2>1. UNCHANGED <<loaded, hashed, used, switched, answer, pc>> /\ profile' = [profile EXCEPT !.manifest = @ + 1]
    BY <1>4 DEF InstallManifest
  <2>2. PICK m, f : profile = [manifest |-> m, assets |-> f]  BY DEF Shapes
  <2>3. profile' = [manifest |-> m + 1, assets |-> f]  BY <2>1, <2>2
  <2>4. profile'.assets = profile.assets  BY <2>2, <2>3
  <2> QED  BY <2>1, <2>4 DEF Hashing, Declared
<1>5. ASSUME NEW a \in Assets, InstallAsset(a) PROVE Hashing'
  <2>1. UNCHANGED <<loaded, hashed, used, answer, pc>> /\ switched' = (switched \/ a \in hashed)
        /\ pc \in {"manifest", "hash", "age", "job"}
    BY <1>5 DEF InstallAsset
  <2>2. PICK m, f : profile = [manifest |-> m, assets |-> f] /\ f \in [Assets -> Nat]  BY DEF Shapes
  <2>3. PICK v : profile' = [profile EXCEPT !.assets = [@ EXCEPT ![a] = v]]  BY <1>5 DEF InstallAsset
  <2>4. profile' = [manifest |-> m, assets |-> [f EXCEPT ![a] = v]]  BY <2>2, <2>3
  <2>5. \A b \in Assets : b # a => profile'.assets[b] = profile.assets[b]  BY <2>2, <2>4
  <2>6. pc \in {"hash", "age", "job"} => \A b \in hashed : switched' \/ Declared(b)'
    BY <2>1, <2>5 DEF Hashing, Declared
  <2>7. pc \in Loading /\ pc # "answer"  BY <2>1 DEF Loading
  <2> QED  BY <2>1, <2>6, <2>7 DEF Hashing
<1>6. CASE CheckAge
  <2>1. UNCHANGED <<profile, loaded, hashed, used, switched, answer>> /\ pc = "age" /\ pc' \in {"job", "done"}
    BY <1>6 DEF CheckAge, Throw, registry
  <2> QED  BY <2>1 DEF Hashing, Declared, Snapshotting, Loading
<1>7. CASE Snapped
  <2>1. /\ UNCHANGED <<profile, loaded, hashed, used, switched, answer>>
        /\ pc \in Snapshotting /\ pc' \in Snapshotting \cup {"manifest", "done"}
    BY <1>7 DEF Snapped, Lstat, ReadChunk, Restat, Throw, NextFile, registry, Snapshotting
  <2> QED  BY <2>1 DEF Hashing, Declared, Snapshotting, Loading
<1>8. CASE UNCHANGED <<registry, answer>> /\ (pc' = pc \/ pc' \notin Snapshotting \cup Loading)
  BY <1>8 DEF Hashing, Declared, registry, Snapshotting, Loading
<1>9. CASE Answer \/ Discover \/ DiscoverPackages \/ LookUp \/ DiffRefs \/ Fault
  <2>1. UNCHANGED <<registry, answer>>  BY <1>9 DEF Answer, Discover, DiscoverPackages, LookUp, DiffRefs, Fault
  <2>2. pc' \notin Snapshotting \cup Loading  BY <1>9, PlaceNext DEF Snapshotting, Loading
  <2> QED  BY <1>8, <2>1, <2>2
<1>10. CASE Parsed
  <2>1. UNCHANGED <<registry, answer>>  BY <1>10 DEF Parsed, ReadSyft, ReadGrype, ReadBinding, SyftBytes, GrypeBytes
  <2>2. pc' \in {"syft", "grype", "binding", "syft-bytes", "grype-bytes", "discover", "done"}  BY <1>10, PlaceNext DEF Importing
  <2>3. pc' \notin Snapshotting \cup Loading  BY <2>2 DEF Snapshotting, Loading
  <2> QED  BY <1>8, <2>1, <2>3
<1>11. CASE ImportBundle \/ Tick \/ Replace \/ UNCHANGED supplyVars \/ \E f \in ToSet(Files) : Write(f)
  <2>1. UNCHANGED <<registry, answer, pc>>  BY <1>11 DEF ImportBundle, Tick, Replace, Write, supplyVars
  <2> QED  BY <1>8, <2>1
<1> QED  BY <1>1, <1>2, <1>3, <1>4, <1>5, <1>6, <1>7, <1>9, <1>10, <1>11 DEF SupplyNext, Parsed, Snapped

LEMMA ParsingNext == ASSUME Ways, Shapes, Parsing, [SupplyNext]_supplyVars PROVE Parsing'
<1>1. CASE ReadSyft
  <2>1. Changed(reports.syft, raw.grype, raw.binding, raw.bytes)  BY <1>1, RawNext
  <2>2. raw'.syft = reports.syft  BY <2>1 DEF Changed
  <2>3. reports' = reports /\ pc' = "grype"  BY <1>1 DEF ReadSyft, directory
  <2> QED  BY <2>2, <2>3 DEF Parsing, Importing
<1>2. CASE ReadGrype
  <2>1. Changed(raw.syft, reports.grype, raw.binding, raw.bytes)  BY <1>2, RawNext
  <2>2. raw'.syft = raw.syft /\ raw'.grype = reports.grype  BY <2>1 DEF Changed
  <2>3. UNCHANGED <<reports, replaced>> /\ pc = "grype" /\ pc' \in {"binding", "done"}
    BY <1>2 DEF ReadGrype, Throw, directory
  <2> QED  BY <2>2, <2>3 DEF Parsing, Importing
<1>3. CASE ReadBinding
  <2>1. Changed(raw.syft, raw.grype, reports.binding, raw.bytes)  BY <1>3, RawNext
  <2>2. raw'.syft = raw.syft /\ raw'.grype = raw.grype /\ raw'.binding = reports.binding  BY <2>1 DEF Changed
  <2>3. UNCHANGED <<reports, replaced>> /\ pc = "binding"  BY <1>3 DEF ReadBinding, directory
  <2>4. (pc' = "syft-bytes" /\ reports.binding.commit) \/ pc' = "done"  BY <1>3 DEF ReadBinding, Throw
  <2> QED  BY <2>2, <2>3, <2>4 DEF Parsing, Importing
<1>4. CASE SyftBytes
  <2>1. UNCHANGED <<reports, replaced>> /\ pc = "syft-bytes" /\ pc' \in {"grype-bytes", "done"}
    BY <1>4 DEF SyftBytes, Throw, directory
  <2>2. CASE Changed(raw.syft, raw.grype, raw.binding, <<reports.syft>>)
    <3>1. raw'.syft = raw.syft /\ raw'.grype = raw.grype /\ raw'.binding = raw.binding /\ raw'.bytes = <<reports.syft>>
      BY <2>2 DEF Changed
    <3>2. raw'.bytes[1] = reports.syft  BY <3>1
    <3> QED  BY <2>1, <3>1, <3>2 DEF Parsing, Importing
  <2>3. CASE Failed  BY <2>3 DEF Failed, Parsing, Importing
  <2> QED  BY <1>4, <2>2, <2>3, RawNext
<1>5. CASE pc' \notin {"grype", "binding", "syft-bytes", "grype-bytes"}
  BY <1>5 DEF Parsing, Importing
<1>6. CASE Replace
  <2>1. replaced' = replaced + 1 /\ UNCHANGED <<raw, pc>>  BY <1>6 DEF Replace
  <2>2. replaced' # 0  BY <2>1 DEF Shapes
  <2> QED  BY <2>1, <2>2 DEF Parsing
<1>7. CASE UNCHANGED <<raw, reports, replaced, pc>>  BY <1>7 DEF Parsing, Importing
<1>8. CASE GrypeBytes \/ Answer \/ Discover \/ DiscoverPackages \/ LookUp \/ DiffRefs \/ Fault
  <2>1. pc' \in {"discover", "done", "database"}
    <3>1. CASE GrypeBytes  BY <3>1 DEF GrypeBytes, Normalise, Report, Throw
    <3> QED  BY <1>8, <3>1, PlaceNext
  <2> QED  BY <1>5, <2>1
<1>9. CASE ReadManifest \/ HashAsset \/ CheckAge \/ RunJob
  <2>1. pc' \in Loading \cup {"done"}  BY <1>9, PlaceNext
  <2> QED  BY <1>5, <2>1 DEF Loading
<1>10. CASE Snapped \/ ImportBundle \/ Tick \/ Installed \/ UNCHANGED supplyVars \/ \E f \in ToSet(Files) : Write(f)
  <2>1. CASE Snapped
    <3>1. pc' \in Snapshotting \cup {"manifest", "done"}
      BY <2>1 DEF Snapped, Lstat, ReadChunk, Restat, Throw, NextFile, Snapshotting
    <3> QED  BY <1>5, <3>1 DEF Snapshotting
  <2>2. CASE ~ Snapped
    <3>1. UNCHANGED <<raw, reports, replaced, pc>>
      BY <1>10, <2>2 DEF ImportBundle, Tick, Installed, InstallManifest, InstallAsset, Write, supplyVars, directory
    <3> QED  BY <1>7, <3>1
  <2> QED  BY <2>1, <2>2
<1> QED  BY <1>1, <1>2, <1>3, <1>4, <1>6, <1>8, <1>9, <1>10 DEF SupplyNext, Snapped, Installed

\* The run becomes ready to report: the snapshot is whole, the answer accepted.
LEMMA Accepted == ASSUME Ways, Reading, Hashing, Answer, pc' = "discover" \/ result'.status # "error" PROVE ManagedSound
<1>1. pc = "answer"  BY DEF Answer
<1>2. assertResponse /\ assertManagedResponse /\ artifactJson("syft") /\ artifactJson("grype")
  BY DEF Answer, Throw
<1>3. Len(payload) = Len(Files) /\ answer.intelligence = loaded /\ (switched \/ used = Profiles[loaded].digest)
  BY <1>1 DEF Reading, Hashing, Loading
<1> QED  BY <1>2, <1>3 DEF ManagedSound, assertResponse, assertManagedResponse, artifactJson, Fresh

LEMMA SoundNext == ASSUME Ways, Shapes, Reading, Hashing, Parsing, Sound, [SupplyNext]_supplyVars PROVE Sound'
<1>1. CASE Answer
  <2>1. UNCHANGED <<clock, payload, used, switched, raw, answer, mode>> /\ mode = "managed"
    BY <1>1 DEF Answer, snapshot, registry, Ways, Importing
  <2>2. CASE pc' = "discover" \/ result'.status # "error"
    <3>1. ManagedSound  BY <1>1, <2>2, Accepted
    <3> QED  BY <2>1, <3>1 DEF Sound, ManagedSound
  <2>3. CASE ~ (pc' = "discover" \/ result'.status # "error")  BY <2>3 DEF Sound, Reported
  <2> QED  BY <2>2, <2>3
<1>2. CASE Discover
  <2>1. UNCHANGED <<clock, payload, used, switched, answer, replaced, mode>> /\ pc = "discover" /\ pc' = "done"
    BY <1>2 DEF Discover, Report, snapshot, registry, directory
  <2>2. Changed(raw.syft, raw.grype, raw.binding, raw.bytes)  BY <1>2, RawNext
  <2>3. raw'.syft = raw.syft /\ raw'.grype = raw.grype /\ raw'.binding = raw.binding /\ raw'.bytes = raw.bytes
    BY <2>2 DEF Changed
  <2>4. result'.evidence = raw'.bytes  BY <1>2 DEF Discover, Report
  <2> QED  BY <2>1, <2>3, <2>4 DEF Sound, ManagedSound, ImportedSound
<1>3. CASE GrypeBytes
  <2>1. UNCHANGED <<replaced, mode, reports>> /\ pc = "grype-bytes" /\ mode = "imported"
    BY <1>3 DEF GrypeBytes, directory, Ways, Snapshotting, Loading
  <2>2. CASE Failed  BY <2>2 DEF Failed, Sound, Reported
  <2>3. CASE ~ Failed
    <3>1. Changed(raw.syft, raw.grype, raw.binding, <<raw.bytes[1], reports.grype>>)  BY <1>3, <2>3, RawNext
    <3>2. /\ raw'.syft = raw.syft /\ raw'.grype = raw.grype /\ raw'.binding = raw.binding
          /\ raw'.bytes = <<raw.bytes[1], reports.grype>>
      BY <3>1 DEF Changed
    <3>3. replaced = 0 => raw.bytes[1] = raw.syft /\ reports.grype = raw.grype  BY <2>1 DEF Parsing, Importing
    <3>4. raw.binding.commit  BY <2>1 DEF Parsing
    <3>5. Matches(raw.binding.syft, raw'.bytes[1]) /\ Matches(raw.binding.grype, raw'.bytes[2])
      BY <1>3, <2>3 DEF GrypeBytes, Throw, Failed
    <3>6. Reported' => result'.evidence = raw'.bytes
      BY <1>3, <2>1 DEF GrypeBytes, Normalise, Report, Throw, Reported, Ways, NoResult
    <3>7. replaced \in Nat  BY DEF Shapes
    <3>8. ImportedSound'
      <4>1. raw'.bytes = <<raw'.syft, raw'.grype>> \/ replaced' > 0  BY <2>1, <3>2, <3>3, <3>7
      <4> QED  BY <3>2, <3>4, <3>5, <4>1 DEF ImportedSound, Matches
    <3> QED  BY <2>1, <3>6, <3>8 DEF Sound
  <2> QED  BY <2>2, <2>3
<1>4. CASE pc' # "discover" /\ ~ Reported'  BY <1>4 DEF Sound
<1>5. ASSUME mode' = mode, mode \notin {"managed", "imported"} PROVE Sound'  BY <1>5 DEF Sound
<1>6. ASSUME UNCHANGED <<pc, result>>, pc # "discover", pc # "done" PROVE Sound'
  BY <1>6, <1>4 DEF Ways, NoResult, Reported
<1>7. CASE ReadManifest \/ HashAsset \/ CheckAge \/ RunJob \/ Snapped \/ Fault
  <2>1. pc # "done" /\ pc' # "discover"
    BY <1>7 DEF ReadManifest, HashAsset, CheckAge, RunJob, Snapped, Lstat, ReadChunk, Restat, NextFile, Throw, Fault
  <2>2. result' = result \/ result' = [status |-> "error"]
    BY <1>7 DEF ReadManifest, HashAsset, CheckAge, RunJob, Snapped, Lstat, ReadChunk, Restat, Throw, Fault
  <2> QED  BY <1>4, <2>1, <2>2 DEF Ways, NoResult, Reported
<1>8. CASE ReadSyft \/ ReadGrype \/ ReadBinding \/ SyftBytes
  <2>1. pc # "done" /\ pc' # "discover"
    BY <1>8 DEF ReadSyft, ReadGrype, ReadBinding, SyftBytes, Throw
  <2>2. result' = result \/ result'.status \in {"error", "skipped"}
    BY <1>8 DEF ReadSyft, ReadGrype, ReadBinding, SyftBytes, Throw
  <2> QED  BY <1>4, <2>1, <2>2 DEF Ways, NoResult, Reported
<1>9. CASE DiscoverPackages \/ LookUp \/ DiffRefs \/ ImportBundle
  <2>1. mode' = mode /\ pc \in {"lock", "database", "refs"}  BY <1>9 DEF DiscoverPackages, LookUp, DiffRefs, ImportBundle
  <2>2. mode \notin {"managed", "imported"}  BY <2>1 DEF Ways, Snapshotting, Loading, Importing
  <2> QED  BY <1>5, <2>1, <2>2
<1>10. CASE Tick \/ Replace \/ Installed \/ \E f \in ToSet(Files) : Write(f)
  <2>1. UNCHANGED <<pc, result>> /\ pc \notin {"discover", "done"}
    BY <1>10 DEF Tick, Replace, Installed, InstallManifest, InstallAsset, Write, Importing
  <2> QED  BY <1>6, <2>1
<1>11. CASE UNCHANGED supplyVars
  BY <1>11 DEF supplyVars, snapshot, registry, directory, Sound, Reported, ManagedSound, ImportedSound
<1> QED  BY <1>1, <1>2, <1>3, <1>7, <1>8, <1>9, <1>10, <1>11 DEF SupplyNext, Snapped, Installed

LEMMA InitSupply == SupplyInit => SupplyInv
<1> SUFFICES ASSUME SupplyInit PROVE SupplyInv  OBVIOUS
<1>1. /\ clock = 0 /\ payload = <<>> /\ loaded = Absent /\ hashed = {} /\ replaced = 0 /\ result = NoResult
      /\ mode \in Modes
      /\ pc = CASE mode = "managed" -> NextFile(0) [] mode = "imported" -> "syft"
                [] mode = "diff" -> "refs" [] OTHER -> "lock"
  BY DEF SupplyInit
<1>2. /\ mode = "managed" => pc \in {"lstat", "manifest"} /\ pc = NextFile(0)
      /\ mode = "imported" => pc = "syft"
      /\ mode \notin {"managed", "imported"} => pc \in {"refs", "lock"}
  BY <1>1 DEF NextFile
<1>3. pc \in {"lstat", "manifest", "syft", "refs", "lock"}  BY <1>2
<1>4. Ways  BY <1>1, <1>2 DEF Ways, Snapshotting, Loading, Importing, NoResult
<1>5. Shapes
  <2>1. raw = [syft |-> Absent, grype |-> Absent, binding |-> Absent, bytes |-> Absent, lock |-> Nowhere, policy |-> Absent]
    BY DEF SupplyInit
  <2>2. PICK s, g, b : /\ reports = [syft |-> s, grype |-> g, binding |-> b]
                       /\ s \in Inventories \cup {Absent} /\ g \in MatchLists \cup {Absent}
    BY DEF SupplyInit
  <2>3. profile = [manifest |-> 1, assets |-> Profiles[1].assets]  BY DEF SupplyInit
  <2>4. 1 \in DOMAIN Profiles /\ Profiles[1].assets \in [Assets -> Nat]  BY ProfilesInOrder
  <2>5. clock \in 0 .. Horizon /\ replaced \in Nat  BY <1>1, SupplyAssumption
  <2> QED  BY <2>1, <2>2, <2>3, <2>4, <2>5 DEF Shapes
<1>6. Reading
  <2>1. tree = [f \in ToSet(Files) |-> 0] /\ reading = [write |-> 0, chunks |-> <<>>]  BY DEF SupplyInit
  <2>2. MaxWrites \in Nat /\ Len(Files) \in Nat  BY SupplyAssumption, LenProperties
  <2>3. tree \in [ToSet(Files) -> 0 .. MaxWrites]  BY <2>1, <2>2
  <2>4. payload \in Seq(Seq(Nat)) /\ Len(payload) = 0 /\ DOMAIN payload = {}  BY <1>1
  <2>5. /\ pc \in Snapshotting => Len(payload) < Len(Files)
        /\ pc \in Loading => Len(payload) = Len(Files)
        /\ pc \notin {"read", "stat"}
    BY <1>2, <1>3, <2>2, <2>4 DEF NextFile, Snapshotting, Loading
  <2> QED  BY <2>1, <2>2, <2>3, <2>4, <2>5 DEF Reading, InputWhole
<1>7. Hashing  BY <1>1, <1>3 DEF Hashing, Snapshotting, Loading
<1>8. Parsing  BY <1>3 DEF Parsing, Importing
<1>9. Sound  BY <1>1, <1>3 DEF Sound, Reported, NoResult
<1> QED  BY <1>4, <1>5, <1>6, <1>7, <1>8, <1>9 DEF SupplyInv

LEMMA InductiveSupply == SupplySpec => []SupplyInv
<1>1. SupplyInv /\ [SupplyNext]_supplyVars => SupplyInv'
  BY WaysNext, ShapesNext, ReadingNext, HashingNext, ParsingNext, SoundNext DEF SupplyInv
<1> QED  BY <1>1, InitSupply, PTL DEF SupplySpec

\* The search is well typed, whatever is written and replaced meanwhile.
THEOREM SupplyTypeCorrect == SupplySpec => []SupplyTypeOK
<1>1. SupplyInv => SupplyTypeOK
  BY DEF SupplyInv, Ways, Shapes, Reading, Hashing, SupplyTypeOK
<1> QED  BY <1>1, InductiveSupply, PTL

\* What a result says it is about is what it is about: every file of the input
\* as one write left it, the database that the containers used, the digests of
\* the reports that were parsed.
THEOREM ResultsAreIdentified == SupplySpec => []ResultIdentified
<1>1. SupplyInv => ResultIdentified
  <2> SUFFICES ASSUME SupplyInv PROVE ResultIdentified  OBVIOUS
  <2>1. InputWhole  BY DEF SupplyInv, Reading
  <2>2. ASSUME Reported, mode = "managed" PROVE ManagedSound  BY <2>2 DEF SupplyInv, Sound
  <2>3. ASSUME Reported, mode = "imported" PROVE ImportedSound /\ result.evidence = raw.bytes
    BY <2>3 DEF SupplyInv, Sound
  <2> QED  BY <2>1, <2>2, <2>3 DEF ResultIdentified, ManagedSound, ImportedSound
<1> QED  BY <1>1, InductiveSupply, PTL

-----------------------------------------------------------------------------
(* SupplyChain: results are complete.                                      *)

Databases == {bundle.database : bundle \in Bundles}

\* What is at hand when the result is made.
Stocked ==
  /\ database \in Databases \cup {Absent}
  /\ raw.lock \in Looked \cup {Nowhere}
  /\ pc = "database" => raw.lock \in Looked /\ raw.policy \in Policies
  /\ Importing /\ pc # "syft" => raw.syft \in Inventories \cup {Absent}
  /\ pc \in {"binding", "syft-bytes", "grype-bytes", "answer", "discover"} =>
       raw.syft \in Inventories /\ raw.grype \in MatchLists

LEMMA SaidIsLock == ASSUME NEW looked \in Looked PROVE Said(looked) \in Locks
BY SupplyAssumption DEF Looked, Said

LEMMA StockedInit == ASSUME SupplyInit PROVE Stocked
<1>1. pc \in {"lstat", "manifest", "syft", "refs", "lock"}
  <2>1. pc = CASE mode = "managed" -> NextFile(0) [] mode = "imported" -> "syft"
                [] mode = "diff" -> "refs" [] OTHER -> "lock"
    BY DEF SupplyInit
  <2> QED  BY <2>1 DEF NextFile
<1>2. raw = [syft |-> Absent, grype |-> Absent, binding |-> Absent, bytes |-> Absent, lock |-> Nowhere, policy |-> Absent]
  BY DEF SupplyInit
<1>3. raw.lock = Nowhere  BY <1>2
<1>4. database \in Databases \cup {Absent}  BY DEF SupplyInit, Databases
<1> QED  BY <1>1, <1>3, <1>4 DEF Stocked, Importing

\* What the lock files said changes only when they are read.
LEMMA LockNext ==
  ASSUME Shapes
  PROVE  /\ RunJob => /\ raw'.lock = raw.lock
                      /\ raw'.syft \in Inventories /\ raw'.grype \in MatchLists
         /\ Parsed => raw'.lock = raw.lock
         /\ Discover => raw'.lock \in Looked
         /\ DiscoverPackages => raw'.lock \in Looked /\ raw'.policy \in Policies
         /\ DiffRefs => raw'.lock \in Looked /\ raw'.bytes \in Looked
<1>1. PICK s, g, b, d, l, p : raw = [syft |-> s, grype |-> g, binding |-> b, bytes |-> d, lock |-> l, policy |-> p]
  BY DEF Shapes
<1>2. ASSUME RunJob PROVE raw'.lock = raw.lock /\ raw'.syft \in Inventories /\ raw'.grype \in MatchLists
  <2>1. PICK t \in Inventories, o \in MatchLists : raw' = Join([syft |-> t, grype |-> o, bytes |-> <<t, o>>], raw)
    BY <1>2 DEF RunJob
  <2>2. raw' = [syft |-> t, grype |-> o, binding |-> b, bytes |-> <<t, o>>, lock |-> l, policy |-> p]
    BY <1>1, <2>1 DEF Join
  <2> QED  BY <1>1, <2>2
<1>3. ASSUME Parsed PROVE raw'.lock = raw.lock
  <2>1. \/ raw' = raw
        \/ raw' = [raw EXCEPT !.syft = reports.syft]
        \/ raw' = [raw EXCEPT !.grype = reports.grype]
        \/ raw' = [raw EXCEPT !.binding = reports.binding]
        \/ raw' = [raw EXCEPT !.bytes = <<reports.syft>>]
        \/ raw' = [raw EXCEPT !.bytes = <<raw.bytes[1], reports.grype>>]
    BY <1>3 DEF Parsed, ReadSyft, ReadGrype, ReadBinding, SyftBytes, GrypeBytes
  <2> QED  BY <1>1, <2>1
<1>4. ASSUME Discover PROVE raw'.lock \in Looked
  <2>1. PICK t \in Looked : raw' = [raw EXCEPT !.lock = t]  BY <1>4 DEF Discover
  <2> QED  BY <1>1, <2>1
<1>5. ASSUME DiscoverPackages PROVE raw'.lock \in Looked /\ raw'.policy \in Policies
  <2>1. PICK t \in Looked, q \in Policies : raw' = Join([lock |-> t, policy |-> q], raw)  BY <1>5 DEF DiscoverPackages
  <2>2. raw' = [syft |-> s, grype |-> g, binding |-> b, bytes |-> d, lock |-> t, policy |-> q]
    BY <1>1, <2>1 DEF Join
  <2> QED  BY <2>2
<1>6. ASSUME DiffRefs PROVE raw'.lock \in Looked /\ raw'.bytes \in Looked
  <2>1. PICK t \in Looked, u \in Looked : raw' = Join([lock |-> t, bytes |-> u], raw)  BY <1>6 DEF DiffRefs
  <2>2. raw' = [syft |-> s, grype |-> g, binding |-> b, bytes |-> u, lock |-> t, policy |-> p]
    BY <1>1, <2>1 DEF Join
  <2> QED  BY <2>2
<1> QED  BY <1>2, <1>3, <1>4, <1>5, <1>6

LEMMA StockedNext == ASSUME Ways, Shapes, Stocked, [SupplyNext]_supplyVars PROVE Stocked'
<1>1. database' \in Databases \cup {Absent}
  <2>1. CASE ImportBundle  BY <2>1 DEF ImportBundle, Databases
  <2>2. CASE UNCHANGED database  BY <2>2 DEF Stocked
  <2> QED
    BY <2>1, <2>2 DEF SupplyNext, supplyVars, directory, Lstat, ReadChunk, Restat, ReadManifest, HashAsset, CheckAge, RunJob,
      Answer, Discover, ReadSyft, ReadGrype, ReadBinding, SyftBytes, GrypeBytes, DiscoverPackages, LookUp, DiffRefs, Fault,
      Tick, Replace, InstallManifest, Write, InstallAsset
<1> DEFINE Rest == /\ raw.lock \in Looked \cup {Nowhere}
                   /\ pc = "database" => raw.lock \in Looked /\ raw.policy \in Policies
                   /\ Importing /\ pc # "syft" => raw.syft \in Inventories \cup {Absent}
                   /\ pc \in {"binding", "syft-bytes", "grype-bytes", "answer", "discover"} =>
                        raw.syft \in Inventories /\ raw.grype \in MatchLists
<1>2. SUFFICES Rest'  BY <1>1 DEF Stocked
<1>3. Rest  BY DEF Stocked
<1>4. reports.syft \in Inventories \cup {Absent} /\ reports.grype \in MatchLists \cup {Absent}  BY DEF Shapes
<1>5. CASE RunJob
  <2>1. raw'.lock = raw.lock /\ raw'.syft \in Inventories /\ raw'.grype \in MatchLists /\ pc' = "answer"
    BY <1>5, LockNext DEF RunJob
  <2> QED  BY <1>3, <2>1 DEF Importing
<1>6. CASE Discover
  <2>1. raw'.lock \in Looked /\ pc' = "done"  BY <1>6, LockNext DEF Discover, Report
  <2> QED  BY <2>1 DEF Importing
<1>7. CASE DiscoverPackages
  <2>1. raw'.lock \in Looked /\ raw'.policy \in Policies /\ pc' = "database"  BY <1>7, LockNext DEF DiscoverPackages
  <2> QED  BY <2>1 DEF Importing
<1>8. CASE DiffRefs
  <2>1. raw'.lock \in Looked /\ pc' = "done"  BY <1>8, LockNext DEF DiffRefs
  <2> QED  BY <2>1 DEF Importing
<1>9. CASE ReadSyft
  <2>1. raw'.lock = raw.lock  BY <1>9, LockNext DEF Parsed
  <2>2. Changed(reports.syft, raw.grype, raw.binding, raw.bytes)  BY <1>9, RawNext
  <2>3. raw'.syft = reports.syft  BY <2>2 DEF Changed
  <2>4. pc' = "grype"  BY <1>9 DEF ReadSyft
  <2> QED  BY <1>3, <1>4, <2>1, <2>3, <2>4
<1>10. CASE ReadGrype
  <2>1. raw'.lock = raw.lock  BY <1>10, LockNext DEF Parsed
  <2>2. Changed(raw.syft, reports.grype, raw.binding, raw.bytes)  BY <1>10, RawNext
  <2>3. raw'.syft = raw.syft /\ raw'.grype = reports.grype  BY <2>2 DEF Changed
  <2>4. raw.syft \in Inventories \cup {Absent}  BY <1>3, <1>10 DEF ReadGrype, Importing
  <2>5. pc' = "done" \/ (pc' = "binding" /\ raw'.syft # Absent /\ raw'.grype # Absent)  BY <1>10 DEF ReadGrype, Throw
  <2> QED  BY <1>3, <1>4, <2>1, <2>3, <2>4, <2>5 DEF Importing
<1>11. CASE ReadBinding \/ SyftBytes \/ GrypeBytes
  <2>1. raw'.lock = raw.lock  BY <1>11, LockNext DEF Parsed
  <2>2. raw'.syft = raw.syft /\ raw'.grype = raw.grype
    <3>1. \/ Changed(raw.syft, raw.grype, raw'.binding, raw'.bytes)
          \/ raw' = raw
      BY <1>11, RawNext DEF Changed
    <3> QED  BY <3>1 DEF Changed
  <2>3. pc \in {"binding", "syft-bytes", "grype-bytes"} /\ pc' # "database"
    BY <1>11 DEF ReadBinding, SyftBytes, GrypeBytes, Normalise, Report, Throw
  <2>4. raw.syft \in Inventories /\ raw.grype \in MatchLists  BY <1>3, <2>3
  <2> QED  BY <1>3, <2>1, <2>2, <2>3, <2>4
<1>12. CASE Answer
  <2>1. raw' = raw /\ pc = "answer" /\ pc' \in {"discover", "done"}  BY <1>12, PlaceNext DEF Answer
  <2> QED  BY <1>3, <2>1 DEF Importing
<1>13. CASE raw' = raw /\ pc' = pc  BY <1>3, <1>13 DEF Importing
<1>14. CASE raw' = raw /\ pc' \in Snapshotting \cup {"manifest", "hash", "age", "job", "done"}
  BY <1>3, <1>14 DEF Importing, Snapshotting
<1>15. CASE Snapped \/ ReadManifest \/ HashAsset \/ CheckAge \/ LookUp \/ Fault
  <2>1. raw' = raw
    BY <1>15 DEF Snapped, Lstat, ReadChunk, Restat, ReadManifest, HashAsset, CheckAge, LookUp, Fault
  <2>2. pc' \in Snapshotting \cup {"manifest", "hash", "age", "job", "done"}
    BY <1>15 DEF Snapped, Lstat, ReadChunk, Restat, ReadManifest, HashAsset, CheckAge, LookUp, Fault, NextFile, Throw, Snapshotting
  <2> QED  BY <1>14, <2>1, <2>2
<1>16. CASE ImportBundle \/ Tick \/ Replace \/ Installed \/ UNCHANGED supplyVars \/ \E f \in ToSet(Files) : Write(f)
  <2>1. UNCHANGED <<raw, pc>>
    BY <1>16 DEF ImportBundle, Tick, Replace, Installed, InstallManifest, InstallAsset, Write, supplyVars
  <2> QED  BY <1>13, <2>1
<1> QED
  BY <1>5, <1>6, <1>7, <1>8, <1>9, <1>10, <1>11, <1>12, <1>15, <1>16 DEF SupplyNext, Snapped, Installed

\* A report about an inventory that is complete, and whose relationships are
\* known where the documents tell them, is complete.
LEMMA ReportIsComplete ==
  ASSUME mode \in {"managed", "imported"}, mode' = mode, raw'.syft = raw.syft, raw'.grype = raw.grype, IsList(raw.grype),
         NEW inventory, Report(inventory), NEW lock, lock = Said(raw.lock)', Holds(inventory, raw.syft, lock)
  PROVE  ResultComplete'
<1>1. PICK s, f, e : /\ s = IF Complete(inventory) THEN "ok" ELSE "incomplete"
                     /\ f = findingsFromGrype(raw.grype)
                     /\ result' = [status |-> s, inventory |-> inventory, findings |-> f, evidence |-> e]
  BY DEF Report
<1>2. result'.status = s /\ result'.inventory = inventory /\ result'.findings = f  BY <1>1
<1>3. s \in {"ok", "incomplete"} /\ (s = "ok" => Complete(inventory))  BY <1>1
<1>4. FindingsComplete(f, raw.grype)  BY <1>1, FindingsAreComplete DEF IsList
<1>5. ASSUME s = "ok", NEW item \in ToSet(raw.syft.items)
      PROVE  /\ Reason(item) = "none"
             /\ mode = "managed" => \E relation \in {"direct", "os", "transitive"} :
                  IsRelationship(relation, item.purl, raw.syft, lock)
  <2>1. DOMAIN inventory.unresolved = {} /\ (mode = "managed" => Unknown(inventory) = {})  BY <1>3, <1>5 DEF Complete
  <2>2. Reason(item) = "none"  BY <1>5, <2>1 DEF Holds
  <2>3. PICK r : r = inventory.components[item.purl]  OBVIOUS
  <2>4. item.purl \in DOMAIN inventory.components  BY <1>5, <2>2 DEF Holds, InventoryComplete
  <2>5. r \in Relationships /\ IsRelationship(r, item.purl, raw.syft, lock)
    BY <2>3, <2>4 DEF Holds, InventoryComplete
  <2>6. mode = "managed" => r # "unknown"  BY <2>1, <2>3, <2>4 DEF Unknown
  <2> QED  BY <2>2, <2>5, <2>6 DEF Relationships
<1>6. /\ Documents' => /\ InventoryComplete(result'.inventory, raw'.syft, lock)
                       /\ FindingsComplete(result'.findings, raw'.grype)
                       /\ result'.status = "ok" => \A item \in ToSet(raw'.syft.items) :
                            /\ Reason(item) = "none"
                            /\ mode' = "managed" => \E relation \in {"direct", "os", "transitive"} :
                                 IsRelationship(relation, item.purl, raw'.syft, lock)
  BY <1>2, <1>4, <1>5 DEF Holds
<1>7. Documents' /\ result'.status # "diff"  BY <1>2, <1>3 DEF Documents, Reported
<1> QED  BY <1>6, <1>7 DEF ResultComplete

\* The documents at hand are normalised as they are, or else looked up first.
LEMMA NormaliseIsComplete ==
  ASSUME mode \in {"managed", "imported"}, mode' = mode, raw'.syft = raw.syft, raw'.grype = raw.grype,
         raw.syft \in Inventories, raw.grype \in MatchLists, Normalise, result = NoResult
  PROVE  ResultComplete'
<1>1. IsSbom(raw.syft) /\ IsList(raw.grype)  BY DocumentsAssumption
<1>2. CASE Throw
  <2>1. result'.status = "error"  BY <1>2 DEF Throw
  <2> QED  BY <2>1 DEF ResultComplete, Documents, Reported
<1>3. CASE result' = result
  <2>1. result'.status = "none"  BY <1>3 DEF NoResult
  <2> QED  BY <2>1 DEF ResultComplete, Documents, Reported
<1>4. PICK inventory : inventory = inventoryFromCycloneDx(raw.syft)  OBVIOUS
<1>5. CASE Unknown(inventory) = {} /\ Report(inventory)
  <2>1. PICK lock : lock = Said(raw.lock)'  OBVIOUS
  <2>2. Holds(inventory, raw.syft, lock)  BY <1>1, <1>4, <1>5, PlainIsComplete
  <2> QED  BY <1>1, <1>5, <2>1, <2>2, ReportIsComplete
<1> QED  BY <1>2, <1>3, <1>4, <1>5 DEF Normalise

LEMMA DiscoverIsComplete == ASSUME Ways, Shapes, Stocked, Discover PROVE ResultComplete'
<1>1. pc = "discover" /\ mode' = mode  BY DEF Discover
<1>2. mode \in {"managed", "imported"}  BY <1>1 DEF Ways
<1>3. raw.syft \in Inventories /\ raw.grype \in MatchLists  BY <1>1 DEF Stocked
<1>4. IsSbom(raw.syft) /\ IsList(raw.grype)  BY <1>3, DocumentsAssumption
<1>5. PICK looked \in Looked : /\ raw' = [raw EXCEPT !.lock = looked]
                               /\ Report(reconcileRelationships(inventoryFromCycloneDx(raw.syft), Said(looked)))
  BY DEF Discover
<1> DEFINE lock == Said(looked)
<1>6. lock = Said(raw.lock)'
  <2>1. PICK s, g, b, d, l, p : raw = [syft |-> s, grype |-> g, binding |-> b, bytes |-> d, lock |-> l, policy |-> p]
    BY DEF Shapes
  <2>2. raw'.lock = looked  BY <1>5, <2>1
  <2> QED  BY <2>2 DEF Said
<1>7. raw'.syft = raw.syft /\ raw'.grype = raw.grype  BY RawNext DEF Changed
<1>8. IsList(lock) /\ Identified(ToSet(lock))  BY <1>5, SaidIsLock, DocumentsAssumption DEF IsLock
<1> HIDE DEF lock
<1>9. PICK inventory : inventory = reconcileRelationships(inventoryFromCycloneDx(raw.syft), lock)  OBVIOUS
<1>10. Holds(inventory, raw.syft, lock)
  BY <1>4, <1>8, <1>9, ReconciledIsComplete
<1>11. Report(inventory)  BY <1>5, <1>9 DEF lock
<1> QED  BY <1>1, <1>2, <1>4, <1>6, <1>7, <1>10, <1>11, ReportIsComplete

LEMMA LookUpIsComplete == ASSUME Ways, Stocked, LookUp PROVE ResultComplete'
<1>1. pc = "database" /\ mode' = mode /\ raw' = raw  BY DEF LookUp
<1>2. mode \notin {"managed", "imported"}  BY <1>1 DEF Ways, Snapshotting, Loading, Importing
<1>3. CASE Throw
  <2>1. result'.status = "error"  BY <1>3 DEF Throw
  <2> QED  BY <2>1 DEF ResultComplete, Documents, Reported
<1>4. CASE ~Throw
  <2>1. PICK lock, policy, E, A, f :
          /\ lock = Said(raw.lock) /\ lock \in Locks /\ policy = raw.policy /\ policy \in Policies
          /\ E = Examined(lock, policy) /\ A = Advisories
          /\ f = Join(findingsFromAdvisories(E, A, policy), findingsFromPolicy(E, policy))
    BY <1>1, SaidIsLock DEF Stocked
  <2>2. result' = [status |-> "ok", evidence |-> A, findings |-> f]  BY <1>4, <2>1 DEF LookUp
  <2>3. result'.status = "ok" /\ result'.evidence = A /\ result'.findings = f  BY <2>2
  <2>4. IsLock(lock) /\ \A e \in ToSet(lock) : PolicyFor(policy, e.package)  BY <2>1, DocumentsAssumption
  <2>5. IsDatabase(A)
    <3>1. CASE ~(raw.policy.search /\ database # Absent)
      <4>1. A = <<>> /\ ToSet(A) = {}  BY <2>1, <3>1 DEF Advisories, ToSet
      <4> QED  BY <4>1 DEF IsDatabase, IsList
    <3>2. CASE raw.policy.search /\ database # Absent
      <4>1. A \in Databases  BY <2>1, <3>2 DEF Advisories, Stocked
      <4> QED  BY <4>1, DocumentsAssumption DEF Databases
    <3> QED  BY <3>1, <3>2
  <2>6. AdvisoriesComplete(f, lock, policy, A)  BY <2>1, <2>4, <2>5, AdvisoriesAreComplete
  <2>7. PolicyComplete(f, lock, policy, A)  BY <2>1, <2>4, <2>5, PolicyIsComplete
  <2>8. ~Documents' /\ result'.status # "diff"  BY <1>1, <1>2, <2>3 DEF Documents
  <2> QED  BY <1>1, <2>1, <2>3, <2>6, <2>7, <2>8 DEF ResultComplete
<1> QED  BY <1>3, <1>4

LEMMA DiffIsComplete == ASSUME Shapes, DiffRefs PROVE ResultComplete'
<1>1. PICK before, after \in Looked :
        /\ raw' = Join([lock |-> before, bytes |-> after], raw)
        /\ result' = [status |-> "diff", changes |-> diffDependencies(Said(before), Said(after))]
  BY DEF DiffRefs
<1>2. raw'.lock = before /\ raw'.bytes = after
  <2>1. PICK s, g, b, d, l, p : raw = [syft |-> s, grype |-> g, binding |-> b, bytes |-> d, lock |-> l, policy |-> p]
    BY DEF Shapes
  <2>2. raw' = [syft |-> s, grype |-> g, binding |-> b, bytes |-> after, lock |-> before, policy |-> p]
    BY <1>1, <2>1 DEF Join
  <2> QED  BY <2>2
<1>3. result'.status = "diff" /\ result'.changes = diffDependencies(Said(before), Said(after))  BY <1>1
<1>4. PICK was, is : was = Said(before) /\ is = Said(after)  OBVIOUS
<1>5. IsLock(was) /\ IsLock(is)  BY <1>4, SaidIsLock, DocumentsAssumption
<1>7. DiffComplete(result'.changes, was, is)  BY <1>3, <1>4, <1>5, ChangesAreComplete
<1>8. was = Said(raw.lock)' /\ is = Said(raw.bytes)'  BY <1>2, <1>4 DEF Said
<1>6. ~Reported' /\ ~Documents'  BY <1>3 DEF Documents, Reported
<1> QED  BY <1>6, <1>7, <1>8 DEF ResultComplete

LEMMA CompleteNext ==
  ASSUME Ways, Shapes, Stocked, ResultComplete, [SupplyNext]_supplyVars
  PROVE  ResultComplete'
<1>1. CASE UNCHANGED supplyVars
  BY <1>1 DEF supplyVars, ResultComplete, Documents, Reported
<1>2. CASE result'.status \in {"none", "error", "skipped"}
  BY <1>2 DEF ResultComplete, Documents, Reported
<1>3. CASE Answer
  <2>1. pc = "answer" /\ mode' = mode /\ raw' = raw  BY <1>3 DEF Answer
  <2>2. mode \in {"managed", "imported"} /\ result = NoResult  BY <2>1 DEF Ways, Importing
  <2>3. raw.syft \in Inventories /\ raw.grype \in MatchLists  BY <2>1 DEF Stocked
  <2>4. CASE Normalise  BY <2>1, <2>2, <2>3, <2>4, NormaliseIsComplete
  <2>5. CASE Throw
    <3>1. result'.status = "error"  BY <2>5 DEF Throw
    <3> QED  BY <1>2, <3>1
  <2> QED  BY <1>3, <2>4, <2>5 DEF Answer
<1>4. CASE GrypeBytes
  <2>1. pc = "grype-bytes" /\ mode' = mode  BY <1>4 DEF GrypeBytes
  <2>2. mode \in {"managed", "imported"} /\ result = NoResult  BY <2>1 DEF Ways
  <2>3. raw.syft \in Inventories /\ raw.grype \in MatchLists  BY <2>1 DEF Stocked
  <2>4. raw'.syft = raw.syft /\ raw'.grype = raw.grype  BY <1>4, RawNext DEF Changed
  <2>5. CASE Normalise  BY <2>1, <2>2, <2>3, <2>4, <2>5, NormaliseIsComplete
  <2>6. CASE Throw
    <3>1. result'.status = "error"  BY <2>6 DEF Throw
    <3> QED  BY <1>2, <3>1
  <2> QED  BY <1>4, <2>5, <2>6 DEF GrypeBytes
<1>5. CASE Discover  BY <1>5, DiscoverIsComplete
<1>6. CASE LookUp  BY <1>6, LookUpIsComplete
<1>7. CASE DiffRefs  BY <1>7, DiffIsComplete
<1>8. ASSUME pc # "done", result' = result \/ result'.status \in {"error", "skipped"} PROVE ResultComplete'
  BY <1>2, <1>8 DEF Ways, NoResult
<1>9. CASE Snapped \/ ReadManifest \/ HashAsset \/ CheckAge \/ RunJob \/ Fault
  <2>1. pc # "done"
    BY <1>9 DEF Snapped, Lstat, ReadChunk, Restat, ReadManifest, HashAsset, CheckAge, RunJob, Fault
  <2>2. result' = result \/ result' = [status |-> "error"]
    BY <1>9 DEF Snapped, Lstat, ReadChunk, Restat, ReadManifest, HashAsset, CheckAge, RunJob, Fault, Throw
  <2> QED  BY <1>8, <2>1, <2>2
<1>10. CASE ReadSyft \/ ReadGrype \/ ReadBinding \/ SyftBytes \/ DiscoverPackages
  <2>1. pc # "done"  BY <1>10 DEF ReadSyft, ReadGrype, ReadBinding, SyftBytes, DiscoverPackages
  <2>2. result' = result \/ result' = [status |-> "error"] \/ result' = [status |-> "skipped"]
    BY <1>10 DEF ReadSyft, ReadGrype, ReadBinding, SyftBytes, DiscoverPackages, Throw
  <2> QED  BY <1>8, <2>1, <2>2
<1>11. CASE ImportBundle \/ Tick \/ Replace \/ Installed \/ \E f \in ToSet(Files) : Write(f)
  <2>1. pc # "done" /\ result' = result
    BY <1>11 DEF ImportBundle, Tick, Replace, Installed, InstallManifest, InstallAsset, Write, Importing
  <2> QED  BY <1>8, <2>1
<1> QED
  BY <1>1, <1>3, <1>4, <1>5, <1>6, <1>7, <1>9, <1>10, <1>11 DEF SupplyNext, Snapped, Installed

\* A result holds all that its documents say, in whatever order they say it: the
\* components of the SBOM with the relationships that rank first, the matches at
\* their worst, the advisories and rules that hold of the packages of the lock
\* files; and the changes between two commits lead from the one to the other.
\* Lock files are those that could be read (adapters.ts, supply-chain/scanner.ts,
\* dependencies/scanner.ts, diff.ts).
THEOREM ResultsAreComplete == SupplySpec => []ResultComplete
<1> DEFINE Inv == SupplyInv /\ Stocked /\ ResultComplete
<1>1. SupplyInit => Inv
  <2> SUFFICES ASSUME SupplyInit PROVE Inv  OBVIOUS
  <2>1. result.status = "none"  BY DEF SupplyInit, NoResult
  <2>2. ResultComplete  BY <2>1 DEF ResultComplete, Documents, Reported
  <2> QED  BY <2>2, InitSupply, StockedInit
<1>2. Inv /\ [SupplyNext]_supplyVars => Inv'
  BY WaysNext, ShapesNext, ReadingNext, HashingNext, ParsingNext, SoundNext, StockedNext, CompleteNext DEF SupplyInv
<1> QED  BY <1>1, <1>2, PTL DEF SupplySpec
=============================================================================
