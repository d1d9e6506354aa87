----------------------- MODULE ComplianceStoreProofs -----------------------
(***************************************************************************)
(* Proofs about ComplianceStore, for any runs, documents and number of     *)
(* operations: what publication, retention, backup and restore leave of a  *)
(* run, and what a request that reads meanwhile may answer.                *)
(***************************************************************************)
EXTENDS ComplianceStore, TLAPS

-----------------------------------------------------------------------------
(* The invariant of the directories.                                       *)

Kind == {"none", "torn", "good", "altered"}
Content == Kind \X SUBSET (Docs \X Kind)
Dir == [Names -> Content]
Upkeep ==
  [op : {"none", "retention", "backup", "clear", "restore"}, runs : SUBSET Runs,
   files : SUBSET (Names \cup {"temporary"}), stage : Nat, owed : SUBSET Runs,
   result : {"none", "done", "failed", "created", "cut short"}, n : Nat]

Types ==
  /\ store \in [Runs -> Dir] /\ backup \in [Runs -> Dir]
  /\ pub \in [Runs -> 0 .. Failed]
  /\ fate \in [Runs -> {"kept", "removed", "crossed"}]
  /\ old \subseteq Runs
  /\ maint \in Upkeep

\* The manifest of a whole publication lists every document as it was written.
All == {<<d, "good">> : d \in Docs}
Lists(dir) == dir["integrity"] # None => dir["integrity"][2] = All

\* A file as a whole publication has it.
Proper(dir, n) ==
  /\ n \in Docs => State(dir, n) \in {"good", "altered"}
  /\ n = "integrity" => dir[n] = Good(All)
  /\ n = "signature" /\ Signing => State(dir, n) = "good"

\* The file that is written last is good in publications that are done only.
Last == IF Signing THEN "signature" ELSE "integrity"
Sealed(dir, stage) == State(dir, Last) = "good" => stage = Done

Blank(dir) == \A n \in Names : dir[n] = None

\* What a publication has written at each stage, if nothing interfered.
Progress(dir, stage) ==
  /\ stage \in 1 .. Signature => \A i \in DOMAIN Documents : i < stage => State(dir, Documents[i]) = "good"
  /\ stage = Listing => dir["integrity"] = Torn(All)
  /\ stage \in {ToSign, Signature} => dir["integrity"] = Good(All)
  /\ stage = Signature => State(dir, "signature") = "torn"

\* A run: its directory, its copy in the backup, its stage and its fate.
RunSound(dir, copy, stage, what) ==
  /\ stage = 0 => Blank(dir) /\ Blank(copy) /\ what = "kept"
  /\ Sealed(dir, stage) /\ Sealed(copy, stage)
  /\ what # "crossed" => Lists(dir) /\ Lists(copy) /\ Progress(dir, stage)
  /\ what = "kept" /\ stage = Done => Whole(dir)
  /\ what = "removed" => stage \in {Done, Failed}

Directories == \A r \in Runs : RunSound(store[r], backup[r], pub[r], fate[r]) /\ (r \in old => pub[r] = Done)

\* The run that maintenance is inside of.
Opened(r) == Turn(r) /\ maint.files # {}

\* Retention removes no run but those that are old.
Retiring(r) == maint.op = "retention" /\ Opened(r) => r \in old /\ fate[r] # "kept"

\* A backup has of the runs that it owes what it has gone through.
Owing(r) ==
  r \in maint.owed =>
    /\ maint.op = "backup" =>
         /\ Whole(store[r])
         /\ r \notin maint.runs => Whole(backup[r])
         /\ Opened(r) => \A n \in Names \ maint.files : Proper(backup[r], n)
    /\ maint.result = "created" => Whole(backup[r])

\* A file is as the backup has it, unless it was altered since.
Copied(dir, copy, n) ==
  dir[n] = copy[n] \/ (n \in Docs /\ State(dir, n) = "altered" /\ State(copy, n) = "good")

\* A restore has of the runs that it takes away what it has gone through.
Refilling(r) ==
  /\ maint.op \in {"clear", "restore"} /\ fate[r] = "kept" => pub[r] = 0
  /\ maint.op = "restore" /\ fate[r] = "removed" =>
       /\ r \in maint.runs /\ ~ Opened(r) => Blank(store[r])
       /\ r \notin maint.runs => \A n \in Names : Copied(store[r], backup[r], n)
       /\ Opened(r) => \A n \in Names \ maint.files : Copied(store[r], backup[r], n)
  /\ maint.op = "restore" /\ Turn(r) => maint.files \subseteq Present(backup[r])

Maintained ==
  /\ maint.runs = {} => maint.files = {}
  /\ maint.op # "none" => maint.result = "none"
  /\ \A r \in Runs : Retiring(r) /\ Owing(r) /\ Refilling(r)

StoreInv == Types /\ Directories /\ Maintained

-----------------------------------------------------------------------------
(* The invariant of the request.                                           *)

Asking == reader.at \in {"next", "manifest", "verify", "signature", "read"}
AtRun == reader.at \in {"manifest", "verify", "signature", "read"}
Item == Docs \X Kind

Requests ==
  [at : {"idle", "next", "manifest", "verify", "signature", "read", "answered"}, op : {"get", "list", "view"},
   todo : SUBSET Runs, run : Runs \cup {"none"}, left : SUBSET (Docs \cup Item), second : BOOLEAN,
   got : SUBSET Runs, answer : {"none", "not found", "failed", "ok"}, suspect : SUBSET Docs,
   expected : SUBSET Runs, quiet : BOOLEAN, sound : BOOLEAN]

ReaderTypes ==
  /\ reader \in Requests
  /\ AtRun => reader.run \in Runs
  /\ reader.at = "verify" => reader.left \subseteq Item
  /\ reader.at \in {"signature", "read"} => reader.left \subseteq Docs
  /\ reader.at = "signature" => Signing
  /\ reader.at # "answered" => reader.answer = "none"

\* What the request knows of the directories is so.
Watching ==
  /\ Asking /\ reader.quiet => \A r \in Runs : Settled(store[r])
  /\ Asking => \A r \in reader.expected : Unaltered(store[r])
  /\ AtRun => \A d \in reader.suspect : State(store[reader.run], d) = "altered"

\* Where nothing was wrong, the run that is read is whole.
Explained ==
  /\ reader.at \in {"verify", "signature", "read"} /\ reader.quiet => Unaltered(store[reader.run])
  /\ reader.at = "verify" /\ reader.quiet => reader.left \subseteq All
  /\ FailureExplained

\* A document that was altered has its digest still to be checked.
Sound ==
  (\A r \in Runs : fate[r] # "crossed") =>
    /\ reader.sound
    /\ reader.at = "verify" => \A d \in reader.suspect : <<d, "good">> \in reader.left
    /\ reader.at \in {"signature", "read"} => reader.suspect = {}

\* A publication that was whole all the time is still to be read, or is there.
Collected ==
  /\ Asking /\ reader.op # "get" =>
       \A r \in reader.expected :
         \/ r \in reader.got
         \/ ~ reader.second /\ (r \in reader.todo \/ (AtRun /\ r = reader.run))
  /\ ListComplete

ReaderInv == ReaderTypes /\ Watching /\ Explained /\ Sound /\ Collected

-----------------------------------------------------------------------------
(* The constants, and what a file holds.                                   *)

\* The stages of a publication, in order.
LEMMA Stages ==
  /\ ToList \in Nat /\ 1 < ToList /\ DOMAIN Documents = 1 .. (ToList - 1)
  /\ Listing = ToList + 1 /\ ToSign = ToList + 2 /\ Signature = ToList + 3
  /\ Done = ToList + 4 /\ Failed = ToList + 5
<1>1. Len(Documents) \in Nat /\ Len(Documents) > 0 /\ DOMAIN Documents = 1 .. Len(Documents)
  BY StoreAssumption
<1> QED  BY <1>1 DEF ToList, Listing, ToSign, Signature, Done, Failed

LEMMA NamesApart ==
  /\ Docs \subseteq Names /\ "integrity" \in Names /\ "signature" \in Names
  /\ "integrity" \notin Docs /\ "signature" \notin Docs /\ "temporary" \notin Names
  /\ \A n \in Names : n \in Docs \/ n = "integrity" \/ n = "signature"
  /\ "summary" \in Docs /\ \A i \in DOMAIN Documents : Documents[i] \in Docs
<1>1. /\ "integrity" \notin Docs /\ "signature" \notin Docs /\ "temporary" \notin Docs
      /\ Documents[1] = "summary"
  BY StoreAssumption
<1>2. \A i \in DOMAIN Documents : Documents[i] \in Docs  BY DEF Docs
<1>3. 1 \in DOMAIN Documents  BY Stages
<1> QED  BY <1>1, <1>2, <1>3 DEF Names

\* The contents a file can have.
LEMMA Contents ==
  /\ None \in Content /\ None[1] = "none"
  /\ Altered \in Content /\ Altered[1] = "altered"
  /\ \A c \in Content : c[1] \in Kind /\ c[2] \in SUBSET Item /\ (c[1] # "none" => c # None)
BY DEF None, Altered, Content, Kind, Item

LEMMA Written ==
  ASSUME NEW listed \in SUBSET Item
  PROVE  /\ Torn(listed) \in Content /\ Torn(listed)[1] = "torn" /\ Torn(listed)[2] = listed
         /\ Good(listed) \in Content /\ Good(listed)[1] = "good" /\ Good(listed)[2] = listed
         /\ Torn(listed) # None /\ Good(listed) # None
BY DEF Torn, Good, None, Content, Kind, Item

LEMMA AllItems == All \in SUBSET Item /\ {} \in SUBSET Item
BY DEF All, Item, Kind

\* A publication is whole when each of its files is as it should be.
LEMMA WholeProper ==
  ASSUME NEW dir
  PROVE  Whole(dir) <=> \A n \in Names : Proper(dir, n)
<1>1. ASSUME Whole(dir), NEW n \in Names PROVE Proper(dir, n)
  BY <1>1, NamesApart DEF Whole, Proper, All
<1>2. ASSUME \A n \in Names : Proper(dir, n) PROVE Whole(dir)
  BY <1>2, NamesApart DEF Whole, Proper, All
<1> QED  BY <1>1, <1>2

\* A whole publication is done.
LEMMA WholeDone ==
  ASSUME NEW dir, NEW stage, Whole(dir), Sealed(dir, stage)
  PROVE  stage = Done /\ ~ Blank(dir)
<1>1. State(dir, Last) = "good"
  <2>1. dir["integrity"][1] = "good"  BY AllItems, Written DEF Whole, All
  <2> QED  BY <2>1 DEF Whole, Last, State
<1>2. Last \in Names  BY NamesApart DEF Last
<1>3. dir[Last] # None  BY <1>1, Contents DEF State
<1> QED  BY <1>1, <1>2, <1>3 DEF Sealed, Blank

\* An empty directory.
LEMMA EmptyDir ==
  Empty \in Dir /\ Blank(Empty) /\ Lists(Empty) /\ \A stage : Sealed(Empty, stage)
<1>1. Empty \in Dir /\ \A n \in Names : Empty[n] = None  BY Contents DEF Empty, Dir
<1>2. State(Empty, Last) = "none"  BY <1>1, NamesApart, Contents DEF State, Last
<1> QED  BY <1>1, <1>2, NamesApart DEF Blank, Lists, Sealed

-----------------------------------------------------------------------------
(* The turns of maintenance.                                               *)

\* There is one run at a time whose turn it is.
LEMMA OneTurn ==
  ASSUME NEW r, NEW q, NEW S, First(RunOrder, r, S), First(RunOrder, q, S)
  PROVE  r = q
<1>1. PICK i \in DOMAIN RunOrder : RunOrder[i] = r /\ \A k \in 1 .. (i - 1) : RunOrder[k] \notin S
  BY DEF First
<1>2. PICK j \in DOMAIN RunOrder : RunOrder[j] = q /\ \A k \in 1 .. (j - 1) : RunOrder[k] \notin S
  BY DEF First
<1>3. DOMAIN RunOrder \subseteq Nat \ {0} /\ r \in S /\ q \in S  BY StoreAssumption DEF First
<1>4. CASE i < j
  <2>1. i \in 1 .. (j - 1)  BY <1>3, <1>4
  <2> QED  BY <1>1, <1>2, <1>3, <2>1
<1>5. CASE j < i
  <2>1. j \in 1 .. (i - 1)  BY <1>3, <1>5
  <2> QED  BY <1>1, <1>2, <1>3, <2>1
<1>6. CASE i = j  BY <1>1, <1>2, <1>6
<1> QED  BY <1>3, <1>4, <1>5, <1>6

\* Going on to other files of the run whose turn it is, or to the next run.
GoesOn(r, files) ==
  /\ maint' \in Upkeep /\ UNCHANGED <<maint.op, maint.owed, maint.result>>
  /\ maint'.files = files /\ (maint'.runs = {} => maint'.files = {})
  /\ \A q \in Runs : q # r => (q \in maint'.runs <=> q \in maint.runs) /\ ~ Opened(q) /\ ~ Opened(q)'
  /\ files # {} => Opened(r)' /\ r \in maint'.runs
  /\ files = {} => ~ Opened(r)' /\ r \notin maint'.runs

LEMMA HandleNext ==
  ASSUME Types, NEW r \in Runs, Turn(r), NEW files \in SUBSET (Names \cup {"temporary"}), Handle(r, files)
  PROVE  GoesOn(r, files)
<1>1. PICK m \in Upkeep : m = maint  BY DEF Types
<1>2. r \in m.runs /\ \A q \in Runs : Turn(q) => q = r  BY <1>1, OneTurn DEF Turn, First
<1>3. CASE files = {}
  <2>1. PICK m2 : m2 = [m EXCEPT !.runs = @ \ {r}, !.files = {}, !.stage = 0]  OBVIOUS
  <2>2. /\ m2 \in Upkeep /\ m2.op = m.op /\ m2.owed = m.owed /\ m2.result = m.result
        /\ m2.files = {} /\ m2.runs = m.runs \ {r}
    BY <2>1 DEF Upkeep
  <2>3. maint' = m2  BY <1>1, <1>3, <2>1 DEF Handle
  <2> QED  BY <1>1, <1>2, <1>3, <2>2, <2>3 DEF Opened, GoesOn
<1>4. CASE files # {}
  <2>1. PICK m2 : m2 = [m EXCEPT !.files = files]  OBVIOUS
  <2>2. /\ m2 \in Upkeep /\ m2.op = m.op /\ m2.owed = m.owed /\ m2.result = m.result
        /\ m2.files = files /\ m2.runs = m.runs
    BY <2>1 DEF Upkeep
  <2>3. maint' = m2  BY <1>1, <1>4, <2>1 DEF Handle
  <2>4. \A q \in Runs : Turn(q)' <=> Turn(q)  BY <1>1, <2>2, <2>3 DEF Turn
  <2> QED  BY <1>1, <1>2, <1>4, <2>2, <2>3, <2>4 DEF Opened, GoesOn
<1> QED  BY <1>3, <1>4

-----------------------------------------------------------------------------
(* Publications.                                                           *)

\* Init establishes the invariant: there is nothing, and nothing under way.
LEMMA InitStore == Init => StoreInv
<1> SUFFICES ASSUME Init PROVE StoreInv
  OBVIOUS
<1>1. \A r \in Runs : store[r] = Empty /\ backup[r] = Empty /\ pub[r] = 0 /\ fate[r] = "kept"
  BY DEF Init
<1>2. PICK m : m = [op |-> "none", runs |-> {}, files |-> {}, stage |-> 0, owed |-> {}, result |-> "none", n |-> 0]
  OBVIOUS
<1>3. maint = m /\ m \in Upkeep /\ m.op = "none" /\ m.owed = {} /\ m.files = {}
  BY <1>2 DEF Init, Upkeep
<1>4. Types
  <2>1. 0 \in 0 .. Failed  BY Stages
  <2> QED  BY <1>3, <2>1, EmptyDir DEF Init, Types
<1>5. Directories
  <2>1. 0 # Done /\ 0 # Listing /\ 0 # ToSign /\ 0 # Signature /\ 0 \notin 1 .. Signature  BY Stages
  <2>2. Progress(Empty, 0)  BY <2>1 DEF Progress
  <2>3. RunSound(Empty, Empty, 0, "kept")  BY <2>1, <2>2, EmptyDir DEF RunSound
  <2> QED  BY <1>1, <2>3 DEF Init, Directories
<1>6. Maintained  BY <1>3 DEF Maintained, Retiring, Owing, Refilling
<1> QED  BY <1>4, <1>5, <1>6 DEF StoreInv

\* A publication goes on to stage s with the files dir: what must be so of them, unless
\* a restore met it.
LEMMA WriteNext ==
  ASSUME StoreInv, NEW r \in Runs, pub[r] \in 0 .. Signature, NEW dir \in Dir, NEW s \in 1 .. Failed,
         store' = [store EXCEPT ![r] = dir], Stage(r, s), Sealed(dir, s),
         fate[r] # "crossed" /\ ~ Restoring =>
           Lists(dir) /\ Progress(dir, s) /\ (fate[r] = "kept" /\ s = Done => Whole(dir))
  PROVE  StoreInv'
<1>1. Types /\ Directories /\ Maintained  BY DEF StoreInv
<1>2. /\ UNCHANGED <<old, maint, backup>> /\ pub' = [pub EXCEPT ![r] = s]
      /\ fate' = IF Restoring THEN [fate EXCEPT ![r] = "crossed"] ELSE fate
  BY DEF Stage
<1>3. pub[r] # Done /\ pub[r] # Failed /\ s # 0  BY Stages
<1>4. /\ store' \in [Runs -> Dir] /\ store'[r] = dir /\ \A q \in Runs : q # r => store'[q] = store[q]
      /\ pub' \in [Runs -> 0 .. Failed] /\ pub'[r] = s /\ \A q \in Runs : q # r => pub'[q] = pub[q]
  <2>1. s \in 0 .. Failed  OBVIOUS
  <2>2. store \in [Runs -> Dir] /\ pub \in [Runs -> 0 .. Failed]  BY <1>1 DEF Types
  <2>3. /\ store' \in [Runs -> Dir] /\ store'[r] = dir /\ \A q \in Runs : q # r => store'[q] = store[q]
    BY <2>2
  <2> QED  BY <1>2, <2>1, <2>2, <2>3
<1>5. /\ fate' \in [Runs -> {"kept", "removed", "crossed"}]
      /\ fate'[r] = IF Restoring THEN "crossed" ELSE fate[r]
      /\ \A q \in Runs : q # r => fate'[q] = fate[q]
  BY <1>1, <1>2 DEF Types
<1>6. Types'  BY <1>1, <1>2, <1>4, <1>5 DEF Types
<1>7. \A q \in Runs : RunSound(store[q], backup[q], pub[q], fate[q]) /\ (q \in old => pub[q] = Done)
  BY <1>1 DEF Directories
<1>8. r \notin old /\ fate[r] # "removed"  BY <1>3, <1>7 DEF RunSound
<1>9. Directories'
  <2>1. Sealed(backup[r], s)  BY <1>3, <1>7 DEF RunSound, Sealed
  <2>2. fate[r] # "crossed" => Lists(backup[r])  BY <1>7 DEF RunSound
  <2>3. RunSound(dir, backup[r], s, fate'[r])
    BY <1>3, <1>5, <1>8, <2>1, <2>2 DEF RunSound
  <2>4. ASSUME NEW q \in Runs
        PROVE  RunSound(store'[q], backup[q], pub'[q], fate'[q]) /\ (q \in old => pub'[q] = Done)
    <3>1. CASE q = r  BY <1>4, <1>8, <2>3, <3>1
    <3>2. CASE q # r  BY <1>4, <1>5, <1>7, <3>2
    <3> QED  BY <3>1, <3>2
  <2> QED  BY <1>2, <2>4 DEF Directories
<1>10. \A q \in Runs : Opened(q)' <=> Opened(q)  BY <1>2 DEF Opened, Turn
<1>11. Maintained'
  <2>1. ASSUME NEW q \in Runs PROVE Retiring(q)'
    <3>1. Retiring(q)  BY <1>1 DEF Maintained
    <3>2. CASE q = r
      <4>1. ~ (maint.op = "retention" /\ Opened(r))  BY <1>8, <3>1, <3>2 DEF Retiring
      <4> QED  BY <1>2, <1>10, <3>2, <4>1 DEF Retiring
    <3>3. CASE q # r  BY <1>2, <1>5, <1>10, <3>1, <3>3 DEF Retiring
    <3> QED  BY <3>2, <3>3
  <2>2. ASSUME NEW q \in Runs PROVE Owing(q)'
    <3>1. Owing(q)  BY <1>1 DEF Maintained
    <3>2. CASE q = r
      <4>1. ~ Whole(store[r])  BY <1>3, <1>7, WholeDone DEF RunSound
      <4>2. ~ (r \in maint.owed /\ maint.op = "backup")  BY <3>1, <3>2, <4>1 DEF Owing
      <4> QED  BY <1>2, <3>1, <3>2, <4>2 DEF Owing
    <3>3. CASE q # r
      <4>1. store'[q] = store[q]  BY <1>4, <3>3
      <4> QED  BY <1>2, <1>10, <3>1, <4>1 DEF Owing
    <3> QED  BY <3>2, <3>3
  <2>3. ASSUME NEW q \in Runs PROVE Refilling(q)'
    <3>1. Refilling(q)  BY <1>1 DEF Maintained
    <3>2. Turn(q)' <=> Turn(q)  BY <1>2 DEF Turn
    <3>3. CASE q = r
      <4>1. maint.op \in {"clear", "restore"} => fate'[r] = "crossed"  BY <1>5 DEF Restoring
      <4> QED  BY <1>2, <3>1, <3>2, <3>3, <4>1 DEF Refilling
    <3>4. CASE q # r
      <4>1. store'[q] = store[q] /\ fate'[q] = fate[q] /\ pub'[q] = pub[q]  BY <1>4, <1>5, <3>4
      <4> QED  BY <1>2, <1>10, <3>1, <3>2, <4>1 DEF Refilling
    <3> QED  BY <3>3, <3>4
  <2> QED  BY <1>1, <1>2, <2>1, <2>2, <2>3 DEF Maintained
<1> QED  BY <1>6, <1>9, <1>11 DEF StoreInv

\* Writing one file.
Set(r, n, content) == store' = [store EXCEPT ![r][n] = content]

LEMMA SetFile ==
  ASSUME Types, NEW r \in Runs, NEW n \in Names, NEW content \in Content, Set(r, n, content)
  PROVE  \E dir \in Dir : /\ store' = [store EXCEPT ![r] = dir] /\ dir[n] = content
                          /\ \A m \in Names : m # n => dir[m] = store[r][m]
<1>1. store \in [Runs -> Dir]  BY DEF Types
<1>2. PICK dir : dir = [store[r] EXCEPT ![n] = content]  OBVIOUS
<1>3. dir \in Dir /\ dir[n] = content /\ \A m \in Names : m # n => dir[m] = store[r][m]
  BY <1>1, <1>2 DEF Dir
<1>4. store' = [store EXCEPT ![r] = dir]  BY <1>2 DEF Set
<1> QED  BY <1>3, <1>4

\* The same, when nothing is written.
LEMMA SameFiles ==
  ASSUME Types, NEW r \in Runs, UNCHANGED store
  PROVE  store[r] \in Dir /\ store' = [store EXCEPT ![r] = store[r]]
BY DEF Types

\* What a run that is being published has.
LEMMA Underway ==
  ASSUME StoreInv, NEW r \in Runs, pub[r] \in 1 .. Signature
  PROVE  /\ Types /\ store[r] \in Dir /\ State(store[r], Last) # "good"
         /\ fate[r] # "crossed" => Lists(store[r]) /\ Progress(store[r], pub[r])
<1>1. Types /\ RunSound(store[r], backup[r], pub[r], fate[r])  BY DEF StoreInv, Directories
<1>2. pub[r] # Done  BY Stages
<1> QED  BY <1>1, <1>2 DEF RunSound, Sealed, Types

LEMMA MakeDirectoryNext == ASSUME StoreInv, NEW r \in Runs, MakeDirectory(r) PROVE StoreInv'
<1>1. pub[r] = 0 /\ Stage(r, 1) /\ UNCHANGED store  BY DEF MakeDirectory
<1>2. Types /\ RunSound(store[r], backup[r], pub[r], fate[r])  BY DEF StoreInv, Directories
<1>3. Blank(store[r])  BY <1>1, <1>2 DEF RunSound
<1>4. store[r] \in Dir /\ store' = [store EXCEPT ![r] = store[r]]  BY <1>1, <1>2, SameFiles
<1>5. Lists(store[r]) /\ Sealed(store[r], 1)
  BY <1>3, NamesApart, Contents DEF Blank, Lists, Sealed, State, Last
<1>6. /\ 1 # Listing /\ 1 # ToSign /\ 1 # Signature /\ 1 # Done /\ 1 \in 1 .. Failed /\ 0 \in 0 .. Signature
      /\ \A i \in DOMAIN Documents : ~ i < 1
  BY Stages
<1>7. Progress(store[r], 1)  BY <1>6 DEF Progress
<1>8. pub[r] \in 0 .. Signature  BY <1>1, <1>6
<1> QED  BY <1>1, <1>4, <1>5, <1>6, <1>7, <1>8, WriteNext

LEMMA WriteDocumentNext == ASSUME StoreInv, NEW r \in Runs, WriteDocument(r) PROVE StoreInv'
<1>1. PICK s : s = pub[r]  OBVIOUS
<1>2. s \in 1 .. (ToList - 1) /\ Set(r, Documents[s], Good({})) /\ Stage(r, s + 1)
  BY <1>1, Stages DEF WriteDocument, Put, Set
<1>3. /\ pub[r] \in 1 .. Signature /\ pub[r] \in 0 .. Signature /\ s + 1 \in 1 .. Failed /\ s + 1 # Done
      /\ s + 1 # Listing /\ s + 1 # ToSign /\ s + 1 # Signature
  BY <1>1, <1>2, Stages
<1>4. /\ Types /\ State(store[r], Last) # "good"
      /\ fate[r] # "crossed" => Lists(store[r]) /\ Progress(store[r], s)
  BY <1>1, <1>3, Underway
<1>5. Documents[s] \in Docs  BY <1>2, Stages, NamesApart
<1>6. Good({}) \in Content /\ Good({})[1] = "good"  BY Written, AllItems
<1>7. PICK dir \in Dir : /\ store' = [store EXCEPT ![r] = dir] /\ dir[Documents[s]] = Good({})
                         /\ \A m \in Names : m # Documents[s] => dir[m] = store[r][m]
  BY <1>2, <1>4, <1>5, <1>6, NamesApart, SetFile
<1>8. dir["integrity"] = store[r]["integrity"] /\ dir[Last] = store[r][Last]
  BY <1>5, <1>7, NamesApart DEF Last
<1>9. Sealed(dir, s + 1)  BY <1>4, <1>8 DEF Sealed, State
<1>10. ASSUME fate[r] # "crossed" PROVE Lists(dir) /\ Progress(dir, s + 1)
  <2>1. Lists(dir)  BY <1>4, <1>8, <1>10 DEF Lists
  <2>2. ASSUME NEW i \in DOMAIN Documents, i < s + 1 PROVE State(dir, Documents[i]) = "good"
    <3>1. CASE Documents[i] = Documents[s]  BY <1>6, <1>7, <3>1 DEF State
    <3>2. CASE Documents[i] # Documents[s]
      <4>1. i < s  BY <1>2, <2>2, <3>2, Stages
      <4>2. s \in 1 .. Signature  BY <1>1, <1>3
      <4>3. State(store[r], Documents[i]) = "good"  BY <1>4, <1>10, <4>1, <4>2 DEF Progress
      <4>4. Documents[i] \in Names  BY NamesApart
      <4> QED  BY <1>7, <3>2, <4>3, <4>4 DEF State
    <3> QED  BY <3>1, <3>2
  <2> QED  BY <1>3, <2>1, <2>2 DEF Progress
<1> QED  BY <1>2, <1>3, <1>7, <1>9, <1>10, WriteNext

\* Before the manifest is written every document is there.
LEMMA AllListed ==
  ASSUME NEW dir \in Dir, Progress(dir, ToList)
  PROVE  Digests(dir) = All
<1>1. ToList \in 1 .. Signature /\ \A i \in DOMAIN Documents : i < ToList  BY Stages
<1>2. \A d \in Docs : State(dir, d) = "good"  BY <1>1 DEF Progress, Docs
<1>3. \A d \in Docs : dir[d] # None  BY <1>2, Contents DEF State
<1>4. Present(dir) \ {"integrity", "signature"} = Docs  BY <1>3, NamesApart DEF Present
<1> QED  BY <1>2, <1>4 DEF Digests, All

LEMMA ListDocumentsNext == ASSUME StoreInv, NEW r \in Runs, ListDocuments(r) PROVE StoreInv'
<1>1. pub[r] = ToList /\ Stage(r, Listing)  BY DEF ListDocuments
<1>2. /\ pub[r] \in 1 .. Signature /\ pub[r] \in 0 .. Signature /\ Listing \in 1 .. Failed /\ Listing # Done
      /\ Listing # ToSign /\ Listing # Signature /\ ToList \in 1 .. Signature
      /\ \A i \in DOMAIN Documents : i < ToList
  BY <1>1, Stages
<1>3. /\ Types /\ store[r] \in Dir /\ State(store[r], Last) # "good"
      /\ fate[r] # "crossed" => Progress(store[r], ToList)
  BY <1>1, <1>2, Underway
<1>4. PICK listed : listed = Digests(store[r])  OBVIOUS
<1>5. listed \in SUBSET Item
  <2>1. \A d \in Docs : State(store[r], d) \in Kind  BY <1>3, NamesApart, Contents DEF State, Dir
  <2>2. Present(store[r]) \ {"integrity", "signature"} \subseteq Docs  BY NamesApart DEF Present
  <2> QED  BY <1>4, <2>1, <2>2 DEF Digests, Item
<1>6. Set(r, "integrity", Torn(listed))  BY <1>4 DEF ListDocuments, Put, Set
<1>7. Torn(listed) \in Content /\ Torn(listed)[1] = "torn" /\ Torn(listed)[2] = listed  BY <1>5, Written
<1>8. PICK dir \in Dir : /\ store' = [store EXCEPT ![r] = dir] /\ dir["integrity"] = Torn(listed)
                         /\ \A m \in Names : m # "integrity" => dir[m] = store[r][m]
  BY <1>3, <1>6, <1>7, NamesApart, SetFile
<1>9. Sealed(dir, Listing)
  <2>1. State(dir, Last) # "good"  BY <1>3, <1>7, <1>8, NamesApart DEF State, Last
  <2> QED  BY <2>1 DEF Sealed
<1>10. ASSUME fate[r] # "crossed" PROVE Lists(dir) /\ Progress(dir, Listing)
  <2>1. listed = All  BY <1>3, <1>4, <1>10, AllListed
  <2>2. Lists(dir)  BY <1>7, <1>8, <2>1 DEF Lists
  <2>3. ASSUME NEW i \in DOMAIN Documents PROVE State(dir, Documents[i]) = "good"
    <3>1. State(store[r], Documents[i]) = "good"  BY <1>2, <1>3, <1>10 DEF Progress
    <3>2. Documents[i] \in Names /\ Documents[i] # "integrity"  BY NamesApart
    <3> QED  BY <1>8, <3>1, <3>2 DEF State
  <2> QED  BY <1>2, <1>8, <2>1, <2>2, <2>3 DEF Progress
<1> QED  BY <1>1, <1>2, <1>8, <1>9, <1>10, WriteNext

\* Closing a file completes it, unless it has gone.
LEMMA CloseFile ==
  ASSUME Types, NEW r \in Runs, NEW n \in Names, Close(r, n)
  PROVE  \E dir \in Dir :
           /\ store' = [store EXCEPT ![r] = dir] /\ \A m \in Names : m # n => dir[m] = store[r][m]
           /\ IF State(store[r], n) = "torn" THEN dir[n] = Good(store[r][n][2]) ELSE dir[n] = store[r][n]
<1>1. store[r] \in Dir /\ store[r][n] \in Content  BY DEF Types, Dir
<1>2. CASE State(store[r], n) = "torn"
  <2>1. PICK content : content = Good(store[r][n][2])  OBVIOUS
  <2>2. content \in Content  BY <1>1, <2>1, Contents, Written
  <2>3. Set(r, n, content)  BY <1>2, <2>1 DEF Close, Put, Set
  <2> QED  BY <1>2, <2>1, <2>2, <2>3, SetFile
<1>3. CASE State(store[r], n) # "torn"
  <2>1. UNCHANGED store  BY <1>3 DEF Close
  <2>2. store' = [store EXCEPT ![r] = store[r]]  BY <2>1, SameFiles
  <2> QED  BY <1>1, <1>3, <2>2
<1> QED  BY <1>2, <1>3

\* The documents of a run whose manifest is being written or is there.
LEMMA DocumentsGood ==
  ASSUME NEW dir, NEW stage \in ToList .. Signature, Progress(dir, stage)
  PROVE  \A d \in Docs : State(dir, d) = "good"
<1>1. stage \in 1 .. Signature /\ \A i \in DOMAIN Documents : i < stage  BY Stages
<1> QED  BY <1>1 DEF Progress, Docs

LEMMA CloseManifestNext == ASSUME StoreInv, NEW r \in Runs, CloseManifest(r) PROVE StoreInv'
<1>1. PICK s : s = IF Signing THEN ToSign ELSE Done  OBVIOUS
<1>2. pub[r] = Listing /\ Stage(r, s) /\ Close(r, "integrity")  BY <1>1 DEF CloseManifest
<1>3. /\ pub[r] \in 1 .. Signature /\ pub[r] \in 0 .. Signature /\ s \in 1 .. Failed
      /\ s # Listing /\ s # Signature /\ (Signing => s = ToSign /\ s # Done) /\ (~ Signing => s = Done /\ s # ToSign)
      /\ Listing \in ToList .. Signature /\ Done \notin 1 .. Signature
  BY <1>1, <1>2, Stages
<1>4. /\ Types /\ State(store[r], Last) # "good"
      /\ fate[r] # "crossed" => Progress(store[r], Listing)
  BY <1>2, <1>3, Underway
<1>5. PICK dir \in Dir :
        /\ store' = [store EXCEPT ![r] = dir] /\ \A m \in Names : m # "integrity" => dir[m] = store[r][m]
        /\ IF State(store[r], "integrity") = "torn" THEN dir["integrity"] = Good(store[r]["integrity"][2])
           ELSE dir["integrity"] = store[r]["integrity"]
  BY <1>2, <1>4, NamesApart, CloseFile
<1>6. Sealed(dir, s)
  <2>1. CASE Signing  BY <1>4, <1>5, <2>1, NamesApart DEF Sealed, State, Last
  <2>2. CASE ~ Signing  BY <1>3, <2>2 DEF Sealed
  <2> QED  BY <2>1, <2>2
<1>7. ASSUME fate[r] # "crossed"
      PROVE  Lists(dir) /\ Progress(dir, s) /\ (fate[r] = "kept" /\ s = Done => Whole(dir))
  <2>1. store[r]["integrity"] = Torn(All)  BY <1>4, <1>7 DEF Progress
  <2>2. dir["integrity"] = Good(All)  BY <1>5, <2>1, Written, AllItems DEF State
  <2>3. Lists(dir)  BY <2>2, Written, AllItems DEF Lists
  <2>4. \A d \in Docs : State(dir, d) = "good"
    <3>1. \A d \in Docs : State(store[r], d) = "good"  BY <1>3, <1>4, <1>7, DocumentsGood
    <3> QED  BY <1>5, <3>1, NamesApart DEF State
  <2>5. Progress(dir, s)  BY <1>3, <2>2, <2>4, NamesApart DEF Progress
  <2>6. ~ Signing => Whole(dir)  BY <2>2, <2>4 DEF Whole, All
  <2> QED  BY <1>3, <2>3, <2>5, <2>6
<1> QED  BY <1>2, <1>3, <1>5, <1>6, <1>7, WriteNext

LEMMA OpenSignatureNext == ASSUME StoreInv, NEW r \in Runs, OpenSignature(r) PROVE StoreInv'
<1>1. pub[r] = ToSign /\ Stage(r, Signature) /\ Set(r, "signature", Torn({}))
  BY DEF OpenSignature, Put, Set
<1>2. /\ pub[r] \in 1 .. Signature /\ pub[r] \in 0 .. Signature /\ Signature \in 1 .. Failed
      /\ Signature # Listing /\ Signature # ToSign /\ Signature # Done /\ ToSign \in ToList .. Signature
  BY <1>1, Stages
<1>3. /\ Types /\ State(store[r], Last) # "good"
      /\ fate[r] # "crossed" => Lists(store[r]) /\ Progress(store[r], ToSign)
  BY <1>1, <1>2, Underway
<1>4. Torn({}) \in Content /\ Torn({})[1] = "torn"  BY Written, AllItems
<1>5. PICK dir \in Dir : /\ store' = [store EXCEPT ![r] = dir] /\ dir["signature"] = Torn({})
                         /\ \A m \in Names : m # "signature" => dir[m] = store[r][m]
  BY <1>1, <1>3, <1>4, NamesApart, SetFile
<1>6. dir["integrity"] = store[r]["integrity"]  BY <1>5, NamesApart
<1>7. Sealed(dir, Signature)
  <2>1. State(dir, Last) # "good"  BY <1>3, <1>4, <1>5, NamesApart DEF State, Last
  <2> QED  BY <2>1 DEF Sealed
<1>8. ASSUME fate[r] # "crossed" PROVE Lists(dir) /\ Progress(dir, Signature)
  <2>1. Lists(dir)  BY <1>3, <1>6, <1>8 DEF Lists
  <2>2. store[r]["integrity"] = Good(All)  BY <1>3, <1>8 DEF Progress
  <2>3. \A d \in Docs : State(dir, d) = "good"
    <3>1. \A d \in Docs : State(store[r], d) = "good"  BY <1>2, <1>3, <1>8, DocumentsGood
    <3> QED  BY <1>5, <3>1, NamesApart DEF State
  <2>4. State(dir, "signature") = "torn"  BY <1>4, <1>5 DEF State
  <2> QED  BY <1>2, <1>6, <2>1, <2>2, <2>3, <2>4, NamesApart DEF Progress
<1> QED  BY <1>1, <1>2, <1>5, <1>7, <1>8, WriteNext

LEMMA CloseSignatureNext == ASSUME StoreInv, NEW r \in Runs, CloseSignature(r) PROVE StoreInv'
<1>1. pub[r] = Signature /\ Stage(r, Done) /\ Close(r, "signature")  BY DEF CloseSignature
<1>2. /\ pub[r] \in 1 .. Signature /\ pub[r] \in 0 .. Signature /\ Done \in 1 .. Failed
      /\ Done # Listing /\ Done # ToSign /\ Done # Signature /\ Done \notin 1 .. Signature
      /\ Signature \in ToList .. Signature
  BY <1>1, Stages
<1>3. Types /\ (fate[r] # "crossed" => Lists(store[r]) /\ Progress(store[r], Signature))
  BY <1>1, <1>2, Underway
<1>4. PICK dir \in Dir :
        /\ store' = [store EXCEPT ![r] = dir] /\ \A m \in Names : m # "signature" => dir[m] = store[r][m]
        /\ IF State(store[r], "signature") = "torn" THEN dir["signature"] = Good(store[r]["signature"][2])
           ELSE dir["signature"] = store[r]["signature"]
  BY <1>1, <1>3, NamesApart, CloseFile
<1>5. Sealed(dir, Done)  BY DEF Sealed
<1>6. ASSUME fate[r] # "crossed" PROVE Lists(dir) /\ Progress(dir, Done) /\ Whole(dir)
  <2>1. dir["integrity"] = store[r]["integrity"]  BY <1>4, NamesApart
  <2>2. Lists(dir)  BY <1>3, <1>6, <2>1 DEF Lists
  <2>3. store[r]["integrity"] = Good(All) /\ State(store[r], "signature") = "torn"
    BY <1>3, <1>6 DEF Progress
  <2>4. \A d \in Docs : State(dir, d) = "good"
    <3>1. \A d \in Docs : State(store[r], d) = "good"  BY <1>2, <1>3, <1>6, DocumentsGood
    <3> QED  BY <1>4, <3>1, NamesApart DEF State
  <2>5. State(dir, "signature") = "good"  BY <1>4, <2>3 DEF State, Good
  <2>6. Progress(dir, Done)  BY <1>2 DEF Progress
  <2>7. Whole(dir)  BY <2>1, <2>3, <2>4, <2>5 DEF Whole, All
  <2> QED  BY <2>2, <2>6, <2>7
<1> QED  BY <1>1, <1>2, <1>4, <1>5, <1>6, WriteNext

LEMMA AbandonNext == ASSUME StoreInv, NEW r \in Runs, AbandonPublication(r) PROVE StoreInv'
<1>1. pub[r] \in 1 .. Signature /\ Stage(r, Failed) /\ UNCHANGED store  BY DEF AbandonPublication
<1>2. /\ pub[r] \in 0 .. Signature /\ Failed \in 1 .. Failed /\ Failed \notin 1 .. Signature
      /\ Failed # Listing /\ Failed # ToSign /\ Failed # Signature /\ Failed # Done
  BY <1>1, Stages
<1>3. /\ Types /\ State(store[r], Last) # "good" /\ (fate[r] # "crossed" => Lists(store[r]))
  BY <1>1, Underway
<1>4. store[r] \in Dir /\ store' = [store EXCEPT ![r] = store[r]]  BY <1>1, <1>3, SameFiles
<1>5. Sealed(store[r], Failed) /\ Progress(store[r], Failed)  BY <1>2, <1>3 DEF Sealed, Progress
<1> QED  BY <1>1, <1>2, <1>3, <1>4, <1>5, WriteNext

LEMMA PublishNext == ASSUME StoreInv, NEW r \in Runs, Publish(r) PROVE StoreInv'
BY MakeDirectoryNext, WriteDocumentNext, ListDocumentsNext, CloseManifestNext, OpenSignatureNext,
   CloseSignatureNext, AbandonNext DEF Publish

-----------------------------------------------------------------------------
(* Files that are altered, and files that are taken away.                  *)

LEMMA DamageNext == ASSUME StoreInv, Damage PROVE StoreInv'
<1>1. Types /\ Directories /\ Maintained  BY DEF StoreInv
<1>2. PICK r \in Runs, d \in Docs : pub[r] = Done /\ State(store[r], d) = "good" /\ Set(r, d, Altered)
  BY DEF Damage, Put, Set
<1>3. UNCHANGED <<pub, old, maint, backup, fate>>  BY DEF Damage
<1>4. PICK dir \in Dir : /\ store' = [store EXCEPT ![r] = dir] /\ dir[d] = Altered
                         /\ \A m \in Names : m # d => dir[m] = store[r][m]
  BY <1>1, <1>2, NamesApart, Contents, SetFile
<1>5. /\ store' \in [Runs -> Dir] /\ store'[r] = dir /\ \A q \in Runs : q # r => store'[q] = store[q]
  BY <1>1, <1>4 DEF Types
<1>6. Types'  BY <1>1, <1>3, <1>5 DEF Types
<1>7. Whole(store[r]) => Whole(dir)
  BY <1>4, NamesApart, Contents DEF Whole, State
<1>8. Directories'
  <2>1. RunSound(store[r], backup[r], Done, fate[r])  BY <1>1, <1>2 DEF Directories
  <2>2. Lists(store[r]) => Lists(dir)  BY <1>4, NamesApart DEF Lists
  <2>3. Done # 0 /\ Done \notin 1 .. Signature /\ Done # Listing /\ Done # ToSign /\ Done # Signature
    BY Stages
  <2>4. RunSound(dir, backup[r], Done, fate[r])
    BY <1>7, <2>1, <2>2, <2>3 DEF RunSound, Sealed, Progress
  <2>5. ASSUME NEW q \in Runs
        PROVE  RunSound(store'[q], backup[q], pub[q], fate[q]) /\ (q \in old => pub[q] = Done)
    <3>1. CASE q = r  BY <1>2, <1>5, <2>4, <3>1
    <3>2. CASE q # r  BY <1>1, <1>5, <3>2 DEF Directories
    <3> QED  BY <3>1, <3>2
  <2> QED  BY <1>3, <2>5 DEF Directories
<1>9. \A q \in Runs : (Opened(q)' <=> Opened(q)) /\ (Turn(q)' <=> Turn(q))  BY <1>3 DEF Opened, Turn
<1>10. Maintained'
  <2>1. ASSUME NEW q \in Runs PROVE Retiring(q)'
    BY <1>1, <1>3, <1>9 DEF Maintained, Retiring
  <2>2. ASSUME NEW q \in Runs PROVE Owing(q)'
    <3>1. Owing(q) /\ (Whole(store[q]) => Whole(store'[q]))  BY <1>1, <1>5, <1>7 DEF Maintained
    <3> QED  BY <1>3, <1>9, <3>1 DEF Owing
  <2>3. ASSUME NEW q \in Runs PROVE Refilling(q)'
    <3>1. Refilling(q)  BY <1>1 DEF Maintained
    <3>2. CASE q # r
      <4>1. store'[q] = store[q]  BY <1>5, <3>2
      <4> QED  BY <1>3, <1>9, <3>1, <4>1 DEF Refilling
    <3>3. CASE q = r
      <4>1. ~ Blank(store[r])  BY <1>2, NamesApart, Contents DEF Blank, State
      <4>2. ASSUME NEW n \in Names, Copied(store[r], backup[r], n) PROVE Copied(dir, backup[r], n)
        <5>1. CASE n = d
          <6>1. dir[d][1] = "altered" /\ d \in Docs  BY <1>4, Contents
          <6>2. State(backup[r], d) = "good"  BY <1>2, <4>2, <5>1 DEF Copied, State
          <6> QED  BY <5>1, <6>1, <6>2 DEF Copied, State
        <5>2. CASE n # d
          <6>1. dir[n] = store[r][n]  BY <1>4, <5>2
          <6> QED  BY <4>2, <6>1 DEF Copied, State
        <5> QED  BY <5>1, <5>2
      <4> QED  BY <1>3, <1>5, <1>9, <3>1, <3>3, <4>1, <4>2 DEF Refilling
    <3> QED  BY <3>2, <3>3
  <2> QED  BY <1>1, <1>3, <2>1, <2>2, <2>3 DEF Maintained
<1> QED  BY <1>6, <1>8, <1>10 DEF StoreInv

\* A run from which maintenance takes a file.
LEMMA RemoveSound ==
  ASSUME NEW dir, NEW less, NEW n \in Names, NEW copy, NEW stage,
         NEW what \in {"kept", "removed", "crossed"},
         RunSound(dir, copy, stage, what), what = "kept" => stage = 0,
         less[n] = None, \A m \in Names : m # n => less[m] = dir[m]
  PROVE  RunSound(less, copy, stage, what)
<1>1. Blank(dir) => Blank(less)  BY DEF Blank
<1>2. Sealed(dir, stage) => Sealed(less, stage)
  <2>1. Last \in Names  BY NamesApart DEF Last
  <2>2. State(less, Last) = "good" => State(dir, Last) = "good"  BY <2>1, Contents DEF State
  <2> QED  BY <2>2 DEF Sealed
<1>3. Lists(dir) => Lists(less)  BY NamesApart DEF Lists
<1>4. what # "crossed" => Progress(less, stage)
  <2>1. ASSUME what # "crossed", what # "removed" PROVE Progress(less, stage)
    <3>1. stage = 0  BY <2>1
    <3>2. 0 \notin 1 .. Signature /\ 0 # Listing /\ 0 # ToSign /\ 0 # Signature  BY Stages
    <3> QED  BY <3>1, <3>2 DEF Progress
  <2>2. ASSUME what = "removed" PROVE Progress(less, stage)
    <3>1. stage \in {Done, Failed}  BY <2>2 DEF RunSound
    <3>2. stage \notin 1 .. Signature /\ stage # Listing /\ stage # ToSign /\ stage # Signature
      BY <3>1, Stages
    <3> QED  BY <3>2 DEF Progress
  <2> QED  BY <2>1, <2>2
<1>5. 0 # Done  BY Stages
<1> QED  BY <1>1, <1>2, <1>3, <1>4, <1>5 DEF RunSound

-----------------------------------------------------------------------------
(* Beginning and ending an operation of maintenance.                       *)

\* Steps that leave the directories as they are.
LEMMA DirectoriesStay ==
  ASSUME Directories, UNCHANGED <<store, backup, pub, fate, old>>
  PROVE  Directories'
BY DEF Directories

\* An operation ends; it reports a backup only when it has all that it owes.
LEMMA FinishNext ==
  ASSUME Types, NEW result \in {"done", "failed", "created", "cut short"}, Finish(result),
         result = "created" => \A r \in maint.owed : Whole(backup'[r])
  PROVE  maint' \in Upkeep /\ Maintained'
<1>1. PICK m \in Upkeep : m = maint  BY DEF Types
<1>2. PICK m2 : m2 = [m EXCEPT !.op = "none", !.runs = {}, !.files = {}, !.stage = 0, !.result = result]
  OBVIOUS
<1>3. m2 \in Upkeep /\ m2.op = "none" /\ m2.files = {} /\ m2.result = result /\ m2.owed = m.owed
  BY <1>2 DEF Upkeep
<1>4. maint' = m2  BY <1>1, <1>2 DEF Finish
<1>5. \A r \in Runs : ~ Opened(r)'  BY <1>3, <1>4 DEF Opened
<1>6. \A r \in Runs : Retiring(r)'  BY <1>5 DEF Retiring
<1>7. ASSUME NEW r \in Runs PROVE Owing(r)'
  <2>1. r \in m.owed /\ result = "created" => Whole(backup'[r])  BY <1>1
  <2> QED  BY <1>3, <1>4, <2>1 DEF Owing
<1>8. \A r \in Runs : Refilling(r)'  BY <1>3, <1>4 DEF Refilling
<1> QED  BY <1>3, <1>4, <1>6, <1>7, <1>8 DEF Maintained

\* An operation begins with the first run, outside of it.
LEMMA StartNext ==
  ASSUME Types, NEW op \in {"retention", "backup", "clear"}, NEW owed \in SUBSET Runs, Start(op, owed)
  PROVE  /\ maint' \in Upkeep /\ maint'.op = op /\ maint'.owed = owed /\ maint'.runs = Runs
         /\ maint'.files = {} /\ maint'.result = "none" /\ \A r \in Runs : ~ Opened(r)'
<1>1. PICK m \in Upkeep : m = maint  BY DEF Types
<1>2. m.n + 1 \in Nat
  <2>1. m.n \in Nat  BY DEF Upkeep
  <2> QED  BY <2>1
<1>3. PICK m2 : m2 = [op |-> op, runs |-> Runs, files |-> {}, stage |-> 0, owed |-> owed, result |-> "none", n |-> m.n + 1]
  OBVIOUS
<1>4. m2 \in Upkeep /\ m2.op = op /\ m2.owed = owed /\ m2.runs = Runs /\ m2.files = {} /\ m2.result = "none"
  BY <1>2, <1>3 DEF Upkeep
<1>5. maint' = m2  BY <1>1, <1>3 DEF Start
<1> QED  BY <1>4, <1>5 DEF Opened

LEMMA StartRetentionNext == ASSUME StoreInv, StartRetention PROVE StoreInv'
<1>1. Types /\ Directories  BY DEF StoreInv
<1>2. Start("retention", {}) /\ UNCHANGED <<store, pub, backup, fate>>  BY DEF StartRetention
<1>3. PICK aged \in SUBSET Runs : (\A r \in aged : pub[r] = Done) /\ old' = old \cup aged
  BY DEF StartRetention
<1>4. /\ maint' \in Upkeep /\ maint'.op = "retention" /\ maint'.owed = {}
      /\ maint'.files = {} /\ maint'.result = "none" /\ \A r \in Runs : ~ Opened(r)'
  BY <1>1, <1>2, StartNext
<1>5. Types'  BY <1>1, <1>2, <1>3, <1>4 DEF Types
<1>6. Directories'  BY <1>1, <1>2, <1>3 DEF Directories
<1>7. Maintained'  BY <1>4 DEF Maintained, Retiring, Owing, Refilling
<1> QED  BY <1>5, <1>6, <1>7 DEF StoreInv

LEMMA StartBackupNext == ASSUME StoreInv, StartBackup PROVE StoreInv'
<1>1. Types /\ Directories  BY DEF StoreInv
<1>2. PICK owed \in SUBSET Runs : owed = {r \in Runs : Whole(store[r])}  OBVIOUS
<1>3. Start("backup", owed) /\ UNCHANGED <<store, pub, old, fate>>  BY <1>2 DEF StartBackup, Still
<1>4. \A r \in Runs : backup'[r] = Empty  BY DEF StartBackup
<1>5. /\ maint' \in Upkeep /\ maint'.op = "backup" /\ maint'.owed = owed /\ maint'.runs = Runs
      /\ maint'.files = {} /\ maint'.result = "none" /\ \A r \in Runs : ~ Opened(r)'
  BY <1>1, <1>3, StartNext
<1>6. backup' \in [Runs -> Dir]  BY EmptyDir DEF StartBackup
<1>7. Types'  BY <1>1, <1>3, <1>5, <1>6 DEF Types
<1>8. \A r \in Runs : RunSound(store[r], Empty, pub[r], fate[r])  BY <1>1, EmptyDir DEF Directories, RunSound
<1>9. Directories'  BY <1>1, <1>3, <1>4, <1>8 DEF Directories
<1>10. \A r \in Runs : Retiring(r)'  BY <1>5 DEF Retiring
<1>11. \A r \in Runs : Owing(r)'  BY <1>2, <1>3, <1>5 DEF Owing
<1>12. \A r \in Runs : Refilling(r)'  BY <1>5 DEF Refilling
<1>13. Maintained'  BY <1>5, <1>10, <1>11, <1>12 DEF Maintained
<1> QED  BY <1>7, <1>9, <1>13 DEF StoreInv

LEMMA StartRestoreNext == ASSUME StoreInv, StartRestore PROVE StoreInv'
<1>1. Types /\ Directories  BY DEF StoreInv
<1>2. Start("clear", {}) /\ UNCHANGED <<store, backup, pub, old>>  BY DEF StartRestore, Still
<1>3. \A r \in Runs : fate'[r] = IF pub[r] \in 1 .. Signature THEN "crossed"
                                ELSE IF fate[r] = "kept" /\ pub[r] # 0 THEN "removed" ELSE fate[r]
  BY DEF StartRestore
<1>4. /\ maint' \in Upkeep /\ maint'.op = "clear" /\ maint'.owed = {}
      /\ maint'.files = {} /\ maint'.result = "none" /\ \A r \in Runs : ~ Opened(r)'
  BY <1>1, <1>2, StartNext
<1>5. fate' \in [Runs -> {"kept", "removed", "crossed"}]  BY <1>1 DEF Types, StartRestore
<1>6. Types'  BY <1>1, <1>2, <1>4, <1>5 DEF Types
<1>7. ASSUME NEW r \in Runs
      PROVE  RunSound(store[r], backup[r], pub[r], fate'[r]) /\ (fate'[r] = "kept" => pub[r] = 0)
  <2>1. RunSound(store[r], backup[r], pub[r], fate[r]) /\ pub[r] \in 0 .. Failed
    BY <1>1 DEF Directories, Types
  <2>2. CASE pub[r] \in 1 .. Signature
    <3>1. fate'[r] = "crossed" /\ pub[r] # 0  BY <1>3, <2>2
    <3> QED  BY <2>1, <3>1 DEF RunSound
  <2>3. CASE pub[r] \notin 1 .. Signature /\ fate[r] = "kept" /\ pub[r] # 0
    <3>1. fate'[r] = "removed" /\ pub[r] \in {Done, Failed}  BY <1>3, <2>1, <2>3, Stages
    <3> QED  BY <2>1, <2>3, <3>1 DEF RunSound
  <2>4. CASE pub[r] \notin 1 .. Signature /\ (fate[r] # "kept" \/ pub[r] = 0)
    <3>1. fate'[r] = fate[r]  BY <1>3, <2>4
    <3> QED  BY <2>1, <2>4, <3>1
  <2> QED  BY <2>2, <2>3, <2>4
<1>8. Directories'  BY <1>1, <1>2, <1>7 DEF Directories
<1>9. Maintained'  BY <1>2, <1>4, <1>7 DEF Maintained, Retiring, Owing, Refilling
<1> QED  BY <1>6, <1>8, <1>9 DEF StoreInv

LEMMA DieNext == ASSUME StoreInv, Die PROVE StoreInv'
<1>1. Types /\ Directories  BY DEF StoreInv
<1>2. Finish("failed") /\ UNCHANGED <<store, backup, pub, fate, old>>  BY DEF Die, Still
<1>3. maint' \in Upkeep /\ Maintained'  BY <1>1, <1>2, FinishNext
<1>4. Types'  BY <1>1, <1>2, <1>3 DEF Types
<1> QED  BY <1>1, <1>2, <1>3, <1>4, DirectoriesStay DEF StoreInv

-----------------------------------------------------------------------------
(* Retention.                                                              *)

\* Inside a run there is a file to take.
LEMMA InsideFacts ==
  ASSUME Types, NEW op, NEW r \in Runs, NEW n, Inside(op, r, n)
  PROVE  maint.op = op /\ Turn(r) /\ Opened(r) /\ n \in maint.files
BY DEF Inside, Opened, FileTurn, First

LEMMA InspectNext == ASSUME StoreInv, NEW r \in Runs, Inspect(r) PROVE StoreInv'
<1>1. Types /\ Directories /\ Maintained  BY DEF StoreInv
<1>2. maint.op = "retention" /\ Turn(r) /\ UNCHANGED <<pub, old, store, backup>>
  BY DEF Inspect, Opening, Still
<1>3. PICK summary : summary = State(store[r], "summary")  OBVIOUS
<1>4. PICK files : files = IF summary # "none" /\ Expired(r) THEN Present(store[r]) ELSE {}  OBVIOUS
<1>5. IF summary = "torn" THEN Finish("failed") ELSE Handle(r, files)  BY <1>3, <1>4 DEF Inspect
<1>6. fate' = IF r \in old /\ summary \notin {"none", "torn"} /\ fate[r] = "kept"
              THEN [fate EXCEPT ![r] = "removed"] ELSE fate
  BY <1>3 DEF Inspect
<1>7. /\ fate' \in [Runs -> {"kept", "removed", "crossed"}]
      /\ \A q \in Runs : q # r => fate'[q] = fate[q]
      /\ fate'[r] = IF r \in old /\ summary \notin {"none", "torn"} /\ fate[r] = "kept" THEN "removed" ELSE fate[r]
  BY <1>1, <1>6 DEF Types
<1>8. Directories'
  <2>1. ASSUME NEW q \in Runs
        PROVE  RunSound(store[q], backup[q], pub[q], fate'[q]) /\ (q \in old => pub[q] = Done)
    <3>1. RunSound(store[q], backup[q], pub[q], fate[q]) /\ (q \in old => pub[q] = Done)
      BY <1>1 DEF Directories
    <3>2. CASE fate'[q] = fate[q]  BY <3>1, <3>2
    <3>3. CASE fate'[q] # fate[q]
      <4>1. fate[q] = "kept" /\ fate'[q] = "removed" /\ pub[q] = Done  BY <1>7, <3>1, <3>3
      <4>2. Done # 0  BY Stages
      <4> QED  BY <3>1, <4>1, <4>2 DEF RunSound
    <3> QED  BY <3>2, <3>3
  <2> QED  BY <1>2, <2>1 DEF Directories
<1>9. CASE summary = "torn"
  <2>1. maint' \in Upkeep /\ Maintained'  BY <1>1, <1>5, <1>9, FinishNext
  <2>2. Types'  BY <1>1, <1>2, <1>7, <2>1 DEF Types
  <2> QED  BY <1>8, <2>1, <2>2 DEF StoreInv
<1>10. CASE summary # "torn"
  <2>1. GoesOn(r, files)
    <3>1. files \in SUBSET (Names \cup {"temporary"})  BY <1>4 DEF Present
    <3>2. Handle(r, files)  BY <1>5, <1>10
    <3> QED  BY <1>1, <1>2, <3>1, <3>2, HandleNext
  <2>2. maint' \in Upkeep /\ maint'.op = "retention" /\ maint'.result = "none"
    BY <1>1, <1>2, <2>1 DEF GoesOn, Maintained
  <2>3. Types'  BY <1>1, <1>2, <1>7, <2>2 DEF Types
  <2>4. ASSUME NEW q \in Runs, Opened(q)' PROVE q \in old /\ fate'[q] # "kept"
    <3>1. q = r /\ files # {}  BY <2>1, <2>4 DEF GoesOn
    <3>2. summary # "none" /\ r \in old  BY <1>4, <3>1 DEF Expired
    <3> QED  BY <1>7, <1>10, <3>1, <3>2
  <2>5. \A q \in Runs : Retiring(q)'  BY <1>2, <2>4 DEF Retiring
  <2>6. \A q \in Runs : Owing(q)' /\ Refilling(q)'  BY <2>2 DEF Owing, Refilling
  <2>7. Maintained'  BY <2>1, <2>2, <2>5, <2>6 DEF Maintained, GoesOn
  <2> QED  BY <1>8, <2>3, <2>7 DEF StoreInv
<1> QED  BY <1>9, <1>10

\* A file of a run is taken away, which is no longer kept or never was published.
LEMMA RemoveNext ==
  ASSUME Types, Directories, NEW r \in Runs, NEW n \in Names, Turn(r), Remove(r, n), n \in maint.files,
         UNCHANGED <<pub, old, backup, fate>>, fate[r] = "kept" => pub[r] = 0
  PROVE  Types' /\ Directories' /\ GoesOn(r, maint.files \ {n})
<1>1. GoesOn(r, maint.files \ {n})
  <2>1. PICK files : files = maint.files \ {n}  OBVIOUS
  <2>2. files \in SUBSET (Names \cup {"temporary"})  BY <2>1 DEF Types, Upkeep
  <2>3. Handle(r, files)  BY <2>1 DEF Remove, NextFile
  <2> QED  BY <2>1, <2>2, <2>3, HandleNext
<1>2. Set(r, n, None)  BY DEF Remove, Set
<1>3. PICK dir \in Dir : /\ store' = [store EXCEPT ![r] = dir] /\ dir[n] = None
                         /\ \A m \in Names : m # n => dir[m] = store[r][m]
  BY <1>2, Contents, SetFile
<1>4. /\ store' \in [Runs -> Dir] /\ store'[r] = dir /\ \A q \in Runs : q # r => store'[q] = store[q]
  BY <1>3 DEF Types
<1>5. Types'  BY <1>1, <1>4 DEF Types, GoesOn
<1>6. RunSound(dir, backup[r], pub[r], fate[r])
  <2>1. RunSound(store[r], backup[r], pub[r], fate[r]) /\ fate[r] \in {"kept", "removed", "crossed"}
    BY DEF Directories, Types
  <2> QED  BY <1>3, <2>1, RemoveSound
<1>7. ASSUME NEW q \in Runs
      PROVE  RunSound(store'[q], backup[q], pub[q], fate[q]) /\ (q \in old => pub[q] = Done)
  <2>1. RunSound(store[q], backup[q], pub[q], fate[q]) /\ (q \in old => pub[q] = Done)  BY DEF Directories
  <2>2. CASE q = r  BY <1>4, <1>6, <2>1, <2>2
  <2>3. CASE q # r  BY <1>4, <2>1, <2>3
  <2> QED  BY <2>2, <2>3
<1>8. Directories'  BY <1>7 DEF Directories
<1> QED  BY <1>1, <1>5, <1>8

LEMMA RetireNext == ASSUME StoreInv, Retire PROVE StoreInv'
<1>1. Types /\ Directories /\ Maintained  BY DEF StoreInv
<1>2. UNCHANGED <<pub, old, backup, fate>>  BY DEF Retire, Still
<1>3. ASSUME NEW r \in Runs, NEW n \in Names, Inside("retention", r, n), Remove(r, n) PROVE StoreInv'
  <2>1. maint.op = "retention" /\ Turn(r) /\ Opened(r) /\ n \in maint.files  BY <1>1, <1>3, InsideFacts
  <2>2. r \in old /\ fate[r] # "kept"  BY <1>1, <2>1 DEF Maintained, Retiring
  <2>3. Types' /\ Directories' /\ GoesOn(r, maint.files \ {n})
    BY <1>1, <1>2, <1>3, <2>1, <2>2, RemoveNext
  <2>4. maint'.op = "retention" /\ maint'.result = "none"  BY <1>1, <2>1, <2>3 DEF GoesOn, Maintained
  <2>5. \A q \in Runs : Opened(q)' => q = r  BY <2>3 DEF GoesOn
  <2>6. \A q \in Runs : Retiring(q)'  BY <1>2, <2>2, <2>5 DEF Retiring
  <2>7. \A q \in Runs : Owing(q)' /\ Refilling(q)'  BY <2>4 DEF Owing, Refilling
  <2>8. Maintained'  BY <2>3, <2>4, <2>6, <2>7 DEF Maintained, GoesOn
  <2> QED  BY <2>3, <2>8 DEF StoreInv
<1>4. ASSUME Finish("done"), UNCHANGED store PROVE StoreInv'
  <2>1. maint' \in Upkeep /\ Maintained'  BY <1>1, <1>4, FinishNext
  <2>2. Types'  BY <1>1, <1>2, <1>4, <2>1 DEF Types
  <2> QED  BY <1>1, <1>2, <1>4, <2>1, <2>2, DirectoriesStay DEF StoreInv
<1> QED  BY <1>3, <1>4 DEF Retire

-----------------------------------------------------------------------------
(* Backup.                                                                 *)

\* A backup goes on with a run: it has what it owes of the files that it has gone through.
LEMMA BackupGoesOn ==
  ASSUME Types, Maintained, NEW r \in Runs, NEW files, maint.op = "backup", Turn(r), GoesOn(r, files), UNCHANGED store,
         \A q \in Runs : q # r => backup'[q] = backup[q],
         r \in maint.owed => \A n \in Names \ files : Proper(backup'[r], n)
  PROVE  Maintained'
<1>1. /\ maint'.op = "backup" /\ maint'.owed = maint.owed /\ maint'.result = maint.result
      /\ maint'.files = files /\ maint.result = "none"
  BY DEF GoesOn, Maintained
<1>2. \A q \in Runs : Retiring(q)' /\ Refilling(q)'  BY <1>1 DEF Retiring, Refilling
<1>3. ASSUME NEW q \in Runs PROVE Owing(q)'
  <2>1. Owing(q)  BY DEF Maintained
  <2>2. CASE q # r
    <3>1. (q \in maint'.runs <=> q \in maint.runs) /\ ~ Opened(q)'  BY <2>2 DEF GoesOn
    <3>2. backup'[q] = backup[q]  BY <2>2
    <3> QED  BY <1>1, <2>1, <3>1, <3>2 DEF Owing
  <2>3. CASE q = r
    <3>1. q \in maint.owed => \A n \in Names \ files : Proper(backup'[q], n)  BY <2>3
    <3>2. q \notin maint'.runs => files = {}  BY <2>3 DEF GoesOn
    <3>3. q \in maint.owed /\ q \notin maint'.runs => Whole(backup'[q])  BY <3>1, <3>2, WholeProper
    <3>4. q \in maint.owed => Whole(store[q])  BY <2>1 DEF Owing
    <3> QED  BY <1>1, <3>1, <3>3, <3>4 DEF Owing
  <2> QED  BY <2>2, <2>3
<1> QED  BY <1>1, <1>2, <1>3 DEF Maintained, GoesOn

LEMMA OpenForBackupNext == ASSUME StoreInv, NEW r \in Runs, OpenForBackup(r) PROVE StoreInv'
<1>1. Types /\ Directories /\ Maintained  BY DEF StoreInv
<1>2. /\ maint.op = "backup" /\ maint.files = {} /\ Turn(r)
      /\ UNCHANGED <<pub, old, store, backup, fate>>
  BY DEF OpenForBackup, Opening, Still
\* What is not there is not needed.
<1>3. ASSUME r \in maint.owed, NEW n \in Names, n \notin Present(store[r]) PROVE Proper(backup[r], n)
  <2>1. Whole(store[r])  BY <1>1, <1>2, <1>3 DEF Maintained, Owing
  <2>2. Proper(store[r], n)  BY <2>1, WholeProper
  <2>3. State(store[r], n) = "none"  BY <1>3, Contents DEF Present, State
  <2>4. n # "integrity"
    <3>1. Good(All)[1] = "good"  BY AllItems, Written
    <3> QED  BY <2>2, <2>3, <3>1 DEF Proper, State
  <2> QED  BY <2>2, <2>3, <2>4 DEF Proper
<1>4. ASSUME NEW files, Present(store[r]) \subseteq files, GoesOn(r, files) PROVE StoreInv'
  <2>1. r \in maint.owed => \A n \in Names \ files : Proper(backup'[r], n)  BY <1>2, <1>3, <1>4
  <2>2. Maintained'  BY <1>1, <1>2, <1>4, <2>1, BackupGoesOn
  <2>3. Types'  BY <1>1, <1>2, <1>4 DEF Types, GoesOn
  <2> QED  BY <1>1, <1>2, <2>2, <2>3, DirectoriesStay DEF StoreInv
<1>5. CASE Handle(r, Present(store[r]))
  <2>1. PICK files : files = Present(store[r])  OBVIOUS
  <2>2. files \in SUBSET (Names \cup {"temporary"}) /\ Handle(r, files)  BY <1>5, <2>1 DEF Present
  <2>3. GoesOn(r, files)  BY <1>1, <1>2, <2>2, HandleNext
  <2> QED  BY <1>4, <2>1, <2>3
<1>6. CASE /\ pub[r] \in DOMAIN Documents
           /\ maint' = [maint EXCEPT !.files = Present(store[r]) \cup {"temporary"}, !.stage = pub[r]]
  <2>1. PICK files : files = Present(store[r]) \cup {"temporary"}  OBVIOUS
  <2>2. PICK m \in Upkeep : m = maint  BY <1>1 DEF Types
  <2>3. PICK s \in Nat : s = pub[r]  BY <1>6, Stages
  <2>4. PICK m2 : m2 = [m EXCEPT !.files = files, !.stage = s]  OBVIOUS
  <2>5. files \in SUBSET (Names \cup {"temporary"}) /\ files # {}  BY <2>1 DEF Present
  <2>6. /\ m2 \in Upkeep /\ m2.op = m.op /\ m2.owed = m.owed /\ m2.result = m.result
        /\ m2.files = files /\ m2.runs = m.runs
    BY <2>4, <2>5 DEF Upkeep
  <2>7. maint' = m2  BY <1>6, <2>1, <2>2, <2>3, <2>4
  <2>8. \A q \in Runs : (Turn(q)' <=> Turn(q)) /\ (Turn(q) => q = r)
    BY <1>2, <2>2, <2>6, <2>7, OneTurn DEF Turn
  <2>9. r \in m.runs  BY <1>2, <2>2 DEF Turn, First
  <2>10. GoesOn(r, files)  BY <1>2, <2>2, <2>5, <2>6, <2>7, <2>8, <2>9 DEF GoesOn, Opened
  <2> QED  BY <1>4, <2>1, <2>10
<1> QED  BY <1>5, <1>6 DEF OpenForBackup

\* A file of a run is copied into the backup.
LEMMA CopySound ==
  ASSUME NEW dir, NEW copy, NEW more, NEW n \in Names, NEW stage, NEW what,
         RunSound(dir, copy, stage, what),
         more[n] = dir[n], \A m \in Names : m # n => more[m] = copy[m]
  PROVE  RunSound(dir, more, stage, what)
<1>1. Blank(dir) /\ Blank(copy) => Blank(more)  BY DEF Blank
<1>2. Sealed(more, stage)
  <2>1. Last \in Names  BY NamesApart DEF Last
  <2> QED  BY <2>1 DEF RunSound, Sealed, State
<1>3. Lists(dir) /\ Lists(copy) => Lists(more)  BY NamesApart DEF Lists
<1> QED  BY <1>1, <1>2, <1>3 DEF RunSound

LEMMA CopyOutNext == ASSUME StoreInv, CopyOut PROVE StoreInv'
<1>1. Types /\ Directories /\ Maintained  BY DEF StoreInv
<1>2. UNCHANGED <<pub, old, store, fate>>  BY DEF CopyOut, Still
<1>3. ASSUME NEW r \in Runs, NEW n \in Names, Inside("backup", r, n), NextFile(r, n),
             backup' = [backup EXCEPT ![r][n] = store[r][n]]
      PROVE  StoreInv'
  <2>1. maint.op = "backup" /\ Turn(r) /\ Opened(r) /\ n \in maint.files  BY <1>1, <1>3, InsideFacts
  <2>2. PICK content : content = store[r][n]  OBVIOUS
  <2>3. PICK copy : copy = [backup[r] EXCEPT ![n] = content]  OBVIOUS
  <2>4. content \in Content /\ copy \in Dir /\ copy[n] = content /\ \A m \in Names : m # n => copy[m] = backup[r][m]
    BY <1>1, <2>2, <2>3 DEF Types, Dir
  <2>5. backup' = [backup EXCEPT ![r] = copy]  BY <1>3, <2>2, <2>3
  <2>6. /\ backup' \in [Runs -> Dir] /\ backup'[r] = copy /\ \A q \in Runs : q # r => backup'[q] = backup[q]
    BY <1>1, <2>4, <2>5 DEF Types
  <2>7. PICK files : files = maint.files \ {n}  OBVIOUS
  <2>8. GoesOn(r, files)
    <3>1. files \in SUBSET (Names \cup {"temporary"})  BY <1>1, <2>7 DEF Types, Upkeep
    <3>2. Handle(r, files)  BY <1>3, <2>7 DEF NextFile
    <3> QED  BY <1>1, <2>1, <3>1, <3>2, HandleNext
  <2>9. Types'  BY <1>1, <1>2, <2>6, <2>8 DEF Types, GoesOn
  <2>10. Directories'
    <3>1. RunSound(store[r], backup[r], pub[r], fate[r])  BY <1>1 DEF Directories
    <3>2. RunSound(store[r], copy, pub[r], fate[r])  BY <2>2, <2>4, <3>1, CopySound
    <3>3. ASSUME NEW q \in Runs
          PROVE  RunSound(store[q], backup'[q], pub[q], fate[q]) /\ (q \in old => pub[q] = Done)
      <4>1. CASE q = r  BY <1>1, <2>6, <3>2, <4>1 DEF Directories
      <4>2. CASE q # r  BY <1>1, <2>6, <4>2 DEF Directories
      <4> QED  BY <4>1, <4>2
    <3> QED  BY <1>2, <3>3 DEF Directories
  <2>11. ASSUME r \in maint.owed, NEW m \in Names \ files PROVE Proper(backup'[r], m)
    <3>1. Whole(store[r]) /\ \A x \in Names \ maint.files : Proper(backup[r], x)
      BY <1>1, <2>1, <2>11 DEF Maintained, Owing
    <3>2. CASE m = n
      <4>1. Proper(store[r], n)  BY <3>1, WholeProper
      <4> QED  BY <2>2, <2>4, <2>6, <3>2, <4>1 DEF Proper, State
    <3>3. CASE m # n
      <4>1. Proper(backup[r], m)  BY <2>7, <3>1, <3>3
      <4>2. copy[m] = backup[r][m]  BY <2>4, <3>3
      <4> QED  BY <2>6, <4>1, <4>2 DEF Proper, State
    <3> QED  BY <3>2, <3>3
  <2>12. Maintained'  BY <1>1, <1>2, <2>1, <2>6, <2>8, <2>11, BackupGoesOn
  <2> QED  BY <2>9, <2>10, <2>12 DEF StoreInv
<1>4. ASSUME NEW r \in Runs, Inside("backup", r, "temporary"), NextFile(r, "temporary"), UNCHANGED backup
      PROVE  StoreInv'
  <2>1. maint.op = "backup" /\ Turn(r) /\ Opened(r)  BY <1>1, <1>4, InsideFacts
  <2>2. PICK files : files = maint.files \ {"temporary"}  OBVIOUS
  <2>3. GoesOn(r, files)
    <3>1. files \in SUBSET (Names \cup {"temporary"})  BY <1>1, <2>2 DEF Types, Upkeep
    <3>2. Handle(r, files)  BY <1>4, <2>2 DEF NextFile
    <3> QED  BY <1>1, <2>1, <3>1, <3>2, HandleNext
  <2>4. Names \ files = Names \ maint.files  BY <2>2, NamesApart
  <2>5. r \in maint.owed => \A n \in Names \ files : Proper(backup'[r], n)
    BY <1>1, <1>4, <2>1, <2>4 DEF Maintained, Owing
  <2>6. Maintained'  BY <1>1, <1>2, <1>4, <2>1, <2>3, <2>5, BackupGoesOn
  <2>7. Types'  BY <1>1, <1>2, <1>4, <2>3 DEF Types, GoesOn
  <2> QED  BY <1>1, <1>2, <1>4, <2>6, <2>7, DirectoriesStay DEF StoreInv
<1>5. ASSUME NEW result \in {"created", "cut short"}, Finish(result), UNCHANGED backup,
             result = "created" => Over("backup")
      PROVE  StoreInv'
  <2>1. result = "created" => \A r \in maint.owed : Whole(backup'[r])
    BY <1>1, <1>5 DEF Maintained, Owing, Over, Types, Upkeep
  <2>2. maint' \in Upkeep /\ Maintained'  BY <1>1, <1>5, <2>1, FinishNext
  <2>3. Types'  BY <1>1, <1>2, <1>5, <2>2 DEF Types
  <2> QED  BY <1>1, <1>2, <1>5, <2>2, <2>3, DirectoriesStay DEF StoreInv
<1> QED  BY <1>3, <1>4, <1>5 DEF CopyOut

-----------------------------------------------------------------------------
(* Restore.                                                                *)

LEMMA ClearNext == ASSUME StoreInv, Clear PROVE StoreInv'
<1>1. Types /\ Directories /\ Maintained  BY DEF StoreInv
<1>2. UNCHANGED <<pub, old, backup, fate>>  BY DEF Clear, Still
\* While the store is cleared nothing of it is promised.
<1>3. ASSUME maint.op = "clear", NEW r, NEW files, GoesOn(r, files) PROVE Maintained'
  <2>1. maint'.op = "clear" /\ maint'.result = "none"  BY <1>1, <1>3 DEF GoesOn, Maintained
  <2>2. \A q \in Runs : Retiring(q)' /\ Owing(q)'  BY <2>1 DEF Retiring, Owing
  <2>3. ASSUME NEW q \in Runs PROVE Refilling(q)'
    <3>1. fate[q] = "kept" => pub[q] = 0  BY <1>1, <1>3 DEF Maintained, Refilling
    <3> QED  BY <1>2, <2>1, <3>1 DEF Refilling
  <2> QED  BY <1>3, <2>1, <2>2, <2>3 DEF Maintained, GoesOn
<1>4. ASSUME NEW r \in Runs, Opening("clear", r), Handle(r, Present(store[r])), UNCHANGED store
      PROVE  StoreInv'
  <2>1. PICK files : files = Present(store[r])  OBVIOUS
  <2>2. files \in SUBSET (Names \cup {"temporary"}) /\ Handle(r, files)  BY <1>4, <2>1 DEF Present
  <2>3. maint.op = "clear" /\ Turn(r)  BY <1>4 DEF Opening
  <2>4. GoesOn(r, files)  BY <1>1, <2>2, <2>3, HandleNext
  <2>5. Maintained'  BY <1>3, <2>3, <2>4
  <2>6. Types'  BY <1>1, <1>2, <1>4, <2>4 DEF Types, GoesOn
  <2> QED  BY <1>1, <1>2, <1>4, <2>5, <2>6, DirectoriesStay DEF StoreInv
<1>5. ASSUME NEW r \in Runs, NEW n \in Names, Inside("clear", r, n), Remove(r, n) PROVE StoreInv'
  <2>1. maint.op = "clear" /\ Turn(r) /\ n \in maint.files  BY <1>1, <1>5, InsideFacts
  <2>2. fate[r] = "kept" => pub[r] = 0  BY <1>1, <2>1 DEF Maintained, Refilling
  <2>3. PICK files : files = maint.files \ {n}  OBVIOUS
  <2>4. Types' /\ Directories' /\ GoesOn(r, files)
    BY <1>1, <1>2, <1>5, <2>1, <2>2, <2>3, RemoveNext
  <2>5. Maintained'  BY <1>3, <2>1, <2>4
  <2> QED  BY <2>4, <2>5 DEF StoreInv
<1>6. ASSUME Over("clear"), \A r \in Runs : store[r] = Empty, UNCHANGED store,
             maint' = [maint EXCEPT !.op = "restore", !.runs = Runs]
      PROVE  StoreInv'
  <2>1. PICK m \in Upkeep : m = maint  BY <1>1 DEF Types
  <2>2. PICK m2 : m2 = [m EXCEPT !.op = "restore", !.runs = Runs]  OBVIOUS
  <2>3. /\ m2 \in Upkeep /\ m2.op = "restore" /\ m2.runs = Runs /\ m2.files = m.files
        /\ m2.owed = m.owed /\ m2.result = m.result
    BY <2>2 DEF Upkeep
  <2>4. maint' = m2  BY <1>6, <2>1, <2>2
  <2>5. m.op = "clear" /\ m.files = {} /\ m.result = "none"  BY <1>1, <1>6, <2>1 DEF Over, Maintained
  <2>6. \A q \in Runs : ~ Opened(q)'  BY <2>3, <2>4, <2>5 DEF Opened
  <2>7. \A q \in Runs : Retiring(q)' /\ Owing(q)'  BY <2>3, <2>4, <2>5 DEF Retiring, Owing
  <2>8. ASSUME NEW q \in Runs PROVE Refilling(q)'
    <3>1. fate[q] = "kept" => pub[q] = 0  BY <1>1, <2>1, <2>5 DEF Maintained, Refilling
    <3>2. Blank(store[q])  BY <1>6, EmptyDir
    <3> QED  BY <1>2, <1>6, <2>3, <2>4, <2>5, <2>6, <3>1, <3>2 DEF Refilling
  <2>9. Maintained'  BY <2>3, <2>4, <2>5, <2>7, <2>8 DEF Maintained
  <2>10. Types'  BY <1>1, <1>2, <1>6, <2>3, <2>4 DEF Types
  <2> QED  BY <1>1, <1>2, <1>6, <2>9, <2>10, DirectoriesStay DEF StoreInv
<1>7. ASSUME Finish("failed"), UNCHANGED store PROVE StoreInv'
  <2>1. maint' \in Upkeep /\ Maintained'  BY <1>1, <1>7, FinishNext
  <2>2. Types'  BY <1>1, <1>2, <1>7, <2>1 DEF Types
  <2> QED  BY <1>1, <1>2, <1>7, <2>1, <2>2, DirectoriesStay DEF StoreInv
<1> QED  BY <1>4, <1>5, <1>6, <1>7 DEF Clear

\* A file that the backup has is written, or half written.
LEMMA FillSound ==
  ASSUME NEW dir, NEW copy \in Dir, NEW more, NEW n \in Names, NEW stage,
         NEW what \in {"kept", "removed", "crossed"},
         RunSound(dir, copy, stage, what), what # "kept", copy[n] # None,
         more[n] = copy[n] \/ more[n] = Torn(copy[n][2]), \A m \in Names : m # n => more[m] = dir[m]
  PROVE  RunSound(more, copy, stage, what)
<1>1. copy[n] \in Content  BY DEF Dir
<1>2. copy[n][2] \in SUBSET Item  BY <1>1, Contents
<1>3. Sealed(more, stage)
  <2>1. Last \in Names  BY NamesApart DEF Last
  <2>2. Torn(copy[n][2])[1] # "good"  BY <1>2, Written
  <2>3. State(more, Last) = "good" => State(copy, Last) = "good" \/ State(dir, Last) = "good"
    BY <2>1, <2>2 DEF State
  <2> QED  BY <2>3 DEF RunSound, Sealed
<1>4. Lists(dir) /\ Lists(copy) => Lists(more)
  <2>1. Torn(copy[n][2])[2] = copy[n][2]  BY <1>2, Written
  <2> QED  BY <2>1, NamesApart DEF Lists
<1>5. what = "removed" => Progress(more, stage)
  <2>1. ASSUME what = "removed" PROVE Progress(more, stage)
    <3>1. stage \in {Done, Failed}  BY <2>1 DEF RunSound
    <3>2. stage \notin 1 .. Signature /\ stage # Listing /\ stage # ToSign /\ stage # Signature
      BY <3>1, Stages
    <3> QED  BY <3>2 DEF Progress
  <2> QED  BY <2>1
<1> QED  BY <1>3, <1>4, <1>5 DEF RunSound

\* A restore goes on with a run: it has what it takes of the files that it has gone through.
LEMMA RestoreGoesOn ==
  ASSUME Types, Maintained, NEW r \in Runs, NEW files, maint.op = "restore", Turn(r), GoesOn(r, files),
         UNCHANGED <<pub, old, backup, fate>>, files \subseteq Present(backup[r]),
         \A q \in Runs : q # r => store'[q] = store[q],
         fate[r] = "removed" => \A n \in Names \ files : Copied(store'[r], backup[r], n)
  PROVE  Maintained'
<1>1. maint'.op = "restore" /\ maint'.files = files /\ maint'.result = "none"
  BY DEF GoesOn, Maintained
<1>2. \A q \in Runs : Retiring(q)' /\ Owing(q)'  BY <1>1 DEF Retiring, Owing
<1>3. ASSUME NEW q \in Runs PROVE Refilling(q)'
  <2>1. Refilling(q)  BY DEF Maintained
  <2>2. CASE q # r
    <3>1. (q \in maint'.runs <=> q \in maint.runs) /\ ~ Opened(q) /\ ~ Opened(q)'  BY <2>2 DEF GoesOn
    <3>2. store'[q] = store[q]  BY <2>2
    <3>3. Turn(q)' => files = {}  BY <1>1, <3>1 DEF Opened
    <3> QED  BY <1>1, <2>1, <3>1, <3>2, <3>3 DEF Refilling
  <2>3. CASE q = r
    <3>1. files # {} => Opened(q)' /\ q \in maint'.runs  BY <2>3 DEF GoesOn
    <3>2. files = {} => ~ Opened(q)' /\ q \notin maint'.runs  BY <2>3 DEF GoesOn
    <3>3. fate[q] = "removed" => \A n \in Names \ files : Copied(store'[q], backup[q], n)  BY <2>3
    <3>4. fate[q] = "kept" => pub[q] = 0  BY <2>1 DEF Refilling
    <3> QED  BY <1>1, <2>3, <3>1, <3>2, <3>3, <3>4 DEF Refilling
  <2> QED  BY <2>2, <2>3
<1> QED  BY <1>1, <1>2, <1>3 DEF Maintained, GoesOn

LEMMA StayInside ==
  ASSUME Types, NEW r \in Runs, Opened(r), UNCHANGED maint
  PROVE  GoesOn(r, maint.files)
<1>1. Turn(r) /\ maint.files # {} /\ r \in maint.runs  BY DEF Opened, Turn, First
<1>2. \A q \in Runs : (Opened(q)' <=> Opened(q)) /\ (Opened(q) => q = r)
  BY <1>1, OneTurn DEF Opened, Turn
<1>3. maint' \in Upkeep /\ UNCHANGED <<maint.op, maint.owed, maint.result>> /\ maint'.files = maint.files
      /\ maint'.runs = maint.runs
  BY DEF Types
<1> QED  BY <1>1, <1>2, <1>3 DEF GoesOn

\* A file that is as the backup has it makes the run whole again, altered or not.
LEMMA CopiedProper ==
  ASSUME NEW dir, NEW copy, NEW n \in Names, Copied(dir, copy, n), Proper(copy, n)
  PROVE  Proper(dir, n)
<1>1. CASE dir[n] = copy[n]  BY <1>1 DEF Proper, State
<1>2. CASE n \in Docs /\ State(dir, n) = "altered"  BY <1>2, NamesApart DEF Proper
<1> QED  BY <1>1, <1>2 DEF Copied

LEMMA CopyInNext == ASSUME StoreInv, CopyIn PROVE StoreInv'
<1>1. Types /\ Directories /\ Maintained  BY DEF StoreInv
<1>2. UNCHANGED <<pub, old, backup>>  BY DEF CopyIn, Still
<1>3. ASSUME NEW r \in Runs, Opening("restore", r), Handle(r, Present(backup[r])), UNCHANGED <<store, fate>>
      PROVE  StoreInv'
  <2>1. PICK files : files = Present(backup[r])  OBVIOUS
  <2>2. files \in SUBSET (Names \cup {"temporary"}) /\ Handle(r, files)  BY <1>3, <2>1 DEF Present
  <2>3. maint.op = "restore" /\ Turn(r) /\ maint.files = {}  BY <1>3 DEF Opening
  <2>4. GoesOn(r, files)  BY <1>1, <2>2, <2>3, HandleNext
  <2>5. ASSUME fate[r] = "removed", NEW n \in Names \ files PROVE Copied(store'[r], backup[r], n)
    <3>1. r \in maint.runs /\ ~ Opened(r)  BY <2>3 DEF Opened, Turn, First
    <3>2. Blank(store[r])  BY <1>1, <2>3, <2>5, <3>1 DEF Maintained, Refilling
    <3>3. store'[r][n] = None /\ backup[r][n] = None  BY <1>3, <2>1, <3>2 DEF Blank, Present
    <3> QED  BY <3>3 DEF Copied
  <2>6. Maintained'  BY <1>1, <1>2, <1>3, <2>1, <2>3, <2>4, <2>5, RestoreGoesOn
  <2>7. Types'  BY <1>1, <1>2, <1>3, <2>4 DEF Types, GoesOn
  <2> QED  BY <1>1, <1>2, <1>3, <2>6, <2>7, DirectoriesStay DEF StoreInv
<1>4. ASSUME NEW r \in Runs, NEW n \in Names, Inside("restore", r, n), CopyFile(r, n), UNCHANGED fate
      PROVE  StoreInv'
  <2>1. maint.op = "restore" /\ Turn(r) /\ Opened(r) /\ n \in maint.files  BY <1>1, <1>4, InsideFacts
  <2>2. Refilling(r) /\ maint.files \subseteq Present(backup[r])  BY <1>1, <2>1 DEF Maintained, Refilling
  <2>3. backup[r] \in Dir /\ backup[r][n] # None /\ backup[r][n] \in Content
    BY <1>1, <2>1, <2>2 DEF Types, Present, Dir
  <2>4. RunSound(store[r], backup[r], pub[r], fate[r]) /\ fate[r] \in {"kept", "removed", "crossed"}
    BY <1>1 DEF Directories, Types
  <2>5. fate[r] # "kept"  BY <2>1, <2>2, <2>3, <2>4 DEF Refilling, RunSound, Blank
  <2>6. PICK content : content = backup[r][n]  OBVIOUS
  <2>7. content[2] \in SUBSET Item  BY <2>3, <2>6, Contents
  \* Whatever is written, and whichever files are left.
  <2>8. ASSUME NEW written \in Content, Set(r, n, written), NEW files, GoesOn(r, files),
               files \subseteq maint.files, maint.files \subseteq files \cup {n},
               written = content \/ written = Torn(content[2]), n \in files \/ written = content
        PROVE  StoreInv'
    <3>1. PICK dir \in Dir : /\ store' = [store EXCEPT ![r] = dir] /\ dir[n] = written
                             /\ \A m \in Names : m # n => dir[m] = store[r][m]
      BY <1>1, <2>8, SetFile
    <3>2. /\ store' \in [Runs -> Dir] /\ store'[r] = dir /\ \A q \in Runs : q # r => store'[q] = store[q]
      BY <1>1, <3>1 DEF Types
    <3>3. Types'  BY <1>1, <1>2, <1>4, <2>8, <3>2 DEF Types, GoesOn
    <3>4. RunSound(dir, backup[r], pub[r], fate[r])
      <4>1. dir[n] = backup[r][n] \/ dir[n] = Torn(backup[r][n][2])  BY <2>6, <2>8, <3>1
      <4> QED  BY <2>3, <2>4, <2>5, <3>1, <4>1, FillSound
    <3>5. ASSUME NEW q \in Runs
          PROVE  RunSound(store'[q], backup[q], pub[q], fate[q]) /\ (q \in old => pub[q] = Done)
      <4>1. CASE q = r  BY <1>1, <3>2, <3>4, <4>1 DEF Directories
      <4>2. CASE q # r  BY <1>1, <3>2, <4>2 DEF Directories
      <4> QED  BY <4>1, <4>2
    <3>6. Directories'  BY <1>2, <1>4, <3>5 DEF Directories
    <3>7. ASSUME fate[r] = "removed", NEW m \in Names \ files PROVE Copied(store'[r], backup[r], m)
      <4>1. CASE m = n
        <5>1. written = content  BY <2>8, <3>7, <4>1
        <5> QED  BY <2>6, <3>1, <3>2, <4>1, <5>1 DEF Copied
      <4>2. CASE m # n
        <5>1. m \in Names \ maint.files  BY <2>8, <3>7, <4>2
        <5>2. Copied(store[r], backup[r], m)  BY <2>1, <2>2, <3>7, <5>1 DEF Refilling
        <5>3. dir[m] = store[r][m]  BY <3>1, <4>2
        <5> QED  BY <3>2, <5>2, <5>3 DEF Copied, State
      <4> QED  BY <4>1, <4>2
    <3>8. files \subseteq Present(backup[r])  BY <2>2, <2>8
    <3>9. Maintained'  BY <1>1, <1>2, <1>4, <2>1, <2>8, <3>2, <3>7, <3>8, RestoreGoesOn
    <3> QED  BY <3>3, <3>6, <3>9 DEF StoreInv
  <2>9. CASE State(store[r], n) = "torn" \/ content[1] = "torn"
    <3>1. NextFile(r, n) /\ Set(r, n, content)  BY <1>4, <2>6, <2>9 DEF CopyFile, Put, Set
    <3>2. PICK files : files = maint.files \ {n}  OBVIOUS
    <3>3. GoesOn(r, files)
      <4>1. files \in SUBSET (Names \cup {"temporary"})  BY <1>1, <3>2 DEF Types, Upkeep
      <4>2. Handle(r, files)  BY <3>1, <3>2 DEF NextFile
      <4> QED  BY <1>1, <2>1, <4>1, <4>2, HandleNext
    <3> QED  BY <2>3, <2>6, <2>8, <3>1, <3>2, <3>3
  <2>10. CASE ~ (State(store[r], n) = "torn" \/ content[1] = "torn")
    <3>1. UNCHANGED maint /\ Set(r, n, Torn(content[2]))  BY <1>4, <2>6, <2>10 DEF CopyFile, Put, Set
    <3>2. PICK written \in Content : written = Torn(content[2])  BY <2>7, Written
    <3>3. GoesOn(r, maint.files)  BY <1>1, <2>1, <3>1, StayInside
    <3>4. PICK files : files = maint.files  OBVIOUS
    <3> QED  BY <2>1, <2>8, <3>1, <3>2, <3>3, <3>4
  <2> QED  BY <2>9, <2>10
<1>5. ASSUME Over("restore"), Finish("done"), UNCHANGED store,
             fate' = [r \in Runs |-> IF fate[r] = "removed" /\ Whole(backup[r]) THEN "kept" ELSE fate[r]]
      PROVE  StoreInv'
  <2>1. maint' \in Upkeep /\ Maintained'  BY <1>1, <1>5, FinishNext
  <2>2. fate' \in [Runs -> {"kept", "removed", "crossed"}]  BY <1>1, <1>5 DEF Types
  <2>3. Types'  BY <1>1, <1>2, <1>5, <2>1, <2>2 DEF Types
  <2>4. ASSUME NEW r \in Runs
        PROVE  RunSound(store[r], backup[r], pub[r], fate'[r]) /\ (r \in old => pub[r] = Done)
    <3>1. RunSound(store[r], backup[r], pub[r], fate[r]) /\ (r \in old => pub[r] = Done)
      BY <1>1 DEF Directories
    <3>2. CASE fate[r] = "removed" /\ Whole(backup[r])
      <4>1. fate'[r] = "kept"  BY <1>5, <3>2
      <4>2. pub[r] # 0 /\ pub[r] \in {Done, Failed}  BY <3>1, <3>2, Stages DEF RunSound
      <4>3. \A n \in Names : Copied(store[r], backup[r], n)
        BY <1>1, <1>5, <3>2 DEF Over, Maintained, Refilling
      <4>4. Whole(store[r])  BY <3>2, <4>3, WholeProper, CopiedProper
      <4> QED  BY <3>1, <3>2, <4>1, <4>2, <4>4 DEF RunSound
    <3>3. CASE ~ (fate[r] = "removed" /\ Whole(backup[r]))
      <4>1. fate'[r] = fate[r]  BY <1>5, <3>3
      <4> QED  BY <3>1, <4>1
    <3> QED  BY <3>2, <3>3
  <2>5. Directories'  BY <1>2, <1>5, <2>4 DEF Directories
  <2> QED  BY <2>1, <2>3, <2>5 DEF StoreInv
<1> QED  BY <1>3, <1>4, <1>5 DEF CopyIn

-----------------------------------------------------------------------------
(* The directories.                                                        *)

\* Every step preserves the invariant of the directories.
LEMMA StoreNext == StoreInv /\ [Next]_vars => StoreInv'
<1> SUFFICES ASSUME StoreInv, [Next]_vars PROVE StoreInv'
  OBVIOUS
<1>1. CASE UNCHANGED <<store, pub, old, maint, backup, fate>>
  <2>1. Types /\ Directories /\ Maintained  BY DEF StoreInv
  <2>2. Types' /\ Directories'  BY <1>1, <2>1 DEF Types, Directories
  <2>3. \A r \in Runs : (Opened(r)' <=> Opened(r)) /\ (Turn(r)' <=> Turn(r))  BY <1>1 DEF Opened, Turn
  <2>4. \A r \in Runs : Retiring(r)' /\ Owing(r)' /\ Refilling(r)'
    BY <1>1, <2>1, <2>3 DEF Maintained, Retiring, Owing, Refilling
  <2>5. Maintained'  BY <1>1, <2>1, <2>4 DEF Maintained
  <2> QED  BY <2>2, <2>5 DEF StoreInv
<1>2. UNCHANGED vars \/ Read => UNCHANGED <<store, pub, old, maint, backup, fate>>
  BY DEF vars, Read, Request, NextRun, ReadManifest, VerifyDigest, VerifySignature, ReadDocument, Reply, Asks
<1>3. CASE Maintenance
  BY <1>3, StartRetentionNext, InspectNext, RetireNext, StartBackupNext, OpenForBackupNext, CopyOutNext,
     StartRestoreNext, ClearNext, CopyInNext, DieNext DEF Maintenance
<1>4. CASE Damage  BY <1>4, DamageNext
<1>5. ASSUME NEW r \in Runs, Publish(r) PROVE StoreInv'  BY <1>5, PublishNext
<1> QED  BY <1>1, <1>2, <1>3, <1>4, <1>5 DEF Next

LEMMA StoreInvariant == Spec => []StoreInv
<1> QED  BY InitStore, StoreNext, PTL DEF Spec

LEMMA StoreKeeps == StoreInv => PublishedWhole
<1> SUFFICES ASSUME StoreInv PROVE PublishedWhole
  OBVIOUS
<1>1. Types /\ Directories /\ Maintained  BY DEF StoreInv
<1>2. \A r \in Runs : pub[r] = Done /\ fate[r] = "kept" => Whole(store[r])
  BY <1>1 DEF Directories, RunSound
<1>3. maint.result = "created" => \A r \in maint.owed : Whole(backup[r])
  BY <1>1 DEF Types, Upkeep, Maintained, Owing
<1> QED  BY <1>2, <1>3 DEF PublishedWhole

\* However many runs are published, interrupted, retired, backed up and restored: a run
\* whose publication is done is all there while it is kept, and a backup that is created
\* has every run that was whole when it began (publish, applyComplianceRetention,
\* createBackup, restoreBackup).
THEOREM RunsStayWhole == Spec => []PublishedWhole
<1> QED  BY StoreInvariant, StoreKeeps, PTL

-----------------------------------------------------------------------------
(* The request: what happens to the files meanwhile.                       *)

\* A manifest that is there stays there.
Calm == \A r \in Runs : store[r]["integrity"] # None => store'[r]["integrity"] # None

Moves == UNCHANGED <<store, reader>> \/ (Calm /\ Watch(FALSE)) \/ Watch(TRUE)

\* No run that a restore has met is forgotten.
Crossing == \A r \in Runs : fate[r] = "crossed" => fate'[r] = "crossed"

\* What is written is something.
LEMMA PutMoves ==
  ASSUME Types, NEW r \in Runs, NEW n \in Names, NEW content \in Content, content # None, Put(r, n, content)
  PROVE  Moves
<1>1. Set(r, n, content) /\ Watch(FALSE)  BY DEF Put, Set
<1>2. PICK dir \in Dir : /\ store' = [store EXCEPT ![r] = dir] /\ dir[n] = content
                         /\ \A m \in Names : m # n => dir[m] = store[r][m]
  BY <1>1, SetFile
<1>3. store'[r] = dir /\ \A q \in Runs : q # r => store'[q] = store[q]  BY <1>2 DEF Types
<1>4. Calm  BY <1>2, <1>3, NamesApart DEF Calm
<1> QED  BY <1>1, <1>4 DEF Moves

LEMMA CloseMoves ==
  ASSUME Types, NEW r \in Runs, NEW n \in Names, Close(r, n)
  PROVE  Moves
<1>1. store[r][n][2] \in SUBSET Item
  <2>1. store[r][n] \in Content  BY DEF Types, Dir
  <2> QED  BY <2>1, Contents
<1>2. PICK content : content = Good(store[r][n][2])  OBVIOUS
<1>3. content \in Content /\ content # None  BY <1>1, <1>2, Written
<1>4. CASE Put(r, n, content)  BY <1>3, <1>4, PutMoves
<1>5. CASE UNCHANGED <<store, reader>>  BY <1>5 DEF Moves
<1> QED  BY <1>2, <1>4, <1>5 DEF Close

LEMMA PublishMoves == ASSUME StoreInv, NEW r \in Runs, Publish(r) PROVE Moves /\ Crossing
<1>1. Types  BY DEF StoreInv
<1>2. Crossing
  <2>1. PICK s : Stage(r, s)
    BY DEF Publish, MakeDirectory, WriteDocument, ListDocuments, CloseManifest, OpenSignature, CloseSignature,
           AbandonPublication
  <2>2. fate' = fate \/ fate' = [fate EXCEPT ![r] = "crossed"]  BY <2>1 DEF Stage
  <2> QED  BY <1>1, <2>2 DEF Types, Crossing
<1>3. CASE MakeDirectory(r) \/ AbandonPublication(r)
  BY <1>2, <1>3 DEF MakeDirectory, AbandonPublication, Moves
<1>4. CASE WriteDocument(r)
  <2>1. Put(r, Documents[pub[r]], Good({})) /\ Documents[pub[r]] \in Names
    BY <1>4, NamesApart DEF WriteDocument
  <2>2. Good({}) \in Content /\ Good({}) # None  BY AllItems, Written
  <2> QED  BY <1>1, <1>2, <2>1, <2>2, PutMoves
<1>5. CASE ListDocuments(r)
  <2>1. PICK listed : listed = Digests(store[r])  OBVIOUS
  <2>2. Put(r, "integrity", Torn(listed))  BY <1>5, <2>1 DEF ListDocuments
  <2>3. listed \in SUBSET Item
    <3>1. \A d \in Docs : State(store[r], d) \in Kind  BY <1>1, NamesApart, Contents DEF State, Dir, Types
    <3>2. Present(store[r]) \ {"integrity", "signature"} \subseteq Docs  BY NamesApart DEF Present
    <3> QED  BY <2>1, <3>1, <3>2 DEF Digests, Item
  <2>4. Torn(listed) \in Content /\ Torn(listed) # None  BY <2>3, Written
  <2> QED  BY <1>1, <1>2, <2>2, <2>4, NamesApart, PutMoves
<1>6. CASE CloseManifest(r)
  <2>1. Close(r, "integrity")  BY <1>6 DEF CloseManifest
  <2> QED  BY <1>1, <1>2, <2>1, NamesApart, CloseMoves
<1>7. CASE OpenSignature(r)
  <2>1. Put(r, "signature", Torn({}))  BY <1>7 DEF OpenSignature
  <2>2. Torn({}) \in Content /\ Torn({}) # None  BY AllItems, Written
  <2> QED  BY <1>1, <1>2, <2>1, <2>2, NamesApart, PutMoves
<1>8. CASE CloseSignature(r)
  <2>1. Close(r, "signature")  BY <1>8 DEF CloseSignature
  <2> QED  BY <1>1, <1>2, <2>1, NamesApart, CloseMoves
<1> QED  BY <1>3, <1>4, <1>5, <1>6, <1>7, <1>8 DEF Publish

LEMMA MaintenanceMoves == ASSUME StoreInv, Maintenance \/ Damage PROVE Moves /\ Crossing
<1>1. Types /\ Maintained  BY DEF StoreInv
<1>2. Crossing
  <2>1. CASE UNCHANGED fate  BY <2>1 DEF Crossing
  <2>2. CASE StartRestore
    <3>1. \A r \in Runs : fate'[r] = IF pub[r] \in 1 .. Signature THEN "crossed"
                                    ELSE IF fate[r] = "kept" /\ pub[r] # 0 THEN "removed" ELSE fate[r]
      BY <2>2 DEF StartRestore
    <3> QED  BY <3>1 DEF Crossing
  <2>3. ASSUME NEW r \in Runs, Inspect(r) PROVE Crossing
    <3>1. fate' = fate \/ (fate[r] = "kept" /\ fate' = [fate EXCEPT ![r] = "removed"])  BY <2>3 DEF Inspect
    <3> QED  BY <1>1, <3>1 DEF Types, Crossing
  <2>4. CASE fate' = [r \in Runs |-> IF fate[r] = "removed" /\ Whole(backup[r]) THEN "kept" ELSE fate[r]]
    BY <2>4 DEF Crossing
  <2> QED
    BY <2>1, <2>2, <2>3, <2>4 DEF Maintenance, Damage, StartRetention, Retire, StartBackup, OpenForBackup, CopyOut,
       Clear, CopyIn, Die
<1>3. CASE Damage
  <2>1. PICK r \in Runs, d \in Docs : Put(r, d, Altered)  BY <1>3 DEF Damage
  <2>2. Altered # None  BY Contents
  <2> QED  BY <1>1, <1>2, <2>1, <2>2, NamesApart, Contents, PutMoves
<1>4. ASSUME NEW r \in Runs, NEW n \in Names, Remove(r, n) PROVE Moves
  BY <1>4 DEF Remove, Moves
<1>5. ASSUME NEW r \in Runs, NEW n \in Names, Inside("restore", r, n), CopyFile(r, n) PROVE Moves
  <2>1. maint.op = "restore" /\ Turn(r) /\ n \in maint.files  BY <1>1, <1>5, InsideFacts
  <2>2. maint.files \subseteq Present(backup[r])  BY <1>1, <2>1 DEF Maintained, Refilling
  <2>3. PICK content : content = backup[r][n]  OBVIOUS
  <2>4. content \in Content /\ content # None  BY <1>1, <2>1, <2>2, <2>3 DEF Types, Dir, Present
  <2>5. PICK half : half = Torn(content[2])  OBVIOUS
  <2>6. half \in Content /\ half # None  BY <2>4, <2>5, Contents, Written
  <2>7. CASE Put(r, n, content)  BY <1>1, <2>4, <2>7, PutMoves
  <2>8. CASE Put(r, n, half)  BY <1>1, <2>6, <2>8, PutMoves
  <2> QED  BY <1>5, <2>3, <2>5, <2>7, <2>8 DEF CopyFile
<1>6. CASE UNCHANGED <<store, reader>>  BY <1>2, <1>6 DEF Moves
<1> QED
  BY <1>2, <1>3, <1>4, <1>5, <1>6 DEF Maintenance, StartRetention, Inspect, Retire, StartBackup, OpenForBackup,
     CopyOut, StartRestore, Clear, CopyIn, Die

-----------------------------------------------------------------------------
(* The request: its invariant.                                             *)

LEMMA InitReader == Init => ReaderInv
<1> SUFFICES ASSUME Init PROVE ReaderInv
  OBVIOUS
<1>1. PICK rd : rd = Waiting  OBVIOUS
<1>2. /\ rd \in Requests /\ rd.at = "idle" /\ rd.answer = "none" /\ rd.sound = TRUE
  BY <1>1 DEF Waiting, Requests
<1>3. reader = rd  BY <1>1 DEF Init
<1>4. ReaderTypes  BY <1>2, <1>3 DEF ReaderTypes, AtRun
<1>5. Watching /\ Explained /\ Sound /\ Collected
  BY <1>2, <1>3 DEF Watching, Explained, FailureExplained, Sound, Collected, ListComplete, Asking, AtRun
<1> QED  BY <1>4, <1>5 DEF ReaderInv

\* What the step of another process leaves of a request that is being answered.
Watched(quiet, expected, suspect) ==
  reader' = [reader EXCEPT !.quiet = quiet, !.expected = expected, !.suspect = suspect]

\* The request knows no more than before, and what it knows is so of the files that are left.
Knows(quiet, expected, suspect) ==
  /\ quiet => reader.quiet /\ Calm /\ \A r \in Runs : Settled(store'[r])
  /\ expected \subseteq reader.expected /\ \A r \in expected : Unaltered(store'[r])
  /\ suspect \subseteq reader.suspect /\ \A d \in suspect : State(store'[reader.run], d) = "altered"

LEMMA WatchedNext ==
  ASSUME ReaderInv, Asking, Crossing, NEW quiet \in BOOLEAN, NEW expected \in SUBSET Runs, NEW suspect \in SUBSET Docs,
         Watched(quiet, expected, suspect), Knows(quiet, expected, suspect)
  PROVE  ReaderInv'
<1>1. PICK rd \in Requests : rd = reader  BY DEF ReaderInv, ReaderTypes
<1>2. PICK q : q = [rd EXCEPT !.quiet = quiet, !.expected = expected, !.suspect = suspect]  OBVIOUS
<1>3. /\ q \in Requests /\ q.quiet = quiet /\ q.expected = expected /\ q.suspect = suspect
      /\ q.at = rd.at /\ q.op = rd.op /\ q.todo = rd.todo /\ q.run = rd.run /\ q.left = rd.left
      /\ q.second = rd.second /\ q.got = rd.got /\ q.answer = rd.answer /\ q.sound = rd.sound
  BY <1>2 DEF Requests
<1>4. reader' = q  BY <1>1, <1>2 DEF Watched
<1>5. rd.answer = "none"  BY <1>1 DEF ReaderInv, ReaderTypes, Asking
<1>6. ReaderTypes'  BY <1>1, <1>3, <1>4 DEF ReaderInv, ReaderTypes, AtRun
<1>7. Watching'  BY <1>1, <1>3, <1>4 DEF Watching, Asking, AtRun, Knows
<1>8. Explained'
  <2>1. ASSUME rd.at \in {"verify", "signature", "read"}, quiet PROVE Unaltered(store'[rd.run])
    <3>1. rd.run \in Runs  BY <1>1, <2>1 DEF ReaderInv, ReaderTypes, AtRun
    <3>2. Unaltered(store[rd.run])  BY <1>1, <2>1 DEF ReaderInv, Explained, Knows
    <3>3. store[rd.run]["integrity"] # None
      BY <3>2, AllItems, Written DEF Unaltered, Whole, All
    <3>4. store'[rd.run]["integrity"] # None /\ Settled(store'[rd.run])  BY <2>1, <3>1, <3>3 DEF Knows, Calm
    <3> QED  BY <3>4 DEF Settled
  <2>2. rd.at = "verify" /\ quiet => rd.left \subseteq All  BY <1>1 DEF ReaderInv, Explained, Knows
  <2> QED  BY <1>3, <1>4, <1>5, <2>1, <2>2 DEF Explained, FailureExplained
<1>9. Sound'
  <2>1. (\A r \in Runs : fate'[r] # "crossed") => \A r \in Runs : fate[r] # "crossed"  BY DEF Crossing
  <2> QED  BY <1>1, <1>3, <1>4, <2>1 DEF ReaderInv, Sound, Knows
<1>10. Collected'
  <2>1. rd.op # "get" => \A r \in expected :
          r \in rd.got \/ (~ rd.second /\ (r \in rd.todo \/ (AtRun /\ r = rd.run)))
    BY <1>1 DEF ReaderInv, Collected, Knows
  <2>2. AtRun' <=> AtRun  BY <1>1, <1>3, <1>4 DEF AtRun
  <2> QED  BY <1>3, <1>4, <1>5, <2>1, <2>2 DEF Collected, ListComplete
<1> QED  BY <1>6, <1>7, <1>8, <1>9, <1>10 DEF ReaderInv

\* Whatever publications and maintenance do, the request knows only what is so.
LEMMA MovesNext == ASSUME ReaderInv, Moves, Crossing PROVE ReaderInv'
<1>1. ASSUME ~ Asking, UNCHANGED reader PROVE ReaderInv'
  <2>1. reader.at \notin {"next", "manifest", "verify", "signature", "read"}  BY <1>1 DEF Asking
  <2>2. (\A r \in Runs : fate'[r] # "crossed") => \A r \in Runs : fate[r] # "crossed"  BY DEF Crossing
  <2>3. ReaderTypes'  BY <1>1 DEF ReaderInv, ReaderTypes, AtRun
  <2>4. Watching' /\ Explained'
    BY <1>1, <2>1 DEF ReaderInv, Watching, Explained, FailureExplained, Asking, AtRun
  <2>5. Sound'  BY <1>1, <2>2 DEF ReaderInv, Sound
  <2>6. Collected'  BY <1>1, <2>1 DEF ReaderInv, Collected, ListComplete, Asking
  <2> QED  BY <2>3, <2>4, <2>5, <2>6 DEF ReaderInv
<1>2. ASSUME Asking, UNCHANGED <<store, reader>> PROVE ReaderInv'
  <2>1. (\A r \in Runs : fate'[r] # "crossed") => \A r \in Runs : fate[r] # "crossed"  BY DEF Crossing
  <2>2. ReaderTypes' /\ Watching' /\ Explained' /\ Collected'
    BY <1>2 DEF ReaderInv, ReaderTypes, Watching, Explained, FailureExplained, Collected, ListComplete, Asking, AtRun
  <2>3. Sound'  BY <1>2, <2>1 DEF ReaderInv, Sound
  <2> QED  BY <2>2, <2>3 DEF ReaderInv
<1>3. ASSUME Asking, NEW disturbed \in BOOLEAN, Watch(disturbed), ~ disturbed => Calm PROVE ReaderInv'
  <2>1. PICK quiet \in BOOLEAN : quiet = (reader.quiet /\ ~ disturbed /\ \A r \in Runs : Settled(store'[r]))
    OBVIOUS
  <2>2. PICK expected : expected = {r \in reader.expected : Unaltered(store'[r])}  OBVIOUS
  <2>3. PICK suspect : suspect = {d \in reader.suspect : State(store'[reader.run], d) = "altered"}  OBVIOUS
  <2>4. expected \in SUBSET Runs /\ suspect \in SUBSET Docs
    BY <2>2, <2>3 DEF ReaderInv, ReaderTypes, Requests
  <2>5. Watched(quiet, expected, suspect)
    <3>1. reader.at \notin {"idle", "answered"}  BY <1>3 DEF Asking
    <3> QED  BY <1>3, <2>1, <2>2, <2>3, <3>1 DEF Watch, Watched
  <2>6. Knows(quiet, expected, suspect)  BY <1>3, <2>1, <2>2, <2>3 DEF Knows
  <2> QED  BY <1>3, <2>4, <2>5, <2>6, WatchedNext
<1>4. ~ Asking => reader.at \in {"idle", "answered"}  BY DEF ReaderInv, ReaderTypes, Requests, Asking
<1>5. ~ Asking => UNCHANGED reader  BY <1>4 DEF Moves, Watch
<1> QED  BY <1>1, <1>2, <1>3, <1>5 DEF Moves

-----------------------------------------------------------------------------
(* The request: its own steps.                                             *)

\* An answer: an error only where something was wrong, a listing only with all that was whole.
LEMMA AnsweredNext ==
  ASSUME ReaderInv, Asks, NEW a \in {"not found", "failed", "ok"}, reader' = Answered(a),
         a = "failed" => ~ reader.quiet,
         a = "ok" /\ reader.op # "get" => reader.expected \subseteq reader.got
  PROVE  ReaderInv'
<1>1. PICK rd \in Requests : rd = reader  BY DEF ReaderInv, ReaderTypes
<1>2. PICK q : q = Answered(a)  OBVIOUS
<1>3. /\ q \in Requests /\ q.at = "answered" /\ q.op = rd.op /\ q.got = rd.got /\ q.answer = a
      /\ q.expected = rd.expected /\ q.quiet = rd.quiet /\ q.sound = rd.sound
  <2>1. /\ rd.op \in {"get", "list", "view"} /\ rd.got \in SUBSET Runs /\ rd.expected \in SUBSET Runs
        /\ rd.quiet \in BOOLEAN /\ rd.sound \in BOOLEAN
    BY DEF Requests
  <2>2. q = [at |-> "answered", op |-> rd.op, todo |-> {}, run |-> "none", left |-> {}, second |-> FALSE,
             got |-> rd.got, answer |-> a, suspect |-> {}, expected |-> rd.expected, quiet |-> rd.quiet,
             sound |-> rd.sound]
    BY <1>1, <1>2 DEF Answered, Waiting
  <2> QED  BY <2>1, <2>2 DEF Requests
<1>4. reader' = q /\ UNCHANGED <<store, fate>>
  <2>1. reader' = q  BY <1>2
  <2> QED  BY <2>1 DEF Asks
<1>5. ReaderTypes'  BY <1>3, <1>4 DEF ReaderTypes, AtRun
<1>6. Watching'  BY <1>3, <1>4 DEF Watching, Asking, AtRun
<1>7. Explained'  BY <1>1, <1>3, <1>4 DEF Explained, FailureExplained
<1>8. Sound'  BY <1>1, <1>3, <1>4 DEF ReaderInv, Sound
<1>9. Collected'  BY <1>1, <1>3, <1>4 DEF Collected, ListComplete, Asking
<1> QED  BY <1>5, <1>6, <1>7, <1>8, <1>9 DEF ReaderInv

\* The request goes on with the run at hand, with other files left.
LEMMA RunNext ==
  ASSUME ReaderInv, Asks, AtRun, NEW at \in {"verify", "signature", "read"},
         NEW left \in SUBSET (Docs \cup Item), NEW sound \in BOOLEAN,
         reader' = [reader EXCEPT !.at = at, !.left = left, !.sound = sound],
         IF at = "verify" THEN left \subseteq Item ELSE left \subseteq Docs,
         at = "signature" => Signing,
         reader.quiet => Unaltered(store[reader.run]) /\ (at = "verify" => left \subseteq All),
         (\A r \in Runs : fate[r] # "crossed") =>
           /\ sound
           /\ IF at = "verify" THEN \A d \in reader.suspect : <<d, "good">> \in left ELSE reader.suspect = {}
  PROVE  ReaderInv'
<1>1. PICK rd \in Requests : rd = reader  BY DEF ReaderInv, ReaderTypes
<1>2. PICK q : q = [rd EXCEPT !.at = at, !.left = left, !.sound = sound]  OBVIOUS
<1>3. /\ q \in Requests /\ q.at = at /\ q.left = left /\ q.sound = sound
      /\ q.op = rd.op /\ q.todo = rd.todo /\ q.run = rd.run /\ q.second = rd.second /\ q.got = rd.got
      /\ q.answer = rd.answer /\ q.suspect = rd.suspect /\ q.expected = rd.expected /\ q.quiet = rd.quiet
  BY <1>2 DEF Requests
<1>4. reader' = q /\ UNCHANGED <<store, fate>>  BY <1>1, <1>2 DEF Asks
<1>5. /\ rd.run \in Runs /\ rd.answer = "none" /\ Asking /\ Asking' /\ AtRun'
  BY <1>1, <1>3, <1>4 DEF ReaderInv, ReaderTypes, Asking, AtRun
<1>6. ReaderTypes'  BY <1>3, <1>4, <1>5 DEF ReaderTypes
<1>7. Watching'  BY <1>1, <1>3, <1>4, <1>5 DEF ReaderInv, Watching
<1>8. Explained'  BY <1>1, <1>3, <1>4, <1>5 DEF Explained, FailureExplained
<1>9. Sound'  BY <1>1, <1>3, <1>4 DEF Sound
<1>10. Collected'
  <2>1. rd.op # "get" => \A r \in rd.expected :
          r \in rd.got \/ (~ rd.second /\ (r \in rd.todo \/ r = rd.run))
    BY <1>1, <1>5 DEF ReaderInv, Collected
  <2> QED  BY <1>3, <1>4, <1>5, <2>1 DEF Collected, ListComplete
<1> QED  BY <1>6, <1>7, <1>8, <1>9, <1>10 DEF ReaderInv

\* The request goes on to the next run, with all that was whole behind or before it.
LEMMA OnNext ==
  ASSUME ReaderInv, Asks, Asking, NEW q \in Requests, reader' = q,
         q.at = "next" \/ (q.at = "manifest" /\ q.run \in Runs),
         q.answer = "none", q.op = reader.op, q.expected = reader.expected, q.quiet = reader.quiet,
         q.sound = reader.sound,
         q.at = "manifest" => \A d \in q.suspect : State(store[q.run], d) = "altered",
         q.op # "get" => \A r \in q.expected :
           r \in q.got \/ (~ q.second /\ (r \in q.todo \/ (q.at = "manifest" /\ r = q.run)))
  PROVE  ReaderInv'
<1>1. UNCHANGED <<store, fate>>  BY DEF Asks
<1>2. ReaderTypes'  BY DEF ReaderTypes, AtRun
<1>3. Watching'  BY <1>1 DEF ReaderInv, Watching, Asking, AtRun
<1>4. Explained'  BY DEF Explained, FailureExplained
<1>5. Sound'  BY <1>1 DEF ReaderInv, Sound
<1>6. Collected'  BY DEF Collected, ListComplete, Asking, AtRun
<1> QED  BY <1>2, <1>3, <1>4, <1>5, <1>6 DEF ReaderInv

\* A run that is not there is passed over, or not found.
LEMMA MissingNext ==
  ASSUME ReaderInv, Asks, AtRun, reader' = Missing, ~ Unaltered(store[reader.run])
  PROVE  ReaderInv'
<1>1. PICK rd \in Requests : rd = reader  BY DEF ReaderInv, ReaderTypes
<1>2. Asking  BY DEF Asking, AtRun
<1>3. rd.run \notin rd.expected /\ rd.answer = "none"
  BY <1>1, <1>2 DEF ReaderInv, Watching, ReaderTypes, AtRun
<1>4. CASE reader.op = "get"
  <2>1. reader' = Answered("not found")  BY <1>4 DEF Missing
  <2> QED  BY <2>1, AnsweredNext
<1>5. CASE reader.op # "get"
  <2>1. PICK q : q = [rd EXCEPT !.at = "next"]  OBVIOUS
  <2>2. /\ q \in Requests /\ q.at = "next"
        /\ q.op = rd.op /\ q.todo = rd.todo /\ q.second = rd.second /\ q.got = rd.got
        /\ q.answer = rd.answer /\ q.expected = rd.expected /\ q.quiet = rd.quiet /\ q.sound = rd.sound
    BY <2>1 DEF Requests
  <2>3. reader' = q  BY <1>1, <1>5, <2>1 DEF Missing, To
  <2>4. \A r \in rd.expected : r \in rd.got \/ (~ rd.second /\ r \in rd.todo)
    BY <1>1, <1>2, <1>3, <1>5 DEF ReaderInv, Collected
  <2> QED  BY <1>1, <1>2, <1>3, <2>2, <2>3, <2>4, OnNext
<1> QED  BY <1>4, <1>5

\* A whole publication has its manifest.
LEMMA UnalteredManifest ==
  ASSUME NEW dir, Unaltered(dir)
  PROVE  /\ dir["integrity"] = Good(All) /\ dir["integrity"] # None /\ State(dir, "integrity") = "good"
         /\ dir["integrity"][2] = All
BY AllItems, Written DEF Unaltered, Whole, All, State

LEMMA RequestNext == ASSUME StoreInv, ReaderInv, Request PROVE ReaderInv'
<1>1. PICK op \in {"get", "list", "view"} :
        reader' = [Waiting EXCEPT !.at = "next", !.op = op, !.todo = Published,
                     !.expected = {r \in Runs : Unaltered(store[r])}, !.quiet = \A r \in Runs : Settled(store[r])]
  BY DEF Request
<1>2. PICK todo \in SUBSET Runs : todo = Published  BY DEF Published
<1>3. PICK expected \in SUBSET Runs : expected = {r \in Runs : Unaltered(store[r])}  OBVIOUS
<1>4. PICK quiet \in BOOLEAN : quiet = \A r \in Runs : Settled(store[r])  OBVIOUS
<1>5. PICK q : q = [Waiting EXCEPT !.at = "next", !.op = op, !.todo = todo, !.expected = expected, !.quiet = quiet]
  OBVIOUS
<1>6. q = [at |-> "next", op |-> op, todo |-> todo, run |-> "none", left |-> {}, second |-> FALSE,
           got |-> {}, answer |-> "none", suspect |-> {}, expected |-> expected, quiet |-> quiet, sound |-> TRUE]
  BY <1>5 DEF Waiting
<1>7. /\ q \in Requests /\ q.at = "next" /\ q.todo = todo /\ q.second = FALSE /\ q.answer = "none"
      /\ q.expected = expected /\ q.quiet = quiet /\ q.sound = TRUE
  BY <1>6 DEF Requests
<1>8. reader' = q  BY <1>1, <1>2, <1>3, <1>4, <1>5
<1>9. expected \subseteq todo
  <2>1. ASSUME NEW r \in Runs, Unaltered(store[r]) PROVE pub[r] # 0
    <3>1. Sealed(store[r], pub[r])  BY DEF StoreInv, Directories, RunSound
    <3>2. pub[r] = Done  BY <2>1, <3>1, WholeDone DEF Unaltered
    <3> QED  BY <3>2, Stages
  <2> QED  BY <1>2, <1>3, <2>1 DEF Published
<1>10. UNCHANGED <<store, fate>>  BY DEF Request, Asks
<1>11. ReaderTypes'  BY <1>7, <1>8 DEF ReaderTypes, AtRun
<1>12. Watching'  BY <1>3, <1>4, <1>7, <1>8, <1>10 DEF Watching, AtRun
<1>13. Explained' /\ Sound'  BY <1>7, <1>8 DEF Explained, FailureExplained, Sound
<1>14. Collected'  BY <1>7, <1>8, <1>9 DEF Collected, ListComplete
<1> QED  BY <1>11, <1>12, <1>13, <1>14 DEF ReaderInv

LEMMA NextRunNext == ASSUME ReaderInv, NextRun PROVE ReaderInv'
<1>1. PICK rd \in Requests : rd = reader  BY DEF ReaderInv, ReaderTypes
<1>2. Asks /\ Asking /\ ~ AtRun /\ rd.answer = "none"
  BY <1>1 DEF NextRun, Asking, AtRun, ReaderInv, ReaderTypes
<1>3. rd.op # "get" => \A r \in rd.expected : r \in rd.got \/ (~ rd.second /\ r \in rd.todo)
  BY <1>1, <1>2 DEF ReaderInv, Collected
<1>4. ASSUME NEW r \in rd.todo, NEW rest \in SUBSET Runs, Look(r, rest),
             rd.op # "get" => rd.todo \subseteq rest \cup {r}
      PROVE  ReaderInv'
  <2>1. r \in Runs  BY DEF Requests
  <2>2. PICK suspect \in SUBSET Docs : suspect = {d \in Docs : State(store[r], d) = "altered"}  OBVIOUS
  <2>3. PICK q : q = [rd EXCEPT !.at = "manifest", !.run = r, !.todo = rest, !.suspect = suspect]  OBVIOUS
  <2>4. /\ q \in Requests /\ q.at = "manifest" /\ q.run = r /\ q.todo = rest /\ q.suspect = suspect
        /\ q.op = rd.op /\ q.second = rd.second /\ q.got = rd.got /\ q.answer = rd.answer
        /\ q.expected = rd.expected /\ q.quiet = rd.quiet /\ q.sound = rd.sound
    BY <2>1, <2>3 DEF Requests
  <2>5. reader' = q  BY <1>1, <1>4, <2>2, <2>3 DEF Look, To
  <2>6. q.op # "get" => \A x \in q.expected :
          x \in q.got \/ (~ q.second /\ (x \in q.todo \/ (q.at = "manifest" /\ x = q.run)))
    BY <1>3, <1>4, <2>4
  <2> QED  BY <1>1, <1>2, <2>1, <2>2, <2>4, <2>5, <2>6, OnNext
<1>5. ASSUME rd.todo = {}, rd.op = "view", ~ rd.second,
             reader' = [To("next") EXCEPT !.todo = reader.got, !.second = TRUE]
      PROVE  ReaderInv'
  <2>1. PICK q : q = [rd EXCEPT !.at = "next", !.todo = rd.got, !.second = TRUE]  OBVIOUS
  <2>2. /\ q \in Requests /\ q.at = "next" /\ q.op = rd.op /\ q.got = rd.got /\ q.answer = rd.answer
        /\ q.expected = rd.expected /\ q.quiet = rd.quiet /\ q.sound = rd.sound
    BY <2>1 DEF Requests
  <2>3. reader' = q  BY <1>1, <1>5, <2>1 DEF To
  <2> QED  BY <1>1, <1>2, <1>3, <1>5, <2>2, <2>3, OnNext
<1>6. ASSUME rd.todo = {}, reader' = Answered(IF reader.op = "get" /\ reader.got = {} THEN "not found" ELSE "ok")
      PROVE  ReaderInv'
  <2>1. PICK a \in {"not found", "failed", "ok"} :
          a = IF reader.op = "get" /\ reader.got = {} THEN "not found" ELSE "ok"
    OBVIOUS
  <2>2. a # "failed" /\ (reader.op # "get" => reader.expected \subseteq reader.got)  BY <1>1, <1>3, <1>6, <2>1
  <2>3. reader' = Answered(a)  BY <1>6, <2>1
  <2> QED  BY <1>2, <2>2, <2>3, AnsweredNext
<1>7. CASE \E r \in rd.todo :
             IF rd.op = "get" THEN Look(r, {}) ELSE First(RunOrder, r, rd.todo) /\ Look(r, rd.todo \ {r})
  <2>1. PICK r \in rd.todo :
          IF rd.op = "get" THEN Look(r, {}) ELSE First(RunOrder, r, rd.todo) /\ Look(r, rd.todo \ {r})
    BY <1>7
  <2>2. {} \in SUBSET Runs /\ rd.todo \ {r} \in SUBSET Runs  BY DEF Requests
  <2>3. CASE rd.op = "get"
    <3>1. Look(r, {})  BY <2>1, <2>3
    <3> QED  BY <1>4, <2>2, <2>3, <3>1
  <2>4. CASE rd.op # "get"
    <3>1. PICK rest \in SUBSET Runs : rest = rd.todo \ {r}  BY <2>2
    <3>2. Look(r, rest)  BY <2>1, <2>4, <3>1
    <3> QED  BY <1>4, <3>1, <3>2
  <2> QED  BY <2>3, <2>4
<1> QED  BY <1>1, <1>5, <1>6, <1>7 DEF NextRun

LEMMA ReadManifestNext == ASSUME StoreInv, ReaderInv, ReadManifest PROVE ReaderInv'
<1>1. PICK rd \in Requests : rd = reader  BY DEF ReaderInv, ReaderTypes
<1>2. Asks /\ AtRun /\ Asking /\ rd.at = "manifest"  BY <1>1 DEF ReadManifest, AtRun, Asking
<1>3. rd.run \in Runs  BY <1>1, <1>2 DEF ReaderInv, ReaderTypes
<1>4. PICK manifest \in Content : manifest = store[rd.run]["integrity"]
  BY <1>3, NamesApart DEF StoreInv, Types, Dir
<1>5. reader' = IF manifest = None THEN Missing
                ELSE IF manifest[1] = "torn" THEN Broken
                ELSE [To("verify") EXCEPT !.left = manifest[2]]
  BY <1>1, <1>4 DEF ReadManifest
<1>6. Unaltered(store[rd.run]) => manifest # None /\ manifest[1] = "good" /\ manifest[2] = All
  BY <1>4, UnalteredManifest DEF State
<1>7. rd.quiet /\ manifest # None => Unaltered(store[rd.run])
  BY <1>1, <1>2, <1>3, <1>4 DEF ReaderInv, Watching, Settled
<1>8. CASE manifest = None
  <2>1. reader' = Missing  BY <1>5, <1>8
  <2> QED  BY <1>1, <1>2, <1>6, <1>8, <2>1, MissingNext
<1>9. CASE manifest # None /\ manifest[1] = "torn"
  <2>1. reader' = Answered("failed")  BY <1>5, <1>9 DEF Broken
  <2> QED  BY <1>1, <1>2, <1>6, <1>7, <1>9, <2>1, AnsweredNext
<1>10. CASE manifest # None /\ manifest[1] # "torn"
  <2>1. PICK left \in SUBSET Item : left = manifest[2]  BY Contents
  <2>2. reader' = [rd EXCEPT !.at = "verify", !.left = left, !.sound = rd.sound]
    BY <1>1, <1>5, <1>10, <2>1 DEF To, Requests
  <2>3. rd.quiet => Unaltered(store[rd.run]) /\ left \subseteq All  BY <1>6, <1>7, <1>10, <2>1
  <2>4. ASSUME \A r \in Runs : fate[r] # "crossed"
        PROVE  rd.sound /\ \A d \in rd.suspect : <<d, "good">> \in left
    <3>1. Lists(store[rd.run])  BY <1>3, <2>4 DEF StoreInv, Directories, RunSound
    <3>2. left = All  BY <1>4, <1>10, <2>1, <3>1 DEF Lists
    <3>3. rd.sound  BY <1>1, <2>4 DEF ReaderInv, Sound
    <3>4. rd.suspect \subseteq Docs  BY DEF Requests
    <3> QED  BY <3>2, <3>3, <3>4 DEF All
  <2>5. left \in SUBSET (Docs \cup Item) /\ rd.sound \in BOOLEAN  BY DEF Requests
  <2> QED  BY <1>1, <1>2, <2>2, <2>3, <2>4, <2>5, RunNext
<1> QED  BY <1>8, <1>9, <1>10

\* What a request that has read the manifest knows of the run at hand.
LEMMA RunFacts ==
  ASSUME ReaderInv, NEW rd \in Requests, rd = reader, rd.at \in {"verify", "signature", "read"}
  PROVE  /\ AtRun /\ Asking /\ rd.run \in Runs /\ rd.suspect \subseteq Docs
         /\ rd.quiet => Unaltered(store[rd.run])
         /\ (\A r \in Runs : fate[r] # "crossed") => rd.sound
         /\ \A d \in rd.suspect : State(store[rd.run], d) = "altered"
<1>1. AtRun /\ Asking  BY DEF AtRun, Asking
<1>2. rd.run \in Runs /\ rd.suspect \subseteq Docs  BY <1>1 DEF ReaderInv, ReaderTypes, Requests
<1>3. rd.quiet => Unaltered(store[rd.run])  BY DEF ReaderInv, Explained
<1>4. (\A r \in Runs : fate[r] # "crossed") => rd.sound  BY DEF ReaderInv, Sound
<1>5. \A d \in rd.suspect : State(store[rd.run], d) = "altered"  BY <1>1 DEF ReaderInv, Watching
<1> QED  BY <1>1, <1>2, <1>3, <1>4, <1>5

LEMMA VerifyDigestNext == ASSUME ReaderInv, VerifyDigest PROVE ReaderInv'
<1>1. PICK rd \in Requests : rd = reader  BY DEF ReaderInv, ReaderTypes
<1>2. Asks /\ rd.at = "verify"  BY <1>1 DEF VerifyDigest
<1>3. /\ AtRun /\ Asking /\ rd.run \in Runs /\ rd.suspect \subseteq Docs
      /\ rd.quiet => Unaltered(store[rd.run])
      /\ (\A r \in Runs : fate[r] # "crossed") => rd.sound
      /\ \A d \in rd.suspect : State(store[rd.run], d) = "altered"
  BY <1>1, <1>2, RunFacts
<1>4. /\ rd.left \subseteq Item /\ (rd.quiet => rd.left \subseteq All)
      /\ (\A r \in Runs : fate[r] # "crossed") => \A d \in rd.suspect : <<d, "good">> \in rd.left
  BY <1>1, <1>2 DEF ReaderInv, ReaderTypes, Explained, Sound
<1>5. rd.sound \in BOOLEAN  BY DEF Requests
<1>6. ASSUME rd.left = {}, reader' = [To(IF Signing THEN "signature" ELSE "read") EXCEPT !.left = Docs]
      PROVE  ReaderInv'
  <2>1. PICK at \in {"signature", "read"} : at = IF Signing THEN "signature" ELSE "read"
    BY StoreAssumption
  <2>2. reader' = [rd EXCEPT !.at = at, !.left = Docs, !.sound = rd.sound]
    BY <1>1, <1>6, <2>1 DEF To, Requests
  <2>3. (\A r \in Runs : fate[r] # "crossed") => rd.suspect = {}  BY <1>4, <1>6
  <2>4. Docs \in SUBSET (Docs \cup Item) /\ (at = "signature" => Signing)  BY <2>1
  <2> QED  BY <1>1, <1>2, <1>3, <1>5, <2>1, <2>2, <2>3, <2>4, RunNext
<1>7. ASSUME NEW item \in rd.left, Mismatch(item), reader' = Broken PROVE ReaderInv'
  <2>1. reader' = Answered("failed")  BY <1>7 DEF Broken
  <2>2. State(store[rd.run], item[1]) # item[2]  BY <1>1, <1>7 DEF Mismatch
  <2>3. ~ rd.quiet
    <3>1. SUFFICES ASSUME rd.quiet PROVE FALSE
      OBVIOUS
    <3>2. item \in All /\ Unaltered(store[rd.run])  BY <1>3, <1>4, <3>1
    <3> QED  BY <2>2, <3>2 DEF All, Unaltered
  <2> QED  BY <1>1, <1>2, <2>1, <2>3, AnsweredNext
<1>8. ASSUME NEW item \in rd.left, ~ Mismatch(item), reader' = [reader EXCEPT !.left = @ \ {item}]
      PROVE  ReaderInv'
  <2>1. PICK left : left = rd.left \ {item}  OBVIOUS
  <2>2. left \in SUBSET Item /\ left \in SUBSET (Docs \cup Item)  BY <1>4, <2>1
  <2>3. reader' = [rd EXCEPT !.at = "verify", !.left = left, !.sound = rd.sound]
    BY <1>1, <1>2, <1>8, <2>1 DEF Requests
  <2>4. State(store[rd.run], item[1]) = item[2]  BY <1>1, <1>8 DEF Mismatch
  <2>5. \A d \in rd.suspect : item # <<d, "good">>
    <3>1. SUFFICES ASSUME NEW d \in rd.suspect, item = <<d, "good">> PROVE FALSE
      OBVIOUS
    <3>2. item[1] = d /\ item[2] = "good"  BY <3>1
    <3>3. State(store[rd.run], d) = "altered"  BY <1>3
    <3> QED  BY <2>4, <3>2, <3>3
  <2>6. (\A r \in Runs : fate[r] # "crossed") => \A d \in rd.suspect : <<d, "good">> \in left
    BY <1>4, <2>1, <2>5
  <2>7. rd.quiet => Unaltered(store[rd.run]) /\ left \subseteq All  BY <1>3, <1>4, <2>1
  <2> QED  BY <1>1, <1>2, <1>3, <1>5, <2>2, <2>3, <2>6, <2>7, RunNext
<1>9. \/ reader.left = {} /\ reader' = [To(IF Signing THEN "signature" ELSE "read") EXCEPT !.left = Docs]
      \/ \E item \in reader.left : reader' = IF Mismatch(item) THEN Broken ELSE [reader EXCEPT !.left = @ \ {item}]
  BY DEF VerifyDigest
<1> QED  BY <1>1, <1>6, <1>7, <1>8, <1>9

LEMMA VerifySignatureNext == ASSUME ReaderInv, VerifySignature PROVE ReaderInv'
<1>1. PICK rd \in Requests : rd = reader  BY DEF ReaderInv, ReaderTypes
<1>2. Asks /\ rd.at = "signature"  BY <1>1 DEF VerifySignature
<1>3. /\ AtRun /\ rd.run \in Runs /\ (rd.quiet => Unaltered(store[rd.run]))
      /\ (\A r \in Runs : fate[r] # "crossed") => rd.sound
  BY <1>1, <1>2, RunFacts
<1>4. Signing /\ rd.left \subseteq Docs /\ rd.sound \in BOOLEAN
      /\ ((\A r \in Runs : fate[r] # "crossed") => rd.suspect = {})
  BY <1>1, <1>2 DEF ReaderInv, ReaderTypes, Requests, Sound
<1>5. PICK dir : dir = store[rd.run]  OBVIOUS
<1>6. reader' = IF State(dir, "integrity") = "good" /\ State(dir, "signature") = "good" THEN To("read") ELSE Broken
  BY <1>1, <1>5 DEF VerifySignature
<1>7. CASE State(dir, "integrity") = "good" /\ State(dir, "signature") = "good"
  <2>1. reader' = [rd EXCEPT !.at = "read", !.left = rd.left, !.sound = rd.sound]
    BY <1>1, <1>6, <1>7 DEF To, Requests
  <2>2. rd.left \in SUBSET (Docs \cup Item)  BY <1>4
  <2> QED  BY <1>1, <1>2, <1>3, <1>4, <2>1, <2>2, RunNext
<1>8. CASE ~ (State(dir, "integrity") = "good" /\ State(dir, "signature") = "good")
  <2>1. reader' = Answered("failed")  BY <1>6, <1>8 DEF Broken
  <2>2. Unaltered(dir) => State(dir, "integrity") = "good" /\ State(dir, "signature") = "good"
    BY <1>4, UnalteredManifest DEF Unaltered, Whole
  <2>3. ~ rd.quiet  BY <1>3, <1>5, <1>8, <2>2
  <2> QED  BY <1>1, <1>2, <2>1, <2>3, AnsweredNext
<1> QED  BY <1>7, <1>8

LEMMA ReadDocumentNext == ASSUME ReaderInv, ReadDocument PROVE ReaderInv'
<1>1. PICK rd \in Requests : rd = reader  BY DEF ReaderInv, ReaderTypes
<1>2. Asks /\ rd.at = "read"  BY <1>1 DEF ReadDocument
<1>3. /\ AtRun /\ Asking /\ rd.run \in Runs /\ (rd.quiet => Unaltered(store[rd.run]))
      /\ (\A r \in Runs : fate[r] # "crossed") => rd.sound
  BY <1>1, <1>2, RunFacts
<1>4. rd.left \subseteq Docs /\ rd.sound \in BOOLEAN /\ rd.answer = "none"
      /\ ((\A r \in Runs : fate[r] # "crossed") => rd.suspect = {})
  BY <1>1, <1>2 DEF ReaderInv, ReaderTypes, Requests, Sound
<1>5. ASSUME reader' = [To("next") EXCEPT !.got = @ \cup {reader.run}, !.run = "none", !.suspect = {}]
      PROVE  ReaderInv'
  <2>1. PICK got \in SUBSET Runs : got = rd.got \cup {rd.run}  BY <1>3 DEF Requests
  <2>2. PICK q : q = [rd EXCEPT !.at = "next", !.got = got, !.run = "none", !.suspect = {}]  OBVIOUS
  <2>3. /\ q \in Requests /\ q.at = "next" /\ q.got = got /\ q.op = rd.op /\ q.todo = rd.todo
        /\ q.second = rd.second /\ q.answer = rd.answer /\ q.expected = rd.expected /\ q.quiet = rd.quiet
        /\ q.sound = rd.sound
    BY <2>2 DEF Requests
  <2>4. reader' = q  BY <1>1, <1>5, <2>1, <2>2 DEF To, Requests
  <2>5. rd.op # "get" => \A r \in rd.expected : r \in got \/ (~ rd.second /\ r \in rd.todo)
    BY <1>1, <1>3, <2>1 DEF ReaderInv, Collected
  <2> QED  BY <1>1, <1>2, <1>3, <1>4, <2>3, <2>4, <2>5, OnNext
<1>6. ASSUME NEW d \in rd.left,
             LET content == State(store[reader.run], d) IN
             reader' = IF content = "none" THEN Missing ELSE IF content = "torn" THEN Broken
                       ELSE [reader EXCEPT !.left = @ \ {d}, !.sound = @ /\ d \notin reader.suspect]
      PROVE  ReaderInv'
  <2>1. PICK content : content = State(store[rd.run], d)  OBVIOUS
  <2>2. Unaltered(store[rd.run]) => content = "good"  BY <1>4, <2>1 DEF Unaltered
  <2>3. CASE content = "none"
    <3>1. reader' = Missing  BY <1>1, <1>6, <2>1, <2>3
    <3> QED  BY <1>1, <1>2, <1>3, <2>2, <2>3, <3>1, MissingNext
  <2>4. CASE content = "torn"
    <3>1. reader' = Answered("failed")  BY <1>1, <1>6, <2>1, <2>4 DEF Broken
    <3>2. ~ rd.quiet  BY <1>3, <2>2, <2>4
    <3> QED  BY <1>1, <1>2, <3>1, <3>2, AnsweredNext
  <2>5. CASE content \notin {"none", "torn"}
    <3>1. PICK left : left = rd.left \ {d}  OBVIOUS
    <3>2. PICK sound \in BOOLEAN : sound = (rd.sound /\ d \notin rd.suspect)  BY <1>4
    <3>3. reader' = [reader EXCEPT !.left = @ \ {d}, !.sound = @ /\ d \notin reader.suspect]
      BY <1>1, <1>6, <2>1, <2>5
    <3>4. reader' = [rd EXCEPT !.at = "read", !.left = left, !.sound = sound]
      BY <1>1, <1>2, <3>1, <3>2, <3>3 DEF Requests
    <3>5. (\A r \in Runs : fate[r] # "crossed") => sound /\ rd.suspect = {}  BY <1>3, <1>4, <3>2
    <3>6. left \in SUBSET (Docs \cup Item) /\ left \subseteq Docs  BY <1>4, <3>1
    <3> QED  BY <1>1, <1>2, <1>3, <3>4, <3>5, <3>6, RunNext
  <2> QED  BY <2>3, <2>4, <2>5
<1> QED  BY <1>1, <1>5, <1>6 DEF ReadDocument

LEMMA ReplyNext == ASSUME Reply PROVE ReaderInv'
<1>1. PICK rd : rd = Waiting  OBVIOUS
<1>2. rd \in Requests /\ rd.at = "idle" /\ rd.answer = "none" /\ rd.sound = TRUE
  BY <1>1 DEF Waiting, Requests
<1>3. reader' = rd  BY <1>1 DEF Reply
<1>4. ReaderTypes'  BY <1>2, <1>3 DEF ReaderTypes, AtRun
<1>5. Watching' /\ Explained' /\ Sound' /\ Collected'
  BY <1>2, <1>3 DEF Watching, Explained, FailureExplained, Sound, Collected, ListComplete, Asking, AtRun
<1> QED  BY <1>4, <1>5 DEF ReaderInv

\* Every step preserves the invariant of the request.
LEMMA ReaderNext == StoreInv /\ ReaderInv /\ [Next]_vars => ReaderInv'
<1> SUFFICES ASSUME StoreInv, ReaderInv, [Next]_vars PROVE ReaderInv'
  OBVIOUS
<1>1. CASE UNCHANGED vars
  <2>1. Moves /\ Crossing  BY <1>1 DEF vars, Moves, Crossing
  <2> QED  BY <2>1, MovesNext
<1>2. ASSUME NEW r \in Runs, Publish(r) PROVE ReaderInv'  BY <1>2, PublishMoves, MovesNext
<1>3. CASE Maintenance \/ Damage  BY <1>3, MaintenanceMoves, MovesNext
<1>4. CASE Read
  BY <1>4, RequestNext, NextRunNext, ReadManifestNext, VerifyDigestNext, VerifySignatureNext, ReadDocumentNext,
     ReplyNext DEF Read
<1> QED  BY <1>1, <1>2, <1>3, <1>4 DEF Next

LEMMA ReaderInvariant == Spec => []ReaderInv
<1> QED  BY InitStore, StoreNext, InitReader, ReaderNext, PTL DEF Spec

\* Whatever publications, retention, backup and restore do between the check of a file and
\* its reading: no answer has a document that was altered before its run was looked at,
\* unless a restore has met the publication half-way (getPublication).
THEOREM AnswersAreSound == Spec => []ReadSound
<1>1. ReaderInv => ReadSound  BY DEF ReaderInv, Sound, ReadSound
<1> QED  BY <1>1, ReaderInvariant, PTL

\* A listing that succeeds has every publication that was whole from its beginning to
\* its end, however many others come, go or are abandoned meanwhile (listRuns).
THEOREM ListingsAreComplete == Spec => []ListComplete
<1>1. ReaderInv => ListComplete  BY DEF ReaderInv, Collected
<1> QED  BY <1>1, ReaderInvariant, PTL

\* A request that fails met a directory with which something was wrong: neither another
\* publication nor one that never got its manifest makes a request fail (listRuns,
\* getPublication).
THEOREM FailuresHaveReasons == Spec => []FailureExplained
<1>1. ReaderInv => FailureExplained  BY DEF ReaderInv, Explained
<1> QED  BY <1>1, ReaderInvariant, PTL
=============================================================================
