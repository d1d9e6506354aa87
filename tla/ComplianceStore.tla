-------------------------- MODULE ComplianceStore --------------------------
(***************************************************************************)
(* The compliance store (src/src/compliance): one directory for a          *)
(* publication, written file by file while the compliance API and the web  *)
(* console read, retention removes what has expired, and backup and        *)
(* restore (src/src/enterprise/backup.ts) copy the store out and in.       *)
(* All of them are processes of their own that share only the files.       *)
(***************************************************************************)
EXTENDS Naturals, Sequences, FiniteSets

CONSTANTS
  RunOrder,    \* the runs of one tenant and project, whose directory no other shares, in the order of their names
  FileOrder,   \* the files of a publication, in the order a directory lists them
  Documents,   \* the documents of a publication, in the order they are written
  Signing,     \* BOOLEAN: evidence signing keys are configured
  MaxOps,      \* bound: maintenance operations
  MaxDamage    \* bound: documents altered on disk

Runs == {RunOrder[i] : i \in DOMAIN RunOrder}
Docs == {Documents[i] : i \in DOMAIN Documents}
Names == Docs \cup {"integrity", "signature"}

ASSUME StoreAssumption ==
  /\ RunOrder \in Seq(Runs) /\ FileOrder \in Seq(Names) /\ Documents \in Seq(Docs)
  /\ {FileOrder[i] : i \in DOMAIN FileOrder} = Names
  /\ Len(Documents) > 0 /\ Documents[1] = "summary"
  /\ {"integrity", "signature", "temporary"} \cap Docs = {}
  /\ Signing \in BOOLEAN /\ MaxOps \in Nat /\ MaxDamage \in Nat

VARIABLES
  store,    \* files of each run: what is in them
  pub,      \* how far the publication of each run has come
  old,      \* runs that have outlived the retention period
  maint,    \* the maintenance operation under way
  backup,   \* the latest backup
  fate,     \* history: whether maintenance has removed a run, or met its publication
  reader,   \* the request being answered
  damage    \* documents altered so far

vars == <<store, pub, old, maint, backup, fate, reader, damage>>

\* A file: its state, and for a manifest the documents it lists with the digest each had.
None == <<"none", {}>>
Torn(listed) == <<"torn", listed>>
Good(listed) == <<"good", listed>>
Altered == <<"altered", {}>>
Empty == [n \in Names |-> None]
State(dir, n) == dir[n][1]
Present(dir) == {n \in Names : dir[n] # None}
Digests(dir) == {<<d, State(dir, d)>> : d \in Present(dir) \ {"integrity", "signature"}}

\* Stages of a publication: the documents, then the manifest and its signature.
ToList == Len(Documents) + 1
Listing == ToList + 1
ToSign == ToList + 2
Signature == ToList + 3
Done == ToList + 4
Failed == ToList + 5

Whole(dir) ==
  /\ \A d \in Docs : State(dir, d) \in {"good", "altered"}
  /\ dir["integrity"] = Good({<<d, "good">> : d \in Docs})
  /\ Signing => State(dir, "signature") = "good"
Unaltered(dir) == Whole(dir) /\ \A d \in Docs : State(dir, d) = "good"

\* Nothing is wrong with a directory: it is whole, or not a publication yet.
Settled(dir) == Unaltered(dir) \/ dir["integrity"] = None

Waiting ==
  [at |-> "idle", op |-> "get", todo |-> {}, run |-> "none", left |-> {}, second |-> FALSE,
   got |-> {}, answer |-> "none", suspect |-> {}, expected |-> {}, quiet |-> TRUE, sound |-> TRUE]

Init ==
  /\ store = [r \in Runs |-> Empty] /\ backup = store
  /\ pub = [r \in Runs |-> 0] /\ fate = [r \in Runs |-> "kept"]
  /\ old = {} /\ damage = 0
  /\ maint = [op |-> "none", runs |-> {}, files |-> {}, stage |-> 0, owed |-> {}, result |-> "none", n |-> 0]
  /\ reader = Waiting

-----------------------------------------------------------------------------
(* What a step does to the files while a request is being answered: whether *)
(* something was ever wrong with a directory, which publications were whole *)
(* all the time, which documents of the run at hand were altered all the    *)
(* time.                                                                   *)

Watch(disturbed) ==
  reader' = IF reader.at \in {"idle", "answered"} THEN reader
            ELSE [reader EXCEPT
                    !.quiet = @ /\ ~disturbed /\ \A r \in Runs : Settled(store'[r]),
                    !.expected = {r \in @ : Unaltered(store'[r])},
                    !.suspect = {d \in @ : State(store'[reader.run], d) = "altered"}]

Put(r, n, content) == store' = [store EXCEPT ![r][n] = content] /\ Watch(FALSE)

(* LocalComplianceStore.publish.  Run IDs are random: nobody publishes one  *)
(* twice.                                                                  *)

Restoring == maint.op \in {"clear", "restore"}
Stage(r, s) ==
  /\ pub' = [pub EXCEPT ![r] = s]
  /\ fate' = IF Restoring THEN [fate EXCEPT ![r] = "crossed"] ELSE fate
  /\ UNCHANGED <<old, maint, backup, damage>>

MakeDirectory(r) ==
  /\ pub[r] = 0
  /\ Stage(r, 1) /\ UNCHANGED <<store, reader>>

\* atomicJson makes the directory again if it has gone.
WriteDocument(r) ==
  /\ pub[r] \in DOMAIN Documents
  /\ Put(r, Documents[pub[r]], Good({})) /\ Stage(r, pub[r] + 1)

\* writeIntegrityManifest lists what is in the directory.
ListDocuments(r) ==
  /\ pub[r] = ToList /\ Present(store[r]) # {}
  /\ Put(r, "integrity", Torn(Digests(store[r]))) /\ Stage(r, Listing)

\* Ends the writing of a file, which may have been unlinked in between.
Close(r, n) ==
  IF State(store[r], n) = "torn" THEN Put(r, n, Good(store[r][n][2])) ELSE UNCHANGED <<store, reader>>

CloseManifest(r) ==
  /\ pub[r] = Listing
  /\ Close(r, "integrity") /\ Stage(r, IF Signing THEN ToSign ELSE Done)

OpenSignature(r) ==
  /\ pub[r] = ToSign /\ State(store[r], "integrity") = "good"
  /\ Put(r, "signature", Torn({})) /\ Stage(r, Signature)

CloseSignature(r) ==
  /\ pub[r] = Signature
  /\ Close(r, "signature") /\ Stage(r, Done)

\* Any of these fails, or the process is killed: the directory stays as it is.
AbandonPublication(r) ==
  /\ pub[r] \in 1 .. Signature
  /\ Stage(r, Failed) /\ UNCHANGED <<store, reader>>

Publish(r) ==
  \/ MakeDirectory(r) \/ WriteDocument(r) \/ ListDocuments(r) \/ CloseManifest(r)
  \/ OpenSignature(r) \/ CloseSignature(r) \/ AbandonPublication(r)

-----------------------------------------------------------------------------
(* Maintenance: one operation at a time, which goes through the runs and    *)
(* the files that each had when it was opened.                             *)

Finish(result) ==
  maint' = [maint EXCEPT !.op = "none", !.runs = {}, !.files = {}, !.stage = 0, !.result = result]
Start(op, owed) ==
  /\ maint.op = "none" /\ maint.n < MaxOps
  /\ maint' = [op |-> op, runs |-> Runs, files |-> {}, stage |-> 0, owed |-> owed, result |-> "none", n |-> maint.n + 1]

\* Of the names in S, x is the first one.
First(order, x, S) ==
  x \in S /\ \E i \in DOMAIN order : order[i] = x /\ \A j \in 1 .. (i - 1) : order[j] \notin S

\* The run and the file whose turn it is; a temporary file comes last.
Turn(r) == First(RunOrder, r, maint.runs)
FileTurn(n) == First(FileOrder, n, maint.files) \/ (n = "temporary" /\ maint.files = {n})

Opening(op, r) == maint.op = op /\ maint.files = {} /\ Turn(r)
Inside(op, r, n) == maint.op = op /\ Turn(r) /\ FileTurn(n)
Over(op) == maint.op = op /\ maint.runs = {}

Handle(r, files) ==
  maint' = IF files = {} THEN [maint EXCEPT !.runs = @ \ {r}, !.files = {}, !.stage = 0]
                         ELSE [maint EXCEPT !.files = files]
NextFile(r, n) == Handle(r, maint.files \ {n})

Still == UNCHANGED <<pub, old, damage>>
Remove(r, n) == store' = [store EXCEPT ![r][n] = None] /\ Watch(TRUE) /\ NextFile(r, n)

\* Runs that were published long enough ago have outlived their period by then.
StartRetention ==
  /\ Start("retention", {})
  /\ \E aged \in SUBSET {r \in Runs : pub[r] = Done} : old' = old \cup aged
  /\ UNCHANGED <<store, pub, damage, backup, fate, reader>>

\* Mutant of Expired: the age of a run is not looked at.
ExpiredByListing(r) == TRUE

Expired(r) == r \in old

\* applyComplianceRetention: no summary means no publication, one that cannot be
\* parsed ends the whole operation; a run that is too old is removed.
Inspect(r) ==
  /\ Opening("retention", r)
  /\ LET summary == State(store[r], "summary") IN
     /\ IF summary = "torn" THEN Finish("failed")
        ELSE Handle(r, IF summary # "none" /\ Expired(r) THEN Present(store[r]) ELSE {})
     /\ fate' = IF r \in old /\ summary \notin {"none", "torn"} /\ fate[r] = "kept"
                THEN [fate EXCEPT ![r] = "removed"] ELSE fate
  /\ Still /\ UNCHANGED <<store, backup, reader>>

Retire ==
  /\ \/ \E r \in Runs, n \in Names : Inside("retention", r, n) /\ Remove(r, n)
     \/ Over("retention") /\ Finish("done") /\ UNCHANGED <<store, reader>>
  /\ Still /\ UNCHANGED <<backup, fate>>

StartBackup ==
  /\ Start("backup", {r \in Runs : Whole(store[r])})
  /\ backup' = [r \in Runs |-> Empty]
  /\ Still /\ UNCHANGED <<store, fate, reader>>

\* What cp finds in a run's directory, possibly with the temporary file of the
\* document that is being written.
OpenForBackup(r) ==
  /\ Opening("backup", r)
  /\ \/ Handle(r, Present(store[r]))
     \/ /\ pub[r] \in DOMAIN Documents
        /\ maint' = [maint EXCEPT !.files = Present(store[r]) \cup {"temporary"}, !.stage = pub[r]]
  /\ Still /\ UNCHANGED <<store, backup, fate, reader>>

\* createBackup copies a file as it is when its turn comes.  It takes the absence of
\* any file for the absence of the whole store, and reports the backup as created all
\* the same, here "cut short".
CopyOut ==
  /\ \/ \E r \in Runs, n \in Names :
          Inside("backup", r, n) /\ NextFile(r, n) /\ backup' = [backup EXCEPT ![r][n] = store[r][n]]
     \/ \E r \in Runs :
          /\ Inside("backup", r, "temporary") /\ UNCHANGED backup
          /\ IF pub[r] = maint.stage THEN NextFile(r, "temporary") ELSE Finish("cut short")
     \/ Over("backup") /\ Finish("created") /\ UNCHANGED backup
  /\ Still /\ UNCHANGED <<store, fate, reader>>

\* An operator restores a backup that was reported as created.  restoreBackup leaves
\* the store alone when the backup has none.
StartRestore ==
  /\ maint.result \in {"created", "cut short"} /\ backup # [r \in Runs |-> Empty] /\ Start("clear", {})
  /\ fate' = [r \in Runs |-> IF pub[r] \in 1 .. Signature THEN "crossed"
                             ELSE IF fate[r] = "kept" /\ pub[r] # 0 THEN "removed" ELSE fate[r]]
  /\ Still /\ UNCHANGED <<store, backup, reader>>

\* rm -r: files that came in meanwhile make it fail.
Clear ==
  /\ \/ \E r \in Runs : Opening("clear", r) /\ Handle(r, Present(store[r])) /\ UNCHANGED <<store, reader>>
     \/ \E r \in Runs, n \in Names : Inside("clear", r, n) /\ Remove(r, n)
     \/ /\ Over("clear")
        /\ IF \A r \in Runs : store[r] = Empty
           THEN maint' = [maint EXCEPT !.op = "restore", !.runs = Runs] ELSE Finish("failed")
        /\ UNCHANGED <<store, reader>>
  /\ Still /\ UNCHANGED <<backup, fate>>

\* A file is torn while it is copied.
CopyFile(r, n) ==
  LET content == backup[r][n] IN
  IF State(store[r], n) = "torn" \/ content[1] = "torn"
  THEN NextFile(r, n) /\ Put(r, n, content)
  ELSE UNCHANGED maint /\ Put(r, n, Torn(content[2]))

\* At the end the store has again what the backup has whole.
CopyIn ==
  /\ \/ \E r \in Runs :
          Opening("restore", r) /\ Handle(r, Present(backup[r])) /\ UNCHANGED <<store, reader, fate>>
     \/ \E r \in Runs, n \in Names : Inside("restore", r, n) /\ CopyFile(r, n) /\ UNCHANGED fate
     \/ /\ Over("restore") /\ Finish("done") /\ UNCHANGED <<store, reader>>
        /\ fate' = [r \in Runs |-> IF fate[r] = "removed" /\ Whole(backup[r]) THEN "kept" ELSE fate[r]]
  /\ Still /\ UNCHANGED backup

\* The operation fails or is killed.
Die ==
  /\ maint.op # "none" /\ Finish("failed")
  /\ Still /\ UNCHANGED <<store, backup, fate, reader>>

Maintenance ==
  \/ (\E r \in Runs : Inspect(r) \/ OpenForBackup(r))
  \/ StartRetention \/ Retire \/ StartBackup \/ CopyOut
  \/ StartRestore \/ Clear \/ CopyIn \/ Die

\* A document is altered on disk.
Damage ==
  /\ damage < MaxDamage /\ damage' = damage + 1
  /\ \E r \in Runs, d \in Docs : pub[r] = Done /\ State(store[r], d) = "good" /\ Put(r, d, Altered)
  /\ UNCHANGED <<pub, old, maint, backup, fate>>

-----------------------------------------------------------------------------
(* A request to the compliance API or the web console: one run, the list of *)
(* the runs, or a view (findings, dashboard) that lists them and then *)
(* reads each again.                                                       *)

Asks == UNCHANGED <<store, pub, old, maint, backup, fate, damage>>
To(at) == [reader EXCEPT !.at = at]
Answered(a) == [Waiting EXCEPT !.at = "answered", !.op = reader.op, !.got = reader.got, !.answer = a,
                               !.expected = reader.expected, !.quiet = reader.quiet, !.sound = reader.sound]

Published == {r \in Runs : pub[r] # 0}
Request ==
  /\ reader.at = "idle"
  /\ \E op \in {"get", "list", "view"} :
       reader' = [Waiting EXCEPT !.at = "next", !.op = op, !.todo = Published,
                    !.expected = {r \in Runs : Unaltered(store[r])}, !.quiet = \A r \in Runs : Settled(store[r])]
  /\ Asks

\* The one run that is asked for, or the next of those listed.
Look(r, rest) ==
  reader' = [To("manifest") EXCEPT !.run = r, !.todo = rest, !.suspect = {d \in Docs : State(store[r], d) = "altered"}]

NextRun ==
  /\ reader.at = "next"
  /\ \/ \E r \in reader.todo :
          IF reader.op = "get" THEN Look(r, {}) ELSE First(RunOrder, r, reader.todo) /\ Look(r, reader.todo \ {r})
     \/ /\ reader.todo = {}
        /\ reader' = IF reader.op = "view" /\ ~reader.second
                     THEN [To("next") EXCEPT !.todo = reader.got, !.second = TRUE]
                     ELSE Answered(IF reader.op = "get" /\ reader.got = {} THEN "not found" ELSE "ok")
  /\ Asks

\* Mutant of Missing: a run that is not there ends the listing.
StopAtMissing == IF reader.op = "get" THEN Answered("not found") ELSE [To("next") EXCEPT !.todo = {}]

\* Mutant of Missing: a directory without a manifest is an error.
FailAtMissing == Answered("failed")

\* getPublication: ENOENT means that there is no such publication.
Missing == IF reader.op = "get" THEN Answered("not found") ELSE To("next")

\* Any other error ends the request.
Broken == Answered("failed")

ReadManifest ==
  /\ reader.at = "manifest"
  /\ LET manifest == store[reader.run]["integrity"] IN
     reader' = IF manifest = None THEN Missing
               ELSE IF manifest[1] = "torn" THEN Broken
               ELSE [To("verify") EXCEPT !.left = manifest[2]]
  /\ Asks

\* Mutant of Mismatch: a file that can be read matches.
MismatchIfGone(item) == State(store[reader.run], item[1]) = "none"

Mismatch(item) == State(store[reader.run], item[1]) # item[2]

VerifyDigest ==
  /\ reader.at = "verify"
  /\ \/ reader.left = {} /\ reader' = [To(IF Signing THEN "signature" ELSE "read") EXCEPT !.left = Docs]
     \/ \E item \in reader.left :
          reader' = IF Mismatch(item) THEN Broken ELSE [reader EXCEPT !.left = @ \ {item}]
  /\ Asks

VerifySignature ==
  /\ reader.at = "signature"
  /\ LET dir == store[reader.run] IN
     reader' = IF State(dir, "integrity") = "good" /\ State(dir, "signature") = "good" THEN To("read") ELSE Broken
  /\ Asks

ReadDocument ==
  /\ reader.at = "read"
  /\ \/ reader.left = {} /\ reader' = [To("next") EXCEPT !.got = @ \cup {reader.run}, !.run = "none", !.suspect = {}]
     \/ \E d \in reader.left :
          LET content == State(store[reader.run], d) IN
          reader' = IF content = "none" THEN Missing ELSE IF content = "torn" THEN Broken
                    ELSE [reader EXCEPT !.left = @ \ {d}, !.sound = @ /\ d \notin reader.suspect]
  /\ Asks

Reply == reader.at = "answered" /\ reader' = Waiting /\ Asks

Read == Request \/ NextRun \/ ReadManifest \/ VerifyDigest \/ VerifySignature \/ ReadDocument \/ Reply

Next ==
  \/ \E r \in Runs : Publish(r)
  \/ Maintenance \/ Damage \/ Read

Spec == Init /\ [][Next]_vars

-----------------------------------------------------------------------------
(* Properties.                                                             *)

\* A published run is all there until its period has passed or a restore has
\* replaced it: no other publication, no interrupted one, no retention or backup that
\* was interrupted takes a file of it.  And a backup has every run that was whole when
\* it began, unless a temporary file disappeared while it was made, although others are
\* published meanwhile (applyComplianceRetention, createBackup, restoreBackup).
PublishedWhole ==
  /\ \A r \in Runs : pub[r] = Done /\ fate[r] = "kept" => Whole(store[r])
  /\ maint.result = "created" => \A r \in maint.owed : Whole(backup[r])

\* An answer has no document that was altered before its run was looked at and has
\* been so ever since, whatever publishers, retention and restore do between the
\* check of a file and its reading (getPublication).  Publications
\* that a restore met half-way are not covered by their manifest.
ReadSound == (\A r \in Runs : fate[r] # "crossed") => reader.sound

\* A listing that succeeds has every publication that was whole all the time,
\* although others are written, removed or abandoned meanwhile (listRuns).
ListComplete ==
  reader.answer = "ok" /\ reader.op # "get" => reader.expected \subseteq reader.got

\* A request fails only when something was wrong with a directory while it was
\* answered: publications that have no manifest yet, or never will, do no harm.
FailureExplained == reader.answer = "failed" => ~reader.quiet

=============================================================================
