----------------------------- MODULE SupplyChain -----------------------------
(***************************************************************************)
(* One search for known vulnerabilities (src/src/scanners/supply-chain and   *)
(* src/src/scanners/dependencies).                                          *)
(* Managed: the client takes a snapshot of the repository, the runner       *)
(* loads a profile with its vulnerability database, the containers write    *)
(* an SBOM and a list of matches, the scanner accepts and normalises them.  *)
(* Imported: the two documents are read from the repository, with a         *)
(* manifest that binds them to the commit.  Without a runner the scanner of  *)
(* dependencies looks the packages of the lock files up in a database,      *)
(* which has to be there in offline operation.  Meanwhile files are edited  *)
(* and operators replace profiles, reports and databases.                   *)
(* Diff: no search, but "dependencies diff" between two commits.            *)
(* RunnerServer models the job; ScanEngine what becomes of the result.      *)
(***************************************************************************)
EXTENDS SupplyInventory

CONSTANTS
  Modes,       \* subset of {"managed", "imported", "database", "offline", "diff"}
  Files,       \* the files discovered, in order
  MaxWrites,   \* bound: writes to a file
  Assets,      \* assets that the profile declares
  Profiles,    \* releases of the profile, in order: assets, digest and dates
  Inventories, \* SBOMs that syft may write
  MatchLists,  \* lists that grype may write
  Answers,     \* what a runner may answer: binding, outcome, clean-up, exit code, artifacts
  LockFiles,   \* files that dependencies are looked up in: lock files and manifests
  Repositories,\* what those of them that can be read say, for each set of them
  Locks,       \* what they may say: sequences of packages
  Policies,    \* policies for dependencies
  Bindings,    \* manifests of imported reports
  Bundles,     \* bundles of advisories: database, digest, whether signed
  MaxReplaced, \* bound: reports replaced during the run
  Horizon      \* bound of the clock

ASSUME SupplyAssumption ==
  /\ Modes \subseteq {"managed", "imported", "database", "offline", "diff"}
  /\ MaxWrites \in Nat /\ MaxReplaced \in Nat /\ Horizon \in Nat
  /\ Absent \notin Inventories /\ Absent \notin MatchLists /\ Absent \notin Bindings
  /\ Files \in Seq(ToSet(Files)) /\ Profiles \in Seq(ToSet(Profiles)) \ {<<>>}
  /\ \A release \in ToSet(Profiles) : release.assets \in [Assets -> Nat]
  /\ Repositories \subseteq [SUBSET LockFiles -> Locks] /\ <<>> \in Locks

\* Documents are finite lists and the graph of an SBOM has finitely many nodes; the parts
\* of a version come from parseInt(...) || 0; the purl of an entry is its name and version,
\* encoded; no advisory is called like a rule.
ASSUME DocumentsAssumption ==
  /\ \A sbom \in Inventories : IsSbom(sbom)
  /\ \A matches \in MatchLists : IsList(matches)
  /\ \A lock \in Locks : IsLock(lock) /\ Identified(ToSet(lock))
  /\ \A policy \in Policies, lock \in Locks : \A entry \in ToSet(lock) : PolicyFor(policy, entry.package)
  /\ \A bundle \in Bundles : IsDatabase(bundle.database)

VARIABLES
  mode,
  clock,
  tree,      \* file -> number of the last write to it, which its mtime tells
  reading,   \* the file that is being read: what lstat said, what was read
  payload,   \* RunnerInputPayload: what was read of each file so far
  profile,   \* directory of the profile: release of the manifest, content of each asset
  loaded,    \* LoadedRunnerProfile: release of the manifest
  hashed,    \* assets hashed so far
  used,      \* history: the assets that the containers used
  switched,  \* history: an asset was replaced after it was hashed
  reports,   \* .sentrycode/supply-chain: syft, grype, binding
  replaced,  \* history: number of reports replaced
  database,  \* the database of advisories
  raw,       \* what the scanner parsed, and the bytes it hashed
  answer,    \* RunnerJobResponseV1, without the documents
  pc,
  result     \* ScannerResult

snapshot == <<tree, reading, payload>>
registry == <<profile, loaded, hashed, used, switched>>
directory == <<reports, replaced, database>>
supplyVars == <<mode, clock, snapshot, registry, directory, raw, answer, pc, result>>

\* The files are read one after the other.
NextFile(n) == IF n = Len(Files) THEN "manifest" ELSE "lstat"

\* What was looked up: the repository, and the files that could be read.  The
\* others are left out, and nothing tells.
Looked == [repository : Repositories, files : SUBSET LockFiles]
Nowhere == [repository |-> [files \in SUBSET LockFiles |-> <<>>], files |-> LockFiles]
Said(looked) == looked.repository[looked.files]

NoResult == [status |-> "none"]
Importing == pc \in {"syft", "grype", "binding", "syft-bytes", "grype-bytes"}

SupplyTypeOK ==
  /\ clock \in 0 .. Horizon
  /\ tree \in [ToSet(Files) -> 0 .. MaxWrites] /\ Len(payload) <= Len(Files)
  /\ loaded \in DOMAIN Profiles \cup {Absent} /\ hashed \subseteq Assets
  /\ reports.syft \in Inventories \cup {Absent} /\ reports.grype \in MatchLists \cup {Absent}
  /\ mode \in Modes
  /\ result.status \in {"none", "ok", "incomplete", "skipped", "error", "diff"}

SupplyInit ==
  /\ clock = 0
  /\ tree = [f \in ToSet(Files) |-> 0] /\ payload = <<>>
  /\ reading = [write |-> 0, chunks |-> <<>>]
  /\ profile = [manifest |-> 1, assets |-> Profiles[1].assets]
  /\ loaded = Absent /\ hashed = {} /\ used = Absent /\ switched = FALSE
  /\ replaced = 0
  /\ raw = [syft |-> Absent, grype |-> Absent, binding |-> Absent, bytes |-> Absent, lock |-> Nowhere, policy |-> Absent]
  /\ answer = [outcome |-> "none"]
  /\ mode \in Modes
  /\ pc = CASE mode = "managed" -> NextFile(0) [] mode = "imported" -> "syft"
            [] mode = "diff" -> "refs" [] OTHER -> "lock"
  /\ IF mode # "imported" THEN reports = [syft |-> Absent, grype |-> Absent, binding |-> Absent]
     ELSE \E s \in Inventories \cup {Absent}, g \in MatchLists \cup {Absent}, b \in Bindings \cup {Absent} :
            reports = [syft |-> s, grype |-> g, binding |-> b]
  /\ IF pc # "lock" THEN database = Absent
     ELSE \E d \in {b.database : b \in Bundles} \cup {Absent} : database = d
  /\ result = NoResult

\* The run ends with an exception, which the engine makes a failed result.
Throw == pc' = "done" /\ result' = [status |-> "error"]

-----------------------------------------------------------------------------
(* snapshotRepository: each file is looked at, read and looked at again.   *)

Current == Files[Len(payload) + 1]

Lstat ==
  /\ pc = "lstat"
  /\ reading' = [write |-> tree[Current], chunks |-> <<>>]
  /\ pc' = "read"
  /\ UNCHANGED <<mode, clock, tree, payload, registry, directory, raw, answer, result>>

\* readFile takes more than one read.
ReadChunk ==
  /\ pc = "read"
  /\ reading' = [reading EXCEPT !.chunks = Append(@, tree[Current])]
  /\ pc' = IF Len(reading'.chunks) = 2 THEN "stat" ELSE "read"
  /\ UNCHANGED <<mode, clock, tree, payload, registry, directory, raw, answer, result>>

\* Mutant: only the size is compared, which a write can leave as it was.
SameSize(write) == write \in Nat

\* Size, time of modification and inode tell each write.
Unchanged(write) == write = reading.write

Restat ==
  /\ pc = "stat"
  /\ IF Unchanged(tree[Current])
     THEN /\ payload' = Append(payload, reading.chunks)
          /\ pc' = NextFile(Len(payload'))
          /\ UNCHANGED result
     ELSE Throw /\ UNCHANGED payload
  /\ UNCHANGED <<mode, clock, tree, reading, registry, directory, raw, answer>>

-----------------------------------------------------------------------------
(* RunnerProfileRegistry.load, in the runner.                              *)

\* The digest of the database is over the digests of the assets it is made of,
\* and it must have an age at which it is too old.
Consistent(manifest) == manifest.digest = manifest.assets /\ manifest.maxAge > 0

ReadManifest ==
  /\ pc = "manifest"
  /\ IF Consistent(Profiles[profile.manifest])
     THEN loaded' = profile.manifest /\ pc' = "hash" /\ UNCHANGED result
     ELSE Throw /\ UNCHANGED loaded
  /\ UNCHANGED <<mode, clock, snapshot, profile, hashed, used, switched, directory, raw, answer>>

Declared(asset) == profile.assets[asset] = Profiles[loaded].assets[asset]

HashAsset ==
  /\ pc = "hash"
  /\ \E a \in Assets \ hashed :
       IF Declared(a)
       THEN /\ hashed' = hashed \cup {a}
            /\ pc' = IF hashed' = Assets THEN "age" ELSE "hash"
            /\ UNCHANGED result
       ELSE Throw /\ UNCHANGED hashed
  /\ UNCHANGED <<mode, clock, snapshot, profile, loaded, used, switched, directory, raw, answer>>

\* Both sides look at the age of the vulnerability database, each by its clock.
Fresh(release) ==
  LET intelligence == Profiles[release] IN
  /\ intelligence.built <= intelligence.imported
  /\ intelligence.imported <= clock
  /\ clock - intelligence.built <= intelligence.maxAge

CheckAge ==
  /\ pc = "age"
  /\ IF Fresh(loaded) THEN pc' = "job" /\ UNCHANGED result ELSE Throw
  /\ UNCHANGED <<mode, clock, snapshot, registry, directory, raw, answer>>

\* The job: the containers see the directory of the profile as it is now.
\* Their artifacts may be missing, empty, damaged or no JSON.
RunJob ==
  /\ pc = "job"
  /\ used' = profile.assets
  /\ \E s \in Inventories, g \in MatchLists : raw' = Join([syft |-> s, grype |-> g, bytes |-> <<s, g>>], raw)
  /\ \E response \in Answers :
       answer' = Join([intelligence |-> loaded], response)
  /\ pc' = "answer"
  /\ UNCHANGED <<mode, clock, snapshot, profile, loaded, hashed, switched, directory, result>>

-----------------------------------------------------------------------------
(* The result.                                                             *)

Complete(inventory) ==
  /\ DOMAIN inventory.unresolved = {}
  /\ mode = "managed" => Unknown(inventory) = {}

Report(inventory) ==
  /\ pc' = "done"
  /\ result' = [status |-> IF Complete(inventory) THEN "ok" ELSE "incomplete",
                inventory |-> inventory,
                findings |-> findingsFromGrype(raw.grype), evidence |-> raw'.bytes]

\* Relationships that the SBOM leaves open are looked up in the repository.
Normalise ==
  IF Malformed(raw.syft) THEN Throw
  ELSE LET inventory == inventoryFromCycloneDx(raw.syft) IN
       IF Unknown(inventory) = {} THEN Report(inventory)
       ELSE pc' = "discover" /\ UNCHANGED result

\* The client: the answer is to this request, and whole.
assertResponse ==
  /\ answer.bound
  /\ answer.outcome = "completed" => answer.cleanupConfirmed
  /\ \A name \in DOMAIN answer.artifacts : answer.artifacts[name] # "damaged"

\* The scanner: the steps succeeded, and the database is not too old.
assertManagedResponse ==
  answer.outcome = "completed" /\ answer.exitCode = 0 /\ Fresh(answer.intelligence)

artifactJson(name) == answer.artifacts[name] = "whole"

Answer ==
  /\ pc = "answer"
  /\ UNCHANGED <<mode, clock, snapshot, registry, directory, raw, answer>>
  /\ IF assertResponse /\ assertManagedResponse /\ artifactJson("syft") /\ artifactJson("grype")
     THEN Normalise
     ELSE Throw

Discover ==
  /\ pc = "discover"
  /\ \E looked \in Looked :
       /\ raw' = [raw EXCEPT !.lock = looked]
       /\ Report(reconcileRelationships(inventoryFromCycloneDx(raw.syft), Said(looked)))
  /\ UNCHANGED <<mode, clock, snapshot, registry, directory, answer>>

-----------------------------------------------------------------------------
(* Imported reports.                                                       *)

ReadSyft ==
  /\ pc = "syft"
  /\ raw' = [raw EXCEPT !.syft = reports.syft]
  /\ pc' = "grype"
  /\ UNCHANGED <<mode, clock, snapshot, registry, directory, answer, result>>

ReadGrype ==
  /\ pc = "grype"
  /\ raw' = [raw EXCEPT !.grype = reports.grype]
  /\ CASE raw'.syft = Absent /\ raw'.grype = Absent ->
            pc' = "done" /\ result' = [status |-> "skipped"]
       [] raw'.syft # Absent /\ raw'.grype # Absent ->
            pc' = "binding" /\ UNCHANGED result
       [] OTHER -> Throw
  /\ UNCHANGED <<mode, clock, snapshot, registry, directory, answer>>

ReadBinding ==
  /\ pc = "binding"
  /\ raw' = [raw EXCEPT !.binding = reports.binding]
  /\ IF reports.binding # Absent /\ reports.binding.commit
     THEN pc' = "syft-bytes" /\ UNCHANGED result
     ELSE Throw
  /\ UNCHANGED <<mode, clock, snapshot, registry, directory, answer>>

\* A binding without digests binds the reports to the commit only.
Matches(digest, document) == digest = Absent \/ digest = document

\* The bytes are read once more and hashed.
SyftBytes ==
  /\ pc = "syft-bytes"
  /\ IF reports.syft # Absent
     THEN raw' = [raw EXCEPT !.bytes = <<reports.syft>>] /\ pc' = "grype-bytes" /\ UNCHANGED result
     ELSE Throw /\ UNCHANGED raw
  /\ UNCHANGED <<mode, clock, snapshot, registry, directory, answer>>

GrypeBytes ==
  /\ pc = "grype-bytes"
  /\ IF reports.grype # Absent
     THEN /\ raw' = [raw EXCEPT !.bytes = <<@[1], reports.grype>>]
          /\ IF Matches(raw.binding.syft, raw'.bytes[1]) /\ Matches(raw.binding.grype, raw'.bytes[2])
             THEN Normalise
             ELSE Throw
     ELSE Throw /\ UNCHANGED raw
  /\ UNCHANGED <<mode, clock, snapshot, registry, directory, answer>>

-----------------------------------------------------------------------------
(* The database.                                                           *)

DiscoverPackages ==
  /\ pc = "lock"
  /\ \E looked \in Looked, policy \in Policies : raw' = Join([lock |-> looked, policy |-> policy], raw)
  /\ pc' = "database"
  /\ UNCHANGED <<mode, clock, snapshot, registry, directory, answer, result>>

\* No database is no advisories, but in offline operation; with a runner, or if
\* the search is switched off, it is not looked at.
Advisories == IF raw.policy.search /\ database # Absent THEN database ELSE <<>>

LookUp ==
  /\ pc = "database"
  /\ IF raw.policy.search /\ mode = "offline" /\ database = Absent THEN Throw
     ELSE LET components == Examined(Said(raw.lock), raw.policy)
              policyFindings == findingsFromPolicy(components, raw.policy)
          IN  /\ pc' = "done"
              /\ result' = [status |-> "ok", evidence |-> Advisories,
                            findings |-> Join(findingsFromAdvisories(components, Advisories, raw.policy), policyFindings)]
  /\ UNCHANGED <<mode, clock, snapshot, registry, directory, raw, answer>>

\* A bundle is checked before it replaces the database, by a rename.
Authentic(bundle) == bundle.digest = bundle.database /\ bundle.signed

ImportBundle ==
  /\ pc \in {"lock", "database"}
  /\ \E bundle \in Bundles :
       /\ Authentic(bundle) /\ database # bundle.database
       /\ database' = bundle.database
  /\ UNCHANGED <<mode, clock, snapshot, registry, reports, replaced, raw, answer, pc, result>>

\* Commits do not change while they are read.  A file that git does not show, or
\* that is too long, counts as one that the commit does not have.
DiffRefs ==
  /\ pc = "refs" /\ pc' = "done"
  /\ \E before, after \in Looked :
       /\ raw' = Join([lock |-> before, bytes |-> after], raw)
       /\ result' = [status |-> "diff", changes |-> diffDependencies(Said(before), Said(after))]
  /\ UNCHANGED <<mode, clock, snapshot, registry, directory, answer>>

-----------------------------------------------------------------------------
(* Everybody else, as long as it makes a difference.                       *)

\* Any other access to a file and any request may fail, and any file be malformed.
Fault ==
  /\ pc # "done"
  /\ Throw
  /\ UNCHANGED <<mode, clock, snapshot, registry, directory, raw, answer>>

Write(file) ==
  /\ pc \in {"lstat", "read", "stat"} /\ tree[file] < MaxWrites
  /\ tree' = [tree EXCEPT ![file] = @ + 1]
  /\ UNCHANGED <<mode, clock, reading, payload, registry, directory, raw, answer, pc, result>>

\* An operator installs the next release, manifest and assets in any order.
InstallManifest ==
  /\ pc \in {"manifest", "hash", "age", "job"} /\ profile.manifest < Len(Profiles)
  /\ profile' = [profile EXCEPT !.manifest = @ + 1]
  /\ UNCHANGED <<mode, clock, snapshot, loaded, hashed, used, switched, directory, raw, answer, pc, result>>

InstallAsset(asset) ==
  /\ pc \in {"manifest", "hash", "age", "job"}
  /\ \E release \in DOMAIN Profiles :
       /\ profile.assets[asset] < Profiles[release].assets[asset]
       /\ profile' = [profile EXCEPT !.assets = [@ EXCEPT ![asset] = Profiles[release].assets[asset]]]
  /\ switched' = (switched \/ asset \in hashed)
  /\ UNCHANGED <<mode, clock, snapshot, loaded, hashed, used, directory, raw, answer, pc, result>>

\* An operator replaces a report or the binding.
Replace ==
  /\ Importing /\ replaced < MaxReplaced
  /\ \/ \E s \in Inventories \cup {Absent} : reports' = [reports EXCEPT !.syft = s]
     \/ \E g \in MatchLists \cup {Absent} : reports' = [reports EXCEPT !.grype = g]
     \/ \E b \in Bindings \cup {Absent} : reports' = [reports EXCEPT !.binding = b]
  /\ reports' # reports
  /\ replaced' = replaced + 1
  /\ UNCHANGED <<mode, clock, snapshot, registry, database, raw, answer, pc, result>>

Tick ==
  /\ pc \in {"age", "job", "answer"} /\ clock < Horizon
  /\ clock' = clock + 1
  /\ UNCHANGED <<mode, snapshot, registry, directory, raw, answer, pc, result>>

SupplyNext ==
  \/ Lstat \/ ReadChunk \/ Restat
  \/ ReadManifest \/ HashAsset \/ CheckAge \/ RunJob
  \/ Answer \/ Discover
  \/ ReadSyft \/ ReadGrype \/ ReadBinding \/ SyftBytes \/ GrypeBytes
  \/ DiscoverPackages \/ LookUp \/ ImportBundle \/ DiffRefs
  \/ Fault \/ Tick \/ Replace \/ InstallManifest
  \/ \E f \in ToSet(Files) : Write(f)
  \/ \E a \in Assets : InstallAsset(a)

SupplySpec == SupplyInit /\ [][SupplyNext]_supplyVars

-----------------------------------------------------------------------------
Reported == result.status \in {"ok", "incomplete"}
Documents == Reported /\ mode \in {"managed", "imported"}

\* A result holds every component of the SBOM, with the relationship that the
\* SBOM or the lock files give it, or says that it is unresolved, and every
\* match at the highest severity it was reported with, in whatever order the
\* documents list them; and it is clean only if nothing was left open.  Of a
\* database it holds each advisory that affects a package of the lock files,
\* and a package without a serious finding is one that the policy lets pass
\* (adapters.ts, supply-chain/scanner.ts:82-104, 134-140 and 189-196,
\* dependencies/scanner.ts:56-107).  The changes between two commits lead from the
\* packages of the one to those of the other (diff.ts:11-23).  All this is of the
\* lock files that could be read: what the others list is missed, and the
\* result is none the worse for it (discover.ts:42-44 and 343, diff.ts:25-28).
ResultComplete ==
  /\ Documents =>
       /\ InventoryComplete(result.inventory, raw.syft, Said(raw.lock))
       /\ FindingsComplete(result.findings, raw.grype)
       /\ result.status = "ok" => \A item \in ToSet(raw.syft.items) :
            /\ Reason(item) = "none"
            /\ mode = "managed" => \E relation \in {"direct", "os", "transitive"} :
                 IsRelationship(relation, item.purl, raw.syft, Said(raw.lock))
  /\ Reported /\ ~Documents =>
       /\ AdvisoriesComplete(result.findings, Said(raw.lock), raw.policy, result.evidence)
       /\ PolicyComplete(result.findings, Said(raw.lock), raw.policy, result.evidence)
  /\ result.status = "diff" => DiffComplete(result.changes, Said(raw.lock), Said(raw.bytes))

\* Each file of the input is as one write left it.
InputWhole == \A i \in DOMAIN payload : Cardinality(ToSet(payload[i])) = 1

\* What a result says it is about is what it is about.  The input of a managed
\* scan has every file as one write left it; the database it names is the one
\* the containers used, unless its files were replaced after they were hashed,
\* and was fresh when the answer was accepted; the digests of imported reports
\* are those of the reports parsed, unless they were replaced during the run,
\* and those of the binding (snapshot.ts:48-61, profile-registry.ts:177-199,
\* supply-chain/scanner.ts:70-79 and 185-188).
ResultIdentified ==
  /\ Reported /\ mode = "managed" =>
       /\ InputWhole /\ Len(payload) = Len(Files) /\ answer.bound
       /\ answer.artifacts["syft"] = "whole" /\ answer.artifacts["grype"] = "whole"
       /\ switched \/ used = Profiles[answer.intelligence].digest
       /\ clock - Profiles[answer.intelligence].built <= Profiles[answer.intelligence].maxAge
  /\ Reported /\ mode = "imported" =>
       /\ result.evidence = <<raw.syft, raw.grype>> \/ replaced > 0
       /\ raw.binding.commit
       /\ Matches(raw.binding.syft, result.evidence[1]) /\ Matches(raw.binding.grype, result.evidence[2])
=============================================================================
