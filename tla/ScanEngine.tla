----------------------------- MODULE ScanEngine -----------------------------
(***************************************************************************)
(* One scan (src/src/core/engine.ts, runScan): the scanners run at the     *)
(* same time, each against its timer; then the policy documents in force   *)
(* are resolved, waivers applied, the gate evaluated and OPA consulted     *)
(* (src/src/policy).  Time passes in between, and each of these steps      *)
(* looks at the clock by itself.                                           *)
(***************************************************************************)
EXTENDS Naturals, Sequences, FiniteSets, SequencesExt

CONSTANTS
  Plugins,      \* args.scanners: sequence of scanner identifiers
  Findings,     \* what a scanner may find: attributes and severity
  Messages,     \* errors of scanners, each by the categories whose patterns it matches
  Directories,  \* policy directories: sequences of documents, by file name
  WaiverFiles,  \* waiver files: sequences of waivers
  Demands,      \* what config asks of a waiver: approval, ticket, duration
  Blank,        \* the empty string
  Config,       \* failOn, warnOn, requiredScanners, scannerFailureModes
  Consumers,    \* config.consumers: identifier, adapter, whether enabled, scanners
  CraReporting, \* config.craReporting.enabled
  Managed,      \* scanners that have a profile of an enabled runner
  Context,      \* PolicyContext: a function from scope keys to values
  Settings,     \* whether config arms the timers (scannerTimeoutMs > 0) and enables OPA
  Horizon       \* bound of the clock

Scanners == {Plugins[i] : i \in DOMAIN Plugins}
Fields == {"failOn", "warnOn", "requiredScanners", "scannerFailureModes"}
Decisions == {"PASS", "WARN", "FAIL"}
Never == Horizon + 1

IsList(v) == v \in Seq(ToSet(v))

ASSUME EngineAssumption ==
  /\ Horizon \in Nat /\ Settings \subseteq [timeout : BOOLEAN, opa : BOOLEAN] /\ CraReporting \in BOOLEAN
  /\ IsList(Plugins)
  /\ DOMAIN Config = Fields /\ IsList(Config["requiredScanners"])
  /\ \A D \in Directories : \A i \in DOMAIN D :
       "requiredScanners" \in DOMAIN D[i].enforces => IsList(D[i].enforces["requiredScanners"])
  /\ \A W \in WaiverFiles : IsList(W)
  /\ IsFiniteSet(Managed) /\ IsFiniteSet(Consumers)
  /\ \A c \in Consumers : IsFiniteSet(c.requiredScanners)

-----------------------------------------------------------------------------
(* The registry of consumers.                                              *)

legacyCraConsumer == [id |-> "cra", adapter |-> "cra", enabled |-> TRUE, requiredScanners |-> {}]

\* The consumer of before counts unless one of its name is configured.
listConfiguredConsumers ==
  Consumers \cup {c \in {legacyCraConsumer} : CraReporting /\ \A d \in Consumers : d.id # c.id}

Available(c) == c.adapter \in {"cra", "cyber"}

consumerRequiredScanners ==
  UNION {c.requiredScanners : c \in {d \in listConfiguredConsumers : d.enabled /\ Available(d)}}

Floor == consumerRequiredScanners \cup Managed

consumerPlan ==
  {[id |-> c.id, available |-> Available(c), requiredScanners |-> c.requiredScanners] :
     c \in {d \in listConfiguredConsumers : d.enabled}}

VARIABLES
  settings,   \* what of the configuration decides who may keep the scan waiting
  clock,      \* now()
  scan,       \* each scanner: running, settled, or running though given up
  results,    \* scannerResults
  pc,         \* where runScan is
  documents,  \* documents in force that are not yet applied, each at its place in the directory
  effective,  \* EffectivePolicy: its four fields
  locked,     \* lockedFields
  waived,     \* findings that the gate found waived
  waivers,    \* loadWaivers
  decision,   \* policy.decision
  report,     \* ScanReport
  release     \* ReleaseDecision, and the findings its evidence names

vars == <<settings, clock, scan, results, pc, documents, effective, locked, waived, waivers, decision, report, release>>
resolution == <<documents, effective, locked>>
gate == <<waivers, waived, decision, report, release>>

None == [status |-> "none", found |-> {}, failure |-> "none"]
Ended == {"report", "thrown", "released"}

Categories == <<"intelligence", "provisioning", "runner_startup", "scanner_execution", "coverage">>

\* The first category that the message matches.
classifyScannerFailure(message) ==
  LET Matched == {i \in DOMAIN Categories : Categories[i] \in message}
  IN  IF Matched = {} THEN "unknown" ELSE Categories[Min(Matched)]

TypeOK ==
  /\ settings \in Settings
  /\ clock \in 0 .. Horizon
  /\ scan \in [Scanners -> {"running", "settled", "abandoned", "over"}]
  /\ \A s \in Scanners : /\ results[s].status \in {"none", "success", "skipped", "failed"}
                         /\ results[s].found \subseteq Findings
                         /\ results[s].failure \in ToSet(Categories) \cup {"none", "unknown"}
  /\ pc \in {"scanning", "documents", "resolving", "waivers", "gate", "opa"} \cup Ended
  /\ DOMAIN effective = Fields /\ locked \subseteq Fields
  /\ decision \in Decisions

Init ==
  /\ settings \in Settings
  /\ clock = 0
  /\ scan = [s \in Scanners |-> "running"]
  /\ results = [s \in Scanners |-> None]
  /\ pc = "scanning"
  /\ documents = <<>> /\ effective = Config /\ locked = {}
  /\ waivers = <<>> /\ waived = {} /\ decision = "PASS" /\ report = <<>> /\ release = <<>>

\* After the gate nothing depends on the clock.
Tick ==
  /\ clock < Horizon /\ pc \notin {"opa"} \cup Ended
  /\ clock' = clock + 1
  /\ UNCHANGED <<settings, scan, results, pc, resolution, gate>>

Throw == pc' = "thrown" /\ UNCHANGED <<settings, clock, scan, results, resolution, gate>>

-----------------------------------------------------------------------------
(* runOne: a scanner and its timer.                                        *)

\* The scanner's promise comes first: a result, or an exception that becomes
\* a failed one with nothing found.
Settle(s) ==
  /\ scan[s] = "running"
  /\ scan' = [scan EXCEPT ![s] = "settled"]
  /\ \E st \in {"success", "skipped", "failed"}, F \in SUBSET Findings, message \in Messages :
       /\ st = "skipped" => F = {}
       /\ results' = [results EXCEPT ![s] =
            [status |-> st, found |-> F,
             failure |-> IF st = "failed" THEN classifyScannerFailure(message) ELSE "none"]]
  /\ UNCHANGED <<settings, clock, pc, resolution, gate>>

\* Mutant of TimeOut: the engine waits for the scanner to notice the abort.
TimeOutPolite(s) ==
  /\ settings.timeout /\ scan[s] = "running"
  /\ scan' = [scan EXCEPT ![s] = "abandoned"]
  /\ UNCHANGED <<settings, clock, results, pc, resolution, gate>>

\* The timer (scannerTimeoutMs > 0) comes first: the scanner is told to abort, which it may ignore.
TimeOut(s) ==
  /\ settings.timeout /\ scan[s] = "running"
  /\ scan' = [scan EXCEPT ![s] = "abandoned"]
  /\ results' = [results EXCEPT ![s] =
       [status |-> "failed", found |-> {}, failure |-> classifyScannerFailure({"scanner_execution"})]]
  /\ UNCHANGED <<settings, clock, pc, resolution, gate>>

\* Mutant of LateResult: the late answer is taken after all.
LateResultCounts(s) ==
  /\ scan[s] = "abandoned"
  /\ scan' = [scan EXCEPT ![s] = "over"]
  /\ \E F \in SUBSET Findings :
       results' = [results EXCEPT ![s] = [status |-> "success", found |-> F, failure |-> "none"]]
  /\ UNCHANGED <<settings, clock, pc, resolution, gate>>

\* What an abandoned scanner answers in the end is dropped by the race.
LateResult(s) ==
  /\ scan[s] = "abandoned"
  /\ scan' = [scan EXCEPT ![s] = "over"]
  /\ UNCHANGED <<settings, clock, results, pc, resolution, gate>>

\* Promise.all.
AllSettled ==
  /\ pc = "scanning" /\ \A s \in Scanners : results[s] # None
  /\ pc' = "documents"
  /\ UNCHANGED <<settings, clock, scan, results, resolution, gate>>

-----------------------------------------------------------------------------
(* loadPolicyDocuments and resolvePolicy.                                  *)

\* parsePolicyDocument.  "enforces" is a function on the fields that the
\* document's enforcement object has.
Parses(d) ==
  /\ d.level \in 1 .. 5 /\ d.lock \subseteq Fields
  /\ \A f \in DOMAIN d.enforces \cap {"failOn", "warnOn"} :
       ToSet(d.enforces[f]) \subseteq {"info", "low", "medium", "high", "critical"}
  /\ "scannerFailureModes" \in DOMAIN d.enforces =>
       Range(d.enforces["scannerFailureModes"]) \subseteq {"fail", "warn", "ignore"}

MatchesScope(d) ==
  \A k \in DOMAIN d.scope : k \in DOMAIN Context /\ d.scope[k] = Context[k]

ActiveAt(d, now) == d.from <= now /\ now < d.until

\* Every file counts here, in force or not.
Duplicated(D) ==
  \E i, j \in DOMAIN D : i # j /\ D[i].level = D[j].level /\ D[i].id = D[j].id

InForce(D) ==
  [i \in {j \in DOMAIN D : MatchesScope(D[j]) /\ ActiveAt(D[j], clock)} |-> D[i]]

LoadPolicyDocuments ==
  /\ pc = "documents"
  /\ \E D \in Directories :
       IF Duplicated(D) \/ \E i \in DOMAIN D : ~ Parses(D[i])
       THEN Throw
       ELSE /\ pc' = "resolving" /\ documents' = InForce(D)
            /\ UNCHANGED <<settings, clock, scan, results, effective, locked, gate>>

\* { ...a, ...b }
Merged(a, b) ==
  [s \in DOMAIN a \cup DOMAIN b |-> IF s \in DOMAIN b THEN b[s] ELSE a[s]]

\* The value that document d gives to field f; arrays are replaced, failure
\* modes merged.
Value(d, f) ==
  IF f \notin DOMAIN d.enforces THEN effective[f]
  ELSE IF f = "scannerFailureModes" THEN Merged(effective[f], d.enforces[f])
  ELSE d.enforces[f]

\* Mutant of ChangesLockedField: failure modes are compared where both have them.
ChangesLockedArray(f, d) == f # "scannerFailureModes" /\ Value(d, f) # effective[f]

ChangesLockedField(f, d) == Value(d, f) # effective[f]

\* By level, and by file name within a level.
First(i) ==
  \A j \in DOMAIN documents :
    \/ documents[i].level < documents[j].level
    \/ documents[i].level = documents[j].level /\ i <= j

ApplyDocument ==
  /\ pc = "resolving"
  /\ \E i \in DOMAIN documents :
       LET d == documents[i] IN
       /\ First(i)
       /\ IF \E f \in locked : ChangesLockedField(f, d)
          THEN Throw
          ELSE /\ effective' = [f \in Fields |-> Value(d, f)]
               /\ locked' = locked \cup d.lock
               /\ documents' = [j \in DOMAIN documents \ {i} |-> documents[j]]
               /\ UNCHANGED <<settings, clock, scan, results, pc, gate>>

\* Mutant of AddFloor: the floor stands only if nobody locked the field.
AddFloorUnlessLocked ==
  /\ pc = "resolving" /\ DOMAIN documents = {}
  /\ pc' = "waivers"
  /\ effective' = [effective EXCEPT !["requiredScanners"] =
                     @ \o SetToSeq(IF "requiredScanners" \in locked THEN {} ELSE Floor \ ToSet(@))]
  /\ UNCHANGED <<settings, clock, scan, results, documents, locked, gate>>

\* Whatever the documents say, the floor is required.
AddFloor ==
  /\ pc = "resolving" /\ DOMAIN documents = {}
  /\ pc' = "waivers"
  /\ effective' = [effective EXCEPT !["requiredScanners"] = @ \o SetToSeq(Floor \ ToSet(@))]
  /\ UNCHANGED <<settings, clock, scan, results, documents, locked, gate>>

-----------------------------------------------------------------------------
(* Waivers, evaluatePolicy and OPA.                                        *)

\* parseWaiver: a waiver has a key that narrows it down, be it blank.
WaiverParses(w) == DOMAIN w.scope \cap {"fingerprint", "ruleId", "path", "scanner"} # {}

LoadWaivers ==
  /\ pc = "waivers"
  /\ \E W \in WaiverFiles :
       IF \/ \E i \in DOMAIN W : ~ WaiverParses(W[i])
          \/ \E i, j \in DOMAIN W : i # j /\ W[i].id = W[j].id
       THEN Throw
       ELSE /\ waivers' = W /\ pc' = "gate"
            /\ UNCHANGED <<settings, clock, scan, results, resolution, waived, decision, report, release>>

\* waiverValidity.
Valid(w) == clock < w.expires /\ w.lacks \cap Demands = {}

\* scopeMatches.
Matches(w, x) ==
  LET actual == Merged(x.at, Context) IN
  \A k \in DOMAIN w.scope :
    w.scope[k] = Blank \/ (k \in DOMAIN actual /\ w.scope[k] = actual[k])

\* findApplicableWaiver returns the first waiver that it does not reject.
Applies(i, x) == Matches(waivers[i], x) /\ Valid(waivers[i])
Waived(x) == \E i \in DOMAIN waivers : Applies(i, x) /\ \A j \in 1 .. (i - 1) : ~ Applies(j, x)

Present == {s \in Scanners : results[s].status # "skipped"}
Required == ToSet(effective["requiredScanners"])
Found == UNION {results[s].found : s \in Scanners}

Mode(s) ==
  LET modes == effective["scannerFailureModes"]
  IN  IF s \in DOMAIN modes THEN modes[s] ELSE IF s \in Required THEN "fail" ELSE "warn"

\* Without the scanners that are required, the gate fails whatever the others say.
AtFirst == IF Required \subseteq Present THEN "PASS" ELSE "FAIL"

\* Mutant of Forced: the last failed scanner decides.
ForcedByLast ==
  LET Latest(forced, s) ==
        IF results[s].status = "failed" /\ Mode(s) = "fail" THEN "FAIL"
        ELSE IF results[s].status = "failed" /\ Mode(s) = "warn" THEN "WARN"
        ELSE forced
  IN  FoldLeft(Latest, AtFirst, Plugins)

\* forcedDecision, with "PASS" for undefined: the loop over failed scanners.
After(forced, s) ==
  IF results[s].status = "failed" /\ Mode(s) = "fail" THEN "FAIL"
  ELSE IF results[s].status = "failed" /\ Mode(s) = "warn" /\ forced # "FAIL" THEN "WARN"
  ELSE forced
Forced == FoldLeft(After, AtFirst, Plugins)

Rank == [PASS |-> 0, WARN |-> 1, FAIL |-> 2]
Stricter(a, b) == IF Rank[a] >= Rank[b] THEN a ELSE b

EvaluatePolicy ==
  /\ pc = "gate" /\ pc' = "opa"
  /\ waived' = {x \in Found : Waived(x)}
  /\ LET Hits(f) == \E x \in Found \ waived' : x.severity \in ToSet(effective[f])
         byFindings == IF Hits("failOn") THEN "FAIL" ELSE IF Hits("warnOn") THEN "WARN" ELSE "PASS"
     IN  decision' = Stricter(byFindings, Forced)
  /\ UNCHANGED <<settings, clock, scan, results, resolution, waivers, report, release>>

\* A finding of two scanners is applied twice.
Applied == {a \in Scanners \X Findings : a[2] \in results[a[1]].found}
Failed == {s \in Scanners : results[s].status = "failed"}

\* The report: evidence for each scanner that failed, and for the decision.
Conclude ==
  /\ pc' = "report"
  /\ UNCHANGED release
  /\ report' =
       [scanners |-> results, decision |-> decision',
        failures |-> [s \in Failed |-> results[s].failure],
        policy |-> [decision |-> decision', waivedCount |-> Cardinality({a \in Applied : a[2] \in waived}),
                    failureCount |-> Cardinality(Failed),
                    failureCategories |-> {results[s].failure : s \in Failed},
                    requiredScannerFloor |-> Floor, consumerPlan |-> consumerPlan]]

SkipOpa ==
  /\ pc = "opa" /\ ~ settings.opa
  /\ decision' = decision /\ Conclude
  /\ UNCHANGED <<settings, clock, scan, results, resolution, waivers, waived>>

\* The OPA process answers or ends, at its own pace: nothing times it.  Any
\* failure of the process or of its answer ends the scan.
OpaAnswers ==
  /\ pc = "opa" /\ settings.opa
  /\ \/ Throw
     \/ (\E answer \in Decisions : decision' = Stricter(decision, answer)) /\ Conclude
  /\ UNCHANGED <<settings, clock, scan, results, resolution, waivers, waived>>

\* "release check" decides as the report does; its evidence names the findings
\* that are not waived.
ReleaseCheck ==
  /\ pc = "report" /\ pc' = "released"
  /\ release' = [decision |-> report.decision, findings |-> {a \in Applied : a[2] \notin waived}]
  /\ UNCHANGED <<settings, clock, scan, results, resolution, waivers, waived, decision, report>>

RunScan ==
  \/ AllSettled \/ LoadPolicyDocuments \/ ApplyDocument \/ AddFloor
  \/ LoadWaivers \/ EvaluatePolicy \/ SkipOpa

Done == pc \in Ended /\ UNCHANGED vars

Next ==
  \/ \E s \in Scanners : Settle(s) \/ TimeOut(s) \/ LateResult(s)
  \/ RunScan \/ OpaAnswers \/ ReleaseCheck \/ Tick \/ Done

\* The engine's own steps and its timers happen; neither a scanner nor OPA owes anything.
Spec == Init /\ [][Next]_vars /\ WF_vars(RunScan) /\ \A s \in Scanners : WF_vars(TimeOut(s))

-----------------------------------------------------------------------------
(* Properties.                                                             *)

\* What a document has locked, no later one changes, whatever it says and in
\* whatever order the files are found; only the floor is added to the required
\* scanners in the end (resolvePolicy).
LocksHold ==
  [][\A f \in locked :
       \/ effective'[f] = effective[f]
       \/ f = "requiredScanners" /\ ToSet(effective'[f]) = ToSet(effective[f]) \cup Floor]_vars

Covered(x) == \E i \in DOMAIN waivers : Matches(waivers[i], x) /\ Valid(waivers[i])
Counts(f) == \E x \in Found : x.severity \in ToSet(effective[f]) /\ ~ Covered(x)
FailedAs(mode) == \E s \in Scanners : results[s].status = "failed" /\ Mode(s) = mode

Blocked == Required \ Present # {} \/ FailedAs("fail") \/ Counts("failOn")
Warned == FailedAs("warn") \/ Counts("warnOn")

\* The gate's decision depends on what was found, failed and waived, not on
\* the order in which scanners, findings and waivers are gone through; OPA can
\* only make it stricter.  The report has the decision as OPA left it, in its
\* evidence too, with every finding that a waiver covers and every scanner that
\* did not do its work (evaluatePolicy, findApplicableWaiver, runScan).
GateDeclared ==
  LET declared == IF Blocked THEN "FAIL" ELSE IF Warned THEN "WARN" ELSE "PASS"
  IN  /\ pc = "opa" => decision = declared
      /\ pc = "released" =>
           /\ release.decision = report.decision
           /\ {a[2] : a \in release.findings} = {x \in Found : ~ Covered(x)}
      /\ pc = "report" =>
           /\ Rank[report.decision] >= Rank[declared] /\ report.policy.decision = report.decision
           /\ report.policy.waivedCount = Cardinality({a \in Applied : Covered(a[2])})
           /\ \A s \in Scanners : \/ s \in DOMAIN report.failures
                                  \/ report.scanners[s].status \in {"success", "skipped"}
           /\ \A s \in Scanners : scan[s] \in {"abandoned", "over"} => report.failures[s] = "scanner_execution"

\* A report that does not fail has an answer of every scanner that a consumer
\* or a managed profile requires, and a failed one only where a document or
\* the configuration excuses that scanner by name; a policy document, a lock
\* or a skipped scanner is no way around it (requiredScannersFloor).
FloorEnforced ==
  pc = "report" /\ report.decision # "FAIL" =>
    \A s \in Managed \cup UNION {c.requiredScanners : c \in {d \in Consumers : d.enabled /\ d.adapter \in {"cra", "cyber"}}} :
      /\ s \in DOMAIN report.scanners /\ report.scanners[s].status # "skipped"
      /\ report.scanners[s].status = "failed" => s \in DOMAIN effective["scannerFailureModes"]

\* The first answer of a scanner, or of its timer, stands: a scanner that goes
\* on after its timeout has no say in the scan (runOne).
FirstAnswerStands ==
  [][\A s \in Scanners : results[s] # None => results'[s] = results[s]]_vars

\* What may keep a scan waiting for good: OPA, which is not timed, and scanners
\* when the timers are off.
Waits ==
  \/ pc = "opa" /\ settings.opa
  \/ pc = "scanning" /\ ~ settings.timeout /\ \E s \in Scanners : scan[s] = "running"

\* A scan ends, in a report or an error, or it waits for good for an answer that
\* the code does not time; in particular a scanner that never answers, nor
\* heeds the abort, holds nothing up once the timers are armed (runOne).
Ends == <>(pc \in Ended) \/ <>[]Waits
=============================================================================
