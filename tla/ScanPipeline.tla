---------------------------- MODULE ScanPipeline ----------------------------
(***************************************************************************)
(* Executions of "sentrycode scan", "release check" and "compliance        *)
(* publish" on one repository, one after the other (src/src/cli/main.ts,   *)
(* the end of main): each plans what to scan from the commit that the last *)
(* successful one left in the cache (src/src/incremental), scans, publishes *)
(* evidence, tells consumers, reports, and moves the cache on.  Between    *)
(* executions developers edit and commit, on one branch, and waivers       *)
(* expire.                                                                 *)
(* ScanEngine models the scan itself and ConsumerDelivery the queue.       *)
(***************************************************************************)
EXTENDS Naturals, Sequences, FiniteSets

CONSTANTS
  Files,
  ServiceFiles,  \* files below the root of the service that --service names
  MaxCommits,    \* bound
  Invocations,   \* what may be run: a command, "scan", "release-check" or
                 \* "compliance-publish", the set of what is configured, of "compliance",
                 \* "consumers" and "cra", and whether for one service
  NoCommit

ASSUME PipelineAssumption ==
  /\ MaxCommits \in Nat \ {0} /\ ServiceFiles \subseteq Files
  /\ Invocations \subseteq [command : {"scan", "release-check", "compliance-publish"},
                            setup : SUBSET {"compliance", "consumers", "cra"}, service : BOOLEAN]
  /\ NoCommit \notin Nat

VARIABLES
  commits,    \* the trees of the commits, each the child of the one before; a file's
              \* version is a number
  work,       \* the working tree
  blocking,   \* file versions, of HEAD or the working tree, with a finding the policy blocks
  waived,     \* those of them that a waiver in force covers
  excused,    \* history: those that a waiver has ever covered
  cache,      \* lastSuccessfulCommit in the cache file
  limited,    \* history: an execution for one service has moved the cache
  exec,       \* the execution: where it is, what it is for, what it has found out
  exit        \* exit code of the last execution

vars == <<commits, work, blocking, waived, excused, cache, limited, exec, exit>>
repository == <<commits, work, blocking, waived, excused>>
baseline == <<cache, limited>>

Commits == DOMAIN commits
Newest == Len(commits)
Draft == MaxCommits + 1  \* version of an uncommitted edit
Versions == 1 .. Draft

Fresh(i) ==
  [pc |-> "plan", command |-> i.command, setup |-> i.setup, service |-> i.service, commit |-> Newest,
   dirty |-> work # commits[Newest], files |-> {}, decision |-> "none",
   stored |-> FALSE, sent |-> FALSE]
Idle == exec.pc = "done"
NoExecution ==
  [pc |-> "done", command |-> "scan", setup |-> {}, service |-> FALSE, commit |-> 1, dirty |-> FALSE,
   files |-> {}, decision |-> "none", stored |-> FALSE, sent |-> FALSE]

\* The last execution is past.
Rest == exec' = NoExecution /\ exit' = "none"

TypeOK ==
  /\ cache \in Commits \cup {NoCommit}
  /\ work \in [Files -> Versions]
  /\ waived \subseteq excused /\ excused \subseteq blocking
  /\ blocking \subseteq Files \X Versions /\ limited \in BOOLEAN
  /\ exec.pc \in {"plan", "scan", "publish", "consumers", "output", "cache", "done"}
  /\ exec.decision \in {"none", "PASS", "FAIL"}
  /\ exit \in {"none", "PASS", "POLICY_FAILURE", "RUNTIME_FAILURE", "CONFIGURATION_FAILURE"}

Init ==
  /\ commits = <<[f \in Files |-> 1]>>
  /\ work = commits[1]
  /\ blocking \in SUBSET (Files \X {1}) /\ waived = {} /\ excused = {}
  /\ cache = NoCommit /\ limited = FALSE
  /\ exec = NoExecution
  /\ exit = "none"

-----------------------------------------------------------------------------
(* The repository, while no execution is under way.                        *)

\* A file is edited; the new version may hold a finding, or a waived one.
Edit ==
  /\ Idle
  /\ \E f \in Files :
       /\ work[f] # Draft
       /\ work' = [work EXCEPT ![f] = Draft]
       /\ \E blocks, excuse \in BOOLEAN :
            LET Mark(S, yes) == IF yes THEN S \cup {<<f, Draft>>} ELSE S IN
            /\ excuse => blocks
            /\ blocking' = Mark(blocking, blocks)
            /\ waived' = Mark(waived, excuse) /\ excused' = Mark(excused, excuse)
  /\ Rest
  /\ UNCHANGED <<commits, baseline>>

\* The edits are thrown away, or stashed.
Discard ==
  /\ Idle /\ work # commits[Newest]
  /\ work' = commits[Newest]
  /\ LET Kept(S) == S \ (Files \X {Draft}) IN
       blocking' = Kept(blocking) /\ waived' = Kept(waived) /\ excused' = Kept(excused)
  /\ Rest
  /\ UNCHANGED <<commits, baseline>>

\* The working tree is committed: what was a draft has the commit's number.
Commit ==
  /\ Idle /\ work # commits[Newest] /\ Len(commits) < MaxCommits
  /\ LET n == Newest + 1
         Named(S) == {<<f, work'[f]>> : f \in {g \in Files : <<g, work[g]>> \in S}}
     IN  /\ work' = [f \in Files |-> IF work[f] = Draft THEN n ELSE work[f]]
         /\ commits' = Append(commits, work')
         /\ blocking' = Named(blocking) /\ waived' = Named(waived) /\ excused' = Named(excused)
  /\ Rest
  /\ UNCHANGED baseline

Expire ==
  /\ Idle
  /\ \E w \in waived : waived' = waived \ {w}
  /\ Rest
  /\ UNCHANGED <<commits, work, blocking, excused, baseline>>

-----------------------------------------------------------------------------
(* An execution.                                                           *)

Start ==
  /\ Idle
  /\ \E i \in Invocations : exec' = Fresh(i)
  /\ exit' = "none"
  /\ UNCHANGED <<repository, baseline>>

\* Leaves main with an exit code.
Leave(code) == exec' = [exec EXCEPT !.pc = "done"] /\ exit' = code

Goto(pc) == exec' = [exec EXCEPT !.pc = pc] /\ UNCHANGED exit

\* git diff base...HEAD.
ChangedFilesBetween(base, c) == {f \in Files : commits[base][f] # commits[c][f]}

\* discoverFiles takes an empty list of changed files for all files.
Discover(changed) == IF changed = {} THEN Files ELSE changed

\* buildIncrementalPlan: a full scan if that is asked for, or nothing is in
\* the cache, or what is there cannot be found in the repository any more.
\* A service narrows the list of changed files only.
Plan ==
  /\ exec.pc = "plan"
  /\ \E files \in
       {Files} \cup (IF cache = NoCommit THEN {}
                     ELSE LET changed == ChangedFilesBetween(cache, exec.commit)
                          IN {Discover(IF exec.service THEN changed \cap ServiceFiles ELSE changed)}) :
       exec' = [exec EXCEPT !.pc = "scan", !.files = files]
  /\ UNCHANGED <<repository, baseline, exit>>

\* runScan reads the working tree.  It may fail for reasons of its own, and
\* end in an error.
Scan ==
  /\ exec.pc = "scan"
  /\ LET found == {<<f, work[f]>> : f \in exec.files} \cap (blocking \ waived) IN
     \/ \E decision \in IF found = {} THEN {"PASS", "FAIL"} ELSE {"FAIL"} :
          exec' = [exec EXCEPT !.pc = "publish", !.files = {}, !.decision = decision] /\ UNCHANGED exit
     \/ Leave("RUNTIME_FAILURE")
  /\ UNCHANGED <<repository, baseline>>

Mandatory == exec.command = "compliance-publish" \/ "compliance" \in exec.setup
Optional == ~ Mandatory /\ exec.setup # {}

\* Mutant of Publish: every failure to publish is only logged.
PublishLeniently ==
  /\ exec.pc = "publish"
  /\ \E stored, sent \in BOOLEAN :
       exec' = [exec EXCEPT !.pc = "consumers", !.stored = stored, !.sent = sent]
  /\ UNCHANGED <<repository, baseline, exit>>

\* publishCompliance: to the local store, then to the endpoint if there is
\* one.  A failure ends a mandatory publication and is logged for an optional
\* one, which stays local.
Publish ==
  /\ exec.pc = "publish"
  /\ \/ ~ Mandatory /\ ~ Optional /\ Goto("consumers")
     \/ Optional /\ \E stored \in BOOLEAN :
          exec' = [exec EXCEPT !.pc = "consumers", !.stored = stored] /\ UNCHANGED exit
     \/ Mandatory /\ exec' = [exec EXCEPT !.pc = "consumers", !.stored = TRUE, !.sent = TRUE]
                  /\ UNCHANGED exit
     \/ Mandatory /\ \E stored \in BOOLEAN :
          exec' = [exec EXCEPT !.pc = "done", !.stored = stored] /\ exit' = "RUNTIME_FAILURE"
  /\ UNCHANGED <<repository, baseline>>

\* reportCraFindings keeps every error to itself; reportConfiguredConsumers
\* does not when the application's database cannot be used.
Consumers ==
  /\ exec.pc = "consumers"
  /\ \/ Goto("output")
     \/ exec.stored /\ "consumers" \in exec.setup /\ Leave("RUNTIME_FAILURE")
  /\ UNCHANGED <<repository, baseline>>

Code == IF exec.decision = "FAIL" THEN "POLICY_FAILURE" ELSE "PASS"

\* The report is written, the Gerrit review posted; compliance publish ends
\* before the cache.
Output ==
  /\ exec.pc = "output"
  /\ \/ IF exec.command = "compliance-publish" THEN Leave(Code) ELSE Goto("cache")
     \/ Leave("RUNTIME_FAILURE")
     \/ exec.command = "scan" /\ Leave("CONFIGURATION_FAILURE")
  /\ UNCHANGED <<repository, baseline>>

\* Mutant of Passed: uncommitted edits do not matter.
PassedDirty == exec.decision # "FAIL"

Passed == exec.decision # "FAIL" /\ ~ exec.dirty

\* writeIncrementalCache is not atomic: a failure leaves the old file or one
\* that cannot be read.
WriteCache ==
  /\ exec.pc = "cache"
  /\ \/ ~ Passed /\ Leave(Code) /\ UNCHANGED baseline
     \/ /\ Passed /\ Leave(Code)
        /\ cache' = exec.commit /\ limited' = (limited \/ exec.service)
     \/ Passed /\ cache' \in {cache, NoCommit} /\ Leave("RUNTIME_FAILURE")
        /\ UNCHANGED limited
  /\ UNCHANGED repository

\* The execution is killed.
Crash ==
  /\ ~ Idle
  /\ Rest
  /\ cache' \in {cache} \cup (IF exec.pc = "cache" /\ Passed THEN {NoCommit} ELSE {})
  /\ UNCHANGED <<repository, limited>>

Execution == Plan \/ Scan \/ Publish \/ Consumers \/ Output \/ WriteCache

Next == Edit \/ Discard \/ Commit \/ Expire \/ Start \/ Execution \/ Crash

Spec == Init /\ [][Next]_vars

-----------------------------------------------------------------------------
(* Properties.                                                             *)

Unrestricted == exit = "PASS" /\ ~ exec.dirty /\ ~ exec.service
Holds(S) == \E f \in Files : <<f, commits[exec.commit][f]>> \in S

\* An execution that passes on a clean working tree, however little of it was
\* scanned this time, means that no file of the commit holds a finding that
\* the policy blocks and no waiver has ever covered: what incremental
\* executions leave out was passed before, whatever executions failed, were
\* killed or saw uncommitted edits in between.  (As long as no execution for
\* one service has moved the cache.  A waiver that has expired since is not
\* looked at again: the file has to change first.)
PassMeansVetted == Unrestricted /\ ~ limited => ~ Holds(blocking \ excused)

\* Where publication is mandatory, an execution that answers with its decision
\* has stored and sent its evidence.
MandatoryPublished ==
  exit \in {"PASS", "POLICY_FAILURE"} /\ Mandatory => exec.stored /\ exec.sent
=============================================================================
