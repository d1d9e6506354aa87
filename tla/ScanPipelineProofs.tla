------------------------- MODULE ScanPipelineProofs -------------------------
(***************************************************************************)
(* Proofs about ScanPipeline, for any number of files, commits, edits and  *)
(* executions: what a passed incremental execution says about the whole    *)
(* commit, and what an execution that must publish has published.  Then    *)
(* proofs about ConsumerReport, which shows the consumers' step of an      *)
(* execution from within, for any configurations, reports and executions:  *)
(* what becomes of one consumer is its own affair.                         *)
(***************************************************************************)
EXTENDS ScanPipeline, ConsumerReport, SequenceTheorems, WellFoundedInduction, TLAPS

Steps == {"plan", "scan", "publish", "consumers", "output", "cache", "done"}
Codes == {"none", "PASS", "POLICY_FAILURE", "RUNTIME_FAILURE", "CONFIGURATION_FAILURE"}
Executions ==
  [pc : Steps, command : {"scan", "release-check", "compliance-publish"},
   setup : SUBSET {"compliance", "consumers", "cra"}, service : BOOLEAN, commit : Nat \ {0},
   dirty : BOOLEAN, files : SUBSET Files, decision : {"none", "PASS", "FAIL"},
   stored : BOOLEAN, sent : BOOLEAN]

\* The repository: a commit has no version that is younger than itself, a
\* waiver covers what is blocked, and a version that is only in the working
\* tree is in no commit.
Repository ==
  /\ commits \in Seq([Files -> Versions]) /\ Len(commits) \in 1 .. MaxCommits
  /\ \A i \in Commits, f \in Files : commits[i][f] <= Len(commits)
  /\ work \in [Files -> Versions]
  /\ \A f \in Files : work[f] = Draft \/ work[f] <= Len(commits)
  /\ waived \subseteq excused /\ excused \subseteq blocking
  /\ blocking \subseteq Files \X Versions

Types ==
  /\ cache \in Commits \cup {NoCommit} /\ limited \in BOOLEAN
  /\ exec \in Executions /\ exec.commit \in Commits
  /\ exit \in Codes

\* No file of the commit has a finding that was never excused.
Vetted(c) == \A f \in Files : <<f, commits[c][f]>> \notin blocking \ excused

\* Nobody commits or edits while an execution is under way.
Undisturbed ==
  exec.pc \in {"plan", "scan"} =>
    exec.commit = Newest /\ (~ exec.dirty => work = commits[Newest])

\* An incremental execution leaves out only what was vetted before; one that
\* decides PASS has vetted its commit; and so is the commit in the cache.
Incremental ==
  ~ limited =>
    /\ cache # NoCommit => Vetted(cache)
    /\ exec.pc = "scan" /\ ~ exec.service =>
         \A f \in Files \ exec.files : <<f, commits[exec.commit][f]>> \notin blocking \ excused
    /\ exec.decision = "PASS" /\ ~ exec.dirty /\ ~ exec.service => Vetted(exec.commit)

\* An execution has a decision from its scan to its end, and answers with it.
Decided ==
  /\ exec.pc \in {"plan", "scan"} => exec.decision = "none"
  /\ exec.pc \in {"publish", "consumers", "output", "cache"} => exec.decision # "none"
  /\ exit # "none" => exec.pc = "done"
  /\ exit \in {"PASS", "POLICY_FAILURE"} => exec.decision # "none"
  /\ exit = "PASS" => exec.decision = "PASS"

\* Nothing is decided for good before what must be published has been.
Sent ==
  Mandatory /\ (exec.pc \in {"consumers", "output", "cache"} \/ exit \in {"PASS", "POLICY_FAILURE"})
    => exec.stored /\ exec.sent

PipelineInv == Repository /\ Types /\ Undisturbed /\ Incremental /\ Decided /\ Sent

-----------------------------------------------------------------------------
(* The repository.                                                         *)

\* What a step of the repository leaves of the commits that were there: their
\* trees, and which of their versions block.
Kept ==
  \A c \in Commits :
    /\ c \in DOMAIN commits' /\ commits'[c] = commits[c]
    /\ \A f \in Files :
         <<f, commits[c][f]>> \in (blocking \ excused)' => <<f, commits[c][f]>> \in blocking \ excused

\* Init establishes the invariant: nothing is cached and nothing is running.
LEMMA InitPipeline == ASSUME PipelineAssumption, Init PROVE PipelineInv
<1>1. Repository
  <2>1. [f \in Files |-> 1] \in [Files -> Versions]  BY SMT DEF PipelineAssumption, Versions, Draft
  <2>2. commits \in Seq([Files -> Versions]) /\ Len(commits) = 1 /\ commits[1] = [f \in Files |-> 1]
    BY <2>1 DEF Init
  <2>3. blocking \subseteq Files \X Versions  BY SMT DEF Init, PipelineAssumption, Versions, Draft
  <2> QED  BY <2>1, <2>2, <2>3, SMT DEF Repository, Init, PipelineAssumption, Commits
<1>2. NoExecution \in Executions  BY DEF NoExecution, Executions, Steps
<1>3. Types
  <2>1. NoExecution.commit = 1 /\ 1 \in Commits
    BY <1>1, SMT DEF NoExecution, Repository, Commits
  <2>2. exec = NoExecution /\ cache = NoCommit /\ limited = FALSE /\ exit = "none"  BY DEF Init
  <2> QED  BY <1>2, <2>1, <2>2, Zenon DEF Types, Codes
<1> QED  BY <1>1, <1>3 DEF PipelineInv, Init, NoExecution, Undisturbed, Incremental, Decided, Sent

\* A commit has no draft in it.
LEMMA CommitsAreNamed ==
  ASSUME PipelineAssumption, Repository, NEW c \in Commits, NEW f \in Files
  PROVE  commits[c] \in [Files -> Versions] /\ commits[c][f] \in Nat /\ commits[c][f] <= Newest
         /\ commits[c][f] # Draft
<1>1. commits[c] \in [Files -> Versions]  BY DEF Repository, Commits
<1>2. commits[c][f] \in Versions  BY <1>1
<1> QED  BY <1>1, <1>2, SMT DEF Repository, PipelineAssumption, Commits, Newest, Versions, Draft

\* The newest commit is one of the commits.
LEMMA NewestIsCommit == ASSUME Repository PROVE Newest \in Commits /\ Newest \in Nat \ {0}
BY SMT DEF Repository, Newest, Commits

\* An edit touches drafts only.
LEMMA EditKeeps == ASSUME PipelineAssumption, Repository, Edit PROVE Repository' /\ Kept
<1>1. PICK f \in Files : work[f] # Draft /\ work' = [work EXCEPT ![f] = Draft]
        /\ \E blocks, excuse \in BOOLEAN :
             /\ excuse => blocks
             /\ blocking' = IF blocks THEN blocking \cup {<<f, Draft>>} ELSE blocking
             /\ waived' = IF excuse THEN waived \cup {<<f, Draft>>} ELSE waived
             /\ excused' = IF excuse THEN excused \cup {<<f, Draft>>} ELSE excused
  BY Zenon DEF Edit
<1>2. PICK blocks \in BOOLEAN, excuse \in BOOLEAN :
        /\ excuse => blocks
        /\ blocking' = IF blocks THEN blocking \cup {<<f, Draft>>} ELSE blocking
        /\ waived' = IF excuse THEN waived \cup {<<f, Draft>>} ELSE waived
        /\ excused' = IF excuse THEN excused \cup {<<f, Draft>>} ELSE excused
  BY <1>1
<1>3. commits' = commits  BY DEF Edit
<1>4. Draft \in Versions  BY SMT DEF PipelineAssumption, Draft, Versions
<1>5. Repository'
  <2>1. work' \in [Files -> Versions]  BY <1>1, <1>4 DEF Repository
  <2>2. \A g \in Files : work'[g] = Draft \/ work'[g] <= Len(commits)  BY <1>1 DEF Repository
  <2>3. waived' \subseteq excused' /\ excused' \subseteq blocking'  BY <1>2 DEF Repository
  <2>4. blocking' \subseteq Files \X Versions  BY <1>2, <1>4 DEF Repository
  <2> QED  BY <2>1, <2>2, <2>3, <2>4, <1>3, Zenon DEF Repository, Commits, Versions, Draft
<1>6. Kept
  <2> SUFFICES ASSUME NEW c \in Commits, NEW g \in Files,
                      <<g, commits[c][g]>> \in (blocking \ excused)'
               PROVE  <<g, commits[c][g]>> \in blocking \ excused
    BY <1>3, Zenon DEF Kept, Commits
  <2>1. <<g, commits[c][g]>> # <<f, Draft>>  BY CommitsAreNamed
  <2> QED  BY <2>1, <1>2
<1> QED  BY <1>5, <1>6

\* So does throwing the edits away.
LEMMA DiscardKeeps == ASSUME PipelineAssumption, Repository, Discard PROVE Repository' /\ Kept
<1>1. /\ work' = commits[Newest] /\ commits' = commits
      /\ blocking' = blocking \ (Files \X {Draft}) /\ waived' = waived \ (Files \X {Draft})
      /\ excused' = excused \ (Files \X {Draft})
  BY Zenon DEF Discard
<1>2. Repository'
  <2>1. work' \in [Files -> Versions] /\ \A f \in Files : work'[f] <= Len(commits)
    <3>1. Newest \in Commits  BY NewestIsCommit
    <3>2. \A f \in Files : commits[Newest][f] <= Newest  BY <3>1, CommitsAreNamed
    <3>3. commits[Newest] \in [Files -> Versions]  BY <3>1 DEF Repository, Commits
    <3> QED  BY <3>2, <3>3, <1>1, Zenon DEF Newest
  <2>2. waived' \subseteq excused' /\ excused' \subseteq blocking'  BY <1>1 DEF Repository
  <2>3. blocking' \subseteq Files \X Versions  BY <1>1 DEF Repository
  <2> QED  BY <2>1, <2>2, <2>3, <1>1, Zenon DEF Repository, Commits, Versions, Draft
<1>3. Kept
  <2> SUFFICES ASSUME NEW c \in Commits, NEW g \in Files,
                      <<g, commits[c][g]>> \in (blocking \ excused)'
               PROVE  <<g, commits[c][g]>> \in blocking \ excused
    BY <1>1, Zenon DEF Kept, Commits
  <2>1. <<g, commits[c][g]>> \notin Files \X {Draft}  BY CommitsAreNamed
  <2> QED  BY <2>1, <1>1
<1> QED  BY <1>2, <1>3

\* A commit gives drafts a number that no commit has seen.
LEMMA CommitKeeps == ASSUME PipelineAssumption, Repository, Commit PROVE Repository' /\ Kept
<1> DEFINE n == Newest + 1
           Named(S) == {<<f, work'[f]>> : f \in {g \in Files : <<g, work[g]>> \in S}}
<1>1. /\ work' = [f \in Files |-> IF work[f] = Draft THEN n ELSE work[f]]
      /\ commits' = Append(commits, work')
      /\ blocking' = Named(blocking) /\ waived' = Named(waived) /\ excused' = Named(excused)
      /\ Len(commits) < MaxCommits
  BY Zenon DEF Commit
<1>2. n \in Versions /\ Newest \in Nat /\ n \in Nat
  BY <1>1, NewestIsCommit, SMT DEF PipelineAssumption, Versions, Draft, Newest
<1>3. work' \in [Files -> Versions]  BY <1>1, <1>2 DEF Repository
<1>4. \A f \in Files : work'[f] <= n
  <2> TAKE f \in Files
  <2>1. CASE work[f] = Draft  BY <2>1, <1>1, <1>2
  <2>2. CASE work[f] # Draft
    <3>1. work'[f] = work[f] /\ work[f] \in Versions /\ work[f] <= Newest
      BY <2>2, <1>1 DEF Repository, Newest
    <3> QED  BY <3>1, <1>2, SMT DEF Versions
  <2> QED  BY <2>1, <2>2
<1>5. /\ commits' \in Seq([Files -> Versions]) /\ Len(commits') = n
      /\ \A c \in Commits : c \in DOMAIN commits' /\ commits'[c] = commits[c]
      /\ commits'[n] = work' /\ DOMAIN commits' = 1 .. n
  BY <1>1, <1>3, <1>2, AppendProperties, SMT DEF Repository, Commits, Newest
<1>6. Repository'
  <2>1. \A c \in DOMAIN commits', f \in Files : commits'[c][f] <= Len(commits')
    <3> TAKE c \in DOMAIN commits', f \in Files
    <3>1. CASE c \in Commits
      BY <3>1, <1>5, <1>2, CommitsAreNamed, SMT
    <3>2. CASE c \notin Commits
      <4>1. c = n  BY <3>2, <1>5, <1>2, SMT DEF Commits, Newest, Repository
      <4> QED  BY <4>1, <1>5, <1>4
    <3> QED  BY <3>1, <3>2
  <2>2. Len(commits') \in 1 .. MaxCommits  BY <1>5, <1>1, <1>2, SMT DEF Newest, PipelineAssumption
  <2>3. waived' \subseteq excused' /\ excused' \subseteq blocking'  BY <1>1 DEF Repository
  <2>4. blocking' \subseteq Files \X Versions
    <3> SUFFICES ASSUME NEW b \in Named(blocking) PROVE b \in Files \X Versions
      BY <1>1, Zenon
    <3>1. PICK f \in Files : b = <<f, work'[f]>>  OBVIOUS
    <3> QED  BY <3>1, <1>3
  <2> QED  BY <2>1, <2>2, <2>3, <2>4, <1>3, <1>4, <1>5, Zenon DEF Repository, Commits, Versions, Draft
<1>7. Kept
  <2> SUFFICES ASSUME NEW c \in Commits, NEW g \in Files,
                      <<g, commits[c][g]>> \in (blocking \ excused)'
               PROVE  <<g, commits[c][g]>> \in blocking \ excused
    BY <1>5, Zenon DEF Kept
  <2>1. PICK f \in Files : <<f, work[f]>> \in blocking /\ <<g, commits[c][g]>> = <<f, work'[f]>>
    BY <1>1
  <2>2. g = f /\ commits[c][g] = work'[g] /\ <<g, work[g]>> \in blocking  BY <2>1
  <2>3. <<g, work[g]>> \notin excused
    <3>1. <<g, work'[g]>> \notin Named(excused)  BY <2>2, <1>1
    <3> QED  BY <3>1
  <2>4. work[g] # Draft
    <3>1. commits[c][g] \in Nat /\ commits[c][g] <= Newest  BY CommitsAreNamed
    <3>2. work'[g] # n  BY <3>1, <2>2, <1>2, SMT
    <3> QED  BY <3>2, <1>1
  <2> QED  BY <2>2, <2>3, <2>4, <1>1
<1> QED  BY <1>6, <1>7

\* A waiver that expires blocks nothing that was not excused.
LEMMA ExpireKeeps == ASSUME Repository, Expire PROVE Repository' /\ Kept
BY SMT DEF Repository, Kept, Expire, Commits, Versions, Draft

\* Between executions the invariant holds of what has been cached.
LEMMA RepositoryNext ==
  ASSUME PipelineAssumption, PipelineInv, Edit \/ Discard \/ Commit \/ Expire
  PROVE  PipelineInv'
<1>1. Repository' /\ Kept
  BY EditKeeps, DiscardKeeps, CommitKeeps, ExpireKeeps DEF PipelineInv
<1>2. exec' = NoExecution /\ exit' = "none" /\ UNCHANGED baseline
  BY DEF Edit, Discard, Commit, Expire, Rest
<1>3. NoExecution \in Executions  BY DEF NoExecution, Executions, Steps
<1>4. \A c \in Commits : Vetted(c) => Vetted(c)'
  BY <1>1 DEF Kept, Vetted
<1>5. Types'
  <2>1. cache' \in (Commits \cup {NoCommit})'
    BY <1>1, <1>2 DEF Kept, Commits, baseline, PipelineInv, Types
  <2>2. 1 \in Commits'  BY <1>1, SMT DEF Repository, Commits
  <2> QED  BY <2>1, <2>2, <1>2, <1>3 DEF Types, baseline, NoExecution, Codes, PipelineInv
<1>6. Incremental'
  <2>1. ~ limited /\ cache # NoCommit => Vetted(cache)'
    <3>1. ~ limited /\ cache # NoCommit => Vetted(cache) /\ cache \in Commits
      BY DEF PipelineInv, Incremental, Types
    <3>2. cache' = cache  BY <1>2 DEF baseline
    <3> QED  BY <3>1, <3>2, <1>4, <1>1 DEF Kept, Vetted
  <2> QED  BY <2>1, <1>2 DEF Incremental, baseline, NoExecution
<1> QED  BY <1>1, <1>2, <1>5, <1>6 DEF PipelineInv, NoExecution, Undisturbed, Decided, Sent

-----------------------------------------------------------------------------
(* Executions.                                                             *)

\* An execution leaves the repository to the developers.
LEMMA Elsewhere ==
  ASSUME PipelineInv, UNCHANGED repository
  PROVE  /\ Repository'
         /\ Commits' = Commits /\ Newest' = Newest
         /\ \A c \in Commits : Vetted(c)' <=> Vetted(c)
         /\ \A c \in Commits : commits'[c] = commits[c]
         /\ work' = work /\ blocking' = blocking /\ excused' = excused
<1>1. /\ commits' = commits /\ work' = work /\ blocking' = blocking
      /\ waived' = waived /\ excused' = excused
  BY DEF repository
<1>2. Repository'  BY <1>1 DEF PipelineInv, Repository, Commits, Versions, Draft
<1> QED  BY <1>1, <1>2 DEF Vetted, Commits, Newest

\* An execution starts on the newest commit and knows whether it is dirty.
LEMMA StartNext == ASSUME PipelineAssumption, PipelineInv, Start PROVE PipelineInv'
<1>1. PICK i \in Invocations : exec' = Fresh(i)  BY DEF Start
<1>2. exit' = "none" /\ UNCHANGED repository /\ cache' = cache /\ limited' = limited
  BY DEF Start, baseline
<1>3. /\ i.command \in {"scan", "release-check", "compliance-publish"}
      /\ i.setup \in SUBSET {"compliance", "consumers", "cra"} /\ i.service \in BOOLEAN
  BY DEF PipelineAssumption
<1>4. Newest \in Commits /\ Newest \in Nat \ {0}  BY NewestIsCommit DEF PipelineInv
<1>5. Fresh(i) \in Executions
  <2>1. (work # commits[Newest]) \in BOOLEAN  OBVIOUS
  <2> QED  BY <1>3, <1>4, <2>1, Zenon DEF Fresh, Executions, Steps
<1>6. /\ exec'.pc = "plan" /\ exec'.commit = Newest /\ exec'.decision = "none"
      /\ ~ exec'.dirty => work = commits[Newest]
  BY <1>1 DEF Fresh
<1>7. Types'  BY <1>1, <1>2, <1>4, <1>5, <1>6, Elsewhere, Zenon DEF PipelineInv, Types, Codes
<1>8. Undisturbed'  BY <1>2, <1>4, <1>6, Elsewhere DEF Undisturbed
<1>9. Incremental'
  <2>1. ~ limited /\ cache # NoCommit => Vetted(cache) /\ cache \in Commits
    BY DEF PipelineInv, Incremental, Types
  <2>2. ~ limited /\ cache # NoCommit => Vetted(cache)'
    BY <2>1, <1>2, Elsewhere DEF Vetted
  <2> QED  BY <2>2, <1>2, <1>6 DEF Incremental
<1> QED  BY <1>2, <1>6, <1>7, <1>8, <1>9, Elsewhere DEF PipelineInv, Decided, Sent

\* A plan leaves out files that have not changed since the commit in the cache.
LEMMA PlanNext == ASSUME PipelineAssumption, PipelineInv, Plan PROVE PipelineInv'
<1>1. PICK files \in
        {Files} \cup (IF cache = NoCommit THEN {}
                      ELSE LET changed == ChangedFilesBetween(cache, exec.commit)
                           IN {Discover(IF exec.service THEN changed \cap ServiceFiles ELSE changed)}) :
        exec' = [exec EXCEPT !.pc = "scan", !.files = files]
  BY Zenon DEF Plan
<1>2. exec.pc = "plan" /\ exit' = exit /\ UNCHANGED repository /\ cache' = cache /\ limited' = limited
  BY DEF Plan, baseline
<1>3. exec \in Executions /\ exec.commit \in Commits  BY DEF PipelineInv, Types
<1>4. files \subseteq Files
  BY <1>1 DEF PipelineAssumption, ChangedFilesBetween, Discover
<1>5. exec' \in Executions  BY <1>1, <1>3, <1>4 DEF Executions, Steps
<1>6. /\ exec'.pc = "scan" /\ exec'.files = files /\ exec'.commit = exec.commit
      /\ exec'.dirty = exec.dirty /\ exec'.service = exec.service /\ exec'.decision = exec.decision
  BY <1>1, <1>3 DEF Executions
<1>7. Types'  BY <1>2, <1>3, <1>5, <1>6, Elsewhere, Zenon DEF PipelineInv, Types
<1>8. exec.commit = Newest /\ (~ exec.dirty => work = commits[Newest]) /\ exec.decision = "none"
  BY <1>2 DEF PipelineInv, Undisturbed, Decided
<1>9. Undisturbed'
  <2>1. commits' = commits /\ work' = work /\ Newest' = Newest  BY <1>2 DEF repository, Newest
  <2> QED  BY <2>1, <1>6, <1>8 DEF Undisturbed
<1>10. ASSUME ~ limited, ~ exec.service, NEW f \in Files \ files
       PROVE  <<f, commits[exec.commit][f]>> \notin blocking \ excused
  <2>1. cache # NoCommit /\ files = Discover(ChangedFilesBetween(cache, exec.commit))
    <3>1. files # Files  BY <1>10
    <3>2. cache # NoCommit  BY <3>1, <1>1
    <3> QED  BY <3>1, <3>2, <1>1, <1>10
  <2>2. commits[cache][f] = commits[exec.commit][f]
    BY <1>10, <2>1 DEF Discover, ChangedFilesBetween
  <2>3. Vetted(cache)  BY <1>10, <2>1 DEF PipelineInv, Incremental
  <2> QED  BY <1>10, <2>2, <2>3 DEF Vetted
<1>11. Incremental'
  <2>1. ~ limited /\ cache # NoCommit => Vetted(cache)'
    <3>1. ~ limited /\ cache # NoCommit => Vetted(cache) /\ cache \in Commits
      BY DEF PipelineInv, Incremental, Types
    <3> QED  BY <3>1, <1>2, Elsewhere DEF Vetted
  <2>2. commits' = commits  BY <1>2 DEF repository
  <2> QED  BY <2>1, <2>2, <1>2, <1>6, <1>8, <1>10, Elsewhere DEF Incremental
<1> QED
  BY <1>2, <1>6, <1>7, <1>8, <1>9, <1>11, Elsewhere DEF PipelineInv, Decided, Sent

\* A scan that finds nothing in the files it was given, on a clean working
\* tree, completes what the plan left out.
LEMMA ScanNext == ASSUME PipelineAssumption, PipelineInv, Scan PROVE PipelineInv'
<1> DEFINE found == {<<f, work[f]>> : f \in exec.files} \cap (blocking \ waived)
<1>1. \/ \E decision \in IF found = {} THEN {"PASS", "FAIL"} ELSE {"FAIL"} :
           /\ exec' = [exec EXCEPT !.pc = "publish", !.files = {}, !.decision = decision]
           /\ exit' = exit
      \/ exec' = [exec EXCEPT !.pc = "done"] /\ exit' = "RUNTIME_FAILURE"
  BY Zenon DEF Scan, Leave
<1>2. exec.pc = "scan" /\ UNCHANGED repository /\ cache' = cache /\ limited' = limited
  BY DEF Scan, baseline
<1>3. exec \in Executions /\ exec.commit \in Commits /\ exit \in Codes /\ exit = "none"
      /\ exec.decision = "none"
  BY <1>2 DEF PipelineInv, Types, Decided
<1>4. ~ limited /\ cache # NoCommit => Vetted(cache)'
  <2>1. ~ limited /\ cache # NoCommit => Vetted(cache) /\ cache \in Commits
    BY DEF PipelineInv, Incremental, Types
  <2> QED  BY <2>1, <1>2, Elsewhere DEF Vetted
<1>5. CASE exec' = [exec EXCEPT !.pc = "done"] /\ exit' = "RUNTIME_FAILURE"
  <2>1. exec' \in Executions  BY <1>3, <1>5 DEF Executions, Steps
  <2>2. exec'.pc = "done" /\ exec'.commit = exec.commit /\ exec'.decision = "none"
    BY <1>3, <1>5 DEF Executions
  <2>3. Types'
    BY <1>2, <1>3, <1>5, <2>1, <2>2, Elsewhere, Zenon DEF PipelineInv, Types, Codes
  <2> QED
    BY <1>2, <1>4, <1>5, <2>2, <2>3, Elsewhere
    DEF PipelineInv, Undisturbed, Incremental, Decided, Sent
<1>6. CASE \E decision \in IF found = {} THEN {"PASS", "FAIL"} ELSE {"FAIL"} :
             /\ exec' = [exec EXCEPT !.pc = "publish", !.files = {}, !.decision = decision]
             /\ exit' = exit
  <2>1. PICK decision \in {"PASS", "FAIL"} :
          /\ decision = "PASS" => found = {}
          /\ exec' = [exec EXCEPT !.pc = "publish", !.files = {}, !.decision = decision]
          /\ exit' = exit
    BY <1>6
  <2>2. exec' \in Executions  BY <1>3, <2>1 DEF Executions, Steps
  <2>3. /\ exec'.pc = "publish" /\ exec'.commit = exec.commit /\ exec'.decision = decision
        /\ exec'.dirty = exec.dirty /\ exec'.service = exec.service
    BY <1>3, <2>1 DEF Executions
  <2>4. Types'
    BY <1>2, <1>3, <2>1, <2>2, <2>3, Elsewhere, Zenon DEF PipelineInv, Types
  <2>5. ASSUME ~ limited, decision = "PASS", ~ exec.dirty, ~ exec.service PROVE Vetted(exec.commit)
    <3> SUFFICES ASSUME NEW f \in Files
                 PROVE  <<f, commits[exec.commit][f]>> \notin blocking \ excused
      BY Zenon DEF Vetted
    <3>1. CASE f \in exec.files
      <4>1. work[f] = commits[exec.commit][f]
        BY <1>2, <2>5 DEF PipelineInv, Undisturbed
      <4>2. <<f, work[f]>> \notin blocking \ waived  BY <3>1, <2>1, <2>5
      <4>3. waived \subseteq excused  BY DEF PipelineInv, Repository
      <4> QED  BY <4>1, <4>2, <4>3
    <3>2. CASE f \notin exec.files
      BY <3>2, <1>2, <2>5 DEF PipelineInv, Incremental
    <3> QED  BY <3>1, <3>2
  <2>6. Incremental'
    <3>1. Vetted(exec.commit)' <=> Vetted(exec.commit)
      BY <2>3, <1>2, <1>3, Elsewhere DEF Vetted
    <3> QED  BY <3>1, <1>2, <1>4, <2>3, <2>5, Zenon DEF Incremental
  <2> QED
    BY <1>2, <1>3, <2>1, <2>3, <2>4, <2>6, Elsewhere
    DEF PipelineInv, Undisturbed, Decided, Sent
<1> QED  BY <1>1, <1>5, <1>6

\* What follows the scan keeps its decision and leaves the cache alone, until
\* the cache is written.
Carries ==
  /\ UNCHANGED repository /\ cache' = cache /\ limited' = limited
  /\ exec' \in Executions /\ exit' \in Codes
  /\ exec'.commit = exec.commit /\ exec'.dirty = exec.dirty /\ exec'.service = exec.service
  /\ exec'.decision = exec.decision
  /\ exec'.pc \notin {"plan", "scan"}

LEMMA CarriesKeeps ==
  ASSUME PipelineInv, Carries PROVE Repository' /\ Types' /\ Undisturbed' /\ Incremental'
<1>1. exec.commit \in Commits  BY DEF PipelineInv, Types
<1>2. Types'  BY <1>1, Elsewhere, Zenon DEF PipelineInv, Types, Carries
<1>3. Undisturbed'  BY DEF Carries, Undisturbed
<1>4. Incremental'
  <2>1. ~ limited /\ cache # NoCommit => Vetted(cache)'
    <3>1. ~ limited /\ cache # NoCommit => Vetted(cache) /\ cache \in Commits
      BY DEF PipelineInv, Incremental, Types
    <3> QED  BY <3>1, Elsewhere DEF Carries, Vetted
  <2>2. Vetted(exec.commit)' <=> Vetted(exec.commit)
    BY <1>1, Elsewhere DEF Carries, Vetted
  <2> QED  BY <2>1, <2>2 DEF PipelineInv, Incremental, Carries
<1> QED  BY <1>2, <1>3, <1>4, Elsewhere DEF Carries

\* Where an execution is told to be, and what it keeps on the way.
LEMMA Turn ==
  ASSUME exec \in Executions, NEW step \in Steps
  PROVE  /\ [exec EXCEPT !.pc = step] \in Executions
         /\ [exec EXCEPT !.pc = step].pc = step
         /\ \A field \in {"commit", "dirty", "service", "decision", "command", "setup", "stored", "sent"} :
              [exec EXCEPT !.pc = step][field] = exec[field]
BY DEF Executions

\* A mandatory publication that fails ends the execution.
LEMMA PublishNext == ASSUME PipelineInv, Publish PROVE PipelineInv'
<1>1. exec.pc = "publish" /\ exec \in Executions /\ exit = "none" /\ exec.decision # "none"
  BY DEF Publish, PipelineInv, Types, Decided, Codes
<1>2. UNCHANGED repository /\ cache' = cache /\ limited' = limited  BY DEF Publish, baseline
<1>3. \E step \in {"consumers", "done"}, stored, sent \in BOOLEAN :
        /\ exec' = [exec EXCEPT !.pc = step, !.stored = stored, !.sent = sent]
        /\ step = "consumers" => exit' = exit /\ (Mandatory => stored /\ sent)
        /\ step = "done" => exit' = "RUNTIME_FAILURE"
  <2>1. CASE ~ Mandatory /\ ~ Optional /\ Goto("consumers")
    <3>1. [exec EXCEPT !.pc = "consumers"]
            = [exec EXCEPT !.pc = "consumers", !.stored = exec.stored, !.sent = exec.sent]
      BY <1>1 DEF Executions
    <3>2. exec.stored \in BOOLEAN /\ exec.sent \in BOOLEAN  BY <1>1 DEF Executions
    <3> QED  BY <2>1, <3>1, <3>2 DEF Goto
  <2>2. CASE Optional /\ \E stored \in BOOLEAN :
               exec' = [exec EXCEPT !.pc = "consumers", !.stored = stored] /\ exit' = exit
    <3>1. PICK stored \in BOOLEAN :
            exec' = [exec EXCEPT !.pc = "consumers", !.stored = stored] /\ exit' = exit
      BY <2>2
    <3>2. [exec EXCEPT !.pc = "consumers", !.stored = stored]
            = [exec EXCEPT !.pc = "consumers", !.stored = stored, !.sent = exec.sent]
      BY <1>1 DEF Executions
    <3>3. exec.sent \in BOOLEAN  BY <1>1 DEF Executions
    <3> QED  BY <2>2, <3>1, <3>2, <3>3 DEF Optional
  <2>3. CASE exec' = [exec EXCEPT !.pc = "consumers", !.stored = TRUE, !.sent = TRUE] /\ exit' = exit
    BY <2>3
  <2>4. CASE \E stored \in BOOLEAN :
               exec' = [exec EXCEPT !.pc = "done", !.stored = stored] /\ exit' = "RUNTIME_FAILURE"
    <3>1. PICK stored \in BOOLEAN :
            exec' = [exec EXCEPT !.pc = "done", !.stored = stored] /\ exit' = "RUNTIME_FAILURE"
      BY <2>4
    <3>2. [exec EXCEPT !.pc = "done", !.stored = stored]
            = [exec EXCEPT !.pc = "done", !.stored = stored, !.sent = exec.sent]
      BY <1>1 DEF Executions
    <3>3. exec.sent \in BOOLEAN  BY <1>1 DEF Executions
    <3> QED  BY <3>1, <3>2, <3>3
  <2> QED  BY <2>1, <2>2, <2>3, <2>4, Zenon DEF Publish
<1>4. PICK step \in {"consumers", "done"}, stored \in BOOLEAN, sent \in BOOLEAN :
        /\ exec' = [exec EXCEPT !.pc = step, !.stored = stored, !.sent = sent]
        /\ step = "consumers" => exit' = exit /\ (Mandatory => stored /\ sent)
        /\ step = "done" => exit' = "RUNTIME_FAILURE"
  BY <1>3
<1>5. exec' \in Executions  BY <1>1, <1>4 DEF Executions, Steps
<1>6. /\ exec'.pc = step /\ exec'.commit = exec.commit /\ exec'.dirty = exec.dirty
      /\ exec'.service = exec.service /\ exec'.decision = exec.decision
      /\ exec'.command = exec.command /\ exec'.setup = exec.setup
      /\ exec'.stored = stored /\ exec'.sent = sent
  BY <1>1, <1>4 DEF Executions
<1>7. exit' \in {"none", "RUNTIME_FAILURE"} /\ (step = "consumers" => exit' = "none")
  BY <1>1, <1>4
<1>8. Carries  BY <1>2, <1>5, <1>6, <1>7 DEF Carries, Codes
<1>9. Decided'  BY <1>1, <1>6, <1>7 DEF Decided
<1>10. Mandatory' <=> Mandatory  BY <1>6 DEF Mandatory
<1>11. Sent'  BY <1>4, <1>6, <1>7, <1>10 DEF Sent
<1> QED  BY <1>8, <1>9, <1>11, CarriesKeeps DEF PipelineInv

\* From there to the end an execution only goes on, or leaves.
Proceeds ==
  \E step \in {"output", "cache", "done"} :
    /\ exec' = [exec EXCEPT !.pc = step]
    /\ step # "done" => exit' = exit
    /\ step = "done" => exit' \in {Code, "RUNTIME_FAILURE", "CONFIGURATION_FAILURE"}

LEMMA ProceedsKeeps ==
  ASSUME PipelineInv, exec.pc \in {"consumers", "output", "cache"}, Proceeds
  PROVE  /\ Decided' /\ Sent'
         /\ UNCHANGED repository /\ cache' = cache /\ limited' = limited => PipelineInv'
<1>1. exec \in Executions /\ exit = "none" /\ exec.decision # "none"
  BY DEF PipelineInv, Types, Decided, Codes
<1>2. PICK step \in {"output", "cache", "done"} :
        /\ exec' = [exec EXCEPT !.pc = step]
        /\ step # "done" => exit' = exit
        /\ step = "done" => exit' \in {Code, "RUNTIME_FAILURE", "CONFIGURATION_FAILURE"}
  BY DEF Proceeds
<1>3. exec' \in Executions  BY <1>1, <1>2, Turn DEF Steps
<1>4. /\ exec'.pc = step /\ exec'.commit = exec.commit /\ exec'.dirty = exec.dirty
      /\ exec'.service = exec.service /\ exec'.decision = exec.decision
      /\ exec'.command = exec.command /\ exec'.setup = exec.setup
      /\ exec'.stored = exec.stored /\ exec'.sent = exec.sent
  BY <1>1, <1>2 DEF Executions
<1>5. exit' \in Codes /\ (step # "done" => exit' = "none") /\ (exit' = "PASS" => exec.decision = "PASS")
  <2>1. exec.decision \in {"none", "PASS", "FAIL"}  BY <1>1 DEF Executions
  <2> QED  BY <1>1, <1>2, <2>1 DEF Codes, Code
<1>6. Decided'  BY <1>1, <1>4, <1>5 DEF Decided
<1>7. Mandatory' <=> Mandatory  BY <1>4 DEF Mandatory
<1>8. Mandatory => exec.stored /\ exec.sent  BY DEF PipelineInv, Sent
<1>9. Sent'  BY <1>4, <1>7, <1>8 DEF Sent
<1>10. UNCHANGED repository /\ cache' = cache /\ limited' = limited => Carries
  BY <1>3, <1>4, <1>5 DEF Carries
<1> QED  BY <1>6, <1>9, <1>10, CarriesKeeps DEF PipelineInv

\* Consumers are told, or the execution fails.
LEMMA ConsumersNext == ASSUME PipelineInv, Consumers PROVE PipelineInv'
<1>1. exec.pc = "consumers" /\ UNCHANGED repository /\ cache' = cache /\ limited' = limited
  BY DEF Consumers, baseline
<1>2. Proceeds  BY DEF Proceeds, Consumers, Goto, Leave
<1> QED  BY <1>1, <1>2, ProceedsKeeps

\* The report is written, or the execution fails.
LEMMA OutputNext == ASSUME PipelineInv, Output PROVE PipelineInv'
<1>1. exec.pc = "output" /\ UNCHANGED repository /\ cache' = cache /\ limited' = limited
  BY DEF Output, baseline
<1>2. Proceeds
  <2>1. \/ exec' = [exec EXCEPT !.pc = "done"] /\ exit' = Code
        \/ exec' = [exec EXCEPT !.pc = "cache"] /\ exit' = exit
        \/ exec' = [exec EXCEPT !.pc = "done"] /\ exit' \in {"RUNTIME_FAILURE", "CONFIGURATION_FAILURE"}
    BY DEF Output, Goto, Leave
  <2> QED  BY <2>1 DEF Proceeds
<1> QED  BY <1>1, <1>2, ProceedsKeeps

\* Only a commit that passed on a clean working tree gets into the cache.
LEMMA WriteCacheNext == ASSUME PipelineInv, WriteCache PROVE PipelineInv'
<1>1. exec.pc = "cache" /\ UNCHANGED repository  BY DEF WriteCache
<1>2. Proceeds
  <2>1. exec' = [exec EXCEPT !.pc = "done"] /\ exit' \in {Code, "RUNTIME_FAILURE"}
    BY DEF WriteCache, Leave
  <2> QED  BY <2>1 DEF Proceeds
<1>3. CASE cache' = cache /\ limited' = limited
  BY <1>1, <1>2, <1>3, ProceedsKeeps
<1>4. CASE Passed /\ Leave(Code) /\ cache' = exec.commit /\ limited' = (limited \/ exec.service)
  <2>1. exec \in Executions /\ exec.commit \in Commits /\ exec.decision = "PASS" /\ ~ exec.dirty
    BY <1>1, <1>4 DEF PipelineInv, Types, Decided, Passed, Executions
  <2>2. ~ limited' => Vetted(exec.commit)
    BY <2>1, <1>4 DEF PipelineInv, Incremental
  <2>3. exec' = [exec EXCEPT !.pc = "done"] /\ exit' \in Codes
    BY <1>4, <2>1 DEF Leave, Code, Codes
  <2>4. exec' \in Executions /\ exec'.commit = exec.commit /\ exec'.pc = "done"
    BY <2>1, <2>3 DEF Executions, Steps
  <2>5. limited' \in BOOLEAN  BY <1>4, Zenon
  <2>6. Types'  BY <1>1, <1>4, <2>1, <2>3, <2>4, <2>5, Elsewhere, Zenon DEF Types
  <2>7. Vetted(exec.commit)' <=> Vetted(exec.commit)  BY <2>1, <2>4, <1>1, Elsewhere DEF Vetted
  <2>8. Vetted(cache)' <=> Vetted(exec.commit)  BY <2>1, <1>4, <1>1, Elsewhere DEF Vetted
  <2>9. Incremental'  BY <2>2, <2>4, <2>7, <2>8 DEF Incremental
  <2>10. Undisturbed'  BY <2>4 DEF Undisturbed
  <2> QED  BY <2>6, <2>9, <2>10, <1>1, <1>2, Elsewhere, ProceedsKeeps DEF PipelineInv
<1>5. CASE cache' = NoCommit /\ limited' = limited /\ Leave("RUNTIME_FAILURE")
  <2>1. exec \in Executions /\ exec.commit \in Commits  BY DEF PipelineInv, Types
  <2>2. exec' = [exec EXCEPT !.pc = "done"] /\ exit' \in Codes
    BY <1>5 DEF Leave, Codes
  <2>3. /\ exec' \in Executions /\ exec'.commit = exec.commit /\ exec'.pc = "done"
        /\ exec'.decision = exec.decision /\ exec'.dirty = exec.dirty /\ exec'.service = exec.service
    BY <2>1, <2>2 DEF Executions, Steps
  <2>4. Types'
    BY <1>1, <1>5, <2>1, <2>2, <2>3, Elsewhere, Zenon DEF Types, PipelineInv
  <2>5. Vetted(exec.commit)' <=> Vetted(exec.commit)  BY <2>1, <2>3, <1>1, Elsewhere DEF Vetted
  <2>6. Incremental'  BY <1>5, <2>3, <2>5 DEF PipelineInv, Incremental
  <2>7. Undisturbed'  BY <2>3 DEF Undisturbed
  <2> QED  BY <2>4, <2>6, <2>7, <1>1, <1>2, Elsewhere, ProceedsKeeps DEF PipelineInv
<1> QED  BY <1>3, <1>4, <1>5, Zenon DEF WriteCache, baseline

\* An execution that is killed leaves the cache as it is, or unreadable.
LEMMA CrashNext == ASSUME PipelineInv, Crash PROVE PipelineInv'
<1>1. UNCHANGED repository /\ limited' = limited /\ cache' \in {cache, NoCommit}
      /\ exec' = NoExecution /\ exit' = "none"
  BY DEF Crash, Rest
<1>2. NoExecution \in Executions  BY DEF NoExecution, Executions, Steps
<1>3. 1 \in Commits  BY SMT DEF PipelineInv, Repository, Commits
<1>4. Types'
  BY <1>1, <1>2, <1>3, Elsewhere DEF PipelineInv, Types, NoExecution, Codes
<1>5. Incremental'
  <2>1. ~ limited /\ cache # NoCommit => Vetted(cache) /\ cache \in Commits
    BY DEF PipelineInv, Incremental, Types
  <2>2. ~ limited /\ cache # NoCommit => Vetted(cache)' \/ cache' = NoCommit
    BY <2>1, <1>1, Elsewhere DEF Vetted
  <2> QED  BY <2>2, <1>1 DEF Incremental, NoExecution
<1> QED  BY <1>1, <1>4, <1>5, Elsewhere DEF PipelineInv, Undisturbed, Decided, Sent, NoExecution

-----------------------------------------------------------------------------
(* Theorems.                                                               *)

\* The invariant holds in every reachable state.
LEMMA PipelineInvariant == Spec => []PipelineInv
<1> USE PipelineAssumption
<1>1. Init => PipelineInv  BY InitPipeline
<1>2. PipelineInv /\ [Next]_vars => PipelineInv'
  <2> SUFFICES ASSUME PipelineInv, [Next]_vars PROVE PipelineInv'
    OBVIOUS
  <2>1. CASE Edit \/ Discard \/ Commit \/ Expire  BY <2>1, RepositoryNext
  <2>2. CASE Start  BY <2>2, StartNext
  <2>3. CASE Plan  BY <2>3, PlanNext
  <2>4. CASE Scan  BY <2>4, ScanNext
  <2>5. CASE Publish  BY <2>5, PublishNext
  <2>6. CASE Consumers  BY <2>6, ConsumersNext
  <2>7. CASE Output  BY <2>7, OutputNext
  <2>8. CASE WriteCache  BY <2>8, WriteCacheNext
  <2>9. CASE Crash  BY <2>9, CrashNext
  <2>10. CASE UNCHANGED vars
    <3>1. UNCHANGED repository /\ UNCHANGED <<cache, limited, exec, exit>>
      BY <2>10 DEF vars, repository
    <3>2. Undisturbed' /\ Decided' /\ Sent'
      BY <3>1, Elsewhere DEF PipelineInv, Undisturbed, Decided, Sent, Mandatory, repository
    <3>3. Types'  BY <3>1, Elsewhere DEF PipelineInv, Types
    <3>4. Incremental'
      BY <3>1 DEF PipelineInv, Incremental, repository, Vetted
    <3> QED  BY <3>1, <3>2, <3>3, <3>4, Elsewhere DEF PipelineInv
  <2> QED
    BY <2>1, <2>2, <2>3, <2>4, <2>5, <2>6, <2>7, <2>8, <2>9, <2>10, Zenon DEF Next, Execution
<1> QED  BY <1>1, <1>2, PTL DEF Spec

\* The type invariant: what an execution, the cache and the repository are.
THEOREM PipelineTypeCorrect == Spec => []TypeOK
<1>1. PipelineInv => TypeOK
  BY DEF PipelineInv, Repository, Types, TypeOK, Executions, Steps, Codes
<1> QED  BY <1>1, PipelineInvariant, PTL

\* Whatever executions failed, were killed or saw uncommitted edits, and
\* however little buildIncrementalPlan let the last one scan: a scan that
\* passes on a clean working tree means that no file of the commit holds a
\* finding that the policy blocks and no waiver has ever covered.
THEOREM PassVetsCommit == Spec => []PassMeansVetted
<1>1. PipelineInv => PassMeansVetted
  BY DEF PipelineInv, Decided, Incremental, PassMeansVetted, Unrestricted, Holds, Vetted
<1> QED  BY <1>1, PipelineInvariant, PTL

\* Where publishCompliance must succeed, no execution answers with its decision
\* before its evidence is stored and sent.
THEOREM EvidenceIsPublished == Spec => []MandatoryPublished
<1>1. PipelineInv => MandatoryPublished
  BY DEF PipelineInv, Sent, MandatoryPublished
<1> QED  BY <1>1, PipelineInvariant, PTL

-----------------------------------------------------------------------------
(* ConsumerReport: consumers, findings and rows.                           *)

\* The first place of a list that is not empty is one of its places.
LEMMA FirstPlace ==
  ASSUME NEW S \in SUBSET Nat, S # {}
  PROVE  Min(S) \in S
<1>1. PICK R : R = OpToRel(<, Nat)  OBVIOUS
<1>2. IsWellFoundedOn(R, Nat)  BY <1>1, NatLessThanWellFounded
<1>3. PICK x \in S : \A y \in S : ~ (<<y, x>> \in R)  BY <1>2, WFMin
<1>4. \A a, b \in Nat : a < b => <<a, b>> \in R
  <2>1. R = {ss \in Nat \X Nat : ss[1] < ss[2]}  BY <1>1 DEF OpToRel
  <2> QED  BY <2>1
<1>5. ASSUME NEW y \in S PROVE x <= y
  <2>1. x \in Nat /\ y \in Nat  OBVIOUS
  <2>2. ~ (y < x)  BY <1>3, <1>4, <2>1
  <2> QED  BY <2>1, <2>2
<1>6. \E z \in S : \A y \in S : z <= y  BY <1>5
<1> QED  BY <1>6 DEF Min

Clients(c) == {ToServe(c)[i] : i \in DOMAIN ToServe(c)}
Asked(consumer, r) == {r[i] : i \in Selected(consumer, r)}
Key(run, consumer, finding) == <<consumer.consumerId, Row(run, consumer, finding).id>>

\* A consumer that is served is configured, or is CRA reporting of its own.
LEMMA ServedAreConfigured ==
  ASSUME NEW c \in Configs, NEW i \in DOMAIN ToServe(c)
  PROVE  /\ i \in Nat
         /\ \/ /\ i = 0 /\ OfItsOwn(c) /\ ToServe(c)[i].consumerId = "cra" /\ ToServe(c)[i].adapter = "cra"
            \/ /\ i # 0 /\ i \in Explicit(c) /\ ToServe(c)[i] = c.consumers[i]
<1>1. DOMAIN c.consumers \subseteq Nat \ {0}
  <2>1. PICK v : v = c.consumers /\ IsList(v)  BY ReportAssumption
  <2>2. v \in Seq(ToSet(v))  BY <2>1 DEF IsList
  <2>3. DOMAIN v = 1 .. Len(v)  BY <2>2
  <2> QED  BY <2>1, <2>3
<1>2. i \in Explicit(c) \/ (i = 0 /\ OfItsOwn(c))  BY DEF ToServe
<1>3. CASE i = 0 /\ OfItsOwn(c)
  <2>1. ToServe(c)[i] = legacyCraConsumer(c.cra)  BY <1>3 DEF ToServe
  <2> QED  BY <1>3, <2>1 DEF legacyCraConsumer
<1>4. CASE i \in Explicit(c)
  <2>1. i \in DOMAIN c.consumers  BY <1>4 DEF Explicit
  <2>2. ToServe(c)[i] = c.consumers[i]  BY <1>1, <1>4, <2>1 DEF ToServe
  <2> QED  BY <1>1, <1>4, <2>1, <2>2
<1> QED  BY <1>2, <1>3, <1>4

\* No two consumers that an execution serves have one name and one adapter.
LEMMA NamesDiffer ==
  ASSUME NEW c \in Configs, NEW i \in DOMAIN ToServe(c), NEW j \in DOMAIN ToServe(c),
         ToServe(c)[i].consumerId = ToServe(c)[j].consumerId, ToServe(c)[i].adapter = ToServe(c)[j].adapter
  PROVE  i = j
<1>1. CASE i = 0 \/ j = 0  BY <1>1, ServedAreConfigured DEF OfItsOwn
<1>2. CASE i # 0 /\ j # 0
  <2>1. i \in DOMAIN c.consumers /\ j \in DOMAIN c.consumers  BY <1>2, ServedAreConfigured DEF Explicit
  <2>2. c.consumers[i].consumerId = c.consumers[j].consumerId  BY <1>2, ServedAreConfigured
  <2> QED  BY <2>1, <2>2, ReportAssumption DEF ValidConfig
<1> QED  BY <1>1, <1>2

\* A consumer's adapter is one its name has been configured with.
LEMMA AdaptersKnown ==
  ASSUME NEW run \in DOMAIN past, NEW c \in Clients(past[run].config)
  PROVE  c.adapter \in AdaptersOf(c.consumerId)
<1>1. c \in Range(ToServe(past[run].config))  BY DEF Clients, Range
<1>2. c \in UNION {Range(ToServe(past[e].config)) : e \in DOMAIN past}  BY <1>1
<1> QED  BY <1>2 DEF AdaptersOf

\* Findings have numbers for places.
LEMMA PlacesInReport ==
  ASSUME NEW r \in Reports, NEW c
  PROVE  Selected(c, r) \subseteq Nat
<1>1. PICK v : v = r /\ IsList(v)  BY ReportAssumption
<1>2. v \in Seq(ToSet(v))  BY <1>1 DEF IsList
<1>3. DOMAIN v \subseteq Nat  BY <1>2
<1> QED  BY <1>1, <1>3 DEF Selected

\* What is in a row.
LEMMA InRow ==
  ASSUME NEW run, NEW c, NEW f
  PROVE  /\ Row(run, c, f).payload.about = buildTechnicalFindingEnvelope(run, f)
         /\ Row(run, c, f).payload.about.run = run
         /\ Row(run, c, f).payload.about.finding = f.id
         /\ Row(run, c, f).payload.about.evidence = f.evidence
         /\ Row(run, c, f).payload.adapter = IF c.adapter = "cra" THEN "cra" ELSE "cyber"
<1>1. CASE c.adapter = "cra"  BY <1>1 DEF Row, CraFindingReport, buildTechnicalFindingEnvelope
<1>2. CASE c.adapter # "cra"  BY <1>2 DEF Row, CyberSecurityEvidence, buildTechnicalFindingEnvelope
<1> QED  BY <1>1, <1>2

\* A key tells the consumer, the execution and the finding.
LEMMA KeysDiffer ==
  ASSUME NEW run, NEW c, NEW f, NEW run2, NEW d, NEW g, Key(run, c, f) = Key(run2, d, g)
  PROVE  c.consumerId = d.consumerId /\ run = run2 /\ f.id = g.id
<1>1. c.consumerId = d.consumerId /\ Row(run, c, f).id = Row(run2, d, g).id  BY DEF Key
<1>2. Row(run, c, f).id = <<"cra-report", run, f.id>> \/ Row(run, c, f).id = <<"finding", run, f.id>>
  BY DEF Row, CraFindingReport, CyberSecurityEvidence, buildTechnicalFindingEnvelope
<1>3. Row(run2, d, g).id = <<"cra-report", run2, g.id>> \/ Row(run2, d, g).id = <<"finding", run2, g.id>>
  BY DEF Row, CraFindingReport, CyberSecurityEvidence, buildTechnicalFindingEnvelope
<1> QED  BY <1>1, <1>2, <1>3

-----------------------------------------------------------------------------
(* The invariant about reports to consumers.                               *)

\* Key k and this payload are those of a finding that execution e, number run, reports.
From(k, payload, run, e) ==
  \E c \in Clients(e.config) :
    /\ ~ Unservable(c, e.report)
    /\ \E f \in Asked(c, e.report) : k = Key(run, c, f) /\ payload = Row(run, c, f).payload

\* Every row is of a finding that a consumer of that execution asked for.
Made ==
  \A k \in DOMAIN queue :
    /\ queue[k] = [id |-> queue[k].id, payload |-> queue[k].payload, delivered |-> queue[k].delivered]
    /\ \E run \in DOMAIN past : From(k, queue[k].payload, run, past[run])

\* All that a consumer asked for is in its queue, but what is at the places S.
Present(consumer, S) ==
  \A j \in Selected(consumer, report) \ S : Key(Run, consumer, report[j]) \in DOMAIN queue

\* The messages for the consumer whose turn it is have been made: CRA reporting
\* of its own makes them before its store is opened.
Chosen == pc = "enqueue" \/ (pc = "open" /\ Current.legacy)

Reporting ==
  /\ past \in Seq([config : Configs, report : Reports])
  /\ pc \in {"idle", "open", "build", "enqueue", "drain"}
  /\ DOMAIN left # {} => Run # 0
  /\ \A i \in DOMAIN left : i \in DOMAIN ToServe(config) /\ left[i] = ToServe(config)[i]
  /\ pc = "idle" <=> DOMAIN left = {}

\* What the consumer whose turn it is has in its queue, and has not.
Working ==
  /\ Chosen \/ pc = "drain" => ~ Unservable(Current, report)
  /\ Chosen => /\ DOMAIN todo \subseteq Selected(Current, report)
               /\ \A j \in DOMAIN todo : todo[j] = Row(Run, Current, report[j])
               /\ Present(Current, DOMAIN todo)
  /\ pc = "drain" => Present(Current, {})

\* Who waits has met nothing yet.
Waiting == \A i \in DOMAIN left : i \notin faulty

\* A consumer that has had its turn is served, or the log says so.
Settled(i, consumer) ==
  IF Unservable(consumer, report) \/ i \in faulty THEN i \in log \cup silent
  ELSE i \in served /\ Present(consumer, {})

Over == Run # 0 => \A i \in DOMAIN ToServe(config) \ DOMAIN left : Settled(i, ToServe(config)[i])

Matching == \A post \in posted : post.linked /\ {post.by, post.of} \subseteq AdaptersOf(post.to)

ReportInv == Reporting /\ Made /\ Working /\ Waiting /\ Over /\ Matching

\* What each execution was about.
LEMMA EachExecution ==
  ASSUME Reporting, NEW run \in DOMAIN past
  PROVE  past[run].config \in Configs /\ past[run].report \in Reports /\ run \in Nat /\ run <= Run
<1>1. PICK R : R = [config : Configs, report : Reports] /\ past \in Seq(R)  BY DEF Reporting
<1>2. DOMAIN past = 1 .. Len(past) /\ Len(past) \in Nat  BY <1>1
<1>3. past[run] \in R  BY <1>1, <1>2, ElementOfSeq
<1> QED  BY <1>1, <1>2, <1>3 DEF Run

\* What the last one is about.
LEMMA Configured ==
  ASSUME Reporting, Run # 0
  PROVE  Run \in DOMAIN past /\ Run \in Nat /\ config \in Configs /\ report \in Reports
<1>1. Run \in DOMAIN past /\ Run \in Nat  BY DEF Reporting, Run
<1> QED  BY <1>1, EachExecution DEF config, report

\* The consumer whose turn it is, and the others.
LEMMA AtTurn ==
  ASSUME Reporting, DOMAIN left # {}
  PROVE  /\ Place \in DOMAIN left /\ Current = ToServe(config)[Place]
         /\ Run \in DOMAIN past /\ Run \in Nat /\ config \in Configs /\ report \in Reports
         /\ Current \in Clients(config)
<1>1. Run \in DOMAIN past /\ Run \in Nat /\ config \in Configs /\ report \in Reports
  BY Configured DEF Reporting
<1>2. DOMAIN left \subseteq DOMAIN ToServe(config)  BY DEF Reporting
<1>3. DOMAIN ToServe(config) \subseteq Nat  BY <1>1, ServedAreConfigured
<1>4. Place \in DOMAIN left  BY <1>2, <1>3, FirstPlace DEF Place
<1>5. Current = ToServe(config)[Place]  BY <1>4 DEF Reporting, Current
<1>6. Current \in Clients(config)  BY <1>2, <1>4, <1>5 DEF Clients
<1> QED  BY <1>1, <1>4, <1>5, <1>6

-----------------------------------------------------------------------------
(* Rows that stay.                                                         *)

SameRows ==
  /\ DOMAIN queue' = DOMAIN queue
  /\ \A k \in DOMAIN queue :
       /\ queue'[k].payload = queue[k].payload
       /\ queue'[k] = [id |-> queue'[k].id, payload |-> queue'[k].payload, delivered |-> queue'[k].delivered]

LEMMA UnchangedRows == ASSUME Made, UNCHANGED queue PROVE SameRows
BY DEF Made, SameRows

LEMMA RowsStay ==
  ASSUME SameRows, UNCHANGED past
  PROVE  /\ Made => Made'
         /\ \A c, S : Present(c, S) => Present(c, S)'
         /\ config' = config /\ report' = report /\ Run' = Run
<1>1. config' = config /\ report' = report /\ Run' = Run  BY DEF config, report, Run
<1>2. Made => Made'  BY DEF SameRows, Made
<1>3. \A c, S : Present(c, S) => Present(c, S)'  BY <1>1 DEF SameRows, Present
<1> QED  BY <1>1, <1>2, <1>3

\* A drain posts with an adapter that the consumer's name has, messages made by one it has or had.
LEMMA Delivering ==
  ASSUME ReportInv, DOMAIN left # {}, UNCHANGED past, NEW keys, keys \subseteq Postable(Current), Deliver(keys)
  PROVE  SameRows /\ Matching'
<1>1. keys \subseteq DOMAIN queue /\ \A k \in keys : k[1] = Current.consumerId
  BY DEF Postable, Pending
<1>2. SameRows
  <2>1. DOMAIN queue' = DOMAIN queue
        /\ \A k \in DOMAIN queue : queue'[k] = IF k \in keys THEN [queue[k] EXCEPT !.delivered = TRUE] ELSE queue[k]
    BY DEF Deliver
  <2>2. ASSUME NEW k \in DOMAIN queue
        PROVE  /\ queue'[k].payload = queue[k].payload
               /\ queue'[k] = [id |-> queue'[k].id, payload |-> queue'[k].payload, delivered |-> queue'[k].delivered]
    <3>1. queue[k] = [id |-> queue[k].id, payload |-> queue[k].payload, delivered |-> queue[k].delivered]
      BY DEF ReportInv, Made
    <3>2. CASE k \in keys
      <4>1. queue'[k] = [id |-> queue[k].id, payload |-> queue[k].payload, delivered |-> TRUE]
        BY <2>1, <3>1, <3>2
      <4> QED  BY <4>1
    <3>3. CASE k \notin keys  BY <2>1, <3>1, <3>3
    <3> QED  BY <3>2, <3>3
  <2> QED  BY <2>1, <2>2 DEF SameRows
<1>3. ASSUME NEW k \in keys
      PROVE  {Current.adapter, queue[k].payload.adapter} \subseteq AdaptersOf(k[1])
             /\ queue[k].payload.about.evidence # {}
  <2>1. PICK run \in DOMAIN past : From(k, queue[k].payload, run, past[run])
    BY <1>1 DEF ReportInv, Made
  <2> PICK c \in Clients(past[run].config) :
        /\ ~ Unservable(c, past[run].report)
        /\ \E f \in Asked(c, past[run].report) :
             k = Key(run, c, f) /\ queue[k].payload = Row(run, c, f).payload
    BY <2>1 DEF From
  <2>2. PICK f \in Asked(c, past[run].report) :
          /\ ~ Unservable(c, past[run].report)
          /\ k = Key(run, c, f) /\ queue[k].payload = Row(run, c, f).payload
    OBVIOUS
  <2>3. c.consumerId = k[1]  BY <2>2 DEF Key
  <2>4. c.adapter \in ADAPTERS /\ f.evidence # {}
    <3>1. PICK j \in Selected(c, past[run].report) : f = past[run].report[j]  BY <2>2 DEF Asked
    <3> QED  BY <2>2, <3>1 DEF Unservable, Unmappable, Linked
  <2>5. queue[k].payload.adapter = c.adapter /\ queue[k].payload.about.evidence # {}
    BY <2>2, <2>4, InRow DEF ADAPTERS
  <2>6. queue[k].payload.adapter \in AdaptersOf(k[1])  BY <2>3, <2>5, AdaptersKnown
  <2>7. Current.adapter \in AdaptersOf(k[1])
    <3>1. Current \in Clients(past[Run].config) /\ Run \in DOMAIN past  BY AtTurn DEF ReportInv, config
    <3>2. Current.consumerId = k[1]  BY <1>1
    <3> QED  BY <3>1, <3>2, AdaptersKnown
  <2> QED  BY <2>5, <2>6, <2>7
<1>4. posted' = posted \cup
        {[to |-> k[1], by |-> Current.adapter, of |-> queue[k].payload.adapter,
          linked |-> queue[k].payload.about.evidence # {}] : k \in keys}
  BY DEF Deliver
<1>5. \A id : AdaptersOf(id)' = AdaptersOf(id)  BY DEF AdaptersOf
<1>6. Matching'
  <2> SUFFICES ASSUME NEW post \in posted' PROVE post.linked /\ {post.by, post.of} \subseteq AdaptersOf(post.to)
    BY <1>5 DEF Matching
  <2>1. CASE post \in posted  BY <2>1 DEF ReportInv, Matching
  <2>2. CASE post \notin posted
    <3>1. PICK k \in keys : post = [to |-> k[1], by |-> Current.adapter, of |-> queue[k].payload.adapter,
                                    linked |-> queue[k].payload.about.evidence # {}]
      BY <1>4, <2>2
    <3>2. post.linked <=> queue[k].payload.about.evidence # {}  BY <3>1, Zenon
    <3>3. post.to = k[1] /\ post.by = Current.adapter /\ post.of = queue[k].payload.adapter  BY <3>1
    <3> QED  BY <1>3, <3>2, <3>3
  <2> QED  BY <2>1, <2>2
<1> QED  BY <1>2, <1>6

-----------------------------------------------------------------------------
(* One consumer after the other.                                           *)

\* The turn of a consumer ends: what it has come to stays its own affair.
LEMMA NextConsumer ==
  ASSUME ReportInv, DOMAIN left # {}, UNCHANGED past, SameRows, Matching',
         Proceed(Others(left), opened),
         faulty \subseteq faulty', faulty' \subseteq faulty \cup {Place},
         log \subseteq log', silent \subseteq silent', served \subseteq served',
         IF Unservable(Current, report) \/ Place \in faulty' THEN Place \in log' \cup silent'
         ELSE Place \in served' /\ Present(Current, {})
  PROVE  ReportInv'
<1>1. PICK m : m = Place  OBVIOUS
<1>2. PICK cur : cur = Current  OBVIOUS
<1>3. /\ m \in DOMAIN left /\ cur = ToServe(config)[m] /\ left[m] = cur
      /\ config' = config /\ report' = report /\ Run' = Run
  BY <1>1, <1>2, AtTurn, RowsStay DEF ReportInv, Reporting
<1>4. /\ DOMAIN left' = DOMAIN left \ {m} /\ \A i \in DOMAIN left' : left'[i] = left[i]
      /\ pc' \in {"idle", "open", "build"} /\ (pc' = "idle" <=> DOMAIN left' = {})
      /\ pc' = "open" => ~ Current'.legacy
  <2>1. left' = [i \in DOMAIN left \ {m} |-> left[i]]  BY <1>1 DEF Proceed, Others, Restrict, Place
  <2>2. pc' = IF DOMAIN left' = {} THEN "idle" ELSE StartOf(Current', opened)
    BY DEF Proceed, Current, Place
  <2> QED  BY <2>1, <2>2 DEF StartOf
<1>5. Reporting'
  BY <1>3, <1>4 DEF ReportInv, Reporting
<1>6. Made'  BY RowsStay DEF ReportInv
<1>7. Working'  BY <1>4 DEF Working, Chosen
<1>8. Waiting'  BY <1>1, <1>4 DEF ReportInv, Waiting
<1>9. Over'
  <2>1. ASSUME NEW i \in DOMAIN ToServe(config), i \notin DOMAIN left', Run # 0
        PROVE  Settled(i, ToServe(config)[i])'
    <3>1. PICK c : c = ToServe(config)[i]  OBVIOUS
    <3>2. \A S : Present(c, S) => Present(c, S)'  BY RowsStay
    <3>3. CASE i = m  BY <1>1, <1>2, <1>3, <3>1, <3>2, <3>3 DEF Settled
    <3>4. CASE i # m
      <4>1. Settled(i, c)  BY <1>4, <2>1, <3>1, <3>4 DEF ReportInv, Over
      <4>2. i \in faulty' <=> i \in faulty  BY <1>1, <3>4
      <4> QED  BY <1>3, <3>1, <3>2, <4>1, <4>2 DEF Settled
    <3> QED  BY <3>3, <3>4
  <2> QED  BY <1>3, <2>1 DEF Over
<1> QED  BY <1>5, <1>6, <1>7, <1>8, <1>9 DEF ReportInv

\* Nothing is anywhere yet.
LEMMA InitReport == ReportInit => ReportInv
<1> SUFFICES ASSUME ReportInit PROVE ReportInv  OBVIOUS
<1>1. past = <<>> /\ DOMAIN left = {} /\ DOMAIN queue = {} /\ pc = "idle" /\ posted = {}  BY DEF ReportInit
<1>2. past \in Seq([config : Configs, report : Reports]) /\ Run = 0  BY <1>1, EmptySeq DEF Run
<1> QED  BY <1>1, <1>2 DEF ReportInv, Reporting, Made, Working, Chosen, Waiting, Over, Matching

\* Another execution, with whatever configuration, begins with nothing.
LEMMA BeginNext == ASSUME ReportInv, Begin PROVE ReportInv'
<1>1. PICK c \in Configs, r \in Reports :
        past' = Append(past, [config |-> c, report |-> r]) /\ Proceed(ToServe(c), FALSE)
  BY DEF Begin
<1>2. /\ faulty' = {} /\ opened' = FALSE /\ UNCHANGED <<todo, queue, posted>>
  BY DEF Begin
<1>3. PICK n \in Nat : n = Run  BY DEF ReportInv, Reporting, Run
<1>4. /\ past' \in Seq([config : Configs, report : Reports]) /\ Run' = n + 1
      /\ past'[n + 1] = [config |-> c, report |-> r]
      /\ DOMAIN past = 1 .. n /\ DOMAIN past' = 1 .. (n + 1)
      /\ \A run \in DOMAIN past : past'[run] = past[run]
  <2>1. PICK R : R = [config : Configs, report : Reports] /\ past \in Seq(R)  BY DEF ReportInv, Reporting
  <2>2. PICK e : e = [config |-> c, report |-> r]  OBVIOUS
  <2> e \in R  BY <2>1, <2>2
  <2>3. past' = Append(past, e) /\ Len(past) = n  BY <1>1, <1>3, <2>2 DEF Run
  <2>4. PICK p : p = past'  OBVIOUS
  <2>5. p \in Seq(R) /\ Len(p) = n + 1 /\ p[n + 1] = e /\ \A run \in 1 .. n : p[run] = past[run]
    BY <2>1, <2>2, <2>3, <2>4, AppendProperties
  <2>6. DOMAIN past = 1 .. n /\ DOMAIN past' = 1 .. (n + 1)  BY <2>1, <2>3, <2>4, <2>5
  <2> QED  BY <2>1, <2>2, <2>4, <2>5, <2>6 DEF Run
<1>5. config' = c /\ report' = r  BY <1>4 DEF config, report
<1>6. /\ left' = ToServe(c) /\ pc' \in {"idle", "open", "build"} /\ (pc' = "idle" <=> DOMAIN left' = {})
      /\ pc' = "open" => ~ Current'.legacy
  BY <1>1 DEF Proceed, StartOf, Current, Place
<1>7. Reporting'  BY <1>4, <1>5, <1>6 DEF Reporting
<1>8. Made'
  <2>1. \A run \in DOMAIN past : run \in DOMAIN past'  BY <1>4
  <2> QED  BY <1>2, <1>4, <2>1 DEF ReportInv, Made
<1>9. Working'  BY <1>6 DEF Working, Chosen
<1>10. Waiting'  BY <1>2 DEF Waiting
<1>11. Over'  BY <1>5, <1>6 DEF Over
<1>12. Matching'
  <2>1. \A id : AdaptersOf(id) \subseteq AdaptersOf(id)'
    <3>1. \A run \in DOMAIN past : run \in DOMAIN past' /\ past'[run] = past[run]  BY <1>4
    <3>2. UNION {Range(ToServe(past[run].config)) : run \in DOMAIN past}
            \subseteq UNION {Range(ToServe(past'[run].config)) : run \in DOMAIN past'}
      BY <3>1
    <3> QED  BY <3>2 DEF AdaptersOf
  <2> QED  BY <1>2, <2>1 DEF ReportInv, Matching
<1> QED  BY <1>7, <1>8, <1>9, <1>10, <1>11, <1>12 DEF ReportInv

\* Steps within a turn that leave the queue alone.
LEMMA TurnNext == ASSUME ReportInv, Open \/ (Build /\ ~ Unservable(Current, report)) \/ OpenLegacy \/ Audited PROVE ReportInv'
<1>1. UNCHANGED <<past, left, queue, posted, log, served, faulty, silent>>
  BY DEF Open, Build, OpenLegacy, Audited
<1>2. config' = config /\ report' = report /\ Run' = Run /\ Current' = Current
  BY <1>1 DEF config, report, Run, Current, Place
<1>3. (pc # "idle" /\ pc' # "idle") /\ pc' \in {"open", "build", "enqueue", "drain"}
  BY DEF Open, Build, OpenLegacy, Audited
<1>4. Reporting' /\ Made' /\ Matching'  BY <1>1, <1>2, <1>3 DEF ReportInv, Reporting, Made, Matching, AdaptersOf
<1>5. \A c, S : Present(c, S)' <=> Present(c, S)  BY <1>1, <1>2 DEF Present
<1>6. Over'
  <2>1. \A i, c : Settled(i, c)' <=> Settled(i, c)  BY <1>1, <1>2, <1>5 DEF Settled
  <2> QED  BY <1>1, <1>2, <2>1 DEF ReportInv, Over
<1>7. Waiting'  BY <1>1 DEF ReportInv, Waiting
<1>8. Working'
  <2>1. PICK cur, r, n : cur = Current /\ r = report /\ n = Run  OBVIOUS
  <2>2. CASE Open
    BY <2>2 DEF Open, Working, Chosen
  <2>3. CASE Build /\ ~ Unservable(Current, report)
    <3>1. todo' = [i \in Selected(cur, r) |-> Row(n, cur, r[i])] /\ pc' = IF cur.legacy THEN "open" ELSE "enqueue"
      BY <2>1, <2>3 DEF Build, buildConsumerDeliveryMessages
    <3>2. Present(cur, DOMAIN todo)'  BY <1>2, <2>1, <3>1 DEF Present
    <3> QED  BY <1>2, <2>1, <2>3, <3>1, <3>2 DEF Working, Chosen, Present
  <2>4. CASE OpenLegacy \/ Audited
    <3>1. Chosen /\ UNCHANGED todo /\ (Audited => DOMAIN todo = {} /\ pc' = "drain") /\ (OpenLegacy => pc' = "enqueue")
      BY <2>4 DEF OpenLegacy, Audited, Chosen
    <3>2. ~ Unservable(cur, r) /\ DOMAIN todo \subseteq Selected(cur, r) /\ (\A j \in DOMAIN todo : todo[j] = Row(n, cur, r[j]))
          /\ Present(cur, DOMAIN todo)
      BY <2>1, <3>1 DEF ReportInv, Working
    <3>3. \A S : Present(cur, S) => Present(cur, S)'  BY <1>5
    <3>4. CASE Audited  BY <1>1, <1>2, <2>1, <3>1, <3>2, <3>4 DEF Working, Chosen, Present
    <3>5. CASE OpenLegacy  BY <1>1, <1>2, <2>1, <3>1, <3>2, <3>5 DEF Working, Chosen, Present
    <3> QED  BY <2>4, <3>4, <3>5
  <2> QED  BY <2>2, <2>3, <2>4
<1> QED  BY <1>4, <1>6, <1>7, <1>8 DEF ReportInv

\* A message is put into the queue of the consumer whose turn it is.
LEMMA EnqueueNext == ASSUME ReportInv, Enqueue PROVE ReportInv'
<1>1. PICK cur, r, n, m : cur = Current /\ r = report /\ n = Run /\ m = Place  OBVIOUS
<1>2. /\ pc = "enqueue" /\ DOMAIN left # {} /\ Chosen
      /\ UNCHANGED <<past, pc, left, opened, posted, log, served, faulty, silent>>
      /\ config' = config /\ report' = r /\ Run' = n /\ Current' = cur
  BY <1>1 DEF Enqueue, ReportInv, Reporting, Chosen, config, report, Run, Current, Place
<1>3. /\ m \in DOMAIN left /\ cur = ToServe(config)[m] /\ n \in DOMAIN past /\ config \in Configs /\ r \in Reports
      /\ cur \in Clients(config) /\ left[m] = cur
  BY <1>1, <1>2, AtTurn DEF ReportInv, Reporting
<1>4. /\ ~ Unservable(cur, r) /\ DOMAIN todo \subseteq Selected(cur, r)
      /\ \A j \in DOMAIN todo : todo[j] = Row(n, cur, r[j])
      /\ Present(cur, DOMAIN todo)
  BY <1>1, <1>2 DEF ReportInv, Working
<1>5. PICK j : j = Min(DOMAIN todo) /\ j \in DOMAIN todo
  <2>1. Selected(cur, r) \subseteq Nat  BY <1>3, PlacesInReport
  <2>2. DOMAIN todo \subseteq Nat  BY <1>4, <2>1
  <2>3. DOMAIN todo # {}  BY DEF Enqueue
  <2> QED  BY <2>2, <2>3, FirstPlace
<1>6. PICK key, row : key = Key(n, cur, r[j]) /\ row = Row(n, cur, r[j])  OBVIOUS
<1>7. /\ queue' = [k \in DOMAIN queue \cup {key} |-> IF k \in DOMAIN queue THEN queue[k] ELSE row]
      /\ DOMAIN todo' = DOMAIN todo \ {j} /\ \A i \in DOMAIN todo' : todo'[i] = todo[i]
  BY <1>1, <1>4, <1>5, <1>6 DEF Enqueue, Others, Restrict, Key
<1>8. Reporting' /\ Matching'  BY <1>1, <1>2 DEF ReportInv, Reporting, Matching, AdaptersOf
<1>9. Made'
  <2>1. From(key, row.payload, n, past[n])
    <3>1. r[j] \in Asked(cur, r)  BY <1>4, <1>5 DEF Asked
    <3>2. past[n].config = config /\ past[n].report = r  BY <1>1 DEF config, report
    <3> QED  BY <1>3, <1>4, <1>6, <3>1, <3>2 DEF From
  <2>2. row = [id |-> row.id, payload |-> row.payload, delivered |-> row.delivered]
    <3>1. CASE cur.adapter = "cra"  BY <1>6, <3>1 DEF Row
    <3>2. CASE cur.adapter # "cra"  BY <1>6, <3>2 DEF Row
    <3> QED  BY <3>1, <3>2
  <2>3. ASSUME NEW k \in DOMAIN queue'
        PROVE  /\ queue'[k] = [id |-> queue'[k].id, payload |-> queue'[k].payload, delivered |-> queue'[k].delivered]
               /\ \E run \in DOMAIN past' : From(k, queue'[k].payload, run, past'[run])
    <3>1. CASE k \in DOMAIN queue  BY <1>2, <1>7, <3>1 DEF ReportInv, Made
    <3>2. CASE k \notin DOMAIN queue
      <4>1. k = key /\ queue'[k] = row  BY <1>7, <2>3, <3>2
      <4> QED  BY <1>2, <1>3, <2>1, <2>2, <4>1
    <3> QED  BY <3>1, <3>2
  <2> QED  BY <2>3 DEF Made
<1>10. Working'
  <2>1. ASSUME NEW i \in Selected(cur, r) \ DOMAIN todo' PROVE Key(n, cur, r[i]) \in DOMAIN queue'
    <3>1. CASE i = j  BY <1>6, <1>7, <3>1
    <3>2. CASE i # j  BY <1>1, <1>4, <1>7, <3>2 DEF Present
    <3> QED  BY <3>1, <3>2
  <2>2. Present(Current, DOMAIN todo)'  BY <1>2, <2>1 DEF Present
  <2> QED  BY <1>2, <1>4, <1>7, <2>2 DEF Working, Chosen, Present
<1>11. Waiting'  BY <1>2 DEF ReportInv, Waiting
<1>12. Over'
  <2>1. ASSUME NEW i \in DOMAIN ToServe(config) \ DOMAIN left, NEW c, c = ToServe(config)[i]
        PROVE  Settled(i, c)'
    <3>1. Settled(i, c)  BY <1>2, <1>3, <2>1 DEF ReportInv, Reporting, Over
    <3>2. Present(c, {}) => Present(c, {})'  BY <1>1, <1>2, <1>7 DEF Present
    <3> QED  BY <1>1, <1>2, <3>1, <3>2 DEF Settled
  <2> QED  BY <1>2, <2>1 DEF Over
<1> QED  BY <1>8, <1>9, <1>10, <1>11, <1>12 DEF ReportInv

\* A consumer is given up: because it cannot be served, or because of a fault.
LEMMA GivenUpNext == ASSUME ReportInv, Fault \/ (Build /\ Unservable(Current, report)) PROVE ReportInv'
<1>1. DOMAIN left # {}  BY DEF ReportInv, Reporting, Fault, Build
<1>2. Unavailable  BY DEF Fault, Build
<1>3. /\ UNCHANGED <<past, served>> /\ Proceed(Others(left), opened)
      /\ log \subseteq log' /\ silent \subseteq silent' /\ Place \in log' \cup silent'
  BY <1>2 DEF Unavailable, Continue
<1>4. CASE Build /\ Unservable(Current, report)
  <2>1. UNCHANGED <<queue, posted, faulty>> /\ pc = "build"  BY <1>4 DEF Build
  <2>2. Matching' /\ SameRows  BY <1>3, <2>1, UnchangedRows DEF ReportInv, Matching, AdaptersOf
  <2> QED  BY <1>1, <1>3, <1>4, <2>1, <2>2, NextConsumer
<1>5. CASE Fault
  <2>1. faulty' = faulty \cup {Place} /\ (Chosen \/ pc = "drain")  BY <1>5 DEF Fault, Chosen
  <2>2. Matching' /\ SameRows
    <3>1. CASE UNCHANGED <<queue, posted>>  BY <1>3, <3>1, UnchangedRows DEF ReportInv, Matching, AdaptersOf
    <3>2. CASE \E keys \in SUBSET Postable(Current) : Deliver(keys)  BY <1>1, <1>3, <3>2, Delivering
    <3> QED  BY <1>5, <3>1, <3>2 DEF Fault
  <2>3. ~ Unservable(Current, report)  BY <2>1 DEF ReportInv, Working
  <2> QED  BY <1>1, <1>3, <2>1, <2>2, <2>3, NextConsumer
<1> QED  BY <1>4, <1>5

LEMMA DrainNext == ASSUME ReportInv, Drain PROVE ReportInv'
<1>1. DOMAIN left # {}  BY DEF ReportInv, Reporting, Drain
<1>2. Matching' /\ SameRows  BY <1>1, Delivering DEF Drain
<1>3. ~ Unservable(Current, report) /\ Present(Current, {})  BY DEF Drain, ReportInv, Working
<1>4. /\ UNCHANGED <<past, log, faulty, silent>> /\ Proceed(Others(left), opened)
      /\ served' = served \cup {Place}
  BY DEF Drain
<1>5. Place \notin faulty  BY <1>1, AtTurn DEF ReportInv, Waiting
<1> QED  BY <1>1, <1>2, <1>3, <1>4, <1>5, NextConsumer

\* The execution ends: those who were left are faulty, and nothing was said of them.
LEMMA AbandonNext == ASSUME ReportInv, pc # "idle", Abandon PROVE ReportInv'
<1>1. /\ faulty' = faulty \cup DOMAIN left /\ silent' = silent \cup DOMAIN left
      /\ DOMAIN left' = {} /\ pc' = "idle" /\ UNCHANGED <<past, queue, posted, log, served>>
      /\ config' = config /\ report' = report /\ Run' = Run
  BY DEF Abandon, config, report, Run
<1>2. Reporting' /\ Made' /\ Working' /\ Waiting' /\ Matching'
  BY <1>1 DEF ReportInv, Reporting, Made, Working, Chosen, Waiting, Matching, AdaptersOf
<1>3. \A c, S : Present(c, S) => Present(c, S)'  BY <1>1 DEF Present
<1>4. ASSUME NEW i \in DOMAIN ToServe(config), NEW c, c = ToServe(config)[i], Run # 0
      PROVE  Settled(i, c)'
  <2>1. CASE i \in DOMAIN left  BY <1>1, <2>1 DEF Settled
  <2>2. CASE i \notin DOMAIN left
    <3>1. Settled(i, c)  BY <1>4, <2>2 DEF ReportInv, Over
    <3> QED  BY <1>1, <1>3, <2>2, <3>1 DEF Settled
  <2> QED  BY <2>1, <2>2
<1>5. Over'  BY <1>1, <1>4 DEF Over
<1> QED  BY <1>2, <1>5 DEF ReportInv

LEMMA ReportNextKeeps == ReportInv /\ [ReportNext]_reportVars => ReportInv'
<1> SUFFICES ASSUME ReportInv, [ReportNext]_reportVars PROVE ReportInv'  OBVIOUS
<1>1. CASE Begin  BY <1>1, BeginNext
<1>2. CASE Open \/ OpenLegacy \/ Audited \/ (Build /\ ~ Unservable(Current, report))  BY <1>2, TurnNext
<1>3. CASE Fault \/ (Build /\ Unservable(Current, report))  BY <1>3, GivenUpNext
<1>4. CASE Enqueue  BY <1>4, EnqueueNext
<1>5. CASE Drain  BY <1>5, DrainNext
<1>6. CASE OpenFails \/ Die  BY <1>6, AbandonNext DEF OpenFails, Die
<1>7. CASE UNCHANGED reportVars
  <2>1. UNCHANGED <<past, pc, left, opened, todo, queue, posted, log, served, faulty, silent>>
    BY <1>7 DEF reportVars
  <2>2. config' = config /\ report' = report /\ Run' = Run /\ Current' = Current
    BY <2>1 DEF config, report, Run, Current, Place
  <2>3. Reporting' /\ Made' /\ Matching'  BY <2>1, <2>2 DEF ReportInv, Reporting, Made, Matching, AdaptersOf
  <2>4. Working'  BY <2>1, <2>2 DEF ReportInv, Working, Chosen, Present
  <2>5. Waiting'  BY <2>1 DEF ReportInv, Waiting
  <2>6. Over'  BY <2>1, <2>2 DEF ReportInv, Over, Settled, Present
  <2> QED  BY <2>3, <2>4, <2>5, <2>6 DEF ReportInv
<1> QED  BY <1>1, <1>2, <1>3, <1>4, <1>5, <1>6, <1>7 DEF ReportNext

LEMMA InductiveReport == ReportSpec => []ReportInv
BY InitReport, ReportNextKeeps, PTL DEF ReportSpec

-----------------------------------------------------------------------------
(* What consumers get.                                                     *)

\* Every row is of a finding that a consumer of its execution asked for and could be told.
LEMMA RowsAreDue ==
  ASSUME ReportInv, NEW k \in DOMAIN queue
  PROVE  /\ About(k).run \in DOMAIN past
         /\ \E c \in Clients(past[About(k).run].config) :
              /\ ~ Unservable(c, past[About(k).run].report) /\ k \in KeysOf(c, About(k).run)
              /\ \E j \in Selected(c, past[About(k).run].report) :
                   /\ k = Key(About(k).run, c, past[About(k).run].report[j])
                   /\ About(k) = buildTechnicalFindingEnvelope(About(k).run, past[About(k).run].report[j])
                   /\ Entry(k) \in Due(c, past[About(k).run].report)
<1>1. PICK run \in DOMAIN past : From(k, queue[k].payload, run, past[run])  BY DEF ReportInv, Made
<1>2. PICK r : r = past[run].report  OBVIOUS
<1> PICK c \in Clients(past[run].config) :
      /\ ~ Unservable(c, r)
      /\ \E f \in Asked(c, r) : k = Key(run, c, f) /\ queue[k].payload = Row(run, c, f).payload
  BY <1>1, <1>2 DEF From
<1>3. PICK f \in Asked(c, r) :
        ~ Unservable(c, r) /\ k = Key(run, c, f) /\ queue[k].payload = Row(run, c, f).payload
  OBVIOUS
<1>4. PICK j \in Selected(c, r) : f = r[j]  BY <1>3 DEF Asked
<1>5. About(k) = buildTechnicalFindingEnvelope(run, f) /\ About(k).run = run  BY <1>3, InRow DEF About
<1>6. queue[k].payload.adapter = c.adapter
  <2>1. c.adapter \in ADAPTERS  BY <1>3 DEF Unservable
  <2> QED  BY <1>3, <2>1, InRow DEF ADAPTERS
<1>7. k \in KeysOf(c, run)  BY <1>3, <1>5, <1>6 DEF KeysOf, Key
<1>8. Entry(k) \in Due(c, r)
  <2>1. /\ About(k).finding = f.id /\ About(k).evidence = f.evidence
        /\ About(k).status = IF f.waived THEN "waived" ELSE "active"
    BY <1>5 DEF buildTechnicalFindingEnvelope
  <2> QED  BY <1>4, <2>1 DEF Entry, Due
<1> QED  BY <1>1, <1>2, <1>3, <1>4, <1>5, <1>7, <1>8

\* The rows made for a consumer are of findings it asked for.
LEMMA RowsOfConsumer ==
  ASSUME ReportInv, NEW run \in DOMAIN past, NEW c \in Clients(past[run].config), NEW k \in KeysOf(c, run)
  PROVE  LET r == past[run].report IN
         \E j \in Selected(c, r) :
           /\ k = Key(run, c, r[j]) /\ About(k) = buildTechnicalFindingEnvelope(run, r[j]) /\ Entry(k) \in Due(c, r)
<1>1. PICK e : e = past[run] /\ e.config \in Configs  BY EachExecution DEF ReportInv
<1>2. k \in DOMAIN queue /\ k[1] = c.consumerId /\ queue[k].payload.adapter = c.adapter /\ About(k).run = run
  BY DEF KeysOf
<1>3. PICK d \in Clients(e.config) :
        /\ k \in KeysOf(d, run)
        /\ \E j \in Selected(d, e.report) :
             /\ k = Key(run, d, e.report[j]) /\ About(k) = buildTechnicalFindingEnvelope(run, e.report[j])
             /\ Entry(k) \in Due(d, e.report)
  BY <1>1, <1>2, RowsAreDue
<1>4. d.consumerId = c.consumerId /\ d.adapter = c.adapter  BY <1>2, <1>3 DEF KeysOf
<1>5. PICK i \in DOMAIN ToServe(e.config), j \in DOMAIN ToServe(e.config) :
        c = ToServe(e.config)[i] /\ d = ToServe(e.config)[j]
  BY <1>1 DEF Clients
<1>6. d = c  BY <1>1, <1>4, <1>5, NamesDiffer
<1> QED  BY <1>1, <1>3, <1>6

\* A row under the key of a finding is one made for that consumer.
LEMMA KeyIsOf ==
  ASSUME ReportInv, NEW n, NEW c, NEW r, ~ Unservable(c, r), NEW f, NEW k \in DOMAIN queue, k = Key(n, c, f)
  PROVE  k \in KeysOf(c, n)
<1>1. PICK run \in DOMAIN past : From(k, queue[k].payload, run, past[run])  BY DEF ReportInv, Made
<1> PICK d \in Clients(past[run].config) :
      /\ ~ Unservable(d, past[run].report)
      /\ \E g \in Asked(d, past[run].report) : k = Key(run, d, g) /\ queue[k].payload = Row(run, d, g).payload
  BY <1>1 DEF From
<1>2. PICK g \in Asked(d, past[run].report) :
        ~ Unservable(d, past[run].report) /\ k = Key(run, d, g) /\ queue[k].payload = Row(run, d, g).payload
  OBVIOUS
<1>3. c.adapter \in ADAPTERS /\ d.adapter \in ADAPTERS  BY <1>2 DEF Unservable
<1>4. d.consumerId = c.consumerId /\ run = n
  <2>1. PICK e, x, b : e = d /\ x = g /\ b = run /\ k = Key(b, e, x)  BY <1>2
  <2>2. PICK m, y, z : m = n /\ y = c /\ z = f /\ Key(b, e, x) = Key(m, y, z)  BY <2>1
  <2>3. e.consumerId = y.consumerId /\ b = m  BY <2>2, KeysDiffer
  <2> QED  BY <2>1, <2>2, <2>3
<1>5. Row(run, d, g).id = Row(n, c, f).id  BY <1>2 DEF Key
<1>6. d.adapter = c.adapter
  <2>1. ASSUME NEW m, NEW e, NEW h, e.adapter \in ADAPTERS
        PROVE  Row(m, e, h).id[1] = IF e.adapter = "cra" THEN "cra-report" ELSE "finding"
    <3>1. CASE e.adapter = "cra"  BY <3>1 DEF Row, CraFindingReport
    <3>2. CASE e.adapter # "cra"  BY <3>2 DEF Row, CyberSecurityEvidence
    <3> QED  BY <3>1, <3>2
  <2> QED  BY <1>3, <1>5, <2>1 DEF ADAPTERS
<1>7. queue[k].payload.adapter = c.adapter /\ About(k).run = n
  BY <1>2, <1>3, <1>4, <1>6, InRow DEF ADAPTERS, About
<1> QED  BY <1>7 DEF KeysOf, Key

\* Between two executions every consumer has what is its own (reportConfiguredConsumers,
\* reportCraFindings), for any valid configurations, reports, faults and kills, and any
\* number of executions before: names may be reused and adapters changed.
THEOREM ConsumersStayApart == ReportSpec => []ConsumersApart
<1>1. ReportInv => ConsumersApart
  <2> SUFFICES ASSUME ReportInv PROVE ConsumersApart  OBVIOUS
  <2>1. ASSUME pc = "idle", past # <<>>, NEW i \in DOMAIN ToServe(config), NEW c, c = ToServe(config)[i]
        PROVE  IF Unservable(c, report) \/ i \in faulty THEN i \in log \cup silent
               ELSE /\ i \in served
                    /\ {Entry(k) : k \in KeysOf(c, Run)} = Due(c, report)
                    /\ \A k, l \in KeysOf(c, Run) : About(k).finding = About(l).finding => k = l
    <3>1. Run # 0
      <4>1. PICK R : past \in Seq(R)  BY DEF ReportInv, Reporting
      <4> QED  BY <2>1, <4>1, EmptySeq DEF Run
    <3>2. Settled(i, c)  BY <2>1, <3>1 DEF ReportInv, Reporting, Over
    <3>3. Run \in DOMAIN past /\ config \in Configs /\ report \in Reports  BY <3>1, Configured DEF ReportInv
    <3>4. c \in Clients(config)  BY <2>1 DEF Clients
    <3>5. \A k \in KeysOf(c, Run) :
            \E j \in Selected(c, report) :
              /\ k = Key(Run, c, report[j]) /\ About(k) = buildTechnicalFindingEnvelope(Run, report[j])
              /\ Entry(k) \in Due(c, report)
      BY <3>3, <3>4, RowsOfConsumer DEF config, report
    <3>6. ASSUME ~ Unservable(c, report), Present(c, {}) PROVE Due(c, report) \subseteq {Entry(k) : k \in KeysOf(c, Run)}
      <4>1. ASSUME NEW j \in Selected(c, report)
            PROVE  [finding |-> report[j].id, status |-> IF report[j].waived THEN "waived" ELSE "active",
                    evidence |-> report[j].evidence] \in {Entry(k) : k \in KeysOf(c, Run)}
        <5>1. PICK k : k = Key(Run, c, report[j])  OBVIOUS
        <5>2. k \in DOMAIN queue  BY <3>6, <5>1 DEF Present
        <5>3. k \in KeysOf(c, Run)  BY <3>6, <5>1, <5>2, KeyIsOf
        <5>4. PICK l \in Selected(c, report) :
                k = Key(Run, c, report[l]) /\ About(k) = buildTechnicalFindingEnvelope(Run, report[l])
          BY <3>5, <5>3
        <5>5. l = j
          <6>1. PICK n, f, g : n = Run /\ f = report[l] /\ g = report[j] /\ Key(n, c, f) = Key(n, c, g)  BY <5>1, <5>4
          <6>2. f.id = g.id  BY <6>1, KeysDiffer
          <6> QED  BY <3>3, <6>1, <6>2, ReportAssumption DEF Selected
        <5>6. /\ About(k).finding = report[j].id /\ About(k).evidence = report[j].evidence
              /\ About(k).status = IF report[j].waived THEN "waived" ELSE "active"
          BY <5>4, <5>5 DEF buildTechnicalFindingEnvelope
        <5> QED  BY <5>3, <5>6 DEF Entry
      <4> QED  BY <4>1 DEF Due
    <3>7. ASSUME NEW k \in KeysOf(c, Run), NEW l \in KeysOf(c, Run), About(k).finding = About(l).finding
          PROVE  k = l
      <4>1. PICK i1 \in Selected(c, report), i2 \in Selected(c, report) :
              /\ k = Key(Run, c, report[i1]) /\ About(k) = buildTechnicalFindingEnvelope(Run, report[i1])
              /\ l = Key(Run, c, report[i2]) /\ About(l) = buildTechnicalFindingEnvelope(Run, report[i2])
        BY <3>5
      <4>2. report[i1].id = report[i2].id  BY <3>7, <4>1 DEF buildTechnicalFindingEnvelope
      <4>3. i1 = i2  BY <3>3, <4>2, ReportAssumption DEF Selected
      <4> QED  BY <4>1, <4>3
    <3>8. {Entry(k) : k \in KeysOf(c, Run)} \subseteq Due(c, report)  BY <3>5
    <3>9. CASE Unservable(c, report) \/ i \in faulty  BY <3>2, <3>9 DEF Settled
    <3>10. CASE ~ (Unservable(c, report) \/ i \in faulty)
      <4>1. i \in served /\ Present(c, {})  BY <3>2, <3>10 DEF Settled
      <4>2. {Entry(k) : k \in KeysOf(c, Run)} = Due(c, report)  BY <3>6, <3>8, <3>10, <4>1
      <4> QED  BY <3>7, <3>10, <4>1, <4>2
    <3> QED  BY <3>9, <3>10
  <2>2. ASSUME NEW k \in DOMAIN queue
        PROVE  \E i \in DOMAIN ToServe(past[About(k).run].config) :
                 /\ ~ Unservable(ToServe(past[About(k).run].config)[i], past[About(k).run].report)
                 /\ k \in KeysOf(ToServe(past[About(k).run].config)[i], About(k).run)
                 /\ Entry(k) \in Due(ToServe(past[About(k).run].config)[i], past[About(k).run].report)
    <3>1. PICK c \in Clients(past[About(k).run].config) :
            /\ ~ Unservable(c, past[About(k).run].report) /\ k \in KeysOf(c, About(k).run)
            /\ Entry(k) \in Due(c, past[About(k).run].report)
      BY RowsAreDue
    <3> QED  BY <3>1 DEF Clients
  <2> QED  BY <2>1, <2>2 DEF ConsumersApart, ReportInv, Matching
<1> QED  BY <1>1, InductiveReport, PTL

\* A message that is put into a queue has not been delivered.
LEMMA RowWaits ==
  ASSUME ReportInv, Enqueue
  PROVE  todo[Min(DOMAIN todo)].delivered = FALSE
<1>1. PICK cur, r, n, m : cur = Current /\ r = report /\ n = Run /\ m = Min(DOMAIN left)  OBVIOUS
<1>2. Chosen /\ DOMAIN left # {} /\ DOMAIN todo # {}  BY DEF Enqueue, Chosen, ReportInv, Reporting
<1>3. /\ DOMAIN todo \subseteq Selected(cur, r) /\ r \in Reports
      /\ \A j \in DOMAIN todo : todo[j] = Row(n, cur, r[j])
  BY <1>1, <1>2, AtTurn DEF ReportInv, Working
<1>4. PICK j : j = Min(DOMAIN todo) /\ j \in DOMAIN todo  BY <1>2, <1>3, PlacesInReport, FirstPlace
<1>5. todo[j] = Row(n, cur, r[j])  BY <1>3, <1>4
<1>6. CASE cur.adapter = "cra"  BY <1>4, <1>5, <1>6 DEF Row
<1>7. CASE cur.adapter # "cra"  BY <1>4, <1>5, <1>7 DEF Row
<1> QED  BY <1>6, <1>7

LEMMA RunsAreNat == MaxRuns \in Nat
<1> QED  BY ReportAssumption

\* The loop over the consumers is well typed, and every row is of an execution there was.
THEOREM ReportTypeCorrect == ReportSpec => []ReportTypeOK
<1> DEFINE Bounded ==
             /\ Run <= MaxRuns /\ opened \in BOOLEAN
             /\ \A k \in DOMAIN queue : queue[k].delivered \in BOOLEAN
<1>1. ReportInit => Bounded
  <2> SUFFICES ASSUME ReportInit PROVE Bounded  OBVIOUS
  <2>1. past = <<>> /\ DOMAIN queue = {} /\ opened = FALSE  BY DEF ReportInit
  <2>2. Run = 0  BY <2>1, EmptySeq DEF Run
  <2>3. Run <= MaxRuns  BY <2>2, RunsAreNat
  <2> QED  BY <2>1, <2>3
<1>2. ReportInv /\ Bounded /\ [ReportNext]_reportVars => Bounded'
  <2> SUFFICES ASSUME ReportInv, Bounded, [ReportNext]_reportVars PROVE Bounded'  OBVIOUS
  <2>1. CASE Begin
    <3>1. PICK R : past \in Seq(R)  BY DEF ReportInv, Reporting
    <3>2. PICK c \in Configs, r \in Reports : past' = Append(past, [config |-> c, report |-> r])
      BY <2>1 DEF Begin
    <3>3. PICK e, p : e = [config |-> c, report |-> r] /\ p = past' /\ p = Append(past, e)  BY <3>2
    <3>4. Len(p) = Len(past) + 1 /\ Len(past) \in Nat
      <4>1. past \in Seq(R \cup {e}) /\ e \in R \cup {e}  BY <3>1
      <4> QED  BY <3>3, <4>1, AppendProperties
    <3>5. Run' = Run + 1 /\ Run < MaxRuns /\ Run \in Nat  BY <2>1, <3>3, <3>4 DEF Begin, Run
    <3>6. opened' = FALSE /\ queue' = queue  BY <2>1 DEF Begin
    <3>7. Run' <= MaxRuns  BY <3>5, RunsAreNat
    <3> QED  BY <3>6, <3>7
  <2>2. CASE Enqueue
    <3>1. UNCHANGED <<past, opened>>  BY <2>2 DEF Enqueue
    <3>2. PICK j : j = Min(DOMAIN todo)  OBVIOUS
    <3>3. PICK key, row : /\ row = todo[j]
                          /\ queue' = [k \in DOMAIN queue \cup {key} |-> IF k \in DOMAIN queue THEN queue[k] ELSE row]
      BY <2>2, <3>2 DEF Enqueue
    <3>4. row.delivered = FALSE  BY <2>2, <3>2, <3>3, RowWaits
    <3>5. \A k \in DOMAIN queue' : queue'[k] = IF k \in DOMAIN queue THEN queue[k] ELSE row  BY <3>3
    <3> QED  BY <3>1, <3>4, <3>5 DEF Run
  <2>3. ASSUME NEW keys, Deliver(keys), UNCHANGED <<past, opened>> PROVE Bounded'
    <3>1. ASSUME NEW k \in DOMAIN queue' PROVE queue'[k].delivered \in BOOLEAN
      <4>1. k \in DOMAIN queue
            /\ queue'[k] = IF k \in keys THEN [queue[k] EXCEPT !.delivered = TRUE] ELSE queue[k]
        BY <2>3 DEF Deliver
      <4>2. queue[k] = [id |-> queue[k].id, payload |-> queue[k].payload, delivered |-> queue[k].delivered]
        BY <4>1 DEF ReportInv, Made
      <4>3. CASE k \in keys
        <5>1. queue'[k] = [id |-> queue[k].id, payload |-> queue[k].payload, delivered |-> TRUE]
          BY <4>1, <4>2, <4>3
        <5> QED  BY <5>1
      <4>4. CASE k \notin keys  BY <4>1, <4>4
      <4> QED  BY <4>3, <4>4
    <3> QED  BY <2>3, <3>1 DEF Run
  <2>4. CASE Drain \/ Fault
    <3>1. UNCHANGED <<past, opened>>  BY <2>4 DEF Drain, Fault, Unavailable
    <3>2. (\E keys : Deliver(keys)) \/ UNCHANGED queue  BY <2>4 DEF Drain, Fault
    <3> QED  BY <2>3, <3>1, <3>2 DEF Run
  <2>5. CASE Open \/ OpenFails \/ Build \/ OpenLegacy \/ Audited \/ Die \/ UNCHANGED reportVars
    <3>1. UNCHANGED <<past, queue>> /\ (opened' = opened \/ opened' = TRUE)
      BY <2>5 DEF Open, OpenFails, Build, OpenLegacy, Audited, Die, Abandon, Unavailable, reportVars
    <3> QED  BY <3>1 DEF Run
  <2> QED  BY <2>1, <2>2, <2>4, <2>5 DEF ReportNext
<1>3. ReportInv /\ Bounded => ReportTypeOK
  <2> SUFFICES ASSUME ReportInv, Bounded, NEW row \in Range(queue)
               PROVE  row.payload.about.run \in 1 .. Run /\ row.delivered \in BOOLEAN
    BY DEF ReportTypeOK, ReportInv, Reporting
  <2>1. PICK k \in DOMAIN queue : row = queue[k]  BY DEF Range
  <2>2. PICK run \in DOMAIN past : From(k, queue[k].payload, run, past[run])  BY DEF ReportInv, Made
  <2>3. row.payload.about.run = run  BY <2>1, <2>2, InRow DEF From
  <2>4. run \in 1 .. Run  BY <2>2 DEF ReportInv, Reporting, Run
  <2> QED  BY <2>1, <2>3, <2>4
<1> QED  BY <1>1, <1>2, <1>3, InductiveReport, PTL DEF ReportSpec
=============================================================================
