---------------------------- MODULE RunnerLease ----------------------------
(***************************************************************************)
(* The lease directory by which the runners of one installation agree on   *)
(* which of them serves (src/src/execution/runner-lease.ts).  Creating the *)
(* directory takes the lease; the owner keeps a record with a timestamp in *)
(* it, written to a temporary file and renamed into place; a contender     *)
(* that finds no record or an old one moves the directory out of the way   *)
(* and tries again.  Every file operation is a step of its own, so all     *)
(* their interleavings are here, and a runner may die between any two.     *)
(***************************************************************************)
EXTENDS Naturals, FiniteSets

CONSTANTS
  Runners,     \* RunnerLease objects; a restarted process is another one
  StaleAfter,  \* staleAfterMs, in clock ticks
  Lag,         \* longest time from a heartbeat to the end of the next one
  Attempts,    \* iterations of the loop in acquire
  Horizon,     \* bound: last value of the clock
  NoRecord     \* there is no owner.json

ASSUME LeaseAssumption ==
  /\ StaleAfter \in Nat /\ Lag \in Nat /\ Horizon \in Nat
  /\ Attempts \in Nat \ {0}
  /\ NoRecord \notin [owner : Runners, at : Nat]

VARIABLES
  made,   \* the directory .runner-lease exists
  rec,    \* owner.json in it
  temps,  \* runners whose temporary heartbeat file is in it
  clock,  \* wall clock
  raced,  \* history: a runner was started while another was in acquire
  pc,     \* control state of each runner
  tries,  \* iterations of acquire's loop a runner has begun
  beat,   \* the heartbeat a runner has in flight
  at,     \* the time that heartbeat says
  done    \* the time the runner's last finished heartbeat says

dir == <<made, rec, temps>>
beats == <<beat, at, done>>
leaseVars == <<dir, clock, raced, pc, tries, beats>>

Acquiring == {"mkdir", "first", "read", "steal"}
Ended == {"refused", "lost", "released", "dead"}
Control == Acquiring \cup {"off", "own", "unlink", "rmdir"} \cup Ended

LeaseTypeOK ==
  /\ made \in BOOLEAN
  /\ rec \in {NoRecord} \cup [owner : Runners, at : Nat]
  /\ temps \subseteq Runners
  /\ made \/ (rec = NoRecord /\ temps = {})
  /\ clock \in Nat
  /\ raced \in BOOLEAN
  /\ pc \in [Runners -> Control]
  /\ tries \in [Runners -> 0 .. Attempts]
  /\ beat \in [Runners -> {"none", "write", "rename"}]
  /\ at \in [Runners -> Nat] /\ done \in [Runners -> Nat]

\* A runner that died between mkdir and its first record leaves an empty
\* directory; other remains of a predecessor are those of a dead runner.
LeaseInit ==
  /\ made \in BOOLEAN /\ rec = NoRecord /\ temps = {}
  /\ clock = 0 /\ raced = FALSE
  /\ pc = [p \in Runners |-> "off"]
  /\ tries = [p \in Runners |-> 0]
  /\ beat = [p \in Runners |-> "none"]
  /\ at = [p \in Runners |-> 0]
  /\ done = [p \in Runners |-> 0]

Proceeds(p, from, to) == pc[p] = from /\ pc' = [pc EXCEPT ![p] = to]

\* Date.now() - heartbeatAt < staleAfterMs, of a record that is there.
Fresh == rec # NoRecord /\ clock < rec.at + StaleAfter

\* What mkdir makes and what moving the directory away leaves behind.
EmptyDir == made' = TRUE /\ rec' = NoRecord /\ temps' = {}
NoDir == made' = FALSE /\ rec' = NoRecord /\ temps' = {}

-----------------------------------------------------------------------------
(* acquire                                                                 *)

Start(p) ==
  /\ Proceeds(p, "off", "mkdir")
  /\ tries' = [tries EXCEPT ![p] = 1]
  /\ raced' = (raced \/ \E q \in Runners : pc[q] \in Acquiring)
  /\ UNCHANGED <<dir, clock, beats>>

\* mkdir succeeds and the first heartbeat is on its way.
MakeDir(p) ==
  /\ ~ made
  /\ EmptyDir
  /\ Proceeds(p, "mkdir", "first")
  /\ beat' = [beat EXCEPT ![p] = "write"]
  /\ at' = [at EXCEPT ![p] = clock]
  /\ UNCHANGED <<clock, raced, tries, done>>

\* EEXIST
DirExists(p) ==
  /\ made
  /\ Proceeds(p, "mkdir", "read")
  /\ UNCHANGED <<dir, clock, raced, tries, beats>>

\* Mutant of ReadRecord: only a record that is there can be stale.
ReadRecordKeepsEmpty(p) ==
  /\ Proceeds(p, "read", IF Fresh \/ rec = NoRecord THEN "refused" ELSE "steal")
  /\ UNCHANGED <<dir, clock, raced, tries, beats>>

\* Mutant of ReadRecord: staleness is judged without staleAfterMs.
ReadRecordImpatient(p) ==
  /\ Proceeds(p, "read", IF rec # NoRecord /\ rec.at >= clock THEN "refused" ELSE "steal")
  /\ UNCHANGED <<dir, clock, raced, tries, beats>>

\* A fresh record makes acquire throw; a stale one or none, move on.
ReadRecord(p) ==
  /\ Proceeds(p, "read", IF Fresh THEN "refused" ELSE "steal")
  /\ UNCHANGED <<dir, clock, raced, tries, beats>>

\* Mutant of Steal: the loop ends one iteration early.
StealOnceLess(p) ==
  /\ NoDir
  /\ Proceeds(p, "steal", IF tries[p] + 1 >= Attempts THEN "lost" ELSE "mkdir")
  /\ tries' = [tries EXCEPT ![p] = IF @ = Attempts THEN @ ELSE @ + 1]
  /\ UNCHANGED <<clock, raced, beats>>

\* The directory, whoever made it by now, is renamed and removed; that it
\* has gone (ENOENT) is as good.  The last iteration ends acquire.
Steal(p) ==
  /\ NoDir
  /\ Proceeds(p, "steal", IF tries[p] = Attempts THEN "lost" ELSE "mkdir")
  /\ tries' = [tries EXCEPT ![p] = IF @ = Attempts THEN @ ELSE @ + 1]
  /\ UNCHANGED <<clock, raced, beats>>

-----------------------------------------------------------------------------
(* writeHeartbeat, from acquire and from the timer                         *)

\* The timer of an owner fires.
Fire(p) ==
  /\ pc[p] = "own" /\ beat[p] = "none"
  /\ beat' = [beat EXCEPT ![p] = "write"]
  /\ at' = [at EXCEPT ![p] = clock]
  /\ UNCHANGED <<dir, clock, raced, pc, tries, done>>

\* Mutant of WriteTemp: the file is written although the directory has gone.
WriteTempAnyway(p) ==
  /\ beat[p] = "write"
  /\ temps' = temps \cup {p}
  /\ beat' = [beat EXCEPT ![p] = "rename"]
  /\ UNCHANGED <<made, rec, clock, raced, pc, tries, at, done>>

WriteTemp(p) ==
  /\ beat[p] = "write" /\ made
  /\ temps' = temps \cup {p}
  /\ beat' = [beat EXCEPT ![p] = "rename"]
  /\ UNCHANGED <<made, rec, clock, raced, pc, tries, at, done>>

\* The heartbeat is over; the first one also ends acquire.
Finish(p, outcome) ==
  /\ beat' = [beat EXCEPT ![p] = "none"]
  /\ done' = [done EXCEPT ![p] = at[p]]
  /\ pc' = [pc EXCEPT ![p] = IF @ = "first" THEN outcome ELSE @]
  /\ UNCHANGED <<clock, raced, tries, at>>

RenameTemp(p) ==
  /\ beat[p] = "rename" /\ p \in temps
  /\ temps' = temps \ {p}
  /\ rec' = [owner |-> p, at |-> at[p]]
  /\ Finish(p, "own")
  /\ UNCHANGED made

\* ENOENT: thrown by acquire, ignored by the timer.
BeatFails(p) ==
  /\ (beat[p] = "write" /\ ~ made) \/ (beat[p] = "rename" /\ p \notin temps)
  /\ Finish(p, "lost")
  /\ UNCHANGED dir

-----------------------------------------------------------------------------
(* release                                                                 *)

\* The timer is cleared and the record read; a heartbeat in flight goes on.
Release(p) ==
  /\ Proceeds(p, "own", IF rec # NoRecord /\ rec.owner = p THEN "unlink" ELSE "released")
  /\ UNCHANGED <<dir, clock, raced, tries, beats>>

\* rm -r: first what is in the directory...
Unlink(p) ==
  /\ Proceeds(p, "unlink", "rmdir")
  /\ rec' = NoRecord /\ temps' = {}
  /\ UNCHANGED <<made, clock, raced, tries, beats>>

\* Mutant of RemoveDir: the directory goes with what is in it by now.
RemoveDirFull(p) ==
  /\ Proceeds(p, "rmdir", "released")
  /\ NoDir
  /\ UNCHANGED <<clock, raced, tries, beats>>

\* ...then the directory, unless something has been put there since.
RemoveDir(p) ==
  /\ Proceeds(p, "rmdir", "released")
  /\ made' = (made /\ (rec # NoRecord \/ temps # {}))
  /\ UNCHANGED <<rec, temps, clock, raced, tries, beats>>

-----------------------------------------------------------------------------
Die(p) ==
  /\ pc[p] \notin Ended \cup {"off"}
  /\ pc' = [pc EXCEPT ![p] = "dead"]
  /\ beat' = [beat EXCEPT ![p] = "none"]
  /\ UNCHANGED <<dir, clock, raced, tries, at, done>>

\* Runners that hold the lease, as far as they know.
Holding == {p \in Runners : pc[p] \in {"own", "unlink"}}

\* No heartbeat and no release of a live runner takes longer than Lag.
Tick ==
  /\ clock < Horizon
  /\ \A p \in Runners : beat[p] # "none" => clock < at[p] + Lag
  /\ \A p \in Holding : clock < done[p] + Lag
  /\ clock' = clock + 1
  /\ UNCHANGED <<dir, raced, pc, tries, beats>>

Acquire(p) == MakeDir(p) \/ DirExists(p) \/ ReadRecord(p) \/ Steal(p)
Heartbeat(p) == WriteTemp(p) \/ RenameTemp(p) \/ BeatFails(p)
GiveUp(p) == Unlink(p) \/ RemoveDir(p)

LeaseNext ==
  \/ \E p \in Runners : \/ Start(p) \/ Acquire(p)
                        \/ Fire(p) \/ Heartbeat(p)
                        \/ Release(p) \/ GiveUp(p)
                        \/ Die(p)
  \/ Tick

LeaseSpec == LeaseInit /\ [][LeaseNext]_leaseVars

\* A live runner carries on with what it has begun.
Fairness ==
  \A p \in Runners : WF_leaseVars(Acquire(p)) /\ WF_leaseVars(Heartbeat(p)) /\ WF_leaseVars(GiveUp(p))

FairSpec == LeaseSpec /\ Fairness

-----------------------------------------------------------------------------
(* Properties.                                                             *)

\* At most one runner serves the installation (acquire throws in the others).
MutualExclusion ==
  \A p, q \in Runners : pc[p] = "own" /\ pc[q] = "own" => p = q

\* That is so as long as every runner is started after the others have left
\* acquire, with whatever heartbeats, releases and deaths around it.
OneOwnerInTurn == ~ raced => MutualExclusion

\* What a contender looks at says the lease is taken for as long as a runner
\* holds it: late heartbeats of predecessors, their releases and contenders
\* that come one by one neither remove nor outdate the record.
LeaseHeld == ~ raced /\ Holding # {} => Fresh

\* Runners that start at the same time do not all fail: if every runner that
\* started has finished acquire, none having died or released, one owns.
SomeoneWins ==
  LET started == {p \in Runners : pc[p] # "off"} IN
  started # {} /\ (\A p \in started : pc[p] \in {"own", "refused", "lost"})
    => \E p \in started : pc[p] = "own"

\* A runner that is in acquire alone and finds the lease abandoned, its record
\* old or missing and no other runner active, takes it over.
Abandoned(p) ==
  /\ ~ Fresh
  /\ \A q \in Runners \ {p} : pc[q] \in Ended \cup {"off"} /\ beat[q] = "none"
TookOver(p) == pc[p] \in {"own", "unlink", "rmdir", "released", "dead"}
TakesOver ==
  \A p \in Runners : pc[p] = "mkdir" /\ Abandoned(p) ~> TookOver(p) \/ raced
=============================================================================
