---------------------------- MODULE RunnerServer ----------------------------
(***************************************************************************)
(* The managed runner: clients post jobs over HTTP, the server admits each *)
(* one, writes its input, runs the steps of its profile in containers and  *)
(* answers (src/src/execution/runner-server.ts, docker-executor.ts,        *)
(* runner-client.ts).  A handler gives up the event loop at every await,   *)
(* so handlers of different calls interleave between the steps below; a    *)
(* client may give up and ask for cancellation at any moment; the server   *)
(* may be shut down, or die and recover what its predecessor left behind.  *)
(***************************************************************************)
EXTENDS Naturals, FiniteSets

CONSTANTS
  Calls,           \* calls of runRepositoryProfile, each posting one job
  Runs,            \* run identifiers
  MaxConcurrency,  \* options.maxConcurrency
  Steps,           \* steps of the profile
  MaxRestarts,     \* bound: times the server is started again
  NoCall

ASSUME RunnerAssumption ==
  /\ IsFiniteSet(Calls)
  /\ MaxConcurrency \in Nat /\ Steps \in Nat \ {0} /\ MaxRestarts \in Nat
  /\ NoCall \notin Calls

VARIABLES
  run,       \* the runId of each call
  client,    \* each client: new, waiting, giving up, ended, told 404
  server,    \* the server process
  restarts,  \* restarts so far
  h,         \* control state of the handler of each call
  jobs,      \* this.jobs: the call registered under a run
  active,    \* this.active
  aborted,   \* calls whose AbortController has fired
  input,     \* the call whose input is in the run's job directory
  boxes,     \* worker containers that exist, by call and step
  step,      \* step a handler is at
  outcome,   \* outcome so far of the execution; failed, cancelled and timed out are one
  clean      \* cleanupConfirmed of the execution

clients == <<run, client>>
process == <<server, restarts>>
table == <<jobs, active, aborted>>
job == <<step, outcome, clean>>
vars == <<clients, process, h, table, input, boxes, job>>

Before == {"reading", "loading", "writing"}
Registered == {"head", "create", "wait", "sweep", "collect", "rescue", "reply"}
\* "dying": died while a container it had asked for may still appear.
Dead == {"dead", "dying", "ghost"}
Phase == {"idle", "removing", "done"} \cup Before \cup Registered \cup Dead

TypeOK ==
  /\ run \in [Calls -> Runs]
  /\ client \in [Calls -> {"new", "waiting", "gone", "ended", "notFound"}]
  /\ server \in {"down", "recovering", "up", "closing", "draining"}
  /\ restarts \in 0 .. MaxRestarts
  /\ h \in [Calls -> Phase]
  /\ jobs \in [Runs -> Calls \cup {NoCall}]
  /\ active \in 0 .. Cardinality(Calls)
  /\ aborted \subseteq Calls
  /\ input \in [Runs -> Calls \cup {NoCall}]
  /\ boxes \subseteq Calls \X (1 .. Steps)
  /\ step \in [Calls -> 1 .. Steps + 1]
  /\ outcome \in [Calls -> {"none", "completed", "failed"}]
  /\ clean \in [Calls -> BOOLEAN]

Init ==
  /\ run \in [Calls -> Runs]
  /\ client = [c \in Calls |-> "new"]
  /\ server = "down" /\ restarts = 0
  /\ h = [c \in Calls |-> "idle"]
  /\ jobs = [r \in Runs |-> NoCall] /\ active = 0 /\ aborted = {}
  /\ input = [r \in Runs |-> NoCall]
  /\ boxes = {}
  /\ step = [c \in Calls |-> 1]
  /\ outcome = [c \in Calls |-> "none"]
  /\ clean = [c \in Calls |-> FALSE]

Goto(c, from, to) == h[c] = from /\ h' = [h EXCEPT ![c] = to]
SameRun(c) == {d \in Calls : run[d] = run[c]}
Boxes(C) == {b \in boxes : b[1] \in C}
Idle == {"idle", "done"} \cup Dead
Connected(c) == client[c] = "waiting" /\ h[c] \notin Idle

-----------------------------------------------------------------------------
(* The client.                                                             *)

Post(c) ==
  /\ client[c] = "new"
  /\ client' = [client EXCEPT ![c] = "waiting"]
  /\ UNCHANGED <<run, process, h, table, input, boxes, job>>

\* The response, or the failure of the connection, reaches the client.
Receive(c) ==
  /\ client[c] = "waiting"
  /\ h[c] \in {"removing", "done"} \cup Dead \/ (h[c] = "idle" /\ server # "up")
  /\ client' = [client EXCEPT ![c] = "ended"]
  /\ UNCHANGED <<run, process, h, table, input, boxes, job>>

\* Its timeout fires or its caller aborts: the request is dropped.
Abort(c) ==
  /\ client[c] = "waiting"
  /\ client' = [client EXCEPT ![c] = "gone"]
  /\ UNCHANGED <<run, process, h, table, input, boxes, job>>

\* cancelRun, and the DELETE handler on the server: any answer ends the call.
Delete(c) ==
  /\ client[c] = "gone"
  /\ LET found == jobs[run[c]]
         Answer(a) == client' = [client EXCEPT ![c] = a]
     IN  \/ server # "up" /\ Answer("ended") /\ UNCHANGED aborted
         \/ server = "up" /\ found = NoCall /\ Answer("notFound") /\ UNCHANGED aborted
         \/ server = "up" /\ found # NoCall /\ Answer("ended")
            /\ aborted' = aborted \cup {found}
  /\ UNCHANGED <<run, process, h, jobs, active, input, boxes, job>>

-----------------------------------------------------------------------------
(* The handler of a POST, up to the registration of the job.               *)

\* The request reaches the server, perhaps after its client has given up.
Arrive(c) ==
  /\ client[c] # "new" /\ server = "up"
  /\ Goto(c, "idle", IF active >= MaxConcurrency THEN "done" ELSE "reading")
  /\ UNCHANGED <<clients, process, table, input, boxes, job>>

\* The body is read and parsed; a broken, foreign or oversized one is refused.
\* The check for a duplicate is the last thing before the next await.
ReadBody(c) ==
  /\ \/ Goto(c, "reading", "done")
     \/ jobs[run[c]] = NoCall /\ Goto(c, "reading", "loading")
  /\ UNCHANGED <<clients, process, table, input, boxes, job>>

\* Mutant of Prepare: the directory of all jobs is cleared.
PrepareAll(c) ==
  /\ \/ Goto(c, "loading", "done") /\ UNCHANGED input
     \/ Goto(c, "loading", "writing") /\ input' = [r \in Runs |-> NoCall]
  /\ UNCHANGED <<clients, process, table, boxes, job>>

\* The profile is loaded, or refused, and the run's directory is emptied.
Prepare(c) ==
  /\ \/ Goto(c, "loading", "done") /\ UNCHANGED input
     \/ Goto(c, "loading", "writing") /\ input' = [input EXCEPT ![run[c]] = NoCall]
  /\ UNCHANGED <<clients, process, table, boxes, job>>

\* The input is complete and sound; the job is registered in the same turn.
Register(c) ==
  /\ input[run[c]] = NoCall
  /\ Goto(c, "writing", "head")
  /\ input' = [input EXCEPT ![run[c]] = c]
  /\ jobs' = [jobs EXCEPT ![run[c]] = c]
  /\ active' = active + 1
  /\ UNCHANGED <<clients, process, aborted, boxes, job>>

\* A file exists already (flag wx), or the input does not match its digests.
InputRefused(c) ==
  /\ Goto(c, "writing", "done")
  /\ input' = [input EXCEPT ![run[c]] = NoCall]
  /\ UNCHANGED <<clients, process, table, boxes, job>>

-----------------------------------------------------------------------------
(* DockerWorkerExecutor.execute.                                           *)

Ends(c, o) == outcome' = [outcome EXCEPT ![c] = o]

\* The head of the loop over the steps; after the last one a cancellation is
\* not looked at any more.
NextStep(c) ==
  /\ \/ step[c] > Steps /\ Goto(c, "head", "collect") /\ Ends(c, "completed")
     \/ step[c] <= Steps /\ c \in aborted
        /\ Goto(c, "head", "collect") /\ Ends(c, "failed")
     \/ step[c] <= Steps /\ c \notin aborted
        /\ Goto(c, "head", "create") /\ UNCHANGED outcome
  /\ UNCHANGED <<clients, process, table, input, boxes, step, clean>>

\* docker create and docker start; an exception of the former is caught
\* where it happens, one of the latter leaves execute.
Create(c) ==
  /\ \/ Goto(c, "create", "collect") /\ Ends(c, "failed") /\ UNCHANGED boxes
     \/ /\ boxes' = boxes \cup {<<c, step[c]>>}
        /\ \/ \E to \in {"wait", "rescue"} : Goto(c, "create", to) /\ UNCHANGED outcome
           \/ Goto(c, "create", "sweep") /\ Ends(c, "failed")
  /\ UNCHANGED <<clients, process, table, input, step, clean>>

\* Mutant of Wait: the step that ended well is run again.
WaitSameStep(c) ==
  /\ \/ /\ Goto(c, "wait", "head")
        /\ boxes' \in {boxes, boxes \ {<<c, step[c]>>}}
        /\ UNCHANGED outcome
     \/ Goto(c, "wait", "sweep") /\ Ends(c, "failed") /\ UNCHANGED boxes
  /\ UNCHANGED <<clients, process, table, input, step, clean>>

\* docker wait races with the step's timeout and with cancellation, and any
\* of them may win.  After a good exit the container is removed (or fails to
\* be, unnoticed).
Wait(c) ==
  /\ \/ /\ Goto(c, "wait", "head")
        /\ step' = [step EXCEPT ![c] = @ + 1]
        /\ boxes' \in {boxes, boxes \ {<<c, step[c]>>}}
        /\ UNCHANGED outcome
     \/ Goto(c, "wait", "sweep") /\ Ends(c, "failed") /\ UNCHANGED <<boxes, step>>
  /\ UNCHANGED <<clients, process, table, input, clean>>

\* Mutant of CleanupRun: success is reported without looking again.
CleanupRunBlind(c, confirmed) ==
  \E gone \in SUBSET Boxes(SameRun(c)) : boxes' = boxes \ gone

\* cleanupRun removes every container labelled with the run and looks again;
\* a command that fails may have removed some.
CleanupRun(c, confirmed) ==
  IF confirmed THEN boxes' = boxes \ Boxes(SameRun(c))
               ELSE \E gone \in SUBSET Boxes(SameRun(c)) : boxes' = boxes \ gone

\* After a failed step; whether it worked is not looked at.
Sweep(c) ==
  /\ Goto(c, "sweep", "collect")
  /\ \E confirmed \in BOOLEAN : CleanupRun(c, confirmed)
  /\ UNCHANGED <<clients, process, table, input, job>>

\* Artifacts are read, then the run is cleaned up for good.  A completed run
\* fails for a missing artifact or an unconfirmed cleanup.
Collect(c) ==
  /\ Goto(c, "collect", "reply")
  /\ \E confirmed, found \in BOOLEAN :
       /\ CleanupRun(c, confirmed)
       /\ clean' = [clean EXCEPT ![c] = confirmed]
       /\ IF outcome[c] = "completed" /\ ~ (confirmed /\ found)
          THEN Ends(c, "failed")
          ELSE UNCHANGED outcome
  /\ UNCHANGED <<clients, process, table, input, step>>

\* The container runtime cannot be run, or the output directory not be
\* prepared: an exception leaves execute.
Throws(c) ==
  /\ \/ h[c] \in {"wait", "sweep", "collect"}
     \/ h[c] = "head" /\ step[c] = 1
  /\ h' = [h EXCEPT ![c] = "rescue"]
  /\ UNCHANGED <<clients, process, table, input, boxes, job>>

\* The catch block of the handler.
Rescue(c) ==
  /\ Goto(c, "rescue", "reply")
  /\ \E confirmed \in BOOLEAN :
       /\ CleanupRun(c, confirmed)
       /\ clean' = [clean EXCEPT ![c] = confirmed]
  /\ Ends(c, "failed")
  /\ UNCHANGED <<clients, process, table, input, step>>

-----------------------------------------------------------------------------

\* Mutant of Reply: the slot is returned only by a run that completed.
ReplyKeepsSlot(c) ==
  /\ Goto(c, "reply", "removing")
  /\ jobs' = [jobs EXCEPT ![run[c]] = NoCall]
  /\ active' = IF outcome[c] = "completed" THEN active - 1 ELSE active
  /\ aborted' = aborted \ {c}
  /\ UNCHANGED <<clients, process, input, boxes, job>>

\* The answer is written; the finally block frees the name and the slot, and
\* nothing can reach the job's AbortController any more.
Reply(c) ==
  /\ Goto(c, "reply", "removing")
  /\ jobs' = [jobs EXCEPT ![run[c]] = NoCall]
  /\ active' = active - 1
  /\ aborted' = aborted \ {c}
  /\ UNCHANGED <<clients, process, input, boxes, job>>

RemoveJobRoot(c) ==
  /\ Goto(c, "removing", "done")
  /\ input' = [input EXCEPT ![run[c]] = NoCall]
  /\ UNCHANGED <<clients, process, table, boxes, job>>

-----------------------------------------------------------------------------
(* The server process.  Its lease (RunnerLease) keeps other servers away.  *)

Listen ==
  /\ server = "down" /\ restarts < MaxRestarts
  /\ server' = "recovering" /\ restarts' = restarts + 1
  /\ UNCHANGED <<clients, h, table, input, boxes, job>>

\* All containers of the installation are removed at once; a command that fails
\* may have removed some.
recoverStaleWorkers(done) ==
  IF done THEN boxes' = {} ELSE boxes' \in SUBSET boxes

\* Mutant of Recover: the directories go, the containers stay.
RecoverFilesOnly ==
  /\ server = "recovering" /\ server' \in {"up", "down"}
  /\ input' = [r \in Runs |-> NoCall]
  /\ UNCHANGED <<clients, restarts, h, table, boxes, job>>

\* recover: all containers of the installation, then all job directories;
\* a failure on the way gives the lease back.
Recover ==
  /\ server = "recovering"
  /\ \/ /\ server' \in {"up", "down"}
        /\ recoverStaleWorkers(TRUE)
        /\ input' = [r \in Runs |-> NoCall]
     \/ /\ server' = "down"
        /\ recoverStaleWorkers(FALSE)
        /\ input' \in {input, [r \in Runs |-> NoCall]}
  /\ UNCHANGED <<clients, restarts, h, table, job>>

\* close: registered jobs are aborted, no connection is accepted any more.
Close ==
  /\ server = "up"
  /\ server' = "closing"
  /\ aborted' = aborted \cup ({jobs[r] : r \in Runs} \ {NoCall})
  /\ UNCHANGED <<clients, restarts, h, jobs, active, input, boxes, job>>

\* The last connection ends, and with it the lease; handlers whose client
\* has gone may still be at work.
Closed ==
  /\ server = "closing" /\ \A c \in Calls : ~ Connected(c)
  /\ server' = "draining"
  /\ UNCHANGED <<clients, restarts, h, table, input, boxes, job>>

Exit ==
  /\ server = "draining" /\ \A c \in Calls : h[c] \in Idle
  /\ server' = "down"
  /\ UNCHANGED <<clients, restarts, h, table, input, boxes, job>>

\* The process dies, and its memory with it; what it has asked of the container runtime may still be
\* carried out.
Crash ==
  /\ server # "down"
  /\ server' = "down"
  /\ h' = [c \in Calls |-> IF h[c] \in Idle THEN h[c]
                            ELSE IF h[c] = "create" THEN "dying" ELSE "dead"]
  /\ jobs' = [r \in Runs |-> NoCall] /\ active' = 0 /\ aborted' = {}
  /\ outcome' = [c \in Calls |-> IF h[c] \in Idle THEN outcome[c] ELSE "none"]
  /\ clean' = [c \in Calls |-> h[c] \in Idle /\ clean[c]]
  /\ UNCHANGED <<clients, restarts, input, boxes, step>>

GhostAppears(c) ==
  /\ Goto(c, "dying", "ghost")
  /\ boxes' = boxes \cup {<<c, step[c]>>}
  /\ UNCHANGED <<clients, process, table, input, job>>

Handle(c) ==
  \/ ReadBody(c) \/ Prepare(c) \/ Register(c) \/ InputRefused(c)
  \/ NextStep(c) \/ Create(c) \/ Wait(c) \/ Sweep(c)
  \/ Collect(c) \/ Throws(c) \/ Rescue(c) \/ Reply(c) \/ RemoveJobRoot(c)

Talk(c) == Post(c) \/ Receive(c) \/ Abort(c) \/ Delete(c)

Next ==
  \/ \E c \in Calls : Talk(c) \/ Arrive(c) \/ Handle(c) \/ GhostAppears(c)
  \/ Listen \/ Recover \/ Close \/ Closed \/ Exit \/ Crash

Spec == Init /\ [][Next]_vars

-----------------------------------------------------------------------------
(* Properties.                                                             *)

Sole(c) == SameRun(c) = {c}

\* The slots in use are those of registered jobs: no error path, duplicate or
\* cancellation loses a slot or returns it twice (active, runner-server.ts).
SlotsCounted == active = Cardinality({c \in Calls : h[c] \in Registered})

\* While the server serves, a container belongs to a job that is running, or
\* its job's answer admitted that cleanup was not confirmed, or it was asked
\* for by a server that died before it appeared.
NoStrayWorkers ==
  server = "up" =>
    \A b \in boxes : \/ h[b[1]] \in Registered
                     \/ h[b[1]] \in {"removing", "done"} /\ ~ clean[b[1]]
                     \/ h[b[1]] = "ghost"

\* A completed answer means that nothing of the run is left behind.
CompletedIsClean ==
  \A c \in Calls :
    h[c] \in {"removing", "done"} /\ outcome[c] = "completed"
      => clean[c] /\ Boxes({c}) = {}

\* A job with a run id of its own always works on its own input, whatever
\* other jobs are admitted, refused or removed meanwhile.
ScansOwnInput ==
  \A c \in Calls : Sole(c) /\ h[c] \in Registered => input[run[c]] = c

\* The awaits of a handler in the order of the code; a dead one comes last.
Order == <<"idle", "reading", "loading", "writing", "head", "create", "wait", "sweep",
           "collect", "rescue", "reply", "removing", "done", "dying", "ghost", "dead">>
Place(c) == CHOOSE k \in DOMAIN Order : Order[k] = h[c]

\* A handler never comes back to where it has been: each turn of the loop over
\* the steps is for a later step, and every error path leads on towards the
\* answer.  So a job ends and gives its slot back once its containers do.
HandlersAdvance ==
  [][\A c \in Calls :
       h'[c] # h[c] => \/ step'[c] > step[c]
                       \/ step'[c] = step[c] /\ Place(c)' > Place(c)]_vars
=============================================================================
