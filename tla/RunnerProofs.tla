---------------------------- MODULE RunnerProofs ----------------------------
(***************************************************************************)
(* Proofs about the managed runner.  About RunnerServer, for any number of *)
(* calls, runs, slots, steps and restarts: its typing, the count of slots, *)
(* the input a job works on, what a completed answer means, where          *)
(* containers may be left, and that handlers only move forward.  About     *)
(* RunnerLease, for any number of runners and any timing constants: its    *)
(* typing, and, if 2 * Lag < StaleAfter, that as long as runners are       *)
(* started one at a time at most one of them owns the lease and its record *)
(* never looks stale or missing.                                           *)
(***************************************************************************)
EXTENDS RunnerServer, RunnerLease, FiniteSetTheorems, SequenceTheorems, TLAPS

\* The types of all variables but active, whose upper bound needs a count.
Types ==
  /\ run \in [Calls -> Runs]
  /\ client \in [Calls -> {"new", "waiting", "gone", "ended", "notFound"}]
  /\ server \in {"down", "recovering", "up", "closing", "draining"}
  /\ restarts \in 0 .. MaxRestarts
  /\ h \in [Calls -> Phase]
  /\ jobs \in [Runs -> Calls \cup {NoCall}]
  /\ aborted \subseteq Calls
  /\ input \in [Runs -> Calls \cup {NoCall}]
  /\ boxes \subseteq Calls \X (1 .. Steps)
  /\ step \in [Calls -> 1 .. Steps + 1]
  /\ outcome \in [Calls -> {"none", "completed", "failed"}]
  /\ clean \in [Calls -> BOOLEAN]

\* A container is only asked for by a step of the profile.
AtStep == \A c \in Calls : h[c] \in {"create", "wait", "dying"} => step[c] <= Steps

\* Nobody is at work in a server that is down or recovering.
Quiet == server \in {"down", "recovering"} => \A c \in Calls : h[c] \in Idle

\* A job that has not begun has no outcome; one that has answered, or is
\* about to, has left no container if it says that cleanup is confirmed, and
\* says so if it completed.
Answered ==
  \A c \in Calls :
    /\ h[c] \in {"idle"} \cup Before => outcome[c] = "none" /\ ~ clean[c]
    /\ h[c] \in {"reply", "removing", "done"} =>
         /\ clean[c] => Boxes({c}) = {}
         /\ outcome[c] = "completed" => clean[c]

\* Containers may be left over in a server that is down; none of them is
\* when it has come up again, and every one has its job from then on.
Accounted ==
  server \notin {"down", "recovering"} =>
    \A b \in boxes : h[b[1]] \in Registered \cup {"removing", "done", "ghost"}

ServerInv ==
  Types /\ AtStep /\ Quiet /\ SlotsCounted /\ Answered /\ Accounted /\ ScansOwnInput

Serving == {c \in Calls : h[c] \in Registered}

-----------------------------------------------------------------------------
(* Typing.                                                                 *)

\* What removes containers leaves a set of containers.
LEMMA SweepTypes ==
  ASSUME NEW c \in Calls, NEW ok \in BOOLEAN, CleanupRun(c, ok)
  PROVE  boxes' \subseteq boxes /\ (ok => Boxes({c})' = {})
  BY DEF CleanupRun, Boxes, SameRun

\* A confirmed flag that is set stays a truth value.
LEMMA FlagTypes ==
  ASSUME clean \in [Calls -> BOOLEAN], NEW c \in Calls, NEW ok \in BOOLEAN,
         clean' = [clean EXCEPT ![c] = ok]
  PROVE  /\ clean' \in [Calls -> BOOLEAN] /\ (clean'[c] <=> ok)
         /\ \A d \in Calls : d # c => (clean'[d] <=> clean[d])
  BY Zenon

\* The control of a handler that moves on.
LEMMA Moves ==
  ASSUME h \in [Calls -> Phase], NEW c \in Calls, NEW from, NEW to \in Phase, Goto(c, from, to)
  PROVE  /\ h' \in [Calls -> Phase]
         /\ h[c] = from /\ h'[c] = to
         /\ \A d \in Calls : d # c => h'[d] = h[d]
  BY DEF Goto

\* The server starts well typed and with nothing to clean up.
LEMMA InitServer == Init => ServerInv
  <1> SUFFICES ASSUME Init PROVE ServerInv
    OBVIOUS
  <1>1. clean \in [Calls -> BOOLEAN] /\ \A c \in Calls : ~ clean[c]
    BY Zenon DEF Init
  <1>2. Types
    BY <1>1, RunnerAssumption DEF Init, Types, Phase, Before, Registered, Dead
  <1>3. {c \in Calls : h[c] \in Registered} = {}
    BY DEF Init, Registered
  <1>4. SlotsCounted
    BY <1>3, FS_EmptySet DEF Init, SlotsCounted
  <1>5. AtStep /\ Quiet /\ Accounted /\ ScansOwnInput
    BY DEF Init, AtStep, Quiet, Accounted, ScansOwnInput, Idle, Registered
  <1>6. Answered
    BY <1>1 DEF Init, Answered
  <1>7. QED
    BY <1>2, <1>4, <1>5, <1>6 DEF ServerInv

\* The steps of the handlers keep the types.
LEMMA HandleTypes ==
  ASSUME Types, AtStep, NEW c \in Calls, Handle(c) \/ Arrive(c) \/ GhostAppears(c)
  PROVE  Types'
  <1> USE DEF Types, clients, process, table, job
  <1>p. /\ Before \cup Registered \cup Dead \cup {"idle", "removing", "done"} = Phase
        /\ run[c] \in Runs
    BY DEF Phase
  <1>1. CASE Arrive(c) \/ ReadBody(c)
    <2>1. h' \in [Calls -> Phase]
      BY <1>1, Moves, <1>p DEF Arrive, ReadBody, Before
    <2>2. QED
      BY <1>1, <2>1 DEF Arrive, ReadBody
  <1>2. CASE Prepare(c) \/ InputRefused(c) \/ RemoveJobRoot(c)
    <2>1. h' \in [Calls -> Phase]
      BY <1>2, Moves, <1>p DEF Prepare, InputRefused, RemoveJobRoot, Before
    <2>2. input' \in [Runs -> Calls \cup {NoCall}]
      BY <1>2 DEF Prepare, InputRefused, RemoveJobRoot
    <2>3. QED
      BY <1>2, <2>1, <2>2 DEF Prepare, InputRefused, RemoveJobRoot
  <1>3. CASE Register(c)
    <2>1. h' \in [Calls -> Phase]
      BY <1>3, Moves, <1>p DEF Register, Registered
    <2>2. /\ input' \in [Runs -> Calls \cup {NoCall}]
          /\ jobs' \in [Runs -> Calls \cup {NoCall}]
      BY <1>3 DEF Register
    <2>3. QED
      BY <1>3, <2>1, <2>2 DEF Register
  <1>4. CASE NextStep(c)
    <2>1. h' \in [Calls -> Phase]
      BY <1>4, Moves, <1>p DEF NextStep, Registered
    <2>2. outcome' \in [Calls -> {"none", "completed", "failed"}]
      BY <1>4 DEF NextStep, Ends
    <2>3. QED
      BY <1>4, <2>1, <2>2 DEF NextStep
  <1>5. CASE Create(c)
    <2>1. h' \in [Calls -> Phase]
      BY <1>5, Moves, <1>p DEF Create, Registered
    <2>2. outcome' \in [Calls -> {"none", "completed", "failed"}]
      BY <1>5 DEF Create, Ends
    <2>3. h[c] = "create" /\ step[c] \in 1 .. Steps
      BY <1>5, RunnerAssumption DEF Create, Goto, AtStep
    <2>4. boxes' \subseteq Calls \X (1 .. Steps)
      BY <1>5, <2>3 DEF Create
    <2>5. QED
      BY <1>5, <2>1, <2>2, <2>4 DEF Create
  <1>6. CASE Wait(c)
    <2>1. h' \in [Calls -> Phase]
      BY <1>6, Moves, <1>p DEF Wait, Registered
    <2>2. outcome' \in [Calls -> {"none", "completed", "failed"}]
      BY <1>6 DEF Wait, Ends
    <2>3. boxes' \subseteq boxes
      BY <1>6 DEF Wait
    <2>4. step[c] + 1 \in 1 .. Steps + 1
      BY <1>6, RunnerAssumption DEF Wait, Goto, AtStep
    <2>5. step' \in [Calls -> 1 .. Steps + 1]
      BY <1>6, <2>4 DEF Wait
    <2>6. QED
      BY <1>6, <2>1, <2>2, <2>3, <2>5 DEF Wait
  <1>7. CASE Sweep(c)
    <2>1. h' \in [Calls -> Phase]
      BY <1>7, Moves, <1>p DEF Sweep, Registered
    <2>2. boxes' \subseteq boxes
      BY <1>7, SweepTypes DEF Sweep
    <2>3. QED
      BY <1>7, <2>1, <2>2 DEF Sweep
  <1>8. CASE Collect(c)
    <2>1. h' \in [Calls -> Phase]
      BY <1>8, Moves, <1>p DEF Collect, Registered
    <2>2. boxes' \subseteq boxes
      BY <1>8, SweepTypes DEF Collect
    <2>3. clean' \in [Calls -> BOOLEAN]
      BY <1>8, FlagTypes DEF Collect
    <2>4. outcome' \in [Calls -> {"none", "completed", "failed"}]
      BY <1>8 DEF Collect, Ends
    <2>5. QED
      BY <1>8, <2>1, <2>2, <2>3, <2>4 DEF Collect
  <1>9. CASE Throws(c)
    BY <1>9, <1>p DEF Throws, Registered
  <1>10. CASE Rescue(c)
    <2>1. h' \in [Calls -> Phase]
      BY <1>10, Moves, <1>p DEF Rescue, Registered
    <2>2. boxes' \subseteq boxes
      BY <1>10, SweepTypes DEF Rescue
    <2>3. clean' \in [Calls -> BOOLEAN]
      BY <1>10, FlagTypes DEF Rescue
    <2>4. outcome' \in [Calls -> {"none", "completed", "failed"}]
      BY <1>10 DEF Rescue, Ends
    <2>5. QED
      BY <1>10, <2>1, <2>2, <2>3, <2>4 DEF Rescue
  <1>11. CASE Reply(c)
    <2>1. h' \in [Calls -> Phase]
      BY <1>11, Moves, <1>p DEF Reply
    <2>2. jobs' \in [Runs -> Calls \cup {NoCall}] /\ aborted' \subseteq Calls
      BY <1>11 DEF Reply
    <2>3. QED
      BY <1>11, <2>1, <2>2 DEF Reply
  <1>12. CASE GhostAppears(c)
    <2>1. h' \in [Calls -> Phase]
      BY <1>12, Moves, <1>p DEF GhostAppears, Dead
    <2>2. h[c] = "dying" /\ step[c] \in 1 .. Steps
      BY <1>12, RunnerAssumption DEF GhostAppears, Goto, AtStep
    <2>3. boxes' \subseteq Calls \X (1 .. Steps)
      BY <1>12, <2>2 DEF GhostAppears
    <2>4. QED
      BY <1>12, <2>1, <2>3 DEF GhostAppears
  <1>13. QED
    BY <1>1, <1>2, <1>3, <1>4, <1>5, <1>6, <1>7, <1>8, <1>9, <1>10, <1>11, <1>12
    DEF Handle

\* Clients and the server process keep the types.
LEMMA OtherTypes ==
  ASSUME Types,
         \/ \E c \in Calls : Talk(c)
         \/ Listen \/ Recover \/ Close \/ Closed \/ Exit \/ Crash
  PROVE  Types'
  <1> USE DEF Types, clients, process, table, job
  <1>1. ASSUME NEW c \in Calls, Talk(c) PROVE Types'
    <2>1. client' \in [Calls -> {"new", "waiting", "gone", "ended", "notFound"}]
      BY <1>1 DEF Talk, Post, Receive, Abort, Delete
    <2>2. aborted' \subseteq Calls
      BY <1>1 DEF Talk, Post, Receive, Abort, Delete
    <2>3. QED
      BY <1>1, <2>1, <2>2 DEF Talk, Post, Receive, Abort, Delete
  <1>2. CASE Listen
    BY <1>2, RunnerAssumption DEF Listen
  <1>3. CASE Recover
    <2>1. boxes' \subseteq boxes /\ input' \in [Runs -> Calls \cup {NoCall}]
      BY <1>3 DEF Recover, recoverStaleWorkers
    <2>2. QED
      BY <1>3, <2>1 DEF Recover
  <1>4. CASE Close
    BY <1>4 DEF Close
  <1>5. CASE Closed \/ Exit
    BY <1>5 DEF Closed, Exit
  <1>6. CASE Crash
    <2>1. h' \in [Calls -> Phase]
      BY <1>6 DEF Crash, Phase, Dead
    <2>2. clean' \in [Calls -> BOOLEAN]
      BY <1>6, Zenon DEF Crash
    <2>3. outcome' \in [Calls -> {"none", "completed", "failed"}]
      BY <1>6 DEF Crash
    <2>4. QED
      BY <1>6, <2>1, <2>2, <2>3 DEF Crash
  <1>7. QED
    BY <1>1, <1>2, <1>3, <1>4, <1>5, <1>6

\* The types are inductive, given that no step beyond the last asks for a
\* container.
LEMMA TypesNext == Types /\ AtStep /\ [Next]_vars => Types'
  <1>1. UNCHANGED vars /\ Types => Types'
    BY DEF Types, vars, clients, process, table, job
  <1>2. QED
    BY <1>1, HandleTypes, OtherTypes DEF Next

-----------------------------------------------------------------------------
(* What a step may do to the control of handlers.                          *)

\* How a handler gets on: from where to where.
Turn(c) ==
  \/ /\ h[c] = "idle" /\ server = "up"
     /\ h'[c] \in {"done", "reading"}
  \/ /\ h[c] \in Before
     /\ h'[c] \in {"done", "loading", "writing", "head"}
  \/ /\ h[c] \in Registered \ {"reply"}
     /\ h'[c] \in Registered
  \/ h[c] = "reply" /\ h'[c] = "removing"
  \/ h[c] = "removing" /\ h'[c] = "done"
  \/ h[c] = "dying" /\ h'[c] = "ghost"

\* A handler's step moves that handler only, and but for its registration
\* and its answer, neither the count of slots nor its part in it changes.
LEMMA HandlerTurns ==
  ASSUME Types, NEW c \in Calls, Handle(c) \/ Arrive(c) \/ GhostAppears(c)
  PROVE  /\ \A d \in Calls : d # c => h'[d] = h[d]
         /\ Turn(c)
         /\ UNCHANGED <<run, server>>
         /\ \/ Register(c) \/ Reply(c)
            \/ active' = active /\ (h[c] \in Registered <=> h'[c] \in Registered)
  <1> USE DEF Types, Turn, Before, Registered, clients, process, table, job
  <1> DEFINE Same == active' = active /\ (h[c] \in Registered <=> h'[c] \in Registered)
             Kept == /\ \A d \in Calls : d # c => h'[d] = h[d]
                     /\ UNCHANGED <<run, server>>
  <1>1. CASE Arrive(c) \/ GhostAppears(c)
    <2>1. Kept /\ Turn(c) /\ Same
      BY <1>1 DEF Arrive, GhostAppears, Goto
    <2>2. QED
      BY <2>1
  <1>2. CASE ReadBody(c) \/ Prepare(c) \/ InputRefused(c)
    <2>1. Kept /\ Turn(c) /\ Same
      BY <1>2 DEF ReadBody, Prepare, InputRefused, Goto
    <2>2. QED
      BY <2>1
  <1>3. CASE Register(c)
    <2>1. Kept /\ Turn(c)
      BY <1>3 DEF Register, Goto
    <2>2. QED
      BY <1>3, <2>1
  <1>4. CASE NextStep(c)
    <2>1. Kept /\ Turn(c) /\ Same
      BY <1>4 DEF NextStep, Goto
    <2>2. QED
      BY <2>1
  <1>5. CASE Create(c)
    <2>1. Kept /\ Turn(c) /\ Same
      BY <1>5 DEF Create, Goto
    <2>2. QED
      BY <2>1
  <1>6. CASE Wait(c)
    <2>1. Kept /\ Turn(c) /\ Same
      BY <1>6 DEF Wait, Goto
    <2>2. QED
      BY <2>1
  <1>7. CASE Sweep(c) \/ Collect(c)
    <2>1. Kept /\ Turn(c) /\ Same
      BY <1>7 DEF Sweep, Collect, Goto
    <2>2. QED
      BY <2>1
  <1>8. CASE Throws(c) \/ Rescue(c)
    <2>1. Kept /\ Turn(c) /\ Same
      BY <1>8 DEF Throws, Rescue, Goto
    <2>2. QED
      BY <2>1
  <1>9. CASE Reply(c)
    <2>1. Kept /\ Turn(c)
      BY <1>9 DEF Reply, Goto
    <2>2. QED
      BY <1>9, <2>1
  <1>10. CASE RemoveJobRoot(c)
    <2>1. Kept /\ Turn(c) /\ Same
      BY <1>10 DEF RemoveJobRoot, Goto
    <2>2. QED
      BY <2>1
  <1>11. QED
    <2>1. Handle(c) => \/ ReadBody(c) \/ Prepare(c) \/ InputRefused(c) \/ Register(c)
                       \/ NextStep(c) \/ Create(c) \/ Wait(c) \/ Sweep(c) \/ Collect(c)
                       \/ Throws(c) \/ Rescue(c) \/ Reply(c) \/ RemoveJobRoot(c)
      BY Zenon DEF Handle
    <2>2. QED
      BY <2>1, <1>1, <1>2, <1>3, <1>4, <1>5, <1>6, <1>7, <1>8, <1>9, <1>10

\* Outside the handlers nothing moves one on, but a crash ends them all.
LEMMA OthersStand ==
  ASSUME \/ \E c \in Calls : Talk(c)
         \/ Listen \/ Recover \/ Close \/ Closed \/ Exit \/ UNCHANGED vars
  PROVE  /\ UNCHANGED <<run, h, active, step, outcome, clean>>
         /\ UNCHANGED boxes \/ (Recover /\ boxes' \subseteq boxes)
  <1> USE DEF vars, clients, process, table, job
  <1>1. ASSUME NEW c \in Calls, Talk(c)
        PROVE  UNCHANGED <<run, h, active, step, outcome, clean, boxes>>
    BY <1>1 DEF Talk, Post, Receive, Abort, Delete
  <1>2. CASE Listen \/ Close \/ Closed \/ Exit \/ UNCHANGED vars
    BY <1>2 DEF Listen, Close, Closed, Exit
  <1>3. CASE Recover
    <2>1. boxes' \subseteq boxes
      BY <1>3 DEF Recover, recoverStaleWorkers
    <2>2. UNCHANGED <<run, h, active, step, outcome, clean>>
      BY <1>3 DEF Recover
    <2>3. QED
      BY <1>3, <2>1, <2>2
  <1>4. QED
    BY <1>1, <1>2, <1>3

\* What is left of a handler after a crash.
LEMMA CrashStops ==
  ASSUME Types, Crash
  PROVE  /\ \A c \in Calls : /\ h'[c] \in Idle
                             /\ h[c] \in Idle => /\ h'[c] = h[c] /\ outcome'[c] = outcome[c]
                                                 /\ clean'[c] <=> clean[c]
                             /\ h[c] \notin Idle => /\ h'[c] \in {"dead", "dying"}
                                                    /\ h'[c] = "dying" => h[c] = "create"
         /\ UNCHANGED <<run, step, boxes, input>>
         /\ server' = "down" /\ active' = 0
  <1>1. \A c \in Calls : h'[c] = IF h[c] \in Idle THEN h[c]
                                 ELSE IF h[c] = "create" THEN "dying" ELSE "dead"
    BY DEF Crash
  <1>2. \A c \in Calls : h[c] \in Idle => /\ outcome'[c] = outcome[c]
                                          /\ clean'[c] <=> clean[c]
    BY DEF Crash
  <1>3. UNCHANGED <<run, step, boxes, input>> /\ server' = "down" /\ active' = 0
    BY DEF Crash, clients
  <1>4. QED
    BY <1>1, <1>2, <1>3 DEF Idle, Dead

\* The kinds of steps there are.
LEMMA Kinds ==
  ASSUME [Next]_vars
  PROVE  \/ \E c \in Calls : Handle(c) \/ Arrive(c) \/ GhostAppears(c)
         \/ \/ \E c \in Calls : Talk(c)
            \/ Listen \/ Recover \/ Close \/ Closed \/ Exit \/ UNCHANGED vars
         \/ Crash
  BY DEF Next

-----------------------------------------------------------------------------
(* Slots.                                                                  *)

\* A slot is taken with a job's registration and given back with its answer,
\* and at no other time, so active never drifts from the jobs there are.
LEMMA SlotsNext == Types /\ SlotsCounted /\ [Next]_vars => SlotsCounted'
  <1> SUFFICES ASSUME Types, SlotsCounted, [Next]_vars PROVE SlotsCounted'
    OBVIOUS
  <1>0. IsFiniteSet(Serving) /\ active = Cardinality(Serving)
    BY RunnerAssumption, FS_Subset DEF Serving, SlotsCounted
  <1>1. SUFFICES active' = Cardinality(Serving')
    BY DEF Serving, SlotsCounted
  <1>2. ASSUME NEW c \in Calls, Handle(c) \/ Arrive(c) \/ GhostAppears(c)
        PROVE  active' = Cardinality(Serving')
    <2>1. \A d \in Calls : d # c => h'[d] = h[d]
      BY <1>2, HandlerTurns
    <2>2. CASE Register(c)
      <3>1. c \notin Serving /\ Serving' = Serving \cup {c}
        BY <2>1, <2>2 DEF Types, Register, Goto, Serving, Registered
      <3>2. Cardinality(Serving \cup {c}) = Cardinality(Serving) + 1
        BY <1>0, <3>1, FS_AddElement
      <3>3. QED
        BY <1>0, <2>2, <3>1, <3>2 DEF Register
    <2>3. CASE Reply(c)
      <3>1. c \in Serving /\ Serving' = Serving \ {c}
        BY <2>1, <2>3 DEF Types, Reply, Goto, Serving, Registered
      <3>2. Cardinality(Serving \ {c}) = Cardinality(Serving) - 1
        BY <1>0, <3>1, FS_RemoveElement
      <3>3. QED
        BY <1>0, <2>3, <3>1, <3>2 DEF Reply
    <2>4. CASE active' = active /\ (h[c] \in Registered <=> h'[c] \in Registered)
      <3>1. Serving' = Serving
        BY <2>1, <2>4 DEF Serving
      <3>2. QED
        BY <1>0, <2>4, <3>1
    <2>5. QED
      BY <1>2, <2>2, <2>3, <2>4, HandlerTurns
  <1>3. CASE \/ \E c \in Calls : Talk(c)
             \/ Listen \/ Recover \/ Close \/ Closed \/ Exit \/ UNCHANGED vars
    <2>1. UNCHANGED <<h, active>>
      BY <1>3, OthersStand
    <2>2. QED
      BY <1>0, <2>1 DEF Serving
  <1>4. CASE Crash
    <2>1. Serving' = {} /\ active' = 0
      BY <1>4, CrashStops DEF Serving, Registered, Idle, Dead
    <2>2. QED
      BY <2>1, FS_EmptySet
  <1>5. QED
    BY <1>2, <1>3, <1>4, Kinds

\* The number of slots in use is one, and it is bounded by the calls.
LEMMA SlotsBounded == SlotsCounted => active \in 0 .. Cardinality(Calls)
  <1>1. IsFiniteSet(Calls) /\ {c \in Calls : h[c] \in Registered} \subseteq Calls
    BY RunnerAssumption
  <1>2. /\ Cardinality(Calls) \in Nat
        /\ Cardinality({c \in Calls : h[c] \in Registered}) \in Nat
        /\ Cardinality({c \in Calls : h[c] \in Registered}) <= Cardinality(Calls)
    BY <1>1, FS_Subset, FS_CardinalityType
  <1>3. QED
    BY <1>2 DEF SlotsCounted

-----------------------------------------------------------------------------
(* Steps, and a server at rest.                                            *)

\* The loop over the steps asks for no container after the last.
LEMMA AtStepNext == Types /\ AtStep /\ [Next]_vars => AtStep'
  <1> SUFFICES ASSUME Types, AtStep, [Next]_vars PROVE AtStep'
    OBVIOUS
  <1>1. ASSUME NEW c \in Calls, Handle(c) \/ Arrive(c) \/ GhostAppears(c)
        PROVE  AtStep'
    <2>1. \A d \in Calls : d # c => h'[d] = h[d]
      BY <1>1, HandlerTurns
    <2>2. \/ step' = step
          \/ /\ \A d \in Calls : d # c => step'[d] = step[d]
             /\ h'[c] = "head"
      BY <1>1 DEF Types, Handle, Arrive, GhostAppears, ReadBody, Prepare, Register,
         InputRefused, NextStep, Create, Wait, Sweep, Collect, Throws, Rescue, Reply,
         RemoveJobRoot, Goto, job
    <2>3. h'[c] \in {"create", "wait", "dying"} =>
            \/ NextStep(c) /\ step[c] <= Steps
            \/ h[c] = "create"
      BY <1>1 DEF Types, Handle, Arrive, GhostAppears, ReadBody, Prepare, Register,
         InputRefused, NextStep, Create, Wait, Sweep, Collect, Throws, Rescue, Reply,
         RemoveJobRoot, Goto
    <2>4. QED
      BY <2>1, <2>2, <2>3 DEF AtStep
  <1>2. CASE \/ \E c \in Calls : Talk(c)
             \/ Listen \/ Recover \/ Close \/ Closed \/ Exit \/ UNCHANGED vars
    BY <1>2, OthersStand DEF AtStep
  <1>3. CASE Crash
    BY <1>3, CrashStops DEF AtStep
  <1>4. QED
    BY <1>1, <1>2, <1>3, Kinds

\* Only a server that is up takes a call, and one goes down or recovers only
\* without handlers.
LEMMA QuietNext == Types /\ Quiet /\ [Next]_vars => Quiet'
  <1> SUFFICES ASSUME Types, Quiet, [Next]_vars PROVE Quiet'
    OBVIOUS
  <1>1. ASSUME NEW c \in Calls, Handle(c) \/ Arrive(c) \/ GhostAppears(c)
        PROVE  Quiet'
    <2>1. /\ \A d \in Calls : d # c => h'[d] = h[d]
          /\ Turn(c) /\ server' = server
      BY <1>1, HandlerTurns
    <2>2. server \in {"down", "recovering"} => h'[c] \in Idle
      BY <2>1 DEF Quiet, Turn, Idle, Dead, Before, Registered
    <2>3. QED
      BY <2>1, <2>2 DEF Quiet
  <1>2. CASE \/ \E c \in Calls : Talk(c)
             \/ Listen \/ Recover \/ Close \/ Closed \/ Exit \/ UNCHANGED vars
    <2>1. \/ server' \notin {"down", "recovering"}
          \/ server \in {"down", "recovering"}
          \/ \A c \in Calls : h[c] \in Idle
      BY <1>2 DEF Talk, Post, Receive, Abort, Delete, Listen, Recover, Close, Closed, Exit,
         vars, process
    <2>2. h' = h
      BY <1>2, OthersStand
    <2>3. QED
      BY <2>1, <2>2 DEF Quiet
  <1>3. CASE Crash
    BY <1>3, CrashStops DEF Quiet
  <1>4. QED
    BY <1>1, <1>2, <1>3, Kinds

-----------------------------------------------------------------------------
(* Outcomes and containers.                                                *)

\* A handler's step leaves the outcomes of other jobs alone, and makes no
\* container but for its own job, while that is at work or its server is dead.
LEMMA HandlerData ==
  ASSUME Types, NEW c \in Calls, Handle(c) \/ Arrive(c) \/ GhostAppears(c)
  PROVE  /\ \A d \in Calls : d # c => outcome'[d] = outcome[d] /\ (clean'[d] <=> clean[d])
         /\ \A b \in boxes' : \/ b \in boxes
                              \/ b[1] = c /\ h'[c] \in {"wait", "rescue", "sweep", "ghost"}
  <1> USE DEF Types, clients, process, table, job
  <1> DEFINE Fewer == boxes' \subseteq boxes
             Others == \A d \in Calls : d # c => outcome'[d] = outcome[d] /\ (clean'[d] <=> clean[d])
  <1>1. CASE Arrive(c)
    BY <1>1 DEF Arrive
  <1>2. CASE GhostAppears(c)
    <2>1. Others
      BY <1>2 DEF GhostAppears
    <2>2. h'[c] = "ghost" /\ boxes' = boxes \cup {<<c, step[c]>>}
      BY <1>2 DEF GhostAppears, Goto
    <2>3. QED
      BY <2>1, <2>2
  <1>3. CASE ReadBody(c) \/ Prepare(c) \/ Register(c) \/ InputRefused(c) \/ Throws(c)
             \/ Reply(c) \/ RemoveJobRoot(c)
    BY <1>3 DEF ReadBody, Prepare, Register, InputRefused, Throws, Reply, RemoveJobRoot
  <1>4. CASE NextStep(c)
    BY <1>4 DEF NextStep, Ends
  <1>5. CASE Create(c)
    <2>1. Others
      BY <1>5 DEF Create, Ends
    <2>2. \/ boxes' = boxes
          \/ /\ boxes' = boxes \cup {<<c, step[c]>>}
             /\ h'[c] \in {"wait", "rescue", "sweep"}
      BY <1>5 DEF Create, Goto
    <2>3. QED
      BY <2>1, <2>2
  <1>6. CASE Wait(c)
    <2>1. Others
      BY <1>6 DEF Wait, Ends
    <2>2. Fewer
      BY <1>6 DEF Wait
    <2>3. QED
      BY <2>1, <2>2
  <1>7. CASE Sweep(c)
    <2>1. Others
      BY <1>7 DEF Sweep
    <2>2. Fewer
      BY <1>7, SweepTypes DEF Sweep
    <2>3. QED
      BY <2>1, <2>2
  <1>8. CASE Collect(c)
    <2>1. \A d \in Calls : d # c => outcome'[d] = outcome[d]
      BY <1>8 DEF Collect, Ends
    <2>2. \A d \in Calls : d # c => (clean'[d] <=> clean[d])
      BY <1>8, FlagTypes DEF Collect
    <2>3. Fewer
      BY <1>8, SweepTypes DEF Collect
    <2>4. QED
      BY <2>1, <2>2, <2>3
  <1>9. CASE Rescue(c)
    <2>1. \A d \in Calls : d # c => outcome'[d] = outcome[d]
      BY <1>9 DEF Rescue, Ends
    <2>2. \A d \in Calls : d # c => (clean'[d] <=> clean[d])
      BY <1>9, FlagTypes DEF Rescue
    <2>3. Fewer
      BY <1>9, SweepTypes DEF Rescue
    <2>4. QED
      BY <2>1, <2>2, <2>3
  <1>10. QED
    BY <1>1, <1>2, <1>3, <1>4, <1>5, <1>6, <1>7, <1>8, <1>9 DEF Handle

\* A job's own answer: it says what its last cleanup found.
LEMMA OwnAnswer ==
  ASSUME Types, Answered, NEW c \in Calls, Handle(c) \/ Arrive(c) \/ GhostAppears(c)
  PROVE  /\ h'[c] \in {"idle"} \cup Before => outcome'[c] = "none" /\ ~ clean'[c]
         /\ h'[c] \in {"reply", "removing", "done"} =>
              /\ clean'[c] => Boxes({c})' = {}
              /\ outcome'[c] = "completed" => clean'[c]
  <1> USE DEF Types, clients, process, table, job
  <1> DEFINE Goal ==
        /\ h'[c] \in {"idle"} \cup Before => outcome'[c] = "none" /\ ~ clean'[c]
        /\ h'[c] \in {"reply", "removing", "done"} =>
             /\ clean'[c] => Boxes({c})' = {}
             /\ outcome'[c] = "completed" => clean'[c]
  <1>1. CASE Collect(c)
    <2>1. PICK confirmed \in BOOLEAN, found \in BOOLEAN :
            /\ CleanupRun(c, confirmed) /\ clean' = [clean EXCEPT ![c] = confirmed]
            /\ IF outcome[c] = "completed" /\ ~ (confirmed /\ found)
               THEN Ends(c, "failed") ELSE UNCHANGED outcome
      BY <1>1 DEF Collect
    <2>2. (clean'[c] <=> confirmed) /\ (confirmed => Boxes({c})' = {})
      BY <2>1, FlagTypes, SweepTypes
    <2>3. outcome'[c] = "completed" => confirmed
      BY <2>1 DEF Ends
    <2>4. h'[c] = "reply"
      BY <1>1 DEF Collect, Goto
    <2>5. QED
      BY <2>2, <2>3, <2>4 DEF Before
  <1>2. CASE Rescue(c)
    <2>1. PICK confirmed \in BOOLEAN :
            CleanupRun(c, confirmed) /\ clean' = [clean EXCEPT ![c] = confirmed]
      BY <1>2 DEF Rescue
    <2>2. (clean'[c] <=> confirmed) /\ (confirmed => Boxes({c})' = {})
      BY <2>1, FlagTypes, SweepTypes
    <2>3. outcome'[c] = "failed" /\ h'[c] = "reply"
      BY <1>2 DEF Rescue, Goto, Ends
    <2>4. QED
      BY <2>2, <2>3 DEF Before
  <1>3. CASE Reply(c) \/ RemoveJobRoot(c)
    <2>1. /\ h[c] \in {"reply", "removing"} /\ h'[c] \in {"removing", "done"}
          /\ UNCHANGED <<boxes, outcome, clean>>
      BY <1>3 DEF Reply, RemoveJobRoot, Goto
    <2>2. QED
      BY <2>1 DEF Answered, Boxes, Before
  <1>4. CASE Arrive(c) \/ ReadBody(c) \/ Prepare(c) \/ InputRefused(c)
    <2>1. /\ h[c] \in {"idle"} \cup Before
          /\ UNCHANGED <<boxes, outcome, clean>>
      BY <1>4 DEF Arrive, ReadBody, Prepare, InputRefused, Goto, Before
    <2>2. outcome'[c] = "none" /\ ~ clean'[c]
      BY <2>1 DEF Answered
    <2>3. QED
      BY <2>2
  <1>5. CASE Register(c) \/ NextStep(c) \/ Create(c) \/ Wait(c) \/ Sweep(c) \/ Throws(c)
             \/ GhostAppears(c)
    <2>1. h'[c] \in {"head", "create", "collect", "wait", "sweep", "rescue", "ghost"}
      BY <1>5 DEF Register, NextStep, Create, Wait, Sweep, Throws, GhostAppears, Goto
    <2>2. QED
      BY <2>1 DEF Before
  <1>6. QED
    BY <1>1, <1>2, <1>3, <1>4, <1>5 DEF Handle

\* Answers stay true: nobody makes a container for a job that has answered.
LEMMA AnsweredNext == Types /\ Answered /\ [Next]_vars => Answered'
  <1> SUFFICES ASSUME Types, Answered, [Next]_vars PROVE Answered'
    OBVIOUS
  <1>1. ASSUME NEW c \in Calls, Handle(c) \/ Arrive(c) \/ GhostAppears(c)
        PROVE  Answered'
    <2>1. SUFFICES ASSUME NEW d \in Calls, d # c
                   PROVE  /\ h'[d] \in {"idle"} \cup Before => outcome'[d] = "none" /\ ~ clean'[d]
                          /\ h'[d] \in {"reply", "removing", "done"} =>
                               /\ clean'[d] => Boxes({d})' = {}
                               /\ outcome'[d] = "completed" => clean'[d]
      BY <1>1, OwnAnswer DEF Answered
    <2>2. h'[d] = h[d] /\ outcome'[d] = outcome[d] /\ (clean'[d] <=> clean[d])
      BY <1>1, <2>1, HandlerTurns, HandlerData
    <2>3. Boxes({d})' \subseteq Boxes({d})
      BY <1>1, <2>1, HandlerData DEF Boxes
    <2>4. QED
      BY <2>2, <2>3 DEF Answered
  <1>2. CASE \/ \E c \in Calls : Talk(c)
             \/ Listen \/ Recover \/ Close \/ Closed \/ Exit \/ UNCHANGED vars
    <2>1. UNCHANGED <<h, outcome, clean>> /\ boxes' \subseteq boxes
      BY <1>2, OthersStand
    <2>2. QED
      BY <2>1 DEF Answered, Boxes
  <1>3. CASE Crash
    <2>1. ASSUME NEW d \in Calls, h'[d] \in {"idle", "reply", "removing", "done"} \cup Before
          PROVE  h[d] = h'[d] /\ outcome'[d] = outcome[d] /\ (clean'[d] <=> clean[d])
      BY <1>3, <2>1, CrashStops DEF Idle, Before
    <2>2. boxes' = boxes
      BY <1>3, CrashStops
    <2>3. QED
      BY <2>1, <2>2 DEF Answered, Boxes
  <1>4. QED
    BY <1>1, <1>2, <1>3, Kinds

\* Once recovery has removed what a predecessor left, every container is its
\* job's, or was asked for by a server that died first.
LEMMA AccountedNext == Types /\ Accounted /\ [Next]_vars => Accounted'
  <1> SUFFICES ASSUME Types, Accounted, [Next]_vars PROVE Accounted'
    OBVIOUS
  <1>1. ASSUME NEW c \in Calls, Handle(c) \/ Arrive(c) \/ GhostAppears(c)
        PROVE  Accounted'
    <2>1. SUFFICES ASSUME server \notin {"down", "recovering"}, NEW b \in boxes'
                   PROVE  h'[b[1]] \in Registered \cup {"removing", "done", "ghost"}
      BY <1>1, HandlerTurns DEF Accounted
    <2>2. \/ b \in boxes
          \/ b[1] = c /\ h'[c] \in {"wait", "rescue", "sweep", "ghost"}
      BY <1>1, HandlerData
    <2>3. CASE b \in boxes
      <3>1. b[1] \in Calls /\ h[b[1]] \in Registered \cup {"removing", "done", "ghost"}
        BY <2>1, <2>3 DEF Types, Accounted
      <3>2. /\ b[1] # c => h'[b[1]] = h[b[1]]
            /\ Turn(c)
        BY <1>1, <3>1, HandlerTurns
      <3>3. QED
        BY <3>1, <3>2 DEF Turn, Registered, Before
    <2>4. QED
      BY <2>2, <2>3 DEF Registered
  <1>2. CASE \/ \E c \in Calls : Talk(c)
             \/ Listen \/ Recover \/ Close \/ Closed \/ Exit \/ UNCHANGED vars
    <2>1. h' = h /\ boxes' \subseteq boxes
      BY <1>2, OthersStand
    <2>2. \/ server' \in {"down", "recovering"}
          \/ server \notin {"down", "recovering"}
          \/ boxes' = {}
      BY <1>2 DEF Talk, Post, Receive, Abort, Delete, Listen, Recover, Close, Closed, Exit,
         vars, process, recoverStaleWorkers
    <2>3. QED
      BY <2>1, <2>2 DEF Accounted
  <1>3. CASE Crash
    BY <1>3, CrashStops DEF Accounted
  <1>4. QED
    BY <1>1, <1>2, <1>3, Kinds

-----------------------------------------------------------------------------
(* The input a job works on.                                               *)

\* A handler's step touches the input of its own run only, and that of its
\* own registered job never.
LEMMA HandlerInput ==
  ASSUME Types, NEW c \in Calls, Handle(c) \/ Arrive(c) \/ GhostAppears(c)
  PROVE  /\ \A r \in Runs \ {run[c]} : input'[r] = input[r]
         /\ h'[c] \in Registered => input'[run[c]] = input[run[c]] \/ input'[run[c]] = c
         /\ h[c] \notin Registered /\ h'[c] \in Registered => input'[run[c]] = c
  <1> USE DEF Types, clients, process, table, job
  <1>1. CASE Register(c)
    BY <1>1 DEF Register
  <1>2. CASE Prepare(c) \/ InputRefused(c) \/ RemoveJobRoot(c)
    <2>1. h'[c] \in {"done", "writing"}
      BY <1>2 DEF Prepare, InputRefused, RemoveJobRoot, Goto
    <2>2. \A r \in Runs \ {run[c]} : input'[r] = input[r]
      BY <1>2 DEF Prepare, InputRefused, RemoveJobRoot
    <2>3. QED
      BY <2>1, <2>2 DEF Registered
  <1>3. CASE Arrive(c) \/ GhostAppears(c) \/ ReadBody(c) \/ Reply(c)
    <2>1. h'[c] \in {"done", "reading", "loading", "ghost", "removing"} /\ input' = input
      BY <1>3 DEF Arrive, GhostAppears, ReadBody, Reply, Goto
    <2>2. QED
      BY <2>1 DEF Registered
  <1>4. CASE NextStep(c) \/ Create(c) \/ Wait(c) \/ Sweep(c) \/ Collect(c) \/ Throws(c) \/ Rescue(c)
    <2>1. h[c] \in Registered /\ input' = input
      BY <1>4 DEF NextStep, Create, Wait, Sweep, Collect, Throws, Rescue, Goto, Registered
    <2>2. QED
      BY <2>1
  <1>5. QED
    BY <1>1, <1>2, <1>3, <1>4 DEF Handle

\* A job whose run id is its own keeps its input, since only a server without
\* handlers clears the directories of all jobs.
LEMMA ScansNext == Types /\ Quiet /\ ScansOwnInput /\ [Next]_vars => ScansOwnInput'
  <1> SUFFICES ASSUME Types, Quiet, ScansOwnInput, [Next]_vars PROVE ScansOwnInput'
    OBVIOUS
  <1>1. ASSUME NEW c \in Calls, Handle(c) \/ Arrive(c) \/ GhostAppears(c)
        PROVE  ScansOwnInput'
    <2>1. SUFFICES ASSUME NEW d \in Calls, Sole(d)', h'[d] \in Registered
                   PROVE  input'[run'[d]] = d
      BY DEF ScansOwnInput
    <2>2. run' = run /\ run \in [Calls -> Runs] /\ (d # c => h'[d] = h[d])
      BY <1>1, HandlerTurns DEF Types
    <2>3. Sole(d)
      BY <2>1, <2>2 DEF Sole, SameRun
    <2>4. CASE d = c
      BY <1>1, <2>1, <2>2, <2>3, <2>4, HandlerInput DEF ScansOwnInput
    <2>5. CASE d # c
      <3>1. run[d] # run[c]
        BY <2>3, <2>5 DEF Sole, SameRun
      <3>2. input'[run[d]] = input[run[d]]
        BY <1>1, <2>2, <3>1, HandlerInput
      <3>3. QED
        BY <2>1, <2>2, <2>3, <2>5, <3>2 DEF ScansOwnInput
    <2>6. QED
      BY <2>4, <2>5
  <1>2. CASE \/ \E c \in Calls : Talk(c)
             \/ Listen \/ Recover \/ Close \/ Closed \/ Exit \/ UNCHANGED vars
    <2>1. run' = run /\ h' = h
      BY <1>2, OthersStand
    <2>2. CASE Recover
      <3>1. \A d \in Calls : h[d] \notin Registered
        BY <2>2 DEF Recover, Quiet, Idle, Dead, Registered
      <3>2. QED
        BY <2>1, <3>1 DEF ScansOwnInput
    <2>3. CASE input' = input
      BY <2>1, <2>3 DEF ScansOwnInput, Sole, SameRun
    <2>4. Recover \/ input' = input
      BY <1>2 DEF Talk, Post, Receive, Abort, Delete, Listen, Close, Closed, Exit, vars
    <2>5. QED
      BY <2>2, <2>3, <2>4
  <1>3. CASE Crash
    <2>1. \A d \in Calls : h'[d] \notin Registered
      BY <1>3, CrashStops DEF Idle, Dead, Registered
    <2>2. QED
      BY <2>1 DEF ScansOwnInput
  <1>4. QED
    BY <1>1, <1>2, <1>3, Kinds

-----------------------------------------------------------------------------
(* The order of a handler's awaits.                                        *)

PlaceOf(phase) == CHOOSE k \in DOMAIN Order : Order[k] = phase

\* Every phase has one place in the order.
LEMMA Places ==
  ASSUME NEW k \in 1 .. 16
  PROVE  PlaceOf(Order[k]) = k
  <1>1. DOMAIN Order = 1 .. 16
    BY DEF Order
  <1>2. \A i, j \in 1 .. 16 : Order[i] = Order[j] => i = j
    BY DEF Order
  <1>3. PlaceOf(Order[k]) \in 1 .. 16 /\ Order[PlaceOf(Order[k])] = Order[k]
    BY <1>1 DEF PlaceOf
  <1>4. QED
    BY <1>2, <1>3

\* The places, phase by phase.
LEMMA PlaceTable ==
  /\ PlaceOf("idle") = 1 /\ PlaceOf("reading") = 2 /\ PlaceOf("loading") = 3
  /\ PlaceOf("writing") = 4 /\ PlaceOf("head") = 5 /\ PlaceOf("create") = 6
  /\ PlaceOf("wait") = 7 /\ PlaceOf("sweep") = 8 /\ PlaceOf("collect") = 9
  /\ PlaceOf("rescue") = 10 /\ PlaceOf("reply") = 11 /\ PlaceOf("removing") = 12
  /\ PlaceOf("done") = 13 /\ PlaceOf("dying") = 14 /\ PlaceOf("ghost") = 15
  /\ PlaceOf("dead") = 16
  <1>1. /\ PlaceOf(Order[1]) = 1 /\ PlaceOf(Order[2]) = 2 /\ PlaceOf(Order[3]) = 3
        /\ PlaceOf(Order[4]) = 4 /\ PlaceOf(Order[5]) = 5 /\ PlaceOf(Order[6]) = 6
        /\ PlaceOf(Order[7]) = 7 /\ PlaceOf(Order[8]) = 8 /\ PlaceOf(Order[9]) = 9
        /\ PlaceOf(Order[10]) = 10 /\ PlaceOf(Order[11]) = 11 /\ PlaceOf(Order[12]) = 12
        /\ PlaceOf(Order[13]) = 13 /\ PlaceOf(Order[14]) = 14 /\ PlaceOf(Order[15]) = 15
        /\ PlaceOf(Order[16]) = 16
    BY Places
  <1>2. /\ Order[1] = "idle" /\ Order[2] = "reading" /\ Order[3] = "loading"
        /\ Order[4] = "writing" /\ Order[5] = "head" /\ Order[6] = "create"
        /\ Order[7] = "wait" /\ Order[8] = "sweep" /\ Order[9] = "collect"
        /\ Order[10] = "rescue" /\ Order[11] = "reply" /\ Order[12] = "removing"
        /\ Order[13] = "done" /\ Order[14] = "dying" /\ Order[15] = "ghost"
        /\ Order[16] = "dead"
    BY DEF Order
  <1>3. QED
    BY <1>1, <1>2

\* A handler's step leads to a later step of the profile or a later place.
LEMMA HandlerAdvances ==
  ASSUME Types, NEW c \in Calls, Handle(c) \/ Arrive(c) \/ GhostAppears(c)
  PROVE  \/ step'[c] > step[c]
         \/ step'[c] = step[c] /\ PlaceOf(h'[c]) > PlaceOf(h[c])
  <1> USE DEF Types, job
  <1>1. CASE Arrive(c) \/ ReadBody(c) \/ Prepare(c)
    BY <1>1, PlaceTable DEF Arrive, ReadBody, Prepare, Goto
  <1>2. CASE Register(c) \/ InputRefused(c)
    BY <1>2, PlaceTable DEF Register, InputRefused, Goto
  <1>3. CASE NextStep(c)
    BY <1>3, PlaceTable DEF NextStep, Goto
  <1>4. CASE Create(c)
    <2>1. h[c] = "create" /\ h'[c] \in {"wait", "sweep", "collect", "rescue"} /\ step' = step
      BY <1>4 DEF Create, Goto
    <2>2. QED
      BY <2>1, PlaceTable
  <1>5. CASE Wait(c)
    <2>1. \/ step' = [step EXCEPT ![c] = @ + 1]
          \/ step' = step /\ h[c] = "wait" /\ h'[c] = "sweep"
      BY <1>5 DEF Wait, Goto
    <2>2. step[c] \in Nat
      OBVIOUS
    <2>3. QED
      BY <2>1, <2>2, PlaceTable
  <1>6. CASE Throws(c)
    <2>1. /\ h[c] \in {"wait", "sweep", "collect", "head"} /\ h'[c] = "rescue"
          /\ step' = step
      BY <1>6 DEF Throws
    <2>2. QED
      BY <2>1, PlaceTable
  <1>7. CASE Sweep(c) \/ Collect(c) \/ Rescue(c)
    BY <1>7, PlaceTable DEF Sweep, Collect, Rescue, Goto
  <1>8. CASE Reply(c) \/ RemoveJobRoot(c) \/ GhostAppears(c)
    BY <1>8, PlaceTable DEF Reply, RemoveJobRoot, GhostAppears, Goto
  <1>9. QED
    BY <1>1, <1>2, <1>3, <1>4, <1>5, <1>6, <1>7, <1>8 DEF Handle

\* No step leads a handler back.
LEMMA AllAdvance ==
  ASSUME Types, [Next]_vars
  PROVE  \A c \in Calls :
           h'[c] # h[c] => \/ step'[c] > step[c]
                           \/ step'[c] = step[c] /\ PlaceOf(h'[c]) > PlaceOf(h[c])
  <1>1. ASSUME NEW c \in Calls, Handle(c) \/ Arrive(c) \/ GhostAppears(c)
        PROVE  \A d \in Calls :
                 h'[d] # h[d] => \/ step'[d] > step[d]
                                 \/ step'[d] = step[d] /\ PlaceOf(h'[d]) > PlaceOf(h[d])
    <2>1. \A d \in Calls : d # c => h'[d] = h[d]
      BY <1>1, HandlerTurns
    <2>2. QED
      BY <1>1, <2>1, HandlerAdvances
  <1>2. CASE \/ \E c \in Calls : Talk(c)
             \/ Listen \/ Recover \/ Close \/ Closed \/ Exit \/ UNCHANGED vars
    BY <1>2, OthersStand
  <1>3. CASE Crash
    <2>1. SUFFICES ASSUME NEW c \in Calls, h'[c] # h[c]
                   PROVE  step'[c] = step[c] /\ PlaceOf(h'[c]) > PlaceOf(h[c])
      OBVIOUS
    <2>2. /\ h[c] \in Before \cup Registered \cup {"removing"} /\ step' = step
          /\ h'[c] = "dead" \/ (h'[c] = "dying" /\ h[c] = "create")
      BY <1>3, <2>1, CrashStops DEF Types, Phase, Idle, Dead
    <2>3. QED
      BY <2>2, PlaceTable DEF Before, Registered
  <1>4. QED
    BY <1>1, <1>2, <1>3, Kinds

-----------------------------------------------------------------------------
(* The theorems.                                                           *)

\* The invariant that the theorems share.
LEMMA ServerInvariant == Spec => []ServerInv
  <1>1. ServerInv /\ [Next]_vars => ServerInv'
    BY TypesNext, AtStepNext, QuietNext, SlotsNext, AnsweredNext, AccountedNext, ScansNext
    DEF ServerInv
  <1>2. QED
    BY <1>1, InitServer, PTL DEF Spec

\* The server is well typed in every reachable state: its count of slots is
\* a natural number, and no container is asked for beyond the profile's steps.
THEOREM ServerTypeCorrect == Spec => []TypeOK
  <1>1. ServerInv => TypeOK
    BY SlotsBounded DEF ServerInv, Types, TypeOK
  <1>2. QED
    BY <1>1, ServerInvariant, PTL

\* active is always the number of registered jobs: every path of the handler,
\* and a restart, returns the slot it took exactly once.
THEOREM SlotsAreCounted == Spec => []SlotsCounted
  <1>1. ServerInv => SlotsCounted
    BY DEF ServerInv
  <1>2. QED
    BY <1>1, ServerInvariant, PTL

\* A job whose run id no other call uses works on the input it was posted
\* with, whatever is admitted, refused, removed or recovered meanwhile.
THEOREM JobsScanOwnInput == Spec => []ScansOwnInput
  <1>1. ServerInv => ScansOwnInput
    BY DEF ServerInv
  <1>2. QED
    BY <1>1, ServerInvariant, PTL

\* A job that answers "completed" has left no container behind.
THEOREM CompletedMeansClean == Spec => []CompletedIsClean
  <1>1. ServerInv => CompletedIsClean
    BY DEF ServerInv, Answered, CompletedIsClean
  <1>2. QED
    BY <1>1, ServerInvariant, PTL

\* In a server that is up every container is accounted for by a running job,
\* an answer that admits it, or the death of the server that asked for it.
THEOREM WorkersAccounted == Spec => []NoStrayWorkers
  <1>1. ASSUME ServerInv, server = "up", NEW b \in boxes
        PROVE  \/ h[b[1]] \in Registered
               \/ h[b[1]] \in {"removing", "done"} /\ ~ clean[b[1]]
               \/ h[b[1]] = "ghost"
    <2>1. b[1] \in Calls /\ h[b[1]] \in Registered \cup {"removing", "done", "ghost"}
      BY <1>1 DEF ServerInv, Types, Accounted
    <2>2. b \in Boxes({b[1]})
      BY DEF Boxes
    <2>3. h[b[1]] \in {"removing", "done"} => ~ clean[b[1]]
      BY <1>1, <2>1, <2>2 DEF ServerInv, Answered
    <2>4. QED
      BY <2>1, <2>3
  <1>2. ServerInv => NoStrayWorkers
    BY <1>1 DEF NoStrayWorkers
  <1>3. QED
    BY <1>2, ServerInvariant, PTL

\* No handler ever comes back to where it has been: every step it takes is for
\* a later step of the profile or further on towards its answer.
THEOREM HandlersOnlyAdvance == Spec => HandlersAdvance
  <1>1. ServerInv /\ [Next]_vars =>
          [\A c \in Calls :
             h'[c] # h[c] => \/ step'[c] > step[c]
                             \/ step'[c] = step[c] /\ Place(c)' > Place(c)]_vars
    BY AllAdvance DEF ServerInv, Place, PlaceOf
  <1>2. QED
    BY <1>1, ServerInvariant, PTL DEF Spec, HandlersAdvance

-----------------------------------------------------------------------------
(* RunnerLease: the invariant.                                             *)

\* What "one at a time" comes to: one runner at most is in acquire.
Alone == \A p, q \in Runners : pc[p] \in Acquiring /\ pc[q] \in Acquiring => p = q

\* A heartbeat in flight is not older than Lag, and a holder's last finished
\* one is not either.
Timely ==
  /\ \A p \in Runners : done[p] <= clock
  /\ \A p \in Runners : beat[p] # "none" => at[p] <= clock /\ clock <= at[p] + Lag
  /\ \A p \in Holding : clock <= done[p] + Lag

\* The record a holder relies on: a late heartbeat of another runner may have
\* set it back, by at most Lag.
Recorded ==
  \A p \in Holding : /\ rec # NoRecord
                     /\ done[p] <= rec.at + Lag
                     /\ beat[p] = "rename" => p \in temps

\* A runner that is about to move the directory away, or that has just made
\* one, is alone with it.
Unheld ==
  /\ \A p \in Runners : pc[p] \in {"steal", "first"} => Holding = {}
  /\ \A p \in Runners : pc[p] = "first" => beat[p] # "none"

OneHolder == \A p, q \in Holding : p = q

\* Mutual exclusion is not inductive by itself: what keeps a contender out
\* is the record, and what keeps the record fresh is timing.
InTurn == Alone /\ Timely /\ Recorded /\ Unheld /\ OneHolder
LeaseInv == LeaseTypeOK /\ (~ raced => InTurn)

-----------------------------------------------------------------------------

\* The typing invariant is inductive.
LEMMA TypeNext == LeaseTypeOK /\ [LeaseNext]_leaseVars => LeaseTypeOK'
  <1> SUFFICES ASSUME LeaseTypeOK, [LeaseNext]_leaseVars PROVE LeaseTypeOK'
    OBVIOUS
  <1> USE DEF LeaseTypeOK, Control, Acquiring, Ended, dir, beats
  <1>1. ASSUME NEW p \in Runners, Start(p) PROVE LeaseTypeOK'
    BY <1>1, LeaseAssumption DEF Start, Proceeds
  <1>2. ASSUME NEW p \in Runners, MakeDir(p) PROVE LeaseTypeOK'
    BY <1>2 DEF MakeDir, Proceeds, EmptyDir
  <1>3. ASSUME NEW p \in Runners, DirExists(p) \/ ReadRecord(p) PROVE LeaseTypeOK'
    BY <1>3 DEF DirExists, ReadRecord, Proceeds
  <1>4. ASSUME NEW p \in Runners, Steal(p) PROVE LeaseTypeOK'
    <2>1. tries' \in [Runners -> 0 .. Attempts]
      <3>1. tries[p] \in 0 .. Attempts /\ Attempts \in Nat
        BY LeaseAssumption
      <3>2. tries[p] # Attempts => tries[p] + 1 \in 0 .. Attempts
        BY <3>1
      <3>3. QED
        BY <1>4, <3>1, <3>2 DEF Steal
    <2>2. pc' \in [Runners -> Control]
      BY <1>4 DEF Steal, Proceeds
    <2>3. QED
      BY <1>4, <2>1, <2>2 DEF Steal, NoDir
  <1>5. ASSUME NEW p \in Runners, Fire(p) PROVE LeaseTypeOK'
    BY <1>5 DEF Fire
  <1>6. ASSUME NEW p \in Runners, WriteTemp(p) PROVE LeaseTypeOK'
    BY <1>6 DEF WriteTemp
  <1>7. ASSUME NEW p \in Runners, RenameTemp(p) PROVE LeaseTypeOK'
    BY <1>7 DEF RenameTemp, Finish
  <1>8. ASSUME NEW p \in Runners, BeatFails(p) PROVE LeaseTypeOK'
    BY <1>8 DEF BeatFails, Finish
  <1>9. ASSUME NEW p \in Runners, Release(p) \/ Unlink(p) \/ RemoveDir(p) PROVE LeaseTypeOK'
    BY <1>9 DEF Release, Unlink, RemoveDir, Proceeds
  <1>10. ASSUME NEW p \in Runners, Die(p) PROVE LeaseTypeOK'
    BY <1>10 DEF Die
  <1>11. Tick \/ UNCHANGED leaseVars => LeaseTypeOK'
    BY DEF Tick, leaseVars
  <1>12. QED
    BY <1>1, <1>2, <1>3, <1>4, <1>5, <1>6, <1>7, <1>8, <1>9, <1>10, <1>11
    DEF LeaseNext, Acquire, Heartbeat, GiveUp

\* The initial states are well typed.
LEMMA InitTyped == LeaseInit => LeaseTypeOK
  <1> SUFFICES ASSUME LeaseInit PROVE LeaseTypeOK
    OBVIOUS
  <1>1. made \in BOOLEAN /\ raced \in BOOLEAN
    BY Zenon DEF LeaseInit
  <1>2. 0 .. Attempts # {} /\ 0 \in 0 .. Attempts
    BY LeaseAssumption
  <1>3. QED
    BY <1>1, <1>2 DEF LeaseInit, LeaseTypeOK, Control, Acquiring, Ended

\* The lease is well typed in every reachable state: acquire's loop never
\* exceeds its iterations, and nothing is in a directory that is not there.
THEOREM LeaseTypeCorrect == LeaseSpec => []LeaseTypeOK
  <1>1. QED
    BY InitTyped, TypeNext, PTL DEF LeaseSpec

-----------------------------------------------------------------------------

\* While somebody holds the lease, a contender that looks finds it fresh.
LEMMA HeldIsFresh ==
  ASSUME 2 * Lag < StaleAfter, LeaseTypeOK, InTurn
  PROVE  Holding # {} => Fresh
  BY LeaseAssumption
  DEF LeaseTypeOK, InTurn, Timely, Recorded, Fresh, Holding

\* The lease starts without holders.
LEMMA InitLease == LeaseInit => LeaseInv
  <1>1. LeaseInit => InTurn
    BY LeaseAssumption
    DEF LeaseInit, InTurn, Alone, Timely, Recorded, Unheld, OneHolder, Holding, Acquiring
  <1>2. QED
    BY <1>1, InitTyped DEF LeaseInv

\* That two runners were once in acquire together is not forgotten.
LEMMA RacedIsKept == [LeaseNext]_leaseVars /\ raced => raced'
  BY DEF LeaseNext, leaseVars, dir, beats, Start, Acquire, MakeDir, DirExists, ReadRecord, Steal, Fire,
         Heartbeat, WriteTemp, RenameTemp, BeatFails, Finish, Release, GiveUp, Unlink,
         RemoveDir, Die, Tick

\* As long as runners start one at a time, every step preserves the rest.
LEMMA InTurnNext ==
  ASSUME 2 * Lag < StaleAfter, LeaseInv, [LeaseNext]_leaseVars, ~ raced'
  PROVE  InTurn'
  <1>0. LeaseTypeOK /\ LeaseTypeOK' /\ InTurn /\ (Holding # {} => Fresh)
    BY TypeNext, HeldIsFresh, RacedIsKept DEF LeaseInv
  <1>1. ASSUME NEW p \in Runners, Start(p) PROVE InTurn'
    <2> USE <1>1 DEF Start
    <2>1. /\ ~ \E q \in Runners : pc[q] \in Acquiring
          /\ \A q \in Runners : pc'[q] \in Acquiring => q = p
      BY <1>0 DEF LeaseTypeOK, Proceeds, Acquiring
    <2>2. Holding' = Holding
      BY <1>0 DEF LeaseTypeOK, Proceeds, Holding
    <2>3. \A q \in Runners : pc'[q] \notin {"steal", "first"}
      BY <1>0, <2>1 DEF LeaseTypeOK, Proceeds, Acquiring
    <2>4. UNCHANGED <<rec, temps, clock, beat, at, done>>
      BY DEF dir, beats
    <2>5. Alone' /\ OneHolder'
      BY <1>0, <2>1, <2>2 DEF InTurn, Alone, OneHolder
    <2>6. Timely' /\ Recorded'
      BY <1>0, <2>2, <2>4 DEF InTurn, Timely, Recorded
    <2>7. Unheld'
      BY <2>3 DEF Unheld
    <2>8. QED
      BY <2>5, <2>6, <2>7 DEF InTurn
  <1> USE LeaseAssumption
      DEF InTurn, LeaseTypeOK, Alone, Timely, Recorded, Unheld, OneHolder, Holding,
          Acquiring, dir, beats
  <1>2. ASSUME NEW p \in Runners, MakeDir(p) PROVE InTurn'
    BY <1>0, <1>2 DEF MakeDir, Proceeds, EmptyDir
  <1>3. ASSUME NEW p \in Runners, DirExists(p) PROVE InTurn'
    BY <1>0, <1>3 DEF DirExists, Proceeds
  <1>4. ASSUME NEW p \in Runners, ReadRecord(p) PROVE InTurn'
    BY <1>0, <1>4 DEF ReadRecord, Proceeds
  <1>5. ASSUME NEW p \in Runners, Steal(p) PROVE InTurn'
    BY <1>0, <1>5 DEF Steal, Proceeds, NoDir
  <1>6. ASSUME NEW p \in Runners, Fire(p) PROVE InTurn'
    BY <1>0, <1>6 DEF Fire
  <1>7. ASSUME NEW p \in Runners, WriteTemp(p) PROVE InTurn'
    BY <1>0, <1>7 DEF WriteTemp
  <1>8. ASSUME NEW p \in Runners, RenameTemp(p) PROVE InTurn'
    BY <1>0, <1>8 DEF RenameTemp, Finish
  <1>9. ASSUME NEW p \in Runners, BeatFails(p) PROVE InTurn'
    BY <1>0, <1>9 DEF BeatFails, Finish
  <1>10. ASSUME NEW p \in Runners, Release(p) PROVE InTurn'
    BY <1>0, <1>10 DEF Release, Proceeds
  <1>11. ASSUME NEW p \in Runners, Unlink(p) PROVE InTurn'
    BY <1>0, <1>11 DEF Unlink, Proceeds
  <1>12. ASSUME NEW p \in Runners, RemoveDir(p) PROVE InTurn'
    BY <1>0, <1>12 DEF RemoveDir, Proceeds
  <1>13. ASSUME NEW p \in Runners, Die(p) PROVE InTurn'
    BY <1>0, <1>13 DEF Die, Ended
  <1>14. CASE Tick
    BY <1>0, <1>14 DEF Tick
  <1>15. CASE UNCHANGED leaseVars
    BY <1>0, <1>15 DEF leaseVars
  <1>16. QED
    BY <1>1, <1>2, <1>3, <1>4, <1>5, <1>6, <1>7, <1>8, <1>9, <1>10, <1>11, <1>12,
       <1>13, <1>14, <1>15 DEF LeaseNext, Acquire, Heartbeat, GiveUp

\* The strengthened invariant holds for good.
LEMMA LeaseInvariant ==
  ASSUME 2 * Lag < StaleAfter
  PROVE  LeaseSpec => []LeaseInv
  <1>1. LeaseInv /\ [LeaseNext]_leaseVars => LeaseInv'
    BY TypeNext, InTurnNext DEF LeaseInv
  <1>2. QED
    BY <1>1, InitLease, PTL DEF LeaseSpec

\* Runners that are started one at a time, and whose heartbeats are prompt,
\* never own the installation together.
THEOREM OneOwner ==
  ASSUME 2 * Lag < StaleAfter
  PROVE  LeaseSpec => []OneOwnerInTurn
  <1>1. LeaseInv => OneOwnerInTurn
    BY DEF LeaseInv, InTurn, OneHolder, Holding, OneOwnerInTurn, MutualExclusion
  <1>2. QED
    BY <1>1, LeaseInvariant, PTL

\* Under the same conditions nothing removes or outdates the record of the
\* runner that holds the lease, so every contender is turned away.
THEOREM RecordStaysFresh ==
  ASSUME 2 * Lag < StaleAfter
  PROVE  LeaseSpec => []LeaseHeld
  <1>1. LeaseInv => LeaseHeld
    BY HeldIsFresh DEF LeaseInv, LeaseHeld
  <1>2. QED
    BY <1>1, LeaseInvariant, PTL

-----------------------------------------------------------------------------
(* Somebody wins.  The loop of acquire is long enough if it has more       *)
(* iterations than there are runners: every directory a contender runs     *)
(* into was there at first, or was made by a runner that left the contest. *)

Contending == {"mkdir", "read", "steal"}
Decided(p) == {q \in Runners \ {p} : pc[q] \notin Contending \cup {"off"}}

LoopBound ==
  \A p \in Runners :
    /\ pc[p] \in {"read", "steal"} => tries[p] <= 1 + Cardinality(Decided(p))
    /\ pc[p] = "mkdir" => /\ tries[p] <= 2 + Cardinality(Decided(p))
                          /\ made => tries[p] <= 1 + Cardinality(Decided(p))

\* Nobody has died or given the lease up.
NobodyLeft == \A p \in Runners : pc[p] \notin {"unlink", "rmdir", "released", "dead"}

\* A runner that owns, can still come to own, or contends.
Hopeful(p) ==
  \/ pc[p] \in Contending \cup {"own"}
  \/ pc[p] = "first" /\ beat[p] # "none" /\ made /\ (beat[p] = "rename" => p \in temps)

\* A record is an owner's, and where somebody has started somebody may win.
Contested ==
  /\ \A p \in Runners : beat[p] # "none" => pc[p] \in {"first", "own"}
  /\ rec # NoRecord => pc[rec.owner] = "own"
  /\ (\E p \in Runners : pc[p] # "off") => \E p \in Runners : Hopeful(p)

ContestInv == LeaseTypeOK /\ LoopBound /\ (NobodyLeft => Contested)

\* The runners that have left the contest only become more, and a finite
\* number of them is at most all the others.
LEMMA DecidedSize ==
  ASSUME IsFiniteSet(Runners), NEW p \in Runners
  PROVE  /\ Cardinality(Decided(p)) \in Nat
         /\ Cardinality(Decided(p)) + 1 <= Cardinality(Runners)
  <1>1. IsFiniteSet(Runners \ {p}) /\ Cardinality(Runners \ {p}) = Cardinality(Runners) - 1
    BY FS_RemoveElement
  <1>2. Decided(p) \subseteq Runners \ {p}
    BY DEF Decided
  <1>3. /\ Cardinality(Decided(p)) <= Cardinality(Runners \ {p})
        /\ Cardinality(Decided(p)) \in Nat /\ Cardinality(Runners \ {p}) \in Nat
    BY <1>1, <1>2, FS_Subset, FS_CardinalityType
  <1>4. Cardinality(Runners) \in Nat
    BY FS_CardinalityType
  <1>5. QED
    BY <1>1, <1>3, <1>4

\* More runners that have decided, counted.
LEMMA DecidedGrows ==
  ASSUME IsFiniteSet(Runners), NEW p \in Runners, Decided(p) \subseteq Decided(p)'
  PROVE  /\ Cardinality(Decided(p)) \in Nat /\ Cardinality(Decided(p)') \in Nat
         /\ Cardinality(Decided(p)) <= Cardinality(Decided(p)')
  <1>1. IsFiniteSet(Decided(p)')
    BY FS_Subset DEF Decided
  <1>2. QED
    BY <1>1, FS_Subset, FS_CardinalityType

\* One more runner that has decided, counted.
LEMMA DecidedGains ==
  ASSUME IsFiniteSet(Runners), NEW p \in Runners, NEW q \in Runners,
         Decided(p) \subseteq Decided(p)', q \in Decided(p)', q \notin Decided(p)
  PROVE  /\ Cardinality(Decided(p)) \in Nat /\ Cardinality(Decided(p)') \in Nat
         /\ Cardinality(Decided(p)) + 1 <= Cardinality(Decided(p)')
  <1>1. IsFiniteSet(Decided(p)') /\ IsFiniteSet(Decided(p))
    BY FS_Subset DEF Decided
  <1>2. /\ IsFiniteSet(Decided(p) \cup {q})
        /\ Cardinality(Decided(p) \cup {q}) = Cardinality(Decided(p)) + 1
    BY <1>1, FS_AddElement
  <1>3. Cardinality(Decided(p) \cup {q}) <= Cardinality(Decided(p)')
    BY <1>1, FS_Subset
  <1>4. QED
    BY <1>1, <1>2, <1>3, FS_CardinalityType

\* A runner that does not contend any more never does again, and who leaves
\* the contest stays counted.
LEMMA DecidedStay ==
  ASSUME LeaseTypeOK, [LeaseNext]_leaseVars, NEW p \in Runners
  PROVE  Decided(p) \subseteq Decided(p)'
  <1> USE DEF LeaseTypeOK, Decided, Contending
  <1>1. SUFFICES ASSUME NEW q \in Runners, pc[q] \notin Contending \cup {"off"}
                 PROVE  pc'[q] \notin Contending \cup {"off"}
    OBVIOUS
  <1>2. ASSUME NEW r \in Runners, Start(r) \/ Acquire(r)
        PROVE  pc'[q] = pc[q]
    BY <1>1, <1>2 DEF Start, Acquire, MakeDir, DirExists, ReadRecord, Steal, Proceeds
  <1>3. ASSUME NEW r \in Runners, Heartbeat(r)
        PROVE  pc'[q] \in {pc[q], "own", "lost"}
    BY <1>3 DEF Heartbeat, WriteTemp, RenameTemp, BeatFails, Finish
  <1>4. ASSUME NEW r \in Runners, Fire(r) \/ Release(r) \/ GiveUp(r) \/ Die(r)
        PROVE  pc'[q] \in {pc[q], "unlink", "released", "rmdir", "dead"}
    BY <1>4 DEF Fire, Release, GiveUp, Unlink, RemoveDir, Die, Proceeds
  <1>5. CASE Tick \/ UNCHANGED leaseVars
    BY <1>1, <1>5 DEF Tick, leaseVars
  <1>6. QED
    BY <1>1, <1>2, <1>3, <1>4, <1>5 DEF LeaseNext

\* What a step may do to a contender's place and its count of iterations, if
\* it makes no directory.
Onward(p) ==
  \/ pc'[p] \notin Contending
  \/ pc'[p] = pc[p] /\ tries'[p] = tries[p]
  \/ pc'[p] = "mkdir" /\ tries'[p] = 1
  \/ pc'[p] = "read" /\ pc[p] = "mkdir" /\ made /\ tries'[p] = tries[p]
  \/ pc'[p] = "steal" /\ pc[p] = "read" /\ tries'[p] = tries[p]
  \/ pc'[p] = "mkdir" /\ pc[p] = "steal" /\ ~ made' /\ tries'[p] = tries[p] + 1

\* There are no other steps.
LEMMA ContestSteps ==
  ASSUME LeaseTypeOK, [LeaseNext]_leaseVars
  PROVE  \/ \E q \in Runners : MakeDir(q)
         \/ (made' => made) /\ \A p \in Runners : Onward(p)
  <1> USE DEF LeaseTypeOK, Contending, Onward
  <1>1. ASSUME NEW q \in Runners, Start(q) \/ DirExists(q) \/ ReadRecord(q)
        PROVE  (made' => made) /\ \A p \in Runners : Onward(p)
    BY <1>1 DEF Start, DirExists, ReadRecord, Proceeds, dir
  <1>2. ASSUME NEW q \in Runners, Steal(q)
        PROVE  (made' => made) /\ \A p \in Runners : Onward(p)
    <2>1. ~ made'
      BY <1>2 DEF Steal, NoDir
    <2>2. \A p \in Runners : p # q => pc'[p] = pc[p] /\ tries'[p] = tries[p]
      BY <1>2 DEF Steal, Proceeds
    <2>3. \/ pc'[q] = "lost"
          \/ pc'[q] = "mkdir" /\ pc[q] = "steal" /\ tries'[q] = tries[q] + 1
      BY <1>2 DEF Steal, Proceeds
    <2>4. QED
      BY <2>1, <2>2, <2>3
  <1>3. ASSUME NEW q \in Runners, Fire(q) \/ Heartbeat(q)
        PROVE  (made' => made) /\ \A p \in Runners : Onward(p)
    BY <1>3 DEF Fire, Heartbeat, WriteTemp, RenameTemp, BeatFails, Finish, dir
  <1>4. ASSUME NEW q \in Runners, Release(q) \/ GiveUp(q) \/ Die(q)
        PROVE  (made' => made) /\ \A p \in Runners : Onward(p)
    BY <1>4 DEF Release, GiveUp, Unlink, RemoveDir, Die, Proceeds, dir
  <1>5. CASE Tick \/ UNCHANGED leaseVars
    BY <1>5 DEF Tick, leaseVars, dir
  <1>6. QED
    BY <1>1, <1>2, <1>3, <1>4, <1>5 DEF LeaseNext, Acquire

\* Each iteration of a contender is paid for by a directory that was there at
\* first or by a runner that made one and left the contest with it.
LEMMA LoopNext ==
  ASSUME IsFiniteSet(Runners), LeaseTypeOK, LoopBound, [LeaseNext]_leaseVars
  PROVE  LoopBound'
  <1> SUFFICES ASSUME NEW p \in Runners
               PROVE  /\ pc'[p] \in {"read", "steal"} => tries'[p] <= 1 + Cardinality(Decided(p)')
                      /\ pc'[p] = "mkdir" =>
                           /\ tries'[p] <= 2 + Cardinality(Decided(p)')
                           /\ made' => tries'[p] <= 1 + Cardinality(Decided(p)')
    BY DEF LoopBound
  <1>0. /\ Cardinality(Decided(p)) \in Nat /\ Cardinality(Decided(p)') \in Nat
        /\ Cardinality(Decided(p)) <= Cardinality(Decided(p)')
        /\ tries[p] \in Nat
    BY DecidedStay, DecidedGrows, LeaseAssumption DEF LeaseTypeOK
  <1>1. ASSUME NEW q \in Runners, MakeDir(q)
        PROVE  /\ pc'[p] \in {"read", "steal"} => tries'[p] <= 1 + Cardinality(Decided(p)')
               /\ pc'[p] = "mkdir" =>
                    /\ tries'[p] <= 2 + Cardinality(Decided(p)')
                    /\ made' => tries'[p] <= 1 + Cardinality(Decided(p)')
    <2>1. CASE p = q
      BY <1>1, <2>1 DEF MakeDir, Proceeds, LeaseTypeOK
    <2>2. CASE p # q
      <3>1. pc'[p] = pc[p] /\ tries'[p] = tries[p] /\ pc[q] = "mkdir" /\ pc'[q] = "first"
        BY <1>1, <2>2 DEF MakeDir, Proceeds, LeaseTypeOK
      <3>2. q \in Decided(p)' /\ q \notin Decided(p)
        BY <2>2, <3>1 DEF Decided, Contending
      <3>3. Cardinality(Decided(p)) + 1 <= Cardinality(Decided(p)')
        BY <3>2, DecidedStay, DecidedGains
      <3>4. QED
        BY <1>0, <3>1, <3>3 DEF LoopBound
    <2>3. QED
      BY <2>1, <2>2
  <1>2. CASE (made' => made) /\ Onward(p)
    BY <1>0, <1>2 DEF LoopBound, Contending, Onward
  <1>3. (\E q \in Runners : MakeDir(q)) \/ ((made' => made) /\ Onward(p))
    BY ContestSteps
  <1>4. QED
    BY <1>1, <1>2, <1>3

\* A contender never runs out of iterations.
LEMMA NeverExhausted ==
  ASSUME IsFiniteSet(Runners), Cardinality(Runners) < Attempts, LeaseTypeOK, LoopBound,
         NEW p \in Runners, pc[p] = "steal"
  PROVE  tries[p] # Attempts
  <1>1. /\ Cardinality(Decided(p)) \in Nat
        /\ Cardinality(Decided(p)) + 1 <= Cardinality(Runners)
        /\ Cardinality(Runners) \in Nat /\ tries[p] \in Nat /\ Attempts \in Nat
    BY DecidedSize, FS_CardinalityType, LeaseAssumption DEF LeaseTypeOK
  <1>2. tries[p] <= 1 + Cardinality(Decided(p))
    BY DEF LoopBound
  <1>3. QED
    BY <1>1, <1>2

\* Who has left stays away.
LEMMA LeftStays == LeaseTypeOK /\ [LeaseNext]_leaseVars /\ NobodyLeft' => NobodyLeft
  <1> SUFFICES ASSUME LeaseTypeOK, [LeaseNext]_leaseVars, NEW q \in Runners,
                      pc[q] \in {"unlink", "rmdir", "released", "dead"}
               PROVE  pc'[q] \in {"unlink", "rmdir", "released", "dead"}
    BY DEF NobodyLeft
  <1> USE DEF LeaseTypeOK
  <1>1. ASSUME NEW r \in Runners, Start(r) \/ Acquire(r)
        PROVE  pc'[q] = pc[q]
    BY <1>1 DEF Start, Acquire, MakeDir, DirExists, ReadRecord, Steal, Proceeds
  <1>2. ASSUME NEW r \in Runners, Fire(r) \/ Heartbeat(r)
        PROVE  pc'[q] = pc[q]
    BY <1>2 DEF Fire, Heartbeat, WriteTemp, RenameTemp, BeatFails, Finish
  <1>3. ASSUME NEW r \in Runners, Release(r) \/ GiveUp(r) \/ Die(r)
        PROVE  pc'[q] \in {pc[q], "rmdir", "released", "dead"}
    BY <1>3 DEF Release, GiveUp, Unlink, RemoveDir, Die, Proceeds
  <1>4. CASE Tick \/ UNCHANGED leaseVars
    BY <1>4 DEF Tick, leaseVars
  <1>5. QED
    BY <1>1, <1>2, <1>3, <1>4 DEF LeaseNext

\* While nobody leaves, heartbeats and the record belong to owners, and to
\* those who are about to be.
LEMMA RecordsNext ==
  ASSUME LeaseTypeOK, Contested, [LeaseNext]_leaseVars, NobodyLeft'
  PROVE  /\ \A p \in Runners : beat'[p] # "none" => pc'[p] \in {"first", "own"}
         /\ rec' # NoRecord => pc'[rec'.owner] = "own"
  <1>0. NobodyLeft
    BY LeftStays
  <1> USE DEF LeaseTypeOK, Contested
  <1> DEFINE Beats == \A p \in Runners : beat'[p] # "none" => pc'[p] \in {"first", "own"}
             Owned == rec' # NoRecord => pc'[rec'.owner] = "own"
  <1>1. ASSUME NEW q \in Runners, Start(q) \/ DirExists(q) \/ ReadRecord(q)
        PROVE  Beats /\ Owned
    <2>1. /\ pc[q] \in {"off", "mkdir", "read"} /\ UNCHANGED <<beat, rec>>
          /\ \A p \in Runners : p # q => pc'[p] = pc[p]
      BY <1>1 DEF Start, DirExists, ReadRecord, Proceeds, dir, beats
    <2>2. Beats
      BY <2>1
    <2>3. Owned
      BY <2>1
    <2>4. QED
      BY <2>2, <2>3
  <1>2. ASSUME NEW q \in Runners, MakeDir(q) \/ Steal(q)
        PROVE  Beats /\ Owned
    <2>1. rec' = NoRecord
      BY <1>2 DEF MakeDir, Steal, EmptyDir, NoDir
    <2>2. Beats
      BY <1>2 DEF MakeDir, Steal, Proceeds, beats
    <2>3. QED
      BY <2>1, <2>2
  <1>3. ASSUME NEW q \in Runners, Fire(q) \/ WriteTemp(q)
        PROVE  Beats /\ Owned
    BY <1>3 DEF Fire, WriteTemp, dir
  <1>4. ASSUME NEW q \in Runners, RenameTemp(q)
        PROVE  Beats /\ Owned
    <2>1. pc'[q] = "own" /\ rec'.owner = q /\ beat'[q] = "none"
      BY <1>4 DEF RenameTemp, Finish
    <2>2. \A p \in Runners : p # q => pc'[p] = pc[p] /\ beat'[p] = beat[p]
      BY <1>4 DEF RenameTemp, Finish
    <2>3. QED
      BY <2>1, <2>2
  <1>5. ASSUME NEW q \in Runners, BeatFails(q)
        PROVE  Beats /\ Owned
    <2>1. rec' = rec /\ beat'[q] = "none" /\ (pc[q] = "own" => pc'[q] = "own")
      BY <1>5 DEF BeatFails, Finish, dir
    <2>2. \A p \in Runners : p # q => pc'[p] = pc[p] /\ beat'[p] = beat[p]
      BY <1>5 DEF BeatFails, Finish
    <2>3. QED
      BY <2>1, <2>2
  <1>6. ASSUME NEW q \in Runners, Release(q) \/ GiveUp(q) \/ Die(q)
        PROVE  FALSE
    BY <1>0, <1>6 DEF Release, GiveUp, Unlink, RemoveDir, Die, Proceeds, NobodyLeft
  <1>7. CASE Tick \/ UNCHANGED leaseVars
    BY <1>7 DEF Tick, leaseVars, dir, beats
  <1>8. QED
    BY <1>1, <1>2, <1>3, <1>4, <1>5, <1>6, <1>7 DEF LeaseNext, Acquire, Heartbeat

\* The contest stays open: who loses hope has met somebody who has it.
LEMMA HopeNext ==
  ASSUME IsFiniteSet(Runners), Cardinality(Runners) < Attempts,
         LeaseTypeOK, LoopBound, Contested, [LeaseNext]_leaseVars, NobodyLeft',
         NEW s \in Runners, pc'[s] # "off"
  PROVE  \E p \in Runners : Hopeful(p)'
  <1>0. NobodyLeft
    BY LeftStays
  <1> USE DEF LeaseTypeOK, Hopeful, Contending
  <1>1. ASSUME NEW q \in Runners, Start(q) \/ MakeDir(q) \/ DirExists(q)
        PROVE  Hopeful(q)'
    BY <1>1 DEF Start, MakeDir, DirExists, EmptyDir, Proceeds
  <1>2. ASSUME NEW q \in Runners, ReadRecord(q)
        PROVE  \E p \in Runners : Hopeful(p)'
    <2>1. CASE Fresh
      <3>1. rec # NoRecord /\ rec.owner \in Runners /\ pc[rec.owner] = "own"
        BY <2>1 DEF Fresh, Contested
      <3>2. pc'[rec.owner] = "own"
        BY <1>2, <3>1 DEF ReadRecord, Proceeds
      <3>3. QED
        BY <3>1, <3>2
    <2>2. CASE ~ Fresh
      BY <1>2, <2>2 DEF ReadRecord, Proceeds
    <2>3. QED
      BY <2>1, <2>2
  <1>3. ASSUME NEW q \in Runners, Steal(q)
        PROVE  Hopeful(q)'
    <2>1. tries[q] # Attempts
      BY <1>3, NeverExhausted DEF Steal, Proceeds
    <2>2. QED
      BY <1>3, <2>1 DEF Steal, Proceeds
  <1>4. ASSUME NEW q \in Runners, Fire(q) \/ Heartbeat(q), NEW p \in Runners, Hopeful(p)
        PROVE  Hopeful(p)'
    <2>1. CASE Fire(q)
      BY <1>4, <2>1 DEF Fire, dir
    <2>2. CASE WriteTemp(q)
      BY <1>4, <2>2 DEF WriteTemp
    <2>3. CASE RenameTemp(q)
      BY <1>4, <2>3 DEF RenameTemp, Finish
    <2>4. CASE BeatFails(q)
      BY <1>4, <2>4 DEF BeatFails, Finish, dir
    <2>5. QED
      BY <1>4, <2>1, <2>2, <2>3, <2>4 DEF Heartbeat
  <1>5. ASSUME NEW q \in Runners, Release(q) \/ GiveUp(q) \/ Die(q)
        PROVE  FALSE
    BY <1>0, <1>5 DEF Release, GiveUp, Unlink, RemoveDir, Die, Proceeds, NobodyLeft
  <1>6. ASSUME Tick \/ UNCHANGED leaseVars, NEW p \in Runners, Hopeful(p)
        PROVE  Hopeful(p)'
    BY <1>6 DEF Tick, leaseVars, dir, beats
  <1>7. (\E q \in Runners : Fire(q) \/ Heartbeat(q)) \/ Tick \/ UNCHANGED leaseVars
          => pc[s] # "off"
    BY DEF Fire, Heartbeat, WriteTemp, RenameTemp, BeatFails, Finish, Tick, leaseVars
  <1>8. pc[s] # "off" => \E p \in Runners : Hopeful(p)
    BY DEF Contested
  <1>9. QED
    BY <1>1, <1>2, <1>3, <1>4, <1>5, <1>6, <1>7, <1>8 DEF LeaseNext, Acquire

\* Nobody has started yet.
LEMMA InitContest == LeaseInit => ContestInv
  <1>1. LeaseInit => LoopBound
    BY DEF LeaseInit, LoopBound
  <1>2. LeaseInit => Contested
    BY DEF LeaseInit, Contested
  <1>3. QED
    BY <1>1, <1>2, InitTyped DEF ContestInv

\* Runners that start together do not all fail, if there are fewer of them
\* than acquire has iterations: while none has died or released, one owns the
\* lease once all that started have been answered.
THEOREM NotAllLose ==
  ASSUME IsFiniteSet(Runners), Cardinality(Runners) < Attempts
  PROVE  LeaseSpec => []SomeoneWins
  <1>1. ContestInv /\ [LeaseNext]_leaseVars => ContestInv'
    <2> SUFFICES ASSUME ContestInv, [LeaseNext]_leaseVars PROVE ContestInv'
      OBVIOUS
    <2>1. LeaseTypeOK /\ LeaseTypeOK' /\ LoopBound
      BY TypeNext DEF ContestInv
    <2>2. LoopBound'
      BY <2>1, LoopNext
    <2>3. ASSUME NobodyLeft' PROVE Contested'
      <3>1. Contested
        BY <2>1, <2>3, LeftStays DEF ContestInv
      <3>2. (\E p \in Runners : pc'[p] # "off") => \E p \in Runners : Hopeful(p)'
        BY <2>1, <2>3, <3>1, HopeNext
      <3>3. QED
        BY <2>1, <2>3, <3>1, <3>2, RecordsNext DEF Contested
    <2>4. QED
      BY <2>1, <2>2, <2>3 DEF ContestInv
  <1>2. ContestInv => SomeoneWins
    <2> SUFFICES ASSUME ContestInv, NEW s \in Runners, pc[s] # "off",
                        \A p \in Runners : pc[p] # "off" => pc[p] \in {"own", "refused", "lost"}
                 PROVE  \E p \in Runners : pc[p] = "own"
      BY DEF SomeoneWins
    <2>1. NobodyLeft
      BY DEF NobodyLeft
    <2>2. PICK p \in Runners : Hopeful(p)
      BY <2>1 DEF ContestInv, Contested
    <2>3. pc[p] = "own"
      BY <2>2 DEF Hopeful, Contending
    <2>4. QED
      BY <2>3
  <1>3. QED
    BY <1>1, <1>2, InitContest, PTL DEF LeaseSpec
=============================================================================
