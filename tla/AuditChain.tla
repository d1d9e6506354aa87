----------------------------- MODULE AuditChain -----------------------------
(***************************************************************************)
(* The enterprise audit log (src/src/enterprise/audit.ts): a file of       *)
(* events, each naming the hash of the one before it.  Every scan, every   *)
(* delivery and every change made in the web console appends to the same   *)
(* file: an appender reads all of it, takes the last hash, and only then,  *)
(* after further awaits, writes its own line.  Nothing holds a lock in     *)
(* between, a write may be cut short, and the file may be edited: anything *)
(* in it may be changed, hashes recomputed, lines taken out and put in.    *)
(***************************************************************************)
EXTENDS Naturals, Sequences, SequencesExt

CONSTANTS
  Writers,    \* processes and request handlers that append events
  MaxEvents,  \* bound: contents ever written into the log
  MaxEdits    \* bound: lines changed, taken out or put in from outside

ASSUME AuditAssumption == MaxEvents \in Nat /\ MaxEdits \in Nat

VARIABLES
  contents,   \* what was ever written as an event; the n-th has hash n
  log,        \* the lines of the file that are events
  tail,       \* "torn": the file ends in half a line; "closed": lines follow it
  pc,         \* control state of each writer
  prev,       \* previousHash a writer has taken from the file
  seen,       \* history: how many lines it had read then
  edits,      \* edits so far
  moved       \* history: a line was taken out or put in

mind == <<pc, prev, seen>>
vars == <<contents, log, tail, mind, edits, moved>>

Genesis == 0

\* The hash of a content covers its previousHash.  own: an appender wrote it,
\* and signed it where a key is configured, having seen that many lines.
Content == [prev : Nat, seen : Nat, own : BOOLEAN]

Made == Len(contents)

\* base is the hash of what the line says, hash the hash it carries.
Line == [base : 1 .. Made, hash : 1 .. Made]

TypeOK ==
  /\ contents \in Seq(Content) /\ Made <= MaxEvents
  /\ log \in Seq(Line)
  /\ tail \in {"whole", "torn", "closed"}
  /\ pc \in [Writers -> {"idle", "write"}]
  /\ prev \in [Writers -> 0 .. Made] /\ seen \in [Writers -> Nat]
  /\ edits \in 0 .. MaxEdits /\ moved \in BOOLEAN

Init ==
  /\ contents = <<>> /\ log = <<>> /\ tail = "whole"
  /\ pc = [p \in Writers |-> "idle"]
  /\ prev = [p \in Writers |-> Genesis] /\ seen = [p \in Writers |-> 0]
  /\ edits = 0 /\ moved = FALSE

\* An append ends, whatever became of it; what it knew is gone.
Return(p) ==
  /\ pc[p] = "write" /\ pc' = [pc EXCEPT ![p] = "idle"]
  /\ prev' = [prev EXCEPT ![p] = Genesis] /\ seen' = [seen EXCEPT ![p] = 0]

\* existing.at(-1)?.hash ?? 'GENESIS'
LastHash == IF log = <<>> THEN Genesis ELSE log[Len(log)].hash

\* Mutant of Read: the last line's own previousHash is taken.
ReadPrevious(p) ==
  /\ tail = "whole"
  /\ pc[p] = "idle" /\ pc' = [pc EXCEPT ![p] = "write"]
  /\ prev' = [prev EXCEPT ![p] = IF log = <<>> THEN Genesis
                                 ELSE contents[log[Len(log)].base].prev]
  /\ seen' = [seen EXCEPT ![p] = Len(log)]
  /\ UNCHANGED <<contents, log, tail, edits, moved>>

\* readAuditEvents at the start of an append; a line that does not parse
\* makes the append throw, which changes nothing.
Read(p) ==
  /\ tail = "whole"
  /\ pc[p] = "idle" /\ pc' = [pc EXCEPT ![p] = "write"]
  /\ prev' = [prev EXCEPT ![p] = LastHash]
  /\ seen' = [seen EXCEPT ![p] = Len(log)]
  /\ UNCHANGED <<contents, log, tail, edits, moved>>

\* A new content, and a line that says it and carries its hash.
Compose(previous, lines, mine) ==
  /\ Made < MaxEvents
  /\ contents' = Append(contents, [prev |-> previous, seen |-> lines, own |-> mine])
Fresh == [base |-> Made + 1, hash |-> Made + 1]

\* Mutant of Write: the file is rewritten from what was read of it.
WriteSnapshot(p) ==
  /\ tail = "whole" /\ seen[p] <= Len(log)
  /\ Return(p)
  /\ Compose(prev[p], seen[p], TRUE)
  /\ log' = Append(SubSeq(log, 1, seen[p]), Fresh)
  /\ UNCHANGED <<tail, edits, moved>>

\* Mutant of Write: the event is linked to its own hash.
WriteSelfLinked(p) ==
  /\ tail = "whole"
  /\ Return(p)
  /\ Compose(Made + 1, seen[p], TRUE)
  /\ log' = Append(log, Fresh)
  /\ UNCHANGED <<tail, edits, moved>>

\* The event is hashed, signed and appended.  Behind half a line it ends up
\* in that line, and ends it.
Write(p) ==
  /\ Return(p)
  /\ Compose(prev[p], seen[p], TRUE)
  /\ \/ tail = "torn" /\ tail' = "closed" /\ UNCHANGED log
     \/ tail # "torn" /\ log' = Append(log, Fresh) /\ UNCHANGED tail
  /\ UNCHANGED <<edits, moved>>

\* The process dies, or the key cannot be read, before anything is written.
GiveUp(p) ==
  /\ Return(p)
  /\ UNCHANGED <<contents, log, tail, edits, moved>>

\* The disk is full or the process dies in the middle of the write.
WriteTorn(p) ==
  /\ Return(p)
  /\ tail' = "torn"
  /\ UNCHANGED <<contents, log, edits, moved>>

\* Somebody changes what a line says, its previousHash too, and perhaps its
\* hash to match.  A hash is known once something has it.
Forge(i) ==
  /\ \E p \in 0 .. Made : Compose(p, 0, FALSE)
  /\ log' = [log EXCEPT ![i].base = Made + 1] \/ log' = [log EXCEPT ![i] = Fresh]
  /\ UNCHANGED moved

\* Somebody takes a line out, or puts one in: a copy of another line, or an
\* earlier content with its hash.
Rearrange(i) ==
  /\ \/ i \in DOMAIN log /\ log' = RemoveAt(log, i)
     \/ \E line \in ToSet(log) \cup {[base |-> n, hash |-> n] : n \in 1 .. Made} :
          log' = InsertAt(log, i, line)
  /\ moved' = TRUE
  /\ UNCHANGED contents

\* An edit may also remove the damaged lines.
Edit ==
  /\ edits < MaxEdits /\ edits' = edits + 1
  /\ \/ \E i \in DOMAIN log : Forge(i)
     \/ \E i \in 1 .. Len(log) + 1 : Rearrange(i)
  /\ tail' \in {tail, "whole"}
  /\ UNCHANGED mind

Next ==
  \/ \E p \in Writers : Read(p) \/ Write(p) \/ GiveUp(p) \/ WriteTorn(p)
  \/ Edit

Spec == Init /\ [][Next]_vars

-----------------------------------------------------------------------------
(* verifyAuditChain                                                        *)

\* previousHash as verification carries it along.
Expected(i) == IF i = 1 THEN Genesis ELSE log[i - 1].hash

\* Mutant of Sound: only the links are looked at.
SoundLinksOnly(i) == contents[log[i].base].prev = Expected(i)

\* Mutant of Sound: only the hashes are looked at.
SoundHashesOnly(i) == log[i].hash = log[i].base

Sound(i) ==
  /\ contents[log[i].base].prev = Expected(i)
  /\ log[i].hash = log[i].base

Verified == tail = "whole" /\ \A i \in DOMAIN log : Sound(i)

-----------------------------------------------------------------------------
(* Properties.                                                             *)

\* The author of every event had read all the events before it, none more
\* and none less.  What somebody forged has no author; with a key it has no
\* signature either, and verification rejects it for that.
Serial ==
  \A i \in DOMAIN log :
    LET event == contents[log[i].base] IN event.own => event.seen = i - 1

\* A log that passes is the serial history, as long as no lines were taken
\* out or put in: appends that overlapped show, whatever was rewritten.  Only
\* rewriting and linking anew one of two events that overlapped hides them,
\* and that event is then not its author's any more.
VerifiedIsSerial == Verified /\ ~ moved => Serial

\* And a serial history that nobody edited and nothing cut short passes:
\* appends that take turns raise no false alarm, whatever failed in between.
SerialVerifies == Serial /\ edits = 0 /\ tail = "whole" => Verified

\* In a log that passes, every event was written after all those before it.
\* So an event that was rewritten, or put in the place of another, shows for
\* as long as one behind it is older, however links and hashes were computed
\* anew.  It is all that is true of "rewriting a prior event invalidates
\* subsequent chain verification" (src/README.md:304): who writes everything
\* behind the event anew as well is not noticed.
RewritingShows ==
  Verified => \A i \in DOMAIN log : \A j \in 1 .. i - 1 : log[j].base < log[i].base

\* Even when appends overlap, every event continues one that is in the log
\* before it: histories fork, but nothing continues a line that is not there.
ContinuesEarlier ==
  edits = 0 => \A i \in DOMAIN log :
    LET p == contents[log[i].base].prev IN
    p = Genesis \/ \E j \in 1 .. i - 1 : log[j].hash = p

\* An event whose append returned is in the log, until a line is damaged.
KeptEventsStay ==
  edits = 0 /\ tail = "whole" => \A n \in 1 .. Made : \E i \in DOMAIN log : log[i].hash = n
=============================================================================
