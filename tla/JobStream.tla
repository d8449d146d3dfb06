------------------------------ MODULE JobStream ------------------------------
(***************************************************************************)
(* The log of one job: the worker writes lines, the adapter brings them    *)
(* over a connection that breaks, one stream task appends them to a        *)
(* durable file with a resume point beside it, and followers replay the    *)
(* file and then take the live chunks.  The observer starts, restarts and  *)
(* stops the stream; the process may die between any two writes.           *)
(*                                                                         *)
(* The unit is a byte, named <<attempt, position>>: position 0 stands for  *)
(* the header of an attempt, -1 for a newline the worker did not write.    *)
(* The last line of an attempt is its exit sentinel.  What the stream task *)
(* does between two awaits is one step; a crash may cut it at each of its  *)
(* writes.  A cancelled connection writes nothing more, so a restart drops *)
(* it, and the resume point of a connection is the saved one.              *)
(***************************************************************************)
EXTENDS Integers, Sequences

CONSTANTS
    Followers,
    Attempts,    \* bound: placements of the job
    Lines,       \* lines a worker writes, the exit sentinel included
    Width,       \* bytes of a line, its newline included
    ReadChunk,   \* _READ_CHUNK of a replay
    QueueSize,   \* follow_queue
    MaxCuts,     \* bound: connections broken inside a line
    MaxCrashes   \* bound: deaths of the process

ASSUME SizeAssumption ==
    /\ {Attempts, Lines, Width, ReadChunk} \subseteq Nat \ {0}
    /\ QueueSize \in Nat /\ QueueSize >= 2
    /\ {MaxCuts, MaxCrashes} \subseteq Nat

VARIABLES
    \* The worker.
    attempt,   \* placements so far (activate events)
    phase,     \* the job: running, waiting for a placement, or finished
    written,   \* lines the worker of this attempt has written
    worker,    \* is it alive
    \* On disk.
    file,      \* the durable log
    side,      \* its resume point: attempt, offset in the stream, file position
    \* The process.
    stream,    \* the stream state: its task, the exit it saw, its write position
    fol,       \* the followers
    cuts, crashes

disk == <<file, side>>
placement == <<attempt, phase, written, worker>>
vars == <<placement, disk, stream, fol, cuts, crashes>>

-----------------------------------------------------------------------------
Units == (1..Attempts) \X (-1..(Lines * Width))
NoSide == [att |-> 0, offset |-> 0, pos |-> 0]
NoStream == [task |-> "none", att |-> 0, exited |-> FALSE, pos |-> 0]
Header == <<attempt, 0>>

\* An exited stream counts as active: nothing must reconnect to it.
Active == stream.task # "none"

\* A queue item: the data of a chunk, the marker of a drop, or the end.
Data(chunk) == [kind |-> "data", bytes |-> chunk]
Dropped == [kind |-> "dropped", bytes |-> <<>>]
End == [kind |-> "end", bytes |-> <<>>]

\* base: the file position the follower subscribed at; got: what its reader
\* has received; squeezed: an item was discarded to make room for the end.
Idle(got) == [at |-> "idle", from |-> 0, pos |-> 0, base |-> 0, got |-> got,
              queue |-> <<>>, squeezed |-> FALSE]
Subscribed == {f \in Followers : fol[f].at \in {"replay", "live"}}

Init ==
    /\ attempt = 1 /\ phase = "running" /\ written = 0 /\ worker = "alive"
    /\ file = <<>> /\ side = NoSide
    /\ stream = NoStream
    /\ fol = [f \in Followers |-> Idle(<<>>)]
    /\ cuts = 0 /\ crashes = 0

-----------------------------------------------------------------------------
(* The worker, and the job's placements.                                   *)

WriteLine ==
    /\ phase = "running" /\ worker = "alive" /\ written < Lines
    /\ written' = written + 1
    /\ UNCHANGED <<attempt, phase, worker, disk, stream, fol, cuts, crashes>>

WorkerDies ==
    /\ worker = "alive" /\ written < Lines /\ attempt < Attempts
    /\ worker' = "dead"
    /\ UNCHANGED <<attempt, phase, written, disk, stream, fol, cuts, crashes>>

\* A requeued job is placed again only by a pass, and a round of the loop
\* observes before its pass: by then the old stream was stopped.
Activate ==
    /\ phase = "waiting" /\ stream = NoStream
    /\ attempt' = attempt + 1
    /\ phase' = "running" /\ worker' = "alive" /\ written' = 0
    /\ UNCHANGED <<disk, stream, fol, cuts, crashes>>

-----------------------------------------------------------------------------
(* Fan-out.                                                                *)

\* A follower whose queue is full is dropped: drained, told, and ended.
Offered(f, chunk) ==
    IF Len(fol[f].queue) < QueueSize
    THEN [fol[f] EXCEPT !.queue = Append(@, Data(chunk))]
    ELSE [fol[f] EXCEPT !.queue = <<Dropped, End>>, !.at = "dropped"]
Published(chunk) ==
    [f \in Followers |-> IF f \in Subscribed THEN Offered(f, chunk) ELSE fol[f]]

\* The end makes room for itself by discarding the oldest item.
Ended(f) ==
    IF Len(fol[f].queue) < QueueSize
    THEN [fol[f] EXCEPT !.queue = Append(@, End), !.at = "ending"]
    ELSE [fol[f] EXCEPT !.queue = Append(Tail(@), End), !.at = "ending",
                        !.squeezed = TRUE]
\* Replay goes on below the boundary; the end waits in the queue.
EndFollowers ==
    fol' = [f \in Followers |->
              CASE fol[f].at = "live" -> Ended(f)
                [] fol[f].at = "replay" -> [Ended(f) EXCEPT !.at = "lastreplay"]
                [] OTHER -> fol[f]]

-----------------------------------------------------------------------------
(* The stream task.                                                        *)

\* The first step of a connection: the header of a new attempt below the
\* prior segments, or the truncation to the saved position.
Resumes == side.att = attempt
Headed == Append(file, Header)
Truncated == SubSeq(file, 1, side.pos)
Connect ==
    /\ stream.task = "spawned"
    /\ IF Resumes
       THEN /\ file' = Truncated
            /\ stream' = [stream EXCEPT !.task = "reading", !.pos = side.pos]
            /\ UNCHANGED <<side, fol>>
       ELSE /\ file' = Headed
            /\ side' = [att |-> attempt, offset |-> 0, pos |-> Len(Headed)]
            /\ stream' = [stream EXCEPT !.task = "reading", !.pos = Len(Headed)]
            /\ fol' = Published(<<Header>>)
    /\ UNCHANGED <<placement, cuts, crashes>>

\* The rest of the line at the offset: the adapter skips what was consumed
\* of the log it reads from the start, and yields a line with its newline.
LineEnd(offset) == ((offset \div Width) + 1) * Width
Rest(offset, upto) == [i \in 1..(upto - offset) |-> <<attempt, offset + i>>]
Chunk == Rest(side.offset, LineEnd(side.offset))
Available == side.offset < written * Width

\* A sentinel is parsed only whole.
IsExit(chunk) ==
    chunk = [i \in 1..Width |-> <<attempt, (Lines - 1) * Width + i>>]

\* Append, flush, save, publish, parse: no await in between.  The exit
\* finishes a running job, whichever attempt it is at.
Appended(chunk) == file \o chunk
BugSaved(chunk) == [side EXCEPT !.offset = @ + 1, !.pos = Len(Appended(chunk))]
Saved(chunk) == [side EXCEPT !.offset = @ + Len(chunk), !.pos = Len(Appended(chunk))]
Ingest(chunk) ==
    /\ file' = Appended(chunk)
    /\ side' = Saved(chunk)
    /\ stream' = [stream EXCEPT !.pos = side'.pos,
                                !.exited = @ \/ IsExit(chunk)]
    /\ fol' = Published(chunk)
    /\ phase' = IF IsExit(chunk) /\ phase = "running" THEN "finished" ELSE phase

Receive ==
    /\ stream.task = "reading" /\ Available
    /\ Ingest(Chunk)
    /\ UNCHANGED <<attempt, written, worker, cuts, crashes>>

\* A connection that breaks inside a line still yields what it had of it,
\* as a line: the adapter adds the newline.
CutChunk(n) == Append(Rest(side.offset, side.offset + n), <<attempt, -1>>)
ReceiveCut ==
    /\ cuts < MaxCuts
    /\ stream.task = "reading" /\ Available
    /\ \E n \in 1..(LineEnd(side.offset) - side.offset - 1) : Ingest(CutChunk(n))
    /\ cuts' = cuts + 1
    /\ UNCHANGED <<attempt, written, worker, crashes>>

\* The end of the log or an error; the task sleeps and connects again,
\* unless the exit was seen.
Disconnect ==
    /\ stream.task = "reading"
    /\ stream' = [stream EXCEPT !.task = IF stream.exited THEN "done" ELSE "backoff"]
    /\ UNCHANGED <<placement, disk, fol, cuts, crashes>>
Reconnect ==
    /\ stream.task = "backoff"
    /\ stream' = [stream EXCEPT !.task = "spawned"]
    /\ UNCHANGED <<placement, disk, fol, cuts, crashes>>

-----------------------------------------------------------------------------
(* The observer.                                                           *)

Start ==
    /\ phase = "running" /\ ~Active
    /\ stream' = [NoStream EXCEPT !.task = "spawned", !.att = attempt]
    /\ UNCHANGED <<placement, disk, fol, cuts, crashes>>

\* The first rung of the silence ladder cancels the connection.
Restart ==
    /\ phase = "running" /\ stream.task \in {"reading", "backoff"} /\ ~stream.exited
    /\ stream' = [stream EXCEPT !.task = "spawned"]
    /\ UNCHANGED <<placement, disk, fol, cuts, crashes>>

Stopped == stream' = NoStream /\ EndFollowers

\* A job that is not running is forgotten.
Forget ==
    /\ phase # "running" /\ Active
    /\ Stopped
    /\ UNCHANGED <<placement, disk, cuts, crashes>>

\* The second rung polls: a durable result settles the job, a worker that
\* is gone requeues it; either way its stream is forgotten with it.
BugPollResult ==
    /\ phase = "running" /\ written = Lines /\ ~Active
    /\ phase' = "finished"
    /\ Stopped
    /\ UNCHANGED <<attempt, written, worker, disk, cuts, crashes>>
PollResult ==
    /\ phase = "running" /\ written = Lines
    /\ phase' = "finished"
    /\ Stopped
    /\ UNCHANGED <<attempt, written, worker, disk, cuts, crashes>>
PollGone ==
    /\ phase = "running" /\ worker = "dead"
    /\ phase' = "waiting"
    /\ Stopped
    /\ UNCHANGED <<attempt, written, worker, disk, cuts, crashes>>

-----------------------------------------------------------------------------
(* Followers.  A reader that comes back sends the position after the last  *)
(* byte it received.                                                       *)

\* Subscription and boundary are taken together; without a stream the file
\* is all there is.
Follow(f) ==
    /\ fol[f].at = "idle"
    /\ fol' = [fol EXCEPT ![f] =
                 [Idle(fol[f].got) EXCEPT !.from = Len(fol[f].got), !.pos = Len(fol[f].got),
                                          !.at = IF Active THEN "replay" ELSE "file",
                                          !.base = stream.pos]]
    /\ UNCHANGED <<placement, disk, stream, cuts, crashes>>

Least(a, b) == IF a < b THEN a ELSE b
ReadAt(pos, limit) == SubSeq(file, pos + 1, Least(pos + limit, Len(file)))

Limit(f) == IF fol[f].at = "file" THEN Len(file) ELSE Least(fol[f].base, Len(file))

BugReplay(f) ==
    LET chunk == ReadAt(fol[f].pos, ReadChunk)
    IN  fol' = [fol EXCEPT ![f].pos = @ + Len(chunk), ![f].got = @ \o chunk]
Replay(f) ==
    LET chunk == ReadAt(fol[f].pos, Least(ReadChunk, Limit(f) - fol[f].pos))
    IN  fol' = [fol EXCEPT ![f].pos = @ + Len(chunk), ![f].got = @ \o chunk]

ReplayChunk(f) ==
    /\ fol[f].at \in {"replay", "lastreplay", "file"}
    /\ fol[f].pos < Limit(f)
    /\ Replay(f)
    /\ UNCHANGED <<placement, disk, stream, cuts, crashes>>
ReplayDone(f) ==
    /\ fol[f].at \in {"replay", "lastreplay", "file"}
    /\ fol[f].pos >= Limit(f)
    /\ fol' = [fol EXCEPT ![f].at = CASE @ = "replay" -> "live"
                                      [] @ = "lastreplay" -> "ending"
                                      [] @ = "file" -> "over"]
    /\ UNCHANGED <<placement, disk, stream, cuts, crashes>>

Take(f) ==
    /\ fol[f].at \in {"live", "ending", "dropped"}
    /\ fol[f].queue # <<>>
    /\ LET item == Head(fol[f].queue)
       IN fol' = [fol EXCEPT ![f].queue = Tail(@),
                             ![f].got = @ \o item.bytes,
                             ![f].at = IF item.kind = "end" THEN "over" ELSE @]
    /\ UNCHANGED <<placement, disk, stream, cuts, crashes>>

\* A reader goes away at any moment, and may come back.
Leave(f) ==
    /\ fol[f].at \notin {"idle", "over"}
    /\ fol' = [fol EXCEPT ![f] = Idle(fol[f].got)]
    /\ UNCHANGED <<placement, disk, stream, cuts, crashes>>

-----------------------------------------------------------------------------
(* Crashes: between two steps, or between two writes of one step.          *)

Die ==
    /\ crashes < MaxCrashes
    /\ crashes' = crashes + 1
    /\ stream' = NoStream
    /\ fol' = [f \in Followers |->
                 IF fol[f].at = "over" THEN fol[f] ELSE Idle(fol[f].got)]
    /\ UNCHANGED <<attempt, written, worker, cuts>>

Crash == Die /\ UNCHANGED <<disk, phase>>
CrashHeader ==
    /\ stream.task = "spawned" /\ ~Resumes
    /\ Die
    /\ file' = Headed
    /\ UNCHANGED <<side, phase>>
CrashUnsaved ==
    /\ stream.task = "reading" /\ Available
    /\ Die
    /\ file' = Appended(Chunk)
    /\ UNCHANGED <<side, phase>>
CrashUnparsed ==
    /\ stream.task = "reading" /\ Available
    /\ Die
    /\ file' = Appended(Chunk) /\ side' = Saved(Chunk)
    /\ UNCHANGED phase

-----------------------------------------------------------------------------
StreamStep == Connect \/ Receive \/ ReceiveCut \/ Disconnect \/ Reconnect
Observe == Start \/ Restart \/ Forget \/ PollResult \/ PollGone
FollowStep(f) == ReplayChunk(f) \/ ReplayDone(f) \/ Take(f)

Next ==
    \/ WriteLine \/ WorkerDies \/ Activate
    \/ StreamStep \/ Observe
    \/ \E f \in Followers : Follow(f) \/ FollowStep(f) \/ Leave(f)
    \/ Crash \/ CrashHeader \/ CrashUnsaved \/ CrashUnparsed

\* The resident loop repeats its round: a stream that is missing is started,
\* a silent job is polled, one that ended is forgotten.  The task runs on
\* and a queue is read on.  Nothing is assumed of workers, of placements, of
\* connections or of readers coming and going.
Fairness ==
    /\ WF_vars(Start) /\ WF_vars(Forget)
    /\ WF_vars(PollResult) /\ WF_vars(PollGone)
    /\ WF_vars(Connect) /\ WF_vars(Reconnect)
    /\ \A f \in Followers : WF_vars(FollowStep(f))

Spec == Init /\ [][Next]_vars
FairSpec == Spec /\ Fairness

-----------------------------------------------------------------------------
(* Properties.                                                             *)

Settled == SubSeq(file, 1, side.pos)
Before(u, v) == u[1] < v[1] \/ (u[1] = v[1] /\ u[2] < v[2])

\* Types: every unit of the file is one of some attempt, the resume point
\* lies within the file, a queue never holds more than its size.
TypeOK ==
    /\ attempt \in 1..Attempts /\ phase \in {"running", "waiting", "finished"}
    /\ written \in 0..Lines /\ worker \in {"alive", "dead"}
    /\ \A i \in DOMAIN file : file[i] \in Units
    /\ side.att \in 0..attempt /\ side.offset \in 0..(Lines * Width)
    /\ side.pos \in 0..Len(file)
    /\ stream.task \in {"none", "spawned", "reading", "backoff", "done"}
    /\ \A f \in Followers : Len(fol[f].queue) <= QueueSize

\* The durable file never duplicates and never reorders: what it holds below
\* the resume point is in the order the workers wrote it, each byte once,
\* through reconnects, crashes between its two writes, and new attempts.
NeverDuplicates ==
    \A i, j \in DOMAIN Settled :
        i < j /\ Settled[i][2] > 0 /\ Settled[j][2] > 0 => Before(Settled[i], Settled[j])

\* No gap: unless a connection broke inside a line, an attempt's part of the
\* file is a prefix of what its worker wrote.
NoGap ==
    cuts = 0 =>
      \A i \in DOMAIN Settled :
        Settled[i][2] > 1 => i > 1 /\ Settled[i - 1] = <<Settled[i][1], Settled[i][2] - 1>>

\* The resume point counts what the file holds of this attempt: its header
\* lies that far back, and only headers of it lie before that one.
ResumeHonest ==
    side.att # 0 =>
        LET first == side.pos - side.offset
        IN  /\ first > 0 /\ file[first] = <<side.att, 0>>
            /\ \A i \in first + 1 .. side.pos : file[i][1] = side.att /\ file[i][2] # 0
            /\ \A i \in 1 .. first - 1 : file[i][1] < side.att \/ file[i][2] = 0

\* The bytes are those of the file from a position on.
Holds(bytes, from) ==
    \A i \in DOMAIN bytes : from + i \in DOMAIN file /\ file[from + i] = bytes[i]

\* A reader that subscribed to a connected stream, within the file, holds
\* the file from where it began, without gap or overlap, until it is dropped.
FollowExact ==
    \A f \in Followers :
      /\ fol[f].at \in {"replay", "live", "lastreplay", "ending"}
      /\ ~fol[f].squeezed /\ fol[f].base > 0 /\ fol[f].from <= fol[f].base
      => LET held == SubSeq(fol[f].got, fol[f].from + 1, Len(fol[f].got))
         IN  Holds(held, fol[f].from)

\* A connected stream publishes from where the file ends: what is at or above
\* a follower's boundary reaches it through the queue and nothing else does.
WritePosition == stream.task \in {"reading", "done"} => stream.pos = Len(file)

\* The durable log as a whole: through cut lines, broken connections and crashes
\* between its two writes it is what the workers wrote, and what the process believes
\* of it is so.
LogExact == TypeOK /\ NeverDuplicates /\ NoGap /\ ResumeHonest /\ WritePosition

\* A job whose worker finished is finished in the end, though the sentinel
\* may be lost to a crash between the save and the parse, or to a cut line.
ExitSeen == (phase = "running" /\ written = Lines) ~> (phase # "running")

\* Whoever follows a finished job is told its end, or left before it.
FollowersEnd ==
    \A f \in Followers :
      (phase = "finished" /\ fol[f].at = "live") ~> fol[f].at \in {"over", "idle"}

\* Both ends: a finished worker is noticed, and whoever follows it is told.
StreamEnds == ExitSeen /\ FollowersEnd
=============================================================================
