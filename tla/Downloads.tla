----------------------------- MODULE Downloads -----------------------------
(***************************************************************************)
(* The download of one model: the manager's job, the tasks it has spawned, *)
(* the .part, .failed and model.gguf files, and the process that may die.  *)
(* Jobs of different ids share nothing.                                    *)
(*                                                                         *)
(* The manager acts under its lock, one request at a time, and never waits *)
(* for a task; a task knows only the two flags it was spawned with.  What  *)
(* they tell each other goes through the files.                            *)
(*                                                                         *)
(* A file is the sequence of its pieces, a piece the url and the offset it *)
(* was fetched from.  Files are named after the task that created them, so *)
(* that a task may write to a file that has been renamed or removed.  The  *)
(* server sends Size pieces or an error.                                   *)
(*                                                                         *)
(* A definition named ..._Wrong is the one after it with one mistake; no   *)
(* specification uses it.                                                  *)
(***************************************************************************)
EXTENDS Naturals, Sequences

CONSTANTS
    Urls,           \* what may be asked for under the id
    Checks,         \* whether a SHA-256 may be given, may be left out
    Size,           \* pieces of a whole file
    MaxTasks,       \* bound: tasks ever spawned
    DiskFails,      \* whether a write may fail
    MaxCrashes,     \* bound: ends of the process
    None, Hole

ASSUME DownloadsAssumption ==
    /\ Checks \subseteq BOOLEAN /\ DiskFails \in BOOLEAN
    /\ None \notin Urls \union Nat
    /\ Size \in Nat \ {0} /\ MaxTasks \in Nat \ {0} /\ MaxCrashes \in Nat

VARIABLES
    job,        \* the manager's record, or None
    task,       \* the spawned tasks
    cancel, pause,      \* the flags of each task
    part, dest, \* the files behind model.gguf.part and model.gguf, or None
    failed,     \* whether the .failed marker is there
    content,    \* what each file holds
    crashes,
    finisher,   \* history: the task that renamed last
    causes      \* history: what can spoil a file or hide a task's end

files == <<part, dest, failed, content>>
flags == <<cancel, pause>>
history == <<crashes, finisher, causes>>
vars == <<job, task, flags, files, history>>

Tasks == 1..MaxTasks
Files == Tasks
Pieces == [url : Urls, at : 1..Size]
Whole(u) == [i \in 1..Size |-> [url |-> u, at |-> i]]

Statuses == {"downloading", "paused", "completed", "failed", "cancelled"}
Places == {"idle", "spawned", "requesting", "opening", "seeking", "streaming", "writing",
           "removing", "verifying", "renaming", "clearing", "ended"}

\* A task that was not spawned.
Idle == [at |-> "idle", url |-> None, sha |-> FALSE, from |-> 0, ranged |-> FALSE,
         file |-> None, pos |-> 0, next |-> 1, pending |-> None, error |-> FALSE]

Jobs == [status : Statuses, url : Urls, sha : BOOLEAN, task : Tasks]
Written == [piece : Pieces, pos : Nat]
Progress == [at : Places, url : Urls \union {None}, sha : BOOLEAN, from : Nat,
             ranged : BOOLEAN, file : Files \union {None}, pos : Nat, next : 1..(Size + 1),
             pending : Written \union {None}, error : BOOLEAN]

ASSUME NothingAssumption == None \notin Written \union Jobs /\ Hole \notin Pieces

TypeOK ==
    /\ job \in Jobs \union {None}
    /\ task \in [Tasks -> Progress]
    /\ cancel \in [Tasks -> BOOLEAN] /\ pause \in [Tasks -> BOOLEAN]
    /\ part \in Files \union {None} /\ dest \in Files \union {None}
    /\ failed \in BOOLEAN
    /\ content \in [Files -> Seq(Pieces \union {Hole})]
    /\ crashes \in 0..MaxCrashes
    /\ finisher \in Tasks \union {None}
    /\ causes \subseteq {"overlap", "unreported", "lost write"}

Init ==
    /\ job = None
    /\ task = [t \in Tasks |-> Idle]
    /\ cancel = [t \in Tasks |-> FALSE] /\ pause = [t \in Tasks |-> FALSE]
    /\ part = None /\ dest = None /\ failed = FALSE
    /\ content = [f \in Files |-> <<>>]
    /\ crashes = 0 /\ finisher = None /\ causes = {}

-----------------------------------------------------------------------------
(* The manager. *)

Running(t) == task[t].at \notin {"idle", "ended"} \/ task[t].pending # None

\* tokio::spawn(download_task(..)) with fresh flags.
Spawn(t, url, sha) ==
    /\ task[t].at = "idle" /\ \A u \in 1..(t - 1) : task[u].at # "idle"
    /\ task' = [task EXCEPT ![t].at = "spawned", ![t].url = url, ![t].sha = sha]
    /\ causes' = IF \E u \in Tasks : Running(u) THEN causes \union {"overlap"} ELSE causes

\* Only a job shown as downloading is in the way, and a model that is there.
\* A .part and a .failed left by an earlier download stay.
Start(url, sha) ==
    /\ job # None => job.status # "downloading"
    /\ dest = None
    /\ \E t \in Tasks :
          /\ Spawn(t, url, sha)
          /\ job' = [status |-> "downloading", url |-> url, sha |-> sha, task |-> t]
    /\ UNCHANGED <<flags, files, crashes, finisher>>

Pause ==
    /\ job # None /\ job.status = "downloading"
    /\ pause' = [pause EXCEPT ![job.task] = TRUE]
    /\ UNCHANGED <<job, task, cancel, files, history>>

\* Whatever the job is doing.
Cancel ==
    /\ job # None
    /\ cancel' = [cancel EXCEPT ![job.task] = TRUE]
    /\ UNCHANGED <<job, task, pause, files, history>>

Resume ==
    /\ job # None /\ job.status \notin {"downloading", "completed"}
    /\ dest = None
    /\ \E t \in Tasks :
          /\ Spawn(t, job.url, job.sha)
          /\ job' = [job EXCEPT !.status = "downloading", !.task = t]
    /\ failed' = FALSE
    /\ UNCHANGED <<flags, part, dest, content, crashes, finisher>>

\* What refresh makes of the job from the files and the flags.
Refreshed(j) ==
    IF j.status = "downloading" /\ failed THEN "failed"
    ELSE IF dest # None /\ j.status = "downloading" THEN "completed"
    ELSE IF dest = None /\ part # None /\ cancel[j.task] THEN "cancelled"
    ELSE IF dest = None /\ part # None /\ pause[j.task] /\ j.status = "downloading"
    THEN "paused"
    ELSE IF dest = None /\ part = None /\ cancel[j.task] /\ j.status = "downloading"
    THEN "cancelled"
    ELSE j.status

\* Every listing and every query of a download.
Refresh ==
    /\ job # None
    /\ job' = [job EXCEPT !.status = Refreshed(job)]
    /\ UNCHANGED <<task, flags, files, history>>

-----------------------------------------------------------------------------
(* The task. *)

At(t, place) == task[t].at = place
Goto(t, place) == task' = [task EXCEPT ![t].at = place]
\* FailedMarker::write and return.
Fail(t) == Goto(t, "ended") /\ failed' = TRUE

\* The length of the .part is read, and the request sent.
Request(t) ==
    /\ At(t, "spawned")
    /\ task' = [task EXCEPT ![t].at = "requesting",
                            ![t].from = IF part = None THEN 0 ELSE Len(content[part])]
    /\ UNCHANGED <<job, flags, files, history>>

\* No marker for a refused request.
Respond_Wrong(t) ==
    /\ At(t, "requesting")
    /\ \/ Goto(t, "ended")
       \/ \E ranged \in BOOLEAN :
             /\ ranged => task[t].from \in 1..(Size - 1)
             /\ task' = [task EXCEPT ![t].at = "opening", ![t].ranged = ranged]
    /\ UNCHANGED <<job, flags, files, history>>

\* An error, the rest (206) or everything (200).  A range that begins at or
\* past the end is an error (416), unless the server ignores ranges.
Respond(t) ==
    /\ At(t, "requesting")
    /\ \/ Fail(t)
       \/ \E ranged \in BOOLEAN :
             /\ ranged => task[t].from \in 1..(Size - 1)
             /\ task' = [task EXCEPT ![t].at = "opening", ![t].ranged = ranged]
             /\ UNCHANGED failed
    /\ UNCHANGED <<job, flags, part, dest, content, history>>

\* The .part is opened, and created when it is not there.  A failure, here or
\* in the seek, ends the task without a marker.
Open(t) ==
    /\ At(t, "opening")
    /\ \/ /\ Goto(t, "ended")
          /\ causes' = causes \union {"unreported"}
          /\ UNCHANGED part
       \/ LET f == IF part = None THEN t ELSE part
          IN /\ part' = f
             /\ task' = [task EXCEPT ![t].at = "seeking", ![t].file = f]
             /\ UNCHANGED causes
    /\ UNCHANGED <<job, flags, dest, failed, content, crashes, finisher>>

\* 200 is not told from 206.
Seek_Wrong(t) ==
    /\ At(t, "seeking")
    /\ LET end == Len(content[task[t].file])
       IN task' = [task EXCEPT ![t].at = "streaming",
                               ![t].pos = IF task[t].from > 0 THEN end ELSE 0,
                               ![t].next = IF task[t].ranged THEN task[t].from + 1 ELSE 1]
    /\ UNCHANGED <<job, flags, files, history>>

\* Where writing begins: from scratch when the range was ignored, at the end of
\* the file as it is now when it was served.
Seek(t) ==
    /\ At(t, "seeking")
    /\ LET f == task[t].file
       IN IF task[t].ranged
          THEN /\ task' = [task EXCEPT ![t].at = "streaming", ![t].pos = Len(content[f]),
                                       ![t].next = task[t].from + 1]
               /\ UNCHANGED content
          ELSE /\ Goto(t, "streaming")
               /\ content' = IF task[t].from > 0 THEN [content EXCEPT ![f] = <<>>] ELSE content
    /\ UNCHANGED <<job, flags, part, dest, failed, history>>

\* The next piece or a network error; the flags come first.
Receive(t) ==
    /\ At(t, "streaming") /\ task[t].next <= Size
    /\ \/ cancel[t] /\ Goto(t, "removing") /\ UNCHANGED failed
       \/ ~cancel[t] /\ pause[t] /\ Goto(t, "ended") /\ UNCHANGED failed
       \/ ~cancel[t] /\ ~pause[t] /\ Fail(t)
       \/ ~cancel[t] /\ ~pause[t] /\ Goto(t, "writing") /\ UNCHANGED failed
    /\ UNCHANGED <<job, flags, part, dest, content, history>>

\* write_all: waits for the piece before, reports its error, and hands this one
\* over.  Whether it can be written is known when the next one comes.
Write(t) ==
    /\ At(t, "writing") /\ task[t].pending = None
    /\ IF task[t].error
       THEN Fail(t)
       ELSE /\ task' = [task EXCEPT ![t].at = "streaming",
                           ![t].pending = [piece |-> [url |-> task[t].url, at |-> task[t].next],
                                           pos |-> task[t].pos],
                           ![t].pos = @ + 1, ![t].next = @ + 1]
            /\ UNCHANGED failed
    /\ UNCHANGED <<job, flags, part, dest, content, history>>

\* A sequence with a piece put at an offset: a gap before it is a hole.
Put(s, pos, piece) ==
    [i \in 1..(IF pos < Len(s) THEN Len(s) ELSE pos + 1) |->
        IF i = pos + 1 THEN piece ELSE IF i <= Len(s) THEN s[i] ELSE Hole]

\* The blocking pool writes the piece, or cannot, whatever has become of the
\* task and of the file's name since.
Land(t) ==
    /\ task[t].pending # None
    /\ LET w == task[t].pending
       IN \/ /\ content' = [content EXCEPT ![task[t].file] = Put(@, w.pos, w.piece)]
             /\ task' = [task EXCEPT ![t].pending = None]
             /\ UNCHANGED causes
          \/ /\ DiskFails
             /\ task' = [task EXCEPT ![t].pending = None, ![t].error = TRUE]
             /\ causes' = IF task[t].next > Size THEN causes \union {"lost write"} ELSE causes
             /\ UNCHANGED content
    /\ UNCHANGED <<job, flags, part, dest, failed, crashes, finisher>>

\* All of it has come.
EndOfStream(t) ==
    /\ At(t, "streaming") /\ task[t].next > Size
    /\ Goto(t, IF task[t].sha THEN "verifying" ELSE "renaming")
    /\ UNCHANGED <<job, flags, files, history>>

\* A mismatch is logged only.
Verify_Wrong(t) ==
    /\ At(t, "verifying")
    /\ Goto(t, "renaming")
    /\ UNCHANGED <<job, flags, files, history>>

\* verify_sha256 of whatever the .part is.
Verify(t) ==
    /\ At(t, "verifying")
    /\ IF part # None /\ content[part] = Whole(task[t].url)
       THEN Goto(t, "renaming") /\ UNCHANGED failed
       ELSE Fail(t)
    /\ UNCHANGED <<job, flags, part, dest, content, history>>

\* rename(.part, model.gguf).
Rename(t) ==
    /\ At(t, "renaming")
    /\ \/ /\ part # None
          /\ dest' = part /\ part' = None /\ finisher' = t
          /\ Goto(t, "clearing")
          /\ UNCHANGED failed
       \/ Fail(t) /\ UNCHANGED <<part, dest, finisher>>
    /\ UNCHANGED <<job, flags, content, crashes, causes>>

\* A cancelled task removes the .part by its name.
Remove(t) ==
    /\ At(t, "removing")
    /\ part' = None
    /\ Goto(t, "clearing")
    /\ UNCHANGED <<job, flags, dest, failed, content, history>>

\* FailedMarker::remove, after a removal and after a rename.
Clear(t) ==
    /\ At(t, "clearing")
    /\ failed' = FALSE
    /\ Goto(t, "ended")
    /\ UNCHANGED <<job, flags, part, dest, content, history>>

-----------------------------------------------------------------------------
\* The process ends: the jobs and the tasks are gone, the files are not.
Crash ==
    /\ crashes < MaxCrashes /\ job # None
    /\ crashes' = crashes + 1
    /\ job' = None
    /\ task' = [t \in Tasks |->
                   IF task[t].at = "idle" THEN Idle
                   ELSE [task[t] EXCEPT !.at = "ended", !.pending = None]]
    /\ causes' = IF \E t \in Tasks : task[t].pending # None /\ task[t].next > Size
                 THEN causes \union {"lost write"} ELSE causes
    /\ UNCHANGED <<flags, files, finisher>>

Manager ==
    \/ \E url \in Urls, sha \in Checks : Start(url, sha)
    \/ Pause \/ Cancel \/ Resume \/ Refresh

Step(t) ==
    \/ Request(t) \/ Respond(t) \/ Open(t) \/ Seek(t) \/ Receive(t) \/ Write(t)
    \/ EndOfStream(t) \/ Verify(t) \/ Rename(t) \/ Remove(t) \/ Clear(t)

Next == Manager \/ Crash \/ \E t \in Tasks : Step(t) \/ Land(t)

Spec == Init /\ [][Next]_vars
-----------------------------------------------------------------------------
(* Properties. *)

Known(cause) == cause \in causes

\* What a download leaves behind can be resumed: in the .part and in the model
\* every piece is at its own offset, however often the download was paused,
\* failed, cancelled or cut off by a crash, and whatever the server answered.
\* Only a task spawned while an older one was not done can break that.
InPlace ==
    ~Known("overlap") =>
        \A f \in {part, dest} \ {None} :
            \A i \in DOMAIN content[f] : content[f][i] # Hole /\ content[f][i].at = i

Settled(f) == \A t \in Tasks : task[t].pending # None => task[t].file # f

\* A finished model is one whole file.  There are three exceptions: an older task
\* was not done; without a SHA-256, the last write failed unseen or was cut off by
\* a crash; and without one, the .part was begun from another url.
FinishedIsSound ==
    dest # None /\ Settled(dest) =>
        \/ content[dest] = Whole(task[finisher].url)
        \/ Known("overlap")
        \/ ~task[finisher].sha
           /\ \/ Known("lost write")
              \/ \E i \in DOMAIN content[dest] : content[dest][i].url # task[finisher].url

\* A job is not left "downloading" by a task that has ended: the files and flags
\* let the next refresh see it, unless the .part could not be opened or an
\* older task cleared the marker.
EndsAreSeen ==
    job # None /\ job.status = "downloading" /\ task[job.task].at = "ended" =>
        Refreshed(job) # "downloading" \/ Known("unreported") \/ Known("overlap")
=============================================================================
