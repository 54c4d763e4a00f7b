--------------------------- MODULE DownloadsProofs ---------------------------
(***************************************************************************)
(* Downloads for any number of urls, tasks, pieces and crashes.            *)
(*                                                                         *)
(* UInv is what always holds; CInv, which says where every piece is and    *)
(* what a task that has ended leaves behind, holds as long as no task was  *)
(* spawned beside an older one.                                            *)
(***************************************************************************)
EXTENDS Downloads, TLAPS

New    == {"idle", "spawned", "requesting", "opening"}
Steady == {"streaming", "writing", "removing", "verifying", "renaming"}

\* A task that has not opened the .part yet: the file it would create is not there.
FreshAt(t) ==
    /\ task[t].at = "idle" => task[t] = Idle
    /\ task[t].at # "idle" => task[t].url \in Urls
    /\ task[t].at \in New =>
          /\ content[t] = <<>> /\ part # t /\ dest # t
          /\ \A u \in Tasks : task[u].file # t
          /\ task[t].pos = 0 /\ task[t].next = 1
          /\ task[t].pending = None /\ ~task[t].error

\* What a task knows of its file and of how far it is.
FiledAt(t) ==
    /\ task[t].at \in Steady \union {"seeking"} \/ task[t].pending # None => task[t].file # None
    /\ task[t].at = "seeking" => /\ task[t].pos = 0 /\ task[t].next = 1
                                 /\ task[t].pending = None /\ ~task[t].error
    /\ task[t].at \in {"opening", "seeking"} /\ task[t].ranged => task[t].from \in 1..(Size - 1)
    /\ task[t].at = "writing" => task[t].next <= Size
    /\ task[t].at \in {"verifying", "renaming"} => task[t].next = Size + 1
    /\ task[t].at = "removing" => cancel[t]
    /\ task[t].pending # None => ~task[t].error
    /\ task[t].error /\ task[t].next > Size => Known("lost write")

\* The task of a job was spawned; a model was renamed by somebody.
Named ==
    /\ job # None => task[job.task].at # "idle"
    /\ dest # None => finisher # None

UInv == TypeOK /\ (\A t \in Tasks : FreshAt(t) /\ FiledAt(t)) /\ Named

\* Nobody but the job's task is at work.
Only == \A t \in Tasks : Running(t) => job # None /\ job.task = t

AllGood ==
    \A f \in Files : \A i \in DOMAIN content[f] : content[f][i] # Hole /\ content[f][i].at = i

\* Before it writes, a task knows how much of the .part is there ...
EarlyAt(t) ==
    /\ task[t].at \notin {"idle", "clearing", "ended"} => dest = None
    /\ task[t].at \in {"requesting", "opening"} =>
          task[t].from = IF part = None THEN 0 ELSE Len(content[part])
    /\ task[t].at = "seeking" => task[t].file = part /\ task[t].from = Len(content[part])

\* ... and from then on where the end of it is.
LateAt(t) ==
    /\ task[t].next = task[t].pos + 1
    /\ task[t].at \in Steady =>
          /\ task[t].file = part
          /\ task[t].pending = None /\ ~task[t].error => task[t].pos = Len(content[part])
    /\ task[t].pending # None =>
          /\ task[t].pending.pos = Len(content[task[t].file])
          /\ task[t].pending.piece.at = task[t].pending.pos + 1
          /\ task[t].pos = task[t].pending.pos + 1
    /\ task[t].at = "renaming" /\ task[t].sha =>
          task[t].pending = None /\ content[part] = Whole(task[t].url)

ClearingAt(t) == task[t].at = "clearing" => dest # None \/ (part = None /\ cancel[t])

\* The task that renamed the .part has written all of it.
Finished ==
    dest # None =>
        /\ task[finisher].at \in {"clearing", "ended"}
        /\ task[finisher].file = dest /\ task[finisher].next = Size + 1
        /\ job # None => job.task = finisher
        /\ task[finisher].pending = None => Len(content[dest]) = Size \/ Known("lost write")
        /\ task[finisher].sha =>
              task[finisher].pending = None /\ content[dest] = Whole(task[finisher].url)

CInv ==
    /\ Only /\ AllGood /\ Finished /\ EndsAreSeen
    /\ \A t \in Tasks : EarlyAt(t) /\ LateAt(t) /\ ClearingAt(t)

DInv == UInv /\ (Known("overlap") \/ CInv)

LEMMA IdleIsTyped == Idle \in Progress
BY DownloadsAssumption DEF Idle, Progress, Places

\* A piece put at an offset: the sequence stays one of pieces and holes, and
\* at its end the piece is appended.
LEMMA PutType ==
    ASSUME NEW s \in Seq(Pieces \union {Hole}), NEW pos \in Nat, NEW piece \in Pieces
    PROVE  Put(s, pos, piece) \in Seq(Pieces \union {Hole})
<1> DEFINE n == IF pos < Len(s) THEN Len(s) ELSE pos + 1
<1>1. n \in Nat
  OBVIOUS
<1>2. Put(s, pos, piece) \in [1..n -> Pieces \union {Hole}]
  BY DEF Put
<1> HIDE DEF n
<1> QED BY <1>1, <1>2

LEMMA PutAtEnd ==
    ASSUME NEW s \in Seq(Pieces \union {Hole}), NEW piece \in Pieces
    PROVE  LET p == Put(s, Len(s), piece)
           IN /\ Len(p) = Len(s) + 1 /\ DOMAIN p = 1..(Len(s) + 1)
              /\ \A i \in DOMAIN s : p[i] = s[i]
              /\ p[Len(s) + 1] = piece
<1>1. Put(s, Len(s), piece) \in Seq(Pieces \union {Hole})
  BY PutType
<1>2. Put(s, Len(s), piece) =
         [i \in 1..(Len(s) + 1) |-> IF i = Len(s) + 1 THEN piece
                                    ELSE IF i <= Len(s) THEN s[i] ELSE Hole]
  BY DEF Put
<1>3. DOMAIN Put(s, Len(s), piece) = 1..(Len(s) + 1)
  BY <1>2
<1>4. Len(Put(s, Len(s), piece)) = Len(s) + 1
  BY <1>1, <1>3
<1>5. \A i \in DOMAIN s : Put(s, Len(s), piece)[i] = s[i]
  BY <1>2
<1> QED BY <1>2, <1>3, <1>4, <1>5

LEMMA InitDInv == Init => DInv
<1> SUFFICES ASSUME Init PROVE DInv
  OBVIOUS
<1>1. TypeOK
  <2>1. task \in [Tasks -> Progress]
    BY IdleIsTyped DEF Init
  <2>2. content \in [Files -> Seq(Pieces \union {Hole})]
    BY DEF Init
  <2>3. cancel \in [Tasks -> BOOLEAN] /\ pause \in [Tasks -> BOOLEAN]
    BY DEF Init
  <2>4. crashes \in 0..MaxCrashes
    BY DownloadsAssumption DEF Init
  <2> QED BY <2>1, <2>2, <2>3, <2>4 DEF Init, TypeOK
<1>2. /\ \A t \in Tasks : task[t] = Idle /\ content[t] = <<>> /\ t # None
      /\ job = None /\ dest = None /\ part = None
  BY DownloadsAssumption DEF Init, Files, Tasks
<1>3. /\ Idle.at = "idle" /\ Idle.file = None /\ Idle.pos = 0 /\ Idle.next = 1
      /\ Idle.pending = None /\ Idle.error = FALSE
  BY DEF Idle
<1>4. (\A t \in Tasks : FreshAt(t) /\ FiledAt(t)) /\ Named
  BY <1>2, <1>3, DownloadsAssumption DEF FreshAt, FiledAt, Named, New, Steady
<1>5. CInv
  <2>1. AllGood
    BY DEF Init, AllGood
  <2> QED BY <1>2, <1>3, <2>1 DEF CInv, Only, Running, EarlyAt, LateAt, Finished, ClearingAt,
                                  EndsAreSeen, Steady
<1> QED BY <1>1, <1>4, <1>5 DEF DInv, UInv

-----------------------------------------------------------------------------
(* One step of one task. *)

\* A task whose step leaves the rest of UInv and CInv to the task itself: the
\* others are not disturbed.
LEMMA Local ==
    ASSUME DInv, NEW t \in Tasks, Running(t), TypeOK',
           \A u \in Tasks \ {t} :
               /\ task'[u] = task[u]
               /\ task[u].at \in New =>
                     content'[u] = content[u] /\ part' # u /\ dest' # u /\ task'[t].file # u,
           UNCHANGED <<job, cancel, pause>>,
           causes \subseteq causes', Known("overlap")' <=> Known("overlap"),
           task'[t].at # "idle", dest' # None => finisher' # None,
           FreshAt(t)', FiledAt(t)',
           CInv => /\ EarlyAt(t)' /\ LateAt(t)' /\ ClearingAt(t)'
                   /\ AllGood' /\ Finished' /\ EndsAreSeen'
    PROVE  DInv'
<1>1. ASSUME NEW u \in Tasks PROVE FreshAt(u)'
  BY DEF FreshAt, DInv, UInv
<1>2. ASSUME NEW u \in Tasks PROVE FiledAt(u)'
  <2>1. CASE u # t
    <3>1. FiledAt(u) /\ task'[u] = task[u] /\ cancel' = cancel
      BY <2>1 DEF DInv, UInv
    <3>2. Known("lost write") => Known("lost write")'
      BY DEF Known
    <3> QED BY <3>1, <3>2 DEF FiledAt
  <2> QED BY <2>1
<1>3. Named'
  BY DEF DInv, UInv, TypeOK, Jobs, Named
<1>4. ASSUME CInv PROVE CInv'
  <2>1. job # None /\ job.task = t
    BY <1>4 DEF CInv, Only
  <2>2. \A u \in Tasks \ {t} : ~Running(u)
    BY <2>1, <1>4 DEF CInv, Only
  <2>3. \A u \in Tasks \ {t} : task'[u].at \in {"idle", "ended"} /\ task'[u].pending = None
    BY <2>2 DEF Running
  <2>4. Only'
    BY <2>1, <2>3 DEF Only, Running
  <2>5. ASSUME NEW u \in Tasks PROVE EarlyAt(u)' /\ LateAt(u)' /\ ClearingAt(u)'
    <3>1. CASE u = t
      BY <1>4, <3>1
    <3>2. CASE u # t
      <4>1. task'[u].next = task'[u].pos + 1
        BY <3>2, <1>4 DEF CInv, LateAt
      <4> QED BY <4>1, <2>3, <3>2 DEF EarlyAt, LateAt, ClearingAt, Steady
    <3> QED BY <3>1, <3>2
  <2> QED BY <1>4, <2>4, <2>5 DEF CInv
<1> QED BY <1>1, <1>2, <1>3, <1>4 DEF DInv, UInv

\* A step that moves a task on and changes nothing else in its record.
Goes(t, at) ==
    /\ \A u \in Tasks \ {t} : task'[u] = task[u]
    /\ task'[t].at = at
    /\ task'[t].url = task[t].url /\ task'[t].sha = task[t].sha
    /\ task'[t].from = task[t].from /\ task'[t].ranged = task[t].ranged
    /\ task'[t].file = task[t].file /\ task'[t].pos = task[t].pos
    /\ task'[t].next = task[t].next /\ task'[t].pending = task[t].pending
    /\ task'[t].error = task[t].error

LEMMA GotoGoes ==
    ASSUME TypeOK, NEW t \in Tasks, NEW at \in Places, Goto(t, at)
    PROVE  Goes(t, at) /\ task' \in [Tasks -> Progress]
<1>1. task \in [Tasks -> Progress] /\ task' = [task EXCEPT ![t].at = at]
  BY DEF TypeOK, Goto
<1>2. Goes(t, at)
  BY <1>1 DEF Goes, Progress
<1>3. [task[t] EXCEPT !.at = at] \in Progress
  BY <1>1 DEF Progress
<1>4. task' \in [Tasks -> Progress]
  BY <1>1, <1>3
<1> QED BY <1>2, <1>4

\* What a task at work knows.
LEMMA AtWork ==
    ASSUME DInv, NEW t \in Tasks, task[t].at \notin {"idle", "ended"}
    PROVE  /\ Running(t) /\ TypeOK /\ FreshAt(t) /\ FiledAt(t)
           /\ task \in [Tasks -> Progress] /\ task[t] \in Progress
           /\ dest # None => finisher \in Tasks
           /\ CInv => /\ job # None /\ job.task = t /\ EarlyAt(t) /\ LateAt(t) /\ ClearingAt(t)
                      /\ dest # None => finisher = t
BY DEF DInv, UInv, TypeOK, CInv, Only, Running, Named, Finished

LEMMA LenPart ==
    ASSUME DInv
    PROVE  (IF part = None THEN 0 ELSE Len(content[part])) \in Nat
<1>1. CASE part # None
  <2>1. part \in Files /\ content[part] \in Seq(Pieces \union {Hole})
    BY <1>1 DEF DInv, UInv, TypeOK
  <2> QED BY <1>1, <2>1
<1> QED BY <1>1

\* A task that ends with the marker, or without being noticed.
LEMMA FailStep ==
    ASSUME DInv, NEW t \in Tasks, task[t].at \notin {"idle", "ended"}, Fail(t),
           UNCHANGED <<job, flags, part, dest, content, history>>
    PROVE  DInv'
<1>1. Goes(t, "ended") /\ task' \in [Tasks -> Progress] /\ failed'
  BY GotoGoes, AtWork DEF Fail, Places
<1>2. UNCHANGED <<job, cancel, pause, part, dest, content, crashes, finisher, causes>>
  BY DEF flags, history
<1>3. TypeOK'
  BY <1>1, <1>2, AtWork DEF TypeOK, Fail
<1>4. FreshAt(t)' /\ FiledAt(t)'
  BY <1>1, <1>2, AtWork DEF Goes, FreshAt, FiledAt, Known, New, Steady
<1>5. ASSUME CInv PROVE EarlyAt(t)' /\ LateAt(t)' /\ ClearingAt(t)'
  BY <1>1, <1>2, <1>5, AtWork DEF Goes, EarlyAt, LateAt, ClearingAt, Steady
<1>6. ASSUME CInv PROVE AllGood' /\ Finished' /\ EndsAreSeen'
  <2>1. AllGood'
    BY <1>2, <1>6 DEF CInv, AllGood
  <2>2. Finished'
    BY <1>1, <1>2, <1>6, AtWork, ZenonT(60) DEF CInv, Finished, Goes, Known
  <2>3. EndsAreSeen'
    BY <1>1 DEF EndsAreSeen, Refreshed
  <2> QED BY <2>1, <2>2, <2>3
<1>7. Known("overlap")' <=> Known("overlap")
  BY <1>2 DEF Known
<1>8. dest' # None => finisher' # None
  BY <1>2 DEF DInv, UInv, Named
<1>9. \A u \in Tasks \ {t} :
         task[u].at \in New =>
             content'[u] = content[u] /\ part' # u /\ dest' # u /\ task'[t].file # u
  BY <1>1, <1>2 DEF DInv, UInv, FreshAt, Goes
<1> HIDE DEF DInv, CInv, FreshAt, FiledAt
<1> QED BY <1>1, <1>2, <1>3, <1>4, <1>5, <1>6, <1>7, <1>8, <1>9, Local, AtWork DEF Goes

\* A step that touches no file and no name of one.
LEMMA QuietStep ==
    ASSUME DInv, NEW t \in Tasks, task[t].at \notin {"idle", "clearing", "ended"},
           \A u \in Tasks \ {t} : task'[u] = task[u],
           UNCHANGED <<job, cancel, pause, part, dest, content, crashes, finisher, causes>>,
           task' \in [Tasks -> Progress], failed' \in BOOLEAN,
           task'[t].at # "idle", task'[t].file = task[t].file,
           FreshAt(t)', FiledAt(t)',
           CInv => EarlyAt(t)' /\ LateAt(t)' /\ ClearingAt(t)' /\ EndsAreSeen'
    PROVE  DInv'
<1>1. TypeOK'
  BY DEF DInv, UInv, TypeOK
<1>2. ASSUME CInv PROVE AllGood' /\ Finished'
  BY <1>2, AtWork, ZenonT(60) DEF CInv, AllGood, Finished, EarlyAt
<1>3. Known("overlap")' <=> Known("overlap")
  BY DEF Known
<1>4. dest' # None => finisher' # None
  BY DEF DInv, UInv, Named
<1>5. \A u \in Tasks \ {t} :
         task[u].at \in New =>
             content'[u] = content[u] /\ part' # u /\ dest' # u /\ task'[t].file # u
  BY DEF DInv, UInv, FreshAt
<1>6. Running(t)
  BY DEF Running
<1> HIDE DEF DInv, CInv, FreshAt, FiledAt, Running, Known
<1> QED BY <1>1, <1>2, <1>3, <1>4, <1>5, <1>6, Local

LEMMA RequestStep ==
    ASSUME DInv, NEW t \in Tasks, Request(t)
    PROVE  DInv'
<1> DEFINE from == IF part = None THEN 0 ELSE Len(content[part])
<1>1. /\ task[t].at = "spawned" /\ task' = [task EXCEPT ![t].at = "requesting", ![t].from = from]
      /\ UNCHANGED <<job, cancel, pause, part, dest, failed, content, crashes, finisher, causes>>
  BY DEF Request, At, flags, files, history
<1>2. from \in Nat
  BY LenPart
<1> HIDE DEF from
<1>3. task' \in [Tasks -> Progress]
  BY <1>1, <1>2, AtWork DEF Progress, Places
<1>4. /\ \A u \in Tasks \ {t} : task'[u] = task[u]
      /\ task'[t].at = "requesting" /\ task'[t].from = from
      /\ task'[t].url = task[t].url /\ task'[t].file = task[t].file
      /\ task'[t].pos = task[t].pos /\ task'[t].next = task[t].next
      /\ task'[t].pending = task[t].pending /\ task'[t].error = task[t].error
  BY <1>1, AtWork DEF Progress
<1>5. FreshAt(t)' /\ FiledAt(t)'
  <2>1. FreshAt(t)'
    BY <1>1, <1>4, AtWork DEF FreshAt, New
  <2>2. FiledAt(t)'
    BY <1>1, <1>4, AtWork DEF FreshAt, FiledAt, New, Steady
  <2> QED BY <2>1, <2>2
<1>6. ASSUME CInv PROVE EarlyAt(t)' /\ LateAt(t)' /\ ClearingAt(t)' /\ EndsAreSeen'
  BY <1>1, <1>4, <1>6, AtWork
     DEF EarlyAt, LateAt, ClearingAt, EndsAreSeen, FreshAt, New, Steady, from
<1>7. failed' \in BOOLEAN
  BY <1>1, AtWork DEF TypeOK
<1> QED BY <1>1, <1>3, <1>4, <1>5, <1>6, <1>7, QuietStep

LEMMA RespondStep ==
    ASSUME DInv, NEW t \in Tasks, Respond(t)
    PROVE  DInv'
<1>1. /\ task[t].at = "requesting"
      /\ UNCHANGED <<job, cancel, pause, part, dest, content, crashes, finisher, causes>>
  BY DEF Respond, At, flags, history
<1>2. CASE Fail(t)
  BY <1>1, <1>2, FailStep DEF Respond
<1>3. ASSUME NEW ranged \in BOOLEAN, ranged => task[t].from \in 1..(Size - 1),
             task' = [task EXCEPT ![t].at = "opening", ![t].ranged = ranged],
             UNCHANGED failed
      PROVE  DInv'
  <2>1. task' \in [Tasks -> Progress]
    BY <1>1, <1>3, AtWork DEF Progress, Places
  <2>2. /\ \A u \in Tasks \ {t} : task'[u] = task[u]
        /\ task'[t].at = "opening" /\ task'[t].ranged = ranged
        /\ task'[t].url = task[t].url /\ task'[t].from = task[t].from
        /\ task'[t].file = task[t].file
        /\ task'[t].pos = task[t].pos /\ task'[t].next = task[t].next
        /\ task'[t].pending = task[t].pending /\ task'[t].error = task[t].error
    BY <1>1, <1>3, AtWork DEF Progress
  <2>3. FreshAt(t)'
    BY <1>1, <2>2, AtWork DEF DInv, UInv, FreshAt, New
  <2>4. FiledAt(t)'
    BY <1>1, <1>3, <2>2, AtWork DEF FreshAt, FiledAt, New, Steady
  <2>5. ASSUME CInv PROVE EarlyAt(t)' /\ LateAt(t)' /\ ClearingAt(t)' /\ EndsAreSeen'
    BY <1>1, <2>2, <2>5, AtWork
       DEF EarlyAt, LateAt, ClearingAt, EndsAreSeen, FreshAt, New, Steady
  <2>6. failed' \in BOOLEAN
    BY <1>1, <1>3, AtWork DEF TypeOK
  <2> QED BY <1>1, <2>1, <2>2, <2>3, <2>4, <2>5, <2>6, QuietStep
<1> QED BY <1>2, <1>3 DEF Respond

LEMMA ReceiveStep ==
    ASSUME DInv, NEW t \in Tasks, Receive(t)
    PROVE  DInv'
<1>1. /\ task[t].at = "streaming" /\ task[t].next <= Size
      /\ UNCHANGED <<job, cancel, pause, part, dest, content, crashes, finisher, causes>>
  BY DEF Receive, At, flags, history
<1>2. CASE Fail(t)
  BY <1>1, <1>2, FailStep DEF Receive
<1>3. ASSUME NEW at \in {"removing", "ended", "writing"}, Goto(t, at), UNCHANGED failed,
             at = "removing" => cancel[t], at = "ended" => pause[t]
      PROVE  DInv'
  <2>1. Goes(t, at) /\ task' \in [Tasks -> Progress]
    BY <1>1, <1>3, AtWork, GotoGoes DEF Places
  <2>2. FreshAt(t)' /\ FiledAt(t)'
    BY <1>1, <1>3, <2>1, AtWork, ZenonT(60) DEF Goes, FreshAt, FiledAt, Known, New, Steady
  <2>3. ASSUME CInv PROVE EarlyAt(t)' /\ LateAt(t)' /\ ClearingAt(t)'
    BY <1>1, <1>3, <2>1, <2>3, AtWork DEF Goes, EarlyAt, LateAt, ClearingAt, Steady
  <2>4. ASSUME CInv PROVE EndsAreSeen'
    <3>1. dest' = None /\ part' # None /\ (at = "ended" => pause'[job'.task])
      BY <1>1, <1>3, <2>4, AtWork DEF EarlyAt, LateAt, FiledAt, Steady
    <3> QED BY <1>1, <1>3, <2>1, <2>4, <3>1, AtWork DEF Goes, EndsAreSeen, Refreshed
  <2>5. failed' \in BOOLEAN
    BY <1>1, <1>3, AtWork DEF TypeOK
  <2> QED BY <1>1, <1>3, <2>1, <2>2, <2>3, <2>4, <2>5, QuietStep DEF Goes
<1> QED BY <1>2, <1>3 DEF Receive

LEMMA EndOfStreamStep ==
    ASSUME DInv, NEW t \in Tasks, EndOfStream(t)
    PROVE  DInv'
<1> DEFINE at == IF task[t].sha THEN "verifying" ELSE "renaming"
<1>1. /\ task[t].at = "streaming" /\ task[t].next > Size /\ Goto(t, at)
      /\ UNCHANGED <<job, cancel, pause, part, dest, failed, content, crashes, finisher, causes>>
  BY DEF EndOfStream, At, flags, files, history
<1>2. at \in {"verifying", "renaming"} /\ (at = "renaming" => ~task[t].sha)
  OBVIOUS
<1>3. task[t].next = Size + 1
  <2>1. task[t].next \in 1..(Size + 1)
    BY <1>1, AtWork DEF Progress
  <2> QED BY <1>1, <2>1, DownloadsAssumption
<1> HIDE DEF at
<1>4. Goes(t, at) /\ task' \in [Tasks -> Progress]
  BY <1>1, <1>2, AtWork, GotoGoes DEF Places
<1>5. FreshAt(t)' /\ FiledAt(t)'
  BY <1>1, <1>2, <1>3, <1>4, AtWork DEF Goes, FreshAt, FiledAt, Known, New, Steady
<1>6. ASSUME CInv PROVE EarlyAt(t)' /\ LateAt(t)' /\ ClearingAt(t)' /\ EndsAreSeen'
  BY <1>1, <1>2, <1>4, <1>6, AtWork DEF Goes, EarlyAt, LateAt, ClearingAt, EndsAreSeen, Steady
<1>7. failed' \in BOOLEAN
  BY <1>1, AtWork DEF TypeOK
<1> QED BY <1>1, <1>2, <1>4, <1>5, <1>6, <1>7, QuietStep DEF Goes

\* A piece is handed over: where it goes is where the file ends.
LEMMA WriteStep ==
    ASSUME DInv, NEW t \in Tasks, Write(t)
    PROVE  DInv'
<1>1. /\ task[t].at = "writing" /\ task[t].pending = None
      /\ UNCHANGED <<job, cancel, pause, part, dest, content, crashes, finisher, causes>>
  BY DEF Write, At, flags, history
<1>2. CASE task[t].error
  BY <1>1, <1>2, FailStep DEF Write
<1>3. CASE ~task[t].error
  <2> DEFINE w == [piece |-> [url |-> task[t].url, at |-> task[t].next], pos |-> task[t].pos]
  <2>1. /\ task' = [task EXCEPT ![t].at = "streaming", ![t].pending = w,
                                ![t].pos = @ + 1, ![t].next = @ + 1]
        /\ UNCHANGED failed
    BY <1>3 DEF Write
  <2>2. /\ task[t].next \in 1..(Size + 1) /\ task[t].next <= Size /\ task[t].pos \in Nat
        /\ task[t].url \in Urls
    BY <1>1, AtWork DEF Progress, FiledAt, FreshAt
  <2>3. task[t].next + 1 \in 1..(Size + 1) /\ task[t].pos + 1 \in Nat /\ task[t].next \in 1..Size
    BY <2>2, DownloadsAssumption
  <2>4. w \in Written /\ w # None /\ w.pos = task[t].pos /\ w.piece.at = task[t].next
    BY <2>2, <2>3, NothingAssumption DEF Written, Pieces
  <2> HIDE DEF w
  <2>5. task' \in [Tasks -> Progress]
    BY <1>1, <2>1, <2>3, <2>4, AtWork DEF Progress, Places
  <2>6. /\ \A u \in Tasks \ {t} : task'[u] = task[u]
        /\ task'[t].at = "streaming" /\ task'[t].pending = w
        /\ task'[t].pos = task[t].pos + 1 /\ task'[t].next = task[t].next + 1
        /\ task'[t].url = task[t].url /\ task'[t].file = task[t].file
        /\ task'[t].error = task[t].error
    BY <1>1, <2>1, AtWork DEF Progress
  <2>7. FreshAt(t)'
    BY <1>1, <2>2, <2>6 DEF FreshAt, New
  <2>8. FiledAt(t)'
    BY <1>1, <1>3, <2>6, AtWork DEF FiledAt, Steady
  <2>9. ASSUME CInv PROVE EarlyAt(t)' /\ LateAt(t)' /\ ClearingAt(t)' /\ EndsAreSeen'
    <3>1. EarlyAt(t)' /\ ClearingAt(t)' /\ EndsAreSeen'
      BY <1>1, <2>6, <2>9, AtWork DEF EarlyAt, ClearingAt, EndsAreSeen
    <3>2. LateAt(t) /\ task[t].file = part /\ task[t].pos = Len(content[part])
      BY <1>1, <1>3, <2>9, AtWork DEF LateAt, Steady
    <3>3. LateAt(t)'
      BY <1>1, <2>2, <2>4, <2>6, <3>2 DEF LateAt, Steady
    <3> QED BY <3>1, <3>3
  <2>10. failed' \in BOOLEAN
    BY <1>1, <2>1, AtWork DEF TypeOK
  <2> QED BY <1>1, <2>5, <2>6, <2>7, <2>8, <2>9, <2>10, QuietStep
<1> QED BY <1>2, <1>3

\* A file that matches its SHA-256 is whole: nothing is still to be written.
LEMMA VerifyStep ==
    ASSUME DInv, NEW t \in Tasks, Verify(t)
    PROVE  DInv'
<1>1. /\ task[t].at = "verifying"
      /\ UNCHANGED <<job, cancel, pause, part, dest, content, crashes, finisher, causes>>
  BY DEF Verify, At, flags, history
<1>2. CASE Fail(t)
  BY <1>1, <1>2, FailStep DEF Verify
<1>3. CASE /\ part # None /\ content[part] = Whole(task[t].url)
           /\ Goto(t, "renaming") /\ UNCHANGED failed
  <2>1. Goes(t, "renaming") /\ task' \in [Tasks -> Progress]
    BY <1>1, <1>3, AtWork, GotoGoes DEF Places
  <2>2. FreshAt(t)' /\ FiledAt(t)'
    BY <1>1, <2>1, AtWork DEF Goes, FreshAt, FiledAt, Known, New, Steady
  <2>3. ASSUME CInv PROVE EarlyAt(t)' /\ LateAt(t)' /\ ClearingAt(t)' /\ EndsAreSeen'
    <3>1. EarlyAt(t)' /\ ClearingAt(t)' /\ EndsAreSeen'
      BY <1>1, <2>1, <2>3, AtWork DEF Goes, EarlyAt, ClearingAt, EndsAreSeen
    <3>2. LateAt(t) /\ task[t].next = Size + 1 /\ task[t].file = part /\ task[t].pos \in Nat
      BY <1>1, <2>3, AtWork DEF LateAt, FiledAt, Steady, Progress
    <3>3. Len(content[part]) = Size
      BY <1>3, DownloadsAssumption DEF Whole
    <3>4. task[t].pending = None
      BY <3>2, <3>3, DownloadsAssumption DEF LateAt
    <3>5. LateAt(t)'
      BY <1>1, <1>3, <2>1, <3>2, <3>4 DEF Goes, LateAt, Steady
    <3> QED BY <3>1, <3>5
  <2>4. failed' \in BOOLEAN
    BY <1>1, <1>3, AtWork DEF TypeOK
  <2> QED BY <1>1, <2>1, <2>2, <2>3, <2>4, QuietStep DEF Goes
<1> QED BY <1>2, <1>3 DEF Verify

\* The .part is opened, or made under a name no task has used.
LEMMA OpenStep ==
    ASSUME DInv, NEW t \in Tasks, Open(t)
    PROVE  DInv'
<1>1. /\ task[t].at = "opening"
      /\ UNCHANGED <<job, cancel, pause, dest, failed, content, crashes, finisher>>
  BY DEF Open, At, flags
<1>2. CASE Goto(t, "ended") /\ causes' = causes \union {"unreported"} /\ UNCHANGED part
  <2>1. Goes(t, "ended") /\ task' \in [Tasks -> Progress]
    BY <1>1, <1>2, AtWork, GotoGoes DEF Places
  <2>2. TypeOK'
    BY <1>1, <1>2, <2>1, AtWork DEF TypeOK
  <2>3. FreshAt(t)' /\ FiledAt(t)'
    BY <1>1, <1>2, <2>1, AtWork DEF Goes, FreshAt, FiledAt, Known, New, Steady
  <2>4. ASSUME CInv PROVE EarlyAt(t)' /\ LateAt(t)' /\ ClearingAt(t)'
    BY <1>1, <2>1, <2>4, AtWork DEF Goes, FreshAt, EarlyAt, LateAt, ClearingAt, New, Steady
  <2>5. ASSUME CInv PROVE AllGood' /\ Finished' /\ EndsAreSeen'
    BY <1>1, <1>2, <2>5, AtWork DEF CInv, AllGood, Finished, EarlyAt, EndsAreSeen, Known
  <2>6. /\ causes \subseteq causes' /\ (Known("overlap")' <=> Known("overlap"))
        /\ dest' # None => finisher' # None
    BY <1>1, <1>2 DEF Known, DInv, UInv, Named
  <2>7. \A u \in Tasks \ {t} :
           task[u].at \in New =>
               content'[u] = content[u] /\ part' # u /\ dest' # u /\ task'[t].file # u
    BY <1>1, <1>2, <2>1 DEF DInv, UInv, FreshAt, Goes
  <2> HIDE DEF DInv, CInv, FreshAt, FiledAt, Known
  <2> QED BY <1>1, <2>1, <2>2, <2>3, <2>4, <2>5, <2>6, <2>7, Local, AtWork DEF Goes
<1>3. ASSUME UNCHANGED causes,
             part' = IF part = None THEN t ELSE part,
             task' = [task EXCEPT ![t].at = "seeking", ![t].file = part']
      PROVE  DInv'
  <2>1. part' \in Files /\ part' # None
    <3>1. t # None /\ t \in Files
      BY DownloadsAssumption DEF Files, Tasks
    <3>2. part \in Files \union {None}
      BY <1>1, AtWork DEF TypeOK
    <3> QED BY <1>3, <3>1, <3>2
  <2>2. task' \in [Tasks -> Progress]
    BY <1>1, <1>3, <2>1, AtWork DEF Progress, Places
  <2>3. /\ \A u \in Tasks \ {t} : task'[u] = task[u]
        /\ task'[t].at = "seeking" /\ task'[t].file = part'
        /\ task'[t].url = task[t].url
        /\ task'[t].from = task[t].from /\ task'[t].ranged = task[t].ranged
        /\ task'[t].pos = task[t].pos /\ task'[t].next = task[t].next
        /\ task'[t].pending = task[t].pending /\ task'[t].error = task[t].error
    BY <1>1, <1>3, AtWork DEF Progress
  <2>4. TypeOK'
    BY <1>1, <1>3, <2>1, <2>2, AtWork DEF TypeOK
  <2>5. FreshAt(t)' /\ FiledAt(t)'
    <3>1. FreshAt(t)'
      BY <1>1, <2>3, AtWork DEF FreshAt, New
    <3>2. FiledAt(t)'
      BY <1>1, <2>1, <2>3, AtWork DEF FreshAt, FiledAt, New, Steady
    <3> QED BY <3>1, <3>2
  <2>6. ASSUME CInv PROVE EarlyAt(t)' /\ LateAt(t)' /\ ClearingAt(t)'
    <3>1. dest = None /\ task[t].from = Len(content[part'])
      BY <1>1, <1>3, <2>6, AtWork DEF EarlyAt, FreshAt, New
    <3> QED BY <1>1, <2>1, <2>3, <3>1, AtWork DEF EarlyAt, LateAt, ClearingAt, FreshAt, New, Steady
  <2>7. ASSUME CInv PROVE AllGood' /\ Finished' /\ EndsAreSeen'
    BY <1>1, <1>3, <2>3, <2>7, AtWork, ZenonT(60) DEF CInv, AllGood, Finished, EarlyAt, EndsAreSeen
  <2>8. /\ causes \subseteq causes' /\ (Known("overlap")' <=> Known("overlap"))
        /\ dest' # None => finisher' # None
    BY <1>1, <1>3 DEF Known, DInv, UInv, Named
  <2>9. \A u \in Tasks \ {t} :
           task[u].at \in New =>
               content'[u] = content[u] /\ part' # u /\ dest' # u /\ task'[t].file # u
    BY <1>1, <1>3, <2>3 DEF DInv, UInv, FreshAt
  <2> HIDE DEF DInv, CInv, FreshAt, FiledAt, Known
  <2> QED BY <1>1, <2>3, <2>4, <2>5, <2>6, <2>7, <2>8, <2>9, Local, AtWork
<1> QED BY <1>2, <1>3 DEF Open

\* Writing begins at the end of what is there, or over again.
LEMMA SeekStep ==
    ASSUME DInv, NEW t \in Tasks, Seek(t)
    PROVE  DInv'
<1> DEFINE f == task[t].file
<1>1. /\ task[t].at = "seeking"
      /\ UNCHANGED <<job, cancel, pause, part, dest, failed, crashes, finisher, causes>>
  BY DEF Seek, At, flags, history
<1>2. /\ f \in Files /\ content[f] \in Seq(Pieces \union {Hole})
      /\ task[t].pos = 0 /\ task[t].next = 1 /\ task[t].pending = None /\ ~task[t].error
  BY <1>1, AtWork DEF FiledAt, TypeOK, Progress
<1>3. CASE task[t].ranged
  <2> DEFINE pos == Len(content[f])
             next == task[t].from + 1
  <2>1. /\ task' = [task EXCEPT ![t].at = "streaming", ![t].pos = pos, ![t].next = next]
        /\ UNCHANGED content
    BY <1>3 DEF Seek
  <2>2. task[t].from \in 1..(Size - 1) /\ next \in 1..(Size + 1) /\ pos \in Nat
    <3>1. task[t].from \in 1..(Size - 1)
      BY <1>1, <1>3, AtWork DEF FiledAt
    <3> QED BY <1>2, <3>1, DownloadsAssumption
  <2>3. pos = Len(content[f]) /\ next = task[t].from + 1
    OBVIOUS
  <2> HIDE DEF pos, next
  <2>4. task' \in [Tasks -> Progress]
    BY <1>1, <2>1, <2>2, AtWork, SMTT(40) DEF Progress, Places
  <2>5. /\ \A u \in Tasks \ {t} : task'[u] = task[u]
        /\ task'[t].at = "streaming" /\ task'[t].pos = pos /\ task'[t].next = next
        /\ task'[t].url = task[t].url /\ task'[t].file = f
        /\ task'[t].pending = task[t].pending /\ task'[t].error = task[t].error
    BY <1>1, <2>1, AtWork DEF Progress
  <2>6. FreshAt(t)' /\ FiledAt(t)'
    BY <1>1, <1>2, <2>2, <2>5, AtWork DEF FreshAt, FiledAt, New, Steady
  <2>7. ASSUME CInv PROVE EarlyAt(t)' /\ LateAt(t)' /\ ClearingAt(t)' /\ EndsAreSeen'
    <3>1. dest = None /\ f = part /\ task[t].from = Len(content[part])
      BY <1>1, <2>7, AtWork DEF EarlyAt
    <3> QED BY <1>1, <1>2, <2>1, <2>2, <2>3, <2>5, <2>7, <3>1, AtWork
            DEF EarlyAt, LateAt, ClearingAt, EndsAreSeen, Steady
  <2>8. failed' \in BOOLEAN
    BY <1>1, AtWork DEF TypeOK
  <2> QED BY <1>1, <2>1, <2>4, <2>5, <2>6, <2>7, <2>8, QuietStep
<1>4. CASE ~task[t].ranged
  <2>1. /\ Goto(t, "streaming")
        /\ content' = IF task[t].from > 0 THEN [content EXCEPT ![f] = <<>>] ELSE content
    BY <1>4 DEF Seek
  <2>2. Goes(t, "streaming") /\ task' \in [Tasks -> Progress]
    BY <1>1, <2>1, AtWork, GotoGoes DEF Places
  <2>3. /\ content' \in [Files -> Seq(Pieces \union {Hole})]
        /\ content'[f] = IF task[t].from > 0 THEN <<>> ELSE content[f]
        /\ \A g \in Files \ {f} : content'[g] = content[g]
    <3>1. content \in [Files -> Seq(Pieces \union {Hole})]
      BY AtWork, <1>1 DEF TypeOK
    <3> QED BY <1>2, <2>1, <3>1
  <2>4. TypeOK'
    BY <1>1, <2>2, <2>3, AtWork DEF TypeOK
  <2>5. FreshAt(t)' /\ FiledAt(t)'
    BY <1>1, <1>2, <2>2, AtWork, ZenonT(60) DEF Goes, FreshAt, FiledAt, New, Steady
  <2>6. ASSUME CInv PROVE EarlyAt(t)' /\ LateAt(t)' /\ ClearingAt(t)'
    <3>1. dest = None /\ f = part /\ task[t].from = Len(content[part])
      BY <1>1, <2>6, AtWork DEF EarlyAt
    <3>2. Len(content'[f]) = 0
      BY <1>2, <2>3, <3>1
    <3> QED BY <1>1, <1>2, <2>2, <2>6, <3>1, <3>2, AtWork
            DEF Goes, EarlyAt, LateAt, ClearingAt, Steady
  <2>7. ASSUME CInv PROVE AllGood' /\ Finished' /\ EndsAreSeen'
    <3>1. AllGood'
      BY <2>3, <2>7 DEF CInv, AllGood
    <3> QED BY <1>1, <2>2, <2>7, <3>1, AtWork DEF Goes, Finished, EarlyAt, EndsAreSeen
  <2>8. /\ causes \subseteq causes' /\ (Known("overlap")' <=> Known("overlap"))
        /\ dest' # None => finisher' # None
    BY <1>1 DEF Known, DInv, UInv, Named
  <2>9. \A u \in Tasks \ {t} :
           task[u].at \in New =>
               content'[u] = content[u] /\ part' # u /\ dest' # u /\ task'[t].file # u
    BY <1>1, <1>2, <2>2, <2>3 DEF DInv, UInv, FreshAt, Goes, Files
  <2> HIDE DEF DInv, CInv, FreshAt, FiledAt, Known
  <2> QED BY <1>1, <2>2, <2>4, <2>5, <2>6, <2>7, <2>8, <2>9, Local, AtWork DEF Goes
<1> QED BY <1>3, <1>4

\* The pool writes the piece, or cannot.
LEMMA LandStep ==
    ASSUME DInv, NEW t \in Tasks, Land(t)
    PROVE  DInv'
<1> DEFINE w == task[t].pending
           f == task[t].file
<1>1. /\ Running(t) /\ TypeOK /\ FreshAt(t) /\ FiledAt(t) /\ w # None
      /\ task \in [Tasks -> Progress] /\ task[t] \in Progress
      /\ task[t].at \notin New \union {"seeking"}
      /\ UNCHANGED <<job, cancel, pause, part, dest, failed, crashes, finisher>>
  BY DEF DInv, UInv, TypeOK, Land, Running, FreshAt, FiledAt, flags, New
<1>2. w \in Written /\ f \in Files /\ content[f] \in Seq(Pieces \union {Hole}) /\ ~task[t].error
  BY <1>1 DEF Progress, FiledAt, TypeOK
<1>3. ASSUME CInv
      PROVE  /\ job # None /\ job.task = t /\ EarlyAt(t) /\ LateAt(t) /\ ClearingAt(t)
             /\ dest # None => finisher \in Tasks /\ finisher = t
  BY <1>1, <1>3 DEF DInv, UInv, TypeOK, CInv, Only, Named, Finished
<1>4. ASSUME NEW error \in BOOLEAN,
             task' = [task EXCEPT ![t].pending = None, ![t].error = error]
      PROVE  /\ task' \in [Tasks -> Progress]
             /\ \A u \in Tasks \ {t} : task'[u] = task[u]
             /\ task'[t].at = task[t].at /\ task'[t].url = task[t].url
             /\ task'[t].sha = task[t].sha /\ task'[t].from = task[t].from
             /\ task'[t].ranged = task[t].ranged /\ task'[t].file = f
             /\ task'[t].pos = task[t].pos /\ task'[t].next = task[t].next
             /\ task'[t].pending = None /\ task'[t].error = error
  <2>1. task' \in [Tasks -> Progress]
    BY <1>1, <1>4 DEF Progress
  <2> QED BY <1>1, <1>4, <2>1 DEF Progress
<1>5. dest' # None => finisher' # None
  BY <1>1 DEF DInv, UInv, Named
<1>6. CASE /\ content' = [content EXCEPT ![f] = Put(@, w.pos, w.piece)]
           /\ task' = [task EXCEPT ![t].pending = None]
           /\ UNCHANGED causes
  <2>1. task' = [task EXCEPT ![t].pending = None, ![t].error = FALSE]
    BY <1>1, <1>2, <1>6 DEF Progress
  <2>2. /\ task' \in [Tasks -> Progress]
        /\ \A u \in Tasks \ {t} : task'[u] = task[u]
        /\ task'[t].at = task[t].at /\ task'[t].url = task[t].url
        /\ task'[t].sha = task[t].sha /\ task'[t].from = task[t].from
        /\ task'[t].ranged = task[t].ranged /\ task'[t].file = f
        /\ task'[t].pos = task[t].pos /\ task'[t].next = task[t].next
        /\ task'[t].pending = None /\ task'[t].error = FALSE
    BY <1>4, <2>1
  <2>3. /\ content \in [Files -> Seq(Pieces \union {Hole})]
        /\ w.pos \in Nat /\ w.piece \in Pieces
    BY <1>1, <1>2 DEF TypeOK, Written
  <2>4. /\ content'[f] = Put(content[f], w.pos, w.piece)
        /\ content' \in [Files -> Seq(Pieces \union {Hole})]
        /\ \A g \in Files \ {f} : content'[g] = content[g]
    <3>1. Put(content[f], w.pos, w.piece) \in Seq(Pieces \union {Hole})
      BY <1>2, <2>3, PutType
    <3> QED BY <1>2, <1>6, <2>3, <3>1
  <2>5. TypeOK'
    BY <1>1, <1>6, <2>2, <2>4 DEF TypeOK
  <2>6. FreshAt(t)' /\ FiledAt(t)'
    BY <1>1, <1>2, <1>6, <2>2 DEF FreshAt, FiledAt, New, Steady, Known
  <2>7. ASSUME CInv
        PROVE  /\ EarlyAt(t)' /\ LateAt(t)' /\ ClearingAt(t)'
               /\ AllGood' /\ Finished' /\ EndsAreSeen'
    <3> DEFINE n == Len(content[f])
    <3>1. /\ w.pos = n /\ w.piece.at = n + 1 /\ task[t].pos = n + 1
          /\ task[t].next = task[t].pos + 1
      BY <1>1, <1>3, <2>7 DEF LateAt
    <3>2. /\ n \in Nat /\ Len(content'[f]) = n + 1 /\ DOMAIN content'[f] = 1..(n + 1)
          /\ \A i \in DOMAIN content[f] : content'[f][i] = content[f][i]
          /\ content'[f][n + 1] = w.piece
      <4>1. content'[f] = Put(content[f], Len(content[f]), w.piece)
        BY <2>4, <3>1
      <4> HIDE DEF f, w
      <4> QED BY <1>2, <2>3, <4>1, PutAtEnd
    <3>3. DOMAIN content[f] = 1..n
      BY <1>2
    <3> HIDE DEF n
    <3>4. AllGood'
      <4>1. \A i \in 1..(n + 1) : content'[f][i] # Hole /\ content'[f][i].at = i
        <5>1. w.piece # Hole
          BY <2>3, NothingAssumption
        <5>2. \A i \in 1..n : content'[f][i] # Hole /\ content'[f][i].at = i
          BY <1>2, <2>7, <3>2, <3>3 DEF CInv, AllGood
        <5> QED BY <3>1, <3>2, <5>1, <5>2
      <4> QED BY <2>4, <2>7, <3>2, <4>1 DEF CInv, AllGood
    <3>5. EarlyAt(t)' /\ ClearingAt(t)'
      BY <1>1, <1>3, <2>2, <2>7 DEF EarlyAt, ClearingAt, New
    <3>6. LateAt(t)'
      <4>1. ~(task[t].at = "renaming" /\ task[t].sha)
        BY <1>1, <1>3, <2>7 DEF LateAt
      <4>2. task[t].at \in Steady => f = part
        BY <1>3, <2>7 DEF LateAt
      <4> QED BY <1>1, <2>2, <3>1, <3>2, <4>1, <4>2 DEF LateAt, Steady
    <3>7. Finished'
      <4>1. CASE dest # None
        <5>1. /\ finisher = t /\ task[t].at \in {"clearing", "ended"} /\ f = dest
              /\ task[t].next = Size + 1 /\ job.task = t /\ ~task[t].sha
          BY <1>1, <1>3, <2>7, <4>1 DEF CInv, Finished
        <5>2. Len(content'[f]) = Size
          BY <3>1, <3>2, <5>1, DownloadsAssumption
        <5> QED BY <1>1, <2>2, <5>1, <5>2 DEF Finished
      <4> QED BY <1>1, <4>1 DEF Finished
    <3>8. EndsAreSeen'
      BY <1>1, <1>3, <1>6, <2>2, <2>7 DEF CInv, EndsAreSeen, Refreshed, Known
    <3> QED BY <3>4, <3>5, <3>6, <3>7, <3>8
  <2>8. causes \subseteq causes' /\ (Known("overlap")' <=> Known("overlap"))
    BY <1>6 DEF Known
  <2>9. \A u \in Tasks \ {t} :
           task[u].at \in New =>
               content'[u] = content[u] /\ part' # u /\ dest' # u /\ task'[t].file # u
    BY <1>1, <2>2, <2>4 DEF DInv, UInv, FreshAt, Files
  <2>10. task'[t].at # "idle"
    BY <1>1, <2>2 DEF New
  <2> HIDE DEF DInv, CInv, FreshAt, FiledAt, Known, Running
  <2> QED BY <1>1, <1>5, <2>2, <2>5, <2>6, <2>7, <2>8, <2>9, <2>10, Local
<1>7. CASE /\ task' = [task EXCEPT ![t].pending = None, ![t].error = TRUE]
           /\ causes' = IF task[t].next > Size THEN causes \union {"lost write"} ELSE causes
           /\ UNCHANGED content
  <2>2. /\ task' \in [Tasks -> Progress]
        /\ \A u \in Tasks \ {t} : task'[u] = task[u]
        /\ task'[t].at = task[t].at /\ task'[t].url = task[t].url
        /\ task'[t].sha = task[t].sha /\ task'[t].from = task[t].from
        /\ task'[t].ranged = task[t].ranged /\ task'[t].file = f
        /\ task'[t].pos = task[t].pos /\ task'[t].next = task[t].next
        /\ task'[t].pending = None /\ task'[t].error = TRUE
    BY <1>4, <1>7
  <2>5. TypeOK'
    BY <1>1, <1>7, <2>2 DEF TypeOK
  <2>6. FreshAt(t)' /\ FiledAt(t)'
    BY <1>1, <1>2, <1>7, <2>2 DEF FreshAt, FiledAt, New, Steady, Known
  <2>7. ASSUME CInv
        PROVE  /\ EarlyAt(t)' /\ LateAt(t)' /\ ClearingAt(t)'
               /\ AllGood' /\ Finished' /\ EndsAreSeen'
    <3>1. EarlyAt(t)' /\ ClearingAt(t)'
      BY <1>1, <1>3, <2>2, <2>7 DEF EarlyAt, ClearingAt, New
    <3>2. LateAt(t)'
      BY <1>1, <1>3, <1>7, <2>2, <2>7 DEF LateAt, Steady
    <3>3. AllGood'
      BY <1>7, <2>7 DEF CInv, AllGood
    <3>4. Finished'
      <4>1. CASE dest # None
        <5>1. /\ finisher = t /\ task[t].at \in {"clearing", "ended"} /\ f = dest
              /\ task[t].next = Size + 1 /\ job.task = t /\ ~task[t].sha
          BY <1>1, <1>3, <2>7, <4>1 DEF CInv, Finished
        <5>2. Known("lost write")'
          <6>1. task[t].next > Size
            BY <5>1, DownloadsAssumption
          <6> QED BY <1>7, <6>1 DEF Known
        <5> QED BY <1>1, <2>2, <5>1, <5>2 DEF Finished
      <4> QED BY <1>1, <4>1 DEF Finished
    <3>5. EndsAreSeen'
      BY <1>1, <1>3, <1>7, <2>2, <2>7 DEF CInv, EndsAreSeen, Refreshed, Known
    <3> QED BY <3>1, <3>2, <3>3, <3>4, <3>5
  <2>8. causes \subseteq causes' /\ (Known("overlap")' <=> Known("overlap"))
    BY <1>7 DEF Known
  <2>9. \A u \in Tasks \ {t} :
           task[u].at \in New =>
               content'[u] = content[u] /\ part' # u /\ dest' # u /\ task'[t].file # u
    <3>1. UNCHANGED <<content, part, dest>> /\ task'[t].file = task[t].file
      BY <1>1, <1>7, <2>2
    <3> QED BY <3>1 DEF DInv, UInv, FreshAt
  <2>10. task'[t].at # "idle"
    BY <1>1, <2>2 DEF New
  <2> HIDE DEF DInv, CInv, FreshAt, FiledAt, Known, Running
  <2> QED BY <1>1, <1>5, <2>2, <2>5, <2>6, <2>7, <2>8, <2>9, <2>10, Local
<1> QED BY <1>6, <1>7 DEF Land

\* The .part becomes the model: with a SHA-256 it is whole, without one it is
\* as long, or will be when the last piece has landed.
LEMMA RenameStep ==
    ASSUME DInv, NEW t \in Tasks, Rename(t)
    PROVE  DInv'
<1>1. /\ task[t].at = "renaming"
      /\ UNCHANGED <<job, cancel, pause, content, crashes, causes>>
  BY DEF Rename, At, flags
<1>2. CASE Fail(t) /\ UNCHANGED <<part, dest, finisher>>
  BY <1>1, <1>2, FailStep DEF flags, history
<1>3. CASE /\ part # None
           /\ dest' = part /\ part' = None /\ finisher' = t
           /\ Goto(t, "clearing")
           /\ UNCHANGED failed
  <2>1. Goes(t, "clearing") /\ task' \in [Tasks -> Progress]
    BY <1>1, <1>3, AtWork, GotoGoes DEF Places
  <2>2. TypeOK'
    BY <1>1, <1>3, <2>1, AtWork DEF TypeOK
  <2>3. FreshAt(t)' /\ FiledAt(t)'
    BY <1>1, <1>3, <2>1, AtWork DEF Goes, FreshAt, FiledAt, Known, New, Steady
  <2>4. ASSUME CInv PROVE EarlyAt(t)' /\ LateAt(t)' /\ ClearingAt(t)'
    BY <1>1, <1>3, <2>1, <2>4, AtWork DEF Goes, EarlyAt, LateAt, ClearingAt, Steady
  <2>5. ASSUME CInv PROVE AllGood' /\ Finished' /\ EndsAreSeen'
    <3>1. AllGood'
      BY <1>1, <2>5 DEF CInv, AllGood
    <3>2. EndsAreSeen'
      BY <1>1, <1>3, <2>1, <2>5, AtWork DEF Goes, EndsAreSeen
    <3>3. /\ task[t].file = part /\ task[t].next = Size + 1 /\ job.task = t
          /\ task[t].next = task[t].pos + 1 /\ task[t].pos \in Nat
          /\ task[t].pending = None /\ ~task[t].error => task[t].pos = Len(content[part])
      BY <1>1, <2>5, AtWork DEF LateAt, FiledAt, Steady, Progress
    <3>4. task[t].pending = None => Len(content[part]) = Size \/ Known("lost write")
      <4>1. task[t].pos = Size /\ task[t].next > Size
        BY <3>3, DownloadsAssumption
      <4> QED BY <1>1, <3>3, <4>1, AtWork DEF FiledAt
    <3>5. task[t].sha => task[t].pending = None /\ content[part] = Whole(task[t].url)
      BY <1>1, <2>5, AtWork DEF LateAt
    <3>6. Finished'
      BY <1>1, <1>3, <2>1, <3>3, <3>4, <3>5 DEF Goes, Finished, Known
    <3> QED BY <3>1, <3>2, <3>6
  <2>6. /\ causes \subseteq causes' /\ (Known("overlap")' <=> Known("overlap"))
        /\ dest' # None => finisher' # None
    BY <1>1, <1>3, DownloadsAssumption DEF Known, Tasks
  <2>7. \A u \in Tasks \ {t} :
           task[u].at \in New =>
               content'[u] = content[u] /\ part' # u /\ dest' # u /\ task'[t].file # u
    <3>1. \A u \in Tasks : u # None
      BY DownloadsAssumption DEF Tasks
    <3> QED BY <1>1, <1>3, <2>1, <3>1 DEF DInv, UInv, FreshAt, Goes
  <2> HIDE DEF DInv, CInv, FreshAt, FiledAt, Known
  <2> QED BY <1>1, <2>1, <2>2, <2>3, <2>4, <2>5, <2>6, <2>7, Local, AtWork DEF Goes
<1> QED BY <1>2, <1>3 DEF Rename

LEMMA RemoveStep ==
    ASSUME DInv, NEW t \in Tasks, Remove(t)
    PROVE  DInv'
<1>1. /\ task[t].at = "removing" /\ part' = None /\ Goto(t, "clearing")
      /\ UNCHANGED <<job, cancel, pause, dest, failed, content, crashes, finisher, causes>>
  BY DEF Remove, At, flags, history
<1>2. Goes(t, "clearing") /\ task' \in [Tasks -> Progress]
  BY <1>1, AtWork, GotoGoes DEF Places
<1>3. TypeOK'
  BY <1>1, <1>2, AtWork DEF TypeOK
<1>4. FreshAt(t)' /\ FiledAt(t)'
  BY <1>1, <1>2, AtWork DEF Goes, FreshAt, FiledAt, Known, New, Steady
<1>5. ASSUME CInv
      PROVE  /\ EarlyAt(t)' /\ LateAt(t)' /\ ClearingAt(t)'
             /\ AllGood' /\ Finished' /\ EndsAreSeen'
  <2>1. EarlyAt(t)' /\ LateAt(t)' /\ ClearingAt(t)'
    BY <1>1, <1>2, <1>5, AtWork, ZenonT(60) DEF Goes, EarlyAt, LateAt, FiledAt, ClearingAt, Steady
  <2>2. AllGood'
    BY <1>1, <1>5 DEF CInv, AllGood
  <2>3. Finished' /\ EndsAreSeen'
    BY <1>1, <1>2, <1>5, AtWork DEF Goes, EarlyAt, Finished, EndsAreSeen
  <2> QED BY <2>1, <2>2, <2>3
<1>6. /\ causes \subseteq causes' /\ (Known("overlap")' <=> Known("overlap"))
      /\ dest' # None => finisher' # None
  BY <1>1 DEF Known, DInv, UInv, Named
<1>7. \A u \in Tasks \ {t} :
         task[u].at \in New =>
             content'[u] = content[u] /\ part' # u /\ dest' # u /\ task'[t].file # u
  <2>1. \A u \in Tasks : u # None
    BY DownloadsAssumption DEF Tasks
  <2> QED BY <1>1, <1>2, <2>1 DEF DInv, UInv, FreshAt, Goes
<1> HIDE DEF DInv, CInv, FreshAt, FiledAt, Known
<1> QED BY <1>1, <1>2, <1>3, <1>4, <1>5, <1>6, <1>7, Local, AtWork DEF Goes

LEMMA ClearStep ==
    ASSUME DInv, NEW t \in Tasks, Clear(t)
    PROVE  DInv'
<1>1. /\ task[t].at = "clearing" /\ failed' = FALSE /\ Goto(t, "ended")
      /\ UNCHANGED <<job, cancel, pause, part, dest, content, crashes, finisher, causes>>
  BY DEF Clear, At, flags, history
<1>2. Goes(t, "ended") /\ task' \in [Tasks -> Progress]
  BY <1>1, AtWork, GotoGoes DEF Places
<1>3. TypeOK'
  BY <1>1, <1>2, AtWork DEF TypeOK
<1>4. FreshAt(t)' /\ FiledAt(t)'
  BY <1>1, <1>2, AtWork DEF Goes, FreshAt, FiledAt, Known, New, Steady
<1>5. ASSUME CInv
      PROVE  /\ EarlyAt(t)' /\ LateAt(t)' /\ ClearingAt(t)'
             /\ AllGood' /\ Finished' /\ EndsAreSeen'
  <2>1. EarlyAt(t)' /\ LateAt(t)' /\ ClearingAt(t)'
    BY <1>1, <1>2, <1>5, AtWork DEF Goes, EarlyAt, LateAt, ClearingAt, Steady
  <2>2. AllGood'
    BY <1>1, <1>5 DEF CInv, AllGood
  <2>3. Finished'
    BY <1>1, <1>2, <1>5, AtWork, ZenonT(60) DEF CInv, Goes, Finished, Known
  <2>4. EndsAreSeen'
    <3>1. dest # None \/ (part = None /\ cancel[job.task])
      BY <1>1, <1>5, AtWork DEF ClearingAt
    <3> QED BY <1>1, <3>1 DEF EndsAreSeen, Refreshed
  <2> QED BY <2>1, <2>2, <2>3, <2>4
<1>6. /\ causes \subseteq causes' /\ (Known("overlap")' <=> Known("overlap"))
      /\ dest' # None => finisher' # None
  BY <1>1 DEF Known, DInv, UInv, Named
<1>7. \A u \in Tasks \ {t} :
         task[u].at \in New =>
             content'[u] = content[u] /\ part' # u /\ dest' # u /\ task'[t].file # u
  BY <1>1, <1>2 DEF DInv, UInv, FreshAt, Goes
<1> HIDE DEF DInv, CInv, FreshAt, FiledAt, Known
<1> QED BY <1>1, <1>2, <1>3, <1>4, <1>5, <1>6, <1>7, Local, AtWork DEF Goes

LEMMA TaskStep ==
    ASSUME DInv, NEW t \in Tasks, Step(t) \/ Land(t)
    PROVE  DInv'
BY RequestStep, RespondStep, OpenStep, SeekStep, ReceiveStep, WriteStep, EndOfStreamStep,
   VerifyStep, RenameStep, RemoveStep, ClearStep, LandStep DEF Step

-----------------------------------------------------------------------------
(* The manager, and the end of the process. *)

\* A new task finds the .part as it is; if another is at work, the overlap is
\* on record.
LEMMA SpawnStep ==
    ASSUME DInv, NEW t \in Tasks, NEW url \in Urls, NEW sha \in BOOLEAN, Spawn(t, url, sha),
           dest = None, job' \in Jobs, job'.task = t, job'.status = "downloading",
           UNCHANGED <<cancel, pause, part, dest, content, crashes, finisher>>,
           failed' \in BOOLEAN
    PROVE  DInv'
<1>1. /\ task[t].at = "idle" /\ TypeOK /\ FreshAt(t) /\ FiledAt(t)
      /\ task \in [Tasks -> Progress] /\ task[t] \in Progress
      /\ task' = [task EXCEPT ![t].at = "spawned", ![t].url = url, ![t].sha = sha]
      /\ causes' = IF \E u \in Tasks : Running(u) THEN causes \union {"overlap"} ELSE causes
  BY DEF DInv, UInv, TypeOK, Spawn
<1>2. /\ task' \in [Tasks -> Progress]
      /\ \A u \in Tasks \ {t} : task'[u] = task[u]
      /\ task'[t].at = "spawned" /\ task'[t].url = url
      /\ task'[t].file = task[t].file
      /\ task'[t].pos = task[t].pos /\ task'[t].next = task[t].next
      /\ task'[t].pending = task[t].pending /\ task'[t].error = task[t].error
  <2>1. task' \in [Tasks -> Progress]
    BY <1>1 DEF Progress, Places
  <2> QED BY <1>1, <2>1 DEF Progress
<1>3. TypeOK'
  BY <1>1, <1>2 DEF TypeOK
<1>4. FreshAt(t)' /\ FiledAt(t)'
  <2>1. FreshAt(t)'
    BY <1>1, <1>2 DEF FreshAt, New
  <2>2. FiledAt(t)'
    BY <1>1, <1>2 DEF FreshAt, FiledAt, New, Steady
  <2> QED BY <2>1, <2>2
<1>5. ASSUME NEW u \in Tasks \ {t} PROVE FreshAt(u)' /\ FiledAt(u)'
  <2>1. FreshAt(u) /\ FiledAt(u)
    BY DEF DInv, UInv
  <2>2. FreshAt(u)'
    BY <1>1, <1>2, <2>1 DEF FreshAt
  <2>3. Known("lost write") => Known("lost write")'
    BY <1>1 DEF Known
  <2>4. FiledAt(u)'
    BY <1>2, <2>1, <2>3 DEF FiledAt
  <2> QED BY <2>2, <2>4
<1>6. Named'
  BY <1>2 DEF Named
<1>7. ASSUME ~Known("overlap")' PROVE CInv'
  <2>1. CInv /\ \A u \in Tasks : ~Running(u)
    BY <1>1, <1>7 DEF DInv, Known
  <2>2. \A u \in Tasks \ {t} : task'[u].at \in {"idle", "ended"} /\ task'[u].pending = None
    BY <1>2, <2>1 DEF Running
  <2>3. Only'
    BY <1>2, <2>2, NothingAssumption DEF Only, Running
  <2>4. AllGood' /\ Finished' /\ EndsAreSeen'
    BY <1>2, <2>1 DEF CInv, AllGood, Finished, EndsAreSeen
  <2>5. EarlyAt(t)' /\ LateAt(t)' /\ ClearingAt(t)'
    BY <1>1, <1>2 DEF EarlyAt, LateAt, ClearingAt, FreshAt, New, Steady
  <2>6. ASSUME NEW u \in Tasks \ {t} PROVE EarlyAt(u)' /\ LateAt(u)' /\ ClearingAt(u)'
    <3>1. task'[u].next = task'[u].pos + 1
      BY <1>2, <2>1 DEF CInv, LateAt
    <3> QED BY <2>2, <3>1 DEF EarlyAt, LateAt, ClearingAt, Steady
  <2> QED BY <2>3, <2>4, <2>5, <2>6 DEF CInv
<1> QED BY <1>3, <1>4, <1>5, <1>6, <1>7 DEF DInv, UInv

\* A flag is raised, or a refresh renames the job's status: the tasks are where
\* they were.
LEMMA FlagStep ==
    ASSUME DInv, Pause \/ Cancel \/ Refresh
    PROVE  DInv'
<1>1. /\ UNCHANGED <<task, part, dest, failed, content, crashes, finisher, causes>>
      /\ job # None /\ job \in Jobs /\ TypeOK
      /\ job.task \in Tasks
  BY DEF Pause, Cancel, Refresh, files, history, DInv, UInv, TypeOK, Jobs
<1>2. /\ job' \in Jobs /\ job' # None /\ job'.task = job.task
      /\ job'.status \in {job.status, Refreshed(job)}
  <2>1. CASE Pause \/ Cancel
    BY <1>1, <2>1 DEF Pause, Cancel
  <2>2. CASE Refresh
    <3>1. Refreshed(job) \in Statuses
      BY <1>1 DEF Refreshed, Jobs, Statuses
    <3>2. job' = [job EXCEPT !.status = Refreshed(job)]
      BY <2>2 DEF Refresh
    <3>3. job' \in Jobs /\ job'.task = job.task /\ job'.status = Refreshed(job)
      BY <1>1, <3>1, <3>2 DEF Jobs
    <3> QED BY <3>3, NothingAssumption
  <2> QED BY <2>1, <2>2
<1>3. /\ cancel' \in [Tasks -> BOOLEAN] /\ pause' \in [Tasks -> BOOLEAN]
      /\ \A t \in Tasks : (cancel[t] => cancel'[t]) /\ (pause[t] => pause'[t])
  BY <1>1 DEF Pause, Cancel, Refresh, flags, TypeOK
<1>4. TypeOK'
  BY <1>1, <1>2, <1>3 DEF TypeOK
<1>5. ASSUME NEW t \in Tasks PROVE FreshAt(t)' /\ FiledAt(t)'
  <2>1. FreshAt(t) /\ FiledAt(t)
    BY DEF DInv, UInv
  <2> QED BY <1>1, <1>3, <2>1 DEF FreshAt, FiledAt, Known
<1>6. Named'
  BY <1>1, <1>2 DEF DInv, UInv, Named
<1>7. ASSUME CInv PROVE CInv'
  <2>1. Only' /\ AllGood' /\ Finished'
    BY <1>1, <1>2, <1>7 DEF CInv, Only, Running, AllGood, Finished, Known
  <2>2. ASSUME NEW t \in Tasks PROVE EarlyAt(t)' /\ LateAt(t)' /\ ClearingAt(t)'
    <3>1. EarlyAt(t) /\ LateAt(t) /\ ClearingAt(t)
      BY <1>7 DEF CInv
    <3> QED BY <1>1, <1>3, <3>1 DEF EarlyAt, LateAt, ClearingAt
  <2>3. EndsAreSeen'
    BY <1>1, <1>2, <1>3, <1>7 DEF CInv, EndsAreSeen, Refreshed, Known
  <2> QED BY <2>1, <2>2, <2>3 DEF CInv
<1>8. Known("overlap")' <=> Known("overlap")
  BY <1>1 DEF Known
<1> QED BY <1>4, <1>5, <1>6, <1>7, <1>8 DEF DInv, UInv

LEMMA ManagerStep ==
    ASSUME DInv, Manager
    PROVE  DInv'
<1>1. ASSUME NEW url \in Urls, NEW sha \in Checks, Start(url, sha) PROVE DInv'
  <2>1. PICK t \in Tasks :
          Spawn(t, url, sha) /\ job' = [status |-> "downloading", url |-> url, sha |-> sha, task |-> t]
    BY <1>1 DEF Start
  <2>2. sha \in BOOLEAN /\ failed \in BOOLEAN
    BY DownloadsAssumption DEF DInv, UInv, TypeOK
  <2>3. job' \in Jobs /\ job'.task = t /\ job'.status = "downloading"
    BY <2>1, <2>2 DEF Jobs, Statuses
  <2> QED BY <1>1, <2>1, <2>2, <2>3, SpawnStep DEF Start, flags, files
<1>2. ASSUME Resume PROVE DInv'
  <2>1. PICK t \in Tasks :
          /\ Spawn(t, job.url, job.sha)
          /\ job' = [job EXCEPT !.status = "downloading", !.task = t]
    BY <1>2 DEF Resume
  <2>2. job \in Jobs
    BY <1>2 DEF Resume, DInv, UInv, TypeOK
  <2>3. job' \in Jobs /\ job'.task = t /\ job'.status = "downloading"
        /\ job.url \in Urls /\ job.sha \in BOOLEAN
    BY <2>1, <2>2 DEF Jobs, Statuses
  <2> QED BY <1>2, <2>1, <2>3, SpawnStep DEF Resume, flags
<1> QED BY <1>1, <1>2, FlagStep DEF Manager

\* What the process leaves behind is the files; every task has ended.
LEMMA CrashStep ==
    ASSUME DInv, Crash
    PROVE  DInv'
<1>1. /\ TypeOK /\ task \in [Tasks -> Progress]
      /\ UNCHANGED <<cancel, pause, part, dest, failed, content, finisher>>
      /\ job' = None
  BY DEF DInv, UInv, TypeOK, Crash, flags, files
<1>2. ASSUME NEW t \in Tasks
      PROVE  /\ task[t].at = "idle" => task'[t] = task[t]
             /\ task[t].at # "idle" => task'[t].at = "ended" /\ task'[t].pending = None
             /\ task'[t].pending = None
             /\ task'[t].at \in {"idle", "ended"}
             /\ task'[t] \in Progress
             /\ task'[t].url = task[t].url /\ task'[t].sha = task[t].sha
             /\ task'[t].file = task[t].file /\ task'[t].pos = task[t].pos
             /\ task'[t].next = task[t].next /\ task'[t].error = task[t].error
  <2>1. FreshAt(t) /\ task[t] \in Progress
    BY <1>1 DEF DInv, UInv
  <2>2. task'[t] = IF task[t].at = "idle" THEN Idle
                   ELSE [task[t] EXCEPT !.at = "ended", !.pending = None]
    BY DEF Crash
  <2>3. CASE task[t].at = "idle"
    BY <2>1, <2>2, <2>3 DEF FreshAt, New
  <2>4. CASE task[t].at # "idle"
    BY <2>1, <2>2, <2>4, ZenonT(60) DEF Progress, Places
  <2> QED BY <2>3, <2>4
<1>3. /\ causes' \subseteq {"overlap", "unreported", "lost write"} /\ causes \subseteq causes'
      /\ Known("overlap")' <=> Known("overlap")
      /\ \A t \in Tasks : task[t].pending # None /\ task[t].next > Size => Known("lost write")'
  BY <1>1 DEF Crash, TypeOK, Known
<1>4. TypeOK'
  <2>1. task' \in [Tasks -> Progress]
    BY <1>2 DEF Crash
  <2>2. crashes' \in 0..MaxCrashes
    <3>1. crashes \in 0..MaxCrashes /\ crashes < MaxCrashes /\ crashes' = crashes + 1
      BY <1>1 DEF Crash, TypeOK
    <3> QED BY <3>1, DownloadsAssumption
  <2> QED BY <1>1, <1>3, <2>1, <2>2 DEF TypeOK
<1>5. ASSUME NEW t \in Tasks PROVE FreshAt(t)' /\ FiledAt(t)'
  <2>1. FreshAt(t) /\ FiledAt(t)
    BY DEF DInv, UInv
  <2>2. FreshAt(t)'
    BY <1>1, <1>2, <2>1 DEF FreshAt, New
  <2>3. Known("lost write") => Known("lost write")'
    BY <1>3 DEF Known
  <2>4. FiledAt(t)'
    BY <1>2, <2>1, <2>3 DEF FiledAt, Steady
  <2> QED BY <2>2, <2>4
<1>6. Named'
  BY <1>1 DEF DInv, UInv, Named
<1>7. ASSUME CInv PROVE CInv'
  <2>1. Only'
    BY <1>2 DEF Only, Running
  <2>2. AllGood' /\ EndsAreSeen'
    BY <1>1, <1>7 DEF CInv, AllGood, EndsAreSeen
  <2>3. Finished'
    <3>1. dest # None => finisher \in Tasks
      BY <1>1 DEF DInv, UInv, TypeOK, Named
    <3>2. ASSUME dest # None
          PROVE  Len(content[dest]) = Size \/ Known("lost write")'
      <4>1. task[finisher].next > Size
        <5>1. task[finisher].next = Size + 1
          BY <1>7, <3>2 DEF CInv, Finished
        <5> QED BY <5>1, DownloadsAssumption
      <4> QED BY <1>3, <1>7, <3>1, <3>2, <4>1 DEF CInv, Finished, Known
    <3> QED BY <1>1, <1>2, <1>7, <3>1, <3>2 DEF CInv, Finished
  <2>4. ASSUME NEW t \in Tasks PROVE EarlyAt(t)' /\ LateAt(t)' /\ ClearingAt(t)'
    <3>1. LateAt(t)
      BY <1>7 DEF CInv
    <3> QED BY <1>2, <3>1 DEF EarlyAt, LateAt, ClearingAt, Steady
  <2> QED BY <2>1, <2>2, <2>3, <2>4 DEF CInv
<1> QED BY <1>3, <1>4, <1>5, <1>6, <1>7 DEF DInv, UInv

LEMMA StepDInv == DInv /\ [Next]_vars => DInv'
<1> SUFFICES ASSUME DInv, [Next]_vars PROVE DInv'
  OBVIOUS
<1>1. CASE Next
  BY <1>1, ManagerStep, CrashStep, TaskStep DEF Next
<1>2. CASE UNCHANGED vars
  <2> USE <1>2 DEF vars, flags, files, history
  <2>1. TypeOK' <=> TypeOK
    BY DEF TypeOK
  <2>2. \A t \in Tasks : (FreshAt(t)' <=> FreshAt(t)) /\ (FiledAt(t)' <=> FiledAt(t))
    BY DEF FreshAt, FiledAt, Known
  <2>3. (Named' <=> Named) /\ (Known("overlap")' <=> Known("overlap"))
    BY DEF Named, Known
  <2>4. /\ Only' <=> Only
        /\ AllGood' <=> AllGood
        /\ Finished' <=> Finished
        /\ EndsAreSeen' <=> EndsAreSeen
    BY DEF Only, Running, AllGood, Finished, EndsAreSeen, Refreshed, Known
  <2>5. \A t \in Tasks : /\ EarlyAt(t)' <=> EarlyAt(t)
                         /\ LateAt(t)' <=> LateAt(t)
                         /\ ClearingAt(t)' <=> ClearingAt(t)
    BY DEF EarlyAt, LateAt, ClearingAt
  <2> QED BY <2>1, <2>2, <2>3, <2>4, <2>5 DEF DInv, UInv, CInv
<1> QED BY <1>1, <1>2

\* The invariant of the downloads, whatever is asked, answered or cut off.
THEOREM Downloading == Spec => []DInv
BY InitDInv, StepDInv, PTL DEF Spec

-----------------------------------------------------------------------------
\* The types of the jobs, the tasks and the files.
THEOREM DownloadsTypeOK == Spec => []TypeOK
<1>1. DInv => TypeOK
  BY DEF DInv, UInv
<1> QED BY <1>1, Downloading, PTL

\* What a download leaves behind can be resumed: every piece is at its offset
\* unless a task was spawned beside an older one.
THEOREM DownloadsInPlace == Spec => []InPlace
<1>1. DInv => InPlace
  BY DEF DInv, UInv, TypeOK, CInv, AllGood, InPlace
<1> QED BY <1>1, Downloading, PTL

\* A finished model is one whole file, with the exceptions FinishedIsSound names.
THEOREM DownloadsFinishedIsSound == Spec => []FinishedIsSound
<1>1. DInv => FinishedIsSound
  <2> SUFFICES ASSUME DInv, dest # None, Settled(dest), ~Known("overlap")
               PROVE  \/ content[dest] = Whole(task[finisher].url)
                      \/ ~task[finisher].sha
                         /\ \/ Known("lost write")
                            \/ \E i \in DOMAIN content[dest] :
                                  content[dest][i].url # task[finisher].url
    BY DEF FinishedIsSound
  <2>1. CInv /\ finisher \in Tasks /\ dest \in Files /\ TypeOK
    BY DEF DInv, UInv, TypeOK, Named
  <2>2. CASE task[finisher].sha
    BY <2>1, <2>2 DEF CInv, Finished
  <2>3. ASSUME ~task[finisher].sha, ~Known("lost write"),
               \A i \in DOMAIN content[dest] : content[dest][i].url = task[finisher].url
        PROVE  content[dest] = Whole(task[finisher].url)
    <3> DEFINE c == content[dest]
               u == task[finisher].url
    <3>1. task[finisher].pending = None
      BY <2>1 DEF CInv, Finished, Settled
    <3>2. Len(c) = Size /\ c \in Seq(Pieces \union {Hole})
      BY <2>1, <2>3, <3>1 DEF CInv, Finished, TypeOK
    <3>3. \A i \in 1..Size : c[i] \in Pieces /\ c[i].at = i /\ c[i].url = u
      <4>1. DOMAIN c = 1..Size
        BY <3>2, DownloadsAssumption
      <4>2. \A i \in 1..Size : c[i] # Hole /\ c[i].at = i
        BY <2>1, <4>1 DEF CInv, AllGood
      <4>3. \A i \in 1..Size : c[i] \in Pieces \union {Hole}
        BY <3>2, <4>1
      <4> QED BY <2>3, <4>1, <4>2, <4>3
    <3> HIDE DEF c, u
    <3>4. \A i \in 1..Size : c[i] = [url |-> u, at |-> i]
      BY <3>3 DEF Pieces
    <3>5. DOMAIN c = 1..Size /\ c = [i \in DOMAIN c |-> c[i]]
      BY <3>2, DownloadsAssumption
    <3>6. c = Whole(u)
      BY <3>4, <3>5 DEF Whole
    <3> QED BY <3>6 DEF c, u
  <2> QED BY <2>2, <2>3
<1> QED BY <1>1, Downloading, PTL

\* A job whose task has ended is not shown as downloading after the next
\* refresh, with the exceptions EndsAreSeen names.
THEOREM DownloadsEndsAreSeen == Spec => []EndsAreSeen
<1>1. DInv => EndsAreSeen
  BY DEF DInv, CInv, EndsAreSeen
<1> QED BY <1>1, Downloading, PTL

\* A model that is there is never written to or replaced: what still runs then is the task that
\* renamed it, on its way to the end, so another download of the id changes nothing.  Only its last
\* write may still land, which a checked SHA-256 rules out; and an older task, spawned before it.
THEOREM DownloadsFinishedStays ==
    Spec => [][dest # None /\ (Settled(dest) \/ task[finisher].sha) /\ ~Known("overlap")
                 => dest' = dest /\ content'[dest] = content[dest]]_vars
<1>1. ASSUME DInv, Next, dest # None, Settled(dest) \/ task[finisher].sha, ~Known("overlap")
      PROVE  dest' = dest /\ content'[dest] = content[dest]
  <2>1. CInv /\ TypeOK
    BY <1>1 DEF DInv, UInv
  <2>2. CASE Manager \/ Crash
    BY <1>1, <2>2 DEF Manager, Start, Pause, Cancel, Resume, Refresh, Crash, files
  <2>3. ASSUME NEW t \in Tasks, Step(t) PROVE dest' = dest /\ content' = content
    <3>1. task[t].at \notin {"idle", "clearing", "ended"} => dest = None
      BY <2>1 DEF CInv, EarlyAt
    <3>2. task[t].at = "clearing"
      BY <1>1, <2>3, <3>1 DEF Step, Request, Respond, Open, Seek, Receive, Write, EndOfStream,
         Verify, Rename, Remove, Clear, At
    <3>3. Clear(t)
      BY <2>3, <3>2 DEF Step, Request, Respond, Open, Seek, Receive, Write, EndOfStream,
         Verify, Rename, Remove, At
    <3> QED BY <3>3 DEF Clear
  <2>4. ASSUME NEW t \in Tasks, Land(t) PROVE dest' = dest /\ content'[dest] = content[dest]
    <3>1. task[t].pending # None /\ dest' = dest /\ content \in [Files -> Seq(Pieces \union {Hole})]
          /\ dest \in Files
      BY <1>1, <2>1, <2>4 DEF Land, TypeOK
    <3>2. task[t].file # dest
      <4>1. CASE Settled(dest)
        BY <3>1, <4>1 DEF Settled
      <4>2. CASE task[finisher].sha
        <5>1. task[finisher].pending = None /\ (job # None => job.task = finisher)
          BY <1>1, <2>1, <4>2 DEF CInv, Finished
        <5>2. job # None /\ job.task = t
          BY <2>1, <3>1 DEF CInv, Only, Running
        <5> QED BY <3>1, <5>1, <5>2
      <4> QED BY <1>1, <4>1, <4>2
    <3>3. content' = content \/ \E s : content' = [content EXCEPT ![task[t].file] = s]
      BY <2>4 DEF Land
    <3> QED BY <3>1, <3>2, <3>3
  <2> QED BY <1>1, <2>2, <2>3, <2>4 DEF Next
<1>2. DInv /\ [Next]_vars =>
         [dest # None /\ (Settled(dest) \/ task[finisher].sha) /\ ~Known("overlap")
            => dest' = dest /\ content'[dest] = content[dest]]_vars
  BY <1>1
<1> QED BY <1>2, Downloading, PTL DEF Spec
=============================================================================
