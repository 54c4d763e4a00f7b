----------------------------- MODULE Generation -----------------------------
(***************************************************************************)
(* The life of a chat reply: the handler chat_sse that starts it, the      *)
(* background task that streams and saves it, the tracker that Stop and a  *)
(* superseding turn cancel it through, and the two locks they share.       *)
(*                                                                         *)
(* A task is PARKED at an await, and an abort drops it only there and only  *)
(* if it has to wait: what it waits for may be ready, and then the task    *)
(* runs on although it was aborted.  A wait for a lock may last although   *)
(* no process of this module holds it: other handlers take the same locks  *)
(* for a moment.                                                           *)
(*                                                                         *)
(* A definition named ..._Wrong is the one after it with one mistake; no   *)
(* specification uses it.                                                  *)
(***************************************************************************)
EXTENDS Naturals, FiniteSets

CONSTANTS
    Turns,        \* chat requests; each starts at most one generation
    Saved,        \* the turns that name a conversation: their reply is stored
    Stops,        \* POST /api/chat/stop requests
    Droppable,    \* requests whose connection may close before the answer
    SaveResults,  \* what add_message may return: TRUE, or TRUE and FALSE
    MaxChunks,    \* bound: chunks streamed into one reply
    MaxRounds,    \* bound: further model rounds of one reply
    None

ASSUME GenerationAssumption ==
    /\ Saved \subseteq Turns
    /\ Droppable \subseteq Turns \union Stops
    /\ Turns \intersect Stops = {}
    /\ None \notin Turns \union Stops
    /\ SaveResults \subseteq BOOLEAN /\ TRUE \in SaveResults
    /\ MaxChunks \in Nat /\ MaxRounds \in Nat

Requests == Turns \union Stops

VARIABLES
    runtime_update,  \* the turn whose handler holds the runtime_update guard
    current,         \* GenerationTracker.current
    tracker_lock,    \* the request that holds generations.write() over an await
    storage_lock,    \* the turn whose task holds the storage lock over an await
    handler,         \* per request: where its handler is
    holding,         \* per request: the generation cancel_current has taken
    kept,            \* per request: the text it took, in chunks
    task,            \* per turn: where its background task is
    abort,           \* per turn: handle.abort() was called
    cancel,          \* per turn: the cancel flag
    partial,         \* per turn: chunks in the partial text
    rounds,          \* per turn: model rounds begun after the first
    persisted,       \* per turn: the single right to store the reply is taken
    claimed,         \* per turn: it was the task that took it
    failed,          \* per turn: the stream failed
    reply            \* per turn: the stored assistant message

locks    == <<runtime_update, tracker_lock, storage_lock>>
requests == <<handler, holding, kept>>
streams  == <<partial, rounds, failed>>
rights   == <<cancel, abort, persisted, claimed>>
vars == <<locks, requests, streams, rights, current, task, reply>>

-----------------------------------------------------------------------------
NoReply   == [by |-> "nobody", text |-> 0]
Replies   == [by : {"nobody", "task", "stop", "error", "notice", "refused"},
              text : 0..(MaxChunks + 1)]

HandlerAt == {"idle", "setup", "superseding", "saving", "spawning",
              "inserting", "answered", "rejected", "dropped"}
Parked    == {"stream", "document", "wantStorage", "stored", "wantTracker"}
Polled    == {"push", "ended", "claimed", "save", "clear"}
Over      == {"finished", "aborted"}
Live(g)   == task[g] \in Parked \union Polled
\* GenerationTracker::is_active
IsActive  == current # None /\ task[current] \notin Over

TypeOK ==
    /\ runtime_update \in Turns \union {None}
    /\ current \in Turns \union {None}
    /\ tracker_lock \in Requests \union {None}
    /\ storage_lock \in Turns \union {None}
    /\ handler \in [Requests -> HandlerAt]
    /\ holding \in [Requests -> Turns \union {None}]
    /\ kept \in [Requests -> 0..(MaxChunks + 1)]
    /\ task \in [Turns -> {"none"} \union Parked \union Polled \union Over]
    /\ abort \in [Turns -> BOOLEAN]
    /\ cancel \in [Turns -> BOOLEAN]
    /\ partial \in [Turns -> 0..(MaxChunks + 1)]
    /\ rounds \in [Turns -> 0..MaxRounds]
    /\ persisted \in [Turns -> BOOLEAN]
    /\ claimed \in [Turns -> BOOLEAN]
    /\ failed \in [Turns -> BOOLEAN]
    /\ reply \in [Turns -> Replies]

Init ==
    /\ runtime_update = None
    /\ current = None
    /\ tracker_lock = None
    /\ storage_lock = None
    /\ handler = [r \in Requests |-> "idle"]
    /\ holding = [r \in Requests |-> None]
    /\ kept = [r \in Requests |-> 0]
    /\ task = [g \in Turns |-> "none"]
    /\ abort = [g \in Turns |-> FALSE]
    /\ cancel = [g \in Turns |-> FALSE]
    /\ partial = [g \in Turns |-> 0]
    /\ rounds = [g \in Turns |-> 0]
    /\ persisted = [g \in Turns |-> FALSE]
    /\ claimed = [g \in Turns |-> FALSE]
    /\ failed = [g \in Turns |-> FALSE]
    /\ reply = [g \in Turns |-> NoReply]

\* The messages table: the id is its primary key, so a second INSERT of the
\* same reply is refused; ok is FALSE when storage itself fails.
AddMessage(g, row, ok) ==
    reply' = [reply EXCEPT ![g] =
                 IF reply[g].by # "nobody" THEN @
                 ELSE IF ok THEN row
                 ELSE [by |-> "refused", text |-> 0]]

-----------------------------------------------------------------------------
(* The handler chat_sse.  It holds the runtime_update guard from its try_  *)
(* lock until it has answered, so two handlers are never past it at once.  *)

Goto(r, at) == handler' = [handler EXCEPT ![r] = at]

\* The guard is taken by somebody: 409 "The model runtime is being updated".
Reject(g) ==
    /\ handler[g] = "idle" /\ runtime_update # None
    /\ Goto(g, "rejected")
    /\ UNCHANGED <<locks, holding, kept, streams, rights, current, task, reply>>

\* try_lock succeeds and the user's message is stored.
Begin(g) ==
    /\ handler[g] = "idle" /\ runtime_update = None
    /\ runtime_update' = g
    /\ Goto(g, "setup")
    /\ UNCHANGED <<tracker_lock, storage_lock, holding, kept, streams, rights,
                   current, task, reply>>

\* A greeting, a continuation with nothing to continue, no model server: a
\* fixed answer is stored and nothing is spawned.
AnswerWithoutModel(g) ==
    /\ handler[g] = "setup" /\ storage_lock = None
    /\ \E ok \in SaveResults :
          IF g \in Saved
          THEN AddMessage(g, [by |-> "notice", text |-> 0], ok)
          ELSE UNCHANGED reply
    /\ Goto(g, "answered")
    /\ runtime_update' = None
    /\ UNCHANGED <<tracker_lock, storage_lock, holding, kept, streams, rights,
                   current, task>>

\* The running reply is not superseded.
Prepare_Wrong(g) ==
    /\ handler[g] = "setup"
    /\ Goto(g, "spawning")
    /\ UNCHANGED <<locks, holding, kept, streams, rights, current, task, reply>>

\* The request context is assembled; the running reply is superseded next.
Prepare(g) ==
    /\ handler[g] = "setup"
    /\ Goto(g, "superseding")
    /\ UNCHANGED <<locks, holding, kept, streams, rights, current, task, reply>>

\* Where a request goes once cancel_current has returned.
AfterCancel(r) == IF r \in Turns THEN "spawning" ELSE "answered"

\* cancel_current up to its only await: take the generation, flag it, abort
\* its task, claim the right to store it and copy what has streamed.
CancelCurrent(r) ==
    /\ IF r \in Turns THEN handler[r] = "superseding" ELSE handler[r] = "idle"
    /\ tracker_lock = None
    /\ IF current = None
       THEN /\ Goto(r, AfterCancel(r))
            /\ UNCHANGED <<locks, holding, kept, streams, rights, current, task, reply>>
       ELSE LET g == current
                keep == ~persisted[g] /\ g \in Saved /\ partial[g] > 0
            IN /\ current' = None
               /\ cancel' = [cancel EXCEPT ![g] = TRUE]
               /\ abort' = [abort EXCEPT ![g] = TRUE]
               /\ persisted' = [persisted EXCEPT ![g] = TRUE]
               /\ holding' = [holding EXCEPT ![r] = g]
               /\ kept' = [kept EXCEPT ![r] = IF keep THEN partial[g] ELSE 0]
               /\ tracker_lock' = IF keep THEN r ELSE None
               /\ Goto(r, IF keep THEN "saving" ELSE AfterCancel(r))
               /\ UNCHANGED <<runtime_update, storage_lock, streams, claimed,
                              task, reply>>

\* ... and from the storage lock on: store the partial, release the tracker.
SaveKept(r) ==
    /\ handler[r] = "saving" /\ storage_lock = None
    /\ \E ok \in SaveResults :
          AddMessage(holding[r], [by |-> "stop", text |-> kept[r]], ok)
    /\ tracker_lock' = None
    /\ Goto(r, AfterCancel(r))
    /\ UNCHANGED <<runtime_update, storage_lock, holding, kept, streams, rights,
                   current, task>>

\* tokio::spawn: the task may run before the generation is registered.  It
\* prepares (compaction, web search, project notes) and then streams; it can
\* be aborted at any await of either, so "stream" stands for both.
Spawn(g) ==
    /\ handler[g] = "spawning"
    /\ task' = [task EXCEPT ![g] = "stream"]
    /\ Goto(g, "inserting")
    /\ UNCHANGED <<locks, holding, kept, streams, rights, current, reply>>

\* generations.write().insert: whatever was tracked is overwritten.
Insert(g) ==
    /\ handler[g] = "inserting" /\ tracker_lock = None
    /\ current' = g
    /\ Goto(g, "answered")
    /\ runtime_update' = None
    /\ UNCHANGED <<tracker_lock, storage_lock, holding, kept, streams, rights,
                   task, reply>>

\* The connection closes while the handler waits: its future is dropped, with
\* its guards and whatever it had taken.
Disconnect(r) ==
    /\ r \in Droppable
    /\ handler[r] \in {"setup", "superseding", "saving", "inserting"}
    /\ Goto(r, "dropped")
    /\ runtime_update' = IF runtime_update = r THEN None ELSE runtime_update
    /\ tracker_lock' = IF tracker_lock = r THEN None ELSE tracker_lock
    /\ UNCHANGED <<storage_lock, holding, kept, streams, rights, current, task,
                   reply>>

-----------------------------------------------------------------------------
(* The background task. *)

Run(g, from, to) == task[g] = from /\ task' = [task EXCEPT ![g] = to]

\* A chunk wakes the task, which looks at the cancel flag first ...
Chunk(g) ==
    /\ ~cancel[g] /\ partial[g] < MaxChunks
    /\ Run(g, "stream", "push")
    /\ UNCHANGED <<locks, requests, streams, rights, current, reply>>

\* ... and on_token appends it to the partial text and to the client's stream.
Push(g) ==
    /\ Run(g, "push", "stream")
    /\ partial' = [partial EXCEPT ![g] = @ + 1]
    /\ UNCHANGED <<locks, requests, rounds, failed, rights, current, reply>>

\* The stream returned: complete, broken off by the cancel flag, or failed.
\* The text the splitter still held is decided and appended.
EndStream(g) ==
    /\ Run(g, "stream", "ended")
    /\ failed' \in {failed, [failed EXCEPT ![g] = TRUE]}
    /\ \E n \in {partial[g], partial[g] + 1} :
          n <= MaxChunks /\ partial' = [partial EXCEPT ![g] = n]
    /\ UNCHANGED <<locks, requests, rounds, rights, current, reply>>

\* Another model round: after a tool call nothing is dropped; after an
\* unreadable call or a missing document the round's text is discarded.
NextRound(g) ==
    /\ ~failed[g] /\ rounds[g] < MaxRounds
    /\ Run(g, "ended", "stream")
    /\ rounds' = [rounds EXCEPT ![g] = @ + 1]
    /\ \E n \in 0..partial[g] : partial' = [partial EXCEPT ![g] = n]
    /\ UNCHANGED <<locks, requests, failed, rights, current, reply>>

\* The flag is stored, not compared.
Claim_Wrong(g) ==
    /\ Run(g, "ended", "claimed")
    /\ claimed' = [claimed EXCEPT ![g] = TRUE]
    /\ persisted' = [persisted EXCEPT ![g] = TRUE]
    /\ UNCHANGED <<locks, requests, streams, cancel, abort, current, reply>>

\* compare_exchange on the persisted flag: Stop may have won it already.
Claim(g) ==
    /\ Run(g, "ended", "claimed")
    /\ claimed' = [claimed EXCEPT ![g] = ~persisted[g]]
    /\ persisted' = [persisted EXCEPT ![g] = TRUE]
    /\ UNCHANGED <<locks, requests, streams, cancel, abort, current, reply>>

\* A plain-text document is written first, behind awaits of its own ...
BeginDocument(g) ==
    /\ ~failed[g] /\ ~cancel[g] /\ partial[g] > 0
    /\ Run(g, "claimed", "document")
    /\ UNCHANGED <<locks, requests, streams, rights, current, reply>>

\* ... and its note is added to the reply when it could be saved.
EndDocument(g) ==
    /\ Run(g, "document", "save")
    /\ partial' \in {partial, [partial EXCEPT ![g] = @ + 1]}
    /\ UNCHANGED <<locks, requests, rounds, failed, rights, current, reply>>

NoDocument(g) ==
    /\ Run(g, "claimed", "save")
    /\ UNCHANGED <<locks, requests, streams, rights, current, reply>>

\* A cancelled reply is left to Stop even when the task holds the claim.
SkipSave_Wrong(g) ==
    /\ ~claimed[g] \/ g \notin Saved \/ cancel[g]
    /\ Run(g, "save", "clear")
    /\ UNCHANGED <<locks, requests, streams, rights, current, reply>>

\* Without the claim, or without a conversation, nothing is stored.
SkipSave(g) ==
    /\ ~claimed[g] \/ g \notin Saved
    /\ Run(g, "save", "clear")
    /\ UNCHANGED <<locks, requests, streams, rights, current, reply>>

AwaitStorage(g) ==
    /\ claimed[g] /\ g \in Saved
    /\ Run(g, "save", "wantStorage")
    /\ UNCHANGED <<locks, requests, streams, rights, current, reply>>

\* The reply is stored.  After a complete stream the storage lock is kept
\* over one more await (models.read()) for the thread's model and metrics;
\* after a failure it is released at once.
SaveReply(g) ==
    /\ storage_lock = None
    /\ Run(g, "wantStorage", IF failed[g] THEN "clear" ELSE "stored")
    /\ storage_lock' = IF failed[g] THEN None ELSE g
    /\ \E ok \in SaveResults :
          AddMessage(g, [by |-> IF failed[g] /\ partial[g] = 0 THEN "error" ELSE "task",
                         text |-> partial[g]], ok)
    /\ UNCHANGED <<runtime_update, tracker_lock, requests, streams, rights, current>>

\* The storage guard lives on to the end of the task's block.
ReleaseStorage_Wrong(g) ==
    /\ Run(g, "stored", "clear")
    /\ UNCHANGED <<locks, requests, streams, rights, current, reply>>

ReleaseStorage(g) ==
    /\ Run(g, "stored", "clear")
    /\ storage_lock' = None
    /\ UNCHANGED <<runtime_update, tracker_lock, requests, streams, rights,
                   current, reply>>

\* The done or error event is sent; generations.write() is awaited.
Signal(g) ==
    /\ Run(g, "clear", "wantTracker")
    /\ UNCHANGED <<locks, requests, streams, rights, current, reply>>

\* The tracker is emptied whichever generation it holds.
ClearIf_Wrong(g) ==
    /\ tracker_lock = None
    /\ Run(g, "wantTracker", "finished")
    /\ current' = None
    /\ UNCHANGED <<locks, requests, streams, rights, reply>>

\* clear_if: only the tracked generation's own task clears it.
ClearIf(g) ==
    /\ tracker_lock = None
    /\ Run(g, "wantTracker", "finished")
    /\ current' = IF current = g THEN None ELSE current
    /\ UNCHANGED <<locks, requests, streams, rights, reply>>

\* The aborted task's storage guard is leaked.
Abort_Wrong(g) ==
    /\ abort[g] /\ task[g] \in Parked
    /\ task' = [task EXCEPT ![g] = "aborted"]
    /\ UNCHANGED <<locks, requests, streams, rights, current, reply>>

\* The aborted task is dropped at its await, releasing what it holds.
Abort(g) ==
    /\ abort[g] /\ task[g] \in Parked
    /\ task' = [task EXCEPT ![g] = "aborted"]
    /\ storage_lock' = IF storage_lock = g THEN None ELSE storage_lock
    /\ UNCHANGED <<runtime_update, tracker_lock, requests, streams, rights,
                   current, reply>>

-----------------------------------------------------------------------------
Handler(g) ==
    \/ Reject(g) \/ Begin(g) \/ AnswerWithoutModel(g) \/ Prepare(g)
    \/ CancelCurrent(g) \/ SaveKept(g) \/ Spawn(g) \/ Insert(g)

Stop(s) == CancelCurrent(s) \/ SaveKept(s)

Streaming(g) == Chunk(g) \/ Push(g) \/ EndStream(g) \/ NextRound(g)

Finishing(g) ==
    \/ Claim(g) \/ BeginDocument(g) \/ EndDocument(g) \/ NoDocument(g)
    \/ SkipSave(g) \/ AwaitStorage(g) \/ SaveReply(g) \/ ReleaseStorage(g)
    \/ Signal(g) \/ ClearIf(g)

Next ==
    \/ \E g \in Turns : Handler(g) \/ Streaming(g) \/ Finishing(g) \/ Abort(g)
    \/ \E s \in Stops : Stop(s)
    \/ \E r \in Requests : Disconnect(r)

Spec == Init /\ [][Next]_vars

\* tokio polls every task that can run, and its locks are first come first
\* served; nothing makes a client send a request.
Fairness ==
    /\ \A g \in Turns :
          /\ WF_vars(AnswerWithoutModel(g) \/ Prepare(g) \/ CancelCurrent(g) \/ SaveKept(g)
                     \/ Spawn(g) \/ Insert(g))
          /\ WF_vars(Streaming(g) \/ Finishing(g) \/ Abort(g))
    /\ \A s \in Stops : WF_vars(SaveKept(s))

FairSpec == Spec /\ Fairness

-----------------------------------------------------------------------------
(* Properties. *)

\* Who is still going to store the reply of g.
Writers(g) ==
    {r \in Requests : handler[r] = "saving" /\ holding[r] = g}
    \union (IF claimed[g] /\ task[g] \in {"claimed", "document", "save", "wantStorage"}
            THEN {g} ELSE {})

\* The reply is stored at most once (generation.rs: "persist partial exactly
\* once"): the task, Stop and a superseding turn never both hold the right to
\* store it, and nobody holds it once it was used.
OneWriter ==
    \A g \in Turns :
        /\ Cardinality(Writers(g)) <= 1
        /\ Writers(g) # {} => persisted[g] /\ reply[g] = NoReply

\* What a finished cancel_current took over is what the conversation holds:
\* the text that had streamed when it claimed the reply, or a refused INSERT.
StopKeepsWhatItTook ==
    \A r \in Requests :
        holding[r] # None /\ kept[r] > 0 /\ handler[r] \notin {"saving", "dropped"}
            => reply[holding[r]] \in {[by |-> "stop", text |-> kept[r]],
                                      [by |-> "refused", text |-> 0]}

\* A reply the task announces as done is stored with all its text unless Stop
\* took it over first.
DoneIsStored ==
    \A g \in Saved :
        task[g] \in {"clear", "wantTracker", "finished"} /\ claimed[g]
            => \/ reply[g].by = "refused"
               \/ reply[g].by = "task" /\ reply[g].text = partial[g]
               \/ reply[g].by = "error" /\ partial[g] = 0

\* A generation that runs on after its request was answered can be stopped:
\* it is the tracked one, unless somebody already cancelled it.
NoOrphan ==
    \A g \in Turns : Live(g) /\ handler[g] = "answered" /\ ~abort[g] => current = g

\* The model server has one slot: of the generations whose request was not
\* dropped, at most one that nobody has cancelled is running, however turns,
\* stops and completions interleave.
OneLive ==
    \A g, h \in Turns :
        /\ Live(g) /\ ~abort[g] /\ handler[g] # "dropped"
        /\ Live(h) /\ ~abort[h] /\ handler[h] # "dropped"
        => g = h

\* Text of a reply that is over, that nobody stored and nobody will.
LostText(g) ==
    /\ g \in Saved /\ partial[g] > 0
    /\ task[g] \in Over /\ Writers(g) = {} /\ reply[g] = NoReply

\* cancel_current copied an empty text; the chunk that was in flight and what
\* the splitter held came after it.
LateText(g) ==
    ~claimed[g] /\ \E r \in Requests : holding[r] = g /\ kept[r] = 0

\* Text is lost in three ways only: the task had taken the right to store it
\* and was aborted before it did; the request that had taken it was dropped;
\* or it was still in flight when an empty text was copied.
LostOnlyByItsOwner ==
    \A g \in Turns : LostText(g) =>
        \/ claimed[g] /\ task[g] = "aborted"
        \/ \E r \in Requests : handler[r] = "dropped" /\ holding[r] = g
        \/ LateText(g)

\* Where the abstract reply of g is.
Phase(g) ==
    CASE reply[g].by # "nobody" -> "over"
      [] reply[g].by = "nobody" /\ task[g] = "none" -> "none"
      [] reply[g].by = "nobody" /\ task[g] # "none" /\ ~persisted[g] -> "open"
      [] OTHER -> IF Writers(g) = {} THEN "over" ELSE IF claimed[g] THEN "task" ELSE "stop"

ReplyOf == INSTANCE Reply WITH phase <- [g \in Turns |-> Phase(g)],
                               row <- [g \in Turns |-> reply[g].by]

\* The tracker, the handlers and the tasks implement the abstract reply: one
\* taker of the right, one writer, its own, and nothing after it is over.
ReplySpec == ReplyOf!Spec

\* Whoever waits for the two locks gets them: every accepted turn and every
\* stop that has to store a partial text is answered.
RequestsAreAnswered ==
    \A r \in Requests :
        handler[r] \in {"setup", "superseding", "saving", "spawning", "inserting"}
            ~> handler[r] = "answered"

\* Every generation ends and leaves the storage lock free.
EveryReplyEnds == \A g \in Turns : Live(g) ~> ~Live(g) /\ storage_lock # g
=============================================================================
