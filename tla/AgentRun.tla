------------------------------ MODULE AgentRun ------------------------------
(***************************************************************************)
(* The life of an agent run around its loop: spawn_agent_run that starts   *)
(* it, the task that executes tools on the blocking pool and reports every *)
(* step, the journal task that makes the reports durable, Stop, the        *)
(* Sessions row's stop, closing, a crash, and the recovery on the next     *)
(* start.  What the loop decides is in AgentLoop, approval in Approval.    *)
(*                                                                         *)
(* As in Generation an abort drops a task only at an await that has to     *)
(* wait; the handlers run in parallel with it.                             *)
(*                                                                         *)
(* A definition named ..._Wrong is the one after it with one mistake; no   *)
(* specification uses it.                                                  *)
(***************************************************************************)
EXTENDS Naturals, Sequences, FiniteSets

CONSTANTS
    Runs,          \* agent runs of one conversation, all in one workspace
    Droppable,     \* runs whose request may be dropped before registration
    Stoppable,     \* bound: runs that may get an agent_stop request
    Silenceable,   \* runs that may be stopped from the Sessions row
    RegistrySize,  \* AgentRegistry keeps the 20 latest runs
    Using,         \* runs that use tools
    MaxLate,       \* bound: tools a run starts after it was cancelled
    MaxCrashes,    \* bound: times the process dies or closes
    None

ASSUME AgentRunAssumption ==
    /\ IsFiniteSet(Runs) /\ None \notin Runs
    /\ Droppable \subseteq Runs /\ Stoppable \subseteq Runs /\ Silenceable \subseteq Runs
    /\ Using \subseteq Runs
    /\ RegistrySize \in Nat \ {0} /\ MaxLate \in Nat /\ MaxCrashes \in Nat

VARIABLES
    up,         \* the process is running
    crashes,    \* how often it has ended
    handler,    \* per run: the spawn_agent_run that starts it
    task,       \* per run: where its task is
    end,        \* per run: the terminal state it is about to report
    cancel,     \* per run: its CancelToken
    abort,      \* per run: handle.abort() was called
    handle,     \* per run: LiveRun.handle is still there
    tool,       \* per run: its tool on the blocking pool
    late,       \* history: tools it started after it was cancelled
    queue,      \* per run: the journal channel; steps in a row are one
    live,       \* per run: state of the last of LiveRun.events
    registry,   \* AgentRegistry: the runs it holds, oldest first
    stop,       \* per run: its agent_stop request
    silenced,   \* history: runs stopped from the Sessions row
    closing,    \* AppState::shut_down
    unfinished, \* its snapshot of the registry
    writer,     \* the journal task that holds the storage lock
    content,    \* per run: its stored assistant message
    activity,   \* per run: state of its last journaled activity
    context     \* the conversation's task context

process == <<up, crashes>>
stopping == <<cancel, abort, handle, stop, silenced>>
shutdown == <<closing, unfinished>>
tools == <<tool, late>>
events == <<queue, live>>
stored == <<writer, content, activity, context>>
vars == <<process, handler, task, end, stopping, tools, events, registry, shutdown, stored>>

-----------------------------------------------------------------------------
\* FAILED and CANCELLED are one: the code treats them alike.
Terminal == {"completed", "interrupted"}
Parked   == {"model", "asked", "tool", "persist"}
Polled   == {"loop", "start", "send"}
Over     == {"over", "aborted", "gone"}

\* The storage lock while a terminal event is made durable.
Writers == [run : Runs, state : Terminal, at : {"message", "context"}]

ASSUME NothingAssumption == None \notin Writers

TypeOK ==
    /\ up \in BOOLEAN /\ crashes \in 0..MaxCrashes
    /\ handler \in [Runs -> {"idle", "registering", "gone"}]
    /\ task \in [Runs -> {"none"} \union Parked \union Polled \union Over]
    /\ end \in [Runs -> Terminal \union {"none"}]
    /\ cancel \in [Runs -> BOOLEAN] /\ abort \in [Runs -> BOOLEAN]
    /\ handle \in [Runs -> BOOLEAN]
    /\ tool \in [Runs -> {"none", "running", "done"}]
    /\ late \in [Runs -> 0..MaxLate]
    /\ queue \in [Runs -> Seq(Terminal \union {"step"})]
    /\ live \in [Runs -> {"idle", "step", "over"}]
    /\ registry \in Seq(Runs) /\ Len(registry) <= RegistrySize
    /\ stop \in [Runs -> {"idle", "acted", "done"}]
    /\ silenced \subseteq Runs
    /\ closing \in {"no", "waiting", "recorded"} /\ unfinished \subseteq Runs
    /\ writer \in Writers \union {None}
    /\ content \in [Runs -> Terminal \union {"none", "starting", "closed", "recovered"}]
    /\ activity \in [Runs -> {"none", "step", "over"}]
    /\ context \in [run : Runs \union {None},
                    status : {"none", "active", "completed", "interrupted"}]

Init ==
    /\ up = TRUE /\ crashes = 0
    /\ handler = [r \in Runs |-> "idle"] /\ task = [r \in Runs |-> "none"]
    /\ end = [r \in Runs |-> "none"]
    /\ cancel = [r \in Runs |-> FALSE] /\ abort = [r \in Runs |-> FALSE]
    /\ handle = [r \in Runs |-> FALSE]
    /\ tool = [r \in Runs |-> "none"]
    /\ late = [r \in Runs |-> 0]
    /\ queue = [r \in Runs |-> <<>>] /\ live = [r \in Runs |-> "idle"]
    /\ registry = <<>>
    /\ stop = [r \in Runs |-> "idle"] /\ silenced = {}
    /\ closing = "no" /\ unfinished = {}
    /\ writer = None
    /\ content = [r \in Runs |-> "none"] /\ activity = [r \in Runs |-> "none"]
    /\ context = [run |-> None, status |-> "none"]

\* Once shut_down has returned axum takes no request any more.  What comes
\* between its record and its return is left out.
Accepting == up /\ closing # "recorded"

Registered(r) == \E i \in DOMAIN registry : registry[i] = r
Goto(r, at) == task' = [task EXCEPT ![r] = at]

\* Whether an event is terminal is all that its readers ask.
Kind(e) == IF e \in Terminal THEN "over" ELSE e

\* LiveRun::emit: onto the journal channel, then onto LiveRun.events.  A row
\* of steps waits as one in the channel.
Emit(r, e) ==
    /\ queue' = [queue EXCEPT ![r] =
                    IF e = "step" /\ @ # <<>> /\ @[Len(@)] = "step" THEN @ ELSE Append(@, e)]
    /\ live' = [live EXCEPT ![r] = Kind(e)]
Step(r) == Emit(r, "step")

-----------------------------------------------------------------------------
(* spawn_agent_run. *)

\* The placeholder and the task context are stored, the task is spawned.  The
\* handler holds runtime_update: there is one at a time.
Begin(r) ==
    /\ Accepting /\ handler[r] = "idle" /\ writer = None
    /\ \A o \in Runs : handler[o] # "registering"
    /\ handler' = [handler EXCEPT ![r] = "registering"]
    /\ content' = [content EXCEPT ![r] = "starting"]
    /\ context' = [run |-> r, status |-> "active"]
    /\ handle' = [handle EXCEPT ![r] = TRUE]
    /\ Goto(r, "loop")
    /\ UNCHANGED <<process, end, cancel, abort, stop, silenced, tools, events,
                   registry, shutdown, writer, activity>>

\* AgentRegistry::insert: the oldest run leaves a full registry.  agent_stop
\* reads the registry until it has answered.
Register(r) ==
    /\ up /\ handler[r] = "registering"
    /\ \A o \in Runs : stop[o] # "acted"
    /\ handler' = [handler EXCEPT ![r] = "gone"]
    /\ registry' = Append(IF Len(registry) = RegistrySize THEN Tail(registry) ELSE registry, r)
    /\ UNCHANGED <<process, task, end, stopping, tools, events, shutdown, stored>>

\* The request is dropped while it waits to register the run.
DropHandler(r) ==
    /\ up /\ handler[r] = "registering" /\ r \in Droppable
    /\ handler' = [handler EXCEPT ![r] = "gone"]
    /\ UNCHANGED <<process, task, end, stopping, tools, events, registry, shutdown, stored>>

-----------------------------------------------------------------------------
(* The run's task. *)

\* No model server: the reason is stored first.
ServerGone(r) ==
    /\ up /\ task[r] = "loop"
    /\ end' = [end EXCEPT ![r] = "interrupted"]
    /\ Goto(r, "persist")
    /\ UNCHANGED <<process, handler, stopping, tools, events, registry, shutdown, stored>>

\* A panic: run_loop is unwound, then catch_unwind reports it.
Panic(r) ==
    /\ up /\ task[r] \in {"loop", "model", "start"}
    /\ end' = [end EXCEPT ![r] = "interrupted"]
    /\ Goto(r, "send")
    /\ UNCHANGED <<process, handler, stopping, tools, events, registry,
                   shutdown, stored>>

\* The top of the loop does not look at the token.
Top_Wrong(r) ==
    /\ up /\ task[r] = "loop"
    /\ Step(r) /\ Goto(r, "model")
    /\ UNCHANGED <<process, handler, end, stopping, tools, registry, shutdown, stored>>

\* The top of the loop: a cancelled run ends itself, another reports
\* "Preparing the next action" and asks the model.
Top(r) ==
    /\ up /\ task[r] = "loop"
    /\ \/ /\ cancel[r]
          /\ end' = [end EXCEPT ![r] = "interrupted"] /\ Goto(r, "send")
          /\ UNCHANGED events
       \/ ~cancel[r] /\ Step(r) /\ Goto(r, "model") /\ UNCHANGED end
    /\ UNCHANGED <<process, handler, stopping, tools, registry, shutdown, stored>>

\* The request failed and the run is cancelled; or the loop decides that the
\* run is over and stores its last word first.
EndRun(r) ==
    /\ up /\ task[r] = "model"
    /\ \/ cancel[r] /\ end' = [end EXCEPT ![r] = "interrupted"] /\ Goto(r, "send")
       \/ \E e \in {"completed", "interrupted"} :
             end' = [end EXCEPT ![r] = e] /\ Goto(r, "persist")
    /\ UNCHANGED <<process, handler, stopping, tools, events, registry, shutdown, stored>>

\* A reply that asks for no tool, or for one that is refused: another step.
Again(r) ==
    /\ up /\ task[r] = "model"
    /\ Step(r) /\ Goto(r, "loop")
    /\ UNCHANGED <<process, handler, end, stopping, tools, registry, shutdown, stored>>

\* The permission gate: the tool of the reply is allowed ...
Allow(r) ==
    /\ up /\ task[r] = "model" /\ r \in Using
    /\ Goto(r, "start")
    /\ UNCHANGED <<process, handler, end, stopping, tools, events, registry, shutdown, stored>>

\* ... or the user is asked: await_approval reports WAITING_PERMISSION ...
AwaitApproval(r) ==
    /\ up /\ task[r] = "model" /\ r \in Using
    /\ Step(r) /\ Goto(r, "asked")
    /\ UNCHANGED <<process, handler, end, stopping, tools, registry, shutdown, stored>>

\* ... until the user answers, or Stop answers for them in a task that was not
\* waiting yet when it was aborted.
Decide(r) ==
    /\ up /\ task[r] = "asked"
    /\ \/ Registered(r) /\ Goto(r, "start") /\ UNCHANGED events
       \/ (Registered(r) \/ stop[r] # "idle") /\ Goto(r, "loop") /\ Step(r)
    /\ UNCHANGED <<process, handler, end, stopping, tools, registry, shutdown, stored>>

\* "tool_started" is reported and the tool goes to the blocking pool.
StartTool(r) ==
    /\ up /\ task[r] = "start" /\ (cancel[r] => late[r] < MaxLate)
    /\ Step(r) /\ Goto(r, "tool")
    /\ tool' = [tool EXCEPT ![r] = "running"]
    /\ late' = [late EXCEPT ![r] = IF cancel[r] THEN @ + 1 ELSE @]
    /\ UNCHANGED <<process, handler, end, stopping, registry, shutdown, stored>>

\* The blocking pool knows nothing of aborts.
FinishTool(r) ==
    /\ up /\ tool[r] = "running"
    /\ tool' = [tool EXCEPT ![r] = "done"]
    /\ UNCHANGED <<process, handler, task, end, stopping, late, events,
                   registry, shutdown, stored>>

\* The result is audited and reported; the loop goes on or has seen enough.
Observe(r) ==
    /\ up /\ task[r] = "tool" /\ tool[r] = "done"
    /\ tool' = [tool EXCEPT ![r] = "none"]
    /\ Step(r)
    /\ \/ Goto(r, "loop") /\ UNCHANGED end
       \/ Goto(r, "persist") /\ end' = [end EXCEPT ![r] = "interrupted"]
    /\ UNCHANGED <<process, handler, stopping, late, registry, shutdown, stored>>

\* persist_final.
Persist(r) ==
    /\ up /\ task[r] = "persist" /\ writer = None
    /\ content' = [content EXCEPT ![r] = end[r]]
    /\ Goto(r, "send")
    /\ UNCHANGED <<process, handler, end, stopping, tools, events, registry, shutdown,
                   writer, activity, context>>

\* The terminal event, and run_loop has returned.
SendEnd(r) ==
    /\ up /\ task[r] = "send"
    /\ Emit(r, end[r]) /\ Goto(r, "over")
    /\ end' = [end EXCEPT ![r] = "none"]
    /\ UNCHANGED <<process, handler, stopping, tools, registry,
                   shutdown, stored>>

\* The aborted task is dropped where it waits.
Abort(r) ==
    /\ up /\ abort[r] /\ task[r] \in Parked
    /\ Goto(r, "aborted")
    /\ end' = [end EXCEPT ![r] = "none"]
    /\ UNCHANGED <<process, handler, stopping, tools, events, registry,
                   shutdown, stored>>

-----------------------------------------------------------------------------
(* The journal task of a run: it owns the receiving end of the channel and   *)
(* outlives the run.                                                         *)

\* record_message_activity.  After a terminal event the storage lock is kept
\* for two more statements; the process may end before each.
JournalTake(r) ==
    /\ up /\ writer = None /\ queue[r] # <<>>
    /\ activity' = [activity EXCEPT ![r] = Kind(Head(queue[r]))]
    /\ queue' = [queue EXCEPT ![r] = Tail(@)]
    /\ writer' = IF Head(queue[r]) \in Terminal
                 THEN [run |-> r, state |-> Head(queue[r]), at |-> "message"]
                 ELSE None
    /\ UNCHANGED <<process, handler, task, end, stopping, tools, live, registry,
                   shutdown, content, context>>

JournalMessage(r) ==
    /\ up /\ writer # None /\ writer.run = r /\ writer.at = "message"
    /\ content' = [content EXCEPT ![r] = writer.state]
    /\ writer' = [writer EXCEPT !.at = "context"]
    /\ UNCHANGED <<process, handler, task, end, stopping, tools, events, registry,
                   shutdown, activity, context>>

\* finish_task_context without "AND run_id=?".
JournalContext_Wrong(r) ==
    /\ up /\ writer # None /\ writer.run = r /\ writer.at = "context"
    /\ context' = [context EXCEPT !.status = writer.state]
    /\ writer' = None
    /\ UNCHANGED <<process, handler, task, end, stopping, tools, events, registry,
                   shutdown, content, activity>>

\* finish_task_context: only if no later run took the conversation over.
JournalContext(r) ==
    /\ up /\ writer # None /\ writer.run = r /\ writer.at = "context"
    /\ context' = IF context.run = r
                  THEN [context EXCEPT !.status = writer.state]
                  ELSE context
    /\ writer' = None
    /\ UNCHANGED <<process, handler, task, end, stopping, tools, events, registry,
                   shutdown, content, activity>>

-----------------------------------------------------------------------------
(* Stopping: agent_stop, and the Sessions row's session_action.              *)

CancelAndAbort(r) ==
    /\ cancel' = [cancel EXCEPT ![r] = TRUE]
    /\ abort' = [abort EXCEPT ![r] = @ \/ handle[r]]
    /\ handle' = [handle EXCEPT ![r] = FALSE]

\* A run already in a terminal state is left alone.  Bound: one request a run.
StopAct(r) ==
    /\ Accepting /\ r \in Stoppable /\ stop[r] = "idle" /\ Registered(r) /\ live[r] # "over"
    /\ CancelAndAbort(r)
    /\ stop' = [stop EXCEPT ![r] = "acted"]
    /\ UNCHANGED <<process, handler, task, end, silenced, tools, events, registry,
                   shutdown, stored>>

\* agent_stop forgets to report the end of the run it aborted.
StopEmit_Wrong(r) ==
    /\ up /\ stop[r] = "acted"
    /\ stop' = [stop EXCEPT ![r] = "done"]
    /\ UNCHANGED <<process, handler, task, end, cancel, abort, handle, silenced, tools,
                   events, registry, shutdown, stored>>

\* agent_stop emits CANCELLED for the run.
StopEmit(r) ==
    /\ up /\ stop[r] = "acted"
    /\ Emit(r, "interrupted")
    /\ stop' = [stop EXCEPT ![r] = "done"]
    /\ UNCHANGED <<process, handler, task, end, cancel, abort, handle, silenced, tools,
                   registry, shutdown, stored>>

\* The Sessions row's stop: the same cancel and abort, and nothing is emitted.
SessionStop(r) ==
    /\ Accepting /\ r \in Silenceable /\ Registered(r) /\ live[r] = "step"
    /\ CancelAndAbort(r)
    /\ silenced' = silenced \union {r}
    /\ UNCHANGED <<process, handler, task, end, stop, tools, events, registry,
                   shutdown, stored>>

-----------------------------------------------------------------------------
(* The end of the process.                                                   *)

\* shut_down: every unfinished run is cancelled ...
CloseBegin ==
    /\ up /\ closing = "no" /\ crashes < MaxCrashes
    /\ closing' = "waiting"
    /\ unfinished' = {r \in Runs : Registered(r) /\ live[r] # "over"}
    /\ cancel' = [r \in Runs |-> cancel[r] \/ r \in unfinished']
    /\ UNCHANGED <<process, handler, task, end, abort, handle, stop, silenced, tools,
                   events, registry, stored>>

\* ... its handle is taken and awaited, two seconds at most for all of them ...
CloseTake(r) ==
    /\ up /\ closing = "waiting" /\ r \in unfinished /\ handle[r]
    /\ handle' = [handle EXCEPT ![r] = FALSE]
    /\ UNCHANGED <<process, handler, task, end, cancel, abort, stop, silenced, tools,
                   events, registry, shutdown, stored>>

\* ... and it is recorded as interrupted, whatever it did meanwhile.
CloseRecord ==
    /\ up /\ closing = "waiting" /\ writer = None
    /\ \A r \in unfinished : ~handle[r]
    /\ content' = [r \in Runs |-> IF r \in unfinished THEN "closed" ELSE content[r]]
    /\ context' = IF context.run \in unfinished
                  THEN [context EXCEPT !.status = "interrupted"] ELSE context
    /\ closing' = "recorded" /\ unfinished' = {}
    /\ UNCHANGED <<process, handler, task, end, stopping, tools, events, registry,
                   writer, activity>>

\* A crash, or the exit, which does not wait for shut_down if the system ends
\* the process first: everything but the database is lost.
Crash ==
    /\ up /\ crashes < MaxCrashes
    /\ up' = FALSE /\ crashes' = crashes + 1
    /\ handler' = [r \in Runs |-> IF handler[r] = "registering" THEN "gone" ELSE handler[r]]
    /\ task' = [r \in Runs |-> IF task[r] = "none" THEN "none" ELSE "gone"]
    /\ end' = [r \in Runs |-> "none"] /\ cancel' = [r \in Runs |-> FALSE]
    /\ abort' = [r \in Runs |-> FALSE] /\ handle' = [r \in Runs |-> FALSE]
    /\ late' = [r \in Runs |-> 0]
    /\ stop' = [r \in Runs |-> IF stop[r] = "idle" THEN "idle" ELSE "done"]
    /\ tool' = [r \in Runs |-> "none"]
    /\ queue' = [r \in Runs |-> <<>>] /\ live' = [r \in Runs |-> "idle"]
    /\ registry' = <<>> /\ writer' = None
    /\ closing' = "no" /\ unfinished' = {}
    /\ UNCHANGED <<silenced, content, activity, context>>

\* Every message of an interrupted activity is replaced, not just a placeholder.
Restart_Wrong ==
    /\ ~up /\ up' = TRUE
    /\ context' = IF context.status = "active"
                  THEN [context EXCEPT !.status = "interrupted"] ELSE context
    /\ activity' = [r \in Runs |-> IF activity[r] = "step" THEN "over" ELSE activity[r]]
    /\ content' = [r \in Runs |-> IF activity[r] = "step" THEN "recovered" ELSE content[r]]
    /\ UNCHANGED <<crashes, handler, task, end, stopping, tools, events, registry,
                   shutdown, writer>>

\* recover_interrupted_activity when the database is opened again.
Restart ==
    /\ ~up /\ up' = TRUE
    /\ context' = IF context.status = "active"
                  THEN [context EXCEPT !.status = "interrupted"] ELSE context
    /\ activity' = [r \in Runs |-> IF activity[r] = "step" THEN "over" ELSE activity[r]]
    /\ content' = [r \in Runs |-> IF activity[r] = "step" /\ content[r] = "starting"
                                  THEN "recovered" ELSE content[r]]
    /\ UNCHANGED <<crashes, handler, task, end, stopping, tools, events, registry,
                   shutdown, writer>>

-----------------------------------------------------------------------------
Task(r) ==
    \/ ServerGone(r) \/ Panic(r) \/ Top(r) \/ EndRun(r) \/ Again(r) \/ Allow(r)
    \/ AwaitApproval(r) \/ Decide(r) \/ StartTool(r)
    \/ Observe(r) \/ Persist(r) \/ SendEnd(r) \/ Abort(r)

Next ==
    \/ \E r \in Runs :
          \/ Begin(r) \/ Register(r) \/ DropHandler(r)
          \/ Task(r) \/ FinishTool(r)
          \/ JournalTake(r) \/ JournalMessage(r) \/ JournalContext(r)
          \/ StopAct(r) \/ StopEmit(r) \/ SessionStop(r)
          \/ CloseTake(r)
    \/ CloseBegin \/ CloseRecord \/ Crash \/ Restart

Spec == Init /\ [][Next]_vars

-----------------------------------------------------------------------------
(* Properties.                                                               *)

\* Nothing of run r is still on its way to the database.
Settled(r) ==
    /\ up /\ task[r] \in Over /\ queue[r] = <<>>
    /\ writer = None \/ writer.run # r
    /\ stop[r] # "acted"

\* The record of a run that left nothing pending does not say it goes on.
Recorded(r) ==
    /\ content[r] = "starting" => task[r] = "gone" /\ activity[r] # "step"
    /\ context.run = r => context.status # "active"

\* Once a run is over and its journal is drained, its message and the
\* conversation's task context say so, whether it ended itself, was stopped,
\* panicked, was cut short by closing or died with the process.  Of the last,
\* one whose journal had not begun, or had just taken its terminal event, keeps
\* the placeholder message: recovery looks for unfinished journals.  Runs stopped from
\* the Sessions row are left out: nothing records their end.
OverIsRecorded == \A r \in Runs \ silenced : Settled(r) => Recorded(r)

\* The task context says "completed" only of a run whose last word is stored: a
\* run that ends late cannot mark a later one done, and a crash between the
\* journal's statements leaves no context ahead of its message.
RecordsAgree ==
    writer = None /\ context.status = "completed"
        => content[context.run] \in Terminal \union {"closed"}

\* After Stop, or closing, has cancelled a run at most one more tool starts:
\* the call the loop was about to make.
AtMostOneToolAfterCancel == \A r \in Runs : late[r] <= 1

\* What the database says of the runs keeps the promises of RunRecord: a task
\* context follows the message of its own run, a message that is there never
\* goes back to its placeholder, and what the recovery wrote stays, whatever
\* run, Stop, closing or crash wrote it.
Record == INSTANCE RunRecord WITH message <- content
RecordSpec == Record!Spec
=============================================================================
