------------------------------- MODULE Locks -------------------------------
(***************************************************************************)
(* The shared state of AppState is a set of tokio locks.  A handler takes  *)
(* several of them, some while it holds others, and an await inside a      *)
(* guard's scope is where the application can stop for good.  This module  *)
(* is the locks and, for each handler that waits for a lock while it holds *)
(* another, the order in which it takes and drops them.  Handlers that     *)
(* hold one lock at a time cannot wait for one another and are left out,   *)
(* except those whose place in a queue matters.                            *)
(*                                                                         *)
(* A tokio lock is fair: a request that cannot be granted joins the queue  *)
(* of the lock and everybody after it, readers too, waits behind it.  A    *)
(* Mutex is a lock that is only written.                                   *)
(*                                                                         *)
(* A definition named ..._Wrong is the one after it with one mistake; no   *)
(* specification uses it.                                                  *)
(***************************************************************************)
EXTENDS Naturals, Sequences, FiniteSets, TLC

CONSTANTS
    Clients,   \* requests and background tasks in progress at a time
    Served,    \* the handlers they run
    Nobody

-----------------------------------------------------------------------------
(* What a handler does with the locks, in order.                             *)

Read(l)  == [do |-> "take", lock |-> l, mode |-> "read"]
Write(l) == [do |-> "take", lock |-> l, mode |-> "write"]
Try(l)   == [do |-> "try", lock |-> l, mode |-> "write"]
Drop(l)  == [do |-> "drop", lock |-> l, mode |-> Nobody]

\* A guard that lives for one statement.
Peek(l) == <<Read(l), Drop(l)>>
Poke(l) == <<Write(l), Drop(l)>>

\* cancel_current keeps GenerationTracker while it stores the partial reply.
CancelCurrent == <<Write("generations"), Write("storage"), Drop("storage"), Drop("generations")>>

\* guard_agent_running, under runtime_update.
GuardAgentRunning == Peek("generations") \o Peek("agents")

\* A chat turn: no model may be loaded until its generation is registered.
ChatSse ==
    <<Try("runtime_update")>> \o Poke("storage") \o Poke("llama") \o CancelCurrent
    \o Poke("generations") \o <<Drop("runtime_update")>>

\* The generation is cleared before the storage lock is released.
SaveReply_Wrong ==
    <<Write("storage"), Read("models"), Drop("models"),
      Write("generations"), Drop("generations"), Drop("storage")>>

\* The end of its task.
SaveReply ==
    <<Write("storage"), Read("models"), Drop("models"), Drop("storage")>> \o Poke("generations")

SpawnAgentRun ==
    <<Try("runtime_update")>> \o Poke("storage") \o Poke("agents") \o <<Drop("runtime_update")>>

StartSidecar ==
    <<Write("runtime_update")>> \o GuardAgentRunning \o Poke("llama") \o Poke("models")
    \o Poke("inference") \o Poke("storage") \o <<Drop("runtime_update")>>

PrepareConversation ==
    <<Write("runtime_update")>> \o GuardAgentRunning \o Poke("llama") \o Poke("storage")
    \o <<Drop("runtime_update")>>

InferenceStatus ==
    <<Write("llama"), Read("inference"), Read("models"), Drop("models"),
      Drop("inference"), Drop("llama")>>

\* Both guards live to the end of one expression.
SystemStatusText ==
    <<Write("llama"), Read("models"), Read("inference"), Drop("inference"),
      Drop("models"), Drop("llama")>>

\* resume_auto_approved_runs, under settings_update.
ResumeAutoApprovedRuns == Peek("agents") \o Peek("permissions")

PutPermissionMode ==
    <<Write("settings_update")>> \o Poke("storage") \o Poke("permissions")
    \o ResumeAutoApprovedRuns \o <<Drop("settings_update")>>

AwaitApproval ==
    Peek("permissions") \o <<Write("settings_update")>> \o ResumeAutoApprovedRuns
    \o <<Drop("settings_update")>>

\* A call that is not allowed is audited before the policy is released.
ExecuteTool == <<Write("permissions"), Write("storage"), Drop("storage"), Drop("permissions")>>

DeleteWorkspace == <<Write("storage"), Read("agents"), Drop("agents"), Drop("storage")>>

ExportConversation == <<Write("storage"), Read("llama"), Drop("llama"), Drop("storage")>>

ShutDown == Peek("agents") \o Poke("storage") \o CancelCurrent \o Poke("llama") \o Poke("inference")

\* The registry's guard in the head of the for loop lives as long as the loop;
\* its body asks for the registry again.
SessionAction ==
    Poke("storage") \o Peek("generations") \o CancelCurrent
    \o <<Read("agents"), Read("agents"), Drop("agents"), Drop("agents")>>

Program ==
    [chat_sse |-> ChatSse, save_reply |-> SaveReply, chat_stop |-> CancelCurrent,
     spawn_agent_run |-> SpawnAgentRun, start_sidecar |-> StartSidecar,
     prepare_conversation |-> PrepareConversation, inference_status |-> InferenceStatus,
     system_status_text |-> SystemStatusText, put_permission_mode |-> PutPermissionMode,
     await_approval |-> AwaitApproval, execute_tool |-> ExecuteTool,
     delete_workspace |-> DeleteWorkspace, export_conversation |-> ExportConversation,
     shut_down |-> ShutDown, session_action |-> SessionAction]

Handlers == DOMAIN Program
LockNames ==
    {"runtime_update", "settings_update", "generations", "permissions", "storage",
     "agents", "llama", "inference", "models"}

\* What axum drops when its client disconnects; the others are spawned tasks.
Requests == Handlers \ {"save_reply", "await_approval", "prepare_conversation", "shut_down"}

ASSUME LocksAssumption ==
    /\ IsFiniteSet(Clients) /\ Served \subseteq Handlers /\ Nobody \notin Handlers

VARIABLES
    handler,  \* per client: the handler it runs
    pc,       \* per client: the step it is at
    held,     \* per lock: its guards, each with the step that took it
    queue     \* per lock: the guards its waiters will get, first come first served

locks == <<handler, pc, held, queue>>

Guard == [client : Clients, at : 1..16, mode : {"read", "write"}]

LocksTypeOK ==
    /\ handler \in [Clients -> Served \union {Nobody}]
    /\ pc \in [Clients -> 1..16]
    /\ held \in [LockNames -> SUBSET Guard]
    /\ queue \in [LockNames -> Seq(Guard)]

LocksInit ==
    /\ handler = [c \in Clients |-> Nobody] /\ pc = [c \in Clients |-> 1]
    /\ held = [l \in LockNames |-> {}] /\ queue = [l \in LockNames |-> <<>>]

-----------------------------------------------------------------------------
Running(c) == handler[c] # Nobody
AtEnd(c) == pc[c] > Len(Program[handler[c]])
Op(c) == Program[handler[c]][pc[c]]
Waits(c) == \E l \in LockNames : \E i \in DOMAIN queue[l] : queue[l][i].client = c
Conflict(g, h) == g.mode = "write" \/ h.mode = "write"

\* A lock is free for a guard that conflicts with none of those held ...
Free(l, g) == \A h \in held[l] : ~Conflict(g, h)

Arrive(c, h) ==
    /\ ~Running(c)
    /\ handler' = [handler EXCEPT ![c] = h] /\ pc' = [pc EXCEPT ![c] = 1]
    /\ UNCHANGED <<held, queue>>

\* ... and granted at once only if nobody is waiting for it.
Take(c) ==
    /\ Running(c) /\ ~AtEnd(c) /\ ~Waits(c) /\ Op(c).do = "take"
    /\ LET l == Op(c).lock
           g == [client |-> c, at |-> pc[c], mode |-> Op(c).mode]
       IN IF queue[l] = <<>> /\ Free(l, g)
          THEN /\ held' = [held EXCEPT ![l] = @ \union {g}]
               /\ pc' = [pc EXCEPT ![c] = @ + 1]
               /\ UNCHANGED queue
          ELSE /\ queue' = [queue EXCEPT ![l] = Append(@, g)]
               /\ UNCHANGED <<held, pc>>
    /\ UNCHANGED handler

\* The first in the queue gets the lock once it is free for it.
Grant(l) ==
    /\ queue[l] # <<>> /\ Free(l, Head(queue[l]))
    /\ held' = [held EXCEPT ![l] = @ \union {Head(queue[l])}]
    /\ pc' = [pc EXCEPT ![Head(queue[l]).client] = @ + 1]
    /\ queue' = [queue EXCEPT ![l] = Tail(@)]
    /\ UNCHANGED handler

\* The handler is over: its guards go with it.
Leave(c) ==
    /\ handler' = [handler EXCEPT ![c] = Nobody] /\ pc' = [pc EXCEPT ![c] = 1]
    /\ held' = [l \in LockNames |-> {g \in held[l] : g.client # c}]

\* try_lock: the runtime is being updated, the request is refused.
TryLock(c) ==
    /\ Running(c) /\ ~AtEnd(c) /\ Op(c).do = "try"
    /\ LET l == Op(c).lock
           g == [client |-> c, at |-> pc[c], mode |-> Op(c).mode]
       IN IF queue[l] = <<>> /\ Free(l, g)
          THEN /\ held' = [held EXCEPT ![l] = @ \union {g}]
               /\ pc' = [pc EXCEPT ![c] = @ + 1]
               /\ UNCHANGED handler
          ELSE Leave(c)
    /\ UNCHANGED queue

\* The innermost of its guards on the lock goes.
Release(c) ==
    /\ Running(c) /\ ~AtEnd(c) /\ Op(c).do = "drop"
    /\ LET l == Op(c).lock
           mine == {g \in held[l] : g.client = c}
       IN held' = [held EXCEPT ![l] = @ \ {g \in mine : \A h \in mine : h.at <= g.at}]
    /\ pc' = [pc EXCEPT ![c] = @ + 1]
    /\ UNCHANGED <<handler, queue>>

Finish(c) == Running(c) /\ AtEnd(c) /\ Leave(c) /\ UNCHANGED queue

\* The sequence s without its i-th element.
Without(s, i) == SubSeq(s, 1, i - 1) \o SubSeq(s, i + 1, Len(s))

\* The client is gone: the handler's future is dropped where it waits, and its
\* place in the queue with it.
Disconnect(c) ==
    /\ handler[c] \in Requests
    /\ \E l \in LockNames : \E i \in DOMAIN queue[l] :
          /\ queue[l][i].client = c
          /\ queue' = [queue EXCEPT ![l] = Without(@, i)]
    /\ Leave(c)

LocksNext ==
    \/ \E c \in Clients :
          \/ \E h \in Served : Arrive(c, h)
          \/ Take(c) \/ TryLock(c) \/ Release(c) \/ Finish(c) \/ Disconnect(c)
    \/ \E l \in LockNames : Grant(l)

LocksSpec == LocksInit /\ [][LocksNext]_locks

-----------------------------------------------------------------------------
(* Properties.                                                               *)

\* A guard that writes is alone: SQLite's connection, the registry of runs, the
\* model server's handle are never used by two at once.
Exclusive == \A l \in LockNames : \A g, h \in held[l] : Conflict(g, h) => g = h

\* Who keeps c waiting for l: conflicting guards, its own included, and
\* everybody in front of it.
KeptBy(c, l) ==
    UNION {{g.client : g \in {h \in held[l] : Conflict(h, queue[l][i])}}
             \union {queue[l][j].client : j \in 1..(i - 1)} :
           i \in {k \in DOMAIN queue[l] : queue[l][k].client = c}}

\* However the handlers overlap, no set of them waits for one another: each
\* set of clients has one that nobody in the set keeps waiting.
NoDeadlock ==
    \A some \in (SUBSET Clients) \ {{}} :
        \E c \in some : \A l \in LockNames : KeptBy(c, l) \intersect some = {}

\* api.rs on session_action: "Stage 27 row actions (§139): pause/stop live work,
\* or reduce usage" - a stop that is asked for is carried out, so it never waits
\* for the agent registry behind someone who waits for it.
RowActionsEnd ==
    \A c \in Clients :
        handler[c] = "session_action" =>
            \A l \in LockNames : \A d \in KeptBy(c, l) : \A m \in LockNames : c \notin KeptBy(d, m)

\* For TLC: no handler tells one client from another.
Symmetry == Permutations(Clients)
=============================================================================
