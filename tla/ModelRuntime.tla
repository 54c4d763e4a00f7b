---------------------------- MODULE ModelRuntime ----------------------------
(***************************************************************************)
(* The model server (llama-server) and the requests that start, replace,   *)
(* stop, measure and use it: load_model, inference_start and the slash     *)
(* command /model through start_sidecar, unload_models, inference_stop,    *)
(* cancel_load, delete_model, recheck_model_tooling, prepare_conversation, *)
(* calibrate_model, and a chat reply or an agent run that needs it.        *)
(*                                                                         *)
(* Each client sends one request; an action is what its handler does from  *)
(* one await on a lock to the next.  runtime_update is the lock around a   *)
(* change of the model; cancel_load and delete_model do not take it.  What *)
(* is only shown to the user (last_error, the stub engine's mirror, the    *)
(* notices) and how the fit is found are left out; every server listens on *)
(* the default port, as every caller asks for it but an explicit start.    *)
(*                                                                         *)
(* A definition named ..._Wrong is the one after it with one mistake; no   *)
(* specification uses it.                                                  *)
(***************************************************************************)
EXTENDS Naturals, FiniteSets

CONSTANTS
    Clients,   \* who sends a request
    Kinds,     \* per client: the requests it may send
    Models,    \* the registered models
    Droppable, \* bound: the clients that may disconnect
    Crashing,  \* whether the model server may end by itself
    None

Starting == {"load", "start", "path", "command"}
AllKinds == Starting \union {"unload", "stop", "cancel", "delete", "recheck",
                             "prepare", "calibrate", "work"}

ASSUME RuntimeAssumption ==
    /\ IsFiniteSet(Clients) /\ IsFiniteSet(Models)
    /\ None \notin Clients \union Models
    /\ None \notin [model : Models, tooling : Models \union {None}, alive : BOOLEAN]
    /\ Kinds \in [Clients -> SUBSET AllKinds]
    /\ Droppable \subseteq Clients /\ Crashing \in BOOLEAN

VARIABLES
    lock,      \* the holder of runtime_update
    server,    \* LlamaServerManager.running: its model, its cfg.tooling, is_alive
    current,   \* ModelManager.current_id
    known,     \* the models in the registry, their weights on disk
    profiles,  \* per model: the model its tooling.json was measured on
    progress,  \* load_progress.stage
    cancelled, \* load_progress.cancel_requested
    pc,        \* per client: where its handler is
    kind,      \* per client: its request
    target,    \* per client: the model it names
    measured,  \* per client: the model its tool check or its profile is about
    strayed    \* history: a recheck measured a server it had not seen

shown == <<progress, cancelled>>
vars == <<lock, server, current, known, profiles, shown, pc, kind, target,
          measured, strayed>>

Launching == {"gpu", "plain", "cpu", "only"}
\* A process with a model's weights that is not (yet) the running server.
Holding == Launching \union {"check", "measure", "publish", "bench"}

Places == Holding \union
    {"new", "guard", "validate", "flag", "resolve", "find", "wait", "stop_old",
     "unmark", "spawn", "mark", "ready", "failed", "unload", "unload_stop", "halt",
     "halt_unmark", "cancel_stop", "cancel_say", "delete_stop", "delete_unmark",
     "delete", "snapshot", "recheck", "remeasure", "keep", "look", "again", "selected",
     "calibrate", "calibrate_stop", "calibrate_unmark", "register", "working",
     "over"}

TypeOK ==
    /\ lock \in Clients \union {None}
    /\ server \in [model : Models, tooling : Models \union {None},
                   alive : BOOLEAN] \union {None}
    /\ current \in Models \union {None}
    /\ known \subseteq Models
    /\ profiles \in [Models -> Models \union {None}]
    /\ progress \in {"idle", "validating", "loading", "checking_tools", "ready",
                     "error", "cancelled"}
    /\ cancelled \in BOOLEAN
    /\ pc \in [Clients -> Places] /\ kind \in [Clients -> AllKinds \union {None}]
    /\ target \in [Clients -> Models \union {None}]
    /\ measured \in [Clients -> Models \union {None}]
    /\ strayed \in BOOLEAN

Running(m) == [model |-> m, tooling |-> m, alive |-> TRUE]

\* Nothing runs, or a model that was loaded before.
Init ==
    /\ lock = None /\ known = Models /\ strayed = FALSE
    /\ \/ server = None /\ current = None /\ profiles = [m \in Models |-> None]
       \/ \E m \in Models :
            /\ server = Running(m) /\ current = m
            /\ profiles = [n \in Models |-> IF n = m THEN m ELSE None]
    /\ progress = "idle" /\ cancelled = FALSE
    /\ pc = [c \in Clients |-> "new"]
    /\ kind = [c \in Clients |-> None] /\ target = [c \in Clients |-> None]
    /\ measured = [c \in Clients |-> None]

-----------------------------------------------------------------------------
Working == {c \in Clients : pc[c] = "working"}
IsRunning == server # None /\ server.alive
Runs(m) == IsRunning /\ server.model = m

\* guard_agent_running: nobody is at work.
Guard == Working = {}

Goto(c, at) == pc' = [pc EXCEPT ![c] = at]
At(c, at) == pc[c] = at

Lock(c) == lock = None /\ lock' = c
Unlock(c) == lock' = IF lock = c THEN None ELSE lock

\* LlamaServerManager::stop
Stop == server' = None

UnloadAll == current' = None

\* set_progress: "validating" takes a cancel request back.
SetProgress(stage) ==
    /\ progress' = stage
    /\ cancelled' = (cancelled /\ stage # "validating")

\* What a step leaves alone.
Processes == <<server, current>>
Disk == <<known, profiles>>
Asked == <<kind, target>>

Ask(c, k, m) ==
    /\ At(c, "new") /\ k \in Kinds[c] /\ m \in Models
    /\ kind' = [kind EXCEPT ![c] = k] /\ target' = [target EXCEPT ![c] = m]

-----------------------------------------------------------------------------
(* load_model, inference_start and /model, up to start_sidecar.              *)

Load(c) ==
    /\ \E m \in Models : Ask(c, "load", m)
    /\ SetProgress("validating") /\ Goto(c, "guard")
    /\ UNCHANGED <<lock, Processes, Disk, measured, strayed>>

LoadGuard(c) ==
    /\ At(c, "guard")
    /\ IF Guard
       THEN Goto(c, "flag") /\ UNCHANGED shown
       ELSE Goto(c, "over") /\ SetProgress("error")
    /\ UNCHANGED <<lock, Processes, Disk, Asked, measured, strayed>>

\* By the id of a registered model, or by the path of a file.
Start(c) ==
    /\ \E m \in Models, k \in {"start", "path"} : Ask(c, k, m)
    /\ Goto(c, IF Guard THEN "validate" ELSE "over")
    /\ UNCHANGED <<lock, Processes, Disk, shown, measured, strayed>>

StartValidate(c) ==
    /\ At(c, "validate") /\ SetProgress("validating") /\ Goto(c, "flag")
    /\ UNCHANGED <<lock, Processes, Disk, Asked, measured, strayed>>

CheckCancelled(c) ==
    /\ At(c, "flag")
    /\ IF cancelled
       THEN Goto(c, "over") /\ SetProgress("cancelled")
       ELSE Goto(c, "resolve") /\ UNCHANGED shown
    /\ UNCHANGED <<lock, Processes, Disk, Asked, measured, strayed>>

\* inference_start returns for an unknown id with its progress as it is.
Resolve(c) ==
    /\ At(c, "resolve")
    /\ \/ kind[c] = "load" /\ SetProgress("loading") /\ Goto(c, "find")
       \/ /\ kind[c] = "path" \/ (kind[c] = "start" /\ target[c] \in known)
          /\ SetProgress("loading") /\ Goto(c, "wait")
       \/ /\ kind[c] = "start" /\ target[c] \notin known
          /\ Goto(c, "over") /\ UNCHANGED shown
    /\ UNCHANGED <<lock, Processes, Disk, Asked, measured, strayed>>

Command(c) ==
    /\ \E m \in Models : Ask(c, "command", m)
    /\ Goto(c, "find")
    /\ UNCHANGED <<lock, Processes, Disk, shown, measured, strayed>>

LoadModelById(c) ==
    /\ At(c, "find") /\ Goto(c, IF target[c] \in known THEN "wait" ELSE "failed")
    /\ UNCHANGED <<lock, Processes, Disk, shown, Asked, measured, strayed>>

-----------------------------------------------------------------------------
(* start_sidecar, with load_with_fallback and RunningSidecar::spawn.         *)

\* The guard is asked again under the lock.
TakeUpdate_Wrong(c) ==
    /\ At(c, "wait") /\ Lock(c)
    /\ Goto(c, IF target[c] \in known THEN "stop_old" ELSE "failed")
    /\ UNCHANGED <<Processes, Disk, shown, Asked, measured, strayed>>

TakeUpdate(c) ==
    /\ At(c, "wait") /\ Lock(c)
    /\ \/ /\ Guard /\ target[c] \in known /\ Goto(c, "stop_old")
       \/ Goto(c, "failed")       \* somebody works, no file, or no runtime
    /\ UNCHANGED <<Processes, Disk, shown, Asked, measured, strayed>>

StopOld(c) ==
    /\ At(c, "stop_old") /\ Stop /\ Goto(c, "unmark")
    /\ UNCHANGED <<lock, current, Disk, shown, Asked, measured, strayed>>

Unmark_Wrong(c) ==
    /\ At(c, "unmark") /\ Goto(c, "spawn")
    /\ UNCHANGED <<lock, server, current, Disk, shown, Asked, measured, strayed>>

Unmark(c) ==
    /\ At(c, "unmark") /\ UnloadAll /\ Goto(c, "spawn")
    /\ UNCHANGED <<lock, server, Disk, shown, Asked, measured, strayed>>

\* Automatic selection with a GPU tries it first; otherwise there is one try.
Spawn(c) ==
    /\ At(c, "spawn")
    /\ \/ /\ target[c] \in known
          /\ \E try \in {"gpu", "only"} : Goto(c, try)
       \/ target[c] \notin known /\ Goto(c, "failed")
    /\ UNCHANGED <<lock, Processes, Disk, shown, Asked, measured, strayed>>

\* wait_for_health: a launch that fails has killed its process.  A failure of
\* the GPU is tried again without the tuned settings, if any, then on the CPU.
Launch(c) ==
    /\ pc[c] \in Launching
    /\ \/ Goto(c, "check")
       \/ Goto(c, "failed")
       \/ pc[c] = "gpu" /\ Goto(c, "plain")
       \/ pc[c] \in {"gpu", "plain"} /\ Goto(c, "cpu")
    /\ UNCHANGED <<lock, Processes, Disk, shown, Asked, measured, strayed>>

\* tooling_for_load: a saved profile serves; a server started by path has none.
ToolingForLoad_Wrong(c) ==
    /\ At(c, "check")
    /\ LET saved == {m \in Models : profiles[m] # None} IN
       IF kind[c] = "path" \/ saved # {}
       THEN /\ measured' = [measured EXCEPT ![c] =
                 IF kind[c] = "path" THEN None ELSE profiles[CHOOSE m \in saved : TRUE]]
            /\ Goto(c, "publish") /\ UNCHANGED shown
       ELSE Goto(c, "measure") /\ SetProgress("checking_tools") /\ UNCHANGED measured
    /\ UNCHANGED <<lock, Processes, Disk, Asked, strayed>>

ToolingForLoad(c) ==
    /\ At(c, "check")
    /\ IF kind[c] = "path" \/ profiles[target[c]] # None
       THEN /\ measured' = [measured EXCEPT ![c] =
                 IF kind[c] = "path" THEN None ELSE profiles[target[c]]]
            /\ Goto(c, "publish") /\ UNCHANGED shown
       ELSE Goto(c, "measure") /\ SetProgress("checking_tools") /\ UNCHANGED measured
    /\ UNCHANGED <<lock, Processes, Disk, Asked, strayed>>

\* run_tool_check on the process this load started; it may fail, or not be saved.
RunToolCheck(c) ==
    /\ At(c, "measure") /\ Goto(c, "publish")
    /\ \/ UNCHANGED <<measured, profiles>>
       \/ /\ measured' = [measured EXCEPT ![c] = target[c]]
          /\ profiles' \in {profiles, [profiles EXCEPT ![target[c]] = target[c]]}
    /\ UNCHANGED <<lock, Processes, known, shown, Asked, strayed>>

Publish(c) ==
    /\ At(c, "publish") /\ Goto(c, "mark")
    /\ server' = [model |-> target[c], tooling |-> measured[c], alive |-> TRUE]
    /\ UNCHANGED <<lock, current, Disk, shown, Asked, measured, strayed>>

\* switch_to; it refuses a model that is no longer registered, unheard.
Mark(c) ==
    /\ At(c, "mark") /\ Unlock(c)
    /\ current' = IF kind[c] # "path" /\ target[c] \in known THEN target[c] ELSE current
    /\ Goto(c, CASE kind[c] = "prepare" -> "again"
                 [] kind[c] = "command" -> "over"
                 [] OTHER -> "ready")
    /\ UNCHANGED <<server, Disk, shown, Asked, measured, strayed>>

SayReady(c) ==
    /\ At(c, "ready") /\ SetProgress("ready") /\ Goto(c, "over")
    /\ UNCHANGED <<lock, Processes, Disk, Asked, measured, strayed>>

Fail(c) ==
    /\ At(c, "failed") /\ Unlock(c) /\ Goto(c, "over")
    /\ IF kind[c] \in {"load", "start", "path"} THEN SetProgress("error") ELSE UNCHANGED shown
    /\ UNCHANGED <<Processes, Disk, Asked, measured, strayed>>

-----------------------------------------------------------------------------
(* unload_models, inference_stop, cancel_load, delete_model.                 *)

Unload(c) ==
    /\ \E m \in Models : Ask(c, "unload", m)
    /\ Lock(c) /\ Goto(c, IF Guard THEN "unload" ELSE "failed")
    /\ UNCHANGED <<Processes, Disk, shown, measured, strayed>>

UnloadMark(c) ==
    /\ At(c, "unload") /\ UnloadAll /\ Goto(c, "unload_stop")
    /\ UNCHANGED <<lock, server, Disk, shown, Asked, measured, strayed>>

UnloadStop(c) ==
    /\ At(c, "unload_stop") /\ Stop /\ Unlock(c) /\ Goto(c, "over")
    /\ UNCHANGED <<current, Disk, shown, Asked, measured, strayed>>

InferenceStop(c) ==
    /\ \E m \in Models : Ask(c, "stop", m)
    /\ Lock(c) /\ Goto(c, IF Guard THEN "halt" ELSE "failed")
    /\ UNCHANGED <<Processes, Disk, shown, measured, strayed>>

Halt(c) ==
    /\ At(c, "halt") /\ Stop /\ Goto(c, "halt_unmark")
    /\ UNCHANGED <<lock, current, Disk, shown, Asked, measured, strayed>>

HaltUnmark(c) ==
    /\ At(c, "halt_unmark") /\ UnloadAll /\ Unlock(c) /\ Goto(c, "over")
    /\ UNCHANGED <<server, Disk, shown, Asked, measured, strayed>>

\* Three locks one after the other, none of them runtime_update, and no guard.
CancelLoad(c) ==
    /\ \E m \in Models : Ask(c, "cancel", m)
    /\ cancelled' = TRUE /\ Goto(c, "cancel_stop")
    /\ UNCHANGED <<lock, Processes, Disk, progress, measured, strayed>>

CancelStop(c) ==
    /\ At(c, "cancel_stop") /\ Stop /\ Goto(c, "cancel_say")
    /\ UNCHANGED <<lock, current, Disk, shown, Asked, measured, strayed>>

CancelSay(c) ==
    /\ At(c, "cancel_say") /\ SetProgress("cancelled") /\ Goto(c, "over")
    /\ UNCHANGED <<lock, Processes, Disk, Asked, measured, strayed>>

\* Whether its model is the loaded one is asked once, before the stop.
DeleteModel(c) ==
    /\ \E m \in Models : Ask(c, "delete", m)
    /\ Goto(c, CASE target'[c] \notin known -> "over"
                 [] current = target'[c] -> "delete_stop"
                 [] OTHER -> "delete")
    /\ UNCHANGED <<lock, Processes, Disk, shown, measured, strayed>>

DeleteStop(c) ==
    /\ At(c, "delete_stop") /\ Stop /\ Goto(c, "delete_unmark")
    /\ UNCHANGED <<lock, current, Disk, shown, Asked, measured, strayed>>

DeleteUnmark(c) ==
    /\ At(c, "delete_unmark") /\ UnloadAll /\ Goto(c, "delete")
    /\ UNCHANGED <<lock, server, Disk, shown, Asked, measured, strayed>>

\* ModelManager::remove also takes the label away.
Delete(c) ==
    /\ At(c, "delete") /\ known' = known \ {target[c]} /\ Goto(c, "over")
    /\ current' = IF current = target[c] THEN None ELSE current
    /\ UNCHANGED <<lock, server, profiles, shown, Asked, measured, strayed>>

-----------------------------------------------------------------------------
(* recheck_model_tooling.                                                    *)

\* The guard, and whether the label is this model's.
Recheck(c) ==
    /\ \E m \in Models : Ask(c, "recheck", m)
    /\ Goto(c, IF Guard /\ target'[c] \in known /\ current = target'[c]
               THEN "snapshot" ELSE "over")
    /\ UNCHANGED <<lock, Processes, Disk, shown, measured, strayed>>

\* The address and the configuration of the server, before the lock.
Snapshot(c) ==
    /\ At(c, "snapshot") /\ Goto(c, IF IsRunning THEN "recheck" ELSE "over")
    /\ UNCHANGED <<lock, Processes, Disk, shown, Asked, measured, strayed>>

TakeRecheck(c) ==
    /\ At(c, "recheck") /\ Lock(c) /\ Goto(c, "remeasure")
    /\ strayed' = (strayed \/ (IsRunning /\ server.model # target[c]))
    /\ UNCHANGED <<Processes, Disk, shown, Asked, measured>>

\* run_tool_check asks the server at the address, whichever model it has now,
\* and writes the profile beside the model of the request.  Either may fail.
Remeasure(c) ==
    /\ At(c, "remeasure")
    /\ \/ Goto(c, "failed") /\ UNCHANGED <<measured, profiles>>
       \/ /\ IsRunning /\ Goto(c, "keep")
          /\ measured' = [measured EXCEPT ![c] = server.model]
          /\ profiles' \in {profiles, [profiles EXCEPT ![target[c]] = server.model]}
    /\ UNCHANGED <<lock, Processes, known, shown, Asked, strayed>>

\* The result goes into the configuration of whatever runs.
Keep(c) ==
    /\ At(c, "keep") /\ Unlock(c) /\ Goto(c, "over")
    /\ server' = IF server = None THEN None ELSE [server EXCEPT !.tooling = measured[c]]
    /\ UNCHANGED <<current, Disk, shown, Asked, measured, strayed>>

-----------------------------------------------------------------------------
(* prepare_conversation.  Its task outlives its client.                      *)

Prepare(c) ==
    /\ \E m \in Models : Ask(c, "prepare", m)
    /\ Goto(c, IF Guard /\ target'[c] \in known THEN "look" ELSE "over")
    /\ UNCHANGED <<lock, Processes, Disk, shown, measured, strayed>>

\* The registry's label proves nothing: the path of what runs does.
Look(c) ==
    /\ At(c, "look") /\ Goto(c, IF Runs(target[c]) THEN "again" ELSE "wait")
    /\ UNCHANGED <<lock, Processes, Disk, shown, Asked, measured, strayed>>

LookAgain_Wrong(c) ==
    /\ At(c, "again") /\ Lock(c) /\ Goto(c, IF Guard THEN "selected" ELSE "failed")
    /\ UNCHANGED <<Processes, Disk, shown, Asked, measured, strayed>>

LookAgain(c) ==
    /\ At(c, "again") /\ Lock(c)
    /\ Goto(c, IF Guard /\ Runs(target[c]) THEN "selected" ELSE "failed")
    /\ UNCHANGED <<Processes, Disk, shown, Asked, measured, strayed>>

\* The stages are reported done and the session's model is recorded.
Prepared(c) ==
    /\ At(c, "selected") /\ Unlock(c) /\ Goto(c, "over")
    /\ UNCHANGED <<Processes, Disk, shown, Asked, measured, strayed>>

-----------------------------------------------------------------------------
(* calibrate_model.  The guard comes before the lock and is not repeated.    *)

Calibrate(c) ==
    /\ \E m \in Models : Ask(c, "calibrate", m)
    /\ Goto(c, IF Guard /\ target'[c] \in known THEN "calibrate" ELSE "over")
    /\ UNCHANGED <<lock, Processes, Disk, shown, measured, strayed>>

TakeCalibrate_Wrong(c) ==
    /\ At(c, "calibrate") /\ UNCHANGED lock /\ Goto(c, "calibrate_stop")
    /\ UNCHANGED <<Processes, Disk, shown, Asked, measured, strayed>>

TakeCalibrate(c) ==
    /\ At(c, "calibrate") /\ Lock(c) /\ Goto(c, "calibrate_stop")
    /\ UNCHANGED <<Processes, Disk, shown, Asked, measured, strayed>>

CalibrateStop(c) ==
    /\ At(c, "calibrate_stop") /\ Stop /\ Goto(c, "calibrate_unmark")
    /\ UNCHANGED <<lock, current, Disk, shown, Asked, measured, strayed>>

CalibrateUnmark(c) ==
    /\ At(c, "calibrate_unmark") /\ UnloadAll /\ Goto(c, "bench")
    /\ UNCHANGED <<lock, server, Disk, shown, Asked, measured, strayed>>

\* The benchmarks load the model in a process of their own, one after another.
Benchmarks(c) ==
    /\ At(c, "bench") /\ Unlock(c) /\ Goto(c, "over")
    /\ UNCHANGED <<Processes, Disk, shown, Asked, measured, strayed>>

-----------------------------------------------------------------------------
(* chat_sse and spawn_agent_run, as far as they need the runtime.            *)

\* try_lock: while the runtime changes the request is refused.
Work(c) ==
    /\ \E m \in Models : Ask(c, "work", m)
    /\ IF lock = None THEN Lock(c) /\ Goto(c, "register")
                      ELSE Goto(c, "over") /\ UNCHANGED lock
    /\ UNCHANGED <<Processes, Disk, shown, measured, strayed>>

\* Without a live server the labels are cleared and the reply says so.
RegisterWork(c) ==
    /\ At(c, "register") /\ Unlock(c)
    /\ IF IsRunning THEN Goto(c, "working") /\ UNCHANGED current
                    ELSE Goto(c, "over") /\ UnloadAll
    /\ UNCHANGED <<server, Disk, shown, Asked, measured, strayed>>

EndWork(c) ==
    /\ At(c, "working") /\ Goto(c, "over")
    /\ UNCHANGED <<lock, Processes, Disk, shown, Asked, measured, strayed>>

-----------------------------------------------------------------------------
\* A client that disconnects takes its handler along: the guard on the lock and
\* the process not yet published (kill_on_drop) go with it.  A spawned task stays.
Disconnect(c) ==
    /\ c \in Droppable /\ pc[c] \notin {"new", "over"}
    /\ kind[c] \notin {"prepare", "calibrate", "work"}
    /\ Unlock(c) /\ Goto(c, "over")
    /\ UNCHANGED <<Processes, Disk, shown, Asked, measured, strayed>>

\* The server ends by itself; the manager keeps it and finds out later.
Crash ==
    /\ Crashing /\ IsRunning
    /\ server' = [server EXCEPT !.alive = FALSE]
    /\ UNCHANGED <<lock, current, Disk, shown, pc, Asked, measured, strayed>>

Terminated == (\A c \in Clients : pc[c] \in {"new", "over"}) /\ UNCHANGED vars

Next ==
    \/ \E c \in Clients :
        \/ Load(c) \/ LoadGuard(c) \/ Start(c) \/ StartValidate(c)
        \/ CheckCancelled(c) \/ Resolve(c) \/ Command(c) \/ LoadModelById(c)
        \/ TakeUpdate(c) \/ StopOld(c) \/ Unmark(c) \/ Spawn(c) \/ Launch(c)
        \/ ToolingForLoad(c) \/ RunToolCheck(c) \/ Publish(c) \/ Mark(c)
        \/ SayReady(c) \/ Fail(c)
        \/ Unload(c) \/ UnloadMark(c) \/ UnloadStop(c)
        \/ InferenceStop(c) \/ Halt(c) \/ HaltUnmark(c)
        \/ CancelLoad(c) \/ CancelStop(c) \/ CancelSay(c)
        \/ DeleteModel(c) \/ DeleteStop(c) \/ DeleteUnmark(c) \/ Delete(c)
        \/ Recheck(c) \/ Snapshot(c) \/ TakeRecheck(c) \/ Remeasure(c) \/ Keep(c)
        \/ Prepare(c) \/ Look(c) \/ LookAgain(c) \/ Prepared(c)
        \/ Calibrate(c) \/ TakeCalibrate(c) \/ CalibrateStop(c)
        \/ CalibrateUnmark(c) \/ Benchmarks(c)
        \/ Work(c) \/ RegisterWork(c) \/ EndWork(c) \/ Disconnect(c)
    \/ Crash
    \/ Terminated

Spec == Init /\ [][Next]_vars

-----------------------------------------------------------------------------
(* Safety.                                                                   *)

\* At most one process holds a model's weights, whichever requests race: the
\* running server, one being started or checked, a benchmark (api.rs:9761).
OneServer ==
    Cardinality({c \in Clients : pc[c] \in Holding}) + (IF IsRunning THEN 1 ELSE 0) <= 1

\* The registry never names another model than the server has: an old process
\* is not relabelled as the new model (api.rs:6671).
NeverRelabelled ==
    server # None /\ current # None => server.model = current

\* A saved tool profile and the one a load goes by were measured on that model,
\* unless a recheck waited for the lock while its server was replaced.
ToolingIsItsOwn ==
    ~strayed =>
        /\ \A m \in Models : profiles[m] \in {m, None}
        /\ server # None => server.tooling \in {server.model, None}

\* While a session is told its model is ready and that is recorded, no other
\* model runs.
PreparedIsRunning ==
    \A c \in Clients : At(c, "selected") /\ server # None => server.model = target[c]

\* No request stops the server under a reply or a run that uses it: they are
\* refused (guard_agent_running).  Three come without a guard that counts: the
\* cancel of a load, the deletion of a model, and a calibration, which asks
\* before it waits for the lock.
NeverUnderWork ==
    [][Working # {} /\ server # None /\ server' = None
       => \E c \in Clients : /\ kind[c] \in {"cancel", "delete", "calibrate"}
                             /\ pc'[c] # pc[c]]_vars
=============================================================================
