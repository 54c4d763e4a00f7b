--------------------------- MODULE FitPreparation ---------------------------
(***************************************************************************)
(* The search for each model's fit ahead of its first load: the task of    *)
(* spawn_fit_preparation and its running and rerun flags, prepare_fits     *)
(* over the models, and the loads and calibrations that cancel it.         *)
(*                                                                         *)
(* Each caller makes one request: a trigger alone (start, scan, settings), *)
(* an unload, a load or a calibration.  The task a trigger spawns goes by  *)
(* the caller's name.  Every atomic operation is an action: the task and   *)
(* the handlers run on different threads.                                  *)
(*                                                                         *)
(* A definition named ..._Wrong is the one after it with one mistake; no   *)
(* specification uses it.                                                  *)
(***************************************************************************)
EXTENDS Naturals, FiniteSets

CONSTANTS
    Callers,  \* who makes a request
    Kinds,    \* per caller: what it may be
    Models,   \* the models a fit is searched for
    None

ASSUME FitAssumption ==
    /\ IsFiniteSet(Callers) /\ IsFiniteSet(Models) /\ None \notin Callers
    /\ Kinds \in [Callers -> SUBSET {"trigger", "unload", "load", "calibrate"}]

VARIABLES
    running, rerun, searching, \* the flags of FitPreparation
    generation, \* FitPreparation.generation: how often it was cancelled
    lock,       \* the holder of runtime_update
    loaded,     \* whether a model server runs
    prepared,   \* the models whose fit is up to date
    pc, kind,   \* per caller: where it is and what it asked for
    task,       \* per caller: where the task it spawned is
    todo,       \* per task: the models left in its pass
    seen,       \* per task: the generation it read for this model
    waiter,     \* per task: its wait for the cancel: none, armed, notified
    asked,      \* history: the triggers no pass has started for
    missed,     \* history: a trigger set rerun when nobody was left to read it
    slipped,    \* history: a search was let in behind a cancel
    cutShort    \* history: a pass ended for a load that left nothing loaded

flags == <<running, rerun, searching, generation>>
runtime == <<lock, loaded>>
caller == <<pc, kind>>
pass == <<todo, seen, waiter>>
history == <<missed, slipped, cutShort>>
vars == <<flags, runtime, prepared, caller, task, pass, asked, history>>

TypeOK ==
    /\ running \in BOOLEAN /\ rerun \in BOOLEAN /\ searching \in BOOLEAN
    /\ generation \in 0..Cardinality(Callers)
    /\ lock \in Callers \union {None} /\ loaded \in BOOLEAN
    /\ prepared \subseteq Models
    /\ pc \in [Callers -> {"new", "swap", "late", "add", "notify", "poll", "lock",
                           "held", "unlock", "over"}]
    /\ kind \in [Callers -> {"trigger", "unload", "load", "calibrate", None}]
    /\ task \in [Callers -> {"none", "clear", "begin", "next", "enable",
                             "check", "mark", "search", "found", "dropped", "ended",
                             "release", "last", "claim", "over"}]
    /\ todo \in [Callers -> SUBSET Models]
    /\ seen \in [Callers -> 0..Cardinality(Callers)]
    /\ waiter \in [Callers -> {"none", "armed", "notified"}]
    /\ asked \subseteq Callers
    /\ missed \in BOOLEAN /\ slipped \in BOOLEAN /\ cutShort \in BOOLEAN

Init ==
    /\ running = FALSE /\ rerun = FALSE /\ searching = FALSE /\ generation = 0
    /\ lock = None /\ loaded \in BOOLEAN /\ prepared = {}
    /\ pc = [c \in Callers |-> "new"] /\ kind = [c \in Callers |-> None]
    /\ task = [c \in Callers |-> "none"] /\ todo = [c \in Callers |-> {}]
    /\ seen = [c \in Callers |-> 0] /\ waiter = [c \in Callers |-> "none"]
    /\ asked = {} /\ missed = FALSE /\ slipped = FALSE /\ cutShort = FALSE

Goto(c, from, to) == pc[c] = from /\ pc' = [pc EXCEPT ![c] = to]
Move(t, from, to) == task[t] = from /\ task' = [task EXCEPT ![t] = to]

-----------------------------------------------------------------------------
(* The callers.                                                              *)

\* A change of the settings or of the models makes the fits out of date.
Ask(c) ==
    /\ \E k \in Kinds[c] :
        /\ kind' = [kind EXCEPT ![c] = k]
        /\ Goto(c, "new", CASE k = "trigger" -> "swap" [] k = "unload" -> "lock"
                            [] OTHER -> "add")
        /\ prepared' = IF k = "trigger" THEN {} ELSE prepared
    /\ UNCHANGED <<flags, runtime, task, pass, asked, history>>

\* spawn_fit_preparation: running.swap(true), then rerun or a new task, whose
\* delay is the time it takes to its first action.
Swap(c) ==
    /\ asked' = asked \union {c} /\ running' = TRUE
    /\ IF running
       THEN Goto(c, "swap", "late") /\ UNCHANGED task
       ELSE Goto(c, "swap", "unlock") /\ task' = [task EXCEPT ![c] = "clear"]
    /\ UNCHANGED <<rerun, searching, generation, runtime, prepared, kind, pass, history>>

SetRerun(c) ==
    /\ Goto(c, "late", "unlock") /\ rerun' = TRUE
    /\ missed' = (missed \/ ~running)
    /\ UNCHANGED <<running, searching, generation, runtime, prepared, kind, task, pass,
                   asked, slipped, cutShort>>

\* FitPreparation::cancel: fetch_add, notify_waiters, then the wait.
AddGeneration(c) ==
    /\ Goto(c, "add", "notify") /\ generation' = generation + 1
    /\ UNCHANGED <<running, rerun, searching, runtime, prepared, kind, task, pass,
                   asked, history>>

NotifyWaiters(c) ==
    /\ Goto(c, "notify", "poll")
    /\ waiter' = [t \in Callers |-> IF waiter[t] = "armed" THEN "notified" ELSE waiter[t]]
    /\ UNCHANGED <<flags, runtime, prepared, kind, task, todo, seen, asked, history>>

\* A hundred looks at the flag, then on in any case: what it says decides nothing.
Poll(c) ==
    /\ Goto(c, "poll", "lock")
    /\ UNCHANGED <<flags, runtime, prepared, kind, task, pass, asked, history>>

\* runtime_update.lock(); an unload and a calibration stop the server at once,
\* and so does a load that gets past its checks.
Acquire(c) ==
    /\ Goto(c, "lock", "held") /\ lock = None /\ lock' = c /\ loaded' = FALSE
    /\ UNCHANGED <<flags, prepared, kind, task, pass, asked, history>>

Finish_Wrong(c) ==
    /\ Goto(c, "held", "unlock")
    /\ IF kind[c] = "load" THEN loaded' \in BOOLEAN ELSE UNCHANGED loaded
    /\ prepared' = IF kind[c] = "calibrate" THEN {} ELSE prepared
    /\ cutShort' = (cutShort \/ (kind[c] = "load" /\ ~loaded'))
    /\ UNCHANGED <<flags, lock, kind, task, pass, asked, missed, slipped>>

\* A load ends with a server or without one; the others trigger the search,
\* a calibration after it has changed what the fits depend on.
Finish(c) ==
    /\ \/ kind[c] = "load" /\ Goto(c, "held", "unlock") /\ loaded' \in BOOLEAN
       \/ kind[c] # "load" /\ Goto(c, "held", "swap") /\ UNCHANGED loaded
    /\ prepared' = IF kind[c] = "calibrate" THEN {} ELSE prepared
    /\ cutShort' = (cutShort \/ (kind[c] = "load" /\ ~loaded'))
    /\ UNCHANGED <<flags, lock, kind, task, pass, asked, missed, slipped>>

\* The trigger of an unload and of a calibration is still under the lock.
Unlock(c) ==
    /\ Goto(c, "unlock", "over") /\ lock' = IF lock = c THEN None ELSE lock
    /\ UNCHANGED <<flags, loaded, prepared, kind, task, pass, asked, history>>

-----------------------------------------------------------------------------
(* The task.                                                                 *)

ClearRerun(t) ==
    /\ Move(t, "clear", "begin") /\ rerun' = FALSE /\ asked' = {}
    /\ UNCHANGED <<running, searching, generation, runtime, prepared, caller, pass, history>>

\* prepare_fits does nothing while a model is loaded.
Begin(t) ==
    /\ Move(t, "begin", IF loaded THEN "ended" ELSE "next")
    /\ todo' = [todo EXCEPT ![t] = IF loaded THEN {} ELSE Models]
    /\ UNCHANGED <<flags, runtime, prepared, caller, seen, waiter, asked, history>>

NextModel(t) ==
    /\ Move(t, "next", IF todo[t] = {} THEN "ended" ELSE "enable")
    /\ seen' = [seen EXCEPT ![t] = generation]
    /\ waiter' = [waiter EXCEPT ![t] = "none"]
    /\ UNCHANGED <<flags, runtime, prepared, caller, todo, asked, history>>

Enable(t) ==
    /\ Move(t, "enable", "check") /\ waiter' = [waiter EXCEPT ![t] = "armed"]
    /\ UNCHANGED <<flags, runtime, prepared, caller, todo, seen, asked, history>>

\* The generation again, the server, and the lock.
Check_Wrong(t) ==
    /\ Move(t, "check", IF loaded \/ lock # None THEN "ended" ELSE "mark")
    /\ slipped' = (slipped \/ (waiter[t] = "armed" /\ generation = seen[t]
                               /\ \E c \in Callers : pc[c] \in {"poll", "lock"} /\ kind[c] # "unload"))
    /\ cutShort' = (cutShort \/ task'[t] = "ended")
    /\ UNCHANGED <<flags, runtime, prepared, caller, pass, asked, missed>>

Check(t) ==
    /\ Move(t, "check", IF generation # seen[t] \/ loaded \/ lock # None
                        THEN "ended" ELSE "mark")
    /\ slipped' = (slipped \/ (task'[t] = "mark"
                               /\ \E c \in Callers : pc[c] \in {"poll", "lock"} /\ kind[c] # "unload"))
    /\ cutShort' = (cutShort \/ task'[t] = "ended")
    /\ UNCHANGED <<flags, runtime, prepared, caller, pass, asked, missed>>

MarkSearching(t) ==
    /\ Move(t, "mark", "search") /\ searching' = TRUE
    /\ UNCHANGED <<running, rerun, generation, runtime, prepared, caller, pass, asked, history>>

\* select!: the cancel, or the end of prepare_fit.
Select(t) ==
    /\ \/ /\ waiter[t] = "notified" /\ Move(t, "search", "dropped")
          /\ UNCHANGED <<prepared, todo>>
       \/ \E m \in todo[t] :
            /\ Move(t, "search", "found")
            /\ prepared' = prepared \union {m}
            /\ todo' = [todo EXCEPT ![t] = @ \ {m}]
    /\ UNCHANGED <<flags, runtime, caller, seen, waiter, asked, history>>

EndSearch(t) ==
    /\ Move(t, task[t], IF task[t] = "found" THEN "next" ELSE "ended")
    /\ task[t] \in {"found", "dropped"} /\ searching' = FALSE
    /\ UNCHANGED <<running, rerun, generation, runtime, prepared, caller, pass, asked, history>>

EndPass(t) ==
    /\ Move(t, "ended", IF rerun THEN "clear" ELSE "release")
    /\ todo' = [todo EXCEPT ![t] = {}]
    /\ UNCHANGED <<flags, runtime, prepared, caller, seen, waiter, asked, history>>

Release(t) ==
    /\ Move(t, "release", "last") /\ running' = FALSE
    /\ UNCHANGED <<rerun, searching, generation, runtime, prepared, caller, pass, asked, history>>

LastLook_Wrong(t) ==
    /\ Move(t, "last", "over")
    /\ UNCHANGED <<flags, runtime, prepared, caller, pass, asked, history>>

\* A trigger between the last look and the release is not lost.
LastLook(t) ==
    /\ Move(t, "last", IF rerun THEN "claim" ELSE "over")
    /\ UNCHANGED <<flags, runtime, prepared, caller, pass, asked, history>>

Claim_Wrong(t) ==
    /\ Move(t, "claim", "clear") /\ running' = TRUE
    /\ UNCHANGED <<rerun, searching, generation, runtime, prepared, caller, pass, asked, history>>

\* Unless a trigger has started another task meanwhile.
Claim(t) ==
    /\ Move(t, "claim", IF running THEN "over" ELSE "clear") /\ running' = TRUE
    /\ UNCHANGED <<rerun, searching, generation, runtime, prepared, caller, pass, asked, history>>

-----------------------------------------------------------------------------
Call(c) ==
    \/ Swap(c) \/ SetRerun(c) \/ AddGeneration(c) \/ NotifyWaiters(c)
    \/ Poll(c) \/ Acquire(c) \/ Finish(c) \/ Unlock(c)

Task(t) ==
    \/ ClearRerun(t) \/ Begin(t) \/ NextModel(t) \/ Enable(t) \/ Check(t)
    \/ MarkSearching(t) \/ Select(t) \/ EndSearch(t) \/ EndPass(t) \/ Release(t)
    \/ LastLook(t) \/ Claim(t)

Quiet == \A c \in Callers : pc[c] \in {"new", "over"} /\ task[c] \in {"none", "over"}

Terminated == (\A c \in Callers : pc[c] = "over") /\ Quiet /\ UNCHANGED vars

Next == (\E c \in Callers : Ask(c) \/ Call(c) \/ Task(c)) \/ Terminated

Spec == Init /\ [][Next]_vars

\* A task that was spawned is polled, and a handler that was called goes on.
FairSpec == Spec /\ \A c \in Callers : WF_vars(Call(c)) /\ WF_vars(Task(c))

-----------------------------------------------------------------------------
(* Safety and liveness.                                                      *)

\* One task searches at a time, or the flag that cancel waits for would be
\* cleared by the other one.
OneSearch ==
    /\ Cardinality({t \in Callers : task[t] \notin {"none", "release", "last",
                                                     "claim", "over"}}) <= 1
    /\ searching = (\E t \in Callers : task[t] \in {"search", "found", "dropped"})

\* While a load or a calibration has the runtime, a search still going on has
\* been told to stop (api.rs:1615), unless it was let in between a cancel and
\* the lock; also when the cancel gave up waiting for it.
NoSearchUnderLoad ==
    \A t, c \in Callers :
        /\ task[t] = "search" /\ pc[c] = "held" /\ kind[c] # "unload"
        => waiter[t] = "notified" \/ slipped

\* Once everything is quiet with nothing loaded, the fits are up to date with
\* the last trigger, unless a load or a lock held ended a pass early.
PreparedWhenQuiet ==
    Quiet /\ ~loaded /\ (\E c \in Callers : kind[c] # None)
        => prepared = Models \/ missed \/ cutShort

\* After each trigger a pass over the models starts, unless the trigger had
\* found the task running, which ended before it was told to go round again.
TriggersAreServed == asked # {} ~> asked = {} \/ missed
=============================================================================
