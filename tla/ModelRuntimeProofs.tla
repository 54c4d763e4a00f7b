-------------------------- MODULE ModelRuntimeProofs --------------------------
(***************************************************************************)
(* ModelRuntime for any number of clients and models: the places a handler *)
(* can be at only under the lock, and what it may count on there although  *)
(* cancel_load and delete_model stop the server without it.  And the list  *)
(* of models (Catalogue) for every content of the models folder and any    *)
(* number of steps, and the tool checks (ToolCheck) of any models.         *)
(***************************************************************************)
EXTENDS ModelRuntime, FiniteSetTheorems, TLAPS

\* Where a handler holds runtime_update.
Locked == Holding \union
    {"stop_old", "unmark", "spawn", "mark", "unload", "unload_stop", "halt", "halt_unmark",
     "remeasure", "keep", "selected", "calibrate_stop", "calibrate_unmark", "register"}

\* ... has stopped the server and not published one, has taken the label away, or has
\* found nobody at work.
Stopped    == Holding \union {"unmark", "spawn", "calibrate_unmark"}
Unlabelled == Holding \union {"spawn", "mark"}
Undisturbed == {"stop_old", "unload", "unload_stop", "halt"}
Unmeasured == Launching \union
    {"new", "guard", "validate", "flag", "resolve", "find", "wait", "look", "stop_old",
     "unmark", "spawn", "check", "measure"}

\* One handler at a time is where the lock is needed.
Excluding == \A c \in Clients : pc[c] \in Locked => lock = c

\* What was asked for is known.
Asking ==
    \A c \in Clients :
        /\ pc[c] # "new" => target[c] \in Models
        /\ pc[c] = "cancel_stop" => kind[c] = "cancel"
        /\ pc[c] = "delete_stop" => kind[c] = "delete"
        /\ pc[c] \in {"calibrate", "calibrate_stop"} => kind[c] = "calibrate"

\* What a handler may count on under the lock.
Serving ==
    \A c \in Clients :
        /\ pc[c] \in Stopped => server = None
        /\ pc[c] \in Unlabelled => current = None
        /\ pc[c] \in {"mark", "selected"} /\ server # None => server.model = target[c]
        /\ pc[c] \in Undisturbed => Working = {}

\* What a measured profile is about.
Measuring ==
    \A c \in Clients :
        /\ pc[c] \in Unmeasured => measured[c] = None
        /\ pc[c] = "publish" /\ ~strayed => measured[c] \in {target[c], None}
        /\ pc[c] = "remeasure" /\ ~strayed /\ IsRunning => server.model = target[c]
        /\ pc[c] = "keep" /\ ~strayed /\ server # None => measured[c] = server.model

\* The inductive invariant.
RInv ==
    TypeOK /\ Excluding /\ Asking /\ Serving /\ Measuring /\ NeverRelabelled /\ ToolingIsItsOwn

-----------------------------------------------------------------------------
(* One lemma per part of the invariant, one step per group of handlers.    *)

LEMMA StepTypeOK == RInv /\ [Next]_vars => TypeOK'
<1> SUFFICES ASSUME RInv, [Next]_vars PROVE TypeOK'
  OBVIOUS
<1> USE RuntimeAssumption DEF RInv, TypeOK, Places, Holding, Launching, AllKinds, Starting,
     Asking
<1>1. ASSUME NEW c \in Clients, Load(c)
      PROVE  TypeOK'
  BY <1>1 DEF Load, Ask, Goto, At, SetProgress, Processes, Disk
<1>2. ASSUME NEW c \in Clients, LoadGuard(c)
      PROVE  TypeOK'
  BY <1>2 DEF LoadGuard, Goto, At, SetProgress, Processes, Disk, Asked, shown
<1>3. ASSUME NEW c \in Clients, Start(c)
      PROVE  TypeOK'
  BY <1>3 DEF Start, Ask, Goto, At, Processes, Disk, shown
<1>4. ASSUME NEW c \in Clients, StartValidate(c)
      PROVE  TypeOK'
  BY <1>4 DEF StartValidate, Goto, At, SetProgress, Processes, Disk, Asked
<1>5. ASSUME NEW c \in Clients, CheckCancelled(c)
      PROVE  TypeOK'
  BY <1>5 DEF CheckCancelled, Goto, At, SetProgress, Processes, Disk, Asked, shown
<1>6. ASSUME NEW c \in Clients, Resolve(c)
      PROVE  TypeOK'
  BY <1>6 DEF Resolve, Goto, At, SetProgress, Processes, Disk, Asked, shown
<1>7. ASSUME NEW c \in Clients,
             Command(c) \/ LoadModelById(c) \/ TakeUpdate(c)
      PROVE  TypeOK'
  BY <1>7 DEF Command, LoadModelById, TakeUpdate, Ask, Goto, At, Lock, Processes, Disk, Asked,
     shown
<1>8. ASSUME NEW c \in Clients,
             StopOld(c) \/ Unmark(c) \/ Spawn(c) \/ Launch(c)
      PROVE  TypeOK'
  BY <1>8 DEF StopOld, Unmark, Spawn, Launch, Goto, At, Stop, UnloadAll, Processes, Disk,
     Asked, shown
<1>9. ASSUME NEW c \in Clients, ToolingForLoad(c)
      PROVE  TypeOK'
  BY <1>9 DEF ToolingForLoad, Goto, At, SetProgress, Processes, Disk, Asked, shown
<1>10. ASSUME NEW c \in Clients, RunToolCheck(c)
      PROVE  TypeOK'
  BY <1>10 DEF RunToolCheck, Goto, At, Processes, Asked, shown
<1>11. ASSUME NEW c \in Clients, Publish(c)
      PROVE  TypeOK'
  BY <1>11 DEF Publish, Goto, At, Disk, Asked, shown
<1>12. ASSUME NEW c \in Clients, Mark(c) \/ SayReady(c) \/ Fail(c)
      PROVE  TypeOK'
  BY <1>12 DEF Mark, SayReady, Fail, Goto, At, Unlock, SetProgress, Processes, Disk, Asked,
     shown
<1>13. ASSUME NEW c \in Clients,
             Unload(c) \/ UnloadMark(c) \/ UnloadStop(c)
      PROVE  TypeOK'
  BY <1>13 DEF Unload, UnloadMark, UnloadStop, Ask, Goto, At, Lock, Unlock, Stop, UnloadAll,
     Processes, Disk, Asked, shown
<1>14. ASSUME NEW c \in Clients,
             InferenceStop(c) \/ Halt(c) \/ HaltUnmark(c)
      PROVE  TypeOK'
  BY <1>14 DEF InferenceStop, Halt, HaltUnmark, Ask, Goto, At, Lock, Unlock, Stop, UnloadAll,
     Processes, Disk, Asked, shown
<1>15. ASSUME NEW c \in Clients, CancelLoad(c)
      PROVE  TypeOK'
  BY <1>15 DEF CancelLoad, Ask, Goto, At, Processes, Disk
<1>16. ASSUME NEW c \in Clients, CancelStop(c)
      PROVE  TypeOK'
  BY <1>16 DEF CancelStop, Goto, At, Stop, Disk, Asked, shown
<1>17. ASSUME NEW c \in Clients, CancelSay(c)
      PROVE  TypeOK'
  BY <1>17 DEF CancelSay, Goto, At, SetProgress, Processes, Disk, Asked
<1>18. ASSUME NEW c \in Clients,
             DeleteModel(c) \/ DeleteStop(c) \/ DeleteUnmark(c) \/ Delete(c)
      PROVE  TypeOK'
  BY <1>18 DEF DeleteModel, DeleteStop, DeleteUnmark, Delete, Ask, Goto, At, Stop, UnloadAll,
     Processes, Disk, Asked, shown
<1>19. ASSUME NEW c \in Clients, Recheck(c) \/ Snapshot(c)
      PROVE  TypeOK'
  BY <1>19 DEF Recheck, Snapshot, Ask, Goto, At, Processes, Disk, Asked, shown
<1>20. ASSUME NEW c \in Clients, TakeRecheck(c)
      PROVE  TypeOK'
  BY <1>20 DEF TakeRecheck, Goto, At, Lock, Processes, Disk, Asked, shown
<1>21. ASSUME NEW c \in Clients, Remeasure(c)
      PROVE  TypeOK'
  <2>1. target[c] \in Models /\ pc' \in [Clients -> Places]
    BY <1>21 DEF Remeasure, Goto, At
  <2>2. CASE Goto(c, "failed") /\ UNCHANGED <<measured, profiles>>
    BY <1>21, <2>1, <2>2 DEF Remeasure, Processes, Asked, shown
  <2>3. ASSUME IsRunning, measured' = [measured EXCEPT ![c] = server.model],
               profiles' \in {profiles, [profiles EXCEPT ![target[c]] = server.model]}
        PROVE  TypeOK'
    <3>1. server.model \in Models
      BY <2>3 DEF IsRunning
    <3> QED BY <1>21, <2>1, <2>3, <3>1 DEF Remeasure, Processes, Asked, shown
  <2> QED BY <1>21, <2>2, <2>3 DEF Remeasure
<1>22. ASSUME NEW c \in Clients, Keep(c)
      PROVE  TypeOK'
  BY <1>22 DEF Keep, Goto, At, Unlock, Disk, Asked, shown
<1>23. ASSUME NEW c \in Clients,
             Prepare(c) \/ Look(c) \/ LookAgain(c) \/ Prepared(c)
      PROVE  TypeOK'
  BY <1>23 DEF Prepare, Look, LookAgain, Prepared, Ask, Goto, At, Lock, Unlock, Processes,
     Disk, Asked, shown
<1>24. ASSUME NEW c \in Clients,
             Calibrate(c) \/ TakeCalibrate(c) \/ CalibrateStop(c) \/ CalibrateUnmark(c) \/ Benchmarks(c)
      PROVE  TypeOK'
  BY <1>24 DEF Calibrate, TakeCalibrate, CalibrateStop, CalibrateUnmark, Benchmarks, Ask, Goto,
     At, Lock, Unlock, Stop, UnloadAll, Processes, Disk, Asked, shown
<1>25. ASSUME NEW c \in Clients,
             Work(c) \/ RegisterWork(c) \/ EndWork(c) \/ Disconnect(c)
      PROVE  TypeOK'
  BY <1>25 DEF Work, RegisterWork, EndWork, Disconnect, Ask, Goto, At, Lock, Unlock, UnloadAll,
     Processes, Disk, Asked, shown
<1>26. CASE Crash
  BY <1>26 DEF Crash, Disk, Asked, shown, IsRunning
<1>27. CASE UNCHANGED vars
  BY <1>27 DEF vars, shown, IsRunning, Working
<1> HIDE DEF RInv, TypeOK
<1> QED BY <1>1, <1>2, <1>3, <1>4, <1>5, <1>6, <1>7, <1>8, <1>9, <1>10, <1>11, <1>12, <1>13,
           <1>14, <1>15, <1>16, <1>17, <1>18, <1>19, <1>20, <1>21, <1>22, <1>23, <1>24, <1>25,
           <1>26, <1>27 DEF Next, Terminated

\* Whoever enters a locked place takes the lock there; nobody else releases it.
LEMMA StepExcluding == RInv /\ [Next]_vars => Excluding'
<1> SUFFICES ASSUME RInv, [Next]_vars PROVE Excluding'
  OBVIOUS
<1> USE RuntimeAssumption DEF RInv, TypeOK, Excluding, Locked, Holding, Launching
<1>1. ASSUME NEW c \in Clients,
             \/ Load(c) \/ LoadGuard(c) \/ Start(c) \/ StartValidate(c) \/ CheckCancelled(c)
             \/ Resolve(c) \/ Command(c) \/ LoadModelById(c)
      PROVE  Excluding'
  BY <1>1 DEF Load, LoadGuard, Start, StartValidate, CheckCancelled, Resolve, Command,
     LoadModelById, Ask, Goto, At, SetProgress, Processes, Disk, Asked, shown
<1>2. ASSUME NEW c \in Clients,
             \/ TakeUpdate(c) \/ StopOld(c) \/ Unmark(c) \/ Spawn(c) \/ Launch(c)
             \/ ToolingForLoad(c)
      PROVE  Excluding'
  BY <1>2 DEF TakeUpdate, StopOld, Unmark, Spawn, Launch, ToolingForLoad, Goto, At, Lock, Stop,
     UnloadAll, SetProgress, Processes, Disk, Asked, shown
<1>3. ASSUME NEW c \in Clients,
             RunToolCheck(c) \/ Publish(c) \/ Mark(c) \/ SayReady(c) \/ Fail(c)
      PROVE  Excluding'
  BY <1>3 DEF RunToolCheck, Publish, Mark, SayReady, Fail, Goto, At, Unlock, SetProgress,
     Processes, Disk, Asked, shown
<1>4. ASSUME NEW c \in Clients,
             \/ Unload(c) \/ UnloadMark(c) \/ UnloadStop(c) \/ InferenceStop(c) \/ Halt(c)
             \/ HaltUnmark(c) \/ CancelLoad(c) \/ CancelStop(c) \/ CancelSay(c)
      PROVE  Excluding'
  BY <1>4 DEF Unload, UnloadMark, UnloadStop, InferenceStop, Halt, HaltUnmark, CancelLoad,
     CancelStop, CancelSay, Ask, Goto, At, Lock, Unlock, Stop, UnloadAll, SetProgress,
     Processes, Disk, Asked, shown
<1>5. ASSUME NEW c \in Clients,
             DeleteModel(c) \/ DeleteStop(c) \/ DeleteUnmark(c) \/ Delete(c)
      PROVE  Excluding'
  BY <1>5 DEF DeleteModel, DeleteStop, DeleteUnmark, Delete, Ask, Goto, At, Stop, UnloadAll,
     Processes, Disk, Asked, shown
<1>6. ASSUME NEW c \in Clients,
             Recheck(c) \/ Snapshot(c) \/ TakeRecheck(c) \/ Remeasure(c) \/ Keep(c)
      PROVE  Excluding'
  BY <1>6 DEF Recheck, Snapshot, TakeRecheck, Remeasure, Keep, Ask, Goto, At, Lock, Unlock,
     Processes, Disk, Asked, shown
<1>7. ASSUME NEW c \in Clients,
             Prepare(c) \/ Look(c) \/ LookAgain(c) \/ Prepared(c)
      PROVE  Excluding'
  BY <1>7 DEF Prepare, Look, LookAgain, Prepared, Ask, Goto, At, Lock, Unlock, Processes, Disk,
     Asked, shown
<1>8. ASSUME NEW c \in Clients,
             Calibrate(c) \/ TakeCalibrate(c) \/ CalibrateStop(c) \/ CalibrateUnmark(c) \/ Benchmarks(c)
      PROVE  Excluding'
  BY <1>8 DEF Calibrate, TakeCalibrate, CalibrateStop, CalibrateUnmark, Benchmarks, Ask, Goto,
     At, Lock, Unlock, Stop, UnloadAll, Processes, Disk, Asked, shown
<1>9. ASSUME NEW c \in Clients,
             Work(c) \/ RegisterWork(c) \/ EndWork(c) \/ Disconnect(c)
      PROVE  Excluding'
  BY <1>9 DEF Work, RegisterWork, EndWork, Disconnect, Ask, Goto, At, Lock, Unlock, UnloadAll,
     Processes, Disk, Asked, shown
<1>10. CASE Crash
  BY <1>10 DEF Crash, Disk, Asked, shown, IsRunning
<1>11. CASE UNCHANGED vars
  BY <1>11 DEF vars, shown, IsRunning, Working
<1> HIDE DEF RInv, Excluding
<1> QED BY <1>1, <1>2, <1>3, <1>4, <1>5, <1>6, <1>7, <1>8, <1>9, <1>10, <1>11 DEF Next, Terminated

\* A request is what it was asked for until its handler is over.
LEMMA StepAsking == RInv /\ [Next]_vars => Asking'
<1> SUFFICES ASSUME RInv, [Next]_vars PROVE Asking'
  OBVIOUS
<1> USE RuntimeAssumption DEF RInv, TypeOK, Asking, Launching
<1>1. ASSUME NEW c \in Clients,
             \/ Load(c) \/ LoadGuard(c) \/ Start(c) \/ StartValidate(c) \/ CheckCancelled(c)
             \/ Resolve(c) \/ Command(c) \/ LoadModelById(c)
      PROVE  Asking'
  BY <1>1 DEF Load, LoadGuard, Start, StartValidate, CheckCancelled, Resolve, Command,
     LoadModelById, Ask, Goto, At, SetProgress, Processes, Disk, Asked, shown
<1>2. ASSUME NEW c \in Clients,
             \/ TakeUpdate(c) \/ StopOld(c) \/ Unmark(c) \/ Spawn(c) \/ Launch(c)
             \/ ToolingForLoad(c)
      PROVE  Asking'
  BY <1>2 DEF TakeUpdate, StopOld, Unmark, Spawn, Launch, ToolingForLoad, Goto, At, Lock, Stop,
     UnloadAll, SetProgress, Processes, Disk, Asked, shown
<1>3. ASSUME NEW c \in Clients,
             RunToolCheck(c) \/ Publish(c) \/ Mark(c) \/ SayReady(c) \/ Fail(c)
      PROVE  Asking'
  BY <1>3 DEF RunToolCheck, Publish, Mark, SayReady, Fail, Goto, At, Unlock, SetProgress,
     Processes, Disk, Asked, shown
<1>4. ASSUME NEW c \in Clients,
             \/ Unload(c) \/ UnloadMark(c) \/ UnloadStop(c) \/ InferenceStop(c) \/ Halt(c)
             \/ HaltUnmark(c) \/ CancelLoad(c) \/ CancelStop(c) \/ CancelSay(c)
      PROVE  Asking'
  BY <1>4 DEF Unload, UnloadMark, UnloadStop, InferenceStop, Halt, HaltUnmark, CancelLoad,
     CancelStop, CancelSay, Ask, Goto, At, Lock, Unlock, Stop, UnloadAll, SetProgress,
     Processes, Disk, Asked, shown
<1>5. ASSUME NEW c \in Clients,
             DeleteModel(c) \/ DeleteStop(c) \/ DeleteUnmark(c) \/ Delete(c)
      PROVE  Asking'
  BY <1>5 DEF DeleteModel, DeleteStop, DeleteUnmark, Delete, Ask, Goto, At, Stop, UnloadAll,
     Processes, Disk, Asked, shown
<1>6. ASSUME NEW c \in Clients,
             Recheck(c) \/ Snapshot(c) \/ TakeRecheck(c) \/ Remeasure(c) \/ Keep(c)
      PROVE  Asking'
  BY <1>6 DEF Recheck, Snapshot, TakeRecheck, Remeasure, Keep, Ask, Goto, At, Lock, Unlock,
     Processes, Disk, Asked, shown
<1>7. ASSUME NEW c \in Clients,
             Prepare(c) \/ Look(c) \/ LookAgain(c) \/ Prepared(c)
      PROVE  Asking'
  BY <1>7 DEF Prepare, Look, LookAgain, Prepared, Ask, Goto, At, Lock, Unlock, Processes, Disk,
     Asked, shown
<1>8. ASSUME NEW c \in Clients,
             Calibrate(c) \/ TakeCalibrate(c) \/ CalibrateStop(c) \/ CalibrateUnmark(c) \/ Benchmarks(c)
      PROVE  Asking'
  BY <1>8 DEF Calibrate, TakeCalibrate, CalibrateStop, CalibrateUnmark, Benchmarks, Ask, Goto,
     At, Lock, Unlock, Stop, UnloadAll, Processes, Disk, Asked, shown
<1>9. ASSUME NEW c \in Clients,
             Work(c) \/ RegisterWork(c) \/ EndWork(c) \/ Disconnect(c)
      PROVE  Asking'
  BY <1>9 DEF Work, RegisterWork, EndWork, Disconnect, Ask, Goto, At, Lock, Unlock, UnloadAll,
     Processes, Disk, Asked, shown
<1>10. CASE Crash
  BY <1>10 DEF Crash, Disk, Asked, shown, IsRunning
<1>11. CASE UNCHANGED vars
  BY <1>11 DEF vars, shown, IsRunning, Working
<1> HIDE DEF RInv, Asking
<1> QED BY <1>1, <1>2, <1>3, <1>4, <1>5, <1>6, <1>7, <1>8, <1>9, <1>10, <1>11 DEF Next, Terminated

\* Between its stop and its publication the lock keeps every other server away;
\* cancel_load and delete_model can only stop one.
LEMMA StepServing == RInv /\ [Next]_vars => Serving'
<1> SUFFICES ASSUME RInv, [Next]_vars PROVE Serving'
  OBVIOUS
<1> USE RuntimeAssumption DEF RInv, TypeOK, Excluding, Asking, Serving, Locked, Stopped,
     Unlabelled, Undisturbed, Working, Guard, IsRunning, Runs, Holding, Launching
<1>1. ASSUME NEW c \in Clients,
             \/ Load(c) \/ LoadGuard(c) \/ Start(c) \/ StartValidate(c) \/ CheckCancelled(c)
             \/ Resolve(c) \/ Command(c) \/ LoadModelById(c)
      PROVE  Serving'
  BY <1>1 DEF Load, LoadGuard, Start, StartValidate, CheckCancelled, Resolve, Command,
     LoadModelById, Ask, Goto, At, SetProgress, Processes, Disk, Asked, shown
<1>2. ASSUME NEW c \in Clients,
             \/ TakeUpdate(c) \/ StopOld(c) \/ Unmark(c) \/ Spawn(c) \/ Launch(c)
             \/ ToolingForLoad(c)
      PROVE  Serving'
  BY <1>2 DEF TakeUpdate, StopOld, Unmark, Spawn, Launch, ToolingForLoad, Goto, At, Lock, Stop,
     UnloadAll, SetProgress, Processes, Disk, Asked, shown
<1>3. ASSUME NEW c \in Clients,
             RunToolCheck(c) \/ Publish(c) \/ Mark(c) \/ SayReady(c) \/ Fail(c)
      PROVE  Serving'
  BY <1>3 DEF RunToolCheck, Publish, Mark, SayReady, Fail, Goto, At, Unlock, SetProgress,
     Processes, Disk, Asked, shown
<1>4. ASSUME NEW c \in Clients,
             \/ Unload(c) \/ UnloadMark(c) \/ UnloadStop(c) \/ InferenceStop(c) \/ Halt(c)
             \/ HaltUnmark(c) \/ CancelLoad(c) \/ CancelStop(c) \/ CancelSay(c)
      PROVE  Serving'
  BY <1>4 DEF Unload, UnloadMark, UnloadStop, InferenceStop, Halt, HaltUnmark, CancelLoad,
     CancelStop, CancelSay, Ask, Goto, At, Lock, Unlock, Stop, UnloadAll, SetProgress,
     Processes, Disk, Asked, shown
<1>5. ASSUME NEW c \in Clients,
             DeleteModel(c) \/ DeleteStop(c) \/ DeleteUnmark(c) \/ Delete(c)
      PROVE  Serving'
  BY <1>5 DEF DeleteModel, DeleteStop, DeleteUnmark, Delete, Ask, Goto, At, Stop, UnloadAll,
     Processes, Disk, Asked, shown
<1>6. ASSUME NEW c \in Clients,
             Recheck(c) \/ Snapshot(c) \/ TakeRecheck(c) \/ Remeasure(c) \/ Keep(c)
      PROVE  Serving'
  BY <1>6 DEF Recheck, Snapshot, TakeRecheck, Remeasure, Keep, Ask, Goto, At, Lock, Unlock,
     Processes, Disk, Asked, shown
<1>7. ASSUME NEW c \in Clients,
             Prepare(c) \/ Look(c) \/ LookAgain(c) \/ Prepared(c)
      PROVE  Serving'
  BY <1>7 DEF Prepare, Look, LookAgain, Prepared, Ask, Goto, At, Lock, Unlock, Processes, Disk,
     Asked, shown
<1>8. ASSUME NEW c \in Clients,
             Calibrate(c) \/ TakeCalibrate(c) \/ CalibrateStop(c) \/ CalibrateUnmark(c) \/ Benchmarks(c)
      PROVE  Serving'
  BY <1>8 DEF Calibrate, TakeCalibrate, CalibrateStop, CalibrateUnmark, Benchmarks, Ask, Goto,
     At, Lock, Unlock, Stop, UnloadAll, Processes, Disk, Asked, shown
<1>9. ASSUME NEW c \in Clients,
             Work(c) \/ RegisterWork(c) \/ EndWork(c) \/ Disconnect(c)
      PROVE  Serving'
  BY <1>9 DEF Work, RegisterWork, EndWork, Disconnect, Ask, Goto, At, Lock, Unlock, UnloadAll,
     Processes, Disk, Asked, shown
<1>10. CASE Crash
  BY <1>10 DEF Crash, Disk, Asked, shown, IsRunning
<1>11. CASE UNCHANGED vars
  BY <1>11 DEF vars, shown
<1> HIDE DEF RInv, Serving
<1> QED BY <1>1, <1>2, <1>3, <1>4, <1>5, <1>6, <1>7, <1>8, <1>9, <1>10, <1>11 DEF Next, Terminated

\* A profile is measured on the process the load has started, or, by a recheck
\* that has not strayed, on the server it has seen.
LEMMA StepMeasuring == RInv /\ [Next]_vars => Measuring'
<1> SUFFICES ASSUME RInv, [Next]_vars PROVE Measuring'
  OBVIOUS
<1> USE RuntimeAssumption DEF RInv, TypeOK, Excluding, Asking, Serving, Measuring,
     ToolingIsItsOwn, Locked, Stopped, Unmeasured, IsRunning, Holding, Launching
<1>1. ASSUME NEW c \in Clients,
             \/ Load(c) \/ LoadGuard(c) \/ Start(c) \/ StartValidate(c) \/ CheckCancelled(c)
             \/ Resolve(c) \/ Command(c) \/ LoadModelById(c)
      PROVE  Measuring'
  BY <1>1 DEF Load, LoadGuard, Start, StartValidate, CheckCancelled, Resolve, Command,
     LoadModelById, Ask, Goto, At, SetProgress, Processes, Disk, Asked, shown
<1>2. ASSUME NEW c \in Clients,
             \/ TakeUpdate(c) \/ StopOld(c) \/ Unmark(c) \/ Spawn(c) \/ Launch(c)
             \/ ToolingForLoad(c)
      PROVE  Measuring'
  BY <1>2 DEF TakeUpdate, StopOld, Unmark, Spawn, Launch, ToolingForLoad, Goto, At, Lock, Stop,
     UnloadAll, SetProgress, Processes, Disk, Asked, shown
<1>3. ASSUME NEW c \in Clients,
             RunToolCheck(c) \/ Publish(c) \/ Mark(c) \/ SayReady(c) \/ Fail(c)
      PROVE  Measuring'
  BY <1>3 DEF RunToolCheck, Publish, Mark, SayReady, Fail, Goto, At, Unlock, SetProgress,
     Processes, Disk, Asked, shown
<1>4. ASSUME NEW c \in Clients,
             \/ Unload(c) \/ UnloadMark(c) \/ UnloadStop(c) \/ InferenceStop(c) \/ Halt(c)
             \/ HaltUnmark(c) \/ CancelLoad(c) \/ CancelStop(c) \/ CancelSay(c)
      PROVE  Measuring'
  BY <1>4 DEF Unload, UnloadMark, UnloadStop, InferenceStop, Halt, HaltUnmark, CancelLoad,
     CancelStop, CancelSay, Ask, Goto, At, Lock, Unlock, Stop, UnloadAll, SetProgress,
     Processes, Disk, Asked, shown
<1>5. ASSUME NEW c \in Clients,
             DeleteModel(c) \/ DeleteStop(c) \/ DeleteUnmark(c) \/ Delete(c)
      PROVE  Measuring'
  BY <1>5 DEF DeleteModel, DeleteStop, DeleteUnmark, Delete, Ask, Goto, At, Stop, UnloadAll,
     Processes, Disk, Asked, shown
<1>6. ASSUME NEW c \in Clients,
             Recheck(c) \/ Snapshot(c) \/ TakeRecheck(c) \/ Remeasure(c) \/ Keep(c)
      PROVE  Measuring'
  BY <1>6 DEF Recheck, Snapshot, TakeRecheck, Remeasure, Keep, Ask, Goto, At, Lock, Unlock,
     Processes, Disk, Asked, shown
<1>7. ASSUME NEW c \in Clients,
             Prepare(c) \/ Look(c) \/ LookAgain(c) \/ Prepared(c)
      PROVE  Measuring'
  BY <1>7 DEF Prepare, Look, LookAgain, Prepared, Ask, Goto, At, Lock, Unlock, Processes, Disk,
     Asked, shown
<1>8. ASSUME NEW c \in Clients,
             Calibrate(c) \/ TakeCalibrate(c) \/ CalibrateStop(c) \/ CalibrateUnmark(c) \/ Benchmarks(c)
      PROVE  Measuring'
  BY <1>8 DEF Calibrate, TakeCalibrate, CalibrateStop, CalibrateUnmark, Benchmarks, Ask, Goto,
     At, Lock, Unlock, Stop, UnloadAll, Processes, Disk, Asked, shown
<1>9. ASSUME NEW c \in Clients,
             Work(c) \/ RegisterWork(c) \/ EndWork(c) \/ Disconnect(c)
      PROVE  Measuring'
  BY <1>9 DEF Work, RegisterWork, EndWork, Disconnect, Ask, Goto, At, Lock, Unlock, UnloadAll,
     Processes, Disk, Asked, shown
<1>10. CASE Crash
  BY <1>10 DEF Crash, Disk, Asked, shown, IsRunning
<1>11. CASE UNCHANGED vars
  BY <1>11 DEF vars, shown
<1> HIDE DEF RInv, Measuring
<1> QED BY <1>1, <1>2, <1>3, <1>4, <1>5, <1>6, <1>7, <1>8, <1>9, <1>10, <1>11 DEF Next, Terminated

\* The label changes under the lock, to the model just published, or goes.
LEMMA StepNeverRelabelled == RInv /\ [Next]_vars => NeverRelabelled'
<1> SUFFICES ASSUME RInv, [Next]_vars PROVE NeverRelabelled'
  OBVIOUS
<1> USE RuntimeAssumption DEF RInv, TypeOK, Excluding, Asking, Serving, NeverRelabelled,
     Locked, Unlabelled, Stopped, Holding, Launching, IsRunning
<1>1. ASSUME NEW c \in Clients,
             \/ Load(c) \/ LoadGuard(c) \/ Start(c) \/ StartValidate(c) \/ CheckCancelled(c)
             \/ Resolve(c) \/ Command(c) \/ LoadModelById(c)
      PROVE  NeverRelabelled'
  BY <1>1 DEF Load, LoadGuard, Start, StartValidate, CheckCancelled, Resolve, Command,
     LoadModelById, Ask, Goto, At, SetProgress, Processes, Disk, Asked, shown
<1>2. ASSUME NEW c \in Clients,
             \/ TakeUpdate(c) \/ StopOld(c) \/ Unmark(c) \/ Spawn(c) \/ Launch(c)
             \/ ToolingForLoad(c)
      PROVE  NeverRelabelled'
  BY <1>2 DEF TakeUpdate, StopOld, Unmark, Spawn, Launch, ToolingForLoad, Goto, At, Lock, Stop,
     UnloadAll, SetProgress, Processes, Disk, Asked, shown
<1>3. ASSUME NEW c \in Clients,
             RunToolCheck(c) \/ Publish(c) \/ Mark(c) \/ SayReady(c) \/ Fail(c)
      PROVE  NeverRelabelled'
  BY <1>3 DEF RunToolCheck, Publish, Mark, SayReady, Fail, Goto, At, Unlock, SetProgress,
     Processes, Disk, Asked, shown
<1>4. ASSUME NEW c \in Clients,
             \/ Unload(c) \/ UnloadMark(c) \/ UnloadStop(c) \/ InferenceStop(c) \/ Halt(c)
             \/ HaltUnmark(c) \/ CancelLoad(c) \/ CancelStop(c) \/ CancelSay(c)
      PROVE  NeverRelabelled'
  BY <1>4 DEF Unload, UnloadMark, UnloadStop, InferenceStop, Halt, HaltUnmark, CancelLoad,
     CancelStop, CancelSay, Ask, Goto, At, Lock, Unlock, Stop, UnloadAll, SetProgress,
     Processes, Disk, Asked, shown
<1>5. ASSUME NEW c \in Clients,
             DeleteModel(c) \/ DeleteStop(c) \/ DeleteUnmark(c) \/ Delete(c)
      PROVE  NeverRelabelled'
  BY <1>5 DEF DeleteModel, DeleteStop, DeleteUnmark, Delete, Ask, Goto, At, Stop, UnloadAll,
     Processes, Disk, Asked, shown
<1>6. ASSUME NEW c \in Clients,
             Recheck(c) \/ Snapshot(c) \/ TakeRecheck(c) \/ Remeasure(c) \/ Keep(c)
      PROVE  NeverRelabelled'
  BY <1>6 DEF Recheck, Snapshot, TakeRecheck, Remeasure, Keep, Ask, Goto, At, Lock, Unlock,
     Processes, Disk, Asked, shown
<1>7. ASSUME NEW c \in Clients,
             Prepare(c) \/ Look(c) \/ LookAgain(c) \/ Prepared(c)
      PROVE  NeverRelabelled'
  BY <1>7 DEF Prepare, Look, LookAgain, Prepared, Ask, Goto, At, Lock, Unlock, Processes, Disk,
     Asked, shown
<1>8. ASSUME NEW c \in Clients,
             Calibrate(c) \/ TakeCalibrate(c) \/ CalibrateStop(c) \/ CalibrateUnmark(c) \/ Benchmarks(c)
      PROVE  NeverRelabelled'
  BY <1>8 DEF Calibrate, TakeCalibrate, CalibrateStop, CalibrateUnmark, Benchmarks, Ask, Goto,
     At, Lock, Unlock, Stop, UnloadAll, Processes, Disk, Asked, shown
<1>9. ASSUME NEW c \in Clients,
             Work(c) \/ RegisterWork(c) \/ EndWork(c) \/ Disconnect(c)
      PROVE  NeverRelabelled'
  BY <1>9 DEF Work, RegisterWork, EndWork, Disconnect, Ask, Goto, At, Lock, Unlock, UnloadAll,
     Processes, Disk, Asked, shown
<1>10. CASE Crash
  BY <1>10 DEF Crash, Disk, Asked, shown, IsRunning
<1>11. CASE UNCHANGED vars
  BY <1>11 DEF vars, shown
<1> HIDE DEF RInv, NeverRelabelled
<1> QED BY <1>1, <1>2, <1>3, <1>4, <1>5, <1>6, <1>7, <1>8, <1>9, <1>10, <1>11 DEF Next, Terminated

\* What is saved or published was measured under the lock.
LEMMA StepToolingIsItsOwn == RInv /\ [Next]_vars => ToolingIsItsOwn'
<1> SUFFICES ASSUME RInv, [Next]_vars PROVE ToolingIsItsOwn'
  OBVIOUS
<1> USE RuntimeAssumption DEF RInv, TypeOK, Excluding, Asking, Measuring, ToolingIsItsOwn,
     Locked, IsRunning, Holding, Launching
<1>1. ASSUME NEW c \in Clients,
             \/ Load(c) \/ LoadGuard(c) \/ Start(c) \/ StartValidate(c) \/ CheckCancelled(c)
             \/ Resolve(c) \/ Command(c) \/ LoadModelById(c)
      PROVE  ToolingIsItsOwn'
  BY <1>1 DEF Load, LoadGuard, Start, StartValidate, CheckCancelled, Resolve, Command,
     LoadModelById, Ask, Goto, At, SetProgress, Processes, Disk, Asked, shown
<1>2. ASSUME NEW c \in Clients,
             \/ TakeUpdate(c) \/ StopOld(c) \/ Unmark(c) \/ Spawn(c) \/ Launch(c)
             \/ ToolingForLoad(c)
      PROVE  ToolingIsItsOwn'
  BY <1>2 DEF TakeUpdate, StopOld, Unmark, Spawn, Launch, ToolingForLoad, Goto, At, Lock, Stop,
     UnloadAll, SetProgress, Processes, Disk, Asked, shown
<1>3. ASSUME NEW c \in Clients,
             RunToolCheck(c) \/ Publish(c) \/ Mark(c) \/ SayReady(c) \/ Fail(c)
      PROVE  ToolingIsItsOwn'
  BY <1>3 DEF RunToolCheck, Publish, Mark, SayReady, Fail, Goto, At, Unlock, SetProgress,
     Processes, Disk, Asked, shown
<1>4. ASSUME NEW c \in Clients,
             \/ Unload(c) \/ UnloadMark(c) \/ UnloadStop(c) \/ InferenceStop(c) \/ Halt(c)
             \/ HaltUnmark(c) \/ CancelLoad(c) \/ CancelStop(c) \/ CancelSay(c)
      PROVE  ToolingIsItsOwn'
  BY <1>4 DEF Unload, UnloadMark, UnloadStop, InferenceStop, Halt, HaltUnmark, CancelLoad,
     CancelStop, CancelSay, Ask, Goto, At, Lock, Unlock, Stop, UnloadAll, SetProgress,
     Processes, Disk, Asked, shown
<1>5. ASSUME NEW c \in Clients,
             DeleteModel(c) \/ DeleteStop(c) \/ DeleteUnmark(c) \/ Delete(c)
      PROVE  ToolingIsItsOwn'
  BY <1>5 DEF DeleteModel, DeleteStop, DeleteUnmark, Delete, Ask, Goto, At, Stop, UnloadAll,
     Processes, Disk, Asked, shown
<1>6. ASSUME NEW c \in Clients,
             Recheck(c) \/ Snapshot(c) \/ TakeRecheck(c) \/ Remeasure(c) \/ Keep(c)
      PROVE  ToolingIsItsOwn'
  BY <1>6 DEF Recheck, Snapshot, TakeRecheck, Remeasure, Keep, Ask, Goto, At, Lock, Unlock,
     Processes, Disk, Asked, shown
<1>7. ASSUME NEW c \in Clients,
             Prepare(c) \/ Look(c) \/ LookAgain(c) \/ Prepared(c)
      PROVE  ToolingIsItsOwn'
  BY <1>7 DEF Prepare, Look, LookAgain, Prepared, Ask, Goto, At, Lock, Unlock, Processes, Disk,
     Asked, shown
<1>8. ASSUME NEW c \in Clients,
             Calibrate(c) \/ TakeCalibrate(c) \/ CalibrateStop(c) \/ CalibrateUnmark(c) \/ Benchmarks(c)
      PROVE  ToolingIsItsOwn'
  BY <1>8 DEF Calibrate, TakeCalibrate, CalibrateStop, CalibrateUnmark, Benchmarks, Ask, Goto,
     At, Lock, Unlock, Stop, UnloadAll, Processes, Disk, Asked, shown
<1>9. ASSUME NEW c \in Clients,
             Work(c) \/ RegisterWork(c) \/ EndWork(c) \/ Disconnect(c)
      PROVE  ToolingIsItsOwn'
  BY <1>9 DEF Work, RegisterWork, EndWork, Disconnect, Ask, Goto, At, Lock, Unlock, UnloadAll,
     Processes, Disk, Asked, shown
<1>10. CASE Crash
  BY <1>10 DEF Crash, Disk, Asked, shown, IsRunning
<1>11. CASE UNCHANGED vars
  BY <1>11 DEF vars, shown
<1> HIDE DEF RInv, ToolingIsItsOwn
<1> QED BY <1>1, <1>2, <1>3, <1>4, <1>5, <1>6, <1>7, <1>8, <1>9, <1>10, <1>11 DEF Next, Terminated

LEMMA InitRInv == Init => RInv
<1> SUFFICES ASSUME Init PROVE RInv
  OBVIOUS
<1>1. \A c \in Clients : pc[c] = "new" /\ measured[c] = None
  BY DEF Init
<1>2. TypeOK
  <2>1. pc \in [Clients -> Places] /\ progress \in {"idle"} /\ cancelled = FALSE /\ strayed = FALSE
    BY DEF Init, Places
  <2>2. /\ kind \in [Clients -> {None}] /\ target \in [Clients -> {None}]
        /\ measured \in [Clients -> {None}] /\ lock = None /\ known = Models
    BY DEF Init
  <2>3. profiles \in [Models -> Models \union {None}] /\ current \in Models \union {None}
    BY DEF Init
  <2>4. server \in [model : Models, tooling : Models \union {None}, alive : BOOLEAN] \union {None}
    <3>1. \A m \in Models : Running(m) \in [model : Models, tooling : Models \union {None},
                                             alive : BOOLEAN]
      BY DEF Running
    <3> QED BY <3>1 DEF Init
  <2> QED BY <2>1, <2>2, <2>3, <2>4 DEF TypeOK
<1>3. Excluding /\ Asking
  BY <1>1 DEF Excluding, Asking, Locked, Holding, Launching
<1>4. Serving /\ Measuring
  BY <1>1 DEF Serving, Measuring, Stopped, Unlabelled, Undisturbed, Holding, Launching
<1>5. NeverRelabelled
  BY DEF Init, NeverRelabelled, Running
<1>6. ToolingIsItsOwn
  BY DEF Init, ToolingIsItsOwn, Running
<1> QED BY <1>2, <1>3, <1>4, <1>5, <1>6 DEF RInv

\* The invariant of the model server, whichever requests race.
THEOREM Runtime == Spec => []RInv
<1>1. RInv /\ [Next]_vars => RInv'
  BY StepTypeOK, StepExcluding, StepAsking, StepServing, StepMeasuring, StepNeverRelabelled,
     StepToolingIsItsOwn DEF RInv
<1> QED BY <1>1, InitRInv, PTL DEF Spec

-----------------------------------------------------------------------------
\* The types of the server, the registry and the handlers.
THEOREM ModelRuntimeTypeOK == Spec => []TypeOK
<1>1. RInv => TypeOK
  BY DEF RInv
<1> QED BY <1>1, Runtime, PTL

\* At most one process holds a model's weights: who starts one holds the lock
\* and has stopped the server.
THEOREM ModelRuntimeOneServer == Spec => []OneServer
<1>1. RInv => OneServer
  <2> SUFFICES ASSUME RInv PROVE OneServer
    OBVIOUS
  <2> DEFINE S == {c \in Clients : pc[c] \in Holding}
  <2>1. \A c \in S : c = lock /\ server = None
    BY DEF RInv, Excluding, Serving, Locked, Stopped
  <2>2. CASE S = {}
    <3>1. Cardinality(S) = 0
      BY <2>2, FS_EmptySet
    <3> QED BY <3>1 DEF OneServer
  <2>3. CASE S # {}
    <3>1. S = {lock} /\ server = None
      BY <2>1, <2>3
    <3>2. Cardinality(S) = 1
      BY <3>1, FS_Singleton
    <3> QED BY <3>1, <3>2 DEF OneServer, IsRunning
  <2> QED BY <2>2, <2>3
<1> QED BY <1>1, Runtime, PTL

\* The registry never names another model than the server has.
THEOREM ModelRuntimeNeverRelabelled == Spec => []NeverRelabelled
<1>1. RInv => NeverRelabelled
  BY DEF RInv
<1> QED BY <1>1, Runtime, PTL

\* Tool profiles were measured on their own model, unless a recheck strayed.
THEOREM ModelRuntimeToolingIsItsOwn == Spec => []ToolingIsItsOwn
<1>1. RInv => ToolingIsItsOwn
  BY DEF RInv
<1> QED BY <1>1, Runtime, PTL

\* What a session is told is prepared is what runs.
THEOREM ModelRuntimePreparedIsRunning == Spec => []PreparedIsRunning
<1>1. RInv => PreparedIsRunning
  BY DEF RInv, Serving, PreparedIsRunning, At
<1> QED BY <1>1, Runtime, PTL

\* A guarded stop finds nobody at work, and nobody begins before it is done.
LEMMA StopsUndisturbed ==
    ASSUME RInv, NEW c \in Clients,
           \/ StopOld(c) \/ UnloadStop(c) \/ Halt(c)
    PROVE  Working = {}
BY DEF RInv, Serving, Undisturbed, StopOld, UnloadStop, Halt, At

LEMMA StopsUnguarded ==
    ASSUME RInv, NEW c \in Clients, CancelStop(c) \/ DeleteStop(c) \/ CalibrateStop(c)
    PROVE  kind[c] \in {"cancel", "delete", "calibrate"} /\ pc'[c] # pc[c]
BY DEF RInv, TypeOK, Asking, CancelStop, DeleteStop, CalibrateStop, At, Goto

\* No request but those three stops the server under a reply or a run.
THEOREM ModelRuntimeNeverUnderWork == Spec => NeverUnderWork
<1>1. RInv /\ [Next]_vars =>
         [Working # {} /\ server # None /\ server' = None
          => \E c \in Clients : /\ kind[c] \in {"cancel", "delete", "calibrate"}
                                /\ pc'[c] # pc[c]]_vars
  <2> SUFFICES ASSUME RInv, Next, Working # {}, server # None, server' = None
               PROVE  \E c \in Clients : /\ kind[c] \in {"cancel", "delete", "calibrate"}
                                         /\ pc'[c] # pc[c]
    OBVIOUS
  <2>1. \A c \in Clients : ~(StopOld(c) \/ UnloadStop(c) \/ Halt(c))
    BY StopsUndisturbed
  <2>2. \A c \in Clients : ~Publish(c)
    <3>1. ASSUME NEW c \in Clients, Publish(c) PROVE FALSE
      <4>1. target[c] \in Models /\ measured[c] \in Models \union {None}
        BY <3>1 DEF RInv, TypeOK, Asking, Publish, At
      <4> QED BY <3>1, <4>1, RuntimeAssumption DEF Publish
    <3> QED BY <3>1
  <2>3. \A c \in Clients : ~Keep(c)
    BY RuntimeAssumption DEF RInv, TypeOK, Keep
  <2>4. ~Crash
    BY RuntimeAssumption DEF RInv, TypeOK, Crash
  <2>5. ~Terminated
    BY DEF Terminated, vars
  <2>6. PICK c \in Clients : CancelStop(c) \/ DeleteStop(c) \/ CalibrateStop(c)
    <3>1. server' # server
      OBVIOUS
    <3>2. ASSUME NEW c \in Clients,
                 \/ Load(c) \/ LoadGuard(c) \/ Start(c) \/ StartValidate(c)
                 \/ CheckCancelled(c) \/ Resolve(c) \/ Command(c) \/ LoadModelById(c)
                 \/ TakeUpdate(c) \/ Unmark(c) \/ Spawn(c) \/ Launch(c)
                 \/ ToolingForLoad(c) \/ RunToolCheck(c) \/ Mark(c) \/ SayReady(c) \/ Fail(c)
          PROVE  FALSE
      BY <3>1, <3>2 DEF Load, LoadGuard, Start, StartValidate, CheckCancelled, Resolve, Command,
         LoadModelById, TakeUpdate, Unmark, Spawn, Launch, ToolingForLoad, RunToolCheck, Mark,
         SayReady, Fail, Processes
    <3>3. ASSUME NEW c \in Clients,
                 \/ Unload(c) \/ UnloadMark(c) \/ InferenceStop(c) \/ HaltUnmark(c)
                 \/ CancelLoad(c) \/ CancelSay(c) \/ DeleteModel(c) \/ DeleteUnmark(c) \/ Delete(c)
                 \/ Recheck(c) \/ Snapshot(c) \/ TakeRecheck(c) \/ Remeasure(c)
                 \/ Prepare(c) \/ Look(c) \/ LookAgain(c) \/ Prepared(c)
                 \/ Calibrate(c) \/ TakeCalibrate(c) \/ CalibrateUnmark(c) \/ Benchmarks(c)
                 \/ Work(c) \/ RegisterWork(c) \/ EndWork(c) \/ Disconnect(c)
          PROVE  FALSE
      BY <3>1, <3>3 DEF Unload, UnloadMark, InferenceStop, HaltUnmark, CancelLoad, CancelSay,
         DeleteModel, DeleteUnmark, Delete, Recheck, Snapshot, TakeRecheck, Remeasure, Prepare,
         Look, LookAgain, Prepared, Calibrate, TakeCalibrate, CalibrateUnmark, Benchmarks, Work,
         RegisterWork, EndWork, Disconnect, Processes
    <3> QED BY <2>1, <2>2, <2>3, <2>4, <2>5, <3>1, <3>2, <3>3 DEF Next
  <2> QED BY <2>6, StopsUnguarded
<1> QED BY <1>1, Runtime, PTL DEF Spec, NeverUnderWork

-----------------------------------------------------------------------------
(* The list of models.                                                       *)

VARIABLE list \* a catalogue, as Catalogue has it

List == INSTANCE Catalogue

\* The models folder as anybody may leave it, and the list of models as specified.
Ids == {"dir", "root", "dir-a", "dir-b", "dir-s1", "dir-s2"}
AllFiles == List!Weights \union List!Projectors \union {"root"}
Entries ==
    [id : Ids, file : List!Weights \union {"root"}, projector : List!Projectors \union {List!None}]
FolderStates ==
    [files : UNION {[S -> List!Kinds] : S \in SUBSET AllFiles}, meta : DOMAIN List!Metas \union {List!None}]
Lists ==
    [disk : FolderStates, models : UNION {[S -> Entries] : S \in SUBSET Ids}, current : Ids \union {List!None},
     scan : SUBSET Entries, scanned : BOOLEAN, fresh : BOOLEAN, last : Entries \union {<<>>}]

ListBegins == \E disk \in FolderStates : list = List!New(disk)
ListSpec == ListBegins /\ [][list' \in List!Next(list)]_list

LInv(c) == c \in Lists /\ List!LoadedStays(c) /\ List!ListIsTrue(c) /\ List!FilesAreOnce(c)

-----------------------------------------------------------------------------
(* What a scan finds.                                                        *)

\* Every model found has an id and a file of its own, and all that it needs is there.
FoundWhole(disk, e) ==
    /\ e \in Entries /\ List!There(disk, e.file) /\ disk.files[e.file] \in {"whole", "tail"}
    /\ e.file = "s1" => List!There(disk, "s2")
    /\ e.projector # List!None =>
          List!There(disk, e.projector) /\ \A p \in List!Projectors : List!There(disk, p) => p = e.projector

LEMMA ScanSound ==
    ASSUME NEW disk \in FolderStates
    PROVE  /\ \A e \in List!Scan(disk) : FoundWhole(disk, e)
           /\ \A e, f \in List!Scan(disk) : e.id = f.id \/ e.file = f.file => e = f
<1> DEFINE projector == List!ProjectorIn(disk)
           folder == IF disk.meta = List!None THEN List!Inferred(disk) ELSE List!Described(disk)
<1>1. DOMAIN disk.files \subseteq AllFiles /\ \A f \in DOMAIN disk.files : disk.files[f] \in List!Kinds
  BY DEF FolderStates
<1>2. /\ projector \in List!Projectors \union {List!None}
      /\ projector # List!None =>
            List!There(disk, projector) /\ \A p \in List!Projectors : List!There(disk, p) => p = projector
  <2> DEFINE there == {p \in List!Projectors : List!There(disk, p)}
  <2>1. projector = IF List!Single(there) THEN CHOOSE p \in there : TRUE ELSE List!None
    BY DEF List!ProjectorIn
  <2>2. CASE List!Single(there)
    <3>1. PICK x : there = {x}
      BY <2>2 DEF List!Single
    <3>2. projector = x
      BY <2>1, <2>2, <3>1
    <3> QED BY <3>1, <3>2
  <2>3. CASE ~List!Single(there)
    BY <2>1, <2>3
  <2> QED BY <2>2, <2>3
<1> HIDE DEF projector
<1>3. ASSUME NEW f \in List!Weights \union {"root"}, List!Checked(disk, f), NEW id \in Ids,
             NEW p \in {List!None, projector}
      PROVE  FoundWhole(disk, List!Entry(id, f, p))
  <2>1. List!There(disk, f) /\ disk.files[f] \in {"whole", "tail"} /\ (f = "s1" => List!There(disk, "s2"))
    BY <1>1, <1>3 DEF List!Checked, List!Complete, List!HasHeader, List!There, List!Kinds
  <2>2. List!Entry(id, f, p).file = f /\ List!Entry(id, f, p).projector = p
    BY DEF List!Entry
  <2>3. List!Entry(id, f, p) \in Entries
    BY <1>2 DEF List!Entry, Entries
  <2> QED BY <1>2, <2>1, <2>2, <2>3 DEF FoundWhole
<1>4. ASSUME NEW e \in List!Inferred(disk)
      PROVE  \E f \in List!Candidates(disk) :
                e = List!Entry(IF List!Single(List!Candidates(disk)) THEN "dir" ELSE List!NamedAfter[f], f, projector)
  BY <1>4 DEF List!Inferred, projector
<1>5. ASSUME NEW e \in List!Inferred(disk)
      PROVE  FoundWhole(disk, e) /\ e.file \in List!Weights
  <2>1. PICK f \in List!Candidates(disk) :
           e = List!Entry(IF List!Single(List!Candidates(disk)) THEN "dir" ELSE List!NamedAfter[f], f, projector)
    BY <1>4, <1>5
  <2>2. f \in List!Weights /\ List!Checked(disk, f)
    BY <2>1 DEF List!Candidates
  <2>3. List!NamedAfter[f] \in Ids /\ "dir" \in Ids
    BY <2>2 DEF List!NamedAfter, List!Weights, Ids
  <2> QED BY <1>3, <2>1, <2>2, <2>3 DEF List!Entry
<1>6. ASSUME NEW e \in List!Inferred(disk), NEW g \in List!Inferred(disk), e.id = g.id \/ e.file = g.file
      PROVE  e = g
  <2> DEFINE alone == List!Single(List!Candidates(disk))
  <2>1. PICK f \in List!Candidates(disk) : e = List!Entry(IF alone THEN "dir" ELSE List!NamedAfter[f], f, projector)
    BY <1>4, <1>6
  <2>2. PICK h \in List!Candidates(disk) : g = List!Entry(IF alone THEN "dir" ELSE List!NamedAfter[h], h, projector)
    BY <1>4, <1>6
  <2>4. CASE alone
    <3>1. f = h
      BY <2>4 DEF List!Single
    <3> QED BY <2>1, <2>2, <3>1
  <2>5. CASE ~alone
    <3>1. f \in List!Weights /\ h \in List!Weights
      BY DEF List!Candidates
    <3>2. e.id = List!NamedAfter[f] /\ g.id = List!NamedAfter[h] /\ e.file = f /\ g.file = h
      BY <2>1, <2>2, <2>5 DEF List!Entry
    <3>3. f = h
      BY <1>6, <3>1, <3>2 DEF List!NamedAfter, List!Weights
    <3> QED BY <2>1, <2>2, <3>3
  <2> QED BY <2>4, <2>5
<1>7. ASSUME disk.meta # List!None
      PROVE  /\ \A e \in List!Described(disk) : FoundWhole(disk, e) /\ e.file \in List!Weights
             /\ \A e, g \in List!Described(disk) : e = g
  <2> DEFINE meta == List!Metas[disk.meta]
             complete == {f \in List!Weights : List!There(disk, f) /\ List!Complete(disk, f)}
             file == IF List!There(disk, meta.file) THEN meta.file
                     ELSE IF meta.file = "" /\ List!Single(complete) THEN CHOOSE f \in complete : TRUE
                     ELSE List!None
  <2>1. List!Described(disk) =
           IF file # List!None /\ List!Checked(disk, file) THEN {List!Entry(meta.id, file, projector)} ELSE {}
    BY DEF List!Described, projector
  <2>2. meta.id \in Ids /\ meta.file \in {"", "a"}
    <3>1. disk.meta \in {"folder", "bound", "clash"}
      BY <1>7 DEF FolderStates, List!Metas
    <3>2. /\ List!Metas["folder"] = [id |-> "dir", file |-> ""]
          /\ List!Metas["bound"] = [id |-> "dir", file |-> "a"]
          /\ List!Metas["clash"] = [id |-> "root", file |-> "a"]
      BY DEF List!Metas
    <3>3. \/ meta = List!Metas["folder"] \/ meta = List!Metas["bound"] \/ meta = List!Metas["clash"]
      BY <3>1
    <3> HIDE DEF meta
    <3>4. CASE meta = [id |-> "dir", file |-> ""]
      BY <3>4 DEF Ids
    <3>5. CASE meta = [id |-> "dir", file |-> "a"]
      BY <3>5 DEF Ids
    <3>6. CASE meta = [id |-> "root", file |-> "a"]
      BY <3>6 DEF Ids
    <3> QED BY <3>2, <3>3, <3>4, <3>5, <3>6
  <2>3. List!There(disk, meta.file) => meta.file = "a"
    <3>1. "" \notin AllFiles
      BY DEF AllFiles, List!Weights, List!Projectors
    <3> QED BY <1>1, <2>2, <3>1 DEF List!There
  <2>4. file # List!None => file \in List!Weights
    <3>1. CASE List!There(disk, meta.file)
      BY <2>3, <3>1 DEF List!Weights
    <3>2. CASE ~List!There(disk, meta.file) /\ List!Single(complete) /\ meta.file = ""
      <4>2. PICK x : complete = {x}
        BY <3>2 DEF List!Single
      <4>3. file = x /\ x \in List!Weights
        BY <3>2, <4>2
      <4> QED BY <4>3
    <3>3. CASE ~List!There(disk, meta.file) /\ ~(List!Single(complete) /\ meta.file = "")
      BY <3>3
    <3> QED BY <3>1, <3>2, <3>3
  <2> HIDE DEF file, meta
  <2>5. CASE file # List!None /\ List!Checked(disk, file)
    <3>1. FoundWhole(disk, List!Entry(meta.id, file, projector))
      BY <1>3, <2>2, <2>4, <2>5
    <3>2. List!Entry(meta.id, file, projector).file = file
      BY DEF List!Entry
    <3> QED BY <2>1, <2>4, <2>5, <3>1, <3>2
  <2>6. CASE ~(file # List!None /\ List!Checked(disk, file))
    BY <2>1, <2>6
  <2> QED BY <2>5, <2>6
<1>8. /\ \A e \in folder : FoundWhole(disk, e) /\ e.file \in List!Weights
      /\ \A e, g \in folder : e.id = g.id \/ e.file = g.file => e = g
  BY <1>5, <1>6, <1>7
<1> HIDE DEF folder
<1> DEFINE root == IF List!Checked(disk, "root") THEN {List!Entry("root", "root", List!None)} ELSE {}
<1>9. List!Scan(disk) = folder \union {e \in root : \A other \in folder : other.id # e.id}
  BY DEF List!Scan, folder
<1>10. \A e \in root : FoundWhole(disk, e) /\ e.file = "root" /\ e = List!Entry("root", "root", List!None)
  <2>1. ASSUME List!Checked(disk, "root") PROVE FoundWhole(disk, List!Entry("root", "root", List!None))
    BY <1>3, <2>1 DEF Ids
  <2> QED BY <2>1 DEF List!Entry
<1> HIDE DEF root
<1>11. "root" \notin List!Weights
  BY DEF List!Weights
<1> QED BY <1>8, <1>9, <1>10, <1>11

-----------------------------------------------------------------------------
(* What a scan makes of the list.                                            *)

LEMMA Tables ==
    ASSUME NEW c \in Lists
    PROVE  /\ c.models = [id \in DOMAIN c.models |-> c.models[id]] /\ DOMAIN c.models \subseteq Ids
           /\ \A id \in DOMAIN c.models : c.models[id] \in Entries
           /\ c.disk \in FolderStates /\ c.current \in Ids \union {List!None} /\ c.scan \in SUBSET Entries
BY DEF Lists

\* A list with other models.
LEMMA Relisted ==
    ASSUME NEW c \in Lists, NEW models, models = [id \in DOMAIN models |-> models[id]],
           DOMAIN models \subseteq Ids, \A id \in DOMAIN models : models[id] \in Entries
    PROVE  LET u == [c EXCEPT !.models = models]
           IN /\ u \in Lists /\ u.models = models /\ u.disk = c.disk /\ u.current = c.current
              /\ u.scan = c.scan /\ u.scanned = c.scanned /\ u.fresh = c.fresh /\ u.last = c.last
<1>1. models \in [DOMAIN models -> Entries]
  OBVIOUS
<1>2. models \in UNION {[S -> Entries] : S \in SUBSET Ids}
  BY <1>1
<1> QED BY <1>2 DEF Lists

\* An entry is the one found under its id, unless the loaded model's file is another; what was
\* not found is as it was. What is there, was found or is loaded stays.
LEMMA Reconciled ==
    ASSUME NEW c \in Lists, NEW found \in SUBSET Entries
    PROVE  LET u == List!Reconcile(c, found)
           IN /\ u \in Lists /\ u.disk = c.disk /\ u.current = c.current /\ u.scan = c.scan
              /\ u.scanned = c.scanned /\ u.fresh = c.fresh /\ u.last = c.last
              /\ \A id \in DOMAIN u.models :
                    /\ \/ \E e \in found : e.id = id /\ ~List!Refused(c, e) /\ u.models[id] = e
                       \/ /\ id \in DOMAIN c.models /\ u.models[id] = c.models[id]
                          /\ \A e \in found : e.id = id => List!Refused(c, e)
                    /\ \/ \E e \in found : e.id = id
                       \/ id = c.current \/ List!There(c.disk, u.models[id].file)
              /\ \A e \in found : e.id \in DOMAIN u.models
              /\ c.current \in DOMAIN c.models => c.current \in DOMAIN u.models
<1> DEFINE u == List!Reconcile(c, found)
           accepted == {e \in found : ~List!Refused(c, e)}
           ids == {e.id : e \in accepted}
           all == List!Registered(c, found)
           stay == {id \in DOMAIN all : \/ \E e \in found : e.id = id
                                       \/ id = c.current \/ List!There(c.disk, all[id].file)}
           models == [id \in stay |-> all[id]]
<1>1. all = [id \in DOMAIN c.models \union ids |->
                IF id \in ids THEN CHOOSE e \in accepted : e.id = id ELSE c.models[id]]
  BY DEF List!Registered
<1>2. u = [c EXCEPT !.models = models]
  BY DEF List!Reconcile, List!Restrict
<1>3. DOMAIN all = DOMAIN c.models \union ids
  BY <1>1
<1>4. ASSUME NEW id \in ids
      PROVE  \E e \in found : e.id = id /\ ~List!Refused(c, e) /\ all[id] = e
  <2>1. PICK e \in accepted : e.id = id
    BY <1>4
  <2>2. all[id] = CHOOSE x \in accepted : x.id = id
    BY <1>1, <1>3
  <2>3. all[id] \in accepted /\ all[id].id = id
    BY <2>1, <2>2
  <2> QED BY <2>3
<1>5. ASSUME NEW id \in DOMAIN c.models, id \notin ids
      PROVE  all[id] = c.models[id] /\ \A e \in found : e.id = id => List!Refused(c, e)
  BY <1>1, <1>5
<1>6. DOMAIN all \subseteq Ids /\ \A id \in DOMAIN all : all[id] \in Entries
  <2>1. ASSUME NEW id \in DOMAIN all PROVE id \in Ids /\ all[id] \in Entries
    <3>1. CASE id \in ids
      <4>1. PICK e \in found : e.id = id /\ all[id] = e
        BY <1>4, <3>1
      <4>2. e \in Entries
        OBVIOUS
      <4> QED BY <4>1, <4>2 DEF Entries
    <3>2. CASE id \notin ids
      <4>1. id \in DOMAIN c.models
        BY <1>3, <3>2
      <4> QED BY <1>5, <3>2, <4>1, Tables
    <3> QED BY <3>1, <3>2
  <2> QED BY <2>1
<1>7. ASSUME NEW e \in found PROVE e.id \in DOMAIN all
  <2>1. CASE List!Refused(c, e)
    BY <1>3, <2>1 DEF List!Refused
  <2>2. CASE ~List!Refused(c, e)
    BY <1>3, <2>2
  <2> QED BY <2>1, <2>2
<1> HIDE DEF all, ids, accepted
<1>8. DOMAIN models = stay /\ stay \subseteq DOMAIN all /\ \A id \in stay : models[id] = all[id]
  OBVIOUS
<1>9. /\ \A e \in found : e.id \in stay
      /\ c.current \in DOMAIN c.models => c.current \in stay
      /\ \A id \in stay : \/ \E e \in found : e.id = id
                         \/ id = c.current \/ List!There(c.disk, all[id].file)
  BY <1>3, <1>7
<1> HIDE DEF stay
<1>10. models = [id \in DOMAIN models |-> models[id]]
  BY <1>8
<1> HIDE DEF models
<1>11. /\ u \in Lists /\ u.models = models /\ u.disk = c.disk /\ u.current = c.current
       /\ u.scan = c.scan /\ u.scanned = c.scanned /\ u.fresh = c.fresh /\ u.last = c.last
  BY <1>2, <1>6, <1>8, <1>10, Relisted
<1> HIDE DEF u
<1>12. ASSUME NEW id \in DOMAIN u.models
       PROVE  /\ \/ \E e \in found : e.id = id /\ ~List!Refused(c, e) /\ u.models[id] = e
                 \/ /\ id \in DOMAIN c.models /\ u.models[id] = c.models[id]
                    /\ \A e \in found : e.id = id => List!Refused(c, e)
              /\ \/ \E e \in found : e.id = id
                 \/ id = c.current \/ List!There(c.disk, u.models[id].file)
  <2>1. id \in stay /\ u.models[id] = all[id]
    BY <1>8, <1>11
  <2> QED BY <1>3, <1>4, <1>5, <1>8, <1>9, <2>1
<1> QED BY <1>8, <1>9, <1>11, <1>12 DEF u

\* The loaded model stays, whatever was found, and when.
LEMMA LoadedIsKept ==
    ASSUME NEW c \in Lists, List!LoadedStays(c), NEW found \in SUBSET Entries
    PROVE  List!LoadedStays(List!Reconcile(c, found))
<1> DEFINE u == List!Reconcile(c, found)
<1>1. /\ u.current = c.current /\ u.last = c.last
      /\ c.current \in DOMAIN c.models => c.current \in DOMAIN u.models
      /\ \A id \in DOMAIN u.models :
            \/ \E e \in found : e.id = id /\ ~List!Refused(c, e) /\ u.models[id] = e
            \/ u.models[id] = c.models[id]
  BY Reconciled
<1> HIDE DEF u
<1>2. SUFFICES ASSUME c.current # List!None
               PROVE  c.current \in DOMAIN u.models /\ u.models[c.current].file = c.last.file
  BY <1>1 DEF List!LoadedStays, u
<1>3. c.current \in DOMAIN c.models /\ c.models[c.current].file = c.last.file
  BY <1>2 DEF List!LoadedStays
<1>4. CASE u.models[c.current] = c.models[c.current]
  BY <1>1, <1>3, <1>4
<1>5. ASSUME NEW e \in found, e.id = c.current, ~List!Refused(c, e), u.models[c.current] = e
      PROVE  u.models[c.current].file = c.last.file
  BY <1>3, <1>5 DEF List!Refused
<1> QED BY <1>1, <1>3, <1>4, <1>5

\* The list as it is after a scan of the folder as it is.
LEMMA ListedIsTrue ==
    ASSUME NEW c \in Lists, NEW u \in Lists, u.disk = c.disk, u.current = c.current,
           u.models = List!Reconcile(c, List!Scan(c.disk)).models
    PROVE  List!ListIsTrue(u) /\ List!FilesAreOnce(u)
<1> DEFINE found == List!Scan(c.disk)
<1>1. c.disk \in FolderStates
  BY Tables
<1>2. /\ \A e \in found : FoundWhole(c.disk, e)
      /\ \A e, f \in found : e.id = f.id \/ e.file = f.file => e = f
  BY <1>1, ScanSound
<1>3. found \in SUBSET Entries
  BY <1>2 DEF FoundWhole
<1>4. /\ \A id \in DOMAIN u.models :
            /\ \/ \E e \in found : e.id = id /\ ~List!Refused(c, e) /\ u.models[id] = e
               \/ /\ id \in DOMAIN c.models /\ u.models[id] = c.models[id]
                  /\ \A e \in found : e.id = id => List!Refused(c, e)
            /\ \/ \E e \in found : e.id = id
               \/ id = c.current \/ List!There(c.disk, u.models[id].file)
      /\ \A e \in found : e.id \in DOMAIN u.models
  BY <1>3, Reconciled
<1> HIDE DEF found
<1>5. ASSUME NEW e \in found, e.id # c.current PROVE u.models[e.id] = e
  <2>1. ~List!Refused(c, e)
    BY <1>5 DEF List!Refused
  <2> QED BY <1>2, <1>4, <1>5, <2>1
<1>6. ASSUME NEW id \in DOMAIN u.models, id # c.current PROVE List!There(c.disk, u.models[id].file)
  <2>1. CASE \E e \in found : e.id = id
    BY <1>2, <1>5, <1>6, <2>1 DEF FoundWhole
  <2> QED BY <1>4, <1>6, <2>1
<1>7. List!ListIsTrue(u)
  BY <1>2, <1>4, <1>5, <1>6 DEF List!ListIsTrue, found
<1>8. ASSUME NEW i \in DOMAIN u.models, NEW j \in DOMAIN u.models, i # j,
             u.models[i].file = u.models[j].file,
             \A id \in {i, j} : ~List!Renamed(u, id) /\ ~List!Displaced(u, id)
      PROVE  FALSE
  <2>1. ASSUME NEW id \in {i, j} PROVE \E e \in found : e.id = id /\ e.file = u.models[id].file
    <3>1. PICK e \in found : e.id = id
      BY <1>8, <2>1 DEF List!Renamed, found
    <3>2. CASE id = c.current
      BY <1>8, <2>1, <3>1, <3>2 DEF List!Displaced, found
    <3>3. CASE id # c.current
      BY <1>5, <3>1, <3>3
    <3> QED BY <3>1, <3>2, <3>3
  <2>2. PICK e \in found : e.id = i /\ e.file = u.models[i].file
    BY <2>1
  <2>3. PICK f \in found : f.id = j /\ f.file = u.models[j].file
    BY <2>1
  <2> QED BY <1>2, <1>8, <2>2, <2>3
<1>9. List!FilesAreOnce(u)
  BY <1>8 DEF List!FilesAreOnce
<1> QED BY <1>7, <1>9

-----------------------------------------------------------------------------
(* Every step.                                                               *)

\* The list speaks of the folder, the models and the loaded one alone.
LEMMA SameList ==
    ASSUME NEW c \in Lists, LInv(c), NEW u \in Lists, u.disk = c.disk, u.models = c.models,
           u.current = c.current, u.last = c.last, u.fresh = c.fresh
    PROVE  LInv(u)
<1>1. List!LoadedStays(u)
  BY DEF LInv, List!LoadedStays
<1>2. List!ListIsTrue(u)
  BY DEF LInv, List!ListIsTrue
<1>3. List!FilesAreOnce(u)
  BY DEF LInv, List!FilesAreOnce, List!Renamed, List!Displaced
<1> QED BY <1>1, <1>2, <1>3 DEF LInv

\* After anything else than a scan, no request has listed the models as they are.
LEMMA Stale ==
    ASSUME NEW u \in Lists, ~u.fresh, List!LoadedStays(u)
    PROVE  LInv(u)
BY DEF LInv, List!ListIsTrue, List!FilesAreOnce

LEMMA FolderMoves ==
    ASSUME NEW c \in Lists, LInv(c), NEW disk \in FolderStates
    PROVE  LInv(List!Moved([c EXCEPT !.disk = disk]))
<1> DEFINE u == List!Moved([c EXCEPT !.disk = disk])
<1>1. /\ u \in Lists /\ ~u.fresh /\ u.models = c.models /\ u.current = c.current /\ u.last = c.last
  BY DEF List!Moved, Lists
<1> HIDE DEF u
<1>2. List!LoadedStays(u)
  BY <1>1 DEF LInv, List!LoadedStays
<1> QED BY <1>1, <1>2, Stale DEF u

LEMMA Files ==
    ASSUME NEW c \in Lists, NEW files, NEW S \in SUBSET AllFiles, files \in [S -> List!Kinds]
    PROVE  /\ [c.disk EXCEPT !.files = files] \in FolderStates
           /\ [c EXCEPT !.disk.files = files] = [c EXCEPT !.disk = [c.disk EXCEPT !.files = files]]
<1>1. files \in UNION {[T -> List!Kinds] : T \in SUBSET AllFiles}
  OBVIOUS
<1>2. c.disk \in FolderStates
  BY Tables
<1> QED BY <1>1, <1>2 DEF FolderStates

LEMMA OnDisk ==
    ASSUME NEW c \in Lists
    PROVE  DOMAIN c.disk.files \subseteq AllFiles /\ \A f \in DOMAIN c.disk.files : c.disk.files[f] \in List!Kinds
BY DEF Lists, FolderStates

LEMMA DiskSteps ==
    ASSUME NEW c \in Lists, LInv(c), NEW u \in List!DiskSteps(c)
    PROVE  LInv(u)
<1> USE OnDisk
<1>1. ASSUME NEW f \in AllFiles, NEW how \in List!Kinds,
             u = List!Moved([c EXCEPT !.disk.files =
                    [g \in DOMAIN c.disk.files \union {f} |-> IF g = f THEN how ELSE c.disk.files[g]]])
      PROVE  LInv(u)
  <2> DEFINE S == DOMAIN c.disk.files \union {f}
             files == [g \in S |-> IF g = f THEN how ELSE c.disk.files[g]]
  <2>1. S \in SUBSET AllFiles /\ files \in [S -> List!Kinds]
    OBVIOUS
  <2>2. u = List!Moved([c EXCEPT !.disk.files = files])
    BY <1>1
  <2> HIDE DEF files, S
  <2> QED BY <2>1, <2>2, Files, FolderMoves
<1>2. ASSUME NEW f \in DOMAIN c.disk.files,
             u = List!Moved([c EXCEPT !.disk.files = List!Restrict(c.disk.files, DOMAIN c.disk.files \ {f})])
      PROVE  LInv(u)
  <2> DEFINE S == DOMAIN c.disk.files \ {f}
             files == List!Restrict(c.disk.files, S)
  <2>1. S \in SUBSET AllFiles /\ files \in [S -> List!Kinds]
    BY DEF List!Restrict
  <2>2. u = List!Moved([c EXCEPT !.disk.files = files])
    BY <1>2
  <2> HIDE DEF files, S
  <2> QED BY <2>1, <2>2, Files, FolderMoves
<1>3. ASSUME NEW meta \in DOMAIN List!Metas \union {List!None}, u = List!Moved([c EXCEPT !.disk.meta = meta])
      PROVE  LInv(u)
  <2>1. [c.disk EXCEPT !.meta = meta] \in FolderStates
    BY Tables DEF FolderStates
  <2>2. [c EXCEPT !.disk.meta = meta] = [c EXCEPT !.disk = [c.disk EXCEPT !.meta = meta]]
    BY DEF Lists
  <2> QED BY <1>3, <2>1, <2>2, FolderMoves
<1> DEFINE Put(f, how) == List!Moved([c EXCEPT !.disk.files =
                              [g \in DOMAIN c.disk.files \union {f} |-> IF g = f THEN how ELSE c.disk.files[g]]])
           Copied == {Put(f, how) : f \in List!Weights \union {"root"} \union List!Projectors, how \in List!Kinds}
           Removed == {List!Moved([c EXCEPT !.disk.files =
                           List!Restrict(c.disk.files, DOMAIN c.disk.files \ {f})]) : f \in DOMAIN c.disk.files}
           Rewritten == {List!Moved([c EXCEPT !.disk.meta = meta]) : meta \in DOMAIN List!Metas \union {List!None}}
<1>4. List!DiskSteps(c) = Copied \union Removed \union Rewritten
  BY DEF List!DiskSteps
<1>5. CASE u \in Copied
  <2> HIDE DEF Put
  <2>1. PICK f \in List!Weights \union {"root"} \union List!Projectors, how \in List!Kinds : u = Put(f, how)
    BY <1>5
  <2>2. f \in AllFiles
    BY DEF AllFiles
  <2> QED BY <1>1, <2>1, <2>2 DEF Put
<1>6. CASE u \in Removed
  <2>1. PICK f \in DOMAIN c.disk.files :
           u = List!Moved([c EXCEPT !.disk.files = List!Restrict(c.disk.files, DOMAIN c.disk.files \ {f})])
    BY <1>6, Zenon
  <2> QED BY <1>2, <2>1
<1>7. CASE u \in Rewritten
  BY <1>3, <1>7
<1> HIDE DEF Copied, Removed, Rewritten
<1> QED BY <1>4, <1>5, <1>6, <1>7

\* What a scan of the folder finds are entries of the list.
LEMMA ScanIsOfEntries ==
    ASSUME NEW c \in Lists
    PROVE  List!Scan(c.disk) \in SUBSET Entries
<1>1. c.disk \in FolderStates
  BY Tables
<1> QED BY <1>1, ScanSound DEF FoundWhole

LEMMA Listings ==
    ASSUME NEW c \in Lists, LInv(c),
           NEW u \in {List!BeginList(c), List!EndList(c), List!ListAtOnce(c)}
    PROVE  LInv(u)
<1>1. CASE u = List!BeginList(c)
  <2>1. u \in Lists
    BY <1>1, ScanIsOfEntries DEF List!BeginList, Lists
  <2>2. /\ u.disk = c.disk /\ u.models = c.models
        /\ u.current = c.current /\ u.last = c.last /\ u.fresh = c.fresh
    BY <1>1 DEF List!BeginList, Lists
  <2> QED BY <2>1, <2>2, SameList
<1>2. CASE u = List!EndList(c)
  <2> DEFINE v == List!Reconcile(c, c.scan)
  <2>1. v \in Lists /\ v.disk = c.disk /\ v.current = c.current /\ v.last = c.last
    BY Tables, Reconciled
  <2>2. List!LoadedStays(v)
    BY Tables, LoadedIsKept DEF LInv
  <2>3. u = [v EXCEPT !.fresh = (c.scan = List!Scan(c.disk)), !.scanned = FALSE, !.scan = {}]
    BY <1>2 DEF List!EndList
  <2>4. v.models = List!Reconcile(c, c.scan).models
    OBVIOUS
  <2> HIDE DEF v
  <2>5. /\ u \in Lists /\ u.disk = c.disk /\ u.current = c.current /\ u.last = v.last /\ u.models = v.models
        /\ u.fresh = (c.scan = List!Scan(c.disk))
    BY <2>1, <2>3 DEF Lists
  <2>6. List!LoadedStays(u)
    BY <2>1, <2>2, <2>5 DEF List!LoadedStays
  <2>7. CASE c.scan = List!Scan(c.disk)
    BY <2>4, <2>5, <2>6, <2>7, ListedIsTrue DEF LInv
  <2>8. CASE c.scan # List!Scan(c.disk)
    BY <2>5, <2>6, <2>8, Stale
  <2> QED BY <2>7, <2>8
<1>3. CASE u = List!ListAtOnce(c)
  <2> DEFINE v == List!Reconcile(c, List!Scan(c.disk))
  <2>1. v \in Lists /\ v.disk = c.disk /\ v.current = c.current /\ v.last = c.last
    BY ScanIsOfEntries, Reconciled
  <2>2. List!LoadedStays(v)
    BY ScanIsOfEntries, LoadedIsKept DEF LInv
  <2>3. u = [v EXCEPT !.fresh = TRUE]
    BY <1>3 DEF List!ListAtOnce
  <2>4. v.models = List!Reconcile(c, List!Scan(c.disk)).models
    OBVIOUS
  <2> HIDE DEF v
  <2>5. /\ u \in Lists /\ u.disk = c.disk /\ u.current = c.current /\ u.last = v.last /\ u.models = v.models
    BY <2>1, <2>3 DEF Lists
  <2>6. List!LoadedStays(u)
    BY <2>1, <2>2, <2>5 DEF List!LoadedStays
  <2> QED BY <2>4, <2>5, <2>6, ListedIsTrue DEF LInv
<1> QED BY <1>1, <1>2, <1>3

LEMMA Loading ==
    ASSUME NEW c \in Lists, LInv(c), NEW id \in DOMAIN c.models, NEW u \in {List!Load(c, id), List!Unload(c)}
    PROVE  LInv(u)
<1> USE Tables
<1>1. CASE u = List!Load(c, id)
  <2>1. u \in Lists /\ ~u.fresh /\ u.models = c.models /\ u.current = id /\ u.last = c.models[id]
    BY <1>1 DEF List!Load, List!Moved, Lists
  <2> QED BY <2>1, Stale DEF List!LoadedStays
<1>2. CASE u = List!Unload(c)
  <2>1. u \in Lists /\ ~u.fresh /\ u.current = List!None
    BY <1>2 DEF List!Unload, List!Moved, Lists
  <2> QED BY <2>1, Stale DEF List!LoadedStays
<1> QED BY <1>1, <1>2

LEMMA Unloading ==
    ASSUME NEW c \in Lists
    PROVE  LInv(List!Unload(c))
<1>1. LET u == List!Unload(c) IN u \in Lists /\ ~u.fresh /\ u.current = List!None
  BY DEF List!Unload, List!Moved, Lists
<1> QED BY <1>1, Stale DEF List!LoadedStays

LEMMA Deleting ==
    ASSUME NEW c \in Lists, LInv(c), NEW id \in DOMAIN c.models
    PROVE  LInv(List!Delete(c, id))
<1> DEFINE u == List!Delete(c, id)
           files == List!Restrict(c.disk.files, DOMAIN c.disk.files \ {c.models[id].file})
           models == List!Restrict(c.models, DOMAIN c.models \ {id})
           disk == [c.disk EXCEPT !.files = files]
           loaded == IF c.current = id THEN List!None ELSE c.current
<1>1. u = [c EXCEPT !.current = loaded, !.disk.files = files, !.models = models, !.fresh = FALSE]
  BY DEF List!Delete, List!Moved, Lists
<1>2. disk \in FolderStates
  <2> DEFINE S == DOMAIN c.disk.files \ {c.models[id].file}
  <2>1. S \in SUBSET AllFiles /\ files \in [S -> List!Kinds]
    BY OnDisk DEF List!Restrict
  <2> HIDE DEF files, S
  <2> QED BY <2>1, Files
<1>3. /\ DOMAIN models = DOMAIN c.models \ {id}
      /\ \A i \in DOMAIN models : models[i] = c.models[i]
      /\ models = [i \in DOMAIN models |-> models[i]]
  BY DEF List!Restrict
<1> HIDE DEF models
<1>4. models \in UNION {[S -> Entries] : S \in SUBSET Ids}
  <2>1. models \in [DOMAIN models -> Entries] /\ DOMAIN models \in SUBSET Ids
    BY <1>3, Tables
  <2> QED BY <2>1
<1>5. loaded \in Ids \union {List!None}
  BY Tables
<1>6. u = [c EXCEPT !.current = loaded, !.disk = disk, !.models = models, !.fresh = FALSE]
  BY <1>1 DEF Lists
<1> HIDE DEF u, disk
<1>7. u \in Lists /\ ~u.fresh /\ u.models = models /\ u.current = loaded /\ u.last = c.last
  BY <1>2, <1>4, <1>5, <1>6 DEF Lists
<1>8. List!LoadedStays(u)
  BY <1>3, <1>7 DEF LInv, List!LoadedStays
<1> QED BY <1>7, <1>8, Stale DEF u

LEMMA ListSteps ==
    ASSUME NEW c \in Lists, LInv(c), NEW u \in List!Next(c)
    PROVE  LInv(u)
<1>1. \/ u \in List!DiskSteps(c)
      \/ u \in {List!BeginList(c), List!EndList(c), List!ListAtOnce(c)}
      \/ \E id \in DOMAIN c.models : u = List!Load(c, id) \/ u = List!Delete(c, id)
      \/ u = List!Unload(c)
  BY DEF List!Next
<1> QED BY <1>1, DiskSteps, Listings, Loading, Unloading, Deleting

\* Whatever is in the models folder, and whoever copies, cuts or removes files in it while
\* models are listed, loaded and deleted (scan_models_dir, reconcile, register, switch_to,
\* delete_model): a list brought up to date has every model found, once, under an id of its
\* own, and only models with a file; the loaded model stays on it with its file; and what a
\* scan offers has all its parts.
THEOREM ModelsAreListed == ListSpec => []List!CatalogueHolds(list)
<1>1. ListBegins => LInv(list)
  <2> SUFFICES ASSUME NEW disk \in FolderStates, list = List!New(disk) PROVE LInv(list)
    BY DEF ListBegins
  <2>1. <<>> \in UNION {[S -> Entries] : S \in SUBSET Ids}
    <3>1. <<>> \in [{} -> Entries]
      OBVIOUS
    <3> QED BY <3>1
  <2>2. list \in Lists /\ ~list.fresh /\ list.current = List!None
    BY <2>1 DEF List!New, Lists
  <2> QED BY <2>2, Stale DEF List!LoadedStays
<1>2. LInv(list) /\ [list' \in List!Next(list)]_list => LInv(list)'
  <2>1. LInv(list) /\ list' \in List!Next(list) => LInv(list')
    BY ListSteps DEF LInv
  <2> QED BY <2>1
<1>3. LInv(list) => List!CatalogueHolds(list)
  <2> SUFFICES ASSUME LInv(list) PROVE List!OffersAreWhole(list)
    BY DEF LInv, List!CatalogueHolds
  <2>1. list.disk \in FolderStates
    BY Tables DEF LInv
  <2> QED BY <2>1, ScanSound DEF List!OffersAreWhole, FoundWhole
<1> QED BY <1>1, <1>2, <1>3, PTL DEF ListSpec

-----------------------------------------------------------------------------
(* The tool checks of the models.                                           *)

CONSTANTS
    Folder,     \* where a model's weights are
    MaxChanges  \* bound: how often the runtime or a template changes

VARIABLE loads \* tooling files and the profile in use, as ToolCheck has them

Tool == INSTANCE ToolCheck

LoadsBegin == loads = Tool!NewLoads
LoadsSpec == LoadsBegin /\ [][loads' \in Tool!NextLoad(loads)]_loads

Profiles == [of : Models, runtime : {0, 1}, template : {0, 1}]
LoadStates ==
    [files : [Tool!Folders -> Profiles \union {Tool!NoFile}], runtime : {0, 1},
     template : [Models -> {0, 1}], loaded : Models \union {"none"},
     used : Profiles \union {Tool!NoFile}, changes : Nat]

\* Beside the property: a file is of a model whose weights are in its folder, and a
\* profile is used by a loaded model only.
ToolInv(d) ==
    /\ d \in LoadStates
    /\ \A f \in Tool!Folders :
          d.files[f] # Tool!NoFile => d.files[f].of \in Models /\ Folder[d.files[f].of] = f
    /\ d.used # Tool!NoFile => d.loaded \in Models
    /\ Tool!MeasuredAsItRuns(d)

\* A load that finds a profile it may keep.
LEMMA LoadedAsKept ==
    ASSUME NEW d, ToolInv(d), NEW m \in Models, Tool!Current(d, m)
    PROVE  ToolInv([d EXCEPT !.loaded = m, !.used = d.files[Folder[m]]])
<1>1. Folder[m] \in Tool!Folders
  BY DEF Tool!Folders
<1> DEFINE u == [d EXCEPT !.loaded = m, !.used = d.files[Folder[m]]]
<1>2. /\ u \in LoadStates /\ u.loaded = m /\ u.used = d.files[Folder[m]]
      /\ u.files = d.files /\ u.runtime = d.runtime /\ u.template = d.template
  BY <1>1 DEF ToolInv, LoadStates
<1> HIDE DEF u
<1>3. ToolInv(u)
  BY <1>1, <1>2 DEF ToolInv, Tool!MeasuredAsItRuns, Tool!Current
<1> QED BY <1>3 DEF u

\* A check that answers, whether or not its file is written, and one that does not.
LEMMA CheckedAnew ==
    ASSUME NEW d, ToolInv(d), NEW m \in Models, NEW u \in Tool!RunToolCheck(d, m)
    PROVE  ToolInv(u)
<1> DEFINE profile == [of |-> m, runtime |-> d.runtime, template |-> d.template[m]]
           used == [d EXCEPT !.loaded = m, !.used = profile]
<1>1. Folder[m] \in Tool!Folders
  BY DEF Tool!Folders
<1>2. profile \in Profiles /\ profile.of = m /\ profile.runtime = d.runtime
      /\ profile.template = d.template[m]
  BY DEF ToolInv, LoadStates, Profiles
<1> HIDE DEF profile
<1>3. ToolInv(used)
  <2>1. /\ used \in LoadStates /\ used.loaded = m /\ used.used = profile
        /\ used.files = d.files /\ used.runtime = d.runtime /\ used.template = d.template
    BY <1>2 DEF ToolInv, LoadStates
  <2> HIDE DEF used
  <2> QED BY <1>2, <2>1 DEF ToolInv, Tool!MeasuredAsItRuns
<1>4. ToolInv([used EXCEPT !.files[Folder[m]] = profile])
  <2> DEFINE kept == [used EXCEPT !.files[Folder[m]] = profile]
  <2>1. /\ kept \in LoadStates /\ kept.loaded = used.loaded /\ kept.used = used.used
        /\ kept.runtime = used.runtime /\ kept.template = used.template
        /\ kept.files = [used.files EXCEPT ![Folder[m]] = profile]
    <3> HIDE DEF used
    <3> QED BY <1>1, <1>2, <1>3 DEF ToolInv, LoadStates
  <2> HIDE DEF used, kept
  <2>2. \A f \in Tool!Folders :
            kept.files[f] # Tool!NoFile => kept.files[f].of \in Models /\ Folder[kept.files[f].of] = f
    BY <1>1, <1>2, <1>3, <2>1 DEF ToolInv, LoadStates
  <2>3. ToolInv(kept)
    BY <1>3, <2>1, <2>2 DEF ToolInv, Tool!MeasuredAsItRuns
  <2> QED BY <2>3 DEF kept
<1>5. ToolInv([d EXCEPT !.loaded = m, !.used = Tool!NoFile])
  <2> DEFINE bare == [d EXCEPT !.loaded = m, !.used = Tool!NoFile]
  <2>1. bare \in LoadStates /\ bare.used = Tool!NoFile /\ bare.files = d.files
    BY DEF ToolInv, LoadStates
  <2> HIDE DEF bare
  <2>2. ToolInv(bare)
    BY <2>1 DEF ToolInv, Tool!MeasuredAsItRuns
  <2> QED BY <2>2 DEF bare
<1> QED BY <1>3, <1>4, <1>5 DEF Tool!RunToolCheck, profile

\* A change of the runtime or of a template stops the server.
LEMMA StoppedByChange ==
    ASSUME NEW d, ToolInv(d), NEW u \in Tool!Changed(d)
    PROVE  ToolInv(u)
<1> DEFINE stopped == [d EXCEPT !.loaded = "none", !.used = Tool!NoFile, !.changes = @ + 1]
<1>1. stopped \in LoadStates /\ stopped.used = Tool!NoFile /\ stopped.files = d.files
  <2>1. d.changes + 1 \in Nat
    BY DEF ToolInv, LoadStates
  <2> QED BY <2>1 DEF ToolInv, LoadStates
<1>2. u = [stopped EXCEPT !.runtime = 1 - @]
      \/ \E m \in Models : u = [stopped EXCEPT !.template[m] = 1 - @]
  BY DEF Tool!Changed
<1> HIDE DEF stopped
<1>3. u \in LoadStates /\ u.used = Tool!NoFile /\ u.files = d.files
  BY <1>1, <1>2 DEF LoadStates
<1> QED BY <1>3 DEF ToolInv, Tool!MeasuredAsItRuns

\* Whichever models share a folder, however often the runtime or a template changes and
\* whatever is loaded or checked again (profile_state, tooling_for_load, run_tool_check,
\* recheck_model_tooling): a loaded model is run with what was measured on this runtime and
\* with its template, on itself or on a model in the same folder.
THEOREM ToolsAsMeasured == LoadsSpec => []Tool!MeasuredAsItRuns(loads)
<1>1. LoadsBegin => ToolInv(loads)
  <2> SUFFICES ASSUME LoadsBegin PROVE ToolInv(loads)
    OBVIOUS
  <2>1. loads \in LoadStates /\ loads.used = Tool!NoFile
    BY DEF LoadsBegin, Tool!NewLoads, LoadStates
  <2>2. \A f \in Tool!Folders : loads.files[f] = Tool!NoFile
    BY DEF LoadsBegin, Tool!NewLoads
  <2> QED BY <2>1, <2>2 DEF ToolInv, Tool!MeasuredAsItRuns
<1>2. ToolInv(loads) /\ [loads' \in Tool!NextLoad(loads)]_loads => ToolInv(loads)'
  <2> SUFFICES ASSUME ToolInv(loads), loads' \in Tool!NextLoad(loads) PROVE ToolInv(loads')
    BY DEF ToolInv, Tool!MeasuredAsItRuns
  <2>1. \/ \E m \in Models : loads' \in Tool!Load(loads, m)
        \/ loads' \in Tool!Recheck(loads)
        \/ loads' \in Tool!Changed(loads)
    BY DEF Tool!NextLoad
  <2>2. ASSUME NEW m \in Models, loads' \in Tool!Load(loads, m) PROVE ToolInv(loads')
    <3>1. CASE Tool!Current(loads, m)
      <4>1. loads' = [loads EXCEPT !.loaded = m, !.used = loads.files[Folder[m]]]
        BY <2>2, <3>1 DEF Tool!Load
      <4>2. ToolInv([loads EXCEPT !.loaded = m, !.used = loads.files[Folder[m]]])
        BY <3>1, LoadedAsKept
      <4> QED BY <4>1, <4>2
    <3>2. CASE ~Tool!Current(loads, m)
      BY <2>2, <3>2, CheckedAnew DEF Tool!Load
    <3> QED BY <3>1, <3>2
  <2>3. ASSUME loads' \in Tool!Recheck(loads) PROVE ToolInv(loads')
    <3>1. loads.loaded \in Models /\ loads' \in Tool!RunToolCheck(loads, loads.loaded)
      BY <2>3 DEF Tool!Recheck, ToolInv, LoadStates
    <3> QED BY <3>1, CheckedAnew
  <2> QED BY <2>1, <2>2, <2>3, StoppedByChange
<1>3. ToolInv(loads) => Tool!MeasuredAsItRuns(loads)
  BY DEF ToolInv
<1> QED BY <1>1, <1>2, <1>3, PTL DEF LoadsSpec
=============================================================================
