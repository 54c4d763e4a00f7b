--------------------------- MODULE AgentRunProofs ---------------------------
(***************************************************************************)
(* AgentRun for any number of runs, crashes and stops and a registry of    *)
(* any size: how the end of a run is on its way to the database from the   *)
(* moment it is over, whoever ended it; and what the page that follows a   *)
(* run, through EventFeed, is shown of it.                                 *)
(***************************************************************************)
EXTENDS AgentRun, SequenceTheorems, WellFoundedInduction, TLAPS

\* What is known of a run by where it is.
Begun ==
    \A r \in Runs :
        /\ handler[r] = "idle" => /\ task[r] = "none" /\ stop[r] = "idle" /\ late[r] = 0
                                  /\ queue[r] = <<>>
        /\ task[r] = "none" => handler[r] = "idle"
        /\ task[r] \in {"persist", "send"} => end[r] \in Terminal
        /\ (abort[r] \/ task[r] = "aborted") /\ r \notin silenced => stop[r] # "idle"
        /\ Registered(r) => handler[r] = "gone" /\ task[r] # "gone"

\* A run that died with the process reports nothing any more; the recovery has
\* seen to its journal and to the conversation's task context.
Buried ==
    \A r \in Runs :
        /\ task[r] = "gone" => /\ handler[r] = "gone" /\ stop[r] # "acted"
                               /\ queue[r] = <<>> /\ (writer # None => writer.run # r)
        /\ ~up => task[r] \in {"none", "gone"} /\ writer = None
        /\ up /\ task[r] = "gone" => /\ activity[r] # "step"
                                     /\ context.run = r => context.status # "active"

\* The journal stores the message before the context.
Writing == writer # None /\ writer.at = "context" => content[writer.run] = writer.state

\* The database says that the run is over.
Said(r) == content[r] # "starting" /\ (context.run = r => context.status # "active")

HasEnd(q) == \E i \in DOMAIN q : q[i] \in Terminal

\* The end of a run that is over or was reported by Stop is stored or on its way.
Ending ==
    \A r \in Runs :
        task[r] = "over" \/ (stop[r] = "done" /\ task[r] # "gone")
            => Said(r) \/ HasEnd(queue[r]) \/ (writer # None /\ writer.run = r)

\* A context that says "completed" has its message.
Completed ==
    context.status = "completed" =>
        context.run \in Runs /\ content[context.run] \in Terminal \union {"closed"}

\* A run that has started a tool after it was cancelled is past the gate.
Late ==
    \A r \in Runs :
        late[r] # 0 => /\ late[r] = 1 /\ cancel[r]
                       /\ task[r] \notin {"none", "model", "asked", "start"}

\* The inductive invariant.
RInv == TypeOK /\ Begun /\ Buried /\ Writing /\ Ending /\ Completed /\ Late
-----------------------------------------------------------------------------
(* The registry and the journal channels.                                   *)

Events == Terminal \union {"step"}

\* What a report of run r does to the channels.
Reported(r) ==
    /\ queue' \in [Runs -> Seq(Terminal \union {"step"})]
    /\ live' \in [Runs -> {"idle", "step", "over"}]
    /\ \A s \in Runs \ {r} : queue'[s] = queue[s]
    /\ HasEnd(queue[r]) => HasEnd(queue'[r])

\* A report leaves what is on the channel there; a terminal one is on it.
LEMMA Reports ==
    \A r \in Runs, e \in Events :
        TypeOK /\ Emit(r, e) => Reported(r) /\ (e \in Terminal => HasEnd(queue'[r]))
<1> SUFFICES ASSUME NEW r \in Runs, NEW e \in Events, TypeOK, Emit(r, e)
             PROVE  Reported(r) /\ (e \in Terminal => HasEnd(queue'[r]))
  OBVIOUS
<1>1. queue[r] \in Seq(Events) /\ queue \in [Runs -> Seq(Events)]
  BY DEF TypeOK, Events
<1>2. Append(queue[r], e) \in Seq(Events)
  BY <1>1
<1>3. HasEnd(queue[r]) => HasEnd(Append(queue[r], e))
  <2>1. ASSUME NEW i \in DOMAIN queue[r], queue[r][i] \in Terminal
        PROVE  i \in DOMAIN Append(queue[r], e) /\ Append(queue[r], e)[i] = queue[r][i]
    BY <1>1, <2>1
  <2> QED
    BY <2>1 DEF HasEnd
<1>4. e \in Terminal => HasEnd(Append(queue[r], e))
  <2>1. Len(queue[r]) + 1 \in DOMAIN Append(queue[r], e)
        /\ Append(queue[r], e)[Len(queue[r]) + 1] = e
    BY <1>1
  <2> QED
    BY <2>1 DEF HasEnd
<1>5. \/ queue' = [queue EXCEPT ![r] = Append(queue[r], e)]
      \/ queue' = queue /\ e = "step"
  BY <1>1 DEF Emit
<1>6. live' \in [Runs -> {"idle", "step", "over"}]
  BY DEF Emit, Kind, TypeOK, Events
<1> QED
  BY <1>1, <1>2, <1>3, <1>4, <1>5, <1>6 DEF Reported, Terminal, Events

\* The journal takes what is first and leaves the rest.
LEMMA Taken ==
    \A r \in Runs :
        TypeOK /\ queue[r] # <<>> =>
            /\ Head(queue[r]) \in Events
            /\ Tail(queue[r]) \in Seq(Terminal \union {"step"})
            /\ HasEnd(queue[r]) => Head(queue[r]) \in Terminal \/ HasEnd(Tail(queue[r]))
<1> SUFFICES ASSUME NEW r \in Runs, TypeOK, queue[r] # <<>>
             PROVE  /\ Head(queue[r]) \in Events
                    /\ Tail(queue[r]) \in Seq(Terminal \union {"step"})
                    /\ HasEnd(queue[r]) => Head(queue[r]) \in Terminal \/ HasEnd(Tail(queue[r]))
  OBVIOUS
<1>1. queue[r] \in Seq(Events)
  BY DEF TypeOK, Events
<1>2. ASSUME NEW i \in DOMAIN queue[r], queue[r][i] \in Terminal, Head(queue[r]) \notin Terminal
      PROVE  HasEnd(Tail(queue[r]))
  <2>1. i \in Nat /\ i > 1 /\ i <= Len(queue[r])
    BY <1>1, <1>2
  <2>2. i - 1 \in DOMAIN Tail(queue[r]) /\ Tail(queue[r])[i - 1] = queue[r][i]
    BY <1>1, <2>1
  <2> QED
    BY <1>2, <2>2 DEF HasEnd
<1> QED
  BY <1>1, <1>2 DEF HasEnd, Events

\* AgentRegistry::insert keeps the size, and adds nobody else.
LEMMA Latest ==
    \A r \in Runs :
        TypeOK /\ Register(r) =>
            /\ registry' \in Seq(Runs) /\ Len(registry') <= RegistrySize
            /\ \A s \in Runs : Registered(s)' => Registered(s) \/ s = r
<1> SUFFICES ASSUME NEW r \in Runs, TypeOK, Register(r)
             PROVE  /\ registry' \in Seq(Runs) /\ Len(registry') <= RegistrySize
                    /\ \A s \in Runs : Registered(s)' => Registered(s) \/ s = r
  OBVIOUS
<1> USE AgentRunAssumption
<1>1. registry \in Seq(Runs) /\ Len(registry) <= RegistrySize
  BY DEF TypeOK
<1>2. PICK q \in {registry, Tail(registry)} :
          registry' = Append(q, r) /\ (q = registry => Len(registry) # RegistrySize)
          /\ (q # registry => Len(registry) = RegistrySize)
  BY DEF Register
<1>3. q \in Seq(Runs) /\ Len(q) < RegistrySize
  BY <1>1, <1>2
<1>4. \A i \in DOMAIN q : \E j \in DOMAIN registry : q[i] = registry[j]
  <2>1. CASE q = registry
    BY <2>1
  <2>2. CASE q = Tail(registry) /\ Len(registry) = RegistrySize
    <3>1. ASSUME NEW i \in DOMAIN q PROVE i + 1 \in DOMAIN registry /\ q[i] = registry[i + 1]
      BY <1>1, <2>2
    <3> QED
      BY <3>1
  <2> QED
    BY <1>2, <2>1, <2>2
<1>5. registry' \in Seq(Runs) /\ Len(registry') <= RegistrySize
  BY <1>1, <1>2, <1>3
<1>6. ASSUME NEW s \in Runs, Registered(s)' PROVE Registered(s) \/ s = r
  <2>1. PICK i \in DOMAIN registry' : registry'[i] = s
    BY <1>6 DEF Registered
  <2>2. i \in DOMAIN q \/ i = Len(q) + 1
    BY <1>2, <1>3, <2>1
  <2>3. CASE i \in DOMAIN q
    BY <1>2, <1>3, <1>4, <2>1, <2>3 DEF Registered
  <2>4. CASE i = Len(q) + 1
    BY <1>2, <1>3, <2>1, <2>4
  <2> QED
    BY <2>2, <2>3, <2>4
<1> QED
  BY <1>5, <1>6

\* What an action that reports something does to the channels.
LEMMA Reporting ==
    \A r \in Runs :
        RInv /\ (\/ Top(r) \/ Again(r) \/ AwaitApproval(r) \/ Decide(r) \/ StartTool(r)
                 \/ Observe(r) \/ SendEnd(r) \/ StopEmit(r)) =>
            Reported(r) /\ (SendEnd(r) \/ StopEmit(r) => HasEnd(queue'[r]))
<1> SUFFICES ASSUME NEW r \in Runs, RInv,
                    \/ Top(r) \/ Again(r) \/ AwaitApproval(r) \/ Decide(r) \/ StartTool(r)
                    \/ Observe(r) \/ SendEnd(r) \/ StopEmit(r)
             PROVE  Reported(r) /\ (SendEnd(r) \/ StopEmit(r) => HasEnd(queue'[r]))
  OBVIOUS
<1>1. TypeOK /\ Begun
  BY DEF RInv
<1>2. CASE UNCHANGED events /\ ~SendEnd(r) /\ ~StopEmit(r)
  BY <1>1, <1>2 DEF TypeOK, events, Reported
<1>3. CASE Step(r) /\ ~SendEnd(r) /\ ~StopEmit(r)
  BY <1>1, <1>3, Reports DEF Step, Events
<1>4. CASE SendEnd(r)
  <2>1. end[r] \in Terminal
    BY <1>1, <1>4 DEF Begun, SendEnd
  <2>2. Emit(r, end[r])
    BY <1>4 DEF SendEnd
  <2> QED
    BY <1>1, <2>1, <2>2, Reports DEF Events
<1>5. CASE StopEmit(r)
  <2>1. Emit(r, "interrupted")
    BY <1>5 DEF StopEmit
  <2> QED
    BY <1>1, <2>1, Reports DEF Events, Terminal
<1>6. (UNCHANGED events \/ Step(r)) \/ SendEnd(r) \/ StopEmit(r)
  BY DEF Top, Again, AwaitApproval, Decide, StartTool, Observe
<1> QED
  BY <1>2, <1>3, <1>4, <1>5, <1>6

-----------------------------------------------------------------------------
(* One lemma per part of the invariant, one step per action.                *)

LEMMA StepTypeOK == RInv /\ [Next]_vars => TypeOK'
<1> SUFFICES ASSUME RInv, [Next]_vars PROVE TypeOK'
  OBVIOUS
<1> USE AgentRunAssumption, NothingAssumption DEF RInv, TypeOK, Events, Terminal, Parked,
     Polled, Over, Writers
<1>1. ASSUME NEW r \in Runs, Begin(r)
      PROVE  TypeOK'
  BY <1>1 DEF Begin, Goto, Accepting, process, stopping, shutdown, tools, events, stored
<1>2. ASSUME NEW r \in Runs, Register(r)
      PROVE  TypeOK'
  BY <1>2, Latest DEF Register, process, stopping, shutdown, tools, events, stored
<1>3. ASSUME NEW r \in Runs, DropHandler(r)
      PROVE  TypeOK'
  BY <1>3 DEF DropHandler, process, stopping, shutdown, tools, events, stored
<1>4. ASSUME NEW r \in Runs, ServerGone(r)
      PROVE  TypeOK'
  BY <1>4 DEF ServerGone, Goto, process, stopping, shutdown, tools, events, stored
<1>5. ASSUME NEW r \in Runs, Panic(r)
      PROVE  TypeOK'
  BY <1>5 DEF Panic, Goto, process, stopping, shutdown, tools, events, stored
<1>6. ASSUME NEW r \in Runs, Top(r)
      PROVE  TypeOK'
  <2>1. Reported(r)
    <3> HIDE DEF RInv
    <3> QED
      BY <1>6, Reporting
  <2>2. task' \in [Runs -> {"none"} \union Parked \union Polled \union Over]
    <3>1. task' \in {[task EXCEPT ![r] = "send"], [task EXCEPT ![r] = "model"]}
      BY <1>6 DEF Top, Goto
    <3>2. task \in [Runs -> {"none"} \union Parked \union Polled \union Over]
      OBVIOUS
    <3> HIDE DEF RInv, TypeOK, Events, Writers
    <3> QED
      BY <3>1, <3>2
  <2>3. end' \in [Runs -> Terminal \union {"none"}]
    <3>1. end' \in {[end EXCEPT ![r] = "interrupted"], end}
      BY <1>6 DEF Top, Goto
    <3>2. end \in [Runs -> Terminal \union {"none"}]
      OBVIOUS
    <3> HIDE DEF RInv, TypeOK, Events, Writers
    <3> QED
      BY <3>1, <3>2
  <2>4. /\ queue' \in [Runs -> Seq(Terminal \union {"step"})]
        /\ live' \in [Runs -> {"idle", "step", "over"}]
    BY <2>1 DEF Reported
  <2> QED
    BY <1>6, <2>4, <2>2, <2>3 DEF Top, process, stopping, shutdown, tools, events, stored
<1>7. ASSUME NEW r \in Runs, EndRun(r)
      PROVE  TypeOK'
  <2>1. task' \in [Runs -> {"none"} \union Parked \union Polled \union Over]
    <3>1. task' \in {[task EXCEPT ![r] = "send"], [task EXCEPT ![r] = "persist"]}
      BY <1>7 DEF EndRun, Goto
    <3>2. task \in [Runs -> {"none"} \union Parked \union Polled \union Over]
      OBVIOUS
    <3> HIDE DEF RInv, TypeOK, Events, Writers
    <3> QED
      BY <3>1, <3>2
  <2>2. end' \in [Runs -> Terminal \union {"none"}]
    <3>1. end' \in {[end EXCEPT ![r] = "interrupted"], [end EXCEPT ![r] = "completed"], end}
      BY <1>7 DEF EndRun, Goto
    <3>2. end \in [Runs -> Terminal \union {"none"}]
      OBVIOUS
    <3> HIDE DEF RInv, TypeOK, Events, Writers
    <3> QED
      BY <3>1, <3>2
  <2> QED
    BY <1>7, <2>1, <2>2 DEF EndRun, process, stopping, shutdown, tools, events, stored
<1>8. ASSUME NEW r \in Runs, Again(r)
      PROVE  TypeOK'
  <2>1. Reported(r)
    <3> HIDE DEF RInv
    <3> QED
      BY <1>8, Reporting
  <2> QED
    BY <1>8, <2>1 DEF Again, Goto, process, stopping, shutdown, tools, events, stored, Reported
<1>9. ASSUME NEW r \in Runs, Allow(r)
      PROVE  TypeOK'
  BY <1>9 DEF Allow, Goto, process, stopping, shutdown, tools, events, stored
<1>10. ASSUME NEW r \in Runs, AwaitApproval(r)
      PROVE  TypeOK'
  <2>1. Reported(r)
    <3> HIDE DEF RInv
    <3> QED
      BY <1>10, Reporting
  <2> QED
    BY <1>10, <2>1 DEF AwaitApproval, Goto, process, stopping, shutdown, tools, events, stored,
       Reported
<1>11. ASSUME NEW r \in Runs, Decide(r)
      PROVE  TypeOK'
  <2>1. Reported(r)
    <3> HIDE DEF RInv
    <3> QED
      BY <1>11, Reporting
  <2>2. task' \in [Runs -> {"none"} \union Parked \union Polled \union Over]
    <3>1. task' \in {[task EXCEPT ![r] = "start"], [task EXCEPT ![r] = "loop"]}
      BY <1>11 DEF Decide, Goto
    <3>2. task \in [Runs -> {"none"} \union Parked \union Polled \union Over]
      OBVIOUS
    <3> HIDE DEF RInv, TypeOK, Events, Writers
    <3> QED
      BY <3>1, <3>2
  <2>3. /\ queue' \in [Runs -> Seq(Terminal \union {"step"})]
        /\ live' \in [Runs -> {"idle", "step", "over"}]
    BY <2>1 DEF Reported
  <2> QED
    BY <1>11, <2>3, <2>2 DEF Decide, process, stopping, shutdown, tools, events, stored
<1>12. ASSUME NEW r \in Runs, StartTool(r)
      PROVE  TypeOK'
  <2>1. Reported(r)
    <3> HIDE DEF RInv
    <3> QED
      BY <1>12, Reporting
  <2>2. late' \in [Runs -> 0..MaxLate]
    BY <1>12 DEF StartTool
  <2>3. task' \in [Runs -> {"none"} \union Parked \union Polled \union Over]
    BY <1>12 DEF StartTool, Goto
  <2>4. /\ queue' \in [Runs -> Seq(Terminal \union {"step"})]
        /\ live' \in [Runs -> {"idle", "step", "over"}]
    BY <2>1 DEF Reported
  <2> QED
    BY <1>12, <2>2, <2>3, <2>4 DEF StartTool, process, stopping, shutdown, stored
<1>13. ASSUME NEW r \in Runs, Observe(r)
      PROVE  TypeOK'
  <2>1. Reported(r)
    <3> HIDE DEF RInv
    <3> QED
      BY <1>13, Reporting
  <2>2. task' \in [Runs -> {"none"} \union Parked \union Polled \union Over]
    <3>1. task' \in {[task EXCEPT ![r] = "loop"], [task EXCEPT ![r] = "persist"]}
      BY <1>13 DEF Observe, Goto
    <3>2. task \in [Runs -> {"none"} \union Parked \union Polled \union Over]
      OBVIOUS
    <3> HIDE DEF RInv, TypeOK, Events, Writers
    <3> QED
      BY <3>1, <3>2
  <2>3. end' \in [Runs -> Terminal \union {"none"}]
    <3>1. end' \in {[end EXCEPT ![r] = "interrupted"], end}
      BY <1>13 DEF Observe, Goto
    <3>2. end \in [Runs -> Terminal \union {"none"}]
      OBVIOUS
    <3> HIDE DEF RInv, TypeOK, Events, Writers
    <3> QED
      BY <3>1, <3>2
  <2>4. /\ queue' \in [Runs -> Seq(Terminal \union {"step"})]
        /\ live' \in [Runs -> {"idle", "step", "over"}]
    BY <2>1 DEF Reported
  <2> QED
    BY <1>13, <2>4, <2>2, <2>3 DEF Observe, process, stopping, shutdown, tools, events, stored
<1>14. ASSUME NEW r \in Runs, Persist(r)
      PROVE  TypeOK'
  BY <1>14 DEF Persist, Goto, process, stopping, shutdown, tools, events, stored
<1>15. ASSUME NEW r \in Runs, SendEnd(r)
      PROVE  TypeOK'
  <2>1. Reported(r) /\ HasEnd(queue'[r])
    <3> HIDE DEF RInv
    <3> QED
      BY <1>15, Reporting
  <2> QED
    BY <1>15, <2>1 DEF SendEnd, Goto, process, stopping, shutdown, tools, events, stored, Reported
<1>16. ASSUME NEW r \in Runs, Abort(r)
      PROVE  TypeOK'
  BY <1>16 DEF Abort, Goto, process, stopping, shutdown, tools, events, stored
<1>17. ASSUME NEW r \in Runs, FinishTool(r)
      PROVE  TypeOK'
  BY <1>17 DEF FinishTool, process, stopping, shutdown, tools, events, stored
<1>18. ASSUME NEW r \in Runs, JournalTake(r)
      PROVE  TypeOK'
  BY <1>18, Taken DEF JournalTake, process, stopping, shutdown, tools, events, stored, Kind
<1>19. ASSUME NEW r \in Runs, JournalMessage(r)
      PROVE  TypeOK'
  BY <1>19 DEF JournalMessage, process, stopping, shutdown, tools, events, stored
<1>20. ASSUME NEW r \in Runs, JournalContext(r)
      PROVE  TypeOK'
  BY <1>20 DEF JournalContext, process, stopping, shutdown, tools, events, stored
<1>21. ASSUME NEW r \in Runs, StopAct(r)
      PROVE  TypeOK'
  BY <1>21 DEF StopAct, CancelAndAbort, Accepting, process, stopping, shutdown, tools, events,
     stored
<1>22. ASSUME NEW r \in Runs, StopEmit(r)
      PROVE  TypeOK'
  <2>1. Reported(r) /\ HasEnd(queue'[r])
    <3> HIDE DEF RInv
    <3> QED
      BY <1>22, Reporting
  <2> QED
    BY <1>22, <2>1 DEF StopEmit, process, stopping, shutdown, tools, events, stored, Reported
<1>23. ASSUME NEW r \in Runs, SessionStop(r)
      PROVE  TypeOK'
  BY <1>23 DEF SessionStop, CancelAndAbort, Accepting, process, stopping, shutdown, tools,
     events, stored
<1>24. ASSUME NEW r \in Runs, CloseTake(r)
      PROVE  TypeOK'
  BY <1>24 DEF CloseTake, process, stopping, shutdown, tools, events, stored
<1>25. CASE CloseBegin
  BY <1>25 DEF CloseBegin, process, stopping, shutdown, tools, events, stored
<1>26. CASE CloseRecord
  BY <1>26 DEF CloseRecord, process, stopping, shutdown, tools, events, stored
<1>27. CASE Crash
  <2>1. task' \in [Runs -> {"none"} \union Parked \union Polled \union Over]
    BY <1>27 DEF Crash
  <2>2. /\ handler' \in [Runs -> {"idle", "registering", "gone"}]
        /\ stop' \in [Runs -> {"idle", "acted", "done"}]
    BY <1>27 DEF Crash
  <2>3. end' \in [Runs -> Terminal \union {"none"}]
    BY <1>27 DEF Crash
  <2>4. /\ cancel' \in [Runs -> BOOLEAN] /\ abort' \in [Runs -> BOOLEAN]
        /\ handle' \in [Runs -> BOOLEAN]
    BY <1>27 DEF Crash
  <2>5. tool' \in [Runs -> {"none", "running", "done"}]
    BY <1>27 DEF Crash
  <2>6. late' \in [Runs -> 0..MaxLate]
    BY <1>27 DEF Crash
  <2>7. /\ queue' \in [Runs -> Seq(Terminal \union {"step"})]
        /\ live' \in [Runs -> {"idle", "step", "over"}]
    BY <1>27 DEF Crash
  <2>8. /\ registry' \in Seq(Runs) /\ Len(registry') <= RegistrySize
        /\ silenced' \subseteq Runs /\ unfinished' \subseteq Runs
    BY <1>27 DEF Crash
  <2>9. /\ up' \in BOOLEAN /\ crashes' \in 0..MaxCrashes
        /\ closing' \in {"no", "waiting", "recorded"}
    <3>1. crashes \in Nat /\ MaxCrashes \in Nat /\ crashes < MaxCrashes
          /\ crashes' = crashes + 1
      BY <1>27 DEF Crash
    <3>2. crashes' \in 0..MaxCrashes
      BY <3>1
    <3> QED
      BY <1>27, <3>2 DEF Crash
  <2>10. /\ writer' \in Writers \union {None}
        /\ content' \in [Runs -> Terminal \union {"none", "starting", "closed", "recovered"}]
        /\ activity' \in [Runs -> {"none", "step", "over"}]
    BY <1>27 DEF Crash
  <2>11. context' \in [run : Runs \union {None},
                      status : {"none", "active", "completed", "interrupted"}]
    BY <1>27 DEF Crash
  <2> QED
    BY <2>1, <2>2, <2>3, <2>4, <2>5, <2>6, <2>7, <2>8, <2>9, <2>10, <2>11
<1>28. CASE Restart
  BY <1>28 DEF Restart, process, stopping, shutdown, tools, events, stored
<1>29. CASE UNCHANGED vars
  BY <1>29 DEF vars, process, stopping, shutdown, tools, events, stored
<1> HIDE DEF RInv, TypeOK
<1> QED BY <1>1, <1>2, <1>3, <1>4, <1>5, <1>6, <1>7, <1>8, <1>9, <1>10, <1>11, <1>12, <1>13,
            <1>14, <1>15, <1>16, <1>17, <1>18, <1>19, <1>20, <1>21, <1>22, <1>23, <1>24, <1>25,
            <1>26, <1>27, <1>28, <1>29 DEF Next, Task

LEMMA StepBegun == RInv /\ [Next]_vars => Begun'
<1> SUFFICES ASSUME RInv, [Next]_vars PROVE Begun'
  OBVIOUS
<1> USE AgentRunAssumption, NothingAssumption DEF RInv, TypeOK, Events, Terminal, Parked,
     Polled, Over, Writers, Begun, Buried, Registered
<1>1. ASSUME NEW r \in Runs, Begin(r)
      PROVE  Begun'
  BY <1>1 DEF Begin, Goto, Accepting, process, stopping, shutdown, tools, events, stored
<1>2. ASSUME NEW r \in Runs, Register(r)
      PROVE  Begun'
  <2>1. \A s \in Runs : Registered(s)' => Registered(s) \/ s = r
    BY <1>2, Latest
  <2> HIDE DEF Registered
  <2> QED
    BY <1>2, <2>1 DEF Register, process, stopping, shutdown, tools, events, stored
<1>3. ASSUME NEW r \in Runs,
             DropHandler(r) \/ ServerGone(r) \/ Panic(r) \/ EndRun(r) \/ Allow(r)
      PROVE  Begun'
  BY <1>3, SMTT(40) DEF DropHandler, ServerGone, Panic, EndRun, Allow, process, stopping, shutdown, tools,
     events, stored, Goto
<1>4. ASSUME NEW r \in Runs, Top(r) \/ Again(r) \/ AwaitApproval(r) \/ Decide(r) \/ StartTool(r)
      PROVE  Begun'
  <2>1. Reported(r)
    <3> HIDE DEF RInv
    <3> QED
      BY <1>4, Reporting
  <2> QED
    BY <1>4, <2>1, SMTT(40) DEF Top, Again, AwaitApproval, Decide, StartTool, Goto, process, stopping,
       shutdown, tools, events, stored, Reported
<1>5. ASSUME NEW r \in Runs, Observe(r)
      PROVE  Begun'
  <2>1. Reported(r)
    <3> HIDE DEF RInv
    <3> QED
      BY <1>5, Reporting
  <2> QED
    BY <1>5, <2>1, SMTT(40) DEF Observe, Goto, process, stopping, shutdown, tools, events, stored, Reported
<1>6. ASSUME NEW r \in Runs, SendEnd(r)
      PROVE  Begun'
  <2>1. Reported(r) /\ HasEnd(queue'[r])
    <3> HIDE DEF RInv
    <3> QED
      BY <1>6, Reporting
  <2> QED
    BY <1>6, <2>1, SMTT(40) DEF SendEnd, Goto, process, stopping, shutdown, tools, events, stored, Reported
<1>7. ASSUME NEW r \in Runs, StopEmit(r)
      PROVE  Begun'
  <2>1. Reported(r) /\ HasEnd(queue'[r])
    <3> HIDE DEF RInv
    <3> QED
      BY <1>7, Reporting
  <2> QED
    BY <1>7, <2>1 DEF StopEmit, process, stopping, shutdown, tools, events, stored, Reported
<1>8. ASSUME NEW r \in Runs, Persist(r) \/ Abort(r) \/ FinishTool(r)
      PROVE  Begun'
  BY <1>8, SMTT(40) DEF Persist, Abort, FinishTool, Goto, process, stopping, shutdown, tools, events,
     stored
<1>9. ASSUME NEW r \in Runs, JournalTake(r)
      PROVE  Begun'
  BY <1>9, Taken DEF JournalTake, process, stopping, shutdown, tools, events, stored
<1>10. ASSUME NEW r \in Runs, JournalMessage(r) \/ JournalContext(r)
      PROVE  Begun'
  BY <1>10 DEF JournalMessage, JournalContext, process, stopping, shutdown, tools, events,
     stored
<1>11. ASSUME NEW r \in Runs, StopAct(r) \/ SessionStop(r) \/ CloseTake(r)
      PROVE  Begun'
  BY <1>11, SMTT(40) DEF StopAct, SessionStop, CloseTake, CancelAndAbort, Accepting, process, stopping,
     shutdown, tools, events, stored
<1>12. CASE CloseBegin
  BY <1>12 DEF CloseBegin, process, stopping, shutdown, tools, events, stored
<1>13. CASE CloseRecord
  BY <1>13 DEF CloseRecord, process, stopping, shutdown, tools, events, stored
<1>14. CASE Crash
  BY <1>14 DEF Crash
<1>15. CASE Restart
  BY <1>15 DEF Restart, process, stopping, shutdown, tools, events, stored
<1>16. CASE UNCHANGED vars
  BY <1>16 DEF vars, process, stopping, shutdown, tools, events, stored
<1> HIDE DEF RInv, Begun
<1> QED BY <1>1, <1>2, <1>3, <1>4, <1>5, <1>6, <1>7, <1>8, <1>9, <1>10, <1>11, <1>12, <1>13,
            <1>14, <1>15, <1>16 DEF Next, Task

LEMMA StepBuried == RInv /\ [Next]_vars => Buried'
<1> SUFFICES ASSUME RInv, [Next]_vars PROVE Buried'
  OBVIOUS
<1> USE AgentRunAssumption, NothingAssumption DEF RInv, TypeOK, Events, Terminal, Parked,
     Polled, Over, Writers, Begun, Buried, Registered
<1>1. ASSUME NEW r \in Runs, Begin(r)
      PROVE  Buried'
  BY <1>1 DEF Begin, Goto, Accepting, process, stopping, shutdown, tools, events, stored
<1>2. ASSUME NEW r \in Runs, Register(r) \/ DropHandler(r)
      PROVE  Buried'
  BY <1>2, Latest, SMTT(40) DEF Register, DropHandler, process, stopping, shutdown, tools, events, stored
<1>3. ASSUME NEW r \in Runs, ServerGone(r) \/ Panic(r) \/ EndRun(r) \/ Allow(r)
      PROVE  Buried'
  BY <1>3 DEF ServerGone, Panic, EndRun, Allow, Goto, process, stopping, shutdown, tools,
     events, stored
<1>4. ASSUME NEW r \in Runs, Top(r) \/ Again(r) \/ AwaitApproval(r) \/ Decide(r) \/ StartTool(r)
      PROVE  Buried'
  <2>1. Reported(r)
    <3> HIDE DEF RInv
    <3> QED
      BY <1>4, Reporting
  <2> QED
    BY <1>4, <2>1, SMTT(40) DEF Top, Again, AwaitApproval, Decide, StartTool, Goto, process, stopping,
       shutdown, tools, events, stored, Reported
<1>5. ASSUME NEW r \in Runs, Observe(r)
      PROVE  Buried'
  <2>1. Reported(r)
    <3> HIDE DEF RInv
    <3> QED
      BY <1>5, Reporting
  <2> QED
    BY <1>5, <2>1 DEF Observe, Goto, process, stopping, shutdown, tools, events, stored, Reported
<1>6. ASSUME NEW r \in Runs, SendEnd(r)
      PROVE  Buried'
  <2>1. Reported(r) /\ HasEnd(queue'[r])
    <3> HIDE DEF RInv
    <3> QED
      BY <1>6, Reporting
  <2> QED
    BY <1>6, <2>1 DEF SendEnd, Goto, process, stopping, shutdown, tools, events, stored, Reported
<1>7. ASSUME NEW r \in Runs, StopEmit(r)
      PROVE  Buried'
  <2>1. Reported(r) /\ HasEnd(queue'[r])
    <3> HIDE DEF RInv
    <3> QED
      BY <1>7, Reporting
  <2> QED
    BY <1>7, <2>1 DEF StopEmit, process, stopping, shutdown, tools, events, stored, Reported
<1>8. ASSUME NEW r \in Runs, Persist(r) \/ Abort(r) \/ FinishTool(r)
      PROVE  Buried'
  BY <1>8 DEF Persist, Abort, FinishTool, Goto, process, stopping, shutdown, tools, events,
     stored
<1>9. ASSUME NEW r \in Runs, JournalTake(r)
      PROVE  Buried'
  BY <1>9, Taken DEF JournalTake, process, stopping, shutdown, tools, events, stored, Kind
<1>10. ASSUME NEW r \in Runs, JournalMessage(r) \/ JournalContext(r)
      PROVE  Buried'
  BY <1>10 DEF JournalMessage, JournalContext, process, stopping, shutdown, tools, events,
     stored
<1>11. ASSUME NEW r \in Runs, StopAct(r) \/ SessionStop(r) \/ CloseTake(r)
      PROVE  Buried'
  BY <1>11, SMTT(40) DEF StopAct, SessionStop, CloseTake, CancelAndAbort, Accepting, process, stopping,
     shutdown, tools, events, stored
<1>12. CASE CloseBegin
  BY <1>12 DEF CloseBegin, process, stopping, shutdown, tools, events, stored
<1>13. CASE CloseRecord
  BY <1>13 DEF CloseRecord, process, stopping, shutdown, tools, events, stored
<1>14. CASE Crash
  BY <1>14 DEF Crash
<1>15. CASE Restart
  BY <1>15 DEF Restart, process, stopping, shutdown, tools, events, stored
<1>16. CASE UNCHANGED vars
  BY <1>16 DEF vars, process, stopping, shutdown, tools, events, stored
<1> HIDE DEF RInv, Buried
<1> QED BY <1>1, <1>2, <1>3, <1>4, <1>5, <1>6, <1>7, <1>8, <1>9, <1>10, <1>11, <1>12, <1>13,
            <1>14, <1>15, <1>16 DEF Next, Task

LEMMA StepWriting == RInv /\ [Next]_vars => Writing'
<1> SUFFICES ASSUME RInv, [Next]_vars PROVE Writing'
  OBVIOUS
<1> USE AgentRunAssumption, NothingAssumption DEF RInv, TypeOK, Events, Terminal, Parked,
     Polled, Over, Writers, Begun, Buried, Writing
<1>1. ASSUME NEW r \in Runs, Begin(r)
      PROVE  Writing'
  BY <1>1 DEF Begin, Goto, Accepting, process, stopping, shutdown, tools, events, stored
<1>2. ASSUME NEW r \in Runs,
             \/ Register(r) \/ DropHandler(r) \/ ServerGone(r) \/ Panic(r) \/ Top(r)
             \/ EndRun(r) \/ Again(r) \/ Allow(r) \/ AwaitApproval(r) \/ Decide(r)
             \/ StartTool(r) \/ Observe(r) \/ SendEnd(r) \/ Abort(r) \/ FinishTool(r)
             \/ StopAct(r) \/ StopEmit(r) \/ SessionStop(r) \/ CloseTake(r)
      PROVE  Writing'
  <2>1. UNCHANGED <<content, writer>>
    BY <1>2 DEF Register, DropHandler, ServerGone, Panic, Top, EndRun, Again, Allow,
       AwaitApproval, Decide, StartTool, Observe, SendEnd, Abort, FinishTool, StopAct, StopEmit,
       SessionStop, CloseTake, stored
  <2> QED
    BY <2>1
<1>3. ASSUME NEW r \in Runs, Persist(r)
      PROVE  Writing'
  BY <1>3 DEF Persist, Goto, process, stopping, shutdown, tools, events, stored
<1>4. ASSUME NEW r \in Runs, JournalTake(r)
      PROVE  Writing'
  BY <1>4 DEF JournalTake, process, stopping, shutdown, tools, events, stored
<1>5. ASSUME NEW r \in Runs, JournalMessage(r)
      PROVE  Writing'
  BY <1>5 DEF JournalMessage, process, stopping, shutdown, tools, events, stored
<1>6. ASSUME NEW r \in Runs, JournalContext(r)
      PROVE  Writing'
  BY <1>6 DEF JournalContext, process, stopping, shutdown, tools, events, stored
<1>7. CASE CloseBegin
  BY <1>7 DEF CloseBegin, process, stopping, shutdown, tools, events, stored
<1>8. CASE CloseRecord
  BY <1>8 DEF CloseRecord, process, stopping, shutdown, tools, events, stored
<1>9. CASE Crash
  BY <1>9 DEF Crash
<1>10. CASE Restart
  BY <1>10 DEF Restart, process, stopping, shutdown, tools, events, stored
<1>11. CASE UNCHANGED vars
  BY <1>11 DEF vars, process, stopping, shutdown, tools, events, stored
<1> HIDE DEF RInv, Writing
<1> QED BY <1>1, <1>2, <1>3, <1>4, <1>5, <1>6, <1>7, <1>8, <1>9, <1>10, <1>11 DEF Next, Task

LEMMA StepEnding == RInv /\ [Next]_vars => Ending'
<1> SUFFICES ASSUME RInv, [Next]_vars PROVE Ending'
  OBVIOUS
<1> USE AgentRunAssumption, NothingAssumption DEF RInv, TypeOK, Events, Terminal, Parked,
     Polled, Over, Writers, Begun, Buried, Writing, Ending, Said
<1>1. ASSUME NEW r \in Runs, Begin(r)
      PROVE  Ending'
  BY <1>1 DEF Begin, Goto, Accepting, process, stopping, shutdown, tools, events, stored
<1>2. ASSUME NEW r \in Runs, Register(r) \/ DropHandler(r)
      PROVE  Ending'
  BY <1>2, Latest, SMTT(40) DEF Register, DropHandler, process, stopping, shutdown, tools, events, stored
<1>3. ASSUME NEW r \in Runs, ServerGone(r) \/ Panic(r) \/ EndRun(r) \/ Allow(r)
      PROVE  Ending'
  BY <1>3, SMTT(40) DEF ServerGone, Panic, EndRun, Allow, Goto, process, stopping, shutdown, tools,
     events, stored
<1>4. ASSUME NEW r \in Runs, Top(r) \/ Again(r) \/ AwaitApproval(r) \/ Decide(r) \/ StartTool(r)
      PROVE  Ending'
  <2>1. Reported(r)
    <3> HIDE DEF RInv
    <3> QED
      BY <1>4, Reporting
  <2> QED
    BY <1>4, <2>1, SMTT(40) DEF Top, Again, AwaitApproval, Decide, StartTool, Goto, process, stopping,
       shutdown, tools, events, stored, Reported
<1>5. ASSUME NEW r \in Runs, Observe(r)
      PROVE  Ending'
  <2>4. Reported(r)
    <3> HIDE DEF RInv
    <3> QED
      BY <1>5, Reporting
  <2>1. \A s \in Runs : task'[s] = "over" \/ (stop'[s] = "done" /\ task'[s] # "gone")
                          => task[s] = "over" \/ (stop[s] = "done" /\ task[s] # "gone")
    BY <1>5 DEF Observe, Goto, stopping
  <2>2. UNCHANGED <<writer, content, context>>
    BY <1>5 DEF Observe, stored
  <2> QED
    BY <2>1, <2>2, <2>4, ZenonT(60) DEF Reported
<1>6. ASSUME NEW r \in Runs, SendEnd(r)
      PROVE  Ending'
  <2>1. Reported(r) /\ HasEnd(queue'[r])
    <3> HIDE DEF RInv
    <3> QED
      BY <1>6, Reporting
  <2> QED
    BY <1>6, <2>1, SMTT(40) DEF SendEnd, Goto, process, stopping, shutdown, tools, events, stored, Reported
<1>7. ASSUME NEW r \in Runs, StopEmit(r)
      PROVE  Ending'
  <2>1. Reported(r) /\ HasEnd(queue'[r])
    <3> HIDE DEF RInv
    <3> QED
      BY <1>7, Reporting
  <2> QED
    BY <1>7, <2>1 DEF StopEmit, process, stopping, shutdown, tools, events, stored, Reported
<1>8. ASSUME NEW r \in Runs, Persist(r)
      PROVE  Ending'
  <2>1. \A s \in Runs : task'[s] = "over" \/ (stop'[s] = "done" /\ task'[s] # "gone")
                          => task[s] = "over" \/ (stop[s] = "done" /\ task[s] # "gone")
    BY <1>8 DEF Persist, Goto, stopping
  <2>2. UNCHANGED <<writer, queue, context>>
    BY <1>8 DEF Persist, events
  <2>3. PICK e \in Terminal : content' = [content EXCEPT ![r] = e]
    BY <1>8 DEF Persist
  <2>4. \A s \in Runs : content[s] # "starting" => content'[s] # "starting"
    BY <2>3
  <2>5. Ending
    OBVIOUS
  <2> HIDE DEF RInv, TypeOK, Terminal, Writing, Buried, Begun
  <2> QED
    BY <2>1, <2>2, <2>4, <2>5
<1>9. ASSUME NEW r \in Runs, Abort(r) \/ FinishTool(r)
      PROVE  Ending'
  BY <1>9 DEF Abort, FinishTool, Goto, process, stopping, shutdown, tools, events, stored
<1>10. ASSUME NEW r \in Runs, JournalTake(r)
      PROVE  Ending'
  <2>1. \A s \in Runs : task'[s] = "over" \/ (stop'[s] = "done" /\ task'[s] # "gone")
                          => task[s] = "over" \/ (stop[s] = "done" /\ task[s] # "gone")
    BY <1>10 DEF JournalTake, stopping
  <2>2. /\ UNCHANGED <<content, context>> /\ writer = None
        /\ \A s \in Runs \ {r} : queue'[s] = queue[s]
        /\ queue'[r] = Tail(queue[r]) /\ queue[r] # <<>>
    BY <1>10 DEF JournalTake
  <2>3. ASSUME Head(queue[r]) \in Terminal
        PROVE  writer' # None /\ writer'.run = r
    <3>1. writer' = [run |-> r, state |-> Head(queue[r]), at |-> "message"]
      BY <1>10, <2>3 DEF JournalTake
    <3>2. [run |-> r, state |-> Head(queue[r]), at |-> "message"] \in Writers
      BY <2>3
    <3> HIDE DEF RInv, TypeOK
    <3> QED
      BY <3>1, <3>2
  <2>4. HasEnd(queue[r]) => Head(queue[r]) \in Terminal \/ HasEnd(Tail(queue[r]))
    BY <2>2, Taken
  <2>5. Ending
    OBVIOUS
  <2> HIDE DEF RInv, TypeOK, Terminal, Writing, Buried, Begun
  <2> QED
    BY <2>1, <2>2, <2>3, <2>4, <2>5
<1>11. ASSUME NEW r \in Runs, JournalMessage(r)
      PROVE  Ending'
  <2>1. \A s \in Runs : task'[s] = "over" \/ (stop'[s] = "done" /\ task'[s] # "gone")
                          => task[s] = "over" \/ (stop[s] = "done" /\ task[s] # "gone")
    BY <1>11 DEF JournalMessage, stopping
  <2>2. writer.state \in Terminal /\ writer # None /\ writer' # None /\ writer'.run = writer.run
    <3>1. writer \in Writers /\ writer # None /\ writer' = [writer EXCEPT !.at = "context"]
      BY <1>11 DEF JournalMessage
    <3>2. writer' \in Writers
      BY <3>1
    <3> HIDE DEF RInv, TypeOK
    <3> QED
      BY <3>1, <3>2
  <2>3. /\ UNCHANGED <<queue, context>>
        /\ \A s \in Runs : content[s] # "starting" => content'[s] # "starting"
    BY <1>11, <2>2 DEF JournalMessage, events
  <2>4. Ending
    OBVIOUS
  <2> HIDE DEF RInv, TypeOK, Writing, Buried, Begun
  <2> QED
    BY <2>1, <2>2, <2>3, <2>4
<1>12. ASSUME NEW r \in Runs, JournalContext(r)
      PROVE  Ending'
  BY <1>12 DEF JournalContext, process, stopping, shutdown, tools, events, stored
<1>13. ASSUME NEW r \in Runs, StopAct(r) \/ SessionStop(r) \/ CloseTake(r)
      PROVE  Ending'
  BY <1>13 DEF StopAct, SessionStop, CloseTake, CancelAndAbort, Accepting, process, stopping,
     shutdown, tools, events, stored
<1>14. CASE CloseBegin
  BY <1>14 DEF CloseBegin, process, stopping, shutdown, tools, events, stored
<1>15. CASE CloseRecord
  BY <1>15 DEF CloseRecord, process, stopping, shutdown, tools, events, stored
<1>16. CASE Crash
  <2>1. \A s \in Runs : stop[s] # "idle" => task[s] # "none"
    OBVIOUS
  <2>2. \A s \in Runs : task'[s] # "over" /\ (stop'[s] = "done" => task'[s] = "gone")
    BY <1>16, <2>1 DEF Crash
  <2> QED
    BY <2>2
<1>17. CASE Restart
  BY <1>17 DEF Restart, process, stopping, shutdown, tools, events, stored
<1>18. CASE UNCHANGED vars
  BY <1>18 DEF vars, process, stopping, shutdown, tools, events, stored
<1> HIDE DEF RInv, Ending
<1> QED BY <1>1, <1>2, <1>3, <1>4, <1>5, <1>6, <1>7, <1>8, <1>9, <1>10, <1>11, <1>12, <1>13,
            <1>14, <1>15, <1>16, <1>17, <1>18 DEF Next, Task

LEMMA StepCompleted == RInv /\ [Next]_vars => Completed'
<1> SUFFICES ASSUME RInv, [Next]_vars PROVE Completed'
  OBVIOUS
<1> USE AgentRunAssumption, NothingAssumption DEF RInv, TypeOK, Events, Terminal, Parked,
     Polled, Over, Writers, Begun, Buried, Writing, Completed
<1>1. ASSUME NEW r \in Runs, Begin(r)
      PROVE  Completed'
  BY <1>1 DEF Begin, Goto, Accepting, process, stopping, shutdown, tools, events, stored
<1>2. ASSUME NEW r \in Runs,
             \/ Register(r) \/ DropHandler(r) \/ ServerGone(r) \/ Panic(r) \/ Top(r)
             \/ EndRun(r) \/ Again(r) \/ Allow(r) \/ AwaitApproval(r) \/ Decide(r)
             \/ StartTool(r) \/ Observe(r) \/ SendEnd(r) \/ Abort(r) \/ FinishTool(r)
             \/ StopAct(r) \/ StopEmit(r) \/ SessionStop(r) \/ CloseTake(r)
      PROVE  Completed'
  <2>1. UNCHANGED <<content, context>>
    BY <1>2 DEF Register, DropHandler, ServerGone, Panic, Top, EndRun, Again, Allow,
       AwaitApproval, Decide, StartTool, Observe, SendEnd, Abort, FinishTool, StopAct, StopEmit,
       SessionStop, CloseTake, stored
  <2> QED
    BY <2>1
<1>3. ASSUME NEW r \in Runs, Persist(r)
      PROVE  Completed'
  <2>1. PICK e \in Terminal : content' = [content EXCEPT ![r] = e]
    BY <1>3 DEF Persist, Begun
  <2>2. UNCHANGED context
    BY <1>3 DEF Persist
  <2>3. content \in [Runs -> Terminal \union {"none", "starting", "closed", "recovered"}]
    OBVIOUS
  <2>4. Completed
    OBVIOUS
  <2> HIDE DEF RInv, TypeOK, Terminal, Buried, Begun, Writing
  <2> QED
    BY <2>1, <2>2, <2>3, <2>4
<1>4. ASSUME NEW r \in Runs, JournalTake(r)
      PROVE  Completed'
  <2>1. UNCHANGED <<content, context>>
    BY <1>4 DEF JournalTake, stored
  <2> QED
    BY <2>1
<1>5. ASSUME NEW r \in Runs, JournalMessage(r)
      PROVE  Completed'
  <2>1. PICK e \in Terminal : content' = [content EXCEPT ![r] = e]
    BY <1>5 DEF JournalMessage, Begun
  <2>2. UNCHANGED context
    BY <1>5 DEF JournalMessage
  <2>3. content \in [Runs -> Terminal \union {"none", "starting", "closed", "recovered"}]
    OBVIOUS
  <2>4. Completed
    OBVIOUS
  <2> HIDE DEF RInv, TypeOK, Terminal, Buried, Begun, Writing
  <2> QED
    BY <2>1, <2>2, <2>3, <2>4
<1>6. ASSUME NEW r \in Runs, JournalContext(r)
      PROVE  Completed'
  BY <1>6 DEF JournalContext, process, stopping, shutdown, tools, events, stored
<1>7. CASE CloseBegin
  BY <1>7 DEF CloseBegin, process, stopping, shutdown, tools, events, stored
<1>8. CASE CloseRecord
  BY <1>8 DEF CloseRecord, process, stopping, shutdown, tools, events, stored
<1>9. CASE Crash
  <2>1. UNCHANGED <<content, context>>
    BY <1>9 DEF Crash, stored
  <2> QED
    BY <2>1
<1>10. CASE Restart
  BY <1>10 DEF Restart, process, stopping, shutdown, tools, events, stored
<1>11. CASE UNCHANGED vars
  BY <1>11 DEF vars, process, stopping, shutdown, tools, events, stored
<1> HIDE DEF RInv, Completed
<1> QED BY <1>1, <1>2, <1>3, <1>4, <1>5, <1>6, <1>7, <1>8, <1>9, <1>10, <1>11 DEF Next, Task

LEMMA StepLate == RInv /\ [Next]_vars => Late'
<1> SUFFICES ASSUME RInv, [Next]_vars PROVE Late'
  OBVIOUS
<1> USE AgentRunAssumption, NothingAssumption DEF RInv, TypeOK, Events, Terminal, Parked,
     Polled, Over, Writers, Begun, Late
<1>1. ASSUME NEW r \in Runs, Begin(r)
      PROVE  Late'
  BY <1>1 DEF Begin, Goto, Accepting, process, stopping, shutdown, tools, events, stored
<1>2. ASSUME NEW r \in Runs,
             \/ Register(r) \/ DropHandler(r) \/ ServerGone(r) \/ Panic(r) \/ EndRun(r)
             \/ Allow(r)
      PROVE  Late'
  BY <1>2 DEF Register, DropHandler, ServerGone, Panic, EndRun, Allow, process, stopping,
     shutdown, tools, events, stored, Goto
<1>3. ASSUME NEW r \in Runs,
             \/ Top(r) \/ Again(r) \/ AwaitApproval(r) \/ Decide(r) \/ StartTool(r)
             \/ Observe(r)
      PROVE  Late'
  BY <1>3 DEF Top, Again, AwaitApproval, Decide, StartTool, Observe, Goto, Step, process,
     stopping, shutdown, tools, events, stored
<1>4. ASSUME NEW r \in Runs,
             \/ Persist(r) \/ SendEnd(r) \/ Abort(r) \/ FinishTool(r) \/ JournalTake(r)
             \/ JournalMessage(r) \/ JournalContext(r)
      PROVE  Late'
  BY <1>4 DEF Persist, SendEnd, Abort, FinishTool, JournalTake, JournalMessage, JournalContext,
     Goto, process, stopping, shutdown, tools, events, stored, Step
<1>5. ASSUME NEW r \in Runs, StopAct(r) \/ StopEmit(r) \/ SessionStop(r) \/ CloseTake(r)
      PROVE  Late'
  BY <1>5 DEF StopAct, StopEmit, SessionStop, CloseTake, CancelAndAbort, Accepting, process,
     stopping, shutdown, tools, events, stored, Step
<1>6. CASE CloseBegin
  BY <1>6 DEF CloseBegin, process, stopping, shutdown, tools, events, stored
<1>7. CASE CloseRecord
  BY <1>7 DEF CloseRecord, process, stopping, shutdown, tools, events, stored
<1>8. CASE Crash
  BY <1>8 DEF Crash
<1>9. CASE Restart
  BY <1>9 DEF Restart, process, stopping, shutdown, tools, events, stored
<1>10. CASE UNCHANGED vars
  BY <1>10 DEF vars, process, stopping, shutdown, tools, events, stored
<1> HIDE DEF RInv, Late
<1> QED BY <1>1, <1>2, <1>3, <1>4, <1>5, <1>6, <1>7, <1>8, <1>9, <1>10 DEF Next, Task

-----------------------------------------------------------------------------
LEMMA InitInv == Init => RInv
<1> SUFFICES ASSUME Init PROVE RInv
  OBVIOUS
<1> USE AgentRunAssumption, NothingAssumption DEF Init
<1>1. TypeOK
  BY DEF TypeOK, Terminal, Parked, Polled, Over
<1>2. Begun /\ Buried /\ Writing /\ Ending /\ Completed /\ Late
  BY DEF Begun, Buried, Writing, Ending, Completed, Late, Registered
<1> QED
  BY <1>1, <1>2 DEF RInv

\* From the moment a run is over, or its end was reported, its end is stored or on its way
\* to the database; the parts are preserved together.
THEOREM Running == Spec => []RInv
<1>1. RInv /\ [Next]_vars => RInv'
  BY StepTypeOK, StepBegun, StepBuried, StepWriting, StepEnding, StepCompleted, StepLate
     DEF RInv
<1> QED
  BY InitInv, <1>1, PTL DEF Spec

\* Every variable of the runs and of their record keeps its type, and the registry its
\* size.
THEOREM AgentRunTypeOK == Spec => []TypeOK
<1>1. RInv => TypeOK
  BY DEF RInv
<1> QED
  BY Running, <1>1, PTL

\* For any number of runs, stops and crashes: once a run is over and its journal drained,
\* its message and the task context say so, however it ended.
THEOREM AgentRunOverIsRecorded == Spec => []OverIsRecorded
<1>1. RInv => OverIsRecorded
  <2> SUFFICES ASSUME RInv, NEW r \in Runs \ silenced, Settled(r)
               PROVE  Recorded(r)
    BY DEF OverIsRecorded
  <2>1. TypeOK /\ Begun /\ Buried /\ Ending /\ r \in Runs
    BY DEF RInv
  <2>2. CASE task[r] = "gone"
    BY <2>1, <2>2 DEF Buried, Settled, Recorded
  <2>3. CASE task[r] \in {"over", "aborted"}
    <3>1. task[r] = "over" \/ (stop[r] = "done" /\ task[r] # "gone")
      BY <2>1, <2>3 DEF TypeOK, Begun, Settled
    <3>2. ~HasEnd(queue[r])
      BY DEF Settled, HasEnd
    <3> QED
      BY <2>1, <3>1, <3>2 DEF Ending, Settled, Said, Recorded
  <2> QED
    BY <2>2, <2>3 DEF Settled, Over
<1> QED
  BY Running, <1>1, PTL

\* A context that says "completed" has its message, across late ends, later runs of the
\* conversation and crashes between the journal's statements.
THEOREM AgentRunRecordsAgree == Spec => []RecordsAgree
<1>1. RInv => RecordsAgree
  BY DEF RInv, Completed, RecordsAgree
<1> QED
  BY Running, <1>1, PTL

\* After Stop, or closing, has cancelled a run at most one more tool starts, whatever the
\* bound MaxLate of the model.
THEOREM AgentRunAtMostOneToolAfterCancel == Spec => []AtMostOneToolAfterCancel
<1>1. RInv => AtMostOneToolAfterCancel
  <2> SUFFICES ASSUME RInv, NEW r \in Runs PROVE late[r] <= 1
    BY DEF AtMostOneToolAfterCancel
  <2>1. late[r] = 0 \/ late[r] = 1
    BY DEF RInv, Late
  <2> QED
    BY <2>1
<1> QED
  BY Running, <1>1, PTL

-----------------------------------------------------------------------------
(* AgentRun implements RunRecord.                                            *)

\* Which runs have a message, and whose message may still be written.
Told ==
    /\ \A r \in Runs :
          /\ content[r] = "none" <=> handler[r] = "idle"
          /\ content[r] = "recovered" => task[r] = "gone"
          /\ r \in unfinished => handler[r] # "idle" /\ task[r] # "gone"
    /\ writer # None => handler[writer.run] # "idle"

LEMMA InitTold == Init => Told
BY DEF Init, Told

\* The task of a run that is not gone moves, and is not gone then.
Moves(r) ==
    /\ task[r] # "gone" /\ task'[r] # "gone"
    /\ \A s \in Runs \ {r} : task'[s] = task[s]

LEMMA StepTold == RInv /\ Told /\ [Next]_vars => Told'
<1> SUFFICES ASSUME RInv, Told, [Next]_vars PROVE Told'
  OBVIOUS
<1> USE AgentRunAssumption, NothingAssumption
<1>0. TypeOK /\ Begun /\ Buried
  BY DEF RInv
<1>1. ASSUME NEW r \in Runs, Begin(r)
      PROVE  Told'
  <2>1. /\ handler' = [handler EXCEPT ![r] = "registering"] /\ handler[r] = "idle"
        /\ content' = [content EXCEPT ![r] = "starting"]
        /\ task' = [task EXCEPT ![r] = "loop"] /\ UNCHANGED <<unfinished, writer>>
    BY <1>1 DEF Begin, Goto, shutdown
  <2> QED
    BY <1>0, <2>1 DEF Told, TypeOK
<1>2. ASSUME NEW r \in Runs, Register(r) \/ DropHandler(r)
      PROVE  Told'
  <2>1. /\ handler' = [handler EXCEPT ![r] = "gone"] /\ handler[r] # "idle"
        /\ UNCHANGED <<content, task, unfinished, writer>>
    BY <1>2 DEF Register, DropHandler, shutdown, stored
  <2> QED
    BY <1>0, <2>1 DEF Told, TypeOK
<1>3. ASSUME NEW r \in Runs,
             \/ ServerGone(r) \/ Panic(r) \/ Top(r) \/ EndRun(r) \/ Again(r) \/ Allow(r)
             \/ AwaitApproval(r) \/ Decide(r) \/ StartTool(r) \/ Observe(r) \/ SendEnd(r)
             \/ Abort(r)
      PROVE  Told'
  <2>1. UNCHANGED <<handler, content, unfinished, writer>>
    BY <1>3 DEF ServerGone, Panic, Top, EndRun, Again, Allow, AwaitApproval, Decide, StartTool,
       Observe, SendEnd, Abort, shutdown, stored
  <2>2. Moves(r)
    BY <1>0, <1>3 DEF TypeOK, Moves, ServerGone, Panic, Top, EndRun, Again, Allow, AwaitApproval,
       Decide, StartTool, Observe, SendEnd, Abort, Goto, Parked
  <2> QED
    BY <2>1, <2>2 DEF Told, Moves
<1>4. ASSUME NEW r \in Runs,
             FinishTool(r) \/ StopAct(r) \/ StopEmit(r) \/ SessionStop(r) \/ CloseTake(r)
      PROVE  Told'
  <2>1. UNCHANGED <<handler, content, task, unfinished, writer>>
    BY <1>4 DEF FinishTool, StopAct, StopEmit, SessionStop, CloseTake, shutdown, stored
  <2> QED
    BY <2>1 DEF Told
<1>5. ASSUME NEW r \in Runs, Persist(r)
      PROVE  Told'
  <2>1. /\ content' = [content EXCEPT ![r] = end[r]] /\ end[r] \in Terminal
        /\ handler[r] # "idle" /\ Moves(r) /\ UNCHANGED <<handler, unfinished, writer>>
    BY <1>0, <1>5 DEF Persist, Begun, Goto, Moves, TypeOK, shutdown
  <2> QED
    BY <1>0, <2>1 DEF Told, TypeOK, Moves, Terminal
<1>6. ASSUME NEW r \in Runs, JournalTake(r)
      PROVE  Told'
  <2>1. /\ UNCHANGED <<handler, content, task, unfinished>> /\ handler[r] # "idle"
        /\ writer' # None => writer'.run = r
    BY <1>0, <1>6 DEF JournalTake, Begun, shutdown
  <2> QED
    BY <2>1 DEF Told
<1>7. ASSUME NEW r \in Runs, JournalMessage(r)
      PROVE  Told'
  <2>1. writer # None /\ writer \in Writers /\ writer.run = r /\ writer.state \in Terminal
    BY <1>0, <1>7 DEF JournalMessage, TypeOK, Writers
  <2>2. /\ content' = [content EXCEPT ![r] = writer.state]
        /\ writer' = [writer EXCEPT !.at = "context"]
        /\ UNCHANGED <<handler, task, unfinished>>
    BY <1>7 DEF JournalMessage, shutdown
  <2>3. writer'.run = r /\ handler[r] # "idle"
    BY <2>1, <2>2 DEF Writers, Told
  <2>4. \A s \in Runs : content'[s] = IF s = r THEN writer.state ELSE content[s]
    BY <1>0, <2>2 DEF TypeOK
  <2> QED
    BY <2>1, <2>2, <2>3, <2>4 DEF Told, Terminal
<1>8. ASSUME NEW r \in Runs, JournalContext(r)
      PROVE  Told'
  <2>1. UNCHANGED <<handler, content, task, unfinished>> /\ writer' = None
    BY <1>8 DEF JournalContext, shutdown
  <2> QED
    BY <2>1 DEF Told
<1>9. CASE CloseBegin
  <2>1. /\ UNCHANGED <<handler, content, task, writer>>
        /\ \A r \in unfinished' : Registered(r)
    BY <1>9 DEF CloseBegin, stored
  <2> QED
    BY <1>0, <2>1 DEF Told, Begun
<1>10. CASE CloseRecord
  <2>1. /\ content' = [r \in Runs |-> IF r \in unfinished THEN "closed" ELSE content[r]]
        /\ unfinished' = {} /\ UNCHANGED <<handler, task, writer>>
    BY <1>10 DEF CloseRecord
  <2> QED
    BY <2>1 DEF Told
<1>11. CASE Crash
  <2>1. /\ handler' = [r \in Runs |-> IF handler[r] = "registering" THEN "gone" ELSE handler[r]]
        /\ task' = [r \in Runs |-> IF task[r] = "none" THEN "none" ELSE "gone"]
        /\ unfinished' = {} /\ writer' = None /\ UNCHANGED content
    BY <1>11 DEF Crash
  <2> QED
    BY <2>1 DEF Told
<1>12. CASE Restart
  <2>1. /\ content' = [r \in Runs |-> IF activity[r] = "step" /\ content[r] = "starting"
                                      THEN "recovered" ELSE content[r]]
        /\ ~up /\ UNCHANGED <<handler, task, unfinished, writer>>
    BY <1>12 DEF Restart, shutdown
  <2>2. \A r \in Runs : content[r] = "starting" => task[r] = "gone"
    BY <1>0, <2>1 DEF Told, Begun, Buried
  <2> QED
    BY <2>1, <2>2 DEF Told
<1>13. CASE UNCHANGED vars
  <2>1. UNCHANGED <<handler, content, task, unfinished, writer>>
    BY <1>13 DEF vars, shutdown, stored
  <2> QED
    BY <2>1 DEF Told
<1> QED
  BY <1>1, <1>2, <1>3, <1>4, <1>5, <1>6, <1>7, <1>8, <1>9, <1>10, <1>11, <1>12, <1>13 DEF Next, Task

\* A run has a message from its beginning, and the recovery's word is never written over:
\* the run's task is gone, and neither the journal nor closing still knows of the run.
THEOREM Telling == Spec => []Told
<1>1. RInv /\ Told /\ [Next]_vars => Told'
  BY StepTold
<1> QED
  BY InitTold, <1>1, Running, PTL DEF Spec

LEMMA InitRecord == Init => Record!Init
BY DEF Init, Record!Init

\* Every action leaves message and context alone or is one of RunRecord's.
LEMMA StepRecord == RInv /\ Told /\ [Next]_vars => [Record!Next]_(Record!vars)
<1> SUFFICES ASSUME RInv, Told, [Next]_vars PROVE Record!Next \/ UNCHANGED <<content, context>>
  BY DEF Record!vars
<1> USE AgentRunAssumption, NothingAssumption
<1>0. TypeOK /\ Begun /\ Buried /\ Writing
  BY DEF RInv
<1>1. ASSUME NEW r \in Runs, Begin(r)
      PROVE  Record!Next
  <2>1. Record!Begin(r)
    BY <1>1 DEF Begin, Told, Record!Begin
  <2> QED
    BY <2>1 DEF Record!Next
<1>2. ASSUME NEW r \in Runs,
             \/ Register(r) \/ DropHandler(r) \/ ServerGone(r) \/ Panic(r) \/ Top(r)
             \/ EndRun(r) \/ Again(r) \/ Allow(r) \/ AwaitApproval(r) \/ Decide(r)
             \/ StartTool(r) \/ Observe(r) \/ SendEnd(r) \/ Abort(r) \/ FinishTool(r)
             \/ StopAct(r) \/ StopEmit(r) \/ SessionStop(r) \/ CloseTake(r) \/ JournalTake(r)
      PROVE  UNCHANGED <<content, context>>
  BY <1>2 DEF Register, DropHandler, ServerGone, Panic, Top, EndRun, Again, Allow,
     AwaitApproval, Decide, StartTool, Observe, SendEnd, Abort, FinishTool, StopAct, StopEmit,
     SessionStop, CloseTake, JournalTake, stored
<1>3. ASSUME NEW r \in Runs, Persist(r)
      PROVE  Record!Next
  <2>1. /\ end[r] \in {"completed", "interrupted"} /\ handler[r] # "idle" /\ task[r] # "gone"
        /\ content' = [content EXCEPT ![r] = end[r]] /\ UNCHANGED context
    BY <1>0, <1>3 DEF Persist, Begun, Terminal
  <2>2. Record!Say(r)
    BY <2>1 DEF Told, Record!Say
  <2> QED
    BY <2>2 DEF Record!Next
<1>4. ASSUME NEW r \in Runs, JournalMessage(r)
      PROVE  Record!Next
  <2>1. writer # None /\ writer \in Writers /\ writer.run = r
    BY <1>0, <1>4 DEF JournalMessage, TypeOK
  <2>2. /\ writer.state \in {"completed", "interrupted"} /\ handler[r] # "idle" /\ task[r] # "gone"
        /\ content' = [content EXCEPT ![r] = writer.state] /\ UNCHANGED context
    BY <1>0, <1>4, <2>1 DEF JournalMessage, Writers, Terminal, Told, Buried
  <2>3. Record!Say(r)
    BY <2>2 DEF Told, Record!Say
  <2> QED
    BY <2>3 DEF Record!Next
<1>5. ASSUME NEW r \in Runs, JournalContext(r)
      PROVE  Record!Next \/ UNCHANGED <<content, context>>
  <2>1. CASE context.run = r
    <3>1. /\ content[r] = writer.state /\ writer.state \in {"completed", "interrupted"}
          /\ context' = [context EXCEPT !.status = writer.state] /\ UNCHANGED content
      BY <1>0, <1>5, <2>1 DEF JournalContext, Writing, TypeOK, Writers, Terminal
    <3>2. Record!Conclude
      BY <2>1, <3>1 DEF Record!Conclude
    <3> QED
      BY <3>2 DEF Record!Next
  <2>2. CASE context.run # r
    BY <1>5, <2>2 DEF JournalContext
  <2> QED
    BY <2>1, <2>2
<1>6. CASE CloseBegin
  BY <1>6 DEF CloseBegin, stored
<1>7. CASE CloseRecord
  <2>1. unfinished \in SUBSET Runs /\ Record!Close(unfinished)
    BY <1>0, <1>7 DEF CloseRecord, Told, TypeOK, Record!Close
  <2> QED
    BY <2>1 DEF Record!Next
<1>8. CASE Crash
  BY <1>8 DEF Crash
<1>9. CASE Restart
  <2> DEFINE some == {r \in Runs : activity[r] = "step" /\ content[r] = "starting"}
  <2>1. some \in SUBSET Runs /\ Record!Recover(some)
    BY <1>9 DEF Restart, Record!Recover
  <2> QED
    BY <2>1 DEF Record!Next
<1>10. CASE UNCHANGED vars
  BY <1>10 DEF vars, stored
<1> QED
  BY <1>1, <1>2, <1>3, <1>4, <1>5, <1>6, <1>7, <1>8, <1>9, <1>10 DEF Next, Task

\* What the database says of any number of runs, across stops, closings and crashes,
\* keeps the promises of RunRecord.
THEOREM AgentRunRecordSpec == Spec => RecordSpec
<1>1. Init => Record!Init
  BY InitRecord
<1>2. RInv /\ Told /\ [Next]_vars => [Record!Next]_(Record!vars)
  BY StepRecord
<1> QED
  BY <1>1, <1>2, Running, Telling, PTL DEF Spec, RecordSpec, Record!Spec
-----------------------------------------------------------------------------
(* EventFeed for a run of any length and a channel of any size: what the page *)
(* that follows a run is shown of it.                                         *)

CONSTANTS Capacity, MaxEvents

VARIABLE feed

Feed == INSTANCE EventFeed

\* The run speaks and the page follows it, step by step.
FeedSpec == feed = Feed!New /\ [][feed' \in Feed!Next(feed)]_feed

Speakers == {"run", "stop"}
Event == [n : Nat, is : {"nothing", "step", "over", "text"}]
Feeds ==
    [log : Seq(Event), sent : [Speakers -> Event],
     next : Nat, stopping : {"no", "judged", "said"}, gone : BOOLEAN,
     order : Seq(Nat), feed : {"away", "live", "done"}, queue : Seq(Event), shown : Seq(Event),
     lagged : BOOLEAN, open : SUBSET Nat]

Speaks(s, who) == s.sent[who] # Feed!Nothing

\* Every event has a number of its own, in the order in which they were logged and once
\* in that in which they were broadcast.
Numbered(s) ==
    /\ s.next >= 1
    /\ \A i \in DOMAIN s.log : s.log[i].n \in 1..(s.next - 1)
    /\ \A i, j \in DOMAIN s.log : i < j => s.log[i].n < s.log[j].n
    /\ \A who \in Speakers : Speaks(s, who) =>
          /\ s.sent[who].n \in 1..(s.next - 1)
          /\ \A i \in DOMAIN s.order : s.order[i] # s.sent[who].n
    /\ Speaks(s, "run") /\ Speaks(s, "stop") => s.sent["run"].n # s.sent["stop"].n
    /\ \A i \in DOMAIN s.order : s.order[i] \in 1..(s.next - 1)
    /\ \A i, j \in DOMAIN s.order : s.order[i] = s.order[j] => i = j

\* What a follower still has to receive was broadcast, in this order.
Received(s) ==
    /\ s.feed = "away" => s.queue = <<>> /\ s.shown = <<>>
    /\ \A i \in DOMAIN s.shown : s.shown[i].n < s.next
    /\ \A k \in DOMAIN s.queue : \E p \in DOMAIN s.order : s.order[p] = s.queue[k].n
    /\ \A k, l \in DOMAIN s.queue : k < l =>
          \E p, q \in DOMAIN s.order : p < q /\ s.order[p] = s.queue[k].n /\ s.order[q] = s.queue[l].n

\* An event that is shown and still on its way was so when the page began to follow.
Repeats(s) ==
    /\ Feed!RepeatsAreKnown(s)
    /\ \A i \in DOMAIN s.shown : \A k \in DOMAIN s.queue :
          s.shown[i].n = s.queue[k].n => s.shown[i].n \in s.open
    /\ \A i \in DOMAIN s.shown : \A who \in Speakers :
          Speaks(s, who) /\ s.shown[i].n = s.sent[who].n => s.shown[i].n \in s.open

\* Of what was logged and broadcast, a follower that has not fallen behind misses nothing ...
Complete(s) ==
    s.feed = "live" =>
        /\ \A i \in DOMAIN s.shown : s.shown[i].is # "over"
        /\ ~s.lagged => \A i \in DOMAIN s.log : \A p \in DOMAIN s.order : s.order[p] = s.log[i].n =>
              \/ \E k \in DOMAIN s.shown : s.shown[k].n = s.log[i].n
              \/ \E k \in DOMAIN s.queue : s.queue[k].n = s.log[i].n

\* ... until it is shown the end, which is number n: then nothing broadcast before that.
Before(s, n) ==
    \A i \in DOMAIN s.log : s.log[i].n < n =>
        \/ \E k \in DOMAIN s.shown : s.shown[k].n = s.log[i].n
        \/ \A q \in DOMAIN s.order : s.order[q] = s.log[i].n =>
              \E p \in DOMAIN s.order : s.order[p] = n /\ p < q

Concluded(s) ==
    s.feed = "done" =>
        \E e \in DOMAIN s.shown :
            /\ s.shown[e].is = "over" /\ \A j \in 1..(e - 1) : s.shown[j].is # "over"
            /\ \/ \E p \in DOMAIN s.order : s.order[p] = s.shown[e].n
               \/ \A i \in DOMAIN s.log : s.log[i].n < s.shown[e].n =>
                      \E k \in DOMAIN s.shown : s.shown[k].n = s.log[i].n
            /\ ~s.lagged => Before(s, s.shown[e].n)

\* What the run's task may still say once the end is logged.
Pending(s) == IF Speaks(s, "run") THEN 1 ELSE 0
Allowed(s) == IF s.gone THEN 0 ELSE 1
Coming(s) ==
    \/ s.sent["run"].is = "over" \/ s.sent["stop"].is = "over"
    \/ \E i \in DOMAIN s.queue :
          s.queue[i].is = "over" /\ (Len(s.queue) - i) + Pending(s) + Allowed(s) <= 2

\* Who has said the end, and that no more can follow it in the queue than there is room for.
Ends(s) ==
    /\ s.sent["run"].is = "over" => s.gone
    /\ Speaks(s, "stop") => s.sent["stop"].is = "over" /\ s.stopping = "said"
    /\ Feed!Over(s.log) => s.gone \/ s.stopping = "said"
    /\ s.feed = "live" /\ Feed!Over(s.log) => Coming(s)

FInv(s) ==
    s \in Feeds /\ Numbered(s) /\ Received(s) /\ Repeats(s) /\ Complete(s) /\ Concluded(s) /\ Ends(s)

-----------------------------------------------------------------------------
(* The steps, field by field.                                                *)

Same(s, t) ==
    /\ t.order = s.order /\ t.feed = s.feed /\ t.queue = s.queue /\ t.shown = s.shown
    /\ t.lagged = s.lagged /\ t.open = s.open

\* An event is logged, and is to be broadcast.
Logs(s, t, who, is) ==
    /\ t.log = Append(s.log, [n |-> s.next, is |-> is])
    /\ t.sent = [s.sent EXCEPT ![who] = [n |-> s.next, is |-> is]]
    /\ t.next = s.next + 1
    /\ Same(s, t)

\* An event is broadcast.
Sends(s, t, e) ==
    /\ t.order = Append(s.order, e.n)
    /\ t.log = s.log /\ t.feed = s.feed /\ t.shown = s.shown /\ t.open = s.open
    /\ t.stopping = s.stopping
    /\ \/ s.feed # "live" /\ t.queue = s.queue /\ t.lagged = s.lagged
       \/ s.feed = "live" /\ Len(s.queue) < Capacity
          /\ t.queue = Append(s.queue, e) /\ t.lagged = s.lagged
       \/ s.feed = "live" /\ Len(s.queue) >= Capacity
          /\ t.queue = Tail(Append(s.queue, e)) /\ t.lagged = TRUE

RunLogs(s, t) ==
    /\ ~Speaks(s, "run") /\ ~s.gone
    /\ \E is \in {"step", "over"} : Logs(s, t, "run", is) /\ t.gone = (is = "over" \/ s.stopping = "said")
    /\ t.stopping = s.stopping
RunShows(s, t) ==
    /\ ~Speaks(s, "run") /\ ~s.gone /\ t.gone = (s.stopping = "said")
    /\ Sends(s, t, [n |-> s.next, is |-> "text"]) /\ t.sent = s.sent /\ t.next = s.next + 1
StopLogs(s, t) ==
    /\ s.stopping = "judged" /\ Logs(s, t, "stop", "over") /\ t.stopping = "said" /\ t.gone = s.gone
Tells(s, t) ==
    /\ t.log = s.log /\ t.sent = s.sent /\ t.next = s.next /\ Same(s, t)
    /\ \/ s.stopping = "no" /\ t.stopping = "judged" /\ t.gone = s.gone
       \/ t.stopping = s.stopping /\ t.gone = TRUE
Follows(s, t) ==
    /\ t.log = s.log /\ t.sent = s.sent /\ t.next = s.next /\ t.stopping = s.stopping
    /\ t.gone = s.gone /\ t.order = s.order /\ t.queue = s.queue /\ t.lagged = s.lagged
    /\ s.feed = "away" /\ t.feed = IF Feed!Over(s.log) THEN "done" ELSE "live"
    /\ t.shown = s.log /\ t.open = {s.sent[who].n : who \in Speakers} \ {0}
Receives(s, t) ==
    /\ t.log = s.log /\ t.sent = s.sent /\ t.next = s.next /\ t.stopping = s.stopping
    /\ t.gone = s.gone /\ t.order = s.order /\ t.lagged = s.lagged /\ t.open = s.open
    /\ s.feed = "live" /\ s.queue # <<>>
    /\ t.shown = Append(s.shown, Head(s.queue)) /\ t.queue = Tail(s.queue)
    /\ t.feed = IF Head(s.queue).is = "over" THEN "done" ELSE "live"
Broadcasts(s, t, who) ==
    /\ Speaks(s, who) /\ Sends(s, t, s.sent[who])
    /\ t.sent = [s.sent EXCEPT ![who] = Feed!Nothing] /\ t.next = s.next /\ t.gone = s.gone

LEMMA InitFeed == FInv(Feed!New)
<1> USE DEF Feed!New
<1>1. Feed!New \in Feeds
  BY DEF Feeds, Event, Feed!Nothing, Speakers
<1>2. Numbered(Feed!New) /\ Received(Feed!New) /\ Repeats(Feed!New)
  BY DEF Numbered, Received, Repeats, Speaks, Feed!RepeatsAreKnown, Feed!Nothing, Speakers
<1>3. Complete(Feed!New) /\ Concluded(Feed!New) /\ Ends(Feed!New)
  BY DEF Complete, Concluded, Ends, Coming, Feed!Over, Feed!Nothing, Speaks
<1> QED BY <1>1, <1>2, <1>3 DEF FInv

LEMMA QueuedFields ==
    ASSUME NEW s \in Feeds, NEW e \in Event, Capacity \in Nat
    PROVE  LET t == Feed!Queued(s, e)
           IN /\ t \in Feeds
              /\ t.log = s.log /\ t.feed = s.feed /\ t.shown = s.shown /\ t.open = s.open
              /\ t.stopping = s.stopping /\ t.gone = s.gone /\ t.next = s.next /\ t.sent = s.sent
              /\ t.order = s.order
              /\ \/ s.feed # "live" /\ t.queue = s.queue /\ t.lagged = s.lagged
                 \/ s.feed = "live" /\ Len(s.queue) < Capacity
                    /\ t.queue = Append(s.queue, e) /\ t.lagged = s.lagged
                 \/ s.feed = "live" /\ Len(s.queue) >= Capacity
                    /\ t.queue = Tail(Append(s.queue, e)) /\ t.lagged = TRUE
<1> DEFINE q == Append(s.queue, e)
<1>1. s.queue \in Seq(Event)
  BY DEF Feeds
<1>2. q \in Seq(Event) /\ Len(q) = Len(s.queue) + 1 /\ Len(s.queue) \in Nat
  BY <1>1
<1>3. Tail(q) \in Seq(Event)
  BY <1>2
<1> HIDE DEF q
<1>4. CASE s.feed # "live"
  BY <1>4 DEF Feed!Queued
<1>5. CASE s.feed = "live" /\ Len(q) <= Capacity
  <2>1. Feed!Queued(s, e) = [s EXCEPT !.queue = q]
    BY <1>5 DEF Feed!Queued, q
  <2>2. Feed!Queued(s, e) \in Feeds
    BY <2>1, <1>2 DEF Feeds
  <2>3. Len(s.queue) < Capacity
    BY <1>2, <1>5
  <2>4. LET t == Feed!Queued(s, e)
        IN /\ t.log = s.log /\ t.feed = s.feed /\ t.shown = s.shown /\ t.open = s.open
           /\ t.stopping = s.stopping /\ t.gone = s.gone /\ t.next = s.next /\ t.sent = s.sent
           /\ t.order = s.order /\ t.queue = q /\ t.lagged = s.lagged
    BY <2>1 DEF Feeds
  <2> QED BY <2>2, <2>3, <2>4, <1>5 DEF q
<1>6. CASE s.feed = "live" /\ ~(Len(q) <= Capacity)
  <2>1. Feed!Queued(s, e) = [s EXCEPT !.queue = Tail(q), !.lagged = TRUE]
    BY <1>6 DEF Feed!Queued, q
  <2>2. Feed!Queued(s, e) \in Feeds
    BY <2>1, <1>3 DEF Feeds
  <2>3. Len(s.queue) >= Capacity
    BY <1>2, <1>6
  <2>4. LET t == Feed!Queued(s, e)
        IN /\ t.log = s.log /\ t.feed = s.feed /\ t.shown = s.shown /\ t.open = s.open
           /\ t.stopping = s.stopping /\ t.gone = s.gone /\ t.next = s.next /\ t.sent = s.sent
           /\ t.order = s.order /\ t.queue = Tail(q) /\ t.lagged = TRUE
    BY <2>1 DEF Feeds
  <2> QED BY <2>2, <2>3, <2>4, <1>6 DEF q
<1> QED BY <1>4, <1>5, <1>6

LEMMA LogFields ==
    ASSUME NEW s \in Feeds, NEW who \in Speakers, NEW is \in {"step", "over"}
    PROVE  LET t == Feed!Log(s, who, is)
           IN t \in Feeds /\ Logs(s, t, who, is) /\ t.gone = s.gone /\ t.stopping = s.stopping
<1> DEFINE e == [n |-> s.next, is |-> is]
<1>1. e \in Event
  BY DEF Event, Feeds
<1>2. Append(s.log, e) \in Seq(Event)
  BY <1>1 DEF Feeds
<1>3. [s.sent EXCEPT ![who] = e] \in [Speakers -> Event]
  BY <1>1 DEF Feeds
<1> HIDE DEF e
<1> DEFINE l == Append(s.log, e)
           x == [s.sent EXCEPT ![who] = e]
<1>4. Feed!Log(s, who, is) = [s EXCEPT !.log = l, !.sent = x, !.next = s.next + 1]
  BY DEF Feed!Log, e, Feeds
<1>5. l \in Seq(Event) /\ x \in [Speakers -> Event] /\ s.next + 1 \in Nat
  BY <1>2, <1>3 DEF Feeds
<1> HIDE DEF l, x
<1>6. Feed!Log(s, who, is) \in Feeds
  BY <1>4, <1>5 DEF Feeds
<1>7. LET t == Feed!Log(s, who, is)
      IN /\ t.log = l /\ t.sent = x /\ t.next = s.next + 1
         /\ Same(s, t) /\ t.gone = s.gone /\ t.stopping = s.stopping
  BY <1>4 DEF Feeds, Same
<1> QED BY <1>6, <1>7 DEF Logs, e, l, x

LEMMA SendFields ==
    ASSUME NEW s \in Feeds, NEW e \in Event, Capacity \in Nat
    PROVE  LET t == [Feed!Queued(s, e) EXCEPT !.order = Append(s.order, e.n)]
           IN t \in Feeds /\ Sends(s, t, e) /\ t.gone = s.gone /\ t.next = s.next /\ t.sent = s.sent
<1> DEFINE u == Feed!Queued(s, e)
<1>1. u \in Feeds
  BY QueuedFields
<1>2. Append(s.order, e.n) \in Seq(Nat)
  BY DEF Feeds, Event
<1>3. /\ u.log = s.log /\ u.feed = s.feed /\ u.shown = s.shown /\ u.open = s.open
      /\ u.stopping = s.stopping /\ u.gone = s.gone /\ u.next = s.next /\ u.sent = s.sent
      /\ \/ s.feed # "live" /\ u.queue = s.queue /\ u.lagged = s.lagged
         \/ s.feed = "live" /\ Len(s.queue) < Capacity
            /\ u.queue = Append(s.queue, e) /\ u.lagged = s.lagged
         \/ s.feed = "live" /\ Len(s.queue) >= Capacity
            /\ u.queue = Tail(Append(s.queue, e)) /\ u.lagged = TRUE
  BY QueuedFields
<1> HIDE DEF u
<1> DEFINE o == Append(s.order, e.n)
           t == [u EXCEPT !.order = o]
<1>4. o \in Seq(Nat)
  BY <1>2
<1> HIDE DEF o
<1>5. /\ t \in Feeds /\ t.order = o /\ t.queue = u.queue /\ t.lagged = u.lagged
      /\ t.log = u.log /\ t.feed = u.feed /\ t.shown = u.shown /\ t.open = u.open
      /\ t.stopping = u.stopping /\ t.gone = u.gone /\ t.next = u.next /\ t.sent = u.sent
  BY <1>1, <1>4 DEF Feeds
<1> HIDE DEF t
<1>6. t \in Feeds /\ Sends(s, t, e) /\ t.gone = s.gone /\ t.next = s.next /\ t.sent = s.sent
  BY <1>3, <1>5 DEF Sends, o
<1> QED BY <1>6 DEF t, o, u

\* Every step is one of these.
LEMMA FeedSteps ==
    ASSUME NEW s \in Feeds, NEW t \in Feed!Next(s), Capacity \in Nat
    PROVE  /\ t \in Feeds
           /\ \/ RunLogs(s, t) \/ RunShows(s, t) \/ StopLogs(s, t) \/ Tells(s, t)
              \/ Follows(s, t) \/ Receives(s, t) \/ \E who \in Speakers : Broadcasts(s, t, who)
<1>1. CASE t \in Feed!RunSpeaks(s)
  <2>1. ~Speaks(s, "run") /\ ~s.gone
    BY <1>1 DEF Feed!RunSpeaks, Speaks
  <2> DEFINE u == [s EXCEPT !.gone = s.stopping = "said"]
  <2>2. /\ u \in Feeds /\ u.gone = (s.stopping = "said") /\ u.log = s.log /\ u.sent = s.sent
        /\ u.next = s.next /\ u.stopping = s.stopping /\ Same(s, u)
    BY DEF Feeds, Same
  <2>3. t \in {Feed!Log(u, "run", "step"), Feed!Show(u), [Feed!Log(s, "run", "over") EXCEPT !.gone = TRUE]}
    <3>1. u = [s EXCEPT !.gone = s.gone \/ s.stopping = "said"]
      BY <2>1
    <3> QED BY <1>1, <2>1, <3>1 DEF Feed!RunSpeaks, Speaks
  <2> HIDE DEF u
  <2>4. CASE t = Feed!Log(u, "run", "step")
    <3>1. t \in Feeds /\ Logs(u, t, "run", "step") /\ t.gone = u.gone /\ t.stopping = u.stopping
      BY <2>2, <2>4, LogFields DEF Speakers
    <3> QED BY <3>1, <2>1, <2>2 DEF RunLogs, Logs, Same
  <2>5. CASE t = Feed!Show(u)
    <3> DEFINE e == [n |-> u.next, is |-> "text"]
               v == [Feed!Queued(u, e) EXCEPT !.order = Append(u.order, e.n)]
    <3>1. e \in Event /\ e.n = u.next
      BY <2>2 DEF Event, Feeds
    <3>2. v \in Feeds /\ Sends(u, v, e) /\ v.gone = u.gone /\ v.next = u.next /\ v.sent = u.sent
      BY <2>2, <3>1, SendFields
    <3>3. t = [v EXCEPT !.next = u.next + 1]
      <4>1. /\ Feed!Queued(u, e) \in Feeds /\ Feed!Queued(u, e).next = u.next
            /\ Feed!Queued(u, e).order = u.order
        BY <2>2, <3>1, QueuedFields
      <4> QED BY <2>5, <3>1, <4>1 DEF Feed!Show, Feeds
    <3> HIDE DEF v
    <3> HIDE DEF e
    <3>5. /\ t.next = u.next + 1 /\ t.sent = v.sent /\ t.gone = v.gone
          /\ t.order = v.order /\ t.log = v.log /\ t.feed = v.feed /\ t.shown = v.shown
          /\ t.open = v.open /\ t.stopping = v.stopping /\ t.queue = v.queue /\ t.lagged = v.lagged
      BY <3>2, <3>3 DEF Feeds
    <3>6. t \in Feeds
      <4>1. u.next + 1 \in Nat
        BY <2>2 DEF Feeds
      <4> QED BY <4>1, <3>2, <3>3 DEF Feeds
    <3>4. t \in Feeds /\ t.next = u.next + 1 /\ t.sent = v.sent /\ t.gone = v.gone /\ Sends(u, t, e)
      BY <3>2, <3>5, <3>6 DEF Sends
    <3> QED BY <3>4, <3>2, <2>1, <2>2 DEF RunShows, Sends, Same, e
  <2>6. CASE t = [Feed!Log(s, "run", "over") EXCEPT !.gone = TRUE]
    <3> DEFINE v == Feed!Log(s, "run", "over")
    <3>1. v \in Feeds /\ Logs(s, v, "run", "over") /\ v.stopping = s.stopping
      BY LogFields DEF Speakers
    <3> HIDE DEF v
    <3>2. t \in Feeds /\ t.gone = TRUE /\ t.stopping = v.stopping /\ Logs(s, t, "run", "over")
      BY <3>1, <2>6 DEF Feeds, Logs, Same, v
    <3> QED BY <3>1, <3>2, <2>1 DEF RunLogs
  <2> QED BY <2>3, <2>4, <2>5, <2>6
<1>2. CASE t \in Feed!StopSpeaks(s)
  <2>1. CASE t = [s EXCEPT !.stopping = "judged"] /\ s.stopping = "no"
    BY <2>1 DEF Tells, Feeds, Same
  <2>2. CASE t = [Feed!Log(s, "stop", "over") EXCEPT !.stopping = "said"] /\ s.stopping = "judged"
    <3> DEFINE v == Feed!Log(s, "stop", "over")
    <3>1. v \in Feeds /\ Logs(s, v, "stop", "over") /\ v.gone = s.gone
      BY LogFields DEF Speakers
    <3> HIDE DEF v
    <3>2. t \in Feeds /\ t.stopping = "said" /\ t.gone = v.gone /\ Logs(s, t, "stop", "over")
      BY <3>1, <2>2 DEF Feeds, Logs, Same, v
    <3> QED BY <3>1, <3>2, <2>2 DEF StopLogs
  <2>3. CASE t = [s EXCEPT !.gone = TRUE]
    BY <2>3 DEF Tells, Feeds, Same
  <2> QED BY <1>2, <2>1, <2>2, <2>3 DEF Feed!StopSpeaks
<1>3. CASE t \in Feed!Follow(s)
  <2> DEFINE o == {s.sent[who].n : who \in {"run", "stop"}} \ {0}
  <2>1. o \in SUBSET Nat
    BY DEF Feeds, Event, Speakers
  <2>2. o = {s.sent[who].n : who \in Speakers} \ {0}
    BY DEF Speakers
  <2>3. /\ s.feed = "away"
        /\ t = [s EXCEPT !.feed = IF Feed!Over(s.log) THEN "done" ELSE "live", !.shown = s.log, !.open = o]
    BY <1>3 DEF Feed!Follow, Feed!Seen
  <2> HIDE DEF o
  <2>4. t \in Feeds
    BY <2>1, <2>3 DEF Feeds
  <2> QED BY <2>2, <2>3, <2>4, ZenonT(60) DEF Follows, Feeds
<1>4. CASE t \in Feed!Receive(s)
  <2> DEFINE w == Append(s.shown, Head(s.queue))
             q == Tail(s.queue)
  <2>1. s.feed = "live" /\ s.queue # <<>>
    BY <1>4 DEF Feed!Receive
  <2>2. w \in Seq(Event) /\ q \in Seq(Event)
    BY <2>1 DEF Feeds
  <2>3. t = [s EXCEPT !.shown = w, !.queue = q, !.feed = IF Head(s.queue).is = "over" THEN "done" ELSE s.feed]
    BY <1>4, <2>1 DEF Feed!Receive
  <2> HIDE DEF w, q
  <2>4. t \in Feeds
    BY <2>2, <2>3 DEF Feeds
  <2>5. /\ t.log = s.log /\ t.sent = s.sent /\ t.next = s.next /\ t.stopping = s.stopping
        /\ t.gone = s.gone /\ t.order = s.order /\ t.lagged = s.lagged /\ t.open = s.open
        /\ t.shown = w /\ t.queue = q /\ t.feed = IF Head(s.queue).is = "over" THEN "done" ELSE "live"
    BY <2>1, <2>3 DEF Feeds
  <2> QED BY <2>1, <2>4, <2>5 DEF Receives, w, q
<1>5. ASSUME NEW who \in Speakers, s.sent[who] # Feed!Nothing, t = Feed!Broadcast(s, who)
      PROVE  t \in Feeds /\ Broadcasts(s, t, who)
  <2> DEFINE e == s.sent[who]
             v == [Feed!Queued(s, e) EXCEPT !.order = Append(s.order, e.n)]
             w == [s.sent EXCEPT ![who] = Feed!Nothing]
  <2>1. e \in Event /\ Feed!Nothing \in Event
    BY DEF Feeds, Event, Feed!Nothing
  <2>2. v \in Feeds /\ Sends(s, v, e) /\ v.gone = s.gone /\ v.next = s.next /\ v.sent = s.sent
    BY <2>1, SendFields
  <2>3. w \in [Speakers -> Event]
    BY <2>1 DEF Feeds
  <2>4. t = [v EXCEPT !.sent = w]
    <3>1. /\ Feed!Queued(s, e) \in Feeds /\ Feed!Queued(s, e).sent = s.sent
          /\ Feed!Queued(s, e).order = s.order
      BY <2>1, QueuedFields
    <3> QED BY <1>5, <3>1 DEF Feed!Broadcast, Feeds
  <2> HIDE DEF v, w
  <2>5. t \in Feeds /\ t.sent = w /\ t.next = v.next /\ t.gone = v.gone /\ Sends(s, t, e)
    BY <2>2, <2>3, <2>4 DEF Feeds, Sends
  <2> QED BY <2>2, <2>5, <1>5 DEF Broadcasts, Speaks, w
<1> QED BY <1>1, <1>2, <1>3, <1>4, <1>5 DEF Feed!Next, Speakers

-----------------------------------------------------------------------------
LEMMA Added ==
    ASSUME NEW S, NEW q \in Seq(S), NEW e \in S
    PROVE  LET a == Append(q, e)
           IN /\ a \in Seq(S) /\ Len(a) = Len(q) + 1 /\ Len(q) \in Nat
              /\ DOMAIN q = 1..Len(q) /\ DOMAIN a = 1..(Len(q) + 1)
              /\ a[Len(q) + 1] = e /\ \A i \in DOMAIN q : a[i] = q[i]
BY AppendProperties

\* What a broadcast does to a queue: the event is the last, and the first may be gone.
LEMMA SentTo ==
    ASSUME NEW s \in Feeds, NEW t, NEW e \in Event, Sends(s, t, e), s.feed = "live"
    PROVE  \E d \in {0, 1} :
              /\ Len(s.queue) \in Nat /\ DOMAIN s.queue = 1..Len(s.queue)
              /\ Len(t.queue) = Len(s.queue) + 1 - d /\ DOMAIN t.queue = 1..Len(t.queue)
              /\ \A k \in 1..Len(t.queue) : t.queue[k] = IF k + d <= Len(s.queue) THEN s.queue[k + d] ELSE e
              /\ d = 0 => t.lagged = s.lagged
              /\ d = 1 => t.lagged /\ Len(s.queue) >= Capacity
<1> DEFINE a == Append(s.queue, e)
<1>1. s.queue \in Seq(Event)
  BY DEF Feeds
<1>2. /\ a \in Seq(Event) /\ Len(a) = Len(s.queue) + 1 /\ Len(s.queue) \in Nat
      /\ DOMAIN s.queue = 1..Len(s.queue) /\ DOMAIN a = 1..(Len(s.queue) + 1)
      /\ a[Len(s.queue) + 1] = e /\ \A i \in DOMAIN s.queue : a[i] = s.queue[i]
  BY <1>1, Added
<1>3. CASE t.queue = a /\ t.lagged = s.lagged
  <2>1. \A k \in 1..Len(a) : a[k] = IF k + 0 <= Len(s.queue) THEN s.queue[k + 0] ELSE e
    BY <1>2
  <2> HIDE DEF a
  <2> QED BY <1>2, <1>3, <2>1
<1>4. CASE t.queue = Tail(a) /\ t.lagged = TRUE /\ Len(s.queue) >= Capacity
  <2> HIDE DEF a
  <2>1. a # <<>>
    BY <1>2
  <2>2. /\ Len(Tail(a)) = Len(a) - 1 /\ DOMAIN Tail(a) = 1..(Len(a) - 1)
        /\ \A k \in 1..(Len(a) - 1) : Tail(a)[k] = a[k + 1]
    BY <1>2, <2>1
  <2>3. ASSUME NEW k \in 1..(Len(a) - 1)
        PROVE  Tail(a)[k] = IF k + 1 <= Len(s.queue) THEN s.queue[k + 1] ELSE e
    <3>1. Tail(a)[k] = a[k + 1]
      BY <2>2
    <3>2. CASE k + 1 <= Len(s.queue)
      BY <1>2, <3>1, <3>2
    <3>3. CASE ~(k + 1 <= Len(s.queue))
      <4>1. k + 1 = Len(s.queue) + 1
        BY <1>2, <3>3
      <4> QED BY <1>2, <3>1, <3>3, <4>1
    <3> QED BY <3>2, <3>3
  <2>4. /\ Len(t.queue) = Len(s.queue) + 1 - 1 /\ DOMAIN t.queue = 1..Len(t.queue)
        /\ \A k \in 1..Len(t.queue) : t.queue[k] = IF k + 1 <= Len(s.queue) THEN s.queue[k + 1] ELSE e
        /\ t.lagged /\ Len(s.queue) >= Capacity
    <3>1. Len(a) - 1 = Len(s.queue) /\ Len(s.queue) + 1 - 1 = Len(s.queue)
      BY <1>2
    <3>2. Len(t.queue) = Len(s.queue) /\ DOMAIN t.queue = 1..Len(s.queue)
      BY <1>4, <2>2, <3>1
    <3> QED BY <1>4, <2>3, <3>1, <3>2
  <2> WITNESS 1 \in {0, 1}
  <2> QED BY <1>2, <2>4
<1> QED BY <1>3, <1>4 DEF Sends

LEMMA Typed ==
    ASSUME NEW s \in Feeds
    PROVE  /\ s.log \in Seq(Event) /\ s.queue \in Seq(Event) /\ s.shown \in Seq(Event)
           /\ s.order \in Seq(Nat) /\ s.next \in Nat /\ s.sent \in [Speakers -> Event]
           /\ \A i \in DOMAIN s.log : s.log[i].n \in Nat
           /\ \A i \in DOMAIN s.queue : s.queue[i].n \in Nat
           /\ \A i \in DOMAIN s.shown : s.shown[i].n \in Nat
           /\ \A i \in DOMAIN s.order : s.order[i] \in Nat
<1>1. /\ s.log \in Seq(Event) /\ s.queue \in Seq(Event) /\ s.shown \in Seq(Event)
      /\ s.order \in Seq(Nat) /\ s.next \in Nat /\ s.sent \in [Speakers -> Event]
  BY DEF Feeds
<1>2. ASSUME NEW q \in Seq(Event), NEW i \in DOMAIN q PROVE q[i].n \in Nat
  <2>1. q[i] \in Event
    BY <1>2
  <2> QED BY <2>1 DEF Event
<1> QED BY <1>1, <1>2

LEMMA NumberedStep ==
    ASSUME NEW s, NEW t \in Feed!Next(s), FInv(s), Capacity \in Nat
    PROVE  Numbered(t)
<1>1. s \in Feeds /\ Numbered(s) /\ t \in Feeds
  BY FeedSteps DEF FInv
<1>2. ASSUME NEW who \in Speakers, NEW is \in {"step", "over"}, Logs(s, t, who, is), ~Speaks(s, who)
      PROVE  Numbered(t)
  <2> DEFINE e == [n |-> s.next, is |-> is]
  <2>1. e \in Event /\ e.n = s.next /\ s.next \in Nat
    BY <1>1 DEF Event, Feeds
  <2>2. /\ Len(s.log) \in Nat /\ DOMAIN s.log = 1..Len(s.log) /\ DOMAIN t.log = 1..(Len(s.log) + 1)
        /\ t.log[Len(s.log) + 1] = e /\ \A i \in DOMAIN s.log : t.log[i] = s.log[i]
    BY <1>1, <1>2, <2>1, Added DEF Logs, Feeds
  <2>3. /\ t.sent[who] = e /\ \A w \in Speakers \ {who} : t.sent[w] = s.sent[w]
        /\ t.next = s.next + 1 /\ t.order = s.order
    BY <1>1, <1>2 DEF Logs, Feeds, Same
  <2> HIDE DEF e
  <2>4. ASSUME NEW i \in DOMAIN t.log PROVE t.log[i].n \in 1..(t.next - 1)
    <3>1. CASE i \in DOMAIN s.log
      <4>1. t.log[i].n \in 1..(s.next - 1)
        BY <1>1, <2>2, <3>1 DEF Numbered
      <4> QED BY <2>1, <2>3, <4>1
    <3>2. CASE i = Len(s.log) + 1
      <4>1. t.log[i].n = s.next /\ s.next >= 1
        BY <1>1, <2>1, <2>2, <3>2 DEF Numbered
      <4> QED BY <2>1, <2>3, <4>1
    <3> QED BY <2>2, <3>1, <3>2
  <2>5. ASSUME NEW i \in DOMAIN t.log, NEW j \in DOMAIN t.log, i < j
        PROVE  t.log[i].n < t.log[j].n
    <3>1. i \in DOMAIN s.log
      BY <2>2, <2>5
    <3>2. t.log[i].n \in 1..(s.next - 1)
      BY <1>1, <2>2, <3>1 DEF Numbered
    <3>3. CASE j \in DOMAIN s.log
      BY <1>1, <2>2, <2>5, <3>1, <3>3 DEF Numbered
    <3>4. CASE j = Len(s.log) + 1
      BY <2>1, <2>2, <3>2, <3>4
    <3> QED BY <2>2, <3>3, <3>4
  <2>6. \A w \in Speakers : Speaks(t, w) =>
          /\ t.sent[w].n \in 1..(t.next - 1)
          /\ \A i \in DOMAIN t.order : t.order[i] # t.sent[w].n
    <3>1. \A i \in DOMAIN t.order : t.order[i] # e.n
      BY <1>1, <2>1, <2>3 DEF Numbered
    <3>2. \A w \in Speakers \ {who} : Speaks(t, w) = Speaks(s, w)
      BY <2>3 DEF Speaks
    <3>3. e.n \in 1..(t.next - 1)
      BY <1>1, <2>1, <2>3 DEF Numbered
    <3> QED BY <1>1, <2>1, <2>3, <3>1, <3>2, <3>3 DEF Numbered
  <2>7. Speaks(t, "run") /\ Speaks(t, "stop") => t.sent["run"].n # t.sent["stop"].n
    <3>1. \A w \in Speakers \ {who} : Speaks(t, w) => t.sent[w].n < e.n
      BY <1>1, <2>1, <2>3 DEF Numbered, Speaks
    <3>2. \A w \in Speakers \ {who} : Speaks(t, w) => t.sent[w].n \in Nat
      BY <1>1 DEF Feeds, Event
    <3> QED BY <2>1, <2>3, <3>1, <3>2 DEF Speakers
  <2>8. /\ \A i \in DOMAIN t.order : t.order[i] \in 1..(t.next - 1)
        /\ \A i, j \in DOMAIN t.order : t.order[i] = t.order[j] => i = j
        /\ t.next >= 1
    BY <1>1, <2>1, <2>3 DEF Numbered
  <2> QED BY <2>4, <2>5, <2>6, <2>7, <2>8 DEF Numbered
<1>3. ASSUME NEW e \in Event, Sends(s, t, e), e.n >= 1, e.n < t.next, t.next >= s.next,
             \A i \in DOMAIN s.order : s.order[i] # e.n,
             \A w \in Speakers : Speaks(t, w) => Speaks(s, w) /\ t.sent[w] = s.sent[w] /\ s.sent[w].n # e.n
      PROVE  Numbered(t)
  <2>1. e.n \in Nat /\ s.next \in Nat /\ t.next \in Nat
    BY <1>1 DEF Event, Feeds
  <2>2. /\ Len(s.order) \in Nat /\ DOMAIN s.order = 1..Len(s.order)
        /\ DOMAIN t.order = 1..(Len(s.order) + 1) /\ t.order[Len(s.order) + 1] = e.n
        /\ \A i \in DOMAIN s.order : t.order[i] = s.order[i]
    BY <1>1, <1>3, <2>1, Added, SMTT(40) DEF Sends, Feeds
  <2>3. t.log = s.log
    BY <1>3 DEF Sends
  <2>4. /\ \A i \in DOMAIN t.log : t.log[i].n \in 1..(t.next - 1)
        /\ \A i, j \in DOMAIN t.log : i < j => t.log[i].n < t.log[j].n
    BY <1>1, <1>3, <2>1, <2>3 DEF Numbered
  <2>5. \A i \in DOMAIN t.order : i \in DOMAIN s.order \/ i = Len(s.order) + 1
    BY <2>2
  <2>8. \A i \in DOMAIN s.order : t.order[i] \in 1..(s.next - 1) /\ t.order[i] # e.n
    BY <1>1, <1>3, <2>2 DEF Numbered
  <2>9. \A i \in DOMAIN t.order : t.order[i] \in 1..(t.next - 1)
    BY <1>3, <2>1, <2>2, <2>5, <2>8, SMTT(40)
  <2>10. \A i, j \in DOMAIN t.order : t.order[i] = t.order[j] => i = j
    BY <1>1, <2>2, <2>5, <2>8 DEF Numbered
  <2>6. ASSUME NEW w \in Speakers, Speaks(t, w)
        PROVE  /\ t.sent[w].n \in 1..(t.next - 1)
               /\ \A i \in DOMAIN t.order : t.order[i] # t.sent[w].n
    <3>1. Speaks(s, w) /\ t.sent[w] = s.sent[w] /\ s.sent[w].n # e.n
      BY <1>3, <2>6
    <3>2. /\ t.sent[w].n \in 1..(s.next - 1)
          /\ \A i \in DOMAIN s.order : s.order[i] # t.sent[w].n
      BY <1>1, <3>1 DEF Numbered
    <3> QED BY <1>3, <2>1, <2>2, <2>5, <3>1, <3>2, SMTT(40)
  <2>7. Speaks(t, "run") /\ Speaks(t, "stop") => t.sent["run"].n # t.sent["stop"].n
    BY <1>1, <1>3 DEF Numbered, Speakers
  <2> QED BY <1>1, <1>3, <2>1, <2>4, <2>6, <2>7, <2>9, <2>10 DEF Numbered
<1>4. CASE t.log = s.log /\ t.sent = s.sent /\ t.next = s.next /\ t.order = s.order
  BY <1>1, <1>4 DEF Numbered, Speaks
<1>5. CASE RunLogs(s, t)
  BY <1>2, <1>5 DEF RunLogs, Speakers
<1>6. CASE StopLogs(s, t)
  BY <1>2, <1>6 DEF StopLogs, Speakers, FInv, Ends
<1>7. CASE RunShows(s, t)
  <2> DEFINE e == [n |-> s.next, is |-> "text"]
  <2>1. e \in Event /\ e.n = s.next /\ s.next \in Nat
    BY <1>1 DEF Event, Feeds
  <2>2. Sends(s, t, e) /\ t.next = s.next + 1 /\ t.sent = s.sent
    BY <1>7 DEF RunShows
  <2> HIDE DEF e
  <2>3. \A i \in DOMAIN s.order : s.order[i] # e.n
    BY <1>1, <2>1 DEF Numbered
  <2>4. \A w \in Speakers : Speaks(t, w) => Speaks(s, w) /\ t.sent[w] = s.sent[w] /\ s.sent[w].n # e.n
    BY <1>1, <2>1, <2>2 DEF Numbered, Speaks
  <2> QED BY <1>1, <1>3, <2>1, <2>2, <2>3, <2>4 DEF Numbered
<1>8. ASSUME NEW who \in Speakers, Broadcasts(s, t, who)
      PROVE  Numbered(t)
  <2> DEFINE e == s.sent[who]
  <2>1. e \in Event /\ e.n \in 1..(s.next - 1) /\ s.next \in Nat
    BY <1>1, <1>8 DEF Feeds, Numbered, Broadcasts
  <2>2. /\ Sends(s, t, e) /\ t.next = s.next /\ t.sent[who] = Feed!Nothing
        /\ \A w \in Speakers \ {who} : t.sent[w] = s.sent[w]
    BY <1>1, <1>8 DEF Broadcasts, Feeds
  <2>3. \A i \in DOMAIN s.order : s.order[i] # e.n
    BY <1>1, <1>8 DEF Numbered, Broadcasts
  <2>4. \A w \in Speakers : Speaks(t, w) => Speaks(s, w) /\ t.sent[w] = s.sent[w] /\ s.sent[w].n # e.n
    BY <1>1, <1>8, <2>2 DEF Numbered, Speaks, Broadcasts, Speakers
  <2> HIDE DEF e
  <2> QED BY <1>3, <2>1, <2>2, <2>3, <2>4
<1>9. CASE Tells(s, t) \/ Follows(s, t) \/ Receives(s, t)
  BY <1>4, <1>9 DEF Tells, Follows, Receives, Same
<1> QED BY <1>1, <1>5, <1>6, <1>7, <1>8, <1>9, FeedSteps

LEMMA ReceivedStep ==
    ASSUME NEW s, NEW t \in Feed!Next(s), FInv(s), Capacity \in Nat
    PROVE  Received(t)
<1>1. s \in Feeds /\ Numbered(s) /\ Received(s) /\ t \in Feeds /\ s.next \in Nat
  BY FeedSteps DEF FInv, Feeds
<1>2. CASE Same(s, t) /\ t.next \in {s.next, s.next + 1}
  <2>1. \A i \in DOMAIN s.shown : s.shown[i].n \in Nat
    BY <1>1, Typed
  <2> QED BY <1>1, <1>2, <2>1 DEF Same, Received
<1>3. ASSUME NEW e \in Event, Sends(s, t, e), t.next \in {s.next, s.next + 1}
      PROVE  Received(t)
  <2>1. /\ Len(s.order) \in Nat /\ DOMAIN s.order = 1..Len(s.order)
        /\ DOMAIN t.order = 1..(Len(s.order) + 1) /\ t.order[Len(s.order) + 1] = e.n
        /\ \A i \in DOMAIN s.order : t.order[i] = s.order[i]
    <3>1. e.n \in Nat /\ t.order = Append(s.order, e.n) /\ s.order \in Seq(Nat)
      BY <1>1, <1>3, Typed DEF Sends, Event
    <3> QED BY <3>1, Added
  <2>2. \A i \in DOMAIN t.shown : t.shown[i].n < t.next
    <3>1. \A i \in DOMAIN s.shown : s.shown[i].n < s.next /\ s.shown[i].n \in Nat
      BY <1>1, Typed DEF Received
    <3> QED BY <1>1, <1>3, <3>1 DEF Sends
  <2>3. CASE s.feed # "live"
    <3>1. t.queue = s.queue /\ t.shown = s.shown /\ t.feed = s.feed
      BY <1>3, <2>3 DEF Sends
    <3>2. \A k \in DOMAIN t.queue : \E p \in DOMAIN t.order : t.order[p] = t.queue[k].n
      BY <1>1, <2>1, <3>1 DEF Received
    <3>3. \A k, l \in DOMAIN t.queue : k < l =>
             \E p, q \in DOMAIN t.order : p < q /\ t.order[p] = t.queue[k].n /\ t.order[q] = t.queue[l].n
      BY <1>1, <2>1, <3>1, SMTT(40) DEF Received
    <3> QED BY <1>1, <2>2, <3>1, <3>2, <3>3 DEF Received
  <2>4. CASE s.feed = "live"
    <3>1. PICK d \in {0, 1} :
              /\ Len(s.queue) \in Nat /\ DOMAIN s.queue = 1..Len(s.queue)
              /\ Len(t.queue) = Len(s.queue) + 1 - d /\ DOMAIN t.queue = 1..Len(t.queue)
              /\ \A k \in 1..Len(t.queue) : t.queue[k] = IF k + d <= Len(s.queue) THEN s.queue[k + d] ELSE e
      BY <1>1, <1>3, <2>4, SentTo
    <3>2. ASSUME NEW k \in DOMAIN t.queue
          PROVE  \E p \in DOMAIN t.order : /\ t.order[p] = t.queue[k].n
                                           /\ k + d > Len(s.queue) => p = Len(s.order) + 1
                                           /\ k + d <= Len(s.queue) => p \in DOMAIN s.order
      <4>1. CASE k + d <= Len(s.queue)
        <5>1. k + d \in DOMAIN s.queue /\ t.queue[k] = s.queue[k + d]
          BY <3>1, <4>1
        <5>2. PICK p \in DOMAIN s.order : s.order[p] = s.queue[k + d].n
          BY <1>1, <5>1 DEF Received
        <5> QED BY <2>1, <3>1, <4>1, <5>1, <5>2, SMTT(40)
      <4>2. CASE ~(k + d <= Len(s.queue))
        <5>1. t.queue[k] = e /\ Len(s.order) + 1 \in DOMAIN t.order
          BY <2>1, <3>1, <4>2, SMTT(40)
        <5> QED BY <2>1, <4>2, <5>1
      <4> QED BY <4>1, <4>2
    <3>3. ASSUME NEW k \in DOMAIN t.queue, NEW l \in DOMAIN t.queue, k < l
          PROVE  \E p, q \in DOMAIN t.order :
                     p < q /\ t.order[p] = t.queue[k].n /\ t.order[q] = t.queue[l].n
      <4>1. k + d <= Len(s.queue) /\ k + d \in DOMAIN s.queue /\ t.queue[k] = s.queue[k + d]
        BY <3>1, <3>3, SMTT(40)
      <4>2. CASE l + d <= Len(s.queue)
        <5>1. l + d \in DOMAIN s.queue /\ t.queue[l] = s.queue[l + d] /\ k + d < l + d
          BY <3>1, <3>3, <4>2
        <5>2. PICK p \in DOMAIN s.order, q \in DOMAIN s.order :
                      p < q /\ s.order[p] = s.queue[k + d].n /\ s.order[q] = s.queue[l + d].n
          BY <1>1, <4>1, <5>1 DEF Received
        <5> QED BY <2>1, <4>1, <5>1, <5>2
      <4>3. CASE ~(l + d <= Len(s.queue))
        <5>1. PICK p \in DOMAIN t.order : t.order[p] = t.queue[k].n /\ p \in DOMAIN s.order
          BY <3>2, <4>1
        <5>2. PICK q \in DOMAIN t.order : t.order[q] = t.queue[l].n /\ q = Len(s.order) + 1
          BY <3>1, <3>2, <4>3
        <5> QED BY <2>1, <5>1, <5>2
      <4> QED BY <4>2, <4>3
    <3>4. t.feed = "live"
      BY <1>3, <2>4 DEF Sends
    <3> QED BY <2>2, <3>2, <3>3, <3>4 DEF Received
  <2> QED BY <2>3, <2>4
<1>4. CASE RunLogs(s, t) \/ StopLogs(s, t) \/ Tells(s, t)
  BY <1>2, <1>4 DEF RunLogs, StopLogs, Tells, Logs
<1>5. CASE RunShows(s, t)
  <2> DEFINE e == [n |-> s.next, is |-> "text"]
  <2>1. e \in Event
    BY <1>1 DEF Event
  <2> QED BY <1>3, <1>5, <2>1 DEF RunShows
<1>6. ASSUME NEW who \in Speakers, Broadcasts(s, t, who)
      PROVE  Received(t)
  <2>1. s.sent[who] \in Event
    BY <1>1 DEF Feeds
  <2> QED BY <1>3, <1>6, <2>1 DEF Broadcasts
<1>7. CASE Follows(s, t)
  <2>1. s.feed = "away" /\ t.feed # "away" /\ t.queue = <<>> /\ t.shown = s.log /\ t.next = s.next
    BY <1>1, <1>7 DEF Follows, Received
  <2> QED BY <1>1, <2>1 DEF Received, Numbered
<1>8. CASE Receives(s, t)
  <2>1. /\ s.queue \in Seq(Event) /\ s.queue # <<>> /\ t.queue = Tail(s.queue) /\ t.next = s.next
        /\ t.shown = Append(s.shown, Head(s.queue)) /\ t.feed # "away" /\ t.order = s.order
    BY <1>1, <1>8 DEF Receives, Feeds
  <2>2. /\ Len(s.queue) \in Nat \ {0} /\ DOMAIN s.queue = 1..Len(s.queue) /\ Head(s.queue) = s.queue[1]
        /\ DOMAIN t.queue = 1..(Len(s.queue) - 1) /\ Head(s.queue) \in Event
        /\ \A k \in DOMAIN t.queue : k + 1 \in DOMAIN s.queue /\ t.queue[k] = s.queue[k + 1]
    BY <2>1
  <2>3. s.queue[1].n < s.next
    BY <1>1, <2>2 DEF Received, Numbered
  <2>4. /\ Len(s.shown) \in Nat /\ DOMAIN s.shown = 1..Len(s.shown)
        /\ DOMAIN t.shown = 1..(Len(s.shown) + 1) /\ t.shown[Len(s.shown) + 1] = Head(s.queue)
        /\ \A i \in DOMAIN s.shown : t.shown[i] = s.shown[i]
    BY <1>1, <2>1, <2>2, Added DEF Feeds
  <2>5. \A i \in DOMAIN t.shown : t.shown[i].n < t.next
    BY <1>1, <2>1, <2>2, <2>3, <2>4 DEF Received
  <2>6. \A k \in DOMAIN t.queue : \E p \in DOMAIN t.order : t.order[p] = t.queue[k].n
    BY <1>1, <2>1, <2>2 DEF Received
  <2>7. ASSUME NEW k \in DOMAIN t.queue, NEW l \in DOMAIN t.queue, k < l
        PROVE  \E p, q \in DOMAIN t.order :
                   p < q /\ t.order[p] = t.queue[k].n /\ t.order[q] = t.queue[l].n
    <3>1. k + 1 \in DOMAIN s.queue /\ l + 1 \in DOMAIN s.queue /\ k + 1 < l + 1
      BY <2>2, <2>7
    <3>2. PICK p \in DOMAIN s.order, q \in DOMAIN s.order :
              p < q /\ s.order[p] = s.queue[k + 1].n /\ s.order[q] = s.queue[l + 1].n
      BY <1>1, <3>1 DEF Received
    <3> QED BY <2>1, <2>2, <3>2
  <2> QED BY <2>1, <2>5, <2>6, <2>7 DEF Received
<1> QED BY <1>1, <1>4, <1>5, <1>6, <1>7, <1>8, FeedSteps

LEMMA RepeatsStep ==
    ASSUME NEW s, NEW t \in Feed!Next(s), FInv(s), Capacity \in Nat
    PROVE  Repeats(t)
<1>1. s \in Feeds /\ Numbered(s) /\ Received(s) /\ Repeats(s) /\ t \in Feeds /\ s.next \in Nat
  BY FeedSteps DEF FInv, Feeds
<1>2. ASSUME NEW who \in Speakers, NEW is \in {"step", "over"}, Logs(s, t, who, is)
      PROVE  Repeats(t)
  <2>1. t.shown = s.shown /\ t.queue = s.queue /\ t.open = s.open
    BY <1>2 DEF Logs, Same
  <2>2. t.sent[who].n = s.next /\ \A w \in Speakers \ {who} : t.sent[w] = s.sent[w]
    BY <1>1, <1>2 DEF Logs, Feeds
  <2>3. \A i \in DOMAIN s.shown : s.shown[i].n < s.next /\ s.shown[i].n \in Nat
    BY <1>1, Typed DEF Received
  <2>4. ASSUME NEW i \in DOMAIN t.shown, NEW w \in Speakers, Speaks(t, w), t.shown[i].n = t.sent[w].n
        PROVE  t.shown[i].n \in t.open
    <3>1. w # who
      BY <1>1, <2>1, <2>2, <2>3, <2>4
    <3> QED BY <1>1, <2>1, <2>2, <2>4, <3>1 DEF Repeats, Speaks
  <2> QED BY <1>1, <2>1, <2>4 DEF Repeats, Feed!RepeatsAreKnown
<1>3. ASSUME NEW e \in Event, Sends(s, t, e),
             \A i \in DOMAIN s.shown : s.shown[i].n = e.n => e.n \in s.open,
             \A w \in Speakers : Speaks(t, w) => Speaks(s, w) /\ t.sent[w] = s.sent[w]
      PROVE  Repeats(t)
  <2>1. t.shown = s.shown /\ t.open = s.open
    BY <1>3 DEF Sends
  <2>2. \A k \in DOMAIN t.queue : t.queue[k] = e \/ \E l \in DOMAIN s.queue : t.queue[k] = s.queue[l]
    <3>1. CASE s.feed # "live"
      BY <1>3, <3>1 DEF Sends
    <3>2. CASE s.feed = "live"
      <4>1. PICK d \in {0, 1} :
              /\ Len(s.queue) \in Nat /\ DOMAIN s.queue = 1..Len(s.queue)
              /\ Len(t.queue) = Len(s.queue) + 1 - d /\ DOMAIN t.queue = 1..Len(t.queue)
              /\ \A k \in 1..Len(t.queue) : t.queue[k] = IF k + d <= Len(s.queue) THEN s.queue[k + d] ELSE e
        BY <1>1, <1>3, <3>2, SentTo, SMTT(40)
      <4>2. \A k \in DOMAIN t.queue : k + d <= Len(s.queue) => k + d \in DOMAIN s.queue
        BY <4>1
      <4> QED BY <4>1, <4>2
    <3> QED BY <3>1, <3>2
  <2>3. \A i \in DOMAIN t.shown : \A k \in DOMAIN t.queue :
            t.shown[i].n = t.queue[k].n => t.shown[i].n \in t.open
    BY <1>1, <1>3, <2>1, <2>2 DEF Repeats
  <2>4. \A i \in DOMAIN t.shown : \A w \in Speakers :
            Speaks(t, w) /\ t.shown[i].n = t.sent[w].n => t.shown[i].n \in t.open
    BY <1>1, <1>3, <2>1 DEF Repeats
  <2> QED BY <1>1, <2>1, <2>3, <2>4 DEF Repeats, Feed!RepeatsAreKnown
<1>4. CASE RunLogs(s, t) \/ StopLogs(s, t)
  BY <1>2, <1>4 DEF RunLogs, StopLogs, Speakers
<1>5. CASE RunShows(s, t)
  <2> DEFINE e == [n |-> s.next, is |-> "text"]
  <2>1. e \in Event /\ e.n = s.next
    BY <1>1 DEF Event
  <2>2. Sends(s, t, e) /\ t.sent = s.sent
    BY <1>5 DEF RunShows
  <2> HIDE DEF e
  <2>3. \A i \in DOMAIN s.shown : s.shown[i].n # e.n
    BY <1>1, <2>1 DEF Received
  <2> QED BY <1>3, <2>1, <2>2, <2>3 DEF Speaks
<1>6. ASSUME NEW who \in Speakers, Broadcasts(s, t, who)
      PROVE  Repeats(t)
  <2> DEFINE e == s.sent[who]
  <2>1. e \in Event /\ \A i \in DOMAIN s.shown : s.shown[i].n = e.n => e.n \in s.open
    BY <1>1, <1>6 DEF Feeds, Repeats, Broadcasts
  <2>2. /\ Sends(s, t, e) /\ t.sent[who] = Feed!Nothing
        /\ \A w \in Speakers \ {who} : t.sent[w] = s.sent[w]
    BY <1>1, <1>6 DEF Broadcasts, Feeds
  <2> HIDE DEF e
  <2>3. \A w \in Speakers : Speaks(t, w) => Speaks(s, w) /\ t.sent[w] = s.sent[w]
    BY <2>2 DEF Speaks
  <2> QED BY <1>3, <2>1, <2>2, <2>3
<1>7. CASE Tells(s, t)
  BY <1>1, <1>7 DEF Tells, Same, Repeats, Feed!RepeatsAreKnown, Speaks
<1>8. CASE Follows(s, t)
  <2>1. /\ t.queue = <<>> /\ t.shown = s.log /\ t.sent = s.sent
        /\ t.open = {s.sent[who].n : who \in Speakers} \ {0}
    BY <1>1, <1>8 DEF Follows, Received
  <2>2. \A w \in Speakers : Speaks(t, w) => t.sent[w].n \in t.open
    BY <1>1, <2>1 DEF Numbered, Speaks
  <2>3. ASSUME NEW i \in DOMAIN s.log, NEW j \in DOMAIN s.log, i < j PROVE s.log[i].n # s.log[j].n
    <3>1. s.log[i].n < s.log[j].n /\ s.log[i].n \in Nat
      BY <1>1, <2>3 DEF Numbered
    <3> QED BY <3>1
  <2> QED BY <2>1, <2>2, <2>3 DEF Repeats, Feed!RepeatsAreKnown
<1>9. CASE Receives(s, t)
  <2>1. /\ s.queue \in Seq(Event) /\ s.queue # <<>> /\ t.queue = Tail(s.queue) /\ t.sent = s.sent
        /\ t.shown = Append(s.shown, Head(s.queue)) /\ t.open = s.open
    BY <1>1, <1>9 DEF Receives, Feeds
  <2>2. /\ Len(s.queue) \in Nat \ {0} /\ DOMAIN s.queue = 1..Len(s.queue) /\ Head(s.queue) = s.queue[1]
        /\ DOMAIN t.queue = 1..(Len(s.queue) - 1) /\ Head(s.queue) \in Event
        /\ \A k \in DOMAIN t.queue : k + 1 \in DOMAIN s.queue /\ 1 < k + 1 /\ t.queue[k] = s.queue[k + 1]
    BY <2>1
  <2>3. /\ Len(s.shown) \in Nat /\ DOMAIN s.shown = 1..Len(s.shown)
        /\ DOMAIN t.shown = 1..(Len(s.shown) + 1) /\ t.shown[Len(s.shown) + 1] = s.queue[1]
        /\ \A i \in DOMAIN s.shown : t.shown[i] = s.shown[i]
    BY <1>1, <2>1, <2>2, Added DEF Feeds
  <2>4. 1 \in DOMAIN s.queue /\ \A i \in DOMAIN t.shown : i \in DOMAIN s.shown \/ i = Len(s.shown) + 1
    BY <2>2, <2>3
  <2>5. ASSUME NEW k \in DOMAIN t.queue PROVE t.queue[k].n # s.queue[1].n
    <3>1. PICK p \in DOMAIN s.order, q \in DOMAIN s.order :
              p < q /\ s.order[p] = s.queue[1].n /\ s.order[q] = s.queue[k + 1].n
      BY <1>1, <2>2, <2>4 DEF Received
    <3>2. p # q
      BY <1>1, <3>1 DEF Feeds
    <3> QED BY <1>1, <2>2, <3>1, <3>2 DEF Numbered
  <2>6. ASSUME NEW i \in DOMAIN t.shown, NEW j \in DOMAIN t.shown, i < j, t.shown[i].n = t.shown[j].n
        PROVE  t.shown[i].n \in t.open
    <3>1. i \in DOMAIN s.shown
      BY <2>3, <2>6
    <3>2. CASE j \in DOMAIN s.shown
      BY <1>1, <2>1, <2>3, <2>6, <3>1, <3>2 DEF Repeats, Feed!RepeatsAreKnown
    <3>3. CASE j = Len(s.shown) + 1
      BY <1>1, <2>1, <2>3, <2>4, <2>6, <3>1, <3>3 DEF Repeats
    <3> QED BY <2>4, <3>2, <3>3
  <2>7. \A i \in DOMAIN t.shown : \A k \in DOMAIN t.queue :
            t.shown[i].n = t.queue[k].n => t.shown[i].n \in t.open
    BY <1>1, <2>1, <2>2, <2>3, <2>4, <2>5 DEF Repeats
  <2>8. ASSUME NEW w \in Speakers, Speaks(t, w) PROVE t.sent[w].n # s.queue[1].n
    <3>1. PICK p \in DOMAIN s.order : s.order[p] = s.queue[1].n
      BY <1>1, <2>4 DEF Received
    <3> QED BY <1>1, <2>1, <2>8, <3>1 DEF Numbered, Speaks
  <2>9. \A i \in DOMAIN t.shown : \A w \in Speakers :
            Speaks(t, w) /\ t.shown[i].n = t.sent[w].n => t.shown[i].n \in t.open
    BY <1>1, <2>1, <2>3, <2>4, <2>8 DEF Repeats, Speaks
  <2> QED BY <2>6, <2>7, <2>9 DEF Repeats, Feed!RepeatsAreKnown
<1> QED BY <1>1, <1>4, <1>5, <1>6, <1>7, <1>8, <1>9, FeedSteps

LEMMA CompleteStep ==
    ASSUME NEW s, NEW t \in Feed!Next(s), FInv(s), Capacity \in Nat
    PROVE  Complete(t)
<1>1. s \in Feeds /\ Numbered(s) /\ Received(s) /\ Complete(s) /\ t \in Feeds /\ s.next \in Nat
  BY FeedSteps DEF FInv, Feeds
<1>2. ASSUME NEW who \in Speakers, NEW is \in {"step", "over"}, Logs(s, t, who, is)
      PROVE  Complete(t)
  <2> DEFINE e == [n |-> s.next, is |-> is]
  <2>1. e \in Event /\ e.n = s.next
    BY <1>1 DEF Event
  <2>2. /\ Len(s.log) \in Nat /\ DOMAIN s.log = 1..Len(s.log) /\ DOMAIN t.log = 1..(Len(s.log) + 1)
        /\ t.log[Len(s.log) + 1] = e /\ \A i \in DOMAIN s.log : t.log[i] = s.log[i]
    BY <1>1, <1>2, <2>1, Added, Typed DEF Logs
  <2>3. Same(s, t)
    BY <1>2 DEF Logs
  <2> HIDE DEF e
  <2>4. \A p \in DOMAIN s.order : s.order[p] # e.n
    BY <1>1, <2>1 DEF Numbered
  <2>5. \A i \in DOMAIN t.log : i \in DOMAIN s.log \/ t.log[i] = e
    BY <2>2
  <2> QED BY <1>1, <2>2, <2>3, <2>4, <2>5 DEF Complete, Same
<1>3. ASSUME NEW e \in Event, Sends(s, t, e)
      PROVE  Complete(t)
  <2> SUFFICES ASSUME t.feed = "live"
               PROVE  /\ \A i \in DOMAIN t.shown : t.shown[i].is # "over"
                      /\ ~t.lagged => \A i \in DOMAIN t.log : \A p \in DOMAIN t.order : t.order[p] = t.log[i].n =>
                            \/ \E k \in DOMAIN t.shown : t.shown[k].n = t.log[i].n
                            \/ \E k \in DOMAIN t.queue : t.queue[k].n = t.log[i].n
    BY DEF Complete
  <2>1. s.feed = "live" /\ t.log = s.log /\ t.shown = s.shown
    BY <1>3 DEF Sends
  <2>2. \A i \in DOMAIN t.shown : t.shown[i].is # "over"
    BY <1>1, <2>1 DEF Complete
  <2>3. ASSUME ~t.lagged, NEW i \in DOMAIN t.log, NEW p \in DOMAIN t.order, t.order[p] = t.log[i].n
        PROVE  \/ \E k \in DOMAIN t.shown : t.shown[k].n = t.log[i].n
               \/ \E k \in DOMAIN t.queue : t.queue[k].n = t.log[i].n
    <3>1. PICK d \in {0, 1} :
              /\ Len(s.queue) \in Nat /\ DOMAIN s.queue = 1..Len(s.queue)
              /\ Len(t.queue) = Len(s.queue) + 1 - d /\ DOMAIN t.queue = 1..Len(t.queue)
              /\ \A k \in 1..Len(t.queue) : t.queue[k] = IF k + d <= Len(s.queue) THEN s.queue[k + d] ELSE e
              /\ d = 0 => t.lagged = s.lagged
              /\ d = 1 => t.lagged
      BY <1>1, <1>3, <2>1, SentTo, SMTT(40)
    <3>2. d = 0 /\ ~s.lagged
      BY <2>3, <3>1
    <3>3. /\ DOMAIN t.queue = 1..(Len(s.queue) + 1) /\ t.queue[Len(s.queue) + 1] = e
          /\ \A k \in DOMAIN s.queue : k \in DOMAIN t.queue /\ t.queue[k] = s.queue[k]
      BY <3>1, <3>2
    <3>4. /\ Len(s.order) \in Nat /\ DOMAIN s.order = 1..Len(s.order)
          /\ DOMAIN t.order = 1..(Len(s.order) + 1) /\ t.order[Len(s.order) + 1] = e.n
          /\ \A j \in DOMAIN s.order : t.order[j] = s.order[j]
      <4>1. e.n \in Nat /\ t.order = Append(s.order, e.n) /\ s.order \in Seq(Nat)
        BY <1>1, <1>3, Typed DEF Sends, Event
      <4> QED BY <4>1, Added
    <3>5. CASE p \in DOMAIN s.order
      <4>1. s.order[p] = s.log[i].n
        BY <2>1, <2>3, <3>4, <3>5
      <4>2. \/ \E k \in DOMAIN s.shown : s.shown[k].n = s.log[i].n
            \/ \E k \in DOMAIN s.queue : s.queue[k].n = s.log[i].n
        BY <1>1, <2>1, <2>3, <3>2, <3>5, <4>1 DEF Complete
      <4> QED BY <2>1, <3>3, <4>2
    <3>6. CASE p = Len(s.order) + 1
      <4>1. Len(s.queue) + 1 \in DOMAIN t.queue /\ t.queue[Len(s.queue) + 1].n = t.log[i].n
        BY <2>3, <3>1, <3>3, <3>4, <3>6
      <4> QED BY <4>1
    <3> QED BY <3>4, <3>5, <3>6
  <2> QED BY <2>2, <2>3
<1>4. CASE RunLogs(s, t) \/ StopLogs(s, t)
  BY <1>2, <1>4 DEF RunLogs, StopLogs, Speakers
<1>5. CASE RunShows(s, t)
  <2> DEFINE e == [n |-> s.next, is |-> "text"]
  <2>1. e \in Event
    BY <1>1 DEF Event
  <2> QED BY <1>3, <1>5, <2>1 DEF RunShows
<1>6. ASSUME NEW who \in Speakers, Broadcasts(s, t, who)
      PROVE  Complete(t)
  BY <1>1, <1>3, <1>6, Typed DEF Broadcasts
<1>7. CASE Tells(s, t)
  BY <1>1, <1>7 DEF Tells, Same, Complete
<1>8. CASE Follows(s, t)
  <2>1. t.feed = "live" => ~Feed!Over(s.log)
    BY <1>8 DEF Follows
  <2> QED BY <1>8, <2>1 DEF Follows, Complete, Feed!Over
<1>9. CASE Receives(s, t)
  <2> SUFFICES ASSUME t.feed = "live" PROVE Complete(t)
    BY DEF Complete
  <2>1. /\ s.queue \in Seq(Event) /\ s.queue # <<>> /\ t.queue = Tail(s.queue) /\ t.log = s.log
        /\ t.shown = Append(s.shown, Head(s.queue)) /\ t.order = s.order /\ t.lagged = s.lagged
        /\ s.feed = "live" /\ Head(s.queue).is # "over"
    BY <1>1, <1>9, Typed DEF Receives
  <2>2. /\ Len(s.queue) \in Nat \ {0} /\ DOMAIN s.queue = 1..Len(s.queue) /\ Head(s.queue) = s.queue[1]
        /\ DOMAIN t.queue = 1..(Len(s.queue) - 1) /\ Head(s.queue) \in Event
        /\ \A k \in DOMAIN t.queue : t.queue[k] = s.queue[k + 1]
    BY <2>1
  <2>3. /\ Len(s.shown) \in Nat /\ DOMAIN s.shown = 1..Len(s.shown)
        /\ DOMAIN t.shown = 1..(Len(s.shown) + 1) /\ t.shown[Len(s.shown) + 1] = s.queue[1]
        /\ \A i \in DOMAIN s.shown : t.shown[i] = s.shown[i]
    BY <1>1, <2>1, <2>2, Added, Typed
  <2>4. ASSUME NEW i \in DOMAIN t.shown PROVE t.shown[i].is # "over"
    <3>1. i \in DOMAIN s.shown \/ i = Len(s.shown) + 1
      BY <2>3
    <3> QED BY <1>1, <2>1, <2>2, <2>3, <3>1 DEF Complete
  <2>5. ASSUME NEW k \in DOMAIN s.queue
        PROVE  \/ \E j \in DOMAIN t.shown : t.shown[j] = s.queue[k]
               \/ \E j \in DOMAIN t.queue : t.queue[j] = s.queue[k]
    <3>1. CASE k = 1
      BY <2>3, <3>1
    <3>2. CASE k # 1
      <4>1. k - 1 \in DOMAIN t.queue /\ (k - 1) + 1 = k
        BY <2>2, <3>2
      <4> QED BY <2>2, <4>1
    <3> QED BY <3>1, <3>2
  <2>6. \A k \in DOMAIN s.shown : k \in DOMAIN t.shown /\ t.shown[k] = s.shown[k]
    BY <2>3
  <2>7. ASSUME ~t.lagged, NEW i \in DOMAIN t.log, NEW p \in DOMAIN t.order, t.order[p] = t.log[i].n
        PROVE  \/ \E k \in DOMAIN t.shown : t.shown[k].n = t.log[i].n
               \/ \E k \in DOMAIN t.queue : t.queue[k].n = t.log[i].n
    <3>1. \/ \E k \in DOMAIN s.shown : s.shown[k].n = s.log[i].n
          \/ \E k \in DOMAIN s.queue : s.queue[k].n = s.log[i].n
      BY <1>1, <2>1, <2>7 DEF Complete
    <3> QED BY <2>1, <2>5, <2>6, <3>1
  <2> QED BY <2>4, <2>7 DEF Complete
<1> QED BY <1>1, <1>4, <1>5, <1>6, <1>7, <1>8, <1>9, FeedSteps

\* The first end in a sequence of events.
LEMMA FirstOver ==
    ASSUME NEW q \in Seq(Event), Feed!Over(q)
    PROVE  \E e \in DOMAIN q : q[e].is = "over" /\ \A j \in 1..(e - 1) : q[j].is # "over"
<1> DEFINE X == {i \in DOMAIN q : q[i].is = "over"}
<1>1. DOMAIN q = 1..Len(q) /\ Len(q) \in Nat
  OBVIOUS
<1>2. X \subseteq Nat /\ X # {}
  BY <1>1 DEF Feed!Over
<1>3. PICK e \in X : \A j \in X : <<j, e>> \notin OpToRel(<, Nat)
  <2> HIDE DEF X
  <2> QED BY <1>2, NatLessThanWellFounded, WFMin
<1>4. \A j \in X : ~(j < e)
  BY <1>2, <1>3 DEF OpToRel
<1> QED BY <1>1, <1>4

LEMMA ConcludedStep ==
    ASSUME NEW s, NEW t \in Feed!Next(s), FInv(s), Capacity \in Nat
    PROVE  Concluded(t)
<1>1. /\ s \in Feeds /\ Numbered(s) /\ Received(s) /\ Complete(s) /\ Concluded(s)
      /\ t \in Feeds /\ s.next \in Nat
  BY FeedSteps DEF FInv, Feeds
<1>2. ASSUME NEW who \in Speakers, NEW is \in {"step", "over"}, Logs(s, t, who, is), t.feed = "done"
      PROVE  Concluded(t)
  <2> DEFINE e == [n |-> s.next, is |-> is]
  <2>1. e \in Event /\ e.n = s.next
    BY <1>1 DEF Event
  <2>2. /\ Len(s.log) \in Nat /\ DOMAIN s.log = 1..Len(s.log) /\ DOMAIN t.log = 1..(Len(s.log) + 1)
        /\ t.log[Len(s.log) + 1] = e /\ \A i \in DOMAIN s.log : t.log[i] = s.log[i]
    BY <1>1, <1>2, <2>1, Added, Typed DEF Logs
  <2>3. /\ t.shown = s.shown /\ t.order = s.order /\ t.lagged = s.lagged /\ s.feed = "done"
    BY <1>2 DEF Logs, Same
  <2> HIDE DEF e
  <2>4. PICK f \in DOMAIN s.shown :
            /\ s.shown[f].is = "over" /\ \A j \in 1..(f - 1) : s.shown[j].is # "over"
            /\ \/ \E p \in DOMAIN s.order : s.order[p] = s.shown[f].n
               \/ \A i \in DOMAIN s.log : s.log[i].n < s.shown[f].n =>
                      \E k \in DOMAIN s.shown : s.shown[k].n = s.log[i].n
            /\ ~s.lagged => Before(s, s.shown[f].n)
    BY <1>1, <2>3 DEF Concluded
  <2>5. \A i \in DOMAIN t.log : t.log[i].n < s.shown[f].n => i \in DOMAIN s.log
    <3>1. s.shown[f].n \in Nat /\ s.shown[f].n < s.next
      BY <1>1, <2>4, Typed DEF Received
    <3> QED BY <1>1, <2>1, <2>2, <3>1
  <2>6. ~t.lagged => Before(t, s.shown[f].n)
    BY <2>2, <2>3, <2>4, <2>5 DEF Before
  <2> QED BY <2>2, <2>3, <2>4, <2>5, <2>6 DEF Concluded
<1>3. ASSUME NEW e \in Event, Sends(s, t, e), t.feed = "done"
      PROVE  Concluded(t)
  <2>1. /\ t.log = s.log /\ t.shown = s.shown /\ t.lagged = s.lagged /\ s.feed = "done"
    BY <1>3 DEF Sends
  <2>2. /\ Len(s.order) \in Nat /\ DOMAIN s.order = 1..Len(s.order)
        /\ DOMAIN t.order = 1..(Len(s.order) + 1) /\ t.order[Len(s.order) + 1] = e.n
        /\ \A j \in DOMAIN s.order : t.order[j] = s.order[j]
    <3>1. e.n \in Nat /\ t.order = Append(s.order, e.n) /\ s.order \in Seq(Nat)
      BY <1>1, <1>3, Typed DEF Sends, Event
    <3> QED BY <3>1, Added
  <2>3. PICK f \in DOMAIN s.shown :
            /\ s.shown[f].is = "over" /\ \A j \in 1..(f - 1) : s.shown[j].is # "over"
            /\ \/ \E p \in DOMAIN s.order : s.order[p] = s.shown[f].n
               \/ \A i \in DOMAIN s.log : s.log[i].n < s.shown[f].n =>
                      \E k \in DOMAIN s.shown : s.shown[k].n = s.log[i].n
            /\ ~s.lagged => Before(s, s.shown[f].n)
    BY <1>1, <2>1 DEF Concluded
  <2> DEFINE n == s.shown[f].n
  <2>4. ASSUME ~t.lagged, NEW i \in DOMAIN t.log, t.log[i].n < n,
               ~ \E k \in DOMAIN t.shown : t.shown[k].n = t.log[i].n,
               NEW q \in DOMAIN t.order, t.order[q] = t.log[i].n
        PROVE  \E p \in DOMAIN t.order : t.order[p] = n /\ p < q
    <3>1. PICK p \in DOMAIN s.order : s.order[p] = n
      BY <2>1, <2>3, <2>4
    <3>2. CASE q \in DOMAIN s.order
      <4>1. s.order[q] = s.log[i].n
        BY <2>1, <2>2, <2>4, <3>2
      <4>2. \E r \in DOMAIN s.order : s.order[r] = n /\ r < q
        BY <2>1, <2>3, <2>4, <3>2, <4>1 DEF Before
      <4> QED BY <2>2, <4>2
    <3>3. CASE q = Len(s.order) + 1
      BY <2>2, <3>1, <3>3
    <3> QED BY <2>2, <3>2, <3>3
  <2>5. ~t.lagged => Before(t, n)
    BY <2>4 DEF Before
  <2>6. \/ \E p \in DOMAIN t.order : t.order[p] = n
        \/ \A i \in DOMAIN t.log : t.log[i].n < n => \E k \in DOMAIN t.shown : t.shown[k].n = t.log[i].n
    BY <2>1, <2>2, <2>3
  <2> QED BY <2>1, <2>3, <2>5, <2>6 DEF Concluded
<1>4. CASE RunLogs(s, t) \/ StopLogs(s, t)
  BY <1>2, <1>4 DEF RunLogs, StopLogs, Speakers, Concluded
<1>5. CASE RunShows(s, t)
  <2> DEFINE e == [n |-> s.next, is |-> "text"]
  <2>1. e \in Event
    BY <1>1 DEF Event
  <2> QED BY <1>3, <1>5, <2>1 DEF RunShows, Concluded
<1>6. ASSUME NEW who \in Speakers, Broadcasts(s, t, who)
      PROVE  Concluded(t)
  BY <1>1, <1>3, <1>6, Typed DEF Broadcasts, Concluded
<1>7. CASE Tells(s, t)
  BY <1>1, <1>7 DEF Tells, Same, Concluded, Before
<1>8. CASE Follows(s, t)
  <2> SUFFICES ASSUME t.feed = "done" PROVE Concluded(t)
    BY DEF Concluded
  <2>1. Feed!Over(s.log) /\ t.log = s.log /\ t.shown = s.log /\ s.log \in Seq(Event)
    BY <1>1, <1>8, Typed DEF Follows
  <2>2. PICK e \in DOMAIN s.log : s.log[e].is = "over" /\ \A j \in 1..(e - 1) : s.log[j].is # "over"
    BY <2>1, FirstOver
  <2>3. \A i \in DOMAIN t.log : \E k \in DOMAIN t.shown : t.shown[k].n = t.log[i].n
    BY <2>1
  <2> QED BY <2>1, <2>2, <2>3 DEF Concluded, Before
<1>9. CASE Receives(s, t)
  <2> SUFFICES ASSUME t.feed = "done" PROVE Concluded(t)
    BY DEF Concluded
  <2>1. /\ s.queue \in Seq(Event) /\ s.queue # <<>> /\ t.log = s.log
        /\ t.shown = Append(s.shown, Head(s.queue)) /\ t.order = s.order /\ t.lagged = s.lagged
        /\ s.feed = "live" /\ Head(s.queue).is = "over"
    BY <1>1, <1>9, Typed DEF Receives
  <2>2. /\ Len(s.queue) \in Nat \ {0} /\ DOMAIN s.queue = 1..Len(s.queue) /\ Head(s.queue) = s.queue[1]
        /\ Head(s.queue) \in Event /\ 1 \in DOMAIN s.queue
    BY <2>1
  <2>3. /\ Len(s.shown) \in Nat /\ DOMAIN s.shown = 1..Len(s.shown)
        /\ DOMAIN t.shown = 1..(Len(s.shown) + 1) /\ t.shown[Len(s.shown) + 1] = s.queue[1]
        /\ \A i \in DOMAIN s.shown : t.shown[i] = s.shown[i]
    BY <1>1, <2>1, <2>2, Added, Typed
  <2> DEFINE f == Len(s.shown) + 1
             n == s.queue[1].n
  <2>4. f \in DOMAIN t.shown /\ t.shown[f].is = "over" /\ t.shown[f].n = n
    BY <2>1, <2>2, <2>3
  <2>5. \A j \in 1..(f - 1) : t.shown[j].is # "over"
    BY <1>1, <2>1, <2>3 DEF Complete
  <2>6. \E p \in DOMAIN t.order : t.order[p] = n
    BY <1>1, <2>1, <2>2 DEF Received
  <2>7. ASSUME ~t.lagged, NEW i \in DOMAIN t.log, t.log[i].n < n,
               ~ \E k \in DOMAIN t.shown : t.shown[k].n = t.log[i].n,
               NEW q \in DOMAIN t.order, t.order[q] = t.log[i].n
        PROVE  \E p \in DOMAIN t.order : t.order[p] = n /\ p < q
    <3>1. ~ \E k \in DOMAIN s.shown : s.shown[k].n = s.log[i].n
      BY <2>1, <2>3, <2>7
    <3>2. PICK k \in DOMAIN s.queue : s.queue[k].n = s.log[i].n
      BY <1>1, <2>1, <2>7, <3>1 DEF Complete
    <3>3. k # 1
      BY <2>1, <2>4, <2>7, <3>2
    <3>4. 1 < k
      BY <2>2, <3>3
    <3>5. PICK a \in DOMAIN s.order, b \in DOMAIN s.order :
              a < b /\ s.order[a] = s.queue[1].n /\ s.order[b] = s.queue[k].n
      BY <1>1, <2>2, <3>2, <3>4 DEF Received
    <3>6. b = q
      BY <1>1, <2>1, <2>7, <3>2, <3>5 DEF Numbered
    <3> QED BY <2>1, <3>5, <3>6
  <2>8. ~t.lagged => Before(t, n)
    BY <2>7 DEF Before
  <2> HIDE DEF f, n
  <2> QED BY <2>4, <2>5, <2>6, <2>8 DEF Concluded
<1> QED BY <1>1, <1>4, <1>5, <1>6, <1>7, <1>8, <1>9, FeedSteps

LEMMA EndsStep ==
    ASSUME NEW s, NEW t \in Feed!Next(s), FInv(s), Capacity \in Nat, Capacity >= 3
    PROVE  Ends(t)
<1>1. s \in Feeds /\ Ends(s) /\ t \in Feeds /\ s.next \in Nat /\ s.next >= 1 /\ s.gone \in BOOLEAN
  BY FeedSteps DEF FInv, Feeds, Numbered
<1>2. ASSUME NEW who \in Speakers, NEW is \in {"step", "over"}, Logs(s, t, who, is)
      PROVE  /\ t.sent[who].is = is /\ Speaks(t, who)
             /\ \A w \in Speakers \ {who} : t.sent[w] = s.sent[w]
             /\ Feed!Over(t.log) => Feed!Over(s.log) \/ is = "over"
             /\ t.queue = s.queue /\ t.feed = s.feed
  <2> DEFINE e == [n |-> s.next, is |-> is]
  <2>1. e \in Event /\ e.is = is /\ e # Feed!Nothing
    BY <1>1 DEF Event, Feed!Nothing
  <2>2. /\ DOMAIN s.log = 1..Len(s.log) /\ DOMAIN t.log = 1..(Len(s.log) + 1) /\ Len(s.log) \in Nat
        /\ t.log[Len(s.log) + 1] = e /\ \A i \in DOMAIN s.log : t.log[i] = s.log[i]
    BY <1>1, <1>2, <2>1, Added, Typed DEF Logs
  <2>3. t.sent = [s.sent EXCEPT ![who] = e] /\ Same(s, t)
    BY <1>2 DEF Logs
  <2> HIDE DEF e
  <2>4. t.sent[who] = e /\ \A w \in Speakers \ {who} : t.sent[w] = s.sent[w]
    BY <1>1, <2>3, Typed
  <2>5. \A i \in DOMAIN t.log : i \in DOMAIN s.log \/ t.log[i] = e
    BY <2>2
  <2> QED BY <2>1, <2>2, <2>3, <2>4, <2>5 DEF Feed!Over, Speaks, Same
<1>3. ASSUME NEW e \in Event, Sends(s, t, e)
      PROVE  /\ e.is = "over" => ~Feed!Over(s.log) \/ s.feed # "live" \/
                  \E i \in DOMAIN t.queue : t.queue[i].is = "over" /\ Len(t.queue) - i = 0
             /\ s.feed = "live" =>
                  \A i \in DOMAIN s.queue : s.queue[i].is = "over" /\ Len(s.queue) - i < 2 =>
                     \E k \in DOMAIN t.queue :
                        t.queue[k].is = "over" /\ Len(t.queue) - k = (Len(s.queue) - i) + 1
  <2> SUFFICES ASSUME s.feed = "live"
               PROVE  /\ e.is = "over" =>
                            \E i \in DOMAIN t.queue : t.queue[i].is = "over" /\ Len(t.queue) - i = 0
                      /\ \A i \in DOMAIN s.queue : s.queue[i].is = "over" /\ Len(s.queue) - i < 2 =>
                            \E k \in DOMAIN t.queue :
                               t.queue[k].is = "over" /\ Len(t.queue) - k = (Len(s.queue) - i) + 1
    OBVIOUS
  <2>1. PICK d \in {0, 1} :
            /\ Len(s.queue) \in Nat /\ DOMAIN s.queue = 1..Len(s.queue)
            /\ Len(t.queue) = Len(s.queue) + 1 - d /\ DOMAIN t.queue = 1..Len(t.queue)
            /\ \A k \in 1..Len(t.queue) : t.queue[k] = IF k + d <= Len(s.queue) THEN s.queue[k + d] ELSE e
            /\ d = 0 => t.lagged = s.lagged
            /\ d = 1 => t.lagged /\ Len(s.queue) >= Capacity
    BY <1>1, <1>3, SentTo
  <2>2. Len(t.queue) \in DOMAIN t.queue /\ t.queue[Len(t.queue)] = e
    BY <2>1
  <2>3. ASSUME NEW i \in DOMAIN s.queue, s.queue[i].is = "over", Len(s.queue) - i < 2
        PROVE  \E k \in DOMAIN t.queue :
                  t.queue[k].is = "over" /\ Len(t.queue) - k = (Len(s.queue) - i) + 1
    <3>1. i - d \in DOMAIN t.queue /\ (i - d) + d <= Len(s.queue) /\ (i - d) + d = i
      <4>1. CASE d = 0
        BY <2>1, <2>3, <4>1
      <4>2. CASE d = 1
        <5>1. Len(s.queue) >= 3 /\ i >= 2
          BY <2>1, <2>3, <4>2
        <5> QED BY <2>1, <2>3, <4>2, <5>1
      <4> QED BY <4>1, <4>2
    <3>2. Len(t.queue) - (i - d) = (Len(s.queue) - i) + 1
      <4>1. i \in Nat /\ d \in Nat /\ Len(s.queue) \in Nat /\ Len(t.queue) = Len(s.queue) + 1 - d
        BY <2>1
      <4> QED BY <4>1
    <3>4. t.queue[i - d] = s.queue[i]
      BY <2>1, <3>1
    <3> QED BY <2>3, <3>1, <3>2, <3>4
  <2>4. Len(t.queue) - Len(t.queue) = 0
    BY <2>1
  <2> QED BY <2>2, <2>3, <2>4
<1>4. CASE RunLogs(s, t)
  <2>1. PICK is \in {"step", "over"} : Logs(s, t, "run", is) /\ t.gone = (is = "over" \/ s.stopping = "said")
    BY <1>4 DEF RunLogs
  <2>2. /\ t.sent["run"].is = is /\ Speaks(t, "run") /\ t.sent["stop"] = s.sent["stop"]
        /\ Feed!Over(t.log) => Feed!Over(s.log) \/ is = "over"
        /\ t.queue = s.queue /\ t.feed = s.feed /\ t.stopping = s.stopping
    BY <1>2, <1>4, <2>1 DEF Speakers, RunLogs
  <2>3. ~Speaks(s, "run") /\ ~s.gone /\ s.sent["run"].is # "over"
    BY <1>4 DEF RunLogs, Speaks, Feed!Nothing
  <2>4. ASSUME is # "over", t.feed = "live", Feed!Over(t.log) PROVE Coming(t)
    <3>1. s.stopping = "said" /\ Coming(s) /\ t.gone
      BY <1>1, <2>1, <2>2, <2>3, <2>4 DEF Ends
    <3>2. Pending(s) = 0 /\ Allowed(s) = 1 /\ Pending(t) = 1 /\ Allowed(t) = 0
      BY <2>2, <2>3, <3>1 DEF Pending, Allowed
    <3> QED BY <2>2, <2>3, <3>1, <3>2 DEF Coming
  <2>5. t.feed = "live" /\ Feed!Over(t.log) => Coming(t)
    BY <2>2, <2>4 DEF Coming
  <2>6. Feed!Over(t.log) => t.gone \/ t.stopping = "said"
    BY <1>1, <2>1, <2>2, <2>3 DEF Ends
  <2>7. t.sent["run"].is = "over" => t.gone
    BY <2>1, <2>2
  <2>8. Speaks(t, "stop") => t.sent["stop"].is = "over" /\ t.stopping = "said"
    BY <1>1, <2>2 DEF Ends, Speaks
  <2> QED BY <2>5, <2>6, <2>7, <2>8 DEF Ends
<1>5. CASE RunShows(s, t)
  <2> DEFINE e == [n |-> s.next, is |-> "text"]
  <2>1. e \in Event /\ Sends(s, t, e)
    BY <1>1, <1>5 DEF Event, RunShows
  <2>2. /\ t.log = s.log /\ t.sent = s.sent /\ t.feed = s.feed /\ t.stopping = s.stopping
        /\ t.gone = (s.stopping = "said") /\ ~s.gone /\ ~Speaks(s, "run")
    BY <1>5 DEF RunShows, Sends
  <2>3. ASSUME t.feed = "live", Feed!Over(t.log) PROVE Coming(t)
    <3>1. s.stopping = "said" /\ Coming(s) /\ t.gone /\ s.feed = "live"
      BY <1>1, <2>2, <2>3 DEF Ends
    <3>2. Pending(s) = 0 /\ Allowed(s) = 1 /\ Pending(t) = 0 /\ Allowed(t) = 0
      BY <2>2, <3>1 DEF Pending, Allowed, Speaks
    <3>3. CASE s.sent["run"].is = "over" \/ s.sent["stop"].is = "over"
      BY <2>2, <3>3 DEF Coming
    <3>4. ASSUME NEW i \in DOMAIN s.queue, s.queue[i].is = "over",
                 (Len(s.queue) - i) + Pending(s) + Allowed(s) <= 2
          PROVE  Coming(t)
      <4>1. Len(s.queue) - i < 2 /\ Len(s.queue) - i \in Int
        BY <1>1, <3>2, <3>4, Typed
      <4>2. PICK k \in DOMAIN t.queue :
                t.queue[k].is = "over" /\ Len(t.queue) - k = (Len(s.queue) - i) + 1
        BY <1>3, <2>1, <3>1, <3>4, <4>1
      <4>3. (Len(t.queue) - k) + Pending(t) + Allowed(t) <= 2
        BY <3>2, <4>1, <4>2
      <4> QED BY <4>2, <4>3 DEF Coming
    <3> QED BY <3>1, <3>3, <3>4 DEF Coming
  <2> QED BY <1>1, <2>2, <2>3 DEF Ends, Speaks
<1>6. CASE StopLogs(s, t)
  <2>1. /\ t.sent["stop"].is = "over" /\ t.sent["run"] = s.sent["run"] /\ t.stopping = "said"
        /\ t.gone = s.gone
    BY <1>2, <1>6 DEF StopLogs, Speakers
  <2> QED BY <1>1, <2>1 DEF Ends, Coming
<1>7. ASSUME NEW who \in Speakers, Broadcasts(s, t, who)
      PROVE  Ends(t)
  <2> DEFINE e == s.sent[who]
  <2>1. e \in Event /\ Sends(s, t, e)
    BY <1>1, <1>7, Typed DEF Broadcasts
  <2>2. /\ t.log = s.log /\ t.feed = s.feed /\ t.stopping = s.stopping /\ t.gone = s.gone
        /\ ~Speaks(t, who) /\ t.sent[who].is = "nothing" /\ Speaks(s, who)
        /\ \A w \in Speakers \ {who} : t.sent[w] = s.sent[w]
    BY <1>1, <1>7, Typed DEF Broadcasts, Sends, Speaks, Feed!Nothing
  <2>3. Pending(t) \in {0, 1} /\ Allowed(t) \in {0, 1} /\ Pending(s) \in {0, 1} /\ Allowed(s) \in {0, 1}
    BY DEF Pending, Allowed
  <2>4. ASSUME t.feed = "live", Feed!Over(t.log) PROVE Coming(t)
    <3>1. Coming(s) /\ s.feed = "live" /\ Feed!Over(s.log)
      BY <1>1, <2>2, <2>4 DEF Ends
    <3>2. CASE e.is = "over"
      <4>1. PICK i \in DOMAIN t.queue : t.queue[i].is = "over" /\ Len(t.queue) - i = 0
        BY <1>3, <2>1, <3>1, <3>2
      <4>2. (Len(t.queue) - i) + Pending(t) + Allowed(t) <= 2
        BY <2>3, <4>1
      <4> QED BY <4>1, <4>2 DEF Coming
    <3>3. CASE e.is # "over" /\ (s.sent["run"].is = "over" \/ s.sent["stop"].is = "over")
      BY <2>2, <3>3 DEF Coming, Speakers
    <3>4. ASSUME e.is # "over", NEW i \in DOMAIN s.queue, s.queue[i].is = "over",
                 (Len(s.queue) - i) + Pending(s) + Allowed(s) <= 2
          PROVE  Coming(t)
      <4>1. who = "run"
        BY <1>1, <2>2, <3>4 DEF Ends, Speakers
      <4>2. Pending(s) = 1 /\ Pending(t) = 0 /\ Allowed(t) = Allowed(s)
        BY <2>2, <4>1 DEF Pending, Allowed
      <4>3. Len(s.queue) - i < 2 /\ Len(s.queue) - i \in Int
        BY <1>1, <2>3, <3>4, <4>2, Typed
      <4>4. PICK k \in DOMAIN t.queue :
                t.queue[k].is = "over" /\ Len(t.queue) - k = (Len(s.queue) - i) + 1
        BY <1>3, <2>1, <3>1, <3>4, <4>3
      <4>5. (Len(t.queue) - k) + Pending(t) + Allowed(t) <= 2
        BY <2>3, <3>4, <4>2, <4>3, <4>4
      <4> QED BY <4>4, <4>5 DEF Coming
    <3> QED BY <3>1, <3>2, <3>3, <3>4 DEF Coming
  <2>5. \A w \in Speakers : Speaks(t, w) => w # who /\ t.sent[w] = s.sent[w] /\ Speaks(s, w)
    BY <2>2 DEF Speaks
  <2>6. t.sent["run"].is = "over" => t.gone
    BY <1>1, <2>2 DEF Ends, Speakers
  <2>7. Speaks(t, "stop") => t.sent["stop"].is = "over" /\ t.stopping = "said"
    BY <1>1, <2>2, <2>5 DEF Ends, Speakers
  <2> QED BY <1>1, <2>2, <2>4, <2>6, <2>7 DEF Ends
<1>8. CASE Tells(s, t)
  <2>1. /\ t.log = s.log /\ t.sent = s.sent /\ t.queue = s.queue /\ t.feed = s.feed
        /\ s.gone => t.gone
        /\ s.stopping = "said" => t.stopping = "said"
    BY <1>1, <1>8 DEF Tells, Same
  <2>2. Allowed(t) <= Allowed(s) /\ Pending(t) = Pending(s)
        /\ Allowed(t) \in {0, 1} /\ Allowed(s) \in {0, 1} /\ Pending(s) \in {0, 1}
    BY <2>1 DEF Allowed, Pending, Speaks
  <2>3. ASSUME NEW i \in DOMAIN s.queue, (Len(s.queue) - i) + Pending(s) + Allowed(s) <= 2
        PROVE  (Len(s.queue) - i) + Pending(t) + Allowed(t) <= 2
    <3>1. Len(s.queue) - i \in Int
      BY <1>1, Typed
    <3> QED BY <2>2, <2>3, <3>1
  <2>4. Coming(s) => Coming(t)
    BY <2>1, <2>3 DEF Coming
  <2> QED BY <1>1, <2>1, <2>4 DEF Ends, Speaks
<1>9. CASE Follows(s, t)
  <2>1. /\ t.log = s.log /\ t.sent = s.sent /\ t.stopping = s.stopping /\ t.gone = s.gone
        /\ t.feed = "live" => ~Feed!Over(s.log)
    BY <1>9 DEF Follows
  <2> QED BY <1>1, <2>1 DEF Ends, Speaks
<1>10. CASE Receives(s, t)
  <2>1. /\ s.queue \in Seq(Event) /\ s.queue # <<>> /\ t.queue = Tail(s.queue) /\ t.log = s.log
        /\ t.sent = s.sent /\ t.stopping = s.stopping /\ t.gone = s.gone /\ s.feed = "live"
        /\ t.feed = "live" => Head(s.queue).is # "over"
    BY <1>1, <1>10, Typed DEF Receives
  <2>2. /\ Len(s.queue) \in Nat \ {0} /\ DOMAIN s.queue = 1..Len(s.queue) /\ Head(s.queue) = s.queue[1]
        /\ DOMAIN t.queue = 1..(Len(s.queue) - 1) /\ Len(t.queue) = Len(s.queue) - 1
        /\ \A k \in DOMAIN t.queue : t.queue[k] = s.queue[k + 1]
    BY <2>1
  <2>3. Allowed(t) = Allowed(s) /\ Pending(t) = Pending(s)
    BY <2>1 DEF Allowed, Pending, Speaks
  <2>4. ASSUME t.feed = "live", NEW i \in DOMAIN s.queue, s.queue[i].is = "over",
               (Len(s.queue) - i) + Pending(s) + Allowed(s) <= 2
        PROVE  Coming(t)
    <3>1. i # 1
      BY <2>1, <2>2, <2>4
    <3>2. i - 1 \in DOMAIN t.queue /\ (i - 1) + 1 = i /\ Len(t.queue) - (i - 1) = Len(s.queue) - i
      BY <2>2, <3>1
    <3>3. t.queue[i - 1] = s.queue[i]
      BY <2>2, <3>2
    <3> QED BY <2>3, <2>4, <3>2, <3>3 DEF Coming
  <2>5. t.feed = "live" /\ Coming(s) => Coming(t)
    BY <2>1, <2>4 DEF Coming
  <2> QED BY <1>1, <2>1, <2>5 DEF Ends, Speaks
<1> QED BY <1>1, <1>4, <1>5, <1>6, <1>7, <1>8, <1>9, <1>10, FeedSteps

LEMMA StepFeed ==
    ASSUME NEW s, NEW t \in Feed!Next(s), FInv(s), Capacity \in Nat, Capacity >= 3
    PROVE  FInv(t)
<1>1. s \in Feeds
  BY DEF FInv
<1> QED BY <1>1, FeedSteps, NumberedStep, ReceivedStep, RepeatsStep, CompleteStep, ConcludedStep, EndsStep
        DEF FInv

\* What the invariant says of the page.
LEMMA FeedShows ==
    ASSUME NEW s, FInv(s)
    PROVE  Feed!FeedHolds(s)
<1>1. s \in Feeds /\ Numbered(s) /\ Concluded(s) /\ Ends(s)
  BY DEF FInv
<1>2. Feed!RepeatsAreKnown(s)
  BY DEF FInv, Repeats
<1>3. Feed!EndArrives(s)
  BY <1>1 DEF Feed!EndArrives, Ends, Coming, Feed!Over
<1>4. ASSUME s.feed = "done", ~s.lagged PROVE Feed!NothingIsMissing(s)
  <2> DEFINE First(i) == s.shown[i].is = "over" /\ \A j \in 1..i - 1 : s.shown[j].is # "over"
             first == CHOOSE i \in DOMAIN s.shown : First(i)
  <2>1. PICK e \in DOMAIN s.shown :
            /\ First(e)
            /\ \/ \E p \in DOMAIN s.order : s.order[p] = s.shown[e].n
               \/ \A i \in DOMAIN s.log : s.log[i].n < s.shown[e].n =>
                      \E k \in DOMAIN s.shown : s.shown[k].n = s.log[i].n
            /\ Before(s, s.shown[e].n)
    BY <1>1, <1>4 DEF Concluded
  <2>2. DOMAIN s.shown = 1..Len(s.shown) /\ Len(s.shown) \in Nat
    BY <1>1, Typed
  <2>3. first \in DOMAIN s.shown /\ First(first)
    BY <2>1
  <2>4. first = e
    <3> HIDE DEF first
    <3>1. ~(first < e) /\ ~(e < first)
      BY <2>1, <2>2, <2>3
    <3> QED BY <2>1, <2>2, <2>3, <3>1
  <2>5. ASSUME NEW p \in DOMAIN s.order PROVE Feed!Place(s, s.order[p]) = p
    BY <1>1, <2>5 DEF Feed!Place, Numbered
  <2>6. ASSUME NEW i \in DOMAIN s.log, s.log[i].n < s.shown[e].n, s.log[i].n \notin Feed!Shown(s),
               s.log[i].n \in Feed!Range(s.order)
        PROVE  Feed!Place(s, s.log[i].n) > Feed!Place(s, s.shown[e].n)
    <3>1. ~ \E k \in DOMAIN s.shown : s.shown[k].n = s.log[i].n
      BY <2>6 DEF Feed!Shown
    <3>2. PICK q \in DOMAIN s.order : s.order[q] = s.log[i].n
      BY <2>6 DEF Feed!Range
    <3>3. PICK p \in DOMAIN s.order : s.order[p] = s.shown[e].n /\ p < q
      BY <2>1, <2>6, <3>1, <3>2 DEF Before
    <3>4. Feed!Place(s, s.log[i].n) = q /\ Feed!Place(s, s.shown[e].n) = p
      BY <2>5, <3>2, <3>3
    <3>5. p \in Nat /\ q \in Nat
      BY <1>1, <3>2, <3>3, Typed
    <3> QED BY <3>3, <3>4, <3>5
  <2>7. s.shown[first].n = s.shown[e].n
    BY <2>4
  <2> HIDE DEF first
  <2>8. \A i \in DOMAIN s.log :
            s.log[i].n < s.shown[first].n /\ s.log[i].n \notin Feed!Shown(s) =>
               s.log[i].n \notin Feed!Range(s.order)
               \/ Feed!Place(s, s.log[i].n) > Feed!Place(s, s.shown[first].n)
    BY <2>6, <2>7
  <2> QED BY <2>8 DEF Feed!NothingIsMissing, first, First
<1>5. Feed!NothingIsMissing(s)
  BY <1>4 DEF Feed!NothingIsMissing
<1> QED BY <1>2, <1>3, <1>5 DEF Feed!FeedHolds

\* Whoever follows a run, from wherever it begins to: it is shown every step logged before
\* the end it is shown, an end that was said reaches it, and what it is shown twice was on
\* its way when it began to follow.  Two events can follow the end of a run in the channel,
\* what its task had logged and what it says before its next await, so that a channel for
\* three keeps the end.
THEOREM FeedIsWhole ==
    ASSUME Capacity \in Nat, Capacity >= 3
    PROVE  FeedSpec => []Feed!FeedHolds(feed)
<1>1. feed = Feed!New => FInv(feed)
  BY InitFeed
<1>2. FInv(feed) /\ [feed' \in Feed!Next(feed)]_feed => FInv(feed)'
  <2> SUFFICES ASSUME FInv(feed), [feed' \in Feed!Next(feed)]_feed PROVE FInv(feed')
    OBVIOUS
  <2>1. CASE feed' = feed
    BY <2>1
  <2>2. CASE feed' \in Feed!Next(feed)
    BY <2>2, StepFeed
  <2> QED BY <2>1, <2>2
<1>3. FInv(feed) => Feed!FeedHolds(feed)
  BY FeedShows
<1> QED BY <1>1, <1>2, <1>3, PTL DEF FeedSpec
=============================================================================
