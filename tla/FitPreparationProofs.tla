------------------------ MODULE FitPreparationProofs ------------------------
(***************************************************************************)
(* FitPreparation for any number of callers and models: one task has the   *)
(* running flag, whoever needs the runtime has told it to stop, and every  *)
(* trigger leaves somebody who will make the pass it asks for.  Then what  *)
(* a load is started with (LaunchPolicy) and what is advised (Recommend),  *)
(* for any amounts of memory.                                              *)
(***************************************************************************)
EXTENDS FitPreparation, Integers, Sequences, FiniteSetTheorems, SequenceTheorems, TLAPS

\* The task that set running and has not cleared it.
Owning == {"clear", "begin", "next", "enable", "check", "mark", "search", "found",
           "dropped", "ended", "release"}
Counted == {c \in Callers : pc[c] \notin {"new", "add"}}

\* How often the search was cancelled: once for each caller that got past it.
Cancelled == generation <= Cardinality(Counted)

\* The flags say what the tasks do, of which one has them at a time.
Flagged ==
    /\ \A t, u \in Callers : task[t] \in Owning /\ task[u] \in Owning => t = u
    /\ running <=> \E t \in Callers : task[t] \in Owning
    /\ searching <=> \E t \in Callers : task[t] \in {"search", "found", "dropped"}
    /\ \A c \in Callers : pc[c] = "held" => lock = c

\* A task that goes on searching has not been told to stop, and nobody is past the
\* cancel; unless it was let in behind one.
Told ==
    /\ \A t \in Callers : task[t] \in {"check", "mark", "search"} => waiter[t] # "none"
    /\ \A t, c \in Callers :
          /\ task[t] \in {"mark", "search"} /\ waiter[t] # "notified" /\ ~slipped
          /\ pc[c] \in {"poll", "lock", "held"}
          => kind[c] = "unload"

\* What will still lead to a pass, or to a model in memory.
Waiting   == \E c \in Callers : pc[c] \in {"swap", "add", "notify", "poll", "lock", "held"}
Late      == \E c \in Callers : pc[c] = "late"
Again     == rerun /\ \E t \in Callers : task[t] \in Owning \union {"last", "claim"}
Beginning == \E t \in Callers : task[t] \in {"clear", "begin"}
Passing   ==
    \E t \in Callers :
        /\ \/ task[t] \in {"next", "enable", "found"}
           \/ task[t] \in {"check", "mark", "search"} /\ waiter[t] # "notified"
        /\ Models \subseteq prepared \union todo[t]

\* The fits are up to date, or will be.
Served ==
    \/ missed \/ cutShort \/ loaded \/ prepared = Models
    \/ \A c \in Callers : kind[c] = None
    \/ Waiting \/ Late \/ Again \/ Beginning \/ Passing

\* The inductive invariant.
FInv == TypeOK /\ Cancelled /\ Flagged /\ Told /\ Served
-----------------------------------------------------------------------------
(* One lemma per part of the invariant, one step per action.                *)

\* Each caller cancels the search once.
LEMMA StepCancelled ==
    FInv /\ [Next]_vars => Cancelled' /\ generation' <= Cardinality(Callers)
<1> SUFFICES ASSUME FInv, [Next]_vars
             PROVE  Cancelled' /\ generation' <= Cardinality(Callers)
  OBVIOUS
<1> USE FitAssumption DEF FInv, TypeOK
<1>1. /\ IsFiniteSet(Counted) /\ Cardinality(Counted) \in Nat
      /\ IsFiniteSet(Counted') /\ Cardinality(Counted') \in Nat
      /\ Cardinality(Counted') <= Cardinality(Callers) /\ Cardinality(Callers) \in Nat
  <2>1. Counted \subseteq Callers /\ Counted' \subseteq Callers
    BY DEF Counted
  <2> QED
    BY <2>1, FS_Subset, FS_CardinalityType
<1>2. ASSUME NEW c \in Callers, AddGeneration(c)
      PROVE  Counted' = Counted \union {c} /\ c \notin Counted
  BY <1>2 DEF AddGeneration, Goto, Counted
<1>3. ASSUME NEW c \in Callers, AddGeneration(c)
      PROVE  generation' <= Cardinality(Counted')
  <2>1. Cardinality(Counted') = Cardinality(Counted) + 1
    BY <1>1, <1>2, <1>3, FS_AddElement
  <2>2. generation' = generation + 1 /\ generation <= Cardinality(Counted)
    BY <1>3 DEF AddGeneration, Cancelled
  <2> QED
    BY <1>1, <2>1, <2>2
<1>4. ASSUME UNCHANGED generation, Counted \subseteq Counted'
      PROVE  generation' <= Cardinality(Counted')
  <2>1. Cardinality(Counted) <= Cardinality(Counted')
    BY <1>1, <1>4, FS_Subset
  <2> QED
    BY <1>1, <1>4, <2>1 DEF Cancelled
<1>5. ASSUME NEW c \in Callers,
             \/ Ask(c) \/ Swap(c) \/ SetRerun(c) \/ NotifyWaiters(c) \/ Poll(c) \/ Acquire(c)
             \/ Finish(c) \/ Unlock(c)
      PROVE  UNCHANGED generation /\ Counted \subseteq Counted'
  BY <1>5 DEF Ask, Swap, SetRerun, NotifyWaiters, Poll, Acquire, Finish, Unlock, Goto,
       Counted, flags
<1>6. ASSUME NEW c \in Callers, Task(c)
      PROVE  UNCHANGED generation /\ Counted \subseteq Counted'
  BY <1>6 DEF Task, ClearRerun, Begin, NextModel, Enable, Check, MarkSearching, Select,
       EndSearch, EndPass, Release, LastLook, Claim, Counted, flags, caller
<1>7. ASSUME UNCHANGED vars
      PROVE  UNCHANGED generation /\ Counted \subseteq Counted'
  BY <1>7 DEF vars, flags, caller, Counted
<1>8. generation' \in Nat
  <2>1. ASSUME NEW c \in Callers, AddGeneration(c) PROVE generation' \in Nat
    BY <1>1, <2>1 DEF AddGeneration
  <2>2. ASSUME UNCHANGED generation PROVE generation' \in Nat
    BY <1>1, <2>2
  <2> HIDE DEF FInv, TypeOK
  <2> QED
    BY <2>1, <2>2, <1>5, <1>6, <1>7 DEF Next, Call, Terminated
<1> HIDE DEF FInv, TypeOK
<1>9. generation' <= Cardinality(Counted')
  BY <1>3, <1>4, <1>5, <1>6, <1>7 DEF Next, Call, Terminated
<1> QED
  BY <1>1, <1>8, <1>9 DEF Cancelled

\* Every step of a caller and of a task keeps each part of the invariant.
LEMMA StepTypeOK == FInv /\ [Next]_vars => TypeOK'
<1> SUFFICES ASSUME FInv, [Next]_vars PROVE TypeOK'
  OBVIOUS
<1> USE FitAssumption DEF FInv, TypeOK
<1>1. ASSUME NEW c \in Callers, Ask(c)
      PROVE  TypeOK'
  BY <1>1 DEF Ask, Goto, Move, flags, runtime, caller, pass, history
<1>2. ASSUME NEW c \in Callers, Swap(c)
      PROVE  TypeOK'
  BY <1>2 DEF Swap, Goto, Move, flags, runtime, caller, pass, history
<1>3. ASSUME NEW c \in Callers, SetRerun(c)
      PROVE  TypeOK'
  BY <1>3 DEF SetRerun, Goto, Move, flags, runtime, caller, pass, history
<1>4. ASSUME NEW c \in Callers, AddGeneration(c)
      PROVE  TypeOK'
  <2>1. generation' \in 0..Cardinality(Callers)
    <3>1. generation' <= Cardinality(Callers)
      BY StepCancelled
    <3>2. Cardinality(Callers) \in Nat
      BY FS_CardinalityType
    <3>3. generation' = generation + 1
      BY <1>4 DEF AddGeneration
    <3> QED
      BY <3>1, <3>2, <3>3
  <2> QED
    BY <1>4, <2>1 DEF AddGeneration, Goto, runtime, pass, history
<1>5. ASSUME NEW c \in Callers, NotifyWaiters(c)
      PROVE  TypeOK'
  BY <1>5 DEF NotifyWaiters, Goto, Move, flags, runtime, caller, pass, history
<1>6. ASSUME NEW c \in Callers, Poll(c)
      PROVE  TypeOK'
  BY <1>6 DEF Poll, Goto, Move, flags, runtime, caller, pass, history
<1>7. ASSUME NEW c \in Callers, Acquire(c)
      PROVE  TypeOK'
  BY <1>7 DEF Acquire, Goto, Move, flags, runtime, caller, pass, history
<1>8. ASSUME NEW c \in Callers, Finish(c)
      PROVE  TypeOK'
  BY <1>8 DEF Finish, Goto, Move, flags, runtime, caller, pass, history
<1>9. ASSUME NEW c \in Callers, Unlock(c)
      PROVE  TypeOK'
  BY <1>9 DEF Unlock, Goto, Move, flags, runtime, caller, pass, history
<1>10. ASSUME NEW c \in Callers, ClearRerun(c)
      PROVE  TypeOK'
  BY <1>10 DEF ClearRerun, Move, flags, runtime, caller, pass, history
<1>11. ASSUME NEW c \in Callers, Begin(c)
      PROVE  TypeOK'
  BY <1>11 DEF Begin, Move, flags, runtime, caller, pass, history
<1>12. ASSUME NEW c \in Callers, NextModel(c)
      PROVE  TypeOK'
  BY <1>12 DEF NextModel, Move, flags, runtime, caller, pass, history
<1>13. ASSUME NEW c \in Callers, Enable(c)
      PROVE  TypeOK'
  BY <1>13 DEF Enable, Move, flags, runtime, caller, pass, history
<1>14. ASSUME NEW c \in Callers, Check(c)
      PROVE  TypeOK'
  BY <1>14 DEF Check, Move, flags, runtime, caller, pass, history
<1>15. ASSUME NEW c \in Callers, MarkSearching(c)
      PROVE  TypeOK'
  BY <1>15 DEF MarkSearching, Move, flags, runtime, caller, pass, history
<1>16. ASSUME NEW c \in Callers, Select(c)
      PROVE  TypeOK'
  BY <1>16 DEF Select, Move, flags, runtime, caller, pass, history
<1>17. ASSUME NEW c \in Callers, EndSearch(c)
      PROVE  TypeOK'
  BY <1>17 DEF EndSearch, Move, flags, runtime, caller, pass, history
<1>18. ASSUME NEW c \in Callers, EndPass(c)
      PROVE  TypeOK'
  BY <1>18 DEF EndPass, Move, flags, runtime, caller, pass, history
<1>19. ASSUME NEW c \in Callers, Release(c)
      PROVE  TypeOK'
  BY <1>19 DEF Release, Move, flags, runtime, caller, pass, history
<1>20. ASSUME NEW c \in Callers, LastLook(c)
      PROVE  TypeOK'
  BY <1>20 DEF LastLook, Move, flags, runtime, caller, pass, history
<1>21. ASSUME NEW c \in Callers, Claim(c)
      PROVE  TypeOK'
  BY <1>21 DEF Claim, Move, flags, runtime, caller, pass, history
<1>22. CASE UNCHANGED vars
  BY <1>22 DEF vars, flags, runtime, caller, pass, history
<1> HIDE DEF FInv, TypeOK
<1> QED BY <1>1, <1>2, <1>3, <1>4, <1>5, <1>6, <1>7, <1>8, <1>9, <1>10, <1>11, <1>12, <1>13,
            <1>14, <1>15, <1>16, <1>17, <1>18, <1>19, <1>20, <1>21, <1>22 DEF Next, Call, Task, Terminated

\* The flags follow the task that has them.
LEMMA StepFlagged == FInv /\ [Next]_vars => Flagged'
<1> SUFFICES ASSUME FInv, [Next]_vars PROVE Flagged'
  OBVIOUS
<1> USE FitAssumption DEF FInv, TypeOK, Flagged, Owning
<1>1. ASSUME NEW c \in Callers, Ask(c)
      PROVE  Flagged'
  BY <1>1 DEF Ask, Goto, Move, flags, runtime, caller, pass, history
<1>2. ASSUME NEW c \in Callers, Swap(c)
      PROVE  Flagged'
  BY <1>2 DEF Swap, Goto, Move, flags, runtime, caller, pass, history
<1>3. ASSUME NEW c \in Callers, SetRerun(c)
      PROVE  Flagged'
  BY <1>3 DEF SetRerun, Goto, Move, flags, runtime, caller, pass, history
<1>4. ASSUME NEW c \in Callers, AddGeneration(c)
      PROVE  Flagged'
  BY <1>4 DEF AddGeneration, Goto, Move, flags, runtime, caller, pass, history
<1>5. ASSUME NEW c \in Callers, NotifyWaiters(c)
      PROVE  Flagged'
  BY <1>5 DEF NotifyWaiters, Goto, Move, flags, runtime, caller, pass, history
<1>6. ASSUME NEW c \in Callers, Poll(c)
      PROVE  Flagged'
  BY <1>6 DEF Poll, Goto, Move, flags, runtime, caller, pass, history
<1>7. ASSUME NEW c \in Callers, Acquire(c)
      PROVE  Flagged'
  BY <1>7 DEF Acquire, Goto, Move, flags, runtime, caller, pass, history
<1>8. ASSUME NEW c \in Callers, Finish(c)
      PROVE  Flagged'
  BY <1>8 DEF Finish, Goto, Move, flags, runtime, caller, pass, history
<1>9. ASSUME NEW c \in Callers, Unlock(c)
      PROVE  Flagged'
  BY <1>9 DEF Unlock, Goto, Move, flags, runtime, caller, pass, history
<1>10. ASSUME NEW c \in Callers, ClearRerun(c)
      PROVE  Flagged'
  BY <1>10 DEF ClearRerun, Move, flags, runtime, caller, pass, history
<1>11. ASSUME NEW c \in Callers, Begin(c)
      PROVE  Flagged'
  BY <1>11 DEF Begin, Move, flags, runtime, caller, pass, history
<1>12. ASSUME NEW c \in Callers, NextModel(c)
      PROVE  Flagged'
  BY <1>12 DEF NextModel, Move, flags, runtime, caller, pass, history
<1>13. ASSUME NEW c \in Callers, Enable(c)
      PROVE  Flagged'
  BY <1>13 DEF Enable, Move, flags, runtime, caller, pass, history
<1>14. ASSUME NEW c \in Callers, Check(c)
      PROVE  Flagged'
  BY <1>14 DEF Check, Move, flags, runtime, caller, pass, history
<1>15. ASSUME NEW c \in Callers, MarkSearching(c)
      PROVE  Flagged'
  BY <1>15 DEF MarkSearching, Move, flags, runtime, caller, pass, history
<1>16. ASSUME NEW c \in Callers, Select(c)
      PROVE  Flagged'
  BY <1>16 DEF Select, Move, flags, runtime, caller, pass, history
<1>17. ASSUME NEW c \in Callers, EndSearch(c)
      PROVE  Flagged'
  BY <1>17 DEF EndSearch, Move, flags, runtime, caller, pass, history
<1>18. ASSUME NEW c \in Callers, EndPass(c)
      PROVE  Flagged'
  BY <1>18 DEF EndPass, Move, flags, runtime, caller, pass, history
<1>19. ASSUME NEW c \in Callers, Release(c)
      PROVE  Flagged'
  BY <1>19 DEF Release, Move, flags, runtime, caller, pass, history
<1>20. ASSUME NEW c \in Callers, LastLook(c)
      PROVE  Flagged'
  BY <1>20 DEF LastLook, Move, flags, runtime, caller, pass, history
<1>21. ASSUME NEW c \in Callers, Claim(c)
      PROVE  Flagged'
  BY <1>21 DEF Claim, Move, flags, runtime, caller, pass, history
<1>22. CASE UNCHANGED vars
  BY <1>22 DEF vars, flags, runtime, caller, pass, history
<1> HIDE DEF FInv, Flagged
<1> QED BY <1>1, <1>2, <1>3, <1>4, <1>5, <1>6, <1>7, <1>8, <1>9, <1>10, <1>11, <1>12, <1>13,
            <1>14, <1>15, <1>16, <1>17, <1>18, <1>19, <1>20, <1>21, <1>22 DEF Next, Call, Task, Terminated

\* No step lets a search go on that was not told.
LEMMA StepTold == FInv /\ [Next]_vars => Told'
<1> SUFFICES ASSUME FInv, [Next]_vars PROVE Told'
  OBVIOUS
<1> USE FitAssumption DEF FInv, TypeOK, Flagged, Told, Owning
<1>1. ASSUME NEW c \in Callers, Ask(c)
      PROVE  Told'
  BY <1>1 DEF Ask, Goto, Move, flags, runtime, caller, pass, history
<1>2. ASSUME NEW c \in Callers, Swap(c)
      PROVE  Told'
  BY <1>2 DEF Swap, Goto, Move, flags, runtime, caller, pass, history
<1>3. ASSUME NEW c \in Callers, SetRerun(c)
      PROVE  Told'
  BY <1>3 DEF SetRerun, Goto, Move, flags, runtime, caller, pass, history
<1>4. ASSUME NEW c \in Callers, AddGeneration(c)
      PROVE  Told'
  BY <1>4 DEF AddGeneration, Goto, Move, flags, runtime, caller, pass, history
<1>5. ASSUME NEW c \in Callers, NotifyWaiters(c)
      PROVE  Told'
  BY <1>5 DEF NotifyWaiters, Goto, Move, flags, runtime, caller, pass, history
<1>6. ASSUME NEW c \in Callers, Poll(c)
      PROVE  Told'
  BY <1>6 DEF Poll, Goto, Move, flags, runtime, caller, pass, history
<1>7. ASSUME NEW c \in Callers, Acquire(c)
      PROVE  Told'
  BY <1>7 DEF Acquire, Goto, Move, flags, runtime, caller, pass, history
<1>8. ASSUME NEW c \in Callers, Finish(c)
      PROVE  Told'
  BY <1>8 DEF Finish, Goto, Move, flags, runtime, caller, pass, history
<1>9. ASSUME NEW c \in Callers, Unlock(c)
      PROVE  Told'
  BY <1>9 DEF Unlock, Goto, Move, flags, runtime, caller, pass, history
<1>10. ASSUME NEW c \in Callers, ClearRerun(c)
      PROVE  Told'
  BY <1>10 DEF ClearRerun, Move, flags, runtime, caller, pass, history
<1>11. ASSUME NEW c \in Callers, Begin(c)
      PROVE  Told'
  BY <1>11 DEF Begin, Move, flags, runtime, caller, pass, history
<1>12. ASSUME NEW c \in Callers, NextModel(c)
      PROVE  Told'
  BY <1>12 DEF NextModel, Move, flags, runtime, caller, pass, history
<1>13. ASSUME NEW c \in Callers, Enable(c)
      PROVE  Told'
  BY <1>13 DEF Enable, Move, flags, runtime, caller, pass, history
<1>14. ASSUME NEW c \in Callers, Check(c)
      PROVE  Told'
  BY <1>14 DEF Check, Move, flags, runtime, caller, pass, history
<1>15. ASSUME NEW c \in Callers, MarkSearching(c)
      PROVE  Told'
  BY <1>15 DEF MarkSearching, Move, flags, runtime, caller, pass, history
<1>16. ASSUME NEW c \in Callers, Select(c)
      PROVE  Told'
  BY <1>16 DEF Select, Move, flags, runtime, caller, pass, history
<1>17. ASSUME NEW c \in Callers, EndSearch(c)
      PROVE  Told'
  BY <1>17 DEF EndSearch, Move, flags, runtime, caller, pass, history
<1>18. ASSUME NEW c \in Callers, EndPass(c)
      PROVE  Told'
  BY <1>18 DEF EndPass, Move, flags, runtime, caller, pass, history
<1>19. ASSUME NEW c \in Callers, Release(c)
      PROVE  Told'
  BY <1>19 DEF Release, Move, flags, runtime, caller, pass, history
<1>20. ASSUME NEW c \in Callers, LastLook(c)
      PROVE  Told'
  BY <1>20 DEF LastLook, Move, flags, runtime, caller, pass, history
<1>21. ASSUME NEW c \in Callers, Claim(c)
      PROVE  Told'
  BY <1>21 DEF Claim, Move, flags, runtime, caller, pass, history
<1>22. CASE UNCHANGED vars
  BY <1>22 DEF vars, flags, runtime, caller, pass, history
<1> HIDE DEF FInv, Told
<1> QED BY <1>1, <1>2, <1>3, <1>4, <1>5, <1>6, <1>7, <1>8, <1>9, <1>10, <1>11, <1>12, <1>13,
            <1>14, <1>15, <1>16, <1>17, <1>18, <1>19, <1>20, <1>21, <1>22 DEF Next, Call, Task, Terminated

\* No step loses what will lead to a pass.
LEMMA StepServed == FInv /\ [Next]_vars => Served'
<1> SUFFICES ASSUME FInv, [Next]_vars PROVE Served'
  OBVIOUS
<1> USE FitAssumption DEF FInv, TypeOK, Flagged, Told, Served, Owning, Waiting, Late, Again,
     Beginning, Passing
<1>1. ASSUME NEW c \in Callers, Ask(c)
      PROVE  Served'
  BY <1>1 DEF Ask, Goto, Move, flags, runtime, caller, pass, history
<1>2. ASSUME NEW c \in Callers, Swap(c)
      PROVE  Served'
  BY <1>2 DEF Swap, Goto, Move, flags, runtime, caller, pass, history
<1>3. ASSUME NEW c \in Callers, SetRerun(c)
      PROVE  Served'
  BY <1>3 DEF SetRerun, Goto, Move, flags, runtime, caller, pass, history
<1>4. ASSUME NEW c \in Callers, AddGeneration(c)
      PROVE  Served'
  BY <1>4 DEF AddGeneration, Goto, Move, flags, runtime, caller, pass, history
<1>5. ASSUME NEW c \in Callers, NotifyWaiters(c)
      PROVE  Served'
  BY <1>5 DEF NotifyWaiters, Goto, Move, flags, runtime, caller, pass, history
<1>6. ASSUME NEW c \in Callers, Poll(c)
      PROVE  Served'
  BY <1>6 DEF Poll, Goto, Move, flags, runtime, caller, pass, history
<1>7. ASSUME NEW c \in Callers, Acquire(c)
      PROVE  Served'
  BY <1>7 DEF Acquire, Goto, Move, flags, runtime, caller, pass, history
<1>8. ASSUME NEW c \in Callers, Finish(c)
      PROVE  Served'
  BY <1>8 DEF Finish, Goto, Move, flags, runtime, caller, pass, history
<1>9. ASSUME NEW c \in Callers, Unlock(c)
      PROVE  Served'
  BY <1>9 DEF Unlock, Goto, Move, flags, runtime, caller, pass, history
<1>10. ASSUME NEW c \in Callers, ClearRerun(c)
      PROVE  Served'
  BY <1>10, SMTT(40) DEF ClearRerun, Move, flags, runtime, caller, pass, history
<1>11. ASSUME NEW c \in Callers, Begin(c)
      PROVE  Served'
  BY <1>11, SMTT(40) DEF Begin, Move, flags, runtime, caller, pass, history
<1>12. ASSUME NEW c \in Callers, NextModel(c)
      PROVE  Served'
  BY <1>12, SMTT(40) DEF NextModel, Move, flags, runtime, caller, pass, history
<1>13. ASSUME NEW c \in Callers, Enable(c)
      PROVE  Served'
  BY <1>13 DEF Enable, Move, flags, runtime, caller, pass, history
<1>14. ASSUME NEW c \in Callers, Check(c)
      PROVE  Served'
  BY <1>14 DEF Check, Move, flags, runtime, caller, pass, history
<1>15. ASSUME NEW c \in Callers, MarkSearching(c)
      PROVE  Served'
  BY <1>15 DEF MarkSearching, Move, flags, runtime, caller, pass, history
<1>16. ASSUME NEW c \in Callers, Select(c)
      PROVE  Served'
  BY <1>16 DEF Select, Move, flags, runtime, caller, pass, history
<1>17. ASSUME NEW c \in Callers, EndSearch(c)
      PROVE  Served'
  BY <1>17 DEF EndSearch, Move, flags, runtime, caller, pass, history
<1>18. ASSUME NEW c \in Callers, EndPass(c)
      PROVE  Served'
  BY <1>18 DEF EndPass, Move, flags, runtime, caller, pass, history
<1>19. ASSUME NEW c \in Callers, Release(c)
      PROVE  Served'
  BY <1>19 DEF Release, Move, flags, runtime, caller, pass, history
<1>20. ASSUME NEW c \in Callers, LastLook(c)
      PROVE  Served'
  BY <1>20 DEF LastLook, Move, flags, runtime, caller, pass, history
<1>21. ASSUME NEW c \in Callers, Claim(c)
      PROVE  Served'
  BY <1>21 DEF Claim, Move, flags, runtime, caller, pass, history
<1>22. CASE UNCHANGED vars
  BY <1>22 DEF vars, flags, runtime, caller, pass, history
<1> HIDE DEF FInv, Served
<1> QED BY <1>1, <1>2, <1>3, <1>4, <1>5, <1>6, <1>7, <1>8, <1>9, <1>10, <1>11, <1>12, <1>13,
            <1>14, <1>15, <1>16, <1>17, <1>18, <1>19, <1>20, <1>21, <1>22 DEF Next, Call, Task, Terminated

-----------------------------------------------------------------------------
LEMMA InitInv == Init => FInv
<1> SUFFICES ASSUME Init PROVE FInv
  OBVIOUS
<1> USE FitAssumption DEF Init
<1>1. /\ Cardinality(Callers) \in Nat
      /\ Cardinality(Counted) \in Nat
  <2>1. Counted \subseteq Callers
    BY DEF Counted
  <2> QED
    BY <2>1, FS_Subset, FS_CardinalityType
<1>2. 0 \in 0..Cardinality(Callers) /\ 0 <= Cardinality(Counted)
  BY <1>1
<1>3. TypeOK
  BY <1>2 DEF TypeOK
<1>4. Cancelled
  BY <1>2 DEF Cancelled
<1>5. Flagged /\ Told /\ Served
  BY DEF Flagged, Owning, Told, Served
<1> QED
  BY <1>3, <1>4, <1>5 DEF FInv

\* One task has the flags, a search under a cancel has been told, and every trigger leaves
\* somebody who will make its pass; the parts are preserved together.
THEOREM Preparing == Spec => []FInv
<1>1. FInv /\ [Next]_vars => FInv'
  BY StepTypeOK, StepCancelled, StepFlagged, StepTold, StepServed DEF FInv
<1> QED
  BY InitInv, <1>1, PTL DEF Spec

\* Every variable of the search keeps its type, and its generation counts callers.
THEOREM FitPreparationTypeOK == Spec => []TypeOK
<1>1. FInv => TypeOK
  BY DEF FInv
<1> QED
  BY Preparing, <1>1, PTL

\* For any number of triggers one task searches at a time, also when one of them takes
\* over what another has just given up, and the flag cancel waits for is its own.
THEOREM FitPreparationOneSearch == Spec => []OneSearch
<1>1. FInv => OneSearch
  <2> SUFFICES ASSUME FInv PROVE OneSearch
    OBVIOUS
  <2> DEFINE Active == {t \in Callers : task[t] \notin {"none", "release", "last",
                                                        "claim", "over"}}
  <2>1. ASSUME NEW t \in Active, NEW u \in Active PROVE t = u
    BY DEF FInv, TypeOK, Flagged, Owning
  <2>2. Active = {} \/ \E t \in Active : Active = {t}
    BY <2>1
  <2>3. Cardinality(Active) <= 1
    <3> HIDE DEF Active
    <3>1. CASE Active = {}
      BY <3>1, FS_EmptySet
    <3>2. ASSUME NEW t \in Active, Active = {t} PROVE Cardinality(Active) <= 1
      BY <3>2, FS_Singleton
    <3> QED
      BY <2>2, <3>1, <3>2
  <2>4. searching = \E t \in Callers : task[t] \in {"search", "found", "dropped"}
    BY Zenon DEF FInv, TypeOK, Flagged
  <2> QED
    BY <2>3, <2>4 DEF OneSearch
<1> QED
  BY Preparing, <1>1, PTL

\* A search under a load or a calibration has been told to stop, unless it was let in
\* behind the cancel, in any order of the generation, the waiters and the lock.
THEOREM FitPreparationNoSearchUnderLoad == Spec => []NoSearchUnderLoad
<1>1. FInv => NoSearchUnderLoad
  BY DEF FInv, TypeOK, Told, NoSearchUnderLoad
<1> QED
  BY Preparing, <1>1, PTL

\* Once everything is quiet with nothing loaded the fits are those of the last trigger,
\* unless a model in memory or a lock held cut a pass short, or a rerun came too late.
THEOREM FitPreparationPreparedWhenQuiet == Spec => []PreparedWhenQuiet
<1>1. FInv => PreparedWhenQuiet
  <2> SUFFICES ASSUME FInv, Quiet, ~loaded, \E c \in Callers : kind[c] # None
               PROVE  prepared = Models \/ missed \/ cutShort
    BY DEF PreparedWhenQuiet
  <2>1. ~Waiting /\ ~Late
    BY DEF Quiet, Waiting, Late
  <2>2. ~Again /\ ~Beginning /\ ~Passing
    BY DEF Quiet, Again, Beginning, Passing, Owning
  <2> QED
    BY <2>1, <2>2 DEF FInv, Served
<1> QED
  BY Preparing, <1>1, PTL

-----------------------------------------------------------------------------
(* LaunchPolicy and Recommend, whose operators have no state: what they      *)
(* promise of any load and of any advice.                                    *)

Launch == INSTANCE LaunchPolicy
Advice == INSTANCE Recommend

\* Any load: a model of a MiB or more, whose tokens take memory at eight bits too, and a fit
\* that found no more than the window it was asked for.
Precise == {"f16", "q8_0"}
Settings ==
    [weights : {n \in Nat : n >= Launch!MiB}, kv : {n \in Nat : n >= 2},
     limit : Nat \ {0}, requested : Nat \ {0},
     vram : Nat \union {Launch!Unset}, used : Nat, ram : Nat,
     auto : BOOLEAN, keeps : BOOLEAN, kvPreference : Precise, draft : {"off", "auto", "head"},
     profile : Nat \union {Launch!Unset}, flash : BOOLEAN, threads : Nat, layers : Int, batch : Nat,
     devices : {"available", "none", "unknown"},
     found : [context : Nat \union {Launch!Unset}, cache : Precise, margin : Int,
              micro : Nat \union {Launch!Unset}, fit : {"all", "experts", "none"}, inRam : Nat,
              dropped : BOOLEAN]]
LoadCases == {w \in Settings : w.found.context <= Launch!Capped(w)}

\* The units of LaunchPolicy, in KiB.
LEMMA Sizes == Launch!MiB = 1024 /\ Launch!GiB = 1024 * 1024 /\ Launch!Unset = -1
BY DEF Launch!MiB, Launch!GiB, Launch!Unset

\* Least, Most and Minus are what their names say, for any two integers.
LEMMA Extremes ==
    ASSUME NEW a \in Int, NEW b \in Int
    PROVE  /\ Launch!Least(a, b) = (IF a < b THEN a ELSE b)
           /\ Launch!Most(a, b) = (IF a < b THEN b ELSE a)
           /\ Launch!Minus(a, b) = (IF a > b THEN a - b ELSE 0)
<1>1. \A x, y \in Int : Launch!Min({x, y}) = IF x < y THEN x ELSE y
  BY DEF Launch!Min
<1>2. \A x, y \in Int : Launch!Max({x, y}) = IF x < y THEN y ELSE x
  BY DEF Launch!Max
<1> QED BY <1>1, <1>2 DEF Launch!Least, Launch!Most, Launch!Minus

\* The element of a set that none exceeds is its Max.
LEMMA MaxIs ==
    ASSUME NEW S \in SUBSET Int, NEW m \in S, \A s \in S : s <= m
    PROVE  Launch!Max(S) = m
<1>1. Launch!Max(S) = CHOOSE x \in S : \A y \in S : x >= y
  BY DEF Launch!Max
<1>2. Launch!Max(S) \in S /\ \A y \in S : Launch!Max(S) >= y
  BY <1>1
<1>3. Launch!Max(S) \in Int /\ m \in Int /\ Launch!Max(S) <= m /\ Launch!Max(S) >= m
  BY <1>2
<1> QED BY <1>3

\* A quotient is the largest number of whole parts.
LEMMA Quotients ==
    ASSUME NEW a \in Nat, NEW b \in Nat \ {0}
    PROVE  a \div b \in Nat /\ (a \div b) * b <= a /\ a < (a \div b) * b + b
OBVIOUS

\* Products of natural numbers keep their order.
LEMMA Products ==
    /\ \A a, b \in Nat : a * b \in Nat /\ a * b = b * a
    /\ \A a, b, c \in Nat : a <= b => a * c <= b * c
    /\ \A a, b, c \in Nat : a * c < b * c => a < b
    /\ \A a, b \in Nat \ {0} : a * b >= a
<1>1. \A a, b, c \in Nat : a <= b => a * c <= b * c
  <2> SUFFICES ASSUME NEW a \in Nat, NEW b \in Nat, NEW c \in Nat, a <= b PROVE (b - a) * c >= 0
    OBVIOUS
  <2> DEFINE d == b - a
  <2>1. d \in Nat
    OBVIOUS
  <2> HIDE DEF d
  <2>2. d * c >= 0
    BY <2>1
  <2> QED BY <2>2 DEF d
<1>2. \A a, b, c \in Nat : a * c < b * c => a < b
  <2> SUFFICES ASSUME NEW a \in Nat, NEW b \in Nat, NEW c \in Nat, a * c < b * c, b <= a PROVE FALSE
    OBVIOUS
  <2>1. b * c <= a * c
    BY <1>1
  <2> QED BY <2>1
<1>3. \A a, b \in Nat \ {0} : a * b >= a
  BY <1>1
<1> QED BY <1>1, <1>2, <1>3

\* What the arithmetic below needs of a load.
LEMMA CaseFacts ==
    ASSUME NEW w \in LoadCases
    PROVE  /\ w.weights \in Nat /\ w.weights >= 1024 /\ w.kv \in Nat /\ w.kv >= 2
           /\ Launch!Capped(w) \in Nat \ {0} /\ w.ram \in Nat
           /\ w.found.context \in Int /\ w.found.context <= Launch!Capped(w)
<1>1. w.limit \in Nat \ {0} /\ w.requested \in Nat \ {0}
  BY DEF LoadCases, Settings
<1>2. Launch!Capped(w) \in Nat \ {0}
  BY <1>1, Extremes, SMTT(40) DEF Launch!Capped
<1> QED BY <1>2, Sizes DEF LoadCases, Settings

-----------------------------------------------------------------------------
(* The plan.                                                                 *)

\* A token takes some memory, at eight bits too.
LEMMA PerTokens ==
    ASSUME NEW w \in LoadCases, NEW cache \in Precise
    PROVE  Launch!PerToken(w, cache) \in Nat \ {0}
<1>1. (w.kv * 17) \div 32 \in Nat \ {0}
  BY CaseFacts
<1> QED BY <1>1, CaseFacts DEF Launch!PerToken

\* The windows of a request lie between the lowest one and the request, in steps of 1,024.
LEMMA Windowed ==
    ASSUME NEW context \in Nat \ {0}
    PROVE  /\ Launch!LowestContext(context) \in 1..context
           /\ context \in Launch!Windows(context)
           /\ \A c \in Launch!Windows(context) :
                 /\ c \in Nat /\ Launch!LowestContext(context) <= c /\ c <= context
                 /\ c = context \/ \E i \in Nat : c = 1024 * i
           /\ \A i \in Nat : 1024 * i <= context /\ Launch!LowestContext(context) <= 1024 * i =>
                 1024 * i \in Launch!Windows(context)
<1>1. Launch!LowestContext(context) \in 1..context
  BY Extremes DEF Launch!LowestContext
<1>2. context \div 1024 \in Nat /\ \A i \in Nat : i <= context \div 1024 <=> 1024 * i <= context
  OBVIOUS
<1>3. Launch!Windows(context) =
         {context} \union {c \in {1024 * i : i \in 1..(context \div 1024)} : c >= Launch!LowestContext(context)}
  BY DEF Launch!Windows
<1> DEFINE lowest == Launch!LowestContext(context)
<1> HIDE DEF lowest
<1>4. ASSUME NEW c \in Launch!Windows(context)
      PROVE  /\ c \in Nat /\ lowest <= c /\ c <= context
             /\ c = context \/ \E i \in Nat : c = 1024 * i
  BY <1>1, <1>2, <1>3, <1>4 DEF lowest
<1>5. ASSUME NEW i \in Nat, 1024 * i <= context, lowest <= 1024 * i
      PROVE  1024 * i \in Launch!Windows(context)
  <2>1. i \in 1..(context \div 1024)
    BY <1>1, <1>2, <1>5 DEF lowest
  <2> QED BY <1>1, <1>3, <1>5, <2>1 DEF lowest
<1> QED BY <1>1, <1>3, <1>4, <1>5 DEF lowest

\* The largest window whose cache has room, if one has.
LEMMA LargestIs ==
    ASSUME NEW w \in LoadCases, NEW context \in Nat \ {0}, NEW room \in Nat, NEW cache \in Precise
    PROVE  LET c == Launch!Largest(w, context, room, cache)
               Held(x) == Launch!Cache(w, x, cache) <= room
           IN /\ c # Launch!Unset => c \in Launch!Windows(context) /\ Held(c)
              /\ \A x \in Launch!Windows(context) : Held(x) => c # Launch!Unset /\ x <= c
<1> DEFINE each == Launch!PerToken(w, cache)
           fitting == room \div each
           tokens == Launch!Least(fitting, context)
           steps == tokens \div 1024
           stepped == IF tokens >= context THEN context ELSE steps * 1024
           lowest == Launch!LowestContext(context)
           c == Launch!Largest(w, context, room, cache)
           Held(x) == Launch!Cache(w, x, cache) <= room
<1>1. each \in Nat \ {0}
  BY PerTokens
<1>2. Launch!Most(each, 1) = each
  BY <1>1, Extremes
<1>3. c = IF stepped >= lowest THEN stepped ELSE Launch!Unset
  BY <1>2 DEF Launch!Largest
<1>4. \A x : Launch!Cache(w, x, cache) = each * x
  BY DEF Launch!Cache
<1> HIDE DEF each, c
<1>5. fitting \in Nat /\ fitting * each <= room /\ room < fitting * each + each
  BY <1>1, Quotients
<1> HIDE DEF fitting
<1>6. ASSUME NEW x \in Nat PROVE Held(x) <=> x <= fitting
  <2>1. each * x = x * each /\ x * each \in Nat
    BY <1>1, Products
  <2>2. ASSUME x <= fitting PROVE Held(x)
    <3>1. x * each <= fitting * each
      BY <1>1, <1>5, <2>2, Products
    <3> QED BY <1>1, <1>4, <1>5, <2>1, <3>1, Products
  <2>3. ASSUME Held(x) PROVE x <= fitting
    <3>1. fitting * each + each = (fitting + 1) * each
      BY <1>1, <1>5
    <3>2. x * each < (fitting + 1) * each
      BY <1>4, <1>5, <2>1, <2>3, <3>1, <1>1, Products
    <3>3. x < fitting + 1
      BY <1>1, <1>5, <3>2, Products
    <3> QED BY <1>5, <3>3
  <2> QED BY <2>2, <2>3
<1> HIDE DEF Held
<1>7. tokens = IF fitting < context THEN fitting ELSE context
  BY <1>5, Extremes
<1> HIDE DEF tokens
<1>8. tokens \in Nat /\ steps \in Nat /\ steps * 1024 <= tokens /\ \A i \in Nat : 1024 * i <= tokens => i <= steps
  BY <1>5, <1>7
<1> HIDE DEF steps
<1>9. lowest \in 1..context /\ context \in Launch!Windows(context)
      /\ \A x \in Launch!Windows(context) :
            x \in Nat /\ lowest <= x /\ x <= context /\ (x = context \/ \E i \in Nat : x = 1024 * i)
      /\ \A i \in Nat : 1024 * i <= context /\ lowest <= 1024 * i => 1024 * i \in Launch!Windows(context)
  BY Windowed
<1> HIDE DEF lowest
<1>10. ASSUME c # Launch!Unset PROVE c \in Launch!Windows(context) /\ Held(c)
  <2>1. c = stepped /\ stepped >= lowest
    BY <1>3, <1>10
  <2>2. CASE tokens >= context
    BY <1>5, <1>6, <1>7, <1>9, <2>1, <2>2
  <2>3. CASE tokens < context
    <3>1. c = 1024 * steps /\ c <= tokens /\ lowest <= c /\ c \in Nat
      BY <1>8, <1>9, <2>1, <2>3
    <3>2. c <= fitting /\ c <= context
      BY <1>5, <1>7, <1>8, <2>3, <3>1
    <3> QED BY <1>6, <1>8, <1>9, <3>1, <3>2
  <2> QED BY <1>8, <2>2, <2>3
<1>11. ASSUME NEW x \in Launch!Windows(context), Held(x) PROVE c # Launch!Unset /\ x <= c
  <2>1. x \in Nat /\ lowest <= x /\ x <= context /\ x <= fitting
    BY <1>6, <1>9, <1>11
  <2>2. x <= tokens
    BY <1>5, <1>7, <2>1
  <2>3. x <= stepped /\ stepped \in Nat
    <3>1. CASE tokens >= context
      BY <2>1, <3>1
    <3>2. CASE tokens < context
      <4>1. PICK i \in Nat : x = 1024 * i
        BY <1>8, <1>9, <2>2, <3>2
      <4>2. i <= steps
        BY <1>8, <2>2, <4>1
      <4> QED BY <1>8, <3>2, <4>1, <4>2
    <3> QED BY <1>8, <3>1, <3>2
  <2> HIDE DEF stepped
  <2>4. stepped >= lowest
    BY <1>9, <2>1, <2>3
  <2> QED BY <1>3, <2>3, <2>4, Sizes
<1> QED BY <1>10, <1>11 DEF c, Held

\* The precisions tried are the preferred one and eight bits.
LEMMA Precisions ==
    ASSUME NEW w \in LoadCases
    PROVE  /\ Launch!ToSet(Launch!Precisions(w.kvPreference)) = {w.kvPreference, "q8_0"}
           /\ w.kvPreference \in Precise /\ "q8_0" \in Precise
<1>1. w.kvPreference \in {"f16", "q8_0"}
  BY DEF LoadCases, Settings, Precise
<1>2. \A p : Launch!ToSet(<<p, "q8_0">>) = {p, "q8_0"}
  BY DEF Launch!ToSet
<1>3. Launch!ToSet(<<"q8_0">>) = {"q8_0"}
  BY DEF Launch!ToSet
<1> QED BY <1>1, <1>2, <1>3 DEF Launch!Precisions, Precise

\* The budget is free memory without the compute buffers and the safety margin.
LEMMA Room ==
    ASSUME NEW w \in LoadCases
    PROVE  /\ Launch!Budget(w) \in Nat /\ Launch!Safety(w) \in Nat /\ Launch!FreeVram(w) \in Nat
           /\ Launch!Compute(w) \in Nat /\ Launch!Compute(w) >= 768 * 1024
           /\ Launch!Budget(w) > 0 =>
                 Launch!Budget(w) + Launch!Safety(w) + Launch!Compute(w) = Launch!FreeVram(w)
<1>1. w.vram \in Int /\ w.used \in Nat
  BY Sizes DEF LoadCases, Settings
<1>2. Launch!FreeVram(w) \in Nat
  BY <1>1, Extremes DEF Launch!FreeVram
<1>3. Launch!Compute(w) \in Nat /\ Launch!Compute(w) >= 768 * 1024
  <2> DEFINE a == w.weights \div 12
             b == 768 * Launch!MiB
  <2>1. a \in Nat /\ b \in Nat /\ b = 768 * 1024
    BY CaseFacts, Sizes
  <2>2. Launch!Compute(w) = Launch!Most(a, b)
    BY DEF Launch!Compute
  <2> HIDE DEF a, b
  <2>3. Launch!Most(a, b) = IF a < b THEN b ELSE a
    BY <2>1, Extremes
  <2> QED BY <2>1, <2>2, <2>3
<1>4. Launch!Safety(w) \in Nat
  <2> DEFINE a == w.vram \div 48
             b == 256 * Launch!MiB
  <2>1. a \in Int /\ b \in Nat
    BY <1>1, Sizes
  <2>2. Launch!Safety(w) = Launch!Most(a, b)
    BY DEF Launch!Safety
  <2> HIDE DEF a, b
  <2>3. Launch!Most(a, b) = IF a < b THEN b ELSE a
    BY <2>1, Extremes
  <2> QED BY <2>1, <2>2, <2>3
<1>5. Launch!Minus(Launch!FreeVram(w), Launch!Compute(w)) \in Nat
  BY <1>2, <1>3, Extremes
<1> QED BY <1>2, <1>3, <1>4, <1>5, Extremes DEF Launch!Budget

\* A window takes some memory.
LEMMA Cached ==
    ASSUME NEW w \in LoadCases, NEW cache \in Precise, NEW c \in Nat \ {0}
    PROVE  Launch!Cache(w, c, cache) \in Nat \ {0}
<1>1. Launch!PerToken(w, cache) \in Nat \ {0}
  BY PerTokens
<1> QED BY <1>1, Products DEF Launch!Cache

\* A plan of fit_to_memory for the GPU has the largest window that fits at some precision,
\* at the preferred one if that holds it too; no plan is only where no window fits.
LEMMA GpuPlans ==
    ASSUME NEW w \in LoadCases, NEW context \in Nat \ {0}
    PROVE  LET plans == Launch!OnGpu(w, context, w.kvPreference)
               Fit(c) == \E p \in {w.kvPreference, "q8_0"} : Launch!FitsGpu(w, c, p)
           IN /\ \A plan \in plans :
                    /\ plan.placement = "gpu" /\ plan.cache \in {w.kvPreference, "q8_0"}
                    /\ plan.context \in Launch!Windows(context) /\ Launch!FitsGpu(w, plan.context, plan.cache)
                    /\ \A c \in Launch!Windows(context) : Fit(c) => c <= plan.context
                    /\ Launch!FitsGpu(w, plan.context, w.kvPreference) => plan.cache = w.kvPreference
              /\ plans = {} => \A c \in Launch!Windows(context) : ~Fit(c)
<1> DEFINE plans == Launch!OnGpu(w, context, w.kvPreference)
           pref == w.kvPreference
           caches == {pref, "q8_0"}
           room == Launch!Budget(w) - w.weights
           Longest(p) == Launch!Largest(w, context, room, p)
           every == {Launch!Plan(Longest(p), p, "gpu") : p \in caches}
           longest == Launch!Max({p.context : p \in every})
           best == {p \in every : p.context = longest}
<1>1. plans = IF room < 0 \/ longest = Launch!Unset THEN {}
              ELSE IF \E p \in best : p.cache = pref THEN {p \in best : p.cache = pref} ELSE best
  BY Precisions DEF Launch!OnGpu
<1>2. pref \in Precise /\ "q8_0" \in Precise /\ room \in Int /\ Launch!Budget(w) \in Nat /\ w.weights \in Nat
  BY Precisions, Room, CaseFacts
<1>3. ASSUME NEW c \in Launch!Windows(context), NEW p \in Precise
      PROVE  /\ Launch!Cache(w, c, p) \in Nat
             /\ Launch!FitsGpu(w, c, p) <=> Launch!Cache(w, c, p) <= room
  <2>1. c \in Nat \ {0}
    BY Windowed
  <2>2. Launch!Cache(w, c, p) \in Nat
    BY <2>1, Cached
  <2> QED BY <1>2, <2>2 DEF Launch!FitsGpu
<1>4. CASE room < 0
  <2>1. plans = {}
    BY <1>1, <1>4
  <2>2. \A c \in Launch!Windows(context), p \in caches : ~Launch!FitsGpu(w, c, p)
    BY <1>2, <1>3, <1>4
  <2> QED BY <2>1, <2>2
<1>5. CASE room >= 0
  <2>1. room \in Nat
    BY <1>2, <1>5
  <2> HIDE DEF room
  <2>2. ASSUME NEW p \in caches
        PROVE  /\ Longest(p) # Launch!Unset =>
                     Longest(p) \in Launch!Windows(context) /\ Launch!FitsGpu(w, Longest(p), p)
               /\ \A c \in Launch!Windows(context) :
                     Launch!FitsGpu(w, c, p) => Longest(p) # Launch!Unset /\ c <= Longest(p)
    BY <1>2, <1>3, <2>1, LargestIs
  <2> HIDE DEF Longest
  <2>3. \A c \in Launch!Windows(context) : c \in Nat
    BY Windowed
  <2>4. \A p \in caches : Longest(p) \in Int /\ (Longest(p) = Launch!Unset \/ Longest(p) \in Nat)
    BY <2>2, <2>3, Sizes
  <2>5. {p.context : p \in every} = {Longest(pref), Longest("q8_0")}
    <3>1. every = {Launch!Plan(Longest(pref), pref, "gpu"), Launch!Plan(Longest("q8_0"), "q8_0", "gpu")}
      OBVIOUS
    <3>2. \A c, p : Launch!Plan(c, p, "gpu").context = c
      BY DEF Launch!Plan
    <3> HIDE DEF every
    <3> QED BY <3>1, <3>2
  <2>6. /\ longest = Longest(pref) \/ longest = Longest("q8_0")
        /\ Longest(pref) <= longest /\ Longest("q8_0") <= longest /\ longest \in Int
    <3> DEFINE a == Longest(pref)
               b == Longest("q8_0")
    <3>1. a \in Int /\ b \in Int
      BY <2>4
    <3> HIDE DEF a, b
    <3>2. Launch!Max({a, b}) = IF a < b THEN b ELSE a
      BY <3>1 DEF Launch!Max
    <3> QED BY <2>5, <3>1, <3>2 DEF a, b
  <2> HIDE DEF longest
  <2>7. \A e : e \in every <=> \E p \in caches : e = [context |-> Longest(p), cache |-> p, placement |-> "gpu"]
    BY DEF Launch!Plan
  <2> HIDE DEF every
  <2>8. ASSUME NEW plan \in plans
        PROVE  /\ plan.placement = "gpu" /\ plan.cache \in caches
               /\ plan.context = Longest(plan.cache) /\ plan.context = longest
               /\ longest # Launch!Unset
               /\ Longest(pref) = longest => plan.cache = pref
    <3>1. longest # Launch!Unset /\ plan \in best
      BY <1>1, <2>8
    <3>2. PICK p \in caches : plan = [context |-> Longest(p), cache |-> p, placement |-> "gpu"]
      BY <2>7, <3>1
    <3>3. ASSUME Longest(pref) = longest PROVE plan.cache = pref
      <4>1. [context |-> Longest(pref), cache |-> pref, placement |-> "gpu"] \in best
        BY <2>7, <3>3
      <4>2. \E e \in best : e.cache = pref
        BY <4>1
      <4> QED BY <1>1, <2>8, <4>2
    <3> QED BY <3>1, <3>2, <3>3
  <2>9. ASSUME NEW plan \in plans
        PROVE  /\ plan.placement = "gpu" /\ plan.cache \in caches
               /\ plan.context \in Launch!Windows(context) /\ Launch!FitsGpu(w, plan.context, plan.cache)
               /\ \A c \in Launch!Windows(context), p \in caches :
                     Launch!FitsGpu(w, c, p) => c <= plan.context
               /\ Launch!FitsGpu(w, plan.context, pref) => plan.cache = pref
    <3>1. /\ plan.context \in Launch!Windows(context) /\ Launch!FitsGpu(w, plan.context, plan.cache)
          /\ plan.context = longest
      BY <2>2, <2>8
    <3>2. ASSUME NEW c \in Launch!Windows(context), NEW p \in caches, Launch!FitsGpu(w, c, p)
          PROVE  c <= plan.context
      <4>1. c <= Longest(p) /\ Longest(p) \in Int /\ Longest(p) <= longest /\ c \in Nat
        BY <2>2, <2>3, <2>4, <2>6, <3>2
      <4> QED BY <2>6, <3>1, <4>1
    <3>3. ASSUME Launch!FitsGpu(w, plan.context, pref) PROVE plan.cache = pref
      <4>1. plan.context <= Longest(pref) /\ Longest(pref) <= longest /\ Longest(pref) \in Int
        BY <2>2, <2>4, <2>6, <3>1, <3>3
      <4>2. Longest(pref) = longest
        BY <2>6, <3>1, <4>1
      <4> QED BY <2>8, <4>2
    <3> QED BY <1>2, <2>8, <3>1, <3>2, <3>3
  <2>10. ASSUME plans = {}, NEW c \in Launch!Windows(context), NEW p \in caches, Launch!FitsGpu(w, c, p)
         PROVE  FALSE
    <3>1. Longest(p) # Launch!Unset /\ Longest(p) \in Nat /\ Longest(p) <= longest
      BY <2>2, <2>4, <2>6, <2>10
    <3>2. longest # Launch!Unset
      BY <2>6, <3>1, Sizes
    <3>3. \E q \in caches : longest = Longest(q)
      BY <2>6
    <3>4. best # {}
      <4>1. PICK q \in caches : longest = Longest(q)
        BY <3>3
      <4> DEFINE e == [context |-> Longest(q), cache |-> q, placement |-> "gpu"]
      <4>2. e \in every /\ e.context = longest
        BY <2>7, <4>1
      <4> QED BY <4>2
    <3>5. plans # {}
      BY <1>1, <2>1, <3>2, <3>4 DEF room
    <3> QED BY <2>10, <3>5
  <2> QED BY <2>9, <2>10
<1> QED BY <1>2, <1>4, <1>5

\* A plan that keeps part of the weights in RAM fits into budget and RAM together, or is told
\* to be oversubscribed.
LEMMA HybridFits ==
    ASSUME NEW w \in LoadCases, NEW context \in Nat \ {0}
    PROVE  LET plan == Launch!Hybrid(w, context)
           IN /\ plan.placement \in {"hybrid", "oversubscribed"}
              /\ plan.cache = "q8_0" /\ plan.context \in 1..context
              /\ plan.placement = "hybrid" =>
                    w.weights + Launch!Cache(w, plan.context, plan.cache) <= Launch!Budget(w) + w.ram
<1> DEFINE found == Launch!Largest(w, context, Launch!Budget(w) \div 4, "q8_0")
           held == IF found = Launch!Unset THEN Launch!LowestContext(context) ELSE found
           cache == Launch!Cache(w, held, "q8_0")
           left == Launch!Minus(Launch!Budget(w), cache)
           inRam == Launch!Minus(w.weights, left)
           whole == Launch!Most(w.weights \div 1024, 1)
           share == ((cache \div 1024) * (inRam \div 1024)) \div whole
           needed == inRam + share * 1024
           ramBudget == Launch!Minus(Launch!Minus(w.ram, w.ram \div 8), Launch!Compute(w) \div 2)
           plan == Launch!Hybrid(w, context)
<1>1. plan = [context |-> held, cache |-> "q8_0", placement |-> IF needed > ramBudget THEN "oversubscribed" ELSE "hybrid"]
  BY Sizes DEF Launch!Hybrid, Launch!Plan
<1> HIDE DEF plan
<1>2. "q8_0" \in Precise
  BY DEF Precise
<1>3. held \in Nat \ {0} /\ held <= context
  <2>1. Launch!Budget(w) \div 4 \in Nat
    BY Room
  <2>2. found # Launch!Unset => found \in Launch!Windows(context)
    BY <1>2, <2>1, LargestIs
  <2> HIDE DEF found
  <2>3. Launch!LowestContext(context) \in Nat \ {0} /\ Launch!LowestContext(context) <= context
    BY Windowed
  <2>4. \A c \in Launch!Windows(context) :
           c \in Nat /\ Launch!LowestContext(context) <= c /\ c <= context
    BY Windowed
  <2> QED BY <2>2, <2>3, <2>4
<1> HIDE DEF held
<1>4. cache \in Nat
  BY <1>2, <1>3, Cached
<1> HIDE DEF cache
<1>6. left \in Nat /\ (cache <= Launch!Budget(w) => left = Launch!Budget(w) - cache)
      /\ (cache > Launch!Budget(w) => left = 0)
  BY <1>4, Room, Extremes, SMTT(40)
<1> HIDE DEF left
<1>7. inRam \in Nat /\ w.weights <= inRam + left /\ (left = 0 => inRam = w.weights)
  <2>1. w.weights \in Nat /\ left \in Nat
    BY <1>6, CaseFacts
  <2>2. inRam = IF w.weights > left THEN w.weights - left ELSE 0
    BY <2>1, Extremes
  <2> HIDE DEF inRam
  <2> QED BY <2>1, <2>2
<1> HIDE DEF inRam
<1>8. whole = w.weights \div 1024 /\ whole \in Nat \ {0}
  <2> DEFINE a == w.weights \div 1024
  <2>1. a \in Nat \ {0}
    BY CaseFacts
  <2> HIDE DEF a
  <2>2. Launch!Most(a, 1) = a
    BY <2>1, Extremes
  <2> QED BY <2>1, <2>2 DEF a
<1> HIDE DEF whole
<1>10. ramBudget \in Nat /\ (ramBudget > 0 => ramBudget + 384 * 1024 <= w.ram)
  <2> DEFINE a == w.ram \div 8
             b == Launch!Minus(w.ram, a)
             c == Launch!Compute(w) \div 2
  <2>1. w.ram \in Nat /\ a \in Nat /\ c \in Nat /\ c >= 384 * 1024
    BY CaseFacts, Room
  <2> HIDE DEF a, c
  <2>2. b = IF w.ram > a THEN w.ram - a ELSE 0
    BY <2>1, Extremes
  <2>3. b \in Nat /\ b <= w.ram
    BY <2>1, <2>2
  <2> HIDE DEF b
  <2>4. Launch!Minus(b, c) = IF b > c THEN b - c ELSE 0
    BY <2>1, <2>3, Extremes
  <2> QED BY <2>1, <2>3, <2>4 DEF a, b, c
<1> HIDE DEF ramBudget
<1>5. SUFFICES ASSUME needed <= ramBudget PROVE w.weights + cache <= Launch!Budget(w) + w.ram
  <2>1. plan.context = held /\ plan.cache = "q8_0" /\ Launch!Cache(w, held, "q8_0") = cache
        /\ plan.placement = (IF needed > ramBudget THEN "oversubscribed" ELSE "hybrid")
    BY <1>1 DEF cache
  <2>2. needed \in Int /\ ramBudget \in Int
    <3>1. share \in Nat
      <4>1. (cache \div 1024) * (inRam \div 1024) \in Nat
        BY <1>4, <1>7, Products
      <4> QED BY <1>8, <4>1, Quotients
    <3> HIDE DEF share
    <3> QED BY <1>7, <1>10, <3>1
  <2> QED BY <1>3, <1>5, <2>1, <2>2 DEF plan
<1>9. share \in Nat /\ (left = 0 => share = cache \div 1024)
  <2> DEFINE a == cache \div 1024
             b == inRam \div 1024
  <2>1. a \in Nat /\ b \in Nat /\ a * b \in Nat /\ (left = 0 => b = whole)
    BY <1>4, <1>7, <1>8, Products
  <2> HIDE DEF a, b
  <2>2. (a * b) \div whole \in Nat
    BY <1>8, <2>1, Quotients
  <2>3. (a * whole) \div whole = a
    BY <1>8, <2>1
  <2> QED BY <2>1, <2>2, <2>3 DEF a, b
<1> HIDE DEF share
<1>11. CASE cache <= Launch!Budget(w)
  <2>1. inRam <= needed
    BY <1>7, <1>9
  <2>2. inRam <= w.ram
    BY <1>5, <1>7, <1>9, <1>10, CaseFacts
  <2> QED BY <1>4, <1>6, <1>7, <1>11, <2>2, Room, CaseFacts
<1>12. CASE cache > Launch!Budget(w)
  <2>1. needed = w.weights + (cache \div 1024) * 1024
    BY <1>6, <1>7, <1>9, <1>12
  <2>2. cache < (cache \div 1024) * 1024 + 1024 /\ (cache \div 1024) * 1024 \in Nat
    BY <1>4
  <2>3. needed > 0 /\ needed \in Nat
    BY <2>1, <2>2, CaseFacts
  <2> HIDE DEF needed
  <2>4. needed + 384 * 1024 <= w.ram
    BY <1>5, <1>10, <2>3, CaseFacts
  <2> QED BY <1>4, <2>1, <2>2, <2>3, <2>4, Room, CaseFacts
<1> QED BY <1>4, <1>11, <1>12, Room

\* The plan is the best there is, whatever the model, the machine and the window.
LEMMA PlanIsBest ==
    ASSUME NEW w \in LoadCases
    PROVE  Launch!PlanIsBest(w)
<1> DEFINE context == Launch!Capped(w)
           pref == w.kvPreference
           plan == Launch!FitToMemory(w, context, pref)
           plans == Launch!OnGpu(w, context, pref)
           Fit(c) == \E p \in {pref, "q8_0"} : Launch!FitsGpu(w, c, p)
<1>1. context \in Nat \ {0} /\ pref \in Precise /\ "q8_0" \in Precise
  BY CaseFacts, Precisions
<1> HIDE DEF context
<1>2. Launch!Fitting(w) = {c \in Launch!Windows(context) : Fit(c)}
  BY Precisions DEF Launch!Fitting, context
<1>3. /\ context \in Launch!Windows(context)
      /\ \A c \in Launch!Windows(context) : c \in Nat \ {0} /\ c <= context
  BY <1>1, Windowed
<1>4. plan = IF Launch!FitsGpu(w, context, pref) THEN Launch!Plan(context, pref, "gpu")
             ELSE IF plans # {} THEN CHOOSE p \in plans : TRUE
             ELSE IF Launch!NearFit(w, context) THEN Launch!Plan(Launch!LowestContext(context), "q8_0", "gpu")
             ELSE Launch!Hybrid(w, context)
  BY DEF Launch!FitToMemory
<1>5. /\ \A p \in plans :
            /\ p.placement = "gpu" /\ p.cache \in {pref, "q8_0"}
            /\ p.context \in Launch!Windows(context) /\ Launch!FitsGpu(w, p.context, p.cache)
            /\ \A c \in Launch!Windows(context) : Fit(c) => c <= p.context
            /\ Launch!FitsGpu(w, p.context, pref) => p.cache = pref
      /\ plans = {} => \A c \in Launch!Windows(context) : ~Fit(c)
  BY <1>1, GpuPlans
<1> HIDE DEF plans, plan, pref, Fit
<1>6. ASSUME NEW c \in Launch!Windows(context), NEW p \in Precise,
             Launch!FitsGpu(w, c, p)
      PROVE  w.weights + Launch!Cache(w, c, p) + Launch!Compute(w) <= Launch!FreeVram(w)
  <2>1. Launch!Cache(w, c, p) \in Nat
    BY <1>3, Cached
  <2>2. Launch!FitsGpu(w, c, p) => w.weights + Launch!Cache(w, c, p) <= Launch!Budget(w)
    BY DEF Launch!FitsGpu
  <2>3. Launch!Budget(w) > 0
    BY <1>6, <2>1, <2>2, Room, CaseFacts
  <2> QED BY <1>6, <2>1, <2>2, <2>3, Room, CaseFacts
<1>7. ASSUME NEW c \in Launch!Windows(context), Fit(c),
             \A x \in Launch!Windows(context) : Fit(x) => x <= c
      PROVE  c = Launch!Max(Launch!Fitting(w))
  BY <1>2, <1>3, <1>7, MaxIs
<1>8. ASSUME NEW c \in Launch!Windows(context), NEW p \in Precise, Launch!FitsGpu(w, c, p),
             p \in {pref, "q8_0"}, plan.placement = "gpu", plan.context = c, plan.cache = p,
             \A x \in Launch!Windows(context) : Fit(x) => x <= c,
             Launch!FitsGpu(w, c, pref) => p = pref
      PROVE  Launch!BestPlan(w, plan)
  <2>1. Fit(c)
    BY <1>8 DEF Fit
  <2>2. c = Launch!Max(Launch!Fitting(w))
    BY <1>7, <1>8, <2>1
  <2>3. w.weights + Launch!Cache(w, c, p) + Launch!Compute(w) <= Launch!FreeVram(w)
    BY <1>6, <1>8
  <2> QED BY <1>8, <2>2, <2>3 DEF Launch!BestPlan, pref
<1>9. CASE Launch!FitsGpu(w, context, pref)
  <2>1. plan.placement = "gpu" /\ plan.context = context /\ plan.cache = pref
    BY <1>4, <1>9 DEF Launch!Plan
  <2>2. Launch!BestPlan(w, plan)
    BY <1>1, <1>3, <1>8, <1>9, <2>1
  <2> QED BY <2>2 DEF Launch!PlanIsBest, plan, context, pref
<1>10. CASE ~Launch!FitsGpu(w, context, pref) /\ plans # {}
  <2>1. plan \in plans
    BY <1>4, <1>10
  <2>2. Launch!BestPlan(w, plan)
    <3>1. plan.cache \in {pref, "q8_0"} /\ plan.cache \in Precise
      BY <1>1, <1>5, <2>1
    <3> QED BY <1>5, <1>8, <2>1, <3>1
  <2> QED BY <2>2 DEF Launch!PlanIsBest, plan, context, pref
<1>11. CASE ~Launch!FitsGpu(w, context, pref) /\ plans = {}
  <2>1. Launch!Fitting(w) = {}
    BY <1>2, <1>5, <1>11
  <2>2. CASE Launch!NearFit(w, context)
    <3>1. plan.placement = "gpu" /\ plan.context = Launch!LowestContext(context) /\ plan.cache = "q8_0"
      BY <1>4, <1>11, <2>2 DEF Launch!Plan
    <3>2. /\ w.weights <= Launch!Budget(w)
          /\ w.weights + Launch!Cache(w, plan.context, plan.cache) <= Launch!Budget(w) + Launch!Safety(w)
      BY <2>2, <3>1 DEF Launch!NearFit
    <3>3. Launch!Cache(w, plan.context, plan.cache) \in Nat
      BY <1>1, <3>1, Windowed, Cached
    <3>4. w.weights + Launch!Cache(w, plan.context, plan.cache) + Launch!Compute(w) <= Launch!FreeVram(w)
      BY <3>2, <3>3, Room, CaseFacts
    <3>5. Launch!BestPlan(w, plan)
      BY <2>1, <3>1, <3>4 DEF Launch!BestPlan
    <3> QED BY <3>5 DEF Launch!PlanIsBest, plan, context, pref
  <2>3. CASE ~Launch!NearFit(w, context)
    <3>1. plan = Launch!Hybrid(w, context)
      BY <1>4, <1>11, <2>3
    <3>2. /\ plan.placement \in {"hybrid", "oversubscribed"}
          /\ plan.placement = "hybrid" =>
                w.weights + Launch!Cache(w, plan.context, plan.cache) <= Launch!Budget(w) + w.ram
      BY <1>1, <3>1, HybridFits
    <3>3. Launch!BestPlan(w, plan)
      BY <2>1, <3>2 DEF Launch!BestPlan
    <3> QED BY <3>3 DEF Launch!PlanIsBest, plan, context, pref
  <2> QED BY <2>2, <2>3
<1> QED BY <1>9, <1>10, <1>11

-----------------------------------------------------------------------------
(* The load.                                                                 *)

\* RecordTellsLaunch of one load.
Truthful(load) ==
    /\ load.cfg.context = load.policy.context
    /\ load.cfg.k = load.policy.k /\ load.cfg.v = load.policy.v
    /\ load.cfg.threads = load.policy.threads
    /\ load.cfg.drafting = load.policy.drafting
    /\ load.cfg.layers = load.policy.layers /\ load.cfg.batch = load.policy.batch

\* The records EXCEPT changes have the fields it names.
Shaped(load) ==
    /\ DOMAIN load = {"policy", "cfg"}
    /\ DOMAIN load.cfg = {"context", "k", "v", "layers", "threads", "batchThreads", "batch", "flash",
                          "drafting", "micro", "mapped", "draftLength", "margin", "cacheRam", "offload"}
    /\ DOMAIN load.policy = {"context", "k", "v", "placement", "threads", "layers", "batch", "flash",
                             "drafting", "cpuCap"}

\* What every step from the plan to the attempts keeps, and what the next one needs of it.
Sound(w, load) ==
    /\ Truthful(load)
    /\ load.cfg.context \in 0..Launch!Capped(w) /\ load.cfg.batch \in Nat
    /\ load.cfg.micro \in Nat \union {Launch!Unset}
    /\ load.cfg.v = "q8_0" => load.cfg.flash # "off"
    /\ load.policy.placement # "cpu"
    /\ w.auto => load.cfg.flash = "auto" /\ load.policy.cpuCap = Launch!CpuCap(w)

\* Whatever branch of resolve_runtime_policy_for_machine makes it, a plan asks for no more than
\* the window that may be had.
LEMMA PlansAre ==
    ASSUME NEW w \in LoadCases
    PROVE  /\ Launch!Planned(w).context \in 1..Launch!Capped(w) /\ Launch!Planned(w).cache \in Precise
           /\ Launch!Planned(w).placement \in {"gpu", "hybrid", "oversubscribed", "unknown"}
<1> DEFINE context == Launch!Capped(w)
           pref == w.kvPreference
           plans == Launch!OnGpu(w, context, pref)
           plan == Launch!FitToMemory(w, context, pref)
<1>1. context \in Nat \ {0} /\ pref \in Precise /\ "q8_0" \in Precise
  BY CaseFacts, Precisions
<1>2. Launch!Planned(w) =
         IF w.auto /\ w.vram > 0 THEN plan
         ELSE Launch!Plan(context, pref, IF w.auto /\ w.vram # Launch!Unset THEN "gpu" ELSE "unknown")
  BY DEF Launch!Planned
<1>3. plan = IF Launch!FitsGpu(w, context, pref) THEN Launch!Plan(context, pref, "gpu")
             ELSE IF plans # {} THEN CHOOSE p \in plans : TRUE
             ELSE IF Launch!NearFit(w, context) THEN Launch!Plan(Launch!LowestContext(context), "q8_0", "gpu")
             ELSE Launch!Hybrid(w, context)
  BY DEF Launch!FitToMemory
<1> HIDE DEF context
<1>4. \A p \in plans : /\ p.placement = "gpu" /\ p.cache \in {pref, "q8_0"}
                       /\ p.context \in Launch!Windows(context)
  BY <1>1, GpuPlans
<1>5. \A c \in Launch!Windows(context) : c \in 1..context
  BY <1>1, Windowed
<1>6. Launch!LowestContext(context) \in 1..context
  BY <1>1, Windowed
<1>7. \A c, k, p : /\ Launch!Plan(c, k, p).context = c /\ Launch!Plan(c, k, p).cache = k
                   /\ Launch!Plan(c, k, p).placement = p
  BY DEF Launch!Plan
<1> DEFINE hybrid == Launch!Hybrid(w, context)
<1>8. /\ hybrid.placement \in {"hybrid", "oversubscribed"} /\ hybrid.cache = "q8_0"
      /\ hybrid.context \in 1..context
  BY <1>1, HybridFits
<1> HIDE DEF pref, plans, plan, hybrid
<1> DEFINE Fine(p) == /\ p.context \in 1..context /\ p.cache \in Precise
                      /\ p.placement \in {"gpu", "hybrid", "oversubscribed", "unknown"}
<1>9. \A p \in plans : Fine(p)
  BY <1>1, <1>4, <1>5
<1>10. Fine(Launch!Plan(context, pref, "gpu")) /\ Fine(Launch!Plan(context, pref, "unknown"))
  BY <1>1, <1>7
<1>11. Fine(Launch!Plan(Launch!LowestContext(context), "q8_0", "gpu")) /\ Fine(hybrid)
  BY <1>1, <1>6, <1>7, <1>8
<1> HIDE DEF Fine
<1>12. Fine(plan)
  BY <1>3, <1>9, <1>10, <1>11 DEF hybrid
<1>13. Fine(Launch!Planned(w))
  BY <1>2, <1>10, <1>12
<1> QED BY <1>13 DEF Fine, context

\* The settings of a load.
LEMMA SettingFacts ==
    ASSUME NEW w \in LoadCases
    PROVE  /\ w.auto \in BOOLEAN /\ w.keeps \in BOOLEAN /\ w.flash \in BOOLEAN
           /\ w.threads \in Nat /\ w.layers \in Int /\ w.batch \in Nat
           /\ w.draft \in {"off", "auto", "head"} /\ w.profile \in Nat \union {Launch!Unset}
           /\ w.found.cache \in Precise /\ w.found.margin \in Int /\ w.found.inRam \in Nat
           /\ w.found.micro \in Nat \union {Launch!Unset} /\ w.found.dropped \in BOOLEAN
           /\ w.found.context \in Nat \union {Launch!Unset}
BY DEF LoadCases, Settings

\* cpu_context_cap: where RAM holds 2,048 tokens it holds the window allowed.
LEMMA CpuCaps ==
    ASSUME NEW w \in LoadCases
    PROVE  /\ Launch!CpuCap(w) \in {2048, 4096, 8192} /\ Launch!CpuRoom(w) \in Int
           /\ Launch!CpuRoom(w) >= w.kv * 2048 =>
                 /\ w.kv * Launch!CpuCap(w) <= Launch!CpuRoom(w)
                 /\ w.weights + Launch!CpuRoom(w) <= w.ram
<1> DEFINE a == w.ram \div 8
           b == Launch!Minus(w.ram, a)
           c == w.weights \div 12
           d == 512 * Launch!MiB
           e == Launch!Most(c, d)
           f == Launch!Minus(b, e)
           room == Launch!CpuRoom(w)
           steps == {cap \in {4096, 8192} : cap <= room \div w.kv}
<1>1. w.ram \in Nat /\ w.weights \in Nat /\ w.weights > 0 /\ w.kv \in Nat \ {0}
  BY CaseFacts
<1>2. a \in Nat /\ c \in Nat /\ d \in Nat
  BY <1>1, Sizes
<1>3. room = f - w.weights
  BY DEF Launch!CpuRoom
<1>4. Launch!CpuCap(w) = IF room < w.kv * 2048 THEN 2048 ELSE Launch!Max({2048} \union steps)
  BY DEF Launch!CpuCap
<1> HIDE DEF a, c, d, room
<1>5. b \in Nat /\ b <= w.ram
  BY <1>1, <1>2, Extremes
<1>6. e \in Nat
  BY <1>2, Extremes
<1> HIDE DEF b, e
<1>7. f \in Nat /\ f <= b
  BY <1>5, <1>6, Extremes
<1> HIDE DEF f
<1>8. room \in Int /\ room + w.weights <= w.ram
  BY <1>1, <1>3, <1>5, <1>7
<1>9. CASE room < w.kv * 2048
  <2>1. ~(room >= w.kv * 2048)
    BY <1>1, <1>8, <1>9
  <2> QED BY <1>4, <1>8, <1>9, <2>1 DEF room
<1>10. CASE room >= w.kv * 2048
  <2> DEFINE q == room \div w.kv
             cap == Launch!CpuCap(w)
  <2>1. room \in Nat
    BY <1>1, <1>8, <1>10
  <2>2. q \in Nat /\ q * w.kv <= room
    BY <1>1, <2>1, Quotients
  <2> HIDE DEF q
  <2>3. cap = Launch!Max({2048} \union steps)
    BY <1>1, <1>4, <1>8, <1>10
  <2>4. cap \in {2048} \union steps
    <3>1. CASE 8192 \in steps
      <4>1. 8192 \in {2048} \union steps /\ {2048} \union steps \in SUBSET Int
            /\ \A s \in {2048} \union steps : s <= 8192
        BY <3>1
      <4>2. cap = 8192
        BY <2>3, <4>1, MaxIs
      <4> QED BY <3>1, <4>2
    <3>2. CASE 8192 \notin steps /\ 4096 \in steps
      <4>1. 4096 \in {2048} \union steps /\ {2048} \union steps \in SUBSET Int
            /\ \A s \in {2048} \union steps : s <= 4096
        BY <3>2
      <4>2. cap = 4096
        BY <2>3, <4>1, MaxIs
      <4> QED BY <3>2, <4>2
    <3>3. CASE 8192 \notin steps /\ 4096 \notin steps
      <4>1. {2048} \union steps = {2048}
        BY <3>3
      <4>2. 2048 \in {2048} /\ {2048} \in SUBSET Int /\ \A s \in {2048} : s <= 2048
        OBVIOUS
      <4>3. cap = 2048
        BY <2>3, <4>1, <4>2, MaxIs
      <4> QED BY <4>3
    <3> QED BY <3>1, <3>2, <3>3
  <2> HIDE DEF cap
  <2>5. cap \in {2048, 4096, 8192} /\ (cap # 2048 => cap <= q)
    BY <2>4 DEF q
  <2>6. w.kv * cap <= room
    <3>1. CASE cap = 2048
      BY <1>10, <3>1
    <3>2. CASE cap # 2048
      <4>1. cap \in Nat /\ cap <= q
        BY <2>5, <3>2
      <4>2. cap * w.kv <= q * w.kv /\ cap * w.kv = w.kv * cap /\ cap * w.kv \in Nat /\ q * w.kv \in Nat
        BY <1>1, <2>2, <4>1, Products
      <4> QED BY <2>1, <2>2, <4>2
    <3> QED BY <3>1, <3>2
  <2> QED BY <1>1, <1>8, <2>5, <2>6 DEF cap, room
<1> QED BY <1>1, <1>8, <1>9, <1>10

\* prompt_cache_ram_mib leaves two GiB, and as much again as the cache itself.
LEMMA PromptCaches ==
    ASSUME NEW ram \in Nat, NEW inRam \in Int
    PROVE  /\ Launch!PromptCache(ram, inRam) \in Nat
           /\ Launch!PromptCache(ram, inRam) > 0 =>
                 2 * Launch!PromptCache(ram, inRam) + inRam + 2 * Launch!GiB <= ram
<1> DEFINE a == Launch!Minus(ram, inRam)
           g == 2 * Launch!GiB
           b == Launch!Minus(a, g)
           h == b \div 2
           m == 8192 * Launch!MiB
           half == Launch!Least(h, m)
<1>1. g \in Nat /\ m \in Nat /\ 256 * Launch!MiB \in Nat \ {0}
  BY Sizes
<1>2. Launch!PromptCache(ram, inRam) = IF half < 256 * Launch!MiB THEN 0 ELSE half
  BY DEF Launch!PromptCache
<1>3. a = IF ram > inRam THEN ram - inRam ELSE 0
  BY Extremes
<1>4. a \in Nat /\ (a > 0 => a = ram - inRam)
  BY <1>3
<1> HIDE DEF a, g, m
<1>5. b = IF a > g THEN a - g ELSE 0
  BY <1>1, <1>4, Extremes
<1>6. b \in Nat /\ (b > 0 => b = a - g)
  BY <1>1, <1>4, <1>5
<1> HIDE DEF b
<1>7. h \in Nat /\ 2 * h <= b
  BY <1>6
<1> HIDE DEF h
<1>8. half \in Nat /\ half <= h
  <2>1. half = IF h < m THEN h ELSE m
    BY <1>1, <1>7, Extremes
  <2> HIDE DEF half
  <2> QED BY <1>1, <1>7, <2>1
<1> HIDE DEF half
<1>9. CASE half = 0
  BY <1>1, <1>2, <1>9
<1>10. CASE half > 0
  <2>1. 2 * half <= b /\ b > 0
    BY <1>6, <1>7, <1>8, <1>10
  <2>2. b = a - g /\ a > 0
    BY <1>1, <1>4, <1>6, <2>1
  <2>3. 2 * half + inRam + g <= ram
    BY <1>1, <1>4, <1>8, <2>1, <2>2
  <2> QED BY <1>1, <1>2, <1>8, <2>3 DEF g
<1> QED BY <1>8, <1>9, <1>10

\* base_inference_config and apply_to launch what the policy says.
LEMMA BasedIsSound ==
    ASSUME NEW w \in LoadCases
    PROVE  LET load == Launch!Based(w, Launch!Policy(w, Launch!Planned(w)))
           IN  Shaped(load) /\ Sound(w, load)
<1> DEFINE plan == Launch!Planned(w)
           policy == Launch!Policy(w, plan)
           load == Launch!Based(w, policy)
           capped == Launch!Capped(w)
           m == Launch!Most(w.batch, 1)
           b == Launch!Least(m, plan.context)
           kept == w.keeps /\ plan.context < capped
<1>1. plan.context \in 1..capped /\ capped \in Nat \ {0}
      /\ plan.placement \in {"gpu", "hybrid", "oversubscribed", "unknown"}
  BY PlansAre, CaseFacts
<1>2. b \in Nat
  <2> DEFINE c == plan.context
  <2>1. c \in Nat
    BY <1>1
  <2>2. w.batch \in Nat
    BY SettingFacts
  <2>3. m \in Nat
    BY <2>2, Extremes
  <2> HIDE DEF c, m
  <2>4. Launch!Least(m, c) = IF m < c THEN m ELSE c
    BY <2>1, <2>3, Extremes
  <2> QED BY <2>1, <2>3, <2>4 DEF c
<1>3. policy =
        [context |-> IF kept THEN capped ELSE plan.context,
         k |-> plan.cache,
         v |-> IF ~w.auto /\ ~w.flash THEN "f16" ELSE plan.cache,
         placement |-> IF kept /\ plan.placement = "gpu" THEN "hybrid" ELSE plan.placement,
         threads |-> IF w.auto THEN 0 ELSE Launch!Most(w.threads, 1),
         layers |-> IF w.auto THEN -1 ELSE w.layers,
         batch |-> IF w.auto THEN 0 ELSE b,
         flash |-> IF w.auto THEN "auto" ELSE IF w.flash THEN "on" ELSE "off",
         drafting |-> Launch!Drafting(w),
         cpuCap |-> IF w.auto THEN Launch!CpuCap(w) ELSE Launch!Unset]
  BY DEF Launch!Policy
<1> HIDE DEF plan, b, capped, kept, policy
<1>4. /\ policy.context \in 0..capped /\ policy.batch \in Nat /\ policy.placement # "cpu"
      /\ policy.v = "q8_0" => policy.flash # "off"
      /\ w.auto => policy.flash = "auto" /\ policy.cpuCap = Launch!CpuCap(w)
      /\ DOMAIN policy = {"context", "k", "v", "placement", "threads", "layers", "batch", "flash",
                          "drafting", "cpuCap"}
  BY <1>1, <1>2, <1>3
<1>5. load = [policy |-> policy,
              cfg |-> [context |-> policy.context, k |-> policy.k, v |-> policy.v,
                       layers |-> policy.layers, threads |-> policy.threads,
                       batchThreads |-> IF w.auto THEN 0 ELSE w.threads,
                       batch |-> policy.batch, flash |-> policy.flash, drafting |-> policy.drafting,
                       micro |-> Launch!Unset, mapped |-> TRUE, draftLength |-> Launch!Unset,
                       margin |-> Launch!Unset, cacheRam |-> Launch!Unset, offload |-> TRUE]]
  BY DEF Launch!Based
<1> HIDE DEF load
<1>6. Shaped(load)
  BY <1>4, <1>5 DEF Shaped
<1>7. Sound(w, load)
  BY <1>4, <1>5 DEF Sound, Truthful, capped
<1> QED BY <1>6, <1>7 DEF load, policy, plan

\* apply_calibrated_profile changes the threads launched and the threads told.
LEMMA ProfiledIsSound ==
    ASSUME NEW w \in LoadCases, NEW load, Shaped(load), Sound(w, load)
    PROVE  LET next == Launch!Profiled(w, load) IN Shaped(next) /\ Sound(w, next)
<1> DEFINE next == Launch!Profiled(w, load)
<1>1. next = IF w.profile = Launch!Unset THEN load
             ELSE [load EXCEPT !.cfg.threads = w.profile, !.cfg.batchThreads = w.profile + 2,
                               !.policy.threads = w.profile]
  BY DEF Launch!Profiled
<1> HIDE DEF next
<1>2. Shaped(next)
  BY <1>1 DEF Shaped
<1>3. Sound(w, next)
  BY <1>1 DEF Shaped, Sound, Truthful
<1> QED BY <1>2, <1>3 DEF next

\* apply_fit_decision changes window, precision and drafting of both records, of automatic
\* loads only.
LEMMA FittedIsSound ==
    ASSUME NEW w \in LoadCases, NEW load, Shaped(load), Sound(w, load), w.auto
    PROVE  LET next == Launch!Fitted(w, load) IN Shaped(next) /\ Sound(w, next)
<1> DEFINE next == Launch!Fitted(w, load)
           Without(drafting) == IF w.found.dropped /\ drafting = "head" THEN "ngram" ELSE drafting
           placed == IF w.found.fit = "all" THEN "gpu" ELSE "hybrid"
           f == w.found
<1>1. next = IF f.context = Launch!Unset THEN load
             ELSE [load EXCEPT
                     !.cfg = [@ EXCEPT !.context = f.context, !.k = f.cache, !.v = f.cache,
                                       !.margin = f.margin, !.micro = f.micro,
                                       !.drafting = Without(load.cfg.drafting)],
                     !.policy = [@ EXCEPT !.context = f.context, !.k = f.cache, !.v = f.cache,
                                          !.placement = placed, !.drafting = Without(load.policy.drafting)]]
  BY DEF Launch!Fitted
<1>2. f.context # Launch!Unset => f.context \in 0..Launch!Capped(w)
  BY CaseFacts, SettingFacts
<1>3. f.micro \in Nat \union {Launch!Unset} /\ placed # "cpu"
  BY SettingFacts
<1> HIDE DEF next, placed, f, Without
<1>4. Shaped(next)
  BY <1>1 DEF Shaped
<1>5. Sound(w, next)
  BY <1>1, <1>2, <1>3 DEF Shaped, Sound, Truthful
<1> QED BY <1>4, <1>5 DEF next

\* The tuning of a load changes nothing that is told.
LEMMA TunedIsSound ==
    ASSUME NEW w \in LoadCases, NEW load, Shaped(load), Sound(w, load)
    PROVE  LET next == Launch!Tuned(w, load) IN Shaped(next) /\ Sound(w, next)
<1> DEFINE next == Launch!Tuned(w, load)
           short == Launch!InRam(w) /\ load.cfg.drafting # "none"
           mapped == ~(Launch!InRam(w) /\ w.ram >= w.weights + 4 * Launch!GiB)
<1>1. next = [load EXCEPT !.cfg.draftLength = IF short THEN 24 ELSE @, !.cfg.mapped = mapped]
  BY DEF Launch!Tuned
<1> HIDE DEF next, short, mapped
<1>2. Shaped(next)
  BY <1>1 DEF Shaped
<1>3. Sound(w, next)
  BY <1>1 DEF Shaped, Sound, Truthful
<1> QED BY <1>2, <1>3 DEF next

\* Nor does the size of the prompt cache.
LEMMA SizedIsSound ==
    ASSUME NEW w \in LoadCases, NEW load, Shaped(load), Sound(w, load), NEW ram
    PROVE  LET next == [load EXCEPT !.cfg.cacheRam = ram] IN Shaped(next) /\ Sound(w, next)
<1> DEFINE next == [load EXCEPT !.cfg.cacheRam = ram]
<1>1. Shaped(next)
  BY DEF Shaped
<1>2. Sound(w, next)
  BY DEF Shaped, Sound, Truthful
<1> QED BY <1>1, <1>2

\* So a load is sound when its attempts begin.
LEMMA PreparedIsSound ==
    ASSUME NEW w \in LoadCases
    PROVE  Shaped(Launch!Prepared(w)) /\ Sound(w, Launch!Prepared(w))
<1> DEFINE based == Launch!Based(w, Launch!Policy(w, Launch!Planned(w)))
           profiled == Launch!Profiled(w, based)
           fitted == Launch!Fitted(w, profiled)
           tuned == Launch!Tuned(w, fitted)
           laid == Launch!LaidOver(w, profiled)
           ram == Launch!PromptCache(w.ram, Launch!RamSide(w, laid))
<1>1. Launch!Prepared(w) = [laid EXCEPT !.cfg.cacheRam = ram]
  BY DEF Launch!Prepared, Launch!Sized
<1>2. laid = IF w.auto /\ w.devices = "available" THEN tuned ELSE profiled
  BY DEF Launch!LaidOver
<1>3. Shaped(based) /\ Sound(w, based)
  BY BasedIsSound
<1> HIDE DEF based, laid, ram
<1>4. Shaped(profiled) /\ Sound(w, profiled)
  BY <1>3, ProfiledIsSound
<1> HIDE DEF profiled
<1>5. CASE w.auto /\ w.devices = "available"
  <2>1. Shaped(fitted) /\ Sound(w, fitted)
    BY <1>4, <1>5, FittedIsSound
  <2> HIDE DEF fitted
  <2>2. Shaped(tuned) /\ Sound(w, tuned)
    BY <2>1, TunedIsSound
  <2> HIDE DEF tuned
  <2>3. Shaped(laid) /\ Sound(w, laid)
    BY <1>2, <1>5, <2>2
  <2> QED BY <1>1, <2>3, SizedIsSound
<1>6. CASE ~(w.auto /\ w.devices = "available")
  <2> HIDE DEF tuned
  <2>1. Shaped(laid) /\ Sound(w, laid)
    BY <1>2, <1>4, <1>6
  <2> QED BY <1>1, <2>1, SizedIsSound
<1> QED BY <1>5, <1>6

\* without_load_tuning keeps it sound.
LEMMA UntunedIsSound ==
    ASSUME NEW w \in LoadCases, NEW load, Shaped(load), Sound(w, load)
    PROVE  LET next == Launch!Untuned(load) IN Shaped(next) /\ Sound(w, next)
<1> DEFINE next == Launch!Untuned(load)
<1>1. next = [load EXCEPT !.cfg.micro = Launch!Unset, !.cfg.mapped = TRUE]
  BY DEF Launch!Untuned
<1> HIDE DEF next
<1>2. Shaped(next)
  BY <1>1 DEF Shaped
<1>3. Sound(w, next)
  BY <1>1 DEF Shaped, Sound, Truthful
<1> QED BY <1>2, <1>3 DEF next

\* What a configuration asks of the server.
LEMMA ArgumentsAre ==
    ASSUME NEW load, load.cfg.batch \in Nat, load.cfg.micro \in Nat \union {Launch!Unset}
    PROVE  LET args == Launch!Arguments(load) IN
           /\ (IF args.batch = 0 THEN 2048 ELSE args.batch) >= args.micro
           /\ load.cfg.layers = 0 => args.device = "none"
<1> DEFINE args == Launch!Arguments(load)
           b == load.cfg.batch
           m == load.cfg.micro
           most == Launch!Most(b, m)
<1>1. /\ args.batch = CASE b = 0 -> IF m > 2048 THEN m ELSE 0 [] b > 0 -> most
      /\ args.micro = m
      /\ args.device = IF load.cfg.layers = 0 THEN "none" ELSE "gpu"
  BY DEF Launch!Arguments
<1>2. b \in Nat /\ m \in Int
  BY Sizes
<1> HIDE DEF b, m, args
<1>3. most = IF b < m THEN m ELSE b
  BY <1>2, Extremes
<1> HIDE DEF most
<1>4. CASE b = 0
  BY <1>1, <1>2, <1>4 DEF args
<1>5. CASE b > 0
  <2>1. args.batch = most
    BY <1>1, <1>2, <1>5
  <2>2. most >= m /\ most > 0 /\ most \in Int
    BY <1>2, <1>3, <1>5
  <2> QED BY <1>1, <1>2, <2>1, <2>2 DEF args
<1> QED BY <1>2, <1>4, <1>5

\* A load that went through every step is told and bounded.
LEMMA SoundIsEnough ==
    ASSUME NEW w \in LoadCases, NEW load, Sound(w, load)
    PROVE  /\ Truthful(load) /\ load.cfg.context <= Launch!Capped(w)
           /\ LET args == Launch!Arguments(load) IN
              (IF args.batch = 0 THEN 2048 ELSE args.batch) >= args.micro
           /\ load.cfg.v = "q8_0" => load.cfg.flash # "off"
           /\ load.policy.placement # "cpu"
<1>1. load.cfg.context \in 0..Launch!Capped(w) /\ Launch!Capped(w) \in Nat
  BY CaseFacts DEF Sound
<1>2. load.cfg.batch \in Nat /\ load.cfg.micro \in Nat \union {Launch!Unset}
  BY DEF Sound
<1> QED BY <1>1, <1>2, ArgumentsAre DEF Sound

\* cpu_configuration asks nothing of the GPU, tells all it changes, and RAM holds the weights,
\* the window and the prompt cache, with the exceptions of CpuIsSafe.
LEMMA CpuIs ==
    ASSUME NEW w \in LoadCases, NEW load, Shaped(load), Sound(w, load), w.auto
    PROVE  LET next == Launch!OnCpu(w, load) IN
           /\ Truthful(next) /\ next.cfg.context <= Launch!Capped(w)
           /\ LET args == Launch!Arguments(next) IN
              (IF args.batch = 0 THEN 2048 ELSE args.batch) >= args.micro
           /\ next.cfg.v = "q8_0" => next.cfg.flash # "off"
           /\ Launch!Arguments(next).device = "none" /\ ~next.cfg.offload /\ next.cfg.mapped
           /\ next.cfg.micro = Launch!Unset /\ next.cfg.drafting # "head"
           /\ \/ Launch!CpuRoom(w) < w.kv * 2048 \/ Launch!UnderReserved(w, next.cfg.context)
              \/ w.weights + w.kv * next.cfg.context + next.cfg.cacheRam <= w.ram
<1> DEFINE next == Launch!OnCpu(w, load)
           had == load.cfg.context
           cap == Launch!CpuCap(w)
           limit == load.policy.cpuCap
           most == Launch!Most(limit, 1024)
           context == Launch!Least(had, most)
           given == load.cfg.batch
           least == Launch!Least(given, context)
           batch == IF given > 0 THEN Launch!Most(least, 1) ELSE 0
           Plain(drafting) == IF drafting = "head" THEN "ngram" ELSE drafting
           ram == Launch!PromptCache(w.ram, w.weights + Launch!GiB)
<1> DEFINE c == load.cfg
           p == load.policy
           cd == Plain(c.drafting)
           pd == Plain(p.drafting)
           cfg == [c EXCEPT !.layers = 0, !.offload = FALSE, !.flash = "off", !.threads = 0,
                            !.context = context, !.k = "f16", !.v = "f16", !.micro = Launch!Unset,
                            !.mapped = TRUE, !.drafting = cd, !.draftLength = Launch!Unset,
                            !.cacheRam = ram, !.batch = batch]
           policy == [p EXCEPT !.layers = 0, !.flash = "off", !.threads = 0, !.context = context,
                               !.batch = batch, !.k = "f16", !.v = "f16", !.placement = "cpu",
                               !.drafting = pd]
<1>1. next = [load EXCEPT !.cfg = cfg, !.policy = policy]
  BY DEF Launch!OnCpu
<1> HIDE DEF cfg, policy
<1>2. had \in Nat /\ had <= Launch!Capped(w) /\ Launch!Capped(w) \in Nat /\ given \in Nat
  BY CaseFacts DEF Sound
<1>3. cap \in {2048, 4096, 8192} /\ limit = cap
  BY CpuCaps DEF Sound
<1> HIDE DEF had, given, cap, ram, next, limit
<1>4. most = cap
  BY <1>3, Extremes
<1>5. context = IF had < cap THEN had ELSE cap
  BY <1>2, <1>3, <1>4, Extremes
<1> HIDE DEF most, context
<1>6. context \in Nat /\ context <= Launch!Capped(w) /\ context <= cap
  BY <1>2, <1>3, <1>5
<1>7. least \in Int
  BY <1>2, <1>6, Extremes
<1> HIDE DEF least
<1>8. batch \in Nat
  BY <1>2, <1>7, Extremes
<1> HIDE DEF batch
<1>9. \A d : Plain(d) # "head"
  OBVIOUS
<1> HIDE DEF Plain
<1>10. /\ next.cfg.context = context /\ next.policy.context = context
       /\ next.cfg.k = "f16" /\ next.policy.k = "f16" /\ next.cfg.v = "f16" /\ next.policy.v = "f16"
       /\ next.cfg.threads = 0 /\ next.policy.threads = 0
       /\ next.cfg.drafting = Plain(load.cfg.drafting) /\ next.policy.drafting = Plain(load.policy.drafting)
       /\ next.cfg.layers = 0 /\ next.policy.layers = 0
       /\ next.cfg.batch = batch /\ next.policy.batch = batch
       /\ next.cfg.offload = FALSE /\ next.cfg.mapped = TRUE /\ next.cfg.micro = Launch!Unset
       /\ next.cfg.cacheRam = ram /\ next.policy.placement = "cpu"
  <2>1. next.cfg = [c EXCEPT !.layers = 0, !.offload = FALSE, !.flash = "off", !.threads = 0,
                            !.context = context, !.k = "f16", !.v = "f16", !.micro = Launch!Unset,
                            !.mapped = TRUE, !.drafting = cd, !.draftLength = Launch!Unset,
                            !.cacheRam = ram, !.batch = batch]
    <3>1. next.cfg = cfg
      BY <1>1 DEF Shaped
    <3> QED BY <3>1 DEF cfg
  <2>2. next.policy = [p EXCEPT !.layers = 0, !.flash = "off", !.threads = 0, !.context = context,
                               !.batch = batch, !.k = "f16", !.v = "f16", !.placement = "cpu",
                               !.drafting = pd]
    <3>1. next.policy = policy
      BY <1>1 DEF Shaped
    <3> QED BY <3>1 DEF policy
  <2>3. /\ DOMAIN c = {"context", "k", "v", "layers", "threads", "batchThreads", "batch", "flash",
                       "drafting", "micro", "mapped", "draftLength", "margin", "cacheRam", "offload"}
        /\ DOMAIN p = {"context", "k", "v", "placement", "threads", "layers", "batch", "flash",
                       "drafting", "cpuCap"}
    BY DEF Shaped
  <2> DEFINE nc == next.cfg
             np == next.policy
  <2> HIDE DEF c, p, nc, np, cd, pd
  <2>4. /\ nc.context = context /\ nc.k = "f16" /\ nc.v = "f16" /\ nc.threads = 0
        /\ nc.drafting = cd /\ nc.layers = 0 /\ nc.batch = batch
    BY <2>1, <2>3 DEF nc
  <2>5. nc.offload = FALSE /\ nc.mapped = TRUE /\ nc.micro = Launch!Unset /\ nc.cacheRam = ram
    BY <2>1, <2>3 DEF nc
  <2>6. /\ np.context = context /\ np.k = "f16" /\ np.v = "f16" /\ np.threads = 0
        /\ np.drafting = pd /\ np.layers = 0 /\ np.batch = batch /\ np.placement = "cpu"
    BY <2>2, <2>3 DEF np
  <2> QED BY <2>4, <2>5, <2>6 DEF nc, np, cd, pd, c, p
<1>11. Truthful(next)
  BY <1>10 DEF Sound, Truthful
<1>12. /\ LET args == Launch!Arguments(next) IN
              (IF args.batch = 0 THEN 2048 ELSE args.batch) >= args.micro
       /\ Launch!Arguments(next).device = "none"
  BY <1>8, <1>10, ArgumentsAre
<1>13. ASSUME Launch!CpuRoom(w) >= w.kv * 2048, ~Launch!UnderReserved(w, context)
       PROVE  w.weights + w.kv * context + ram <= w.ram
  <2> DEFINE window == w.kv * context
             most_window == w.kv * cap
  <2>1. w.weights \in Nat /\ w.kv \in Nat /\ w.ram \in Nat /\ Launch!GiB \in Nat
    BY CaseFacts, Sizes
  <2>2. window \in Nat /\ most_window \in Nat /\ window <= most_window
    <3>1. cap \in Nat
      BY <1>3
    <3> QED BY <1>6, <2>1, <3>1, Products
  <2>3. most_window <= Launch!CpuRoom(w) /\ w.weights + Launch!CpuRoom(w) <= w.ram
        /\ Launch!CpuRoom(w) \in Int
    BY <1>13, CpuCaps DEF cap
  <2>4. window <= 3 * Launch!GiB
    BY <1>13, <2>1, <2>2 DEF Launch!UnderReserved
  <2>5. ram \in Nat /\ (ram > 0 => 2 * ram + (w.weights + Launch!GiB) + 2 * Launch!GiB <= w.ram)
    <3> DEFINE n == w.weights + Launch!GiB
    <3>1. n \in Int
      BY <2>1
    <3> HIDE DEF n
    <3>2. /\ Launch!PromptCache(w.ram, n) \in Nat
          /\ Launch!PromptCache(w.ram, n) > 0 =>
                2 * Launch!PromptCache(w.ram, n) + n + 2 * Launch!GiB <= w.ram
      BY <2>1, <3>1, PromptCaches
    <3> QED BY <3>2 DEF ram, n
  <2> HIDE DEF window, most_window
  <2>6. w.weights + window + ram <= w.ram
    <3>1. CASE ram = 0
      BY <2>1, <2>2, <2>3, <3>1
    <3>2. CASE ram > 0
      <4>1. 2 * ram + w.weights + 3 * Launch!GiB <= w.ram
        BY <2>1, <2>5, <3>2
      <4> QED BY <2>1, <2>2, <2>4, <2>5, <4>1
    <3> QED BY <2>5, <3>1, <3>2
  <2> QED BY <2>6 DEF window
<1>14. Launch!CpuRoom(w) \in Int /\ w.kv * 2048 \in Nat
  BY CpuCaps, CaseFacts
<1>15. \/ Launch!CpuRoom(w) < w.kv * 2048 \/ Launch!UnderReserved(w, next.cfg.context)
       \/ w.weights + w.kv * next.cfg.context + next.cfg.cacheRam <= w.ram
  <2>1. CASE Launch!CpuRoom(w) < w.kv * 2048
    BY <2>1
  <2>2. CASE ~(Launch!CpuRoom(w) < w.kv * 2048)
    <3>1. Launch!CpuRoom(w) >= w.kv * 2048
      BY <1>14, <2>2
    <3> QED BY <1>10, <1>13, <3>1
  <2> QED BY <2>1, <2>2
<1> QED BY <1>6, <1>9, <1>10, <1>11, <1>12, <1>15 DEF next

\* The attempts of a load: the load itself, without its tuning, or on the CPU.
LEMMA TriesAre ==
    ASSUME NEW w \in LoadCases, NEW load, NEW try \in Launch!ToSet(Launch!Tries(w, load))
    PROVE  try = load \/ try = Launch!Untuned(load) \/ (w.auto /\ try = Launch!OnCpu(w, load))
<1> DEFINE a == load
           b == Launch!Untuned(load)
           c == Launch!OnCpu(w, load)
           tuned == Launch!IsTuned(load)
<1>1. Launch!Tries(w, load) =
        IF ~w.auto THEN <<a>>
        ELSE IF w.devices = "none" THEN <<c>>
        ELSE <<a>> \o (IF tuned THEN <<b>> ELSE <<>>) \o <<c>>
  BY DEF Launch!Tries
<1> HIDE DEF b, c, tuned
<1> DEFINE one == <<a>>
           two == <<b>>
           none == <<>>
           last == <<c>>
           all == {a, b, c}
<1>2. one \in Seq(all) /\ two \in Seq(all) /\ none \in Seq(all) /\ last \in Seq(all)
  OBVIOUS
<1>3. DOMAIN one = {1} /\ one[1] = a
  OBVIOUS
<1> HIDE DEF one, two, none, last
<1>4. CASE ~w.auto
  <2>1. Launch!Tries(w, load) = one
    BY <1>1, <1>4 DEF one
  <2> QED BY <1>3, <2>1 DEF Launch!ToSet
<1>5. CASE w.auto
  <2> DEFINE tries == Launch!Tries(w, load)
  <2>1. tries = last \/ tries = one \o two \o last \/ tries = one \o none \o last
    BY <1>1, <1>5 DEF one, two, none, last
  <2> HIDE DEF tries, all
  <2>2. \A s, t \in Seq(all) : s \o t \in Seq(all)
    BY ConcatProperties
  <2>3. tries \in Seq(all)
    <3>1. one \o two \in Seq(all) /\ one \o none \in Seq(all)
      BY <1>2, <2>2
    <3>2. (one \o two) \o last \in Seq(all) /\ (one \o none) \o last \in Seq(all)
      BY <1>2, <2>2, <3>1
    <3> QED BY <1>2, <2>1, <3>2
  <2>4. Launch!ToSet(tries) \subseteq all
    BY <2>3 DEF Launch!ToSet
  <2>5. try \in all
    BY <2>4 DEF tries
  <2> QED BY <1>5, <2>5 DEF all, b, c
<1> QED BY <1>4, <1>5

\* Whatever is loaded where: the plan is the best one, what is told is what is launched, and
\* neither window nor memory is larger than may be.
LoadsHold ==
    \A w \in LoadCases :
        /\ Launch!PlanIsBest(w) /\ Launch!RecordTellsLaunch(Launch!Attempts(w))
        /\ Launch!LaunchIsBounded(w, Launch!Attempts(w)) /\ Launch!CpuIsSafe(w, Launch!Attempts(w))

\* start_sidecar and load_with_fallback, for any model, machine, settings, profile and fit: PlanIsBest,
\* RecordTellsLaunch, LaunchIsBounded and CpuIsSafe.
THEOREM LaunchIsSafe == LoadsHold
<1> SUFFICES ASSUME NEW w \in LoadCases
             PROVE  /\ Launch!RecordTellsLaunch(Launch!Attempts(w))
                    /\ Launch!LaunchIsBounded(w, Launch!Attempts(w))
                    /\ Launch!CpuIsSafe(w, Launch!Attempts(w))
  BY PlanIsBest DEF LoadsHold
<1> DEFINE first == Launch!Prepared(w)
           tries == Launch!ToSet(Launch!Attempts(w))
<1>1. Shaped(first) /\ Sound(w, first)
  BY PreparedIsSound
<1>2. Launch!Attempts(w) = Launch!Tries(w, first)
  BY DEF Launch!Attempts
<1> HIDE DEF first
<1>3. ASSUME NEW load \in tries
      PROVE  /\ Truthful(load) /\ load.cfg.context <= Launch!Capped(w)
             /\ LET args == Launch!Arguments(load) IN
                (IF args.batch = 0 THEN 2048 ELSE args.batch) >= args.micro
             /\ load.cfg.v = "q8_0" => load.cfg.flash # "off"
             /\ load.policy.placement = "cpu" =>
                  /\ Launch!Arguments(load).device = "none" /\ ~load.cfg.offload /\ load.cfg.mapped
                  /\ load.cfg.micro = Launch!Unset /\ load.cfg.drafting # "head"
                  /\ \/ Launch!CpuRoom(w) < w.kv * 2048 \/ Launch!UnderReserved(w, load.cfg.context)
                     \/ w.weights + w.kv * load.cfg.context + load.cfg.cacheRam <= w.ram
  <2>1. CASE load = first
    BY <1>1, <2>1, SoundIsEnough
  <2>2. CASE load = Launch!Untuned(first)
    <3>1. Sound(w, load)
      BY <1>1, <2>2, UntunedIsSound
    <3> QED BY <3>1, SoundIsEnough
  <2>3. CASE w.auto /\ load = Launch!OnCpu(w, first)
    BY <1>1, <2>3, CpuIs
  <2> QED BY <1>2, <1>3, <2>1, <2>2, <2>3, TriesAre
<1> HIDE DEF tries
<1>4. Launch!RecordTellsLaunch(Launch!Attempts(w))
  BY <1>3 DEF Launch!RecordTellsLaunch, Truthful, tries
<1>5. Launch!LaunchIsBounded(w, Launch!Attempts(w))
  BY <1>3 DEF Launch!LaunchIsBounded, tries
<1>6. Launch!CpuIsSafe(w, Launch!Attempts(w))
  BY <1>3 DEF Launch!CpuIsSafe, tries
<1> QED BY <1>4, <1>5, <1>6

-----------------------------------------------------------------------------
\* Any machine and any model; a token takes some memory (kv_per_token).
Machines ==
    [gpu : Nat, ram : Nat, weights : Nat, kv : Nat \ {0}, trained : Nat, others : Nat, images : Nat,
     workload : DOMAIN Advice!Appetite, profile : DOMAIN Advice!Target, policy : DOMAIN Advice!PolicyReserve]

\* Products of integers, and their order.
LEMMA Scalings ==
    /\ \A a, b \in Int : a * b \in Int /\ a * b = b * a
    /\ \A a, b \in Nat : a * b \in Nat
    /\ \A a, b \in Int, c \in Nat : a <= b => a * c <= b * c
<1>1. \A a, b \in Int, c \in Nat : a <= b => a * c <= b * c
  <2> SUFFICES ASSUME NEW a \in Int, NEW b \in Int, NEW c \in Nat, a <= b PROVE (b - a) * c >= 0
    OBVIOUS
  <2> DEFINE d == b - a
  <2>1. d \in Nat
    OBVIOUS
  <2> HIDE DEF d
  <2>2. d * c >= 0
    BY <2>1
  <2> QED BY <2>2 DEF d
<1> QED BY <1>1

\* The largest of some steps is one of them.
LEMMA Largest ==
    ASSUME NEW S \in SUBSET Advice!Steps, S # {}
    PROVE  Advice!Max(S) \in S /\ \A s \in S : s <= Advice!Max(S)
<1>1. \E m \in S : \A s \in S : m >= s
  <2>1. \A s \in S : s \in {1, 2, 4, 8, 16, 32}
    BY DEF Advice!Steps
  <2>2. CASE 32 \in S
    BY <2>1, <2>2
  <2>3. CASE 32 \notin S /\ 16 \in S
    BY <2>1, <2>3
  <2>4. CASE 32 \notin S /\ 16 \notin S /\ 8 \in S
    BY <2>1, <2>4
  <2>5. CASE 32 \notin S /\ 16 \notin S /\ 8 \notin S /\ 4 \in S
    BY <2>1, <2>5
  <2>6. CASE 32 \notin S /\ 16 \notin S /\ 8 \notin S /\ 4 \notin S
    BY <2>1, <2>6
  <2> QED BY <2>2, <2>3, <2>4, <2>5, <2>6
<1>2. Advice!Max(S) = CHOOSE m \in S : \A s \in S : m >= s
  BY DEF Advice!Max
<1>3. Advice!Max(S) \in S /\ \A s \in S : Advice!Max(S) >= s
  BY <1>1, <1>2
<1> QED BY <1>3 DEF Advice!Steps

\* What is affordable is held together with the reserve by everybody who shares it, and what is
\* wanted is a part of it.
LEMMA Amounts ==
    ASSUME NEW case \in Machines
    PROVE  /\ Advice!Pool(case) \in Nat /\ Advice!Base(case) \in Nat
           /\ Advice!Affordable(case) \in Nat
           /\ Advice!Wanted(case) \in Nat /\ Advice!Wanted(case) <= Advice!Affordable(case)
           /\ \A step \in Nat \ {0} : step * 100 <= Advice!Affordable(case) =>
                 Advice!Base(case) + (1 + case.others) * (step * case.kv * 100)
                     <= Advice!Pool(case) * (100 - Advice!Reserve)
<1> USE DEF Machines
<1>1. Advice!Pool(case) \in Nat /\ Advice!Base(case) \in Nat /\ Advice!Reserve = 15
  BY DEF Advice!Pool, Advice!Base, Advice!Overhead, Advice!Reserve
<1> DEFINE free == Advice!Pool(case) * 85 - Advice!Base(case)
           usable == Advice!Clip(free)
           sharers == 1 + case.others
           share == usable \div sharers
           pictures == case.images * 37 * case.kv
           rest == Advice!Clip(share - pictures)
<1>2. free \in Int /\ usable \in Nat /\ (usable > 0 => usable = free) /\ sharers \in Nat \ {0}
  BY <1>1 DEF Advice!Clip
<1>3. Advice!Affordable(case) = rest \div case.kv
  BY <1>1 DEF Advice!Affordable, Advice!PerImage
<1> HIDE DEF free, usable, sharers
<1>4. share \in Nat /\ share * sharers <= usable
  BY <1>2, Quotients
<1>5. pictures \in Nat
  BY Scalings
<1> HIDE DEF share, pictures
<1>6. rest \in Nat /\ rest <= share
  BY <1>4, <1>5 DEF Advice!Clip
<1> HIDE DEF rest
<1>7. Advice!Affordable(case) \in Nat /\ Advice!Affordable(case) * case.kv <= rest
  BY <1>3, <1>6, Quotients
<1>8. ASSUME NEW step \in Nat \ {0}, step * 100 <= Advice!Affordable(case)
      PROVE  Advice!Base(case) + (1 + case.others) * (step * case.kv * 100)
                     <= Advice!Pool(case) * (100 - Advice!Reserve)
  <2> DEFINE need == step * 100 * case.kv
  <2>1. need \in Nat \ {0} /\ need = step * case.kv * 100
    OBVIOUS
  <2>2. need <= Advice!Affordable(case) * case.kv
    BY <1>7, <1>8, Scalings
  <2> HIDE DEF need
  <2>3. need <= share
    <3> DEFINE held == Advice!Affordable(case) * case.kv
    <3>1. held \in Nat /\ held <= rest /\ need <= held
      BY <1>7, <2>2, Scalings
    <3> HIDE DEF held
    <3> QED BY <1>4, <1>6, <2>1, <3>1
  <2>4. need * sharers <= usable
    BY <1>2, <1>4, <2>1, <2>3, Scalings
  <2>5. need * sharers >= need
    BY <1>2, <2>1
  <2>6. need * sharers <= free
    BY <1>2, <2>1, <2>4, <2>5
  <2> QED BY <1>1, <2>1, <2>6 DEF free, sharers
<1>9. Advice!Wanted(case) \in Nat /\ Advice!Wanted(case) <= Advice!Affordable(case)
  <2> DEFINE a == Advice!Affordable(case)
             p == Advice!Appetite[case.workload]
             q == Advice!Target[case.profile]
  <2>1. p \in 0..100 /\ q \in 0..100
    BY DEF Advice!Appetite, Advice!Target
  <2>2. Advice!Wanted(case) = (a * p * q) \div 10000
    BY DEF Advice!Wanted
  <2>3. a \in Nat
    BY <1>7
  <2> HIDE DEF a, p, q
  <2>4. a * p \in Nat /\ a * p <= a * 100
    BY <2>1, <2>3, Scalings
  <2>5. a * p * q \in Nat /\ a * p * q <= a * p * 100
    BY <2>1, <2>4, Scalings
  <2>6. a * p * q <= a * 10000
    BY <2>3, <2>4, <2>5
  <2> HIDE DEF a
  <2>7. (a * p * q) \div 10000 \in Nat /\ (a * p * q) \div 10000 <= a
    <3> DEFINE n == a * p * q
    <3>1. n \in Nat /\ n <= a * 10000
      BY <2>5, <2>6
    <3> HIDE DEF n
    <3>2. n \div 10000 \in Nat /\ n \div 10000 <= a
      BY <2>3, <3>1
    <3> QED BY <3>2 DEF n
  <2> QED BY <2>2, <2>7 DEF a
<1> QED BY <1>1, <1>7, <1>8, <1>9

\* A larger context never gets a better verdict, and a context called supported leaves the
\* reserve of 15 percent free, for any machine and model (recommend.rs).
LEMMA VerdictsAgree ==
    ASSUME NEW case \in Machines
    PROVE  Advice!VerdictsAgree(case)
<1> DEFINE wanted == Advice!Wanted(case)
           affordable == Advice!Affordable(case)
           Held(step) == Advice!Base(case) + step * case.kv * 100 <= Advice!Pool(case) * 100
<1>1. wanted \in Nat /\ affordable \in Nat /\ wanted <= affordable /\ case.trained \in Nat
  BY Amounts DEF Machines
<1>2. ASSUME NEW s \in Nat, NEW t \in Nat, s < t, Held(t) PROVE Held(s)
  <2>1. s * case.kv <= t * case.kv /\ s * case.kv \in Nat /\ t * case.kv \in Nat
    BY <1>2, Scalings DEF Machines
  <2> QED BY <1>2, <2>1, Amounts
<1>3. ASSUME NEW s \in Nat
      PROVE  Advice!Verdict(case, s) =
                IF s > case.trained THEN "unavailable" ELSE IF s * 100 <= wanted THEN "recommended"
                ELSE IF s * 100 <= affordable THEN "supported" ELSE IF Held(s) THEN "risky" ELSE "unavailable"
  BY DEF Advice!Verdict
<1> HIDE DEF wanted, affordable, Held
<1>4. /\ Advice!Rank["recommended"] = 1 /\ Advice!Rank["supported"] = 2
      /\ Advice!Rank["risky"] = 3 /\ Advice!Rank["unavailable"] = 4
  BY DEF Advice!Rank
<1>5. Advice!Steps \subseteq Nat \ {0}
  BY DEF Advice!Steps
<1>6. ASSUME NEW s \in Advice!Steps, NEW t \in Advice!Steps, s < t
      PROVE  Advice!Rank[Advice!Verdict(case, s)] <= Advice!Rank[Advice!Verdict(case, t)]
  <2>1. s \in Nat /\ t \in Nat
    BY <1>5
  <2>2. CASE t > case.trained
    BY <1>3, <1>4, <2>1, <2>2
  <2>3. CASE t <= case.trained
    BY <1>1, <1>2, <1>3, <1>4, <1>6, <2>1, <2>3
  <2> QED BY <1>1, <2>1, <2>2, <2>3
<1>7. ASSUME NEW s \in Advice!Steps, Advice!Verdict(case, s) \in {"recommended", "supported"}
      PROVE  Advice!Base(case) + (1 + case.others) * s * case.kv * 100
                <= Advice!Pool(case) * (100 - Advice!Reserve)
  <2>1. s \in Nat \ {0}
    BY <1>5
  <2>2. s * 100 <= affordable
    BY <1>1, <1>3, <1>7, <2>1
  <2>3. (1 + case.others) * s * case.kv * 100 = (1 + case.others) * (s * case.kv * 100)
    BY <2>1 DEF Machines
  <2> QED BY <2>1, <2>2, <2>3, Amounts DEF affordable
<1> QED BY <1>6, <1>7 DEF Advice!VerdictsAgree

\* The context recommended is the largest one the table calls recommended.
LEMMA AdviceIsTheTables ==
    ASSUME NEW case \in Machines
    PROVE  Advice!AdviceIsTheTables(case)
<1> DEFINE good == {s \in Advice!Steps : Advice!Verdict(case, s) = "recommended"}
           within == {s \in Advice!Steps : s <= case.trained /\ s * 100 <= Advice!Wanted(case)}
<1>1. good = within
  <2>1. \A s \in Advice!Steps : s \in Nat
    BY DEF Advice!Steps
  <2>2. case.trained \in Nat
    BY DEF Machines
  <2> QED BY <2>1, <2>2 DEF Advice!Verdict
<1>2. Advice!Recommended(case) = Advice!Max({1} \union within)
  BY DEF Advice!Recommended
<1>3. {1} \union within \in SUBSET Advice!Steps
  BY DEF Advice!Steps
<1>4. \A s \in Advice!Steps : s >= 1 /\ s \in Nat
  BY DEF Advice!Steps
<1> HIDE DEF within
<1>5. CASE within = {}
  <2>1. Advice!Max({1} \union within) \in {1} \union within
    BY <1>3, Largest
  <2> QED BY <1>1, <1>2, <1>5, <2>1 DEF Advice!AdviceIsTheTables
<1>6. CASE within # {}
  <2> DEFINE m == Advice!Max({1} \union within)
             n == Advice!Max(within)
  <2>1. m \in {1} \union within /\ \A s \in {1} \union within : s <= m
    BY <1>3, Largest
  <2>2. n \in within /\ \A s \in within : s <= n
    BY <1>3, <1>6, Largest
  <2> HIDE DEF m, n
  <2>3. m = n
    BY <1>3, <1>4, <2>1, <2>2
  <2> QED BY <1>1, <1>2, <1>6, <2>3 DEF Advice!AdviceIsTheTables, m, n
<1> QED BY <1>5, <1>6

\* The cache of a context and what the model needs with it are amounts.
LEMMA CacheIs ==
    ASSUME NEW case \in Machines, NEW step \in Nat
    PROVE  Advice!Cache(case, step) \in Nat /\ Advice!Needed(case, step) \in Nat \ {0}
<1> DEFINE factor == Advice!KvFactor[case.workload]
           grown == 100 + 35 * case.others
<1>1. factor \in Nat /\ grown \in Nat
  BY DEF Machines, Advice!Appetite, Advice!KvFactor
<1>2. Advice!Cache(case, step) = (step * case.kv * factor * grown) \div 10000
  BY DEF Advice!Cache
<1> HIDE DEF factor, grown
<1>3. step * case.kv * factor * grown \in Nat
  BY <1>1, Scalings DEF Machines
<1>4. Advice!Cache(case, step) \in Nat
  BY <1>2, <1>3
<1>5. Advice!Buffers(case) \in Nat \ {0}
  BY DEF Advice!Buffers, Machines
<1> QED BY <1>4, <1>5 DEF Advice!Needed, Machines

\* A policy keeps back a share of the memory.
LEMMA ReserveIs ==
    ASSUME NEW case \in Machines
    PROVE  Advice!PolicyReserve[case.policy] \in 0..100
BY DEF Machines, Advice!PolicyReserve

\* What a placement expects on the GPU fits beside the reserve of the policy, but for the five
\* percent every share has at least (daio.rs).
LEMMA PlacementFits ==
    ASSUME NEW case \in Machines
    PROVE  Advice!PlacementFits(case)
<1> DEFINE step == Advice!PickedContext(case)
           needed == Advice!Needed(case, step)
           room == case.gpu * (100 - Advice!PolicyReserve[case.policy])
           percent == (room * 100) \div needed
           share == Advice!Share(case)
<1>1. step \in Nat
  <2>1. {1} \union {s \in Advice!Steps : Advice!FitsPlace(case, s)} \in SUBSET Advice!Steps
    BY DEF Advice!Steps
  <2>2. step \in Advice!Steps
    BY <2>1, Largest DEF Advice!PickedContext
  <2> QED BY <2>2 DEF Advice!Steps
<1>2. needed \in Nat \ {0} /\ room \in Nat
  BY <1>1, CacheIs, ReserveIs, Scalings, SMTT(40) DEF Machines
<1>3. share = IF case.gpu = 0 THEN 0 ELSE IF needed <= room THEN 100
              ELSE IF case.weights * 4 <= case.gpu * 10
              THEN Advice!Min({95, Advice!Max({5, percent})}) ELSE 0
  BY DEF Advice!Share
<1>4. Advice!ExpectedOnGpu(case) = (needed * share) \div 100
  BY DEF Advice!ExpectedOnGpu
<1> HIDE DEF needed, room, step
<1>5. percent \in Nat /\ percent * needed <= room * 100
  BY <1>2, Quotients
<1> HIDE DEF percent
<1>6. Advice!Max({5, percent}) = IF percent > 5 THEN percent ELSE 5
  BY <1>5 DEF Advice!Max
<1>7. \A n \in Nat : Advice!Min({95, n}) = IF n < 95 THEN n ELSE 95
  BY DEF Advice!Min
<1>8. share \in {0, 5, 100} \/ (share = 95 /\ percent > 95) \/ share = percent
  BY <1>3, <1>5, <1>6, <1>7
<1>9. share = 100 => needed <= room \/ share = percent
  BY <1>3, <1>5, <1>6, <1>7
<1> HIDE DEF share
<1>10. CASE share = 5
  BY <1>10 DEF Advice!PlacementFits, share
<1>11. CASE share # 5
  <2>1. share \in Nat
    BY <1>5, <1>8
  <2>2. needed * share <= room * 100
    <3>1. CASE share = 0
      BY <1>2, <3>1
    <3>2. CASE share = 100 /\ needed <= room
      BY <1>2, <3>2
    <3>3. CASE share <= percent
      <4>1. share * needed <= percent * needed
        BY <1>2, <1>5, <2>1, <3>3, Scalings
      <4>2. share * needed = needed * share
        BY <1>2, <2>1, Scalings
      <4> QED BY <1>2, <1>5, <2>1, <4>1, <4>2, Scalings
    <3> QED BY <1>5, <1>8, <1>9, <1>11, <3>1, <3>2, <3>3
  <2>3. needed * share \in Nat
    BY <1>2, <2>1, Scalings
  <2>4. (needed * share) \div 100 <= room
    <3> DEFINE n == needed * share
    <3> HIDE DEF n
    <3>1. n \in Nat /\ n <= room * 100
      BY <2>2, <2>3 DEF n
    <3>2. n \div 100 <= room
      BY <1>2, <3>1
    <3> QED BY <3>2 DEF n
  <2> QED BY <1>4, <2>4 DEF Advice!PlacementFits, room
<1> QED BY <1>10, <1>11

\* A policy that keeps more memory back never picks a larger context.
LEMMA PolicyIsKept ==
    ASSUME NEW case \in Machines
    PROVE  Advice!PolicyIsKept(case)
<1> SUFFICES ASSUME NEW policy \in DOMAIN Advice!PolicyReserve,
                    Advice!PolicyReserve[policy] > Advice!PolicyReserve[case.policy]
             PROVE  Advice!PickedContext([case EXCEPT !.policy = policy]) <= Advice!PickedContext(case)
  BY DEF Advice!PolicyIsKept
<1> DEFINE other == [case EXCEPT !.policy = policy]
           fits == {s \in Advice!Steps : Advice!FitsPlace(case, s)}
           less == {s \in Advice!Steps : Advice!FitsPlace(other, s)}
<1>1. /\ other \in Machines /\ other.policy = policy /\ other.gpu = case.gpu /\ other.ram = case.ram
      /\ other.weights = case.weights /\ other.kv = case.kv /\ other.others = case.others
      /\ other.workload = case.workload
  BY DEF Machines
<1>2. Advice!PickedContext(case) = Advice!Max({1} \union fits)
      /\ Advice!PickedContext(other) = Advice!Max({1} \union less)
  BY DEF Advice!PickedContext
<1> HIDE DEF other
<1>3. ASSUME NEW s \in Advice!Steps, Advice!FitsPlace(other, s) PROVE Advice!FitsPlace(case, s)
  <2> DEFINE a == 100 - Advice!PolicyReserve[policy]
             b == 100 - Advice!PolicyReserve[case.policy]
  <2>1. a \in Nat /\ b \in Nat /\ a <= b
    <3> DEFINE x == Advice!PolicyReserve[policy]
               y == Advice!PolicyReserve[case.policy]
    <3>1. x \in 0..100 /\ y \in 0..100
      BY SMTT(40) DEF Advice!PolicyReserve, Machines
    <3>2. x > y
      OBVIOUS
    <3> HIDE DEF x, y
    <3>3. 100 - x \in Nat /\ 100 - y \in Nat /\ 100 - x <= 100 - y
      BY <3>1, <3>2
    <3> QED BY <3>3 DEF x, y
  <2>2. Advice!Cache(other, s) = Advice!Cache(case, s) /\ Advice!Needed(other, s) = Advice!Needed(case, s)
    <3>1. Advice!Cache(other, s) = Advice!Cache(case, s)
      BY <1>1, SMTT(40) DEF Advice!Cache
    <3>2. Advice!Buffers(other) = Advice!Buffers(case)
      BY <1>1, SMTT(40) DEF Advice!Buffers
    <3> QED BY <1>1, <3>1, <3>2, SMTT(40) DEF Advice!Needed
  <2>3. s \in Nat
    BY DEF Advice!Steps
  <2>4. Advice!Cache(case, s) \in Nat /\ Advice!Needed(case, s) \in Nat
    BY <2>3, CacheIs
  <2> HIDE DEF a, b
  <2>5. /\ case.gpu * a \in Nat /\ case.gpu * b \in Nat /\ case.gpu * a <= case.gpu * b
        /\ case.ram * a \in Nat /\ case.ram * b \in Nat /\ case.ram * a <= case.ram * b
    BY <2>1, Scalings DEF Machines
  <2>6. case.weights \in Nat
    BY DEF Machines
  <2>7. Advice!FitsPlace(other, s) =
           IF case.gpu > 0 THEN Advice!Needed(case, s) <= case.gpu * a
           ELSE (case.weights + Advice!Cache(case, s)) * 100 <= case.ram * a
    BY <1>1, <2>2 DEF Advice!FitsPlace, a
  <2>8. Advice!FitsPlace(case, s) =
           IF case.gpu > 0 THEN Advice!Needed(case, s) <= case.gpu * b
           ELSE (case.weights + Advice!Cache(case, s)) * 100 <= case.ram * b
    BY DEF Advice!FitsPlace, b
  <2> DEFINE cached == (case.weights + Advice!Cache(case, s)) * 100
  <2>9. cached \in Nat
    BY <2>4, <2>6
  <2> HIDE DEF cached
  <2>10. CASE case.gpu > 0
    <3>1. Advice!Needed(case, s) <= case.gpu * a
      BY <1>3, <2>7, <2>10
    <3>2. Advice!Needed(case, s) <= case.gpu * b
      BY <2>4, <2>5, <3>1
    <3> QED BY <2>8, <2>10, <3>2
  <2>11. CASE ~(case.gpu > 0)
    <3>1. cached <= case.ram * a
      BY <1>3, <2>7, <2>11 DEF cached
    <3>2. cached <= case.ram * b
      BY <2>5, <2>9, <3>1
    <3> QED BY <2>8, <2>11, <3>2 DEF cached
  <2> QED BY <2>10, <2>11
<1>4. {1} \union less \in SUBSET Advice!Steps /\ {1} \union fits \in SUBSET Advice!Steps
  BY DEF Advice!Steps
<1>5. less \subseteq fits
  BY <1>3
<1> HIDE DEF less, fits
<1>6. Advice!Max({1} \union less) \in {1} \union fits
  BY <1>4, <1>5, Largest
<1> QED BY <1>2, <1>4, <1>6, Largest DEF other

\* The verdicts of recommend.rs and the placements of daio.rs, for any amounts of memory, any model
\* and any workload: the four parts of RecommendHolds.
THEOREM AdviceHolds == \A case \in Machines : Advice!RecommendHolds(case)
BY VerdictsAgree, AdviceIsTheTables, PlacementFits, PolicyIsKept DEF Advice!RecommendHolds
=============================================================================
