-------------------------- MODULE GenerationProofs --------------------------
(***************************************************************************)
(* Generation for any number of turns, stops and dropped connections.      *)
(*                                                                         *)
(* IInv is the inductive invariant of the right to store a reply; JInv     *)
(* adds what the handlers and the tracker know of one another, and the     *)
(* safety properties follow from it.  Last, the steps of Generation are    *)
(* shown to be steps of the abstract Reply.                                *)
(***************************************************************************)
EXTENDS Generation, FiniteSetTheorems, TLAPS

\* A turn that has no task yet has no reply and no claim on one.
Fresh ==
    \A g \in Turns :
        /\ handler[g] \in {"idle", "setup", "superseding", "saving", "spawning"}
              => task[g] = "none" /\ reply[g] = NoReply
        /\ handler[g] = "inserting" => task[g] # "none"
        /\ task[g] = "none" => ~persisted[g] /\ ~claimed[g] /\ partial[g] = 0
        /\ current = g => task[g] # "none"

\* The flag guards the right: no reply of a generation without it.
Guarded ==
    \A g \in Turns :
        /\ claimed[g] => persisted[g] /\ task[g] \notin {"stream", "push", "ended"}
        /\ ~persisted[g] /\ task[g] # "none" => reply[g] = NoReply
        /\ claimed[g] /\ task[g] \in {"claimed", "document", "save", "wantStorage"}
              => reply[g] = NoReply
        /\ task[g] \in {"wantStorage", "stored"} => claimed[g]

\* A request that is storing a partial text holds the tracker and the right.
Holder ==
    \A r \in Requests :
        handler[r] = "saving" =>
            /\ tracker_lock = r
            /\ holding[r] \in Turns
            /\ persisted[holding[r]] /\ ~claimed[holding[r]]
            /\ reply[holding[r]] = NoReply

\* The bound on chunks leaves room for the document's note.
Bounded ==
    \A g \in Turns :
        /\ task[g] = "push" => partial[g] < MaxChunks
        /\ task[g] \in {"stream", "ended", "claimed", "document"}
              => partial[g] <= MaxChunks

IInv == TypeOK /\ Fresh /\ Guarded /\ Holder /\ Bounded

LEMMA InitIInv == Init => IInv
BY GenerationAssumption
   DEF Init, IInv, TypeOK, Fresh, Guarded, Holder, Bounded, Requests, HandlerAt,
       Parked, Polled, Over, Replies, NoReply

\* add_message leaves every turn with a well-formed row.
LEMMA AddMessageType ==
    ASSUME reply \in [Turns -> Replies],
           NEW g \in Turns, NEW row \in Replies, NEW ok \in BOOLEAN,
           AddMessage(g, row, ok)
    PROVE  reply' \in [Turns -> Replies]
<1> DEFINE refused == [by |-> "refused", text |-> 0]
<1>1. refused \in Replies
  BY GenerationAssumption DEF Replies
<1>2. reply[g] \in Replies
  OBVIOUS
<1> QED BY <1>1, <1>2 DEF AddMessage

LEMMA StepIInv == IInv /\ [Next]_vars => IInv'
<1> SUFFICES ASSUME IInv, [Next]_vars PROVE IInv'
  OBVIOUS
<1> USE GenerationAssumption
    DEF IInv, Requests, HandlerAt, Parked, Polled, Over, Replies, NoReply,
        locks, requests, streams, rights, Goto, Run, AddMessage, AfterCancel
<1>1. ASSUME NEW g \in Turns, Reject(g) PROVE IInv'
  <2>1. TypeOK'
    BY <1>1 DEF Reject, TypeOK, Fresh, Guarded, Holder, Bounded
  <2>2. Fresh'
    BY <1>1 DEF Reject, TypeOK, Fresh, Guarded, Holder, Bounded
  <2>3. Guarded'
    BY <1>1 DEF Reject, TypeOK, Fresh, Guarded, Holder, Bounded
  <2>4. Holder'
    BY <1>1 DEF Reject, TypeOK, Fresh, Guarded, Holder, Bounded
  <2>5. Bounded'
    BY <1>1 DEF Reject, TypeOK, Fresh, Guarded, Holder, Bounded
  <2> QED BY <2>1, <2>2, <2>3, <2>4, <2>5
<1>2. ASSUME NEW g \in Turns, Begin(g) PROVE IInv'
  <2>1. TypeOK'
    BY <1>2 DEF Begin, TypeOK, Fresh, Guarded, Holder, Bounded
  <2>2. Fresh'
    BY <1>2 DEF Begin, TypeOK, Fresh, Guarded, Holder, Bounded
  <2>3. Guarded'
    BY <1>2 DEF Begin, TypeOK, Fresh, Guarded, Holder, Bounded
  <2>4. Holder'
    BY <1>2 DEF Begin, TypeOK, Fresh, Guarded, Holder, Bounded
  <2>5. Bounded'
    BY <1>2 DEF Begin, TypeOK, Fresh, Guarded, Holder, Bounded
  <2> QED BY <2>1, <2>2, <2>3, <2>4, <2>5
<1>3. ASSUME NEW g \in Turns, AnswerWithoutModel(g) PROVE IInv'
  <2>1. TypeOK'
    <3>1. [by |-> "notice", text |-> 0] \in Replies
      OBVIOUS
    <3>2. reply' \in [Turns -> Replies]
      BY <1>3, <3>1, AddMessageType DEF AnswerWithoutModel, TypeOK
    <3> QED BY <1>3, <3>2 DEF AnswerWithoutModel, TypeOK
  <2>2. Fresh'
    BY <1>3 DEF AnswerWithoutModel, TypeOK, Fresh, Guarded, Holder, Bounded
  <2>3. Guarded'
    BY <1>3 DEF AnswerWithoutModel, TypeOK, Fresh, Guarded, Holder, Bounded
  <2>4. Holder'
    BY <1>3 DEF AnswerWithoutModel, TypeOK, Fresh, Guarded, Holder, Bounded
  <2>5. Bounded'
    BY <1>3 DEF AnswerWithoutModel, TypeOK, Fresh, Guarded, Holder, Bounded
  <2> QED BY <2>1, <2>2, <2>3, <2>4, <2>5
<1>4. ASSUME NEW g \in Turns, Prepare(g) PROVE IInv'
  <2>1. TypeOK'
    BY <1>4 DEF Prepare, TypeOK, Fresh, Guarded, Holder, Bounded
  <2>2. Fresh'
    BY <1>4 DEF Prepare, TypeOK, Fresh, Guarded, Holder, Bounded
  <2>3. Guarded'
    BY <1>4 DEF Prepare, TypeOK, Fresh, Guarded, Holder, Bounded
  <2>4. Holder'
    BY <1>4 DEF Prepare, TypeOK, Fresh, Guarded, Holder, Bounded
  <2>5. Bounded'
    BY <1>4 DEF Prepare, TypeOK, Fresh, Guarded, Holder, Bounded
  <2> QED BY <2>1, <2>2, <2>3, <2>4, <2>5
<1>5. ASSUME NEW g \in Turns, Spawn(g) PROVE IInv'
  <2>1. TypeOK'
    BY <1>5 DEF Spawn, TypeOK, Fresh, Guarded, Holder, Bounded
  <2>2. Fresh'
    BY <1>5 DEF Spawn, TypeOK, Fresh, Guarded, Holder, Bounded
  <2>3. Guarded'
    BY <1>5 DEF Spawn, TypeOK, Fresh, Guarded, Holder, Bounded
  <2>4. Holder'
    BY <1>5 DEF Spawn, TypeOK, Fresh, Guarded, Holder, Bounded
  <2>5. Bounded'
    BY <1>5 DEF Spawn, TypeOK, Fresh, Guarded, Holder, Bounded
  <2> QED BY <2>1, <2>2, <2>3, <2>4, <2>5
<1>6. ASSUME NEW g \in Turns, Insert(g) PROVE IInv'
  <2>1. TypeOK'
    BY <1>6 DEF Insert, TypeOK, Fresh, Guarded, Holder, Bounded
  <2>2. Fresh'
    BY <1>6 DEF Insert, TypeOK, Fresh, Guarded, Holder, Bounded
  <2>3. Guarded'
    BY <1>6 DEF Insert, TypeOK, Fresh, Guarded, Holder, Bounded
  <2>4. Holder'
    BY <1>6 DEF Insert, TypeOK, Fresh, Guarded, Holder, Bounded
  <2>5. Bounded'
    BY <1>6 DEF Insert, TypeOK, Fresh, Guarded, Holder, Bounded
  <2> QED BY <2>1, <2>2, <2>3, <2>4, <2>5
<1>7. ASSUME NEW g \in Turns, Chunk(g) PROVE IInv'
  <2>1. TypeOK'
    BY <1>7 DEF Chunk, TypeOK, Fresh, Guarded, Holder, Bounded
  <2>2. Fresh'
    BY <1>7 DEF Chunk, TypeOK, Fresh, Guarded, Holder, Bounded
  <2>3. Guarded'
    BY <1>7 DEF Chunk, TypeOK, Fresh, Guarded, Holder, Bounded
  <2>4. Holder'
    BY <1>7 DEF Chunk, TypeOK, Fresh, Guarded, Holder, Bounded
  <2>5. Bounded'
    BY <1>7 DEF Chunk, TypeOK, Fresh, Guarded, Holder, Bounded
  <2> QED BY <2>1, <2>2, <2>3, <2>4, <2>5
<1>8. ASSUME NEW g \in Turns, Push(g) PROVE IInv'
  <2>1. TypeOK'
    BY <1>8 DEF Push, TypeOK, Fresh, Guarded, Holder, Bounded
  <2>2. Fresh'
    BY <1>8 DEF Push, TypeOK, Fresh, Guarded, Holder, Bounded
  <2>3. Guarded'
    BY <1>8 DEF Push, TypeOK, Fresh, Guarded, Holder, Bounded
  <2>4. Holder'
    BY <1>8 DEF Push, TypeOK, Fresh, Guarded, Holder, Bounded
  <2>5. Bounded'
    BY <1>8 DEF Push, TypeOK, Fresh, Guarded, Holder, Bounded
  <2> QED BY <2>1, <2>2, <2>3, <2>4, <2>5
<1>9. ASSUME NEW g \in Turns, EndStream(g) PROVE IInv'
  <2>1. TypeOK'
    <3>1. failed' \in [Turns -> BOOLEAN]
      BY <1>9 DEF EndStream, TypeOK
    <3>2. partial' \in [Turns -> 0..(MaxChunks + 1)]
      <4>1. PICK n \in {partial[g], partial[g] + 1} :
              n <= MaxChunks /\ partial' = [partial EXCEPT ![g] = n]
        BY <1>9 DEF EndStream
      <4>2. n \in 0..(MaxChunks + 1)
        BY <4>1 DEF TypeOK
      <4> QED BY <4>1, <4>2 DEF TypeOK
    <3> QED BY <1>9, <3>1, <3>2 DEF EndStream, TypeOK
  <2>2. Fresh'
    BY <1>9 DEF EndStream, TypeOK, Fresh, Guarded, Holder, Bounded
  <2>3. Guarded'
    BY <1>9 DEF EndStream, TypeOK, Fresh, Guarded, Holder, Bounded
  <2>4. Holder'
    BY <1>9 DEF EndStream, TypeOK, Fresh, Guarded, Holder, Bounded
  <2>5. Bounded'
    BY <1>9 DEF EndStream, TypeOK, Fresh, Guarded, Holder, Bounded
  <2> QED BY <2>1, <2>2, <2>3, <2>4, <2>5
<1>10. ASSUME NEW g \in Turns, NextRound(g) PROVE IInv'
  <2>1. TypeOK'
    BY <1>10 DEF NextRound, TypeOK, Fresh, Guarded, Holder, Bounded
  <2>2. Fresh'
    BY <1>10 DEF NextRound, TypeOK, Fresh, Guarded, Holder, Bounded
  <2>3. Guarded'
    BY <1>10 DEF NextRound, TypeOK, Fresh, Guarded, Holder, Bounded
  <2>4. Holder'
    BY <1>10 DEF NextRound, TypeOK, Fresh, Guarded, Holder, Bounded
  <2>5. Bounded'
    BY <1>10 DEF NextRound, TypeOK, Fresh, Guarded, Holder, Bounded
  <2> QED BY <2>1, <2>2, <2>3, <2>4, <2>5
<1>11. ASSUME NEW g \in Turns, Claim(g) PROVE IInv'
  <2>1. TypeOK'
    BY <1>11 DEF Claim, TypeOK, Fresh, Guarded, Holder, Bounded
  <2>2. Fresh'
    BY <1>11 DEF Claim, TypeOK, Fresh, Guarded, Holder, Bounded
  <2>3. Guarded'
    BY <1>11 DEF Claim, TypeOK, Fresh, Guarded, Holder, Bounded
  <2>4. Holder'
    BY <1>11 DEF Claim, TypeOK, Fresh, Guarded, Holder, Bounded
  <2>5. Bounded'
    BY <1>11 DEF Claim, TypeOK, Fresh, Guarded, Holder, Bounded
  <2> QED BY <2>1, <2>2, <2>3, <2>4, <2>5
<1>12. ASSUME NEW g \in Turns, BeginDocument(g) PROVE IInv'
  <2>1. TypeOK'
    BY <1>12 DEF BeginDocument, TypeOK, Fresh, Guarded, Holder, Bounded
  <2>2. Fresh'
    BY <1>12 DEF BeginDocument, TypeOK, Fresh, Guarded, Holder, Bounded
  <2>3. Guarded'
    BY <1>12 DEF BeginDocument, TypeOK, Fresh, Guarded, Holder, Bounded
  <2>4. Holder'
    BY <1>12 DEF BeginDocument, TypeOK, Fresh, Guarded, Holder, Bounded
  <2>5. Bounded'
    BY <1>12 DEF BeginDocument, TypeOK, Fresh, Guarded, Holder, Bounded
  <2> QED BY <2>1, <2>2, <2>3, <2>4, <2>5
<1>13. ASSUME NEW g \in Turns, EndDocument(g) PROVE IInv'
  <2>1. TypeOK'
    <3>1. partial[g] \in 0..MaxChunks
      BY <1>13 DEF EndDocument, Bounded, TypeOK
    <3>2. partial' \in [Turns -> 0..(MaxChunks + 1)]
      <4>1. CASE partial' = partial
        BY <4>1 DEF TypeOK
      <4>2. CASE partial' = [partial EXCEPT ![g] = @ + 1]
        BY <3>1, <4>2 DEF TypeOK
      <4> QED BY <1>13, <4>1, <4>2 DEF EndDocument
    <3> QED BY <1>13, <3>2 DEF EndDocument, TypeOK
  <2>2. Fresh'
    BY <1>13 DEF EndDocument, TypeOK, Fresh, Guarded, Holder, Bounded
  <2>3. Guarded'
    BY <1>13 DEF EndDocument, TypeOK, Fresh, Guarded, Holder, Bounded
  <2>4. Holder'
    BY <1>13 DEF EndDocument, TypeOK, Fresh, Guarded, Holder, Bounded
  <2>5. Bounded'
    BY <1>13 DEF EndDocument, TypeOK, Fresh, Guarded, Holder, Bounded
  <2> QED BY <2>1, <2>2, <2>3, <2>4, <2>5
<1>14. ASSUME NEW g \in Turns, NoDocument(g) PROVE IInv'
  <2>1. TypeOK'
    BY <1>14 DEF NoDocument, TypeOK, Fresh, Guarded, Holder, Bounded
  <2>2. Fresh'
    BY <1>14 DEF NoDocument, TypeOK, Fresh, Guarded, Holder, Bounded
  <2>3. Guarded'
    BY <1>14 DEF NoDocument, TypeOK, Fresh, Guarded, Holder, Bounded
  <2>4. Holder'
    BY <1>14 DEF NoDocument, TypeOK, Fresh, Guarded, Holder, Bounded
  <2>5. Bounded'
    BY <1>14 DEF NoDocument, TypeOK, Fresh, Guarded, Holder, Bounded
  <2> QED BY <2>1, <2>2, <2>3, <2>4, <2>5
<1>15. ASSUME NEW g \in Turns, SkipSave(g) PROVE IInv'
  <2>1. TypeOK'
    BY <1>15 DEF SkipSave, TypeOK, Fresh, Guarded, Holder, Bounded
  <2>2. Fresh'
    BY <1>15 DEF SkipSave, TypeOK, Fresh, Guarded, Holder, Bounded
  <2>3. Guarded'
    BY <1>15 DEF SkipSave, TypeOK, Fresh, Guarded, Holder, Bounded
  <2>4. Holder'
    BY <1>15 DEF SkipSave, TypeOK, Fresh, Guarded, Holder, Bounded
  <2>5. Bounded'
    BY <1>15 DEF SkipSave, TypeOK, Fresh, Guarded, Holder, Bounded
  <2> QED BY <2>1, <2>2, <2>3, <2>4, <2>5
<1>16. ASSUME NEW g \in Turns, AwaitStorage(g) PROVE IInv'
  <2>1. TypeOK'
    BY <1>16 DEF AwaitStorage, TypeOK, Fresh, Guarded, Holder, Bounded
  <2>2. Fresh'
    BY <1>16 DEF AwaitStorage, TypeOK, Fresh, Guarded, Holder, Bounded
  <2>3. Guarded'
    BY <1>16 DEF AwaitStorage, TypeOK, Fresh, Guarded, Holder, Bounded
  <2>4. Holder'
    BY <1>16 DEF AwaitStorage, TypeOK, Fresh, Guarded, Holder, Bounded
  <2>5. Bounded'
    BY <1>16 DEF AwaitStorage, TypeOK, Fresh, Guarded, Holder, Bounded
  <2> QED BY <2>1, <2>2, <2>3, <2>4, <2>5
<1>17. ASSUME NEW g \in Turns, SaveReply(g) PROVE IInv'
  <2>1. TypeOK'
    BY <1>17 DEF SaveReply, TypeOK, Fresh, Guarded, Holder, Bounded
  <2>2. Fresh'
    BY <1>17 DEF SaveReply, TypeOK, Fresh, Guarded, Holder, Bounded
  <2>3. Guarded'
    BY <1>17 DEF SaveReply, TypeOK, Fresh, Guarded, Holder, Bounded
  <2>4. Holder'
    BY <1>17 DEF SaveReply, TypeOK, Fresh, Guarded, Holder, Bounded
  <2>5. Bounded'
    BY <1>17 DEF SaveReply, TypeOK, Fresh, Guarded, Holder, Bounded
  <2> QED BY <2>1, <2>2, <2>3, <2>4, <2>5
<1>18. ASSUME NEW g \in Turns, ReleaseStorage(g) PROVE IInv'
  <2>1. TypeOK'
    BY <1>18 DEF ReleaseStorage, TypeOK, Fresh, Guarded, Holder, Bounded
  <2>2. Fresh'
    BY <1>18 DEF ReleaseStorage, TypeOK, Fresh, Guarded, Holder, Bounded
  <2>3. Guarded'
    BY <1>18 DEF ReleaseStorage, TypeOK, Fresh, Guarded, Holder, Bounded
  <2>4. Holder'
    BY <1>18 DEF ReleaseStorage, TypeOK, Fresh, Guarded, Holder, Bounded
  <2>5. Bounded'
    BY <1>18 DEF ReleaseStorage, TypeOK, Fresh, Guarded, Holder, Bounded
  <2> QED BY <2>1, <2>2, <2>3, <2>4, <2>5
<1>19. ASSUME NEW g \in Turns, Signal(g) PROVE IInv'
  <2>1. TypeOK'
    BY <1>19 DEF Signal, TypeOK, Fresh, Guarded, Holder, Bounded
  <2>2. Fresh'
    BY <1>19 DEF Signal, TypeOK, Fresh, Guarded, Holder, Bounded
  <2>3. Guarded'
    BY <1>19 DEF Signal, TypeOK, Fresh, Guarded, Holder, Bounded
  <2>4. Holder'
    BY <1>19 DEF Signal, TypeOK, Fresh, Guarded, Holder, Bounded
  <2>5. Bounded'
    BY <1>19 DEF Signal, TypeOK, Fresh, Guarded, Holder, Bounded
  <2> QED BY <2>1, <2>2, <2>3, <2>4, <2>5
<1>20. ASSUME NEW g \in Turns, ClearIf(g) PROVE IInv'
  <2>1. TypeOK'
    BY <1>20 DEF ClearIf, TypeOK, Fresh, Guarded, Holder, Bounded
  <2>2. Fresh'
    BY <1>20 DEF ClearIf, TypeOK, Fresh, Guarded, Holder, Bounded
  <2>3. Guarded'
    BY <1>20 DEF ClearIf, TypeOK, Fresh, Guarded, Holder, Bounded
  <2>4. Holder'
    BY <1>20 DEF ClearIf, TypeOK, Fresh, Guarded, Holder, Bounded
  <2>5. Bounded'
    BY <1>20 DEF ClearIf, TypeOK, Fresh, Guarded, Holder, Bounded
  <2> QED BY <2>1, <2>2, <2>3, <2>4, <2>5
<1>21. ASSUME NEW g \in Turns, Abort(g) PROVE IInv'
  <2>1. TypeOK'
    BY <1>21 DEF Abort, TypeOK, Fresh, Guarded, Holder, Bounded
  <2>2. Fresh'
    BY <1>21 DEF Abort, TypeOK, Fresh, Guarded, Holder, Bounded
  <2>3. Guarded'
    BY <1>21 DEF Abort, TypeOK, Fresh, Guarded, Holder, Bounded
  <2>4. Holder'
    BY <1>21 DEF Abort, TypeOK, Fresh, Guarded, Holder, Bounded
  <2>5. Bounded'
    BY <1>21 DEF Abort, TypeOK, Fresh, Guarded, Holder, Bounded
  <2> QED BY <2>1, <2>2, <2>3, <2>4, <2>5
<1>22. ASSUME NEW r \in Requests, CancelCurrent(r) PROVE IInv'
  <2>1. CASE current = None
    <3>1. /\ handler' = [handler EXCEPT ![r] = AfterCancel(r)]
          /\ UNCHANGED <<locks, holding, kept, streams, rights, current, task, reply>>
          /\ r \in Turns => handler[r] = "superseding"
      BY <1>22, <2>1 DEF CancelCurrent
    <3>2. TypeOK'
      BY <3>1 DEF TypeOK
    <3>3. Fresh'
      BY <3>1 DEF Fresh, TypeOK
    <3>4. Guarded'
      BY <3>1 DEF Guarded
    <3>5. Holder'
      BY <3>1 DEF Holder, TypeOK
    <3>6. Bounded'
      BY <3>1 DEF Bounded
    <3> QED BY <3>2, <3>3, <3>4, <3>5, <3>6
  <2>2. CASE current # None
    <3> DEFINE g == current
               keep == ~persisted[g] /\ g \in Saved /\ partial[g] > 0
    <3>1. g \in Turns /\ task[g] # "none"
      BY <2>2 DEF TypeOK, Fresh
    <3>2. /\ current' = None
          /\ abort' = [abort EXCEPT ![g] = TRUE]
          /\ cancel' = [cancel EXCEPT ![g] = TRUE]
          /\ persisted' = [persisted EXCEPT ![g] = TRUE]
          /\ holding' = [holding EXCEPT ![r] = g]
          /\ kept' = [kept EXCEPT ![r] = IF keep THEN partial[g] ELSE 0]
          /\ tracker_lock' = IF keep THEN r ELSE None
          /\ handler' = [handler EXCEPT ![r] =
                            IF keep THEN "saving" ELSE AfterCancel(r)]
          /\ UNCHANGED <<runtime_update, storage_lock, streams, claimed, task, reply>>
      BY <1>22, <2>2 DEF CancelCurrent
    <3>3. tracker_lock = None /\ (r \in Turns => handler[r] = "superseding")
      BY <1>22 DEF CancelCurrent
    <3> HIDE DEF keep
    <3>4. keep => ~claimed[g] /\ reply[g] = NoReply
      BY <3>1 DEF keep, TypeOK, Guarded
    <3>5. TypeOK'
      BY <3>1, <3>2 DEF TypeOK
    <3>6. Fresh'
      BY <3>1, <3>2, <3>3 DEF Fresh, TypeOK
    <3>7. Guarded'
      BY <3>1, <3>2 DEF Guarded, TypeOK
    <3>8. Holder'
      BY <3>1, <3>2, <3>3, <3>4 DEF Holder, TypeOK
    <3>9. Bounded'
      BY <3>1, <3>2 DEF Bounded, TypeOK
    <3> QED BY <3>5, <3>6, <3>7, <3>8, <3>9
  <2> QED BY <2>1, <2>2
<1>23. ASSUME NEW r \in Requests, SaveKept(r) PROVE IInv'
  <2>1. TypeOK'
    BY <1>23 DEF SaveKept, TypeOK, Fresh, Guarded, Holder, Bounded
  <2>2. Fresh'
    BY <1>23 DEF SaveKept, TypeOK, Fresh, Guarded, Holder, Bounded
  <2>3. Guarded'
    BY <1>23 DEF SaveKept, TypeOK, Fresh, Guarded, Holder, Bounded
  <2>4. Holder'
    BY <1>23 DEF SaveKept, TypeOK, Fresh, Guarded, Holder, Bounded
  <2>5. Bounded'
    BY <1>23 DEF SaveKept, TypeOK, Fresh, Guarded, Holder, Bounded
  <2> QED BY <2>1, <2>2, <2>3, <2>4, <2>5
<1>24. ASSUME NEW r \in Requests, Disconnect(r) PROVE IInv'
  <2>1. TypeOK'
    BY <1>24 DEF Disconnect, TypeOK, Fresh, Guarded, Holder, Bounded
  <2>2. Fresh'
    BY <1>24 DEF Disconnect, TypeOK, Fresh, Guarded, Holder, Bounded
  <2>3. Guarded'
    BY <1>24 DEF Disconnect, TypeOK, Fresh, Guarded, Holder, Bounded
  <2>4. Holder'
    BY <1>24 DEF Disconnect, TypeOK, Fresh, Guarded, Holder, Bounded
  <2>5. Bounded'
    BY <1>24 DEF Disconnect, TypeOK, Fresh, Guarded, Holder, Bounded
  <2> QED BY <2>1, <2>2, <2>3, <2>4, <2>5
<1>25. CASE UNCHANGED vars
  BY <1>25 DEF vars, TypeOK, Fresh, Guarded, Holder, Bounded
<1> QED
  BY <1>1, <1>2, <1>3, <1>4, <1>5, <1>6, <1>7, <1>8, <1>9, <1>10, <1>11, <1>12, <1>13, <1>14, <1>15, <1>16, <1>17, <1>18, <1>19, <1>20, <1>21, <1>22, <1>23, <1>24, <1>25
     DEF Next, Handler, Stop, Streaming, Finishing

\* Every state of every behaviour satisfies the inductive invariant.
THEOREM Inductive == Spec => []IInv
BY InitIInv, StepIInv, PTL DEF Spec

\* The state of a turn, a request and a lock is always well formed: no text
\* grows past what was streamed plus the document's note.
THEOREM GenerationTypeOK == Spec => []TypeOK
BY Inductive, PTL DEF IInv

LEMMA IInvOneWriter == IInv => OneWriter
<1> SUFFICES ASSUME IInv, NEW g \in Turns
             PROVE  /\ Cardinality(Writers(g)) <= 1
                    /\ Writers(g) # {} => persisted[g] /\ reply[g] = NoReply
  BY DEF OneWriter
<1> DEFINE Owns == claimed[g] /\ task[g] \in {"claimed", "document", "save", "wantStorage"}
<1>1. \A r \in Requests : handler[r] = "saving" /\ holding[r] = g
          => r = tracker_lock /\ persisted[g] /\ reply[g] = NoReply /\ ~claimed[g]
  BY DEF IInv, Holder
<1>2. Owns => persisted[g] /\ reply[g] = NoReply
  BY DEF IInv, Guarded
<1> DEFINE Stoppers == {r \in Requests : handler[r] = "saving" /\ holding[r] = g}
<1>3. Writers(g) = Stoppers \union (IF Owns THEN {g} ELSE {})
  BY DEF Writers
<1> HIDE DEF Owns
<1>4. \E x : Writers(g) \subseteq {x}
  <2>1. CASE Owns
    <3>1. Stoppers = {}
      BY <1>1, <2>1 DEF Owns
    <3> QED BY <1>3, <2>1, <3>1
  <2>2. CASE ~Owns
    <3>1. Stoppers \subseteq {tracker_lock}
      BY <1>1
    <3> QED BY <1>3, <2>2, <3>1
  <2> QED BY <2>1, <2>2
<1>5. Cardinality(Writers(g)) <= 1
  <2>1. PICK x : Writers(g) \subseteq {x}
    BY <1>4
  <2>2. Writers(g) = {} \/ Writers(g) = {x}
    BY <2>1
  <2>3. Cardinality({}) = 0
    BY FS_EmptySet
  <2>4. Cardinality({x}) = 1
    BY FS_Singleton
  <2>5. CASE Writers(g) = {}
    BY <2>3, <2>5
  <2>6. CASE Writers(g) = {x}
    BY <2>4, <2>6
  <2> QED BY <2>2, <2>5, <2>6
<1>6. Writers(g) # {} => persisted[g] /\ reply[g] = NoReply
  BY <1>1, <1>2, <1>3
<1> QED BY <1>5, <1>6

\* A reply is stored at most once: however Stop, a superseding turn, the task
\* and dropped connections interleave, at most one of them still holds the
\* right to store it, and nobody does once it was used.
THEOREM GenerationOneWriter == Spec => []OneWriter
BY Inductive, IInvOneWriter, PTL

-----------------------------------------------------------------------------
(* Who is tracked, who was taken over, what was stored.                    *)

\* One handler at a time is past the try_lock; from the moment it has taken the
\* running reply over until it registers its own, nothing is tracked.
OneHandler ==
    \A g \in Turns :
        /\ handler[g] \in {"setup", "superseding", "saving", "spawning", "inserting"}
              => runtime_update = g
        /\ handler[g] \in {"saving", "spawning", "inserting"} => current = None
        /\ handler[g] = "rejected" => task[g] = "none"

\* The flag is set before the task is aborted, and by nobody who leaves no trace.
Taken ==
    /\ \A g \in Turns :
          /\ abort[g] => persisted[g]
          /\ task[g] = "aborted" => abort[g]
          /\ task[g] \in {"claimed", "document", "save", "wantStorage", "stored",
                         "clear", "wantTracker", "finished"} => persisted[g]
          /\ persisted[g] /\ ~claimed[g] => \E r \in Requests : holding[r] = g
    /\ \A r \in Requests :
          handler[r] \in {"idle", "setup", "superseding", "rejected"} => holding[r] = None

\* The task's own word for what it stored.
StoredByTask(g) ==
    \/ reply[g].by = "refused"
    \/ reply[g].by = "task" /\ reply[g].text = partial[g]
    \/ reply[g].by = "error" /\ partial[g] = 0

TaskStores ==
    \A g \in Saved :
        task[g] \in {"stored", "clear", "wantTracker", "finished"} /\ claimed[g]
            => StoredByTask(g)

JInv == IInv /\ OneHandler /\ NoOrphan /\ Taken /\ StopKeepsWhatItTook /\ TaskStores

LEMMA InitJInv == Init => JInv
BY InitIInv, GenerationAssumption
   DEF Init, JInv, OneHandler, NoOrphan, Taken, StopKeepsWhatItTook, TaskStores,
       Requests, Live, Parked, Polled

LEMMA StepOneHandler == JInv /\ [Next]_vars => OneHandler'
<1> SUFFICES ASSUME JInv, [Next]_vars PROVE OneHandler'
  OBVIOUS
<1> USE GenerationAssumption
    DEF JInv, IInv, TypeOK, Fresh, Holder, OneHandler, Requests, HandlerAt, Parked, Polled, Over,
        locks, requests, streams, rights, Goto, Run, AddMessage, AfterCancel
<1>1. ASSUME NEW g \in Turns, Reject(g) \/ Begin(g) \/ AnswerWithoutModel(g) \/ Prepare(g) PROVE OneHandler'
  BY <1>1 DEF Reject, Begin, AnswerWithoutModel, Prepare
<1>2. ASSUME NEW g \in Turns, Spawn(g) \/ Insert(g) PROVE OneHandler'
  BY <1>2 DEF Spawn, Insert
<1>3. ASSUME NEW r \in Requests, CancelCurrent(r) PROVE OneHandler'
  BY <1>3 DEF CancelCurrent
<1>4. ASSUME NEW r \in Requests, SaveKept(r) \/ Disconnect(r) PROVE OneHandler'
  BY <1>4 DEF SaveKept, Disconnect
<1>5. ASSUME NEW g \in Turns, Streaming(g) PROVE OneHandler'
  BY <1>5 DEF Streaming, Chunk, Push, EndStream, NextRound
<1>6. ASSUME NEW g \in Turns, Finishing(g) PROVE OneHandler'
  BY <1>6 DEF Finishing, Claim, BeginDocument, EndDocument, NoDocument, SkipSave, AwaitStorage, SaveReply, ReleaseStorage, Signal, ClearIf
<1>7. ASSUME NEW g \in Turns, Abort(g) PROVE OneHandler'
  BY <1>7 DEF Abort
<1>8. CASE UNCHANGED vars
  BY <1>8 DEF vars
<1> QED
  BY <1>1, <1>2, <1>3, <1>4, <1>5, <1>6, <1>7, <1>8 DEF Next, Handler, Stop

\* Claim takes the right only if nobody has it.
LEMMA ClaimedValue ==
    ASSUME claimed \in [Turns -> BOOLEAN], NEW g \in Turns,
           claimed' = [claimed EXCEPT ![g] = ~persisted[g]]
    PROVE  claimed'[g] = ~persisted[g]
BY Zenon

LEMMA StepNoOrphan == JInv /\ [Next]_vars => NoOrphan'
<1> SUFFICES ASSUME JInv, [Next]_vars PROVE NoOrphan'
  OBVIOUS
<1> USE GenerationAssumption
    DEF JInv, IInv, TypeOK, Fresh, OneHandler, NoOrphan, Live, Requests, HandlerAt, Parked, Polled, Over,
        locks, requests, streams, rights, Goto, Run, AfterCancel
<1>1. ASSUME NEW g \in Turns, Reject(g) \/ Begin(g) \/ Prepare(g) \/ AnswerWithoutModel(g)
      PROVE  NoOrphan'
  BY <1>1 DEF Reject, Begin, Prepare, AnswerWithoutModel, AddMessage
<1>2. ASSUME NEW g \in Turns, Spawn(g) \/ Insert(g) PROVE NoOrphan'
  BY <1>2 DEF Spawn, Insert
<1>3. ASSUME NEW r \in Requests, CancelCurrent(r) PROVE NoOrphan'
  BY <1>3 DEF CancelCurrent
<1>4. ASSUME NEW r \in Requests, SaveKept(r) PROVE NoOrphan'
  BY <1>4 DEF SaveKept, AddMessage
<1>5. ASSUME NEW r \in Requests, Disconnect(r) PROVE NoOrphan'
  BY <1>5 DEF Disconnect
<1>6. ASSUME NEW g \in Turns, Streaming(g) PROVE NoOrphan'
  BY <1>6 DEF Streaming, Chunk, Push, EndStream, NextRound
<1>7. ASSUME NEW g \in Turns, SaveReply(g) PROVE NoOrphan'
  BY <1>7 DEF SaveReply, AddMessage
<1>8. ASSUME NEW g \in Turns, Claim(g) \/ BeginDocument(g) \/ EndDocument(g) \/ NoDocument(g) \/ SkipSave(g)
      PROVE  NoOrphan'
  BY <1>8 DEF Claim, BeginDocument, EndDocument, NoDocument, SkipSave
<1>9. ASSUME NEW g \in Turns, AwaitStorage(g) \/ ReleaseStorage(g) \/ Signal(g) \/ ClearIf(g)
      PROVE  NoOrphan'
  BY <1>9 DEF AwaitStorage, ReleaseStorage, Signal, ClearIf
<1>10. ASSUME NEW g \in Turns, Abort(g) PROVE NoOrphan'
  BY <1>10 DEF Abort
<1>11. CASE UNCHANGED vars
  BY <1>11 DEF vars
<1> HIDE DEF JInv, NoOrphan
<1> QED
  BY <1>1, <1>2, <1>3, <1>4, <1>5, <1>6, <1>7, <1>8, <1>9, <1>10, <1>11
     DEF Next, Handler, Stop, Finishing

LEMMA StepTaken == JInv /\ [Next]_vars => Taken'
<1> SUFFICES ASSUME JInv, [Next]_vars PROVE Taken'
  OBVIOUS
<1> USE GenerationAssumption
    DEF JInv, IInv, TypeOK, Fresh, Guarded, Holder, Taken, Requests, HandlerAt, Parked, Polled, Over,
        locks, requests, streams, rights, Goto, Run, AfterCancel
<1>1. ASSUME NEW g \in Turns, Reject(g) \/ Begin(g) \/ Prepare(g) \/ AnswerWithoutModel(g)
      PROVE  Taken'
  BY <1>1 DEF Reject, Begin, Prepare, AnswerWithoutModel, AddMessage
<1>2. ASSUME NEW g \in Turns, Spawn(g) \/ Insert(g) PROVE Taken'
  BY <1>2 DEF Spawn, Insert
<1>3. ASSUME NEW r \in Requests, CancelCurrent(r) PROVE Taken'
  BY <1>3, SMTT(40) DEF CancelCurrent
<1>4. ASSUME NEW r \in Requests, SaveKept(r) PROVE Taken'
  BY <1>4 DEF SaveKept, AddMessage
<1>5. ASSUME NEW r \in Requests, Disconnect(r) PROVE Taken'
  BY <1>5 DEF Disconnect
<1>6. ASSUME NEW g \in Turns, Streaming(g) PROVE Taken'
  BY <1>6 DEF Streaming, Chunk, Push, EndStream, NextRound
<1>7. ASSUME NEW g \in Turns, SaveReply(g) PROVE Taken'
  BY <1>7 DEF SaveReply, AddMessage
<1>8. ASSUME NEW g \in Turns, Claim(g) \/ BeginDocument(g) \/ EndDocument(g) \/ NoDocument(g) \/ SkipSave(g)
      PROVE  Taken'
  <2>1. CASE Claim(g)
    <3>1. /\ task[g] = "ended" /\ task' = [task EXCEPT ![g] = "claimed"]
          /\ persisted' = [persisted EXCEPT ![g] = TRUE]
          /\ claimed' = [claimed EXCEPT ![g] = ~persisted[g]]
          /\ UNCHANGED <<handler, holding, abort>>
      BY <2>1 DEF Claim
    <3>2. ASSUME NEW h \in Turns, persisted'[h], ~claimed'[h]
          PROVE  \E r \in Requests : holding[r] = h
      <4>1. persisted[h] /\ ~claimed[h]
        <5>1. CASE h = g
          <6>1. claimed'[g] = ~persisted[g]
            BY <3>1, ClaimedValue
          <6>2. persisted[g]
            BY <3>2, <5>1, <6>1
          <6>3. ~claimed[g]
            BY <3>1
          <6> QED BY <5>1, <6>2, <6>3
        <5>2. CASE h # g
          BY <3>1, <3>2, <5>2
        <5> QED BY <5>1, <5>2
      <4> QED BY <4>1
    <3> QED BY <3>1, <3>2
  <2>2. CASE BeginDocument(g) \/ EndDocument(g) \/ NoDocument(g) \/ SkipSave(g)
    BY <2>2 DEF BeginDocument, EndDocument, NoDocument, SkipSave
  <2> QED BY <1>8, <2>1, <2>2
<1>9. ASSUME NEW g \in Turns, AwaitStorage(g) \/ ReleaseStorage(g) \/ Signal(g) \/ ClearIf(g)
      PROVE  Taken'
  BY <1>9 DEF AwaitStorage, ReleaseStorage, Signal, ClearIf
<1>10. ASSUME NEW g \in Turns, Abort(g) PROVE Taken'
  BY <1>10 DEF Abort
<1>11. CASE UNCHANGED vars
  BY <1>11 DEF vars
<1> HIDE DEF JInv, Taken
<1> QED
  BY <1>1, <1>2, <1>3, <1>4, <1>5, <1>6, <1>7, <1>8, <1>9, <1>10, <1>11
     DEF Next, Handler, Stop, Finishing

LEMMA StepStopKeepsWhatItTook == JInv /\ [Next]_vars => StopKeepsWhatItTook'
<1> SUFFICES ASSUME JInv, [Next]_vars PROVE StopKeepsWhatItTook'
  OBVIOUS
<1> USE GenerationAssumption
    DEF JInv, IInv, TypeOK, Holder, NoReply, Taken, StopKeepsWhatItTook, Requests, HandlerAt, Parked, Polled, Over,
        locks, requests, streams, rights, Goto, Run, AfterCancel
<1>1. ASSUME NEW g \in Turns, Reject(g) \/ Begin(g) \/ Prepare(g) \/ AnswerWithoutModel(g)
      PROVE  StopKeepsWhatItTook'
  BY <1>1 DEF Reject, Begin, Prepare, AnswerWithoutModel, AddMessage
<1>2. ASSUME NEW g \in Turns, Spawn(g) \/ Insert(g) PROVE StopKeepsWhatItTook'
  BY <1>2 DEF Spawn, Insert
<1>3. ASSUME NEW r \in Requests, CancelCurrent(r) PROVE StopKeepsWhatItTook'
  BY <1>3 DEF CancelCurrent
<1>4. ASSUME NEW r \in Requests, SaveKept(r) PROVE StopKeepsWhatItTook'
  BY <1>4 DEF SaveKept, AddMessage
<1>5. ASSUME NEW r \in Requests, Disconnect(r) PROVE StopKeepsWhatItTook'
  BY <1>5 DEF Disconnect
<1>6. ASSUME NEW g \in Turns, Streaming(g) PROVE StopKeepsWhatItTook'
  BY <1>6 DEF Streaming, Chunk, Push, EndStream, NextRound
<1>7. ASSUME NEW g \in Turns, SaveReply(g) PROVE StopKeepsWhatItTook'
  BY <1>7 DEF SaveReply, AddMessage
<1>8. ASSUME NEW g \in Turns, Claim(g) \/ BeginDocument(g) \/ EndDocument(g) \/ NoDocument(g) \/ SkipSave(g)
      PROVE  StopKeepsWhatItTook'
  BY <1>8 DEF Claim, BeginDocument, EndDocument, NoDocument, SkipSave
<1>9. ASSUME NEW g \in Turns, AwaitStorage(g) \/ ReleaseStorage(g) \/ Signal(g) \/ ClearIf(g)
      PROVE  StopKeepsWhatItTook'
  BY <1>9 DEF AwaitStorage, ReleaseStorage, Signal, ClearIf
<1>10. ASSUME NEW g \in Turns, Abort(g) PROVE StopKeepsWhatItTook'
  BY <1>10 DEF Abort
<1>11. CASE UNCHANGED vars
  BY <1>11 DEF vars
<1> HIDE DEF JInv, StopKeepsWhatItTook
<1> QED
  BY <1>1, <1>2, <1>3, <1>4, <1>5, <1>6, <1>7, <1>8, <1>9, <1>10, <1>11
     DEF Next, Handler, Stop, Finishing

LEMMA StepTaskStores == JInv /\ [Next]_vars => TaskStores'
<1> SUFFICES ASSUME JInv, [Next]_vars PROVE TaskStores'
  OBVIOUS
<1> USE GenerationAssumption
    DEF JInv, IInv, TypeOK, Fresh, Guarded, Holder, NoReply, TaskStores, StoredByTask, Requests, HandlerAt, Parked, Polled, Over,
        locks, requests, streams, rights, Goto, Run, AfterCancel
<1>1. ASSUME NEW g \in Turns, Reject(g) \/ Begin(g) \/ Prepare(g) \/ AnswerWithoutModel(g)
      PROVE  TaskStores'
  BY <1>1 DEF Reject, Begin, Prepare, AnswerWithoutModel, AddMessage
<1>2. ASSUME NEW g \in Turns, Spawn(g) \/ Insert(g) PROVE TaskStores'
  BY <1>2 DEF Spawn, Insert
<1>3. ASSUME NEW r \in Requests, CancelCurrent(r) PROVE TaskStores'
  BY <1>3 DEF CancelCurrent
<1>4. ASSUME NEW r \in Requests, SaveKept(r) PROVE TaskStores'
  BY <1>4 DEF SaveKept, AddMessage
<1>5. ASSUME NEW r \in Requests, Disconnect(r) PROVE TaskStores'
  BY <1>5 DEF Disconnect
<1>6. ASSUME NEW g \in Turns, Streaming(g) PROVE TaskStores'
  BY <1>6 DEF Streaming, Chunk, Push, EndStream, NextRound
<1>7. ASSUME NEW g \in Turns, SaveReply(g) PROVE TaskStores'
  BY <1>7 DEF SaveReply, AddMessage
<1>8. ASSUME NEW g \in Turns, Claim(g) \/ BeginDocument(g) \/ EndDocument(g) \/ NoDocument(g) \/ SkipSave(g)
      PROVE  TaskStores'
  BY <1>8 DEF Claim, BeginDocument, EndDocument, NoDocument, SkipSave
<1>9. ASSUME NEW g \in Turns, AwaitStorage(g) \/ ReleaseStorage(g) \/ Signal(g) \/ ClearIf(g)
      PROVE  TaskStores'
  BY <1>9 DEF AwaitStorage, ReleaseStorage, Signal, ClearIf
<1>10. ASSUME NEW g \in Turns, Abort(g) PROVE TaskStores'
  BY <1>10 DEF Abort
<1>11. CASE UNCHANGED vars
  BY <1>11 DEF vars
<1> HIDE DEF JInv, TaskStores
<1> QED
  BY <1>1, <1>2, <1>3, <1>4, <1>5, <1>6, <1>7, <1>8, <1>9, <1>10, <1>11
     DEF Next, Handler, Stop, Finishing

LEMMA StepJInv == JInv /\ [Next]_vars => JInv'
BY StepIInv, StepOneHandler, StepNoOrphan, StepTaken, StepStopKeepsWhatItTook, StepTaskStores
   DEF JInv

\* Every state of every behaviour satisfies the invariant of tracking and storing.
THEOREM Tracking == Spec => []JInv
BY InitJInv, StepJInv, PTL DEF Spec

\* What cancel_current took over is what the conversation holds, whatever else
\* was stored, stopped or dropped since.
THEOREM GenerationStopKeepsWhatItTook == Spec => []StopKeepsWhatItTook
BY Tracking, PTL DEF JInv

LEMMA JInvDoneIsStored == JInv => DoneIsStored
BY DEF JInv, TaskStores, StoredByTask, DoneIsStored

\* A reply announced as done is stored with all its text, unless Stop has it.
THEOREM GenerationDoneIsStored == Spec => []DoneIsStored
BY Tracking, JInvDoneIsStored, PTL

\* A generation that runs on after its request was answered can be stopped.
THEOREM GenerationNoOrphan == Spec => []NoOrphan
BY Tracking, PTL DEF JInv

LEMMA JInvOneLive == JInv => OneLive
<1> SUFFICES ASSUME JInv,
                    NEW g \in Turns, Live(g), ~abort[g], handler[g] # "dropped",
                    NEW h \in Turns, Live(h), ~abort[h], handler[h] # "dropped"
             PROVE  g = h
  BY DEF OneLive
\* The task of a live generation was spawned: its handler registers it or has answered.
<1>1. ASSUME NEW t \in Turns, Live(t), handler[t] # "dropped"
      PROVE  handler[t] \in {"inserting", "answered"}
  <2>1. handler[t] \in HandlerAt /\ task[t] # "none"
    BY <1>1 DEF JInv, IInv, TypeOK, Requests, Live, Parked, Polled
  <2> QED BY <1>1, <2>1 DEF JInv, IInv, Fresh, OneHandler, HandlerAt
<1>2. ASSUME NEW t \in Turns, handler[t] = "inserting"
      PROVE  runtime_update = t /\ current = None
  BY <1>2 DEF JInv, OneHandler
<1>3. ASSUME NEW t \in Turns, Live(t), ~abort[t], handler[t] = "answered"
      PROVE  current = t /\ current # None
  BY <1>3, GenerationAssumption DEF JInv, NoOrphan
<1> QED BY <1>1, <1>2, <1>3

\* At most one generation that nobody has cancelled runs on the model server.
THEOREM GenerationOneLive == Spec => []OneLive
BY Tracking, JInvOneLive, PTL

LEMMA JInvLostOnlyByItsOwner == JInv => LostOnlyByItsOwner
<1> SUFFICES ASSUME JInv, NEW g \in Turns, LostText(g)
             PROVE  \/ claimed[g] /\ task[g] = "aborted"
                    \/ \E r \in Requests : handler[r] = "dropped" /\ holding[r] = g
                    \/ LateText(g)
  BY DEF LostOnlyByItsOwner
<1>1. /\ g \in Saved /\ task[g] \in {"finished", "aborted"}
      /\ Writers(g) = {} /\ reply[g] = NoReply
  BY DEF LostText, Over
<1>2. CASE claimed[g] /\ task[g] = "finished"
  \* Impossible: the task has stored it.
  BY <1>1, <1>2 DEF JInv, TaskStores, StoredByTask, NoReply
<1>3. CASE ~claimed[g]
  <2>1. persisted[g]
    BY <1>1 DEF JInv, Taken
  <2>2. PICK r \in Requests : holding[r] = g
    BY <1>3, <2>1 DEF JInv, Taken
  <2>3. handler[r] # "saving"
    BY <1>1, <2>2 DEF Writers
  <2>4. CASE kept[r] = 0
    BY <1>3, <2>2, <2>4 DEF LateText
  <2>5. CASE kept[r] # 0 /\ handler[r] # "dropped"
    <3>1. kept[r] > 0 /\ g # None
      BY <2>5, GenerationAssumption DEF JInv, IInv, TypeOK
    <3>2. reply[g] \in {[by |-> "stop", text |-> kept[r]], [by |-> "refused", text |-> 0]}
      BY <2>2, <2>3, <2>5, <3>1 DEF JInv, StopKeepsWhatItTook
    <3>3. reply[g].by \in {"stop", "refused"}
      BY <3>2
    <3> QED BY <1>1, <3>3 DEF NoReply
  <2> QED BY <2>2, <2>4, <2>5
<1> QED BY <1>1, <1>2, <1>3

\* Streamed text is lost by its owner only: nobody else's step can lose it.
THEOREM GenerationLostOnlyByItsOwner == Spec => []LostOnlyByItsOwner
BY Tracking, JInvLostOnlyByItsOwner, PTL

-----------------------------------------------------------------------------
(* The refinement of Reply, step by step.                                  *)

\* A request that is storing what it took over of g, the task that still may.
Kept(g) == \E r \in Requests : handler[r] = "saving" /\ holding[r] = g
Owns(g) == claimed[g] /\ task[g] \in {"claimed", "document", "save", "wantStorage"}

\* The phase of g without its set of writers.
Place(g) ==
    IF reply[g].by # "nobody" THEN "over"
    ELSE IF task[g] = "none" THEN "none"
    ELSE IF ~persisted[g] THEN "open"
    ELSE IF Owns(g) THEN "task"
    ELSE IF Kept(g) THEN "stop" ELSE "over"

LEMMA PhaseIsPlace == JInv => \A g \in Turns : Phase(g) = Place(g)
<1> SUFFICES ASSUME JInv, NEW g \in Turns PROVE Phase(g) = Place(g)
  OBVIOUS
<1>1. Writers(g) # {} <=> Kept(g) \/ Owns(g)
  BY DEF Writers, Kept, Owns
<1>2. Owns(g) => claimed[g]
  BY DEF Owns
<1>3. Kept(g) => ~claimed[g]
  BY DEF Kept, JInv, IInv, Holder
<1> HIDE DEF Kept, Owns
<1> QED BY <1>1, <1>2, <1>3 DEF Phase, Place

LEMMA PhaseIsPlaceNext == JInv' => (\A g \in Turns : Phase(g) = Place(g))'
BY PhaseIsPlace, PTL

\* One reply moves, the others stay ...
Moves(g, from, to, by) ==
    /\ Place(g) = from /\ Place(g)' = to /\ reply'[g].by = by
    /\ \A h \in Turns \ {g} : Place(h)' = Place(h) /\ reply'[h].by = reply[h].by

\* ... or all of them do.
Stays == \A h \in Turns : Place(h)' = Place(h) /\ reply'[h].by = reply[h].by

LEMMA MovesBecomes ==
    ASSUME JInv, JInv', NEW g \in Turns, NEW from, NEW to, NEW by, Moves(g, from, to, by)
    PROVE  ReplyOf!Becomes(g, from, to, by)
<1>1. \A h \in Turns : Phase(h) = Place(h) /\ Phase(h)' = Place(h)'
  BY PhaseIsPlace, PhaseIsPlaceNext
<1> HIDE DEF Phase, Place
<1> QED BY <1>1 DEF Moves, ReplyOf!Becomes

LEMMA StaysStutters ==
    ASSUME JInv, JInv', Stays
    PROVE  UNCHANGED ReplyOf!vars
<1>1. \A h \in Turns : Phase(h) = Place(h) /\ Phase(h)' = Place(h)'
  BY PhaseIsPlace, PhaseIsPlaceNext
<1> HIDE DEF Phase, Place
<1> QED BY <1>1 DEF Stays, ReplyOf!vars

\* What most steps leave alone: nobody starts or ends storing a text.
LEMMA Bystander ==
    ASSUME JInv, NEW r \in Requests, NEW at,
           handler' = [handler EXCEPT ![r] = at], handler[r] # "saving", at # "saving",
           UNCHANGED <<holding, claimed, persisted, task, reply>>
    PROVE  Stays
<1>1. \A h \in Turns : Kept(h)' <=> Kept(h)
  <2>1. handler \in [Requests -> HandlerAt]
    BY DEF JInv, IInv, TypeOK
  <2> QED BY <2>1 DEF Kept
<1>2. \A h \in Turns : Owns(h)' <=> Owns(h)
  BY DEF Owns
<1> HIDE DEF Kept, Owns
<1> QED BY <1>1, <1>2 DEF Stays, Place

\* The task of g goes from one place to another and keeps what it has.
LEMMA TaskGoesOn ==
    ASSUME JInv, NEW g \in Turns, NEW from, NEW to, Run(g, from, to),
           from # "none", to # "none",
           claimed[g] => (from \in {"claimed", "document", "save", "wantStorage"}
                            <=> to \in {"claimed", "document", "save", "wantStorage"}),
           UNCHANGED <<handler, holding, claimed, persisted, reply>>
    PROVE  Stays
<1>1. task \in [Turns -> {"none"} \union Parked \union Polled \union Over]
  BY DEF JInv, IInv, TypeOK
<1>2. \A h \in Turns : Kept(h)' <=> Kept(h)
  BY DEF Kept
<1>3. \A h \in Turns : Owns(h)' <=> Owns(h)
  BY <1>1 DEF Owns, Run
<1>4. \A h \in Turns : task[h] = "none" <=> task'[h] = "none"
  BY <1>1 DEF Run
<1> HIDE DEF Kept, Owns
<1> QED BY <1>2, <1>3, <1>4 DEF Stays, Place

LEMMA StepStays ==
    ASSUME JInv, NEW g \in Turns,
           \/ Reject(g) \/ Begin(g) \/ Prepare(g) \/ Insert(g) \/ Streaming(g)
           \/ BeginDocument(g) \/ EndDocument(g) \/ NoDocument(g) \/ AwaitStorage(g)
           \/ ReleaseStorage(g) \/ Signal(g) \/ ClearIf(g)
    PROVE  Stays
<1>1. g \in Requests
  BY DEF Requests
<1>2. CASE Reject(g) \/ Begin(g) \/ Prepare(g) \/ Insert(g)
  BY <1>1, <1>2, Bystander
     DEF Reject, Begin, Prepare, Insert, Goto, streams, rights, locks
<1>3. CASE Streaming(g)
  <2>1. CASE Chunk(g)
    BY <2>1, TaskGoesOn DEF Chunk, requests, rights
  <2>2. CASE Push(g)
    BY <2>2, TaskGoesOn DEF Push, requests, rights
  <2>3. CASE EndStream(g)
    BY <2>3, TaskGoesOn DEF EndStream, requests, rights
  <2>4. CASE NextRound(g)
    BY <2>4, TaskGoesOn DEF NextRound, requests, rights
  <2> QED BY <1>3, <2>1, <2>2, <2>3, <2>4 DEF Streaming
<1>4. CASE BeginDocument(g)
  BY <1>4, TaskGoesOn DEF BeginDocument, requests, rights
<1>5. CASE EndDocument(g)
  BY <1>5, TaskGoesOn DEF EndDocument, requests, rights
<1>6. CASE NoDocument(g)
  BY <1>6, TaskGoesOn DEF NoDocument, requests, rights
<1>7. CASE AwaitStorage(g)
  BY <1>7, TaskGoesOn DEF AwaitStorage, requests, rights
<1>8. CASE ReleaseStorage(g)
  BY <1>8, TaskGoesOn DEF ReleaseStorage, requests, rights
<1>9. CASE Signal(g)
  BY <1>9, TaskGoesOn DEF Signal, requests, rights
<1>10. CASE ClearIf(g)
  BY <1>10, TaskGoesOn DEF ClearIf, requests, rights
<1> QED BY <1>2, <1>3, <1>4, <1>5, <1>6, <1>7, <1>8, <1>9, <1>10

\* tokio::spawn opens the reply.
LEMMA SpawnOpens ==
    ASSUME JInv, NEW g \in Turns, Spawn(g)
    PROVE  Moves(g, "none", "open", "nobody")
<1>1. task[g] = "none" /\ reply[g] = NoReply /\ ~persisted[g]
  BY DEF JInv, IInv, Fresh, Spawn
<1>2. /\ task \in [Turns -> {"none"} \union Parked \union Polled \union Over]
      /\ task' = [task EXCEPT ![g] = "stream"]
      /\ UNCHANGED <<persisted, claimed, reply>>
  BY DEF JInv, IInv, TypeOK, Spawn, rights
<1>3. \A h \in Turns : Kept(h)' <=> Kept(h)
  <2>1. /\ handler \in [Requests -> HandlerAt] /\ handler[g] = "spawning"
        /\ handler' = [handler EXCEPT ![g] = "inserting"] /\ UNCHANGED holding
        /\ g \in Requests
    BY DEF JInv, IInv, TypeOK, Spawn, Goto, Requests
  <2> QED BY <2>1 DEF Kept
<1>4. \A h \in Turns : h # g => (Owns(h)' <=> Owns(h)) /\ task'[h] = task[h]
  BY <1>2 DEF Owns
<1>5. task'[g] # "none"
  BY <1>2
<1> HIDE DEF Kept, Owns
<1> QED BY <1>1, <1>2, <1>3, <1>4, <1>5 DEF Moves, Place, NoReply

\* A fixed answer, or none for a turn without a conversation.
LEMMA AnswerMoves ==
    ASSUME JInv, NEW g \in Turns, AnswerWithoutModel(g)
    PROVE  \/ Stays
           \/ reply'[g].by \in {"notice", "refused"} /\ Moves(g, "none", "over", reply'[g].by)
<1>1. /\ task[g] = "none" /\ reply[g] = NoReply /\ reply \in [Turns -> Replies]
      /\ handler[g] = "setup" /\ handler' = [handler EXCEPT ![g] = "answered"]
      /\ g \in Requests
  BY DEF JInv, IInv, Fresh, TypeOK, AnswerWithoutModel, Goto, Requests
<1>2. UNCHANGED <<holding, claimed, persisted, task>>
  BY DEF AnswerWithoutModel, rights
<1>3. CASE g \in Saved
  <2>1. PICK ok \in SaveResults : AddMessage(g, [by |-> "notice", text |-> 0], ok)
    BY <1>3 DEF AnswerWithoutModel
  <2>2. \A h \in Turns : Kept(h)' <=> Kept(h)
    <3>1. handler \in [Requests -> HandlerAt]
      BY DEF JInv, IInv, TypeOK
    <3> QED BY <1>1, <1>2, <3>1 DEF Kept
  <2>3. \A h \in Turns : Owns(h)' <=> Owns(h)
    BY <1>2 DEF Owns
  <2>4. /\ reply'[g].by \in {"notice", "refused"}
        /\ \A h \in Turns \ {g} : reply'[h] = reply[h]
    BY <1>1, <2>1 DEF AddMessage, NoReply
  <2> HIDE DEF Kept, Owns
  <2> QED BY <1>1, <1>2, <2>2, <2>3, <2>4 DEF Moves, Place, NoReply
<1>4. CASE g \notin Saved
  <2>1. UNCHANGED reply
    BY <1>4 DEF AnswerWithoutModel
  <2> QED BY <1>1, <1>2, <2>1, Bystander
<1> QED BY <1>3, <1>4

\* cancel_current takes the right, finds nothing to keep, or comes too late.
LEMMA CancelMoves ==
    ASSUME JInv, NEW r \in Requests, CancelCurrent(r)
    PROVE  \/ Stays
           \/ \E g \in Turns : \/ Moves(g, "open", "stop", "nobody")
                               \/ Moves(g, "open", "over", "nobody")
<1>1. handler[r] \in {"superseding", "idle"} /\ AfterCancel(r) # "saving"
  BY DEF CancelCurrent, AfterCancel
<1>2. CASE current = None
  <2>1. /\ handler' = [handler EXCEPT ![r] = AfterCancel(r)]
        /\ UNCHANGED <<holding, claimed, persisted, task, reply>>
    BY <1>2 DEF CancelCurrent, Goto, rights
  <2> QED BY <1>1, <2>1, Bystander
<1>3. CASE current # None
  <2>1. PICK g \in Turns : g = current /\ task[g] # "none"
    BY <1>3 DEF JInv, IInv, TypeOK, Fresh
  <2> DEFINE keep == ~persisted[g] /\ g \in Saved /\ partial[g] > 0
  <2>2. /\ persisted' = [persisted EXCEPT ![g] = TRUE]
        /\ holding' = [holding EXCEPT ![r] = g]
        /\ handler' = [handler EXCEPT ![r] = IF keep THEN "saving" ELSE AfterCancel(r)]
        /\ UNCHANGED <<claimed, task, reply>>
    BY <1>3, <2>1 DEF CancelCurrent, Goto
  <2>3. /\ handler \in [Requests -> HandlerAt] /\ persisted \in [Turns -> BOOLEAN]
        /\ holding \in [Requests -> Turns \union {None}]
    BY DEF JInv, IInv, TypeOK
  <2>4. keep => ~persisted[g]
    OBVIOUS
  <2> HIDE DEF keep
  <2>5. \A h \in Turns \ {g} : Kept(h)' <=> Kept(h)
    BY <1>1, <2>2, <2>3 DEF Kept
  <2>6. Kept(g)' <=> Kept(g) \/ keep
    <3>1. /\ \A q \in Requests \ {r} : handler'[q] = handler[q] /\ holding'[q] = holding[q]
          /\ holding'[r] = g /\ handler'[r] = IF keep THEN "saving" ELSE AfterCancel(r)
      BY <2>2, <2>3
    <3>2. CASE keep
      BY <3>1, <3>2 DEF Kept
    <3>3. CASE ~keep
      BY <1>1, <3>1, <3>3 DEF Kept
    <3> QED BY <3>2, <3>3
  <2>7. \A h \in Turns : Owns(h)' <=> Owns(h)
    BY <2>2 DEF Owns
  <2>8. \A h \in Turns \ {g} : persisted'[h] <=> persisted[h]
    BY <2>1, <2>2, <2>3
  <2>9. CASE persisted[g]
    <3>1. \A h \in Turns : (Kept(h)' <=> Kept(h)) /\ (persisted'[h] <=> persisted[h])
      <4>1. persisted'[g]
        BY <2>1, <2>2, <2>3
      <4> QED BY <2>4, <2>5, <2>6, <2>8, <2>9, <4>1
    <3> HIDE DEF Kept, Owns
    <3> QED BY <2>2, <2>7, <3>1 DEF Stays, Place
  <2>10. CASE ~persisted[g]
    <3>1. reply[g].by = "nobody" /\ ~Owns(g) /\ ~Kept(g)
      BY <2>1, <2>10 DEF JInv, IInv, Guarded, Holder, Owns, Kept, NoReply
    <3>2. persisted'[g]
      BY <2>1, <2>2, <2>3
    <3> HIDE DEF Kept, Owns
    <3>3. \A h \in Turns \ {g} : Place(h)' = Place(h) /\ reply'[h].by = reply[h].by
      BY <2>2, <2>5, <2>7, <2>8 DEF Place
    <3>4. Place(g) = "open" /\ reply'[g].by = "nobody"
      BY <2>1, <2>2, <2>10, <3>1 DEF Place
    <3>5. ~Owns(g)'
      BY <2>1, <2>7, <3>1
    <3>6. CASE keep
      <4>1. Place(g)' = "stop"
        BY <2>1, <2>2, <2>6, <3>1, <3>2, <3>5, <3>6 DEF Place
      <4> QED BY <2>1, <3>3, <3>4, <4>1 DEF Moves
    <3>7. CASE ~keep
      <4>1. Place(g)' = "over"
        BY <2>1, <2>2, <2>6, <3>1, <3>2, <3>5, <3>7 DEF Place
      <4> QED BY <2>1, <3>3, <3>4, <4>1 DEF Moves
    <3> QED BY <3>6, <3>7
  <2> QED BY <2>9, <2>10
<1> QED BY <1>2, <1>3

\* The request stores what it took.
LEMMA SaveKeptMoves ==
    ASSUME JInv, NEW r \in Requests, SaveKept(r)
    PROVE  \E g \in Turns : /\ reply'[g].by \in {"stop", "refused"}
                            /\ Moves(g, "stop", "over", reply'[g].by)
<1>1. /\ handler[r] = "saving" /\ tracker_lock = r /\ AfterCancel(r) # "saving"
      /\ handler' = [handler EXCEPT ![r] = AfterCancel(r)]
      /\ UNCHANGED <<holding, claimed, persisted, task>>
  BY DEF SaveKept, AfterCancel, Goto, JInv, IInv, Holder, rights
<1>2. PICK g \in Turns : g = holding[r] /\ persisted[g] /\ ~claimed[g] /\ reply[g] = NoReply
  BY <1>1 DEF JInv, IInv, Holder
<1>3. /\ handler \in [Requests -> HandlerAt] /\ reply \in [Turns -> Replies]
      /\ \A q \in Requests : handler[q] = "saving" => q = tracker_lock
  BY DEF JInv, IInv, TypeOK, Holder
<1>4. task[g] # "none"
  BY <1>2 DEF JInv, IInv, Fresh
<1>5. Kept(g) /\ ~Owns(g) /\ ~Owns(g)'
  BY <1>1, <1>2 DEF Kept, Owns
<1>6. \A h \in Turns \ {g} : ~Kept(h) /\ ~Kept(h)' /\ (Owns(h)' <=> Owns(h))
  BY <1>1, <1>2, <1>3 DEF Kept, Owns
<1>7. /\ reply'[g].by \in {"stop", "refused"}
      /\ \A h \in Turns \ {g} : reply'[h] = reply[h]
  <2>1. PICK ok \in SaveResults : AddMessage(g, [by |-> "stop", text |-> kept[r]], ok)
    BY <1>2 DEF SaveKept
  <2> QED BY <1>2, <1>3, <2>1 DEF AddMessage, NoReply
<1> HIDE DEF Kept, Owns
<1>8. Place(g) = "stop" /\ Place(g)' = "over"
  BY <1>2, <1>4, <1>5, <1>7 DEF Place, NoReply
<1>9. \A h \in Turns \ {g} : Place(h)' = Place(h) /\ reply'[h].by = reply[h].by
  BY <1>1, <1>6, <1>7 DEF Place
<1> QED BY <1>7, <1>8, <1>9 DEF Moves

\* A dropped request loses what it took, and nothing else.
LEMMA DisconnectMoves ==
    ASSUME JInv, NEW r \in Requests, Disconnect(r)
    PROVE  Stays \/ \E g \in Turns : Moves(g, "stop", "over", "nobody")
<1>1. /\ handler' = [handler EXCEPT ![r] = "dropped"]
      /\ UNCHANGED <<holding, claimed, persisted, task, reply>>
  BY DEF Disconnect, Goto, rights
<1>2. CASE handler[r] # "saving"
  BY <1>1, <1>2, Bystander
<1>3. CASE handler[r] = "saving"
  <2>1. PICK g \in Turns : g = holding[r] /\ persisted[g] /\ ~claimed[g] /\ reply[g] = NoReply
    BY <1>3 DEF JInv, IInv, Holder
  <2>2. /\ handler \in [Requests -> HandlerAt] /\ task[g] # "none"
        /\ \A q \in Requests : handler[q] = "saving" => q = r
    BY <1>3, <2>1 DEF JInv, IInv, TypeOK, Fresh, Holder
  <2>3. Kept(g) /\ ~Kept(g)' /\ ~Owns(g) /\ ~Owns(g)'
    BY <1>1, <1>3, <2>1, <2>2 DEF Kept, Owns
  <2>4. \A h \in Turns \ {g} : ~Kept(h) /\ ~Kept(h)' /\ (Owns(h)' <=> Owns(h))
    BY <1>1, <2>1, <2>2 DEF Kept, Owns
  <2> HIDE DEF Kept, Owns
  <2>5. Place(g) = "stop" /\ Place(g)' = "over" /\ reply'[g].by = "nobody"
    BY <1>1, <2>1, <2>2, <2>3 DEF Place, NoReply
  <2>6. \A h \in Turns \ {g} : Place(h)' = Place(h) /\ reply'[h].by = reply[h].by
    BY <1>1, <2>4 DEF Place
  <2> QED BY <2>5, <2>6 DEF Moves
<1> QED BY <1>2, <1>3

\* The task of g moves; what other turns have is not touched.
LEMMA OthersStay ==
    ASSUME JInv, NEW g \in Turns, NEW to, task' = [task EXCEPT ![g] = to],
           \A h \in Turns \ {g} : /\ claimed'[h] <=> claimed[h]
                                  /\ persisted'[h] <=> persisted[h]
                                  /\ reply'[h] = reply[h],
           UNCHANGED <<handler, holding>>
    PROVE  /\ \A h \in Turns \ {g} : Place(h)' = Place(h) /\ reply'[h].by = reply[h].by
           /\ \A h \in Turns : Kept(h)' <=> Kept(h)
           /\ task'[g] = to
<1>1. task \in [Turns -> {"none"} \union Parked \union Polled \union Over]
  BY DEF JInv, IInv, TypeOK
<1>2. \A h \in Turns : Kept(h)' <=> Kept(h)
  BY DEF Kept
<1>3. \A h \in Turns \ {g} : task'[h] = task[h]
  BY <1>1
<1>4. \A h \in Turns \ {g} : Owns(h)' <=> Owns(h)
  BY <1>3 DEF Owns
<1> HIDE DEF Kept, Owns
<1>5. \A h \in Turns \ {g} : Place(h)' = Place(h) /\ reply'[h].by = reply[h].by
  BY <1>2, <1>3, <1>4 DEF Place
<1> QED BY <1>1, <1>2, <1>5

\* The task takes the right, or finds that it has been taken.
LEMMA ClaimMoves ==
    ASSUME JInv, NEW g \in Turns, Claim(g)
    PROVE  Stays \/ Moves(g, "open", "task", "nobody")
<1>1. /\ task[g] = "ended" /\ task' = [task EXCEPT ![g] = "claimed"]
      /\ persisted' = [persisted EXCEPT ![g] = TRUE]
      /\ claimed' = [claimed EXCEPT ![g] = ~persisted[g]]
      /\ UNCHANGED <<handler, holding, reply>>
  BY DEF Claim, Run, requests
<1>2. /\ claimed \in [Turns -> BOOLEAN] /\ persisted \in [Turns -> BOOLEAN]
      /\ ~claimed[g]
  BY <1>1 DEF JInv, IInv, TypeOK, Guarded
<1>3. claimed'[g] = ~persisted[g] /\ persisted'[g]
  <2>1. claimed'[g] = ~persisted[g]
    BY <1>1, <1>2, ClaimedValue
  <2>2. persisted'[g]
    BY <1>1, <1>2
  <2> QED BY <2>1, <2>2
<1>4. /\ \A h \in Turns \ {g} : Place(h)' = Place(h) /\ reply'[h].by = reply[h].by
      /\ \A h \in Turns : Kept(h)' <=> Kept(h)
      /\ task'[g] = "claimed"
  <2>1. \A h \in Turns \ {g} : /\ claimed'[h] <=> claimed[h]
                               /\ persisted'[h] <=> persisted[h]
                               /\ reply'[h] = reply[h]
    BY <1>1, <1>2
  <2> QED BY <1>1, <2>1, OthersStay
<1>5. ~Owns(g)
  BY <1>2 DEF Owns
<1>6. Owns(g)' <=> ~persisted[g]
  BY <1>3, <1>4 DEF Owns
<1> HIDE DEF Kept, Owns
<1>7. CASE persisted[g]
  <2>1. Place(g)' = Place(g)
    BY <1>1, <1>3, <1>4, <1>5, <1>6, <1>7 DEF Place
  <2> QED BY <1>1, <1>4, <2>1 DEF Stays
<1>8. CASE ~persisted[g]
  <2>1. reply[g].by = "nobody"
    BY <1>1, <1>8 DEF JInv, IInv, Guarded, NoReply
  <2>2. Place(g) = "open" /\ Place(g)' = "task"
    BY <1>1, <1>3, <1>4, <1>6, <1>8, <2>1 DEF Place
  <2> QED BY <1>1, <1>4, <2>1, <2>2 DEF Moves
<1> QED BY <1>7, <1>8

\* The owner leaves without storing: no conversation, or aborted before it did.
LEMMA LeavesMoves ==
    ASSUME JInv, NEW g \in Turns, SkipSave(g) \/ Abort(g)
    PROVE  Stays \/ Moves(g, "task", "over", "nobody")
<1>1. PICK to \in {"clear", "aborted"} : task' = [task EXCEPT ![g] = to]
  BY DEF SkipSave, Abort, Run
<1>2. /\ task[g] # "none"
      /\ UNCHANGED <<handler, holding, claimed, persisted, reply>>
  BY DEF SkipSave, Abort, Run, Parked, requests, rights
<1>3. /\ \A h \in Turns \ {g} : Place(h)' = Place(h) /\ reply'[h].by = reply[h].by
      /\ \A h \in Turns : Kept(h)' <=> Kept(h)
      /\ task'[g] = to
  BY <1>1, <1>2, OthersStay
<1>4. ~Owns(g)'
  BY <1>3 DEF Owns
<1>5. CASE ~Owns(g)
  <2> HIDE DEF Kept, Owns
  <2>1. Place(g)' = Place(g)
    BY <1>2, <1>3, <1>4, <1>5 DEF Place
  <2> QED BY <1>2, <1>3, <2>1 DEF Stays
<1>6. CASE Owns(g)
  <2>1. persisted[g] /\ reply[g].by = "nobody" /\ ~Kept(g)
    BY <1>6 DEF Owns, Kept, JInv, IInv, Guarded, Holder, NoReply
  <2> HIDE DEF Kept, Owns
  <2>2. Place(g) = "task" /\ Place(g)' = "over"
    BY <1>2, <1>3, <1>4, <1>6, <2>1 DEF Place
  <2> QED BY <1>2, <1>3, <2>1, <2>2 DEF Moves
<1> QED BY <1>5, <1>6

\* The task stores its reply.
LEMMA SaveReplyMoves ==
    ASSUME JInv, NEW g \in Turns, SaveReply(g)
    PROVE  /\ reply'[g].by \in {"task", "error", "refused"}
           /\ Moves(g, "task", "over", reply'[g].by)
<1>1. /\ task[g] = "wantStorage"
      /\ task' = [task EXCEPT ![g] = IF failed[g] THEN "clear" ELSE "stored"]
      /\ UNCHANGED <<handler, holding, claimed, persisted>>
  BY DEF SaveReply, Run, requests, rights
<1>2. claimed[g] /\ persisted[g] /\ reply[g] = NoReply /\ reply \in [Turns -> Replies]
  BY <1>1 DEF JInv, IInv, Guarded, TypeOK
<1>3. Owns(g)
  BY <1>1, <1>2 DEF Owns
<1>4. /\ reply'[g].by \in {"task", "error", "refused"}
      /\ \A h \in Turns \ {g} : reply'[h] = reply[h]
  BY <1>2 DEF SaveReply, AddMessage, NoReply
<1>5. \A h \in Turns \ {g} : Place(h)' = Place(h) /\ reply'[h].by = reply[h].by
  BY <1>1, <1>4, OthersStay
<1> HIDE DEF Owns
<1>6. Place(g) = "task" /\ Place(g)' = "over"
  BY <1>1, <1>2, <1>3, <1>4 DEF Place, NoReply
<1> QED BY <1>4, <1>5, <1>6 DEF Moves

\* A move is a step of the abstract reply.
LEMMA MovesTakes ==
    ASSUME JInv, JInv', NEW g \in Turns
    PROVE  /\ Moves(g, "none", "open", "nobody") => ReplyOf!Next
           /\ \A to \in {"task", "stop"} : Moves(g, "open", to, "nobody") => ReplyOf!Next
           /\ Moves(g, "open", "over", "nobody") => ReplyOf!Next
           /\ \A from \in {"task", "stop"} : Moves(g, from, "over", "nobody") => ReplyOf!Next
<1> HIDE DEF JInv, Moves, Phase
<1>1. ASSUME Moves(g, "none", "open", "nobody") PROVE ReplyOf!Next
  BY <1>1, MovesBecomes DEF ReplyOf!Next, ReplyOf!Open
<1>2. ASSUME NEW to \in {"task", "stop"}, Moves(g, "open", to, "nobody") PROVE ReplyOf!Next
  <2>1. ReplyOf!Becomes(g, "open", to, "nobody")
    BY <1>2, MovesBecomes
  <2>2. ReplyOf!Take(g)
    BY <1>2, <2>1 DEF ReplyOf!Take, ReplyOf!Becomes
  <2> QED BY <2>2 DEF ReplyOf!Next
<1>3. ASSUME Moves(g, "open", "over", "nobody") PROVE ReplyOf!Next
  BY <1>3, MovesBecomes DEF ReplyOf!Next, ReplyOf!GiveUp
<1>4. ASSUME NEW from \in {"task", "stop"}, Moves(g, from, "over", "nobody") PROVE ReplyOf!Next
  <2>1. ReplyOf!Becomes(g, from, "over", "nobody")
    BY <1>4, MovesBecomes
  <2>2. ReplyOf!Lose(g)
    BY <1>4, <2>1 DEF ReplyOf!Lose, ReplyOf!Becomes
  <2> QED BY <2>2 DEF ReplyOf!Next
<1> QED BY <1>1, <1>2, <1>3, <1>4

LEMMA MovesStores ==
    ASSUME JInv, JInv', NEW g \in Turns
    PROVE  /\ \A by \in {"notice", "refused"} : Moves(g, "none", "over", by) => ReplyOf!Next
           /\ \A by \in {"task", "error", "refused"} :
                Moves(g, "task", "over", by) => ReplyOf!Next
           /\ \A by \in {"stop", "refused"} : Moves(g, "stop", "over", by) => ReplyOf!Next
<1> HIDE DEF JInv, Moves, Phase
<1>1. ASSUME NEW by \in {"notice", "refused"}, Moves(g, "none", "over", by) PROVE ReplyOf!Next
  <2>1. ReplyOf!Becomes(g, "none", "over", by)
    BY <1>1, MovesBecomes
  <2>2. ReplyOf!Answer(g)
    BY <1>1, <2>1 DEF ReplyOf!Answer, ReplyOf!Becomes
  <2> QED BY <2>2 DEF ReplyOf!Next
<1>2. ASSUME NEW by \in {"task", "error", "refused"}, Moves(g, "task", "over", by) PROVE ReplyOf!Next
  <2>1. ReplyOf!Becomes(g, "task", "over", by)
    BY <1>2, MovesBecomes
  <2>2. ReplyOf!Store(g)
    BY <1>2, <2>1 DEF ReplyOf!Store, ReplyOf!Becomes
  <2> QED BY <2>2 DEF ReplyOf!Next
<1>3. ASSUME NEW by \in {"stop", "refused"}, Moves(g, "stop", "over", by) PROVE ReplyOf!Next
  <2>1. ReplyOf!Becomes(g, "stop", "over", by)
    BY <1>3, MovesBecomes
  <2>2. ReplyOf!Store(g)
    BY <1>3, <2>1 DEF ReplyOf!Store, ReplyOf!Becomes
  <2> QED BY <2>2 DEF ReplyOf!Next
<1> QED BY <1>1, <1>2, <1>3

\* Every step is a step of one reply, or of none.
LEMMA StepReply ==
    JInv /\ JInv' /\ [Next]_vars => [ReplyOf!Next]_(ReplyOf!vars)
<1> SUFFICES ASSUME JInv, JInv', [Next]_vars PROVE Stays \/ ReplyOf!Next
  BY StaysStutters
<1>1. CASE UNCHANGED vars
  BY <1>1 DEF vars, requests, rights, Stays, Place, Owns, Kept
<1>2. ASSUME NEW g \in Turns, Handler(g) PROVE Stays \/ ReplyOf!Next
  <2> HIDE DEF JInv, Stays, Moves
  <2>1. CASE Reject(g) \/ Begin(g) \/ Prepare(g) \/ Insert(g)
    BY <2>1, StepStays
  <2>2. CASE AnswerWithoutModel(g)
    BY <2>2, AnswerMoves, MovesStores
  <2>3. CASE CancelCurrent(g)
    BY <2>3, CancelMoves, MovesTakes DEF Requests
  <2>4. CASE SaveKept(g)
    BY <2>4, SaveKeptMoves, MovesStores DEF Requests
  <2>5. CASE Spawn(g)
    BY <2>5, SpawnOpens, MovesTakes
  <2> QED BY <1>2, <2>1, <2>2, <2>3, <2>4, <2>5 DEF Handler
<1>3. ASSUME NEW g \in Turns, Streaming(g) \/ Finishing(g) \/ Abort(g)
      PROVE  Stays \/ ReplyOf!Next
  <2> HIDE DEF JInv, Stays, Moves
  <2>1. CASE \/ Streaming(g) \/ BeginDocument(g) \/ EndDocument(g) \/ NoDocument(g)
             \/ AwaitStorage(g) \/ ReleaseStorage(g) \/ Signal(g) \/ ClearIf(g)
    BY <2>1, StepStays
  <2>2. CASE Claim(g)
    BY <2>2, ClaimMoves, MovesTakes
  <2>3. CASE SkipSave(g) \/ Abort(g)
    BY <2>3, LeavesMoves, MovesTakes
  <2>4. CASE SaveReply(g)
    BY <2>4, SaveReplyMoves, MovesStores
  <2> QED BY <1>3, <2>1, <2>2, <2>3, <2>4 DEF Finishing
<1>4. ASSUME NEW s \in Stops, Stop(s) PROVE Stays \/ ReplyOf!Next
  <2> HIDE DEF JInv, Stays, Moves
  <2>1. CASE CancelCurrent(s)
    BY <2>1, CancelMoves, MovesTakes DEF Requests
  <2>2. CASE SaveKept(s)
    BY <2>2, SaveKeptMoves, MovesStores DEF Requests
  <2> QED BY <1>4, <2>1, <2>2 DEF Stop
<1>5. ASSUME NEW r \in Requests, Disconnect(r) PROVE Stays \/ ReplyOf!Next
  <2> HIDE DEF JInv, Stays, Moves
  <2> QED BY <1>5, DisconnectMoves, MovesTakes
<1> HIDE DEF JInv, Stays
<1> QED BY <1>1, <1>2, <1>3, <1>4, <1>5 DEF Next

LEMMA InitReply == Init => ReplyOf!Init
<1> SUFFICES ASSUME Init PROVE ReplyOf!Init
  OBVIOUS
<1>1. \A g \in Turns : reply[g].by = "nobody" /\ task[g] = "none"
  BY DEF Init, NoReply
<1>2. \A g \in Turns : Phase(g) = "none"
  BY <1>1 DEF Phase
<1> HIDE DEF Phase
<1> QED BY <1>1, <1>2 DEF ReplyOf!Init

\* The tracker, the handlers and the tasks implement the abstract reply: the
\* right to store it is taken once, its owner alone stores it, and what is over
\* is not touched again.
THEOREM GenerationReplySpec == Spec => ReplySpec
<1>1. Init => ReplyOf!Init
  BY InitReply
<1>2. JInv /\ JInv' /\ [Next]_vars => [ReplyOf!Next]_(ReplyOf!vars)
  BY StepReply
<1> QED BY <1>1, <1>2, Tracking, PTL DEF Spec, ReplySpec, ReplyOf!Spec
=============================================================================
