----------------------------- MODULE ChatRounds ------------------------------
(***************************************************************************)
(* The rounds of one chat reply (the loop of chat_sse, api.rs) and what    *)
(* they keep of what they read (inspection_context.rs): a round may run    *)
(* one tool that this request offers, be told that its call was refused or *)
(* unreadable, be asked for the file it owes, or answer.                   *)
(*                                                                         *)
(* A reply in progress r is its turns, the evidence read so far (chunks),  *)
(* what the request offers, and the counters that bound the rounds.  A     *)
(* turn is what it holds, its role, its size and whether its body has been *)
(* released.  A size of 1 is that of the notice a released body leaves.     *)
(*                                                                         *)
(* A definition named ..._Wrong is the one after it with one mistake; no   *)
(* specification uses it.                                                  *)
(***************************************************************************)
EXTENDS Integers, Sequences, FiniteSets, SequencesExt, FiniteSetsExt

Rounds == 3                    \* CHAT_TOOL_ROUNDS
Room == 8                      \* the window without the reply's reserve
Notice == 1                    \* what is left of a released result

Turn(what, role, size) == [what |-> what, role |-> role, size |-> size, released |-> FALSE]
Total(turns) == FoldLeft(LAMBDA sum, t : sum + t.size, 0, turns)
Say(r, turns) == [r EXCEPT !.turns = @ \o turns]

-----------------------------------------------------------------------------
(* Evidence.                                                                 *)

\* InspectionContext::record, of the result that was just added.
Record(r, score) ==
    LET id == Len(r.chunks) + 1 IN
    [r EXCEPT !.chunks = Append(@, [turn |-> Len(r.turns), score |-> score, keep |-> FALSE, released |-> FALSE]),
              !.turns[Len(r.turns)].what = <<"evidence", id>>]

\* InspectionContext::release
Release(r, i) ==
    [r EXCEPT !.chunks[i].released = TRUE, !.chunks[i].keep = FALSE,
              !.turns[r.chunks[i].turn].size = Notice, !.turns[r.chunks[i].turn].released = TRUE]

\* InspectionContext::manage: all of a selection or nothing.
Acceptable(r, keep, release) ==
    /\ keep \union release \subseteq 1..Len(r.chunks)
    /\ keep \intersect release = {}
    /\ \A i \in keep : ~r.chunks[i].released
Manage(r, keep, release) ==
    IF ~Acceptable(r, keep, release) THEN r
    ELSE LET kept == [r EXCEPT !.chunks = [i \in DOMAIN @ |-> [@[i] EXCEPT !.keep = @ \/ i \in keep]]]
         IN FoldLeft(LAMBDA now, i : Release(now, i), kept, SetToSortSeq(release, <))

\* InspectionContext::compact: the least relevant first, then the oldest.
Before(r, i, j) ==
    \/ r.chunks[i].score < r.chunks[j].score
    \/ r.chunks[i].score = r.chunks[j].score /\ i < j

Candidates_Wrong(r) == {i \in 1..Len(r.chunks) : ~r.chunks[i].keep /\ ~r.chunks[i].released}

Candidates(r) == {i \in 1..Len(r.chunks) - 1 : ~r.chunks[i].keep /\ ~r.chunks[i].released}

Compact(r) ==
    FoldLeft(LAMBDA now, i : IF Total(now.turns) <= Room \/ now.turns[now.chunks[i].turn].size <= Notice
                             THEN now ELSE Release(now, i),
             r, SetToSortSeq(Candidates(r), LAMBDA i, j : Before(r, i, j)))

-----------------------------------------------------------------------------
(* One round.                                                                *)

\* Before the request: room for it, and a word when the rounds are used up.
Top(r) ==
    LET compacted == IF r.uses > 0 THEN Compact(r) ELSE r IN
    IF r.uses > 0 /\ Total(compacted.turns) > Room
    THEN [compacted EXCEPT !.end = "capacity"]
    ELSE IF r.uses = Rounds THEN Say(compacted, <<Turn(<<"note">>, "user", 0)>>)
    ELSE compacted

\* ChatToolOffer::for_request; the registry has more tools than are offered.
Offers(r, name) ==
    \/ r.workspace /\ name \in {"read", "manage"}
    \/ r.document /\ name = "document"
Withheld(r, name) == r.workspace /\ ~Offers(r, name) /\ name # "invented"

\* run_chat_tool_round
Answered(r, size) == Say([r EXCEPT !.uses = @ + 1],
                         <<Turn(<<"reply">>, "assistant", 0), Turn(<<"result">>, "user", size)>>)
Read(r, size, score) == Record(Answered(r, size), score)
Document(r, made) == [Record(Answered(r, 1), 0) EXCEPT !.created = @ \/ made]
Selected(r, keep, release) == Answered(Manage(r, keep, release), 0)

\* A correction or a nudge: the reply so far, and what is wrong with it.
Told(r) == Say(r, <<Turn(<<"reply">>, "assistant", 1), Turn(<<"note">>, "user", 0)>>)
Corrected(r) == [Told(r) EXCEPT !.corrections = @ + 1]
Nudged(r) == [Told(r) EXCEPT !.nudges = @ + 1]

\* A round without a tool that ran.
Finished(r) ==
    IF r.uses < Rounds /\ r.document /\ ~r.created /\ r.nudges = 0 THEN Nudged(r)
    ELSE [r EXCEPT !.end = "answered"]

\* drop_oldest_history
DropOldestHistory(turns, excess) ==
    LET lastUser == Max({i \in 1..Len(turns) : turns[i].role = "user"})
        Freed(end) == Total(SubSeq(turns, 2, end - 1))
        enough == Min({lastUser} \union {end \in 2..lastUser : Freed(end) >= excess})
        end == Min({i \in enough..lastUser : turns[i].role = "user"})
    IN <<turns[1]>> \o SubSeq(turns, end, Len(turns))

\* The server measured the prompt, and it does not fit.
Overflowed(r, excess) ==
    LET left == DropOldestHistory(r.turns, excess) IN
    IF r.retried \/ r.uses > 0 \/ left = r.turns THEN [r EXCEPT !.end = "failed", !.retried = TRUE]
    ELSE [r EXCEPT !.turns = left, !.retried = TRUE]

\* What a round may come to.
Outcomes(r) ==
    LET tool == r.uses < Rounds
        chunks == 1..Min({Len(r.chunks), 2})
    IN (IF tool /\ Offers(r, "read")
        THEN {Read(r, size, score) : size \in {1, 3}, score \in 0..1}
                \union {Selected(r, keep, release) :
                            keep \in SUBSET chunks, release \in {{i} : i \in chunks} \union {{}}}
        ELSE {})
       \union (IF tool /\ Offers(r, "document") THEN {Document(r, made) : made \in BOOLEAN} ELSE {})
       \union (IF tool /\ Withheld(r, "write") THEN {Answered(r, 0)} ELSE {})
       \union (IF tool /\ r.corrections = 0 /\ (r.workspace \/ r.document) THEN {Corrected(r)} ELSE {})
       \union {Finished(r)}
       \union {Overflowed(r, excess) : excess \in {1, 3}}

Round(r) ==
    LET begun == Top(r) IN
    IF begun.end # "no" THEN {begun}
    ELSE {[next EXCEPT !.rounds = @ + 1] : next \in Outcomes(begun)}

Question == Turn(<<"question">>, "user", 1)
Histories == {<<>>, <<Turn(<<"asked">>, "user", 1), Turn(<<"answered">>, "assistant", 2)>>}
Replies ==
    {[turns |-> <<Turn(<<"system">>, "system", 1)>> \o history \o <<Question>>,
      chunks |-> <<>>, workspace |-> workspace, document |-> document, created |-> FALSE,
      uses |-> 0, corrections |-> 0, nudges |-> 0, retried |-> FALSE, end |-> "no", rounds |-> 0] :
        history \in Histories, workspace \in BOOLEAN, document \in BOOLEAN}

-----------------------------------------------------------------------------
(* Properties of a reply in progress.                                        *)

(* Saved messages make way for an overflow, the question never does          *)
(* (api.rs:1796); but a correction or a nudge is a later message of the      *)
(* user, and an overflow after it may cost the question itself.              *)
QuestionStays(r) ==
    \/ Question \in ToSet(r.turns)
    \/ r.retried /\ r.corrections + r.nudges > 0

(* Evidence is where its record says, whole or released as its record says:  *)
(* nothing moves once something was read (api.rs:4044).                      *)
EvidenceIsWhere(r) ==
    \A i \in 1..Len(r.chunks) :
        /\ r.turns[r.chunks[i].turn].what = <<"evidence", i>>
        /\ r.turns[r.chunks[i].turn].released = r.chunks[i].released

(* Room is made from evidence alone, the least relevant first, never from    *)
(* what the model keeps nor from the latest result; what is sent then fits,  *)
(* or the reply ends and says so (api.rs:3866, inspection_context.rs:135).   *)
RoomIsMadeFairly(r) ==
    LET after == Top(r)
        released == {i \in 1..Len(r.chunks) : after.chunks[i].released /\ ~r.chunks[i].released}
    IN /\ \A i \in released : ~r.chunks[i].keep /\ i < Len(r.chunks)
       /\ \A i \in released, j \in Candidates(r) \ released :
              Before(r, i, j) \/ r.turns[r.chunks[j].turn].size <= Notice
       /\ \A k \in 1..Len(r.turns) : k \notin {r.chunks[i].turn : i \in released} => after.turns[k] = r.turns[k]
       /\ after.end = "no" /\ r.uses > 0 => Total(after.turns) <= Room

(* However the model replies, the rounds end: every one is a tool's, one of  *)
(* the few that try again, or the last (api.rs:66, 3855-4069).               *)
RoundsAreBounded(r) == r.rounds <= Rounds + 4

RoundHolds(r) ==
    /\ QuestionStays(r)
    /\ EvidenceIsWhere(r)
    /\ RoomIsMadeFairly(r)
    /\ RoundsAreBounded(r)
=============================================================================
