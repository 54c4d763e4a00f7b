----------------------------- MODULE Transcript -----------------------------
(***************************************************************************)
(* The working transcript of an agent run (agent_runner.rs): what a step   *)
(* adds to it, and what compaction, pruning and the repair of call pairs   *)
(* leave of it before the next request.                                    *)
(*                                                                         *)
(* A turn has a role, an id that a call and its result share (0 for none), *)
(* a size, and the size of a native call's arguments.  A run r is the      *)
(* turns, the index of the task turn, the notes kept and the notes the     *)
(* task turn shows, the size the last compaction left (-1 for none), the   *)
(* extra reserve of context overflows, whether one forces a compaction,    *)
(* whether a partial reply waits for its end, and ghost fields: the id     *)
(* last used, how many host notes follow the latest result, and the last   *)
(* id the record of a compaction covers.                                   *)
(*                                                                         *)
(* Sizes are in units of 100 tokens and more than that is long enough to   *)
(* be released.  A definition named ..._Wrong is the one after it with one *)
(* mistake; no specification uses it.                                      *)
(***************************************************************************)
EXTENDS Integers, Sequences, SequencesExt, FiniteSetsExt

Turn(role, id, size, args) == [role |-> role, id |-> id, size |-> size, args |-> args]

Window == 40                   \* n_ctx
Reserve == 10                  \* pruning_reserve, a quarter of the window
MaxNotes == 2                  \* MAX_KEPT_NOTES
Original == 2                  \* the task and what earlier runs did

Min2(a, b) == IF a < b THEN a ELSE b
Max2(a, b) == IF a > b THEN a ELSE b

Tokens(turns) == FoldLeft(LAMBDA sum, t : sum + t.size + t.args, 0, turns)
Drop(turns, i) == RemoveAt(turns, i)

\* history_room, and the budget of prune_transcript.
Room(r) == Window - Min2(Reserve + r.overflow, Window \div 2) - 5

-----------------------------------------------------------------------------
(* release_tool_results, from the turn after the task up to the last two.    *)

Release(turns, i) ==
    CASE turns[i].role \in {"tool", "observation"} /\ turns[i].size > 2 -> [turns EXCEPT ![i].size = 2]
      [] turns[i].args > 2 -> [turns EXCEPT ![i].args = 2]
      [] OTHER -> turns

ReleaseResults_Wrong(turns, task, target) ==
    FoldLeft(LAMBDA now, i : IF Tokens(now) > target THEN Release(now, i) ELSE now,
             turns, [k \in 1..Len(turns) - task |-> task + k])

ReleaseResults(turns, task, target) ==
    FoldLeft(LAMBDA now, i : IF Tokens(now) > target THEN Release(now, i) ELSE now,
             turns, [k \in 1..Max2(0, Len(turns) - 2 - task) |-> task + k])

\* Whole turns, the oldest first: before the task, then after it.
RECURSIVE DropBefore(_, _)
DropBefore(r, target) ==
    IF Tokens(r.turns) > target /\ r.task > 2
    THEN DropBefore([r EXCEPT !.turns = Drop(@, 2), !.task = @ - 1], target) ELSE r

RECURSIVE DropAfter(_, _)
DropAfter(r, target) ==
    IF Tokens(r.turns) > target /\ Len(r.turns) > r.task + 2
    THEN DropAfter([r EXCEPT !.turns = Drop(@, r.task + 1)], target) ELSE r

\* prune_transcript: cut back to three quarters of the budget in one go.
Prune(r) ==
    LET target == (Room(r) \div 4) * 3
        released == [r EXCEPT !.turns = ReleaseResults(@, r.task, target)]
    IN IF Tokens(r.turns) <= Room(r) THEN r ELSE DropAfter(DropBefore(released, target), target)

-----------------------------------------------------------------------------
(* repair_tool_pairs: no call without its result, no result without its call. *)

\* The turn before i that is no result: the reply a result follows.
ReplyBefore(turns, i) == Max({0} \union {j \in 1..i - 1 : turns[j].role # "tool"})
OrphanResult(turns, i) ==
    turns[i].role = "tool"
        /\ LET j == ReplyBefore(turns, i)
           IN j = 0 \/ turns[j].role # "call" \/ turns[j].id # turns[i].id
Unanswered(turns, i) ==
    turns[i].role = "call"
        /\ ~ \E k \in i + 1..Len(turns) :
                turns[k].role = "tool" /\ turns[k].id = turns[i].id
                /\ \A m \in i + 1..k : turns[m].role = "tool"

Repair_Wrong(r) == r

RECURSIVE RepairFrom(_, _)
RepairFrom(r, i) ==
    IF i > Len(r.turns) THEN r
    ELSE IF OrphanResult(r.turns, i) \/ Unanswered(r.turns, i)
         THEN RepairFrom([r EXCEPT !.turns = Drop(@, i),
                                   !.task = IF i < @ THEN @ - 1 ELSE @], i)
    ELSE RepairFrom(r, i + 1)

Repair(r) == RepairFrom(r, 1)

-----------------------------------------------------------------------------
(* Automatic compaction, between steps.                                      *)

ThresholdPct == 80

\* CompactionPolicy::due
Due(r) ==
    /\ r.compaction
    /\ Tokens(r.turns) * 100 >= ThresholdPct * Room(r)
    /\ r.task > 2 \/ Len(r.turns) > r.task + 1
    /\ \/ r.after < 0
       \/ Tokens(r.turns) >= r.after + Room(r) \div 6
       \/ Tokens(r.turns) > Room(r)

\* with_kept_notes: the notes at the end of the task turn, instead of any before.
ShowNotes(r) ==
    [r EXCEPT !.shown = r.notes,
              !.turns[r.task].size = @ - Len(r.shown) + Len(r.notes)]

Expected == 4   \* note_tokens, the record's and 120 more

\* The task turn with the block that replaces earlier turns, without the notes.
Compacted(r, block) ==
    LET turns == r.turns
        tail == Max2(Len(turns) - 1, r.task + 1)
        keepTail == /\ Len(turns) >= r.task + 2
                    /\ turns[tail].role \in {"call", "reply"}
                    /\ turns[1].size + Original + Expected
                         + Tokens(SubSeq(turns, tail, Len(turns))) <= (Room(r) * 7) \div 10
        end == IF keepTail THEN tail - 1 ELSE Len(turns)
        left == <<turns[1], [turns[r.task] EXCEPT !.size = Original + block]>>
                    \o SubSeq(turns, end + 1, Len(turns))
    IN IF (r.task - 2) + Max2(0, end - r.task) = 0
          \/ Tokens(left) + Room(r) \div 10 > Tokens(turns)
       THEN [r EXCEPT !.after = Tokens(turns)]
       ELSE [r EXCEPT !.turns = left, !.task = 2, !.after = Tokens(left), !.shown = <<>>,
                     !.recorded = IF keepTail THEN @ ELSE r.last]

Compact_Wrong(r, block) == Compacted(r, block)

Compact(r, block) == ShowNotes(Compacted(r, block))

-----------------------------------------------------------------------------
(* What happens to a run between two requests.                               *)

\* The request: compaction when it is due or forced and no reply is partial,
\* then pruning and repair (run_loop).
Request(r, block) ==
    LET begun == IF ~r.partial /\ (Due(r) \/ (r.forced /\ r.compaction)) THEN Compact(r, block) ELSE r
    IN Repair(Prune([begun EXCEPT !.forced = IF r.partial THEN @ ELSE FALSE]))

\* A native call and its result, or a call in the text format and what the
\* host observed; after it up to two host notes (a repeated result, circling).
Exchange(r, native, args, size, hostNotes) ==
    LET id == r.last + 1
        call == IF native THEN Turn("call", id, 0, args) ELSE Turn("reply", id, args, 0)
        result == Turn(IF native THEN "tool" ELSE "observation", id, size, 0)
    IN [r EXCEPT !.turns = @ \o <<call, result>> \o [i \in 1..hostNotes |-> Turn("note", 0, 1, 0)],
                 !.last = id, !.hostNotes = hostNotes, !.partial = FALSE]

\* keep_note: a new one at the end, the oldest makes way.
KeepNote(r, note) ==
    ShowNotes([r EXCEPT !.notes =
        IF note \in ToSet(@) THEN @
        ELSE LET more == Append(@, note) IN IF Len(more) > MaxNotes THEN Tail(more) ELSE more])

\* A reply that could not be read, or was cut off and will be continued.
Correct(r) == [r EXCEPT !.turns = Append(@, Turn("note", 0, 1, 0)),
                        !.hostNotes = @ + 1, !.partial = FALSE]
CutOff(r) == [r EXCEPT !.partial = TRUE]

\* The model server measured more than the estimate.
Overflow(r) == [r EXCEPT !.overflow = @ + 4, !.forced = TRUE, !.partial = FALSE]

Blocks == {3, 7}               \* what compaction writes, without and with a model's note

\* A run with its instructions, with or without earlier turns, and the setting.
Runs ==
    {[turns |-> <<Turn("system", 0, 8, 0)>> \o earlier \o <<Turn("task", 0, Original, 0)>>,
      task |-> Len(earlier) + 2, notes |-> <<>>, shown |-> <<>>, after |-> -1, overflow |-> 0,
      forced |-> FALSE, partial |-> FALSE, last |-> 0, hostNotes |-> 0, recorded |-> 0,
      steps |-> 0, compaction |-> compaction] :
        compaction \in BOOLEAN,
        earlier \in {<<>>, <<Turn("asked", 0, 1, 0), Turn("answered", 0, 5, 0)>>}}

\* What one step of a run may add.
Additions(r) ==
    {Exchange(r, native, sizes[1], sizes[2], hostNotes) :
        native \in BOOLEAN, sizes \in {<<1, 9>>, <<6, 1>>}, hostNotes \in 0..1}
    \union {Exchange(KeepNote(r, note), TRUE, 1, 1, 0) : note \in 1..3}
    \union {Correct(r), CutOff(r)}
    \union (IF r.overflow < 8 THEN {Overflow(r)} ELSE {})   \* MAX_OVERFLOW_RECOVERIES is 2

-----------------------------------------------------------------------------
(* Properties of a request s made from a run r.                              *)

(* Every native call in a request has its result after it and every result    *)
(* its call (agent_runner.rs:2000-2050).                                      *)
Paired(s) == \A i \in 1..Len(s.turns) : ~OrphanResult(s.turns, i) /\ ~Unanswered(s.turns, i)

(* The instructions and the task stay, and the task shows the notes kept      *)
(* (agent_runner.rs:1618-1650, 2950-2964).                                    *)
TaskStays(s) ==
    s.turns[1].role = "system" /\ s.turns[s.task].role = "task" /\ s.shown = s.notes

(* A request that does not fit has nothing left to drop.                      *)
Fits(s) == Tokens(s.turns) <= Room(s) \/ (s.task = 2 /\ Len(s.turns) <= 4)

(* The result of the latest call reaches the model whole, unless compaction   *)
(* put it into the record, or host notes that follow it took its place in the *)
(* latest exchange, which pruning spares (agent_runner.rs:1940-1950).         *)
ResultIsSeen(r, s) ==
    \/ r.last = 0
    \/ r.hostNotes > 0
    \/ s.recorded = r.last
    \/ \E t \in ToSet(s.turns) :
          t.id = r.last /\ t.role \in {"tool", "observation"} /\ t \in ToSet(r.turns)

=============================================================================
