----------------------------- MODULE ChatContext -----------------------------
(***************************************************************************)
(* What a chat request carries (assemble_request_context_with, api.rs):    *)
(* the saved messages that fit, the files on the messages they were sent   *)
(* with, what changes on the latest message, and the shape a strict chat   *)
(* template asks for; and when the conversation is compacted first.        *)
(*                                                                         *)
(* A conversation c is its messages, how many of them its summary covers,  *)
(* the size of that summary, the attachments (at: the number of messages   *)
(* when it was uploaded), the room its prompt leaves of the window and the *)
(* size of the saved memory.  A turn has the id of its message (0 for the  *)
(* summary, None for no message) and a text in pieces.  Sizes are in units *)
(* of 2,000 characters.                                                    *)
(*                                                                         *)
(* A definition named ..._Wrong is the one after it with one mistake; no   *)
(* specification uses it.                                                  *)
(***************************************************************************)
EXTENDS Integers, Sequences, FiniteSets, SequencesExt, FiniteSetsExt

None == -1
HistoryTurns == 4              \* HISTORY_TURNS
MaxHistory == 7                \* HISTORY_CHARS
MinBudget == 2                 \* the floor of history_char_budget
MinRoom == 1                   \* the floor of history_room_for
PerTurn == 3                   \* ATTACH_CHARS_PER_TURN
MaxImages == 2                 \* images of a request

Min2(a, b) == IF a < b THEN a ELSE b
Max2(a, b) == IF a > b THEN a ELSE b
Size(s) == FoldLeft(LAMBDA sum, x : sum + x.size, 0, s)

-----------------------------------------------------------------------------
(* What there is to send.                                                    *)

\* context_messages_for: the summary instead of what it covers.
View(c) ==
    LET all == [i \in 1..Len(c.messages) |-> [id |-> i, role |-> c.messages[i].role,
                                              size |-> c.messages[i].size, prose |-> c.messages[i].prose]]
    IN IF c.covered = 0 THEN all
       ELSE <<[id |-> 0, role |-> "assistant", size |-> c.summary, prose |-> c.summary]>>
                \o SubSeq(all, c.covered + 1, Len(all))

\* history_char_budget, and history_room_for after the attachments' share.
Budget(c) == Max2(MinBudget, Min2(MaxHistory, c.room - c.memory))
HistoryRoom(budget, files) == Max2(MinRoom, budget - Min2(PerTurn, Size(files)))
Usage(c) == (Size(View(c)) * 100) \div HistoryRoom(Budget(c), c.files)

\* The summary, if any, and the newest messages, the oldest of which make way.
RECURSIVE DropOldest(_, _)
DropOldest(kept, room) ==
    IF Len(kept) <= 1 \/ Size(kept) <= room THEN kept
    ELSE DropOldest(RemoveAt(kept, IF kept[1].id = 0 /\ Len(kept) > 2 THEN 2 ELSE 1), room)

Window(view, room) ==
    LET summary == SelectSeq(view, LAMBDA m : m.id = 0)
        rest == SelectSeq(view, LAMBDA m : m.id # 0)
        newest == Min2(Len(rest), HistoryTurns - Len(summary))
    IN DropOldest(summary \o SubSeq(rest, Len(rest) - newest + 1, Len(rest)), room)

Piece(what, size) == [what |-> what, size |-> size]
Turn(id, role, text) == [id |-> id, role |-> role, text |-> text, images |-> <<>>]

\* A tool message becomes the user's; a reply is sent as its prose.
TurnOf(m) ==
    Turn(m.id, IF m.role = "assistant" THEN "assistant" ELSE "user",
         <<Piece(<<"message", m.id>>, IF m.role = "assistant" THEN m.prose ELSE m.size)>>)

-----------------------------------------------------------------------------
(* Attachments.                                                              *)

\* attachment_owner: the first message of the user since the upload.
Owner_Wrong(view, file) ==
    LET since == {m \in ToSet(view) : m.role = "user"}
    IN IF since = {} THEN None ELSE Max({m.id : m \in since})

Owner(view, file) ==
    LET since == {m \in ToSet(view) : m.role = "user" /\ m.id > file.at}
    IN IF since = {} THEN None ELSE Min({m.id : m \in since})

LatestUser(turns) == Max({0} \union {i \in 1..Len(turns) : turns[i].role = "user"})

\* attachment_turn; 0 for no turn.
AttachmentTurn(turns, view, file) ==
    LET owner == Owner(view, file) IN
    IF owner = None THEN LatestUser(turns)
    ELSE Max({0} \union {i \in 1..Len(turns) : turns[i].id = owner})

Add(turns, i, piece) == [turns EXCEPT ![i].text = Append(@, piece)]
IsFile(piece) == piece.what[1] = "file"
FilesOn(turn) == SelectSeq(turn.text, IsFile)

\* The excerpts, each on its message, as far as that message has room for.
RECURSIVE Attach(_, _, _, _)
Attach(turns, view, files, k) ==
    IF k > Len(files) THEN turns
    ELSE LET i == AttachmentTurn(turns, view, files[k])
             room == IF i = 0 THEN 0 ELSE PerTurn - Size(FilesOn(turns[i]))
         IN Attach(IF files[k].size > 0 /\ room > 0
                   THEN Add(turns, i, Piece(<<"file", k>>, Min2(files[k].size, room))) ELSE turns,
                   view, files, k + 1)

\* build_turns_with_owners
BuildTurns(view, files, budget) ==
    LET kept == Window(view, HistoryRoom(budget, files))
    IN Attach([i \in 1..Len(kept) |-> TurnOf(kept[i])], view, files, 1)

\* prepare_conversation_images: the last ones, each on its message.
RECURSIVE AddImages(_, _, _, _)
AddImages(turns, view, files, k) ==
    IF k > Len(files) THEN turns
    ELSE LET i == AttachmentTurn(turns, view, files[k])
             later == Len(SelectSeq(SubSeq(files, k + 1, Len(files)), LAMBDA f : f.image))
         IN AddImages(IF files[k].image /\ later < MaxImages /\ i > 0
                      THEN [turns EXCEPT ![i].images = Append(@, k)] ELSE turns,
                      view, files, k + 1)

-----------------------------------------------------------------------------
(* The request of a chat turn.                                               *)

\* What changes from one request to the next: on the latest message.
AddChanging(turns, what, size) ==
    IF size = 0 THEN turns
    ELSE IF LatestUser(turns) = 0 THEN Append(turns, Turn(None, "user", <<Piece(<<what>>, size)>>))
    ELSE Add(turns, LatestUser(turns), Piece(<<what>>, size))

\* assemble_request_context_with
Assemble(c, vision) ==
    LET Complete(turns) == IF vision THEN AddImages(turns, View(c), c.files, 1) ELSE turns
    IN Complete(AddChanging(BuildTurns(View(c), c.files, Budget(c)), "memory", c.memory))

\* chat_sse: the instructions first, the preface of a reasoning model last.
Request(c, vision, reasoning) ==
    AddChanging(<<Turn(None, "system", <<Piece(<<"system">>, 0)>>)>> \o Assemble(c, vision),
                "preface", IF reasoning THEN 1 ELSE 0)

\* The turns a run begins with (run_loop): its task stands apart from them.
RunHistory(c) ==
    LET view == View(c) IN BuildTurns(SubSeq(view, 1, Len(view) - 1), c.files, Budget(c))

\* context_numbers: the gauge counts what the largest window would leave out.
Kept(c) == Min2(Len(c.messages), Len(BuildTurns(View(c), c.files, MaxHistory)))

-----------------------------------------------------------------------------
(* Automatic compaction, before the reply (chat_sse, compact_conversation).  *)

Threshold == 80                \* compact_threshold_pct
KeepTurns == 3                 \* compaction_keep_turns

Due(c) == Usage(c) >= Threshold

\* recent_messages_within
RECURSIVE Recent(_, _, _)
Recent(messages, room, keep) ==
    IF keep >= Len(messages)
       \/ (keep >= 2 /\ (keep >= KeepTurns
                         \/ Size(SubSeq(messages, Len(messages) - keep, Len(messages))) > room))
    THEN Max2(2, keep) ELSE Recent(messages, room, keep + 1)

\* compact_conversation_keeping, with a summary of the given size.
Compact(c, size) ==
    LET keep == Recent(c.messages, (HistoryRoom(Budget(c), c.files) * 2) \div 5, 0)
        end == Max2(0, Len(c.messages) - keep)
        before == c.summary + Size(SubSeq(c.messages, c.covered + 1, end))
    IN IF end <= c.covered \/ size >= before THEN c
       ELSE [c EXCEPT !.covered = end, !.summary = size]

-----------------------------------------------------------------------------
(* template_safe_turns, for a template without a system role, one that wants *)
(* the roles to alternate, or both.                                          *)

Shapes == {"permissive", "no_system", "alternating", "strict"}

\* One more turn; carried is instructions on their way to the next user turn.
SafeTurn(done, turn, shape) ==
    LET role == IF turn.role = "tool" /\ shape \in {"alternating", "strict"} THEN "user" ELSE turn.role
        carry == role = "system" /\ shape \in {"no_system", "strict"}
        text == IF role = "user" THEN done.carried \o turn.text ELSE turn.text
        carried == IF role = "user" THEN <<>> ELSE done.carried
        n == Len(done.turns)
        first == n = 0 /\ role # "user"
        merges == shape \in {"alternating", "strict"} /\ n > 0 /\ done.turns[n].role = role
    IN IF carry THEN [done EXCEPT !.carried = @ \o turn.text]
       ELSE IF merges
       THEN [turns |-> [done.turns EXCEPT ![n].text = @ \o text, ![n].images = @ \o turn.images],
             carried |-> carried]
       ELSE [turns |-> Append(done.turns, [turn EXCEPT !.text = text,
                                 !.role = IF first /\ shape \in {"alternating", "strict"} THEN "user" ELSE role]),
             carried |-> carried]

TemplateSafe(turns, shape) ==
    LET Users(done) == {i \in 1..Len(done.turns) : done.turns[i].role = "user"}
        Delivered(done) ==
            IF done.carried = <<>> THEN done.turns
            ELSE IF Users(done) = {} THEN <<Turn(None, "user", done.carried)>> \o done.turns
            ELSE [done.turns EXCEPT ![Min(Users(done))].text = done.carried \o @]
    IN IF shape = "permissive" THEN turns
       ELSE Delivered(FoldLeft(LAMBDA d, t : SafeTurn(d, t, shape), [turns |-> <<>>, carried |-> <<>>], turns))

-----------------------------------------------------------------------------
(* How a conversation grows from one request to the next: a reply or none    *)
(* (stopped, or only tools ran), an upload or none, the next message, and a  *)
(* compaction when it is due and the model writes a summary.                 *)

Message(role, size, prose) == [role |-> role, size |-> size, prose |-> prose]
Replies == {<<>>, <<Message("assistant", 1, 1)>>, <<Message("assistant", 3, 0)>>}
Uploads == {<<>>, <<[size |-> 2, image |-> FALSE]>>, <<[size |-> 4, image |-> TRUE]>>}
Summaries == {1, 2}

Grown(c) ==
    LET said == {[c EXCEPT !.messages = @ \o reply] : reply \in IF c.messages = <<>> THEN {<<>>} ELSE Replies}
        uploaded == {[s EXCEPT !.files = @ \o [i \in 1..Len(file) |->
                          [size |-> file[i].size, image |-> file[i].image, at |-> Len(s.messages)]]] :
                        s \in said, file \in Uploads}
    IN {[u EXCEPT !.messages = Append(@, Message("user", size, size))] : u \in uploaded, size \in {1, 2}}

\* The conversations a chat turn may make its request from.
Turned(c) ==
    UNION {IF Due(g) THEN {g} \union {Compact(g, size) : size \in Summaries} ELSE {g} : g \in Grown(c)}

Conversations ==
    {[messages |-> <<>>, covered |-> 0, summary |-> 0, files |-> <<>>, room |-> room, memory |-> room \div 9] :
        room \in {4, 9}}

-----------------------------------------------------------------------------
(* Properties of the request of a conversation c.                            *)

SavedText(turns) ==
    FoldLeft(LAMBDA sum, t : sum + Size(SelectSeq(t.text, LAMBDA p : p.what[1] \in {"message", "file"})), 0, turns)
IdsOf(turns) == {turns[i].id : i \in 1..Len(turns)} \ {None}
TrueOwner(c, k) == Owner(View([c EXCEPT !.covered = 0]), c.files[k])

(* The latest message always travels, whole (api.rs:4559 "never drop the     *)
(* final turn"); what is left out is the oldest there is, and only what does *)
(* not fit (api.rs:4553-4577).                                               *)
NewestFit(c, turns) ==
    LET n == Len(c.messages)
        oldest == Min(IdsOf(turns) \ {0})
        room == HistoryRoom(Budget(c), c.files)
    IN /\ \E i \in 1..Len(turns) : Piece(<<"message", n>>, c.messages[n].size) \in ToSet(turns[i].text)
       /\ IdsOf(turns) \ {0} = oldest..n
       /\ oldest > c.covered + 1 =>
             \/ n - oldest + 2 + (IF c.covered > 0 THEN 1 ELSE 0) > HistoryTurns
             \/ c.summary + Size(SubSeq(c.messages, oldest - 1, n)) > room

(* Saved text stays within the budget of the window (api.rs:4551 "displaces   *)
(* old history rather than overflowing the window"), but for the latest      *)
(* message alone, the least room there always is, and files on several       *)
(* messages: room is kept for those of one.                                  *)
BudgetIsKept(c, turns) ==
    \/ SavedText(turns) <= Budget(c)
    \/ Cardinality(IdsOf(turns)) = 1
    \/ Budget(c) - Min2(PerTurn, Size(c.files)) < MinRoom
    \/ Cardinality({i \in 1..Len(turns) : FilesOn(turns[i]) # <<>>}) > 1

(* A file is on the message it was sent with (api.rs:4617), in chat and in a *)
(* run.  But once that message is covered by the summary, the file moves to  *)
(* the next one, where it may take the room of that message's own files; and *)
(* a file sent with the task of a run is on an earlier message or on none,   *)
(* as the task is taken off before the files are placed                      *)
(* (agent_runner.rs:2752).                                                   *)
FilesStay(c, sent, inRun) ==
    LET Where(turns, k) ==
            {turns[i].id : i \in {j \in 1..Len(turns) : \E p \in ToSet(turns[j].text) : p.what = <<"file", k>>}}
        Covered(k) == TrueOwner(c, k) <= c.covered
    IN \A k \in 1..Len(c.files) :
          LET owner == TrueOwner(c, k) IN
          \/ Covered(k)
          \/ /\ Where(sent, k) \subseteq {owner}
             /\ owner # Len(c.messages) => Where(inRun, k) \subseteq {owner}
             /\ owner = Len(c.messages) =>
                   \/ Where(sent, k) # {}
                   \/ \E other \in 1..k - 1 : Covered(other)

(* What was sent before is sent again as it was, so that the model server    *)
(* can reuse its cache (api.rs:4617, 13165), until a compaction.             *)
PrefixStays(before, was, c, now) ==
    LET Saved(turn) == SelectSeq(turn.text, LAMBDA p : p.what[1] \in {"message", "file"})
    IN before.covered = c.covered =>
          \A i \in 1..Len(was), j \in 1..Len(now) :
              was[i].id = now[j].id /\ was[i].id # None => Saved(was[i]) = Saved(now[j])

(* Whatever a template refuses, nothing of the request is lost or doubled,    *)
(* what was saved keeps its order, and the roles are those it accepts        *)
(* (llamaserver.rs:946).  Only instructions may come behind a reply that     *)
(* leads, for want of the message it answered.                               *)
Accepted(turns, safe, shape) ==
    LET Text(s) == FoldLeft(LAMBDA all, t : all \o t.text, <<>>, s)
        Images(s) == FoldLeft(LAMBDA all, t : all \o t.images, <<>>, s)
        Said(s) == SelectSeq(Text(s), LAMBDA p : p.what # <<"system">>)
    IN /\ Said(safe) = Said(turns) /\ Images(safe) = Images(turns)
       /\ ToSet(Text(safe)) = ToSet(Text(turns)) /\ Len(Text(safe)) = Len(Text(turns))
       /\ shape \in {"no_system", "strict"} => \A t \in ToSet(safe) : t.role # "system"
       /\ shape \in {"alternating", "strict"} =>
             \A i \in 1..Len(safe) : safe[i].role = IF i % 2 = 1 THEN "user" ELSE "assistant"

(* An automatic compaction lands under the threshold (api.rs:3596 "the       *)
(* compacted context lands well under the threshold"), unless the two newest *)
(* messages or the summary alone are too large, and never covers them.       *)
CompactionMakesRoom(c) ==
    LET Lands(after) ==
            /\ Len(c.messages) - after.covered >= 2
            /\ Size(View(after)) < Size(View(c))
            /\ \/ Usage(after) < Threshold
               \/ Len(c.messages) - after.covered = 2
               \/ 5 * after.summary > 2 * HistoryRoom(Budget(c), c.files)
    IN Due(c) => \A after \in {Compact(c, size) : size \in Summaries} \ {c} : Lands(after)

(* The gauge never says that more is left out than is (api.rs:6583).         *)
GaugeIsNoAlarm(c) == Kept(c) >= Min2(Len(c.messages), Len(BuildTurns(View(c), c.files, Budget(c))))

RequestHolds(before, c) ==
    /\ NewestFit(c, Assemble(c, TRUE))
    /\ BudgetIsKept(c, Assemble(c, FALSE))
    /\ FilesStay(c, Assemble(c, FALSE), RunHistory(c))
    /\ PrefixStays(before, Assemble(before, FALSE), c, Assemble(c, FALSE))
    /\ CompactionMakesRoom(c)
    /\ GaugeIsNoAlarm(c)
    /\ \A shape \in Shapes, request \in {Request(c, TRUE, reasoning) : reasoning \in BOOLEAN} :
          Accepted(request, TemplateSafe(request, shape), shape)
=============================================================================
