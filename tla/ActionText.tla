----------------------------- MODULE ActionText -----------------------------
(***************************************************************************)
(* What a model's reply shows and what it runs.  StreamSplitter            *)
(* (stream_split.rs) decides while the text arrives what the user sees;    *)
(* locate_action (agent_runner.rs) reads the finished text for the call    *)
(* that is executed.                                                       *)
(*                                                                         *)
(* A text is a sequence of marks: "w" a word, "s" a space, "n" a newline,  *)
(* "tt" and "t", whose three ticks make a fence, "tool" and "rust" labels, the two        *)
(* halves of each opening tag (a delta of the stream may cut it there),    *)
(* closing tags, the first halves of four JSON objects that "}" completes, *)
(* "call{" of the Gemma form and the two ends of a raw block.              *)
(***************************************************************************)
EXTENDS Integers, Sequences, SequencesExt, FiniteSetsExt

Fence == <<"tt", "t">>
TagOpen == <<"<tool", "_call>">>
GemmaOpen == <<"<|tool", "_call|>">>
TagClose == "</tool_call>"
GemmaClose == "<tool_call|>"

\* A call of a known tool, of an unknown one, a write without its text, no call.
Objects == {"known{", "unknown{", "write{", "other{"}

NONE == [call |-> "none"]

Upto(t, i) == SubSeq(t, 1, i)
From(t, i) == SubSeq(t, i, Len(t))
StartsAt(t, i, pattern) ==
    i + Len(pattern) - 1 <= Len(t) /\ SubSeq(t, i, i + Len(pattern) - 1) = pattern

\* The first index of a pattern, or otherwise.
FindOr(t, pattern, otherwise) ==
    Min({otherwise} \union {i \in 1..Len(t) : StartsAt(t, i, pattern)})
Has(t, pattern) == \E i \in 1..Len(t) : StartsAt(t, i, pattern)
Mentions(t, mark) == mark \in ToSet(t)

\* The first index from i on that is no white space, Len(t) + 1 if none.
White == {"s", "n"}
SkipSpace(t, i) == Min({Len(t) + 1} \union {j \in i..Len(t) : t[j] \notin White})
TrimEnd(t) == Upto(t, Max({0} \union {j \in 1..Len(t) : t[j] \notin White}))
Trim(t) == From(TrimEnd(t), SkipSpace(t, 1))
Blank(t) == ToSet(t) \subseteq White

\* Lines: where each begins, and where the one at i ends, newline included.
LineEnd(t, i) == Min({Len(t)} \union {j \in i..Len(t) : t[j] = "n"})
LineStarts(t) == {i \in 1..Len(t) : i = 1 \/ t[i - 1] = "n"}
LineAt(t, i) == SubSeq(t, i, LineEnd(t, i))
Complete(t, i) == t[LineEnd(t, i)] = "n"

-----------------------------------------------------------------------------
(* agent_runner.rs: reading a call.                                          *)

\* fence_opener: "action" for tool, json and bare fences, "code", or "none".
FenceOpener(line) ==
    LET indent == SkipSpace(line, 1) - 1 IN
    IF indent > 3 \/ ~StartsAt(line, indent + 1, Fence) THEN "none"
    ELSE IF Trim(From(line, indent + 3)) \in {<<>>, <<"tool">>} THEN "action" ELSE "code"

LabelledTool(line) == Trim(line) = Fence \o <<"tool">>

\* parse_action_object_in: the object at the start, after white space.
ObjectEnd(t) ==
    LET i == SkipSpace(t, 1) IN
    IF i < Len(t) /\ t[i] \in Objects /\ t[i + 1] = "}" THEN i + 1 ELSE 0

\* The end of the raw block that opens at i, or 0 when it has not ended.
RawEnd(t, i) ==
    LET ends == {j \in LineStarts(t) : j > i /\ Trim(LineAt(t, j)) = <<"RAW>>>">>}
    IN IF ends = {} THEN 0 ELSE Min(ends)

\* attach_raw_args: the marks the raw blocks after an object take, -1 for None.
RECURSIVE AttachRaw(_, _)
AttachRaw(t, taken) ==
    LET i == SkipSpace(t, taken + 1) IN
    IF i > Len(t) \/ t[i] # "<<<RAW" THEN taken
    ELSE IF i = Len(t) THEN -1
    ELSE IF t[i + 1] # "n" THEN (IF taken = 0 THEN 0 ELSE -1)
    ELSE IF RawEnd(t, i) = 0 THEN -1
    ELSE AttachRaw(t, RawEnd(t, i))

\* parse_action_with_raw: the call, the marks it takes, whether it has raw text.
ParseAction(t) ==
    LET With(end, extra) ==
            IF extra < 0 THEN NONE
            ELSE [call |-> t[end - 1], end |-> end + extra, raw |-> extra > 0]
        Object(end) ==
            IF end = 0 \/ t[end - 1] = "other{" THEN NONE ELSE With(end, AttachRaw(From(t, end + 1), 0))
    IN Object(ObjectEnd(t))

HasMarker(t) ==
    Has(t, Fence) \/ Has(t, TagOpen) \/ Has(t, GemmaOpen) \/ Mentions(t, GemmaClose)

\* action_closing: how many marks close the action; 0 when the marker is
\* missing, -1 when another action may follow.
ActionClosing(tail, marker) ==
    LET i == SkipSpace(tail, 1)
        rest == From(tail, i)
        after == From(rest, Len(marker) + 1)
    IN IF rest = <<>> THEN 0
       ELSE IF ~StartsAt(rest, 1, marker) THEN (IF HasMarker(rest) THEN -1 ELSE 0)
       ELSE IF \/ marker = Fence /\ (~Mentions(Upto(tail, i - 1), "n") \/ (after # <<>> /\ ~Blank(LineAt(after, 1))))
               \/ HasMarker(after)
            THEN -1
       ELSE i - 1 + Len(marker)

\* A located call: its first and last mark, and the closing it still misses.
Located(t, start, body, parsed, marker) ==
    LET Closes(closing) ==
            IF closing < 0 THEN NONE
            ELSE [call |-> parsed.call, raw |-> parsed.raw, first |-> start,
                  last |-> body + parsed.end - 1 + closing,
                  missing |-> IF closing = 0 THEN marker ELSE <<>>]
    IN Closes(ActionClosing(From(t, body + parsed.end), marker))

\* locate_fenced_action: ordinary blocks are skipped to their closing line.
RECURSIVE LocateFenced(_, _)
LocateFenced(t, from) ==
    LET openers == {i \in LineStarts(t) : i >= from /\ FenceOpener(LineAt(t, i)) # "none"}
        open == Min(openers)
        Closers(body) == {i \in LineStarts(t) : i >= body /\ Trim(LineAt(t, i)) = Fence}
        Block(line, body, parsed) ==
            IF parsed # NONE /\ (LabelledTool(line) \/ parsed.call # "unknown{")
            THEN Located(t, open, body, parsed, Fence)
            ELSE IF LabelledTool(line) \/ Closers(body) = {} THEN NONE
            ELSE LocateFenced(t, LineEnd(t, Min(Closers(body))) + 1)
        At(line, body) ==
            Block(line, body, IF FenceOpener(line) = "action" THEN ParseAction(From(t, body)) ELSE NONE)
    IN IF openers = {} THEN NONE ELSE At(LineAt(t, open), LineEnd(t, open) + 1)

LocateTagged(t) ==
    LET Tagged(start, parsed) ==
            IF parsed = NONE THEN NONE ELSE Located(t, start, start + 2, parsed, <<TagClose>>)
        At(start) == Tagged(start, ParseAction(From(t, start + 2)))
    IN At(FindOr(t, TagOpen, Len(t) + 1))

\* opener_less_call: the last call before the last closing marker.
OpenerLess(t) ==
    LET closes == {i \in 1..Len(t) : t[i] = GemmaClose}
        calls == {i \in 1..Len(t) : t[i] = "call{" /\ i < Max(closes)}
    IN IF calls = {} THEN 0 ELSE Max(calls)

\* gemma_action: raw text before or after the closing marker, nothing after it.
LocateGemma(t) ==
    LET start == IF Has(t, GemmaOpen) THEN FindOr(t, GemmaOpen, Len(t)) ELSE OpenerLess(t)
        call == IF Has(t, GemmaOpen) THEN SkipSpace(t, start + 2) ELSE start
        fences == {i \in LineStarts(t) : i < start /\ StartsAt(Trim(LineAt(t, i)), 1, Fence)}
        end == call + 1
        before == AttachRaw(From(t, end + 1), 0)
        mark == SkipSpace(t, end + before + 1)
        closed == mark <= Len(t) /\ t[mark] = GemmaClose
        Found(last, raw, missing) ==
            IF Blank(From(t, last + 1))
            THEN [call |-> "known{", raw |-> raw, first |-> start, last |-> last, missing |-> missing]
            ELSE NONE
        Ended(after) ==
            IF after < 0 THEN NONE ELSE Found(mark + after, before + after > 0, <<>>)
    IN IF \/ start = 0 \/ Cardinality(fences) % 2 = 1
          \/ call >= Len(t) \/ t[call] # "call{" \/ t[end] # "}"
          \/ before < 0
       THEN NONE
       ELSE IF closed THEN Ended(IF before = 0 THEN AttachRaw(From(t, mark + 1), 0) ELSE 0)
       ELSE Found(end + before, before > 0, <<GemmaClose>>)

LocateAction(t) ==
    LET trimmed == Trim(t)
        Whole(parsed) ==
            IF parsed = NONE \/ parsed.call = "unknown{" \/ ~Blank(From(trimmed, parsed.end + 1))
            THEN NONE
            ELSE [call |-> parsed.call, raw |-> parsed.raw, first |-> 1, last |-> Len(t),
                  missing |-> <<>>]
    IN IF trimmed # <<>> /\ trimmed[1] \in Objects THEN Whole(ParseAction(trimmed))
       ELSE IF Has(t, GemmaOpen) \/ Mentions(t, GemmaClose) THEN LocateGemma(t)
       ELSE IF Has(t, TagOpen) THEN LocateTagged(t)
       ELSE LocateFenced(t, 1)

AwaitsRaw(located) == located.call = "write{" /\ ~located.raw

\* action_complete: the stream may be stopped here.
ActionComplete(t) ==
    LET Whole(located) ==
            /\ located # NONE
            /\ ~AwaitsRaw(located)
            /\ Has(t, GemmaOpen) \/ Mentions(t, GemmaClose) => located.missing = <<>>
    IN
    /\ Whole(LocateAction(t))
    /\ HasMarker(t) \/ Trim(t)[1] \in Objects

\* transcript_reply: the closing marker that is missing is added.
WithClosing(t, located) ==
    IF located = NONE \/ located.missing = <<>> THEN t
    ELSE Upto(t, located.last)
            \o (IF located.missing = Fence THEN <<"n">> \o Fence ELSE located.missing)
            \o From(t, located.last + 1)

TranscriptReply(t) == WithClosing(t, LocateAction(t))

=============================================================================
