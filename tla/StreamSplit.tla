----------------------------- MODULE StreamSplit -----------------------------
(***************************************************************************)
(* StreamSplitter (stream_split.rs): a reply arrives in deltas; prose is   *)
(* released, text that could open an action is held until it is decided.   *)
(*                                                                         *)
(* A state s: pending marks, whether they begin a line, whether anything   *)
(* but white space has been released or consumed, the mode, the opener of  *)
(* an undecided fence, whether the action is announced, and the pieces.    *)
(* Pieces are prose marks, "Started", "Finished" and "Incomplete".         *)
(*                                                                         *)
(* A definition named ..._Wrong is the one after it with one mistake; no   *)
(* specification uses it.                                                  *)
(***************************************************************************)
EXTENDS ActionText

UndecidedLimit == 6   \* UNDECIDED_LIMIT, in marks

New == [pending |-> <<>>, lineStart |-> TRUE, replied |-> FALSE, mode |-> "Prose",
        opener |-> <<>>, started |-> FALSE, out |-> <<>>]

\* note_consumed and the removal of the first n pending marks.
Consume(s, n) ==
    [s EXCEPT !.pending = From(@, n + 1),
              !.lineStart = IF n = 0 THEN @ ELSE s.pending[n] = "n",
              !.replied = @ \/ ~Blank(Upto(s.pending, n))]

Release(s, n) == [Consume(s, n) EXCEPT !.out = @ \o Upto(s.pending, n)]

Announce(s) == IF s.started THEN s ELSE [s EXCEPT !.started = TRUE, !.out = Append(@, "Started")]

FinishAction(s, complete) ==
    LET a == Announce(s)
    IN [a EXCEPT !.out = Append(@, IF complete THEN "Finished" ELSE "Incomplete"),
                 !.started = FALSE, !.mode = "Prose", !.opener = <<>>]

\* The name shows as soon as the first half of a call is there.
HasName(t) == \E i \in 1..Len(t) : t[i] \in Objects \ {"other{"}
AnnounceNamed(s) ==
    IF HasName(s.pending) \/ Mentions(s.pending, "call{") THEN Announce(s) ELSE s

-----------------------------------------------------------------------------
(* Steps.  Each returns the next state; a state left unchanged waits.        *)

\* first_fence_line: a line that is a fence, or unfinished and may become one.
FenceLines(s) ==
    {i \in LineStarts(s.pending) :
        /\ i = 1 => s.lineStart
        /\ LET line == LineAt(s.pending, i)
               rest == From(line, SkipSpace(line, 1))
           IN Len(line) - Len(rest) <= 3 /\ (StartsAt(rest, 1, Fence) \/ rest = <<"tt">>)}

\* partial_marker_suffix: the first half of a tag at the end.
PartialTag(t) == t # <<>> /\ t[Len(t)] \in {TagOpen[1], GemmaOpen[1]}

StepProse_Wrong(s, finished) == Release(s, Len(s.pending))

StepProse(s, finished) ==
    LET p == s.pending
        lead == SkipSpace(p, 1) - 1
        none == Len(p) + 1
        tag == Min({FindOr(p, TagOpen, none), FindOr(p, GemmaOpen, none)})
        fence == Min({none} \union FenceLines(s))
        partial == IF ~finished /\ PartialTag(p) THEN Len(p) ELSE none
        at == Min({tag, fence, partial})
        line == LineAt(p, 1)
    IN IF p = <<>> THEN s
       ELSE IF ~s.replied /\ lead < Len(p) /\ p[lead + 1] \in Objects
            THEN [Consume(s, lead) EXCEPT !.mode = "BareJson"]
       ELSE IF ~s.replied /\ Blank(p) /\ ~finished THEN s
       ELSE IF at > 1 THEN Release(s, at - 1)
       ELSE IF tag = 1
            THEN [s EXCEPT !.mode = IF StartsAt(p, 1, GemmaOpen) THEN "Gemma" ELSE "Tagged",
                           !.started = FALSE]
       ELSE IF fence # 1 THEN s
       ELSE IF ~Complete(p, 1) THEN (IF finished THEN Release(s, Len(p)) ELSE s)
       ELSE IF FenceOpener(line) # "action"
            THEN [Release(s, Len(line)) EXCEPT !.mode = "CodeBlock"]
       ELSE IF LabelledTool(line)
            THEN [Consume(s, Len(line)) EXCEPT !.mode = "Fenced", !.started = FALSE]
       ELSE [Consume(s, Len(line)) EXCEPT !.mode = "MaybeFenced", !.opener = line]

\* Up to the closing line; an unfinished line that may become one is kept.
StepCodeBlock(s, finished) ==
    LET p == s.pending
        Begins(i) == i = 1 => s.lineStart
        closers == {i \in LineStarts(p) : Begins(i) /\ Complete(p, i) /\ Trim(LineAt(p, i)) = Fence}
        kept == {i \in LineStarts(p) :
                    Begins(i) /\ ~Complete(p, i) /\ ~finished
                    /\ Trim(LineAt(p, i)) # <<>> /\ Trim(LineAt(p, i))[1] = "tt"}
    IN IF closers # {}
       THEN [Release(s, LineEnd(p, Min(closers))) EXCEPT !.mode = "Prose"]
       ELSE Release(s, IF kept = {} THEN Len(p) ELSE Min(kept) - 1)

\* fence_close: the last mark of the closing line, 0 when there is none yet;
\* lines inside a raw block do not count.
FenceClose(t, finished) ==
    LET Opens(i) == t[i] = "<<<RAW" /\ Trim(LineAt(t, i)) = <<"<<<RAW">>
        Closes(line) == line = Fence
                        \/ (Len(line) > 2 /\ From(line, Len(line) - 1) = Fence
                            /\ ~StartsAt(line, 1, Fence))
        InRaw(i) == \E j \in LineStarts(t) : j < i /\ Opens(j)
                        /\ ~ \E k \in LineStarts(t) : j < k /\ k < i /\ Trim(LineAt(t, k)) = <<"RAW>>>">>
        closers == {i \in LineStarts(t) : ~InRaw(i) /\ Closes(Trim(LineAt(t, i)))}
        End(i) == IF Complete(t, i) \/ finished THEN LineEnd(t, i) ELSE 0
    IN IF closers = {} THEN 0 ELSE End(Min(closers))

\* raw_block_open
RawOpen(t) ==
    \E j \in LineStarts(t) : Trim(LineAt(t, j)) = <<"<<<RAW">> /\ Complete(t, j)
        /\ ~ \E k \in LineStarts(t) : j < k /\ Trim(LineAt(t, k)) = <<"RAW>>>">>

StepFenced(s, finished) ==
    LET a == AnnounceNamed(s)
        At(end) ==
            IF end > 0 THEN FinishAction(Consume(a, end), TRUE)
            ELSE IF finished
                 THEN FinishAction(Consume(a, Len(s.pending)),
                                   ~RawOpen(s.pending) /\ ParseAction(Trim(s.pending)) # NONE)
            ELSE a
    IN At(FenceClose(s.pending, finished))

\* is_action: a call of a known tool and nothing after it.
IsAction(body) ==
    LET Alone(parsed) ==
            parsed # NONE /\ parsed.call # "unknown{" /\ Blank(From(Trim(body), parsed.end + 1))
    IN Alone(ParseAction(Trim(body)))

ReleaseAsCode(s) == [s EXCEPT !.out = @ \o s.opener, !.opener = <<>>, !.mode = "CodeBlock"]

StepMaybeFenced(s, finished) ==
    LET p == s.pending
        first == SkipSpace(p, 1)
        Body(block) ==
            IF From(block, Len(block) - 1) = Fence THEN Upto(block, Len(block) - 2) ELSE block
        Closed(end) ==
            IF IsAction(Body(TrimEnd(Upto(p, end)))) THEN FinishAction(Consume(s, end), TRUE)
            ELSE ReleaseAsCode(s)
        Open ==
            IF ~finished THEN s
            ELSE IF ~HasName(p) THEN ReleaseAsCode(s)
            ELSE FinishAction(Consume(s, Len(p)), ParseAction(Trim(p)) # NONE)
        At(end) == IF end = 0 THEN Open ELSE Closed(end)
    IN IF \/ first <= Len(p) /\ p[first] \notin Objects
          \/ Len(p) > UndecidedLimit /\ ~HasName(p)
       THEN ReleaseAsCode(s)
       ELSE At(FenceClose(p, finished))

StepTagged_Wrong(s, close, finished) ==
    LET at == FindOr(s.pending, close, Len(s.pending) + 1)
    IN IF at <= Len(s.pending) THEN FinishAction(Consume(AnnounceNamed(s), at), TRUE)
       ELSE IF finished THEN [Release(s, Len(s.pending)) EXCEPT !.mode = "Prose"] ELSE s

StepTagged(s, close, finished) ==
    LET a == AnnounceNamed(s)
        at == FindOr(s.pending, close, Len(s.pending) + 1)
    IN IF at <= Len(s.pending) THEN FinishAction(Consume(a, at), TRUE)
       ELSE IF finished THEN FinishAction(Consume(a, Len(s.pending)), FALSE)
       ELSE a

\* The reply began with an object: decided when the object ends.
StepBareJson(s, finished) ==
    LET p == s.pending
        unfinished == Blank(From(p, 2))
    IN IF ObjectEnd(p) = 2
       THEN IF IsAction(Upto(p, 2)) THEN FinishAction(Consume(s, 2), TRUE)
            ELSE [Release(s, 2) EXCEPT !.mode = "Prose"]
       ELSE IF unfinished /\ ~finished THEN s
       ELSE IF finished /\ HasName(p) THEN FinishAction(Consume(s, Len(p)), FALSE)
       ELSE LET prose == [s EXCEPT !.mode = "Prose", !.replied = TRUE]
            IN IF finished THEN Release(prose, Len(p)) ELSE prose

Step(s, finished) ==
    CASE s.mode = "Prose" -> StepProse(s, finished)
      [] s.mode = "CodeBlock" -> StepCodeBlock(s, finished)
      [] s.mode = "Fenced" -> StepFenced(s, finished)
      [] s.mode = "MaybeFenced" -> StepMaybeFenced(s, finished)
      [] s.mode = "Tagged" -> StepTagged(s, <<TagClose>>, finished)
      [] s.mode = "Gemma" -> StepTagged(s, <<GemmaClose>>, finished)
      [] s.mode = "BareJson" -> StepBareJson(s, finished)

\* drain: steps until one waits; a finished stream releases the rest.
RECURSIVE Drain(_, _)
Drain(s, finished) ==
    LET After(next) ==
            IF next.pending # s.pending \/ next.mode # s.mode THEN Drain(next, finished)
            ELSE IF finished /\ next.mode = "Prose" THEN Release(next, Len(next.pending))
            ELSE next
    IN After(Step(s, finished))

PushDelta(s, delta) == Drain([s EXCEPT !.pending = @ \o delta], FALSE)
Finish(s) == Drain(s, TRUE).out

\* A reply split mark by mark, and in one delta.
OneByOne(t) == Finish(FoldLeft(LAMBDA s, mark : PushDelta(s, <<mark>>), New, t))
AtOnce(t) == Finish(PushDelta(New, t))

-----------------------------------------------------------------------------
(* Cases and properties.                                                     *)

N == <<"n">>
Call == {<<o, "}">> : o \in Objects}
Raw == <<"<<<RAW", "n", "w", "n", "RAW>>>", "n">>

\* What a model writes, in pieces: prose, code, calls in every form, raw text.
Segments ==
    {<<"w">>, N, <<"s">>, <<"w", "n">>, <<"tt", "w", "n">>, Raw, Fence \o N,
     Fence \o <<"rust", "n", "w", "n">> \o Fence \o N}
    \union {Fence \o <<"tool", "n">> \o c \o N \o Fence \o N : c \in Call}
    \union {Fence \o N \o c \o N \o Fence \o N : c \in Call}
    \union {Fence \o <<"tool", "n">> \o c \o N \o Raw \o Fence \o N : c \in {<<"write{", "}">>}}
    \union {TagOpen \o c \o e : c \in Call, e \in {<<>>, <<TagClose>>}}
    \union {GemmaOpen \o <<"call{", "}">> \o e : e \in {<<>>, <<GemmaClose>>}}
    \union Call

Events == {"Started", "Finished", "Incomplete"}
Visible(pieces) == SelectSeq(pieces, LAMBDA p : p \notin Events \union White)

\* Where the splitter releases what the parser reads: a fence behind spaces
\* that came alone, a tag inside a code block, a raw block after a bare object.
IndentedFence(t) == \E i \in 1..Len(t) - 1 : t[i] = "s" /\ t[i + 1] = "tt"
QuotedTag(t) ==
    /\ Has(t, TagOpen)
    /\ \E i \in LineStarts(t) : i < FindOr(t, TagOpen, Len(t)) /\ FenceOpener(LineAt(t, i)) # "none"
BareObject(t) == Trim(t) # <<>> /\ Trim(t)[1] \in Objects

(* However the transport cuts a reply into deltas, the user sees the same     *)
(* text and the same actions, whenever the stream ends (stream_split.rs).     *)
CutsAreInvisible(t, s) == ~IndentedFence(t) => Finish(s) = AtOnce(t)

(* Nothing of a call that is executed is shown: what is visible lies outside  *)
(* the action the parser finds, but for three named cases                     *)
(* (stream_split.rs:7-9, agent_runner.rs:1132-1160).                          *)
Hides(t, s, located) ==
    located # NONE /\ located.call # "unknown{"
        => \/ Len(Visible(Finish(s)))
                 <= Len(Visible(Upto(t, located.first - 1) \o From(t, located.last + 1)))
           \/ IndentedFence(t)
           \/ QuotedTag(t)
           \/ BareObject(t) /\ located.raw

HiddenIsExecuted(t, s) == Hides(t, s, LocateAction(t))

(* The transcript copy of a call that was left open reads as the same call,   *)
(* closed, unless prose follows it in its line, or the closing tag lands in   *)
(* the line that ends a raw block and keeps it from ending there              *)
(* (agent_runner.rs:1366).                                                    *)
IsCloseOf(t, located, copy) ==
    located # NONE
        => \/ copy # NONE /\ copy.call = located.call /\ copy.missing = <<>>
           \/ located.last < Len(t) /\ t[located.last + 1] # "n"
           \/ located.raw /\ located.missing \in {<<TagClose>>, <<GemmaClose>>}

CopyIsClosed(t) == IsCloseOf(t, LocateAction(t), LocateAction(TranscriptReply(t)))

=============================================================================
