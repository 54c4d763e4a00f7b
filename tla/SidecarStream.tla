--------------------------- MODULE SidecarStream ----------------------------
(***************************************************************************)
(* One streamed request to the model server (llamaserver.rs): it is sent,  *)
(* again at most once per reason, and its answer read as it arrives.       *)
(*                                                                         *)
(* The bytes of an answer are marks: the payload of an event, "cr" and     *)
(* "nl".  Payloads are a piece of text, "think", the pieces of two tool    *)
(* calls, a finish reason, "usage", "done" and "error".  A client s holds  *)
(* the bytes it has not framed, where it goes on looking, and what it made *)
(* of the events so far; the time of an event is its number.               *)
(*                                                                         *)
(* A definition named ..._Wrong is the one after it with one mistake; no   *)
(* specification uses it.                                                  *)
(***************************************************************************)
EXTENDS Integers, Sequences, SequencesExt, FiniteSets

-----------------------------------------------------------------------------
(* Sending (send_with_retry, post_chat, classify_failure).                   *)

\* What the server may do with a post.
Answers == {"ok", "unreachable", "reset", "timeout", "template", "context", "bad", "busy", "broken"}
Transport == {"unreachable", "reset"}

Failure(answer) ==
    CASE answer \in Transport \union {"busy"} -> "Unavailable"
      [] answer = "timeout" -> "Timeout"
      [] answer = "context" -> "ContextExceeded"
      [] answer \in {"bad", "template"} -> "BadRequest"
      [] answer = "broken" -> "Server"

\* What is left of the answers after one send, repeated once if the
\* connection failed before any answer.
Sent_Wrong(answers) == IF Head(answers) \in Transport \union {"timeout"} THEN Tail(answers) ELSE answers
Sent(answers) == IF Head(answers) \in Transport THEN Tail(answers) ELSE answers

\* The strict shape is tried if it differs from what was refused.
Posted(answers, reshapes) ==
    LET first == Sent(answers)
        second == Sent(Tail(first))
    IN IF Head(first) = "template" /\ reshapes THEN second ELSE first
Outcome(answers, reshapes) ==
    LET last == Head(Posted(answers, reshapes)) IN IF last = "ok" THEN "reading" ELSE Failure(last)
Posts(answers, reshapes) == Len(answers) - Len(Posted(answers, reshapes)) + 1

-----------------------------------------------------------------------------
(* Framing (SseFrames).                                                      *)

New == [buf |-> <<>>, scanFrom |-> 0, text |-> <<>>, calls |-> <<>>, phases |-> <<"processing">>,
        finish |-> "", done |-> FALSE, thought |-> FALSE, native |-> FALSE, time |-> 0,
        first |-> 0, segment |-> 0, last |-> 0, output |-> 0, reasoning |-> 0, thinking |-> 0,
        end |-> "reading"]

At(buf, i) == IF i \in DOMAIN buf THEN buf[i] ELSE "none"
\* The blank line, by LF or CRLF, that ends a frame: the place of its first
\* LF and the width from there.
Width(buf, i) ==
    IF At(buf, i) # "nl" THEN 0
    ELSE IF At(buf, i + 1) = "nl" THEN 2
    ELSE IF At(buf, i + 1) = "cr" /\ At(buf, i + 2) = "nl" THEN 3 ELSE 0

FrameEnds_Wrong(s) == {i \in DOMAIN s.buf : i > s.scanFrom /\ Width(s.buf, i) > 0}

FrameEnds(s) == {i \in DOMAIN s.buf : i > s.scanFrom - 3 /\ Width(s.buf, i) > 0}

-----------------------------------------------------------------------------
(* Events (stream_body, StreamedToolCalls, VisibleOutputClock).              *)

Phase(s, phase) == IF Last(s.phases) = phase THEN s ELSE [s EXCEPT !.phases = Append(@, phase)]

CloseOutput(s) == IF s.segment = 0 THEN s ELSE [s EXCEPT !.output = @ + s.last - s.segment, !.segment = 0]
CloseThinking(s) ==
    IF s.reasoning = 0 THEN s ELSE [s EXCEPT !.thinking = @ + s.time - s.reasoning, !.reasoning = 0]
Once(now, then) == IF now = 0 THEN then ELSE now

Think(s) ==
    LET now == CloseOutput(s)
    IN Phase([now EXCEPT !.thought = TRUE, !.reasoning = Once(@, s.time)], "thinking")

\* A complete action in the text stops the reading at once.
Speak(s, piece) ==
    LET now == CloseThinking(s)
        said == Phase([now EXCEPT !.first = Once(@, s.time), !.segment = Once(@, s.time), !.last = s.time,
                                  !.text = Append(@, piece)], "responding")
    IN IF piece = "action" THEN [said EXCEPT !.end = "early"] ELSE said

NoCall == [id |-> "", name |-> <<>>, args |-> <<>>]
\* A delta names its call by index; an index not seen yet makes room.
Join_Wrong(calls, index, field, piece) ==
    LET grown == Append(calls, NoCall)
    IN IF field = "args" THEN [grown EXCEPT ![Len(grown)].args = Append(@, piece)]
       ELSE [grown EXCEPT ![Len(grown)].name = Append(@, piece)]

Join(calls, index, field, piece) ==
    LET grown == IF Len(calls) >= index THEN calls
                 ELSE calls \o [i \in 1..index - Len(calls) |-> NoCall]
    IN CASE field = "args" -> [grown EXCEPT ![index].args = Append(@, piece)]
         [] field = "name" -> [grown EXCEPT ![index].name = Append(@, piece)]
         [] field = "both" -> [grown EXCEPT ![index].name = Append(@, piece), ![index].id = "id" \o ToString(index)]
CallPieces == [n1 |-> <<1, "both">>, a1 |-> <<1, "args">>, n2 |-> <<2, "name">>, a2 |-> <<2, "args">>]

Call(s, piece) ==
    Phase([s EXCEPT !.native = TRUE, !.calls = Join(@, CallPieces[piece][1], CallPieces[piece][2], piece)],
          "responding")

Texts == {"word", "action"}
Event(s, payload) ==
    LET now == [s EXCEPT !.time = @ + 1]
    IN CASE payload = "done" -> [s EXCEPT !.done = TRUE]
         [] payload = "error" -> [s EXCEPT !.end = "error"]
         [] payload = "think" -> Think(now)
         [] payload \in Texts -> Speak(now, payload)
         [] payload \in DOMAIN CallPieces -> Call(now, payload)
         [] payload \in {"stop", "length"} -> [now EXCEPT !.finish = payload]
         [] payload = "tool_calls" -> [now EXCEPT !.finish = payload, !.native = TRUE]
         [] OTHER -> now

\* Every frame there is; an error or a complete action leaves the rest.
RECURSIVE Frames(_)
Frames(s) ==
    IF s.end # "reading" \/ FrameEnds(s) = {} THEN [s EXCEPT !.scanFrom = Len(s.buf)]
    ELSE LET at == CHOOSE i \in FrameEnds(s) : \A j \in FrameEnds(s) : i <= j
             payloads == SelectSeq(SubSeq(s.buf, 1, at - 1), LAMBDA mark : mark \notin {"cr", "nl"})
             rest == [s EXCEPT !.buf = SubSeq(s.buf, at + Width(s.buf, at), Len(s.buf)), !.scanFrom = 0]
         IN Frames(FoldLeft(LAMBDA now, p : IF now.end # "reading" THEN now ELSE Event(now, p), rest, payloads))

\* A chunk; whether the reply was cancelled is asked once per chunk.
Receive(s, chunk, cancelled) ==
    IF cancelled THEN [s EXCEPT !.end = "cancelled"] ELSE Frames([s EXCEPT !.buf = @ \o chunk])

\* StreamedToolCalls::finish
Finished(calls) ==
    SelectSeq([i \in DOMAIN calls |->
                  [calls[i] EXCEPT !.id = IF @ = "" THEN "call_" \o ToString(i - 1) ELSE @,
                                   !.args = IF @ = <<>> THEN <<"{}">> ELSE @]],
              LAMBDA call : call.name # <<>>)

\* The end of the connection, or of the reading.
Close(s) ==
    LET timed == CloseThinking(CloseOutput(s))
        ended == [timed EXCEPT !.calls = Finished(@)]
    IN IF s.end = "error" THEN s
       ELSE IF s.end = "reading" /\ ~s.done /\ s.finish = "" THEN [s EXCEPT !.end = "truncated"]
       ELSE IF s.end = "reading" THEN [ended EXCEPT !.end = "complete"]
       ELSE ended

\* Where the count of visible tokens comes from.
Basis(s) ==
    IF s.text = <<>> THEN "none" ELSE IF s.thought \/ s.end = "early" THEN "tokenizer" ELSE "engine"
-----------------------------------------------------------------------------
(* What a server may send: a reply, whole or cut where the server died.      *)

Opening == {<<>>, <<"think">>, <<"word">>, <<"think", "word", "think">>, <<"word", "action">>}
Middle == {<<>>, <<"word">>, <<"n1", "a1">>, <<"n1", "n2", "a1", "a2">>, <<"n2", "a2", "n1">>}
Closing == {<<"stop", "usage", "done">>, <<"tool_calls", "done">>, <<"length">>, <<"error">>}
Replies == {a \o b \o c : a \in Opening, b \in Middle, c \in Closing}
Bytes(reply, crlf) ==
    FlattenSeq([i \in DOMAIN reply |->
        IF crlf THEN <<reply[i], "cr", "nl", "cr", "nl">> ELSE <<reply[i], "nl", "nl">>])

\* Every event of a byte string, as one chunk would give it.
AtOnce(bytes) == Frames([New EXCEPT !.buf = bytes])
Same(s, t) == [s EXCEPT !.buf = <<>>, !.scanFrom = 0] = [t EXCEPT !.buf = <<>>, !.scanFrom = 0]

(* However the connection cuts the bytes, what has been made of them is the  *)
(* same as in one piece (SseFrames::next_frame: a blank line may be split    *)
(* over chunks, and the scan resumes three bytes back).                      *)
CutsDoNotMatter(bytes, s) == s.end \in {"reading", "early", "error"} => Same(s, AtOnce(bytes))

(* A reply that counts as complete was ended by the server and is all of     *)
(* what it sent: its text, and every call whole, named, with an id of its    *)
(* own.  One the server broke off is a failure.                              *)
CompleteIsWhole(reply, s) ==
    s.end = "complete" =>
        /\ Range(reply) \intersect {"stop", "length", "tool_calls", "done"} # {}
        /\ s.text = SelectSeq(reply, LAMBDA p : p \in Texts)
        /\ \A i, j \in DOMAIN s.calls : i # j => s.calls[i].id # s.calls[j].id
        /\ \A p \in Range(reply) \intersect DOMAIN CallPieces :
              \E i \in DOMAIN s.calls : p \in Range(s.calls[i].name \o s.calls[i].args)
        /\ \A i \in DOMAIN s.calls : s.calls[i].name \in {<<"n1">>, <<"n2">>}

(* The measured times fit into the whole, output and thinking apart, and no  *)
(* hidden token is counted as an answer.                                     *)
TimesAddUp(s) ==
    /\ s.output + s.thinking <= s.time
    /\ s.first # 0 <=> s.text # <<>>
    /\ Basis(s) = "engine" => "thinking" \notin Range(s.phases)

(* A request is repeated only when nothing was generated for it: at most     *)
(* four posts, none after a timeout or an answer (send_with_retry,           *)
(* post_chat).                                                               *)
RepeatsAreFree(answers, reshapes) ==
    LET n == Posts(answers, reshapes)
    IN /\ n <= 4
       /\ \A i \in 1..n - 1 : answers[i] \in Transport \union {"template"}
       /\ Cardinality({i \in 1..n : answers[i] = "template"}) <= 2
=============================================================================
