----------------------------- MODULE FileTools ------------------------------
(***************************************************************************)
(* What the file tools do to a text: edit_file with a replacement or with  *)
(* a unified diff, replace_lines (tools.rs), and read_file by pages        *)
(* (file_read.rs).                                                         *)
(*                                                                         *)
(* A text is a sequence of marks: the words "a", "b", "c" and "--", an     *)
(* indentation "pad", a label "1: " copied from a listing, a carriage      *)
(* return "cr" and a line feed "nl".  A failed call is Failed: the file is *)
(* left as it was.                                                         *)
(*                                                                         *)
(* A definition named ..._Wrong is the one after it with one mistake; no   *)
(* specification uses it.                                                  *)
(***************************************************************************)
EXTENDS Integers, Sequences, FiniteSets, SequencesExt, FiniteSetsExt

Failed == <<"failed">>

-----------------------------------------------------------------------------
(* Text.                                                                     *)

Without(marks, text) == SelectSeq(text, LAMBDA mark : mark \notin marks)
HasReturns(text) == "cr" \in Range(text)

\* The raw lines of a text, each without its "nl".
Cut(text) ==
    FoldLeft(LAMBDA lines, mark :
                 IF mark = "nl" THEN Append(lines, <<>>)
                 ELSE [lines EXCEPT ![Len(lines)] = Append(@, mark)],
             <<<<>>>>, text)
RawLines(text) == IF Last(Cut(text)) = <<>> THEN Front(Cut(text)) ELSE Cut(text)
\* str::lines: no line after the last line feed, no carriage return.
Lines(text) == [i \in DOMAIN RawLines(text) |-> Without({"cr"}, RawLines(text)[i])]
Closed(text) == text # <<>> /\ Last(text) = "nl"

Join(lines) ==
    IF lines = <<>> THEN <<>>
    ELSE FoldLeft(LAMBDA text, line : text \o <<"nl">> \o line, Head(lines), Tail(lines))
Close(text, original) == IF Closed(original) THEN Append(text, "nl") ELSE text
Returned(text) == FlattenSeq([i \in DOMAIN text |-> IF text[i] = "nl" THEN <<"cr", "nl">> ELSE <<text[i]>>])
Trim(line) == Without({"pad"}, line)

\* Where a pattern starts in a text, a match not beginning inside another.
AllMatches(text, pattern) ==
    {i \in 1..Len(text) - Len(pattern) + 1 : SubSeq(text, i, i + Len(pattern) - 1) = pattern}
Matches(text, pattern) ==
    FoldLeft(LAMBDA found, i : IF \A j \in found : j + Len(pattern) <= i THEN found \union {i} ELSE found,
             {}, SetToSortSeq(AllMatches(text, pattern), <))

Substituted(text, starts, width, new) ==
    IF text = <<>> THEN new
    ELSE FlattenSeq([i \in DOMAIN text |->
        IF i \in starts THEN new
        ELSE IF \E s \in starts : i > s /\ i < s + width THEN <<>> ELSE <<text[i]>>])
-----------------------------------------------------------------------------
(* apply_replacement: exact, then without copied labels, then line by line   *)
(* whatever the indentation; never more than one place unless told so.       *)

Unlabelled(text) == Without({"1: "}, text)
Blocks(haystack, needle) ==
    {i \in 1..Len(haystack) - Len(needle) + 1 :
        needle # <<>> /\ \A j \in DOMAIN needle : Trim(haystack[i + j - 1]) = Trim(needle[j])}

Replace_Wrong(original, old, new, all) ==
    LET text == Without({"cr"}, original)
        finish(t) == IF HasReturns(original) THEN Returned(t) ELSE t
        found == Matches(text, old)
    IN IF found = {} THEN Failed ELSE finish(Substituted(text, found, Len(old), new))

Replace(original, old, new, all) ==
    LET text == Without({"cr"}, original)
        finish(t) == IF HasReturns(original) THEN Returned(t) ELSE t
        found == Matches(text, old)
        bare == Join(Lines(Unlabelled(old)))
        again == Matches(text, bare)
        haystack == Lines(text)
        needle == Lines(Unlabelled(old))
        blocks == Blocks(haystack, needle)
    IN IF old = <<>> THEN Failed
       ELSE IF Cardinality(found) = 1 \/ (found # {} /\ all)
       THEN finish(Substituted(text, found, Len(old), new))
       ELSE IF found # {} THEN Failed
       ELSE IF bare # old /\ Cardinality(again) = 1
       THEN finish(Substituted(text, again, Len(bare), new))
       ELSE IF Cardinality(blocks) # 1 THEN Failed
       ELSE LET at == CHOOSE i \in blocks : TRUE
            IN finish(Close(Join(SubSeq(haystack, 1, at - 1) \o Lines(new)
                                 \o SubSeq(haystack, at + Len(needle), Len(haystack))), text))

-----------------------------------------------------------------------------
(* replace_lines.                                                            *)

AnyLine == <<"any">>
ReplaceLines_Wrong(original, from, to, new, expect) ==
    LET lines == Lines(original) IN
    IF from = 0 \/ to < from \/ from > Len(lines) THEN Failed
    ELSE Close(Join(SubSeq(lines, 1, from - 1) \o Lines(new) \o SubSeq(lines, to + 1, Len(lines))), original)

ReplaceLines(original, from, to, new, expect) ==
    LET lines == Lines(original)
        body == Join(SubSeq(lines, 1, from - 1) \o Lines(new) \o SubSeq(lines, to + 1, Len(lines)))
    IN IF from = 0 \/ to < from \/ from > Len(lines) THEN Failed
       ELSE IF expect # AnyLine /\ Trim(lines[from]) # Trim(expect) THEN Failed
       ELSE IF body = <<>> THEN body ELSE Close(body, original)
-----------------------------------------------------------------------------
(* apply_unified_patch.  A hunk is the line its header names and its lines,  *)
(* each a kind and a text; a line that reads as a header of a file is none   *)
(* of its lines.                                                             *)

Keep == " "
Drop == "-"
Add == "+"
IsFileHeader(line) == line[1] = Drop /\ line[2] # <<>> /\ line[2][1] = "--"
Read(hunk) == SelectSeq(hunk.lines, LAMBDA line : ~IsFileHeader(line))
Texts(lines) == [i \in DOMAIN lines |-> lines[i][2]]
OldSide(lines) == Texts(SelectSeq(lines, LAMBDA line : line[1] # Add))

Distance(a, b) == IF a >= b THEN a - b ELSE b - a
\* The place nearest to the hint, the earlier of two; places count from 0.
Nearest(places, hint) ==
    CHOOSE p \in places : \A q \in places :
        Distance(p, hint) < Distance(q, hint) \/ (Distance(p, hint) = Distance(q, hint) /\ p <= q)
Places(lines, old, cursor, Same(_, _)) ==
    {p \in cursor..Len(lines) - Len(old) : \A i \in DOMAIN old : Same(lines[p + i], old[i])}
Locate(lines, old, cursor, hint) ==
    LET exact == Places(lines, old, cursor, LAMBDA x, y : x = y)
        loose == Places(lines, old, cursor, LAMBDA x, y : Trim(x) = Trim(y))
    IN IF exact # {} THEN Nearest(exact, hint)
       ELSE IF loose # {} THEN Nearest(loose, hint) ELSE -1

\* A kept line is the file's own, whatever the hunk made of its indentation.
Written(orig, at, lines) ==
    FoldLeft(LAMBDA now, line :
                 IF line[1] = Add THEN [now EXCEPT !.out = Append(@, line[2])]
                 ELSE IF line[1] = Drop THEN [now EXCEPT !.at = @ + 1]
                 ELSE [out |-> Append(now.out, orig[now.at + 1]), at |-> now.at + 1],
             [out |-> <<>>, at |-> at], lines)

\* One hunk, on what the hunks before it left: [out, cursor, ok].
ApplyHunk(now, orig, hunk) ==
    LET lines == Read(hunk)
        old == OldSide(lines)
        hint == IF hunk.start = 0 THEN 0 ELSE hunk.start - 1
        at == IF old # <<>> THEN Locate(orig, old, now.cursor, hint)
              ELSE IF hint < now.cursor THEN now.cursor
              ELSE IF hint > Len(orig) THEN Len(orig) ELSE hint
        written == Written(orig, at, lines)
    IN IF ~now.ok \/ at = -1 THEN [now EXCEPT !.ok = FALSE]
       ELSE [out |-> now.out \o SubSeq(orig, now.cursor + 1, at) \o written.out,
             cursor |-> written.at, ok |-> TRUE]

Patch_Wrong(original, hunks) ==
    LET orig == Lines(original)
        end == FoldLeft(LAMBDA now, hunk : ApplyHunk([now EXCEPT !.cursor = 0], orig, hunk),
                        [out |-> <<>>, cursor |-> 0, ok |-> TRUE], hunks)
    IN IF hunks = <<>> \/ ~end.ok THEN Failed
       ELSE Close(Join(end.out \o SubSeq(orig, end.cursor + 1, Len(orig))), original)

Patch(original, hunks) ==
    LET orig == Lines(original)
        end == FoldLeft(LAMBDA now, hunk : ApplyHunk(now, orig, hunk),
                        [out |-> <<>>, cursor |-> 0, ok |-> TRUE], hunks)
    IN IF hunks = <<>> \/ ~end.ok THEN Failed
       ELSE Close(Join(end.out \o SubSeq(orig, end.cursor + 1, Len(orig))), original)
-----------------------------------------------------------------------------
(* read_file by pages: Chunk marks a page, a label of one mark before each   *)
(* line and one for its end.  A page is the pieces it shows and where to go  *)
(* on, <<0, 0>> at the end of the file.                                      *)

Chunk == 6                     \* CHUNK_CHARS
PageLines == 2                 \* DEFAULT_LINES
Label == 1

Page(text, start, column) ==
    LET lines == Lines(text)
        last == IF start + PageLines - 1 < Len(lines) THEN start + PageLines - 1 ELSE Len(lines)
        Show(now, i) ==
            LET offset == IF i = start THEN column - 1 ELSE 0
                room == Chunk - now.used
                rest == Len(lines[i]) - offset
                take == IF room - Label - 1 < rest THEN room - Label - 1 ELSE rest
            IN IF now.next # <<0, 0>> THEN now
               ELSE IF room <= Label + 1 THEN [now EXCEPT !.next = <<i, offset + 1>>]
               ELSE [pieces |-> Append(now.pieces, [line |-> i, text |-> SubSeq(lines[i], offset + 1, offset + take)]),
                     used |-> now.used + Label + take + 1,
                     next |-> IF take < rest THEN <<i, offset + take + 1>> ELSE <<0, 0>>]
        Continued(end) ==
            IF end.next = <<0, 0>> /\ last < Len(lines) THEN [end EXCEPT !.next = <<last + 1, 1>>] ELSE end
    IN Continued(FoldLeft(Show, [pieces |-> <<>>, used |-> 0, next |-> <<0, 0>>],
                          [i \in 1..last - start + 1 |-> start + i - 1]))

\* What a model sees that follows the continuation of every page.
PageThrough(text) ==
    LET Turned(now, page) == [pieces |-> now.pieces \o page.pieces, next |-> page.next]
        Turn(now, i) ==
            IF now.next = <<0, 0>> THEN now
            ELSE Turned(now, Page(text, now.next[1], now.next[2]))
    IN FoldLeft(Turn, [pieces |-> <<>>, next |-> <<1, 1>>], [i \in 1..Len(text) + 1 |-> i])

-----------------------------------------------------------------------------
(* The cases: every text of at most three short lines, closed or not, with   *)
(* line feeds, with carriage returns, or with both; and every edit of it.    *)

LineTexts == {<<"a">>, <<"b">>, <<"pad", "a">>}
Unusual == {<<"--">>, <<>>, <<"a", "b", "a", "b", "a">>}
Bodies == [1..3 -> {<<"a">>, <<"b">>}] \union UNION {[1..n -> LineTexts \union Unusual] : n \in 0..2}
Ended(lines, closed) == IF closed /\ lines # <<>> THEN Append(Join(lines), "nl") ELSE Join(lines)
Plain == {Ended(lines, closed) : lines \in Bodies, closed \in BOOLEAN}
Mixed(text) ==
    LET first == {i \in DOMAIN text : text[i] = "nl" /\ \A j \in DOMAIN text : text[j] = "nl" => i <= j}
    IN FlattenSeq([i \in DOMAIN text |-> IF i \in first THEN <<"cr", "nl">> ELSE <<text[i]>>])
TextsAt(ending) ==
    CASE ending = "lf" -> Plain [] ending = "crlf" -> {Returned(t) : t \in Plain} [] OTHER -> {Mixed(t) : t \in Plain}

Olds == {<<"a">>, <<"b">>, <<"pad", "b">>, <<"1: ", "a">>, <<"a", "nl", "b">>, <<"a", "nl", "a">>, <<"b", "nl">>, <<>>}
News == {<<"c">>, <<>>}
Starts == {<<Keep, <<"a">>>>, <<Keep, <<"b">>>>, <<Drop, <<"a">>>>, <<Drop, <<"--">>>>, <<Add, <<"c">>>>}
Hunks(n) == {[start |-> start, lines |-> lines] : start \in 0..2, lines \in [1..n -> Starts]}

Replacements == [tool : {"replace"}, old : Olds, new : News, all : BOOLEAN]
LineEdits == [tool : {"lines"}, from : 0..3, to : 0..3, new : News, expect : {AnyLine, <<"a">>}]
Patches == {[tool |-> "patch", hunks |-> hunks] : hunks \in {<<h>> : h \in Hunks(1) \union Hunks(2)}
                                                          \union (Hunks(1) \X {h \in Hunks(1) : h.lines[1] # <<Drop, <<"--">>>>})}

Result(text, edit) ==
    CASE edit.tool = "replace" -> Replace(text, edit.old, edit.new, edit.all)
      [] edit.tool = "lines" -> ReplaceLines(text, edit.from, edit.to, edit.new, edit.expect)
      [] edit.tool = "patch" -> Patch(text, edit.hunks)

-----------------------------------------------------------------------------
(* An edit changes what it names and leaves the rest byte for byte.  The     *)
(* named exceptions are the line endings: replace_lines and a diff write     *)
(* every carriage return away, a replacement makes mixed endings one; a      *)
(* blank line left at the end of a text is no line; a removed line that     *)
(* starts with two dashes is taken for a header of the diff; and a text      *)
(* whose places overlap is taken for unique (str::matches).                  *)

IsMixed(text) == HasReturns(text) /\ text # Returned(Without({"cr"}, text))
Essence(text) == Without({"pad", "cr", "1: ", "nl"}, text)

Once(text, edit) == ~edit.all \/ Cardinality(Matches(Without({"cr"}, text), edit.old)) <= 1
ReplaceHolds(text, edit, result) ==
    \E i \in 1..Len(text) + 1 : \E j \in i - 1..Len(text) :
        LET before == SubSeq(text, 1, i - 1)
            after == SubSeq(text, j + 1, Len(text))
            width == Len(result) - Len(before) - Len(after)
        IN /\ width >= 0
           /\ SubSeq(result, 1, i - 1) = before
           /\ SubSeq(result, i + width, Len(result)) = after
           /\ Essence(SubSeq(text, i, j)) = Essence(edit.old)
           /\ Essence(SubSeq(result, i, i + width - 1)) = Essence(edit.new)

LinesHold(text, edit, result) ==
    LET old == RawLines(text)
        new == SubSeq(old, 1, edit.from - 1) \o RawLines(edit.new) \o SubSeq(old, edit.to + 1, Len(old))
    IN /\ RawLines(result) = new \/ (new # <<>> /\ Last(new) = <<>> /\ RawLines(result) = Front(new))
       /\ edit.expect # AnyLine => Trim(old[edit.from]) = Trim(edit.expect)

Count(lines, line) == Cardinality({i \in DOMAIN lines : Trim(lines[i]) = Trim(line)})
IsPartOf(lines, whole) ==
    \E kept \in SUBSET DOMAIN whole :
        LET at == SetToSortSeq(kept, <) IN lines = [i \in DOMAIN at |-> whole[at[i]]]

PatchHolds(text, edit, result) ==
    LET all == FlattenSeq([i \in DOMAIN edit.hunks |-> edit.hunks[i].lines])
        dropped == Texts(SelectSeq(all, LAMBDA line : line[1] = Drop))
        added == Texts(SelectSeq(all, LAMBDA line : line[1] = Add))
        old == Lines(text)
        new == IF Lines(result) = <<<<>>>> THEN <<>> ELSE Lines(result)  \* a text of one blank line
    IN <<"--">> \notin Range(dropped) =>
          /\ IsPartOf(SelectSeq(new, LAMBDA line : line \notin Range(added)), old)
          /\ \A line \in (Range(old) \union Range(dropped) \union Range(added)) \ {<<>>} :
                Count(new, line) = Count(old, line) - Count(dropped, line) + Count(added, line)

EditHolds(text, edit, result) ==
    result # Failed =>
        /\ edit.tool = "replace" /\ ~IsMixed(text) /\ Once(text, edit) => ReplaceHolds(text, edit, result)
        /\ edit.tool = "lines" /\ ~HasReturns(text) => LinesHold(text, edit, result)
        /\ edit.tool = "patch" => PatchHolds(text, edit, result)

(* Following the continuation of every page shows every line whole, in order *)
(* and once (file_read.rs: line 17,000 is as addressable as line 1).         *)
Covers(seen, text) ==
    LET Of(i) == FlattenSeq([j \in DOMAIN seen.pieces |->
                                IF seen.pieces[j].line = i THEN seen.pieces[j].text ELSE <<>>])
    IN Lines(text) # <<>> =>
          /\ seen.next = <<0, 0>>
          /\ \A i \in DOMAIN Lines(text) : Of(i) = Lines(text)[i]
          /\ \A j \in DOMAIN seen.pieces : j > 1 => seen.pieces[j - 1].line <= seen.pieces[j].line

PagesCover(text) == Covers(PageThrough(text), text)

=============================================================================
