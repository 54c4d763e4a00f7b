----------------------------- MODULE ChangeView -----------------------------
(***************************************************************************)
(* The change view of an agent run: what a file tool did to a file, as the *)
(* hunks of a unified diff (agent_runner.rs, mutation_snapshot,            *)
(* mutation_diff and unified_hunks).  A file here is Absent, Big (over     *)
(* 64,000 bytes, or no text) or the sequence of its lines.                 *)
(*                                                                         *)
(* A definition named ..._Wrong is the one after it with one mistake; no   *)
(* specification uses it.                                                  *)
(***************************************************************************)
EXTENDS FileTools

Context == 1                   \* 3
Absent == <<<<"absent">>>>
Big == <<<<"big">>>>
Unknown == <<<<"unknown">>>>   \* no snapshot

-----------------------------------------------------------------------------
(* The edit script: what both begin and end with, and between the two a      *)
(* longest common subsequence, removals before additions.                    *)

SharedStart(old, new) ==
    Max({n \in 0..Len(old) : n <= Len(new) /\ SubSeq(old, 1, n) = SubSeq(new, 1, n)})
SharedEnd(old, new, start) ==
    Max({n \in 0..Len(old) - start : n <= Len(new) - start
            /\ SubSeq(old, Len(old) - n + 1, Len(old)) = SubSeq(new, Len(new) - n + 1, Len(new))})

Larger(m, n) == IF m > n THEN m ELSE n
Common(a, b) ==
    LET lcs[i \in 0..Len(a), j \in 0..Len(b)] ==
            IF i = Len(a) \/ j = Len(b) THEN 0
            ELSE IF a[i + 1] = b[j + 1] THEN lcs[i + 1, j + 1] + 1
            ELSE Larger(lcs[i + 1, j], lcs[i, j + 1])
    IN lcs

Script(a, b) ==
    LET lcs == Common(a, b)
        walk[i \in 0..Len(a), j \in 0..Len(b)] ==
            IF i = Len(a) /\ j = Len(b) THEN <<>>
            ELSE IF i < Len(a) /\ j < Len(b) /\ a[i + 1] = b[j + 1]
            THEN <<Keep>> \o walk[i + 1, j + 1]
            ELSE IF i < Len(a) /\ (j = Len(b) \/ lcs[i + 1, j] >= lcs[i, j + 1])
            THEN <<Drop>> \o walk[i + 1, j]
            ELSE <<Add>> \o walk[i, j + 1]
    IN walk[0, 0]

Ops(old, new) ==
    LET start == SharedStart(old, new)
        end == SharedEnd(old, new, start)
        kept(n) == [i \in 1..n |-> Keep]
    IN kept(start) \o Script(SubSeq(old, start + 1, Len(old) - end), SubSeq(new, start + 1, Len(new) - end))
       \o kept(end)

\* The lines of a side before op i.
Before(ops, i, added) == Cardinality({j \in 1..i - 1 : ops[j] # added})

\* Changes at most two contexts apart share a hunk.
Opens(changed) == {i \in changed : \A j \in changed : j < i => j + 1 + 2 * Context < i}
Hunk(ops, old, new, open, close) ==
    LET from == Larger(1, open - Context)
        to == Min({close + Context, Len(ops)})
        line(i) == <<ops[i], IF ops[i] = Add THEN new[Before(ops, i, Drop) + 1] ELSE old[Before(ops, i, Add) + 1]>>
        lines == [n \in 1..to - from + 1 |-> line(from + n - 1)]
    IN [start |-> Before(ops, from, Add) + (IF OldSide(lines) = <<>> THEN 0 ELSE 1), lines |-> lines]

View(old, new) ==
    LET ops == Ops(old, new)
        changed == {i \in DOMAIN ops : ops[i] # Keep}
        opens == SetToSortSeq(Opens(changed), <)
        last(n) == Max({i \in changed : n = Len(opens) \/ i < opens[n + 1]})
    IN [n \in DOMAIN opens |-> Hunk(ops, old, new, opens[n], last(n))]

-----------------------------------------------------------------------------
(* Around a call of a tool.                                                  *)

Viewed == {"edit_file", "write_file", "append_file", "delete_file"}
Snapshot(tool, file) == IF tool \notin Viewed \/ file = Big THEN Unknown ELSE file

NoView == [shown |-> FALSE, hunks |-> <<>>]
Diff_Wrong(tool, before, after) ==
    LET then == Snapshot(tool, before)
        text(file) == IF file \in {Absent, Unknown} THEN <<>> ELSE file
    IN IF then = Snapshot(tool, after) THEN NoView ELSE [shown |-> TRUE, hunks |-> View(text(then), text(after))]

Diff(tool, before, after) ==
    LET then == Snapshot(tool, before)
        now == Snapshot(tool, after)
        text(file) == IF file = Absent THEN <<>> ELSE file
    IN IF Unknown \in {then, now} \/ then = now THEN NoView
       ELSE [shown |-> TRUE, hunks |-> View(text(then), text(now))]

-----------------------------------------------------------------------------
ViewLines == {<<"a">>, <<"b">>}
ViewTexts == UNION {[1..n -> ViewLines] : n \in 0..4} \union {<<<<"a">>, l, l, l, m>> : l, m \in ViewLines}
Files == ViewTexts \union {Absent, Big}
Tools == {"edit_file", "replace_lines"}

(* A change that is shown is the whole change: a patch of the old file with  *)
(* the hunks gives the new one, line for line.                               *)
ViewIsTheChange(before, after, diff) ==
    LET old == IF before = Absent THEN <<>> ELSE before
        new == IF after = Absent THEN <<>> ELSE after
        patched == Patch(Ended(old, TRUE), diff.hunks)
    IN diff.shown /\ old # new =>
          patched # Failed /\ (Lines(patched) = new \/ (new = <<>> /\ Without({"nl"}, patched) = <<>>))

(* And it is the least change: no line that could stay is shown as removed   *)
(* and added, and no more than the context around it ("a one-function        *)
(* insertion showed as the whole file replaced", agent_runner.rs:4955).      *)
ViewIsLeast(before, after, diff) ==
    LET old == IF before = Absent THEN <<>> ELSE before
        new == IF after = Absent THEN <<>> ELSE after
        shared == {kept \in SUBSET DOMAIN old :
                      IsPartOf([i \in 1..Cardinality(kept) |-> old[SetToSortSeq(kept, <)[i]]], new)}
        all == FlattenSeq([n \in DOMAIN diff.hunks |-> diff.hunks[n].lines])
        count(op) == Cardinality({i \in DOMAIN all : all[i][1] = op})
        most == Max({Cardinality(kept) : kept \in shared})
    IN diff.shown => /\ count(Drop) = Len(old) - most /\ count(Add) = Len(new) - most
                     /\ count(Keep) <= 2 * Context * (count(Drop) + count(Add))

(* What changed is shown, but for a file too large and for the tools that    *)
(* are not on the list, replace_lines among them.                            *)
ChangesAreShown(tool, before, after, diff) ==
    /\ tool \in Viewed /\ Big \notin {before, after} /\ before # after => diff.shown
    /\ before = after => ~diff.shown

ChangeViewHolds(tool, before, after, diff) ==
    /\ ViewIsTheChange(before, after, diff)
    /\ ViewIsLeast(before, after, diff)
    /\ ChangesAreShown(tool, before, after, diff)
=============================================================================
