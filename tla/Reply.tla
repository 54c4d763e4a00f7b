------------------------------- MODULE Reply -------------------------------
(***************************************************************************)
(* What a chat reply promises, whoever ends it: somebody takes the right   *)
(* to store it, at most once; only the owner of the right stores it, at    *)
(* most once, under its own name; what is over stays as it is.             *)
(* Generation implements this (ReplySpec there).                           *)
(***************************************************************************)
CONSTANT Turns

VARIABLES
    phase,  \* none, open, taken by the task or by a stop, over
    row     \* who wrote the stored message

vars == <<phase, row>>

Init ==
    /\ phase = [g \in Turns |-> "none"]
    /\ row = [g \in Turns |-> "nobody"]

Becomes(g, from, to, by) ==
    /\ phase[g] = from /\ phase'[g] = to
    /\ phase' = [phase EXCEPT ![g] = to]
    /\ row' = [row EXCEPT ![g] = by]

\* A fixed answer needs no generation.
Answer(g) == row'[g] \in {"notice", "refused"} /\ Becomes(g, "none", "over", row'[g])

Open(g) == Becomes(g, "none", "open", "nobody")

\* The task when its stream has ended, or cancel_current while it streams.
Take(g) == phase'[g] \in {"task", "stop"} /\ Becomes(g, "open", phase'[g], "nobody")

\* cancel_current found nothing to keep.
GiveUp(g) == Becomes(g, "open", "over", "nobody")

\* Only the owner of the right, under its own name.
Store(g) ==
    /\ \/ phase[g] = "task" /\ row'[g] \in {"task", "error", "refused"}
       \/ phase[g] = "stop" /\ row'[g] \in {"stop", "refused"}
    /\ Becomes(g, phase[g], "over", row'[g])

\* The owner goes away first, or the reply belongs to no conversation.
Lose(g) == phase[g] \in {"task", "stop"} /\ Becomes(g, phase[g], "over", "nobody")

Next == \E g \in Turns : Answer(g) \/ Open(g) \/ Take(g) \/ GiveUp(g) \/ Store(g) \/ Lose(g)

Spec == Init /\ [][Next]_vars
=============================================================================
