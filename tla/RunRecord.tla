----------------------------- MODULE RunRecord -----------------------------
(***************************************************************************)
(* What the database says of a conversation's agent runs, however they     *)
(* end.  A run begins once, with a placeholder for its message, and takes  *)
(* the conversation's task context over.  Its message is replaced by its   *)
(* end, and never by a placeholder again; what the recovery wrote stays.   *)
(* The context follows the message of the run it names, so that it never   *)
(* says "completed" before the answer is there, nor of another run.        *)
(* AgentRun implements this (RecordSpec there).                            *)
(***************************************************************************)
CONSTANTS Runs, None

VARIABLES
    message,  \* per run: its stored assistant message
    context   \* the conversation's task context

vars == <<message, context>>

Init ==
    /\ message = [r \in Runs |-> "none"]
    /\ context = [run |-> None, status |-> "none"]

Begin(r) ==
    /\ message[r] = "none"
    /\ message' = [message EXCEPT ![r] = "starting"]
    /\ context' = [run |-> r, status |-> "active"]

\* The run's own word, or its journal's.  A later one replaces it.
Say(r) ==
    /\ message[r] \notin {"none", "recovered"}
    /\ \E end \in {"completed", "interrupted"} : message' = [message EXCEPT ![r] = end]
    /\ UNCHANGED context

\* The context follows the message.
Conclude ==
    /\ context.run # None /\ message[context.run] \in {"completed", "interrupted"}
    /\ context' = [context EXCEPT !.status = message[context.run]]
    /\ UNCHANGED message

\* Closing writes over the messages of some runs, and the context of those only.
Close(some) ==
    /\ \A r \in some : message[r] \notin {"none", "recovered"}
    /\ message' = [r \in Runs |-> IF r \in some THEN "closed" ELSE message[r]]
    /\ context' = IF context.run \in some
                  THEN [context EXCEPT !.status = "interrupted"] ELSE context

\* Recovery replaces placeholders only, and leaves no context active.
Recover(some) ==
    /\ \A r \in some : message[r] = "starting"
    /\ message' = [r \in Runs |-> IF r \in some THEN "recovered" ELSE message[r]]
    /\ context' = IF context.status = "active"
                  THEN [context EXCEPT !.status = "interrupted"] ELSE context

Next ==
    \/ \E r \in Runs : Begin(r) \/ Say(r)
    \/ Conclude
    \/ \E some \in SUBSET Runs : Close(some) \/ Recover(some)

Spec == Init /\ [][Next]_vars
=============================================================================
