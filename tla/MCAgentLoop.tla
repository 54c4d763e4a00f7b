---------------------------- MODULE MCAgentLoop ----------------------------
(* Two inspections, two writes of one file and a page preview, with the    *)
(* code's thresholds scaled down in proportion.                            *)
EXTENDS AgentLoop, TLC

\* A change, and a plan.
MCRuns == {r \in AllRuns : r.mode \in {"agent", "plan"} /\ ~r.question /\ ~r.readonly}
AgentRuns == {r \in AllRuns : r.mode = "agent" /\ ~r.question /\ ~r.readonly}

CONSTANTS r1, r2, w1, w2, pv, app

MCKind == (r1 :> "read") @@ (r2 :> "read") @@ (w1 :> "write") @@ (w2 :> "write")
          @@ (pv :> "preview")
MCPath == [c \in Calls |-> IF c \in {w1, w2} THEN app ELSE None]
MCText == [c \in Calls |-> IF c \in {w1, w2} THEN c ELSE None]
KindOf == [c \in Calls |-> MCKind[c]]
=============================================================================
