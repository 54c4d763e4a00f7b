----------------------------- MODULE MCApproval -----------------------------
(* Approval for TLC: two runs that want to search, one with Search on, in   *)
(* the modes Ask and Auto.                                                   *)
EXTENDS Approval, TLC

CONSTANTS r1, r2

const_Runs == {r1, r2}
const_Searching == {r1}
const_CallsOf == [r \in const_Runs |-> {"web_search"}]
const_Stoppable == {r2}
=============================================================================
