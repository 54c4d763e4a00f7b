----------------------------- MODULE MCSessions -----------------------------
(* One session, and an id for a second one.  What is written while a         *)
(* compaction runs, projects that come and go under runs, and attachments    *)
(* that are forked, the fork itself again, each on its own.                  *)
EXTENDS Sessions, TLC

CONSTANTS c1, c2, c3, p1, p2, w1, w2, w3

MCConvs == {c1, c2, c3}
MCProjects == {p1, p2}
MCWorkers == {w1, w2, w3}
Symmetry == Permutations(MCWorkers)

Some(status) == [status |-> status, mode |-> "chat", workspace |-> None]
Session(mode, p) == [status |-> "live", mode |-> mode, workspace |-> p]
Scene(session, third, n, workers, operations) ==
    [conversations |-> (c1 :> session @@ c2 :> Some("new") @@ c3 :> Some(third)), length |-> n,
     workspaces |-> (p1 :> "registered" @@ p2 :> "new"),
     workers |-> workers, operations |-> operations]
Start(session, n, workers, operations) == Scene(session, "deleted", n, workers, operations)
MCStarts ==
    {Start(Session("code", p1), 4, 3, {"compact", "edit", "post"}),
     Start(Session("code", p1), 3, 2, {"compact", "edit", "turn", "run"}),
     Start(Session("code", p1), 1, 2, {"run", "turn", "patch", "project", "delete"}),
     Start(Session("chat", None), 0, 2, {"run", "patch", "project", "create"}),
     Start(Session("chat", p1), 1, 1, {"create", "share", "compact"}),
     Scene(Session("chat", p1), "new", 1, 3, {"attach", "fork", "delete"})}
=============================================================================
