------------------------------ MODULE Terminal ------------------------------
(***************************************************************************)
(* Commands on the machine (terminal.rs and execute_command in tools.rs):  *)
(* a foreground command holds its caller until it exits or its time is up, *)
(* a background command is kept in a registry and ended with the agent run *)
(* that works in its workspace.                                            *)
(*                                                                         *)
(* Runs work in workspaces, and the tools page ("page", POST               *)
(* /tools/execute) calls in one of them for ever.  The registry is taken   *)
(* for one step at a time; between two of them, start_background watches   *)
(* its command for some seconds.  A call on the blocking pool goes on when *)
(* its run is stopped.                                                     *)
(*                                                                         *)
(* A definition named ..._Wrong is the one after it with one mistake; no   *)
(* specification uses it.                                                  *)
(***************************************************************************)
EXTENDS Naturals, FiniteSets

CONSTANTS
    Runs,           \* agent runs
    Owner,          \* per caller: its workspace
    Commands,       \* what is run; "serve" is known to keep running
    MaxIds          \* bound: commands started in the background

Callers == Runs \union {"page"}

Idle == [kind |-> "idle"]

\* A process: its id, command, owner and whether it is up; with the caller,
\* the processes another call was watching when it was started, and whether
\* its run was over when it came to be kept.
Process(id, cmd, caller, beside) ==
    [id |-> id, cmd |-> cmd, owner |-> Owner[caller], caller |-> caller, up |-> TRUE,
     beside |-> beside, late |-> FALSE]

\* held: the registry; calls: what each caller waits for; on: the runs
\* whose StopBackground guard has not been dropped; ended: who ended what.
New == [held |-> {}, calls |-> [c \in Callers |-> Idle], on |-> Runs, next |-> 1, ended |-> {}]

Free(t, c) == t.calls[c] = Idle /\ (c \in Runs => c \in t.on)
Watched(t) == {t.calls[c].process.id : c \in {c \in Callers : t.calls[c].kind = "watch"}}

-----------------------------------------------------------------------------
\* execute_command: a command known to keep running is refused in the
\* foreground (keeps_running); "watch" here is one it does not know.
KeepsRunning(cmd) == cmd = "serve"

\* run
RunCommand(t, c, cmd) ==
    IF ~Free(t, c) \/ KeepsRunning(cmd) THEN {}
    ELSE {[t EXCEPT !.calls[c] = [kind |-> "run", up |-> TRUE]]}

\* It exits, or its time is up and the whole tree is killed: either way the
\* answer is that of a process that is gone.
RunEnds(t, c) ==
    IF t.calls[c].kind # "run" THEN {} ELSE {[t EXCEPT !.calls[c] = Idle]}

\* start_background: the same command that is up is answered with, which
\* changes nothing; another is started and watched.
Same(t, c, cmd) == {p \in t.held : p.cmd = cmd /\ p.owner = Owner[c] /\ p.up}
StartBackground_Wrong(t, c, cmd) ==
    IF ~Free(t, c) \/ t.next > MaxIds THEN {}
    ELSE {[t EXCEPT !.next = @ + 1,
                    !.calls[c] = [kind |-> "watch", process |-> Process(t.next, cmd, c, Watched(t))]]}

StartBackground(t, c, cmd) ==
    IF ~Free(t, c) \/ Same(t, c, cmd) # {} \/ t.next > MaxIds THEN {}
    ELSE {[t EXCEPT !.next = @ + 1,
                    !.calls[c] = [kind |-> "watch", process |-> Process(t.next, cmd, c, Watched(t))]]}

\* Once watched it is kept, if it is still up, whatever became of its run.
Settle(t, c) ==
    IF t.calls[c].kind # "watch" THEN {}
    ELSE LET p == t.calls[c].process
         IN {[t EXCEPT !.calls[c] = Idle,
                       !.held = IF p.up THEN @ \union {[p EXCEPT !.late = c \in Runs /\ c \notin t.on]} ELSE @]}

\* A command exits by itself; its entry is not looked at for that.
Exits(t) ==
    {[t EXCEPT !.held = (@ \ {p}) \union {[p EXCEPT !.up = FALSE]}] : p \in {p \in t.held : p.up}}
    \union {[t EXCEPT !.calls[c].process.up = FALSE] : c \in {c \in Callers : t.calls[c].kind = "watch"}}

\* stop_background, with whatever id the call gives.
StopOne(t, c, id) ==
    IF ~Free(t, c) THEN {}
    ELSE {[t EXCEPT !.held = @ \ {p},
                    !.ended = @ \union {[process |-> p.id, owner |-> p.owner, by |-> c, how |-> "asked"]}] :
            p \in {p \in t.held : p.id = id}}

\* The end of a run, however it ends: StopBackground is dropped with the
\* run's task, which waits for no call of its own (stop_background_for).
EndRun_Wrong(t, r) ==
    IF r \notin t.on THEN {}
    ELSE {[t EXCEPT !.on = @ \ {r}, !.held = {},
                    !.ended = @ \union {[process |-> p.id, owner |-> p.owner, by |-> r, how |-> "end"] :
                                           p \in {p \in t.held : p.up}}]}

EndRun(t, r) ==
    IF r \notin t.on THEN {}
    ELSE LET mine == {p \in t.held : p.owner = Owner[r]}
         IN {[t EXCEPT !.on = @ \ {r}, !.held = @ \ mine,
                       !.ended = @ \union {[process |-> p.id, owner |-> p.owner, by |-> r, how |-> "end"] :
                                              p \in {p \in mine : p.up}}]}

Next(t) ==
    (UNION {RunCommand(t, c, cmd) \union StartBackground(t, c, cmd) : c \in Callers, cmd \in Commands})
    \union (UNION {RunEnds(t, c) \union Settle(t, c) : c \in Callers})
    \union (UNION {StopOne(t, c, id) : c \in Callers, id \in 1..MaxIds})
    \union (UNION {EndRun(t, r) : r \in Runs})
    \union Exits(t)

-----------------------------------------------------------------------------
(* "It is stopped for you when this task ends" (format_background): once no  *)
(* run of a workspace is on, no command that one of them started is up, but  *)
(* one that was still being watched when its run ended: that is kept after   *)
(* the registry was cleared, and nothing stops it.                           *)
RunsLeaveNothing(t) ==
    \A p \in t.held : p.up /\ p.caller \in Runs =>
        p.late \/ \E r \in t.on : Owner[r] = p.owner

(* One server, not two: the same command is up twice in a workspace only if  *)
(* both were started at once, each before the other was kept.                *)
OneOfEach(t) ==
    \A p, q \in {p \in t.held : p.up} :
        p.cmd = q.cmd /\ p.owner = q.owner /\ p.id < q.id => p.id \in q.beside

(* The end of a run ends nothing of another workspace; within its own it     *)
(* ends what another run, or the owner on the tools page, has started.       *)
EndsStayHome(t) == \A e \in t.ended : e.how = "end" => e.owner = Owner[e.by]

(* An id names one command for ever: what is kept has not been ended, and    *)
(* is no longer being watched.                                               *)
IdsAreOnes(t) ==
    /\ \A p, q \in t.held : p.id = q.id => p = q
    /\ \A p \in t.held : p.id \notin {e.process : e \in t.ended} /\ p.id \notin Watched(t)

TerminalHolds(t) ==
    /\ RunsLeaveNothing(t)
    /\ OneOfEach(t)
    /\ EndsStayHome(t)
    /\ IdsAreOnes(t)
=============================================================================
