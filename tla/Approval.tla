------------------------------ MODULE Approval ------------------------------
(***************************************************************************)
(* Permission modes and approvals: the gate every tool call of an agent    *)
(* run passes, await_approval that parks a run until somebody decides, the *)
(* requests that answer it (agent_resume, agent_stop), the two that change *)
(* the mode (put_permission_mode, put_settings) and release the runs the   *)
(* new mode lets go on, and the session grants.                            *)
(*                                                                         *)
(* The handlers and the tasks of the runs are parallel.  settings_update   *)
(* serialises the changes of the mode with the re-check of a run that has  *)
(* just published its call; answers are not under it.                      *)
(*                                                                         *)
(* A definition named ..._Wrong is the one after it with one mistake; no   *)
(* specification uses it.                                                  *)
(***************************************************************************)
EXTENDS Naturals, FiniteSets

CONSTANTS
    Runs,      \* agent runs of one workspace that may change it
    Searching, \* those started with Search on
    Droppable, \* bound: the requests, "mode" or "settings", that may lose their client
    Grantable, \* bound: the tools a call from outside the runs is granted
    Stoppable, \* bound: those that may get an agent_stop request
    Calls,     \* the kinds of calls the model makes
    CallsOf,   \* those it makes in a run
    Modes,     \* the permission modes of PERMISSION_MODES that are tried
    Policies,  \* the Search policies that are tried: TRUE is "deny"
    None

ASSUME ApprovalAssumption ==
    /\ IsFiniteSet(Runs) /\ None \notin Runs
    /\ Runs \intersect {"mode", "settings", "client"} = {}
    /\ Droppable \subseteq {"mode", "settings"}
    /\ Searching \subseteq Runs /\ Stoppable \subseteq Runs
    /\ Calls \subseteq {"read", "edit", "git_edit", "open", "command", "web_search"}
    /\ CallsOf \in [Runs -> SUBSET Calls]
    /\ Modes \subseteq {"ask", "accept_edits", "plan", "auto"} /\ Modes # {}
    /\ Policies \subseteq BOOLEAN /\ Policies # {}

VARIABLES
    mode,       \* settings.agent.permission_mode
    denied,     \* settings.search.autonomous = "deny"
    saved,      \* the mode in the database
    autonomy,   \* PermissionManager.autonomy
    grants,     \* PermissionManager.grants: the tools granted in the workspace
    update,     \* what the holder of settings_update is doing
    torn,       \* history: a change of the mode was dropped between its steps
    unseen,     \* history: the last scan for waiting runs was not a full one
    pc,         \* per run: where its task is
    call,       \* per run: the call it is about
    consent,    \* per run: the prompt is web_search's own
    pending,    \* per run: LiveRun.pending
    tx,         \* per run: LiveRun.pending_tx holds the sender
    answer,     \* per run: what was sent to the receiver
    waiting,    \* per run: its last event says WAITING_PERMISSION
    registered, \* the runs in the registry
    stop,       \* per run: its agent_stop request
    aborted     \* the runs whose task was aborted

policy == <<mode, denied, saved, autonomy>>
history == <<torn, unseen>>
prompt == <<pending, tx, answer, waiting>>
control == <<registered, stop, aborted>>
vars == <<policy, grants, update, history, pc, call, consent, prompt, control>>

-----------------------------------------------------------------------------
(* permissions.rs.  The levels Chat and Assisted come from no mode.          *)

AutonomyFor(m) ==
    CASE m = "auto" -> "autonomous"
      [] m = "accept_edits" -> "accept_edits"
      [] OTHER -> "workspace_agent"

Risk(c) ==
    CASE c = "read" -> "safe"
      [] c = "command" -> "dangerous"
      [] OTHER -> "moderate"

\* Grants are by tool: an edit inside .git is an edit.
Tool(c) == IF c = "git_edit" THEN "edit" ELSE c

\* What the level lets run without asking, whatever was granted.
ByLevel(level, c) ==
    \/ level = "autonomous"
    \/ Risk(c) = "safe"
    \/ level = "accept_edits" /\ c = "edit"

\* decide_call: TRUE is Allow, FALSE is RequireApproval.
Decide(c) ==
    \/ ByLevel(autonomy, c)
    \/ /\ Risk(c) = "moderate" /\ Tool(c) \in grants
       /\ ~(autonomy = "accept_edits" /\ c = "git_edit")

-----------------------------------------------------------------------------
\* Where a task has to wait, and an abort drops it.
Parked == {"model", "parked", "act"}
Places == Parked \union {"new", "publish", "announce", "lock", "scan",
                         "resumed", "consent", "over"}

Answers == {"once", "session", "denied", "released"}

\* What a holder of settings_update works with: its request, and of a scan the
\* runs it still has to look at, the call it read and whether it is stale.
Holders == [by : Runs \union {"mode", "settings", "client"},
            mode : Modes \union {None}, denied : BOOLEAN,
            at : {"save", "first", "second", "scan"}, todo : SUBSET Runs,
            run : Runs \union {None}, judged : Calls \union {None},
            stale : BOOLEAN, partial : BOOLEAN]

ASSUME NothingAssumption == None \notin Calls \union Answers \union Holders

TypeOK ==
    /\ mode \in Modes /\ saved \in Modes /\ denied \in BOOLEAN
    /\ autonomy \in {AutonomyFor(m) : m \in Modes}
    /\ grants \subseteq {Tool(c) : c \in {k \in Calls : Risk(k) = "moderate"}}
    /\ update \in Holders \union {None}
    /\ torn \in BOOLEAN /\ unseen \in BOOLEAN
    /\ pc \in [Runs -> Places]
    /\ call \in [Runs -> Calls \union {None}] /\ consent \in [Runs -> BOOLEAN]
    /\ pending \in [Runs -> Calls \union {None}] /\ tx \in [Runs -> BOOLEAN]
    /\ answer \in [Runs -> Answers \union {None}]
    /\ waiting \in [Runs -> BOOLEAN]
    /\ registered \subseteq Runs /\ aborted \subseteq Runs
    /\ stop \in [Runs -> {"no", "acted", "done"}]

Init ==
    /\ mode \in Modes /\ saved = mode /\ autonomy = AutonomyFor(mode)
    /\ denied \in Policies /\ grants = {} /\ update = None
    /\ torn = FALSE /\ unseen = FALSE
    /\ pc = [r \in Runs |-> "new"] /\ call = [r \in Runs |-> None]
    /\ consent = [r \in Runs |-> FALSE]
    /\ pending = [r \in Runs |-> None] /\ tx = [r \in Runs |-> FALSE]
    /\ answer = [r \in Runs |-> None] /\ waiting = [r \in Runs |-> FALSE]
    /\ registered = {} /\ aborted = {}
    /\ stop = [r \in Runs |-> "no"]

Goto(r, at) == pc' = [pc EXCEPT ![r] = at]

\* LiveRun::emit; the readers here ask whether the last event is a prompt.
Emit(r, isPrompt) == waiting' = [waiting EXCEPT ![r] = isPrompt]

-----------------------------------------------------------------------------
(* The life of a run, as far as its prompts see it.                          *)

\* spawn_agent_run spawns the task and then registers the run.
Spawn(r) ==
    /\ pc[r] = "new" /\ Goto(r, "model")
    /\ UNCHANGED <<policy, grants, update, history, call, consent, prompt, control>>

Register(r) ==
    /\ pc[r] # "new" /\ r \notin registered
    /\ registered' = registered \union {r}
    /\ UNCHANGED <<policy, grants, update, history, pc, call, consent, prompt,
                   stop, aborted>>

\* A call that is not carried out: the loop goes on with the next request.
Refuse(r) ==
    /\ Goto(r, "model") /\ Emit(r, FALSE)
    /\ call' = [call EXCEPT ![r] = None] /\ consent' = [consent EXCEPT ![r] = FALSE]

\* A call that is carried out.  web_search asks again, for itself, and then
\* its prompt stays the last event until it is done.
Carry(r, c) ==
    /\ Goto(r, IF c = "web_search" /\ ~consent[r] THEN "consent" ELSE "act")
    /\ call' = [call EXCEPT ![r] = c]
    /\ IF consent[r] THEN UNCHANGED waiting ELSE Emit(r, FALSE)
    /\ UNCHANGED consent

\* The model's reply ends the run or asks for a call, which passes the
\* permission policy.  The modes Plan and CodeAssist refuse what is not SAFE
\* before it, and so never ask: their runs are left out.
Reply(r) ==
    /\ pc[r] = "model" /\ r \notin aborted
    /\ \/ Goto(r, "over") /\ Emit(r, FALSE) /\ UNCHANGED <<call, consent>>
       \/ \E c \in CallsOf[r] : Decide(c) /\ Carry(r, c)
       \/ \E c \in CallsOf[r] :
             /\ ~Decide(c) /\ Goto(r, "publish")
             /\ call' = [call EXCEPT ![r] = c] /\ Emit(r, FALSE) /\ UNCHANGED consent
    /\ UNCHANGED <<policy, grants, update, history, pending, tx, answer, control>>

\* web_search: the run's Search switch, the Search policy, and unless the
\* mode is Auto a prompt of its own.
Consent(r) ==
    /\ pc[r] = "consent"
    /\ \/ (r \notin Searching \/ denied) /\ Refuse(r)
       \/ /\ r \in Searching /\ ~denied /\ autonomy = "autonomous"
          /\ Goto(r, "act") /\ UNCHANGED <<call, consent, waiting>>
       \/ /\ r \in Searching /\ ~denied /\ autonomy # "autonomous"
          /\ Goto(r, "publish") /\ consent' = [consent EXCEPT ![r] = TRUE]
          /\ UNCHANGED <<call, waiting>>
    /\ UNCHANGED <<policy, grants, update, history, pending, tx, answer, control>>

\* The tool has run.
Done(r) ==
    /\ pc[r] = "act" /\ r \notin aborted
    /\ Refuse(r)
    /\ UNCHANGED <<policy, grants, update, history, pending, tx, answer, control>>

\* The aborted task is dropped where it waits; it may hold settings_update.
Drop(r) ==
    /\ r \in aborted
    /\ pc[r] \in Parked \union {"scan", "lock"} /\ (pc[r] = "lock" => update # None)
    /\ Goto(r, "over")
    /\ update' = IF update # None /\ update.by = r THEN None ELSE update
    /\ call' = [call EXCEPT ![r] = None] /\ consent' = [consent EXCEPT ![r] = FALSE]
    /\ UNCHANGED <<policy, grants, history, prompt, control>>

-----------------------------------------------------------------------------
(* await_approval.                                                           *)

\* The call and the sender of its answer are published, then the event.  From
\* here an answer found for an earlier call is taken for this one.
Publish(r) ==
    /\ pc[r] = "publish" /\ Goto(r, "announce")
    /\ pending' = [pending EXCEPT ![r] = call[r]]
    /\ tx' = [tx EXCEPT ![r] = TRUE] /\ answer' = [answer EXCEPT ![r] = None]
    /\ update' = IF update # None /\ update.run = r THEN [update EXCEPT !.stale = TRUE]
                 ELSE update
    /\ UNCHANGED <<policy, grants, history, call, consent, waiting, control>>

\* The task parks at once: a mode set just before the call was published has
\* looked for waiting runs already.
Announce_Wrong(r) ==
    /\ pc[r] = "announce" /\ Goto(r, IF answer[r] = None THEN "parked" ELSE "resumed")
    /\ Emit(r, TRUE)
    /\ UNCHANGED <<policy, grants, update, history, call, consent, pending, tx, answer,
                   control>>

Announce(r) ==
    /\ pc[r] = "announce" /\ Goto(r, "lock") /\ Emit(r, TRUE)
    /\ UNCHANGED <<policy, grants, update, history, call, consent, pending, tx, answer,
                   control>>

\* The runs a scan looks at: those in the registry that show a prompt.  It is
\* a full one unless a call waits that the registry does not know yet.
Scan(by) ==
    [by |-> by, mode |-> None, denied |-> FALSE, at |-> "scan",
     todo |-> {r \in registered : waiting[r]}, run |-> None, judged |-> None,
     stale |-> FALSE, partial |-> \E r \in Runs \ registered : tx[r]]

\* The re-check under settings_update.
Recheck(r) ==
    /\ pc[r] = "lock" /\ update = None
    /\ Goto(r, "scan") /\ update' = Scan(r)
    /\ UNCHANGED <<policy, grants, history, call, consent, prompt, control>>

\* The receiver yields the answer: it has it already, or the task was woken.
\* The prompt goes; an approval for the session is a grant for a MODERATE
\* tool asked by the gate.
Resumed(r) ==
    /\ pc[r] = "resumed" \/ (pc[r] = "parked" /\ answer[r] # None /\ r \notin aborted)
    /\ pending' = [pending EXCEPT ![r] = None]
    /\ answer' = [answer EXCEPT ![r] = None]
    /\ IF answer[r] = "denied"
       THEN Refuse(r) /\ UNCHANGED grants
       ELSE /\ Carry(r, call[r])
            /\ grants' = IF answer[r] = "session" /\ ~consent[r] /\ Risk(call[r]) = "moderate"
                         THEN grants \union {Tool(call[r])} ELSE grants
    /\ UNCHANGED <<policy, update, history, tx, control>>

-----------------------------------------------------------------------------
(* resume_auto_approved_runs, by the holder of settings_update.              *)

\* The pending call is cloned ...
Look(r) ==
    /\ update # None
    /\ update.at = "scan" /\ update.run = None /\ r \in update.todo
    /\ update' = [update EXCEPT !.todo = @ \ {r},
                                !.run = IF pending[r] = None THEN None ELSE r,
                                !.judged = pending[r], !.stale = FALSE]
    /\ UNCHANGED <<policy, grants, history, pc, call, consent, prompt, control>>

\* A session grant is taken for the consent to search.
Releasable_Wrong(r, c) ==
    /\ c = "web_search" => r \in Searching /\ ~denied
    /\ Decide(c)

\* A call the new mode may release: Search needs Auto, and a grant is no
\* consent to it.
Releasable(r, c) ==
    /\ c = "web_search" => r \in Searching /\ ~denied /\ autonomy = "autonomous"
    /\ Decide(c)

\* The sender is used up, whether or not the task is there to receive.
Send(r, a) ==
    /\ tx' = [tx EXCEPT ![r] = FALSE]
    /\ answer' = IF pc[r] = "over" THEN answer ELSE [answer EXCEPT ![r] = a]

\* ... judged, and the sender that is there now is taken and used.
Release(r) ==
    /\ update # None /\ update.run = r
    /\ IF Releasable(r, update.judged) /\ tx[r]
       THEN Send(r, "released") ELSE UNCHANGED <<tx, answer>>
    /\ update' = [update EXCEPT !.run = None, !.judged = None, !.stale = FALSE]
    /\ UNCHANGED <<policy, grants, history, pc, call, consent, pending, waiting, control>>

\* The scan is over and settings_update is given back.
EndScan ==
    /\ update # None
    /\ update.at = "scan" /\ update.run = None /\ update.todo = {}
    /\ update' = None /\ unseen' = update.partial
    /\ IF update.by \in Runs
       THEN Goto(update.by, IF answer[update.by] = None THEN "parked" ELSE "resumed")
       ELSE UNCHANGED pc
    /\ UNCHANGED <<policy, grants, torn, call, consent, prompt, control>>

-----------------------------------------------------------------------------
(* put_permission_mode and put_settings.                                     *)

BeginUpdate(m, d) ==
    /\ update = None
    /\ \E by \in {"mode", "settings"} :
          /\ by = "mode" => d = denied
          /\ update' = [Scan(by) EXCEPT !.mode = m, !.denied = d, !.at = "save",
                                        !.todo = {}, !.partial = FALSE]
    /\ UNCHANGED <<policy, grants, history, pc, call, consent, prompt, control>>

\* The database comes first: when it fails nothing has changed.
Save ==
    /\ update # None /\ update.at = "save"
    /\ \/ saved' = update.mode /\ update' = [update EXCEPT !.at = "first"]
       \/ update' = None /\ UNCHANGED saved
    /\ UNCHANGED <<mode, denied, autonomy, grants, history, pc, call, consent, prompt,
                   control>>

SetSettings == mode' = update.mode /\ denied' = update.denied
SetPermissions == autonomy' = AutonomyFor(update.mode)

\* One handler changes the settings first, the other the permissions.
First ==
    /\ update # None /\ update.at = "first"
    /\ IF update.by = "mode" THEN SetSettings /\ UNCHANGED autonomy
                             ELSE SetPermissions /\ UNCHANGED <<mode, denied>>
    /\ update' = [update EXCEPT !.at = "second"]
    /\ UNCHANGED <<saved, grants, history, pc, call, consent, prompt, control>>

\* put_settings leaves the permissions as they are.
Second_Wrong ==
    /\ update # None /\ update.at = "second"
    /\ SetSettings /\ UNCHANGED autonomy
    /\ update' = Scan("client")
    /\ torn' = FALSE
    /\ UNCHANGED <<saved, grants, unseen, pc, call, consent, prompt, control>>

Second ==
    /\ update # None /\ update.at = "second"
    /\ IF update.by = "mode" THEN SetPermissions /\ UNCHANGED <<mode, denied>>
                             ELSE SetSettings /\ UNCHANGED autonomy
    /\ update' = Scan("client")
    /\ torn' = FALSE
    /\ UNCHANGED <<saved, grants, unseen, pc, call, consent, prompt, control>>

\* The client goes away and axum drops the handler at one of its awaits.
Disconnect ==
    /\ update # None /\ update.by \in Droppable \union {"client"} /\ Droppable # {}
    /\ update' = None
    /\ torn' = (torn \/ update.at \in {"first", "second"})
    /\ unseen' = (unseen \/ update.at # "save")
    /\ UNCHANGED <<policy, grants, pc, call, consent, prompt, control>>

-----------------------------------------------------------------------------
(* The user's requests about a run.                                          *)

\* agent_resume names the run and not the call: whatever waits is answered.
Resume(r) ==
    /\ r \in registered /\ tx[r]
    /\ \E a \in {"once", "session", "denied"} : Send(r, a)
    /\ UNCHANGED <<policy, grants, update, history, pc, call, consent, pending, waiting,
                   control>>

\* agent_stop: the task is aborted and its prompt denied ...
Stop(r) ==
    /\ r \in registered \intersect Stoppable /\ stop[r] = "no" /\ pc[r] # "over"
    /\ stop' = [stop EXCEPT ![r] = "acted"] /\ aborted' = aborted \union {r}
    /\ IF tx[r] THEN Send(r, "denied") ELSE UNCHANGED <<tx, answer>>
    /\ UNCHANGED <<policy, grants, update, history, pc, call, consent, pending, waiting,
                   registered>>

\* ... the prompt is taken away and the end reported.
StopClear(r) ==
    /\ stop[r] = "acted" /\ stop' = [stop EXCEPT ![r] = "done"]
    /\ pending' = [pending EXCEPT ![r] = None] /\ Emit(r, FALSE)
    /\ UNCHANGED <<policy, grants, update, history, pc, call, consent, tx, answer,
                   registered, aborted>>

\* execute_tool, a call that comes from no run: a grant for the session is
\* recorded alongside the approval, for a MODERATE tool.
ExecuteTool(c) ==
    /\ Risk(c) = "moderate" /\ Tool(c) \in Grantable /\ grants' = grants \union {Tool(c)}
    /\ UNCHANGED <<policy, update, history, pc, call, consent, prompt, control>>

Task(r) ==
    \/ Spawn(r) \/ Register(r) \/ Reply(r) \/ Consent(r) \/ Done(r) \/ Drop(r)
    \/ Publish(r) \/ Announce(r) \/ Recheck(r) \/ Resumed(r)

Next ==
    \/ \E r \in Runs : \/ Task(r) \/ Look(r) \/ Release(r)
                       \/ Resume(r) \/ Stop(r) \/ StopClear(r)
    \/ EndScan \/ Save \/ First \/ Second \/ Disconnect
    \/ \E m \in Modes, d \in Policies : BeginUpdate(m, d)
    \/ \E c \in Calls : ExecuteTool(c)

Spec == Init /\ [][Next]_vars

-----------------------------------------------------------------------------
(* Properties.                                                               *)

\* await_approval: "Publishing before taking the settings-update lock closes
\* both race orders".  While nobody changes the settings no run waits for an
\* answer that the mode in force gives.  Left out: a scan that was cut short
\* by a lost client, or that came before the run was in the registry.
NobodyWaitsInVain ==
    update = None /\ ~unseen =>
        \A r \in registered :
            pc[r] = "parked" /\ answer[r] = None /\ r \notin aborted /\ ByLevel(autonomy, call[r])
                => call[r] = "web_search" /\ (denied \/ r \notin Searching)

\* A call the mode or a grant releases is one that this mode or this grant
\* covers, and Search is released by Auto only; unless the run has published
\* another call since the released one was read.
ReleasesWhatItJudged ==
    [][\A r \in Runs :
          answer[r] = None /\ answer'[r] = "released" /\ ~update.stale
              => /\ Decide(call[r])
                 /\ call[r] = "web_search" => autonomy = "autonomous"]_vars

\* The policy the gate asks is that of the mode in the settings, which is the
\* one that a restart finds; unless a change was dropped between its steps.
ModesAgree ==
    update = None /\ ~torn => autonomy = AutonomyFor(mode) /\ saved = mode
=============================================================================
