------------------------------- MODULE Sessions -------------------------------
(***************************************************************************)
(* Sessions: conversations with their messages, the summary a compaction   *)
(* leaves in front of them, the project and the task they belong to, their *)
(* attachments (storage.rs and the handlers of api.rs over it).            *)
(*                                                                         *)
(* Every handler runs its statements under the storage lock; those that    *)
(* take it more than once, or do something after it, are Workers: a chat   *)
(* turn, a compaction, an agent run, a fork.  A worker serves one request. *)
(* A behaviour is about the operations of one scene.                      *)
(*                                                                         *)
(* A definition named ..._Wrong is the one after it with one mistake; no   *)
(* specification uses it.                                                  *)
(***************************************************************************)
EXTENDS Naturals, Sequences, FiniteSets, SequencesExt

CONSTANTS
    Convs,        \* ids of conversations; a uuid is used once
    Projects,     \* registered workspaces and their folders
    Names,        \* file names of attachments
    Workers,
    Starts,       \* what may be there at first, the operations to come, the workers
    Keep,         \* memory.compaction_keep_turns, two at least
    MaxMessages,  \* bound on the messages of a conversation
    MaxEdits,     \* bound on edits and attachments
    None

Operations == {"create", "delete", "post", "share", "edit", "patch", "project", "turn", "compact",
               "run", "attach", "fork"}
Modes == {"chat", "code"}
Conversations == [status : {"new", "live", "deleted"}, mode : Modes, workspace : Projects \union {None}]
Outcomes == {"planned", "completed", "interrupted"}
Saved == [run : Workers, project : Projects, status : Outcomes \union {"active"}]
Messages == [id : Nat, ver : Nat]
Summaries == [ids : Seq(Nat), of : Seq(Messages)]

ASSUME SessionsAssumption ==
    /\ Starts \subseteq [operations : SUBSET Operations, workers : Nat, length : Nat,
                         conversations : [Convs -> Conversations],
                         workspaces : [Projects -> {"new", "registered", "removed"}]]
    /\ Keep \in Nat /\ MaxMessages \in Nat /\ MaxEdits \in Nat
ASSUME NothingAssumption == None \notin Projects \union Workers \union Saved \union Summaries \union Nat

VARIABLES
    scene,
    conversations,  \* conversations: status, mode, workspace
    messages,       \* messages, in the order of rowid
    summaries,      \* context_summaries: source_ids, and what the text was made of
    task,           \* session_task_context
    workspaces,     \* workspaces: new, registered, removed; each id is a uuid
    attachments,    \* attachments: rows
    files,          \* data/attachments: the bytes under a name
    worker,
    fresh,          \* the next id
    edits

vars == <<scene, conversations, messages, summaries, task, workspaces, attachments, files,
          worker, fresh, edits>>
rows == <<conversations, messages, summaries, task, workspaces>>
pictures == <<attachments, files>>

Registered == {p \in Projects : workspaces[p] = "registered"}

Idle == [pc |-> "idle", conv |-> None]
Live(c) == conversations[c].status = "live"
Allowed(operation) == operation \in scene.operations /\ UNCHANGED scene
Free(w) == worker[w] = Idle /\ Cardinality({v \in Workers : worker[v] # Idle}) < scene.workers
Is(w, pc) == worker[w].pc = pc /\ UNCHANGED scene

Message(id) == [id |-> id, ver |-> 0]
Ids(s) == [i \in 1..Len(s) |-> s[i].id]

\* add_message, which asks for no conversation.
Added(c) == [messages EXCEPT ![c] = Append(@, Message(fresh))]
Room(c) == Len(messages[c]) < MaxMessages

\* linked_code_workspace: the session's project is still registered.
Linked(c) == conversations[c].workspace \in Registered
Ready(c) == Live(c) /\ (conversations[c].mode = "code" => Linked(c))

\* context_messages_for: the summary stands for its messages while they are
\* the first ones of the history.
Covered(c) ==
    IF summaries[c] # None /\ IsPrefix(summaries[c].ids, Ids(messages[c]))
    THEN Len(summaries[c].ids) ELSE 0

\* A run that works: spawned, and not at its end.
Working(w) == worker[w].pc \in {"placed", "registered"}

-----------------------------------------------------------------------------
Init ==
    /\ \E start \in Starts :
          /\ scene = [operations |-> start.operations, workers |-> start.workers]
          /\ conversations = start.conversations
          /\ messages = [c \in Convs |-> [i \in 1..(IF conversations[c].status = "live" THEN start.length ELSE 0) |-> Message(i)]]
          /\ fresh = 1 + start.length
          /\ summaries = [c \in Convs |-> None]
          /\ task = [c \in Convs |-> None]
          /\ workspaces = start.workspaces
    /\ attachments = {}
    /\ files = [c \in Convs |-> [n \in Names |-> None]]
    /\ worker = [w \in Workers |-> Idle]
    /\ edits = 0

-----------------------------------------------------------------------------
(* Handlers of one lock.                                                     *)

CreateConversation ==
    /\ Allowed("create")
    /\ \E c \in Convs, mode \in Modes, p \in Projects \union {None} :
          /\ conversations[c].status = "new"
          /\ mode = "code" => p \in Registered
          /\ conversations' = [conversations EXCEPT ![c] = [status |-> "live", mode |-> mode, workspace |-> p]]
    /\ UNCHANGED <<messages, summaries, task, workspaces, pictures, worker, fresh, edits>>

\* Storage::delete_conversation leaves the summary row and the files.
Without(cs) ==
    /\ task' = [c \in Convs |-> IF c \in cs THEN None ELSE task[c]]
    /\ messages' = [c \in Convs |-> IF c \in cs THEN <<>> ELSE messages[c]]
    /\ attachments' = {a \in attachments : a.conv \notin cs}
    /\ conversations' = [c \in Convs |-> IF c \in cs THEN [conversations[c] EXCEPT !.status = "deleted"]
                                         ELSE conversations[c]]

DeleteConversation ==
    /\ Allowed("delete")
    /\ \E c \in Convs : Live(c) /\ Without({c})
    /\ UNCHANGED <<summaries, workspaces, files, worker, fresh, edits>>

PostMessage ==
    /\ Allowed("post")
    /\ \E c \in Convs : Live(c) /\ Room(c) /\ messages' = Added(c)
    /\ fresh' = fresh + 1
    /\ UNCHANGED <<conversations, summaries, task, workspaces, pictures, worker, edits>>

\* conversational_reply: the user's words and the answer at once.
ConversationalReply ==
    /\ Allowed("post")
    /\ \E c \in Convs :
          /\ Live(c) /\ Len(messages[c]) + 2 <= MaxMessages
          /\ messages' = [messages EXCEPT ![c] = @ \o <<Message(fresh), Message(fresh + 1)>>]
    /\ fresh' = fresh + 2
    /\ UNCHANGED <<conversations, summaries, task, workspaces, pictures, worker, edits>>

\* share_conversation: a package of c becomes a message of d.
ShareConversation ==
    /\ Allowed("share")
    /\ \E c, d \in Convs : c # d /\ Live(c) /\ Live(d) /\ Room(d) /\ messages' = Added(d)
    /\ fresh' = fresh + 1
    /\ UNCHANGED <<conversations, summaries, task, workspaces, pictures, worker, edits>>

\* update_message_content drops the summary first.
Updated(c, id) == [i \in 1..Len(messages[c]) |->
    IF messages[c][i].id = id THEN [messages[c][i] EXCEPT !.ver = @ + 1] ELSE messages[c][i]]

\* edit_message: the thread restarts at the message, the task is forgotten.
EditMessage ==
    /\ Allowed("edit") /\ edits < MaxEdits
    /\ \E c \in Convs : \E i \in 1..Len(messages[c]) :
          /\ summaries' = [summaries EXCEPT ![c] = None]
          /\ messages' = [messages EXCEPT ![c] = SubSeq(Updated(c, messages[c][i].id), 1, i)]
          /\ task' = [task EXCEPT ![c] = None]
    /\ edits' = edits + 1
    /\ UNCHANGED <<conversations, workspaces, pictures, worker, fresh>>

\* patch_conversation: a session with messages keeps its registered project.
Kept(c) == conversations[c].workspace \in Registered /\ messages[c] # <<>>

PatchConversation ==
    /\ Allowed("patch")
    /\ \E c \in Convs, mode \in Modes, p \in Registered \union {None} :
          /\ Live(c)
          /\ p # conversations[c].workspace => ~Kept(c)
          /\ mode = "code" => p # None
          /\ conversations' = [conversations EXCEPT ![c] = [@ EXCEPT !.mode = mode, !.workspace = p]]
          /\ conversations' # conversations
    /\ UNCHANGED <<messages, summaries, task, workspaces, pictures, worker, fresh, edits>>

CreateWorkspace ==
    /\ Allowed("project")
    /\ \E p \in Projects : workspaces[p] = "new" /\ workspaces' = [workspaces EXCEPT ![p] = "registered"]
    /\ UNCHANGED <<conversations, messages, summaries, task, pictures, worker, fresh, edits>>

\* delete_workspace: refused while a registered run works in one of its chats.
DeleteWorkspace ==
    /\ Allowed("project")
    /\ \E p \in Registered :
          LET chats == {c \in Convs : Live(c) /\ conversations[c].workspace = p} IN
          /\ ~\E w \in Workers : worker[w].pc = "registered" /\ worker[w].conv \in chats
          /\ workspaces' = [workspaces EXCEPT ![p] = "removed"]
          /\ \/ Without(chats)
             \/ UNCHANGED <<conversations, messages, task, attachments>>
    /\ UNCHANGED <<summaries, files, worker, fresh, edits>>

-----------------------------------------------------------------------------
(* A chat turn, from the message to the reply.  What happens between is      *)
(* Generation's; a turn on a task forgets the saved one.                     *)

StartTurn(w) ==
    /\ Allowed("turn") /\ Free(w)
    /\ \E c \in Convs :
          /\ Ready(c) /\ Room(c)
          /\ messages' = Added(c)
          /\ task' \in {task} \union (IF conversations[c].mode = "code" THEN {[task EXCEPT ![c] = None]} ELSE {})
          /\ worker' = [worker EXCEPT ![w] = [pc |-> "replying", conv |-> c]]
    /\ fresh' = fresh + 1
    /\ UNCHANGED <<conversations, summaries, workspaces, pictures, edits>>

\* The reply is stored, wherever the conversation went; or there is none.
Reply(w) ==
    /\ Is(w, "replying")
    /\ \/ /\ Room(worker[w].conv)
          /\ messages' = Added(worker[w].conv) /\ fresh' = fresh + 1
       \/ UNCHANGED <<messages, fresh>>
    /\ worker' = [worker EXCEPT ![w].pc = "done"]
    /\ UNCHANGED <<conversations, summaries, task, workspaces, pictures, edits>>

-----------------------------------------------------------------------------
(* A compaction (compact_conversation_keeping): asked for by the user, by a  *)
(* row action, or by a turn before its reply.                                *)

\* How many messages stay as they are: the setting, or what fits.
Recent == {Keep, Keep + 1}

\* fold_conversation_summary: what there was goes on with what came since.
Folded(c, end) ==
    (IF Covered(c) = 0 THEN <<>> ELSE summaries[c].of) \o SubSeq(messages[c], Covered(c) + 1, end)

StartCompaction(w) ==
    /\ Allowed("compact") /\ Free(w)
    /\ \E c \in Convs, keep \in Recent :
          LET end == IF Len(messages[c]) > keep THEN Len(messages[c]) - keep ELSE 0
          IN /\ Live(c) /\ end > Covered(c)
             /\ worker' = [worker EXCEPT ![w] =
                   [pc |-> "summarizing", conv |-> c, source |-> SubSeq(messages[c], 1, end),
                    of |-> Folded(c, end)]]
    /\ UNCHANGED <<rows, pictures, fresh, edits>>

\* The model answered: the summary is refused if its messages have changed.
Unchanged_Wrong(w) == IsPrefix(Ids(worker[w].source), Ids(messages[worker[w].conv]))

Unchanged(w) == IsPrefix(worker[w].source, messages[worker[w].conv])

FinishCompaction(w) ==
    /\ Is(w, "summarizing")
    /\ LET c == worker[w].conv IN
       \/ /\ Unchanged(w)
          /\ summaries' = [summaries EXCEPT ![c] = [ids |-> Ids(worker[w].source), of |-> worker[w].of]]
       \/ UNCHANGED summaries
    /\ worker' = [worker EXCEPT ![w] = [pc |-> "done", conv |-> worker[w].conv]]
    /\ UNCHANGED <<conversations, messages, task, workspaces, pictures, fresh, edits>>

-----------------------------------------------------------------------------
(* An agent run (run_agent, spawn_agent_run) and its journal.                *)

\* "Go on" reads the saved task first, then the run it names.
ReadTask(w) ==
    /\ Allowed("run") /\ Free(w)
    /\ \E c \in Convs, p \in Projects :
          worker' = [worker EXCEPT ![w] = [pc |-> "resolving", conv |-> c, project |-> p, saved |-> task[c]]]
    /\ UNCHANGED <<rows, pictures, fresh, edits>>

\* resolve_continuation, by the run if the registry has it.
Resumable_Wrong(saved) ==
    LET run == saved.run IN
    CASE worker[run].pc = "registered" -> FALSE
      [] worker[run].pc \in {"over", "recorded"} -> worker[run].outcome # "completed"
      [] OTHER -> saved.status # "completed"

Resumable(saved) ==
    LET run == saved.run IN
    CASE worker[run].pc = "registered" -> FALSE
      [] worker[run].pc \in {"over", "recorded"} -> worker[run].outcome # "completed"
      [] OTHER -> saved.status \in {"planned", "interrupted"}

ResolveContinuation(w) ==
    /\ Is(w, "resolving")
    /\ LET saved == worker[w].saved
           resumed == saved # None /\ saved.project = worker[w].project
       IN IF resumed /\ Resumable(saved)
          THEN worker' = [worker EXCEPT ![w] = [pc |-> "admitted", conv |-> @.conv, project |-> @.project,
                                                resumes |-> saved.run]]
          ELSE worker' = [worker EXCEPT ![w] = [pc |-> "done", conv |-> @.conv]]
    /\ UNCHANGED <<rows, pictures, fresh, edits>>

\* A new task.
Ask(w) ==
    /\ Allowed("run") /\ Free(w)
    /\ \E c \in Convs, p \in Projects :
          worker' = [worker EXCEPT ![w] = [pc |-> "admitted", conv |-> c, project |-> p, resumes |-> None]]
    /\ UNCHANGED <<rows, pictures, fresh, edits>>

\* The session's own project, or nothing happens.
Admit_Wrong(w) ==
    /\ Is(w, "admitted")
    /\ LET c == worker[w].conv IN
       IF Ready(c)
       THEN /\ Room(c)
            /\ messages' = Added(c) /\ fresh' = fresh + 1
            /\ worker' = [worker EXCEPT ![w] = [pc |-> "asked", conv |-> c, project |-> @.project,
                                                 resumes |-> @.resumes, code |-> conversations[c].mode = "code"]]
       ELSE /\ worker' = [worker EXCEPT ![w] = [pc |-> "done", conv |-> c]]
            /\ UNCHANGED <<messages, fresh>>
    /\ UNCHANGED <<conversations, summaries, task, workspaces, pictures, edits>>

Admit(w) ==
    /\ Is(w, "admitted")
    /\ LET c == worker[w].conv IN
       IF Ready(c) /\ (conversations[c].mode = "code" => conversations[c].workspace = worker[w].project)
       THEN /\ Room(c)
            /\ messages' = Added(c) /\ fresh' = fresh + 1
            /\ worker' = [worker EXCEPT ![w] = [pc |-> "asked", conv |-> c, project |-> @.project,
                                                 resumes |-> @.resumes, code |-> conversations[c].mode = "code"]]
       ELSE /\ worker' = [worker EXCEPT ![w] = [pc |-> "done", conv |-> c]]
            /\ UNCHANGED <<messages, fresh>>
    /\ UNCHANGED <<conversations, summaries, task, workspaces, pictures, edits>>

\* The placeholder and the saved task; the model runtime may be busy instead.
Spawn(w) ==
    /\ Is(w, "asked")
    /\ LET c == worker[w].conv IN
       \/ /\ Room(c)
          /\ messages' = Added(c) /\ fresh' = fresh + 1
          /\ task' = [task EXCEPT ![c] = [run |-> w, project |-> worker[w].project, status |-> "active"]]
          /\ worker' = [worker EXCEPT ![w] = [pc |-> "placed", conv |-> c, project |-> @.project,
                                              resumes |-> @.resumes, code |-> @.code, message |-> fresh]]
       \/ /\ worker' = [worker EXCEPT ![w] = [pc |-> "done", conv |-> c]]
          /\ UNCHANGED <<messages, fresh, task>>
    /\ UNCHANGED <<conversations, summaries, workspaces, pictures, edits>>

Register(w) ==
    /\ Is(w, "placed")
    /\ worker' = [worker EXCEPT ![w].pc = "registered"]
    /\ UNCHANGED <<rows, pictures, fresh, edits>>

End(w) ==
    /\ Is(w, "registered")
    /\ \E outcome \in Outcomes :
          worker' = [worker EXCEPT ![w] = [pc |-> "over", conv |-> @.conv, message |-> @.message,
                                           outcome |-> outcome]]
    /\ UNCHANGED <<rows, pictures, fresh, edits>>

\* The journal: the run's message, its summary dropped, and its task.
Journal(w) ==
    /\ Is(w, "over")
    /\ LET c == worker[w].conv IN
          /\ summaries' = [summaries EXCEPT ![c] = None]
          /\ messages' = [messages EXCEPT ![c] = Updated(c, worker[w].message)]
          /\ task' = [task EXCEPT ![c] = IF @ # None /\ @.run = w THEN [@ EXCEPT !.status = worker[w].outcome] ELSE @]
          /\ worker' = [worker EXCEPT ![w] = [pc |-> "recorded", conv |-> c, outcome |-> @.outcome]]
    /\ UNCHANGED <<conversations, workspaces, pictures, fresh, edits>>

-----------------------------------------------------------------------------
(* Attachments: a row, and the bytes under the file's name.                  *)

\* What only the properties read: a row is spoilt once its name is used twice
\* or the source of its fork has changed before the files were copied, be it by
\* the files of a fork of its own.
Spoilt(c, rows0) ==
    LET forks == {worker[w].conv : w \in {v \in Workers :
                     worker[v].pc = "copying" /\ c \in {worker[v].conv, worker[v].source}}}
    IN {IF a.conv \in forks THEN [a EXCEPT !.spoilt = TRUE] ELSE a : a \in rows0}

AddAttachment ==
    /\ Allowed("attach") /\ edits < MaxEdits
    /\ \E c \in Convs, n \in Names :
          LET twice == \E a \in attachments : a.conv = c /\ a.name = n
              marked == {IF a.conv = c /\ a.name = n THEN [a EXCEPT !.spoilt = TRUE] ELSE a : a \in attachments}
          IN /\ Live(c)
             /\ files' = [files EXCEPT ![c][n] = fresh]
             /\ attachments' = Spoilt(c, marked \union {[conv |-> c, name |-> n, bytes |-> fresh, spoilt |-> twice]})
    /\ fresh' = fresh + 1 /\ edits' = edits + 1
    /\ UNCHANGED <<rows, worker>>

DeleteAttachment ==
    /\ Allowed("attach")
    /\ \E a \in attachments :
          /\ attachments' = Spoilt(a.conv, attachments \ {a})
          /\ files' = [files EXCEPT ![a.conv][a.name] = None]
    /\ UNCHANGED <<rows, worker, fresh, edits>>

\* fork_messages: new ids, the same contents.
Copies(c) == [i \in 1..Len(messages[c]) |-> [id |-> fresh + i, ver |-> messages[c][i].ver]]

\* The rows of a fork; spoilt when the files of c are still being copied to it.
Forked(c, d) ==
    LET rows0 == {[a EXCEPT !.conv = d] : a \in {a \in attachments : a.conv = c}}
    IN IF \E v \in Workers : worker[v].pc = "copying" /\ worker[v].conv = c
       THEN {[a EXCEPT !.spoilt = TRUE] : a \in rows0} ELSE rows0

\* fork_conversation: the rows under the lock, the files after it.
Fork(w) ==
    /\ Allowed("fork") /\ Free(w)
    /\ \E c, d \in Convs :
          /\ Live(c) /\ conversations[d].status = "new"
          /\ conversations' = [conversations EXCEPT ![d] = conversations[c]]
          /\ messages' = [messages EXCEPT ![d] = Copies(c)]
          /\ attachments' = attachments \union Forked(c, d)
          /\ worker' = [worker EXCEPT ![w] = [pc |-> "copying", conv |-> d, source |-> c]]
          /\ fresh' = fresh + Len(messages[c]) + 1
    /\ UNCHANGED <<summaries, task, workspaces, files, edits>>

\* What the fork has once the files its source has are copied.
Copied(w) == [n \in Names |-> IF files[worker[w].source][n] # None THEN files[worker[w].source][n]
                              ELSE files[worker[w].conv][n]]

CopyFiles_Wrong(w) ==
    /\ Is(w, "copying")
    /\ files' = [files EXCEPT ![worker[w].conv] = Copied(w), ![worker[w].source] = [n \in Names |-> None]]
    /\ worker' = [worker EXCEPT ![w] = [pc |-> "done", conv |-> worker[w].conv]]
    /\ UNCHANGED <<rows, attachments, fresh, edits>>

CopyFiles(w) ==
    /\ Is(w, "copying")
    /\ files' = [files EXCEPT ![worker[w].conv] = Copied(w)]
    /\ worker' = [worker EXCEPT ![w] = [pc |-> "done", conv |-> worker[w].conv]]
    /\ UNCHANGED <<rows, attachments, fresh, edits>>

-----------------------------------------------------------------------------
Next ==
    \/ CreateConversation \/ DeleteConversation \/ EditMessage
    \/ PostMessage \/ ConversationalReply \/ ShareConversation
    \/ PatchConversation \/ CreateWorkspace \/ DeleteWorkspace
    \/ AddAttachment \/ DeleteAttachment
    \/ \E w \in Workers :
          \/ StartTurn(w) \/ Reply(w)
          \/ StartCompaction(w) \/ FinishCompaction(w)
          \/ ReadTask(w) \/ ResolveContinuation(w) \/ Ask(w) \/ Admit(w) \/ Spawn(w)
          \/ Register(w) \/ End(w) \/ Journal(w)
          \/ Fork(w) \/ CopyFiles(w)

Spec == Init /\ [][Next]_vars

-----------------------------------------------------------------------------
(* Properties.                                                               *)

(* A summary the model is shown was made of the very messages it stands for,  *)
(* as they are now, each once and in order, whatever was edited, appended,    *)
(* finished or summarized while the model wrote it (api.rs:6876).             *)
SummaryIsOfItsPrefix ==
    \A c \in Convs :
        Covered(c) > 0 => summaries[c].of = SubSeq(messages[c], 1, Covered(c))

(* The run that works for a code session works in the session's project       *)
(* (api.rs:5819).  A session that is deleted or loses its project between the *)
(* user's message and the registration of the run escapes (api.rs:7346).      *)
RunWorksInItsProject ==
    \A w \in Workers :
        Working(w) =>
            LET c == worker[w].conv IN
            \/ ~worker[w].code
            \/ conversations[c].workspace = worker[w].project
            \/ ~Live(c)
            \/ worker[w].project \notin Registered

(* A resumed task is one no run works on any more (api.rs:5692).              *)
ContinuesWhatIsOver ==
    \A w \in Workers :
        worker[w].pc \in {"admitted", "asked", "placed", "registered"} /\ worker[w].resumes # None
            => worker[worker[w].resumes].pc \in {"over", "recorded"}

(* An attachment has its bytes unless its name was used twice (api.rs:5159,   *)
(* 5197) or it came with a fork whose source changed, or was itself still     *)
(* being copied to, before the copy (api.rs:8327).                            *)
AttachmentsHaveTheirBytes ==
    \A a \in attachments :
        \/ files[a.conv][a.name] = a.bytes
        \/ a.spoilt
        \/ \E w \in Workers : worker[w].pc = "copying" /\ worker[w].conv = a.conv
=============================================================================
