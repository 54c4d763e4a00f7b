------------------------------ MODULE Evidence ------------------------------
(***************************************************************************)
(* What an agent run has to show before it may say that it is done: the    *)
(* file tools (tools.rs, execute), what the host notes of each result      *)
(* (VerificationState, agent_runner.rs) and the review of a claim.         *)
(*                                                                         *)
(* A run r holds the workspace as it is (there, hasSite, links), what the  *)
(* host believes of it (host), and what is true of it: the files whose     *)
(* last change nothing has confirmed (unseen), the folders a command ran   *)
(* in and nothing has looked at since (unlooked), the pages the run        *)
(* changed, and what changed without the host being told (behind).         *)
(*                                                                         *)
(* The workspace is two folders, the root and site below it.  The page     *)
(* may link to the style beside it; notes is in the root.                  *)
(*                                                                         *)
(* A definition named ..._Wrong is the one after it with one mistake; no   *)
(* specification uses it.                                                  *)
(***************************************************************************)
EXTENDS Integers, FiniteSetsExt

Files == {"page", "style", "notes"}
Folders == {"root", "site"}
FolderOf(f) == IF f = "notes" THEN "root" ELSE "site"
Below(folder) == IF folder = "root" THEN Folders ELSE {"site"}
FilesBelow(folder) == {f \in Files : FolderOf(f) \in Below(folder)}
Exists(r, folder) == folder = "root" \/ r.hasSite
IsEmpty(r, folder) == Exists(r, folder) /\ \A f \in FilesBelow(folder) : f \notin r.there

MaxRetries == 2                \* limits.max_retries_per_tool

NoEvidence == [uninspected |-> {}, unobserved |-> {}, pages |-> {}, made |-> FALSE, created |-> {}]

\* VerificationState::for_task; a question never wants a document.
New(there, links, wants, question) ==
    [there |-> there, hasSite |-> there # {}, links |-> links,
     unseen |-> {}, unlooked |-> {}, changed |-> {}, behind |-> {}, running |-> {},
     wants |-> wants /\ ~question, question |-> question, host |-> NoEvidence,
     reason |-> <<"none", {}>>, actions |-> 0, repeated |-> 0, despite |-> 0, reviews |-> 0, end |-> "no"]

-----------------------------------------------------------------------------
(* What the host asks for.                                                   *)

\* page_reference_problems: the browser resolves from the page's own folder.
BrokenPage(r) == "page" \in r.there /\ r.links /\ "style" \notin r.there
EmptyCreated(r) == {d \in r.host.created : IsEmpty(r, d)}
Broken(r) == "page" \in r.host.pages /\ BrokenPage(r)
NoDocument(r) == r.wants /\ ~r.host.made

NeedsEvidence(r) ==
    r.host.uninspected # {} \/ r.host.unobserved # {} \/ NoDocument(r) \/ Broken(r) \/ EmptyCreated(r) # {}

\* VerificationState::remaining names one kind of work at a time.
Remaining(r) ==
    IF EmptyCreated(r) # {} THEN <<"empty", EmptyCreated(r)>>
    ELSE IF Broken(r) THEN <<"links", {"page"}>>
    ELSE IF NoDocument(r) THEN <<"document", {}>>
    ELSE <<"look", r.host.uninspected \union r.host.unobserved>>

-----------------------------------------------------------------------------
(* The tools.  Each is what it does to the workspace (the truth) and what    *)
(* the host notes of its result.  A file tool that fails half way has        *)
(* changed the file and is noted nowhere.                                    *)

\* The file holds something new, and whether its bytes were read back.
Changed(r, f, confirmed) ==
    [r EXCEPT !.there = @ \union {f}, !.hasSite = @ \/ FolderOf(f) = "site",
              !.unseen = IF confirmed THEN @ \ {f} ELSE @ \union {f},
              !.behind = @ \ {f},
              !.changed = @ \union {f}]

Links(r, f, linked) == IF f = "page" THEN [r EXCEPT !.links = linked] ELSE r
\* A page to check, or the file that was asked for, written like any other.
Note(r, f) == [r EXCEPT !.host.pages = IF f = "page" THEN @ \union {f} ELSE @,
                        !.host.made = @ \/ (r.wants /\ f = "notes")]

\* write_file, append_file: read back, so confirmed by the host itself.
Write(r, f, linked) ==
    LET now == Note(Links(Changed(r, f, TRUE), f, linked), f)
    IN [now EXCEPT !.host.uninspected = @ \ {f}]
\* The write is an error after it reached the file (tools.rs, "reads back as").
HalfWrite(r, f) == [Changed(r, f, FALSE) EXCEPT !.behind = @ \union {f}, !.changed = r.changed]

Edit_Wrong(r, f, linked) == Note(Links(Changed(r, f, FALSE), f, linked), f)

Edit(r, f, linked) ==
    LET now == Note(Links(Changed(r, f, FALSE), f, linked), f)
    IN [now EXCEPT !.host.uninspected = @ \union {f}]
\* replace_lines reads back too, and observe has no case for it.
ReplaceLines(r, f, linked) ==
    LET now == Links(Changed(r, f, TRUE), f, linked)
    IN IF f = "page" /\ f \notin now.host.pages THEN [now EXCEPT !.behind = @ \union {"page links"}] ELSE now

Delete(r, f) ==
    [r EXCEPT !.there = @ \ {f}, !.unseen = @ \ {f}, !.behind = @ \ {f}, !.host.uninspected = @ \ {f}]
Read(r, f) == [r EXCEPT !.unseen = @ \ {f}, !.behind = @ \ {f}, !.host.uninspected = @ \ {f}]
List(r, folder) ==
    [r EXCEPT !.unlooked = @ \ {folder}, !.behind = @ \ {folder}, !.host.unobserved = @ \ {folder}]
Document(r) == [r EXCEPT !.host.made = TRUE]

FileCalls(r) ==
    {Write(r, f, linked) : f \in Files, linked \in BOOLEAN}
    \union {HalfWrite(r, f) : f \in Files}
    \union {Edit(r, f, linked) : f \in r.there, linked \in BOOLEAN}
    \union {ReplaceLines(r, f, linked) : f \in r.there, linked \in BOOLEAN}
    \union {Delete(r, f) : f \in r.there}
LookCalls(r) ==
    {Read(r, f) : f \in r.there} \union {List(r, d) : d \in {d \in Folders : Exists(r, d)}}

-----------------------------------------------------------------------------
(* Commands (observe, execute_command).                                      *)

\* A recognised test or build that exits 0 vouches for all below its folder;
\* one that fails clears nothing.
Tests_Wrong(r, cwd, passed) ==
    [r EXCEPT !.host.uninspected = @ \ FilesBelow(cwd), !.host.unobserved = @ \ Below(cwd)]

Tests(r, cwd, passed) ==
    IF ~passed THEN r
    ELSE [r EXCEPT !.unseen = @ \ FilesBelow(cwd), !.unlooked = @ \ Below(cwd),
                   !.behind = @ \ (FilesBelow(cwd) \union Below(cwd)),
                   !.host.uninspected = @ \ FilesBelow(cwd), !.host.unobserved = @ \ Below(cwd)]
\* git status and git diff show the changes anywhere below.
Overview(r, cwd) ==
    [r EXCEPT !.unlooked = @ \ Below(cwd), !.behind = @ \ Below(cwd), !.host.unobserved = @ \ Below(cwd)]

\* What a script may have done in and below its folder.
Effects(r, cwd) ==
    {r}
    \union {[r EXCEPT !.there = @ \ {f}] : f \in r.there \intersect FilesBelow(cwd)}
    \union {[r EXCEPT !.there = @ \union {f}] : f \in {f \in FilesBelow(cwd) : Exists(r, FolderOf(f))}}
    \union (IF cwd = "root" /\ r.hasSite
            THEN {[r EXCEPT !.there = @ \ {"page", "style"}, !.hasSite = FALSE]} ELSE {})

\* Any other command, whatever its exit code.
Scripted(r, cwd) == [r EXCEPT !.unlooked = @ \union {cwd}, !.host.unobserved = @ \union {cwd}]
Script(r, cwd) == {Scripted(now, cwd) : now \in Effects(r, cwd)}
MakeFolder(r) ==
    LET now == Scripted([r EXCEPT !.hasSite = TRUE], "root")
    IN [now EXCEPT !.host.created = @ \union {"site"}]
\* A command in the background goes on after it has been noted.
Background(r, cwd) == [Scripted(r, cwd) EXCEPT !.running = @ \union {cwd}]
Later(r, cwd) ==
    {[now EXCEPT !.unlooked = @ \union {cwd}, !.behind = @ \union {cwd}, !.running = @ \ {cwd}] :
        now \in Effects(r, cwd)}

Commands(r) ==
    (UNION {{Tests(r, d, passed) : passed \in BOOLEAN} \union {Overview(r, d), Background(r, d)} \union Script(r, d) :
               d \in {d \in Folders : Exists(r, d)}})
    \union (IF ~r.hasSite THEN {MakeFolder(r)} ELSE {})

-----------------------------------------------------------------------------
(* The claim (run_loop).                                                     *)

End(r, end) == [r EXCEPT !.end = end]

\* The same finding three times: with nothing done in between the run stops,
\* with changes in between the checker is taken to repeat itself.
SentBack(r, reason) ==
    LET same == reason = r.reason
        now == [r EXCEPT !.reviews = @ + 1, !.reason = reason, !.actions = 0,
                         !.repeated = IF ~same THEN 0 ELSE IF r.actions = 0 THEN @ + 1 ELSE @,
                         !.despite = IF ~same THEN 0 ELSE IF r.actions > 0 THEN @ + 1 ELSE @]
    IN IF now.repeated >= 2 THEN End(now, "failed")
       ELSE IF now.despite >= 2 THEN End(now, "noted")
       ELSE IF now.reviews > MaxRetries + 2 THEN End(now, "failed")
       ELSE now

Unavailable(r) ==
    LET now == [r EXCEPT !.reviews = @ + 1]
    IN IF now.reviews > MaxRetries THEN End(now, "failed") ELSE now

Claim_Wrong(r) ==
    IF r.question THEN {End(r, "done")}
    ELSE IF NeedsEvidence(r) THEN {SentBack(r, Remaining(r))}
    ELSE {End(r, "done"), SentBack(r, <<"finding", {}>>), Unavailable(r)}

Claim(r) ==
    IF r.question /\ ~NeedsEvidence(r) THEN {End(r, "done")}
    ELSE IF NeedsEvidence(r) THEN {SentBack(r, Remaining(r))}
    ELSE {End(r, "done"), SentBack(r, <<"finding", {}>>), Unavailable(r)}

\* A call that succeeded counts for the review; only progress forgives the
\* reviews before it (ProgressGuard, see AgentLoop).
Acted(r, progress) == [r EXCEPT !.actions = 1, !.reviews = IF progress THEN 0 ELSE @]

Act(r) ==
    {Acted(now, progress) : now \in FileCalls(r) \union LookCalls(r) \union Commands(r) \union {Document(r)},
                            progress \in BOOLEAN}
Next(r) == (UNION {Later(r, d) : d \in r.running}) \union Claim(r)

\* An empty workspace, and a site with its page, in part or whole.
Runs ==
    {New({}, FALSE, wants, wants) : wants \in BOOLEAN}
    \union {New({"page"}, FALSE, FALSE, FALSE)}
    \union {New(Files, TRUE, FALSE, FALSE)}

-----------------------------------------------------------------------------
(* A run that ends as done has had every change confirmed and every folder   *)
(* its commands ran in looked at since, and no page it changed links to      *)
(* nothing (observe, needs_evidence).  What is left behind are a file tool   *)
(* that failed after it wrote (observe returns early), a background command  *)
(* that went on, a page only replace_lines has touched, and a run that ends  *)
(* with the note that its check may be mistaken when the check was the       *)
(* host's own.                                                               *)
DisputesHost(r) == r.end = "noted" /\ r.reason[1] # "finding"
ClaimIsBacked(r) ==
    r.end \in {"done", "noted"} /\ ~DisputesHost(r) =>
        /\ r.unseen \union r.unlooked \subseteq r.behind
        /\ "page" \in r.changed /\ BrokenPage(r) => "page links" \in r.behind
        /\ r.wants => r.host.made

(* The evidence asked for can be given: reading what is there and listing    *)
(* the folders leaves nothing to look at, in every state a run can be in     *)
(* (VerificationState: an earlier rule made such runs unfinishable).  Only a *)
(* file or folder a command has removed since is asked for and out of reach. *)
Gone(r) == (Files \ r.there) \union {d \in Folders : ~Exists(r, d)}
Looked(r) ==
    LET listed == FoldSet(LAMBDA d, now : List(now, d), r, {d \in Folders : Exists(r, d)})
    IN FoldSet(LAMBDA f, now : Read(now, f), listed, r.there)
EvidenceCanBeGiven(r) ==
    LET after == Looked(r).host IN after.uninspected \union after.unobserved \subseteq Gone(r)
=============================================================================
