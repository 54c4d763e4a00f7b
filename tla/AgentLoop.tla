----------------------------- MODULE AgentLoop -----------------------------
(***************************************************************************)
(* What ends an agent run: the loop of run_loop with every counter that    *)
(* judges its progress.  The language model and the tools are the          *)
(* environment: any reply, any result.  There is no step ceiling, so the   *)
(* counters alone must end a run that goes nowhere.                        *)
(*                                                                         *)
(* Stop, approvals and the journal are in AgentRun and Approval; here a    *)
(* step is one model request and what the loop does with its answer.       *)
(*                                                                         *)
(* A definition named ..._Wrong or ..._Frozen is the one after it with one *)
(* mistake; no specification uses it.                                      *)
(***************************************************************************)
EXTENDS Naturals, FiniteSets

CONSTANTS
    Runs,           \* the kinds of run: mode, question, read-only model
    Calls,          \* tool calls: a name with its arguments
    Fallible,       \* bound: the calls whose tool may fail
    Kind,           \* call -> what its tool does
    Path,           \* call -> the file it names, or None
    Text,           \* call -> the text it writes
    Results,        \* outputs of a successful tool
    Findings,       \* what the completion check may find missing
    MaxAttempts,    \* ProgressGuard::new(6)
    MaxIdentical,   \* MAX_IDENTICAL_REPEATS = 5
    MaxFailures,    \* FailedCalls: 3
    MaxOverflow,    \* MAX_OVERFLOW_RECOVERIES = 2
    MaxRetries,     \* AgentLimits.max_retries_per_tool = 3
    WarnSteps, WarnRevisits, StopSteps, StopRevisits, StopWithoutChange,
    WarnRewrites, StopRewrites,   \* LoopWatch: 8, 3, 18, 6, 30, 4, 3
    MaxRewrites,    \* bound: writes of one file in a row
    None

AllRuns == [mode : {"plan", "assist", "agent"}, question : BOOLEAN, readonly : BOOLEAN]
Kinds == {"read", "preview", "write", "append", "delete", "lines", "commit", "command"}

ASSUME AgentLoopAssumption ==
    /\ Runs \subseteq AllRuns
    /\ IsFiniteSet(Calls) /\ Fallible \subseteq Calls
    /\ Kind \in [Calls -> Kinds]
    /\ {MaxAttempts, MaxIdentical, MaxFailures, WarnSteps, WarnRevisits, StopSteps,
        StopRevisits, StopWithoutChange, WarnRewrites, StopRewrites} \subseteq Nat \ {0}
    /\ MaxOverflow \in Nat /\ MaxRetries \in Nat /\ MaxRewrites \in Nat
    /\ WarnSteps < StopSteps /\ WarnRevisits < StopRevisits
    /\ WarnRewrites < MaxRewrites

VARIABLES
    run,        \* mode, question, readonly: fixed when the run starts
    at,         \* where the loop is; "over" once it has returned
    ending,     \* why it returned
    guard,      \* ProgressGuard
    watch,      \* LoopWatch
    failures,   \* FailedCalls
    policy,     \* ActionResponsePolicy: invalid replies and the continuation
    review,     \* the completion check's counters
    once,       \* what happens once per run: pushback, plan draft, evidence
    overflow,   \* overflow_recoveries
    barren,     \* history: model requests since a tool last succeeded
    untouched   \* history: executed calls since the project last really changed,
                \* counted up to StopSteps

counters == <<guard, watch, failures, policy, review, overflow>>
vars == <<run, at, ending, counters, once, barren, untouched>>

-----------------------------------------------------------------------------
Endings == {"none", "server", "budget", "overflow", "model", "invalid", "plan", "answer",
            "confirmed", "doubtful", "unaddressed", "unfinished", "unverified",
            "failing", "repeating", "stuck"}

NoSuccess == [call |-> None, result |-> None]
Successes == [call : Calls, result : Results] \union {NoSuccess}

TypeOK ==
    /\ run \in Runs
    /\ at \in {"top", "request", "over"}
    /\ ending \in Endings
    /\ guard \in [attempts : 0..MaxAttempts, last : Successes, identical : 0..MaxIdentical]
    /\ watch \in [seen : SUBSET Calls, steps : Nat, revisits : Nat, warned : BOOLEAN,
                  file : {Path[c] : c \in Calls} \union {None}, rewrites : 0..MaxRewrites,
                  written : {Text[c] : c \in Calls} \union {None}, same : Nat]
    /\ failures \in [Calls -> 0..MaxFailures]
    /\ policy \in [invalid : 0..3, continued : BOOLEAN, pending : BOOLEAN]
    /\ review \in [done : 0..(MaxRetries + 3), finding : Findings \union {None},
                   repeated : 0..2, despite : 0..2, acted : BOOLEAN]
    /\ once \in [pushed : BOOLEAN, drafted : BOOLEAN, evidence : BOOLEAN]
    /\ overflow \in 0..MaxOverflow
    /\ barren \in Nat /\ untouched \in Nat

Init ==
    /\ run \in Runs
    /\ at = "top" /\ ending = "none"
    /\ guard = [attempts |-> 0, last |-> NoSuccess, identical |-> 0]
    /\ watch = [seen |-> {}, steps |-> 0, revisits |-> 0, warned |-> FALSE, file |-> None,
                rewrites |-> 0, written |-> None, same |-> 0]
    /\ failures = [c \in Calls |-> 0]
    /\ policy = [invalid |-> 0, continued |-> FALSE, pending |-> FALSE]
    /\ review = [done |-> 0, finding |-> None, repeated |-> 0, despite |-> 0, acted |-> FALSE]
    /\ once = [pushed |-> FALSE, drafted |-> FALSE, evidence |-> FALSE]
    /\ overflow = 0
    /\ barren = 0 /\ untouched = 0

ReadOnly == run.readonly \/ run.mode \in {"plan", "assist"}

\* The loop returns, after persist_final and the terminal event.
End(why) == at' = "over" /\ ending' = why
\* ... or goes on to its next step.
Continue == at' = "top" /\ UNCHANGED ending

-----------------------------------------------------------------------------
(* One step up to the model's reply. *)

\* The model server is gone between two steps.
ServerGone ==
    /\ at = "top" /\ End("server")
    /\ UNCHANGED <<run, counters, once, barren, untouched>>

\* begin_attempt: another request, unless the budget is spent.
Attempt ==
    /\ at = "top"
    /\ IF guard.attempts >= MaxAttempts
       THEN End("budget") /\ UNCHANGED <<guard, barren>>
       ELSE /\ at' = "request"
            /\ guard' = [guard EXCEPT !.attempts = @ + 1]
            /\ barren' = barren + 1
            /\ UNCHANGED ending
    /\ UNCHANGED <<run, watch, failures, policy, review, overflow, once, untouched>>

\* The request fails for good: no room for a reply, the retries are spent or
\* the server has ended.
ModelFails ==
    /\ at = "request" /\ End("model")
    /\ UNCHANGED <<run, counters, once, barren, untouched>>

\* Every overflow gives its attempt back.
Overflow_Wrong ==
    /\ at = "request"
    /\ guard' = [guard EXCEPT !.attempts = @ - 1]
    /\ Continue
    /\ UNCHANGED <<run, watch, failures, policy, review, overflow, once, barren, untouched>>

\* The context is exceeded: compact and try again, the attempt refunded.
Overflow ==
    /\ at = "request"
    /\ IF overflow < MaxOverflow
       THEN /\ overflow' = overflow + 1
            /\ guard' = [guard EXCEPT !.attempts = IF @ = 0 THEN 0 ELSE @ - 1]
            /\ Continue
       ELSE End("overflow") /\ UNCHANGED <<overflow, guard>>
    /\ UNCHANGED <<run, watch, failures, policy, review, once, barren, untouched>>

\* The reply cannot be used.  A cut-off one is continued once, any other is
\* asked for again twice.
Unreadable ==
    /\ at = "request"
    /\ \E cut_off \in BOOLEAN :
          IF cut_off /\ ~policy.continued /\ policy.invalid = 0
          THEN /\ policy' = [policy EXCEPT !.continued = TRUE, !.pending = TRUE]
               /\ Continue
          ELSE /\ policy' = [policy EXCEPT !.invalid = @ + 1, !.pending = FALSE]
               /\ IF policy.invalid < 2 THEN Continue ELSE End("invalid")
    /\ UNCHANGED <<run, guard, watch, failures, review, overflow, once, barren, untouched>>

-----------------------------------------------------------------------------
(* A reply without a tool call claims the work is done. *)

Taken == policy' = [policy EXCEPT !.pending = FALSE]

\* Once per run a claim made before anything was read or done is sent back;
\* an inspecting run's (not a plan's) findings are accepted as they are.
PushBack ==
    /\ at = "request"
    /\ ~once.evidence /\ ~once.pushed /\ run.mode # "assist"
    /\ once' = [once EXCEPT !.pushed = TRUE]
    /\ Taken /\ Continue
    /\ UNCHANGED <<run, guard, watch, failures, review, overflow, barren, untouched>>

\* Once per run a plan written as prose is asked for through present_plan.
AskForPlan ==
    /\ at = "request" /\ run.mode = "plan" /\ ~run.question
    /\ once.evidence \/ once.pushed
    /\ ~once.drafted
    /\ once' = [once EXCEPT !.drafted = TRUE]
    /\ Taken /\ Continue
    /\ UNCHANGED <<run, guard, watch, failures, review, overflow, barren, untouched>>

\* A read-only run's findings, or the answer to a question, end the run.
Answer ==
    /\ at = "request"
    /\ \/ run.mode = "assist"
       \/ run.mode = "plan" /\ (once.evidence \/ once.pushed) /\ (once.drafted \/ run.question)
       \/ run.mode = "agent" /\ (once.evidence \/ once.pushed) /\ run.question
    /\ Taken /\ End("answer")
    /\ UNCHANGED <<run, guard, watch, failures, review, overflow, once, barren, untouched>>

\* present_plan with a plan ends a plan run, an empty plan is asked for again.
PresentPlan ==
    /\ at = "request" /\ run.mode = "plan"
    /\ \/ End("plan")
       \/ Continue
    /\ Taken
    /\ UNCHANGED <<run, guard, watch, failures, review, overflow, once, barren, untouched>>

\* The claim reaches the completion check.  A question only when there is
\* still something to verify.
Reviewed ==
    /\ at = "request" /\ run.mode = "agent" /\ (once.evidence \/ once.pushed)

\* The check confirms the work.
Confirmed ==
    /\ Reviewed /\ ~run.question
    /\ Taken /\ End("confirmed")
    /\ UNCHANGED <<run, guard, watch, failures, review, overflow, once, barren, untouched>>

\* It found something missing.  The same finding again, with nothing done in
\* between, counts against the model; with actions in between, against the
\* check.
FoundWork(f) ==
    /\ Reviewed
    /\ LET same == f = review.finding
           next == [done |-> review.done + 1, finding |-> f, acted |-> FALSE,
                    repeated |-> IF ~same THEN 0
                                 ELSE review.repeated + IF review.acted THEN 0 ELSE 1,
                    despite |-> IF ~same THEN 0
                                ELSE review.despite + IF review.acted THEN 1 ELSE 0]
       IN /\ review' = next
          /\ IF next.repeated >= 2 THEN End("unaddressed")
             ELSE IF next.despite >= 2 THEN End("doubtful")
             ELSE IF next.done > MaxRetries + 2 THEN End("unfinished")
             ELSE Continue
    /\ Taken
    /\ UNCHANGED <<run, guard, watch, failures, overflow, once, barren, untouched>>

\* It could not be made.
Unavailable ==
    /\ Reviewed /\ ~run.question
    /\ review' = [review EXCEPT !.done = @ + 1]
    /\ IF review.done + 1 > MaxRetries THEN End("unverified") ELSE Continue
    /\ Taken
    /\ UNCHANGED <<run, guard, watch, failures, overflow, once, barren, untouched>>

-----------------------------------------------------------------------------
(* A reply with a tool call. *)

\* An unknown, unavailable, blocked or denied tool is not executed.
Refused ==
    /\ at = "request"
    /\ Taken /\ Continue
    /\ UNCHANGED <<run, guard, watch, failures, review, overflow, once, barren, untouched>>

\* changed_workspace: what the loop takes for a change of the project.
Changes(c, ok) == ok /\ Kind[c] \in {"write", "append", "delete", "commit", "command"}
\* What does change it: replace_lines too.
ReallyChanges(c, ok) == Changes(c, ok) \/ (ok /\ Kind[c] = "lines")

\* LoopWatch::observe, first part: writes of one file with nothing run
\* against it in between, and how many of them wrote the same text.
Rewriting(w, c, changed) ==
    IF Kind[c] = "preview" \/ (Kind[c] = "command" /\ changed)
    THEN [w EXCEPT !.file = None, !.rewrites = 0, !.written = None, !.same = 0]
    ELSE IF Kind[c] = "write" /\ changed
    THEN [w EXCEPT !.file = Path[c], !.written = Text[c],
                   !.rewrites = IF w.file = Path[c] THEN @ + 1 ELSE 1,
                   !.same = IF w.file = Path[c] /\ w.written = Text[c] THEN @ + 1 ELSE 1]
    ELSE w

\* ... second part: steps since a change, and those that repeat an earlier one.
Inspecting(w, c, changed) ==
    IF changed
    THEN [w EXCEPT !.seen = {c}, !.steps = 0, !.revisits = 0, !.warned = FALSE]
    ELSE [w EXCEPT !.seen = @ \union {c}, !.steps = @ + 1,
                   !.revisits = IF c \in w.seen THEN @ + 1 ELSE @]

Stuck(w) ==
    \/ w.steps >= StopSteps /\ w.revisits >= StopRevisits
    \/ ~ReadOnly /\ w.steps >= StopWithoutChange /\ w.revisits >= 2
Circling(w) == ~w.warned /\ w.steps >= WarnSteps /\ w.revisits >= WarnRevisits

\* The warning is given and not remembered.
Observe_Wrong(w, c, changed) ==
    LET r == Rewriting(w, c, changed)
        i == Inspecting(r, c, changed)
    IN IF r.same >= StopRewrites THEN [watch |-> r, verdict |-> "stuck"]
       ELSE IF r.rewrites = WarnRewrites THEN [watch |-> r, verdict |-> "circling"]
       ELSE IF changed THEN [watch |-> i, verdict |-> "working"]
       ELSE IF Stuck(i) THEN [watch |-> i, verdict |-> "stuck"]
       ELSE IF Circling(i) THEN [watch |-> i, verdict |-> "circling"]
       ELSE [watch |-> i, verdict |-> "working"]

\* From WARN_REWRITES writes of one file on, no step is counted.
Observe_Frozen(w, c, changed) ==
    LET r == Rewriting(w, c, changed)
        i == Inspecting(r, c, changed)
    IN IF r.same >= StopRewrites THEN [watch |-> r, verdict |-> "stuck"]
       ELSE IF r.rewrites >= WarnRewrites THEN [watch |-> r, verdict |-> "circling"]
       ELSE IF changed THEN [watch |-> i, verdict |-> "working"]
       ELSE IF Stuck(i) THEN [watch |-> i, verdict |-> "stuck"]
       ELSE IF Circling(i)
            THEN [watch |-> [i EXCEPT !.warned = TRUE], verdict |-> "circling"]
       ELSE [watch |-> i, verdict |-> "working"]

\* The whole of LoopWatch::observe, in its order of early returns.
Observe(w, c, changed) ==
    LET r == Rewriting(w, c, changed)
        i == Inspecting(r, c, changed)
    IN IF r.same >= StopRewrites THEN [watch |-> r, verdict |-> "stuck"]
       ELSE IF r.rewrites = WarnRewrites THEN [watch |-> r, verdict |-> "circling"]
       ELSE IF changed THEN [watch |-> i, verdict |-> "working"]
       ELSE IF Stuck(i) THEN [watch |-> i, verdict |-> "stuck"]
       ELSE IF Circling(i)
            THEN [watch |-> [i EXCEPT !.warned = TRUE], verdict |-> "circling"]
       ELSE [watch |-> i, verdict |-> "working"]

\* ProgressGuard::observe_tool_result: only a success counts, and identical
\* successes in a row are counted too.
Progress(g, c, ok, result) ==
    IF ~ok THEN g
    ELSE LET s == [call |-> c, result |-> result]
         IN [attempts |-> 0, last |-> s,
             identical |-> IF g.last = s THEN g.identical + 1 ELSE 0]

\* FailedCalls::observe: a successful file change clears every count.
Failed(fs, c, ok) ==
    IF ~ok THEN [fs EXCEPT ![c] = @ + 1]
    ELSE IF Kind[c] \in {"write", "append", "delete"} THEN [d \in Calls |-> 0]
    ELSE [fs EXCEPT ![c] = 0]

\* The tool ran: every counter observes it, and the first one that has seen
\* enough ends the run.
Execute(c, ok, result) ==
    /\ at = "request"
    /\ ok \/ c \in Fallible
    /\ ReadOnly => Kind[c] = "read"
    /\ Kind[c] = "write" /\ watch.file = Path[c] => watch.rewrites < MaxRewrites
    /\ LET seen == Observe(watch, c, Changes(c, ok))
           next == Progress(guard, c, ok, result)
           bad  == Failed(failures, c, ok)
       IN /\ watch' = seen.watch
          /\ guard' = next
          /\ failures' = bad
          /\ IF ~ok /\ bad[c] >= MaxFailures THEN End("failing")
             ELSE IF ok /\ next.identical >= MaxIdentical THEN End("repeating")
             ELSE IF seen.verdict = "stuck" THEN End("stuck")
             ELSE Continue
    /\ policy' = [policy EXCEPT !.pending = FALSE,
                                !.invalid = IF ok THEN 0 ELSE @,
                                !.continued = IF ok THEN FALSE ELSE @]
    /\ review' = [review EXCEPT !.done = IF ok THEN 0 ELSE @,
                                !.acted = @ \/ Changes(c, ok)]
    /\ once' = [once EXCEPT !.evidence = TRUE]
    /\ barren' = IF ok THEN 0 ELSE barren
    /\ untouched' = IF ReallyChanges(c, ok) THEN 0
                    ELSE IF untouched < StopSteps THEN untouched + 1 ELSE untouched
    /\ UNCHANGED <<run, overflow>>

Claim ==
    \/ PushBack \/ AskForPlan \/ Answer \/ Confirmed \/ Unavailable
    \/ \E f \in Findings : FoundWork(f)

Next ==
    \/ ServerGone \/ Attempt \/ ModelFails \/ Overflow \/ Unreadable
    \/ Claim \/ PresentPlan \/ Refused
    \/ \E c \in Calls, ok \in BOOLEAN, result \in Results : Execute(c, ok, result)

Spec == Init /\ [][Next]_vars

\* The loop never waits for anything but its model, tools and user, and each
\* of them answers.
FairSpec == Spec /\ WF_vars(Next)
-----------------------------------------------------------------------------
(* Properties. *)

\* Requests that lead to no successful tool are bounded, whatever mixes:
\* unreadable replies, refusals, rejected claims, failures and overflows
\* share one budget, and refunds are limited too.
FailureBudget == barren <= MaxAttempts + overflow

\* The rule of the 18 steps and 6 repeats never stops a run whose model was
\* not told before that it is going over old ground.
ToldBeforeStopped ==
    /\ ending = "stuck" /\ watch.same < StopRewrites
    /\ watch.steps >= StopSteps /\ watch.revisits >= StopRevisits
    => watch.warned

\* A run that does not end changes the project again and again: without a
\* step ceiling, the counters stop everything else.  The exception is a last
\* file written exactly WARN_REWRITES times: observe then returns before it
\* counts the step, and a run that only reads from there on is never stopped
\* by it, against docs/ARCHITECTURE.md:261.
NoProgressEnds ==
    \/ <>(at = "over") \/ []<>(untouched = 0)
    \/ <>[](watch.rewrites = WarnRewrites)
=============================================================================
