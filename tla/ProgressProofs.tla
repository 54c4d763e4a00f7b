--------------------------- MODULE ProgressProofs ---------------------------
(***************************************************************************)
(* That work in progress comes to its end, as far as it can be said of     *)
(* single steps.  A run of the agent goes on only within its budgets: for  *)
(* any thresholds, calls and results the failure budget counts every       *)
(* request, and a run stopped for going over old ground was told so.  And  *)
(* the handlers behind it never wait for one another: whatever number of   *)
(* them shares the locks, no set of them is stuck.  A run that says it is  *)
(* done has, through Evidence, the evidence for it.                        *)
(***************************************************************************)
EXTENDS AgentLoop, Locks, FiniteSetTheorems, SequenceTheorems, WellFoundedInduction, TLAPS

-----------------------------------------------------------------------------
(* The loop of a run.                                                        *)


\* The counters stand below their limits as long as the loop goes on.
BelowLimits ==
    at # "over" =>
        /\ guard.identical < MaxIdentical
        /\ \A c \in Calls : failures[c] < MaxFailures
        /\ policy.invalid <= 2
        /\ review.done <= MaxRetries + 2
        /\ review.repeated < 2 /\ review.despite < 2

\* A request that came to nothing has left its mark on the attempts or was
\* refunded for an overflow.
Charged == barren <= guard.attempts + overflow

\* While the loop goes on, the warning is out as soon as it is due.
WarnedInTime ==
    at # "over" =>
        (watch.steps >= WarnSteps /\ watch.revisits >= WarnRevisits => watch.warned)

\* Only a verdict of "stuck" ends a run as stuck.
EndedOnce == at # "over" => ending = "none"

IInv == TypeOK /\ BelowLimits /\ Charged /\ WarnedInTime /\ EndedOnce /\ ToldBeforeStopped

Files == {Path[c] : c \in Calls} \union {None}
Texts == {Text[c] : c \in Calls} \union {None}
Watches == [seen : SUBSET Calls, steps : Nat, revisits : Nat, warned : BOOLEAN,
            file : Files, rewrites : 0..MaxRewrites, written : Texts, same : Nat]

LEMMA Names ==
    /\ None \in Files /\ None \in Texts
    /\ \A c \in Calls : Path[c] \in Files /\ Text[c] \in Texts
BY DEF Files, Texts

LEMMA Thresholds ==
    /\ WarnSteps \in Nat \ {0} /\ WarnRevisits \in Nat \ {0}
    /\ StopSteps \in Nat \ {0} /\ StopRevisits \in Nat \ {0} /\ StopRewrites \in Nat \ {0}
    /\ WarnRewrites \in Nat \ {0} /\ MaxRewrites \in Nat /\ WarnRewrites < MaxRewrites
    /\ WarnSteps < StopSteps /\ WarnRevisits < StopRevisits
    /\ MaxAttempts \in Nat \ {0} /\ MaxIdentical \in Nat \ {0} /\ MaxFailures \in Nat \ {0}
    /\ MaxOverflow \in Nat /\ MaxRetries \in Nat
BY AgentLoopAssumption

\* The two halves of LoopWatch::observe keep its shape.
LEMMA RewritingType ==
    ASSUME NEW w \in Watches, NEW c \in Calls, NEW changed \in BOOLEAN,
           Kind[c] = "write" /\ w.file = Path[c] => w.rewrites < MaxRewrites
    PROVE  /\ Rewriting(w, c, changed) \in Watches
           /\ Rewriting(w, c, changed).steps = w.steps
           /\ Rewriting(w, c, changed).revisits = w.revisits
           /\ Rewriting(w, c, changed).warned = w.warned
<1> DEFINE Set(f, n, t, m) == [w EXCEPT !.file = f, !.rewrites = n, !.written = t, !.same = m]
<1>1. ASSUME NEW f \in Files, NEW n \in 0..MaxRewrites, NEW t \in Texts, NEW m \in Nat
      PROVE  /\ Set(f, n, t, m) \in Watches
             /\ Set(f, n, t, m).steps = w.steps
             /\ Set(f, n, t, m).revisits = w.revisits
             /\ Set(f, n, t, m).warned = w.warned
  BY <1>1 DEF Watches
<1>2. CASE Kind[c] = "preview" \/ (Kind[c] = "command" /\ changed)
  <2>1. Rewriting(w, c, changed) = Set(None, 0, None, 0)
    BY <1>2 DEF Rewriting
  <2>2. 0 \in 0..MaxRewrites
    BY Thresholds
  <2> HIDE DEF Set
  <2> QED  BY <1>1, <2>1, <2>2, Names
<1>3. CASE ~(Kind[c] = "preview" \/ (Kind[c] = "command" /\ changed))
           /\ Kind[c] = "write" /\ changed
  <2> DEFINE n == IF w.file = Path[c] THEN w.rewrites + 1 ELSE 1
             m == IF w.file = Path[c] /\ w.written = Text[c] THEN w.same + 1 ELSE 1
  <2>1. Rewriting(w, c, changed) = Set(Path[c], n, Text[c], m)
    BY <1>3 DEF Rewriting, Watches
  <2>2. n \in 0..MaxRewrites /\ m \in Nat
    BY <1>3, Thresholds DEF Watches
  <2> HIDE DEF n, m, Set
  <2> QED  BY <1>1, <2>1, <2>2, Names
<1>4. CASE ~(Kind[c] = "preview" \/ (Kind[c] = "command" /\ changed))
           /\ ~(Kind[c] = "write" /\ changed)
  BY <1>4 DEF Rewriting
<1> QED  BY <1>2, <1>3, <1>4

LEMMA InspectingType ==
    ASSUME NEW w \in Watches, NEW c \in Calls, NEW changed \in BOOLEAN
    PROVE  /\ Inspecting(w, c, changed) \in Watches
           /\ Inspecting(w, c, changed).same = w.same
           /\ changed => /\ Inspecting(w, c, changed).steps = 0
                         /\ Inspecting(w, c, changed).revisits = 0
           /\ ~changed => /\ Inspecting(w, c, changed).steps = w.steps + 1
                          /\ Inspecting(w, c, changed).revisits \in {w.revisits, w.revisits + 1}
                          /\ Inspecting(w, c, changed).warned = w.warned
<1> DEFINE Set(a, n, m, b) == [w EXCEPT !.seen = a, !.steps = n, !.revisits = m, !.warned = b]
<1>1. ASSUME NEW a \in SUBSET Calls, NEW n \in Nat, NEW m \in Nat, NEW b \in BOOLEAN
      PROVE  /\ Set(a, n, m, b) \in Watches /\ Set(a, n, m, b).same = w.same
             /\ Set(a, n, m, b).steps = n /\ Set(a, n, m, b).revisits = m
             /\ Set(a, n, m, b).warned = b
  BY <1>1 DEF Watches
<1>2. CASE changed
  <2> DEFINE n == [w EXCEPT !.seen = {c}, !.steps = 0, !.revisits = 0, !.warned = FALSE]
  <2>1. Inspecting(w, c, changed) = n
    BY <1>2 DEF Inspecting
  <2>2. {c} \in SUBSET Calls
    OBVIOUS
  <2>3. n \in Watches /\ n.same = w.same /\ n.steps = 0 /\ n.revisits = 0
    BY <2>2 DEF Watches
  <2> HIDE DEF n
  <2> QED  BY <1>2, <2>1, <2>3
<1>3. CASE ~changed
  <2> DEFINE n == IF c \in w.seen THEN w.revisits + 1 ELSE w.revisits
             all == w.seen \union {c}
  <2>1. Inspecting(w, c, changed) = [w EXCEPT !.seen = all, !.steps = w.steps + 1, !.revisits = n]
    BY <1>3 DEF Inspecting
  <2>2. /\ n \in {w.revisits, w.revisits + 1} /\ n \in Nat /\ all \in SUBSET Calls
        /\ w.steps + 1 \in Nat /\ w.warned \in BOOLEAN
    BY DEF Watches
  <2>3. Inspecting(w, c, changed) = Set(all, w.steps + 1, n, w.warned)
    BY <2>1 DEF Watches
  <2> HIDE DEF n, all, Set
  <2> QED  BY <1>1, <1>3, <2>2, <2>3
<1> QED  BY <1>2, <1>3

\* LoopWatch::observe: a watch that warned in time warns in time, and a verdict
\* of "stuck" past both stop thresholds follows a warning.
LEMMA ObserveWarns ==
    ASSUME NEW w \in Watches, NEW c \in Calls, NEW changed \in BOOLEAN,
           Kind[c] = "write" /\ w.file = Path[c] => w.rewrites < MaxRewrites,
           w.steps >= WarnSteps /\ w.revisits >= WarnRevisits => w.warned
    PROVE  LET seen == Observe(w, c, changed)
               n    == seen.watch
           IN /\ n \in Watches
              /\ seen.verdict \in {"stuck", "circling", "working"}
              /\ seen.verdict # "stuck" =>
                    (n.steps >= WarnSteps /\ n.revisits >= WarnRevisits => n.warned)
              /\ seen.verdict = "stuck" /\ n.same < StopRewrites
                    /\ n.steps >= StopSteps /\ n.revisits >= StopRevisits => n.warned
<1> DEFINE r == Rewriting(w, c, changed)
           i == Inspecting(r, c, changed)
<1>1. /\ r \in Watches
      /\ r.steps = w.steps /\ r.revisits = w.revisits /\ r.warned = w.warned
  BY RewritingType
<1>2. /\ i \in Watches /\ i.same = r.same
      /\ changed => i.steps = 0 /\ i.revisits = 0
      /\ ~changed => /\ i.steps = r.steps + 1
                     /\ i.revisits \in {r.revisits, r.revisits + 1}
                     /\ i.warned = r.warned
  BY <1>1, InspectingType
<1>3. [i EXCEPT !.warned = TRUE] \in Watches
  BY <1>2 DEF Watches
<1>4. /\ w.steps \in Nat /\ w.revisits \in Nat /\ r.same \in Nat
      /\ WarnSteps \in Nat \ {0} /\ WarnRevisits \in Nat \ {0}
      /\ StopSteps \in Nat /\ StopRevisits \in Nat /\ StopRewrites \in Nat
      /\ WarnSteps < StopSteps /\ WarnRevisits < StopRevisits
  BY <1>1, Thresholds DEF Watches
<1> HIDE DEF r, i
<1>5. CASE r.same >= StopRewrites
  BY <1>1, <1>4, <1>5 DEF Observe, r
<1>6. CASE r.same < StopRewrites /\ r.rewrites = WarnRewrites
  BY <1>1, <1>4, <1>6 DEF Observe, r
<1>7. CASE r.same < StopRewrites /\ r.rewrites # WarnRewrites /\ changed
  <2> ~(r.same >= StopRewrites)
    BY <1>4, <1>7
  <2>1. Observe(w, c, changed) = [watch |-> i, verdict |-> "working"]
    BY <1>7, Zenon DEF Observe, r, i
  <2> QED  BY <2>1, <1>2, <1>4, <1>7
<1>8. CASE r.same < StopRewrites /\ r.rewrites # WarnRewrites /\ ~changed /\ Stuck(i)
  <2>1. Observe(w, c, changed) = [watch |-> i, verdict |-> "stuck"]
    BY <1>4, <1>8 DEF Observe, r, i
  <2> QED  BY <2>1, <1>1, <1>2, <1>4, <1>8
<1>9. CASE r.same < StopRewrites /\ r.rewrites # WarnRewrites /\ ~changed /\ ~Stuck(i)
           /\ Circling(i)
  <2>1. Observe(w, c, changed) = [watch |-> [i EXCEPT !.warned = TRUE], verdict |-> "circling"]
    BY <1>4, <1>9 DEF Observe, r, i
  <2>2. [i EXCEPT !.warned = TRUE].warned = TRUE
    BY <1>2 DEF Watches
  <2> DEFINE n == [i EXCEPT !.warned = TRUE]
  <2> HIDE DEF n
  <2>3. Observe(w, c, changed).watch = n /\ Observe(w, c, changed).verdict = "circling"
    BY <2>1 DEF n
  <2>4. n \in Watches /\ n.warned = TRUE
    BY <1>3, <2>2 DEF n
  <2> QED  BY <2>3, <2>4
<1>10. CASE r.same < StopRewrites /\ r.rewrites # WarnRewrites /\ ~changed /\ ~Stuck(i)
            /\ ~Circling(i)
  <2>1. Observe(w, c, changed) = [watch |-> i, verdict |-> "working"]
    BY <1>4, <1>10 DEF Observe, r, i
  <2>2. i.steps >= WarnSteps /\ i.revisits >= WarnRevisits => i.warned
    BY <1>10 DEF Circling
  <2> QED  BY <2>1, <2>2, <1>2
<1> QED  BY <1>4, <1>5, <1>6, <1>7, <1>8, <1>9, <1>10

LEMMA InitIInv == Init => IInv
BY Thresholds
   DEF Init, IInv, TypeOK, BelowLimits, Charged, WarnedInTime, EndedOnce,
       ToldBeforeStopped, Endings, Successes, NoSuccess

-----------------------------------------------------------------------------
(* Every step keeps it. *)

\* An executed tool: every counter observes it, and the loop goes on only below
\* every limit.
LEMMA ExecuteIInv ==
    ASSUME IInv, NEW c \in Calls, NEW ok \in BOOLEAN, NEW result \in Results,
           Execute(c, ok, result)
    PROVE  IInv'
<1> DEFINE changed == Changes(c, ok)
           seen == Observe(watch, c, changed)
           next == Progress(guard, c, ok, result)
           bad  == Failed(failures, c, ok)
<1>1. /\ at = "request"
      /\ Kind[c] = "write" /\ watch.file = Path[c] => watch.rewrites < MaxRewrites
      /\ watch' = seen.watch /\ guard' = next /\ failures' = bad
      /\ \/ ~ok /\ bad[c] >= MaxFailures /\ End("failing")
         \/ /\ ~(~ok /\ bad[c] >= MaxFailures)
            /\ ok /\ next.identical >= MaxIdentical /\ End("repeating")
         \/ /\ ~(~ok /\ bad[c] >= MaxFailures)
            /\ ~(ok /\ next.identical >= MaxIdentical)
            /\ seen.verdict = "stuck" /\ End("stuck")
         \/ /\ ~(~ok /\ bad[c] >= MaxFailures)
            /\ ~(ok /\ next.identical >= MaxIdentical)
            /\ seen.verdict # "stuck" /\ Continue
      /\ policy' = [policy EXCEPT !.pending = FALSE,
                                  !.invalid = IF ok THEN 0 ELSE @,
                                  !.continued = IF ok THEN FALSE ELSE @]
      /\ review' = [review EXCEPT !.done = IF ok THEN 0 ELSE @,
                                  !.acted = @ \/ Changes(c, ok)]
      /\ once' = [once EXCEPT !.evidence = TRUE]
      /\ barren' = IF ok THEN 0 ELSE barren
      /\ untouched' = IF ReallyChanges(c, ok) THEN 0
                      ELSE IF untouched < StopSteps THEN untouched + 1 ELSE untouched
      /\ run' = run /\ overflow' = overflow
  BY DEF Execute
<1>2. changed \in BOOLEAN
  BY DEF Changes
<1>3. watch \in Watches
  BY DEF IInv, TypeOK, Watches, Files, Texts
<1>4. watch.steps >= WarnSteps /\ watch.revisits >= WarnRevisits => watch.warned
  BY <1>1 DEF IInv, WarnedInTime
<1> HIDE DEF changed
<1>5. /\ seen.watch \in Watches
      /\ seen.verdict # "stuck" =>
            (seen.watch.steps >= WarnSteps /\ seen.watch.revisits >= WarnRevisits
                => seen.watch.warned)
      /\ seen.verdict = "stuck" /\ seen.watch.same < StopRewrites
            /\ seen.watch.steps >= StopSteps /\ seen.watch.revisits >= StopRevisits
            => seen.watch.warned
  BY <1>1, <1>2, <1>3, <1>4, ObserveWarns
<1>6. /\ next \in [attempts : 0..MaxAttempts, last : Successes, identical : 0..MaxIdentical]
      /\ ok => next.attempts = 0
      /\ ~ok => next = guard
  <2>1. /\ guard \in [attempts : 0..MaxAttempts, last : Successes, identical : 0..MaxIdentical]
        /\ guard.identical < MaxIdentical
    BY <1>1 DEF IInv, TypeOK, BelowLimits
  <2>2. CASE ok
    <3>1. [call |-> c, result |-> result] \in Successes
      BY DEF Successes
    <3> QED  BY <2>1, <2>2, <3>1, Thresholds DEF Progress
  <2>3. CASE ~ok
    BY <2>1, <2>3 DEF Progress
  <2> QED  BY <2>2, <2>3
<1>7. /\ bad \in [Calls -> 0..MaxFailures]
      /\ \A d \in Calls : bad[d] < MaxFailures \/ (d = c /\ ~ok)
  <2>1. /\ failures \in [Calls -> 0..MaxFailures]
        /\ \A d \in Calls : failures[d] < MaxFailures
    BY <1>1 DEF IInv, TypeOK, BelowLimits
  <2>2. MaxFailures \in Nat \ {0}
    BY Thresholds
  <2>3. CASE ~ok
    <3>1. bad = [failures EXCEPT ![c] = failures[c] + 1]
      BY <2>3 DEF Failed
    <3>2. \A d \in Calls : bad[d] = IF d = c THEN failures[c] + 1 ELSE failures[d]
      BY <2>1, <3>1
    <3>3. \A d \in Calls : failures[d] + 1 \in 0..MaxFailures
      BY <2>1, <2>2
    <3>4. DOMAIN bad = Calls /\ bad = [d \in DOMAIN bad |-> bad[d]]
      BY <2>1, <3>1
    <3> QED  BY <2>1, <2>3, <3>2, <3>3, <3>4
  <2>4. CASE ok /\ Kind[c] \in {"write", "append", "delete"}
    <3>1. bad = [d \in Calls |-> 0]
      BY <2>4 DEF Failed
    <3> QED  BY <2>2, <3>1
  <2>5. CASE ok /\ Kind[c] \notin {"write", "append", "delete"}
    <3>1. bad = [failures EXCEPT ![c] = 0]
      BY <2>5 DEF Failed
    <3> QED  BY <2>1, <2>2, <3>1
  <2> QED  BY <2>3, <2>4, <2>5
<1> HIDE DEF seen, next, bad
<1>8. TypeOK'
  <2>1. watch' \in Watches /\ guard' \in [attempts : 0..MaxAttempts, last : Successes,
                                          identical : 0..MaxIdentical]
        /\ failures' \in [Calls -> 0..MaxFailures]
    BY <1>1, <1>5, <1>6, <1>7
  <2>2. policy' \in [invalid : 0..3, continued : BOOLEAN, pending : BOOLEAN]
    <3> DEFINE n == IF ok THEN 0 ELSE policy.invalid
               b == IF ok THEN FALSE ELSE policy.continued
    <3>1. policy \in [invalid : 0..3, continued : BOOLEAN, pending : BOOLEAN]
      BY DEF IInv, TypeOK
    <3>2. n \in 0..3
      BY <3>1
    <3>3. b \in BOOLEAN
      <4>1. policy.continued \in BOOLEAN
        BY <3>1
      <4> QED  BY <4>1, Zenon
    <3>4. policy' = [policy EXCEPT !.pending = FALSE, !.invalid = n, !.continued = b]
      BY <1>1, <3>1
    <3> HIDE DEF n, b
    <3> QED  BY <3>1, <3>2, <3>3, <3>4
  <2>3. review' \in [done : 0..(MaxRetries + 3), finding : Findings \union {None},
                     repeated : 0..2, despite : 0..2, acted : BOOLEAN]
    <3> DEFINE n == IF ok THEN 0 ELSE review.done
               b == review.acted \/ Changes(c, ok)
    <3>1. review \in [done : 0..(MaxRetries + 3), finding : Findings \union {None},
                      repeated : 0..2, despite : 0..2, acted : BOOLEAN]
      BY DEF IInv, TypeOK
    <3>2. n \in 0..(MaxRetries + 3)
      BY <3>1, Thresholds
    <3>3. b \in BOOLEAN
      BY Zenon
    <3>4. review' = [review EXCEPT !.done = n, !.acted = b]
      BY <1>1, <3>1
    <3> HIDE DEF n, b
    <3> QED  BY <3>1, <3>2, <3>3, <3>4
  <2>4. once' \in [pushed : BOOLEAN, drafted : BOOLEAN, evidence : BOOLEAN]
    BY <1>1 DEF IInv, TypeOK
  <2>5. at' \in {"top", "request", "over"} /\ ending' \in Endings
    BY <1>1 DEF IInv, TypeOK, End, Continue, Endings
  <2>6. barren' \in Nat /\ untouched' \in Nat /\ run' \in Runs /\ overflow' \in 0..MaxOverflow
    BY <1>1 DEF IInv, TypeOK
  <2> QED  BY <2>1, <2>2, <2>3, <2>4, <2>5, <2>6 DEF TypeOK, Watches, Files, Texts
<1>9. BelowLimits'
  <2>1. CASE at' = "over"
    BY <2>1 DEF BelowLimits
  <2>2. CASE at' # "over"
    <3>1. Continue /\ ~(~ok /\ bad[c] >= MaxFailures) /\ ~(ok /\ next.identical >= MaxIdentical)
      BY <1>1, <2>2 DEF End
    <3>2. guard'.identical < MaxIdentical
      BY <1>1, <1>6, <3>1, Thresholds DEF IInv, BelowLimits, TypeOK
    <3>3. \A d \in Calls : failures'[d] < MaxFailures
      BY <1>1, <1>7, <3>1, Thresholds
    <3>4. policy'.invalid <= 2
      BY <1>1 DEF IInv, BelowLimits, TypeOK
    <3>5. review'.done <= MaxRetries + 2 /\ review'.repeated < 2 /\ review'.despite < 2
      BY <1>1, Thresholds DEF IInv, BelowLimits, TypeOK
    <3> QED  BY <3>2, <3>3, <3>4, <3>5 DEF BelowLimits
  <2> QED  BY <2>1, <2>2
<1>10. Charged'
  BY <1>1, <1>6, Thresholds DEF IInv, TypeOK, Charged
<1>11. WarnedInTime'
  BY <1>1, <1>5 DEF WarnedInTime, End
<1>12. EndedOnce'
  BY <1>1 DEF IInv, EndedOnce, End, Continue
<1>13. ToldBeforeStopped'
  BY <1>1, <1>5 DEF IInv, EndedOnce, ToldBeforeStopped, End, Continue
<1> QED  BY <1>8, <1>9, <1>10, <1>11, <1>12, <1>13 DEF IInv

\* The request and its refund: a barren request is charged to the attempts, and
\* giving an attempt back moves the charge to overflow.
LEMMA RequestIInv ==
    ASSUME IInv, Attempt \/ Overflow
    PROVE  IInv'
<1>1. CASE Attempt
  BY <1>1, Thresholds
     DEF IInv, TypeOK, BelowLimits, Charged, WarnedInTime, EndedOnce, ToldBeforeStopped,
         Attempt, End, Endings
<1>2. CASE Overflow /\ overflow < MaxOverflow
  <2> DEFINE n == IF guard.attempts = 0 THEN 0 ELSE guard.attempts - 1
  <2>1. /\ guard' = [guard EXCEPT !.attempts = n] /\ overflow' = overflow + 1 /\ Continue
        /\ UNCHANGED <<run, watch, failures, policy, review, once, barren, untouched>>
        /\ at # "over"
    BY <1>2 DEF Overflow
  <2>2. /\ guard \in [attempts : 0..MaxAttempts, last : Successes, identical : 0..MaxIdentical]
        /\ overflow \in 0..MaxOverflow /\ barren \in Nat
    BY DEF IInv, TypeOK
  <2>3. n \in 0..MaxAttempts /\ guard.attempts <= n + 1
    BY <2>2, Thresholds
  <2> HIDE DEF n
  <2>4. /\ guard' \in [attempts : 0..MaxAttempts, last : Successes, identical : 0..MaxIdentical]
        /\ guard'.attempts = n /\ guard'.identical = guard.identical
        /\ overflow' \in 0..MaxOverflow
    BY <1>2, <2>1, <2>2, <2>3, Thresholds
  <2>5. TypeOK'
    BY <2>1, <2>4 DEF IInv, TypeOK, Continue
  <2>6. Charged'
    BY <2>1, <2>2, <2>3, <2>4 DEF IInv, Charged
  <2>7. BelowLimits'
    <3>1. /\ guard'.identical < MaxIdentical
          /\ \A d \in Calls : failures'[d] < MaxFailures
          /\ policy'.invalid <= 2 /\ review'.done <= MaxRetries + 2
          /\ review'.repeated < 2 /\ review'.despite < 2
      BY <2>1, <2>4 DEF IInv, BelowLimits
    <3> QED  BY <3>1 DEF BelowLimits
  <2>8. WarnedInTime'
    BY <2>1 DEF IInv, WarnedInTime
  <2>9. EndedOnce' /\ ToldBeforeStopped'
    BY <2>1 DEF IInv, EndedOnce, ToldBeforeStopped, Continue
  <2> QED  BY <2>5, <2>6, <2>7, <2>8, <2>9 DEF IInv
<1>3. CASE Overflow /\ ~(overflow < MaxOverflow)
  BY <1>3
     DEF IInv, TypeOK, BelowLimits, Charged, WarnedInTime, EndedOnce, ToldBeforeStopped,
         Overflow, End, Endings
<1> QED  BY <1>1, <1>2, <1>3

\* A reply that cannot be used, or none, or one that executes nothing.
LEMMA ReplyIInv ==
    ASSUME IInv, ServerGone \/ ModelFails \/ Unreadable \/ PresentPlan \/ Refused
    PROVE  IInv'
<1>1. CASE ServerGone \/ ModelFails
  BY <1>1
     DEF IInv, TypeOK, BelowLimits, Charged, WarnedInTime, EndedOnce, ToldBeforeStopped,
         ServerGone, ModelFails, End, Endings, counters
<1>2. CASE Unreadable
  <2> DEFINE more == [policy EXCEPT !.continued = TRUE, !.pending = TRUE]
             bad  == [policy EXCEPT !.invalid = policy.invalid + 1, !.pending = FALSE]
             Policies == [invalid : 0..3, continued : BOOLEAN, pending : BOOLEAN]
  <2>1. /\ at = "request"
        /\ \/ policy' = more /\ Continue
           \/ policy' = bad /\ policy.invalid < 2 /\ Continue
           \/ policy' = bad /\ End("invalid")
        /\ UNCHANGED <<run, guard, watch, failures, review, overflow, once, barren, untouched>>
    BY <1>2 DEF Unreadable
  <2>2. policy \in Policies /\ policy.invalid <= 2
    BY <2>1 DEF IInv, TypeOK, BelowLimits
  <2>3. /\ more \in Policies /\ more.invalid = policy.invalid
        /\ bad \in Policies /\ bad.invalid = policy.invalid + 1
        /\ policy.invalid < 2 => policy.invalid + 1 <= 2
    <3>1. policy.invalid + 1 \in 0..3 /\ (policy.invalid < 2 => policy.invalid + 1 <= 2)
      BY <2>2
    <3>2. more \in Policies /\ more.invalid = policy.invalid
      BY <2>2
    <3> DEFINE n == policy.invalid + 1
    <3>3. n \in 0..3 /\ bad = [policy EXCEPT !.invalid = n, !.pending = FALSE]
      BY <3>1
    <3> HIDE DEF n
    <3>4. bad \in Policies /\ bad.invalid = n
      BY <2>2, <3>3
    <3> QED  BY <3>1, <3>2, <3>4 DEF n
  <2> HIDE DEF more, bad
  <2>4. TypeOK'
    BY <2>1, <2>3 DEF IInv, TypeOK, End, Continue, Endings
  <2>5. BelowLimits'
    BY <2>1, <2>2, <2>3 DEF IInv, BelowLimits, End
  <2>6. Charged' /\ WarnedInTime'
    BY <2>1 DEF IInv, Charged, WarnedInTime, End
  <2>7. EndedOnce' /\ ToldBeforeStopped'
    BY <2>1 DEF IInv, EndedOnce, ToldBeforeStopped, End, Continue
  <2> QED  BY <2>4, <2>5, <2>6, <2>7 DEF IInv
<1>3. CASE PresentPlan \/ Refused
  BY <1>3
     DEF IInv, TypeOK, BelowLimits, Charged, WarnedInTime, EndedOnce, ToldBeforeStopped,
         PresentPlan, Refused, Taken, End, Continue, Endings
<1> QED  BY <1>1, <1>2, <1>3

Reviews == [done : 0..(MaxRetries + 3), finding : Findings \union {None},
            repeated : 0..2, despite : 0..2, acted : BOOLEAN]

\* A verdict of the completion check touches no counter but its own, and lets the
\* loop go on only below its limits.
LEMMA VerdictIInv ==
    ASSUME IInv, at = "request", NEW r \in Reviews, review' = r, Taken,
           NEW why \in Endings \ {"stuck"},
           \/ End(why)
           \/ /\ Continue
              /\ r.done <= MaxRetries + 2 /\ r.repeated < 2 /\ r.despite < 2,
           UNCHANGED <<run, guard, watch, failures, overflow, once, barren, untouched>>
    PROVE  IInv'
<1>1. /\ policy' \in [invalid : 0..3, continued : BOOLEAN, pending : BOOLEAN]
      /\ policy'.invalid = policy.invalid
  BY DEF IInv, TypeOK, Taken
<1>2. at' \in {"top", "request", "over"} /\ ending' \in Endings
  BY DEF IInv, TypeOK, End, Continue
<1>3. TypeOK'
  BY <1>1, <1>2 DEF IInv, TypeOK, Reviews
<1>4. BelowLimits'
  BY <1>1 DEF IInv, BelowLimits, End, Continue
<1>5. Charged'
  BY DEF IInv, Charged
<1>6. WarnedInTime'
  BY DEF IInv, WarnedInTime, End
<1>7. EndedOnce' /\ ToldBeforeStopped'
  BY DEF IInv, EndedOnce, ToldBeforeStopped, End, Continue
<1> QED  BY <1>3, <1>4, <1>5, <1>6, <1>7 DEF IInv

\* A claim that the work is done, and the completion check's verdict.
LEMMA ClaimIInv ==
    ASSUME IInv, Claim
    PROVE  IInv'
<1>1. CASE PushBack \/ AskForPlan
  BY <1>1, ZenonT(60)
     DEF IInv, TypeOK, BelowLimits, Charged, WarnedInTime, EndedOnce, ToldBeforeStopped,
         PushBack, AskForPlan, Taken, Continue
<1>2. CASE Answer \/ Confirmed
  BY <1>2, ZenonT(60)
     DEF IInv, TypeOK, BelowLimits, Charged, WarnedInTime, EndedOnce, ToldBeforeStopped,
         Answer, Confirmed, Taken, End, Endings, Reviewed
<1>3. CASE Unavailable
  <2> DEFINE r == [review EXCEPT !.done = review.done + 1]
  <2>1. review \in Reviews /\ (at # "over" => review.done <= MaxRetries + 2)
    BY DEF IInv, TypeOK, BelowLimits, Reviews
  <2>2. at = "request"
    BY <1>3 DEF Unavailable, Reviewed
  <2>3. r \in Reviews /\ r.done = review.done + 1 /\ r.repeated = review.repeated
        /\ r.despite = review.despite
    BY <2>1, <2>2, Thresholds DEF Reviews
  <2>4. /\ review' = r
        /\ End("unverified") \/ (review.done + 1 <= MaxRetries /\ Continue)
        /\ Taken /\ UNCHANGED <<run, guard, watch, failures, overflow, once, barren, untouched>>
    BY <1>3, <2>1, Thresholds DEF Unavailable, Reviews
  <2>5. review.repeated < 2 /\ review.despite < 2
    BY <2>2 DEF IInv, BelowLimits
  <2>6. review.done + 1 <= MaxRetries => review.done + 1 <= MaxRetries + 2
    BY <2>1, Thresholds DEF Reviews
  <2> HIDE DEF r
  <2> QED  BY <2>2, <2>3, <2>4, <2>5, <2>6, VerdictIInv DEF Endings
<1>4. ASSUME NEW f \in Findings, FoundWork(f)  PROVE  IInv'
  <2> DEFINE same == f = review.finding
             n == IF ~same THEN 0 ELSE review.repeated + IF review.acted THEN 0 ELSE 1
             m == IF ~same THEN 0 ELSE review.despite + IF review.acted THEN 1 ELSE 0
             r == [done |-> review.done + 1, finding |-> f, acted |-> FALSE,
                   repeated |-> n, despite |-> m]
  <2>1. /\ at = "request" /\ review' = r
        /\ \/ End("unaddressed")
           \/ End("doubtful")
           \/ End("unfinished")
           \/ /\ ~(n >= 2) /\ ~(m >= 2) /\ ~(review.done + 1 > MaxRetries + 2)
              /\ Continue
        /\ Taken /\ UNCHANGED <<run, guard, watch, failures, overflow, once, barren, untouched>>
    BY <1>4 DEF FoundWork, Reviewed
  <2>2. /\ review \in Reviews /\ review.done <= MaxRetries + 2
        /\ review.repeated < 2 /\ review.despite < 2
    BY <2>1 DEF IInv, TypeOK, BelowLimits, Reviews
  <2>3. n \in 0..2 /\ m \in 0..2
    BY <2>2 DEF Reviews
  <2>4. review.done + 1 \in 0..(MaxRetries + 3)
    BY <2>2, Thresholds DEF Reviews
  <2> HIDE DEF n, m
  <2>5. r \in Reviews /\ r.done = review.done + 1 /\ r.repeated = n /\ r.despite = m
    BY <2>3, <2>4 DEF Reviews
  <2>6. /\ ~(n >= 2) => n < 2
        /\ ~(m >= 2) => m < 2
        /\ ~(review.done + 1 > MaxRetries + 2) => review.done + 1 <= MaxRetries + 2
    BY <2>3, <2>4, Thresholds
  <2> HIDE DEF r
  <2> QED  BY <2>1, <2>5, <2>6, VerdictIInv DEF Endings
<1> QED  BY <1>1, <1>2, <1>3, <1>4 DEF Claim

\* The inductive step.
LEMMA StepIInv == IInv /\ [Next]_vars => IInv'
<1> SUFFICES ASSUME IInv, [Next]_vars  PROVE  IInv'
  OBVIOUS
<1>1. CASE Next
  BY <1>1, RequestIInv, ReplyIInv, ClaimIInv, ExecuteIInv DEF Next
<1>2. CASE UNCHANGED vars
  BY <1>2
     DEF vars, counters, IInv, TypeOK, BelowLimits, Charged, WarnedInTime, EndedOnce,
         ToldBeforeStopped
<1> QED  BY <1>1, <1>2

-----------------------------------------------------------------------------
(* The theorems. *)

\* The loop's counters keep their relations in every reachable state: below
\* every limit while the loop of run_loop goes on, warned when a warning is due.
THEOREM AgentLoopInductive == Spec => []IInv
<1>1. Init => IInv
  BY InitIInv
<1>2. IInv /\ [Next]_vars => IInv'
  BY StepIInv
<1> QED  BY <1>1, <1>2, PTL DEF Spec

\* Every counter of run_loop stays within the bounds its types and limits give it.
THEOREM AgentLoopTypeOK == Spec => []TypeOK
<1>1. IInv => TypeOK
  BY DEF IInv
<1> QED  BY <1>1, AgentLoopInductive, PTL

\* Model requests without a successful tool in between never outnumber the
\* attempts of ProgressGuard and the refunds of MAX_OVERFLOW_RECOVERIES, for any
\* limits and any mix of unreadable replies, refusals, claims and failures.
THEOREM AgentLoopFailureBudget == Spec => []FailureBudget
<1>1. IInv => FailureBudget
  BY Thresholds DEF IInv, TypeOK, Charged, FailureBudget
<1> QED  BY <1>1, AgentLoopInductive, PTL

\* LoopWatch stops no run for going over old ground that it has not warned
\* before, whenever its warning thresholds lie below its stop thresholds.
THEOREM AgentLoopToldBeforeStopped == Spec => []ToldBeforeStopped
<1>1. IInv => ToldBeforeStopped
  BY DEF IInv
<1> QED  BY <1>1, AgentLoopInductive, PTL

-----------------------------------------------------------------------------
(* The order of the locks.                                                   *)

\* Step i of h takes l, waiting for it or not.
Steps(h) == 1..Len(Program[h])
Takes(h, i, l) ==
    i \in Steps(h) /\ Program[h][i].do \in {"take", "try"} /\ Program[h][i].lock = l

\* At step j, h still has the guard on l that it got at step i.
Keeps(h, i, l, j) ==
    /\ Takes(h, i, l) /\ i < j
    /\ \A k \in Steps(h) : i < k /\ k < j => Program[h][k] # Drop(l)

\* The order in which handlers take locks one inside the other.
Rank == [runtime_update |-> 1, settings_update |-> 1, generations |-> 2, permissions |-> 2,
         storage |-> 3, agents |-> 4, llama |-> 4, inference |-> 5, models |-> 5]

\* The two status handlers take the last two locks in opposite orders, both of
\* them with the model server's handle in their hands.
Crosses(h, l, j) ==
    /\ \/ h = "inference_status" /\ l = "inference" /\ Program[h][j].lock = "models"
       \/ h = "system_status_text" /\ l = "models" /\ Program[h][j].lock = "inference"
    /\ Keeps(h, 1, "llama", j) /\ Program[h][1] = Write("llama")

Ascends(h, i, l, j) == Rank[l] < Rank[Program[h][j].lock] \/ Crosses(h, l, j)

\* What the proof needs of a handler's program.
Sound(h) ==
    /\ Len(Program[h]) \in 1..15
    /\ \A j \in Steps(h) :
          /\ Program[h][j].lock \in LockNames
          /\ \/ Program[h][j].do \in {"take", "try"} /\ Program[h][j].mode \in {"read", "write"}
             \/ Program[h][j] = Drop(Program[h][j].lock)
    /\ \A l \in LockNames : \A i, j \in Steps(h) :
          Keeps(h, i, l, j) /\ Program[h][j].do \in {"take", "try"} => Ascends(h, i, l, j)

\* A guard belongs to a handler that got it at a step behind it and has not
\* dropped it since ...
Owned ==
    \A l \in LockNames : \A g \in held[l] :
        /\ Running(g.client) /\ Keeps(handler[g.client], g.at, l, pc[g.client])
        /\ g.mode = Program[handler[g.client]][g.at].mode

\* ... and every such step has its guard.
Holding ==
    \A l \in LockNames : \A c \in Clients : \A i \in 1..16 :
        Running(c) /\ Keeps(handler[c], i, l, pc[c]) =>
            [client |-> c, at |-> i, mode |-> Program[handler[c]][i].mode] \in held[l]

\* Whoever is in a queue is at the step that takes that lock, and in it once.
InLine(l, g) ==
    /\ Running(g.client) /\ ~AtEnd(g.client) /\ g.at = pc[g.client]
    /\ Op(g.client).do = "take" /\ Op(g.client).lock = l /\ Op(g.client).mode = g.mode

Queued == \A l \in LockNames : \A k \in DOMAIN queue[l] : InLine(l, queue[l][k])

Once ==
    \A l \in LockNames : \A j, k \in DOMAIN queue[l] :
        queue[l][j].client = queue[l][k].client => j = k

LocksIInv == LocksTypeOK /\ Owned /\ Holding /\ Queued /\ Once /\ Exclusive

-----------------------------------------------------------------------------
LEMMA ChatSseSound == Sound("chat_sse")
<1>1. Program["chat_sse"] = ChatSse
  BY DEF Program
<1>2. /\ Len(ChatSse) = 12
      /\ ChatSse[1] = Try("runtime_update") /\ ChatSse[2] = Write("storage")
      /\ ChatSse[3] = Drop("storage") /\ ChatSse[4] = Write("llama")
      /\ ChatSse[5] = Drop("llama") /\ ChatSse[6] = Write("generations")
      /\ ChatSse[7] = Write("storage") /\ ChatSse[8] = Drop("storage")
      /\ ChatSse[9] = Drop("generations") /\ ChatSse[10] = Write("generations")
      /\ ChatSse[11] = Drop("generations") /\ ChatSse[12] = Drop("runtime_update")
  BY DEF ChatSse, Poke, CancelCurrent
<1>3. ASSUME NEW l \in LockNames, NEW i \in Steps("chat_sse"), NEW j \in Steps("chat_sse"),
             Keeps("chat_sse", i, l, j), Program["chat_sse"][j].do \in {"take", "try"}
      PROVE  Rank[l] < Rank[Program["chat_sse"][j].lock]
  BY <1>1, <1>2, <1>3, SMTT(60)
  DEF Steps, Takes, Keeps, Rank, LockNames, Read, Write, Try, Drop
<1>4. ASSUME NEW j \in Steps("chat_sse")
      PROVE  LET o == Program["chat_sse"][j]
             IN  /\ o.lock \in LockNames
                 /\ \/ o.do \in {"take", "try"} /\ o.mode \in {"read", "write"}
                    \/ o = Drop(o.lock)
  BY <1>1, <1>2 DEF Steps, LockNames, Read, Write, Try, Drop
<1> QED
  BY <1>1, <1>2, <1>3, <1>4 DEF Sound, Ascends

LEMMA SaveReplySound == Sound("save_reply")
<1>1. Program["save_reply"] = SaveReply
  BY DEF Program
<1>2. /\ Len(SaveReply) = 6
      /\ SaveReply[1] = Write("storage") /\ SaveReply[2] = Read("models")
      /\ SaveReply[3] = Drop("models") /\ SaveReply[4] = Drop("storage")
      /\ SaveReply[5] = Write("generations") /\ SaveReply[6] = Drop("generations")
  BY DEF SaveReply, Poke
<1> QED
  BY <1>1, <1>2, SMTT(60) DEF Sound, Steps, Takes, Keeps, Rank, Ascends, Crosses, LockNames,
     Read, Write, Try, Drop

LEMMA ChatStopSound == Sound("chat_stop")
<1>1. Program["chat_stop"] = CancelCurrent
  BY DEF Program
<1>2. /\ Len(CancelCurrent) = 4
      /\ CancelCurrent[1] = Write("generations") /\ CancelCurrent[2] = Write("storage")
      /\ CancelCurrent[3] = Drop("storage") /\ CancelCurrent[4] = Drop("generations")
  BY DEF CancelCurrent
<1> QED
  BY <1>1, <1>2, SMTT(60) DEF Sound, Steps, Takes, Keeps, Rank, Ascends, Crosses, LockNames,
     Read, Write, Try, Drop

LEMMA SpawnAgentRunSound == Sound("spawn_agent_run")
<1>1. Program["spawn_agent_run"] = SpawnAgentRun
  BY DEF Program
<1>2. /\ Len(SpawnAgentRun) = 6
      /\ SpawnAgentRun[1] = Try("runtime_update") /\ SpawnAgentRun[2] = Write("storage")
      /\ SpawnAgentRun[3] = Drop("storage") /\ SpawnAgentRun[4] = Write("agents")
      /\ SpawnAgentRun[5] = Drop("agents") /\ SpawnAgentRun[6] = Drop("runtime_update")
  BY DEF SpawnAgentRun, Poke
<1> QED
  BY <1>1, <1>2, SMTT(60) DEF Sound, Steps, Takes, Keeps, Rank, Ascends, Crosses, LockNames,
     Read, Write, Try, Drop

LEMMA StartSidecarSound == Sound("start_sidecar")
<1>1. Program["start_sidecar"] = StartSidecar
  BY DEF Program
<1>2. /\ Len(StartSidecar) = 14
      /\ StartSidecar[1] = Write("runtime_update")
      /\ StartSidecar[2] = Read("generations") /\ StartSidecar[3] = Drop("generations")
      /\ StartSidecar[4] = Read("agents") /\ StartSidecar[5] = Drop("agents")
      /\ StartSidecar[6] = Write("llama") /\ StartSidecar[7] = Drop("llama")
      /\ StartSidecar[8] = Write("models") /\ StartSidecar[9] = Drop("models")
      /\ StartSidecar[10] = Write("inference") /\ StartSidecar[11] = Drop("inference")
      /\ StartSidecar[12] = Write("storage") /\ StartSidecar[13] = Drop("storage")
      /\ StartSidecar[14] = Drop("runtime_update")
  BY DEF StartSidecar, Poke, Peek, GuardAgentRunning
<1>3. ASSUME NEW l \in LockNames, NEW i \in Steps("start_sidecar"), NEW j \in Steps("start_sidecar"),
             Keeps("start_sidecar", i, l, j), Program["start_sidecar"][j].do \in {"take", "try"}
      PROVE  Rank[l] < Rank[Program["start_sidecar"][j].lock]
  BY <1>1, <1>2, <1>3, SMTT(60)
  DEF Steps, Takes, Keeps, Rank, LockNames, Read, Write, Try, Drop
<1>4. ASSUME NEW j \in Steps("start_sidecar")
      PROVE  LET o == Program["start_sidecar"][j]
             IN  /\ o.lock \in LockNames
                 /\ \/ o.do \in {"take", "try"} /\ o.mode \in {"read", "write"}
                    \/ o = Drop(o.lock)
  BY <1>1, <1>2, SMTT(40) DEF Steps, LockNames, Read, Write, Try, Drop
<1> QED
  BY <1>1, <1>2, <1>3, <1>4 DEF Sound, Ascends

LEMMA PrepareConversationSound == Sound("prepare_conversation")
<1>1. Program["prepare_conversation"] = PrepareConversation
  BY DEF Program
<1>2. /\ Len(PrepareConversation) = 10
      /\ PrepareConversation[1] = Write("runtime_update")
      /\ PrepareConversation[2] = Read("generations")
      /\ PrepareConversation[3] = Drop("generations")
      /\ PrepareConversation[4] = Read("agents")
      /\ PrepareConversation[5] = Drop("agents")
      /\ PrepareConversation[6] = Write("llama")
      /\ PrepareConversation[7] = Drop("llama")
      /\ PrepareConversation[8] = Write("storage")
      /\ PrepareConversation[9] = Drop("storage")
      /\ PrepareConversation[10] = Drop("runtime_update")
  BY DEF PrepareConversation, Poke, Peek, GuardAgentRunning
<1>3. ASSUME NEW l \in LockNames, NEW i \in Steps("prepare_conversation"), NEW j \in Steps("prepare_conversation"),
             Keeps("prepare_conversation", i, l, j), Program["prepare_conversation"][j].do \in {"take", "try"}
      PROVE  Rank[l] < Rank[Program["prepare_conversation"][j].lock]
  BY <1>1, <1>2, <1>3, SMTT(60)
  DEF Steps, Takes, Keeps, Rank, LockNames, Read, Write, Try, Drop
<1>4. ASSUME NEW j \in Steps("prepare_conversation")
      PROVE  LET o == Program["prepare_conversation"][j]
             IN  /\ o.lock \in LockNames
                 /\ \/ o.do \in {"take", "try"} /\ o.mode \in {"read", "write"}
                    \/ o = Drop(o.lock)
  BY <1>1, <1>2, SMTT(40) DEF Steps, LockNames, Read, Write, Try, Drop
<1> QED
  BY <1>1, <1>2, <1>3, <1>4 DEF Sound, Ascends

LEMMA InferenceStatusSound == Sound("inference_status")
<1>1. Program["inference_status"] = InferenceStatus
  BY DEF Program
<1>2. /\ Len(InferenceStatus) = 6
      /\ InferenceStatus[1] = Write("llama") /\ InferenceStatus[2] = Read("inference")
      /\ InferenceStatus[3] = Read("models") /\ InferenceStatus[4] = Drop("models")
      /\ InferenceStatus[5] = Drop("inference") /\ InferenceStatus[6] = Drop("llama")
  BY DEF InferenceStatus
<1> QED
  BY <1>1, <1>2, SMTT(60) DEF Sound, Steps, Takes, Keeps, Rank, Ascends, Crosses, LockNames,
     Read, Write, Try, Drop

LEMMA SystemStatusTextSound == Sound("system_status_text")
<1>1. Program["system_status_text"] = SystemStatusText
  BY DEF Program
<1>2. /\ Len(SystemStatusText) = 6
      /\ SystemStatusText[1] = Write("llama") /\ SystemStatusText[2] = Read("models")
      /\ SystemStatusText[3] = Read("inference")
      /\ SystemStatusText[4] = Drop("inference") /\ SystemStatusText[5] = Drop("models")
      /\ SystemStatusText[6] = Drop("llama")
  BY SMTT(40) DEF SystemStatusText
<1> QED
  BY <1>1, <1>2, SMTT(60) DEF Sound, Steps, Takes, Keeps, Rank, Ascends, Crosses, LockNames,
     Read, Write, Try, Drop

LEMMA PutPermissionModeSound == Sound("put_permission_mode")
<1>1. Program["put_permission_mode"] = PutPermissionMode
  BY DEF Program
<1>2. /\ Len(PutPermissionMode) = 10
      /\ PutPermissionMode[1] = Write("settings_update")
      /\ PutPermissionMode[2] = Write("storage")
      /\ PutPermissionMode[3] = Drop("storage")
      /\ PutPermissionMode[4] = Write("permissions")
      /\ PutPermissionMode[5] = Drop("permissions")
      /\ PutPermissionMode[6] = Read("agents") /\ PutPermissionMode[7] = Drop("agents")
      /\ PutPermissionMode[8] = Read("permissions")
      /\ PutPermissionMode[9] = Drop("permissions")
      /\ PutPermissionMode[10] = Drop("settings_update")
  BY SMTT(40) DEF PutPermissionMode, Poke, Peek, ResumeAutoApprovedRuns
<1>3. ASSUME NEW l \in LockNames, NEW i \in Steps("put_permission_mode"), NEW j \in Steps("put_permission_mode"),
             Keeps("put_permission_mode", i, l, j), Program["put_permission_mode"][j].do \in {"take", "try"}
      PROVE  Rank[l] < Rank[Program["put_permission_mode"][j].lock]
  BY <1>1, <1>2, <1>3, SMTT(60)
  DEF Steps, Takes, Keeps, Rank, LockNames, Read, Write, Try, Drop
<1>4. ASSUME NEW j \in Steps("put_permission_mode")
      PROVE  LET o == Program["put_permission_mode"][j]
             IN  /\ o.lock \in LockNames
                 /\ \/ o.do \in {"take", "try"} /\ o.mode \in {"read", "write"}
                    \/ o = Drop(o.lock)
  BY <1>1, <1>2, SMTT(40) DEF Steps, LockNames, Read, Write, Try, Drop
<1> QED
  BY <1>1, <1>2, <1>3, <1>4 DEF Sound, Ascends

LEMMA AwaitApprovalSound == Sound("await_approval")
<1>1. Program["await_approval"] = AwaitApproval
  BY DEF Program
<1>2. /\ Len(AwaitApproval) = 8
      /\ AwaitApproval[1] = Read("permissions") /\ AwaitApproval[2] = Drop("permissions")
      /\ AwaitApproval[3] = Write("settings_update") /\ AwaitApproval[4] = Read("agents")
      /\ AwaitApproval[5] = Drop("agents") /\ AwaitApproval[6] = Read("permissions")
      /\ AwaitApproval[7] = Drop("permissions")
      /\ AwaitApproval[8] = Drop("settings_update")
  BY DEF AwaitApproval, Peek, ResumeAutoApprovedRuns
<1>3. ASSUME NEW l \in LockNames, NEW i \in Steps("await_approval"), NEW j \in Steps("await_approval"),
             Keeps("await_approval", i, l, j), Program["await_approval"][j].do \in {"take", "try"}
      PROVE  Rank[l] < Rank[Program["await_approval"][j].lock]
  BY <1>1, <1>2, <1>3, SMTT(60)
  DEF Steps, Takes, Keeps, Rank, LockNames, Read, Write, Try, Drop
<1>4. ASSUME NEW j \in Steps("await_approval")
      PROVE  LET o == Program["await_approval"][j]
             IN  /\ o.lock \in LockNames
                 /\ \/ o.do \in {"take", "try"} /\ o.mode \in {"read", "write"}
                    \/ o = Drop(o.lock)
  BY <1>1, <1>2, SMTT(40) DEF Steps, LockNames, Read, Write, Try, Drop
<1> QED
  BY <1>1, <1>2, <1>3, <1>4 DEF Sound, Ascends

LEMMA ExecuteToolSound == Sound("execute_tool")
<1>1. Program["execute_tool"] = ExecuteTool
  BY DEF Program
<1>2. /\ Len(ExecuteTool) = 4
      /\ ExecuteTool[1] = Write("permissions") /\ ExecuteTool[2] = Write("storage")
      /\ ExecuteTool[3] = Drop("storage") /\ ExecuteTool[4] = Drop("permissions")
  BY DEF ExecuteTool
<1> QED
  BY <1>1, <1>2, SMTT(60) DEF Sound, Steps, Takes, Keeps, Rank, Ascends, Crosses, LockNames,
     Read, Write, Try, Drop

LEMMA DeleteWorkspaceSound == Sound("delete_workspace")
<1>1. Program["delete_workspace"] = DeleteWorkspace
  BY DEF Program
<1>2. /\ Len(DeleteWorkspace) = 4
      /\ DeleteWorkspace[1] = Write("storage") /\ DeleteWorkspace[2] = Read("agents")
      /\ DeleteWorkspace[3] = Drop("agents") /\ DeleteWorkspace[4] = Drop("storage")
  BY DEF DeleteWorkspace
<1> QED
  BY <1>1, <1>2, SMTT(60) DEF Sound, Steps, Takes, Keeps, Rank, Ascends, Crosses, LockNames,
     Read, Write, Try, Drop

LEMMA ExportConversationSound == Sound("export_conversation")
<1>1. Program["export_conversation"] = ExportConversation
  BY DEF Program
<1>2. /\ Len(ExportConversation) = 4
      /\ ExportConversation[1] = Write("storage")
      /\ ExportConversation[2] = Read("llama") /\ ExportConversation[3] = Drop("llama")
      /\ ExportConversation[4] = Drop("storage")
  BY DEF ExportConversation
<1> QED
  BY <1>1, <1>2, SMTT(60) DEF Sound, Steps, Takes, Keeps, Rank, Ascends, Crosses, LockNames,
     Read, Write, Try, Drop

LEMMA ShutDownSound == Sound("shut_down")
<1>1. Program["shut_down"] = ShutDown
  BY DEF Program
<1>2. /\ Len(ShutDown) = 12
      /\ ShutDown[1] = Read("agents") /\ ShutDown[2] = Drop("agents")
      /\ ShutDown[3] = Write("storage") /\ ShutDown[4] = Drop("storage")
      /\ ShutDown[5] = Write("generations") /\ ShutDown[6] = Write("storage")
      /\ ShutDown[7] = Drop("storage") /\ ShutDown[8] = Drop("generations")
      /\ ShutDown[9] = Write("llama") /\ ShutDown[10] = Drop("llama")
      /\ ShutDown[11] = Write("inference") /\ ShutDown[12] = Drop("inference")
  BY DEF ShutDown, Poke, Peek, CancelCurrent
<1>3. ASSUME NEW l \in LockNames, NEW i \in Steps("shut_down"), NEW j \in Steps("shut_down"),
             Keeps("shut_down", i, l, j), Program["shut_down"][j].do \in {"take", "try"}
      PROVE  Rank[l] < Rank[Program["shut_down"][j].lock]
  BY <1>1, <1>2, <1>3, SMTT(60)
  DEF Steps, Takes, Keeps, Rank, LockNames, Read, Write, Try, Drop
<1>4. ASSUME NEW j \in Steps("shut_down")
      PROVE  LET o == Program["shut_down"][j]
             IN  /\ o.lock \in LockNames
                 /\ \/ o.do \in {"take", "try"} /\ o.mode \in {"read", "write"}
                    \/ o = Drop(o.lock)
  BY <1>1, <1>2 DEF Steps, LockNames, Read, Write, Try, Drop
<1> QED
  BY <1>1, <1>2, <1>3, <1>4 DEF Sound, Ascends
LEMMA Programs ==
    ASSUME NEW h \in Handlers, h # "session_action"
    PROVE  Sound(h)
<1>1. Handlers = {"chat_sse", "save_reply", "chat_stop", "spawn_agent_run", "start_sidecar",
                  "prepare_conversation", "inference_status", "system_status_text",
                  "put_permission_mode", "await_approval", "execute_tool", "delete_workspace",
                  "export_conversation", "shut_down", "session_action"}
  BY DEF Handlers, Program
<1> QED
  BY <1>1, ChatSseSound, SaveReplySound, ChatStopSound, SpawnAgentRunSound, StartSidecarSound,
     PrepareConversationSound, InferenceStatusSound, SystemStatusTextSound,
     PutPermissionModeSound, AwaitApprovalSound, ExecuteToolSound, DeleteWorkspaceSound,
     ExportConversationSound, ShutDownSound

\* A handler holds a lock once.
LEMMA KeptOnce ==
    ASSUME NEW h, Sound(h), NEW l \in LockNames, NEW j \in Nat,
           NEW i \in Nat, NEW k \in Nat, Keeps(h, i, l, j), Keeps(h, k, l, j)
    PROVE  i = k
<1>1. ASSUME NEW a \in Nat, NEW b \in Nat, a < b, Keeps(h, a, l, j), Keeps(h, b, l, j)
      PROVE  FALSE
  <2>1. a \in Steps(h) /\ b \in Steps(h) /\ Takes(h, b, l) /\ Keeps(h, a, l, b)
    BY <1>1 DEF Keeps, Takes, Steps, Sound
  <2>2. Ascends(h, a, l, b)
    BY <2>1 DEF Sound, Takes
  <2>3. Program[h][b].lock = l
    BY <2>1 DEF Takes
  <2>4. Rank[l] \in Nat
    BY DEF Rank, LockNames
  <2> QED
    BY <2>2, <2>3, <2>4 DEF Ascends, Crosses
<1> QED
  BY <1>1

\* What a handler keeps one step further on.
LEMMA KeepsOn ==
    ASSUME NEW h, Sound(h), NEW p \in Steps(h), NEW l \in LockNames, NEW i \in Nat
    PROVE  Keeps(h, i, l, p + 1) <=>
               \/ Keeps(h, i, l, p) /\ Program[h][p] # Drop(l)
               \/ i = p /\ Takes(h, p, l)
BY DEF Sound, Keeps, Takes, Steps

-----------------------------------------------------------------------------
\* A step that takes a lock says how.
LEMMA Moded ==
    ASSUME NEW h, Sound(h), NEW i \in Steps(h), Program[h][i].do \in {"take", "try"}
    PROVE  Program[h][i].mode \in {"read", "write"}
<1>1. Program[h][i] # Drop(Program[h][i].lock)
  BY DEF Drop
<1> QED
  BY <1>1 DEF Sound

\* A client that runs has a sound program.
LEMMA RunsSound ==
    ASSUME "session_action" \notin Served, LocksTypeOK, NEW c \in Clients, Running(c)
    PROVE  handler[c] \in Served /\ Sound(handler[c]) /\ pc[c] \in 1..16
BY LocksAssumption, Programs DEF LocksTypeOK, Running

LEMMA InRange ==
    ASSUME "session_action" \notin Served, LocksTypeOK, NEW c \in Clients, Running(c), ~AtEnd(c)
    PROVE  pc[c] \in Steps(handler[c]) /\ pc[c] \in 1..15
<1>1. pc[c] \in 1..16
  BY RunsSound
<1>2. Len(Program[handler[c]]) \in 1..15
  BY RunsSound DEF Sound
<1>3. pc[c] <= Len(Program[handler[c]])
  BY <1>1, <1>2, SMTT(40) DEF AtEnd
<1>4. \A p \in 1..16 : \A n \in 1..15 : p <= n => p \in 1..n /\ p \in 1..15
  OBVIOUS
<1>5. pc[c] \in 1..Len(Program[handler[c]]) /\ pc[c] \in 1..15
  BY <1>1, <1>2, <1>3, <1>4
<1> QED
  BY <1>5 DEF Steps

\* The lock comes free for c, whether it asked, tried or waited.
LEMMA Got ==
    ASSUME "session_action" \notin Served, LocksIInv,
           NEW c \in Clients, Running(c), ~AtEnd(c), Op(c).do \in {"take", "try"},
           NEW l \in LockNames, Op(c).lock = l,
           NEW g, g = [client |-> c, at |-> pc[c], mode |-> Op(c).mode], Free(l, g),
           held' = [held EXCEPT ![l] = @ \union {g}],
           pc' = [pc EXCEPT ![c] = @ + 1], handler' = handler
    PROVE  /\ pc' \in [Clients -> 1..16] /\ held' \in [LockNames -> SUBSET Guard]
           /\ Owned' /\ Holding' /\ Exclusive'
<1> DEFINE h == handler[c]
           p == pc[c]
<1>1. h \in Served /\ Sound(h) /\ p \in Steps(h) /\ p \in 1..15
  BY RunsSound, InRange DEF LocksIInv
<1>2. Takes(h, p, l) /\ \A m \in LockNames : Program[h][p] # Drop(m)
  BY <1>1 DEF Takes, Op, Drop
<1>3. g \in Guard
  <2>1. Op(c).mode \in {"read", "write"}
    BY <1>1, Moded DEF Op
  <2> QED
    BY <1>1, <2>1 DEF Guard
<1>4. pc' \in [Clients -> 1..16] /\ held' \in [LockNames -> SUBSET Guard]
  BY <1>1, <1>3 DEF LocksIInv, LocksTypeOK
<1>5. pc'[c] = p + 1 /\ \A d \in Clients \ {c} : pc'[d] = pc[d]
  BY DEF LocksIInv, LocksTypeOK
<1>6. \A m \in LockNames : held'[m] = IF m = l THEN held[m] \union {g} ELSE held[m]
  BY DEF LocksIInv, LocksTypeOK
<1>7. \A m \in LockNames : \A i \in Nat :
          Keeps(h, i, m, p + 1) <=> Keeps(h, i, m, p) \/ (i = p /\ m = l)
  <2> TAKE m \in LockNames, i \in Nat
  <2>1. Keeps(h, i, m, p + 1) <=>
            (Keeps(h, i, m, p) /\ Program[h][p] # Drop(m)) \/ (i = p /\ Takes(h, p, m))
    BY <1>1, KeepsOn
  <2>2. Takes(h, p, m) <=> m = l
    BY <1>2 DEF Takes
  <2> QED
    BY <2>1, <2>2, <1>2
<1>8. Owned'
  <2> SUFFICES ASSUME NEW m \in LockNames, NEW x \in held'[m]
               PROVE  /\ handler[x.client] # Nobody
                      /\ Keeps(handler[x.client], x.at, m, pc'[x.client])
                      /\ x.mode = Program[handler[x.client]][x.at].mode
    BY DEF Owned, Running
  <2>1. CASE x = g /\ m = l
    BY <2>1, <1>1, <1>5, <1>7 DEF Running, Op
  <2>2. CASE x \in held[m]
    <3>1. x \in Guard
      BY <2>2 DEF LocksIInv, LocksTypeOK
    <3>2. x.client \in Clients /\ x.at \in Nat
      BY <3>1 DEF Guard
    <3>3. /\ handler[x.client] # Nobody /\ Keeps(handler[x.client], x.at, m, pc[x.client])
          /\ x.mode = Program[handler[x.client]][x.at].mode
      BY <2>2 DEF LocksIInv, Owned, Running
    <3>4. Keeps(handler[x.client], x.at, m, pc'[x.client])
      <4>1. CASE x.client = c
        BY <4>1, <3>2, <3>3, <1>5, <1>7
      <4>2. CASE x.client # c
        BY <4>2, <3>2, <3>3, <1>5
      <4> QED
        BY <4>1, <4>2
    <3> QED
      BY <3>3, <3>4
  <2> QED
    BY <1>6, <2>1, <2>2
<1>9. Holding'
  <2> SUFFICES ASSUME NEW m \in LockNames, NEW d \in Clients, NEW i \in 1..16,
                      handler[d] # Nobody, Keeps(handler[d], i, m, pc'[d])
               PROVE  [client |-> d, at |-> i, mode |-> Program[handler[d]][i].mode] \in held'[m]
    BY DEF Holding, Running
  <2>1. CASE Keeps(handler[d], i, m, pc[d])
    <3>1. [client |-> d, at |-> i, mode |-> Program[handler[d]][i].mode] \in held[m]
      BY <2>1 DEF LocksIInv, Holding, Running
    <3> QED
      BY <3>1, <1>6
  <2>2. CASE d = c /\ i = p /\ m = l
    BY <2>2, <1>6, SMTT(40) DEF Op
  <2> QED
    BY <1>5, <1>7, <2>1, <2>2
<1>10. Exclusive'
  <2> SUFFICES ASSUME NEW m \in LockNames, NEW x \in held'[m], NEW y \in held'[m], Conflict(x, y)
               PROVE  x = y
    BY DEF Exclusive, Conflict
  <2> QED
    BY <1>6 DEF LocksIInv, Exclusive, Free, Conflict
<1> QED
  BY <1>4, <1>8, <1>9, <1>10

\* The guards of the others stay as they are.
LEMMA Left ==
    ASSUME LocksIInv, NEW c \in Clients, Leave(c)
    PROVE  /\ handler' \in [Clients -> Served \union {Nobody}]
           /\ pc' \in [Clients -> 1..16] /\ held' \in [LockNames -> SUBSET Guard]
           /\ Owned' /\ Holding' /\ Exclusive'
<1>1. /\ handler' \in [Clients -> Served \union {Nobody}]
      /\ pc' \in [Clients -> 1..16] /\ held' \in [LockNames -> SUBSET Guard]
  BY DEF Leave, LocksIInv, LocksTypeOK
<1>2. /\ handler'[c] = Nobody
      /\ \A d \in Clients \ {c} : handler'[d] = handler[d] /\ pc'[d] = pc[d]
      /\ \A l \in LockNames : held'[l] = {g \in held[l] : g.client # c}
  BY DEF Leave, LocksIInv, LocksTypeOK
<1>3. \A l \in LockNames : \A g \in held[l] : g.client \in Clients
  BY DEF LocksIInv, LocksTypeOK, Guard
<1>4. Owned'
  BY <1>2, <1>3 DEF Owned, Running, LocksIInv
<1>5. Holding'
  BY <1>2 DEF Holding, Running, LocksIInv
<1>6. Exclusive'
  BY <1>2 DEF Exclusive, Conflict, LocksIInv
<1> QED
  BY <1>1, <1>4, <1>5, <1>6

\* A step of a client that waits for nothing leaves the queues in order.
LEMMA QueuesStay ==
    ASSUME LocksIInv, NEW c \in Clients, ~Waits(c), queue' = queue,
           \A d \in Clients \ {c} : handler'[d] = handler[d] /\ pc'[d] = pc[d]
    PROVE  queue' \in [LockNames -> Seq(Guard)] /\ Queued' /\ Once'
<1>1. \A l \in LockNames : \A k \in DOMAIN queue[l] : queue[l][k].client \in Clients \ {c}
  <2> TAKE l \in LockNames
  <2> TAKE k \in DOMAIN queue[l]
  <2>1. queue[l] \in Seq(Guard)
    BY DEF LocksIInv, LocksTypeOK
  <2>2. queue[l][k] \in Guard
    BY <2>1, SMTT(40)
  <2> QED
    BY <2>2 DEF Guard, Waits
<1>2. Queued'
  BY <1>1 DEF Queued, InLine, Running, AtEnd, Op, LocksIInv
<1> QED
  BY <1>2 DEF Once, LocksIInv, LocksTypeOK

LEMMA ReleaseIInv ==
    ASSUME "session_action" \notin Served, LocksIInv, NEW c \in Clients, Release(c)
    PROVE  LocksIInv'
<1> DEFINE h == handler[c]
           p == pc[c]
           l == Op(c).lock
<1>1. h \in Served /\ Sound(h) /\ p \in Steps(h) /\ p \in 1..15
  BY RunsSound, InRange DEF LocksIInv, Release
<1>2. l \in LockNames /\ Program[h][p] = Drop(l)
  <2>1. Op(c).do = "drop"
    BY DEF Release
  <2> QED
    BY <1>1, <2>1 DEF Sound, Op
<1>3. /\ pc'[c] = p + 1 /\ \A d \in Clients \ {c} : pc'[d] = pc[d]
      /\ pc' \in [Clients -> 1..16] /\ handler' = handler
  BY <1>1 DEF Release, LocksIInv, LocksTypeOK
<1>4. \A m \in LockNames : \A i \in Nat : Keeps(h, i, m, p + 1) <=> Keeps(h, i, m, p) /\ m # l
  <2> TAKE m \in LockNames
  <2> TAKE i \in Nat
  <2>1. Keeps(h, i, m, p + 1) <=>
            (Keeps(h, i, m, p) /\ Program[h][p] # Drop(m)) \/ (i = p /\ Takes(h, p, m))
    BY <1>1, KeepsOn
  <2>2. (Drop(l) = Drop(m) <=> m = l) /\ ~Takes(h, p, m)
    BY <1>2 DEF Drop, Takes
  <2> QED
    BY <2>1, <2>2, <1>2
<1> DEFINE mine == {g \in held[l] : g.client = c}
<1>5. \A m \in LockNames :
          held'[m] = IF m = l THEN held[l] \ {g \in mine : \A x \in mine : x.at <= g.at} ELSE held[m]
  BY <1>2 DEF Release, LocksIInv, LocksTypeOK
<1>6. \A m \in LockNames : \A g \in held[m] : g \in Guard
  BY DEF LocksIInv, LocksTypeOK
<1>7. \A m \in LockNames : held'[m] = IF m = l THEN held[m] \ mine ELSE held[m]
  <2>1. \A g, x \in mine : x.at = g.at
    <3> TAKE g \in mine
    <3> TAKE x \in mine
    <3>1. /\ g.at \in Nat /\ x.at \in Nat /\ p \in Nat
          /\ Keeps(h, g.at, l, p) /\ Keeps(h, x.at, l, p)
      BY <1>1, <1>2, <1>6 DEF LocksIInv, Owned, Guard
    <3> QED
      BY <3>1, <1>1, <1>2, KeptOnce
  <2>2. \A g \in mine : g.at \in Nat
    BY <1>2, <1>6 DEF Guard
  <2>3. {g \in mine : \A x \in mine : x.at <= g.at} = mine
    BY <2>1, <2>2
  <2> QED
    BY <1>5, <2>3
<1>8. held' \in [LockNames -> SUBSET Guard]
  BY <1>2 DEF Release, LocksIInv, LocksTypeOK
<1>9. Owned'
  <2> SUFFICES ASSUME NEW m \in LockNames, NEW x \in held'[m]
               PROVE  /\ handler[x.client] # Nobody
                      /\ Keeps(handler[x.client], x.at, m, pc'[x.client])
                      /\ x.mode = Program[handler[x.client]][x.at].mode
    BY <1>3 DEF Owned, Running
  <2>1. x \in held[m] /\ ~(m = l /\ x.client = c)
    BY <1>7
  <2>2. x.client \in Clients /\ x.at \in Nat
    BY <2>1, <1>6 DEF Guard
  <2>3. /\ handler[x.client] # Nobody /\ Keeps(handler[x.client], x.at, m, pc[x.client])
        /\ x.mode = Program[handler[x.client]][x.at].mode
    BY <2>1 DEF LocksIInv, Owned, Running
  <2>4. Keeps(handler[x.client], x.at, m, pc'[x.client])
    <3>1. CASE x.client = c
      BY <3>1, <2>1, <2>2, <2>3, <1>3, <1>4
    <3>2. CASE x.client # c
      BY <3>2, <2>2, <2>3, <1>3
    <3> QED
      BY <3>1, <3>2
  <2> QED
    BY <2>3, <2>4
<1>10. Holding'
  <2> SUFFICES ASSUME NEW m \in LockNames, NEW d \in Clients, NEW i \in 1..16,
                      handler[d] # Nobody, Keeps(handler[d], i, m, pc'[d])
               PROVE  [client |-> d, at |-> i, mode |-> Program[handler[d]][i].mode] \in held'[m]
    BY <1>3 DEF Holding, Running
  <2>1. Keeps(handler[d], i, m, pc[d]) /\ ~(d = c /\ m = l)
    BY <1>3, <1>4
  <2>2. [client |-> d, at |-> i, mode |-> Program[handler[d]][i].mode] \in held[m]
    BY <2>1 DEF LocksIInv, Holding, Running
  <2> QED
    BY <2>1, <2>2, <1>7
<1>11. Exclusive'
  BY <1>7 DEF Exclusive, Conflict, LocksIInv
<1>12. ~Waits(c)
  BY DEF Release, Waits, LocksIInv, Queued, InLine
<1>13. queue' = queue
  BY DEF Release
<1>14. queue' \in [LockNames -> Seq(Guard)] /\ Queued' /\ Once'
  BY <1>3, <1>12, <1>13, QueuesStay
<1> QED
  BY <1>3, <1>8, <1>9, <1>10, <1>11, <1>14 DEF LocksIInv, LocksTypeOK

LEMMA ArriveIInv ==
    ASSUME LocksIInv, NEW c \in Clients, NEW h \in Served, Arrive(c, h)
    PROVE  LocksIInv'
<1>1. /\ handler' \in [Clients -> Served \union {Nobody}] /\ pc' \in [Clients -> 1..16]
      /\ \A d \in Clients \ {c} : handler'[d] = handler[d] /\ pc'[d] = pc[d]
      /\ handler'[c] = h /\ pc'[c] = 1 /\ held' = held /\ queue' = queue /\ ~Running(c)
  BY DEF Arrive, LocksIInv, LocksTypeOK
<1>2. Owned'
  <2>1. \A l \in LockNames : \A g \in held[l] : g.client \in Clients \ {c}
    BY <1>1 DEF LocksIInv, LocksTypeOK, Guard, Owned
  <2> QED
    BY <1>1, <2>1 DEF LocksIInv, Owned, Running
<1>3. Holding'
  <2>1. \A l \in LockNames : \A i \in 1..16 : ~Keeps(h, i, l, 1)
    BY DEF Keeps
  <2> QED
    BY <1>1, <2>1 DEF LocksIInv, Holding, Running
<1>4. Exclusive'
  BY <1>1 DEF LocksIInv, Exclusive, Conflict
<1>5. ~Waits(c)
  BY <1>1 DEF Waits, LocksIInv, Queued, InLine
<1>6. queue' \in [LockNames -> Seq(Guard)] /\ Queued' /\ Once'
  BY <1>1, <1>5, QueuesStay
<1> QED
  BY <1>1, <1>2, <1>3, <1>4, <1>6 DEF LocksIInv, LocksTypeOK

LEMMA TakeIInv ==
    ASSUME "session_action" \notin Served, LocksIInv, NEW c \in Clients, Take(c)
    PROVE  LocksIInv'
<1> DEFINE l == Op(c).lock
           g == [client |-> c, at |-> pc[c], mode |-> Op(c).mode]
<1>1. /\ handler[c] \in Served /\ Sound(handler[c]) /\ pc[c] \in Steps(handler[c])
      /\ pc[c] \in 1..15 /\ Op(c).do = "take"
  BY RunsSound, InRange DEF LocksIInv, Take
<1>2. l \in LockNames
  BY <1>1 DEF Sound, Op
<1>3. g \in Guard
  <2>1. Op(c).mode \in {"read", "write"}
    BY <1>1, Moded DEF Op
  <2> QED
    BY <1>1, <2>1 DEF Guard
<1>4. CASE queue[l] = <<>> /\ Free(l, g)
  <2>1. /\ held' = [held EXCEPT ![l] = @ \union {g}] /\ pc' = [pc EXCEPT ![c] = @ + 1]
        /\ handler' = handler /\ queue' = queue
        /\ Running(c) /\ ~AtEnd(c) /\ ~Waits(c)
    BY <1>4 DEF Take
  <2>2. /\ pc' \in [Clients -> 1..16] /\ held' \in [LockNames -> SUBSET Guard]
        /\ Owned' /\ Holding' /\ Exclusive'
    BY <2>1, <1>1, <1>2, <1>4, Got
  <2>3. \A d \in Clients \ {c} : handler'[d] = handler[d] /\ pc'[d] = pc[d]
    BY <2>1 DEF LocksIInv, LocksTypeOK
  <2>4. queue' \in [LockNames -> Seq(Guard)] /\ Queued' /\ Once'
    BY <2>1, <2>3, QueuesStay
  <2> QED
    BY <2>1, <2>2, <2>4 DEF LocksIInv, LocksTypeOK
<1>5. CASE ~(queue[l] = <<>> /\ Free(l, g))
  <2>1. /\ queue' = [queue EXCEPT ![l] = Append(@, g)]
        /\ handler' = handler /\ pc' = pc /\ held' = held
        /\ Running(c) /\ ~AtEnd(c) /\ ~Waits(c)
    BY <1>5 DEF Take
  <2>2. queue' \in [LockNames -> Seq(Guard)]
    BY <2>1, <1>2, <1>3 DEF LocksIInv, LocksTypeOK
  <2>3. \A m \in LockNames : \A k \in DOMAIN queue'[m] :
            \/ k \in DOMAIN queue[m] /\ queue'[m][k] = queue[m][k]
            \/ m = l /\ k = Len(queue[l]) + 1 /\ queue'[m][k] = g
    BY <2>1, <1>2, <1>3 DEF LocksIInv, LocksTypeOK
  <2>4. Queued'
    <3>1. \A m \in LockNames : \A k \in DOMAIN queue'[m] : InLine(m, queue'[m][k])
      <4>1. InLine(l, g)
        BY <2>1, <1>1, SMTT(40) DEF InLine
      <4> QED
        BY <2>3, <4>1 DEF LocksIInv, Queued
    <3>2. \A m \in LockNames : \A x : InLine(m, x) => InLine(m, x)'
      BY <2>1 DEF InLine, Running, AtEnd, Op
    <3> QED
      BY <3>1, <3>2 DEF Queued
  <2>5. Once'
    <3>1. \A m \in LockNames : \A k \in DOMAIN queue[m] : queue[m][k].client # c
      BY <2>1 DEF Waits
    <3> SUFFICES ASSUME NEW m \in LockNames, NEW j \in DOMAIN queue'[m], NEW k \in DOMAIN queue'[m],
                        queue'[m][j].client = queue'[m][k].client
                 PROVE  j = k
      BY DEF Once
    <3> QED
      BY <3>1, <2>3 DEF LocksIInv, Once
  <2>6. Owned' /\ Holding' /\ Exclusive'
    BY <2>1 DEF LocksIInv, Owned, Holding, Exclusive, Running, Conflict
  <2> QED
    BY <2>1, <2>2, <2>4, <2>5, <2>6 DEF LocksIInv, LocksTypeOK
<1> QED
  BY <1>4, <1>5

LEMMA TryLockIInv ==
    ASSUME "session_action" \notin Served, LocksIInv, NEW c \in Clients, TryLock(c)
    PROVE  LocksIInv'
<1> DEFINE l == Op(c).lock
           g == [client |-> c, at |-> pc[c], mode |-> Op(c).mode]
<1>1. /\ handler[c] \in Served /\ Sound(handler[c]) /\ pc[c] \in Steps(handler[c])
      /\ Running(c) /\ ~AtEnd(c) /\ Op(c).do = "try" /\ queue' = queue
  BY RunsSound, InRange DEF LocksIInv, TryLock
<1>2. l \in LockNames
  BY <1>1 DEF Sound, Op
<1>3. ~Waits(c)
  BY <1>1 DEF Waits, LocksIInv, Queued, InLine
<1>4. CASE queue[l] = <<>> /\ Free(l, g)
  <2>1. /\ held' = [held EXCEPT ![l] = @ \union {g}] /\ pc' = [pc EXCEPT ![c] = @ + 1]
        /\ handler' = handler
    BY <1>4 DEF TryLock
  <2>2. /\ pc' \in [Clients -> 1..16] /\ held' \in [LockNames -> SUBSET Guard]
        /\ Owned' /\ Holding' /\ Exclusive'
    BY <2>1, <1>1, <1>2, <1>4, Got
  <2>3. \A d \in Clients \ {c} : handler'[d] = handler[d] /\ pc'[d] = pc[d]
    BY <2>1 DEF LocksIInv, LocksTypeOK
  <2>4. queue' \in [LockNames -> Seq(Guard)] /\ Queued' /\ Once'
    BY <1>1, <1>3, <2>3, QueuesStay
  <2> QED
    BY <2>1, <2>2, <2>4 DEF LocksIInv, LocksTypeOK
<1>5. CASE Leave(c)
  <2>1. \A d \in Clients \ {c} : handler'[d] = handler[d] /\ pc'[d] = pc[d]
    BY <1>5 DEF Leave, LocksIInv, LocksTypeOK
  <2> QED
    BY <1>1, <1>3, <1>5, <2>1, Left, QueuesStay DEF LocksIInv, LocksTypeOK
<1> QED
  BY <1>4, <1>5 DEF TryLock

LEMMA FinishIInv ==
    ASSUME LocksIInv, NEW c \in Clients, Finish(c)
    PROVE  LocksIInv'
<1>1. Leave(c) /\ queue' = queue
  BY DEF Finish
<1>2. ~Waits(c)
  BY DEF Finish, Waits, LocksIInv, Queued, InLine
<1>3. \A d \in Clients \ {c} : handler'[d] = handler[d] /\ pc'[d] = pc[d]
  BY <1>1 DEF Leave, LocksIInv, LocksTypeOK
<1> QED
  BY <1>1, <1>2, <1>3, Left, QueuesStay DEF LocksIInv, LocksTypeOK

LEMMA GrantIInv ==
    ASSUME "session_action" \notin Served, LocksIInv, NEW l \in LockNames, Grant(l)
    PROVE  LocksIInv'
<1> DEFINE g == Head(queue[l])
           c == g.client
<1>1. queue[l] \in Seq(Guard) /\ queue[l] # <<>> /\ g = queue[l][1] /\ 1 \in DOMAIN queue[l]
  BY DEF Grant, LocksIInv, LocksTypeOK
<1>2. g \in Guard /\ c \in Clients /\ InLine(l, g)
  <2>1. g \in Guard
    BY <1>1
  <2> QED
    BY <1>1, <2>1 DEF LocksIInv, Queued, Guard
<1>3. g = [client |-> c, at |-> pc[c], mode |-> Op(c).mode]
  BY <1>2 DEF InLine, Guard
<1>4. /\ held' = [held EXCEPT ![l] = @ \union {g}] /\ pc' = [pc EXCEPT ![c] = @ + 1]
      /\ handler' = handler /\ queue' = [queue EXCEPT ![l] = Tail(@)] /\ Free(l, g)
  BY DEF Grant
<1>5. /\ pc' \in [Clients -> 1..16] /\ held' \in [LockNames -> SUBSET Guard]
      /\ Owned' /\ Holding' /\ Exclusive'
  <2>1. Running(c) /\ ~AtEnd(c) /\ Op(c).do \in {"take", "try"} /\ Op(c).lock = l
    BY <1>2 DEF InLine
  <2> QED
    BY <1>2, <1>3, <1>4, <2>1, Got
<1>6. queue' \in [LockNames -> Seq(Guard)]
  BY <1>1, <1>4 DEF LocksIInv, LocksTypeOK
<1>7. \A m \in LockNames : \A k \in DOMAIN queue'[m] :
          \/ m # l /\ k \in DOMAIN queue[m] /\ queue'[m][k] = queue[m][k]
          \/ m = l /\ k \in Nat \ {0} /\ k + 1 \in DOMAIN queue[l] /\ queue'[m][k] = queue[l][k + 1]
  BY <1>1, <1>4 DEF LocksIInv, LocksTypeOK
<1>8. \A m \in LockNames : \A k \in DOMAIN queue'[m] :
          InLine(m, queue'[m][k]) /\ queue'[m][k].client # c
  <2> SUFFICES ASSUME NEW m \in LockNames, NEW k \in DOMAIN queue'[m]
               PROVE  InLine(m, queue'[m][k]) /\ queue'[m][k].client # c
    OBVIOUS
  <2>1. CASE m # l /\ k \in DOMAIN queue[m] /\ queue'[m][k] = queue[m][k]
    BY <2>1, <1>2 DEF LocksIInv, Queued, InLine
  <2>2. CASE m = l /\ k \in Nat \ {0} /\ k + 1 \in DOMAIN queue[l] /\ queue'[m][k] = queue[l][k + 1]
    <3>1. InLine(l, queue[l][k + 1])
      BY <2>2 DEF LocksIInv, Queued
    <3>2. queue[l][k + 1].client # c
      BY <2>2, <1>1 DEF LocksIInv, Once
    <3> QED
      BY <2>2, <3>1, <3>2
  <2> QED
    BY <1>7, <2>1, <2>2
<1>9. Queued'
  <2>1. \A m \in LockNames : \A k \in DOMAIN queue'[m] : queue'[m][k].client \in Clients
    <3> TAKE m \in LockNames
    <3> TAKE k \in DOMAIN queue'[m]
    <3>1. queue'[m] \in Seq(Guard)
      BY <1>6
    <3>2. queue'[m][k] \in Guard
      BY <3>1
    <3> QED
      BY <3>2 DEF Guard
  <2>2. \A d \in Clients \ {c} : pc'[d] = pc[d]
    BY <1>4, SMTT(40) DEF LocksIInv, LocksTypeOK
  <2>3. \A m \in LockNames : \A x : InLine(m, x) /\ x.client \in Clients \ {c} => InLine(m, x)'
    BY <1>4, <2>2 DEF InLine, Running, AtEnd, Op
  <2> QED
    BY <1>8, <2>1, <2>3 DEF Queued
<1>10. Once'
  <2> SUFFICES ASSUME NEW m \in LockNames, NEW j \in DOMAIN queue'[m], NEW k \in DOMAIN queue'[m],
                      queue'[m][j].client = queue'[m][k].client
               PROVE  j = k
    BY DEF Once
  <2> QED
    BY <1>7 DEF LocksIInv, Once
<1> QED
  BY <1>4, <1>5, <1>6, <1>9, <1>10 DEF LocksIInv, LocksTypeOK

\* A sequence without its i-th element.
LEMMA Removed ==
    ASSUME NEW S, NEW s \in Seq(S), NEW i \in 1..Len(s)
    PROVE  /\ Without(s, i) \in Seq(S)
           /\ \A k \in DOMAIN Without(s, i) :
                  \/ k \in 1..(i - 1) /\ Without(s, i)[k] = s[k]
                  \/ k \in i..(Len(s) - 1) /\ Without(s, i)[k] = s[k + 1]
<1> DEFINE a == SubSeq(s, 1, i - 1)
           b == SubSeq(s, i + 1, Len(s))
           q == Without(s, i)
<1>1. a \in Seq(S) /\ Len(a) = i - 1 /\ \A k \in 1..(i - 1) : a[k] = s[k]
  OBVIOUS
<1>2. b \in Seq(S) /\ Len(b) = Len(s) - i /\ \A k \in 1..(Len(s) - i) : b[k] = s[k + i]
  OBVIOUS
<1>3. q = a \o b
  BY DEF Without
<1> HIDE DEF a, b, q
<1>4. /\ q \in Seq(S) /\ Len(q) = Len(a) + Len(b)
      /\ \A k \in 1..(Len(a) + Len(b)) :
             q[k] = IF k <= Len(a) THEN a[k] ELSE b[k - Len(a)]
  BY <1>1, <1>2, <1>3, ConcatProperties
<1>5. Len(s) \in Nat
  OBVIOUS
<1>6. ASSUME NEW k \in 1..(Len(s) - 1)
      PROVE  q[k] = IF k <= i - 1 THEN s[k] ELSE s[k + 1]
  <2>1. CASE k <= i - 1
    BY <2>1, <1>1, <1>2, <1>4, <1>5, SMTT(40)
  <2>2. CASE ~(k <= i - 1)
    <3>1. k - (i - 1) \in 1..(Len(s) - i) /\ (k - (i - 1)) + i = k + 1
      BY <2>2, <1>5
    <3>2. b[k - (i - 1)] = s[k + 1]
      BY <3>1, <1>2
    <3> QED
      BY <2>2, <3>2, <1>1, <1>2, <1>4, <1>5, SMTT(40)
  <2> QED
    BY <2>1, <2>2
<1>7. DOMAIN q = 1..(Len(s) - 1)
  BY <1>1, <1>2, <1>4, <1>5
<1>8. ASSUME NEW k \in DOMAIN q
      PROVE  \/ k \in 1..(i - 1) /\ q[k] = s[k]
             \/ k \in i..(Len(s) - 1) /\ q[k] = s[k + 1]
  <2>1. k \in 1..(i - 1) \/ k \in i..(Len(s) - 1)
    BY <1>5, <1>7
  <2> QED
    BY <2>1, <1>5, <1>6, <1>7
<1> QED
  BY <1>4, <1>8 DEF q

LEMMA DisconnectIInv ==
    ASSUME LocksIInv, NEW c \in Clients, Disconnect(c)
    PROVE  LocksIInv'
<1>1. Leave(c)
  BY DEF Disconnect
<1>a. PICK l \in LockNames : \E i \in DOMAIN queue[l] :
          /\ queue[l][i].client = c
          /\ queue' = [queue EXCEPT ![l] = Without(@, i)]
  BY DEF Disconnect
<1>2. PICK i \in DOMAIN queue[l] :
          /\ queue[l][i].client = c
          /\ queue' = [queue EXCEPT ![l] = Without(@, i)]
  BY <1>a
<1>3. queue[l] \in Seq(Guard) /\ i \in 1..Len(queue[l])
  BY DEF LocksIInv, LocksTypeOK
<1> DEFINE q == Without(queue[l], i)
<1>4. /\ q \in Seq(Guard)
      /\ \A k \in DOMAIN q :
             \/ k \in 1..(i - 1) /\ q[k] = queue[l][k]
             \/ k \in i..(Len(queue[l]) - 1) /\ q[k] = queue[l][k + 1]
  BY <1>3, Removed
<1>5. queue' \in [LockNames -> Seq(Guard)] /\ queue'[l] = q /\ \A m \in LockNames \ {l} : queue'[m] = queue[m]
  BY <1>2, <1>4 DEF LocksIInv, LocksTypeOK
<1> HIDE DEF q
\* The entry an entry of the new queues was before.
<1> DEFINE Was(m, k) == IF m = l /\ k >= i THEN k + 1 ELSE k
<1>6. \A m \in LockNames : \A k \in DOMAIN queue'[m] :
          /\ k \in Nat /\ Was(m, k) \in DOMAIN queue[m] /\ queue'[m][k] = queue[m][Was(m, k)]
          /\ ~(m = l /\ Was(m, k) = i)
  <2> TAKE m \in LockNames
  <2>1. CASE m = l
    BY <2>1, <1>3, <1>4, <1>5
  <2>2. CASE m # l
    BY <2>2, <1>5 DEF LocksIInv, LocksTypeOK
  <2> QED
    BY <2>1, <2>2
<1>7. \A m \in LockNames : \A k \in DOMAIN queue'[m] : InLine(m, queue'[m][k]) /\ queue'[m][k].client # c
  <2> TAKE m \in LockNames
  <2> TAKE k \in DOMAIN queue'[m]
  <2>1. InLine(m, queue'[m][k])
    BY <1>6 DEF LocksIInv, Queued
  <2>2. InLine(l, queue[l][i])
    BY DEF LocksIInv, Queued
  <2>3. CASE queue'[m][k].client = c
    <3>1. m = l
      BY <2>1, <2>2, <2>3, <1>2 DEF InLine
    <3>2. Was(l, k) \in DOMAIN queue[l] /\ queue[l][Was(l, k)].client = queue[l][i].client
      BY <2>3, <3>1, <1>2, <1>6
    <3>3. Was(l, k) = i
      <4> HIDE DEF Was
      <4> QED
        BY <3>2 DEF LocksIInv, Once
    <3> QED
      BY <3>1, <3>3, <1>6
  <2> QED
    BY <2>1, <2>3
<1>8. /\ handler' \in [Clients -> Served \union {Nobody}]
      /\ pc' \in [Clients -> 1..16] /\ held' \in [LockNames -> SUBSET Guard]
      /\ Owned' /\ Holding' /\ Exclusive'
  BY <1>1, Left
<1>9. Queued'
  <2>1. \A m \in LockNames : \A k \in DOMAIN queue'[m] : queue'[m][k].client \in Clients
    <3> TAKE m \in LockNames
    <3> TAKE k \in DOMAIN queue'[m]
    <3>1. queue'[m] \in Seq(Guard)
      BY <1>5
    <3>2. queue'[m][k] \in Guard
      BY <3>1
    <3> QED
      BY <3>2 DEF Guard
  <2>2. \A d \in Clients \ {c} : pc'[d] = pc[d] /\ handler'[d] = handler[d]
    BY <1>1 DEF Leave, LocksIInv, LocksTypeOK
  <2>3. \A m \in LockNames : \A x : InLine(m, x) /\ x.client \in Clients \ {c} => InLine(m, x)'
    BY <2>2 DEF InLine, Running, AtEnd, Op
  <2> QED
    BY <1>7, <2>1, <2>3 DEF Queued
<1>10. Once'
  <2> SUFFICES ASSUME NEW m \in LockNames, NEW j \in DOMAIN queue'[m], NEW k \in DOMAIN queue'[m],
                      queue'[m][j].client = queue'[m][k].client
               PROVE  j = k
    BY DEF Once
  <2>1. Was(m, j) = Was(m, k)
    BY <1>6 DEF LocksIInv, Once
  <2> QED
    BY <2>1, <1>3, <1>6
<1> QED
  BY <1>5, <1>8, <1>9, <1>10 DEF LocksIInv, LocksTypeOK

LEMMA InitLocksIInv == LocksInit => LocksIInv
<1> SUFFICES ASSUME LocksInit PROVE LocksIInv
  OBVIOUS
<1>1. LocksTypeOK
  BY DEF LocksInit, LocksTypeOK
<1>2. Owned /\ Exclusive
  BY DEF LocksInit, Owned, Exclusive
<1>3. Holding
  BY DEF LocksInit, Holding, Running
<1>4. Queued /\ Once
  BY DEF LocksInit, Queued, Once
<1> QED
  BY <1>1, <1>2, <1>3, <1>4 DEF LocksIInv

LEMMA NextLocksIInv ==
    ASSUME "session_action" \notin Served
    PROVE  LocksIInv /\ [LocksNext]_locks => LocksIInv'
<1> SUFFICES ASSUME LocksIInv, [LocksNext]_locks PROVE LocksIInv'
  OBVIOUS
<1>1. ASSUME NEW c \in Clients, NEW h \in Served, Arrive(c, h) PROVE LocksIInv'
  BY <1>1, ArriveIInv
<1>2. ASSUME NEW c \in Clients, Take(c) PROVE LocksIInv'
  BY <1>2, TakeIInv
<1>3. ASSUME NEW c \in Clients, TryLock(c) PROVE LocksIInv'
  BY <1>3, TryLockIInv
<1>4. ASSUME NEW c \in Clients, Release(c) PROVE LocksIInv'
  BY <1>4, ReleaseIInv
<1>5. ASSUME NEW c \in Clients, Finish(c) PROVE LocksIInv'
  BY <1>5, FinishIInv
<1>6. ASSUME NEW c \in Clients, Disconnect(c) PROVE LocksIInv'
  BY <1>6, DisconnectIInv
<1>7. ASSUME NEW l \in LockNames, Grant(l) PROVE LocksIInv'
  BY <1>7, GrantIInv
<1>8. CASE UNCHANGED locks
  <2>1. handler' = handler /\ pc' = pc /\ held' = held /\ queue' = queue
    BY <1>8 DEF locks
  <2>2. LocksTypeOK' /\ Once' /\ Exclusive'
    BY <2>1 DEF LocksIInv, LocksTypeOK, Once, Exclusive, Conflict
  <2>3. Owned' /\ Holding'
    BY <2>1 DEF LocksIInv, Owned, Holding, Running
  <2>4. Queued'
    BY <2>1 DEF LocksIInv, Queued, InLine, Running, AtEnd, Op
  <2> QED
    BY <2>2, <2>3, <2>4 DEF LocksIInv
<1> QED
  BY <1>1, <1>2, <1>3, <1>4, <1>5, <1>6, <1>7, <1>8 DEF LocksNext

-----------------------------------------------------------------------------
\* A set of positive numbers has a least one.
LEMMA Least ==
    ASSUME NEW T \in SUBSET (Nat \ {0}), T # {}
    PROVE  \E x \in T : \A y \in T : x <= y
<1> DEFINE Below == {1..n : n \in T}
<1>1. Below \subseteq FiniteSubsetsOf(Nat) /\ Below # {}
  <2>1. \A n \in Nat : IsFiniteSet(1..n)
    BY FS_Interval
  <2>2. \A n \in T : 1..n \in SUBSET Nat
    OBVIOUS
  <2>3. \A n \in T : 1..n \in FiniteSubsetsOf(Nat)
    BY <2>1, <2>2 DEF FiniteSubsetsOf
  <2> QED
    BY <2>3
<1>2. PICK b \in Below : \A y \in Below : ~(<<y, b>> \in StrictSubsetOrdering(Nat))
  <2> HIDE DEF Below
  <2> QED
    BY <1>1, FS_StrictSubsetOrderingWellFounded, WFMin
<1>3. PICK x \in T : b = 1..x
  BY <1>2
<1>4. ASSUME NEW y \in T, y < x PROVE FALSE
  <2>1. 1..y \subseteq 1..x /\ 1..y # 1..x
    <3>1. x \in 1..x /\ x \notin 1..y
      BY <1>4
    <3> QED
      BY <3>1, <1>4
  <2>2. <<1..y, 1..x>> \in StrictSubsetOrdering(Nat)
    BY <2>1 DEF StrictSubsetOrdering
  <2> QED
    BY <2>2, <1>2, <1>3
<1> QED
  BY <1>4

\* A lock for which one of a set of clients waits and which another holds.
Contended(some, l) ==
    \E k \in DOMAIN queue[l] : \E g \in held[l] :
        queue[l][k].client \in some /\ g.client \in some /\ Conflict(g, queue[l][k])

\* Each client of the set is kept waiting by one of the set.
KeptWaiting(some) == \A c \in some : \E l \in LockNames : KeptBy(c, l) \intersect some # {}

\* Of a stuck set, the one furthest ahead in its queue is kept from the lock by
\* a guard, not by the queue.
LEMMA Front ==
    ASSUME LocksIInv, NEW some \in SUBSET Clients, KeptWaiting(some),
           NEW c \in some, NEW l \in LockNames, KeptBy(c, l) # {}
    PROVE  Contended(some, l)
<1> DEFINE T == {k \in DOMAIN queue[l] : queue[l][k].client \in some}
<1>1. queue[l] \in Seq(Guard) /\ \A m \in LockNames : queue[m] \in Seq(Guard)
  BY DEF LocksIInv, LocksTypeOK
<1>2. T \in SUBSET (Nat \ {0})
  BY <1>1
<1>3. T # {}
  BY DEF KeptBy
<1>4. PICK k \in T : \A j \in T : k <= j
  <2> HIDE DEF T
  <2> QED
    BY <1>2, <1>3, Least
<1> DEFINE b == queue[l][k].client
<1>5. PICK m \in LockNames : KeptBy(b, m) \intersect some # {}
  BY <1>4 DEF KeptWaiting
<1>6. PICK d \in some : d \in KeptBy(b, m)
  BY <1>5
<1>7. PICK i \in DOMAIN queue[m] :
          /\ queue[m][i].client = b
          /\ d \in {g.client : g \in {h \in held[m] : Conflict(h, queue[m][i])}}
                     \union {queue[m][j].client : j \in 1..(i - 1)}
  BY <1>6 DEF KeptBy
<1>8. m = l /\ i = k
  <2>1. InLine(m, queue[m][i]) /\ InLine(l, queue[l][k])
    BY <1>4 DEF LocksIInv, Queued
  <2>2. m = l
    BY <2>1, <1>7 DEF InLine
  <2> QED
    BY <2>2, <1>4, <1>7 DEF LocksIInv, Once
<1>9. ASSUME NEW j \in 1..(k - 1), queue[l][j].client = d PROVE FALSE
  <2>1. k \in 1..Len(queue[l]) /\ DOMAIN queue[l] = 1..Len(queue[l]) /\ Len(queue[l]) \in Nat
    BY <1>1, <1>4
  <2>2. j \in DOMAIN queue[l] /\ ~(k <= j)
    BY <2>1
  <2> QED
    BY <2>2, <1>4, <1>9
<1>10. PICK g \in held[l] : g.client = d /\ Conflict(g, queue[l][k])
  BY <1>7, <1>8, <1>9
<1> QED
  BY <1>4, <1>6, <1>10 DEF Contended

\* The holder waits in its turn, for a lock further up or across.
LEMMA Holder ==
    ASSUME "session_action" \notin Served, LocksIInv,
           NEW some \in SUBSET Clients, KeptWaiting(some), NEW l \in LockNames, Contended(some, l)
    PROVE  \E e \in some : \E m \in LockNames :
               /\ Contended(some, m) /\ Running(e) /\ Op(e).lock = m /\ pc[e] \in 1..15
               /\ Rank[l] < Rank[m] \/ Crosses(handler[e], l, pc[e])
<1>1. PICK k \in DOMAIN queue[l] : \E g \in held[l] :
          queue[l][k].client \in some /\ g.client \in some /\ Conflict(g, queue[l][k])
  BY DEF Contended
<1>2. PICK g \in held[l] : g.client \in some
  BY <1>1
<1> DEFINE e == g.client
<1>3. PICK m \in LockNames : KeptBy(e, m) \intersect some # {}
  BY <1>2 DEF KeptWaiting
<1>4. PICK i \in DOMAIN queue[m] : queue[m][i].client = e
  BY <1>3 DEF KeptBy
<1>5. InLine(m, queue[m][i])
  BY DEF LocksIInv, Queued
<1>6. Running(e) /\ ~AtEnd(e) /\ Op(e).do = "take" /\ Op(e).lock = m
  BY <1>4, <1>5 DEF InLine
<1>7. Contended(some, m)
  BY <1>2, <1>3, Front
<1>8. Sound(handler[e]) /\ pc[e] \in Steps(handler[e]) /\ pc[e] \in 1..15
  BY <1>2, <1>6, RunsSound, InRange DEF LocksIInv
<1>9. Keeps(handler[e], g.at, l, pc[e])
  BY DEF LocksIInv, Owned
<1>10. Ascends(handler[e], g.at, l, pc[e])
  BY <1>6, <1>8, <1>9 DEF Sound, Keeps, Takes, Op
<1> QED
  BY <1>2, <1>6, <1>7, <1>8, <1>10 DEF Ascends, Op

\* Two handlers that cross cannot both hold the model server's handle.
LEMMA Alone ==
    ASSUME "session_action" \notin Served, LocksIInv, NEW d \in Clients, NEW e \in Clients,
           Running(d), Running(e), pc[d] \in 1..15, pc[e] \in 1..15,
           NEW l \in LockNames, NEW m \in LockNames,
           Crosses(handler[d], l, pc[d]), Crosses(handler[e], m, pc[e])
    PROVE  d = e
<1> DEFINE G(c) == [client |-> c, at |-> 1, mode |-> "write"]
<1>1. ASSUME NEW c \in Clients, Running(c), NEW n \in LockNames, Crosses(handler[c], n, pc[c])
      PROVE  G(c) \in held["llama"]
  <2>1. Keeps(handler[c], 1, "llama", pc[c]) /\ Program[handler[c]][1].mode = "write"
    BY <1>1 DEF Crosses, Write
  <2>2. "llama" \in LockNames /\ 1 \in 1..16
    BY DEF LockNames
  <2>3. [client |-> c, at |-> 1, mode |-> Program[handler[c]][1].mode] \in held["llama"]
    BY <1>1, <2>1, <2>2 DEF LocksIInv, Holding
  <2> QED
    BY <2>1, <2>3
<1>2. G(d) = G(e)
  BY <1>1 DEF LocksIInv, Exclusive, Conflict, LockNames
<1> QED
  BY <1>2

LEMMA NobodyStuck ==
    ASSUME "session_action" \notin Served, LocksIInv, NEW some \in SUBSET Clients, KeptWaiting(some)
    PROVE  some = {}
<1>1. ~Contended(some, "inference") /\ ~Contended(some, "models")
  <2>1. ASSUME NEW l \in {"inference", "models"}, Contended(some, l)
        PROVE  \E e \in some : /\ Running(e) /\ pc[e] \in 1..15 /\ Crosses(handler[e], l, pc[e])
                               /\ Contended(some, Op(e).lock) /\ Op(e).lock \in {"inference", "models"}
    <3>1. PICK e \in some : \E m \in LockNames :
               /\ Contended(some, m) /\ Running(e) /\ Op(e).lock = m /\ pc[e] \in 1..15
               /\ Rank[l] < Rank[m] \/ Crosses(handler[e], l, pc[e])
      BY <2>1, Holder DEF LockNames
    <3>2. \A m \in LockNames : ~(Rank[l] < Rank[m])
      BY DEF Rank, LockNames
    <3> QED
      BY <3>1, <3>2 DEF Crosses, Op
  <2>2. ASSUME NEW l \in {"inference", "models"}, Contended(some, l)
        PROVE  FALSE
    <3>1. PICK d \in some :
              /\ Running(d) /\ pc[d] \in 1..15 /\ Crosses(handler[d], l, pc[d])
              /\ Contended(some, Op(d).lock) /\ Op(d).lock \in {"inference", "models"}
      BY <2>1, <2>2
    <3>2. PICK e \in some :
              Running(e) /\ pc[e] \in 1..15 /\ Crosses(handler[e], Op(d).lock, pc[e])
      BY <2>1, <3>1
    <3>3. d = e
      BY <3>1, <3>2, Alone DEF LockNames
    <3> QED
      BY <3>1, <3>2, <3>3 DEF Crosses, Op
  <2> QED
    BY <2>2
<1>2. ASSUME NEW l \in LockNames, Contended(some, l)
      PROVE  \E m \in LockNames : Contended(some, m) /\ Rank[l] < Rank[m]
  <2>1. PICK e \in some : \E m \in LockNames :
             /\ Contended(some, m)
             /\ Rank[l] < Rank[m] \/ Crosses(handler[e], l, pc[e])
    BY <1>2, Holder
  <2>2. ~Crosses(handler[e], l, pc[e])
    BY <1>1, <1>2 DEF Crosses
  <2> QED
    BY <2>1, <2>2
<1>3. \A l \in {"agents", "llama"} : ~Contended(some, l)
  BY <1>1, <1>2 DEF LockNames, Rank
<1>4. ~Contended(some, "storage")
  BY <1>1, <1>2, <1>3 DEF LockNames, Rank
<1>5. \A l \in {"generations", "permissions"} : ~Contended(some, l)
  BY <1>1, <1>2, <1>3, <1>4 DEF LockNames, Rank
<1>6. \A l \in {"runtime_update", "settings_update"} : ~Contended(some, l)
  BY <1>1, <1>2, <1>3, <1>4, <1>5 DEF LockNames, Rank
<1>7. \A l \in LockNames : ~Contended(some, l)
  BY <1>1, <1>3, <1>4, <1>5, <1>6 DEF LockNames
<1>8. ASSUME NEW c \in some PROVE FALSE
  <2>1. PICK l \in LockNames : KeptBy(c, l) \intersect some # {}
    BY DEF KeptWaiting
  <2> QED
    BY <2>1, <1>7, Front
<1> QED
  BY <1>8

THEOREM LocksInductive ==
    ASSUME "session_action" \notin Served
    PROVE  LocksSpec => []LocksIInv
BY InitLocksIInv, NextLocksIInv, PTL DEF LocksSpec

THEOREM LocksNoDeadlock ==
    ASSUME "session_action" \notin Served
    PROVE  LocksSpec => []NoDeadlock
<1>1. LocksIInv => NoDeadlock
  BY NobodyStuck DEF NoDeadlock, KeptWaiting
<1> QED
  BY <1>1, LocksInductive, PTL

-----------------------------------------------------------------------------
(* The evidence a run must have before it may end as done.                   *)

VARIABLE work        \* a run of Evidence

Evid == INSTANCE Evidence

\* A run of an agent on any of these workspaces, call by call.
EvidenceBegins ==
    \E there \in SUBSET Evid!Files, links, wants, question \in BOOLEAN :
        work = Evid!New(there, links, wants, question)
EvidenceStep == work.end = "no" /\ work' \in Evid!Act(work) \union Evid!Next(work)
EvidenceSpec == EvidenceBegins /\ [][EvidenceStep]_work

Marks == Evid!Files \union Evid!Folders \union {"page links"}
HostNotes ==
    [uninspected : SUBSET Evid!Files, unobserved : SUBSET Evid!Folders, pages : SUBSET Evid!Files,
     made : BOOLEAN, created : SUBSET Evid!Folders]
AgentRuns ==
    [there : SUBSET Evid!Files, hasSite : BOOLEAN, links : BOOLEAN,
     unseen : SUBSET Evid!Files, unlooked : SUBSET Evid!Folders, changed : SUBSET Evid!Files,
     behind : SUBSET Marks, running : SUBSET Evid!Folders,
     wants : BOOLEAN, question : BOOLEAN, host : HostNotes,
     reason : {"none", "empty", "links", "document", "look", "finding"} \X SUBSET Marks,
     actions : Nat, repeated : Nat, despite : Nat, reviews : Nat,
     end : {"no", "done", "noted", "failed"}]

\* The host has noted all that is unconfirmed, but what changed behind its back.
Noted(r) ==
    /\ r.unseen \subseteq r.host.uninspected \union r.behind
    /\ r.unlooked \subseteq r.host.unobserved \union r.behind
    /\ "page" \in r.changed => "page" \in r.host.pages \/ "page links" \in r.behind

EvInv(r) == r \in AgentRuns /\ Noted(r) /\ Evid!ClaimIsBacked(r)

\* A step of the work: of the claim it says nothing.
Worked(r, t) == t \in AgentRuns /\ Noted(t) /\ t.end = r.end

LEMMA FilesAndFolders ==
    /\ Evid!Files = {"page", "style", "notes"} /\ Evid!Folders = {"root", "site"}
    /\ \A f \in Evid!Files : Evid!FolderOf(f) \in Evid!Folders
    /\ \A d \in Evid!Folders : Evid!Below(d) \subseteq Evid!Folders /\ Evid!FilesBelow(d) \subseteq Evid!Files
    /\ "page links" \notin Evid!Files /\ "page links" \notin Evid!Folders
    /\ \A f \in Evid!Files, d \in Evid!Folders : f # d
BY DEF Evid!Files, Evid!Folders, Evid!FolderOf, Evid!Below, Evid!FilesBelow

\* What a change of a file leaves of a run.
LEMMA ChangedFields ==
    ASSUME NEW r \in AgentRuns, NEW f \in Evid!Files, NEW confirmed \in BOOLEAN
    PROVE  LET t == Evid!Changed(r, f, confirmed)
           IN /\ t \in AgentRuns /\ t.host = r.host /\ t.end = r.end /\ t.unlooked = r.unlooked
              /\ t.unseen \subseteq r.unseen \union {f} /\ (confirmed => f \notin t.unseen)
              /\ t.behind = r.behind \ {f} /\ t.changed = r.changed \union {f}
<1> DEFINE there == r.there \union {f}
           site == r.hasSite \/ Evid!FolderOf(f) = "site"
           unseen == IF confirmed THEN r.unseen \ {f} ELSE r.unseen \union {f}
           behind == r.behind \ {f}
           changed == r.changed \union {f}
<1>1. Evid!Changed(r, f, confirmed) =
        [r EXCEPT !.there = there, !.hasSite = site, !.unseen = unseen, !.behind = behind, !.changed = changed]
  BY DEF Evid!Changed, AgentRuns
<1>2. /\ there \in SUBSET Evid!Files /\ site \in BOOLEAN /\ unseen \in SUBSET Evid!Files
      /\ behind \in SUBSET Marks /\ changed \in SUBSET Evid!Files
  BY DEF AgentRuns
<1>3. unseen \subseteq r.unseen \union {f} /\ (confirmed => f \notin unseen)
  OBVIOUS
<1> HIDE DEF there, site, unseen, behind, changed
<1> DEFINE t == Evid!Changed(r, f, confirmed)
<1>4. t \in AgentRuns /\ t.host = r.host /\ t.end = r.end /\ t.unlooked = r.unlooked
      /\ t.unseen = unseen /\ t.behind = behind /\ t.changed = changed
  BY <1>1, <1>2, ZenonT(60) DEF AgentRuns
<1> QED BY <1>3, <1>4 DEF behind, changed

LEMMA LinksFields ==
    ASSUME NEW r \in AgentRuns, NEW f \in Evid!Files, NEW linked \in BOOLEAN
    PROVE  LET t == Evid!Links(r, f, linked)
           IN /\ t \in AgentRuns /\ t.host = r.host /\ t.end = r.end /\ t.unlooked = r.unlooked
              /\ t.unseen = r.unseen /\ t.behind = r.behind /\ t.changed = r.changed
BY DEF Evid!Links, AgentRuns

\* The host's notes of a run become these.
WithHost(r, h) == [r EXCEPT !.host = h]

LEMMA HostFields ==
    ASSUME NEW r \in AgentRuns, NEW h \in HostNotes
    PROVE  LET t == WithHost(r, h)
           IN /\ t \in AgentRuns /\ t.host = h /\ t.end = r.end /\ t.unlooked = r.unlooked
              /\ t.unseen = r.unseen /\ t.behind = r.behind /\ t.changed = r.changed
BY DEF AgentRuns, WithHost

LEMMA NoteFields ==
    ASSUME NEW r \in AgentRuns, NEW f \in Evid!Files
    PROVE  LET t == Evid!Note(r, f)
           IN /\ t \in AgentRuns /\ t.end = r.end /\ t.unlooked = r.unlooked
              /\ t.unseen = r.unseen /\ t.behind = r.behind /\ t.changed = r.changed
              /\ t.host.uninspected = r.host.uninspected /\ t.host.unobserved = r.host.unobserved
              /\ r.host.pages \subseteq t.host.pages /\ (f = "page" => f \in t.host.pages)
<1> DEFINE pages == IF f = "page" THEN r.host.pages \union {f} ELSE r.host.pages
           made == r.host.made \/ (r.wants /\ f = "notes")
           h == [r.host EXCEPT !.pages = pages, !.made = made]
<1>1. r.host \in HostNotes
  BY DEF AgentRuns
<1>2. pages \in SUBSET Evid!Files /\ made \in BOOLEAN
  BY <1>1 DEF HostNotes, AgentRuns
<1>3. Evid!Note(r, f) = WithHost(r, h)
  <2> HIDE DEF pages, made
  <2>1. Evid!Note(r, f) = [r EXCEPT !.host.pages = pages, !.host.made = made]
    BY DEF Evid!Note, AgentRuns, HostNotes, pages, made
  <2> QED BY <1>1, <2>1 DEF AgentRuns, HostNotes, WithHost
<1>4. r.host.pages \subseteq pages /\ (f = "page" => f \in pages)
  OBVIOUS
<1> HIDE DEF pages, made
<1>5. /\ h \in HostNotes /\ h.uninspected = r.host.uninspected /\ h.unobserved = r.host.unobserved
      /\ h.pages = pages
  BY <1>1, <1>2 DEF HostNotes
<1> HIDE DEF h
<1>6. LET t == WithHost(r, h)
      IN /\ t \in AgentRuns /\ t.host = h /\ t.end = r.end /\ t.unlooked = r.unlooked
         /\ t.unseen = r.unseen /\ t.behind = r.behind /\ t.changed = r.changed
  BY <1>5, HostFields
<1> QED BY <1>3, <1>4, <1>5, <1>6

\* The notes of what is to be looked at become these.
WithNotes(r, u, o) == [r EXCEPT !.host.uninspected = u, !.host.unobserved = o]

LEMMA NotesFields ==
    ASSUME NEW r \in AgentRuns, NEW u \in SUBSET Evid!Files, NEW o \in SUBSET Evid!Folders
    PROVE  LET t == WithNotes(r, u, o)
           IN /\ t \in AgentRuns /\ t.end = r.end /\ t.unlooked = r.unlooked
              /\ t.unseen = r.unseen /\ t.behind = r.behind /\ t.changed = r.changed
              /\ t.host.uninspected = u /\ t.host.unobserved = o /\ t.host.pages = r.host.pages
<1> DEFINE h == [r.host EXCEPT !.uninspected = u, !.unobserved = o]
<1>1. r.host \in HostNotes
  BY DEF AgentRuns
<1>2. h \in HostNotes /\ h.uninspected = u /\ h.unobserved = o /\ h.pages = r.host.pages
  BY <1>1 DEF HostNotes
<1>3. WithNotes(r, u, o) = WithHost(r, h)
  BY <1>1 DEF AgentRuns, HostNotes, WithHost, WithNotes
<1> HIDE DEF h
<1>4. LET t == WithHost(r, h)
      IN /\ t \in AgentRuns /\ t.host = h /\ t.end = r.end /\ t.unlooked = r.unlooked
         /\ t.unseen = r.unseen /\ t.behind = r.behind /\ t.changed = r.changed
  BY <1>2, HostFields
<1> QED BY <1>2, <1>3, <1>4

\* What was written and noted.
Written(r, f, confirmed, linked) == Evid!Note(Evid!Links(Evid!Changed(r, f, confirmed), f, linked), f)

LEMMA WrittenFields ==
    ASSUME NEW r \in AgentRuns, NEW f \in Evid!Files, NEW confirmed \in BOOLEAN, NEW linked \in BOOLEAN
    PROVE  LET t == Written(r, f, confirmed, linked)
           IN /\ t \in AgentRuns /\ t.end = r.end /\ t.unlooked = r.unlooked
              /\ t.unseen \subseteq r.unseen \union {f} /\ (confirmed => f \notin t.unseen)
              /\ t.behind = r.behind \ {f} /\ t.changed = r.changed \union {f}
              /\ t.host.uninspected = r.host.uninspected /\ t.host.unobserved = r.host.unobserved
              /\ r.host.pages \subseteq t.host.pages /\ (f = "page" => f \in t.host.pages)
<1> DEFINE a == Evid!Changed(r, f, confirmed)
           b == Evid!Links(a, f, linked)
           c == Evid!Note(b, f)
<1>1. /\ a \in AgentRuns /\ a.host = r.host /\ a.end = r.end /\ a.unlooked = r.unlooked
      /\ a.unseen \subseteq r.unseen \union {f} /\ (confirmed => f \notin a.unseen)
      /\ a.behind = r.behind \ {f} /\ a.changed = r.changed \union {f}
  BY ChangedFields
<1> HIDE DEF a
<1>2. /\ b \in AgentRuns /\ b.host = a.host /\ b.end = a.end /\ b.unlooked = a.unlooked
      /\ b.unseen = a.unseen /\ b.behind = a.behind /\ b.changed = a.changed
  BY <1>1, LinksFields
<1> HIDE DEF b
<1>3. /\ c \in AgentRuns /\ c.end = b.end /\ c.unlooked = b.unlooked
      /\ c.unseen = b.unseen /\ c.behind = b.behind /\ c.changed = b.changed
      /\ c.host.uninspected = b.host.uninspected /\ c.host.unobserved = b.host.unobserved
      /\ b.host.pages \subseteq c.host.pages /\ (f = "page" => f \in c.host.pages)
  BY <1>2, NoteFields
<1>4. Written(r, f, confirmed, linked) = c
  BY DEF Written, a, b
<1> HIDE DEF c
<1> QED BY <1>1, <1>2, <1>3, <1>4

\* The file tools.
LEMMA FileCallsNoted ==
    ASSUME NEW r \in AgentRuns, Noted(r), NEW t \in Evid!FileCalls(r)
    PROVE  Worked(r, t)
<1>1. /\ r.there \subseteq Evid!Files /\ r.host \in HostNotes
      /\ r.host.uninspected \subseteq Evid!Files /\ "page links" \notin Evid!Files
  BY FilesAndFolders DEF AgentRuns, HostNotes
<1>2. ASSUME NEW f \in Evid!Files, NEW linked \in BOOLEAN
      PROVE  Worked(r, Evid!Write(r, f, linked))
  <2>0. PICK c \in BOOLEAN : c = TRUE
    OBVIOUS
  <2> DEFINE b == Written(r, f, c, linked)
  <2>1. /\ b \in AgentRuns /\ b.end = r.end /\ b.unlooked = r.unlooked
        /\ b.unseen \subseteq r.unseen \union {f} /\ (c => f \notin b.unseen)
        /\ b.behind = r.behind \ {f} /\ b.changed = r.changed \union {f}
        /\ b.host.uninspected = r.host.uninspected /\ b.host.unobserved = r.host.unobserved
        /\ r.host.pages \subseteq b.host.pages /\ (f = "page" => f \in b.host.pages)
    BY WrittenFields
  <2>2. Evid!Write(r, f, linked) = WithNotes(b, b.host.uninspected \ {f}, b.host.unobserved)
    <3>1. b.host \in HostNotes
      BY <2>1 DEF AgentRuns
    <3> HIDE DEF b
    <3>2. Evid!Write(r, f, linked) = [b EXCEPT !.host.uninspected = @ \ {f}]
      BY <2>0 DEF Evid!Write, b, Written
    <3> QED BY <2>1, <3>1, <3>2 DEF WithNotes, AgentRuns, HostNotes
  <2> HIDE DEF b
  <2>9. b.host.uninspected \ {f} \in SUBSET Evid!Files /\ b.host.unobserved \in SUBSET Evid!Folders
    BY <1>1, <2>1 DEF HostNotes
  <2> DEFINE t2 == WithNotes(b, b.host.uninspected \ {f}, b.host.unobserved)
  <2>3. /\ t2 \in AgentRuns /\ t2.end = b.end /\ t2.unlooked = b.unlooked
        /\ t2.unseen = b.unseen /\ t2.behind = b.behind /\ t2.changed = b.changed
        /\ t2.host.uninspected = b.host.uninspected \ {f} /\ t2.host.unobserved = b.host.unobserved
        /\ t2.host.pages = b.host.pages
    BY <2>1, <2>9, NotesFields
  <2> HIDE DEF t2
  <2>4. f # "page links" /\ \A d \in Evid!Folders : d # f
    BY FilesAndFolders
  <2>5. Noted(t2)
    <3>0. f \notin b.unseen
      BY <2>0, <2>1
    <3>1. r.unlooked \subseteq Evid!Folders
      BY DEF AgentRuns
    <3> QED BY <1>1, <2>1, <2>3, <2>4, <3>0, <3>1 DEF Noted
  <2> QED BY <2>1, <2>2, <2>3, <2>5 DEF Worked, t2
<1>3. ASSUME NEW f \in Evid!Files
      PROVE  Worked(r, Evid!HalfWrite(r, f))
  <2> DEFINE b == Evid!Changed(r, f, FALSE)
             t1 == [b EXCEPT !.behind = b.behind \union {f}, !.changed = r.changed]
  <2>1. /\ b \in AgentRuns /\ b.host = r.host /\ b.end = r.end /\ b.unlooked = r.unlooked
        /\ b.unseen \subseteq r.unseen \union {f}
        /\ b.behind = r.behind \ {f} /\ b.changed = r.changed \union {f}
    BY ChangedFields
  <2>2. Evid!HalfWrite(r, f) = t1
    <3> HIDE DEF b
    <3>1. Evid!HalfWrite(r, f) = [b EXCEPT !.behind = @ \union {f}, !.changed = r.changed]
      BY DEF Evid!HalfWrite, b
    <3> QED BY <2>1, <3>1 DEF AgentRuns
  <2> HIDE DEF b
  <2>3. b.behind \union {f} \in SUBSET Marks /\ r.changed \in SUBSET Evid!Files
    BY <2>1 DEF AgentRuns, Marks
  <2>4. /\ t1 \in AgentRuns /\ t1.host = b.host /\ t1.end = b.end /\ t1.unlooked = b.unlooked
        /\ t1.unseen = b.unseen /\ t1.behind = b.behind \union {f} /\ t1.changed = r.changed
    BY <2>1, <2>3 DEF AgentRuns
  <2> HIDE DEF t1
  <2>5. Noted(t1)
    BY <2>1, <2>4 DEF Noted
  <2> QED BY <2>1, <2>2, <2>4, <2>5 DEF Worked
<1>4. ASSUME NEW f \in Evid!Files, NEW linked \in BOOLEAN
      PROVE  Worked(r, Evid!Edit(r, f, linked))
  <2>0. PICK c \in BOOLEAN : c = FALSE
    OBVIOUS
  <2> DEFINE b == Written(r, f, c, linked)
             t1 == WithNotes(b, b.host.uninspected \union {f}, b.host.unobserved)
  <2>1. /\ b \in AgentRuns /\ b.end = r.end /\ b.unlooked = r.unlooked
        /\ b.unseen \subseteq r.unseen \union {f}
        /\ b.behind = r.behind \ {f} /\ b.changed = r.changed \union {f}
        /\ b.host.uninspected = r.host.uninspected /\ b.host.unobserved = r.host.unobserved
        /\ r.host.pages \subseteq b.host.pages /\ (f = "page" => f \in b.host.pages)
    BY <2>0, WrittenFields
  <2>2. Evid!Edit(r, f, linked) = t1
    <3>1. b.host \in HostNotes
      BY <2>1 DEF AgentRuns
    <3> HIDE DEF b
    <3>2. Evid!Edit(r, f, linked) = [b EXCEPT !.host.uninspected = @ \union {f}]
      BY <2>0 DEF Evid!Edit, b, Written
    <3> QED BY <2>1, <3>1, <3>2 DEF WithNotes, AgentRuns, HostNotes
  <2> HIDE DEF b
  <2>9. b.host.uninspected \union {f} \in SUBSET Evid!Files /\ b.host.unobserved \in SUBSET Evid!Folders
    BY <1>1, <2>1 DEF HostNotes
  <2>3. /\ t1 \in AgentRuns /\ t1.end = b.end /\ t1.unlooked = b.unlooked
        /\ t1.unseen = b.unseen /\ t1.behind = b.behind /\ t1.changed = b.changed
        /\ t1.host.uninspected = b.host.uninspected \union {f} /\ t1.host.unobserved = b.host.unobserved
        /\ t1.host.pages = b.host.pages
    BY <2>1, <2>9, NotesFields
  <2> HIDE DEF t1
  <2>4. f # "page links" /\ \A d \in Evid!Folders : d # f
    BY FilesAndFolders
  <2>5. r.unlooked \subseteq Evid!Folders
    BY DEF AgentRuns
  <2>6. Noted(t1)
    BY <2>1, <2>3, <2>4, <2>5 DEF Noted
  <2> QED BY <2>1, <2>2, <2>3, <2>6 DEF Worked
<1>5. ASSUME NEW f \in Evid!Files, NEW linked \in BOOLEAN
      PROVE  Worked(r, Evid!ReplaceLines(r, f, linked))
  <2> DEFINE a == Evid!Changed(r, f, TRUE)
             b == Evid!Links(a, f, linked)
             t1 == [b EXCEPT !.behind = b.behind \union {"page links"}]
  <2>1. /\ a \in AgentRuns /\ a.host = r.host /\ a.end = r.end /\ a.unlooked = r.unlooked
        /\ a.unseen \subseteq r.unseen \union {f} /\ f \notin a.unseen /\ a.behind = r.behind \ {f} /\ a.changed = r.changed \union {f}
    BY ChangedFields
  <2> HIDE DEF a
  <2>2. /\ b \in AgentRuns /\ b.host = a.host /\ b.end = a.end /\ b.unlooked = a.unlooked
        /\ b.unseen = a.unseen /\ b.behind = a.behind /\ b.changed = a.changed
    BY <2>1, LinksFields
  <2>3. Evid!ReplaceLines(r, f, linked) = IF f = "page" /\ f \notin b.host.pages THEN t1 ELSE b
    <3> HIDE DEF b
    <3>1. Evid!ReplaceLines(r, f, linked) =
            IF f = "page" /\ f \notin b.host.pages THEN [b EXCEPT !.behind = @ \union {"page links"}] ELSE b
      BY DEF Evid!ReplaceLines, b, a
    <3> QED BY <2>2, <3>1 DEF AgentRuns
  <2> HIDE DEF b
  <2>4. b.behind \union {"page links"} \in SUBSET Marks
    BY <2>2 DEF AgentRuns, Marks
  <2>5. /\ t1 \in AgentRuns /\ t1.host = b.host /\ t1.end = b.end /\ t1.unlooked = b.unlooked
        /\ t1.unseen = b.unseen /\ t1.behind = b.behind \union {"page links"} /\ t1.changed = b.changed
    BY <2>2, <2>4 DEF AgentRuns
  <2> HIDE DEF t1
  <2>6. f # "page links" /\ \A d \in Evid!Folders : d # f
    BY FilesAndFolders
  <2>7. r.unlooked \subseteq Evid!Folders
    BY DEF AgentRuns
  <2>8. CASE f = "page" /\ f \notin b.host.pages
    BY <2>1, <2>2, <2>3, <2>5, <2>6, <2>7, <2>8, ZenonT(60) DEF Noted, Worked
  <2>9. CASE f # "page" \/ f \in b.host.pages
    BY <2>1, <2>2, <2>3, <2>6, <2>7, <2>9 DEF Noted, Worked
  <2> QED BY <2>8, <2>9
<1>6. ASSUME NEW f \in Evid!Files
      PROVE  Worked(r, Evid!Delete(r, f))
  <2> DEFINE there == r.there \ {f}
             unseen == r.unseen \ {f}
             behind == r.behind \ {f}
             b == [r EXCEPT !.there = there, !.unseen = unseen, !.behind = behind]
             t1 == WithNotes(b, r.host.uninspected \ {f}, r.host.unobserved)
  <2>1. there \in SUBSET Evid!Files /\ unseen \in SUBSET Evid!Files /\ behind \in SUBSET Marks
    BY DEF AgentRuns
  <2>2. Evid!Delete(r, f) = t1
    BY ZenonT(60) DEF Evid!Delete, AgentRuns, HostNotes, WithNotes
  <2> HIDE DEF there, unseen, behind
  <2>3. /\ b \in AgentRuns /\ b.host = r.host /\ b.end = r.end /\ b.unlooked = r.unlooked
        /\ b.unseen = unseen /\ b.behind = behind /\ b.changed = r.changed
    BY <2>1 DEF AgentRuns
  <2> HIDE DEF b
  <2>9. r.host.uninspected \ {f} \in SUBSET Evid!Files /\ r.host.unobserved \in SUBSET Evid!Folders
    BY <1>1 DEF HostNotes
  <2>4. /\ t1 \in AgentRuns /\ t1.end = b.end /\ t1.unlooked = b.unlooked
        /\ t1.unseen = b.unseen /\ t1.behind = b.behind /\ t1.changed = b.changed
        /\ t1.host.uninspected = r.host.uninspected \ {f} /\ t1.host.unobserved = b.host.unobserved
        /\ t1.host.pages = b.host.pages
    BY <2>3, <2>9, NotesFields
  <2> HIDE DEF t1
  <2>5. f # "page links" /\ r.unlooked \subseteq Evid!Folders /\ \A d \in Evid!Folders : d # f
    BY FilesAndFolders DEF AgentRuns
  <2>6. Noted(t1)
    BY <2>3, <2>4, <2>5 DEF Noted, unseen, behind
  <2> QED BY <2>2, <2>3, <2>4, <2>6 DEF Worked
<1>7. CASE t \in {Evid!Write(r, f, linked) : f \in Evid!Files, linked \in BOOLEAN}
  BY <1>2, <1>7
<1>8. CASE t \in {Evid!HalfWrite(r, f) : f \in Evid!Files}
  BY <1>3, <1>8
<1>9. CASE t \in {Evid!Edit(r, f, linked) : f \in r.there, linked \in BOOLEAN}
  <2>1. PICK f \in r.there, linked \in BOOLEAN : t = Evid!Edit(r, f, linked)
    BY <1>9
  <2> QED BY <1>1, <1>4, <2>1
<1>10. CASE t \in {Evid!ReplaceLines(r, f, linked) : f \in r.there, linked \in BOOLEAN}
  <2>1. PICK f \in r.there, linked \in BOOLEAN : t = Evid!ReplaceLines(r, f, linked)
    BY <1>10
  <2> QED BY <1>1, <1>5, <2>1
<1>11. CASE t \in {Evid!Delete(r, f) : f \in r.there}
  BY <1>1, <1>6, <1>11
<1> QED BY <1>7, <1>8, <1>9, <1>10, <1>11 DEF Evid!FileCalls

\* Somebody has looked, or a command ran: what is still to be looked at becomes this.
Looks(r, u, o, b, hu, ho) ==
    [r EXCEPT !.unseen = u, !.unlooked = o, !.behind = b, !.host.uninspected = hu, !.host.unobserved = ho]

LEMMA LooksFields ==
    ASSUME NEW r \in AgentRuns, NEW u \in SUBSET Evid!Files, NEW o \in SUBSET Evid!Folders,
           NEW b \in SUBSET Marks, NEW hu \in SUBSET Evid!Files, NEW ho \in SUBSET Evid!Folders
    PROVE  LET t == Looks(r, u, o, b, hu, ho)
           IN /\ t \in AgentRuns /\ t.end = r.end /\ t.unlooked = o /\ t.unseen = u /\ t.behind = b
              /\ t.changed = r.changed /\ t.running = r.running
              /\ t.host.uninspected = hu /\ t.host.unobserved = ho /\ t.host.pages = r.host.pages
<1> DEFINE h == [r.host EXCEPT !.uninspected = hu, !.unobserved = ho]
           a == [r EXCEPT !.unseen = u, !.unlooked = o, !.behind = b, !.host = h]
<1>1. r.host \in HostNotes
  BY DEF AgentRuns
<1>2. h \in HostNotes /\ h.uninspected = hu /\ h.unobserved = ho /\ h.pages = r.host.pages
  BY <1>1 DEF HostNotes
<1>3. Looks(r, u, o, b, hu, ho) = a
  BY <1>1 DEF AgentRuns, HostNotes, Looks
<1> HIDE DEF h
<1>4. /\ a \in AgentRuns /\ a.end = r.end /\ a.unlooked = o /\ a.unseen = u /\ a.behind = b
      /\ a.changed = r.changed /\ a.running = r.running /\ a.host = h
  BY <1>2 DEF AgentRuns
<1> HIDE DEF a
<1> QED BY <1>2, <1>3, <1>4

\* Only the workspace is another.
Like(r, t) ==
    /\ t \in AgentRuns /\ t.end = r.end /\ t.unlooked = r.unlooked /\ t.unseen = r.unseen
    /\ t.behind = r.behind /\ t.changed = r.changed /\ t.running = r.running /\ t.host = r.host

LEMMA EffectsFields ==
    ASSUME NEW r \in AgentRuns, NEW cwd \in Evid!Folders, NEW t \in Evid!Effects(r, cwd)
    PROVE  Like(r, t)
<1>1. Evid!FilesBelow(cwd) \subseteq Evid!Files
  BY FilesAndFolders
<1>2. ASSUME NEW there \in SUBSET Evid!Files, NEW site \in BOOLEAN,
             t = [r EXCEPT !.there = there, !.hasSite = site]
      PROVE  Like(r, t)
  BY <1>2 DEF AgentRuns, Like
<1>4. CASE t = r
  BY <1>4 DEF Like
<1>3. ASSUME t # r
      PROVE  \E there \in SUBSET Evid!Files, site \in BOOLEAN : t = [r EXCEPT !.there = there, !.hasSite = site]
  <2>2. ASSUME NEW f \in r.there, t = [r EXCEPT !.there = @ \ {f}]
        PROVE  t = [r EXCEPT !.there = r.there \ {f}, !.hasSite = r.hasSite] /\ r.there \ {f} \in SUBSET Evid!Files
    BY <2>2 DEF AgentRuns
  <2>3. ASSUME NEW f \in Evid!FilesBelow(cwd), t = [r EXCEPT !.there = @ \union {f}]
        PROVE  /\ t = [r EXCEPT !.there = r.there \union {f}, !.hasSite = r.hasSite]
               /\ r.there \union {f} \in SUBSET Evid!Files
    BY <1>1, <2>3 DEF AgentRuns
  <2>4. ASSUME t = [r EXCEPT !.there = @ \ {"page", "style"}, !.hasSite = FALSE]
        PROVE  /\ t = [r EXCEPT !.there = r.there \ {"page", "style"}, !.hasSite = FALSE]
               /\ r.there \ {"page", "style"} \in SUBSET Evid!Files
    BY <2>4 DEF AgentRuns
  <2>5. r.hasSite \in BOOLEAN
    BY DEF AgentRuns
  <2>6. CASE t \in {[r EXCEPT !.there = @ \ {f}] : f \in r.there \intersect Evid!FilesBelow(cwd)}
    BY <2>2, <2>5, <2>6
  <2>7. CASE t \in {[r EXCEPT !.there = @ \union {f}] :
                        f \in {f \in Evid!FilesBelow(cwd) : Evid!Exists(r, Evid!FolderOf(f))}}
    BY <2>3, <2>5, <2>7
  <2>8. CASE t = [r EXCEPT !.there = @ \ {"page", "style"}, !.hasSite = FALSE]
    BY <2>4, <2>8
  <2> QED BY <1>3, <2>6, <2>7, <2>8 DEF Evid!Effects
<1> QED BY <1>2, <1>3, <1>4

\* A command whose effects the host can only guess.
LEMMA ScriptedFields ==
    ASSUME NEW r \in AgentRuns, NEW cwd \in Evid!Folders
    PROVE  LET t == Evid!Scripted(r, cwd)
           IN /\ t \in AgentRuns /\ t.end = r.end /\ t.unlooked = r.unlooked \union {cwd}
              /\ t.unseen = r.unseen /\ t.behind = r.behind
              /\ t.changed = r.changed /\ t.running = r.running
              /\ t.host.uninspected = r.host.uninspected
              /\ t.host.unobserved = r.host.unobserved \union {cwd} /\ t.host.pages = r.host.pages
<1> DEFINE o == r.unlooked \union {cwd}
           ho == r.host.unobserved \union {cwd}
           t == Looks(r, r.unseen, o, r.behind, r.host.uninspected, ho)
<1>1. /\ o \in SUBSET Evid!Folders /\ ho \in SUBSET Evid!Folders /\ r.unseen \in SUBSET Evid!Files
      /\ r.behind \in SUBSET Marks /\ r.host.uninspected \in SUBSET Evid!Files
  BY DEF AgentRuns, HostNotes
<1>2. Evid!Scripted(r, cwd) = t
  BY ZenonT(60) DEF AgentRuns, HostNotes, Looks, Evid!Scripted
<1>3. /\ t \in AgentRuns /\ t.end = r.end /\ t.unlooked = o /\ t.unseen = r.unseen /\ t.behind = r.behind
      /\ t.changed = r.changed /\ t.running = r.running
      /\ t.host.uninspected = r.host.uninspected /\ t.host.unobserved = ho /\ t.host.pages = r.host.pages
  <2> HIDE DEF o, ho
  <2> QED BY <1>1, LooksFields
<1> HIDE DEF t
<1> QED BY <1>2, <1>3

\* Looking: a file is read, a folder listed, a test passes, the changes are shown.
LEMMA LookingNoted ==
    ASSUME NEW r \in AgentRuns, Noted(r), NEW F \in SUBSET Evid!Files, NEW D \in SUBSET Evid!Folders
    PROVE  Worked(r, Looks(r, r.unseen \ F, r.unlooked \ D, r.behind \ (F \union D),
                           r.host.uninspected \ F, r.host.unobserved \ D))
<1> DEFINE u == r.unseen \ F
           o == r.unlooked \ D
           b == r.behind \ (F \union D)
           hu == r.host.uninspected \ F
           ho == r.host.unobserved \ D
           t == Looks(r, u, o, b, hu, ho)
<1>1. /\ u \in SUBSET Evid!Files /\ o \in SUBSET Evid!Folders /\ b \in SUBSET Marks
      /\ hu \in SUBSET Evid!Files /\ ho \in SUBSET Evid!Folders
      /\ r.unseen \subseteq Evid!Files /\ r.unlooked \subseteq Evid!Folders
  BY DEF AgentRuns, HostNotes
<1>2. u \subseteq hu \union b /\ o \subseteq ho \union b /\ ("page links" \in r.behind => "page links" \in b)
  BY <1>1, FilesAndFolders DEF Noted
<1> HIDE DEF u, o, b, hu, ho
<1>3. /\ t \in AgentRuns /\ t.end = r.end /\ t.unlooked = o /\ t.unseen = u /\ t.behind = b
      /\ t.changed = r.changed /\ t.running = r.running
      /\ t.host.uninspected = hu /\ t.host.unobserved = ho /\ t.host.pages = r.host.pages
  BY <1>1, LooksFields
<1> HIDE DEF t
<1>4. Worked(r, t)
  BY <1>2, <1>3 DEF Worked, Noted
<1> QED BY <1>4 DEF t, u, o, b, hu, ho

LEMMA LookCallsNoted ==
    ASSUME NEW r \in AgentRuns, Noted(r), NEW t \in Evid!LookCalls(r)
    PROVE  Worked(r, t)
<1>1. r.there \subseteq Evid!Files
  BY DEF AgentRuns
<1>2. ASSUME NEW f \in Evid!Files PROVE Worked(r, Evid!Read(r, f))
  <2>1. Evid!Read(r, f) = Looks(r, r.unseen \ {f}, r.unlooked \ {}, r.behind \ ({f} \union {}),
                                 r.host.uninspected \ {f}, r.host.unobserved \ {})
    <3>1. r.unlooked \ {} = r.unlooked /\ {f} \union {} = {f} /\ r.host.unobserved \ {} = r.host.unobserved
      OBVIOUS
    <3>2. Evid!Read(r, f) = Looks(r, r.unseen \ {f}, r.unlooked, r.behind \ {f},
                                   r.host.uninspected \ {f}, r.host.unobserved)
      BY ZenonT(60) DEF Evid!Read, Looks, AgentRuns, HostNotes
    <3> QED BY <3>1, <3>2
  <2>2. {f} \in SUBSET Evid!Files /\ {} \in SUBSET Evid!Folders
    OBVIOUS
  <2> QED BY <2>1, <2>2, LookingNoted
<1>3. ASSUME NEW d \in Evid!Folders PROVE Worked(r, Evid!List(r, d))
  <2>1. Evid!List(r, d) = Looks(r, r.unseen \ {}, r.unlooked \ {d}, r.behind \ ({} \union {d}),
                                 r.host.uninspected \ {}, r.host.unobserved \ {d})
    <3>1. r.unseen \ {} = r.unseen /\ {} \union {d} = {d} /\ r.host.uninspected \ {} = r.host.uninspected
      OBVIOUS
    <3>2. Evid!List(r, d) = Looks(r, r.unseen, r.unlooked \ {d}, r.behind \ {d},
                                   r.host.uninspected, r.host.unobserved \ {d})
      BY ZenonT(60) DEF Evid!List, Looks, AgentRuns, HostNotes
    <3> QED BY <3>1, <3>2
  <2>2. {d} \in SUBSET Evid!Folders /\ {} \in SUBSET Evid!Files
    OBVIOUS
  <2> QED BY <2>1, <2>2, LookingNoted
<1>4. CASE t \in {Evid!Read(r, f) : f \in r.there}
  BY <1>1, <1>2, <1>4
<1>5. CASE t \in {Evid!List(r, d) : d \in {d \in Evid!Folders : Evid!Exists(r, d)}}
  BY <1>3, <1>5
<1> QED BY <1>4, <1>5 DEF Evid!LookCalls

\* A script is noted for its folder, whatever it did there.
LEMMA ScriptedNoted ==
    ASSUME NEW r \in AgentRuns, Noted(r), NEW cwd \in Evid!Folders, NEW now, Like(r, now)
    PROVE  Worked(r, Evid!Scripted(now, cwd))
<1> DEFINE t == Evid!Scripted(now, cwd)
<1>1. /\ t \in AgentRuns /\ t.end = now.end /\ t.unlooked = now.unlooked \union {cwd}
      /\ t.unseen = now.unseen /\ t.behind = now.behind
      /\ t.changed = now.changed /\ t.running = now.running
      /\ t.host.uninspected = now.host.uninspected
      /\ t.host.unobserved = now.host.unobserved \union {cwd} /\ t.host.pages = now.host.pages
  BY ScriptedFields DEF Like
<1> HIDE DEF t
<1>2. Worked(r, t)
  BY <1>1 DEF Worked, Noted, Like
<1> QED BY <1>2 DEF t

LEMMA CommandsNoted ==
    ASSUME NEW r \in AgentRuns, Noted(r), NEW t \in Evid!Commands(r)
    PROVE  Worked(r, t)
<1>1. ASSUME NEW d \in Evid!Folders, NEW passed \in BOOLEAN
      PROVE  Worked(r, Evid!Tests(r, d, passed))
  <2> DEFINE F == Evid!FilesBelow(d)
             D == Evid!Below(d)
  <2>1. F \in SUBSET Evid!Files /\ D \in SUBSET Evid!Folders
    BY FilesAndFolders
  <2>2. Evid!Tests(r, d, TRUE) =
            Looks(r, r.unseen \ F, r.unlooked \ D, r.behind \ (F \union D),
                  r.host.uninspected \ F, r.host.unobserved \ D)
    <3> HIDE DEF F, D
    <3> QED BY DEF Evid!Tests, Looks, AgentRuns, HostNotes, F, D
  <2> HIDE DEF F, D
  <2>3. CASE passed
    BY <2>1, <2>2, <2>3, LookingNoted
  <2>4. CASE ~passed
    BY <2>4 DEF Evid!Tests, Worked
  <2> QED BY <2>3, <2>4
<1>2. ASSUME NEW d \in Evid!Folders
      PROVE  Worked(r, Evid!Overview(r, d))
  <2> DEFINE D == Evid!Below(d)
  <2>1. D \in SUBSET Evid!Folders /\ {} \in SUBSET Evid!Files
    BY FilesAndFolders
  <2>2. Evid!Overview(r, d) =
            Looks(r, r.unseen \ {}, r.unlooked \ D, r.behind \ ({} \union D),
                  r.host.uninspected \ {}, r.host.unobserved \ D)
    <3> HIDE DEF D
    <3>1. r.unseen \ {} = r.unseen /\ {} \union D = D /\ r.host.uninspected \ {} = r.host.uninspected
      OBVIOUS
    <3>2. Evid!Overview(r, d) = Looks(r, r.unseen, r.unlooked \ D, r.behind \ D,
                                       r.host.uninspected, r.host.unobserved \ D)
      BY ZenonT(60) DEF Evid!Overview, Looks, AgentRuns, HostNotes, D
    <3> QED BY <3>1, <3>2
  <2> HIDE DEF D
  <2> QED BY <2>1, <2>2, LookingNoted
<1>3. ASSUME NEW d \in Evid!Folders
      PROVE  Worked(r, Evid!Background(r, d))
  <2> DEFINE a == Evid!Scripted(r, d)
             t1 == [a EXCEPT !.running = a.running \union {d}]
  <2>1. Like(r, r)
    BY DEF Like
  <2>2. Worked(r, a)
    BY <2>1, ScriptedNoted
  <2> HIDE DEF a
  <2>3. a.running \union {d} \in SUBSET Evid!Folders /\ a \in AgentRuns
    BY <2>2 DEF Worked, AgentRuns
  <2>4. Evid!Background(r, d) = t1
    BY <2>3 DEF Evid!Background, a, AgentRuns
  <2>5. /\ t1 \in AgentRuns /\ t1.end = a.end /\ t1.unlooked = a.unlooked /\ t1.unseen = a.unseen
        /\ t1.behind = a.behind /\ t1.changed = a.changed /\ t1.host = a.host
    BY <2>3 DEF AgentRuns
  <2> HIDE DEF t1
  <2> QED BY <2>2, <2>4, <2>5 DEF Worked, Noted
<1>4. ASSUME NEW d \in Evid!Folders, NEW x \in Evid!Script(r, d)
      PROVE  Worked(r, x)
  <2>1. PICK now \in Evid!Effects(r, d) : x = Evid!Scripted(now, d)
    BY <1>4 DEF Evid!Script
  <2>2. Like(r, now)
    BY <2>1, EffectsFields
  <2> QED BY <2>1, <2>2, ScriptedNoted
<1>5. Worked(r, Evid!MakeFolder(r))
  <2> DEFINE b == [r EXCEPT !.hasSite = TRUE]
             a == Evid!Scripted(b, "root")
             h == [a.host EXCEPT !.created = a.host.created \union {"site"}]
  <2>1. Like(r, b) /\ "root" \in Evid!Folders
    BY FilesAndFolders DEF Like, AgentRuns
  <2> HIDE DEF b
  <2>2. Worked(r, a)
    BY <2>1, ScriptedNoted
  <2>3. Evid!MakeFolder(r) = WithHost(a, h)
    <3>1. Evid!MakeFolder(r) = [a EXCEPT !.host.created = @ \union {"site"}]
      BY DEF Evid!MakeFolder, a, b
    <3>2. a \in AgentRuns /\ a.host \in HostNotes
      BY <2>2 DEF Worked, AgentRuns
    <3> HIDE DEF a
    <3> QED BY <3>1, <3>2 DEF WithHost, AgentRuns, HostNotes
  <2> HIDE DEF a
  <2>4. a \in AgentRuns /\ a.host \in HostNotes
    BY <2>2 DEF Worked, AgentRuns
  <2>5. /\ h \in HostNotes /\ h.uninspected = a.host.uninspected /\ h.unobserved = a.host.unobserved
        /\ h.pages = a.host.pages
    BY <2>4, FilesAndFolders DEF HostNotes
  <2> HIDE DEF h
  <2>6. LET t1 == WithHost(a, h)
        IN /\ t1 \in AgentRuns /\ t1.host = h /\ t1.end = a.end /\ t1.unlooked = a.unlooked
           /\ t1.unseen = a.unseen /\ t1.behind = a.behind /\ t1.changed = a.changed
    BY <2>4, <2>5, HostFields
  <2> QED BY <2>2, <2>3, <2>5, <2>6 DEF Worked, Noted
<1> DEFINE Of(d) == {Evid!Tests(r, d, passed) : passed \in BOOLEAN}
                       \union {Evid!Overview(r, d), Evid!Background(r, d)} \union Evid!Script(r, d)
<1>6. CASE t \in (IF ~r.hasSite THEN {Evid!MakeFolder(r)} ELSE {})
  BY <1>5, <1>6
<1>7. ASSUME NEW d \in Evid!Folders, t \in Of(d)
      PROVE  Worked(r, t)
  <2>1. CASE t \in {Evid!Tests(r, d, passed) : passed \in BOOLEAN}
    BY <1>1, <2>1
  <2>2. CASE t \in {Evid!Overview(r, d), Evid!Background(r, d)}
    BY <1>2, <1>3, <2>2
  <2>3. CASE t \in Evid!Script(r, d)
    BY <1>4, <2>3
  <2> QED BY <1>7, <2>1, <2>2, <2>3
<1>8. Evid!Commands(r) =
          (UNION {Of(d) : d \in {d \in Evid!Folders : Evid!Exists(r, d)}})
          \union (IF ~r.hasSite THEN {Evid!MakeFolder(r)} ELSE {})
  BY DEF Evid!Commands
<1> HIDE DEF Of
<1>9. CASE t \in UNION {Of(d) : d \in {d \in Evid!Folders : Evid!Exists(r, d)}}
  BY <1>7, <1>9
<1> DEFINE A == UNION {Of(d) : d \in {d \in Evid!Folders : Evid!Exists(r, d)}}
           B == IF ~r.hasSite THEN {Evid!MakeFolder(r)} ELSE {}
<1>10. t \in A \union B
  BY <1>8
<1>11. (t \in A => Worked(r, t)) /\ (t \in B => Worked(r, t))
  BY <1>6, <1>9
<1> HIDE DEF A, B
<1> QED BY <1>10, <1>11

LEMMA ActNoted ==
    ASSUME NEW r \in AgentRuns, Noted(r), NEW t \in Evid!Act(r)
    PROVE  Worked(r, t)
<1>1. PICK now \in Evid!FileCalls(r) \union Evid!LookCalls(r) \union Evid!Commands(r)
                     \union {Evid!Document(r)}, progress \in BOOLEAN : t = Evid!Acted(now, progress)
  BY DEF Evid!Act
<1>2. Worked(r, Evid!Document(r))
  <2> DEFINE h == [r.host EXCEPT !.made = TRUE]
  <2>1. r.host \in HostNotes
    BY DEF AgentRuns
  <2>2. /\ h \in HostNotes /\ h.uninspected = r.host.uninspected /\ h.unobserved = r.host.unobserved
        /\ h.pages = r.host.pages
    BY <2>1 DEF HostNotes
  <2>3. Evid!Document(r) = WithHost(r, h)
    BY DEF Evid!Document, WithHost, AgentRuns, HostNotes
  <2> HIDE DEF h
  <2>4. LET t1 == WithHost(r, h)
        IN /\ t1 \in AgentRuns /\ t1.host = h /\ t1.end = r.end /\ t1.unlooked = r.unlooked
           /\ t1.unseen = r.unseen /\ t1.behind = r.behind /\ t1.changed = r.changed
    BY <2>2, HostFields
  <2> QED BY <2>2, <2>3, <2>4 DEF Worked, Noted
<1>3. Worked(r, now)
  BY <1>1, <1>2, FileCallsNoted, LookCallsNoted, CommandsNoted
<1>4. now \in AgentRuns
  BY <1>3 DEF Worked
<1>5. PICK reviews \in Nat : t = [now EXCEPT !.actions = 1, !.reviews = reviews]
  <2>1. now.reviews \in Nat
    BY <1>4 DEF AgentRuns
  <2>2. t = [now EXCEPT !.actions = 1, !.reviews = IF progress THEN 0 ELSE now.reviews]
    BY <1>1, <1>4 DEF Evid!Acted, AgentRuns
  <2> QED BY <2>1, <2>2
<1>6. /\ t \in AgentRuns /\ t.end = now.end /\ t.unlooked = now.unlooked /\ t.unseen = now.unseen
      /\ t.behind = now.behind /\ t.changed = now.changed /\ t.host = now.host
  BY <1>4, <1>5 DEF AgentRuns
<1> QED BY <1>3, <1>6 DEF Worked, Noted

LEMMA LaterNoted ==
    ASSUME NEW r \in AgentRuns, Noted(r), NEW cwd \in Evid!Folders, NEW t \in Evid!Later(r, cwd)
    PROVE  Worked(r, t)
<1>1. PICK now \in Evid!Effects(r, cwd) :
          t = [now EXCEPT !.unlooked = @ \union {cwd}, !.behind = @ \union {cwd}, !.running = @ \ {cwd}]
  BY DEF Evid!Later
<1>2. Like(r, now)
  BY <1>1, EffectsFields
<1> DEFINE o == now.unlooked \union {cwd}
           b == now.behind \union {cwd}
           on == now.running \ {cwd}
<1>3. o \in SUBSET Evid!Folders /\ b \in SUBSET Marks /\ on \in SUBSET Evid!Folders
  BY <1>2, ZenonT(60) DEF Like, AgentRuns, Marks
<1>4. t = [now EXCEPT !.unlooked = o, !.behind = b, !.running = on]
  BY <1>1, <1>2 DEF Like, AgentRuns
<1> HIDE DEF o, b, on
<1>5. /\ t \in AgentRuns /\ t.end = now.end /\ t.unlooked = o /\ t.unseen = now.unseen
      /\ t.behind = b /\ t.changed = now.changed /\ t.host = now.host
  BY <1>2, <1>3, <1>4 DEF Like, AgentRuns
<1> QED BY <1>2, <1>5 DEF Worked, Noted, Like, o, b

\* What a claim leaves of a run: its workspace and what is known of it.
Judged(r, t) ==
    /\ t \in AgentRuns /\ t.there = r.there /\ t.links = r.links
    /\ t.unseen = r.unseen /\ t.unlooked = r.unlooked /\ t.behind = r.behind /\ t.changed = r.changed
    /\ t.wants = r.wants /\ t.host = r.host

LEMMA EndFields ==
    ASSUME NEW r \in AgentRuns, NEW end \in {"no", "done", "noted", "failed"}
    PROVE  LET t == Evid!End(r, end) IN Judged(r, t) /\ t.end = end /\ t.reason = r.reason
BY DEF Evid!End, Judged, AgentRuns

LEMMA SentBackFields ==
    ASSUME NEW r \in AgentRuns, r.end = "no",
           NEW kind \in {"empty", "links", "document", "look", "finding"}, NEW about \in SUBSET Marks
    PROVE  LET t == Evid!SentBack(r, <<kind, about>>)
           IN Judged(r, t) /\ t.end \in {"no", "noted", "failed"} /\ t.reason[1] = kind
<1> DEFINE reason == <<kind, about>>
           same == reason = r.reason
           repeated == IF ~same THEN 0 ELSE IF r.actions = 0 THEN r.repeated + 1 ELSE r.repeated
           despite == IF ~same THEN 0 ELSE IF r.actions > 0 THEN r.despite + 1 ELSE r.despite
           now == [r EXCEPT !.reviews = r.reviews + 1, !.reason = reason, !.actions = 0,
                            !.repeated = repeated, !.despite = despite]
<1>1. reason \in {"none", "empty", "links", "document", "look", "finding"} \X SUBSET Marks /\ reason[1] = kind
  OBVIOUS
<1>2. repeated \in Nat /\ despite \in Nat /\ r.reviews + 1 \in Nat
  BY DEF AgentRuns
<1>3. Evid!SentBack(r, reason) =
          IF now.repeated >= 2 THEN Evid!End(now, "failed")
          ELSE IF now.despite >= 2 THEN Evid!End(now, "noted")
          ELSE IF now.reviews > Evid!MaxRetries + 2 THEN Evid!End(now, "failed")
          ELSE now
  BY DEF Evid!SentBack, AgentRuns
<1> HIDE DEF reason, repeated, despite
<1>4. Judged(r, now) /\ now.end = "no" /\ now.reason = reason
  BY <1>1, <1>2 DEF Judged, AgentRuns
<1> HIDE DEF now
<1> DEFINE t == Evid!SentBack(r, reason)
<1>5. t = now \/ t = Evid!End(now, "failed") \/ t = Evid!End(now, "noted")
  BY <1>3
<1>6. Judged(r, t) /\ t.end \in {"no", "noted", "failed"} /\ t.reason = reason
  BY <1>4, <1>5, EndFields DEF Judged
<1> QED BY <1>1, <1>6 DEF reason

LEMMA UnavailableFields ==
    ASSUME NEW r \in AgentRuns, r.end = "no"
    PROVE  LET t == Evid!Unavailable(r) IN Judged(r, t) /\ t.end \in {"no", "failed"}
<1> DEFINE now == [r EXCEPT !.reviews = r.reviews + 1]
<1>1. Judged(r, now) /\ now.end = "no"
  BY DEF Judged, AgentRuns
<1>2. Evid!Unavailable(r) = IF now.reviews > Evid!MaxRetries THEN Evid!End(now, "failed") ELSE now
  BY DEF Evid!Unavailable, AgentRuns
<1> HIDE DEF now
<1> QED BY <1>1, <1>2, EndFields DEF Judged

\* What ends as done, or as noted by the checker, was not sent back by the host.
LEMMA ClaimBacked ==
    ASSUME NEW r \in AgentRuns, Noted(r), r.end = "no", NEW t \in Evid!Claim(r)
    PROVE  EvInv(t)
<1>1. ASSUME Judged(r, t),
             t.end \in {"done", "noted"} => ~Evid!NeedsEvidence(r) \/ Evid!DisputesHost(t)
      PROVE  EvInv(t)
  <2>1. t \in AgentRuns /\ Noted(t)
    BY <1>1 DEF Judged, Noted
  <2>2. ASSUME t.end \in {"done", "noted"}, ~Evid!DisputesHost(t)
        PROVE  /\ t.unseen \union t.unlooked \subseteq t.behind
               /\ "page" \in t.changed /\ Evid!BrokenPage(t) => "page links" \in t.behind
               /\ t.wants => t.host.made
    <3>1. ~Evid!NeedsEvidence(r)
      BY <1>1, <2>2
    <3>2. /\ r.host.uninspected = {} /\ r.host.unobserved = {}
          /\ r.wants => r.host.made
          /\ "page" \in r.host.pages => ~Evid!BrokenPage(r)
      BY <3>1 DEF Evid!NeedsEvidence, Evid!NoDocument, Evid!Broken
    <3> QED BY <1>1, <3>2 DEF Judged, Noted, Evid!BrokenPage
  <2> QED BY <2>1, <2>2 DEF EvInv, Evid!ClaimIsBacked
<1>2. CASE t = Evid!End(r, "done") /\ ~Evid!NeedsEvidence(r)
  BY <1>1, <1>2, EndFields
<1>3. CASE t = Evid!SentBack(r, Evid!Remaining(r))
  <2>1. PICK kind \in {"empty", "links", "document", "look"}, about \in SUBSET Marks :
            Evid!Remaining(r) = <<kind, about>>
    <3>1. /\ Evid!EmptyCreated(r) \in SUBSET Marks /\ {"page"} \in SUBSET Marks
          /\ r.host.uninspected \union r.host.unobserved \in SUBSET Marks /\ {} \in SUBSET Marks
      BY FilesAndFolders DEF Evid!EmptyCreated, Marks, AgentRuns, HostNotes
    <3> QED BY <3>1 DEF Evid!Remaining
  <2>2. Judged(r, t) /\ t.end \in {"no", "noted", "failed"} /\ t.reason[1] = kind
    BY <1>3, <2>1, SentBackFields
  <2>3. t.end = "noted" => Evid!DisputesHost(t)
    BY <2>1, <2>2 DEF Evid!DisputesHost
  <2> QED BY <1>1, <2>2, <2>3
<1>4. CASE t = Evid!SentBack(r, <<"finding", {}>>) /\ ~Evid!NeedsEvidence(r)
  <2>1. Judged(r, t)
    BY <1>4, SentBackFields
  <2> QED BY <1>1, <1>4, <2>1
<1>5. CASE t = Evid!Unavailable(r) /\ ~Evid!NeedsEvidence(r)
  BY <1>1, <1>5, UnavailableFields
<1> QED BY <1>2, <1>3, <1>4, <1>5 DEF Evid!Claim

LEMMA EvidenceInit == EvidenceBegins => EvInv(work)
<1> SUFFICES ASSUME NEW there \in SUBSET Evid!Files, NEW links \in BOOLEAN, NEW wants \in BOOLEAN,
                    NEW question \in BOOLEAN, work = Evid!New(there, links, wants, question)
             PROVE  EvInv(work)
  BY DEF EvidenceBegins
<1> DEFINE asked == wants /\ ~question
           site == there # {}
<1>1. Evid!NoEvidence \in HostNotes
  BY DEF Evid!NoEvidence, HostNotes
<1>2. asked \in BOOLEAN /\ site \in BOOLEAN /\ <<"none", {}>> \in {"none"} \X SUBSET Marks
  OBVIOUS
<1>3. work = [there |-> there, hasSite |-> site, links |-> links,
             unseen |-> {}, unlooked |-> {}, changed |-> {}, behind |-> {}, running |-> {},
             wants |-> asked, question |-> question, host |-> Evid!NoEvidence,
             reason |-> <<"none", {}>>, actions |-> 0, repeated |-> 0, despite |-> 0, reviews |-> 0, end |-> "no"]
  BY DEF Evid!New
<1> HIDE DEF asked, site
<1>4. work \in AgentRuns
  BY <1>1, <1>2, <1>3 DEF AgentRuns
<1>5. Noted(work) /\ Evid!ClaimIsBacked(work)
  BY <1>3 DEF Noted, Evid!ClaimIsBacked
<1> QED BY <1>4, <1>5 DEF EvInv

LEMMA EvidenceInvStep == EvInv(work) /\ EvidenceStep => EvInv(work')
<1> SUFFICES ASSUME EvInv(work), EvidenceStep PROVE EvInv(work')
  OBVIOUS
<1>1. work \in AgentRuns /\ Noted(work) /\ work.end = "no"
  BY DEF EvInv, EvidenceStep
<1>2. Worked(work, work') => EvInv(work')
  BY <1>1 DEF Worked, EvInv, Evid!ClaimIsBacked
<1>3. CASE work' \in Evid!Act(work)
  BY <1>1, <1>2, <1>3, ActNoted
<1>4. CASE work' \in UNION {Evid!Later(work, d) : d \in work.running}
  <2>1. PICK d \in work.running : work' \in Evid!Later(work, d)
    BY <1>4
  <2>2. d \in Evid!Folders
    BY <1>1 DEF AgentRuns
  <2> QED BY <1>1, <1>2, <2>1, <2>2, LaterNoted
<1>5. CASE work' \in Evid!Claim(work)
  BY <1>1, <1>5, ClaimBacked
<1> DEFINE L == UNION {Evid!Later(work, d) : d \in work.running}
<1>6. work' \in Evid!Act(work) \union (L \union Evid!Claim(work))
  BY DEF EvidenceStep, Evid!Next
<1>7. work' \in L => EvInv(work')
  BY <1>4
<1> HIDE DEF L
<1> QED BY <1>3, <1>5, <1>6, <1>7

\* However many calls it made and whatever the workspace held, a run that ends as done has had
\* every change confirmed and every folder its commands ran in looked at since, but what changed
\* behind the host's back; it leaves no broken page it knows of, and has the document it was
\* asked for (VerificationState::observe, needs_evidence; run_loop's completion check).
THEOREM EvidenceClaimIsBacked == EvidenceSpec => []Evid!ClaimIsBacked(work)
<1>1. EvInv(work) /\ [EvidenceStep]_work => EvInv(work)'
  <2> SUFFICES ASSUME EvInv(work), [EvidenceStep]_work PROVE EvInv(work')
    OBVIOUS
  <2> QED BY EvidenceInvStep
<1>2. EvInv(work) => Evid!ClaimIsBacked(work)
  BY DEF EvInv
<1> QED BY <1>1, <1>2, EvidenceInit, PTL DEF EvidenceSpec
=============================================================================
