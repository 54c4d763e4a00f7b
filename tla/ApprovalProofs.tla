--------------------------- MODULE ApprovalProofs ---------------------------
(***************************************************************************)
(* Approval for any number of runs and any tools: what a prompt, a scan    *)
(* for waiting runs and a change of the mode may count on while the        *)
(* others go on; and, through Terminal, what becomes of the commands that  *)
(* the approved calls leave running.                                       *)
(***************************************************************************)
EXTENDS Approval, TLAPS

\* Where a run's prompt is out and not yet answered to its task.
Asking == {"announce", "lock", "scan", "parked"}

\* The holder of settings_update: a request until it scans, then the client's
\* scan or that of a run, which does nothing else meanwhile.
Held ==
    update # None =>
        /\ update.at # "scan" => /\ update.by \in {"mode", "settings"}
                                 /\ update.mode \in Modes /\ update.run = None
        /\ update.at = "scan" => update.by \notin {"mode", "settings"}
        /\ update.by \in Runs => pc[update.by] = "scan"

\* What is published about a run is the call it is about.
Prompted ==
    \A r \in Runs :
        /\ stop[r] # "no" => r \in aborted
        /\ pc[r] \in Asking \union {"consent", "publish", "resumed"} => call[r] \in Calls
        /\ tx[r] => pc[r] \in Asking \union {"over"} /\ (pc[r] # "over" => answer[r] = None)
        /\ pc[r] \in Asking /\ answer[r] = None => tx[r]
        /\ pending[r] # None /\ pc[r] # "over" =>
               pc[r] \in Asking \union {"resumed"} /\ pending[r] = call[r]
        /\ pc[r] \in Asking /\ r \notin aborted => pending[r] = call[r]
        /\ pc[r] \in Asking \ {"announce"} /\ r \notin aborted => waiting[r]

\* The call a scan has read is the one the sender is for, or it is marked.
Judged ==
    update # None =>
        \A r \in Runs : update.run = r =>
            /\ update.stale => pc[r] \in {"announce", "lock", "over"}
            /\ ~update.stale /\ tx[r] /\ pc[r] # "over" => update.judged = call[r]

\* How far a change of the mode has come.
Changing ==
    /\ (update = None \/ update.at \in {"save", "scan"}) /\ ~torn =>
           autonomy = AutonomyFor(mode) /\ saved = mode
    /\ update # None /\ update.at \in {"first", "second"} => saved = update.mode
    /\ update # None /\ update.at = "first" /\ ~torn => autonomy = AutonomyFor(mode)
    /\ update # None /\ update.at = "second" =>
           IF update.by = "mode" THEN mode = update.mode
                                 ELSE autonomy = AutonomyFor(update.mode)

\* The mode in force would let the call of the run go on.
Vain(r) ==
    /\ ByLevel(autonomy, call[r])
    /\ ~(call[r] = "web_search" /\ (denied \/ r \notin Searching))

\* Nobody waits in vain but for a scan under way: where it has changed nothing,
\* and in one that sees every prompt those it still has to look at.
Passed ==
    /\ (update # None => update.at \in {"save", "first"} \/ update.by \in Runs) /\ ~unseen =>
           \A r \in Runs : pc[r] = "parked" /\ answer[r] = None /\ r \notin aborted => ~Vain(r)
    /\ update # None /\ update.at = "scan" /\ ~update.partial =>
           \A r \in Runs :
               pc[r] \in {"parked", "scan"} /\ answer[r] = None /\ r \notin aborted /\ Vain(r)
                   => r \in update.todo \/ update.run = r

\* The inductive invariant.
AInv == TypeOK /\ Held /\ Prompted /\ Judged /\ Changing /\ Passed
-----------------------------------------------------------------------------
\* A flag of a run is set.
LEMMA Flag ==
    \A f \in [Runs -> BOOLEAN], r \in Runs, b \in BOOLEAN :
        [f EXCEPT ![r] = b] \in [Runs -> BOOLEAN]
  OBVIOUS

-----------------------------------------------------------------------------
(* One lemma per part of the invariant, one step per group of actions.      *)

LEMMA StepTypeOK == AInv /\ [Next]_vars => TypeOK'
<1> SUFFICES ASSUME AInv, [Next]_vars PROVE TypeOK'
  OBVIOUS
<1> USE ApprovalAssumption, NothingAssumption DEF AInv, TypeOK, Places, Parked, Holders,
     Answers
<1>1. ASSUME NEW r \in Runs, Spawn(r)
      PROVE  TypeOK'
  BY <1>1 DEF Spawn, Goto, policy, history, prompt, control
<1>2. ASSUME NEW r \in Runs, Register(r)
      PROVE  TypeOK'
  BY <1>2 DEF Register, policy, history, prompt
<1>3. ASSUME NEW r \in Runs, Reply(r)
      PROVE  TypeOK'
  <2>1. update' \in Holders \union {None}
    BY <1>3 DEF Reply, Goto, Emit, Carry, policy, history, control
  <2>2. waiting' \in [Runs -> BOOLEAN]
    <3>1. waiting' \in {waiting, [waiting EXCEPT ![r] = FALSE]}
      BY <1>3 DEF Reply, Goto, Emit, Carry, policy, history, control
    <3>2. waiting \in [Runs -> BOOLEAN]
      OBVIOUS
    <3> HIDE ApprovalAssumption, NothingAssumption DEF AInv, TypeOK
    <3> QED
      BY <3>1, <3>2, Flag
  <2>3. tx' \in [Runs -> BOOLEAN]
    BY <1>3 DEF Reply, Goto, Emit, Carry, policy, history, control
  <2>4. consent' \in [Runs -> BOOLEAN]
    BY <1>3 DEF Reply, Goto, Emit, Carry, policy, history, control
  <2>5. pc' \in [Runs -> Places] /\ stop' \in [Runs -> {"no", "acted", "done"}]
    BY <1>3 DEF Reply, Goto, Emit, Carry, policy, history, control
  <2>6. call' \in [Runs -> Calls \union {None}] /\ pending' \in [Runs -> Calls \union {None}]
    BY <1>3 DEF Reply, Goto, Emit, Carry, policy, history, control
  <2>7. answer' \in [Runs -> Answers \union {None}]
    BY <1>3 DEF Reply, Goto, Emit, Carry, policy, history, control
  <2>8. grants' \subseteq {Tool(c) : c \in {k \in Calls : Risk(k) = "moderate"}}
    BY <1>3 DEF Reply, Goto, Emit, Carry, policy, history, control
  <2>9. /\ mode' \in Modes /\ saved' \in Modes /\ denied' \in BOOLEAN
        /\ autonomy' \in {AutonomyFor(m) : m \in Modes}
        /\ torn' \in BOOLEAN /\ unseen' \in BOOLEAN
        /\ registered' \subseteq Runs /\ aborted' \subseteq Runs
    BY <1>3 DEF Reply, Goto, Emit, Carry, policy, history, control
  <2> QED
    BY <2>1, <2>2, <2>3, <2>4, <2>5, <2>6, <2>7, <2>8, <2>9
<1>4. ASSUME NEW r \in Runs, Consent(r)
      PROVE  TypeOK'
  <2>1. update' \in Holders \union {None}
    BY <1>4 DEF Consent, Goto, Emit, Refuse, policy, history, control
  <2>2. waiting' \in [Runs -> BOOLEAN]
    BY <1>4, ZenonT(60) DEF Consent, Goto, Emit, Refuse, policy, history, control
  <2>3. tx' \in [Runs -> BOOLEAN]
    BY <1>4 DEF Consent, Goto, Emit, Refuse, policy, history, control
  <2>4. consent' \in [Runs -> BOOLEAN]
    <3>1. consent' \in {consent, [consent EXCEPT ![r] = FALSE], [consent EXCEPT ![r] = TRUE]}
      BY <1>4 DEF Consent, Goto, Emit, Refuse, policy, history, control
    <3>2. consent \in [Runs -> BOOLEAN]
      OBVIOUS
    <3> HIDE ApprovalAssumption, NothingAssumption DEF AInv, TypeOK
    <3> QED
      BY <3>1, <3>2, Flag
  <2>5. pc' \in [Runs -> Places] /\ stop' \in [Runs -> {"no", "acted", "done"}]
    BY <1>4 DEF Consent, Goto, Emit, Refuse, policy, history, control
  <2>6. call' \in [Runs -> Calls \union {None}] /\ pending' \in [Runs -> Calls \union {None}]
    BY <1>4 DEF Consent, Goto, Emit, Refuse, policy, history, control
  <2>7. answer' \in [Runs -> Answers \union {None}]
    BY <1>4 DEF Consent, Goto, Emit, Refuse, policy, history, control
  <2>8. grants' \subseteq {Tool(c) : c \in {k \in Calls : Risk(k) = "moderate"}}
    BY <1>4 DEF Consent, Goto, Emit, Refuse, policy, history, control
  <2>9. /\ mode' \in Modes /\ saved' \in Modes /\ denied' \in BOOLEAN
        /\ autonomy' \in {AutonomyFor(m) : m \in Modes}
        /\ torn' \in BOOLEAN /\ unseen' \in BOOLEAN
        /\ registered' \subseteq Runs /\ aborted' \subseteq Runs
    BY <1>4 DEF Consent, Goto, Emit, Refuse, policy, history, control
  <2> QED
    BY <2>1, <2>2, <2>3, <2>4, <2>5, <2>6, <2>7, <2>8, <2>9
<1>5. ASSUME NEW r \in Runs, Done(r)
      PROVE  TypeOK'
  BY <1>5 DEF Done, Goto, Emit, Refuse, policy, history, control
<1>6. ASSUME NEW r \in Runs, Drop(r)
      PROVE  TypeOK'
  BY <1>6 DEF Drop, Goto, policy, history, prompt, control
<1>7. ASSUME NEW r \in Runs, Publish(r)
      PROVE  TypeOK'
  BY <1>7 DEF Publish, Goto, policy, history, control
<1>8. ASSUME NEW r \in Runs, Announce(r)
      PROVE  TypeOK'
  BY <1>8 DEF Announce, Goto, Emit, policy, history, control
<1>9. ASSUME NEW r \in Runs, Recheck(r)
      PROVE  TypeOK'
  BY <1>9 DEF Recheck, Goto, Scan, policy, history, prompt, control
<1>10. ASSUME NEW r \in Runs, Resumed(r)
      PROVE  TypeOK'
  <2>1. update' \in Holders \union {None}
    BY <1>10 DEF Resumed, Goto, Emit, Refuse, Carry, policy, history, control, Risk, Tool
  <2>2. waiting' \in [Runs -> BOOLEAN]
    <3>1. waiting' \in {waiting, [waiting EXCEPT ![r] = FALSE]}
      BY <1>10 DEF Resumed, Goto, Emit, Refuse, Carry, policy, history, control, Risk, Tool
    <3>2. waiting \in [Runs -> BOOLEAN]
      OBVIOUS
    <3> HIDE ApprovalAssumption, NothingAssumption DEF AInv, TypeOK
    <3> QED
      BY <3>1, <3>2, Flag
  <2>3. tx' \in [Runs -> BOOLEAN]
    BY <1>10 DEF Resumed, Goto, Emit, Refuse, Carry, policy, history, control, Risk, Tool
  <2>4. consent' \in [Runs -> BOOLEAN]
    <3>1. consent' \in {consent, [consent EXCEPT ![r] = FALSE]}
      BY <1>10 DEF Resumed, Goto, Emit, Refuse, Carry, policy, history, control, Risk, Tool
    <3>2. consent \in [Runs -> BOOLEAN]
      OBVIOUS
    <3> HIDE ApprovalAssumption, NothingAssumption DEF AInv, TypeOK
    <3> QED
      BY <3>1, <3>2, Flag
  <2>5. pc' \in [Runs -> Places] /\ stop' \in [Runs -> {"no", "acted", "done"}]
    BY <1>10 DEF Resumed, Goto, Emit, Refuse, Carry, policy, history, control, Risk, Tool
  <2>6. call' \in [Runs -> Calls \union {None}] /\ pending' \in [Runs -> Calls \union {None}]
    BY <1>10 DEF Resumed, Goto, Emit, Refuse, Carry, policy, history, control, Risk, Tool
  <2>7. answer' \in [Runs -> Answers \union {None}]
    BY <1>10 DEF Resumed, Goto, Emit, Refuse, Carry, policy, history, control, Risk, Tool
  <2>8. grants' \subseteq {Tool(c) : c \in {k \in Calls : Risk(k) = "moderate"}}
    <3>1. call[r] \in Calls
      BY <1>10 DEF Resumed, Prompted, Asking
    <3>2. CASE grants' = grants
      BY <3>2
    <3>3. CASE grants' = grants \union {Tool(call[r])} /\ Risk(call[r]) = "moderate"
      BY <3>1, <3>3
    <3> QED
      BY <1>10, <3>2, <3>3 DEF Resumed, Refuse
  <2>9. /\ mode' \in Modes /\ saved' \in Modes /\ denied' \in BOOLEAN
        /\ autonomy' \in {AutonomyFor(m) : m \in Modes}
        /\ torn' \in BOOLEAN /\ unseen' \in BOOLEAN
        /\ registered' \subseteq Runs /\ aborted' \subseteq Runs
    BY <1>10 DEF Resumed, Goto, Emit, Refuse, Carry, policy, history, control, Risk, Tool
  <2> QED
    BY <2>1, <2>2, <2>3, <2>4, <2>5, <2>6, <2>7, <2>8, <2>9
<1>11. ASSUME NEW r \in Runs, Look(r)
      PROVE  TypeOK'
  <2>1. update' \in Holders \union {None}
    <3>1. update \in Holders /\ pending[r] \in Calls \union {None}
      BY <1>11 DEF Look
    <3>2. update' = [update EXCEPT !.todo = @ \ {r}, !.run = IF pending[r] = None THEN None ELSE r,
                                   !.judged = pending[r], !.stale = FALSE]
      BY <1>11 DEF Look
    <3> HIDE ApprovalAssumption DEF AInv, TypeOK, Held, Prompted, Judged, Passed
    <3> QED
      BY <3>1, <3>2
  <2>2. waiting' \in [Runs -> BOOLEAN]
    BY <1>11 DEF Look, policy, history, prompt, control
  <2>3. tx' \in [Runs -> BOOLEAN]
    BY <1>11 DEF Look, policy, history, prompt, control
  <2>4. consent' \in [Runs -> BOOLEAN]
    BY <1>11 DEF Look, policy, history, prompt, control
  <2>5. pc' \in [Runs -> Places] /\ stop' \in [Runs -> {"no", "acted", "done"}]
    BY <1>11 DEF Look, policy, history, prompt, control
  <2>6. call' \in [Runs -> Calls \union {None}] /\ pending' \in [Runs -> Calls \union {None}]
    BY <1>11 DEF Look, policy, history, prompt, control
  <2>7. answer' \in [Runs -> Answers \union {None}]
    BY <1>11 DEF Look, policy, history, prompt, control
  <2>8. grants' \subseteq {Tool(c) : c \in {k \in Calls : Risk(k) = "moderate"}}
    BY <1>11 DEF Look, policy, history, prompt, control
  <2>9. /\ mode' \in Modes /\ saved' \in Modes /\ denied' \in BOOLEAN
        /\ autonomy' \in {AutonomyFor(m) : m \in Modes}
        /\ torn' \in BOOLEAN /\ unseen' \in BOOLEAN
        /\ registered' \subseteq Runs /\ aborted' \subseteq Runs
    BY <1>11 DEF Look, policy, history, prompt, control
  <2> QED
    BY <2>1, <2>2, <2>3, <2>4, <2>5, <2>6, <2>7, <2>8, <2>9
<1>12. ASSUME NEW r \in Runs, Release(r)
      PROVE  TypeOK'
  <2>1. update' \in Holders \union {None}
    BY <1>12 DEF Release, Send, Releasable, policy, history, control
  <2>2. waiting' \in [Runs -> BOOLEAN]
    BY <1>12 DEF Release, Send, Releasable, policy, history, control
  <2>3. tx' \in [Runs -> BOOLEAN]
    <3>1. tx' \in {tx, [tx EXCEPT ![r] = FALSE]}
      BY <1>12 DEF Release, Send
    <3>2. tx \in [Runs -> BOOLEAN]
      OBVIOUS
    <3> HIDE ApprovalAssumption, NothingAssumption DEF AInv, TypeOK
    <3> QED
      BY <3>1, <3>2, Flag
  <2>4. consent' \in [Runs -> BOOLEAN]
    BY <1>12 DEF Release, Send, Releasable, policy, history, control
  <2>5. pc' \in [Runs -> Places] /\ stop' \in [Runs -> {"no", "acted", "done"}]
    BY <1>12 DEF Release, Send, Releasable, policy, history, control
  <2>6. call' \in [Runs -> Calls \union {None}] /\ pending' \in [Runs -> Calls \union {None}]
    BY <1>12 DEF Release, Send, Releasable, policy, history, control
  <2>7. answer' \in [Runs -> Answers \union {None}]
    BY <1>12 DEF Release, Send, Releasable, policy, history, control
  <2>8. grants' \subseteq {Tool(c) : c \in {k \in Calls : Risk(k) = "moderate"}}
    BY <1>12 DEF Release, Send, Releasable, policy, history, control
  <2>9. /\ mode' \in Modes /\ saved' \in Modes /\ denied' \in BOOLEAN
        /\ autonomy' \in {AutonomyFor(m) : m \in Modes}
        /\ torn' \in BOOLEAN /\ unseen' \in BOOLEAN
        /\ registered' \subseteq Runs /\ aborted' \subseteq Runs
    BY <1>12 DEF Release, Send, Releasable, policy, history, control
  <2> QED
    BY <2>1, <2>2, <2>3, <2>4, <2>5, <2>6, <2>7, <2>8, <2>9
<1>13. ASSUME NEW r \in Runs, Resume(r)
      PROVE  TypeOK'
  BY <1>13 DEF Resume, Send, policy, history, control
<1>14. ASSUME NEW r \in Runs, Stop(r)
      PROVE  TypeOK'
  <2>1. update' \in Holders \union {None}
    BY <1>14 DEF Stop, Send, policy, history
  <2>2. waiting' \in [Runs -> BOOLEAN]
    BY <1>14 DEF Stop, Send, policy, history
  <2>3. tx' \in [Runs -> BOOLEAN]
    <3>1. tx' \in {tx, [tx EXCEPT ![r] = FALSE]}
      BY <1>14 DEF Stop, Send
    <3>2. tx \in [Runs -> BOOLEAN]
      OBVIOUS
    <3> HIDE ApprovalAssumption, NothingAssumption DEF AInv, TypeOK
    <3> QED
      BY <3>1, <3>2, Flag
  <2>4. consent' \in [Runs -> BOOLEAN]
    BY <1>14 DEF Stop, Send, policy, history
  <2>5. pc' \in [Runs -> Places] /\ stop' \in [Runs -> {"no", "acted", "done"}]
    BY <1>14 DEF Stop, Send, policy, history
  <2>6. call' \in [Runs -> Calls \union {None}] /\ pending' \in [Runs -> Calls \union {None}]
    BY <1>14 DEF Stop, Send, policy, history
  <2>7. answer' \in [Runs -> Answers \union {None}]
    BY <1>14 DEF Stop, Send, policy, history
  <2>8. grants' \subseteq {Tool(c) : c \in {k \in Calls : Risk(k) = "moderate"}}
    BY <1>14 DEF Stop, Send, policy, history
  <2>9. /\ mode' \in Modes /\ saved' \in Modes /\ denied' \in BOOLEAN
        /\ autonomy' \in {AutonomyFor(m) : m \in Modes}
        /\ torn' \in BOOLEAN /\ unseen' \in BOOLEAN
        /\ registered' \subseteq Runs /\ aborted' \subseteq Runs
    BY <1>14 DEF Stop, Send, policy, history
  <2> QED
    BY <2>1, <2>2, <2>3, <2>4, <2>5, <2>6, <2>7, <2>8, <2>9
<1>15. ASSUME NEW r \in Runs, StopClear(r)
      PROVE  TypeOK'
  BY <1>15 DEF StopClear, Emit, policy, history
<1>16. CASE EndScan
  BY <1>16 DEF EndScan, Goto, policy, prompt, control
<1>17. CASE Save
  <2>1. update' \in Holders \union {None}
    BY <1>17 DEF Save, history, prompt, control, Held
  <2>2. waiting' \in [Runs -> BOOLEAN]
    BY <1>17 DEF Save, history, prompt, control, Held
  <2>3. tx' \in [Runs -> BOOLEAN]
    BY <1>17 DEF Save, history, prompt, control, Held
  <2>4. consent' \in [Runs -> BOOLEAN]
    BY <1>17 DEF Save, history, prompt, control, Held
  <2>5. pc' \in [Runs -> Places] /\ stop' \in [Runs -> {"no", "acted", "done"}]
    BY <1>17 DEF Save, history, prompt, control, Held
  <2>6. call' \in [Runs -> Calls \union {None}] /\ pending' \in [Runs -> Calls \union {None}]
    BY <1>17 DEF Save, history, prompt, control, Held
  <2>7. answer' \in [Runs -> Answers \union {None}]
    BY <1>17 DEF Save, history, prompt, control, Held
  <2>8. grants' \subseteq {Tool(c) : c \in {k \in Calls : Risk(k) = "moderate"}}
    BY <1>17 DEF Save, history, prompt, control, Held
  <2>9. /\ mode' \in Modes /\ saved' \in Modes /\ denied' \in BOOLEAN
        /\ autonomy' \in {AutonomyFor(m) : m \in Modes}
        /\ torn' \in BOOLEAN /\ unseen' \in BOOLEAN
        /\ registered' \subseteq Runs /\ aborted' \subseteq Runs
    BY <1>17 DEF Save, history, prompt, control, Held
  <2> QED
    BY <2>1, <2>2, <2>3, <2>4, <2>5, <2>6, <2>7, <2>8, <2>9
<1>18. CASE First
  <2>1. update' \in Holders \union {None}
    BY <1>18 DEF First, SetSettings, SetPermissions, history, prompt, control, Held
  <2>2. waiting' \in [Runs -> BOOLEAN]
    BY <1>18 DEF First, SetSettings, SetPermissions, history, prompt, control, Held
  <2>3. tx' \in [Runs -> BOOLEAN]
    BY <1>18 DEF First, SetSettings, SetPermissions, history, prompt, control, Held
  <2>4. consent' \in [Runs -> BOOLEAN]
    BY <1>18 DEF First, SetSettings, SetPermissions, history, prompt, control, Held
  <2>5. pc' \in [Runs -> Places] /\ stop' \in [Runs -> {"no", "acted", "done"}]
    BY <1>18 DEF First, SetSettings, SetPermissions, history, prompt, control, Held
  <2>6. call' \in [Runs -> Calls \union {None}] /\ pending' \in [Runs -> Calls \union {None}]
    BY <1>18 DEF First, SetSettings, SetPermissions, history, prompt, control, Held
  <2>7. answer' \in [Runs -> Answers \union {None}]
    BY <1>18 DEF First, SetSettings, SetPermissions, history, prompt, control, Held
  <2>8. grants' \subseteq {Tool(c) : c \in {k \in Calls : Risk(k) = "moderate"}}
    BY <1>18 DEF First, SetSettings, SetPermissions, history, prompt, control, Held
  <2>9. /\ mode' \in Modes /\ saved' \in Modes /\ denied' \in BOOLEAN
        /\ autonomy' \in {AutonomyFor(m) : m \in Modes}
        /\ torn' \in BOOLEAN /\ unseen' \in BOOLEAN
        /\ registered' \subseteq Runs /\ aborted' \subseteq Runs
    BY <1>18 DEF First, SetSettings, SetPermissions, history, prompt, control, Held
  <2> QED
    BY <2>1, <2>2, <2>3, <2>4, <2>5, <2>6, <2>7, <2>8, <2>9
<1>19. CASE Second
  <2>1. update' \in Holders \union {None}
    BY <1>19 DEF Second, Scan, SetSettings, SetPermissions, prompt, control, Held
  <2>2. waiting' \in [Runs -> BOOLEAN]
    BY <1>19 DEF Second, Scan, SetSettings, SetPermissions, prompt, control, Held
  <2>3. tx' \in [Runs -> BOOLEAN]
    BY <1>19 DEF Second, Scan, SetSettings, SetPermissions, prompt, control, Held
  <2>4. consent' \in [Runs -> BOOLEAN]
    BY <1>19 DEF Second, Scan, SetSettings, SetPermissions, prompt, control, Held
  <2>5. pc' \in [Runs -> Places] /\ stop' \in [Runs -> {"no", "acted", "done"}]
    BY <1>19 DEF Second, Scan, SetSettings, SetPermissions, prompt, control, Held
  <2>6. call' \in [Runs -> Calls \union {None}] /\ pending' \in [Runs -> Calls \union {None}]
    BY <1>19 DEF Second, Scan, SetSettings, SetPermissions, prompt, control, Held
  <2>7. answer' \in [Runs -> Answers \union {None}]
    BY <1>19 DEF Second, Scan, SetSettings, SetPermissions, prompt, control, Held
  <2>8. grants' \subseteq {Tool(c) : c \in {k \in Calls : Risk(k) = "moderate"}}
    BY <1>19 DEF Second, Scan, SetSettings, SetPermissions, prompt, control, Held
  <2>9. /\ mode' \in Modes /\ saved' \in Modes /\ denied' \in BOOLEAN
        /\ autonomy' \in {AutonomyFor(m) : m \in Modes}
        /\ torn' \in BOOLEAN /\ unseen' \in BOOLEAN
        /\ registered' \subseteq Runs /\ aborted' \subseteq Runs
    <3>1. update.mode \in Modes
      BY <1>19 DEF Second, Held
    <3>2. mode' \in {mode, update.mode} /\ saved' = saved
      BY <1>19 DEF Second, SetSettings
    <3>3. denied' \in {denied, update.denied} /\ update.denied \in BOOLEAN
      BY <1>19 DEF Second, SetSettings
    <3>4. autonomy' \in {autonomy, AutonomyFor(update.mode)}
      BY <1>19 DEF Second, SetPermissions
    <3>5. torn' = FALSE /\ unseen' = unseen /\ registered' = registered /\ aborted' = aborted
      BY <1>19 DEF Second, control
    <3>6. mode' \in Modes /\ saved' \in Modes /\ denied' \in BOOLEAN
      BY <3>1, <3>2, <3>3
    <3>7. autonomy' \in {AutonomyFor(m) : m \in Modes}
      BY <3>1, <3>4
    <3> QED
      BY <3>5, <3>6, <3>7
  <2> QED
    BY <2>1, <2>2, <2>3, <2>4, <2>5, <2>6, <2>7, <2>8, <2>9
<1>20. CASE Disconnect
  BY <1>20 DEF Disconnect, policy, prompt, control
<1>21. ASSUME NEW m \in Modes, NEW d \in Policies, BeginUpdate(m, d)
      PROVE  TypeOK'
  <2>1. update' \in Holders \union {None}
    <3>1. PICK by \in {"mode", "settings"} :
             update' = [Scan(by) EXCEPT !.mode = m, !.denied = d, !.at = "save",
                                        !.todo = {}, !.partial = FALSE]
      BY <1>21 DEF BeginUpdate
    <3>2. Scan(by) \in Holders
      BY DEF Scan
    <3>3. d \in BOOLEAN
      OBVIOUS
    <3> QED
      BY <3>1, <3>2, <3>3
  <2>2. waiting' \in [Runs -> BOOLEAN]
    BY <1>21 DEF BeginUpdate, Scan, policy, history, prompt, control
  <2>3. tx' \in [Runs -> BOOLEAN]
    BY <1>21 DEF BeginUpdate, Scan, policy, history, prompt, control
  <2>4. consent' \in [Runs -> BOOLEAN]
    BY <1>21 DEF BeginUpdate, Scan, policy, history, prompt, control
  <2>5. pc' \in [Runs -> Places] /\ stop' \in [Runs -> {"no", "acted", "done"}]
    BY <1>21 DEF BeginUpdate, Scan, policy, history, prompt, control
  <2>6. call' \in [Runs -> Calls \union {None}] /\ pending' \in [Runs -> Calls \union {None}]
    BY <1>21 DEF BeginUpdate, Scan, policy, history, prompt, control
  <2>7. answer' \in [Runs -> Answers \union {None}]
    BY <1>21 DEF BeginUpdate, Scan, policy, history, prompt, control
  <2>8. grants' \subseteq {Tool(c) : c \in {k \in Calls : Risk(k) = "moderate"}}
    BY <1>21 DEF BeginUpdate, Scan, policy, history, prompt, control
  <2>9. /\ mode' \in Modes /\ saved' \in Modes /\ denied' \in BOOLEAN
        /\ autonomy' \in {AutonomyFor(k) : k \in Modes}
        /\ torn' \in BOOLEAN /\ unseen' \in BOOLEAN
        /\ registered' \subseteq Runs /\ aborted' \subseteq Runs
    BY <1>21 DEF BeginUpdate, Scan, policy, history, prompt, control
  <2> QED
    BY <2>1, <2>2, <2>3, <2>4, <2>5, <2>6, <2>7, <2>8, <2>9
<1>22. ASSUME NEW c \in Calls, ExecuteTool(c)
      PROVE  TypeOK'
  BY <1>22 DEF ExecuteTool, policy, history, prompt, control, Risk, Tool
<1>23. CASE UNCHANGED vars
  BY <1>23 DEF vars, policy, history, prompt, control
<1> HIDE DEF AInv, TypeOK
<1> QED BY <1>1, <1>2, <1>3, <1>4, <1>5, <1>6, <1>7, <1>8, <1>9, <1>10, <1>11, <1>12, <1>13,
            <1>14, <1>15, <1>16, <1>17, <1>18, <1>19, <1>20, <1>21, <1>22, <1>23 DEF Next, Task

LEMMA StepHeld == AInv /\ [Next]_vars => Held'
<1> SUFFICES ASSUME AInv, [Next]_vars PROVE Held'
  OBVIOUS
<1> USE ApprovalAssumption, NothingAssumption DEF AInv, TypeOK, Held, Holders, Parked
<1>1. ASSUME NEW r \in Runs, Spawn(r)
      PROVE  Held'
  BY <1>1 DEF Spawn, Goto, policy, history, prompt, control
<1>2. ASSUME NEW r \in Runs, Register(r)
      PROVE  Held'
  BY <1>2 DEF Register, policy, history, prompt
<1>3. ASSUME NEW r \in Runs, Reply(r)
      PROVE  Held'
  BY <1>3 DEF Reply, Goto, Emit, Carry, policy, history, control
<1>4. ASSUME NEW r \in Runs, Consent(r)
      PROVE  Held'
  BY <1>4 DEF Consent, Goto, Emit, Refuse, policy, history, control
<1>5. ASSUME NEW r \in Runs, Done(r)
      PROVE  Held'
  BY <1>5 DEF Done, Goto, Emit, Refuse, policy, history, control
<1>6. ASSUME NEW r \in Runs, Drop(r)
      PROVE  Held'
  BY <1>6 DEF Drop, Goto, policy, history, prompt, control
<1>7. ASSUME NEW r \in Runs, Publish(r)
      PROVE  Held'
  BY <1>7 DEF Publish, Goto, policy, history, control
<1>8. ASSUME NEW r \in Runs, Announce(r)
      PROVE  Held'
  BY <1>8 DEF Announce, Goto, Emit, policy, history, control
<1>9. ASSUME NEW r \in Runs, Recheck(r)
      PROVE  Held'
  BY <1>9 DEF Recheck, Goto, Scan, policy, history, prompt, control
<1>10. ASSUME NEW r \in Runs, Resumed(r)
      PROVE  Held'
  BY <1>10 DEF Resumed, Goto, Emit, Refuse, Carry, policy, history, control
<1>11. ASSUME NEW r \in Runs, Look(r)
      PROVE  Held'
  BY <1>11 DEF Look, policy, history, prompt, control
<1>12. ASSUME NEW r \in Runs, Release(r)
      PROVE  Held'
  BY <1>12 DEF Release, Send, Releasable, policy, history, control
<1>13. ASSUME NEW r \in Runs, Resume(r)
      PROVE  Held'
  BY <1>13 DEF Resume, Send, policy, history, control
<1>14. ASSUME NEW r \in Runs, Stop(r)
      PROVE  Held'
  BY <1>14 DEF Stop, Send, policy, history
<1>15. ASSUME NEW r \in Runs, StopClear(r)
      PROVE  Held'
  BY <1>15 DEF StopClear, Emit, policy, history
<1>16. CASE EndScan
  BY <1>16 DEF EndScan, Goto, policy, prompt, control
<1>17. CASE Save
  BY <1>17 DEF Save, history, prompt, control
<1>18. CASE First
  BY <1>18 DEF First, SetSettings, SetPermissions, history, prompt, control
<1>19. CASE Second
  BY <1>19 DEF Second, Scan, SetSettings, SetPermissions, prompt, control
<1>20. CASE Disconnect
  BY <1>20 DEF Disconnect, policy, prompt, control
<1>21. ASSUME NEW m \in Modes, NEW d \in Policies, BeginUpdate(m, d)
      PROVE  Held'
  BY <1>21 DEF BeginUpdate, Scan, policy, history, prompt, control
<1>22. ASSUME NEW c \in Calls, ExecuteTool(c)
      PROVE  Held'
  BY <1>22 DEF ExecuteTool, policy, history, prompt, control
<1>23. CASE UNCHANGED vars
  BY <1>23 DEF vars, policy, history, prompt, control
<1> HIDE DEF AInv, Held
<1> QED BY <1>1, <1>2, <1>3, <1>4, <1>5, <1>6, <1>7, <1>8, <1>9, <1>10, <1>11, <1>12, <1>13,
            <1>14, <1>15, <1>16, <1>17, <1>18, <1>19, <1>20, <1>21, <1>22, <1>23 DEF Next, Task

LEMMA StepPrompted == AInv /\ [Next]_vars => Prompted'
<1> SUFFICES ASSUME AInv, [Next]_vars PROVE Prompted'
  OBVIOUS
<1> USE ApprovalAssumption, NothingAssumption DEF AInv, TypeOK, Held, Prompted, Holders,
     Answers, Asking, Parked
<1>1. ASSUME NEW r \in Runs, Spawn(r)
      PROVE  Prompted'
  BY <1>1 DEF Spawn, Goto, policy, history, prompt, control
<1>2. ASSUME NEW r \in Runs, Register(r)
      PROVE  Prompted'
  BY <1>2 DEF Register, policy, history, prompt
<1>3. ASSUME NEW r \in Runs, Reply(r)
      PROVE  Prompted'
  BY <1>3 DEF Reply, Goto, Emit, Carry, policy, history, control
<1>4. ASSUME NEW r \in Runs, Consent(r)
      PROVE  Prompted'
  BY <1>4 DEF Consent, Goto, Emit, Refuse, policy, history, control
<1>5. ASSUME NEW r \in Runs, Done(r)
      PROVE  Prompted'
  BY <1>5 DEF Done, Goto, Emit, Refuse, policy, history, control
<1>6. ASSUME NEW r \in Runs, Drop(r)
      PROVE  Prompted'
  BY <1>6 DEF Drop, Goto, policy, history, prompt, control
<1>7. ASSUME NEW r \in Runs, Publish(r)
      PROVE  Prompted'
  BY <1>7 DEF Publish, Goto, policy, history, control
<1>8. ASSUME NEW r \in Runs, Announce(r)
      PROVE  Prompted'
  BY <1>8 DEF Announce, Goto, Emit, policy, history, control
<1>9. ASSUME NEW r \in Runs, Recheck(r)
      PROVE  Prompted'
  BY <1>9 DEF Recheck, Goto, Scan, policy, history, prompt, control
<1>10. ASSUME NEW r \in Runs, Resumed(r)
      PROVE  Prompted'
  BY <1>10 DEF Resumed, Goto, Emit, Refuse, Carry, policy, history, control
<1>11. ASSUME NEW r \in Runs, Look(r)
      PROVE  Prompted'
  BY <1>11 DEF Look, policy, history, prompt, control
<1>12. ASSUME NEW r \in Runs, Release(r)
      PROVE  Prompted'
  BY <1>12 DEF Release, Send, Releasable, policy, history, control
<1>13. ASSUME NEW r \in Runs, Resume(r)
      PROVE  Prompted'
  BY <1>13 DEF Resume, Send, policy, history, control
<1>14. ASSUME NEW r \in Runs, Stop(r)
      PROVE  Prompted'
  BY <1>14 DEF Stop, Send, policy, history
<1>15. ASSUME NEW r \in Runs, StopClear(r)
      PROVE  Prompted'
  BY <1>15 DEF StopClear, Emit, policy, history
<1>16. CASE EndScan
  BY <1>16 DEF EndScan, Goto, policy, prompt, control
<1>17. CASE Save
  BY <1>17 DEF Save, history, prompt, control
<1>18. CASE First
  BY <1>18 DEF First, SetSettings, SetPermissions, history, prompt, control
<1>19. CASE Second
  BY <1>19 DEF Second, Scan, SetSettings, SetPermissions, prompt, control
<1>20. CASE Disconnect
  BY <1>20 DEF Disconnect, policy, prompt, control
<1>21. ASSUME NEW m \in Modes, NEW d \in Policies, BeginUpdate(m, d)
      PROVE  Prompted'
  BY <1>21 DEF BeginUpdate, Scan, policy, history, prompt, control
<1>22. ASSUME NEW c \in Calls, ExecuteTool(c)
      PROVE  Prompted'
  BY <1>22 DEF ExecuteTool, policy, history, prompt, control
<1>23. CASE UNCHANGED vars
  BY <1>23 DEF vars, policy, history, prompt, control
<1> HIDE DEF AInv, Prompted
<1> QED BY <1>1, <1>2, <1>3, <1>4, <1>5, <1>6, <1>7, <1>8, <1>9, <1>10, <1>11, <1>12, <1>13,
            <1>14, <1>15, <1>16, <1>17, <1>18, <1>19, <1>20, <1>21, <1>22, <1>23 DEF Next, Task

LEMMA StepJudged == AInv /\ [Next]_vars => Judged'
<1> SUFFICES ASSUME AInv, [Next]_vars PROVE Judged'
  OBVIOUS
<1> USE ApprovalAssumption, NothingAssumption DEF AInv, TypeOK, Held, Prompted, Judged,
     Holders, Answers, Asking, Parked
<1>1. ASSUME NEW r \in Runs, Spawn(r)
      PROVE  Judged'
  BY <1>1 DEF Spawn, Goto, policy, history, prompt, control
<1>2. ASSUME NEW r \in Runs, Register(r)
      PROVE  Judged'
  BY <1>2 DEF Register, policy, history, prompt
<1>3. ASSUME NEW r \in Runs, Reply(r)
      PROVE  Judged'
  BY <1>3 DEF Reply, Goto, Emit, Carry, policy, history, control
<1>4. ASSUME NEW r \in Runs, Consent(r)
      PROVE  Judged'
  BY <1>4 DEF Consent, Goto, Emit, Refuse, policy, history, control
<1>5. ASSUME NEW r \in Runs, Done(r)
      PROVE  Judged'
  BY <1>5 DEF Done, Goto, Emit, Refuse, policy, history, control
<1>6. ASSUME NEW r \in Runs, Drop(r)
      PROVE  Judged'
  BY <1>6 DEF Drop, Goto, policy, history, prompt, control
<1>7. ASSUME NEW r \in Runs, Publish(r)
      PROVE  Judged'
  BY <1>7 DEF Publish, Goto, policy, history, control
<1>8. ASSUME NEW r \in Runs, Announce(r)
      PROVE  Judged'
  BY <1>8 DEF Announce, Goto, Emit, policy, history, control
<1>9. ASSUME NEW r \in Runs, Recheck(r)
      PROVE  Judged'
  BY <1>9 DEF Recheck, Goto, Scan, policy, history, prompt, control
<1>10. ASSUME NEW r \in Runs, Resumed(r)
      PROVE  Judged'
  BY <1>10 DEF Resumed, Goto, Emit, Refuse, Carry, policy, history, control
<1>11. ASSUME NEW r \in Runs, Look(r)
      PROVE  Judged'
  BY <1>11 DEF Look, policy, history, prompt, control
<1>12. ASSUME NEW r \in Runs, Release(r)
      PROVE  Judged'
  BY <1>12 DEF Release, Send, Releasable, policy, history, control
<1>13. ASSUME NEW r \in Runs, Resume(r)
      PROVE  Judged'
  BY <1>13 DEF Resume, Send, policy, history, control
<1>14. ASSUME NEW r \in Runs, Stop(r)
      PROVE  Judged'
  BY <1>14 DEF Stop, Send, policy, history
<1>15. ASSUME NEW r \in Runs, StopClear(r)
      PROVE  Judged'
  BY <1>15 DEF StopClear, Emit, policy, history
<1>16. CASE EndScan
  BY <1>16 DEF EndScan, Goto, policy, prompt, control
<1>17. CASE Save
  BY <1>17 DEF Save, history, prompt, control
<1>18. CASE First
  BY <1>18 DEF First, SetSettings, SetPermissions, history, prompt, control
<1>19. CASE Second
  BY <1>19 DEF Second, Scan, SetSettings, SetPermissions, prompt, control
<1>20. CASE Disconnect
  BY <1>20 DEF Disconnect, policy, prompt, control
<1>21. ASSUME NEW m \in Modes, NEW d \in Policies, BeginUpdate(m, d)
      PROVE  Judged'
  BY <1>21 DEF BeginUpdate, Scan, policy, history, prompt, control
<1>22. ASSUME NEW c \in Calls, ExecuteTool(c)
      PROVE  Judged'
  BY <1>22 DEF ExecuteTool, policy, history, prompt, control
<1>23. CASE UNCHANGED vars
  BY <1>23 DEF vars, policy, history, prompt, control
<1> HIDE DEF AInv, Judged
<1> QED BY <1>1, <1>2, <1>3, <1>4, <1>5, <1>6, <1>7, <1>8, <1>9, <1>10, <1>11, <1>12, <1>13,
            <1>14, <1>15, <1>16, <1>17, <1>18, <1>19, <1>20, <1>21, <1>22, <1>23 DEF Next, Task

LEMMA StepChanging == AInv /\ [Next]_vars => Changing'
<1> SUFFICES ASSUME AInv, [Next]_vars PROVE Changing'
  OBVIOUS
<1> USE ApprovalAssumption, NothingAssumption DEF AInv, TypeOK, Held, Changing, Holders
<1>1. ASSUME NEW r \in Runs, Spawn(r)
      PROVE  Changing'
  BY <1>1 DEF Spawn, Goto, policy, history, prompt, control
<1>2. ASSUME NEW r \in Runs, Register(r)
      PROVE  Changing'
  BY <1>2 DEF Register, policy, history, prompt
<1>3. ASSUME NEW r \in Runs, Reply(r)
      PROVE  Changing'
  BY <1>3 DEF Reply, Goto, Emit, Carry, policy, history, control
<1>4. ASSUME NEW r \in Runs, Consent(r)
      PROVE  Changing'
  BY <1>4 DEF Consent, Goto, Emit, Refuse, policy, history, control
<1>5. ASSUME NEW r \in Runs, Done(r)
      PROVE  Changing'
  BY <1>5 DEF Done, Goto, Emit, Refuse, policy, history, control
<1>6. ASSUME NEW r \in Runs, Drop(r)
      PROVE  Changing'
  BY <1>6 DEF Drop, Goto, policy, history, prompt, control
<1>7. ASSUME NEW r \in Runs, Publish(r)
      PROVE  Changing'
  BY <1>7 DEF Publish, Goto, policy, history, control
<1>8. ASSUME NEW r \in Runs, Announce(r)
      PROVE  Changing'
  BY <1>8 DEF Announce, Goto, Emit, policy, history, control
<1>9. ASSUME NEW r \in Runs, Recheck(r)
      PROVE  Changing'
  BY <1>9 DEF Recheck, Goto, Scan, policy, history, prompt, control
<1>10. ASSUME NEW r \in Runs, Resumed(r)
      PROVE  Changing'
  BY <1>10 DEF Resumed, Goto, Emit, Refuse, Carry, policy, history, control
<1>11. ASSUME NEW r \in Runs, Look(r)
      PROVE  Changing'
  BY <1>11 DEF Look, policy, history, prompt, control
<1>12. ASSUME NEW r \in Runs, Release(r)
      PROVE  Changing'
  BY <1>12 DEF Release, Send, Releasable, policy, history, control
<1>13. ASSUME NEW r \in Runs, Resume(r)
      PROVE  Changing'
  BY <1>13 DEF Resume, Send, policy, history, control
<1>14. ASSUME NEW r \in Runs, Stop(r)
      PROVE  Changing'
  BY <1>14 DEF Stop, Send, policy, history
<1>15. ASSUME NEW r \in Runs, StopClear(r)
      PROVE  Changing'
  BY <1>15 DEF StopClear, Emit, policy, history
<1>16. CASE EndScan
  BY <1>16 DEF EndScan, Goto, policy, prompt, control
<1>17. CASE Save
  BY <1>17 DEF Save, history, prompt, control
<1>18. CASE First
  BY <1>18 DEF First, SetSettings, SetPermissions, history, prompt, control
<1>19. CASE Second
  BY <1>19 DEF Second, Scan, SetSettings, SetPermissions, prompt, control
<1>20. CASE Disconnect
  BY <1>20 DEF Disconnect, policy, prompt, control
<1>21. ASSUME NEW m \in Modes, NEW d \in Policies, BeginUpdate(m, d)
      PROVE  Changing'
  BY <1>21 DEF BeginUpdate, Scan, policy, history, prompt, control
<1>22. ASSUME NEW c \in Calls, ExecuteTool(c)
      PROVE  Changing'
  BY <1>22 DEF ExecuteTool, policy, history, prompt, control
<1>23. CASE UNCHANGED vars
  BY <1>23 DEF vars, policy, history, prompt, control
<1> HIDE DEF AInv, Changing
<1> QED BY <1>1, <1>2, <1>3, <1>4, <1>5, <1>6, <1>7, <1>8, <1>9, <1>10, <1>11, <1>12, <1>13,
            <1>14, <1>15, <1>16, <1>17, <1>18, <1>19, <1>20, <1>21, <1>22, <1>23 DEF Next, Task

LEMMA StepPassed == AInv /\ [Next]_vars => Passed'
<1> SUFFICES ASSUME AInv, [Next]_vars PROVE Passed'
  OBVIOUS
<1> USE ApprovalAssumption, NothingAssumption DEF AInv, TypeOK, Held, Prompted, Judged, Passed,
     Holders, Answers, Asking, Parked, Vain
<1>1. ASSUME NEW r \in Runs, Spawn(r)
      PROVE  Passed'
  BY <1>1 DEF Spawn, Goto, policy, history, prompt, control
<1>2. ASSUME NEW r \in Runs, Register(r)
      PROVE  Passed'
  BY <1>2 DEF Register, policy, history, prompt
<1>3. ASSUME NEW r \in Runs, Reply(r)
      PROVE  Passed'
  BY <1>3 DEF Reply, Goto, Emit, Carry, policy, history, control
<1>4. ASSUME NEW r \in Runs, Consent(r)
      PROVE  Passed'
  BY <1>4 DEF Consent, Goto, Emit, Refuse, policy, history, control
<1>5. ASSUME NEW r \in Runs, Done(r)
      PROVE  Passed'
  BY <1>5 DEF Done, Goto, Emit, Refuse, policy, history, control
<1>6. ASSUME NEW r \in Runs, Drop(r)
      PROVE  Passed'
  BY <1>6 DEF Drop, Goto, policy, history, prompt, control
<1>7. ASSUME NEW r \in Runs, Publish(r)
      PROVE  Passed'
  <2>1. /\ update # None => update' # None
        /\ update' # None => update # None
        /\ update # None => /\ update'.at = update.at /\ update'.by = update.by
                            /\ update'.partial = update.partial
                            /\ update'.todo = update.todo /\ update'.run = update.run
    <3>1. CASE update # None /\ update.run = r
      <4>1. update \in Holders /\ update' = [update EXCEPT !.stale = TRUE]
        BY <1>7, <3>1 DEF Publish
      <4>2. update' \in Holders
        BY <4>1
      <4> HIDE ApprovalAssumption DEF AInv, TypeOK, Held, Prompted, Judged, Passed
      <4> QED
        BY <3>1, <4>1, <4>2
    <3>2. CASE ~(update # None /\ update.run = r)
      BY <1>7, <3>2 DEF Publish
    <3> QED
      BY <3>1, <3>2
  <2>2. /\ UNCHANGED <<policy, history, call, aborted>>
        /\ pc'[r] = "announce"
        /\ \A s \in Runs \ {r} : pc'[s] = pc[s] /\ answer'[s] = answer[s]
    BY <1>7 DEF Publish, Goto, control
  <2> QED
    BY <2>1, <2>2 DEF policy, history
<1>8. ASSUME NEW r \in Runs, Announce(r)
      PROVE  Passed'
  BY <1>8 DEF Announce, Goto, Emit, policy, history, control
<1>9. ASSUME NEW r \in Runs, Recheck(r)
      PROVE  Passed'
  BY <1>9 DEF Recheck, Goto, Scan, policy, history, prompt, control
<1>10. ASSUME NEW r \in Runs, Resumed(r)
      PROVE  Passed'
  BY <1>10 DEF Resumed, Goto, Emit, Refuse, Carry, policy, history, control
<1>11. ASSUME NEW r \in Runs, Look(r)
      PROVE  Passed'
  <2>1. /\ UNCHANGED <<policy, history, pc, call, prompt, control>> /\ update.run = None
        /\ update.at = "scan" /\ update # None /\ update' # None
        /\ update'.at = update.at /\ update'.by = update.by
        /\ update'.partial = update.partial /\ update'.todo = update.todo \ {r}
        /\ pending[r] # None => update'.run = r
    <3>1. update \in Holders /\ update # None
      BY <1>11 DEF Look
    <3>2. update' = [update EXCEPT !.todo = @ \ {r}, !.run = IF pending[r] = None THEN None ELSE r,
                                   !.judged = pending[r], !.stale = FALSE]
      BY <1>11 DEF Look
    <3>3. pending[r] \in Calls \union {None}
      OBVIOUS
    <3> HIDE ApprovalAssumption DEF AInv, TypeOK, Held, Prompted, Judged, Passed
    <3>4. update' \in Holders
      BY <3>1, <3>2, <3>3
    <3> QED
      BY <1>11, <3>1, <3>2, <3>4 DEF Look
  <2>2. pc[r] \in {"parked", "scan"} /\ answer[r] = None /\ r \notin aborted => pending[r] # None
    BY DEF Prompted
  <2> QED
    BY <2>1, <2>2 DEF policy, history, prompt, control
<1>12. ASSUME NEW r \in Runs, Release(r)
      PROVE  Passed'
  <2>1. /\ UNCHANGED <<policy, history, pc, call, control>> /\ update # None /\ update' # None
        /\ update'.at = update.at /\ update'.by = update.by
        /\ update'.partial = update.partial /\ update'.todo = update.todo
        /\ update.run = r
    <3>1. update \in Holders /\ update # None
      BY <1>12 DEF Release
    <3>2. update' \in Holders
      BY <1>12, <3>1 DEF Release
    <3> HIDE ApprovalAssumption DEF AInv, TypeOK, Held, Prompted, Judged, Passed
    <3> QED
      BY <1>12, <3>1, <3>2 DEF Release
  <2>2. \A s \in Runs : answer'[s] = None => answer[s] = None
    BY <1>12 DEF Release, Send
  <2>3. ASSUME pc[r] \in {"parked", "scan"}, answer[r] = None, r \notin aborted, Vain(r)
        PROVE  answer'[r] # None
    <3>1. update.judged = call[r] /\ tx[r] /\ call[r] \in Calls
      BY <2>1, <2>3
    <3>2. Releasable(r, call[r])
      BY <2>3, <3>1 DEF Releasable, Vain, Decide, ByLevel, Risk
    <3> QED
      BY <1>12, <2>3, <3>1, <3>2 DEF Release, Send
  <2> HIDE DEF Vain
  <2> QED
    BY <2>1, <2>2, <2>3 DEF policy, history, control, Vain
<1>13. ASSUME NEW r \in Runs, Resume(r)
      PROVE  Passed'
  BY <1>13 DEF Resume, Send, policy, history, control
<1>14. ASSUME NEW r \in Runs, Stop(r)
      PROVE  Passed'
  BY <1>14 DEF Stop, Send, policy, history
<1>15. ASSUME NEW r \in Runs, StopClear(r)
      PROVE  Passed'
  BY <1>15 DEF StopClear, Emit, policy, history
<1>16. CASE EndScan
  BY <1>16 DEF EndScan, Goto, policy, prompt, control
<1>17. CASE Save
  BY <1>17 DEF Save, history, prompt, control
<1>18. CASE First
  BY <1>18 DEF First, SetSettings, SetPermissions, history, prompt, control
<1>19. CASE Second
  <2>1. /\ UNCHANGED <<pc, call, prompt, control>> /\ update' # None
        /\ update'.at = "scan" /\ update'.by = "client"
        /\ update'.todo = {s \in registered : waiting[s]}
        /\ ~update'.partial => \A s \in Runs \ registered : ~tx[s]
    <3>1. update' = Scan("client") /\ Scan("client") \in Holders
      BY <1>19 DEF Second, Scan
    <3> HIDE ApprovalAssumption DEF AInv, TypeOK, Held, Prompted, Judged, Passed
    <3>2. /\ Scan("client").at = "scan" /\ Scan("client").by = "client"
          /\ Scan("client").todo = {s \in registered : waiting[s]}
      BY DEF Scan
    <3>3. Scan("client").partial = \E s \in Runs \ registered : tx[s]
      BY Zenon DEF Scan
    <3> QED
      BY <1>19, <3>1, <3>2, <3>3 DEF Second
  <2> QED
    BY <2>1 DEF prompt, control
<1>20. CASE Disconnect
  BY <1>20 DEF Disconnect, policy, prompt, control
<1>21. ASSUME NEW m \in Modes, NEW d \in Policies, BeginUpdate(m, d)
      PROVE  Passed'
  BY <1>21 DEF BeginUpdate, Scan, policy, history, prompt, control
<1>22. ASSUME NEW c \in Calls, ExecuteTool(c)
      PROVE  Passed'
  BY <1>22 DEF ExecuteTool, policy, history, prompt, control
<1>23. CASE UNCHANGED vars
  BY <1>23 DEF vars, policy, history, prompt, control
<1> HIDE DEF AInv, Passed
<1> QED BY <1>1, <1>2, <1>3, <1>4, <1>5, <1>6, <1>7, <1>8, <1>9, <1>10, <1>11, <1>12, <1>13,
            <1>14, <1>15, <1>16, <1>17, <1>18, <1>19, <1>20, <1>21, <1>22, <1>23 DEF Next, Task
-----------------------------------------------------------------------------
LEMMA InitInv == Init => AInv
<1> SUFFICES ASSUME Init PROVE AInv
  OBVIOUS
<1> USE ApprovalAssumption, NothingAssumption DEF Init
<1>1. TypeOK
  BY DEF TypeOK, Places, Parked, Answers
<1>2. Held /\ Judged /\ Changing
  BY DEF Held, Judged, Changing
<1>3. Prompted
  BY DEF Prompted, Asking
<1>4. Passed
  BY DEF Passed
<1> QED
  BY <1>1, <1>2, <1>3, <1>4 DEF AInv

\* The parts of the invariant are preserved together: a prompt is that of the call its run
\* is about, a scan judges the call the sender is for, and a run that waits in vain is
\* one that a scan still has to look at.
THEOREM Approving == Spec => []AInv
<1>1. AInv /\ [Next]_vars => AInv'
  BY StepTypeOK, StepHeld, StepPrompted, StepJudged, StepChanging, StepPassed DEF AInv
<1> QED
  BY InitInv, <1>1, PTL DEF Spec

\* Every variable of the gate keeps its type.
THEOREM ApprovalTypeOK == Spec => []TypeOK
<1>1. AInv => TypeOK
  BY DEF AInv
<1> QED
  BY Approving, <1>1, PTL

\* For any number of runs, publishing before settings_update is taken closes both race
\* orders of await_approval: while nobody changes the settings no run waits for an answer
\* the mode gives.
THEOREM ApprovalNobodyWaitsInVain == Spec => []NobodyWaitsInVain
<1>1. AInv => NobodyWaitsInVain
  <2> SUFFICES ASSUME AInv, update = None, ~unseen, NEW r \in registered,
                      pc[r] = "parked", answer[r] = None, r \notin aborted,
                      ByLevel(autonomy, call[r])
               PROVE  call[r] = "web_search" /\ (denied \/ r \notin Searching)
    BY DEF NobodyWaitsInVain
  <2>1. r \in Runs
    BY DEF AInv, TypeOK
  <2> QED
    BY <2>1 DEF AInv, Passed, Vain
<1> QED
  BY Approving, <1>1, PTL

\* The policy the gate asks is that of the mode in the settings and in the database, for
\* any order of put_permission_mode, put_settings and lost clients.
THEOREM ApprovalModesAgree == Spec => []ModesAgree
<1>1. AInv => ModesAgree
  BY DEF AInv, Changing, ModesAgree
<1> QED
  BY Approving, <1>1, PTL

\* Only Release releases a run, and what it has judged is the call the run waits for.
LEMMA StepReleases ==
    ASSUME AInv, [Next]_vars, NEW r \in Runs,
           answer[r] = None, answer'[r] = "released", ~update.stale
    PROVE  /\ Decide(call[r])
           /\ call[r] = "web_search" => autonomy = "autonomous"
<1> USE NothingAssumption DEF AInv, TypeOK, Answers
<1>1. ASSUME Release(r)
      PROVE  /\ Decide(call[r])
             /\ call[r] = "web_search" => autonomy = "autonomous"
  <2>1. update # None /\ update.run = r /\ tx[r] /\ pc[r] # "over"
        /\ Releasable(r, update.judged)
    BY <1>1 DEF Release, Send
  <2>2. update.judged = call[r]
    BY <2>1 DEF Judged
  <2> QED
    BY <2>1, <2>2 DEF Releasable
<1>2. ASSUME NEW s \in Runs,
             \/ Spawn(s) \/ Register(s) \/ Reply(s) \/ Consent(s) \/ Done(s) \/ Drop(s)
             \/ Announce(s) \/ Recheck(s) \/ Look(s) \/ StopClear(s)
      PROVE  answer' = answer
  BY <1>2 DEF Spawn, Register, Reply, Consent, Done, Drop, Announce, Recheck, Look,
       StopClear, prompt, control
<1>3. ASSUME NEW s \in Runs, Publish(s) \/ Resumed(s) \/ Resume(s) \/ Stop(s)
      PROVE  answer'[r] # "released"
  BY <1>3 DEF Publish, Resumed, Resume, Stop, Send
<1>4. ASSUME NEW s \in Runs, Release(s), s # r
      PROVE  answer'[r] # "released"
  BY <1>4 DEF Release, Send
<1>5. ASSUME EndScan \/ Save \/ First \/ Second \/ Disconnect
      PROVE  answer' = answer
  BY <1>5 DEF EndScan, Save, First, Second, Disconnect, prompt
<1>6. ASSUME NEW m \in Modes, NEW d \in Policies, BeginUpdate(m, d)
      PROVE  answer' = answer
  BY <1>6 DEF BeginUpdate, prompt
<1>7. ASSUME NEW c \in Calls, ExecuteTool(c)
      PROVE  answer' = answer
  BY <1>7 DEF ExecuteTool, prompt
<1>8. CASE UNCHANGED vars
  BY <1>8 DEF vars, prompt
<1> HIDE DEF AInv, TypeOK
<1> QED
  BY <1>1, <1>2, <1>3, <1>4, <1>5, <1>6, <1>7, <1>8 DEF Next, Task, Answers

\* A call that the mode or a grant releases is covered by this mode or this grant, and
\* Search is released by Auto only; whatever happened between the reading of the call and
\* its release, unless the run published another call.
THEOREM ApprovalReleasesWhatItJudged == Spec => ReleasesWhatItJudged
<1>1. AInv /\ [Next]_vars =>
          [\A r \in Runs :
              answer[r] = None /\ answer'[r] = "released" /\ ~update.stale
                  => /\ Decide(call[r])
                     /\ call[r] = "web_search" => autonomy = "autonomous"]_vars
  BY StepReleases
<1> QED
  BY Approving, <1>1, PTL DEF Spec, ReleasesWhatItJudged

-----------------------------------------------------------------------------
(* The commands that an approved run leaves on the machine.                  *)

CONSTANTS Tasks, Owner, Commands, MaxIds
VARIABLE shell

Shell == INSTANCE Terminal WITH Runs <- Tasks

\* Terminal's steps as a specification.
ShellSpec == shell = Shell!New /\ [][shell' \in Shell!Next(shell)]_shell

Owners == {Owner[c] : c \in Shell!Callers}
Processes ==
    [id : Nat, cmd : Commands, owner : Owners, caller : Shell!Callers, up : BOOLEAN,
     beside : SUBSET Nat, late : BOOLEAN]
ShellCalls == {Shell!Idle} \union [kind : {"run"}, up : BOOLEAN] \union [kind : {"watch"}, process : Processes]
Shells ==
    [held : SUBSET Processes, calls : [Shell!Callers -> ShellCalls], on : SUBSET Tasks, next : Nat,
     ended : SUBSET [process : Nat, owner : Owners, by : Shell!Callers, how : {"asked", "end"}]]

Watching(t) == {c \in Shell!Callers : t.calls[c].kind = "watch"}
Alive(t) == t.held \union {t.calls[c].process : c \in Watching(t)}

\* Every command that is watched or kept is its caller's, and its id is of no other and of none
\* that was ended.
Distinct(t) ==
    /\ \A p \in Alive(t) : p.id < t.next /\ p.owner = Owner[p.caller]
    /\ \A p, q \in Alive(t) : p.id = q.id => p = q
    /\ \A c \in Watching(t) : t.calls[c].process.caller = c /\ t.calls[c].process \notin t.held
    /\ \A e \in t.ended : e.process < t.next /\ \A p \in Alive(t) : p.id # e.process

\* Of two that are the same, the later was started beside the earlier.
Beside(t) ==
    \A p, q \in Alive(t) :
        p.up /\ q.up /\ p.cmd = q.cmd /\ p.owner = q.owner /\ p.id < q.id => p.id \in q.beside

ShInv(t) ==
    /\ t \in Shells /\ Distinct(t) /\ Beside(t)
    /\ Shell!RunsLeaveNothing(t) /\ Shell!EndsStayHome(t)

-----------------------------------------------------------------------------
(* The steps, as the registry sees them.                                     *)

\* q is p, and not up unless p is.
Faded(p, q) ==
    /\ q.id = p.id /\ q.cmd = p.cmd /\ q.owner = p.owner /\ q.caller = p.caller
    /\ q.beside = p.beside /\ (q.up => p.up)

\* A foreground command.
Waits(t, u) ==
    /\ u.held = t.held /\ u.on = t.on /\ u.next = t.next /\ u.ended = t.ended
    /\ Watching(u) = Watching(t) /\ \A c \in Watching(t) : u.calls[c] = t.calls[c]
Starts(t, u) ==
    \E c \in Shell!Callers, cmd \in Commands :
        LET p == Shell!Process(t.next, cmd, c, Shell!Watched(t))
        IN /\ Shell!Same(t, c, cmd) = {} /\ c \notin Watching(t)
           /\ u.held = t.held /\ u.on = t.on /\ u.next = t.next + 1 /\ u.ended = t.ended
           /\ Watching(u) = Watching(t) \union {c} /\ u.calls[c].process = p
           /\ \A d \in Watching(t) : u.calls[d] = t.calls[d]
Settles(t, u) ==
    \E c \in Watching(t) :
        LET p == t.calls[c].process
        IN /\ u.on = t.on /\ u.next = t.next /\ u.ended = t.ended
           /\ Watching(u) = Watching(t) \ {c} /\ \A d \in Watching(u) : u.calls[d] = t.calls[d]
           /\ u.held = t.held \/ u.held = t.held \union {[p EXCEPT !.late = c \in Tasks /\ c \notin t.on]}
HeldExits(t, u) ==
    \E p \in t.held :
        /\ u.held = (t.held \ {p}) \union {[p EXCEPT !.up = FALSE]}
        /\ u.calls = t.calls /\ u.on = t.on /\ u.next = t.next /\ u.ended = t.ended
WatchedExits(t, u) ==
    \E c \in Watching(t) :
        /\ u.held = t.held /\ u.on = t.on /\ u.next = t.next /\ u.ended = t.ended
        /\ Watching(u) = Watching(t) /\ \A d \in Watching(t) \ {c} : u.calls[d] = t.calls[d]
        /\ u.calls[c].process = [t.calls[c].process EXCEPT !.up = FALSE]
Stops(t, u) ==
    \E p \in t.held, c \in Shell!Callers :
        /\ u.held = t.held \ {p} /\ u.calls = t.calls /\ u.on = t.on /\ u.next = t.next
        /\ u.ended = t.ended \union {[process |-> p.id, owner |-> p.owner, by |-> c, how |-> "asked"]}
RunsOut(t, u) ==
    \E r \in t.on :
        LET mine == {p \in t.held : p.owner = Owner[r]}
        IN /\ u.held = t.held \ mine /\ u.calls = t.calls /\ u.on = t.on \ {r} /\ u.next = t.next
           /\ u.ended = t.ended \union {[process |-> p.id, owner |-> p.owner, by |-> r, how |-> "end"] :
                                           p \in {p \in mine : p.up}}

\* A call of a caller becomes another.
LEMMA CallSet ==
    ASSUME NEW t \in Shells, NEW c \in Shell!Callers, NEW x \in ShellCalls
    PROVE  LET calls == [t.calls EXCEPT ![c] = x]
           IN /\ calls \in [Shell!Callers -> ShellCalls] /\ calls[c] = x
              /\ \A d \in Shell!Callers \ {c} : calls[d] = t.calls[d]
BY DEF Shells

LEMMA ShellSteps ==
    ASSUME NEW t \in Shells, NEW u \in Shell!Next(t)
    PROVE  /\ u \in Shells
           /\ \/ Waits(t, u) \/ Starts(t, u) \/ Settles(t, u) \/ HeldExits(t, u)
              \/ WatchedExits(t, u) \/ Stops(t, u) \/ RunsOut(t, u)
<1>0. \A c \in Shell!Callers : t.calls[c] \in ShellCalls
  BY DEF Shells
<1>1. ASSUME NEW c \in Shell!Callers, NEW cmd \in Commands, u \in Shell!RunCommand(t, c, cmd)
      PROVE  u \in Shells /\ Waits(t, u)
  <2> DEFINE x == [kind |-> "run", up |-> TRUE]
             calls == [t.calls EXCEPT ![c] = x]
  <2>1. t.calls[c] = Shell!Idle /\ u = [t EXCEPT !.calls[c] = x]
    BY <1>1 DEF Shell!RunCommand, Shell!Free
  <2>2. x \in ShellCalls /\ x.kind = "run" /\ t.calls[c].kind = "idle"
    BY <2>1 DEF ShellCalls, Shell!Idle
  <2> HIDE DEF x
  <2>3. /\ calls \in [Shell!Callers -> ShellCalls] /\ calls[c] = x
        /\ \A d \in Shell!Callers \ {c} : calls[d] = t.calls[d]
    BY <2>2, CallSet
  <2>4. u = [t EXCEPT !.calls = calls]
    BY <2>1 DEF Shells
  <2> HIDE DEF calls
  <2>5. /\ u \in Shells /\ u.calls = calls /\ u.held = t.held /\ u.on = t.on /\ u.next = t.next
        /\ u.ended = t.ended
    BY <2>3, <2>4 DEF Shells
  <2> QED BY <2>2, <2>3, <2>5 DEF Waits, Watching
<1>2. ASSUME NEW c \in Shell!Callers, NEW cmd \in Commands, u \in Shell!StartBackground(t, c, cmd)
      PROVE  u \in Shells /\ Starts(t, u)
  <2> DEFINE p == Shell!Process(t.next, cmd, c, Shell!Watched(t))
             x == [kind |-> "watch", process |-> p]
             calls == [t.calls EXCEPT ![c] = x]
  <2>1. /\ t.calls[c] = Shell!Idle /\ Shell!Same(t, c, cmd) = {}
        /\ u = [t EXCEPT !.next = @ + 1, !.calls[c] = x]
    BY <1>2 DEF Shell!StartBackground, Shell!Free
  <2>2. Shell!Watched(t) \in SUBSET Nat
    <3>1. ASSUME NEW d \in Shell!Callers, t.calls[d].kind = "watch" PROVE t.calls[d].process.id \in Nat
      BY <1>0, <3>1 DEF ShellCalls, Shell!Idle, Processes
    <3> QED BY <3>1 DEF Shell!Watched
  <2>3. p \in Processes
    BY <2>2 DEF Processes, Shell!Process, Shells, Owners
  <2>4. x \in ShellCalls /\ x.kind = "watch" /\ x.process = p /\ t.calls[c].kind = "idle"
    BY <2>1, <2>3 DEF ShellCalls, Shell!Idle
  <2> HIDE DEF x
  <2>5. /\ calls \in [Shell!Callers -> ShellCalls] /\ calls[c] = x
        /\ \A d \in Shell!Callers \ {c} : calls[d] = t.calls[d]
    BY <2>4, CallSet
  <2> DEFINE next == t.next + 1
  <2>6. u = [t EXCEPT !.next = next, !.calls = calls] /\ next \in Nat
    BY <2>1 DEF Shells
  <2> HIDE DEF calls, next
  <2>7. /\ u \in Shells /\ u.calls = calls /\ u.held = t.held /\ u.on = t.on /\ u.next = next
        /\ u.ended = t.ended
    BY <2>5, <2>6 DEF Shells
  <2>8. /\ c \notin Watching(t) /\ Watching(u) = Watching(t) \union {c} /\ u.calls[c].process = p
        /\ \A d \in Watching(t) : u.calls[d] = t.calls[d]
    BY <2>4, <2>5, <2>7 DEF Watching
  <2> HIDE DEF p
  <2> QED BY <2>1, <2>7, <2>8 DEF Starts, p, next
<1>3. ASSUME NEW c \in Shell!Callers, u \in Shell!RunEnds(t, c)
      PROVE  u \in Shells /\ Waits(t, u)
  <2> DEFINE calls == [t.calls EXCEPT ![c] = Shell!Idle]
  <2>1. t.calls[c].kind = "run" /\ u = [t EXCEPT !.calls[c] = Shell!Idle]
    BY <1>3 DEF Shell!RunEnds
  <2>2. Shell!Idle \in ShellCalls /\ Shell!Idle.kind = "idle"
    BY DEF ShellCalls, Shell!Idle
  <2>3. /\ calls \in [Shell!Callers -> ShellCalls] /\ calls[c] = Shell!Idle
        /\ \A d \in Shell!Callers \ {c} : calls[d] = t.calls[d]
    BY <2>2, CallSet
  <2>4. u = [t EXCEPT !.calls = calls]
    BY <2>1 DEF Shells
  <2> HIDE DEF calls
  <2>5. /\ u \in Shells /\ u.calls = calls /\ u.held = t.held /\ u.on = t.on /\ u.next = t.next
        /\ u.ended = t.ended
    BY <2>3, <2>4 DEF Shells
  <2> QED BY <2>1, <2>2, <2>3, <2>5 DEF Waits, Watching
<1>4. ASSUME NEW c \in Shell!Callers, u \in Shell!Settle(t, c)
      PROVE  u \in Shells /\ Settles(t, u)
  <2> DEFINE p == t.calls[c].process
             late == c \in Tasks /\ c \notin t.on
             q == [p EXCEPT !.late = late]
             calls == [t.calls EXCEPT ![c] = Shell!Idle]
             held == IF p.up THEN t.held \union {q} ELSE t.held
  <2>1. t.calls[c].kind = "watch" /\ u = [t EXCEPT !.calls[c] = Shell!Idle, !.held = held]
    BY <1>4 DEF Shell!Settle, Shells
  <2>2. Shell!Idle \in ShellCalls /\ Shell!Idle.kind = "idle"
    BY DEF ShellCalls, Shell!Idle
  <2>3. /\ calls \in [Shell!Callers -> ShellCalls] /\ calls[c] = Shell!Idle
        /\ \A d \in Shell!Callers \ {c} : calls[d] = t.calls[d]
    BY <2>2, CallSet
  <2>4. p \in Processes /\ late \in BOOLEAN
    BY <1>0, <2>1 DEF ShellCalls, Shell!Idle
  <2> HIDE DEF p, late
  <2>5. q \in Processes
    BY <2>4 DEF Processes
  <2> HIDE DEF q
  <2>6. held \in SUBSET Processes /\ (held = t.held \/ held = t.held \union {q})
    BY <2>5 DEF Shells
  <2> HIDE DEF held
  <2>7. u = [t EXCEPT !.calls = calls, !.held = held]
    BY <2>1 DEF Shells
  <2> HIDE DEF calls
  <2>8. /\ u \in Shells /\ u.calls = calls /\ u.held = held /\ u.on = t.on /\ u.next = t.next
        /\ u.ended = t.ended
    BY <2>3, <2>6, <2>7 DEF Shells
  <2>9. c \in Watching(t) /\ Watching(u) = Watching(t) \ {c} /\ \A d \in Watching(u) : u.calls[d] = t.calls[d]
    BY <2>1, <2>2, <2>3, <2>8 DEF Watching
  <2> QED BY <2>6, <2>8, <2>9 DEF Settles, q, p, late
<1>5. ASSUME NEW p \in t.held, u = [t EXCEPT !.held = (@ \ {p}) \union {[p EXCEPT !.up = FALSE]}]
      PROVE  u \in Shells /\ HeldExits(t, u)
  <2> DEFINE q == [p EXCEPT !.up = FALSE]
             held == (t.held \ {p}) \union {q}
  <2>1. p \in Processes
    BY DEF Shells
  <2>2. q \in Processes
    BY <2>1 DEF Processes
  <2> HIDE DEF q
  <2>3. held \in SUBSET Processes
    BY <2>2 DEF Shells
  <2>4. u = [t EXCEPT !.held = held]
    BY <1>5 DEF q, Shells
  <2> HIDE DEF held
  <2>5. /\ u \in Shells /\ u.calls = t.calls /\ u.held = held /\ u.on = t.on /\ u.next = t.next
        /\ u.ended = t.ended
    BY <2>3, <2>4 DEF Shells
  <2> QED BY <2>5 DEF HeldExits, held, q
<1>6. ASSUME NEW c \in Shell!Callers, t.calls[c].kind = "watch", u = [t EXCEPT !.calls[c].process.up = FALSE]
      PROVE  u \in Shells /\ WatchedExits(t, u)
  <2> DEFINE p == t.calls[c].process
             q == [p EXCEPT !.up = FALSE]
             x == [t.calls[c] EXCEPT !.process = q]
             calls == [t.calls EXCEPT ![c] = x]
  <2>1. t.calls[c] \in [kind : {"watch"}, process : Processes] /\ p \in Processes
    BY <1>0, <1>6 DEF ShellCalls, Shell!Idle
  <2>2. q \in Processes
    BY <2>1 DEF Processes
  <2>3. u = [t EXCEPT !.calls = calls]
    BY <1>6, <2>1 DEF Shells
  <2> HIDE DEF q
  <2>4. x \in ShellCalls /\ x.kind = "watch" /\ x.process = q
    BY <2>1, <2>2 DEF ShellCalls
  <2> HIDE DEF x
  <2>5. /\ calls \in [Shell!Callers -> ShellCalls] /\ calls[c] = x
        /\ \A d \in Shell!Callers \ {c} : calls[d] = t.calls[d]
    BY <2>4, CallSet
  <2> HIDE DEF calls
  <2>6. /\ u \in Shells /\ u.calls = calls /\ u.held = t.held /\ u.on = t.on /\ u.next = t.next
        /\ u.ended = t.ended
    BY <2>3, <2>5 DEF Shells
  <2>7. /\ c \in Watching(t) /\ Watching(u) = Watching(t) /\ \A d \in Watching(t) \ {c} : u.calls[d] = t.calls[d]
        /\ u.calls[c].process = q
    BY <1>6, <2>4, <2>5, <2>6 DEF Watching
  <2> QED BY <2>6, <2>7 DEF WatchedExits, q
<1>7. ASSUME NEW c \in Shell!Callers, NEW id, u \in Shell!StopOne(t, c, id)
      PROVE  u \in Shells /\ Stops(t, u)
  <2>1. PICK p \in t.held :
            u = [t EXCEPT !.held = @ \ {p},
                          !.ended = @ \union {[process |-> p.id, owner |-> p.owner, by |-> c, how |-> "asked"]}]
    BY <1>7 DEF Shell!StopOne
  <2> DEFINE e == [process |-> p.id, owner |-> p.owner, by |-> c, how |-> "asked"]
             held == t.held \ {p}
             ended == t.ended \union {e}
  <2>2. p \in Processes
    BY DEF Shells
  <2>3. e \in [process : Nat, owner : Owners, by : Shell!Callers, how : {"asked", "end"}]
    BY <2>2 DEF Processes
  <2>4. u = [t EXCEPT !.held = held, !.ended = ended]
    BY <2>1 DEF Shells
  <2> HIDE DEF e
  <2>5. held \in SUBSET Processes
        /\ ended \in SUBSET [process : Nat, owner : Owners, by : Shell!Callers, how : {"asked", "end"}]
    BY <2>3 DEF Shells
  <2> HIDE DEF held, ended
  <2>6. /\ u \in Shells /\ u.calls = t.calls /\ u.held = held /\ u.on = t.on /\ u.next = t.next
        /\ u.ended = ended
    BY <2>4, <2>5 DEF Shells
  <2> QED BY <2>6 DEF Stops, held, ended, e
<1>8. ASSUME NEW r \in Tasks, u \in Shell!EndRun(t, r)
      PROVE  u \in Shells /\ RunsOut(t, u)
  <2> DEFINE mine == {p \in t.held : p.owner = Owner[r]}
             over == {[process |-> p.id, owner |-> p.owner, by |-> r, how |-> "end"] : p \in {p \in mine : p.up}}
             held == t.held \ mine
             on == t.on \ {r}
             ended == t.ended \union over
  <2>1. r \in t.on /\ u = [t EXCEPT !.on = @ \ {r}, !.held = @ \ mine, !.ended = @ \union over]
    BY <1>8 DEF Shell!EndRun
  <2>2. r \in Shell!Callers /\ \A p \in mine : p \in Processes
    BY DEF Shells, Shell!Callers
  <2>3. ASSUME NEW p \in mine
        PROVE  [process |-> p.id, owner |-> p.owner, by |-> r, how |-> "end"]
                  \in [process : Nat, owner : Owners, by : Shell!Callers, how : {"asked", "end"}]
    <3>1. p \in Processes
      BY <2>2
    <3> QED BY <2>2, <3>1 DEF Processes
  <2> HIDE DEF mine
  <2>4. over \in SUBSET [process : Nat, owner : Owners, by : Shell!Callers, how : {"asked", "end"}]
    BY <2>3
  <2> HIDE DEF over
  <2>5. /\ held \in SUBSET Processes /\ on \in SUBSET Tasks
        /\ ended \in SUBSET [process : Nat, owner : Owners, by : Shell!Callers, how : {"asked", "end"}]
    BY <2>4 DEF Shells
  <2>6. u = [t EXCEPT !.on = on, !.held = held, !.ended = ended]
    BY <2>1 DEF Shells
  <2> HIDE DEF held, on, ended
  <2>7. /\ u \in Shells /\ u.calls = t.calls /\ u.held = held /\ u.on = on /\ u.next = t.next
        /\ u.ended = ended
    BY <2>5, <2>6 DEF Shells
  <2> QED BY <2>1, <2>7 DEF RunsOut, held, on, ended, over, mine
<1> DEFINE A == UNION {Shell!RunCommand(t, c, cmd) \union Shell!StartBackground(t, c, cmd) :
                          c \in Shell!Callers, cmd \in Commands}
           B == UNION {Shell!RunEnds(t, c) \union Shell!Settle(t, c) : c \in Shell!Callers}
           C == UNION {Shell!StopOne(t, c, id) : c \in Shell!Callers, id \in 1..MaxIds}
           D == UNION {Shell!EndRun(t, r) : r \in Tasks}
<1>9. u \in A \union B \union C \union D \union Shell!Exits(t)
  BY DEF Shell!Next
<1>10. CASE u \in A
  <2>1. PICK c \in Shell!Callers, cmd \in Commands :
            u \in Shell!RunCommand(t, c, cmd) \union Shell!StartBackground(t, c, cmd)
    BY <1>10
  <2> QED BY <1>1, <1>2, <2>1
<1>11. CASE u \in B
  BY <1>3, <1>4, <1>11
<1>12. CASE u \in C
  BY <1>7, <1>12
<1>13. CASE u \in D
  BY <1>8, <1>13
<1>14. CASE u \in Shell!Exits(t)
  <2>1. \/ \E p \in t.held : u = [t EXCEPT !.held = (@ \ {p}) \union {[p EXCEPT !.up = FALSE]}]
        \/ \E c \in Shell!Callers : t.calls[c].kind = "watch" /\ u = [t EXCEPT !.calls[c].process.up = FALSE]
    BY <1>14 DEF Shell!Exits
  <2> QED BY <1>5, <1>6, <2>1
<1> HIDE DEF A, B, C, D
<1> QED BY <1>9, <1>10, <1>11, <1>12, <1>13, <1>14

-----------------------------------------------------------------------------
\* What is kept or watched after a step was before, as it was or not up any more.
LEMMA Fading ==
    ASSUME NEW t, NEW u, Beside(t), \A q \in Alive(u) : \E p \in Alive(t) : Faded(p, q)
    PROVE  Beside(u)
<1> SUFFICES ASSUME NEW q1 \in Alive(u), NEW q2 \in Alive(u), q1.up, q2.up, q1.cmd = q2.cmd,
                    q1.owner = q2.owner, q1.id < q2.id
             PROVE  q1.id \in q2.beside
  BY DEF Beside
<1>1. PICK p1 \in Alive(t) : Faded(p1, q1)
  OBVIOUS
<1>2. PICK p2 \in Alive(t) : Faded(p2, q2)
  OBVIOUS
<1>3. /\ p1.up /\ p2.up /\ p1.cmd = p2.cmd /\ p1.owner = p2.owner
      /\ p1.id = q1.id /\ p2.id = q2.id /\ p2.beside = q2.beside
  BY <1>1, <1>2 DEF Faded
<1>4. p1.id < p2.id
  BY <1>3
<1>5. p1.id \in p2.beside
  BY <1>3, <1>4 DEF Beside
<1> QED BY <1>3, <1>5

\* One process, watched or kept, is seen in another state or place.
LEMMA Replaced ==
    ASSUME NEW t, NEW u, Distinct(t), Beside(t), NEW p \in Alive(t), NEW q, Faded(p, q),
           Alive(u) \subseteq (Alive(t) \ {p}) \union {q}, u.next = t.next, u.ended = t.ended
    PROVE  /\ Beside(u)
           /\ \A x \in Alive(u) : x.id < u.next /\ x.owner = Owner[x.caller]
           /\ \A x, y \in Alive(u) : x.id = y.id => x = y
           /\ \A e \in u.ended : e.process < u.next /\ \A x \in Alive(u) : x.id # e.process
<1>1. \A x \in Alive(u) : (x \in Alive(t) /\ x # p) \/ x = q
  OBVIOUS
<1>2. \A x \in Alive(u) : \E y \in Alive(t) : Faded(y, x)
  BY <1>1 DEF Faded
<1>3. \A x \in Alive(t) : x # p => x.id # q.id
  BY DEF Distinct, Faded
<1>4. Beside(u)
  BY <1>2, Fading
<1>5. \A x \in Alive(u) : x.id < u.next /\ x.owner = Owner[x.caller]
  <2>1. ASSUME NEW x \in Alive(u) PROVE x.id < u.next /\ x.owner = Owner[x.caller]
    <3>1. PICK y \in Alive(t) : Faded(y, x)
      BY <1>2
    <3>2. y.id < t.next /\ y.owner = Owner[y.caller]
      BY DEF Distinct
    <3> QED BY <3>1, <3>2 DEF Faded
  <2> QED BY <2>1
<1>6. ASSUME NEW x \in Alive(u), NEW y \in Alive(u), x.id = y.id PROVE x = y
  <2>1. CASE x = q \/ y = q
    BY <1>1, <1>3, <1>6, <2>1
  <2>2. CASE x # q /\ y # q
    BY <1>1, <1>6, <2>2 DEF Distinct
  <2> QED BY <2>1, <2>2
<1>7. ASSUME NEW e \in u.ended PROVE e.process < u.next /\ \A x \in Alive(u) : x.id # e.process
  <2>1. e.process < t.next /\ \A y \in Alive(t) : y.id # e.process
    BY DEF Distinct
  <2>2. ASSUME NEW x \in Alive(u) PROVE x.id # e.process
    BY <1>2, <2>1, <2>2 DEF Faded
  <2> QED BY <2>1, <2>2
<1> QED BY <1>4, <1>5, <1>6, <1>7

LEMMA ShellDistinct ==
    ASSUME NEW t, NEW u \in Shell!Next(t), ShInv(t)
    PROVE  Distinct(u) /\ Beside(u)
<1>1. t \in Shells /\ Distinct(t) /\ Beside(t) /\ u \in Shells
  BY ShellSteps DEF ShInv
<1>2. /\ \A p \in Alive(t) : p \in Processes /\ p.id \in Nat /\ p.beside \in SUBSET Nat
      /\ t.next \in Nat /\ \A e \in t.ended : e.process \in Nat
  <2>1. \A p \in Alive(t) : p \in Processes
    <3>1. ASSUME NEW c \in Watching(t) PROVE t.calls[c].process \in Processes
      <4>1. t.calls[c] \in ShellCalls /\ t.calls[c].kind = "watch"
        BY <1>1, <3>1 DEF Watching, Shells
      <4> QED BY <4>1 DEF ShellCalls, Shell!Idle
    <3> QED BY <1>1, <3>1 DEF Alive, Shells
  <2> QED BY <1>1, <2>1 DEF Shells, Processes
<1>3. /\ \A c \in Watching(t) : t.calls[c].process \in Alive(t) /\ t.calls[c].process \notin t.held
      /\ \A c, d \in Watching(t) : c # d => t.calls[c].process # t.calls[d].process
      /\ t.held \subseteq Alive(t)
  BY <1>1 DEF Distinct, Alive
<1>4. CASE Waits(t, u)
  <2>1. Alive(u) = Alive(t) /\ u.next = t.next /\ u.ended = t.ended /\ u.held = t.held
    BY <1>4 DEF Waits, Alive
  <2> QED BY <1>1, <1>4, <2>1 DEF Distinct, Beside, Waits
<1>5. CASE Starts(t, u)
  <2>1. PICK c \in Shell!Callers, cmd \in Commands :
            LET p == Shell!Process(t.next, cmd, c, Shell!Watched(t))
            IN /\ Shell!Same(t, c, cmd) = {} /\ c \notin Watching(t)
               /\ u.held = t.held /\ u.on = t.on /\ u.next = t.next + 1 /\ u.ended = t.ended
               /\ Watching(u) = Watching(t) \union {c} /\ u.calls[c].process = p
               /\ \A d \in Watching(t) : u.calls[d] = t.calls[d]
    BY <1>5 DEF Starts
  <2> DEFINE p == Shell!Process(t.next, cmd, c, Shell!Watched(t))
  <2>2. p.id = t.next /\ p.cmd = cmd /\ p.owner = Owner[c] /\ p.caller = c /\ p.beside = Shell!Watched(t)
    BY DEF Shell!Process
  <2>3. u.held = t.held /\ u.next = t.next + 1 /\ u.ended = t.ended
        /\ Watching(u) = Watching(t) \union {c} /\ u.calls[c].process = p /\ c \notin Watching(t)
        /\ \A d \in Watching(t) : u.calls[d] = t.calls[d]
    BY <2>1
  <2> HIDE DEF p
  <2>4. Alive(u) = Alive(t) \union {p}
    BY <2>3 DEF Alive
  <2>5. \A x \in Alive(t) : x.id < p.id /\ x.id < u.next /\ x.owner = Owner[x.caller]
    BY <1>1, <1>2, <2>2, <2>3 DEF Distinct
  <2>6. p.id < u.next /\ p.id \in Nat
    BY <1>2, <2>2, <2>3
  <2>7. \A x, y \in Alive(u) : x.id = y.id => x = y
    BY <1>1, <1>2, <2>4, <2>5, <2>6 DEF Distinct
  <2>8. ASSUME NEW d \in Watching(u)
        PROVE  u.calls[d].process.caller = d /\ u.calls[d].process \notin u.held
    <3>1. CASE d = c
      <4>1. p \notin t.held
        BY <1>2, <1>3, <2>5, <2>6
      <4> QED BY <2>2, <2>3, <3>1, <4>1
    <3>2. CASE d # c
      BY <1>1, <2>3, <3>2 DEF Distinct
    <3> QED BY <3>1, <3>2
  <2>9. ASSUME NEW e \in u.ended
        PROVE  e.process < u.next /\ \A x \in Alive(u) : x.id # e.process
    <3>1. e \in t.ended /\ e.process < t.next /\ e.process \in Nat
      BY <1>1, <1>2, <2>3 DEF Distinct
    <3>2. e.process < u.next /\ p.id # e.process
      BY <1>2, <2>2, <2>3, <3>1
    <3> QED BY <1>1, <2>4, <3>1, <3>2 DEF Distinct
  <2>10. Distinct(u)
    BY <2>2, <2>4, <2>5, <2>6, <2>7, <2>8, <2>9 DEF Distinct
  <2>11. ASSUME NEW x \in Alive(t), x.up, x.cmd = p.cmd, x.owner = p.owner PROVE x.id \in p.beside
    <3>1. x \notin t.held
      BY <2>1, <2>2, <2>11 DEF Shell!Same
    <3>2. PICK d \in Watching(t) : x = t.calls[d].process
      BY <3>1 DEF Alive
    <3> QED BY <2>2, <3>2 DEF Shell!Watched, Watching
  <2>12. Beside(u)
    <3> SUFFICES ASSUME NEW x \in Alive(u), NEW y \in Alive(u), x.up, y.up, x.cmd = y.cmd,
                        x.owner = y.owner, x.id < y.id
                 PROVE  x.id \in y.beside
      BY DEF Beside
    <3>1. CASE x \in Alive(t) /\ y \in Alive(t)
      BY <1>1, <3>1 DEF Beside
    <3>2. CASE x \in Alive(t) /\ y = p
      BY <2>11, <3>2
    <3>3. CASE x = p
      BY <1>2, <2>4, <2>5, <2>6, <3>3
    <3> QED BY <2>4, <3>1, <3>2, <3>3
  <2> QED BY <2>10, <2>12
<1>6. CASE Settles(t, u)
  <2>1. PICK c \in Watching(t) :
            LET p == t.calls[c].process
            IN /\ u.on = t.on /\ u.next = t.next /\ u.ended = t.ended
               /\ Watching(u) = Watching(t) \ {c} /\ \A d \in Watching(u) : u.calls[d] = t.calls[d]
               /\ u.held = t.held \/ u.held = t.held \union {[p EXCEPT !.late = c \in Tasks /\ c \notin t.on]}
    BY <1>6 DEF Settles
  <2> DEFINE p == t.calls[c].process
             q == [p EXCEPT !.late = c \in Tasks /\ c \notin t.on]
  <2>2. p \in Alive(t) /\ p \in Processes /\ p \notin t.held
    BY <1>2, <1>3
  <2>3. Faded(p, q)
    BY <2>2 DEF Faded, Processes
  <2>4. /\ u.next = t.next /\ u.ended = t.ended /\ u.held \subseteq t.held \union {q}
        /\ Watching(u) = Watching(t) \ {c} /\ \A d \in Watching(u) : u.calls[d] = t.calls[d]
    BY <2>1
  <2>5. \A d \in Watching(u) : t.calls[d].process \in Alive(t) /\ t.calls[d].process # p
    BY <1>3, <2>4
  <2> HIDE DEF p, q
  <2>6. Alive(u) \subseteq (Alive(t) \ {p}) \union {q}
    BY <1>3, <2>2, <2>4, <2>5 DEF Alive
  <2>7. /\ Beside(u)
        /\ \A x \in Alive(u) : x.id < u.next /\ x.owner = Owner[x.caller]
        /\ \A x, y \in Alive(u) : x.id = y.id => x = y
        /\ \A e \in u.ended : e.process < u.next /\ \A x \in Alive(u) : x.id # e.process
    BY <1>1, <2>2, <2>3, <2>4, <2>6, Replaced
  <2>8. ASSUME NEW d \in Watching(u)
        PROVE  u.calls[d].process.caller = d /\ u.calls[d].process \notin u.held
    <3>1. u.calls[d].process = t.calls[d].process /\ d \in Watching(t)
      BY <2>4
    <3>2. t.calls[d].process # q
      BY <1>1, <2>2, <2>3, <2>5 DEF Distinct, Faded
    <3> QED BY <1>1, <2>4, <3>1, <3>2 DEF Distinct
  <2> QED BY <2>7, <2>8 DEF Distinct
<1>7. CASE HeldExits(t, u)
  <2>1. PICK p \in t.held :
            /\ u.held = (t.held \ {p}) \union {[p EXCEPT !.up = FALSE]}
            /\ u.calls = t.calls /\ u.on = t.on /\ u.next = t.next /\ u.ended = t.ended
    BY <1>7 DEF HeldExits
  <2> DEFINE q == [p EXCEPT !.up = FALSE]
  <2>2. p \in Alive(t) /\ p \in Processes
    BY <1>2, <1>3
  <2>3. Faded(p, q)
    BY <2>2 DEF Faded, Processes
  <2>4. /\ u.held = (t.held \ {p}) \union {q} /\ u.calls = t.calls /\ u.next = t.next /\ u.ended = t.ended
        /\ Watching(u) = Watching(t)
    BY <2>1 DEF Watching
  <2> HIDE DEF q
  <2>5. \A d \in Watching(t) : t.calls[d].process # p
    BY <1>3
  <2>6. Alive(u) \subseteq (Alive(t) \ {p}) \union {q}
    BY <1>3, <2>4, <2>5 DEF Alive
  <2>7. /\ Beside(u)
        /\ \A x \in Alive(u) : x.id < u.next /\ x.owner = Owner[x.caller]
        /\ \A x, y \in Alive(u) : x.id = y.id => x = y
        /\ \A e \in u.ended : e.process < u.next /\ \A x \in Alive(u) : x.id # e.process
    BY <1>1, <2>2, <2>3, <2>4, <2>6, Replaced
  <2>8. ASSUME NEW d \in Watching(u)
        PROVE  u.calls[d].process.caller = d /\ u.calls[d].process \notin u.held
    <3>1. u.calls[d].process = t.calls[d].process /\ d \in Watching(t) /\ t.calls[d].process \in Alive(t)
      BY <1>3, <2>4
    <3>2. t.calls[d].process # q
      BY <1>1, <2>2, <2>3, <2>5, <3>1 DEF Distinct, Faded
    <3> QED BY <1>1, <2>4, <3>1, <3>2 DEF Distinct
  <2> QED BY <2>7, <2>8 DEF Distinct
<1>8. CASE WatchedExits(t, u)
  <2>1. PICK c \in Watching(t) :
            /\ u.held = t.held /\ u.on = t.on /\ u.next = t.next /\ u.ended = t.ended
            /\ Watching(u) = Watching(t) /\ \A d \in Watching(t) \ {c} : u.calls[d] = t.calls[d]
            /\ u.calls[c].process = [t.calls[c].process EXCEPT !.up = FALSE]
    BY <1>8 DEF WatchedExits
  <2> DEFINE p == t.calls[c].process
             q == [p EXCEPT !.up = FALSE]
  <2>2. p \in Alive(t) /\ p \in Processes /\ p \notin t.held
    BY <1>2, <1>3
  <2>3. Faded(p, q)
    BY <2>2 DEF Faded, Processes
  <2>4. /\ u.held = t.held /\ u.next = t.next /\ u.ended = t.ended /\ u.calls[c].process = q
        /\ Watching(u) = Watching(t) /\ \A d \in Watching(t) \ {c} : u.calls[d] = t.calls[d]
    BY <2>1
  <2>5. p.caller = c /\ \A d \in Watching(t) : d # c => t.calls[d].process \in Alive(t) /\ t.calls[d].process # p
    BY <1>1, <1>3 DEF Distinct
  <2> HIDE DEF p, q
  <2>6. Alive(u) \subseteq (Alive(t) \ {p}) \union {q}
    BY <1>3, <2>2, <2>4, <2>5 DEF Alive
  <2>7. /\ Beside(u)
        /\ \A x \in Alive(u) : x.id < u.next /\ x.owner = Owner[x.caller]
        /\ \A x, y \in Alive(u) : x.id = y.id => x = y
        /\ \A e \in u.ended : e.process < u.next /\ \A x \in Alive(u) : x.id # e.process
    BY <1>1, <2>2, <2>3, <2>4, <2>6, Replaced
  <2>8. q \notin t.held
    BY <1>1, <1>3, <2>2, <2>3 DEF Distinct, Faded
  <2>9. ASSUME NEW d \in Watching(u)
        PROVE  u.calls[d].process.caller = d /\ u.calls[d].process \notin u.held
    <3>1. CASE d = c
      BY <2>3, <2>4, <2>5, <2>8, <3>1 DEF Faded
    <3>2. CASE d # c
      BY <1>1, <2>4, <3>2 DEF Distinct
    <3> QED BY <3>1, <3>2
  <2> QED BY <2>7, <2>9 DEF Distinct
<1>9. ASSUME NEW gone \in SUBSET t.held, u.held = t.held \ gone, u.calls = t.calls, u.next = t.next,
             \A e \in u.ended : e \in t.ended \/ \E p \in gone : e.process = p.id
      PROVE  Distinct(u) /\ Beside(u)
  <2>1. Watching(u) = Watching(t)
    BY <1>9 DEF Watching
  <2>2. \A d \in Watching(t) : t.calls[d].process \notin gone
    BY <1>3
  <2>3. Alive(u) \subseteq Alive(t) \ gone
    BY <1>9, <2>1, <2>2 DEF Alive
  <2>4. \A x \in Alive(u), p \in gone : x \in Alive(t) /\ x.id # p.id
    BY <1>1, <1>3, <2>3 DEF Distinct
  <2>5. \A p \in gone : p.id < t.next
    BY <1>1, <1>3 DEF Distinct
  <2>6. ASSUME NEW e \in u.ended
        PROVE  e.process < u.next /\ \A x \in Alive(u) : x.id # e.process
    <3>1. CASE e \in t.ended
      BY <1>1, <1>9, <2>3, <3>1 DEF Distinct
    <3>2. ASSUME NEW p \in gone, e.process = p.id
          PROVE  e.process < u.next /\ \A x \in Alive(u) : x.id # e.process
      BY <1>9, <2>4, <2>5, <3>2
    <3> QED BY <1>9, <3>1, <3>2
  <2>7. Distinct(u)
    BY <1>1, <1>9, <2>1, <2>3, <2>6 DEF Distinct
  <2>8. \A x \in Alive(u) : \E y \in Alive(t) : Faded(y, x)
    BY <2>3 DEF Faded
  <2> QED BY <1>1, <2>7, <2>8, Fading
<1>10. CASE Stops(t, u)
  <2>1. PICK p \in t.held, c \in Shell!Callers :
            /\ u.held = t.held \ {p} /\ u.calls = t.calls /\ u.on = t.on /\ u.next = t.next
            /\ u.ended = t.ended \union {[process |-> p.id, owner |-> p.owner, by |-> c, how |-> "asked"]}
    BY <1>10 DEF Stops
  <2>2. {p} \in SUBSET t.held /\ \A e \in u.ended : e \in t.ended \/ \E x \in {p} : e.process = x.id
    BY <2>1
  <2> QED BY <1>9, <2>1, <2>2
<1>11. CASE RunsOut(t, u)
  <2>1. PICK r \in t.on :
            LET mine == {p \in t.held : p.owner = Owner[r]}
            IN /\ u.held = t.held \ mine /\ u.calls = t.calls /\ u.on = t.on \ {r} /\ u.next = t.next
               /\ u.ended = t.ended \union {[process |-> p.id, owner |-> p.owner, by |-> r, how |-> "end"] :
                                               p \in {p \in mine : p.up}}
    BY <1>11 DEF RunsOut
  <2> DEFINE mine == {p \in t.held : p.owner = Owner[r]}
  <2>2. /\ mine \in SUBSET t.held /\ u.held = t.held \ mine /\ u.calls = t.calls /\ u.next = t.next
        /\ u.ended = t.ended \union {[process |-> p.id, owner |-> p.owner, by |-> r, how |-> "end"] :
                                        p \in {p \in mine : p.up}}
    BY <2>1
  <2> HIDE DEF mine
  <2>3. \A e \in u.ended : e \in t.ended \/ \E x \in mine : e.process = x.id
    BY <2>2
  <2> QED BY <1>9, <2>2, <2>3
<1> QED BY <1>1, <1>4, <1>5, <1>6, <1>7, <1>8, <1>10, <1>11, ShellSteps

-----------------------------------------------------------------------------
(* What the end of a run leaves.                                             *)

LEMMA ShellEnds ==
    ASSUME NEW t, NEW u \in Shell!Next(t), ShInv(t)
    PROVE  Shell!RunsLeaveNothing(u) /\ Shell!EndsStayHome(u)
<1>1. /\ t \in Shells /\ Distinct(t) /\ Shell!RunsLeaveNothing(t) /\ Shell!EndsStayHome(t)
      /\ t.held \subseteq Alive(t)
  BY DEF ShInv, Alive
<1>2. CASE u.held \subseteq t.held /\ u.on = t.on /\ u.ended = t.ended
  BY <1>1, <1>2 DEF Shell!RunsLeaveNothing, Shell!EndsStayHome
<1>3. CASE Waits(t, u) \/ Starts(t, u) \/ WatchedExits(t, u)
  BY <1>2, <1>3 DEF Waits, Starts, WatchedExits
<1>4. CASE Settles(t, u)
  <2>1. PICK c \in Watching(t) :
            LET p == t.calls[c].process
            IN /\ u.on = t.on /\ u.ended = t.ended
               /\ u.held = t.held \/ u.held = t.held \union {[p EXCEPT !.late = c \in Tasks /\ c \notin t.on]}
    BY <1>4 DEF Settles
  <2> DEFINE p == t.calls[c].process
             q == [p EXCEPT !.late = c \in Tasks /\ c \notin t.on]
  <2>2. p.owner = Owner[c] /\ p.caller = c /\ p \in Processes
    <3>1. p \in Alive(t) /\ t.calls[c] \in ShellCalls /\ t.calls[c].kind = "watch"
      BY <1>1 DEF Alive, Watching, Shells
    <3>2. p \in Processes
      BY <3>1 DEF ShellCalls, Shell!Idle
    <3> QED BY <1>1, <3>1, <3>2 DEF Distinct
  <2>3. q.owner = Owner[c] /\ q.caller = c /\ q.late = (c \in Tasks /\ c \notin t.on)
    BY <2>2 DEF Processes
  <2>4. u.on = t.on /\ u.ended = t.ended /\ u.held \subseteq t.held \union {q}
    BY <2>1
  <2> HIDE DEF p, q
  <2>5. ASSUME NEW x \in u.held, x.up, x.caller \in Tasks
        PROVE  x.late \/ \E r \in u.on : Owner[r] = x.owner
    <3>1. CASE x \in t.held
      BY <1>1, <2>4, <2>5, <3>1 DEF Shell!RunsLeaveNothing
    <3>2. CASE x = q
      <4>1. c \in Tasks
        BY <2>3, <2>5, <3>2
      <4>2. CASE c \in t.on
        BY <2>3, <2>4, <3>2, <4>2
      <4>3. CASE c \notin t.on
        BY <2>3, <3>2, <4>1, <4>3
      <4> QED BY <4>2, <4>3
    <3> QED BY <2>4, <3>1, <3>2
  <2> QED BY <1>1, <2>4, <2>5 DEF Shell!RunsLeaveNothing, Shell!EndsStayHome
<1>5. CASE HeldExits(t, u)
  <2>1. PICK p \in t.held :
            /\ u.held = (t.held \ {p}) \union {[p EXCEPT !.up = FALSE]}
            /\ u.on = t.on /\ u.ended = t.ended
    BY <1>5 DEF HeldExits
  <2>2. ~[p EXCEPT !.up = FALSE].up
    BY <1>1, <2>1 DEF Shells, Processes
  <2>3. \A x \in u.held : x.up => x \in t.held
    BY <2>1, <2>2
  <2> QED BY <1>1, <2>1, <2>3 DEF Shell!RunsLeaveNothing, Shell!EndsStayHome
<1>6. CASE Stops(t, u)
  <2>1. PICK p \in t.held, c \in Shell!Callers :
            /\ u.held = t.held \ {p} /\ u.on = t.on
            /\ u.ended = t.ended \union {[process |-> p.id, owner |-> p.owner, by |-> c, how |-> "asked"]}
    BY <1>6 DEF Stops
  <2>2. \A e \in u.ended : e.how = "end" => e \in t.ended
    BY <2>1
  <2> QED BY <1>1, <2>1, <2>2 DEF Shell!RunsLeaveNothing, Shell!EndsStayHome
<1>7. CASE RunsOut(t, u)
  <2>1. PICK r \in t.on :
            LET mine == {p \in t.held : p.owner = Owner[r]}
            IN /\ u.held = t.held \ mine /\ u.on = t.on \ {r}
               /\ u.ended = t.ended \union {[process |-> p.id, owner |-> p.owner, by |-> r, how |-> "end"] :
                                               p \in {p \in mine : p.up}}
    BY <1>7 DEF RunsOut
  <2>2. ASSUME NEW x \in u.held, x.up, x.caller \in Tasks
        PROVE  x.late \/ \E s \in u.on : Owner[s] = x.owner
    <3>1. x \in t.held /\ x.owner # Owner[r]
      BY <2>1
    <3>2. CASE \E s \in t.on : Owner[s] = x.owner
      BY <2>1, <3>1, <3>2
    <3> QED BY <1>1, <2>2, <3>1, <3>2 DEF Shell!RunsLeaveNothing
  <2>3. ASSUME NEW e \in u.ended, e.how = "end" PROVE e.owner = Owner[e.by]
    <3>1. CASE e \in t.ended
      BY <1>1, <2>3, <3>1 DEF Shell!EndsStayHome
    <3>2. CASE e \notin t.ended
      BY <2>1, <3>2
    <3> QED BY <3>1, <3>2
  <2> QED BY <2>2, <2>3 DEF Shell!RunsLeaveNothing, Shell!EndsStayHome
<1> QED BY <1>1, <1>3, <1>4, <1>5, <1>6, <1>7, ShellSteps

LEMMA ShellBegins == ShInv(Shell!New)
<1> SUFFICES ASSUME NEW t, t = Shell!New PROVE ShInv(t)
  OBVIOUS
<1>1. /\ t.held = {} /\ t.ended = {} /\ t.next = 1 /\ t.on = Tasks
      /\ t.calls = [c \in Shell!Callers |-> Shell!Idle]
  BY DEF Shell!New
<1>2. t \in Shells
  BY DEF Shell!New, Shells, ShellCalls
<1>3. Watching(t) = {}
  BY <1>1 DEF Watching, Shell!Idle
<1>4. Alive(t) = {}
  BY <1>1, <1>3 DEF Alive
<1> QED BY <1>1, <1>2, <1>3, <1>4
        DEF ShInv, Distinct, Beside, Shell!RunsLeaveNothing, Shell!EndsStayHome

LEMMA ShellIsSound ==
    ASSUME NEW t, ShInv(t)
    PROVE  Shell!TerminalHolds(t)
<1>1. Distinct(t) /\ Beside(t) /\ t.held \subseteq Alive(t)
  BY DEF ShInv, Alive
<1>2. Shell!OneOfEach(t)
  BY <1>1 DEF Beside, Shell!OneOfEach
<1>3. ASSUME NEW p \in t.held PROVE p.id \notin Shell!Watched(t)
  <2>1. SUFFICES ASSUME NEW c \in Watching(t), p.id = t.calls[c].process.id PROVE FALSE
    BY DEF Shell!Watched, Watching
  <2>2. t.calls[c].process \in Alive(t) /\ t.calls[c].process \notin t.held
    BY <1>1 DEF Alive, Distinct
  <2> QED BY <1>1, <2>1, <2>2 DEF Distinct
<1>4. Shell!IdsAreOnes(t)
  BY <1>1, <1>3 DEF Distinct, Shell!IdsAreOnes
<1> QED BY <1>2, <1>4 DEF ShInv, Shell!TerminalHolds

(* Commands in the background, for any runs, callers, workspaces and number  *)
(* of commands: once no run of a workspace is on, none that one of them      *)
(* started is up but what was still being watched when its run ended; the    *)
(* same command is up twice only if both were started at once; the end of a  *)
(* run ends nothing of another workspace; and an id is of one command.       *)
THEOREM CommandsEndWithTheirRun == ShellSpec => []Shell!TerminalHolds(shell)
<1>1. shell = Shell!New => ShInv(shell)
  BY ShellBegins
<1>2. ShInv(shell) /\ [shell' \in Shell!Next(shell)]_shell => ShInv(shell)'
  <2>1. ASSUME ShInv(shell), shell' \in Shell!Next(shell) PROVE ShInv(shell')
    <3>1. Distinct(shell') /\ Beside(shell')
      BY <2>1, ShellDistinct
    <3>2. Shell!RunsLeaveNothing(shell') /\ Shell!EndsStayHome(shell')
      BY <2>1, ShellEnds
    <3>3. shell' \in Shells
      BY <2>1, ShellSteps DEF ShInv
    <3> QED BY <3>1, <3>2, <3>3 DEF ShInv
  <2>2. ASSUME ShInv(shell), shell' = shell PROVE ShInv(shell')
    BY <2>2
  <2>3. ShInv(shell') => ShInv(shell)'
    OBVIOUS
  <2> QED BY <2>1, <2>2, <2>3
<1>3. ShInv(shell) => Shell!TerminalHolds(shell)
  BY ShellIsSound
<1> QED BY <1>1, <1>2, <1>3, PTL DEF ShellSpec
=============================================================================
