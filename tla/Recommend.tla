------------------------------ MODULE Recommend ------------------------------
(***************************************************************************)
(* The context the owner is advised to choose: recommend (recommend.rs)    *)
(* for the model page, and optimize (daio.rs) for the placement page.      *)
(*                                                                         *)
(* A case is a machine and a model.  Memory is in tenths of a GB and the   *)
(* KV cache of a context in tenths of a GB for each 4096 tokens (kv); what *)
(* the code keeps as a fraction is kept here in hundredths.  An advice is  *)
(* the context in steps of 4096 tokens, with the verdict on every step.    *)
(*                                                                         *)
(* A definition named ..._Wrong is the one after it with one mistake; no   *)
(* specification uses it.                                                  *)
(***************************************************************************)
EXTENDS Integers, FiniteSets, FiniteSetsExt

Steps == {1, 2, 4, 8, 16, 32}      \* 4096 to 131072 tokens
Clip(n) == IF n < 0 THEN 0 ELSE n

-----------------------------------------------------------------------------
(* recommend.  All amounts in hundredths of a tenth of a GB.                 *)

Reserve == 15                  \* SAFETY_RESERVE
Overhead == 10                 \* COMPUTE_OVERHEAD
PerImage == 37                 \* 1500 tokens of an image, in hundredths of a step

\* Workload::appetite and RecProfile::target
Appetite == [chat |-> 50, docs |-> 75, coding |-> 100]
Target == [efficient |-> 40, balanced |-> 70, maximum |-> 100]

Pool(case) == IF case.gpu > 0 THEN case.gpu ELSE case.ram
Base(case) == case.weights * (100 + Overhead)

\* What the sessions share, less the images, in hundredths of a step.
Affordable_Wrong(case) ==
    LET usable == Clip(Pool(case) * 100 - Base(case))
    IN Clip(usable \div (1 + case.others) - case.images * PerImage * case.kv) \div case.kv

Affordable(case) ==
    LET usable == Clip(Pool(case) * (100 - Reserve) - Base(case))
    IN Clip(usable \div (1 + case.others) - case.images * PerImage * case.kv) \div case.kv
Wanted(case) == (Affordable(case) * Appetite[case.workload] * Target[case.profile]) \div 10000

Verdict(case, step) ==
    IF step > case.trained THEN "unavailable"
    ELSE IF step * 100 <= Wanted(case) THEN "recommended"
    ELSE IF step * 100 <= Affordable(case) THEN "supported"
    ELSE IF Base(case) + step * case.kv * 100 <= Pool(case) * 100 THEN "risky"
    ELSE "unavailable"

\* The largest step within reach, else the smallest there is.
Recommended(case) == Max({1} \union {step \in Steps : step <= case.trained /\ step * 100 <= Wanted(case)})

-----------------------------------------------------------------------------
(* optimize: a context, and then how much of the model the GPU takes.        *)

PolicyReserve == [performance |-> 10, balanced |-> 15, efficiency |-> 25]
KvFactor == [chat |-> 70, docs |-> 85, coding |-> 100]

\* The KV cache of a step for the sessions there are.
Cache(case, step) == (step * case.kv * KvFactor[case.workload] * (100 + 35 * case.others)) \div 10000
Buffers(case) == IF case.weights * 8 > 300 THEN case.weights * 8 ELSE 300
Needed(case, step) == (case.weights + Cache(case, step)) * 100 + Buffers(case)

FitsPlace(case, step) ==
    IF case.gpu > 0 THEN Needed(case, step) <= case.gpu * (100 - PolicyReserve[case.policy])
    ELSE (case.weights + Cache(case, step)) * 100 <= case.ram * (100 - PolicyReserve[case.policy])

\* The largest context that fits; the smallest if none does.
PickedContext(case) == Max({1} \union {step \in Steps : FitsPlace(case, step)})

\* The share of the layers on the GPU, in hundredths.
Share(case) ==
    LET needed == Needed(case, PickedContext(case))
        room == case.gpu * (100 - PolicyReserve[case.policy])
        percent == (room * 100) \div needed
    IN IF case.gpu = 0 THEN 0
       ELSE IF needed <= room THEN 100
       ELSE IF case.weights * 4 <= case.gpu * 10
       THEN Min({95, Max({5, percent})})
       ELSE 0
ExpectedOnGpu(case) == (Needed(case, PickedContext(case)) * Share(case)) \div 100

-----------------------------------------------------------------------------
Cases ==
    [gpu : {0, 40, 80, 120, 240}, ram : {80, 320}, weights : {5, 30, 90, 200}, kv : {1, 5, 20}, trained : {0, 2, 32},
     others : 0..1, images : {0, 2}, workload : DOMAIN Appetite, profile : DOMAIN Target, policy : {"balanced"}]
    \union
    [gpu : {0, 1, 40, 80, 120, 240}, ram : {80, 320}, weights : {5, 30, 90, 200}, kv : {1, 5, 20}, trained : {32},
     others : 0..2, images : {0}, workload : DOMAIN KvFactor, profile : {"balanced"}, policy : DOMAIN PolicyReserve]

Rank == [recommended |-> 1, supported |-> 2, risky |-> 3, unavailable |-> 4]

(* A larger context never has a better verdict than a smaller one, and what  *)
(* is recommended leaves the reserve of the pool free, for every session     *)
(* that shares it (recommend.rs:161 "never offer the reserve").              *)
VerdictsAgree(case) ==
    /\ \A s, t \in Steps : s < t => Rank[Verdict(case, s)] <= Rank[Verdict(case, t)]
    /\ \A s \in Steps : Verdict(case, s) \in {"recommended", "supported"} =>
          Base(case) + (1 + case.others) * s * case.kv * 100 <= Pool(case) * (100 - Reserve)

(* The advice is the largest context the table recommends.  When it          *)
(* recommends none the advice is the smallest context all the same, which    *)
(* the table may call unavailable: a model trained for less, or one that     *)
(* does not fit.                                                             *)
AdviceIsTheTables(case) ==
    LET good == {s \in Steps : Verdict(case, s) = "recommended"}
    IN Recommended(case) = IF good = {} THEN 1 ELSE Max(good)

(* A placement on the GPU stays within the policy's reserve of it; a hybrid  *)
(* one may go over it only by its least share of five percent (optimize).    *)
PlacementFits(case) ==
    \/ ExpectedOnGpu(case) <= case.gpu * (100 - PolicyReserve[case.policy])
    \/ Share(case) = 5

(* Asking for a larger reserve never gives a larger context.                 *)
PolicyIsKept(case) ==
    \A policy \in DOMAIN PolicyReserve :
        PolicyReserve[policy] > PolicyReserve[case.policy] =>
            PickedContext([case EXCEPT !.policy = policy]) <= PickedContext(case)

RecommendHolds(case) ==
    /\ VerdictsAgree(case)
    /\ AdviceIsTheTables(case)
    /\ PlacementFits(case)
    /\ PolicyIsKept(case)
=============================================================================
