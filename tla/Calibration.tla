----------------------------- MODULE Calibration -----------------------------
(***************************************************************************)
(* The calibration of a model (calibrate_model, calibration.rs) and the    *)
(* owner's speed rule (speed_rule.rs): which thread counts are measured,   *)
(* the profiles chosen from them, the micro-batch sizes measured in two    *)
(* passes and the one chosen.                                              *)
(*                                                                         *)
(* A calibration c is what has been measured so far; the operators give    *)
(* the calibrations its next benchmark may lead to.  Speeds are tokens per *)
(* second, 0 for a benchmark without a usable rate.                        *)
(*                                                                         *)
(* A definition named ..._Wrong is the one after it with one mistake; no   *)
(* specification uses it.                                                  *)
(***************************************************************************)
EXTENDS Integers, Sequences, FiniteSets, TLC, SequencesExt, FiniteSetsExt

None == [threads |-> 0]
DivCeil(a, b) == (a + b - 1) \div b

-----------------------------------------------------------------------------
(* What is measured.                                                         *)

\* thread_candidates, largest first.
ThreadCandidates(physical, performance, placement) ==
    LET shares == IF placement = "gpu" THEN {physical, DivCeil(physical, 2), DivCeil(physical, 4)}
                  ELSE {physical, DivCeil(physical * 3, 4), DivCeil(physical, 2),
                        DivCeil(physical, 3), DivCeil(physical, 4)}
        fastCores == IF performance > 0 /\ performance < physical THEN {performance} ELSE {}
    IN SetToSortSeq(shares \union fastCores, LAMBDA a, b : a > b)

\* micro_batch_candidates: no larger than the prompt, and a choice of two.
MicroBatchCandidates(context) ==
    LET sizes == SelectSeq(<<512, 1024, 2048>>, LAMBDA s : s <= Min({4096, context}))
    IN IF Len(sizes) < 2 THEN <<>> ELSE sizes

\* micro_batch_run_order: every size, then every size again in reverse.
RunOrder_Wrong(sizes) ==
    [i \in 1..Len(sizes) |-> [pass |-> 0, size |-> sizes[i]]]
        \o [i \in 1..Len(sizes) |-> [pass |-> 1, size |-> sizes[i]]]

RunOrder(sizes) ==
    [i \in 1..Len(sizes) |-> [pass |-> 0, size |-> sizes[i]]]
        \o [i \in 1..Len(sizes) |-> [pass |-> 1, size |-> Reverse(sizes)[i]]]

-----------------------------------------------------------------------------
(* The profiles.                                                             *)

\* The last of the best, as max_by has it.
LastBest(s, Better(_, _)) ==
    LET best == {i \in DOMAIN s : \A j \in DOMAIN s : ~Better(s[j], s[i])} IN s[Max(best)]

\* choose_profiles, for each profile its threads, polling and measured speed.
ChooseProfiles(measured) ==
    LET spinning == SelectSeq(measured, LAMBDA m : m.poll # 0)
        usable == SelectSeq(spinning, LAMBDA m : m.gen > 0)
        reading == SelectSeq(spinning, LAMBDA m : m.prompt > 0)
        fastest == LastBest(usable, LAMBDA a, b : a.gen > b.gen \/ (a.gen = b.gen /\ a.prompt > b.prompt))
        reader == IF reading = <<>> THEN fastest ELSE LastBest(reading, LAMBDA a, b : a.prompt > b.prompt)
        Within(percent) == {m \in ToSet(spinning) : 100 * m.gen >= percent * fastest.gen}
        Fewest(percent) == CHOOSE m \in Within(percent) : \A o \in Within(percent) : m.threads <= o.threads
        light == Fewest(75)
        quiet == {m \in ToSet(measured) : m.poll = 0 /\ m.threads = light.threads
                                          /\ 100 * m.gen >= 97 * light.gen}
        lightGen == IF quiet = {} THEN light.gen ELSE (CHOOSE m \in quiet : TRUE).gen
    IN IF usable = <<>> THEN None
       ELSE [threads |-> fastest.threads, best |-> fastest.gen, batchThreads |-> reader.threads,
             balanced |-> Fewest(95).threads, balancedGen |-> Fewest(95).gen,
             light |-> light.threads, lightGen |-> lightGen,
             lightPoll |-> IF quiet = {} THEN 50 ELSE 0]

-----------------------------------------------------------------------------
(* The micro-batch.                                                          *)

\* micro_batch_speeds: each size's mean over its usable passes, twice over so
\* that it is whole.
Speeds(runs) ==
    LET Of(size) == SelectSeq(runs, LAMBDA r : r.size = size /\ r.gen > 0 /\ r.prompt > 0)
        Twice(s, Value(_)) == (2 \div Len(s)) * FoldLeft(LAMBDA sum, r : sum + Value(r), 0, s)
        sizes == SelectSeq(<<512, 1024, 2048>>, LAMBDA z : Of(z) # <<>>)
    IN [i \in 1..Len(sizes) |->
            [size |-> sizes[i], gen |-> Twice(Of(sizes[i]), LAMBDA r : r.gen),
             prompt |-> Twice(Of(sizes[i]), LAMBDA r : r.prompt)]]

\* balanced_choice: the fastest generation, or what reads prompts fastest for
\* at most 5% of it and five times as much gained as lost.
Base(options) ==
    LET Keeps(best, o) == o.gen < best.gen \/ (o.gen = best.gen /\ o.prompt <= best.prompt)
    IN FoldLeft(LAMBDA best, o : IF Keeps(best, o) THEN best ELSE o, options[1], Tail(options))

Allowed(base, o) ==
    /\ 100 * (base.gen - o.gen) <= 5 * base.gen
    /\ o.prompt > base.prompt
    /\ (o.prompt - base.prompt) * base.gen >= 5 * (base.gen - o.gen) * base.prompt

BalancedChoice_Wrong(options) ==
    LET base == Base(options)
        Choose(chosen, o) == IF o # base /\ Allowed(base, o) THEN o ELSE chosen
    IN FoldLeft(Choose, base, options)

BalancedChoice(options) ==
    LET base == Base(options)
        Choose(chosen, o) ==
            IF /\ o # base /\ Allowed(base, o)
               /\ \/ chosen = base \/ o.prompt > chosen.prompt
                  \/ o.prompt = chosen.prompt /\ o.gen > chosen.gen
            THEN o ELSE chosen
    IN FoldLeft(Choose, base, options)

\* choose_micro_batch: only against 512, and only with another size.
ChooseMicroBatch(runs) ==
    LET speeds == Speeds(runs) IN
    IF Len(speeds) < 2 \/ ~\E s \in ToSet(speeds) : s.size = 512 THEN 0
    ELSE BalancedChoice(speeds).size

\* measured_extra_blocks: by the first run of either size.
ExtraBlocks(runs, chosen) ==
    LET Blocks(size) == SelectSeq(runs, LAMBDA r : r.size = size)[1].blocks
        sizes == {r.size : r \in ToSet(runs)}
    IN IF {512, chosen} \subseteq sizes THEN Max({0, Blocks(chosen) - Blocks(512)}) ELSE 0

-----------------------------------------------------------------------------
(* calibrate_model, a benchmark at a time.                                   *)

\* parse_bench_json: one measurement for each thread count that has a rate.
Measured(threads, poll, gen, prompt) ==
    [threads |-> threads, poll |-> poll, gen |-> gen, prompt |-> prompt]

\* The thread counts, the model placed first; either may fail.
Sweep(c) ==
    {[c EXCEPT !.stage = "failed"]} \union
    {[c EXCEPT !.measured = s, !.profiles = ChooseProfiles(s),
               !.stage = IF ChooseProfiles(s) = None THEN "failed" ELSE "quiet"] :
        s \in {[i \in DOMAIN c.threads |-> Measured(c.threads[i], 50, g[i], p[i])] :
                  g \in [DOMAIN c.threads -> c.rates], p \in [DOMAIN c.threads -> {90, 100}]}}

\* The lightest setting once more, sleeping between operations; it may fail.
Quiet(c) ==
    {[c EXCEPT !.measured = s, !.profiles = ChooseProfiles(s), !.stage = "micro"] :
        s \in {c.measured}
              \union {Append(c.measured, Measured(c.profiles.light, 0, g, 90)) :
                         g \in {72, 73, 75, 96, 99}}}

\* The sizes whose fit leaves something on the GPU, in two passes; a run that
\* fails is left out.  What is measured drifts as the GPU warms up.  A save
\* that fails leaves no calibration.
MicroRuns(c) ==
    IF c.placement = "cpu" THEN <<>>
    ELSE RunOrder(SelectSeq(MicroBatchCandidates(c.context), LAMBDA s : s \notin c.unfit))

Micro(c) ==
    LET order == MicroRuns(c)
        At(i) == [size |-> order[i].size, pass |-> order[i].pass,
                  blocks |-> IF order[i].size = 2048 THEN 2 ELSE 1,
                  gen |-> c.speeds[order[i].size].gen - c.drift * i,
                  prompt |-> c.speeds[order[i].size].prompt - c.drift * i]
    IN {[c EXCEPT !.runs = r, !.chosen = ChooseMicroBatch(r), !.stage = stage,
                  !.slower = c.previous > 0 /\ 10 * c.profiles.best < 9 * c.previous] :
          stage \in {"done", "unsaved"},
          r \in {[i \in 1..Len(kept) |-> At(kept[i])] :
                    kept \in {SetToSortSeq(k, LAMBDA a, b : a < b) :
                                 k \in {k \in SUBSET (1..Len(order)) : Len(order) - Cardinality(k) <= 1}}}}

Next(c) ==
    CASE c.stage = "sweep" -> Sweep(c)
      [] c.stage = "quiet" -> Quiet(c)
      [] c.stage = "micro" -> Micro(c)
      [] OTHER -> {}

-----------------------------------------------------------------------------
(* Cases: one that measures thread counts, one that measures sizes.          *)

Started(placement, physical, performance, context) ==
    [stage |-> "sweep", placement |-> placement, context |-> context,
     threads |-> ThreadCandidates(physical, performance, placement),
     rates |-> {0, 75, 76, 95, 100}, measured |-> <<>>, profiles |-> None,
     unfit |-> {}, drift |-> 0, runs |-> <<>>, chosen |-> 0, previous |-> 0, slower |-> FALSE,
     speeds |-> [s \in {512, 1024, 2048} |-> [gen |-> 100, prompt |-> 100]]]

Options == {[gen |-> 200, prompt |-> 100], [gen |-> 196, prompt |-> 109], [gen |-> 196, prompt |-> 110],
            [gen |-> 190, prompt |-> 125], [gen |-> 189, prompt |-> 200], [gen |-> 200, prompt |-> 125]}

Cases ==
    {[Started("cpu", 3, 2, 8192) EXCEPT !.previous = p] : p \in {0, 106, 120}}
    \union {[Started("gpu", 1, 1, x) EXCEPT !.rates = {100}, !.unfit = u, !.drift = d,
                                            !.speeds = (512 :> a @@ 1024 :> b @@ 2048 :> o)] :
               x \in {800, 1024, 8192}, u \in {{}, {2048}}, d \in {0, 1},
               a \in {first \in Options : first.prompt \in {100, 110, 200}}, b \in Options, o \in Options}

-----------------------------------------------------------------------------
(* Properties.                                                               *)

(* The profiles go from fast to light: fewer threads and never below their    *)
(* shares of the fastest.  Light may sleep between operations for 3% more,    *)
(* which its description (75%) leaves out (calibration.rs:393, 424).          *)
ProfilesKeepTheirShare(c) ==
    c.profiles # None =>
        LET p == c.profiles IN
        /\ p.light <= p.balanced /\ p.balanced <= p.threads
        /\ 100 * p.balancedGen >= 95 * p.best
        /\ \/ 100 * p.lightGen >= 75 * p.best
           \/ p.lightPoll = 0 /\ 10000 * p.lightGen >= 75 * 97 * p.best
        /\ \A m \in ToSet(c.measured) : m.poll # 0 => m.gen <= p.best

(* The owner's rule: no size that keeps it reads prompts faster than the one   *)
(* chosen, and that one keeps it itself (speed_rule.rs:5).                     *)
RuleIsKept(c) ==
    c.chosen # 0 =>
        LET speeds == ToSet(Speeds(c.runs))
            chosen == CHOOSE s \in speeds : s.size = c.chosen
            fastest == {s \in speeds : \A o \in speeds : s.gen >= o.gen}
            base == CHOOSE s \in fastest : \A o \in fastest : s.prompt >= o.prompt
        IN /\ \/ Allowed(base, chosen)
              \/ chosen.gen = base.gen /\ chosen.prompt = base.prompt
           /\ \A o \in speeds : Allowed(base, o) => o.prompt <= chosen.prompt

(* Warming up over the runs favours no size: of two sizes equally fast, both   *)
(* measured in both passes, neither is measured faster (calibration.rs:169).   *)
DriftCancels(c) ==
    \A a, b \in ToSet(Speeds(c.runs)) :
        /\ c.speeds[a.size] = c.speeds[b.size]
        /\ \A s \in {a.size, b.size} : Len(SelectSeq(c.runs, LAMBDA r : r.size = s)) = 2
        => a.gen = b.gen /\ a.prompt = b.prompt
=============================================================================
