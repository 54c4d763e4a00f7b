----------------------------- MODULE FitSearch -----------------------------
(***************************************************************************)
(* How a load finds the largest context, the cache and the micro-batch it  *)
(* gets: search_fit over the runtime's own memory probe, the check of a    *)
(* search whose probes ran together, and the reuse of a remembered         *)
(* decision (fit_context_with_runtime and runtime_fit.rs).                 *)
(*                                                                         *)
(* A case w is one model on one GPU: the operators are functions of it.    *)
(* Memory is in units of 256 MiB, contexts in units of 512 tokens.         *)
(*                                                                         *)
(* A definition named ..._Wrong is the one after it with one mistake; no   *)
(* specification uses it.                                                  *)
(***************************************************************************)
EXTENDS Integers, Sequences, SequencesExt, FiniteSetsExt

\* FIT_COMBINATIONS: cache and margin, the preferred one first.
Combinations == << [cache |-> "f16", margin |-> 4], [cache |-> "q8_0", margin |-> 4],
                   [cache |-> "f16", margin |-> 2], [cache |-> "q8_0", margin |-> 2],
                   [cache |-> "f16", margin |-> 1], [cache |-> "q8_0", margin |-> 1] >>

\* A saved q8_0 preference keeps only those.
FitCombinations(w) ==
    SelectSeq(Combinations, LAMBDA c : ~w.q8 \/ c.cache = "q8_0")

Step == 2                      \* 1,024 tokens
FloorOf(w) == Min({w.requested, 8})
DefaultSize == 1               \* DEFAULT_MICRO_BATCH, in units of 512
BalancedSize == 2              \* BALANCED_MICRO_BATCH
HeadReserve == 3               \* DRAFT_HEAD_RESERVE_MIB, about 0.9 GB
Tolerance == 1                 \* FIT_MEMORY_VRAM_TOLERANCE_MIB

\* Fit: every layer, some layers, or all layers but the experts of some blocks.
AllLayers == [kind |-> "all", layers |-> 0, blocks |-> 0]
Layers(n) == [kind |-> "layers", layers |-> n, blocks |-> 0]
Experts(n, b) == [kind |-> "experts", layers |-> n, blocks |-> b]
Failed == [kind |-> "failed", layers |-> 0, blocks |-> 0]

UsesGpu(fit) ==
    fit.kind = "all" \/ (fit.kind \in {"layers", "experts"} /\ fit.layers > 0)

-----------------------------------------------------------------------------
(* llama-fit-params.  What it answers falls with the context, the margin and *)
(* the micro-batch; how much of the model fits is all that matters here.     *)

Request(context, combination, reserve, size) ==
    [context |-> context, cache |-> combination.cache,
     margin |-> combination.margin + reserve, size |-> size]

Left(w, q) ==
    w.free - q.margin - (IF q.cache = "f16" THEN 2 ELSE 1) * (q.context \div 4) - q.size

\* A block is a layer of weight 2; of a mixture-of-experts model half of it is experts.
FitIn(w, left) ==
    LET all == 2 * w.blocks IN
    IF left >= all THEN AllLayers
    ELSE IF ~w.experts THEN Layers(Max({0, left \div 2}))
    ELSE IF left >= w.blocks THEN Experts(w.blocks, all - left)
    ELSE Experts(Max({0, left}), Max({0, left}))

\* probe: alone, or together with others whose GPU contexts take memory too.
Probe(w, q, together) ==
    IF w.failing = "all" \/ (w.failing = "sizes" /\ q.size # DefaultSize) THEN Failed
    ELSE FitIn(w, Left(w, q) - (IF together /\ <<q.cache, (q.context \div Step) % 2>> \in w.squeezed
                                THEN w.taken ELSE 0))

-----------------------------------------------------------------------------
(* runtime_fit.rs *)

\* The first element that satisfies Test, or otherwise.
FirstOr(s, Test(_), otherwise) ==
    LET i == SelectInSeq(s, Test) IN IF i = 0 THEN otherwise ELSE s[i]

\* The first that keeps every layer; then the experts placement with the most
\* layers, f16 if one of those has it, and the fewest blocks in RAM; then the
\* most layers.  The earlier one on a tie.
FastestCombination(results) ==
    LET experts == SelectSeq(results, LAMBDA r : r.fit.kind = "experts")
        most == Max({r.fit.layers : r \in ToSet(experts)})
        keeping == SelectSeq(experts, LAMBDA r : r.fit.layers = most)
        f16 == SelectSeq(keeping, LAMBDA r : r.combination.cache = "f16")
        candidates == IF f16 # <<>> THEN f16 ELSE keeping
        fewest == Min({r.fit.blocks : r \in ToSet(candidates)})
        IsAll(r) == r.fit = AllLayers
        IsFewest(r) == r.fit.blocks = fewest
        IsMost(r) == \A o \in ToSet(results) : r.fit.layers >= o.fit.layers
    IN IF \E r \in ToSet(results) : r.fit = AllLayers
       THEN SelectSeq(results, IsAll)[1]
       ELSE IF experts # <<>> THEN SelectSeq(candidates, IsFewest)[1]
       ELSE SelectSeq(results, IsMost)[1]

\* spread: up to count whole steps between low and high.
Spread(low, high, count) ==
    LET gap == high - low IN
    IF gap <= 1 \/ count = 0 THEN {}
    ELSE IF gap - 1 <= count THEN (low + 1)..(high - 1)
    ELSE {low + (i * gap) \div (count + 1) : i \in 1..count} \ {low, high}

\* The largest fitting step goes to low, then the smallest above it that does
\* not fit to high.
Narrow(low, high, fits, asked) ==
    LET up == Max({low} \union {u \in asked : u > low /\ u < high /\ fits[u]})
    IN <<up, Min({high} \union {u \in asked : u > up /\ u < high /\ ~fits[u]})>>

\* largest_full_gpu_context after its first round: the ends are known.
RECURSIVE Search(_, _, _, _)
Search(low, high, width, fits) ==
    IF high - low <= 1 THEN low
    ELSE LET ends == Narrow(low, high, fits, Spread(low, high, width))
         IN Search(ends[1], ends[2], width, fits)

\* Whether every layer stays on the GPU at a context, asked in a batch or alone;
\* 0 stands for None.
LargestFullGpuContext(w, combination, reserve, width) ==
    LET Fits(context) == Probe(w, Request(context, combination, reserve, DefaultSize),
                               width > 1) = AllLayers
        low == FloorOf(w) \div Step
        high == (w.requested + Step - 1) \div Step
        fits == [u \in low..high |-> Fits(u * Step)]
        ends == IF width > 1 THEN Narrow(low, high, fits, Spread(low, high, width - 2))
                             ELSE <<low, high>>
    IN IF Fits(w.requested) THEN w.requested
       ELSE IF ~Fits(FloorOf(w)) THEN 0
       ELSE Max({Search(ends[1], ends[2], width, fits) * Step, FloorOf(w)})

FreeExpertBlocks(w) == w.blocks \div 48

DefaultMicroBatch(w, at512, at1024) ==
    IF \/ at512.kind = "all" /\ at1024.kind = "all"
       \/ /\ at512.kind = "experts" /\ at1024.kind = "experts"
          /\ at1024.layers >= at512.layers
          /\ at1024.blocks <= at512.blocks + FreeExpertBlocks(w)
       \/ /\ at512.kind = "layers" /\ at1024.kind = "layers"
          /\ at512.layers > 0 /\ at1024.layers = at512.layers
    THEN BalancedSize ELSE DefaultSize

CalibratedMicroBatchFits(at512, there, extra) ==
    \/ at512.kind = "all" /\ there.kind = "all"
    \/ /\ at512.kind = "experts" /\ there.kind = "experts"
       /\ there.layers >= at512.layers /\ there.blocks <= at512.blocks + extra
    \/ /\ at512.kind = "layers" /\ there.kind = "layers"
       /\ at512.layers > 0 /\ there.layers >= at512.layers

-----------------------------------------------------------------------------
(* search_fit.  width is the number of probes run together.                  *)

\* Every combination at the requested context up to the first that keeps every
\* layer; the preferred one is probed alone.
AtRequested(w, reserve, width) ==
    LET combinations == FitCombinations(w)
        Result(i) == [combination |-> combinations[i],
                      fit |-> Probe(w, Request(w.requested, combinations[i], reserve, DefaultSize),
                                    width > 1 /\ i > 1)]
        last == Min({Len(combinations)}
                      \union {i \in 1..Len(combinations) : Result(i).fit \in {AllLayers, Failed}})
    IN [i \in 1..last |-> Result(i)]

Some(results, fit) == \E r \in ToSet(results) : r.fit = fit

\* The combination with the most headroom at a context found with the last one.
MostHeadroom(w, context, reserve, width) ==
    LET combinations == FitCombinations(w)
        permissive == combinations[Len(combinations)]
        Fits(c) == \/ c = permissive
                   \/ Probe(w, Request(context, c, reserve, DefaultSize), width > 1) = AllLayers
    IN FirstOr(combinations, Fits, permissive)

\* The context, the combination and the fit at the default micro-batch.
Place(w, results, reserve, width) ==
    LET combinations == FitCombinations(w)
        Chosen(best, found) ==
            IF best.fit = AllLayers \/ w.keeps \/ found = 0
            THEN [context |-> w.requested, combination |-> best.combination, fit |-> best.fit]
            ELSE [context |-> found, combination |-> MostHeadroom(w, found, reserve, width),
                  fit |-> AllLayers]
    IN Chosen(FastestCombination(results),
              LargestFullGpuContext(w, combinations[Len(combinations)], reserve, width))

\* The micro-batch, and the fit with it, on the placement just found.
MicroBatch(w, place, reserve, width) ==
    LET At(size) == Probe(w, Request(place.context, place.combination, reserve, size),
                          width > 1 /\ w.calibrated \notin {0, DefaultSize, BalancedSize})
        keeps == \/ w.calibrated = DefaultSize
                 \/ w.calibrated > DefaultSize
                    /\ CalibratedMicroBatchFits(place.fit, At(w.calibrated), w.extra)
        size == IF keeps THEN w.calibrated
                ELSE DefaultMicroBatch(w, place.fit, At(BalancedSize))
    IN IF ~UsesGpu(place.fit) THEN [size |-> 0, fit |-> place.fit]
       ELSE [size |-> size, fit |-> IF size = DefaultSize THEN place.fit ELSE At(size)]

NoDecision == [context |-> 0]

\* With a draft head, first with its reserve; without it when it costs layers.
SearchFit(w, width) ==
    LET withHead == AtRequested(w, HeadReserve, width)
        drop == w.head /\ ~Some(withHead, AllLayers)
        reserve == IF w.head /\ ~drop THEN HeadReserve ELSE 0
        Decided(place, batch) ==
            [context |-> place.context, combination |-> place.combination,
             size |-> batch.size, fit |-> batch.fit, atDefault |-> place.fit,
             dropped |-> drop, free |-> w.free]
        Batched(place) == Decided(place, MicroBatch(w, place, reserve, width))
        Placed(results) ==
            IF Some(results, Failed) THEN NoDecision ELSE Batched(Place(w, results, reserve, width))
    IN IF w.head /\ Some(withHead, Failed) THEN NoDecision
       ELSE Placed(AtRequested(w, reserve, width))

\* batched_fit_holds: the same probes alone agree with the decision.
BatchedFitHolds_Wrong(w, d) == d.fit # Failed

BatchedFitHolds(w, d) ==
    LET reserve == IF w.head /\ ~d.dropped THEN HeadReserve ELSE 0
        combinations == FitCombinations(w)
        permissive == combinations[Len(combinations)]
        size == IF d.size = 0 THEN DefaultSize ELSE d.size
        next == Min({d.context + Step, w.requested})
    IN /\ Probe(w, Request(d.context, d.combination, reserve, size), FALSE) = d.fit
       /\ d.atDefault = AllLayers /\ d.context < w.requested
            => Probe(w, Request(next, permissive, reserve, DefaultSize), FALSE) # AllLayers
       /\ w.head /\ d.dropped
            => \A c \in ToSet(combinations) :
                  Probe(w, Request(w.requested, c, HeadReserve, DefaultSize), FALSE) # AllLayers

-----------------------------------------------------------------------------
(* fit_context_with_runtime.                                                 *)

Width == 4  \* FIT_PROBE_CONCURRENCY

\* A search with probes together, confirmed or repeated one probe at a time.
Searched(w) ==
    LET Checked(d) == IF d = NoDecision \/ BatchedFitHolds(w, d) THEN d ELSE SearchFit(w, 1)
    IN Checked(SearchFit(w, Width))

\* fit_reuse: nothing better can be had, or no more memory is free than then.
Confirm(w, d) ==
    \/ /\ d.context = w.requested /\ d.fit = AllLayers
       /\ d.combination = FitCombinations(w)[1]
    \/ w.free <= d.free + Tolerance

\* A load: the decision remembered from when other memory was free, if one
\* probe gives the same fit, and otherwise a search.
Load_Wrong(w, remembered) ==
    IF remembered # NoDecision /\ Confirm(w, remembered) THEN remembered ELSE Searched(w)

Load(w, remembered) ==
    LET reserve == IF w.head /\ ~remembered.dropped THEN HeadReserve ELSE 0
        size == IF remembered.size = 0 THEN DefaultSize ELSE remembered.size
    IN IF /\ remembered # NoDecision /\ Confirm(w, remembered)
          /\ Probe(w, Request(remembered.context, remembered.combination, reserve, size), FALSE)
                = remembered.fit
       THEN remembered ELSE Searched(w)

-----------------------------------------------------------------------------
(* The reference: what is best, from the probe alone.                        *)

Fitting(w, context, reserve) ==
    {i \in 1..Len(FitCombinations(w)) :
        Probe(w, Request(context, FitCombinations(w)[i], reserve, DefaultSize), FALSE)
            = AllLayers}

\* The head stays on if some combination keeps every layer with it.
BestReserve(w) ==
    IF w.head /\ Fitting(w, w.requested, HeadReserve) # {} THEN HeadReserve ELSE 0

\* The contexts a search may choose: the request, or whole steps from the floor.
BestContext(w) ==
    LET contexts == {w.requested} \union
                      IF w.keeps THEN {}
                      ELSE {Max({u * Step, FloorOf(w)}) : u \in (FloorOf(w) \div Step)..(w.requested \div Step)}
    IN Max({0} \union {c \in contexts : Fitting(w, c, BestReserve(w)) # {}})

-----------------------------------------------------------------------------
(* Cases and properties.                                                     *)

\* A GPU with this much more memory than the weights need; then was free before.
Cases ==
    {[free |-> 2 * b + n, then |-> 2 * b + n + m, blocks |-> b, experts |-> e, requested |-> r,
      keeps |-> k, q8 |-> q, head |-> h, calibrated |-> c, extra |-> 1,
      failing |-> f, squeezed |-> s, taken |-> 3] :
        b \in {6, 48}, n \in {-8, 6, 9, 12}, m \in {-2, 1}, e \in BOOLEAN, r \in {7, 21, 32},
        k \in BOOLEAN, q \in BOOLEAN, h \in BOOLEAN, c \in {0, 4}, f \in {"none", "sizes"},
        s \in {{}, {<<"q8_0", 0>>}, {<<"f16", 0>>, <<"q8_0", 1>>}}}

\* What a load adopts when the model was loaded before with other memory free.
Adopted(w) == Load(w, Searched([w EXCEPT !.free = w.then]))

(* The runtime is started with a fit that a probe run alone confirms for the *)
(* memory free now: neither a remembered decision nor probes that took       *)
(* memory from each other decide it (api.rs:1142-1180, 1198-1250).           *)
FitIsReal(w, d) ==
    d # NoDecision =>
        Probe(w, Request(d.context, d.combination,
                         IF w.head /\ ~d.dropped THEN HeadReserve ELSE 0,
                         IF d.size = 0 THEN DefaultSize ELSE d.size), FALSE) = d.fit

(* A context that keeps every layer on the GPU is the largest one there is,  *)
(* from 4,096 tokens up in steps of 1,024, that does; with nothing taken by  *)
(* other probes, some layers move to the CPU only if there is none.          *)
(* A decision reused within the tolerance is the best of when it was made.   *)
LargestContext(w, d) ==
    LET at == IF w.free <= d.free THEN w ELSE [w EXCEPT !.free = d.free]
        best == BestContext(at)
    IN d # NoDecision =>
        /\ d.atDefault = AllLayers => d.context = best
        /\ d.atDefault # AllLayers /\ w.squeezed = {} => best = 0 /\ d.context = w.requested

=============================================================================
