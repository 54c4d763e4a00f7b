---------------------------- MODULE LaunchPolicy ----------------------------
(***************************************************************************)
(* What a model is started with: the plan from measured memory             *)
(* (inference.rs), the calibrated profile and the runtime's own fit laid   *)
(* over it (start_sidecar), the attempts on the GPU and on the CPU         *)
(* (runtime_selection.rs) and the server's arguments (llamaserver.rs).     *)
(*                                                                         *)
(* A case w is one load: the model, the machine, the settings, what the    *)
(* fit found and which attempts fail.  Memory is in KiB, contexts in       *)
(* tokens.  What the notes say is left out; which settings they speak of   *)
(* is in policy, the record the user is shown.                             *)
(*                                                                         *)
(* A definition named ..._Wrong is the one after it with one mistake; no   *)
(* specification uses it.                                                  *)
(***************************************************************************)
EXTENDS Integers, Sequences, SequencesExt, FiniteSetsExt

MiB == 1024
GiB == 1024 * MiB
Unset == -1                    \* Option::None of a number
Least(a, b) == Min({a, b})
Most(a, b) == Max({a, b})
Minus(a, b) == Most(a - b, 0)  \* saturating_sub

-----------------------------------------------------------------------------
(* The plan from measured memory.                                            *)

\* A q8_0 cache takes 8.5 bits for a value instead of 16.
PerToken(w, cache) == IF cache = "q8_0" THEN (w.kv * 17) \div 32 ELSE w.kv
Cache(w, context, cache) == PerToken(w, cache) * context

Compute(w) == Most(w.weights \div 12, 768 * MiB)
Safety(w) == Most(w.vram \div 48, 256 * MiB)
FreeVram(w) == Minus(w.vram, w.used)
Budget(w) == Minus(Minus(FreeVram(w), Compute(w)), Safety(w))
FitsGpu(w, context, cache) == w.weights + Cache(w, context, cache) <= Budget(w)

LowestContext(context) == Least(context, 4096)

\* The largest context this much room holds, in steps of 1,024 from the
\* lowest one; Unset when there is none.
Largest(w, context, room, cache) ==
    LET tokens == Least(room \div Most(PerToken(w, cache), 1), context)
        stepped == IF tokens >= context THEN context ELSE (tokens \div 1024) * 1024
    IN IF stepped >= LowestContext(context) THEN stepped ELSE Unset

\* The precisions tried, the preferred one first.
Precisions(preferred) ==
    IF preferred = "q8_0" THEN <<"q8_0">> ELSE <<preferred, "q8_0">>

\* fit_to_memory, with an 8-bit cache allowed as automatic loads do.
Plan(context, cache, placement) ==
    [context |-> context, cache |-> cache, placement |-> placement]

\* The largest context first; at the same one the preferred precision.
OnGpu(w, context, preferred) ==
    LET room == Budget(w) - w.weights
        plans == {Plan(Largest(w, context, room, p), p, "gpu") : p \in ToSet(Precisions(preferred))}
        longest == Max({p.context : p \in plans})
        best == {p \in plans : p.context = longest}
    IN IF room < 0 \/ longest = Unset THEN {}
       ELSE IF \E p \in best : p.cache = preferred THEN {p \in best : p.cache = preferred} ELSE best

\* The weights fit and the smallest cache does not, by less than the margin.
NearFit(w, context) ==
    /\ w.weights <= Budget(w)
    /\ w.weights + Cache(w, LowestContext(context), "q8_0") <= Budget(w) + Safety(w)

\* A cache of at most a quarter of the budget, and the rest of the weights in RAM.
Hybrid(w, context) ==
    LET room == Largest(w, context, Budget(w) \div 4, "q8_0")
        held == IF room = Unset THEN LowestContext(context) ELSE room
        inRam == Minus(w.weights, Minus(Budget(w), Cache(w, held, "q8_0")))
        share == ((Cache(w, held, "q8_0") \div MiB) * (inRam \div MiB)) \div Most(w.weights \div MiB, 1)
        needed == inRam + share * MiB
        ramBudget == Minus(Minus(w.ram, w.ram \div 8), Compute(w) \div 2)
    IN Plan(held, "q8_0", IF needed > ramBudget THEN "oversubscribed" ELSE "hybrid")

FitToMemory(w, context, preferred) ==
    IF FitsGpu(w, context, preferred) THEN Plan(context, preferred, "gpu")
    ELSE IF OnGpu(w, context, preferred) # {} THEN CHOOSE p \in OnGpu(w, context, preferred) : TRUE
    ELSE IF NearFit(w, context) THEN Plan(LowestContext(context), "q8_0", "gpu")
    ELSE Hybrid(w, context)

\* cpu_context_cap: 8,192, halved until RAM holds it, and at least 2,048.
CpuRoom(w) ==
    Minus(Minus(w.ram, w.ram \div 8), Most(w.weights \div 12, 512 * MiB)) - w.weights

CpuCap(w) ==
    IF CpuRoom(w) < w.kv * 2048 THEN 2048
    ELSE Max({2048} \union {cap \in {4096, 8192} : cap <= CpuRoom(w) \div w.kv})

\* speculative_for.
Drafting(w) ==
    IF w.draft = "off" THEN "none" ELSE IF w.draft = "head" THEN "head" ELSE "ngram"

\* resolve_runtime_policy_for_machine: the plan of the window that may be had,
\* and what the settings make of it.
Capped(w) == Least(w.requested, w.limit)

Planned(w) ==
    IF w.auto /\ w.vram > 0 THEN FitToMemory(w, Capped(w), w.kvPreference)
    ELSE Plan(Capped(w), w.kvPreference, IF w.auto /\ w.vram # Unset THEN "gpu" ELSE "unknown")

Policy(w, plan) ==
    LET kept == w.keeps /\ plan.context < Capped(w)
    IN [context |-> IF kept THEN Capped(w) ELSE plan.context,
        k |-> plan.cache,
        v |-> IF ~w.auto /\ ~w.flash THEN "f16" ELSE plan.cache,
        placement |-> IF kept /\ plan.placement = "gpu" THEN "hybrid" ELSE plan.placement,
        threads |-> IF w.auto THEN 0 ELSE Most(w.threads, 1),
        layers |-> IF w.auto THEN -1 ELSE w.layers,
        batch |-> IF w.auto THEN 0 ELSE Least(Most(w.batch, 1), plan.context),
        flash |-> IF w.auto THEN "auto" ELSE IF w.flash THEN "on" ELSE "off",
        drafting |-> Drafting(w),
        cpuCap |-> IF w.auto THEN CpuCap(w) ELSE Unset]

-----------------------------------------------------------------------------
(* The configuration of a load: cfg is what is launched, policy what is told. *)

\* base_inference_config and apply_to: nothing chosen later is carried over.
Based(w, p) ==
    [policy |-> p,
     cfg |-> [context |-> p.context, k |-> p.k, v |-> p.v, layers |-> p.layers,
              threads |-> p.threads, batchThreads |-> IF w.auto THEN 0 ELSE w.threads,
              batch |-> p.batch, flash |-> p.flash, drafting |-> p.drafting,
              micro |-> Unset, mapped |-> TRUE, draftLength |-> Unset,
              margin |-> Unset, cacheRam |-> Unset, offload |-> TRUE]]

\* apply_calibrated_profile, of a calibration that describes this machine.
Profiled(w, load) ==
    IF w.profile = Unset THEN load
    ELSE [load EXCEPT !.cfg.threads = w.profile, !.cfg.batchThreads = w.profile + 2,
                      !.policy.threads = w.profile]

\* apply_fit_decision: the runtime's own fit replaces the estimate.
Fitted_Wrong(w, load) ==
    IF w.found.context = Unset THEN load
    ELSE [load EXCEPT
            !.cfg = [@ EXCEPT !.context = w.found.context, !.k = w.found.cache, !.v = w.found.cache,
                              !.margin = w.found.margin, !.micro = w.found.micro,
                              !.drafting = IF w.found.dropped /\ load.cfg.drafting = "head" THEN "ngram"
                                           ELSE load.cfg.drafting],
            !.policy = [@ EXCEPT !.context = w.found.context, !.k = w.found.cache, !.v = w.found.cache,
                                 !.placement = IF w.found.fit = "all" THEN "gpu" ELSE "hybrid"]]

Fitted(w, load) ==
    LET Without(drafting) == IF w.found.dropped /\ drafting = "head" THEN "ngram" ELSE drafting IN
    IF w.found.context = Unset THEN load
    ELSE [load EXCEPT
            !.cfg = [@ EXCEPT !.context = w.found.context, !.k = w.found.cache, !.v = w.found.cache,
                              !.margin = w.found.margin, !.micro = w.found.micro,
                              !.drafting = Without(load.cfg.drafting)],
            !.policy = [@ EXCEPT !.context = w.found.context, !.k = w.found.cache, !.v = w.found.cache,
                                 !.placement = IF w.found.fit = "all" THEN "gpu" ELSE "hybrid",
                                 !.drafting = Without(load.policy.drafting)]]

\* Shorter drafts, and no mapping when RAM has room for a copy, for a model
\* that keeps some weights in RAM.
InRam(w) == w.found.context # Unset /\ w.found.fit # "all"

Tuned(w, load) ==
    [load EXCEPT !.cfg.draftLength = IF InRam(w) /\ load.cfg.drafting # "none" THEN 24 ELSE @,
                 !.cfg.mapped = ~(InRam(w) /\ w.ram >= w.weights + 4 * GiB)]

\* prompt_cache_ram_mib: half of what is left with 2 GiB of margin.
PromptCache(ram, modelInRam) ==
    LET half == Least(Minus(Minus(ram, modelInRam), 2 * GiB) \div 2, 8192 * MiB)
    IN IF half < 256 * MiB THEN 0 ELSE half

\* What start_sidecar takes to be in RAM: nothing, the part the fit keeps
\* there (of four blocks here, so many) or an estimate.
RamSide(w, load) ==
    LET cache == w.kv * load.cfg.context IN
    CASE load.policy.placement = "gpu" -> 0
      [] load.policy.placement = "hybrid" ->
            (IF InRam(w) THEN (w.weights \div 4) * w.found.inRam ELSE w.weights \div 2) + cache
      [] OTHER -> w.weights + cache

Sized(w, load) ==
    [load EXCEPT !.cfg.cacheRam = PromptCache(w.ram, RamSide(w, load))]

LaidOver(w, load) ==
    IF w.auto /\ w.devices = "available" THEN Tuned(w, Fitted(w, load)) ELSE load

Prepared(w) == Sized(w, LaidOver(w, Profiled(w, Based(w, Policy(w, Planned(w))))))

\* cpu_configuration.
OnCpu(w, load) ==
    LET context == Least(load.cfg.context, Most(load.policy.cpuCap, 1024))
        batch == IF load.cfg.batch > 0 THEN Most(Least(load.cfg.batch, context), 1) ELSE 0
        Plain(drafting) == IF drafting = "head" THEN "ngram" ELSE drafting
    IN [load EXCEPT
          !.cfg = [@ EXCEPT !.layers = 0, !.offload = FALSE, !.flash = "off", !.threads = 0,
                            !.context = context, !.k = "f16", !.v = "f16", !.micro = Unset,
                            !.mapped = TRUE, !.drafting = Plain(load.cfg.drafting), !.draftLength = Unset,
                            !.cacheRam = PromptCache(w.ram, w.weights + GiB), !.batch = batch],
          !.policy = [@ EXCEPT !.layers = 0, !.flash = "off", !.threads = 0, !.context = context,
                               !.batch = batch, !.k = "f16", !.v = "f16", !.placement = "cpu",
                               !.drafting = Plain(load.policy.drafting)]]

\* without_load_tuning.
Untuned(load) == [load EXCEPT !.cfg.micro = Unset, !.cfg.mapped = TRUE]

\* load_with_fallback: the attempts in their order.
IsTuned(load) == ~load.cfg.mapped \/ load.cfg.micro > 512

Tries(w, load) ==
    IF ~w.auto THEN <<load>>
    ELSE IF w.devices = "none" THEN <<OnCpu(w, load)>>
    ELSE <<load>> \o (IF IsTuned(load) THEN <<Untuned(load)>> ELSE <<>>) \o <<OnCpu(w, load)>>

Attempts(w) == Tries(w, Prepared(w))

\* server_args: the arguments more than one setting has a say in.
Arguments(load) ==
    LET cfg == load.cfg IN
    [batch |-> CASE cfg.batch = 0 -> IF cfg.micro > 2048 THEN cfg.micro ELSE 0
                 [] cfg.batch > 0 -> Most(cfg.batch, cfg.micro),
     micro |-> cfg.micro,
     device |-> IF cfg.layers = 0 THEN "none" ELSE "gpu",
     layers |-> IF cfg.layers < 0 THEN "auto" ELSE "counted",
     threads |-> cfg.threads,
     draft |-> IF cfg.drafting = "none" THEN Unset ELSE cfg.draftLength]

-----------------------------------------------------------------------------
(* Cases.                                                                    *)

Nothing == [context |-> Unset, cache |-> "f16", margin |-> Unset, micro |-> Unset,
            fit |-> "none", inRam |-> 0, dropped |-> FALSE]

Plainly == [auto |-> TRUE, keeps |-> FALSE, kvPreference |-> "f16", draft |-> "auto",
            profile |-> Unset, flash |-> TRUE, threads |-> 6, layers |-> 20, batch |-> 512,
            devices |-> "available", found |-> Nothing]

Machines ==
    {m \in [weights : {2 * GiB, 9 * GiB, 10 * GiB, 14 * GiB},
            kv : {160, 800}, limit : {8192, 131072}, requested : {2500, 12000},
            vram : {Unset, 0, 12 * GiB, 24 * GiB}, used : {GiB, 6 * GiB},
            ram : {4 * GiB, 16 * GiB, 64 * GiB}] : (m.vram > 0 \/ m.used = GiB) /\ (m.limit > m.requested \/ m.requested > 8192)}

\* The plan on every machine, and one machine with every setting.
MemoryCases ==
    {m @@ [Plainly EXCEPT !.kvPreference = p, !.keeps = k, !.devices = d] :
        m \in Machines, p \in {"f16", "q8_0"}, k \in BOOLEAN, d \in {"available", "none"}}

Finds(context) ==
    {Nothing}
    \union {[context |-> c, cache |-> p, margin |-> 512, micro |-> u, fit |-> "all",
             inRam |-> 0, dropped |-> d] :
                c \in {context, 6144}, p \in {"f16", "q8_0"}, u \in {Unset, 1024, 4096}, d \in BOOLEAN}
    \union {[context |-> context, cache |-> "f16", margin |-> 256, micro |-> u, fit |-> "experts",
             inRam |-> n, dropped |-> d] : u \in {Unset, 2048}, n \in {1, 4}, d \in BOOLEAN}

SettingCases ==
    {m @@ [Plainly EXCEPT !.auto = a, !.draft = r, !.profile = f, !.flash = l, !.batch = b,
                          !.kvPreference = p, !.devices = d, !.found = o] :
        m \in {x \in Machines : x.weights = 9 * GiB /\ x.kv = 160 /\ x.vram = 12 * GiB
                                /\ x.used = 6 * GiB /\ x.requested = 12000 /\ x.limit = 131072},
        a \in BOOLEAN, r \in {"off", "auto", "head"}, f \in {Unset, 8}, l \in BOOLEAN,
        b \in {512, 4096}, p \in {"f16", "q8_0"}, d \in {"available", "none", "unknown"},
        o \in Finds(12000)}

Cases == MemoryCases \union {w \in SettingCases : w.auto \/ (w.profile = Unset /\ w.devices = "unknown")}

-----------------------------------------------------------------------------
(* Properties.                                                               *)

\* The windows a load may get: the request, or whole steps down to the lowest.
Windows(context) ==
    {context} \union {c \in {1024 * i : i \in 1..(context \div 1024)} : c >= LowestContext(context)}

(* Everything on the GPU if some window and precision is, then with the       *)
(* largest window there is and the preferred precision if that allows it;     *)
(* a model planned for the GPU is there with its compute buffers.             *)
Fitting(w) ==
    {c \in Windows(Capped(w)) : \E p \in ToSet(Precisions(w.kvPreference)) : FitsGpu(w, c, p)}

BestPlan(w, plan) ==
    /\ Fitting(w) # {} =>
          /\ plan.placement = "gpu" /\ plan.context = Max(Fitting(w))
          /\ FitsGpu(w, plan.context, w.kvPreference) => plan.cache = w.kvPreference
    /\ plan.placement = "gpu" =>
          w.weights + Cache(w, plan.context, plan.cache) + Compute(w) <= FreeVram(w)
    /\ plan.placement = "hybrid" =>
          w.weights + Cache(w, plan.context, plan.cache) <= Budget(w) + w.ram

PlanIsBest(w) ==
    w.auto /\ w.vram > 0 => BestPlan(w, FitToMemory(w, Capped(w), w.kvPreference))

(* What is told of a load is what was launched, whatever the fit, the         *)
(* profile and the fallbacks changed after the plan (api.rs:1498).            *)
RecordTellsLaunch(attempts) ==
    \A load \in ToSet(attempts) :
        /\ load.cfg.context = load.policy.context
        /\ load.cfg.k = load.policy.k /\ load.cfg.v = load.policy.v
        /\ load.cfg.threads = load.policy.threads
        /\ load.cfg.drafting = load.policy.drafting
        /\ load.cfg.layers = load.policy.layers /\ load.cfg.batch = load.policy.batch

(* No window is larger than asked for or than the model's limit, and an        *)
(* automatic load reserves the larger logical batch its micro-batch needs.     *)
LaunchIsBounded(w, attempts) ==
    \A load \in ToSet(attempts) :
        LET args == Arguments(load) IN
        /\ load.cfg.context <= Capped(w)
        /\ (IF args.batch = 0 THEN 2048 ELSE args.batch) >= args.micro
        /\ load.cfg.v = "q8_0" => load.cfg.flash # "off"

\* cpu_configuration leaves one GiB for the window, and prompt_cache_ram_mib
\* two for the system: a window of a model with a large cache takes more.
UnderReserved(w, context) == w.kv * context > 3 * GiB

(* The last attempt asks nothing of the GPU, and RAM holds the weights, the    *)
(* window and the prompt cache together, unless the user was told that RAM is  *)
(* tight or the window takes more than was left for it (inference.rs:903).     *)
CpuIsSafe(w, attempts) ==
    \A load \in ToSet(attempts) :
        load.policy.placement = "cpu" =>
            /\ Arguments(load).device = "none" /\ ~load.cfg.offload /\ load.cfg.mapped
            /\ load.cfg.micro = Unset /\ load.cfg.drafting # "head"
            /\ \/ CpuRoom(w) < w.kv * 2048 \/ UnderReserved(w, load.cfg.context)
               \/ w.weights + w.kv * load.cfg.context + load.cfg.cacheRam <= w.ram
=============================================================================
