------------------------------ MODULE ContextFit ------------------------------
(***************************************************************************)
(* How much context a loaded vision model is given, from what one token of *)
(* it costs in memory, and how long a cache a prefill step of a given size *)
(* may grow.  A model is a record of what the loader finds in it; a layer  *)
(* of its cache is [kind, bytes, step, window, keep, ready], the bytes     *)
(* being those of one token, or of all its state for an ArraysCache.       *)
(***************************************************************************)
EXTENDS Integers, FiniteSets, SequencesExt

CONSTANTS MinContext,  \* MIN_FITTED_CONTEXT_TOKENS
          Reserve,     \* MIN_RUNTIME_RESERVE_BYTES
          Candidates   \* PREFILL_STEP_CANDIDATES, falling

ASSUME FitAssumption ==
  /\ MinContext \in Nat \ {0} /\ Reserve \in Nat
  /\ Candidates \in Seq(Nat \ {0})
  /\ \A i, j \in DOMAIN Candidates : i < j => Candidates[j] < Candidates[i]

-----------------------------------------------------------------------------
(* One token through the model: _probe_cache_fit_profile.                  *)

Kinds == {"KVCache", "RotatingKVCache", "ArraysCache"}

OfKind(m, kind) == {i \in DOMAIN m.layers : m.layers[i].kind = kind}

\* The bytes of the layers of a kind, summed.
Total(m, kind) ==
  FoldLeft(LAMBDA sum, layer : IF layer.kind = kind THEN sum + layer.bytes ELSE sum, 0, m.layers)

\* What the rotating layers hold before their windows are full.
TotalWindows(m) ==
  FoldLeft(LAMBDA sum, layer : IF layer.kind = "RotatingKVCache"
                               THEN sum + layer.bytes * (layer.window - 1) ELSE sum, 0, m.layers)

AllocationSteps(m) ==
  {m.layers[i].step : i \in OfKind(m, "KVCache") \cup OfKind(m, "RotatingKVCache")}

Probed(m) ==
  /\ \A i \in DOMAIN m.layers : m.layers[i].kind \in Kinds
  /\ \A i \in OfKind(m, "RotatingKVCache") : m.layers[i].keep = 0
  /\ \A i \in OfKind(m, "ArraysCache") : m.layers[i].ready
  /\ Total(m, "KVCache") # 0
  /\ Cardinality(AllocationSteps(m)) = 1

\* GPT-OSS with a head dimension of 64 runs a fused attention.
Fused(m) == m.family = "gpt_oss" /\ m.head_dim = 64

Profile(m) ==
  [allocation_step |-> CHOOSE s \in AllocationSteps(m) : TRUE,
   full_kv         |-> Total(m, "KVCache"),
   prompt_input    |-> m.inputs_embeds + m.per_layer_inputs,
   attention       |-> IF Fused(m) THEN 0 ELSE m.heads * m.itemsize,
   rotating        |-> TotalWindows(m),
   rotating_token  |-> Total(m, "RotatingKVCache"),
   ssm             |-> Total(m, "ArraysCache"),
   native          |-> m.native]

CacheFitProfile ==
  [allocation_step : Nat \ {0}, full_kv : Nat \ {0}, prompt_input : Nat, attention : Nat,
   rotating : Nat, rotating_token : Nat, ssm : Nat, native : Nat \ {0}]

-----------------------------------------------------------------------------
(* The memory formula.                                                     *)

SmallerOf(a, b) == IF a < b THEN a ELSE b
LargerOf(a, b) == IF a > b THEN a ELSE b

RotatingPeak(p, s) == p.rotating + p.rotating_token * s

FixedBytes(p, s, baseline) == baseline + p.ssm + RotatingPeak(p, s)

CachedTokenBytes(p, s) == p.full_kv + p.attention * s

RoundDown(n, p) == (n \div p.allocation_step) * p.allocation_step
RoundUp(n, p) == RoundDown(n + p.allocation_step - 1, p)

TokensFit(bytes, each) == LargerOf(0, bytes) \div each

\* The longest prompt a step of s can prefill: _context_fit_for_step.
ContextFitForStep(p, s, ceiling, baseline) ==
  LET fits == TokensFit(ceiling - FixedBytes(p, s, baseline), CachedTokenBytes(p, s) + p.prompt_input)
  IN SmallerOf(p.native, RoundUp(fits, p))

\* For a variant with a fault: a request's cache boundary rounded as the fit is.
RequestLimitRoundedUp(p, s, length, ceiling, baseline) ==
  RoundUp(TokensFit(ceiling - FixedBytes(p, s, baseline) - p.prompt_input * length,
                    CachedTokenBytes(p, s)), p)

\* The longest cache it can fill for a prompt: _request_cache_limit_for_step.
RequestCacheLimit(p, s, length, ceiling, baseline) ==
  RoundDown(TokensFit(ceiling - FixedBytes(p, s, baseline) - p.prompt_input * length,
                      CachedTokenBytes(p, s)), p)

\* The step asked for, then the smaller candidates: they fall, so these are the last ones.
CandidateSteps(maximum) ==
  LET smaller == {i \in DOMAIN Candidates : Candidates[i] < maximum}
  IN  <<maximum>> \o IF smaller = {} THEN <<>> ELSE SubSeq(Candidates, Min(smaller), Len(Candidates))

-----------------------------------------------------------------------------
(* The fit of a model: _fit_batched_vlm_context, calculate_dynamic_context_fit. *)

NoFit == [steps |-> <<>>, profile |-> <<>>, context |-> 0, ceiling |-> 0]

ValidatedFamily(m) == m.family \in {"gemma4", "qwen3_5"}

\* Is the model one the loader goes on to probe?  0 stands for a figure its
\* configuration does not have.
Readable(m) ==
  /\ m.native # 0
  /\ ValidatedFamily(m) \/ m.native > MinContext
  /\ m.heads # 0
  /\ Probed(m)

FittedContext(m) ==
  SmallerOf(m.native, LargerOf(MinContext,
    ContextFitForStep(Profile(m), Last(CandidateSteps(m.prefill_step)), m.working_set - Reserve, m.baseline)))

Raised(m) ==
  ContextFitForStep(Profile(m), Last(CandidateSteps(m.prefill_step)), m.working_set - Reserve, m.baseline)
    < MinContext

FitOf(m) ==
  IF Readable(m) /\ (ValidatedFamily(m) \/ Fused(m) \/ FittedContext(m) > MinContext)
  THEN [steps |-> CandidateSteps(m.prefill_step), profile |-> Profile(m), context |-> FittedContext(m),
        ceiling |-> m.working_set - Reserve]
  ELSE NoFit
================================================================================
