---------------------------- MODULE PromptPrefill ----------------------------
(***************************************************************************)
(* The prefill of one request of the vision kit: the plan made for it from *)
(* the fit of the model, and the model calls the plan, the prompt cache    *)
(* and the images of the prompt cut the prompt into.  Positions count from *)
(* the start of the prompt, those of the images too.                       *)
(***************************************************************************)
EXTENDS ContextFit

CONSTANTS Models,    \* the models there may be
          Requests,  \* the requests: length, cached, images, saving
          Chunk      \* DEFAULT_PREFIX_CHUNK_SIZE

ASSUME PrefillAssumption ==
  /\ Chunk \in Nat \ {0}
  /\ \A m \in Models :
       /\ m.prefill_step \in Nat \ {0} /\ m.working_set \in Int /\ m.baseline \in Nat
       /\ m.whole \in BOOLEAN
       /\ Readable(m) => Profile(m) \in CacheFitProfile
  /\ \A r \in Requests :
       /\ r.length \in Nat \ {0} /\ r.cached \in 0..r.length - 1
       /\ r.images \subseteq 0..r.length - 1 /\ r.saving \in BOOLEAN

VARIABLES
  model,      \* the model loaded
  fit,        \* _context_fit_result
  request,    \* the request prefilled
  phase,      \* "load", "ready", "plan", "prefill", "done" or "refused"
  step,       \* make_request_prefill_plan: the candidate looked at
  segments,   \* the plan's segments
  restored,   \* len(_all_tokens)
  processed,  \* _processed_prefix_len
  call,       \* the last call of the model
  nextChunk,  \* next_chunk_idx of the save state
  snapshots   \* the lengths at which a cache snapshot was emitted

vars == <<model, fit, request, phase, step, segments, restored, processed, call, nextChunk, snapshots>>

NoCall == [from |-> 0, to |-> 0, step |-> 0, limit |-> 0, typed |-> FALSE]

NoRequest == [length |-> 0, cached |-> 0, images |-> {}, saving |-> FALSE]

Init ==
  /\ model \in Models
  /\ fit = NoFit /\ request = NoRequest
  /\ phase = "load"
  /\ step = 1 /\ segments = <<>>
  /\ restored = 0 /\ processed = 0 /\ call = NoCall
  /\ nextChunk = 0 /\ snapshots = {}

-----------------------------------------------------------------------------
(* Loading, and a request that comes.                                      *)

\* The probe may raise, and then the context is left unchanged.
Load ==
  /\ phase = "load"
  /\ fit' \in IF model.whole THEN {NoFit} ELSE {FitOf(model), NoFit}
  /\ phase' = "ready"
  /\ UNCHANGED <<model, request, step, segments, restored, processed, call, nextChunk, snapshots>>

Opaque(m) == OfKind(m, "ArraysCache") # {}

\* _restore_splits_gemma4_image_span
RestoreSplitsImage(r) == r.cached > 0 /\ {r.cached - 1, r.cached} \subseteq r.images

Kept(r) == IF RestoreSplitsImage(r) THEN 0 ELSE r.cached

ChunkCount(n) == n \div Chunk

Admit(r) ==
  /\ phase = "ready"
  /\ r.images # {} => model.family = "gemma4" /\ ~Opaque(model)
  /\ request' = r
  /\ IF fit.steps # <<>> /\ r.length > fit.context
     THEN phase' = "refused" /\ UNCHANGED <<restored, processed, nextChunk>>
     ELSE /\ phase' = IF fit.steps = <<>> THEN "prefill" ELSE "plan"
          /\ restored' = Kept(r) /\ processed' = Kept(r)
          /\ nextChunk' = ChunkCount(IF model.whole THEN r.length ELSE Kept(r))
  /\ UNCHANGED <<model, fit, step, segments, call, snapshots>>

-----------------------------------------------------------------------------
(* make_request_prefill_plan                                               *)

PlannedEnd == IF segments = <<>> THEN 0 ELSE Last(segments).end

\* Variant with a fault: the prompt's inputs are charged with the cache, again.
InputsCountedTwice(s) ==
  RequestCacheLimit(fit.profile, s, 2 * request.length, fit.ceiling, model.baseline)

\* Variant with a fault: nothing tells a cache boundary from the fitted limit.
LimitRoundedUp(s) == RequestLimitRoundedUp(fit.profile, s, request.length, fit.ceiling, model.baseline)

CacheLimit(s) == RequestCacheLimit(fit.profile, s, request.length, fit.ceiling, model.baseline)

\* Variant with a fault: a segment that ends where the last one did.
EmptySegments(s) ==
  Append(segments, [end |-> LargerOf(PlannedEnd, SmallerOf(request.length, CacheLimit(s))), step |-> s])

\* The plan with the segment a step adds, if its boundary is a later one.
WithStep(s) ==
  LET end == LargerOf(PlannedEnd, SmallerOf(request.length, CacheLimit(s)))
  IN IF end > PlannedEnd THEN Append(segments, [end |-> end, step |-> s]) ELSE segments

PlanStep ==
  /\ phase = "plan"
  /\ step <= Len(fit.steps) /\ PlannedEnd < request.length
  /\ segments' = WithStep(fit.steps[step])
  /\ step' = step + 1
  /\ UNCHANGED <<model, fit, request, phase, restored, processed, call, nextChunk, snapshots>>

\* Variant with a fault: the rest of the prompt is always a segment more.
AlwaysAppended ==
  IF PlannedEnd = request.length THEN segments
  ELSE Append(segments, [end |-> request.length, step |-> Last(fit.steps)])

\* The last candidate goes on to the end of the prompt.
Extended ==
  LET rest == [end |-> request.length, step |-> Last(fit.steps)]
  IN IF PlannedEnd = request.length THEN segments
     ELSE IF segments # <<>> /\ Last(segments).step = rest.step
     THEN [segments EXCEPT ![Len(segments)] = rest]
     ELSE Append(segments, rest)

\* Variant with a fault: a plan is closed only when its segments reach the end.
PlanDoneCovered ==
  /\ phase = "plan" /\ PlannedEnd = request.length
  /\ phase' = "prefill"
  /\ UNCHANGED <<model, fit, request, step, segments, restored, processed, call, nextChunk, snapshots>>

PlanDone ==
  /\ phase = "plan"
  /\ step > Len(fit.steps) \/ PlannedEnd = request.length
  /\ segments' = Extended
  /\ phase' = "prefill"
  /\ UNCHANGED <<model, fit, request, step, restored, processed, call, nextChunk, snapshots>>

-----------------------------------------------------------------------------
(* _next_prompt_step_size                                                  *)

Remaining == request.length - processed

\* segment_and_start_for_context: the segment the next token is in, or the last.
ActiveIndex ==
  LET later == {i \in DOMAIN segments : processed < segments[i].end}
  IN IF later = {} THEN Len(segments) ELSE CHOOSE i \in later : \A j \in later : i <= j

SegmentStart(i) == IF i = 1 THEN 0 ELSE segments[i - 1].end

Active ==
  IF segments = <<>> THEN [start |-> 0, end |-> request.length, step |-> model.prefill_step]
  ELSE [start |-> SegmentStart(ActiveIndex),
        end |-> segments[ActiveIndex].end, step |-> segments[ActiveIndex].step]

\* Variant with a fault: a call goes on to the segment's end.
ToSegmentEnd == SmallerOf(LargerOf(0, Active.end - processed), Remaining - 1)

NextChunkSize == SmallerOf(Active.step, SmallerOf(LargerOf(0, Active.end - processed), Remaining - 1))

\* To the segment's grid of steps, after a restore that ended off it.
AlignmentStep == Active.step - ((processed - Active.start) % Active.step)

\* Variant with a fault: the last whole chunk of the prompt, even if it ends it.
LastChunkEnd == ChunkCount(request.length) * Chunk

\* max_reusable_prefix_len, in whole chunks
ReusableEnd == ChunkCount(request.length - 1) * Chunk

\* Variant with a fault: an opaque state is saved where the grid leaves it.
ProposedWithoutTarget ==
  IF Remaining <= 1 THEN 0
  ELSE IF request.saving /\ AlignmentStep < Active.step /\ AlignmentStep <= NextChunkSize
  THEN AlignmentStep
  ELSE IF Remaining > Active.step \/ request.length > Active.end THEN NextChunkSize
  ELSE 0

ProposedStep ==
  IF Remaining <= 1 THEN 0
  ELSE IF request.saving /\ AlignmentStep < Active.step /\ AlignmentStep <= NextChunkSize
  THEN AlignmentStep
  ELSE IF Remaining > Active.step \/ request.length > Active.end THEN NextChunkSize
  ELSE IF request.saving /\ Opaque(model) /\ ReusableEnd > processed THEN ReusableEnd - processed
  ELSE 0

-----------------------------------------------------------------------------
(* _step_without_splitting_gemma4_image_run                                *)

\* image_prefill_runs: the images of what is left to prefill, a run of image
\* tokens being one.
ImageStarts == {a \in request.images : a >= restored /\ (a = restored \/ a - 1 \notin request.images)}

EndOf(a) == CHOOSE b \in a + 1..request.length :
  a..b - 1 \subseteq request.images /\ b \notin request.images

Splits(at) == {a \in ImageStarts : a < at /\ at < EndOf(a)}

\* Variant with a fault: the grid is not looked at for other images.
ChunksBeforeUnchecked(at) == {c \in processed + 1..at : c % Chunk = 0}

\* The chunk boundaries up to a position that no image runs over.
SafeChunksBefore(at) == {c \in processed + 1..at : c % Chunk = 0 /\ Splits(c) = {}}

SafeBoundary(a) ==
  LET safe == SafeChunksBefore(a)
  IN IF safe # {} THEN CHOOSE c \in safe : \A d \in safe : d <= c
     ELSE IF EndOf(a) - processed <= Active.step THEN EndOf(a)
     ELSE IF processed < a THEN a
     ELSE EndOf(a)

\* Variant with a fault: the image's end is taken whatever the step would be.
StepToImageEnd(n) ==
  IF n = 0 \/ Splits(processed + n) = {} THEN n
  ELSE LET boundary == EndOf(CHOOSE a \in Splits(processed + n) : TRUE)
       IN IF boundary >= request.length THEN 0 ELSE boundary - processed

\* Variant with a fault: a prompt that ends with an image is swallowed whole.
StepOverEnd(n) ==
  IF n = 0 \/ Splits(processed + n) = {} THEN n
  ELSE SafeBoundary(CHOOSE a \in Splits(processed + n) : TRUE) - processed

StepWithoutSplitting(n) ==
  IF n = 0 \/ Splits(processed + n) = {} THEN n
  ELSE LET boundary == SafeBoundary(CHOOSE a \in Splits(processed + n) : TRUE)
       IN IF boundary >= request.length THEN 0 ELSE boundary - processed

NextStepSize == IF model.whole THEN 0 ELSE StepWithoutSplitting(ProposedStep)

-----------------------------------------------------------------------------
(* The calls.                                                              *)

\* _prepare_gemma4_prompt_kwargs: are the token types given to the call?
HasImage(from, to) == \E a \in ImageStarts : a < to /\ from < EndOf(a)

Calling(to) ==
  [from |-> processed, to |-> to, step |-> Active.step, limit |-> Active.end,
   typed |-> HasImage(processed, to)]

\* _emit_cache_save_snapshots; what the callback raises is caught.
Snapshot(to) ==
  IF request.saving /\ nextChunk < ChunkCount(to)
  THEN nextChunk' = ChunkCount(to) /\ snapshots' = snapshots \cup {to}
  ELSE UNCHANGED <<nextChunk, snapshots>>

PromptStep ==
  /\ phase = "prefill"
  /\ LET n == NextStepSize
     IN /\ n > 0
        /\ call' = Calling(processed + n)
        /\ processed' = processed + n
        /\ Snapshot(processed + n)
  /\ UNCHANGED <<model, fit, request, phase, step, segments, restored>>

Generate ==
  /\ phase = "prefill"
  /\ NextStepSize = 0
  /\ call' = Calling(request.length)
  /\ processed' = request.length
  /\ Snapshot(request.length)
  /\ phase' = "done"
  /\ UNCHANGED <<model, fit, request, step, segments, restored>>

Next ==
  \/ Load
  \/ \E r \in Requests : Admit(r)
  \/ PlanStep
  \/ PlanDone
  \/ PromptStep
  \/ Generate

Spec == Init /\ [][Next]_vars

\* The generation loop calls next() as long as it has a request.
Fairness == WF_vars(PlanStep \/ PlanDone \/ PromptStep \/ Generate)

FairSpec == Spec /\ Fairness
-----------------------------------------------------------------------------
(* Properties.                                                             *)

Segment == [end : Nat \ {0}, step : Nat \ {0}]

(* Everything has its type, and the prefill stays within the prompt        *)
TypeOK ==
  /\ model \in Models /\ request \in Requests \cup {NoRequest}
  /\ phase \in {"load", "ready", "plan", "prefill", "done", "refused"}
  /\ fit.steps \in Seq(Nat \ {0}) /\ fit.context \in Nat /\ fit.ceiling \in Int
  /\ step \in Nat \ {0} /\ segments \in Seq(Segment)
  /\ restored \in 0..processed /\ processed \in 0..request.length
  /\ nextChunk \in 0..ChunkCount(request.length)
  /\ snapshots \subseteq 0..processed

(* The plan covers the prompt once, from larger steps to smaller ones: ends *)
(* rise, steps fall, and when the prefill begins the last end is that of the *)
(* prompt, whatever the limits of the steps were                            *)
PlanCovers ==
  /\ \A i, j \in DOMAIN segments :
       i < j => segments[i].end < segments[j].end /\ segments[j].step < segments[i].step
  /\ PlannedEnd <= request.length
  /\ phase \in {"prefill", "done"} /\ fit.steps # <<>> => PlannedEnd = request.length

Peak(s, tokens, cache) ==
  FixedBytes(fit.profile, s, model.baseline) + fit.profile.prompt_input * request.length
    + fit.profile.full_kv * cache + fit.profile.attention * tokens * cache

Planned == call # NoCall /\ fit.steps # <<>>

\* One block of the cache less a token, at the last candidate's step.
Rounding ==
  (fit.profile.allocation_step - 1)
    * (CachedTokenBytes(fit.profile, Last(fit.steps)) + fit.profile.prompt_input)

\* The call goes on past its segment, or past its step, to finish an image.
FinishesImage ==
  /\ call.to > call.limit \/ call.to - call.from > call.step
  /\ call.to - 1 \in request.images

(* By the formula no call of the model takes more than the safe ceiling: only *)
(* the last candidate's may, by less than a block where the fit was rounded  *)
(* up, and by more where the fit was raised to the minimum; and a call that  *)
(* is stretched to finish an image, which the code's plan does not count     *)
MemoryWithinCeiling ==
  Planned /\ ~ FinishesImage =>
    LET peak == Peak(call.to - call.from, call.to - call.from, call.to)
    IN \/ peak <= fit.ceiling
       \/ call.step = Last(fit.steps) /\ (Raised(model) \/ peak <= fit.ceiling + Rounding)

(* No call is made with a smaller step than it has to be: with the next larger *)
(* candidate the block after its first token would not have fit             *)
LargestStepThatFits ==
  Planned =>
    \A i \in 2..Len(fit.steps) :
      call.step = fit.steps[i] =>
        Peak(fit.steps[i - 1], fit.steps[i - 1], call.from + fit.profile.allocation_step) > fit.ceiling

(* An image is attended to as a whole: no call ends within one, none begins *)
(* within one, and a call is given the token types just when it has an image *)
ImagesWhole ==
  call # NoCall =>
    /\ ~ ({call.to - 1, call.to} \subseteq request.images)
    /\ call.from > 0 => ~ ({call.from - 1, call.from} \subseteq request.images)
    /\ call.typed <=> call.from..call.to - 1 \cap request.images # {}

(* No call is longer than the step of its segment, but for a single image  *)
(* that is; images never add up to a longer call                           *)
StepsKept ==
  call # NoCall /\ ~ model.whole =>
    call.to - call.from <= call.step \/ call.from..call.to - 1 \subseteq request.images

(* The calls of prompt_step() leave at least one token, for the call that   *)
(* gives the first logits                                                   *)
SeedLeft == phase = "prefill" => processed < request.length

OnGrid ==
  /\ model.prefill_step % Chunk = 0
  /\ \A i \in DOMAIN fit.steps : fit.steps[i] % Chunk = 0
  /\ fit.steps # <<>> => fit.profile.allocation_step % Chunk = 0

(* A model with opaque state can be restored only where a call ended: when the *)
(* prefill is done there is a snapshot at the last chunk boundary another     *)
(* prompt can reuse, wherever the restore ended and the plan's segments do    *)
ReusableEndSaved ==
  phase = "done" /\ request.saving /\ Opaque(model) /\ ~ model.whole /\ OnGrid =>
    ReusableEnd <= restored \/ ReusableEnd \in snapshots

(* Whatever its plan, a request that is admitted is prefilled               *)
Prefilled == phase \in {"plan", "prefill"} ~> phase = "done"

(* A plan covers the prompt within the memory there is, and the calls cut  *)
(* from it break no image, keep to their step and leave the seed token.    *)
SafeCuts ==
  /\ TypeOK
  /\ PlanCovers
  /\ MemoryWithinCeiling
  /\ ImagesWhole
  /\ StepsKept
  /\ SeedLeft

(* Nothing is given away: the step is the largest that fits, and prefill   *)
(* ends a call where the next prompt can be restored.                      *)
BestCuts ==
  /\ LargestStepThatFits
  /\ ReusableEndSaved

==============================================================================
