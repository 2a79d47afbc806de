----------------------------- MODULE PromptInputs ------------------------------
(***************************************************************************)
(* The arguments of a prompt's model calls: prompt_inputs.py,              *)
(* qwen_mrope.py and patches/gemma4.py.                                    *)
(*                                                                         *)
(* They are built once for the prompt, or for what a restored cache leaves *)
(* of it, and then cut to each call and past it: per token, per visual     *)
(* token, or per query and key.  Which there are depends on the family of  *)
(* the model.  Tokens, embeddings and keys are named by their index in the *)
(* whole prompt, so a call can be compared with the prompt it is part of.  *)
(***************************************************************************)
EXTENDS Integers, Sequences, FiniteSets, FiniteSetsExt, SequencesExt

CONSTANTS Families,  \* what a model's family does, as records
          Prompts,   \* [tokens: the image of each token, 0 for text; grids: of each image]
          Window     \* of Gemma 4's sliding attention

\* Images come in their order, each with a token at least; and each as one stretch of
\* tokens, or with text between any two of them.
InOrder(p) ==
  \A i, j \in DOMAIN p.tokens :
    i < j /\ p.tokens[i] > 0 /\ p.tokens[j] > 0 => p.tokens[i] <= p.tokens[j]

OneStretchEach(p) ==
  \A i, j \in DOMAIN p.tokens :
    i < j /\ p.tokens[i] = p.tokens[j] /\ p.tokens[i] > 0 => \A k \in i..j : p.tokens[k] = p.tokens[i]

TextBetween(p) ==
  \A i \in DOMAIN p.tokens :
    i < Len(p.tokens) /\ p.tokens[i] > 0 /\ p.tokens[i + 1] > 0 => p.tokens[i] = p.tokens[i + 1]

ASSUME InputsAssumption ==
  /\ Window \in Nat \ {0}
  /\ Families \subseteq [qwen : BOOLEAN, clears : BOOLEAN, types : BOOLEAN, sentinel : BOOLEAN,
                          deepstack : {"no", "packed", "aligned"},
                          dense : {"no", "attention", "padding"}]
  /\ \A p \in Prompts :
       /\ p.tokens \in Seq(Nat) /\ p.tokens # <<>>
       /\ p.grids \in Seq([t : Nat \ {0}, h : Nat \ {0}, w : Nat \ {0}])
       /\ \A i \in DOMAIN p.tokens : p.tokens[i] <= Len(p.grids)
       /\ \A k \in DOMAIN p.grids : \E i \in DOMAIN p.tokens : p.tokens[i] = k
       /\ InOrder(p) /\ (OneStretchEach(p) \/ TextBetween(p))

VARIABLES family, prompt,
          suffixStart,  \* the tokens restored from a cache
          kwargs,       \* the arguments of what is not processed
          embeds,       \* inputs_embeds of the same
          processedLen, \* _processed_prefix_len
          lastCall      \* the last call: its arguments

inputsVars == <<family, prompt, suffixStart, kwargs, embeds, processedLen, lastCall>>

NothingCalled == [size |-> 0]

PromptLength == Len(prompt.tokens)

HasImages(p) == p.grids # <<>>

\* The integers from a, b excluded.
Arange(a, b) == [i \in 1..(b - a) |-> a + i - 1]

-----------------------------------------------------------------------------
(* Image runs and spans.                                                   *)

\* The numbers in S, from the least on.
Sorted(S) ==
  [k \in 1..Cardinality(S) |-> CHOOSE a \in S : Cardinality({b \in S : b < a}) = k - 1]

\* [start, end), from 0, of the longest stretches of TRUE in flags.
Runs(flags) ==
  LET Ends(a) == Min({b \in a..Len(flags) : b = Len(flags) \/ ~flags[b + 1]})
      starts == {a \in DOMAIN flags : flags[a] /\ (a = 1 \/ ~flags[a - 1])}
  IN  [k \in 1..Cardinality(starts) |->
         LET a == Sorted(starts)[k] IN [start |-> a - 1, end |-> Ends(a)]]

ImageFlags(p) == [i \in DOMAIN p.tokens |-> p.tokens[i] > 0]

\* Variant with a fault: runs and images are paired off whatever their numbers.
SpansPairedOff(f, p) ==
  LET runs == Runs(ImageFlags(p))
  IN  {[start |-> runs[k].start, end |-> runs[k].end, images |-> {k}]
         : k \in DOMAIN runs \cap DOMAIN p.grids}

\* _get_image_spans; the images stand for their hashes.
ImageSpans(f, p) ==
  LET runs == Runs(ImageFlags(p))
  IN  IF ~HasImages(p) THEN {}
      ELSE IF f.sentinel /\ Len(runs) = Len(p.grids)
      THEN {[start |-> runs[k].start, end |-> runs[k].end, images |-> {k}] : k \in DOMAIN runs}
      ELSE {[start |-> 0, end |-> Len(p.tokens), images |-> DOMAIN p.grids]}

-----------------------------------------------------------------------------
(* MRoPE positions.                                                        *)

Same(k) == <<k, k, k>>

\* The positions of an image's tokens, row by row from position "base".
GridPositions(base, g) ==
  [i \in 1..(g.t * g.h * g.w) |->
     <<base + (i - 1) \div (g.h * g.w),
       base + (((i - 1) \div g.w) % g.h),
       base + ((i - 1) % g.w)>>]

\* Variant with a fault: text goes on from the number of an image's tokens.
ExtentOfTokens(g) == g.t * g.h * g.w

Extent(g) == Max({g.t, g.h, g.w})

\* build_qwen_image_mrope_state, up to and with one more run.
WalkRun(s, run, g) ==
  LET base == s.position + (run.start - s.token)
  IN  [positions |-> s.positions
                     \o [i \in 1..(run.start - s.token) |-> Same(s.position + i - 1)]
                     \o GridPositions(base, g),
       position |-> base + Extent(g),
       token |-> run.end]

\* A grid for each run, and a run as long as its grid: else ValueError.
GridsFit(p) ==
  LET runs == Runs(ImageFlags(p))
  IN  /\ Len(runs) = Len(p.grids)
      /\ \A k \in DOMAIN runs :
           runs[k].end - runs[k].start = p.grids[k].t * p.grids[k].h * p.grids[k].w

MropeState(p) ==
  LET runs == Runs(ImageFlags(p))
      Walked[k \in 0..Len(runs)] ==
        IF k = 0 THEN [positions |-> <<>>, position |-> 0, token |-> 0]
        ELSE WalkRun(Walked[k - 1], runs[k], p.grids[k])
      s == Walked[Len(runs)]
      trailing == Len(p.tokens) - s.token
  IN  [position_ids |-> s.positions \o [i \in 1..trailing |-> Same(s.position + i - 1)],
       rope_deltas |-> s.position + trailing - Len(p.tokens)]

-----------------------------------------------------------------------------
(* Arguments of the whole prompt, as mlx-vlm's embedding of it and the     *)
(* engine's changes make them.                                             *)

NoArguments == [name \in {} |-> <<>>]

\* "more", with one more argument.
With(args, name, value) == [n \in DOMAIN args \cup {name} |-> IF n = name THEN value ELSE args[n]]

Visual(p) == Sorted({i \in DOMAIN p.tokens : p.tokens[i] > 0})

\* mlx-vlm's deepstack embeddings: packed, or one for each token.
Deepstack(f, p) == IF f.deepstack = "packed" THEN Visual(p) ELSE Arange(1, Len(p.tokens) + 1)

\* mlx-vlm's attention_mask_4d: a row of keys for each query.
DenseMask(p) ==
  [q \in DOMAIN p.tokens |->
     [k \in DOMAIN p.tokens |-> k <= q \/ (p.tokens[q] > 0 /\ p.tokens[k] = p.tokens[q])]]

\* _route_attention_mask_4d
RouteAttentionMask(f, args, p) ==
  IF f.dense = "attention" THEN With(args, "mask", DenseMask(p)) ELSE args

\* apply_qwen_image_mrope_state, and _add_language_model_rope_state.
AddRopeState(f, args, p) ==
  IF ~f.qwen THEN args
  ELSE With(With(args, "position_ids", MropeState(p).position_ids),
            "rope_deltas", MropeState(p).rope_deltas)

\* build_prompt_kwargs of a prompt with images.
ImageKwargs(f, p) ==
  LET visual == IF f.deepstack = "no" THEN NoArguments
                ELSE With(With(NoArguments, "visual_pos_masks", ImageFlags(p)),
                          "deepstack_visual_embeds", Deepstack(f, p))
      types == IF ~f.types THEN visual
               ELSE With(visual, "mm_token_type_ids",
                         [i \in DOMAIN p.tokens |-> IF p.tokens[i] > 0 THEN 1 ELSE 0])
  IN  AddRopeState(f, RouteAttentionMask(f, types, p), p)

\* What the embedding of n tokens of text says of positions: it counts from 0.
TextKwargs(f, n) ==
  IF f.qwen THEN With(NoArguments, "position_ids", [i \in 1..n |-> Same(i - 1)])
  ELSE NoArguments

\* Variant with a fault: the embedding's own positions are kept.
RestorePositionsKept(f, args, cached, n) == args

\* _add_qwen_text_restore_rope_state
RestorePositions(f, args, cached, n) ==
  IF ~f.qwen THEN args
  ELSE IF f.clears THEN [name \in DOMAIN args \ {"position_ids", "rope_deltas"} |-> args[name]]
  ELSE With(args, "position_ids", [i \in 1..n |-> Same(cached + i - 1)])

-----------------------------------------------------------------------------
(* Slices.                                                                 *)

Slice(s, start, end) == SubSeq(s, start + 1, Min({end, Len(s)}))

Count(flags) == Cardinality({i \in DOMAIN flags : flags[i]})

\* Variant with a fault: packed embeddings are cut by token.
DeepstackByToken(f, deepstack, flags, start, end) == Slice(deepstack, start, end)

\* _slice_deepstack_visual_embeds
SliceDeepstack(f, deepstack, flags, start, end) ==
  IF f.deepstack = "aligned" THEN Slice(deepstack, start, end)
  ELSE LET first == Count(Slice(flags, 0, start))
       IN  Slice(deepstack, first, first + Count(Slice(flags, start, end)))

ByToken == {"position_ids", "mm_token_type_ids", "visual_pos_masks"}

\* Variant with a fault: keys are cut with the queries.
MaskSquare(mask, start, end, keyEnd) ==
  [q \in 1..(end - start) |-> Slice(mask[start + q], start, end)]

SliceMask(mask, start, end, keyEnd) ==
  [q \in 1..(end - start) |-> Slice(mask[start + q], 0, keyEnd)]

\* slice_prompt_kwargs
SliceKwargs(f, args, start, end, keyEnd) ==
  [name \in DOMAIN args |->
     CASE name \in ByToken -> Slice(args[name], start, end)
       [] name = "mask" -> SliceMask(args.mask, start, end, keyEnd)
       [] name = "deepstack_visual_embeds" ->
            SliceDeepstack(f, args[name], args.visual_pos_masks, start, end)
       [] OTHER -> args[name]]

\* _prompt_kwargs_token_len; 0 where nothing tells.
TokenLength(args) ==
  IF "position_ids" \in DOMAIN args THEN Len(args.position_ids)
  ELSE IF "visual_pos_masks" \in DOMAIN args THEN Len(args.visual_pos_masks)
  ELSE IF "mm_token_type_ids" \in DOMAIN args THEN Len(args.mm_token_type_ids)
  ELSE IF "mask" \in DOMAIN args THEN Len(args.mask)
  ELSE 0

\* No key is cut from what comes after.
NoKeyEnd == Len(prompt.tokens)

\* Variant with a fault: the first arguments are kept.
NothingDropped(f, args, n) == args

\* drop_prompt_kwargs_prefix
DropPrefix(f, args, n) ==
  IF TokenLength(args) = 0 THEN args ELSE SliceKwargs(f, args, n, TokenLength(args), NoKeyEnd)

-----------------------------------------------------------------------------
(* Gemma 4.                                                                *)

\* image_prefill_runs: the images of what was not restored.
PrefillRuns ==
  LET flags == Slice(ImageFlags(prompt), suffixStart, PromptLength) IN Runs(flags)

\* Variant with a fault: runs are taken to start at the prompt's first token.
HasImageFromStart(from, n) ==
  \E k \in DOMAIN PrefillRuns : PrefillRuns[k].start < from + n /\ from < PrefillRuns[k].end

\* A call from "from", of n tokens, has part of an image.
HasImagePart(from, n) ==
  \E k \in DOMAIN PrefillRuns :
    /\ PrefillRuns[k].start < from + n - suffixStart
    /\ from - suffixStart < PrefillRuns[k].end

\* prepare_cached_suffix_prompt_kwargs: types for the cached keys.
PadTypes(types, keyLen) == [i \in 1..(keyLen - Len(types)) |-> 0] \o types

\* _prepare_gemma4_prompt_kwargs
PrepareGemma(f, args, from, n) ==
  IF ~f.types \/ "mm_token_type_ids" \notin DOMAIN args THEN args
  ELSE IF HasImagePart(from, n)
  THEN [args EXCEPT !.mm_token_type_ids = PadTypes(@, from + n)]
  ELSE [name \in DOMAIN args \ {"mm_token_type_ids"} |-> args[name]]

\* The keys a rotating cache lets a call of n tokens see.
KeyLength(from, n) == Min({Window - 1, from}) + n

InBlock(types, i, j) ==
  \A k \in Min({i, j})..Max({i, j}) : types[k] = 1

VisibleTypes(types, keyLen) == SubSeq(types, Len(types) - keyLen + 1, Len(types))

\* The patched _make_masks, for sliding layers: the keys, by their place
\* among the visible, that each query sees.
SlidingMask(args, from, n) ==
  LET keyLen == KeyLength(from, n)
      Causal(q) == {k \in 1..keyLen : k <= q /\ k > q - Window}
      types == VisibleTypes(args.mm_token_type_ids, keyLen)
      Block(q) == {k \in 1..keyLen : InBlock(types, q, k) /\ k > q - Window}
  IN  [i \in 1..n |->
         LET q == keyLen - n + i
         IN  IF "mm_token_type_ids" \in DOMAIN args THEN Causal(q) \cup Block(q) ELSE Causal(q)]

-----------------------------------------------------------------------------
\* _restore_splits_gemma4_image_span
RestoreSplits(f, p, cached) ==
  f.types /\ \E s \in ImageSpans(f, p) : s.start < cached /\ cached < s.end

\* build_prompt_kwargs, build_cached_prompt_kwargs.
Built(f, p, cached) ==
  IF HasImages(p) THEN SliceKwargs(f, ImageKwargs(f, p), cached, Len(p.tokens), Len(p.tokens))
  ELSE IF cached = 0 THEN TextKwargs(f, Len(p.tokens))
  ELSE RestorePositions(f, TextKwargs(f, Len(p.tokens) - cached), cached, Len(p.tokens) - cached)

\* A prompt is prepared, and what a cache holds of it restored.
InputsInit ==
  \E f \in Families, p \in Prompts :
  \E cachedLen \in 0..(Len(p.tokens) - 1) :
    LET cached == IF RestoreSplits(f, p, cachedLen) THEN 0 ELSE cachedLen
    IN  /\ f.qwen => GridsFit(p)
        /\ family = f /\ prompt = p /\ suffixStart = cached
        /\ kwargs = Built(f, p, cached)
        /\ embeds = Arange(cached + 1, Len(p.tokens) + 1)
        /\ processedLen = cached
        /\ lastCall = NothingCalled

Arguments(n) ==
  [from |-> processedLen, size |-> n, embeds |-> Slice(embeds, 0, n),
   kwargs |-> PrepareGemma(family, SliceKwargs(family, kwargs, 0, n, processedLen + n), processedLen, n)]

\* PromptPrefill says how long a call is: here it may have any length that
\* leaves a token, and Gemma's images whole.
CutStep(n) ==
  /\ n < Len(embeds)
  /\ family.types => \A k \in DOMAIN PrefillRuns :
       LET end == processedLen + n - suffixStart IN end <= PrefillRuns[k].start \/ PrefillRuns[k].end <= end
  /\ lastCall' = Arguments(n)
  /\ embeds' = Slice(embeds, n, Len(embeds))
  /\ kwargs' = DropPrefix(family, kwargs, n)
  /\ processedLen' = processedLen + n
  /\ UNCHANGED <<family, prompt, suffixStart>>

\* The final call.
CutRest ==
  /\ embeds # <<>>
  /\ lastCall' = Arguments(Len(embeds))
  /\ embeds' = <<>>
  /\ processedLen' = PromptLength
  /\ UNCHANGED <<family, prompt, suffixStart, kwargs>>

InputsNext == CutRest \/ \E n \in 1..(Len(embeds) - 1) : CutStep(n)

InputsSpec == InputsInit /\ [][InputsNext]_inputsVars

-----------------------------------------------------------------------------
IsCalled == lastCall # NothingCalled

\* The tokens of the last call.
CallTokens == (lastCall.from + 1)..(lastCall.from + lastCall.size)

(* Whatever is kept per token is as long as what is left of the prompt,    *)
(* so that one call's arguments are the next one's to cut.                 *)
InputsTypeOK ==
  /\ processedLen \in suffixStart..PromptLength
  /\ processedLen < PromptLength => Len(embeds) = PromptLength - processedLen
  /\ processedLen < PromptLength => \A name \in (ByToken \cup {"mask"}) \cap DOMAIN kwargs :
       Len(kwargs[name]) = PromptLength - processedLen

(* A token of an image lies in a span that names the image, so that no     *)
(* cache entry is reused for another image: where images and runs do not   *)
(* pair off, all of the prompt depends on all of the images.               *)
SpansNameImages ==
  \A i \in DOMAIN prompt.tokens : prompt.tokens[i] > 0 =>
    \E s \in ImageSpans(family, prompt) :
      s.start < i /\ i <= s.end /\ prompt.tokens[i] \in s.images

\* The least position after those of the tokens before the i-th.
After(pos, i) == Max({0} \cup {pos[j][d] + 1 : j \in 1..(i - 1), d \in 1..3})

\* Where the stretch of the i-th token's image starts.
FirstOf(tokens, i) == Min({j \in 1..i : \A k \in j..i : tokens[k] = tokens[i]})

WithinGrid(pos, base, g) ==
  pos \in (base..(base + g.t - 1)) \X (base..(base + g.h - 1)) \X (base..(base + g.w - 1))

(* The walk over runs gives Qwen's positions: a token of text comes one    *)
(* after all that is before it, an image's tokens span its grid from       *)
(* there, no two at one place, and decoding goes on after the largest.     *)
WalkIsMrope ==
  family.qwen /\ HasImages(prompt) =>
    LET pos == MropeState(prompt).position_ids
    IN  /\ Len(pos) = PromptLength
        /\ \A i \in DOMAIN pos :
             LET first == FirstOf(prompt.tokens, i)
             IN  IF prompt.tokens[i] = 0 THEN pos[i] = Same(After(pos, i))
                 ELSE /\ WithinGrid(pos[i], After(pos, first), prompt.grids[prompt.tokens[i]])
                      /\ \A j \in first..(i - 1) : pos[j] # pos[i]
        /\ PromptLength + MropeState(prompt).rope_deltas = After(pos, PromptLength + 1)

\* The positions the model uses in the last call: its cache's, if it gets none.
PositionsUsed ==
  IF "position_ids" \in DOMAIN lastCall.kwargs THEN lastCall.kwargs.position_ids
  ELSE [i \in 1..lastCall.size |-> Same(lastCall.from + i - 1)]

(* However the prompt is cut and wherever it was restored, its tokens are  *)
(* run at the positions they have in the whole prompt.                     *)
PositionsAreThePrompts ==
  IsCalled => PositionsUsed =
    IF family.qwen /\ HasImages(prompt)
    THEN Slice(MropeState(prompt).position_ids, lastCall.from, lastCall.from + lastCall.size)
    ELSE [i \in 1..lastCall.size |-> Same(lastCall.from + i - 1)]

(* A call has the deepstack embeddings of its own visual tokens, in their  *)
(* order, and its own tokens' embeddings.                                  *)
VisualsGoWithTokens ==
  IsCalled =>
    /\ lastCall.embeds = Arange(lastCall.from + 1, lastCall.from + lastCall.size + 1)
    /\ family.deepstack # "no" /\ HasImages(prompt) =>
         lastCall.kwargs.deepstack_visual_embeds =
           Sorted({i \in CallTokens : family.deepstack = "aligned" \/ prompt.tokens[i] > 0})

(* A dense attention mask has a row for each token of the call, over all   *)
(* keys there are by then; and a padding mask is not used as one.          *)
DenseMaskKeepsThePast ==
  IsCalled =>
    ("mask" \in DOMAIN lastCall.kwargs) = (family.dense = "attention" /\ HasImages(prompt))
    /\ ("mask" \in DOMAIN lastCall.kwargs =>
          lastCall.kwargs.mask = [i \in 1..lastCall.size |->
                                [k \in 1..(lastCall.from + lastCall.size) |-> DenseMask(prompt)[lastCall.from + i][k]]])

(* In Gemma 4's sliding layers a token sees what is before it in the       *)
(* window, and an image's tokens all of their image that follows, however  *)
(* the prompt was cut, and restored, around the images.                    *)
ImagesSeeThemselves ==
  IsCalled /\ family.types =>
    LET hidden == lastCall.from + lastCall.size - KeyLength(lastCall.from, lastCall.size)
        InImage(i, j) == \A k \in Min({i, j})..Max({i, j}) : prompt.tokens[k] > 0
    IN  \A i \in CallTokens :
          {hidden + k : k \in SlidingMask(lastCall.kwargs, lastCall.from, lastCall.size)[i - lastCall.from]} =
            {j \in 1..(lastCall.from + lastCall.size) : (j <= i \/ InImage(i, j)) /\ j > i - Window}

(* Every call, of whatever length and after whatever restored prefix, gets *)
(* the arguments the whole prompt has for its tokens.                      *)
ArgumentsRight ==
  /\ InputsTypeOK
  /\ SpansNameImages
  /\ WalkIsMrope
  /\ PositionsAreThePrompts
  /\ VisualsGoWithTokens
  /\ DenseMaskKeepsThePast
  /\ ImagesSeeThemselves

=============================================================================
