--------------------------- MODULE MCPromptPrefill ---------------------------
(***************************************************************************)
(* Two views of a prefill in one instance: how the prompt is cut into      *)
(* calls, for small models and requests, and what arguments a cut gives    *)
(* the calls, for families of models and prompts with no image, one, two,  *)
(* two with nothing between them, and one with text between its rows.  A   *)
(* behaviour is about one view ("about"); the other rests in an initial    *)
(* state.                                                                  *)
(***************************************************************************)
EXTENDS PromptPrefill, PromptInputs

VARIABLE about

MCCandidates == <<12, 6, 3>>

Layer(kind, bytes) ==
  [kind |-> kind, bytes |-> bytes, step |-> 3, window |-> 3, keep |-> 0, ready |-> TRUE]

Model(name, layers, inputs, itemsize, maximum, memory) ==
  [family |-> name, head_dim |-> 64, native |-> 17, heads |-> 1, itemsize |-> itemsize,
   inputs_embeds |-> inputs, per_layer_inputs |-> 0, layers |-> layers, whole |-> FALSE,
   working_set |-> memory + 1, baseline |-> 3, prefill_step |-> maximum]

Kv == Layer("KVCache", 2)
Rotating == Layer("RotatingKVCache", 1)
State == Layer("ArraysCache", 2)

MCFittedModels ==
  {Model(name, <<Kv, extra>>, inputs, itemsize, maximum, memory) :
     name \in {"qwen3_5"}, extra \in {Rotating, State}, inputs \in {0, 3},
     itemsize \in {0, 1}, maximum \in {9, 12}, memory \in {4, 30, 50, 80, 200}}

\* What the probe and the loader reject, and what they leave as it was.
MCOddModels ==
  LET known == Model("qwen3_5", <<Kv>>, 1, 1, 12, 80)
  IN {known, [known EXCEPT !.whole = TRUE], [known EXCEPT !.native = 0], [known EXCEPT !.heads = 0],
      [known EXCEPT !.native = 6], [known EXCEPT !.family = "gpt_oss"],
      [known EXCEPT !.family = "gpt_oss", !.head_dim = 32], [known EXCEPT !.family = "other"],
      [known EXCEPT !.family = "other", !.native = 8], [known EXCEPT !.family = "other", !.working_set = 4],
      [known EXCEPT !.layers = <<Rotating>>], [known EXCEPT !.layers = <<Kv, Layer("Other", 1)>>],
      [known EXCEPT !.layers = <<Kv, [Rotating EXCEPT !.keep = 1]>>],
      [known EXCEPT !.layers = <<Kv, [Rotating EXCEPT !.step = 1]>>],
      [known EXCEPT !.layers = <<Kv, [State EXCEPT !.ready = FALSE]>>]}

MCTextRequests ==
  {r \in [length : {1, 2, 3, 4, 7, 9, 10, 14, 17}, cached : 0..9, images : {{}}, saving : BOOLEAN] :
     r.cached < r.length /\ r.cached \in {0, 2, 3, 7, 9}}

MCGemmaModels ==
  {Model("gemma4", <<Kv, Rotating>>, 1, 1, maximum, memory) :
     maximum \in {3, 12}, memory \in {70, 110, 250}}

\* One image or two, with text between them.
Run(a, n) == a..a + n - 1

\* Chunks of three, so that an image may lie on a boundary just before another.
MCImageRequests ==
  {[length |-> length, cached |-> cached, images |-> Run(a, m) \cup Run(b, n), saving |-> saving] :
     length \in {14}, cached \in {0, 4}, a \in 0..5, m \in 1..4, b \in {8, 9}, n \in {0, 2, 5},
     saving \in BOOLEAN}

MCModels == MCFittedModels \cup MCOddModels \cup MCGemmaModels
MCRequests == MCTextRequests \cup MCImageRequests

-----------------------------------------------------------------------------
Plain == [qwen |-> FALSE, clears |-> FALSE, deepstack |-> "no", types |-> FALSE,
          dense |-> "no", sentinel |-> TRUE]

Qwen3VL == [Plain EXCEPT !.qwen = TRUE, !.deepstack = "packed"]
Qwen35 == [Plain EXCEPT !.qwen = TRUE, !.clears = TRUE]
Granite4 == [Plain EXCEPT !.deepstack = "aligned"]
Dense == [Plain EXCEPT !.dense = "attention"]
Gemma3 == [Plain EXCEPT !.dense = "padding"]
Gemma4 == [Plain EXCEPT !.types = TRUE]
Blind == [Plain EXCEPT !.types = TRUE, !.sentinel = FALSE]

AllFamilies == {Qwen3VL, Qwen35, Granite4, Dense, Gemma3, Gemma4, Blind}

Grid(t, h, w) == [t |-> t, h |-> h, w |-> w]

AllPrompts ==
  {[tokens |-> <<0, 0, 0, 0>>, grids |-> <<>>],
   [tokens |-> <<0, 1, 1, 1, 1, 0, 0>>, grids |-> <<Grid(1, 2, 2)>>],
   [tokens |-> <<1, 1, 0, 0, 2, 2, 2, 2, 0>>, grids |-> <<Grid(1, 1, 2), Grid(1, 2, 2)>>],
   [tokens |-> <<0, 1, 1, 1, 1, 1, 1, 0, 2, 2>>, grids |-> <<Grid(1, 3, 2), Grid(2, 1, 1)>>],
   [tokens |-> <<0, 1, 1, 2, 2, 0, 0>>, grids |-> <<Grid(1, 1, 2), Grid(1, 1, 2)>>],
   [tokens |-> <<0, 1, 1, 0, 1, 1, 0>>, grids |-> <<Grid(1, 2, 2)>>]}

-----------------------------------------------------------------------------
MCInit ==
  /\ about \in {"cuts", "arguments"}
  /\ Init /\ (about = "arguments" => model = Model("qwen3_5", <<Kv>>, 1, 1, 12, 80))
  /\ InputsInit /\ (about = "cuts" => ~HasImages(prompt) /\ family = Gemma4 /\ suffixStart = 0)

MCNext ==
  /\ UNCHANGED about
  /\ \/ about = "cuts" /\ Next /\ UNCHANGED inputsVars
     \/ about = "arguments" /\ InputsNext /\ UNCHANGED vars

MCSpec == MCInit /\ [][MCNext]_<<about, vars, inputsVars>> /\ Fairness
=============================================================================
