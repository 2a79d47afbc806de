----------------------------- MODULE DecodeBatch ------------------------------
(***************************************************************************)
(* The data of the batched-vision BatchGenerator: GenerationBatch keeps a  *)
(* list of rows and, beside it, arrays with one entry per row (prompt      *)
(* cache, next tokens, their log-probabilities and candidates, RoPE        *)
(* deltas).  Rows join and leave at every call of next(), and decoding     *)
(* runs one token ahead: a call emits the token sampled by the call before.*)
(*                                                                         *)
(* The text of request r is <<r,1>>, <<r,2>>, ...: its prompt, then what a *)
(* model reads out of r's own cache with r's own sampler.  Anything        *)
(* computed from entries of different requests is Garbage.  A cache is the *)
(* sequence of tokens it has seen.  The RoPE delta of an image prompt is   *)
(* named by its request; that of a text is TextDelta.                      *)
(*                                                                         *)
(* The language model is a Qwen3.5 one: it holds RoPE state of its own,    *)
(* "side", which prompts and decode steps share.  Prompts are cut into two *)
(* model calls; how they are cut is PromptPrefill's subject.               *)
(***************************************************************************)
EXTENDS Integers, SequencesExt, FiniteSetsExt

CONSTANTS Requests,
          NoRequest,
          TextDelta,     \* a RoPE delta of 0
          Asks,          \* what a request may ask for
          NotAsked,
          PromptLength,
          ChunkSize,     \* DEFAULT_PREFIX_CHUNK_SIZE
          BatchSize      \* completion_batch_size

ASSUME DecodeAssumption ==
  /\ NoRequest \notin Requests /\ TextDelta \notin Requests /\ NotAsked \notin Asks
  /\ PromptLength \in Nat \ {0} /\ ChunkSize \in Nat \ {0} /\ BatchSize \in Nat \ {0}
  /\ \A ask \in Asks :
       /\ ask.prompt \in {"image", "text", "own"} \* "own": text with RoPE state of its own
       /\ ask.top \in Nat /\ ask.max \in Nat \ {0}
       /\ ask.processors \in {{}, {"penalty"}, {"guard"}, {"json"},
                              {"penalty", "guard"}, {"penalty", "json"}}

VARIABLES asked,    \* what each request asked for
          pending,  \* _unprocessed_sequences
          prefill,  \* _prompt_batch: its request and prompt steps left
          batch,    \* _generation_batch
          side,     \* the language model's _position_ids and _rope_deltas
          tick      \* what the last call of next() returned and passed on

vars == <<asked, pending, prefill, batch, side, tick>>

Text(r, n) == [i \in 1..n |-> <<r, i>>]
Garbage == <<NoRequest, 0>>
NoPrefill == [request |-> NoRequest, steps |-> 0]
NoTop == [width |-> 0, rows |-> <<>>]
Missing == [missing |-> TRUE]
ClearSide == [positions |-> NoRequest, deltas |-> <<>>]

EmptyBatch == [rows |-> <<>>, cache |-> <<>>, scalar |-> FALSE, tokens |-> <<>>,
               logprobs |-> <<>>, top |-> NoTop, deltas |-> <<>>]

NoTick == [responses |-> <<>>, snapshots |-> {}, heard |-> {}, given |-> <<>>, used |-> <<>>]

Init ==
  /\ asked = [r \in Requests |-> NotAsked]
  /\ pending = <<>>
  /\ prefill = NoPrefill
  /\ batch = EmptyBatch
  /\ side = ClearSide
  /\ tick = NoTick

-----------------------------------------------------------------------------
(* Model and sampler.                                                      *)

\* What the model makes of a cache: the next token of the text in it.
Logits(cache) ==
  LET r == cache[1][1] IN
  IF cache = Text(r, Len(cache)) THEN <<r, Len(cache) + 1>> ELSE Garbage

\* A row's sampler, stateful processors before it, on a row of logits.
Sampled(r, logits) == IF logits[1] = r THEN logits ELSE Garbage

TopLogprobs(logits, k) ==
  IF k = 0 THEN NoTop
  ELSE [width |-> k, rows |-> [i \in DOMAIN logits |-> [of |-> logits[i], real |-> k]]]

\* Widened with zeros, which are no candidates, or cut.
PadTop(top, count, k) ==
  IF k = 0 THEN NoTop
  ELSE [width |-> k,
        rows |-> [i \in 1..count |-> IF top = NoTop THEN [of |-> Garbage, real |-> 0]
                                     ELSE [top.rows[i] EXCEPT !.real = Min({@, k})]]]

\* Variant with a fault: the width of the rows so far.
FirstTop(rows) == IF rows = <<>> THEN 0 ELSE asked[rows[1].request].top

\* top_logprobs_k
WidestTop(rows) == Max({0} \cup {asked[row.request].top : row \in ToSet(rows)})

-----------------------------------------------------------------------------
(* Logits processors.  A row hands each of them the tokens of its text:    *)
(* the penalty keeps a buffer and is fed the last token, the tool guard    *)
(* gets the history and the last token, and a JSON processor the history,  *)
(* to which the last token is appended for it.                             *)

Processors(row) == asked[row.request].processors

Heard(row, last) ==
  {IF p = "penalty" THEN Append(row.buffer, last) ELSE Append(row.tokens, last)
     : p \in Processors(row)}

AfterProcessors(row, last) ==
  IF "json" \in Processors(row) THEN Append(row.tokens, last) ELSE row.tokens

\* Variant with a fault: a token a processor was shown is appended again.
AppendedTwice(row, last) == Append(AfterProcessors(row, last), last)

\* The history after a step, in which the emitted token is exactly once.
Materialized(row, last) ==
  LET tokens == AfterProcessors(row, last)
  IN  IF Len(tokens) = Len(row.tokens) THEN Append(tokens, last) ELSE tokens

-----------------------------------------------------------------------------
(* GenerationBatch.                                                        *)

\* _extend_optional_rope_deltas: a row without a delta gets that of a text.
ExtendDeltas(deltas, count, other, otherCount) ==
  IF deltas = <<>> /\ other = <<>> THEN <<>>
  ELSE (IF deltas = <<>> THEN [i \in 1..count |-> TextDelta] ELSE deltas)
       \o (IF other = <<>> THEN [i \in 1..otherCount |-> TextDelta] ELSE other)

\* append_prefilled_sequence
AppendPrefilled(b, p) ==
  LET rows == b.rows \o p.rows
      k == WidestTop(rows)
  IN  IF b.rows = <<>> THEN p
      ELSE [rows     |-> rows,
            cache    |-> b.cache \o p.cache,
            scalar   |-> FALSE,
            tokens   |-> b.tokens \o p.tokens,
            logprobs |-> b.logprobs \o p.logprobs,
            top      |-> IF k = 0 THEN NoTop
                         ELSE [width |-> k,
                               rows |-> PadTop(b.top, Len(b.rows), k).rows
                                        \o PadTop(p.top, Len(p.rows), k).rows],
            deltas   |-> ExtendDeltas(b.deltas, Len(b.rows), p.deltas, Len(p.rows))]

\* "keep": the places of the rows that stay, in order.
Keeping(b, stay) ==
  {keep \in UNION {[1..n -> DOMAIN b.rows] : n \in 0..Len(b.rows)} :
     /\ \A j, k \in DOMAIN keep : j < k => keep[j] < keep[k]
     /\ \A i \in DOMAIN b.rows : i \in stay <=> \E j \in DOMAIN keep : keep[j] = i}

Kept(s, keep) == [j \in DOMAIN keep |-> s[keep[j]]]

\* For the variant below: all but the deltas filtered.
FilterKeepsDeltas(b, keep) ==
  IF keep = <<>> THEN EmptyBatch
  ELSE [rows |-> Kept(b.rows, keep), cache |-> Kept(b.cache, keep), scalar |-> Len(keep) = 1,
        tokens |-> Kept(b.tokens, keep), logprobs |-> Kept(b.logprobs, keep),
        top |-> IF b.top = NoTop THEN NoTop
                ELSE PadTop([b.top EXCEPT !.rows = Kept(@, keep)], Len(keep),
                            WidestTop(Kept(b.rows, keep))),
        deltas |-> SubSeq(b.deltas, 1, Len(keep))]

\* Variant with a fault: the log-probabilities stay where they were.
FilterKeepsLogprobs(b, keep) ==
  [FilterKeepsDeltas(b, keep) EXCEPT
     !.logprobs = SubSeq(b.logprobs, 1, Len(keep)),
     !.deltas = IF b.deltas = <<>> THEN <<>> ELSE Kept(b.deltas, keep)]

\* filter: the last row goes back to scalar caches.
Filter(b, keep) ==
  LET rows == Kept(b.rows, keep)
  IN  IF keep = <<>> THEN EmptyBatch
      ELSE [rows     |-> rows,
            cache    |-> Kept(b.cache, keep),
            scalar   |-> Len(keep) = 1,
            tokens   |-> Kept(b.tokens, keep),
            logprobs |-> Kept(b.logprobs, keep),
            top      |-> IF b.top = NoTop THEN NoTop
                         ELSE PadTop([b.top EXCEPT !.rows = Kept(@, keep)],
                                     Len(keep), WidestTop(rows)),
            deltas   |-> IF b.deltas = <<>> THEN <<>> ELSE Kept(b.deltas, keep)]

ExtractDeltas(b, i) == IF b.deltas = <<>> THEN <<>> ELSE <<b.deltas[i]>>

\* _step: the tokens sampled last time go into the caches and the histories,
\* and the next ones are sampled.
Step(b) ==
  LET cache == [i \in DOMAIN b.cache |-> Append(b.cache[i], b.tokens[i])]
      logits == [i \in DOMAIN cache |-> Logits(cache[i])]
      next == [i \in DOMAIN b.rows |-> Sampled(b.rows[i].request, logits[i])]
  IN  [b EXCEPT
        !.rows = [i \in DOMAIN b.rows |->
                    [b.rows[i] EXCEPT !.tokens = Materialized(b.rows[i], b.tokens[i]),
                                      !.buffer = IF "penalty" \in Processors(b.rows[i])
                                                 THEN Append(@, b.tokens[i]) ELSE @,
                                      !.emitted = @ + 1]],
        !.cache = cache,
        !.tokens = next,
        !.logprobs = next,
        !.top = TopLogprobs(logits, WidestTop(b.rows))]

-----------------------------------------------------------------------------
(* Cache snapshots, responses and rows that end.                           *)

\* The end of the first chunk of the row that is not saved.
NextChunkEnd(row) == (row.saved + 1) * ChunkSize

SnapshotDue(row) == Len(row.tokens) >= NextChunkEnd(row)

\* Variant with a fault: what was saved is saved again.
NothingSaved(row) == row

Saved(row) ==
  IF SnapshotDue(row) THEN [row EXCEPT !.saved = Len(row.tokens) \div ChunkSize] ELSE row

\* _emit_cache_save_snapshot, for each row.
Snapshots(b) ==
  {[request |-> b.rows[i].request, cache |-> b.cache[i], from |-> b.rows[i].saved,
    to |-> Len(b.rows[i].tokens) \div ChunkSize, length |-> Len(b.rows[i].tokens)]
     : i \in {j \in DOMAIN b.rows : SnapshotDue(b.rows[j])}}

\* Variant with a fault: candidates of the token sampled, not of the one emitted.
CandidatesAhead(b, s, i) ==
  IF asked[s.rows[i].request].top = 0 \/ s.top = NoTop THEN Missing
  ELSE [s.top.rows[i] EXCEPT !.real = Min({@, asked[s.rows[i].request].top})]

\* The candidates that come with a token: b is the batch before the step, s after.
Candidates(b, s, i) ==
  IF asked[s.rows[i].request].top = 0 \/ b.top = NoTop THEN Missing
  ELSE [b.top.rows[i] EXCEPT !.real = Min({@, asked[s.rows[i].request].top})]

Ends(row, stopped) == row.request \in stopped \/ row.emitted >= asked[row.request].max

\* One response of next(); "cache", "tokens" and "deltas" when the row ends.
Response(b, s, i, stopped) ==
  LET row == s.rows[i]
      end == Ends(row, stopped)
  IN  [request  |-> row.request,
       token    |-> b.tokens[i],
       logprob  |-> b.logprobs[i],
       top      |-> Candidates(b, s, i),
       finish   |-> IF row.request \in stopped THEN "stop" ELSE IF end THEN "length" ELSE "no",
       cache    |-> IF end THEN s.cache[i] ELSE <<>>,
       tokens   |-> IF end THEN row.tokens ELSE <<>>,
       deltas   |-> IF end THEN ExtractDeltas(s, i) ELSE <<>>]

\* The batch after its rows have answered; keep lists the rows that go on.
AfterNext(s, keep) ==
  LET saved == [s EXCEPT !.rows = [i \in DOMAIN s.rows |-> Saved(s.rows[i])]]
  IN  IF Len(keep) < Len(s.rows) THEN Filter(saved, keep) ELSE saved

-----------------------------------------------------------------------------
(* The language model's RoPE state.                                        *)

OwnsRope(r) == asked[r].prompt \in {"image", "own"}

Delta(r) == IF asked[r].prompt = "image" THEN r ELSE TextDelta

\* The rope_deltas in a prompt's arguments.
PromptDeltas(r) == IF OwnsRope(r) THEN <<Delta(r)>> ELSE <<>>

\* Variant with a fault: a text's prompt call leaves the state alone.
SideUntouched(r, s) == s

\* _clear_qwen3_5_text_rope_state, before and after a prompt call.
ClearedForText(r, s) == IF OwnsRope(r) THEN s ELSE ClearSide

\* What a decode call adds to a row's position.  The patched language model
\* takes the text path, which adds nothing, only if it is given no deltas and
\* holds none; External: mlx-vlm adds those it holds, then of one prompt.
UsedDelta(deltas, s, i) ==
  IF deltas # <<>> THEN deltas[i] ELSE IF s = ClearSide THEN TextDelta ELSE s.deltas[1]

\* Deltas that are given become the model's state.
AfterCall(deltas, s) == IF deltas = <<>> THEN s ELSE [s EXCEPT !.deltas = deltas]

AfterPromptCall(r, s) ==
  ClearedForText(r, AfterCall(PromptDeltas(r), ClearedForText(r, s)))

\* _capture_rope_deltas: the request's own, or else the model's.
CaptureDeltas(r, s) == IF OwnsRope(r) THEN PromptDeltas(r) ELSE s.deltas

-----------------------------------------------------------------------------
(* insert, remove, next.                                                   *)

\* The prompt's arguments are built before it is inserted: an image prompt
\* leaves its positions and delta in the model, a text clears them.
AfterArguments(r, ask) ==
  IF ask.prompt = "image" THEN [positions |-> r, deltas |-> <<r>>] ELSE ClearSide

Insert(r, ask) ==
  /\ asked[r] = NotAsked
  /\ asked' = [asked EXCEPT ![r] = ask]
  /\ pending' = Append(pending, r)
  /\ side' = AfterArguments(r, ask)
  /\ tick' = NoTick
  /\ UNCHANGED <<prefill, batch>>

RemovePending(r) ==
  /\ \E i \in DOMAIN pending : pending[i] = r /\ pending' = RemoveAt(pending, i)
  /\ UNCHANGED <<prefill, batch>>

RemovePrefill(r) ==
  /\ r = prefill.request
  /\ prefill' = NoPrefill
  /\ UNCHANGED <<pending, batch>>

RemoveRow(r) ==
  /\ \E i \in DOMAIN batch.rows : batch.rows[i].request = r
  /\ \E keep \in Keeping(batch, {i \in DOMAIN batch.rows : batch.rows[i].request # r}) :
       batch' = Filter(batch, keep)
  /\ UNCHANGED <<pending, prefill>>

RemoveRequest(r) ==
  /\ RemovePending(r) \/ RemovePrefill(r) \/ RemoveRow(r)
  /\ tick' = NoTick
  /\ UNCHANGED <<asked, side>>

\* The final prompt call and the first token.
Generated(r, s) ==
  LET first == Sampled(r, Logits(Text(r, PromptLength)))
      row == [request |-> r, tokens |-> Text(r, PromptLength), emitted |-> 0,
              buffer |-> IF "penalty" \in asked[r].processors
                         THEN Text(r, PromptLength) ELSE <<>>,
              saved |-> PromptLength \div ChunkSize]
  IN  [rows |-> <<row>>, cache |-> <<row.tokens>>, scalar |-> TRUE,
       tokens |-> <<first>>, logprobs |-> <<first>>,
       top |-> TopLogprobs(<<first>>, asked[r].top),
       deltas |-> CaptureDeltas(r, AfterPromptCall(r, s))]

\* A restored prompt may be down to its final call.
PromptsToWorkOn ==
  IF prefill # NoPrefill THEN {prefill}
  ELSE IF pending = <<>> THEN {} ELSE [request : {Head(pending)}, steps : 0..1]

\* The prompt part of next(), on the batch b and the side state s that the
\* decode part left.
NoPromptWork(b, s) ==
  /\ Len(b.rows) >= BatchSize \/ PromptsToWorkOn = {}
  /\ batch' = b /\ side' = s
  /\ UNCHANGED <<pending, prefill>>

PromptWork(b, s) ==
  /\ Len(b.rows) < BatchSize
  /\ \E prompt \in PromptsToWorkOn :
       /\ side' = AfterPromptCall(prompt.request, s)
       /\ IF prompt.steps > 0
          THEN prefill' = [prompt EXCEPT !.steps = 0] /\ batch' = b
          ELSE /\ prefill' = NoPrefill
               /\ batch' = AppendPrefilled(b, Generated(prompt.request, s))
  /\ pending' = IF prefill = NoPrefill THEN Tail(pending) ELSE pending

\* next(), without rows to decode.
NextPromptOnly ==
  /\ batch.rows = <<>>
  /\ PromptWork(batch, side)
  /\ tick' = NoTick
  /\ UNCHANGED asked

\* next(): every row emits a token, those in stopped a stop token.
NextDecode(stopped) ==
  LET stepped == Step(batch)
      going == {i \in DOMAIN stepped.rows : ~Ends(stepped.rows[i], stopped)}
      called == AfterCall(batch.deltas, side)
  IN  /\ batch.rows # <<>>
      /\ tick' = [responses |-> [i \in DOMAIN batch.rows |->
                                   Response(batch, stepped, i, stopped)],
                  snapshots |-> Snapshots(stepped),
                  heard |-> {[request |-> batch.rows[i].request,
                              views |-> Heard(batch.rows[i], batch.tokens[i]),
                              sampled |-> stepped.tokens[i]] : i \in DOMAIN batch.rows},
                  given |-> batch.deltas,
                  used |-> [i \in DOMAIN batch.rows |-> UsedDelta(batch.deltas, side, i)]]
      /\ \E keep \in Keeping(batch, going) :
           LET after == AfterNext(stepped, keep)
           IN  NoPromptWork(after, called) \/ PromptWork(after, called)
      /\ UNCHANGED asked

Tick == NextPromptOnly \/ \E stopped \in SUBSET {row.request : row \in ToSet(batch.rows)} :
                            NextDecode(stopped)

Next == \/ \E r \in Requests, ask \in Asks : Insert(r, ask)
        \/ \E r \in Requests : RemoveRequest(r)
        \/ Tick

Spec == Init /\ [][Next]_vars

-----------------------------------------------------------------------------
(* Every list of the batch has an entry per row, of the right kind.        *)
TypeOK ==
  /\ asked \in [Requests -> Asks \cup {NotAsked}]
  /\ pending \in Seq(Requests)
  /\ prefill.request \in Requests \cup {NoRequest}
  /\ LET n == Len(batch.rows) IN
       /\ Len(batch.cache) = n /\ Len(batch.tokens) = n /\ Len(batch.logprobs) = n
       /\ Len(batch.deltas) \in {0, n} /\ n <= BatchSize
       /\ batch.top.width = WidestTop(batch.rows)
       /\ batch.top # NoTop => Len(batch.top.rows) = n
       /\ batch.scalar <=> n = 1
  /\ side.positions \in Requests \cup {NoRequest}
  /\ side.positions # NoRequest => side.deltas # <<>>
  /\ batch.rows # <<>> /\ batch.deltas = <<>> => Len(side.deltas) <= 1

(* What stands at a row's place in each array of the batch is its own: its *)
(* cache holds its history and no more, the token sampled for it continues *)
(* the history, and the log-probability is that token's.                   *)
RowsOwnTheirEntries ==
  \A i \in DOMAIN batch.rows :
    LET row == batch.rows[i]
        n == PromptLength + row.emitted
    IN  /\ row.tokens = Text(row.request, n)
        /\ batch.cache[i] = row.tokens
        /\ batch.tokens[i] = <<row.request, n + 1>>
        /\ batch.logprobs[i] = batch.tokens[i]

(* Each response carries the next token of its request's text, with that   *)
(* token's log-probability and as many of its candidates as were asked     *)
(* for.  With the last one come the cache and the tokens that make up the  *)
(* hot cache: the same text, up to and with that token.                    *)
ResponsesAreOwn ==
  \A i \in DOMAIN tick.responses :
    LET res == tick.responses[i]
        r == res.request
    IN  /\ res.token[1] = r /\ res.logprob = res.token
        /\ res.top = IF asked[r].top = 0 THEN Missing
                     ELSE [of |-> res.token, real |-> asked[r].top]
        /\ res.finish # "no" => /\ res.tokens = Text(r, res.token[2])
                                /\ res.cache = res.tokens
                                /\ res.deltas \in {<<>>, <<Delta(r)>>}
                                /\ asked[r].prompt = "image" => res.deltas # <<>>

(* A snapshot given to the cache writer is of the request's own text, ends *)
(* where its cache ends, and starts at the first chunk not given before:   *)
(* one that is skipped would break the chain of records, and one that is   *)
(* not complete has no record.                                             *)
SnapshotsChain ==
  \A s \in tick.snapshots :
    /\ s.cache = Text(s.request, s.length)
    /\ s.to * ChunkSize <= s.length /\ s.length < (s.to + 1) * ChunkSize
    /\ s.to = s.from + 1

(* Every logits processor sees the whole text before the token it has a    *)
(* say in, each token once, whichever of the three ways it is fed.         *)
ProcessorsSeeAll ==
  \A h \in tick.heard : \A view \in h.views :
    view = Text(h.request, Len(view)) /\ h.sampled = <<h.request, Len(view) + 1>>

(* What an image prompt without a row left in the model, found by a batch  *)
(* of texts alone, that gives no deltas: nothing clears the model's state  *)
(* before a decode step.                                                   *)
StaleDelta(d) ==
  /\ tick.given = <<>>
  /\ d \in Requests /\ asked[d].prompt = "image"
  /\ \A i \in DOMAIN tick.responses : Delta(tick.responses[i].request) = TextDelta

(* A decode call adds to a row's positions the delta of the row's own      *)
(* prompt: an image's, or 0 for a text, whatever rows join and leave.  The *)
(* one exception is a stale delta in a batch of texts alone.               *)
DeltasAreOwn ==
  \A i \in DOMAIN tick.responses :
    \/ tick.used[i] = Delta(tick.responses[i].request)
    \/ StaleDelta(tick.used[i])

(* The batch's separate arrays are cut and joined alike: every row's       *)
(* tokens, responses, cache chunks and rope deltas are its own request's,  *)
(* but for what StaleDelta says.                                           *)
RowsAreOwn ==
  /\ TypeOK
  /\ RowsOwnTheirEntries
  /\ ResponsesAreOwn
  /\ SnapshotsChain
  /\ DeltasAreOwn

=============================================================================
