------------------------------ MODULE CacheWrapper ------------------------------
(***************************************************************************)
(* The prompt cache of the sequential kit.  A cache is the sequence of the *)
(* tokens the model was run on, in the layer whose offset is read and in   *)
(* another one: a call that raises may have reached one of them only.  The *)
(* live cache is filled chunk by chunk, a reporter may stop it at each,    *)
(* and snapshots of it go to a history that later prompts restore from.    *)
(***************************************************************************)
EXTENDS Naturals, FiniteSets, SequencesExt

CONSTANTS Tokens,
          Prompts,    \* the prompts there may be, not empty
          ChunkSize,  \* _chunk_size
          Capacity,   \* _history_capacity
          Models,     \* what loaded models may be like
          DraftModels, \* the draft models there are
          NoDraft,    \* no draft model
          MaxLive     \* bound: tokens of a prompt and what is generated for it

ASSUME WrapperAssumption ==
  /\ Prompts \subseteq Seq(Tokens) /\ \A p \in Prompts : Len(p) \in 1..MaxLive
  /\ ChunkSize \in Nat \ {0} /\ Capacity \in Nat \ {0} /\ MaxLive \in Nat
  /\ NoDraft \notin DraftModels
  /\ Models \subseteq [trimmable : BOOLEAN,  \* can_trim_prompt_cache() of its caches
                        quantized : BOOLEAN,  \* kv_bits is given
                        drafts : BOOLEAN,     \* is a draft model ever set?
                        tail : Nat \ {0}]     \* _checkpoint_tail_tokens

VARIABLES
  model,    \* the loaded model
  live,     \* _live_tokens; None and no tokens are the same
  main,     \* _live_cache: the main model's layer whose offset is read
  second,   \* another layer of the main model
  pair,     \* the draft model the other part of _live_cache was made for
  failed,   \* did a model call that raised leave the layers of the live cache apart?
  drafted,  \* the draft model that is set
  history,  \* the snapshots: their tokens, and what they hold of the live cache
  phase,    \* "idle", prefilling "draft" or "main", or "generating"
  rest,     \* remaining_tokens of the prefill
  hit,      \* cached_tokens of the last prompt
  retry     \* the last prompt, if it was cancelled, and the progress it had

cacheVars == <<main, second, pair, failed>>
wrapperVars == <<model, live, cacheVars, drafted, history, phase, rest, hit, retry>>

Drafted == drafted # NoDraft
NoRetry == [prompt |-> <<>>, progress |-> 0]

WrapperTypeOK ==
  /\ live \in Seq(Tokens) /\ main \in Seq(Tokens) /\ second \in Seq(Tokens)
  /\ rest \in Seq(Tokens) /\ (rest # <<>> <=> phase \in {"draft", "main"})
  /\ {drafted, pair} \subseteq DraftModels \cup {NoDraft} /\ failed \in BOOLEAN
  /\ Cardinality(history) <= Capacity
  /\ phase \in {"idle", "draft", "main", "generating"}
  /\ hit \in Nat /\ retry.progress \in Nat

WrapperInit ==
  /\ model \in Models
  /\ live = <<>> /\ main = <<>> /\ second = <<>> /\ rest = <<>>
  /\ drafted = NoDraft /\ pair = NoDraft
  /\ failed = FALSE
  /\ history = {}
  /\ phase = "idle"
  /\ hit = 0
  /\ retry = NoRetry

-----------------------------------------------------------------------------
(* External: mlx-lm's LRUPromptCache.                                      *)

First(s, n) == SubSeq(s, 1, n)
Trimmed(s, n) == First(s, IF n < Len(s) THEN Len(s) - n ELSE 0)

CommonLength(s, t) ==
  CHOOSE n \in 0..Len(s) :
    /\ n <= Len(t) /\ First(s, n) = First(t, n)
    /\ n < Len(s) /\ n < Len(t) => s[n + 1] # t[n + 1]

\* What a history may be after an insertion: a snapshot of the same tokens is
\* replaced or kept, any other one makes room.
HistoryWith(snapshot) ==
  LET other == {x \in history : x.tokens # snapshot.tokens}
      full == other \cup {snapshot}
  IN IF Cardinality(full) > Capacity THEN {full \ {x} : x \in other}
     ELSE {full} \cup (IF other # history THEN {history} ELSE {})

\* How many tokens of a prompt a snapshot serves: a longer one must be trimmed.
Serves(x, p) ==
  IF IsPrefix(x.tokens, p) THEN Len(x.tokens)
  ELSE IF model.trimmable THEN CommonLength(x.tokens, p) ELSE 0

Nearest(h, p) == {x \in h : Serves(x, p) > 0 /\ \A y \in h : Serves(y, p) <= Serves(x, p)}

\* What fetch_nearest_cache may return: every layer is trimmed alike.
Fetched(h, p) ==
  {LET over == Len(x.tokens) - Serves(x, p)
   IN [main |-> Trimmed(x.main, over), second |-> Trimmed(x.second, over), pair |-> x.pair,
       failed |-> x.failed, length |-> Serves(x, p)]
   : x \in Nearest(h, p)}

-----------------------------------------------------------------------------
\* _make_cache()
Miss == [main |-> <<>>, second |-> <<>>, pair |-> drafted, failed |-> FALSE, length |-> 0]

LessOne(c) ==
  [main |-> Trimmed(c.main, 1), second |-> Trimmed(c.second, 1), pair |-> c.pair,
   failed |-> c.failed, length |-> c.length - 1]

\* Variant with a fault: an exact hit is used as it is.
ExactHitUsed(c) == c

ExactHit(c) == LessOne(c)

\* Variant with a fault: the prompt is looked up again as it is.
WholePrompt(p) == p

TruncatedPrompt(p) == Front(p)

\* An exact hit gives one token back, or a shorter snapshot is looked for.
Restored(h, p) ==
  LET found == Fetched(h, p)
      exact == {c \in found : c.length = Len(p)}
      shorter == Fetched(h, TruncatedPrompt(p))
  IN IF found # {} /\ exact = {} THEN found
     ELSE IF exact # {} /\ model.trimmable THEN {ExactHit(c) : c \in exact}
     ELSE IF Len(p) > 1 /\ shorter # {} THEN shorter
     ELSE {Miss}

\* Variant with a fault: the snapshot is stored for all live tokens.
SnapshotTokensAll == live

SnapshotTokens == First(live, Len(main))

\* _store_snapshot: a copy of the live cache.
Snapshot(tokens, m, l) ==
  [tokens |-> tokens, main |-> m, second |-> l, pair |-> pair, failed |-> failed]

\* _flush_live_cache: the live cache becomes a snapshot, if it is worth one and
\* its tokens are known.
Flushed ==
  IF Len(main) = 0 \/ Len(main) > Len(live) THEN {history}
  ELSE HistoryWith(Snapshot(SnapshotTokens, main, second))

CheckpointLength == Len(live) - model.tail

\* Checkpoints are for the main model alone, and only beyond what was cached.
HasCheckpoint ==
  ~Drafted /\ ~model.quantized /\ Len(live) > model.tail /\ CheckpointLength > hit

\* Variant with a fault: a prefill of no tokens runs the model.
FirstPhaseAlways(tokens) == IF Drafted THEN "draft" ELSE "main"

FirstPhase(tokens) ==
  IF tokens = <<>> THEN "generating" ELSE IF Drafted THEN "draft" ELSE "main"

\* update_cache(), up to the first model call.
UpdateCache(p) ==
  /\ phase = "idle"
  /\ \E h \in Flushed :
       /\ history' = h
       /\ \E c \in Restored(h, p) :
            LET tokens == Front(SubSeq(p, c.length + 1, Len(p)))
            IN /\ main' = c.main /\ second' = c.second /\ pair' = c.pair /\ failed' = c.failed
               /\ hit' = c.length
               /\ rest' = tokens
               /\ phase' = FirstPhase(tokens)
  /\ live' = p
  /\ retry' = NoRetry
  /\ UNCHANGED <<model, drafted>>

\* Variant with a fault: chunks are not split at the checkpoint.
ChunkLengthUnsplit == IF Len(rest) < ChunkSize THEN Len(rest) ELSE ChunkSize

\* The next chunk ends at the checkpoint if it would cross it.
ChunkLength ==
  LET full == IF Len(rest) < ChunkSize THEN Len(rest) ELSE ChunkSize
  IN IF phase = "main" /\ HasCheckpoint /\ Len(main) < CheckpointLength
        /\ Len(main) + full > CheckpointLength
     THEN CheckpointLength - Len(main) ELSE full

\* How many tokens the draft model's part holds is not modelled.
RunModel(n) ==
  IF phase = "draft" THEN UNCHANGED cacheVars
  ELSE /\ main' = main \o First(rest, n) /\ second' = second \o First(rest, n)
       /\ UNCHANGED <<pair, failed>>

StoreCheckpoint(n) ==
  IF phase = "main" /\ HasCheckpoint /\ Len(main) + n = CheckpointLength
  THEN history' \in HistoryWith(Snapshot(First(live, CheckpointLength), main', second'))
  ELSE UNCHANGED history

\* One chunk, after which the reporter lets the prefill go on ...
PrefillChunk ==
  /\ phase \in {"draft", "main"}
  /\ LET left == SubSeq(rest, ChunkLength + 1, Len(rest))
     IN /\ RunModel(ChunkLength)
        /\ StoreCheckpoint(ChunkLength)
        /\ IF left # <<>> THEN rest' = left /\ UNCHANGED phase
           ELSE IF phase = "draft"
                THEN rest' = Front(SubSeq(live, hit + 1, Len(live))) /\ phase' = "main"
                ELSE rest' = <<>> /\ phase' = "generating"
  /\ UNCHANGED <<model, live, drafted, hit, retry>>

\* Variant with a fault: a cancelled prompt is forgotten.
TokensForgotten(n) == <<>>

TokensAfterCancel(n) == First(live, n)

\* ... or stops it: the live tokens are cut to the main cache.
CancelPrefill ==
  /\ phase \in {"draft", "main"}
  /\ RunModel(ChunkLength)
  /\ StoreCheckpoint(ChunkLength)
  /\ live' = TokensAfterCancel(Len(main'))
  /\ retry' = [prompt |-> live, progress |-> Len(main')]
  /\ rest' = <<>>
  /\ phase' = "idle"
  /\ UNCHANGED <<model, drafted, hit>>

\* What a model call on these tokens that raises may have added to the two
\* layers: layers run in order, and are advanced in place; only one without an
\* offset, that cannot be trimmed, comes before the one whose offset is read.
RaisedOn(calls) ==
  {added \in calls \X calls : Len(added[1]) < Len(added[2]) => ~model.trimmable}

Advance(added) ==
  /\ main' = main \o added[1] /\ second' = second \o added[2]
  /\ failed' = (failed \/ added[1] # added[2])

\* The model raises in its call, in some layer of it or before ...
PrefillRaises ==
  /\ phase \in {"draft", "main"}
  /\ rest' = <<>>
  /\ phase' = "idle"
  /\ IF phase = "draft" THEN UNCHANGED <<main, second, failed>>
     ELSE \E added \in RaisedOn({<<>>, First(rest, ChunkLength)}) : Advance(added)
  /\ UNCHANGED <<model, live, pair, drafted, history, hit, retry>>

\* ... or the chunk's evaluation raises, or the reporter, that comes after it.
ReporterRaises ==
  /\ phase \in {"draft", "main"}
  /\ RunModel(ChunkLength)
  /\ StoreCheckpoint(ChunkLength) \/ UNCHANGED history
  /\ rest' = <<>>
  /\ phase' = "idle"
  /\ UNCHANGED <<model, live, drafted, hit, retry>>

\* External: stream_generate runs the models on all tokens but the newest.
\* record_generated_token: the newest is added to the live tokens.
GenerateToken(t) ==
  /\ phase = "generating"
  /\ Len(live) < MaxLive
  /\ LET behind == SubSeq(live, Len(main) + 1, Len(live))
     IN main' = main \o behind /\ second' = second \o behind
  /\ live' = Append(live, t)
  /\ UNCHANGED <<model, pair, failed, drafted, history, phase, rest, hit, retry>>

\* External: stream_generate may have run ahead on the newest token.
StopGenerating ==
  /\ phase = "generating"
  /\ phase' = "idle"
  /\ \E ahead \in {<<>>, SubSeq(live, Len(main) + 1, Len(live))} :
       main' = main \o ahead /\ second' = second \o ahead
  /\ UNCHANGED <<model, live, pair, failed, drafted, history, rest, hit, retry>>

\* External: stream_generate raises, on the newest token or on one it sampled
\* after it.  With a draft model its last clause trims the caches once more.
GenerationRaises ==
  /\ phase = "generating"
  /\ phase' = "idle"
  /\ LET behind == SubSeq(live, Len(main) + 1, Len(live))
     IN \E t \in Tokens : \E added \in RaisedOn({<<>>, behind, Append(behind, t)}) :
        \E over \in IF Drafted THEN 0..Len(main) ELSE {0} :
          /\ main' = Trimmed(main \o added[1], over)
          /\ second' = Trimmed(second \o added[2], over)
          /\ failed' = (failed \/ added[1] # added[2])
  /\ UNCHANGED <<model, live, pair, drafted, history, rest, hit, retry>>

\* Variant with a fault: snapshots without a draft cache are kept.
HistoryKept == history

NewHistory == {}

\* set_draft_model(): everything is made anew for another draft model.
SetDraftModel(d) ==
  /\ model.drafts /\ phase = "idle" /\ d # drafted
  /\ drafted' = d /\ pair' = d
  /\ history' = NewHistory
  /\ live' = <<>> /\ main' = <<>> /\ second' = <<>>
  /\ failed' = FALSE
  /\ retry' = NoRetry
  /\ UNCHANGED <<model, phase, rest, hit>>

\* unset_draft_model(): the main model's part stays.
UnsetDraftModel ==
  /\ phase = "idle" /\ Drafted
  /\ drafted' = NoDraft /\ pair' = NoDraft
  /\ history' = NewHistory
  /\ retry' = NoRetry
  /\ UNCHANGED <<model, live, main, second, failed, phase, rest, hit>>

WrapperNext ==
  \/ \E p \in Prompts : UpdateCache(p)
  \/ PrefillChunk \/ CancelPrefill \/ PrefillRaises \/ ReporterRaises
  \/ \E t \in Tokens : GenerateToken(t)
  \/ StopGenerating \/ GenerationRaises
  \/ (\E d \in DraftModels : SetDraftModel(d)) \/ UnsetDraftModel

WrapperSpec == WrapperInit /\ [][WrapperNext]_wrapperVars

-----------------------------------------------------------------------------
(* Properties.                                                             *)

(* A snapshot's offset names the tokens it is filed under, and that of a   *)
(* live cache that may become one the first live tokens: in that layer a   *)
(* restored cache was computed from the prompt's own tokens, whatever was  *)
(* cancelled, trimmed, generated, or raised before.                        *)
CachesMatchTokens ==
  /\ \A x \in history : x.main = x.tokens
  /\ phase = "idle" /\ Len(main) <= Len(live) => IsPrefix(main, live)

(* The other layers hold the same tokens, but in a cache that a model call *)
(* left half way when it raised, and in what was trimmed from such a cache *)
(* or computed on it: the offset that is read says nothing of the others   *)
(* there, and the wrapper goes on with the cache, and files it, as if.  No *)
(* other cache is touched by it.                                           *)
LayersAgree ==
  /\ ~failed => second = main
  /\ \A x \in history : ~x.failed => x.second = x.main

(* The draft part of a cache, of the live one and of every snapshot, was   *)
(* made for the draft model that is set: a prompt never restores a part    *)
(* of another draft model, or lacks one.                                   *)
DraftPartsFit == pair = drafted /\ \A x \in history : x.pair = drafted

(* When generation starts the model was run on all of the prompt but the   *)
(* token that seeds decoding, once, in order.                              *)
ReadyToDecode == phase = "generating" => main = Front(live)

(* A prompt of a model whose caches cannot be trimmed leaves a checkpoint  *)
(* behind, so that asking it again restores a part (test "same prompt      *)
(* reuses checkpoint when full snapshot cannot trim").                     *)
CheckpointIsStored ==
  HasCheckpoint => \E x \in history : x.tokens = First(live, CheckpointLength)

CheckpointTaken ==
  [][phase # "generating" /\ phase' = "generating" => CheckpointIsStored']_wrapperVars

(* "progress is saved when processing is cancelled and cache is reused on  *)
(* retry": the prompt that was just cancelled restores what had been       *)
(* prefilled of it, but for a token to seed decoding.                      *)
CancelKeepsProgress ==
  [][phase = "idle" /\ phase' # "idle" /\ retry.prompt # <<>> /\ live' = retry.prompt
     => hit' >= retry.progress]_wrapperVars

(* What the wrapper believes of its caches is true: of the snapshots, of   *)
(* the cache that decoding starts from, and of the draft model's part.     *)
CachesTrue ==
  /\ WrapperTypeOK
  /\ CachesMatchTokens
  /\ LayersAgree
  /\ DraftPartsFit
  /\ ReadyToDecode

(* Prefill leaves behind what a later prompt needs: the checkpoint, and    *)
(* after a cancel the chunks that were done.                               *)
PrefillKept ==
  /\ CheckpointTaken
  /\ CancelKeepsProgress

=============================================================================
