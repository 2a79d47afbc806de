# mlx-engine: TLA+ models, model checking and proofs

This directory models the control of `mlx_engine`: how a request travels from
the HTTP server through `generate.py` and the three kits, who owns it at each
moment, how it is cancelled, fails and ends, what the prompt caches keep and
restore, how prompts are cut into model calls and what arguments those get, and
how tool calls are guarded. Modules are plain TLA+. TLC checks small instances
(the `.cfg` files; `MC*.tla` modules hold their constants), and TLAPS proves the
theorems of `*Proofs.tla` for every value of the constants. `PROJECT.json` maps
every definition to the lines it models and lists runs, mutants, hazards,
findings and theorems.

Run a check with `tlc -config vlm_safety.cfg MCVlmKit`, a proof with
`tlapm VlmKitProofs.tla`.

## 1. The system

| Component | State it keeps | Operations | Interacts with |
|---|---|---|---|
| Request lifecycle, `batched_vision/request_lifecycle.py` | `pending`, `ready`, `restoring`, `cancelled_restores`, `active` | drain, cancel, late restore, insert, admit, step, cancel-all | queue fed by clients and the I/O thread; batch generator; response queues |
| `BatchedVisionModelKit`, `batched_vision/model_kit.py` | `_requests` queue, shutdown flag, backend exception, threads | `generate`, `remove`, `shutdown`, generation loop, fail-all | all of the others |
| Prompt-cache I/O thread, `cache_io_thread.py` | priority queue of restore, budget and save jobs | run, enqueue, close | cache store, the kit's queue |
| `BatchGenerator`, `batch_generator.py`, `prefill_plan.py` | waiting rows, the row in prefill, the decode batch's parallel arrays | `insert`, `remove`, `next`, cut, join, filter, snapshot | model (external), cache snapshots |
| Context fit, `context_fit.py` | the fit of the loaded model | probe, fit, plan of a request | model (external), batch generator |
| Prompt inputs, `prompt_inputs.py`, `qwen_mrope.py`, `patches/` | arguments of a prompt not yet used, RoPE state | build, drop a prefix, slice for a call | batch generator |
| Prompt cache store, `prompt_cache/cache_store.py` | record index, sizes, LRU order, bytes used, disk budget | plan, load, prepare, commit, evict, close | blob store; owned by the I/O thread |
| Blob store, `prompt_cache/blob_store.py` | record extents, sorted free extents, end of file | `put`, `load_record`, `delete`, `close` | one temporary file |
| Coordinator and planner, `prompt_cache/{coordinator,restore_planner,chunks,image_spans}.py` | the hot entry | `restore`, take, store, clear, snapshot | cache store; I/O and generation threads |
| Text kit, `model_kit/batched_model_kit.py` | queue, `_batch_results`, backend exception | the vision kit's interface over mlx-lm's batcher | `generate.py` |
| Sequential kit, `model_kit/model_kit.py`, `generate.py`'s `_SequentialModelKitGenerator` | executor, generation lock, pending requests and their cancel events | generate, cancel by id, close, shut down | `generate.py`, cache wrapper |
| Cache wrapper, `cache_wrapper.py` | live tokens and cache, snapshots, draft model | update, prefill, record a token, set a draft model | sequential kit, reporter |
| Streams, `generate.py`, `stop_string_processor.py`, `utils/generation_helpers.py` | text, token and stop-string buffers | read, hold, yield, stop, farewell | kits, callers |
| Progress, `utils/prompt_progress_*.py` | counts, what a reporter was told and said | begin, update, finish | kits, server |
| HTTP server, `server/` | active sessions, shutdown lock | `do_POST`, cancel, unload | `generate.py`, kit |
| Tool runtime, `tool_runtime.py`, `tool_protocols.py` | guard state, matcher, count of tokens seen | mask, consume, track reasoning | decode loop of a row |

What is hard in it, and what makes each part correct:

* **Lifecycle and vision kit.** Clients, a generation thread and an I/O thread
  share one FIFO queue. Cancels, restore results and new requests arrive in any
  order; a request moves through five collections; a fatal exception can strike
  anywhere; shutdown joins two threads and closes a store both used. Correct
  means: no request is lost, kept or answered twice; the limit on sequences
  holds; every consumer is released; the store closes last.
* **Batch generator.** One row prefills while others decode, and rows come and
  go between calls, each with its own share of half a dozen parallel arrays.
  Rows must agree with the lifecycle's `active`, every array with the rows, and
  logits processors must see exactly the text of their row.
* **Prefill.** The fit rounds up, a request's boundaries round down, images must
  not be cut, opaque state can be restored only where a call ended, and one token
  must be left. The plan must cover the prompt within memory, and every call must
  get the arguments the whole prompt has at its tokens.
* **Cache store, blob store, coordinator.** Five views of the same records are
  changed by steps that fail half way; extents are reserved, coalesced and
  truncated; two caches may each fail to load, and prompts with different images
  look alike. They must agree, stay within the budget, and restore the longest
  prefix that belongs to the request.
* **Text kit.** The vision kit's interface with less bookkeeping: responses look
  their entry up without a check, and the queue is not drained at the end.
* **Sequential kit and cache wrapper.** Cancellation goes through events that are
  registered on one thread and picked up on another; a prefill may be cancelled or
  fail between two chunks, with two caches to keep in step.
* **Streams.** Text is held back while it may become a stop string, by two buffers
  that are cleared at different moments; a stream may end by token, text, limit,
  cancel and several of them.
* **Server.** A session is cancelled by its handler or by a signal, before or
  after its request has reached the kit; clients go away at any write.
* **Tool guard.** It masks the next token before it knows the last one.

## 2. Modules

```
RequestService          what a kit promises its callers            (abstract)
   ^ implemented by VlmKit, TextKit and SequentialKit (Limit 1)
BatchScheduler <- VlmKit <- MCVlmKit, VlmKitProofs
TextKit, PromptProgress <- TextKitProofs
SequentialKit <- MCSequentialKit
CacheWrapper, PromptProgress <- MCPromptProcessing
SequentialKit, CacheWrapper <- SequentialKitProofs
StopStrings <- GenerationStream <- MCGenerationStream, StreamProofs
BlobMap                 a map from keys to blobs                   (abstract)
   ^ implemented by BlobStore
PromptPrefix <- PromptCacheStore <- PromptCacheCoordinator
PromptCacheCoordinator, BlobStore <- MCPromptCache, PromptCacheProofs
ContextFit <- PromptPrefill
PromptPrefill, PromptInputs <- MCPromptPrefill, PrefillProofs
DecodeBatch <- MCDecodeBatch, DecodeBatchProofs
ToolPhases <- ToolProtocol   what text may call tools               (abstract)
   ^ implemented by ToolGuard
HttpServer, ToolGuard <- MCChatServer, ChatServerProofs
```

`<-` is EXTENDS. Four MC modules put two components in one instance. Their state
is disjoint, so nothing is gained by interleaving them: a variable `about`, fixed
in the initial state, says which of the two moves, and the other rests in one
initial state. All its invariants hold there, its actions are never enabled in a
step of the instance, and where fairness is assumed of it none of the fair actions
is enabled in that state. Every behaviour of each component alone is a behaviour of
the instance.

### VlmKit and BatchScheduler

One action per operation of each thread; a thread's loop is its `phase`:
`top -> drain -> insert -> admit -> step -> respond -> top`, with `work` the
items the current `for` loop still has to handle, so that the other threads and
the clients interleave between any two items.

| Model | Code |
|---|---|
| `CallGenerate`, `PutRequest` | the two halves of `generate()`: check the flags, then put |
| `StopGeneration`, `Leave`, `EndStream` | `stop_generation()`; a consumer that stops reading and removes its request; the iterator's end |
| `StartDrain`, `HandleNew`, `HandleCancel`, `HandlePrepared`, `HandleLateRestore`, `HandleFailedRestore` | `drain_queue`, `drain_generation_events`, `cancel_request`, `handle_prepared_event` |
| `StartInsert`, `InsertReady`, `RejectReady`, `EndInsert` | `insert_ready_requests`, `_insert_prepared_request` |
| `AdmitPending` | `admit_pending_requests` |
| `CallNext`, `RespondProgress`, `RespondToken`, `RespondLast`, `EndResponses` | `step_generation`, `_finish_response` |
| `CancelAll`, `FatalError`, `FailAll` | end of the loop, the exception handler |
| `IoRestore`, `IoFailRestore`, `IoDeliver`, `IoCommit`, `IoEnd` | `PromptCacheIOThread._run` |
| `RequestShutdown`, `GenerationJoined`, `CloseIoThread`, `CloseStore` | `shutdown()`, `close()` |
| `InsertRow`, `RemoveRow`, `PromptStep`, `JoinDecode`, `FinishRow` | `BatchGenerator.insert/remove/next` |

Data abstracted: tokens, prompts, logits, caches (a Boolean for the hot entry),
save and budget jobs (a counter). A response queue is the sequence of all
messages ever put on it. `StartDrain` takes the loop's test of the shutdown flag
(`model_kit.py:693`) and the drain of the queue in one step; a shutdown that comes between
the two is seen a turn later, and no property tells the two apart.

### TextKit

The loop is `phase`: `top` (take at most one item), `check` (the test that skips
generation), `batch` (one call of `next()`), `respond` (its responses one by
one), `store` (between the end of a stream and the removal of its entry, where
`insert_cache` may raise). What `next()` reports (`MayRespond`) is external: at
most one response per row, progress before tokens, at most `MaxTokens` tokens. The
time budget is a choice after every batch.

### SequentialKit

The executor's one thread is `worker` and `step`: a task is taken from the work
queue, looks at its cancel event, waits for the lock, prefills, asks for tokens and
releases in its `finally` clause. Callers make a generator (which registers the
event), start it with the first `__next__` (which submits the task, and may find
the executor closed), read, leave or `close()`. `cancel_request` is two lookups
(`StopLooksUp`, `StopSets`); `shutdown()` is three steps; `CallKit` is any other
call through the executor. A generator's id is its own; a cancel event is named by
the generator it was made for.

### CacheWrapper and PromptProgress

A cache is the sequence of tokens the model was run on, in the layer whose offset the
wrapper reads (`main`) and in another one (`second`). The live cache also has a part for a
draft model: `pair` is the one it was made for; how many tokens that part holds is not
modelled (section 6). The prefill goes chunk by chunk (`PrefillChunk`), stops at the
checkpoint position, and may be cancelled by the reporter at each chunk (`CancelPrefill`).
A model call may raise in the prefill or in generation (`PrefillRaises`,
`GenerationRaises`): layers run in order and are advanced in place, so either of the two
may have got the call's tokens and the other not (`RaisedOn`). `failed` remembers that a
call left the layers of the live cache, or of a snapshot, apart. `ReporterRaises` is an
exception that comes after the whole call: its evaluation's, or the reporter's.

`PromptProgress` runs the same prefill
as the caller's reporter sees it, for each of the kits: the sequential kit calls
the reporter in its own thread, the batched kits queue progress the caller's thread
reads later. A reporter may raise, or say stop, at any event.

### StopStrings, GenerationStream

`StopStrings` is the processor's verdict on a text (`multi_byte`, `full_stop`,
`partial_match`, `no_match`). `GenerationStream` reads a token of the backend at a
time, with the three buffers of the code (`text`, `tokens`, `ids`) and the results
handed out; `batched` picks the loop, and with it the order in which the limit, the
end token, the stop string and the cancel are looked at, the farewell of a cancelled
sequential stream, and what tells the backend to stop. `vision` picks the batched kit: in
both, the caller's progress reporter runs inside the stream, and may end it by saying stop
(`ReporterStops`) or by raising (`ReporterRaises`); the vision kit then takes the request
out, the text kit does not.

### BlobStore and BlobMap, PromptPrefix, PromptCacheStore, PromptCacheCoordinator

`BlobStore` has `records` and `free` extents, `end`, and the file byte by byte,
each byte tagged with the key that wrote it and its place. `Put` and `PutFails` are
the two outcomes of `put`, the latter after any part was written.

A chunk's key is the hash input of its rolling hash, named by one prompt that
has it: two chunks get the same key exactly when the code hashes the same thing.
A record is a chunk key and a kind. `store` is the record `[index, sized, lru,
total, blobs]` of the store's five collections. `CommitSave`, `CommitBudgetUpdate`,
`CloseStore` are whole jobs; a restore is a job of several steps (`StartRestore`,
`LoadDisk`, `LoadDiskFails`, `LoadHot`, `HandOver`), between which the generation
thread may store or clear the hot entry. A workload has
the kinds of records a model needs, the prompts asked for, and the budget before the
final one is known. `PromptCacheStore` uses a function from
keys to blobs where the code calls the blob store; `BlobStore` is shown to be one.

### ContextFit, PromptPrefill, PromptInputs

`ContextFit` is arithmetic: what one token costs, what is left of the machine's
memory, the context and the cache limit of each candidate step. `PromptPrefill` loads a
model, admits a request, plans it a candidate at a time (`PlanStep`, `PlanDone`) and
makes model calls (`PromptStep`, `Generate`), whose ends come from the plan, the
last reusable chunk boundary and the prompt's images. `PromptInputs` names tokens, embeddings
and keys by their index in the whole prompt, builds the arguments a family of
models takes, drops a restored prefix and slices for calls of every length
(`CutStep`, `CutRest`); each property compares a call's arguments with the whole prompt's.

### DecodeBatch

The arrays of `GenerationBatch` and the cut, join and filter of each, with entries
named by request and position: whatever mixes two requests is `Garbage`. A call of
`next()` samples one token and emits the one before. The language model has RoPE
state of its own, which prompts and decode steps share: a decode step adds to a row's
positions the deltas the batch gives, or, if it gives none, those the model holds
(`UsedDelta`).

### ToolPhases, ToolProtocol, ToolGuard

`ToolProtocol` grows a text by one permitted token at a time. `ToolGuard` is the
logits processor in the decode loop: it masks the next token with the last one
sampled but not in the history, keeps a matcher in a call, and learns a step later
that a call began. A grammar is an automaton over a few tokens.

### HttpServer

A handler thread per request (`pc`: body, register, headers, submit, read, and the
clean-up finish, cancel, set, stop, close), the kit cut down to its queue and responses, and the main thread
as a stack of calls, since a signal interrupts whatever it runs: stop serving, take
the lock, copy the sessions, cancel each, unload. A write may fail at any point
(`ClientLost`).

## 3. Runs

| Run | Instance | Shows |
|---|---|---|
| `vlm_safety` | 2 requests, limit 2, 2 prompt steps, 2 tokens | streams in order and within the token limit, rows = active, no idle hot cache |
| `vlm_fatal` | 2 requests, limit 1, 1 step, 1 token, a save job, fatal errors | requests accounted for (types, one place each, slots, restores under way), store closed last, every consumer answered, saves done, no overtaking, cancels take effect, refinement of `RequestService` |
| `text_service` | 2 requests, 1 step, 2 tokens, fatal errors | rows = entries, streams in order, calls return, refinement of `RequestService` |
| `text_shutdown` | 1 request | violated, see section 6 |
| `prompt_cache` | four workloads of up to 4 prompts, one with a span for all of it, one with an image that a chunk ends in; 3 keys, blobs of 1 to 4 bytes | store consistent and within budget, longest restore, right images, eviction keeps what the saved chain's prompt can restore, but for a longer part; file tiled, refinement of `BlobMap` |
| `stream` | 9 tokens, 3 of them ends, 4 stop strings, up to 5 tokens read | text shown, held back and stopped rightly, one reason, nothing left running but where section 6 says so |
| `seq_safety` | 2 generators, 1 token | cancels heard, ids, lock and results given back in order, refinement of `RequestService` |
| `seq_released` | 1 generator, up to 3 tokens, an executor call | every caller gets an answer |
| `prompt_processing` | prompts of 3 and 5 tokens, chunks of 2, two models, two draft models, calls that raise; prompts of up to 5 tokens and 2 generated ones, three kits | caches true but where a call that raised left one torn, checkpoint taken and progress kept after a cancel; progress told in order, once, to 100 percent, stops honoured |
| `prefill` | 101 models on machines from too small to ample, prompts of 1 to 17 tokens; 7 families, 6 prompts, cuts of every length | plan and calls safe, and no smaller than need be; arguments of every call right; every admitted request is prefilled |
| `decode_rows` | 3 requests, 6 kinds of asks | arrays keep to their rows, and so do RoPE deltas but in a batch of texts alone; processors see all of their text |
| `chat_server` | 1 session, 2 texts, 1 signal; 3 protocols, texts of up to 7 tokens | requests end well, an early cancel holds, shutdown ends; the guard keeps up, refinement of `ToolProtocol` |

A run's invariant is often a conjunction of named parts (`SafeCuts`,
`RequestsAccounted`, ...), each stated with its own comment, and has a mutant for
most of its parts. The type invariants are among the parts.

**Bounds.** Requests: two meet in every collection, as one cancelled and one live.
One slot makes admission compete; two let a row join a running batch. Two prompt
steps give a first, a middle and a joining call; two tokens give a token and a last
one. `stop_generation` is called once per request and each request is queued once,
so queues are finite. In `seq_safety` two generators queue for one executor and one
lock, and one token has every exit of the loop; a second token is in `seq_released`. In
`stream` five tokens complete any of the stop strings after two other tokens, and a
stop string begins in a byte of a character. Blobs of up to four bytes over three keys
leave holes on both sides of a record, of the size of a new blob and larger; the cached
prompts have up to three chunks and an incomplete one, budgets hold one chain of a
prompt but not two, and nothing, and the window starts inside a chunk. The image workload
of a model with a window has a budget of 5: three chunks' caches and the windows at two
ends, so that saving a third end evicts one. Prefill
steps of 12, 6 and 3 over blocks and chunks of three, with prompts up to 17, give
plans of one, two and three segments, ends on and off the grid, contexts below the
minimum, and images that begin, end and lie across boundaries or touch. Three rows are
what it takes for a middle one to leave; two calls cut a prompt into a chunk and a
rest. Seven tokens hold a marker, a call, and another marker after it. One session
meets one signal at every line of both threads, and is in the copy of the sessions or
comes after it; a second signal inside the first one's clean-up is left out (section 6); two sessions, which give the loop over the copy a second turn, have more
than ten million states, and were searched in part.

In `prompt_processing`, once a call left the layers of a live cache apart no other call moves
them further apart (`OneTear`), until the cache is made anew or restored: nothing is claimed of
the second layer there. `SavesAreDone` is checked with one save job and one restore per
request: it says that a queued save is run or discarded, not how long an endless stream of
restores, which go first, could delay it.

Symmetry (permutations of requests, generators and draft models) is used where no liveness
property is checked.

**Deadlock** is not checked: a kit nobody calls any more, or one shut down, a closed
store, a stream at its end and a server that exited stop by design. Liveness is
checked instead where something is owed.

## 4. Fairness

* `VlmKit`, `TextKit`: each thread takes steps while it can (weak fairness of the
  thread's actions as a whole, as an operating system schedules a thread blocked on
  nothing), a client that passed the checks of `generate()` puts its request, a
  consumer reads its queue, and `shutdown()`, once called, goes on. Nothing else is
  owed: nobody has to call `generate()`, stop, leave or shut down, no restore has to
  succeed, no request has to win a race. The batcher returns a response for some row
  in each call (the model makes progress) and stops at `max_tokens`.
* `SequentialKit`: the executor's thread takes steps while it can, and a caller in
  `get()` takes a result that is there. No reporter, cancel or shutdown has to come.
* `HttpServer`: handler, kit and main thread take steps while they can; a client
  need not send its body, and no signal has to come.
* `PromptPrefill`: the generation thread goes on with a request it admitted.
* `GenerationStream`, `CacheWrapper`, `PromptProgress`, `DecodeBatch`,
  `PromptInputs`, `ToolGuard`, the cache modules: safety only, no fairness.

## 5. What is proved

A theorem holds for every value of its module's constants that meets the module's named
assumption (`...Assumption`), and those are the only assumptions; TLC evaluates each of
them in a run. The constants' assumptions say no more than the code gives: a limit of at
least one sequence, a prompt of at least one token, a marker that is not empty, and so
on. `TextImplementsService` adds that the set of requests is finite, since its abstract
limit is their number. Below, what each proof rests on; the files have a sentence before
every lemma.

**`VlmKitProofs`** (any set of requests, limit, prompt steps, tokens and save jobs, with and
without fatal errors)

* `TypeCorrect`; `StoreIsClosedLast`: `StoreClosedLast` is not inductive. `ShutdownOrder`
  adds, for each stage of `shutdown()`, what has ended by then (after the first join the
  generation thread is gone and can queue no job; after the pill the queue is discarded).
* `RequestsAreAccounted`, `RowsAlwaysMatchActive`. The counts of the properties are
  sums over six lists and sets, too much for one step. `Rest` says the same one request
  at a time: `Accounted` (one place while it is owed an answer, none after), `Restores`
  (a restore result is on its way once while it is waited for), `OneRow` (one of the
  three places of the scheduler while active) and `Replied` (who holds a terminal);
  `LinedUp` adds that a cancel or a result in the queue stands behind the request it is
  about, without which a late result could revive a cancelled request. `WorkFits` says what
  the items of a half-done drain, insert or respond loop can be, `SlotCount` bounds
  the slots at every point inside those loops, not only between them. Each action
  has a lemma that says what it does to one request's places, and a lemma that every
  other request keeps its own.
* `CancelAlwaysTakesEffect` follows from `Rest`: the cancelled request was in one place.
* `HotCacheIsNeverIdle`: `HotQuiet` strengthens the property to requests whose
  restore result is in the queue or in the drain.
* `StreamsStayRight`: `AllStreaming`, per request: any two messages are in order
  (`Ordered`, over all pairs instead of neighbours, so that appending needs only
  the new message), which messages a request in each place can have been sent
  (`Streams`), and how many tokens (`Emits`).
* `VlmImplementsService`: the initial state maps to the service's, and every action is
  an `Accept`, `Start`, `Complete`, `Reject`, `Cancel`, `Ask` or `Close` of
  `RequestService` or leaves its variables alone. It
  needs `Rest` (who is active has no terminal, so starting and ending are one-way)
  and `SlotCount` (the limit).
* `NobodyIsOvertaken`: `Line`, the restore jobs, the waiting requests, the drained items
  and the queue, one after the other. Every action moves a head from one list to the
  end of the list before it, takes an element out, or appends to the queue; a lemma for
  each of these shapes says that two requests keep their order.

**`TextKitProofs`** (any requests, steps and tokens)

* `TextTypeCorrect`; `RowsAlwaysMatchResults`, from `IInv` (types, finitely many rows,
  `RowsAndResults`): deleting an entry after its last response is right only if no other
  response in the list is about it, so `RowsAndResults` adds that each call of `next()`
  reports a row once, that a row with a last response has left the batch, and that the
  list is empty outside the response loop. The first of these is an assumption about
  mlx-lm's batcher, stated in `ResponseLists`.
* `StreamsStayInOrder`, from `StreamsInv`: what a request still in the queue, with an
  entry, or between its last token and the removal of its entry can have been sent; that
  progress is never behind a token in the response list (`ProgressFirst`); and that the loop
  lives only while nothing fatal happened.
* `TextImplementsService`: as for the vision kit, with the number of requests as limit.

About `PromptProgress`, for prompts of any length, any chunks, any answers of the
reporter, and a caller any number of events behind:

* `ReportersAreTold`, from `ProgressInv`. What was told so far does not bound what comes:
  the events still to be told are in the kit's queue, and may be followed by others. So the
  invariant has, per kit, what the queue can hold (`VisionItems`, `TextItems`: begin first
  unless it was read, counts up to what is processed, one finish, tokens behind all of it,
  `InOrder`) and, for a caller that still reads, a count that the reporter has not passed and
  that no queued event falls behind (`Hears`, `AtLeast`): reading the queue's head moves the
  count up to it, and the kit appends only at or above what it had processed. That the vision
  kit's `prompt_progress_finished` says the same as "a finish was told or is queued" is what
  makes two finishes impossible; for the text kit it is that a queued pair covers the whole
  prompt from the last pass on, until it is told, the reporter stops, or the caller is gone.
  `UpdateRight` and its kin say of the reporter alone that an event keeps the order and
  the percentages climbing, by a lemma on the rounded division (`PercentsGrow`).
  `StopIsHonoured` follows: who said stop is not reading.

**`SequentialKitProofs`** (any finite set of generators)

* `SequentialNothingLeaks`, where the id of a generator that a shut executor refused is the
  one that stays (`Refused`). The invariant `IInv` adds where the worker can be and with
  which task (`WorkerFacts`), that a task is submitted once (`TasksOnce`), which
  generators have an outcome (`OutcomeFacts`), whose events `pending_requests` holds
  (`EntryFacts`), and what a stream can have got at each step of its task
  (`StreamFacts`, `DoneFacts`). `CancelHeard` needs all of it: a task picks its
  event up after it was registered and before it is popped.
* `SequentialImplementsService`, with a limit of one: the worker runs one task.

About `CacheWrapper`, of which every prompt must fit the bound on lengths:

* `WrapperCachesTrue` and `WrapperKeepsPrefill`, from `WrapperInv`. `Kept`: every snapshot
  holds the cache of the tokens it is listed under, in every layer unless it is a copy of a
  torn one (`failed`), and a part for the draft model that is set. `LiveOK` says the same
  of the live cache: in the layer whose offset is read it is that of the first live tokens,
  and it is longer than they are only after generation raised, when it is not filed
  (`_flush_live_cache` drops it). `CachesTrue` is therefore about every layer (`LayersAgree`)
  only of caches no call was left half way on, and of any cache about the layer that is read
  (`CachesMatchTokens`) and about the draft model (`DraftPartsFit`). `DraftPhaseOK`
  and `MainPhaseOK` say where a half-done prefill stands: what was run and what rests add
  up to the prompt but its last token, and the checkpoint is stored once it was passed
  (`ReadyToDecode` needs the former, `CheckpointTaken` the latter). `RetryOK` is about the
  history of a cancelled prompt: the lookup of the same prompt finds a snapshot of all
  that was run.

**`ChatServerProofs`** (any finite set of sessions, any number of texts and signals; any
protocols, prompts and texts). About `HttpServer`:

* `ServerRequestsEndWell`, from `ServerInv`: per session, what was written by each point of
  the handler (`AnswerOf`), what the kit's queue, responses and running set can hold for
  it (`KitOf`), and that whoever goes on to the end of a session leaves a removal
  on its way (`RemovalOf`), by the handler or on the main thread's stack of calls.
* `ServerEarlyCancelHolds`, an `[](P => []Q)`: `HeldBack(s)`, once true, stays true.

About `ToolGuard`:

* `GuardAlwaysKeepsUp`, from `GuardInv`: the guard has seen the history but for one token
  at most, its flags say what the text says, the last mask is what the protocol permits
  there, and the token sampled under it is one of it. What the guard looks at (the last
  tokens it sees, flags it carries along) and what the protocol says (where a marker or
  an opener stands in the whole text) are connected by lemmas about sequences
  that grow by a token (`EndsGrown`, `ReasoningGrows`, `EndsInParts`).
* `GuardImplementsProtocol`: the mask of a step is `Permitted` of the text so far.

**`PromptCacheProofs`** About `BlobStore` (any keys, any bound on lengths):

* `FileStaysTiled`, from `BlobInv`. `Tiling` counts the owners of a byte and says nothing
  of how the free list must look for `_release` to merge all there is to merge, nor which
  bytes a truncation may cut; `BlobInv` says both in terms of bytes: free extents are
  in order with a byte in use after each (`Spaced`), a byte below the end is free if and only
  if it is in no record, and records are disjoint (`Layout`). The work is in the lemmas
  about the list: inserting a disjoint extent keeps it in order and only that extent may
  touch its neighbours (`Inserted`), merging two that touch keeps the bytes and takes one
  such place away (`Merged`), so after both merges nothing touches (`ReleasedRight`); what
  truncation takes is free and reaches the end (`ReleaseRight`); what is reserved was
  free or lies behind the end (`ReserveRight`).
* `BlobStoreImplementsMap`, from `Contents`: each record reads back as the bytes that were
  put. A failed put is a stutter of the map, though it writes bytes, extends the file and
  releases again; the other three operations are the map's.

About `PromptCacheCoordinator` (any prompts, chunk size, window, kinds, sizes, budgets):

* `StoreStaysConsistent`, from `CacheInv`. `Sound` says of a store that it is a `Ledger`
  (the LRU order lists the sized records once each, and the byte count is the sum of their
  sizes), `Physical` (index and blobs have the same keys) and that each blob was put
  for a chunk of its key (`BlobsTrue`). Evicting, touching and writing are functions on
  stores, each with a lemma that it keeps `Sound` and what it does to the set of records;
  eviction to a limit ends within it, and stops as soon as it is.
* `RestoresAreLongest`, from `RestoreInv`, which adds `JobFits`: the disk plan
  of the restore under way is the longest one while nothing failed (`Planned`), why it
  went to the source it is at (`HotWins`), and why it ended as it did (`Settled`). The
  property counts tokens, the code chunks: a prefix is on disk token by token, layer by
  layer, if and only if the records of its chain are (`OnDiskRight`), and a prefix is seen
  alike by two prompts only up to the image-safe common one (`ImageSafeLongest`).
* `RestoredPrefixesMatch`. A key is the hash of token ids and, chunk by chunk, of the
  hashes of the images that overlap it. That this tells where the images begin and end is not
  plain: it holds because a prompt's spans are its runs of placeholders, or one span for
  all of it (`SpansAreRuns`, `OneSpan`, which is what `_get_image_spans` makes), and because
  an image, as its hash names it, has the same number of placeholders in every prompt. The
  latter is an assumption about the processor (`ImageAssumption`), as is that the text of a
  prompt with images does not spell a placeholder. Two prompts with the same input then
  have runs that begin at the same tokens (`SameStart`), so the images that overlap a
  chunk are the same, in order (`SameImages`). A span for all of a prompt is cut by any
  proper prefix, so nothing is restored of it.
* `CommitsKeepPrefix`: the chain that is touched last is the end of the LRU order, and
  eviction, which begins at its front, ends before it if the chain fits (`LastSurvive`). That
  chain is the longest complete one, which `CompleteIs` says of tokens; if it ends inside an
  image, no restore uses it, and what could be restored before may be evicted for it. This
  is the one case the property leaves out (`KeepsCutImage`, section 6).
* Sums over sets, filtered and flattened sequences and evictions are defined by recursive
  functions; what they compute is proved from the least index at which it would fail.

**`DecodeBatchProofs`** (any requests, asks, prompt length, chunk and batch size)

* `RowsStayOwn`, `ProcessorsAlwaysSeeAll`, from `DecodeInv`. `Fits` says that the batch's
  lists have one entry per row and what each is: history, penalty buffer and
  cache are the same prefix of the request's text, the next token is its continuation,
  there are at least as many candidates as any row asked for, the delta is the prompt's.
  `Chained` adds that the chunks already saved are all the complete ones. `SideFits` says
  whose deltas the model may hold (`HeldDeltas`: those of images that were asked about, and
  0), and `OneHeld` that a batch which gives none finds those of one prompt at most: what
  such a batch uses is then its own or is stale, as `DeltasAreOwn` says. `TickRight` is the
  properties themselves. There is a lemma for each list operation: a step, a join, a filter
  and a removal each give a batch that fits.

**`PrefillProofs`** About `PromptPrefill` (any model, machine, request, chunk size, minimum,
reserve and falling list of candidate steps):

* `PrefillTypeCorrect`, `PlanCoversPrompt`, `TokenIsLeft`, `ImagesAreWhole`,
  `StepsAreKept`, `MemoryStaysWithin`, and `CutsAreSafe`, which puts them together
  as `Spec => []SafeCuts`. `MemoryStaysWithin` is about prompts with images too; it leaves out
  the calls that are stretched to finish an image (`FinishesImage`), and only those. The
  inductive invariant `Inv` adds what a call's
  correctness rests on: the fit is the loader's for this model, a plan's boundaries
  are the cache limits of the steps already seen (`SegmentsOK`), and the position
  reached lies within the prompt and outside images (`Position`). The arithmetic is
  in lemmas of its own: what rounding a fit up by a block can cost, that a cache
  limit's call fits, that a cut moved out of an image lands neither in another one nor
  before the position reached, that the candidate steps fall (`StepsFall`).
  Existence of a least or greatest position comes from well-foundedness of the naturals.
* `CutsAreBest` (`Spec => []BestCuts`), from `BestInv`: a plan goes to a smaller step only
  where the caches of all larger ones are full (`BestSegments`); with steps of whole chunks
  every boundary but the prompt's end is one of a chunk (`SegmentsOnGrid`); and the last
  boundary another prompt can reuse was restored, is saved, or is still ahead
  (`ReusableEndAhead`), so no call passes it by.

About `PromptInputs` (any families of models, prompts, grids of images and window):

* `ArgumentsAreRight` (`InputsSpec => []ArgumentsRight`), from `InputsInv`: what is kept is,
  argument by argument, the part of the whole prompt's that belongs to the tokens left
  (`IsCut`), and the last call got the part of its own tokens, over the keys there were by then
  (`CallIs`). A slice of a part is a part (`SliceIsCut`), also where the sizes differ: packed
  deepstack embeddings are counted by visual tokens (`DeepstackIsCut`, from `SortedBetween`),
  a mask is cut by query and by key (`MaskSliced`). The rest is about the prompt alone.
  `RunsAre`: `_find_token_runs` finds the stretches of placeholders and no others;
  `RunsNameImages`: where there are as many runs as images, the k-th run is the k-th image.
  `WalkPlaces`: after each run of `build_qwen_image_mrope_state`, the tokens so far are where
  MRoPE has them, and the walk's position is the least above them all; the tokens of a grid are
  the numbers of a mixed radix, so none share a place (`MixedRadix`, `GridPlaces`).
  `ImagesImplied`: what a rotating cache dropped is outside every window of the call
  (`KeysAre`), the padded types are those of the visible keys (`VisibleAre`), and a call without
  types has no token of an image (`NoImagePart`).
  `InputsAssumption` names what this needs of mlx-vlm's processors: the images come in
  their order, each with a placeholder, and each in one stretch or with text between any two. The
  code pairs runs and images off by their number alone: with an image in two stretches, the
  second of them next to another image's, the numbers agree and `SpansNameImages` fails.

**`StreamProofs`** (any vocabulary, decoding, stop strings, end tokens and limit, for both
loops)

* `StreamTypeCorrect`, `OneReasonAtTheEnd`, from `StreamInv`, which adds that while the loop
  runs only the last result may carry a reason, and then the loop is about to leave
  (`ReasonIsLast`).
* `ReadToEndStopsBackend` (`Spec => []NothingLeftRunning`), from `BackendInv`: a stream that
  has ended left a row running only if the reporter of a text kit ended it, or if a batched
  stream was closed before its last token. `RunsForAReason` is about the loop before that: a
  backend that still runs has not given its last token and was not told to stop, and a batched
  loop leaves one that runs only at a stop string, after which `Return` removes the row.
* `StreamEndsOnce` (`Spec => []EndsOnce`), from `ExplainInv`: when the last token has been
  read, the reason was told or text is held back (`EndInSight`), and what was told stays told.
* `NoMatchMayForget`: if the processor finds no match in its buffer, then however
  the text goes on, an occurrence of a stop string begins in the new text. This is why
  clearing the buffer on `no_match` loses nothing.
* `ShowsTextUpToStop` (`Spec => []ShownText`), from `TextInv`. The processor never sees the
  whole text: it decodes the tokens since its last verdict of no match, and what it forgot is
  told already. `Reading` says how the three buffers fit together: what was told and what waits
  in `text` is the text shown so far, what was told and what waits in `tokens` are the tokens
  generated, and (`Processor`) the text generated is what was told and the decoding of `ids`,
  whose verdict was not a match yet. `Forgotten` says that no stop string begins in what was
  told, however the text goes on: so the first stop string the processor finds in its buffer
  is the first one in the whole text. Decoding is defined over all tokens at once, while the
  code decodes a growing buffer, so the proof first shows what one more token does to a
  decoded text (`StepDecode`: it may complete the character the text ends in, and then adds its
  own), that it does the same to the whole text and to the buffer (`DecodeTogether`), and that
  what is shown only grows (`ShownGrows`). `TextAssumption` names what this needs of the
  tokenizer and of the stop strings: a token has text; the text of an end token is a text of
  its own and does not complete a character; a stop string does not hold the replacement
  character. The code checks neither of the last two, and
  without either the property is false, as TLC shows. With stop strings `abU` and `b`, a token
  `ab?` (`?` an incomplete character) and an end token that completes it to `U`, the
  processor waits for the character, then finds the first string; the end token's text is not
  shown, so what is shown is all of `ab?`, and the second is in it. With `a?Z` and `?`, a token
  `a?` and an end token `Z` do the same.

Two attempts failed for a good reason and changed a property. The slots are bounded only
while the generation thread runs: a fatal error inside the insert loop leaves the
requests it already inserted in `ready` as well, so `SlotsBounded` is about `Alive`. And a
stream that reads an end token while its own text ends like a stop string begins
returns without a reason; `EndsExplained` excepts text held back at an end token too, and
the `stream` run has such a token (`over`).

**Only model-checked.** Liveness under fairness (`EveryRequestAnswered`,
`SavesAreDone`, `CallsReturn`, `CallersReleased`, `ShutdownCompletes`, `Prefilled`)
and ENABLED are out of the prover's reach. Every invariant and every action property
of the runs that pass is proved. No module uses a
RECURSIVE operator, so all of them can be proved about.

## 6. Where the code and its comments differ

A run shows the first of these; the others were met while modelling, and the models
have the code's behaviour.

* `text_shutdown`: `BatchedModelKit.shutdown()` says that all pending requests
  receive a `RequestCancelled`. The loop's end informs only `_batch_results`; a
  request still in the queue leaves its consumer in `get()` for ever. (The
  vision kit drains its queue; there what remains is a request put after the drain, and new
  ones of a drain that failed half way. `EveryRequestAnswered` names both `Orphaned`.)
* `sys.exit(1)` in the text kit's generation thread (`batched_model_kit.py:280`) ends
  that thread, not the process, so requests that are queued then hang, which the
  comment beside it says the exit prevents.
* When loading a disk plan fails, its record is evicted; if the hot entry then cannot
  be trimmed, the same plan is loaded once more (`coordinator.py:171`). The second load
  fails as well, so no wrong cache results, but a shorter chain that is on disk is not
  tried. `RestoresLongest` states what is restored when loads succeed.
* A batched stream that reaches its limit, and either stream that reads an end token,
  ends without saying why when its text is held back (`generate.py:854`); `EndsExplained`
  excepts both.
* A fatal error while ready requests are inserted leaves those already active in `ready`
  too (`request_lifecycle.py`, `insert_ready_requests`), so the slots are counted twice
  in a kit that has failed; `SlotsBounded` is about a running one.
* `cancel_request` looks an id up twice (`model_kit/model_kit.py:233`); the executor
  may remove it in between, and the caller gets `KeyError`.
* A request id that is used again while its first request runs replaces the first
  one's cancel event (`generate.py:474`).
* A generator whose first `__next__` comes after the executor was shut down raises there and
  has no task whose end would give its id back (`generate.py:99-101`, `112-117`): the id
  stays in `pending_requests`, which every other end takes it out of.
  `PendingIsLive` excepts just that generator (`Refused`).
* The draft model's part of a cache need not have the main part's length: after a prefill
  cancelled while it was filled it is ahead, and the retry runs those tokens through it again
  (`cache_wrapper.py:232`); after a step that accepts all drafts it is one token behind. Which
  drafts are accepted depends on it, the text does not, so its length is not modelled.
* A model call that raises after some layers have run leaves the cache torn: they are advanced
  in place (`cache_wrapper.py:203`), the exception goes through, and the next flush files the
  cache under the tokens that the offset of one layer counts (`cache_wrapper.py:90-95`,
  `113-139`), from which later prompts restore. `LayersAgree` excepts these caches (`failed`)
  and what is made from them.
* A text kit's row goes on when its caller's progress reporter ends the stream, whether it
  raises (`batched_model_kit.py:222-225`) or stops it with `StopPromptProcessing`
  (`generate.py:811-819`), since nothing calls `remove()` there. The same is true of a batched
  generator that its caller closes before the last token. Both rows run to their limit unless
  the caller calls `stop_generation()`; `NothingLeftRunning` excepts both.
* A reporter's "stop" is ignored by the text kit (`batched_model_kit.py:224`), and by
  the sequential kit at the begin and finish events (`cache_wrapper.py:260`);
  `StopIsHonoured` is about the vision kit.
* A session may be told to stop twice, by its handler and by the shutdown
  (`http.py:125`); the second one finds nothing.
* A prefill's call may run past its segment's end, or past its step, to finish an image
  (`batch_generator.py:931`), which the memory formula does not count:
  `MemoryWithinCeiling` leaves out just those calls (`FinishesImage`).
* A decode step of a batch of texts alone gives the language model no deltas
  (`batch_generator.py:449`); the model takes the text path only if it holds no RoPE state
  either (`patches/qwen3_5.py:601-611`, `695-706`). While an image prompt prefills, or after
  it left before joining, the texts are therefore decoded with the image's deltas, until the
  next text prompt clears them (`batch_generator.py:123`). A test has text-only decode stay
  on the fast path (`tests/test_batched_vision_batch_generator.py:414`). `DeltasAreOwn` excepts
  this case and no other (`StaleDelta`).
* Before a chunk is saved, the store touches the longest complete set of its prompt's records
  so that it survives the eviction (`cache_store.py:486-509`). That set may end inside an
  image, where no restore ends (`cache_store.py:167`), and then what could be restored before
  may be evicted. `CommitKeepsPrefix` excepts this case (`KeepsCutImage`).
* A second signal while the first one's clean-up holds the session lock would wait for
  itself on the main thread (`server/__main__.py:59`); the run has one signal.

## 7. What could come next

The memory of several requests together (`context_fit.py:303`), a composition of
`PromptCacheCoordinator` with the job queue of `VlmKit`.

## 8. Not modelled, and why

* Tensor work: kernels of the model patches (Qwen3.5, Gemma3n, Ernie), the slicing of
  arrays in `records.py`, sampling, the vision memoizer. Their correctness is numeric
  and they share no state between steps.
* Model loading and `start()`, which end before the modelled states (of the loader,
  the choice of the context is modelled); wording, logging, usage statistics.
* The formulas of `disk_budget.py`, replaced by a set of budgets.
* The text side of tools and chat: how a prompt is read for tool names and open
  reasoning, the grammars' text, `llguidance`, parsing a chat request.
* Hash collisions of chunk keys; two live requests with the same id.
* `MlxLmReporterAdapter` and the fixed-step fit, which nothing reaches.

`PROJECT.json` lists every component with its status, and under `hazards` the one
hazard no property covers, with the reason.
