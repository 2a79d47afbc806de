--------------------------- MODULE PromptCacheStore ----------------------------
(***************************************************************************)
(* VlmPromptCacheStore: the index, the LRU order and the disk budget over  *)
(* the blob store, with the restore planner that reads them.  The          *)
(* prompt-cache I/O thread owns all of it, and each operation here is one  *)
(* of its jobs or a part of one.                                           *)
(*                                                                         *)
(* A record holds one kind of layer for one chunk; its key is the chunk    *)
(* key and the kind.  BlobStore shows that the blob store behaves as the   *)
(* map from keys to blobs that store.blobs is.                             *)
(***************************************************************************)
EXTENDS PromptPrefix, FiniteSets, FiniteSetsExt

CONSTANTS Workloads,   \* [kinds, prompts, provisional] of the models that may be loaded
          Window,      \* rotating_window_size, in tokens
          Size,        \* bytes of a record, by kind
          FinalBudgets \* the budgets a real cache may lead to

AllKinds == {"kv", "rotating", "checkpoint"}

ASSUME StoreAssumption ==
  /\ \A w \in Workloads : /\ w.kinds \subseteq AllKinds /\ w.kinds # {}
                          /\ w.prompts \subseteq Prompt
                          /\ w.provisional \in Nat
  /\ Window \in Nat \ {0}
  /\ Size \in [AllKinds -> Nat \ {0}]
  /\ FinalBudgets \subseteq Nat

VARIABLES work,        \* of Workloads, what is loaded: the kinds of layer, the
                       \* prompts that come, the budget before a real cache is seen
          store,       \* [index, sized, lru, total, blobs], see EmptyStore
          layout,      \* a layout is known: something was committed
          budget,      \* _max_cache_store_bytes
          budgetFinal, \* _empirical_budget_set
          storeOpen    \* close() was not called

storeVars == <<work, store, layout, budget, budgetFinal, storeOpen>>

Nothing == [k \in {} |-> <<>>]
EmptyStore ==
  [index |-> {},       \* _record_metadata_by_key
   sized |-> {},       \* _key_sizes: the size is that of the kind
   lru   |-> <<>>,     \* _lru_keys, oldest first
   total |-> 0,        \* _total_bytes
   blobs |-> Nothing]  \* the blob store: the prompt a record was computed for

\* enable_disk_cache = False gives a budget of zero that no update replaces.
StoreInit ==
  /\ work \in Workloads
  /\ store = EmptyStore
  /\ layout = FALSE
  /\ \/ budget = work.provisional /\ budgetFinal = FALSE
     \/ budget = 0 /\ budgetFinal = TRUE
  /\ storeOpen = TRUE

-----------------------------------------------------------------------------
(* Record keys and the restore planner.                                    *)

\* The record kinds the model's layers need.
Kinds == work.kinds

WriteOrder(kinds) == Only(<<"kv", "rotating", "checkpoint">>, kinds)

\* Most important last, so that it stays newest.
TouchOrder(kinds) == Only(<<"rotating", "kv", "checkpoint">>, kinds)

\* Variant with a fault: only rotating chunks that begin in the window are read.
NeededFromWindowStart(kind, end, target) ==
  \/ kind = "kv"
  \/ kind = "rotating" /\ (end - ChunkSize) + Window >= target
  \/ kind = "checkpoint" /\ end = target

\* Whether a restore up to target reads this kind of the chunk ending at end.
Needed(kind, end, target) ==
  \/ kind = "kv"
  \/ kind = "rotating" /\ end + Window > target
  \/ kind = "checkpoint" /\ end = target

\* The chunks of p up to n, in order.
ChunksTo(n) == [i \in 1..(n \div ChunkSize) |-> i * ChunkSize]

\* The record keys for these chunks and kinds that a restore up to n reads.
ChainRecords(p, n, chunks, kinds) ==
  LET Records(end) ==
        LET needed == Only(kinds, {kind \in AllKinds : Needed(kind, end, n)})
        IN  [j \in DOMAIN needed |-> <<ChunkKey[p][end], needed[j]>>]
  IN  FlattenSeq([i \in DOMAIN chunks |-> Records(chunks[i])])

LoadOrders ==
  [kinds \in {w.kinds : w \in Workloads} |->
     [p \in Prompt |-> [n \in ChunkEnds(p) |-> ChainRecords(p, n, ChunksTo(n), WriteOrder(kinds))]]]

LoadOrder == LoadOrders[Kinds]

\* _ordered_record_keys_for_touch
ChainTouchOrders ==
  [kinds \in {w.kinds : w \in Workloads} |->
     [p \in Prompt |->
        [n \in ChunkEnds(p) |-> ChainRecords(p, n, Reverse(ChunksTo(n)), TouchOrder(kinds))]]]

ChainTouchOrder == ChainTouchOrders[Kinds]

\* restore_record_keys_for_chunk_chain finds every record.
Restorable(s, p, n) ==
  \A k \in ToSet(LoadOrder[p][n]) : k \in s.index /\ k \in DOMAIN s.blobs

RestorePoints(p) ==
  {n \in ChunkEnds(p) : /\ n <= Len(Ids[p]) - 1
                        /\ ~SplitsImage(p, n)
                        /\ Restorable(store, p, n)}

\* plan_longest_prefix_restore: the length it finds, 0 for no plan.
PlannedPrefix(p) == IF ~layout THEN 0 ELSE Max({0} \cup RestorePoints(p))

-----------------------------------------------------------------------------
(* Touching and evicting.                                                  *)

\* The bytes of the first i of these records, for each i.
Bytes(keys) ==
  LET sum[i \in 0..Len(keys)] == IF i = 0 THEN 0 ELSE sum[i-1] + Size[keys[i][2]] IN sum

AllBytes(keys) == Bytes(keys)[Len(keys)]

\* _touch_cache_entry for each of these keys in turn.
Touched(s, keys) ==
  [s EXCEPT !.sized = @ \cup ToSet(keys),
            !.total = @ + AllBytes(Only(keys, ToSet(keys) \ s.sized)),
            !.lru = Only(@, ToSet(@) \ ToSet(keys)) \o keys]

Without(f, S) == [k \in DOMAIN f \ S |-> f[k]]

\* Variant with a fault: the blobs outlive the index entries.
EvictedKeepBlob(s, keys) ==
  [index |-> s.index \ ToSet(keys),
   sized |-> s.sized \ ToSet(keys),
   lru   |-> Only(s.lru, ToSet(s.lru) \ ToSet(keys)),
   total |-> s.total - AllBytes(Only(keys, s.sized)),
   blobs |-> s.blobs]

\* _evict_key for each of these keys; one the store does not have changes nothing.
Evicted(s, keys) ==
  [index |-> s.index \ ToSet(keys),
   sized |-> s.sized \ ToSet(keys),
   lru   |-> Only(s.lru, ToSet(s.lru) \ ToSet(keys)),
   total |-> s.total - AllBytes(Only(keys, s.sized)),
   blobs |-> Without(s.blobs, ToSet(keys))]

\* Variant with a fault: the bytes of evicted records are taken off twice.
EvictedToCountedTwice(s, limit) ==
  LET bytes == Bytes(s.lru)
      enough == {i \in 0..Len(s.lru) : s.total - bytes[i] <= limit}
      count == IF enough = {} THEN Len(s.lru) ELSE Min(enough)
  IN  [Evicted(s, SubSeq(s.lru, 1, count)) EXCEPT !.total = @ - bytes[count]]

\* _evict_if_needed: the oldest go until the rest fits.
EvictedTo(s, limit) ==
  LET bytes == Bytes(s.lru)
      enough == {i \in 0..Len(s.lru) : s.total - bytes[i] <= limit}
      count == IF enough = {} THEN Len(s.lru) ELSE Min(enough)
  IN  Evicted(s, SubSeq(s.lru, 1, count))

ChainSize(p, n) == AllBytes(LoadOrder[p][n])

\* Variant with a fault: the longest chain is touched whether or not it fits.
FittingChainsAny(s, p, n) == {e \in ChunkEnds(p) : e <= n /\ Restorable(s, p, e)}

\* The complete chains of p up to n that fit the budget on their own.
FittingChains(s, p, n) ==
  {e \in ChunkEnds(p) : /\ e <= n
                        /\ Restorable(s, p, e)
                        /\ ChainSize(p, e) <= budget}

\* _touch_longest_budget_fit_restore_chain
ChainTouched(s, p, n) ==
  LET fitting == FittingChains(s, p, n)
  IN  IF fitting = {} THEN s ELSE Touched(s, ChainTouchOrder[p][Max(fitting)])

-----------------------------------------------------------------------------
(* Jobs of the I/O thread.                                                 *)

\* These records of a pending save of p, written unless the blob store has them.
Written(s, p, keys) ==
  Touched([s EXCEPT !.index = @ \cup ToSet(keys),
                    !.blobs = [k \in DOMAIN s.blobs \cup ToSet(keys) |->
                                 IF k \in DOMAIN s.blobs THEN s.blobs[k] ELSE p]],
          keys)

\* The records prepare_save shaped for the chunk of p that ends at n.
SaveRecords(p, n, checkpoint) ==
  LET kinds == WriteOrder({kind \in Kinds : kind = "checkpoint" => checkpoint})
  IN  [i \in DOMAIN kinds |-> <<ChunkKey[p][n], kinds[i]>>]

\* The store once these records of a save were written, before eviction.
Published(p, n, written) == ChainTouched(Written(store, p, written), p, n)

\* Variant with a fault: what "finally" does is skipped when a write fails.
CommitSaveNoFinally(p, n, checkpoint) ==
  /\ storeOpen
  /\ budget # 0
  /\ layout' = TRUE
  /\ LET records == SaveRecords(p, n, checkpoint) IN
     \E w \in 0..Len(records) :
       /\ w < Len(records) => records[w+1] \notin DOMAIN store.blobs
       /\ store' = IF w = Len(records) THEN EvictedTo(Published(p, n, records), budget)
                   ELSE Written(store, p, SubSeq(records, 1, w))
  /\ UNCHANGED <<work, budget, budgetFinal, storeOpen>>

\* commit_pending_save of a chunk of p.  The write of a new record may fail:
\* what was written before it stays, and the budget holds all the same.
CommitSave(p, n, checkpoint) ==
  /\ storeOpen
  /\ budget # 0 \* can_store_records
  /\ layout' = TRUE
  /\ LET records == SaveRecords(p, n, checkpoint) IN
     \E w \in 0..Len(records) :
       /\ w < Len(records) => records[w+1] \notin DOMAIN store.blobs
       /\ store' = EvictedTo(Published(p, n, SubSeq(records, 1, w)), budget)
  /\ UNCHANGED <<work, budget, budgetFinal, storeOpen>>

\* commit_budget_update, which only the first update gets to do.
CommitBudgetUpdate(bytes) ==
  /\ storeOpen
  /\ ~budgetFinal
  /\ budget' = bytes
  /\ budgetFinal' = TRUE
  /\ store' = EvictedTo(store, bytes)
  /\ UNCHANGED <<work, layout, storeOpen>>

CloseStore ==
  /\ storeOpen
  /\ storeOpen' = FALSE
  /\ store' = EmptyStore
  /\ layout' = FALSE
  /\ UNCHANGED <<work, budget, budgetFinal>>
=============================================================================
