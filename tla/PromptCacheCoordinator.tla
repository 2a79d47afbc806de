------------------------ MODULE PromptCacheCoordinator -------------------------
(***************************************************************************)
(* VlmPromptCacheCoordinator over the cache store.  The generation thread  *)
(* keeps the cache of the last completed request hot; the I/O thread       *)
(* answers a request from the hot entry or from disk, whichever serves     *)
(* more of its prompt, and between restores commits saves and budgets.     *)
(***************************************************************************)
EXTENDS PromptCacheStore

VARIABLES hot, \* the prompts of the hot entry: at most one
          job  \* the restore the I/O thread works on

cacheVars == <<storeVars, hot, job>>

Stages == {"disk", "hot", "reload", "done"}
Idle == [stage |-> "idle"]

CacheInit == StoreInit /\ hot = {} /\ job = Idle

-----------------------------------------------------------------------------
(* The generation thread, when a request completes.                        *)

StoreHot(p) ==
  /\ storeOpen
  /\ hot' = {p}
  /\ UNCHANGED <<storeVars, job>>

ClearHot ==
  /\ hot' = {}
  /\ UNCHANGED <<storeVars, job>>

-----------------------------------------------------------------------------
(* restore() on the I/O thread.                                            *)

\* How much of p the taken entries serve, 0 for no hot plan.
HotPrefix(p, entries) ==
  Max({0} \cup {ImageSafeCommonPrefix(p, q, Len(Ids[p]) - 1) : q \in entries})

\* External: array-state caches cannot be trimmed, rotating ones only until full.
Trimmable(q) ==
  /\ "checkpoint" \notin Kinds
  /\ "rotating" \in Kinds => Len(Ids[q]) < Window

\* _load_hot_restore_plan gives the cache, trimmed to n tokens if need be.
HotLoads(entries, n) == \A q \in entries : Len(Ids[q]) > n => Trimmable(q)

\* Variant with a fault: disk is not asked when the hot entry has something.
FirstStageHotFirst(p, entries, hotLen, diskLen) ==
  IF hotLen > 0 THEN "hot" ELSE IF diskLen > 0 THEN "disk" ELSE "done"

\* Where the restore goes first: an exact hot cover is taken at once.
FirstStage(p, entries, hotLen, diskLen) ==
  IF hotLen = Len(Ids[p]) - 1 /\ hotLen > 0 /\ (\A q \in entries : Len(Ids[q]) = hotLen)
  THEN "hot"
  ELSE IF diskLen > hotLen THEN "disk" ELSE IF hotLen > 0 THEN "hot" ELSE "done"

\* Takes the hot entry, whatever comes of it, and plans both restores.
StartRestore(p) ==
  /\ job = Idle
  /\ storeOpen
  /\ LET hotLen == HotPrefix(p, hot)
         diskLen == PlannedPrefix(p)
     IN  job' = [stage |-> FirstStage(p, hot, hotLen, diskLen),
                 prompt |-> p, entries |-> hot, hotLen |-> hotLen, diskLen |-> diskLen,
                 source |-> "none", len |-> 0, failed |-> FALSE]
  /\ hot' = {}
  /\ UNCHANGED storeVars

Plan == LoadOrder[job.prompt][job.diskLen]
Finished(source, n) == [job EXCEPT !.stage = "done", !.source = source, !.len = n]

\* Every record of the plan loads; the restore refreshes exactly these.
LoadDisk ==
  /\ job.stage \in {"disk", "reload"}
  /\ \A k \in ToSet(Plan) : k \in DOMAIN store.blobs
  /\ store' = Touched(store, ChainTouchOrder[job.prompt][job.diskLen])
  /\ job' = Finished("disk", job.diskLen)
  /\ UNCHANGED <<work, layout, budget, budgetFinal, storeOpen, hot>>

\* The i-th record cannot be read, or is not there any more: it is evicted.
LoadDiskFails ==
  /\ job.stage \in {"disk", "reload"}
  /\ \E i \in DOMAIN Plan :
       /\ \A j \in 1..(i-1) : Plan[j] \in DOMAIN store.blobs
       /\ store' = Evicted(store, <<Plan[i]>>)
  /\ job' = [job EXCEPT !.stage = IF @ = "disk" /\ job.hotLen > 0 THEN "hot" ELSE "done",
                        !.failed = TRUE]
  /\ UNCHANGED <<work, layout, budget, budgetFinal, storeOpen, hot>>

\* The hot cache is used, or, if it cannot be trimmed, the disk plan after all.
LoadHot ==
  /\ job.stage = "hot"
  /\ job' = IF HotLoads(job.entries, job.hotLen) THEN Finished("hot", job.hotLen)
            ELSE [job EXCEPT !.stage = IF job.diskLen > 0 THEN "reload" ELSE "done"]
  /\ UNCHANGED <<storeVars, hot>>

\* The restored cache goes to the generation thread with the request.
HandOver ==
  /\ job.stage = "done"
  /\ job' = Idle
  /\ UNCHANGED <<storeVars, hot>>

-----------------------------------------------------------------------------
(* The other jobs of the I/O thread, and shutdown.                         *)

Commit(p, n, checkpoint) ==
  /\ job = Idle
  /\ CommitSave(p, n, checkpoint)
  /\ UNCHANGED <<hot, job>>

UpdateBudget(bytes) ==
  /\ job = Idle
  /\ CommitBudgetUpdate(bytes)
  /\ UNCHANGED <<hot, job>>

CloseCache ==
  /\ job = Idle
  /\ CloseStore
  /\ UNCHANGED <<hot, job>>

CacheNext ==
  \/ \E p \in work.prompts :
       \/ StoreHot(p)
       \/ StartRestore(p)
       \/ \E n \in ChunkEnds(p) : \E checkpoint \in BOOLEAN : Commit(p, n, checkpoint)
  \/ ClearHot
  \/ LoadDisk \/ LoadDiskFails \/ LoadHot \/ HandOver
  \/ \E bytes \in FinalBudgets : UpdateBudget(bytes)
  \/ CloseCache

CacheSpec == CacheInit /\ [][CacheNext]_cacheVars

-----------------------------------------------------------------------------
(* Properties.                                                             *)

RecordKeys ==
  UNION {{<<ChunkKey[p][n], kind>> : n \in ChunkEnds(p), kind \in AllKinds} : p \in Prompt}

(* Types; _total_bytes never goes negative.                                *)
CacheTypeOK ==
  /\ store.index \subseteq RecordKeys
  /\ store.sized \subseteq RecordKeys
  /\ DOMAIN store.blobs \subseteq RecordKeys
  /\ store.lru \in Seq(RecordKeys)
  /\ store.total \in Nat
  /\ layout \in BOOLEAN /\ budgetFinal \in BOOLEAN /\ storeOpen \in BOOLEAN
  /\ budget \in {0, work.provisional} \cup FinalBudgets
  /\ hot \subseteq Prompt /\ Cardinality(hot) <= 1
  /\ job # Idle => /\ job.stage \in Stages
                   /\ job.prompt \in Prompt
                   /\ job.len \in 0..(Len(Ids[job.prompt]) - 1)

(* The index, the sizes, the LRU order, the byte count and the blob store  *)
(* speak of the same records ("Touched LRU keys are committed physical     *)
(* records"), after failed writes, failed loads and evictions alike.       *)
IndexAgrees ==
  /\ store.index = DOMAIN store.blobs
  /\ store.index = store.sized
  /\ store.index = ToSet(store.lru)
  /\ IsInjective(store.lru)
  /\ store.total = MapThenSumSet(LAMBDA k : Size[k[2]], DOMAIN store.blobs)

(* Between jobs the records fit the disk budget, however much of the last  *)
(* save could be written and whatever budget came in.                      *)
WithinBudget == store.total <= budget

(* The store's five records of what it holds agree, and are within budget. *)
StoreConsistent ==
  /\ CacheTypeOK
  /\ IndexAgrees
  /\ WithinBudget

\* The records that make up positions 1..n of p are on disk, layer by layer.
OnDisk(s, p, n) ==
  LET EndOf(i) == (((i - 1) \div ChunkSize) + 1) * ChunkSize \* of the chunk of token i
      Has(i, kind) == kind \in Kinds => <<ChunkKey[p][EndOf(i)], kind>> \in DOMAIN s.blobs
  IN  /\ n % ChunkSize = 0
      /\ \A i \in 1..n : /\ Has(i, "kv")
                         /\ i + Window > n => Has(i, "rotating")
      /\ n > 0 => Has(n, "checkpoint")

\* The cache of q holds the first n tokens of p and can be cut there.
InHot(q, p, n) ==
  /\ n <= Len(Ids[q]) /\ View(q, n) = View(p, n)
  /\ n < Len(Ids[q]) => Trimmable(q)

(* A restore returns the longest prefix that any source could serve: the   *)
(* last prompt token is left to prefill and no image is cut.  Stated token *)
(* by token, where the code compares plans made of chunks.                 *)
RestoresLongest ==
  job.stage = "done" /\ ~job.failed =>
    LET p == job.prompt
        Served == {n \in 0..(Len(Ids[p]) - 1) :
                     /\ ~SplitsImage(p, n)
                     /\ (n > 0 /\ OnDisk(store, p, n)) \/ (\E q \in job.entries : InHot(q, p, n))}
    IN  job.len = Max({0} \cup Served)

(* What a restore returns was computed from the tokens and images of the   *)
(* request itself: placeholder tokens look alike, their images may not.    *)
RestoredPrefixMatches ==
  job.stage = "done" =>
    /\ ~SplitsImage(job.prompt, job.len)
    /\ job.source = "hot" =>
         \A q \in job.entries : View(q, job.len) = View(job.prompt, job.len)
    /\ job.source = "disk" =>
         /\ OnDisk(store, job.prompt, job.len)
         /\ \A i \in DOMAIN Plan :
              LET n == Plan[i][1][2]
              IN  View(store.blobs[Plan[i]], n) = View(job.prompt, n)

\* How much of the first n tokens of p is on disk, complete and within the budget.
CompleteOnDisk(s, p, n) ==
  {e \in ChunkEnds(p) : e <= n /\ OnDisk(s, p, e) /\ ChainSize(p, e) <= budget}

\* The most of it that a prompt which goes on from there can restore: no restore
\* ends inside an image.
LongestOnDisk(s, p, n) ==
  Max({0} \cup {e \in CompleteOnDisk(s, p, n) : ~SplitsImage(p, e)})

\* A longer part than m tokens is kept that is of no use: it ends inside an image.
KeepsCutImage(s, p, n, m) == \E e \in CompleteOnDisk(s, p, n) : e > m /\ SplitsImage(p, e)

(* "Preserve the longest complete restore set that can survive eviction":  *)
(* committing a chunk never costs its prompt the prefix that could be      *)
(* restored before, if that prefix fits the budget at all.  One case is    *)
(* left out, because there the code does lose it: the set it preserves is  *)
(* the longest complete one even if that one ends inside an image.         *)
CommitKeepsPrefix ==
  [][~(DOMAIN store.blobs \subseteq DOMAIN store'.blobs) =>
       \A p \in work.prompts : \A n \in ChunkEnds(p) :
         LongestOnDisk(store', p, n) < LongestOnDisk(store, p, n) =>
           \/ KeepsCutImage(store', p, n, LongestOnDisk(store, p, n))
           \/ \A checkpoint \in BOOLEAN : ~Commit(p, n, checkpoint)]_cacheVars
=============================================================================
