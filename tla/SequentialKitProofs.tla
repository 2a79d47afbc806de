-------------------------- MODULE SequentialKitProofs --------------------------
(***************************************************************************)
(* Machine-checked theorems about the sequential kit.  SequentialKit, for  *)
(* every set of generators and every token limit: nothing leaks, and the   *)
(* kit implements the abstract request service.  CacheWrapper, for every   *)
(* model, prompt and chunk size: what it believes of its caches is true.   *)
(***************************************************************************)
EXTENDS SequentialKit, CacheWrapper, SequenceTheorems, FiniteSetTheorems,
        WellFoundedInduction, TLAPS

USE DEF genVars, workVars

-----------------------------------------------------------------------------
(* The inductive invariant.                                                *)

\* Where the executor's thread is: a generation and its event, or nothing.
WorkerFacts ==
  /\ worker \in Req \cup {Nobody}
  /\ worker = Nobody <=> step = "idle"
  /\ worker # Nobody => event = Own(worker) /\ worker \in started
  /\ step = "computing" => count < MaxTokens

\* A generator has one task: it waits in the queue once, runs, and is over.
TasksOnce ==
  /\ \A i, j \in DOMAIN queue : queue[i] = queue[j] /\ queue[i] \in Req => i = j
  /\ \A r \in Req :
       Queued(r) => r \in started /\ worker # r /\ outcome[r] = "none"

\* The outcome is decided when the generator's finally clauses begin.
OutcomeFacts ==
  \A r \in Req :
    /\ worker = r => (outcome[r] = "none" <=> step \notin {"releasing", "failing", "ending"})
    /\ worker = r /\ step = "failing" => outcome[r] = "failed"
    /\ worker = r /\ step = "releasing" => outcome[r] # "failed"
    /\ outcome[r] # "none" => r \in started
    /\ outcome[r] = "none" /\ worker # r => results[r] = <<>>
    /\ caller[r] = "unmade" => r \notin started /\ pending[r] = Nobody
    /\ caller[r] = "ended" => outcome[r] # "none" /\ worker # r

\* An id stays in pending_requests from __init__ to the finally clauses, or
\* to the close() of a generator that never ran.
EntryFacts ==
  \A r \in Req :
    /\ pending[r] \in {Nobody, Own(r)}
    /\ Queued(r) \/ (worker = r /\ step # "ending") => pending[r] = Own(r)
    /\ caller[r] = "idle" /\ r \notin started => pending[r] = Own(r)
    /\ outcome[r] # "none" /\ (worker # r \/ step = "ending") => pending[r] = Nobody
    /\ caller[r] = "closed" /\ r \notin started => pending[r] = Nobody

\* What the queue of results may hold while its task runs.
StreamFacts ==
  \A r \in Req : worker = r =>
    /\ step \in {"locking", "locked", "prompt"} => results[r] = <<>>
    /\ \A i \in DOMAIN results[r] :
         /\ results[r][i] \in {"token", "last", "cancelled"}
         /\ results[r][i] = "last" =>
              step \in {"readlast", "farewell", "releasing", "ending"} /\ outcome[r] # "failed"
         /\ results[r][i] = "cancelled" =>
              /\ step \in {"releasing", "ending"}
              /\ i = Len(results[r]) /\ outcome[r] = "cancelled"

\* What a caller may still read after its task: nothing but "done" ends it.
DoneFacts ==
  \A r \in Req : \A i \in DOMAIN results[r] :
    results[r][i] = "done" => worker # r /\ outcome[r] # "none"

\* A generator that was started has a task, had one, or was refused one; one
\* that was not is made, idle or closed, and keeps its id until it is closed.
StartedFacts ==
  \A r \in Req :
    /\ r \in started =>
         Queued(r) \/ worker = r \/ outcome[r] # "none" \/ (caller[r] = "raised" /\ pool # "open")
    /\ r \notin started => caller[r] \in {"unmade", "idle", "setting", "popping", "closed"}
    /\ r \notin started /\ caller[r] \in {"setting", "popping"} => pending[r] = Own(r)

IInv ==
  /\ TypeOK
  /\ CancelHeard
  /\ LockHeldByTask
  /\ ResultsInOrder
  /\ WorkerFacts
  /\ TasksOnce
  /\ OutcomeFacts
  /\ EntryFacts
  /\ StreamFacts
  /\ DoneFacts

\* Whose ids pending_requests holds follows from what is known of its entries.
LEMMA LiveEntries ==
  ASSUME IInv, StartedFacts
  PROVE  NothingLeaks
<1>1. \A r \in Req : Own(r) # Nobody
  BY KitAssumption DEF Own, Events
<1>2. ASSUME NEW r \in Req, pending[r] # Nobody
      PROVE  \/ r \notin started /\ caller[r] \in {"idle", "setting", "popping"}
             \/ InExecutor(r)
             \/ Refused(r)
  BY <1>2 DEF IInv, EntryFacts, OutcomeFacts, StartedFacts, InExecutor, Refused
<1>3. ASSUME NEW r \in Req, InExecutor(r), ~(worker = r /\ step = "ending")
      PROVE  pending[r] = Own(r)
  BY <1>3 DEF IInv, EntryFacts, TasksOnce, InExecutor
<1> QED BY <1>1, <1>2, <1>3 DEF IInv, NothingLeaks, PendingIsLive

-----------------------------------------------------------------------------
(* The queues.                                                             *)

\* A task put at the end of the work queue is one more, and the last.
LEMMA QueueGrows ==
  ASSUME TypeOK, TasksOnce, NEW e \in Req \cup {Call}, queue' = Append(queue, e),
         ~ (e \in Req /\ Queued(e))
  PROVE  /\ queue' \in Seq(Req \cup {Call})
         /\ \A x : Queued(x)' <=> Queued(x) \/ x = e
         /\ \A i, j \in DOMAIN queue' : queue'[i] = queue'[j] /\ queue'[i] \in Req => i = j
<1>1. queue \in Seq(Req \cup {Call})
  BY DEF TypeOK
<1>2. /\ Len(queue') = Len(queue) + 1
      /\ queue' \in Seq(Req \cup {Call})
      /\ \A i \in 1..Len(queue) : queue'[i] = queue[i]
      /\ queue'[Len(queue) + 1] = e
  BY <1>1, AppendProperties
<1>3. DOMAIN queue = 1..Len(queue) /\ DOMAIN queue' = 1..Len(queue) + 1 /\ Len(queue) \in Nat
  BY <1>1, <1>2
<1>4. \A x : Queued(x)' <=> Queued(x) \/ x = e
  BY <1>2, <1>3 DEF Queued
<1>5. \A i \in DOMAIN queue : queue[i] # e \/ e \notin Req
  BY DEF Queued
<1> QED BY <1>2, <1>4, <1>5 DEF TasksOnce

\* The task at its head leaves the work queue; a generation leaves it for good.
LEMMA QueueShrinks ==
  ASSUME TypeOK, TasksOnce, queue # <<>>, queue' = Tail(queue)
  PROVE  /\ queue' \in Seq(Req \cup {Call})
         /\ \A x : Queued(x)' => Queued(x)
         /\ \A x : Queued(x) /\ x # Head(queue) => Queued(x)'
         /\ Queued(Head(queue))
         /\ \A r \in Req : r = Head(queue) => ~Queued(r)'
         /\ \A i, j \in DOMAIN queue' : queue'[i] = queue'[j] /\ queue'[i] \in Req => i = j
<1>1. queue \in Seq(Req \cup {Call})
  BY DEF TypeOK
<1>2. /\ Len(queue') = Len(queue) - 1
      /\ queue' \in Seq(Req \cup {Call})
      /\ \A i \in 1..Len(queue) - 1 : queue'[i] = queue[i + 1]
      /\ Head(queue) = queue[1]
      /\ Len(queue) \in Nat \ {0}
  BY <1>1, HeadTailProperties, EmptySeq
<1>3. DOMAIN queue = 1..Len(queue) /\ DOMAIN queue' = 1..Len(queue) - 1
  BY <1>1, <1>2
<1>4. \A x : Queued(x)' => Queued(x)
  BY <1>2, <1>3 DEF Queued
<1>5. \A x : Queued(x) /\ x # Head(queue) => Queued(x)'
  <2> SUFFICES ASSUME NEW x, NEW i \in DOMAIN queue, queue[i] = x, x # Head(queue)
               PROVE  Queued(x)'
    BY DEF Queued
  <2>1. i - 1 \in DOMAIN queue' /\ queue'[i - 1] = x
    BY <1>2, <1>3
  <2> QED BY <2>1 DEF Queued
<1>6. Queued(Head(queue))
  BY <1>2, <1>3 DEF Queued
<1>7. \A r \in Req : r = Head(queue) => ~Queued(r)'
  <2> SUFFICES ASSUME NEW r \in Req, r = Head(queue), Queued(r)'
               PROVE  FALSE
    OBVIOUS
  <2>1. PICK i \in DOMAIN queue' : queue'[i] = r
    BY DEF Queued
  <2>2. i + 1 \in DOMAIN queue /\ 1 \in DOMAIN queue /\ i # 0 /\ queue[i + 1] = queue[1]
    BY <2>1, <1>2, <1>3
  <2> QED BY <2>2, <1>2, <1>3 DEF TasksOnce
<1>8. \A i, j \in DOMAIN queue' : queue'[i] = queue'[j] /\ queue'[i] \in Req => i = j
  BY <1>2, <1>3 DEF TasksOnce
<1> QED BY <1>2, <1>4, <1>5, <1>6, <1>7, <1>8
\* A caller takes the first of a generator's results.
LEMMA ResultsShrink ==
  ASSUME TypeOK, ResultsInOrder, NEW r \in Req, results[r] # <<>>,
         results' = [results EXCEPT ![r] = Tail(@)]
  PROVE  /\ results' \in [Req -> Seq(Items)]
         /\ ResultsInOrder'
         /\ \A q \in Req : \A i \in DOMAIN results'[q] :
              \E j \in DOMAIN results[q] :
                 results'[q][i] = results[q][j] /\ (j = Len(results[q]) <=> i = Len(results'[q]))
         /\ Head(results[r]) = results[r][1] /\ 1 \in DOMAIN results[r]
         /\ \A q \in Req : results[q] = <<>> => results'[q] = <<>>
<1> DEFINE s == results[r]
           t == Tail(s)
<1>1. s \in Seq(Items) /\ s # <<>>
  BY DEF TypeOK
<1>2. /\ t \in Seq(Items) /\ Len(t) = Len(s) - 1 /\ Len(s) \in Nat \ {0}
      /\ \A i \in 1..Len(t) : t[i] = s[i + 1]
      /\ Head(s) = s[1]
      /\ DOMAIN s = 1..Len(s) /\ DOMAIN t = 1..Len(t)
  BY <1>1, HeadTailProperties, EmptySeq
<1>3. results'[r] = t /\ \A q \in Req : q # r => results'[q] = results[q]
  BY DEF TypeOK
<1>4. results' \in [Req -> Seq(Items)]
  BY <1>2 DEF TypeOK
<1>5. ResultsInOrder'
  <2> SUFFICES ASSUME NEW q \in Req, NEW i \in DOMAIN results'[q], i < Len(results'[q])
               PROVE  CASE results'[q][i] = "token" -> TRUE
                        [] results'[q][i] = "last" ->
                             results'[q][i + 1] \in {"cancelled", "done", "error"}
                        [] OTHER -> results'[q][i + 1] = "done"
    BY DEF ResultsInOrder
  <2>1. CASE q = r
    <3>0. i \in 1..Len(t) /\ i < Len(t)
      BY <1>2, <1>3, <2>1
    <3>3. i + 1 \in DOMAIN s /\ i + 1 < Len(s) /\ t[i] = s[i + 1]
      BY <1>2, <3>0
    <3>4. i + 1 \in 1..Len(t) /\ t[i + 1] = s[i + 2]
      BY <1>2, <3>0
    <3>1. /\ i + 1 \in DOMAIN s /\ i + 1 < Len(s)
          /\ results'[q][i] = s[i + 1] /\ results'[q][i + 1] = s[i + 2]
      BY <1>3, <2>1, <3>3, <3>4
    <3>2. (i + 1) + 1 = i + 2
      BY <1>2, <2>1
    <3> QED BY <3>1, <3>2, <2>1 DEF ResultsInOrder
  <2>2. CASE q # r
    BY <1>3, <2>2 DEF ResultsInOrder
  <2> QED BY <2>1, <2>2
<1>6. ASSUME NEW q \in Req, NEW i \in DOMAIN results'[q]
      PROVE  \E j \in DOMAIN results[q] :
               results'[q][i] = results[q][j] /\ (j = Len(results[q]) <=> i = Len(results'[q]))
  <2>1. CASE q = r
    <3>0. i \in 1..Len(t)
      BY <1>2, <1>3, <2>1
    <3>1. /\ i + 1 \in DOMAIN s /\ t[i] = s[i + 1]
          /\ i + 1 = Len(s) <=> i = Len(t)
      BY <1>2, <3>0
    <3> QED BY <3>1, <2>1
  <2>2. CASE q # r
    BY <1>3, <2>2
  <2> QED BY <2>1, <2>2
<1>7. 1 \in DOMAIN s
  BY <1>2
<1> QED BY <1>1, <1>2, <1>4, <1>5, <1>6, <1>7

\* The task puts one more result.
LEMMA ResultsGrow ==
  ASSUME TypeOK, ResultsInOrder, worker \in Req, NEW item \in Items, Puts(<<item>>),
         \A i \in DOMAIN results[worker] : i = Len(results[worker]) =>
            CASE results[worker][i] = "token" -> TRUE
              [] results[worker][i] = "last" -> item \in {"cancelled", "done", "error"}
              [] OTHER -> item = "done"
  PROVE  /\ results' \in [Req -> Seq(Items)]
         /\ ResultsInOrder'
         /\ \A q \in Req : q # worker => results'[q] = results[q]
         /\ DOMAIN results'[worker] = DOMAIN results[worker] \cup {Len(results'[worker])}
         /\ Len(results'[worker]) = Len(results[worker]) + 1
         /\ Len(results[worker]) \in Nat
         /\ \A i \in DOMAIN results[worker] : results'[worker][i] = results[worker][i]
         /\ results'[worker][Len(results'[worker])] = item
<1> DEFINE s == results[worker]
           t == Append(s, item)
<1>1. s \in Seq(Items)
  BY DEF TypeOK
<1>2. /\ t \in Seq(Items) /\ Len(t) = Len(s) + 1 /\ Len(s) \in Nat
      /\ \A i \in 1..Len(s) : t[i] = s[i]
      /\ t[Len(t)] = item
      /\ DOMAIN s = 1..Len(s) /\ DOMAIN t = 1..Len(t)
  BY <1>1, AppendProperties
<1>3. s \o <<item>> = t
  BY <1>1, AppendIsConcat
<1>4. results'[worker] = t /\ \A q \in Req : q # worker => results'[q] = results[q]
  BY <1>3 DEF TypeOK, Puts
<1>5. results' \in [Req -> Seq(Items)]
  BY <1>2, <1>3 DEF TypeOK, Puts
<1>6. ResultsInOrder'
  <2> SUFFICES ASSUME NEW q \in Req, NEW i \in DOMAIN results'[q], i < Len(results'[q])
               PROVE  CASE results'[q][i] = "token" -> TRUE
                        [] results'[q][i] = "last" ->
                             results'[q][i + 1] \in {"cancelled", "done", "error"}
                        [] OTHER -> results'[q][i + 1] = "done"
    BY DEF ResultsInOrder
  <2>1. CASE q = worker /\ i < Len(s)
    <3>1. i \in DOMAIN s /\ t[i] = s[i] /\ t[i + 1] = s[i + 1]
      BY <1>2, <1>4, <2>1
    <3> QED BY <3>1, <1>4, <2>1 DEF ResultsInOrder
  <2>2. CASE q = worker /\ ~(i < Len(s))
    <3>1. i \in DOMAIN s /\ i = Len(s) /\ t[i] = s[i] /\ t[i + 1] = item
      BY <1>2, <1>4, <2>2
    <3> QED BY <3>1, <1>4, <2>2
  <2>3. CASE q # worker
    BY <1>4, <2>3 DEF ResultsInOrder
  <2> QED BY <2>1, <2>2, <2>3
<1>7. DOMAIN t = DOMAIN s \cup {Len(t)}
  BY <1>2
<1> QED BY <1>2, <1>4, <1>5, <1>6, <1>7

-----------------------------------------------------------------------------
(* The steps of the callers, and of other threads.                     *)

\* The same queue holds the same requests.
LEMMA SameQueue == queue' = queue => \A x : Queued(x)' <=> Queued(x)
BY DEF Queued

\* What other threads than the executor's leave alone.
ExecutorRests == UNCHANGED <<started, results, queue, workVars, outcome, late>>

\* A step of theirs can disturb neither the executor nor the streams.
LEMMA ExecutorStays ==
  ASSUME IInv, ExecutorRests
  PROVE  /\ CancelHeard' /\ LockHeldByTask' /\ ResultsInOrder' /\ WorkerFacts' /\ TasksOnce'
         /\ StreamFacts' /\ DoneFacts'
         /\ \A x : Queued(x)' <=> Queued(x)
<1> USE DEF IInv, ExecutorRests
<1>0. \A x : Queued(x)' <=> Queued(x)
  BY SameQueue
<1>1. CancelHeard' /\ LockHeldByTask'
  BY DEF CancelHeard, LockHeldByTask
<1>2. ResultsInOrder'
  BY DEF ResultsInOrder
<1>3. WorkerFacts'
  BY DEF WorkerFacts
<1>4. TasksOnce'
  BY <1>0 DEF TasksOnce, WorkerFacts
<1>5. StreamFacts' /\ DoneFacts'
  BY DEF StreamFacts, DoneFacts
<1> QED BY <1>0, <1>1, <1>2, <1>3, <1>4, <1>5

\* A step of Make keeps the invariant.
LEMMA MakeKeeps ==
  ASSUME IInv, NEW r \in Req, Make(r)
  PROVE  IInv'
<1> USE DEF IInv, Make, CallerMoves, KitUnchanged
<1>0. ExecutorRests
  BY DEF ExecutorRests
<1>1. TypeOK'
  BY KitAssumption DEF TypeOK, Callers, Events, Own
<1>2. OutcomeFacts'
  BY <1>0, ExecutorStays DEF OutcomeFacts, TypeOK, WorkerFacts, ExecutorRests
<1>3. EntryFacts'
  BY <1>0, ExecutorStays DEF EntryFacts, TypeOK, TasksOnce, OutcomeFacts, WorkerFacts, ExecutorRests
<1> QED BY <1>0, <1>1, <1>2, <1>3, ExecutorStays

\* A step of CallNext keeps the invariant.
LEMMA CallNextKeeps ==
  ASSUME IInv, NEW r \in Req, CallNext(r)
  PROVE  IInv'
<1> USE DEF IInv, CallNext, CallerMoves, KitUnchanged
<1>0. ExecutorRests
  BY DEF ExecutorRests
<1>1. TypeOK'
  BY KitAssumption DEF TypeOK, Callers, Events, Own
<1>2. OutcomeFacts'
  BY <1>0, ExecutorStays DEF OutcomeFacts, TypeOK, WorkerFacts, ExecutorRests
<1>3. EntryFacts'
  BY <1>0, ExecutorStays DEF EntryFacts, TypeOK, TasksOnce, OutcomeFacts, WorkerFacts, ExecutorRests
<1> QED BY <1>0, <1>1, <1>2, <1>3, ExecutorStays

\* A step of Leave keeps the invariant.
LEMMA LeaveKeeps ==
  ASSUME IInv, NEW r \in Req, Leave(r)
  PROVE  IInv'
<1> USE DEF IInv, Leave, CallerMoves, KitUnchanged
<1>0. ExecutorRests
  BY DEF ExecutorRests
<1>1. TypeOK'
  BY KitAssumption DEF TypeOK, Callers, Events, Own
<1>2. OutcomeFacts'
  BY <1>0, ExecutorStays DEF OutcomeFacts, TypeOK, WorkerFacts, ExecutorRests
<1>3. EntryFacts'
  BY <1>0, ExecutorStays DEF EntryFacts, TypeOK, TasksOnce, OutcomeFacts, WorkerFacts, ExecutorRests
<1> QED BY <1>0, <1>1, <1>2, <1>3, ExecutorStays

\* A step of Close keeps the invariant.
LEMMA CloseKeeps ==
  ASSUME IInv, NEW r \in Req, Close(r)
  PROVE  IInv'
<1> USE DEF IInv, Close, CallerMoves, KitUnchanged
<1>0. ExecutorRests
  BY DEF ExecutorRests
<1>1. TypeOK'
  BY KitAssumption DEF TypeOK, Callers, Events, Own
<1>2. OutcomeFacts'
  BY <1>0, ExecutorStays DEF OutcomeFacts, TypeOK, WorkerFacts, ExecutorRests
<1>3. EntryFacts'
  BY <1>0, ExecutorStays DEF EntryFacts, TypeOK, TasksOnce, OutcomeFacts, WorkerFacts, ExecutorRests
<1> QED BY <1>0, <1>1, <1>2, <1>3, ExecutorStays

\* A step of CloseSets keeps the invariant.
LEMMA CloseSetsKeeps ==
  ASSUME IInv, NEW r \in Req, CloseSets(r)
  PROVE  IInv'
<1> USE DEF IInv, CloseSets, CallerMoves, KitUnchanged
<1>0. ExecutorRests
  BY DEF ExecutorRests
<1>1. TypeOK'
  <2>0. pending[r] # Nobody => pending[r] \in Events
    BY DEF TypeOK
  <2>1. cancelled' \subseteq Events
    BY <2>0 DEF TypeOK
  <2>2. caller' \in [Req -> Callers]
    BY DEF TypeOK, Callers
  <2> QED BY <2>1, <2>2 DEF TypeOK
<1>2. OutcomeFacts'
  BY <1>0, ExecutorStays DEF OutcomeFacts, TypeOK, WorkerFacts, ExecutorRests
<1>3. EntryFacts'
  BY <1>0, ExecutorStays DEF EntryFacts, TypeOK, TasksOnce, OutcomeFacts, WorkerFacts, ExecutorRests
<1> QED BY <1>0, <1>1, <1>2, <1>3, ExecutorStays

\* A step of ClosePops keeps the invariant.
LEMMA ClosePopsKeeps ==
  ASSUME IInv, NEW r \in Req, ClosePops(r)
  PROVE  IInv'
<1> USE DEF IInv, ClosePops, CallerMoves, KitUnchanged, CloseEntry
<1>0. ExecutorRests
  BY DEF ExecutorRests
<1>1. TypeOK'
  BY KitAssumption DEF TypeOK, Callers, Events, Own
<1>2. OutcomeFacts'
  BY <1>0, ExecutorStays DEF OutcomeFacts, TypeOK, WorkerFacts, ExecutorRests
<1>3. EntryFacts'
  <2> DEFINE Dropped(q) == q = r /\ r \notin started
  <2>1. /\ \A q \in Req : pending'[q] = IF Dropped(q) THEN Nobody ELSE pending[q]
        /\ \A q \in Req : caller'[q] = IF q = r THEN "closed" ELSE caller[q]
    BY DEF TypeOK
  <2> SUFFICES ASSUME NEW q \in Req
               PROVE  /\ pending'[q] \in {Nobody, Own(q)}
                      /\ Queued(q)' \/ (worker' = q /\ step' # "ending") => pending'[q] = Own(q)
                      /\ caller'[q] = "idle" /\ q \notin started' => pending'[q] = Own(q)
                      /\ outcome'[q] # "none" /\ (worker' # q \/ step' = "ending") => pending'[q] = Nobody
                      /\ caller'[q] = "closed" /\ q \notin started' => pending'[q] = Nobody
    BY DEF EntryFacts
  <2>2. CASE Dropped(q)
    BY <1>0, <2>1, <2>2, ExecutorStays, KitAssumption DEF EntryFacts, TasksOnce, WorkerFacts
  <2>3. CASE ~Dropped(q)
    BY <1>0, <2>1, <2>3, ExecutorStays DEF EntryFacts
  <2> QED BY <2>2, <2>3
<1> QED BY <1>0, <1>1, <1>2, <1>3, ExecutorStays

\* Nor can steps of threads that call no generator disturb anything else.
LEMMA OthersKeep ==
  ASSUME IInv, OthersUnchanged, UNCHANGED <<pending, queue>>, TypeOK'
  PROVE  IInv'
<1> USE DEF IInv, OthersUnchanged
<1>0. ExecutorRests
  BY DEF ExecutorRests
<1>1. OutcomeFacts'
  BY <1>0, ExecutorStays DEF OutcomeFacts
<1>2. EntryFacts'
  BY <1>0, ExecutorStays DEF EntryFacts
<1> QED BY <1>0, <1>1, <1>2, ExecutorStays

\* cancel_request(), a reporter's stop and the steps of shutdown() are such steps.
LEMMA OtherThreadsKeep ==
  ASSUME IInv,
         \/ \E r \in Req : StopLooksUp(r) \/ WantNoMore(r)
         \/ StopSets \/ SetShutdown \/ ShutExecutor \/ ShutdownReturns
  PROVE  IInv'
<1>1. CASE \E r \in Req : StopLooksUp(r) \/ WantNoMore(r)
  <2>1. TypeOK'
    BY <1>1 DEF IInv, StopLooksUp, WantNoMore, OthersUnchanged, TypeOK
  <2> QED BY <1>1, <2>1, OthersKeep DEF StopLooksUp, WantNoMore
<1>2. CASE StopSets
  <2>1. TypeOK'
    BY <1>2, KitAssumption DEF IInv, StopSets, OthersUnchanged, TypeOK, Callers, Events, Own
  <2> QED BY <1>2, <2>1, OthersKeep DEF StopSets
<1>3. CASE SetShutdown \/ ShutExecutor \/ ShutdownReturns
  <2>1. TypeOK'
    BY <1>3 DEF IInv, SetShutdown, ShutExecutor, ShutdownReturns, OthersUnchanged, TypeOK
  <2> QED BY <1>3, <2>1, OthersKeep DEF SetShutdown, ShutExecutor, ShutdownReturns
<1> QED BY <1>1, <1>2, <1>3

\* The first __next__() of a generator puts its task at the end of the queue.
LEMMA StartKeeps ==
  ASSUME IInv, NEW r \in Req, Start(r)
  PROVE  IInv'
<1> USE DEF IInv, Start, CallerMoves, KitUnchanged
<1>a. /\ r \notin started /\ caller[r] = "idle" /\ pending[r] = Own(r) /\ ~Queued(r)
      /\ worker # r /\ outcome[r] = "none" /\ results[r] = <<>>
  BY KitAssumption DEF TasksOnce, EntryFacts, WorkerFacts, OutcomeFacts
<1>b. CASE pool = "open"
  <2>a. queue' = Append(queue, r)
    BY <1>b
  <2>0. /\ queue' \in Seq(Req \cup {Call})
        /\ \A x : Queued(x)' <=> Queued(x) \/ x = r
        /\ \A i, j \in DOMAIN queue' : queue'[i] = queue'[j] /\ queue'[i] \in Req => i = j
    BY <1>a, <2>a, QueueGrows
  <2>1. TypeOK'
    BY <1>a, <1>b, <2>0 DEF TypeOK, Callers
  <2>2. CancelHeard'
    BY <1>a, <1>b, <2>0 DEF CancelHeard
  <2>3. LockHeldByTask'
    BY <1>a, <1>b, <2>0 DEF LockHeldByTask, WorkerFacts
  <2>4. ResultsInOrder'
    BY <1>a, <1>b, <2>0 DEF ResultsInOrder
  <2>5. WorkerFacts'
    BY <1>a, <1>b, <2>0 DEF WorkerFacts
  <2>6. TasksOnce'
    BY <1>a, <1>b, <2>0 DEF TasksOnce, WorkerFacts, OutcomeFacts
  <2>7. OutcomeFacts'
    BY <1>a, <1>b, <2>0 DEF OutcomeFacts, TypeOK, WorkerFacts
  <2>8. EntryFacts'
    BY <1>a, <1>b, <2>0 DEF EntryFacts, TypeOK, TasksOnce, OutcomeFacts, WorkerFacts
  <2>9. StreamFacts'
    BY <1>a, <1>b, <2>0 DEF StreamFacts, WorkerFacts, OutcomeFacts
  <2>10. DoneFacts'
    BY <1>a, <1>b, <2>0 DEF DoneFacts, WorkerFacts, OutcomeFacts
  <2> QED BY <2>1, <2>2, <2>3, <2>4, <2>5, <2>6, <2>7, <2>8, <2>9, <2>10
<1>c. CASE pool # "open"
  <2>0. \A x : Queued(x)' <=> Queued(x)
    BY <1>c, SameQueue
  <2>1. TypeOK'
    BY <1>a, <1>c, <2>0 DEF TypeOK, Callers
  <2>2. CancelHeard'
    BY <1>a, <1>c, <2>0 DEF CancelHeard
  <2>3. LockHeldByTask'
    BY <1>a, <1>c, <2>0 DEF LockHeldByTask, WorkerFacts
  <2>4. ResultsInOrder'
    BY <1>a, <1>c, <2>0 DEF ResultsInOrder
  <2>5. WorkerFacts'
    BY <1>a, <1>c, <2>0 DEF WorkerFacts
  <2>6. TasksOnce'
    BY <1>a, <1>c, <2>0 DEF TasksOnce, WorkerFacts, OutcomeFacts
  <2>7. OutcomeFacts'
    BY <1>a, <1>c, <2>0 DEF OutcomeFacts, TypeOK, WorkerFacts
  <2>8. EntryFacts'
    BY <1>a, <1>c, <2>0 DEF EntryFacts, TypeOK, TasksOnce, OutcomeFacts, WorkerFacts
  <2>9. StreamFacts'
    BY <1>a, <1>c, <2>0 DEF StreamFacts, WorkerFacts, OutcomeFacts
  <2>10. DoneFacts'
    BY <1>a, <1>c, <2>0 DEF DoneFacts, WorkerFacts, OutcomeFacts
  <2> QED BY <2>1, <2>2, <2>3, <2>4, <2>5, <2>6, <2>7, <2>8, <2>9, <2>10
<1> QED BY <1>b, <1>c

\* A step of CallKit keeps the invariant.
LEMMA CallKitKeeps ==
  ASSUME IInv, CallKit
  PROVE  IInv'
<1> USE DEF IInv, CallKit, OthersUnchanged
<1>b. CASE pool = "open"
  <2>a. queue' = Append(queue, Call) /\ Call \notin Req
    BY <1>b, KitAssumption
  <2>0. /\ queue' \in Seq(Req \cup {Call})
        /\ \A x : Queued(x)' <=> Queued(x) \/ x = Call
        /\ \A i, j \in DOMAIN queue' : queue'[i] = queue'[j] /\ queue'[i] \in Req => i = j
    BY <2>a, QueueGrows
  <2>1. TypeOK'
    BY <2>a, <1>b, <2>0 DEF TypeOK
  <2>2. CancelHeard'
    BY <2>a, <1>b, <2>0 DEF CancelHeard
  <2>3. LockHeldByTask'
    BY <2>a, <1>b, <2>0 DEF LockHeldByTask, WorkerFacts
  <2>4. ResultsInOrder'
    BY <2>a, <1>b, <2>0 DEF ResultsInOrder
  <2>5. WorkerFacts'
    BY <2>a, <1>b, <2>0 DEF WorkerFacts
  <2>6. TasksOnce'
    BY <2>a, <1>b, <2>0 DEF TasksOnce, WorkerFacts, OutcomeFacts
  <2>7. OutcomeFacts'
    BY <2>a, <1>b, <2>0 DEF OutcomeFacts, TypeOK, WorkerFacts
  <2>8. EntryFacts'
    BY <2>a, <1>b, <2>0 DEF EntryFacts, TypeOK, TasksOnce, OutcomeFacts, WorkerFacts
  <2>9. StreamFacts'
    BY <2>a, <1>b, <2>0 DEF StreamFacts, WorkerFacts, OutcomeFacts
  <2>10. DoneFacts'
    BY <2>a, <1>b, <2>0 DEF DoneFacts, WorkerFacts, OutcomeFacts
  <2> QED BY <2>1, <2>2, <2>3, <2>4, <2>5, <2>6, <2>7, <2>8, <2>9, <2>10
<1>c. CASE pool # "open"
  <2>1. TypeOK' /\ UNCHANGED <<pending, queue>>
    BY <1>c DEF TypeOK
  <2> QED BY <2>1, OthersKeep
<1> QED BY <1>b, <1>c

\* A step of Take keeps the invariant.
LEMMA TakeKeeps ==
  ASSUME IInv, NEW r \in Req, Take(r)
  PROVE  IInv'
<1> USE DEF IInv, Take, CallerMoves, KitUnchanged
<1>0. \A x : Queued(x)' <=> Queued(x)
  BY SameQueue
<1>a. /\ results' \in [Req -> Seq(Items)]
      /\ ResultsInOrder'
      /\ \A q \in Req : \A i \in DOMAIN results'[q] :
           \E j \in DOMAIN results[q] :
              results'[q][i] = results[q][j] /\ (j = Len(results[q]) <=> i = Len(results'[q]))
      /\ Head(results[r]) = results[r][1] /\ 1 \in DOMAIN results[r]
      /\ \A q \in Req : results[q] = <<>> => results'[q] = <<>>
  BY ResultsShrink
<1>b. Head(results[r]) \in Items
  BY <1>a DEF TypeOK
<1>c. AfterItem(Head(results[r])) \in {"idle", "told", "raised", "ended"}
  BY <1>b DEF AfterItem, Items
<1>d. AfterItem(Head(results[r])) = "ended" => outcome[r] # "none" /\ worker # r
  BY <1>a, <1>b DEF AfterItem, Items, DoneFacts
<1>e. AfterItem(Head(results[r])) = "idle" => r \in started
  BY KitAssumption DEF OutcomeFacts, WorkerFacts
<1>f. /\ \A q \in Req : q # r => caller'[q] = caller[q]
      /\ caller'[r] = AfterItem(Head(results[r]))
  BY DEF TypeOK
<1>g. \A q \in Req : results'[q] # <<>> => results[q] # <<>>
  BY <1>a
<1>1. TypeOK'
  BY <1>a, <1>c DEF TypeOK, Callers
<1>2. CancelHeard'
  BY <1>0, <1>a, <1>c, <1>d, <1>e, <1>f, <1>g DEF CancelHeard
<1>3. LockHeldByTask'
  BY <1>0, <1>a, <1>c, <1>d, <1>e, <1>f, <1>g DEF LockHeldByTask, WorkerFacts
<1>4. ResultsInOrder'
  BY <1>a DEF ResultsInOrder
<1>5. WorkerFacts'
  BY <1>0, <1>a, <1>c, <1>d, <1>e, <1>f, <1>g DEF WorkerFacts
<1>6. TasksOnce'
  BY <1>0, <1>a, <1>c, <1>d, <1>e, <1>f, <1>g DEF TasksOnce, WorkerFacts, OutcomeFacts
<1>7. OutcomeFacts'
  BY <1>0, <1>a, <1>c, <1>d, <1>e, <1>f, <1>g DEF OutcomeFacts, TypeOK, WorkerFacts
<1>8. EntryFacts'
  BY <1>0, <1>a, <1>c, <1>d, <1>e, <1>f, <1>g DEF EntryFacts, TypeOK, TasksOnce, OutcomeFacts, WorkerFacts
<1>9. StreamFacts'
  BY <1>0, <1>a, <1>c, <1>d, <1>e, <1>f, <1>g DEF StreamFacts, WorkerFacts, OutcomeFacts
<1>10. DoneFacts'
  BY <1>0, <1>a, <1>c, <1>d, <1>e, <1>f, <1>g DEF DoneFacts, WorkerFacts, OutcomeFacts
<1> QED BY <1>1, <1>2, <1>3, <1>4, <1>5, <1>6, <1>7, <1>8, <1>9, <1>10

-----------------------------------------------------------------------------
(* The steps of the executor's thread.                                   *)

\* A step of RunCall keeps the invariant.
LEMMA RunCallKeeps ==
  ASSUME IInv, RunCall
  PROVE  IInv'
<1> USE KitAssumption DEF IInv, RunCall, WorkUnchanged
<1>q. /\ queue' \in Seq(Req \cup {Call})
      /\ \A x : Queued(x)' => Queued(x)
      /\ \A x : Queued(x) /\ x # Head(queue) => Queued(x)'
      /\ Queued(Head(queue))
      /\ \A q \in Req : q = Head(queue) => ~Queued(q)'
      /\ \A i, j \in DOMAIN queue' : queue'[i] = queue'[j] /\ queue'[i] \in Req => i = j
  BY QueueShrinks
<1>1. TypeOK'
  BY <1>q DEF TypeOK, Steps, Events, Own
<1>2. CancelHeard'
  BY <1>q DEF CancelHeard
<1>3. LockHeldByTask'
  BY <1>q DEF LockHeldByTask, WorkerFacts
<1>4. ResultsInOrder'
  BY <1>q DEF ResultsInOrder
<1>5. WorkerFacts'
  BY <1>q DEF WorkerFacts
<1>6. TasksOnce'
  BY <1>q DEF TasksOnce, WorkerFacts, OutcomeFacts
<1>7. OutcomeFacts'
  BY <1>q DEF OutcomeFacts, TypeOK, WorkerFacts
<1>8. EntryFacts'
  BY <1>q DEF EntryFacts, TypeOK, TasksOnce, OutcomeFacts, WorkerFacts
<1>9. StreamFacts'
  BY <1>q DEF StreamFacts, WorkerFacts, OutcomeFacts
<1>10. DoneFacts'
  BY <1>q DEF DoneFacts, WorkerFacts, OutcomeFacts
<1> QED BY <1>1, <1>2, <1>3, <1>4, <1>5, <1>6, <1>7, <1>8, <1>9, <1>10

\* A task starts with the event that __init__ registered: setdefault finds it.
LEMMA TakeTaskKeeps ==
  ASSUME IInv, NEW r \in Req, TakeTask(r)
  PROVE  IInv'
<1> USE KitAssumption DEF IInv, TakeTask, WorkUnchanged
<1>q. /\ queue' \in Seq(Req \cup {Call})
      /\ \A x : Queued(x)' => Queued(x)
      /\ \A x : Queued(x) /\ x # Head(queue) => Queued(x)'
      /\ Queued(Head(queue))
      /\ \A q \in Req : q = Head(queue) => ~Queued(q)'
      /\ \A i, j \in DOMAIN queue' : queue'[i] = queue'[j] /\ queue'[i] \in Req => i = j
  BY QueueShrinks
<1>a. /\ Queued(r) /\ r \in started /\ outcome[r] = "none" /\ pending[r] = Own(r)
      /\ results[r] = <<>> /\ r # Nobody
  BY <1>q DEF TasksOnce, EntryFacts, OutcomeFacts
<1>b. Own(r) \in Events /\ Own(r) # Nobody
  BY DEF Own, Events
<1>c. Registered(r) = Own(r) /\ pending' = pending
  BY <1>a, <1>b DEF Registered, TypeOK
<1>d. ~Queued(r)'
  BY <1>q
<1>1. TypeOK'
  BY <1>q, <1>a, <1>b, <1>c, <1>d DEF TypeOK, Steps, Events, Own
<1>2. CancelHeard'
  BY <1>q, <1>a, <1>b, <1>c, <1>d DEF CancelHeard
<1>3. LockHeldByTask'
  BY DEF LockHeldByTask, WorkerFacts
<1>4. ResultsInOrder'
  BY <1>q, <1>a, <1>b, <1>c, <1>d DEF ResultsInOrder
<1>5. WorkerFacts'
  BY <1>q, <1>a, <1>b, <1>c, <1>d DEF WorkerFacts
<1>6. TasksOnce'
  BY <1>q, <1>a, <1>b, <1>c, <1>d DEF TasksOnce, WorkerFacts, OutcomeFacts
<1>7. OutcomeFacts'
  BY <1>q, <1>a, <1>b, <1>c, <1>d DEF OutcomeFacts, TypeOK, WorkerFacts
<1>8. EntryFacts'
  BY <1>q, <1>a, <1>b, <1>c, <1>d DEF EntryFacts, TypeOK, TasksOnce, OutcomeFacts, WorkerFacts
<1>9. StreamFacts'
  BY <1>q, <1>a, <1>b, <1>c, <1>d DEF StreamFacts, WorkerFacts, OutcomeFacts
<1>10. DoneFacts'
  BY <1>q, <1>a, <1>b, <1>c, <1>d DEF DoneFacts, WorkerFacts, OutcomeFacts
<1> QED BY <1>1, <1>2, <1>3, <1>4, <1>5, <1>6, <1>7, <1>8, <1>9, <1>10

\* The steps to the next part of a task keep the invariant: to its lock, its prompt,
\* its loop and its end.
LEMMA NextPartKeeps ==
  ASSUME IInv, AcquireLock \/ StartPrompt \/ PromptDone \/ LoopEnds
  PROVE  IInv'
<1> USE KitAssumption DEF IInv, AcquireLock, StartPrompt, PromptDone, LoopEnds, WorkUnchanged, Goes
<1>0. \A x : Queued(x)' <=> Queued(x)
  BY SameQueue
<1>a. worker \in Req /\ worker # Nobody /\ event = Own(worker) /\ worker \in started
  BY DEF WorkerFacts
<1>1. TypeOK'
  BY <1>0, <1>a DEF TypeOK, Steps, Events, Own
<1>2. CancelHeard'
  BY <1>0, <1>a DEF CancelHeard
<1>3. LockHeldByTask'
  BY <1>0, <1>a DEF LockHeldByTask, WorkerFacts
<1>4. ResultsInOrder'
  BY <1>0, <1>a DEF ResultsInOrder
<1>5. WorkerFacts'
  BY <1>0, <1>a DEF WorkerFacts
<1>6. TasksOnce'
  BY <1>0, <1>a DEF TasksOnce, WorkerFacts, OutcomeFacts
<1>7. OutcomeFacts'
  BY <1>0, <1>a DEF OutcomeFacts, TypeOK, WorkerFacts
<1>8. EntryFacts'
  BY <1>0, <1>a DEF EntryFacts, TypeOK, TasksOnce, OutcomeFacts, WorkerFacts
<1>9. StreamFacts'
  BY <1>0, <1>a DEF StreamFacts, WorkerFacts, OutcomeFacts
<1>10. DoneFacts'
  BY <1>0, <1>a DEF DoneFacts, WorkerFacts, OutcomeFacts
<1> QED BY <1>1, <1>2, <1>3, <1>4, <1>5, <1>6, <1>7, <1>8, <1>9, <1>10

\* A step of Raises keeps the invariant.
LEMMA RaisesKeeps ==
  ASSUME IInv, Raises
  PROVE  IInv'
<1> USE KitAssumption DEF IInv, Raises, WorkUnchanged, Goes, Ends
<1>0. \A x : Queued(x)' <=> Queued(x)
  BY SameQueue
<1>a. worker \in Req /\ worker # Nobody /\ event = Own(worker) /\ worker \in started
  BY DEF WorkerFacts
<1>1. TypeOK'
  BY <1>0, <1>a DEF TypeOK, Steps, Events, Own
<1>2. CancelHeard'
  BY <1>0, <1>a DEF CancelHeard
<1>3. LockHeldByTask'
  BY <1>0, <1>a DEF LockHeldByTask, WorkerFacts
<1>4. ResultsInOrder'
  BY <1>0, <1>a DEF ResultsInOrder
<1>5. WorkerFacts'
  BY <1>0, <1>a DEF WorkerFacts
<1>6. TasksOnce'
  BY <1>0, <1>a DEF TasksOnce, WorkerFacts, OutcomeFacts
<1>7. OutcomeFacts'
  BY <1>0, <1>a DEF OutcomeFacts, TypeOK, WorkerFacts
<1>8. EntryFacts'
  BY <1>0, <1>a DEF EntryFacts, TypeOK, TasksOnce, OutcomeFacts, WorkerFacts
<1>9. StreamFacts'
  BY <1>0, <1>a DEF StreamFacts, WorkerFacts, OutcomeFacts
<1>10. DoneFacts'
  BY <1>0, <1>a DEF DoneFacts, WorkerFacts, OutcomeFacts
<1> QED BY <1>1, <1>2, <1>3, <1>4, <1>5, <1>6, <1>7, <1>8, <1>9, <1>10

\* A step of AfterPut keeps the invariant.
LEMMA AfterPutKeeps ==
  ASSUME IInv, AfterPut
  PROVE  IInv'
<1> USE KitAssumption DEF IInv, AfterPut, WorkUnchanged, Goes, Ends
<1>0. \A x : Queued(x)' <=> Queued(x)
  BY SameQueue
<1>a. worker \in Req /\ worker # Nobody /\ event = Own(worker) /\ worker \in started
  BY DEF WorkerFacts
<1>b. /\ step' \in {"releasing", "reading", "farewell"} /\ worker' = worker
      /\ step' = "releasing" => outcome'[worker] = "cancelled"
      /\ step' # "releasing" => outcome' = outcome
      /\ \A q \in Req : q # worker => outcome'[q] = outcome[q]
      /\ outcome[worker] = "none" /\ results' = results
      /\ outcome' \in [Req -> {"none", "completed", "cancelled", "failed"}]
  BY <1>a DEF TypeOK, OutcomeFacts
<1>1. TypeOK'
  BY <1>0, <1>a, <1>b DEF TypeOK, Steps, Events, Own
<1>2. CancelHeard'
  BY <1>0, <1>a, <1>b DEF CancelHeard
<1>3. LockHeldByTask'
  BY <1>0, <1>a, <1>b DEF LockHeldByTask, WorkerFacts
<1>4. ResultsInOrder'
  BY <1>0, <1>a, <1>b DEF ResultsInOrder
<1>5. WorkerFacts'
  BY <1>0, <1>a, <1>b DEF WorkerFacts
<1>6. TasksOnce'
  BY <1>0, <1>a, <1>b DEF TasksOnce, WorkerFacts, OutcomeFacts
<1>7. OutcomeFacts'
  BY <1>0, <1>a, <1>b DEF OutcomeFacts, TypeOK, WorkerFacts
<1>8. EntryFacts'
  BY <1>0, <1>a, <1>b DEF EntryFacts, TypeOK, TasksOnce, OutcomeFacts, WorkerFacts
<1>9. StreamFacts'
  BY <1>0, <1>a, <1>b DEF StreamFacts, WorkerFacts, OutcomeFacts
<1>10. DoneFacts'
  BY <1>0, <1>a, <1>b DEF DoneFacts, WorkerFacts, OutcomeFacts
<1> QED BY <1>1, <1>2, <1>3, <1>4, <1>5, <1>6, <1>7, <1>8, <1>9, <1>10

\* A step of Release keeps the invariant.
LEMMA ReleaseKeeps ==
  ASSUME IInv, Release
  PROVE  IInv'
<1> USE KitAssumption DEF IInv, Release, LockReleased, WorkUnchanged, Goes, Ends
<1>0. \A x : Queued(x)' <=> Queued(x)
  BY SameQueue
<1>a. worker \in Req /\ worker # Nobody /\ event = Own(worker) /\ worker \in started
  BY DEF WorkerFacts
<1>1. TypeOK'
  BY <1>0, <1>a DEF TypeOK, Steps, Events, Own
<1>2. CancelHeard'
  BY <1>0, <1>a DEF CancelHeard
<1>3. LockHeldByTask'
  BY <1>0, <1>a DEF LockHeldByTask, WorkerFacts
<1>4. ResultsInOrder'
  BY <1>0, <1>a DEF ResultsInOrder
<1>5. WorkerFacts'
  BY <1>0, <1>a DEF WorkerFacts
<1>6. TasksOnce'
  BY <1>0, <1>a DEF TasksOnce, WorkerFacts, OutcomeFacts
<1>7. OutcomeFacts'
  BY <1>0, <1>a DEF OutcomeFacts, TypeOK, WorkerFacts
<1>8. EntryFacts'
  BY <1>0, <1>a DEF EntryFacts, TypeOK, TasksOnce, OutcomeFacts, WorkerFacts
<1>9. StreamFacts'
  BY <1>0, <1>a DEF StreamFacts, WorkerFacts, OutcomeFacts
<1>10. DoneFacts'
  BY <1>0, <1>a DEF DoneFacts, WorkerFacts, OutcomeFacts
<1> QED BY <1>1, <1>2, <1>3, <1>4, <1>5, <1>6, <1>7, <1>8, <1>9, <1>10

\* A step of AskToken keeps the invariant.
LEMMA AskTokenKeeps ==
  ASSUME IInv, AskToken
  PROVE  IInv'
<1> USE KitAssumption DEF IInv, AskToken, StopsReading, Cancelled, TokensLeft, WorkUnchanged, Goes, Ends
<1>0. \A x : Queued(x)' <=> Queued(x)
  BY SameQueue
<1>a. worker \in Req /\ worker # Nobody /\ event = Own(worker) /\ worker \in started
  BY DEF WorkerFacts
<1>1. TypeOK'
  BY <1>0, <1>a DEF TypeOK, Steps, Events, Own
<1>2. CancelHeard'
  BY <1>0, <1>a DEF CancelHeard
<1>3. LockHeldByTask'
  BY <1>0, <1>a DEF LockHeldByTask, WorkerFacts
<1>4. ResultsInOrder'
  BY <1>0, <1>a DEF ResultsInOrder
<1>5. WorkerFacts'
  BY <1>0, <1>a DEF WorkerFacts
<1>6. TasksOnce'
  BY <1>0, <1>a DEF TasksOnce, WorkerFacts, OutcomeFacts
<1>7. OutcomeFacts'
  BY <1>0, <1>a DEF OutcomeFacts, TypeOK, WorkerFacts
<1>8. EntryFacts'
  BY <1>0, <1>a DEF EntryFacts, TypeOK, TasksOnce, OutcomeFacts, WorkerFacts
<1>9. StreamFacts'
  BY <1>0, <1>a DEF StreamFacts, WorkerFacts, OutcomeFacts
<1>10. DoneFacts'
  BY <1>0, <1>a DEF DoneFacts, WorkerFacts, OutcomeFacts
<1> QED BY <1>1, <1>2, <1>3, <1>4, <1>5, <1>6, <1>7, <1>8, <1>9, <1>10

\* A task that is over for a cancel says so, unless its generator was closed.
LEMMA TellsCancelled ==
  ASSUME IInv, step \in {"locking", "locked", "prompt", "farewell"},
         Emits("cancelled", "releasing"), Ends("cancelled"),
         UNCHANGED <<queue, pending, cancelled, task, late>>, WorkUnchanged
  PROVE  IInv'
<1> USE KitAssumption DEF IInv, Emits, WorkUnchanged, Goes, Ends
<1>0. \A x : Queued(x)' <=> Queued(x)
  BY SameQueue
<1>a. worker \in Req /\ worker # Nobody /\ event = Own(worker) /\ worker \in started
  BY DEF WorkerFacts
<1>b. /\ outcome[worker] = "none" /\ worker' = worker
      /\ \A i \in DOMAIN results[worker] : results[worker][i] \in {"token", "last"}
  BY <1>a DEF OutcomeFacts, StreamFacts
<1>c. \A i \in DOMAIN results[worker] : i \in Nat /\ i <= Len(results[worker])
  BY <1>a DEF TypeOK
<1>d. /\ outcome'[worker] = "cancelled" /\ step' = "releasing"
      /\ \A q \in Req : q # worker => outcome'[q] = outcome[q]
  BY <1>a DEF TypeOK
<1>e. CASE worker \in closed
  <2>a. results' = results
    BY <1>e
  <2>1. TypeOK'
    BY <1>0, <1>a, <1>b, <1>d, <1>e, <2>a DEF TypeOK, Steps, Events, Own
  <2>2. CancelHeard'
    BY <1>0, <1>a, <1>b, <1>d, <1>e, <2>a DEF CancelHeard
  <2>3. LockHeldByTask'
    BY <1>0, <1>a, <1>b, <1>d, <1>e, <2>a DEF LockHeldByTask, WorkerFacts
  <2>4. ResultsInOrder'
    BY <1>0, <1>a, <1>b, <1>d, <1>e, <2>a DEF ResultsInOrder
  <2>5. WorkerFacts'
    BY <1>0, <1>a, <1>b, <1>d, <1>e, <2>a DEF WorkerFacts
  <2>6. TasksOnce'
    BY <1>0, <1>a, <1>b, <1>d, <1>e, <2>a DEF TasksOnce, WorkerFacts, OutcomeFacts
  <2>7. OutcomeFacts'
    BY <1>0, <1>a, <1>b, <1>d, <1>e, <2>a DEF OutcomeFacts, TypeOK, WorkerFacts
  <2>8. EntryFacts'
    BY <1>0, <1>a, <1>b, <1>d, <1>e, <2>a DEF EntryFacts, TypeOK, TasksOnce, OutcomeFacts, WorkerFacts
  <2>9. StreamFacts'
    BY <1>0, <1>a, <1>b, <1>d, <1>e, <2>a DEF StreamFacts, WorkerFacts, OutcomeFacts
  <2>10. DoneFacts'
    BY <1>0, <1>a, <1>b, <1>d, <1>e, <2>a DEF DoneFacts, WorkerFacts, OutcomeFacts
  <2> QED BY <2>1, <2>2, <2>3, <2>4, <2>5, <2>6, <2>7, <2>8, <2>9, <2>10
<1>f. CASE worker \notin closed
  <2>a. Puts(<<"cancelled">>)
    BY <1>f
  <2>b. /\ results' \in [Req -> Seq(Items)]
        /\ ResultsInOrder'
        /\ \A q \in Req : q # worker => results'[q] = results[q]
        /\ DOMAIN results'[worker] = DOMAIN results[worker] \cup {Len(results'[worker])}
        /\ Len(results'[worker]) = Len(results[worker]) + 1
        /\ Len(results[worker]) \in Nat
        /\ \A i \in DOMAIN results[worker] : results'[worker][i] = results[worker][i]
        /\ results'[worker][Len(results'[worker])] = "cancelled"
    BY <1>a, <1>b, <2>a, ResultsGrow DEF Items
  <2>c. ASSUME NEW i \in DOMAIN results'[worker]
        PROVE  \/ results'[worker][i] \in {"token", "last"}
               \/ i = Len(results'[worker]) /\ results'[worker][i] = "cancelled"
    <3>1. CASE i \in DOMAIN results[worker]
      <4>1. results'[worker][i] = results[worker][i]
        BY <3>1, <2>b
      <4> QED BY <4>1, <3>1, <1>b
    <3>2. CASE i \notin DOMAIN results[worker]
      <4>1. i = Len(results'[worker])
        BY <3>2, <2>b
      <4> QED BY <4>1, <2>b
    <3> QED BY <3>1, <3>2
  <2>1. TypeOK'
    BY <1>0, <1>a, <1>b, <1>c, <1>d, <2>b DEF TypeOK, Steps, Events, Own
  <2>2. CancelHeard'
    BY <1>0, <1>a, <1>b, <1>c, <1>d, <2>b DEF CancelHeard
  <2>3. LockHeldByTask'
    BY <1>0, <1>a, <1>b, <1>c, <1>d, <2>b DEF LockHeldByTask, WorkerFacts
  <2>4. ResultsInOrder'
    BY <1>0, <1>a, <1>b, <1>c, <1>d, <2>b DEF ResultsInOrder
  <2>5. WorkerFacts'
    BY <1>0, <1>a, <1>b, <1>c, <1>d, <2>b DEF WorkerFacts
  <2>6. TasksOnce'
    BY <1>0, <1>a, <1>b, <1>c, <1>d, <2>b DEF TasksOnce, WorkerFacts, OutcomeFacts
  <2>7. OutcomeFacts'
    BY <1>0, <1>a, <1>b, <1>c, <1>d, <2>b DEF OutcomeFacts, TypeOK, WorkerFacts
  <2>8. EntryFacts'
    BY <1>0, <1>a, <1>b, <1>c, <1>d, <2>b DEF EntryFacts, TypeOK, TasksOnce, OutcomeFacts, WorkerFacts
  <2>9. StreamFacts'
    BY SMTT(30), <1>a, <1>b, <1>d, <2>b, <2>c DEF StreamFacts, WorkerFacts, OutcomeFacts
  <2>10. DoneFacts'
    <3> SUFFICES ASSUME NEW q \in Req, NEW i \in DOMAIN results'[q], results'[q][i] = "done"
                 PROVE  worker # q /\ outcome'[q] # "none"
      BY <1>b DEF DoneFacts
    <3>1. q # worker
      BY <2>c
    <3>2. results'[q] = results[q] /\ outcome'[q] = outcome[q]
      BY <1>d, <2>b, <3>1
    <3>3. worker # q /\ outcome[q] # "none"
      BY <3>2 DEF DoneFacts
    <3> QED BY <3>2, <3>3
  <2> QED BY <2>1, <2>2, <2>3, <2>4, <2>5, <2>6, <2>7, <2>8, <2>9, <2>10
<1> QED BY <1>e, <1>f

\* A step of SeesCancel keeps the invariant.
LEMMA SeesCancelKeeps ==
  ASSUME IInv, SeesCancel
  PROVE  IInv'
BY TellsCancelled DEF SeesCancel

\* A step of PromptStopped keeps the invariant.
LEMMA PromptStoppedKeeps ==
  ASSUME IInv, PromptStopped
  PROVE  IInv'
BY TellsCancelled DEF PromptStopped

\* A step of Farewell keeps the invariant.
LEMMA FarewellKeeps ==
  ASSUME IInv, Farewell
  PROVE  IInv'
<1> USE KitAssumption DEF IInv, Farewell, WorkUnchanged, Goes, Ends
<1>0. \A x : Queued(x)' <=> Queued(x)
  BY SameQueue
<1>a. worker \in Req /\ worker # Nobody /\ event = Own(worker) /\ worker \in started
  BY DEF WorkerFacts
<1>b. CASE Cancelled
  BY <1>b, TellsCancelled
<1>c. CASE ~Cancelled
  <2>b. /\ outcome'[worker] = "completed" /\ step' = "releasing" /\ worker' = worker
        /\ \A q \in Req : q # worker => outcome'[q] = outcome[q]
        /\ results' = results /\ UNCHANGED <<event, lock, count>>
    BY <1>a, <1>c DEF TypeOK
  <2>1. TypeOK'
    BY <1>0, <1>a, <1>c DEF TypeOK, Steps, Events, Own
  <2>2. CancelHeard'
    BY <1>0, <1>a, <2>b DEF CancelHeard
  <2>3. LockHeldByTask'
    BY <1>0, <1>a, <2>b DEF LockHeldByTask, WorkerFacts
  <2>4. ResultsInOrder'
    BY <1>0, <1>a, <2>b DEF ResultsInOrder
  <2>5. WorkerFacts'
    BY <1>0, <1>a, <2>b DEF WorkerFacts
  <2>6. TasksOnce'
    BY <1>0, <1>a, <2>b DEF TasksOnce, WorkerFacts, OutcomeFacts
  <2>7. OutcomeFacts'
    BY <1>0, <1>a, <2>b DEF OutcomeFacts, TypeOK, WorkerFacts
  <2>8. EntryFacts'
    BY <1>0, <1>a, <2>b DEF EntryFacts, TypeOK, TasksOnce, OutcomeFacts, WorkerFacts
  <2>9. StreamFacts'
    BY <1>0, <1>a, <2>b DEF StreamFacts, WorkerFacts, OutcomeFacts
  <2>10. DoneFacts'
    BY <1>0, <1>a, <2>b DEF DoneFacts, WorkerFacts, OutcomeFacts
  <2> QED BY <2>1, <2>2, <2>3, <2>4, <2>5, <2>6, <2>7, <2>8, <2>9, <2>10
<1> QED BY <1>b, <1>c

\* One token more: held back, dropped for a close, or handed out.
LEMMA TokenComputedKeeps ==
  ASSUME IInv, TokenComputed
  PROVE  IInv'
<1> USE KitAssumption DEF IInv, TokenComputed, WorkUnchanged, Ends
<1>0. \A x : Queued(x)' <=> Queued(x)
  BY SameQueue
<1>a. worker \in Req /\ worker # Nobody /\ event = Own(worker) /\ worker \in started
  BY DEF WorkerFacts
<1>t. count' \in 0..MaxTokens /\ worker' = worker /\ event' = event /\ lock' = lock
  BY DEF TypeOK, WorkerFacts
<1>b. /\ outcome[worker] = "none"
      /\ \A i \in DOMAIN results[worker] : results[worker][i] = "token"
  BY <1>a DEF OutcomeFacts, StreamFacts
<1>c. \A i \in DOMAIN results[worker] : i \in Nat /\ i <= Len(results[worker])
  BY <1>a DEF TypeOK
<1>d. CASE step' = "reading" /\ UNCHANGED <<results, outcome>>
  <2>1. TypeOK'
    BY <1>0, <1>a, <1>t, <1>b, <1>d DEF TypeOK, Steps, Events, Own
  <2>2. CancelHeard'
    BY <1>0, <1>a, <1>t, <1>b, <1>d DEF CancelHeard
  <2>3. LockHeldByTask'
    BY <1>0, <1>a, <1>t, <1>b, <1>d DEF LockHeldByTask, WorkerFacts
  <2>4. ResultsInOrder'
    BY <1>0, <1>a, <1>t, <1>b, <1>d DEF ResultsInOrder
  <2>5. WorkerFacts'
    BY <1>0, <1>a, <1>t, <1>b, <1>d DEF WorkerFacts
  <2>6. TasksOnce'
    BY <1>0, <1>a, <1>t, <1>b, <1>d DEF TasksOnce, WorkerFacts, OutcomeFacts
  <2>7. OutcomeFacts'
    BY <1>0, <1>a, <1>t, <1>b, <1>d DEF OutcomeFacts, TypeOK, WorkerFacts
  <2>8. EntryFacts'
    BY <1>0, <1>a, <1>t, <1>b, <1>d DEF EntryFacts, TypeOK, TasksOnce, OutcomeFacts, WorkerFacts
  <2>9. StreamFacts'
    BY <1>0, <1>a, <1>t, <1>b, <1>d DEF StreamFacts, WorkerFacts, OutcomeFacts
  <2>10. DoneFacts'
    BY <1>0, <1>a, <1>t, <1>b, <1>d DEF DoneFacts, WorkerFacts, OutcomeFacts
  <2> QED BY <2>1, <2>2, <2>3, <2>4, <2>5, <2>6, <2>7, <2>8, <2>9, <2>10
<1>e. CASE step' = "releasing" /\ Ends("cancelled") /\ UNCHANGED results
  <2>a. /\ outcome'[worker] = "cancelled" /\ step' = "releasing" /\ results' = results
        /\ \A q \in Req : q # worker => outcome'[q] = outcome[q]
        /\ outcome' \in [Req -> {"none", "completed", "cancelled", "failed"}]
    BY <1>a, <1>e DEF TypeOK
  <2>1. TypeOK'
    BY <1>0, <1>a, <1>t, <1>b, <2>a DEF TypeOK, Steps, Events, Own
  <2>2. CancelHeard'
    BY <1>0, <1>a, <1>t, <1>b, <2>a DEF CancelHeard
  <2>3. LockHeldByTask'
    BY <1>0, <1>a, <1>t, <1>b, <2>a DEF LockHeldByTask, WorkerFacts
  <2>4. ResultsInOrder'
    BY <1>0, <1>a, <1>t, <1>b, <2>a DEF ResultsInOrder
  <2>5. WorkerFacts'
    BY <1>0, <1>a, <1>t, <1>b, <2>a DEF WorkerFacts
  <2>6. TasksOnce'
    BY <1>0, <1>a, <1>t, <1>b, <2>a DEF TasksOnce, WorkerFacts, OutcomeFacts
  <2>7. OutcomeFacts'
    BY <1>0, <1>a, <1>t, <1>b, <2>a DEF OutcomeFacts, TypeOK, WorkerFacts
  <2>8. EntryFacts'
    BY <1>0, <1>a, <1>t, <1>b, <2>a DEF EntryFacts, TypeOK, TasksOnce, OutcomeFacts, WorkerFacts
  <2>9. StreamFacts'
    BY <1>0, <1>a, <1>t, <1>b, <2>a DEF StreamFacts, WorkerFacts, OutcomeFacts
  <2>10. DoneFacts'
    BY <1>0, <1>a, <1>t, <1>b, <2>a DEF DoneFacts, WorkerFacts, OutcomeFacts
  <2> QED BY <2>1, <2>2, <2>3, <2>4, <2>5, <2>6, <2>7, <2>8, <2>9, <2>10
<1>f. ASSUME NEW item \in {"token", "last"}, Puts(<<item>>), UNCHANGED outcome,
              step' = IF item = "token" THEN "read" ELSE "readlast"
      PROVE  IInv'
  <2>b. /\ results' \in [Req -> Seq(Items)]
        /\ ResultsInOrder'
        /\ \A q \in Req : q # worker => results'[q] = results[q]
        /\ DOMAIN results'[worker] = DOMAIN results[worker] \cup {Len(results'[worker])}
        /\ Len(results'[worker]) = Len(results[worker]) + 1
        /\ Len(results[worker]) \in Nat
        /\ \A i \in DOMAIN results[worker] : results'[worker][i] = results[worker][i]
        /\ results'[worker][Len(results'[worker])] = item
    BY <1>a, <1>b, <1>f, ResultsGrow DEF Items
  <2>d. ASSUME NEW i \in DOMAIN results'[worker]
        PROVE  results'[worker][i] = "token" \/ (results'[worker][i] = "last" /\ item = "last")
    <3>1. CASE i \in DOMAIN results[worker]
      <4>1. results'[worker][i] = results[worker][i]
        BY <3>1, <2>b
      <4> QED BY <4>1, <3>1, <1>b
    <3>2. CASE i \notin DOMAIN results[worker]
      <4>1. i = Len(results'[worker])
        BY <3>2, <2>b
      <4> QED BY <4>1, <1>f, <2>b
    <3> QED BY <3>1, <3>2
  <2>c. step' \in {"read", "readlast"} /\ outcome' = outcome /\ (item = "last" => step' = "readlast")
    BY <1>f
  <2>1. TypeOK'
    BY <1>0, <1>a, <1>t, <1>b, <1>c, <2>b, <2>c DEF TypeOK, Steps, Events, Own
  <2>2. CancelHeard'
    BY <1>0, <1>a, <1>t, <1>b, <1>c, <2>b, <2>c DEF CancelHeard
  <2>3. LockHeldByTask'
    BY <1>0, <1>a, <1>t, <1>b, <1>c, <2>b, <2>c DEF LockHeldByTask, WorkerFacts
  <2>4. ResultsInOrder'
    BY <1>0, <1>a, <1>t, <1>b, <1>c, <2>b, <2>c DEF ResultsInOrder
  <2>5. WorkerFacts'
    BY <1>0, <1>a, <1>t, <1>b, <1>c, <2>b, <2>c DEF WorkerFacts
  <2>6. TasksOnce'
    BY <1>0, <1>a, <1>t, <1>b, <1>c, <2>b, <2>c DEF TasksOnce, WorkerFacts, OutcomeFacts
  <2>7. OutcomeFacts'
    BY <1>0, <1>a, <1>t, <1>b, <1>c, <2>b, <2>c DEF OutcomeFacts, TypeOK, WorkerFacts
  <2>8. EntryFacts'
    BY <1>0, <1>a, <1>t, <1>b, <1>c, <2>b, <2>c DEF EntryFacts, TypeOK, TasksOnce, OutcomeFacts, WorkerFacts
  <2>9. StreamFacts'
    BY <1>a, <1>b, <1>t, <2>b, <2>c, <2>d DEF StreamFacts, WorkerFacts, OutcomeFacts
  <2>10. DoneFacts'
    BY <1>a, <1>b, <1>t, <2>b, <2>c, <2>d DEF DoneFacts, WorkerFacts, OutcomeFacts
  <2> QED BY <2>1, <2>2, <2>3, <2>4, <2>5, <2>6, <2>7, <2>8, <2>9, <2>10
<1> QED BY <1>d, <1>e, <1>f

\* The task's last words: at most an error, and the end.
LEMMA FinishKeeps ==
  ASSUME IInv, Finish
  PROVE  IInv'
<1> USE KitAssumption DEF IInv, Finish, WorkUnchanged
<1>0. \A x : Queued(x)' <=> Queued(x)
  BY SameQueue
<1>a. worker \in Req /\ worker # Nobody /\ event = Own(worker) /\ worker \in started
  BY DEF WorkerFacts
<1>b. /\ outcome[worker] # "none" /\ pending[worker] = Nobody
      /\ \A i \in DOMAIN results[worker] : results[worker][i] \in {"token", "last", "cancelled"}
      /\ outcome[worker] = "failed" =>
           \A i \in DOMAIN results[worker] : results[worker][i] = "token"
  BY <1>a DEF OutcomeFacts, StreamFacts, EntryFacts
<1>c. /\ worker' = Nobody /\ step' = "idle" /\ event' = Nobody /\ count' = 0
      /\ UNCHANGED <<lock, queue, pending, cancelled, task, outcome, late>>
  OBVIOUS
<1>d. /\ results' \in [Req -> Seq(Items)]
      /\ \A q \in Req : q # worker => results'[q] = results[q]
      /\ ResultsInOrder'
  <2> DEFINE s == results[worker]
  <2>1. s \in Seq(Items) /\ "done" \in Items /\ "error" \in Items
    BY <1>a DEF TypeOK, Items
  <2>2. results' = [results EXCEPT ![worker] = s \o LastWords]
    BY DEF Puts
  <2>3. \A i \in DOMAIN s : i < Len(s) =>
          CASE s[i] = "token" -> TRUE
            [] s[i] = "last" -> s[i + 1] \in {"cancelled", "done", "error"}
            [] OTHER -> s[i + 1] = "done"
    BY <1>a DEF ResultsInOrder
  <2>4. /\ s \o LastWords \in Seq(Items)
        /\ \A i \in DOMAIN (s \o LastWords) : i < Len(s \o LastWords) =>
             CASE (s \o LastWords)[i] = "token" -> TRUE
               [] (s \o LastWords)[i] = "last" ->
                    (s \o LastWords)[i + 1] \in {"cancelled", "done", "error"}
               [] OTHER -> (s \o LastWords)[i + 1] = "done"
    <3>1. CASE outcome[worker] = "failed"
      <4>1. LastWords = <<"error", "done">>
        BY <3>1 DEF LastWords
      <4>2. <<"error", "done">> \in Seq(Items)
        BY <2>1
      <4>3. /\ s \o <<"error", "done">> \in Seq(Items)
            /\ Len(s \o <<"error", "done">>) = Len(s) + 2 /\ Len(s) \in Nat
            /\ \A i \in 1..Len(s) + 2 : (s \o <<"error", "done">>)[i] =
                 IF i <= Len(s) THEN s[i] ELSE <<"error", "done">>[i - Len(s)]
        BY <2>1, <4>2, ConcatProperties
      <4>4. \A i \in 1..Len(s) : s[i] = "token"
        BY <1>b, <3>1, <2>1
      <4>5. (s \o LastWords)[Len(s) + 1] = "error" /\ (s \o LastWords)[Len(s) + 2] = "done"
        BY <4>1, <4>3
      <4>6. DOMAIN (s \o LastWords) = 1..Len(s) + 2
        BY <4>1, <4>3
      <4>7. ASSUME NEW i \in 1..Len(s) + 2, i < Len(s) + 2
            PROVE  \/ (s \o LastWords)[i] = "token"
                   \/ (s \o LastWords)[i] = "error" /\ (s \o LastWords)[i + 1] = "done"
        <5>1. CASE i <= Len(s)
          <6>1. i \in 1..Len(s) /\ i \in 1..Len(s) + 2
            BY <4>3, <5>1
          <6>2. (s \o LastWords)[i] = s[i]
            BY <4>1, <4>3, <5>1, <6>1
          <6> QED BY <4>4, <6>1, <6>2
        <5>2. CASE ~(i <= Len(s))
          <6>1. i = Len(s) + 1 /\ i + 1 = Len(s) + 2
            BY <4>3, <4>7, <5>2
          <6> QED BY <6>1, <4>5
        <5> QED BY <5>1, <5>2
      <4> QED BY <4>1, <4>3, <4>6, <4>7
    <3>2. CASE outcome[worker] # "failed"
      <4>1. LastWords = <<"done">>
        BY <3>2 DEF LastWords
      <4>2. s \o LastWords = Append(s, "done")
        BY <2>1, <4>1, AppendIsConcat
      <4>3. /\ Append(s, "done") \in Seq(Items)
            /\ Len(Append(s, "done")) = Len(s) + 1 /\ Len(s) \in Nat
            /\ \A i \in 1..Len(s) : Append(s, "done")[i] = s[i]
            /\ Append(s, "done")[Len(s) + 1] = "done"
            /\ DOMAIN Append(s, "done") = 1..Len(s) + 1 /\ DOMAIN s = 1..Len(s)
        BY <2>1, AppendProperties
      <4>4. ASSUME NEW i \in 1..Len(s)
            PROVE  CASE Append(s, "done")[i] = "token" -> TRUE
                     [] Append(s, "done")[i] = "last" ->
                          Append(s, "done")[i + 1] \in {"cancelled", "done", "error"}
                     [] OTHER -> Append(s, "done")[i + 1] = "done"
        <5>1. CASE i < Len(s)
          <6>1. i + 1 \in 1..Len(s)
            BY <4>3, <5>1
          <6> QED BY <6>1, <5>1, <4>3, <2>3
        <5>2. CASE i = Len(s)
          BY <5>2, <4>3
        <5> QED BY <5>1, <5>2, <4>3
      <4> QED BY <4>2, <4>3, <4>4
    <3> QED BY <3>1, <3>2
  <2>5. results'[worker] = s \o LastWords /\ \A q \in Req : q # worker => results'[q] = results[q]
    BY <1>a, <2>2 DEF TypeOK
  <2>6. results' \in [Req -> Seq(Items)]
    BY <2>2, <2>4 DEF TypeOK
  <2>7. ResultsInOrder'
    <3> SUFFICES ASSUME NEW q \in Req, NEW i \in DOMAIN results'[q], i < Len(results'[q])
                 PROVE  CASE results'[q][i] = "token" -> TRUE
                          [] results'[q][i] = "last" ->
                               results'[q][i + 1] \in {"cancelled", "done", "error"}
                          [] OTHER -> results'[q][i + 1] = "done"
      BY DEF ResultsInOrder
    <3>1. CASE q = worker
      BY <3>1, <2>4, <2>5
    <3>2. CASE q # worker
      BY <3>2, <2>5 DEF ResultsInOrder
    <3> QED BY <3>1, <3>2
  <2> QED BY <2>5, <2>6, <2>7
<1>1. TypeOK'
  BY <1>0, <1>a, <1>b, <1>c, <1>d DEF TypeOK, Steps, Events, Own
<1>2. CancelHeard'
  BY <1>0, <1>a, <1>b, <1>c, <1>d DEF CancelHeard
<1>3. LockHeldByTask'
  BY <1>0, <1>a, <1>b, <1>c, <1>d DEF LockHeldByTask, WorkerFacts
<1>4. ResultsInOrder'
  BY <1>0, <1>a, <1>b, <1>c, <1>d DEF ResultsInOrder
<1>5. WorkerFacts'
  BY <1>0, <1>a, <1>b, <1>c, <1>d DEF WorkerFacts
<1>6. TasksOnce'
  BY <1>0, <1>a, <1>b, <1>c, <1>d DEF TasksOnce, WorkerFacts, OutcomeFacts
<1>7. OutcomeFacts'
  BY <1>0, <1>a, <1>b, <1>c, <1>d DEF OutcomeFacts, TypeOK, WorkerFacts
<1>8. EntryFacts'
  BY <1>0, <1>a, <1>b, <1>c, <1>d DEF EntryFacts, TypeOK, TasksOnce, OutcomeFacts, WorkerFacts
<1>9. StreamFacts'
  BY <1>0, <1>a, <1>b, <1>c, <1>d DEF StreamFacts, WorkerFacts, OutcomeFacts
<1>10. DoneFacts'
  BY <1>0, <1>a, <1>b, <1>c, <1>d DEF DoneFacts, WorkerFacts, OutcomeFacts
<1> QED BY <1>1, <1>2, <1>3, <1>4, <1>5, <1>6, <1>7, <1>8, <1>9, <1>10

-----------------------------------------------------------------------------
(* The theorem.                                                            *)

\* The invariant holds initially.
LEMMA InitKeeps == Init => IInv
<1> SUFFICES ASSUME Init PROVE IInv
  OBVIOUS
<1>1. <<>> \in Seq(Items) /\ <<>> \in Seq(Req \cup {Call}) /\ DOMAIN <<>> = {}
  BY EmptySeq
<1>2. \A r : ~Queued(r)
  BY <1>1 DEF Init, Queued
<1> USE KitAssumption DEF Init
<1>3. TypeOK
  <2>1. 0 \in 0..MaxTokens
    OBVIOUS
  <2>2. results \in [Req -> Seq(Items)]
    BY <1>1
  <2> QED BY <1>1, <2>1, <2>2 DEF TypeOK, Callers, Steps
<1>4. CancelHeard
  BY <1>1, <1>2 DEF CancelHeard
<1>5. LockHeldByTask
  BY <1>1, <1>2 DEF LockHeldByTask
<1>6. ResultsInOrder
  BY <1>1, <1>2 DEF ResultsInOrder
<1>7. WorkerFacts
  BY <1>1, <1>2 DEF WorkerFacts
<1>8. TasksOnce
  BY <1>1, <1>2 DEF TasksOnce
<1>9. OutcomeFacts
  BY <1>1, <1>2 DEF OutcomeFacts
<1>10. EntryFacts
  BY <1>1, <1>2 DEF EntryFacts
<1>11. StreamFacts
  BY <1>1, <1>2 DEF StreamFacts
<1>12. DoneFacts
  BY <1>1, <1>2 DEF DoneFacts
<1> QED BY <1>3, <1>4, <1>5, <1>6, <1>7, <1>8, <1>9, <1>10, <1>11, <1>12 DEF IInv

\* Every step keeps the invariant.
LEMMA StepKeeps == IInv /\ [Next]_vars => IInv'
<1> SUFFICES ASSUME IInv, [Next]_vars PROVE IInv'
  OBVIOUS
<1>1. ASSUME NEW r \in Req,
             \/ Make(r) \/ Start(r) \/ CallNext(r) \/ Take(r) \/ Leave(r) \/ Close(r)
             \/ CloseSets(r) \/ ClosePops(r) \/ WantNoMore(r) \/ StopLooksUp(r) \/ TakeTask(r)
      PROVE  IInv'
  BY <1>1, MakeKeeps, StartKeeps, CallNextKeeps, TakeKeeps, LeaveKeeps, CloseKeeps,
     CloseSetsKeeps, ClosePopsKeeps, OtherThreadsKeep, TakeTaskKeeps
<1>2. CASE StopSets \/ CallKit \/ SetShutdown \/ ShutExecutor \/ ShutdownReturns
  BY <1>2, CallKitKeeps, OtherThreadsKeep
<1>3. CASE RunCall \/ SeesCancel \/ AcquireLock \/ StartPrompt \/ PromptDone \/ PromptStopped \/ Raises
  BY <1>3, RunCallKeeps, SeesCancelKeeps, NextPartKeeps, PromptStoppedKeeps, RaisesKeeps
<1>4. CASE AskToken \/ TokenComputed \/ AfterPut \/ LoopEnds \/ Farewell \/ Release \/ Finish
  BY <1>4, AskTokenKeeps, TokenComputedKeeps, AfterPutKeeps, NextPartKeeps, FarewellKeeps,
     ReleaseKeeps, FinishKeeps
<1>5. CASE UNCHANGED vars
  BY <1>5, SameQueue
     DEF vars, IInv, TypeOK, CancelHeard, LockHeldByTask, ResultsInOrder, WorkerFacts,
         TasksOnce, OutcomeFacts, EntryFacts, StreamFacts, DoneFacts
<1> QED BY <1>1, <1>2, <1>3, <1>4, <1>5 DEF Next, Executor

\* A step keeps what is known of generators that were started or were not.
LEMMA StartedKeeps ==
  ASSUME IInv, StartedFacts, [Next]_vars
  PROVE  StartedFacts'
<1> USE DEF IInv, StartedFacts, CallerMoves, KitUnchanged, OthersUnchanged, WorkUnchanged, Goes,
        Ends
<1>0. queue' = queue => \A x : Queued(x)' <=> Queued(x)
  BY SameQueue
<1>1. ASSUME NEW r \in Req,
             \/ Make(r) \/ CallNext(r) \/ Leave(r) \/ Close(r) \/ WantNoMore(r) \/ StopLooksUp(r)
      PROVE  StartedFacts'
  <2>1. CASE Make(r)
    BY <1>0, <2>1 DEF Make, TypeOK, OutcomeFacts
  <2>2. CASE CallNext(r)
    BY <1>0, <2>2 DEF CallNext, TypeOK
  <2>3. CASE Leave(r)
    BY <1>0, <2>3 DEF Leave, TypeOK
  <2>4. CASE Close(r)
    BY <1>0, <2>4 DEF Close, TypeOK, EntryFacts
  <2>5. CASE WantNoMore(r) \/ StopLooksUp(r)
    BY <1>0, <2>5 DEF WantNoMore, StopLooksUp
  <2> QED BY <1>1, <2>1, <2>2, <2>3, <2>4, <2>5
<1>2. ASSUME NEW r \in Req, Start(r)
      PROVE  StartedFacts'
  <2>1. CASE pool = "open"
    <3>1. ~Queued(r)
      BY <1>2 DEF Start, TasksOnce
    <3>2. \A x : Queued(x)' <=> Queued(x) \/ x = r
      BY <1>2, <2>1, <3>1, QueueGrows DEF Start
    <3> QED BY <1>2, <2>1, <3>2 DEF Start, TypeOK
  <2>2. CASE pool # "open"
    BY <1>0, <1>2, <2>2 DEF Start, TypeOK
  <2> QED BY <2>1, <2>2
<1>3. ASSUME NEW r \in Req, Take(r)
      PROVE  StartedFacts'
  BY <1>0, <1>3 DEF Take, TypeOK, AfterItem
<1>4. ASSUME NEW r \in Req, CloseSets(r)
      PROVE  StartedFacts'
  <2>1. Own(r) # Nobody
    BY KitAssumption DEF Own, Events
  <2> QED BY <1>0, <1>4, <2>1 DEF CloseSets, TypeOK
<1>5. ASSUME NEW r \in Req, ClosePops(r)
      PROVE  StartedFacts'
  BY <1>0, <1>5 DEF ClosePops, CloseEntry, TypeOK
<1>6. ASSUME NEW r \in Req, TakeTask(r)
      PROVE  StartedFacts'
  <2>1. \A x : Queued(x) /\ x # r => Queued(x)'
    BY <1>6, QueueShrinks DEF TakeTask
  <2>2. r \in started
    BY <1>6, QueueShrinks DEF TakeTask, TasksOnce
  <2>3. \A q \in Req : q # r => pending'[q] = pending[q]
    BY <1>6 DEF TakeTask, TypeOK
  <2>4. worker = Nobody /\ worker' = r
    BY <1>6 DEF TakeTask
  <2>5. Nobody \notin Req
    BY KitAssumption
  <2> QED BY <1>6, <2>1, <2>2, <2>3, <2>4, <2>5 DEF TakeTask
<1>7. CASE StopSets \/ SetShutdown \/ ShutExecutor \/ ShutdownReturns
  BY <1>0, <1>7 DEF StopSets, SetShutdown, ShutExecutor, ShutdownReturns
<1>8. CASE CallKit
  <2>1. CASE pool = "open"
    <3>1. \A x : Queued(x) => Queued(x)'
      BY <1>8, <2>1, QueueGrows, KitAssumption DEF CallKit
    <3> QED BY <1>8, <2>1, <3>1 DEF CallKit
  <2>2. CASE pool # "open"
    BY <1>0, <1>8, <2>2 DEF CallKit
  <2> QED BY <2>1, <2>2
<1>9. CASE RunCall
  <2>1. \A x \in Req : Queued(x) => Queued(x)'
    BY <1>9, QueueShrinks, KitAssumption DEF RunCall
  <2> QED BY <1>9, <2>1 DEF RunCall
<1>10. CASE SeesCancel \/ PromptStopped \/ Raises \/ AfterPut \/ Farewell
  <2>1. \A q \in Req : outcome[q] # "none" => outcome'[q] # "none"
    BY <1>10 DEF SeesCancel, PromptStopped, Raises, AfterPut, Farewell, TypeOK
  <2> QED BY <1>0, <1>10, <2>1 DEF SeesCancel, PromptStopped, Raises, AfterPut, Farewell, Emits
<1>11. CASE AcquireLock \/ StartPrompt \/ PromptDone \/ AskToken \/ LoopEnds
  BY <1>0, <1>11 DEF AcquireLock, StartPrompt, PromptDone, AskToken, LoopEnds
<1>12. CASE TokenComputed
  <2>1. \A q \in Req : outcome[q] # "none" => outcome'[q] # "none"
    BY <1>12 DEF TokenComputed, TypeOK
  <2> QED BY <1>0, <1>12, <2>1 DEF TokenComputed
<1>13. CASE Release
  <2>1. worker # Nobody /\ worker \in started
    BY <1>13 DEF Release, WorkerFacts
  <2>2. \A q \in Req : q # worker => pending'[q] = pending[q]
    BY <1>13 DEF Release, TypeOK
  <2> QED BY <1>0, <1>13, <2>1, <2>2 DEF Release
<1>14. CASE Finish
  <2>1. \A q \in Req : worker = q => outcome[q] # "none"
    BY <1>14 DEF Finish, OutcomeFacts
  <2> QED BY <1>0, <1>14, <2>1 DEF Finish
<1>15. CASE UNCHANGED vars
  BY <1>0, <1>15 DEF vars
<1> QED BY <1>1, <1>2, <1>3, <1>4, <1>5, <1>6, <1>7, <1>8, <1>9, <1>10, <1>11, <1>12, <1>13,
           <1>14, <1>15 DEF Next, Executor

\* Whatever raises, is cancelled, closed or shut down: a cancel is heard by
\* the task it is for, the lock belongs to the task that runs, the results of
\* a generator end as its caller expects, and an id is held exactly while its
\* generator may still run, waits or runs; only the id of a generator that a
\* shut executor refused stays.
THEOREM SequentialNothingLeaks == Spec => []NothingLeaks
<1>1. Spec => []IInv
  BY InitKeeps, StepKeeps, PTL DEF Spec
<1>2. Init => StartedFacts
  BY DEF Init, StartedFacts
<1>3. IInv /\ StartedFacts /\ [Next]_vars => StartedFacts'
  BY StartedKeeps
<1>4. IInv /\ StartedFacts => NothingLeaks
  BY LiveEntries
<1> QED BY <1>1, <1>2, <1>3, <1>4, PTL DEF Spec

-----------------------------------------------------------------------------
(* The kit implements the abstract service.                                *)

StatusNow == [r \in Req |-> Status(r)]
AskedNow == closed \cup unwanted \cup {r \in Req : Own(r) \in cancelled}

\* The abstract service counts with the same operator.
LEMMA SameCount == \A S : Service!Cardinality(S) = Cardinality(S)
BY DEF Service!Cardinality, Cardinality

\* A step that leaves alone where tasks are and how they ended does not move
\* the abstract requests.
LEMMA SameStatus ==
  ASSUME \A x \in Req : Queued(x)' <=> Queued(x), UNCHANGED <<worker, outcome>>
  PROVE  StatusNow' = StatusNow
BY DEF StatusNow, Status

\* A step that leaves what the service sees alone is a stutter of the service.
LEMMA Stutters ==
  ASSUME \A x \in Req : Queued(x)' <=> Queued(x), UNCHANGED <<worker, outcome>>,
         UNCHANGED <<closed, unwanted, cancelled, down>>
  PROVE  [Service!Next]_(Service!svars)
<1>1. StatusNow' = StatusNow /\ AskedNow' = AskedNow
  BY SameStatus DEF AskedNow
<1> QED BY <1>1 DEF Service!svars, StatusNow, AskedNow

\* Somebody asks for one request to be cancelled.
LEMMA Asks ==
  ASSUME NEW r \in Req, AskedNow' = AskedNow \cup {r},
         queue' = queue, UNCHANGED <<worker, outcome, down>>
  PROVE  [Service!Next]_(Service!svars)
<1>1. StatusNow' = StatusNow
  BY SameStatus, SameQueue
<1>2. Service!Ask(r)
  BY <1>1 DEF Service!Ask, StatusNow, AskedNow
<1> QED BY <1>2 DEF Service!Next

\* One request moves.
LEMMA Moves ==
  ASSUME NEW r \in Req, NEW to, StatusNow' = [StatusNow EXCEPT ![r] = to],
         AskedNow' = AskedNow, down' = down,
         \/ StatusNow[r] = "new" /\ to = "accepted"
         \/ StatusNow[r] = "running" /\ to = "completed"
         \/ StatusNow[r] = "running" /\ to = "cancelled" /\ r \in AskedNow
  PROVE  [Service!Next]_(Service!svars)
<1>1. CASE StatusNow[r] = "new" /\ to = "accepted"
  BY <1>1 DEF Service!Next, Service!Accept, Service!Move, StatusNow, AskedNow
<1>2. CASE StatusNow[r] = "running" /\ to = "completed"
  BY <1>2 DEF Service!Next, Service!Complete, Service!Move, StatusNow, AskedNow
<1>3. CASE StatusNow[r] = "running" /\ to = "cancelled" /\ r \in AskedNow
  BY <1>3 DEF Service!Next, Service!Cancel, Service!Move, StatusNow, AskedNow
<1> QED BY <1>1, <1>2, <1>3

\* The one request that runs fails, or is cancelled while the kit closes.
LEMMA Stopped ==
  ASSUME NEW r \in Req, NEW to \in {"cancelled", "failed"},
         StatusNow' = [StatusNow EXCEPT ![r] = to], AskedNow' = AskedNow, down' = down,
         StatusNow[r] = "running", to = "failed" \/ down
  PROVE  [Service!Next]_(Service!svars)
<1>1. {r} \in SUBSET Service!Unanswered
  BY DEF Service!Unanswered, StatusNow
<1>2. StatusNow' = [q \in Req |-> IF q \in {r} THEN to ELSE StatusNow[q]]
  BY DEF StatusNow
<1>3. Service!Stop(to)
  BY <1>1, <1>2 DEF Service!Stop, StatusNow, AskedNow
<1> QED BY <1>3 DEF Service!Next

\* The task that runs decides its outcome.
LEMMA OutcomeDecided ==
  ASSUME IInv, worker \in Req, step \notin {"releasing", "failing", "ending"},
         NEW how \in {"completed", "cancelled", "failed"}, Ends(how),
         UNCHANGED <<queue, worker, cancelled, closed, unwanted, down>>,
         how = "cancelled" => Cancelled \/ worker \in unwanted \/ worker \in closed
  PROVE  [Service!Next]_(Service!svars)
<1>1. outcome[worker] = "none" /\ event = Own(worker)
  BY KitAssumption DEF IInv, OutcomeFacts, WorkerFacts
<1>2. /\ outcome'[worker] = how
      /\ \A q \in Req : q # worker => outcome'[q] = outcome[q]
  BY DEF Ends, IInv, TypeOK
<1>3. StatusNow[worker] = "running"
  BY <1>1 DEF StatusNow, Status
<1>4. StatusNow' = [StatusNow EXCEPT ![worker] = how]
  <2>1. \A q \in Req : Queued(q)' <=> Queued(q)
    BY SameQueue
  <2>2. \A q \in Req : Status(q)' = IF q = worker THEN how ELSE Status(q)
    BY <1>2, <2>1 DEF Status, Queued
  <2> QED BY <2>2 DEF StatusNow
<1>5. AskedNow' = AskedNow
  BY DEF AskedNow
<1>6. how = "cancelled" => worker \in AskedNow \/ down
  BY <1>1 DEF AskedNow, Cancelled
<1>7. CASE how = "completed"
  BY <1>3, <1>4, <1>5, <1>7, Moves
<1>8. CASE how = "failed" \/ down
  <2>1. CASE how = "completed"
    BY <1>7, <2>1
  <2>2. CASE how # "completed"
    BY <1>3, <1>4, <1>5, <1>8, <2>2, Stopped
  <2> QED BY <2>1, <2>2
<1>9. CASE how = "cancelled" /\ ~down
  BY <1>3, <1>4, <1>5, <1>6, <1>9, Moves
<1> QED BY <1>7, <1>8, <1>9

\* Callers and other threads.
LEMMA CallerServes ==
  ASSUME IInv, NEW r \in Req,
         \/ Make(r) \/ Start(r) \/ CallNext(r) \/ Take(r) \/ Leave(r) \/ Close(r)
         \/ CloseSets(r) \/ ClosePops(r) \/ WantNoMore(r) \/ StopLooksUp(r)
  PROVE  [Service!Next]_(Service!svars)
<1> USE DEF KitUnchanged, CallerMoves, OthersUnchanged
<1>0. queue' = queue => \A x \in Req : Queued(x)' <=> Queued(x)
  BY SameQueue
<1>1. CASE Make(r) \/ CallNext(r) \/ Take(r) \/ Leave(r) \/ ClosePops(r) \/ StopLooksUp(r)
  BY <1>0, <1>1, Stutters DEF Make, CallNext, Take, Leave, ClosePops, StopLooksUp
<1>2. CASE Start(r)
  <2>1. /\ r \notin started /\ ~Queued(r) /\ worker # r /\ outcome[r] = "none"
    BY <1>2, KitAssumption DEF Start, IInv, TasksOnce, OutcomeFacts, WorkerFacts
  <2>2. CASE pool = "open"
    <3>1. \A x : Queued(x)' <=> Queued(x) \/ x = r
      BY <1>2, <2>1, <2>2, QueueGrows DEF Start, IInv
    <3>2. \A q \in Req : Status(q)' = IF q = r THEN "accepted" ELSE Status(q)
      BY <1>2, <2>1, <3>1 DEF Start, Status, Queued
    <3>5. StatusNow' = [StatusNow EXCEPT ![r] = "accepted"]
      BY <3>2 DEF StatusNow
    <3>6. Status(r) = "new"
      BY <2>1 DEF Status, Queued
    <3>3. StatusNow' = [StatusNow EXCEPT ![r] = "accepted"] /\ StatusNow[r] = "new"
      BY <3>5, <3>6 DEF StatusNow
    <3>4. AskedNow' = AskedNow /\ down' = down
      BY <1>2 DEF AskedNow, Start
    <3> QED BY <3>3, <3>4, Moves
  <2>3. CASE pool # "open"
    BY <1>0, <1>2, <2>3, Stutters DEF Start
  <2> QED BY <2>2, <2>3
<1>3. CASE Close(r)
  <2>1. AskedNow' = AskedNow \cup {r}
    BY <1>3 DEF AskedNow, Close
  <2> QED BY <1>3, <2>1, Asks DEF Close
<1>4. CASE WantNoMore(r)
  <2>1. AskedNow' = AskedNow \cup {r}
    BY <1>4 DEF AskedNow, WantNoMore
  <2> QED BY <1>4, <2>1, Asks DEF WantNoMore
<1>5. CASE CloseSets(r)
  <2>1. CASE pending[r] # Nobody
    <3>1. pending[r] = Own(r)
      BY <2>1 DEF IInv, EntryFacts
    <3>2. AskedNow' = AskedNow \cup {r}
      BY <1>5, <2>1, <3>1 DEF AskedNow, CloseSets, Own
    <3> QED BY <1>5, <3>2, Asks DEF CloseSets
  <2>2. CASE pending[r] = Nobody
    BY <1>0, <1>5, <2>2, Stutters DEF CloseSets
  <2> QED BY <2>1, <2>2
<1> QED BY <1>1, <1>2, <1>3, <1>4, <1>5

\* The steps of other threads are steps of the service, or stutters.
LEMMA OthersServe ==
  ASSUME IInv, StopSets \/ CallKit \/ SetShutdown \/ ShutExecutor \/ ShutdownReturns
  PROVE  [Service!Next]_(Service!svars)
<1> USE DEF OthersUnchanged
<1>0. queue' = queue => \A x \in Req : Queued(x)' <=> Queued(x)
  BY SameQueue
<1>1. CASE StopSets
  <2>1. CASE pending[stopper] # Nobody
    <3>1. stopper \in Req /\ pending[stopper] = Own(stopper)
      BY <1>1, <2>1 DEF StopSets, IInv, EntryFacts
    <3>2. AskedNow' = AskedNow \cup {stopper}
      BY <1>1, <2>1, <3>1 DEF AskedNow, StopSets, Own
    <3> QED BY <1>1, <3>1, <3>2, Asks DEF StopSets
  <2>2. CASE pending[stopper] = Nobody
    BY <1>0, <1>1, <2>2, Stutters DEF StopSets
  <2> QED BY <2>1, <2>2
<1>2. CASE CallKit
  <2>1. CASE pool = "open"
    <3>1. Call \in Req \cup {Call} /\ Call \notin Req
      BY KitAssumption
    <3>2. \A x \in Req : Queued(x)' <=> Queued(x)
      BY <1>2, <2>1, <3>1, QueueGrows DEF CallKit, IInv
    <3> QED BY <1>2, <3>2, Stutters DEF CallKit
  <2>2. CASE pool # "open"
    BY <1>0, <1>2, <2>2, Stutters DEF CallKit
  <2> QED BY <2>1, <2>2
<1>3. CASE SetShutdown
  <2>1. StatusNow' = StatusNow /\ AskedNow' = AskedNow
    BY <1>0, <1>3, SameStatus DEF SetShutdown, AskedNow
  <2>2. Service!Close
    BY <1>3, <2>1 DEF SetShutdown, Service!Close, StatusNow, AskedNow
  <2> QED BY <2>2 DEF Service!Next
<1>4. CASE ShutExecutor \/ ShutdownReturns
  BY <1>0, <1>4, Stutters DEF ShutExecutor, ShutdownReturns
<1> QED BY <1>1, <1>2, <1>3, <1>4

\* The executor's thread: a task starts while no other runs, and decides its
\* outcome once.
LEMMA TakeTaskServes ==
  ASSUME IInv, NEW r \in Req, TakeTask(r)
  PROVE  [Service!Next]_(Service!svars)
<1>1. /\ Queued(r) /\ ~Queued(r)'
      /\ \A q \in Req : q # r => (Queued(q)' <=> Queued(q))
  BY QueueShrinks DEF TakeTask, IInv
<1>2. outcome[r] = "none" /\ worker = Nobody /\ Nobody \notin Req
  BY <1>1, KitAssumption DEF IInv, TasksOnce, TakeTask
<1>3. \A q \in Req : Status(q)' = IF q = r THEN "running" ELSE Status(q)
  BY <1>1, <1>2 DEF TakeTask, WorkUnchanged, Status, Queued
<1>4. StatusNow' = [StatusNow EXCEPT ![r] = "running"] /\ StatusNow[r] = "accepted"
  <2>1. StatusNow' = [StatusNow EXCEPT ![r] = "running"]
    BY <1>3 DEF StatusNow
  <2>2. Status(r) = "accepted"
    BY <1>1, <1>2 DEF Status, Queued
  <2> QED BY <2>1, <2>2 DEF StatusNow
<1>5. Cardinality(Service!Running) < 1
  <2>1. \A q \in Req : Status(q) # "running"
    BY <1>2 DEF Status, IInv, TypeOK
  <2>2. Service!Running = {}
    BY <2>1 DEF Service!Running
  <2> QED BY <2>2, FS_EmptySet
<1>6. AskedNow' = AskedNow /\ down' = down
  BY DEF AskedNow, TakeTask, WorkUnchanged
<1>7. Service!Start(r)
  <2>1. Service!Move(r, {"accepted"}, "running")
    BY <1>4, <1>6 DEF Service!Move, StatusNow, AskedNow
  <2> QED BY <1>5, <2>1, SameCount DEF Service!Start
<1> QED BY <1>7 DEF Service!Next

\* The steps of the executor are steps of the service, or stutters.
LEMMA ExecutorServes ==
  ASSUME IInv, Executor
  PROVE  [Service!Next]_(Service!svars)
<1> USE DEF WorkUnchanged
<1>0. queue' = queue => \A x \in Req : Queued(x)' <=> Queued(x)
  BY SameQueue
<1>a. step # "idle" => worker \in Req
  BY DEF IInv, WorkerFacts
<1>1. CASE RunCall
  <2>1. \A x \in Req : Queued(x)' <=> Queued(x)
    BY <1>1, KitAssumption, QueueShrinks DEF RunCall, IInv
  <2> QED BY <1>1, <2>1, Stutters DEF RunCall
<1>2. ASSUME NEW r \in Req, TakeTask(r) PROVE [Service!Next]_(Service!svars)
  BY <1>2, TakeTaskServes
<1>3. CASE AcquireLock \/ StartPrompt \/ PromptDone \/ AskToken \/ LoopEnds
  BY <1>0, <1>3, Stutters DEF AcquireLock, StartPrompt, PromptDone, AskToken, LoopEnds, Goes
<1>4. CASE Release
  BY <1>0, <1>4, Stutters DEF Release
<1>5. CASE Finish
  <2>1. worker \in Req /\ outcome[worker] # "none"
    BY <1>5, <1>a DEF Finish, IInv, OutcomeFacts
  <2>2. \A q \in Req : Status(q)' = Status(q)
    BY <1>0, <1>5, <2>1, KitAssumption DEF Finish, Status, Queued
  <2>3. StatusNow' = StatusNow /\ AskedNow' = AskedNow /\ down' = down
    BY <1>5, <2>2 DEF StatusNow, AskedNow, Finish
  <2> QED BY <2>3 DEF Service!svars, StatusNow, AskedNow
<1>6. CASE SeesCancel
  BY <1>6, <1>a, OutcomeDecided DEF SeesCancel, Emits, Goes
<1>7. CASE PromptStopped
  BY <1>7, <1>a, OutcomeDecided DEF PromptStopped, Emits, Goes
<1>8. CASE Raises
  BY <1>8, <1>a, OutcomeDecided DEF Raises, Goes
<1>9. CASE TokenComputed
  <2>1. CASE outcome' = outcome
    BY <1>0, <1>9, <2>1, Stutters DEF TokenComputed
  <2>2. CASE outcome' # outcome
    BY <1>9, <1>a, <2>2, OutcomeDecided DEF TokenComputed
  <2> QED BY <2>1, <2>2
<1>10. CASE AfterPut
  <2>1. CASE worker \in closed
    BY <1>10, <1>a, <2>1, OutcomeDecided DEF AfterPut, Goes
  <2>2. CASE worker \notin closed
    BY <1>0, <1>10, <2>2, Stutters DEF AfterPut, Goes
  <2> QED BY <2>1, <2>2
<1>11. CASE Farewell
  BY <1>11, <1>a, OutcomeDecided DEF Farewell, Emits, Goes
<1> QED BY <1>1, <1>2, <1>3, <1>4, <1>5, <1>6, <1>7, <1>8, <1>9, <1>10, <1>11 DEF Executor

\* The sequential kit is a request service with a limit of one: outcomes are
\* final, one request runs at a time, and only who was asked for is cancelled.
THEOREM SequentialImplementsService == Spec => ImplementsService
<1>1. Init => Service!Init
  <2> SUFFICES ASSUME Init PROVE Service!Init
    OBVIOUS
  <2>1. \A r \in Req : Status(r) = "new"
    BY KitAssumption, EmptySeq DEF Init, Status, Queued
  <2>2. closed \cup unwanted \cup {r \in Req : Own(r) \in cancelled} = {} /\ ~down
    BY DEF Init
  <2> QED BY <2>1, <2>2 DEF Service!Init
<1>2. IInv /\ [Next]_vars => [Service!Next]_(Service!svars)
  <2> SUFFICES ASSUME IInv, [Next]_vars PROVE [Service!Next]_(Service!svars)
    OBVIOUS
  <2>1. CASE UNCHANGED vars
    BY <2>1, SameQueue, Stutters DEF vars
  <2>2. CASE Next
    BY <2>2, CallerServes, OthersServe, ExecutorServes DEF Next
  <2> QED BY <2>1, <2>2
<1>3. Spec => []IInv
  BY InitKeeps, StepKeeps, PTL DEF Spec
<1> QED BY <1>1, <1>2, <1>3, PTL DEF Spec, ImplementsService, Service!Spec

-----------------------------------------------------------------------------
(* The prompt cache of the kit: CacheWrapper.                              *)

\* What is looked for among natural numbers and is there, is there first
\* and, if it is bounded, last.
LEMMA Least ==
  ASSUME NEW S, S \subseteq Nat, S # {}
  PROVE  \E x \in S : \A y \in S : x <= y
<1>1. PICK x \in S : \A y \in S : ~ (<<y, x>> \in OpToRel(<, Nat))
  BY NatLessThanWellFounded, WFMin
<1>2. \A y \in S : ~ (y < x)
  BY <1>1 DEF OpToRel
<1> QED BY <1>2

\* A set of numbers up to a bound that is not empty has a greatest member.
LEMMA Greatest ==
  ASSUME NEW S, NEW n \in Nat, S \subseteq 0..n, S # {}
  PROVE  \E x \in S : \A y \in S : y <= x
<1> DEFINE T == {n - x : x \in S}
<1>1. T \subseteq Nat /\ T # {}
  <2>1. \A x \in S : n - x \in Nat
    OBVIOUS
  <2> QED BY <2>1
<1> HIDE DEF T
<1>2. PICK t \in T : \A u \in T : t <= u
  BY <1>1, Least
<1>3. PICK x \in S : t = n - x
  BY <1>2 DEF T
<1>4. \A y \in S : n - x <= n - y
  BY <1>2, <1>3 DEF T
<1>5. \A y \in S : y <= x
  <2> TAKE y \in S
  <2> n - x <= n - y /\ x \in Int /\ y \in Int
    BY <1>4
  <2> QED OBVIOUS
<1> QED BY <1>5

-----------------------------------------------------------------------------
(* First tokens of a sequence.                                             *)

\* The first n tokens of a sequence, one by one.
LEMMA FirstIs ==
  ASSUME NEW T, NEW s \in Seq(T), NEW n \in 0..Len(s)
  PROVE  /\ First(s, n) \in Seq(T) /\ Len(First(s, n)) = n
         /\ \A i \in 1..n : First(s, n)[i] = s[i]
<1>1. \A i \in 1..n : s[i] \in T
  OBVIOUS
<1> QED BY <1>1 DEF First

\* A part of a sequence, token by token.
LEMMA PartIs ==
  ASSUME NEW T, NEW s \in Seq(T), NEW m \in 0..Len(s), NEW n \in m..Len(s)
  PROVE  /\ SubSeq(s, m + 1, n) \in Seq(T) /\ Len(SubSeq(s, m + 1, n)) = n - m
         /\ \A i \in 1..n - m : SubSeq(s, m + 1, n)[i] = s[m + i]
<1>1. \A i \in (m + 1)..n : s[i] \in T
  OBVIOUS
<1>2. SubSeq(s, m + 1, n) \in Seq(T)
  BY <1>1
<1>3. Len(SubSeq(s, m + 1, n)) = n - m
  BY <1>1
<1>4. ASSUME NEW i \in 1..n - m PROVE SubSeq(s, m + 1, n)[i] = s[m + i]
  BY <1>1
<1> QED BY <1>2, <1>3, <1>4

\* Two sequences of the same length and the same elements are the same.
LEMMA SameSeq ==
  ASSUME NEW T, NEW s \in Seq(T), NEW t \in Seq(T), Len(s) = Len(t),
         \A i \in 1..Len(s) : s[i] = t[i]
  PROVE  s = t
  OBVIOUS

\* All of the tokens, and none of them, as first tokens.
LEMMA FirstAll ==
  ASSUME NEW T, NEW s \in Seq(T)
  PROVE  First(s, Len(s)) = s /\ First(s, 0) = <<>>
<1>1. First(s, Len(s)) = s
  BY FirstIs, SameSeq, Len(s) \in 0..Len(s)
<1>2. Len(First(s, 0)) = 0 /\ First(s, 0) \in Seq(T)
  BY FirstIs, 0 \in 0..Len(s)
<1> QED BY <1>1, <1>2

\* The first tokens of the first tokens.
LEMMA FirstOfFirst ==
  ASSUME NEW T, NEW s \in Seq(T), NEW m \in 0..Len(s), NEW n \in 0..m
  PROVE  First(First(s, m), n) = First(s, n)
<1>1. PICK t \in Seq(T) : t = First(s, m)
  BY FirstIs
<1>2. Len(t) = m /\ \A i \in 1..m : t[i] = s[i]
  BY <1>1, FirstIs
<1>3. First(t, n) \in Seq(T) /\ Len(First(t, n)) = n /\ \A i \in 1..n : First(t, n)[i] = t[i]
  BY <1>2, FirstIs
<1>4. n \in 0..Len(s)
  OBVIOUS
<1>5. First(s, n) \in Seq(T) /\ Len(First(s, n)) = n /\ \A i \in 1..n : First(s, n)[i] = s[i]
  BY <1>4, FirstIs
<1>6. First(t, n) = First(s, n)
  BY <1>2, <1>3, <1>5, SameSeq
<1> QED BY <1>1, <1>6

\* The sequence without its last token is its first tokens.
LEMMA FrontIsFirst ==
  ASSUME NEW T, NEW s \in Seq(T), Len(s) > 0
  PROVE  Front(s) = First(s, Len(s) - 1) /\ Front(s) \in Seq(T) /\ Len(Front(s)) = Len(s) - 1
<1>1. Front(s) = First(s, Len(s) - 1) /\ Len(s) - 1 \in 0..Len(s)
  BY DEF Front, First
<1> QED BY <1>1, FirstIs

\* The first tokens, and the next of them.
LEMMA FirstGrows ==
  ASSUME NEW T, NEW s \in Seq(T), NEW m \in 0..Len(s), NEW n \in m..Len(s)
  PROVE  First(s, m) \o SubSeq(s, m + 1, n) = First(s, n)
<1>1. PICK a \in Seq(T) : a = First(s, m)
  BY FirstIs
<1>2. PICK b \in Seq(T) : b = SubSeq(s, m + 1, n)
  BY PartIs
<1>3. Len(a) = m /\ \A i \in 1..m : a[i] = s[i]
  BY <1>1, FirstIs
<1>4. Len(b) = n - m /\ \A i \in 1..n - m : b[i] = s[m + i]
  BY <1>2, PartIs
<1>5. n \in 0..Len(s)
  OBVIOUS
<1>6. First(s, n) \in Seq(T) /\ Len(First(s, n)) = n /\ \A i \in 1..n : First(s, n)[i] = s[i]
  BY <1>5, FirstIs
<1>7. a \o b \in Seq(T) /\ Len(a \o b) = Len(a) + Len(b)
  OBVIOUS
<1>8. Len(a \o b) = n
  BY <1>3, <1>4, <1>7
<1>9. ASSUME NEW i \in 1..n PROVE (a \o b)[i] = s[i]
  <2>1. CASE i <= m
    <3>1. i \in 1..Len(a) /\ a[i] = s[i]
      BY <2>1, <1>3
    <3>2. (a \o b)[i] = a[i]
      BY <3>1
    <3> QED BY <3>1, <3>2
  <2>2. CASE i > m
    <3>1. PICK j \in 1..n - m : i = m + j
      BY <2>2, i - m \in 1..n - m
    <3>2. b[j] = s[m + j]
      BY <3>1, <1>4
    <3>3. j \in 1..Len(b) /\ i = Len(a) + j
      BY <3>1, <1>3, <1>4
    <3>4. (a \o b)[Len(a) + j] = b[j]
      BY <3>3
    <3>5. (a \o b)[i] = b[j]
      BY <3>3, <3>4
    <3> QED BY <3>1, <3>2, <3>5
  <2>3. i <= m \/ i > m
    OBVIOUS
  <2> QED BY <2>1, <2>2, <2>3
<1>10. a \o b = First(s, n)
  BY <1>6, <1>7, <1>8, <1>9, SameSeq
<1> QED BY <1>1, <1>2, <1>10

\* A part of a part.
LEMMA PartOfPart ==
  ASSUME NEW T, NEW s \in Seq(T), NEW m \in 0..Len(s), NEW n \in m..Len(s),
         NEW k \in 0..n - m, NEW l \in k..n - m
  PROVE  SubSeq(SubSeq(s, m + 1, n), k + 1, l) = SubSeq(s, m + k + 1, m + l)
<1>1. PICK b \in Seq(T) : b = SubSeq(s, m + 1, n)
  BY PartIs
<1>2. Len(b) = n - m /\ \A i \in 1..n - m : b[i] = s[m + i]
  BY <1>1, PartIs
<1>3. k \in 0..Len(b) /\ l \in k..Len(b)
  BY <1>2
<1>4. PICK u \in Seq(T) : u = SubSeq(b, k + 1, l)
  BY <1>3, PartIs
<1>5. Len(u) = l - k /\ \A i \in 1..l - k : u[i] = b[k + i]
  BY <1>3, <1>4, PartIs
<1>6. PICK p \in 0..Len(s) : p = m + k
  OBVIOUS
<1>7. PICK q \in p..Len(s) : q = m + l
  BY <1>6
<1>8. PICK v \in Seq(T) : v = SubSeq(s, p + 1, q)
  BY PartIs
<1>9. Len(v) = q - p /\ \A i \in 1..q - p : v[i] = s[p + i]
  BY <1>8, PartIs
<1>10. q - p = l - k
  BY <1>6, <1>7
<1>11. ASSUME NEW i \in 1..l - k PROVE u[i] = v[i]
  <2>1. k + i \in 1..n - m /\ m + (k + i) = p + i
    BY <1>6
  <2>2. b[k + i] = s[m + (k + i)]
    BY <1>2, <2>1
  <2>3. u[i] = b[k + i]
    BY <1>5
  <2>4. v[i] = s[p + i]
    BY <1>9, <1>10
  <2> QED BY <2>1, <2>2, <2>3, <2>4
<1>12. u = v
  BY <1>5, <1>9, <1>10, <1>11, SameSeq
<1>13. v = SubSeq(s, m + k + 1, m + l)
  BY <1>6, <1>7, <1>8
<1> QED BY <1>1, <1>4, <1>12, <1>13

-----------------------------------------------------------------------------
(* The caches that snapshots hold and a lookup returns.                    *)

Parts == DraftModels \cup {NoDraft}
Snapshots ==
  [tokens : Seq(Tokens), main : Seq(Tokens), second : Seq(Tokens), pair : Parts, failed : BOOLEAN]

\* A snapshot holds the cache of its tokens, in every layer if no call was left
\* half way, and a part for the draft model that is set.
IsTrue(x) == x.main = x.tokens /\ x.pair = drafted /\ (~x.failed => x.second = x.main)

\* c holds the cache of the first tokens of p.
RestoresPart(c, p) ==
  /\ c.length \in 0..Len(p) /\ c.main = First(p, c.length)
  /\ c.second \in Seq(Tokens) /\ c.failed \in BOOLEAN
  /\ c.pair = drafted /\ (~c.failed => c.second = c.main)

\* Two sequences share their first CommonLength tokens.
LEMMA CommonLengthIs ==
  ASSUME NEW T, NEW s \in Seq(T), NEW t \in Seq(T)
  PROVE  /\ CommonLength(s, t) \in 0..Len(s) /\ CommonLength(s, t) <= Len(t)
         /\ First(s, CommonLength(s, t)) = First(t, CommonLength(s, t))
<1> DEFINE Diff == {n \in Nat : n = Len(s) \/ n = Len(t) \/ s[n + 1] # t[n + 1]}
<1>1. Diff \subseteq Nat /\ Diff # {}
  <2>1. Len(s) \in Diff
    OBVIOUS
  <2> QED BY <2>1
<1>2. PICK n \in Diff : \A k \in Diff : n <= k
  <2> HIDE DEF Diff
  <2> QED BY <1>1, Least
<1>3. n \in Nat /\ n <= Len(s) /\ n <= Len(t)
  <2>1. Len(s) \in Diff /\ Len(t) \in Diff /\ n \in Nat
    OBVIOUS
  <2> HIDE DEF Diff
  <2> QED BY <1>2, <2>1
<1>4. ASSUME NEW i \in 1..n PROVE s[i] = t[i]
  <2>1. i - 1 \in Nat /\ i - 1 < n
    BY <1>3
  <2>2. i - 1 \notin Diff
    <3>1. ASSUME i - 1 \in Diff PROVE n <= i - 1
      BY <1>2, <3>1
    <3> QED BY <2>1, <1>3, <3>1
  <2>3. s[(i - 1) + 1] = t[(i - 1) + 1]
    BY <2>1, <2>2
  <2>4. (i - 1) + 1 = i
    OBVIOUS
  <2> QED BY <2>3, <2>4
<1>5. n = Len(s) \/ n = Len(t) \/ s[n + 1] # t[n + 1]
  OBVIOUS
<1> HIDE DEF Diff
<1>6. First(s, n) = First(t, n)
  <2> n \in 0..Len(s) /\ n \in 0..Len(t)
    BY <1>3
  <2>1. PICK u \in Seq(T) : u = First(s, n) /\ Len(u) = n /\ \A i \in 1..n : u[i] = s[i]
    <3>1. First(s, n) \in Seq(T) /\ Len(First(s, n)) = n /\ \A i \in 1..n : First(s, n)[i] = s[i]
      BY FirstIs
    <3> QED BY <3>1
  <2>2. PICK v \in Seq(T) : v = First(t, n) /\ Len(v) = n /\ \A i \in 1..n : v[i] = t[i]
    <3>1. First(t, n) \in Seq(T) /\ Len(First(t, n)) = n /\ \A i \in 1..n : First(t, n)[i] = t[i]
      BY FirstIs
    <3> QED BY <3>1
  <2>3. u = v
    BY <2>1, <2>2, <1>4, SameSeq
  <2> QED BY <2>1, <2>2, <2>3
<1>7. /\ n \in 0..Len(s) /\ n <= Len(t) /\ First(s, n) = First(t, n)
      /\ n < Len(s) /\ n < Len(t) => s[n + 1] # t[n + 1]
  BY <1>3, <1>5, <1>6
<1> QED BY <1>7 DEF CommonLength

\* What a snapshot can serve is a prefix that it shares with the prompt.
LEMMA ServesIs ==
  ASSUME NEW x \in Snapshots, NEW p \in Seq(Tokens), NEW n, n = Serves(x, p)
  PROVE  n \in 0..Len(x.tokens) /\ n <= Len(p) /\ First(x.tokens, n) = First(p, n)
<1>1. x.tokens \in Seq(Tokens)
  BY DEF Snapshots
<1>2. CASE IsPrefix(x.tokens, p)
  <2>1. n = Len(x.tokens)
    BY <1>2 DEF Serves
  <2> QED BY <1>1, <1>2, <2>1 DEF IsPrefix, First
<1>3. CASE ~IsPrefix(x.tokens, p) /\ model.trimmable
  <2>1. n = CommonLength(x.tokens, p)
    BY <1>3 DEF Serves
  <2> QED BY <1>1, <2>1, CommonLengthIs
<1>4. CASE ~IsPrefix(x.tokens, p) /\ ~model.trimmable
  <2>1. n = 0
    BY <1>4 DEF Serves
  <2>2. First(x.tokens, 0) = <<>> /\ First(p, 0) = <<>>
    BY <1>1, FirstAll
  <2> QED BY <1>1, <2>1, <2>2
<1> QED BY <1>2, <1>3, <1>4

\* A snapshot of the first tokens of a prompt serves them all.
LEMMA PrefixServes ==
  ASSUME NEW x \in Snapshots, NEW p \in Seq(Tokens), NEW k \in 0..Len(p),
         x.tokens = First(p, k)
  PROVE  Serves(x, p) = k
<1>1. Len(x.tokens) = k
  BY FirstIs
<1>2. First(x.tokens, k) = x.tokens
  BY <1>1, FirstAll DEF Snapshots
<1>3. IsPrefix(x.tokens, p)
  BY <1>1, <1>2 DEF IsPrefix, First
<1> QED BY <1>1, <1>3 DEF Serves

\* What trimming leaves.
LEMMA TrimmedIs ==
  ASSUME NEW T, NEW s \in Seq(T), NEW n \in Nat
  PROVE  /\ Trimmed(s, n) \in Seq(T)
         /\ Len(Trimmed(s, n)) = IF n < Len(s) THEN Len(s) - n ELSE 0
<1>1. PICK k \in 0..Len(s) : k = IF n < Len(s) THEN Len(s) - n ELSE 0
  BY Len(s) \in Nat
<1>2. Trimmed(s, n) = First(s, k)
  BY <1>1 DEF Trimmed
<1> QED BY <1>1, <1>2, FirstIs

\* What a lookup returns is the cache of first tokens of the prompt.
LEMMA FetchedIs ==
  ASSUME NEW h \in SUBSET Snapshots, \A x \in h : IsTrue(x),
         NEW p \in Seq(Tokens), NEW c \in Fetched(h, p)
  PROVE  RestoresPart(c, p) /\ c.length > 0
<1>1. PICK x \in Nearest(h, p) :
        c = LET over == Len(x.tokens) - Serves(x, p)
            IN [main |-> Trimmed(x.main, over), second |-> Trimmed(x.second, over), pair |-> x.pair,
                failed |-> x.failed, length |-> Serves(x, p)]
  BY DEF Fetched
<1>2. x \in h /\ x \in Snapshots /\ Serves(x, p) > 0
  BY DEF Nearest
<1>3. PICK n : n = Serves(x, p)
  OBVIOUS
<1>4. n \in 0..Len(x.tokens) /\ n <= Len(p) /\ First(x.tokens, n) = First(p, n) /\ n > 0
  BY <1>2, <1>3, ServesIs
<1>5. x.tokens \in Seq(Tokens) /\ x.second \in Seq(Tokens) /\ x.failed \in BOOLEAN /\ IsTrue(x)
  BY <1>2 DEF Snapshots
<1>6. PICK over \in Nat : over = Len(x.tokens) - n
  <2>1. PICK l \in Nat : l = Len(x.tokens)
    BY <1>5
  <2>2. n \in 0..l /\ l - n \in Nat
    BY <1>4, <2>1
  <2> QED BY <2>1, <2>2
<1>7. /\ c.main = Trimmed(x.main, over) /\ c.second = Trimmed(x.second, over) /\ c.length = n
      /\ c.pair = x.pair /\ c.failed = x.failed
  BY <1>1, <1>3, <1>6
<1>8. x.main = x.tokens /\ x.pair = drafted /\ (~x.failed => x.second = x.main)
  BY <1>5 DEF IsTrue
<1>9. c.main = First(p, n)
  <2>1. over < Len(x.tokens) /\ Len(x.tokens) - over = n
    BY <1>4, <1>5, <1>6
  <2>2. Trimmed(x.tokens, over) = First(x.tokens, n)
    BY <2>1 DEF Trimmed
  <2> QED BY <1>4, <1>7, <1>8, <2>2
<1>10. c.second \in Seq(Tokens)
  BY <1>5, <1>7, TrimmedIs
<1> QED BY <1>4, <1>5, <1>7, <1>8, <1>9, <1>10 DEF RestoresPart

\* A restored part with one token less is still a part of the prompt.
LEMMA LessOneIs ==
  ASSUME NEW p \in Seq(Tokens), NEW c, RestoresPart(c, p), c.length > 0
  PROVE  RestoresPart(LessOne(c), p) /\ LessOne(c).length = c.length - 1
<1>1. PICK n \in 1..Len(p) : n = c.length
  BY DEF RestoresPart
<1>2. /\ c.main = First(p, n) /\ c.second \in Seq(Tokens) /\ c.failed \in BOOLEAN
      /\ c.pair = drafted /\ (~c.failed => c.second = c.main)
  BY <1>1 DEF RestoresPart
<1>3. Len(c.main) = n /\ n \in 0..Len(p) /\ n - 1 \in 0..n
  BY <1>2, FirstIs
<1>4. Trimmed(c.main, 1) = First(p, n - 1)
  <2>1. Trimmed(c.main, 1) = First(c.main, n - 1)
    <3>1. CASE 1 < n
      BY <1>3, <3>1 DEF Trimmed
    <3>2. CASE n = 1
      BY <1>3, <3>2 DEF Trimmed
    <3> QED BY <3>1, <3>2
  <2>2. First(First(p, n), n - 1) = First(p, n - 1)
    BY <1>3, FirstOfFirst
  <2> QED BY <1>2, <2>1, <2>2
<1>5. PICK d \in Seq(Tokens) : d = Trimmed(c.second, 1)
  BY <1>2, TrimmedIs
<1>6. /\ LessOne(c).main = First(p, n - 1) /\ LessOne(c).second = d
      /\ LessOne(c).length = n - 1 /\ LessOne(c).pair = drafted /\ LessOne(c).failed = c.failed
  BY <1>1, <1>2, <1>4, <1>5 DEF LessOne
<1>7. ~c.failed => d = First(p, n - 1)
  BY <1>2, <1>4, <1>5
<1> QED BY <1>1, <1>2, <1>3, <1>6, <1>7 DEF RestoresPart

\* What update_cache() goes on with is the cache of first tokens of the
\* prompt, and leaves at least one to seed decoding.
LEMMA RestoredIs ==
  ASSUME NEW h \in SUBSET Snapshots, \A x \in h : IsTrue(x),
         NEW p \in Seq(Tokens), Len(p) > 0, NEW c \in Restored(h, p)
  PROVE  RestoresPart(c, p) /\ c.length < Len(p)
<1> DEFINE found == Fetched(h, p)
           exact == {e \in found : e.length = Len(p)}
           shorter == Fetched(h, TruncatedPrompt(p))
<1>1. /\ found # {} /\ exact = {} => c \in found
      /\ ~(found # {} /\ exact = {}) /\ exact # {} /\ model.trimmable => c \in {LessOne(e) : e \in exact}
      /\ ~(found # {} /\ exact = {}) /\ ~(exact # {} /\ model.trimmable)
         => c \in shorter \/ c = Miss
  BY DEF Restored, ExactHit
<1>2. CASE found # {} /\ exact = {}
  <2>1. c \in found /\ c.length # Len(p)
    BY <1>1, <1>2
  <2>2. RestoresPart(c, p)
    BY <2>1, FetchedIs
  <2> QED BY <2>1, <2>2 DEF RestoresPart
<1>3. CASE ~(found # {} /\ exact = {}) /\ exact # {} /\ model.trimmable
  <2>1. PICK e \in exact : c = LessOne(e)
    BY <1>1, <1>3
  <2>2. e \in Fetched(h, p) /\ e.length = Len(p)
    OBVIOUS
  <2>3. RestoresPart(e, p)
    BY <2>2, FetchedIs
  <2> HIDE DEF found, exact, shorter
  <2>4. RestoresPart(c, p) /\ c.length = e.length - 1
    BY <2>1, <2>2, <2>3, LessOneIs
  <2> QED BY <2>2, <2>4
<1>4. CASE c \in shorter
  <2>1. PICK q \in Seq(Tokens) : q = TruncatedPrompt(p) /\ q = First(p, Len(p) - 1) /\ Len(q) = Len(p) - 1
    BY FrontIsFirst DEF TruncatedPrompt
  <2>2. c \in Fetched(h, q)
    BY <1>4, <2>1
  <2>3. RestoresPart(c, q)
    BY <2>2, FetchedIs
  <2>4. PICK n \in 0..Len(p) - 1 : n = c.length
    BY <2>1, <2>3 DEF RestoresPart
  <2>5. c.main = First(q, n)
    BY <2>3, <2>4 DEF RestoresPart
  <2>6. Len(p) - 1 \in 0..Len(p)
    OBVIOUS
  <2>7. First(First(p, Len(p) - 1), n) = First(p, n)
    BY <2>4, <2>6, FirstOfFirst
  <2>8. c.main = First(p, n)
    BY <2>1, <2>5, <2>7
  <2> QED BY <2>3, <2>4, <2>8 DEF RestoresPart
<1>5. CASE c = Miss
  <2>1. First(p, 0) = <<>> /\ <<>> \in Seq(Tokens)
    BY FirstAll
  <2> QED BY <1>5, <2>1 DEF Miss, RestoresPart
<1> QED BY <1>1, <1>2, <1>3, <1>4, <1>5

\* A snapshot that serves a prompt makes a lookup return one that serves
\* at least as much.
LEMMA FetchedFar ==
  ASSUME NEW h \in SUBSET Snapshots, NEW p \in Seq(Tokens),
         NEW y \in h, NEW k \in Nat, k > 0, Serves(y, p) = k
  PROVE  Fetched(h, p) # {} /\ \A c \in Fetched(h, p) : c.length >= k
<1> DEFINE Served == {Serves(x, p) : x \in h}
<1>1. Served \subseteq 0..Len(p)
  <2>1. ASSUME NEW x \in h PROVE Serves(x, p) \in 0..Len(p)
    <3>1. x \in Snapshots /\ Len(p) \in Nat
      OBVIOUS
    <3>2. PICK n : n = Serves(x, p)
      OBVIOUS
    <3>3. n \in 0..Len(x.tokens) /\ n <= Len(p)
      BY <3>1, <3>2, ServesIs
    <3> QED BY <3>1, <3>2, <3>3
  <2> QED BY <2>1
<1>2. Serves(y, p) \in Served
  OBVIOUS
<1>3. PICK m \in Served : \A n \in Served : n <= m
  <2>1. Len(p) \in Nat /\ Served # {}
    BY <1>2
  <2> HIDE DEF Served
  <2> QED BY <1>1, <2>1, Greatest
<1>4. PICK x \in h : m = Serves(x, p)
  OBVIOUS
<1>5. m \in Nat /\ m >= k
  <2> HIDE DEF Served
  <2> QED BY <1>1, <1>2, <1>3
<1>6. \A z \in h : Serves(z, p) <= Serves(x, p)
  <2> TAKE z \in h
  <2>1. Serves(z, p) \in Served
    OBVIOUS
  <2> HIDE DEF Served
  <2> QED BY <1>3, <1>4, <2>1
<1>7. x \in Nearest(h, p)
  BY <1>4, <1>5, <1>6 DEF Nearest
<1>8. Fetched(h, p) # {}
  BY <1>7 DEF Fetched
<1>9. ASSUME NEW c \in Fetched(h, p) PROVE c.length >= k
  <2>1. PICK z \in Nearest(h, p) : c.length = Serves(z, p)
    BY DEF Fetched
  <2>2. Serves(y, p) <= Serves(z, p)
    BY DEF Nearest
  <2>3. Serves(z, p) \in Served
    BY DEF Nearest
  <2>4. PICK n \in 0..Len(p) : n = Serves(z, p)
    <3> HIDE DEF Served
    <3> QED BY <1>1, <2>3
  <2> QED BY <2>1, <2>2, <2>4
<1> QED BY <1>8, <1>9

\* A snapshot of the first k tokens of a prompt, but not of all, is
\* restored, or one of more tokens.
LEMMA RestoredFar ==
  ASSUME NEW h \in SUBSET Snapshots, \A x \in h : IsTrue(x),
         NEW p \in Seq(Tokens), NEW k \in 1..Len(p) - 1,
         NEW y \in h, y.tokens = First(p, k),
         NEW c \in Restored(h, p)
  PROVE  c.length >= k
<1> DEFINE found == Fetched(h, p)
           exact == {e \in found : e.length = Len(p)}
           shorter == Fetched(h, TruncatedPrompt(p))
<1>1. Len(p) \in Nat /\ k \in Nat /\ k > 0 /\ Len(p) > 1 /\ k \in 0..Len(p) /\ k <= Len(p) - 1
  OBVIOUS
<1>2. y \in Snapshots
  OBVIOUS
<1>3. Serves(y, p) = k
  BY <1>1, <1>2, PrefixServes
<1>4. found # {} /\ \A e \in found : e.length >= k
  BY <1>1, <1>3, FetchedFar
<1>5. PICK q \in Seq(Tokens) : q = TruncatedPrompt(p) /\ q = First(p, Len(p) - 1) /\ Len(q) = Len(p) - 1
  BY <1>1, FrontIsFirst DEF TruncatedPrompt
<1>6. y.tokens = First(q, k)
  <2>1. Len(p) - 1 \in 0..Len(p) /\ k \in 0..Len(p) - 1
    BY <1>1
  <2>2. First(First(p, Len(p) - 1), k) = First(p, k)
    BY <2>1, FirstOfFirst
  <2> QED BY <1>5, <2>2
<1>7. Serves(y, q) = k
  <2>1. k \in 0..Len(q)
    BY <1>1, <1>5
  <2> QED BY <1>2, <1>6, <2>1, PrefixServes
<1>8. shorter # {} /\ \A e \in shorter : e.length >= k
  BY <1>1, <1>5, <1>7, FetchedFar
<1>9. CASE exact = {}
  <2>1. c \in found
    BY <1>4, <1>9 DEF Restored
  <2> QED BY <1>4, <2>1
<1>10. CASE exact # {} /\ model.trimmable
  <2>1. PICK e \in exact : c = LessOne(e)
    BY <1>10 DEF Restored, ExactHit
  <2>2. e.length = Len(p) /\ c.length = e.length - 1
    BY <2>1 DEF LessOne
  <2> QED BY <1>1, <2>2
<1>11. CASE exact # {} /\ ~model.trimmable
  <2>1. c \in shorter
    BY <1>1, <1>8, <1>11 DEF Restored
  <2> QED BY <1>8, <2>1
<1> QED BY <1>9, <1>10, <1>11

-----------------------------------------------------------------------------
(* What is kept of caches.                                                 *)

\* A history of true snapshots, within its capacity.
Kept(h) ==
  /\ h \in SUBSET Snapshots /\ IsFiniteSet(h) /\ Cardinality(h) <= Capacity
  /\ \A x \in h : IsTrue(x)

\* The insertion of a true snapshot keeps a history so, and one of its
\* tokens is there.
LEMMA HistoryWithIs ==
  ASSUME Kept(history), NEW s \in Snapshots, IsTrue(s), NEW h \in HistoryWith(s)
  PROVE  Kept(h) /\ \E x \in h : x.tokens = s.tokens
<1> DEFINE other == {x \in history : x.tokens # s.tokens}
           full == other \cup {s}
<1>1. /\ history \in SUBSET Snapshots /\ IsFiniteSet(history) /\ Cardinality(history) <= Capacity
      /\ \A x \in history : IsTrue(x)
  BY DEF Kept
<1>2. Capacity \in Nat
  BY WrapperAssumption
<1>3. IsFiniteSet(other) /\ Cardinality(other) <= Cardinality(history) /\ Cardinality(other) \in Nat
  BY <1>1, FS_Subset, FS_CardinalityType, other \in SUBSET history
<1>4. Cardinality(history) \in Nat
  BY <1>1, FS_CardinalityType
<1>5. s \notin other /\ IsFiniteSet(full) /\ Cardinality(full) = Cardinality(other) + 1
  BY <1>3, FS_AddElement
<1>6. full \in SUBSET Snapshots /\ (\A x \in full : IsTrue(x)) /\ s \in full
  BY <1>1
<1>7. CASE Cardinality(full) > Capacity
  <2>1. PICK x \in other : h = full \ {x}
    BY <1>7 DEF HistoryWith
  <2>2. x \in full /\ x # s
    BY <2>1
  <2>3. IsFiniteSet(h) /\ Cardinality(h) = Cardinality(full) - 1
    <3> HIDE DEF full
    <3> QED BY <1>5, <2>1, <2>2, FS_RemoveElement
  <2>4. Cardinality(h) <= Capacity
    <3> HIDE DEF other, full
    <3> QED BY <1>1, <1>2, <1>3, <1>4, <1>5, <2>3
  <2>5. h \in SUBSET Snapshots /\ (\A y \in h : IsTrue(y)) /\ s \in h
    BY <1>6, <2>1, <2>2
  <2> QED BY <2>3, <2>4, <2>5 DEF Kept
<1>8. CASE ~(Cardinality(full) > Capacity) /\ h = full
  <2>1. Cardinality(full) <= Capacity
    <3> HIDE DEF other, full
    <3> QED BY <1>2, <1>3, <1>5, <1>8
  <2> QED BY <1>5, <1>6, <1>8, <2>1 DEF Kept
<1>9. CASE ~(Cardinality(full) > Capacity) /\ other # history /\ h = history
  <2>1. \E x \in history : x.tokens = s.tokens
    BY <1>9
  <2> QED BY <1>9, <2>1
<1>10. \/ Cardinality(full) > Capacity
       \/ ~(Cardinality(full) > Capacity) /\ h = full
       \/ ~(Cardinality(full) > Capacity) /\ other # history /\ h = history
  BY DEF HistoryWith
<1> QED BY <1>7, <1>8, <1>9, <1>10

WrapperTyped ==
  /\ model \in Models /\ drafted \in Parts /\ failed \in BOOLEAN
  /\ live \in Seq(Tokens) /\ main \in Seq(Tokens) /\ second \in Seq(Tokens)
  /\ rest \in Seq(Tokens)
  /\ phase \in {"idle", "draft", "main", "generating"}
  /\ hit \in Nat
  /\ retry \in [prompt : Seq(Tokens), progress : Nat]

\* The live cache is that of the first live tokens, in every layer if no call
\* was left half way; it is longer only after generation raised.
LiveOK ==
  /\ Len(live) <= MaxLive
  /\ phase # "idle" => Len(main) <= Len(live)
  /\ Len(main) <= Len(live) => main = First(live, Len(main))
  /\ pair = drafted /\ (~failed => second = main)

DraftPhaseOK ==
  phase = "draft" =>
    /\ Drafted /\ rest # <<>>
    /\ Len(main) = hit /\ hit + 1 < Len(live)

MainPhaseOK ==
  phase = "main" =>
    /\ rest # <<>>
    /\ Len(main) + Len(rest) = Len(live) - 1
    /\ rest = SubSeq(live, Len(main) + 1, Len(live) - 1)
    /\ Len(main) >= hit
    /\ HasCheckpoint /\ Len(main) >= CheckpointLength => CheckpointIsStored

OtherPhasesOK ==
  /\ phase \in {"idle", "generating"} => rest = <<>>
  /\ phase = "generating" => Len(main) = Len(live) - 1

\* The prompt that was just cancelled, and what had been prefilled of it.
RetryOK ==
  retry.prompt # <<>> =>
    /\ phase = "idle" /\ Len(main) <= Len(live)
    /\ retry.progress = Len(main) /\ Len(main) < Len(retry.prompt)
    /\ main = First(retry.prompt, Len(main))

WrapperInv ==
  /\ WrapperTyped /\ Kept(history) /\ LiveOK
  /\ DraftPhaseOK /\ MainPhaseOK /\ OtherPhasesOK /\ RetryOK

\* One sequence after another; after none.
LEMMA Longer ==
  ASSUME NEW T, NEW s \in Seq(T), NEW t \in Seq(T)
  PROVE  s \o t \in Seq(T) /\ <<>> \in Seq(T) /\ s \o <<>> = s
OBVIOUS

\* The first tokens of a sequence that was made longer by one.
LEMMA FirstOfLonger ==
  ASSUME NEW T, NEW s \in Seq(T), NEW t \in T, NEW i \in 0..Len(s)
  PROVE  First(Append(s, t), i) = First(s, i)
<1>1. PICK v \in Seq(T) : v = Append(s, t) /\ Len(v) = Len(s) + 1 /\ \A k \in 1..Len(s) : v[k] = s[k]
  <2>1. /\ Append(s, t) \in Seq(T) /\ Len(Append(s, t)) = Len(s) + 1
        /\ \A k \in 1..Len(s) : Append(s, t)[k] = s[k]
    BY AppendProperties
  <2> QED BY <2>1
<1>2. i \in 0..Len(v)
  BY <1>1
<1>3. /\ First(v, i) \in Seq(T) /\ Len(First(v, i)) = i /\ \A k \in 1..i : First(v, i)[k] = v[k]
  BY <1>2, FirstIs
<1>4. /\ First(s, i) \in Seq(T) /\ Len(First(s, i)) = i /\ \A k \in 1..i : First(s, i)[k] = s[k]
  BY FirstIs
<1>5. \A k \in 1..i : v[k] = s[k]
  BY <1>1
<1> QED BY <1>1, <1>3, <1>4, <1>5, SameSeq

\* The live tokens are those of the live cache and the rest of them.
LEMMA RestOfLive ==
  ASSUME live \in Seq(Tokens), main \in Seq(Tokens), main = First(live, Len(main)),
         Len(main) <= Len(live)
  PROVE  /\ SubSeq(live, Len(main) + 1, Len(live)) \in Seq(Tokens)
         /\ main \o SubSeq(live, Len(main) + 1, Len(live)) = live
<1>1. PICK l \in Nat, m \in Nat : l = Len(live) /\ m = Len(main) /\ m <= l
  OBVIOUS
<1>2. m \in 0..Len(live) /\ l \in m..Len(live)
  BY <1>1
<1>3. SubSeq(live, m + 1, l) \in Seq(Tokens)
  BY <1>2, PartIs
<1>4. First(live, m) \o SubSeq(live, m + 1, l) = First(live, l)
  BY <1>2, FirstGrows
<1>5. First(live, l) = live
  BY <1>1, FirstAll
<1> QED BY <1>1, <1>3, <1>4, <1>5

\* A chunk is some of the tokens that are left, and ends at the checkpoint
\* if it would cross it.
LEMMA ChunkIs ==
  ASSUME WrapperTyped, rest # <<>>
  PROVE  /\ ChunkLength \in 1..Len(rest)
         /\ phase = "main" /\ HasCheckpoint /\ Len(main) < CheckpointLength
            => Len(main) + ChunkLength <= CheckpointLength
<1>1. PICK r \in Nat \ {0} : r = Len(rest)
  BY DEF WrapperTyped
<1>2. PICK full \in 1..r : full = IF Len(rest) < ChunkSize THEN Len(rest) ELSE ChunkSize
  BY <1>1, WrapperAssumption
<1>3. PICK m \in Nat : m = Len(main)
  BY DEF WrapperTyped
<1>4. PICK c \in Int : c = CheckpointLength
  <2>1. model.tail \in Nat
    BY WrapperAssumption DEF WrapperTyped
  <2>2. Len(live) \in Nat
    BY DEF WrapperTyped
  <2> QED BY <2>1, <2>2 DEF CheckpointLength
<1>5. CASE phase = "main" /\ HasCheckpoint /\ m < c /\ m + full > c
  <2>1. ChunkLength = c - m
    BY <1>2, <1>3, <1>4, <1>5 DEF ChunkLength
  <2>2. c - m \in 1..r /\ m + (c - m) <= c
    BY <1>5
  <2> QED BY <1>1, <1>3, <1>4, <2>1, <2>2
<1>6. CASE ~(phase = "main" /\ HasCheckpoint /\ m < c /\ m + full > c)
  <2>1. ChunkLength = full
    BY <1>2, <1>3, <1>4, <1>6 DEF ChunkLength
  <2>2. ASSUME phase = "main", HasCheckpoint, m < c PROVE m + full <= c
    BY <1>6, <2>2
  <2> QED BY <1>1, <1>3, <1>4, <2>1, <2>2
<1> QED BY <1>5, <1>6

\* The wrapper's invariant holds initially.
LEMMA WrapperInitKeeps == WrapperInit => WrapperInv
<1> SUFFICES ASSUME WrapperInit PROVE WrapperInv
  OBVIOUS
<1>1. <<>> \in Seq(Tokens) /\ Len(<<>>) = 0
  OBVIOUS
<1>2. retry = [prompt |-> <<>>, progress |-> 0]
  BY DEF WrapperInit, NoRetry
<1>3. WrapperTyped
  <2>1. retry \in [prompt : Seq(Tokens), progress : Nat]
    BY <1>1, <1>2
  <2>2. /\ model \in Models /\ drafted = NoDraft /\ live = <<>> /\ main = <<>> /\ second = <<>>
        /\ rest = <<>> /\ phase = "idle" /\ hit = 0 /\ failed = FALSE
    BY DEF WrapperInit
  <2> QED BY <1>1, <2>1, <2>2 DEF WrapperTyped, Parts
<1>4. Kept(history)
  BY FS_EmptySet, WrapperAssumption DEF WrapperInit, Kept
<1>5. LiveOK
  <2>1. First(<<>>, 0) = <<>>
    BY <1>1, FirstAll
  <2> QED BY <1>1, <2>1, WrapperAssumption DEF WrapperInit, LiveOK
<1>6. DraftPhaseOK /\ MainPhaseOK /\ OtherPhasesOK /\ RetryOK
  BY <1>2 DEF WrapperInit, DraftPhaseOK, MainPhaseOK, OtherPhasesOK, RetryOK
<1> QED BY <1>3, <1>4, <1>5, <1>6 DEF WrapperInv

\* _flush_live_cache leaves true snapshots, and one of the live cache if
\* its tokens are known.
LEMMA FlushedIs ==
  ASSUME WrapperInv, NEW h \in Flushed
  PROVE  /\ Kept(h)
         /\ Len(main) > 0 /\ Len(main) <= Len(live) => \E x \in h : x.tokens = main
<1>1. /\ live \in Seq(Tokens) /\ main \in Seq(Tokens) /\ second \in Seq(Tokens)
      /\ Kept(history) /\ (Len(main) <= Len(live) => main = First(live, Len(main)))
      /\ pair = drafted /\ drafted \in Parts /\ failed \in BOOLEAN /\ (~failed => second = main)
  BY DEF WrapperInv, WrapperTyped, LiveOK
<1>2. CASE Len(main) = 0 \/ Len(main) > Len(live)
  <2>1. h = history
    BY <1>2 DEF Flushed
  <2> QED BY <1>1, <1>2, <2>1
<1>3. CASE ~(Len(main) = 0 \/ Len(main) > Len(live))
  <2>1. PICK s : s = Snapshot(main, main, second)
    OBVIOUS
  <2>2. s \in Snapshots /\ IsTrue(s) /\ s.tokens = main
    BY <1>1, <2>1 DEF Snapshots, IsTrue, Snapshot
  <2>3. main = First(live, Len(main))
    BY <1>1, <1>3
  <2>4. h \in HistoryWith(s)
    BY <1>3, <2>1, <2>3 DEF Flushed, SnapshotTokens
  <2>5. Kept(h) /\ \E x \in h : x.tokens = s.tokens
    BY <1>1, <2>2, <2>4, HistoryWithIs
  <2> QED BY <2>2, <2>5
<1> QED BY <1>2, <1>3

\* The history of a step that leaves the draft model be.
LEMMA KeptPrimed ==
  ASSUME NEW h, Kept(h), history' = h, drafted' = drafted
  PROVE  Kept(history)'
  BY DEF Kept, IsTrue

\* One chunk, of the draft model: the main one's part stays.
LEMMA DraftChunk ==
  ASSUME phase = "draft", RunModel(ChunkLength), StoreCheckpoint(ChunkLength)
  PROVE  UNCHANGED <<main, second, pair, failed, history>>
BY DEF RunModel, StoreCheckpoint, cacheVars

\* The main model is run on the next of the live tokens, not on the last.
LEMMA NextPart ==
  ASSUME WrapperInv, phase = "main"
  PROVE  /\ ChunkLength \in 1..Len(rest) /\ Len(main) + ChunkLength <= Len(live) - 1
         /\ First(rest, ChunkLength) \in Seq(Tokens)
         /\ main \o First(rest, ChunkLength) = First(live, Len(main) + ChunkLength)
         /\ HasCheckpoint /\ Len(main) < CheckpointLength
            => Len(main) + ChunkLength <= CheckpointLength
<1>1. PICK n : n = ChunkLength
  OBVIOUS
<1>2. PICK r \in Nat, l \in Nat, m \in Nat :
        r = Len(rest) /\ l = Len(live) /\ m = Len(main)
  BY DEF WrapperInv, WrapperTyped
<1>3. /\ rest # <<>> /\ m + r = l - 1 /\ rest = SubSeq(live, m + 1, l - 1)
      /\ main = First(live, m)
  BY <1>2 DEF WrapperInv, MainPhaseOK, LiveOK
<1>4. /\ n \in 1..r
      /\ HasCheckpoint /\ m < CheckpointLength => m + n <= CheckpointLength
  BY <1>1, <1>2, <1>3, ChunkIs DEF WrapperInv
<1>5. live \in Seq(Tokens) /\ rest \in Seq(Tokens)
  BY DEF WrapperInv, WrapperTyped
<1>6. /\ m \in 0..Len(live) /\ l - 1 \in m..Len(live) /\ 0 \in 0..(l - 1) - m
      /\ n \in 0..(l - 1) - m /\ m + n \in m..Len(live) /\ m + n <= l - 1
  BY <1>2, <1>3, <1>4
<1>7. First(rest, n) = SubSeq(live, m + 1, m + n)
  <2>1. SubSeq(SubSeq(live, m + 1, l - 1), 0 + 1, n) = SubSeq(live, m + 0 + 1, m + n)
    BY <1>5, <1>6, PartOfPart
  <2>2. m + 0 + 1 = m + 1 /\ 0 + 1 = 1
    OBVIOUS
  <2> QED BY <1>3, <2>1, <2>2 DEF First
<1>8. First(live, m) \o SubSeq(live, m + 1, m + n) = First(live, m + n)
  BY <1>5, <1>6, FirstGrows
<1>9. First(rest, n) \in Seq(Tokens)
  BY <1>2, <1>4, <1>5, n \in 0..Len(rest), FirstIs
<1> QED BY <1>1, <1>2, <1>3, <1>4, <1>6, <1>7, <1>8, <1>9

\* After a call of the main model its part is that of more of the live
\* tokens.
LEMMA MainRun ==
  ASSUME WrapperInv, phase = "main", RunModel(ChunkLength)
  PROVE  /\ main' \in Seq(Tokens) /\ second' \in Seq(Tokens)
         /\ UNCHANGED <<pair, failed>> /\ (~failed => second' = main')
         /\ Len(main') = Len(main) + ChunkLength /\ Len(main') <= Len(live) - 1
         /\ main' = First(live, Len(main'))
<1>1. PICK n \in Nat, t \in Seq(Tokens) :
        /\ n = ChunkLength /\ t = First(rest, ChunkLength)
        /\ Len(main) + n <= Len(live) - 1 /\ main \o t = First(live, Len(main) + n)
  <2>1. Len(rest) \in Nat
    BY DEF WrapperInv, WrapperTyped
  <2>2. ChunkLength \in Nat
    BY <2>1, NextPart
  <2> QED BY <2>2, NextPart
<1>2. /\ live \in Seq(Tokens) /\ main \in Seq(Tokens) /\ second \in Seq(Tokens)
      /\ (~failed => second = main)
  BY DEF WrapperInv, WrapperTyped, LiveOK
<1>3. /\ main' = main \o t /\ second' = second \o t /\ UNCHANGED <<pair, failed>>
  BY <1>1 DEF RunModel
<1>4. PICK k \in 0..Len(live) : k = Len(main) + n
  BY <1>1, <1>2
<1>5. main' = First(live, k) /\ main' \in Seq(Tokens) /\ Len(main') = k
  BY <1>1, <1>2, <1>3, <1>4, FirstIs
<1>6. second' \in Seq(Tokens)
  BY <1>2, <1>3, Longer
<1> QED BY <1>1, <1>2, <1>3, <1>4, <1>5, <1>6

\* One chunk, of the main model: the checkpoint is stored when it is
\* reached.
LEMMA MainChunk ==
  ASSUME WrapperInv, phase = "main", RunModel(ChunkLength), StoreCheckpoint(ChunkLength)
  PROVE  /\ Kept(history')
         /\ HasCheckpoint /\ Len(main') >= CheckpointLength
            => \E x \in history' : x.tokens = First(live, CheckpointLength)
<1>1. PICK n \in Nat, l \in Nat, m \in Nat :
        n = ChunkLength /\ n > 0 /\ l = Len(live) /\ m = Len(main) /\ m + n <= l - 1
  BY NextPart DEF WrapperInv, WrapperTyped
<1>2. /\ HasCheckpoint /\ m >= CheckpointLength => CheckpointIsStored
      /\ HasCheckpoint /\ m < CheckpointLength => m + n <= CheckpointLength
  BY <1>1, NextPart DEF WrapperInv, MainPhaseOK
<1>3. /\ live \in Seq(Tokens) /\ Kept(history) /\ drafted \in Parts /\ failed \in BOOLEAN
      /\ pair = drafted
  BY DEF WrapperInv, WrapperTyped, LiveOK
<1>4. PICK k \in Nat : k = m + n
  OBVIOUS
<1>5. /\ main' \in Seq(Tokens) /\ second' \in Seq(Tokens) /\ Len(main') = k
      /\ main' = First(live, k) /\ (~failed => second' = main')
  BY <1>1, <1>4, MainRun
<1>6. PICK c \in Int : c = CheckpointLength
  <2>1. model.tail \in Nat
    BY WrapperAssumption DEF WrapperInv, WrapperTyped
  <2> QED BY <1>1, <2>1 DEF CheckpointLength
<1>7. CASE HasCheckpoint /\ k = c
  <2>1. PICK s : s = [tokens |-> main', main |-> main', second |-> second', pair |-> pair,
                      failed |-> failed]
    OBVIOUS
  <2>2. First(live, c) = main'
    BY <1>5, <1>7
  <2>3. history' \in HistoryWith(s)
    <3>1. history' \in HistoryWith(Snapshot(First(live, CheckpointLength), main', second'))
      BY <1>1, <1>4, <1>6, <1>7 DEF StoreCheckpoint
    <3>2. Snapshot(First(live, CheckpointLength), main', second') = s
      BY <1>6, <2>1, <2>2 DEF Snapshot
    <3> QED BY <3>1, <3>2
  <2>4. s \in Snapshots /\ IsTrue(s) /\ s.tokens = main'
    BY <1>3, <1>5, <2>1 DEF Snapshots, IsTrue
  <2>5. Kept(history') /\ \E x \in history' : x.tokens = s.tokens
    BY <1>3, <2>3, <2>4, HistoryWithIs
  <2> QED BY <1>6, <2>2, <2>4, <2>5
<1>8. CASE ~(HasCheckpoint /\ k = c)
  <2>1. history' = history
    BY <1>1, <1>4, <1>6, <1>8 DEF StoreCheckpoint
  <2>2. ASSUME HasCheckpoint, k >= c PROVE \E x \in history' : x.tokens = First(live, c)
    <3>1. m >= c
      BY <1>1, <1>2, <1>4, <1>6, <1>8, <2>2
    <3> QED BY <1>2, <1>6, <2>1, <2>2, <3>1 DEF CheckpointIsStored
  <2> QED BY <1>3, <1>5, <1>6, <2>1, <2>2
<1> QED BY <1>7, <1>8

\* A prefill step keeps the invariant.
LEMMA PrefillChunkKeeps ==
  ASSUME WrapperInv, PrefillChunk PROVE WrapperInv'
<1> DEFINE left == SubSeq(rest, ChunkLength + 1, Len(rest))
<1>1. /\ phase \in {"draft", "main"}
      /\ RunModel(ChunkLength) /\ StoreCheckpoint(ChunkLength)
      /\ model' = model /\ live' = live /\ drafted' = drafted /\ hit' = hit /\ retry' = retry
      /\ left # <<>> => rest' = left /\ phase' = phase
      /\ left = <<>> /\ phase = "draft"
         => rest' = Front(SubSeq(live, hit + 1, Len(live))) /\ phase' = "main"
      /\ left = <<>> /\ phase = "main" => rest' = <<>> /\ phase' = "generating"
  BY DEF PrefillChunk
<1>2. PICK n : n = ChunkLength
  OBVIOUS
<1>3. PICK r \in Nat, l \in Nat, m \in Nat : r = Len(rest) /\ l = Len(live) /\ m = Len(main)
  BY DEF WrapperInv, WrapperTyped
<1>4. rest # <<>>
  BY <1>1 DEF WrapperInv, DraftPhaseOK, MainPhaseOK
<1>5. n \in 1..r
  BY <1>2, <1>3, <1>4, ChunkIs DEF WrapperInv
<1>6. /\ live \in Seq(Tokens) /\ rest \in Seq(Tokens) /\ main \in Seq(Tokens)
      /\ second \in Seq(Tokens) /\ Kept(history) /\ l <= MaxLive /\ m <= l /\ main = First(live, m)
      /\ hit \in Nat /\ pair = drafted /\ (~failed => second = main)
  BY <1>1, <1>3 DEF WrapperInv, WrapperTyped, LiveOK
<1>7. left \in Seq(Tokens) /\ Len(left) = r - n
  BY <1>2, <1>3, <1>5, <1>6, PartIs
<1>8. retry.prompt = <<>>
  BY <1>1 DEF WrapperInv, RetryOK
<1>9. RetryOK'
  BY <1>1, <1>8 DEF RetryOK
<1> HIDE DEF left
<1>10. CASE phase = "draft"
  <2>1. /\ Drafted /\ m = hit /\ hit + 1 < l
    BY <1>3, <1>10 DEF WrapperInv, DraftPhaseOK
  <2>2. UNCHANGED <<main, second, pair, failed, history>>
    BY <1>1, <1>10, DraftChunk
  <2>3. Kept(history)'
    BY <1>1, <1>6, <2>2, KeptPrimed
  <2>4. LiveOK'
    BY <1>1, <1>3, <1>6, <2>2 DEF LiveOK
  <2>5. CASE left # <<>>
    <3>1. rest' = left /\ phase' = "draft"
      BY <1>1, <1>10, <2>5
    <3>2. WrapperTyped'
      BY <1>1, <1>7, <2>2, <3>1 DEF WrapperInv, WrapperTyped
    <3>3. DraftPhaseOK'
      BY <1>1, <1>3, <1>7, <2>1, <2>2, <2>5, <3>1 DEF DraftPhaseOK, Drafted
    <3>4. MainPhaseOK' /\ OtherPhasesOK'
      BY <3>1 DEF MainPhaseOK, OtherPhasesOK
    <3> QED BY <1>9, <2>3, <2>4, <3>2, <3>3, <3>4 DEF WrapperInv
  <2>6. CASE left = <<>>
    <3>1. rest' = Front(SubSeq(live, hit + 1, Len(live))) /\ phase' = "main"
      BY <1>1, <1>10, <2>6
    <3>2. hit \in 0..Len(live) /\ Len(live) \in hit..Len(live)
      BY <1>3, <1>6, <2>1
    <3>3. PICK b \in Seq(Tokens) : b = SubSeq(live, hit + 1, Len(live))
      BY <1>6, <3>2, PartIs
    <3>4. Len(b) = l - hit
      BY <1>3, <1>6, <3>2, <3>3, PartIs
    <3>5. PICK k \in Nat : k = l - hit - 1 /\ k > 0
      BY <1>6, <2>1
    <3>6. Len(b) > 0 /\ Len(b) - 1 = k
      BY <3>4, <3>5, <1>6
    <3>7. rest' = First(b, k) /\ rest' \in Seq(Tokens) /\ Len(rest') = k
      BY <3>1, <3>3, <3>6, FrontIsFirst
    <3>8. rest' = SubSeq(live, m + 1, l - 1)
      <4>1. /\ 0 \in 0..Len(live) - hit /\ k \in 0..Len(live) - hit
        BY <1>3, <1>6, <2>1, <3>5
      <4>2. SubSeq(SubSeq(live, hit + 1, Len(live)), 0 + 1, k) = SubSeq(live, hit + 0 + 1, hit + k)
        BY <1>6, <3>2, <4>1, PartOfPart
      <4>3. hit + 0 + 1 = m + 1 /\ hit + k = l - 1 /\ 0 + 1 = 1
        BY <1>6, <2>1, <3>5
      <4>4. First(b, k) = SubSeq(SubSeq(live, hit + 1, Len(live)), 1, k)
        BY <3>3 DEF First
      <4> QED BY <3>7, <4>2, <4>3, <4>4
    <3>9. WrapperTyped'
      BY <1>1, <2>2, <3>1, <3>7 DEF WrapperInv, WrapperTyped
    <3>10. MainPhaseOK'
      <4>1. rest' # <<>>
        BY <3>5, <3>7
      <4>2. m + Len(rest') = l - 1
        BY <1>6, <2>1, <3>5, <3>7
      <4>4. ~HasCheckpoint'
        BY <1>1, <2>1 DEF HasCheckpoint, Drafted
      <4>5. m >= hit
        BY <1>6, <2>1
      <4> QED BY <1>1, <1>3, <2>2, <3>8, <4>1, <4>2, <4>4, <4>5 DEF MainPhaseOK
    <3>11. DraftPhaseOK' /\ OtherPhasesOK'
      BY <3>1 DEF DraftPhaseOK, OtherPhasesOK
    <3> QED BY <1>9, <2>3, <2>4, <3>9, <3>10, <3>11 DEF WrapperInv
  <2> QED BY <2>5, <2>6
<1>11. CASE phase = "main"
  <2>1. m + r = l - 1 /\ rest = SubSeq(live, m + 1, l - 1) /\ m >= hit
    BY <1>3, <1>11 DEF WrapperInv, MainPhaseOK
  <2>2. PICK k \in Nat : k = m + n
    BY <1>5
  <2>3. /\ main' \in Seq(Tokens) /\ second' \in Seq(Tokens) /\ Kept(history')
        /\ UNCHANGED <<pair, failed>> /\ (~failed => second' = main')
        /\ Len(main') = k /\ k <= l - 1 /\ main' = First(live, k)
        /\ HasCheckpoint /\ k >= CheckpointLength
            => \E x \in history' : x.tokens = First(live, CheckpointLength)
    BY <1>1, <1>2, <1>3, <1>11, <2>2, MainRun, MainChunk
  <2>4. Kept(history)'
    BY <1>1, <2>3, KeptPrimed
  <2>5. LiveOK'
    <3>1. k <= l
      BY <2>3
    <3> QED BY <1>1, <1>3, <1>6, <2>3, <3>1 DEF LiveOK
  <2>6. CASE left # <<>>
    <3>1. rest' = left /\ phase' = "main"
      BY <1>1, <1>11, <2>6
    <3>2. WrapperTyped'
      BY <1>1, <1>7, <1>6, <2>3, <3>1 DEF WrapperInv, WrapperTyped
    <3>3. MainPhaseOK'
      <4>1. k + Len(left) = l - 1
        BY <1>5, <1>7, <2>1, <2>2
      <4>2. left = SubSeq(live, k + 1, l - 1)
        <5>1. m \in 0..Len(live) /\ l - 1 \in m..Len(live)
          BY <1>3, <1>6, <2>1
        <5>2. n \in 0..(l - 1) - m /\ r \in n..(l - 1) - m
          BY <1>5, <2>1
        <5>3. SubSeq(SubSeq(live, m + 1, l - 1), n + 1, r) = SubSeq(live, m + n + 1, m + r)
          BY <1>6, <5>1, <5>2, PartOfPart
        <5>4. left = SubSeq(SubSeq(live, m + 1, l - 1), n + 1, r)
          BY <1>2, <1>3, <2>1 DEF left
        <5> QED BY <2>1, <2>2, <5>3, <5>4
      <4>3. k >= hit
        BY <1>5, <1>6, <2>1, <2>2
      <4>4. HasCheckpoint' = HasCheckpoint /\ CheckpointLength' = CheckpointLength
        BY <1>1 DEF HasCheckpoint, CheckpointLength, Drafted
      <4>5. HasCheckpoint' /\ Len(main') >= CheckpointLength' => CheckpointIsStored'
        BY <1>1, <2>3, <4>4 DEF CheckpointIsStored
      <4> QED BY <1>1, <1>3, <2>3, <2>6, <3>1, <4>1, <4>2, <4>3, <4>5 DEF MainPhaseOK
    <3>4. DraftPhaseOK' /\ OtherPhasesOK'
      BY <3>1 DEF DraftPhaseOK, OtherPhasesOK
    <3> QED BY <1>9, <2>4, <2>5, <3>2, <3>3, <3>4 DEF WrapperInv
  <2>7. CASE left = <<>>
    <3>1. rest' = <<>> /\ phase' = "generating"
      BY <1>1, <1>11, <2>7
    <3>2. WrapperTyped'
      <4>1. rest' \in Seq(Tokens)
        BY <3>1
      <4> QED BY <1>1, <1>6, <2>3, <3>1, <4>1 DEF WrapperInv, WrapperTyped
    <3>3. k = l - 1
      <4>1. Len(left) = 0
        BY <2>7
      <4> QED BY <1>5, <1>7, <2>1, <2>2, <4>1
    <3>4. DraftPhaseOK' /\ MainPhaseOK'
      BY <3>1 DEF DraftPhaseOK, MainPhaseOK
    <3>5. OtherPhasesOK'
      BY <1>1, <1>3, <2>3, <3>1, <3>3 DEF OtherPhasesOK
    <3> QED BY <1>9, <2>4, <2>5, <3>2, <3>4, <3>5 DEF WrapperInv
  <2> QED BY <2>6, <2>7
<1> QED BY <1>1, <1>10, <1>11

\* What update_cache() leaves, before the first model call.
LEMMA UpdateCacheIs ==
  ASSUME WrapperInv, NEW p \in Prompts, UpdateCache(p)
  PROVE  \E h \in Flushed, c \in Restored(history', p) :
           /\ history' = h /\ live' = p
           /\ Kept(h) /\ RestoresPart(c, p) /\ c.length < Len(p)
           /\ main' = c.main /\ second' = c.second /\ pair' = c.pair /\ failed' = c.failed
           /\ hit' = c.length
           /\ rest' = SubSeq(p, c.length + 1, Len(p) - 1)
           /\ rest' \in Seq(Tokens) /\ Len(rest') = Len(p) - 1 - c.length
           /\ phase' = FirstPhase(rest')
<1>1. p \in Seq(Tokens) /\ Len(p) > 0
  BY WrapperAssumption
<1>2. PICK h \in Flushed :
        /\ history' = h
        /\ \E c \in Restored(h, p) :
             LET tokens == Front(SubSeq(p, c.length + 1, Len(p)))
             IN /\ main' = c.main /\ second' = c.second /\ pair' = c.pair /\ failed' = c.failed
                /\ hit' = c.length
                /\ rest' = tokens
                /\ phase' = FirstPhase(tokens)
  BY DEF UpdateCache
<1>3. PICK c \in Restored(h, p) :
        /\ main' = c.main /\ second' = c.second /\ pair' = c.pair /\ failed' = c.failed
        /\ hit' = c.length
        /\ rest' = Front(SubSeq(p, c.length + 1, Len(p)))
        /\ phase' = FirstPhase(rest')
  BY <1>2
<1>4. Kept(h)
  BY FlushedIs
<1>5. RestoresPart(c, p) /\ c.length < Len(p)
  <2>1. h \in SUBSET Snapshots /\ \A x \in h : IsTrue(x)
    BY <1>4 DEF Kept
  <2> QED BY <1>1, <2>1, RestoredIs
<1>6. PICK n \in 0..Len(p) : n = c.length /\ n < Len(p)
  BY <1>5 DEF RestoresPart
<1>7. PICK l \in Nat : l = Len(p)
  BY <1>1
<1>8. PICK b \in Seq(Tokens) : b = SubSeq(p, n + 1, l) /\ Len(b) = l - n
  <2>1. n \in 0..Len(p) /\ l \in n..Len(p)
    BY <1>6, <1>7
  <2> QED BY <1>1, <2>1, PartIs
<1>9. Front(b) = First(b, l - n - 1) /\ Front(b) \in Seq(Tokens) /\ Len(Front(b)) = l - n - 1
  <2>1. Len(b) > 0 /\ Len(b) - 1 = l - n - 1
    BY <1>6, <1>7, <1>8
  <2> QED BY <2>1, FrontIsFirst
<1>10. First(b, l - n - 1) = SubSeq(p, n + 1, l - 1)
  <2>1. PICK q \in 0..l - n : q = l - n - 1
    BY <1>6, <1>7
  <2>2. n \in 0..Len(p) /\ l \in n..Len(p) /\ 0 \in 0..l - n /\ q \in 0..l - n
    BY <1>6, <1>7, <2>1
  <2>3. SubSeq(SubSeq(p, n + 1, l), 0 + 1, q) = SubSeq(p, n + 0 + 1, n + q)
    BY <1>1, <2>2, PartOfPart
  <2>4. 0 + 1 = 1 /\ n + 0 + 1 = n + 1 /\ n + q = l - 1
    BY <2>1
  <2> QED BY <1>8, <2>1, <2>3, <2>4 DEF First
<1>11. rest' = Front(b)
  BY <1>3, <1>6, <1>7, <1>8
<1>12. /\ rest' = SubSeq(p, n + 1, l - 1)
       /\ rest' \in Seq(Tokens) /\ Len(rest') = l - 1 - n
  <2>1. l - n - 1 = l - 1 - n
    BY <1>6
  <2> QED BY <1>9, <1>10, <1>11, <2>1
<1>13. live' = p
  BY DEF UpdateCache
<1> QED BY <1>2, <1>3, <1>4, <1>5, <1>6, <1>7, <1>12, <1>13

\* A step of UpdateCache keeps the invariant.
LEMMA UpdateCacheKeeps ==
  ASSUME WrapperInv, NEW p \in Prompts, UpdateCache(p) PROVE WrapperInv'
<1>1. PICK h \in Flushed, c \in Restored(history', p) :
           /\ history' = h /\ live' = p
           /\ Kept(h) /\ RestoresPart(c, p) /\ c.length < Len(p)
           /\ main' = c.main /\ second' = c.second /\ pair' = c.pair /\ failed' = c.failed
           /\ hit' = c.length
           /\ rest' = SubSeq(p, c.length + 1, Len(p) - 1)
           /\ rest' \in Seq(Tokens) /\ Len(rest') = Len(p) - 1 - c.length
           /\ phase' = FirstPhase(rest')
  BY UpdateCacheIs
<1>2. model' = model /\ drafted' = drafted /\ retry' = NoRetry
  BY DEF UpdateCache
<1>3. p \in Seq(Tokens) /\ Len(p) > 0 /\ Len(p) <= MaxLive
  BY WrapperAssumption
<1>4. PICK l \in Nat, n \in Nat : l = Len(p) /\ n = c.length /\ n < l /\ l > 0
  BY <1>1, <1>3 DEF RestoresPart
<1>5. /\ main' = First(p, n) /\ second' \in Seq(Tokens) /\ failed' \in BOOLEAN
      /\ pair' = drafted /\ (~failed' => second' = main')
  BY <1>1, <1>4 DEF RestoresPart
<1>6. main' \in Seq(Tokens) /\ Len(main') = n
  BY <1>3, <1>4, <1>5, n \in 0..Len(p), FirstIs
<1>7. Len(rest') = l - 1 - n /\ rest' = SubSeq(p, n + 1, l - 1) /\ rest' \in Seq(Tokens) /\ hit' = n
  BY <1>1, <1>4
<1>8. /\ rest' = <<>> => phase' = "generating"
      /\ rest' # <<>> /\ Drafted => phase' = "draft"
      /\ rest' # <<>> /\ ~Drafted => phase' = "main"
  BY <1>1 DEF FirstPhase
<1>9. rest' = <<>> <=> n = l - 1
  <2>1. PICK r \in Seq(Tokens) : r = rest' /\ Len(r) = l - 1 - n
    BY <1>7
  <2>2. Len(r) = 0 <=> n = l - 1
    BY <1>4, <2>1
  <2>3. r = <<>> <=> Len(r) = 0
    OBVIOUS
  <2> QED BY <2>1, <2>2, <2>3
<1>10. phase' \in {"draft", "main", "generating"}
  BY <1>8
<1>11. Drafted \in BOOLEAN /\ Drafted' = Drafted
  BY <1>2 DEF Drafted
<1>12. WrapperTyped'
  <2>1. <<>> \in Seq(Tokens)
    OBVIOUS
  <2>2. retry' \in [prompt : Seq(Tokens), progress : Nat]
    BY <1>2, <2>1 DEF NoRetry
  <2> QED BY <1>1, <1>2, <1>3, <1>4, <1>5, <1>6, <1>7, <1>10, <2>2 DEF WrapperInv, WrapperTyped
<1>13. Kept(history)'
  BY <1>1, <1>2, KeptPrimed
<1>14. LiveOK'
  BY <1>1, <1>2, <1>3, <1>4, <1>5, <1>6 DEF LiveOK
<1>15. DraftPhaseOK'
  <2> SUFFICES ASSUME phase' = "draft"
               PROVE  Drafted' /\ rest' # <<>> /\ Len(main') = hit' /\ hit' + 1 < Len(live')
    BY DEF DraftPhaseOK
  <2>1. rest' # <<>> /\ Drafted
    BY <1>8, <1>11
  <2>2. n + 1 < l
    BY <1>4, <1>9, <2>1
  <2> QED BY <1>1, <1>4, <1>6, <1>7, <1>11, <2>1, <2>2
<1>16. MainPhaseOK'
  <2> SUFFICES ASSUME phase' = "main" PROVE MainPhaseOK'
    BY DEF MainPhaseOK
  <2>1. rest' # <<>> /\ ~Drafted
    BY <1>8, <1>11
  <2>2. n + (l - 1 - n) = l - 1
    BY <1>4
  <2>3. ~(HasCheckpoint' /\ n >= CheckpointLength')
    <3>1. PICK t \in Nat : t = model.tail
      BY WrapperAssumption DEF WrapperInv, WrapperTyped
    <3>2. CheckpointLength' = l - t
      BY <1>1, <1>2, <1>4, <3>1 DEF CheckpointLength
    <3>3. HasCheckpoint' => l - t > n
      BY <1>7, <3>2 DEF HasCheckpoint
    <3> QED BY <1>4, <3>2, <3>3
  <2>4. /\ Len(main') + Len(rest') = Len(live') - 1 /\ Len(main') >= hit'
        /\ rest' = SubSeq(live', Len(main') + 1, Len(live') - 1)
    BY <1>1, <1>4, <1>6, <1>7, <2>2
  <2>5. ~(HasCheckpoint' /\ Len(main') >= CheckpointLength')
    BY <1>6, <2>3
  <2> QED BY <2>1, <2>4, <2>5 DEF MainPhaseOK
<1>17. OtherPhasesOK'
  <2>1. phase' = "generating" => rest' = <<>> /\ n = l - 1
    BY <1>8, <1>9, <1>11
  <2> QED BY <1>1, <1>4, <1>6, <1>10, <2>1 DEF OtherPhasesOK
<1>18. RetryOK'
  BY <1>2 DEF RetryOK, NoRetry
<1> QED BY <1>12, <1>13, <1>14, <1>15, <1>16, <1>17, <1>18 DEF WrapperInv

\* A chunk of either model leaves the part of the first live tokens, but
\* for the last.
LEMMA ChunkDone ==
  ASSUME WrapperInv, phase \in {"draft", "main"}, RunModel(ChunkLength)
  PROVE  /\ main' \in Seq(Tokens) /\ second' \in Seq(Tokens)
         /\ UNCHANGED <<pair, failed>> /\ (~failed => second' = main')
         /\ Len(main') <= Len(live) - 1
         /\ main' = First(live, Len(main'))
         /\ StoreCheckpoint(ChunkLength) => Kept(history')
<1>1. CASE phase = "draft"
  <2>1. UNCHANGED <<main, second, pair, failed>> /\ (StoreCheckpoint(ChunkLength) => history' = history)
    BY <1>1 DEF RunModel, StoreCheckpoint, cacheVars
  <2>2. PICK l \in Nat, m \in Nat : l = Len(live) /\ m = Len(main) /\ m + 1 < l
    <3>1. Len(live) \in Nat /\ Len(main) \in Nat
      BY DEF WrapperInv, WrapperTyped
    <3> QED BY <1>1, <3>1 DEF WrapperInv, DraftPhaseOK
  <2>3. /\ main \in Seq(Tokens) /\ second \in Seq(Tokens) /\ Kept(history)
        /\ main = First(live, m) /\ (~failed => second = main)
    BY <1>1, <2>2 DEF WrapperInv, WrapperTyped, LiveOK
  <2>4. m <= l - 1
    BY <2>2
  <2> QED BY <2>1, <2>2, <2>3, <2>4
<1>2. CASE phase = "main"
  BY <1>2, MainRun, MainChunk
<1> QED BY <1>1, <1>2

\* A step of CancelPrefill keeps the invariant.
LEMMA CancelPrefillKeeps ==
  ASSUME WrapperInv, CancelPrefill PROVE WrapperInv'
<1>1. /\ phase \in {"draft", "main"}
      /\ RunModel(ChunkLength) /\ StoreCheckpoint(ChunkLength)
      /\ live' = First(live, Len(main'))
      /\ retry' = [prompt |-> live, progress |-> Len(main')]
      /\ rest' = <<>> /\ phase' = "idle"
      /\ model' = model /\ drafted' = drafted /\ hit' = hit
  BY DEF CancelPrefill, TokensAfterCancel
<1>2. PICK l \in Nat : l = Len(live)
  BY DEF WrapperInv, WrapperTyped
<1>3. /\ live \in Seq(Tokens) /\ l <= MaxLive
      /\ model \in Models /\ drafted \in Parts /\ failed \in BOOLEAN /\ hit \in Nat /\ pair = drafted
  BY <1>2 DEF WrapperInv, WrapperTyped, LiveOK
<1>4. /\ main' \in Seq(Tokens) /\ second' \in Seq(Tokens) /\ Kept(history')
      /\ main' = First(live, Len(main')) /\ Len(main') <= l - 1
      /\ UNCHANGED <<pair, failed>> /\ (~failed => second' = main')
  BY <1>1, <1>2, ChunkDone
<1>5. PICK k \in 0..l : k = Len(main') /\ k <= l - 1
  BY <1>4
<1>6. live' = First(live, k) /\ live' \in Seq(Tokens) /\ Len(live') = k
  BY <1>1, <1>2, <1>3, <1>5, FirstIs
<1>7. main' = live' /\ First(live', k) = live'
  BY <1>4, <1>5, <1>6, FirstAll
<1>8. WrapperTyped'
  <2>1. <<>> \in Seq(Tokens)
    OBVIOUS
  <2>2. retry' \in [prompt : Seq(Tokens), progress : Nat]
    BY <1>1, <1>3, <1>5
  <2> QED BY <1>1, <1>3, <1>4, <1>6, <2>1, <2>2 DEF WrapperTyped
<1>9. Kept(history)'
  BY <1>1, <1>4, KeptPrimed
<1>10. LiveOK'
  <2>1. k <= MaxLive
    BY <1>3, <1>5, WrapperAssumption
  <2> QED BY <1>1, <1>3, <1>4, <1>5, <1>6, <1>7, <2>1 DEF LiveOK
<1>11. DraftPhaseOK' /\ MainPhaseOK' /\ OtherPhasesOK'
  BY <1>1 DEF DraftPhaseOK, MainPhaseOK, OtherPhasesOK
<1>12. RetryOK'
  <2>1. k < Len(live)
    BY <1>2, <1>5
  <2> QED BY <1>1, <1>4, <1>5, <1>6, <2>1 DEF RetryOK
<1> QED BY <1>8, <1>9, <1>10, <1>11, <1>12 DEF WrapperInv

\* What holds when a request is over, as soon as the live cache is that of the
\* first live tokens or longer than they are.
LEMMA OverKeeps ==
  ASSUME WrapperInv, phase # "idle", phase' = "idle", rest' = <<>>,
         UNCHANGED <<model, live, pair, drafted, hit, retry>>, Kept(history'),
         main' \in Seq(Tokens), second' \in Seq(Tokens), failed' \in BOOLEAN,
         Len(main') <= Len(live) => main' = First(live, Len(main')),
         ~failed' => second' = main'
  PROVE  WrapperInv'
<1>1. WrapperTyped'
  <2>1. <<>> \in Seq(Tokens)
    OBVIOUS
  <2> QED BY <2>1 DEF WrapperInv, WrapperTyped
<1>2. Kept(history)'
  BY KeptPrimed
<1>3. LiveOK'
  BY DEF WrapperInv, LiveOK
<1>4. retry.prompt = <<>>
  BY DEF WrapperInv, RetryOK
<1>5. DraftPhaseOK' /\ MainPhaseOK' /\ OtherPhasesOK' /\ RetryOK'
  BY <1>4 DEF DraftPhaseOK, MainPhaseOK, OtherPhasesOK, RetryOK
<1> QED BY <1>1, <1>2, <1>3, <1>5 DEF WrapperInv

\* A step of PrefillRaises keeps the invariant.
LEMMA PrefillRaisesKeeps ==
  ASSUME WrapperInv, PrefillRaises PROVE WrapperInv'
<1>1. /\ phase \in {"draft", "main"} /\ rest' = <<>> /\ phase' = "idle"
      /\ UNCHANGED <<model, live, pair, drafted, history, hit, retry>>
  BY DEF PrefillRaises
<1>2. /\ main \in Seq(Tokens) /\ second \in Seq(Tokens) /\ live \in Seq(Tokens)
      /\ failed \in BOOLEAN /\ (~failed => second = main) /\ Kept(history)
      /\ main = First(live, Len(main))
  BY <1>1 DEF WrapperInv, WrapperTyped, LiveOK
<1>3. CASE phase = "draft"
  <2>1. UNCHANGED <<main, second, failed>>
    BY <1>3 DEF PrefillRaises
  <2> QED BY <1>1, <1>2, <2>1, OverKeeps
<1>4. CASE phase = "main"
  <2> DEFINE next == First(rest, ChunkLength)
  <2>1. PICK a \in {<<>>, next}, b \in {<<>>, next} :
          main' = main \o a /\ second' = second \o b /\ failed' = (failed \/ a # b)
    BY <1>4 DEF PrefillRaises, RaisedOn, Advance
  <2>2. PICK n \in Nat :
          /\ next \in Seq(Tokens) /\ Len(main) + n <= Len(live) - 1
          /\ main \o next = First(live, Len(main) + n)
    <3>1. Len(rest) \in Nat
      BY DEF WrapperInv, WrapperTyped
    <3>2. ChunkLength \in Nat
      BY <1>4, <3>1, NextPart
    <3> QED BY <1>4, <3>2, NextPart
  <2>3. a \in Seq(Tokens) /\ b \in Seq(Tokens)
    BY <1>2, <2>1, <2>2, Longer
  <2> HIDE DEF next
  <2>4. main' \in Seq(Tokens) /\ second' \in Seq(Tokens) /\ failed' \in BOOLEAN
    BY <1>2, <2>1, <2>3, Longer
  <2>5. ~failed' => second' = main'
    BY <1>2, <2>1
  <2>6. main' = First(live, Len(main'))
    <3>1. CASE a = <<>>
      BY <1>2, <2>1, <3>1, Longer
    <3>2. CASE a = next
      <4>1. PICK k \in 0..Len(live) : k = Len(main) + n
        BY <1>2, <2>2
      <4>2. main' = First(live, k) /\ Len(main') = k
        BY <1>2, <2>1, <2>2, <3>2, <4>1, FirstIs
      <4> QED BY <4>2
    <3> QED BY <2>1, <3>1, <3>2
  <2> QED BY <1>1, <1>2, <2>4, <2>5, <2>6, OverKeeps
<1> QED BY <1>1, <1>3, <1>4

\* A step of ReporterRaises keeps the invariant.
LEMMA ReporterRaisesKeeps ==
  ASSUME WrapperInv, ReporterRaises PROVE WrapperInv'
<1>1. /\ phase \in {"draft", "main"} /\ rest' = <<>> /\ phase' = "idle"
      /\ RunModel(ChunkLength) /\ (StoreCheckpoint(ChunkLength) \/ history' = history)
      /\ UNCHANGED <<model, live, drafted, hit, retry>>
  BY DEF ReporterRaises
<1>2. /\ main' \in Seq(Tokens) /\ second' \in Seq(Tokens)
      /\ UNCHANGED <<pair, failed>> /\ (~failed => second' = main')
      /\ main' = First(live, Len(main'))
      /\ StoreCheckpoint(ChunkLength) => Kept(history')
  BY <1>1, ChunkDone
<1>3. Kept(history') /\ failed \in BOOLEAN
  BY <1>1, <1>2 DEF WrapperInv, WrapperTyped
<1> QED BY <1>1, <1>2, <1>3, OverKeeps

\* A step of GenerateToken keeps the invariant.
LEMMA GenerateTokenKeeps ==
  ASSUME WrapperInv, NEW t \in Tokens, GenerateToken(t) PROVE WrapperInv'
<1> DEFINE new == SubSeq(live, Len(main) + 1, Len(live))
<1>1. /\ phase = "generating" /\ Len(live) < MaxLive
      /\ main' = main \o new /\ second' = second \o new /\ live' = Append(live, t)
      /\ UNCHANGED <<model, pair, failed, drafted, history, phase, rest, hit, retry>>
  BY DEF GenerateToken
<1>2. PICK l \in Nat, m \in Nat : l = Len(live) /\ m = Len(main)
  BY DEF WrapperInv, WrapperTyped
<1>3. /\ live \in Seq(Tokens) /\ main \in Seq(Tokens) /\ second \in Seq(Tokens)
      /\ main = First(live, m) /\ Kept(history) /\ m = l - 1
      /\ pair = drafted /\ (~failed => second = main)
  BY <1>1, <1>2 DEF WrapperInv, WrapperTyped, LiveOK, OtherPhasesOK
<1>4. m \in 0..Len(live) /\ l \in m..Len(live)
  BY <1>2, <1>3
<1>5. new \in Seq(Tokens) /\ Len(new) = l - m
  <2>1. SubSeq(live, m + 1, l) \in Seq(Tokens) /\ Len(SubSeq(live, m + 1, l)) = l - m
    BY <1>3, <1>4, PartIs
  <2> QED BY <1>2, <2>1
<1>6. main' = live
  <2>1. First(live, m) \o SubSeq(live, m + 1, l) = First(live, l)
    BY <1>3, <1>4, FirstGrows
  <2>2. First(live, l) = live
    BY <1>2, <1>3, FirstAll
  <2> QED BY <1>1, <1>2, <1>3, <2>1, <2>2
<1> HIDE DEF new
<1>7. second' \in Seq(Tokens) /\ (~failed => second' = main')
  BY <1>1, <1>3, <1>5, Longer
<1>8. PICK u \in Seq(Tokens) : u = live' /\ Len(u) = l + 1 /\ First(u, l) = live
  <2>1. Append(live, t) \in Seq(Tokens) /\ Len(Append(live, t)) = l + 1
    BY <1>2, <1>3
  <2>2. First(Append(live, t), l) = First(live, l)
    BY <1>2, <1>3, FirstOfLonger
  <2>3. First(live, l) = live
    BY <1>2, <1>3, FirstAll
  <2> QED BY <1>1, <2>1, <2>2, <2>3
<1>9. WrapperTyped'
  BY <1>1, <1>3, <1>6, <1>7, <1>8 DEF WrapperInv, WrapperTyped
<1>10. Kept(history)'
  BY <1>1, <1>3, KeptPrimed
<1>11. LiveOK'
  <2>1. l + 1 <= MaxLive /\ l <= l + 1
    BY <1>1, <1>2, WrapperAssumption
  <2> QED BY <1>1, <1>2, <1>3, <1>6, <1>7, <1>8, <2>1 DEF LiveOK
<1>12. retry.prompt = <<>>
  BY <1>1 DEF WrapperInv, RetryOK
<1>13. OtherPhasesOK'
  <2>1. rest' = <<>>
    BY <1>1 DEF WrapperInv, OtherPhasesOK
  <2>2. l = (l + 1) - 1
    OBVIOUS
  <2> QED BY <1>2, <1>6, <1>8, <2>1, <2>2 DEF OtherPhasesOK
<1>14. DraftPhaseOK' /\ MainPhaseOK' /\ RetryOK'
  BY <1>1, <1>12 DEF DraftPhaseOK, MainPhaseOK, RetryOK
<1> QED BY <1>9, <1>10, <1>11, <1>13, <1>14 DEF WrapperInv

\* A step of StopGenerating keeps the invariant.
LEMMA StopGeneratingKeeps ==
  ASSUME WrapperInv, StopGenerating PROVE WrapperInv'
<1> DEFINE new == SubSeq(live, Len(main) + 1, Len(live))
<1>1. PICK ahead \in {<<>>, new} : main' = main \o ahead /\ second' = second \o ahead
  BY DEF StopGenerating
<1>2. /\ phase = "generating" /\ phase' = "idle"
      /\ UNCHANGED <<model, live, pair, failed, drafted, history, rest, hit, retry>>
  BY DEF StopGenerating
<1>3. /\ main \in Seq(Tokens) /\ second \in Seq(Tokens) /\ live \in Seq(Tokens)
      /\ failed \in BOOLEAN /\ (~failed => second = main) /\ Kept(history) /\ rest = <<>>
      /\ main = First(live, Len(main)) /\ Len(main) <= Len(live)
  BY <1>2 DEF WrapperInv, WrapperTyped, LiveOK, OtherPhasesOK
<1>4. new \in Seq(Tokens) /\ main \o new = live
  BY <1>3, RestOfLive
<1> HIDE DEF new
<1>5. ahead \in Seq(Tokens)
  BY <1>1, <1>3, <1>4, Longer
<1>6. main' \in Seq(Tokens) /\ second' \in Seq(Tokens) /\ (~failed' => second' = main')
  BY <1>1, <1>2, <1>3, <1>5, Longer
<1>7. main' = First(live, Len(main'))
  <2>1. CASE ahead = <<>>
    BY <1>1, <1>3, <2>1, Longer
  <2>2. CASE ahead = new
    BY <1>1, <1>3, <1>4, <2>2, FirstAll
  <2> QED BY <1>1, <2>1, <2>2
<1> QED BY <1>2, <1>3, <1>6, <1>7, OverKeeps

\* A step of GenerationRaises keeps the invariant.
LEMMA GenerationRaisesKeeps ==
  ASSUME WrapperInv, GenerationRaises PROVE WrapperInv'
<1> DEFINE new == SubSeq(live, Len(main) + 1, Len(live))
<1>0. PICK t \in Tokens : \E added \in RaisedOn({<<>>, new, Append(new, t)}) :
        \E over \in IF Drafted THEN 0..Len(main) ELSE {0} :
          /\ main' = Trimmed(main \o added[1], over) /\ second' = Trimmed(second \o added[2], over)
          /\ failed' = (failed \/ added[1] # added[2])
  BY DEF GenerationRaises
<1>1. PICK a \in {<<>>, new, Append(new, t)}, b \in {<<>>, new, Append(new, t)},
           over \in IF Drafted THEN 0..Len(main) ELSE {0} :
        /\ main' = Trimmed(main \o a, over) /\ second' = Trimmed(second \o b, over)
        /\ failed' = (failed \/ a # b)
  <2>1. PICK added \in RaisedOn({<<>>, new, Append(new, t)}),
             over \in IF Drafted THEN 0..Len(main) ELSE {0} :
          /\ main' = Trimmed(main \o added[1], over) /\ second' = Trimmed(second \o added[2], over)
          /\ failed' = (failed \/ added[1] # added[2])
    BY <1>0
  <2>2. added[1] \in {<<>>, new, Append(new, t)} /\ added[2] \in {<<>>, new, Append(new, t)}
    BY DEF RaisedOn
  <2> QED BY <2>1, <2>2
<1>2. /\ phase = "generating" /\ phase' = "idle"
      /\ UNCHANGED <<model, live, pair, drafted, history, rest, hit, retry>>
  BY DEF GenerationRaises
<1>3. /\ main \in Seq(Tokens) /\ second \in Seq(Tokens) /\ live \in Seq(Tokens)
      /\ failed \in BOOLEAN /\ (~failed => second = main) /\ Kept(history) /\ rest = <<>>
      /\ main = First(live, Len(main)) /\ Len(main) <= Len(live)
  BY <1>2 DEF WrapperInv, WrapperTyped, LiveOK, OtherPhasesOK
<1>4. new \in Seq(Tokens) /\ main \o new = live
  BY <1>3, RestOfLive
<1> HIDE DEF new
<1>5. over \in Nat
  <2>1. Len(main) \in Nat
    BY <1>3
  <2> QED BY <1>1, <2>1
<1>6. /\ Append(new, t) \in Seq(Tokens) /\ main \o Append(new, t) = Append(live, t)
  <2>1. Append(new, t) \in Seq(Tokens)
    BY <1>4
  <2>2. main \o Append(new, t) = Append(main \o new, t)
    <3>1. PICK n \in Seq(Tokens) : n = new
      BY <1>4
    <3>2. main \o Append(n, t) = Append(main \o n, t)
      BY <1>3
    <3> QED BY <3>1, <3>2
  <2> QED BY <1>4, <2>1, <2>2
<1>7. a \in Seq(Tokens) /\ b \in Seq(Tokens)
  BY <1>1, <1>3, <1>4, <1>6, Longer
<1>8. main \o a \in Seq(Tokens) /\ second \o b \in Seq(Tokens)
  BY <1>3, <1>7, Longer
<1>9. main' \in Seq(Tokens) /\ second' \in Seq(Tokens) /\ (~failed' => second' = main')
  <2>1. Trimmed(main \o a, over) \in Seq(Tokens) /\ Trimmed(second \o b, over) \in Seq(Tokens)
    BY <1>5, <1>8, TrimmedIs
  <2> QED BY <1>1, <1>3, <2>1
<1>10. PICK u \in Seq(Tokens) : u = Append(live, t) /\ Len(u) = Len(live) + 1
  <2>1. Append(live, t) \in Seq(Tokens)
    BY <1>3
  <2>2. Len(Append(live, t)) = Len(live) + 1
    BY <1>3
  <2> QED BY <2>1, <2>2
<1>11. PICK j \in 0..Len(u) : main \o a = First(u, j)
  <2>1. CASE a = <<>>
    <3>1. PICK m \in 0..Len(live) : m = Len(main)
      BY <1>3
    <3>2. main \o a = First(live, m)
      BY <1>3, <2>1, <3>1, Longer
    <3>3. First(u, m) = First(live, m)
      BY <1>3, <1>10, <3>1, FirstOfLonger
    <3>4. m \in 0..Len(u)
      BY <1>10, <3>1
    <3> QED BY <3>2, <3>3, <3>4
  <2>2. CASE a = new
    <3>1. PICK l \in 0..Len(live) : l = Len(live)
      BY <1>3
    <3>2. main \o a = First(live, l)
      BY <1>3, <1>4, <2>2, <3>1, FirstAll
    <3>3. First(u, l) = First(live, l)
      BY <1>3, <1>10, <3>1, FirstOfLonger
    <3>4. l \in 0..Len(u)
      BY <1>10, <3>1
    <3> QED BY <3>2, <3>3, <3>4
  <2>3. CASE a = Append(new, t)
    <3>1. First(u, Len(u)) = u /\ Len(u) \in 0..Len(u)
      BY FirstAll
    <3> QED BY <1>6, <1>10, <2>3, <3>1
  <2> QED BY <1>1, <2>1, <2>2, <2>3
<1>12. PICK i \in 0..j : main' = First(First(u, j), i)
  <2>1. Len(First(u, j)) = j
    BY FirstIs
  <2>2. PICK i \in 0..j : i = IF over < j THEN j - over ELSE 0
    BY <1>5
  <2> QED BY <1>1, <1>11, <2>1, <2>2 DEF Trimmed
<1>13. main' = First(u, i) /\ Len(main') = i
  <2>1. i \in 0..Len(u)
    OBVIOUS
  <2> QED BY <1>12, <2>1, FirstOfFirst, FirstIs
<1>14. i <= Len(live) => main' = First(live, i)
  BY <1>3, <1>10, <1>13, FirstOfLonger
<1>15. failed' \in BOOLEAN
  BY <1>1, <1>3
<1> QED BY <1>2, <1>3, <1>9, <1>13, <1>14, <1>15, OverKeeps

\* A step of SetDraftModel keeps the invariant.
LEMMA SetDraftModelKeeps ==
  ASSUME WrapperInv, NEW d \in DraftModels, SetDraftModel(d) PROVE WrapperInv'
<1>1. /\ phase = "idle" /\ drafted' = d /\ pair' = d /\ history' = {} /\ failed' = FALSE
      /\ live' = <<>> /\ main' = <<>> /\ second' = <<>> /\ retry' = NoRetry
      /\ UNCHANGED <<model, phase, rest, hit>>
  BY DEF SetDraftModel, NewHistory
<1>2. <<>> \in Seq(Tokens) /\ Len(<<>>) = 0 /\ First(<<>>, 0) = <<>>
  <2>1. <<>> \in Seq(Tokens) /\ Len(<<>>) = 0
    OBVIOUS
  <2> QED BY <2>1, FirstAll
<1>3. WrapperTyped'
  <2>1. retry' \in [prompt : Seq(Tokens), progress : Nat]
    BY <1>1, <1>2 DEF NoRetry
  <2> QED BY <1>1, <1>2, <2>1 DEF WrapperInv, WrapperTyped, Parts
<1>4. Kept(history)'
  BY <1>1, FS_EmptySet, WrapperAssumption DEF Kept
<1>5. LiveOK'
  BY <1>1, <1>2, WrapperAssumption DEF LiveOK
<1>6. rest = <<>>
  BY <1>1 DEF WrapperInv, OtherPhasesOK
<1>7. DraftPhaseOK' /\ MainPhaseOK' /\ OtherPhasesOK' /\ RetryOK'
  BY <1>1, <1>6 DEF DraftPhaseOK, MainPhaseOK, OtherPhasesOK, RetryOK, NoRetry
<1> QED BY <1>3, <1>4, <1>5, <1>7 DEF WrapperInv

\* A step of UnsetDraftModel keeps the invariant.
LEMMA UnsetDraftModelKeeps ==
  ASSUME WrapperInv, UnsetDraftModel PROVE WrapperInv'
<1>1. /\ phase = "idle" /\ drafted' = NoDraft /\ pair' = NoDraft /\ history' = {}
      /\ retry' = NoRetry
      /\ UNCHANGED <<model, live, main, second, failed, phase, rest, hit>>
  BY DEF UnsetDraftModel, NewHistory
<1>2. <<>> \in Seq(Tokens)
  OBVIOUS
<1>3. WrapperTyped'
  <2>1. retry' \in [prompt : Seq(Tokens), progress : Nat]
    BY <1>1, <1>2 DEF NoRetry
  <2> QED BY <1>1, <1>2, <2>1 DEF WrapperInv, WrapperTyped, Parts
<1>4. Kept(history)'
  BY <1>1, FS_EmptySet, WrapperAssumption DEF Kept
<1>5. LiveOK'
  BY <1>1 DEF WrapperInv, LiveOK
<1>6. rest = <<>>
  BY <1>1 DEF WrapperInv, OtherPhasesOK
<1>7. DraftPhaseOK' /\ MainPhaseOK' /\ OtherPhasesOK' /\ RetryOK'
  BY <1>1, <1>6 DEF DraftPhaseOK, MainPhaseOK, OtherPhasesOK, RetryOK, NoRetry
<1> QED BY <1>3, <1>4, <1>5, <1>7 DEF WrapperInv

\* A step that changes nothing keeps the wrapper's invariant.
LEMMA WrapperStutters ==
  ASSUME WrapperInv, UNCHANGED wrapperVars PROVE WrapperInv'
<1>1. UNCHANGED <<model, live, main, second, pair, failed, drafted, history, phase, rest, hit, retry>>
  BY DEF wrapperVars, cacheVars
<1>2. Kept(history)'
  BY <1>1, KeptPrimed DEF WrapperInv
<1>3. WrapperTyped' /\ LiveOK' /\ DraftPhaseOK' /\ OtherPhasesOK' /\ RetryOK'
  BY <1>1 DEF WrapperInv, WrapperTyped, LiveOK, DraftPhaseOK, OtherPhasesOK, RetryOK, Drafted
<1>4. MainPhaseOK'
  BY <1>1 DEF WrapperInv, MainPhaseOK, HasCheckpoint, CheckpointLength, CheckpointIsStored, Drafted
<1> QED BY <1>2, <1>3, <1>4 DEF WrapperInv

\* Every step keeps the wrapper's invariant.
LEMMA WrapperStepKeeps == WrapperInv /\ [WrapperNext]_wrapperVars => WrapperInv'
<1> SUFFICES ASSUME WrapperInv, [WrapperNext]_wrapperVars PROVE WrapperInv'
  OBVIOUS
<1>1. ASSUME NEW p \in Prompts, UpdateCache(p) PROVE WrapperInv'
  BY <1>1, UpdateCacheKeeps
<1>2. ASSUME NEW t \in Tokens, GenerateToken(t) PROVE WrapperInv'
  BY <1>2, GenerateTokenKeeps
<1>3. ASSUME NEW d \in DraftModels, SetDraftModel(d) PROVE WrapperInv'
  BY <1>3, SetDraftModelKeeps
<1> QED
  BY <1>1, <1>2, <1>3, PrefillChunkKeeps, CancelPrefillKeeps, PrefillRaisesKeeps,
     ReporterRaisesKeeps, StopGeneratingKeeps, GenerationRaisesKeeps, UnsetDraftModelKeeps,
     WrapperStutters DEF WrapperNext

\* The truth of the caches follows from the invariant.
LEMMA InvMeansTrue == WrapperInv => CachesTrue
<1> SUFFICES ASSUME WrapperInv PROVE CachesTrue
  OBVIOUS
<1>1. /\ live \in Seq(Tokens) /\ main \in Seq(Tokens) /\ second \in Seq(Tokens)
      /\ rest \in Seq(Tokens) /\ drafted \in Parts /\ failed \in BOOLEAN /\ pair = drafted
      /\ phase \in {"idle", "draft", "main", "generating"}
      /\ hit \in Nat /\ retry.progress \in Nat /\ (~failed => second = main)
      /\ Len(main) <= Len(live) => main = First(live, Len(main))
  BY DEF WrapperInv, WrapperTyped, LiveOK
<1>2. WrapperTypeOK
  <2>1. Cardinality(history) <= Capacity
    BY DEF WrapperInv, Kept
  <2>2. rest # <<>> <=> phase \in {"draft", "main"}
    BY <1>1 DEF WrapperInv, DraftPhaseOK, MainPhaseOK, OtherPhasesOK
  <2> QED BY <1>1, <2>1, <2>2 DEF WrapperTypeOK, Parts
<1>3. \A x \in history : x.main = x.tokens /\ x.pair = drafted /\ (~x.failed => x.second = x.main)
  BY DEF WrapperInv, Kept, IsTrue
<1>4. CachesMatchTokens
  <2> SUFFICES ASSUME Len(main) <= Len(live) PROVE IsPrefix(main, live)
    BY <1>3 DEF CachesMatchTokens
  <2>1. First(main, Len(main)) = main /\ main = First(live, Len(main))
    BY <1>1, FirstAll
  <2> QED BY <1>1, <2>1 DEF IsPrefix, First
<1>5. ReadyToDecode
  <2> SUFFICES ASSUME phase = "generating" PROVE main = Front(live)
    BY DEF ReadyToDecode
  <2>1. Len(main) = Len(live) - 1
    BY DEF WrapperInv, OtherPhasesOK
  <2> QED BY <1>1, <2>1 DEF Front, First
<1>6. LayersAgree /\ DraftPartsFit
  BY <1>1, <1>3 DEF LayersAgree, DraftPartsFit
<1> QED BY <1>2, <1>4, <1>5, <1>6 DEF CachesTrue

\* What the sequential kit's cache wrapper believes of its caches is true,
\* whatever prompts it is given, whatever is cancelled, raises or is
\* restored, and whenever a draft model is set, changed or unset: of the
\* layer whose offset it reads always, of the others in every cache that
\* no model call left half way (CachesTrue).
THEOREM WrapperCachesTrue == WrapperSpec => []CachesTrue
<1>1. WrapperSpec => []WrapperInv
  BY WrapperInitKeeps, WrapperStepKeeps, PTL DEF WrapperSpec
<1> QED BY <1>1, InvMeansTrue, PTL

\* A step that starts generation leaves the checkpoint behind.
LEMMA StepTakesCheckpoint ==
  ASSUME WrapperInv, [WrapperNext]_wrapperVars
  PROVE  [phase # "generating" /\ phase' = "generating" => CheckpointIsStored']_wrapperVars
<1> SUFFICES ASSUME WrapperNext, phase # "generating", phase' = "generating"
             PROVE  CheckpointIsStored'
  OBVIOUS
<1>1. ASSUME NEW p \in Prompts, UpdateCache(p) PROVE CheckpointIsStored'
  <2>1. PICK h \in Flushed, c \in Restored(history', p) :
           /\ history' = h /\ live' = p
           /\ Kept(h) /\ RestoresPart(c, p) /\ c.length < Len(p)
           /\ main' = c.main /\ second' = c.second /\ pair' = c.pair /\ failed' = c.failed
           /\ hit' = c.length
           /\ rest' = SubSeq(p, c.length + 1, Len(p) - 1)
           /\ rest' \in Seq(Tokens) /\ Len(rest') = Len(p) - 1 - c.length
           /\ phase' = FirstPhase(rest')
    BY <1>1, UpdateCacheIs
  <2>2. model' = model
    BY <1>1 DEF UpdateCache
  <2>3. PICK l \in Nat, n \in Nat, t \in Nat \ {0} : l = Len(p) /\ n = c.length /\ t = model.tail
    <3>1. Len(p) \in Nat
      BY WrapperAssumption
    <3>2. c.length \in Nat
      BY <2>1, <3>1 DEF RestoresPart
    <3>3. model.tail \in Nat \ {0}
      BY WrapperAssumption DEF WrapperInv, WrapperTyped
    <3> QED BY <3>1, <3>2, <3>3
  <2>4. Len(rest') = 0
    <3>1. FirstPhase(rest') = "generating"
      BY <2>1
    <3>2. rest' = <<>>
      BY <3>1 DEF FirstPhase
    <3> QED BY <3>2
  <2>5. n = l - 1
    BY <2>1, <2>3, <2>4
  <2>6. CheckpointLength' = l - t
    BY <2>1, <2>2, <2>3 DEF CheckpointLength
  <2>7. ~(l - t > n)
    BY <2>3, <2>5
  <2> QED BY <2>1, <2>3, <2>6, <2>7 DEF CheckpointIsStored, HasCheckpoint
<1>2. ASSUME PrefillChunk PROVE CheckpointIsStored'
  <2>1. PICK l \in Nat, m \in Nat, r \in Nat : l = Len(live) /\ m = Len(main) /\ r = Len(rest)
    BY DEF WrapperInv, WrapperTyped
  <2>2. /\ phase = "main" /\ RunModel(ChunkLength) /\ StoreCheckpoint(ChunkLength)
        /\ model' = model /\ live' = live /\ drafted' = drafted /\ hit' = hit
        /\ SubSeq(rest, ChunkLength + 1, Len(rest)) = <<>>
    BY <1>2 DEF PrefillChunk
  <2>3. rest # <<>> /\ m + r = l - 1
    BY <2>1, <2>2 DEF WrapperInv, MainPhaseOK
  <2>4. PICK n \in 1..r : n = ChunkLength
    BY <2>1, <2>3, ChunkIs DEF WrapperInv
  <2>5. n = r
    <3>1. n \in 0..Len(rest) /\ r \in n..Len(rest) /\ rest \in Seq(Tokens)
      BY <2>1, <2>4 DEF WrapperInv, WrapperTyped
    <3>2. Len(SubSeq(rest, n + 1, r)) = r - n
      BY <3>1, PartIs
    <3>3. SubSeq(rest, n + 1, r) = <<>>
      BY <2>1, <2>2, <2>4
    <3>4. Len(<<>>) = 0
      OBVIOUS
    <3>5. r - n = 0
      BY <3>2, <3>3, <3>4
    <3> QED BY <2>4, <3>5
  <2>6. /\ Len(main') = m + n
        /\ HasCheckpoint /\ Len(main') >= CheckpointLength
            => \E x \in history' : x.tokens = First(live, CheckpointLength)
    BY <2>1, <2>2, <2>4, MainRun, MainChunk
  <2>7. PICK t \in Nat \ {0} : t = model.tail /\ CheckpointLength = l - t
    BY <2>1, WrapperAssumption DEF WrapperInv, WrapperTyped, CheckpointLength
  <2>8. Len(main') >= CheckpointLength
    BY <2>3, <2>5, <2>6, <2>7
  <2>9. HasCheckpoint' = HasCheckpoint /\ CheckpointLength' = CheckpointLength
    BY <2>2 DEF HasCheckpoint, CheckpointLength, Drafted
  <2> QED BY <2>2, <2>6, <2>8, <2>9 DEF CheckpointIsStored
<1>3. ASSUME NEW t \in Tokens, GenerateToken(t) PROVE FALSE
  BY <1>3 DEF GenerateToken
<1>4. /\ ~CancelPrefill /\ ~PrefillRaises /\ ~ReporterRaises /\ ~StopGenerating
      /\ ~GenerationRaises /\ ~UnsetDraftModel /\ \A d \in DraftModels : ~SetDraftModel(d)
  BY DEF CancelPrefill, PrefillRaises, ReporterRaises, StopGenerating, GenerationRaises,
         SetDraftModel, UnsetDraftModel
<1> QED BY <1>1, <1>2, <1>3, <1>4 DEF WrapperNext

\* A step that takes up the cancelled prompt again restores as much.
LEMMA StepKeepsProgress ==
  ASSUME WrapperInv, [WrapperNext]_wrapperVars
  PROVE  [phase = "idle" /\ phase' # "idle" /\ retry.prompt # <<>> /\ live' = retry.prompt
          => hit' >= retry.progress]_wrapperVars
<1> SUFFICES ASSUME WrapperNext, phase = "idle", phase' # "idle", retry.prompt # <<>>,
                    live' = retry.prompt
             PROVE  hit' >= retry.progress
  OBVIOUS
<1>1. ASSUME NEW p \in Prompts, UpdateCache(p) PROVE hit' >= retry.progress
  <2>1. PICK h \in Flushed, c \in Restored(history', p) :
           /\ history' = h /\ live' = p
           /\ Kept(h) /\ RestoresPart(c, p) /\ c.length < Len(p)
           /\ main' = c.main /\ second' = c.second /\ pair' = c.pair /\ failed' = c.failed
           /\ hit' = c.length
           /\ rest' = SubSeq(p, c.length + 1, Len(p) - 1)
           /\ rest' \in Seq(Tokens) /\ Len(rest') = Len(p) - 1 - c.length
           /\ phase' = FirstPhase(rest')
    BY <1>1, UpdateCacheIs
  <2>2. p = retry.prompt /\ p \in Seq(Tokens)
    BY <2>1, WrapperAssumption
  <2>3. PICK k \in Nat : k = retry.progress /\ k = Len(main) /\ k < Len(p) /\ main = First(p, k)
                      /\ Len(main) <= Len(live)
    BY <2>2 DEF WrapperInv, WrapperTyped, RetryOK
  <2>4. CASE k = 0
    BY <2>1, <2>3, <2>4 DEF RestoresPart
  <2>5. CASE k > 0
    <3>1. PICK y \in h : y.tokens = First(p, k)
      BY <2>3, <2>5, FlushedIs
    <3>2. h \in SUBSET Snapshots /\ \A x \in h : IsTrue(x)
      BY <2>1 DEF Kept
    <3>3. k \in 1..Len(p) - 1
      BY <2>2, <2>3, <2>5
    <3>4. c \in Restored(h, p)
      BY <2>1
    <3>5. c.length >= k
      BY <2>2, <3>1, <3>2, <3>3, <3>4, RestoredFar
    <3> QED BY <2>1, <2>3, <3>5
  <2> QED BY <2>3, <2>4, <2>5
<1>2. ASSUME NEW t \in Tokens, GenerateToken(t) PROVE FALSE
  BY <1>2 DEF GenerateToken
<1>3. /\ ~PrefillChunk /\ ~CancelPrefill /\ ~PrefillRaises /\ ~ReporterRaises /\ ~StopGenerating
      /\ ~GenerationRaises /\ ~UnsetDraftModel /\ \A d \in DraftModels : ~SetDraftModel(d)
  BY DEF PrefillChunk, CancelPrefill, PrefillRaises, ReporterRaises, StopGenerating,
         GenerationRaises, SetDraftModel, UnsetDraftModel
<1> QED BY <1>1, <1>2, <1>3 DEF WrapperNext

\* Prefill leaves behind what later prompts need (PrefillKept): the
\* checkpoint when generation starts, and after a cancelled prompt a
\* snapshot from which the retry restores all that was prefilled.
THEOREM WrapperKeepsPrefill == WrapperSpec => PrefillKept
<1>1. WrapperSpec => []WrapperInv
  BY WrapperInitKeeps, WrapperStepKeeps, PTL DEF WrapperSpec
<1>2. WrapperSpec => CheckpointTaken
  BY <1>1, StepTakesCheckpoint, PTL DEF WrapperSpec, CheckpointTaken
<1>3. WrapperSpec => CancelKeepsProgress
  BY <1>1, StepKeepsProgress, PTL DEF WrapperSpec, CancelKeepsProgress
<1> QED BY <1>2, <1>3 DEF PrefillKept

=============================================================================
