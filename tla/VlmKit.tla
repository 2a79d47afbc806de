-------------------------------- MODULE VlmKit --------------------------------
(***************************************************************************)
(* BatchedVisionModelKit: client threads, the generation thread that owns  *)
(* the request lifecycle, the prompt-cache I/O thread, and shutdown.       *)
(*                                                                         *)
(* Clients put GenerationRequest and CancelGenerationRequest items on the  *)
(* FIFO "requests"; the I/O thread puts PreparedInsert and FailedRestore   *)
(* on the same queue; the generation thread answers each request on its    *)
(* own response queue.  The model starts once start() has returned.        *)
(***************************************************************************)
EXTENDS BatchScheduler

CONSTANTS MaxStoreJobs, \* bound on queued save and budget jobs
          FatalErrors   \* may the generation thread hit a fatal exception?

ASSUME KitAssumption ==
  /\ MaxStoreJobs \in Nat
  /\ FatalErrors \in BOOLEAN

VARIABLES
  client,            \* per request: where its consumer is
  stopped,           \* requests stop_generation() was called for (once each)
  stream,            \* per request: everything put on its response queue
  requests,          \* self._requests
  phase,             \* what the generation thread is doing
  work,              \* the items its current for-loop still has to handle
  active, pending, ready, restoring, cancelledRestores, \* GenerationThreadState
  backendFailed,     \* _backend_exception is set
  restoreJobs,       \* restore jobs of the I/O thread's priority queue, FIFO
  storeJobs,         \* number of save and budget-update jobs in that queue
  ioJob,             \* request whose restore is running, or NoReq
  ioEnded,           \* the I/O thread has returned
  hot,               \* the coordinator holds a hot prompt cache
  closer             \* progress of shutdown()

clientVars == <<client, stopped>>
stateVars == <<active, pending, ready, restoring, cancelledRestores>>
ioVars == <<restoreJobs, storeJobs, ioJob, ioEnded>>
vars == <<client, stopped, stream, requests, phase, work, active, pending,
          ready, restoring, cancelledRestores, unprocessed, prefilling,
          decoding, steps, backendFailed, restoreJobs, storeJobs, ioJob,
          ioEnded, hot, closer>>

QueueItem == [kind : {"new", "cancel", "prepared", "failed"}, id : Req]
Response == [kind : {"progress", "final", "token", "last"}, id : Req]
Terminals == {"none", "cancelled", "error"}
Message == {"begin", "progress", "final", "token", "last"} \cup Terminals

TypeOK ==
  /\ BatchTypeOK
  /\ client \in [Req -> {"idle", "admitting", "waiting", "ended", "refused"}]
  /\ stopped \in SUBSET Req
  /\ stream \in [Req -> Seq(Message)]
  /\ requests \in Seq(QueueItem)
  /\ phase \in {"top", "drain", "insert", "admit", "step", "respond",
                "failing", "exited"}
  /\ work \in Seq(QueueItem \cup Response)
  /\ active \in SUBSET Req /\ IsFiniteSet(active)
  /\ pending \in Seq(Req)
  /\ ready \in Seq(Req)
  /\ restoring \in SUBSET Req /\ IsFiniteSet(restoring)
  /\ cancelledRestores \in SUBSET Req
  /\ backendFailed \in BOOLEAN
  /\ restoreJobs \in Seq(Req)
  /\ storeJobs \in 0..MaxStoreJobs
  /\ ioJob \in Req \cup {NoReq}
  /\ ioEnded \in BOOLEAN
  /\ hot \in BOOLEAN
  /\ closer \in {"open", "joining", "closing", "closed"}

Init ==
  /\ BatchInit
  /\ client = [r \in Req |-> "idle"]
  /\ stopped = {}
  /\ stream = [r \in Req |-> <<>>]
  /\ requests = <<>>
  /\ phase = "top"
  /\ work = <<>>
  /\ active = {} /\ pending = <<>> /\ ready = <<>>
  /\ restoring = {} /\ cancelledRestores = {}
  /\ backendFailed = FALSE
  /\ restoreJobs = <<>> /\ storeJobs = 0 /\ ioJob = NoReq /\ ioEnded = FALSE
  /\ hot = FALSE
  /\ closer = "open"

Ids(q) == [i \in DOMAIN q |-> q[i].id]
Shutdown == closer # "open"
Answered(r) == \E m \in Terminals : m \in ToSet(stream[r])
Send(r, ms) == stream' = [stream EXCEPT ![r] = @ \o ms]
Put(item) == requests' = Append(requests, item)

-----------------------------------------------------------------------------
(* Client threads.  generate() checks the two flags and only then puts its *)
(* request, so the kit may shut down or fail in between.  The consumer     *)
(* reads its response queue at any pace: its reads show only when it ends, *)
(* or walks away from a message it has read.                               *)

ClientUnchanged ==
  UNCHANGED <<stream, phase, work, stateVars, batchVars, backendFailed, ioVars,
              hot, closer>>

CallGenerate(r) ==
  /\ client[r] = "idle"
  /\ client' = [client EXCEPT ![r] =
                  IF Shutdown \/ backendFailed THEN "refused" ELSE "admitting"]
  /\ UNCHANGED <<stopped, requests>>
  /\ ClientUnchanged

PutRequest(r) ==
  /\ client[r] = "admitting"
  /\ client' = [client EXCEPT ![r] = "waiting"]
  /\ Put(Item("new", r))
  /\ UNCHANGED stopped
  /\ ClientUnchanged

\* stop_generation() from any thread, before or after the request is queued.
StopGeneration(r) ==
  /\ client[r] \in {"admitting", "waiting", "ended"}
  /\ r \notin stopped
  /\ stopped' = stopped \cup {r}
  /\ Put(Item("cancel", r))
  /\ UNCHANGED client
  /\ ClientUnchanged

\* The progress reporter said stop or raised, or a stop string was found:
\* the consumer asks for removal and stops reading.
Leave(r) ==
  /\ client[r] = "waiting"
  /\ ToSet(stream[r]) \ Terminals # {}
  /\ client' = [client EXCEPT ![r] = "ended"]
  /\ Put(Item("cancel", r))
  /\ UNCHANGED stopped
  /\ ClientUnchanged

\* The consumer reads its terminal message, or a "length" finish.
EndStream(r) ==
  /\ client[r] = "waiting"
  /\ Answered(r) \/ "last" \in ToSet(stream[r])
  /\ client' = [client EXCEPT ![r] = "ended"]
  /\ UNCHANGED <<stopped, requests>>
  /\ ClientUnchanged

-----------------------------------------------------------------------------
(* The generation thread: drain_generation_events.                         *)
(* One drain takes everything queued; nothing else reads the lists it then *)
(* updates, so taking the whole queue at once hides no interleaving.       *)

StartDrain ==
  /\ phase = "top"
  /\ ~Shutdown
  /\ phase' = "drain"
  /\ work' = requests
  /\ requests' = <<>>
  /\ UNCHANGED <<clientVars, stream, stateVars, batchVars, backendFailed,
                 ioVars, hot, closer>>

\* The next item of the for-loop over the drained queue.
NextItem(kind, r) ==
  /\ phase = "drain"
  /\ work # <<>>
  /\ Head(work) = Item(kind, r)
  /\ work' = Tail(work)
  /\ UNCHANGED <<clientVars, requests, phase, backendFailed, ioVars, hot, closer>>

\* Variant with a fault: the newest request goes first.
HandleNewFirst(r) ==
  /\ NextItem("new", r)
  /\ pending' = <<r>> \o pending
  /\ UNCHANGED <<stream, active, ready, restoring, cancelledRestores, batchVars>>

HandleNew(r) ==
  /\ NextItem("new", r)
  /\ pending' = Append(pending, r)
  /\ UNCHANGED <<stream, active, ready, restoring, cancelledRestores, batchVars>>

\* Variant with a fault: answered, but not taken out of the list.
CancelPendingKept(r) ==
  /\ r \in ToSet(pending)
  /\ Send(r, <<"cancelled">>)
  /\ UNCHANGED <<stateVars, batchVars>>

CancelPending(r) ==
  /\ r \in ToSet(pending)
  /\ pending' = Without(pending, r)
  /\ Send(r, <<"cancelled">>)
  /\ UNCHANGED <<active, ready, restoring, cancelledRestores, batchVars>>

\* Variant with a fault: answered, but not taken out of the list.
CancelReadyKept(r) ==
  /\ r \notin ToSet(pending)
  /\ r \in ToSet(ready)
  /\ Send(r, <<"cancelled">>)
  /\ UNCHANGED <<stateVars, batchVars>>

CancelReady(r) ==
  /\ r \notin ToSet(pending)
  /\ r \in ToSet(ready)
  /\ ready' = Without(ready, r)
  /\ Send(r, <<"cancelled">>)
  /\ UNCHANGED <<active, pending, restoring, cancelledRestores, batchVars>>

\* Variant with a fault: the id of the cancelled restore is not kept.
ForgetCancelledRestore(r) == UNCHANGED <<cancelledRestores>>

\* A restore in flight cannot be recalled; its late result must be dropped.
RememberCancelledRestore(r) == cancelledRestores' = cancelledRestores \cup {r}

CancelRestoring(r) ==
  /\ r \notin ToSet(pending) \cup ToSet(ready)
  /\ r \in restoring
  /\ restoring' = restoring \ {r}
  /\ RememberCancelledRestore(r)
  /\ Send(r, <<"cancelled">>)
  /\ UNCHANGED <<active, pending, ready, batchVars>>

CancelActive(r) ==
  /\ r \notin ToSet(pending) \cup ToSet(ready) \cup restoring
  /\ r \in active
  /\ RemoveRow(r)
  /\ active' = active \ {r}
  /\ Send(r, <<"cancelled">>)
  /\ UNCHANGED <<pending, ready, restoring, cancelledRestores>>

\* "Could not cancel": the request is unknown, finished, or not yet drained.
CancelUnknown(r) ==
  /\ r \notin ToSet(pending) \cup ToSet(ready) \cup restoring \cup active
  /\ UNCHANGED <<stream, stateVars, batchVars>>

CancelRequest(r) ==
  \/ CancelPending(r)
  \/ CancelReady(r)
  \/ CancelRestoring(r)
  \/ CancelActive(r)
  \/ CancelUnknown(r)

HandleCancel(r) == NextItem("cancel", r) /\ CancelRequest(r)

\* handle_prepared_event: a cancelled restore is dropped, a failed one is
\* answered with its error, a prepared one waits for its row.
RestoreCancelledIgnored(r) == r \in {} \* with a fault: never looked up

RestoreCancelled(r) == r \in cancelledRestores

HandleLateRestore(r) ==
  /\ \E kind \in {"prepared", "failed"} : NextItem(kind, r)
  /\ RestoreCancelled(r)
  /\ restoring' = restoring \ {r}
  /\ cancelledRestores' = cancelledRestores \ {r}
  /\ UNCHANGED <<stream, active, pending, ready, batchVars>>

HandleFailedRestore(r) ==
  /\ NextItem("failed", r)
  /\ ~RestoreCancelled(r)
  /\ restoring' = restoring \ {r}
  /\ Send(r, <<"error">>)
  /\ UNCHANGED <<active, pending, ready, cancelledRestores, batchVars>>

HandlePrepared(r) ==
  /\ NextItem("prepared", r)
  /\ ~RestoreCancelled(r)
  /\ restoring' = restoring \ {r}
  /\ ready' = Append(ready, r)
  /\ UNCHANGED <<stream, active, pending, cancelledRestores, batchVars>>

-----------------------------------------------------------------------------
(* insert_ready_requests.  state.ready keeps its value until the loop ends, *)
(* so "work" is the part of it the loop has not reached.                   *)

StartInsert ==
  /\ phase = "drain"
  /\ work = <<>>
  /\ phase' = "insert"
  /\ work' = [i \in DOMAIN ready |-> Item("prepared", ready[i])]
  /\ UNCHANGED <<clientVars, stream, requests, stateVars, batchVars,
                 backendFailed, ioVars, hot, closer>>

FreeRow == Cardinality(active) < MaxSeqNums

NextReady(r) ==
  /\ phase = "insert"
  /\ work # <<>>
  /\ Head(work).id = r
  /\ FreeRow
  /\ work' = Tail(work)
  /\ UNCHANGED <<clientVars, requests, phase, pending, ready, restoring,
                 cancelledRestores, backendFailed, ioVars, hot, closer>>

InsertReady(r) ==
  /\ NextReady(r)
  /\ Send(r, <<"begin">>)
  /\ InsertRow(r)
  /\ active' = active \cup {r}

\* The prompt does not fit the prefill plan: only this request is refused.
RejectReady(r) ==
  /\ NextReady(r)
  /\ Send(r, <<"error">>)
  /\ UNCHANGED <<active, batchVars>>

EndInsert ==
  /\ phase = "insert"
  /\ work = <<>> \/ ~FreeRow
  /\ ready' = Ids(work)
  /\ work' = <<>>
  /\ phase' = "admit"
  /\ UNCHANGED <<clientVars, stream, requests, active, pending, restoring,
                 cancelledRestores, batchVars, backendFailed, ioVars, hot, closer>>

(* admit_pending_requests: the oldest pending requests take the free slots. *)
\* Variant with a fault: restores in flight hold no slot.
ReservedSlotsNotRestoring == Cardinality(active) + Len(ready)

ReservedSlots == Cardinality(active) + Len(ready) + Cardinality(restoring)

Admissible ==
  LET free == IF ReservedSlots < MaxSeqNums THEN MaxSeqNums - ReservedSlots ELSE 0
  IN  IF Len(pending) < free THEN Len(pending) ELSE free

AdmitPending ==
  /\ phase = "admit"
  /\ LET admitted == SubSeq(pending, 1, Admissible) IN
     /\ restoring' = restoring \cup ToSet(admitted)
     /\ restoreJobs' = restoreJobs \o admitted
     /\ pending' = SubSeq(pending, Admissible + 1, Len(pending))
  /\ phase' = "step"
  /\ UNCHANGED <<clientVars, stream, requests, work, active, ready,
                 cancelledRestores, batchVars, backendFailed, storeJobs, ioJob,
                 ioEnded, hot, closer>>

-----------------------------------------------------------------------------
(* step_generation.                                                        *)

\* Snapshots and budget updates queue at most one more store job at a time.
MayQueueStoreJob ==
  \/ UNCHANGED storeJobs
  \/ storeJobs < MaxStoreJobs /\ storeJobs' = storeJobs + 1

StepNothing ==
  /\ phase = "step"
  /\ active = {}
  /\ phase' = "top"
  /\ UNCHANGED <<clientVars, stream, requests, work, stateVars, batchVars,
                 backendFailed, ioVars, hot, closer>>

CallNext ==
  /\ phase = "step"
  /\ active # {}
  /\ \E done \in SUBSET ToSet(decoding) :
       /\ AtTokenLimit \subseteq done
       /\ \/ /\ NoPromptWork(done)
             /\ work' = DecodeResponses(done)
          \/ \E n \in 1..PromptSteps :
               /\ PromptStep(done, n)
               /\ work' = <<ProgressResponse(n)>> \o DecodeResponses(done)
          \/ /\ JoinDecode(done)
             /\ work' = <<Item("final", PromptRow)>> \o DecodeResponses(done)
  /\ phase' = "respond"
  /\ MayQueueStoreJob
  /\ UNCHANGED <<clientVars, stream, requests, stateVars, backendFailed,
                 restoreJobs, ioJob, ioEnded, hot, closer>>

NextResponse(kinds, r) ==
  /\ phase = "respond"
  /\ work # <<>>
  /\ Head(work).id = r
  /\ Head(work).kind \in kinds
  /\ UNCHANGED <<clientVars, requests, pending, ready, restoring,
                 cancelledRestores, backendFailed, restoreJobs, ioJob, ioEnded,
                 closer>>

\* prompt_progress_finished: set when the final progress event was put.
ProgressNeverFinished(r) == FALSE \* with a fault: the flag is never set

ProgressFinished(r) == "final" \in ToSet(stream[r])

RespondProgress(r) ==
  /\ NextResponse({"progress", "final"}, r)
  /\ IF r \in active /\ ~ProgressFinished(r)
     THEN Send(r, <<Head(work).kind>>)
     ELSE UNCHANGED stream
  /\ work' = Tail(work)
  /\ UNCHANGED <<phase, active, batchVars, storeJobs, hot>>

RespondToken(r) ==
  /\ NextResponse({"token"}, r)
  /\ IF r \in active THEN Send(r, <<"token">>) ELSE UNCHANGED stream
  /\ work' = Tail(work)
  /\ UNCHANGED <<phase, active, batchVars, storeJobs, hot>>

\* Variant with a fault: only decoding requests are looked at.
KeepHotIfOnlyActive(r) == active = {r}

\* The hot cache is kept only when this is the last request in flight.
KeepHot(r) == active = {r} /\ ready = <<>> /\ restoring = {}

\* _finish_response; a row may finish without an extractable cache.
FinishResponse(r) ==
  \/ hot' = (hot /\ KeepHot(r)) /\ UNCHANGED storeJobs
  \/ hot' = KeepHot(r) /\ MayQueueStoreJob

\* What the response loop does to the state when a row finishes.
ForgetFinished(r) == active' = active \ {r}

RespondLast(r) ==
  /\ NextResponse({"last"}, r)
  /\ r \in active
  /\ Send(r, <<"last", "none">>)
  /\ FinishResponse(r)
  /\ ForgetFinished(r)
  /\ FinishRow(r)
  /\ work' = Tail(work)
  /\ UNCHANGED phase

EndResponses ==
  /\ phase = "respond"
  /\ work = <<>>
  /\ phase' = "top"
  /\ UNCHANGED <<clientVars, stream, requests, work, stateVars, batchVars,
                 backendFailed, ioVars, hot, closer>>

-----------------------------------------------------------------------------
(* The two ways out of the loop.  Either way the state object is dropped,  *)
(* the batch generator is closed and the hot cache is cleared.             *)

ThreadGone ==
  /\ phase' = "exited"
  /\ active' = {} /\ pending' = <<>> /\ ready' = <<>>
  /\ restoring' = {} /\ cancelledRestores' = {}
  /\ unprocessed' = <<>> /\ prefilling' = NoReq /\ decoding' = <<>>
  /\ UNCHANGED <<clientVars, steps, ioVars, closer>>

\* Variant with a fault: restores in flight are not cancelled.
TrackedNotRestoring == active \cup ToSet(pending) \cup ToSet(ready)

Tracked == active \cup ToSet(pending) \cup ToSet(ready) \cup restoring

\* cancel_all_requests: everything the thread tracks, but not the queue.
CancelAll ==
  /\ phase = "top"
  /\ Shutdown
  /\ ThreadGone
  /\ stream' = [r \in Req |->
       IF r \in Tracked THEN Append(stream[r], "cancelled") ELSE stream[r]]
  /\ hot' = FALSE
  /\ UNCHANGED <<requests, work, backendFailed>>

\* A fatal exception: cancelling a decoding row, preparing an insert, a
\* model call, or answering a response (then "last" is already out).
FatalError ==
  /\ FatalErrors
  /\ \/ /\ phase = "drain" /\ work # <<>> /\ Head(work).kind = "cancel"
        /\ Head(work).id \in ToSet(decoding)
        /\ UNCHANGED stream
     \/ phase = "insert" /\ work # <<>> /\ FreeRow /\ UNCHANGED stream
     \/ phase = "step" /\ active # {} /\ UNCHANGED stream
     \/ phase = "respond" /\ work # <<>> /\ UNCHANGED stream
     \/ /\ phase = "respond" /\ work # <<>> /\ Head(work).kind = "last"
        /\ Send(Head(work).id, <<"last">>)
  /\ phase' = "failing"
  /\ hot' = FALSE
  /\ UNCHANGED <<clientVars, requests, work, stateVars, batchVars,
                 backendFailed, ioVars, closer>>

\* One error per place _fail_all_requests finds a request in.
ErrorCount(r) ==
  Cardinality({i \in DOMAIN requests :
                 requests[i].id = r /\ requests[i].kind # "cancel"})
    + Cardinality({i \in DOMAIN pending : pending[i] = r})
    + Cardinality({i \in DOMAIN ready : ready[i] = r})
    + (IF r \in active THEN 1 ELSE 0) + (IF r \in restoring THEN 1 ELSE 0)

\* _fail_all_requests: the queue as it is now, then everything tracked.  The
\* items a failed drain had already taken ("work") are in neither.
FailAll ==
  /\ phase = "failing"
  /\ ThreadGone
  /\ backendFailed' = TRUE
  /\ requests' = <<>>
  /\ stream' = [r \in Req |-> stream[r] \o [i \in 1..ErrorCount(r) |-> "error"]]
  /\ UNCHANGED <<work, hot>>

-----------------------------------------------------------------------------
(* The cache I/O thread.  Restore jobs come before store jobs, the None of  *)
(* close() before both.                                                    *)

IoUnchanged ==
  UNCHANGED <<clientVars, stream, phase, work, stateVars, batchVars,
              backendFailed, closer>>

IoIdle == ioJob = NoReq /\ ~ioEnded
IoPill == closer = "closing"

NextRestore(r) ==
  /\ IoIdle /\ ~IoPill
  /\ restoreJobs # <<>>
  /\ Head(restoreJobs) = r
  /\ restoreJobs' = Tail(restoreJobs)
  /\ UNCHANGED <<storeJobs, ioEnded>>
  /\ IoUnchanged

\* _take_hot_entry, under its lock, whether or not this request can use it.
TakeHot == hot' = FALSE

IoRestore(r) ==
  /\ NextRestore(r)
  /\ ioJob' = r
  /\ TakeHot
  /\ UNCHANGED requests

\* Prompt preparation raised, before the hot cache was touched.
IoFailRestore(r) ==
  /\ NextRestore(r)
  /\ Put(Item("failed", r))
  /\ UNCHANGED <<ioJob, hot>>

IoDeliver ==
  /\ ioJob # NoReq
  /\ Put(Item("prepared", ioJob))
  /\ ioJob' = NoReq
  /\ UNCHANGED <<restoreJobs, storeJobs, ioEnded, hot>>
  /\ IoUnchanged

\* Variant with a fault: an error of a commit ends the thread.
IoCommitMayEnd ==
  /\ IoIdle /\ ~IoPill
  /\ restoreJobs = <<>>
  /\ storeJobs > 0
  /\ storeJobs' = storeJobs - 1
  /\ ioEnded' \in BOOLEAN
  /\ UNCHANGED <<restoreJobs, ioJob, requests, hot>>
  /\ IoUnchanged

IoCommit ==
  /\ IoIdle /\ ~IoPill
  /\ restoreJobs = <<>>
  /\ storeJobs > 0
  /\ storeJobs' = storeJobs - 1
  /\ UNCHANGED <<restoreJobs, ioJob, ioEnded, requests, hot>>
  /\ IoUnchanged

IoEnd ==
  /\ IoIdle /\ IoPill
  /\ restoreJobs' = <<>>
  /\ storeJobs' = 0
  /\ ioEnded' = TRUE
  /\ UNCHANGED <<ioJob, requests, hot>>
  /\ IoUnchanged

-----------------------------------------------------------------------------
(* shutdown(): set the flag, join the generation thread, close the I/O     *)
(* thread and, once that is joined, the cache store.                       *)

CloserStep(from, to) ==
  /\ closer = from
  /\ closer' = to
  /\ UNCHANGED <<clientVars, stream, requests, phase, work, stateVars, batchVars,
                 backendFailed, ioVars, hot>>

RequestShutdown == CloserStep("open", "joining")
GenerationNotJoined == TRUE \* with a fault: join() is left out

GenerationJoined == phase = "exited"
CloseIoThread == GenerationJoined /\ CloserStep("joining", "closing")
CloseStore == ioEnded /\ CloserStep("closing", "closed")

-----------------------------------------------------------------------------
GenerationThread ==
  \/ StartDrain \/ StartInsert \/ EndInsert \/ AdmitPending
  \/ StepNothing \/ CallNext \/ EndResponses
  \/ CancelAll \/ FatalError \/ FailAll
  \/ \E r \in Req :
       \/ HandleNew(r) \/ HandleCancel(r)
       \/ HandleLateRestore(r) \/ HandleFailedRestore(r) \/ HandlePrepared(r)
       \/ InsertReady(r) \/ RejectReady(r)
       \/ RespondProgress(r) \/ RespondToken(r) \/ RespondLast(r)

IoThread ==
  \/ \E r \in Req : IoRestore(r) \/ IoFailRestore(r)
  \/ IoDeliver \/ IoCommit \/ IoEnd

Closer == CloseIoThread \/ CloseStore

Next ==
  \/ \E r \in Req : \/ CallGenerate(r) \/ PutRequest(r) \/ StopGeneration(r)
                    \/ Leave(r) \/ EndStream(r)
  \/ GenerationThread
  \/ IoThread
  \/ RequestShutdown
  \/ Closer

(* The threads keep running and a shutdown() that began goes on; a client  *)
(* that called generate() puts its request and reads its queue.  Nobody    *)
(* has to call generate(), stop or shutdown().                             *)
Fairness ==
  /\ WF_vars(GenerationThread)
  /\ WF_vars(IoThread)
  /\ WF_vars(Closer)
  /\ \A r \in Req : WF_vars(PutRequest(r)) /\ WF_vars(EndStream(r))

Spec == Init /\ [][Next]_vars /\ Fairness

-----------------------------------------------------------------------------
(* Properties.                                                             *)

\* state.ready as the insert loop will leave it.
ReadyNow == IF phase = "insert" THEN Ids(work) ELSE ready

Alive == phase \notin {"failing", "exited"}

NewItems(q, r) == Cardinality({i \in DOMAIN q : q[i] = Item("new", r)})

\* How many places hold request r: the queue, the drained batch, or one of
\* the collections of GenerationThreadState.
Places(r) ==
  NewItems(requests, r) + NewItems(work, r)
    + Cardinality({i \in DOMAIN pending : pending[i] = r})
    + Cardinality({i \in DOMAIN ReadyNow : ReadyNow[i] = r})
    + (IF r \in restoring THEN 1 ELSE 0) + (IF r \in active THEN 1 ELSE 0)

(* A request that was queued is held in exactly one place until it is      *)
(* answered, and nowhere once it is: no interleaving of the drain, late    *)
(* restores, cancels and finishes loses a request, keeps an answered one,  *)
(* or lets a late PreparedInsert revive a cancelled one.                   *)
TrackedUntilAnswered ==
  Alive => \A r \in Req : client[r] \in {"waiting", "ended"} =>
             Places(r) = IF Answered(r) THEN 0 ELSE 1

(* Every response queue carries begin, progress, one final, tokens, one    *)
(* last and one terminal, in that order, and nothing after the terminal    *)
(* except the extra errors a fatal failure puts on queues already closed.  *)
Rank(m) == CASE m = "begin" -> 1 [] m = "progress" -> 2 [] m = "final" -> 3
             [] m = "token" -> 4 [] m = "last" -> 5 [] m \in Terminals -> 6

StreamInOrder ==
  \A r \in Req : \A i \in DOMAIN stream[r] : \A j \in (i+1)..Len(stream[r]) :
    \/ Rank(stream[r][i]) < Rank(stream[r][j])
    \/ stream[r][i] = stream[r][j] /\ stream[r][i] \in {"progress", "token"}
    \/ backendFailed /\ stream[r][j] = "error"

(* No request is sent more tokens than its max_tokens, whatever rows join  *)
(* or leave the decode batch around it.                                    *)
TokenLimit ==
  \A r \in Req :
    Cardinality({i \in DOMAIN stream[r] : stream[r][i] \in {"token", "last"}})
      <= MaxTokens

(* The requests being restored, ready or decoding never exceed the limit,  *)
(* counting restores whose cancellation freed their slot as gone.  A fatal *)
(* error in the insert loop leaves the requests it already inserted in     *)
(* state.ready too, so this is said of a running thread only.              *)
SlotsBounded ==
  Alive =>
    Cardinality(active) + Len(ReadyNow) + Cardinality(restoring) <= MaxSeqNums

(* The batch generator has a row for exactly the active requests, each in  *)
(* one place, so a cancel always finds its row and no row decodes for      *)
(* nobody.                                                                 *)
RowsMatchActive ==
  /\ Rows = active
  /\ Cardinality(active) = Len(unprocessed) + Len(decoding)
                             + (IF prefilling = NoReq THEN 0 ELSE 1)

\* Restore results still to come for r.
RestoresOutstanding(r) ==
  Cardinality({i \in DOMAIN restoreJobs : restoreJobs[i] = r})
    + (IF ioJob = r THEN 1 ELSE 0)
    + Cardinality({i \in DOMAIN requests :
        requests[i].id = r /\ requests[i].kind \in {"prepared", "failed"}})
    + Cardinality({i \in DOMAIN work :
        /\ phase = "drain"
        /\ work[i].id = r /\ work[i].kind \in {"prepared", "failed"}})

(* While both threads run, exactly one restore result is on its way for    *)
(* each restoring or cancelled-while-restoring request and none for any    *)
(* other: cancelled_restores never leaks an id and a restoring request     *)
(* never waits for a result that was already consumed.                     *)
OneRestorePerRequest ==
  Alive => \A r \in Req :
    /\ r \notin restoring \cap cancelledRestores
    /\ RestoresOutstanding(r) =
         IF r \in restoring \cup cancelledRestores THEN 1 ELSE 0

\* The restore of r has taken the hot cache and its result is not inserted.
Recomputing == active \cup ToSet(ReadyNow)
  \cup {r \in restoring : \/ ioJob = r
                          \/ \E i \in DOMAIN requests : requests[i] = Item("prepared", r)
                          \/ phase = "drain" /\ \E i \in DOMAIN work :
                                                  work[i] = Item("prepared", r)}

(* No idle hot cache is held in memory while a request recomputes: once a  *)
(* restore took the hot cache, or a request is ready or active, there is   *)
(* none until that request finishes alone.  (coordinator.py, comment in    *)
(* _take_hot_entry; the decision is made on one thread, the take on        *)
(* another.)                                                               *)
NoIdleHotCache == hot => Recomputing = {}

(* When shutdown() closes the cache store, both threads have ended and no  *)
(* save or restore is queued or running that would touch the closed store. *)
StoreClosedLast ==
  closer = "closed" =>
    /\ phase = "exited" /\ ioEnded
    /\ restoreJobs = <<>> /\ storeJobs = 0 /\ ioJob = NoReq

\* Everything queued, oldest first: the restore jobs, the requests waiting for
\* a slot, the drained items still to be handled, and the queue.
AsNew(ids) == [i \in DOMAIN ids |-> Item("new", ids[i])]
Line == AsNew(restoreJobs) \o AsNew(pending) \o work \o requests

Waits(s, a) == Item("new", a) \in ToSet(s)

\* a waits before b.
Before(s, a, b) ==
  \E i \in DOMAIN s : /\ s[i] = Item("new", a)
                      /\ \E j \in (i+1)..Len(s) : s[j] = Item("new", b)

(* Requests are restored in the order they were queued: one still waiting  *)
(* is never overtaken, except by one that was answered (cancelled).        *)
NoOvertaking ==
  [][\A a, b \in Req :
       Before(Line, a, b) =>
         ~Waits(Line', a) \/ Answered(b)' \/ Before(Line', a, b)]_vars

(* When a cancel is handled its request is, from then on, held nowhere     *)
(* except as a new item still queued behind the cancel.                    *)
CancelTakesEffect ==
  [][\A r \in Req :
       (phase = "drain" /\ work # <<>> /\ Head(work) = Item("cancel", r)
          /\ work' # work /\ phase' = "drain")
       => r \notin active' \cup ToSet(pending') \cup ToSet(ready') \cup restoring'
                     \cup Rows']_vars

\* Requests nobody will answer: queued after the generation thread's last
\* look at the queue, or lost in the batch it was draining when it failed.
Orphaned(r) ==
  phase = "exited" /\ (NewItems(requests, r) > 0 \/ NewItems(work, r) > 0)

(* Every consumer of an accepted request is eventually released, whatever  *)
(* is cancelled, rejected, shut down or fails, unless its request slipped  *)
(* into the queue after the generation thread's last drain or was in the   *)
(* batch a failed drain held.                                              *)
EveryRequestAnswered ==
  \A r \in Req : client[r] = "waiting" ~> (client[r] = "ended" \/ Orphaned(r))

(* Saves wait for restores and for nothing else: once no more restores     *)
(* come, and however the kit ends, those that are queued, with the arrays  *)
(* they hold, are committed or dropped, by a thread that outlives errors.  *)
SavesAreDone == storeJobs > 0 ~> storeJobs = 0

-----------------------------------------------------------------------------
(* The kit implements the abstract request service: the status of a        *)
(* request is read off its response queue, the asked-for cancellations are *)
(* the stopped requests and those whose consumer is gone.                  *)

Status(r) ==
  LET got == ToSet(stream[r]) IN
  IF "last" \in got THEN "completed"
  ELSE IF "cancelled" \in got THEN "cancelled"
  ELSE IF "error" \in got THEN "failed"
  ELSE IF r \in active THEN "running"
  ELSE IF client[r] \in {"waiting", "ended"} THEN "accepted" ELSE "new"

Service == INSTANCE RequestService WITH
  Limit <- MaxSeqNums,
  status <- [r \in Req |-> Status(r)],
  asked <- stopped \cup {r \in Req : client[r] = "ended"},
  open <- ~Shutdown

(* At most MaxSeqNums requests run at once, an outcome never changes once  *)
(* it is out, and no request is cancelled that nobody stopped or left,     *)
(* unless the kit is shutting down.                                        *)
ImplementsService == Service!Spec

(* What a caller's response queue may hold: the right responses in the     *)
(* right order, and no more of them than were asked for.                   *)
StreamsAreRight ==
  /\ StreamInOrder
  /\ TokenLimit

(* The lifecycle's bookkeeping: every request is in one place until it is  *)
(* answered, in a slot that was free, and with one restore on its way.     *)
RequestsAccounted ==
  /\ TypeOK
  /\ TrackedUntilAnswered
  /\ SlotsBounded
  /\ OneRestorePerRequest

=============================================================================
