------------------------------ MODULE VlmKitProofs ------------------------------
(***************************************************************************)
(* Machine-checked theorems about VlmKit, for every set of requests, every *)
(* limit and every bound.                                                  *)
(***************************************************************************)
EXTENDS VlmKit, SequenceTheorems, FiniteSetTheorems, TLAPS

-----------------------------------------------------------------------------
(* Sequences.                                                              *)

\* A list stays a list when one of its elements is taken out: the pop() of
\* pending and ready entries and the filter() of decode rows.
LEMMA WithoutType ==
  ASSUME NEW S, NEW s \in Seq(S), NEW r
  PROVE  Without(s, r) \in Seq(S)
<1> SUFFICES ASSUME r \in ToSet(s) PROVE Without(s, r) \in Seq(S)
  BY DEF Without
<1> DEFINE i == CHOOSE i \in DOMAIN s : s[i] = r
<1>1. i \in DOMAIN s
  BY DEF ToSet
<1>2. i \in 1..Len(s)
  BY <1>1, LenProperties
<1>3. SubSeq(s, 1, i-1) \in Seq(S)
  <2>1. \A j \in 1..(i-1) : s[j] \in S
    BY <1>2, ElementOfSeq
  <2> QED BY <1>2, <2>1, SubSeqProperties
<1>4. SubSeq(s, i+1, Len(s)) \in Seq(S)
  <2>1. \A j \in (i+1)..Len(s) : s[j] \in S
    BY <1>2, ElementOfSeq
  <2> QED BY <1>2, <2>1, SubSeqProperties
<1> QED BY <1>3, <1>4, ConcatProperties DEF Without, RemoveAt

\* A list of T holds members of T.
LEMMA ToSetSubset ==
  ASSUME NEW S, NEW s \in Seq(S)
  PROVE  ToSet(s) \subseteq S
BY LenProperties, ElementOfSeq DEF ToSet

\* A list holds finitely many values.
LEMMA ToSetFinite ==
  ASSUME NEW S, NEW s \in Seq(S)
  PROVE  /\ IsFiniteSet(ToSet(s))
         /\ Cardinality(ToSet(s)) <= Len(s)
<1>1. DOMAIN s = 1..Len(s) /\ Len(s) \in Nat /\ s \in [1..Len(s) -> S]
  BY LenProperties
<1>2. s \in Surjection(1..Len(s), ToSet(s))
  BY <1>1 DEF Surjection, ToSet
<1>3. IsFiniteSet(1..Len(s)) /\ Cardinality(1..Len(s)) = Len(s)
  BY <1>1, FS_Interval
<1> QED BY <1>2, <1>3, FS_Surjection

-----------------------------------------------------------------------------
(* Type correctness.                                                       *)

\* A queue item is typed by its kind and its request.
LEMMA ItemType ==
  ASSUME NEW r \in Req
  PROVE  /\ \A kind \in {"new", "cancel", "prepared", "failed"} : Item(kind, r) \in QueueItem
         /\ \A kind \in {"progress", "final", "token", "last"} : Item(kind, r) \in Response
BY DEF Item, QueueItem, Response

\* Two items are the same when their kinds and requests are.
LEMMA ItemFields ==
  ASSUME NEW item \in QueueItem \cup Response
  PROVE  item.id \in Req
BY DEF QueueItem, Response

\* Putting an item on the request queue keeps it a list of items.
LEMMA PutType ==
  ASSUME TypeOK, NEW r \in Req, NEW kind \in {"new", "cancel", "prepared", "failed"},
         Put(Item(kind, r))
  PROVE  requests' \in Seq(QueueItem)
<1>1. Item(kind, r) \in QueueItem
  BY ItemType
<1> QED BY <1>1 DEF TypeOK, Put

\* put() on a response queue keeps every response queue a list of messages.
LEMMA SendType ==
  ASSUME TypeOK, NEW r \in Req, NEW ms \in Seq(Message), Send(r, ms)
  PROVE  stream' \in [Req -> Seq(Message)]
<1>1. \A s \in Seq(Message) : s \o ms \in Seq(Message)
  BY ConcatProperties
<1> QED BY <1>1 DEF TypeOK, Send

USE DEF clientVars, stateVars, ioVars, batchVars

\* generate(), stop_generation() and the caller's end of its stream.
LEMMA ClientType ==
  ASSUME TypeOK, NEW r \in Req,
         CallGenerate(r) \/ PutRequest(r) \/ StopGeneration(r) \/ Leave(r) \/ EndStream(r)
  PROVE  TypeOK'
<1> USE DEF TypeOK, BatchTypeOK
<1> DEFINE Stages == {"idle", "admitting", "waiting", "ended", "refused"}
<1>1. ClientUnchanged
  BY DEF CallGenerate, PutRequest, StopGeneration, Leave, EndStream
<1>2. client' \in [Req -> Stages]
  BY DEF CallGenerate, PutRequest, StopGeneration, Leave, EndStream
<1>3. stopped' \in SUBSET Req
  BY DEF CallGenerate, PutRequest, StopGeneration, Leave, EndStream
<1>4. requests' \in Seq(QueueItem)
  <2>1. CASE PutRequest(r)
    BY <2>1, PutType DEF PutRequest
  <2>2. CASE StopGeneration(r)
    BY <2>2, PutType DEF StopGeneration
  <2>3. CASE Leave(r)
    BY <2>3, PutType DEF Leave
  <2>4. CASE CallGenerate(r) \/ EndStream(r)
    BY <2>4 DEF CallGenerate, EndStream
  <2> QED BY <2>1, <2>2, <2>3, <2>4
\* The frame alone keeps the rest: which action it was no longer matters.
<1>5. BatchTypeOK'
  BY <1>1 DEF ClientUnchanged
<1> QED BY SMTT(30), <1>1, <1>2, <1>3, <1>4, <1>5 DEF ClientUnchanged

\* One item of the work list is taken off; everything a handler leaves alone
\* keeps its type.
LEMMA TailType ==
  ASSUME TypeOK, work # <<>>
  PROVE  /\ Tail(work) \in Seq(QueueItem \cup Response)
         /\ Head(work) \in QueueItem \cup Response
BY HeadTailProperties DEF TypeOK

\* BatchGenerator.remove() keeps the rows lists of requests.
LEMMA RemoveRowType ==
  ASSUME TypeOK, NEW r \in Req, RemoveRow(r)
  PROVE  BatchTypeOK'
<1> USE DEF TypeOK, BatchTypeOK
<1>1. Without(unprocessed, r) \in Seq(Req) /\ Without(decoding, r) \in Seq(Req)
  BY WithoutType
<1> QED BY <1>1 DEF RemoveRow

\* cancel_request(), from each place the request can be in.
LEMMA CancelType ==
  ASSUME TypeOK, NEW r \in Req, HandleCancel(r)
  PROVE  TypeOK'
<1> USE DEF TypeOK, BatchTypeOK
<1>1. work' \in Seq(QueueItem \cup Response)
  BY TailType DEF HandleCancel, NextItem
<1> DEFINE Unchanged == UNCHANGED <<clientVars, requests, phase, backendFailed, ioVars, hot, closer>>
<1>2. Unchanged
  BY DEF HandleCancel, NextItem
<1>3. <<"cancelled">> \in Seq(Message)
  BY DEF Message, Terminals
<1>4. CASE CancelPending(r)
  <2>1. stream' \in [Req -> Seq(Message)]
    BY <1>3, <1>4, SendType DEF CancelPending
  <2>2. pending' \in Seq(Req)
    BY <1>4, WithoutType DEF CancelPending
  <2>3. UNCHANGED <<active, ready, restoring, cancelledRestores, batchVars>>
    BY <1>4 DEF CancelPending
  <2>4. BatchTypeOK'
    BY <2>3 DEF batchVars
  <2> QED BY SMTT(30), <1>1, <1>2, <2>1, <2>2, <2>3, <2>4
<1>5. CASE CancelReady(r)
  <2>1. stream' \in [Req -> Seq(Message)]
    BY <1>3, <1>5, SendType DEF CancelReady
  <2>2. ready' \in Seq(Req)
    BY <1>5, WithoutType DEF CancelReady
  <2>3. UNCHANGED <<active, pending, restoring, cancelledRestores, batchVars>>
    BY <1>5 DEF CancelReady
  <2>4. BatchTypeOK'
    BY <2>3 DEF batchVars
  <2> QED BY SMTT(30), <1>1, <1>2, <2>1, <2>2, <2>3, <2>4
<1>6. CASE CancelRestoring(r)
  <2>1. stream' \in [Req -> Seq(Message)]
    BY <1>3, <1>6, SendType DEF CancelRestoring
  <2>2. restoring' \in SUBSET Req /\ IsFiniteSet(restoring')
    BY <1>6, FS_RemoveElement DEF CancelRestoring
  <2>3. UNCHANGED <<active, pending, ready, batchVars>>
    BY <1>6 DEF CancelRestoring
  <2>4. BatchTypeOK'
    BY <2>3 DEF batchVars
  <2>5. cancelledRestores' \in SUBSET Req
    BY <1>6 DEF CancelRestoring, RememberCancelledRestore
  <2> QED BY SMTT(30), <1>1, <1>2, <2>1, <2>2, <2>3, <2>4, <2>5
<1>7. CASE CancelActive(r)
  <2>1. stream' \in [Req -> Seq(Message)]
    BY <1>3, <1>7, SendType DEF CancelActive
  <2>2. active' \in SUBSET Req /\ IsFiniteSet(active')
    BY <1>7, FS_RemoveElement DEF CancelActive
  <2>3. BatchTypeOK'
    BY <1>7, RemoveRowType DEF CancelActive
  <2>4. UNCHANGED <<pending, ready, restoring, cancelledRestores>>
    BY <1>7 DEF CancelActive
  <2> QED BY <1>1, <1>2, <2>1, <2>2, <2>3, <2>4
<1>8. CASE CancelUnknown(r)
  <2>1. UNCHANGED <<stream, stateVars, batchVars>>
    BY <1>8 DEF CancelUnknown
  <2>2. BatchTypeOK'
    BY <2>1 DEF batchVars
  <2> QED BY SMTT(30), <1>1, <1>2, <2>1, <2>2 DEF stateVars
<1> QED BY <1>4, <1>5, <1>6, <1>7, <1>8 DEF HandleCancel, CancelRequest

\* The handlers of drain_generation_events.
LEMMA HandleType ==
  ASSUME TypeOK, NEW r \in Req,
         HandleNew(r) \/ HandleLateRestore(r) \/ HandleFailedRestore(r) \/ HandlePrepared(r)
  PROVE  TypeOK'
<1> USE DEF TypeOK, BatchTypeOK
<1>1. work' \in Seq(QueueItem \cup Response)
  BY TailType DEF HandleNew, HandleLateRestore, HandleFailedRestore, HandlePrepared, NextItem
<1>2. CASE HandleNew(r)
  <2>1. pending' \in Seq(Req)
    BY <1>2, AppendProperties DEF HandleNew
  <2> QED BY <1>1, <1>2, <2>1 DEF HandleNew, NextItem
<1>3. IsFiniteSet(restoring \ {r})
  BY FS_RemoveElement
<1>4. CASE HandleLateRestore(r)
  BY <1>1, <1>3, <1>4 DEF HandleLateRestore, NextItem
<1>5. CASE HandleFailedRestore(r)
  <2>1. <<"error">> \in Seq(Message)
    BY DEF Message, Terminals
  <2>2. stream' \in [Req -> Seq(Message)]
    BY <1>5, <2>1, SendType DEF HandleFailedRestore
  <2> QED BY <1>1, <1>3, <1>5, <2>2 DEF HandleFailedRestore, NextItem
<1>6. CASE HandlePrepared(r)
  <2>1. ready' \in Seq(Req)
    BY <1>6, AppendProperties DEF HandlePrepared
  <2> QED BY <1>1, <1>3, <1>6, <2>1 DEF HandlePrepared, NextItem
<1> QED BY <1>2, <1>4, <1>5, <1>6

\* A function on 1..n into S is a sequence of elements of S.
LEMMA FunctionIsSeq ==
  ASSUME NEW S, NEW n \in Nat, NEW f \in [1..n -> S]
  PROVE  f \in Seq(S)
BY SeqDef

\* The requests of a list of items.
LEMMA IdsType ==
  ASSUME NEW q \in Seq(QueueItem \cup Response)
  PROVE  Ids(q) \in Seq(Req)
<1>1. DOMAIN q = 1..Len(q) /\ Len(q) \in Nat
  BY LenProperties
<1>2. \A i \in 1..Len(q) : q[i].id \in Req
  BY ElementOfSeq, ItemFields
<1>3. Ids(q) \in [1..Len(q) -> Req]
  BY <1>1, <1>2 DEF Ids
<1> QED BY <1>1, <1>3, FunctionIsSeq

\* The drain takes the whole queue as its work.
LEMMA StartDrainType ==
  ASSUME TypeOK, StartDrain
  PROVE  TypeOK'
<1>1. <<>> \in Seq(QueueItem) /\ requests \in Seq(QueueItem \cup Response)
  BY EmptySeq, SeqMonotonic DEF TypeOK
<1> QED BY <1>1 DEF TypeOK, BatchTypeOK, StartDrain

\* The insert loop takes the ready requests as its work.
LEMMA StartInsertType ==
  ASSUME TypeOK, StartInsert
  PROVE  TypeOK'
<1>1. DOMAIN ready = 1..Len(ready) /\ Len(ready) \in Nat
  BY LenProperties DEF TypeOK
<1>2. \A i \in 1..Len(ready) : Item("prepared", ready[i]) \in QueueItem \cup Response
  BY ElementOfSeq, ItemType DEF TypeOK
<1>3. work' \in [1..Len(ready) -> QueueItem \cup Response]
  BY <1>1, <1>2 DEF StartInsert
<1>4. work' \in Seq(QueueItem \cup Response)
  BY <1>1, <1>3, FunctionIsSeq
<1> QED BY <1>4 DEF TypeOK, BatchTypeOK, StartInsert

\* insert_ready_requests, for the request at the head.
LEMMA InsertType ==
  ASSUME TypeOK, NEW r \in Req, InsertReady(r) \/ RejectReady(r)
  PROVE  TypeOK'
<1> USE DEF TypeOK, BatchTypeOK
<1>1. work' \in Seq(QueueItem \cup Response)
  BY TailType DEF InsertReady, RejectReady, NextReady
<1>2. <<"begin">> \in Seq(Message) /\ <<"error">> \in Seq(Message)
  BY DEF Message, Terminals
<1>3. stream' \in [Req -> Seq(Message)]
  BY <1>2, SendType DEF InsertReady, RejectReady
<1>4. CASE InsertReady(r)
  <2>1. unprocessed' \in Seq(Req)
    BY <1>4, AppendProperties DEF InsertReady, InsertRow
  <2>2. steps' \in [Req -> Nat]
    BY <1>4, SchedulerAssumption DEF InsertReady, InsertRow
  <2>3. active' \in SUBSET Req /\ IsFiniteSet(active')
    BY <1>4, FS_AddElement DEF InsertReady
  <2> QED BY <1>1, <1>3, <1>4, <2>1, <2>2, <2>3 DEF InsertReady, NextReady, InsertRow
<1>5. CASE RejectReady(r)
  BY <1>1, <1>3, <1>5 DEF RejectReady, NextReady
<1> QED BY <1>4, <1>5

\* What the insert loop did not get to stays ready.
LEMMA EndInsertType ==
  ASSUME TypeOK, EndInsert
  PROVE  TypeOK'
<1>1. ready' \in Seq(Req)
  BY IdsType DEF TypeOK, EndInsert
<1>2. <<>> \in Seq(QueueItem \cup Response)
  BY EmptySeq
<1> QED BY <1>1, <1>2 DEF TypeOK, BatchTypeOK, EndInsert

\* Cardinalities of the two slot sets are numbers, so the admission count is a
\* number of pending requests.
LEMMA AdmissibleType ==
  ASSUME TypeOK
  PROVE  /\ ReservedSlots \in Nat
         /\ Admissible \in 0..Len(pending)
<1>1. Cardinality(active) \in Nat /\ Cardinality(restoring) \in Nat
  BY FS_CardinalityType DEF TypeOK
<1>2. Len(ready) \in Nat /\ Len(pending) \in Nat
  BY LenProperties DEF TypeOK
<1>3. ReservedSlots \in Nat
  BY <1>1, <1>2 DEF ReservedSlots
<1> QED BY <1>2, <1>3, SchedulerAssumption DEF Admissible

\* admit_pending_requests moves the head of the line into the restores.
LEMMA AdmitPendingType ==
  ASSUME TypeOK, AdmitPending
  PROVE  TypeOK'
<1> DEFINE admitted == SubSeq(pending, 1, Admissible)
           kept == SubSeq(pending, Admissible + 1, Len(pending))
<1>1. Admissible \in 0..Len(pending) /\ Len(pending) \in Nat
  BY AdmissibleType, LenProperties DEF TypeOK
<1>2. \A i \in 1..Len(pending) : pending[i] \in Req
  BY ElementOfSeq DEF TypeOK
<1>3. admitted \in Seq(Req) /\ kept \in Seq(Req)
  BY <1>1, <1>2, SubSeqProperties
<1>4. ToSet(admitted) \subseteq Req
  BY <1>3, ToSetSubset
<1>5. IsFiniteSet(ToSet(admitted))
  BY <1>3, ToSetFinite
<1>6. restoring' \in SUBSET Req /\ IsFiniteSet(restoring')
  BY <1>4, <1>5, FS_Union DEF TypeOK, AdmitPending
<1>7. restoreJobs' \in Seq(Req) /\ pending' \in Seq(Req)
  BY <1>3, ConcatProperties DEF TypeOK, AdmitPending
<1> QED BY <1>6, <1>7 DEF TypeOK, BatchTypeOK, AdmitPending

\* Every bounded count of store jobs stays a count.
LEMMA StoreJobType ==
  ASSUME TypeOK, MayQueueStoreJob
  PROVE  storeJobs' \in 0..MaxStoreJobs
BY KitAssumption DEF TypeOK, MayQueueStoreJob

\* One response per decoding row.
LEMMA DecodeResponsesType ==
  ASSUME TypeOK, NEW done
  PROVE  DecodeResponses(done) \in Seq(Response)
<1>1. DOMAIN decoding = 1..Len(decoding) /\ Len(decoding) \in Nat
  BY LenProperties DEF TypeOK, BatchTypeOK
<1>2. \A i \in 1..Len(decoding) : decoding[i] \in Req
  BY ElementOfSeq DEF TypeOK, BatchTypeOK
<1>3. \A i \in 1..Len(decoding) :
        Item(IF decoding[i] \in done THEN "last" ELSE "token", decoding[i]) \in Response
  BY <1>2, ItemType
<1>4. DecodeResponses(done) \in [1..Len(decoding) -> Response]
  BY <1>1, <1>3 DEF DecodeResponses
<1> QED BY <1>1, <1>4, FunctionIsSeq

\* One call of the batch generator, whichever prompt work it does.
LEMMA BatchStepType ==
  ASSUME TypeOK, NEW done,
         \/ NoPromptWork(done)
         \/ \E n \in 1..PromptSteps : PromptStep(done, n)
         \/ JoinDecode(done)
  PROVE  BatchTypeOK'
<1> USE DEF TypeOK, BatchTypeOK
<1>1. CountTokens \in [Req -> Nat]
  BY DEF CountTokens
<1>2. unprocessed # <<>> => Head(unprocessed) \in Req /\ Tail(unprocessed) \in Seq(Req)
  BY HeadTailProperties
<1>3. PromptRow # NoReq => PromptRow \in Req
  BY <1>2 DEF PromptRow
<1>4. TakePromptRow => unprocessed' \in Seq(Req)
  BY <1>2 DEF TakePromptRow
<1>5. CASE NoPromptWork(done)
  BY <1>1, <1>5 DEF NoPromptWork
<1>6. CASE \E n \in 1..PromptSteps : PromptStep(done, n)
  <2>1. PICK n \in 1..PromptSteps : PromptStep(done, n)
    BY <1>6
  <2>2. n \in Nat
    BY SchedulerAssumption
  <2>3. steps' \in [Req -> Nat]
    BY <1>1, <2>1, <2>2 DEF PromptStep
  <2> QED BY <1>3, <1>4, <2>1, <2>3 DEF PromptStep
<1>7. CASE JoinDecode(done)
  <2>1. steps' \in [Req -> Nat]
    BY <1>1, <1>7 DEF JoinDecode
  <2>2. decoding' \in Seq(Req)
    BY <1>3, <1>7, AppendProperties DEF JoinDecode
  <2> QED BY <1>4, <1>7, <2>1, <2>2 DEF JoinDecode
<1> QED BY <1>5, <1>6, <1>7

\* next(): joins, one prefill step, one decode step, and their responses.
LEMMA CallNextType ==
  ASSUME TypeOK, CallNext
  PROVE  TypeOK'
<1>1. PICK done \in SUBSET ToSet(decoding) :
        \/ NoPromptWork(done) /\ work' = DecodeResponses(done)
        \/ \E n \in 1..PromptSteps :
             /\ PromptStep(done, n)
             /\ work' = <<ProgressResponse(n)>> \o DecodeResponses(done)
        \/ JoinDecode(done) /\ work' = <<Item("final", PromptRow)>> \o DecodeResponses(done)
  BY DEF CallNext
<1>2. BatchTypeOK'
  BY <1>1, BatchStepType
<1>3. \A q \in Seq(Response) : q \in Seq(QueueItem \cup Response)
  BY SeqMonotonic
<1>4. DecodeResponses(done) \in Seq(Response)
  BY DecodeResponsesType
<1>5. PromptRow # NoReq => PromptRow \in Req
  BY HeadTailProperties DEF TypeOK, BatchTypeOK, PromptRow
<1>6. work' \in Seq(QueueItem \cup Response)
  <2>1. CASE NoPromptWork(done) /\ work' = DecodeResponses(done)
    BY <1>3, <1>4, <2>1
  <2>2. CASE \E n \in 1..PromptSteps :
               /\ PromptStep(done, n)
               /\ work' = <<ProgressResponse(n)>> \o DecodeResponses(done)
    <3>1. PICK n \in 1..PromptSteps :
            /\ PromptStep(done, n)
            /\ work' = <<ProgressResponse(n)>> \o DecodeResponses(done)
      BY <2>2
    <3>2. PromptRow \in Req
      BY <1>5, <3>1 DEF PromptStep
    <3>3. ProgressResponse(n) \in Response
      BY <3>2, ItemType DEF ProgressResponse
    <3> QED BY <1>3, <1>4, <3>1, <3>3, ConcatProperties
  <2>3. CASE JoinDecode(done) /\ work' = <<Item("final", PromptRow)>> \o DecodeResponses(done)
    <3>1. Item("final", PromptRow) \in Response
      BY <1>5, <2>3, ItemType DEF JoinDecode
    <3> QED BY <1>3, <1>4, <2>3, <3>1, ConcatProperties
  <2> QED BY <1>1, <2>1, <2>2, <2>3
<1>7. storeJobs' \in 0..MaxStoreJobs
  BY StoreJobType DEF CallNext
<1> QED BY <1>2, <1>6, <1>7 DEF TypeOK, CallNext

\* The handlers of the responses of next().
LEMMA RespondType ==
  ASSUME TypeOK, NEW r \in Req,
         RespondProgress(r) \/ RespondToken(r) \/ RespondLast(r)
  PROVE  TypeOK'
<1> USE DEF TypeOK
<1>1. work' \in Seq(QueueItem \cup Response)
  BY TailType DEF RespondProgress, RespondToken, RespondLast, NextResponse
<1>2. CASE RespondProgress(r)
  <2>1. Head(work).kind \in Message
    BY <1>2 DEF RespondProgress, NextResponse, Message
  <2>2. <<Head(work).kind>> \in Seq(Message)
    BY <2>1
  <2>3. stream' \in [Req -> Seq(Message)]
    BY <1>2, <2>2, SendType DEF RespondProgress
  <2> QED BY <1>1, <1>2, <2>3 DEF RespondProgress, NextResponse, BatchTypeOK
<1>3. CASE RespondToken(r)
  <2>1. <<"token">> \in Seq(Message)
    BY DEF Message
  <2>2. stream' \in [Req -> Seq(Message)]
    BY <1>3, <2>1, SendType DEF RespondToken
  <2> QED BY <1>1, <1>3, <2>2 DEF RespondToken, NextResponse, BatchTypeOK
<1>4. CASE RespondLast(r)
  <2>1. <<"last", "none">> \in Seq(Message)
    BY DEF Message, Terminals
  <2>2. stream' \in [Req -> Seq(Message)]
    BY <1>4, <2>1, SendType DEF RespondLast
  <2>3. hot' \in BOOLEAN /\ storeJobs' \in 0..MaxStoreJobs
    BY <1>4, StoreJobType DEF RespondLast, FinishResponse, KeepHot
  <2>4. active' \in SUBSET Req /\ IsFiniteSet(active')
    BY <1>4, FS_RemoveElement DEF RespondLast, ForgetFinished
  <2>5. BatchTypeOK'
    BY <1>4, WithoutType DEF BatchTypeOK, RespondLast, FinishRow
  <2> QED BY <1>1, <1>4, <2>2, <2>3, <2>4, <2>5 DEF RespondLast, NextResponse
<1> QED BY <1>2, <1>3, <1>4

\* What the generation thread leaves when it ends.
LEMMA ThreadGoneType ==
  ASSUME TypeOK, ThreadGone, stream' \in [Req -> Seq(Message)], hot' \in BOOLEAN,
         requests' \in Seq(QueueItem), backendFailed' \in BOOLEAN, UNCHANGED work
  PROVE  TypeOK'
<1>1. <<>> \in Seq(Req) /\ IsFiniteSet({})
  BY EmptySeq, FS_EmptySet
<1> QED BY <1>1 DEF TypeOK, BatchTypeOK, ThreadGone

\* cancel_all_requests: every tracked request is told "cancelled".
LEMMA CancelAllType ==
  ASSUME TypeOK, CancelAll
  PROVE  TypeOK'
<1>1. "cancelled" \in Message
  BY DEF Message, Terminals
<1>2. \A r \in Req : Append(stream[r], "cancelled") \in Seq(Message)
  BY <1>1, AppendProperties DEF TypeOK
<1>3. stream' \in [Req -> Seq(Message)]
  BY <1>2 DEF TypeOK, CancelAll
<1> QED BY <1>3, ThreadGoneType DEF TypeOK, CancelAll

\* A fatal error ends the loop.
LEMMA FatalErrorType ==
  ASSUME TypeOK, FatalError
  PROVE  TypeOK'
<1>1. <<"last">> \in Seq(Message)
  BY DEF Message
<1>2. ASSUME work # <<>>
      PROVE  Head(work).id \in Req
  BY <1>2, TailType, ItemFields
<1>3. stream' \in [Req -> Seq(Message)]
  <2>1. CASE work # <<>> /\ Send(Head(work).id, <<"last">>)
    BY <1>1, <1>2, <2>1, SendType
  <2>2. CASE UNCHANGED stream
    BY <2>2 DEF TypeOK
  <2> QED BY <2>1, <2>2 DEF FatalError
<1> QED BY <1>3 DEF TypeOK, BatchTypeOK, FatalError

\* How often a filter of a sequence holds is a number.
LEMMA ErrorCountType ==
  ASSUME TypeOK, NEW r \in Req
  PROVE  ErrorCount(r) \in Nat
<1>1. /\ DOMAIN requests = 1..Len(requests) /\ Len(requests) \in Nat
      /\ DOMAIN pending = 1..Len(pending) /\ Len(pending) \in Nat
      /\ DOMAIN ready = 1..Len(ready) /\ Len(ready) \in Nat
  BY LenProperties DEF TypeOK
<1>2. \A n \in Nat : IsFiniteSet(1..n)
  BY FS_Interval
<1>3. \A n \in Nat : \A T \in SUBSET (1..n) : Cardinality(T) \in Nat
  BY <1>2, FS_Subset, FS_CardinalityType
<1>4. Cardinality({i \in DOMAIN requests :
                     requests[i].id = r /\ requests[i].kind # "cancel"}) \in Nat
  BY <1>1, <1>3
<1>5. Cardinality({i \in DOMAIN pending : pending[i] = r}) \in Nat
  BY <1>1, <1>3
<1>6. Cardinality({i \in DOMAIN ready : ready[i] = r}) \in Nat
  BY <1>1, <1>3
<1> QED BY <1>4, <1>5, <1>6 DEF ErrorCount

\* fail_all_requests: every open response queue gets an error.
LEMMA FailAllType ==
  ASSUME TypeOK, FailAll
  PROVE  TypeOK'
<1>1. "error" \in Message
  BY DEF Message, Terminals
<1>2. \A r \in Req : [i \in 1..ErrorCount(r) |-> "error"] \in Seq(Message)
  BY <1>1, ErrorCountType, FunctionIsSeq
<1>3. \A r \in Req : stream[r] \o [i \in 1..ErrorCount(r) |-> "error"] \in Seq(Message)
  BY <1>2, ConcatProperties DEF TypeOK
<1>4. stream' \in [Req -> Seq(Message)]
  BY <1>3 DEF FailAll
<1>5. <<>> \in Seq(QueueItem)
  BY EmptySeq
<1> QED BY <1>4, <1>5, ThreadGoneType DEF TypeOK, FailAll

\* The cache I/O thread and the shutdown caller.
LEMMA IoType ==
  ASSUME TypeOK, IoThread
  PROVE  TypeOK'
<1> USE DEF TypeOK, BatchTypeOK, IoUnchanged
<1>1. ASSUME NEW r \in Req, IoRestore(r) \/ IoFailRestore(r)
      PROVE  TypeOK'
  <2>1. restoreJobs' \in Seq(Req)
    <3>1. restoreJobs # <<>> /\ restoreJobs' = Tail(restoreJobs)
      BY <1>1 DEF IoRestore, IoFailRestore, NextRestore
    <3> QED BY <3>1, HeadTailProperties
  <2>2. CASE IoRestore(r)
    BY <2>1, <2>2 DEF IoRestore, NextRestore, TakeHot
  <2>3. CASE IoFailRestore(r)
    <3>1. requests' \in Seq(QueueItem)
      BY <2>3, PutType DEF IoFailRestore
    <3> QED BY SMTT(30), <2>1, <2>3, <3>1 DEF IoFailRestore, NextRestore
  <2> QED BY <1>1, <2>2, <2>3
<1>2. CASE IoDeliver
  <2>1. requests' \in Seq(QueueItem)
    BY <1>2, PutType DEF IoDeliver
  <2> QED BY <1>2, <2>1 DEF IoDeliver
<1>3. CASE IoCommit
  <2>1. storeJobs' \in 0..MaxStoreJobs
    BY <1>3, KitAssumption DEF IoCommit
  <2> QED BY SMTT(30), <1>3, <2>1 DEF IoCommit
<1>4. CASE IoEnd
  <2>1. <<>> \in Seq(Req) /\ 0 \in 0..MaxStoreJobs
    BY KitAssumption, EmptySeq
  <2> QED BY <1>4, <2>1 DEF IoEnd
<1> QED BY <1>1, <1>2, <1>3, <1>4 DEF IoThread

\* The kit starts well typed.
LEMMA TypeInit ==
  Init => TypeOK
<1>1. \A S : <<>> \in Seq(S)
  BY EmptySeq
<1>2. IsFiniteSet({})
  BY FS_EmptySet
<1>3. ASSUME Init
      PROVE  BatchTypeOK
  BY <1>1, <1>3 DEF Init, BatchInit, BatchTypeOK
<1>4. ASSUME Init
      PROVE  stream \in [Req -> Seq(Message)]
  BY <1>1, <1>4 DEF Init
<1>5. 0 \in 0..MaxStoreJobs
  BY KitAssumption
<1> QED BY <1>1, <1>2, <1>3, <1>4, <1>5 DEF Init, TypeOK

\* Every step of the kit keeps the types.
LEMMA TypeStep ==
  TypeOK /\ [Next]_vars => TypeOK'
<1> SUFFICES ASSUME TypeOK, [Next]_vars PROVE TypeOK'
  OBVIOUS
<1>1. CASE \E r \in Req : \/ CallGenerate(r) \/ PutRequest(r) \/ StopGeneration(r)
                         \/ Leave(r) \/ EndStream(r)
  BY <1>1, ClientType
<1>2. CASE GenerationThread
  <2>1. CASE StepNothing \/ EndResponses
    BY <2>1 DEF StepNothing, EndResponses, TypeOK, BatchTypeOK
  <2>2. CASE \E r \in Req :
               \/ HandleNew(r) \/ HandleCancel(r)
               \/ HandleLateRestore(r) \/ HandleFailedRestore(r) \/ HandlePrepared(r)
               \/ InsertReady(r) \/ RejectReady(r)
               \/ RespondProgress(r) \/ RespondToken(r) \/ RespondLast(r)
    BY <2>2, CancelType, HandleType, InsertType, RespondType
  <2> QED
    BY <1>2, <2>1, <2>2, StartDrainType, StartInsertType, EndInsertType,
       AdmitPendingType, CallNextType, CancelAllType, FatalErrorType, FailAllType
    DEF GenerationThread
<1>3. CASE IoThread
  BY <1>3, IoType
<1>4. CASE RequestShutdown \/ Closer
  BY <1>4 DEF RequestShutdown, Closer, CloseIoThread, CloseStore, CloserStep, TypeOK, BatchTypeOK
<1>5. CASE UNCHANGED vars
  BY SMTT(30), <1>5 DEF vars, TypeOK, BatchTypeOK
<1> QED BY <1>1, <1>2, <1>3, <1>4, <1>5 DEF Next

\* Every variable of the kit keeps its type: in particular the sets of
\* active and restoring requests stay finite, so the slot count is a
\* number whatever the requests do.
THEOREM TypeCorrect == Spec => []TypeOK
BY TypeInit, TypeStep, PTL DEF Spec

-----------------------------------------------------------------------------
(* Shutdown closes the cache store last.  StoreClosedLast is not inductive *)
\* by itself: it has to know that the I/O thread is only told to end once
\* the generation thread is gone, that nobody but the generation thread
\* queues store and restore jobs, and that an ended I/O thread left its
\* queue empty.

\* Who has ended when, between the two threads and the shutdown caller.
ShutdownOrder ==
  /\ closer \in {"closing", "closed"} => phase = "exited"
  /\ ioEnded => closer \in {"closing", "closed"}
  /\ ioEnded => restoreJobs = <<>> /\ storeJobs = 0 /\ ioJob = NoReq
  /\ closer = "closed" => ioEnded

\* The generation thread works only before it exits, and leaves the shutdown
\* caller and the I/O thread's own state alone.
LEMMA GenerationThreadLives ==
  ASSUME GenerationThread
  PROVE  /\ phase # "exited"
         /\ UNCHANGED <<closer, ioEnded, ioJob>>
<1>1. CASE StartDrain \/ StartInsert \/ EndInsert \/ AdmitPending \/ StepNothing
           \/ CallNext \/ EndResponses
  BY <1>1 DEF StartDrain, StartInsert, EndInsert, AdmitPending, StepNothing,
              CallNext, EndResponses
<1>2. CASE CancelAll \/ FatalError \/ FailAll
  BY <1>2 DEF CancelAll, FatalError, FailAll, ThreadGone
<1>3. CASE \E r \in Req :
             \/ HandleNew(r) \/ HandleCancel(r)
             \/ HandleLateRestore(r) \/ HandleFailedRestore(r) \/ HandlePrepared(r)
  BY <1>3 DEF HandleNew, HandleCancel, HandleLateRestore, HandleFailedRestore,
              HandlePrepared, NextItem
<1>4. CASE \E r \in Req : InsertReady(r) \/ RejectReady(r)
  BY <1>4 DEF InsertReady, RejectReady, NextReady
<1>5. CASE \E r \in Req : RespondProgress(r) \/ RespondToken(r) \/ RespondLast(r)
  BY <1>5 DEF RespondProgress, RespondToken, RespondLast, NextResponse
<1> QED BY <1>1, <1>2, <1>3, <1>4, <1>5 DEF GenerationThread

\* Every step keeps the order of the shutdown.
LEMMA ShutdownOrderStep ==
  ShutdownOrder /\ [Next]_vars => ShutdownOrder'
<1> SUFFICES ASSUME ShutdownOrder, [Next]_vars PROVE ShutdownOrder'
  OBVIOUS
<1> USE DEF ShutdownOrder
<1>1. CASE \E r \in Req : \/ CallGenerate(r) \/ PutRequest(r) \/ StopGeneration(r)
                         \/ Leave(r) \/ EndStream(r)
  BY <1>1 DEF CallGenerate, PutRequest, StopGeneration, Leave, EndStream, ClientUnchanged
<1>2. CASE GenerationThread
  BY <1>2, GenerationThreadLives
<1>3. CASE IoThread
  <2>1. UNCHANGED <<phase, closer>>
    BY <1>3 DEF IoThread, IoRestore, IoFailRestore, NextRestore, IoDeliver, IoCommit,
                IoEnd, IoUnchanged
  <2>2. ~ioEnded
    BY <1>3 DEF IoThread, IoRestore, IoFailRestore, NextRestore, IoDeliver, IoCommit,
                IoEnd, IoIdle
  <2>3. ioEnded' => IoEnd
    BY <1>3, <2>2 DEF IoThread, IoRestore, IoFailRestore, NextRestore, IoDeliver, IoCommit
  <2> QED BY <2>1, <2>2, <2>3 DEF IoEnd, IoIdle, IoPill
<1>4. CASE RequestShutdown \/ Closer
  BY <1>4 DEF RequestShutdown, Closer, CloseIoThread, CloseStore, CloserStep, GenerationJoined
<1>5. CASE UNCHANGED vars
  BY <1>5 DEF vars
<1> QED BY <1>1, <1>2, <1>3, <1>4, <1>5 DEF Next

\* When shutdown() closes the cache store both threads have ended and no
\* job is queued or running that would read or write the closed store,
\* however cancels, failures and restores interleave with the shutdown.
THEOREM StoreIsClosedLast == Spec => []StoreClosedLast
<1>1. Init => ShutdownOrder
  BY DEF Init, ShutdownOrder
<1>2. ShutdownOrder => StoreClosedLast
  BY DEF ShutdownOrder, StoreClosedLast
<1> QED BY <1>1, <1>2, ShutdownOrderStep, PTL DEF Spec

-----------------------------------------------------------------------------
(* Counting in lists.                                                      *)

\* How many elements of list q are in S.
Hits(q, S) == Cardinality({i \in DOMAIN q : q[i] \in S})

\* A condition as a count.
One(b) == IF b THEN 1 ELSE 0

USE DEF One

\* A count is a number no larger than the list, of finitely many places.
LEMMA HitsType ==
  ASSUME NEW T, NEW q \in Seq(T), NEW S
  PROVE  /\ Hits(q, S) \in Nat
         /\ Hits(q, S) <= Len(q)
         /\ IsFiniteSet({i \in DOMAIN q : q[i] \in S})
<1>1. DOMAIN q = 1..Len(q) /\ Len(q) \in Nat
  BY LenProperties
<1>2. IsFiniteSet(1..Len(q)) /\ Cardinality(1..Len(q)) = Len(q)
  BY SMTT(30), <1>1, FS_Interval
<1>3. {i \in DOMAIN q : q[i] \in S} \in SUBSET (1..Len(q))
  BY <1>1
<1> QED BY <1>2, <1>3, FS_Subset, FS_CardinalityType DEF Hits

\* The empty list counts nothing.
LEMMA HitsEmpty == \A S : Hits(<<>>, S) = 0
<1> SUFFICES ASSUME NEW S PROVE Hits(<<>>, S) = 0
  OBVIOUS
<1>1. {i \in DOMAIN <<>> : <<>>[i] \in S} = {}
  OBVIOUS
<1> QED BY <1>1, FS_EmptySet DEF Hits

\* The hits of two lists put one behind the other add up.
LEMMA HitsConcat ==
  ASSUME NEW T, NEW s \in Seq(T), NEW t \in Seq(T), NEW S
  PROVE  Hits(s \o t, S) = Hits(s, S) + Hits(t, S)
<1> DEFINE A == {i \in DOMAIN s : s[i] \in S}
           B == {i \in DOMAIN t : t[i] \in S}
           U == {i \in DOMAIN (s \o t) : (s \o t)[i] \in S}
           C == {i \in U : i > Len(s)}
           f == [i \in B |-> i + Len(s)]
<1>1. /\ DOMAIN s = 1..Len(s) /\ Len(s) \in Nat
      /\ DOMAIN t = 1..Len(t) /\ Len(t) \in Nat
  BY LenProperties
<1>2. /\ s \o t \in Seq(T) /\ Len(s \o t) = Len(s) + Len(t)
      /\ \A i \in 1..(Len(s) + Len(t)) : (s \o t)[i] = IF i <= Len(s) THEN s[i] ELSE t[i - Len(s)]
  BY ConcatProperties
<1>3. DOMAIN (s \o t) = 1..(Len(s) + Len(t))
  BY <1>2, LenProperties
<1>4. U = A \cup C /\ A \cap C = {}
  BY <1>1, <1>2, <1>3
<1>5. f \in Bijection(B, C)
  <2>1. f \in [B -> C]
    BY <1>1, <1>2, <1>3
  <2>2. \A i, j \in B : f[i] = f[j] => i = j
    BY <1>1
  <2>3. \A k \in C : \E i \in B : f[i] = k
    <3> TAKE k \in C
    <3>1. k - Len(s) \in B /\ f[k - Len(s)] = k
      BY <1>1, <1>2, <1>3
    <3> QED BY <3>1
  <2> QED BY <2>1, <2>2, <2>3 DEF Bijection, Injection, Surjection, IsInjective
<1>6. IsFiniteSet(A) /\ IsFiniteSet(B)
  BY HitsType
<1>7. IsFiniteSet(C) /\ Cardinality(C) = Cardinality(B)
  BY <1>5, <1>6, FS_Bijection DEF ExistsBijection
<1>8. Cardinality(A \cup C) = Cardinality(A) + Cardinality(C) - Cardinality(A \cap C)
  BY <1>6, <1>7, FS_Union
<1>9. Cardinality(A \cap C) = 0 /\ Cardinality(A) \in Nat /\ Cardinality(C) \in Nat
  BY <1>4, <1>6, <1>7, FS_EmptySet, FS_CardinalityType
<1>10. Cardinality(U) = Cardinality(A) + Cardinality(B)
  <2> HIDE DEF A, B, C, U
  <2> QED BY <1>4, <1>7, <1>8, <1>9
<1> QED BY <1>10 DEF Hits

\* A list of one element counts it.
LEMMA HitsOfOne == \A x, S : Hits(<<x>>, S) = One(x \in S)
<1> SUFFICES ASSUME NEW x, NEW S PROVE Hits(<<x>>, S) = One(x \in S)
  OBVIOUS
<1>1. {i \in DOMAIN <<x>> : <<x>>[i] \in S} = IF x \in S THEN {1} ELSE {}
  OBVIOUS
<1> QED BY <1>1, FS_EmptySet, FS_Singleton DEF Hits

\* Appending counts the new element.
LEMMA HitsAppend ==
  ASSUME NEW T, NEW q \in Seq(T), NEW x \in T, NEW S
  PROVE  Hits(Append(q, x), S) = Hits(q, S) + One(x \in S)
<1>1. <<x>> \in Seq(T)
  OBVIOUS
<1>2. Append(q, x) = q \o <<x>>
  BY AppendIsConcat
<1>3. Hits(q \o <<x>>, S) = Hits(q, S) + Hits(<<x>>, S)
  BY <1>1, HitsConcat
<1> QED BY <1>2, <1>3, HitsOfOne

\* Taking the head counts it off.
LEMMA HitsTail ==
  ASSUME NEW T, NEW q \in Seq(T), q # <<>>, NEW S
  PROVE  Hits(q, S) = One(Head(q) \in S) + Hits(Tail(q), S)
<1>1. Head(q) \in T /\ Tail(q) \in Seq(T) /\ <<Head(q)>> \in Seq(T)
  BY HeadTailProperties
<1>2. q = <<Head(q)>> \o Tail(q)
  <2>1. Len(q) \in Nat /\ 1 \in 1..Len(q) /\ Len(q) \in 1..Len(q)
    BY EmptySeq
  <2>2. SubSeq(q, 1, Len(q)) = <<q[1]>> \o SubSeq(q, 1 + 1, Len(q))
    BY <2>1, SubSeqRecursiveFirst
  <2>3. Head(q) = q[1] /\ 1 + 1 = 2
    OBVIOUS
  <2> QED BY <2>2, <2>3, SubSeqFull, TailIsSubSeq
<1>3. Hits(<<Head(q)>> \o Tail(q), S) = Hits(<<Head(q)>>, S) + Hits(Tail(q), S)
  BY <1>1, HitsConcat
<1> QED BY <1>2, <1>3, HitsOfOne

\* Nothing is hit exactly when no element is in the set.
LEMMA HitsNone ==
  ASSUME NEW T, NEW q \in Seq(T), NEW S
  PROVE  Hits(q, S) = 0 <=> \A x \in ToSet(q) : x \notin S
<1>1. IsFiniteSet({i \in DOMAIN q : q[i] \in S})
  BY HitsType
<1>2. Hits(q, S) = 0 <=> {i \in DOMAIN q : q[i] \in S} = {}
  BY <1>1, FS_EmptySet DEF Hits
<1> QED BY <1>2 DEF ToSet

\* q, cut at the place Without takes r from.
Cut(q, r, a, h, b) == h = <<r>> /\ q = a \o (h \o b) /\ Without(q, r) = a \o b

\* A list with one entry for r is cut around it, and Without is what is left.
LEMMA WithoutSplit ==
  ASSUME NEW T, NEW q \in Seq(T), NEW r, r \in ToSet(q)
  PROVE  \E a \in Seq(T), h \in Seq(T), b \in Seq(T) : Cut(q, r, a, h, b)
<1>1. PICK i \in DOMAIN q : i = CHOOSE j \in DOMAIN q : q[j] = r
  BY DEF ToSet
<1>2. q[i] = r /\ i \in 1..Len(q) /\ Len(q) \in Nat /\ Len(q) \in i..Len(q)
  BY <1>1, LenProperties DEF ToSet
<1>3. \A j \in 1..Len(q) : q[j] \in T
  BY ElementOfSeq
<1> DEFINE a == SubSeq(q, 1, i-1)
           b == SubSeq(q, i+1, Len(q))
           c == SubSeq(q, i, Len(q))
           h == <<r>>
<1>4. a \in Seq(T) /\ Len(a) = i - 1
  BY <1>2, <1>3, SubSeqProperties
<1>5. b \in Seq(T) /\ Len(b) = Len(q) - i
  BY <1>2, <1>3, SubSeqProperties
<1>6. c \in Seq(T)
  BY <1>2, <1>3, SubSeqProperties
<1>7. h \in Seq(T) /\ h = <<r>>
  BY <1>2, <1>3
<1>8. Without(q, r) = a \o b
  BY <1>1, <1>2, <1>4, <1>5 DEF Without, RemoveAt
<1>9. c = h \o b
  BY <1>2, SubSeqRecursiveFirst
<1>10. q = a \o c
  <2>1. /\ 1 \in 1..(Len(q)+1) /\ i - 1 \in (1-1)..Len(q) /\ Len(q) \in (i-1)..Len(q)
        /\ (i - 1) + 1 = i
    BY <1>2
  <2>2. SubSeq(q, 1, i-1) \o SubSeq(q, (i-1)+1, Len(q)) = SubSeq(q, 1, Len(q))
    BY <2>1, ConcatAdjacentSubSeq
  <2> QED BY <2>1, <2>2, SubSeqFull
<1> HIDE DEF a, b, c, h
<1> QED BY <1>4, <1>5, <1>7, <1>8, <1>9, <1>10 DEF Cut

\* An element that is taken out is hit once less, every other one as before.
LEMMA HitsWithout ==
  ASSUME NEW T, NEW q \in Seq(T), NEW r, r \in ToSet(q), NEW S
  PROVE  /\ Hits(q, S) = Hits(Without(q, r), S) + One(r \in S)
         /\ Len(q) = Len(Without(q, r)) + 1
<1>0. PICK a \in Seq(T), h \in Seq(T), b \in Seq(T) : Cut(q, r, a, h, b)
  BY WithoutSplit
<1>1. h = <<r>> /\ q = a \o (h \o b) /\ Without(q, r) = a \o b
  BY <1>0 DEF Cut
<1>2. h \in Seq(T) /\ Len(h) = 1 /\ Hits(h, S) = One(r \in S)
  BY <1>1, HitsOfOne
<1>3. PICK c \in Seq(T) : c = h \o b
  BY <1>1, <1>2, ConcatProperties
<1>4. Hits(q, S) = Hits(a, S) + Hits(c, S) /\ Hits(c, S) = Hits(h, S) + Hits(b, S)
  <2>1. Hits(a \o c, S) = Hits(a, S) + Hits(c, S)
    BY HitsConcat
  <2>2. Hits(h \o b, S) = Hits(h, S) + Hits(b, S)
    BY <1>2, HitsConcat
  <2> QED BY <1>1, <1>3, <2>1, <2>2
<1>5. Hits(Without(q, r), S) = Hits(a, S) + Hits(b, S)
  <2>1. Hits(a \o b, S) = Hits(a, S) + Hits(b, S)
    BY HitsConcat
  <2>2. Without(q, r) = a \o b
    BY <1>0 DEF Cut
  <2> QED BY <2>1, <2>2
<1>6. Hits(a, S) \in Nat /\ Hits(b, S) \in Nat /\ One(r \in S) \in Nat
  BY HitsType
<1>7. Hits(q, S) = Hits(Without(q, r), S) + One(r \in S)
  BY <1>2, <1>4, <1>5, <1>6
<1>8. Len(q) = Len(Without(q, r)) + 1
  <2>1. Len(q) = Len(a) + Len(c) /\ Len(c) = 1 + Len(b) /\ Len(Without(q, r)) = Len(a) + Len(b)
    BY <1>1, <1>2, <1>3, ConcatProperties
  <2>2. PICK k \in Nat, l \in Nat : k = Len(a) /\ l = Len(b)
    BY LenProperties
  <2> QED BY <2>1, <2>2
<1> QED BY <1>7, <1>8

-----------------------------------------------------------------------------
(* The inductive invariant.                                                *)

\* How often a list holds request r, and its items and responses by what they say.
In(q, r) == Hits(q, {r})
New(q, r) == Hits(q, {Item("new", r)})
Results(q, r) == Hits(q, {Item("prepared", r), Item("failed", r)})
Decoded(q, r) == Hits(q, {Item("token", r), Item("last", r)})
Reported(q, r) == Hits(q, {Item("progress", r), Item("final", r)})

\* Requests whose generate() has put them on the queue.
Accepted == {r \in Req : client[r] \in {"waiting", "ended"}}

\* What the generation thread's for-loop is going through, by phase.
WorkFits ==
  /\ phase \in {"top", "admit", "step"} => work = <<>>
  /\ phase = "drain" => work \in Seq(QueueItem)
  /\ phase = "insert" => \A item \in ToSet(work) : item \in QueueItem /\ item.kind = "prepared"
  /\ phase = "respond" => work \in Seq(Response)

\* Whatever is held anywhere was accepted, and a cancel was asked for.
Known ==
  /\ \A item \in ToSet(requests) \cup ToSet(work) :
       IF item.kind = "cancel" THEN item.id \in stopped \/ client[item.id] = "ended"
       ELSE item.id \in Accepted
  /\ ToSet(pending) \cup ToSet(ready) \cup restoring \cup active \cup ToSet(restoreJobs)
       \cup ({ioJob} \ {NoReq}) \subseteq Accepted
  /\ \A r \in Req : r \notin Accepted => stream[r] = <<>>

\* state.ready as the insert loop will leave it.
ReadyIn(r) == IF phase = "insert" THEN Results(work, r) ELSE In(ready, r)

\* In how many places a request is held: still queued, in line, ready, restoring, active.
Held(r) == New(requests, r) + New(work, r) + In(pending, r) + ReadyIn(r)
             + One(r \in restoring) + One(r \in active)

\* A request is held once from the moment it is queued until it is answered.
Accounted(r) == Held(r) = IF r \in Accepted /\ ~Answered(r) THEN 1 ELSE 0

\* The restore jobs and restore results of r that are on their way.
Outstanding(r) == In(restoreJobs, r) + One(ioJob = r) + Results(requests, r)
                    + (IF phase = "drain" THEN Results(work, r) ELSE 0)

\* One is on its way exactly while the generation thread waits for it, or has
\* cancelled the request it is for.
Restores(r) ==
  /\ r \notin restoring \cap cancelledRestores
  /\ r \in cancelledRestores => Answered(r)
  /\ Outstanding(r) = One(r \in restoring \cup cancelledRestores)

\* A request stands in line, or waits for its restore, at most once.
LinedUp(r) == In(restoreJobs, r) + In(pending, r) + New(work, r) + New(requests, r) <= 1

\* The batch generator has one row for an active request and none for another.
OneRow(r) == In(unprocessed, r) + One(prefilling = r) + In(decoding, r) = One(r \in active)

\* ... and so as many rows as requests are active.
RowCount == Cardinality(active) = Len(unprocessed) + Len(decoding) + One(prefilling # NoReq)

\* While responses are handed out, each one is about a row that still exists:
\* at most one is left for a request.
Replied(r) ==
  phase = "respond" =>
    /\ Reported(work, r) + Decoded(work, r) <= One(r \in active)
    /\ Decoded(work, r) <= In(decoding, r)

\* The slots in use: active, ready and restoring requests.
SlotCount == Cardinality(active)
  + (IF phase = "insert" THEN Len(work) ELSE Len(ready)) + Cardinality(restoring)

\* What a response queue holds before the first token.
Prefill == {"begin", "progress", "final"}

\* Which messages a response queue may hold, by where its request is.
Streams(r) ==
  /\ phase # "exited" /\ r \notin active /\ ~Answered(r) => stream[r] = <<>>
  /\ r \in active =>
       ToSet(stream[r]) \subseteq Prefill \cup {"token"} \cup (IF Alive THEN {} ELSE {"last"})
  /\ Alive /\ r \in active /\ r \notin ToSet(decoding) => ToSet(stream[r]) \subseteq Prefill
  /\ phase = "respond" /\ Reported(work, r) > 0 => ToSet(stream[r]) \subseteq Prefill

\* How many tokens r got.
Emitted(r) == Hits(stream[r], {"token", "last"})

\* r got one token for each decode step of its row, no more than it asked for;
\* the row that reached the limit has its last response among those handed out.
Emits(r) ==
  /\ Emitted(r) <= MaxTokens
  /\ Alive /\ r \in ToSet(decoding) =>
       /\ Emitted(r) + (IF phase = "respond" THEN Decoded(work, r) ELSE 0) = steps[r]
       /\ steps[r] <= MaxTokens
       /\ steps[r] = MaxTokens => phase = "respond" /\ Item("last", r) \in ToSet(work)

\* All that can be in the work of the generation thread.
Items == QueueItem \cup Response

\* Every count is a number.
LEMMA CountTypes ==
  ASSUME TypeOK
  PROVE  \A r \in Req :
    /\ New(requests, r) \in Nat /\ Results(requests, r) \in Nat
    /\ New(work, r) \in Nat /\ Results(work, r) \in Nat
    /\ Reported(work, r) \in Nat /\ Decoded(work, r) \in Nat
    /\ In(pending, r) \in Nat /\ In(ready, r) \in Nat /\ In(restoreJobs, r) \in Nat
    /\ In(unprocessed, r) \in Nat /\ In(decoding, r) \in Nat
<1> SUFFICES ASSUME NEW r \in Req
             PROVE /\ New(requests, r) \in Nat /\ Results(requests, r) \in Nat
                   /\ New(work, r) \in Nat /\ Results(work, r) \in Nat
                   /\ Reported(work, r) \in Nat /\ Decoded(work, r) \in Nat
                   /\ In(pending, r) \in Nat /\ In(ready, r) \in Nat /\ In(restoreJobs, r) \in Nat
                   /\ In(unprocessed, r) \in Nat /\ In(decoding, r) \in Nat
  OBVIOUS
<1>1. /\ pending \in Seq(Req) /\ ready \in Seq(Req) /\ restoreJobs \in Seq(Req)
      /\ unprocessed \in Seq(Req) /\ decoding \in Seq(Req)
      /\ requests \in Seq(QueueItem) /\ work \in Seq(Items)
  BY DEF TypeOK, BatchTypeOK, Items
<1>2. \A q \in Seq(Req) : In(q, r) \in Nat
  BY HitsType DEF In
<1>3. \A q \in Seq(QueueItem) : New(q, r) \in Nat /\ Results(q, r) \in Nat
  BY HitsType DEF New, Results
<1>4. \A q \in Seq(Items) : /\ New(q, r) \in Nat /\ Results(q, r) \in Nat
                            /\ Reported(q, r) \in Nat /\ Decoded(q, r) \in Nat
  BY HitsType DEF New, Results, Reported, Decoded
<1> QED BY <1>1, <1>2, <1>3, <1>4

\* ... of any list.
LEMMA Numbers ==
  /\ \A q \in Seq(Items) : \A r \in Req :
       /\ New(q, r) \in Nat /\ Results(q, r) \in Nat
       /\ Reported(q, r) \in Nat /\ Decoded(q, r) \in Nat
  /\ \A q \in Seq(Req) : \A r \in Req : In(q, r) \in Nat
BY HitsType DEF New, Results, Reported, Decoded, In

\* Empty lists count nothing.
LEMMA NothingCounted ==
  \A r \in Req :
    /\ In(<<>>, r) = 0
    /\ New(<<>>, r) = 0 /\ Results(<<>>, r) = 0
    /\ Reported(<<>>, r) = 0 /\ Decoded(<<>>, r) = 0
BY HitsEmpty DEF In, New, Results, Reported, Decoded

\* What an item adds to the counts of its list.
LEMMA ItemCounts ==
  ASSUME NEW q \in Seq(Items), NEW item \in Items, NEW x \in Req
  PROVE  /\ New(Append(q, item), x) =
              New(q, x) + One(item.kind = "new" /\ item.id = x)
         /\ Results(Append(q, item), x) =
              Results(q, x) + One(item.kind \in {"prepared", "failed"} /\ item.id = x)
<1>1. item \in {Item("new", x)} <=> item.kind = "new" /\ item.id = x
  BY DEF Item, Items, QueueItem, Response
<1>2. item \in {Item("prepared", x), Item("failed", x)} <=>
        item.kind \in {"prepared", "failed"} /\ item.id = x
  BY DEF Item, Items, QueueItem, Response
<1>3. New(Append(q, item), x) = New(q, x) + One(item \in {Item("new", x)})
  BY HitsAppend DEF New
<1>4. Results(Append(q, item), x) =
        Results(q, x) + One(item \in {Item("prepared", x), Item("failed", x)})
  BY HitsAppend DEF Results
<1> QED BY <1>1, <1>2, <1>3, <1>4

\* What the head of a list counts.
LEMMA HeadCounts ==
  ASSUME NEW q \in Seq(Items), q # <<>>, NEW x \in Req
  PROVE  /\ New(q, x) = New(Tail(q), x) + One(Head(q).kind = "new" /\ Head(q).id = x)
         /\ Results(q, x) = Results(Tail(q), x)
              + One(Head(q).kind \in {"prepared", "failed"} /\ Head(q).id = x)
         /\ Reported(q, x) = Reported(Tail(q), x)
              + One(Head(q).kind \in {"progress", "final"} /\ Head(q).id = x)
         /\ Decoded(q, x) = Decoded(Tail(q), x)
              + One(Head(q).kind \in {"token", "last"} /\ Head(q).id = x)
<1>1. PICK item \in Items : item = Head(q)
  BY HeadTailProperties
<1>2. item \in {Item("new", x)} <=> item.kind = "new" /\ item.id = x
  BY DEF Item, Items, QueueItem, Response
<1>3. item \in {Item("prepared", x), Item("failed", x)} <=>
        item.kind \in {"prepared", "failed"} /\ item.id = x
  BY DEF Item, Items, QueueItem, Response
<1>4. item \in {Item("progress", x), Item("final", x)} <=>
        item.kind \in {"progress", "final"} /\ item.id = x
  BY DEF Item, Items, QueueItem, Response
<1>5. item \in {Item("token", x), Item("last", x)} <=>
        item.kind \in {"token", "last"} /\ item.id = x
  BY DEF Item, Items, QueueItem, Response
<1>6. PICK t \in Seq(Items) : t = Tail(q)
  BY HeadTailProperties
<1>7. \A S : Hits(q, S) = One(item \in S) + Hits(t, S) /\ Hits(t, S) \in Nat
  BY <1>1, <1>6, HitsTail, HitsType
<1>8. New(q, x) = One(item \in {Item("new", x)}) + New(t, x) /\ New(t, x) \in Nat
  BY <1>7 DEF New
<1>9. Results(q, x) = One(item \in {Item("prepared", x), Item("failed", x)}) + Results(t, x)
      /\ Results(t, x) \in Nat
  BY <1>7 DEF Results
<1>10. Reported(q, x) = One(item \in {Item("progress", x), Item("final", x)}) + Reported(t, x)
       /\ Reported(t, x) \in Nat
  BY <1>7 DEF Reported
<1>11. Decoded(q, x) = One(item \in {Item("token", x), Item("last", x)}) + Decoded(t, x)
       /\ Decoded(t, x) \in Nat
  BY <1>7 DEF Decoded
<1>12. New(q, x) = New(t, x) + One(item.kind = "new" /\ item.id = x)
  BY <1>2, <1>8
<1>13. Results(q, x) = Results(t, x) + One(item.kind \in {"prepared", "failed"} /\ item.id = x)
  BY <1>3, <1>9
<1>14. Reported(q, x) = Reported(t, x) + One(item.kind \in {"progress", "final"} /\ item.id = x)
  BY <1>4, <1>10
<1>15. Decoded(q, x) = Decoded(t, x) + One(item.kind \in {"token", "last"} /\ item.id = x)
  BY <1>5, <1>11
<1> QED BY <1>1, <1>6, <1>12, <1>13, <1>14, <1>15

\* The same for lists of requests.
LEMMA InCounts ==
  ASSUME NEW q \in Seq(Req), NEW x \in Req
  PROVE  /\ \A r \in Req : In(Append(q, r), x) = In(q, x) + One(r = x)
         /\ q # <<>> => In(q, x) = In(Tail(q), x) + One(Head(q) = x)
         /\ \A r \in ToSet(q) : /\ In(q, x) = In(Without(q, r), x) + One(r = x)
                                /\ Len(q) = Len(Without(q, r)) + 1
         /\ In(q, x) = 0 <=> x \notin ToSet(q)
<1>1. \A r \in Req : In(Append(q, r), x) = In(q, x) + One(r = x)
  BY HitsAppend DEF In
<1>2. ASSUME q # <<>>
      PROVE  In(q, x) = In(Tail(q), x) + One(Head(q) = x)
  <2>1. PICK h \in Req, t \in Seq(Req) : h = Head(q) /\ t = Tail(q)
    BY <1>2, HeadTailProperties
  <2>2. Hits(q, {x}) = One(h \in {x}) + Hits(t, {x}) /\ Hits(t, {x}) \in Nat
    BY <1>2, <2>1, HitsTail, HitsType
  <2> QED BY <2>1, <2>2 DEF In
<1>3. ASSUME NEW r \in ToSet(q)
      PROVE  /\ In(q, x) = In(Without(q, r), x) + One(r = x)
             /\ Len(q) = Len(Without(q, r)) + 1
  BY HitsWithout DEF In
<1>4. In(q, x) = 0 <=> x \notin ToSet(q)
  BY HitsNone DEF In
<1> QED BY <1>1, <1>2, <1>3, <1>4

\* A list has an element exactly when it is counted.
LEMMA ItemsCounted ==
  ASSUME NEW q \in Seq(Items), NEW x \in Req
  PROVE  /\ New(q, x) = 0 <=> Item("new", x) \notin ToSet(q)
         /\ Results(q, x) = 0 <=>
              Item("prepared", x) \notin ToSet(q) /\ Item("failed", x) \notin ToSet(q)
         /\ Reported(q, x) = 0 <=>
              Item("progress", x) \notin ToSet(q) /\ Item("final", x) \notin ToSet(q)
         /\ Decoded(q, x) = 0 <=>
              Item("token", x) \notin ToSet(q) /\ Item("last", x) \notin ToSet(q)
<1>1. \A S : Hits(q, S) = 0 <=> \A y \in ToSet(q) : y \notin S
  BY HitsNone
<1> QED BY <1>1 DEF New, Results, Reported, Decoded

\* What a list holds when an element is appended or its head taken.
LEMMA ToSetChanges ==
  ASSUME NEW T, NEW q \in Seq(T)
  PROVE  /\ \A x \in T : ToSet(Append(q, x)) = ToSet(q) \cup {x}
         /\ q # <<>> => ToSet(q) = {Head(q)} \cup ToSet(Tail(q))
         /\ \A r : ToSet(Without(q, r)) \subseteq ToSet(q)
         /\ ToSet(<<>>) = {}
         /\ q = <<>> <=> ToSet(q) = {}
<1>1. \A x \in T : ToSet(Append(q, x)) = ToSet(q) \cup {x}
  <2> TAKE x \in T
  <2>1. PICK a \in Seq(T) : a = Append(q, x)
    BY AppendProperties
  <2>2. PICK n \in Nat : n = Len(q) /\ Len(a) = n + 1 /\ DOMAIN q = 1..n /\ DOMAIN a = 1..(n+1)
                         /\ a[n+1] = x /\ \A i \in 1..n : a[i] = q[i]
    BY <2>1, AppendProperties, LenProperties
  <2> QED BY <2>1, <2>2 DEF ToSet
<1>2. ASSUME q # <<>>
      PROVE  ToSet(q) = {Head(q)} \cup ToSet(Tail(q))
  <2>1. PICK t \in Seq(T) : t = Tail(q)
    BY <1>2, HeadTailProperties
  <2>2. PICK n \in Nat : n = Len(q) /\ n > 0 /\ Len(t) = n - 1 /\ DOMAIN q = 1..n
                         /\ DOMAIN t = 1..(n-1)
                         /\ \A i \in 1..(n-1) : t[i] = q[i+1]
    BY <1>2, <2>1, EmptySeq, HeadTailProperties, LenProperties
  <2>3. Head(q) = q[1]
    OBVIOUS
  <2>4. ASSUME NEW i \in 1..n
        PROVE  i = 1 \/ (i - 1 \in 1..(n-1) /\ q[i] = t[i-1])
    BY <2>2
  <2>5. \A y \in ToSet(q) : y = q[1] \/ y \in ToSet(t)
    BY <2>2, <2>4 DEF ToSet
  <2>6. \A y \in ToSet(t) \cup {q[1]} : y \in ToSet(q)
    BY <2>2 DEF ToSet
  <2> QED BY <2>1, <2>3, <2>5, <2>6
<1>3. ASSUME NEW r
      PROVE  ToSet(Without(q, r)) \subseteq ToSet(q)
  <2>1. CASE r \notin ToSet(q)
    BY <2>1 DEF Without
  <2>2. CASE r \in ToSet(q)
    <3>1. PICK w \in Seq(T) : w = Without(q, r)
      BY WithoutType
    <3>2. ASSUME NEW y \in ToSet(w)
          PROVE  y \in ToSet(q)
      <4>1. Hits(q, {y}) = Hits(w, {y}) + One(r \in {y}) /\ Hits(q, {y}) \in Nat /\ Hits(w, {y}) \in Nat
        <5>1. Hits(q, {y}) = Hits(Without(q, r), {y}) + One(r \in {y})
          BY <2>2, HitsWithout
        <5>2. Hits(q, {y}) \in Nat /\ Hits(w, {y}) \in Nat
          BY HitsType
        <5> QED BY <3>1, <5>1, <5>2
      <4>2. Hits(w, {y}) # 0
        BY <3>2, HitsNone
      <4>3. Hits(q, {y}) # 0
        BY <4>1, <4>2
      <4> QED BY <4>3, HitsNone
    <3> QED BY <3>1, <3>2
  <2> QED BY <2>1, <2>2
<1>4. ToSet(<<>>) = {}
  BY DEF ToSet
<1>5. q = <<>> <=> ToSet(q) = {}
  <2>1. ASSUME q # <<>>
        PROVE  q[1] \in ToSet(q)
    <3>1. Len(q) \in Nat \ {0} /\ DOMAIN q = 1..Len(q)
      BY <2>1, EmptySeq, LenProperties
    <3> QED BY <3>1 DEF ToSet
  <2> QED BY <1>4, <2>1
<1> QED BY <1>1, <1>2, <1>3, <1>4, <1>5

\* The part of the invariant that is said of one request.
OneRequest(r) ==
  /\ Alive => Accounted(r) /\ Restores(r)
  /\ LinedUp(r) /\ OneRow(r) /\ Replied(r)

\* What is said of the requests: with TypeOK and ShutdownOrder it is inductive.
Rest ==
  /\ WorkFits
  /\ Known
  /\ Alive => SlotCount <= MaxSeqNums
  /\ \A r \in Req : OneRequest(r)
  /\ RowCount

\* What the invariant looks at, the clients apart.
lifeVars == <<stream, requests, phase, work, active, pending, ready, restoring,
              cancelledRestores, unprocessed, prefilling, decoding, restoreJobs, ioJob>>

\* A step that leaves all of it alone, and forgets no accepted request, keeps the
\* invariant.
LEMMA SameLife ==
  ASSUME Rest, UNCHANGED lifeVars, Accepted' = Accepted, stopped \subseteq stopped',
         \A r \in Req : client[r] = "ended" => client'[r] = "ended",
         \A item \in ToSet(requests) \cup ToSet(work) : item.kind = "cancel" => item.id \in Req
  PROVE  Rest'
<1> USE DEF lifeVars
<1>1. WorkFits'
  BY DEF Rest, WorkFits
<1>2. Known'
  BY DEF Rest, Known
<1>3. (Alive => SlotCount <= MaxSeqNums)'
  BY DEF Rest, Alive, SlotCount
<1>4. \A r \in Req : OneRequest(r)'
  BY DEF Rest, OneRequest, Alive, Accounted, Held, ReadyIn, Answered, Restores, Outstanding, LinedUp, OneRow, Replied
<1>5. RowCount'
  BY DEF Rest, RowCount
<1> QED BY <1>1, <1>2, <1>3, <1>4, <1>5 DEF Rest

\* The empty list holds nothing.
LEMMA EmptyHasNone == ToSet(<<>>) = {}
BY DEF ToSet

\* Every queued item is about a request.
LEMMA ItemIds ==
  ASSUME TypeOK
  PROVE  /\ \A item \in ToSet(requests) : item \in QueueItem /\ item.id \in Req
         /\ \A item \in ToSet(work) : item \in Items /\ item.id \in Req
<1>1. ToSet(requests) \subseteq QueueItem /\ ToSet(work) \subseteq Items
  BY ToSetSubset DEF TypeOK, Items
<1> QED BY <1>1, ItemFields DEF Items

\* An item put on the queue is counted, known, and nothing else is.
LEMMA ItemPut ==
  ASSUME TypeOK, NEW r \in Req, NEW kind \in {"new", "cancel", "prepared", "failed"},
         Put(Item(kind, r))
  PROVE  /\ \A x \in Req :
              /\ New(requests', x) = New(requests, x) + One(kind = "new" /\ r = x)
              /\ Results(requests', x) =
                   Results(requests, x) + One(kind \in {"prepared", "failed"} /\ r = x)
         /\ ToSet(requests') = ToSet(requests) \cup {Item(kind, r)}
<1>1. requests \in Seq(Items) /\ requests \in Seq(QueueItem)
  BY SeqMonotonic DEF TypeOK, Items
<1>2. PICK item \in Items : item = Item(kind, r) /\ item.kind = kind /\ item.id = r
                            /\ requests' = Append(requests, item)
  BY ItemType DEF Items, Put, Item
<1>3. ToSet(requests') = ToSet(requests) \cup {item}
  BY <1>1, <1>2, ToSetChanges
<1> QED BY <1>1, <1>2, <1>3, ItemCounts

\* The item at the head of the work leaves it.
LEMMA ItemTaken ==
  ASSUME TypeOK, work # <<>>, work' = Tail(work)
  PROVE  /\ \A x \in Req :
              /\ New(work, x) = New(work', x) + One(Head(work).kind = "new" /\ Head(work).id = x)
              /\ Results(work, x) = Results(work', x)
                   + One(Head(work).kind \in {"prepared", "failed"} /\ Head(work).id = x)
              /\ Reported(work, x) = Reported(work', x)
                   + One(Head(work).kind \in {"progress", "final"} /\ Head(work).id = x)
              /\ Decoded(work, x) = Decoded(work', x)
                   + One(Head(work).kind \in {"token", "last"} /\ Head(work).id = x)
              /\ New(work', x) \in Nat /\ Results(work', x) \in Nat
              /\ Reported(work', x) \in Nat /\ Decoded(work', x) \in Nat
         /\ ToSet(work) = {Head(work)} \cup ToSet(work')
         /\ Len(work') = Len(work) - 1
         /\ \A S : work \in Seq(S) => work' \in Seq(S) /\ Head(work) \in S
<1>1. work \in Seq(Items) /\ work' \in Seq(Items)
  BY HeadTailProperties DEF TypeOK, Items
<1>2. \A x \in Req :
        /\ New(work, x) = New(work', x) + One(Head(work).kind = "new" /\ Head(work).id = x)
        /\ Results(work, x) = Results(work', x)
             + One(Head(work).kind \in {"prepared", "failed"} /\ Head(work).id = x)
        /\ Reported(work, x) = Reported(work', x)
             + One(Head(work).kind \in {"progress", "final"} /\ Head(work).id = x)
        /\ Decoded(work, x) = Decoded(work', x)
             + One(Head(work).kind \in {"token", "last"} /\ Head(work).id = x)
  BY <1>1, HeadCounts
<1>3. \A x \in Req : /\ New(work', x) \in Nat /\ Results(work', x) \in Nat
                     /\ Reported(work', x) \in Nat /\ Decoded(work', x) \in Nat
  BY <1>1, Numbers
<1>4. ToSet(work) = {Head(work)} \cup ToSet(work')
  BY <1>1, ToSetChanges
<1>5. Len(work') = Len(work) - 1
  BY <1>1, HeadTailProperties
<1>6. \A S : work \in Seq(S) => work' \in Seq(S) /\ Head(work) \in S
  BY HeadTailProperties
<1> QED BY <1>2, <1>3, <1>4, <1>5, <1>6

-----------------------------------------------------------------------------
(* Client threads.                                                         *)

\* A caller enters generate().
LEMMA CallGenerateKeeps ==
  ASSUME TypeOK, Rest, NEW r \in Req, CallGenerate(r)
  PROVE  Rest'
<1>1. Accepted' = Accepted /\ \A x \in Req : client[x] = "ended" => client'[x] = "ended"
  BY DEF CallGenerate, Accepted, TypeOK
<1> QED BY <1>1, SameLife, ItemIds DEF CallGenerate, ClientUnchanged, lifeVars

\* A caller reads the end of its stream.
LEMMA EndStreamKeeps ==
  ASSUME TypeOK, Rest, NEW r \in Req, EndStream(r)
  PROVE  Rest'
<1>1. Accepted' = Accepted /\ \A x \in Req : client[x] = "ended" => client'[x] = "ended"
  BY DEF EndStream, Accepted, TypeOK
<1> QED BY <1>1, SameLife, ItemIds DEF EndStream, ClientUnchanged, lifeVars

\* A cancel item moves nothing.
LEMMA AskKeeps ==
  ASSUME TypeOK, Rest, NEW r \in Req, StopGeneration(r) \/ Leave(r)
  PROVE  Rest'
<1>0. /\ Put(Item("cancel", r)) /\ ClientUnchanged
      /\ Accepted' = Accepted /\ stopped \subseteq stopped'
      /\ \A x \in Req : client[x] = "ended" => client'[x] = "ended"
      /\ r \in stopped' \/ client'[r] = "ended"
  BY DEF StopGeneration, Leave, Accepted, TypeOK
<1> USE DEF ClientUnchanged
<1>1. /\ \A x \in Req : New(requests', x) = New(requests, x) /\ Results(requests', x) = Results(requests, x)
      /\ ToSet(requests') = ToSet(requests) \cup {Item("cancel", r)}
  <2>1. \A x \in Req : New(requests, x) \in Nat /\ Results(requests, x) \in Nat
    BY CountTypes
  <2> QED BY <1>0, <2>1, ItemPut
<1>2. WorkFits'
  BY <1>0 DEF Rest, WorkFits
<1>3. Known'
  BY <1>0, <1>1, ItemIds DEF Rest, Known, Item
<1>4. (Alive => SlotCount <= MaxSeqNums)'
  BY <1>0 DEF Rest, Alive, SlotCount
<1>5. \A x \in Req : OneRequest(x)'
  BY <1>0, <1>1 DEF Rest, OneRequest, Alive, Accounted, Held, ReadyIn, Answered, Restores,
                    Outstanding, LinedUp, OneRow, Replied
<1>6. RowCount'
  BY <1>0 DEF Rest, RowCount
<1> QED BY <1>2, <1>3, <1>4, <1>5, <1>6 DEF Rest

\* generate() queues the request: it is held from here on.
LEMMA PutRequestKeeps ==
  ASSUME TypeOK, Rest, NEW r \in Req, PutRequest(r)
  PROVE  Rest'
<1>0. /\ Put(Item("new", r)) /\ ClientUnchanged /\ UNCHANGED stopped
      /\ Accepted' = Accepted \cup {r} /\ r \notin Accepted
      /\ \A x \in Req : client[x] = "ended" => client'[x] = "ended"
  BY DEF PutRequest, Accepted, TypeOK
<1> USE DEF ClientUnchanged
<1>1. /\ \A x \in Req : /\ New(requests', x) = New(requests, x) + One(r = x)
                        /\ Results(requests', x) = Results(requests, x)
      /\ ToSet(requests') = ToSet(requests) \cup {Item("new", r)}
  <2>1. \A x \in Req : New(requests, x) \in Nat /\ Results(requests, x) \in Nat
    BY CountTypes
  <2> QED BY <1>0, <2>1, ItemPut
<1>2. WorkFits'
  BY <1>0 DEF Rest, WorkFits
<1>3. Known'
  BY <1>0, <1>1, ItemIds DEF Rest, Known, Item
<1>4. (Alive => SlotCount <= MaxSeqNums)'
  BY <1>0 DEF Rest, Alive, SlotCount
<1>5. stream[r] = <<>> /\ ~Answered(r)
  BY <1>0, EmptyHasNone DEF Rest, Known, Answered
<1>6. New(requests, r) = 0 /\ New(work, r) = 0 /\ In(pending, r) = 0 /\ In(restoreJobs, r) = 0
  <2>1. requests \in Seq(Items) /\ work \in Seq(Items)
    BY SeqMonotonic DEF TypeOK, Items
  <2>2. pending \in Seq(Req) /\ restoreJobs \in Seq(Req)
    BY DEF TypeOK
  <2>3. Item("new", r) \notin ToSet(requests) \cup ToSet(work)
    BY <1>0 DEF Rest, Known, Item
  <2>4. r \notin ToSet(pending) \cup ToSet(restoreJobs)
    BY <1>0 DEF Rest, Known, Item
  <2> QED BY <2>1, <2>2, <2>3, <2>4, ItemsCounted, InCounts
<1>7. \A x \in Req : OneRequest(x)'
  <2> TAKE x \in Req
  <2>1. (Alive => Accounted(x))'
    <3>1. Answered(x)' <=> Answered(x)
      BY <1>0 DEF Answered
    <3>2. Alive' <=> Alive
      BY <1>0 DEF Alive
    <3>3. ReadyIn(x)' = ReadyIn(x) /\ ReadyIn(x) \in Nat
      BY <1>0, CountTypes DEF ReadyIn
    <3>4. Held(x)' = Held(x) + One(r = x) /\ Held(x) \in Nat
      BY <1>0, <1>1, <3>3, CountTypes DEF Held
    <3> QED BY <1>0, <1>5, <3>1, <3>2, <3>4 DEF Rest, OneRequest, Accounted
  <2>2. (Alive => Restores(x))'
    BY <1>0, <1>1 DEF Rest, OneRequest, Alive, Restores, Outstanding, Answered
  <2>3. LinedUp(x)'
    BY <1>0, <1>1, <1>6, CountTypes DEF Rest, OneRequest, LinedUp
  <2>4. OneRow(x)' /\ Replied(x)'
    BY <1>0 DEF Rest, OneRequest, OneRow, Replied
  <2> QED BY <2>1, <2>2, <2>3, <2>4 DEF OneRequest
<1>8. RowCount'
  BY <1>0 DEF Rest, RowCount
<1> QED BY <1>2, <1>3, <1>4, <1>7, <1>8 DEF Rest

\* Where the elements of a concatenation are.
LEMMA ConcatElements ==
  ASSUME NEW T, NEW s \in Seq(T), NEW t \in Seq(T)
  PROVE  ToSet(s \o t) = ToSet(s) \cup ToSet(t)
<1>1. PICK u \in Seq(T) : u = s \o t
  BY ConcatProperties
<1>2. PICK m \in Nat, n \in Nat :
        /\ m = Len(s) /\ n = Len(t) /\ DOMAIN s = 1..m /\ DOMAIN t = 1..n
        /\ DOMAIN u = 1..(m+n)
        /\ \A i \in 1..(m+n) : u[i] = IF i <= m THEN s[i] ELSE t[i-m]
  BY <1>1, ConcatProperties, LenProperties
<1>3. \A i \in 1..m : u[i] = s[i]
  BY <1>2
<1>4. \A i \in 1..n : u[m+i] = t[i] /\ m + i \in 1..(m+n)
  <2> TAKE i \in 1..n
  <2>1. m + i \in 1..(m+n) /\ ~(m + i <= m) /\ (m + i) - m = i
    OBVIOUS
  <2> QED BY <1>2, <2>1
<1>5. \A i \in 1..(m+n) : i \in 1..m \/ i - m \in 1..n
  OBVIOUS
<1>6. \A y \in ToSet(u) : y \in ToSet(s) \cup ToSet(t)
  <2>1. \A i \in 1..(m+n) : i \notin 1..m => i - m \in 1..n /\ u[i] = t[i-m]
    BY <1>2
  <2>2. \A i \in 1..(m+n) : u[i] \in ToSet(s) \cup ToSet(t)
    BY <1>2, <1>3, <2>1 DEF ToSet
  <2> QED BY <1>2, <2>2 DEF ToSet
<1>7. \A y \in ToSet(s) : y \in ToSet(u)
  <2>1. \A i \in 1..m : i \in 1..(m+n)
    OBVIOUS
  <2> QED BY <1>2, <1>3, <2>1 DEF ToSet
<1>8. \A y \in ToSet(t) : y \in ToSet(u)
  <2> SUFFICES ASSUME NEW y \in ToSet(t) PROVE y \in ToSet(u)
    OBVIOUS
  <2>1. PICK i \in 1..n : y = t[i]
    BY <1>2 DEF ToSet
  <2>2. m + i \in DOMAIN u /\ y = u[m+i]
    BY <1>2, <1>4, <2>1
  <2> QED BY <2>2 DEF ToSet
<1> QED BY <1>1, <1>6, <1>7, <1>8

\* What a response queue holds after something is put on it.
LEMMA Sent ==
  ASSUME TypeOK, NEW r \in Req, NEW ms \in Seq(Message), Send(r, ms)
  PROVE  /\ \A x \in Req : x # r => stream'[x] = stream[x] /\ (Answered(x)' <=> Answered(x))
         /\ stream'[r] = stream[r] \o ms
         /\ ToSet(stream'[r]) = ToSet(stream[r]) \cup ToSet(ms)
         /\ Answered(r)' <=> Answered(r) \/ \E m \in Terminals : m \in ToSet(ms)
<1>1. /\ \A x \in Req : x # r => stream'[x] = stream[x]
      /\ stream'[r] = stream[r] \o ms
  BY DEF TypeOK, Send
<1>2. ToSet(stream[r] \o ms) = ToSet(stream[r]) \cup ToSet(ms)
  BY ConcatElements DEF TypeOK
<1>3. ToSet(stream'[r]) = ToSet(stream[r]) \cup ToSet(ms)
  BY <1>1, <1>2
<1>4. \A x \in Req : x # r => (Answered(x)' <=> Answered(x))
  BY <1>1 DEF Answered
<1>5. Answered(r)' <=> Answered(r) \/ \E m \in Terminals : m \in ToSet(ms)
  BY <1>3 DEF Answered
<1> QED BY <1>1, <1>3, <1>4, <1>5

\* A single message.
LEMMA SentOne ==
  ASSUME TypeOK, NEW r \in Req, NEW m \in Message, Send(r, <<m>>)
  PROVE  /\ \A x \in Req : x # r => stream'[x] = stream[x] /\ (Answered(x)' <=> Answered(x))
         /\ stream'[r] = stream[r] \o <<m>>
         /\ ToSet(stream'[r]) = ToSet(stream[r]) \cup {m}
         /\ Answered(r)' <=> Answered(r) \/ m \in Terminals
<1>1. <<m>> \in Seq(Message) /\ ToSet(<<m>>) = {m}
  BY DEF ToSet
<1> QED BY <1>1, Sent

-----------------------------------------------------------------------------
(* drain_generation_events.                                                *)

\* The whole queue becomes the work of the drain.
LEMMA StartDrainKeeps ==
  ASSUME TypeOK, Rest, StartDrain
  PROVE  Rest'
<1> USE DEF StartDrain
<1>1. work = <<>> /\ phase = "top" /\ phase' = "drain" /\ work' = requests /\ requests' = <<>>
  BY DEF Rest, WorkFits
<1>2. \A x \in Req : /\ New(requests', x) = 0 /\ Results(requests', x) = 0
                     /\ New(work, x) = 0 /\ Results(work, x) = 0
                     /\ New(work', x) = New(requests, x) /\ Results(work', x) = Results(requests, x)
  BY <1>1, NothingCounted
<1>3. WorkFits'
  BY <1>1 DEF TypeOK, WorkFits
<1>4. Known'
  BY <1>1, EmptyHasNone DEF Rest, Known, Accepted
<1>5. (Alive => SlotCount <= MaxSeqNums)'
  BY <1>1 DEF Rest, Alive, SlotCount
<1>6. \A x \in Req : OneRequest(x)'
  <2> TAKE x \in Req
  <2>1. Held(x)' = Held(x) /\ (Answered(x)' <=> Answered(x)) /\ Accepted' = Accepted /\ Alive /\ Alive'
    BY <1>1, <1>2, CountTypes DEF Held, ReadyIn, Answered, Accepted, Alive
  <2>2. Restores(x)'
    BY <1>1, <1>2, <2>1, CountTypes DEF Rest, OneRequest, Restores, Outstanding
  <2>3. LinedUp(x)'
    BY <1>1, <1>2, CountTypes DEF Rest, OneRequest, LinedUp
  <2>4. OneRow(x)' /\ Replied(x)'
    BY <1>1 DEF Rest, OneRequest, OneRow, Replied
  <2> QED BY <2>1, <2>2, <2>3, <2>4 DEF Rest, OneRequest, Accounted
<1>7. RowCount'
  BY DEF Rest, RowCount
<1> QED BY <1>3, <1>4, <1>5, <1>6, <1>7 DEF Rest

\* The head of the drained queue is taken off and handled.
LEMMA ItemHandled ==
  ASSUME TypeOK, Rest, NEW r \in Req, NEW kind \in {"new", "cancel", "prepared", "failed"},
         NextItem(kind, r)
  PROVE  /\ Alive /\ Alive' /\ phase = "drain" /\ phase' = "drain"
         /\ \A x \in Req :
              /\ New(work, x) = New(work', x) + One(kind = "new" /\ r = x)
              /\ Results(work, x) = Results(work', x)
                                      + One(kind \in {"prepared", "failed"} /\ r = x)
              /\ New(work', x) \in Nat /\ Results(work', x) \in Nat
         /\ Item(kind, r) \in ToSet(work) /\ ToSet(work') \subseteq ToSet(work)
         /\ WorkFits'
         /\ UNCHANGED <<client, stopped, requests, restoreJobs, ioJob>>
         /\ Accepted' = Accepted
<1>1. work # <<>> /\ Head(work) = Item(kind, r) /\ work' = Tail(work) /\ phase = "drain" /\ phase' = "drain"
      /\ UNCHANGED <<client, stopped, requests, restoreJobs, ioJob>>
  BY DEF NextItem
<1>2. Head(work).kind = kind /\ Head(work).id = r
  BY <1>1 DEF Item
<1>3. \A x \in Req : /\ New(work, x) = New(work', x) + One(kind = "new" /\ r = x)
                     /\ Results(work, x) = Results(work', x)
                                      + One(kind \in {"prepared", "failed"} /\ r = x)
                     /\ New(work', x) \in Nat /\ Results(work', x) \in Nat
  BY <1>1, <1>2, ItemTaken
<1>4. Item(kind, r) \in ToSet(work) /\ ToSet(work') \subseteq ToSet(work)
  BY <1>1, ItemTaken
<1>5. work' \in Seq(QueueItem)
  BY <1>1, ItemTaken DEF Rest, WorkFits
<1>6. WorkFits'
  BY <1>1, <1>5 DEF WorkFits
<1>7. Alive /\ Alive' /\ Accepted' = Accepted
  BY <1>1 DEF Alive, Accepted
<1> QED BY <1>1, <1>3, <1>4, <1>6, <1>7

\* A new request joins the line.
LEMMA HandleNewKeeps ==
  ASSUME TypeOK, Rest, NEW r \in Req, HandleNew(r)
  PROVE  Rest'
<1>1. /\ NextItem("new", r) /\ pending' = Append(pending, r)
      /\ UNCHANGED <<stream, active, ready, restoring, cancelledRestores, batchVars>>
  BY DEF HandleNew
<1>2. /\ Alive /\ Alive' /\ phase = "drain" /\ phase' = "drain"
      /\ \A x \in Req : /\ New(work, x) = New(work', x) + One(r = x) /\ Results(work, x) = Results(work', x)
                        /\ New(work', x) \in Nat /\ Results(work', x) \in Nat
      /\ Item("new", r) \in ToSet(work) /\ ToSet(work') \subseteq ToSet(work)
      /\ WorkFits'
      /\ UNCHANGED <<client, stopped, requests, restoreJobs, ioJob>>
      /\ Accepted' = Accepted
  BY <1>1, ItemHandled
<1>3. \A x \in Req : In(pending', x) = In(pending, x) + One(r = x)
  BY <1>1, InCounts DEF TypeOK
<1>5. Known'
  <2>1. ToSet(pending') = ToSet(pending) \cup {r}
    BY <1>1, ToSetChanges DEF TypeOK
  <2>2. r \in Accepted
    BY <1>2 DEF Rest, Known, Item
  <2> QED BY <1>1, <1>2, <2>1, <2>2 DEF Rest, Known
<1>6. (Alive => SlotCount <= MaxSeqNums)'
  BY <1>1, <1>2 DEF Rest, SlotCount
<1>7. \A x \in Req : OneRequest(x)'
  <2> TAKE x \in Req
  <2>1. Held(x)' = Held(x) /\ (Answered(x)' <=> Answered(x))
    <3>1. UNCHANGED <<stream, active, ready, restoring>>
      BY <1>1
    <3> QED BY <1>2, <1>3, <3>1, CountTypes DEF Held, ReadyIn, Answered
  <2>2. Restores(x)'
    BY <1>1, <1>2, <2>1, CountTypes DEF Rest, OneRequest, Restores, Outstanding
  <2>3. LinedUp(x)'
    BY <1>2, <1>3, CountTypes DEF Rest, OneRequest, LinedUp
  <2>4. OneRow(x)' /\ Replied(x)'
    BY <1>1, <1>2 DEF Rest, OneRequest, OneRow, Replied
  <2> QED BY <1>2, <2>1, <2>2, <2>3, <2>4 DEF Rest, OneRequest, Accounted
<1>8. RowCount'
  BY <1>1 DEF Rest, RowCount
<1> QED BY <1>2, <1>5, <1>6, <1>7, <1>8 DEF Rest

\* A cancel item comes from somebody who asked.
LEMMA CancelTaken ==
  ASSUME TypeOK, Rest, NEW r \in Req, NextItem("cancel", r)
  PROVE  /\ Alive /\ Alive' /\ phase = "drain" /\ phase' = "drain"
         /\ \A x \in Req : New(work', x) = New(work, x) /\ Results(work', x) = Results(work, x)
         /\ r \in stopped \/ client[r] = "ended"
         /\ ToSet(work') \subseteq ToSet(work)
         /\ WorkFits'
         /\ UNCHANGED <<client, stopped, requests, restoreJobs, ioJob>>
         /\ Accepted' = Accepted
<1>1. /\ \A x \in Req : /\ New(work, x) = New(work', x) + 0 /\ Results(work, x) = Results(work', x) + 0
                        /\ New(work', x) \in Nat /\ Results(work', x) \in Nat
      /\ Item("cancel", r) \in ToSet(work)
  BY ItemHandled
<1>2. r \in stopped \/ client[r] = "ended"
  BY <1>1 DEF Rest, Known, Item
<1> QED BY <1>1, <1>2, ItemHandled

\* A cancel answers its request and no other.
LEMMA CancelledSent ==
  ASSUME TypeOK, NEW r \in Req, Send(r, <<"cancelled">>)
  PROVE  /\ \A x \in Req : x # r => stream'[x] = stream[x] /\ (Answered(x)' <=> Answered(x))
         /\ stream'[r] = stream[r] \o <<"cancelled">>
         /\ Answered(r)'
BY SentOne DEF Message, Terminals

\* A request that is held is owed its answer.
LEMMA HeldIsOwed ==
  ASSUME TypeOK, Rest, Alive, NEW r \in Req
  PROVE  /\ Held(r) \in Nat
         /\ r \in ToSet(pending) \/ (phase # "insert" /\ r \in ToSet(ready)) \/ r \in restoring \/ r \in active
              => Held(r) = 1 /\ r \in Accepted /\ ~Answered(r)
<1>1. /\ New(requests, r) \in Nat /\ New(work, r) \in Nat /\ In(pending, r) \in Nat
      /\ In(ready, r) \in Nat /\ Results(work, r) \in Nat
  BY CountTypes
<1>2. r \in ToSet(pending) => In(pending, r) # 0
  BY InCounts DEF TypeOK
<1>3. r \in ToSet(ready) => In(ready, r) # 0
  BY InCounts DEF TypeOK
<1>4. Held(r) = IF r \in Accepted /\ ~Answered(r) THEN 1 ELSE 0
  BY DEF Rest, OneRequest, Accounted
<1>5. r \in ToSet(pending) \/ (phase # "insert" /\ r \in ToSet(ready)) \/ r \in restoring \/ r \in active
        => Held(r) # 0
  <2>1. ReadyIn(r) \in Nat /\ (phase # "insert" => ReadyIn(r) = In(ready, r))
    BY <1>1 DEF ReadyIn
  <2>2. Held(r) = 0 => /\ In(pending, r) = 0 /\ ReadyIn(r) = 0
                       /\ r \notin restoring /\ r \notin active
    <3>1. PICK a \in Nat, b \in Nat, c \in Nat, d \in Nat :
            a = New(requests, r) /\ b = New(work, r) /\ c = In(pending, r) /\ d = ReadyIn(r)
      BY <1>1, <2>1
    <3>2. PICK i \in Nat, j \in Nat :
            /\ i = One(r \in restoring) /\ (r \in restoring => i = 1)
            /\ j = One(r \in active) /\ (r \in active => j = 1)
      OBVIOUS
    <3>3. Held(r) = a + b + c + d + i + j
      BY <3>1, <3>2 DEF Held
    <3>4. Held(r) = 0 => c = 0 /\ d = 0 /\ i = 0 /\ j = 0
      BY <3>3
    <3> QED BY <3>1, <3>2, <3>4
  <2> QED BY <1>2, <1>3, <2>1, <2>2
<1> QED BY <1>4, <1>5

\* A cancel takes its request out of the line ...
LEMMA CancelPendingKeeps ==
  ASSUME TypeOK, Rest, NEW r \in Req, NextItem("cancel", r), CancelPending(r)
  PROVE  Rest'
<1>1. /\ Alive /\ Alive' /\ phase = "drain" /\ phase' = "drain"
      /\ \A x \in Req : New(work', x) = New(work, x) /\ Results(work', x) = Results(work, x)
      /\ ToSet(work') \subseteq ToSet(work) /\ WorkFits'
      /\ UNCHANGED <<client, stopped, requests, restoreJobs, ioJob>>
      /\ Accepted' = Accepted
  BY CancelTaken
<1>2. UNCHANGED <<active, ready, restoring, cancelledRestores, batchVars>>
  BY DEF CancelPending
<1>3. /\ \A x \in Req : x # r => stream'[x] = stream[x] /\ (Answered(x)' <=> Answered(x))
      /\ Answered(r)'
  BY CancelledSent DEF CancelPending
<1>4. \A x \in Req : In(pending, x) = In(pending', x) + One(r = x) /\ In(pending', x) \in Nat
  <2>1. PICK q \in Seq(Req) : q = pending
    BY DEF TypeOK
  <2>2. r \in ToSet(q) /\ pending' = Without(q, r)
    BY <2>1 DEF CancelPending
  <2>3. Without(q, r) \in Seq(Req)
    BY <2>1, WithoutType
  <2>4. \A x \in Req : In(q, x) = In(Without(q, r), x) + One(r = x)
    BY <2>1, <2>2, InCounts
  <2>5. \A x \in Req : In(Without(q, r), x) \in Nat
    BY <2>3, Numbers
  <2> QED BY <2>1, <2>2, <2>4, <2>5
<1>5. Known'
  <2>1. ToSet(pending') \subseteq ToSet(pending)
    BY ToSetChanges DEF TypeOK, CancelPending
  <2>2. r \in Accepted
    BY <1>1, HeldIsOwed DEF CancelPending
  <2> QED BY <1>1, <1>2, <1>3, <2>1, <2>2 DEF Rest, Known
<1>6. (Alive => SlotCount <= MaxSeqNums)'
  BY <1>1, <1>2 DEF Rest, SlotCount
<1>7. \A x \in Req : OneRequest(x)'
  <2> TAKE x \in Req
  <2>1. Held(x) = Held(x)' + One(r = x) /\ Held(x)' \in Nat
    BY <1>1, <1>2, <1>4, CountTypes DEF Held, ReadyIn
  <2>2. Accounted(x)'
    <3>1. Held(r) = 1
      BY <1>1, HeldIsOwed DEF CancelPending
    <3> QED BY <1>1, <1>3, <2>1, <3>1 DEF Rest, OneRequest, Accounted
  <2>3. Restores(x)'
    BY <1>1, <1>2, <1>3 DEF Rest, OneRequest, Restores, Outstanding
  <2>4. LinedUp(x)'
    BY <1>1, <1>4, CountTypes DEF Rest, OneRequest, LinedUp
  <2>5. OneRow(x)' /\ Replied(x)'
    BY <1>1, <1>2 DEF Rest, OneRequest, OneRow, Replied
  <2> QED BY <2>2, <2>3, <2>4, <2>5 DEF OneRequest
<1>8. RowCount'
  BY <1>2 DEF Rest, RowCount
<1> QED BY <1>1, <1>5, <1>6, <1>7, <1>8 DEF Rest

\* ... or out of the ready list ...
LEMMA CancelReadyKeeps ==
  ASSUME TypeOK, Rest, NEW r \in Req, NextItem("cancel", r), CancelReady(r)
  PROVE  Rest'
<1>1. /\ Alive /\ Alive' /\ phase = "drain" /\ phase' = "drain"
      /\ \A x \in Req : New(work', x) = New(work, x) /\ Results(work', x) = Results(work, x)
      /\ ToSet(work') \subseteq ToSet(work) /\ WorkFits'
      /\ UNCHANGED <<client, stopped, requests, restoreJobs, ioJob>>
      /\ Accepted' = Accepted
  BY CancelTaken
<1>2. UNCHANGED <<active, pending, restoring, cancelledRestores, batchVars>>
  BY DEF CancelReady
<1>3. /\ \A x \in Req : x # r => stream'[x] = stream[x] /\ (Answered(x)' <=> Answered(x))
      /\ Answered(r)'
  BY CancelledSent DEF CancelReady
<1>4. \A x \in Req : In(ready, x) = In(ready', x) + One(r = x) /\ In(ready', x) \in Nat
  <2>1. PICK q \in Seq(Req) : q = ready
    BY DEF TypeOK
  <2>2. r \in ToSet(q) /\ ready' = Without(q, r)
    BY <2>1 DEF CancelReady
  <2>3. Without(q, r) \in Seq(Req)
    BY <2>1, WithoutType
  <2>4. \A x \in Req : In(q, x) = In(Without(q, r), x) + One(r = x)
    BY <2>1, <2>2, InCounts
  <2>5. \A x \in Req : In(Without(q, r), x) \in Nat
    BY <2>3, Numbers
  <2> QED BY <2>1, <2>2, <2>4, <2>5
<1>5. Known'
  <2>1. ToSet(ready') \subseteq ToSet(ready)
    BY ToSetChanges DEF TypeOK, CancelReady
  <2>2. r \in Accepted
    BY <1>1, HeldIsOwed DEF CancelReady
  <2> QED BY <1>1, <1>2, <1>3, <2>1, <2>2 DEF Rest, Known
<1>6. (Alive => SlotCount <= MaxSeqNums)'
  <2>1. PICK n \in Nat, m \in Nat : n = Len(ready) /\ m = Len(ready') /\ n = m + 1
    <3>1. ready' \in Seq(Req) /\ Len(ready') \in Nat /\ Len(ready) \in Nat
      BY WithoutType, LenProperties DEF TypeOK, CancelReady
    <3>2. Len(ready) = Len(ready') + 1
      BY InCounts DEF TypeOK, CancelReady
    <3> QED BY <3>1, <3>2
  <2>2. SchedulerAssumption /\ Cardinality(active) \in Nat /\ Cardinality(restoring) \in Nat
    BY SchedulerAssumption, FS_CardinalityType DEF TypeOK
  <2> QED BY SMTT(30), <1>1, <1>2, <2>1, <2>2 DEF Rest, SlotCount, SchedulerAssumption
<1>7. \A x \in Req : OneRequest(x)'
  <2> TAKE x \in Req
  <2>1. Held(x) = Held(x)' + One(r = x) /\ Held(x)' \in Nat
    BY <1>1, <1>2, <1>4, CountTypes DEF Held, ReadyIn
  <2>2. Accounted(x)'
    <3>1. Held(r) = 1
      BY <1>1, HeldIsOwed DEF CancelReady
    <3> QED BY <1>1, <1>3, <2>1, <3>1 DEF Rest, OneRequest, Accounted
  <2>3. Restores(x)'
    BY <1>1, <1>2, <1>3 DEF Rest, OneRequest, Restores, Outstanding
  <2>4. LinedUp(x)'
    BY <1>1, <1>2 DEF Rest, OneRequest, LinedUp
  <2>5. OneRow(x)' /\ Replied(x)'
    BY <1>1, <1>2 DEF Rest, OneRequest, OneRow, Replied
  <2> QED BY <2>2, <2>3, <2>4, <2>5 DEF OneRequest
<1>8. RowCount'
  BY <1>2 DEF Rest, RowCount
<1> QED BY <1>1, <1>5, <1>6, <1>7, <1>8 DEF Rest

\* ... or out of the restores, whose result is still on its way ...
LEMMA CancelRestoringKeeps ==
  ASSUME TypeOK, Rest, NEW r \in Req, NextItem("cancel", r), CancelRestoring(r)
  PROVE  Rest'
<1>1. /\ Alive /\ Alive' /\ phase = "drain" /\ phase' = "drain"
      /\ \A x \in Req : New(work', x) = New(work, x) /\ Results(work', x) = Results(work, x)
      /\ ToSet(work') \subseteq ToSet(work) /\ WorkFits'
      /\ UNCHANGED <<client, stopped, requests, restoreJobs, ioJob>>
      /\ Accepted' = Accepted
  BY CancelTaken
<1>2. /\ UNCHANGED <<active, pending, ready, batchVars>>
      /\ r \in restoring /\ restoring' = restoring \ {r}
      /\ cancelledRestores' = cancelledRestores \cup {r}
  BY DEF CancelRestoring, RememberCancelledRestore
<1>3. /\ \A x \in Req : x # r => stream'[x] = stream[x] /\ (Answered(x)' <=> Answered(x))
      /\ Answered(r)'
  BY CancelledSent DEF CancelRestoring
<1>5. Known'
  <2>2. r \in Accepted
    BY <1>1, <1>2, HeldIsOwed
  <2> QED BY <1>1, <1>2, <1>3, <2>2 DEF Rest, Known
<1>6. (Alive => SlotCount <= MaxSeqNums)'
  <2>1. PICK n \in Nat, m \in Nat : n = Cardinality(restoring) /\ m = Cardinality(restoring') /\ n = m + 1
    <3>1. Cardinality(restoring') = Cardinality(restoring) - 1 /\ Cardinality(restoring') \in Nat
          /\ Cardinality(restoring) \in Nat
      BY <1>2, FS_RemoveElement, FS_CardinalityType DEF TypeOK
    <3> QED BY <3>1
  <2>2. SchedulerAssumption /\ Cardinality(active) \in Nat /\ Len(ready) \in Nat
    BY SchedulerAssumption, FS_CardinalityType, LenProperties DEF TypeOK
  <2> QED BY SMTT(30), <1>1, <1>2, <2>1, <2>2 DEF Rest, SlotCount, SchedulerAssumption
<1>7. \A x \in Req : OneRequest(x)'
  <2> TAKE x \in Req
  <2>1. Held(x) = Held(x)' + One(r = x) /\ Held(x)' \in Nat
    BY <1>1, <1>2, CountTypes DEF Held, ReadyIn
  <2>2. Accounted(x)'
    <3>1. Held(r) = 1
      BY <1>1, <1>2, HeldIsOwed
    <3> QED BY <1>1, <1>3, <2>1, <3>1 DEF Rest, OneRequest, Accounted
  <2>3. Restores(x)'
    BY <1>1, <1>2, <1>3 DEF Rest, OneRequest, Restores, Outstanding
  <2>4. LinedUp(x)'
    BY <1>1, <1>2 DEF Rest, OneRequest, LinedUp
  <2>5. OneRow(x)' /\ Replied(x)'
    BY <1>1, <1>2 DEF Rest, OneRequest, OneRow, Replied
  <2> QED BY <2>2, <2>3, <2>4, <2>5 DEF OneRequest
<1>8. RowCount'
  BY <1>2 DEF Rest, RowCount
<1> QED BY <1>1, <1>5, <1>6, <1>7, <1>8 DEF Rest

\* ... or finds nothing.
LEMMA CancelUnknownKeeps ==
  ASSUME TypeOK, Rest, NEW r \in Req, NextItem("cancel", r), CancelUnknown(r)
  PROVE  Rest'
<1>1. /\ Alive /\ Alive' /\ phase = "drain" /\ phase' = "drain"
      /\ \A x \in Req : New(work', x) = New(work, x) /\ Results(work', x) = Results(work, x)
      /\ ToSet(work') \subseteq ToSet(work) /\ WorkFits'
      /\ UNCHANGED <<client, stopped, requests, restoreJobs, ioJob>>
      /\ Accepted' = Accepted
  BY CancelTaken
<1>2. UNCHANGED <<stream, stateVars, batchVars>>
  BY DEF CancelUnknown
<1>5. Known'
  BY <1>1, <1>2 DEF Rest, Known
<1>6. (Alive => SlotCount <= MaxSeqNums)'
  BY <1>1, <1>2 DEF Rest, SlotCount
<1>7. \A x \in Req : OneRequest(x)'
  BY <1>1, <1>2 DEF Rest, OneRequest, Accounted, Answered, Held, ReadyIn, Restores, Outstanding, LinedUp, OneRow, Replied
<1>8. RowCount'
  BY <1>2 DEF Rest, RowCount
<1> QED BY <1>1, <1>5, <1>6, <1>7, <1>8 DEF Rest

\* The batch generator finds and drops the one row of an active request.
LEMMA RowRemoved ==
  ASSUME TypeOK, Rest, NEW r \in Req, r \in active, RemoveRow(r), active' = active \ {r}
  PROVE  /\ \A x \in Req : OneRow(x)'
         /\ RowCount'
<1>1. /\ unprocessed \in Seq(Req) /\ decoding \in Seq(Req)
      /\ prefilling \in Req \cup {NoReq} /\ NoReq \notin Req /\ IsFiniteSet(active)
  BY SchedulerAssumption DEF TypeOK, BatchTypeOK
<1>2. \A x \in Req : OneRow(x) /\ In(unprocessed, x) \in Nat /\ In(decoding, x) \in Nat
  BY CountTypes DEF Rest, OneRequest
<1>3. /\ r \in ToSet(unprocessed) <=> In(unprocessed, r) # 0
      /\ r \in ToSet(decoding) <=> In(decoding, r) # 0
  BY <1>1, InCounts
<1>4. PICK n \in Nat : n = Cardinality(active) /\ Cardinality(active') = n - 1
  BY <1>1, FS_RemoveElement, FS_CardinalityType
<1>5. PICK u \in Nat, d \in Nat : u = Len(unprocessed) /\ d = Len(decoding)
                                  /\ n = u + d + One(prefilling # NoReq)
  BY <1>1, <1>4, LenProperties DEF Rest, RowCount
<1>6. CASE r \in ToSet(unprocessed)
  <2>1. unprocessed' = Without(unprocessed, r) /\ UNCHANGED <<prefilling, decoding>>
    BY <1>6 DEF RemoveRow, Rows
  <2>2. \A x \in Req : In(unprocessed, x) = In(unprocessed', x) + One(r = x)
                       /\ In(unprocessed', x) \in Nat
    BY <1>1, <1>6, <2>1, InCounts, Numbers, WithoutType
  <2>3. u = Len(unprocessed') + 1 /\ Len(unprocessed') \in Nat
    BY <1>1, <1>5, <1>6, <2>1, InCounts, LenProperties, WithoutType
  <2>4. \A x \in Req : OneRow(x)'
    BY <1>2, <2>1, <2>2 DEF OneRow
  <2>5. RowCount'
    BY <1>4, <1>5, <2>1, <2>3 DEF RowCount
  <2> QED BY <2>4, <2>5
<1>7. CASE r \notin ToSet(unprocessed) /\ r = prefilling
  <2>1. prefilling' = NoReq /\ UNCHANGED <<unprocessed, decoding>>
    BY <1>7 DEF RemoveRow, Rows
  <2>2. \A x \in Req : OneRow(x)'
    BY <1>1, <1>2, <1>7, <2>1 DEF OneRow
  <2>3. RowCount'
    BY <1>1, <1>4, <1>5, <1>7, <2>1 DEF RowCount
  <2> QED BY <2>2, <2>3
<1>8. CASE r \notin ToSet(unprocessed) /\ r # prefilling
  <2>0. r \in ToSet(decoding)
    BY <1>2, <1>3, <1>8 DEF OneRow
  <2>1. decoding' = Without(decoding, r) /\ UNCHANGED <<prefilling, unprocessed>>
    BY <1>8, <2>0 DEF RemoveRow, Rows
  <2>2. \A x \in Req : In(decoding, x) = In(decoding', x) + One(r = x)
                       /\ In(decoding', x) \in Nat
    BY <1>1, <2>0, <2>1, InCounts, Numbers, WithoutType
  <2>3. d = Len(decoding') + 1 /\ Len(decoding') \in Nat
    BY <1>1, <1>5, <2>0, <2>1, InCounts, LenProperties, WithoutType
  <2>4. \A x \in Req : OneRow(x)'
    BY <1>2, <2>1, <2>2 DEF OneRow
  <2>5. RowCount'
    BY <1>4, <1>5, <2>1, <2>3 DEF RowCount
  <2> QED BY <2>4, <2>5
<1> QED BY <1>6, <1>7, <1>8

\* ... or takes its row and slot ...
LEMMA CancelActiveKeeps ==
  ASSUME TypeOK, Rest, NEW r \in Req, NextItem("cancel", r), CancelActive(r)
  PROVE  Rest'
<1>1. /\ Alive /\ Alive' /\ phase = "drain" /\ phase' = "drain"
      /\ \A x \in Req : New(work', x) = New(work, x) /\ Results(work', x) = Results(work, x)
      /\ ToSet(work') \subseteq ToSet(work) /\ WorkFits'
      /\ UNCHANGED <<client, stopped, requests, restoreJobs, ioJob>>
      /\ Accepted' = Accepted
  BY CancelTaken
<1>2. /\ UNCHANGED <<pending, ready, restoring, cancelledRestores>>
      /\ r \in active /\ active' = active \ {r} /\ RemoveRow(r)
  BY DEF CancelActive
<1>3. /\ \A x \in Req : x # r => stream'[x] = stream[x] /\ (Answered(x)' <=> Answered(x))
      /\ Answered(r)'
  BY CancelledSent DEF CancelActive
<1>5. Known'
  <2>2. r \in Accepted
    BY <1>1, <1>2, HeldIsOwed
  <2> QED BY <1>1, <1>2, <1>3, <2>2 DEF Rest, Known
<1>6. (Alive => SlotCount <= MaxSeqNums)'
  <2>1. PICK n \in Nat, m \in Nat : n = Cardinality(active) /\ m = Cardinality(active') /\ n = m + 1
    <3>1. Cardinality(active') = Cardinality(active) - 1 /\ Cardinality(active') \in Nat
          /\ Cardinality(active) \in Nat
      BY <1>2, FS_RemoveElement, FS_CardinalityType DEF TypeOK
    <3> QED BY <3>1
  <2>2. SchedulerAssumption /\ Cardinality(restoring) \in Nat /\ Len(ready) \in Nat
    BY SchedulerAssumption, FS_CardinalityType, LenProperties DEF TypeOK
  <2> QED BY SMTT(30), <1>1, <1>2, <2>1, <2>2 DEF Rest, SlotCount, SchedulerAssumption
<1>7. \A x \in Req : OneRequest(x)'
  <2> TAKE x \in Req
  <2>1. Held(x) = Held(x)' + One(r = x) /\ Held(x)' \in Nat
    BY <1>1, <1>2, CountTypes DEF Held, ReadyIn
  <2>2. Accounted(x)'
    <3>1. Held(r) = 1
      BY <1>1, <1>2, HeldIsOwed
    <3> QED BY <1>1, <1>3, <2>1, <3>1 DEF Rest, OneRequest, Accounted
  <2>3. Restores(x)'
    BY <1>1, <1>2, <1>3 DEF Rest, OneRequest, Restores, Outstanding
  <2>4. LinedUp(x)'
    BY <1>1, <1>2 DEF Rest, OneRequest, LinedUp
  <2>5. OneRow(x)' /\ Replied(x)'
    BY <1>1, <1>2, RowRemoved DEF Replied
  <2> QED BY <2>2, <2>3, <2>4, <2>5 DEF OneRequest
<1>8. RowCount'
  BY <1>2, RowRemoved
<1> QED BY <1>1, <1>5, <1>6, <1>7, <1>8 DEF Rest

\* A handled cancel, wherever its request was.
LEMMA HandleCancelKeeps ==
  ASSUME TypeOK, Rest, NEW r \in Req, HandleCancel(r)
  PROVE  Rest'
BY CancelPendingKeeps, CancelReadyKeeps, CancelRestoringKeeps, CancelActiveKeeps,
   CancelUnknownKeeps DEF HandleCancel, CancelRequest

\* The result of a restore reaches the generation thread.
LEMMA ResultTaken ==
  ASSUME TypeOK, Rest, NEW r \in Req, NEW kind \in {"prepared", "failed"}, NextItem(kind, r)
  PROVE  /\ Alive /\ Alive' /\ phase = "drain" /\ phase' = "drain"
         /\ \A x \in Req : /\ New(work', x) = New(work, x)
                           /\ Results(work, x) = Results(work', x) + One(r = x)
                           /\ Results(work', x) \in Nat
         /\ r \in restoring \cup cancelledRestores /\ r \in Accepted
         /\ ToSet(work') \subseteq ToSet(work)
         /\ WorkFits'
         /\ UNCHANGED <<client, stopped, requests, restoreJobs, ioJob>>
         /\ Accepted' = Accepted
<1>1. /\ \A x \in Req : /\ New(work, x) = New(work', x) + 0 /\ New(work', x) \in Nat
                        /\ Results(work, x) = Results(work', x) + One(r = x)
                        /\ Results(work', x) \in Nat
      /\ Item(kind, r) \in ToSet(work) /\ Alive /\ phase = "drain"
  BY ItemHandled
<1>2. r \in Accepted
  BY <1>1 DEF Rest, Known, Item
<1>3. r \in restoring \cup cancelledRestores
  <2>1. Results(work, r) # 0
    BY <1>1
  <2>2. Outstanding(r) # 0
    BY <1>1, <2>1, CountTypes DEF Outstanding
  <2> QED BY <1>1, <2>2 DEF Rest, OneRequest, Restores
<1> QED BY <1>1, <1>2, <1>3, ItemHandled

\* The result of a cancelled restore is dropped.
LEMMA HandleLateRestoreKeeps ==
  ASSUME TypeOK, Rest, NEW r \in Req, HandleLateRestore(r)
  PROVE  Rest'
<1>1. /\ Alive /\ Alive' /\ phase = "drain" /\ phase' = "drain"
      /\ \A x \in Req : /\ New(work', x) = New(work, x)
                        /\ Results(work, x) = Results(work', x) + One(r = x)
                        /\ Results(work', x) \in Nat
      /\ ToSet(work') \subseteq ToSet(work) /\ WorkFits'
      /\ UNCHANGED <<client, stopped, requests, restoreJobs, ioJob>>
      /\ Accepted' = Accepted
  <2>1. PICK kind \in {"prepared", "failed"} : NextItem(kind, r)
    BY DEF HandleLateRestore
  <2> QED BY <2>1, ResultTaken
<1>2. r \in cancelledRestores /\ cancelledRestores' = cancelledRestores \ {r}
      /\ UNCHANGED <<stream, active, pending, ready, batchVars>>
  BY DEF HandleLateRestore, RestoreCancelled
<1>3. restoring' = restoring
  <2>1. r \notin restoring
    BY <1>1, <1>2 DEF Rest, OneRequest, Restores
  <2> QED BY <2>1 DEF HandleLateRestore
<1>4. \A x \in Req : Answered(x)' <=> Answered(x)
  BY <1>2 DEF Answered
<1>5. Known'
  BY <1>1, <1>2, <1>3 DEF Rest, Known
<1>6. (Alive => SlotCount <= MaxSeqNums)'
  BY <1>1, <1>2, <1>3 DEF Rest, SlotCount
<1>7. \A x \in Req : OneRequest(x)'
  <2> TAKE x \in Req
  <2>1. Held(x) = Held(x)'
    BY <1>1, <1>2, <1>3 DEF Held, ReadyIn
  <2>2. Accounted(x)'
    BY <1>1, <1>4, <2>1 DEF Rest, OneRequest, Accounted
  <2>3. Restores(x)'
    <3>1. Outstanding(x) = Outstanding(x)' + One(r = x) /\ Outstanding(x)' \in Nat
      BY <1>1, CountTypes DEF Outstanding
    <3> QED BY <1>1, <1>2, <1>3, <1>4, <3>1 DEF Rest, OneRequest, Restores
  <2>4. LinedUp(x)'
    BY <1>1, <1>2 DEF Rest, OneRequest, LinedUp
  <2>5. OneRow(x)' /\ Replied(x)'
    BY <1>1, <1>2 DEF Rest, OneRequest, OneRow, Replied
  <2> QED BY <2>2, <2>3, <2>4, <2>5 DEF OneRequest
<1>8. RowCount'
  BY <1>2 DEF Rest, RowCount
<1> QED BY <1>1, <1>5, <1>6, <1>7, <1>8 DEF Rest

\* A failed restore answers its request with an error.
LEMMA HandleFailedRestoreKeeps ==
  ASSUME TypeOK, Rest, NEW r \in Req, HandleFailedRestore(r)
  PROVE  Rest'
<1>1. /\ Alive /\ Alive' /\ phase = "drain" /\ phase' = "drain"
      /\ \A x \in Req : /\ New(work', x) = New(work, x)
                        /\ Results(work, x) = Results(work', x) + One(r = x)
                        /\ Results(work', x) \in Nat
      /\ r \in restoring \cup cancelledRestores /\ r \in Accepted
      /\ ToSet(work') \subseteq ToSet(work) /\ WorkFits'
      /\ UNCHANGED <<client, stopped, requests, restoreJobs, ioJob>>
      /\ Accepted' = Accepted
  BY ResultTaken DEF HandleFailedRestore
<1>2. r \in restoring /\ r \notin cancelledRestores /\ restoring' = restoring \ {r}
      /\ UNCHANGED <<active, pending, ready, cancelledRestores, batchVars>>
  BY <1>1 DEF HandleFailedRestore, RestoreCancelled
<1>3. /\ \A x \in Req : x # r => stream'[x] = stream[x] /\ (Answered(x)' <=> Answered(x))
      /\ Answered(r)'
  BY SentOne DEF HandleFailedRestore, Message, Terminals
<1>5. Known'
  BY <1>1, <1>2, <1>3 DEF Rest, Known
<1>6. (Alive => SlotCount <= MaxSeqNums)'
  <2>1. PICK n \in Nat, m \in Nat : n = Cardinality(restoring) /\ m = Cardinality(restoring') /\ n = m + 1
    <3>1. Cardinality(restoring') = Cardinality(restoring) - 1 /\ Cardinality(restoring') \in Nat
          /\ Cardinality(restoring) \in Nat
      BY <1>2, FS_RemoveElement, FS_CardinalityType DEF TypeOK
    <3> QED BY <3>1
  <2>2. SchedulerAssumption /\ Cardinality(active) \in Nat /\ Len(ready) \in Nat
    BY SchedulerAssumption, FS_CardinalityType, LenProperties DEF TypeOK
  <2> QED BY SMTT(30), <1>1, <1>2, <2>1, <2>2 DEF Rest, SlotCount, SchedulerAssumption
<1>7. \A x \in Req : OneRequest(x)'
  <2> TAKE x \in Req
  <2>1. Held(x) = Held(x)' + One(r = x) /\ Held(x)' \in Nat
    BY <1>1, <1>2, CountTypes DEF Held, ReadyIn
  <2>2. Accounted(x)'
    <3>1. Held(r) = 1
      BY <1>1, <1>2, HeldIsOwed
    <3> QED BY <1>1, <1>3, <2>1, <3>1 DEF Rest, OneRequest, Accounted
  <2>3. Restores(x)'
    <3>1. Outstanding(x) = Outstanding(x)' + One(r = x) /\ Outstanding(x)' \in Nat
      BY <1>1, CountTypes DEF Outstanding
    <3> QED BY <1>1, <1>2, <1>3, <3>1 DEF Rest, OneRequest, Restores
  <2>4. LinedUp(x)'
    BY <1>1, <1>2 DEF Rest, OneRequest, LinedUp
  <2>5. OneRow(x)' /\ Replied(x)'
    BY <1>1, <1>2 DEF Rest, OneRequest, OneRow, Replied
  <2> QED BY <2>2, <2>3, <2>4, <2>5 DEF OneRequest
<1>8. RowCount'
  BY <1>2 DEF Rest, RowCount
<1> QED BY <1>1, <1>5, <1>6, <1>7, <1>8 DEF Rest

\* A restored request becomes ready.
LEMMA HandlePreparedKeeps ==
  ASSUME TypeOK, Rest, NEW r \in Req, HandlePrepared(r)
  PROVE  Rest'
<1>1. /\ Alive /\ Alive' /\ phase = "drain" /\ phase' = "drain"
      /\ \A x \in Req : /\ New(work', x) = New(work, x)
                        /\ Results(work, x) = Results(work', x) + One(r = x)
                        /\ Results(work', x) \in Nat
      /\ r \in restoring \cup cancelledRestores /\ r \in Accepted
      /\ ToSet(work') \subseteq ToSet(work) /\ WorkFits'
      /\ UNCHANGED <<client, stopped, requests, restoreJobs, ioJob>>
      /\ Accepted' = Accepted
  BY ResultTaken DEF HandlePrepared
<1>2. r \in restoring /\ r \notin cancelledRestores /\ restoring' = restoring \ {r}
      /\ UNCHANGED <<stream, active, pending, cancelledRestores, batchVars>>
  BY <1>1 DEF HandlePrepared, RestoreCancelled
<1>3. \A x \in Req : Answered(x)' <=> Answered(x)
  BY <1>2 DEF Answered
<1>4. \A x \in Req : In(ready', x) = In(ready, x) + One(r = x)
  BY InCounts DEF TypeOK, HandlePrepared
<1>5. Known'
  <2>1. ToSet(ready') = ToSet(ready) \cup {r}
    BY ToSetChanges DEF TypeOK, HandlePrepared
  <2> QED BY <1>1, <1>2, <2>1 DEF Rest, Known
<1>6. (Alive => SlotCount <= MaxSeqNums)'
  <2>1. PICK n \in Nat, m \in Nat : n = Cardinality(restoring) /\ m = Cardinality(restoring') /\ n = m + 1
    <3>1. Cardinality(restoring') = Cardinality(restoring) - 1 /\ Cardinality(restoring') \in Nat
          /\ Cardinality(restoring) \in Nat
      BY <1>2, FS_RemoveElement, FS_CardinalityType DEF TypeOK
    <3> QED BY <3>1
  <2>2. PICK k \in Nat : k = Len(ready) /\ Len(ready') = k + 1
    BY AppendProperties, LenProperties DEF TypeOK, HandlePrepared
  <2>3. SchedulerAssumption /\ Cardinality(active) \in Nat
    BY SchedulerAssumption, FS_CardinalityType DEF TypeOK
  <2> QED BY SMTT(30), <1>1, <1>2, <2>1, <2>2, <2>3 DEF Rest, SlotCount, SchedulerAssumption
<1>7. \A x \in Req : OneRequest(x)'
  <2> TAKE x \in Req
  <2>1. Held(x) = Held(x)'
    BY <1>1, <1>2, <1>4, CountTypes DEF Held, ReadyIn
  <2>2. Accounted(x)'
    BY <1>1, <1>3, <2>1 DEF Rest, OneRequest, Accounted
  <2>3. Restores(x)'
    <3>1. Outstanding(x) = Outstanding(x)' + One(r = x) /\ Outstanding(x)' \in Nat
      BY <1>1, CountTypes DEF Outstanding
    <3> QED BY <1>1, <1>2, <1>3, <3>1 DEF Rest, OneRequest, Restores
  <2>4. LinedUp(x)'
    BY <1>1, <1>2 DEF Rest, OneRequest, LinedUp
  <2>5. OneRow(x)' /\ Replied(x)'
    BY <1>1, <1>2 DEF Rest, OneRequest, OneRow, Replied
  <2> QED BY <2>2, <2>3, <2>4, <2>5 DEF OneRequest
<1>8. RowCount'
  BY <1>2 DEF Rest, RowCount
<1> QED BY <1>1, <1>5, <1>6, <1>7, <1>8 DEF Rest

-----------------------------------------------------------------------------
(* insert_ready_requests and admit_pending_requests.                       *)

\* A list of prepared requests counts like the list of their ids.
LEMMA PreparedList ==
  ASSUME NEW q \in Seq(Items), \A item \in ToSet(q) : item \in QueueItem /\ item.kind = "prepared",
         NEW ids \in Seq(Req), DOMAIN ids = DOMAIN q, \A i \in DOMAIN q : q[i].id = ids[i]
  PROVE  /\ \A x \in Req : Results(q, x) = In(ids, x) /\ New(q, x) = 0
         /\ Len(q) = Len(ids)
         /\ \A x \in Req : x \in ToSet(ids) <=> \E item \in ToSet(q) : item.id = x
<1>1. \A i \in DOMAIN q : q[i] = Item("prepared", ids[i])
  BY DEF ToSet, QueueItem, Item
<1>2. ASSUME NEW x \in Req
      PROVE  Results(q, x) = In(ids, x) /\ New(q, x) = 0
  <2>1. \A i \in DOMAIN q : q[i] \in {Item("prepared", x), Item("failed", x)} <=> ids[i] \in {x}
    BY <1>1 DEF Item
  <2>2. {i \in DOMAIN q : q[i] \in {Item("prepared", x), Item("failed", x)}}
          = {i \in DOMAIN ids : ids[i] \in {x}}
    BY <2>1
  <2>3. Item("new", x) \notin ToSet(q)
    BY DEF Item
  <2> QED BY <2>2, <2>3, ItemsCounted DEF Results, In, Hits
<1>3. Len(q) = Len(ids)
  <2>1. Len(q) \in Nat /\ Len(ids) \in Nat /\ DOMAIN q = 1..Len(q) /\ DOMAIN ids = 1..Len(ids)
    BY LenProperties
  <2>2. PICK m \in Nat, n \in Nat : m = Len(q) /\ n = Len(ids) /\ 1..m = 1..n
    BY <2>1
  <2>3. m = n
    <3>1. \A i \in 1..m : i <= n
      BY <2>2
    <3>2. \A i \in 1..n : i <= m
      BY <2>2
    <3>3. m = 0 \/ m \in 1..m
      OBVIOUS
    <3>4. n = 0 \/ n \in 1..n
      OBVIOUS
    <3> QED BY <3>1, <3>2, <3>3, <3>4
  <2> QED BY <2>2, <2>3
<1>4. \A x \in Req : x \in ToSet(ids) <=> \E item \in ToSet(q) : item.id = x
  BY DEF ToSet
<1> QED BY <1>2, <1>3, <1>4

\* The drain ends: the ready requests become the work.
LEMMA StartInsertKeeps ==
  ASSUME TypeOK, Rest, StartInsert
  PROVE  Rest'
<1>1. /\ work = <<>> /\ phase = "drain" /\ phase' = "insert" /\ Alive /\ Alive'
      /\ UNCHANGED <<clientVars, stream, requests, stateVars, batchVars, restoreJobs, ioJob>>
  BY DEF StartInsert, Alive
<1>2. work' = [i \in DOMAIN ready |-> Item("prepared", ready[i])]
  BY DEF StartInsert
<1>3. ready \in Seq(Req) /\ DOMAIN ready = 1..Len(ready) /\ Len(ready) \in Nat
      /\ \A i \in DOMAIN ready : ready[i] \in Req
  BY LenProperties DEF TypeOK
<1>4. /\ work' \in Seq(Items) /\ DOMAIN work' = DOMAIN ready
      /\ \A i \in DOMAIN work' : work'[i].id = ready[i] /\ work'[i].kind = "prepared"
                                 /\ work'[i] \in QueueItem
  <2>1. \A i \in DOMAIN ready : Item("prepared", ready[i]) \in QueueItem
    BY <1>3, ItemType
  <2>2. DOMAIN work' = DOMAIN ready /\ \A i \in DOMAIN ready : work'[i] = Item("prepared", ready[i])
    BY <1>2
  <2>3. work' \in [1..Len(ready) -> Items]
    BY <1>2, <1>3, <2>1 DEF Items
  <2> QED BY <1>3, <2>1, <2>2, <2>3, FunctionIsSeq DEF Item
<1>5. \A item \in ToSet(work') : item \in QueueItem /\ item.kind = "prepared"
  BY <1>4 DEF ToSet
<1>6. PICK w \in Seq(Items) : w = work'
  BY <1>4
<1>7. /\ \A x \in Req : Results(w, x) = In(ready, x) /\ New(w, x) = 0
      /\ Len(w) = Len(ready)
      /\ \A x \in Req : x \in ToSet(ready) <=> \E item \in ToSet(w) : item.id = x
  BY <1>3, <1>4, <1>5, <1>6, PreparedList
<1>8. WorkFits'
  BY <1>1, <1>5 DEF WorkFits
<1>9. Known'
  <2>1. \A item \in ToSet(w) : item.id \in ToSet(ready)
    BY <1>5, <1>6, <1>7, ItemFields
  <2> QED BY <1>1, <1>5, <1>6, <2>1 DEF Rest, Known, Accepted
<1>10. (Alive => SlotCount <= MaxSeqNums)'
  BY <1>1, <1>6, <1>7 DEF Rest, SlotCount
<1>11. \A x \in Req : OneRequest(x)'
  <2> TAKE x \in Req
  <2>0. New(work, x) = 0 /\ Results(work, x) = 0
    BY <1>1, NothingCounted
  <2>1. Held(x)' = Held(x) /\ (Answered(x)' <=> Answered(x)) /\ Accepted' = Accepted
    BY <1>1, <1>6, <1>7, <2>0 DEF Held, ReadyIn, Answered, Accepted
  <2>2. Restores(x)'
    BY <1>1, <2>0, <2>1, CountTypes DEF Rest, OneRequest, Restores, Outstanding
  <2>3. LinedUp(x)'
    BY <1>1, <1>6, <1>7, <2>0 DEF Rest, OneRequest, LinedUp
  <2>4. OneRow(x)' /\ Replied(x)'
    BY <1>1 DEF Rest, OneRequest, OneRow, Replied
  <2> QED BY <1>1, <2>1, <2>2, <2>3, <2>4 DEF Rest, OneRequest, Accounted
<1>12. RowCount'
  BY <1>1 DEF Rest, RowCount
<1> QED BY <1>8, <1>9, <1>10, <1>11, <1>12 DEF Rest

\* The insert loop reaches a ready request.
LEMMA ReadyTaken ==
  ASSUME TypeOK, Rest, NEW r \in Req, NextReady(r)
  PROVE  /\ Alive /\ Alive' /\ phase = "insert" /\ phase' = "insert"
         /\ \A x \in Req : /\ New(work', x) = New(work, x) /\ New(work', x) \in Nat
                           /\ Results(work, x) = Results(work', x) + One(r = x)
                           /\ Results(work', x) \in Nat
         /\ r \in Accepted /\ ~Answered(r) /\ r \notin active /\ Held(r) = 1
         /\ ToSet(work') \subseteq ToSet(work) /\ Len(work') = Len(work) - 1 /\ Len(work) \in Nat
         /\ WorkFits'
         /\ UNCHANGED <<client, stopped, requests, pending, ready, restoring,
                        cancelledRestores, restoreJobs, ioJob>>
         /\ Accepted' = Accepted
<1>1. /\ work # <<>> /\ Head(work).id = r /\ work' = Tail(work) /\ phase = "insert" /\ phase' = "insert"
      /\ UNCHANGED <<client, stopped, requests, pending, ready, restoring,
                     cancelledRestores, restoreJobs, ioJob>>
      /\ Alive /\ Alive' /\ Accepted' = Accepted
  BY DEF NextReady, Alive, Accepted
<1>2. Head(work) \in ToSet(work) /\ ToSet(work') \subseteq ToSet(work) /\ Len(work') = Len(work) - 1
  BY <1>1, ItemTaken
<1>3. Head(work).kind = "prepared"
  BY <1>1, <1>2 DEF Rest, WorkFits
<1>4. \A x \in Req : /\ New(work, x) = New(work', x) + 0 /\ New(work', x) \in Nat
                     /\ Results(work, x) = Results(work', x) + One(r = x)
                     /\ Results(work', x) \in Nat
  BY <1>1, <1>3, ItemTaken
<1>5. WorkFits'
  BY <1>1, <1>2 DEF Rest, WorkFits
<1>6. r \in Accepted /\ ~Answered(r) /\ r \notin active /\ Held(r) = 1
  <2>0. PICK d \in Nat : d = ReadyIn(r) /\ d # 0
    <3>1. Results(work, r) = Results(work', r) + 1 /\ Results(work', r) \in Nat
      BY <1>4
    <3> QED BY <1>1, <3>1 DEF ReadyIn
  <2>1. PICK a \in Nat, b \in Nat, c \in Nat :
          a = New(requests, r) /\ b = New(work, r) /\ c = In(pending, r)
    BY CountTypes
  <2>5. PICK i \in Nat, j \in Nat :
          i = One(r \in restoring) /\ j = One(r \in active) /\ (r \in active => j = 1)
    OBVIOUS
  <2>2. Held(r) = a + b + c + d + i + j
    BY <2>0, <2>1, <2>5 DEF Held
  <2>3. Held(r) = IF r \in Accepted /\ ~Answered(r) THEN 1 ELSE 0
    BY <1>1 DEF Rest, OneRequest, Accounted
  <2>4. Held(r) # 0 /\ (j = 1 => Held(r) # 1)
    BY <2>0, <2>2
  <2> QED BY <2>3, <2>4, <2>5
<1>7. Len(work) \in Nat
  BY LenProperties DEF TypeOK
<1> QED BY <1>1, <1>2, <1>4, <1>5, <1>6, <1>7

\* A ready request gets its row.
LEMMA InsertReadyKeeps ==
  ASSUME TypeOK, Rest, NEW r \in Req, InsertReady(r)
  PROVE  Rest'
<1>0. NextReady(r) /\ Send(r, <<"begin">>) /\ InsertRow(r) /\ active' = active \cup {r}
  BY DEF InsertReady
<1>1. /\ Alive /\ Alive' /\ phase = "insert" /\ phase' = "insert"
      /\ \A x \in Req : /\ New(work', x) = New(work, x) /\ New(work', x) \in Nat
                        /\ Results(work, x) = Results(work', x) + One(r = x)
                        /\ Results(work', x) \in Nat
      /\ r \in Accepted /\ ~Answered(r) /\ r \notin active /\ Held(r) = 1
      /\ ToSet(work') \subseteq ToSet(work) /\ Len(work') = Len(work) - 1 /\ Len(work) \in Nat
      /\ WorkFits'
      /\ UNCHANGED <<client, stopped, requests, pending, ready, restoring,
                     cancelledRestores, restoreJobs, ioJob>>
      /\ Accepted' = Accepted
  BY <1>0, ReadyTaken
<1>2. /\ \A x \in Req : x # r => stream'[x] = stream[x]
      /\ \A x \in Req : Answered(x)' <=> Answered(x)
  BY <1>0, SentOne DEF Message, Terminals
<1>3. \A x \in Req : In(unprocessed', x) = In(unprocessed, x) + One(r = x)
  BY <1>0, InCounts DEF TypeOK, BatchTypeOK, InsertRow
<1>4. UNCHANGED <<prefilling, decoding>>
  BY <1>0 DEF InsertRow
<1>5. Known'
  BY <1>0, <1>1, <1>2 DEF Rest, Known
<1>6. PICK n \in Nat : n = Cardinality(active) /\ Cardinality(active') = n + 1
  <2>1. IsFiniteSet(active) /\ r \notin active
    BY <1>1 DEF TypeOK
  <2>2. Cardinality(active \cup {r}) = Cardinality(active) + 1 /\ Cardinality(active) \in Nat
    BY <2>1, FS_AddElement, FS_CardinalityType
  <2> QED BY <1>0, <2>2
<1>7. (Alive => SlotCount <= MaxSeqNums)'
  <2>1. PICK k \in Nat : k = Len(work) /\ Len(work') = k - 1
    BY <1>1
  <2>2. SchedulerAssumption /\ Cardinality(restoring) \in Nat
    BY SchedulerAssumption, FS_CardinalityType DEF TypeOK
  <2> QED BY <1>1, <1>6, <2>1, <2>2 DEF Rest, SlotCount, SchedulerAssumption
<1>8. \A x \in Req : OneRequest(x)'
  <2> TAKE x \in Req
  <2>1. Held(x)' = Held(x)
    <3>1. One(x \in active') = One(x \in active) + One(r = x) /\ One(x \in active) \in Nat
      BY <1>0, <1>1
    <3>2. ReadyIn(x) = ReadyIn(x)' + One(r = x) /\ ReadyIn(x)' \in Nat
      BY <1>1 DEF ReadyIn
    <3>3. PICK a \in Nat, b \in Nat, c \in Nat, i \in Nat :
            /\ a = New(requests, x) /\ b = New(work, x) /\ c = In(pending, x) /\ i = One(x \in restoring)
            /\ a = New(requests', x) /\ b = New(work', x) /\ c = In(pending', x) /\ i = One(x \in restoring')
      <4>1. /\ New(requests', x) = New(requests, x) /\ New(work', x) = New(work, x)
            /\ In(pending', x) = In(pending, x) /\ One(x \in restoring') = One(x \in restoring)
        BY <1>1
      <4>2. /\ New(requests, x) \in Nat /\ New(work, x) \in Nat /\ In(pending, x) \in Nat
            /\ One(x \in restoring) \in Nat
        BY CountTypes
      <4> QED BY <4>1, <4>2
    <3>4. Held(x) = a + b + c + ReadyIn(x) + i + One(x \in active)
      BY <3>3 DEF Held
    <3>5. Held(x)' = a + b + c + ReadyIn(x)' + i + One(x \in active')
      BY <3>3 DEF Held
    <3> QED BY <3>1, <3>2, <3>4, <3>5
  <2>2. Accounted(x)'
    BY <1>1, <1>2, <2>1 DEF Rest, OneRequest, Accounted
  <2>3. Restores(x)'
    BY <1>1, <1>2 DEF Rest, OneRequest, Restores, Outstanding
  <2>4. LinedUp(x)'
    BY <1>1 DEF Rest, OneRequest, LinedUp
  <2>5. OneRow(x)'
    <3>1. One(x \in active') = One(x \in active) + One(r = x)
      BY <1>0, <1>1
    <3>2. OneRow(x) /\ In(unprocessed, x) \in Nat /\ In(decoding, x) \in Nat
      BY CountTypes DEF Rest, OneRequest
    <3> QED BY <1>3, <1>4, <3>1, <3>2 DEF OneRow
  <2>6. Replied(x)'
    BY <1>1 DEF Replied
  <2> QED BY <2>2, <2>3, <2>4, <2>5, <2>6 DEF OneRequest
<1>9. RowCount'
  <2>1. PICK k \in Nat : k = Len(unprocessed) /\ Len(unprocessed') = k + 1
    BY <1>0, AppendProperties, LenProperties DEF TypeOK, BatchTypeOK, InsertRow
  <2>2. Len(decoding) \in Nat
    BY LenProperties DEF TypeOK, BatchTypeOK
  <2> QED BY <1>4, <1>6, <2>1, <2>2 DEF Rest, RowCount
<1> QED BY <1>1, <1>5, <1>7, <1>8, <1>9 DEF Rest

\* A ready request that cannot be inserted is answered with an error.
LEMMA RejectReadyKeeps ==
  ASSUME TypeOK, Rest, NEW r \in Req, RejectReady(r)
  PROVE  Rest'
<1>0. NextReady(r) /\ Send(r, <<"error">>) /\ UNCHANGED <<active, batchVars>>
  BY DEF RejectReady
<1>1. /\ Alive /\ Alive' /\ phase = "insert" /\ phase' = "insert"
      /\ \A x \in Req : /\ New(work', x) = New(work, x) /\ New(work', x) \in Nat
                        /\ Results(work, x) = Results(work', x) + One(r = x)
                        /\ Results(work', x) \in Nat
      /\ r \in Accepted /\ ~Answered(r) /\ r \notin active /\ Held(r) = 1
      /\ ToSet(work') \subseteq ToSet(work) /\ Len(work') = Len(work) - 1 /\ Len(work) \in Nat
      /\ WorkFits'
      /\ UNCHANGED <<client, stopped, requests, pending, ready, restoring,
                     cancelledRestores, restoreJobs, ioJob>>
      /\ Accepted' = Accepted
  BY <1>0, ReadyTaken
<1>2. /\ \A x \in Req : x # r => stream'[x] = stream[x] /\ (Answered(x)' <=> Answered(x))
      /\ Answered(r)'
  BY <1>0, SentOne DEF Message, Terminals
<1>5. Known'
  BY <1>0, <1>1, <1>2 DEF Rest, Known
<1>7. (Alive => SlotCount <= MaxSeqNums)'
  <2>1. PICK k \in Nat : k = Len(work) /\ Len(work') = k - 1
    BY <1>1
  <2>2. SchedulerAssumption /\ Cardinality(restoring) \in Nat /\ Cardinality(active) \in Nat
    BY SchedulerAssumption, FS_CardinalityType DEF TypeOK
  <2> QED BY <1>0, <1>1, <2>1, <2>2 DEF Rest, SlotCount, SchedulerAssumption
<1>8. \A x \in Req : OneRequest(x)'
  <2> TAKE x \in Req
  <2>1. Held(x) = Held(x)' + One(r = x) /\ Held(x)' \in Nat
    <3>2. ReadyIn(x) = ReadyIn(x)' + One(r = x) /\ ReadyIn(x)' \in Nat
      BY <1>1 DEF ReadyIn
    <3>3. PICK a \in Nat, b \in Nat, c \in Nat, i \in Nat, j \in Nat :
            /\ a = New(requests, x) /\ b = New(work, x) /\ c = In(pending, x)
            /\ i = One(x \in restoring) /\ j = One(x \in active)
            /\ a = New(requests', x) /\ b = New(work', x) /\ c = In(pending', x)
            /\ i = One(x \in restoring') /\ j = One(x \in active')
      <4>1. /\ New(requests', x) = New(requests, x) /\ New(work', x) = New(work, x)
            /\ In(pending', x) = In(pending, x) /\ One(x \in restoring') = One(x \in restoring)
            /\ One(x \in active') = One(x \in active)
        BY <1>0, <1>1
      <4>2. /\ New(requests, x) \in Nat /\ New(work, x) \in Nat /\ In(pending, x) \in Nat
            /\ One(x \in restoring) \in Nat /\ One(x \in active) \in Nat
        BY CountTypes
      <4> QED BY <4>1, <4>2
    <3>4. Held(x) = a + b + c + ReadyIn(x) + i + j /\ Held(x)' = a + b + c + ReadyIn(x)' + i + j
      BY <3>3 DEF Held
    <3> QED BY <3>2, <3>4
  <2>2. Accounted(x)'
    BY <1>1, <1>2, <2>1 DEF Rest, OneRequest, Accounted
  <2>3. Restores(x)'
    BY <1>1, <1>2 DEF Rest, OneRequest, Restores, Outstanding
  <2>4. LinedUp(x)'
    BY <1>1 DEF Rest, OneRequest, LinedUp
  <2>5. OneRow(x)' /\ Replied(x)'
    BY <1>0, <1>1 DEF Rest, OneRequest, OneRow, Replied
  <2> QED BY <2>2, <2>3, <2>4, <2>5 DEF OneRequest
<1>9. RowCount'
  BY <1>0 DEF Rest, RowCount
<1> QED BY <1>1, <1>5, <1>7, <1>8, <1>9 DEF Rest

\* The insert loop ends: what it did not insert is ready again.
LEMMA EndInsertKeeps ==
  ASSUME TypeOK, Rest, EndInsert
  PROVE  Rest'
<1>1. /\ phase = "insert" /\ phase' = "admit" /\ Alive /\ Alive'
      /\ ready' = Ids(work) /\ work' = <<>>
      /\ UNCHANGED <<clientVars, stream, requests, active, pending, restoring,
                     cancelledRestores, batchVars, restoreJobs, ioJob>>
  BY DEF EndInsert, Alive
<1>2. PICK ids \in Seq(Req) : ids = ready' /\ DOMAIN ids = DOMAIN work
                              /\ \A i \in DOMAIN work : work[i].id = ids[i]
  BY <1>1, IdsType DEF TypeOK, Ids
<1>3. \A item \in ToSet(work) : item \in QueueItem /\ item.kind = "prepared"
  BY <1>1 DEF Rest, WorkFits
<1>4. /\ \A x \in Req : Results(work, x) = In(ids, x) /\ New(work, x) = 0
      /\ Len(work) = Len(ids)
      /\ \A x \in Req : x \in ToSet(ids) <=> \E item \in ToSet(work) : item.id = x
  BY <1>2, <1>3, PreparedList DEF TypeOK, Items
<1>5. WorkFits'
  BY <1>1 DEF WorkFits
<1>6. Known'
  <2>1. ToSet(ids) \subseteq Accepted
    <3>1. ToSet(ids) \subseteq Req
      BY ToSetSubset
    <3> QED BY <1>3, <1>4, <3>1 DEF Rest, Known
  <2> QED BY <1>1, <1>2, <2>1, EmptyHasNone DEF Rest, Known, Accepted
<1>7. (Alive => SlotCount <= MaxSeqNums)'
  BY <1>1, <1>2, <1>4 DEF Rest, SlotCount
<1>8. \A x \in Req : OneRequest(x)'
  <2> TAKE x \in Req
  <2>0. New(work', x) = 0 /\ Results(work', x) = 0
    BY <1>1, NothingCounted
  <2>1. Held(x)' = Held(x) /\ (Answered(x)' <=> Answered(x)) /\ Accepted' = Accepted
    <3>1. ReadyIn(x)' = ReadyIn(x)
      BY <1>1, <1>2, <1>4 DEF ReadyIn
    <3> QED BY <1>1, <1>4, <2>0, <3>1 DEF Held, Answered, Accepted
  <2>2. Restores(x)'
    BY <1>1, <2>1 DEF Rest, OneRequest, Restores, Outstanding
  <2>3. LinedUp(x)'
    BY <1>1, <1>4, <2>0 DEF Rest, OneRequest, LinedUp
  <2>4. OneRow(x)' /\ Replied(x)'
    BY <1>1 DEF Rest, OneRequest, OneRow, Replied
  <2> QED BY <1>1, <2>1, <2>2, <2>3, <2>4 DEF Rest, OneRequest, Accounted
<1>9. RowCount'
  BY <1>1 DEF Rest, RowCount
<1> QED BY <1>5, <1>6, <1>7, <1>8, <1>9 DEF Rest

\* admit_pending_requests cuts the pending list in two.
LEMMA Admits ==
  ASSUME TypeOK, AdmitPending
  PROVE  \E admitted \in Seq(Req) :
           /\ Len(admitted) = Admissible
           /\ restoring' = restoring \cup ToSet(admitted)
           /\ restoreJobs' = restoreJobs \o admitted
           /\ pending' \in Seq(Req)
           /\ pending = admitted \o pending'
<1> DEFINE admitted == SubSeq(pending, 1, Admissible)
           kept == SubSeq(pending, Admissible + 1, Len(pending))
<1>1. Admissible \in 0..Len(pending) /\ Len(pending) \in Nat
  BY AdmissibleType, LenProperties DEF TypeOK
<1>2. \A i \in 1..Len(pending) : pending[i] \in Req
  BY ElementOfSeq DEF TypeOK
<1>3. admitted \in Seq(Req) /\ Len(admitted) = Admissible
  BY <1>1, <1>2, SubSeqProperties
<1>4. kept \in Seq(Req)
  BY <1>1, <1>2, SubSeqProperties
<1>5. pending = admitted \o kept
  <2>1. PICK k \in Nat, n \in Nat : k = Admissible /\ n = Len(pending) /\ k <= n
    BY <1>1
  <2>2. 1 \in 1..(n+1) /\ k \in (1-1)..n /\ n \in k..n
    BY <2>1
  <2>3. SubSeq(pending, 1, k) \o SubSeq(pending, k+1, n) = SubSeq(pending, 1, n)
    BY <2>1, <2>2, ConcatAdjacentSubSeq DEF TypeOK
  <2> QED BY <2>1, <2>3, SubSeqFull DEF TypeOK
<1> QED BY <1>3, <1>4, <1>5 DEF AdmitPending

\* The head of the line takes a slot, and its restore job is queued.
LEMMA AdmitPendingKeeps ==
  ASSUME TypeOK, Rest, AdmitPending
  PROVE  Rest'
<1>1. /\ phase = "admit" /\ phase' = "step" /\ Alive /\ Alive'
      /\ UNCHANGED <<clientVars, stream, requests, work, active, ready,
                     cancelledRestores, batchVars, ioJob>>
      /\ Accepted' = Accepted /\ work = <<>>
  BY DEF AdmitPending, Alive, Accepted, Rest, WorkFits
<1>2. PICK admitted \in Seq(Req) :
        /\ Len(admitted) = Admissible
        /\ restoring' = restoring \cup ToSet(admitted)
        /\ restoreJobs' = restoreJobs \o admitted
        /\ pending' \in Seq(Req)
        /\ pending = admitted \o pending'
  BY Admits
<1>3. \A x \in Req : /\ In(pending, x) = In(admitted, x) + In(pending', x)
                     /\ In(restoreJobs', x) = In(restoreJobs, x) + In(admitted, x)
                     /\ In(admitted, x) \in Nat /\ In(pending', x) \in Nat
  <2>1. PICK kept \in Seq(Req) : kept = pending'
    BY <1>2
  <2>2. \A x \in Req : In(pending, x) = In(admitted, x) + In(kept, x)
    BY <1>2, <2>1, HitsConcat DEF In
  <2>3. \A x \in Req : In(restoreJobs', x) = In(restoreJobs, x) + In(admitted, x)
    BY <1>2, HitsConcat DEF In, TypeOK
  <2> QED BY <2>1, <2>2, <2>3, Numbers
<1>4. /\ ToSet(pending) = ToSet(admitted) \cup ToSet(pending')
      /\ ToSet(restoreJobs') = ToSet(restoreJobs) \cup ToSet(admitted)
  BY <1>2, ConcatElements DEF TypeOK
<1>5. WorkFits'
  BY <1>1 DEF WorkFits
<1>6. Known'
  BY <1>1, <1>2, <1>4 DEF Rest, Known
<1>7. (Alive => SlotCount <= MaxSeqNums)'
  <2>1. /\ IsFiniteSet(ToSet(admitted)) /\ Cardinality(ToSet(admitted)) <= Len(admitted)
        /\ Cardinality(ToSet(admitted)) \in Nat
    BY ToSetFinite, FS_CardinalityType
  <2>2. /\ IsFiniteSet(restoring) /\ Cardinality(restoring) \in Nat
        /\ Cardinality(active) \in Nat /\ Len(ready) \in Nat /\ Len(pending) \in Nat
    BY FS_CardinalityType, LenProperties DEF TypeOK
  <2>3. Cardinality(restoring') <= Cardinality(restoring) + Cardinality(ToSet(admitted))
        /\ Cardinality(restoring') \in Nat
    <3>1. PICK A, B : A = restoring /\ B = ToSet(admitted)
      OBVIOUS
    <3>2. /\ Cardinality(A \cup B) = Cardinality(A) + Cardinality(B) - Cardinality(A \cap B)
          /\ IsFiniteSet(A \cap B) /\ IsFiniteSet(A \cup B)
      BY <2>1, <2>2, <3>1, FS_Union, FS_Intersection
    <3>3. Cardinality(A \cap B) \in Nat /\ Cardinality(A \cup B) \in Nat
      BY <3>2, FS_CardinalityType
    <3> QED BY <1>2, <2>1, <2>2, <3>1, <3>2, <3>3
  <2>4. PICK a \in Nat, b \in Nat, c \in Nat, d \in Nat, k \in Nat :
          /\ a = Cardinality(active) /\ b = Len(ready) /\ c = Cardinality(restoring)
          /\ d = Cardinality(restoring') /\ k = Admissible
          /\ d <= c + k
    <3>1. PICK k \in Nat, n \in Nat : k = Admissible /\ n = Cardinality(ToSet(admitted)) /\ n <= k
      BY <1>2, <2>1, <2>2, AdmissibleType
    <3>2. PICK c \in Nat, d \in Nat : c = Cardinality(restoring) /\ d = Cardinality(restoring')
                                    /\ d <= c + n
      BY <2>2, <2>3, <3>1
    <3>3. d <= c + k
      BY <3>1, <3>2
    <3> QED BY <2>2, <3>1, <3>2, <3>3
  <2>5. a + b + c <= MaxSeqNums /\ MaxSeqNums \in Nat
    BY <1>1, <2>4, SchedulerAssumption DEF Rest, SlotCount, SchedulerAssumption
  <2>6. a + b + c + k <= MaxSeqNums
    <3>1. ReservedSlots = a + b + c
      BY <2>4 DEF ReservedSlots
    <3>2. PICK e \in Nat : e = Len(pending)
      BY <2>2
    <3>3. k = LET free == IF a + b + c < MaxSeqNums THEN MaxSeqNums - (a + b + c) ELSE 0
              IN  IF e < free THEN e ELSE free
      BY <2>4, <3>1, <3>2 DEF Admissible
    <3> QED BY <2>5, <3>3
  <2>7. a + b + d <= MaxSeqNums
    <3>0. d <= c + k
      BY <2>4
    <3>1. a + b + d <= a + b + c + k
      BY <3>0
    <3> QED BY <2>5, <2>6, <3>1
  <2> QED BY <1>1, <2>4, <2>7 DEF SlotCount
<1>8. \A x \in Req : OneRequest(x)'
  <2> TAKE x \in Req
  <2>0. Answered(x)' <=> Answered(x)
    BY <1>1 DEF Answered
  <2>1. /\ New(requests, x) \in Nat /\ New(work, x) \in Nat /\ ReadyIn(x) \in Nat
        /\ New(requests', x) = New(requests, x) /\ New(work', x) = New(work, x)
        /\ ReadyIn(x)' = ReadyIn(x) /\ In(restoreJobs, x) \in Nat /\ Results(requests, x) \in Nat
    BY <1>1, CountTypes DEF ReadyIn
  <2>2. /\ Held(x) \in {0, 1}
        /\ Held(x) = 1 <=> x \in Accepted /\ ~Answered(x)
    BY <1>1 DEF Rest, OneRequest, Accounted
  <2>3. PICK a \in Nat, b \in Nat, d \in Nat, j \in Nat, i \in Nat :
          /\ a = New(requests, x) /\ b = New(work, x) /\ d = ReadyIn(x)
          /\ j = One(x \in active) /\ i = One(x \in restoring)
    BY <2>1
  <2>4. PICK m \in Nat, n \in Nat : /\ m = In(admitted, x) /\ n = In(pending', x)
                                    /\ m + n = In(pending, x)
    BY <1>3
  <2>5. Held(x) = a + b + (m + n) + d + i + j
    BY <2>3, <2>4 DEF Held
  <2>6. m = 0 <=> x \notin ToSet(admitted)
    BY <2>4, InCounts
  <2>7. m \in {0, 1} /\ (m = 1 => i = 0 /\ x \in Accepted /\ ~Answered(x))
    BY <2>2, <2>5
  <2>8. One(x \in restoring') = i + m
    BY <1>2, <2>3, <2>6, <2>7
  <2>9. Held(x)' = Held(x)
    <3>1. Held(x)' = a + b + n + d + (i + m) + j
      <4>1. One(x \in active') = j
        BY <1>1, <2>3
      <4> QED BY <2>1, <2>3, <2>4, <2>8, <4>1 DEF Held
    <3> QED BY <2>5, <3>1
  <2>10. Restores(x)'
    <3>1. Restores(x)
      BY <1>1 DEF Rest, OneRequest
    <3>2. x \in ToSet(admitted) => x \notin restoring /\ x \notin cancelledRestores
      BY <2>3, <2>6, <2>7, <3>1 DEF Restores
    <3>3. Outstanding(x)' = Outstanding(x) + m
      <4>1. PICK p \in Nat, q \in Nat, s \in Nat :
              p = In(restoreJobs, x) /\ q = One(ioJob = x) /\ s = Results(requests, x)
        BY <2>1
      <4>2. Outstanding(x) = p + q + s + 0
        BY <1>1, <4>1 DEF Outstanding
      <4>3. In(restoreJobs', x) = p + m /\ One(ioJob' = x) = q /\ Results(requests', x) = s
        BY <1>1, <1>3, <2>4, <4>1
      <4>4. Outstanding(x)' = (p + m) + q + s + 0
        BY <1>1, <4>3 DEF Outstanding
      <4> QED BY <4>2, <4>4
    <3>4. x \in ToSet(admitted) => m = 1
      BY <2>6, <2>7
    <3> QED BY <1>1, <1>2, <2>0, <2>6, <2>7, <3>1, <3>2, <3>3, <3>4 DEF Restores
  <2>11. LinedUp(x)'
    <3>1. LinedUp(x)
      BY DEF Rest, OneRequest
    <3>2. PICK p \in Nat : p = In(restoreJobs, x) /\ In(restoreJobs', x) = p + m
      BY <1>3, <2>1, <2>4
    <3>3. p + (m + n) + b + a <= 1
      BY <2>3, <2>4, <3>1, <3>2 DEF LinedUp
    <3>4. (p + m) + n + b + a <= 1
      BY <3>3
    <3> QED BY <2>1, <2>3, <2>4, <3>2, <3>4 DEF LinedUp
  <2>12. OneRow(x)'
    BY <1>1 DEF Rest, OneRequest, OneRow
  <2>13. Replied(x)'
    BY <1>1 DEF Replied
  <2> QED BY <1>1, <2>0, <2>2, <2>9, <2>10, <2>11, <2>12, <2>13
          DEF Rest, OneRequest, Accounted
<1>9. RowCount'
  BY <1>1 DEF Rest, RowCount
<1> QED BY <1>5, <1>6, <1>7, <1>8, <1>9 DEF Rest

\* Phases that follow one another with nothing moved.
LEMMA NextPhaseKeeps ==
  ASSUME TypeOK, Rest, StepNothing \/ EndResponses
  PROVE  Rest'
<1>1. /\ phase \in {"step", "respond"} /\ phase' = "top" /\ Alive /\ Alive'
      /\ UNCHANGED <<clientVars, stream, requests, work, stateVars, batchVars, restoreJobs, ioJob>>
      /\ Accepted' = Accepted /\ work = <<>>
  BY DEF StepNothing, EndResponses, Alive, Accepted, Rest, WorkFits
<1>2. WorkFits'
  BY <1>1 DEF WorkFits
<1>3. Known'
  BY <1>1 DEF Rest, Known
<1>4. (Alive => SlotCount <= MaxSeqNums)'
  BY <1>1 DEF Rest, SlotCount
<1>5. \A x \in Req : OneRequest(x)'
  BY <1>1 DEF Rest, OneRequest, Accounted, Held, ReadyIn, Answered, Restores, Outstanding,
              LinedUp, OneRow, Replied
<1>6. RowCount'
  BY <1>1 DEF Rest, RowCount
<1> QED BY <1>2, <1>3, <1>4, <1>5, <1>6 DEF Rest

-----------------------------------------------------------------------------
(* step_generation: one call of next() and its responses.                  *)

\* One token or last item per decoding row, and nothing else.
LEMMA DecodeCounts ==
  ASSUME TypeOK, NEW done
  PROVE  /\ DecodeResponses(done) \in Seq(Response)
         /\ \A x \in Req : /\ Decoded(DecodeResponses(done), x) = In(decoding, x)
                           /\ Reported(DecodeResponses(done), x) = 0
                           /\ New(DecodeResponses(done), x) = 0
                           /\ Results(DecodeResponses(done), x) = 0
         /\ \A item \in ToSet(DecodeResponses(done)) :
              /\ item.id \in ToSet(decoding)
              /\ item.kind = IF item.id \in done THEN "last" ELSE "token"
         /\ \A x \in ToSet(decoding) :
              Item(IF x \in done THEN "last" ELSE "token", x) \in ToSet(DecodeResponses(done))
<1>1. PICK q \in Seq(Response) : q = DecodeResponses(done)
  BY DecodeResponsesType
<1>2. /\ DOMAIN q = DOMAIN decoding
      /\ \A i \in DOMAIN decoding :
           q[i] = Item(IF decoding[i] \in done THEN "last" ELSE "token", decoding[i])
  BY <1>1 DEF DecodeResponses
<1>3. \A i \in DOMAIN decoding : decoding[i] \in Req
  BY LenProperties DEF TypeOK, BatchTypeOK
<1>4. \A i \in DOMAIN q : /\ q[i].kind = IF decoding[i] \in done THEN "last" ELSE "token"
                          /\ q[i].id = decoding[i]
  BY <1>2 DEF Item
<1>5. q \in Seq(Items)
  BY SeqMonotonic DEF Items
<1>6. ASSUME NEW x \in Req
      PROVE  Decoded(q, x) = In(decoding, x) /\ Reported(q, x) = 0 /\ New(q, x) = 0
             /\ Results(q, x) = 0
  <2>1. \A i \in DOMAIN q : q[i] \in {Item("token", x), Item("last", x)} <=> decoding[i] \in {x}
    BY <1>2, <1>4 DEF Item
  <2>2. {i \in DOMAIN q : q[i] \in {Item("token", x), Item("last", x)}}
          = {i \in DOMAIN decoding : decoding[i] \in {x}}
    BY <1>2, <2>1
  <2>3. \A item \in ToSet(q) : item.kind \in {"token", "last"}
    BY <1>4 DEF ToSet
  <2>4. /\ Item("new", x) \notin ToSet(q) /\ Item("prepared", x) \notin ToSet(q)
        /\ Item("failed", x) \notin ToSet(q) /\ Item("progress", x) \notin ToSet(q)
        /\ Item("final", x) \notin ToSet(q)
    BY <2>3 DEF Item
  <2> QED BY <1>5, <2>2, <2>4, ItemsCounted DEF Decoded, In, Hits
<1>7. \A item \in ToSet(q) :
        /\ item.id \in ToSet(decoding)
        /\ item.kind = IF item.id \in done THEN "last" ELSE "token"
  BY <1>2, <1>4 DEF ToSet
<1>8. \A x \in ToSet(decoding) :
        Item(IF x \in done THEN "last" ELSE "token", x) \in ToSet(q)
  BY <1>2 DEF ToSet
<1> QED BY <1>1, <1>6, <1>7, <1>8

\* A progress response before the decode responses.
LEMMA ReportCounts ==
  ASSUME NEW q \in Seq(Response), NEW p \in Req, NEW kind \in {"progress", "final"}
  PROVE  /\ <<Item(kind, p)>> \o q \in Seq(Response)
         /\ \A x \in Req : /\ Decoded(<<Item(kind, p)>> \o q, x) = Decoded(q, x)
                           /\ Reported(<<Item(kind, p)>> \o q, x) = One(p = x) + Reported(q, x)
                           /\ New(<<Item(kind, p)>> \o q, x) = New(q, x)
                           /\ Results(<<Item(kind, p)>> \o q, x) = Results(q, x)
         /\ ToSet(<<Item(kind, p)>> \o q) = {Item(kind, p)} \cup ToSet(q)
<1>1. PICK item \in Response : item = Item(kind, p) /\ item.kind = kind /\ item.id = p
  BY ItemType DEF Item
<1> DEFINE h == <<item>>
<1>2. h \in Seq(Response) /\ ToSet(h) = {item} /\ \A S : Hits(h, S) = One(item \in S)
  BY HitsOfOne DEF ToSet
<1> HIDE DEF h
<1>3. h \o q \in Seq(Response) /\ ToSet(h \o q) = {item} \cup ToSet(q)
  BY <1>2, ConcatElements, ConcatProperties
<1>4. ASSUME NEW S
      PROVE  Hits(h \o q, S) = One(item \in S) + Hits(q, S) /\ Hits(q, S) \in Nat
  <2>1. Hits(h \o q, S) = Hits(h, S) + Hits(q, S)
    BY <1>2, HitsConcat
  <2> QED BY <1>2, <2>1, HitsType
<1>5. ASSUME NEW x \in Req
      PROVE  /\ Decoded(h \o q, x) = Decoded(q, x)
             /\ Reported(h \o q, x) = One(p = x) + Reported(q, x)
             /\ New(h \o q, x) = New(q, x)
             /\ Results(h \o q, x) = Results(q, x)
  <2>1. item \notin {Item("token", x), Item("last", x)}
    BY <1>1 DEF Item
  <2>2. item \in {Item("progress", x), Item("final", x)} <=> p = x
    BY <1>1 DEF Item, Response
  <2>3. item \notin {Item("new", x)}
    BY <1>1 DEF Item
  <2>4. item \notin {Item("prepared", x), Item("failed", x)}
    BY <1>1 DEF Item
  <2>5. Decoded(h \o q, x) = Decoded(q, x)
    BY <1>4, <2>1 DEF Decoded
  <2>6. Reported(h \o q, x) = One(p = x) + Reported(q, x)
    BY <1>4, <2>2 DEF Reported
  <2>7. New(h \o q, x) = New(q, x)
    BY <1>4, <2>3 DEF New
  <2>8. Results(h \o q, x) = Results(q, x)
    BY <1>4, <2>4 DEF Results
  <2> QED BY <2>5, <2>6, <2>7, <2>8
<1> QED BY <1>1, <1>3, <1>5 DEF h

\* The row whose prompt is worked on leaves the waiting rows once.
LEMMA PromptTaken ==
  ASSUME TypeOK, PromptRow # NoReq, TakePromptRow
  PROVE  /\ PromptRow \in Req
         /\ \A x \in Req :
              /\ In(unprocessed, x) + One(prefilling = x)
                   = In(unprocessed', x) + One(PromptRow = x)
              /\ In(unprocessed', x) \in Nat
         /\ Len(unprocessed) + One(prefilling # NoReq) = Len(unprocessed') + 1
         /\ Len(unprocessed') \in Nat
<1>1. /\ unprocessed \in Seq(Req) /\ prefilling \in Req \cup {NoReq} /\ NoReq \notin Req
      /\ Len(unprocessed) \in Nat
  BY SchedulerAssumption, LenProperties DEF TypeOK, BatchTypeOK
<1>2. CASE prefilling # NoReq
  BY <1>1, <1>2, Numbers DEF PromptRow, TakePromptRow
<1>3. CASE prefilling = NoReq
  <2>1. unprocessed # <<>> /\ PromptRow = Head(unprocessed) /\ unprocessed' = Tail(unprocessed)
    BY <1>3 DEF PromptRow, TakePromptRow
  <2>2. PICK h \in Req, t \in Seq(Req) : h = Head(unprocessed) /\ t = Tail(unprocessed)
                                         /\ Len(t) = Len(unprocessed) - 1
    BY <1>1, <2>1, HeadTailProperties
  <2>3. \A x \in Req : In(unprocessed, x) = In(t, x) + One(h = x) /\ In(t, x) \in Nat
    <3>1. PICK q \in Seq(Req) : q = unprocessed /\ q # <<>>
      BY <1>1, <2>1
    <3>2. \A x \in Req : In(q, x) = In(Tail(q), x) + One(Head(q) = x)
      BY <3>1, InCounts
    <3>3. \A x \in Req : In(t, x) \in Nat
      BY Numbers
    <3> QED BY <2>2, <3>1, <3>2, <3>3
  <2>4. \A x \in Req : One(prefilling = x) = 0
    BY <1>1, <1>3
  <2>5. Len(t) \in Nat
    BY LenProperties
  <2> QED BY <1>1, <1>3, <2>1, <2>2, <2>3, <2>4, <2>5
<1> QED BY <1>2, <1>3

\* What one call of next() may do: it steps every decoding row, and may work
\* on the prompt of one row, or have that row join the decode batch.
Called(done, p, kind) ==
  /\ AtTokenLimit \subseteq done
  /\ work' = IF p = NoReq THEN DecodeResponses(done)
             ELSE <<Item(kind, p)>> \o DecodeResponses(done)
  /\ p = NoReq => /\ UNCHANGED <<unprocessed, prefilling, decoding>>
                  /\ steps' = CountTokens
  /\ p # NoReq => /\ p = PromptRow /\ p \in active /\ p \notin ToSet(decoding)
                  /\ In(decoding, p) = 0
                  /\ TakePromptRow
                  /\ \/ /\ UNCHANGED decoding /\ prefilling' = p
                        /\ \E n \in Nat : steps' = [CountTokens EXCEPT ![p] = n]
                     \/ /\ decoding' = Append(decoding, p) /\ prefilling' = NoReq
                        /\ kind = "final"
                        /\ steps' = [CountTokens EXCEPT ![p] = 0]

\* CallNext is Called by one of the prompt's three outcomes.
LEMMA NextCalled ==
  ASSUME TypeOK, Rest, CallNext
  PROVE  \E done \in SUBSET ToSet(decoding), p \in Req \cup {NoReq}, kind \in {"progress", "final"} :
           Called(done, p, kind)
<1>1. PICK done \in SUBSET ToSet(decoding) :
       /\ AtTokenLimit \subseteq done
       /\ \/ NoPromptWork(done) /\ work' = DecodeResponses(done)
          \/ \E n \in 1..PromptSteps :
               /\ PromptStep(done, n)
               /\ work' = <<ProgressResponse(n)>> \o DecodeResponses(done)
          \/ /\ JoinDecode(done)
             /\ work' = <<Item("final", PromptRow)>> \o DecodeResponses(done)
  BY DEF CallNext
<1>2. ASSUME PromptRow # NoReq, TakePromptRow
      PROVE  /\ PromptRow \in Req /\ PromptRow \in active
             /\ PromptRow \notin ToSet(decoding) /\ In(decoding, PromptRow) = 0
  <2>1. PICK p \in Req : p = PromptRow
    BY <1>2, PromptTaken
  <2>2. In(unprocessed, p) + One(prefilling = p) = In(unprocessed', p) + 1 /\ In(unprocessed', p) \in Nat
    BY <1>2, <2>1, PromptTaken
  <2>3. OneRow(p) /\ In(unprocessed, p) \in Nat /\ In(decoding, p) \in Nat
    BY CountTypes DEF Rest, OneRequest
  <2>4. One(p \in active) = 1 /\ In(decoding, p) = 0
    BY <2>2, <2>3 DEF OneRow
  <2>5. p \in active /\ p \notin ToSet(decoding)
    BY <2>4, InCounts DEF TypeOK, BatchTypeOK
  <2> QED BY <2>1, <2>4, <2>5
<1>3. ASSUME NoPromptWork(done), work' = DecodeResponses(done)
      PROVE  \E p \in Req \cup {NoReq}, kind \in {"progress", "final"} : Called(done, p, kind)
  <2>1. /\ UNCHANGED <<unprocessed, prefilling, decoding>> /\ steps' = CountTokens
    BY <1>3 DEF NoPromptWork
  <2>2. Called(done, NoReq, "final")
    BY <1>1, <1>3, <2>1 DEF Called
  <2> QED BY <2>2
<1>4. ASSUME NEW n \in 1..PromptSteps, PromptStep(done, n),
             work' = <<ProgressResponse(n)>> \o DecodeResponses(done)
      PROVE  \E p \in Req \cup {NoReq}, kind \in {"progress", "final"} :
               /\ p # NoReq /\ p = PromptRow /\ p \in active /\ p \notin ToSet(decoding)
               /\ In(decoding, p) = 0
               /\ work' = <<Item(kind, p)>> \o DecodeResponses(done)
               /\ TakePromptRow /\ UNCHANGED decoding /\ prefilling' = p
               /\ steps' = [CountTokens EXCEPT ![p] = n]
  <2>1. PICK kind \in {"progress", "final"} : ProgressResponse(n) = Item(kind, PromptRow)
    BY DEF ProgressResponse
  <2>2. /\ PromptRow # NoReq /\ TakePromptRow /\ UNCHANGED decoding /\ prefilling' = PromptRow
        /\ steps' = [CountTokens EXCEPT ![PromptRow] = n]
    BY <1>4 DEF PromptStep
  <2> QED BY <1>2, <1>4, <2>1, <2>2
<1>5. ASSUME JoinDecode(done), work' = <<Item("final", PromptRow)>> \o DecodeResponses(done)
      PROVE  \E p \in Req \cup {NoReq} :
               /\ p # NoReq /\ p = PromptRow /\ p \in active /\ p \notin ToSet(decoding)
               /\ In(decoding, p) = 0
               /\ work' = <<Item("final", p)>> \o DecodeResponses(done)
               /\ TakePromptRow /\ decoding' = Append(decoding, p) /\ prefilling' = NoReq
               /\ steps' = [CountTokens EXCEPT ![p] = 0]
  <2>2. /\ PromptRow # NoReq /\ TakePromptRow /\ decoding' = Append(decoding, PromptRow)
        /\ prefilling' = NoReq /\ steps' = [CountTokens EXCEPT ![PromptRow] = 0]
    BY <1>5 DEF JoinDecode
  <2> QED BY <1>2, <1>5, <2>2
<1>6. \A n \in 1..PromptSteps : n \in Nat
  OBVIOUS
<1>7. ASSUME NEW n \in 1..PromptSteps, PromptStep(done, n),
             work' = <<ProgressResponse(n)>> \o DecodeResponses(done)
      PROVE  \E p \in Req \cup {NoReq}, kind \in {"progress", "final"} : Called(done, p, kind)
  BY <1>1, <1>4, <1>6, <1>7 DEF Called
<1>8. ASSUME JoinDecode(done), work' = <<Item("final", PromptRow)>> \o DecodeResponses(done)
      PROVE  \E p \in Req \cup {NoReq}, kind \in {"progress", "final"} : Called(done, p, kind)
  BY <1>1, <1>5, <1>8 DEF Called
<1> QED BY <1>1, <1>3, <1>7, <1>8

\* What a call of next() leaves to be answered and where it leaves the rows.
LEMMA CallCounts ==
  ASSUME TypeOK, Rest, NEW done, NEW p \in Req \cup {NoReq}, NEW kind \in {"progress", "final"},
         Called(done, p, kind)
  PROVE  /\ work' \in Seq(Response)
         /\ \A x \in Req : /\ Decoded(work', x) = In(decoding, x)
                           /\ Reported(work', x) = One(p = x)
                           /\ New(work', x) = 0 /\ Results(work', x) = 0
         /\ \A item \in ToSet(work') : item.kind # "cancel" /\ item.id \in active
         /\ \A x \in Req : /\ One(p = x) + In(decoding, x) <= One(x \in active)
                           /\ In(decoding, x) <= In(decoding', x)
                           /\ In(unprocessed, x) + One(prefilling = x) + In(decoding, x)
                                = In(unprocessed', x) + One(prefilling' = x) + In(decoding', x)
         /\ Len(unprocessed) + Len(decoding) + One(prefilling # NoReq)
              = Len(unprocessed') + Len(decoding') + One(prefilling' # NoReq)
<1>1. PICK q \in Seq(Response) :
        /\ q = DecodeResponses(done)
        /\ \A x \in Req : /\ Decoded(q, x) = In(decoding, x) /\ Reported(q, x) = 0
                          /\ New(q, x) = 0 /\ Results(q, x) = 0
        /\ \A item \in ToSet(q) : item.kind \in {"token", "last"} /\ item.id \in ToSet(decoding)
  BY DecodeCounts
<1>2. /\ \A x \in Req : OneRow(x) /\ In(unprocessed, x) \in Nat /\ In(decoding, x) \in Nat
      /\ NoReq \notin Req /\ unprocessed \in Seq(Req) /\ decoding \in Seq(Req)
      /\ Len(unprocessed) \in Nat /\ Len(decoding) \in Nat
  BY CountTypes, SchedulerAssumption, LenProperties DEF Rest, OneRequest, TypeOK, BatchTypeOK
<1>3. ToSet(decoding) \subseteq active
  <2>1. ASSUME NEW x \in ToSet(decoding)
        PROVE  x \in active
    <3>1. x \in Req
      BY <1>2, <2>1, ToSetSubset
    <3>2. PICK a \in Nat, b \in Nat : a = In(unprocessed, x) /\ b = In(decoding, x) /\ b # 0
      BY <1>2, <2>1, <3>1, InCounts
    <3>3. a + One(prefilling = x) + b = One(x \in active)
      BY <1>2, <3>1, <3>2 DEF OneRow
    <3> QED BY <3>2, <3>3
  <2> QED BY <2>1
<1>4. CASE p = NoReq
  <2>1. work' = q /\ UNCHANGED <<unprocessed, prefilling, decoding>>
    BY <1>1, <1>4 DEF Called
  <2>2. \A x \in Req : /\ One(p = x) = 0
                       /\ One(p = x) + In(decoding, x) <= One(x \in active)
    BY <1>2, <1>4 DEF OneRow
  <2> QED BY <1>1, <1>2, <1>3, <2>1, <2>2
<1>5. CASE p # NoReq
  <2>1. /\ p \in Req /\ p \in active /\ p = PromptRow /\ PromptRow # NoReq /\ In(decoding, p) = 0
        /\ TakePromptRow
        /\ work' = <<Item(kind, p)>> \o q
    BY <1>1, <1>5 DEF Called
  <2>2. /\ work' \in Seq(Response)
        /\ \A x \in Req : /\ Decoded(work', x) = Decoded(q, x)
                          /\ Reported(work', x) = One(p = x) + Reported(q, x)
                          /\ New(work', x) = New(q, x) /\ Results(work', x) = Results(q, x)
        /\ ToSet(work') = {Item(kind, p)} \cup ToSet(q)
    <3>1. PICK row \in Req : row = p
      BY <2>1
    <3>2. /\ <<Item(kind, row)>> \o q \in Seq(Response)
          /\ \A x \in Req : /\ Decoded(<<Item(kind, row)>> \o q, x) = Decoded(q, x)
                            /\ Reported(<<Item(kind, row)>> \o q, x) = One(row = x) + Reported(q, x)
                            /\ New(<<Item(kind, row)>> \o q, x) = New(q, x)
                            /\ Results(<<Item(kind, row)>> \o q, x) = Results(q, x)
          /\ ToSet(<<Item(kind, row)>> \o q) = {Item(kind, row)} \cup ToSet(q)
      BY ReportCounts
    <3> QED BY <2>1, <3>1, <3>2
  <2>3. /\ \A x \in Req : /\ In(unprocessed, x) + One(prefilling = x) = In(unprocessed', x) + One(p = x)
                          /\ In(unprocessed', x) \in Nat
        /\ Len(unprocessed) + One(prefilling # NoReq) = Len(unprocessed') + 1
        /\ Len(unprocessed') \in Nat
    BY <2>1, PromptTaken
  <2>4. \A x \in Req : One(p = x) + In(decoding, x) <= One(x \in active)
    <3> TAKE x \in Req
    <3>1. PICK a \in Nat, b \in Nat : a = In(unprocessed, x) /\ b = In(decoding, x)
      BY <1>2
    <3>2. a + One(prefilling = x) + b = One(x \in active)
      BY <1>2, <3>1 DEF OneRow
    <3>3. p = x => b = 0 /\ x \in active
      BY <2>1, <3>1
    <3>4. b <= One(x \in active)
      BY <3>2
    <3> QED BY <3>1, <3>3, <3>4
  <2>5. CASE UNCHANGED decoding /\ prefilling' = p
    <3>1. \A x \in Req : One(prefilling' = x) = One(p = x)
      BY <2>5
    <3>2. One(prefilling' # NoReq) = 1
      BY <1>5, <2>5
    <3>3. \A x \in Req :
               /\ In(decoding, x) <= In(decoding', x)
               /\ In(unprocessed, x) + One(prefilling = x) + In(decoding, x)
                    = In(unprocessed', x) + One(prefilling' = x) + In(decoding', x)
      <4> TAKE x \in Req
      <4>1. PICK a \in Nat, b \in Nat, c \in Nat :
              a = In(unprocessed, x) /\ b = In(decoding, x) /\ c = In(unprocessed', x)
        BY <1>2, <2>3
      <4>3. a + One(prefilling = x) = c + One(p = x)
        BY <2>3, <4>1
      <4>2. In(decoding', x) = b
        BY <2>5, <4>1
      <4>4. One(prefilling' = x) = One(p = x)
        BY <3>1
      <4>5. a + One(prefilling = x) + b = c + One(p = x) + b /\ b <= b
        BY <4>3
      <4> QED BY <4>1, <4>2, <4>4, <4>5
    <3>4. Len(unprocessed) + Len(decoding) + One(prefilling # NoReq)
              = Len(unprocessed') + Len(decoding') + One(prefilling' # NoReq)
      <4>1. PICK a \in Nat, b \in Nat, c \in Nat :
              /\ a = Len(unprocessed) /\ b = Len(decoding) /\ c = Len(unprocessed')
              /\ a + One(prefilling # NoReq) = c + 1
        BY <1>2, <2>3
      <4>2. Len(decoding') = b
        BY <2>5, <4>1
      <4> QED BY <3>2, <4>1, <4>2
    <3> QED BY <1>1, <1>3, <2>1, <2>2, <2>4, <3>3, <3>4 DEF Item
  <2>6. CASE decoding' = Append(decoding, p) /\ prefilling' = NoReq
    <3>1. \A x \in Req : One(prefilling' = x) = 0
      BY <1>2, <2>6
    <3>2. One(prefilling' # NoReq) = 0
      BY <2>6
    <3>3. /\ \A x \in Req : In(decoding', x) = In(decoding, x) + One(p = x)
          /\ Len(decoding') = Len(decoding) + 1
      <4>1. PICK row \in Req : row = p
        BY <2>1
      <4>2. \A x \in Req : In(Append(decoding, row), x) = In(decoding, x) + One(row = x)
        BY <1>2, InCounts
      <4>3. Len(Append(decoding, row)) = Len(decoding) + 1
        BY <1>2, AppendProperties
      <4> QED BY <2>6, <4>1, <4>2, <4>3
    <3>4. \A x \in Req :
               /\ In(decoding, x) <= In(decoding', x)
               /\ In(unprocessed, x) + One(prefilling = x) + In(decoding, x)
                    = In(unprocessed', x) + One(prefilling' = x) + In(decoding', x)
      <4> TAKE x \in Req
      <4>1. PICK a \in Nat, b \in Nat, c \in Nat :
              a = In(unprocessed, x) /\ b = In(decoding, x) /\ c = In(unprocessed', x)
        BY <1>2, <2>3
      <4>3. a + One(prefilling = x) = c + One(p = x)
        BY <2>3, <4>1
      <4>2. In(decoding', x) = b + One(p = x)
        BY <3>3, <4>1
      <4>4. One(prefilling' = x) = 0
        BY <3>1
      <4>5. /\ a + One(prefilling = x) + b = c + 0 + (b + One(p = x))
            /\ b <= b + One(p = x)
        BY <4>3
      <4> QED BY <4>1, <4>2, <4>4, <4>5
    <3>5. Len(unprocessed) + Len(decoding) + One(prefilling # NoReq)
              = Len(unprocessed') + Len(decoding') + One(prefilling' # NoReq)
      <4>1. PICK a \in Nat, b \in Nat, c \in Nat :
              /\ a = Len(unprocessed) /\ b = Len(decoding) /\ c = Len(unprocessed')
              /\ a + One(prefilling # NoReq) = c + 1
        BY <1>2, <2>3
      <4>2. Len(decoding') = b + 1
        BY <3>3, <4>1
      <4> QED BY <3>2, <4>1, <4>2
    <3> QED BY <1>1, <1>3, <2>1, <2>2, <2>4, <3>4, <3>5 DEF Item
  <2> QED BY <1>5, <2>5, <2>6 DEF Called
<1> QED BY <1>4, <1>5

\* next() leaves each active request one row, and its responses are about rows.
LEMMA CallNextKeeps ==
  ASSUME TypeOK, Rest, CallNext
  PROVE  Rest'
<1>1. /\ phase = "step" /\ phase' = "respond" /\ Alive /\ Alive' /\ work = <<>>
      /\ UNCHANGED <<clientVars, stream, requests, stateVars, restoreJobs, ioJob>>
      /\ Accepted' = Accepted
  BY DEF CallNext, Alive, Accepted, Rest, WorkFits
<1>2. PICK done \in SUBSET ToSet(decoding), p \in Req \cup {NoReq}, kind \in {"progress", "final"} :
        Called(done, p, kind)
  BY NextCalled
<1>3. /\ work' \in Seq(Response)
      /\ \A x \in Req : /\ Decoded(work', x) = In(decoding, x)
                        /\ Reported(work', x) = One(p = x)
                        /\ New(work', x) = 0 /\ Results(work', x) = 0
      /\ \A item \in ToSet(work') : item.kind # "cancel" /\ item.id \in active
      /\ \A x \in Req : /\ One(p = x) + In(decoding, x) <= One(x \in active)
                        /\ In(decoding, x) <= In(decoding', x)
                        /\ In(unprocessed, x) + One(prefilling = x) + In(decoding, x)
                             = In(unprocessed', x) + One(prefilling' = x) + In(decoding', x)
      /\ Len(unprocessed) + Len(decoding) + One(prefilling # NoReq)
           = Len(unprocessed') + Len(decoding') + One(prefilling' # NoReq)
  BY <1>2, CallCounts
<1>4. WorkFits'
  BY <1>1, <1>3 DEF WorkFits
<1>5. Known'
  BY <1>1, <1>3 DEF Rest, Known
<1>6. (Alive => SlotCount <= MaxSeqNums)'
  BY <1>1 DEF Rest, SlotCount
<1>7. \A x \in Req : OneRequest(x)'
  <2> TAKE x \in Req
  <2>0. New(work, x) = 0 /\ New(work', x) = 0
    BY <1>1, <1>3, NothingCounted
  <2>1. Held(x)' = Held(x) /\ (Answered(x)' <=> Answered(x))
    BY <1>1, <2>0 DEF Held, ReadyIn, Answered
  <2>2. Restores(x)'
    BY <1>1, <2>1 DEF Rest, OneRequest, Restores, Outstanding
  <2>3. LinedUp(x)'
    BY <1>1, <2>0 DEF Rest, OneRequest, LinedUp
  <2>4. OneRow(x)'
    <3>1. OneRow(x) /\ active' = active
      BY <1>1 DEF Rest, OneRequest
    <3> QED BY <1>3, <3>1 DEF OneRow
  <2>5. Replied(x)'
    <3>1. active' = active
      BY <1>1
    <3> QED BY <1>3, <3>1 DEF Replied
  <2> QED BY <1>1, <2>1, <2>2, <2>3, <2>4, <2>5 DEF Rest, OneRequest, Accounted
<1>8. RowCount'
  <2>1. active' = active
    BY <1>1
  <2> QED BY <1>3, <2>1 DEF Rest, RowCount
<1> QED BY <1>4, <1>5, <1>6, <1>7, <1>8 DEF Rest

\* A response is taken off: the others stay.
LEMMA ResponseTaken ==
  ASSUME TypeOK, Rest, NEW r \in Req, NEW kinds, NextResponse(kinds, r), work' = Tail(work),
         UNCHANGED phase
  PROVE  /\ Alive /\ Alive' /\ phase = "respond" /\ phase' = "respond"
         /\ \A x \in Req : /\ New(work', x) = 0 /\ New(work, x) = 0
                           /\ Reported(work, x) = Reported(work', x)
                                + One(Head(work).kind \in {"progress", "final"} /\ r = x)
                           /\ Decoded(work, x) = Decoded(work', x)
                                + One(Head(work).kind \in {"token", "last"} /\ r = x)
                           /\ Reported(work', x) \in Nat /\ Decoded(work', x) \in Nat
         /\ Head(work) \in Response /\ ToSet(work) = {Head(work)} \cup ToSet(work')
         /\ WorkFits'
         /\ UNCHANGED <<client, stopped, requests, pending, ready, restoring,
                        cancelledRestores, restoreJobs, ioJob>>
         /\ Accepted' = Accepted
<1>1. /\ work # <<>> /\ Head(work).id = r /\ phase = "respond" /\ phase' = "respond"
      /\ UNCHANGED <<client, stopped, requests, pending, ready, restoring,
                     cancelledRestores, restoreJobs, ioJob>>
      /\ Alive /\ Alive' /\ Accepted' = Accepted
  BY DEF NextResponse, Alive, Accepted
<1>2. work \in Seq(Response) /\ work' \in Seq(Response) /\ Head(work) \in Response
  BY <1>1, ItemTaken DEF Rest, WorkFits
<1>3. /\ \A x \in Req :
           /\ Reported(work, x) = Reported(work', x)
                + One(Head(work).kind \in {"progress", "final"} /\ Head(work).id = x)
           /\ Decoded(work, x) = Decoded(work', x)
                + One(Head(work).kind \in {"token", "last"} /\ Head(work).id = x)
           /\ Reported(work', x) \in Nat /\ Decoded(work', x) \in Nat
      /\ ToSet(work) = {Head(work)} \cup ToSet(work')
  BY <1>1, ItemTaken
<1>4. \A x \in Req : New(work', x) = 0 /\ New(work, x) = 0
  <2>1. \A q \in Seq(Response) : \A x \in Req : Item("new", x) \notin ToSet(q)
    <3>1. \A q \in Seq(Response) : ToSet(q) \subseteq Response
      BY ToSetSubset
    <3> QED BY <3>1 DEF Response, Item
  <2>2. work \in Seq(Items) /\ work' \in Seq(Items)
    BY <1>2, SeqMonotonic DEF Items
  <2> QED BY <1>2, <2>1, <2>2, ItemsCounted
<1>5. WorkFits'
  BY <1>1, <1>2 DEF WorkFits
<1> QED BY <1>1, <1>2, <1>3, <1>4, <1>5

\* A progress, final or token response moves no request.
LEMMA RespondKeeps ==
  ASSUME TypeOK, Rest, NEW r \in Req, RespondProgress(r) \/ RespondToken(r)
  PROVE  Rest'
<1>1. PICK kinds : /\ kinds \subseteq {"progress", "final", "token"}
                   /\ NextResponse(kinds, r) /\ work' = Tail(work) /\ UNCHANGED phase
  BY DEF RespondProgress, RespondToken
<1>2. UNCHANGED <<active, batchVars>>
  BY DEF RespondProgress, RespondToken
<1>3. /\ Alive /\ Alive' /\ phase = "respond" /\ phase' = "respond"
      /\ \A x \in Req : /\ New(work', x) = 0 /\ New(work, x) = 0
                        /\ Reported(work, x) >= Reported(work', x)
                        /\ Decoded(work, x) >= Decoded(work', x)
                        /\ Reported(work', x) \in Nat /\ Decoded(work', x) \in Nat
                        /\ Reported(work, x) \in Nat /\ Decoded(work, x) \in Nat
      /\ Head(work) \in Response /\ ToSet(work) = {Head(work)} \cup ToSet(work')
      /\ WorkFits'
      /\ UNCHANGED <<client, stopped, requests, pending, ready, restoring,
                     cancelledRestores, restoreJobs, ioJob>>
      /\ Accepted' = Accepted
  <2>1. \A x \in Req : /\ Reported(work, x) = Reported(work', x)
                             + One(Head(work).kind \in {"progress", "final"} /\ r = x)
                       /\ Decoded(work, x) = Decoded(work', x)
                             + One(Head(work).kind \in {"token", "last"} /\ r = x)
                       /\ Reported(work', x) \in Nat /\ Decoded(work', x) \in Nat
    BY <1>1, ResponseTaken
  <2>2. \A x \in Req : /\ Reported(work, x) >= Reported(work', x)
                       /\ Decoded(work, x) >= Decoded(work', x)
                       /\ Reported(work', x) \in Nat /\ Decoded(work', x) \in Nat
                       /\ Reported(work, x) \in Nat /\ Decoded(work, x) \in Nat
    BY <2>1
  <2> QED BY <1>1, <2>2, ResponseTaken
<1>4. (\A x \in Req : x # r => stream'[x] = stream[x]) /\ \A x \in Req : Answered(x)' <=> Answered(x)
  <2>1. CASE UNCHANGED stream
    BY <2>1 DEF Answered
  <2>2. CASE \E m \in {"progress", "final", "token"} : Send(r, <<m>>)
    BY <2>2, SentOne DEF Message, Terminals
  <2>3. Head(work).kind \in kinds
    BY <1>1 DEF NextResponse
  <2>4. UNCHANGED stream \/ \E m \in {"progress", "final", "token"} : Send(r, <<m>>)
    BY <1>1, <2>3 DEF RespondProgress, RespondToken, NextResponse
  <2> QED BY <2>1, <2>2, <2>4
<1>5. Known'
  <2>1. ASSUME NEW x \in Req, x \notin Accepted
        PROVE  stream'[x] = <<>>
    <3>1. x # r
      <4>1. Head(work).id = r /\ Head(work).kind # "cancel"
        BY <1>3, <1>1 DEF NextResponse, Response
      <4> QED BY <1>3, <2>1, <4>1 DEF Rest, Known
    <3> QED BY <1>4, <2>1, <3>1 DEF Rest, Known
  <2> QED BY <1>2, <1>3, <2>1 DEF Rest, Known
<1>6. (Alive => SlotCount <= MaxSeqNums)'
  BY <1>2, <1>3 DEF Rest, SlotCount
<1>7. \A x \in Req : OneRequest(x)'
  <2> TAKE x \in Req
  <2>1. Held(x)' = Held(x)
    BY <1>2, <1>3 DEF Held, ReadyIn
  <2>2. Restores(x)'
    BY <1>3, <1>4 DEF Rest, OneRequest, Restores, Outstanding
  <2>3. LinedUp(x)'
    BY <1>3 DEF Rest, OneRequest, LinedUp
  <2>4. OneRow(x)'
    BY <1>2 DEF Rest, OneRequest, OneRow
  <2>5. Replied(x)'
    <3>1. /\ Reported(work, x) + Decoded(work, x) <= One(x \in active)
          /\ Decoded(work, x) <= In(decoding, x) /\ In(decoding, x) \in Nat
          /\ active' = active /\ decoding' = decoding
      BY <1>2, <1>3, CountTypes DEF Rest, OneRequest, Replied
    <3>2. PICK a \in Nat, b \in Nat, c \in Nat, d \in Nat :
            /\ a = Reported(work, x) /\ b = Decoded(work, x)
            /\ c = Reported(work', x) /\ d = Decoded(work', x) /\ a >= c /\ b >= d
      BY <1>3
    <3>3. c + d <= One(x \in active) /\ d <= In(decoding, x)
      BY <3>1, <3>2
    <3> QED BY <3>1, <3>2, <3>3 DEF Replied
  <2> QED BY <1>3, <1>4, <2>1, <2>2, <2>3, <2>4, <2>5 DEF Rest, OneRequest, Accounted
<1>8. RowCount'
  BY <1>2 DEF Rest, RowCount
<1> QED BY <1>3, <1>5, <1>6, <1>7, <1>8 DEF Rest

\* A finished row is dropped from the decode batch and from active, and its
\* request is answered.
LEMMA RespondLastKeeps ==
  ASSUME TypeOK, Rest, NEW r \in Req, RespondLast(r)
  PROVE  Rest'
<1>1. /\ NextResponse({"last"}, r) /\ work' = Tail(work) /\ UNCHANGED phase
      /\ r \in active /\ active' = active \ {r}
      /\ decoding' = Without(decoding, r) /\ UNCHANGED <<unprocessed, prefilling>>
      /\ Send(r, <<"last", "none">>) /\ Head(work).kind = "last"
  BY DEF RespondLast, ForgetFinished, FinishRow, NextResponse
<1>2. /\ Alive /\ Alive' /\ phase = "respond" /\ phase' = "respond"
      /\ \A x \in Req : /\ New(work', x) = 0 /\ New(work, x) = 0
                        /\ Reported(work, x) = Reported(work', x) + 0
                        /\ Decoded(work, x) = Decoded(work', x) + One(r = x)
                        /\ Reported(work', x) \in Nat /\ Decoded(work', x) \in Nat
      /\ ToSet(work) = {Head(work)} \cup ToSet(work')
      /\ WorkFits'
      /\ UNCHANGED <<client, stopped, requests, pending, ready, restoring,
                     cancelledRestores, restoreJobs, ioJob>>
      /\ Accepted' = Accepted
  BY <1>1, ResponseTaken
<1>3. /\ \A x \in Req : x # r => stream'[x] = stream[x] /\ (Answered(x)' <=> Answered(x))
      /\ Answered(r)'
  <2>1. <<"last", "none">> \in Seq(Message) /\ "none" \in ToSet(<<"last", "none">>)
    <3>1. <<"last", "none">>[2] = "none" /\ 2 \in DOMAIN <<"last", "none">>
      OBVIOUS
    <3> QED BY <3>1 DEF Message, Terminals, ToSet
  <2> QED BY <1>1, <2>1, Sent DEF Terminals
<1>4. r \in ToSet(decoding) /\ decoding \in Seq(Req)
  <2>1. decoding \in Seq(Req)
    BY DEF TypeOK, BatchTypeOK
  <2>2. PICK a \in Nat, b \in Nat : a = Decoded(work, r) /\ b = In(decoding, r) /\ a # 0 /\ a <= b
    <3>1. Decoded(work, r) = Decoded(work', r) + 1 /\ Decoded(work', r) \in Nat
      BY <1>2
    <3>2. Decoded(work, r) <= In(decoding, r) /\ In(decoding, r) \in Nat
      BY <1>2, CountTypes DEF Rest, OneRequest, Replied
    <3> QED BY <3>1, <3>2
  <2> QED BY <2>1, <2>2, InCounts
<1>5. /\ \A x \in Req : In(decoding, x) = In(decoding', x) + One(r = x) /\ In(decoding', x) \in Nat
      /\ Len(decoding) = Len(decoding') + 1 /\ Len(decoding') \in Nat
  BY <1>1, <1>4, InCounts, Numbers, WithoutType, LenProperties
<1>6. PICK n \in Nat : n = Cardinality(active') /\ Cardinality(active) = n + 1
  <2>1. Cardinality(active') = Cardinality(active) - 1 /\ Cardinality(active') \in Nat
        /\ Cardinality(active) \in Nat
    BY <1>1, FS_RemoveElement, FS_CardinalityType DEF TypeOK
  <2> QED BY <2>1
<1>7. Known'
  <2>1. r \in Accepted
    BY <1>1 DEF Rest, Known
  <2> QED BY <1>1, <1>2, <1>3, <2>1 DEF Rest, Known
<1>8. (Alive => SlotCount <= MaxSeqNums)'
  <2>2. SchedulerAssumption /\ Cardinality(restoring) \in Nat /\ Len(ready) \in Nat
    BY SchedulerAssumption, FS_CardinalityType, LenProperties DEF TypeOK
  <2> QED BY <1>2, <1>6, <2>2 DEF Rest, SlotCount, SchedulerAssumption
<1>9. \A x \in Req : OneRequest(x)'
  <2> TAKE x \in Req
  <2>0. One(x \in active) = One(x \in active') + One(r = x) /\ One(x \in active') \in Nat
    BY <1>1
  <2>1. Held(x) = Held(x)' + One(r = x) /\ Held(x)' \in Nat
    <3>1. PICK a \in Nat, b \in Nat, c \in Nat, d \in Nat, i \in Nat :
            /\ a = New(requests, x) /\ b = New(work, x) /\ c = In(pending, x)
            /\ d = ReadyIn(x) /\ i = One(x \in restoring)
      BY <1>2, CountTypes DEF ReadyIn
    <3>2. /\ New(requests', x) = a /\ New(work', x) = b /\ In(pending', x) = c
          /\ ReadyIn(x)' = d /\ One(x \in restoring') = i
      BY <1>2, <3>1 DEF ReadyIn
    <3>3. Held(x) = a + b + c + d + i + One(x \in active)
      BY <3>1 DEF Held
    <3>4. Held(x)' = a + b + c + d + i + One(x \in active')
      BY <3>2 DEF Held
    <3> QED BY <2>0, <3>3, <3>4
  <2>2. Accounted(x)'
    <3>1. Held(r) = 1
      BY <1>1, <1>2, HeldIsOwed
    <3> QED BY <1>2, <1>3, <2>1, <3>1 DEF Rest, OneRequest, Accounted
  <2>3. Restores(x)'
    BY <1>2, <1>3 DEF Rest, OneRequest, Restores, Outstanding
  <2>4. LinedUp(x)'
    BY <1>2 DEF Rest, OneRequest, LinedUp
  <2>5. OneRow(x)'
    <3>1. PICK a \in Nat, b \in Nat : a = In(unprocessed, x) /\ b = In(decoding', x)
                                      /\ In(decoding, x) = b + One(r = x)
      BY <1>5, CountTypes
    <3>2. a + One(prefilling = x) + (b + One(r = x)) = One(x \in active') + One(r = x)
      BY <2>0, <3>1 DEF Rest, OneRequest, OneRow
    <3>3. a + One(prefilling = x) + b = One(x \in active')
      BY <2>0, <3>2
    <3>4. In(unprocessed', x) = a /\ prefilling' = prefilling
      BY <1>1, <3>1
    <3> QED BY <3>1, <3>3, <3>4 DEF OneRow
  <2>6. Replied(x)'
    <3>1. PICK a \in Nat, b \in Nat, c \in Nat :
            /\ a = Reported(work', x) /\ b = Decoded(work', x) /\ c = In(decoding', x)
      BY <1>2, <1>5
    <3>2. Reported(work, x) = a /\ Decoded(work, x) = b + One(r = x) /\ In(decoding, x) = c + One(r = x)
      BY <1>2, <1>5, <3>1
    <3>3. a + (b + One(r = x)) <= One(x \in active') + One(r = x) /\ b + One(r = x) <= c + One(r = x)
      BY <1>2, <2>0, <3>2 DEF Rest, OneRequest, Replied
    <3>4. a + b <= One(x \in active') /\ b <= c
      BY <2>0, <3>3
    <3> QED BY <3>1, <3>4 DEF Replied
  <2> QED BY <2>2, <2>3, <2>4, <2>5, <2>6 DEF OneRequest
<1>10. RowCount'
  <2>1. Len(unprocessed) \in Nat
    BY LenProperties DEF TypeOK, BatchTypeOK
  <2>2. PICK a \in Nat, b \in Nat : a = Len(unprocessed) /\ b = Len(decoding') /\ Len(decoding) = b + 1
    BY <1>5, <2>1
  <2>3. n + 1 = a + (b + 1) + One(prefilling # NoReq)
    BY <1>6, <2>2 DEF Rest, RowCount
  <2>4. Len(unprocessed') = a /\ prefilling' = prefilling
    BY <1>1, <2>2
  <2>5. n = a + b + One(prefilling # NoReq)
    BY <2>3
  <2> QED BY <1>6, <2>2, <2>4, <2>5 DEF RowCount
<1> QED BY <1>2, <1>7, <1>8, <1>9, <1>10 DEF Rest

-----------------------------------------------------------------------------
(* The ways out of the loop.                                               *)

\* A fatal error ends the loop.
LEMMA FatalErrorKeeps ==
  ASSUME TypeOK, Rest, FatalError
  PROVE  Rest'
<1>1. /\ phase' = "failing" /\ ~Alive' /\ phase \in {"drain", "insert", "step", "respond"}
      /\ UNCHANGED <<clientVars, requests, work, stateVars, batchVars, restoreJobs, ioJob>>
      /\ Accepted' = Accepted
  BY DEF FatalError, Alive, Accepted
<1>2. UNCHANGED stream \/ /\ phase = "respond" /\ work # <<>> /\ Head(work).kind = "last"
                          /\ Send(Head(work).id, <<"last">>)
  BY DEF FatalError
<1>3. Known'
  <2>1. CASE UNCHANGED stream
    BY <1>1, <2>1 DEF Rest, Known
  <2>2. CASE /\ phase = "respond" /\ work # <<>> /\ Head(work).kind = "last"
             /\ Send(Head(work).id, <<"last">>)
    <3>1. Head(work) \in ToSet(work)
      <4>1. work \in Seq(Items)
        BY DEF TypeOK, Items
      <4> QED BY <2>2, <4>1, ToSetChanges
    <3>2. PICK r \in Req : r = Head(work).id /\ r \in Accepted
      BY <2>2, <3>1, ItemIds DEF Rest, Known
    <3>3. \A x \in Req : x # r => stream'[x] = stream[x]
      BY <2>2, <3>2, SentOne DEF Message
    <3> QED BY <1>1, <3>2, <3>3 DEF Rest, Known
  <2> QED BY <1>2, <2>1, <2>2
<1>4. WorkFits'
  BY <1>1 DEF WorkFits
<1>5. \A x \in Req : OneRequest(x)'
  BY <1>1 DEF Rest, OneRequest, LinedUp, OneRow, Replied
<1>6. RowCount'
  BY <1>1 DEF Rest, RowCount
<1> QED BY <1>1, <1>3, <1>4, <1>5, <1>6 DEF Rest

\* Everything the thread held is dropped; the queue and the I/O thread's jobs
\* are what is left.
LEMMA ThreadGoneKeeps ==
  ASSUME TypeOK, Rest, ThreadGone, UNCHANGED work, requests' = requests \/ requests' = <<>>,
         \A x \in Req : x \notin Accepted => stream'[x] = <<>>
  PROVE  Rest'
<1>1. /\ phase' = "exited" /\ ~Alive'
      /\ active' = {} /\ pending' = <<>> /\ ready' = <<>> /\ restoring' = {}
      /\ unprocessed' = <<>> /\ prefilling' = NoReq /\ decoding' = <<>>
      /\ UNCHANGED <<client, stopped, restoreJobs, ioJob>>
      /\ Accepted' = Accepted
  BY DEF ThreadGone, Alive, Accepted
<1>2. WorkFits'
  BY <1>1 DEF WorkFits
<1>3. Known'
  <2>1. ToSet(requests') \subseteq ToSet(requests)
    BY EmptyHasNone
  <2> QED BY <1>1, <2>1, EmptyHasNone DEF Rest, Known
<1>4. \A x \in Req : OneRequest(x)'
  <2> TAKE x \in Req
  <2>1. LinedUp(x)'
    <3>1. PICK a \in Nat, b \in Nat, c \in Nat, d \in Nat :
            /\ a = In(restoreJobs, x) /\ b = In(pending, x) /\ c = New(work, x) /\ d = New(requests, x)
      BY CountTypes
    <3>2. a + b + c + d <= 1
      BY <3>1 DEF Rest, OneRequest, LinedUp
    <3>3. In(restoreJobs', x) = a /\ In(pending', x) = 0 /\ New(work', x) = c
          /\ (New(requests', x) = d \/ New(requests', x) = 0)
      BY <1>1, <3>1, NothingCounted
    <3> QED BY <3>2, <3>3 DEF LinedUp
  <2>2. OneRow(x)'
    <3>1. In(unprocessed', x) = 0 /\ In(decoding', x) = 0
      BY <1>1, NothingCounted
    <3>2. prefilling' # x /\ x \notin active'
      BY <1>1, SchedulerAssumption DEF SchedulerAssumption
    <3> QED BY <3>1, <3>2 DEF OneRow
  <2>3. Replied(x)'
    BY <1>1 DEF Replied
  <2> QED BY <1>1, <2>1, <2>2, <2>3 DEF OneRequest
<1>5. RowCount'
  BY <1>1, FS_EmptySet DEF RowCount
<1> QED BY <1>1, <1>2, <1>3, <1>4, <1>5 DEF Rest

\* Shutdown cancels every tracked request.
LEMMA CancelAllKeeps ==
  ASSUME TypeOK, Rest, CancelAll
  PROVE  Rest'
<1>1. Tracked \subseteq Accepted
  BY DEF Tracked, Rest, Known
<1>2. \A x \in Req : x \notin Accepted => stream'[x] = <<>>
  BY <1>1 DEF CancelAll, Rest, Known
<1> QED BY <1>2, ThreadGoneKeeps DEF CancelAll

\* Nothing counts against a request that was never accepted.
LEMMA StrangersGetNoError ==
  ASSUME TypeOK, Known, NEW r \in Req, r \notin Accepted
  PROVE  ErrorCount(r) = 0
<1>1. {i \in DOMAIN requests : requests[i].id = r /\ requests[i].kind # "cancel"} = {}
  BY DEF Known, ToSet
<1>2. {i \in DOMAIN pending : pending[i] = r} = {} /\ {i \in DOMAIN ready : ready[i] = r} = {}
  BY DEF Known, ToSet
<1>3. r \notin active /\ r \notin restoring
  BY DEF Known
<1>4. Cardinality({}) = 0
  BY FS_EmptySet
<1>5. ErrorCount(r) = Cardinality({}) + Cardinality({}) + Cardinality({}) + 0 + 0
  BY <1>1, <1>2, <1>3 DEF ErrorCount
<1> QED BY <1>4, <1>5

\* Failing every request.
LEMMA FailAllKeeps ==
  ASSUME TypeOK, Rest, FailAll
  PROVE  Rest'
<1>1. ASSUME NEW x \in Req, x \notin Accepted
      PROVE  stream'[x] = <<>>
  <2>1. ErrorCount(x) = 0 /\ stream[x] = <<>>
    BY <1>1, StrangersGetNoError DEF Rest, Known
  <2>2. stream'[x] = stream[x] \o [i \in 1..ErrorCount(x) |-> "error"]
    BY DEF FailAll
  <2>3. [i \in 1..0 |-> "error"] = <<>>
    OBVIOUS
  <2> QED BY <2>1, <2>2, <2>3
<1> QED BY <1>1, ThreadGoneKeeps DEF FailAll

-----------------------------------------------------------------------------
(* The I/O thread and shutdown().                                          *)

\* What the I/O thread does is seen on its jobs and on the queue only.
LEMMA JobMoved ==
  ASSUME TypeOK, Rest, IoUnchanged, WorkFits',
         ToSet(restoreJobs') \cup ({ioJob'} \ {NoReq}) \subseteq Accepted,
         \A item \in ToSet(requests') : item \in ToSet(requests) \/ (item.kind # "cancel" /\ item.id \in Accepted),
         \A x \in Req :
           /\ New(requests', x) = New(requests, x)
           /\ In(restoreJobs', x) <= In(restoreJobs, x)
           /\ In(restoreJobs', x) \in Nat
           /\ Alive => In(restoreJobs', x) + One(ioJob' = x) + Results(requests', x)
                         = In(restoreJobs, x) + One(ioJob = x) + Results(requests, x)
           /\ Results(requests', x) \in Nat
  PROVE  Rest'
<1>1. /\ UNCHANGED <<clientVars, stream, phase, work, stateVars, batchVars>>
      /\ Accepted' = Accepted /\ (Alive' <=> Alive)
  BY DEF IoUnchanged, Accepted, Alive
<1>2. Known'
  BY <1>1 DEF Rest, Known
<1>3. (Alive => SlotCount <= MaxSeqNums)'
  BY <1>1 DEF Rest, SlotCount
<1>4. \A x \in Req : OneRequest(x)'
  <2> TAKE x \in Req
  <2>1. Held(x)' = Held(x) /\ (Answered(x)' <=> Answered(x))
    BY <1>1 DEF Held, ReadyIn, Answered
  <2>2. Alive => Restores(x)'
    <3>1. Alive => Outstanding(x)' = Outstanding(x)
      BY <1>1 DEF Outstanding
    <3> QED BY <1>1, <2>1, <3>1 DEF Rest, OneRequest, Restores
  <2>3. LinedUp(x)'
    <3>1. PICK a \in Nat, b \in Nat, c \in Nat, d \in Nat, e \in Nat :
            /\ a = In(restoreJobs, x) /\ b = In(pending, x) /\ c = New(work, x) /\ d = New(requests, x)
            /\ e = In(restoreJobs', x) /\ e <= a
      BY CountTypes
    <3>2. In(pending', x) = b /\ New(work', x) = c /\ New(requests', x) = d
      BY <1>1, <3>1
    <3>3. a + b + c + d <= 1
      BY <3>1 DEF Rest, OneRequest, LinedUp
    <3>4. e + b + c + d <= 1
      BY <3>1, <3>3
    <3> QED BY <3>1, <3>2, <3>4 DEF LinedUp
  <2>4. OneRow(x)' /\ Replied(x)'
    BY <1>1 DEF Rest, OneRequest, OneRow, Replied
  <2> QED BY <1>1, <2>1, <2>2, <2>3, <2>4 DEF Rest, OneRequest, Accounted
<1>5. RowCount'
  BY <1>1 DEF Rest, RowCount
<1> QED BY <1>2, <1>3, <1>4, <1>5 DEF Rest

\* The I/O thread takes the oldest restore job.
LEMMA RestoreTaken ==
  ASSUME TypeOK, Rest, NEW r \in Req, NextRestore(r)
  PROVE  /\ IoUnchanged /\ WorkFits' /\ r \in Accepted /\ ioJob = NoReq
         /\ ToSet(restoreJobs') \subseteq Accepted
         /\ \A x \in Req : In(restoreJobs, x) = In(restoreJobs', x) + One(r = x)
                           /\ In(restoreJobs', x) \in Nat
<1>1. /\ IoUnchanged /\ ioJob = NoReq /\ restoreJobs # <<>> /\ Head(restoreJobs) = r
      /\ restoreJobs' = Tail(restoreJobs) /\ restoreJobs \in Seq(Req)
  BY DEF NextRestore, IoIdle, TypeOK
<1>2. ToSet(restoreJobs) = {r} \cup ToSet(restoreJobs')
  BY <1>1, ToSetChanges
<1>3. \A x \in Req : In(restoreJobs, x) = In(restoreJobs', x) + One(r = x)
  BY <1>1, InCounts
<1>4. \A x \in Req : In(restoreJobs', x) \in Nat
  <2>1. restoreJobs' \in Seq(Req)
    BY <1>1, HeadTailProperties
  <2> QED BY <2>1, Numbers
<1>5. WorkFits'
  BY <1>1 DEF IoUnchanged, Rest, WorkFits
<1> QED BY <1>1, <1>2, <1>3, <1>4, <1>5 DEF Rest, Known

\* A restore job is taken ...
LEMMA IoRestoreKeeps ==
  ASSUME TypeOK, Rest, NEW r \in Req, IoRestore(r)
  PROVE  Rest'
<1>1. /\ IoUnchanged /\ WorkFits' /\ r \in Accepted /\ ioJob = NoReq
      /\ ToSet(restoreJobs') \subseteq Accepted
      /\ \A x \in Req : In(restoreJobs, x) = In(restoreJobs', x) + One(r = x)
                        /\ In(restoreJobs', x) \in Nat
  BY RestoreTaken DEF IoRestore
<1>2. ioJob' = r /\ UNCHANGED requests /\ NoReq \notin Req
  BY SchedulerAssumption DEF IoRestore
<1>3. ASSUME NEW x \in Req
      PROVE  /\ New(requests', x) = New(requests, x)
             /\ In(restoreJobs', x) <= In(restoreJobs, x)
             /\ In(restoreJobs', x) \in Nat
             /\ In(restoreJobs', x) + One(ioJob' = x) + Results(requests', x)
                  = In(restoreJobs, x) + One(ioJob = x) + Results(requests, x)
             /\ Results(requests', x) \in Nat
  <2>1. PICK a \in Nat, c \in Nat : a = In(restoreJobs', x) /\ c = Results(requests, x)
                                    /\ In(restoreJobs, x) = a + One(r = x)
    BY <1>1, CountTypes
  <2>2. One(ioJob = x) = 0 /\ One(ioJob' = x) = One(r = x)
    BY <1>1, <1>2
  <2>3. New(requests', x) = New(requests, x) /\ Results(requests', x) = c
    BY <1>2, <2>1
  <2> QED BY <2>1, <2>2, <2>3
<1> QED BY <1>1, <1>2, <1>3, JobMoved

\* ... fails, and its failure is queued ...
LEMMA IoFailRestoreKeeps ==
  ASSUME TypeOK, Rest, NEW r \in Req, IoFailRestore(r)
  PROVE  Rest'
<1>1. /\ IoUnchanged /\ WorkFits' /\ r \in Accepted /\ ioJob = NoReq
      /\ ToSet(restoreJobs') \subseteq Accepted
      /\ \A x \in Req : In(restoreJobs, x) = In(restoreJobs', x) + One(r = x)
                        /\ In(restoreJobs', x) \in Nat
  BY RestoreTaken DEF IoFailRestore
<1>2. Put(Item("failed", r)) /\ UNCHANGED ioJob
  BY DEF IoFailRestore
<1>3. /\ \A x \in Req : /\ New(requests', x) = New(requests, x) + 0
                        /\ Results(requests', x) = Results(requests, x) + One(r = x)
      /\ ToSet(requests') = ToSet(requests) \cup {Item("failed", r)}
  BY <1>2, ItemPut
<1>4. ASSUME NEW x \in Req
      PROVE  /\ New(requests', x) = New(requests, x)
             /\ In(restoreJobs', x) <= In(restoreJobs, x)
             /\ In(restoreJobs', x) \in Nat
             /\ In(restoreJobs', x) + One(ioJob' = x) + Results(requests', x)
                  = In(restoreJobs, x) + One(ioJob = x) + Results(requests, x)
             /\ Results(requests', x) \in Nat
  <2>1. PICK a \in Nat, c \in Nat, d \in Nat :
          /\ a = In(restoreJobs', x) /\ c = Results(requests, x) /\ d = New(requests, x)
          /\ In(restoreJobs, x) = a + One(r = x)
    BY <1>1, CountTypes
  <2>2. One(ioJob' = x) = One(ioJob = x)
    BY <1>2
  <2>3. New(requests', x) = d /\ Results(requests', x) = c + One(r = x)
    BY <1>3, <2>1
  <2> QED BY <2>1, <2>2, <2>3
<1>5. \A item \in ToSet(requests') :
        item \in ToSet(requests) \/ (item.kind # "cancel" /\ item.id \in Accepted)
  BY <1>1, <1>3 DEF Item
<1> QED BY <1>1, <1>2, <1>4, <1>5, JobMoved

\* ... or succeeds, and the restored arrays are queued.
LEMMA IoDeliverKeeps ==
  ASSUME TypeOK, Rest, IoDeliver
  PROVE  Rest'
<1>1. /\ IoUnchanged /\ ioJob # NoReq /\ ioJob' = NoReq /\ UNCHANGED restoreJobs
  BY DEF IoDeliver
<1>2. PICK r \in Req : r = ioJob /\ r \in Accepted /\ NoReq \notin Req
  BY <1>1, SchedulerAssumption DEF TypeOK, Rest, Known
<1>3. /\ \A x \in Req : /\ New(requests', x) = New(requests, x) + 0
                        /\ Results(requests', x) = Results(requests, x) + One(r = x)
      /\ ToSet(requests') = ToSet(requests) \cup {Item("prepared", r)}
  BY <1>2, ItemPut DEF IoDeliver
<1>4. ASSUME NEW x \in Req
      PROVE  /\ New(requests', x) = New(requests, x)
             /\ In(restoreJobs', x) <= In(restoreJobs, x)
             /\ In(restoreJobs', x) \in Nat
             /\ In(restoreJobs', x) + One(ioJob' = x) + Results(requests', x)
                  = In(restoreJobs, x) + One(ioJob = x) + Results(requests, x)
             /\ Results(requests', x) \in Nat
  <2>1. PICK a \in Nat, c \in Nat, d \in Nat :
          /\ a = In(restoreJobs, x) /\ c = Results(requests, x) /\ d = New(requests, x)
    BY CountTypes
  <2>2. One(ioJob' = x) = 0 /\ One(ioJob = x) = One(r = x) /\ In(restoreJobs', x) = a
    BY <1>1, <1>2, <2>1
  <2>3. New(requests', x) = d /\ Results(requests', x) = c + One(r = x)
    BY <1>3, <2>1
  <2> QED BY <2>1, <2>2, <2>3
<1>5. \A item \in ToSet(requests') :
        item \in ToSet(requests) \/ (item.kind # "cancel" /\ item.id \in Accepted)
  BY <1>2, <1>3 DEF Item
<1>6. WorkFits' /\ ToSet(restoreJobs') \subseteq Accepted
  BY <1>1 DEF IoUnchanged, Rest, WorkFits, Known
<1> QED BY <1>1, <1>4, <1>5, <1>6, JobMoved

\* close() tells the I/O thread to end only after the generation thread did.
LEMMA IoEndKeeps ==
  ASSUME TypeOK, Rest, ShutdownOrder, IoEnd
  PROVE  Rest'
<1>1. /\ IoUnchanged /\ restoreJobs' = <<>> /\ UNCHANGED <<ioJob, requests>> /\ ~Alive
  BY DEF IoEnd, IoPill, ShutdownOrder, Alive
<1>2. WorkFits' /\ ToSet(restoreJobs') \cup ({ioJob'} \ {NoReq}) \subseteq Accepted
  BY <1>1, EmptyHasNone DEF IoUnchanged, Rest, WorkFits, Known
<1>3. \A x \in Req : /\ New(requests', x) = New(requests, x)
                     /\ In(restoreJobs', x) <= In(restoreJobs, x)
                     /\ In(restoreJobs', x) \in Nat
                     /\ Results(requests', x) \in Nat
  <2> TAKE x \in Req
  <2>1. In(restoreJobs, x) \in Nat /\ Results(requests, x) \in Nat /\ In(restoreJobs', x) = 0
    BY <1>1, CountTypes, NothingCounted
  <2> QED BY <1>1, <2>1
<1> QED BY <1>1, <1>2, <1>3, JobMoved

\* Steps that move no request, no item and no job.
LEMMA OtherwiseKeeps ==
  ASSUME TypeOK, Rest, IoCommit \/ RequestShutdown \/ Closer \/ UNCHANGED vars
  PROVE  Rest'
<1>1. UNCHANGED lifeVars /\ Accepted' = Accepted /\ stopped \subseteq stopped' /\ UNCHANGED client
  BY DEF IoCommit, IoUnchanged, RequestShutdown, Closer, CloseIoThread, CloseStore,
         CloserStep, vars, lifeVars, Accepted
<1> QED BY <1>1, SameLife, ItemIds

\* Every step keeps the invariant.
LEMMA RestStep ==
  TypeOK /\ ShutdownOrder /\ Rest /\ [Next]_vars => Rest'
<1> SUFFICES ASSUME TypeOK, ShutdownOrder, Rest, [Next]_vars PROVE Rest'
  OBVIOUS
<1>1. CASE \E r \in Req : \/ CallGenerate(r) \/ PutRequest(r) \/ StopGeneration(r)
                          \/ Leave(r) \/ EndStream(r)
  BY <1>1, CallGenerateKeeps, PutRequestKeeps, AskKeeps, EndStreamKeeps
<1>2. CASE GenerationThread
  <2>1. CASE StartDrain \/ StartInsert \/ EndInsert \/ AdmitPending
    BY <2>1, StartDrainKeeps, StartInsertKeeps, EndInsertKeeps, AdmitPendingKeeps
  <2>2. CASE StepNothing \/ CallNext \/ EndResponses
    BY <2>2, NextPhaseKeeps, CallNextKeeps
  <2>3. CASE CancelAll \/ FatalError \/ FailAll
    BY <2>3, CancelAllKeeps, FatalErrorKeeps, FailAllKeeps
  <2>4. CASE \E r \in Req : HandleNew(r) \/ HandleCancel(r) \/ HandleLateRestore(r)
                            \/ HandleFailedRestore(r) \/ HandlePrepared(r)
    BY <2>4, HandleNewKeeps, HandleCancelKeeps, HandleLateRestoreKeeps,
       HandleFailedRestoreKeeps, HandlePreparedKeeps
  <2>5. CASE \E r \in Req : InsertReady(r) \/ RejectReady(r) \/ RespondProgress(r)
                            \/ RespondToken(r) \/ RespondLast(r)
    BY <2>5, InsertReadyKeeps, RejectReadyKeeps, RespondKeeps, RespondLastKeeps
  <2> QED BY <1>2, <2>1, <2>2, <2>3, <2>4, <2>5 DEF GenerationThread
<1>3. CASE IoThread
  BY <1>3, IoRestoreKeeps, IoFailRestoreKeeps, IoDeliverKeeps, IoEndKeeps, OtherwiseKeeps
     DEF IoThread
<1>4. CASE RequestShutdown \/ Closer \/ UNCHANGED vars
  BY <1>4, OtherwiseKeeps
<1> QED BY <1>1, <1>2, <1>3, <1>4 DEF Next

\* The kit starts with nothing held.
LEMMA RestInit ==
  Init => Rest
<1> SUFFICES ASSUME Init PROVE Rest
  OBVIOUS
<1> USE DEF Init, BatchInit
<1>1. WorkFits
  BY DEF WorkFits
<1>2. Known
  BY EmptyHasNone DEF Known, Accepted
<1>3. SlotCount <= MaxSeqNums
  BY FS_EmptySet, SchedulerAssumption DEF SlotCount, SchedulerAssumption
<1>4. \A x \in Req : OneRequest(x)
  <2> TAKE x \in Req
  <2>1. /\ New(requests, x) = 0 /\ New(work, x) = 0 /\ In(pending, x) = 0 /\ In(ready, x) = 0
        /\ In(restoreJobs, x) = 0 /\ Results(requests, x) = 0 /\ In(unprocessed, x) = 0
        /\ In(decoding, x) = 0 /\ ReadyIn(x) = 0
    BY NothingCounted DEF ReadyIn
  <2>2. x \notin Accepted /\ NoReq # x
    BY SchedulerAssumption DEF Accepted, SchedulerAssumption
  <2>3. Accounted(x)
    BY <2>1, <2>2 DEF Accounted, Held
  <2>4. Restores(x)
    BY <2>1, <2>2 DEF Restores, Outstanding
  <2>5. LinedUp(x) /\ OneRow(x) /\ Replied(x)
    BY <2>1, <2>2 DEF LinedUp, OneRow, Replied
  <2> QED BY <2>3, <2>4, <2>5 DEF OneRequest
<1>5. RowCount
  BY FS_EmptySet DEF RowCount
<1> QED BY <1>1, <1>2, <1>3, <1>4, <1>5 DEF Rest

\* The inductive invariant: every request is in one place from the queue to its
\* answer, with one row while it is active and one restore result on its way while
\* one is owed, through every step of every thread.
THEOREM RequestsStayAccounted == Spec => [](TypeOK /\ ShutdownOrder /\ Rest)
<1>1. Init => TypeOK /\ ShutdownOrder /\ Rest
  <2>1. Init => ShutdownOrder
    BY DEF Init, ShutdownOrder
  <2> QED BY <2>1, TypeInit, RestInit
<1>2. TypeOK /\ ShutdownOrder /\ Rest /\ [Next]_vars => (TypeOK /\ ShutdownOrder /\ Rest)'
  BY TypeStep, ShutdownOrderStep, RestStep
<1> QED BY <1>1, <1>2, PTL DEF Spec

-----------------------------------------------------------------------------
(* What the invariant says in the words of the model's properties.         *)

\* The counts the properties write out are the counts of the invariant.
LEMMA CountsWrittenOut ==
  ASSUME NEW T, NEW q \in Seq(T), NEW r
  PROVE  New(q, r) = NewItems(q, r) /\ In(q, r) = Cardinality({i \in DOMAIN q : q[i] = r})
<1>1. {i \in DOMAIN q : q[i] \in {Item("new", r)}} = {i \in DOMAIN q : q[i] = Item("new", r)}
  OBVIOUS
<1>2. {i \in DOMAIN q : q[i] \in {r}} = {i \in DOMAIN q : q[i] = r}
  OBVIOUS
<1> QED BY <1>1, <1>2 DEF New, In, Hits, NewItems

\* ... and so are those of the restore results.
LEMMA ResultsWrittenOut ==
  ASSUME NEW q \in Seq(Items), NEW r \in Req
  PROVE  Results(q, r) = Cardinality({i \in DOMAIN q :
                           q[i].id = r /\ q[i].kind \in {"prepared", "failed"}})
<1>1. \A i \in DOMAIN q : q[i] \in Items
  BY LenProperties
<1>2. \A item \in Items : item \in {Item("prepared", r), Item("failed", r)}
                            <=> item.id = r /\ item.kind \in {"prepared", "failed"}
  BY DEF Item, Items, QueueItem, Response
<1>3. {i \in DOMAIN q : q[i] \in {Item("prepared", r), Item("failed", r)}}
        = {i \in DOMAIN q : q[i].id = r /\ q[i].kind \in {"prepared", "failed"}}
  BY <1>1, <1>2
<1> QED BY <1>3 DEF Results, Hits

\* The list the insert loop goes through is the part of state.ready left.
LEMMA ReadyCounted ==
  ASSUME TypeOK, Rest
  PROVE  /\ \A r \in Req : ReadyIn(r) = Cardinality({i \in DOMAIN ReadyNow : ReadyNow[i] = r})
         /\ (IF phase = "insert" THEN Len(work) ELSE Len(ready)) = Len(ReadyNow)
<1>1. CASE phase = "insert"
  <2>1. PICK ids \in Seq(Req) : ids = Ids(work) /\ DOMAIN ids = DOMAIN work
                                /\ \A i \in DOMAIN work : work[i].id = ids[i]
    BY IdsType DEF TypeOK, Ids
  <2>2. \A item \in ToSet(work) : item \in QueueItem /\ item.kind = "prepared"
    BY <1>1 DEF Rest, WorkFits
  <2>3. (\A x \in Req : Results(work, x) = In(ids, x)) /\ Len(work) = Len(ids)
    BY <2>1, <2>2, PreparedList DEF TypeOK, Items
  <2>4. \A x \in Req : In(ids, x) = Cardinality({i \in DOMAIN ids : ids[i] = x})
    BY CountsWrittenOut
  <2> QED BY <1>1, <2>1, <2>3, <2>4 DEF ReadyIn, ReadyNow
<1>2. CASE phase # "insert"
  <2>1. ready \in Seq(Req)
    BY DEF TypeOK
  <2>2. \A x \in Req : In(ready, x) = Cardinality({i \in DOMAIN ready : ready[i] = x})
    BY <2>1, CountsWrittenOut
  <2> QED BY <1>2, <2>2 DEF ReadyIn, ReadyNow
<1> QED BY <1>1, <1>2

\* Whatever is queued, restored, cancelled, rejected, finished or failed,
\* and in whatever order the threads get to it: a request that was queued
\* is held in exactly one place until it is answered and in none after,
\* the slots never exceed max_seq_nums, and exactly one restore result is
\* on its way for each request that waits for one.
THEOREM RequestsAreAccounted == Spec => []RequestsAccounted
<1>1. ASSUME TypeOK, Rest
      PROVE  RequestsAccounted
  <2>1. work \in Seq(Items) /\ requests \in Seq(Items)
    BY <1>1, SeqMonotonic DEF TypeOK, Items
  <2>6. pending \in Seq(Req) /\ restoreJobs \in Seq(Req)
    BY <1>1 DEF TypeOK
  <2>2. ASSUME Alive, NEW r \in Req
        PROVE  Places(r) = Held(r)
    <3>1. /\ New(requests, r) = NewItems(requests, r) /\ New(work, r) = NewItems(work, r)
          /\ In(pending, r) = Cardinality({i \in DOMAIN pending : pending[i] = r})
          /\ ReadyIn(r) = Cardinality({i \in DOMAIN ReadyNow : ReadyNow[i] = r})
      <4>1. New(requests, r) = NewItems(requests, r) /\ New(work, r) = NewItems(work, r)
        BY <2>1, CountsWrittenOut
      <4>2. In(pending, r) = Cardinality({i \in DOMAIN pending : pending[i] = r})
        BY <2>6, CountsWrittenOut
      <4> QED BY <1>1, <4>1, <4>2, ReadyCounted
    <3> QED BY <3>1 DEF Places, Held
  <2>3. TrackedUntilAnswered
    <3> SUFFICES ASSUME Alive, NEW r \in Req, client[r] \in {"waiting", "ended"}
                 PROVE  Places(r) = IF Answered(r) THEN 0 ELSE 1
      BY DEF TrackedUntilAnswered
    <3>1. r \in Accepted /\ Accounted(r)
      BY <1>1 DEF Accepted, Rest, OneRequest
    <3> QED BY <2>2, <3>1 DEF Accounted
  <2>4. SlotsBounded
    BY <1>1, ReadyCounted DEF SlotsBounded, Rest, SlotCount
  <2>5. OneRestorePerRequest
    <3> SUFFICES ASSUME Alive, NEW r \in Req
                 PROVE  /\ r \notin restoring \cap cancelledRestores
                        /\ RestoresOutstanding(r) =
                             IF r \in restoring \cup cancelledRestores THEN 1 ELSE 0
      BY DEF OneRestorePerRequest
    <3>1. Restores(r)
      BY <1>1 DEF Rest, OneRequest
    <3>2. RestoresOutstanding(r) = Outstanding(r)
      <4>1. /\ In(restoreJobs, r) = Cardinality({i \in DOMAIN restoreJobs : restoreJobs[i] = r})
            /\ Results(requests, r) = Cardinality({i \in DOMAIN requests :
                 requests[i].id = r /\ requests[i].kind \in {"prepared", "failed"}})
            /\ Results(work, r) = Cardinality({i \in DOMAIN work :
                 work[i].id = r /\ work[i].kind \in {"prepared", "failed"}})
        <5>1. In(restoreJobs, r) = Cardinality({i \in DOMAIN restoreJobs : restoreJobs[i] = r})
          BY <2>6, CountsWrittenOut
        <5> QED BY <2>1, <5>1, ResultsWrittenOut
      <4>2. (IF phase = "drain" THEN Results(work, r) ELSE 0)
              = Cardinality({i \in DOMAIN work :
                  /\ phase = "drain"
                  /\ work[i].id = r /\ work[i].kind \in {"prepared", "failed"}})
        <5>1. CASE phase = "drain"
          <6>1. {i \in DOMAIN work : work[i].id = r /\ work[i].kind \in {"prepared", "failed"}}
                  = {i \in DOMAIN work :
                       /\ phase = "drain"
                       /\ work[i].id = r /\ work[i].kind \in {"prepared", "failed"}}
            BY <5>1
          <6> QED BY <4>1, <5>1, <6>1
        <5>2. CASE phase # "drain"
          <6>1. {i \in DOMAIN work :
                   /\ phase = "drain"
                   /\ work[i].id = r /\ work[i].kind \in {"prepared", "failed"}} = {}
            BY <5>2
          <6> QED BY <5>2, <6>1, FS_EmptySet
        <5> QED BY <5>1, <5>2
      <4> QED BY <4>1, <4>2 DEF RestoresOutstanding, Outstanding
    <3> QED BY <3>1, <3>2 DEF Restores
  <2> QED BY <1>1, <2>3, <2>4, <2>5 DEF RequestsAccounted
<1>2. TypeOK /\ ShutdownOrder /\ Rest => RequestsAccounted
  BY <1>1
<1> QED BY <1>2, RequestsStayAccounted, PTL

\* The invariant as a whole.
LifeHolds == TypeOK /\ ShutdownOrder /\ Rest

\* An answered request is in none of the lists.
LEMMA AnsweredIsGone ==
  LifeHolds =>
    (Alive /\ phase # "insert" =>
       \A r \in Req : Answered(r) =>
         r \notin active \cup ToSet(pending) \cup ToSet(ready) \cup restoring)
BY HeldIsOwed DEF LifeHolds

\* The rows are those of the active requests.
LEMMA RowsAreActive ==
  LifeHolds => Rows = active
<1> SUFFICES ASSUME TypeOK, Rest PROVE Rows = active
  BY DEF LifeHolds
<1>1. /\ unprocessed \in Seq(Req) /\ decoding \in Seq(Req) /\ prefilling \in Req \cup {NoReq}
      /\ NoReq \notin Req /\ active \subseteq Req
  BY SchedulerAssumption DEF TypeOK, BatchTypeOK
<1>2. Rows \subseteq Req
  BY <1>1, ToSetSubset DEF Rows
<1>3. ASSUME NEW x \in Req
      PROVE  x \in Rows <=> x \in active
  <2>1. PICK a \in Nat, b \in Nat : a = In(unprocessed, x) /\ b = In(decoding, x)
    BY <1>1, Numbers
  <2>2. (a = 0 <=> x \notin ToSet(unprocessed)) /\ (b = 0 <=> x \notin ToSet(decoding))
    BY <1>1, <2>1, InCounts
  <2>3. a + One(prefilling = x) + b = One(x \in active)
    BY <2>1 DEF Rest, OneRequest, OneRow
  <2>4. x \in active <=> a # 0 \/ b # 0 \/ prefilling = x
    BY <2>3
  <2> QED BY <1>1, <2>2, <2>4 DEF Rows
<1> QED BY <1>1, <1>2, <1>3

\* The batch generator has one row for each active request and no other:
\* a cancel or a finish always finds its row, and no row decodes for a
\* request nobody waits for, after any inserts, removals and joins.
THEOREM RowsAlwaysMatchActive == Spec => []RowsMatchActive
<1>1. LifeHolds => RowsMatchActive
  <2> SUFFICES ASSUME LifeHolds PROVE RowsMatchActive
    OBVIOUS
  <2>1. Cardinality(active) = Len(unprocessed) + Len(decoding)
                                + (IF prefilling = NoReq THEN 0 ELSE 1)
    BY DEF LifeHolds, Rest, RowCount
  <2> QED BY <2>1, RowsAreActive DEF RowsMatchActive
<1>2. Spec => []LifeHolds
  BY RequestsStayAccounted DEF LifeHolds
<1> QED BY <1>1, <1>2, PTL

-----------------------------------------------------------------------------
(* A cancel takes effect.                                                  *)

\* The same after a step ...
LEMMA AnsweredIsGoneNext ==
  LifeHolds' =>
    (Alive /\ phase # "insert" =>
       \A r \in Req : Answered(r) =>
         r \notin active \cup ToSet(pending) \cup ToSet(ready) \cup restoring)'
BY AnsweredIsGone, PTL

\* ... for the rows too.
LEMMA RowsAreActiveNext ==
  LifeHolds' => (Rows = active)'
BY RowsAreActive, PTL

\* Only the handler of that cancel takes it off the drained queue.
LEMMA OnlyCancelHandles ==
  ASSUME [Next]_vars, NEW r \in Req, phase = "drain", work # <<>>, Head(work) = Item("cancel", r),
         work' # work, phase' = "drain"
  PROVE  HandleCancel(r)
<1>1. ~UNCHANGED vars /\ ~UNCHANGED work
  BY DEF vars
<1>2. GenerationThread
  BY <1>1 DEF Next, CallGenerate, PutRequest, StopGeneration, Leave, EndStream, ClientUnchanged,
              IoThread, IoRestore, IoFailRestore, NextRestore, IoDeliver, IoCommit, IoEnd,
              IoUnchanged, RequestShutdown, Closer, CloseIoThread, CloseStore, CloserStep
<1>3. PICK x \in Req :
        \/ HandleNew(x) \/ HandleCancel(x)
        \/ HandleLateRestore(x) \/ HandleFailedRestore(x) \/ HandlePrepared(x)
  <2>1. ~(StartDrain \/ StartInsert \/ EndInsert \/ AdmitPending \/ StepNothing
          \/ CallNext \/ EndResponses)
    BY DEF StartDrain, StartInsert, EndInsert, AdmitPending, StepNothing, CallNext, EndResponses
  <2>2. ~(CancelAll \/ FatalError \/ FailAll)
    BY DEF CancelAll, FatalError, FailAll
  <2>3. \A x \in Req : ~(InsertReady(x) \/ RejectReady(x))
    BY DEF InsertReady, RejectReady, NextReady
  <2>4. \A x \in Req : ~(RespondProgress(x) \/ RespondToken(x) \/ RespondLast(x))
    BY DEF RespondProgress, RespondToken, RespondLast, NextResponse
  <2> QED BY <1>2, <2>1, <2>2, <2>3, <2>4 DEF GenerationThread
<1>4. PICK kind : /\ NextItem(kind, x)
                  /\ kind = "cancel" => HandleCancel(x)
  BY <1>3 DEF HandleNew, HandleCancel, HandleLateRestore, HandleFailedRestore, HandlePrepared
<1>5. Item(kind, x) = Item("cancel", r)
  BY <1>4 DEF NextItem
<1>6. kind = "cancel" /\ x = r
  BY <1>5 DEF Item
<1> QED BY <1>4, <1>6

\* Once handled, a cancel leaves its request nowhere.
LEMMA CancelStep ==
  ASSUME LifeHolds, LifeHolds', [Next]_vars, NEW r \in Req, phase = "drain", work # <<>>,
         Head(work) = Item("cancel", r), work' # work, phase' = "drain"
  PROVE  r \notin active' \cup ToSet(pending') \cup ToSet(ready') \cup restoring' \cup Rows'
<1>1. HandleCancel(r)
  BY OnlyCancelHandles
<1>2. NextItem("cancel", r) /\ Alive'
  BY <1>1 DEF HandleCancel, Alive
<1>3. Rows' = active'
  BY RowsAreActiveNext
<1>4. CASE CancelUnknown(r)
  BY <1>3, <1>4 DEF CancelUnknown
<1>5. CASE CancelPending(r) \/ CancelReady(r) \/ CancelRestoring(r) \/ CancelActive(r)
  <2>1. Answered(r)'
    <3>1. Send(r, <<"cancelled">>)
      BY <1>5 DEF CancelPending, CancelReady, CancelRestoring, CancelActive
    <3> QED BY <3>1, CancelledSent DEF LifeHolds
  <2>2. r \notin active' \cup ToSet(pending') \cup ToSet(ready') \cup restoring'
    BY <1>2, <2>1, AnsweredIsGoneNext
  <2> QED BY <1>3, <2>2
<1> QED BY <1>1, <1>4, <1>5 DEF HandleCancel, CancelRequest

\* Once a cancel is handled its request is in no list, set or row, wherever
\* it was: queued for a slot, being restored, ready, or decoding.
THEOREM CancelAlwaysTakesEffect == Spec => CancelTakesEffect
<1>1. LifeHolds /\ LifeHolds' /\ [Next]_vars =>
        [\A r \in Req :
           (phase = "drain" /\ work # <<>> /\ Head(work) = Item("cancel", r)
              /\ work' # work /\ phase' = "drain")
           => r \notin active' \cup ToSet(pending') \cup ToSet(ready') \cup restoring'
                         \cup Rows']_vars
  BY CancelStep
<1>2. Spec => []LifeHolds
  BY RequestsStayAccounted DEF LifeHolds
<1> QED BY <1>1, <1>2, PTL DEF Spec, CancelTakesEffect

-----------------------------------------------------------------------------
(* No idle hot cache.                                                      *)

\* The result of x's restore is on its way with the arrays it took.
Coming(x) ==
  \/ ioJob = x
  \/ Item("prepared", x) \in ToSet(requests)
  \/ phase = "drain" /\ Item("prepared", x) \in ToSet(work)

\* x is ready, or about to be inserted.
ReadyId(x) ==
  IF phase = "insert" THEN \E item \in ToSet(work) : item.id = x ELSE x \in ToSet(ready)

\* x is computing or will, without asking the cache again.
Busy(x) == x \in active \/ ReadyId(x) \/ (x \in restoring /\ Coming(x))

\* A hot cache means that no one is, so that none will recompute beside it.
HotQuiet == hot => \A x \in Req : ~Busy(x)

\* HotQuiet is stronger than the property of the model.
LEMMA HotQuietIsEnough ==
  TypeOK /\ HotQuiet => NoIdleHotCache
<1> SUFFICES ASSUME TypeOK, HotQuiet, hot PROVE Recomputing = {}
  BY DEF NoIdleHotCache
<1>1. \A x \in Req : ~Busy(x)
  BY DEF HotQuiet
<1>2. active = {}
  BY <1>1 DEF Busy, TypeOK
<1>3. ToSet(ReadyNow) = {}
  <2>1. CASE phase = "insert"
    <3>1. \A x \in ToSet(Ids(work)) : \E item \in ToSet(work) : item.id = x
      BY DEF Ids, ToSet
    <3>2. ToSet(Ids(work)) \subseteq Req
      BY IdsType, ToSetSubset DEF TypeOK
    <3> QED BY <1>1, <2>1, <3>1, <3>2 DEF ReadyNow, Busy, ReadyId
  <2>2. CASE phase # "insert"
    <3>1. ToSet(ready) \subseteq Req
      BY ToSetSubset DEF TypeOK
    <3> QED BY <1>1, <2>2, <3>1 DEF ReadyNow, Busy, ReadyId
  <2> QED BY <2>1, <2>2
<1>4. ASSUME NEW x \in restoring,
             \/ ioJob = x
             \/ \E i \in DOMAIN requests : requests[i] = Item("prepared", x)
             \/ phase = "drain" /\ \E i \in DOMAIN work : work[i] = Item("prepared", x)
      PROVE  FALSE
  <2>1. x \in Req
    BY DEF TypeOK
  <2>2. Coming(x)
    BY <1>4 DEF Coming, ToSet
  <2> QED BY <1>1, <2>1, <2>2 DEF Busy
<1> QED BY <1>2, <1>3, <1>4 DEF Recomputing

\* Who becomes busy was busy already, or was not restoring.
LEMMA BusyBefore ==
  ASSUME HotQuiet, hot' => hot, \A x \in Req : Busy(x)' => Busy(x)
  PROVE  HotQuiet'
BY DEF HotQuiet

\* Callers make nobody busy.
LEMMA ClientStaysQuiet ==
  ASSUME TypeOK, HotQuiet, NEW r \in Req,
         CallGenerate(r) \/ PutRequest(r) \/ StopGeneration(r) \/ Leave(r) \/ EndStream(r)
  PROVE  HotQuiet'
<1>1. ClientUnchanged
  BY DEF CallGenerate, PutRequest, StopGeneration, Leave, EndStream
<1>2. \A x \in Req : Item("prepared", x) \in ToSet(requests') => Item("prepared", x) \in ToSet(requests)
  <2>1. CASE requests' = requests
    BY <2>1
  <2>2. CASE \E kind \in {"new", "cancel"} : Put(Item(kind, r))
    <3>1. PICK kind \in {"new", "cancel"} : Put(Item(kind, r))
      BY <2>2
    <3>2. ToSet(requests') = ToSet(requests) \cup {Item(kind, r)}
      BY <3>1, ItemPut
    <3> QED BY <3>2 DEF Item
  <2> QED BY <2>1, <2>2 DEF CallGenerate, PutRequest, StopGeneration, Leave, EndStream
<1>3. UNCHANGED <<phase, work, active, ready, restoring, ioJob, hot>>
  BY <1>1 DEF ClientUnchanged
<1>4. \A x \in Req : Busy(x)' => Busy(x)
  BY <1>2, <1>3 DEF Busy, ReadyId, Coming
<1> QED BY <1>3, <1>4, BusyBefore

\* A drain, an admission and a step bring nobody closer to a row.
LEMMA ListsStayQuiet ==
  ASSUME TypeOK, Rest, HotQuiet,
         StartDrain \/ StartInsert \/ EndInsert \/ StepNothing \/ EndResponses \/ CallNext
  PROVE  HotQuiet'
<1>1. UNCHANGED <<active, restoring, ioJob, hot>>
  BY DEF StartDrain, StartInsert, EndInsert, StepNothing, EndResponses, CallNext
<1>2. \A x \in Req : Coming(x)' => Coming(x)
  <2>1. CASE StartDrain
    BY <2>1, EmptyHasNone DEF StartDrain, Coming
  <2>2. CASE StartInsert \/ EndInsert \/ StepNothing \/ EndResponses \/ CallNext
    <3>1. phase' # "drain" /\ UNCHANGED <<requests, ioJob>>
      BY <2>2 DEF StartInsert, EndInsert, StepNothing, EndResponses, CallNext
    <3> QED BY <3>1 DEF Coming
  <2> QED BY <2>1, <2>2
<1>3. \A x \in Req : ReadyId(x)' => ReadyId(x)
  <2>1. CASE StartInsert
    <3>1. work' = [i \in DOMAIN ready |-> Item("prepared", ready[i])] /\ phase = "drain"
      BY <2>1 DEF StartInsert
    <3>2. \A item \in ToSet(work') : item.id \in ToSet(ready)
      BY <3>1 DEF ToSet, Item
    <3> QED BY <2>1, <3>1, <3>2 DEF StartInsert, ReadyId
  <2>2. CASE EndInsert
    <3>1. ready' = Ids(work) /\ phase = "insert" /\ phase' = "admit"
      BY <2>2 DEF EndInsert
    <3>2. \A x \in ToSet(ready') : \E item \in ToSet(work) : item.id = x
      BY <3>1 DEF ToSet, Ids
    <3> QED BY <3>1, <3>2 DEF ReadyId
  <2>3. CASE StartDrain \/ StepNothing \/ EndResponses \/ CallNext
    BY <2>3 DEF StartDrain, StepNothing, EndResponses, CallNext, ReadyId
  <2> QED BY <2>1, <2>2, <2>3
<1>4. \A x \in Req : Busy(x)' => Busy(x)
  BY <1>1, <1>2, <1>3 DEF Busy
<1> QED BY <1>1, <1>4, BusyBefore

\* A request that is admitted now has no restore result under way.
LEMMA AdmitStaysQuiet ==
  ASSUME TypeOK, Rest, HotQuiet, AdmitPending
  PROVE  HotQuiet'
<1>1. /\ phase = "admit" /\ phase' = "step" /\ Alive
      /\ UNCHANGED <<requests, active, ready, ioJob, hot>>
  BY DEF AdmitPending, Alive
<1>2. PICK admitted \in Seq(Req) : restoring' = restoring \cup ToSet(admitted)
                                   /\ pending' \in Seq(Req) /\ pending = admitted \o pending'
  BY Admits
<1>3. ASSUME NEW x \in ToSet(admitted)
      PROVE  x \in Req /\ (Busy(x) \/ ~Coming(x))
  <2>1. x \in Req /\ x \in ToSet(pending)
    BY <1>2, ToSetSubset, ConcatElements
  <2>2. x \notin cancelledRestores
    BY <1>1, <2>1, HeldIsOwed DEF Rest, OneRequest, Restores
  <2>3. CASE x \in restoring
    BY <2>1, <2>3 DEF Busy
  <2>4. CASE x \notin restoring
    <3>1. Outstanding(x) = 0
      BY <1>1, <2>1, <2>2, <2>4 DEF Rest, OneRequest, Restores
    <3>2. PICK a \in Nat, b \in Nat : a = In(restoreJobs, x) /\ b = Results(requests, x)
      BY <2>1, CountTypes
    <3>3. a + One(ioJob = x) + b + 0 = 0
      BY <1>1, <3>1, <3>2 DEF Outstanding
    <3>4. ioJob # x /\ Results(requests, x) = 0
      BY <3>2, <3>3
    <3>5. requests \in Seq(Items)
      BY SeqMonotonic DEF TypeOK, Items
    <3>6. Item("prepared", x) \notin ToSet(requests)
      BY <2>1, <3>4, <3>5, ItemsCounted
    <3> QED BY <1>1, <2>1, <3>4, <3>6 DEF Coming
  <2> QED BY <2>3, <2>4
<1>4. \A x \in Req : Busy(x)' => Busy(x)
  <2>1. \A x \in Req : Coming(x)' => Coming(x)
    BY <1>1 DEF Coming
  <2>2. \A x \in Req : ReadyId(x)' => ReadyId(x)
    BY <1>1 DEF ReadyId
  <2> QED BY <1>1, <1>2, <1>3, <2>1, <2>2 DEF Busy
<1> QED BY <1>1, <1>4, BusyBefore

\* Handling an item of the drained queue brings nobody closer to a row who
\* was not already on the way there.
LEMMA HandledStaysQuiet ==
  ASSUME TypeOK, Rest, HotQuiet, NEW r \in Req,
         \/ HandleNew(r) \/ HandleCancel(r) \/ HandleLateRestore(r)
         \/ HandleFailedRestore(r) \/ HandlePrepared(r)
  PROVE  HotQuiet'
<1>1. PICK kind \in {"new", "cancel", "prepared", "failed"} :
        NextItem(kind, r) /\ (HandlePrepared(r) => kind = "prepared")
  <2>1. CASE HandleLateRestore(r)
    <3>1. PICK kind \in {"prepared", "failed"} : NextItem(kind, r)
      BY <2>1 DEF HandleLateRestore
    <3>2. ~HandlePrepared(r)
      BY <2>1 DEF HandleLateRestore, HandlePrepared
    <3> QED BY <3>1, <3>2
  <2>2. CASE HandleNew(r)
    <3>1. Item("new", r) # Item("prepared", r)
      BY DEF Item
    <3> QED BY <2>2, <3>1 DEF HandleNew, HandlePrepared, NextItem
  <2>3. CASE HandleCancel(r)
    <3>1. Item("cancel", r) # Item("prepared", r)
      BY DEF Item
    <3> QED BY <2>3, <3>1 DEF HandleCancel, HandlePrepared, NextItem
  <2>4. CASE HandleFailedRestore(r)
    <3>1. Item("failed", r) # Item("prepared", r)
      BY DEF Item
    <3> QED BY <2>4, <3>1 DEF HandleFailedRestore, HandlePrepared, NextItem
  <2>5. CASE HandlePrepared(r)
    BY <2>5 DEF HandlePrepared
  <2> QED BY <2>1, <2>2, <2>3, <2>4, <2>5
<1>2. /\ phase = "drain" /\ phase' = "drain" /\ Item(kind, r) \in ToSet(work)
      /\ ToSet(work') \subseteq ToSet(work)
      /\ UNCHANGED <<requests, ioJob, hot>>
  <2>1. /\ phase = "drain" /\ phase' = "drain" /\ Item(kind, r) \in ToSet(work)
        /\ ToSet(work') \subseteq ToSet(work)
    BY <1>1, ItemHandled
  <2> QED BY <1>1, <2>1 DEF NextItem
<1>3. \A x \in Req : Coming(x)' => Coming(x)
  BY <1>2 DEF Coming
<1>4. CASE ~HandlePrepared(r)
  <2>1. active' \subseteq active /\ restoring' \subseteq restoring
    BY <1>4 DEF HandleNew, HandleCancel, CancelRequest, CancelPending, CancelReady,
                CancelRestoring, CancelActive, CancelUnknown, HandleLateRestore,
                HandleFailedRestore
  <2>2. ToSet(ready') \subseteq ToSet(ready)
    <3>1. CASE ready' = ready
      BY <3>1
    <3>2. CASE ready' = Without(ready, r)
      BY <3>2, ToSetChanges DEF TypeOK
    <3>3. ready' = ready \/ ready' = Without(ready, r)
      BY <1>4 DEF HandleNew, HandleCancel, CancelRequest, CancelPending, CancelReady,
                  CancelRestoring, CancelActive, CancelUnknown, HandleLateRestore,
                  HandleFailedRestore
    <3> QED BY <3>1, <3>2, <3>3
  <2>3. \A x \in Req : Busy(x)' => Busy(x)
    BY <1>2, <1>3, <2>1, <2>2 DEF Busy, ReadyId
  <2> QED BY <1>2, <2>3, BusyBefore
<1>5. CASE HandlePrepared(r)
  <2>1. r \in restoring
    <3>1. r \in restoring \cup cancelledRestores
      BY <1>1, <1>5, ResultTaken DEF HandlePrepared
    <3> QED BY <1>5, <3>1 DEF HandlePrepared, RestoreCancelled
  <2>2. Busy(r)
    BY <1>1, <1>2, <1>5, <2>1 DEF Busy, Coming
  <2>3. ToSet(ready') = ToSet(ready) \cup {r}
    BY <1>5, ToSetChanges DEF HandlePrepared, TypeOK
  <2>4. UNCHANGED active /\ restoring' \subseteq restoring
    BY <1>5 DEF HandlePrepared
  <2>5. \A x \in Req : Busy(x)' => Busy(x)
    BY <1>2, <1>3, <2>2, <2>3, <2>4 DEF Busy, ReadyId
  <2> QED BY <1>2, <2>5, BusyBefore
<1> QED BY <1>4, <1>5

\* A request that gets its row was ready before.
LEMMA InsertStaysQuiet ==
  ASSUME TypeOK, Rest, HotQuiet, NEW r \in Req, InsertReady(r) \/ RejectReady(r)
  PROVE  HotQuiet'
<1>1. /\ phase = "insert" /\ phase' = "insert" /\ work # <<>> /\ Head(work).id = r
      /\ work' = Tail(work)
      /\ UNCHANGED <<requests, restoring, ioJob, hot>>
  BY DEF InsertReady, RejectReady, NextReady
<1>2. ToSet(work) = {Head(work)} \cup ToSet(work')
  BY <1>1, ItemTaken
<1>3. ReadyId(r)
  BY <1>1, <1>2 DEF ReadyId
<1>4. active' \subseteq active \cup {r}
  BY DEF InsertReady, RejectReady
<1>5. \A x \in Req : Busy(x)' => Busy(x)
  BY <1>1, <1>2, <1>3, <1>4 DEF Busy, ReadyId, Coming
<1> QED BY <1>1, <1>5, BusyBefore

\* A finish keeps the cache hot only when its request was alone.
LEMMA RespondStaysQuiet ==
  ASSUME TypeOK, Rest, HotQuiet, NEW r \in Req,
         RespondProgress(r) \/ RespondToken(r) \/ RespondLast(r)
  PROVE  HotQuiet'
<1>1. /\ phase = "respond" /\ phase' = "respond"
      /\ UNCHANGED <<requests, ready, restoring, ioJob>>
  BY DEF RespondProgress, RespondToken, RespondLast, NextResponse
<1>2. \A x \in Req : (Coming(x)' <=> Coming(x)) /\ (ReadyId(x)' <=> ReadyId(x))
  BY <1>1 DEF Coming, ReadyId
<1>3. CASE RespondProgress(r) \/ RespondToken(r)
  <2>1. UNCHANGED <<active, hot>>
    BY <1>3 DEF RespondProgress, RespondToken
  <2>2. \A x \in Req : Busy(x)' => Busy(x)
    BY <1>1, <1>2, <2>1 DEF Busy
  <2> QED BY <2>1, <2>2, BusyBefore
<1>4. CASE RespondLast(r)
  <2>1. active' = active \ {r} /\ (hot' => KeepHot(r))
    BY <1>4 DEF RespondLast, ForgetFinished, FinishResponse
  <2>2. ASSUME KeepHot(r), NEW x \in Req
        PROVE  ~Busy(x)'
    <3>1. active' = {} /\ ready' = <<>> /\ restoring' = {} /\ phase' # "insert"
      BY <1>1, <2>1, <2>2 DEF KeepHot
    <3> QED BY <3>1, EmptyHasNone DEF Busy, ReadyId
  <2> QED BY <2>1, <2>2 DEF HotQuiet
<1> QED BY <1>3, <1>4

\* The thread's ways out drop everything it had and the hot cache.
LEMMA EndStaysQuiet ==
  ASSUME TypeOK, HotQuiet, CancelAll \/ FatalError \/ FailAll
  PROVE  HotQuiet'
<1>1. CASE CancelAll \/ FatalError
  <2>1. hot' = FALSE
    BY <1>1 DEF CancelAll, FatalError
  <2> QED BY <2>1 DEF HotQuiet
<1>2. CASE FailAll
  <2>1. active' = {} /\ ready' = <<>> /\ restoring' = {} /\ phase' # "insert"
    BY <1>2 DEF FailAll, ThreadGone
  <2>2. \A x \in Req : ~Busy(x)'
    BY <2>1, EmptyHasNone DEF Busy, ReadyId
  <2> QED BY <2>2 DEF HotQuiet
<1> QED BY <1>1, <1>2

\* A restore takes the hot cache before its result can be on its way.
LEMMA IoStaysQuiet ==
  ASSUME TypeOK, HotQuiet, IoThread
  PROVE  HotQuiet'
<1>1. CASE \E r \in Req : IoRestore(r)
  BY <1>1 DEF IoRestore, TakeHot, HotQuiet
<1>2. UNCHANGED <<phase, work, active, ready, restoring>>
  BY DEF IoThread, IoRestore, IoFailRestore, NextRestore, IoDeliver, IoCommit, IoEnd,
         IoUnchanged
<1>3. ASSUME NEW r \in Req, IoFailRestore(r)
      PROVE  HotQuiet'
  <2>1. ToSet(requests') = ToSet(requests) \cup {Item("failed", r)}
    BY <1>3, ItemPut DEF IoFailRestore
  <2>2. \A x \in Req : Coming(x)' => Coming(x)
    BY <1>2, <1>3, <2>1 DEF Coming, Item, IoFailRestore
  <2>3. \A x \in Req : Busy(x)' => Busy(x)
    BY <1>2, <2>2 DEF Busy, ReadyId
  <2> QED BY <1>3, <2>3, BusyBefore DEF IoFailRestore
<1>4. CASE IoDeliver
  <2>1. PICK r \in Req : r = ioJob
    BY <1>4 DEF IoDeliver, TypeOK
  <2>2. ToSet(requests') = ToSet(requests) \cup {Item("prepared", r)}
    BY <1>4, <2>1, ItemPut DEF IoDeliver
  <2>3. \A x \in Req : Coming(x)' => Coming(x)
    <3> TAKE x \in Req
    <3>1. ioJob' # x
      BY <1>4, SchedulerAssumption DEF IoDeliver
    <3>2. Item("prepared", x) = Item("prepared", r) => x = r
      BY DEF Item
    <3> QED BY <1>2, <2>1, <2>2, <3>1, <3>2 DEF Coming
  <2>4. \A x \in Req : Busy(x)' => Busy(x)
    BY <1>2, <2>3 DEF Busy, ReadyId
  <2> QED BY <1>4, <2>4, BusyBefore DEF IoDeliver
<1>5. CASE IoCommit \/ IoEnd
  <2>1. UNCHANGED <<requests, ioJob, hot>>
    BY <1>5 DEF IoCommit, IoEnd
  <2>2. \A x \in Req : Busy(x)' => Busy(x)
    BY <1>2, <2>1 DEF Busy, ReadyId, Coming
  <2> QED BY <2>1, <2>2, BusyBefore
<1> QED BY <1>1, <1>3, <1>4, <1>5 DEF IoThread

\* Every step keeps it.
LEMMA QuietStep ==
  LifeHolds /\ HotQuiet /\ [Next]_vars => HotQuiet'
<1> SUFFICES ASSUME TypeOK, Rest, HotQuiet, [Next]_vars PROVE HotQuiet'
  BY DEF LifeHolds
<1>1. CASE \E r \in Req : \/ CallGenerate(r) \/ PutRequest(r) \/ StopGeneration(r)
                          \/ Leave(r) \/ EndStream(r)
  BY <1>1, ClientStaysQuiet
<1>2. CASE GenerationThread
  BY <1>2, ListsStayQuiet, AdmitStaysQuiet, EndStaysQuiet, HandledStaysQuiet,
     InsertStaysQuiet, RespondStaysQuiet DEF GenerationThread
<1>3. CASE IoThread
  BY <1>3, IoStaysQuiet
<1>4. CASE RequestShutdown \/ Closer \/ UNCHANGED vars
  <2>1. UNCHANGED <<requests, phase, work, active, ready, restoring, ioJob, hot>>
    BY <1>4 DEF RequestShutdown, Closer, CloseIoThread, CloseStore, CloserStep, vars
  <2>2. \A x \in Req : Busy(x)' => Busy(x)
    BY <2>1 DEF Busy, ReadyId, Coming
  <2> QED BY <2>1, <2>2, BusyBefore
<1> QED BY <1>1, <1>2, <1>3, <1>4 DEF Next

\* The hot prompt cache is never held while a request recomputes: not
\* while one is active or ready, nor while the result of a restore, which
\* took it, is on its way, whichever thread decides and whichever takes.
THEOREM HotCacheIsNeverIdle == Spec => []NoIdleHotCache
<1>1. Init => HotQuiet
  BY DEF Init, HotQuiet
<1>2. LifeHolds => (HotQuiet => NoIdleHotCache)
  BY HotQuietIsEnough DEF LifeHolds
<1>3. Spec => []LifeHolds
  BY RequestsStayAccounted DEF LifeHolds
<1> QED BY <1>1, <1>2, <1>3, QuietStep, PTL DEF Spec

-----------------------------------------------------------------------------
(* Response queues are in order, with no more tokens than asked for.       *)

\* b may come anywhere after a on one response queue.
Follows(a, b, failed) ==
  \/ Rank(a) < Rank(b)
  \/ a = b /\ a \in {"progress", "token"}
  \/ failed /\ b = "error"

\* Every message of s may come after all those before it.
Ordered(s, failed) ==
  \A i \in DOMAIN s : \A j \in (i+1)..Len(s) : Follows(s[i], s[j], failed)

\* What is said of r's response queue.
Streaming(r) == Ordered(stream[r], backendFailed) /\ Streams(r) /\ Emits(r)

\* The strengthened invariant of the response queues.
AllStreaming == \A r \in Req : Streaming(r)

\* The rank of each message.
LEMMA RankTable ==
  /\ Rank("begin") = 1 /\ Rank("progress") = 2 /\ Rank("final") = 3
  /\ Rank("token") = 4 /\ Rank("last") = 5
  /\ \A m \in Terminals : Rank(m) = 6
BY DEF Rank, Terminals

\* One more message keeps the order if it may follow each one before it.
LEMMA OrderedMore ==
  ASSUME NEW s \in Seq(Message), NEW m \in Message, NEW failed \in BOOLEAN,
         Ordered(s, failed), \A a \in ToSet(s) : Follows(a, m, failed)
  PROVE  Ordered(s \o <<m>>, failed)
<1>0. <<m>> \in Seq(Message)
  OBVIOUS
<1>1. PICK t \in Seq(Message) : t = s \o <<m>>
  BY <1>0, ConcatProperties
<1>2. PICK n \in Nat :
        /\ n = Len(s) /\ DOMAIN s = 1..n /\ Len(t) = n + 1 /\ DOMAIN t = 1..(n+1)
        /\ \A i \in 1..n : t[i] = s[i]
        /\ t[n+1] = m
  <2>1. <<m>> \in Seq(Message) /\ Len(<<m>>) = 1 /\ <<m>>[1] = m
    OBVIOUS
  <2>2. PICK n \in Nat : n = Len(s) /\ DOMAIN s = 1..n
    BY LenProperties
  <2>3. Len(t) = n + 1 /\ DOMAIN t = 1..(n+1)
        /\ \A i \in 1..(n+1) : t[i] = IF i <= n THEN s[i] ELSE <<m>>[i - n]
    BY <1>1, <2>1, <2>2, ConcatProperties, LenProperties
  <2>4. ~(n + 1 <= n) /\ (n + 1) - n = 1 /\ n + 1 \in 1..(n+1)
    BY <2>2
  <2> QED BY <2>1, <2>2, <2>3, <2>4
<1>3. ASSUME NEW i \in 1..(n+1), NEW j \in (i+1)..(n+1)
      PROVE  Follows(t[i], t[j], failed)
  <2>1. i \in 1..n
    BY <1>2
  <2>2. CASE j = n + 1
    BY <1>2, <2>1, <2>2 DEF ToSet
  <2>3. CASE j # n + 1
    <3>1. j \in (i+1)..n /\ j \in 1..n
      BY <1>2, <2>1, <2>3
    <3> QED BY <1>2, <2>1, <3>1 DEF Ordered
  <2> QED BY <2>2, <2>3
<1> QED BY <1>1, <1>2, <1>3 DEF Ordered

\* The errors of a fatal failure may follow anything.
LEMMA OrderedErrors ==
  ASSUME NEW s \in Seq(Message), NEW n \in Nat, NEW failed \in BOOLEAN, Ordered(s, failed)
  PROVE  /\ Ordered(s \o [i \in 1..n |-> "error"], TRUE)
         /\ Hits(s \o [i \in 1..n |-> "error"], {"token", "last"}) = Hits(s, {"token", "last"})
<1>1. PICK e \in Seq(Message) : e = [i \in 1..n |-> "error"] /\ Len(e) = n /\ DOMAIN e = 1..n
                                /\ \A i \in 1..n : e[i] = "error"
  <2>1. [i \in 1..n |-> "error"] \in [1..n -> Message]
    BY DEF Message, Terminals
  <2>2. [i \in 1..n |-> "error"] \in Seq(Message)
    BY <2>1, FunctionIsSeq
  <2>3. PICK e \in Seq(Message) : e = [i \in 1..n |-> "error"]
    BY <2>2
  <2>4. DOMAIN e = 1..n /\ \A i \in 1..n : e[i] = "error"
    BY <2>3
  <2>5. Len(e) = n
    BY <2>4, LenProperties
  <2> QED BY <2>3, <2>4, <2>5
<1>2. PICK t \in Seq(Message) : t = s \o e
  BY ConcatProperties
<1>3. PICK k \in Nat :
        /\ k = Len(s) /\ DOMAIN s = 1..k /\ Len(t) = k + n /\ DOMAIN t = 1..(k+n)
        /\ \A i \in 1..(k+n) : t[i] = IF i <= k THEN s[i] ELSE e[i - k]
  BY <1>1, <1>2, ConcatProperties, LenProperties
<1>4. ASSUME NEW i \in 1..(k+n), NEW j \in (i+1)..(k+n)
      PROVE  Follows(t[i], t[j], TRUE)
  <2>1. CASE j <= k
    <3>1. i \in 1..k /\ j \in (i+1)..k /\ j \in 1..k
      BY <1>3, <2>1
    <3>2. t[i] = s[i] /\ t[j] = s[j]
      BY <1>3, <3>1
    <3>3. Follows(s[i], s[j], failed)
      BY <1>3, <3>1 DEF Ordered
    <3> QED BY <3>2, <3>3 DEF Follows
  <2>2. CASE ~(j <= k)
    <3>1. j - k \in 1..n /\ j \in 1..(k+n)
      BY <1>3, <2>2
    <3> QED BY <1>1, <1>3, <2>2, <3>1 DEF Follows
  <2> QED BY <2>1, <2>2
<1>5. Hits(t, {"token", "last"}) = Hits(s, {"token", "last"})
  <2>1. Hits(t, {"token", "last"}) = Hits(s, {"token", "last"}) + Hits(e, {"token", "last"})
    BY <1>2, HitsConcat
  <2>2. Hits(e, {"token", "last"}) = 0
    <3>1. \A x \in ToSet(e) : x \notin {"token", "last"}
      BY <1>1 DEF ToSet
    <3> QED BY <3>1, HitsNone
  <2>3. Hits(s, {"token", "last"}) \in Nat
    BY HitsType
  <2> QED BY <2>1, <2>2, <2>3
<1> QED BY <1>1, <1>2, <1>3, <1>4, <1>5 DEF Ordered

\* What one message more does to the count of tokens.
LEMMA MessageCounted ==
  ASSUME NEW s \in Seq(Message), NEW m \in Message
  PROVE  /\ Hits(s \o <<m>>, {"token", "last"})
              = Hits(s, {"token", "last"}) + One(m \in {"token", "last"})
         /\ Hits(s, {"token", "last"}) \in Nat
<1> DEFINE h == <<m>>
<1>1. h \in Seq(Message) /\ \A S : Hits(h, S) = One(m \in S)
  BY HitsOfOne
<1> HIDE DEF h
<1>2. Hits(s \o h, {"token", "last"}) = Hits(s, {"token", "last"}) + Hits(h, {"token", "last"})
  BY <1>1, HitsConcat
<1>3. Hits(s, {"token", "last"}) \in Nat
  BY HitsType
<1> QED BY <1>1, <1>2, <1>3 DEF h

\* Nothing of a stream comes after a terminal message when it is not answered.
LEMMA Unanswered ==
  ASSUME TypeOK, NEW r \in Req, ~Answered(r)
  PROVE  \A a \in ToSet(stream[r]) : a \in Message \ Terminals /\ Rank(a) < 6
<1>1. ToSet(stream[r]) \subseteq Message
  BY ToSetSubset DEF TypeOK
<1>2. \A a \in ToSet(stream[r]) : a \notin Terminals
  BY DEF Answered
<1> QED BY <1>1, <1>2, RankTable DEF Message

\* Everything a row decodes for is active, once.
LEMMA DecodingOnce ==
  ASSUME TypeOK, Rest, NEW x \in Req
  PROVE  x \in ToSet(decoding) => x \in active /\ In(decoding, x) = 1
<1>1. PICK a \in Nat, b \in Nat : a = In(unprocessed, x) /\ b = In(decoding, x)
  BY CountTypes
<1>2. a + One(prefilling = x) + b = One(x \in active)
  BY <1>1 DEF Rest, OneRequest, OneRow
<1>3. x \in ToSet(decoding) => b # 0
  BY <1>1, InCounts DEF TypeOK, BatchTypeOK
<1>4. b # 0 => x \in active /\ b = 1
  BY <1>2
<1> QED BY <1>1, <1>3, <1>4

\* Steps of the clients, the I/O thread and the closer touch no stream.
LEMMA SameStreams ==
  ASSUME AllStreaming,
         UNCHANGED <<stream, active, phase, work, decoding, steps, backendFailed>>
  PROVE  AllStreaming'
BY DEF AllStreaming, Streaming, Streams, Emits, Emitted, Answered, Alive, Reported, Decoded

\* Steps of the running generation thread that send nothing and call nothing.
LEMMA QuietStreams ==
  ASSUME AllStreaming, UNCHANGED <<stream, active, decoding, steps, backendFailed>>,
         Alive, Alive', phase' # "respond", phase = "respond" => work = <<>>
  PROVE  AllStreaming'
<1> SUFFICES ASSUME NEW r \in Req PROVE Streaming(r)'
  BY DEF AllStreaming
<1>1. Streaming(r)
  BY DEF AllStreaming
<1>2. Ordered(stream[r], backendFailed)'
  BY <1>1 DEF Streaming
<1>3. Streams(r)'
  BY <1>1 DEF Streaming, Streams, Answered, Alive
<1>4. Emits(r)'
  <2>1. ToSet(<<>>) = {} /\ Decoded(<<>>, r) = 0
    BY EmptyHasNone, NothingCounted
  <2> QED BY <1>1, <2>1 DEF Streaming, Emits, Emitted, Alive
<1> QED BY <1>2, <1>3, <1>4 DEF Streaming

\* A request that is cancelled or refused has its last message.
LEMMA EndedStreams ==
  ASSUME TypeOK, AllStreaming, NEW r \in Req, NEW m \in {"cancelled", "error"},
         Send(r, <<m>>), ~Answered(r), Alive, Alive', phase # "respond", phase' # "respond",
         active' = active \ {r}, steps' = steps, backendFailed' = backendFailed,
         ToSet(decoding') \subseteq ToSet(decoding),
         \A x \in ToSet(decoding) : x # r => x \in ToSet(decoding')
  PROVE  AllStreaming'
<1> SUFFICES ASSUME NEW x \in Req PROVE Streaming(x)'
  BY DEF AllStreaming
<1>1. Streaming(x) /\ Streaming(r)
  BY DEF AllStreaming
<1>2. /\ \A y \in Req : y # r => stream'[y] = stream[y] /\ (Answered(y)' <=> Answered(y))
      /\ stream'[r] = stream[r] \o <<m>>
      /\ ToSet(stream'[r]) = ToSet(stream[r]) \cup {m}
      /\ Answered(r)'
      /\ m \in Message /\ m \in Terminals
  BY SentOne DEF Message, Terminals
<1>3. Ordered(stream[x], backendFailed)'
  <2>1. CASE x # r
    BY <1>1, <1>2, <2>1 DEF Streaming
  <2>2. CASE x = r
    <3>1. stream[r] \in Seq(Message) /\ backendFailed \in BOOLEAN
      BY DEF TypeOK
    <3>2. \A a \in ToSet(stream[r]) : Follows(a, m, backendFailed)
      BY <1>2, Unanswered, RankTable DEF Follows
    <3>3. Ordered(stream[r] \o <<m>>, backendFailed)
      BY <1>1, <1>2, <3>1, <3>2, OrderedMore DEF Streaming
    <3> QED BY <1>2, <2>2, <3>3
  <2> QED BY <2>1, <2>2
<1>4. Streams(x)'
  <2>1. CASE x # r
    BY <1>1, <1>2, <2>1 DEF Streaming, Streams, Alive
  <2>2. CASE x = r
    BY <1>2, <2>2 DEF Streams
  <2> QED BY <2>1, <2>2
<1>5. Emits(x)'
  <2>1. Emitted(x)' = Emitted(x)
    <3>1. CASE x # r
      BY <1>2, <3>1 DEF Emitted
    <3>2. CASE x = r
      <4>1. Hits(stream[r] \o <<m>>, {"token", "last"}) = Hits(stream[r], {"token", "last"})
        BY <1>2, MessageCounted DEF TypeOK
      <4> QED BY <1>2, <3>2, <4>1 DEF Emitted
    <3> QED BY <3>1, <3>2
  <2> QED BY <1>1, <2>1 DEF Streaming, Emits, Alive
<1> QED BY <1>3, <1>4, <1>5 DEF Streaming

\* Taking one request out of a list of rows keeps the others.
LEMMA WithoutOne ==
  ASSUME NEW q \in Seq(Req), NEW r \in Req
  PROVE  /\ ToSet(Without(q, r)) \subseteq ToSet(q)
         /\ \A x \in ToSet(q) : x # r => x \in ToSet(Without(q, r))
<1>1. ToSet(Without(q, r)) \subseteq ToSet(q)
  BY ToSetChanges
<1>2. ASSUME NEW x \in ToSet(q), x # r
      PROVE  x \in ToSet(Without(q, r))
  <2>1. CASE r \notin ToSet(q)
    BY <2>1 DEF Without
  <2>2. CASE r \in ToSet(q)
    <3>1. x \in Req /\ In(q, x) # 0
      BY <1>2, InCounts, ToSetSubset
    <3>2. PICK w \in Seq(Req) : w = Without(q, r)
      BY WithoutType
    <3>3. In(q, x) = In(w, x) + 0 /\ In(w, x) \in Nat
      BY <1>2, <2>2, <3>1, <3>2, InCounts, Numbers
    <3>4. In(w, x) # 0
      BY <3>1, <3>3
    <3> QED BY <3>1, <3>2, <3>4, InCounts
  <2> QED BY <2>1, <2>2
<1> QED BY <1>1, <1>2

\* A request waiting for its row is not answered and has none.
LEMMA HeldOnce ==
  ASSUME TypeOK, Rest, Alive, phase # "insert", NEW r \in Req,
         r \in ToSet(pending) \cup ToSet(ready) \cup restoring
  PROVE  ~Answered(r) /\ r \notin active
<1>1. Held(r) = 1 /\ ~Answered(r)
  BY HeldIsOwed
<1>2. PICK a \in Nat, b \in Nat, c \in Nat, d \in Nat :
        a = New(requests, r) /\ b = New(work, r) /\ c = In(pending, r) /\ d = In(ready, r)
  BY CountTypes
<1>3. a + b + c + d + One(r \in restoring) + One(r \in active) = 1
  BY <1>1, <1>2 DEF Held, ReadyIn
<1>4. (r \in ToSet(pending) => c # 0) /\ (r \in ToSet(ready) => d # 0)
  BY <1>2, InCounts DEF TypeOK
<1>5. c # 0 \/ d # 0 \/ r \in restoring => r \notin active
  BY <1>3
<1> QED BY <1>1, <1>4, <1>5

\* The handlers of the drain send nothing or one terminal message.
LEMMA HandledStreams ==
  ASSUME TypeOK, Rest, AllStreaming, NEW r \in Req,
         \/ HandleNew(r) \/ HandleCancel(r) \/ HandleLateRestore(r)
         \/ HandleFailedRestore(r) \/ HandlePrepared(r)
  PROVE  AllStreaming'
<1>1. /\ phase = "drain" /\ phase' = "drain" /\ Alive /\ Alive'
      /\ UNCHANGED <<steps, backendFailed>>
  BY DEF HandleNew, HandleCancel, CancelRequest, CancelPending, CancelReady, CancelRestoring,
         CancelActive, CancelUnknown, RemoveRow, HandleLateRestore, HandleFailedRestore,
         HandlePrepared, NextItem, Alive
<1>2. CASE HandleNew(r) \/ HandleLateRestore(r) \/ HandlePrepared(r)
  <2>1. UNCHANGED <<stream, active, decoding>>
    BY <1>2 DEF HandleNew, HandleLateRestore, HandlePrepared
  <2> QED BY <1>1, <2>1, QuietStreams
<1>3. CASE HandleFailedRestore(r)
  <2>1. r \in restoring
    <3>1. r \in restoring \cup cancelledRestores
      BY <1>3, ResultTaken DEF HandleFailedRestore
    <3> QED BY <1>3, <3>1 DEF HandleFailedRestore, RestoreCancelled
  <2>2. ~Answered(r) /\ r \notin active
    BY <1>1, <2>1, HeldOnce
  <2>3. UNCHANGED <<active, decoding>> /\ Send(r, <<"error">>)
    BY <1>3 DEF HandleFailedRestore
  <2>4. active' = active \ {r}
    BY <2>2, <2>3
  <2> QED BY <1>1, <2>2, <2>3, <2>4, EndedStreams
<1>4. CASE HandleCancel(r)
  <2>1. CASE CancelUnknown(r)
    <3>1. UNCHANGED <<stream, active, decoding>>
      BY <2>1 DEF CancelUnknown
    <3> QED BY <1>1, <3>1, QuietStreams
  <2>2. CASE CancelPending(r) \/ CancelReady(r) \/ CancelRestoring(r)
    <3>1. UNCHANGED <<active, decoding>> /\ Send(r, <<"cancelled">>)
      BY <2>2 DEF CancelPending, CancelReady, CancelRestoring
    <3>2. ~Answered(r) /\ r \notin active
      BY <1>1, <2>2, HeldOnce DEF CancelPending, CancelReady, CancelRestoring
    <3>3. active' = active \ {r}
      BY <3>1, <3>2
    <3> QED BY <1>1, <3>1, <3>2, <3>3, EndedStreams
  <2>3. CASE CancelActive(r)
    <3>1. /\ r \in active /\ active' = active \ {r} /\ Send(r, <<"cancelled">>)
          /\ decoding' \in {decoding, Without(decoding, r)}
      BY <2>3 DEF CancelActive, RemoveRow
    <3>2. ~Answered(r)
      BY <1>1, <3>1, HeldIsOwed
    <3>3. /\ ToSet(decoding') \subseteq ToSet(decoding)
          /\ \A x \in ToSet(decoding) : x # r => x \in ToSet(decoding')
      BY <3>1, WithoutOne DEF TypeOK, BatchTypeOK
    <3> QED BY <1>1, <3>1, <3>2, <3>3, EndedStreams
  <2> QED BY <1>4, <2>1, <2>2, <2>3 DEF HandleCancel, CancelRequest
<1> QED BY <1>2, <1>3, <1>4

\* A request that gets its row begins its stream.
LEMMA InsertStreams ==
  ASSUME TypeOK, Rest, AllStreaming, NEW r \in Req, InsertReady(r)
  PROVE  AllStreaming'
<1> SUFFICES ASSUME NEW x \in Req PROVE Streaming(x)'
  BY DEF AllStreaming
<1>0. NextReady(r) /\ Send(r, <<"begin">>) /\ InsertRow(r) /\ active' = active \cup {r}
  BY DEF InsertReady
<1>1. /\ phase = "insert" /\ phase' = "insert" /\ Alive /\ Alive'
      /\ UNCHANGED <<decoding, backendFailed>>
      /\ r \notin active /\ ~Answered(r) /\ r \notin ToSet(decoding)
  <2>1. phase = "insert" /\ phase' = "insert" /\ Alive /\ Alive' /\ r \notin active /\ ~Answered(r)
    BY <1>0, ReadyTaken
  <2>2. UNCHANGED <<decoding, backendFailed>>
    BY <1>0 DEF NextReady, InsertRow
  <2> QED BY <2>1, <2>2, DecodingOnce
<1>2. Streaming(x) /\ Streaming(r)
  BY DEF AllStreaming
<1>3. stream[r] = <<>>
  BY <1>1, <1>2 DEF Streaming, Streams
<1>4. /\ \A y \in Req : y # r => stream'[y] = stream[y] /\ (Answered(y)' <=> Answered(y))
      /\ stream'[r] = stream[r] \o <<"begin">>
      /\ ToSet(stream'[r]) = ToSet(stream[r]) \cup {"begin"}
  BY <1>0, SentOne DEF Message
<1>5. \A y \in Req : y # r => steps'[y] = steps[y]
  BY <1>0 DEF InsertRow, TypeOK, BatchTypeOK
<1>6. CASE x # r
  <2>1. Ordered(stream[x], backendFailed)'
    BY <1>1, <1>2, <1>4, <1>6 DEF Streaming
  <2>2. Streams(x)'
    BY <1>0, <1>1, <1>2, <1>4, <1>6 DEF Streaming, Streams
  <2>3. Emits(x)'
    BY <1>1, <1>2, <1>4, <1>5, <1>6 DEF Streaming, Emits, Emitted
  <2> QED BY <2>1, <2>2, <2>3 DEF Streaming
<1>7. CASE x = r
  <2>1. Ordered(stream[x], backendFailed)'
    <3>1. stream[r] \in Seq(Message) /\ backendFailed \in BOOLEAN /\ "begin" \in Message
      BY DEF TypeOK, Message
    <3>2. \A a \in ToSet(stream[r]) : Follows(a, "begin", backendFailed)
      BY <1>3, EmptyHasNone
    <3>3. Ordered(stream[r] \o <<"begin">>, backendFailed)
      BY <1>2, <3>1, <3>2, OrderedMore DEF Streaming
    <3> QED BY <1>1, <1>4, <1>7, <3>3
  <2>2. Streams(x)'
    <3>1. ToSet(stream'[r]) = {"begin"}
      BY <1>3, <1>4, EmptyHasNone
    <3> QED BY <1>0, <1>1, <1>7, <3>1 DEF Streams, Prefill
  <2>3. Emits(x)'
    <3>1. Emitted(r)' = Emitted(r)
      <4>1. Hits(stream[r] \o <<"begin">>, {"token", "last"}) = Hits(stream[r], {"token", "last"})
        <5>1. stream[r] \in Seq(Message) /\ "begin" \in Message
          BY DEF TypeOK, Message
        <5> QED BY <5>1, MessageCounted
      <4> QED BY <1>4, <4>1 DEF Emitted
    <3> QED BY <1>1, <1>2, <1>7, <3>1 DEF Streaming, Emits
  <2> QED BY <2>1, <2>2, <2>3 DEF Streaming
<1> QED BY <1>6, <1>7

\* A refused request gets an error and no row.
LEMMA RejectStreams ==
  ASSUME TypeOK, Rest, AllStreaming, NEW r \in Req, RejectReady(r)
  PROVE  AllStreaming'
<1>0. NextReady(r) /\ Send(r, <<"error">>) /\ UNCHANGED <<active, batchVars>>
  BY DEF RejectReady
<1>1. phase = "insert" /\ phase' = "insert" /\ Alive /\ Alive' /\ r \notin active /\ ~Answered(r)
  BY <1>0, ReadyTaken
<1>2. backendFailed' = backendFailed /\ active' = active \ {r}
  BY <1>0, <1>1 DEF NextReady
<1> QED BY <1>0, <1>1, <1>2, EndedStreams

\* Only prompt messages means nothing emitted yet.
LEMMA PromptEmitsNothing ==
  ASSUME TypeOK, NEW r \in Req, ToSet(stream[r]) \subseteq Prefill
  PROVE  Emitted(r) = 0
<1>1. \A m \in ToSet(stream[r]) : m \notin {"token", "last"}
  BY DEF Prefill
<1> QED BY <1>1, HitsNone DEF Emitted, TypeOK

\* A call of next() counts one token for every row that decodes, and has the
\* last one of each row that reached its limit among its responses.
LEMMA CallStreams ==
  ASSUME TypeOK, Rest, AllStreaming, CallNext
  PROVE  AllStreaming'
<1> SUFFICES ASSUME NEW x \in Req PROVE Streaming(x)'
  BY DEF AllStreaming
<1>1. /\ phase = "step" /\ phase' = "respond" /\ Alive /\ Alive'
      /\ UNCHANGED <<stream, active, backendFailed>>
  BY DEF CallNext, Alive
<1>2. Streaming(x)
  BY DEF AllStreaming
<1>3. PICK done \in SUBSET ToSet(decoding), p \in Req \cup {NoReq}, kind \in {"progress", "final"} :
        Called(done, p, kind)
  BY NextCalled
<1>4. Decoded(work', x) = In(decoding, x) /\ Reported(work', x) = One(p = x)
  BY <1>3, CallCounts
<1>5. Ordered(stream[x], backendFailed)'
  BY <1>1, <1>2 DEF Streaming
<1>6. /\ ToSet(decoding) \subseteq ToSet(decoding')
      /\ ToSet(decoding') \subseteq ToSet(decoding) \cup {p}
  <2>1. CASE decoding' = decoding
    BY <2>1
  <2>2. CASE p \in Req /\ decoding' = Append(decoding, p)
    BY SMTT(30), <2>2, ToSetChanges DEF TypeOK, BatchTypeOK
  <2> QED BY <1>3, <2>1, <2>2 DEF Called
<1>7. x = p => x \in active /\ x \notin ToSet(decoding)
  BY <1>3, SchedulerAssumption DEF Called
<1>8. Streams(x)'
  <2>1. Answered(x)' <=> Answered(x)
    BY <1>1 DEF Answered
  <2>2. (Reported(work, x) > 0)' => x = p
    BY <1>4
  <2>3. x = p => ToSet(stream[x]) \subseteq Prefill
    BY <1>1, <1>2, <1>7 DEF Streaming, Streams
  <2> QED BY <1>1, <1>2, <1>6, <2>1, <2>2, <2>3 DEF Streaming, Streams
<1>9. Emits(x)'
  <2>1. Emitted(x)' = Emitted(x) /\ Emitted(x) <= MaxTokens /\ Emitted(x) \in Nat
    BY <1>1, <1>2, HitsType DEF Emitted, Streaming, Emits, TypeOK
  <2>2. CASE x \in ToSet(decoding)
    <3>1. Emitted(x) + 0 = steps[x] /\ steps[x] <= MaxTokens /\ steps[x] # MaxTokens /\ steps[x] \in Nat
      BY <1>1, <1>2, <2>1, <2>2 DEF Streaming, Emits
    <3>2. steps'[x] = steps[x] + 1
      <4>1. x # p
        BY <1>7, <2>2
      <4>2. CountTokens[x] = steps[x] + 1 /\ CountTokens \in [Req -> Nat]
        BY SMTT(30), <2>2 DEF CountTokens, TypeOK, BatchTypeOK
      <4> QED BY <1>3, <4>1, <4>2 DEF Called
    <3>3. Decoded(work', x) = 1
      BY <1>4, <2>2, DecodingOnce
    <3>4. steps'[x] = MaxTokens => Item("last", x) \in ToSet(work')
      <4>1. ASSUME steps'[x] = MaxTokens
            PROVE  x \in done
        <5>1. x \in AtTokenLimit
          BY <2>2, <3>2, <3>1, <4>1, SchedulerAssumption DEF AtTokenLimit
        <5> QED BY <1>3, <5>1 DEF Called
      <4>2. ASSUME x \in done
            PROVE  Item("last", x) \in ToSet(work')
        <5>1. Item("last", x) \in ToSet(DecodeResponses(done))
          BY <2>2, <4>2, DecodeCounts
        <5>2. CASE p = NoReq
          BY <1>3, <5>1, <5>2 DEF Called
        <5>3. CASE p # NoReq
          <6>1. PICK row \in Req : row = p
            BY <5>3
          <6>2. DecodeResponses(done) \in Seq(Response)
            BY DecodeCounts
          <6>3. ToSet(<<Item(kind, row)>> \o DecodeResponses(done))
                  = {Item(kind, row)} \cup ToSet(DecodeResponses(done))
            BY <6>2, ReportCounts
          <6> QED BY <1>3, <5>1, <5>3, <6>1, <6>3 DEF Called
        <5> QED BY <5>2, <5>3
      <4> QED BY <4>1, <4>2
    <3>5. steps'[x] <= MaxTokens
      BY <3>1, <3>2, SchedulerAssumption DEF SchedulerAssumption
    <3> QED BY <1>1, <2>1, <3>1, <3>2, <3>3, <3>4, <3>5 DEF Emits
  <2>3. CASE x \notin ToSet(decoding) /\ x \in ToSet(decoding')
    <3>1. x = p /\ p # NoReq
      BY <1>6, <2>3, SchedulerAssumption
    <3>2. decoding' # decoding
      BY <2>3
    <3>3. steps' = [CountTokens EXCEPT ![p] = 0]
      BY <1>3, <3>1, <3>2 DEF Called
    <3>4. steps'[x] = 0
      BY <3>1, <3>3 DEF CountTokens
    <3>5. Emitted(x) = 0
      BY <1>1, <1>2, <1>7, <3>1, PromptEmitsNothing DEF Streaming, Streams
    <3>6. Decoded(work', x) = 0
      BY <1>3, <1>4, <3>1 DEF Called
    <3> QED BY <1>1, <2>1, <3>4, <3>5, <3>6, SchedulerAssumption DEF Emits
  <2>4. CASE x \notin ToSet(decoding')
    BY <2>1, <2>4 DEF Emits
  <2> QED BY <1>6, <2>2, <2>3, <2>4
<1> QED BY <1>5, <1>8, <1>9 DEF Streaming

\* Who a response is about, and how many of its kind are left.
LEMMA ResponseAbout ==
  ASSUME TypeOK, Rest, phase = "respond", work # <<>>, NEW r \in Req, Head(work).id = r,
         work' = Tail(work)
  PROVE  /\ Head(work) \in Response
         /\ ToSet(work) = {Head(work)} \cup ToSet(work')
         /\ \A x \in Req : /\ Reported(work, x) = Reported(work', x)
                                + One(Head(work).kind \in {"progress", "final"} /\ r = x)
                           /\ Decoded(work, x) = Decoded(work', x)
                                + One(Head(work).kind \in {"token", "last"} /\ r = x)
                           /\ Reported(work', x) \in Nat /\ Decoded(work', x) \in Nat
         /\ r \in active
         /\ Head(work).kind \in {"token", "last"} =>
              r \in ToSet(decoding) /\ Reported(work', r) = 0
<1>1. Head(work) \in Response
  BY ItemTaken DEF Rest, WorkFits
<1>2. ToSet(work) = {Head(work)} \cup ToSet(work')
  BY ItemTaken
<1>3. \A x \in Req : /\ Reported(work, x) = Reported(work', x)
                           + One(Head(work).kind \in {"progress", "final"} /\ r = x)
                     /\ Decoded(work, x) = Decoded(work', x)
                           + One(Head(work).kind \in {"token", "last"} /\ r = x)
                     /\ Reported(work', x) \in Nat /\ Decoded(work', x) \in Nat
  BY ItemTaken
<1>4. /\ Reported(work, r) + Decoded(work, r) <= One(r \in active)
      /\ Decoded(work, r) <= In(decoding, r)
  BY DEF Rest, OneRequest, Replied
<1>5. PICK a \in Nat, b \in Nat, c \in Nat, d \in Nat, n \in Nat :
        /\ a = Reported(work, r) /\ b = Decoded(work, r) /\ c = Reported(work', r)
        /\ d = Decoded(work', r) /\ n = In(decoding, r)
  BY <1>3, CountTypes
<1>6. /\ a + b <= One(r \in active) /\ b <= n
      /\ a = c + One(Head(work).kind \in {"progress", "final"})
      /\ b = d + One(Head(work).kind \in {"token", "last"})
  BY <1>3, <1>4, <1>5
<1>7. Head(work).kind \in {"progress", "final", "token", "last"}
  BY <1>1 DEF Response
<1>8. r \in active
  BY <1>6, <1>7
<1>9. Head(work).kind \in {"token", "last"} => n # 0 /\ c = 0
  BY <1>6
<1>10. n # 0 => r \in ToSet(decoding)
  BY <1>5, InCounts DEF TypeOK, BatchTypeOK
<1> QED BY <1>1, <1>2, <1>3, <1>5, <1>8, <1>9, <1>10

\* A progress or token response adds one message to the stream of its row.
LEMMA RespondStreams ==
  ASSUME TypeOK, Rest, AllStreaming, NEW r \in Req, RespondProgress(r) \/ RespondToken(r)
  PROVE  AllStreaming'
<1> SUFFICES ASSUME NEW x \in Req PROVE Streaming(x)'
  BY DEF AllStreaming
<1>1. /\ phase = "respond" /\ phase' = "respond" /\ Alive /\ Alive'
      /\ work # <<>> /\ Head(work).id = r /\ work' = Tail(work)
      /\ UNCHANGED <<active, decoding, steps, backendFailed>>
  BY DEF RespondProgress, RespondToken, NextResponse, Alive
<1>2. Streaming(x) /\ Streaming(r)
  BY DEF AllStreaming
<1>3. /\ Head(work) \in Response
      /\ ToSet(work) = {Head(work)} \cup ToSet(work')
      /\ \A y \in Req : /\ Reported(work, y) = Reported(work', y)
                             + One(Head(work).kind \in {"progress", "final"} /\ r = y)
                        /\ Decoded(work, y) = Decoded(work', y)
                             + One(Head(work).kind \in {"token", "last"} /\ r = y)
                        /\ Reported(work', y) \in Nat /\ Decoded(work', y) \in Nat
      /\ r \in active
      /\ Head(work).kind \in {"token", "last"} =>
           r \in ToSet(decoding) /\ Reported(work', r) = 0
  BY <1>1, ResponseAbout
<1>4. PICK m \in {"progress", "final", "token"} :
        /\ m = Head(work).kind
        /\ \/ m # "token" /\ (Send(r, <<m>>) \/ UNCHANGED stream)
           \/ m = "token" /\ Send(r, <<m>>)
        /\ m # "token" /\ ~UNCHANGED stream => "final" \notin ToSet(stream[r])
  BY <1>3 DEF RespondProgress, RespondToken, NextResponse, ProgressFinished
<1>5. m # "token" => ToSet(stream[r]) \subseteq Prefill
  <2>1. m # "token" => Reported(work, r) = Reported(work', r) + 1
    BY <1>3, <1>4
  <2>2. m # "token" => Reported(work, r) > 0
    BY <1>3, <2>1
  <2> QED BY <1>1, <1>2, <2>2 DEF Streaming, Streams
<1>6. ToSet(stream[r]) \subseteq Prefill \cup {"token"}
  BY <1>1, <1>2, <1>3 DEF Streaming, Streams
<1>7. Item("last", x) \in ToSet(work) => Item("last", x) \in ToSet(work')
  BY <1>3, <1>4 DEF Item
<1>8. CASE UNCHANGED stream
  <2>1. m # "token"
    <3>1. ~Send(r, <<m>>)
      <4>1. Send(r, <<m>>) => ToSet(stream'[r]) = ToSet(stream[r]) \cup {m} /\ stream'[r] = stream[r] \o <<m>>
        BY SentOne DEF Message
      <4>2. stream[r] # stream[r] \o <<m>>
        <5>1. stream[r] \in Seq(Message) /\ m \in Message
          BY DEF TypeOK, Message
        <5>2. Len(stream[r] \o <<m>>) = Len(stream[r]) + 1 /\ Len(stream[r]) \in Nat
          BY <5>1, ConcatProperties, LenProperties
        <5> QED BY <5>2
      <4> QED BY <1>8, <4>1, <4>2
    <3> QED BY <1>4, <3>1
  <2>2. Decoded(work', x) = Decoded(work, x)
    <3>1. Decoded(work, x) = Decoded(work', x) + 0 /\ Decoded(work', x) \in Nat
      BY <1>3, <1>4, <2>1
    <3> QED BY <3>1
  <2>3. Reported(work', x) > 0 => Reported(work, x) > 0
    BY <1>3
  <2>4. Ordered(stream[x], backendFailed)'
    BY <1>1, <1>2, <1>8 DEF Streaming
  <2>5. Streams(x)'
    BY <1>1, <1>2, <1>8, <2>3 DEF Streaming, Streams, Answered
  <2>6. Emits(x)'
    BY <1>1, <1>2, <1>7, <1>8, <2>2 DEF Streaming, Emits, Emitted
  <2> QED BY <2>4, <2>5, <2>6 DEF Streaming
<1>9. CASE Send(r, <<m>>) /\ (m # "token" => "final" \notin ToSet(stream[r]))
  <2>1. /\ \A y \in Req : y # r => stream'[y] = stream[y] /\ (Answered(y)' <=> Answered(y))
        /\ stream'[r] = stream[r] \o <<m>>
        /\ ToSet(stream'[r]) = ToSet(stream[r]) \cup {m}
        /\ Answered(r)' <=> Answered(r)
        /\ m \in Message
    BY <1>9, SentOne DEF Message, Terminals
  <2>2. CASE x # r
    <3>1. Decoded(work', x) = Decoded(work, x)
      <4>1. Decoded(work, x) = Decoded(work', x) + 0 /\ Decoded(work', x) \in Nat
        BY <1>3, <2>2
      <4> QED BY <4>1
    <3>2. Reported(work', x) > 0 => Reported(work, x) > 0
      BY <1>3
    <3>3. Ordered(stream[x], backendFailed)'
      BY <1>1, <1>2, <2>1, <2>2 DEF Streaming
    <3>4. Streams(x)'
      BY <1>1, <1>2, <2>1, <2>2, <3>2 DEF Streaming, Streams
    <3>5. Emits(x)'
      BY <1>1, <1>2, <1>7, <2>1, <2>2, <3>1 DEF Streaming, Emits, Emitted
    <3> QED BY <3>3, <3>4, <3>5 DEF Streaming
  <2>3. CASE x = r
    <3>1. Ordered(stream[x], backendFailed)'
      <4>1. stream[r] \in Seq(Message) /\ backendFailed \in BOOLEAN
        BY DEF TypeOK
      <4>2. \A a \in ToSet(stream[r]) : Follows(a, m, backendFailed)
        <5>1. CASE m = "token"
          BY <1>6, <5>1, RankTable DEF Follows, Prefill
        <5>2. CASE m # "token"
          BY <1>5, <1>9, <5>2, RankTable DEF Follows, Prefill
        <5> QED BY <5>1, <5>2
      <4>3. Ordered(stream[r] \o <<m>>, backendFailed)
        BY <1>2, <2>1, <4>1, <4>2, OrderedMore DEF Streaming
      <4> QED BY <1>1, <2>1, <2>3, <4>3
    <3>2. Streams(x)'
      <4>1. ToSet(stream'[r]) \subseteq Prefill \cup {"token"}
        BY <1>6, <2>1 DEF Prefill
      <4>2. m # "token" => ToSet(stream'[r]) \subseteq Prefill
        BY <1>5, <2>1 DEF Prefill
      <4>3. m = "token" => r \in ToSet(decoding) /\ Reported(work', r) = 0
        BY <1>3, <1>4
      <4> QED BY <1>1, <1>3, <2>3, <4>1, <4>2, <4>3 DEF Streams
    <3>3. Emits(x)'
      <4>1. Emitted(r)' = Emitted(r) + One(m = "token") /\ Emitted(r) \in Nat
        <5>1. stream[r] \in Seq(Message)
          BY DEF TypeOK
        <5>2. /\ Hits(stream[r] \o <<m>>, {"token", "last"})
                   = Hits(stream[r], {"token", "last"}) + One(m \in {"token", "last"})
              /\ Hits(stream[r], {"token", "last"}) \in Nat
          BY <2>1, <5>1, MessageCounted
        <5> QED BY <2>1, <5>2 DEF Emitted
      <4>2. Decoded(work, r) = Decoded(work', r) + One(m = "token") /\ Decoded(work', r) \in Nat
        BY <1>3, <1>4
      <4>3. r \in ToSet(decoding) =>
              Emitted(r) + Decoded(work, r) = steps[r] /\ steps[r] <= MaxTokens /\ steps[r] \in Nat
        BY <1>1, <1>2 DEF Streaming, Emits, TypeOK, BatchTypeOK
      <4>4. r \in ToSet(decoding) => Emitted(r)' + Decoded(work', r) = steps[r]
        BY <4>1, <4>2, <4>3
      <4>5. Emitted(r)' <= MaxTokens
        <5>1. CASE m = "token"
          <6>1. r \in ToSet(decoding)
            BY <1>3, <1>4, <5>1
          <6> QED BY <4>1, <4>2, <4>3, <4>4, <6>1, SchedulerAssumption DEF SchedulerAssumption
        <5>2. CASE m # "token"
          <6>1. Emitted(r)' = Emitted(r)
            BY <4>1, <5>2
          <6> QED BY <1>2, <6>1 DEF Streaming, Emits
        <5> QED BY <5>1, <5>2
      <4> QED BY <1>1, <1>2, <1>7, <2>3, <4>4, <4>5 DEF Streaming, Emits
    <3> QED BY <3>1, <3>2, <3>3 DEF Streaming
  <2> QED BY <2>2, <2>3
<1> QED BY <1>4, <1>8, <1>9

\* Two messages put on at once are two put on one after the other.
LEMMA TwoMore ==
  ASSUME NEW s \in Seq(Message), NEW a \in Message, NEW b \in Message
  PROVE  s \o <<a, b>> = (s \o <<a>>) \o <<b>>
<1>1. <<a, b>> \in Seq(Message) /\ <<a>> \in Seq(Message) /\ <<b>> \in Seq(Message)
  OBVIOUS
<1>2. PICK u \in Seq(Message), v \in Seq(Message), w \in Seq(Message) :
        u = s \o <<a, b>> /\ v = s \o <<a>> /\ w = v \o <<b>>
  BY <1>1, ConcatProperties
<1>3. PICK n \in Nat : n = Len(s)
  BY LenProperties
<1>4. Len(u) = n + 2 /\ \A i \in 1..(n+2) : u[i] = IF i <= n THEN s[i] ELSE <<a, b>>[i - n]
  <2>1. Len(<<a, b>>) = 2
    OBVIOUS
  <2> QED BY <1>1, <1>2, <1>3, <2>1, ConcatProperties
<1>5. Len(v) = n + 1 /\ \A i \in 1..(n+1) : v[i] = IF i <= n THEN s[i] ELSE <<a>>[i - n]
  <2>1. Len(<<a>>) = 1
    OBVIOUS
  <2> QED BY <1>1, <1>2, <1>3, <2>1, ConcatProperties
<1>6. Len(w) = n + 2 /\ \A i \in 1..(n+2) : w[i] = IF i <= n + 1 THEN v[i] ELSE <<b>>[i - (n + 1)]
  <2>1. Len(<<b>>) = 1 /\ (n + 1) + 1 = n + 2
    OBVIOUS
  <2> QED BY <1>1, <1>2, <1>5, <2>1, ConcatProperties
<1>7. ASSUME NEW i \in 1..(n+2)
      PROVE  u[i] = w[i]
  <2>1. CASE i <= n
    <3>1. i \in 1..(n+1) /\ i <= n + 1
      BY <2>1
    <3> QED BY <1>4, <1>5, <1>6, <2>1, <3>1
  <2>2. CASE i = n + 1
    <3>1. ~(i <= n) /\ i - n = 1 /\ i \in 1..(n+1) /\ i <= n + 1
      BY <2>2
    <3>2. u[i] = <<a, b>>[1] /\ v[i] = <<a>>[1] /\ w[i] = v[i]
      BY <1>4, <1>5, <1>6, <3>1
    <3> QED BY <3>2
  <2>3. CASE i = n + 2
    <3>1. ~(i <= n) /\ i - n = 2 /\ ~(i <= n + 1) /\ i - (n + 1) = 1
      BY <2>3
    <3>2. u[i] = <<a, b>>[2] /\ w[i] = <<b>>[1]
      BY <1>4, <1>6, <3>1
    <3> QED BY <3>2
  <2> QED BY <2>1, <2>2, <2>3
<1> QED BY <1>2, <1>4, <1>6, <1>7, SeqEqual

\* The final token of a row, and the end of its stream.
LEMMA LastStreams ==
  ASSUME TypeOK, Rest, AllStreaming, NEW r \in Req, RespondLast(r)
  PROVE  AllStreaming'
<1> SUFFICES ASSUME NEW x \in Req PROVE Streaming(x)'
  BY DEF AllStreaming
<1>1. /\ phase = "respond" /\ phase' = "respond" /\ Alive /\ Alive'
      /\ work # <<>> /\ Head(work).id = r /\ work' = Tail(work) /\ Head(work).kind = "last"
      /\ active' = active \ {r} /\ decoding' = Without(decoding, r)
      /\ Send(r, <<"last", "none">>)
      /\ UNCHANGED <<steps, backendFailed>>
  BY DEF RespondLast, NextResponse, Alive, FinishRow, ForgetFinished
<1>2. Streaming(x) /\ Streaming(r)
  BY DEF AllStreaming
<1>3. /\ ToSet(work) = {Head(work)} \cup ToSet(work')
      /\ \A y \in Req : /\ Reported(work, y) = Reported(work', y) + 0
                        /\ Decoded(work, y) = Decoded(work', y) + One(r = y)
                        /\ Reported(work', y) \in Nat /\ Decoded(work', y) \in Nat
      /\ r \in active /\ r \in ToSet(decoding) /\ Reported(work', r) = 0
  BY <1>1, ResponseAbout
<1>4. /\ \A y \in Req : y # r => stream'[y] = stream[y] /\ (Answered(y)' <=> Answered(y))
      /\ stream'[r] = stream[r] \o <<"last", "none">>
      /\ Answered(r)'
  <2>1. <<"last", "none">> \in Seq(Message) /\ ToSet(<<"last", "none">>) = {"last", "none"}
    BY DEF Message, Terminals, ToSet
  <2> QED BY <1>1, <2>1, Sent DEF Terminals
<1>5. CASE x # r
  <2>1. Decoded(work', x) = Decoded(work, x) /\ Reported(work', x) = Reported(work, x)
    <3>1. Decoded(work, x) = Decoded(work', x) + 0 /\ Decoded(work', x) \in Nat
          /\ Reported(work, x) = Reported(work', x) + 0 /\ Reported(work', x) \in Nat
      BY <1>3, <1>5
    <3> QED BY <3>1
  <2>2. x \in ToSet(decoding') <=> x \in ToSet(decoding)
    BY <1>1, <1>5, WithoutOne DEF TypeOK, BatchTypeOK
  <2>3. Item("last", x) \in ToSet(work) => Item("last", x) \in ToSet(work')
    <3>1. Head(work) # Item("last", x)
      BY <1>1, <1>5 DEF Item
    <3> QED BY <1>3, <3>1
  <2>4. Ordered(stream[x], backendFailed)'
    BY <1>1, <1>2, <1>4, <1>5 DEF Streaming
  <2>5. Streams(x)'
    BY <1>1, <1>2, <1>4, <1>5, <2>1, <2>2 DEF Streaming, Streams
  <2>6. Emits(x)'
    BY <1>1, <1>2, <1>4, <1>5, <2>1, <2>2, <2>3 DEF Streaming, Emits, Emitted
  <2> QED BY <2>4, <2>5, <2>6 DEF Streaming
<1>6. CASE x = r
  <2> DEFINE h == <<"last">>
             t == <<"none">>
  <2>1. /\ h \in Seq(Message) /\ t \in Seq(Message) /\ stream[r] \in Seq(Message)
        /\ "last" \in Message /\ "none" \in Message
        /\ ToSet(h) = {"last"}
    <3>1. "last" \in Message /\ "none" \in Message
      BY DEF Message, Terminals
    <3>2. h \in Seq(Message) /\ t \in Seq(Message)
      BY <3>1
    <3>4. ToSet(h) = {"last"}
      BY DEF ToSet
    <3>5. stream[r] \in Seq(Message)
      BY DEF TypeOK
    <3> QED BY <3>1, <3>2, <3>4, <3>5
  <2>2. stream'[r] = (stream[r] \o h) \o t
    <3>1. stream[r] \o <<"last", "none">> = (stream[r] \o <<"last">>) \o <<"none">>
      BY <2>1, TwoMore
    <3> QED BY <1>4, <3>1
  <2>3. stream[r] \o h \in Seq(Message) /\ ToSet(stream[r] \o h) = ToSet(stream[r]) \cup {"last"}
    <3> HIDE DEF h
    <3> QED BY <2>1, ConcatElements, ConcatProperties
  <2>4. ToSet(stream[r]) \subseteq Prefill \cup {"token"}
    BY <1>1, <1>2, <1>3 DEF Streaming, Streams
  <2>5. Ordered(stream[x], backendFailed)'
    <3>1. backendFailed \in BOOLEAN
      BY DEF TypeOK
    <3>2. \A a \in ToSet(stream[r]) : Follows(a, "last", backendFailed)
      BY <2>4, RankTable DEF Follows, Prefill
    <3>3. Ordered(stream[r] \o h, backendFailed)
      BY <1>2, <2>1, <3>1, <3>2, OrderedMore DEF Streaming
    <3>4. \A a \in ToSet(stream[r] \o h) : Follows(a, "none", backendFailed)
      BY <2>3, <2>4, RankTable DEF Follows, Prefill, Terminals
    <3>5. Ordered((stream[r] \o h) \o t, backendFailed)
      <4>1. PICK s \in Seq(Message) : s = stream[r] \o h
        BY <2>3
      <4>2. Ordered(s \o <<"none">>, backendFailed)
        BY <2>1, <3>1, <3>3, <3>4, <4>1, OrderedMore
      <4> QED BY <4>1, <4>2
    <3> QED BY <1>1, <1>6, <2>2, <3>5
  <2>6. Streams(x)'
    BY <1>1, <1>3, <1>4, <1>6 DEF Streams
  <2>7. Emits(x)'
    <3>1. Emitted(r)' = Emitted(r) + 1 /\ Emitted(r) \in Nat
      <4>1. PICK s \in Seq(Message) : s = stream[r] \o h
        BY <2>3
      <4>2. /\ Hits(stream[r] \o <<"last">>, {"token", "last"}) = Hits(stream[r], {"token", "last"}) + 1
            /\ Hits(stream[r], {"token", "last"}) \in Nat
        BY <2>1, MessageCounted
      <4>3. Hits(s \o <<"none">>, {"token", "last"}) = Hits(s, {"token", "last"}) + 0
            /\ Hits(s, {"token", "last"}) \in Nat
        BY <2>1, MessageCounted
      <4> QED BY <2>2, <4>1, <4>2, <4>3 DEF Emitted
    <3>2. Emitted(r) + Decoded(work, r) = steps[r] /\ steps[r] <= MaxTokens /\ steps[r] \in Nat
      BY <1>1, <1>2, <1>3 DEF Streaming, Emits, TypeOK, BatchTypeOK
    <3>3. Decoded(work, r) = Decoded(work', r) + 1 /\ Decoded(work', r) \in Nat
      BY <1>3
    <3>4. Emitted(r)' <= MaxTokens
      BY <3>1, <3>2, <3>3, SchedulerAssumption DEF SchedulerAssumption
    <3>5. r \notin ToSet(decoding')
      <4>1. decoding \in Seq(Req) /\ decoding' \in Seq(Req)
        BY <1>1, WithoutType DEF TypeOK, BatchTypeOK
      <4>2. In(decoding, r) = 1
        BY <1>3, DecodingOnce
      <4>3. In(decoding, r) = In(decoding', r) + 1 /\ In(decoding', r) \in Nat
        BY <1>1, <1>3, <4>1, InCounts, Numbers
      <4>4. In(decoding', r) = 0
        BY <4>2, <4>3
      <4> QED BY <4>1, <4>4, InCounts
    <3> QED BY <1>6, <3>4, <3>5 DEF Emits
  <2> QED BY <2>5, <2>6, <2>7 DEF Streaming
<1> QED BY <1>5, <1>6

\* Once the thread is not running, a stream has nothing to promise but its
\* order and its number of tokens.
LEMMA GoneStreams ==
  ASSUME NEW x \in Req, phase' = "exited", active' = {},
         Ordered(stream[x], backendFailed)', (Emitted(x) <= MaxTokens)'
  PROVE  Streaming(x)'
BY DEF Streaming, Streams, Emits, Alive

\* A fatal error while a "last" response is answered leaves its token out.
LEMMA FatalStreams ==
  ASSUME TypeOK, Rest, AllStreaming, FatalError
  PROVE  AllStreaming'
<1> SUFFICES ASSUME NEW x \in Req PROVE Streaming(x)'
  BY DEF AllStreaming
<1>1. /\ phase \in {"drain", "insert", "step", "respond"} /\ phase' = "failing" /\ Alive /\ ~Alive'
      /\ UNCHANGED <<work, active, decoding, steps, backendFailed>>
  BY DEF FatalError, Alive
<1>2. Streaming(x)
  BY DEF AllStreaming
<1>3. CASE UNCHANGED stream
  <2>1. Ordered(stream[x], backendFailed)'
    BY <1>1, <1>2, <1>3 DEF Streaming
  <2>2. Streams(x)'
    BY <1>1, <1>2, <1>3 DEF Streaming, Streams, Answered
  <2>3. Emits(x)'
    BY <1>1, <1>2, <1>3 DEF Streaming, Emits, Emitted
  <2> QED BY <2>1, <2>2, <2>3 DEF Streaming
<1>4. CASE phase = "respond" /\ work # <<>> /\ Head(work).kind = "last" /\ Send(Head(work).id, <<"last">>)
  <2>1. PICK r \in Req : r = Head(work).id /\ Item("last", r) \in ToSet(work)
    <3>1. Head(work) \in Response /\ Head(work) \in ToSet(work)
      BY <1>4, HeadTailProperties, ToSetChanges DEF Rest, WorkFits
    <3> QED BY <1>4, <3>1 DEF Response, Item
  <2>2. Streaming(r)
    BY DEF AllStreaming
  <2>3. r \in active /\ r \in ToSet(decoding) /\ Decoded(work, r) > 0
    <3>1. Decoded(work, r) # 0
      BY <2>1, ItemsCounted DEF TypeOK, Items
    <3>2. PICK a \in Nat, b \in Nat, n \in Nat :
            a = Reported(work, r) /\ b = Decoded(work, r) /\ n = In(decoding, r)
      BY CountTypes
    <3>3. a + b <= One(r \in active) /\ b <= n
      BY <1>4, <3>2 DEF Rest, OneRequest, Replied
    <3>4. b > 0 /\ r \in active /\ n # 0
      BY <3>1, <3>2, <3>3
    <3> QED BY <3>2, <3>4, InCounts DEF TypeOK, BatchTypeOK
  <2>4. /\ \A y \in Req : y # r => stream'[y] = stream[y] /\ (Answered(y)' <=> Answered(y))
        /\ stream'[r] = stream[r] \o <<"last">>
        /\ ToSet(stream'[r]) = ToSet(stream[r]) \cup {"last"}
        /\ "last" \in Message
    BY <1>4, <2>1, SentOne DEF Message
  <2>5. CASE x # r
    <3>1. Ordered(stream[x], backendFailed)'
      BY <1>1, <1>2, <2>4, <2>5 DEF Streaming
    <3>2. Streams(x)'
      BY <1>1, <1>2, <2>4, <2>5 DEF Streaming, Streams
    <3>3. Emits(x)'
      BY <1>1, <1>2, <2>4, <2>5 DEF Streaming, Emits, Emitted
    <3> QED BY <3>1, <3>2, <3>3 DEF Streaming
  <2>6. CASE x = r
    <3>0. ToSet(stream[r]) \subseteq Prefill \cup {"token"}
      BY <1>1, <2>2, <2>3 DEF Streaming, Streams
    <3>1. Ordered(stream[x], backendFailed)'
      <4>1. stream[r] \in Seq(Message) /\ backendFailed \in BOOLEAN
        BY DEF TypeOK
      <4>2. \A a \in ToSet(stream[r]) : Follows(a, "last", backendFailed)
        BY <3>0, RankTable DEF Follows, Prefill
      <4>3. Ordered(stream[r] \o <<"last">>, backendFailed)
        BY <2>2, <2>4, <4>1, <4>2, OrderedMore DEF Streaming
      <4> QED BY <1>1, <2>4, <2>6, <4>3
    <3>2. Streams(x)'
      BY <1>1, <2>3, <2>4, <2>6, <3>0 DEF Streams
    <3>3. Emits(x)'
      <4>1. Emitted(r)' = Emitted(r) + 1 /\ Emitted(r) \in Nat
        <5>1. stream[r] \in Seq(Message)
          BY DEF TypeOK
        <5>2. /\ Hits(stream[r] \o <<"last">>, {"token", "last"})
                   = Hits(stream[r], {"token", "last"}) + 1
              /\ Hits(stream[r], {"token", "last"}) \in Nat
          BY <2>4, <5>1, MessageCounted
        <5> QED BY <2>4, <5>2 DEF Emitted
      <4>2. Emitted(r) + Decoded(work, r) = steps[r] /\ steps[r] <= MaxTokens /\ steps[r] \in Nat
            /\ Decoded(work, r) \in Nat
        BY <1>1, <1>4, <2>2, <2>3, CountTypes DEF Streaming, Emits, TypeOK, BatchTypeOK
      <4>3. Emitted(r)' <= MaxTokens
        BY <2>3, <4>1, <4>2, SchedulerAssumption DEF SchedulerAssumption
      <4> QED BY <1>1, <2>6, <4>3 DEF Emits
    <3> QED BY <3>1, <3>2, <3>3 DEF Streaming
  <2> QED BY <2>5, <2>6
<1> QED BY <1>3, <1>4 DEF FatalError

\* cancel_all_requests appends one cancelled message to each tracked queue.
LEMMA CancelAllStreams ==
  ASSUME TypeOK, Rest, AllStreaming, CancelAll
  PROVE  AllStreaming'
<1> SUFFICES ASSUME NEW x \in Req PROVE Streaming(x)'
  BY DEF AllStreaming
<1>1. /\ phase = "top" /\ phase' = "exited" /\ active' = {} /\ Alive /\ UNCHANGED backendFailed
      /\ stream'[x] = IF x \in Tracked THEN Append(stream[x], "cancelled") ELSE stream[x]
  BY DEF CancelAll, ThreadGone, Alive
<1>2. Streaming(x) /\ stream[x] \in Seq(Message) /\ "cancelled" \in Message /\ backendFailed \in BOOLEAN
  BY DEF AllStreaming, TypeOK, Message, Terminals
<1>3. CASE x \notin Tracked
  BY <1>1, <1>2, <1>3, GoneStreams DEF Streaming, Emits, Emitted
<1>4. CASE x \in Tracked
  <2>1. stream'[x] = stream[x] \o <<"cancelled">>
    BY <1>1, <1>2, <1>4, AppendIsConcat
  <2>2. ~Answered(x)
    BY <1>1, <1>4, HeldIsOwed DEF Tracked
  <2>3. \A a \in ToSet(stream[x]) : Follows(a, "cancelled", backendFailed)
    BY <2>2, Unanswered, RankTable DEF Follows, Terminals
  <2>4. Ordered(stream[x] \o <<"cancelled">>, backendFailed)
    BY <1>2, <2>3, OrderedMore DEF Streaming
  <2>5. Hits(stream[x] \o <<"cancelled">>, {"token", "last"}) = Hits(stream[x], {"token", "last"})
    BY <1>2, MessageCounted
  <2>6. Ordered(stream[x], backendFailed)' /\ (Emitted(x) <= MaxTokens)'
    BY <1>1, <1>2, <2>1, <2>4, <2>5 DEF Streaming, Emits, Emitted
  <2> QED BY <1>1, <2>6, GoneStreams
<1> QED BY <1>3, <1>4

\* fail_all_requests appends only errors.
LEMMA FailAllStreams ==
  ASSUME TypeOK, AllStreaming, FailAll
  PROVE  AllStreaming'
<1> SUFFICES ASSUME NEW x \in Req PROVE Streaming(x)'
  BY DEF AllStreaming
<1>1. /\ phase' = "exited" /\ active' = {} /\ backendFailed' = TRUE
      /\ stream'[x] = stream[x] \o [i \in 1..ErrorCount(x) |-> "error"]
  BY DEF FailAll, ThreadGone
<1>2. Streaming(x) /\ stream[x] \in Seq(Message) /\ backendFailed \in BOOLEAN
  BY DEF AllStreaming, TypeOK
<1>3. ErrorCount(x) \in Nat
  BY ErrorCountType
<1>4. /\ Ordered(stream[x] \o [i \in 1..ErrorCount(x) |-> "error"], TRUE)
      /\ Hits(stream[x] \o [i \in 1..ErrorCount(x) |-> "error"], {"token", "last"})
           = Hits(stream[x], {"token", "last"})
  BY <1>2, <1>3, OrderedErrors DEF Streaming
<1>5. Ordered(stream[x], backendFailed)' /\ (Emitted(x) <= MaxTokens)'
  BY <1>1, <1>2, <1>4 DEF Streaming, Emits, Emitted
<1> QED BY <1>1, <1>5, GoneStreams

\* Every step keeps the response queues right.
LEMMA StreamsStep ==
  LifeHolds /\ AllStreaming /\ [Next]_vars => AllStreaming'
<1> SUFFICES ASSUME TypeOK, Rest, AllStreaming, [Next]_vars PROVE AllStreaming'
  BY DEF LifeHolds
<1>1. CASE \/ \E r \in Req : \/ CallGenerate(r) \/ PutRequest(r) \/ StopGeneration(r)
                             \/ Leave(r) \/ EndStream(r)
           \/ IoThread \/ RequestShutdown \/ Closer \/ UNCHANGED vars
  <2>1. UNCHANGED <<stream, active, phase, work, decoding, steps, backendFailed>>
    BY <1>1 DEF CallGenerate, PutRequest, StopGeneration, Leave, EndStream, ClientUnchanged,
                IoThread, IoRestore, IoFailRestore, NextRestore, IoDeliver, IoCommit, IoEnd,
                IoUnchanged, RequestShutdown, Closer, CloseIoThread, CloseStore, CloserStep, vars
  <2> QED BY <2>1, SameStreams
<1>2. CASE GenerationThread
  <2>1. CASE StartDrain \/ StartInsert \/ EndInsert \/ AdmitPending \/ StepNothing \/ EndResponses
    <3>1. /\ UNCHANGED <<stream, active, decoding, steps, backendFailed>>
          /\ Alive /\ Alive' /\ phase' # "respond" /\ (phase = "respond" => work = <<>>)
      BY <2>1 DEF StartDrain, StartInsert, EndInsert, AdmitPending, StepNothing, EndResponses, Alive
    <3> QED BY <3>1, QuietStreams
  <2>2. CASE CancelAll \/ FatalError \/ FailAll
    BY <2>2, CancelAllStreams, FatalStreams, FailAllStreams
  <2>3. CASE CallNext
    BY <2>3, CallStreams
  <2>4. CASE \E r \in Req : HandleNew(r) \/ HandleCancel(r) \/ HandleLateRestore(r)
                            \/ HandleFailedRestore(r) \/ HandlePrepared(r)
    BY <2>4, HandledStreams
  <2>5. CASE \E r \in Req : InsertReady(r) \/ RejectReady(r) \/ RespondProgress(r)
                            \/ RespondToken(r) \/ RespondLast(r)
    BY <2>5, InsertStreams, RejectStreams, RespondStreams, LastStreams
  <2> QED BY <1>2, <2>1, <2>2, <2>3, <2>4, <2>5 DEF GenerationThread
<1> QED BY <1>1, <1>2 DEF Next

\* They start empty.
LEMMA StreamsInit ==
  Init => AllStreaming
<1> SUFFICES ASSUME Init, NEW r \in Req PROVE Streaming(r)
  BY DEF AllStreaming
<1>1. stream[r] = <<>> /\ active = {} /\ decoding = <<>> /\ phase = "top"
  BY DEF Init, BatchInit
<1>2. ToSet(decoding) = {} /\ Emitted(r) = 0
  BY <1>1, EmptyHasNone, HitsEmpty DEF Emitted
<1>3. Ordered(stream[r], backendFailed)
  BY <1>1 DEF Ordered
<1>4. Streams(r)
  BY <1>1 DEF Streams
<1>5. Emits(r)
  BY <1>2, SchedulerAssumption DEF Emits, SchedulerAssumption
<1> QED BY <1>3, <1>4, <1>5 DEF Streaming

\* What a caller reads off its response queue is in order, ends with one
\* terminal message and, but for the errors of a fatal failure, nothing
\* after it, and holds no more tokens than were asked for, whatever rows
\* join or leave the batch around it.
THEOREM StreamsStayRight == Spec => []StreamsAreRight
<1>1. AllStreaming => StreamsAreRight
  <2> SUFFICES ASSUME AllStreaming PROVE StreamsAreRight
    OBVIOUS
  <2>1. StreamInOrder
    BY DEF AllStreaming, Streaming, Ordered, Follows, StreamInOrder
  <2>2. TokenLimit
    <3> SUFFICES ASSUME NEW r \in Req
                 PROVE Cardinality({i \in DOMAIN stream[r] : stream[r][i] \in {"token", "last"}})
                         <= MaxTokens
      BY DEF TokenLimit
    <3>1. Emitted(r) <= MaxTokens
      BY DEF AllStreaming, Streaming, Emits
    <3> QED BY <3>1 DEF Emitted, Hits
  <2> QED BY <2>1, <2>2 DEF StreamsAreRight
<1>2. Spec => []LifeHolds
  BY RequestsStayAccounted DEF LifeHolds
<1> QED BY <1>1, <1>2, StreamsInit, StreamsStep, PTL DEF Spec

-----------------------------------------------------------------------------
(* The kit implements the abstract request service.                        *)

\* The state of the abstract service: what became of each request, and who asked
\* to be stopped.
StatusNow == [r \in Req |-> Status(r)]
AskedNow == stopped \cup {r \in Req : client[r] = "ended"}

\* The abstract service counts with the same operator.
LEMMA SameCount == \A S : Service!Cardinality(S) = Cardinality(S)
BY DEF Service!Cardinality, Cardinality

\* A request's status is a matter of its response queue and of active.
LEMMA SameStatus ==
  ASSUME UNCHANGED <<stream, active>>, Accepted' = Accepted
  PROVE  StatusNow' = StatusNow
<1>1. \A r \in Req : (client'[r] \in {"waiting", "ended"}) <=> (client[r] \in {"waiting", "ended"})
  BY DEF Accepted
<1> QED BY <1>1 DEF StatusNow, Status

\* A step that sends nothing, accepts nobody and starts nobody.
LEMMA Stutters ==
  ASSUME UNCHANGED <<stream, active, client, stopped>>, Shutdown' <=> Shutdown
  PROVE  [Service!Next]_(Service!svars)
<1>1. Accepted' = Accepted
  BY DEF Accepted
<1>2. StatusNow' = StatusNow /\ AskedNow' = AskedNow
  BY <1>1, SameStatus DEF AskedNow
<1> QED BY <1>2 DEF Service!svars, StatusNow, AskedNow

\* Somebody asks for one request to be cancelled.
LEMMA Asks ==
  ASSUME NEW r \in Req, UNCHANGED <<stream, active, closer>>, Accepted' = Accepted,
         AskedNow' = AskedNow \cup {r}
  PROVE  [Service!Next]_(Service!svars)
<1>1. StatusNow' = StatusNow /\ (Shutdown' <=> Shutdown)
  BY SameStatus DEF Shutdown
<1>2. Service!Ask(r)
  BY <1>1 DEF Service!Ask, StatusNow, AskedNow
<1> QED BY <1>2 DEF Service!Next

\* One request moves.
LEMMA Moves ==
  ASSUME NEW r \in Req, NEW to, StatusNow' = [StatusNow EXCEPT ![r] = to],
         AskedNow' = AskedNow, closer' = closer,
         \/ StatusNow[r] = "new" /\ to = "accepted"
         \/ StatusNow[r] = "running" /\ to = "completed"
         \/ StatusNow[r] = "accepted" /\ to = "failed"
         \/ StatusNow[r] \in {"accepted", "running"} /\ to = "cancelled" /\ r \in AskedNow
  PROVE  [Service!Next]_(Service!svars)
<1>0. Shutdown' <=> Shutdown
  BY DEF Shutdown
<1>1. CASE StatusNow[r] = "new" /\ to = "accepted"
  <2>1. Service!Accept(r)
    BY <1>0, <1>1 DEF Service!Accept, Service!Move, StatusNow, AskedNow
  <2> QED BY <2>1 DEF Service!Next
<1>2. CASE StatusNow[r] = "running" /\ to = "completed"
  <2>1. Service!Complete(r)
    BY <1>0, <1>2 DEF Service!Complete, Service!Move, StatusNow, AskedNow
  <2> QED BY <2>1 DEF Service!Next
<1>3. CASE StatusNow[r] = "accepted" /\ to = "failed"
  <2>1. Service!Reject(r)
    BY <1>0, <1>3 DEF Service!Reject, Service!Move, StatusNow, AskedNow
  <2> QED BY <2>1 DEF Service!Next
<1>4. CASE StatusNow[r] \in {"accepted", "running"} /\ to = "cancelled" /\ r \in AskedNow
  <2>1. Service!Cancel(r)
    BY <1>0, <1>4 DEF Service!Cancel, Service!Move, StatusNow, AskedNow
  <2> QED BY <2>1 DEF Service!Next
<1> QED BY <1>1, <1>2, <1>3, <1>4

\* A request that is owed its answer is running when it has its row, and
\* waiting otherwise.
LEMMA OwedStatus ==
  ASSUME TypeOK, AllStreaming, NEW r \in Req, phase # "exited",
         Alive \/ r \notin active, ~Answered(r), r \in Accepted
  PROVE  /\ "last" \notin ToSet(stream[r])
         /\ Status(r) = IF r \in active THEN "running" ELSE "accepted"
<1>1. "last" \notin ToSet(stream[r])
  <2>1. Streams(r)
    BY DEF AllStreaming, Streaming
  <2>2. CASE r \in active
    BY <2>1, <2>2 DEF Streams, Prefill
  <2>3. CASE r \notin active
    BY <2>1, <2>3, EmptyHasNone DEF Streams
  <2> QED BY <2>2, <2>3
<1>2. "cancelled" \notin ToSet(stream[r]) /\ "error" \notin ToSet(stream[r])
  BY DEF Answered, Terminals
<1> QED BY <1>1, <1>2 DEF Status, Accepted

\* A message to one request changes the status of no other.
LEMMA OthersKeepStatus ==
  ASSUME TypeOK, NEW r \in Req, Accepted' = Accepted, NEW ms \in Seq(Message), Send(r, ms),
         active' \ {r} = active \ {r}
  PROVE  StatusNow' = [StatusNow EXCEPT ![r] = Status(r)']
<1>1. \A x \in Req : x # r => stream'[x] = stream[x]
  BY Sent
<1>2. \A x \in Req : (client'[x] \in {"waiting", "ended"}) <=> (client[x] \in {"waiting", "ended"})
  BY DEF Accepted
<1>3. \A x \in Req : x # r => (x \in active' <=> x \in active)
  OBVIOUS
<1>4. \A x \in Req : x # r => Status(x)' = Status(x)
  BY <1>1, <1>2, <1>3 DEF Status
<1> QED BY <1>4 DEF StatusNow

\* What callers do is a request or a stop of the service.
LEMMA ClientServes ==
  ASSUME TypeOK, Rest, AllStreaming, NEW r \in Req,
         CallGenerate(r) \/ PutRequest(r) \/ StopGeneration(r) \/ Leave(r) \/ EndStream(r)
  PROVE  [Service!Next]_(Service!svars)
<1>0. UNCHANGED <<stream, active, closer>>
  BY DEF CallGenerate, PutRequest, StopGeneration, Leave, EndStream, ClientUnchanged
<1>1. CASE CallGenerate(r)
  <2>1. Accepted' = Accepted /\ AskedNow' = AskedNow
    BY <1>1 DEF CallGenerate, Accepted, AskedNow, TypeOK
  <2>2. StatusNow' = StatusNow /\ (Shutdown' <=> Shutdown)
    BY <1>0, <2>1, SameStatus DEF Shutdown
  <2> QED BY <2>1, <2>2 DEF Service!svars, StatusNow, AskedNow
<1>2. CASE PutRequest(r)
  <2>1. Accepted' = Accepted \cup {r} /\ r \notin Accepted /\ AskedNow' = AskedNow
    BY <1>2 DEF PutRequest, Accepted, AskedNow, TypeOK
  <2>2. stream[r] = <<>> /\ r \notin active
    BY <2>1 DEF Rest, Known
  <2>3. Status(r) = "new" /\ Status(r)' = "accepted"
    BY <1>0, <2>1, <2>2, EmptyHasNone DEF Status, Accepted
  <2>4. \A x \in Req : x # r => Status(x)' = Status(x)
    <3>1. \A x \in Req : x # r => client'[x] = client[x]
      BY <1>2 DEF PutRequest, TypeOK
    <3> QED BY <1>0, <3>1 DEF Status
  <2>5. StatusNow' = [StatusNow EXCEPT ![r] = "accepted"] /\ StatusNow[r] = "new"
    BY <2>3, <2>4 DEF StatusNow
  <2> QED BY <1>0, <2>1, <2>5, Moves
<1>3. CASE StopGeneration(r) \/ Leave(r) \/ EndStream(r)
  <2>1. Accepted' = Accepted
    BY <1>3 DEF StopGeneration, Leave, EndStream, Accepted, TypeOK
  <2>2. AskedNow' = AskedNow \cup {r}
    BY <1>3 DEF StopGeneration, Leave, EndStream, AskedNow, TypeOK
  <2> QED BY <1>0, <2>1, <2>2, Asks
<1> QED BY <1>1, <1>2, <1>3

\* A request that is owed its answer gets it: its status is what it is sent.
LEMMA Answers ==
  ASSUME TypeOK, AllStreaming, NEW r \in Req, Alive, ~Answered(r), r \in Accepted,
         NEW m \in {"cancelled", "error"}, Send(r, <<m>>), active' = active \ {r},
         UNCHANGED <<client, stopped, closer>>,
         m = "cancelled" => r \in AskedNow, m = "error" => r \notin active
  PROVE  [Service!Next]_(Service!svars)
<1>1. Accepted' = Accepted /\ AskedNow' = AskedNow /\ m \in Message
  BY DEF Accepted, AskedNow, Message, Terminals
<1>2. "last" \notin ToSet(stream[r]) /\ Status(r) = IF r \in active THEN "running" ELSE "accepted"
  BY OwedStatus DEF Alive
<1>3. ToSet(stream'[r]) = ToSet(stream[r]) \cup {m}
  BY <1>1, SentOne
<1>4. Status(r)' = IF m = "cancelled" THEN "cancelled" ELSE "failed"
  <2>1. "cancelled" \notin ToSet(stream[r])
    BY DEF Answered, Terminals
  <2> QED BY <1>2, <1>3, <2>1 DEF Status
<1>5. StatusNow' = [StatusNow EXCEPT ![r] = Status(r)']
  <2>1. <<m>> \in Seq(Message)
    BY <1>1
  <2>2. active' \ {r} = active \ {r}
    OBVIOUS
  <2> QED BY <1>1, <2>1, <2>2, OthersKeepStatus
<1>6. StatusNow[r] = Status(r)
  BY DEF StatusNow
<1> QED BY <1>1, <1>2, <1>4, <1>5, <1>6, Moves

\* The handlers of the drain cancel or fail one request, or do nothing to it.
LEMMA HandledServes ==
  ASSUME TypeOK, Rest, AllStreaming, NEW r \in Req,
         \/ HandleNew(r) \/ HandleCancel(r) \/ HandleLateRestore(r)
         \/ HandleFailedRestore(r) \/ HandlePrepared(r)
  PROVE  [Service!Next]_(Service!svars)
<1>1. phase = "drain" /\ Alive /\ UNCHANGED <<client, stopped, closer>> /\ (Shutdown' <=> Shutdown)
  BY DEF HandleNew, HandleCancel, HandleLateRestore, HandleFailedRestore, HandlePrepared,
         NextItem, Alive, Shutdown
<1>2. CASE HandleNew(r) \/ HandleLateRestore(r) \/ HandlePrepared(r)
  BY <1>1, <1>2, Stutters DEF HandleNew, HandleLateRestore, HandlePrepared
<1>3. CASE HandleFailedRestore(r)
  <2>1. r \in restoring
    <3>1. r \in restoring \cup cancelledRestores
      BY <1>3, ResultTaken DEF HandleFailedRestore
    <3> QED BY <1>3, <3>1 DEF HandleFailedRestore, RestoreCancelled
  <2>2. ~Answered(r) /\ r \notin active /\ r \in Accepted
    BY <1>1, <2>1, HeldOnce, HeldIsOwed
  <2>3. UNCHANGED active /\ Send(r, <<"error">>)
    BY <1>3 DEF HandleFailedRestore
  <2>4. active' = active \ {r}
    BY <2>2, <2>3
  <2> QED BY <1>1, <2>2, <2>3, <2>4, Answers
<1>4. CASE HandleCancel(r)
  <2>0. r \in AskedNow
    BY <1>4, CancelTaken DEF HandleCancel, AskedNow
  <2>1. CASE CancelUnknown(r)
    BY <1>1, <2>1, Stutters DEF CancelUnknown
  <2>2. CASE CancelPending(r) \/ CancelReady(r) \/ CancelRestoring(r)
    <3>1. UNCHANGED active /\ Send(r, <<"cancelled">>)
      BY <2>2 DEF CancelPending, CancelReady, CancelRestoring
    <3>2. ~Answered(r) /\ r \notin active /\ r \in Accepted
      BY <1>1, <2>2, HeldOnce, HeldIsOwed DEF CancelPending, CancelReady, CancelRestoring
    <3>3. active' = active \ {r}
      BY <3>1, <3>2
    <3> QED BY <1>1, <2>0, <3>1, <3>2, <3>3, Answers
  <2>3. CASE CancelActive(r)
    <3>1. r \in active /\ active' = active \ {r} /\ Send(r, <<"cancelled">>)
      BY <2>3 DEF CancelActive
    <3>2. ~Answered(r) /\ r \in Accepted
      BY <1>1, <3>1, HeldIsOwed
    <3> QED BY <1>1, <2>0, <3>1, <3>2, Answers
  <2> QED BY <1>4, <2>1, <2>2, <2>3 DEF HandleCancel, CancelRequest
<1> QED BY <1>2, <1>3, <1>4

\* A message that is no outcome changes no status.
LEMMA ProgressStutters ==
  ASSUME TypeOK, NEW r \in Req, NEW m \in {"begin", "progress", "final", "token"},
         Send(r, <<m>>), UNCHANGED <<active, client, stopped, closer>>
  PROVE  [Service!Next]_(Service!svars)
<1>1. /\ \A x \in Req : x # r => stream'[x] = stream[x]
      /\ ToSet(stream'[r]) = ToSet(stream[r]) \cup {m}
      /\ m \notin {"last", "cancelled", "error"}
  <2>1. m \in Message
    BY DEF Message
  <2> QED BY <2>1, SentOne
<1>2. \A x \in Req : Status(x)' = Status(x)
  <2> SUFFICES ASSUME NEW x \in Req PROVE Status(x)' = Status(x)
    OBVIOUS
  <2>1. \A o \in {"last", "cancelled", "error"} : o \in ToSet(stream'[x]) <=> o \in ToSet(stream[x])
    BY <1>1
  <2> QED BY <2>1 DEF Status
<1>3. StatusNow' = StatusNow /\ AskedNow' = AskedNow /\ (Shutdown' <=> Shutdown)
  BY <1>2 DEF StatusNow, AskedNow, Shutdown
<1> QED BY <1>3 DEF Service!svars, StatusNow, AskedNow

\* A row is inserted: the request starts, in a slot that is free.
LEMMA InsertServes ==
  ASSUME TypeOK, Rest, AllStreaming, NEW r \in Req, InsertReady(r)
  PROVE  [Service!Next]_(Service!svars)
<1>1. /\ phase = "insert" /\ Alive /\ r \in Accepted /\ ~Answered(r) /\ r \notin active
      /\ UNCHANGED <<client, stopped, closer>> /\ Accepted' = Accepted
      /\ active' = active \cup {r} /\ Send(r, <<"begin">>) /\ FreeRow
  <2>1. NextReady(r)
    BY DEF InsertReady
  <2> QED BY <2>1, ReadyTaken DEF InsertReady, NextReady
<1>2. "last" \notin ToSet(stream[r]) /\ Status(r) = "accepted"
  BY <1>1, OwedStatus DEF Alive
<1>3. ToSet(stream'[r]) = ToSet(stream[r]) \cup {"begin"}
  <2>1. "begin" \in Message
    BY DEF Message
  <2> QED BY <1>1, <2>1, SentOne
<1>4. Status(r)' = "running"
  <2>1. "cancelled" \notin ToSet(stream[r]) /\ "error" \notin ToSet(stream[r])
    BY <1>1 DEF Answered, Terminals
  <2> QED BY <1>1, <1>2, <1>3, <2>1 DEF Status
<1>5. StatusNow' = [StatusNow EXCEPT ![r] = Status(r)'] /\ StatusNow[r] = "accepted"
  <2>1. <<"begin">> \in Seq(Message)
    BY DEF Message
  <2>2. active' \ {r} = active \ {r}
    BY <1>1
  <2> QED BY <1>1, <1>2, <2>1, <2>2, OthersKeepStatus DEF StatusNow
<1>6. Service!Cardinality(Service!Running) < MaxSeqNums
  <2>1. Service!Running \subseteq active
    BY DEF Service!Running, Status
  <2>2. IsFiniteSet(active) /\ Cardinality(active) \in Nat
    BY FS_CardinalityType DEF TypeOK
  <2>3. PICK S : S = Service!Running
    OBVIOUS
  <2>4. Cardinality(S) <= Cardinality(active) /\ Cardinality(S) \in Nat
    BY <2>1, <2>2, <2>3, FS_Subset, FS_CardinalityType
  <2>5. Cardinality(S) < MaxSeqNums
    BY <1>1, <2>2, <2>4, SchedulerAssumption DEF FreeRow
  <2> QED BY <2>3, <2>5, SameCount
<1>7. AskedNow' = AskedNow /\ (Shutdown' <=> Shutdown)
  BY <1>1 DEF AskedNow, Shutdown
<1>8. Service!Start(r)
  BY <1>4, <1>5, <1>6, <1>7 DEF Service!Start, Service!Move, StatusNow, AskedNow
<1> QED BY <1>8 DEF Service!Next

\* A rejected request fails.
LEMMA RejectServes ==
  ASSUME TypeOK, Rest, AllStreaming, NEW r \in Req, RejectReady(r)
  PROVE  [Service!Next]_(Service!svars)
<1>1. NextReady(r) /\ Send(r, <<"error">>) /\ UNCHANGED active
  BY DEF RejectReady
<1>2. /\ Alive /\ r \in Accepted /\ ~Answered(r) /\ r \notin active
      /\ UNCHANGED <<client, stopped, closer>>
  BY <1>1, ReadyTaken DEF NextReady
<1>3. active' = active \ {r}
  BY <1>1, <1>2
<1> QED BY <1>1, <1>2, <1>3, Answers

\* Tokens and progress change no status.
LEMMA RespondServes ==
  ASSUME TypeOK, Rest, NEW r \in Req, RespondProgress(r) \/ RespondToken(r)
  PROVE  [Service!Next]_(Service!svars)
<1>1. UNCHANGED <<active, client, stopped, closer>>
  BY DEF RespondProgress, RespondToken, NextResponse
<1>2. \/ UNCHANGED stream
      \/ \E m \in {"progress", "final", "token"} : Send(r, <<m>>)
  BY DEF RespondProgress, RespondToken, NextResponse
<1>3. CASE UNCHANGED stream
  BY <1>1, <1>3, Stutters DEF Shutdown
<1> QED BY <1>1, <1>2, <1>3, ProgressStutters

\* The last message of an active request completes it.
LEMMA LastCompletes ==
  ASSUME TypeOK, Rest, AllStreaming, NEW r \in Req, Alive, r \in active,
         NEW ms \in Seq(Message), "last" \in ToSet(ms), Send(r, ms),
         active' \ {r} = active \ {r}, UNCHANGED <<client, stopped, closer>>
  PROVE  [Service!Next]_(Service!svars)
<1>1. ~Answered(r) /\ r \in Accepted
  BY HeldIsOwed
<1>2. Status(r) = "running"
  BY <1>1, OwedStatus DEF Alive
<1>3. "last" \in ToSet(stream'[r])
  BY Sent
<1>4. Status(r)' = "completed"
  BY <1>3 DEF Status
<1>5. Accepted' = Accepted /\ AskedNow' = AskedNow
  BY DEF Accepted, AskedNow
<1>6. StatusNow' = [StatusNow EXCEPT ![r] = Status(r)']
  BY <1>5, OthersKeepStatus
<1>7. StatusNow[r] = "running"
  BY <1>2 DEF StatusNow
<1> QED BY <1>4, <1>5, <1>6, <1>7, Moves

\* The last token completes its request.
LEMMA LastServes ==
  ASSUME TypeOK, Rest, AllStreaming, NEW r \in Req, RespondLast(r)
  PROVE  [Service!Next]_(Service!svars)
<1>1. /\ phase = "respond" /\ Alive /\ r \in active /\ active' = active \ {r}
      /\ Send(r, <<"last", "none">>) /\ UNCHANGED <<client, stopped, closer>>
  BY DEF RespondLast, NextResponse, Alive, ForgetFinished
<1>2. <<"last", "none">> \in Seq(Message) /\ ToSet(<<"last", "none">>) = {"last", "none"}
  BY DEF Message, Terminals, ToSet
<1>3. active' \ {r} = active \ {r}
  BY <1>1
<1> QED BY <1>1, <1>2, <1>3, LastCompletes

\* A fatal error alone changes no status.
LEMMA FatalServes ==
  ASSUME TypeOK, Rest, AllStreaming, FatalError
  PROVE  [Service!Next]_(Service!svars)
<1>1. Alive /\ UNCHANGED <<active, client, stopped, closer>>
  BY DEF FatalError, Alive
<1>2. CASE UNCHANGED stream
  BY <1>1, <1>2, Stutters DEF Shutdown
<1>3. CASE phase = "respond" /\ work # <<>> /\ Head(work).kind = "last" /\ Send(Head(work).id, <<"last">>)
  <2>1. PICK r \in Req : r = Head(work).id /\ Item("last", r) \in ToSet(work)
    <3>1. Head(work) \in Response /\ Head(work) \in ToSet(work)
      BY <1>3, HeadTailProperties, ToSetChanges DEF Rest, WorkFits
    <3> QED BY <1>3, <3>1 DEF Response, Item
  <2>2. r \in active
    <3>1. Decoded(work, r) # 0
      BY <2>1, ItemsCounted DEF TypeOK, Items
    <3>2. PICK a \in Nat, b \in Nat : a = Reported(work, r) /\ b = Decoded(work, r)
      BY CountTypes
    <3>3. a + b <= One(r \in active)
      BY <1>3, <3>2 DEF Rest, OneRequest, Replied
    <3> QED BY <3>1, <3>2, <3>3
  <2>3. <<"last">> \in Seq(Message) /\ ToSet(<<"last">>) = {"last"}
    BY DEF Message, ToSet
  <2> QED BY <1>1, <1>3, <2>1, <2>2, <2>3, LastCompletes
<1> QED BY <1>2, <1>3 DEF FatalError

\* Shutting down cancels everything the thread tracks.
LEMMA CancelAllServes ==
  ASSUME TypeOK, Rest, AllStreaming, CancelAll
  PROVE  [Service!Next]_(Service!svars)
<1>1. /\ phase = "top" /\ Alive /\ Shutdown /\ active' = {}
      /\ UNCHANGED <<client, stopped, closer>>
      /\ \A r \in Req : stream'[r] = IF r \in Tracked THEN Append(stream[r], "cancelled") ELSE stream[r]
  BY DEF CancelAll, ThreadGone, Alive
<1>2. \A r \in Req : r \in Tracked =>
        /\ StatusNow[r] \in {"accepted", "running"}
        /\ Status(r)' = "cancelled"
  <2> SUFFICES ASSUME NEW r \in Req, r \in Tracked
               PROVE  StatusNow[r] \in {"accepted", "running"} /\ Status(r)' = "cancelled"
    OBVIOUS
  <2>1. ~Answered(r) /\ r \in Accepted
    BY <1>1, HeldIsOwed DEF Tracked
  <2>2. "last" \notin ToSet(stream[r]) /\ Status(r) \in {"accepted", "running"}
    BY <1>1, <2>1, OwedStatus DEF Alive
  <2>3. ToSet(stream'[r]) = ToSet(stream[r]) \cup {"cancelled"}
    <3>1. "cancelled" \in Message /\ stream[r] \in Seq(Message)
      BY DEF TypeOK, Message, Terminals
    <3> QED BY <1>1, <3>1, ToSetChanges
  <2> QED BY <2>2, <2>3 DEF Status, StatusNow
<1>3. \A r \in Req : r \notin Tracked => Status(r)' = StatusNow[r]
  BY <1>1 DEF Status, StatusNow, Tracked
<1>4. Tracked \subseteq Service!Unanswered
  <2>1. Tracked \subseteq Req
    BY ToSetSubset DEF TypeOK, Tracked
  <2> QED BY <1>2, <2>1 DEF Service!Unanswered, StatusNow
<1>5. StatusNow' = [r \in Req |-> IF r \in Tracked THEN "cancelled" ELSE StatusNow[r]]
  BY <1>2, <1>3 DEF StatusNow
<1>6. AskedNow' = AskedNow /\ (Shutdown' <=> Shutdown)
  BY <1>1 DEF AskedNow, Shutdown
<1>7. Service!Stop("cancelled")
  BY <1>1, <1>4, <1>5, <1>6 DEF Service!Stop, StatusNow, AskedNow
<1> QED BY <1>7 DEF Service!Next

\* An active request counts at least once against a fatal failure.
LEMMA ActiveGetsError ==
  ASSUME TypeOK, NEW r \in Req
  PROVE  r \in active => ErrorCount(r) > 0
<1>1. PICK a \in Nat, b \in Nat, c \in Nat :
        /\ a = Cardinality({i \in DOMAIN requests :
                             requests[i].id = r /\ requests[i].kind # "cancel"})
        /\ b = Cardinality({i \in DOMAIN pending : pending[i] = r})
        /\ c = Cardinality({i \in DOMAIN ready : ready[i] = r})
  <2>1. /\ DOMAIN requests = 1..Len(requests) /\ Len(requests) \in Nat
        /\ DOMAIN pending = 1..Len(pending) /\ Len(pending) \in Nat
        /\ DOMAIN ready = 1..Len(ready) /\ Len(ready) \in Nat
    BY LenProperties DEF TypeOK
  <2>2. \A n \in Nat : \A T \in SUBSET (1..n) : Cardinality(T) \in Nat
    <3>1. \A n \in Nat : IsFiniteSet(1..n)
      BY FS_Interval
    <3> QED BY <3>1, FS_Subset, FS_CardinalityType
  <2>3. Cardinality({i \in DOMAIN requests :
                       requests[i].id = r /\ requests[i].kind # "cancel"}) \in Nat
    BY <2>1, <2>2
  <2>4. /\ Cardinality({i \in DOMAIN pending : pending[i] = r}) \in Nat
        /\ Cardinality({i \in DOMAIN ready : ready[i] = r}) \in Nat
    BY <2>1, <2>2
  <2> QED BY <2>3, <2>4
<1>2. ErrorCount(r) = a + b + c + (IF r \in active THEN 1 ELSE 0) + (IF r \in restoring THEN 1 ELSE 0)
  BY <1>1 DEF ErrorCount
<1> QED BY <1>2

\* A fatal error fails whatever _fail_all_requests finds.
LEMMA FailAllServes ==
  ASSUME TypeOK, Rest, AllStreaming, FailAll
  PROVE  [Service!Next]_(Service!svars)
<1>1. /\ active' = {} /\ UNCHANGED <<client, stopped, closer>>
      /\ \A r \in Req : stream'[r] = stream[r] \o [i \in 1..ErrorCount(r) |-> "error"]
  BY DEF FailAll, ThreadGone
<1> DEFINE Found == {r \in Req : StatusNow[r] \in {"accepted", "running"} /\ ErrorCount(r) > 0}
<1>2. \A r \in Req : ToSet(stream'[r]) = ToSet(stream[r]) \cup (IF ErrorCount(r) > 0 THEN {"error"} ELSE {})
  <2> SUFFICES ASSUME NEW r \in Req
               PROVE  ToSet(stream'[r]) = ToSet(stream[r]) \cup (IF ErrorCount(r) > 0 THEN {"error"} ELSE {})
    OBVIOUS
  <2>1. PICK n \in Nat : n = ErrorCount(r)
    BY ErrorCountType
  <2>2. [i \in 1..n |-> "error"] \in [1..n -> Message]
    BY DEF Message, Terminals
  <2>3. PICK e \in Seq(Message) : e = [i \in 1..n |-> "error"]
    BY <2>2, FunctionIsSeq
  <2>4. ToSet(e) = IF n > 0 THEN {"error"} ELSE {}
    <3>1. DOMAIN e = 1..n /\ \A i \in 1..n : e[i] = "error"
      BY <2>3
    <3>2. n > 0 => 1 \in 1..n
      BY <2>1
    <3>3. ~(n > 0) => 1..n = {}
      BY <2>1
    <3> QED BY <3>1, <3>2, <3>3 DEF ToSet
  <2>5. stream[r] \in Seq(Message) /\ stream'[r] = stream[r] \o e
    BY <1>1, <2>1, <2>3 DEF TypeOK
  <2>6. ToSet(stream'[r]) = ToSet(stream[r]) \cup ToSet(e)
    BY <2>5, ConcatElements
  <2> QED BY <2>1, <2>4, <2>6
<1>3. \A r \in Req : r \in Found => Status(r)' = "failed"
  BY <1>2 DEF Status, StatusNow
<1>4. \A r \in Req : r \notin Found => Status(r)' = StatusNow[r]
  <2> SUFFICES ASSUME NEW r \in Req, r \notin Found PROVE Status(r)' = StatusNow[r]
    OBVIOUS
  <2>0. StatusNow[r] = Status(r)
    BY DEF StatusNow
  <2>1. CASE Status(r) \in {"accepted", "running"}
    <3>1. ~(ErrorCount(r) > 0)
      BY <2>0, <2>1
    <3>2. r \notin active
      <4>1. r \in active => ErrorCount(r) > 0
        BY ActiveGetsError
      <4> QED BY <3>1, <4>1
    <3> QED BY <1>1, <1>2, <2>0, <3>1, <3>2 DEF Status
  <2>2. CASE Status(r) = "new"
    <3>1. r \notin Accepted /\ r \notin active
      BY <2>2 DEF Status, Accepted
    <3>2. ErrorCount(r) = 0
      BY <3>1, StrangersGetNoError DEF Rest
    <3> QED BY <1>1, <1>2, <2>0, <3>1, <3>2 DEF Status
  <2>3. CASE Status(r) \in {"completed", "cancelled", "failed"}
    BY <1>2, <2>0, <2>3 DEF Status
  <2> QED BY <2>1, <2>2, <2>3 DEF Status
<1>5. Found \subseteq Service!Unanswered
  BY DEF Service!Unanswered, StatusNow
<1>6. StatusNow' = [r \in Req |-> IF r \in Found THEN "failed" ELSE StatusNow[r]]
  BY <1>3, <1>4 DEF StatusNow
<1>7. AskedNow' = AskedNow /\ (Shutdown' <=> Shutdown)
  BY <1>1 DEF AskedNow, Shutdown
<1> HIDE DEF Found
<1>8. Service!Stop("failed")
  BY <1>5, <1>6, <1>7 DEF Service!Stop, StatusNow, AskedNow
<1> QED BY <1>8 DEF Service!Next

\* Every step of the generation thread is a step of the service.
LEMMA GenerationServes ==
  ASSUME TypeOK, Rest, AllStreaming, GenerationThread
  PROVE  [Service!Next]_(Service!svars)
<1>1. CASE StartDrain \/ StartInsert \/ EndInsert \/ AdmitPending \/ StepNothing \/ EndResponses
           \/ CallNext
  <2>1. UNCHANGED <<stream, active, client, stopped, closer>>
    BY <1>1 DEF StartDrain, StartInsert, EndInsert, AdmitPending, StepNothing, EndResponses, CallNext
  <2> QED BY <2>1, Stutters DEF Shutdown
<1>2. CASE CancelAll \/ FatalError \/ FailAll
  BY <1>2, CancelAllServes, FatalServes, FailAllServes
<1>3. CASE \E r \in Req : HandleNew(r) \/ HandleCancel(r) \/ HandleLateRestore(r)
                          \/ HandleFailedRestore(r) \/ HandlePrepared(r)
  BY <1>3, HandledServes
<1>4. CASE \E r \in Req : InsertReady(r) \/ RejectReady(r) \/ RespondProgress(r)
                          \/ RespondToken(r) \/ RespondLast(r)
  BY <1>4, InsertServes, RejectServes, RespondServes, LastServes
<1> QED BY <1>1, <1>2, <1>3, <1>4 DEF GenerationThread

\* Every step of the kit is a step of the service.
LEMMA KitServes ==
  LifeHolds /\ AllStreaming /\ [Next]_vars => [Service!Next]_(Service!svars)
<1> SUFFICES ASSUME TypeOK, Rest, AllStreaming, [Next]_vars PROVE [Service!Next]_(Service!svars)
  BY DEF LifeHolds
<1>1. CASE \E r \in Req : \/ CallGenerate(r) \/ PutRequest(r) \/ StopGeneration(r)
                          \/ Leave(r) \/ EndStream(r)
  BY <1>1, ClientServes
<1>2. CASE GenerationThread
  BY <1>2, GenerationServes
<1>3. CASE IoThread \/ Closer \/ UNCHANGED vars
  <2>1. UNCHANGED <<stream, active, client, stopped>> /\ (Shutdown' <=> Shutdown)
    BY <1>3 DEF IoThread, IoRestore, IoFailRestore, NextRestore, IoDeliver, IoCommit, IoEnd,
                IoUnchanged, Closer, CloseIoThread, CloseStore, CloserStep, Shutdown, vars
  <2> QED BY <2>1, Stutters
<1>4. CASE RequestShutdown
  <2>1. UNCHANGED <<stream, active, client, stopped>> /\ ~Shutdown /\ Shutdown'
    BY <1>4 DEF RequestShutdown, CloserStep, Shutdown
  <2>2. StatusNow' = StatusNow /\ AskedNow' = AskedNow
    BY <2>1, SameStatus DEF AskedNow, Accepted
  <2>3. Service!Close
    BY <2>1, <2>2 DEF Service!Close, StatusNow, AskedNow
  <2> QED BY <2>3 DEF Service!Next
<1> QED BY <1>1, <1>2, <1>3, <1>4 DEF Next

\* The kit is a request service with a limit of MaxSeqNums: no more than
\* that run at once, an outcome never changes once it is out, and, unless
\* the kit is shutting down, only who was stopped or left is cancelled.
THEOREM VlmImplementsService == Spec => ImplementsService
<1>1. Init => Service!Init
  <2> SUFFICES ASSUME Init PROVE Service!Init
    OBVIOUS
  <2>1. \A r \in Req : Status(r) = "new"
    BY EmptyHasNone DEF Init, Status
  <2>2. stopped \cup {r \in Req : client[r] = "ended"} = {} /\ ~Shutdown
    BY DEF Init, Shutdown
  <2> QED BY <2>1, <2>2 DEF Service!Init
<1>2. Spec => []LifeHolds
  BY RequestsStayAccounted DEF LifeHolds
<1> QED BY <1>1, <1>2, KitServes, StreamsInit, StreamsStep, PTL DEF Spec, ImplementsService, Service!Spec

-----------------------------------------------------------------------------
(* Nobody is overtaken.                                                    *)

\* Waiting before somebody, in two lists one after the other.
LEMMA BeforeConcat ==
  ASSUME NEW T, NEW s \in Seq(T), NEW t \in Seq(T), NEW a, NEW b
  PROVE  Before(s \o t, a, b) <=> \/ Before(s, a, b)
                                  \/ Waits(s, a) /\ Waits(t, b)
                                  \/ Before(t, a, b)
<1>1. PICK u \in Seq(T) : u = s \o t
  BY ConcatProperties
<1>2. PICK n \in Nat, k \in Nat :
        /\ n = Len(s) /\ DOMAIN s = 1..n
        /\ k = Len(t) /\ DOMAIN t = 1..k
        /\ Len(u) = n + k /\ DOMAIN u = 1..(n+k)
        /\ \A i \in 1..(n+k) : u[i] = IF i <= n THEN s[i] ELSE t[i - n]
  <2>1. PICK n \in Nat, k \in Nat : n = Len(s) /\ DOMAIN s = 1..n /\ k = Len(t) /\ DOMAIN t = 1..k
    BY LenProperties
  <2>2. Len(u) = n + k /\ DOMAIN u = 1..(n+k)
    BY <1>1, <2>1, ConcatProperties, LenProperties
  <2>3. \A i \in 1..(n+k) : u[i] = IF i <= n THEN s[i] ELSE t[i - n]
    BY <1>1, <2>1, ConcatProperties
  <2> QED BY <2>1, <2>2, <2>3
<1>3. ASSUME Before(s, a, b)
      PROVE  Before(u, a, b)
  <2>1. PICK i \in 1..n, j \in Int : j \in (i+1)..n /\ s[i] = Item("new", a) /\ s[j] = Item("new", b)
    BY <1>2, <1>3 DEF Before
  <2>2. i \in 1..(n+k) /\ j \in (i+1)..(n+k) /\ j \in 1..(n+k) /\ i <= n /\ j <= n
    BY <1>2, <2>1
  <2> QED BY <1>2, <2>1, <2>2 DEF Before
<1>4. ASSUME Waits(s, a), Waits(t, b)
      PROVE  Before(u, a, b)
  <2>1. PICK i \in 1..n, j \in 1..k : s[i] = Item("new", a) /\ t[j] = Item("new", b)
    BY <1>2, <1>4 DEF Waits, ToSet
  <2>2. /\ i \in 1..(n+k) /\ n + j \in (i+1)..(n+k) /\ n + j \in 1..(n+k) /\ i <= n
        /\ ~(n + j <= n) /\ (n + j) - n = j
    BY <1>2, <2>1
  <2> QED BY <1>2, <2>1, <2>2 DEF Before
<1>5. ASSUME Before(t, a, b)
      PROVE  Before(u, a, b)
  <2>1. PICK i \in 1..k, j \in Int : j \in (i+1)..k /\ t[i] = Item("new", a) /\ t[j] = Item("new", b)
    BY <1>2, <1>5 DEF Before
  <2>2. /\ n + i \in 1..(n+k) /\ n + j \in ((n+i)+1)..(n+k) /\ n + j \in 1..(n+k)
        /\ ~(n + i <= n) /\ (n + i) - n = i /\ ~(n + j <= n) /\ (n + j) - n = j
    BY <1>2, <2>1
  <2>3. u[n + i] = Item("new", a) /\ u[n + j] = Item("new", b)
    BY <1>2, <2>1, <2>2
  <2> QED BY <1>2, <2>2, <2>3 DEF Before
<1>6. ASSUME Before(u, a, b)
      PROVE  Before(s, a, b) \/ (Waits(s, a) /\ Waits(t, b)) \/ Before(t, a, b)
  <2>1. PICK i \in 1..(n+k), j \in Int : j \in (i+1)..(n+k) /\ u[i] = Item("new", a) /\ u[j] = Item("new", b)
    BY <1>2, <1>6 DEF Before
  <2>2. CASE j <= n
    <3>1. i \in 1..n /\ j \in (i+1)..n /\ j \in 1..(n+k) /\ i <= n
      BY <1>2, <2>1, <2>2
    <3>2. s[i] = Item("new", a) /\ s[j] = Item("new", b)
      BY <1>2, <2>1, <2>2, <3>1
    <3> QED BY <1>2, <3>1, <3>2 DEF Before
  <2>3. CASE i <= n /\ ~(j <= n)
    <3>1. i \in 1..n /\ j - n \in 1..k /\ j \in 1..(n+k)
      BY <1>2, <2>1, <2>3
    <3>2. s[i] = Item("new", a) /\ t[j - n] = Item("new", b)
      BY <1>2, <2>1, <2>3, <3>1
    <3> QED BY <1>2, <3>1, <3>2 DEF Waits, ToSet
  <2>4. CASE ~(i <= n)
    <3>1. i - n \in 1..k /\ j - n \in ((i-n)+1)..k /\ j \in 1..(n+k) /\ ~(j <= n)
      BY <1>2, <2>1, <2>4
    <3>2. t[i - n] = Item("new", a) /\ t[j - n] = Item("new", b)
      BY <1>2, <2>1, <2>4, <3>1
    <3> QED BY <1>2, <3>1, <3>2 DEF Before
  <2> QED BY <1>2, <2>1, <2>2, <2>3, <2>4
<1> QED BY <1>1, <1>3, <1>4, <1>5, <1>6

\* Who waits in a concatenation.
LEMMA WaitsConcat ==
  ASSUME NEW T, NEW s \in Seq(T), NEW t \in Seq(T), NEW a
  PROVE  Waits(s \o t, a) <=> Waits(s, a) \/ Waits(t, a)
BY ConcatElements DEF Waits

\* Both of them wait, and not in a list of one.
LEMMA BeforeWaits ==
  ASSUME NEW T, NEW s \in Seq(T), NEW a, NEW b
  PROVE  /\ Before(s, a, b) => Waits(s, a) /\ Waits(s, b)
         /\ Len(s) <= 1 => ~Before(s, a, b)
<1>1. PICK n \in Nat : n = Len(s) /\ DOMAIN s = 1..n
  BY LenProperties
<1>2. ASSUME Before(s, a, b)
      PROVE  Waits(s, a) /\ Waits(s, b) /\ ~(n <= 1)
  <2>1. PICK i \in 1..n, j \in Int : j \in (i+1)..n /\ s[i] = Item("new", a) /\ s[j] = Item("new", b)
    BY <1>1, <1>2 DEF Before
  <2>2. j \in 1..n /\ ~(n <= 1)
    BY <1>1, <2>1
  <2> QED BY <1>1, <2>1, <2>2 DEF Waits, ToSet
<1> QED BY <1>1, <1>2

\* Nobody waits in an empty line.
LEMMA BeforeEmpty == \A a, b : ~Before(<<>>, a, b) /\ ~Waits(<<>>, a)
BY EmptyHasNone DEF Before, Waits

\* An appended entry comes after all the others.
LEMMA BeforeAppend ==
  ASSUME NEW T, NEW s \in Seq(T), NEW x \in T, NEW a, NEW b
  PROVE  /\ Before(Append(s, x), a, b) <=> Before(s, a, b) \/ (Waits(s, a) /\ x = Item("new", b))
         /\ Waits(Append(s, x), a) <=> Waits(s, a) \/ x = Item("new", a)
<1> DEFINE h == <<x>>
<1>1. h \in Seq(T) /\ Len(h) = 1
  OBVIOUS
<1>2. ToSet(h) = {x}
  BY DEF ToSet
<1>3. Append(s, x) = s \o h
  BY AppendIsConcat
<1> HIDE DEF h
<1>4. ~Before(h, a, b)
  <2>1. Len(h) <= 1
    BY <1>1
  <2> QED BY <1>1, <2>1, BeforeWaits
<1>5. \A y : Waits(h, y) <=> x = Item("new", y)
  BY <1>2 DEF Waits
<1> QED BY <1>1, <1>3, <1>4, <1>5, BeforeConcat, WaitsConcat

\* A list is its head and the rest.
LEMMA HeadTailConcat ==
  ASSUME NEW T, NEW s \in Seq(T), s # <<>>
  PROVE  s = <<Head(s)>> \o Tail(s)
<1>1. Len(s) \in Nat /\ 1 \in 1..Len(s) /\ Len(s) \in 1..Len(s)
  BY EmptySeq
<1>2. SubSeq(s, 1, Len(s)) = <<s[1]>> \o SubSeq(s, 1 + 1, Len(s))
  BY <1>1, SubSeqRecursiveFirst
<1>3. Head(s) = s[1] /\ 1 + 1 = 2
  OBVIOUS
<1> QED BY <1>2, <1>3, SubSeqFull, TailIsSubSeq

\* Taking the head changes nothing for the others.
LEMMA BeforeTail ==
  ASSUME NEW T, NEW s \in Seq(T), s # <<>>, NEW a, NEW b
  PROVE  /\ Before(s, a, b) <=> \/ Head(s) = Item("new", a) /\ Waits(Tail(s), b)
                                \/ Before(Tail(s), a, b)
         /\ Waits(s, a) <=> Head(s) = Item("new", a) \/ Waits(Tail(s), a)
<1> DEFINE h == <<Head(s)>>
<1>0. Head(s) \in T /\ Tail(s) \in Seq(T)
  BY HeadTailProperties
<1>1. h \in Seq(T) /\ Len(h) = 1
  BY <1>0
<1>2. ToSet(h) = {Head(s)}
  BY DEF ToSet
<1>3. s = h \o Tail(s)
  BY HeadTailConcat
<1> HIDE DEF h
<1>4. ~Before(h, a, b)
  <2>1. Len(h) <= 1
    BY <1>1
  <2> QED BY <1>1, <2>1, BeforeWaits
<1>5. \A y : Waits(h, y) <=> Head(s) = Item("new", y)
  BY <1>2 DEF Waits
<1>6. /\ Before(h \o Tail(s), a, b) <=> \/ Before(h, a, b)
                                        \/ Waits(h, a) /\ Waits(Tail(s), b)
                                        \/ Before(Tail(s), a, b)
      /\ Waits(h \o Tail(s), a) <=> Waits(h, a) \/ Waits(Tail(s), a)
  BY <1>0, <1>1, BeforeConcat, WaitsConcat
<1> QED BY <1>3, <1>4, <1>5, <1>6

\* a is before b in a list of requests.
Ahead(s, a, b) == Before(AsNew(s), a, b)

\* A list of requests as queue items.
LEMMA AsNewType ==
  ASSUME NEW s \in Seq(Req)
  PROVE  /\ AsNew(s) \in Seq(Items) /\ Len(AsNew(s)) = Len(s)
         /\ \A i \in 1..Len(s) : AsNew(s)[i] = Item("new", s[i])
         /\ \A a \in Req : Waits(AsNew(s), a) <=> a \in ToSet(s)
<1>1. PICK n \in Nat : n = Len(s) /\ DOMAIN s = 1..n /\ \A i \in 1..n : s[i] \in Req
  BY LenProperties, ElementOfSeq
<1>2. PICK f : f = AsNew(s)
  OBVIOUS
<1>3. DOMAIN f = 1..n /\ \A i \in 1..n : f[i] = Item("new", s[i])
  BY <1>1, <1>2 DEF AsNew
<1>4. \A i \in 1..n : Item("new", s[i]) \in Items
  BY <1>1, ItemType DEF Items
<1>5. f \in [1..n -> Items]
  BY <1>2, <1>1, <1>4 DEF AsNew
<1>6. f \in Seq(Items)
  BY <1>5, FunctionIsSeq
<1>7. Len(f) = n
  BY <1>1, <1>3, <1>6, LenProperties
<1>8. \A a \in Req : Waits(f, a) <=> a \in ToSet(s)
  <2> SUFFICES ASSUME NEW a \in Req PROVE Waits(f, a) <=> a \in ToSet(s)
    OBVIOUS
  <2>1. \A i \in 1..n : f[i] = Item("new", a) <=> s[i] = a
    BY <1>3 DEF Item
  <2> QED BY <1>1, <1>3, <2>1 DEF Waits, ToSet
<1> QED BY <1>1, <1>2, <1>3, <1>6, <1>7, <1>8

\* Before, for lists of requests: concatenation ...
LEMMA AheadConcat ==
  ASSUME NEW s \in Seq(Req), NEW t \in Seq(Req), NEW a \in Req, NEW b \in Req
  PROVE  Ahead(s \o t, a, b) <=> \/ Ahead(s, a, b)
                                 \/ a \in ToSet(s) /\ b \in ToSet(t)
                                 \/ Ahead(t, a, b)
<1>1. PICK u \in Seq(Req) : u = s \o t
  BY ConcatProperties
<1>2. PICK n \in Nat, k \in Nat : n = Len(s) /\ k = Len(t)
  BY LenProperties
<1>3. Len(u) = n + k /\ \A i \in 1..(n+k) : u[i] = IF i <= n THEN s[i] ELSE t[i - n]
  BY <1>1, <1>2, ConcatProperties
<1>4. PICK f \in Seq(Items), g \in Seq(Items), h \in Seq(Items) :
        f = AsNew(s) /\ g = AsNew(t) /\ h = AsNew(u)
  BY AsNewType
<1>5. PICK c \in Seq(Items) : c = f \o g
  BY ConcatProperties
<1>6. /\ Len(f) = n /\ Len(g) = k /\ Len(h) = n + k
      /\ \A i \in 1..n : f[i] = Item("new", s[i])
      /\ \A i \in 1..k : g[i] = Item("new", t[i])
      /\ \A i \in 1..(n+k) : h[i] = Item("new", u[i])
  BY <1>2, <1>3, <1>4, AsNewType
<1>7. Len(c) = n + k /\ \A i \in 1..(n+k) : c[i] = IF i <= n THEN f[i] ELSE g[i - n]
  BY <1>5, <1>6, ConcatProperties
<1>8. ASSUME NEW i \in 1..(n+k)
      PROVE  h[i] = c[i]
  <2>1. CASE i <= n
    <3>1. i \in 1..n
      BY <2>1
    <3> QED BY <1>3, <1>6, <1>7, <2>1, <3>1
  <2>2. CASE ~(i <= n)
    <3>1. PICK j \in 1..k : j = i - n
      BY <2>2
    <3>2. c[i] = Item("new", t[j])
      BY <1>6, <1>7, <2>2, <3>1
    <3>3. h[i] = Item("new", t[j])
      BY <1>3, <1>6, <2>2, <3>1
    <3> QED BY <3>2, <3>3
  <2> QED BY <2>1, <2>2
<1>9. h = c
  BY <1>6, <1>7, <1>8, SeqEqual
<1>10. Before(f \o g, a, b) <=> Before(f, a, b) \/ (Waits(f, a) /\ Waits(g, b)) \/ Before(g, a, b)
  BY BeforeConcat
<1>11. (Waits(f, a) <=> a \in ToSet(s)) /\ (Waits(g, b) <=> b \in ToSet(t))
  BY <1>4, AsNewType
<1> QED BY <1>1, <1>4, <1>5, <1>9, <1>10, <1>11 DEF Ahead

\* ... membership ...
LEMMA AheadWaits ==
  ASSUME NEW s \in Seq(Req), NEW a \in Req, NEW b \in Req
  PROVE  /\ Ahead(s, a, b) => a \in ToSet(s) /\ b \in ToSet(s)
         /\ Len(s) <= 1 => ~Ahead(s, a, b)
<1>1. PICK f \in Seq(Items) : f = AsNew(s)
  BY AsNewType
<1>2. Len(f) = Len(s) /\ \A x \in Req : Waits(f, x) <=> x \in ToSet(s)
  BY <1>1, AsNewType
<1>3. (Before(f, a, b) => Waits(f, a) /\ Waits(f, b)) /\ (Len(f) <= 1 => ~Before(f, a, b))
  BY BeforeWaits
<1> QED BY <1>1, <1>2, <1>3 DEF Ahead

\* ... a single entry ...
LEMMA ReqList ==
  ASSUME NEW r \in Req
  PROVE  \E h \in Seq(Req) : h = <<r>> /\ ToSet(h) = {r}
                             /\ \A a \in Req, b \in Req : ~Ahead(h, a, b)
<1>0. <<r>> \in Seq(Req)
  OBVIOUS
<1>1. PICK h \in Seq(Req) : h = <<r>>
  BY <1>0
<1>2. ToSet(h) = {r} /\ Len(h) = 1
  BY <1>1 DEF ToSet
<1>3. Len(h) <= 1
  BY <1>2
<1> QED BY <1>1, <1>2, <1>3, AheadWaits

\* ... appending ...
LEMMA AheadAppend ==
  ASSUME NEW s \in Seq(Req), NEW r \in Req, NEW a \in Req, NEW b \in Req
  PROVE  Ahead(Append(s, r), a, b) <=> Ahead(s, a, b) \/ (a \in ToSet(s) /\ b = r)
<1>1. PICK h \in Seq(Req) : h = <<r>> /\ ToSet(h) = {r}
                             /\ \A x \in Req, y \in Req : ~Ahead(h, x, y)
  BY ReqList
<1>2. Append(s, r) = s \o h
  BY <1>1, AppendIsConcat
<1>3. Ahead(s \o h, a, b) <=> Ahead(s, a, b) \/ (a \in ToSet(s) /\ b \in ToSet(h)) \/ Ahead(h, a, b)
  BY AheadConcat
<1> QED BY <1>1, <1>2, <1>3

\* ... taking the head ...
LEMMA AheadTail ==
  ASSUME NEW s \in Seq(Req), s # <<>>, NEW a \in Req, NEW b \in Req
  PROVE  Ahead(s, a, b) <=> (a = Head(s) /\ b \in ToSet(Tail(s))) \/ Ahead(Tail(s), a, b)
<1>0. PICK r \in Req, t \in Seq(Req) : r = Head(s) /\ t = Tail(s)
  BY HeadTailProperties
<1>1. PICK h \in Seq(Req) : h = <<r>> /\ ToSet(h) = {r}
                             /\ \A x \in Req, y \in Req : ~Ahead(h, x, y)
  BY ReqList
<1>2. s = h \o t
  BY <1>0, <1>1, HeadTailConcat
<1>3. Ahead(h \o t, a, b) <=> Ahead(h, a, b) \/ (a \in ToSet(h) /\ b \in ToSet(t)) \/ Ahead(t, a, b)
  BY AheadConcat
<1> QED BY <1>0, <1>1, <1>2, <1>3

\* ... taking one out.
LEMMA AheadWithout ==
  ASSUME NEW s \in Seq(Req), NEW r \in Req, NEW a \in Req, NEW b \in Req,
         a # r, b # r, Ahead(s, a, b)
  PROVE  Ahead(Without(s, r), a, b)
<1>1. CASE r \notin ToSet(s)
  BY <1>1 DEF Without
<1>2. CASE r \in ToSet(s)
  <2>1. PICK u \in Seq(Req), h \in Seq(Req), v \in Seq(Req) : Cut(s, r, u, h, v)
    BY <1>2, WithoutSplit
  <2>2. h = <<r>> /\ s = u \o (h \o v) /\ Without(s, r) = u \o v
    BY <2>1 DEF Cut
  <2>3. ToSet(h) = {r} /\ ~Ahead(h, a, b)
    <3>1. PICK g \in Seq(Req) : g = <<r>> /\ ToSet(g) = {r}
                               /\ \A x \in Req, y \in Req : ~Ahead(g, x, y)
      BY ReqList
    <3>2. g = h
      BY <2>2, <3>1
    <3> QED BY <3>1, <3>2
  <2>4. PICK w \in Seq(Req) : w = h \o v
    BY ConcatProperties
  <2>5. Ahead(u \o w, a, b) <=> Ahead(u, a, b) \/ (a \in ToSet(u) /\ b \in ToSet(w)) \/ Ahead(w, a, b)
    BY AheadConcat
  <2>6. Ahead(h \o v, a, b) <=> Ahead(h, a, b) \/ (a \in ToSet(h) /\ b \in ToSet(v)) \/ Ahead(v, a, b)
    BY AheadConcat
  <2>7. Ahead(u \o v, a, b) <=> Ahead(u, a, b) \/ (a \in ToSet(u) /\ b \in ToSet(v)) \/ Ahead(v, a, b)
    BY AheadConcat
  <2>8. ToSet(w) = ToSet(h) \cup ToSet(v)
    BY <2>4, ConcatElements
  <2> QED BY <2>2, <2>3, <2>4, <2>5, <2>6, <2>7, <2>8
<1> QED BY <1>1, <1>2

\* The whole line, list by list.
LEMMA LineWrittenOut ==
  TypeOK => \A a \in Req, b \in Req :
    /\ Waits(Line, a) <=> \/ a \in ToSet(restoreJobs) \/ a \in ToSet(pending)
                          \/ Waits(work, a) \/ Waits(requests, a)
    /\ Before(Line, a, b) <=>
         \/ Ahead(restoreJobs, a, b) \/ Ahead(pending, a, b)
         \/ Before(work, a, b) \/ Before(requests, a, b)
         \/ /\ a \in ToSet(restoreJobs)
            /\ b \in ToSet(pending) \/ Waits(work, b) \/ Waits(requests, b)
         \/ a \in ToSet(pending) /\ (Waits(work, b) \/ Waits(requests, b))
         \/ Waits(work, a) /\ Waits(requests, b)
<1> SUFFICES ASSUME TypeOK, NEW a \in Req, NEW b \in Req
             PROVE  /\ Waits(Line, a) <=> \/ a \in ToSet(restoreJobs) \/ a \in ToSet(pending)
                                          \/ Waits(work, a) \/ Waits(requests, a)
                    /\ Before(Line, a, b) <=>
                         \/ Ahead(restoreJobs, a, b) \/ Ahead(pending, a, b)
                         \/ Before(work, a, b) \/ Before(requests, a, b)
                         \/ /\ a \in ToSet(restoreJobs)
                            /\ b \in ToSet(pending) \/ Waits(work, b) \/ Waits(requests, b)
                         \/ a \in ToSet(pending) /\ (Waits(work, b) \/ Waits(requests, b))
                         \/ Waits(work, a) /\ Waits(requests, b)
  OBVIOUS
<1>1. PICK j \in Seq(Items), p \in Seq(Items), w \in Seq(Items), q \in Seq(Items) :
        j = AsNew(restoreJobs) /\ p = AsNew(pending) /\ w = work /\ q = requests
  <2>1. AsNew(restoreJobs) \in Seq(Items) /\ AsNew(pending) \in Seq(Items)
    BY AsNewType DEF TypeOK
  <2>2. work \in Seq(Items) /\ requests \in Seq(Items)
    <3>1. work \in Seq(Items) /\ requests \in Seq(QueueItem)
      BY DEF TypeOK, Items
    <3> QED BY <3>1 DEF Items
  <2> QED BY <2>1, <2>2
<1>2. \A x \in Req : (Waits(j, x) <=> x \in ToSet(restoreJobs)) /\ (Waits(p, x) <=> x \in ToSet(pending))
  BY <1>1, AsNewType DEF TypeOK
<1>3. PICK s \in Seq(Items), t \in Seq(Items) : s = j \o p /\ t = s \o w
  BY ConcatProperties
<1>4. Line = t \o q
  BY <1>1, <1>3 DEF Line
<1>5. \A x \in Req : /\ Waits(j \o p, x) <=> Waits(j, x) \/ Waits(p, x)
                     /\ Waits(s \o w, x) <=> Waits(s, x) \/ Waits(w, x)
                     /\ Waits(t \o q, x) <=> Waits(t, x) \/ Waits(q, x)
  BY WaitsConcat
<1>6. /\ Before(j \o p, a, b) <=> Before(j, a, b) \/ (Waits(j, a) /\ Waits(p, b)) \/ Before(p, a, b)
      /\ Before(s \o w, a, b) <=> Before(s, a, b) \/ (Waits(s, a) /\ Waits(w, b)) \/ Before(w, a, b)
      /\ Before(t \o q, a, b) <=> Before(t, a, b) \/ (Waits(t, a) /\ Waits(q, b)) \/ Before(q, a, b)
  BY BeforeConcat
<1>7. /\ Ahead(restoreJobs, a, b) <=> Before(j, a, b)
      /\ Ahead(pending, a, b) <=> Before(p, a, b)
  BY <1>1 DEF Ahead
<1> QED BY <1>1, <1>2, <1>3, <1>4, <1>5, <1>6, <1>7

\* The same after a step.
LEMMA LineWrittenOutNext ==
  TypeOK' => \A a \in Req, b \in Req :
    /\ Waits(Line', a) <=> \/ a \in ToSet(restoreJobs') \/ a \in ToSet(pending')
                           \/ Waits(work', a) \/ Waits(requests', a)
    /\ Before(Line', a, b) <=>
         \/ Ahead(restoreJobs', a, b) \/ Ahead(pending', a, b)
         \/ Before(work', a, b) \/ Before(requests', a, b)
         \/ /\ a \in ToSet(restoreJobs')
            /\ b \in ToSet(pending') \/ Waits(work', b) \/ Waits(requests', b)
         \/ a \in ToSet(pending') /\ (Waits(work', b) \/ Waits(requests', b))
         \/ Waits(work', a) /\ Waits(requests', b)
<1>1. (TypeOK => \A a \in Req, b \in Req :
         /\ Waits(Line, a) <=> \/ a \in ToSet(restoreJobs) \/ a \in ToSet(pending)
                               \/ Waits(work, a) \/ Waits(requests, a)
         /\ Before(Line, a, b) <=>
              \/ Ahead(restoreJobs, a, b) \/ Ahead(pending, a, b)
              \/ Before(work, a, b) \/ Before(requests, a, b)
              \/ /\ a \in ToSet(restoreJobs)
                 /\ b \in ToSet(pending) \/ Waits(work, b) \/ Waits(requests, b)
              \/ a \in ToSet(pending) /\ (Waits(work, b) \/ Waits(requests, b))
              \/ Waits(work, a) /\ Waits(requests, b))'
  BY LineWrittenOut, PTL
<1> QED BY <1>1

\* A request is in one of the four lists at most.
LEMMA WaitsOnce ==
  ASSUME TypeOK, Rest, NEW a \in Req
  PROVE  /\ a \in ToSet(restoreJobs) =>
              a \notin ToSet(pending) /\ ~Waits(work, a) /\ ~Waits(requests, a)
         /\ a \in ToSet(pending) => ~Waits(work, a) /\ ~Waits(requests, a)
         /\ Waits(work, a) => ~Waits(requests, a)
<1>1. PICK j \in Nat, p \in Nat, w \in Nat, q \in Nat :
        /\ j = In(restoreJobs, a) /\ p = In(pending, a)
        /\ w = New(work, a) /\ q = New(requests, a)
  BY CountTypes
<1>2. j + p + w + q <= 1
  BY <1>1 DEF Rest, OneRequest, LinedUp
<1>3. (j = 0 <=> a \notin ToSet(restoreJobs)) /\ (p = 0 <=> a \notin ToSet(pending))
  BY <1>1, InCounts DEF TypeOK
<1>4. (w = 0 <=> ~Waits(work, a)) /\ (q = 0 <=> ~Waits(requests, a))
  <2>1. work \in Seq(Items)
    BY DEF TypeOK, Items
  <2>2. requests \in Seq(Items)
    BY DEF TypeOK, Items
  <2> QED BY <1>1, <2>1, <2>2, ItemsCounted DEF Waits
<1>5. (j = 0 \/ (p = 0 /\ w = 0 /\ q = 0)) /\ (p = 0 \/ (w = 0 /\ q = 0)) /\ (w = 0 \/ q = 0)
  BY <1>2
<1> QED BY <1>3, <1>4, <1>5

\* A request that is taken out of pending is not there any more.
LEMMA TakenOut ==
  ASSUME TypeOK, Rest, NEW r \in Req, r \in ToSet(pending)
  PROVE  r \notin ToSet(Without(pending, r))
<1>1. pending \in Seq(Req) /\ Without(pending, r) \in Seq(Req)
  BY WithoutType DEF TypeOK
<1>2. PICK k \in Nat : k = In(Without(pending, r), r)
  BY <1>1, Numbers
<1>3. In(pending, r) = k + 1
  BY <1>1, <1>2, InCounts
<1>4. PICK j \in Nat, w \in Nat, q \in Nat :
        j = In(restoreJobs, r) /\ w = New(work, r) /\ q = New(requests, r)
  BY CountTypes
<1>5. j + (k + 1) + w + q <= 1
  BY <1>3, <1>4 DEF Rest, OneRequest, LinedUp
<1>6. k = 0
  BY <1>5
<1> QED BY <1>1, <1>2, <1>6, InCounts

\* The step does not take b past a.
NotOvertaken(a, b) == ~Waits(Line', a) \/ Answered(b)' \/ Before(Line', a, b)

\* Nothing that waits is moved.
LEMMA SameLine ==
  ASSUME TypeOK, TypeOK', NEW a \in Req, NEW b \in Req, Before(Line, a, b),
         UNCHANGED <<restoreJobs, pending, requests>>,
         UNCHANGED work \/ \A x \in Req : ~Waits(work, x) /\ ~Waits(work', x)
  PROVE  NotOvertaken(a, b)
<1>1. CASE UNCHANGED work
  BY <1>1 DEF Line, NotOvertaken
<1>2. CASE \A x \in Req : ~Waits(work, x) /\ ~Waits(work', x)
  <2>1. ~Before(work, a, b)
    BY <1>2, BeforeWaits DEF TypeOK
  <2> QED BY <1>2, <2>1, LineWrittenOut, LineWrittenOutNext DEF NotOvertaken
<1> QED BY <1>1, <1>2

\* Something is put at the end of the queue.
LEMMA PutLast ==
  ASSUME TypeOK, TypeOK', NEW a \in Req, NEW b \in Req, Before(Line, a, b),
         NEW r \in Req, NEW kind \in {"new", "cancel", "prepared", "failed"}, Put(Item(kind, r)),
         UNCHANGED <<restoreJobs, pending, work>>
  PROVE  NotOvertaken(a, b)
<1>1. Item(kind, r) \in QueueItem /\ requests \in Seq(QueueItem)
  BY ItemType DEF TypeOK
<1>2. /\ Before(requests, a, b) => Before(requests', a, b)
      /\ Waits(requests, b) => Waits(requests', b)
  BY <1>1, BeforeAppend DEF Put
<1> QED BY <1>2, LineWrittenOut, LineWrittenOutNext DEF NotOvertaken

\* The drained queue is still in line.
LEMMA DrainKeepsLine ==
  ASSUME TypeOK, TypeOK', Rest, NEW a \in Req, NEW b \in Req, Before(Line, a, b), StartDrain
  PROVE  NotOvertaken(a, b)
<1>1. work = <<>> /\ work' = requests /\ requests' = <<>> /\ UNCHANGED <<restoreJobs, pending>>
  BY DEF StartDrain, Rest, WorkFits
<1> QED BY <1>1, BeforeEmpty, LineWrittenOut, LineWrittenOutNext DEF NotOvertaken

\* A new request goes from the work to the end of pending.
LEMMA NewKeepsLine ==
  ASSUME TypeOK, TypeOK', NEW a \in Req, NEW b \in Req, Before(Line, a, b),
         NEW r \in Req, HandleNew(r)
  PROVE  NotOvertaken(a, b)
<1>1. /\ work # <<>> /\ Head(work) = Item("new", r) /\ work' = Tail(work)
      /\ pending' = Append(pending, r) /\ UNCHANGED <<restoreJobs, requests>>
  BY DEF HandleNew, NextItem
<1>2. \A x \in Req : Item("new", r) = Item("new", x) <=> r = x
  BY DEF Item
<1>3. /\ Before(work, a, b) <=> (r = a /\ Waits(work', b)) \/ Before(work', a, b)
      /\ \A x \in Req : Waits(work, x) <=> r = x \/ Waits(work', x)
  BY <1>1, <1>2, BeforeTail DEF TypeOK
<1>4. /\ Ahead(pending', a, b) <=> Ahead(pending, a, b) \/ (a \in ToSet(pending) /\ b = r)
      /\ \A x \in Req : x \in ToSet(pending') <=> x \in ToSet(pending) \/ x = r
  <2>1. ToSet(Append(pending, r)) = ToSet(pending) \cup {r}
    BY ToSetChanges DEF TypeOK
  <2>2. Ahead(Append(pending, r), a, b) <=> Ahead(pending, a, b) \/ (a \in ToSet(pending) /\ b = r)
    BY AheadAppend DEF TypeOK
  <2> QED BY <1>1, <2>1, <2>2
<1> QED BY <1>1, <1>3, <1>4, LineWrittenOut, LineWrittenOutNext DEF NotOvertaken

\* An item that is no new request is handled; whoever leaves pending is answered.
LEMMA HandledKeepsLine ==
  ASSUME TypeOK, TypeOK', Rest, Rest', NEW a \in Req, NEW b \in Req, Before(Line, a, b),
         NEW r \in Req,
         \/ HandleCancel(r) \/ HandleLateRestore(r)
         \/ HandleFailedRestore(r) \/ HandlePrepared(r)
  PROVE  NotOvertaken(a, b)
<1>1. /\ work # <<>> /\ work' = Tail(work) /\ \A x \in Req : Head(work) # Item("new", x)
      /\ UNCHANGED <<restoreJobs, requests>> /\ Alive'
  BY DEF HandleCancel, HandleLateRestore, HandleFailedRestore, HandlePrepared, NextItem, Item, Alive
<1>2. /\ Before(work, a, b) <=> Before(work', a, b)
      /\ \A x \in Req : Waits(work, x) <=> Waits(work', x)
  BY <1>1, BeforeTail DEF TypeOK
<1>3. CASE UNCHANGED pending
  BY <1>1, <1>2, <1>3, LineWrittenOut, LineWrittenOutNext DEF NotOvertaken
<1>4. CASE CancelPending(r)
  <2>1. pending' = Without(pending, r) /\ Answered(r)'
    BY <1>4, CancelledSent DEF CancelPending
  <2>2. a # r \/ ~Waits(Line', a)
    <3>1. r \in ToSet(pending) /\ r \notin ToSet(restoreJobs) /\ ~Waits(work, r) /\ ~Waits(requests, r)
      <4>1. r \in ToSet(pending)
        BY <1>4 DEF CancelPending
      <4> QED BY <4>1, WaitsOnce
    <3>2. r \notin ToSet(pending')
      BY <2>1, <3>1, TakenOut
    <3> QED BY <1>1, <1>2, <3>1, <3>2, LineWrittenOutNext
  <2>3. CASE a # r /\ b # r
    <3>1. Ahead(pending, a, b) => Ahead(pending', a, b)
      BY <2>1, <2>3, AheadWithout DEF TypeOK
    <3>2. \A x \in Req : x # r => (x \in ToSet(pending) <=> x \in ToSet(pending'))
      BY <2>1, WithoutOne DEF TypeOK
    <3> QED BY <1>1, <1>2, <2>3, <3>1, <3>2, LineWrittenOut, LineWrittenOutNext DEF NotOvertaken
  <2> QED BY <2>1, <2>2, <2>3 DEF NotOvertaken
<1> QED BY <1>3, <1>4 DEF HandleCancel, CancelRequest, CancelReady, CancelRestoring, CancelActive,
          CancelUnknown, HandleLateRestore, HandleFailedRestore, HandlePrepared

\* The head of pending goes to the end of the restore jobs.
LEMMA AdmitKeepsLine ==
  ASSUME TypeOK, TypeOK', Rest, NEW a \in Req, NEW b \in Req, Before(Line, a, b), AdmitPending
  PROVE  NotOvertaken(a, b)
<1>1. work = <<>> /\ work' = <<>> /\ UNCHANGED requests
  BY DEF AdmitPending, Rest, WorkFits
<1>2. PICK admitted \in Seq(Req), kept \in Seq(Req) :
        /\ restoreJobs' = restoreJobs \o admitted
        /\ kept = pending'
        /\ pending = admitted \o kept
  BY Admits
<1>3. /\ Ahead(admitted \o kept, a, b) <=>
           \/ Ahead(admitted, a, b) \/ (a \in ToSet(admitted) /\ b \in ToSet(kept)) \/ Ahead(kept, a, b)
      /\ Ahead(restoreJobs \o admitted, a, b) <=>
           \/ Ahead(restoreJobs, a, b) \/ (a \in ToSet(restoreJobs) /\ b \in ToSet(admitted))
           \/ Ahead(admitted, a, b)
  BY AheadConcat DEF TypeOK
<1>4. /\ ToSet(admitted \o kept) = ToSet(admitted) \cup ToSet(kept)
      /\ ToSet(restoreJobs \o admitted) = ToSet(restoreJobs) \cup ToSet(admitted)
  <2>1. ToSet(admitted \o kept) = ToSet(admitted) \cup ToSet(kept)
    BY ConcatElements
  <2>2. restoreJobs \in Seq(Req)
    BY DEF TypeOK
  <2>3. ToSet(restoreJobs \o admitted) = ToSet(restoreJobs) \cup ToSet(admitted)
    BY <2>2, ConcatElements
  <2> QED BY <2>1, <2>3
<1>5. ~Waits(work, b) /\ ~Before(work, a, b) /\ ~Waits(work, a)
  BY <1>1, BeforeEmpty
<1> QED BY <1>1, <1>2, <1>3, <1>4, <1>5, LineWrittenOut, LineWrittenOutNext DEF NotOvertaken

\* The first of the line goes to be restored.
LEMMA RestoreKeepsLine ==
  ASSUME TypeOK, TypeOK', Rest, NEW a \in Req, NEW b \in Req, Before(Line, a, b),
         NEW r \in Req, IoRestore(r) \/ IoFailRestore(r)
  PROVE  NotOvertaken(a, b)
<1>1. /\ restoreJobs # <<>> /\ Head(restoreJobs) = r /\ restoreJobs' = Tail(restoreJobs)
      /\ UNCHANGED <<pending, work>>
  BY DEF IoRestore, IoFailRestore, NextRestore, IoUnchanged
<1>2. /\ Before(requests, a, b) => Before(requests', a, b)
      /\ Waits(requests, b) => Waits(requests', b)
      /\ Waits(requests', a) => Waits(requests, a)
  <2>1. CASE UNCHANGED requests
    BY <2>1
  <2>2. CASE Put(Item("failed", r))
    <3>1. Item("failed", r) \in QueueItem /\ requests \in Seq(QueueItem)
      BY ItemType DEF TypeOK
    <3>2. \A x \in Req : Item("failed", r) # Item("new", x)
      BY DEF Item
    <3>3. /\ Before(Append(requests, Item("failed", r)), a, b) <=>
               Before(requests, a, b) \/ (Waits(requests, a) /\ Item("failed", r) = Item("new", b))
          /\ \A x : Waits(Append(requests, Item("failed", r)), x) <=>
               Waits(requests, x) \/ Item("failed", r) = Item("new", x)
      BY <3>1, BeforeAppend
    <3> QED BY <2>2, <3>2, <3>3 DEF Put
  <2> QED BY <2>1, <2>2 DEF IoRestore, IoFailRestore
<1>3. Ahead(restoreJobs, a, b) <=> (a = r /\ b \in ToSet(restoreJobs')) \/ Ahead(restoreJobs', a, b)
  BY <1>1, AheadTail DEF TypeOK
<1>4. ToSet(restoreJobs) = {r} \cup ToSet(restoreJobs')
  BY <1>1, ToSetChanges DEF TypeOK
<1>5. CASE a = r
  <2>1. a \in ToSet(restoreJobs)
    BY <1>4, <1>5
  <2>2. a \notin ToSet(pending) /\ ~Waits(work, a) /\ ~Waits(requests, a)
    BY <2>1, WaitsOnce
  <2>3. a \notin ToSet(restoreJobs')
    <3>1. PICK k \in Nat, p \in Nat, w \in Nat, q \in Nat :
            /\ k = In(restoreJobs', a) /\ p = In(pending, a)
            /\ w = New(work, a) /\ q = New(requests, a)
      <4>1. In(restoreJobs', a) \in Nat
        BY Numbers DEF TypeOK
      <4> QED BY <4>1, CountTypes
    <3>2. In(restoreJobs, a) = k + 1
      BY <1>1, <1>5, <3>1, InCounts DEF TypeOK
    <3>3. (k + 1) + p + w + q <= 1
      BY <3>1, <3>2 DEF Rest, OneRequest, LinedUp
    <3>4. k = 0
      BY <3>3
    <3> QED BY <3>1, <3>4, InCounts DEF TypeOK
  <2> QED BY <1>1, <1>2, <2>2, <2>3, LineWrittenOutNext DEF NotOvertaken
<1>6. CASE a # r
  BY <1>1, <1>2, <1>3, <1>4, <1>6, LineWrittenOut, LineWrittenOutNext DEF NotOvertaken
<1> QED BY <1>5, <1>6

\* close() drops the restores that did not start.
LEMMA IoEndKeepsLine ==
  ASSUME TypeOK, TypeOK', Rest, NEW a \in Req, NEW b \in Req, Before(Line, a, b), IoEnd
  PROVE  NotOvertaken(a, b)
<1>1. restoreJobs' = <<>> /\ UNCHANGED <<pending, work, requests>>
  BY DEF IoEnd, IoUnchanged
<1>2. ToSet(restoreJobs') = {} /\ (Ahead(restoreJobs, a, b) => a \in ToSet(restoreJobs))
  BY <1>1, EmptyHasNone, AheadWaits DEF TypeOK
<1> QED BY <1>1, <1>2, WaitsOnce, LineWrittenOut, LineWrittenOutNext DEF NotOvertaken

\* The thread is gone: whoever was pending is not any more, and is answered.
LEMMA GoneKeepsLine ==
  ASSUME TypeOK, TypeOK', Rest, NEW a \in Req, NEW b \in Req, Before(Line, a, b),
         pending' = <<>>, UNCHANGED <<restoreJobs, work>>, requests' \in {requests, <<>>},
         b \in ToSet(pending) => Answered(b)',
         Waits(requests, b) => Answered(b)' \/ UNCHANGED requests
  PROVE  NotOvertaken(a, b)
<1>1. ToSet(pending') = {} /\ (Ahead(pending, a, b) => a \in ToSet(pending))
      /\ (Before(requests, a, b) => Waits(requests, a) /\ Waits(requests, b))
  BY EmptyHasNone, AheadWaits, BeforeWaits DEF TypeOK
<1>2. Waits(requests', a) => Waits(requests, a)
  BY BeforeEmpty
<1> QED BY <1>1, <1>2, WaitsOnce, LineWrittenOut, LineWrittenOutNext DEF NotOvertaken

\* Whoever shutdown takes out of the line is answered; the queue stays as it is.
LEMMA CancelAllKeepsLine ==
  ASSUME TypeOK, TypeOK', Rest, NEW a \in Req, NEW b \in Req, Before(Line, a, b), CancelAll
  PROVE  NotOvertaken(a, b)
<1>1. pending' = <<>> /\ UNCHANGED <<restoreJobs, work, requests>>
  BY DEF CancelAll, ThreadGone
<1>2. b \in ToSet(pending) => Answered(b)'
  <2>1. b \in ToSet(pending) => stream'[b] = Append(stream[b], "cancelled")
    BY DEF CancelAll, Tracked
  <2>2. "cancelled" \in ToSet(Append(stream[b], "cancelled"))
    <3>1. "cancelled" \in Message /\ stream[b] \in Seq(Message)
      BY DEF TypeOK, Message, Terminals
    <3> QED BY <3>1, ToSetChanges
  <2> QED BY <2>1, <2>2 DEF Answered, Terminals
<1> QED BY <1>1, <1>2, GoneKeepsLine

\* Whoever waits for a slot or in the queue gets an error of a fatal failure.
LEMMA WaitingGetsError ==
  ASSUME TypeOK, NEW r \in Req, r \in ToSet(pending) \/ Waits(requests, r)
  PROVE  ErrorCount(r) > 0
<1> DEFINE Q == {i \in DOMAIN requests : requests[i].id = r /\ requests[i].kind # "cancel"}
           P == {i \in DOMAIN pending : pending[i] = r}
           D == {i \in DOMAIN ready : ready[i] = r}
<1>1. /\ DOMAIN requests = 1..Len(requests) /\ Len(requests) \in Nat
      /\ DOMAIN pending = 1..Len(pending) /\ Len(pending) \in Nat
      /\ DOMAIN ready = 1..Len(ready) /\ Len(ready) \in Nat
  BY LenProperties DEF TypeOK
<1>2. \A n \in Nat : \A T \in SUBSET (1..n) :
        IsFiniteSet(T) /\ Cardinality(T) \in Nat /\ (Cardinality(T) = 0 <=> T = {})
  <2>1. \A n \in Nat : IsFiniteSet(1..n)
    BY FS_Interval
  <2> QED BY <2>1, FS_Subset, FS_CardinalityType, FS_EmptySet
<1>3. PICK q \in Nat, p \in Nat, d \in Nat :
        /\ q = Cardinality(Q) /\ p = Cardinality(P) /\ d = Cardinality(D)
        /\ (q = 0 <=> Q = {}) /\ (p = 0 <=> P = {})
  <2>1. Cardinality(Q) \in Nat /\ (Cardinality(Q) = 0 <=> Q = {})
    BY <1>1, <1>2
  <2>2. Cardinality(P) \in Nat /\ (Cardinality(P) = 0 <=> P = {})
    BY <1>1, <1>2
  <2>3. Cardinality(D) \in Nat
    BY <1>1, <1>2
  <2> QED BY <2>1, <2>2, <2>3
<1>4. ErrorCount(r) = q + p + d + (IF r \in active THEN 1 ELSE 0) + (IF r \in restoring THEN 1 ELSE 0)
  BY <1>3 DEF ErrorCount
<1>5. Q # {} \/ P # {}
  <2>1. r \in ToSet(pending) => P # {}
    BY DEF ToSet
  <2>2. Waits(requests, r) => Q # {}
    BY DEF Waits, ToSet, Item
  <2> QED BY <2>1, <2>2
<1> HIDE DEF Q, P, D
<1>6. q > 0 \/ p > 0
  BY <1>3, <1>5
<1> QED BY <1>3, <1>4, <1>6

\* A fatal error answers all who are taken out of the line, the queued ones too.
LEMMA FailAllKeepsLine ==
  ASSUME TypeOK, TypeOK', Rest, NEW a \in Req, NEW b \in Req, Before(Line, a, b), FailAll
  PROVE  NotOvertaken(a, b)
<1>1. pending' = <<>> /\ UNCHANGED <<restoreJobs, work>> /\ requests' = <<>>
  BY DEF FailAll, ThreadGone
<1>2. b \in ToSet(pending) \/ Waits(requests, b) => Answered(b)'
  <2> SUFFICES ASSUME b \in ToSet(pending) \/ Waits(requests, b) PROVE Answered(b)'
    OBVIOUS
  <2>1. PICK n \in Nat : n = ErrorCount(b) /\ n > 0
    BY ErrorCountType, WaitingGetsError
  <2>2. [i \in 1..n |-> "error"] \in [1..n -> Message]
    BY DEF Message, Terminals
  <2>3. PICK e \in Seq(Message) : e = [i \in 1..n |-> "error"]
    BY <2>2, FunctionIsSeq
  <2>4. "error" \in ToSet(e)
    <3>1. 1 \in DOMAIN e /\ e[1] = "error"
      BY <2>1, <2>3
    <3> QED BY <3>1 DEF ToSet
  <2>5. stream'[b] = stream[b] \o e /\ stream[b] \in Seq(Message)
    BY <2>1, <2>3 DEF FailAll, TypeOK
  <2>6. "error" \in ToSet(stream'[b])
    BY <2>4, <2>5, ConcatElements
  <2> QED BY <2>6 DEF Answered, Terminals
<1> QED BY <1>1, <1>2, GoneKeepsLine

\* While responses are handled or ready requests inserted, no new request is
\* in the thread's hands.
LEMMA NoNewAtWork ==
  ASSUME Rest, phase \in {"top", "admit", "step", "insert", "respond"}
  PROVE  \A x \in Req : ~Waits(work, x)
<1>1. CASE phase \in {"top", "admit", "step"}
  BY <1>1, BeforeEmpty DEF Rest, WorkFits
<1>2. CASE phase = "insert"
  BY <1>2 DEF Rest, WorkFits, Waits, Item
<1>3. CASE phase = "respond"
  <2>1. ToSet(work) \subseteq Response
    BY <1>3, ToSetSubset DEF Rest, WorkFits
  <2> QED BY <2>1 DEF Waits, Item, Response
<1> QED BY <1>1, <1>2, <1>3

\* The same after a step.
LEMMA NoNewAtWorkNext ==
  Rest' => (phase' \in {"top", "admit", "step", "insert", "respond"} =>
              \A x \in Req : ~Waits(work', x))
<1>1. (Rest => (phase \in {"top", "admit", "step", "insert", "respond"} =>
                  \A x \in Req : ~Waits(work, x)))'
  BY NoNewAtWork, PTL
<1> QED BY <1>1

\* Steps that leave all four lists alone.
LEMMA QuietKeepsLine ==
  ASSUME TypeOK, TypeOK', Rest, Rest', NEW a \in Req, NEW b \in Req, Before(Line, a, b),
         \/ StartInsert \/ EndInsert \/ StepNothing \/ CallNext \/ EndResponses \/ FatalError
         \/ \E r \in Req : \/ InsertReady(r) \/ RejectReady(r)
                           \/ RespondProgress(r) \/ RespondToken(r) \/ RespondLast(r)
  PROVE  NotOvertaken(a, b)
<1>1. UNCHANGED <<restoreJobs, pending, requests>>
  BY DEF StartInsert, EndInsert, StepNothing, CallNext, EndResponses, FatalError, InsertReady,
         RejectReady, NextReady, RespondProgress, RespondToken, RespondLast, NextResponse
<1>2. \/ UNCHANGED work
      \/ /\ phase \in {"top", "admit", "step", "insert", "respond"} \/ work = <<>>
         /\ phase' \in {"top", "admit", "step", "insert", "respond"}
  BY DEF StartInsert, EndInsert, StepNothing, CallNext, EndResponses, FatalError, InsertReady,
         RejectReady, NextReady, RespondProgress, RespondToken, RespondLast, NextResponse
<1>3. UNCHANGED work \/ \A x \in Req : ~Waits(work, x) /\ ~Waits(work', x)
  BY <1>2, NoNewAtWork, NoNewAtWorkNext, BeforeEmpty
<1> QED BY <1>1, <1>3, SameLine

\* No step lets anybody be overtaken.
LEMMA LineStep ==
  ASSUME LifeHolds, LifeHolds', [Next]_vars, NEW a \in Req, NEW b \in Req, Before(Line, a, b)
  PROVE  NotOvertaken(a, b)
<1>0. TypeOK /\ TypeOK' /\ Rest /\ Rest'
  BY DEF LifeHolds
<1>1. CASE \E r \in Req : \/ CallGenerate(r) \/ PutRequest(r) \/ StopGeneration(r)
                          \/ Leave(r) \/ EndStream(r)
  <2>1. UNCHANGED <<restoreJobs, pending, work>>
    BY <1>1 DEF CallGenerate, PutRequest, StopGeneration, Leave, EndStream, ClientUnchanged
  <2>2. \/ UNCHANGED requests
        \/ \E r \in Req : Put(Item("new", r)) \/ Put(Item("cancel", r))
    BY <1>1 DEF CallGenerate, PutRequest, StopGeneration, Leave, EndStream
  <2> QED BY <1>0, <2>1, <2>2, SameLine, PutLast
<1>2. CASE GenerationThread
  <2>1. CASE StartDrain \/ AdmitPending \/ CancelAll \/ FailAll
    BY <1>0, <2>1, DrainKeepsLine, AdmitKeepsLine, CancelAllKeepsLine, FailAllKeepsLine
  <2>2. CASE \/ StartInsert \/ EndInsert \/ StepNothing \/ CallNext \/ EndResponses \/ FatalError
             \/ \E r \in Req : \/ InsertReady(r) \/ RejectReady(r)
                               \/ RespondProgress(r) \/ RespondToken(r) \/ RespondLast(r)
    BY <1>0, <2>2, QuietKeepsLine
  <2>3. CASE \E r \in Req : HandleNew(r) \/ HandleCancel(r) \/ HandleLateRestore(r)
                            \/ HandleFailedRestore(r) \/ HandlePrepared(r)
    BY <1>0, <2>3, NewKeepsLine, HandledKeepsLine
  <2> QED BY <1>2, <2>1, <2>2, <2>3 DEF GenerationThread
<1>3. CASE IoThread
  <2>1. CASE \E r \in Req : IoRestore(r) \/ IoFailRestore(r)
    BY <1>0, <2>1, RestoreKeepsLine
  <2>2. CASE IoDeliver
    <3>1. PICK r \in Req : r = ioJob
      BY <1>0, <2>2 DEF IoDeliver, TypeOK
    <3>2. Put(Item("prepared", r)) /\ UNCHANGED <<restoreJobs, pending, work>>
      BY <2>2, <3>1 DEF IoDeliver, IoUnchanged
    <3> QED BY <1>0, <3>2, PutLast
  <2>3. CASE IoCommit
    <3>1. UNCHANGED <<restoreJobs, pending, work, requests>>
      BY <2>3 DEF IoCommit, IoUnchanged
    <3> QED BY <1>0, <3>1, SameLine
  <2>4. CASE IoEnd
    BY <1>0, <2>4, IoEndKeepsLine
  <2> QED BY <1>3, <2>1, <2>2, <2>3, <2>4 DEF IoThread
<1>4. CASE RequestShutdown \/ Closer \/ UNCHANGED vars
  <2>1. UNCHANGED <<restoreJobs, pending, work, requests>>
    BY <1>4 DEF RequestShutdown, Closer, CloseIoThread, CloseStore, CloserStep, vars
  <2> QED BY <1>0, <2>1, SameLine
<1> QED BY <1>1, <1>2, <1>3, <1>4 DEF Next

\* Requests are restored in the order they were queued: whatever is drained,
\* cancelled, admitted or failed, one that still waits is never overtaken
\* except by one that was answered.
THEOREM NobodyIsOvertaken == Spec => NoOvertaking
<1>1. LifeHolds /\ LifeHolds' /\ [Next]_vars =>
        [\A a, b \in Req :
           Before(Line, a, b) =>
             ~Waits(Line', a) \/ Answered(b)' \/ Before(Line', a, b)]_vars
  BY LineStep DEF NotOvertaken
<1>2. Spec => []LifeHolds
  BY RequestsStayAccounted DEF LifeHolds
<1> QED BY <1>1, <1>2, PTL DEF Spec, NoOvertaking
=============================================================================
