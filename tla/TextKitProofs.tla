------------------------------ MODULE TextKitProofs ------------------------------
(***************************************************************************)
(* Machine-checked theorems about TextKit, for every set of requests and   *)
(* every bound, with and without fatal errors, and about what a prompt's   *)
(* reporter is told (PromptProgress), for every prompt and every answer.   *)
(***************************************************************************)
EXTENDS TextKit, PromptProgress, SequenceTheorems, FiniteSetTheorems, TLAPS

USE DEF clientVars, batchVars

ResponseItem == [id : Req, message : {"progress", "token", "last"}]

-----------------------------------------------------------------------------
(* Type correctness.                                                       *)

\* What put() leaves on the queue is a list of items.
LEMMA PutType ==
  ASSUME TypeOK, NEW r \in Req, NEW kind \in {"new", "cancel"}, Put(Item(kind, r))
  PROVE  requests' \in Seq(QueueItem)
<1>1. Item(kind, r) \in QueueItem
  BY DEF Item, QueueItem
<1> QED BY <1>1, AppendProperties DEF TypeOK, Put

\* Callers keep the types ...
LEMMA ClientType ==
  ASSUME TypeOK, NEW r \in Req,
         CallGenerate(r) \/ PutRequest(r) \/ StopGeneration(r) \/ Leave(r) \/ EndStream(r)
  PROVE  TypeOK'
<1> USE DEF TypeOK, ClientUnchanged
<1>1. CASE CallGenerate(r)
  BY <1>1 DEF CallGenerate
<1>2. CASE PutRequest(r)
  BY <1>2, PutType DEF PutRequest
<1>3. CASE StopGeneration(r)
  BY <1>3, PutType DEF StopGeneration
<1>4. CASE Leave(r)
  BY <1>4, PutType DEF Leave
<1>5. CASE EndStream(r)
  BY <1>5 DEF EndStream
<1> QED BY <1>1, <1>2, <1>3, <1>4, <1>5

\* The stream of one request grows by a message of the right type.
LEMMA StreamType ==
  ASSUME TypeOK, NEW r \in Req, NEW ms \in Seq(Message),
         stream' = [stream EXCEPT ![r] = @ \o ms]
  PROVE  stream' \in [Req -> Seq(Message)]
<1>1. \A s \in Seq(Message) : s \o ms \in Seq(Message)
  BY ConcatProperties
<1> QED BY <1>1 DEF TypeOK

\* Some of the streams grow by a terminal message.
LEMMA TerminalType ==
  ASSUME TypeOK, NEW S, NEW m \in Terminals,
         stream' = [r \in Req |-> IF r \in S THEN Append(stream[r], m) ELSE stream[r]]
  PROVE  stream' \in [Req -> Seq(Message)]
<1>1. m \in Message
  BY DEF Message
<1>2. \A s \in Seq(Message) : Append(s, m) \in Seq(Message)
  BY <1>1, AppendProperties
<1> QED BY <1>2 DEF TypeOK

\* What is left of the queue when its head was taken.
LEMMA TakeItemType ==
  ASSUME TypeOK, NEW r, NEW kind, TakeItem(kind, r)
  PROVE  requests' \in Seq(QueueItem)
BY HeadTailProperties DEF TypeOK, TakeItem

\* ... as does taking an item off the queue, ...
LEMMA HandleType ==
  ASSUME TypeOK, NEW r \in Req, HandleNew(r) \/ HandleCancel(r)
  PROVE  TypeOK'
<1> USE DEF TypeOK, LoopUnchanged
<1>1. CASE HandleNew(r)
  BY <1>1, TakeItemType DEF HandleNew, Inserted
<1>2. CASE HandleCancel(r)
  <2>1. requests' \in Seq(QueueItem)
    BY <1>2, TakeItemType DEF HandleCancel
  <2>2. stream' \in [Req -> Seq(Message)]
    <3>1. "cancelled" \in Message
      BY DEF Message, Terminals
    <3>2. \A s \in Seq(Message) : Append(s, "cancelled") \in Seq(Message)
      BY <3>1, AppendProperties
    <3>3. CASE r \in results
      <4>1. stream' = [stream EXCEPT ![r] = Append(@, "cancelled")]
        BY <1>2, <3>3 DEF HandleCancel, Removed
      <4>2. stream \in [Req -> Seq(Message)] /\ Append(stream[r], "cancelled") \in Seq(Message)
        BY <3>2
      <4> QED BY <4>1, <4>2
    <3>4. CASE r \notin results
      BY <1>2, <3>4 DEF HandleCancel
    <3> QED BY <3>3, <3>4
  <2> QED BY <1>2, <2>1, <2>2 DEF HandleCancel, Removed
<1> QED BY <1>1, <1>2

\* A function over 1..n with values in S is a sequence of S.
LEMMA FunctionIsSeq ==
  ASSUME NEW S, NEW n \in Nat, NEW f \in [1..n -> S]
  PROVE  f \in Seq(S)
OBVIOUS

\* What next() reports is a list of responses about rows of the batch, each
\* row once.
LEMMA ResponseListType ==
  ASSUME TypeOK, IsFiniteSet(rows), NEW q \in ResponseLists
  PROVE  /\ q \in Seq(ResponseItem)
         /\ \A i \in DOMAIN q : q[i].id \in rows
         /\ \A i, j \in DOMAIN q : i < j => q[i].id # q[j].id
<1>1. PICK S \in SUBSET rows :
        /\ q \in [1..Cardinality(S) -> [id : S, message : {"progress", "token", "last"}]]
        /\ \A i, j \in DOMAIN q : i < j => q[i].id # q[j].id
  BY DEF ResponseLists
<1>2. Cardinality(S) \in Nat
  BY FS_Subset, FS_CardinalityType
<1>3. \A i \in DOMAIN q : q[i] \in ResponseItem /\ q[i].id \in rows
  BY <1>1 DEF TypeOK, ResponseItem
<1>4. q \in [1..Cardinality(S) -> ResponseItem]
  BY <1>1, <1>3
<1> QED BY <1>1, <1>2, <1>3, <1>4, FunctionIsSeq

\* ... a response and the storing of a cache, ...
LEMMA RespondType ==
  ASSUME TypeOK, NEW r \in Req, NEW m \in {"progress", "token", "last"},
         Respond(r, m) \/ StoreCache(r)
  PROVE  TypeOK'
<1> USE DEF TypeOK, LoopUnchanged, Responding
<1>1. responses # <<>> => Tail(responses) \in Seq([id : Req, message : {"progress", "token", "last"}])
  BY HeadTailProperties
<1>2. CASE Respond(r, m)
  <2>1. Messages(m) \in Seq(Message)
    <3>1. m \in Message /\ "last" \in Message /\ "none" \in Message
      BY DEF Message, Terminals
    <3>2. <<m>> \in Seq(Message) /\ <<"last", "none">> \in Seq(Message)
      BY <3>1
    <3> QED BY <3>2 DEF Messages
  <2>2. stream' \in [Req -> Seq(Message)]
    BY <1>2, <2>1, StreamType DEF Respond
  <2> QED BY <1>1, <1>2, <2>2 DEF Respond
<1>3. CASE StoreCache(r)
  BY <1>1, <1>3 DEF StoreCache
<1> QED BY <1>2, <1>3

\* ... a fatal error, ...
LEMMA FailType ==
  ASSUME TypeOK, NEW r \in Req, FailNew(r) \/ FailBatch(r)
  PROVE  TypeOK'
<1>1. Fail(r)
  BY DEF FailNew, FailBatch
<1>2. stream' \in [Req -> Seq(Message)]
  <2>1. "error" \in Terminals
    BY DEF Terminals
  <2> QED BY <1>1, <2>1, TerminalType DEF Fail, Failed
<1>3. requests' \in Seq(QueueItem)
  BY TakeItemType DEF FailNew, FailBatch, TypeOK
<1> QED BY <1>1, <1>2, <1>3 DEF Fail, TypeOK

\* ... and the end of the loop.
LEMMA EndLoopType ==
  ASSUME TypeOK, EndLoop
  PROVE  TypeOK'
<1>1. "cancelled" \in Terminals
  BY DEF Terminals
<1>2. stream' \in [Req -> Seq(Message)]
  BY <1>1, TerminalType DEF EndLoop
<1> QED BY <1>2 DEF EndLoop, TypeOK, LoopUnchanged

-----------------------------------------------------------------------------
(* The rows of the batch generator and the entries of _batch_results.      *)
\* RowsMatchResults is not inductive by itself: that StoreCache leaves no
\* other response for the entry it deletes needs every row to be reported
\* once per call, and that a new request finds no responses in the way
\* needs the list to be empty outside the response loop.

LastIds == {responses[i].id : i \in {j \in DOMAIN responses : responses[j].message = "last"}}

RowsAndResults ==
  phase \notin {"failed", "exited"} =>
    /\ results = rows \cup LastIds
    /\ \A i \in DOMAIN responses : responses[i].id \in results
    /\ \A i, j \in DOMAIN responses : i < j => responses[i].id # responses[j].id
    /\ phase \notin {"respond", "store"} => responses = <<>>
    /\ rows \cap LastIds = {}

IInv == TypeOK /\ IsFiniteSet(rows) /\ RowsAndResults

\* An empty list has no positions.
LEMMA EmptyDomain ==
  DOMAIN <<>> = {}
BY EmptySeq, LenProperties

\* What is left of a list when its head was handled.
LEMMA TailElements ==
  ASSUME NEW S, NEW s \in Seq(S), s # <<>>
  PROVE  /\ Tail(s) \in Seq(S)
         /\ DOMAIN s = 1..Len(s)
         /\ DOMAIN Tail(s) = 1..(Len(s) - 1)
         /\ Len(s) \in Nat \ {0}
         /\ Head(s) = s[1]
         /\ \A i \in DOMAIN Tail(s) : Tail(s)[i] = s[i+1]
<1>1. /\ Tail(s) \in Seq(S) /\ Len(Tail(s)) = Len(s) - 1 /\ Head(s) = s[1]
      /\ \A i \in 1..Len(Tail(s)) : Tail(s)[i] = s[i+1]
  BY HeadTailProperties
<1>2. Len(s) \in Nat \ {0} /\ DOMAIN s = 1..Len(s) /\ DOMAIN Tail(s) = 1..Len(Tail(s))
  BY <1>1, LenProperties, EmptySeq
<1> QED BY <1>1, <1>2

\* The response at the head is handled and taken off.
LEMMA TakeResponse ==
  ASSUME IInv, phase \in {"respond", "store"}, responses # <<>>,
         responses' = Tail(responses), NEW m, NEW r, Head(responses) = [id |-> r, message |-> m]
  PROVE  /\ \A i \in DOMAIN responses' :
              /\ responses'[i].id \in results
              /\ responses'[i].id # r
         /\ \A i, j \in DOMAIN responses' : i < j => responses'[i].id # responses'[j].id
         /\ LastIds = LastIds' \cup (IF m = "last" THEN {r} ELSE {})
<1> DEFINE n == Len(responses)
<1>1. /\ DOMAIN responses = 1..n /\ n \in Nat \ {0}
      /\ DOMAIN responses' = 1..(n-1)
      /\ responses[1] = [id |-> r, message |-> m]
      /\ \A i \in 1..(n-1) : responses'[i] = responses[i+1]
  BY TailElements DEF IInv, TypeOK
<1>2. \A i \in 1..(n-1) : i+1 \in DOMAIN responses /\ 1 \in DOMAIN responses
  BY <1>1
<1>3. \A i \in 1..(n-1) : responses'[i].id \in results /\ responses'[i].id # r
  BY <1>1, <1>2 DEF IInv, RowsAndResults
<1>4. \A i, j \in 1..(n-1) : i < j => responses'[i].id # responses'[j].id
  <2> SUFFICES ASSUME NEW i \in 1..(n-1), NEW j \in 1..(n-1), i < j
               PROVE  responses[i+1].id # responses[j+1].id
    BY <1>1
  <2>1. i+1 \in DOMAIN responses /\ j+1 \in DOMAIN responses /\ i+1 < j+1
    BY <1>1
  <2> QED BY <2>1 DEF IInv, RowsAndResults
<1>5. LastIds = LastIds' \cup (IF m = "last" THEN {r} ELSE {})
  <2>1. ASSUME NEW x \in LastIds
        PROVE  x \in LastIds' \cup (IF m = "last" THEN {r} ELSE {})
    <3>1. PICK i \in 1..n : responses[i].message = "last" /\ responses[i].id = x
      BY <1>1 DEF LastIds
    <3>2. CASE i = 1
      BY <1>1, <3>1, <3>2
    <3>3. CASE i # 1
      <4>1. i-1 \in 1..(n-1) /\ responses'[i-1] = responses[i]
        BY <1>1, <3>3
      <4> QED BY <1>1, <3>1, <4>1 DEF LastIds
    <3> QED BY <3>2, <3>3
  <2>2. ASSUME NEW x \in LastIds'
        PROVE  x \in LastIds
    <3>1. PICK i \in 1..(n-1) : responses'[i].message = "last" /\ responses'[i].id = x
      BY <1>1 DEF LastIds
    <3> QED BY <1>1, <1>2, <3>1 DEF LastIds
  <2>3. m = "last" => r \in LastIds
    BY <1>1 DEF LastIds
  <2> QED BY <2>1, <2>2, <2>3
<1>6. DOMAIN responses' = 1..(n-1)
  BY <1>1
<1> HIDE DEF n
<1>7. \A i \in DOMAIN responses' : responses'[i].id \in results /\ responses'[i].id # r
  BY <1>3, <1>6
<1>8. \A i, j \in DOMAIN responses' : i < j => responses'[i].id # responses'[j].id
  BY <1>4, <1>6
<1> QED BY <1>5, <1>7, <1>8

\* A response, or the storing of a cache, keeps rows and entries together ...
LEMMA RespondStep ==
  ASSUME IInv, NEW r \in Req, NEW m \in {"progress", "token", "last"},
         Respond(r, m) \/ StoreCache(r)
  PROVE  IInv'
<1>1. TypeOK'
  BY RespondType DEF IInv
<1>2. CASE Respond(r, m)
  <2>1. UNCHANGED <<rows, results>>
    BY <1>2 DEF Respond
  <2>2. CASE m = "last"
    BY <1>1, <1>2, <2>1, <2>2 DEF Respond, Responding, IInv, RowsAndResults, LastIds
  <2>3. CASE m # "last"
    <3>1. /\ phase = "respond" /\ phase' = phase
          /\ responses # <<>> /\ responses' = Tail(responses)
          /\ Head(responses) = [id |-> r, message |-> m]
      BY <1>2, <2>3 DEF Respond, Responding
    <3>2. LastIds' = LastIds
      BY <2>3, <3>1, TakeResponse
    <3> QED BY <1>1, <2>1, <3>1, <3>2, TakeResponse DEF IInv, RowsAndResults
  <2> QED BY <2>2, <2>3
<1>3. CASE StoreCache(r)
  <2>1. /\ phase = "store" /\ phase' = "respond"
        /\ responses # <<>> /\ responses' = Tail(responses)
        /\ Head(responses) = [id |-> r, message |-> "last"]
        /\ results' = results \ {r} /\ rows' = rows
    BY <1>3 DEF StoreCache, Responding
  <2>2. /\ \A i \in DOMAIN responses' : responses'[i].id \in results /\ responses'[i].id # r
        /\ \A i, j \in DOMAIN responses' : i < j => responses'[i].id # responses'[j].id
        /\ LastIds = LastIds' \cup {r}
    BY <2>1, TakeResponse
  <2>3. r \notin LastIds'
    BY <2>2 DEF LastIds
  <2>4. results = rows \cup LastIds /\ rows \cap LastIds = {}
    BY <2>1 DEF IInv, RowsAndResults
  <2>5. results' = rows' \cup LastIds' /\ rows' \cap LastIds' = {}
    BY <2>1, <2>2, <2>3, <2>4
  <2> QED BY <1>1, <2>1, <2>2, <2>5 DEF IInv, RowsAndResults
<1> QED BY <1>2, <1>3

\* ... next() takes the rows that finished out and reports their last token ...
LEMMA BatchNextStep ==
  ASSUME IInv, BatchNext
  PROVE  IInv'
<1>1. /\ responses' \in Seq(ResponseItem)
      /\ \A i \in DOMAIN responses' : responses'[i].id \in rows
      /\ \A i, j \in DOMAIN responses' : i < j => responses'[i].id # responses'[j].id
  BY ResponseListType DEF IInv, BatchNext
<1>2. \A i \in DOMAIN responses' : responses'[i] \in ResponseItem
  BY <1>1, LenProperties, ElementOfSeq
<1>3. LastIds' = {r \in rows : \E i \in DOMAIN responses' :
                                 responses'[i] = [id |-> r, message |-> "last"]}
  <2>1. \A i \in DOMAIN responses' : \A r :
          responses'[i] = [id |-> r, message |-> "last"]
            <=> responses'[i].id = r /\ responses'[i].message = "last"
    BY <1>2 DEF ResponseItem
  <2>2. ASSUME NEW r
        PROVE  r \in LastIds' <=> \E i \in DOMAIN responses' :
                                   responses'[i].id = r /\ responses'[i].message = "last"
    BY DEF LastIds
  <2>3. ASSUME NEW r
        PROVE  r \in LastIds' <=> \E i \in DOMAIN responses' :
                                   responses'[i] = [id |-> r, message |-> "last"]
    BY <2>1, <2>2
  <2>4. \A r : r \in LastIds' => r \in rows
    BY <1>1, <2>2
  <2> QED BY <2>3, <2>4
<1>4. rows' = rows \ LastIds' /\ LastIds' \subseteq rows
  BY <1>3 DEF BatchNext
<1>5. LastIds = {} /\ results = rows /\ results' = results /\ phase' = "respond"
  <2>1. responses = <<>> /\ results = rows \cup LastIds
    BY DEF BatchNext, IInv, RowsAndResults
  <2>2. LastIds = {}
    BY <2>1, EmptyDomain DEF LastIds
  <2> QED BY <2>1, <2>2 DEF BatchNext
<1>6. IsFiniteSet(rows')
  BY <1>4, FS_Subset DEF IInv
<1>7. TypeOK'
  BY <1>1, <1>4 DEF BatchNext, IInv, TypeOK, ResponseItem, LoopUnchanged
<1> QED BY <1>1, <1>4, <1>5, <1>6, <1>7 DEF IInv, RowsAndResults

\* ... a request enters with its row and entry, a cancel takes both ...
LEMMA HandleStep ==
  ASSUME IInv, NEW r \in Req, HandleNew(r) \/ HandleCancel(r)
  PROVE  IInv'
<1>1. TypeOK'
  BY HandleType DEF IInv
<1>2. phase = "top" /\ phase' = "check" /\ responses = <<>> /\ responses' = <<>>
  BY DEF HandleNew, HandleCancel, TakeItem, Running, IInv, RowsAndResults
<1>3. results = rows /\ LastIds = {} /\ LastIds' = {}
  <2>1. LastIds = {} /\ LastIds' = {}
    BY <1>2, EmptyDomain DEF LastIds
  <2> QED BY <1>2, <2>1 DEF IInv, RowsAndResults
<1>4. results' = rows' /\ IsFiniteSet(rows')
  <2>1. CASE HandleNew(r)
    BY <1>3, <2>1, FS_AddElement DEF HandleNew, Inserted, IInv
  <2>2. CASE HandleCancel(r)
    BY <1>3, <2>2, FS_RemoveElement DEF HandleCancel, Removed, IInv
  <2> QED BY <2>1, <2>2
<1> QED BY <1>1, <1>2, <1>3, <1>4, EmptyDomain DEF IInv, RowsAndResults

\* The steps that leave rows, entries and responses alone.
LEMMA QuietStep ==
  ASSUME IInv, TypeOK', UNCHANGED <<results, rows, responses>>,
         phase' \in {"failed", "exited"} \/ phase' = phase
           \/ (phase \notin {"failed", "exited"} /\ responses = <<>>)
  PROVE  IInv'
BY DEF IInv, RowsAndResults, LastIds

\* The invariant holds before anything was asked, and after every step.
LEMMA IInvInit ==
  Init => IInv
<1>1. \A S : <<>> \in Seq(S)
  BY EmptySeq
<1>2. IsFiniteSet({})
  BY FS_EmptySet
<1> SUFFICES ASSUME Init PROVE IInv
  OBVIOUS
<1>3. TypeOK
  BY <1>1 DEF Init, TypeOK
<1>4. LastIds = {}
  BY EmptyDomain DEF Init, LastIds
<1> QED BY <1>2, <1>3, <1>4, EmptyDomain DEF Init, IInv, RowsAndResults

\* Every step of the kit keeps the invariant.
LEMMA IInvStep ==
  IInv /\ [Next]_vars => IInv'
<1> SUFFICES ASSUME IInv, [Next]_vars PROVE IInv'
  OBVIOUS
<1>1. CASE \E r \in Req : \/ CallGenerate(r) \/ PutRequest(r) \/ StopGeneration(r)
                         \/ Leave(r) \/ EndStream(r)
  <2>1. TypeOK'
    BY <1>1, ClientType DEF IInv
  <2>2. UNCHANGED <<results, rows, responses, phase>>
    BY <1>1 DEF CallGenerate, PutRequest, StopGeneration, Leave, EndStream, ClientUnchanged
  <2> QED BY <2>1, <2>2, QuietStep
<1>2. CASE RequestShutdown \/ Joined
  <2>1. TypeOK'
    BY <1>2 DEF RequestShutdown, Joined, IInv, TypeOK
  <2> QED BY <1>2, <2>1, QuietStep DEF RequestShutdown, Joined
<1>3. CASE NoItem \/ Check \/ BatchEmpty \/ EndResponses
  <2>1. TypeOK'
    BY <1>3 DEF NoItem, Check, BatchEmpty, EndResponses, IInv, TypeOK, LoopUnchanged
  <2>2. phase \notin {"failed", "exited"} /\ responses = <<>>
    BY <1>3 DEF NoItem, Check, BatchEmpty, EndResponses, Running, IInv, RowsAndResults
  <2>3. UNCHANGED <<results, rows, responses>>
    BY <1>3 DEF NoItem, Check, BatchEmpty, EndResponses
  <2> QED BY <2>1, <2>2, <2>3, QuietStep
<1>4. CASE EndLoop
  <2>1. TypeOK'
    BY <1>4, EndLoopType DEF IInv
  <2> QED BY <1>4, <2>1, QuietStep DEF EndLoop
<1>5. CASE ExitThread
  <2>1. TypeOK'
    BY <1>5 DEF ExitThread, IInv, TypeOK, LoopUnchanged
  <2> QED BY <1>5, <2>1, QuietStep DEF ExitThread
<1>6. CASE \E r \in Req : FailNew(r) \/ FailBatch(r)
  <2>1. TypeOK'
    BY <1>6, FailType DEF IInv
  <2>2. UNCHANGED <<results, rows, responses>> /\ phase' = "failed"
    BY <1>6 DEF FailNew, FailBatch, Fail
  <2> QED BY <2>1, <2>2, QuietStep
<1>7. CASE UNCHANGED vars
  <2>1. TypeOK'
    BY <1>7 DEF vars, IInv, TypeOK
  <2> QED BY <1>7, <2>1, QuietStep DEF vars
<1>8. CASE \E r \in Req : HandleNew(r) \/ HandleCancel(r)
  BY <1>8, HandleStep
<1>9. CASE BatchNext
  BY <1>9, BatchNextStep
<1>10. CASE \E r \in Req : StoreCache(r) \/ \E m \in {"progress", "token", "last"} : Respond(r, m)
  BY <1>10, RespondStep
<1> QED BY <1>1, <1>2, <1>3, <1>4, <1>5, <1>6, <1>7, <1>8, <1>9, <1>10
        DEF Next, GenerationThread

\* Every variable of the text kit keeps its type.
THEOREM TextTypeCorrect == Spec => []TypeOK
<1>1. IInv => TypeOK
  BY DEF IInv
<1> QED BY <1>1, IInvInit, IInvStep, PTL DEF Spec

\* As long as the generation thread runs, the batch generator has a row
\* for exactly the entries of _batch_results whose last response is still
\* to be handled: no cancel leaves a row behind, and no response finds its
\* entry gone, which would end the thread with a KeyError.
THEOREM RowsAlwaysMatchResults == Spec => []RowsMatchResults
<1>1. IInv => RowsMatchResults
  BY DEF IInv, RowsAndResults, RowsMatchResults, LastIds
<1> QED BY <1>1, IInvInit, IInvStep, PTL DEF Spec

-----------------------------------------------------------------------------
(* The order of the messages on a response queue.                          *)

\* b may come anywhere after a on one response queue.
Follows(a, b, failed) ==
  \/ Rank(a) < Rank(b)
  \/ a = b /\ a \in {"progress", "token"}
  \/ failed /\ a = "none" /\ b = "error"

Ordered(s, failed) ==
  \A i \in DOMAIN s : \A j \in (i+1)..Len(s) : Follows(s[i], s[j], failed)

\* The rank of each message.
LEMMA RankTable ==
  /\ Rank("progress") = 1 /\ Rank("token") = 2 /\ Rank("last") = 3
  /\ \A m \in Terminals : Rank(m) = 4
BY DEF Rank, Terminals

\* One more message keeps the order if it may follow each one before it.
LEMMA OneMore ==
  ASSUME NEW s \in Seq(Message), NEW m \in Message, NEW failed \in BOOLEAN,
         Ordered(s, failed), \A a \in ToSet(s) : Follows(a, m, failed)
  PROVE  Ordered(Append(s, m), failed)
<1>1. PICK t \in Seq(Message) : t = Append(s, m)
  BY AppendProperties
<1>2. PICK n \in Nat :
        /\ n = Len(s) /\ DOMAIN s = 1..n /\ Len(t) = n + 1 /\ DOMAIN t = 1..(n+1)
        /\ \A i \in 1..n : t[i] = s[i]
        /\ t[n+1] = m
  BY <1>1, AppendProperties, LenProperties
<1>3. ASSUME NEW i \in 1..(n+1), NEW j \in (i+1)..(n+1)
      PROVE  Follows(t[i], t[j], failed)
  <2>1. i \in 1..n
    BY <1>2
  <2>2. CASE j = n + 1
    BY <1>2, <2>1, <2>2 DEF ToSet
  <2>3. CASE j # n + 1
    <3>1. j \in (i+1)..n /\ j \in 1..n
      BY <1>2, <2>1, <2>3
    <3> QED BY <1>2, <2>1, <3>1 DEF Ordered
  <2> QED BY <2>2, <2>3
<1> QED BY <1>1, <1>2, <1>3 DEF Ordered

\* What a response queue holds when a message was put on it.
LEMMA Holds ==
  ASSUME NEW s \in Seq(Message), NEW m \in Message
  PROVE  /\ Append(s, m) \in Seq(Message)
         /\ ToSet(Append(s, m)) = ToSet(s) \cup {m}
<1>1. PICK t \in Seq(Message) : t = Append(s, m)
  BY AppendProperties
<1>2. PICK n \in Nat :
        /\ n = Len(s) /\ DOMAIN s = 1..n /\ DOMAIN t = 1..(n+1)
        /\ \A i \in 1..n : t[i] = s[i]
        /\ t[n+1] = m
  BY <1>1, AppendProperties, LenProperties
<1>3. n + 1 \in 1..(n+1) /\ \A i \in 1..n : i \in 1..(n+1)
  BY <1>2
<1>4. \A x \in ToSet(t) : x \in ToSet(s) \cup {m}
  BY <1>2 DEF ToSet
<1>5. \A x \in ToSet(s) : x \in ToSet(t)
  BY <1>2, <1>3 DEF ToSet
<1>6. m \in ToSet(t)
  BY <1>2, <1>3 DEF ToSet
<1> QED BY <1>1, <1>4, <1>5, <1>6

\* What a response puts on it: its message, and the end after the last one.
LEMMA MessagesSent ==
  ASSUME NEW s \in Seq(Message), NEW m \in {"progress", "token", "last"}
  PROVE  s \o Messages(m) = IF m = "last" THEN Append(Append(s, "last"), "none") ELSE Append(s, m)
<1>1. m \in Message /\ "last" \in Message /\ "none" \in Message
  BY DEF Message, Terminals
<1>2. <<"last", "none">> \in Seq(Message) /\ <<m>> \in Seq(Message)
  BY <1>1
<1>3. s \o <<"last", "none">> = Append(Append(s, "last"), "none")
  BY <1>1, <1>2
<1>4. s \o <<m>> = Append(s, m)
  BY <1>1, <1>2
<1> QED BY <1>3, <1>4 DEF Messages

\* A fatal error only allows more.
LEMMA OrderedFailed ==
  \A s : Ordered(s, FALSE) => Ordered(s, TRUE)
BY DEF Ordered, Follows

-----------------------------------------------------------------------------
(* What stands on the queue and what was put on each response queue.       *)

\* Requests whose generate() has put them on the queue.
Accepted == {r \in Req : client[r] \in {"waiting", "ended"}}

\* A queued request was not heard of before, a queued cancel was asked for.
ItemKnown(item) ==
  IF item.kind = "new"
  THEN item.id \in Accepted \ results /\ stream[item.id] = <<>>
  ELSE item.id \in stopped \/ client[item.id] = "ended"

\* ... and a request is queued once.
Queued ==
  /\ \A i \in DOMAIN requests : ItemKnown(requests[i])
  /\ \A i, j \in DOMAIN requests :
       i < j /\ requests[i].kind = "new" /\ requests[j].kind = "new"
         => requests[i].id # requests[j].id
  /\ \A r \in Req : r \notin Accepted => r \notin results /\ stream[r] = <<>>

Live == phase \notin {"failed", "exited"}

\* The entry whose last token is out while its cache is stored.
Leaving(r) == phase = "store" /\ Head(responses).id = r

\* What a request was sent so far.
Sending(r) ==
  /\ Ordered(stream[r], backendFailed)
  /\ Live /\ r \in results /\ ~Leaving(r) => Got(r) \subseteq {"progress", "token"}
  /\ Leaving(r) => Got(r) \subseteq {"progress", "token", "last", "none"} /\ "last" \in Got(r)

\* Prompt progress comes before the first token.
ProgressFirst ==
  \A i \in DOMAIN responses :
    responses[i].message = "progress" => "token" \notin Got(responses[i].id)

StreamsInv ==
  /\ Queued
  /\ \A r \in Req : Sending(r)
  /\ phase \in {"respond", "store"} => ProgressFirst
  /\ phase = "store" => responses # <<>> /\ Head(responses).message = "last"
  /\ Live => ~backendFailed

\* An item put at the end of the queue.
LEMMA QueueGrows ==
  ASSUME TypeOK, NEW r \in Req, NEW kind \in {"new", "cancel"}, Put(Item(kind, r))
  PROVE  \E n \in Nat :
           /\ DOMAIN requests = 1..n /\ DOMAIN requests' = 1..(n+1)
           /\ requests'[n+1] = Item(kind, r)
           /\ \A i \in 1..n : requests'[i] = requests[i]
<1>1. Item(kind, r) \in QueueItem
  BY DEF Item, QueueItem
<1> QED BY <1>1, AppendProperties, LenProperties DEF TypeOK, Put

\* The item at the head of the queue is taken.
LEMMA QueueShrinks ==
  ASSUME TypeOK, NEW r, NEW kind, TakeItem(kind, r)
  PROVE  \E n \in Nat :
           /\ DOMAIN requests = 1..(n+1) /\ DOMAIN requests' = 1..n
           /\ requests[1] = Item(kind, r)
           /\ \A i \in 1..n : requests'[i] = requests[i+1]
<1>1. requests \in Seq(QueueItem) /\ requests # <<>> /\ requests' = Tail(requests)
      /\ Head(requests) = Item(kind, r)
  BY DEF TypeOK, TakeItem
<1>2. PICK n \in Nat : n = Len(requests) - 1
  BY <1>1, TailElements
<1> QED BY <1>1, <1>2, TailElements

\* The items behind the head of the queue.
Behind == {requests[i] : i \in DOMAIN requests \ {1}}

\* The queue stays right when its head is taken off and the others stay known ...
LEMMA TakenQueued ==
  ASSUME TypeOK, Queued, NEW r, NEW kind, TakeItem(kind, r),
         \A item \in Behind : ItemKnown(item)',
         \A x \in Req : x \notin Accepted' => x \notin results' /\ stream'[x] = <<>>
  PROVE  Queued'
<1>1. PICK n \in Nat :
        /\ DOMAIN requests = 1..(n+1) /\ DOMAIN requests' = 1..n
        /\ requests[1] = Item(kind, r)
        /\ \A i \in 1..n : requests'[i] = requests[i+1]
  BY QueueShrinks
<1>2. \A i \in 1..n : i+1 \in 1..(n+1) /\ i+1 # 1
  BY <1>1
<1>3. \A i \in DOMAIN requests' : requests'[i] \in Behind
  BY <1>1, <1>2 DEF Behind
<1>4. \A i \in DOMAIN requests' : ItemKnown(requests[i])'
  BY <1>3
<1>5. ASSUME NEW i \in 1..n, NEW j \in 1..n, i < j,
             requests'[i].kind = "new", requests'[j].kind = "new"
      PROVE  requests'[i].id # requests'[j].id
  <2>1. i+1 \in 1..(n+1) /\ j+1 \in 1..(n+1) /\ i+1 < j+1
    BY <1>1, <1>5
  <2>2. requests'[i] = requests[i+1] /\ requests'[j] = requests[j+1]
    BY <1>1
  <2>3. requests[i+1].kind = "new" /\ requests[j+1].kind = "new"
    BY <1>5, <2>2
  <2>4. requests[i+1].id # requests[j+1].id
    BY <1>1, <2>1, <2>3 DEF Queued
  <2> QED BY <2>2, <2>4
<1> QED BY <1>1, <1>4, <1>5 DEF Queued

\* ... or when another item is put behind them ...
LEMMA PutQueued ==
  ASSUME TypeOK, Queued, NEW r \in Req, NEW kind \in {"new", "cancel"}, Put(Item(kind, r)),
         \A i \in DOMAIN requests : \A item : item = requests[i] => ItemKnown(item)',
         ItemKnown(Item(kind, r))',
         kind = "new" => r \notin Accepted,
         \A x \in Req : x \notin Accepted' => x \notin results' /\ stream'[x] = <<>>
  PROVE  Queued'
<1>1. PICK n \in Nat :
        /\ DOMAIN requests = 1..n /\ DOMAIN requests' = 1..(n+1)
        /\ requests'[n+1] = Item(kind, r)
        /\ \A i \in 1..n : requests'[i] = requests[i]
  BY QueueGrows
<1>2. ASSUME NEW i \in 1..(n+1)
      PROVE  ItemKnown(requests[i])'
  <2>1. CASE i \in 1..n
    <3>1. PICK item : item = requests[i]
      OBVIOUS
    <3>2. requests'[i] = item /\ ItemKnown(item)'
      BY <1>1, <2>1, <3>1
    <3> QED BY <3>2
  <2>2. CASE i = n + 1
    <3>1. PICK item : item = Item(kind, r)
      OBVIOUS
    <3>2. requests'[i] = item /\ ItemKnown(item)'
      BY <1>1, <2>2, <3>1
    <3> QED BY <3>2
  <2> QED BY <1>1, <2>1, <2>2
<1>3. ASSUME NEW i \in 1..(n+1), NEW j \in 1..(n+1), i < j,
             requests'[i].kind = "new", requests'[j].kind = "new"
      PROVE  requests'[i].id # requests'[j].id
  <2>1. i \in 1..n /\ requests'[i] = requests[i]
    BY <1>1, <1>3
  <2>2. CASE j \in 1..n
    BY <1>1, <1>3, <2>1, <2>2 DEF Queued
  <2>3. CASE j = n + 1
    <3>1. requests'[j] = Item(kind, r)
      BY <1>1, <2>3
    <3>2. kind = "new" /\ requests'[j].id = r
      BY <1>3, <3>1 DEF Item
    <3>3. requests[i].id \in Accepted
      BY <1>1, <1>3, <2>1 DEF Queued, ItemKnown
    <3> QED BY <2>1, <3>2, <3>3
  <2> QED BY <1>1, <2>2, <2>3
<1> QED BY <1>1, <1>2, <1>3 DEF Queued

\* ... or left alone.
LEMMA SameQueued ==
  ASSUME Queued, UNCHANGED requests,
         \A i \in DOMAIN requests : \A item : item = requests[i] => ItemKnown(item)',
         \A x \in Req : x \notin Accepted' => x \notin results' /\ stream'[x] = <<>>
  PROVE  Queued'
<1>1. ASSUME NEW i \in DOMAIN requests
      PROVE  ItemKnown(requests[i])'
  <2>1. PICK item : item = requests[i]
    OBVIOUS
  <2>2. requests'[i] = item /\ ItemKnown(item)'
    BY <2>1
  <2> QED BY <2>2
<1> QED BY <1>1 DEF Queued

\* A step that only sends to entries, adds no entry, and forgets nobody.
LEMMA ItemStaysKnown ==
  ASSUME TypeOK, Queued, NEW i \in DOMAIN requests, NEW item, item = requests[i],
         results' \subseteq results, \A x \in Req : x \notin results => stream'[x] = stream[x],
         Accepted \subseteq Accepted', stopped \subseteq stopped',
         \A x \in Req : client[x] = "ended" => client'[x] = "ended"
  PROVE  ItemKnown(item)'
<1>1. ItemKnown(item) /\ item.id \in Req
  <2>1. requests[i] \in QueueItem
    BY ElementOfSeq, LenProperties DEF TypeOK
  <2> QED BY <2>1 DEF Queued, QueueItem
<1> QED BY <1>1 DEF ItemKnown

-----------------------------------------------------------------------------
(* Callers and shutdown().                                                 *)

\* Nothing is sent while a caller or the shutdown acts.
LEMMA SameSending ==
  ASSUME StreamsInv, UNCHANGED <<stream, phase, results, rows, responses, backendFailed>>
  PROVE  /\ \A r \in Req : Sending(r)'
         /\ (phase \in {"respond", "store"} => ProgressFirst)'
         /\ (phase = "store" => responses # <<>> /\ Head(responses).message = "last")'
         /\ (Live => ~backendFailed)'
BY DEF StreamsInv, Sending, Leaving, Live, Got, ProgressFirst

\* A caller puts a request once, and cancels what it has put or stopped.
LEMMA ClientKeeps ==
  ASSUME TypeOK, StreamsInv, NEW r \in Req,
         CallGenerate(r) \/ PutRequest(r) \/ StopGeneration(r) \/ Leave(r) \/ EndStream(r)
  PROVE  StreamsInv'
<1>1. /\ UNCHANGED <<stream, phase, results, rows, responses, backendFailed>>
      /\ Accepted \subseteq Accepted' /\ stopped \subseteq stopped'
      /\ \A x \in Req : client[x] = "ended" => client'[x] = "ended"
  BY DEF CallGenerate, PutRequest, StopGeneration, Leave, EndStream, ClientUnchanged, Accepted,
         TypeOK
<1>2. Queued
  BY DEF StreamsInv
<1>3. \A i \in DOMAIN requests : \A item : item = requests[i] => ItemKnown(item)'
  BY <1>1, <1>2, ItemStaysKnown
<1>4. \A x \in Req : x \notin Accepted' => x \notin results' /\ stream'[x] = <<>>
  BY <1>1, <1>2 DEF Queued
<1>5. CASE CallGenerate(r) \/ EndStream(r)
  <2>1. Queued'
    BY <1>2, <1>3, <1>4, <1>5, SameQueued DEF CallGenerate, EndStream
  <2> QED BY <1>1, <2>1, SameSending DEF StreamsInv
<1>6. CASE PutRequest(r)
  <2>1. r \in Accepted' /\ r \notin Accepted /\ Put(Item("new", r))
    BY <1>6 DEF PutRequest, Accepted, TypeOK
  <2>2. ItemKnown(Item("new", r))'
    BY <1>1, <1>2, <2>1 DEF Queued, ItemKnown, Item
  <2>3. Queued'
    BY <1>2, <1>3, <1>4, <2>1, <2>2, PutQueued
  <2> QED BY <1>1, <2>3, SameSending DEF StreamsInv
<1>7. CASE StopGeneration(r) \/ Leave(r)
  <2>1. Put(Item("cancel", r)) /\ (r \in stopped' \/ client'[r] = "ended")
    BY <1>7 DEF StopGeneration, Leave, TypeOK
  <2>2. ItemKnown(Item("cancel", r))'
    BY <2>1 DEF ItemKnown, Item
  <2>3. Queued'
    BY <1>2, <1>3, <1>4, <2>1, <2>2, PutQueued
  <2> QED BY <1>1, <2>3, SameSending DEF StreamsInv
<1> QED BY <1>5, <1>6, <1>7

\* shutdown() sends nothing.
LEMMA ShutdownKeeps ==
  ASSUME TypeOK, StreamsInv, RequestShutdown \/ Joined
  PROVE  StreamsInv'
<1>1. UNCHANGED <<client, stopped, stream, requests, phase, results, rows, responses, backendFailed>>
  BY DEF RequestShutdown, Joined
<1>2. Queued'
  BY <1>1 DEF StreamsInv, Queued, ItemKnown, Accepted
<1> QED BY <1>1, <1>2, SameSending DEF StreamsInv

-----------------------------------------------------------------------------
(* The generation thread.                                                  *)

\* Steps between the queue and the batch, and the exit.
LEMMA QuietKeeps ==
  ASSUME TypeOK, StreamsInv, NoItem \/ Check \/ BatchEmpty \/ EndResponses \/ ExitThread
  PROVE  StreamsInv'
<1>1. /\ UNCHANGED <<client, stopped, stream, requests, results, rows, responses, backendFailed>>
      /\ phase # "store" /\ phase' \notin {"store", "respond"}
      /\ Live' => Live
  BY DEF NoItem, Check, BatchEmpty, EndResponses, ExitThread, LoopUnchanged, Running, Live
<1>2. Queued'
  BY <1>1 DEF StreamsInv, Queued, ItemKnown, Accepted
<1>3. \A r \in Req : Sending(r)'
  BY <1>1 DEF StreamsInv, Sending, Leaving, Got
<1>4. (Live => ~backendFailed)'
  BY <1>1 DEF StreamsInv
<1> QED BY <1>1, <1>2, <1>3, <1>4 DEF StreamsInv

\* What the items behind the head of the queue say is still so.
LEMMA BehindKnown ==
  ASSUME TypeOK, Queued, NEW r \in Req, NEW kind \in {"new", "cancel"}, TakeItem(kind, r),
         \A x \in results' : x \in results \/ (kind = "new" /\ x = r),
         \A x \in Req : x \notin results => stream'[x] = stream[x],
         UNCHANGED <<client, stopped>>
  PROVE  /\ \A item \in Behind : ItemKnown(item)'
         /\ ItemKnown(Item(kind, r))
<1>1. PICK n \in Nat :
        /\ DOMAIN requests = 1..(n+1)
        /\ requests[1] = Item(kind, r)
  BY QueueShrinks
<1>2. Accepted' = Accepted /\ 1 \in 1..(n+1)
  BY <1>1 DEF Accepted
<1>3. ASSUME NEW i \in 2..(n+1), NEW item, item = requests[i]
      PROVE  ItemKnown(item)'
  <2>1. i \in DOMAIN requests /\ 1 \in DOMAIN requests /\ 1 < i
    BY <1>1
  <2>2. ItemKnown(item) /\ item \in QueueItem
    <3>1. requests[i] \in QueueItem
      BY <2>1, ElementOfSeq, LenProperties DEF TypeOK
    <3> QED BY <1>3, <2>1, <3>1 DEF Queued
  <2>3. item.id \in Req
    BY <2>2 DEF QueueItem
  <2>4. CASE item.kind = "new"
    <3>1. item.id \in Accepted /\ item.id \notin results /\ stream[item.id] = <<>>
      BY <2>2, <2>4 DEF ItemKnown
    <3>2. kind = "new" => item.id # r
      <4> SUFFICES ASSUME kind = "new" PROVE item.id # r
        OBVIOUS
      <4>1. requests[1].kind = "new" /\ requests[1].id = r /\ requests[i].kind = "new"
        BY <1>1, <1>3, <2>4 DEF Item
      <4>2. requests[1].id # requests[i].id
        BY <2>1, <4>1 DEF Queued
      <4> QED BY <1>3, <4>1, <4>2
    <3>3. item.id \in Accepted' /\ item.id \notin results' /\ stream'[item.id] = <<>>
      BY <1>2, <2>3, <3>1, <3>2
    <3> QED BY <2>4, <3>3 DEF ItemKnown
  <2>5. CASE item.kind # "new"
    BY <2>2, <2>5 DEF ItemKnown
  <2> QED BY <2>4, <2>5
<1>4. ASSUME NEW item \in Behind
      PROVE  ItemKnown(item)'
  <2>1. PICK i \in 2..(n+1) : item = requests[i]
    BY <1>1 DEF Behind
  <2> QED BY <1>3, <2>1
<1>5. ItemKnown(Item(kind, r))
  BY <1>1, <1>2 DEF Queued
<1> QED BY <1>4, <1>5

\* A request enters the batch with an empty response queue.
LEMMA NewKeeps ==
  ASSUME TypeOK, StreamsInv, NEW r \in Req, HandleNew(r)
  PROVE  StreamsInv'
<1>1. /\ TakeItem("new", r) /\ results' = results \cup {r} /\ phase = "top" /\ phase' = "check"
      /\ UNCHANGED <<stream, responses, client, stopped, backendFailed>>
  BY DEF HandleNew, Inserted, LoopUnchanged, TakeItem, Running
<1>2. Queued
  BY DEF StreamsInv
<1>3. (\A item \in Behind : ItemKnown(item)') /\ ItemKnown(Item("new", r))
  BY <1>1, <1>2, BehindKnown
<1>4. r \in Accepted /\ stream[r] = <<>>
  BY <1>3 DEF ItemKnown, Item
<1>5. \A x \in Req : x \notin Accepted' => x \notin results' /\ stream'[x] = <<>>
  BY <1>1, <1>2, <1>4 DEF Queued, Accepted
<1>6. Queued'
  BY <1>1, <1>2, <1>3, <1>5, TakenQueued
<1>7. ASSUME NEW x \in Req
      PROVE  Sending(x)'
  <2>1. x = r => Got(x) = {}
    BY <1>4 DEF Got, ToSet
  <2> QED BY <1>1, <2>1 DEF StreamsInv, Sending, Leaving, Live, Got
<1>8. (Live => ~backendFailed)'
  BY <1>1 DEF StreamsInv, Live
<1> QED BY <1>1, <1>6, <1>7, <1>8 DEF StreamsInv

\* An entry that was sent no end is sent one.
LEMMA EndSent ==
  ASSUME TypeOK, NEW r \in Req, NEW m \in Terminals, NEW failed \in BOOLEAN,
         Ordered(stream[r], failed),
         \/ Got(r) \subseteq {"progress", "token"}
         \/ Got(r) \subseteq {"progress", "token", "last", "none"} /\ failed /\ m = "error"
  PROVE  Ordered(Append(stream[r], m), failed)
<1>1. stream[r] \in Seq(Message) /\ m \in Message
  BY DEF TypeOK, Message
<1>2. \A a \in ToSet(stream[r]) : Follows(a, m, failed)
  BY RankTable DEF Got, Follows
<1> QED BY <1>1, <1>2, OneMore

\* A cancel ends the stream of its request when that is in the batch.
LEMMA CancelKeeps ==
  ASSUME TypeOK, StreamsInv, NEW r \in Req, HandleCancel(r)
  PROVE  StreamsInv'
<1>1. /\ TakeItem("cancel", r) /\ results' \subseteq results /\ r \notin results'
      /\ phase = "top" /\ phase' = "check"
      /\ UNCHANGED <<responses, client, stopped, backendFailed>>
      /\ r \in results => stream' = [stream EXCEPT ![r] = Append(@, "cancelled")]
      /\ r \notin results => stream' = stream
  BY DEF HandleCancel, Removed, LoopUnchanged, TakeItem, Running
<1>2. Queued /\ stream \in [Req -> Seq(Message)]
  BY DEF StreamsInv, TypeOK
<1>3. \A x \in Req : x # r \/ x \notin results => stream'[x] = stream[x]
  BY <1>1, <1>2
<1>4. (\A item \in Behind : ItemKnown(item)') /\ ItemKnown(Item("cancel", r))
  BY <1>1, <1>2, <1>3, BehindKnown
<1>5. \A x \in Req : x \notin Accepted' => x \notin results' /\ stream'[x] = <<>>
  BY <1>1, <1>2, <1>3 DEF Queued, Accepted
<1>6. Queued'
  BY <1>1, <1>2, <1>4, <1>5, TakenQueued
<1>7. ASSUME NEW x \in Req
      PROVE  Sending(x)'
  <2>1. CASE x = r /\ r \in results
    <3>1. stream'[x] = Append(stream[x], "cancelled") /\ backendFailed \in BOOLEAN
          /\ "cancelled" \in Terminals
      BY <1>1, <1>2, <2>1 DEF TypeOK, Terminals
    <3>2. Ordered(stream[x], backendFailed) /\ Got(x) \subseteq {"progress", "token"}
      BY <1>1, <2>1 DEF StreamsInv, Sending, Leaving, Live
    <3>3. Ordered(stream'[x], backendFailed)
      BY <3>1, <3>2, EndSent
    <3> QED BY <1>1, <2>1, <3>3 DEF Sending, Leaving
  <2>2. CASE x # r \/ r \notin results
    <3>1. stream'[x] = stream[x] /\ (x \in results' => x \in results)
      BY <1>1, <1>3, <2>2
    <3> QED BY <1>1, <3>1 DEF StreamsInv, Sending, Leaving, Live, Got
  <2> QED BY <2>1, <2>2
<1>8. (Live => ~backendFailed)'
  BY <1>1 DEF StreamsInv, Live
<1> QED BY <1>1, <1>6, <1>7, <1>8 DEF StreamsInv

\* next() reports progress of a prompt only before its first token.
LEMMA NextKeeps ==
  ASSUME IInv, StreamsInv, BatchNext
  PROVE  StreamsInv'
<1>1. /\ UNCHANGED <<client, stopped, stream, requests, results, backendFailed>>
      /\ phase = "batch" /\ phase' = "respond" /\ responses' \in ResponseLists
  BY DEF BatchNext, LoopUnchanged
<1>2. Queued'
  BY <1>1 DEF StreamsInv, Queued, ItemKnown, Accepted
<1>3. \A r \in Req : Sending(r)'
  BY <1>1 DEF StreamsInv, Sending, Leaving, Live, Got
<1>4. ASSUME NEW i \in DOMAIN responses', responses'[i].message = "progress"
      PROVE  "token" \notin Got(responses'[i].id)
  <2>1. MayRespond(responses'[i].id, "progress")
    BY <1>1, <1>4 DEF ResponseLists
  <2>2. Sent("token", responses'[i].id) = 0
    BY <2>1 DEF MayRespond
  <2>3. PICK r \in Req : r = responses'[i].id
    BY <1>1, ResponseListType DEF IInv, TypeOK
  <2>4. PICK n \in Nat : DOMAIN stream[r] = 1..n
    BY LenProperties DEF IInv, TypeOK
  <2>5. IsFiniteSet({k \in DOMAIN stream[r] : stream[r][k] = "token"})
    <3>1. IsFiniteSet(1..n)
      BY FS_Interval
    <3>2. {k \in DOMAIN stream[r] : stream[r][k] = "token"} \in SUBSET (1..n)
      BY <2>4
    <3> QED BY <3>1, <3>2, FS_Subset
  <2>6. {k \in DOMAIN stream[r] : stream[r][k] = "token"} = {}
    BY <2>2, <2>3, <2>5, FS_EmptySet DEF Sent
  <2> QED BY <2>3, <2>6 DEF Got, ToSet
<1>5. ProgressFirst'
  BY <1>1, <1>4 DEF ProgressFirst, Got
<1>6. (Live => ~backendFailed)'
  BY <1>1 DEF StreamsInv, Live
<1> QED BY <1>1, <1>2, <1>3, <1>5, <1>6 DEF StreamsInv

\* A response is put on the queue of its request, whose entry is there.
LEMMA RespondKeeps ==
  ASSUME IInv, StreamsInv, NEW r \in Req, NEW m \in {"progress", "token", "last"}, Respond(r, m)
  PROVE  /\ StreamsInv'
         /\ ToSet(stream'[r]) = Got(r) \cup {m} \cup (IF m = "last" THEN {"none"} ELSE {})
         /\ r \in results /\ Got(r) \subseteq {"progress", "token"}
<1>1. /\ UNCHANGED <<client, stopped, requests, results, rows, backendFailed>>
      /\ phase = "respond" /\ responses # <<>> /\ Head(responses) = [id |-> r, message |-> m]
      /\ stream' = [stream EXCEPT ![r] = @ \o Messages(m)]
      /\ IF m = "last" THEN phase' = "store" /\ UNCHANGED responses
                       ELSE responses' = Tail(responses) /\ UNCHANGED phase
  BY DEF Respond, Responding, LoopUnchanged
<1>2. /\ stream \in [Req -> Seq(Message)] /\ stream[r] \in Seq(Message) /\ backendFailed = FALSE
      /\ Queued
  BY <1>1 DEF IInv, TypeOK, StreamsInv, Live
<1>3. PICK n \in Nat \ {0} :
        /\ DOMAIN responses = 1..n /\ responses[1] = [id |-> r, message |-> m]
        /\ DOMAIN Tail(responses) = 1..(n-1)
        /\ \A i \in 1..(n-1) : Tail(responses)[i] = responses[i+1]
  BY <1>1, TailElements DEF IInv, TypeOK
<1>4. r \in results /\ \A i \in 2..n : responses[i].id # r
  <2>1. 1 \in 1..n /\ \A i \in 2..n : i \in 1..n /\ 1 < i
    BY <1>3
  <2> QED BY <1>1, <1>3, <2>1 DEF IInv, RowsAndResults
<1>5. Got(r) \subseteq {"progress", "token"} /\ Ordered(stream[r], FALSE)
      /\ (m = "progress" => "token" \notin Got(r))
  <2>1. m = "progress" => "token" \notin Got(r)
    <3>1. 1 \in 1..n
      BY <1>3
    <3> QED BY <1>1, <1>3, <3>1 DEF StreamsInv, ProgressFirst
  <2> QED BY <1>1, <1>2, <1>4, <2>1 DEF StreamsInv, Sending, Leaving, Live
<1>6. /\ stream'[r] = stream[r] \o Messages(m)
      /\ \A x \in Req : x # r => stream'[x] = stream[x]
  BY <1>1, <1>2
<1>7. PICK s \in Seq(Message) : s = Append(stream[r], m) /\ m \in Message
  BY <1>2, Holds DEF Message
<1>8. ToSet(s) = Got(r) \cup {m} /\ Ordered(s, FALSE)
  <2>1. \A a \in ToSet(stream[r]) : Follows(a, m, FALSE)
    BY <1>5, RankTable DEF Got, Follows
  <2> QED BY <1>2, <1>5, <1>7, <2>1, OneMore, Holds DEF Got
<1>9. /\ ToSet(stream'[r]) = Got(r) \cup {m} \cup (IF m = "last" THEN {"none"} ELSE {})
      /\ Ordered(stream'[r], FALSE)
  <2>1. CASE m # "last"
    BY <1>2, <1>6, <1>7, <1>8, <2>1, MessagesSent
  <2>2. CASE m = "last"
    <3>1. stream'[r] = Append(s, "none") /\ "none" \in Message
      BY <1>2, <1>6, <1>7, <2>2, MessagesSent DEF Message, Terminals
    <3>2. \A a \in ToSet(s) : Follows(a, "none", FALSE)
      BY <1>5, <1>8, RankTable, <2>2 DEF Follows, Terminals
    <3>3. ToSet(stream'[r]) = ToSet(s) \cup {"none"}
      BY <3>1, Holds
    <3>4. Ordered(stream'[r], FALSE)
      BY <1>8, <3>1, <3>2, OneMore
    <3> QED BY <1>8, <2>2, <3>3, <3>4
  <2> QED BY <2>1, <2>2
<1>10. Queued'
  <2>1. \A x \in Req : x \notin results => stream'[x] = stream[x]
    BY <1>4, <1>6
  <2>2. Accepted' = Accepted
    BY <1>1 DEF Accepted
  <2>3. \A i \in DOMAIN requests : \A item : item = requests[i] => ItemKnown(item)'
    BY <1>1, <1>2, <2>1, <2>2, ItemStaysKnown DEF IInv
  <2>4. \A x \in Req : x \notin Accepted' => x \notin results' /\ stream'[x] = <<>>
    BY <1>1, <1>2, <2>1, <2>2 DEF Queued
  <2> QED BY <1>1, <1>2, <2>3, <2>4, SameQueued
<1>11. ASSUME NEW x \in Req
       PROVE  Sending(x)'
  <2>1. CASE x # r
    <3>1. stream'[x] = stream[x] /\ Sending(x)
      BY <1>6, <2>1 DEF StreamsInv
    <3>2. ~Leaving(x)' /\ ~Leaving(x)
      BY <1>1, <2>1 DEF Leaving
    <3> QED BY <1>1, <3>1, <3>2 DEF Sending, Live, Got
  <2>2. CASE x = r /\ m # "last"
    <3>1. Got(r)' \subseteq {"progress", "token"} /\ ~Leaving(r)'
      BY <1>1, <1>5, <1>9, <2>2 DEF Got, Leaving
    <3> QED BY <1>1, <1>2, <1>9, <2>2, <3>1 DEF Sending
  <2>3. CASE x = r /\ m = "last"
    <3>1. Got(r)' \subseteq {"progress", "token", "last", "none"} /\ "last" \in Got(r)'
      BY <1>5, <1>9, <2>3 DEF Got
    <3>2. Leaving(r)'
      BY <1>1, <2>3 DEF Leaving
    <3> QED BY <1>1, <1>2, <1>9, <2>3, <3>1, <3>2 DEF Sending
  <2> QED BY <2>1, <2>2, <2>3
<1>12. ProgressFirst'
  <2>1. CASE m = "last"
    <3>1. ASSUME NEW i \in DOMAIN responses, responses[i].message = "progress"
          PROVE  "token" \notin ToSet(stream'[responses[i].id])
      <4>1. i \in 2..n
        BY <1>3, <2>1, <3>1
      <4>2. responses[i].id # r /\ responses[i].id \in Req
        BY <1>1, <1>3, <1>4, <4>1 DEF IInv, RowsAndResults, TypeOK
      <4> QED BY <1>1, <1>6, <3>1, <4>2 DEF StreamsInv, ProgressFirst, Got
    <3> QED BY <1>1, <2>1, <3>1 DEF ProgressFirst, Got
  <2>2. CASE m # "last"
    <3>1. ASSUME NEW i \in 1..(n-1), responses'[i].message = "progress"
          PROVE  "token" \notin ToSet(stream'[responses'[i].id])
      <4>1. i+1 \in 2..n /\ i+1 \in 1..n /\ responses'[i] = responses[i+1]
        BY <1>1, <1>3, <2>2
      <4>2. responses[i+1].id # r /\ responses[i+1].id \in Req
        BY <1>1, <1>3, <1>4, <4>1 DEF IInv, RowsAndResults, TypeOK
      <4>3. "token" \notin Got(responses[i+1].id)
        BY <1>1, <1>3, <3>1, <4>1 DEF StreamsInv, ProgressFirst
      <4> QED BY <1>6, <4>1, <4>2, <4>3 DEF Got
    <3>2. DOMAIN responses' = 1..(n-1)
      BY <1>1, <1>3, <2>2
    <3> QED BY <3>1, <3>2 DEF ProgressFirst, Got
  <2> QED BY <2>1, <2>2
<1>13. (phase = "store" => responses # <<>> /\ Head(responses).message = "last")'
  BY <1>1
<1>14. (Live => ~backendFailed)'
  BY <1>1, <1>2
<1>15. StreamsInv'
  BY <1>10, <1>11, <1>12, <1>13, <1>14 DEF StreamsInv
<1> QED BY <1>4, <1>5, <1>9, <1>15

\* The entry of a finished request goes after its end was sent.
LEMMA StoreKeeps ==
  ASSUME IInv, StreamsInv, NEW r \in Req, StoreCache(r)
  PROVE  StreamsInv'
<1>1. /\ UNCHANGED <<client, stopped, stream, requests, rows, backendFailed>>
      /\ phase = "store" /\ phase' = "respond" /\ responses # <<>>
      /\ responses' = Tail(responses) /\ Head(responses).id = r
      /\ results' = results \ {r}
  BY DEF StoreCache, Responding, LoopUnchanged
<1>2. Queued'
  BY <1>1 DEF StreamsInv, Queued, ItemKnown, Accepted
<1>3. \A x \in Req : Sending(x)'
  BY <1>1 DEF StreamsInv, Sending, Leaving, Live, Got
<1>4. ProgressFirst'
  <2>1. PICK n \in Nat \ {0} :
        /\ DOMAIN responses = 1..n /\ DOMAIN Tail(responses) = 1..(n-1)
        /\ \A i \in 1..(n-1) : Tail(responses)[i] = responses[i+1]
    BY <1>1, TailElements DEF IInv, TypeOK
  <2>2. \A i \in 1..(n-1) : i+1 \in 1..n
    BY <2>1
  <2> QED BY <1>1, <2>1, <2>2 DEF StreamsInv, ProgressFirst, Got
<1>5. (Live => ~backendFailed)'
  BY <1>1 DEF StreamsInv, Live
<1> QED BY <1>1, <1>2, <1>3, <1>4, <1>5 DEF StreamsInv

\* At the end of the loop every entry is sent a cancelled message.
LEMMA EndLoopKeeps ==
  ASSUME TypeOK, StreamsInv, EndLoop
  PROVE  StreamsInv'
<1>1. /\ UNCHANGED <<client, stopped, requests, results, rows, responses, backendFailed>>
      /\ phase = "top" /\ phase' = "exited"
      /\ \A x \in Req : x \in results => stream'[x] = Append(stream[x], "cancelled")
      /\ \A x \in Req : x \notin results => stream'[x] = stream[x]
  BY DEF EndLoop, LoopUnchanged
<1>2. Queued /\ Accepted' = Accepted
  BY <1>1 DEF StreamsInv, Accepted
<1>3. \A i \in DOMAIN requests : \A item : item = requests[i] => ItemKnown(item)'
  BY <1>1, <1>2, ItemStaysKnown
<1>4. \A x \in Req : x \notin Accepted' => x \notin results' /\ stream'[x] = <<>>
  BY <1>1, <1>2 DEF Queued
<1>5. Queued'
  BY <1>1, <1>2, <1>3, <1>4, SameQueued
<1>6. ASSUME NEW x \in Req
      PROVE  Sending(x)'
  <2>1. Ordered(stream'[x], backendFailed)
    <3>1. CASE x \in results
      <4>1. "cancelled" \in Terminals /\ backendFailed \in BOOLEAN
        BY DEF TypeOK, Terminals
      <4>2. Ordered(stream[x], backendFailed) /\ Got(x) \subseteq {"progress", "token"}
        BY <1>1, <3>1 DEF StreamsInv, Sending, Leaving, Live
      <4> QED BY <1>1, <3>1, <4>1, <4>2, EndSent
    <3>2. CASE x \notin results
      BY <1>1, <3>2 DEF StreamsInv, Sending
    <3> QED BY <3>1, <3>2
  <2> QED BY <1>1, <2>1 DEF Sending, Leaving, Live
<1> QED BY <1>1, <1>5, <1>6 DEF StreamsInv, Live

\* A fatal error is sent to every entry, the one whose end is out included.
LEMMA FailKeeps ==
  ASSUME TypeOK, StreamsInv, NEW r \in Req, FailNew(r) \/ FailBatch(r)
  PROVE  StreamsInv'
<1>1. /\ UNCHANGED <<client, stopped, results, rows, responses>>
      /\ phase' = "failed" /\ backendFailed' = TRUE /\ Live
      /\ \A x \in Req : x \in results => stream'[x] = Append(stream[x], "error")
      /\ \A x \in Req : x \notin results => stream'[x] = stream[x]
  BY DEF FailNew, FailBatch, Fail, Failed, Live, TakeItem, Running
<1>2. Queued /\ Accepted' = Accepted
  BY <1>1 DEF StreamsInv, Accepted
<1>3. \A x \in Req : x \notin Accepted' => x \notin results' /\ stream'[x] = <<>>
  BY <1>1, <1>2 DEF Queued
<1>4. Queued'
  <2>1. CASE FailNew(r)
    <3>1. TakeItem("new", r)
      BY <2>1 DEF FailNew
    <3>2. \A item \in Behind : ItemKnown(item)'
      BY <1>1, <1>2, <3>1, BehindKnown
    <3> QED BY <1>2, <1>3, <3>1, <3>2, TakenQueued
  <2>2. CASE FailBatch(r)
    <3>1. UNCHANGED requests
      BY <2>2 DEF FailBatch
    <3>2. \A i \in DOMAIN requests : \A item : item = requests[i] => ItemKnown(item)'
      BY <1>1, <1>2, ItemStaysKnown
    <3> QED BY <1>2, <1>3, <3>1, <3>2, SameQueued
  <2> QED BY <2>1, <2>2
<1>5. ASSUME NEW x \in Req
      PROVE  Sending(x)'
  <2>1. Ordered(stream[x], FALSE)
    BY <1>1 DEF StreamsInv, Sending, TypeOK
  <2>2. Ordered(stream[x], TRUE)
    BY <2>1, OrderedFailed
  <2>3. Ordered(stream'[x], TRUE)
    <3>1. CASE x \in results
      <4>1. "error" \in Terminals
        BY DEF Terminals
      <4>2. \/ Got(x) \subseteq {"progress", "token"}
            \/ Got(x) \subseteq {"progress", "token", "last", "none"}
        BY <1>1, <3>1 DEF StreamsInv, Sending
      <4> QED BY <1>1, <2>2, <3>1, <4>1, <4>2, EndSent
    <3>2. CASE x \notin results
      BY <1>1, <2>2, <3>2
    <3> QED BY <3>1, <3>2
  <2> QED BY <1>1, <2>3 DEF Sending, Leaving, Live
<1> QED BY <1>1, <1>4, <1>5 DEF StreamsInv, Live

\* Every step keeps the queue and the response queues right.
LEMMA StreamsStep ==
  IInv /\ StreamsInv /\ [Next]_vars => StreamsInv'
<1> SUFFICES ASSUME IInv, StreamsInv, [Next]_vars PROVE StreamsInv'
  OBVIOUS
<1>0. TypeOK
  BY DEF IInv
<1>1. CASE \E r \in Req : \/ CallGenerate(r) \/ PutRequest(r) \/ StopGeneration(r)
                         \/ Leave(r) \/ EndStream(r)
  BY <1>0, <1>1, ClientKeeps
<1>2. CASE RequestShutdown \/ Joined
  BY <1>0, <1>2, ShutdownKeeps
<1>3. CASE NoItem \/ Check \/ BatchEmpty \/ EndResponses \/ ExitThread
  BY <1>0, <1>3, QuietKeeps
<1>4. CASE EndLoop
  BY <1>0, <1>4, EndLoopKeeps
<1>5. CASE \E r \in Req : HandleNew(r) \/ HandleCancel(r)
  BY <1>0, <1>5, NewKeeps, CancelKeeps
<1>6. CASE BatchNext
  BY <1>6, NextKeeps
<1>7. CASE \E r \in Req : StoreCache(r) \/ \E m \in {"progress", "token", "last"} : Respond(r, m)
  BY <1>7, StoreKeeps, RespondKeeps
<1>8. CASE \E r \in Req : FailNew(r) \/ FailBatch(r)
  BY <1>0, <1>8, FailKeeps
<1>9. CASE UNCHANGED vars
  <2>1. Queued'
    BY <1>9 DEF vars, StreamsInv, Queued, ItemKnown, Accepted
  <2> QED BY <1>9, <2>1, SameSending DEF vars, StreamsInv
<1> QED BY <1>1, <1>2, <1>3, <1>4, <1>5, <1>6, <1>7, <1>8, <1>9 DEF Next, GenerationThread

\* All queues start empty.
LEMMA StreamsInit ==
  Init => StreamsInv
<1> SUFFICES ASSUME Init PROVE StreamsInv
  OBVIOUS
<1>1. requests = <<>> /\ DOMAIN requests = {}
  BY EmptyDomain DEF Init
<1>2. Queued
  BY <1>1 DEF Init, Queued
<1>3. ASSUME NEW r \in Req
      PROVE  Sending(r)
  <2>1. stream[r] = <<>> /\ DOMAIN stream[r] = {}
    BY EmptyDomain DEF Init
  <2> QED BY <2>1 DEF Init, Sending, Ordered, Leaving
<1> QED BY <1>2, <1>3 DEF Init, StreamsInv

\* The invariant of the rows and that of the queues, together.
LEMMA KitInvariant ==
  Spec => [](IInv /\ StreamsInv)
<1>1. Init => IInv /\ StreamsInv
  BY IInvInit, StreamsInit
<1>2. IInv /\ StreamsInv /\ [Next]_vars => (IInv /\ StreamsInv)'
  BY IInvStep, StreamsStep
<1> QED BY <1>1, <1>2, PTL DEF Spec

\* Every response queue carries progress, tokens, one last token and one
\* terminal, in that order, and only an error of a fatal failure after the
\* terminal, whatever joins, leaves or fails beside it.
THEOREM StreamsStayInOrder == Spec => []StreamInOrder
<1>1. IInv /\ StreamsInv => StreamInOrder
  BY DEF StreamsInv, Sending, Ordered, Follows, StreamInOrder
<1> QED BY <1>1, KitInvariant, PTL

-----------------------------------------------------------------------------
(* The kit implements the abstract request service.                        *)

StatusNow == [r \in Req |-> Status(r)]
AskedNow == stopped \cup {r \in Req : client[r] = "ended"}

\* The abstract service counts with the same operator.
LEMMA SameCount == \A S : Service!Cardinality(S) = Cardinality(S)
BY DEF Service!Cardinality, Cardinality

\* A request has a status of its own: others keep theirs when it moves.
LEMMA OthersKeepStatus ==
  ASSUME NEW r \in Req, Accepted' = Accepted, results' \ {r} = results \ {r},
         \A x \in Req : x # r => stream'[x] = stream[x]
  PROVE  StatusNow' = [StatusNow EXCEPT ![r] = Status(r)']
<1>1. \A x \in Req : (client'[x] \in {"waiting", "ended"}) <=> (client[x] \in {"waiting", "ended"})
  BY DEF Accepted
<1>2. \A x \in Req : x # r => (x \in results' <=> x \in results)
  OBVIOUS
<1>3. \A x \in Req : x # r => Status(x)' = Status(x)
  BY <1>1, <1>2 DEF Status, Got
<1> QED BY <1>3 DEF StatusNow

\* Nobody moves when nothing is sent, accepted or started.
LEMMA SameStatus ==
  ASSUME UNCHANGED <<stream, results>>, Accepted' = Accepted
  PROVE  StatusNow' = StatusNow
<1>1. \A r \in Req : (client'[r] \in {"waiting", "ended"}) <=> (client[r] \in {"waiting", "ended"})
  BY DEF Accepted
<1> QED BY <1>1 DEF StatusNow, Status, Got

\* A step that sends nothing, accepts nobody and starts nobody.
LEMMA Stutters ==
  ASSUME UNCHANGED <<stream, results, client, stopped>>, Shutdown' <=> Shutdown
  PROVE  [Service!Next]_(Service!svars)
<1>1. Accepted' = Accepted
  BY DEF Accepted
<1>2. StatusNow' = StatusNow /\ AskedNow' = AskedNow
  BY <1>1, SameStatus DEF AskedNow
<1> QED BY <1>2 DEF Service!svars, StatusNow, AskedNow

\* Somebody asks for one request to be cancelled.
LEMMA Asks ==
  ASSUME NEW r \in Req, UNCHANGED <<stream, results, closer>>, Accepted' = Accepted,
         AskedNow' = AskedNow \cup {r}
  PROVE  [Service!Next]_(Service!svars)
<1>1. StatusNow' = StatusNow /\ (Shutdown' <=> Shutdown)
  BY SameStatus DEF Shutdown
<1>2. Service!Ask(r)
  BY <1>1 DEF Service!Ask, StatusNow, AskedNow
<1> QED BY <1>2 DEF Service!Next

\* One request moves.
LEMMA Moves ==
  ASSUME NEW r \in Req, NEW to, StatusNow' = [StatusNow EXCEPT ![r] = to],
         AskedNow' = AskedNow, closer' = closer,
         \/ StatusNow[r] = "new" /\ to = "accepted"
         \/ StatusNow[r] = "running" /\ to = "completed"
         \/ StatusNow[r] = "running" /\ to = "cancelled" /\ r \in AskedNow
  PROVE  [Service!Next]_(Service!svars)
<1>0. Shutdown' <=> Shutdown
  BY DEF Shutdown
<1>1. CASE StatusNow[r] = "new" /\ to = "accepted"
  <2>1. Service!Accept(r)
    BY <1>0, <1>1 DEF Service!Accept, Service!Move, StatusNow, AskedNow
  <2> QED BY <2>1 DEF Service!Next
<1>2. CASE StatusNow[r] = "running" /\ to = "completed"
  <2>1. Service!Complete(r)
    BY <1>0, <1>2 DEF Service!Complete, Service!Move, StatusNow, AskedNow
  <2> QED BY <2>1 DEF Service!Next
<1>3. CASE StatusNow[r] = "running" /\ to = "cancelled" /\ r \in AskedNow
  <2>1. Service!Cancel(r)
    BY <1>0, <1>3 DEF Service!Cancel, Service!Move, StatusNow, AskedNow
  <2> QED BY <2>1 DEF Service!Next
<1> QED BY <1>1, <1>2, <1>3

\* An entry that was sent nothing but progress and tokens is running.
LEMMA EntryRuns ==
  ASSUME NEW r \in results, Got(r) \subseteq {"progress", "token"}
  PROVE  Status(r) = "running"
BY DEF Status

\* A caller is accepted when its request is queued, or asks for a cancel.
LEMMA ClientServes ==
  ASSUME TypeOK, Queued, NEW r \in Req,
         CallGenerate(r) \/ PutRequest(r) \/ StopGeneration(r) \/ Leave(r) \/ EndStream(r)
  PROVE  [Service!Next]_(Service!svars)
<1>0. UNCHANGED <<stream, results, closer>>
  BY DEF CallGenerate, PutRequest, StopGeneration, Leave, EndStream, ClientUnchanged
<1>1. CASE CallGenerate(r)
  <2>1. Accepted' = Accepted /\ AskedNow' = AskedNow
    BY <1>1 DEF CallGenerate, Accepted, AskedNow, TypeOK
  <2>2. StatusNow' = StatusNow /\ (Shutdown' <=> Shutdown)
    BY <1>0, <2>1, SameStatus DEF Shutdown
  <2> QED BY <2>1, <2>2 DEF Service!svars, StatusNow, AskedNow
<1>2. CASE PutRequest(r)
  <2>1. Accepted' = Accepted \cup {r} /\ r \notin Accepted /\ AskedNow' = AskedNow
    BY <1>2 DEF PutRequest, Accepted, AskedNow, TypeOK
  <2>2. r \notin results /\ Got(r) = {}
    BY <2>1 DEF Queued, Got, ToSet
  <2>3. Status(r) = "new"
    BY <2>1, <2>2 DEF Status, Accepted
  <2>4. Status(r)' = "accepted"
    BY <1>0, <2>1, <2>2 DEF Status, Accepted, Got
  <2>5. \A x \in Req : x # r => Status(x)' = Status(x)
    <3>1. \A x \in Req : x # r => client'[x] = client[x]
      BY <1>2 DEF PutRequest, TypeOK
    <3> QED BY <1>0, <3>1 DEF Status, Got
  <2>6. StatusNow' = [StatusNow EXCEPT ![r] = "accepted"] /\ StatusNow[r] = "new"
    BY <2>3, <2>4, <2>5 DEF StatusNow
  <2> QED BY <1>0, <2>1, <2>6, Moves
<1>3. CASE StopGeneration(r) \/ Leave(r) \/ EndStream(r)
  <2>1. Accepted' = Accepted
    BY <1>3 DEF StopGeneration, Leave, EndStream, Accepted, TypeOK
  <2>2. AskedNow' = AskedNow \cup {r}
    BY <1>3 DEF StopGeneration, Leave, EndStream, AskedNow, TypeOK
  <2> QED BY <1>0, <2>1, <2>2, Asks
<1> QED BY <1>1, <1>2, <1>3

\* A request taken off the queue starts: fewer than all others are running.
LEMMA NewServes ==
  ASSUME IsFiniteSet(Req), TypeOK, StreamsInv, NEW r \in Req, HandleNew(r)
  PROVE  [Service!Next]_(Service!svars)
<1>1. /\ TakeItem("new", r) /\ results' = results \cup {r}
      /\ UNCHANGED <<stream, client, stopped, closer>>
  BY DEF HandleNew, Inserted, LoopUnchanged
<1>2. r \in Accepted \ results /\ stream[r] = <<>>
  <2>1. ItemKnown(Item("new", r))
    BY <1>1, BehindKnown DEF StreamsInv
  <2> QED BY <2>1 DEF ItemKnown, Item
<1>3. Got(r) = {}
  BY <1>2 DEF Got, ToSet
<1>4. Status(r) = "accepted" /\ Status(r)' = "running"
  BY <1>1, <1>2, <1>3 DEF Status, Accepted, Got
<1>5. AskedNow' = AskedNow /\ Accepted' = Accepted /\ (Shutdown' <=> Shutdown)
  BY <1>1 DEF AskedNow, Accepted, Shutdown
<1>6. StatusNow' = [StatusNow EXCEPT ![r] = "running"] /\ StatusNow[r] = "accepted"
  BY <1>1, <1>4, <1>5, OthersKeepStatus DEF StatusNow
<1>7. Service!Cardinality(Service!Running) < Cardinality(Req)
  <2>1. Service!Running \subseteq Req /\ r \notin Service!Running
    BY <1>6 DEF Service!Running, StatusNow
  <2>2. PICK S : S = Service!Running
    OBVIOUS
  <2>3. S \subseteq Req \ {r}
    BY <2>1, <2>2
  <2>4. IsFiniteSet(Req \ {r}) /\ Cardinality(Req \ {r}) = Cardinality(Req) - 1
    BY FS_RemoveElement
  <2>5. Cardinality(S) <= Cardinality(Req \ {r}) /\ Cardinality(S) \in Nat
    BY <2>3, <2>4, FS_Subset, FS_CardinalityType
  <2>6. Cardinality(S) < Cardinality(Req)
    BY <2>4, <2>5, FS_CardinalityType
  <2> QED BY <2>2, <2>6, SameCount
<1>8. Service!Start(r)
  BY <1>5, <1>6, <1>7 DEF Service!Start, Service!Move, StatusNow, AskedNow
<1> QED BY <1>8 DEF Service!Next

\* A cancel that finds its entry was asked for, and cancels it.
LEMMA CancelServes ==
  ASSUME TypeOK, StreamsInv, NEW r \in Req, HandleCancel(r)
  PROVE  [Service!Next]_(Service!svars)
<1>1. /\ TakeItem("cancel", r) /\ phase = "top" /\ results' \subseteq results
      /\ UNCHANGED <<client, stopped, closer>>
  BY DEF HandleCancel, Removed, LoopUnchanged, TakeItem, Running
<1>2. CASE r \notin results
  <2>1. UNCHANGED <<stream, results, client, stopped>> /\ (Shutdown' <=> Shutdown)
    BY <1>1, <1>2 DEF HandleCancel, Shutdown
  <2> QED BY <2>1, Stutters
<1>3. CASE r \in results
  <2>1. /\ results' = results \ {r}
        /\ stream' = [stream EXCEPT ![r] = Append(@, "cancelled")]
    BY <1>3 DEF HandleCancel, Removed
  <2>2. stream \in [Req -> Seq(Message)] /\ "cancelled" \in Message
    BY DEF TypeOK, Message, Terminals
  <2>3. r \in AskedNow
    <3>1. \A x \in Req : x \notin results => stream'[x] = stream[x]
      BY <1>3, <2>1, <2>2
    <3>2. ItemKnown(Item("cancel", r))
      BY <1>1, <3>1, BehindKnown DEF StreamsInv
    <3> QED BY <3>2 DEF ItemKnown, Item, AskedNow
  <2>4. Got(r) \subseteq {"progress", "token"}
    BY <1>1, <1>3 DEF StreamsInv, Sending, Leaving, Live
  <2>5. ToSet(stream'[r]) = Got(r) \cup {"cancelled"}
    BY <2>1, <2>2, Holds DEF Got
  <2>6. Status(r) = "running" /\ Status(r)' = "cancelled"
    <3>1. "last" \notin Got(r)' /\ "cancelled" \in Got(r)'
      BY <2>4, <2>5 DEF Got
    <3> QED BY <1>3, <2>4, <3>1, EntryRuns DEF Status
  <2>7. AskedNow' = AskedNow /\ Accepted' = Accepted
    BY <1>1 DEF AskedNow, Accepted
  <2>8. StatusNow' = [StatusNow EXCEPT ![r] = "cancelled"] /\ StatusNow[r] = "running"
    <3>1. \A x \in Req : x # r => stream'[x] = stream[x]
      BY <2>1, <2>2
    <3>2. results' \ {r} = results \ {r}
      BY <2>1
    <3> QED BY <2>6, <2>7, <3>1, <3>2, OthersKeepStatus DEF StatusNow
  <2> QED BY <1>1, <2>3, <2>7, <2>8, Moves
<1> QED BY <1>2, <1>3

\* The last response completes its request, others change no status.
LEMMA RespondServes ==
  ASSUME IInv, StreamsInv, NEW r \in Req, NEW m \in {"progress", "token", "last"}, Respond(r, m)
  PROVE  [Service!Next]_(Service!svars)
<1>1. /\ UNCHANGED <<client, stopped, results, closer>>
      /\ \A x \in Req : x # r => stream'[x] = stream[x]
  BY DEF Respond, LoopUnchanged, IInv, TypeOK
<1>2. /\ ToSet(stream'[r]) = Got(r) \cup {m} \cup (IF m = "last" THEN {"none"} ELSE {})
      /\ r \in results /\ Got(r) \subseteq {"progress", "token"}
  BY RespondKeeps
<1>3. Status(r) = "running"
  BY <1>2, EntryRuns
<1>4. Status(r)' = IF m = "last" THEN "completed" ELSE "running"
  <2>1. Got(r)' = ToSet(stream'[r])
    BY DEF Got
  <2> QED BY <1>1, <1>2, <2>1 DEF Status
<1>5. AskedNow' = AskedNow /\ Accepted' = Accepted /\ (Shutdown' <=> Shutdown)
  BY <1>1 DEF AskedNow, Accepted, Shutdown
<1>6. StatusNow' = [StatusNow EXCEPT ![r] = Status(r)'] /\ StatusNow[r] = "running"
  BY <1>1, <1>3, <1>5, OthersKeepStatus DEF StatusNow
<1>7. CASE m = "last"
  BY <1>1, <1>4, <1>5, <1>6, <1>7, Moves
<1>8. CASE m # "last"
  <2>1. StatusNow' = StatusNow
    BY <1>4, <1>6, <1>8 DEF StatusNow
  <2> QED BY <1>5, <2>1 DEF Service!svars, StatusNow, AskedNow
<1> QED BY <1>7, <1>8

\* The entry that leaves after its cache was stored stays completed.
LEMMA StoreServes ==
  ASSUME TypeOK, StreamsInv, NEW r \in Req, StoreCache(r)
  PROVE  [Service!Next]_(Service!svars)
<1>1. /\ UNCHANGED <<client, stopped, stream, closer>> /\ results' = results \ {r}
      /\ Leaving(r)
  BY DEF StoreCache, Responding, LoopUnchanged, Leaving
<1>2. "last" \in Got(r)
  BY <1>1 DEF StreamsInv, Sending
<1>3. Status(r) = "completed" /\ Status(r)' = "completed"
  BY <1>1, <1>2 DEF Status, Got
<1>4. AskedNow' = AskedNow /\ Accepted' = Accepted /\ (Shutdown' <=> Shutdown)
  BY <1>1 DEF AskedNow, Accepted, Shutdown
<1>5. StatusNow' = [StatusNow EXCEPT ![r] = Status(r)']
  <2>1. results' \ {r} = results \ {r}
    BY <1>1
  <2> QED BY <1>1, <1>4, <2>1, OthersKeepStatus
<1>6. StatusNow' = StatusNow
  BY <1>3, <1>5 DEF StatusNow
<1> QED BY <1>4, <1>6 DEF Service!svars, StatusNow, AskedNow

\* Shutdown cancels, and a fatal error fails, every entry that is running.
LEMMA StopServes ==
  ASSUME TypeOK, StreamsInv, Live, NEW m \in {"cancelled", "error"},
         stream' = [r \in Req |-> IF r \in results THEN Append(stream[r], m) ELSE stream[r]],
         UNCHANGED <<client, stopped, results, closer>>,
         m = "cancelled" => Shutdown /\ phase = "top"
  PROVE  [Service!Next]_(Service!svars)
<1> DEFINE Over == {r \in results : ~Leaving(r)}
           outcome == IF m = "cancelled" THEN "cancelled" ELSE "failed"
<1>1. results \subseteq Req /\ stream \in [Req -> Seq(Message)] /\ m \in Message
  BY DEF TypeOK, Message, Terminals
<1>2. ASSUME NEW r \in Req, r \in Over
      PROVE  StatusNow[r] = "running" /\ Status(r)' = outcome
  <2>1. r \in results /\ Got(r) \subseteq {"progress", "token"}
    BY <1>2 DEF StreamsInv, Sending
  <2>2. Got(r)' = Got(r) \cup {m}
    BY <1>1, <2>1, Holds DEF Got
  <2> QED BY <2>1, <2>2, EntryRuns DEF Status, StatusNow
<1>3. ASSUME NEW r \in Req, r \notin Over
      PROVE  Status(r)' = StatusNow[r]
  <2>1. CASE r \in results
    <3>1. "last" \in Got(r)
      BY <1>3, <2>1 DEF StreamsInv, Sending
    <3>2. Got(r)' = Got(r) \cup {m}
      BY <1>1, <2>1, Holds DEF Got
    <3> QED BY <3>1, <3>2 DEF Status, StatusNow
  <2>2. CASE r \notin results
    <3>1. stream'[r] = stream[r]
      BY <2>2
    <3> QED BY <3>1 DEF Status, StatusNow, Got
  <2> QED BY <2>1, <2>2
<1>4. Over \subseteq Service!Unanswered
  <2>1. \A r \in Over : r \in Req /\ StatusNow[r] = "running"
    BY <1>1, <1>2
  <2> QED BY <2>1 DEF Service!Unanswered, StatusNow
<1>5. StatusNow' = [r \in Req |-> IF r \in Over THEN outcome ELSE StatusNow[r]]
  BY <1>2, <1>3 DEF StatusNow
<1>6. AskedNow' = AskedNow /\ (Shutdown' <=> Shutdown)
  BY DEF AskedNow, Shutdown
<1>7. outcome \in {"cancelled", "failed"} /\ (outcome = "failed" \/ Shutdown)
  OBVIOUS
<1> HIDE DEF Over, outcome
<1>8. Service!Stop(outcome)
  BY <1>4, <1>5, <1>6, <1>7 DEF Service!Stop, StatusNow, AskedNow
<1> QED BY <1>7, <1>8 DEF Service!Next

\* Every step of the kit is a step of the service, or changes nothing there.
LEMMA KitServes ==
  ASSUME IsFiniteSet(Req)
  PROVE  IInv /\ StreamsInv /\ [Next]_vars => [Service!Next]_(Service!svars)
<1> SUFFICES ASSUME IInv, StreamsInv, [Next]_vars PROVE [Service!Next]_(Service!svars)
  OBVIOUS
<1>0. TypeOK /\ Queued
  BY DEF IInv, StreamsInv
<1>1. CASE \E r \in Req : \/ CallGenerate(r) \/ PutRequest(r) \/ StopGeneration(r)
                          \/ Leave(r) \/ EndStream(r)
  BY <1>0, <1>1, ClientServes
<1>2. CASE RequestShutdown
  <2>1. UNCHANGED <<stream, results, client, stopped>> /\ ~Shutdown /\ Shutdown'
    BY <1>2 DEF RequestShutdown, Shutdown
  <2>2. StatusNow' = StatusNow /\ AskedNow' = AskedNow
    BY <2>1, SameStatus DEF AskedNow, Accepted
  <2>3. Service!Close
    BY <2>1, <2>2 DEF Service!Close, StatusNow, AskedNow
  <2> QED BY <2>3 DEF Service!Next
<1>3. CASE Joined \/ NoItem \/ Check \/ BatchNext \/ EndResponses \/ BatchEmpty \/ ExitThread
           \/ UNCHANGED vars
  <2>1. UNCHANGED <<stream, results, client, stopped>> /\ (Shutdown' <=> Shutdown)
    BY <1>3 DEF Joined, NoItem, Check, BatchNext, EndResponses, BatchEmpty, ExitThread,
                LoopUnchanged, Shutdown, vars
  <2> QED BY <2>1, Stutters
<1>4. CASE EndLoop
  <2>1. /\ stream' = [r \in Req |-> IF r \in results THEN Append(stream[r], "cancelled")
                                                     ELSE stream[r]]
        /\ UNCHANGED <<client, stopped, results, closer>> /\ Live /\ Shutdown /\ phase = "top"
    BY <1>4 DEF EndLoop, LoopEnds, LoopUnchanged, Live
  <2> QED BY <1>0, <2>1, StopServes
<1>5. CASE \E r \in Req : FailNew(r) \/ FailBatch(r)
  <2>1. /\ stream' = [r \in Req |-> IF r \in results THEN Append(stream[r], "error")
                                                     ELSE stream[r]]
        /\ UNCHANGED <<client, stopped, results, closer>> /\ Live
    BY <1>5 DEF FailNew, FailBatch, Fail, Failed, TakeItem, Running, Live
  <2> QED BY <1>0, <2>1, StopServes
<1>6. CASE \E r \in Req : HandleNew(r) \/ HandleCancel(r) \/ StoreCache(r)
  BY <1>0, <1>6, NewServes, CancelServes, StoreServes
<1>7. CASE \E r \in Req : \E m \in {"progress", "token", "last"} : Respond(r, m)
  BY <1>7, RespondServes
<1> QED BY <1>1, <1>2, <1>3, <1>4, <1>5, <1>6, <1>7 DEF Next, GenerationThread

\* The kit is a request service, for every finite set of requests (the
\* service's limit is their number: mlx-lm keeps the limit of the batch):
\* an outcome never changes once it is out, and, unless the kit is shutting
\* down, only who was stopped or left is cancelled.
THEOREM TextImplementsService ==
  ASSUME IsFiniteSet(Req)
  PROVE  Spec => ImplementsService
<1>1. Init => Service!Init
  <2> SUFFICES ASSUME Init PROVE Service!Init
    OBVIOUS
  <2>1. \A r \in Req : Status(r) = "new"
    <3>1. \A r \in Req : Got(r) = {}
      BY DEF Init, Got, ToSet
    <3> QED BY <3>1 DEF Init, Status
  <2>2. stopped \cup {r \in Req : client[r] = "ended"} = {} /\ ~Shutdown
    BY DEF Init, Shutdown
  <2> QED BY <2>1, <2>2 DEF Service!Init
<1> QED BY <1>1, KitServes, KitInvariant, PTL DEF Spec, ImplementsService, Service!Spec

-----------------------------------------------------------------------------
(* What a caller's reporter is told while its prompt is processed.        *)

\* What a reporter r has heard: of a prompt of t tokens of which c were
\* cached.
Kinds == {"begin", "update", "finish"}
EventSet == [kind : Kinds, draft : BOOLEAN, tokens : Nat]
ContextSet == [cached : Nat, total : Nat, last : Nat]

Reporters == [context : ContextSet, events : Seq(EventSet), percents : Seq(Nat), stopped : BOOLEAN]

IsFinished(r) == \E i \in DOMAIN r.events : r.events[i].kind = "finish"

EventsInOrder(es) ==
  \A i \in DOMAIN es :
    /\ es[i].kind = "begin" <=> i = 1
    /\ es[i].kind = "finish" => i = Len(es)
    /\ \A j \in DOMAIN es : j < i /\ ~es[j].draft /\ ~es[i].draft => es[j].tokens <= es[i].tokens

FinishesAt(es, n) == \A i \in DOMAIN es : es[i].kind = "finish" => es[i].tokens = n

Climbs(ps) ==
  /\ \A i, j \in DOMAIN ps : i < j => ps[i] <= ps[j]
  /\ \A i \in DOMAIN ps : ps[i] <= 100

HeardRight(r, c, t) ==
  /\ r \in Reporters
  /\ EventsInOrder(r.events)
  /\ FinishesAt(r.events, t - 1 - c)
  /\ Climbs(r.percents)

\* It has begun, and may hear of n tokens and more.
Hears(r, c, t, n) ==
  /\ r.events # <<>> /\ ~IsFinished(r)
  /\ r.context = [cached |-> c, total |-> t, last |-> n]
  /\ n <= t - 1 - c
  /\ \A i \in DOMAIN r.events : ~r.events[i].draft => r.events[i].tokens <= n
  /\ \A i \in DOMAIN r.percents : r.percents[i] <= Percent(r.context, n)

NotBegun(r) == r.events = <<>> /\ r.percents = <<>>

-----------------------------------------------------------------------------
News == [kind : Kinds \cup {"pair", "token"}, tokens : Nat]

KitRight ==
  /\ kit \in {"sequential", "text", "vision"}
  /\ total \in 1..MaxTotal /\ cached \in 0..Prefill
  /\ kit = "text" => cached = 0
  /\ processed \in cached..total
  /\ stage \in {"start", "draft", "main", "ready", "decode", "gone"}
  /\ first \in BOOLEAN /\ finished \in BOOLEAN /\ removed \in BOOLEAN
  /\ caller \in {"reading", "cancelled", "raised", "done"}
  /\ shown \in Nat
  /\ queue \in Seq(News)
  /\ stage = "start" => processed = cached
  /\ stage \in {"draft", "main"} => processed <= Prefill
  /\ stage = "ready" => processed = Prefill
  /\ stage = "draft" => kit = "sequential"
  /\ stage = "decode" => processed = IF kit = "sequential" THEN Prefill ELSE total

SequentialRight ==
  kit = "sequential" =>
    /\ queue = <<>>
    /\ shown <= MaxShown
    /\ stage # "ready"
    /\ stage # "gone" => caller = "reading"
    /\ stage = "start" => NotBegun(reporter)
    /\ stage = "draft" => Hears(reporter, cached, total, 0)
    /\ stage = "main" => Hears(reporter, cached, total, processed - cached)
    /\ stage = "decode" => IsFinished(reporter)
    /\ shown > 0 => reporter.stopped \/ IsFinished(reporter)

\* The items a batched kit has queued: nothing of the prompt behind a token, and
\* its counts climb.
InOrder(q) ==
  \A i, j \in DOMAIN q : i < j =>
    /\ q[i].kind = "token" => q[j].kind = "token"
    /\ q[j].kind # "token" => q[i].tokens <= q[j].tokens

TokensIn(q) == {i \in DOMAIN q : q[i].kind = "token"}
OnlyTokens(q) == \A i \in DOMAIN q : q[i].kind = "token"
FinishIn(q) == \E i \in DOMAIN q : q[i].kind = "finish"

\* None of them falls behind n.
AtLeast(q, n) == \A i \in DOMAIN q : q[i].kind # "token" => n <= q[i].tokens

\* The items of the vision kit: it begins, unless that was read, counts to what is done,
\* finishes once and then gives tokens.
VisionItems(q, unread, done, work, ended) ==
  \A i \in DOMAIN q :
    /\ q[i].kind # "pair"
    /\ q[i].kind = "begin" <=> i = 1 /\ unread
    /\ q[i].kind = "begin" => q[i].tokens = 0
    /\ q[i].kind # "token" => q[i].tokens <= done /\ q[i].tokens <= work
    /\ q[i].kind = "finish" => /\ q[i].tokens = work
                              /\ \A j \in DOMAIN q : j > i => q[j].kind = "token"
    /\ q[i].kind = "token" => ended

VisionRight ==
  kit = "vision" =>
    /\ InOrder(queue) /\ shown + Cardinality(TokensIn(queue)) <= MaxShown
    /\ stage \in {"start", "main"} => ~finished
    /\ stage = "decode" => finished
    /\ finished <=> IsFinished(reporter) \/ FinishIn(queue)
    /\ stage = "start" => NotBegun(reporter) /\ queue = <<>>
    /\ VisionItems(queue, NotBegun(reporter), processed - cached, Prefill - cached, finished)
    /\ IsFinished(reporter) => OnlyTokens(queue)
    /\ NotBegun(reporter) /\ stage \notin {"start", "gone"} => queue # <<>>
    /\ caller = "reading" =>
         \/ NotBegun(reporter) \/ IsFinished(reporter)
         \/ \E n \in Nat : /\ Hears(reporter, cached, total, n) /\ n <= processed - cached
                           /\ AtLeast(queue, n)
    /\ reporter.stopped => caller # "reading"
    /\ caller \in {"cancelled", "raised"} => removed
    /\ shown > 0 => reporter.stopped \/ IsFinished(reporter)

\* The items of the text kit: pairs up to what is processed, and then tokens.
TextItems(q, done, all) ==
  \A i \in DOMAIN q :
    /\ q[i].kind \in {"pair", "token"}
    /\ q[i].kind = "pair" => q[i].tokens <= done
    /\ q[i].kind = "token" => done = all

PairIn(q, n) == \E i \in DOMAIN q : q[i].kind = "pair" /\ q[i].tokens = n

TextRight ==
  kit = "text" =>
    /\ InOrder(queue) /\ shown + Cardinality(TokensIn(queue)) <= MaxShown
    /\ TextItems(queue, processed, total)
    /\ first => NotBegun(reporter) /\ ~finished
    /\ finished => IsFinished(reporter)
    /\ caller = "reading" /\ ~finished /\ ~first =>
         \E n \in Nat : Hears(reporter, cached, total, n) /\ n <= processed /\ AtLeast(queue, n)
    /\ processed = total =>
         reporter.stopped \/ finished \/ caller # "reading" \/ PairIn(queue, total)
    /\ shown > 0 => reporter.stopped \/ IsFinished(reporter)

ProgressInv ==
  /\ KitRight
  /\ HeardRight(reporter, cached, total)
  /\ SequentialRight
  /\ VisionRight
  /\ TextRight

\* A product with the greater factor is the greater one.
LEMMA ProductClimbs ==
  ASSUME NEW w \in Nat \ {0}, NEW a \in Nat, NEW b \in Nat, b + 1 <= a
  PROVE  w * b + w <= w * a
<1>1. PICK d \in Nat : a = (b + 1) + d
  BY a - (b + 1) \in Nat
<1>2. w * a = w * (b + 1) + w * d /\ w * (b + 1) = w * b + w
  BY <1>1
<1>3. w * d \in Nat /\ w * b \in Nat
  OBVIOUS
<1> QED BY <1>2, <1>3

\* Division rounds down.
LEMMA DivisionIs ==
  ASSUME NEW w \in Nat \ {0}, NEW n \in Nat
  PROVE  /\ n \div w \in Nat
         /\ w * (n \div w) <= n /\ n < w * (n \div w) + w
<1>1. n = w * (n \div w) + (n % w) /\ n % w \in 0..(w - 1) /\ n \div w \in Int
  OBVIOUS
<1>2. n \div w \in Nat
  OBVIOUS
<1>3. w * (n \div w) \in Nat
  BY <1>2
<1> QED BY <1>1, <1>2, <1>3

\* Integer division by a width is monotonic.
LEMMA DivisionClimbs ==
  ASSUME NEW w \in Nat \ {0}, NEW m \in Nat, NEW n \in Nat, m <= n
  PROVE  m \div w <= n \div w
<1>1. PICK a, b : a = m \div w /\ b = n \div w
  OBVIOUS
<1>2. a \in Nat /\ b \in Nat /\ w * a <= m /\ n < w * b + w
  BY <1>1, DivisionIs
<1>3. CASE b < a
  <2>1. w * b + w <= w * a
    BY <1>2, <1>3, ProductClimbs
  <2>2. w * a \in Nat /\ w * b \in Nat
    BY <1>2
  <2> QED BY <1>2, <2>1, <2>2
<1> QED BY <1>1, <1>2, <1>3

\* The percentage of what is to be prefilled climbs with it, up to 100.
LEMMA PercentsGrow ==
  ASSUME NEW c \in Nat, NEW t \in Nat, c <= t - 1, NEW context \in ContextSet,
         context.cached = c, context.total = t,
         NEW m \in Nat, NEW n \in Nat, m <= n, n <= t - 1 - c
  PROVE  /\ Percent(context, m) \in Nat /\ Percent(context, n) \in Nat
         /\ Percent(context, m) <= Percent(context, n) /\ Percent(context, n) <= 100
<1>1. PICK w : w = t - 1 - c
  OBVIOUS
<1>2. w \in Nat /\ n <= w /\ m <= w /\ t # 0
  BY <1>1
<1>3. \A k \in Nat : k <= w => Percent(context, k) = IF w = 0 THEN 100 ELSE (100 * k) \div w
  BY <1>1, <1>2 DEF Percent
<1>4. CASE w = 0
  BY <1>2, <1>3, <1>4
<1>5. CASE w # 0
  <2>1. 100 * m \in Nat /\ 100 * n \in Nat /\ 100 * w \in Nat /\ 100 * m <= 100 * n /\ 100 * n <= 100 * w
    BY <1>2
  <2>2. (100 * m) \div w <= (100 * n) \div w /\ (100 * n) \div w <= (100 * w) \div w
    BY <1>2, <1>5, <2>1, DivisionClimbs
  <2>3. (100 * m) \div w \in Nat /\ (100 * n) \div w \in Nat
    BY <1>2, <1>5, <2>1, DivisionIs
  <2>4. (100 * w) \div w = 100
    <3>1. PICK q : q = (100 * w) \div w
      OBVIOUS
    <3>2. q \in Nat /\ w * q <= 100 * w /\ 100 * w < w * q + w
      BY <1>2, <1>5, <2>1, <3>1, DivisionIs
    <3>3. ~(q >= 101)
      <4>1. SUFFICES ASSUME 101 <= q PROVE FALSE
        BY <3>2
      <4>2. w * 100 + w <= w * q
        BY <1>2, <1>5, <3>2, <4>1, ProductClimbs
      <4> QED BY <1>2, <1>5, <3>2, <4>2
    <3>4. ~(q <= 99)
      <4>1. SUFFICES ASSUME q + 1 <= 100 PROVE FALSE
        BY <3>2
      <4>2. w * q + w <= w * 100
        BY <1>2, <1>5, <3>2, <4>1, ProductClimbs
      <4> QED BY <1>2, <1>5, <3>2, <4>2
    <3> QED BY <3>1, <3>2, <3>3, <3>4
  <2> QED BY <1>2, <1>3, <1>5, <2>2, <2>3, <2>4
<1> QED BY <1>4, <1>5

-----------------------------------------------------------------------------
(* A reporter is told one event more.                                      *)

\* One event more, in its place, leaves the events in order and the finish at the total.
LEMMA OneMoreEvent ==
  ASSUME NEW es \in Seq(EventSet), NEW N, EventsInOrder(es), FinishesAt(es, N),
         NEW e \in EventSet,
         \A i \in DOMAIN es : es[i].kind # "finish",
         e.kind = "begin" <=> es = <<>>,
         ~e.draft => \A i \in DOMAIN es : ~es[i].draft => es[i].tokens <= e.tokens,
         e.kind = "finish" => e.tokens = N
  PROVE  /\ Append(es, e) \in Seq(EventSet) /\ Append(es, e) # <<>>
         /\ EventsInOrder(Append(es, e)) /\ FinishesAt(Append(es, e), N)
<1>1. PICK fs : fs = Append(es, e)
  OBVIOUS
<1>2. PICK n : n = Len(es)
  OBVIOUS
<1>3. /\ fs \in Seq(EventSet) /\ fs # <<>> /\ Len(fs) = n + 1 /\ n \in Nat /\ DOMAIN es = 1..n
      /\ DOMAIN fs = 1..(n + 1) /\ fs[n + 1] = e
      /\ \A i \in 1..n : fs[i] = es[i]
  BY <1>1, <1>2
<1>4. es = <<>> <=> n = 0
  BY <1>2
<1>5. ASSUME NEW i \in DOMAIN fs
      PROVE  /\ fs[i].kind = "begin" <=> i = 1
             /\ fs[i].kind = "finish" => i = Len(fs)
             /\ fs[i].kind = "finish" => fs[i].tokens = N
             /\ \A j \in DOMAIN fs : j < i /\ ~fs[j].draft /\ ~fs[i].draft => fs[j].tokens <= fs[i].tokens
  <2>1. CASE i = n + 1
    BY <1>3, <1>4, <2>1
  <2>2. CASE i # n + 1
    <3>1. i \in 1..n /\ i \in DOMAIN es /\ fs[i] = es[i]
      BY <1>3, <2>2
    <3>2. \A j \in DOMAIN fs : j < i => j \in DOMAIN es /\ fs[j] = es[j]
      BY <1>3, <3>1
    <3> QED BY <3>1, <3>2 DEF EventsInOrder
  <2> QED BY <2>1, <2>2
<1>6. EventsInOrder(fs)
  BY <1>5 DEF EventsInOrder
<1>7. FinishesAt(fs, N)
  BY <1>5 DEF FinishesAt
<1> QED BY <1>1, <1>3, <1>6, <1>7

\* One percentage more, no smaller than the others, leaves them climbing.
LEMMA OneMorePercent ==
  ASSUME NEW ps \in Seq(Nat), Climbs(ps), NEW p \in Nat, p <= 100,
         \A i \in DOMAIN ps : ps[i] <= p
  PROVE  /\ Append(ps, p) \in Seq(Nat) /\ Climbs(Append(ps, p))
         /\ \A i \in DOMAIN Append(ps, p) : Append(ps, p)[i] <= p
<1>1. PICK qs, n : qs = Append(ps, p) /\ n = Len(ps)
  OBVIOUS
<1>2. /\ qs \in Seq(Nat) /\ n \in Nat /\ DOMAIN ps = 1..n
      /\ DOMAIN qs = 1..(n + 1) /\ qs[n + 1] = p
      /\ \A i \in 1..n : qs[i] = ps[i] /\ ps[i] \in Nat
  BY <1>1
<1>3. \A i \in DOMAIN qs : qs[i] <= p /\ qs[i] <= 100
  <2> TAKE i \in DOMAIN qs
  <2>1. CASE i = n + 1
    BY <1>2, <2>1
  <2>2. CASE i \in 1..n
    BY <1>2, <2>2
  <2> QED BY <1>2, <2>1, <2>2
<1>4. ASSUME NEW i \in DOMAIN qs, NEW j \in DOMAIN qs, i < j PROVE qs[i] <= qs[j]
  <2>1. i \in 1..n
    BY <1>2, <1>4
  <2>2. CASE j = n + 1
    BY <1>2, <1>3, <2>2
  <2>3. CASE j # n + 1
    <3>1. j \in 1..n
      BY <1>2, <2>3
    <3> QED BY <1>2, <1>4, <2>1, <3>1 DEF Climbs
  <2> QED BY <2>2, <2>3
<1> QED BY <1>1, <1>2, <1>3, <1>4 DEF Climbs

\* The tokens of an event are a natural number.
LEMMA EventCounts ==
  ASSUME NEW es \in Seq(EventSet)
  PROVE  \A i \in DOMAIN es : es[i].tokens \in Nat
<1>1. \A i \in DOMAIN es : es[i] \in EventSet
  OBVIOUS
<1> QED BY <1>1 DEF EventSet

\* What a reporter is when it was told an event ...
LEMMA ToldIs ==
  ASSUME NEW r \in Reporters, NEW e \in EventSet, NEW a \in Answers
  PROVE  /\ Told(r, e, a).events = Append(r.events, e) /\ Told(r, e, a).percents = r.percents
         /\ Told(r, e, a).context = r.context
         /\ Told(r, e, a).stopped <=> r.stopped \/ a = "stop"
         /\ Told(r, e, a) \in Reporters
<1>1. PICK es : es = Append(r.events, e)
  OBVIOUS
<1>2. es \in Seq(EventSet)
  BY <1>1 DEF Reporters
<1>3. PICK b \in BOOLEAN : b = (r.stopped \/ a = "stop")
  OBVIOUS
<1>4. Told(r, e, a) = [r EXCEPT !.events = es, !.stopped = b]
  BY <1>1, <1>3, Zenon DEF Told
<1>5. [r EXCEPT !.events = es, !.stopped = b] \in Reporters
  BY <1>2 DEF Reporters
<1>6. /\ [r EXCEPT !.events = es, !.stopped = b].events = es
      /\ [r EXCEPT !.events = es, !.stopped = b].percents = r.percents
      /\ [r EXCEPT !.events = es, !.stopped = b].context = r.context
      /\ [r EXCEPT !.events = es, !.stopped = b].stopped = b
  BY DEF Reporters
<1> QED BY <1>1, <1>3, <1>4, <1>5, <1>6

\* ... and then a percentage.
ShownOn(r, a, c, p, s) ==
  /\ s \in Reporters /\ s.events = r.events /\ s.stopped = r.stopped
  /\ a = "raise" => s = r
  /\ a # "raise" => s.context = c /\ s.percents = Append(r.percents, p)

\* What a report shows is what the reporter is on afterwards.
LEMMA ShowsIs ==
  ASSUME NEW r \in Reporters, NEW a \in Answers, NEW c \in ContextSet, NEW p \in Nat
  PROVE  ShownOn(r, a, c, p, Shows(r, a, c, p))
<1>1. PICK ps : ps = Append(r.percents, p)
  OBVIOUS
<1>2. ps \in Seq(Nat)
  BY <1>1 DEF Reporters
<1>3. CASE a = "raise"
  BY <1>3 DEF Shows, ShownOn
<1>4. CASE a # "raise"
  <2>1. Shows(r, a, c, p) = [r EXCEPT !.context = c, !.percents = ps]
    BY <1>1, <1>4, Zenon DEF Shows
  <2>2. [r EXCEPT !.context = c, !.percents = ps] \in Reporters
    BY <1>2 DEF Reporters
  <2>3. /\ [r EXCEPT !.context = c, !.percents = ps].context = c
        /\ [r EXCEPT !.context = c, !.percents = ps].percents = ps
        /\ [r EXCEPT !.context = c, !.percents = ps].events = r.events
        /\ [r EXCEPT !.context = c, !.percents = ps].stopped = r.stopped
    BY DEF Reporters
  <2> QED BY <1>1, <1>4, <2>1, <2>2, <2>3 DEF ShownOn
<1> QED BY <1>3, <1>4

\* What an answer does to "stopped" and to what is heard.
Listened(r, s, a) ==
  /\ s.stopped <=> r.stopped \/ a = "stop"
  /\ s.events # <<>>

\* A reporter that begins.
LEMMA BeginRight ==
  ASSUME NEW c \in Nat, NEW t \in Nat, c <= t - 1, NEW r, HeardRight(r, c, t), NotBegun(r),
         NEW n \in Nat, n <= t - 1 - c, NEW a \in Answers
  PROVE  /\ HeardRight(Begin(r, c, t, n, a), c, t) /\ Listened(r, Begin(r, c, t, n, a), a)
         /\ ~IsFinished(Begin(r, c, t, n, a))
         /\ a # "raise" => Hears(Begin(r, c, t, n, a), c, t, n)
<1>1. PICK e : e = Event("begin", FALSE, n)
  OBVIOUS
<1>2. e \in EventSet /\ e.kind = "begin" /\ e.tokens = n
  BY <1>1 DEF Event, EventSet, Kinds
<1>3. PICK k : k = [cached |-> c, total |-> t, last |-> n]
  OBVIOUS
<1>4. k \in ContextSet /\ k.cached = c /\ k.total = t
  BY <1>3 DEF ContextSet
<1>5. PICK p : p = Percent(k, n)
  OBVIOUS
<1>6. p \in Nat /\ p <= 100
  BY <1>4, <1>5, PercentsGrow
<1>7. r \in Reporters /\ r.events = <<>> /\ r.percents = <<>>
  BY DEF HeardRight, NotBegun
<1>8. PICK q : q = Told(r, e, a)
  OBVIOUS
<1>9. q \in Reporters /\ q.events = Append(<<>>, e) /\ q.percents = <<>> /\ (q.stopped <=> r.stopped \/ a = "stop")
  BY <1>2, <1>7, <1>8, ToldIs
<1>10. PICK s : s = Shows(q, a, k, p)
  OBVIOUS
<1>11. Begin(r, c, t, n, a) = s
  BY <1>1, <1>3, <1>5, <1>8, <1>10, Zenon DEF Begin
<1>12. /\ s \in Reporters /\ s.events = q.events /\ s.stopped = q.stopped
       /\ a = "raise" => s = q
       /\ a # "raise" => s.context = k /\ s.percents = Append(<<>>, p)
  <2>1. q \in Reporters /\ k \in ContextSet /\ p \in Nat /\ q.percents = <<>>
    BY <1>4, <1>6, <1>9
  <2>2. ShownOn(q, a, k, p, s)
    BY <1>10, <2>1, ShowsIs
  <2> QED BY <2>1, <2>2 DEF ShownOn
<1>13. /\ <<>> \in Seq(EventSet) /\ EventsInOrder(<<>>) /\ FinishesAt(<<>>, t - 1 - c)
       /\ \A i \in DOMAIN <<>> : FALSE
  BY DEF EventsInOrder, FinishesAt
<1>14. PICK es : es = Append(<<>>, e)
  OBVIOUS
<1>15. es # <<>> /\ EventsInOrder(es) /\ FinishesAt(es, t - 1 - c)
  BY <1>2, <1>13, <1>14, OneMoreEvent
<1>16. DOMAIN es = 1..1 /\ es[1] = e
  BY <1>14
<1>17. <<>> \in Seq(Nat) /\ Climbs(<<>>) /\ \A i \in DOMAIN <<>> : FALSE
  BY DEF Climbs
<1>18. Climbs(Append(<<>>, p)) /\ \A i \in DOMAIN Append(<<>>, p) : Append(<<>>, p)[i] <= p
  BY <1>6, <1>17, OneMorePercent
<1>19. Climbs(s.percents)
  BY <1>9, <1>12, <1>17, <1>18
<1>20. ~IsFinished(s)
  BY <1>2, <1>9, <1>12, <1>14, <1>16 DEF IsFinished
<1>21. HeardRight(s, c, t)
  BY <1>9, <1>12, <1>14, <1>15, <1>19 DEF HeardRight
<1>22. Listened(r, s, a)
  BY <1>9, <1>12, <1>14, <1>15 DEF Listened
<1>23. ASSUME a # "raise" PROVE Hears(s, c, t, n)
  <2>1. \A i \in DOMAIN s.events : s.events[i].tokens <= n
    BY <1>2, <1>9, <1>12, <1>14, <1>16
  <2>2. s.percents = Append(<<>>, p) /\ s.context = k
    BY <1>12, <1>23
  <2>3. \A i \in DOMAIN s.percents : s.percents[i] <= Percent(s.context, n)
    BY <1>5, <1>18, <2>2
  <2> QED BY <1>3, <1>9, <1>12, <1>14, <1>15, <1>20, <2>1, <2>2, <2>3 DEF Hears
<1> QED BY <1>11, <1>20, <1>21, <1>22, <1>23

\* A reporter that goes on.
LEMMA UpdateRight ==
  ASSUME NEW c \in Nat, NEW t \in Nat, c <= t - 1, NEW r, HeardRight(r, c, t),
         NEW m \in Nat, Hears(r, c, t, m),
         NEW n \in Nat, m <= n, n <= t - 1 - c, NEW a \in Answers
  PROVE  /\ HeardRight(Update(r, FALSE, n, a), c, t) /\ Listened(r, Update(r, FALSE, n, a), a)
         /\ ~IsFinished(Update(r, FALSE, n, a))
         /\ a # "raise" => Hears(Update(r, FALSE, n, a), c, t, n)
<1>1. PICK e : e = Event("update", FALSE, n)
  OBVIOUS
<1>2. e \in EventSet /\ e.kind = "update" /\ e.tokens = n
  BY <1>1 DEF Event, EventSet, Kinds
<1>3. PICK k0, es0, ps0 : k0 = r.context /\ es0 = r.events /\ ps0 = r.percents
  OBVIOUS
<1>4. /\ r \in Reporters /\ es0 \in Seq(EventSet) /\ ps0 \in Seq(Nat)
      /\ EventsInOrder(es0) /\ FinishesAt(es0, t - 1 - c) /\ Climbs(ps0)
  BY <1>3 DEF HeardRight, Reporters
<1>5. /\ es0 # <<>> /\ k0 = [cached |-> c, total |-> t, last |-> m]
      /\ \A i \in DOMAIN es0 : es0[i].kind # "finish"
      /\ \A i \in DOMAIN es0 : ~es0[i].draft => es0[i].tokens <= m
      /\ \A i \in DOMAIN ps0 : ps0[i] <= Percent(k0, m)
  BY <1>3 DEF Hears, IsFinished
<1>6. \A i \in DOMAIN es0 : es0[i].tokens \in Nat
  BY <1>4, EventCounts
<1>7. PICK k : k = [k0 EXCEPT !.last = n]
  OBVIOUS
<1>8. /\ k = [cached |-> c, total |-> t, last |-> n] /\ k \in ContextSet /\ k0 \in ContextSet
      /\ k.cached = c /\ k.total = t /\ k0.cached = c /\ k0.total = t
  BY <1>5, <1>7 DEF ContextSet
<1>9. PICK p : p = Percent(k0, n)
  OBVIOUS
<1>10. p \in Nat /\ p <= 100 /\ Percent(k0, m) <= p /\ Percent(k0, m) \in Nat
  BY <1>8, <1>9, PercentsGrow
<1>11. Percent(k, n) = p
  BY <1>8, <1>9 DEF Percent
<1>12. PICK q : q = Told(r, e, a)
  OBVIOUS
<1>13. q \in Reporters /\ q.events = Append(es0, e) /\ q.percents = ps0 /\ (q.stopped <=> r.stopped \/ a = "stop")
  BY <1>2, <1>3, <1>4, <1>12, ToldIs
<1>14. PICK s : s = Shows(q, a, k, p)
  OBVIOUS
<1>15. Update(r, FALSE, n, a) = s
  BY <1>1, <1>3, <1>7, <1>9, <1>12, <1>14, Zenon DEF Update
<1>16. /\ s \in Reporters /\ s.events = q.events /\ s.stopped = q.stopped
       /\ a = "raise" => s = q
       /\ a # "raise" => s.context = k /\ s.percents = Append(ps0, p)
  <2>1. q \in Reporters /\ k \in ContextSet /\ p \in Nat /\ q.percents = ps0
    BY <1>8, <1>10, <1>13
  <2>2. ShownOn(q, a, k, p, s)
    BY <1>14, <2>1, ShowsIs
  <2> QED BY <2>1, <2>2 DEF ShownOn
<1>17. PICK es : es = Append(es0, e)
  OBVIOUS
<1>18. \A i \in DOMAIN es0 : ~es0[i].draft => es0[i].tokens <= e.tokens
  BY <1>2, <1>5, <1>6
<1>19. es # <<>> /\ EventsInOrder(es) /\ FinishesAt(es, t - 1 - c)
  BY <1>2, <1>4, <1>5, <1>17, <1>18, OneMoreEvent
<1>20. \A i \in DOMAIN es : (i \in DOMAIN es0 /\ es[i] = es0[i]) \/ es[i] = e
  BY <1>4, <1>17
<1>21. \A i \in DOMAIN ps0 : ps0[i] <= p
  <2>1. \A i \in DOMAIN ps0 : ps0[i] \in Nat
    BY <1>4
  <2> QED BY <1>5, <1>10, <2>1
<1>22. Climbs(Append(ps0, p)) /\ \A i \in DOMAIN Append(ps0, p) : Append(ps0, p)[i] <= p
  BY <1>4, <1>10, <1>21, OneMorePercent
<1>23. Climbs(s.percents)
  BY <1>4, <1>13, <1>16, <1>22
<1>24. ~IsFinished(s)
  BY <1>2, <1>5, <1>13, <1>16, <1>17, <1>20 DEF IsFinished
<1>25. HeardRight(s, c, t)
  BY <1>13, <1>16, <1>17, <1>19, <1>23 DEF HeardRight
<1>26. Listened(r, s, a)
  BY <1>13, <1>16, <1>17, <1>19 DEF Listened
<1>27. ASSUME a # "raise" PROVE Hears(s, c, t, n)
  <2>1. \A i \in DOMAIN s.events : ~s.events[i].draft => s.events[i].tokens <= n
    BY <1>2, <1>13, <1>16, <1>17, <1>18, <1>20
  <2>2. s.percents = Append(ps0, p) /\ s.context = k
    BY <1>16, <1>27
  <2>3. \A i \in DOMAIN s.percents : s.percents[i] <= Percent(s.context, n)
    BY <1>11, <1>22, <2>2
  <2> QED BY <1>8, <1>13, <1>16, <1>17, <1>19, <1>24, <2>1, <2>2, <2>3 DEF Hears
<1> QED BY <1>15, <1>24, <1>25, <1>26, <1>27

\* It is told of the draft model: nothing changes but what it has heard.
LEMMA DraftRight ==
  ASSUME NEW c \in Nat, NEW t \in Nat, c <= t - 1, NEW r, HeardRight(r, c, t),
         NEW m \in Nat, Hears(r, c, t, m), NEW n \in Nat, NEW a \in Answers
  PROVE  /\ HeardRight(Update(r, TRUE, n, a), c, t) /\ Listened(r, Update(r, TRUE, n, a), a)
         /\ ~IsFinished(Update(r, TRUE, n, a))
         /\ Hears(Update(r, TRUE, n, a), c, t, m)
<1>1. PICK e : e = Event("update", TRUE, n)
  OBVIOUS
<1>2. e \in EventSet /\ e.kind = "update" /\ e.draft
  BY <1>1 DEF Event, EventSet, Kinds
<1>3. PICK es0 : es0 = r.events
  OBVIOUS
<1>4. /\ r \in Reporters /\ es0 \in Seq(EventSet)
      /\ EventsInOrder(es0) /\ FinishesAt(es0, t - 1 - c) /\ Climbs(r.percents)
  BY <1>3 DEF HeardRight, Reporters
<1>5. /\ es0 # <<>>
      /\ \A i \in DOMAIN es0 : es0[i].kind # "finish"
      /\ \A i \in DOMAIN es0 : ~es0[i].draft => es0[i].tokens <= m
  BY <1>3 DEF Hears, IsFinished
<1>6. PICK s : s = Told(r, e, a)
  OBVIOUS
<1>7. Update(r, TRUE, n, a) = s
  BY <1>1, <1>6, Zenon DEF Update
<1>8. /\ s \in Reporters /\ s.events = Append(es0, e) /\ s.percents = r.percents /\ s.context = r.context
      /\ (s.stopped <=> r.stopped \/ a = "stop")
  BY <1>2, <1>3, <1>4, <1>6, ToldIs
<1>9. PICK es : es = Append(es0, e)
  OBVIOUS
<1>10. es # <<>> /\ EventsInOrder(es) /\ FinishesAt(es, t - 1 - c)
  BY <1>2, <1>4, <1>5, <1>9, OneMoreEvent
<1>11. \A i \in DOMAIN es : (i \in DOMAIN es0 /\ es[i] = es0[i]) \/ es[i] = e
  BY <1>4, <1>9
<1>12. ~IsFinished(s)
  BY <1>2, <1>5, <1>8, <1>9, <1>11 DEF IsFinished
<1>13. HeardRight(s, c, t)
  BY <1>4, <1>8, <1>9, <1>10 DEF HeardRight
<1>14. Listened(r, s, a)
  BY <1>8, <1>9, <1>10 DEF Listened
<1>15. \A i \in DOMAIN s.events : ~s.events[i].draft => s.events[i].tokens <= m
  BY <1>2, <1>5, <1>8, <1>9, <1>11
<1>16. Hears(s, c, t, m)
  BY <1>8, <1>9, <1>10, <1>12, <1>15 DEF Hears
<1> QED BY <1>7, <1>12, <1>13, <1>14, <1>16

\* It hears that the prompt is finished.
LEMMA FinishRight ==
  ASSUME NEW c \in Nat, NEW t \in Nat, c <= t - 1, NEW r, HeardRight(r, c, t),
         NEW m \in Nat, Hears(r, c, t, m), NEW n \in Nat, n = t - 1 - c, NEW a \in Answers
  PROVE  /\ HeardRight(Finish(r, n, a), c, t) /\ Listened(r, Finish(r, n, a), a)
         /\ IsFinished(Finish(r, n, a))
<1>1. PICK e : e = Event("finish", FALSE, n)
  OBVIOUS
<1>2. e \in EventSet /\ e.kind = "finish" /\ e.tokens = n
  BY <1>1 DEF Event, EventSet, Kinds
<1>3. PICK k, es0, ps0 : k = r.context /\ es0 = r.events /\ ps0 = r.percents
  OBVIOUS
<1>4. /\ r \in Reporters /\ es0 \in Seq(EventSet) /\ ps0 \in Seq(Nat) /\ k \in ContextSet
      /\ EventsInOrder(es0) /\ FinishesAt(es0, t - 1 - c) /\ Climbs(ps0)
  BY <1>3 DEF HeardRight, Reporters
<1>5. /\ es0 # <<>> /\ m <= n
      /\ \A i \in DOMAIN es0 : es0[i].kind # "finish"
      /\ \A i \in DOMAIN es0 : ~es0[i].draft => es0[i].tokens <= m
  BY <1>3 DEF Hears, IsFinished
<1>6. \A i \in DOMAIN es0 : es0[i].tokens \in Nat
  BY <1>4, EventCounts
<1>7. PICK q : q = Told(r, e, a)
  OBVIOUS
<1>8. q \in Reporters /\ q.events = Append(es0, e) /\ q.percents = ps0 /\ (q.stopped <=> r.stopped \/ a = "stop")
  BY <1>2, <1>3, <1>4, <1>7, ToldIs
<1>9. PICK s : s = Shows(q, a, k, 100)
  OBVIOUS
<1>10. Finish(r, n, a) = s
  BY <1>1, <1>3, <1>7, <1>9, Zenon DEF Finish
<1>11. /\ s \in Reporters /\ s.events = q.events /\ s.stopped = q.stopped
       /\ a = "raise" => s = q
       /\ a # "raise" => s.percents = Append(ps0, 100)
  <2>1. q \in Reporters /\ k \in ContextSet /\ 100 \in Nat /\ q.percents = ps0
    BY <1>4, <1>8
  <2>2. ShownOn(q, a, k, 100, s)
    BY <1>9, <2>1, ShowsIs
  <2> QED BY <2>1, <2>2 DEF ShownOn
<1>12. PICK es : es = Append(es0, e)
  OBVIOUS
<1>13. \A i \in DOMAIN es0 : ~es0[i].draft => es0[i].tokens <= e.tokens
  BY <1>2, <1>5, <1>6
<1>14. es # <<>> /\ EventsInOrder(es) /\ FinishesAt(es, t - 1 - c)
  BY <1>2, <1>4, <1>5, <1>12, <1>13, OneMoreEvent
<1>15. Len(es) \in DOMAIN es /\ es[Len(es)] = e
  BY <1>4, <1>12
<1>16. IsFinished(s)
  BY <1>2, <1>8, <1>11, <1>12, <1>15 DEF IsFinished
<1>17. \A i \in DOMAIN ps0 : ps0[i] <= 100
  BY <1>4 DEF Climbs
<1>18. Climbs(Append(ps0, 100))
  BY <1>4, <1>17, OneMorePercent
<1>19. HeardRight(s, c, t)
  BY <1>4, <1>8, <1>11, <1>12, <1>14, <1>18 DEF HeardRight
<1>20. Listened(r, s, a)
  BY <1>8, <1>11, <1>12, <1>14 DEF Listened
<1> QED BY <1>10, <1>16, <1>19, <1>20

\* The numbers of a prompt.
LEMMA PromptNumbers ==
  ASSUME KitRight
  PROVE  /\ total \in Nat /\ total >= 1 /\ cached \in Nat /\ cached <= total - 1
         /\ processed \in Nat /\ cached <= processed /\ processed <= total
         /\ Prefill = total - 1 /\ Prefill \in Nat /\ Prefill - cached \in Nat
BY ProgressAssumption DEF KitRight, Prefill

\* What a step of one kit leaves of the others.
LEMMA OnlySequential ==
  ASSUME ProgressInv, kit = "sequential", kit' = kit
  PROVE  VisionRight' /\ TextRight'
BY DEF VisionRight, TextRight

\* A step of SequentialBegin keeps the invariant.
LEMMA SequentialBeginStep ==
  ASSUME ProgressInv, NEW a \in Answers, SequentialBegin(a)
  PROVE  ProgressInv'
<1>1. /\ kit = "sequential" /\ stage = "start" /\ KitRight /\ SequentialRight /\ HeardRight(reporter, cached, total)
      /\ UNCHANGED <<kit, total, cached, queue, first, finished, shown, removed, processed>>
  BY DEF SequentialBegin, RestUnchanged, ProgressInv
<1>2. PICK r : r = Begin(reporter, cached, total, 0, a)
  OBVIOUS
<1>3. /\ HeardRight(r, cached, total) /\ Listened(reporter, r, a) /\ ~IsFinished(r)
      /\ a # "raise" => Hears(r, cached, total, 0)
  <2>1. NotBegun(reporter)
    BY <1>1 DEF SequentialRight
  <2>2. 0 \in Nat /\ 0 <= total - 1 - cached
    BY <1>1, PromptNumbers
  <2> QED BY <1>1, <1>2, <2>1, <2>2, PromptNumbers, BeginRight
<1>4. reporter' = r
  BY <1>2 DEF SequentialBegin
<1>5. HeardRight(reporter, cached, total)'
  BY <1>1, <1>3, <1>4
<1>6. VisionRight' /\ TextRight'
  BY <1>1, OnlySequential
<1>7. CASE a = "raise"
  <2>1. stage' = "gone" /\ caller' = "raised"
    BY <1>7 DEF SequentialBegin, Stopped
  <2>2. KitRight'
    BY <1>1, <2>1 DEF KitRight, Prefill
  <2>3. shown > 0 => reporter.stopped \/ IsFinished(reporter)
    BY <1>1 DEF SequentialRight
  <2>4. ~IsFinished(reporter)
    BY <1>1 DEF SequentialRight, NotBegun, IsFinished
  <2>5. SequentialRight'
    BY <1>1, <1>3, <1>4, <2>1, <2>3, <2>4 DEF SequentialRight, Listened
  <2> QED BY <1>5, <1>6, <2>2, <2>5 DEF ProgressInv
<1>8. CASE a # "raise"
  <2>1. stage' \in {"draft", "main"} /\ caller' = caller
    BY <1>8 DEF SequentialBegin
  <2>2. processed = cached /\ processed - cached = 0
    BY <1>1, PromptNumbers DEF KitRight
  <2>3. KitRight'
    BY <1>1, <2>1, <2>2, PromptNumbers DEF KitRight, Prefill
  <2>4. shown > 0 => reporter.stopped \/ IsFinished(reporter)
    BY <1>1 DEF SequentialRight
  <2>5. ~IsFinished(reporter)
    BY <1>1 DEF SequentialRight, NotBegun, IsFinished
  <2>6. Hears(reporter, cached, total, 0)' /\ Hears(reporter, cached, total, processed - cached)'
    BY <1>1, <1>3, <1>4, <1>8, <2>2
  <2>7. shown' > 0 => reporter'.stopped
    BY <1>1, <1>3, <1>4, <2>4, <2>5 DEF Listened
  <2>8. SequentialRight'
    BY <1>1, <2>1, <2>6, <2>7 DEF SequentialRight
  <2> QED BY <1>5, <1>6, <2>3, <2>8 DEF ProgressInv
<1> QED BY <1>7, <1>8

\* A step of SequentialChunk keeps the invariant.
LEMMA SequentialChunkStep ==
  ASSUME ProgressInv, NEW n \in Chunks, NEW a \in Answers, SequentialChunk(n, a)
  PROVE  ProgressInv'
<1>1. /\ kit = "sequential" /\ stage \in {"draft", "main"} /\ KitRight /\ SequentialRight
      /\ HeardRight(reporter, cached, total) /\ processed + n <= Prefill
      /\ UNCHANGED <<kit, total, cached, queue, first, finished, shown, removed>>
  BY DEF SequentialChunk, RestUnchanged, ProgressInv, Fits
<1>2. n \in Nat /\ n >= 1
  BY ProgressAssumption DEF Chunks
<1>3. PICK m : m = NumProcessed(n)
  OBVIOUS
<1>4. m \in Nat /\ m = (processed + n) - cached /\ m <= total - 1 - cached
  BY <1>1, <1>2, <1>3, PromptNumbers DEF NumProcessed
<1>5. PICK r : r = Update(reporter, stage = "draft", m, a)
  OBVIOUS
<1>6. reporter' = r
  BY <1>3, <1>5 DEF SequentialChunk
<1>7. shown > 0 => reporter.stopped \/ IsFinished(reporter)
  BY <1>1 DEF SequentialRight
<1>8. VisionRight' /\ TextRight'
  BY <1>1, OnlySequential
<1>9. /\ HeardRight(r, cached, total) /\ Listened(reporter, r, a) /\ ~IsFinished(r) /\ ~IsFinished(reporter)
      /\ stage = "draft" => Hears(r, cached, total, 0)
      /\ stage = "main" /\ a # "raise" => Hears(r, cached, total, m)
  <2>1. CASE stage = "draft"
    <3>1. Hears(reporter, cached, total, 0) /\ 0 \in Nat
      BY <1>1, <2>1 DEF SequentialRight
    <3>2. r = Update(reporter, TRUE, m, a)
      BY <1>5, <2>1
    <3>3. HeardRight(r, cached, total) /\ Listened(reporter, r, a) /\ ~IsFinished(r) /\ Hears(r, cached, total, 0)
      BY <1>1, <1>4, <3>1, <3>2, PromptNumbers, DraftRight
    <3> QED BY <2>1, <3>1, <3>3 DEF Hears
  <2>2. CASE stage = "main"
    <3>1. PICK k : k = processed - cached
      OBVIOUS
    <3>2. Hears(reporter, cached, total, k) /\ k \in Nat /\ k <= m
      BY <1>1, <1>2, <1>4, <2>2, <3>1, PromptNumbers DEF SequentialRight
    <3>3. r = Update(reporter, FALSE, m, a)
      BY <1>5, <2>2
    <3>4. HeardRight(r, cached, total) /\ Listened(reporter, r, a) /\ ~IsFinished(r)
          /\ (a # "raise" => Hears(r, cached, total, m))
      BY <1>1, <1>4, <3>2, <3>3, PromptNumbers, UpdateRight
    <3> QED BY <2>2, <3>2, <3>4 DEF Hears
  <2> QED BY <1>1, <2>1, <2>2
<1>10. HeardRight(reporter, cached, total)'
  BY <1>1, <1>6, <1>9
<1>11. shown' > 0 => reporter'.stopped
  BY <1>1, <1>6, <1>7, <1>9 DEF Listened
<1>12. CASE a # "continue"
  <2>1. stage' = "gone" /\ processed' = processed + n /\ caller' \in {"cancelled", "raised"}
    BY <1>12 DEF SequentialChunk, Stopped
  <2>2. KitRight'
    BY <1>1, <1>2, <2>1, PromptNumbers DEF KitRight, Prefill
  <2>3. SequentialRight'
    BY <1>1, <1>11, <2>1 DEF SequentialRight
  <2> QED BY <1>8, <1>10, <2>2, <2>3 DEF ProgressInv
<1>13. CASE a = "continue" /\ stage = "draft" /\ processed + n = Prefill
  <2>1. stage' = "main" /\ processed' = cached /\ caller' = caller
    BY <1>13 DEF SequentialChunk
  <2>2. KitRight'
    BY <1>1, <2>1, PromptNumbers DEF KitRight, Prefill
  <2>3. processed' - cached' = 0
    BY <1>1, <2>1, PromptNumbers
  <2>4. Hears(reporter, cached, total, processed - cached)'
    BY <1>1, <1>6, <1>9, <1>13, <2>3
  <2>5. SequentialRight'
    BY <1>1, <1>11, <2>1, <2>4 DEF SequentialRight
  <2> QED BY <1>8, <1>10, <2>2, <2>5 DEF ProgressInv
<1>14. CASE a = "continue" /\ ~(stage = "draft" /\ processed + n = Prefill)
  <2>1. stage' = stage /\ processed' = processed + n /\ caller' = caller
    BY <1>14 DEF SequentialChunk
  <2>2. KitRight'
    BY <1>1, <1>2, <2>1, PromptNumbers DEF KitRight, Prefill
  <2>3. processed' - cached' = m
    BY <1>1, <1>4, <2>1
  <2>4. stage' = "draft" => Hears(reporter, cached, total, 0)'
    BY <1>1, <1>6, <1>9, <2>1
  <2>5. stage' = "main" => Hears(reporter, cached, total, processed - cached)'
    BY <1>1, <1>6, <1>9, <1>14, <2>1, <2>3
  <2>6. SequentialRight'
    BY <1>1, <1>11, <2>1, <2>4, <2>5 DEF SequentialRight
  <2> QED BY <1>8, <1>10, <2>2, <2>6 DEF ProgressInv
<1> QED BY <1>12, <1>13, <1>14

\* A step of DraftCached keeps the invariant.
LEMMA DraftCachedStep ==
  ASSUME ProgressInv, DraftCached
  PROVE  ProgressInv'
<1>1. /\ kit = "sequential" /\ stage = "draft" /\ cached = Prefill /\ stage' = "main" /\ KitRight /\ SequentialRight
      /\ HeardRight(reporter, cached, total)
      /\ UNCHANGED <<kit, total, cached, queue, first, finished, shown, removed, processed, reporter, caller>>
  BY DEF DraftCached, RestUnchanged, ProgressInv, KitRight
<1>2. processed = cached
  BY <1>1, PromptNumbers DEF KitRight
<1>3. KitRight'
  BY <1>1 DEF KitRight, Prefill
<1>4. processed' - cached' = 0
  BY <1>1, <1>2, PromptNumbers
<1>5. Hears(reporter, cached, total, 0)
  BY <1>1 DEF SequentialRight
<1>6. Hears(reporter, cached, total, processed - cached)'
  BY <1>1, <1>4, <1>5
<1>7. shown' > 0 => reporter'.stopped \/ IsFinished(reporter)'
  BY <1>1 DEF SequentialRight
<1>8. SequentialRight'
  BY <1>1, <1>6, <1>7 DEF SequentialRight
<1>9. VisionRight' /\ TextRight'
  BY <1>1, OnlySequential
<1> QED BY <1>1, <1>3, <1>8, <1>9 DEF ProgressInv

\* A step of SequentialFinish keeps the invariant.
LEMMA SequentialFinishStep ==
  ASSUME ProgressInv, NEW a \in Answers, SequentialFinish(a)
  PROVE  ProgressInv'
<1>1. /\ kit = "sequential" /\ stage = "main" /\ processed = Prefill /\ KitRight /\ SequentialRight
      /\ HeardRight(reporter, cached, total)
      /\ UNCHANGED <<kit, total, cached, queue, first, finished, shown, removed, processed>>
  BY DEF SequentialFinish, RestUnchanged, ProgressInv
<1>2. PICK m : m = processed - cached
  OBVIOUS
<1>3. m \in Nat /\ m = total - 1 - cached /\ Hears(reporter, cached, total, m)
  BY <1>1, <1>2, PromptNumbers DEF SequentialRight
<1>4. reporter.context.last = m
  BY <1>3 DEF Hears
<1>5. PICK r : r = Finish(reporter, m, a)
  OBVIOUS
<1>6. reporter' = r
  BY <1>4, <1>5 DEF SequentialFinish, FinishLast
<1>7. HeardRight(r, cached, total) /\ IsFinished(r)
  BY <1>1, <1>3, <1>5, PromptNumbers, FinishRight
<1>8. HeardRight(reporter, cached, total)' /\ IsFinished(reporter)'
  BY <1>1, <1>6, <1>7
<1>9. VisionRight' /\ TextRight'
  BY <1>1, OnlySequential
<1>10. \/ stage' = "gone" /\ caller' = "raised"
       \/ stage' = "decode" /\ caller' = caller
  BY DEF SequentialFinish, Stopped
<1>11. KitRight'
  BY <1>1, <1>10 DEF KitRight, Prefill
<1>12. SequentialRight'
  BY <1>1, <1>8, <1>10 DEF SequentialRight
<1> QED BY <1>8, <1>9, <1>11, <1>12 DEF ProgressInv

\* A step of SequentialToken keeps the invariant.
LEMMA SequentialTokenStep ==
  ASSUME ProgressInv, SequentialToken
  PROVE  ProgressInv'
<1>1. /\ kit = "sequential" /\ stage = "decode" /\ shown < MaxShown /\ shown' = shown + 1 /\ KitRight /\ SequentialRight
      /\ HeardRight(reporter, cached, total)
      /\ UNCHANGED <<kit, total, cached, queue, first, finished, stage, removed, processed, reporter, caller>>
  BY DEF SequentialToken, ProgressInv
<1>2. VisionRight' /\ TextRight'
  BY <1>1, OnlySequential
<1>3. KitRight'
  BY <1>1 DEF KitRight, Prefill
<1>4. IsFinished(reporter)'
  BY <1>1 DEF SequentialRight
<1>5. shown' <= MaxShown
  BY <1>1, ProgressAssumption DEF KitRight
<1>6. SequentialRight'
  BY <1>1, <1>4, <1>5 DEF SequentialRight
<1> QED BY <1>1, <1>2, <1>3, <1>6 DEF ProgressInv

\* A queue with one more item, and without its first.
LEMMA QueueAppended ==
  ASSUME NEW q \in Seq(News), NEW e \in News
  PROVE  /\ Append(q, e) \in Seq(News) /\ Append(q, e) # <<>> /\ Len(q) \in Nat
         /\ DOMAIN q = 1..Len(q) /\ DOMAIN Append(q, e) = 1..(Len(q) + 1)
         /\ Append(q, e)[Len(q) + 1] = e
         /\ \A i \in 1..Len(q) : Append(q, e)[i] = q[i]
OBVIOUS

\* A queue without its first item, item by item.
LEMMA QueueTail ==
  ASSUME NEW q \in Seq(News), q # <<>>
  PROVE  /\ Tail(q) \in Seq(News) /\ Len(q) \in Nat /\ Len(q) >= 1
         /\ DOMAIN q = 1..Len(q) /\ DOMAIN Tail(q) = 1..(Len(q) - 1)
         /\ Head(q) = q[1] /\ Head(q) \in News
         /\ \A i \in 1..(Len(q) - 1) : Tail(q)[i] = q[i + 1]
OBVIOUS

\* The tokens in a queue can be counted.
LEMMA TokensFinite ==
  ASSUME NEW q \in Seq(News)
  PROVE  IsFiniteSet(TokensIn(q)) /\ Cardinality(TokensIn(q)) \in Nat
<1>1. IsFiniteSet(1..Len(q))
  BY FS_Interval
<1>2. TokensIn(q) \subseteq 1..Len(q)
  BY DEF TokensIn
<1> QED BY <1>1, <1>2, FS_Subset, FS_CardinalityType

\* An item more in the queue is one token more exactly if it is a token.
LEMMA TokensAppended ==
  ASSUME NEW q \in Seq(News), NEW e \in News
  PROVE  Cardinality(TokensIn(Append(q, e)))
           = Cardinality(TokensIn(q)) + IF e.kind = "token" THEN 1 ELSE 0
<1>1. PICK p, n : p = Append(q, e) /\ n = Len(q)
  OBVIOUS
<1>2. DOMAIN q = 1..n /\ DOMAIN p = 1..(n + 1) /\ p[n + 1] = e /\ n \in Nat
      /\ \A i \in 1..n : p[i] = q[i]
  BY <1>1, QueueAppended
<1>3. IsFiniteSet(TokensIn(q)) /\ Cardinality(TokensIn(q)) \in Nat /\ n + 1 \notin TokensIn(q)
  BY <1>2, TokensFinite DEF TokensIn
<1>4. CASE e.kind = "token"
  <2>1. TokensIn(p) = TokensIn(q) \cup {n + 1}
    BY <1>2, <1>4 DEF TokensIn
  <2> QED BY <1>1, <1>3, <1>4, <2>1, FS_AddElement
<1>5. CASE e.kind # "token"
  <2>1. TokensIn(p) = TokensIn(q)
    BY <1>2, <1>5 DEF TokensIn
  <2> QED BY <1>1, <1>3, <1>5, <2>1
<1> QED BY <1>4, <1>5

\* An item less in the queue is one token less exactly if it was a token.
LEMMA TokensOfTail ==
  ASSUME NEW q \in Seq(News), q # <<>>
  PROVE  Cardinality(TokensIn(Tail(q)))
           = Cardinality(TokensIn(q)) - IF Head(q).kind = "token" THEN 1 ELSE 0
<1>1. PICK p, n : p = Tail(q) /\ n = Len(q)
  OBVIOUS
<1>2. /\ p \in Seq(News) /\ DOMAIN q = 1..n /\ DOMAIN p = 1..(n - 1) /\ n \in Nat /\ n >= 1
      /\ Head(q) = q[1] /\ \A i \in 1..(n - 1) : p[i] = q[i + 1]
  BY <1>1, QueueTail
<1>3. PICK A, B : A = TokensIn(p) /\ B = TokensIn(q) \ {1}
  OBVIOUS
<1>4. IsFiniteSet(A) /\ IsFiniteSet(TokensIn(q)) /\ Cardinality(TokensIn(q)) \in Nat /\ Cardinality(A) \in Nat
  BY <1>2, <1>3, TokensFinite
<1>5. A \subseteq 1..(n - 1) /\ B \subseteq 2..n
      /\ \A i \in 1..(n - 1) : i \in A <=> i + 1 \in B
  BY <1>2, <1>3 DEF TokensIn
<1>6. PICK f : f = [i \in A |-> i + 1]
  OBVIOUS
<1>7. f \in Bijection(A, B)
  <2>1. f \in [A -> B]
    BY <1>5, <1>6
  <2>2. \A i, j \in A : f[i] = f[j] => i = j
    BY <1>5, <1>6
  <2>3. \A j \in B : \E i \in A : f[i] = j
    <3>1. SUFFICES ASSUME NEW j \in B PROVE \E i \in A : f[i] = j
      OBVIOUS
    <3>2. j - 1 \in 1..(n - 1) /\ (j - 1) + 1 = j
      BY <1>2, <1>5
    <3>3. j - 1 \in A
      BY <1>5, <3>2
    <3> QED BY <1>6, <3>2, <3>3
  <2>4. f \in Injection(A, B)
    BY <2>1, <2>2 DEF Injection, IsInjective
  <2>5. f \in Surjection(A, B)
    BY <2>1, <2>3 DEF Surjection
  <2> QED BY <2>4, <2>5 DEF Bijection
<1>8. Cardinality(A) = Cardinality(B)
  BY <1>4, <1>7, FS_Bijection DEF ExistsBijection
<1>9. Cardinality(B) = IF 1 \in TokensIn(q) THEN Cardinality(TokensIn(q)) - 1 ELSE Cardinality(TokensIn(q))
  BY <1>3, <1>4, FS_RemoveElement
<1>10. 1 \in TokensIn(q) <=> Head(q).kind = "token"
  BY <1>2 DEF TokensIn
<1> QED BY <1>1, <1>3, <1>8, <1>9, <1>10, <1>4

\* An item appended keeps the order if no token is before it, or it is one.
LEMMA OrderAppended ==
  ASSUME NEW q \in Seq(News), InOrder(q), NEW e \in News,
         \/ e.kind = "token"
         \/ \A i \in DOMAIN q : q[i].kind # "token" /\ q[i].tokens <= e.tokens
  PROVE  InOrder(Append(q, e))
<1>1. PICK p, n : p = Append(q, e) /\ n = Len(q)
  OBVIOUS
<1>2. DOMAIN q = 1..n /\ DOMAIN p = 1..(n + 1) /\ p[n + 1] = e /\ n \in Nat
      /\ \A i \in 1..n : p[i] = q[i]
  BY <1>1, QueueAppended
<1>3. ASSUME NEW i \in DOMAIN p, NEW j \in DOMAIN p, i < j
      PROVE  /\ p[i].kind = "token" => p[j].kind = "token"
             /\ p[j].kind # "token" => p[i].tokens <= p[j].tokens
  <2>1. i \in 1..n /\ p[i] = q[i]
    BY <1>2, <1>3
  <2>2. CASE j = n + 1
    BY <1>2, <2>1, <2>2
  <2>3. CASE j # n + 1
    <3>1. j \in 1..n /\ p[j] = q[j]
      BY <1>2, <2>3
    <3> QED BY <1>2, <1>3, <2>1, <3>1 DEF InOrder
  <2> QED BY <2>2, <2>3
<1> QED BY <1>1, <1>3 DEF InOrder

\* A queue in order stays so without its first item, and what comes after that item.
LEMMA OrderOfTail ==
  ASSUME NEW q \in Seq(News), InOrder(q), q # <<>>
  PROVE  /\ InOrder(Tail(q))
         /\ Head(q).kind = "token" => OnlyTokens(q)
         /\ Head(q).kind # "token" => AtLeast(Tail(q), Head(q).tokens)
<1>1. PICK p, n : p = Tail(q) /\ n = Len(q)
  OBVIOUS
<1>2. /\ DOMAIN q = 1..n /\ DOMAIN p = 1..(n - 1) /\ n \in Nat /\ n >= 1
      /\ Head(q) = q[1] /\ \A i \in 1..(n - 1) : p[i] = q[i + 1]
  BY <1>1, QueueTail
<1>3. \A i \in DOMAIN p : i + 1 \in DOMAIN q /\ 1 < i + 1 /\ p[i] = q[i + 1]
  BY <1>2
<1>4. 1 \in DOMAIN q /\ \A i \in DOMAIN q : i = 1 \/ 1 < i
  BY <1>2
<1>5. \A i, j \in DOMAIN p : i < j => i + 1 < j + 1
  BY <1>2
<1>6. InOrder(p)
  BY <1>3, <1>5 DEF InOrder
<1>7. Head(q).kind = "token" => OnlyTokens(q)
  BY <1>2, <1>4 DEF InOrder, OnlyTokens
<1>8. AtLeast(p, Head(q).tokens)
  BY <1>2, <1>3, <1>4 DEF InOrder, AtLeast
<1> QED BY <1>1, <1>6, <1>7, <1>8

-----------------------------------------------------------------------------
(* The kit of the text and of the vision kit.                              *)

\* More is done, and more may follow.
LEMMA VisionItemsLater ==
  ASSUME NEW q \in Seq(News), NEW u \in BOOLEAN, NEW d \in Int, NEW w \in Int, NEW f \in BOOLEAN,
         VisionItems(q, u, d, w, f), NEW d2 \in Int, d <= d2, NEW g \in BOOLEAN, f => g
  PROVE  VisionItems(q, u, d2, w, g)
<1>1. \A i \in DOMAIN q : q[i] \in News
  OBVIOUS
<1>2. \A i \in DOMAIN q : q[i].tokens \in Nat
  BY <1>1 DEF News
<1>3. \A i \in DOMAIN q : q[i].kind # "token" => q[i].tokens <= d2
  BY <1>2 DEF VisionItems
<1> QED BY <1>3 DEF VisionItems

\* Progress is queued behind what is no end.
IsProgress(e, done, work) ==
  /\ e \in News /\ e.kind \in {"update", "finish"}
  /\ e.tokens = IF done <= work THEN done ELSE work
  /\ e.kind = "finish" <=> work <= done

OneMoreProgress(p, q, u, d, d2, w) ==
  /\ VisionItems(p, u, d2, w, w <= d2) /\ InOrder(p)
  /\ FinishIn(p) <=> w <= d2
  /\ p # <<>>
  /\ \A m \in Nat : m <= d /\ m <= w /\ AtLeast(q, m) => AtLeast(p, m)

\* One item of progress more keeps the vision kit's queue as it should be.
LEMMA ProgressQueued ==
  ASSUME NEW q \in Seq(News), NEW u \in BOOLEAN, NEW d \in Nat, NEW w \in Nat,
         VisionItems(q, u, d, w, FALSE), ~FinishIn(q), InOrder(q), u => q # <<>>,
         NEW d2 \in Nat, d <= d2, NEW e, IsProgress(e, d2, w)
  PROVE  OneMoreProgress(Append(q, e), q, u, d, d2, w)
<1>0. /\ e \in News /\ e.kind \in {"update", "finish"}
      /\ e.tokens = IF d2 <= w THEN d2 ELSE w
      /\ e.kind = "finish" <=> w <= d2
  BY DEF IsProgress
<1>1. PICK p, n : p = Append(q, e) /\ n = Len(q)
  OBVIOUS
<1>2. DOMAIN q = 1..n /\ DOMAIN p = 1..(n + 1) /\ p[n + 1] = e /\ n \in Nat /\ p # <<>>
      /\ \A i \in 1..n : p[i] = q[i]
  BY <1>0, <1>1, QueueAppended
<1>3. \A i \in DOMAIN q : q[i] \in News
  OBVIOUS
<1>4. \A i \in DOMAIN q : q[i].tokens \in Nat
  BY <1>3 DEF News
<1>5. \A i \in DOMAIN q : q[i].kind # "token" /\ q[i].kind # "finish" /\ q[i].tokens <= e.tokens
  BY <1>0, <1>4 DEF VisionItems, FinishIn
<1>6. InOrder(p)
  BY <1>0, <1>1, <1>5, OrderAppended
<1>7. u => n >= 1
  BY <1>1, <1>2
<1>8. ASSUME NEW i \in DOMAIN p
      PROVE  /\ p[i].kind # "pair"
             /\ p[i].kind = "begin" <=> i = 1 /\ u
             /\ p[i].kind = "begin" => p[i].tokens = 0
             /\ p[i].kind # "token" => p[i].tokens <= d2 /\ p[i].tokens <= w
             /\ p[i].kind = "finish" => /\ p[i].tokens = w
                                       /\ \A j \in DOMAIN p : j > i => p[j].kind = "token"
             /\ p[i].kind # "token"
             /\ p[i].kind = "finish" <=> (i = n + 1 /\ w <= d2)
  <2>1. CASE i = n + 1
    BY <1>0, <1>2, <1>7, <2>1
  <2>2. CASE i \in 1..n
    <3>1. p[i] = q[i] /\ i \in DOMAIN q /\ i # n + 1
      BY <1>2, <2>2
    <3> QED BY <1>4, <1>5, <3>1 DEF VisionItems
  <2> QED BY <1>2, <2>1, <2>2
<1>9. VisionItems(p, u, d2, w, w <= d2)
  BY <1>8 DEF VisionItems
<1>10. FinishIn(p) <=> w <= d2
  <2>1. n + 1 \in DOMAIN p
    BY <1>2
  <2> QED BY <1>8, <2>1 DEF FinishIn
<1>11. ASSUME NEW m \in Nat, m <= d, m <= w, AtLeast(q, m) PROVE AtLeast(p, m)
  <2>1. ASSUME NEW i \in DOMAIN p PROVE m <= p[i].tokens
    <3>1. CASE i = n + 1
      BY <1>0, <1>2, <1>11, <3>1
    <3>2. CASE i \in 1..n
      BY <1>2, <1>5, <1>11, <3>2 DEF AtLeast
    <3> QED BY <1>2, <3>1, <3>2
  <2> QED BY <2>1 DEF AtLeast
<1> QED BY <1>1, <1>2, <1>6, <1>9, <1>10, <1>11 DEF OneMoreProgress

\* A token is queued at the end.
LEMMA VisionTokenQueued ==
  ASSUME NEW q \in Seq(News), NEW u \in BOOLEAN, NEW d \in Int, NEW w \in Int,
         VisionItems(q, u, d, w, TRUE), NEW e \in News, e.kind = "token", u => q # <<>>
  PROVE  VisionItems(Append(q, e), u, d, w, TRUE)
<1>1. PICK p, n : p = Append(q, e) /\ n = Len(q)
  OBVIOUS
<1>2. DOMAIN q = 1..n /\ DOMAIN p = 1..(n + 1) /\ p[n + 1] = e /\ n \in Nat
      /\ \A i \in 1..n : p[i] = q[i]
  BY <1>1, QueueAppended
<1>3. u => n >= 1
  BY <1>1, <1>2
<1>4. ASSUME NEW i \in DOMAIN p
      PROVE  /\ p[i].kind # "pair"
             /\ p[i].kind = "begin" <=> i = 1 /\ u
             /\ p[i].kind = "begin" => p[i].tokens = 0
             /\ p[i].kind # "token" => p[i].tokens <= d /\ p[i].tokens <= w
             /\ p[i].kind = "finish" => /\ p[i].tokens = w
                                       /\ \A j \in DOMAIN p : j > i => p[j].kind = "token"
  <2>1. CASE i = n + 1
    BY <1>2, <1>3, <2>1
  <2>2. CASE i \in 1..n
    <3>1. p[i] = q[i] /\ i \in DOMAIN q /\ i # n + 1
      BY <1>2, <2>2
    <3>2. \A j \in DOMAIN p : j = n + 1 \/ (j \in DOMAIN q /\ p[j] = q[j])
      BY <1>2
    <3> QED BY <1>2, <3>1, <3>2 DEF VisionItems
  <2> QED BY <1>2, <2>1, <2>2
<1> QED BY <1>1, <1>4 DEF VisionItems

\* A token more in the queue leaves its items of progress as they were.
LEMMA OnlyTokensAppended ==
  ASSUME NEW q \in Seq(News), NEW e \in News, e.kind = "token"
  PROVE  /\ OnlyTokens(q) => OnlyTokens(Append(q, e))
         /\ FinishIn(Append(q, e)) <=> FinishIn(q)
         /\ \A n \in Nat : PairIn(q, n) => PairIn(Append(q, e), n)
         /\ \A n \in Nat : AtLeast(q, n) => AtLeast(Append(q, e), n)
<1>1. PICK p, n : p = Append(q, e) /\ n = Len(q)
  OBVIOUS
<1>2. DOMAIN q = 1..n /\ DOMAIN p = 1..(n + 1) /\ p[n + 1] = e /\ n \in Nat
      /\ \A i \in 1..n : p[i] = q[i]
  BY <1>1, QueueAppended
<1>3. \A i \in DOMAIN p : i = n + 1 \/ (i \in DOMAIN q /\ p[i] = q[i])
  BY <1>2
<1>4. \A i \in DOMAIN q : i \in DOMAIN p /\ p[i] = q[i]
  BY <1>2
<1>5. OnlyTokens(q) => OnlyTokens(p)
  BY <1>2, <1>3 DEF OnlyTokens
<1>6. FinishIn(p) <=> FinishIn(q)
  BY <1>2, <1>3, <1>4 DEF FinishIn
<1>7. \A k \in Nat : PairIn(q, k) => PairIn(p, k)
  BY <1>4 DEF PairIn
<1>8. \A k \in Nat : AtLeast(q, k) => AtLeast(p, k)
  BY <1>2, <1>3 DEF AtLeast
<1> QED BY <1>1, <1>5, <1>6, <1>7, <1>8

\* The first item of the vision kit is read: e, of q, and p is what is left.
ReadOff(q, p, e, u, d, w, f) ==
  /\ VisionItems(p, FALSE, d, w, f)
  /\ e.kind = "begin" <=> u
  /\ e.kind = "finish" => OnlyTokens(p) /\ e.tokens = w
  /\ FinishIn(q) <=> e.kind = "finish" \/ FinishIn(p)
  /\ e.kind # "token" => e.tokens <= d /\ e.tokens <= w
  /\ OnlyTokens(q) => OnlyTokens(p) /\ e.kind = "token" /\ ~FinishIn(q)
  /\ e.kind = "token" => f

\* What reading the first item leaves of the vision kit's queue.
LEMMA VisionItemsRead ==
  ASSUME NEW q \in Seq(News), q # <<>>, NEW u \in BOOLEAN, NEW d \in Int, NEW w \in Int, NEW f \in BOOLEAN,
         VisionItems(q, u, d, w, f)
  PROVE  ReadOff(q, Tail(q), Head(q), u, d, w, f)
<1>1. PICK p, n : p = Tail(q) /\ n = Len(q)
  OBVIOUS
<1>2. /\ DOMAIN q = 1..n /\ DOMAIN p = 1..(n - 1) /\ n \in Nat /\ n >= 1
      /\ Head(q) = q[1] /\ \A i \in 1..(n - 1) : p[i] = q[i + 1]
  BY <1>1, QueueTail
<1>3. \A i \in DOMAIN p : i + 1 \in DOMAIN q /\ 1 < i + 1 /\ p[i] = q[i + 1] /\ i + 1 # 1
  BY <1>2
<1>4. 1 \in DOMAIN q
  BY <1>2
<1>5. \A i \in DOMAIN q : i = 1 \/ (i - 1 \in DOMAIN p /\ p[i - 1] = q[i])
  BY <1>2
<1>6. \A i, j \in DOMAIN p : j > i => j + 1 > i + 1
  BY <1>2
<1>7. VisionItems(p, FALSE, d, w, f)
  BY <1>3, <1>6 DEF VisionItems
<1>8. Head(q).kind = "begin" <=> u
  BY <1>2, <1>4 DEF VisionItems
<1>9. Head(q).kind = "finish" => OnlyTokens(p) /\ Head(q).tokens = w
  BY <1>2, <1>3, <1>4 DEF VisionItems, OnlyTokens
<1>10. FinishIn(q) <=> Head(q).kind = "finish" \/ FinishIn(p)
  <2>1. ASSUME NEW i \in DOMAIN q, q[i].kind = "finish"
        PROVE  q[1].kind = "finish" \/ \E j \in DOMAIN p : p[j].kind = "finish"
    BY <1>5, <2>1
  <2>2. ASSUME NEW j \in DOMAIN p, p[j].kind = "finish"
        PROVE  \E i \in DOMAIN q : q[i].kind = "finish"
    <3>1. j + 1 \in DOMAIN q /\ q[j + 1].kind = "finish"
      BY <1>3, <2>2
    <3> QED BY <3>1
  <2> QED BY <1>2, <1>4, <2>1, <2>2 DEF FinishIn
<1>11. Head(q).kind # "token" => Head(q).tokens <= d /\ Head(q).tokens <= w
  BY <1>2, <1>4 DEF VisionItems
<1>12. OnlyTokens(q) => OnlyTokens(p) /\ Head(q).kind = "token" /\ ~FinishIn(q)
  BY <1>2, <1>3, <1>4 DEF OnlyTokens, FinishIn
<1>13. Head(q).kind = "token" => f
  BY <1>2, <1>4 DEF VisionItems
<1> QED BY <1>1, <1>7, <1>8, <1>9, <1>10, <1>11, <1>12, <1>13 DEF ReadOff

\* A bound below the items of a queue holds for the first item and for the rest.
LEMMA AtLeastRead ==
  ASSUME NEW q \in Seq(News), q # <<>>, NEW n, AtLeast(q, n)
  PROVE  AtLeast(Tail(q), n) /\ (Head(q).kind # "token" => n <= Head(q).tokens)
<1>1. /\ DOMAIN q = 1..Len(q) /\ DOMAIN Tail(q) = 1..(Len(q) - 1) /\ Len(q) \in Nat /\ Len(q) >= 1
      /\ Head(q) = q[1] /\ \A i \in 1..(Len(q) - 1) : Tail(q)[i] = q[i + 1]
  BY QueueTail
<1>2. \A i \in DOMAIN Tail(q) : i + 1 \in DOMAIN q /\ Tail(q)[i] = q[i + 1]
  BY <1>1
<1>3. 1 \in DOMAIN q
  BY <1>1
<1> QED BY <1>1, <1>2, <1>3 DEF AtLeast

-----------------------------------------------------------------------------
(* Steps of the batched kits' own thread.                                  *)

OfKit == <<kit, total, cached, first, reporter, caller, shown, removed>>

\* A step of the vision kit leaves what is said of the others.
LEMMA OnlyVision ==
  ASSUME ProgressInv, kit = "vision", kit' = kit
  PROVE  SequentialRight' /\ TextRight'
BY DEF SequentialRight, TextRight

\* A step of the text kit leaves what is said of the others.
LEMMA OnlyText ==
  ASSUME ProgressInv, kit = "text", kit' = kit
  PROVE  SequentialRight' /\ VisionRight'
BY DEF SequentialRight, VisionRight

\* What a progress response does to the queue of the vision kit.
VisionQueue(q, n, f) ==
  /\ q \in Seq(News) /\ InOrder(q) /\ Cardinality(TokensIn(q)) = Cardinality(TokensIn(queue))
  /\ VisionItems(q, NotBegun(reporter), n - cached, Prefill - cached, f)
  /\ f <=> IsFinished(reporter) \/ FinishIn(q)
  /\ IsFinished(reporter) => OnlyTokens(q)
  /\ NotBegun(reporter) => q # <<>>
  /\ \A m \in Nat : m <= processed - cached /\ m <= Prefill - cached /\ AtLeast(queue, m) => AtLeast(q, m)

\* Progress up to n leaves the vision kit's queue as it should be.
LEMMA VisionProgress ==
  ASSUME KitRight, VisionRight, kit = "vision", stage \in {"main", "ready"},
         NEW n \in Nat, processed <= n, NEW f \in BOOLEAN, f <=> (finished \/ n >= Prefill)
  PROVE  VisionQueue(Progress(n), n, f)
<1>1. /\ InOrder(queue) /\ (finished <=> IsFinished(reporter) \/ FinishIn(queue))
      /\ VisionItems(queue, NotBegun(reporter), processed - cached, Prefill - cached, finished)
      /\ IsFinished(reporter) => OnlyTokens(queue)
      /\ NotBegun(reporter) => queue # <<>>
      /\ queue \in Seq(News) /\ finished \in BOOLEAN
  BY DEF VisionRight, KitRight
<1>2. PICK u \in BOOLEAN : u = NotBegun(reporter)
  BY DEF NotBegun
<1>3. PICK d, w, d2 : d = processed - cached /\ w = Prefill - cached /\ d2 = n - cached
  OBVIOUS
<1>4. d \in Nat /\ w \in Nat /\ d2 \in Nat /\ d <= d2 /\ (n >= Prefill <=> w <= d2)
  BY <1>3, PromptNumbers
<1>5. VisionItems(queue, u, d, w, finished)
  BY <1>1, <1>2, <1>3
<1>6. CASE finished
  <2>1. Progress(n) = queue /\ f = TRUE
    BY <1>6 DEF Progress, Ended
  <2>2. VisionItems(queue, u, d2, w, f)
    <3>1. d \in Int /\ d2 \in Int /\ w \in Int /\ finished \in BOOLEAN /\ (finished => f)
      BY <1>1, <1>4, <2>1
    <3>2. PICK q \in Seq(News) : q = queue
      BY <1>1
    <3> QED BY <1>4, <1>5, <3>1, <3>2, VisionItemsLater
  <2> QED BY <1>1, <1>2, <1>3, <1>6, <2>1, <2>2 DEF VisionQueue
<1>7. CASE ~finished
  <2>1. PICK e : e = [kind |-> IF IsFinal(n) THEN "finish" ELSE "update", tokens |-> Counted(n)]
    OBVIOUS
  <2>2. Progress(n) = Append(queue, e)
    BY <1>7, <2>1 DEF Progress, Ended
  <2>3. Counted(n) = IF d2 <= w THEN d2 ELSE w
    BY <1>3, <1>4, PromptNumbers DEF Counted
  <2>4. IsProgress(e, d2, w) /\ e \in News /\ e.kind # "token"
    BY <1>4, <2>1, <2>3 DEF IsFinal, News, Kinds, IsProgress
  <2>5. VisionItems(queue, u, d, w, FALSE) /\ ~FinishIn(queue) /\ (u => queue # <<>>) /\ ~IsFinished(reporter)
    BY <1>1, <1>2, <1>5, <1>7
  <2>6. PICK q : q = Append(queue, e)
    OBVIOUS
  <2>7. /\ VisionItems(q, u, d2, w, w <= d2) /\ InOrder(q)
        /\ FinishIn(q) <=> w <= d2
        /\ q # <<>>
        /\ \A m \in Nat : m <= d /\ m <= w /\ AtLeast(queue, m) => AtLeast(q, m)
    <3>1. queue \in Seq(News) /\ InOrder(queue)
      BY <1>1
    <3>2. d \in Nat /\ w \in Nat /\ d2 \in Nat /\ d <= d2
      BY <1>4
    <3>3. OneMoreProgress(q, queue, u, d, d2, w)
      BY <2>4, <2>5, <2>6, <3>1, <3>2, ProgressQueued
    <3> QED BY <3>3 DEF OneMoreProgress
  <2>8. q \in Seq(News) /\ Cardinality(TokensIn(q)) = Cardinality(TokensIn(queue))
    <3>1. Cardinality(TokensIn(q)) = Cardinality(TokensIn(queue)) + 0
      BY <1>1, <2>4, <2>6, TokensAppended
    <3> QED BY <1>1, <2>4, <2>6, <3>1, TokensFinite
  <2>9. f = (w <= d2)
    BY <1>4, <1>7
  <2>10. VisionItems(q, NotBegun(reporter), n - cached, Prefill - cached, f)
    BY <1>2, <1>3, <2>7, <2>9
  <2> QED BY <1>3, <2>2, <2>5, <2>6, <2>7, <2>8, <2>9, <2>10 DEF VisionQueue
<1> QED BY <1>6, <1>7

\* What a progress response does to the queue of the text kit.
TextQueue(q, n) ==
  /\ q \in Seq(News) /\ InOrder(q) /\ Cardinality(TokensIn(q)) = Cardinality(TokensIn(queue))
  /\ TextItems(q, n, total) /\ PairIn(q, n)
  /\ \A m \in Nat : m <= processed /\ AtLeast(queue, m) => AtLeast(q, m)

\* Progress up to n leaves the text kit's queue as it should be.
LEMMA TextProgress ==
  ASSUME KitRight, TextRight, kit = "text", stage \in {"main", "ready"},
         NEW n \in Nat, processed <= n
  PROVE  TextQueue(Progress(n), n)
<1>1. /\ InOrder(queue) /\ TextItems(queue, processed, total) /\ queue \in Seq(News)
  BY DEF TextRight, KitRight
<1>2. processed < total /\ processed \in Nat
  BY PromptNumbers DEF KitRight
<1>3. PICK e : e = [kind |-> "pair", tokens |-> n]
  OBVIOUS
<1>4. e \in News /\ e.kind = "pair" /\ e.tokens = n
  BY <1>3 DEF News
<1>5. PICK q, p, k : q = queue /\ p = Append(q, e) /\ k = Len(q)
  OBVIOUS
<1>6. q \in Seq(News) /\ InOrder(q) /\ TextItems(q, processed, total)
  BY <1>1, <1>5
<1>7. /\ p \in Seq(News) /\ DOMAIN q = 1..k /\ DOMAIN p = 1..(k + 1) /\ p[k + 1] = e /\ k \in Nat
      /\ \A i \in 1..k : p[i] = q[i]
  BY <1>4, <1>5, <1>6, QueueAppended
<1>8. \A i \in DOMAIN q : q[i] \in News
  BY <1>6
<1>9. \A i \in DOMAIN q : q[i].tokens \in Nat
  BY <1>8 DEF News
<1>10. \A i \in DOMAIN q : q[i].kind = "pair" /\ q[i].tokens <= processed
  BY <1>2, <1>6 DEF TextItems
<1>11. \A i \in DOMAIN q : q[i].kind # "token" /\ q[i].tokens <= e.tokens
  BY <1>2, <1>4, <1>9, <1>10
<1>12. InOrder(p)
  BY <1>4, <1>5, <1>6, <1>11, OrderAppended
<1>13. \A i \in DOMAIN p : (i = k + 1 /\ p[i] = e) \/ (i \in DOMAIN q /\ p[i] = q[i])
  BY <1>7
<1>14. TextItems(p, n, total)
  <2>1. ASSUME NEW i \in DOMAIN p PROVE p[i].kind = "pair" /\ p[i].tokens <= n
    BY <1>2, <1>4, <1>9, <1>10, <1>13
  <2> QED BY <2>1 DEF TextItems
<1>15. PairIn(p, n)
  <2>1. k + 1 \in DOMAIN p
    BY <1>7
  <2> QED BY <1>4, <1>7, <2>1 DEF PairIn
<1>16. ASSUME NEW m \in Nat, m <= processed, AtLeast(q, m) PROVE AtLeast(p, m)
  <2>1. ASSUME NEW i \in DOMAIN p PROVE m <= p[i].tokens
    <3>1. CASE p[i] = e
      BY <1>2, <1>4, <1>16, <3>1
    <3>2. CASE i \in DOMAIN q /\ p[i] = q[i]
      BY <1>10, <1>16, <3>2 DEF AtLeast
    <3> QED BY <1>13, <3>1, <3>2
  <2> QED BY <2>1 DEF AtLeast
<1>17. Cardinality(TokensIn(p)) = Cardinality(TokensIn(q))
  <2>1. Cardinality(TokensIn(p)) = Cardinality(TokensIn(q)) + 0
    BY <1>4, <1>5, <1>6, TokensAppended
  <2> QED BY <1>6, <2>1, TokensFinite
<1>18. Progress(n) = p
  BY <1>3, <1>5 DEF Progress
<1> QED BY <1>5, <1>7, <1>12, <1>14, <1>15, <1>16, <1>17, <1>18 DEF TextQueue

\* The vision kit after a progress response.
LEMMA VisionAfterProgress ==
  ASSUME ProgressInv, kit = "vision", UNCHANGED OfKit, stage \in {"main", "ready"},
         NEW n \in Nat, processed <= n, processed' = n, queue' = Progress(n),
         NEW f \in BOOLEAN, f <=> (finished \/ n >= Prefill), finished' = f,
         stage' \in {"main", "ready", "decode"},
         stage' = "main" => stage = "main" /\ n < Prefill,
         stage' = "decode" => n >= Prefill
  PROVE  VisionRight' /\ queue' \in Seq(News)
<1>1. KitRight /\ VisionRight
  BY DEF ProgressInv
<1>2. PICK q : q = queue'
  OBVIOUS
<1>3. VisionQueue(q, n, f)
  BY <1>1, <1>2, VisionProgress
<1>4. /\ q \in Seq(News) /\ InOrder(q) /\ Cardinality(TokensIn(q)) = Cardinality(TokensIn(queue))
      /\ VisionItems(q, NotBegun(reporter), n - cached, Prefill - cached, f)
      /\ f <=> IsFinished(reporter) \/ FinishIn(q)
      /\ IsFinished(reporter) => OnlyTokens(q)
      /\ NotBegun(reporter) => q # <<>>
      /\ \A m \in Nat : m <= processed - cached /\ m <= Prefill - cached /\ AtLeast(queue, m) => AtLeast(q, m)
  BY <1>3 DEF VisionQueue
<1>5. reporter' = reporter /\ total' = total /\ cached' = cached /\ kit' = kit /\ caller' = caller
      /\ shown' = shown /\ removed' = removed /\ Prefill' = Prefill
  BY DEF OfKit, Prefill
<1>6. InOrder(queue)' /\ (shown + Cardinality(TokensIn(queue)) <= MaxShown)'
  <2>1. shown + Cardinality(TokensIn(queue)) <= MaxShown
    BY <1>1 DEF VisionRight
  <2> QED BY <1>2, <1>4, <1>5, <2>1
<1>7. stage' \in {"start", "main"} => ~finished'
  <2>1. stage = "main" => ~finished
    BY <1>1 DEF VisionRight
  <2> QED BY <2>1, PromptNumbers, <1>1
<1>8. stage' = "decode" => finished'
  OBVIOUS
<1>9. finished' <=> IsFinished(reporter') \/ FinishIn(queue')
  BY <1>2, <1>4, <1>5
<1>10. stage' # "start"
  OBVIOUS
<1>11. VisionItems(queue', NotBegun(reporter'), processed' - cached', Prefill' - cached', finished')
  BY <1>2, <1>4, <1>5
<1>12. IsFinished(reporter') => OnlyTokens(queue')
  BY <1>2, <1>4, <1>5
<1>13. NotBegun(reporter') => queue' # <<>>
  BY <1>2, <1>4, <1>5
<1>14. caller' = "reading" =>
         \/ NotBegun(reporter') \/ IsFinished(reporter')
         \/ \E m \in Nat : /\ Hears(reporter', cached', total', m) /\ m <= processed' - cached'
                           /\ AtLeast(queue', m)
  <2>1. SUFFICES ASSUME caller = "reading", ~NotBegun(reporter), ~IsFinished(reporter)
                 PROVE  \E m \in Nat : /\ Hears(reporter, cached, total, m) /\ m <= n - cached
                                       /\ AtLeast(q, m)
    BY <1>2, <1>5
  <2>2. PICK m \in Nat : Hears(reporter, cached, total, m) /\ m <= processed - cached /\ AtLeast(queue, m)
    BY <1>1, <2>1 DEF VisionRight
  <2>3. m <= Prefill - cached
    BY <1>1, <2>2, PromptNumbers DEF Hears
  <2>4. m <= n - cached
    BY <1>1, <2>2, PromptNumbers
  <2> QED BY <1>4, <2>2, <2>3, <2>4
<1>15. /\ reporter.stopped => caller # "reading"
       /\ caller \in {"cancelled", "raised"} => removed
       /\ shown > 0 => reporter.stopped \/ IsFinished(reporter)
  BY <1>1 DEF VisionRight
<1>16. VisionRight'
  BY <1>5, <1>6, <1>7, <1>8, <1>9, <1>10, <1>11, <1>12, <1>13, <1>14, <1>15 DEF VisionRight
<1> QED BY <1>2, <1>4, <1>16

\* A step of the text kit that only reports progress keeps its part of the invariant.
LEMMA TextAfterProgress ==
  ASSUME ProgressInv, kit = "text", UNCHANGED OfKit, stage \in {"main", "ready"},
         NEW n \in Nat, processed <= n, processed' = n, queue' = Progress(n), finished' = finished
  PROVE  TextRight' /\ queue' \in Seq(News)
<1>1. KitRight /\ TextRight
  BY DEF ProgressInv
<1>2. PICK q : q = queue'
  OBVIOUS
<1>3. TextQueue(q, n)
  BY <1>1, <1>2, TextProgress
<1>4. /\ q \in Seq(News) /\ InOrder(q) /\ Cardinality(TokensIn(q)) = Cardinality(TokensIn(queue))
      /\ TextItems(q, n, total) /\ PairIn(q, n)
      /\ \A m \in Nat : m <= processed /\ AtLeast(queue, m) => AtLeast(q, m)
  BY <1>3 DEF TextQueue
<1>5. reporter' = reporter /\ total' = total /\ cached' = cached /\ kit' = kit /\ caller' = caller
      /\ shown' = shown /\ first' = first
  BY DEF OfKit
<1>6. InOrder(queue)' /\ (shown + Cardinality(TokensIn(queue)) <= MaxShown)'
  <2>1. shown + Cardinality(TokensIn(queue)) <= MaxShown
    BY <1>1 DEF TextRight
  <2> QED BY <1>2, <1>4, <1>5, <2>1
<1>7. TextItems(queue', processed', total') /\ PairIn(queue', processed')
  BY <1>2, <1>4, <1>5
<1>8. /\ first => NotBegun(reporter) /\ ~finished
      /\ finished => IsFinished(reporter)
      /\ shown > 0 => reporter.stopped \/ IsFinished(reporter)
  BY <1>1 DEF TextRight
<1>9. caller' = "reading" /\ ~finished' /\ ~first' =>
         \E m \in Nat : Hears(reporter', cached', total', m) /\ m <= processed' /\ AtLeast(queue', m)
  <2>1. SUFFICES ASSUME caller = "reading", ~finished, ~first
                 PROVE  \E m \in Nat : Hears(reporter, cached, total, m) /\ m <= n /\ AtLeast(q, m)
    BY <1>2, <1>5
  <2>2. PICK m \in Nat : Hears(reporter, cached, total, m) /\ m <= processed /\ AtLeast(queue, m)
    BY <1>1, <2>1 DEF TextRight
  <2>3. m <= n
    BY <1>1, <2>2, PromptNumbers
  <2> QED BY <1>4, <2>2, <2>3
<1>10. TextRight'
  BY <1>5, <1>6, <1>7, <1>8, <1>9 DEF TextRight
<1> QED BY <1>2, <1>4, <1>10

\* The kits that are not sequential are the two batched ones.
LEMMA BatchedKits ==
  ASSUME ProgressInv, kit # "sequential"
  PROVE  kit \in {"text", "vision"}
BY DEF ProgressInv, KitRight

\* A step of InsertPrompt keeps the invariant.
LEMMA InsertStep ==
  ASSUME ProgressInv, InsertPrompt
  PROVE  ProgressInv'
<1>1. /\ KitRight /\ HeardRight(reporter, cached, total) /\ VisionRight /\ TextRight
      /\ kit \in {"text", "vision"} /\ stage = "start" /\ processed = cached
      /\ UNCHANGED <<OfKit, processed, finished>>
      /\ stage' = IF processed = Prefill THEN "ready" ELSE "main"
      /\ queue' = IF kit = "vision" THEN Append(queue, [kind |-> "begin", tokens |-> 0]) ELSE queue
  BY BatchedKits DEF InsertPrompt, ProgressInv, CallerUnchanged, OfKit, KitRight
<1>2. HeardRight(reporter, cached, total)'
  BY <1>1 DEF OfKit
<1>3. processed <= Prefill /\ (stage' = "ready" => processed = Prefill)
  BY <1>1, PromptNumbers
<1>4. ASSUME queue' \in Seq(News) PROVE KitRight'
  BY <1>1, <1>3, <1>4 DEF KitRight, Prefill, OfKit
<1>5. CASE kit = "text"
  <2>1. queue' = queue
    BY <1>1, <1>5
  <2>2. TextRight'
    BY <1>1, <2>1 DEF TextRight, OfKit
  <2>3. queue' \in Seq(News)
    BY <1>1, <2>1 DEF KitRight
  <2>4. SequentialRight' /\ VisionRight'
    BY <1>1, <1>5, OnlyText DEF OfKit
  <2> QED BY <1>2, <1>4, <2>2, <2>3, <2>4 DEF ProgressInv
<1>6. CASE kit = "vision"
  <2>1. PICK e : e = [kind |-> "begin", tokens |-> 0]
    OBVIOUS
  <2>2. e \in News /\ e.kind = "begin" /\ e.tokens = 0
    BY <2>1 DEF News, Kinds
  <2>3. /\ queue = <<>> /\ NotBegun(reporter) /\ ~finished /\ (finished <=> IsFinished(reporter) \/ FinishIn(queue))
        /\ shown + Cardinality(TokensIn(queue)) <= MaxShown /\ queue \in Seq(News)
    BY <1>1, <1>6 DEF VisionRight, KitRight
  <2>4. PICK q : q = queue'
    OBVIOUS
  <2>5. q = Append(queue, e)
    BY <1>1, <1>6, <2>1, <2>4
  <2>6. q \in Seq(News) /\ DOMAIN q = 1..1 /\ q[1] = e /\ q # <<>>
    BY <2>2, <2>3, <2>5
  <2>7. InOrder(q) /\ ~FinishIn(q)
    BY <2>2, <2>6 DEF InOrder, FinishIn
  <2>8. Cardinality(TokensIn(q)) = Cardinality(TokensIn(queue))
    <3>1. PICK c : c = Cardinality(TokensIn(queue))
      OBVIOUS
    <3>2. c \in Nat
      BY <2>3, <3>1, TokensFinite
    <3>3. Cardinality(TokensIn(q)) = c + 0
      BY <2>2, <2>3, <2>5, <3>1, TokensAppended
    <3> QED BY <3>1, <3>2, <3>3
  <2>9. PICK u \in BOOLEAN : u = NotBegun(reporter)
    BY DEF NotBegun
  <2>10. PICK d, w, f : d = processed - cached /\ w = Prefill - cached /\ f = finished
    OBVIOUS
  <2>11. d \in Nat /\ w \in Nat /\ u = TRUE
    BY <1>1, <2>3, <2>9, <2>10, PromptNumbers
  <2>12. VisionItems(q, u, d, w, f)
    BY <2>2, <2>6, <2>11 DEF VisionItems
  <2>13. VisionItems(queue', NotBegun(reporter'), processed' - cached', Prefill' - cached', finished')
    BY <1>1, <2>4, <2>9, <2>10, <2>12 DEF OfKit, Prefill
  <2>14. /\ reporter.stopped => caller # "reading"
         /\ caller \in {"cancelled", "raised"} => removed
         /\ shown > 0 => reporter.stopped \/ IsFinished(reporter)
    BY <1>1, <1>6 DEF VisionRight
  <2>15. /\ reporter' = reporter /\ caller' = caller /\ shown' = shown /\ removed' = removed
         /\ finished' = finished /\ kit' = kit
    BY <1>1 DEF OfKit
  <2>16. VisionRight'
    <3>1. InOrder(queue') /\ (shown + Cardinality(TokensIn(queue)) <= MaxShown)'
      BY <2>3, <2>4, <2>7, <2>8, <2>15
    <3>2. /\ stage' \in {"main", "ready"} /\ ~finished' /\ queue' # <<>>
          /\ finished' <=> IsFinished(reporter') \/ FinishIn(queue')
          /\ ~IsFinished(reporter')
      BY <1>1, <2>3, <2>4, <2>6, <2>7, <2>15
    <3>3. /\ reporter'.stopped => caller' # "reading"
          /\ caller' \in {"cancelled", "raised"} => removed'
          /\ shown' > 0 => reporter'.stopped \/ IsFinished(reporter')
      BY <2>14, <2>15
    <3>4. NotBegun(reporter')
      BY <2>3, <2>15
    <3> QED BY <2>13, <3>1, <3>2, <3>3, <3>4 DEF VisionRight
  <2>17. SequentialRight' /\ TextRight'
    BY <1>1, <1>6, <2>15, OnlyVision
  <2> QED BY <1>2, <1>4, <2>4, <2>6, <2>16, <2>17 DEF ProgressInv
<1> QED BY <1>1, <1>5, <1>6

\* A step of PrefillStep keeps the invariant.
LEMMA PrefillStepStep ==
  ASSUME ProgressInv, NEW n \in Chunks, PrefillStep(n)
  PROVE  ProgressInv'
<1>1. /\ KitRight /\ HeardRight(reporter, cached, total)
      /\ kit \in {"text", "vision"} /\ stage = "main" /\ processed + n <= Prefill
      /\ UNCHANGED OfKit
      /\ processed' = processed + n /\ queue' = Progress(processed + n)
      /\ finished' = IF kit = "vision" THEN finished \/ IsFinal(processed + n) ELSE finished
      /\ stage' = IF processed + n = Prefill THEN "ready" ELSE "main"
  BY BatchedKits DEF PrefillStep, ProgressInv, CallerUnchanged, OfKit, Fits
<1>2. n \in Nat /\ n >= 1
  BY ProgressAssumption DEF Chunks
<1>3. PICK m : m = processed + n
  OBVIOUS
<1>4. m \in Nat /\ processed <= m /\ m <= Prefill /\ cached <= m /\ m <= total
  BY <1>1, <1>2, <1>3, PromptNumbers
<1>5. HeardRight(reporter, cached, total)'
  BY <1>1 DEF OfKit
<1>6. ASSUME queue' \in Seq(News), finished' \in BOOLEAN PROVE KitRight'
  <2>1. processed' = m /\ m \in cached..total
    BY <1>1, <1>3, <1>4, PromptNumbers
  <2> QED BY <1>1, <1>3, <1>4, <1>6, <2>1 DEF KitRight, Prefill, OfKit
<1>7. CASE kit = "vision"
  <2>1. PICK f \in BOOLEAN : f = (finished \/ m >= Prefill)
    OBVIOUS
  <2>2. finished' = f
    BY <1>1, <1>3, <1>7, <2>1 DEF IsFinal
  <2>3. f <=> (finished \/ m >= Prefill)
    BY <2>1
  <2>4. /\ stage' \in {"main", "ready", "decode"}
        /\ stage' = "main" => stage = "main" /\ m < Prefill
        /\ stage' = "decode" => m >= Prefill
    BY <1>1, <1>3, <1>4, PromptNumbers
  <2>5. processed' = m /\ queue' = Progress(m) /\ stage \in {"main", "ready"} /\ UNCHANGED OfKit
    BY <1>1, <1>3
  <2>6. VisionRight' /\ queue' \in Seq(News)
    BY <1>4, <1>7, <2>2, <2>3, <2>4, <2>5, VisionAfterProgress
  <2>7. SequentialRight' /\ TextRight'
    BY <1>1, <1>7, OnlyVision DEF OfKit
  <2> QED BY <1>5, <1>6, <2>2, <2>6, <2>7 DEF ProgressInv
<1>8. CASE kit = "text"
  <2>1. finished' = finished /\ finished \in BOOLEAN
    BY <1>1, <1>8 DEF KitRight
  <2>2. processed' = m /\ queue' = Progress(m) /\ stage \in {"main", "ready"} /\ UNCHANGED OfKit
    BY <1>1, <1>3
  <2>3. TextRight' /\ queue' \in Seq(News)
    BY <1>4, <1>8, <2>1, <2>2, TextAfterProgress
  <2>4. SequentialRight' /\ VisionRight'
    BY <1>1, <1>8, OnlyText DEF OfKit
  <2> QED BY <1>5, <1>6, <2>1, <2>3, <2>4 DEF ProgressInv
<1> QED BY <1>1, <1>7, <1>8

\* A step of LastPass keeps the invariant.
LEMMA LastPassStep ==
  ASSUME ProgressInv, LastPass
  PROVE  ProgressInv'
<1>1. /\ KitRight /\ HeardRight(reporter, cached, total) /\ stage = "ready" /\ SequentialRight
      /\ UNCHANGED OfKit
      /\ processed' = total /\ queue' = Progress(total)
      /\ finished' = IF kit = "vision" THEN TRUE ELSE finished
      /\ stage' = "decode"
  BY DEF LastPass, ProgressInv, CallerUnchanged, OfKit
<1>2. kit \in {"text", "vision"}
  BY <1>1 DEF KitRight, SequentialRight
<1>3. PICK m : m = total
  OBVIOUS
<1>4. m \in Nat /\ processed <= m /\ m >= Prefill
  BY <1>1, <1>3, PromptNumbers
<1>5. HeardRight(reporter, cached, total)'
  BY <1>1 DEF OfKit
<1>6. ASSUME queue' \in Seq(News), finished' \in BOOLEAN PROVE KitRight'
  <2>1. total \in cached..total
    BY <1>1, PromptNumbers
  <2> QED BY <1>1, <1>2, <1>6, <2>1 DEF KitRight, Prefill, OfKit
<1>7. processed' = m /\ queue' = Progress(m) /\ stage \in {"main", "ready"} /\ UNCHANGED OfKit
  BY <1>1, <1>3
<1>8. CASE kit = "vision"
  <2>1. finished' = TRUE /\ (TRUE <=> (finished \/ m >= Prefill)) /\ TRUE \in BOOLEAN
    BY <1>1, <1>4, <1>8
  <2>2. /\ stage' \in {"main", "ready", "decode"}
        /\ stage' = "main" => stage = "main" /\ m < Prefill
        /\ stage' = "decode" => m >= Prefill
    BY <1>1, <1>4
  <2>3. VisionRight' /\ queue' \in Seq(News)
    BY <1>4, <1>7, <1>8, <2>1, <2>2, VisionAfterProgress
  <2>4. SequentialRight' /\ TextRight'
    BY <1>1, <1>8, OnlyVision DEF OfKit
  <2> QED BY <1>5, <1>6, <2>1, <2>3, <2>4 DEF ProgressInv
<1>9. CASE kit = "text"
  <2>1. finished' = finished /\ finished \in BOOLEAN
    BY <1>1, <1>9 DEF KitRight
  <2>2. TextRight' /\ queue' \in Seq(News)
    BY <1>4, <1>7, <1>9, <2>1, TextAfterProgress
  <2>3. SequentialRight' /\ VisionRight'
    BY <1>1, <1>9, OnlyText DEF OfKit
  <2> QED BY <1>5, <1>6, <2>1, <2>2, <2>3 DEF ProgressInv
<1> QED BY <1>2, <1>8, <1>9

\* A step of DecodeStep keeps the invariant.
LEMMA DecodeStepStep ==
  ASSUME ProgressInv, DecodeStep
  PROVE  ProgressInv'
<1>1. /\ KitRight /\ HeardRight(reporter, cached, total) /\ VisionRight /\ TextRight
      /\ kit \in {"text", "vision"} /\ stage = "decode"
      /\ shown + Cardinality(QueuedTokens) < MaxShown
      /\ UNCHANGED <<OfKit, processed, finished, stage>>
      /\ queue' = Append(queue, [kind |-> "token", tokens |-> 0])
  BY BatchedKits DEF DecodeStep, ProgressInv, CallerUnchanged, OfKit
<1>2. PICK e : e = [kind |-> "token", tokens |-> 0]
  OBVIOUS
<1>3. e \in News /\ e.kind = "token"
  BY <1>2 DEF News
<1>4. PICK q, p : q = queue /\ p = queue'
  OBVIOUS
<1>5. p = Append(q, e) /\ q \in Seq(News)
  BY <1>1, <1>2, <1>4 DEF KitRight
<1>6. p \in Seq(News) /\ p # <<>>
  BY <1>3, <1>5, QueueAppended
<1>7. InOrder(q)
  BY <1>1, <1>4 DEF VisionRight, TextRight
<1>8. InOrder(p)
  BY <1>3, <1>5, <1>7, OrderAppended
<1>9. Cardinality(TokensIn(p)) = Cardinality(TokensIn(q)) + 1 /\ Cardinality(TokensIn(q)) \in Nat
  <2>1. Cardinality(TokensIn(p)) = Cardinality(TokensIn(q)) + IF e.kind = "token" THEN 1 ELSE 0
    BY <1>3, <1>5, TokensAppended
  <2>2. Cardinality(TokensIn(q)) \in Nat
    BY <1>5, TokensFinite
  <2> QED BY <1>3, <2>1, <2>2
<1>10. (shown + Cardinality(TokensIn(queue)) <= MaxShown)'
  <2>1. QueuedTokens = TokensIn(q)
    BY <1>4 DEF QueuedTokens, TokensIn
  <2>2. PICK c : c = Cardinality(TokensIn(q))
    OBVIOUS
  <2>3. c \in Nat /\ Cardinality(TokensIn(p)) = c + 1 /\ shown + c < MaxShown /\ shown \in Nat
    BY <1>1, <1>9, <2>1, <2>2 DEF KitRight
  <2>4. shown' = shown /\ Cardinality(TokensIn(queue')) = c + 1
    BY <1>1, <1>4, <2>3 DEF OfKit
  <2> QED BY <2>3, <2>4, ProgressAssumption
<1>11. /\ OnlyTokens(q) => OnlyTokens(p)
       /\ FinishIn(p) <=> FinishIn(q)
       /\ \A n \in Nat : PairIn(q, n) => PairIn(p, n)
       /\ \A n \in Nat : AtLeast(q, n) => AtLeast(p, n)
  BY <1>3, <1>5, OnlyTokensAppended
<1>12. /\ reporter' = reporter /\ total' = total /\ cached' = cached /\ kit' = kit /\ caller' = caller
       /\ shown' = shown /\ removed' = removed /\ first' = first /\ Prefill' = Prefill
       /\ processed' = processed /\ finished' = finished /\ stage' = stage
  BY <1>1 DEF OfKit, Prefill
<1>13. HeardRight(reporter, cached, total)'
  BY <1>1, <1>12
<1>14. KitRight'
  BY <1>1, <1>4, <1>6, <1>12 DEF KitRight
<1>15. CASE kit = "vision"
  <2>1. /\ finished /\ stage = "decode"
        /\ finished <=> IsFinished(reporter) \/ FinishIn(queue)
        /\ VisionItems(queue, NotBegun(reporter), processed - cached, Prefill - cached, finished)
        /\ IsFinished(reporter) => OnlyTokens(queue)
        /\ NotBegun(reporter) => queue # <<>>
        /\ caller = "reading" =>
             \/ NotBegun(reporter) \/ IsFinished(reporter)
             \/ \E n \in Nat : /\ Hears(reporter, cached, total, n) /\ n <= processed - cached
                               /\ AtLeast(queue, n)
        /\ reporter.stopped => caller # "reading"
        /\ caller \in {"cancelled", "raised"} => removed
        /\ shown > 0 => reporter.stopped \/ IsFinished(reporter)
    BY <1>1, <1>15 DEF VisionRight
  <2>2. PICK u \in BOOLEAN : u = NotBegun(reporter)
    BY DEF NotBegun
  <2>3. PICK d, w : d = processed - cached /\ w = Prefill - cached
    OBVIOUS
  <2>4. d \in Int /\ w \in Int /\ finished = TRUE
    BY <1>1, <2>1, <2>3, PromptNumbers DEF KitRight
  <2>5. VisionItems(q, u, d, w, TRUE) /\ (u => q # <<>>)
    BY <1>4, <2>1, <2>2, <2>3, <2>4
  <2>6. VisionItems(p, u, d, w, TRUE)
    BY <1>3, <1>5, <2>4, <2>5, VisionTokenQueued
  <2>7. VisionItems(queue', NotBegun(reporter'), processed' - cached', Prefill' - cached', finished')
    BY <1>4, <1>12, <2>2, <2>3, <2>4, <2>6
  <2>8. InOrder(queue') /\ (finished' <=> IsFinished(reporter') \/ FinishIn(queue'))
    BY <1>4, <1>8, <1>11, <1>12, <2>1
  <2>9. (IsFinished(reporter') => OnlyTokens(queue')) /\ queue' # <<>> /\ finished' /\ stage' = "decode"
    BY <1>4, <1>6, <1>11, <1>12, <2>1
  <2>10. caller' = "reading" =>
             \/ NotBegun(reporter') \/ IsFinished(reporter')
             \/ \E n \in Nat : /\ Hears(reporter', cached', total', n) /\ n <= processed' - cached'
                               /\ AtLeast(queue', n)
    BY <1>4, <1>11, <1>12, <2>1
  <2>11. VisionRight'
    BY <1>10, <1>12, <2>1, <2>7, <2>8, <2>9, <2>10 DEF VisionRight
  <2>12. SequentialRight' /\ TextRight'
    BY <1>12, <1>15, OnlyVision
  <2> QED BY <1>13, <1>14, <2>11, <2>12 DEF ProgressInv
<1>16. CASE kit = "text"
  <2>1. /\ TextItems(queue, processed, total)
        /\ first => NotBegun(reporter) /\ ~finished
        /\ finished => IsFinished(reporter)
        /\ caller = "reading" /\ ~finished /\ ~first =>
             \E n \in Nat : Hears(reporter, cached, total, n) /\ n <= processed /\ AtLeast(queue, n)
        /\ processed = total =>
             reporter.stopped \/ finished \/ caller # "reading" \/ PairIn(queue, total)
        /\ shown > 0 => reporter.stopped \/ IsFinished(reporter)
    BY <1>1, <1>16 DEF TextRight
  <2>2. processed = total /\ total \in Nat
    BY <1>1, <1>16, PromptNumbers DEF KitRight
  <2>3. PICK d : d = total
    OBVIOUS
  <2>4. TextItems(p, d, d)
    <3>1. TextItems(q, d, d)
      BY <1>4, <2>1, <2>2, <2>3
    <3>2. PICK k : k = Len(q)
      OBVIOUS
    <3>3. /\ DOMAIN q = 1..k /\ DOMAIN p = 1..(k + 1) /\ p[k + 1] = e /\ k \in Nat
          /\ \A i \in 1..k : p[i] = q[i]
      BY <1>3, <1>5, <3>2, QueueAppended
    <3>4. \A i \in DOMAIN p : p[i] = e \/ (i \in DOMAIN q /\ p[i] = q[i])
      BY <3>3
    <3> QED BY <1>3, <3>1, <3>4 DEF TextItems
  <2>5. TextItems(queue', processed', total')
    BY <1>4, <1>12, <2>2, <2>3, <2>4
  <2>6. caller' = "reading" /\ ~finished' /\ ~first' =>
             \E n \in Nat : Hears(reporter', cached', total', n) /\ n <= processed' /\ AtLeast(queue', n)
    BY <1>4, <1>11, <1>12, <2>1
  <2>7. reporter'.stopped \/ finished' \/ caller' # "reading" \/ PairIn(queue', total')
    BY <1>4, <1>11, <1>12, <2>1, <2>2
  <2>8. TextRight'
    BY <1>4, <1>8, <1>10, <1>12, <2>1, <2>5, <2>6, <2>7 DEF TextRight
  <2>9. SequentialRight' /\ VisionRight'
    BY <1>12, <1>16, OnlyText
  <2> QED BY <1>13, <1>14, <2>8, <2>9 DEF ProgressInv
<1> QED BY <1>1, <1>15, <1>16

\* A step of Drop keeps the invariant.
LEMMA DropStep ==
  ASSUME ProgressInv, Drop
  PROVE  ProgressInv'
<1>1. /\ KitRight /\ HeardRight(reporter, cached, total) /\ SequentialRight /\ VisionRight /\ TextRight
      /\ removed /\ stage' = "gone"
      /\ kit' = kit /\ total' = total /\ cached' = cached /\ first' = first /\ reporter' = reporter
      /\ caller' = caller /\ shown' = shown /\ removed' = removed
      /\ processed' = processed /\ queue' = queue /\ finished' = finished
  BY DEF Drop, CallerUnchanged, ProgressInv
<1>2. HeardRight(reporter, cached, total)' /\ Prefill' = Prefill
  BY <1>1 DEF Prefill
<1>3. KitRight'
  BY <1>1, <1>2 DEF KitRight
<1>4. SequentialRight'
  BY <1>1 DEF SequentialRight
<1>5. VisionRight'
  BY <1>1, <1>2 DEF VisionRight
<1>6. TextRight'
  BY <1>1 DEF TextRight
<1> QED BY <1>2, <1>3, <1>4, <1>5, <1>6 DEF ProgressInv

\* A step of Done keeps the invariant.
LEMMA DoneStep ==
  ASSUME ProgressInv, Done
  PROVE  ProgressInv'
<1>1. /\ KitRight /\ HeardRight(reporter, cached, total) /\ SequentialRight /\ VisionRight /\ TextRight
      /\ caller = "reading" /\ caller' = "done" /\ stage' = "gone"
      /\ kit' = kit /\ total' = total /\ cached' = cached /\ first' = first /\ reporter' = reporter
      /\ shown' = shown /\ removed' = removed
      /\ processed' = processed /\ queue' = queue /\ finished' = finished
  BY DEF Done, ProgressInv
<1>2. HeardRight(reporter, cached, total)' /\ Prefill' = Prefill
  BY <1>1 DEF Prefill
<1>3. KitRight'
  BY <1>1, <1>2 DEF KitRight
<1>4. SequentialRight'
  BY <1>1 DEF SequentialRight
<1>5. VisionRight'
  BY <1>1, <1>2 DEF VisionRight
<1>6. TextRight'
  BY <1>1 DEF TextRight
<1> QED BY <1>2, <1>3, <1>4, <1>5, <1>6 DEF ProgressInv

-----------------------------------------------------------------------------
(* Steps of the caller's thread.                                           *)

\* What the reporter r of the vision kit's caller has become of the item e.
Reported(r, s, e, a, c, t) ==
  /\ HeardRight(s, c, t) /\ Listened(r, s, a)
  /\ IsFinished(s) <=> e.kind = "finish"
  /\ a # "raise" /\ e.kind # "finish" => Hears(s, c, t, e.tokens)

\* An item of the vision kit's queue that its reporter is told leaves the reporter as it should be.
LEMMA VisionReported ==
  ASSUME NEW c \in Nat, NEW t \in Nat, c <= t - 1, NEW r, HeardRight(r, c, t),
         NEW a \in Answers, NEW e \in News, NEW s, e.tokens <= t - 1 - c,
         \/ e.kind = "begin" /\ NotBegun(r) /\ s = Begin(r, c, t, e.tokens, a)
         \/ /\ \E m \in Nat : Hears(r, c, t, m) /\ m <= e.tokens
            /\ \/ e.kind = "update" /\ s = Update(r, FALSE, e.tokens, a)
               \/ e.kind = "finish" /\ e.tokens = t - 1 - c /\ s = Finish(r, e.tokens, a)
  PROVE  Reported(r, s, e, a, c, t)
<1>1. PICK n : n = e.tokens
  OBVIOUS
<1>2. n \in Nat
  BY <1>1 DEF News
<1>3. CASE e.kind = "begin" /\ NotBegun(r) /\ s = Begin(r, c, t, n, a)
  <2>1. /\ HeardRight(s, c, t) /\ Listened(r, s, a) /\ ~IsFinished(s)
        /\ a # "raise" => Hears(s, c, t, n)
    BY <1>1, <1>2, <1>3, BeginRight
  <2> QED BY <1>1, <1>3, <2>1 DEF Reported
<1>4. CASE \E m \in Nat : Hears(r, c, t, m) /\ m <= n
  <2>1. PICK m \in Nat : Hears(r, c, t, m) /\ m <= n
    BY <1>4
  <2>2. CASE e.kind = "update" /\ s = Update(r, FALSE, n, a)
    <3>1. /\ HeardRight(s, c, t) /\ Listened(r, s, a) /\ ~IsFinished(s)
          /\ a # "raise" => Hears(s, c, t, n)
      BY <1>1, <1>2, <2>1, <2>2, UpdateRight
    <3> QED BY <1>1, <2>2, <3>1 DEF Reported
  <2>3. CASE e.kind = "finish" /\ n = t - 1 - c /\ s = Finish(r, n, a)
    <3>1. HeardRight(s, c, t) /\ Listened(r, s, a) /\ IsFinished(s)
      BY <1>1, <1>2, <2>1, <2>3, FinishRight
    <3> QED BY <1>1, <2>3, <3>1 DEF Reported
  <2> QED BY <1>1, <2>2, <2>3, <1>3
<1> QED BY <1>1, <1>3, <1>4

\* A step of VisionReport keeps the invariant.
LEMMA VisionReportStep ==
  ASSUME ProgressInv, NEW a \in Answers, VisionReport(a)
  PROVE  ProgressInv'
<1>1. /\ KitRight /\ HeardRight(reporter, cached, total) /\ VisionRight
      /\ kit = "vision" /\ caller = "reading" /\ queue # <<>> /\ queue' = Tail(queue)
      /\ caller' = AfterAnswer(a) /\ removed' = Removes(a)
      /\ UNCHANGED <<kit, total, cached, processed, stage, first, finished, shown>>
  BY DEF VisionReport, Read, KitUnchanged, ProgressInv
<1>2. PICK e : e = Head(queue)
  OBVIOUS
<1>3. PICK r, s, c, t : r = reporter /\ s = reporter' /\ c = cached /\ t = total
  OBVIOUS
<1>4. /\ e.kind \in {"begin", "update", "finish"}
      /\ e.kind = "begin" => s = Begin(r, c, t, e.tokens, a)
      /\ e.kind = "update" => s = Update(r, FALSE, e.tokens, a)
      /\ e.kind = "finish" => s = Finish(r, e.tokens, a)
  <2>1. PICK kind \in {"begin", "update", "finish"} :
          /\ e.kind = kind
          /\ reporter' = CASE kind = "begin" -> Begin(reporter, cached, total, e.tokens, a)
                           [] kind = "update" -> Update(reporter, FALSE, e.tokens, a)
                           [] OTHER -> Finish(reporter, e.tokens, a)
    BY <1>2, Zenon DEF VisionReport, Read
  <2> QED BY <1>3, <2>1
<1>5. PICK q, p : q = queue /\ p = queue'
  OBVIOUS
<1>6. q \in Seq(News) /\ q # <<>> /\ p = Tail(q) /\ e = Head(q)
  BY <1>1, <1>2, <1>5 DEF KitRight
<1>7. p \in Seq(News) /\ e \in News
  BY <1>6, QueueTail
<1>8. /\ InOrder(q) /\ shown + Cardinality(TokensIn(q)) <= MaxShown
      /\ stage \in {"start", "main"} => ~finished
      /\ stage = "decode" => finished
      /\ finished <=> IsFinished(r) \/ FinishIn(q)
      /\ stage # "start"
      /\ VisionItems(q, NotBegun(r), processed - cached, Prefill - cached, finished)
      /\ IsFinished(r) => OnlyTokens(q)
      /\ \/ NotBegun(r) \/ IsFinished(r)
         \/ \E n \in Nat : /\ Hears(r, c, t, n) /\ n <= processed - cached
                           /\ AtLeast(q, n)
      /\ ~r.stopped
      /\ shown > 0 => r.stopped \/ IsFinished(r)
  BY <1>1, <1>3, <1>5 DEF VisionRight
<1>9. PICK u \in BOOLEAN : u = NotBegun(r)
  BY DEF NotBegun
<1>10. PICK d, w : d = processed - cached /\ w = Prefill - cached
  OBVIOUS
<1>11. /\ d \in Nat /\ w \in Nat /\ w = t - 1 - c /\ c \in Nat /\ t \in Nat /\ c <= t - 1
  BY <1>1, <1>3, <1>10, PromptNumbers
<1>12. VisionItems(q, u, d, w, finished) /\ finished \in BOOLEAN
  BY <1>1, <1>8, <1>9, <1>10 DEF KitRight
<1>13. /\ VisionItems(p, FALSE, d, w, finished)
       /\ e.kind = "begin" <=> u
       /\ e.kind = "finish" => OnlyTokens(p) /\ e.tokens = w
       /\ FinishIn(q) <=> e.kind = "finish" \/ FinishIn(p)
       /\ e.kind # "token" => e.tokens <= d /\ e.tokens <= w
       /\ OnlyTokens(q) => e.kind = "token"
  <2>1. d \in Int /\ w \in Int
    BY <1>11
  <2>2. PICK f \in BOOLEAN : f = finished
    BY <1>12
  <2>3. VisionItems(q, u, d, w, f) /\ q \in Seq(News) /\ q # <<>>
    BY <1>6, <1>12, <2>2
  <2>4. ReadOff(q, Tail(q), Head(q), u, d, w, f)
    BY <2>1, <2>3, VisionItemsRead
  <2> QED BY <1>6, <2>2, <2>4 DEF ReadOff
<1>14. ~IsFinished(r) /\ e.tokens <= d /\ e.tokens <= w /\ e.tokens \in Nat
  <2>1. e.tokens \in Nat
    BY <1>7 DEF News
  <2> QED BY <1>4, <1>8, <1>13, <2>1
<1>15. InOrder(p) /\ AtLeast(p, e.tokens)
  BY <1>4, <1>6, <1>8, OrderOfTail
<1>16. (shown + Cardinality(TokensIn(queue)) <= MaxShown)'
  <2>1. Cardinality(TokensIn(p)) = Cardinality(TokensIn(q)) - 0
    BY <1>4, <1>6, TokensOfTail
  <2>2. PICK k : k = Cardinality(TokensIn(q))
    OBVIOUS
  <2>3. k \in Nat /\ Cardinality(TokensIn(p)) = k - 0
    BY <1>6, <2>1, <2>2, TokensFinite
  <2>4. Cardinality(TokensIn(p)) = k
    BY <2>3
  <2> QED BY <1>1, <1>5, <1>8, <2>2, <2>4
<1>17. Reported(r, s, e, a, c, t)
  <2>1. HeardRight(r, c, t)
    BY <1>1, <1>3
  <2>2. CASE e.kind = "begin"
    <3>1. NotBegun(r) /\ s = Begin(r, c, t, e.tokens, a) /\ e.tokens <= t - 1 - c
      BY <1>4, <1>9, <1>11, <1>13, <1>14, <2>2
    <3> QED BY <1>7, <1>11, <2>1, <2>2, <3>1, VisionReported
  <2>3. CASE e.kind # "begin"
    <3>1. \E n \in Nat : Hears(r, c, t, n) /\ AtLeast(q, n)
      BY <1>8, <1>9, <1>13, <1>14, <2>3
    <3>2. PICK n \in Nat : Hears(r, c, t, n) /\ AtLeast(q, n)
      BY <3>1
    <3>3. n <= e.tokens
      BY <1>4, <1>6, <3>2, AtLeastRead
    <3>4. e.tokens <= t - 1 - c /\ (e.kind = "finish" => e.tokens = t - 1 - c)
      BY <1>11, <1>13, <1>14
    <3>5. \E m \in Nat : Hears(r, c, t, m) /\ m <= e.tokens
      BY <3>2, <3>3
    <3>6. \/ e.kind = "update" /\ s = Update(r, FALSE, e.tokens, a)
          \/ e.kind = "finish" /\ e.tokens = t - 1 - c /\ s = Finish(r, e.tokens, a)
      BY <1>4, <2>3, <3>4
    <3> QED BY <1>7, <1>11, <2>1, <3>4, <3>5, <3>6, VisionReported
  <2> QED BY <2>2, <2>3
<1>18. /\ HeardRight(s, c, t) /\ s.events # <<>>
       /\ s.stopped <=> a = "stop"
       /\ IsFinished(s) <=> e.kind = "finish"
       /\ a # "raise" /\ e.kind # "finish" => Hears(s, c, t, e.tokens)
  BY <1>8, <1>17 DEF Reported, Listened
<1>19. /\ a = "continue" => caller' = "reading" /\ removed' = FALSE
       /\ a = "stop" => caller' = "cancelled" /\ removed' = TRUE
       /\ a = "raise" => caller' = "raised" /\ removed' = TRUE
       /\ a \in {"continue", "stop", "raise"}
  BY <1>1 DEF AfterAnswer, Removes, Answers
<1>20. /\ total' = total /\ cached' = cached /\ kit' = kit /\ shown' = shown /\ first' = first
       /\ Prefill' = Prefill /\ processed' = processed /\ finished' = finished /\ stage' = stage
  BY <1>1 DEF Prefill
<1>21. KitRight'
  <2>1. removed' \in BOOLEAN /\ caller' \in {"reading", "cancelled", "raised", "done"} /\ queue' \in Seq(News)
    BY <1>5, <1>7, <1>19
  <2> QED BY <1>1, <1>20, <2>1 DEF KitRight
<1>22. HeardRight(reporter, cached, total)'
  BY <1>3, <1>18, <1>20
<1>23. ~NotBegun(s)
  BY <1>18 DEF NotBegun
<1>24. VisionItems(queue', NotBegun(reporter'), processed' - cached', Prefill' - cached', finished')
  <2>1. NotBegun(reporter') = FALSE
    BY <1>3, <1>23 DEF NotBegun
  <2> QED BY <1>5, <1>10, <1>13, <1>20, <2>1
<1>25. /\ InOrder(queue')
       /\ finished' <=> IsFinished(reporter') \/ FinishIn(queue')
       /\ IsFinished(reporter') => OnlyTokens(queue')
       /\ ~NotBegun(reporter') /\ stage' # "start"
       /\ stage' = "main" => ~finished'
       /\ stage' = "decode" => finished'
  BY <1>3, <1>5, <1>8, <1>13, <1>14, <1>15, <1>18, <1>20, <1>23
<1>26. /\ reporter'.stopped => caller' # "reading"
       /\ caller' \in {"cancelled", "raised"} => removed'
       /\ shown' > 0 => reporter'.stopped \/ IsFinished(reporter')
  BY <1>3, <1>8, <1>14, <1>18, <1>19, <1>20
<1>27. caller' = "reading" =>
             \/ NotBegun(reporter') \/ IsFinished(reporter')
             \/ \E n \in Nat : /\ Hears(reporter', cached', total', n) /\ n <= processed' - cached'
                               /\ AtLeast(queue', n)
  <2>1. SUFFICES ASSUME caller' = "reading", ~IsFinished(reporter')
                 PROVE  \E n \in Nat : Hears(s, c, t, n) /\ n <= d /\ AtLeast(p, n)
    BY <1>3, <1>5, <1>10, <1>20
  <2>2. Hears(s, c, t, e.tokens)
    BY <1>3, <1>18, <1>19, <2>1
  <2> QED BY <1>14, <1>15, <2>2
<1>28. VisionRight'
  BY <1>16, <1>24, <1>25, <1>26, <1>27 DEF VisionRight
<1>29. SequentialRight' /\ TextRight'
  BY <1>1, <1>20, OnlyVision
<1> QED BY <1>21, <1>22, <1>28, <1>29 DEF ProgressInv

\* What the reporter r of the text kit's caller has become by its adapter's begin() ...
Begun(r, s, f, a, t, k) ==
  /\ HeardRight(s, 0, t) /\ ~IsFinished(s)
  /\ r.stopped => s.stopped
  /\ f /\ a = "stop" => s.stopped
  /\ ~(f /\ a = "raise") => \E m \in Nat : Hears(s, 0, t, m) /\ m <= k

\* The first of a pair leaves the text kit's reporter begun.
LEMMA TextBegun ==
  ASSUME NEW t \in Nat, t >= 1, NEW r, HeardRight(r, 0, t), NEW f \in BOOLEAN,
         f => NotBegun(r), NEW k \in Nat, k <= t - 1,
         ~f => \E m \in Nat : Hears(r, 0, t, m) /\ m <= k,
         NEW a \in Answers
  PROVE  Begun(r, IF f THEN Begin(r, 0, t, k, a) ELSE r, f, a, t, k)
<1>1. CASE f
  <2>1. PICK s : s = Begin(r, 0, t, k, a)
    OBVIOUS
  <2>2. 0 \in Nat /\ 0 <= t - 1 /\ k <= t - 1 - 0 /\ NotBegun(r)
    BY <1>1
  <2>3. /\ HeardRight(s, 0, t) /\ Listened(r, s, a)
        /\ ~IsFinished(s)
        /\ a # "raise" => Hears(s, 0, t, k)
    BY <2>1, <2>2, BeginRight
  <2> QED BY <1>1, <2>1, <2>3 DEF Begun, Listened
<1>2. CASE ~f
  <2>1. ~IsFinished(r)
    BY <1>2 DEF Hears
  <2> QED BY <1>2, <2>1 DEF Begun
<1> QED BY <1>1, <1>2

\* ... and by its update() or finish().
Continued(r, s, ended, b, t, k) ==
  /\ HeardRight(s, 0, t)
  /\ r.stopped => s.stopped
  /\ IsFinished(s) <=> ended
  /\ ~ended /\ b # "raise" => Hears(s, 0, t, k)

\* An update or the finish leaves the text kit's reporter as it should be.
LEMMA TextContinued ==
  ASSUME NEW t \in Nat, t >= 1, NEW r, HeardRight(r, 0, t), NEW k \in Nat, k <= t - 1,
         \E m \in Nat : Hears(r, 0, t, m) /\ m <= k,
         NEW ended \in BOOLEAN, ended => k = t - 1, NEW b \in Answers
  PROVE  Continued(r, IF ended THEN Finish(r, k, b) ELSE Update(r, FALSE, k, b), ended, b, t, k)
<1>1. PICK m \in Nat : Hears(r, 0, t, m) /\ m <= k
  OBVIOUS
<1>2. 0 \in Nat /\ 0 <= t - 1 /\ k <= t - 1 - 0
  OBVIOUS
<1>3. CASE ended
  <2>1. PICK s : s = Finish(r, k, b)
    OBVIOUS
  <2>2. k = t - 1 - 0
    BY <1>3
  <2>3. HeardRight(s, 0, t) /\ Listened(r, s, b) /\ IsFinished(s)
    BY <1>1, <1>2, <2>1, <2>2, FinishRight
  <2> QED BY <1>3, <2>1, <2>3 DEF Continued, Listened
<1>4. CASE ~ended
  <2>1. PICK s : s = Update(r, FALSE, k, b)
    OBVIOUS
  <2>2. /\ HeardRight(s, 0, t) /\ Listened(r, s, b) /\ ~IsFinished(s)
        /\ b # "raise" => Hears(s, 0, t, k)
    BY <1>1, <1>2, <2>1, UpdateRight
  <2> QED BY <1>4, <2>1, <2>2 DEF Continued, Listened
<1> QED BY <1>3, <1>4

\* What an adapter's call on a pair of n tokens leaves.
Adapted(r, s, f, n, t, a, b, ended, gone) ==
  /\ HeardRight(s, 0, t)
  /\ r.stopped => s.stopped
  /\ ended => IsFinished(s)
  /\ n >= t - 1 => s.stopped \/ ended \/ gone
  /\ ~ended /\ ~gone => \E m \in Nat : Hears(s, 0, t, m) /\ m <= n

\* It may be called, on a pair of n tokens; f on its first call.
MayAdapt(r, t, f, n) ==
  /\ f => NotBegun(r)
  /\ ~f => \E m \in Nat : Hears(r, 0, t, m) /\ m <= n

\* That call.
Adapts(r, s, f, n, t, a, b, ends, ended, gone, k, x) ==
  /\ k = IF n < t - 1 THEN n ELSE t - 1
  /\ x = IF f THEN Begin(r, 0, t, k, a) ELSE r
  /\ ends <=> f /\ a # "continue"
  /\ ended <=> ~ends /\ n >= t - 1
  /\ gone <=> (f /\ a = "raise") \/ (~ends /\ b = "raise")
  /\ s = IF ends THEN x ELSE IF n >= t - 1 THEN Finish(x, k, b) ELSE Update(x, FALSE, k, b)

\* A pair of the text kit's queue that its adapter passes on leaves the reporter as it should be.
LEMMA TextAdapted ==
  ASSUME NEW t \in Nat, t >= 1, NEW r, HeardRight(r, 0, t), NEW f \in BOOLEAN,
         NEW n \in Nat, MayAdapt(r, t, f, n), NEW a \in Answers, NEW b \in Answers,
         NEW ends \in BOOLEAN, NEW ended \in BOOLEAN, NEW gone \in BOOLEAN, NEW k, NEW x, NEW s,
         Adapts(r, s, f, n, t, a, b, ends, ended, gone, k, x)
  PROVE  Adapted(r, s, f, n, t, a, b, ended, gone)
<1>0. /\ k = IF n < t - 1 THEN n ELSE t - 1
      /\ x = IF f THEN Begin(r, 0, t, k, a) ELSE r
      /\ ends <=> f /\ a # "continue"
      /\ ended <=> ~ends /\ n >= t - 1
      /\ gone <=> (f /\ a = "raise") \/ (~ends /\ b = "raise")
      /\ s = IF ends THEN x ELSE IF n >= t - 1 THEN Finish(x, k, b) ELSE Update(x, FALSE, k, b)
  BY DEF Adapts
<1>1. k \in Nat /\ k <= t - 1 /\ k <= n /\ (n >= t - 1 => k = t - 1)
  BY <1>0
<1>2. ~f => \E m \in Nat : Hears(r, 0, t, m) /\ m <= k
  <2>1. SUFFICES ASSUME ~f PROVE \E m \in Nat : Hears(r, 0, t, m) /\ m <= k
    OBVIOUS
  <2>2. PICK m \in Nat : Hears(r, 0, t, m) /\ m <= n
    BY <2>1 DEF MayAdapt
  <2>3. m <= t - 1
    BY <2>2 DEF Hears
  <2>4. m <= k
    BY <1>0, <2>2, <2>3
  <2> QED BY <2>2, <2>4
<1>3. Begun(r, x, f, a, t, k)
  <2>1. f => NotBegun(r)
    BY DEF MayAdapt
  <2>2. Begun(r, IF f THEN Begin(r, 0, t, k, a) ELSE r, f, a, t, k)
    BY <1>1, <1>2, <2>1, TextBegun
  <2> QED BY <1>0, <2>2
<1>4. /\ HeardRight(x, 0, t) /\ ~IsFinished(x)
      /\ r.stopped => x.stopped
      /\ f /\ a = "stop" => x.stopped
      /\ ~(f /\ a = "raise") => \E m \in Nat : Hears(x, 0, t, m) /\ m <= k
  BY <1>3 DEF Begun
<1>5. CASE ends
  <2>1. s = x /\ ~ended /\ f /\ (gone <=> a = "raise") /\ (a = "stop" \/ a = "raise")
    BY <1>0, <1>5 DEF Answers
  <2>2. ~gone => \E m \in Nat : Hears(s, 0, t, m) /\ m <= n
    <3>1. SUFFICES ASSUME ~gone PROVE \E m \in Nat : Hears(s, 0, t, m) /\ m <= n
      OBVIOUS
    <3>2. PICK m \in Nat : Hears(x, 0, t, m) /\ m <= k
      BY <1>4, <2>1, <3>1
    <3>3. m <= n
      BY <1>1, <3>2
    <3> QED BY <2>1, <3>2, <3>3
  <2> QED BY <1>4, <2>1, <2>2 DEF Adapted
<1>6. CASE ~ends
  <2>1. /\ ended <=> n >= t - 1
        /\ s = IF ended THEN Finish(x, k, b) ELSE Update(x, FALSE, k, b)
        /\ gone <=> b = "raise"
        /\ ~(f /\ a = "raise")
    BY <1>0, <1>6
  <2>2. \E m \in Nat : Hears(x, 0, t, m) /\ m <= k
    BY <1>4, <2>1
  <2>3. Continued(x, s, ended, b, t, k)
    <3>1. PICK y : y = IF ended THEN Finish(x, k, b) ELSE Update(x, FALSE, k, b)
      OBVIOUS
    <3>2. HeardRight(x, 0, t) /\ k \in Nat /\ k <= t - 1 /\ (ended => k = t - 1)
      BY <1>1, <1>4, <2>1
    <3>3. Continued(x, y, ended, b, t, k)
      BY <2>2, <3>1, <3>2, TextContinued
    <3> QED BY <2>1, <3>1, <3>3
  <2>4. /\ HeardRight(s, 0, t)
        /\ x.stopped => s.stopped
        /\ IsFinished(s) <=> ended
        /\ ~ended /\ b # "raise" => Hears(s, 0, t, k)
    BY <2>3 DEF Continued
  <2>5. ~ended /\ ~gone => \E m \in Nat : Hears(s, 0, t, m) /\ m <= n
    BY <1>1, <2>1, <2>4
  <2> QED BY <1>4, <2>1, <2>4, <2>5 DEF Adapted
<1> QED BY <1>5, <1>6

\* The first item of the text kit is read: e, of q, and p is what is left.
PairOff(q, p, e, d, all) ==
  /\ TextItems(p, d, all)
  /\ e.kind = "pair" => e.tokens <= d
  /\ e.kind = "token" => d = all
  /\ PairIn(q, all) => (e.kind = "pair" /\ e.tokens = all) \/ PairIn(p, all)
  /\ OnlyTokens(q) => ~PairIn(q, all)

\* What reading the first item leaves of the text kit's queue.
LEMMA TextItemsRead ==
  ASSUME NEW q \in Seq(News), q # <<>>, NEW d, NEW all, TextItems(q, d, all)
  PROVE  PairOff(q, Tail(q), Head(q), d, all)
<1>1. PICK p, n : p = Tail(q) /\ n = Len(q)
  OBVIOUS
<1>2. /\ DOMAIN q = 1..n /\ DOMAIN p = 1..(n - 1) /\ n \in Nat /\ n >= 1
      /\ Head(q) = q[1] /\ \A i \in 1..(n - 1) : p[i] = q[i + 1]
  BY <1>1, QueueTail
<1>3. \A i \in DOMAIN p : i + 1 \in DOMAIN q /\ p[i] = q[i + 1]
  BY <1>2
<1>4. 1 \in DOMAIN q
  BY <1>2
<1>5. \A i \in DOMAIN q : i = 1 \/ (i - 1 \in DOMAIN p /\ p[i - 1] = q[i])
  BY <1>2
<1>6. TextItems(p, d, all)
  BY <1>3 DEF TextItems
<1>7. (Head(q).kind = "pair" => Head(q).tokens <= d) /\ (Head(q).kind = "token" => d = all)
  BY <1>2, <1>4 DEF TextItems
<1>8. PairIn(q, all) => (Head(q).kind = "pair" /\ Head(q).tokens = all) \/ PairIn(p, all)
  BY <1>2, <1>5 DEF PairIn
<1>9. OnlyTokens(q) => ~PairIn(q, all)
  BY DEF OnlyTokens, PairIn
<1> QED BY <1>1, <1>6, <1>7, <1>8, <1>9 DEF PairOff

\* A step of TextReport keeps the invariant.
LEMMA TextReportStep ==
  ASSUME ProgressInv, NEW a \in Answers, NEW b \in Answers, TextReport(a, b)
  PROVE  ProgressInv'
<1>1. /\ KitRight /\ HeardRight(reporter, cached, total) /\ TextRight
      /\ kit = "text" /\ caller = "reading" /\ queue # <<>> /\ queue' = Tail(queue)
      /\ Head(queue).kind = "pair"
      /\ UNCHANGED <<kit, total, cached, processed, stage, shown, removed>>
  BY DEF TextReport, Read, KitUnchanged, ProgressInv
<1>2. PICK e, n : e = Head(queue) /\ n = e.tokens
  OBVIOUS
<1>3. PICK q, p : q = queue /\ p = queue'
  OBVIOUS
<1>4. q \in Seq(News) /\ q # <<>> /\ p = Tail(q) /\ e = Head(q) /\ e.kind = "pair"
  BY <1>1, <1>2, <1>3 DEF KitRight
<1>5. p \in Seq(News) /\ e \in News /\ n \in Nat
  <2>1. Tail(q) \in Seq(News) /\ Head(q) \in News
    BY <1>4, QueueTail
  <2>2. e.tokens \in Nat
    BY <1>4, <2>1 DEF News
  <2> QED BY <1>2, <1>4, <2>1, <2>2
<1>6. PICK r, s, t : r = reporter /\ s = reporter' /\ t = total
  OBVIOUS
<1>7. cached = 0 /\ t \in Nat /\ t >= 1 /\ Prefill = t - 1 /\ processed \in Nat /\ processed <= t
      /\ finished \in BOOLEAN /\ first \in BOOLEAN /\ HeardRight(r, 0, t)
  <2>1. cached = 0
    BY <1>1 DEF KitRight
  <2>2. finished \in BOOLEAN /\ first \in BOOLEAN
    BY <1>1 DEF KitRight
  <2> QED BY <1>1, <1>6, <2>1, <2>2, PromptNumbers
<1>8. /\ InOrder(q) /\ shown + Cardinality(TokensIn(q)) <= MaxShown
      /\ TextItems(q, processed, t)
      /\ first => NotBegun(r) /\ ~finished
      /\ finished => IsFinished(r)
      /\ ~finished /\ ~first =>
           \E m \in Nat : Hears(r, 0, t, m) /\ m <= processed /\ AtLeast(q, m)
      /\ processed = t => r.stopped \/ finished \/ PairIn(q, t)
      /\ shown > 0 => r.stopped \/ IsFinished(r)
  BY <1>1, <1>3, <1>6, <1>7 DEF TextRight
<1>9. PairOff(q, p, e, processed, t)
  BY <1>4, <1>8, TextItemsRead
<1>10. /\ TextItems(p, processed, t)
       /\ n <= processed
       /\ PairIn(q, t) => n = t \/ PairIn(p, t)
  BY <1>2, <1>4, <1>9 DEF PairOff
<1>11. InOrder(p) /\ AtLeast(p, n)
  BY <1>2, <1>4, <1>8, OrderOfTail
<1>12. (shown + Cardinality(TokensIn(queue)) <= MaxShown)'
  <2>1. Cardinality(TokensIn(p)) = Cardinality(TokensIn(q)) - 0
    BY <1>4, TokensOfTail
  <2>2. PICK k : k = Cardinality(TokensIn(q))
    OBVIOUS
  <2>3. k \in Nat /\ Cardinality(TokensIn(p)) = k - 0
    BY <1>4, <2>1, <2>2, TokensFinite
  <2>4. Cardinality(TokensIn(p)) = k
    BY <2>3
  <2> QED BY <1>1, <1>3, <1>8, <2>2, <2>4
<1>13. /\ total' = total /\ cached' = cached /\ kit' = kit /\ shown' = shown
       /\ Prefill' = Prefill /\ processed' = processed /\ stage' = stage /\ removed' = removed
  BY <1>1 DEF Prefill
<1>14. SequentialRight' /\ VisionRight'
  BY <1>1, <1>13, OnlyText
<1>15. CASE finished
  <2>1. first' = first /\ finished' = finished /\ reporter' = reporter /\ caller' = caller
    BY <1>15, Zenon DEF TextReport, Ended
  <2>2. KitRight'
    BY <1>1, <1>3, <1>5, <1>13, <2>1 DEF KitRight
  <2>3. HeardRight(reporter, cached, total)'
    BY <1>1, <1>13, <2>1
  <2>4. InOrder(queue') /\ TextItems(queue', processed', total')
    BY <1>3, <1>6, <1>10, <1>11, <1>13
  <2>5. finished' /\ IsFinished(reporter') /\ (first' => NotBegun(reporter') /\ ~finished')
    BY <1>6, <1>8, <1>15, <2>1
  <2>6. TextRight'
    BY <1>12, <2>4, <2>5 DEF TextRight
  <2> QED BY <1>14, <2>2, <2>3, <2>6 DEF ProgressInv
<1>16. CASE ~finished
  <2>1. PICK k : k = SeedExcluded(n)
    OBVIOUS
  <2>2. PICK x : x = IF first THEN Begin(r, 0, t, k, a) ELSE r
    OBVIOUS
  <2>3. PICK ends \in BOOLEAN : ends <=> first /\ a # "continue"
    OBVIOUS
  <2>4. ends = EndsCall(a)
    BY <1>7, <2>3 DEF EndsCall
  <2>5. /\ first' = FALSE
        /\ finished' = (~ends /\ n >= Prefill)
        /\ s = IF ends THEN x ELSE IF n >= Prefill THEN Finish(x, k, b) ELSE Update(x, FALSE, k, b)
        /\ caller' = IF (first /\ a = "raise") \/ (~ends /\ b = "raise") THEN "raised" ELSE caller
    BY <1>2, <1>6, <1>16, <2>1, <2>2, <2>4, Zenon DEF TextReport, Ended
  <2>6. PICK ended \in BOOLEAN, gone \in BOOLEAN :
          /\ ended <=> ~ends /\ n >= t - 1
          /\ gone <=> (first /\ a = "raise") \/ (~ends /\ b = "raise")
    OBVIOUS
  <2>7. Adapted(r, s, first, n, t, a, b, ended, gone)
    <3>1. k = IF n < t - 1 THEN n ELSE t - 1
      BY <1>7, <2>1 DEF SeedExcluded
    <3>2. s = IF ends THEN x ELSE IF n >= t - 1 THEN Finish(x, k, b) ELSE Update(x, FALSE, k, b)
      BY <1>7, <2>5
    <3>3. first => NotBegun(r)
      BY <1>8
    <3>4. ~first => \E m \in Nat : Hears(r, 0, t, m) /\ m <= n
      <4>1. SUFFICES ASSUME ~first PROVE \E m \in Nat : Hears(r, 0, t, m) /\ m <= n
        OBVIOUS
      <4>2. PICK m \in Nat : Hears(r, 0, t, m) /\ AtLeast(q, m)
        BY <1>8, <1>16, <4>1
      <4>3. m <= n
        BY <1>2, <1>4, <4>2, AtLeastRead
      <4> QED BY <4>2, <4>3
    <3>5. t \in Nat /\ t >= 1 /\ HeardRight(r, 0, t) /\ first \in BOOLEAN
      BY <1>7
    <3>6. MayAdapt(r, t, first, n)
      BY <3>3, <3>4 DEF MayAdapt
    <3>7. Adapts(r, s, first, n, t, a, b, ends, ended, gone, k, x)
      BY <2>2, <2>3, <2>6, <3>1, <3>2 DEF Adapts
    <3> QED BY <1>5, <2>3, <2>6, <3>5, <3>6, <3>7, TextAdapted
  <2>8. /\ HeardRight(s, 0, t)
        /\ r.stopped => s.stopped
        /\ ended => IsFinished(s)
        /\ n >= t - 1 => s.stopped \/ ended \/ gone
        /\ ~ended /\ ~gone => \E m \in Nat : Hears(s, 0, t, m) /\ m <= n
    BY <2>7 DEF Adapted
  <2>9. finished' = ended /\ first' = FALSE /\ caller' = IF gone THEN "raised" ELSE "reading"
    BY <1>1, <1>7, <2>5, <2>6
  <2>10. KitRight'
    BY <1>1, <1>3, <1>5, <1>13, <2>9 DEF KitRight
  <2>11. HeardRight(reporter, cached, total)'
    BY <1>6, <1>7, <1>13, <2>8
  <2>12. InOrder(queue') /\ TextItems(queue', processed', total')
    BY <1>3, <1>6, <1>10, <1>11, <1>13
  <2>13. caller' = "reading" /\ ~finished' /\ ~first' =>
           \E m \in Nat : Hears(reporter', cached', total', m) /\ m <= processed' /\ AtLeast(queue', m)
    <3>1. SUFFICES ASSUME ~gone, ~ended
                   PROVE  \E m \in Nat : Hears(s, 0, t, m) /\ m <= processed /\ AtLeast(p, m)
      BY <1>3, <1>6, <1>7, <1>13, <2>9
    <3>2. PICK m \in Nat : Hears(s, 0, t, m) /\ m <= n
      BY <2>8, <3>1
    <3>3. m <= processed
      BY <1>5, <1>7, <1>10, <3>2
    <3>4. AtLeast(p, m)
      <4>1. \A i \in DOMAIN p : p[i] \in News
        BY <1>5
      <4>2. \A i \in DOMAIN p : p[i].tokens \in Nat
        BY <4>1 DEF News
      <4> QED BY <1>5, <1>11, <3>2, <4>2 DEF AtLeast
    <3> QED BY <3>2, <3>3, <3>4
  <2>14. processed' = total' =>
           reporter'.stopped \/ finished' \/ caller' # "reading" \/ PairIn(queue', total')
    <3>1. SUFFICES ASSUME processed = t PROVE s.stopped \/ ended \/ gone \/ PairIn(p, t)
      BY <1>3, <1>6, <1>13, <2>9
    <3>2. r.stopped \/ PairIn(q, t)
      BY <1>8, <1>16, <3>1
    <3>3. n = t => n >= t - 1
      BY <1>7
    <3> QED BY <1>10, <2>8, <3>2, <3>3
  <2>15. shown' > 0 => reporter'.stopped \/ IsFinished(reporter')
    <3>1. ~IsFinished(r)
      <4>1. CASE first
        BY <1>8, <4>1 DEF NotBegun, IsFinished
      <4>2. CASE ~first
        BY <1>8, <1>16, <4>2 DEF Hears
      <4> QED BY <4>1, <4>2
    <3> QED BY <1>6, <1>8, <1>13, <2>8, <3>1
  <2>16. finished' => IsFinished(reporter')
    BY <1>6, <2>8, <2>9
  <2>17. TextRight'
    BY <1>12, <2>9, <2>12, <2>13, <2>14, <2>15, <2>16 DEF TextRight
  <2> QED BY <1>14, <2>10, <2>11, <2>17 DEF ProgressInv
<1> QED BY <1>15, <1>16

\* A step of ReadToken keeps the invariant.
LEMMA ReadTokenStep ==
  ASSUME ProgressInv, ReadToken
  PROVE  ProgressInv'
<1>1. /\ KitRight /\ HeardRight(reporter, cached, total) /\ SequentialRight /\ VisionRight /\ TextRight
      /\ caller = "reading" /\ queue # <<>> /\ queue' = Tail(queue)
      /\ Head(queue).kind = "token" /\ shown' = shown + 1
      /\ UNCHANGED <<kit, total, cached, processed, stage, first, finished, reporter, caller, removed>>
  BY DEF ReadToken, Read, KitUnchanged, ProgressInv
<1>2. PICK q, p, e : q = queue /\ p = queue' /\ e = Head(queue)
  OBVIOUS
<1>3. q \in Seq(News) /\ q # <<>> /\ p = Tail(q) /\ e = Head(q) /\ e.kind = "token"
  BY <1>1, <1>2 DEF KitRight
<1>4. p \in Seq(News)
  BY <1>3, QueueTail
<1>5. kit \in {"text", "vision"}
  BY <1>1 DEF KitRight, SequentialRight
<1>6. InOrder(q) /\ shown + Cardinality(TokensIn(q)) <= MaxShown
  BY <1>1, <1>2, <1>5 DEF VisionRight, TextRight
<1>7. InOrder(p) /\ OnlyTokens(q)
  BY <1>3, <1>6, OrderOfTail
<1>8. (shown + Cardinality(TokensIn(queue)) <= MaxShown)'
  <2>1. Cardinality(TokensIn(p)) = Cardinality(TokensIn(q)) - 1
    BY <1>3, TokensOfTail
  <2>2. PICK k : k = Cardinality(TokensIn(q))
    OBVIOUS
  <2>3. k \in Nat /\ Cardinality(TokensIn(p)) = k - 1
    BY <1>3, <2>1, <2>2, TokensFinite
  <2>4. shown \in Nat /\ shown' + (k - 1) = shown + k
    <3>1. shown \in Nat
      BY <1>1 DEF KitRight
    <3> QED BY <1>1, <2>3, <3>1
  <2> QED BY <1>2, <1>6, <2>2, <2>3, <2>4
<1>9. /\ total' = total /\ cached' = cached /\ kit' = kit /\ reporter' = reporter /\ caller' = caller
      /\ Prefill' = Prefill /\ processed' = processed /\ stage' = stage /\ removed' = removed
      /\ first' = first /\ finished' = finished
  BY <1>1 DEF Prefill
<1>10. KitRight'
  <2>1. shown' \in Nat
    BY <1>1 DEF KitRight
  <2> QED BY <1>1, <1>2, <1>4, <1>9, <2>1 DEF KitRight
<1>11. HeardRight(reporter, cached, total)'
  BY <1>1, <1>9
<1>12. CASE kit = "vision"
  <2>1. /\ stage \in {"start", "main"} => ~finished
        /\ stage = "decode" => finished
        /\ finished <=> IsFinished(reporter) \/ FinishIn(q)
        /\ stage # "start"
        /\ VisionItems(q, NotBegun(reporter), processed - cached, Prefill - cached, finished)
        /\ reporter.stopped => caller # "reading"
        /\ caller \in {"cancelled", "raised"} => removed
    BY <1>1, <1>2, <1>12 DEF VisionRight
  <2>2. PICK u \in BOOLEAN : u = NotBegun(reporter)
    BY DEF NotBegun
  <2>3. PICK d, w : d = processed - cached /\ w = Prefill - cached
    OBVIOUS
  <2>4. PICK f \in BOOLEAN : f = finished
    BY <1>1 DEF KitRight
  <2>5. d \in Int /\ w \in Int
    BY <1>1, <2>3, PromptNumbers
  <2>6. VisionItems(q, u, d, w, f)
    BY <2>1, <2>2, <2>3, <2>4
  <2>7. ReadOff(q, p, e, u, d, w, f)
    BY <1>3, <2>5, <2>6, VisionItemsRead
  <2>8. /\ VisionItems(p, FALSE, d, w, f)
        /\ e.kind = "begin" <=> u
        /\ OnlyTokens(p) /\ ~FinishIn(q)
        /\ f
        /\ FinishIn(q) <=> e.kind = "finish" \/ FinishIn(p)
    BY <1>3, <1>7, <2>7 DEF ReadOff
  <2>9. ~NotBegun(reporter) /\ IsFinished(reporter) /\ ~FinishIn(p) /\ finished
    BY <1>3, <2>1, <2>2, <2>4, <2>8
  <2>10. VisionItems(queue', NotBegun(reporter'), processed' - cached', Prefill' - cached', finished')
    <3>1. NotBegun(reporter) = FALSE
      BY <2>9 DEF NotBegun
    <3> QED BY <1>2, <1>9, <2>3, <2>4, <2>8, <3>1
  <2>11. /\ InOrder(queue') /\ OnlyTokens(queue')
         /\ finished' /\ IsFinished(reporter') /\ ~NotBegun(reporter')
         /\ stage' \notin {"start", "main"}
         /\ reporter'.stopped => caller' # "reading"
         /\ caller' \in {"cancelled", "raised"} => removed'
    BY <1>2, <1>7, <1>9, <2>1, <2>8, <2>9
  <2>12. VisionRight'
    BY <1>8, <2>10, <2>11 DEF VisionRight
  <2>13. SequentialRight' /\ TextRight'
    BY <1>9, <1>12, OnlyVision
  <2> QED BY <1>10, <1>11, <2>12, <2>13 DEF ProgressInv
<1>13. CASE kit = "text"
  <2>1. /\ TextItems(q, processed, total)
        /\ first => NotBegun(reporter) /\ ~finished
        /\ finished => IsFinished(reporter)
        /\ ~finished /\ ~first =>
             \E n \in Nat : Hears(reporter, cached, total, n) /\ n <= processed /\ AtLeast(q, n)
        /\ processed = total => reporter.stopped \/ finished \/ PairIn(q, total)
    BY <1>1, <1>2, <1>13 DEF TextRight
  <2>2. PairOff(q, p, e, processed, total)
    BY <1>3, <2>1, TextItemsRead
  <2>3. TextItems(p, processed, total) /\ processed = total /\ ~PairIn(q, total)
    BY <1>3, <1>7, <2>2 DEF PairOff
  <2>4. reporter.stopped \/ finished
    BY <2>1, <2>3
  <2>5. ~finished' /\ ~first' =>
             \E n \in Nat : Hears(reporter', cached', total', n) /\ n <= processed' /\ AtLeast(queue', n)
    <3>1. SUFFICES ASSUME ~finished, ~first
                   PROVE  \E n \in Nat : Hears(reporter, cached, total, n) /\ n <= processed /\ AtLeast(p, n)
      BY <1>2, <1>9
    <3>2. PICK n \in Nat : Hears(reporter, cached, total, n) /\ n <= processed /\ AtLeast(q, n)
      BY <2>1, <3>1
    <3>3. AtLeast(p, n)
      BY <1>3, <3>2, AtLeastRead
    <3> QED BY <3>2, <3>3
  <2>6. /\ InOrder(queue') /\ TextItems(queue', processed', total')
        /\ first' => NotBegun(reporter') /\ ~finished'
        /\ finished' => IsFinished(reporter')
        /\ reporter'.stopped \/ finished'
        /\ reporter'.stopped \/ IsFinished(reporter')
    BY <1>2, <1>7, <1>9, <2>1, <2>3, <2>4
  <2>7. TextRight'
    BY <1>8, <2>5, <2>6 DEF TextRight
  <2>8. SequentialRight' /\ VisionRight'
    BY <1>9, <1>13, OnlyText
  <2> QED BY <1>10, <1>11, <2>7, <2>8 DEF ProgressInv
<1> QED BY <1>5, <1>12, <1>13

\* The invariant holds initially.
LEMMA ProgressInitially ==
  ASSUME ProgressInit
  PROVE  ProgressInv
<1>1. /\ kit \in {"sequential", "text", "vision"}
      /\ total \in 1..MaxTotal
      /\ cached \in 0..Prefill /\ (kit = "text" => cached = 0)
      /\ processed = cached
      /\ stage = "start" /\ queue = <<>>
      /\ first = TRUE /\ finished = FALSE
      /\ caller = "reading" /\ shown = 0 /\ removed = FALSE
  <2>1. total \in 1..MaxTotal /\ cached \in IF kit = "text" THEN {0} ELSE 0..Prefill
    BY DEF ProgressInit
  <2>2. cached \in 0..Prefill
    BY <2>1, ProgressAssumption DEF Prefill
  <2> QED BY <2>1, <2>2 DEF ProgressInit
<1>2. reporter = [context |-> None, events |-> <<>>, percents |-> <<>>, stopped |-> FALSE]
  BY DEF ProgressInit
<1>3. reporter.events = <<>> /\ reporter.percents = <<>> /\ reporter.stopped = FALSE
  BY <1>2
<1>4. reporter \in Reporters
  <2>1. None \in ContextSet
    BY DEF None, ContextSet
  <2>2. <<>> \in Seq(EventSet) /\ <<>> \in Seq(Nat)
    OBVIOUS
  <2> QED BY <1>2, <2>1, <2>2 DEF Reporters
<1>5. HeardRight(reporter, cached, total)
  BY <1>3, <1>4 DEF HeardRight, EventsInOrder, FinishesAt, Climbs
<1>6. NotBegun(reporter) /\ ~IsFinished(reporter)
  BY <1>3 DEF NotBegun, IsFinished
<1>7. KitRight
  <2>1. <<>> \in Seq(News)
    OBVIOUS
  <2>2. cached \in cached..total /\ cached \in Nat
    BY <1>1, ProgressAssumption DEF Prefill
  <2> QED BY <1>1, <2>1, <2>2 DEF KitRight
<1>8. SequentialRight
  BY <1>1, <1>6, ProgressAssumption DEF SequentialRight
<1>9. /\ InOrder(queue) /\ ~FinishIn(queue) /\ shown + Cardinality(TokensIn(queue)) <= MaxShown
      /\ TextItems(queue, processed, total)
      /\ VisionItems(queue, NotBegun(reporter), processed - cached, Prefill - cached, finished)
  <2>1. InOrder(queue) /\ ~FinishIn(queue) /\ TextItems(queue, processed, total)
    BY <1>1 DEF InOrder, FinishIn, TextItems
  <2>2. VisionItems(queue, NotBegun(reporter), processed - cached, Prefill - cached, finished)
    BY <1>1 DEF VisionItems
  <2>3. TokensIn(queue) = {}
    BY <1>1 DEF TokensIn
  <2>4. Cardinality(TokensIn(queue)) = 0
    BY <2>3, FS_EmptySet
  <2> QED BY <1>1, <2>1, <2>2, <2>4, ProgressAssumption
<1>10. VisionRight
  <2>1. /\ finished <=> IsFinished(reporter) \/ FinishIn(queue)
        /\ ~finished /\ stage = "start" /\ ~reporter.stopped /\ caller = "reading" /\ ~(shown > 0)
    BY <1>1, <1>3, <1>6, <1>9
  <2>2. /\ InOrder(queue) /\ shown + Cardinality(TokensIn(queue)) <= MaxShown
        /\ VisionItems(queue, NotBegun(reporter), processed - cached, Prefill - cached, finished)
    BY <1>9
  <2>3. queue = <<>> /\ NotBegun(reporter) /\ ~IsFinished(reporter)
    BY <1>1, <1>6
  <2> QED BY <2>1, <2>2, <2>3 DEF VisionRight
<1>11. processed # total
  BY <1>7, PromptNumbers, <1>1
<1>12. TextRight
  BY <1>1, <1>6, <1>9, <1>11 DEF TextRight
<1> QED BY <1>5, <1>7, <1>8, <1>10, <1>12 DEF ProgressInv

\* A step that changes nothing keeps the invariant.
LEMMA ProgressUnchanged ==
  ASSUME ProgressInv, UNCHANGED progressVars
  PROVE  ProgressInv'
<1>1. UNCHANGED <<kit, total, cached, processed, stage, queue, first, finished, reporter,
                  caller, shown, removed>>
  BY DEF progressVars
<1>2. ProgressInv
  OBVIOUS
<1> QED BY <1>1, <1>2 DEF ProgressInv, KitRight, SequentialRight, VisionRight, TextRight, Prefill

\* Every step keeps the invariant.
LEMMA ProgressStep ==
  ASSUME ProgressInv, [ProgressNext]_progressVars
  PROVE  ProgressInv'
<1>1. CASE UNCHANGED progressVars
  BY <1>1, ProgressUnchanged
<1>2. CASE ProgressNext
  <2>1. CASE \E a \in Answers : SequentialBegin(a) \/ SequentialFinish(a)
    BY <2>1, SequentialBeginStep, SequentialFinishStep
  <2>2. CASE \E n \in Chunks, a \in Answers : SequentialChunk(n, a)
    BY <2>2, SequentialChunkStep
  <2>3. CASE DraftCached \/ SequentialToken
    BY <2>3, DraftCachedStep, SequentialTokenStep
  <2>4. CASE InsertPrompt \/ LastPass \/ DecodeStep \/ Drop
    BY <2>4, InsertStep, LastPassStep, DecodeStepStep, DropStep
  <2>5. CASE \E n \in Chunks : PrefillStep(n)
    BY <2>5, PrefillStepStep
  <2>6. CASE \E a \in Answers : VisionReport(a)
    BY <2>6, VisionReportStep
  <2>7. CASE \E a, b \in Answers : TextReport(a, b)
    BY <2>7, TextReportStep
  <2>8. CASE ReadToken \/ Done
    BY <2>8, ReadTokenStep, DoneStep
  <2> QED BY <1>2, <2>1, <2>2, <2>3, <2>4, <2>5, <2>6, <2>7, <2>8, Zenon DEF ProgressNext
<1> QED BY <1>1, <1>2

\* What the runs check of every state.
ProgressHeard ==
  ProgressTypeOK /\ ReportsInOrder /\ PercentsClimb /\ FinishedBeforeTokens /\ GivenUpIsRemoved

\* What the runs check of the reporters follows from the invariant.
LEMMA ProgressShows ==
  ASSUME ProgressInv
  PROVE  ProgressHeard
<1>1. /\ KitRight /\ HeardRight(reporter, cached, total) /\ SequentialRight /\ VisionRight /\ TextRight
      /\ kit \in {"sequential", "text", "vision"}
  BY DEF ProgressInv, KitRight
<1>2. shown \in 0..MaxShown
  <2>1. shown \in Nat /\ MaxShown \in Nat
    BY <1>1, ProgressAssumption DEF KitRight
  <2>2. CASE kit = "sequential"
    BY <1>1, <2>1, <2>2 DEF SequentialRight
  <2>3. CASE kit # "sequential"
    <3>1. PICK k : k = Cardinality(TokensIn(queue))
      OBVIOUS
    <3>2. queue \in Seq(News)
      BY <1>1 DEF KitRight
    <3>3. k \in Nat
      BY <3>1, <3>2, TokensFinite
    <3>4. shown + k <= MaxShown
      BY <1>1, <2>3, <3>1 DEF VisionRight, TextRight
    <3> QED BY <2>1, <3>3, <3>4
  <2> QED BY <2>2, <2>3
<1>3. /\ processed <= Prefill \/ stage = "gone" \/ (kit # "sequential" /\ stage = "decode")
      /\ kit = "sequential" => queue = <<>>
  <2>1. kit = "sequential" => queue = <<>>
    BY <1>1 DEF SequentialRight
  <2>2. /\ stage = "start" => processed = cached
        /\ stage \in {"draft", "main"} => processed <= Prefill
        /\ stage = "ready" => processed = Prefill
        /\ stage = "decode" => processed = IF kit = "sequential" THEN Prefill ELSE total
        /\ stage \in {"start", "draft", "main", "ready", "decode", "gone"}
    BY <1>1 DEF KitRight
  <2>3. cached <= Prefill /\ Prefill \in Nat
    BY <1>1, PromptNumbers
  <2>4. processed = Prefill => processed <= Prefill
    BY <2>3
  <2> QED BY <2>1, <2>2, <2>3, <2>4
<1>4. ProgressTypeOK
  BY <1>1, <1>2, <1>3 DEF ProgressTypeOK, KitRight
<1>5. ReportsInOrder
  BY <1>1 DEF HeardRight, EventsInOrder, ReportsInOrder, Heard
<1>6. PercentsClimb
  <2>1. Prefill = total - 1
    BY DEF Prefill
  <2>2. Climbs(reporter.percents) /\ FinishesAt(reporter.events, Prefill - cached)
    BY <1>1, <2>1 DEF HeardRight
  <2> QED BY <2>2 DEF Climbs, FinishesAt, PercentsClimb, Heard
<1>7. FinishedBeforeTokens
  <2>1. shown > 0 => reporter.stopped \/ IsFinished(reporter)
    BY <1>1 DEF SequentialRight, VisionRight, TextRight
  <2> QED BY <2>1 DEF IsFinished, FinishedBeforeTokens, Heard
<1>8. GivenUpIsRemoved
  BY <1>1 DEF VisionRight, GivenUpIsRemoved
<1> QED BY <1>4, <1>5, <1>6, <1>7, <1>8 DEF ProgressHeard

\* No step tells more to a reporter of the vision kit that has said stop.
LEMMA StopHonoured ==
  ASSUME ProgressInv, [ProgressNext]_progressVars
  PROVE  [kit = "vision" /\ reporter.stopped
          => reporter'.events = reporter.events /\ shown' = shown]_progressVars
<1>1. SUFFICES ASSUME ProgressNext, kit = "vision", reporter.stopped
               PROVE  reporter' = reporter /\ shown' = shown
  BY DEF progressVars
<1>2. caller # "reading"
  BY <1>1 DEF ProgressInv, VisionRight
<1>3. /\ ~\E a \in Answers : SequentialBegin(a) \/ SequentialFinish(a)
      /\ ~\E n \in Chunks, a \in Answers : SequentialChunk(n, a)
      /\ ~SequentialToken
      /\ ~\E a, b \in Answers : TextReport(a, b)
  BY <1>1 DEF SequentialBegin, SequentialFinish, SequentialChunk, SequentialToken, TextReport
<1>4. /\ ~\E a \in Answers : VisionReport(a)
      /\ ~ReadToken
  BY <1>2 DEF VisionReport, ReadToken, Read
<1>5. CASE DraftCached
  BY <1>5 DEF DraftCached, RestUnchanged
<1>6. CASE InsertPrompt \/ LastPass \/ DecodeStep \/ Drop
  BY <1>6 DEF InsertPrompt, LastPass, DecodeStep, Drop, CallerUnchanged
<1>7. CASE \E n \in Chunks : PrefillStep(n)
  BY <1>7 DEF PrefillStep, CallerUnchanged
<1>8. CASE Done
  BY <1>8 DEF Done
<1> QED BY <1>1, <1>3, <1>4, <1>5, <1>6, <1>7, <1>8, Zenon DEF ProgressNext

\* What a caller's reporter is told (ProgressTold), for prompts of any
\* length, cut into any chunks, on each of the three kits, whatever the
\* reporter answers and however far the kit is ahead of who reads: one
\* begin, counts and percentages that never fall, at most one finish, last
\* and with all there was to prefill; no token before it; and on the
\* vision kit nothing after a stop, with the request taken out of the kit.
THEOREM ReportersAreTold == ProgressSpec => ProgressTold
<1>1. ProgressSpec => []ProgressInv
  BY ProgressInitially, ProgressStep, PTL DEF ProgressSpec
<1>2. ProgressSpec => []ProgressHeard
  BY <1>1, ProgressShows, PTL
<1>3. ProgressSpec => StopIsHonoured
  BY <1>1, StopHonoured, PTL DEF ProgressSpec, StopIsHonoured
<1> QED BY <1>2, <1>3, PTL DEF ProgressTold, ProgressHeard

==============================================================================
