-------------------------------- MODULE TextKit --------------------------------
(***************************************************************************)
(* BatchedModelKit: client threads and the one generation thread that      *)
(* takes requests off a FIFO queue, runs them in mlx-lm's BatchGenerator   *)
(* and answers each on its own response queue; shutdown and fatal errors.  *)
(* The model starts once start() has returned.                             *)
(***************************************************************************)
EXTENDS Naturals, FiniteSets, SequencesExt

CONSTANTS Req,         \* requests, each queued once
          PromptSteps, \* bound on prompt progress reports per request
          MaxTokens,   \* max_tokens of every request
          FatalErrors  \* may the generation thread hit a fatal exception?

ASSUME KitAssumption ==
  /\ PromptSteps \in Nat
  /\ MaxTokens \in Nat \ {0}
  /\ FatalErrors \in BOOLEAN

VARIABLES
  client,        \* per request: where its consumer is
  stopped,       \* requests stop_generation() was called for (once each)
  stream,        \* per request: everything put on its response queue
  requests,      \* self._requests
  phase,         \* what the generation thread is doing
  results,       \* requests in self._batch_results
  rows,          \* requests in the BatchGenerator
  responses,     \* what next() returned and the loop still has to handle
  backendFailed, \* _backend_exception is set
  closer         \* progress of shutdown()

clientVars == <<client, stopped>>
batchVars == <<results, rows, responses>>
vars == <<clientVars, stream, requests, phase, results, rows, responses,
          backendFailed, closer>>

QueueItem == [kind : {"new", "cancel"}, id : Req]
Terminals == {"none", "cancelled", "error"}
Message == {"progress", "token", "last"} \cup Terminals

TypeOK ==
  /\ client \in [Req -> {"idle", "admitting", "waiting", "ended", "refused"}]
  /\ stopped \subseteq Req
  /\ stream \in [Req -> Seq(Message)]
  /\ requests \in Seq(QueueItem)
  /\ phase \in {"top", "check", "batch", "respond", "store", "failed", "exited"}
  /\ results \subseteq Req
  /\ rows \subseteq Req
  /\ responses \in Seq([id : Req, message : {"progress", "token", "last"}])
  /\ backendFailed \in BOOLEAN
  /\ closer \in {"open", "joining", "closed"}

Init ==
  /\ client = [r \in Req |-> "idle"]
  /\ stopped = {}
  /\ stream = [r \in Req |-> <<>>]
  /\ requests = <<>>
  /\ phase = "top"
  /\ results = {}
  /\ rows = {}
  /\ responses = <<>>
  /\ backendFailed = FALSE
  /\ closer = "open"

Shutdown == closer # "open"
Item(kind, r) == [kind |-> kind, id |-> r]
Put(item) == requests' = Append(requests, item)
Got(r) == ToSet(stream[r])
Answered(r) == Got(r) \cap Terminals # {}
Sent(m, r) == Cardinality({i \in DOMAIN stream[r] : stream[r][i] = m})

-----------------------------------------------------------------------------
(* Client threads: generate(), its iterator, remove() and shutdown().      *)

ClientUnchanged == UNCHANGED <<stream, phase, batchVars, backendFailed, closer>>

CallGenerate(r) ==
  /\ client[r] = "idle"
  /\ client' = [client EXCEPT ![r] =
                  IF Shutdown \/ backendFailed THEN "refused" ELSE "admitting"]
  /\ UNCHANGED <<stopped, requests>>
  /\ ClientUnchanged

PutRequest(r) ==
  /\ client[r] = "admitting"
  /\ client' = [client EXCEPT ![r] = "waiting"]
  /\ Put(Item("new", r))
  /\ UNCHANGED stopped
  /\ ClientUnchanged

StopGeneration(r) ==
  /\ client[r] \in {"admitting", "waiting", "ended"}
  /\ r \notin stopped
  /\ stopped' = stopped \cup {r}
  /\ Put(Item("cancel", r))
  /\ UNCHANGED client
  /\ ClientUnchanged

\* The consumer has read something, asks for removal and reads no more.
Leave(r) ==
  /\ client[r] = "waiting"
  /\ Got(r) \ Terminals # {}
  /\ client' = [client EXCEPT ![r] = "ended"]
  /\ Put(Item("cancel", r))
  /\ UNCHANGED stopped
  /\ ClientUnchanged

EndStream(r) ==
  /\ client[r] = "waiting"
  /\ Answered(r)
  /\ client' = [client EXCEPT ![r] = "ended"]
  /\ UNCHANGED <<stopped, requests>>
  /\ ClientUnchanged

RequestShutdown ==
  /\ closer = "open"
  /\ closer' = "joining"
  /\ UNCHANGED <<clientVars, stream, requests, phase, batchVars, backendFailed>>

Joined ==
  /\ closer = "joining"
  /\ phase = "exited"
  /\ closer' = "closed"
  /\ UNCHANGED <<clientVars, stream, requests, phase, batchVars, backendFailed>>

-----------------------------------------------------------------------------
(* The generation thread: at most one request from the queue, then a stay  *)
(* in the batch until the queue has something or the time is up.           *)

LoopUnchanged == UNCHANGED <<clientVars, backendFailed, closer>>

\* Variant with a fault: shutdown waits for the batch to drain.
LoopEndsWhenDrained == Shutdown /\ results = {}

LoopEnds == Shutdown

Running == phase = "top" /\ ~LoopEnds

TakeItem(kind, r) ==
  /\ Running
  /\ requests # <<>>
  /\ Head(requests) = Item(kind, r)
  /\ requests' = Tail(requests)

NoItem ==
  /\ Running
  /\ requests = <<>>
  /\ phase' = "check"
  /\ UNCHANGED <<stream, requests, batchVars>>
  /\ LoopUnchanged

\* Variant with a fault: the entry is filed under the queue item.
InsertedUnderItem(r) ==
  /\ rows' = rows \cup {r}
  /\ results' = results \cup {Item("new", r)}

Inserted(r) ==
  /\ rows' = rows \cup {r}
  /\ results' = results \cup {r}

HandleNew(r) ==
  /\ TakeItem("new", r)
  /\ Inserted(r)
  /\ phase' = "check"
  /\ UNCHANGED <<stream, responses>>
  /\ LoopUnchanged

\* Variant with a fault: the request keeps its row.
RemovedKeepRow(r) ==
  /\ results' = results \ {r}
  /\ stream' = [stream EXCEPT ![r] = Append(@, "cancelled")]
  /\ UNCHANGED rows

\* Variant with a fault: the consumer is not told.
RemovedSilently(r) ==
  /\ rows' = rows \ {r}
  /\ results' = results \ {r}
  /\ UNCHANGED stream

Removed(r) ==
  /\ rows' = rows \ {r}
  /\ results' = results \ {r}
  /\ stream' = [stream EXCEPT ![r] = Append(@, "cancelled")]

\* A cancel of a request that is not in the batch is only logged.
HandleCancel(r) ==
  /\ TakeItem("cancel", r)
  /\ IF r \in results THEN Removed(r) ELSE UNCHANGED <<stream, results, rows>>
  /\ phase' = "check"
  /\ UNCHANGED responses
  /\ LoopUnchanged

Check ==
  /\ phase = "check"
  /\ phase' = IF Shutdown \/ results = {} THEN "top" ELSE "batch"
  /\ UNCHANGED <<stream, requests, batchVars>>
  /\ LoopUnchanged

\* External: what BatchGenerator.next() may report for a row.
MayRespond(r, m) ==
  \/ m = "progress" /\ Sent("token", r) = 0 /\ Sent("progress", r) < PromptSteps
  \/ m = "token" /\ Sent("token", r) + 1 < MaxTokens
  \/ m = "last"

\* Variant with a fault: the end of the stream goes out before the last token.
MessagesEndFirst(m) == IF m = "last" THEN <<"none", "last">> ELSE <<m>>

Messages(m) == IF m = "last" THEN <<"last", "none">> ELSE <<m>>

\* Prompt responses come before generation responses, one at most per row.
ResponseLists ==
  UNION {{q \in [1..Cardinality(S) -> [id : S, message : {"progress", "token", "last"}]] :
            /\ \A i \in DOMAIN q : MayRespond(q[i].id, q[i].message)
            /\ \A i, j \in DOMAIN q : i < j =>
                 q[i].id # q[j].id /\ (q[j].message = "progress" => q[i].message = "progress")}
         : S \in SUBSET rows \ {{}}}

\* One call of next(): rows that finish leave the batch.
BatchNext ==
  /\ phase = "batch"
  /\ responses' \in ResponseLists
  /\ rows' = rows \ {r \in rows : \E i \in DOMAIN responses' :
                                    responses'[i] = [id |-> r, message |-> "last"]}
  /\ phase' = "respond"
  /\ UNCHANGED <<stream, requests, results>>
  /\ LoopUnchanged

\* Its responses are handled one after the other.
Responding(in, r, m) ==
  /\ phase = in
  /\ responses # <<>>
  /\ Head(responses) = [id |-> r, message |-> m]

Respond(r, m) ==
  /\ Responding("respond", r, m)
  /\ stream' = [stream EXCEPT ![r] = @ \o Messages(m)]
  /\ IF m = "last" THEN phase' = "store" /\ UNCHANGED responses
                   ELSE responses' = Tail(responses) /\ UNCHANGED phase
  /\ UNCHANGED <<requests, results, rows>>
  /\ LoopUnchanged

\* After the last response the cache is stored, then the entry goes.
StoreCache(r) ==
  /\ Responding("store", r, "last")
  /\ responses' = Tail(responses)
  /\ results' = results \ {r}
  /\ phase' = "respond"
  /\ UNCHANGED <<stream, requests, rows>>
  /\ LoopUnchanged

\* Back to the queue when it has something or after time_budget.
EndResponses ==
  /\ phase = "respond"
  /\ responses = <<>>
  /\ phase' \in IF requests # <<>> THEN {"top"} ELSE {"top", "batch"}
  /\ UNCHANGED <<stream, requests, batchVars>>
  /\ LoopUnchanged

\* next() has nothing to report.
BatchEmpty ==
  /\ phase = "batch"
  /\ rows = {}
  /\ phase' = "top"
  /\ UNCHANGED <<stream, requests, batchVars>>
  /\ LoopUnchanged

\* The loop ends: every entry of _batch_results is cancelled.
EndLoop ==
  /\ phase = "top"
  /\ LoopEnds
  /\ stream' = [r \in Req |-> IF r \in results THEN Append(stream[r], "cancelled") ELSE stream[r]]
  /\ phase' = "exited"
  /\ UNCHANGED <<requests, batchVars>>
  /\ LoopUnchanged

-----------------------------------------------------------------------------
(* A fatal exception: every entry of _batch_results gets it, queued        *)
(* requests and the one being handled do not.                              *)

\* Variant with a fault: the request whose response was handled is left out.
FailedOthers(r) ==
  [q \in Req |-> IF q \in results \ {r} THEN Append(stream[q], "error") ELSE stream[q]]

Failed(r) ==
  [q \in Req |-> IF q \in results THEN Append(stream[q], "error") ELSE stream[q]]

Fail(r) ==
  /\ FatalErrors
  /\ stream' = Failed(r)
  /\ backendFailed' = TRUE
  /\ phase' = "failed"
  /\ UNCHANGED <<clientVars, batchVars, closer>>

\* The prompt cache or the insert raises.
FailNew(r) == TakeItem("new", r) /\ Fail(r)

\* next() raises, or the handling of a response, or storing the cache after
\* the stream was ended and before the entry goes.
FailBatch(r) ==
  /\ \/ phase = "batch" /\ r \in results
     \/ phase \in {"respond", "store"} /\ responses # <<>> /\ Head(responses).id = r
  /\ Fail(r)
  /\ UNCHANGED requests

\* sys.exit(1) in this thread ends the thread; the process goes on.
ExitThread ==
  /\ phase = "failed"
  /\ phase' = "exited"
  /\ UNCHANGED <<stream, requests, batchVars>>
  /\ LoopUnchanged

-----------------------------------------------------------------------------
GenerationThread ==
  \/ NoItem \/ Check \/ BatchNext \/ EndResponses \/ BatchEmpty \/ EndLoop \/ ExitThread
  \/ \E r \in Req : \/ HandleNew(r) \/ HandleCancel(r)
                    \/ FailNew(r) \/ FailBatch(r) \/ StoreCache(r)
                    \/ \E m \in {"progress", "token", "last"} : Respond(r, m)

Next ==
  \/ \E r \in Req : \/ CallGenerate(r) \/ PutRequest(r) \/ StopGeneration(r)
                    \/ Leave(r) \/ EndStream(r)
  \/ RequestShutdown \/ Joined
  \/ GenerationThread

(* The generation thread runs on, a client that called generate() puts its *)
(* request and reads its queue, and shutdown() joins.  Nobody has to call  *)
(* generate(), stop or shutdown().                                         *)
Fairness ==
  /\ WF_vars(GenerationThread)
  /\ WF_vars(Joined)
  /\ \A r \in Req : WF_vars(PutRequest(r)) /\ WF_vars(EndStream(r))

Spec == Init /\ [][Next]_vars /\ Fairness

-----------------------------------------------------------------------------
(* Properties.                                                             *)

(* While the thread runs, the batch generator has a row for exactly the    *)
(* entries of _batch_results whose last response is still to be handled: a *)
(* response never finds its entry gone (the lookup would kill the thread), *)
(* a cancel never leaves a row behind.                                     *)
RowsMatchResults ==
  phase \notin {"failed", "exited"} =>
    /\ results = rows \cup {responses[i].id : i \in {j \in DOMAIN responses :
                                                     responses[j].message = "last"}}
    /\ \A i \in DOMAIN responses : responses[i].id \in results

(* Every response queue carries progress, tokens, one last token and one   *)
(* terminal, in that order; only a fatal error may follow the terminal, at *)
(* most once, on a queue whose request was not yet taken out of            *)
(* _batch_results.                                                         *)
Rank(m) == CASE m = "progress" -> 1 [] m = "token" -> 2 [] m = "last" -> 3
             [] m \in Terminals -> 4

StreamInOrder ==
  \A r \in Req : \A i \in DOMAIN stream[r] : \A j \in (i+1)..Len(stream[r]) :
    \/ Rank(stream[r][i]) < Rank(stream[r][j])
    \/ stream[r][i] = stream[r][j] /\ stream[r][i] \in {"progress", "token"}
    \/ backendFailed /\ stream[r][i] = "none" /\ stream[r][j] = "error"

(* Every request the generation thread took into its batch is answered:    *)
(* finished, cancelled, or told of the shutdown or the fatal error ("all   *)
(* active requests receive a RequestCancelled exception", _generate).      *)
ActiveAnswered == \A r \in Req : r \in results ~> Answered(r)

(* shutdown() returns: neither a long generation nor clients that keep     *)
(* queueing requests and cancels stop the thread from seeing the flag.     *)
ShutdownReturns == closer = "joining" ~> closer = "closed"

(* Calls that wait for the generation thread come back: the consumers of   *)
(* its batch, and shutdown().                                              *)
CallsReturn ==
  /\ ActiveAnswered
  /\ ShutdownReturns

Status(r) ==
  IF "last" \in Got(r) THEN "completed"
  ELSE IF "cancelled" \in Got(r) THEN "cancelled"
  ELSE IF "error" \in Got(r) THEN "failed"
  ELSE IF r \in results THEN "running"
  ELSE IF client[r] \in {"waiting", "ended"} THEN "accepted" ELSE "new"

Service == INSTANCE RequestService WITH
  Limit <- Cardinality(Req),
  status <- [r \in Req |-> Status(r)],
  asked <- stopped \cup {r \in Req : client[r] = "ended"},
  open <- ~Shutdown

(* The kit implements the same abstract service as the vision kit, but for *)
(* the limit, which mlx-lm keeps: outcomes are final, and nothing is       *)
(* cancelled that nobody stopped or left unless the kit is shutting down.  *)
ImplementsService == Service!Spec

(* "All pending requests will receive a RequestCancelled exception" (doc   *)
(* of shutdown()): a consumer that waits when the kit is shut down is      *)
(* released.                                                               *)
ShutdownReleasesPending ==
  \A r \in Req : client[r] = "waiting" /\ closer = "open"
                   ~> (client[r] = "ended" \/ [](closer = "open"))
=============================================================================
