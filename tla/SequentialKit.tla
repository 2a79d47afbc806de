----------------------------- MODULE SequentialKit -----------------------------
(***************************************************************************)
(* ModelKit and the generators made for it: one executor thread generates, *)
(* callers read results from queues, and requests are cancelled by id, by  *)
(* closing the generator or by shutting the kit down.                      *)
(***************************************************************************)
EXTENDS Naturals, FiniteSets, SequencesExt

CONSTANTS Req,       \* one per generator made, and its request id
          MaxTokens, \* max_tokens
          Nobody     \* no request, no id, no event

Events == Req \X {"own", "fresh"}
Call == "call"             \* a task that is no generation

ASSUME KitAssumption ==
  /\ IsFiniteSet(Req) /\ Call \notin Req
  /\ MaxTokens \in Nat
  /\ Nobody \notin Req \cup Events

VARIABLES
  caller,     \* per generator: what its caller does
  closed,     \* generators whose _closed event is set
  started,    \* generators whose _started flag is set
  results,    \* per generator: its _results queue
  pending,    \* pending_requests: id -> cancel event
  cancelled,  \* cancel events that are set
  queue,      \* the executor's work queue
  worker,     \* the task the executor's thread runs, or Nobody
  step,       \* where that task is
  event,      \* the cancel event it holds
  lock,       \* generation_lock
  count,      \* tokens it has generated
  unwanted,   \* generators whose progress reporter says stop
  stopper,    \* a thread in cancel_request(): what it looked up
  task,       \* a caller of tokenize(), load_draft_model(), ...
  down,       \* _shutdown
  pool,       \* does the executor accept work?
  outcome,    \* per generator: how it ended, for the abstract service
  late        \* generators asked for a token after they were cancelled

genVars == <<caller, closed, started, results>>
workVars == <<worker, step, event, lock, count>>
vars == <<genVars, pending, cancelled, queue, workVars, unwanted, stopper, task,
          down, pool, outcome, late>>

Own(r) == <<r, "own">>     \* the event __init__ registers
Fresh(r) == <<r, "fresh">> \* the event setdefault registers

Steps == {"idle", "locking", "locked", "prompt", "reading", "computing", "read",
          "readlast", "farewell", "releasing", "failing", "ending"}
Callers == {"unmade", "idle", "told", "waiting", "closing", "setting", "popping",
            "ended", "closed", "left", "raised"}
Items == {"token", "last", "cancelled", "error", "done"}

TypeOK ==
  /\ caller \in [Req -> Callers]
  /\ closed \subseteq Req /\ started \subseteq Req /\ unwanted \subseteq Req
  /\ results \in [Req -> Seq(Items)]
  /\ pending \in [Req -> Events \cup {Nobody}]
  /\ cancelled \subseteq Events
  /\ queue \in Seq(Req \cup {Call})
  /\ worker \in Req \cup {Call, Nobody} /\ step \in Steps
  /\ event \in Events \cup {Nobody}
  /\ lock \in BOOLEAN /\ down \in BOOLEAN
  /\ count \in 0..MaxTokens
  /\ stopper \in {"idle", "raised"} \cup Req
  /\ task \in {"idle", "waiting", "done", "raised"}
  /\ pool \in {"open", "closing", "closed"}
  /\ outcome \in [Req -> {"none", "completed", "cancelled", "failed"}]
  /\ late \subseteq Req

Init ==
  /\ caller = [r \in Req |-> "unmade"]
  /\ closed = {} /\ started = {} /\ unwanted = {}
  /\ results = [r \in Req |-> <<>>]
  /\ pending = [id \in Req |-> Nobody]
  /\ cancelled = {}
  /\ queue = <<>>
  /\ worker = Nobody /\ step = "idle" /\ event = Nobody
  /\ lock = FALSE /\ count = 0
  /\ stopper = "idle" /\ task = "idle"
  /\ down = FALSE /\ pool = "open"
  /\ outcome = [r \in Req |-> "none"]
  /\ late = {}

-----------------------------------------------------------------------------
(* The callers: one thread per generator.                                  *)

CallerMoves(r, to) == caller' = [caller EXCEPT ![r] = to]
KitUnchanged == UNCHANGED <<workVars, stopper, task, down, pool, outcome, late, unwanted>>

\* __init__: registers a cancel event.
Make(r) ==
  /\ caller[r] = "unmade"
  /\ CallerMoves(r, "idle")
  /\ pending' = [pending EXCEPT ![r] = Own(r)]
  /\ UNCHANGED <<closed, started, results, cancelled, queue>>
  /\ KitUnchanged

\* __next__: the first one submits _generate to the executor.
Start(r) ==
  /\ caller[r] = "idle"
  /\ r \notin started
  /\ started' = started \cup {r}
  /\ IF pool = "open" THEN CallerMoves(r, "waiting") /\ queue' = Append(queue, r)
                      ELSE CallerMoves(r, "raised") /\ UNCHANGED queue
  /\ UNCHANGED <<closed, results, pending, cancelled>>
  /\ KitUnchanged

CallNext(r) ==
  /\ caller[r] \in {"idle", "told"}
  /\ r \in started
  /\ CallerMoves(r, "waiting")
  /\ UNCHANGED <<closed, started, results, pending, cancelled, queue>>
  /\ KitUnchanged

AfterItem(item) == CASE item = "token" -> "idle"
                     [] item \in {"last", "cancelled"} -> "told"
                     [] item = "error" -> "raised"
                     [] item = "done" -> "ended"

\* __next__ returns, or raises, what it takes from the queue.
Take(r) ==
  /\ caller[r] = "waiting"
  /\ results[r] # <<>>
  /\ CallerMoves(r, AfterItem(Head(results[r])))
  /\ results' = [results EXCEPT ![r] = Tail(@)]
  /\ UNCHANGED <<closed, started, pending, cancelled, queue>>
  /\ KitUnchanged

\* A caller that was told the stop reason may drop the generator.
Leave(r) ==
  /\ caller[r] = "told"
  /\ CallerMoves(r, "left")
  /\ UNCHANGED <<closed, started, results, pending, cancelled, queue>>
  /\ KitUnchanged

\* close(), and the first half of the cancel_request() it calls.
Close(r) ==
  /\ caller[r] \in {"idle", "told"}
  /\ closed' = closed \cup {r}
  /\ CallerMoves(r, IF pending[r] # Nobody THEN "setting" ELSE "popping")
  /\ UNCHANGED <<started, results, pending, cancelled, queue>>
  /\ KitUnchanged

\* The second half: the id is looked up again.
CloseSets(r) ==
  /\ caller[r] = "setting"
  /\ LET found == pending[r]
     IN IF found # Nobody
        THEN cancelled' = cancelled \cup {found} /\ CallerMoves(r, "popping")
        ELSE CallerMoves(r, "raised") /\ UNCHANGED cancelled
  /\ UNCHANGED <<closed, started, results, pending, queue>>
  /\ KitUnchanged

\* Variant with a fault: a generator that never ran keeps its entry.
CloseLeavesEntry(r) == pending

CloseEntry(r) == IF r \in started THEN pending ELSE [pending EXCEPT ![r] = Nobody]

\* A generator that never ran has nobody else to take its id away.
ClosePops(r) ==
  /\ caller[r] = "popping"
  /\ CallerMoves(r, "closed")
  /\ pending' = CloseEntry(r)
  /\ UNCHANGED <<closed, started, results, cancelled, queue>>
  /\ KitUnchanged

-----------------------------------------------------------------------------
(* Other threads: stop_generation(), executor calls, shutdown().           *)

OthersUnchanged == UNCHANGED <<genVars, workVars, outcome, late>>

\* cancel_request(): is the id pending?  ...
StopLooksUp(id) ==
  /\ stopper = "idle"
  /\ pending[id] # Nobody
  /\ stopper' = id
  /\ UNCHANGED <<pending, cancelled, queue, unwanted, task, down, pool>>
  /\ OthersUnchanged

\* ... then its event is looked up again, and set.
StopSets ==
  /\ stopper \in Req
  /\ IF pending[stopper] # Nobody
     THEN cancelled' = cancelled \cup {pending[stopper]} /\ stopper' = "idle"
     ELSE stopper' = "raised" /\ UNCHANGED cancelled
  /\ UNCHANGED <<pending, queue, unwanted, task, down, pool>>
  /\ OthersUnchanged

\* The progress reporter of the prompt that is processed answers "stop".
WantNoMore(r) ==
  /\ worker = r /\ step = "prompt"
  /\ unwanted' = unwanted \cup {r}
  /\ UNCHANGED <<pending, cancelled, queue, stopper, task, down, pool>>
  /\ OthersUnchanged

\* tokenize(), load_draft_model(), unload_draft_model(): a task and its result.
CallKit ==
  /\ task = "idle"
  /\ IF pool = "open" THEN task' = "waiting" /\ queue' = Append(queue, Call)
                      ELSE task' = "raised" /\ UNCHANGED queue
  /\ UNCHANGED <<pending, cancelled, unwanted, stopper, down, pool>>
  /\ OthersUnchanged

\* shutdown(): the flag, then the executor, which finishes what it has.
SetShutdown ==
  /\ ~down
  /\ down' = TRUE
  /\ UNCHANGED <<pending, cancelled, queue, unwanted, stopper, task, pool>>
  /\ OthersUnchanged

ShutExecutor ==
  /\ down /\ pool = "open"
  /\ pool' = "closing"
  /\ UNCHANGED <<pending, cancelled, queue, unwanted, stopper, task, down>>
  /\ OthersUnchanged

ShutdownReturns ==
  /\ pool = "closing"
  /\ worker = Nobody /\ queue = <<>>
  /\ pool' = "closed"
  /\ UNCHANGED <<pending, cancelled, queue, unwanted, stopper, task, down>>
  /\ OthersUnchanged

-----------------------------------------------------------------------------
(* The executor's thread.                                                  *)

Cancelled == event \in cancelled \/ down

WorkUnchanged == UNCHANGED <<caller, closed, started, unwanted, stopper, down, pool>>

Goes(to) == step' = to /\ UNCHANGED <<worker, event, lock, count>>

Puts(items) == results' = [results EXCEPT ![worker] = @ \o items]

\* Every generated result passes the two checks of _closed in _generate.
Emits(item, next) ==
  IF worker \in closed THEN Goes("releasing") /\ UNCHANGED results
                       ELSE Goes(next) /\ Puts(<<item>>)

Ends(how) == outcome' = [outcome EXCEPT ![worker] = how]

\* Variant with a fault: the task always makes its own event.
RegisteredFresh(r) == Fresh(r)

\* The event the task is cancelled by: setdefault.
Registered(r) == IF pending[r] = Nobody THEN Fresh(r) ELSE pending[r]

RunCall ==
  /\ worker = Nobody /\ queue # <<>> /\ Head(queue) = Call
  /\ queue' = Tail(queue)
  /\ task' = "done"
  /\ UNCHANGED <<results, pending, cancelled, workVars, outcome, late>>
  /\ WorkUnchanged

TakeTask(r) ==
  /\ worker = Nobody /\ queue # <<>> /\ Head(queue) = r
  /\ queue' = Tail(queue)
  /\ worker' = r /\ step' = "locking" /\ UNCHANGED count
  /\ event' = Registered(r)
  /\ pending' = [pending EXCEPT ![r] = Registered(r)]
  /\ UNCHANGED <<results, cancelled, lock, task, outcome, late>>
  /\ WorkUnchanged

\* _sequential_gen_abort_handler: a cancelled task does without the lock, and
\* says so; a cancel seen right after the lock was taken gives it back.
SeesCancel ==
  /\ step \in {"locking", "locked"}
  /\ Cancelled
  /\ Emits("cancelled", "releasing")
  /\ Ends("cancelled")
  /\ UNCHANGED <<queue, pending, cancelled, task, late>>
  /\ WorkUnchanged

AcquireLock ==
  /\ step = "locking" /\ ~Cancelled /\ ~lock
  /\ lock' = TRUE /\ step' = "locked"
  /\ UNCHANGED <<worker, event, count, results, queue, pending, cancelled, task, outcome, late>>
  /\ WorkUnchanged

StartPrompt ==
  /\ step = "locked" /\ ~Cancelled
  /\ Goes("prompt")
  /\ UNCHANGED <<results, queue, pending, cancelled, task, outcome, late>>
  /\ WorkUnchanged

\* process_prompt(): finishes, is stopped by the reporter, or raises.
PromptDone ==
  /\ step = "prompt"
  /\ Goes("reading")
  /\ UNCHANGED <<results, queue, pending, cancelled, task, outcome, late>>
  /\ WorkUnchanged

PromptStopped ==
  /\ step = "prompt" /\ worker \in unwanted
  /\ Emits("cancelled", "releasing")
  /\ Ends("cancelled")
  /\ UNCHANGED <<queue, pending, cancelled, task, late>>
  /\ WorkUnchanged

Raises ==
  /\ step \in {"prompt", "computing"}
  /\ Goes("failing")
  /\ Ends("failed")
  /\ UNCHANGED <<results, queue, pending, cancelled, task, late>>
  /\ WorkUnchanged

\* Variant with a fault: the loop looks at shutdown only.
StopsReadingDown == down

StopsReading == Cancelled

\* Variant with a fault: one token too many.
TokensLeftOffByOne == count <= MaxTokens

\* The token limit stream_generate was given.
TokensLeft == count < MaxTokens

\* The loop of _sequential_generation: the next token is asked for ...
AskToken ==
  /\ step = "reading" /\ ~StopsReading /\ TokensLeft
  /\ Goes("computing")
  /\ late' = IF down \/ Own(worker) \in cancelled THEN late \cup {worker} ELSE late
  /\ UNCHANGED <<results, queue, pending, cancelled, task, outcome>>
  /\ WorkUnchanged

\* ... is held for a stop string, or handed out, perhaps with a stop reason, ...
TokenComputed ==
  /\ step = "computing"
  /\ count' = count + 1
  /\ UNCHANGED <<worker, event, lock>>
  /\ \/ step' = "reading" /\ UNCHANGED <<results, outcome>>
     \/ /\ worker \in closed
        /\ step' = "releasing" /\ Ends("cancelled") /\ UNCHANGED results
     \/ /\ worker \notin closed
        /\ UNCHANGED outcome
        /\ \/ step' = "read" /\ Puts(<<"token">>)
           \/ step' = "readlast" /\ Puts(<<"last">>)
  /\ UNCHANGED <<queue, pending, cancelled, task, late>>
  /\ WorkUnchanged

\* ... and the generator goes on, unless it was closed meanwhile.
AfterPut ==
  /\ step \in {"read", "readlast"}
  /\ IF worker \in closed THEN Goes("releasing") /\ Ends("cancelled")
     ELSE Goes(IF step = "read" THEN "reading" ELSE "farewell") /\ UNCHANGED outcome
  /\ UNCHANGED <<results, queue, pending, cancelled, task, late>>
  /\ WorkUnchanged

LoopEnds ==
  /\ step = "reading" /\ (StopsReading \/ ~TokensLeft)
  /\ Goes("farewell")
  /\ UNCHANGED <<results, queue, pending, cancelled, task, outcome, late>>
  /\ WorkUnchanged

\* After the loop a cancelled request says so.
Farewell ==
  /\ step = "farewell"
  /\ IF Cancelled THEN Emits("cancelled", "releasing") /\ Ends("cancelled")
                  ELSE Goes("releasing") /\ Ends("completed") /\ UNCHANGED results
  /\ UNCHANGED <<queue, pending, cancelled, task, late>>
  /\ WorkUnchanged

\* Variant with a fault: a task that fails keeps the lock.
LockKeptOnError == IF step = "failing" THEN lock ELSE FALSE

LockReleased == FALSE

\* The generator's finally clauses: the lock and the id ...
Release ==
  /\ step \in {"releasing", "failing"}
  /\ lock' = LockReleased
  /\ pending' = [pending EXCEPT ![worker] = Nobody]
  /\ step' = "ending"
  /\ UNCHANGED <<worker, event, count, results, queue, cancelled, task, outcome, late>>
  /\ WorkUnchanged

\* Variant with a fault: only what a generator raises itself is passed on.
LastWordsUnlessFailed == IF outcome[worker] = "failed" THEN <<>> ELSE <<"done">>

\* Variant with a fault: the error comes after the end.
LastWordsSwapped == IF outcome[worker] = "failed" THEN <<"done", "error">> ELSE <<"done">>

LastWords == IF outcome[worker] = "failed" THEN <<"error", "done">> ELSE <<"done">>

\* ... are given up before the end of the results is told.
Finish ==
  /\ step = "ending"
  /\ Puts(LastWords)
  /\ worker' = Nobody /\ step' = "idle" /\ event' = Nobody /\ count' = 0
  /\ UNCHANGED <<lock, queue, pending, cancelled, task, outcome, late>>
  /\ WorkUnchanged

-----------------------------------------------------------------------------
Executor ==
  \/ RunCall \/ \E r \in Req : TakeTask(r)
  \/ SeesCancel \/ AcquireLock \/ StartPrompt
  \/ PromptDone \/ PromptStopped \/ Raises
  \/ AskToken \/ TokenComputed \/ AfterPut \/ LoopEnds \/ Farewell
  \/ Release \/ Finish

Next ==
  \/ \E r \in Req : \/ Make(r) \/ Start(r) \/ CallNext(r) \/ Take(r) \/ Leave(r)
                    \/ Close(r) \/ CloseSets(r) \/ ClosePops(r) \/ WantNoMore(r)
  \/ \E id \in Req : StopLooksUp(id)
  \/ StopSets \/ CallKit \/ SetShutdown \/ ShutExecutor \/ ShutdownReturns
  \/ Executor

Spec == Init /\ [][Next]_vars /\ WF_vars(Executor) /\ \A r \in Req : WF_vars(Take(r))

-----------------------------------------------------------------------------
(* Properties.                                                             *)

(* A cancel by id, a close() and a shutdown() are heard, before the task   *)
(* runs, while it waits for the lock and in its loop: once the event that  *)
(* __init__ registered for a generator is set, no token is asked for.      *)
CancelHeard == late = {}

(* The executor has the task of a generator: it waits, or runs.            *)
Queued(r) == \E i \in DOMAIN queue : queue[i] = r
InExecutor(r) == worker = r \/ Queued(r)

(* A generator whose first __next__ came after shutdown(): submit() raised *)
(* in its caller, and there is no task whose end would give the id back.   *)
Refused(r) == caller[r] = "raised" /\ outcome[r] = "none" /\ pool # "open"

(* The ids in pending_requests are those of live generators: ones that     *)
(* never ran and may still run or be closed, and ones whose task waits or  *)
(* runs.  So an id is given up by close(), by an error, by a cancel and at *)
(* the end, and not before the task is over: it can be cancelled till      *)
(* then.  The one exception is the generator refused by a shut executor:   *)
(* its _started flag is set and no task runs, so its id stays.             *)
PendingIsLive ==
  \A r \in Req :
    /\ pending[r] # Nobody =>
         \/ r \notin started /\ caller[r] \in {"idle", "setting", "popping"}
         \/ InExecutor(r)
         \/ Refused(r)
    /\ InExecutor(r) /\ ~(worker = r /\ step = "ending") => pending[r] = Own(r)

(* The lock belongs to the task that runs, from the moment it was acquired *)
(* until the generator's finally clause.                                   *)
LockHeldByTask == lock => worker \in Req /\ step \notin {"idle", "locking", "ending"}

(* The stream of a generator ends with one "done", and nothing follows a   *)
(* cancelled item or an error but that.                                    *)
ResultsInOrder ==
  \A r \in Req : \A i \in DOMAIN results[r] :
    i < Len(results[r]) =>
      CASE results[r][i] = "token" -> TRUE
        [] results[r][i] = "last" -> results[r][i + 1] \in {"cancelled", "done", "error"}
        [] OTHER -> results[r][i + 1] = "done"

(* Whoever waits for a result, or for an executor call, gets an answer:    *)
(* also when the kit is shut down with work queued.                        *)
CallersReleased ==
  /\ \A r \in Req : caller[r] = "waiting" ~> caller[r] # "waiting"
  /\ task = "waiting" ~> task # "waiting"

Status(r) ==
  IF outcome[r] # "none" THEN outcome[r]
  ELSE IF worker = r THEN "running"
  ELSE IF Queued(r) THEN "accepted" ELSE "new"

Service == INSTANCE RequestService WITH
  Limit <- 1,
  status <- [r \in Req |-> Status(r)],
  asked <- closed \cup unwanted \cup {r \in Req : Own(r) \in cancelled},
  open <- ~down

(* The sequential kit implements the abstract request service of the       *)
(* batched kits with a limit of one: outcomes are final, one request runs  *)
(* at a time, and nobody is cancelled without having been asked to.        *)
ImplementsService == Service!Spec

(* Cancels are heard; ids, the lock and the results' queue are given back  *)
(* as they should be, whatever raised, was cancelled or was closed.        *)
NothingLeaks ==
  /\ TypeOK
  /\ CancelHeard
  /\ PendingIsLive
  /\ LockHeldByTask
  /\ ResultsInOrder

=============================================================================
