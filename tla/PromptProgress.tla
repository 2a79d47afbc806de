----------------------------- MODULE PromptProgress -----------------------------
(***************************************************************************)
(* What a caller's reporter is told while its prompt is processed, and     *)
(* what becomes of the answer.  The sequential kit calls the reporter from *)
(* its own thread; the batched kits queue their progress, and the caller's *)
(* thread reads it after the fact, while the kit goes on.                  *)
(***************************************************************************)
EXTENDS Naturals, FiniteSets, SequencesExt

CONSTANTS MaxTotal,   \* bound: tokens of a prompt
          MaxShown    \* bound: generated tokens

ASSUME ProgressAssumption ==
  /\ MaxTotal \in Nat \ {0} /\ MaxShown \in Nat

VARIABLES
  kit,        \* which kit runs: "sequential", "text" or "vision"
  total,      \* tokens of the prompt, the one that seeds decoding included
  cached,     \* how many the prompt cache held
  processed,  \* the model was run on so many
  stage,      \* the kit: "start", prefilling "draft" or "main", "ready", "decode", "gone"
  queue,      \* from a batched kit to the caller
  first,      \* _first_call of the text kit's adapter
  finished,   \* _finished of that adapter; prompt_progress_finished of the vision kit
  reporter,   \* the caller's reporter: its context, what it was told and what it said
  caller,     \* "reading", "cancelled" (a result says so), "raised" or "done"
  shown,      \* tokens the caller has got
  removed     \* has the caller told the kit to remove the request?

progressVars == <<kit, total, cached, processed, stage, queue, first, finished, reporter,
          caller, shown, removed>>

None == [cached |-> 0, total |-> 0, last |-> 0]
Prefill == total - 1
Answers == {"continue", "stop", "raise"}

Event(kind, draft, n) == [kind |-> kind, draft |-> draft, tokens |-> n]

ProgressTypeOK ==
  /\ total \in 1..MaxTotal /\ cached \in 0..Prefill
  /\ processed \in cached..total
  /\ (kit = "sequential" \/ stage # "decode" => processed <= Prefill \/ stage = "gone")
  /\ stage \in {"start", "draft", "main", "ready", "decode", "gone"}
  /\ first \in BOOLEAN /\ finished \in BOOLEAN /\ removed \in BOOLEAN
  /\ (kit = "sequential" => queue = <<>>)
  /\ caller \in {"reading", "cancelled", "raised", "done"}
  /\ shown \in 0..MaxShown

ProgressInit ==
  /\ kit \in {"sequential", "text", "vision"}
  /\ total \in 1..MaxTotal
  /\ cached \in IF kit = "text" THEN {0} ELSE 0..Prefill
  /\ processed = cached
  /\ stage = "start" /\ queue = <<>>
  /\ first = TRUE /\ finished = FALSE
  /\ reporter = [context |-> None, events |-> <<>>, percents |-> <<>>, stopped |-> FALSE]
  /\ caller = "reading" /\ shown = 0 /\ removed = FALSE

-----------------------------------------------------------------------------
(* PromptProgressCallbackReporter                                          *)

\* Percents are rounded down.
Percent(context, n) ==
  LET prefill == IF context.total = 0 THEN 0 ELSE context.total - 1
      work == IF prefill > context.cached THEN prefill - context.cached ELSE 0
  IN IF work = 0 \/ n > work THEN 100 ELSE (100 * n) \div work

\* The reporter is told e and answers a; ForwardingReporter passes it on.
Told(r, e, a) == [r EXCEPT !.events = Append(@, e), !.stopped = @ \/ a = "stop"]

\* A percentage follows, unless the caller's callback raised.
Shows(r, a, c, percent) ==
  IF a = "raise" THEN r ELSE [r EXCEPT !.context = c, !.percents = Append(@, percent)]

Begin(r, held, all, n, a) ==
  LET c == [cached |-> held, total |-> all, last |-> n]
  IN Shows(Told(r, Event("begin", FALSE, n), a), a, c, Percent(c, n))

\* Variant with a fault: draft updates are taken for the main model's.
UpdateEither(r, draft, n, a) ==
  Shows(Told(r, Event("update", draft, n), a), a, [r.context EXCEPT !.last = n],
        Percent(r.context, n))

Update(r, draft, n, a) ==
  LET told == Told(r, Event("update", draft, n), a)
  IN IF draft THEN told
     ELSE Shows(told, a, [r.context EXCEPT !.last = n], Percent(r.context, n))

Finish(r, n, a) == Shows(Told(r, Event("finish", FALSE, n), a), a, r.context, 100)

\* Variant with a fault: the seed is prefilled too.
FitsAll(n) == processed + n <= total

\* Prefill leaves the last token to seed decoding.
Fits(n) == processed + n <= Prefill

\* The sequential kit's finish() comes without a count.
FinishLast(r, a) == Finish(r, r.context.last, a)

-----------------------------------------------------------------------------
(* The sequential kit's cache wrapper calls the reporter itself.           *)

RestUnchanged == UNCHANGED <<kit, total, cached, queue, first, finished, shown, removed>>

Stopped(a) ==
  /\ stage' = "gone"
  /\ caller' = IF a = "stop" THEN "cancelled" ELSE "raised"

\* What begin() answers is not looked at.
SequentialBegin(a) ==
  /\ kit = "sequential" /\ stage = "start"
  /\ reporter' = Begin(reporter, cached, total, 0, a)
  /\ IF a = "raise" THEN Stopped(a)
     ELSE /\ \E draft \in BOOLEAN : stage' = IF draft THEN "draft" ELSE "main"
          /\ UNCHANGED caller
  /\ UNCHANGED processed /\ RestUnchanged

\* Variant with a fault: chunks are not added up.
ChunkAlone(n) == n

NumProcessed(n) == processed + n - cached

\* A chunk of n tokens, for the draft model or for the main one.
SequentialChunk(n, a) ==
  /\ kit = "sequential" /\ stage \in {"draft", "main"}
  /\ Fits(n)
  /\ reporter' = Update(reporter, stage = "draft", NumProcessed(n), a)
  /\ IF a # "continue" THEN Stopped(a) /\ processed' = processed + n
     ELSE IF stage = "draft" /\ processed + n = Prefill
          THEN stage' = "main" /\ processed' = cached /\ UNCHANGED caller
          ELSE processed' = processed + n /\ UNCHANGED <<stage, caller>>
  /\ RestUnchanged

\* No token is left for the draft model.
DraftCached ==
  /\ stage = "draft" /\ cached = Prefill
  /\ stage' = "main"
  /\ UNCHANGED <<processed, reporter, caller>> /\ RestUnchanged

\* Nor is what finish() answers.
SequentialFinish(a) ==
  /\ kit = "sequential" /\ stage = "main" /\ processed = Prefill
  /\ reporter' = FinishLast(reporter, a)
  /\ IF a = "raise" THEN Stopped(a) ELSE stage' = "decode" /\ UNCHANGED caller
  /\ UNCHANGED processed /\ RestUnchanged

SequentialToken ==
  /\ kit = "sequential" /\ stage = "decode" /\ shown < MaxShown
  /\ shown' = shown + 1
  /\ UNCHANGED <<kit, total, cached, processed, stage, queue, first, finished, reporter,
                 caller, removed>>

-----------------------------------------------------------------------------
(* The batched kits, on their own thread.                                  *)

CallerUnchanged == UNCHANGED <<kit, total, cached, first, reporter, caller, shown, removed>>

\* _maybe_insert: the vision kit says where it begins.
InsertPrompt ==
  /\ kit # "sequential" /\ stage = "start"
  /\ queue' = IF kit = "vision" THEN Append(queue, [kind |-> "begin", tokens |-> 0]) ELSE queue
  /\ stage' = IF processed = Prefill THEN "ready" ELSE "main"
  /\ UNCHANGED <<processed, finished>> /\ CallerUnchanged

\* Variant with a fault: a count without the seed is compared with one with it.
IsFinalWithSeed(n) == (IF n < Prefill THEN n ELSE Prefill) >= total

IsFinal(n) == n >= Prefill

\* Variant with a fault: what comes after the finish is passed on.
EndedNever == FALSE

Ended == finished

\* Variant with a fault: cached tokens are counted.
CountedAll(n) == IF n < Prefill THEN n ELSE Prefill

Counted(n) == (IF n < Prefill THEN n ELSE Prefill) - (IF kit = "text" THEN 0 ELSE cached)

\* A progress response: the vision kit counts without the cached tokens, and
\* not after the final one; the text kit passes the numbers on.
Progress(n) ==
  IF kit = "text" THEN Append(queue, [kind |-> "pair", tokens |-> n])
  ELSE IF Ended THEN queue
  ELSE Append(queue, [kind |-> IF IsFinal(n) THEN "finish" ELSE "update",
                      tokens |-> Counted(n)])

PrefillStep(n) ==
  /\ kit # "sequential" /\ stage = "main"
  /\ Fits(n)
  /\ processed' = processed + n
  /\ queue' = Progress(processed + n)
  /\ finished' = IF kit = "vision" THEN finished \/ IsFinal(processed + n) ELSE finished
  /\ stage' = IF processed + n = Prefill THEN "ready" ELSE "main"
  /\ CallerUnchanged

\* The last prompt pass, after which the row decodes.
LastPass ==
  /\ stage = "ready"
  /\ processed' = total
  /\ queue' = Progress(total)
  /\ finished' = IF kit = "vision" THEN TRUE ELSE finished
  /\ stage' = "decode"
  /\ CallerUnchanged

QueuedTokens == {i \in DOMAIN queue : queue[i].kind = "token"}

DecodeStep ==
  /\ kit # "sequential" /\ stage = "decode"
  /\ shown + Cardinality(QueuedTokens) < MaxShown
  /\ queue' = Append(queue, [kind |-> "token", tokens |-> 0])
  /\ UNCHANGED <<processed, stage, finished>> /\ CallerUnchanged

\* The removal is read between two steps.
Drop ==
  /\ removed /\ stage # "gone"
  /\ stage' = "gone"
  /\ UNCHANGED <<processed, queue, finished>> /\ CallerUnchanged

-----------------------------------------------------------------------------
(* The caller's thread, in the generator of the batched kits.              *)

Read(kind) == caller = "reading" /\ queue # <<>> /\ Head(queue).kind = kind /\ queue' = Tail(queue)

KitUnchanged == UNCHANGED <<kit, total, cached, processed, stage>>

\* Variant with a fault: only a stop removes the request.
RemovesOnStop(a) == a = "stop"

Removes(a) == a # "continue"

\* Variant with a fault: a stop is not told from its opposite.
GoesOn(a) == IF a = "raise" THEN "raised" ELSE "reading"

AfterAnswer(a) ==
  CASE a = "continue" -> "reading" [] a = "stop" -> "cancelled" [] OTHER -> "raised"

\* The vision kit's caller removes the request if told to stop, or on an error.
VisionReport(a) ==
  /\ kit = "vision"
  /\ \E kind \in {"begin", "update", "finish"} :
       /\ Read(kind)
       /\ LET n == Head(queue).tokens
          IN reporter' = CASE kind = "begin" -> Begin(reporter, cached, total, n, a)
                           [] kind = "update" -> Update(reporter, FALSE, n, a)
                           [] OTHER -> Finish(reporter, n, a)
  /\ caller' = AfterAnswer(a)
  /\ removed' = Removes(a)
  /\ UNCHANGED <<first, finished, shown>> /\ KitUnchanged

\* Variant with a fault: the seed counts as prefilled.
SeedIncluded(n) == n

SeedExcluded(n) == IF n < Prefill THEN n ELSE Prefill

\* Variant with a fault: nothing but begin() on the first call.
EndsFirstCall(a) == first

EndsCall(a) == first /\ a # "continue"

\* The text kit's adapter begins on its first call, and finishes once: a is the
\* answer to begin, b the other one.  What the adapter returns is not looked at.
TextReport(a, b) ==
  /\ kit = "text" /\ Read("pair")
  /\ LET n == Head(queue).tokens
         done == SeedExcluded(n)
         begun == IF first THEN Begin(reporter, 0, total, done, a) ELSE reporter
         ends == EndsCall(a)
     IN IF Ended THEN UNCHANGED <<first, finished, reporter, caller>>
        ELSE /\ first' = FALSE
             /\ finished' = (~ends /\ n >= Prefill)
             /\ reporter' = IF ends THEN begun
                            ELSE IF n >= Prefill THEN Finish(begun, done, b)
                            ELSE Update(begun, FALSE, done, b)
             /\ caller' = IF (first /\ a = "raise") \/ (~ends /\ b = "raise") THEN "raised" ELSE caller
  /\ UNCHANGED <<shown, removed>> /\ KitUnchanged

ReadToken ==
  /\ Read("token")
  /\ shown' = shown + 1
  /\ UNCHANGED <<first, finished, reporter, caller, removed>> /\ KitUnchanged

\* The end of the output.
Done ==
  /\ shown = MaxShown /\ caller = "reading"
  /\ caller' = "done"
  /\ stage' = "gone"
  /\ UNCHANGED <<kit, total, cached, processed, queue, first, finished, reporter, shown, removed>>

Chunks == 1..MaxTotal

ProgressNext ==
  \/ \E a \in Answers : SequentialBegin(a) \/ SequentialFinish(a)
  \/ \E n \in Chunks, a \in Answers : SequentialChunk(n, a)
  \/ DraftCached \/ SequentialToken
  \/ InsertPrompt \/ LastPass \/ DecodeStep \/ Drop
  \/ \E n \in Chunks : PrefillStep(n)
  \/ \E a \in Answers : VisionReport(a)
  \/ \E a, b \in Answers : TextReport(a, b)
  \/ ReadToken \/ Done

ProgressSpec == ProgressInit /\ [][ProgressNext]_progressVars

-----------------------------------------------------------------------------
(* Properties.                                                             *)

Heard == DOMAIN reporter.events

(* A reporter hears one begin, first, at most one finish, last, and        *)
(* between them counts of the main model that never fall (what a progress  *)
(* bar relies on, whichever kit runs).                                     *)
ReportsInOrder ==
  LET events == reporter.events
  IN \A i \in Heard :
       /\ events[i].kind = "begin" <=> i = 1
       /\ events[i].kind = "finish" => i = Len(events)
       /\ \A j \in Heard : j < i /\ ~events[j].draft /\ ~events[i].draft
                          => events[j].tokens <= events[i].tokens

(* The percentage climbs from what was cached to 100, and the finishing    *)
(* count is all there was to prefill, the seed of decoding left out.       *)
PercentsClimb ==
  /\ \A i, j \in DOMAIN reporter.percents : i < j => reporter.percents[i] <= reporter.percents[j]
  /\ \A i \in DOMAIN reporter.percents : reporter.percents[i] <= 100
  /\ \A i \in Heard : reporter.events[i].kind = "finish" => reporter.events[i].tokens = Prefill - cached

(* A caller sees no token before its reporter was told that the prompt is  *)
(* finished, or has stopped it.                                            *)
FinishedBeforeTokens ==
  shown > 0 => reporter.stopped \/ \E i \in Heard : reporter.events[i].kind = "finish"

(* "True to continue processing, False to cancel": a reporter of the       *)
(* vision kit that has said stop hears no more, and its caller gets no     *)
(* token, though the kit may have queued both.  (The sequential kit looks  *)
(* only at what update() answers, the text kit at nothing.)                *)
StopIsHonoured ==
  [][kit = "vision" /\ reporter.stopped
     => reporter'.events = reporter.events /\ shown' = shown]_progressVars

(* A vision request whose caller gave up, by a stop or by an error in its  *)
(* own reporter, is taken out of the kit.                                  *)
GivenUpIsRemoved == kit = "vision" /\ caller \in {"cancelled", "raised"} => removed

(* What the caller's reporter is told, and that a kit whose caller left is *)
(* told to drop the request; a reporter that says stop is not read on to.  *)
ProgressTold ==
  /\ [](/\ ProgressTypeOK
        /\ ReportsInOrder
        /\ PercentsClimb
        /\ FinishedBeforeTokens
        /\ GivenUpIsRemoved)
  /\ StopIsHonoured

=============================================================================
