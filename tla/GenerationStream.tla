---------------------------- MODULE GenerationStream ----------------------------
(***************************************************************************)
(* What a caller of create_generator() reads: the loop of                  *)
(* _batched_generation (batched) and of _sequential_generation, which turn *)
(* the tokens of one stream into results, hold text back while it may      *)
(* become a stop string or a character, and say why the stream ended.      *)
(***************************************************************************)
EXTENDS Naturals, FiniteSets, SequencesExt, StopStrings

CONSTANTS Tokens,    \* the vocabulary
          Bytes,       \* Tokens -> what a token decodes to, byte by byte
          EosTokens,   \* tokenizer.eos_token_ids
          Stops,       \* stop_strings, a sequence of texts (may be empty)
          MaxTokens    \* max_tokens

ASSUME StreamAssumption ==
  /\ EosTokens \subseteq Tokens
  /\ MaxTokens \in Nat \ {0}
  /\ \A i \in DOMAIN Stops : Len(Stops[i]) > 0

VARIABLES
  batched,    \* is it _batched_generation, or _sequential_generation?
  vision,     \* is the batched kit the vision kit?
  generated,  \* tokens read from the kit's stream so far
  finish,     \* finish_reason of the last one
  text,       \* text since the last result
  tokens,     \* token_buffer
  ids,        \* token_id_buffer of the stop string processor
  results,    \* the results handed to the caller
  cancel,     \* the request was cancelled by id, or the kit is shut down
  backend,    \* "running", or "done": it has ended, or was told to drop the request
  phase       \* "reading", "leaving" the loop, or how the generator ended

vars == <<batched, vision, generated, finish, text, tokens, ids, results, cancel, backend, phase>>

None == "none"

\* GenerationStopReason, or none yet.
StopReasons == {None, "eos_token", "stop_string", "token_limit", "user_cancelled"}
ResultOK(r) == r.tokens \in Seq(Tokens) /\ r.stop \in StopReasons

TypeOK ==
  /\ batched \in BOOLEAN
  /\ vision \in BOOLEAN /\ (vision => batched)
  /\ generated \in Seq(Tokens)
  /\ finish \in {None, "stop", "length"}
  /\ tokens \in Seq(Tokens)
  /\ ids \in Seq(Tokens)
  /\ cancel \in BOOLEAN
  /\ backend \in {"running", "done"}
  /\ phase \in {"reading", "leaving", "returned", "raised", "closed"}
  /\ \A i \in DOMAIN results : ResultOK(results[i])

Init ==
  /\ batched \in BOOLEAN
  /\ vision \in BOOLEAN /\ (vision => batched)
  /\ generated = <<>>
  /\ finish = None
  /\ text = <<>>
  /\ tokens = <<>>
  /\ ids = <<>>
  /\ results = <<>>
  /\ cancel = FALSE
  /\ backend = "running"
  /\ phase = "reading"

-----------------------------------------------------------------------------
Joined(f) ==
  LET joined[n \in 0..Len(f)] == IF n = 0 THEN <<>> ELSE joined[n - 1] \o f[n]
  IN joined[Len(f)]

(* External: the tokenizer.  The first byte of a character decodes to the  *)
(* replacement character, until a token that starts with its second byte   *)
(* ("L") completes it to "U".                                              *)
Opens(t) == Last(Bytes[t]) = Replacement
Completes(t) == Head(Bytes[t]) = "L"

\* The characters texts are made of.
Chars == {Replacement, "U"} \cup UNION {ToSet(Bytes[t]) : t \in Tokens}
                            \cup UNION {ToSet(Stops[i]) : i \in DOMAIN Stops}

\* External: no end token completes a character, and a stop string is text, without
\* the mark of a character that is incomplete.
ASSUME TextAssumption ==
  /\ \A t \in Tokens : Bytes[t] \in Seq(Chars) /\ Bytes[t] # <<>>
  /\ Stops \in Seq(Seq(Chars))
  /\ \A t \in EosTokens : ~Completes(t)
  /\ \A i \in DOMAIN Stops : Replacement \notin ToSet(Stops[i])

Piece(ts, i) ==
  LET bytes == Bytes[ts[i]]
      first == IF ~Completes(ts[i]) THEN Head(bytes)
               ELSE IF i > 1 /\ Opens(ts[i - 1]) THEN "U" ELSE Replacement
      piece == <<first>> \o Tail(bytes)
  IN IF Opens(ts[i]) /\ i < Len(ts) /\ Completes(ts[i + 1]) THEN Front(piece) ELSE piece

Decode(ts) == Joined([i \in DOMAIN ts |-> Piece(ts, i)])

\* External: the streaming detokenizer holds an incomplete character back
\* until finalize(); a token that finishes by "stop" is not added to it.
Shown(ts, reason) ==
  LET s == Decode(IF reason = "stop" THEN Front(ts) ELSE ts)
  IN IF reason = None /\ s # <<>> /\ Last(s) = Replacement THEN Front(s) ELSE s

Segment(before, after, reason) ==
  LET s == Shown(after, reason)
  IN SubSeq(s, Len(Shown(before, None)) + 1, Len(s))

\* External: why the backend ends a stream with this token.
Finish(ts) == IF Last(ts) \in EosTokens THEN "stop"
              ELSE IF Len(ts) = MaxTokens THEN "length" ELSE None

-----------------------------------------------------------------------------
Result(s, ts, reason) == [text |-> s, tokens |-> ts, stop |-> reason]
UserCancelled == Result(<<>>, <<>>, "user_cancelled")
TokenLimit == Result(<<>>, <<>>, "token_limit")

StopStringResult(ts, s, string) == Result(TextBefore(string, s), ts, "stop_string")

StopStatus(ts) == IF Stops = <<>> THEN "no_match" ELSE Status(Decode(ts), Stops)

\* Variant with a fault: a partial match clears the processor's buffer too.
ClearedOnPartial(ts, status) == IF status = "multi_byte" THEN ts ELSE <<>>

IdsAfter(ts, status) == IF status = "no_match" THEN <<>> ELSE ts

\* Variant with a fault: the backend's own finish reason is passed on.
BackendReason(t) == IF t \in EosTokens THEN "stop" ELSE None

EosOf(t) == IF t \in EosTokens THEN "eos_token" ELSE None

\* Variant with a fault: an eos token without text makes no result.
ShouldYieldText(s, t) == s # <<>>

\* Text, or an eos token, makes a result.
ShouldYield(s, t) == s # <<>> \/ t \in EosTokens

\* A stop string was found: one last result, and the loop is left.
StopHere(s, ts, seen) ==
  /\ results' = Append(results,
       StopStringResult(ts, s, Stops[EarliestMatch(Decode(seen), Stops)]))
  /\ phase' = "leaving"
  /\ UNCHANGED <<text, tokens>>

\* Variant with a fault: the limit is announced before the last text.
LimitFirst(rs, reason) ==
  IF batched /\ reason = "length" THEN <<TokenLimit>> \o rs ELSE rs

WithLimit(rs, reason) ==
  IF batched /\ reason = "length" THEN Append(rs, TokenLimit) ELSE rs

\* Variant with a fault: the buffered tokens stay for the next result.
KeptTokens(ts, s, t) == ts

TokensLeft(ts, s, t) == IF ShouldYield(s, t) THEN <<>> ELSE ts

\* No stop string in sight: what there is goes out, and the limit is told.
YieldText(s, ts, reason) ==
  LET yields == ShouldYield(s, Last(ts))
      told == IF yields THEN <<Result(s, ts, EosOf(Last(ts)))>> ELSE <<>>
  IN /\ results' = results \o WithLimit(told, reason)
     /\ text' = IF yields THEN <<>> ELSE s
     /\ tokens' = TokensLeft(ts, s, Last(ts))
     /\ phase' = IF batched /\ reason = "length" THEN "returned" ELSE "reading"

\* Held back: it may become a stop string or a character.
Hold(s, ts) ==
  /\ text' = s
  /\ tokens' = ts
  /\ UNCHANGED <<results, phase>>

\* One turn of the loop: the next token is read and handled.
Read(t) ==
  /\ phase = "reading"
  /\ finish = None
  /\ batched \/ ~cancel
  /\ LET after == Append(generated, t)
         reason == Finish(after)
         s == text \o Segment(generated, after, reason)
         ts == Append(tokens, t)
         seen == Append(ids, t)
         status == StopStatus(seen)
     IN /\ generated' = after
        /\ finish' = reason
        /\ backend' = IF reason = None THEN backend ELSE "done"
        /\ ids' = IdsAfter(seen, status)
        /\ CASE status = "full_stop" -> StopHere(s, ts, seen)
             [] status = "no_match" -> YieldText(s, ts, reason)
             [] OTHER -> Hold(s, ts)
  /\ UNCHANGED <<batched, vision, cancel>>

StreamUnchanged == UNCHANGED <<batched, vision, generated, finish, text, tokens, ids, cancel>>

\* The backend's stream is exhausted.
StreamExhausted ==
  /\ phase = "reading"
  /\ finish # None
  /\ batched \/ ~cancel
  /\ phase' = "leaving"
  /\ UNCHANGED <<results, backend>>
  /\ StreamUnchanged

\* The sequential loop sees the cancel event, or shutdown, before its next read.
CancelSeen ==
  /\ ~batched
  /\ phase = "reading"
  /\ cancel
  /\ phase' = "leaving"
  /\ UNCHANGED <<results, backend>>
  /\ StreamUnchanged

\* The loop was left by a stop string.
Stopped == results # <<>> /\ Last(results).stop = "stop_string"

\* Variant with a fault: the batched backend is not told.
LeftBackendAlone == IF batched THEN backend ELSE "done"

\* The batched backend is told to drop a stopped request; a sequential stream is
\* dropped with its generator.
LeftBackend == IF batched /\ ~Stopped THEN backend ELSE "done"

\* Variant with a fault: a cancelled sequential stream just ends.
FarewellNever == <<>>

\* Variant with a fault: every sequential stream ends with it.
FarewellAlways == IF batched THEN <<>> ELSE <<UserCancelled>>

\* After the loop a cancelled sequential stream says so.
Farewell == IF ~batched /\ cancel THEN <<UserCancelled>> ELSE <<>>

Return ==
  /\ phase = "leaving"
  /\ phase' = "returned"
  /\ results' = results \o Farewell
  /\ backend' = LeftBackend
  /\ StreamUnchanged

\* The kit dropped the request it was told to: an exception instead of a token.
KitCancelled ==
  /\ phase = "reading" /\ finish = None
  /\ batched /\ cancel
  /\ phase' = "returned"
  /\ backend' = "done"
  /\ results' = Append(results, UserCancelled)
  /\ StreamUnchanged

\* The kit failed: its exception reaches the caller.
KitFailed ==
  /\ phase = "reading" /\ finish = None
  /\ phase' = "raised"
  /\ backend' = "done"
  /\ UNCHANGED results
  /\ StreamUnchanged

\* Variant with a fault: the vision kit does not take the request out either.
ReporterLeftBackendAlone == IF batched THEN backend ELSE "done"

\* While the prompt is processed the caller's progress reporter runs in the stream:
\* the vision kit takes the request out when it ends it, the text kit does not.
ReporterLeftBackend == IF batched /\ ~vision THEN backend ELSE "done"

\* The reporter says stop, or raises StopPromptProcessing ...
ReporterStops ==
  /\ phase = "reading" /\ finish = None /\ generated = <<>>
  /\ phase' = "returned"
  /\ backend' = ReporterLeftBackend
  /\ results' = Append(results, UserCancelled)
  /\ StreamUnchanged

\* ... or raises something else.
ReporterRaises ==
  /\ phase = "reading" /\ finish = None /\ generated = <<>>
  /\ phase' = "raised"
  /\ backend' = ReporterLeftBackend
  /\ UNCHANGED results
  /\ StreamUnchanged

\* stop_generation(), or shutdown, from another thread: a batched kit is told at once.
Cancel ==
  /\ ~cancel
  /\ cancel' = TRUE
  /\ backend' = IF batched THEN "done" ELSE backend
  /\ UNCHANGED <<batched, vision, generated, finish, text, tokens, ids, results, phase>>

\* The caller closes the generator where it is suspended, at a result: nothing after
\* that result runs.  A sequential stream is dropped with it.
CallerCloses ==
  /\ phase \in {"reading", "leaving"}
  /\ results # <<>>
  /\ phase' = "closed"
  /\ backend' = IF batched THEN backend ELSE "done"
  /\ UNCHANGED results
  /\ StreamUnchanged

Loop ==
  \/ \E t \in Tokens : Read(t)
  \/ StreamExhausted \/ CancelSeen \/ Return
  \/ KitCancelled \/ KitFailed \/ ReporterStops \/ ReporterRaises

Next == Loop \/ Cancel \/ CallerCloses

Spec == Init /\ [][Next]_vars

-----------------------------------------------------------------------------
(* Properties.                                                             *)

ToldText == Joined([i \in DOMAIN results |-> results[i].text])
ToldTokens == Joined([i \in DOMAIN results |-> results[i].tokens])
Told(reason) == \E i \in DOMAIN results : results[i].stop = reason
AllText == Shown(generated, finish)
StopSet == {Stops[i] : i \in DOMAIN Stops}

(* The text the caller gets is the text of the model up to the earliest    *)
(* stop string, whatever tokens it was spread over and whatever was        *)
(* yielded before: no part of a stop string is shown, no text after it,    *)
(* and without one nothing is missing in between.                          *)
TextUpToStop ==
  LET told == ToldText
      all == AllText
      stop == Len(told) + 1
  IN /\ IsPrefix(told, all)
     /\ \A t \in StopSet : ~Occurs(t, told)
     /\ Told("stop_string") =>
          \/ /\ \E t \in StopSet : OccursAt(t, all, stop)
             /\ \A t \in StopSet : \A i \in 1..(stop - 1) : ~OccursAt(t, all, i)
          \/ finish = "stop" /\ told = all

(* Each token is handed out once, in order, with the result it belongs to; *)
(* the tokens of a stop string come with the last one.                     *)
TokensInOrder == ToldTokens \o (IF Told("stop_string") THEN <<>> ELSE tokens) = generated

(* Text waits only while it may still become a stop string or a character: *)
(* between two reads, if anything is held back then the end of what was    *)
(* generated is the start of a stop string or an incomplete character.     *)
HeldForAReason ==
  phase = "reading" /\ text # <<>> =>
    LET all == Decode(generated)
    IN IncompleteUtf8(all) \/ \E t \in StopSet : Overlap(all, t)

(* A result that gives a stop reason is the last one, but for a sequential *)
(* stream that was cancelled after it; a token limit is told after all     *)
(* text.                                                                   *)
OneStopReason ==
  \A i \in DOMAIN results :
    results[i].stop # None =>
      \/ i = Len(results)
      \/ ~batched /\ cancel /\ i = Len(results) - 1 /\ results[i + 1] = UserCancelled

\* The stop string processor still waits for more text.
HeldBack == ids # <<>>

(* A stream that ends without an exception has said why: eos, a stop       *)
(* string, a cancel, and the batched one the token limit, but when it      *)
(* ended while text was held back, by an eos token too whose own text ends *)
(* like a stop string begins.                                              *)
EndsExplained ==
  phase = "returned" =>
    \/ finish = "stop" /\ (HeldBack \/ Told("eos_token"))
    \/ finish = "length" /\ (HeldBack \/ ~batched \/ Told("token_limit"))
    \/ Told("stop_string") \/ Told("user_cancelled")

(* A stream that has ended leaves nothing running that nobody was told of, *)
(* in any of its ways to end, but two: the progress reporter of a text kit *)
(* ended it, or a batched one was closed before its last token.  There the *)
(* row goes on to its limit unless the caller itself calls                 *)
(* stop_generation().                                                      *)
NothingLeftRunning ==
  phase \notin {"reading", "leaving"} /\ backend = "running" =>
    /\ batched /\ ~cancel
    /\ IF phase = "closed" THEN finish = None ELSE ~vision /\ generated = <<>>

(* What the caller is shown: every token once and in order, text up to a   *)
(* stop string, and nothing held back without a reason.                    *)
ShownText ==
  /\ TextUpToStop
  /\ TokensInOrder
  /\ HeldForAReason

(* How a stream ends: with one reason, told when it was found.             *)
EndsOnce ==
  /\ OneStopReason
  /\ EndsExplained

=============================================================================
