------------------------------ MODULE ToolGuard -------------------------------
(***************************************************************************)
(* NativeToolReasoningGuardLogitsProcessor, in the decode loop of a row.   *)
(*                                                                         *)
(* Decoding runs a token ahead: when the guard masks the next token, the   *)
(* last one is sampled and not yet in the row's history.  To keep it on    *)
(* the GPU the guard looks at its value only inside a call and after one;  *)
(* otherwise it masks by a condition on it, and learns from the history,   *)
(* one step later, that a call has begun.  ToolProtocol says what text     *)
(* may come of that.                                                       *)
(***************************************************************************)
EXTENDS ToolPhases

CONSTANTS NoToken,
          NoMatcher,
          MaxText        \* bound: the length of a text

ASSUME GuardAssumption ==
  /\ \A p \in Protocols : NoToken \notin p.tokens /\ NoMatcher \notin DOMAIN p.next
  /\ MaxText \in Nat

VARIABLES protocol,  \* the protocol of the model
          history,   \* the row's tokens
          last,      \* its next token: sampled, not yet emitted
          guard,     \* the processor
          allowed,   \* the tokens the last mask left
          ended      \* a stop token has been emitted

guardVars == <<protocol, history, last, guard, allowed, ended>>

(* reasoning_open comes from the prompt's text, which factories read.      *)
GuardInit ==
  /\ protocol \in Protocols
  /\ history \in PromptsOf(protocol)
  /\ last = NoToken
  /\ guard = [state |-> "normal", matcher |-> NoMatcher, count |-> 0,
              open |-> ReasoningIsOpen(protocol, history), previous |-> NoToken]
  /\ allowed = protocol.tokens
  /\ ended = FALSE

Without(set, g) == IF g.open THEN set \ {protocol.marker[1]} ELSE set

-----------------------------------------------------------------------------
\* A matcher is the state of the grammar's automaton.
StartMatcher(g) == [g EXCEPT !.state = "tool", !.matcher = protocol.start]

Reset(g) == [g EXCEPT !.state = "normal", !.matcher = NoMatcher]

\* _consume_tool_grammar_token
Consume(g, t) ==
  LET q == protocol.next[g.matcher][t]
  IN  IF q \in protocol.final THEN [g EXCEPT !.state = "post", !.matcher = NoMatcher]
      ELSE [g EXCEPT !.matcher = q]

\* _context_ends_with_tool_call_start
MarkerAt(context, i) == StandsAt(protocol.marker, context, i)

\* Variant with a fault: the marker's last token alone starts a call.
LastTokenStarts(context, t) == t = protocol.marker[Len(protocol.marker)]

\* _tool_call_start_condition
StartsCall(context, t) ==
  LET n == Len(protocol.marker)
  IN  /\ n - 1 <= Len(context)
      /\ SubSeq(context, Len(context) - n + 2, Len(context)) = SubSeq(protocol.marker, 1, n - 1)
      /\ t = protocol.marker[n]

\* The guard sees the i-th token of the context.
Seen(g, context, i) ==
  IF g.state = "tool" THEN Consume(g, context[i])
  ELSE IF g.state = "post" /\ context[i] \in protocol.reset THEN Reset(g)
  ELSE IF MarkerAt(context, i) THEN StartMatcher(g)
  ELSE g

\* The tokens materialized since the last call: GuardTypeOK says it is one at most.
CaughtUp(g, context) ==
  [(IF g.count < Len(context) THEN Seen(g, context, g.count + 1) ELSE g)
     EXCEPT !.count = Len(context)]

\* Variant with a fault: only a lone opening token is known.
OpensAtFirst(g, t) == t = protocol.opener[1]

OpensReasoning(g, t) ==
  IF Len(protocol.opener) = 1 THEN t = protocol.opener[1]
  ELSE g.previous = protocol.opener[1] /\ t = protocol.opener[2]

\* Variant with a fault: the token before is not kept.
TrackLoneTokens(g, t) ==
  IF protocol.opener = <<>> THEN g
  ELSE [g EXCEPT !.open = (@ \/ OpensReasoning(g, t)) /\ t # protocol.close]

TrackReasoning(g, t) ==
  IF protocol.opener = <<>> THEN g
  ELSE [g EXCEPT !.open = (@ \/ OpensReasoning(g, t)) /\ t # protocol.close,
                 !.previous = t]

\* Variant with a fault: a token consumed when sampled is not counted.
ConsumedUncounted(g, t) == IF g.state = "tool" THEN Consume(g, t) ELSE g

\* Only inside a call, and after one, is the sampled token looked at; inside,
\* the history must not feed it to the matcher again.
ConsumeSampled(g, t) ==
  IF g.state = "tool" THEN [Consume(g, t) EXCEPT !.count = @ + 1]
  ELSE IF g.state = "post" /\ t \in protocol.reset THEN Reset(g)
  ELSE g

\* Variant with a fault: the first token of a call is not restricted.
MaskWithoutBridge(before, g, context, t) ==
  IF before.state = "normal" THEN protocol.tokens
  ELSE IF g.state = "tool" THEN DOMAIN protocol.next[g.matcher] ELSE protocol.post

\* Variant with a fault: no restriction follows a call.
MaskFreeAfterCall(before, g, context, t) ==
  IF before.state = "tool" /\ g.state = "tool" THEN DOMAIN protocol.next[g.matcher]
  ELSE IF StartsCall(context, t) THEN protocol.first ELSE protocol.tokens

\* The tokens left once g, "before" in the state in which t came, has seen t.
Mask(before, g, context, t) ==
  CASE before.state = "normal" -> IF StartsCall(context, t) THEN protocol.first ELSE protocol.tokens
    [] before.state = "tool" -> IF g.state = "tool" THEN DOMAIN protocol.next[g.matcher]
                                ELSE protocol.post
    [] before.state = "post" /\ g.state = "normal" -> protocol.tokens
    [] OTHER -> IF StartsCall(context, t) THEN protocol.first ELSE protocol.post

-----------------------------------------------------------------------------
\* __call__, on the prompt.
Prefill ==
  /\ last = NoToken
  /\ guard' = [Reset(guard) EXCEPT !.count = Len(history), !.previous = history[Len(history)]]
  /\ allowed' = Without(protocol.tokens, guard')
  /\ last' \in allowed'
  /\ UNCHANGED <<protocol, history, ended>>

\* process_last_token_with_context, and the rest of the decode step: a token
\* is sampled and the last one emitted.
Decode ==
  /\ last # NoToken
  /\ ~ended
  /\ Len(history) < MaxText
  /\ LET before == TrackReasoning(CaughtUp(guard, history), last)
     IN  /\ guard' = ConsumeSampled(before, last)
         /\ allowed' = Without(Mask(before, guard', history, last), guard')
  /\ last' \in allowed'
  /\ history' = Append(history, last)
  /\ ended' = (last \in protocol.stop)
  /\ UNCHANGED protocol

GuardNext == Prefill \/ Decode

GuardSpec == GuardInit /\ [][GuardNext]_guardVars

-----------------------------------------------------------------------------
(* The text of the row, and where the guard takes it to stand: it has seen *)
(* all of the history, save for the beginning of a call at its end.        *)
Said == IF last = NoToken THEN history ELSE Append(history, last)

PhaseSeen ==
  IF guard.state = "tool" THEN Call(guard.matcher)
  ELSE IF guard.count < Len(history) /\ MarkerAt(history, Len(history)) THEN Opened
  ELSE IF guard.state = "normal" THEN Talk ELSE After

PhaseOf == IF last = NoToken THEN Talk
           ELSE PhaseAfter(protocol, PhaseSeen, Said, last)

Protocol == INSTANCE ToolProtocol WITH text <- Said, phase <- PhaseOf

(* Between two steps the guard has seen the history but for one token at   *)
(* most, and has a matcher exactly while it is in a call.                  *)
GuardTypeOK ==
  /\ history \in Seq(protocol.tokens) /\ last \in protocol.tokens \cup {NoToken}
  /\ guard.state \in {"normal", "tool", "post"}
  /\ guard.matcher # NoMatcher <=> guard.state = "tool"
  /\ guard.state = "tool" => guard.matcher \in DOMAIN protocol.next
  /\ last # NoToken => guard.count \in {Len(history) - 1, Len(history)}
  /\ guard.state = "tool" => guard.count = Len(history)

(* The guard implements the protocol: with a matcher that lags behind, and *)
(* a first token masked before the call it opens is known, the texts it    *)
(* lets a model say are those of ToolProtocol.                             *)
ImplementsProtocol == Protocol!ProtocolSpec

(* What is sampled after the beginning of a call, or in one, is what the   *)
(* grammar accepts: the matcher is never given a token it rejects, which   *)
(* would end decoding for all rows with an exception.  And whatever is     *)
(* said, a token is left to sample next.                                   *)
NeverStuck ==
  /\ last # NoToken /\ PhaseSeen.at \in {"opened", "call"} =>
       last \in DOMAIN protocol.next[GrammarAt(protocol, PhaseSeen)]
  /\ Permitted(protocol, PhaseOf, ReasoningIsOpen(protocol, Said)) # {}

(* What the mask takes away is what the protocol does not permit, and no   *)
(* more: a marker that is not complete, or that a call holds, restricts    *)
(* nothing, the aftermath of a call ends where the protocol says, and the  *)
(* flag that a step carries to the next says what the text does.           *)
NothingElseIsMasked ==
  last # NoToken =>
    allowed = Permitted(protocol, PhaseSeen, ReasoningIsOpen(protocol, history))

(* No call is begun between the tokens that open and those that close      *)
(* reasoning, be they of the prompt or sampled.                            *)
ReasoningIsNotCut ==
  last # NoToken /\ ReasoningIsOpen(protocol, history) => last # protocol.marker[1]

(* The guard keeps up with the text: its matcher is never given a token    *)
(* it rejects, plain text and reasoning are never masked.                  *)
GuardKeepsUp ==
  /\ GuardTypeOK
  /\ NeverStuck
  /\ NothingElseIsMasked
  /\ ReasoningIsNotCut

=============================================================================
