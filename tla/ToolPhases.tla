------------------------------ MODULE ToolPhases ------------------------------
(***************************************************************************)
(* Native tool-call protocols, and where a text stands in one.             *)
(*                                                                         *)
(* A protocol has tokens, a marker (those that open a call), a grammar (an *)
(* automaton: start, next, final), the tokens that may begin and follow a  *)
(* call, those that end the aftermath of one, and the tokens that open and *)
(* close reasoning, if it has any.                                         *)
(***************************************************************************)
EXTENDS Naturals, SequencesExt

CONSTANTS Protocols, Prompts

ASSUME ProtocolAssumption ==
  /\ \A p \in Protocols :
      /\ p.marker \in Seq(p.tokens) /\ p.marker # <<>>
      /\ p.opener \in Seq(p.tokens) /\ Len(p.opener) <= 2
      /\ p.first \subseteq p.tokens /\ p.post \subseteq p.tokens /\ p.reset \subseteq p.post
      /\ \A q \in DOMAIN p.next : p.next[q] \in [DOMAIN p.next[q] -> DOMAIN p.next \cup p.final]
      /\ p.start \in DOMAIN p.next /\ p.start \notin p.final
      /\ \A q \in DOMAIN p.next : DOMAIN p.next[q] \subseteq p.tokens
      /\ p.first \subseteq DOMAIN p.next[p.start]
      /\ p.marker[Len(p.marker)] \notin p.reset
      /\ \A set \in {p.tokens, p.first, p.post} \cup {DOMAIN p.next[q] : q \in DOMAIN p.next} :
           set \ {p.marker[1]} # {}
  /\ <<>> \notin Prompts

\* Where the text stands: out of calls, in one at a grammar state, after one.
Talk == [at |-> "talk"]
Opened == [at |-> "opened"]
Call(q) == [at |-> "call", state |-> q]
After == [at |-> "after"]

\* The prompts in the tokens of p.
PromptsOf(p) == {text \in Prompts : text \in Seq(p.tokens)}

\* w stands in s, up to its i-th token.
StandsAt(w, s, i) == Len(w) <= i /\ SubSeq(s, i - Len(w) + 1, i) = w

EndsWith(s, suffix) == StandsAt(suffix, s, Len(s))

\* qwen35_reasoning_is_open, gemma4_reasoning_is_open: what opens reasoning
\* stands in s after the last token that closes it.
ReasoningIsOpen(p, s) ==
  /\ p.opener # <<>>
  /\ \E i \in DOMAIN s : StandsAt(p.opener, s, i) /\ \A j \in i..Len(s) : s[j] # p.close

\* The grammar state, in phase c.
GrammarAt(p, c) == IF c = Opened THEN p.start ELSE c.state

\* The phase once t is said in phase c, which makes the text s.
PhaseAfter(p, c, s, t) ==
  CASE c.at \in {"opened", "call"} ->
         LET q == p.next[GrammarAt(p, c)][t] IN IF q \in p.final THEN After ELSE Call(q)
    [] c = After /\ t \in p.reset -> Talk
    [] OTHER -> IF EndsWith(s, p.marker) THEN Opened ELSE c

Permitted(p, c, open) ==
  (CASE c = Talk -> p.tokens
     [] c = Opened -> p.first
     [] c = After -> p.post
     [] c.at = "call" -> DOMAIN p.next[c.state])
  \ (IF open THEN {p.marker[1]} ELSE {})

=============================================================================
