--------------------------- MODULE ChatServerProofs ----------------------------
(***************************************************************************)
(* Machine-checked theorems about what the server does around a            *)
(* generation.  About ToolGuard, for any protocols, prompts and grammars:  *)
(* the guard keeps up with the text, and what it lets a model say is what  *)
(* ToolProtocol permits.  About HttpServer, for any number of sessions,    *)
(* texts and signals: requests end well, and a cancel that comes before    *)
(* the kit knows of the request holds.                                     *)
(***************************************************************************)
EXTENDS HttpServer, ToolGuard, SequenceTheorems, FiniteSetTheorems, TLAPS

-----------------------------------------------------------------------------
(* The inductive invariant.                                                *)

GuardStates ==
  [state : {"normal", "tool", "post"}, matcher : DOMAIN protocol.next \cup {NoMatcher},
   count : Nat, open : BOOLEAN, previous : protocol.tokens \cup {NoToken}]

GuardTypes ==
  /\ protocol \in Protocols
  /\ history \in Seq(protocol.tokens) /\ history # <<>>
  /\ last \in protocol.tokens \cup {NoToken} /\ allowed \subseteq protocol.tokens
  /\ guard \in GuardStates
  /\ guard.matcher # NoMatcher <=> guard.state = "tool"

\* The guard has seen the history but for its last token, which was masked
\* for when it was sampled; that one is no reset, which would have been seen.
SeenFacts ==
  /\ guard.count \in {Len(history) - 1, Len(history)}
  /\ guard.state = "tool" => guard.count = Len(history)
  /\ guard.state = "post" /\ guard.count # Len(history) =>
       history[Len(history)] \notin protocol.reset
  /\ protocol.opener # <<>> => guard.previous = history[Len(history)]

GuardInv ==
  /\ GuardTypes
  /\ guard.open = ReasoningIsOpen(protocol, history)
  /\ IF last = NoToken
     THEN guard.state = "normal" /\ allowed = protocol.tokens
     ELSE /\ SeenFacts
          /\ allowed = Permitted(protocol, PhaseSeen, guard.open)
          /\ last \in allowed

-----------------------------------------------------------------------------
(* Where a sequence stands in another one.                                 *)

\* Token by token.
LEMMA StandsByToken ==
  ASSUME NEW T, NEW w \in Seq(T), NEW s \in Seq(T), NEW i \in 0..Len(s)
  PROVE  StandsAt(w, s, i) <=> Len(w) <= i /\ \A k \in 1..Len(w) : s[i - Len(w) + k] = w[k]
<1> SUFFICES ASSUME Len(w) <= i
             PROVE  SubSeq(s, i - Len(w) + 1, i) = w <=>
                      \A k \in 1..Len(w) : s[i - Len(w) + k] = w[k]
  BY DEF StandsAt
<1> DEFINE u == SubSeq(s, i - Len(w) + 1, i)
<1>1. Len(w) \in Nat /\ Len(s) \in Nat /\ i \in Nat /\ i <= Len(s)
  OBVIOUS
<1>2. \A k \in (i - Len(w) + 1)..i : s[k] \in T
  BY <1>1
<1>3. /\ u \in Seq(T) /\ Len(u) = Len(w)
      /\ \A k \in 1..Len(w) : u[k] = s[i - Len(w) + k]
  <2>1. i - (i - Len(w) + 1) + 1 = Len(w) /\ (i - Len(w) + 1 <= i <=> Len(w) # 0)
    BY <1>1
  <2>2. \A k \in 1..Len(w) : (i - Len(w) + 1) + k - 1 = i - Len(w) + k
    BY <1>1
  <2> QED BY <1>1, <1>2, <2>1, <2>2, SubSeqProperties
<1>4. (\A k \in 1..Len(w) : u[k] = w[k]) => u = w
  BY <1>3, SeqEqual
<1> QED BY <1>3, <1>4

\* A sequence with one item more, item by item.
LEMMA OneMoreToken ==
  ASSUME NEW T, NEW s \in Seq(T), NEW t \in T
  PROVE  \E u \in Seq(T) :
           /\ u = Append(s, t) /\ Len(u) = Len(s) + 1 /\ Len(s) \in Nat /\ u[Len(s) + 1] = t
           /\ \A k \in 1..Len(s) : u[k] = s[k]
<1>1. /\ Append(s, t) \in Seq(T) /\ Len(Append(s, t)) = Len(s) + 1
      /\ Len(s) \in Nat /\ Append(s, t)[Len(s) + 1] = t
      /\ \A k \in 1..Len(s) : Append(s, t)[k] = s[k]
  BY AppendProperties
<1> QED BY <1>1

\* What stands in a sequence stands there when it grows.
LEMMA StandsStill ==
  ASSUME NEW T, NEW w \in Seq(T), NEW s \in Seq(T), NEW t \in T, NEW i \in 1..Len(s)
  PROVE  StandsAt(w, Append(s, t), i) <=> StandsAt(w, s, i)
<1>1. PICK u \in Seq(T) :
        /\ u = Append(s, t) /\ Len(u) = Len(s) + 1 /\ Len(s) \in Nat /\ u[Len(s) + 1] = t
        /\ \A k \in 1..Len(s) : u[k] = s[k]
  BY OneMoreToken
<1>2. Len(w) <= i => \A k \in 1..Len(w) : i - Len(w) + k \in 1..Len(s)
  BY <1>1
<1>3. i \in 0..Len(s) /\ i \in 0..Len(u)
  BY <1>1
<1>4. StandsAt(w, s, i) <=> Len(w) <= i /\ \A k \in 1..Len(w) : s[i - Len(w) + k] = w[k]
  BY <1>3, StandsByToken
<1>5. StandsAt(w, u, i) <=> Len(w) <= i /\ \A k \in 1..Len(w) : u[i - Len(w) + k] = w[k]
  BY <1>3, StandsByToken
<1> QED BY <1>1, <1>2, <1>4, <1>5

\* What stands at the end of a sequence that grows: it all but its last token
\* at the end before, and the last token.
LEMMA EndsGrown ==
  ASSUME NEW T, NEW w \in Seq(T), w # <<>>, NEW s \in Seq(T), NEW t \in T
  PROVE  EndsWith(Append(s, t), w) <=>
           /\ Len(w) - 1 <= Len(s) /\ t = w[Len(w)]
           /\ \A k \in 1..(Len(w) - 1) : s[Len(s) - Len(w) + 1 + k] = w[k]
<1>1. PICK u \in Seq(T) :
        /\ u = Append(s, t) /\ Len(u) = Len(s) + 1 /\ Len(s) \in Nat /\ u[Len(s) + 1] = t
        /\ \A k \in 1..Len(s) : u[k] = s[k]
  BY OneMoreToken
<1>long. Len(w) \in Nat \ {0}
  BY EmptySeq
<1>2. EndsWith(u, w) <=>
        Len(w) <= Len(s) + 1 /\ \A k \in 1..Len(w) : u[Len(s) + 1 - Len(w) + k] = w[k]
  <2>1. Len(s) + 1 \in 0..Len(u)
    BY <1>1
  <2>2. StandsAt(w, u, Len(s) + 1) <=>
          Len(w) <= Len(s) + 1 /\ \A k \in 1..Len(w) : u[Len(s) + 1 - Len(w) + k] = w[k]
    BY <2>1, StandsByToken
  <2> QED BY <1>1, <2>2 DEF EndsWith
<1>3. Len(w) - 1 <= Len(s) <=> Len(w) <= Len(s) + 1
  BY <1>1, <1>long
<1>4. ASSUME Len(w) <= Len(s) + 1
      PROVE  (\A k \in 1..Len(w) : u[Len(s) + 1 - Len(w) + k] = w[k]) <=>
               /\ t = w[Len(w)]
               /\ \A k \in 1..(Len(w) - 1) : s[Len(s) - Len(w) + 1 + k] = w[k]
  <2>1. \A k \in 1..(Len(w) - 1) :
          /\ Len(s) + 1 - Len(w) + k = Len(s) - Len(w) + 1 + k
          /\ Len(s) - Len(w) + 1 + k \in 1..Len(s)
    BY <1>1, <1>4, <1>long
  <2>2. \A k \in 1..(Len(w) - 1) : u[Len(s) + 1 - Len(w) + k] = s[Len(s) - Len(w) + 1 + k]
    BY <1>1, <2>1
  <2>3. Len(s) + 1 - Len(w) + Len(w) = Len(s) + 1
    BY <1>1, <1>long
  <2>4. \A k \in 1..Len(w) : k \in 1..(Len(w) - 1) \/ k = Len(w)
    BY <1>long
  <2>5. Len(w) \in 1..Len(w) /\ \A k \in 1..(Len(w) - 1) : k \in 1..Len(w)
    BY <1>long
  <2> QED BY <1>1, <2>2, <2>3, <2>4, <2>5
<1> QED BY <1>1, <1>2, <1>3, <1>4

\* Reasoning is open in a text that grows.
LEMMA ReasoningGrows ==
  ASSUME NEW p \in Protocols, NEW s \in Seq(p.tokens), NEW t \in p.tokens
  PROVE  ReasoningIsOpen(p, Append(s, t)) <=>
           /\ p.opener # <<>> /\ t # p.close
           /\ ReasoningIsOpen(p, s) \/ EndsWith(Append(s, t), p.opener)
<1> SUFFICES ASSUME p.opener # <<>>
             PROVE  ReasoningIsOpen(p, Append(s, t)) <=>
                      /\ t # p.close
                      /\ ReasoningIsOpen(p, s) \/ EndsWith(Append(s, t), p.opener)
  BY DEF ReasoningIsOpen
<1>0. p.opener \in Seq(p.tokens)
  BY ProtocolAssumption
<1>1. PICK u \in Seq(p.tokens) :
        /\ u = Append(s, t) /\ Len(u) = Len(s) + 1 /\ Len(s) \in Nat /\ u[Len(s) + 1] = t
        /\ \A k \in 1..Len(s) : u[k] = s[k]
  BY OneMoreToken
<1>2. DOMAIN s = 1..Len(s) /\ DOMAIN u = 1..(Len(s) + 1)
  BY <1>1
<1>3. \A i \in 1..Len(s) : StandsAt(p.opener, u, i) <=> StandsAt(p.opener, s, i)
  BY <1>0, <1>1, StandsStill
<1>4. EndsWith(u, p.opener) <=> StandsAt(p.opener, u, Len(s) + 1)
  BY <1>1 DEF EndsWith
<1>5. \A i \in 1..Len(s) :
        (\A j \in i..(Len(s) + 1) : u[j] # p.close) <=>
          t # p.close /\ \A j \in i..Len(s) : s[j] # p.close
  <2> SUFFICES ASSUME NEW i \in 1..Len(s)
               PROVE  (\A j \in i..(Len(s) + 1) : u[j] # p.close) <=>
                        t # p.close /\ \A j \in i..Len(s) : s[j] # p.close
    OBVIOUS
  <2>1. \A j \in i..(Len(s) + 1) : j \in i..Len(s) \/ j = Len(s) + 1
    BY <1>1
  <2>2. Len(s) + 1 \in i..(Len(s) + 1)
    BY <1>1
  <2>3. \A j \in i..Len(s) : j \in i..(Len(s) + 1) /\ u[j] = s[j]
    BY <1>1
  <2> QED BY <1>1, <2>1, <2>2, <2>3
<1>6. (\A j \in (Len(s) + 1)..(Len(s) + 1) : u[j] # p.close) <=> t # p.close
  BY <1>1
<1>7. \A i \in 1..(Len(s) + 1) : i \in 1..Len(s) \/ i = Len(s) + 1
  BY <1>1
<1>8. Len(s) + 1 \in 1..(Len(s) + 1) /\ \A i \in 1..Len(s) : i \in 1..(Len(s) + 1)
  BY <1>1
<1>9. ReasoningIsOpen(p, u) <=>
        \E i \in 1..(Len(s) + 1) : StandsAt(p.opener, u, i) /\ \A j \in i..(Len(s) + 1) : u[j] # p.close
  BY <1>1, <1>2 DEF ReasoningIsOpen
<1>10. ReasoningIsOpen(p, s) <=>
        \E i \in 1..Len(s) : StandsAt(p.opener, s, i) /\ \A j \in i..Len(s) : s[j] # p.close
  BY <1>2 DEF ReasoningIsOpen
<1>11. ASSUME ReasoningIsOpen(p, u)
       PROVE  t # p.close /\ (ReasoningIsOpen(p, s) \/ EndsWith(u, p.opener))
  <2>1. PICK i \in 1..(Len(s) + 1) :
          StandsAt(p.opener, u, i) /\ \A j \in i..(Len(s) + 1) : u[j] # p.close
    BY <1>9, <1>11
  <2>2. CASE i \in 1..Len(s)
    BY <1>3, <1>5, <1>10, <2>1, <2>2
  <2>3. CASE i = Len(s) + 1
    BY <1>4, <1>6, <2>1, <2>3
  <2> QED BY <1>7, <2>2, <2>3
<1>12. ASSUME t # p.close, ReasoningIsOpen(p, s) PROVE ReasoningIsOpen(p, u)
  <2>1. PICK i \in 1..Len(s) : StandsAt(p.opener, s, i) /\ \A j \in i..Len(s) : s[j] # p.close
    BY <1>10, <1>12
  <2> QED BY <1>3, <1>5, <1>8, <1>9, <1>12, <2>1
<1>13. ASSUME t # p.close, EndsWith(u, p.opener) PROVE ReasoningIsOpen(p, u)
  BY <1>4, <1>6, <1>8, <1>9, <1>13
<1> QED BY <1>1, <1>11, <1>12, <1>13

-----------------------------------------------------------------------------
(* What the guard makes of the text's end.                                 *)

\* All of w but its last token, and that token.
LEMMA EndsInParts ==
  ASSUME NEW T, NEW w \in Seq(T), w # <<>>, NEW s \in Seq(T), NEW t \in T
  PROVE  EndsWith(Append(s, t), w) <=>
           /\ Len(w) - 1 <= Len(s)
           /\ SubSeq(s, Len(s) - Len(w) + 2, Len(s)) = SubSeq(w, 1, Len(w) - 1)
           /\ t = w[Len(w)]
<1>1. PICK n \in Nat \ {0} : n = Len(w)
  BY EmptySeq
<1>2. PICK m \in Nat : m = Len(s)
  OBVIOUS
<1>3. EndsWith(Append(s, t), w) <=>
        n - 1 <= m /\ t = w[n] /\ \A k \in 1..(n - 1) : s[m - n + 1 + k] = w[k]
  <2>1. EndsWith(Append(s, t), w) <=>
          /\ Len(w) - 1 <= Len(s) /\ t = w[Len(w)]
          /\ \A k \in 1..(Len(w) - 1) : s[Len(s) - Len(w) + 1 + k] = w[k]
    BY EndsGrown
  <2> QED BY <1>1, <1>2, <2>1
<1>4. ASSUME n - 1 <= m
      PROVE  SubSeq(s, m - n + 2, m) = SubSeq(w, 1, n - 1) <=>
               \A k \in 1..(n - 1) : s[m - n + 1 + k] = w[k]
  <2>1. PICK a : a = SubSeq(s, m - n + 2, m)
    OBVIOUS
  <2>2. PICK b : b = SubSeq(w, 1, n - 1)
    OBVIOUS
  <2>3. /\ m - n + 2 \in Int /\ m \in Int /\ n - 1 \in Int
        /\ \A i \in (m - n + 2)..m : s[i] \in T
        /\ \A i \in 1..(n - 1) : w[i] \in T
    BY <1>1, <1>2, <1>4
  <2>4. /\ m - (m - n + 2) + 1 = n - 1 /\ (n - 1) - 1 + 1 = n - 1
        /\ m - n + 2 <= m <=> n - 1 # 0
        /\ 1 <= n - 1 <=> n - 1 # 0
        /\ \A k \in 1..(n - 1) : (m - n + 2) + k - 1 = m - n + 1 + k /\ 1 + k - 1 = k
    OBVIOUS
  <2>5. /\ a \in Seq(T) /\ Len(a) = n - 1
        /\ \A k \in 1..(n - 1) : a[k] = s[m - n + 1 + k]
    BY <2>1, <2>3, <2>4, SubSeqProperties
  <2>6. b \in Seq(T) /\ Len(b) = n - 1 /\ \A k \in 1..(n - 1) : b[k] = w[k]
    BY <2>2, <2>3, <2>4, SubSeqProperties
  <2>7. a = b <=> \A k \in 1..(n - 1) : a[k] = b[k]
    BY <2>5, <2>6, SeqEqual
  <2> QED BY <2>1, <2>2, <2>5, <2>6, <2>7
<1> QED BY <1>1, <1>2, <1>3, <1>4

\* A sequence of one token, or two.
LEMMA ShortEnds ==
  ASSUME NEW T, NEW w \in Seq(T), NEW s \in Seq(T), s # <<>>, NEW t \in T
  PROVE  /\ Len(w) = 1 => (EndsWith(Append(s, t), w) <=> t = w[1])
         /\ Len(w) = 2 => (EndsWith(Append(s, t), w) <=> s[Len(s)] = w[1] /\ t = w[2])
<1>1. PICK m \in Nat \ {0} : m = Len(s)
  BY EmptySeq
<1>0. Len(w) # 0 => w # <<>>
  BY EmptySeq
<1>2. CASE Len(w) = 1
  <2>1. EndsWith(Append(s, t), w) <=>
          1 - 1 <= m /\ t = w[1] /\ \A k \in 1..(1 - 1) : s[m - 1 + 1 + k] = w[k]
    BY <1>0, <1>1, <1>2, EndsGrown
  <2> QED BY <1>2, <2>1
<1>3. CASE Len(w) = 2
  <2>0. w # <<>>
    BY <1>0, <1>3
  <2>grown. EndsWith(Append(s, t), w) <=>
          /\ Len(w) - 1 <= Len(s) /\ t = w[Len(w)]
          /\ \A k \in 1..(Len(w) - 1) : s[Len(s) - Len(w) + 1 + k] = w[k]
    BY <2>0, EndsGrown
  <2>1. EndsWith(Append(s, t), w) <=>
          /\ Len(w) - 1 <= m /\ t = w[Len(w)]
          /\ \A k \in 1..(Len(w) - 1) : s[m - Len(w) + 1 + k] = w[k]
    BY <1>1, <2>grown
  <2>2. 1..(Len(w) - 1) = {1} /\ m - Len(w) + 1 + 1 = m /\ Len(w) - 1 <= m
    BY <1>3
  <2> QED BY <1>1, <1>3, <2>1, <2>2
<1> QED BY <1>2, <1>3

\* The guard's condition, on a token not yet in the history, is the marker.
LEMMA StartsCallIsMarker ==
  ASSUME protocol \in Protocols, NEW s \in Seq(protocol.tokens), NEW t \in protocol.tokens
  PROVE  StartsCall(s, t) <=> EndsWith(Append(s, t), protocol.marker)
<1>1. protocol.marker \in Seq(protocol.tokens) /\ protocol.marker # <<>>
  BY ProtocolAssumption
<1> QED BY <1>1, EndsInParts DEF StartsCall

\* A guard that remembers the last token sees the opener of a call exactly when the text ends with it.
LEMMA OpensIsOpener ==
  ASSUME protocol \in Protocols, protocol.opener # <<>>,
         NEW s \in Seq(protocol.tokens), s # <<>>, NEW t \in protocol.tokens,
         NEW g, g.previous = s[Len(s)]
  PROVE  OpensReasoning(g, t) <=> EndsWith(Append(s, t), protocol.opener)
<1>1. protocol.opener \in Seq(protocol.tokens) /\ Len(protocol.opener) <= 2
  BY ProtocolAssumption
<1>2. Len(protocol.opener) \in {1, 2}
  <2>1. Len(protocol.opener) # 0 /\ Len(protocol.opener) \in Nat
    BY <1>1, EmptySeq
  <2>2. PICK n \in Nat : n = Len(protocol.opener)
    BY <2>1
  <2>3. n # 0 /\ n <= 2
    BY <1>1, <2>1, <2>2
  <2>4. n = 1 \/ n = 2
    BY <2>3
  <2> QED BY <2>2, <2>4
<1> QED BY <1>1, <1>2, ShortEnds DEF OpensReasoning

\* A reset does not end a marker.
LEMMA ResetIsNoMarker ==
  ASSUME protocol \in Protocols, NEW s \in Seq(protocol.tokens), NEW t \in protocol.reset
  PROVE  ~EndsWith(Append(s, t), protocol.marker)
<1>1. /\ protocol.marker \in Seq(protocol.tokens) /\ protocol.marker # <<>>
      /\ t \in protocol.tokens /\ t # protocol.marker[Len(protocol.marker)]
  BY ProtocolAssumption
<1> QED BY <1>1, EndsGrown


\* The phases of a text differ from each other, and which grammar state each stands for.
LEMMA PhasesDiffer ==
  /\ Talk.at = "talk" /\ Opened.at = "opened" /\ After.at = "after"
  /\ Talk # Opened /\ Talk # After /\ Opened # After
  /\ \A q : /\ Call(q).at = "call" /\ Call(q).state = q
            /\ Call(q) # Talk /\ Call(q) # Opened /\ Call(q) # After
            /\ \A p : GrammarAt(p, Call(q)) = q
  /\ \A p : GrammarAt(p, Opened) = p.start
<1>1. Talk.at = "talk" /\ Opened.at = "opened" /\ After.at = "after"
  BY DEF Talk, Opened, After
<1>2. \A q : Call(q).at = "call" /\ Call(q).state = q
  BY DEF Call
<1>3. /\ Talk # Opened /\ Talk # After /\ Opened # After
      /\ \A q : Call(q) # Talk /\ Call(q) # Opened /\ Call(q) # After
  BY <1>1, <1>2
<1> QED BY <1>1, <1>2, <1>3 DEF GrammarAt

\* g, which has seen all of the history, stands where the phase says.
StandsIn(g, phase) ==
  \/ g.state = "normal" /\ g.matcher = NoMatcher /\ phase = Talk
  \/ g.state = "post" /\ g.matcher = NoMatcher /\ phase = After
  \/ g.state = "tool" /\ g.matcher = protocol.start /\ phase = Opened
  \/ g.state = "tool" /\ g.matcher \in DOMAIN protocol.next /\ phase = Call(g.matcher)

\* A guard that reads the tokens it has not read yet stands where the text stands.
LEMMA CatchesUp ==
  ASSUME GuardTypes, SeenFacts, NEW c, c = CaughtUp(guard, history)
  PROVE  /\ c \in GuardStates
         /\ c.count = Len(history) /\ c.open = guard.open /\ c.previous = guard.previous
         /\ StandsIn(c, PhaseSeen)
<1>1. Len(history) \in Nat /\ guard.count \in Nat /\ protocol.start \in DOMAIN protocol.next
  BY ProtocolAssumption DEF GuardTypes, GuardStates
<1>2. CASE guard.count = Len(history)
  <2>1. ~(guard.count < Len(history)) /\ c = [guard EXCEPT !.count = Len(history)]
    BY <1>1, <1>2 DEF CaughtUp
  <2> QED BY <1>1, <1>2, <2>1 DEF GuardTypes, GuardStates, StandsIn, PhaseSeen
<1>3. CASE guard.count = Len(history) - 1
  <2>1. guard.count < Len(history) /\ guard.count + 1 = Len(history) /\ guard.state # "tool"
    BY <1>1, <1>3 DEF SeenFacts
  <2>2. guard.state = "post" => history[Len(history)] \notin protocol.reset
    BY <1>1, <1>3 DEF SeenFacts
  <2>3. c = [(IF MarkerAt(history, Len(history)) THEN StartMatcher(guard) ELSE guard)
               EXCEPT !.count = Len(history)]
    BY <2>1, <2>2 DEF CaughtUp, Seen
  <2> QED BY <1>1, <2>1, <2>3 DEF GuardTypes, GuardStates, StandsIn, PhaseSeen, StartMatcher
<1> QED BY <1>2, <1>3 DEF SeenFacts

\* The reasoning flag says what the text does, with one more token.
LEMMA TracksReasoning ==
  ASSUME protocol \in Protocols, NEW s \in Seq(protocol.tokens), s # <<>>, NEW t \in protocol.tokens,
         NEW c \in GuardStates, c.open = ReasoningIsOpen(protocol, s),
         protocol.opener # <<>> => c.previous = s[Len(s)],
         NEW b, b = TrackReasoning(c, t)
  PROVE  /\ b \in GuardStates
         /\ b.state = c.state /\ b.matcher = c.matcher /\ b.count = c.count
         /\ b.open = ReasoningIsOpen(protocol, Append(s, t))
         /\ protocol.opener # <<>> => b.previous = t
<1>1. CASE protocol.opener = <<>>
  <2>1. ReasoningIsOpen(protocol, s) = FALSE /\ ReasoningIsOpen(protocol, Append(s, t)) = FALSE
    BY <1>1 DEF ReasoningIsOpen
  <2>2. b = c
    BY <1>1 DEF TrackReasoning
  <2> QED BY <1>1, <2>1, <2>2
<1>2. CASE protocol.opener # <<>>
  <2>1. PICK o \in BOOLEAN : /\ o = ((c.open \/ OpensReasoning(c, t)) /\ t # protocol.close)
                            /\ b = [c EXCEPT !.open = o, !.previous = t]
    BY <1>2 DEF TrackReasoning
  <2>2. OpensReasoning(c, t) <=> EndsWith(Append(s, t), protocol.opener)
    BY <1>2, OpensIsOpener
  <2>3. ReasoningIsOpen(protocol, Append(s, t)) <=>
          t # protocol.close /\ (ReasoningIsOpen(protocol, s) \/ EndsWith(Append(s, t), protocol.opener))
    BY <1>2, ReasoningGrows
  <2>4. ReasoningIsOpen(protocol, Append(s, t)) \in BOOLEAN
    BY DEF ReasoningIsOpen
  <2>5. o = ReasoningIsOpen(protocol, Append(s, t))
    BY <2>1, <2>2, <2>3, <2>4
  <2>6. /\ b \in GuardStates /\ b.open = o /\ b.previous = t
        /\ b.state = c.state /\ b.matcher = c.matcher /\ b.count = c.count
    BY <2>1 DEF GuardStates
  <2> QED BY <2>5, <2>6
<1> QED BY <1>1, <1>2

\* What the grammar, at the start or in a call, is given is what it accepts.
LEMMA GrammarAccepts ==
  ASSUME GuardInv, last # NoToken, PhaseSeen.at \in {"opened", "call"}
  PROVE  /\ last \in DOMAIN protocol.next[GrammarAt(protocol, PhaseSeen)]
         /\ GrammarAt(protocol, PhaseSeen) \in DOMAIN protocol.next
<1>1. /\ protocol \in Protocols /\ GuardTypes
      /\ last \in Permitted(protocol, PhaseSeen, guard.open)
  BY DEF GuardInv, GuardTypes
<1>2. PhaseSeen = Opened \/ \E q \in DOMAIN protocol.next : PhaseSeen = Call(q)
  BY <1>1, PhasesDiffer DEF PhaseSeen, GuardTypes, GuardStates
<1>3. CASE PhaseSeen = Opened
  <2>1. last \in protocol.first
    BY <1>1, <1>3, PhasesDiffer DEF Permitted
  <2> QED BY <1>1, <1>3, <2>1, PhasesDiffer, ProtocolAssumption
<1>4. ASSUME NEW q \in DOMAIN protocol.next, PhaseSeen = Call(q)
      PROVE  last \in DOMAIN protocol.next[q] /\ GrammarAt(protocol, PhaseSeen) = q
  BY <1>1, <1>4, PhasesDiffer DEF Permitted
<1> QED BY <1>2, <1>3, <1>4


-----------------------------------------------------------------------------
(* A decode step.                                                          *)

\* After a decode step the guard stands where the text stands, and the token was allowed.
LEMMA DecodeFollows ==
  ASSUME GuardInv, Decode
  PROVE  /\ GuardTypes' /\ SeenFacts'
         /\ guard'.open = ReasoningIsOpen(protocol, history)'
         /\ PhaseSeen' = PhaseOf
         /\ allowed' = Permitted(protocol, PhaseSeen, guard.open)'
         /\ last' \in allowed'
<1> USE DEF Decode
<1>0. /\ GuardTypes /\ SeenFacts /\ last # NoToken /\ protocol \in Protocols
      /\ guard.open = ReasoningIsOpen(protocol, history)
      /\ history \in Seq(protocol.tokens) /\ history # <<>> /\ last \in protocol.tokens
  BY DEF GuardInv, GuardTypes
<1>types. /\ protocol.start \in DOMAIN protocol.next
      /\ \A q \in DOMAIN protocol.next :
           /\ DOMAIN protocol.next[q] \subseteq protocol.tokens
           /\ \A t \in DOMAIN protocol.next[q] :
                protocol.next[q][t] \in DOMAIN protocol.next \cup protocol.final
      /\ NoMatcher \notin DOMAIN protocol.next /\ NoToken \notin protocol.tokens
      /\ protocol.first \subseteq protocol.tokens /\ protocol.post \subseteq protocol.tokens
  BY <1>0, ProtocolAssumption, GuardAssumption
<1>1. PICK c : c = CaughtUp(guard, history)
  OBVIOUS
<1>2. PICK b : b = TrackReasoning(c, last)
  OBVIOUS
<1>3. PICK said \in Seq(protocol.tokens) :
        /\ said = Append(history, last) /\ Len(said) = Len(history) + 1
        /\ Len(history) \in Nat /\ said[Len(history) + 1] = last
  BY <1>0, OneMoreToken
<1>4. /\ history' = said /\ Said = said /\ protocol' = protocol
      /\ guard' = ConsumeSampled(b, last)
      /\ allowed' = Without(Mask(b, guard', history, last), guard')
      /\ last' \in allowed'
  BY <1>0, <1>1, <1>2, <1>3 DEF Said
<1>5. /\ c \in GuardStates /\ c.count = Len(history) /\ c.open = ReasoningIsOpen(protocol, history)
      /\ c.previous = guard.previous /\ StandsIn(c, PhaseSeen)
  BY <1>0, <1>1, CatchesUp
<1>6. /\ b \in GuardStates /\ b.count = Len(history) /\ b.open = ReasoningIsOpen(protocol, said)
      /\ protocol.opener # <<>> => b.previous = last
      /\ StandsIn(b, PhaseSeen)
  <2>1. protocol.opener # <<>> => c.previous = history[Len(history)]
    BY <1>0, <1>5 DEF SeenFacts
  <2>2. /\ b \in GuardStates
        /\ b.state = c.state /\ b.matcher = c.matcher /\ b.count = c.count
        /\ b.open = ReasoningIsOpen(protocol, said)
        /\ protocol.opener # <<>> => b.previous = last
    BY <1>0, <1>2, <1>3, <1>5, <2>1, TracksReasoning
  <2> QED BY <1>5, <2>2 DEF StandsIn
\* The marker ends the text with the sampled token, or the history in the next step.
<1>7. /\ StartsCall(history, last) <=> EndsWith(said, protocol.marker)
      /\ MarkerAt(history, Len(history))' <=> EndsWith(said, protocol.marker)
      /\ last \in protocol.reset => ~EndsWith(said, protocol.marker)
  <2>1. MarkerAt(history, Len(history))' <=> EndsWith(said, protocol.marker)
    BY <1>4 DEF MarkerAt, EndsWith
  <2> QED BY <1>0, <1>3, <2>1, StartsCallIsMarker, ResetIsNoMarker
<1>8. PhaseOf = PhaseAfter(protocol, PhaseSeen, said, last)
  BY <1>0, <1>4 DEF PhaseOf
<1>9. said # <<>> /\ DOMAIN said = 1..(Len(history) + 1) /\ history'[Len(history')] = last
  BY <1>3, <1>4
<1>10. protocol.opener # <<>> => guard'.previous = history'[Len(history')]
  BY <1>4, <1>6, <1>9 DEF ConsumeSampled, Consume, Reset, GuardStates
<1>11. ReasoningIsOpen(protocol, history)' = ReasoningIsOpen(protocol, said)
  BY <1>4
\* The guard's state and what it leaves, by where the text stood.
<1>12. CASE PhaseSeen = Talk
  <2>1. b.state = "normal" /\ b.matcher = NoMatcher /\ guard' = b
    BY <1>4, <1>6, <1>12, PhasesDiffer DEF StandsIn, ConsumeSampled
  <2>2. PhaseOf = IF EndsWith(said, protocol.marker) THEN Opened ELSE Talk
    BY <1>8, <1>12, PhasesDiffer DEF PhaseAfter
  <2>3. PhaseSeen' = PhaseOf
    BY <1>3, <1>4, <1>6, <1>7, <2>1, <2>2 DEF PhaseSeen
  <2>4. allowed' = Permitted(protocol, PhaseSeen, guard.open)'
    <3>1. Mask(b, guard', history, last) =
            IF EndsWith(said, protocol.marker) THEN protocol.first ELSE protocol.tokens
      BY <1>7, <2>1 DEF Mask
    <3> QED BY <1>4, <2>2, <2>3, <3>1, PhasesDiffer DEF Permitted, Without
  <2>5. GuardTypes'
    <3>1. allowed' \subseteq protocol.tokens
      BY <1>types, <1>4, <1>7, <2>1 DEF Mask, Without
    <3> QED BY <1>0, <1>4, <1>6, <1>9, <2>1, <3>1 DEF GuardTypes, GuardStates
  <2>6. SeenFacts'
    BY <1>3, <1>4, <1>6, <1>10, <2>1 DEF SeenFacts
  <2> QED BY <1>4, <1>6, <1>11, <2>1, <2>3, <2>4, <2>5, <2>6
<1>13. CASE PhaseSeen = After /\ last \in protocol.reset
  <2>1. b.state = "post" /\ b.matcher = NoMatcher /\ guard' = [b EXCEPT !.state = "normal", !.matcher = NoMatcher]
    BY <1>4, <1>6, <1>13, PhasesDiffer DEF StandsIn, ConsumeSampled, Reset
  <2>after.
        /\ guard'.state = "normal" /\ guard'.matcher = NoMatcher /\ guard' \in GuardStates
        /\ guard'.count = b.count /\ guard'.open = b.open
    BY <1>6, <2>1 DEF GuardStates
  <2>2. PhaseOf = Talk
    BY <1>8, <1>13, PhasesDiffer DEF PhaseAfter
  <2>3. PhaseSeen' = PhaseOf
    BY <1>3, <1>4, <1>6, <1>7, <1>13, <2>after, <2>2 DEF PhaseSeen
  <2>4. allowed' = Permitted(protocol, PhaseSeen, guard.open)'
    <3>1. Mask(b, guard', history, last) = protocol.tokens
      BY <2>1, <2>after DEF Mask
    <3> QED BY <1>4, <2>2, <2>3, <3>1, PhasesDiffer DEF Permitted, Without
  <2>5. GuardTypes'
    <3>1. allowed' \subseteq protocol.tokens
      BY <1>4, <2>1, <2>after DEF Mask, Without
    <3> QED BY <1>0, <1>4, <1>9, <2>after, <3>1 DEF GuardTypes, GuardStates
  <2>6. SeenFacts'
    BY <1>3, <1>4, <1>6, <1>10, <2>after DEF SeenFacts
  <2> QED BY <1>4, <1>6, <1>11, <2>after, <2>3, <2>4, <2>5, <2>6
<1>14. CASE PhaseSeen = After /\ last \notin protocol.reset
  <2>1. b.state = "post" /\ b.matcher = NoMatcher /\ guard' = b
    BY <1>4, <1>6, <1>14, PhasesDiffer DEF StandsIn, ConsumeSampled
  <2>2. PhaseOf = IF EndsWith(said, protocol.marker) THEN Opened ELSE After
    BY <1>8, <1>14, PhasesDiffer DEF PhaseAfter
  <2>3. PhaseSeen' = PhaseOf
    BY <1>3, <1>4, <1>6, <1>7, <2>1, <2>2 DEF PhaseSeen
  <2>4. allowed' = Permitted(protocol, PhaseSeen, guard.open)'
    <3>1. Mask(b, guard', history, last) =
            IF EndsWith(said, protocol.marker) THEN protocol.first ELSE protocol.post
      BY <1>7, <2>1 DEF Mask
    <3> QED BY <1>4, <2>2, <2>3, <3>1, PhasesDiffer DEF Permitted, Without
  <2>5. GuardTypes'
    <3>1. allowed' \subseteq protocol.tokens
      BY <1>types, <1>4, <1>7, <2>1 DEF Mask, Without
    <3> QED BY <1>0, <1>4, <1>6, <1>9, <2>1, <3>1 DEF GuardTypes, GuardStates
  <2>6. SeenFacts'
    BY <1>3, <1>4, <1>6, <1>9, <1>10, <1>14, <2>1 DEF SeenFacts
  <2> QED BY <1>4, <1>6, <1>11, <2>1, <2>3, <2>4, <2>5, <2>6
<1>15. CASE PhaseSeen = Opened \/ \E q \in DOMAIN protocol.next : PhaseSeen = Call(q)
  <2>1. PICK m \in DOMAIN protocol.next :
          m = GrammarAt(protocol, PhaseSeen) /\ last \in DOMAIN protocol.next[m]
          /\ b.state = "tool" /\ b.matcher = m
          /\ PhaseSeen.at \in {"opened", "call"} /\ PhaseSeen # After
    <3>1. PhaseSeen.at \in {"opened", "call"} /\ PhaseSeen # After
      BY <1>15, PhasesDiffer
    <3>2. b.state = "tool" /\ b.matcher = GrammarAt(protocol, PhaseSeen)
      BY <1>6, <3>1, PhasesDiffer DEF StandsIn
    <3> QED BY <1>0, <3>1, <3>2, GrammarAccepts
  <2>2. PICK q : q = protocol.next[m][last]
    OBVIOUS
  <2>3. PhaseOf = IF q \in protocol.final THEN After ELSE Call(q)
    <3>1. PhaseAfter(protocol, PhaseSeen, said, last) =
            IF protocol.next[GrammarAt(protocol, PhaseSeen)][last] \in protocol.final THEN After
            ELSE Call(protocol.next[GrammarAt(protocol, PhaseSeen)][last])
      BY <2>1 DEF PhaseAfter
    <3> QED BY <1>8, <2>1, <2>2, <3>1
  <2>4. PICK x : x = Consume(b, last)
    OBVIOUS
  <2>consumed.
        /\ x \in GuardStates /\ x.count = Len(history) /\ x.open = b.open
        /\ q \in protocol.final => x.state = "post" /\ x.matcher = NoMatcher
        /\ q \notin protocol.final => x.state = "tool" /\ x.matcher = q /\ q \in DOMAIN protocol.next
    <3>1. CASE q \in protocol.final
      <4>1. x = [b EXCEPT !.state = "post", !.matcher = NoMatcher]
        BY <2>1, <2>2, <2>4, <3>1 DEF Consume
      <4> QED BY <1>6, <3>1, <4>1 DEF GuardStates
    <3>2. CASE q \notin protocol.final
      <4>1. x = [b EXCEPT !.matcher = q] /\ q \in DOMAIN protocol.next
        BY <1>types, <2>1, <2>2, <2>4, <3>2 DEF Consume
      <4> QED BY <1>6, <2>1, <3>2, <4>1 DEF GuardStates
    <3> QED BY <3>1, <3>2
  <2>after.
        /\ guard' \in GuardStates /\ guard'.count = Len(history) + 1 /\ guard'.open = b.open
        /\ q \in protocol.final => guard'.state = "post" /\ guard'.matcher = NoMatcher
        /\ q \notin protocol.final =>
             guard'.state = "tool" /\ guard'.matcher = q /\ q \in DOMAIN protocol.next
    <3>1. guard' = [x EXCEPT !.count = x.count + 1]
      BY <1>4, <2>1, <2>4 DEF ConsumeSampled
    <3>2. PICK n \in Nat : n = x.count + 1 /\ n = Len(history) + 1
      BY <1>3, <2>consumed
    <3>3. guard' = [x EXCEPT !.count = n]
      BY <3>1, <3>2
    <3> QED BY <2>consumed, <3>2, <3>3 DEF GuardStates
  <2>5. PhaseSeen' = PhaseOf
    BY <1>3, <1>4, <2>after, <2>3 DEF PhaseSeen
  <2>6. Mask(b, guard', history, last) =
          IF q \in protocol.final THEN protocol.post ELSE DOMAIN protocol.next[q]
    BY <2>1, <2>after DEF Mask
  <2>7. allowed' = Permitted(protocol, PhaseSeen, guard.open)'
    BY <1>4, <2>3, <2>5, <2>6, PhasesDiffer DEF Permitted, Without
  <2>8. GuardTypes'
    <3>1. allowed' \subseteq protocol.tokens
      BY <1>types, <1>4, <2>6, <2>after DEF Without
    <3> QED BY <1>types, <1>0, <1>4, <1>9, <2>after, <3>1 DEF GuardTypes, GuardStates
  <2>9. SeenFacts'
    BY <1>3, <1>4, <1>10, <2>after DEF SeenFacts
  <2> QED BY <1>4, <1>6, <1>11, <2>after, <2>5, <2>7, <2>8, <2>9
<1> QED BY <1>6, <1>12, <1>13, <1>14, <1>15 DEF StandsIn

-----------------------------------------------------------------------------
(* The theorems.                                                           *)

\* The guard's invariant holds initially.
LEMMA GuardInitially == GuardInit => GuardInv
<1> SUFFICES ASSUME GuardInit PROVE GuardInv
  OBVIOUS
<1> USE DEF GuardInit
<1>1. history \in Seq(protocol.tokens) /\ history # <<>>
  BY ProtocolAssumption DEF PromptsOf
<1>2. guard.open \in BOOLEAN /\ guard.open = ReasoningIsOpen(protocol, history)
  BY DEF ReasoningIsOpen
<1>3. GuardTypes
  BY <1>1, <1>2, GuardAssumption DEF GuardTypes, GuardStates
<1> QED BY <1>2, <1>3 DEF GuardInv

\* After a prefill the guard stands at the start of the talk, and the first token was allowed.
LEMMA PrefillFollows ==
  ASSUME GuardInv, Prefill
  PROVE  /\ GuardTypes' /\ SeenFacts'
         /\ guard'.open = ReasoningIsOpen(protocol, history)'
         /\ PhaseSeen' = Talk /\ guard'.open = guard.open
         /\ allowed' = Permitted(protocol, PhaseSeen, guard.open)'
         /\ last' \in allowed'
<1> USE DEF Prefill
<1>0. /\ GuardTypes /\ protocol \in Protocols /\ guard.state = "normal"
      /\ guard.open = ReasoningIsOpen(protocol, history)
      /\ history \in Seq(protocol.tokens) /\ history # <<>>
  BY DEF GuardInv, GuardTypes
<1>1. Len(history) \in Nat \ {0} /\ history[Len(history)] \in protocol.tokens
  BY <1>0, EmptySeq
<1>2. /\ guard' \in GuardStates /\ guard'.state = "normal" /\ guard'.matcher = NoMatcher
      /\ guard'.count = Len(history) /\ guard'.open = guard.open
      /\ guard'.previous = history[Len(history)]
  BY <1>0, <1>1 DEF GuardTypes, GuardStates, Reset
<1>3. PhaseSeen' = Talk
  BY <1>1, <1>2 DEF PhaseSeen
<1>4. allowed' = Permitted(protocol, PhaseSeen, guard.open)'
  BY <1>3, PhasesDiffer DEF Permitted, Without
<1>5. GuardTypes'
  BY <1>0, <1>2 DEF GuardTypes, GuardStates, Without
<1>6. SeenFacts'
  BY <1>1, <1>2 DEF SeenFacts
<1> QED BY <1>0, <1>2, <1>3, <1>4, <1>5, <1>6

\* Every step keeps the guard's invariant.
LEMMA GuardSteps == GuardInv /\ [GuardNext]_guardVars => GuardInv'
<1> SUFFICES ASSUME GuardInv, [GuardNext]_guardVars PROVE GuardInv'
  OBVIOUS
<1>1. CASE Prefill
  <2>1. last' # NoToken
    BY <1>1, PrefillFollows, GuardAssumption DEF GuardInv, GuardTypes, Prefill, Without
  <2> QED BY <1>1, <2>1, PrefillFollows DEF GuardInv
<1>2. CASE Decode
  <2>1. last' # NoToken
    <3>1. protocol' = protocol /\ last' \in protocol.tokens /\ protocol \in Protocols
      BY <1>2, DecodeFollows DEF GuardTypes, Decode, GuardInv
    <3> QED BY <3>1, GuardAssumption
  <2> QED BY <1>2, <2>1, DecodeFollows DEF GuardInv
<1>3. CASE UNCHANGED guardVars
  BY <1>3 DEF guardVars, GuardInv, GuardTypes, GuardStates, SeenFacts, PhaseSeen, MarkerAt
<1> QED BY <1>1, <1>2, <1>3 DEF GuardNext

\* The guard's invariant holds in every reachable state.
LEMMA GuardInvariant == GuardSpec => []GuardInv
BY GuardInitially, GuardSteps, PTL DEF GuardSpec

\* Wherever the text stands, the protocol permits some token.
LEMMA SomePermitted ==
  ASSUME NEW p \in Protocols, NEW open,
         NEW phase \in {Talk, Opened, After} \cup {Call(q) : q \in DOMAIN p.next}
  PROVE  Permitted(p, phase, open) # {}
<1>1. PICK set \in {p.tokens, p.first, p.post} \cup {DOMAIN p.next[q] : q \in DOMAIN p.next} :
        Permitted(p, phase, open) = set \ (IF open THEN {p.marker[1]} ELSE {})
  <2>1. CASE phase \in {Talk, Opened, After}
    BY <2>1, PhasesDiffer DEF Permitted
  <2>2. CASE \E q \in DOMAIN p.next : phase = Call(q)
    <3>1. PICK q \in DOMAIN p.next : phase = Call(q)
      BY <2>2
    <3>2. Permitted(p, phase, open) = DOMAIN p.next[q] \ (IF open THEN {p.marker[1]} ELSE {})
      BY <3>1, PhasesDiffer DEF Permitted
    <3> QED BY <3>2
  <2> QED BY <2>1, <2>2
<1>2. set \ {p.marker[1]} # {}
  BY ProtocolAssumption
<1> QED BY <1>1, <1>2

\* The phase of the text is one of the protocol's.
LEMMA PhaseInProtocol ==
  ASSUME GuardInv
  PROVE  PhaseOf \in {Talk, Opened, After} \cup {Call(q) : q \in DOMAIN protocol.next}
<1>1. CASE last = NoToken
  BY <1>1 DEF PhaseOf
<1>2. CASE last # NoToken
  <2>1. protocol \in Protocols
    BY DEF GuardInv, GuardTypes
  <2>2. PhaseSeen \in {Talk, Opened, After} \cup {Call(q) : q \in DOMAIN protocol.next}
    BY DEF PhaseSeen, GuardInv, GuardTypes, GuardStates
  <2>3. CASE PhaseSeen.at \in {"opened", "call"}
    <3>1. PICK m \in DOMAIN protocol.next :
            m = GrammarAt(protocol, PhaseSeen) /\ last \in DOMAIN protocol.next[m]
      BY <1>2, <2>3, GrammarAccepts
    <3>2. protocol.next[m][last] \in DOMAIN protocol.next \cup protocol.final
      BY <2>1, <3>1, ProtocolAssumption
    <3>3. PhaseSeen # After
      BY <2>3, PhasesDiffer
    <3>4. PhaseOf = IF protocol.next[m][last] \in protocol.final THEN After
                    ELSE Call(protocol.next[m][last])
      BY <1>2, <2>3, <3>1, <3>3 DEF PhaseOf, PhaseAfter
    <3> QED BY <3>2, <3>4
  <2>4. CASE PhaseSeen.at \notin {"opened", "call"}
    <3>1. PhaseSeen \in {Talk, After}
      BY <2>2, <2>4, PhasesDiffer
    <3>2. PhaseOf \in {Talk, Opened, After}
      BY <1>2, <2>4, <3>1 DEF PhaseOf, PhaseAfter
    <3> QED BY <3>2
  <2> QED BY <2>3, <2>4
<1> QED BY <1>1, <1>2

\* The guard keeps up with the text, whatever the protocol, the prompt and the
\* tokens sampled: its matcher is never given a token that it rejects, some
\* token is always left, and nothing is masked that the protocol permits.
THEOREM GuardAlwaysKeepsUp == GuardSpec => []GuardKeepsUp
<1>1. GuardInv => GuardKeepsUp
  <2> SUFFICES ASSUME GuardInv PROVE GuardKeepsUp
    OBVIOUS
  <2>1. GuardTypeOK
    BY DEF GuardTypeOK, GuardInv, GuardTypes, GuardStates, SeenFacts
  <2>2. NeverStuck
    <3>1. protocol \in Protocols
      BY DEF GuardInv, GuardTypes
    <3>2. PhaseOf \in {Talk, Opened, After} \cup {Call(q) : q \in DOMAIN protocol.next}
      BY PhaseInProtocol
    <3>3. Permitted(protocol, PhaseOf, ReasoningIsOpen(protocol, Said)) # {}
      BY <3>1, <3>2, SomePermitted
    <3> QED BY <3>3, GrammarAccepts DEF NeverStuck
  <2>3. NothingElseIsMasked
    BY DEF NothingElseIsMasked, GuardInv
  <2>4. ReasoningIsNotCut
    BY DEF ReasoningIsNotCut, GuardInv, Permitted
  <2> QED BY <2>1, <2>2, <2>3, <2>4 DEF GuardKeepsUp
<1> QED BY <1>1, GuardInvariant, PTL

\* The operators of ToolPhases are the same in the instance.
LEMMA SameOperators ==
  /\ \A p, s : Protocol!ReasoningIsOpen(p, s) = ReasoningIsOpen(p, s)
  /\ \A p, c, open : Protocol!Permitted(p, c, open) = Permitted(p, c, open)
  /\ \A p, c, s, t : Protocol!PhaseAfter(p, c, s, t) = PhaseAfter(p, c, s, t)
<1>1. \A p, s : Protocol!ReasoningIsOpen(p, s) = ReasoningIsOpen(p, s)
  BY DEF Protocol!ReasoningIsOpen, ReasoningIsOpen, Protocol!StandsAt, StandsAt
<1>2. \A p, c, open : Protocol!Permitted(p, c, open) = Permitted(p, c, open)
  BY DEF Protocol!Permitted, Permitted, Protocol!Talk, Talk, Protocol!Opened, Opened,
         Protocol!After, After
<1>3. \A p, c, s, t : Protocol!PhaseAfter(p, c, s, t) = PhaseAfter(p, c, s, t)
  BY DEF Protocol!PhaseAfter, PhaseAfter, Protocol!Talk, Talk, Protocol!Opened, Opened,
         Protocol!After, After, Protocol!Call, Call, Protocol!GrammarAt, GrammarAt,
         Protocol!EndsWith, EndsWith, Protocol!StandsAt, StandsAt
<1> QED BY <1>1, <1>2, <1>3

\* What the guard lets a model say is what the protocol permits, though its
\* matcher is a token behind the text, and it masks the first token of a call
\* before it knows of the call.
THEOREM GuardImplementsProtocol == GuardSpec => ImplementsProtocol
<1>1. GuardInit => Protocol!ProtocolInit
  BY DEF GuardInit, Protocol!ProtocolInit, Said, PhaseOf, Talk, Protocol!Talk,
         PromptsOf, Protocol!PromptsOf
<1>2. ASSUME GuardInv, [GuardNext]_guardVars
      PROVE  [Protocol!ProtocolNext]_(Protocol!protocolVars)
  <2>0. GuardTypes /\ protocol \in Protocols
    BY <1>2 DEF GuardInv, GuardTypes
  <2>1. CASE UNCHANGED guardVars
    BY <2>1 DEF guardVars, Protocol!protocolVars, Said, PhaseOf, PhaseSeen, MarkerAt
  \* A step that moves the phase and the reasoning as the text does says one token.
  <2>2. ASSUME GuardTypes', last' \in allowed', protocol' = protocol, history' = Said,
               PhaseSeen' = PhaseOf,
               allowed' = Permitted(protocol, PhaseOf, ReasoningIsOpen(protocol, Said))
        PROVE  Protocol!ProtocolNext
    <3>1. last' \in protocol.tokens /\ last' # NoToken
      BY <2>0, <2>2, GuardAssumption DEF GuardTypes
    <3>2. Said' = Append(Said, last')
      BY <2>2, <3>1 DEF Said
    <3>3. PhaseOf' = PhaseAfter(protocol, PhaseOf, Said', last')
      BY <2>2, <3>1 DEF PhaseOf
    <3>4. Protocol!Say(last')
      BY <2>2, <3>2, <3>3, SameOperators DEF Protocol!Say
    <3> QED BY <3>1, <3>4 DEF Protocol!ProtocolNext
  <2>3. CASE Prefill
    <3>1. Said = history /\ PhaseOf = Talk
      BY <2>3 DEF Prefill, Said, PhaseOf
    <3> QED BY <2>2, <2>3, <3>1, <1>2, PrefillFollows DEF Prefill
  <2>4. CASE Decode
    <3>1. Said = Append(history, last)
      BY <2>4 DEF Decode, Said
    <3> QED BY <1>2, <2>2, <2>4, <3>1, DecodeFollows DEF Decode
  <2> QED BY <1>2, <2>1, <2>3, <2>4 DEF GuardNext
<1> QED BY <1>1, <1>2, GuardInvariant, PTL DEF GuardSpec, ImplementsProtocol, Protocol!ProtocolSpec

-----------------------------------------------------------------------------
(* HttpServer.                                                             *)

USE DEF handlers, sessions, kitVars, mainVars

-----------------------------------------------------------------------------
(* The inductive invariant.                                                *)

Written == {"status", "headers", "progress", "text", "terminal", "done", "error"}
Early == {"body", "register", "headers", "submit"}
Kinds == {"submit", "remove"}
Responses == {"begin", "text", "final", "cancel", "end", "error"}

\* A call of the main thread; one that cancels has the session it cancels.
PlainFrames == [at : Calls \ {"set", "stop"}, todo : SUBSET Sessions]
CancelFrames == [at : {"set", "stop"}, todo : SUBSET Sessions, session : Sessions]

TypesHold ==
  /\ pc \in [Sessions -> {"body", "register", "ended"} \cup Working \cup Cleaning]
  /\ sent \in [Sessions -> Seq(Written)]
  /\ out \in [Sessions -> Seq(Responses)]
  /\ lost \subseteq Sessions /\ cancelled \subseteq Sessions /\ done \subseteq Sessions
  /\ active = {s \in Sessions : pc[s] \in Working \cup Cleaning}
  /\ running \subseteq Sessions
  /\ messages \in Seq(Kinds \X Sessions)
  /\ kit \in {"up", "failed", "down"}
  /\ main \in Seq(PlainFrames \cup CancelFrames) /\ main # <<>>
  /\ locked \in BOOLEAN /\ signals \in 0..Signals

\* The first n items of an answer are those that neither end it nor look as if.
PlainTo(q, n) == \A i \in 1..n : q[i] \in {"headers", "progress", "text"}

\* q is cut short: its last item is at most a terminal payload or an error.
CutShort(q) ==
  /\ PlainTo(q, Len(q) - 1)
  /\ q # <<>> => q[Len(q)] \in {"headers", "progress", "text", "terminal", "error"}

Whole(q) ==
  /\ Len(q) >= 2 /\ PlainTo(q, Len(q) - 2)
  /\ q[Len(q) - 1] = "terminal" /\ q[Len(q)] = "done"

\* The handler has given up: its client is gone, or was told of an error.
Abandoned(s) ==
  CutShort(sent[s]) /\ (s \in lost \/ (sent[s] # <<>> /\ sent[s][Len(sent[s])] = "error"))

\* What a handler has written, by where it is.
AnswerOf(s) ==
  /\ pc[s] \in {"body", "register", "headers"} => sent[s] = <<>>
  /\ pc[s] = "submit" => sent[s] = <<"headers">>
  /\ pc[s] \in {"submit", "read"} => PlainTo(sent[s], Len(sent[s]))
  /\ pc[s] = "finish" =>
       CutShort(sent[s]) /\ (sent[s] # <<>> => sent[s][Len(sent[s])] # "error")
  /\ pc[s] \in {"cancel", "set", "stop"} => Abandoned(s)
  /\ pc[s] \in {"close", "ended"} =>
       Abandoned(s) \/ Whole(sent[s]) \/ (pc[s] = "ended" /\ sent[s] = <<"status">>)

Queued(s) == \E i \in DOMAIN messages : messages[i] = <<"submit", s>>
Live(s) == s \in running \/ Queued(s)

\* A removal that comes after the request, if that is still to come.
RemoveFollows(s) ==
  \E i \in DOMAIN messages :
    /\ messages[i] = <<"remove", s>>
    /\ \A j \in DOMAIN messages : messages[j] = <<"submit", s>> => j < i

MainRemoves(s) == \E i \in DOMAIN main : main[i].at \in {"set", "stop"} /\ main[i].session = s

Removed(s) == RemoveFollows(s) \/ MainRemoves(s)

SubmitsOnce ==
  \A i, j \in DOMAIN messages :
    messages[i] = messages[j] /\ messages[i][1] = "submit" => i = j

\* The kit has a request once, and answers it from "begin" to an end.
KitOf(s) ==
  /\ pc[s] \in Early => ~Live(s) /\ out[s] = <<>>
  /\ Queued(s) => s \notin running /\ out[s] = <<>>
  /\ \A i \in DOMAIN out[s] : out[s][i] = "begin" => i = 1
  /\ Live(s) => \A i \in DOMAIN out[s] : out[s][i] \in {"begin", "text"}
  /\ Live(s) => kit = "up"

\* The request has not been begun for its handler.
Unbegun(s) == Queued(s) \/ (out[s] # <<>> /\ out[s][1] = "begin")

\* Whoever goes on to the end of a session leaves the kit's request to a
\* removal that is on its way.
RemovalOf(s) ==
  /\ s \in done => pc[s] = "ended"
  /\ pc[s] \in {"finish", "close", "ended"} /\ Live(s) => Removed(s)
  /\ pc[s] \in {"read", "cancel"} /\ s \in cancelled /\ Live(s) =>
       Removed(s) \/ (pc[s] = "read" /\ Unbegun(s))

ServerInv ==
  /\ TypesHold
  /\ SubmitsOnce
  /\ \A s \in Sessions : AnswerOf(s) /\ KitOf(s) /\ RemovalOf(s)

\* Once cancelled before its request was made, a session's handler meets no
\* text that it would write.
HeldBack(s) ==
  /\ s \in cancelled
  /\ \A i \in DOMAIN sent[s] : sent[s][i] # "text"
  /\ pc[s] \notin {"body", "register"}
  /\ pc[s] = "read" =>
       /\ s \in running => out[s] # <<>>
       /\ out[s] # <<>> => out[s][1] # "text"

-----------------------------------------------------------------------------
(* What an answer looks like with one item more.                           *)

\* An answer with one item more, item by item.
LEMMA OneMore ==
  ASSUME NEW q \in Seq(Written), NEW x \in Written
  PROVE  /\ q \o <<x>> = Append(q, x) /\ Append(q, x) \in Seq(Written)
         /\ Len(Append(q, x)) = Len(q) + 1 /\ Len(q) \in Nat /\ Append(q, x) # <<>>
         /\ \A i \in 1..Len(q) : Append(q, x)[i] = q[i]
         /\ Append(q, x)[Len(Append(q, x))] = x
BY AppendProperties, AppendIsConcat

\* An answer without an end stays one when headers, progress or text are written.
LEMMA PlainGrows ==
  ASSUME NEW q \in Seq(Written), PlainTo(q, Len(q)), NEW x \in {"headers", "progress", "text"}
  PROVE  PlainTo(Append(q, x), Len(Append(q, x)))
<1>1. x \in Written
  BY DEF Written
<1> QED BY <1>1, OneMore DEF PlainTo

\* An answer without an end is one cut short once its terminal event or an error is written.
LEMMA PlainEnds ==
  ASSUME NEW q \in Seq(Written), PlainTo(q, Len(q)), NEW x \in {"terminal", "error"}
  PROVE  CutShort(Append(q, x)) /\ Append(q, x)[Len(Append(q, x))] = x /\ Append(q, x) # <<>>
<1>1. x \in Written
  BY DEF Written
<1> QED BY <1>1, OneMore DEF PlainTo, CutShort

\* An answer without an end is one cut short.
LEMMA PlainIsCut ==
  ASSUME NEW q \in Seq(Written), PlainTo(q, Len(q))
  PROVE  CutShort(q) /\ (q # <<>> => q[Len(q)] # "error")
<1>1. Len(q) \in Nat /\ (q # <<>> => Len(q) \in 1..Len(q))
  BY EmptySeq
<1> QED BY <1>1 DEF PlainTo, CutShort

\* An answer cut short after its terminal event is whole once "done" is written.
LEMMA WholeGrows ==
  ASSUME NEW q \in Seq(Written), CutShort(q), NEW i \in DOMAIN q, q[i] = "terminal"
  PROVE  Whole(Append(q, "done"))
<1>1. "done" \in Written
  BY DEF Written
<1>2. i = Len(q) /\ Len(q) \in Nat \ {0}
  <2>1. i \in 1..Len(q) /\ Len(q) \in Nat
    OBVIOUS
  <2>2. ~(i \in 1..(Len(q) - 1))
    BY DEF CutShort, PlainTo
  <2> QED BY <2>1, <2>2
<1> QED BY <1>1, <1>2, OneMore DEF Whole, CutShort, PlainTo

\* An answer cut short that has no terminal event and no error has no end.
LEMMA CutIsPlain ==
  ASSUME NEW q \in Seq(Written), CutShort(q), q # <<>> => q[Len(q)] # "error",
         \A i \in DOMAIN q : q[i] # "terminal"
  PROVE  PlainTo(q, Len(q))
<1>1. Len(q) \in Nat /\ DOMAIN q = 1..Len(q) /\ (q = <<>> <=> Len(q) = 0)
  BY EmptySeq
<1>2. ASSUME NEW i \in 1..Len(q) PROVE q[i] \in {"headers", "progress", "text"}
  <2>1. q # <<>>
    BY <1>1
  <2>2. i \in 1..(Len(q) - 1) \/ i = Len(q)
    <3>1. i \in Nat /\ 1 <= i /\ i <= Len(q) /\ Len(q) \in Nat
      BY <1>1
    <3> QED BY <3>1
  <2> QED BY <1>1, <2>1, <2>2 DEF CutShort, PlainTo
<1> QED BY <1>2 DEF PlainTo
-----------------------------------------------------------------------------
(* The queues and the main thread's calls.                                 *)

\* What putting a message in the queue changes: which sessions are queued and whose removal follows.
LEMMA MessagePut ==
  ASSUME TypesHold, SubmitsOnce, NEW k \in Kinds, NEW s \in Sessions, Put(<<k, s>>),
         k = "submit" => ~Queued(s)
  PROVE  /\ messages' \in Seq(Kinds \X Sessions)
         /\ SubmitsOnce'
         /\ \A q \in Sessions : Queued(q)' <=> Queued(q) \/ (k = "submit" /\ q = s)
         /\ \A q \in Sessions : RemoveFollows(q) /\ (k = "remove" \/ q # s) => RemoveFollows(q)'
         /\ k = "remove" => RemoveFollows(s)'
<1> DEFINE n == Len(messages)
<1>1. messages \in Seq(Kinds \X Sessions) /\ <<k, s>> \in Kinds \X Sessions
  BY DEF TypesHold
<1>2. /\ messages' \in Seq(Kinds \X Sessions) /\ n \in Nat
      /\ DOMAIN messages = 1..n /\ DOMAIN messages' = 1..(n + 1)
      /\ \A i \in 1..n : messages'[i] = messages[i]
      /\ messages'[n + 1] = <<k, s>>
  BY <1>1, AppendProperties DEF Put
<1>3. ASSUME NEW q \in Sessions
      PROVE  Queued(q)' <=> Queued(q) \/ (k = "submit" /\ q = s)
  <2>1. \A i \in 1..n : messages'[i] = messages[i]
    BY <1>2
  <2>2. <<k, s>> = <<"submit", q>> <=> k = "submit" /\ q = s
    OBVIOUS
  <2>3. Queued(q)' => Queued(q) \/ (k = "submit" /\ q = s)
    <3>1. SUFFICES ASSUME NEW i \in 1..(n + 1), messages'[i] = <<"submit", q>>
                   PROVE  Queued(q) \/ (k = "submit" /\ q = s)
      BY <1>2 DEF Queued
    <3>2. CASE i \in 1..n
      BY <1>2, <2>1, <3>1, <3>2 DEF Queued
    <3>3. CASE i \notin 1..n
      <4>1. i = n + 1
        BY <1>2, <3>3
      <4> QED BY <1>2, <2>2, <3>1, <4>1
    <3> QED BY <3>2, <3>3
  <2>4. ASSUME Queued(q)
        PROVE  Queued(q)'
    <3>1. PICK i \in 1..n : messages[i] = <<"submit", q>>
      BY <1>2, <2>4 DEF Queued
    <3>2. i \in 1..(n + 1)
      BY <1>2
    <3>3. messages'[i] = <<"submit", q>>
      BY <2>1, <3>1
    <3> QED BY <1>2, <3>2, <3>3 DEF Queued
  <2>5. k = "submit" /\ q = s => Queued(q)'
    <3>1. n + 1 \in 1..(n + 1)
      BY <1>2
    <3> QED BY <1>2, <2>2, <3>1 DEF Queued
  <2> QED BY <2>3, <2>4, <2>5
<1>4. SubmitsOnce'
  <2> SUFFICES ASSUME NEW i \in 1..(n + 1), NEW j \in 1..(n + 1), messages'[i] = messages'[j],
                      messages'[i][1] = "submit"
               PROVE  i = j
    BY <1>2 DEF SubmitsOnce
  <2>1. CASE i \in 1..n /\ j \in 1..n
    BY <1>2, <2>1 DEF SubmitsOnce
  <2>2. CASE i \notin 1..n \/ j \notin 1..n
    <3>1. i = n + 1 \/ j = n + 1
      BY <1>2, <2>2
    <3>2. messages'[i] = <<k, s>> /\ messages'[j] = <<k, s>> /\ k = "submit"
      BY <1>2, <3>1
    <3>3. i \notin 1..n /\ j \notin 1..n
      BY <1>2, <3>2 DEF Queued
    <3> QED BY <1>2, <3>3
  <2> QED BY <2>1, <2>2
<1>5. ASSUME NEW q \in Sessions, RemoveFollows(q), k = "remove" \/ q # s
      PROVE  RemoveFollows(q)'
  <2>1. PICK i \in DOMAIN messages :
          /\ messages[i] = <<"remove", q>>
          /\ \A j \in DOMAIN messages : messages[j] = <<"submit", q>> => j < i
    BY <1>5 DEF RemoveFollows
  <2>2. i \in DOMAIN messages' /\ messages'[i] = <<"remove", q>>
    BY <1>2, <2>1
  <2>3. \A j \in DOMAIN messages' : messages'[j] = <<"submit", q>> => j \in 1..n
    BY <1>2, <1>5
  <2>4. \A j \in DOMAIN messages' : messages'[j] = <<"submit", q>> => j < i
    BY <1>2, <2>1, <2>3
  <2> QED BY <2>2, <2>4 DEF RemoveFollows
<1>6. k = "remove" => RemoveFollows(s)'
  <2> SUFFICES ASSUME k = "remove" PROVE RemoveFollows(s)'
    OBVIOUS
  <2>1. \A j \in DOMAIN messages' : messages'[j] = <<"submit", s>> => j < n + 1
    BY <1>2
  <2>2. n + 1 \in DOMAIN messages' /\ messages'[n + 1] = <<"remove", s>>
    BY <1>2
  <2> QED BY <2>1, <2>2 DEF RemoveFollows
<1> QED BY <1>2, <1>3, <1>4, <1>5, <1>6

\* What taking the first message changes: which sessions are queued and whose removal follows.
LEMMA MessageTaken ==
  ASSUME TypesHold, SubmitsOnce, messages # <<>>, messages' = Tail(messages)
  PROVE  /\ messages' \in Seq(Kinds \X Sessions)
         /\ Head(messages) \in Kinds \X Sessions
         /\ SubmitsOnce'
         /\ \A q \in Sessions : Queued(q)' => Queued(q)
         /\ \A q \in Sessions : Queued(q) => Queued(q)' \/ Head(messages) = <<"submit", q>>
         /\ \A q \in Sessions : Head(messages) = <<"submit", q>> => Queued(q) /\ ~(Queued(q)')
         /\ \A q \in Sessions :
              RemoveFollows(q) /\ (Head(messages) # <<"remove", q>> \/ Queued(q)) => RemoveFollows(q)'
<1> DEFINE n == Len(messages)
<1>1. messages \in Seq(Kinds \X Sessions)
  BY DEF TypesHold
<1>2. /\ messages' \in Seq(Kinds \X Sessions) /\ n \in Nat \ {0}
      /\ DOMAIN messages = 1..n /\ DOMAIN messages' = 1..(n - 1)
      /\ \A i \in 1..(n - 1) : messages'[i] = messages[i + 1]
      /\ Head(messages) = messages[1] /\ Head(messages) \in Kinds \X Sessions
  BY <1>1, HeadTailProperties, EmptySeq
<1>3. \A q \in Sessions : Queued(q)' => Queued(q)
  BY <1>2 DEF Queued
<1>4. ASSUME NEW q \in Sessions, Queued(q), Head(messages) # <<"submit", q>>
      PROVE  Queued(q)'
  <2>1. PICK i \in 1..n : messages[i] = <<"submit", q>>
    BY <1>2, <1>4 DEF Queued
  <2>2. i - 1 \in 1..(n - 1) /\ messages'[i - 1] = messages[i]
    BY <1>2, <1>4, <2>1
  <2> QED BY <1>2, <2>1, <2>2 DEF Queued
<1>5. SubmitsOnce'
  <2> SUFFICES ASSUME NEW i \in 1..(n - 1), NEW j \in 1..(n - 1), messages'[i] = messages'[j],
                      messages'[i][1] = "submit"
               PROVE  i = j
    BY <1>2 DEF SubmitsOnce
  <2>1. i + 1 \in 1..n /\ j + 1 \in 1..n /\ messages[i + 1] = messages[j + 1]
        /\ messages[i + 1][1] = "submit"
    BY <1>2
  <2>2. i + 1 = j + 1
    BY <1>2, <2>1 DEF SubmitsOnce
  <2> QED BY <2>2
<1>6. ASSUME NEW q \in Sessions, Head(messages) = <<"submit", q>>
      PROVE  Queued(q) /\ ~(Queued(q)')
  <2>1. 1 \in DOMAIN messages /\ messages[1] = <<"submit", q>>
    BY <1>2, <1>6
  <2>2. ASSUME NEW i \in 1..(n - 1), messages'[i] = <<"submit", q>> PROVE FALSE
    <3>1. i + 1 \in DOMAIN messages /\ messages[i + 1] = messages[1] /\ messages[1][1] = "submit"
      BY <1>2, <2>1, <2>2
    <3>2. i + 1 = 1
      BY <2>1, <3>1 DEF SubmitsOnce
    <3> QED BY <3>2
  <2> QED BY <1>2, <2>1, <2>2 DEF Queued
<1>7. ASSUME NEW q \in Sessions, RemoveFollows(q), Head(messages) # <<"remove", q>> \/ Queued(q)
      PROVE  RemoveFollows(q)'
  <2>1. PICK i \in 1..n :
          /\ messages[i] = <<"remove", q>>
          /\ \A j \in 1..n : messages[j] = <<"submit", q>> => j < i
    BY <1>2, <1>7 DEF RemoveFollows
  <2>2. i # 1
    BY <1>2, <1>7, <2>1 DEF Queued
  <2>3. i - 1 \in 1..(n - 1) /\ messages'[i - 1] = <<"remove", q>>
    BY <1>2, <2>1, <2>2
  <2>4. ASSUME NEW j \in 1..(n - 1), messages'[j] = <<"submit", q>> PROVE j < i - 1
    <3>1. j + 1 \in 1..n /\ messages[j + 1] = <<"submit", q>>
      BY <1>2, <2>4
    <3>2. j + 1 < i
      BY <2>1, <3>1
    <3> QED BY <3>2
  <2> QED BY <1>2, <2>3, <2>4 DEF RemoveFollows
<1> QED BY <1>2, <1>3, <1>4, <1>5, <1>6, <1>7

\* A step that leaves the message queue alone leaves what is said of it.
LEMMA SameMessages ==
  ASSUME UNCHANGED messages
  PROVE  /\ SubmitsOnce => SubmitsOnce'
         /\ \A q : (Queued(q)' <=> Queued(q)) /\ (RemoveFollows(q)' <=> RemoveFollows(q))
BY DEF SubmitsOnce, Queued, RemoveFollows

\* A step that leaves the main thread's calls alone leaves the removals it still has to ask for.
LEMMA SameMain ==
  ASSUME UNCHANGED main
  PROVE  \A q : MainRemoves(q)' <=> MainRemoves(q)
BY DEF MainRemoves

\* Its innermost call goes on to another point.
LEMMA MainBecomes ==
  ASSUME TypesHold, NEW f \in PlainFrames \cup CancelFrames, Becomes(f)
  PROVE  /\ main' \in Seq(PlainFrames \cup CancelFrames) /\ main' # <<>>
         /\ f.at \in {"set", "stop"} => MainRemoves(f.session)'
         /\ \A q : MainRemoves(q) /\ ~(Top.at \in {"set", "stop"} /\ Top.session = q) => MainRemoves(q)'
<1> DEFINE F == PlainFrames \cup CancelFrames
           t == Tail(main)
<1>1. main \in Seq(F) /\ main # <<>>
  BY DEF TypesHold
<1>2. /\ t \in Seq(F) /\ Len(t) = Len(main) - 1 /\ Len(main) \in Nat \ {0}
      /\ \A i \in 1..Len(t) : t[i] = main[i + 1]
      /\ Top = main[1]
      /\ DOMAIN main = 1..Len(main)
  BY <1>1, HeadTailProperties, EmptySeq DEF Top
<1>3. /\ main' \in Seq(F) /\ Len(main') = 1 + Len(t)
      /\ \A i \in 1..(1 + Len(t)) : main'[i] = IF i <= 1 THEN <<f>>[i] ELSE t[i - 1]
  <2>1. <<f>> \in Seq(F) /\ Len(<<f>>) = 1 /\ main' = <<f>> \o t
    BY DEF Becomes
  <2> QED BY <1>2, <2>1, ConcatProperties
<1>4. /\ DOMAIN main' = 1..Len(main) /\ main'[1] = f
      /\ \A i \in 2..Len(main) : main'[i] = main[i]
  <2>1. DOMAIN main' = 1..Len(main) /\ main'[1] = f
    BY <1>2, <1>3
  <2>2. ASSUME NEW i \in 2..Len(main) PROVE main'[i] = main[i]
    <3>1. i \in 1..(1 + Len(t)) /\ ~(i <= 1) /\ i - 1 \in 1..Len(t) /\ (i - 1) + 1 = i
      BY <1>2
    <3> QED BY <1>2, <1>3, <3>1
  <2> QED BY <2>1, <2>2
<1>5. f.at \in {"set", "stop"} => MainRemoves(f.session)'
  <2>1. 1 \in DOMAIN main'
    BY <1>2, <1>4
  <2> QED BY <1>4, <2>1 DEF MainRemoves
<1>6. ASSUME NEW q, MainRemoves(q), ~(Top.at \in {"set", "stop"} /\ Top.session = q)
      PROVE  MainRemoves(q)'
  <2>1. PICK i \in DOMAIN main : main[i].at \in {"set", "stop"} /\ main[i].session = q
    BY <1>6 DEF MainRemoves
  <2>2. i \in 2..Len(main)
    <3>1. i # 1
      BY <1>2, <1>6, <2>1
    <3> QED BY <1>2, <2>1, <3>1
  <2>3. i \in DOMAIN main' /\ main'[i] = main[i]
    BY <1>4, <2>2, <2>1, <1>2
  <2> QED BY <2>1, <2>3 DEF MainRemoves
<1>7. main' # <<>>
  <2>1. Len(main') # 0
    BY <1>2, <1>3
  <2> QED BY <2>1, EmptySeq
<1> QED BY <1>3, <1>5, <1>6, <1>7

\* A signal handler is called on top of what the thread was doing.
LEMMA MainInterrupted ==
  ASSUME TypesHold, NEW f \in PlainFrames \cup CancelFrames, main' = <<f>> \o main
  PROVE  /\ main' \in Seq(PlainFrames \cup CancelFrames) /\ main' # <<>>
         /\ \A q : MainRemoves(q) => MainRemoves(q)'
<1> DEFINE F == PlainFrames \cup CancelFrames
<1>1. main \in Seq(F) /\ <<f>> \in Seq(F) /\ Len(<<f>>) = 1
  BY DEF TypesHold
<1>2. /\ main' \in Seq(F) /\ Len(main') = 1 + Len(main) /\ Len(main) \in Nat
      /\ \A i \in 1..(1 + Len(main)) : main'[i] = IF i <= 1 THEN <<f>>[i] ELSE main[i - 1]
  BY <1>1, ConcatProperties
<1>3. ASSUME NEW q, MainRemoves(q) PROVE MainRemoves(q)'
  <2>1. PICK i \in DOMAIN main : main[i].at \in {"set", "stop"} /\ main[i].session = q
    BY <1>3 DEF MainRemoves
  <2>2. i + 1 \in DOMAIN main' /\ main'[i + 1] = main[i]
    <3>1. i \in 1..Len(main) /\ i + 1 \in 1..(1 + Len(main)) /\ ~(i + 1 <= 1) /\ (i + 1) - 1 = i
      BY <1>1, <2>1
    <3> QED BY <1>2, <3>1
  <2> QED BY <2>1, <2>2 DEF MainRemoves
<1>4. main' # <<>>
  <2>1. Len(main') # 0
    BY <1>2
  <2> QED BY <2>1, EmptySeq
<1> QED BY <1>2, <1>3, <1>4

\* A return of the main thread, but from a cancel it is in the middle of, loses no removal.
LEMMA MainReturns ==
  ASSUME TypesHold, Len(main) > 1, Top.at \notin {"set", "stop"}, main' = Tail(main)
  PROVE  /\ main' \in Seq(PlainFrames \cup CancelFrames) /\ main' # <<>>
         /\ \A q : MainRemoves(q) => MainRemoves(q)'
<1> DEFINE F == PlainFrames \cup CancelFrames
<1>1. main \in Seq(F) /\ main # <<>>
  BY DEF TypesHold
<1>2. /\ main' \in Seq(F) /\ Len(main') = Len(main) - 1 /\ Len(main) \in Nat \ {0}
      /\ \A i \in 1..Len(main') : main'[i] = main[i + 1]
      /\ Top = main[1]
      /\ DOMAIN main = 1..Len(main)
  BY <1>1, HeadTailProperties, EmptySeq DEF Top
<1>3. ASSUME NEW q, MainRemoves(q) PROVE MainRemoves(q)'
  <2>1. PICK i \in DOMAIN main : main[i].at \in {"set", "stop"} /\ main[i].session = q
    BY <1>3 DEF MainRemoves
  <2>2. i # 1
    BY <1>2, <2>1
  <2>3. i - 1 \in DOMAIN main' /\ main'[i - 1] = main[i]
    <3>1. i - 1 \in 1..Len(main') /\ (i - 1) + 1 = i
      BY <1>2, <2>1, <2>2
    <3> QED BY <1>2, <3>1
  <2> QED BY <2>1, <2>3 DEF MainRemoves
<1>4. main' # <<>>
  <2>1. Len(main') # 0
    BY <1>2
  <2> QED BY <2>1, EmptySeq
<1> QED BY <1>2, <1>3, <1>4
\* Some requests get one response more.
LEMMA AnswerPut ==
  ASSUME TypesHold, NEW S, NEW x \in Responses, Answered(S, x)
  PROVE  /\ out' \in [Sessions -> Seq(Responses)]
         /\ \A s \in Sessions : s \notin S => out'[s] = out[s]
         /\ \A s \in Sessions : s \in S =>
              /\ out'[s] = Append(out[s], x) /\ Len(out[s]) \in Nat
              /\ Len(out'[s]) = Len(out[s]) + 1 /\ out'[s] # <<>>
              /\ DOMAIN out[s] = 1..Len(out[s]) /\ DOMAIN out'[s] = 1..(Len(out[s]) + 1)
              /\ \A i \in DOMAIN out[s] : out'[s][i] = out[s][i]
              /\ out'[s][Len(out[s]) + 1] = x
<1>1. \A q \in Seq(Responses) :
        /\ Append(q, x) \in Seq(Responses) /\ Append(q, x) # <<>> /\ Len(q) \in Nat
        /\ Len(Append(q, x)) = Len(q) + 1
        /\ DOMAIN q = 1..Len(q) /\ DOMAIN Append(q, x) = 1..(Len(q) + 1)
        /\ \A i \in DOMAIN q : Append(q, x)[i] = q[i]
        /\ Append(q, x)[Len(q) + 1] = x
  BY AppendProperties
<1>2. \A s \in Sessions : out[s] \in Seq(Responses)
  BY DEF TypesHold
<1>3. \A s \in Sessions : out'[s] = IF s \in S THEN Append(out[s], x) ELSE out[s]
  BY DEF Answered
<1>4. out' \in [Sessions -> Seq(Responses)]
  BY <1>1, <1>2 DEF Answered
<1> QED BY <1>1, <1>2, <1>3, <1>4

-----------------------------------------------------------------------------
(* Sessions that a step leaves alone.                                      *)

\* A session that a step leaves alone keeps its part of the invariant.
LEMMA SessionsKept ==
  ASSUME ServerInv, NEW S \in SUBSET Sessions,
         \A q \in S :
           /\ pc'[q] = pc[q] /\ sent'[q] = sent[q] /\ out'[q] = out[q]
           /\ Queued(q)' <=> Queued(q)
           /\ q \in running' <=> q \in running
           /\ q \in cancelled' => q \in cancelled
           /\ q \in done' => q \in done
           /\ Removed(q) => Removed(q)',
         lost \subseteq lost', kit' = kit
  PROVE  \A q \in S : AnswerOf(q)' /\ KitOf(q)' /\ RemovalOf(q)'
<1> SUFFICES ASSUME NEW q \in S PROVE AnswerOf(q)' /\ KitOf(q)' /\ RemovalOf(q)'
  OBVIOUS
<1>1. AnswerOf(q) /\ KitOf(q) /\ RemovalOf(q)
  BY DEF ServerInv
<1>2. AnswerOf(q)'
  BY <1>1 DEF AnswerOf, Abandoned
<1>3. Live(q)' <=> Live(q)
  BY DEF Live
<1>4. KitOf(q)'
  BY <1>1, <1>3 DEF KitOf
<1>5. RemovalOf(q)'
  BY <1>1, <1>3 DEF RemovalOf, Unbegun
<1> QED BY <1>2, <1>4, <1>5

\* The state of one session is all that a handler moves.
LEMMA OneSession ==
  ASSUME ServerInv, NEW s \in Sessions, TypesHold', SubmitsOnce',
         \A q \in Sessions \ {s} :
           /\ pc'[q] = pc[q] /\ sent'[q] = sent[q] /\ out'[q] = out[q]
           /\ Queued(q)' <=> Queued(q)
           /\ q \in running' <=> q \in running
           /\ q \in cancelled' => q \in cancelled
           /\ q \in done' => q \in done
           /\ Removed(q) => Removed(q)',
         lost \subseteq lost', kit' = kit,
         AnswerOf(s)' /\ KitOf(s)' /\ RemovalOf(s)'
  PROVE  ServerInv'
<1>1. \A q \in Sessions \ {s} : AnswerOf(q)' /\ KitOf(q)' /\ RemovalOf(q)'
  BY SessionsKept
<1> QED BY <1>1 DEF ServerInv

\* A step of one handler moves that handler and no other.
LEMMA OneMoved ==
  ASSUME TypesHold, NEW s \in Sessions, NEW at, Goto(s, at)
  PROVE  /\ pc'[s] = at /\ \A q \in Sessions \ {s} : pc'[q] = pc[q]
         /\ pc' \in [Sessions -> {"body", "register", "ended"} \cup Working \cup Cleaning] <=>
              at \in {"body", "register", "ended"} \cup Working \cup Cleaning
BY DEF TypesHold, Goto

\* What a write does to the answer.
LEMMA OneWritten ==
  ASSUME TypesHold, NEW s \in Sessions, NEW x \in Written, NEW at, Write(s, <<x>>, at)
  PROVE  /\ sent' \in [Sessions -> Seq(Written)]
         /\ \A q \in Sessions \ {s} : sent'[q] = sent[q]
         /\ s \in lost => pc' = [pc EXCEPT ![s] = "cancel"] /\ sent'[s] = sent[s]
         /\ s \notin lost => pc' = [pc EXCEPT ![s] = at] /\ sent'[s] = Append(sent[s], x)
<1>1. sent[s] \in Seq(Written)
  BY DEF TypesHold
<1>2. sent[s] \o <<x>> = Append(sent[s], x) /\ Append(sent[s], x) \in Seq(Written)
  BY <1>1, OneMore
<1> QED BY <1>2 DEF TypesHold, Write, Goto

\* What writing the error event changes.
LEMMA ErrorWritten ==
  ASSUME TypesHold, NEW s \in Sessions, WriteError(s)
  PROVE  /\ sent' \in [Sessions -> Seq(Written)]
         /\ \A q \in Sessions \ {s} : sent'[q] = sent[q]
         /\ pc' = [pc EXCEPT ![s] = "cancel"]
         /\ s \in lost => sent'[s] = sent[s]
         /\ s \notin lost => sent'[s] = Append(sent[s], "error")
<1>1. sent[s] \in Seq(Written) /\ "error" \in Written
  BY DEF TypesHold, Written
<1>2. Append(sent[s], "error") \in Seq(Written)
  BY <1>1, OneMore
<1> QED BY <1>2 DEF TypesHold, WriteError, Goto

-----------------------------------------------------------------------------
(* The handler.                                                            *)

\* A step that leaves the kit and the main thread alone leaves what is said of the kit's sessions.
LEMMA SameKit ==
  ASSUME UNCHANGED kitVars, UNCHANGED main
  PROVE  \A q : /\ Queued(q)' <=> Queued(q)
                /\ Live(q)' <=> Live(q)
                /\ Removed(q)' <=> Removed(q)
                /\ Unbegun(q)' <=> Unbegun(q)
BY SameMessages, SameMain DEF Live, Removed, Unbegun

\* A step of a handler that is not about the kit.
LEMMA QuietHandler ==
  ASSUME ServerInv, NEW s \in Sessions, TypesHold', UNCHANGED <<kitVars, main, lost>>,
         \A q \in Sessions \ {s} :
           /\ pc'[q] = pc[q] /\ sent'[q] = sent[q]
           /\ q \in cancelled' => q \in cancelled
           /\ q \in done' => q \in done,
         pc'[s] \in Early => pc[s] \in Early,
         AnswerOf(s)', RemovalOf(s)'
  PROVE  ServerInv'
<1>1. \A q : /\ Queued(q)' <=> Queued(q)
             /\ Live(q)' <=> Live(q)
             /\ Removed(q)' <=> Removed(q)
  BY SameKit
<1>2. SubmitsOnce'
  BY SameMessages DEF ServerInv
<1>3. KitOf(s)'
  BY <1>1 DEF ServerInv, KitOf
<1> QED BY <1>1, <1>2, <1>3, OneSession

\* A step of Reject keeps the invariant.
LEMMA RejectKeeps ==
  ASSUME ServerInv, NEW s \in Sessions, Reject(s)
  PROVE  ServerInv'
<1> USE DEF Reject
<1>0. TypesHold /\ AnswerOf(s) /\ KitOf(s) /\ RemovalOf(s)
  BY DEF ServerInv
<1>1. pc'[s] = "ended" /\ (\A q \in Sessions \ {s} : pc'[q] = pc[q])
      /\ pc' \in [Sessions -> {"body", "register", "ended"} \cup Working \cup Cleaning]
  BY <1>0, OneMoved
<1>2. sent[s] = <<>> /\ ~Live(s)
  BY <1>0 DEF AnswerOf, KitOf, Early
<1>3. /\ sent' \in [Sessions -> Seq(Written)]
      /\ \A q \in Sessions \ {s} : sent'[q] = sent[q]
      /\ (s \in lost /\ sent'[s] = <<>>) \/ sent'[s] = <<"status">>
  BY <1>0, <1>2 DEF TypesHold, Written
<1>4. TypesHold'
  BY <1>0, <1>1, <1>3 DEF TypesHold, Working, Cleaning
<1>5. CutShort(<<>>)
  BY EmptySeq DEF CutShort, PlainTo
<1>6. AnswerOf(s)'
  BY <1>1, <1>3, <1>5 DEF AnswerOf, Abandoned
<1>7. RemovalOf(s)'
  BY <1>0, <1>1, <1>2, SameKit DEF RemovalOf
<1> QED BY <1>1, <1>3, <1>4, <1>6, <1>7, QuietHandler DEF Early

\* Preparing and registering a session keep the invariant.
LEMMA PrepareKeeps ==
  ASSUME ServerInv, NEW s \in Sessions, Prepare(s) \/ RegisterSession(s)
  PROVE  ServerInv'
<1> USE DEF Prepare, RegisterSession
<1>0. TypesHold /\ AnswerOf(s) /\ KitOf(s) /\ RemovalOf(s)
  BY DEF ServerInv
<1>1. /\ pc[s] \in {"body", "register"} /\ pc'[s] \in {"register", "headers"}
      /\ pc'[s] = "headers" => active' = active \cup {s}
      /\ pc'[s] = "register" => active' = active /\ pc[s] = "body"
      /\ \A q \in Sessions \ {s} : pc'[q] = pc[q]
      /\ pc' \in [Sessions -> {"body", "register", "ended"} \cup Working \cup Cleaning]
  BY <1>0, OneMoved DEF Working
<1>2. TypesHold'
  <2>1. active' = {q \in Sessions : pc'[q] \in Working \cup Cleaning}
    BY <1>0, <1>1 DEF TypesHold, Working, Cleaning
  <2> QED BY <1>0, <1>1, <2>1 DEF TypesHold
<1>3. AnswerOf(s)'
  BY <1>0, <1>1 DEF AnswerOf
<1>4. RemovalOf(s)'
  BY <1>0, <1>1 DEF RemovalOf
<1> QED BY <1>1, <1>2, <1>3, <1>4, QuietHandler DEF Early

\* Within a session a handler moves without (un)registering it.
LEMMA StaysActive ==
  ASSUME TypesHold, NEW s \in Sessions, NEW at, pc' = [pc EXCEPT ![s] = at],
         pc[s] \in Working \cup Cleaning, at \in Working \cup Cleaning
  PROVE  /\ pc' \in [Sessions -> {"body", "register", "ended"} \cup Working \cup Cleaning]
         /\ active = {q \in Sessions : pc'[q] \in Working \cup Cleaning}
         /\ pc'[s] = at /\ \A q \in Sessions \ {s} : pc'[q] = pc[q]
BY DEF TypesHold

\* A step of StartSse keeps the invariant.
LEMMA StartSseKeeps ==
  ASSUME ServerInv, NEW s \in Sessions, StartSse(s)
  PROVE  ServerInv'
<1> USE DEF StartSse
<1>0. TypesHold /\ AnswerOf(s) /\ KitOf(s) /\ RemovalOf(s)
  BY DEF ServerInv
<1>1. "headers" \in Written
  BY DEF Written
<1>2. sent[s] = <<>> /\ sent[s] \in Seq(Written)
  BY <1>0 DEF AnswerOf, TypesHold
<1>3. /\ sent' \in [Sessions -> Seq(Written)]
      /\ \A q \in Sessions \ {s} : sent'[q] = sent[q]
      /\ s \in lost => pc' = [pc EXCEPT ![s] = "cancel"] /\ sent'[s] = sent[s]
      /\ s \notin lost => pc' = [pc EXCEPT ![s] = "submit"] /\ sent'[s] = Append(sent[s], "headers")
  BY <1>0, <1>1, OneWritten
<1>4. PlainTo(sent[s], Len(sent[s])) /\ CutShort(sent[s])
  BY <1>2, EmptySeq DEF CutShort, PlainTo
<1>5. PlainTo(Append(sent[s], "headers"), Len(Append(sent[s], "headers")))
  BY <1>2, <1>4, PlainGrows
<1>6. /\ pc' \in [Sessions -> {"body", "register", "ended"} \cup Working \cup Cleaning]
      /\ active = {q \in Sessions : pc'[q] \in Working \cup Cleaning}
      /\ pc'[s] = (IF s \in lost THEN "cancel" ELSE "submit")
      /\ \A q \in Sessions \ {s} : pc'[q] = pc[q]
  BY <1>0, <1>3, StaysActive DEF Working, Cleaning
<1>7. TypesHold'
  BY <1>0, <1>3, <1>6 DEF TypesHold
<1>8. AnswerOf(s)'
  <2>1. Append(sent[s], "headers") = <<"headers">>
    BY <1>2
  <2> QED BY <1>3, <1>4, <1>5, <1>6, <2>1 DEF AnswerOf, Abandoned
<1>9. ~Live(s) /\ s \notin done
  BY <1>0 DEF KitOf, Early, RemovalOf
<1>10. RemovalOf(s)'
  BY <1>9, <1>6, SameKit DEF RemovalOf
<1> QED BY <1>3, <1>6, <1>7, <1>8, <1>10, QuietHandler DEF Early

\* "cancel" is left for "close" when somebody else has cancelled the session.
LEMMA CancelLooksKeeps ==
  ASSUME ServerInv, NEW s \in Sessions, CancelLooks(s)
  PROVE  ServerInv'
<1> USE DEF CancelLooks, Goto
<1>0. TypesHold /\ AnswerOf(s) /\ KitOf(s) /\ RemovalOf(s)
  BY DEF ServerInv
<1>1. s \notin done
  BY <1>0 DEF RemovalOf
<1>2. /\ pc' \in [Sessions -> {"body", "register", "ended"} \cup Working \cup Cleaning]
      /\ active = {q \in Sessions : pc'[q] \in Working \cup Cleaning}
      /\ pc'[s] = (IF s \in cancelled THEN "close" ELSE "set")
      /\ \A q \in Sessions \ {s} : pc'[q] = pc[q]
  BY <1>0, <1>1, StaysActive DEF Working, Cleaning
<1>3. TypesHold'
  BY <1>0, <1>2 DEF TypesHold
<1>4. AnswerOf(s)'
  BY <1>0, <1>2 DEF AnswerOf, Abandoned
<1>5. RemovalOf(s)'
  BY <1>0, <1>1, <1>2, SameKit DEF RemovalOf
<1> QED BY <1>2, <1>3, <1>4, <1>5, QuietHandler DEF Early

\* A step of CancelSets keeps the invariant.
LEMMA CancelSetsKeeps ==
  ASSUME ServerInv, NEW s \in Sessions, CancelSets(s)
  PROVE  ServerInv'
<1> USE DEF CancelSets, Goto
<1>0. TypesHold /\ AnswerOf(s) /\ KitOf(s) /\ RemovalOf(s)
  BY DEF ServerInv
<1>1. s \notin done
  BY <1>0 DEF RemovalOf
<1>2. /\ pc' \in [Sessions -> {"body", "register", "ended"} \cup Working \cup Cleaning]
      /\ active = {q \in Sessions : pc'[q] \in Working \cup Cleaning}
      /\ pc'[s] = "stop"
      /\ \A q \in Sessions \ {s} : pc'[q] = pc[q]
  BY <1>0, <1>1, StaysActive DEF Working, Cleaning
<1>3. TypesHold'
  BY <1>0, <1>2 DEF TypesHold
<1>4. AnswerOf(s)'
  BY <1>0, <1>2 DEF AnswerOf, Abandoned
<1>5. RemovalOf(s)'
  BY <1>0, <1>1, <1>2, SameKit DEF RemovalOf
<1> QED BY <1>2, <1>3, <1>4, <1>5, QuietHandler DEF Early

\* A step of EndSession keeps the invariant.
LEMMA EndSessionKeeps ==
  ASSUME ServerInv, NEW s \in Sessions, EndSession(s)
  PROVE  ServerInv'
<1> USE DEF EndSession, Unregistered
<1>0. TypesHold /\ AnswerOf(s) /\ KitOf(s) /\ RemovalOf(s)
  BY DEF ServerInv
<1>1. /\ pc'[s] = "ended" /\ \A q \in Sessions \ {s} : pc'[q] = pc[q]
      /\ pc' \in [Sessions -> {"body", "register", "ended"} \cup Working \cup Cleaning]
  BY <1>0, OneMoved
<1>2. TypesHold'
  <2>1. active' = {q \in Sessions : pc'[q] \in Working \cup Cleaning}
    BY <1>0, <1>1 DEF TypesHold, Working, Cleaning
  <2> QED BY <1>0, <1>1, <2>1 DEF TypesHold
<1>3. AnswerOf(s)'
  BY <1>0, <1>1 DEF AnswerOf, Abandoned
<1>4. RemovalOf(s)'
  BY <1>0, <1>1, SameKit DEF RemovalOf
<1> QED BY <1>1, <1>2, <1>3, <1>4, QuietHandler DEF Early

\* A step of FinishStream keeps the invariant.
LEMMA FinishStreamKeeps ==
  ASSUME ServerInv, NEW s \in Sessions, FinishStream(s)
  PROVE  ServerInv'
<1> USE DEF FinishStream
<1>0. TypesHold /\ AnswerOf(s) /\ KitOf(s) /\ RemovalOf(s)
  BY DEF ServerInv
<1>1. /\ sent[s] \in Seq(Written) /\ "done" \in Written /\ "error" \in Written
      /\ CutShort(sent[s]) /\ (sent[s] # <<>> => sent[s][Len(sent[s])] # "error")
  BY <1>0 DEF AnswerOf, TypesHold, Written
<1>2. s \notin done
  BY <1>0 DEF RemovalOf
<1>3. /\ sent' \in [Sessions -> Seq(Written)]
      /\ \A q \in Sessions \ {s} : sent'[q] = sent[q]
      /\ \/ pc' = [pc EXCEPT ![s] = "cancel"] /\ s \in lost /\ sent'[s] = sent[s]
         \/ pc' = [pc EXCEPT ![s] = "cancel"] /\ ~TerminalSent(s)
            /\ sent'[s] = Append(sent[s], "error")
         \/ pc' = [pc EXCEPT ![s] = "close"] /\ TerminalSent(s)
            /\ sent'[s] = Append(sent[s], "done")
  BY <1>0, <1>1, OneWritten, ErrorWritten
<1>4. /\ pc' \in [Sessions -> {"body", "register", "ended"} \cup Working \cup Cleaning]
      /\ active = {q \in Sessions : pc'[q] \in Working \cup Cleaning}
      /\ pc'[s] \in {"cancel", "close"}
      /\ \A q \in Sessions \ {s} : pc'[q] = pc[q]
  BY <1>0, <1>3, StaysActive DEF Working, Cleaning
<1>5. TypesHold'
  BY <1>0, <1>3, <1>4 DEF TypesHold
<1>6. AnswerOf(s)'
  <2>1. CASE pc' = [pc EXCEPT ![s] = "cancel"] /\ s \in lost /\ sent'[s] = sent[s]
    BY <1>0, <1>1, <2>1 DEF TypesHold, AnswerOf, Abandoned
  <2>2. CASE pc' = [pc EXCEPT ![s] = "cancel"] /\ ~TerminalSent(s) /\ sent'[s] = Append(sent[s], "error")
    <3>1. \A i \in DOMAIN sent[s] : sent[s][i] # "terminal"
      BY <2>2 DEF TerminalSent, ToSet
    <3>2. PlainTo(sent[s], Len(sent[s]))
      BY <1>1, <3>1, CutIsPlain
    <3>3. CutShort(sent'[s]) /\ sent'[s][Len(sent'[s])] = "error" /\ sent'[s] # <<>>
      BY <1>1, <2>2, <3>2, PlainEnds
    <3>4. pc'[s] = "cancel"
      BY <1>0, <2>2 DEF TypesHold
    <3> QED BY <3>3, <3>4 DEF AnswerOf, Abandoned
  <2>3. CASE pc' = [pc EXCEPT ![s] = "close"] /\ TerminalSent(s) /\ sent'[s] = Append(sent[s], "done")
    <3>1. PICK i \in DOMAIN sent[s] : sent[s][i] = "terminal"
      BY <2>3 DEF TerminalSent, ToSet
    <3>2. Whole(sent'[s])
      BY <1>1, <2>3, <3>1, WholeGrows
    <3>3. pc'[s] = "close"
      BY <1>0, <2>3 DEF TypesHold
    <3> QED BY <3>2, <3>3 DEF AnswerOf
  <2> QED BY <1>3, <2>1, <2>2, <2>3
<1>7. RemovalOf(s)'
  BY <1>0, <1>2, <1>4, SameKit DEF RemovalOf
<1> QED BY <1>3, <1>4, <1>5, <1>6, <1>7, QuietHandler DEF Early
\* A step of Submit keeps the invariant.
LEMMA SubmitKeeps ==
  ASSUME ServerInv, NEW s \in Sessions, Submit(s)
  PROVE  ServerInv'
<1> USE DEF Submit
<1>0. TypesHold /\ SubmitsOnce /\ AnswerOf(s) /\ KitOf(s) /\ RemovalOf(s)
  BY DEF ServerInv
<1>1. ~Live(s) /\ ~Queued(s) /\ s \notin running /\ out[s] = <<>> /\ s \notin done
  BY <1>0 DEF KitOf, Early, RemovalOf, Live
<1>2. CASE kit = "up"
  <2>1. /\ messages' \in Seq(Kinds \X Sessions)
        /\ SubmitsOnce'
        /\ \A q \in Sessions : Queued(q)' <=> Queued(q) \/ q = s
        /\ \A q \in Sessions : RemoveFollows(q) /\ q # s => RemoveFollows(q)'
    BY <1>0, <1>1, <1>2, MessagePut DEF Kinds
  <2>2. \A q : MainRemoves(q)' <=> MainRemoves(q)
    BY SameMain
  <2>3. /\ pc' \in [Sessions -> {"body", "register", "ended"} \cup Working \cup Cleaning]
        /\ active = {q \in Sessions : pc'[q] \in Working \cup Cleaning}
        /\ pc'[s] = "read"
        /\ \A q \in Sessions \ {s} : pc'[q] = pc[q]
    BY <1>0, <1>2, StaysActive DEF Working, Cleaning, Goto
  <2>4. TypesHold'
    BY <1>0, <1>2, <2>1, <2>3 DEF TypesHold
  <2>5. AnswerOf(s)'
    BY <1>0, <1>2, <2>3 DEF AnswerOf
  <2>6. KitOf(s)'
    <3>1. DOMAIN out'[s] = {}
      BY <1>1, <1>2, EmptySeq
    <3> QED BY <1>0, <1>1, <1>2, <2>1, <2>3, <3>1 DEF KitOf, Early
  <2>7. RemovalOf(s)'
    BY <1>1, <1>2, <2>1, <2>3 DEF RemovalOf, Unbegun
  <2> QED BY <1>2, <2>1, <2>2, <2>3, <2>4, <2>5, <2>6, <2>7, OneSession DEF Removed
<1>3. CASE kit # "up"
  <2>1. /\ sent' \in [Sessions -> Seq(Written)]
        /\ \A q \in Sessions \ {s} : sent'[q] = sent[q]
        /\ pc' = [pc EXCEPT ![s] = "cancel"]
        /\ s \in lost => sent'[s] = sent[s]
        /\ s \notin lost => sent'[s] = Append(sent[s], "error")
    BY <1>0, <1>3, ErrorWritten
  <2>2. /\ pc' \in [Sessions -> {"body", "register", "ended"} \cup Working \cup Cleaning]
        /\ active = {q \in Sessions : pc'[q] \in Working \cup Cleaning}
        /\ pc'[s] = "cancel"
        /\ \A q \in Sessions \ {s} : pc'[q] = pc[q]
    BY <1>0, <2>1, StaysActive DEF Working, Cleaning
  <2>3. TypesHold'
    BY <1>0, <1>3, <2>1, <2>2 DEF TypesHold
  <2>4. sent[s] \in Seq(Written) /\ PlainTo(sent[s], Len(sent[s]))
    BY <1>0 DEF TypesHold, AnswerOf
  <2>5. /\ CutShort(sent[s]) /\ CutShort(Append(sent[s], "error"))
        /\ Append(sent[s], "error")[Len(Append(sent[s], "error"))] = "error"
        /\ Append(sent[s], "error") # <<>>
    BY <2>4, PlainEnds, PlainIsCut
  <2>6. AnswerOf(s)'
    BY <1>3, <2>1, <2>2, <2>5 DEF AnswerOf, Abandoned
  <2>7. RemovalOf(s)'
    BY <1>1, <1>3, <2>2, SameKit DEF RemovalOf
  <2> QED BY <1>3, <2>1, <2>2, <2>3, <2>6, <2>7, QuietHandler DEF Early
<1> QED BY <1>2, <1>3

\* A step of CancelStops keeps the invariant.
LEMMA CancelStopsKeeps ==
  ASSUME ServerInv, NEW s \in Sessions, CancelStops(s)
  PROVE  ServerInv'
<1> USE DEF CancelStops, Stop
<1>0. TypesHold /\ SubmitsOnce /\ AnswerOf(s) /\ KitOf(s) /\ RemovalOf(s)
  BY DEF ServerInv
<1>1. /\ messages' \in Seq(Kinds \X Sessions)
      /\ SubmitsOnce'
      /\ \A q \in Sessions : Queued(q)' <=> Queued(q)
      /\ \A q \in Sessions : RemoveFollows(q) => RemoveFollows(q)'
      /\ RemoveFollows(s)'
  BY <1>0, MessagePut DEF Kinds
<1>2. \A q : MainRemoves(q)' <=> MainRemoves(q)
  BY SameMain
<1>3. /\ pc' \in [Sessions -> {"body", "register", "ended"} \cup Working \cup Cleaning]
      /\ active = {q \in Sessions : pc'[q] \in Working \cup Cleaning}
      /\ pc'[s] = "close"
      /\ \A q \in Sessions \ {s} : pc'[q] = pc[q]
  BY <1>0, StaysActive DEF Working, Cleaning, Goto
<1>4. TypesHold'
  BY <1>0, <1>1, <1>3 DEF TypesHold
<1>5. AnswerOf(s)'
  BY <1>0, <1>3 DEF AnswerOf, Abandoned
<1>6. KitOf(s)'
  BY <1>0, <1>1, <1>3 DEF KitOf, Live, Early
<1>7. RemovalOf(s)'
  BY <1>0, <1>1, <1>3 DEF RemovalOf, Removed
<1> QED BY <1>1, <1>2, <1>3, <1>4, <1>5, <1>6, <1>7, OneSession DEF Removed

\* The handler takes the first response.
LEMMA ResponseTaken ==
  ASSUME TypesHold, NEW s \in Sessions, KitOf(s), out[s] # <<>>, out' = [out EXCEPT ![s] = Tail(@)]
  PROVE  /\ out' \in [Sessions -> Seq(Responses)]
         /\ \A q \in Sessions \ {s} : out'[q] = out[q]
         /\ Head(out[s]) = out[s][1] /\ 1 \in DOMAIN out[s] /\ Head(out[s]) \in Responses
         /\ \A i \in DOMAIN out'[s] : i + 1 \in DOMAIN out[s] /\ out'[s][i] = out[s][i + 1]
         /\ \A i \in DOMAIN out'[s] : out'[s][i] # "begin"
         /\ out'[s] # <<>> => 2 \in DOMAIN out[s] /\ out'[s][1] = out[s][2]
<1> DEFINE t == Tail(out[s])
<1>1. out[s] \in Seq(Responses)
  BY DEF TypesHold
<1>2. /\ t \in Seq(Responses) /\ Len(t) = Len(out[s]) - 1 /\ Len(out[s]) \in Nat \ {0}
      /\ \A i \in 1..Len(t) : t[i] = out[s][i + 1]
      /\ Head(out[s]) = out[s][1]
      /\ DOMAIN out[s] = 1..Len(out[s]) /\ DOMAIN t = 1..Len(t)
  BY <1>1, HeadTailProperties, EmptySeq
<1>3. out'[s] = t /\ \A q \in Sessions \ {s} : out'[q] = out[q]
  BY DEF TypesHold
<1>4. out' \in [Sessions -> Seq(Responses)]
  BY <1>2 DEF TypesHold
<1>5. \A i \in 1..Len(t) : i + 1 \in 1..Len(out[s]) /\ i + 1 # 1
  BY <1>2
<1>6. \A i \in DOMAIN t : t[i] # "begin"
  BY <1>2, <1>5 DEF KitOf
<1>7. t # <<>> => 1 \in 1..Len(t)
  BY <1>2, EmptySeq
<1>8. t # <<>> => 2 \in DOMAIN out[s] /\ t[1] = out[s][2]
  BY <1>2, <1>5, <1>7
<1>9. 1 \in DOMAIN out[s] /\ Head(out[s]) \in Responses
  BY <1>1, <1>2
<1> QED BY <1>2, <1>3, <1>4, <1>5, <1>6, <1>8, <1>9

\* A step of Read keeps the invariant.
LEMMA ReadKeeps ==
  ASSUME ServerInv, NEW s \in Sessions, Read(s)
  PROVE  ServerInv'
<1> DEFINE head == Head(out[s])
<1>0. TypesHold /\ SubmitsOnce /\ AnswerOf(s) /\ KitOf(s) /\ RemovalOf(s)
  BY DEF ServerInv
<1>1. /\ pc[s] = "read" /\ out[s] # <<>> /\ out' = [out EXCEPT ![s] = Tail(@)]
      /\ UNCHANGED <<lost, cancelled, done, active, running, kit, main, locked, signals>>
  BY DEF Read
<1>2. /\ out' \in [Sessions -> Seq(Responses)]
      /\ \A q \in Sessions \ {s} : out'[q] = out[q]
      /\ head = out[s][1] /\ 1 \in DOMAIN out[s] /\ head \in Responses
      /\ \A i \in DOMAIN out'[s] : i + 1 \in DOMAIN out[s] /\ out'[s][i] = out[s][i + 1]
      /\ \A i \in DOMAIN out'[s] : out'[s][i] # "begin"
  BY <1>0, <1>1, ResponseTaken
<1>3. /\ sent[s] \in Seq(Written) /\ PlainTo(sent[s], Len(sent[s]))
      /\ CutShort(sent[s]) /\ (sent[s] # <<>> => sent[s][Len(sent[s])] # "error")
  <2>1. sent[s] \in Seq(Written) /\ PlainTo(sent[s], Len(sent[s]))
    BY <1>0, <1>1 DEF TypesHold, AnswerOf
  <2> QED BY <2>1, PlainIsCut
<1>4. /\ ~Queued(s) /\ s \notin done
      /\ Live(s) => head \in {"begin", "text"}
      /\ Live(s) /\ head = "text" /\ s \in cancelled => Removed(s)
  BY <1>0, <1>1, <1>2 DEF KitOf, RemovalOf, Unbegun
\* What is written, and whether a removal is put, by the response.
<1>5. /\ sent' \in [Sessions -> Seq(Written)]
      /\ \A q \in Sessions \ {s} : sent'[q] = sent[q]
      /\ \/ pc' = [pc EXCEPT ![s] = "cancel"] /\ s \in lost /\ sent'[s] = sent[s]
         \/ pc' = [pc EXCEPT ![s] = "cancel"] /\ sent'[s] = Append(sent[s], "error")
         \/ pc' = [pc EXCEPT ![s] = "finish"] /\ sent'[s] \in {sent[s], Append(sent[s], "terminal")}
         \/ pc' = [pc EXCEPT ![s] = "read"]
            /\ sent'[s] \in {Append(sent[s], "progress"), Append(sent[s], "text")}
  <2>1. {"progress", "text", "terminal", "error"} \subseteq Written
    BY DEF Written
  <2>2. CASE head = "begin"
    <3>1. Write(s, <<"terminal">>, "finish") \/ Write(s, <<"progress">>, "read")
      BY <2>2 DEF Read, ReadBegin, AfterStop
    <3> QED BY <1>0, <2>1, <3>1, OneWritten
  <2>3. CASE head = "text"
    <3>1. Write(s, <<"text">>, "read")
      BY <2>3 DEF Read
    <3> QED BY <1>0, <2>1, <3>1, OneWritten
  <2>4. CASE head \in {"final", "cancel"}
    <3>1. Write(s, <<"terminal">>, "finish")
      BY <2>4 DEF Read
    <3> QED BY <1>0, <2>1, <3>1, OneWritten
  <2>5. CASE head = "end"
    BY <1>0, <2>5 DEF Read, Goto, TypesHold
  <2>6. CASE head = "error"
    <3>1. WriteError(s)
      BY <2>6 DEF Read
    <3> QED BY <1>0, <3>1, ErrorWritten
  <2> QED BY <1>2, <2>2, <2>3, <2>4, <2>5, <2>6 DEF Responses
<1>6. /\ pc' \in [Sessions -> {"body", "register", "ended"} \cup Working \cup Cleaning]
      /\ active = {q \in Sessions : pc'[q] \in Working \cup Cleaning}
      /\ pc'[s] \in {"cancel", "finish", "read"}
      /\ \A q \in Sessions \ {s} : pc'[q] = pc[q]
  BY <1>0, <1>1, <1>5, StaysActive DEF Working, Cleaning
<1>7. AnswerOf(s)'
  <2>1. CASE pc' = [pc EXCEPT ![s] = "cancel"] /\ s \in lost /\ sent'[s] = sent[s]
    <3>1. pc'[s] = "cancel"
      BY <1>0, <2>1 DEF TypesHold
    <3> QED BY <1>1, <1>3, <2>1, <3>1 DEF AnswerOf, Abandoned
  <2>2. CASE pc' = [pc EXCEPT ![s] = "cancel"] /\ sent'[s] = Append(sent[s], "error")
    <3>1. pc'[s] = "cancel"
      BY <1>0, <2>2 DEF TypesHold
    <3>2. CutShort(sent'[s]) /\ sent'[s][Len(sent'[s])] = "error" /\ sent'[s] # <<>>
      BY <1>3, <2>2, PlainEnds
    <3> QED BY <3>1, <3>2 DEF AnswerOf, Abandoned
  <2>3. CASE pc' = [pc EXCEPT ![s] = "finish"] /\ sent'[s] \in {sent[s], Append(sent[s], "terminal")}
    <3>1. pc'[s] = "finish"
      BY <1>0, <2>3 DEF TypesHold
    <3>2. CutShort(sent'[s]) /\ (sent'[s] # <<>> => sent'[s][Len(sent'[s])] # "error")
      <4>1. CASE sent'[s] = sent[s]
        BY <1>3, <4>1
      <4>2. CASE sent'[s] = Append(sent[s], "terminal")
        <5>1. CutShort(sent'[s]) /\ sent'[s][Len(sent'[s])] = "terminal"
          BY <1>3, <4>2, PlainEnds
        <5> QED BY <5>1
      <4> QED BY <2>3, <4>1, <4>2
    <3> QED BY <3>1, <3>2 DEF AnswerOf
  <2>4. CASE pc' = [pc EXCEPT ![s] = "read"]
             /\ sent'[s] \in {Append(sent[s], "progress"), Append(sent[s], "text")}
    <3>1. pc'[s] = "read"
      BY <1>0, <2>4 DEF TypesHold
    <3>2. PlainTo(sent'[s], Len(sent'[s]))
      BY <1>3, <2>4, PlainGrows
    <3> QED BY <3>1, <3>2 DEF AnswerOf
  <2> QED BY <1>5, <2>1, <2>2, <2>3, <2>4
<1>8. CASE UNCHANGED messages
  <2>1. SubmitsOnce' /\ \A q : (Queued(q)' <=> Queued(q)) /\ (Removed(q)' <=> Removed(q))
    BY <1>0, <1>1, <1>8, SameMessages, SameMain DEF Removed
  <2>2. TypesHold'
    BY <1>0, <1>1, <1>2, <1>5, <1>6, <1>8 DEF TypesHold
  <2>3. KitOf(s)'
    BY <1>0, <1>1, <1>2, <1>4, <1>6, <2>1 DEF KitOf, Live, Early
  <2>4. head = "begin" => s \notin cancelled /\ s \notin lost /\ pc'[s] = "read"
    <3>1. head = "begin" => ReadBegin(s)
      BY DEF Read
    <3>2. ~Put(<<"remove", s>>)
      <4>1. messages \in Seq(Kinds \X Sessions) /\ <<"remove", s>> \in Kinds \X Sessions
        BY <1>0 DEF TypesHold, Kinds
      <4>2. Len(Append(messages, <<"remove", s>>)) # Len(messages)
        BY <4>1, AppendProperties
      <4> QED BY <1>8, <4>2 DEF Put
    <3>3. head = "begin" => s \notin cancelled /\ s \notin lost /\ Write(s, <<"progress">>, "read")
      BY <3>1, <3>2 DEF ReadBegin, Stopping
    <3> QED BY <1>0, <3>3 DEF Write, Goto, TypesHold
  <2>5. head = "text" => pc'[s] \in {"read", "cancel"}
    BY <1>0, <1>6 DEF Read, Write, Goto, TypesHold
  <2>6. RemovalOf(s)'
    <3>1. Live(s)' <=> Live(s)
      BY <1>1, <2>1 DEF Live
    <3> QED BY <1>1, <1>4, <1>6, <2>1, <2>4, <2>5, <3>1 DEF RemovalOf
  <2> QED BY <1>1, <1>2, <1>5, <1>6, <1>7, <2>1, <2>2, <2>3, <2>6, OneSession
<1>9. CASE Put(<<"remove", s>>)
  <2>1. /\ messages' \in Seq(Kinds \X Sessions)
        /\ SubmitsOnce'
        /\ \A q \in Sessions : Queued(q)' <=> Queued(q)
        /\ \A q \in Sessions : RemoveFollows(q) => RemoveFollows(q)'
        /\ RemoveFollows(s)'
    BY <1>0, <1>9, MessagePut DEF Kinds
  <2>2. \A q : MainRemoves(q)' <=> MainRemoves(q)
    BY <1>1, SameMain
  <2>3. TypesHold'
    BY <1>0, <1>1, <1>2, <1>5, <1>6, <2>1 DEF TypesHold
  <2>4. KitOf(s)'
    BY <1>0, <1>1, <1>2, <1>4, <1>6, <2>1 DEF KitOf, Live, Early
  <2>5. RemovalOf(s)'
    BY <1>1, <1>4, <1>6, <2>1 DEF RemovalOf, Removed
  <2> QED BY <1>1, <1>2, <1>5, <1>6, <1>7, <2>1, <2>2, <2>3, <2>4, <2>5, OneSession DEF Removed
<1>10. UNCHANGED messages \/ Put(<<"remove", s>>)
  BY <1>2 DEF Read, ReadBegin, Responses
<1> QED BY <1>8, <1>9, <1>10
\* A step of ClientLost keeps the invariant.
LEMMA ClientLostKeeps ==
  ASSUME ServerInv, NEW s \in Sessions, ClientLost(s)
  PROVE  ServerInv'
<1> USE DEF ClientLost
<1>1. TypesHold'
  BY DEF ServerInv, TypesHold
<1>2. \A q : /\ Queued(q)' <=> Queued(q)
             /\ Removed(q)' <=> Removed(q)
  BY SameKit
<1>3. SubmitsOnce'
  BY SameMessages DEF ServerInv
<1>4. \A q \in Sessions : AnswerOf(q)' /\ KitOf(q)' /\ RemovalOf(q)'
  BY <1>2, SessionsKept
<1> QED BY <1>1, <1>3, <1>4 DEF ServerInv

-----------------------------------------------------------------------------
(* The kit.                                                                *)

\* A step of KitTakes keeps the invariant.
LEMMA KitTakesKeeps ==
  ASSUME ServerInv, KitTakes
  PROVE  ServerInv'
<1> USE DEF KitRest
<1>0. TypesHold /\ SubmitsOnce
  BY DEF ServerInv
<1>1. /\ messages # <<>> /\ messages' = Tail(messages) /\ kit = "up" /\ kit' = kit
      /\ UNCHANGED <<handlers, lost, sessions, mainVars>>
  BY DEF KitTakes
<1>2. /\ messages' \in Seq(Kinds \X Sessions)
      /\ Head(messages) \in Kinds \X Sessions
      /\ SubmitsOnce'
      /\ \A q \in Sessions : Queued(q)' => Queued(q)
      /\ \A q \in Sessions : Queued(q) => Queued(q)' \/ Head(messages) = <<"submit", q>>
      /\ \A q \in Sessions : Head(messages) = <<"submit", q>> => Queued(q) /\ ~(Queued(q)')
      /\ \A q \in Sessions :
           RemoveFollows(q) /\ (Head(messages) # <<"remove", q>> \/ Queued(q)) => RemoveFollows(q)'
  BY <1>0, <1>1, MessageTaken
<1>b. PICK s \in Sessions, kind \in Kinds : Head(messages) = <<kind, s>>
  BY <1>2
<1>3. /\ s \in Sessions /\ kind \in Kinds /\ Head(messages) = <<kind, s>>
      /\ Head(messages)[2] = s /\ Head(messages)[1] = kind
      /\ \A q \in Sessions : q # s => Head(messages) # <<"submit", q>> /\ Head(messages) # <<"remove", q>>
  BY <1>b
<1>4. AnswerOf(s) /\ KitOf(s) /\ RemovalOf(s)
  BY <1>3 DEF ServerInv
<1>5. \A q : MainRemoves(q)' <=> MainRemoves(q)
  BY <1>1, SameMain
<1>6. \A q \in Sessions \ {s} : (Queued(q)' <=> Queued(q)) /\ (Removed(q) => Removed(q)')
  BY <1>2, <1>3, <1>5 DEF Removed
<1>7. AnswerOf(s)'
  BY <1>1, <1>4 DEF AnswerOf, Abandoned
<1>a. \A x \in Responses : \A S : Answered(S, x) =>
        /\ out' \in [Sessions -> Seq(Responses)]
        /\ \A q \in Sessions : q \notin S => out'[q] = out[q]
        /\ \A q \in Sessions : q \in S =>
             /\ out'[q] = Append(out[q], x) /\ Len(out[q]) \in Nat
             /\ Len(out'[q]) = Len(out[q]) + 1 /\ out'[q] # <<>>
             /\ DOMAIN out[q] = 1..Len(out[q]) /\ DOMAIN out'[q] = 1..(Len(out[q]) + 1)
             /\ \A i \in DOMAIN out[q] : out'[q][i] = out[q][i]
             /\ out'[q][Len(out[q]) + 1] = x
  BY <1>0, AnswerPut
<1>8. CASE kind = "submit" /\ running' = running \cup {s} /\ Answered({s}, "begin")
  <2>1. /\ Queued(s) /\ ~(Queued(s)') /\ Head(messages) # <<"remove", s>>
        /\ out[s] = <<>> /\ s \notin running /\ pc[s] \notin Early
    BY <1>2, <1>3, <1>4, <1>8 DEF KitOf, Live
  <2>2. /\ out' \in [Sessions -> Seq(Responses)]
        /\ \A q \in Sessions \ {s} : out'[q] = out[q]
        /\ out'[s] # <<>> /\ DOMAIN out'[s] = {1} /\ out'[s][1] = "begin"
    <3>1. Len(<<>>) = 0 /\ 1..1 = {1} /\ "begin" \in Responses /\ s \in {s}
      BY DEF Responses
    <3>2. Len(out[s]) = 0
      BY <2>1, <3>1
    <3>3. DOMAIN out'[s] = 1..(0 + 1) /\ out'[s] # <<>> /\ out'[s][0 + 1] = "begin"
      BY <1>3, <1>8, <1>a, <3>1, <3>2
    <3> QED BY <1>8, <1>a, <3>1, <3>3
  <2>3. TypesHold'
    BY <1>0, <1>1, <1>2, <1>3, <1>8, <2>2 DEF TypesHold
  <2>4. KitOf(s)'
    BY <1>1, <2>1, <2>2 DEF KitOf
  <2>5. Removed(s) => Removed(s)'
    BY <1>2, <1>3, <1>5, <2>1 DEF Removed
  <2>6. RemovalOf(s)'
    BY <1>1, <1>4, <2>1, <2>2, <2>5 DEF RemovalOf, Live, Unbegun
  <2> QED BY <1>1, <1>2, <1>3, <1>6, <1>7, <1>8, <2>2, <2>3, <2>4, <2>6, OneSession
<1>9. CASE kind = "submit" /\ Answered({s}, "error") /\ UNCHANGED running
  <2>1. /\ Queued(s) /\ ~(Queued(s)')
        /\ out[s] = <<>> /\ s \notin running /\ pc[s] \notin Early
    BY <1>2, <1>3, <1>4, <1>9 DEF KitOf, Live
  <2>2. /\ out' \in [Sessions -> Seq(Responses)]
        /\ \A q \in Sessions \ {s} : out'[q] = out[q]
        /\ \A i \in DOMAIN out'[s] : i = 1
    <3>1. Len(<<>>) = 0 /\ 1..1 = {1} /\ "error" \in Responses /\ s \in {s}
      BY DEF Responses
    <3>2. DOMAIN out'[s] = 1..(0 + 1)
      BY <1>3, <1>9, <1>a, <3>1, <2>1
    <3> QED BY <1>9, <1>a, <3>1, <3>2
  <2>3. TypesHold'
    BY <1>0, <1>1, <1>2, <1>9, <2>2 DEF TypesHold
  <2>4. ~(Live(s)')
    BY <1>9, <2>1 DEF Live
  <2>5. KitOf(s)' /\ RemovalOf(s)'
    BY <1>1, <1>4, <2>1, <2>2, <2>4 DEF KitOf, RemovalOf
  <2> QED BY <1>1, <1>2, <1>3, <1>6, <1>7, <1>9, <2>2, <2>3, <2>5, OneSession
<1>10. CASE kind = "remove" /\ running' = running \ {s} /\ Answered({s} \cap running, "cancel")
  <2>0. Head(messages) # <<"submit", s>> /\ (Queued(s)' <=> Queued(s))
    BY <1>2, <1>3, <1>10
  <2>1. CASE s \in running
    <3>1. ~Queued(s) /\ ~(Queued(s)') /\ pc[s] \notin Early
      BY <1>4, <2>0, <2>1 DEF KitOf, Live
    <3>2. /\ out' \in [Sessions -> Seq(Responses)]
          /\ \A q \in Sessions \ {s} : out'[q] = out[q]
          /\ \A i \in DOMAIN out'[s] : out'[s][i] = "begin" => i = 1
      <4>1. "cancel" \in Responses /\ {s} \cap running = {s} /\ s \in {s}
        BY <2>1 DEF Responses
      <4>2. /\ DOMAIN out[s] = 1..Len(out[s]) /\ DOMAIN out'[s] = 1..(Len(out[s]) + 1)
            /\ Len(out[s]) \in Nat
            /\ \A i \in DOMAIN out[s] : out'[s][i] = out[s][i]
            /\ out'[s][Len(out[s]) + 1] = "cancel"
        BY <1>3, <1>10, <1>a, <4>1
      <4>3. ASSUME NEW i \in DOMAIN out'[s], out'[s][i] = "begin" PROVE i = 1
        <5>1. i \in DOMAIN out[s] \/ i = Len(out[s]) + 1
          BY <4>2
        <5> QED BY <1>4, <4>2, <4>3, <5>1 DEF KitOf
      <4> QED BY <1>10, <1>a, <4>1, <4>3
    <3>3. TypesHold'
      BY <1>0, <1>1, <1>2, <1>10, <3>2 DEF TypesHold
    <3>4. ~(Live(s)')
      BY <1>10, <3>1 DEF Live
    <3>5. KitOf(s)' /\ RemovalOf(s)'
      BY <1>1, <1>4, <3>1, <3>2, <3>4 DEF KitOf, RemovalOf
    <3> QED BY <1>1, <1>2, <1>3, <1>6, <1>7, <1>10, <3>2, <3>3, <3>5, OneSession
  <2>2. CASE s \notin running
    <3>1. out' \in [Sessions -> Seq(Responses)] /\ \A q \in Sessions : out'[q] = out[q]
      <4>1. "cancel" \in Responses /\ {s} \cap running = {}
        BY <2>2 DEF Responses
      <4> QED BY <1>10, <1>a, <4>1
    <3>2. TypesHold'
      BY <1>0, <1>1, <1>2, <1>10, <3>1 DEF TypesHold
    <3>3. (Live(s)' <=> Live(s)) /\ (Live(s) => Queued(s))
      BY <1>10, <2>0, <2>2 DEF Live
    <3>4. Removed(s) /\ Queued(s) => Removed(s)'
      BY <1>2, <1>3, <1>5 DEF Removed
    <3>5. KitOf(s)'
      BY <1>1, <1>3, <1>4, <1>10, <2>0, <3>1, <3>3 DEF KitOf
    <3>6. RemovalOf(s)'
      BY <1>1, <1>3, <1>4, <2>0, <3>1, <3>3, <3>4 DEF RemovalOf, Unbegun
    <3> QED BY <1>1, <1>2, <1>3, <1>6, <1>7, <1>10, <3>1, <3>2, <3>5, <3>6, OneSession
  <2> QED BY <2>1, <2>2
<1> QED BY <1>3, <1>8, <1>9, <1>10 DEF KitTakes

\* A token that the kit answers with keeps the invariant.
LEMMA KitEmitsKeeps ==
  ASSUME ServerInv, NEW s \in Sessions, s \in running, kit = "up", Answered({s}, "text"),
         UNCHANGED <<messages, running, kit>>, KitRest
  PROVE  ServerInv'
<1> USE DEF KitRest
<1>0. TypesHold /\ SubmitsOnce /\ AnswerOf(s) /\ KitOf(s) /\ RemovalOf(s)
  BY DEF ServerInv
<1>1. /\ out' \in [Sessions -> Seq(Responses)]
      /\ \A q \in Sessions \ {s} : out'[q] = out[q]
      /\ DOMAIN out[s] = 1..Len(out[s]) /\ DOMAIN out'[s] = 1..(Len(out[s]) + 1)
      /\ Len(out[s]) \in Nat /\ out'[s] # <<>>
      /\ \A i \in DOMAIN out[s] : out'[s][i] = out[s][i]
      /\ out'[s][Len(out[s]) + 1] = "text"
  <2>1. "text" \in Responses /\ s \in {s}
    BY DEF Responses
  <2> QED BY <1>0, <2>1, AnswerPut
<1>2. SubmitsOnce' /\ \A q : (Queued(q)' <=> Queued(q)) /\ (Removed(q)' <=> Removed(q))
  BY <1>0, SameMessages, SameMain DEF Removed
<1>3. TypesHold'
  BY <1>0, <1>1 DEF TypesHold
<1>4. ~Queued(s) /\ pc[s] \notin Early /\ Live(s)
  BY <1>0 DEF KitOf, Live
<1>5. ASSUME NEW i \in DOMAIN out'[s]
      PROVE  i \in DOMAIN out[s] \/ out'[s][i] = "text"
  BY <1>1
<1>6. KitOf(s)'
  BY <1>0, <1>1, <1>2, <1>4, <1>5 DEF KitOf, Live
<1>7. out[s] # <<>> => out'[s][1] = out[s][1]
  <2>1. out[s] # <<>> => 1 \in DOMAIN out[s]
    BY <1>1, EmptySeq DEF TypesHold, ServerInv
  <2> QED BY <1>1, <2>1
<1>8. RemovalOf(s)'
  BY <1>0, <1>1, <1>2, <1>4, <1>7 DEF RemovalOf, Live, Unbegun
<1>9. AnswerOf(s)'
  BY <1>0 DEF AnswerOf, Abandoned
<1> QED BY <1>1, <1>2, <1>3, <1>6, <1>8, <1>9, OneSession

\* A step of KitEnds keeps the invariant.
LEMMA KitEndsKeeps ==
  ASSUME ServerInv, NEW s \in Sessions, KitEnds(s)
  PROVE  ServerInv'
<1> USE DEF KitRest
<1>0. /\ TypesHold /\ SubmitsOnce /\ AnswerOf(s) /\ KitOf(s) /\ RemovalOf(s)
      /\ s \in running /\ running' = running \ {s}
      /\ UNCHANGED <<messages, kit, handlers, lost, sessions, mainVars>>
  BY DEF ServerInv, KitEnds
<1>1. ~Queued(s) /\ pc[s] \notin Early
  BY <1>0 DEF KitOf, Live
<1>2. /\ out' \in [Sessions -> Seq(Responses)]
      /\ \A q \in Sessions \ {s} : out'[q] = out[q]
      /\ \A i \in DOMAIN out'[s] : out'[s][i] = "begin" => i = 1
  <2>1. CASE out' = [out EXCEPT ![s] = @ \o <<"final", "end">>]
    <3>1. out[s] \in Seq(Responses) /\ <<"final", "end">> \in Seq(Responses) /\ Len(<<"final", "end">>) = 2
      BY <1>0 DEF TypesHold, Responses
    <3>2. /\ out[s] \o <<"final", "end">> \in Seq(Responses)
          /\ Len(out[s] \o <<"final", "end">>) = Len(out[s]) + 2 /\ Len(out[s]) \in Nat
          /\ \A i \in 1..(Len(out[s]) + 2) : (out[s] \o <<"final", "end">>)[i] =
               IF i <= Len(out[s]) THEN out[s][i] ELSE <<"final", "end">>[i - Len(out[s])]
      BY <3>1, ConcatProperties
    <3>3. out'[s] = out[s] \o <<"final", "end">> /\ \A q \in Sessions \ {s} : out'[q] = out[q]
      BY <1>0, <2>1 DEF TypesHold
    <3>4. ASSUME NEW i \in DOMAIN out'[s], out'[s][i] = "begin" PROVE i = 1
      <4>1. i \in 1..(Len(out[s]) + 2)
        BY <3>2, <3>3
      <4>2. CASE i <= Len(out[s])
        <5>1. i \in DOMAIN out[s] /\ out[s][i] = "begin"
          BY <3>1, <3>2, <3>3, <3>4, <4>1, <4>2
        <5> QED BY <1>0, <5>1 DEF KitOf
      <4>3. CASE ~(i <= Len(out[s]))
        <5>1. i - Len(out[s]) \in {1, 2}
          BY <3>2, <4>1, <4>3
        <5>2. <<"final", "end">>[i - Len(out[s])] # "begin"
          BY <5>1
        <5> QED BY <3>2, <3>3, <3>4, <4>1, <4>3, <5>2
      <4> QED BY <4>2, <4>3
    <3>5. out' \in [Sessions -> Seq(Responses)]
      BY <1>0, <2>1, <3>2 DEF TypesHold
    <3> QED BY <3>3, <3>4, <3>5
  <2>2. CASE Answered({s}, "end")
    <3>1. "end" \in Responses /\ s \in {s}
      BY DEF Responses
    <3>2. /\ out' \in [Sessions -> Seq(Responses)]
          /\ \A q \in Sessions \ {s} : out'[q] = out[q]
          /\ DOMAIN out[s] = 1..Len(out[s]) /\ DOMAIN out'[s] = 1..(Len(out[s]) + 1)
          /\ Len(out[s]) \in Nat
          /\ \A i \in DOMAIN out[s] : out'[s][i] = out[s][i]
          /\ out'[s][Len(out[s]) + 1] = "end"
      BY <1>0, <2>2, <3>1, AnswerPut
    <3>3. ASSUME NEW i \in DOMAIN out'[s], out'[s][i] = "begin" PROVE i = 1
      <4>1. i \in DOMAIN out[s] \/ i = Len(out[s]) + 1
        BY <3>2
      <4> QED BY <1>0, <3>2, <3>3, <4>1 DEF KitOf
    <3> QED BY <3>2, <3>3
  <2> QED BY <2>1, <2>2 DEF KitEnds
<1>3. SubmitsOnce' /\ \A q : (Queued(q)' <=> Queued(q)) /\ (Removed(q)' <=> Removed(q))
  BY <1>0, SameMessages, SameMain DEF Removed
<1>4. TypesHold'
  BY <1>0, <1>2 DEF TypesHold
<1>5. ~(Live(s)')
  BY <1>0, <1>1, <1>3 DEF Live
<1>6. KitOf(s)' /\ RemovalOf(s)'
  BY <1>0, <1>1, <1>2, <1>3, <1>5 DEF KitOf, RemovalOf
<1>7. AnswerOf(s)'
  BY <1>0 DEF AnswerOf, Abandoned
<1> QED BY <1>0, <1>2, <1>3, <1>4, <1>6, <1>7, OneSession

\* When the kit goes, it answers all that it holds.
LEMMA KitGoesKeeps ==
  ASSUME ServerInv, NEW how \in {"failed", "down"}, NEW with \in {"error", "cancel"},
         KitGoes(how, with), UNCHANGED <<handlers, lost, sessions, locked, signals>>,
         main' \in Seq(PlainFrames \cup CancelFrames), main' # <<>>
  PROVE  ServerInv'
<1> USE DEF KitGoes
<1>0. TypesHold
  BY DEF ServerInv
<1>1. /\ out' \in [Sessions -> Seq(Responses)]
      /\ \A q \in Sessions : q \notin Held => out'[q] = out[q]
      /\ \A q \in Sessions : q \in Held =>
           /\ DOMAIN out[q] = 1..Len(out[q]) /\ DOMAIN out'[q] = 1..(Len(out[q]) + 1)
           /\ Len(out[q]) \in Nat
           /\ \A i \in DOMAIN out[q] : out'[q][i] = out[q][i]
           /\ out'[q][Len(out[q]) + 1] = with
  <2>1. with \in Responses
    BY DEF Responses
  <2> QED BY <1>0, <2>1, AnswerPut
<1>2. \A q \in Sessions : q \in Held <=> Live(q)
  BY <1>0 DEF Held, Live, Queued, ToSet, TypesHold
<1>3. DOMAIN messages' = {}
  BY EmptySeq
<1>4. \A q : ~(Queued(q)')
  BY <1>3 DEF Queued
<1>5. \A q : ~(Live(q)')
  BY <1>4 DEF Live
<1>6. TypesHold'
  BY <1>0, <1>1, <1>3 DEF TypesHold
<1>7. SubmitsOnce'
  BY <1>3 DEF SubmitsOnce
<1>8. ASSUME NEW q \in Sessions PROVE AnswerOf(q)' /\ KitOf(q)' /\ RemovalOf(q)'
  <2>0. AnswerOf(q) /\ KitOf(q) /\ RemovalOf(q)
    BY DEF ServerInv
  <2>1. AnswerOf(q)'
    BY <2>0 DEF AnswerOf, Abandoned
  <2>2. \A i \in DOMAIN out'[q] : out'[q][i] = "begin" => i = 1
    <3>1. CASE q \notin Held
      BY <1>1, <2>0, <3>1 DEF KitOf
    <3>2. CASE q \in Held
      <4> SUFFICES ASSUME NEW i \in DOMAIN out'[q], out'[q][i] = "begin" PROVE i = 1
        OBVIOUS
      <4>1. i \in DOMAIN out[q] \/ i = Len(out[q]) + 1
        BY <1>1, <3>2
      <4> QED BY <1>1, <2>0, <3>2, <4>1 DEF KitOf
    <3> QED BY <3>1, <3>2
  <2>3. KitOf(q)'
    BY <1>1, <1>2, <1>4, <1>5, <2>0, <2>2 DEF KitOf
  <2>4. RemovalOf(q)'
    BY <1>5, <2>0 DEF RemovalOf
  <2> QED BY <2>1, <2>3, <2>4
<1> QED BY <1>6, <1>7, <1>8 DEF ServerInv
-----------------------------------------------------------------------------
(* The main thread.                                                        *)

\* The main thread's innermost call has its type.
LEMMA TopType ==
  ASSUME TypesHold
  PROVE  /\ Top \in PlainFrames \cup CancelFrames
         /\ Top.at \in {"set", "stop"} => Top \in CancelFrames
         /\ Top.todo \subseteq Sessions
<1>1. main \in Seq(PlainFrames \cup CancelFrames) /\ main # <<>>
  BY DEF TypesHold
<1>2. Top \in PlainFrames \cup CancelFrames
  BY <1>1, HeadTailProperties DEF Top
<1> QED BY <1>2 DEF PlainFrames, CancelFrames

\* A call that is at neither "set" nor "stop".
LEMMA FrameType ==
  ASSUME NEW at \in Calls \ {"set", "stop"}, NEW todo \in SUBSET Sessions
  PROVE  Frame(at, todo) \in PlainFrames /\ Frame(at, todo).at = at /\ Frame(at, todo).todo = todo
BY DEF Frame, PlainFrames

\* A step of the main thread that cancels nobody.
LEMMA MainQuiet ==
  ASSUME ServerInv, UNCHANGED <<handlers, lost, sessions, kitVars>>,
         main' \in Seq(PlainFrames \cup CancelFrames), main' # <<>>,
         locked' \in BOOLEAN, signals' \in 0..Signals,
         \A q : MainRemoves(q) => MainRemoves(q)'
  PROVE  ServerInv'
<1>1. TypesHold'
  BY DEF ServerInv, TypesHold
<1>2. SubmitsOnce' /\ \A q : (Queued(q)' <=> Queued(q)) /\ (RemoveFollows(q)' <=> RemoveFollows(q))
  BY SameMessages DEF ServerInv
<1>3. \A q \in Sessions : Removed(q) => Removed(q)'
  BY <1>2 DEF Removed
<1>4. \A q \in Sessions : AnswerOf(q)' /\ KitOf(q)' /\ RemovalOf(q)'
  BY <1>2, <1>3, SessionsKept
<1> QED BY <1>1, <1>2, <1>4 DEF ServerInv

\* The main thread's calls and returns keep the invariant.
LEMMA MainCallsKeep ==
  ASSUME ServerInv, Signal \/ StopServing \/ TakeLock \/ CopySessions \/ CancelReturns
  PROVE  ServerInv'
<1>0. TypesHold /\ locked \in BOOLEAN /\ signals \in 0..Signals /\ active \subseteq Sessions
  BY DEF ServerInv, TypesHold
<1>1. /\ Frame("lock", {}) \in PlainFrames /\ Frame("copy", {}) \in PlainFrames
      /\ Frame("each", active) \in PlainFrames /\ Frame("unload", {}) \in PlainFrames
  BY <1>0, FrameType DEF Calls
<1>2. CASE Signal
  <2>1. signals' \in 0..Signals
    BY <1>0, <1>2, ServerAssumption DEF Signal
  <2> QED BY <1>0, <1>1, <1>2, <2>1, MainInterrupted, MainQuiet DEF Signal
<1>3. CASE StopServing
  BY <1>0, <1>1, <1>3, MainBecomes, MainQuiet DEF StopServing, MainRest
<1>4. CASE TakeLock
  BY <1>0, <1>1, <1>4, MainBecomes, MainQuiet DEF TakeLock, MainRest
<1>5. CASE CopySessions
  BY <1>0, <1>1, <1>5, MainBecomes, MainQuiet DEF CopySessions, MainRest, AfterCopy
<1>6. CASE CancelReturns
  <2>1. CASE Len(main) > 1
    BY <1>0, <1>6, <2>1, MainReturns, MainQuiet DEF CancelReturns, MainRest
  <2>2. CASE ~(Len(main) > 1)
    BY <1>0, <1>1, <1>6, <2>2, MainBecomes, MainQuiet DEF CancelReturns, MainRest
  <2> QED BY <2>1, <2>2
<1> QED BY <1>2, <1>3, <1>4, <1>5, <1>6

\* A step of MainLooks keeps the invariant.
LEMMA MainLooksKeeps ==
  ASSUME ServerInv, NEW s \in Sessions, MainLooks(s)
  PROVE  ServerInv'
<1> USE DEF MainLooks, MainRest
<1>0. TypesHold /\ locked \in BOOLEAN /\ signals \in 0..Signals
  BY DEF ServerInv, TypesHold
<1>1. Top.todo \subseteq Sessions
  BY <1>0, TopType
<1>2. Frame("each", Top.todo \ {s}) \in PlainFrames
  BY <1>1, FrameType DEF Calls
<1>3. [at |-> "set", todo |-> Top.todo, session |-> s] \in CancelFrames
  BY <1>1 DEF CancelFrames
<1> QED BY <1>0, <1>2, <1>3, MainBecomes, MainQuiet

\* A step of MainSets keeps the invariant.
LEMMA MainSetsKeeps ==
  ASSUME ServerInv, MainSets
  PROVE  ServerInv'
<1> USE DEF MainSets, MainRest
<1>0. TypesHold
  BY DEF ServerInv
<1>1. Top \in CancelFrames
  BY <1>0, TopType
<1>2. PICK s \in Sessions : Top.session = s
  BY <1>1 DEF CancelFrames
<1>3. [Top EXCEPT !.at = "stop"] \in CancelFrames /\ [Top EXCEPT !.at = "stop"].at = "stop"
      /\ [Top EXCEPT !.at = "stop"].session = s
  BY <1>1, <1>2 DEF CancelFrames
<1>4. /\ main' \in Seq(PlainFrames \cup CancelFrames) /\ main' # <<>>
      /\ MainRemoves(s)'
      /\ \A q : MainRemoves(q) /\ q # s => MainRemoves(q)'
  BY <1>0, <1>2, <1>3, MainBecomes
<1>5. TypesHold'
  BY <1>0, <1>2, <1>4 DEF TypesHold
<1>6. SubmitsOnce' /\ \A q : (Queued(q)' <=> Queued(q)) /\ (RemoveFollows(q)' <=> RemoveFollows(q))
  BY SameMessages DEF ServerInv
<1>7. AnswerOf(s) /\ KitOf(s) /\ RemovalOf(s)
  BY DEF ServerInv
<1>8. AnswerOf(s)' /\ KitOf(s)' /\ RemovalOf(s)'
  BY <1>4, <1>6, <1>7 DEF AnswerOf, Abandoned, KitOf, Live, RemovalOf, Removed
<1>9. \A q \in Sessions \ {s} : Removed(q) => Removed(q)'
  BY <1>4, <1>6 DEF Removed
<1> QED BY <1>2, <1>5, <1>6, <1>8, <1>9, OneSession

\* A step of MainStops keeps the invariant.
LEMMA MainStopsKeeps ==
  ASSUME ServerInv, MainStops
  PROVE  ServerInv'
<1> USE DEF MainStops, MainRest, Stop
<1>0. TypesHold /\ SubmitsOnce
  BY DEF ServerInv
<1>1. Top \in CancelFrames /\ Top.todo \subseteq Sessions
  BY <1>0, TopType
<1>2. PICK s \in Sessions : Top.session = s
  BY <1>1 DEF CancelFrames
<1>3. Frame("each", Top.todo \ {s}) \in PlainFrames
  BY <1>1, FrameType DEF Calls
<1>4. /\ main' \in Seq(PlainFrames \cup CancelFrames) /\ main' # <<>>
      /\ \A q : MainRemoves(q) /\ q # s => MainRemoves(q)'
  BY <1>0, <1>2, <1>3, MainBecomes
<1>5. /\ messages' \in Seq(Kinds \X Sessions)
      /\ SubmitsOnce'
      /\ \A q \in Sessions : Queued(q)' <=> Queued(q)
      /\ \A q \in Sessions : RemoveFollows(q) => RemoveFollows(q)'
      /\ RemoveFollows(s)'
  BY <1>0, <1>2, MessagePut DEF Kinds
<1>6. TypesHold'
  BY <1>0, <1>4, <1>5 DEF TypesHold
<1>7. \A q \in Sessions : Removed(q) => Removed(q)'
  BY <1>4, <1>5 DEF Removed
<1>8. \A q \in Sessions : AnswerOf(q)' /\ KitOf(q)' /\ RemovalOf(q)'
  BY <1>5, <1>7, SessionsKept
<1> QED BY <1>5, <1>6, <1>8 DEF ServerInv

\* A step of Unload keeps the invariant.
LEMMA UnloadKeeps ==
  ASSUME ServerInv, Unload
  PROVE  ServerInv'
<1> USE DEF Unload, MainRest
<1>0. TypesHold /\ locked \in BOOLEAN /\ signals \in 0..Signals
  BY DEF ServerInv, TypesHold
<1>1. Frame("exit", {}) \in PlainFrames
  BY FrameType DEF Calls
<1>2. /\ main' \in Seq(PlainFrames \cup CancelFrames) /\ main' # <<>>
      /\ \A q : MainRemoves(q) => MainRemoves(q)'
  BY <1>0, <1>1, MainBecomes
<1>3. CASE kit = "up"
  BY <1>2, <1>3, KitGoesKeeps
<1>4. CASE kit # "up"
  BY <1>0, <1>2, <1>4, MainQuiet
<1> QED BY <1>3, <1>4

-----------------------------------------------------------------------------
(* The theorems.                                                           *)

\* The server's invariant holds initially.
LEMMA ServerInitially == ServerInit => ServerInv
<1> SUFFICES ASSUME ServerInit PROVE ServerInv
  OBVIOUS
<1> USE DEF ServerInit
<1>1. DOMAIN <<>> = {} /\ <<>> \in Seq(Written) /\ <<>> \in Seq(Responses) /\ <<>> \in Seq(Kinds \X Sessions)
  BY EmptySeq
<1>2. Frame("serving", {}) \in PlainFrames
  BY FrameType DEF Calls
<1>3. TypesHold
  <2>1. main \in Seq(PlainFrames \cup CancelFrames) /\ main # <<>>
    BY <1>2
  <2>2. signals \in 0..Signals
    BY ServerAssumption
  <2>3. sent \in [Sessions -> Seq(Written)] /\ out \in [Sessions -> Seq(Responses)]
        /\ messages \in Seq(Kinds \X Sessions)
    BY <1>1
  <2> QED BY <2>1, <2>2, <2>3 DEF TypesHold, Working, Cleaning
<1>4. SubmitsOnce
  BY <1>1 DEF SubmitsOnce
<1>5. \A s \in Sessions : ~Live(s) /\ ~Queued(s)
  BY <1>1 DEF Live, Queued
<1>6. \A s \in Sessions : AnswerOf(s) /\ KitOf(s) /\ RemovalOf(s)
  BY <1>1, <1>5 DEF AnswerOf, KitOf, RemovalOf
<1> QED BY <1>3, <1>4, <1>6 DEF ServerInv

\* Every step keeps the server's invariant.
LEMMA ServerSteps == ServerInv /\ [ServerNext]_serverVars => ServerInv'
<1> SUFFICES ASSUME ServerInv, [ServerNext]_serverVars PROVE ServerInv'
  OBVIOUS
<1>1. ASSUME NEW s \in Sessions, Handler(s) \/ ClientLost(s) PROVE ServerInv'
  BY <1>1, RejectKeeps, PrepareKeeps, StartSseKeeps, SubmitKeeps, ReadKeeps, FinishStreamKeeps,
     CancelLooksKeeps, CancelSetsKeeps, CancelStopsKeeps, EndSessionKeeps, ClientLostKeeps
     DEF Handler
<1>2. ASSUME NEW s \in Sessions, KitEmits(s) PROVE ServerInv'
  <2>1. /\ s \in running /\ kit = "up" /\ Answered({s}, "text")
        /\ UNCHANGED <<messages, running, kit>> /\ KitRest
    BY <1>2 DEF KitEmits
  <2> QED BY <2>1, KitEmitsKeeps
<1>3. CASE Kit
  BY <1>2, <1>3, KitTakesKeeps, KitEndsKeeps DEF Kit
<1>4. CASE KitFails
  <2>1. main' \in Seq(PlainFrames \cup CancelFrames) /\ main' # <<>>
    BY <1>4 DEF KitFails, KitRest, ServerInv, TypesHold
  <2> QED BY <1>4, <2>1, KitGoesKeeps DEF KitFails, KitRest
<1>5. CASE Signal \/ Main
  BY <1>5, MainCallsKeep, MainLooksKeeps, MainSetsKeeps, MainStopsKeeps, UnloadKeeps DEF Main
<1>6. CASE UNCHANGED serverVars
  <2>1. TypesHold' /\ SubmitsOnce'
    BY <1>6, SameMessages DEF serverVars, ServerInv, TypesHold
  <2>2. \A q : (Queued(q)' <=> Queued(q)) /\ (Removed(q)' <=> Removed(q))
    BY <1>6, SameKit DEF serverVars
  <2>3. \A q \in Sessions : AnswerOf(q)' /\ KitOf(q)' /\ RemovalOf(q)'
    BY <1>6, <2>2, SessionsKept DEF serverVars
  <2> QED BY <2>1, <2>3 DEF ServerInv
<1> QED BY <1>1, <1>3, <1>4, <1>5, <1>6 DEF ServerNext

\* The server's invariant holds in every reachable state.
LEMMA ServerInvariant == ServerSpec => []ServerInv
BY ServerInitially, ServerSteps, PTL DEF ServerSpec

\* Type correctness follows from the invariant.
LEMMA TypesFollow == ServerInv => ServerTypeOK
<1> SUFFICES ASSUME ServerInv PROVE ServerTypeOK
  OBVIOUS
<1>1. TypesHold
  BY DEF ServerInv
<1>2. \A i \in DOMAIN main : main[i].at \in Calls /\ main[i].todo \subseteq Sessions
  <2> SUFFICES ASSUME NEW i \in DOMAIN main
               PROVE  main[i].at \in Calls /\ main[i].todo \subseteq Sessions
    OBVIOUS
  <2>1. main[i] \in PlainFrames \cup CancelFrames
    BY <1>1 DEF TypesHold
  <2> QED BY <2>1 DEF PlainFrames, CancelFrames, Calls
<1> QED BY <1>1, <1>2 DEF TypesHold, ServerTypeOK, Written, Kinds

\* One terminal payload at most: every item before the last is none, or every
\* one before the last but one.
LEMMA OneTerminal ==
  ASSUME NEW q \in Seq(Written), CutShort(q) \/ Whole(q) \/ q = <<"status">> \/ PlainTo(q, Len(q))
  PROVE  Cardinality({i \in DOMAIN q : q[i] = "terminal"}) <= 1
<1> DEFINE T == {i \in DOMAIN q : q[i] = "terminal"}
<1>1. Len(q) \in Nat /\ DOMAIN q = 1..Len(q)
  OBVIOUS
<1>2. PICK k : T \subseteq {k}
  <2>1. CASE CutShort(q) \/ PlainTo(q, Len(q))
    <3>1. PlainTo(q, Len(q) - 1)
      BY <2>1, <1>1 DEF CutShort, PlainTo
    <3>2. T \subseteq {Len(q)}
      <4> SUFFICES ASSUME NEW i \in T PROVE i = Len(q)
        OBVIOUS
      <4>1. i \in 1..(Len(q) - 1) \/ i = Len(q)
        BY <1>1
      <4> QED BY <3>1, <4>1 DEF PlainTo
    <3> QED BY <3>2
  <2>2. CASE Whole(q)
    <3>1. T \subseteq {Len(q) - 1}
      <4> SUFFICES ASSUME NEW i \in T PROVE i = Len(q) - 1
        OBVIOUS
      <4>1. i \in 1..(Len(q) - 2) \/ i = Len(q) - 1 \/ i = Len(q)
        BY <1>1
      <4> QED BY <2>2, <4>1 DEF Whole, PlainTo
    <3> QED BY <3>1
  <2>3. CASE q = <<"status">>
    BY <2>3
  <2> QED BY <2>1, <2>2, <2>3
<1>3. IsFiniteSet({k}) /\ Cardinality({k}) = 1
  BY FS_Singleton
<1>4. Cardinality(T) <= Cardinality({k})
  BY <1>2, <1>3, FS_Subset
<1> QED BY <1>3, <1>4

\* That answers are complete follows from the invariant.
LEMMA AnswersFollow == ServerInv => AnswersComplete
<1> SUFFICES ASSUME ServerInv, NEW s \in Sessions
             PROVE  /\ pc[s] = "ended" /\ s \notin lost => Last(sent[s]) \in {"status", "done", "error"}
                    /\ "done" \in ToSet(sent[s]) =>
                         /\ Last(sent[s]) = "done" /\ sent[s][Len(sent[s]) - 1] = "terminal"
                         /\ ToSet(sent[s]) \cap {"error", "status"} = {}
                    /\ Cardinality({i \in DOMAIN sent[s] : sent[s][i] = "terminal"}) <= 1
  BY DEF AnswersComplete
<1>1. AnswerOf(s) /\ sent[s] \in Seq(Written)
  BY DEF ServerInv, TypesHold
<1>2. Len(sent[s]) \in Nat /\ DOMAIN sent[s] = 1..Len(sent[s])
  BY <1>1
<1>3. PlainTo(<<>>, Len(<<>>))
  BY DEF PlainTo
<1>4. \/ CutShort(sent[s]) \/ Whole(sent[s]) \/ sent[s] = <<"status">> \/ PlainTo(sent[s], Len(sent[s]))
  <2>1. pc[s] \in {"body", "register", "headers", "submit", "read", "finish", "cancel", "set",
                   "stop", "close", "ended"}
    BY DEF ServerInv, TypesHold, Working, Cleaning
  <2> QED BY <1>1, <1>3, <2>1 DEF AnswerOf, Abandoned
<1>5. Cardinality({i \in DOMAIN sent[s] : sent[s][i] = "terminal"}) <= 1
  BY <1>1, <1>4, OneTerminal
<1>6. pc[s] = "ended" /\ s \notin lost => Last(sent[s]) \in {"status", "done", "error"}
  <2> SUFFICES ASSUME pc[s] = "ended", s \notin lost
               PROVE  Last(sent[s]) \in {"status", "done", "error"}
    OBVIOUS
  <2>1. Last(sent[s]) = sent[s][Len(sent[s])]
    BY DEF Last
  <2>2. Abandoned(s) \/ Whole(sent[s]) \/ sent[s] = <<"status">>
    BY <1>1 DEF AnswerOf
  <2>3. CASE Abandoned(s)
    BY <2>1, <2>3 DEF Abandoned
  <2>4. CASE Whole(sent[s])
    BY <2>1, <2>4 DEF Whole
  <2>5. CASE sent[s] = <<"status">>
    BY <2>1, <2>5
  <2> QED BY <2>2, <2>3, <2>4, <2>5
<1>7. ASSUME "done" \in ToSet(sent[s])
      PROVE  /\ Last(sent[s]) = "done" /\ sent[s][Len(sent[s]) - 1] = "terminal"
             /\ ToSet(sent[s]) \cap {"error", "status"} = {}
  <2>1. PICK k \in 1..Len(sent[s]) : sent[s][k] = "done"
    BY <1>2, <1>7 DEF ToSet
  <2>2. ~PlainTo(sent[s], Len(sent[s]))
    BY <2>1 DEF PlainTo
  <2>3. ~CutShort(sent[s])
    <3>1. k \in 1..(Len(sent[s]) - 1) \/ k = Len(sent[s])
      BY <1>2, <2>1
    <3>2. sent[s] # <<>>
      BY <1>2, <2>1
    <3> QED BY <2>1, <3>1, <3>2 DEF CutShort, PlainTo
  <2>4. sent[s] # <<"status">>
    BY <2>1
  <2>5. Whole(sent[s])
    BY <1>4, <2>2, <2>3, <2>4
  <2>6. ASSUME NEW i \in 1..Len(sent[s]) PROVE sent[s][i] \notin {"error", "status"}
    <3>1. i \in 1..(Len(sent[s]) - 2) \/ i = Len(sent[s]) - 1 \/ i = Len(sent[s])
      BY <1>2
    <3> QED BY <2>5, <3>1 DEF Whole, PlainTo
  <2> QED BY <1>2, <2>5, <2>6 DEF Whole, Last, ToSet
<1> QED BY <1>5, <1>6, <1>7

\* That the kit runs nothing for nobody follows from the invariant.
LEMMA OrphansFollow == ServerInv => NoOrphan
<1> SUFFICES ASSUME ServerInv, NEW s \in running \ active
             PROVE  \/ <<"remove", s>> \in ToSet(messages)
                    \/ \E i \in DOMAIN main : main[i].at \in {"set", "stop"} /\ main[i].session = s
  BY DEF NoOrphan
<1>1. s \in Sessions /\ Live(s) /\ KitOf(s) /\ RemovalOf(s)
  BY DEF ServerInv, TypesHold, Live
<1>2. pc[s] = "ended"
  BY <1>1 DEF KitOf, Early, ServerInv, TypesHold
<1>3. Removed(s)
  BY <1>1, <1>2 DEF RemovalOf
<1> QED BY <1>3 DEF Removed, RemoveFollows, MainRemoves, ToSet

\* Whatever clients, signals and the kit do: no answer looks complete that is
\* not, and no generation outlives its session unless its removal is under way.
THEOREM ServerRequestsEndWell == ServerSpec => []RequestsEndWell
<1>1. ServerInv => RequestsEndWell
  BY TypesFollow, AnswersFollow, OrphansFollow DEF RequestsEndWell
<1> QED BY <1>1, ServerInvariant, PTL

-----------------------------------------------------------------------------
(* A cancel that comes early holds.                                        *)

\* A session whose text is held back stays so when its handler, its answer and its cancel stay.
LEMMA HeldBackFrame ==
  ASSUME NEW s \in Sessions, HeldBack(s), pc'[s] = pc[s], sent'[s] = sent[s],
         cancelled \subseteq cancelled',
         s \in running' => s \in running,
         out'[s] = out[s] \/ (out'[s] # <<>> /\ out'[s][1] # "text")
  PROVE  HeldBack(s)'
BY DEF HeldBack

\* The kit adds to what a held-back session reads: no text comes first.
LEMMA HeldBackAnswered ==
  ASSUME ServerInv, NEW s \in Sessions, HeldBack(s), NEW S, NEW x \in Responses, Answered(S, x),
         UNCHANGED <<handlers, sessions>>,
         s \in running' => s \in running \/ (s \in S /\ x # "text"),
         x = "text" => S \subseteq running
  PROVE  HeldBack(s)'
<1>0. TypesHold /\ out[s] \in Seq(Responses)
  BY DEF ServerInv, TypesHold
<1>1. CASE s \notin S
  BY <1>0, <1>1, AnswerPut, HeldBackFrame
<1>2. CASE s \in S
  <2>1. /\ out'[s] # <<>> /\ Len(out[s]) \in Nat
        /\ \A i \in 1..Len(out[s]) : out'[s][i] = out[s][i]
        /\ out'[s][Len(out[s]) + 1] = x
    BY <1>0, <1>2, AnswerPut
  <2>2. CASE out[s] = <<>>
    <3>1. pc[s] = "read" => x # "text"
      BY <1>2, <2>2 DEF HeldBack
    <3>2. out'[s][1] = x
      <4>1. Len(out[s]) + 1 = 1
        BY <2>2
      <4> QED BY <2>1, <4>1
    <3> QED BY <2>1, <3>1, <3>2 DEF HeldBack
  <2>3. CASE out[s] # <<>>
    <3>1. 1 \in 1..Len(out[s])
      BY <1>0, <2>3, EmptySeq
    <3> QED BY <2>1, <2>3, <3>1 DEF HeldBack
  <2> QED BY <2>2, <2>3
<1> QED BY <1>1, <1>2

\* No step of the kit ends the holding back.
LEMMA HeldBackByKit ==
  ASSUME ServerInv, NEW s \in Sessions, HeldBack(s), Kit
  PROVE  HeldBack(s)'
<1> USE DEF KitRest
<1>0. TypesHold
  BY DEF ServerInv
<1>1. CASE KitTakes
  <2>1. PICK kind \in Kinds, q \in Sessions : Head(messages) = <<kind, q>>
    BY <1>0, <1>1 DEF TypesHold, KitTakes
  <2>2. UNCHANGED <<handlers, sessions>>
    BY <1>1 DEF KitTakes
  <2>3. {"begin", "error", "cancel"} \subseteq Responses \ {"text"}
    BY DEF Responses
  <2>4. CASE running' = running \cup {q} /\ Answered({q}, "begin")
    <3>1. s \in running' => s \in running \/ s \in {q}
      BY <2>4
    <3> QED BY <2>2, <2>3, <2>4, <3>1, HeldBackAnswered
  <2>5. CASE Answered({q}, "error") /\ UNCHANGED running
    <3>1. s \in running' => s \in running
      BY <2>5
    <3> QED BY <2>2, <2>3, <2>5, <3>1, HeldBackAnswered
  <2>6. CASE running' = running \ {q} /\ Answered({q} \cap running, "cancel")
    <3>1. (s \in running' => s \in running) /\ "cancel" \in Responses /\ "cancel" # "text"
      BY <2>3, <2>6
    <3>2. PICK S : S = {q} \cap running
      OBVIOUS
    <3>3. Answered(S, "cancel")
      BY <2>6, <3>2
    <3> QED BY <2>2, <3>1, <3>3, HeldBackAnswered
  <2>7. Head(messages)[2] = q
    BY <2>1
  <2>8. \/ running' = running \cup {q} /\ Answered({q}, "begin")
        \/ Answered({q}, "error") /\ UNCHANGED running
        \/ running' = running \ {q} /\ Answered({q} \cap running, "cancel")
    <3> HIDE DEF KitRest, Answered
    <3> QED BY <1>1, <2>7 DEF KitTakes
  <2> QED BY <2>4, <2>5, <2>6, <2>8
<1>2. ASSUME NEW q \in Sessions, KitEmits(q) PROVE HeldBack(s)'
  <2>1. /\ Answered({q}, "text") /\ UNCHANGED <<handlers, sessions, running>>
        /\ {q} \subseteq running /\ "text" \in Responses
    BY <1>2 DEF KitEmits, Responses
  <2> QED BY <2>1, HeldBackAnswered
<1>3. ASSUME NEW q \in Sessions, KitEnds(q) PROVE HeldBack(s)'
  <2>1. running' = running \ {q} /\ UNCHANGED <<handlers, sessions>> /\ q \in running
    BY <1>3 DEF KitEnds
  <2>2. CASE Answered({q}, "end")
    <3>1. "end" \in Responses
      BY DEF Responses
    <3> QED BY <2>1, <2>2, <3>1, HeldBackAnswered
  <2>3. CASE out' = [out EXCEPT ![q] = @ \o <<"final", "end">>]
    <3>1. CASE q # s
      BY <1>0, <2>1, <2>3, <3>1, HeldBackFrame DEF TypesHold
    <3>2. CASE q = s
      <4>1. out[s] \in Seq(Responses) /\ <<"final", "end">> \in Seq(Responses)
            /\ Len(<<"final", "end">>) = 2 /\ out'[s] = out[s] \o <<"final", "end">>
        BY <1>0, <2>3, <3>2 DEF TypesHold, Responses
      <4>2. /\ Len(out'[s]) = Len(out[s]) + 2 /\ Len(out[s]) \in Nat
            /\ \A i \in 1..Len(out'[s]) : out'[s][i] =
                 IF i <= Len(out[s]) THEN out[s][i] ELSE <<"final", "end">>[i - Len(out[s])]
        BY <4>1, ConcatProperties
      <4>3. 1 \in 1..Len(out'[s])
        BY <4>2
      <4>4. pc[s] = "read" => out[s] # <<>> /\ out[s][1] # "text"
        BY <2>1, <3>2 DEF HeldBack
      <4>5. out[s] # <<>> => 1 <= Len(out[s])
        BY <4>1, EmptySeq
      <4>6. pc[s] = "read" => out'[s][1] = out[s][1]
        BY <4>2, <4>3, <4>4, <4>5
      <4> QED BY <2>1, <3>2, <4>4, <4>6 DEF HeldBack
    <3> QED BY <3>1, <3>2
  <2> QED BY <1>3, <2>2, <2>3 DEF KitEnds
<1> QED BY <1>1, <1>2, <1>3 DEF Kit

\* The end of the kit, by a failure or a shutdown, does not end the holding back.
LEMMA HeldBackAsKitGoes ==
  ASSUME ServerInv, NEW s \in Sessions, HeldBack(s), NEW how, NEW with \in {"error", "cancel"},
         KitGoes(how, with), UNCHANGED <<handlers, sessions>>
  PROVE  HeldBack(s)'
<1>1. Answered(Held, with) /\ running' = {} /\ with \in Responses \ {"text"}
  BY DEF KitGoes, Responses
<1> QED BY <1>1, HeldBackAnswered

\* No step of the session's own handler ends the holding back.
LEMMA HeldBackByHandler ==
  ASSUME ServerInv, NEW s \in Sessions, HeldBack(s), Handler(s)
  PROVE  HeldBack(s)'
<1>0. /\ TypesHold /\ sent[s] \in Seq(Written) /\ s \in cancelled
      /\ pc[s] \notin {"body", "register"}
      /\ \A i \in DOMAIN sent[s] : sent[s][i] # "text"
  BY DEF ServerInv, TypesHold, HeldBack
\* One item that is no text may be written on the way to what is not a reading.
<1>1. ASSUME NEW x \in Written \ {"text"}, sent'[s] \in {sent[s], Append(sent[s], x)}
      PROVE  \A i \in DOMAIN sent'[s] : sent'[s][i] # "text"
  <2>1. /\ Len(Append(sent[s], x)) = Len(sent[s]) + 1 /\ Len(sent[s]) \in Nat
        /\ \A i \in 1..Len(sent[s]) : Append(sent[s], x)[i] = sent[s][i]
        /\ Append(sent[s], x)[Len(sent[s]) + 1] = x
        /\ DOMAIN Append(sent[s], x) = 1..Len(Append(sent[s], x))
    BY <1>0, OneMore
  <2>2. \A i \in 1..(Len(sent[s]) + 1) : i \in 1..Len(sent[s]) \/ i = Len(sent[s]) + 1
    BY <2>1
  <2>3. CASE sent'[s] = sent[s]
    BY <1>0, <2>3
  <2>4. CASE sent'[s] = Append(sent[s], x)
    <3> SUFFICES ASSUME NEW i \in 1..(Len(sent[s]) + 1)
                 PROVE  Append(sent[s], x)[i] # "text"
      BY <2>1, <2>4
    <3>1. CASE i \in 1..Len(sent[s])
      <4>1. i \in DOMAIN sent[s]
        BY <1>0, <3>1
      <4> QED BY <1>0, <2>1, <3>1, <4>1
    <3>2. CASE i = Len(sent[s]) + 1
      BY <2>1, <3>2
    <3> QED BY <2>2, <3>1, <3>2
  <2> QED BY <1>1, <2>3, <2>4
<1>2. {"headers", "terminal", "done", "error"} \subseteq Written \ {"text"}
  BY DEF Written
<1>3. CASE StartSse(s)
  <2>1. Write(s, <<"headers">>, "submit") /\ UNCHANGED cancelled
    BY <1>3 DEF StartSse
  <2>2. pc'[s] \in {"cancel", "submit"} /\ sent'[s] \in {sent[s], Append(sent[s], "headers")}
    BY <1>0, <1>2, <2>1, OneWritten DEF TypesHold
  <2> QED BY <1>0, <1>1, <1>2, <2>1, <2>2 DEF HeldBack
<1>4. CASE Submit(s)
  <2>1. out[s] = <<>> /\ s \notin running
    BY <1>4 DEF ServerInv, Submit, KitOf, Early, Live
  <2>2. UNCHANGED <<cancelled, out, running>>
    BY <1>4 DEF Submit
  <2>3. CASE Goto(s, "read") /\ UNCHANGED sent
    BY <1>0, <2>1, <2>2, <2>3, OneMoved DEF HeldBack
  <2>4. CASE WriteError(s)
    <3>1. pc'[s] = "cancel" /\ sent'[s] \in {sent[s], Append(sent[s], "error")}
      BY <1>0, <2>4, ErrorWritten DEF TypesHold
    <3> QED BY <1>0, <1>1, <1>2, <2>2, <3>1 DEF HeldBack
  <2> QED BY <1>4, <2>3, <2>4 DEF Submit
<1>5. CASE Read(s)
  <2>1. pc[s] = "read" /\ out[s] # <<>> /\ UNCHANGED cancelled
    BY <1>5 DEF Read
  <2>2. out[s] \in Seq(Responses) /\ Head(out[s]) = out[s][1] /\ out[s][1] # "text" /\ out[s][1] \in Responses
    BY <2>1, HeadTailProperties, EmptySeq DEF HeldBack, ServerInv, TypesHold
  <2>3. \/ Write(s, <<"terminal">>, "finish") \/ WriteError(s)
        \/ Goto(s, "finish") /\ UNCHANGED sent
    BY <1>0, <1>5, <2>2 DEF Read, ReadBegin, Stopping, AfterStop, Responses
  <2>4. /\ pc'[s] \in {"cancel", "finish"}
        /\ \E x \in {"terminal", "error"} : sent'[s] \in {sent[s], Append(sent[s], x)}
    <3>1. CASE Write(s, <<"terminal">>, "finish")
      BY <1>0, <1>2, <3>1, OneWritten DEF TypesHold
    <3>2. CASE WriteError(s)
      BY <1>0, <3>2, ErrorWritten DEF TypesHold
    <3>3. CASE Goto(s, "finish") /\ UNCHANGED sent
      BY <1>0, <3>3, OneMoved
    <3> QED BY <2>3, <3>1, <3>2, <3>3
  <2> QED BY <1>0, <1>1, <1>2, <2>1, <2>4 DEF HeldBack
<1>6. CASE FinishStream(s)
  <2>1. UNCHANGED cancelled /\ (Write(s, <<"done">>, "close") \/ WriteError(s))
    BY <1>6 DEF FinishStream
  <2>2. /\ pc'[s] \in {"cancel", "close"}
        /\ \E x \in {"done", "error"} : sent'[s] \in {sent[s], Append(sent[s], x)}
    <3>1. CASE Write(s, <<"done">>, "close")
      BY <1>0, <1>2, <3>1, OneWritten DEF TypesHold
    <3>2. CASE WriteError(s)
      BY <1>0, <3>2, ErrorWritten DEF TypesHold
    <3> QED BY <2>1, <3>1, <3>2
  <2> QED BY <1>0, <1>1, <1>2, <2>1, <2>2 DEF HeldBack
<1>7. CASE CancelLooks(s)
  BY <1>0, <1>7, OneMoved DEF CancelLooks, HeldBack
<1>8. CASE CancelSets(s)
  BY <1>0, <1>8, OneMoved DEF CancelSets, HeldBack
<1>9. CASE CancelStops(s)
  BY <1>0, <1>9, OneMoved DEF CancelStops, HeldBack
<1>10. CASE EndSession(s)
  BY <1>0, <1>10, OneMoved DEF EndSession, HeldBack
<1>11. ~Reject(s) /\ ~Prepare(s) /\ ~RegisterSession(s)
  BY <1>0 DEF Reject, Prepare, RegisterSession
<1> QED BY <1>3, <1>4, <1>5, <1>6, <1>7, <1>8, <1>9, <1>10, <1>11 DEF Handler

\* No step of another session's handler ends the holding back.
LEMMA HeldBackByOthers ==
  ASSUME ServerInv, NEW s \in Sessions, HeldBack(s), NEW q \in Sessions \ {s}, Handler(q)
  PROVE  HeldBack(s)'
<1>1. pc'[s] = pc[s] /\ sent'[s] = sent[s]
  BY DEF Handler, Reject, Prepare, RegisterSession, StartSse, Submit, Read, ReadBegin, AfterStop,
         FinishStream, CancelLooks, CancelSets, CancelStops, EndSession, Write, WriteError, Goto,
         ServerInv, TypesHold
<1>2. cancelled \subseteq cancelled' /\ UNCHANGED running /\ out'[s] = out[s]
  BY DEF Handler, Reject, Prepare, RegisterSession, StartSse, Submit, Read, FinishStream,
         CancelLooks, CancelSets, CancelStops, EndSession, ServerInv, TypesHold
<1> QED BY <1>1, <1>2, HeldBackFrame

\* No step ends the holding back.
LEMMA HeldBackStays ==
  ASSUME ServerInv, NEW s \in Sessions, HeldBack(s), [ServerNext]_serverVars
  PROVE  HeldBack(s)'
<1>1. ASSUME NEW q \in Sessions, Handler(q) \/ ClientLost(q) PROVE HeldBack(s)'
  <2>1. CASE ClientLost(q)
    BY <2>1, HeldBackFrame DEF ClientLost
  <2> QED BY <1>1, <2>1, HeldBackByHandler, HeldBackByOthers
<1>2. CASE KitFails
  BY <1>2, HeldBackAsKitGoes DEF KitFails, KitRest
<1>3. CASE Main /\ ~Unload
  BY <1>3, HeldBackFrame DEF Main, StopServing, TakeLock, CopySessions, MainSets, MainStops,
     CancelReturns, MainLooks, MainRest
<1>4. CASE Unload
  <2>1. CASE kit = "up"
    BY <1>4, <2>1, HeldBackAsKitGoes DEF Unload, MainRest
  <2>2. CASE kit # "up"
    BY <1>4, <2>2, HeldBackFrame DEF Unload, MainRest
  <2> QED BY <2>1, <2>2
<1>5. CASE Signal \/ UNCHANGED serverVars
  BY <1>5, HeldBackFrame DEF Signal, serverVars
<1> QED BY <1>1, <1>2, <1>3, <1>4, <1>5, HeldBackByKit DEF ServerNext

\* A session cancelled before the kit was asked, so that its removal finds
\* nothing to remove, shows no text, however the threads interleave.
THEOREM ServerEarlyCancelHolds == ServerSpec => EarlyCancelHolds
<1>1. ASSUME NEW s \in Sessions
      PROVE  ServerSpec => [](CancelledEarly(s) => []("text" \notin ToSet(sent[s])))
  <2>1. ServerInv /\ CancelledEarly(s) => HeldBack(s)
    BY DEF ServerInv, CancelledEarly, HeldBack, AnswerOf
  <2>2. ServerInv /\ HeldBack(s) /\ [ServerNext]_serverVars => HeldBack(s)'
    BY HeldBackStays
  <2>3. HeldBack(s) => "text" \notin ToSet(sent[s])
    BY DEF HeldBack, ToSet
  <2> QED BY <2>1, <2>2, <2>3, ServerInvariant, PTL DEF ServerSpec
<1> QED BY <1>1 DEF EarlyCancelHolds
=============================================================================
