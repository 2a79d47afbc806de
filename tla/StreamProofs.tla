------------------------------ MODULE StreamProofs ------------------------------
(***************************************************************************)
(* Proofs about GenerationStream and the stop strings it looks for: its    *)
(* types, how a stream ends, and that what it shows is the text of the     *)
(* model up to the earliest stop string.                                   *)
(***************************************************************************)
EXTENDS GenerationStream, SequenceTheorems, WellFoundedInduction, TLAPS

\* If a text neither contains a stop string nor ends with the start of
\* one, an occurrence in any continuation of the text starts after it: the
\* stop string processor may forget it.
THEOREM ForgottenTextCannotMatter ==
  ASSUME NEW Char, NEW s \in Seq(Char), NEW later \in Seq(Char),
         NEW p \in Seq(Char), Len(p) > 0,
         ~Occurs(p, s), ~Overlap(s, p),
         NEW i \in 1..Len(s \o later), OccursAt(p, s \o later, i)
  PROVE  i > Len(s)
<1> SUFFICES ASSUME i <= Len(s) PROVE FALSE
  OBVIOUS
<1> DEFINE n == Len(s) - i + 1
<1>1. i + Len(p) <= Len(s) + Len(later) + 1
  BY DEF OccursAt
<1>2. \A k \in 1..Len(p) : (s \o later)[i + k - 1] = p[k]
  BY DEF OccursAt
<1>3. \A k \in 1..Len(p) : i + k - 1 <= Len(s) => s[i + k - 1] = p[k]
  <2> TAKE k \in 1..Len(p)
  <2> HAVE i + k - 1 <= Len(s)
  <2>1. i + k - 1 \in 1..Len(s)
    OBVIOUS
  <2>2. (s \o later)[i + k - 1] = s[i + k - 1]
    BY <2>1
  <2> QED BY <1>2, <2>2
<1>4. CASE i + Len(p) <= Len(s) + 1
  <2>1. OccursAt(p, s, i)
    BY <1>3, <1>4 DEF OccursAt
  <2> QED BY <2>1 DEF Occurs, Positions
<1>5. CASE i + Len(p) > Len(s) + 1
  <2>1. n \in 1..Len(p) /\ n <= Len(s)
    BY <1>5
  <2>2. ASSUME NEW k \in 1..n PROVE s[Len(s) - n + k] = p[k]
    <3>1. Len(s) - n + k = i + k - 1
      OBVIOUS
    <3>2. k \in 1..Len(p) /\ i + k - 1 <= Len(s)
      BY <2>1
    <3> QED BY <1>3, <3>1, <3>2
  <2>3. SuffixMeetsPrefix(s, p, n)
    BY <2>1, <2>2 DEF SuffixMeetsPrefix
  <2> QED BY <2>1, <2>3 DEF Overlap
<1> QED BY <1>4, <1>5

\* The same for the verdict the processor acts on: after "no_match" every
\* stop string that is still to come starts in text still to come.
THEOREM NoMatchMayForget ==
  ASSUME NEW Char, NEW s \in Seq(Char), NEW later \in Seq(Char),
         NEW stops \in Seq(Seq(Char)),
         Status(s, stops) = "no_match",
         NEW j \in DOMAIN stops, Len(stops[j]) > 0,
         NEW i \in 1..Len(s \o later), OccursAt(stops[j], s \o later, i)
  PROVE  i > Len(s)
<1>1. Matching(s, stops) = {} /\ ~\E m \in DOMAIN stops : Overlap(s, stops[m])
  BY DEF Status
<1>2. ~Occurs(stops[j], s) /\ ~Overlap(s, stops[j])
  BY <1>1 DEF Matching
<1>3. stops[j] \in Seq(Char)
  OBVIOUS
<1> QED BY <1>2, <1>3, ForgottenTextCannotMatter

-----------------------------------------------------------------------------
\* Where a stop reason may stand while the generator is still running.
ReasonIsLast ==
  phase \in {"reading", "leaving"} =>
    \A i \in DOMAIN results :
      results[i].stop # None => i = Len(results) /\ (phase = "leaving" \/ finish # None)

StreamInv ==
  /\ TypeOK
  /\ \E S : results \in Seq(S)
  /\ ReasonIsLast
  /\ OneStopReason

\* The invariant holds initially.
LEMMA StreamInit == Init => StreamInv
<1> HAVE Init
<1>1. results = <<>> /\ tokens = <<>> /\ ids = <<>> /\ generated = <<>>
  BY DEF Init
<1>2. results \in Seq({}) /\ DOMAIN results = {}
  BY <1>1
<1>3. tokens \in Seq(Tokens) /\ ids \in Seq(Tokens) /\ generated \in Seq(Tokens)
  BY <1>1
<1>4. TypeOK
  BY <1>2, <1>3 DEF Init, TypeOK, None
<1> QED BY <1>2, <1>4 DEF Init, StreamInv, ReasonIsLast, OneStopReason

\* The results of one turn of the loop: what was there, and what was added.
LEMMA Appended ==
  ASSUME NEW S, NEW rs \in Seq(S), NEW more, NEW T, more \in Seq(T)
  PROVE  /\ rs \o more \in Seq(S \cup T)
         /\ Len(rs \o more) = Len(rs) + Len(more)
         /\ \A i \in DOMAIN (rs \o more) :
              \/ i \in DOMAIN rs /\ (rs \o more)[i] = rs[i]
              \/ /\ i - Len(rs) \in DOMAIN more
                 /\ (rs \o more)[i] = more[i - Len(rs)]
<1>1. rs \in Seq(S \cup T) /\ more \in Seq(S \cup T)
  OBVIOUS
<1> QED BY <1>1

\* While the loop reads, no result has given a stop reason; one turn of it adds
\* results of which only the last one may.
LEMMA OneTurn ==
  ASSUME StreamInv, phase = "reading", finish = None,
         NEW T, NEW more \in Seq(T), results' = results \o more,
         \A i \in DOMAIN more : /\ ResultOK(more[i])
                                /\ more[i].stop # None => i = Len(more)
  PROVE  /\ \E S : results' \in Seq(S)
         /\ \A i \in DOMAIN results' : /\ ResultOK(results'[i])
                                       /\ results'[i].stop # None => i = Len(results')
<1>1. PICK S : results \in Seq(S)
  BY DEF StreamInv
<1>2. \A i \in DOMAIN results : results[i].stop = None
  BY DEF StreamInv, ReasonIsLast
<1>3. \A i \in DOMAIN results : ResultOK(results[i])
  BY DEF StreamInv, TypeOK
<1>4. results' \in Seq(S \cup T) /\ Len(results') = Len(results) + Len(more)
  BY <1>1, Appended
<1>5. ASSUME NEW i \in DOMAIN results'
      PROVE  /\ ResultOK(results'[i])
             /\ results'[i].stop # None => i = Len(results')
  <2>1. \/ i \in DOMAIN results /\ results'[i] = results[i]
        \/ i - Len(results) \in DOMAIN more /\ results'[i] = more[i - Len(results)]
    BY <1>1, <1>5, Appended
  <2>2. i \in 1..(Len(results) + Len(more)) /\ Len(results) \in Nat /\ Len(more) \in Nat
    BY <1>1, <1>4
  <2> QED BY <1>2, <1>3, <1>4, <2>1, <2>2
<1> QED BY <1>4, <1>5

\* Sequences of one item and of two.
LEMMA OneOrTwo ==
  ASSUME NEW a, NEW b
  PROVE  /\ Append(<<>>, b) = <<b>> /\ <<b>> \in Seq({a, b}) /\ Len(<<b>>) = 1
         /\ \A i \in DOMAIN <<b>> : <<b>>[i] = b /\ i = 1
         /\ Append(<<a>>, b) \in Seq({a, b}) /\ Len(Append(<<a>>, b)) = 2
         /\ \A i \in DOMAIN Append(<<a>>, b) :
              \/ Append(<<a>>, b)[i] = a /\ i = 1
              \/ Append(<<a>>, b)[i] = b /\ i = 2
<1>1. Append(<<>>, b) = <<b>> /\ <<b>> \in Seq({a, b}) /\ Len(<<b>>) = 1
  OBVIOUS
<1>2. DOMAIN <<b>> = {1} /\ <<b>>[1] = b
  OBVIOUS
<1>3. <<a>> \in Seq({a, b}) /\ Len(<<a>>) = 1 /\ <<a>>[1] = a
  OBVIOUS
<1>4. Append(<<a>>, b) \in Seq({a, b}) /\ Len(Append(<<a>>, b)) = 2
  BY <1>3
<1>5. Append(<<a>>, b)[1] = a /\ Append(<<a>>, b)[2] = b
  BY <1>3
<1> QED BY <1>1, <1>2, <1>4, <1>5

\* A step of Read keeps the invariant.
LEMMA ReadStep ==
  ASSUME StreamInv, NEW t \in Tokens, Read(t)
  PROVE  StreamInv'
<1> DEFINE after == Append(generated, t)
           reason == Finish(after)
           s == text \o Segment(generated, after, reason)
           ts == Append(tokens, t)
           seen == Append(ids, t)
           status == StopStatus(seen)
<1>1. after \in Seq(Tokens) /\ ts \in Seq(Tokens) /\ seen \in Seq(Tokens)
  BY DEF StreamInv, TypeOK
<1>2. Last(after) = t /\ Last(ts) = t
  BY DEF StreamInv, TypeOK, Last
<1>3. /\ reason \in {None, "stop", "length"}
      /\ reason = "length" => t \notin EosTokens
  BY <1>2 DEF Finish, None
<1>4. /\ generated' = after /\ finish' = reason /\ cancel' = cancel /\ batched' = batched
      /\ vision' = vision /\ backend' = IF reason = None THEN backend ELSE "done"
      /\ ids' = IdsAfter(seen, status)
      /\ phase = "reading" /\ finish = None
  BY DEF Read
<1>5. ids' \in Seq(Tokens)
  BY <1>1, <1>4 DEF IdsAfter
<1> HIDE DEF after, reason, s, ts, seen, status
<1>6. CASE status = "full_stop"
  <2>1. StopHere(s, ts, seen)
    BY <1>6 DEF Read, after, reason, s, ts, seen, status
  <2>2. PICK w : results' = Append(results, Result(w, ts, "stop_string"))
    BY <2>1 DEF StopHere, StopStringResult
  <2> DEFINE r == Result(w, ts, "stop_string")
  <2>3. ResultOK(r)
    BY <1>1 DEF Result, ResultOK, StopReasons
  <2>4. <<r>> \in Seq({r}) /\ results' = results \o <<r>>
    BY <2>2 DEF StreamInv
  <2> HIDE DEF r
  <2>10. DOMAIN <<r>> = {1} /\ <<r>>[1] = r /\ Len(<<r>>) = 1
    OBVIOUS
  <2>5. /\ \E S : results' \in Seq(S)
        /\ \A i \in DOMAIN results' : /\ ResultOK(results'[i])
                                      /\ results'[i].stop # None => i = Len(results')
    BY <1>1, <1>4, <2>3, <2>4, <2>10, OneTurn
  <2>6. phase' = "leaving" /\ tokens' = tokens
    BY <2>1 DEF StopHere
  <2>7. TypeOK'
    BY <1>1, <1>3, <1>4, <1>5, <2>5, <2>6 DEF StreamInv, TypeOK
  <2> QED BY <2>5, <2>6, <2>7 DEF StreamInv, ReasonIsLast, OneStopReason
<1>7. CASE status = "no_match"
  <2>1. YieldText(s, ts, reason)
    BY <1>7 DEF Read, after, reason, s, ts, seen, status
  <2> DEFINE yields == ShouldYield(s, t)
             r == Result(s, ts, EosOf(t))
             told == IF yields THEN <<r>> ELSE <<>>
             more == WithLimit(told, reason)
  <2>2. r.stop = EosOf(t) /\ ResultOK(r) /\ ResultOK(TokenLimit)
    BY <1>1 DEF Result, TokenLimit, ResultOK, StopReasons, EosOf, None
  <2>3. /\ results' = results \o more
        /\ tokens' \in Seq(Tokens)
        /\ phase' = IF batched /\ reason = "length" THEN "returned" ELSE "reading"
    BY <1>1, <1>2, <2>1 DEF YieldText, TokensLeft
  <2>4. reason = "length" => EosOf(t) = None
    BY <1>3 DEF EosOf
  <2>5. EosOf(t) # None => reason # None
    BY <1>2 DEF EosOf, Finish, reason, None
  <2> HIDE DEF r, more, told, yields
  <2>6. /\ more \in Seq({r, TokenLimit})
        /\ \A i \in DOMAIN more : /\ ResultOK(more[i])
                                  /\ more[i].stop # None => i = Len(more)
        /\ reason # "length" \/ ~batched => \A i \in DOMAIN more : more[i].stop = EosOf(t)
    <3>1. CASE batched /\ reason = "length" /\ yields
      <4>1. more = Append(<<r>>, TokenLimit)
        BY <3>1, OneOrTwo DEF WithLimit, more, told
      <4> QED BY <2>2, <2>4, <3>1, <4>1, OneOrTwo
    <3>2. CASE batched /\ reason = "length" /\ ~yields
      <4>1. more = <<TokenLimit>>
        BY <3>2, OneOrTwo DEF WithLimit, more, told
      <4> QED BY <2>2, <3>2, <4>1, OneOrTwo
    <3>3. CASE ~(batched /\ reason = "length") /\ yields
      <4>1. more = <<r>>
        BY <3>3 DEF WithLimit, more, told
      <4> QED BY <1>1, <2>2, <4>1
    <3>4. CASE ~(batched /\ reason = "length") /\ ~yields
      <4>1. more = <<>>
        BY <3>4 DEF WithLimit, more, told
      <4> QED BY <4>1
    <3> QED BY <3>1, <3>2, <3>3, <3>4
  <2>7. /\ \E S : results' \in Seq(S)
        /\ \A i \in DOMAIN results' : /\ ResultOK(results'[i])
                                      /\ results'[i].stop # None => i = Len(results')
    BY <1>4, <2>3, <2>6, OneTurn
  <2>8. TypeOK'
    BY <1>1, <1>3, <1>4, <1>5, <2>3, <2>7 DEF StreamInv, TypeOK
  <2>10. ReasonIsLast'
    <3> SUFFICES ASSUME phase' = "reading", NEW i \in DOMAIN results', results'[i].stop # None
                 PROVE  finish' # None
      BY <2>3, <2>7 DEF ReasonIsLast
    <3>1. PICK S : results \in Seq(S)
      BY DEF StreamInv
    <3>2. i \in DOMAIN (results \o more) /\ (results \o more)[i].stop # None
      BY <2>3
    <3>3. \/ i \in DOMAIN results /\ (results \o more)[i] = results[i]
          \/ i - Len(results) \in DOMAIN more /\ (results \o more)[i] = more[i - Len(results)]
      BY <2>6, <3>1, <3>2, Appended
    <3>4. i \notin DOMAIN results \/ results[i].stop = None
      BY <1>4 DEF StreamInv, ReasonIsLast
    <3>5. EosOf(t) # None
      BY <2>3, <2>6, <3>2, <3>3, <3>4
    <3> QED BY <1>4, <2>5, <3>5
  <2> QED BY <2>7, <2>8, <2>10 DEF StreamInv, OneStopReason
<1>8. CASE status \notin {"full_stop", "no_match"}
  <2>1. Hold(s, ts)
    BY <1>8 DEF Read, after, reason, s, ts, seen, status
  <2>2. TypeOK'
    BY <1>1, <1>3, <1>4, <1>5, <2>1 DEF StreamInv, TypeOK, Hold
  <2> QED BY <1>4, <2>1, <2>2 DEF StreamInv, ReasonIsLast, OneStopReason, Hold
<1> QED BY <1>6, <1>7, <1>8

\* The steps after which the loop reads no more, with the result they add.
LEMMA LastResult ==
  ASSUME StreamInv, NEW r, r \in {UserCancelled}, results' = Append(results, r)
  PROVE  /\ \E S : results' \in Seq(S)
         /\ Len(results') = Len(results) + 1
         /\ \A i \in DOMAIN results' :
              /\ ResultOK(results'[i])
              /\ \/ i = Len(results') /\ results'[i] = UserCancelled
                 \/ i \in DOMAIN results /\ results'[i] = results[i]
<1>1. PICK S : results \in Seq(S)
  BY DEF StreamInv
<1>2. results' \in Seq(S \cup {r}) /\ Len(results') = Len(results) + 1
  BY <1>1
<1>3. ResultOK(UserCancelled)
  BY DEF UserCancelled, Result, ResultOK, StopReasons
<1> QED BY <1>1, <1>2, <1>3 DEF StreamInv, TypeOK

\* A step of Return keeps the invariant.
LEMMA ReturnStep == StreamInv /\ Return => StreamInv'
<1> SUFFICES ASSUME StreamInv, Return PROVE StreamInv'
  OBVIOUS
<1>1. phase = "leaving" /\ phase' = "returned" /\ backend' \in {"running", "done"}
  BY DEF Return, LeftBackend, StreamInv, TypeOK
<1>2. UNCHANGED <<batched, vision, generated, finish, text, tokens, ids, cancel>>
  BY DEF Return, StreamUnchanged
<1>3. \A i \in DOMAIN results : results[i].stop # None => i = Len(results)
  BY <1>1 DEF StreamInv, ReasonIsLast
<1>4. CASE ~batched /\ cancel
  <2>1. results' = Append(results, UserCancelled)
    BY <1>4 DEF Return, Farewell, StreamInv
  <2>2. /\ \E S : results' \in Seq(S)
        /\ Len(results') = Len(results) + 1
        /\ \A i \in DOMAIN results' :
             /\ ResultOK(results'[i])
             /\ \/ i = Len(results') /\ results'[i] = UserCancelled
                \/ i \in DOMAIN results /\ results'[i] = results[i]
    BY <2>1, LastResult
  <2>3. Len(results) \in Nat /\ results'[Len(results')] = UserCancelled
    BY <2>1 DEF StreamInv
  <2>4. OneStopReason'
    BY <1>2, <1>3, <1>4, <2>2, <2>3 DEF OneStopReason
  <2> QED BY <1>1, <1>2, <2>2, <2>4 DEF StreamInv, TypeOK, ReasonIsLast
<1>5. CASE batched \/ ~cancel
  <2>1. results' = results
    BY <1>5 DEF Return, Farewell, StreamInv
  <2> QED
    BY <1>1, <1>2, <1>3, <2>1
      DEF StreamInv, TypeOK, ReasonIsLast, OneStopReason
<1> QED BY <1>4, <1>5

\* The kit, or the reporter, cancelled the request: the steps that end it that way.
Cancelled == KitCancelled \/ ReporterStops

\* A step that ends the stream with the result of a cancel keeps the invariant.
LEMMA CancelledStep == StreamInv /\ Cancelled => StreamInv'
<1> SUFFICES ASSUME StreamInv, Cancelled PROVE StreamInv'
  OBVIOUS
<1>1. /\ phase = "reading" /\ finish = None /\ phase' = "returned"
      /\ backend' \in {"running", "done"}
      /\ results' = Append(results, UserCancelled)
  BY DEF Cancelled, KitCancelled, ReporterStops, ReporterLeftBackend, StreamInv, TypeOK
<1>2. UNCHANGED <<batched, vision, generated, finish, text, tokens, ids, cancel>>
  BY DEF Cancelled, KitCancelled, ReporterStops, StreamUnchanged
<1>3. \A i \in DOMAIN results : results[i].stop = None
  BY <1>1 DEF StreamInv, ReasonIsLast
<1>4. /\ \E S : results' \in Seq(S)
      /\ Len(results') = Len(results) + 1
      /\ \A i \in DOMAIN results' :
           /\ ResultOK(results'[i])
           /\ \/ i = Len(results') /\ results'[i] = UserCancelled
              \/ i \in DOMAIN results /\ results'[i] = results[i]
  BY <1>1, LastResult
<1> QED
  BY <1>1, <1>2, <1>3, <1>4
    DEF StreamInv, TypeOK, ReasonIsLast, OneStopReason

\* Every step keeps the invariant.
LEMMA StreamStep == StreamInv /\ [Next]_vars => StreamInv'
<1> SUFFICES ASSUME StreamInv, [Next]_vars PROVE StreamInv'
  OBVIOUS
<1> USE DEF StreamUnchanged
<1>1. CASE \E t \in Tokens : Read(t)
  BY <1>1, ReadStep
<1>2. CASE StreamExhausted
  BY <1>2 DEF StreamExhausted, StreamInv, TypeOK, ReasonIsLast, OneStopReason
<1>3. CASE CancelSeen
  BY <1>3 DEF CancelSeen, StreamInv, TypeOK, ReasonIsLast, OneStopReason
<1>4. CASE Return
  BY <1>4, ReturnStep
<1>5. CASE KitCancelled \/ ReporterStops
  BY <1>5, CancelledStep DEF Cancelled
<1>6. CASE KitFailed \/ ReporterRaises
  BY <1>6 DEF KitFailed, ReporterRaises, ReporterLeftBackend, StreamInv, TypeOK, ReasonIsLast, OneStopReason
<1>7. CASE Cancel
  BY <1>7 DEF Cancel, StreamInv, TypeOK, ReasonIsLast, OneStopReason
<1>8. CASE CallerCloses
  BY <1>8 DEF CallerCloses, StreamInv, TypeOK, ReasonIsLast, OneStopReason
<1>9. CASE UNCHANGED vars
  BY <1>9 DEF vars, StreamInv, TypeOK, ReasonIsLast, OneStopReason
<1> QED BY <1>1, <1>2, <1>3, <1>4, <1>5, <1>6, <1>7, <1>8, <1>9 DEF Next, Loop

\* In every reachable state of a stream of generate.py its type invariant holds, and at most its last result carries a stop reason, and only one.
THEOREM StreamInvariant == Spec => []StreamInv
  BY StreamInit, StreamStep, PTL DEF Spec

\* The types of the generator's state, for every vocabulary, set of stop
\* strings and token limit.
THEOREM StreamTypeCorrect == Spec => []TypeOK
<1>1. StreamInv => TypeOK
  BY DEF StreamInv
<1> QED BY <1>1, StreamInvariant, PTL

\* A generator of create_generator() gives one stop reason, with its last
\* result, but for the farewell of a cancelled sequential stream.
THEOREM OneReasonAtTheEnd == Spec => []OneStopReason
<1>1. StreamInv => OneStopReason
  BY DEF StreamInv
<1> QED BY <1>1, StreamInvariant, PTL

-----------------------------------------------------------------------------
(* What runs on in the backend.                                            *)

\* While the generator lives, its backend runs only if it has not given its last token
\* and was not told to stop; a batched loop leaves a running one only at a stop string.
RunsForAReason ==
  phase \in {"reading", "leaving"} /\ backend = "running" =>
    /\ finish = None
    /\ batched => ~cancel /\ (phase = "leaving" => Stopped)

BackendInv ==
  /\ StreamInv
  /\ RunsForAReason
  /\ NothingLeftRunning

\* A turn of the loop.
LEMMA ReadRuns ==
  ASSUME BackendInv, NEW t \in Tokens, Read(t)
  PROVE  RunsForAReason' /\ NothingLeftRunning'
<1> DEFINE after == Append(generated, t)
           reason == Finish(after)
           s == text \o Segment(generated, after, reason)
           ts == Append(tokens, t)
           seen == Append(ids, t)
           status == StopStatus(seen)
<1>1. /\ finish' = reason /\ UNCHANGED <<batched, vision, cancel>>
      /\ backend' = IF reason = None THEN backend ELSE "done"
      /\ phase = "reading" /\ finish = None
  BY DEF Read
<1>2. \/ StopHere(s, ts, seen)
      \/ YieldText(s, ts, reason)
      \/ Hold(s, ts)
  BY DEF Read
<1> HIDE DEF after, reason, s, ts, seen, status
<1>3. CASE StopHere(s, ts, seen)
  <2>1. PICK w : results' = Append(results, Result(w, ts, "stop_string"))
    BY <1>3 DEF StopHere, StopStringResult
  <2>2. PICK S : results \in Seq(S)
    BY DEF BackendInv, StreamInv
  <2> DEFINE r == Result(w, ts, "stop_string")
  <2>3. r.stop = "stop_string"
    BY DEF Result
  <2> HIDE DEF r
  <2>4. results' = Append(results, r)
    BY <2>1 DEF r
  <2>5. results' # <<>> /\ results'[Len(results')] = r
    BY <2>2, <2>4
  <2>6. Stopped'
    BY <2>3, <2>5 DEF Stopped, Last
  <2>7. phase' = "leaving"
    BY <1>3 DEF StopHere
  <2> QED BY <1>1, <2>6, <2>7 DEF BackendInv, RunsForAReason, NothingLeftRunning
<1>4. CASE YieldText(s, ts, reason)
  <2>1. phase' = IF batched /\ reason = "length" THEN "returned" ELSE "reading"
    BY <1>4 DEF YieldText
  <2> QED BY <1>1, <2>1 DEF BackendInv, RunsForAReason, NothingLeftRunning, None
<1>5. CASE Hold(s, ts)
  BY <1>1, <1>5 DEF Hold, BackendInv, RunsForAReason, NothingLeftRunning
<1> QED BY <1>2, <1>3, <1>4, <1>5

\* Every step, by the way it ends or goes on with the stream.
LEMMA BackendStep == BackendInv /\ [Next]_vars => BackendInv'
<1> SUFFICES ASSUME BackendInv, [Next]_vars PROVE BackendInv'
  OBVIOUS
<1>1. StreamInv'
  BY StreamStep DEF BackendInv
<1>2. RunsForAReason' /\ NothingLeftRunning'
  <2> USE DEF StreamUnchanged, BackendInv, RunsForAReason, NothingLeftRunning
  <2>1. CASE \E t \in Tokens : Read(t)
    BY <2>1, ReadRuns
  <2>2. CASE StreamExhausted
    BY <2>2 DEF StreamExhausted
  <2>3. CASE CancelSeen
    BY <2>3 DEF CancelSeen
  <2>4. CASE Return
    BY <2>4 DEF Return, LeftBackend
  <2>5. CASE KitCancelled \/ KitFailed
    BY <2>5 DEF KitCancelled, KitFailed
  <2>6. CASE ReporterStops \/ ReporterRaises
    BY <2>6 DEF ReporterStops, ReporterRaises, ReporterLeftBackend
  <2>7. CASE Cancel
    BY <2>7 DEF Cancel
  <2>8. CASE CallerCloses
    BY <2>8 DEF CallerCloses
  <2>9. CASE UNCHANGED vars
    BY <2>9 DEF vars, Stopped
  <2> QED BY <2>1, <2>2, <2>3, <2>4, <2>5, <2>6, <2>7, <2>8, <2>9 DEF Next, Loop
<1> QED BY <1>1, <1>2 DEF BackendInv

\* However a stream of create_generator() ends, read out, stopped,
\* cancelled, failed or closed, its request is out of the backend or is
\* told to go, but for a text kit's whose progress reporter ended it and a
\* batched one's that was closed before its last token.
THEOREM ReadToEndStopsBackend == Spec => []NothingLeftRunning
<1>1. Init => BackendInv
  BY StreamInit DEF Init, BackendInv, RunsForAReason, NothingLeftRunning
<1>2. BackendInv => NothingLeftRunning
  BY DEF BackendInv
<1> QED BY <1>1, <1>2, BackendStep, PTL DEF Spec

-----------------------------------------------------------------------------
(* Why a stream ended.  EndsExplained speaks of the end only; what explains *)
\* it was told, or held back, when the last token was read.

\* The reason of a stream whose tokens were all read.
FinishExplained ==
  \/ finish = "stop" /\ (HeldBack \/ Told("eos_token"))
  \/ finish = "length" /\ (HeldBack \/ ~batched \/ Told("token_limit"))

EndInSight ==
  /\ phase = "reading" /\ finish # None => FinishExplained
  /\ phase = "leaving" =>
       FinishExplained \/ Told("stop_string") \/ (~batched /\ cancel)

ExplainInv == StreamInv /\ EndInSight /\ EndsExplained

\* What was told stays told, and what is added is told.
LEMMA ToldMore ==
  ASSUME StreamInv, NEW T, NEW more \in Seq(T), results' = results \o more
  PROVE  /\ \A reason : Told(reason) => Told(reason)'
         /\ \A i \in DOMAIN more : Told(more[i].stop)'
<1>1. PICK S : results \in Seq(S)
  BY DEF StreamInv
<1>2. PICK a \in Seq(S \cup T), b \in Seq(S \cup T), c \in Seq(S \cup T) :
        a = results /\ b = more /\ c = results' /\ c = a \o b
  <2>1. results \in Seq(S \cup T) /\ more \in Seq(S \cup T)
    BY <1>1
  <2>2. results \o more \in Seq(S \cup T)
    BY <2>1
  <2> QED BY <2>1, <2>2
<1>3. /\ DOMAIN a = 1..Len(a) /\ DOMAIN b = 1..Len(b) /\ DOMAIN c = 1..(Len(a) + Len(b))
      /\ Len(a) \in Nat /\ Len(b) \in Nat
      /\ \A i \in 1..Len(a) : c[i] = a[i]
      /\ \A i \in 1..Len(b) : c[Len(a) + i] = b[i]
  BY <1>2
<1>4. \A i \in 1..Len(b) : Len(a) + i \in DOMAIN c
  BY <1>3
<1>5. \A i \in 1..Len(a) : i \in DOMAIN c
  BY <1>3
<1>6. ASSUME NEW reason, Told(reason)
      PROVE  Told(reason)'
  <2>1. PICK i \in 1..Len(a) : a[i].stop = reason
    BY <1>2, <1>3, <1>6 DEF Told
  <2> QED BY <1>2, <1>3, <1>5, <2>1 DEF Told
<1>7. ASSUME NEW i \in DOMAIN more
      PROVE  Told(more[i].stop)'
  <2>1. i \in 1..Len(b) /\ c[Len(a) + i] = more[i] /\ Len(a) + i \in DOMAIN c
    BY <1>2, <1>3, <1>4
  <2> QED BY <1>2, <2>1 DEF Told
<1> QED BY <1>6, <1>7

\* One result is added.
LEMMA ToldOneMore ==
  ASSUME StreamInv, NEW r, results' = Append(results, r)
  PROVE  /\ \A reason : Told(reason) => Told(reason)'
         /\ Told(r.stop)'
<1>1. PICK S : results \in Seq(S)
  BY DEF StreamInv
<1>2. <<r>> \in Seq({r}) /\ DOMAIN <<r>> = {1} /\ <<r>>[1] = r /\ results' = results \o <<r>>
  BY <1>1
<1> QED BY <1>2, ToldMore

\* Reading a token keeps the end in sight, and an end explained.
LEMMA ReadExplains ==
  ASSUME StreamInv, NEW t \in Tokens, Read(t)
  PROVE  (EndInSight /\ EndsExplained)'
<1> DEFINE after == Append(generated, t)
           reason == Finish(after)
           s == text \o Segment(generated, after, reason)
           ts == Append(tokens, t)
           seen == Append(ids, t)
           status == StopStatus(seen)
<1>1. after \in Seq(Tokens) /\ Last(after) = t /\ Last(ts) = t /\ seen # <<>>
  BY SMTT(30) DEF StreamInv, TypeOK, Last
<1>2. /\ reason \in {None, "stop", "length"}
      /\ reason = "stop" <=> t \in EosTokens
  BY <1>1 DEF Finish, None
<1>3. /\ finish' = reason /\ cancel' = cancel /\ batched' = batched
      /\ ids' = IdsAfter(seen, status)
      /\ phase = "reading"
  BY DEF Read
<1> HIDE DEF after, reason, s, ts, seen, status
<1>4. CASE status = "full_stop"
  <2>1. StopHere(s, ts, seen)
    BY <1>4 DEF Read, after, reason, s, ts, seen, status
  <2>2. PICK w : results' = Append(results, Result(w, ts, "stop_string"))
    BY <2>1 DEF StopHere, StopStringResult
  <2>3. Told("stop_string")'
    BY <2>2, ToldOneMore DEF Result
  <2> QED BY <2>1, <2>3 DEF StopHere, EndInSight, EndsExplained
<1>5. CASE status = "no_match"
  <2>1. YieldText(s, ts, reason)
    BY <1>5 DEF Read, after, reason, s, ts, seen, status
  <2> DEFINE r == Result(s, ts, EosOf(t))
             told == IF ShouldYield(s, t) THEN <<r>> ELSE <<>>
             more == WithLimit(told, reason)
  <2>2. /\ results' = results \o more
        /\ phase' = IF batched /\ reason = "length" THEN "returned" ELSE "reading"
    BY <1>1, <2>1 DEF YieldText
  <2>3. r.stop = EosOf(t) /\ TokenLimit.stop = "token_limit"
    BY DEF Result, TokenLimit
  <2>4. reason = "stop" => EosOf(t) = "eos_token" /\ ShouldYield(s, t)
    BY <1>2 DEF EosOf, ShouldYield
  <2> HIDE DEF r, more, told
  <2>5. CASE reason = "stop"
    <3>1. more = <<r>>
      BY <2>4, <2>5 DEF more, told, WithLimit
    <3>2. results' = Append(results, r)
      <4>1. PICK S : results \in Seq(S)
        BY DEF StreamInv
      <4> QED BY <2>2, <3>1, <4>1
    <3>3. Told("eos_token")'
      BY <2>3, <2>4, <2>5, <3>2, ToldOneMore
    <3> QED BY <1>3, <2>2, <2>5, <3>3 DEF EndInSight, EndsExplained, FinishExplained
  <2>6. CASE reason = "length" /\ batched
    <3>1. more = Append(told, TokenLimit) /\ (told = <<r>> \/ told = <<>>)
      BY <2>6 DEF more, told, WithLimit
    <3>2. more \in Seq({r, TokenLimit}) /\ \E i \in DOMAIN more : more[i] = TokenLimit
      <4>1. CASE told = <<r>>
        <5>1. more \in Seq({r, TokenLimit}) /\ Len(more) = 2 /\ more = Append(<<r>>, TokenLimit)
          BY <3>1, <4>1, OneOrTwo
        <5>2. more[2] = TokenLimit /\ 2 \in DOMAIN more
          BY <5>1
        <5> QED BY <5>1, <5>2
      <4>2. CASE told = <<>>
        <5>1. more = <<TokenLimit>> /\ more \in Seq({r, TokenLimit})
          BY <3>1, <4>2, OneOrTwo
        <5>2. more[1] = TokenLimit /\ 1 \in DOMAIN more
          BY <5>1
        <5> QED BY <5>1, <5>2
      <4> QED BY <3>1, <4>1, <4>2
    <3>3. Told("token_limit")'
      BY <2>2, <2>3, <3>2, ToldMore
    <3> QED BY <1>3, <2>2, <2>6, <3>3 DEF EndInSight, EndsExplained
  <2>7. CASE reason = None \/ (reason = "length" /\ ~batched)
    BY <1>3, <2>2, <2>7 DEF EndInSight, EndsExplained, FinishExplained, None
  <2> QED BY <1>2, <2>5, <2>6, <2>7
<1>6. CASE status \notin {"full_stop", "no_match"}
  <2>1. Hold(s, ts)
    BY <1>6 DEF Read, after, reason, s, ts, seen, status
  <2>2. HeldBack' /\ phase' = "reading"
    BY <1>1, <1>3, <1>6, <2>1 DEF HeldBack, IdsAfter, Hold
  <2> QED BY <1>2, <1>3, <2>2 DEF EndInSight, EndsExplained, FinishExplained
<1> QED BY <1>4, <1>5, <1>6

\* A return keeps the end in sight, and an end explained.
LEMMA ReturnExplains ==
  ASSUME ExplainInv, Return
  PROVE  (EndInSight /\ EndsExplained)'
<1>1. phase = "leaving" /\ phase' = "returned" /\ UNCHANGED <<batched, finish, ids, cancel>>
  BY DEF Return, StreamUnchanged
<1>2. CASE ~batched /\ cancel
  <2>1. results' = Append(results, UserCancelled)
    BY <1>2 DEF Return, Farewell, ExplainInv, StreamInv
  <2>2. Told("user_cancelled")'
    BY <2>1, ToldOneMore DEF ExplainInv, UserCancelled, Result
  <2> QED BY <1>1, <2>2 DEF EndInSight, EndsExplained
<1>3. CASE batched \/ ~cancel
  <2>1. results' = results
    BY <1>3 DEF Return, Farewell, ExplainInv, StreamInv
  <2>2. FinishExplained \/ Told("stop_string")
    BY <1>1, <1>3 DEF ExplainInv, EndInSight
  <2> QED BY <1>1, <2>1, <2>2 DEF EndInSight, EndsExplained, FinishExplained, HeldBack, Told
<1> QED BY <1>2, <1>3

\* Every step keeps the invariant that explains the end.
LEMMA ExplainStep == ExplainInv /\ [Next]_vars => ExplainInv'
<1> SUFFICES ASSUME ExplainInv, [Next]_vars PROVE ExplainInv'
  OBVIOUS
<1>0. StreamInv'
  BY StreamStep DEF ExplainInv
<1>1. (EndInSight /\ EndsExplained)'
  <2> USE DEF StreamUnchanged, ExplainInv
  <2>1. CASE \E t \in Tokens : Read(t)
    BY <2>1, ReadExplains
  <2>2. CASE Return
    BY <2>2, ReturnExplains
  <2>3. CASE StreamExhausted
    BY <2>3 DEF StreamExhausted, EndInSight, EndsExplained, FinishExplained, HeldBack, Told
  <2>4. CASE CancelSeen
    BY <2>4 DEF CancelSeen, EndInSight, EndsExplained
  <2>5. CASE KitCancelled \/ ReporterStops
    <3>1. results' = Append(results, UserCancelled) /\ phase' = "returned"
      BY <2>5 DEF KitCancelled, ReporterStops
    <3>2. Told("user_cancelled")'
      BY <3>1, ToldOneMore DEF UserCancelled, Result
    <3> QED BY <3>1, <3>2 DEF EndInSight, EndsExplained
  <2>6. CASE KitFailed \/ ReporterRaises \/ CallerCloses
    BY <2>6 DEF KitFailed, ReporterRaises, CallerCloses, EndInSight, EndsExplained
  <2>7. CASE Cancel
    BY <2>7 DEF Cancel, EndInSight, EndsExplained, FinishExplained, HeldBack, Told
  <2>8. CASE UNCHANGED vars
    BY <2>8 DEF vars, EndInSight, EndsExplained, FinishExplained, HeldBack, Told
  <2> QED BY <2>1, <2>2, <2>3, <2>4, <2>5, <2>6, <2>7, <2>8 DEF Next, Loop
<1> QED BY <1>0, <1>1 DEF ExplainInv

\* However a stream ends, it gives one stop reason, last, and when it ends
\* without an exception it has given one, unless its last token came while
\* text was held back.
THEOREM StreamEndsOnce == Spec => []EndsOnce
<1>1. Init => ExplainInv
  <2>1. Init => EndInSight /\ EndsExplained
    BY DEF Init, EndInSight, EndsExplained
  <2> QED BY <2>1, StreamInit DEF ExplainInv
<1>2. ExplainInv => EndsOnce
  BY DEF ExplainInv, StreamInv, EndsOnce
<1> QED BY <1>1, <1>2, ExplainStep, PTL DEF Spec

-----------------------------------------------------------------------------
(* What is shown: the text of tokens, joined, told and forgotten.           *)

\* Of any natural numbers there is a least, which Least chooses.
LEMMA LeastNumber ==
  ASSUME NEW S, S \subseteq Nat, S # {}
  PROVE  Least(S) \in S /\ \A y \in S : Least(S) <= y
<1>1. PICK x \in S : \A y \in S : ~ (<<y, x>> \in OpToRel(<, Nat))
  BY NatLessThanWellFounded, WFMin
<1>2. \A y \in S : ~ (y < x)
  BY <1>1 DEF OpToRel
<1>3. \E z \in S : \A y \in S : z <= y
  BY <1>2
<1> QED BY <1>3 DEF Least

\* j joins the texts of f one by one.
Concats(j, f) ==
  /\ j[0] = <<>>
  /\ \A n \in 1..Len(f) : j[n] = j[n-1] \o f[n]

\* The first m texts of f can be joined.
CanJoin(m, f, T) ==
  \E j \in [0..m -> Seq(T)] : j[0] = <<>> /\ \A n \in 1..m : j[n] = j[n-1] \o f[n]

\* A text is joined to what the texts before it gave.
LEMMA OneMoreJoined ==
  ASSUME NEW T, NEW f \in Seq(Seq(T)), NEW m \in Nat, m + 1 <= Len(f), CanJoin(m, f, T)
  PROVE  CanJoin(m + 1, f, T)
<1>0. PICK j \in [0..m -> Seq(T)] : j[0] = <<>> /\ \A n \in 1..m : j[n] = j[n-1] \o f[n]
  BY DEF CanJoin
<1> DEFINE h == [n \in 0..(m+1) |-> IF n = m+1 THEN j[m] \o f[n] ELSE j[n]]
<1>1. j[m] \in Seq(T) /\ f[m+1] \in Seq(T)
  OBVIOUS
<1>2. j[m] \o f[m+1] \in Seq(T)
  BY <1>1
<1>3. h \in [0..(m+1) -> Seq(T)]
  BY <1>2
<1>4. h[0] = <<>>
  BY <1>0
<1>5. ASSUME NEW n \in 1..(m+1)
      PROVE  h[n] = h[n-1] \o f[n]
  <2>1. CASE n = m+1
    <3>1. h[n] = j[m] \o f[n]
      BY <2>1
    <3>2. n-1 \in 0..(m+1) /\ n-1 = m /\ n-1 # m+1
      BY <2>1
    <3>3. h[n-1] = j[n-1]
      BY <3>2
    <3> QED BY <3>1, <3>2, <3>3
  <2>2. CASE n # m+1
    <3>1. n \in 1..m /\ n-1 \in 0..m
      BY <2>2
    <3>2. h[n] = j[n] /\ h[n-1] = j[n-1]
      BY <2>2, <3>1
    <3>3. j[n] = j[n-1] \o f[n]
      BY <1>0, <3>1
    <3> QED BY <3>2, <3>3
  <2> QED BY <2>1, <2>2
<1> HIDE DEF h
<1> QED BY <1>3, <1>4, <1>5 DEF CanJoin

\* Texts can be joined.
LEMMA Joinable ==
  ASSUME NEW T, NEW f \in Seq(Seq(T))
  PROVE  \E j \in [0..Len(f) -> Seq(T)] : Concats(j, f)
<1> DEFINE bad == {m \in 0..Len(f) : ~CanJoin(m, f, T)}
<1>1. Len(f) \in Nat
  OBVIOUS
<1>2. bad \subseteq Nat
  BY <1>1
<1>3. SUFFICES CanJoin(Len(f), f, T)
  BY DEF CanJoin, Concats
<1>4. SUFFICES ASSUME bad # {} PROVE FALSE
  <2>1. Len(f) \in 0..Len(f)
    BY <1>1
  <2>2. Len(f) \notin bad
    BY <1>4
  <2> QED BY <2>1, <2>2
<1>5. PICK m : m \in bad /\ \A k \in bad : m <= k
  <2> HIDE DEF bad
  <2> QED BY <1>2, <1>4, LeastNumber
<1>6. m \in 0..Len(f) /\ ~CanJoin(m, f, T)
  BY <1>5
<1>7. CanJoin(0, f, T)
  <2>1. PICK j : j = [i \in 0..0 |-> <<>>]
    OBVIOUS
  <2>2. j \in [0..0 -> Seq(T)] /\ j[0] = <<>>
    BY <2>1
  <2> QED BY <2>2 DEF CanJoin
<1>8. m # 0
  BY <1>6, <1>7
<1>9. m-1 \in 0..Len(f) /\ m-1 \notin bad
  BY <1>1, <1>5, <1>6, <1>8
<1>10. CanJoin(m-1, f, T)
  BY <1>9
<1>11. PICK k : k = m-1 /\ k \in Nat /\ k+1 <= Len(f) /\ k+1 = m
  BY <1>1, <1>6, <1>8
<1>12. CanJoin(k+1, f, T)
  BY <1>10, <1>11, OneMoreJoined
<1> QED BY <1>6, <1>11, <1>12

\* Joined does so.
LEMMA JoinedGoes ==
  ASSUME NEW T, NEW f \in Seq(Seq(T))
  PROVE  \E j \in [0..Len(f) -> Seq(T)] : Joined(f) = j[Len(f)] /\ Concats(j, f)
<1> DEFINE Is(j) == j = [n \in 0..Len(f) |-> IF n = 0 THEN <<>> ELSE j[n-1] \o f[n]]
<1>1. PICK j \in [0..Len(f) -> Seq(T)] : Concats(j, f)
  BY Joinable
<1>2. Len(f) \in Nat
  OBVIOUS
<1>3. Is(j)
  <2>1. ASSUME NEW n \in 0..Len(f)
        PROVE  j[n] = IF n = 0 THEN <<>> ELSE j[n-1] \o f[n]
    <3>1. CASE n = 0
      BY <3>1, <1>1 DEF Concats
    <3>2. CASE n # 0
      <4>1. n \in 1..Len(f)
        BY <3>2, <1>2
      <4> QED BY <3>2, <4>1, <1>1 DEF Concats
    <3> QED BY <3>1, <3>2
  <2>2. j = [n \in 0..Len(f) |-> j[n]]
    OBVIOUS
  <2> QED BY <2>1, <2>2
<1>4. PICK h : Is(h) /\ Joined(f) = h[Len(f)]
  <2>1. Joined(f) = (CHOOSE h : Is(h))[Len(f)]
    BY DEF Joined
  <2>2. Is(CHOOSE h : Is(h))
    <3> HIDE DEF Is
    <3> QED BY <1>3
  <2> HIDE DEF Is
  <2> QED BY <2>1, <2>2
<1>5. \A n \in 0..Len(f) : h[n] = IF n = 0 THEN <<>> ELSE h[n-1] \o f[n]
  BY <1>4
<1>6. h \in [0..Len(f) -> Seq(T)] /\ Concats(h, f)
  <2> DEFINE bad == {n \in 0..Len(f) : h[n] # j[n]}
  <2>0. bad \subseteq Nat
    BY <1>2
  <2>1. bad = {}
    <3>1. SUFFICES ASSUME bad # {} PROVE FALSE
      OBVIOUS
    <3>2. PICK m : m \in bad /\ \A k \in bad : m <= k
      <4> HIDE DEF bad
      <4> QED BY <2>0, <3>1, LeastNumber
    <3>3. m \in 0..Len(f) /\ h[m] # j[m]
      BY <3>2
    <3>4. m # 0
      BY <1>1, <1>5, <3>3 DEF Concats
    <3>5. m \in 1..Len(f) /\ m-1 \in 0..Len(f) /\ m-1 \notin bad
      BY <1>2, <3>2, <3>3, <3>4
    <3>6. h[m-1] = j[m-1]
      BY <3>5
    <3>7. j[m] = j[m-1] \o f[m]
      BY <1>1, <3>5 DEF Concats
    <3>8. h[m] = h[m-1] \o f[m]
      BY <1>5, <3>3, <3>4
    <3> QED BY <3>3, <3>6, <3>7, <3>8
  <2>2. \A n \in 0..Len(f) : h[n] = j[n]
    BY <2>1
  <2>3. h = [n \in 0..Len(f) |-> h[n]]
    BY <1>4
  <2>4. h = j
    <3>1. j = [n \in 0..Len(f) |-> j[n]]
      OBVIOUS
    <3>2. [n \in 0..Len(f) |-> h[n]] = [n \in 0..Len(f) |-> j[n]]
      BY <2>2
    <3> QED BY <2>3, <3>1, <3>2
  <2> QED BY <1>1, <2>4
<1> HIDE DEF Is
<1> QED BY <1>4, <1>6

\* No texts give none.
LEMMA JoinedNone == Joined(<<>>) = <<>>
<1>1. PICK f : f = <<>> /\ f \in Seq(Seq({1})) /\ Len(f) = 0
  <2>1. <<>> \in Seq(Seq({1})) /\ Len(<<>>) = 0
    BY EmptySeq
  <2> QED BY <2>1, Zenon
<1>2. PICK j \in [0..Len(f) -> Seq({1})] : Joined(f) = j[Len(f)] /\ Concats(j, f)
  BY <1>1, JoinedGoes
<1> QED BY <1>1, <1>2 DEF Concats

\* Texts are joined in any order.
LEMMA TextsAssociate ==
  \A a, b, c \in Seq(Chars) : (a \o b) \o c = a \o (b \o c)
<1> SUFFICES ASSUME NEW a \in Seq(Chars), NEW b \in Seq(Chars), NEW c \in Seq(Chars)
             PROVE  (a \o b) \o c = a \o (b \o c)
  OBVIOUS
<1> QED BY ConcatAssociative

\* The texts joined are a text, and one more is appended to it.
LEMMA JoinedAppend ==
  ASSUME NEW T, NEW f \in Seq(Seq(T)), NEW s \in Seq(T)
  PROVE  /\ Joined(f) \in Seq(T)
         /\ Joined(Append(f, s)) = Joined(f) \o s
<1>1. PICK g : g = Append(f, s)
  OBVIOUS
<1>2. /\ g \in Seq(Seq(T)) /\ Len(g) = Len(f) + 1 /\ Len(f) \in Nat
      /\ \A n \in 1..Len(f) : g[n] = f[n]
      /\ g[Len(f) + 1] = s
  BY <1>1
<1>3. PICK j \in [0..Len(f) -> Seq(T)] : Joined(f) = j[Len(f)] /\ Concats(j, f)
  BY JoinedGoes
<1>4. PICK h \in [0..Len(g) -> Seq(T)] : Joined(g) = h[Len(g)] /\ Concats(h, g)
  BY <1>2, JoinedGoes
<1>5. h[Len(f)] = j[Len(f)]
  <2> DEFINE bad == {n \in 0..Len(f) : h[n] # j[n]}
  <2>0. bad \subseteq Nat
    BY <1>2
  <2>1. bad = {}
    <3>1. SUFFICES ASSUME bad # {} PROVE FALSE
      OBVIOUS
    <3>2. PICK m : m \in bad /\ \A k \in bad : m <= k
      <4> HIDE DEF bad
      <4> QED BY <2>0, <3>1, LeastNumber
    <3>3. m \in 0..Len(f) /\ h[m] # j[m]
      BY <3>2
    <3>4. m # 0
      BY <1>3, <1>4, <3>3 DEF Concats
    <3>5. m \in 1..Len(f) /\ m-1 \in 0..Len(f) /\ m-1 \notin bad
      <4>1. PICK l : l = Len(f) /\ l \in Nat
        BY <1>2
      <4>2. m \in 0..l /\ m # 0
        BY <3>3, <3>4, <4>1
      <4>3. m \in 1..l /\ m-1 \in 0..l /\ ~(m <= m-1)
        BY <4>1, <4>2
      <4> HIDE DEF bad
      <4>4. m-1 \notin bad
        BY <3>2, <4>3
      <4> QED BY <4>1, <4>3, <4>4
    <3>6. h[m-1] = j[m-1]
      BY <3>5
    <3>7. j[m] = j[m-1] \o f[m]
      BY <1>3, <3>5 DEF Concats
    <3>8. h[m] = h[m-1] \o g[m]
      <4>1. m \in 1..Len(g)
        BY <1>2, <3>5
      <4> QED BY <4>1, <1>4 DEF Concats
    <3> QED BY <1>2, <3>3, <3>5, <3>6, <3>7, <3>8
  <2>2. Len(f) \in 0..Len(f)
    BY <1>2
  <2>3. \A n \in 0..Len(f) : h[n] = j[n]
    BY <2>1
  <2> QED BY <2>2, <2>3
<1>6. h[Len(g)] = h[Len(f)] \o g[Len(g)]
  <2>1. PICK n : n = Len(g) /\ n-1 = Len(f) /\ n \in 1..Len(g)
    BY <1>2
  <2>2. h[n] = h[n-1] \o g[n]
    BY <1>4, <2>1 DEF Concats
  <2> QED BY <2>1, <2>2
<1>7. Joined(f) \in Seq(T)
  <2>1. Len(f) \in 0..Len(f)
    BY <1>2
  <2>2. j[Len(f)] \in Seq(T)
    BY <2>1
  <2> QED BY <1>3, <2>2
<1> QED BY <1>1, <1>2, <1>3, <1>4, <1>5, <1>6, <1>7

-----------------------------------------------------------------------------
(* What one more token does to the text.                                   *)

\* t completes the character that the last token of ts opened.
Joins(ts, t) == ts # <<>> /\ Opens(Last(ts)) /\ Completes(t)

\* What t decodes to at the end.
Fresh(joins, t) ==
  LET first == IF ~Completes(t) THEN Head(Bytes[t]) ELSE IF joins THEN "U" ELSE Replacement
  IN <<first>> \o Tail(Bytes[t])

\* What is left of the text before it.
Kept(s, joins) == IF joins THEN Front(s) ELSE s

\* What a token adds is a text, and ends in the mark if the token opens a character.
LEMMA FreshText ==
  ASSUME NEW t \in Tokens, NEW joins \in BOOLEAN
  PROVE  /\ Fresh(joins, t) \in Seq(Chars) /\ Len(Fresh(joins, t)) > 0
         /\ Opens(t) => Fresh(joins, t)[Len(Fresh(joins, t))] = Replacement
<1>1. PICK b : b = Bytes[t] /\ b \in Seq(Chars) /\ b # <<>>
  BY TextAssumption
<1>0. PICK u : u = Tail(b)
  OBVIOUS
<1>2. /\ u = Tail(b) /\ u \in Seq(Chars) /\ Len(b) = Len(u) + 1 /\ Len(u) \in Nat
      /\ \A i \in 1..Len(u) : u[i] = b[i+1]
  <2>1. Tail(b) \in Seq(Chars) /\ Len(Tail(b)) = Len(b) - 1
    BY <1>1, HeadTailProperties
  <2>2. \A i \in 1..Len(Tail(b)) : Tail(b)[i] = b[i+1]
    BY <1>1, HeadTailProperties
  <2>3. Len(b) \in Nat
    BY <1>1
  <2>4. Len(b) = Len(u) + 1
    BY <1>0, <2>1, <2>3
  <2>5. u \in Seq(Chars) /\ Len(u) \in Nat
    BY <1>0, <2>1
  <2> QED BY <1>0, <2>2, <2>4, <2>5
<1>3. PICK c : c \in Chars /\ Fresh(joins, t) = <<c>> \o u
               /\ (c = b[1] \/ (b[1] = "L" /\ c \in {"U", Replacement}))
  <2>1. Head(b) = b[1] /\ b[1] \in Chars
    BY <1>1
  <2>2. {"U", Replacement} \subseteq Chars
    BY DEF Chars
  <2> QED BY <1>1, <1>2, <2>1, <2>2 DEF Fresh, Completes
<1>4. PICK v : v = <<c>> \o u
  OBVIOUS
<1>5. v \in Seq(Chars) /\ Len(v) = Len(u) + 1 /\ v[1] = c /\ \A i \in 1..Len(u) : v[i+1] = u[i]
  BY <1>2, <1>3, <1>4
<1>6. ASSUME Opens(t) PROVE v[Len(v)] = Replacement
  <2>1. b[Len(b)] = Replacement
    BY <1>1, <1>6 DEF Opens, Last
  <2>2. CASE Len(u) = 0
    <3>1. b[1] = "?" /\ Replacement = "?"
      BY <1>2, <2>1, <2>2 DEF Replacement
    <3>2. c = "?"
      BY <1>3, <3>1
    <3> QED BY <1>5, <2>2, <3>1, <3>2
  <2>3. CASE Len(u) # 0
    <3>1. Len(u) \in 1..Len(u)
      BY <1>2, <2>3
    <3>2. v[Len(u)+1] = u[Len(u)] /\ u[Len(u)] = b[Len(u)+1]
      BY <1>2, <1>5, <3>1
    <3> QED BY <1>2, <1>5, <2>1, <3>2
  <2> QED BY <2>2, <2>3
<1> QED BY <1>3, <1>4, <1>5, <1>6

\* The pieces of a text of tokens.
Pieces(ts) == [i \in DOMAIN ts |-> Piece(ts, i)]

\* The last piece is what its token decodes to at the end.
LEMMA LastPiece ==
  ASSUME NEW ts \in Seq(Tokens), NEW t \in Tokens
  PROVE  Piece(Append(ts, t), Len(ts) + 1) = Fresh(Joins(ts, t), t)
<1>1. PICK after : after = Append(ts, t)
  OBVIOUS
<1>2. PICK n : n = Len(ts) + 1 /\ n = Len(after) /\ after[n] = t /\ n \in Nat /\ ~(n < Len(after))
  BY <1>1
<1>3. (n > 1 /\ Opens(after[n-1])) <=> (ts # <<>> /\ Opens(Last(ts)))
  <2>1. CASE ts = <<>>
    BY <1>2, <2>1
  <2>2. CASE ts # <<>>
    <3>1. n > 1 /\ after[n-1] = ts[Len(ts)] /\ Last(ts) = ts[Len(ts)]
      BY <1>1, <1>2, <2>2 DEF Last
    <3> QED BY <2>2, <3>1
  <2> QED BY <2>1, <2>2
<1>4. Piece(after, n) = Fresh(Joins(ts, t), t)
  BY <1>2, <1>3, Zenon DEF Piece, Fresh, Joins
<1> QED BY <1>1, <1>2, <1>4

\* The pieces before it are as they were, but for the character it completes.
LEMMA EarlierPieces ==
  ASSUME NEW ts \in Seq(Tokens), NEW t \in Tokens, NEW i \in 1..Len(ts)
  PROVE  Piece(Append(ts, t), i) =
           IF i = Len(ts) THEN Kept(Piece(ts, i), Joins(ts, t)) ELSE Piece(ts, i)
<1>1. PICK after : after = Append(ts, t)
  OBVIOUS
<1>2. /\ Len(after) = Len(ts) + 1 /\ Len(ts) \in Nat /\ i < Len(after) /\ after[i] = ts[i]
      /\ \A j \in 1..Len(ts) : after[j] = ts[j]
      /\ after[Len(ts)+1] = t
  BY <1>1
<1>3. (i > 1 /\ Opens(after[i-1])) <=> (i > 1 /\ Opens(ts[i-1]))
  <2>1. ASSUME i > 1 PROVE after[i-1] = ts[i-1]
    <3>1. i-1 \in 1..Len(ts)
      BY <2>1
    <3> QED BY <3>1, <1>2
  <2> QED BY <2>1
<1>4. CASE i = Len(ts)
  <2>1. ~(i < Len(ts)) /\ after[i+1] = t /\ Last(ts) = ts[i] /\ ts # <<>>
    BY <1>2, <1>4 DEF Last
  <2> QED BY <1>1, <1>2, <1>3, <1>4, <2>1, Zenon DEF Piece, Kept, Joins
<1>5. CASE i # Len(ts)
  <2>1. i < Len(ts) /\ i+1 \in 1..Len(ts)
    BY <1>5
  <2>2. after[i+1] = ts[i+1]
    BY <1>2, <2>1
  <2> QED BY <1>1, <1>2, <1>3, <1>5, <2>1, <2>2, Zenon DEF Piece
<1> QED BY <1>4, <1>5

\* A piece is what its token decodes to, less a character that the next completes.
LEMMA PieceText ==
  ASSUME NEW ts \in Seq(Tokens), NEW i \in 1..Len(ts)
  PROVE  Piece(ts, i) \in Seq(Chars)
<1>1. PICK b \in BOOLEAN : b = (i > 1 /\ Opens(ts[i-1]))
  OBVIOUS
<1>2. PICK x : x = Fresh(b, ts[i]) /\ x \in Seq(Chars) /\ Len(x) > 0
  BY FreshText
<1>3. Piece(ts, i) = x \/ Piece(ts, i) = Front(x)
  BY <1>1, <1>2, Zenon DEF Piece, Fresh
<1>4. Front(x) \in Seq(Chars)
  BY <1>2 DEF Front
<1> QED BY <1>2, <1>3, <1>4

\* The pieces are texts, one for each token.
LEMMA PiecesText ==
  ASSUME NEW ts \in Seq(Tokens)
  PROVE  /\ Pieces(ts) \in Seq(Seq(Chars)) /\ Len(Pieces(ts)) = Len(ts)
         /\ \A i \in 1..Len(ts) : Pieces(ts)[i] = Piece(ts, i)
<1>1. PICK S : S = Seq(Chars)
  OBVIOUS
<1>2. DOMAIN ts = 1..Len(ts) /\ Len(ts) \in Nat
  OBVIOUS
<1>3. PICK P : P = Pieces(ts) /\ P = [i \in 1..Len(ts) |-> Piece(ts, i)]
  BY <1>2 DEF Pieces
<1>4. \A i \in 1..Len(ts) : Piece(ts, i) \in S
  BY <1>1, PieceText
<1>5. P \in [1..Len(ts) -> S]
  BY <1>3, <1>4
<1>6. P \in Seq(S) /\ Len(P) = Len(ts)
  BY <1>2, <1>5
<1> QED BY <1>1, <1>3, <1>6

\* Without its last character a joined text loses that of its second part.
LEMMA FrontOfJoined ==
  ASSUME NEW T, NEW s \in Seq(T), NEW x \in Seq(T), Len(x) > 0
  PROVE  /\ Front(s \o x) = s \o Front(x)
         /\ Front(x) \in Seq(T) /\ Len(Front(x)) = Len(x) - 1
         /\ \A i \in 1..(Len(x) - 1) : Front(x)[i] = x[i]
<1>1. PICK m, n : m = Len(s) /\ n = Len(x) /\ m \in Nat /\ n \in Nat /\ n - 1 \in Nat
  <2>1. Len(s) \in Nat /\ Len(x) \in Nat /\ Len(x) - 1 \in Nat
    OBVIOUS
  <2> QED BY <2>1
<1>2. PICK y : y = SubSeq(x, 1, n-1)
  OBVIOUS
<1>3. y \in Seq(T) /\ Len(y) = n-1 /\ \A i \in 1..(n-1) : y[i] = x[i]
  BY <1>1, <1>2
<1>4. PICK z : z = s \o x
  OBVIOUS
<1>5. /\ z \in Seq(T) /\ Len(z) = m + n
      /\ \A i \in 1..m : z[i] = s[i]
      /\ \A i \in 1..n : z[m+i] = x[i]
  BY <1>1, <1>4
<1>6. PICK w : w = SubSeq(z, 1, m+n-1)
  OBVIOUS
<1>7. w \in Seq(T) /\ Len(w) = m+n-1 /\ \A i \in 1..(m+n-1) : w[i] = z[i]
  BY <1>1, <1>5, <1>6
<1>8. PICK v : v = s \o y
  OBVIOUS
<1>9. /\ v \in Seq(T) /\ Len(v) = m + (n-1)
      /\ \A i \in 1..m : v[i] = s[i]
      /\ \A i \in 1..(n-1) : v[m+i] = y[i]
  BY <1>1, <1>3, <1>8
<1>10. ASSUME NEW i \in 1..(m+n-1) PROVE w[i] = v[i]
  <2>1. CASE i <= m
    BY <1>1, <1>5, <1>7, <1>9, <2>1
  <2>2. CASE i > m
    <3>1. PICK k \in 1..(n-1) : i = m + k
      <4>1. i - m \in 1..(n-1) /\ i = m + (i-m)
        BY <1>1, <2>2
      <4> QED BY <4>1
    <3>2. k \in 1..n
      BY <1>1
    <3>3. z[m+k] = x[k] /\ v[m+k] = y[k] /\ y[k] = x[k] /\ w[i] = z[i]
      BY <1>3, <1>5, <1>7, <1>9, <3>2
    <3> QED BY <3>1, <3>3
  <2> QED BY <1>1, <2>1, <2>2
<1>11. w = v
  BY <1>1, <1>7, <1>9, <1>10, SeqEqual
<1>12. Front(x) = y /\ Front(z) = w
  BY <1>1, <1>2, <1>5, <1>6 DEF Front
<1> QED BY <1>1, <1>3, <1>4, <1>8, <1>11, <1>12

\* The text of one more token: it may complete a character, and adds its own.
LEMMA StepDecode ==
  ASSUME NEW ts \in Seq(Tokens), NEW t \in Tokens
  PROVE  /\ Decode(ts) \in Seq(Chars)
         /\ Decode(Append(ts, t)) = Kept(Decode(ts), Joins(ts, t)) \o Fresh(Joins(ts, t), t)
<1>1. PICK after, n, P, Q : after = Append(ts, t) /\ n = Len(ts) /\ P = Pieces(ts) /\ Q = Pieces(after)
  OBVIOUS
<1>2. after \in Seq(Tokens) /\ Len(after) = n + 1 /\ n \in Nat
  BY <1>1
<1>3. PICK S : S = Seq(Chars)
  OBVIOUS
<1>4. /\ P \in Seq(S) /\ Len(P) = n /\ \A i \in 1..n : P[i] = Piece(ts, i)
      /\ Q \in Seq(S) /\ Len(Q) = n + 1 /\ \A i \in 1..(n+1) : Q[i] = Piece(after, i)
  BY <1>1, <1>2, <1>3, PiecesText
<1>5. Decode(ts) = Joined(P) /\ Decode(after) = Joined(Q)
  BY <1>1, Zenon DEF Decode, Pieces
<1>6. PICK J \in BOOLEAN : J = Joins(ts, t)
  BY DEF Joins
<1>7. PICK new \in S : new = Fresh(J, t)
  BY <1>3, FreshText
<1>8. Q[n+1] = new
  <2>1. n+1 \in 1..(n+1)
    BY <1>2
  <2> QED BY <1>1, <1>4, <1>6, <1>7, <2>1, LastPiece
<1>9. \A i \in 1..n : Q[i] = IF i = n THEN Kept(P[i], J) ELSE P[i]
  <2> TAKE i \in 1..n
  <2>1. i \in 1..(n+1)
    BY <1>2
  <2>2. Piece(after, i) = IF i = n THEN Kept(Piece(ts, i), J) ELSE Piece(ts, i)
    BY <1>1, <1>6, EarlierPieces
  <2> QED BY <1>4, <2>1, <2>2
<1>10. CASE n = 0
  <2>1. P = <<>> /\ ts = <<>>
    BY <1>1, <1>4, <1>10, EmptySeq
  <2>2. Q = Append(<<>>, new)
    <3>1. Len(Q) = 1 /\ Q[1] = new
      BY <1>4, <1>8, <1>10
    <3> QED BY <1>4, <3>1
  <2>3. J = FALSE
    BY <1>6, <2>1 DEF Joins
  <2>4. <<>> \in Seq(Seq(Chars)) /\ <<>> \in Seq(Chars)
    BY EmptySeq
  <2>5. Joined(Q) = Joined(<<>>) \o new /\ Joined(P) \in Seq(Chars)
    BY <1>3, <2>1, <2>2, <2>4, JoinedAppend
  <2>6. Kept(Joined(P), J) = Joined(P)
    BY <2>3 DEF Kept
  <2> QED BY <1>1, <1>5, <1>6, <1>7, <2>1, <2>5, <2>6
<1>11. CASE n # 0
  <2>1. PICK f0 : f0 = SubSeq(P, 1, n-1)
    OBVIOUS
  <2>2. f0 \in Seq(S) /\ Len(f0) = n-1 /\ \A i \in 1..(n-1) : f0[i] = P[i]
    BY <1>2, <1>4, <1>11, <2>1
  <2>3. PICK x \in S : x = P[n] /\ Len(x) > 0
    <3>1. PICK p, l : p = Front(ts) /\ l = Last(ts)
      OBVIOUS
    <3>2. p \in Seq(Tokens) /\ l \in Tokens /\ ts = Append(p, l) /\ Len(p) + 1 = n
      <4>1. ts # <<>>
        BY <1>1, <1>11
      <4>2. p = SubSeq(ts, 1, n-1) /\ l = ts[n]
        BY <1>1, <3>1 DEF Front, Last
      <4>3. p \in Seq(Tokens) /\ Len(p) = n-1 /\ l \in Tokens
        BY <1>1, <1>2, <1>11, <4>2
      <4>4. \A i \in 1..(n-1) : p[i] = ts[i]
        BY <1>1, <1>2, <1>11, <4>2
      <4>5. ts = Append(p, l)
        BY <1>1, <1>2, <1>11, <4>2, <4>3, <4>4
      <4> QED BY <1>2, <4>3, <4>5
    <3>3. Piece(ts, n) = Fresh(Joins(p, l), l)
      BY <3>2, LastPiece
    <3>4. Joins(p, l) \in BOOLEAN
      BY DEF Joins
    <3>5. P[n] = Fresh(Joins(p, l), l)
      BY <1>2, <1>4, <1>11, <3>3
    <3> QED BY <1>3, <3>2, <3>4, <3>5, FreshText
  <2>4. P = Append(f0, x)
    <3>1. Append(f0, x) \in Seq(S) /\ Len(Append(f0, x)) = n
      BY <1>2, <2>2
    <3>2. ASSUME NEW i \in 1..n PROVE P[i] = Append(f0, x)[i]
      <4>1. CASE i = n
        BY <1>2, <2>2, <2>3, <4>1
      <4>2. CASE i # n
        <5>1. i \in 1..(n-1)
          BY <1>2, <4>2
        <5> QED BY <1>2, <2>2, <5>1
      <4> QED BY <4>1, <4>2
    <3> QED BY <1>4, <3>1, <3>2, SeqEqual
  <2>5. PICK y \in S : y = Kept(x, J) /\ (J => y = Front(x)) /\ (~J => y = x)
    BY <1>3, <2>3, FrontOfJoined DEF Kept
  <2>6. Q = Append(Append(f0, y), new)
    <3>0. (n-1)+1 = n
      BY <1>2
    <3>1. PICK g : g = Append(f0, y) /\ g \in Seq(S) /\ Len(g) = n /\ g[n] = y
                   /\ \A i \in 1..(n-1) : g[i] = P[i]
      <4>1. PICK g : g = Append(f0, y)
        OBVIOUS
      <4>2. g \in Seq(S) /\ Len(g) = n /\ g[n] = y
        BY <2>2, <2>5, <3>0, <4>1, AppendProperties
      <4>3. \A i \in 1..(n-1) : g[i] = f0[i]
        BY <2>2, <2>5, <4>1, AppendProperties
      <4> QED BY <2>2, <4>1, <4>2, <4>3
    <3>2. PICK h : h = Append(g, new) /\ h \in Seq(S) /\ Len(h) = n+1 /\ h[n+1] = new
                   /\ \A i \in 1..n : h[i] = g[i]
      <4>1. PICK h : h = Append(g, new)
        OBVIOUS
      <4>2. h \in Seq(S) /\ Len(h) = n+1 /\ h[n+1] = new
        BY <1>7, <3>1, <4>1, AppendProperties
      <4>3. \A i \in 1..n : h[i] = g[i]
        BY <1>7, <3>1, <4>1, AppendProperties
      <4> QED BY <4>1, <4>2, <4>3
    <3>3. ASSUME NEW i \in 1..(n+1) PROVE Q[i] = h[i]
      <4>1. CASE i = n+1
        BY <1>8, <3>2, <4>1
      <4>2. CASE i = n
        <5>1. n \in 1..n
          BY <1>2, <1>11
        <5>2. Q[n] = Kept(P[n], J)
          BY <1>9, <5>1
        <5> QED BY <2>3, <2>5, <3>1, <3>2, <4>2, <5>1, <5>2
      <4>3. CASE i # n+1 /\ i # n
        <5>1. i \in 1..(n-1) /\ i \in 1..n
          BY <1>2, <4>3
        <5>2. Q[i] = P[i]
          BY <1>9, <4>3, <5>1
        <5> QED BY <3>1, <3>2, <5>1, <5>2
      <4> QED BY <4>1, <4>2, <4>3
    <3> QED BY <1>4, <3>1, <3>2, <3>3, SeqEqual
  <2>7. PICK d \in Seq(Chars) : d = Joined(f0)
    BY <1>3, <2>2, JoinedAppend
  <2>8. Joined(P) = d \o x
    BY <1>3, <2>2, <2>4, <2>7, JoinedAppend
  <2>9. Joined(Q) = (d \o y) \o new
    <3>1. y \in Seq(Chars) /\ new \in Seq(Chars) /\ f0 \in Seq(Seq(Chars))
      BY <1>3, <2>2
    <3>2. PICK g : g = Append(f0, y)
      OBVIOUS
    <3>3. g \in Seq(Seq(Chars))
      BY <3>1, <3>2
    <3>4. Joined(g) = d \o y
      BY <2>7, <3>1, <3>2, JoinedAppend
    <3>5. Joined(Append(g, new)) = Joined(g) \o new
      BY <3>1, <3>3, JoinedAppend
    <3> QED BY <2>6, <3>2, <3>4, <3>5
  <2>10. Kept(d \o x, J) = d \o y
    <3>1. Front(d \o x) = d \o Front(x)
      BY <1>3, <2>3, <2>7, FrontOfJoined
    <3> QED BY <2>5, <3>1 DEF Kept
  <2>11. d \o x \in Seq(Chars)
    BY <1>3
  <2> QED BY <1>1, <1>5, <1>6, <1>7, <2>8, <2>9, <2>10, <2>11, Zenon
<1> QED BY <1>2, <1>10, <1>11

-----------------------------------------------------------------------------
(* Texts one after the other, and what occurs in them.                     *)

\* Two texts joined, character by character.
LEMMA TwoTexts ==
  ASSUME NEW T, NEW a \in Seq(T), NEW b \in Seq(T)
  PROVE  /\ a \o b \in Seq(T) /\ Len(a \o b) = Len(a) + Len(b)
         /\ Len(a) \in Nat /\ Len(b) \in Nat
         /\ \A i \in 1..Len(a) : (a \o b)[i] = a[i]
         /\ \A i \in 1..Len(b) : (a \o b)[Len(a) + i] = b[i]
<1>1. Len(a) \in Nat /\ Len(b) \in Nat
  OBVIOUS
<1>2. a \o b \in Seq(T) /\ Len(a \o b) = Len(a) + Len(b)
  BY ConcatProperties
<1>3. \A i \in 1..(Len(a) + Len(b)) : (a \o b)[i] = IF i <= Len(a) THEN a[i] ELSE b[i - Len(a)]
  BY ConcatProperties
<1>4. ASSUME NEW i \in 1..Len(a) PROVE (a \o b)[i] = a[i]
  BY <1>1, <1>3
<1>5. ASSUME NEW i \in 1..Len(b) PROVE (a \o b)[Len(a) + i] = b[i]
  <2>1. Len(a) + i \in 1..(Len(a) + Len(b)) /\ ~(Len(a) + i <= Len(a)) /\ (Len(a) + i) - Len(a) = i
    BY <1>1
  <2> QED BY <1>3, <2>1
<1> QED BY <1>1, <1>2, <1>4, <1>5

\* Two texts joined, cut where they meet.
LEMMA PrefixOfTwo ==
  ASSUME NEW T, NEW a \in Seq(T), NEW b \in Seq(T)
  PROVE  /\ IsPrefix(a, a \o b)
         /\ SubSeq(a \o b, 1, Len(a)) = a
         /\ SubSeq(a \o b, Len(a) + 1, Len(a \o b)) = b
<1>1. PICK c, m, n : c = a \o b /\ m = Len(a) /\ n = Len(b)
  OBVIOUS
<1>2. /\ c \in Seq(T) /\ Len(c) = m + n /\ m \in Nat /\ n \in Nat
      /\ \A i \in 1..m : c[i] = a[i]
      /\ \A i \in 1..n : c[m+i] = b[i]
  BY <1>1, TwoTexts
<1>3. PICK x : x = SubSeq(c, 1, m)
  OBVIOUS
<1>4. x \in Seq(T) /\ Len(x) = m /\ \A i \in 1..m : x[i] = c[i]
  BY <1>2, <1>3
<1>5. x = a
  BY <1>1, <1>2, <1>4, SeqEqual
<1>6. PICK y : y = SubSeq(c, m+1, m+n)
  OBVIOUS
<1>7. y \in Seq(T) /\ Len(y) = n /\ \A i \in 1..n : y[i] = c[m+i]
  <2>1. m+1 \in Int /\ m+n \in Int
    BY <1>2
  <2>2. \A i \in 1..n : m+i \in 1..Len(c)
    BY <1>2
  <2>3. y = [i \in 1..n |-> c[m+i]]
    BY <1>2, <1>6, <2>1
  <2>4. \A i \in 1..n : c[m+i] \in T
    BY <1>2, <2>2
  <2> QED BY <1>2, <2>3, <2>4
<1>8. y = b
  <2>1. \A i \in 1..n : y[i] = b[i]
    BY <1>2, <1>7
  <2> QED BY <1>1, <1>2, <1>7, <2>1, SeqEqual
<1>9. SubSeq(a, 1, Len(a)) = a
  <2>1. SubSeq(a, 1, m) \in Seq(T) /\ Len(SubSeq(a, 1, m)) = m
        /\ \A i \in 1..m : SubSeq(a, 1, m)[i] = a[i]
    BY <1>1, <1>2
  <2> QED BY <1>1, <2>1, SeqEqual
<1>10. IsPrefix(a, c)
  BY <1>1, <1>2, <1>3, <1>5, <1>9 DEF IsPrefix
<1> QED BY <1>1, <1>2, <1>3, <1>5, <1>6, <1>8, <1>10

\* A text cut in two.
LEMMA CutInTwo ==
  ASSUME NEW T, NEW s \in Seq(T), NEW n \in Nat, n <= Len(s)
  PROVE  /\ SubSeq(s, 1, n) \in Seq(T) /\ SubSeq(s, n+1, Len(s)) \in Seq(T)
         /\ s = SubSeq(s, 1, n) \o SubSeq(s, n+1, Len(s)) /\ Len(SubSeq(s, 1, n)) = n
<1>1. PICK m : m = Len(s) /\ m \in Nat
  OBVIOUS
<1>2. PICK a, b : a = SubSeq(s, 1, n) /\ b = SubSeq(s, n+1, m)
  OBVIOUS
<1>3. 1 \in 1..(m+1) /\ n \in (1-1)..m /\ m \in n..m
  BY <1>1
<1>4. a \o b = SubSeq(s, 1, m)
  BY <1>1, <1>2, <1>3, ConcatAdjacentSubSeq
<1>5. SubSeq(s, 1, m) = s
  <2>1. SubSeq(s, 1, m) \in Seq(T) /\ Len(SubSeq(s, 1, m)) = m
        /\ \A i \in 1..m : SubSeq(s, 1, m)[i] = s[i]
    BY <1>1
  <2> QED BY <1>1, <2>1, SeqEqual
<1>6. a \in Seq(T) /\ b \in Seq(T) /\ Len(a) = n
  BY <1>1, <1>2
<1> QED BY <1>1, <1>2, <1>4, <1>5, <1>6, Zenon

\* What occurs in a text has its length in it.
LEMMA OccursWithin ==
  ASSUME NEW T, NEW s \in Seq(T), NEW p \in Seq(T), Len(p) > 0, NEW i \in Nat \ {0}, OccursAt(p, s, i)
  PROVE  i \in 1..Len(s) /\ i + Len(p) <= Len(s) + 1
<1>1. Len(s) \in Nat /\ Len(p) \in Nat
  OBVIOUS
<1>2. i + Len(p) <= Len(s) + 1
  BY DEF OccursAt
<1> QED BY <1>1, <1>2

\* It occurs in a longer text too, and in the longer text it occurs in no other
\* place of the shorter one, but across its end.
LEMMA OccursLonger ==
  ASSUME NEW T, NEW a \in Seq(T), NEW b \in Seq(T), NEW p \in Seq(T), NEW i \in Nat \ {0}
  PROVE  /\ OccursAt(p, a, i) => OccursAt(p, a \o b, i)
         /\ OccursAt(p, a \o b, i) /\ i + Len(p) <= Len(a) + 1 => OccursAt(p, a, i)
<1>1. PICK c, m, n, l : c = a \o b /\ m = Len(a) /\ n = Len(b) /\ l = Len(p)
  OBVIOUS
<1>2. /\ c \in Seq(T) /\ Len(c) = m + n /\ m \in Nat /\ n \in Nat
      /\ \A k \in 1..m : c[k] = a[k]
  BY <1>1, TwoTexts
<1>3. l \in Nat
  BY <1>1
<1>4. ASSUME i + l <= m + 1, NEW k \in 1..l
      PROVE  c[i + k - 1] = a[i + k - 1]
  <2>1. i + k - 1 \in 1..m
    BY <1>2, <1>3, <1>4
  <2> QED BY <1>2, <2>1
<1>5. ASSUME OccursAt(p, a, i) PROVE OccursAt(p, c, i)
  <2>1. i + l <= m + 1 /\ \A k \in 1..l : a[i + k - 1] = p[k]
    BY <1>1, <1>5 DEF OccursAt
  <2>2. i + l <= Len(c) + 1
    BY <1>2, <1>3, <2>1
  <2>3. \A k \in 1..l : c[i + k - 1] = p[k]
    BY <1>4, <2>1
  <2> QED BY <1>1, <2>2, <2>3 DEF OccursAt
<1>6. ASSUME OccursAt(p, c, i), i + l <= m + 1 PROVE OccursAt(p, a, i)
  <2>1. \A k \in 1..l : c[i + k - 1] = p[k]
    BY <1>1, <1>6 DEF OccursAt
  <2>2. \A k \in 1..l : a[i + k - 1] = p[k]
    BY <1>4, <1>6, <2>1
  <2> QED BY <1>1, <1>6, <2>2 DEF OccursAt
<1> QED BY <1>1, <1>5, <1>6

\* What occurs in the second text occurs in both together, further on.
LEMMA OccursLater ==
  ASSUME NEW T, NEW a \in Seq(T), NEW b \in Seq(T), NEW p \in Seq(T), NEW i \in Nat \ {0}
  PROVE  OccursAt(p, b, i) <=> OccursAt(p, a \o b, Len(a) + i)
<1>1. PICK c, m, n, l : c = a \o b /\ m = Len(a) /\ n = Len(b) /\ l = Len(p)
  OBVIOUS
<1>2. /\ c \in Seq(T) /\ Len(c) = m + n /\ m \in Nat /\ n \in Nat
      /\ \A k \in 1..n : c[m+k] = b[k]
  BY <1>1, TwoTexts
<1>3. l \in Nat
  BY <1>1
<1>4. i + l <= n + 1 <=> (m + i) + l <= (m + n) + 1
  BY <1>2, <1>3
<1>5. ASSUME i + l <= n + 1, NEW k \in 1..l
      PROVE  c[(m + i) + k - 1] = b[i + k - 1]
  <2>1. i + k - 1 \in 1..n /\ m + (i + k - 1) = (m + i) + k - 1
    BY <1>2, <1>3, <1>5
  <2> QED BY <1>2, <2>1
<1>6. ASSUME OccursAt(p, b, i) PROVE OccursAt(p, c, m + i)
  <2>1. i + l <= n + 1 /\ \A k \in 1..l : b[i + k - 1] = p[k]
    BY <1>1, <1>6 DEF OccursAt
  <2>2. \A k \in 1..l : c[(m + i) + k - 1] = p[k]
    BY <1>5, <2>1
  <2> QED BY <1>1, <1>2, <1>4, <2>1, <2>2 DEF OccursAt
<1>7. ASSUME OccursAt(p, c, m + i) PROVE OccursAt(p, b, i)
  <2>1. (m + i) + l <= (m + n) + 1 /\ \A k \in 1..l : c[(m + i) + k - 1] = p[k]
    BY <1>1, <1>2, <1>7 DEF OccursAt
  <2>2. \A k \in 1..l : b[i + k - 1] = p[k]
    BY <1>4, <1>5, <2>1
  <2> QED BY <1>1, <1>2, <1>4, <2>1, <2>2 DEF OccursAt
<1> QED BY <1>1, <1>6, <1>7

\* A text that occurs somewhere has a first place.
LEMMA FirstPlace ==
  ASSUME NEW T, NEW s \in Seq(T), NEW p \in Seq(T), Occurs(p, s)
  PROVE  /\ Least(Positions(p, s)) \in 1..Len(s) /\ OccursAt(p, s, Least(Positions(p, s)))
         /\ \A i \in 1..Len(s) : OccursAt(p, s, i) => Least(Positions(p, s)) <= i
<1>1. PICK S : S = Positions(p, s)
  OBVIOUS
<1>2. S \subseteq Nat /\ S # {}
  BY <1>1 DEF Occurs, Positions
<1>3. Least(S) \in S /\ \A i \in S : Least(S) <= i
  BY <1>2, LeastNumber
<1> QED BY <1>1, <1>3 DEF Positions

\* The stop string that EarliestMatch finds occurs before every other.
LEMMA EarliestIsFirst ==
  ASSUME NEW T, NEW s \in Seq(T), NEW stops \in Seq(Seq(T)), Matching(s, stops) # {}
  PROVE  LET m == EarliestMatch(s, stops) IN
         /\ m \in DOMAIN stops /\ Occurs(stops[m], s)
         /\ \A j \in DOMAIN stops : \A i \in 1..Len(s) :
              OccursAt(stops[j], s, i) => Least(Positions(stops[m], s)) <= i
<1> DEFINE place(j) == Least(Positions(stops[j], s))
           M == Matching(s, stops)
           first == {j \in M : \A k \in M : place(j) <= place(k)}
           P == {place(j) : j \in M}
<1>1. \A j \in DOMAIN stops : stops[j] \in Seq(T) /\ j \in Nat
  OBVIOUS
<1>2. \A j \in M : j \in DOMAIN stops /\ Occurs(stops[j], s)
  BY DEF Matching
<1>3. \A j \in M : place(j) \in Nat
  <2> TAKE j \in M
  <2>1. stops[j] \in Seq(T) /\ Occurs(stops[j], s)
    BY <1>1, <1>2
  <2>2. Least(Positions(stops[j], s)) \in 1..Len(s)
    BY <2>1, FirstPlace
  <2> QED BY <2>2
<1>4. EarliestMatch(s, stops) = Least(first)
  BY DEF EarliestMatch
<1> HIDE DEF place, M
<1>5. Least(P) \in P /\ \A n \in P : Least(P) <= n
  <2>1. P \subseteq Nat /\ P # {}
    BY <1>3 DEF M
  <2> HIDE DEF P
  <2> QED BY <2>1, LeastNumber
<1>6. first # {}
  <2>1. PICK j \in M : place(j) = Least(P)
    BY <1>5
  <2>2. \A k \in M : place(j) <= place(k)
    BY <1>5, <2>1
  <2>3. j \in first
    BY <2>1, <2>2
  <2> QED BY <2>3
<1>7. first \subseteq Nat
  BY <1>1, <1>2
<1>8. Least(first) \in first
  <2> HIDE DEF first
  <2> QED BY <1>6, <1>7, LeastNumber
<1>9. PICK m : m = EarliestMatch(s, stops) /\ m \in M /\ \A k \in M : place(m) <= place(k)
  BY <1>4, <1>8
<1>10. ASSUME NEW j \in DOMAIN stops, NEW i \in 1..Len(s), OccursAt(stops[j], s, i)
       PROVE  place(m) <= i
  <2>1. Occurs(stops[j], s)
    BY <1>10 DEF Occurs, Positions
  <2>2. j \in M
    BY <2>1 DEF M, Matching
  <2>3. place(j) <= i
    BY <1>1, <1>10, <2>1, FirstPlace DEF place
  <2>4. place(m) <= place(j) /\ place(m) \in Nat /\ place(j) \in Nat /\ i \in Nat
    BY <1>3, <1>9, <2>2
  <2> QED BY <2>3, <2>4
<1>11. m \in DOMAIN stops /\ Occurs(stops[m], s)
  BY <1>2, <1>9
<1> QED BY <1>9, <1>10, <1>11 DEF place

-----------------------------------------------------------------------------
(* Text that is told, held back, and forgotten.                            *)

\* A stop string is a text of its own, with whole characters.
LEMMA StopStringText ==
  ASSUME NEW p \in StopSet
  PROVE  /\ p \in Seq(Chars) /\ Len(p) > 0 /\ \A k \in 1..Len(p) : p[k] # Replacement
         /\ \E j \in DOMAIN Stops : p = Stops[j]
<1>1. PICK j \in DOMAIN Stops : p = Stops[j]
  BY DEF StopSet
<1>2. p \in Seq(Chars)
  BY <1>1, TextAssumption
<1>3. Len(p) > 0
  BY <1>1, StreamAssumption
<1>4. Replacement \notin ToSet(p)
  BY <1>1, TextAssumption
<1>5. DOMAIN p = 1..Len(p)
  BY <1>2
<1>6. \A k \in 1..Len(p) : p[k] # Replacement
  BY <1>4, <1>5 DEF ToSet
<1> QED BY <1>1, <1>2, <1>3, <1>6

\* No stop string starts in what was told, whatever comes after it.
Forgotten(told) ==
  \A p \in StopSet : \A later \in Seq(Chars) : \A i \in 1..Len(told) : ~OccursAt(p, told \o later, i)

\* The text of a stop string after what was told is a text of its own.
LEMMA NoneAcross ==
  ASSUME NEW told \in Seq(Chars), NEW s \in Seq(Chars), Forgotten(told),
         NEW p \in StopSet, NEW i \in Nat \ {0}, OccursAt(p, told \o s, i)
  PROVE  \E k \in 1..Len(s) : i = Len(told) + k /\ OccursAt(p, s, k)
<1>1. p \in Seq(Chars) /\ Len(p) > 0
  BY StopStringText
<1>2. PICK c, m, n : c = told \o s /\ m = Len(told) /\ n = Len(s)
  OBVIOUS
<1>3. c \in Seq(Chars) /\ Len(c) = m + n /\ m \in Nat /\ n \in Nat
  BY <1>2, TwoTexts
<1>4. i \in 1..(m+n)
  BY <1>1, <1>2, <1>3, OccursWithin
<1>5. ~(i \in 1..m)
  BY <1>2 DEF Forgotten
<1>6. PICK k \in 1..n : i = m + k
  <2>1. i - m \in 1..n /\ i = m + (i - m)
    BY <1>3, <1>4, <1>5
  <2> QED BY <2>1
<1>7. k \in Nat \ {0}
  BY <1>3
<1>8. OccursAt(p, s, k)
  BY <1>1, <1>2, <1>6, <1>7, OccursLater
<1> QED BY <1>2, <1>6, <1>8

\* A verdict of no match lets the text be forgotten.
LEMMA ForgetMore ==
  ASSUME NEW told \in Seq(Chars), NEW s \in Seq(Chars), Forgotten(told),
         Status(s, Stops) = "no_match"
  PROVE  Forgotten(told \o s)
<1>1. SUFFICES ASSUME NEW p \in StopSet, NEW later \in Seq(Chars), NEW i \in 1..Len(told \o s),
                      OccursAt(p, (told \o s) \o later, i)
               PROVE  FALSE
  BY DEF Forgotten
<1>2. PICK x : x = s \o later
  OBVIOUS
<1>3. x \in Seq(Chars) /\ (told \o s) \o later = told \o x
  <2>1. (told \o s) \o later = told \o (s \o later)
    <3>1. later \in Seq(Chars)
      BY <1>1
    <3> QED BY <3>1, TextsAssociate
  <2>2. s \o later \in Seq(Chars)
    BY <1>1, ConcatProperties
  <2> QED BY <1>2, <2>1, <2>2
<1>4. i \in Nat \ {0} /\ i <= Len(told) + Len(s)
  BY TwoTexts
<1>5. PICK k \in 1..Len(x) : i = Len(told) + k /\ OccursAt(p, x, k)
  BY <1>1, <1>3, <1>4, NoneAcross
<1>6. PICK j \in DOMAIN Stops : p = Stops[j]
  BY StopStringText
<1>7. Len(Stops[j]) > 0 /\ Stops \in Seq(Seq(Chars))
  BY StreamAssumption, TextAssumption
<1>8. k > Len(s)
  BY <1>2, <1>5, <1>6, <1>7, NoMatchMayForget
<1>9. Len(told) \in Nat /\ Len(s) \in Nat /\ k \in Nat
  BY <1>3
<1> QED BY <1>4, <1>5, <1>8, <1>9

\* What is told before a verdict of no match holds no stop string.
LEMMA NoneTold ==
  ASSUME NEW told \in Seq(Chars), NEW s \in Seq(Chars), NEW new \in Seq(Chars), Forgotten(told),
         Matching(s \o new, Stops) = {}, NEW p \in StopSet
  PROVE  ~Occurs(p, told \o s)
<1>1. SUFFICES ASSUME Occurs(p, told \o s) PROVE FALSE
  OBVIOUS
<1>2. PICK i \in Nat \ {0} : OccursAt(p, told \o s, i)
  BY <1>1 DEF Occurs, Positions
<1>3. PICK k \in 1..Len(s) : OccursAt(p, s, k)
  BY <1>2, NoneAcross
<1>4. p \in Seq(Chars) /\ k \in Nat \ {0}
  BY StopStringText
<1>5. OccursAt(p, s \o new, k)
  BY <1>3, <1>4, OccursLonger
<1>6. k \in 1..Len(s \o new)
  BY <1>4, TwoTexts
<1>7. PICK j \in DOMAIN Stops : p = Stops[j]
  BY StopStringText
<1>8. j \in Matching(s \o new, Stops)
  BY <1>5, <1>6, <1>7 DEF Matching, Occurs, Positions
<1> QED BY <1>8

\* The text told of x, when a stop string is found in x: it ends where one begins
\* in all, or it is all.
StopsAt(x, all) ==
  /\ \E p \in StopSet : OccursAt(p, all, Len(x) + 1)
  /\ \A p \in StopSet : \A i \in 1..Len(x) : ~OccursAt(p, all, i)

\* The first stop string of what is held back, before which the text is told.
LEMMA TextBeforeStop ==
  ASSUME NEW told \in Seq(Chars), NEW s \in Seq(Chars), Forgotten(told),
         NEW p \in StopSet, Occurs(p, s),
         \A q \in StopSet : \A i \in 1..Len(s) : OccursAt(q, s, i) => Least(Positions(p, s)) <= i
  PROVE  /\ told \o TextBefore(p, s) \in Seq(Chars)
         /\ IsPrefix(told \o TextBefore(p, s), told \o s)
         /\ StopsAt(told \o TextBefore(p, s), told \o s)
         /\ \A q \in StopSet : ~Occurs(q, told \o TextBefore(p, s))
<1>1. PICK n, all : n = Least(Positions(p, s)) /\ all = told \o s
  OBVIOUS
<1>2. p \in Seq(Chars) /\ Len(p) > 0
  BY StopStringText
<1>3. n \in 1..Len(s) /\ OccursAt(p, s, n) /\ n \in Nat \ {0} /\ n - 1 \in Nat /\ n - 1 <= Len(s)
  BY <1>1, <1>2, FirstPlace
<1>4. PICK a, b \in Seq(Chars) : a = SubSeq(s, 1, n-1) /\ s = a \o b /\ Len(a) = n - 1
  <2>1. PICK m : m = n - 1
    OBVIOUS
  <2>2. m \in Nat /\ m <= Len(s)
    BY <1>3, <2>1
  <2>3. PICK a, b : a = SubSeq(s, 1, m) /\ b = SubSeq(s, m+1, Len(s))
    OBVIOUS
  <2>4. a \in Seq(Chars) /\ b \in Seq(Chars) /\ s = a \o b /\ Len(a) = m
    BY <2>2, <2>3, CutInTwo
  <2> QED BY <2>1, <2>3, <2>4
<1>5. PICK x : x = told \o a
  OBVIOUS
<1>6. x \in Seq(Chars) /\ Len(x) = Len(told) + (n - 1) /\ Len(told) \in Nat /\ all = x \o b
  <2>1. x \in Seq(Chars) /\ Len(x) = Len(told) + Len(a) /\ Len(told) \in Nat
    BY <1>5, TwoTexts
  <2>2. (told \o a) \o b = told \o (a \o b)
    BY ConcatAssociative
  <2> QED BY <1>1, <1>4, <1>5, <2>1, <2>2
<1>7. told \o TextBefore(p, s) = x
  BY <1>1, <1>4, <1>5 DEF TextBefore
<1>8. IsPrefix(x, all)
  BY <1>6, PrefixOfTwo
<1>9. OccursAt(p, all, Len(x) + 1)
  <2>1. OccursAt(p, all, Len(told) + n)
    BY <1>1, <1>2, <1>3, OccursLater
  <2>2. Len(x) + 1 = Len(told) + n
    BY <1>3, <1>6
  <2> QED BY <2>1, <2>2
<1>10. ASSUME NEW q \in StopSet, NEW i \in 1..Len(x), OccursAt(q, all, i)
       PROVE  FALSE
  <2>1. i \in Nat \ {0} /\ i <= Len(told) + (n - 1)
    BY <1>6
  <2>2. PICK k \in 1..Len(s) : i = Len(told) + k /\ OccursAt(q, s, k)
    BY <1>1, <1>10, <2>1, NoneAcross
  <2>3. n <= k
    BY <1>1, <2>2
  <2> QED BY <1>3, <1>6, <2>1, <2>2, <2>3
<1>11. ASSUME NEW q \in StopSet, Occurs(q, x)
       PROVE  FALSE
  <2>1. PICK i \in 1..Len(x) : OccursAt(q, x, i)
    BY <1>11 DEF Occurs, Positions
  <2>2. q \in Seq(Chars) /\ i \in Nat \ {0}
    BY <1>6, StopStringText
  <2>3. OccursAt(q, all, i)
    BY <1>4, <1>6, <2>1, <2>2, OccursLonger
  <2> QED BY <1>10, <2>3
<1>12. StopsAt(x, all)
  BY <1>9, <1>10 DEF StopsAt
<1> QED BY <1>1, <1>6, <1>7, <1>8, <1>11, <1>12

\* A stop string is found once the text of an end token follows what was held back:
\* it is in what was held back, or all of that is told.
LEMMA TextAtStop ==
  ASSUME NEW told \in Seq(Chars), NEW s \in Seq(Chars), NEW new \in Seq(Chars), Forgotten(told),
         Matching(s \o new, Stops) # {},
         NEW p, p = Stops[EarliestMatch(s \o new, Stops)],
         \/ new = <<>> \/ s = <<>>
         \/ Len(s) > 0 /\ s[Len(s)] = Replacement
         \/ Matching(s, Stops) = {}
  PROVE  /\ told \o TextBefore(p, s) \in Seq(Chars)
         /\ IsPrefix(told \o TextBefore(p, s), told \o s)
         /\ \/ StopsAt(told \o TextBefore(p, s), told \o s)
            \/ new # <<>> /\ told \o TextBefore(p, s) = told \o s
         /\ \A q \in StopSet : ~Occurs(q, told \o TextBefore(p, s))
<1>1. PICK D : D = s \o new
  OBVIOUS
<1>2. /\ D \in Seq(Chars) /\ Len(D) = Len(s) + Len(new) /\ Len(s) \in Nat /\ Len(new) \in Nat
      /\ \A i \in 1..Len(s) : D[i] = s[i]
  BY <1>1, TwoTexts
<1>3. Stops \in Seq(Seq(Chars))
  BY TextAssumption
<1>4. PICK m : m = EarliestMatch(D, Stops)
  OBVIOUS
<1>5. /\ m \in DOMAIN Stops /\ Occurs(Stops[m], D)
      /\ \A j \in DOMAIN Stops : \A i \in 1..Len(D) :
           OccursAt(Stops[j], D, i) => Least(Positions(Stops[m], D)) <= i
  BY <1>1, <1>2, <1>3, <1>4, EarliestIsFirst
<1>6. p = Stops[m] /\ p \in StopSet
  BY <1>1, <1>4, <1>5 DEF StopSet
<1>7. p \in Seq(Chars) /\ Len(p) > 0 /\ \A k \in 1..Len(p) : p[k] # Replacement
  BY <1>6, StopStringText
<1>8. PICK n : n = Least(Positions(p, D))
  OBVIOUS
<1>9. n \in 1..Len(D) /\ n \in Nat \ {0} /\ OccursAt(p, D, n)
  BY <1>2, <1>5, <1>6, <1>7, <1>8, FirstPlace
<1>10. ASSUME NEW q \in StopSet, NEW i \in 1..Len(D), OccursAt(q, D, i)
       PROVE  n <= i
  <2>1. PICK j \in DOMAIN Stops : q = Stops[j]
    BY DEF StopSet
  <2> QED BY <1>5, <1>6, <1>8, <1>10, <2>1
<1>11. ASSUME NEW q \in StopSet, NEW i \in 1..Len(s), OccursAt(q, s, i)
       PROVE  n <= i
  <2>1. q \in Seq(Chars) /\ i \in Nat \ {0} /\ i \in 1..Len(D)
    BY <1>2, StopStringText
  <2>2. OccursAt(q, D, i)
    BY <1>1, <1>11, <2>1, OccursLonger
  <2> QED BY <1>10, <2>1, <2>2
<1>12. CASE Occurs(p, s)
  <2>1. PICK k : k = Least(Positions(p, s))
    OBVIOUS
  <2>2. k \in 1..Len(s) /\ OccursAt(p, s, k) /\ \A i \in 1..Len(s) : OccursAt(p, s, i) => k <= i
    BY <1>7, <1>12, <2>1, FirstPlace
  <2>3. k + Len(p) <= Len(s) + 1 /\ k \in Nat
    BY <1>7, <2>2, OccursWithin
  <2>4. n <= k
    BY <1>6, <1>11, <2>2
  <2>5. OccursAt(p, s, n)
    <3>1. n + Len(p) <= Len(s) + 1
      BY <1>2, <1>7, <1>9, <2>3, <2>4
    <3> QED BY <1>1, <1>7, <1>9, <3>1, OccursLonger
  <2>6. n \in 1..Len(s)
    BY <1>2, <1>9, <2>2, <2>3, <2>4
  <2>7. k = n
    BY <2>2, <2>3, <2>4, <2>5, <2>6
  <2>8. \A q \in StopSet : \A i \in 1..Len(s) :
          OccursAt(q, s, i) => Least(Positions(p, s)) <= i
    BY <1>11, <2>1, <2>7
  <2> QED BY <1>6, <1>12, <2>8, TextBeforeStop
<1>13. CASE ~Occurs(p, s)
  <2>1. TextBefore(p, s) = s
    BY <1>13 DEF TextBefore
  <2>2. new # <<>>
    <3>1. SUFFICES ASSUME new = <<>> PROVE FALSE
      OBVIOUS
    <3>2. D = s
      BY <1>1, <3>1, ConcatEmptySeq
    <3> QED BY <1>5, <1>6, <1>13, <3>2
  <2>3. ASSUME NEW q \in StopSet, Occurs(q, told \o s)
        PROVE  FALSE
    <3>1. PICK i \in Nat \ {0} : OccursAt(q, told \o s, i)
      BY <2>3 DEF Occurs, Positions
    <3>2. PICK k \in 1..Len(s) : OccursAt(q, s, k)
      BY <3>1, NoneAcross
    <3>3. Len(s) > 0 /\ Len(s) \in 1..Len(s)
      BY <1>2
    <3>4. Matching(s, Stops) # {}
      <4>1. PICK j \in DOMAIN Stops : q = Stops[j]
        BY DEF StopSet
      <4>2. j \in Matching(s, Stops)
        BY <3>2, <4>1 DEF Matching, Occurs, Positions
      <4> QED BY <4>2
    <3>5. s[Len(s)] = Replacement
      <4>1. s # <<>>
        BY <3>3
      <4> QED BY <2>2, <3>4, <4>1
    <3>6. n <= k /\ n \in 1..Len(s)
      BY <1>2, <1>9, <1>11, <3>2
    <3>7. ~(n + Len(p) <= Len(s) + 1)
      <4>1. ~OccursAt(p, s, n)
        BY <1>13, <3>6 DEF Occurs, Positions
      <4> QED BY <1>1, <1>7, <1>9, <4>1, OccursLonger
    <3>8. PICK l \in 1..Len(p) : n + l - 1 = Len(s)
      <4>1. Len(p) \in Nat
        BY <1>7
      <4>2. (Len(s) - n) + 1 \in 1..Len(p) /\ n + ((Len(s) - n) + 1) - 1 = Len(s)
        BY <1>2, <1>9, <3>6, <3>7, <4>1
      <4> QED BY <4>2
    <3>9. D[n + l - 1] = p[l]
      BY <1>9 DEF OccursAt
    <3>10. D[Len(s)] = Replacement
      BY <1>2, <3>3, <3>5
    <3> QED BY <1>7, <3>8, <3>9, <3>10
  <2>4. told \o s \in Seq(Chars) /\ <<>> \in Seq(Chars) /\ (told \o s) \o <<>> = told \o s
    BY ConcatProperties, EmptySeq, ConcatEmptySeq
  <2>5. IsPrefix(told \o s, told \o s)
    <3>1. PICK x : x = told \o s
      OBVIOUS
    <3>2. IsPrefix(x, x \o <<>>)
      BY <2>4, <3>1, PrefixOfTwo
    <3> QED BY <2>4, <3>1, <3>2
  <2> QED BY <2>1, <2>2, <2>3, <2>4, <2>5
<1> QED BY <1>12, <1>13

-----------------------------------------------------------------------------
(* What the tokens read give to tell.                                      *)

\* A list of tokens has a last one.
LEMMA TokensThenLast ==
  ASSUME NEW T, NEW ts \in Seq(T), ts # <<>>
  PROVE  \E p \in Seq(T), l \in T : p = Front(ts) /\ l = Last(ts) /\ ts = Append(p, l)
<1>1. PICK n : n = Len(ts) /\ n \in Nat \ {0}
  OBVIOUS
<1>2. PICK p, l : p = SubSeq(ts, 1, n-1) /\ l = ts[n]
  OBVIOUS
<1>3. p \in Seq(T) /\ Len(p) = n-1 /\ l \in T /\ \A i \in 1..(n-1) : p[i] = ts[i]
  BY <1>1, <1>2
<1>4. ts = Append(p, l)
  BY <1>1, <1>2, <1>3
<1>5. Front(ts) = p /\ Last(ts) = l
  BY <1>1, <1>2 DEF Front, Last
<1> QED BY <1>3, <1>4, <1>5

\* The token read last is the last one.
LEMMA FrontLast ==
  ASSUME NEW T, NEW ts \in Seq(T), NEW t \in T
  PROVE  Front(Append(ts, t)) = ts /\ Last(Append(ts, t)) = t /\ Append(ts, t) # <<>>
<1>1. PICK after, n : after = Append(ts, t) /\ n = Len(ts)
  OBVIOUS
<1>2. /\ after \in Seq(T) /\ Len(after) = n + 1 /\ n \in Nat /\ after[n+1] = t
      /\ \A i \in 1..n : after[i] = ts[i]
  BY <1>1
<1>3. PICK p : p = SubSeq(after, 1, n)
  OBVIOUS
<1>4. p \in Seq(T) /\ Len(p) = n /\ \A i \in 1..n : p[i] = after[i]
  BY <1>2, <1>3
<1>5. p = ts
  BY <1>1, <1>2, <1>4, SeqEqual
<1>6. (n + 1) - 1 = n
  BY <1>2
<1> QED BY <1>1, <1>2, <1>3, <1>5, <1>6 DEF Front, Last

\* The text of tokens; a token that opens a character leaves the mark of it.
LEMMA DecodedText ==
  ASSUME NEW ts \in Seq(Tokens)
  PROVE  /\ Decode(ts) \in Seq(Chars)
         /\ ts = <<>> => Decode(ts) = <<>>
         /\ ts # <<>> => /\ Len(Decode(ts)) > 0
                         /\ Opens(Last(ts)) => Decode(ts)[Len(Decode(ts))] = Replacement
<1>1. CASE ts = <<>>
  <2>1. [i \in DOMAIN ts |-> Piece(ts, i)] = <<>>
    <3>1. Pieces(ts) \in Seq(Seq(Chars)) /\ Len(Pieces(ts)) = 0
      BY <1>1, PiecesText, EmptySeq
    <3>2. Pieces(ts) = <<>>
      BY <3>1, EmptySeq
    <3> QED BY <3>2, Zenon DEF Pieces
  <2>2. Decode(ts) = <<>>
    BY <2>1, JoinedNone DEF Decode
  <2>3. <<>> \in Seq(Chars)
    BY EmptySeq
  <2> QED BY <1>1, <2>2, <2>3
<1>2. CASE ts # <<>>
  <2>1. PICK p \in Seq(Tokens), l \in Tokens : l = Last(ts) /\ ts = Append(p, l)
    BY <1>2, TokensThenLast
  <2>2. PICK J \in BOOLEAN : J = Joins(p, l)
    BY DEF Joins
  <2>3. PICK x : x = Kept(Decode(p), J)
    OBVIOUS
  <2>4. PICK y : y = Fresh(J, l)
    OBVIOUS
  <2>5. y \in Seq(Chars) /\ Len(y) > 0 /\ (Opens(l) => y[Len(y)] = Replacement)
    BY <2>4, FreshText
  <2>6. Decode(p) \in Seq(Chars) /\ Decode(ts) = x \o y
    BY <2>1, <2>2, <2>3, <2>4, StepDecode
  <2>7. x \in Seq(Chars)
    <3>1. Front(Decode(p)) \in Seq(Chars)
      BY <2>6 DEF Front
    <3> QED BY <2>3, <2>6, <3>1 DEF Kept
  <2>8. PICK z : z = x \o y
    OBVIOUS
  <2>9. /\ z \in Seq(Chars) /\ Len(z) = Len(x) + Len(y) /\ Len(x) \in Nat /\ Len(y) \in Nat
        /\ \A i \in 1..Len(y) : z[Len(x) + i] = y[i]
    BY <2>5, <2>7, <2>8, TwoTexts
  <2>10. Len(y) \in 1..Len(y)
    BY <2>5, <2>9
  <2>11. Len(z) > 0 /\ z[Len(z)] = y[Len(y)]
    BY <2>5, <2>9, <2>10
  <2> QED BY <1>2, <2>1, <2>5, <2>6, <2>8, <2>9, <2>11
<1> QED BY <1>1, <1>2

\* A text without its last character.
LEMMA FrontText ==
  ASSUME NEW s \in Seq(Chars), Len(s) > 0
  PROVE  Front(s) \in Seq(Chars) /\ \E b \in Seq(Chars) : s = Front(s) \o b
<1>1. Len(s) - 1 \in Nat /\ Len(s) - 1 <= Len(s)
  OBVIOUS
<1>2. PICK n : n = Len(s) - 1
  OBVIOUS
<1>3. n \in Nat /\ n <= Len(s)
  BY <1>1, <1>2
<1>4. PICK a, b : a = SubSeq(s, 1, n) /\ b = SubSeq(s, n+1, Len(s))
  OBVIOUS
<1>5. a \in Seq(Chars) /\ b \in Seq(Chars) /\ s = a \o b
  BY <1>3, <1>4, CutInTwo
<1> QED BY <1>2, <1>4, <1>5 DEF Front

\* What is shown is what is decoded, or all but the mark at its end.
LEMMA ShownOrFront ==
  ASSUME NEW ts \in Seq(Tokens), NEW reason, reason # "stop"
  PROVE  /\ Shown(ts, reason) \in {Decode(ts), Front(Decode(ts))}
         /\ Decode(ts) = <<>> => Shown(ts, reason) = Decode(ts)
         /\ Len(Decode(ts)) > 0 /\ Decode(ts)[Len(Decode(ts))] # Replacement
              => Shown(ts, reason) = Decode(ts)
         /\ reason # None => Shown(ts, reason) = Decode(ts)
         /\ reason = None /\ Len(Decode(ts)) > 0 /\ Decode(ts)[Len(Decode(ts))] = Replacement
              => Shown(ts, reason) = Front(Decode(ts))
<1>1. PICK s : s = Decode(ts) /\ s \in Seq(Chars)
  BY DecodedText
<1>2. Shown(ts, reason) = IF reason = None /\ s # <<>> /\ Last(s) = Replacement THEN Front(s) ELSE s
  BY <1>1, Zenon DEF Shown
<1>3. Last(s) = s[Len(s)] /\ (Len(s) > 0 <=> s # <<>>)
  BY <1>1, EmptySeq DEF Last
<1> QED BY <1>1, <1>2, <1>3

\* The text shown grows by a segment with each token.
LEMMA ShownGrows ==
  ASSUME NEW ts \in Seq(Tokens), NEW t \in Tokens, NEW reason \in {None, "stop", "length"}
  PROVE  /\ Shown(ts, None) \in Seq(Chars)
         /\ Segment(ts, Append(ts, t), reason) \in Seq(Chars)
         /\ Shown(Append(ts, t), reason) = Shown(ts, None) \o Segment(ts, Append(ts, t), reason)
<1>1. PICK d, after : d = Decode(ts) /\ after = Append(ts, t)
  OBVIOUS
<1>2. d \in Seq(Chars) /\ after \in Seq(Tokens) /\ None # "stop"
  BY <1>1, DecodedText DEF None
<1>3. PICK a : a = Shown(ts, None)
  OBVIOUS
<1>4. a = d \/ (a = Front(d) /\ Len(d) > 0)
  <2>1. a \in {d, Front(d)} /\ (d = <<>> => a = d)
    BY <1>1, <1>2, <1>3, ShownOrFront
  <2>2. d # <<>> => Len(d) > 0
    BY <1>2, EmptySeq
  <2> QED BY <2>1, <2>2
<1>5. a \in Seq(Chars) /\ \E b \in Seq(Chars) : d = a \o b
  <2>1. CASE a = d
    <3>1. <<>> \in Seq(Chars) /\ d = d \o <<>>
      BY <1>2, EmptySeq, ConcatEmptySeq
    <3> QED BY <1>2, <2>1, <3>1
  <2>2. CASE a # d
    BY <1>2, <1>4, <2>2, FrontText
  <2> QED BY <2>1, <2>2
<1>6. PICK s : s = Shown(after, reason)
  OBVIOUS
<1>7. \E b \in Seq(Chars) : s = a \o b
  <2>1. CASE reason = "stop"
    <3>1. Front(after) = ts
      BY <1>1, FrontLast
    <3>2. s = d
      BY <1>1, <1>6, <2>1, <3>1, Zenon DEF Shown, None
    <3> QED BY <1>5, <3>2
  <2>2. CASE reason # "stop"
    <3>1. PICK J \in BOOLEAN : J = Joins(ts, t)
      BY DEF Joins
    <3>2. PICK x, y : x = Kept(d, J) /\ y = Fresh(J, t)
      OBVIOUS
    <3>3. y \in Seq(Chars) /\ Len(y) > 0
      BY <3>2, FreshText
    <3>4. Decode(after) = x \o y
      BY <1>1, <3>1, <3>2, StepDecode
    <3>5. x \in Seq(Chars) /\ \E b \in Seq(Chars) : x = a \o b
      <4>1. CASE J
        <5>1. ts # <<>> /\ Opens(Last(ts))
          BY <3>1, <4>1 DEF Joins
        <5>2. Len(d) > 0 /\ d[Len(d)] = Replacement
          BY <1>1, <5>1, DecodedText
        <5>3. a = Front(d)
          BY <1>1, <1>2, <1>3, <5>2, ShownOrFront
        <5>4. x = a
          BY <3>2, <4>1, <5>3 DEF Kept
        <5>5. <<>> \in Seq(Chars) /\ a = a \o <<>>
          BY <1>5, EmptySeq, ConcatEmptySeq
        <5> QED BY <1>5, <5>4, <5>5
      <4>2. CASE ~J
        <5>1. x = d
          BY <3>2, <4>2 DEF Kept
        <5> QED BY <1>2, <1>5, <5>1
      <4> QED BY <4>1, <4>2
    <3>6. PICK b \in Seq(Chars) : x = a \o b
      BY <3>5
    <3>7. PICK c \in Seq(Chars) : s = x \o c
      <4>1. s \in {x \o y, Front(x \o y)}
        BY <1>2, <1>6, <2>2, <3>4, ShownOrFront
      <4>2. Front(x \o y) = x \o Front(y) /\ Front(y) \in Seq(Chars)
        BY <3>3, <3>5, FrontOfJoined
      <4> QED BY <3>3, <4>1, <4>2
    <3>8. s = a \o (b \o c) /\ b \o c \in Seq(Chars)
      <4>1. a \in Seq(Chars)
        BY <1>5
      <4>2. b \in Seq(Chars)
        BY <3>6
      <4>3. c \in Seq(Chars)
        BY <3>7
      <4>4. (a \o b) \o c = a \o (b \o c)
        BY <4>1, <4>2, <4>3, ConcatAssociative
      <4>5. b \o c \in Seq(Chars)
        BY <4>2, <4>3, ConcatProperties
      <4> QED BY <3>6, <3>7, <4>4, <4>5
    <3> QED BY <3>8
  <2> QED BY <2>1, <2>2
<1>8. PICK b \in Seq(Chars) : s = a \o b
  BY <1>7
<1>9. SubSeq(s, Len(a) + 1, Len(s)) = b
  BY <1>5, <1>8, PrefixOfTwo
<1>10. Segment(ts, after, reason) = b
  BY <1>3, <1>6, <1>9, Zenon DEF Segment
<1> QED BY <1>1, <1>3, <1>5, <1>6, <1>8, <1>10

\* The same token does the same to a text and to the end of it.
LEMMA DecodeTogether ==
  ASSUME NEW ts \in Seq(Tokens), NEW us \in Seq(Tokens), NEW told \in Seq(Chars), NEW t \in Tokens,
         Decode(ts) = told \o Decode(us), Joins(ts, t) <=> Joins(us, t)
  PROVE  Decode(Append(ts, t)) = told \o Decode(Append(us, t))
<1>1. PICK J \in BOOLEAN : J = Joins(us, t)
  BY DEF Joins
<1>2. Joins(ts, t) = J
  BY <1>1 DEF Joins
<1>3. PICK u : u = Decode(us)
  OBVIOUS
<1>4. u \in Seq(Chars) /\ (J => Len(u) > 0)
  BY <1>1, <1>3, DecodedText DEF Joins
<1>5. PICK y : y = Fresh(J, t)
  OBVIOUS
<1>6. y \in Seq(Chars)
  BY <1>5, FreshText
<1>7. Decode(Append(ts, t)) = Kept(told \o u, J) \o y
  BY <1>2, <1>3, <1>5, StepDecode
<1>8. Decode(Append(us, t)) = Kept(u, J) \o y
  BY <1>1, <1>3, <1>5, StepDecode
<1>9. Kept(told \o u, J) = told \o Kept(u, J) /\ Kept(u, J) \in Seq(Chars)
  <2>1. CASE J
    BY <1>4, <2>1, FrontOfJoined DEF Kept
  <2>2. CASE ~J
    BY <1>4, <2>2 DEF Kept
  <2> QED BY <2>1, <2>2
<1>10. (told \o Kept(u, J)) \o y = told \o (Kept(u, J) \o y)
  <2>1. PICK k : k = Kept(u, J)
    OBVIOUS
  <2>2. k \in Seq(Chars)
    BY <1>9, <2>1
  <2>3. (told \o k) \o y = told \o (k \o y)
    BY <1>6, <2>2, ConcatAssociative
  <2> QED BY <2>1, <2>3
<1> QED BY <1>7, <1>8, <1>9, <1>10

-----------------------------------------------------------------------------
(* What results say together.                                              *)

ResultSet == [text : Seq(Chars), tokens : Seq(Tokens), stop : StopReasons]

\* And so are results.
LEMMA ResultsAssociate ==
  \A a, b, c \in Seq(ResultSet) : (a \o b) \o c = a \o (b \o c)
<1> SUFFICES ASSUME NEW a \in Seq(ResultSet), NEW b \in Seq(ResultSet), NEW c \in Seq(ResultSet)
             PROVE  (a \o b) \o c = a \o (b \o c)
  OBVIOUS
<1>1. PICK R : R = ResultSet
  OBVIOUS
<1>2. a \in Seq(R) /\ b \in Seq(R) /\ c \in Seq(R)
  BY <1>1
<1> QED BY <1>2, ConcatAssociative

TextsOf(rs) == Joined([i \in DOMAIN rs |-> rs[i].text])
TokensOf(rs) == Joined([i \in DOMAIN rs |-> rs[i].tokens])
Says(rs, reason) == \E i \in DOMAIN rs : rs[i].stop = reason

\* No results tell nothing.
LEMMA NoResults ==
  /\ <<>> \in Seq(ResultSet)
  /\ TextsOf(<<>>) = <<>> /\ TokensOf(<<>>) = <<>> /\ ~Says(<<>>, "stop_string")
<1>1. PICK rs : rs = <<>>
  OBVIOUS
<1>2. DOMAIN rs = {} /\ rs \in Seq(ResultSet)
  BY <1>1, EmptySeq
<1>3. [i \in DOMAIN rs |-> rs[i].text] = rs /\ [i \in DOMAIN rs |-> rs[i].tokens] = rs
  <2>1. rs = [i \in {} |-> rs[i]]
    BY <1>1, <1>2
  <2> QED BY <1>2, <2>1
<1> QED BY <1>1, <1>2, <1>3, JoinedNone DEF TextsOf, TokensOf, Says

\* What results tell is text and tokens.
LEMMA ResultsType ==
  ASSUME NEW rs \in Seq(ResultSet)
  PROVE  /\ [i \in DOMAIN rs |-> rs[i].text] \in Seq(Seq(Chars))
         /\ [i \in DOMAIN rs |-> rs[i].tokens] \in Seq(Seq(Tokens))
         /\ TextsOf(rs) \in Seq(Chars) /\ TokensOf(rs) \in Seq(Tokens)
<1>1. DOMAIN rs = 1..Len(rs) /\ Len(rs) \in Nat /\ \A i \in 1..Len(rs) : rs[i] \in ResultSet
  OBVIOUS
<1>2. \A i \in 1..Len(rs) : rs[i].text \in Seq(Chars) /\ rs[i].tokens \in Seq(Tokens)
  BY <1>1 DEF ResultSet
<1>3. PICK A, B : A = Seq(Chars) /\ B = Seq(Tokens)
  OBVIOUS
<1>4. PICK a : a = [i \in DOMAIN rs |-> rs[i].text]
  OBVIOUS
<1>5. PICK b : b = [i \in DOMAIN rs |-> rs[i].tokens]
  OBVIOUS
<1>6. a \in [1..Len(rs) -> A] /\ b \in [1..Len(rs) -> B]
  BY <1>1, <1>2, <1>3, <1>4, <1>5
<1>7. a \in Seq(A) /\ b \in Seq(B)
  BY <1>1, <1>6
<1>8. Joined(a) \in Seq(Chars)
  <2>1. <<>> \in Seq(Chars)
    BY EmptySeq
  <2> QED BY <1>3, <1>7, <2>1, JoinedAppend
<1>9. Joined(b) \in Seq(Tokens)
  <2>1. <<>> \in Seq(Tokens)
    BY EmptySeq
  <2> QED BY <1>3, <1>7, <2>1, JoinedAppend
<1> QED BY <1>3, <1>4, <1>5, <1>7, <1>8, <1>9 DEF TextsOf, TokensOf

\* One more result tells its text, its tokens and its reason besides.
LEMMA OneMoreResult ==
  ASSUME NEW rs \in Seq(ResultSet), NEW r \in ResultSet
  PROVE  /\ Append(rs, r) \in Seq(ResultSet)
         /\ TextsOf(Append(rs, r)) = TextsOf(rs) \o r.text
         /\ TokensOf(Append(rs, r)) = TokensOf(rs) \o r.tokens
         /\ \A reason : Says(Append(rs, r), reason) <=> (Says(rs, reason) \/ r.stop = reason)
<1>1. PICK us, n : us = Append(rs, r) /\ n = Len(rs)
  OBVIOUS
<1>2. /\ us \in Seq(ResultSet) /\ Len(us) = n + 1 /\ n \in Nat /\ us[n+1] = r
      /\ \A i \in 1..n : us[i] = rs[i]
  BY <1>1
<1>3. DOMAIN us = 1..(n+1) /\ DOMAIN rs = 1..n
  BY <1>1, <1>2
<1>4. PICK a, b : a = [i \in DOMAIN rs |-> rs[i].text] /\ b = [i \in DOMAIN us |-> us[i].text]
  OBVIOUS
<1>5. PICK c, d : c = [i \in DOMAIN rs |-> rs[i].tokens] /\ d = [i \in DOMAIN us |-> us[i].tokens]
  OBVIOUS
<1>6. PICK A, B : A = Seq(Chars) /\ B = Seq(Tokens)
  OBVIOUS
<1>7. a \in Seq(A) /\ b \in Seq(A) /\ c \in Seq(B) /\ d \in Seq(B)
  BY <1>2, <1>4, <1>5, <1>6, ResultsType
<1>8. Len(a) = n /\ Len(b) = n+1 /\ Len(c) = n /\ Len(d) = n+1
  BY <1>2, <1>3, <1>4, <1>5
<1>9. r.text \in A /\ r.tokens \in B
  BY <1>6 DEF ResultSet
<1>10. \A i \in 1..n : b[i] = a[i] /\ d[i] = c[i]
  BY <1>2, <1>3, <1>4, <1>5
<1>11. b[n+1] = r.text /\ d[n+1] = r.tokens
  BY <1>2, <1>3, <1>4, <1>5
<1>12. b = Append(a, r.text)
  <2>1. PICK x : x = r.text /\ x \in A
    BY <1>9
  <2>2. PICK y : y = Append(a, x)
    OBVIOUS
  <2>3. y \in Seq(A) /\ Len(y) = n+1 /\ y[n+1] = x
    BY <1>7, <1>8, <2>1, <2>2, AppendProperties
  <2>4. \A i \in 1..n : y[i] = a[i]
    BY <1>7, <1>8, <2>1, <2>2, AppendProperties
  <2>5. \A i \in 1..(n+1) : b[i] = y[i]
    BY <1>2, <1>10, <1>11, <2>1, <2>3, <2>4
  <2> QED BY <1>7, <1>8, <2>1, <2>2, <2>3, <2>5, SeqEqual
<1>13. d = Append(c, r.tokens)
  <2>1. PICK x : x = r.tokens /\ x \in B
    BY <1>9
  <2>2. PICK y : y = Append(c, x)
    OBVIOUS
  <2>3. y \in Seq(B) /\ Len(y) = n+1 /\ y[n+1] = x
    BY <1>7, <1>8, <2>1, <2>2, AppendProperties
  <2>4. \A i \in 1..n : y[i] = c[i]
    BY <1>7, <1>8, <2>1, <2>2, AppendProperties
  <2>5. \A i \in 1..(n+1) : d[i] = y[i]
    BY <1>2, <1>10, <1>11, <2>1, <2>3, <2>4
  <2> QED BY <1>7, <1>8, <2>1, <2>2, <2>3, <2>5, SeqEqual
<1>14. Joined(b) = Joined(a) \o r.text /\ Joined(d) = Joined(c) \o r.tokens
  BY <1>6, <1>7, <1>9, <1>12, <1>13, JoinedAppend
<1>15. TextsOf(us) = TextsOf(rs) \o r.text /\ TokensOf(us) = TokensOf(rs) \o r.tokens
  BY <1>4, <1>5, <1>14, Zenon DEF TextsOf, TokensOf
<1>16. ASSUME NEW reason
       PROVE  Says(us, reason) <=> (Says(rs, reason) \/ r.stop = reason)
  <2>1. ASSUME Says(us, reason), ~Says(rs, reason) PROVE r.stop = reason
    <3>1. PICK i \in 1..(n+1) : us[i].stop = reason
      BY <1>3, <2>1 DEF Says
    <3>2. ~(i \in 1..n)
      BY <1>2, <1>3, <2>1, <3>1 DEF Says
    <3>3. i = n+1
      BY <1>2, <3>2
    <3> QED BY <1>2, <3>1, <3>3
  <2>2. ASSUME Says(rs, reason) PROVE Says(us, reason)
    <3>1. PICK i \in 1..n : rs[i].stop = reason
      BY <1>3, <2>2 DEF Says
    <3>2. i \in 1..(n+1) /\ us[i].stop = reason
      BY <1>2, <3>1
    <3> QED BY <1>3, <3>2 DEF Says
  <2>3. ASSUME r.stop = reason PROVE Says(us, reason)
    <3>1. n+1 \in 1..(n+1) /\ us[n+1].stop = reason
      BY <1>2, <2>3
    <3> QED BY <1>3, <3>1 DEF Says
  <2> QED BY <2>1, <2>2, <2>3
<1> QED BY <1>1, <1>2, <1>15, <1>16

\* A result of a text, tokens and a reason is one.
LEMMA ResultIn ==
  ASSUME NEW s \in Seq(Chars), NEW ts \in Seq(Tokens), NEW reason \in StopReasons
  PROVE  /\ Result(s, ts, reason) \in ResultSet
         /\ Result(s, ts, reason).text = s /\ Result(s, ts, reason).tokens = ts
         /\ Result(s, ts, reason).stop = reason
BY DEF Result, ResultSet

\* A result without text or tokens tells none.
LEMMA NothingTold ==
  ASSUME NEW rs \in Seq(ResultSet), NEW reason \in StopReasons, reason # "stop_string"
  PROVE  LET us == Append(rs, Result(<<>>, <<>>, reason)) IN
         /\ us \in Seq(ResultSet)
         /\ TextsOf(us) = TextsOf(rs) /\ TokensOf(us) = TokensOf(rs)
         /\ Says(us, "stop_string") <=> Says(rs, "stop_string")
<1>1. <<>> \in Seq(Chars) /\ <<>> \in Seq(Tokens)
  BY EmptySeq
<1>2. PICK r : r = Result(<<>>, <<>>, reason)
  OBVIOUS
<1>3. r \in ResultSet /\ r.text = <<>> /\ r.tokens = <<>> /\ r.stop = reason
  <2>1. r = [text |-> <<>>, tokens |-> <<>>, stop |-> reason]
    BY <1>2 DEF Result
  <2> QED BY <1>1, <2>1 DEF ResultSet
<1>4. PICK us : us = Append(rs, r)
  OBVIOUS
<1>5. us \in Seq(ResultSet) /\ TextsOf(us) = TextsOf(rs) \o <<>> /\ TokensOf(us) = TokensOf(rs) \o <<>>
  BY <1>3, <1>4, OneMoreResult
<1>6. Says(us, "stop_string") <=> (Says(rs, "stop_string") \/ r.stop = "stop_string")
  BY <1>3, <1>4, OneMoreResult
<1>7. TextsOf(rs) \o <<>> = TextsOf(rs) /\ TokensOf(rs) \o <<>> = TokensOf(rs)
  BY ResultsType, ConcatEmptySeq
<1> QED BY <1>2, <1>3, <1>4, <1>5, <1>6, <1>7

\* us tells what rs does, and the text s and, if y, the tokens ts.
TellsMore(us, rs, s, ts, y) ==
  /\ us \in Seq(ResultSet)
  /\ TextsOf(us) = TextsOf(rs) \o s
  /\ y => TokensOf(us) = TokensOf(rs) \o ts
  /\ ~y => TokensOf(us) = TokensOf(rs)
  /\ Says(us, "stop_string") <=> Says(rs, "stop_string")

\* The results after a turn that found no stop string.
TurnResults(rs, s, ts, stop, y, reason) ==
  rs \o WithLimit(IF y THEN <<Result(s, ts, stop)>> ELSE <<>>, reason)

\* The results of a turn that found no stop string tell its text, or there is none.
LEMMA YieldedResults ==
  ASSUME NEW rs \in Seq(ResultSet), NEW s \in Seq(Chars), NEW ts \in Seq(Tokens),
         NEW stop \in {None, "eos_token"}, NEW y \in BOOLEAN, y \/ s = <<>>, NEW reason
  PROVE  TellsMore(TurnResults(rs, s, ts, stop, y, reason), rs, s, ts, y)
<1>1. PICK r : r = Result(s, ts, stop)
  OBVIOUS
<1>2. /\ stop \in StopReasons /\ "token_limit" \in StopReasons
      /\ stop # "stop_string" /\ "token_limit" # "stop_string"
  BY DEF StopReasons, None
<1>3. r \in ResultSet /\ r.text = s /\ r.tokens = ts /\ r.stop = stop
  BY <1>1, <1>2, ResultIn
<1>4. PICK told, vs : told = (IF y THEN <<r>> ELSE <<>>) /\ vs = (IF y THEN Append(rs, r) ELSE rs)
  OBVIOUS
<1>5. rs \o told = vs
  <2>1. CASE y
    BY <1>3, <1>4, <2>1, AppendIsConcat
  <2>2. CASE ~y
    BY <1>4, <2>2, ConcatEmptySeq
  <2> QED BY <2>1, <2>2
<1>6. /\ vs \in Seq(ResultSet)
      /\ TextsOf(vs) = TextsOf(rs) \o s
      /\ y => TokensOf(vs) = TokensOf(rs) \o ts
      /\ ~y => TokensOf(vs) = TokensOf(rs)
      /\ Says(vs, "stop_string") <=> Says(rs, "stop_string")
  <2>1. CASE y
    <3>1. vs = Append(rs, r)
      BY <1>4, <2>1
    <3> QED BY <1>2, <1>3, <2>1, <3>1, OneMoreResult
  <2>2. CASE ~y
    <3>1. vs = rs /\ s = <<>>
      BY <1>4, <2>2
    <3>2. TextsOf(rs) \o <<>> = TextsOf(rs)
      BY ResultsType, ConcatEmptySeq
    <3> QED BY <2>2, <3>1, <3>2
  <2> QED BY <2>1, <2>2
<1>7. PICK us : us = rs \o WithLimit(told, reason)
  OBVIOUS
<1>8. /\ us \in Seq(ResultSet)
      /\ TextsOf(us) = TextsOf(vs) /\ TokensOf(us) = TokensOf(vs)
      /\ Says(us, "stop_string") <=> Says(vs, "stop_string")
  <2>1. CASE batched /\ reason = "length"
    <3>1. TokenLimit = Result(<<>>, <<>>, "token_limit")
      BY DEF TokenLimit
    <3>2. TokenLimit \in ResultSet
      <4>1. <<>> \in Seq(Chars) /\ <<>> \in Seq(Tokens)
        BY EmptySeq
      <4> QED BY <1>2, <3>1, <4>1, ResultIn
    <3>3. told \in Seq(ResultSet)
      BY <1>3, <1>4
    <3>4. us = rs \o Append(told, TokenLimit)
      BY <1>7, <2>1 DEF WithLimit
    <3>5. Append(told, TokenLimit) = told \o <<TokenLimit>> /\ <<TokenLimit>> \in Seq(ResultSet)
      BY <3>2, <3>3, AppendIsConcat
    <3>6. (rs \o told) \o <<TokenLimit>> = rs \o (told \o <<TokenLimit>>)
      <4>1. PICK v : v = <<TokenLimit>>
        OBVIOUS
      <4>2. v \in Seq(ResultSet)
        BY <3>5, <4>1
      <4>3. (rs \o told) \o v = rs \o (told \o v)
        BY <3>3, <4>2, ResultsAssociate
      <4> QED BY <4>1, <4>3
    <3>7. us = Append(vs, TokenLimit)
      BY <1>5, <1>6, <3>2, <3>4, <3>5, <3>6, AppendIsConcat
    <3> QED BY <1>2, <1>6, <3>1, <3>7, NothingTold
  <2>2. CASE ~(batched /\ reason = "length")
    <3>1. us = vs
      BY <1>5, <1>7, <2>2 DEF WithLimit
    <3> QED BY <1>6, <3>1
  <2> QED BY <2>1, <2>2
<1>9. us = TurnResults(rs, s, ts, stop, y, reason)
  BY <1>1, <1>4, <1>7 DEF TurnResults
<1>10. TellsMore(us, rs, s, ts, y)
  BY <1>6, <1>8 DEF TellsMore
<1> QED BY <1>9, <1>10

-----------------------------------------------------------------------------
(* The invariant of the loop that reads.                                   *)

\* While tokens are still to come, what the stop string processor holds is the end
\* of the text, and what was told before it cannot matter any more.
Processor ==
  /\ ids # <<>> => /\ Stops # <<>> /\ generated # <<>>
                   /\ Last(ids) = Last(generated)
                   /\ StopStatus(ids) \in {"multi_byte", "partial_match"}
  /\ Stops # <<>> /\ (ids # <<>> \/ finish = None) =>
       Decode(generated) = ToldText \o Decode(ids)
  /\ Stops # <<>> /\ ids = <<>> /\ generated # <<>> /\ finish = None => ~Opens(Last(generated))
  /\ finish = None => Forgotten(ToldText)

Reading ==
  /\ ToldText \o text = AllText
  /\ ToldTokens \o tokens = generated
  /\ ~Told("stop_string")
  /\ ids = <<>> => text = <<>>
  /\ Processor

TextInv ==
  /\ StreamInv
  /\ results \in Seq(ResultSet)
  /\ text \in Seq(Chars)
  /\ TextUpToStop
  /\ TokensInOrder
  /\ phase = "reading" => Reading

\* What the caller was told is what the results say, now ...
LEMMA WhatIsTold ==
  /\ ToldText = TextsOf(results) /\ ToldTokens = TokensOf(results)
  /\ \A reason : Told(reason) <=> Says(results, reason)
BY DEF ToldText, ToldTokens, Told, TextsOf, TokensOf, Says

\* ... and after a step.
LEMMA WhatIsToldThen ==
  /\ ToldText' = TextsOf(results') /\ ToldTokens' = TokensOf(results')
  /\ \A reason : Told(reason)' <=> Says(results', reason)
BY DEF ToldText, ToldTokens, Told, TextsOf, TokensOf, Says

\* After the same beginning equal texts go on alike.
LEMMA SameRest ==
  ASSUME NEW T, NEW a \in Seq(T), NEW b \in Seq(T), NEW c \in Seq(T), a \o b = a \o c
  PROVE  b = c
<1>1. SubSeq(a \o b, Len(a) + 1, Len(a \o b)) = b
  BY PrefixOfTwo
<1>2. SubSeq(a \o c, Len(a) + 1, Len(a \o c)) = c
  BY PrefixOfTwo
<1> QED BY <1>1, <1>2, Zenon

\* What one turn of the loop works with.
Turn(t, told, after, reason, s, ts, seen) ==
  /\ told = ToldText
  /\ after = Append(generated, t)
  /\ reason = Finish(after)
  /\ s = text \o Segment(generated, after, reason)
  /\ ts = Append(tokens, t)
  /\ seen = Append(ids, t)

\* What it then tells, or may tell.
Tells(t, told, after, reason, s) ==
  /\ told \in Seq(Chars) /\ s \in Seq(Chars) /\ after \in Seq(Tokens)
  /\ reason \in {None, "stop", "length"}
  /\ reason = "stop" <=> t \in EosTokens
  /\ Shown(after, reason) = told \o s

\* What the stop string processor then sees.
Sees(told, after, reason, s, seen) ==
  /\ Decode(seen) \in Seq(Chars) /\ Decode(after) = told \o Decode(seen)
  /\ reason = "stop" => /\ s = Decode(ids)
                        /\ \E new \in Seq(Chars) : Decode(seen) = s \o new
  /\ reason # "stop" /\ ~IncompleteUtf8(Decode(seen)) => s = Decode(seen)

\* One turn of the loop: the text to tell is what was held back and the segment of
\* the token.
LEMMA TurnText ==
  ASSUME TextInv, NEW t \in Tokens, phase = "reading", finish = None,
         NEW told, NEW after, NEW reason, NEW s, NEW ts, NEW seen,
         Turn(t, told, after, reason, s, ts, seen)
  PROVE  Tells(t, told, after, reason, s)
<1>1. told \in Seq(Chars) /\ text \in Seq(Chars) /\ generated \in Seq(Tokens)
  BY WhatIsTold, ResultsType DEF Turn, TextInv, StreamInv, TypeOK
<1>2. after \in Seq(Tokens) /\ Last(after) = t
  <2>1. after = Append(generated, t)
    BY DEF Turn
  <2> QED BY <1>1, <2>1, FrontLast
<1>3. reason \in {None, "stop", "length"} /\ (reason = "stop" <=> t \in EosTokens)
  BY <1>2 DEF Turn, Finish, None
<1>4. PICK a, b : a = Shown(generated, None) /\ b = Segment(generated, after, reason)
  OBVIOUS
<1>5. a \in Seq(Chars) /\ b \in Seq(Chars) /\ Shown(after, reason) = a \o b
  <2>1. PICK g : g = generated /\ g \in Seq(Tokens)
    BY <1>1
  <2>2. after = Append(g, t)
    BY <2>1 DEF Turn
  <2>3. /\ Shown(g, None) \in Seq(Chars)
        /\ Segment(g, Append(g, t), reason) \in Seq(Chars)
        /\ Shown(Append(g, t), reason) = Shown(g, None) \o Segment(g, Append(g, t), reason)
    BY <1>3, <2>1, ShownGrows
  <2> QED BY <1>4, <2>1, <2>2, <2>3
<1>6. PICK c : c = text
  OBVIOUS
<1>7. told \o c = a
  BY <1>4, <1>6 DEF Turn, TextInv, Reading, AllText
<1>8. c \in Seq(Chars) /\ s = c \o b
  BY <1>1, <1>4, <1>6 DEF Turn
<1>9. (told \o c) \o b = told \o (c \o b)
  <2>1. told \in Seq(Chars)
    BY <1>1
  <2>2. b \in Seq(Chars)
    BY <1>5
  <2>3. c \in Seq(Chars)
    BY <1>8
  <2> QED BY <2>1, <2>2, <2>3, ConcatAssociative
<1>10. s \in Seq(Chars)
  BY <1>5, <1>8, ConcatProperties
<1>11. Shown(after, reason) = told \o s
  BY <1>5, <1>7, <1>8, <1>9
<1> QED BY <1>1, <1>2, <1>3, <1>10, <1>11 DEF Tells

\* The processor sees the end of the text that is generated: its verdict is about
\* what waits to be told, and the text of an end token, which is never told.
LEMMA TurnSeen ==
  ASSUME TextInv, NEW t \in Tokens, phase = "reading", finish = None, Stops # <<>>,
         NEW told, NEW after, NEW reason, NEW s, NEW ts, NEW seen,
         Turn(t, told, after, reason, s, ts, seen)
  PROVE  Sees(told, after, reason, s, seen)
<1>1. /\ told \in Seq(Chars) /\ s \in Seq(Chars) /\ after \in Seq(Tokens)
      /\ reason \in {None, "stop", "length"} /\ (reason = "stop" <=> t \in EosTokens)
      /\ Shown(after, reason) = told \o s
  BY TurnText DEF Tells
<1>2. ids \in Seq(Tokens) /\ generated \in Seq(Tokens) /\ seen \in Seq(Tokens)
  BY DEF Turn, TextInv, StreamInv, TypeOK
<1>3. PICK d : d = Decode(ids)
  OBVIOUS
<1>4. d \in Seq(Chars) /\ (ids = <<>> => d = <<>>)
  BY <1>2, <1>3, DecodedText
<1>5. Decode(generated) = told \o d
  BY <1>3 DEF Turn, TextInv, Reading, Processor
<1>6. Joins(generated, t) <=> Joins(ids, t)
  <2>1. CASE ids # <<>>
    <3>1. generated # <<>> /\ Last(ids) = Last(generated)
      BY <2>1 DEF TextInv, Reading, Processor
    <3> QED BY <2>1, <3>1 DEF Joins
  <2>2. CASE ids = <<>>
    <3>1. generated # <<>> => ~Opens(Last(generated))
      BY <2>2 DEF TextInv, Reading, Processor
    <3> QED BY <2>2, <3>1 DEF Joins
  <2> QED BY <2>1, <2>2
<1>7. PICK D : D = Decode(seen)
  OBVIOUS
<1>8. D \in Seq(Chars)
  BY <1>2, <1>7, DecodedText
<1>9. Decode(after) = told \o D
  <2>1. PICK g, us : g = generated /\ us = ids
    OBVIOUS
  <2>2. g \in Seq(Tokens) /\ us \in Seq(Tokens) /\ (Joins(g, t) <=> Joins(us, t))
        /\ Decode(g) = told \o Decode(us)
    BY <1>2, <1>3, <1>5, <1>6, <2>1
  <2>3. Decode(Append(g, t)) = told \o Decode(Append(us, t))
    BY <1>1, <2>2, DecodeTogether
  <2>4. after = Append(g, t) /\ seen = Append(us, t)
    BY <2>1 DEF Turn
  <2> QED BY <1>7, <2>3, <2>4
<1>10. ASSUME reason = "stop"
       PROVE  s = d /\ \E new \in Seq(Chars) : D = s \o new
  <2>1. Front(after) = generated
    <3>1. after = Append(generated, t)
      BY DEF Turn
    <3> QED BY <1>2, <3>1, FrontLast
  <2>2. Shown(after, reason) = Decode(generated)
    BY <1>10, <2>1, Zenon DEF Shown, None
  <2>3. told \o s = told \o d
    BY <1>1, <1>5, <2>2
  <2>4. s = d
    BY <1>1, <1>4, <2>3, SameRest
  <2>5. PICK J \in BOOLEAN : J = Joins(ids, t)
    BY DEF Joins
  <2>6. ~J
    BY <1>1, <1>10, <2>5, TextAssumption DEF Joins
  <2>7. D = Kept(d, J) \o Fresh(J, t)
    <3>1. PICK us : us = ids /\ us \in Seq(Tokens) /\ seen = Append(us, t)
      BY <1>2 DEF Turn
    <3> QED BY <1>3, <1>7, <2>5, <3>1, StepDecode
  <2>8. D = s \o Fresh(J, t) /\ Fresh(J, t) \in Seq(Chars)
    BY <2>4, <2>6, <2>7, FreshText DEF Kept
  <2> QED BY <2>4, <2>8
<1>11. ASSUME reason # "stop", ~IncompleteUtf8(D)
       PROVE  s = D
  <2>1. Len(D) > 0 /\ D[Len(D)] # Replacement /\ Len(D) \in Nat
    BY <1>8, <1>11 DEF IncompleteUtf8
  <2>2. PICK E : E = told \o D
    OBVIOUS
  <2>3. Len(E) = Len(told) + Len(D) /\ Len(told) \in Nat /\ E[Len(told) + Len(D)] = D[Len(D)]
    <3>1. Len(D) \in 1..Len(D)
      BY <2>1
    <3> QED BY <1>1, <1>8, <2>2, <3>1, TwoTexts
  <2>4. Len(E) > 0 /\ E[Len(E)] # Replacement
    BY <2>1, <2>3
  <2>5. Shown(after, reason) = E
    BY <1>1, <1>9, <1>11, <2>2, <2>4, ShownOrFront
  <2>6. told \o s = told \o D
    BY <1>1, <2>2, <2>5
  <2> QED BY <1>1, <1>8, <2>6, SameRest
<1> QED BY <1>3, <1>7, <1>8, <1>9, <1>10, <1>11 DEF Sees

\* A stop string was found: the text up to it is told, and nothing more.
LEMMA FoundStep ==
  ASSUME TextInv, NEW t \in Tokens, Read(t), StopStatus(Append(ids, t)) = "full_stop"
  PROVE  (results \in Seq(ResultSet) /\ text \in Seq(Chars) /\ TextUpToStop /\ TokensInOrder)'
         /\ phase' # "reading"
<1>1. PICK told, after, reason, s, ts, seen : Turn(t, told, after, reason, s, ts, seen)
  BY DEF Turn
<1>2. seen = Append(ids, t) /\ told = ToldText /\ ts = Append(tokens, t) /\ after = Append(generated, t)
  BY <1>1 DEF Turn
<1>3. phase = "reading" /\ finish = None /\ generated' = after /\ finish' = reason
      /\ StopHere(s, ts, seen)
  BY <1>1, <1>2 DEF Read, Turn
<1>4. /\ told \in Seq(Chars) /\ s \in Seq(Chars) /\ after \in Seq(Tokens)
      /\ reason \in {None, "stop", "length"}
      /\ Shown(after, reason) = told \o s
  <2>1. Tells(t, told, after, reason, s)
    BY <1>1, <1>3, TurnText
  <2> QED BY <2>1 DEF Tells
<1>5. Stops # <<>> /\ Status(Decode(seen), Stops) = "full_stop"
  BY <1>2 DEF StopStatus
<1>6. PICK D : D = Decode(seen)
  OBVIOUS
<1>7. ~IncompleteUtf8(D) /\ Matching(D, Stops) # {}
  BY <1>5, <1>6 DEF Status
<1>8. /\ D \in Seq(Chars)
      /\ reason = "stop" => s = Decode(ids) /\ \E new \in Seq(Chars) : D = s \o new
      /\ reason # "stop" => s = D
  <2>1. Sees(told, after, reason, s, seen)
    BY <1>1, <1>3, <1>5, TurnSeen
  <2> QED BY <1>6, <1>7, <2>1 DEF Sees
<1>9. PICK new \in Seq(Chars) : D = s \o new /\ (reason # "stop" => new = <<>>)
  <2>1. CASE reason = "stop"
    BY <1>8, <2>1
  <2>2. CASE reason # "stop"
    BY <1>8, <2>2, EmptySeq, ConcatEmptySeq
  <2> QED BY <2>1, <2>2
<1>10. \/ new = <<>> \/ s = <<>>
       \/ Len(s) > 0 /\ s[Len(s)] = Replacement
       \/ Matching(s, Stops) = {}
  <2>1. CASE reason # "stop"
    BY <1>9, <2>1
  <2>2. CASE reason = "stop" /\ ids = <<>>
    <3>1. s = <<>>
      BY <1>8, <2>2, DecodedText, EmptySeq
    <3> QED BY <3>1
  <2>3. CASE reason = "stop" /\ ids # <<>>
    <3>1. StopStatus(ids) \in {"multi_byte", "partial_match"} /\ s = Decode(ids)
      BY <1>3, <1>8, <2>3 DEF TextInv, Reading, Processor
    <3>2. Status(s, Stops) \in {"multi_byte", "partial_match"}
      BY <1>5, <3>1 DEF StopStatus
    <3>3. IncompleteUtf8(s) \/ Matching(s, Stops) = {}
      BY <3>2 DEF Status
    <3>4. ids \in Seq(Tokens)
      BY DEF TextInv, StreamInv, TypeOK
    <3>5. Len(s) > 0
      BY <2>3, <3>1, <3>4, DecodedText
    <3> QED BY <3>3, <3>5 DEF IncompleteUtf8
  <2> QED BY <2>1, <2>2, <2>3
<1>11. Forgotten(told)
  BY <1>2, <1>3 DEF TextInv, Reading, Processor
<1>12. PICK p : p = Stops[EarliestMatch(D, Stops)]
  OBVIOUS
<1>13. PICK cut : cut = TextBefore(p, s)
  OBVIOUS
<1>14. PICK x, all : x = told \o cut /\ all = told \o s
  OBVIOUS
<1>15. /\ x \in Seq(Chars) /\ IsPrefix(x, all)
       /\ StopsAt(x, all) \/ (new # <<>> /\ x = all)
       /\ \A q \in StopSet : ~Occurs(q, x)
  <2>1. Matching(s \o new, Stops) # {} /\ p = Stops[EarliestMatch(s \o new, Stops)]
    BY <1>7, <1>9, <1>12
  <2> QED BY <1>4, <1>10, <1>11, <1>13, <1>14, <2>1, TextAtStop
<1>16. cut \in Seq(Chars)
  <2>1. SubSeq(s, 1, Least(Positions(p, s)) - 1) \in Seq(Chars) \/ ~Occurs(p, s)
    <3>1. SUFFICES ASSUME Occurs(p, s) PROVE SubSeq(s, 1, Least(Positions(p, s)) - 1) \in Seq(Chars)
      OBVIOUS
    <3>2. PICK S : S = Positions(p, s)
      OBVIOUS
    <3>3. S \subseteq 1..Len(s) /\ S # {}
      BY <3>1, <3>2 DEF Occurs, Positions
    <3>4. PICK n : n = Least(S)
      OBVIOUS
    <3>5. n \in 1..Len(s)
      <4>1. S \subseteq Nat
        BY <3>3
      <4>2. Least(S) \in S
        BY <3>3, <4>1, LeastNumber
      <4> QED BY <3>3, <3>4, <4>2
    <3>6. SubSeq(s, 1, n - 1) \in Seq(Chars)
      BY <1>4, <3>5
    <3> QED BY <3>2, <3>4, <3>6
  <2> QED BY <1>4, <1>13, <2>1 DEF TextBefore
<1>17. PICK r : r = Result(cut, ts, "stop_string")
  OBVIOUS
<1>18. ts \in Seq(Tokens) /\ r \in ResultSet /\ r.text = cut /\ r.tokens = ts /\ r.stop = "stop_string"
  <2>1. ts \in Seq(Tokens)
    BY <1>2 DEF TextInv, StreamInv, TypeOK
  <2>2. "stop_string" \in StopReasons
    BY DEF StopReasons
  <2> QED BY <1>16, <1>17, <2>1, <2>2, ResultIn
<1>19. results' = Append(results, r) /\ phase' = "leaving" /\ text' = text /\ tokens' = tokens
  BY <1>3, <1>6, <1>12, <1>13, <1>17 DEF StopHere, StopStringResult
<1>20. /\ results' \in Seq(ResultSet)
       /\ ToldText' = x /\ ToldTokens' = ToldTokens \o ts /\ Told("stop_string")'
  <2>1. results \in Seq(ResultSet)
    BY DEF TextInv
  <2>2. /\ results' \in Seq(ResultSet)
        /\ TextsOf(results') = TextsOf(results) \o cut
        /\ TokensOf(results') = TokensOf(results) \o ts
        /\ Says(results', "stop_string")
    BY <1>18, <1>19, <2>1, OneMoreResult
  <2> QED BY <1>2, <1>14, <2>2, WhatIsTold, WhatIsToldThen
<1>21. AllText' = all
  BY <1>3, <1>4, <1>14 DEF AllText
<1>22. TextUpToStop'
  <2>1. \A q \in StopSet : ~Occurs(q, x)
    BY <1>15
  <2>2. StopsAt(x, all) \/ (reason = "stop" /\ x = all)
    BY <1>9, <1>15
  <2>3. Len(x) \in Nat /\ (Len(x) + 1) - 1 = Len(x)
    BY <1>15
  <2>4. StopsAt(x, all) =>
          /\ \E q \in StopSet : OccursAt(q, all, Len(x) + 1)
          /\ \A q \in StopSet : \A i \in 1..((Len(x) + 1) - 1) : ~OccursAt(q, all, i)
    BY <2>3 DEF StopsAt
  <2>5. IsPrefix(ToldText', AllText')
    BY <1>15, <1>20, <1>21
  <2>6. \A q \in StopSet : ~Occurs(q, ToldText')
    BY <1>20, <2>1
  <2>7. \/ /\ \E q \in StopSet : OccursAt(q, AllText', Len(ToldText') + 1)
           /\ \A q \in StopSet : \A i \in 1..((Len(ToldText') + 1) - 1) : ~OccursAt(q, AllText', i)
        \/ finish' = "stop" /\ ToldText' = AllText'
    BY <1>3, <1>20, <1>21, <2>2, <2>4
  <2> QED BY <2>5, <2>6, <2>7, Zenon DEF TextUpToStop
<1>23. TokensInOrder'
  <2>1. ToldTokens \o tokens = generated
    BY <1>3 DEF TextInv, Reading
  <2>2. tokens \in Seq(Tokens) /\ ToldTokens \in Seq(Tokens)
    BY WhatIsTold, ResultsType DEF TextInv, StreamInv, TypeOK
  <2>3. ToldTokens \o ts = after
    <3>1. <<t>> \in Seq(Tokens) /\ ts = tokens \o <<t>>
      BY <1>2, <2>2, AppendIsConcat
    <3>2. after = generated \o <<t>>
      BY <1>2, AppendIsConcat DEF TextInv, StreamInv, TypeOK
    <3>3. (ToldTokens \o tokens) \o <<t>> = ToldTokens \o (tokens \o <<t>>)
      BY <2>2, <3>1, ConcatAssociative
    <3> QED BY <2>1, <3>1, <3>2, <3>3
  <2>4. ToldTokens' = after /\ after \o <<>> = after
    BY <1>4, <1>20, <2>3, ConcatEmptySeq
  <2> QED BY <1>3, <1>20, <2>4, Zenon DEF TokensInOrder
<1>24. text' \in Seq(Chars)
  BY <1>19 DEF TextInv
<1> QED BY <1>19, <1>20, <1>22, <1>23, <1>24

\* What TextInv says of the results in every phase.
TextFacts ==
  /\ results \in Seq(ResultSet)
  /\ text \in Seq(Chars)
  /\ TextUpToStop
  /\ TokensInOrder

\* The tokens of a turn.
LEMMA TurnTokens ==
  ASSUME TextInv, NEW t \in Tokens, phase = "reading",
         NEW told, NEW after, NEW reason, NEW s, NEW ts, NEW seen,
         Turn(t, told, after, reason, s, ts, seen)
  PROVE  /\ ts \in Seq(Tokens) /\ Last(ts) = t /\ seen \in Seq(Tokens) /\ seen # <<>> /\ Last(seen) = t
         /\ after # <<>> /\ Last(after) = t
         /\ ToldTokens \in Seq(Tokens) /\ ToldTokens \o ts = after
<1>1. PICK a, b, c, d : a = tokens /\ b = ids /\ c = generated /\ d = ToldTokens
  OBVIOUS
<1>2. a \in Seq(Tokens) /\ b \in Seq(Tokens) /\ c \in Seq(Tokens) /\ d \in Seq(Tokens)
  BY <1>1, WhatIsTold, ResultsType DEF TextInv, StreamInv, TypeOK
<1>3. ts = Append(a, t) /\ seen = Append(b, t) /\ after = Append(c, t)
  BY <1>1 DEF Turn
<1>4. d \o a = c
  BY <1>1 DEF TextInv, Reading
<1>5. <<t>> \in Seq(Tokens) /\ ts = a \o <<t>> /\ after = c \o <<t>>
  <2>1. <<t>> \in Seq(Tokens)
    OBVIOUS
  <2>2. Append(a, t) = a \o <<t>>
    BY <1>2, AppendIsConcat
  <2>3. Append(c, t) = c \o <<t>>
    BY <1>2, AppendIsConcat
  <2> QED BY <1>3, <2>1, <2>2, <2>3
<1>6. (d \o a) \o <<t>> = d \o (a \o <<t>>)
  <2>1. d \in Seq(Tokens) /\ a \in Seq(Tokens) /\ <<t>> \in Seq(Tokens)
    BY <1>2, <1>5
  <2> QED BY <2>1, ConcatAssociative
<1>7. d \o ts = after
  BY <1>4, <1>5, <1>6
<1>8. Last(ts) = t
  <2>1. a \in Seq(Tokens)
    BY <1>2
  <2> QED BY <1>3, <2>1, FrontLast
<1>9. Last(seen) = t /\ seen # <<>>
  <2>1. b \in Seq(Tokens)
    BY <1>2
  <2> QED BY <1>3, <2>1, FrontLast
<1>10. Last(after) = t /\ after # <<>>
  <2>1. c \in Seq(Tokens)
    BY <1>2
  <2> QED BY <1>3, <2>1, FrontLast
<1>11. ts \in Seq(Tokens) /\ seen \in Seq(Tokens)
  BY <1>2, <1>3
<1> QED BY <1>1, <1>2, <1>7, <1>8, <1>9, <1>10, <1>11

\* No stop string is in sight: all text is told, and may be forgotten.
LEMMA YieldStep ==
  ASSUME TextInv, NEW t \in Tokens, Read(t), StopStatus(Append(ids, t)) = "no_match"
  PROVE  TextFacts' /\ Reading'
<1>1. PICK told, after, reason, s, ts, seen : Turn(t, told, after, reason, s, ts, seen)
  BY DEF Turn
<1>2. seen = Append(ids, t) /\ told = ToldText
  BY <1>1 DEF Turn
<1>3. phase = "reading" /\ finish = None /\ generated' = after /\ finish' = reason
      /\ ids' = <<>> /\ YieldText(s, ts, reason)
  BY <1>1, <1>2 DEF Read, Turn, IdsAfter
<1>4. Tells(t, told, after, reason, s)
  BY <1>1, <1>3, TurnText
<1>5. told \in Seq(Chars) /\ s \in Seq(Chars) /\ Shown(after, reason) = told \o s
  BY <1>4 DEF Tells
<1>6. /\ ts \in Seq(Tokens) /\ Last(ts) = t /\ seen \in Seq(Tokens) /\ seen # <<>> /\ Last(seen) = t
      /\ Last(after) = t
      /\ ToldTokens \in Seq(Tokens) /\ ToldTokens \o ts = after
  BY <1>1, <1>3, TurnTokens
<1>7. after \in Seq(Tokens)
  BY <1>4 DEF Tells
<1>8. PICK y \in BOOLEAN : y = ShouldYield(s, t)
  BY DEF ShouldYield
<1>9. y \/ s = <<>>
  BY <1>8 DEF ShouldYield
<1>10. PICK stop \in {None, "eos_token"} : stop = EosOf(t)
  BY DEF EosOf
<1>11. /\ results' = results \o WithLimit(IF y THEN <<Result(s, ts, stop)>> ELSE <<>>, reason)
       /\ text' = <<>>
       /\ tokens' = IF y THEN <<>> ELSE ts
  <2>1. /\ results' = results \o WithLimit(IF ShouldYield(s, Last(ts)) THEN <<Result(s, ts, EosOf(Last(ts)))>> ELSE <<>>, reason)
        /\ text' = IF ShouldYield(s, Last(ts)) THEN <<>> ELSE s
        /\ tokens' = TokensLeft(ts, s, Last(ts))
    BY <1>3, Zenon DEF YieldText
  <2>2. tokens' = IF ShouldYield(s, t) THEN <<>> ELSE ts
    BY <1>6, <2>1 DEF TokensLeft
  <2>3. ShouldYield(s, Last(ts)) = y /\ EosOf(Last(ts)) = stop
    BY <1>6, <1>8, <1>10
  <2>4. text' = <<>>
    BY <1>9, <2>1, <2>3
  <2>5. tokens' = IF y THEN <<>> ELSE ts
    BY <1>8, <2>2
  <2>6. results' = results \o WithLimit(IF y THEN <<Result(s, ts, stop)>> ELSE <<>>, reason)
    BY <2>1, <2>3, Zenon
  <2> QED BY <2>4, <2>5, <2>6
<1>12. PICK rs, us : rs = results /\ us = results'
  OBVIOUS
<1>13. rs \in Seq(ResultSet)
  BY <1>12 DEF TextInv
<1>14. /\ us \in Seq(ResultSet)
       /\ TextsOf(us) = TextsOf(rs) \o s
       /\ y => TokensOf(us) = TokensOf(rs) \o ts
       /\ ~y => TokensOf(us) = TokensOf(rs)
       /\ Says(us, "stop_string") <=> Says(rs, "stop_string")
  <2>1. us = TurnResults(rs, s, ts, stop, y, reason)
    BY <1>11, <1>12 DEF TurnResults
  <2>2. s \in Seq(Chars) /\ ts \in Seq(Tokens)
    BY <1>5, <1>6
  <2>3. TellsMore(us, rs, s, ts, y)
    BY <1>9, <1>13, <2>1, <2>2, YieldedResults
  <2> QED BY <2>3 DEF TellsMore
<1>15. PICK x : x = told \o s
  OBVIOUS
<1>16. x \in Seq(Chars)
  BY <1>5, <1>15, ConcatProperties
<1>17. ToldText' = x /\ AllText' = x /\ ~Told("stop_string")'
  <2>1. ToldText' = x
    BY <1>2, <1>12, <1>14, <1>15, WhatIsTold, WhatIsToldThen
  <2>2. AllText' = x
    BY <1>3, <1>5, <1>15 DEF AllText
  <2>3. ~Told("stop_string")
    BY <1>3 DEF TextInv, Reading
  <2> QED BY <1>12, <1>14, <2>1, <2>2, <2>3, WhatIsTold, WhatIsToldThen
<1>18. ToldTokens' \o tokens' = after
  <2>1. CASE y
    <3>1. ToldTokens' = after /\ tokens' = <<>>
      BY <1>6, <1>11, <1>12, <1>14, <2>1, WhatIsTold, WhatIsToldThen
    <3>2. after \o <<>> = after
      BY <1>7, ConcatEmptySeq
    <3> QED BY <3>1, <3>2
  <2>2. CASE ~y
    <3>1. ToldTokens' = ToldTokens /\ tokens' = ts
      BY <1>11, <1>12, <1>14, <2>2, WhatIsTold, WhatIsToldThen
    <3> QED BY <1>6, <3>1
  <2> QED BY <2>1, <2>2
<1>19. Forgotten(told)
  BY <1>2, <1>3 DEF TextInv, Reading, Processor
<1>20. PICK D : D = Decode(seen)
  OBVIOUS
<1>21. ASSUME Stops # <<>>
       PROVE  /\ D \in Seq(Chars) /\ Status(D, Stops) = "no_match"
              /\ ~IncompleteUtf8(D) /\ Matching(D, Stops) = {}
              /\ Decode(after) = told \o D
              /\ reason = "stop" => \E new \in Seq(Chars) : D = s \o new
              /\ reason # "stop" => s = D
  <2>1. Status(D, Stops) = "no_match"
    BY <1>2, <1>20, <1>21 DEF StopStatus
  <2>2. ~IncompleteUtf8(D) /\ Matching(D, Stops) = {}
    BY <2>1 DEF Status
  <2>3. Sees(told, after, reason, s, seen)
    BY <1>1, <1>3, <1>21, TurnSeen
  <2> QED BY <1>20, <2>1, <2>2, <2>3 DEF Sees
<1>22. ASSUME Stops = <<>> PROVE StopSet = {}
  <2>1. DOMAIN Stops = {}
    BY <1>22
  <2> QED BY <2>1 DEF StopSet
<1>23. ASSUME NEW q \in StopSet PROVE ~Occurs(q, x)
  <2>1. Stops # <<>>
    BY <1>22
  <2>2. PICK new \in Seq(Chars) : D = s \o new
    <3>1. CASE reason = "stop"
      BY <1>21, <2>1, <3>1
    <3>2. CASE reason # "stop"
      <4>1. s = D /\ <<>> \in Seq(Chars) /\ s \o <<>> = s
        BY <1>5, <1>21, <2>1, <3>2, EmptySeq, ConcatEmptySeq
      <4> QED BY <4>1
    <3> QED BY <3>1, <3>2
  <2>3. Matching(s \o new, Stops) = {}
    BY <1>21, <2>1, <2>2
  <2>4. told \in Seq(Chars) /\ s \in Seq(Chars)
    BY <1>5
  <2>5. ~Occurs(q, told \o s)
    BY <1>19, <2>3, <2>4, NoneTold
  <2> QED BY <1>15, <2>5
<1>24. x \o <<>> = x /\ IsPrefix(x, x)
  <2>1. <<>> \in Seq(Chars) /\ x \o <<>> = x
    BY <1>16, EmptySeq, ConcatEmptySeq
  <2>2. IsPrefix(x, x \o <<>>)
    BY <1>16, <2>1, PrefixOfTwo
  <2> QED BY <2>1, <2>2
<1>25. TextUpToStop'
  <2>1. IsPrefix(ToldText', AllText')
    BY <1>17, <1>24
  <2>2. \A q \in StopSet : ~Occurs(q, ToldText')
    BY <1>17, <1>23
  <2> QED BY <1>17, <2>1, <2>2, Zenon DEF TextUpToStop
<1>26. TokensInOrder'
  BY <1>3, <1>17, <1>18 DEF TokensInOrder
<1>27. TextFacts'
  <2>1. results' \in Seq(ResultSet)
    BY <1>12, <1>14
  <2>2. text' \in Seq(Chars)
    BY <1>11, EmptySeq
  <2> QED BY <1>25, <1>26, <2>1, <2>2 DEF TextFacts
<1>28. Processor'
  <2>1. ASSUME Stops # <<>>, reason = None
        PROVE  Decode(after) = x \o Decode(<<>>)
    <3>1. reason # "stop"
      BY <2>1 DEF None
    <3>2. Decode(after) = x
      BY <1>15, <1>21, <2>1, <3>1
    <3>3. PICK e : e = <<>> /\ e \in Seq(Tokens)
      BY EmptySeq
    <3>4. Decode(<<>>) = <<>>
      BY <3>3, DecodedText
    <3> QED BY <1>24, <3>2, <3>4
  <2>2. ASSUME Stops # <<>>
        PROVE  ~Opens(Last(after))
    <3>1. SUFFICES ASSUME Opens(t) PROVE FALSE
      BY <1>6
    <3>2. Len(D) > 0 /\ D[Len(D)] = Replacement
      BY <1>6, <1>20, <3>1, DecodedText
    <3> QED BY <1>21, <2>2, <3>2 DEF IncompleteUtf8
  <2>3. ASSUME reason = None PROVE Forgotten(x)
    <3>1. CASE Stops = <<>>
      BY <1>22, <3>1 DEF Forgotten
    <3>2. CASE Stops # <<>>
      <4>1. reason # "stop"
        BY <2>3 DEF None
      <4>2. Status(s, Stops) = "no_match"
        BY <1>21, <3>2, <4>1
      <4>3. told \in Seq(Chars) /\ s \in Seq(Chars)
        BY <1>5
      <4>4. Forgotten(told \o s)
        BY <1>19, <4>2, <4>3, ForgetMore
      <4> QED BY <1>15, <4>4
    <3> QED BY <3>1, <3>2
  <2> QED BY <1>3, <1>17, <2>1, <2>2, <2>3 DEF Processor
<1>29. Reading'
  <2>1. ToldText' \o text' = AllText'
    BY <1>11, <1>17, <1>24
  <2> QED BY <1>3, <1>11, <1>17, <1>18, <1>28, <2>1 DEF Reading
<1> QED BY <1>27, <1>29

\* The text may become a stop string or a character: it is held back.
LEMMA HoldStep ==
  ASSUME TextInv, NEW t \in Tokens, Read(t),
         StopStatus(Append(ids, t)) \notin {"full_stop", "no_match"}
  PROVE  TextFacts' /\ Reading'
<1>1. PICK told, after, reason, s, ts, seen : Turn(t, told, after, reason, s, ts, seen)
  BY DEF Turn
<1>2. seen = Append(ids, t) /\ told = ToldText
  BY <1>1 DEF Turn
<1>3. phase = "reading" /\ finish = None /\ generated' = after /\ finish' = reason
      /\ ids' = seen /\ Hold(s, ts)
  BY <1>1, <1>2 DEF Read, Turn, IdsAfter
<1>4. text' = s /\ tokens' = ts /\ results' = results
  BY <1>3 DEF Hold
<1>5. Tells(t, told, after, reason, s)
  BY <1>1, <1>3, TurnText
<1>6. told \in Seq(Chars) /\ s \in Seq(Chars) /\ Shown(after, reason) = told \o s
  BY <1>5 DEF Tells
<1>7. /\ ts \in Seq(Tokens) /\ seen \in Seq(Tokens) /\ seen # <<>> /\ Last(seen) = t
      /\ after # <<>> /\ Last(after) = t /\ ToldTokens \o ts = after
  BY <1>1, <1>3, TurnTokens
<1>8. ToldText' = told /\ AllText' = told \o s /\ ToldTokens' = ToldTokens /\ ~Told("stop_string")'
  <2>1. ~Told("stop_string")
    BY <1>3 DEF TextInv, Reading
  <2>2. AllText' = told \o s
    BY <1>3, <1>6 DEF AllText
  <2> QED BY <1>2, <1>4, <2>1, <2>2, WhatIsTold, WhatIsToldThen
<1>9. Stops # <<>> /\ StopStatus(seen) \in {"multi_byte", "partial_match"}
  BY <1>2 DEF StopStatus, Status
<1>10. Decode(after) = told \o Decode(seen)
  <2>1. Sees(told, after, reason, s, seen)
    BY <1>1, <1>3, <1>9, TurnSeen
  <2> QED BY <2>1 DEF Sees
<1>11. Forgotten(told)
  BY <1>2, <1>3 DEF TextInv, Reading, Processor
<1>12. Processor'
  <2>1. StopStatus(ids') = StopStatus(seen)
    BY <1>3
  <2>2. StopStatus(ids)' \in {"multi_byte", "partial_match"}
    BY <1>3, <1>9 DEF StopStatus
  <2> QED BY <1>3, <1>7, <1>8, <1>9, <1>10, <1>11, <2>2 DEF Processor
<1>13. Reading'
  BY <1>3, <1>4, <1>7, <1>8, <1>12 DEF Reading
<1>14. TextUpToStop'
  <2>1. IsPrefix(told, told \o s)
    BY <1>6, PrefixOfTwo
  <2>2. \A q \in StopSet : ~Occurs(q, told)
    BY <1>2, Zenon DEF TextInv, TextUpToStop
  <2> QED BY <1>8, <2>1, <2>2, Zenon DEF TextUpToStop
<1>15. TokensInOrder'
  BY <1>3, <1>4, <1>7, <1>8 DEF TokensInOrder
<1>16. results' \in Seq(ResultSet) /\ text' \in Seq(Chars)
  BY <1>4, <1>6 DEF TextInv
<1> QED BY <1>13, <1>14, <1>15, <1>16 DEF TextFacts

\* Nothing more is told but a farewell without text.
LEMMA SameText ==
  ASSUME TextInv, UNCHANGED <<generated, finish, text, tokens>>,
         results' = results \/ results' = Append(results, UserCancelled)
  PROVE  TextFacts'
<1>1. PICK rs, us : rs = results /\ us = results'
  OBVIOUS
<1>2. rs \in Seq(ResultSet)
  BY <1>1 DEF TextInv
<1>3. /\ us \in Seq(ResultSet) /\ TextsOf(us) = TextsOf(rs) /\ TokensOf(us) = TokensOf(rs)
      /\ Says(us, "stop_string") <=> Says(rs, "stop_string")
  <2>1. CASE us = rs
    BY <1>2, <2>1
  <2>2. CASE us # rs
    <3>1. us = Append(rs, Result(<<>>, <<>>, "user_cancelled"))
      BY <1>1, <2>2 DEF UserCancelled
    <3>2. "user_cancelled" \in StopReasons /\ "user_cancelled" # "stop_string"
      BY DEF StopReasons
    <3> QED BY <1>2, <3>1, <3>2, NothingTold
  <2> QED BY <2>1, <2>2
<1>4. /\ ToldText' = ToldText /\ ToldTokens' = ToldTokens
      /\ Told("stop_string")' <=> Told("stop_string")
  BY <1>1, <1>3, WhatIsTold, WhatIsToldThen
<1>5. AllText' = AllText
  BY DEF AllText
<1>6. TextUpToStop'
  <2>1. IsPrefix(ToldText, AllText) /\ \A q \in StopSet : ~Occurs(q, ToldText)
    BY Zenon DEF TextInv, TextUpToStop
  <2>2. Told("stop_string") =>
          \/ /\ \E q \in StopSet : OccursAt(q, AllText, Len(ToldText) + 1)
             /\ \A q \in StopSet : \A i \in 1..((Len(ToldText) + 1) - 1) : ~OccursAt(q, AllText, i)
          \/ finish = "stop" /\ ToldText = AllText
    BY Zenon DEF TextInv, TextUpToStop
  <2>3. finish' = finish
    OBVIOUS
  <2> QED BY <1>4, <1>5, <2>1, <2>2, <2>3, Zenon DEF TextUpToStop
<1>7. TokensInOrder'
  <2>1. TokensInOrder
    BY DEF TextInv
  <2> QED BY <1>4, <2>1 DEF TokensInOrder
<1> QED BY <1>1, <1>3, <1>6, <1>7 DEF TextInv, TextFacts

\* The loop still reads, and nothing it works with has changed.
LEMMA SameReading ==
  ASSUME Reading, UNCHANGED <<generated, finish, text, tokens, ids, results>>
  PROVE  Reading'
<1>1. ToldText' = ToldText /\ ToldTokens' = ToldTokens /\ AllText' = AllText
      /\ (Told("stop_string")' <=> Told("stop_string"))
  BY DEF ToldText, ToldTokens, AllText, Told
<1>2. Processor'
  BY <1>1 DEF Reading, Processor, StopStatus
<1> QED BY <1>1, <1>2 DEF Reading

\* Every step keeps the invariant about text.
LEMMA TextStep == TextInv /\ [Next]_vars => TextInv'
<1> SUFFICES ASSUME TextInv, [Next]_vars PROVE TextInv'
  OBVIOUS
<1>0. StreamInv'
  BY StreamStep DEF TextInv
<1>1. SUFFICES TextFacts' /\ (phase' = "reading" => Reading')
  BY <1>0, <1>1 DEF TextInv, TextFacts
<1> USE DEF StreamUnchanged
<1>2. CASE \E t \in Tokens : Read(t)
  <2>1. PICK t \in Tokens : Read(t)
    BY <1>2
  <2>2. CASE StopStatus(Append(ids, t)) = "full_stop"
    BY <2>1, <2>2, FoundStep DEF TextFacts
  <2>3. CASE StopStatus(Append(ids, t)) = "no_match"
    BY <2>1, <2>3, YieldStep
  <2>4. CASE StopStatus(Append(ids, t)) \notin {"full_stop", "no_match"}
    BY <2>1, <2>4, HoldStep
  <2> QED BY <2>2, <2>3, <2>4
<1>3. CASE StreamExhausted \/ CancelSeen \/ KitFailed \/ ReporterRaises \/ CallerCloses
  <2>1. UNCHANGED <<generated, finish, text, tokens>> /\ results' = results /\ phase' # "reading"
    BY <1>3 DEF StreamExhausted, CancelSeen, KitFailed, ReporterRaises, CallerCloses
  <2> QED BY <2>1, SameText
<1>4. CASE Return
  <2>1. UNCHANGED <<generated, finish, text, tokens>> /\ phase' # "reading"
    BY <1>4 DEF Return
  <2>2. results' = results \/ results' = Append(results, UserCancelled)
    BY <1>4 DEF Return, Farewell, TextInv
  <2> QED BY <2>1, <2>2, SameText
<1>5. CASE KitCancelled \/ ReporterStops
  <2>1. UNCHANGED <<generated, finish, text, tokens>> /\ phase' # "reading"
        /\ results' = Append(results, UserCancelled)
    BY <1>5 DEF KitCancelled, ReporterStops
  <2> QED BY <2>1, SameText
<1>6. CASE Cancel \/ UNCHANGED vars
  <2>1. UNCHANGED <<generated, finish, text, tokens, ids, results, phase>>
    BY <1>6 DEF Cancel, vars
  <2>2. TextFacts'
    BY <2>1, SameText
  <2>3. phase' = "reading" => Reading'
    BY <2>1, SameReading DEF TextInv
  <2> QED BY <2>2, <2>3
<1> QED BY <1>2, <1>3, <1>4, <1>5, <1>6 DEF Next, Loop

\* It holds before the first token.
LEMMA TextInit == Init => TextInv
<1> SUFFICES ASSUME Init PROVE TextInv
  OBVIOUS
<1>1. StreamInv
  BY StreamInit
<1>2. /\ results = <<>> /\ text = <<>> /\ tokens = <<>> /\ ids = <<>> /\ generated = <<>>
      /\ finish = None
  BY DEF Init
<1>3. ToldText = <<>> /\ ToldTokens = <<>> /\ ~Told("stop_string") /\ results \in Seq(ResultSet)
  BY <1>2, NoResults, WhatIsTold
<1>4. Decode(<<>>) = <<>>
  <2>1. PICK e : e = <<>> /\ e \in Seq(Tokens)
    BY EmptySeq
  <2> QED BY <2>1, DecodedText
<1>5. AllText = <<>>
  <2>1. PICK e : e = <<>> /\ e \in Seq(Tokens)
    BY EmptySeq
  <2>2. Shown(e, None) = Decode(e)
    BY <1>4, <2>1, ShownOrFront DEF None
  <2> QED BY <1>2, <1>4, <2>1, <2>2 DEF AllText
<1>6. <<>> \o <<>> = <<>> /\ <<>> \in Seq(Chars)
  BY EmptySeq, ConcatEmptySeq
<1>7. Forgotten(<<>>)
  BY DEF Forgotten
<1>8. Processor
  BY <1>2, <1>3, <1>4, <1>6, <1>7 DEF Processor
<1>9. Reading
  BY <1>2, <1>3, <1>5, <1>6, <1>8 DEF Reading
<1>10. TextUpToStop
  <2>1. IsPrefix(<<>>, <<>>)
    <3>1. PICK e : e = <<>> /\ e \in Seq(Chars)
      BY <1>6
    <3>2. IsPrefix(e, e \o e)
      BY <3>1, PrefixOfTwo
    <3> QED BY <1>6, <3>1, <3>2
  <2>2. \A q \in StopSet : ~Occurs(q, <<>>)
    BY DEF Occurs, Positions
  <2> QED BY <1>3, <1>5, <2>1, <2>2 DEF TextUpToStop
<1>11. TokensInOrder
  BY <1>2, <1>3, <1>6 DEF TokensInOrder
<1> QED BY <1>1, <1>2, <1>3, <1>6, <1>9, <1>10, <1>11 DEF TextInv

\* What is held back is the end of the text, so its verdict is one about the text.
LEMMA HeldIsTheEnd == TextInv => HeldForAReason
<1> SUFFICES ASSUME TextInv, phase = "reading", text # <<>>
             PROVE  \/ IncompleteUtf8(Decode(generated))
                    \/ \E p \in StopSet : Overlap(Decode(generated), p)
  BY DEF HeldForAReason
<1>1. Reading /\ ids # <<>>
  BY DEF TextInv, Reading
<1>2. /\ Stops # <<>> /\ StopStatus(ids) \in {"multi_byte", "partial_match"}
      /\ Decode(generated) = ToldText \o Decode(ids)
  BY <1>1 DEF Reading, Processor
<1>3. PICK told, d, all : told = ToldText /\ d = Decode(ids) /\ all = told \o d
  OBVIOUS
<1>4. told \in Seq(Chars) /\ d \in Seq(Chars) /\ Len(d) > 0
  <2>1. ids \in Seq(Tokens) /\ results \in Seq(ResultSet)
    BY DEF TextInv, StreamInv, TypeOK
  <2> QED BY <1>1, <1>3, <2>1, DecodedText, WhatIsTold, ResultsType
<1>5. PICK m, n : m = Len(told) /\ n = Len(d)
  OBVIOUS
<1>6. /\ all \in Seq(Chars) /\ Len(all) = m + n /\ m \in Nat /\ n \in Nat
      /\ \A i \in 1..n : all[m + i] = d[i]
  BY <1>3, <1>4, <1>5, TwoTexts
<1>7. Status(d, Stops) \in {"multi_byte", "partial_match"}
  BY <1>2, <1>3 DEF StopStatus
<1>8. CASE IncompleteUtf8(d)
  <2>1. d[n] = Replacement /\ n \in 1..n
    BY <1>4, <1>5, <1>6, <1>8 DEF IncompleteUtf8
  <2>2. all[Len(all)] = Replacement
    BY <1>6, <2>1
  <2> QED BY <1>2, <1>3, <2>2 DEF IncompleteUtf8
<1>9. CASE ~IncompleteUtf8(d)
  <2>1. PICK j \in DOMAIN Stops : Overlap(d, Stops[j])
    BY <1>7, <1>9 DEF Status
  <2>2. PICK p : p = Stops[j] /\ p \in StopSet
    BY DEF StopSet
  <2>3. PICK k \in 1..Len(p) : SuffixMeetsPrefix(d, p, k)
    BY <2>1, <2>2 DEF Overlap
  <2>4. k <= n /\ k <= Len(p) /\ k \in Nat /\ \A l \in 1..k : d[n - k + l] = p[l]
    BY <1>5, <2>3 DEF SuffixMeetsPrefix
  <2>5. ASSUME NEW l \in 1..k PROVE all[Len(all) - k + l] = p[l]
    <3>1. n - k + l \in 1..n /\ Len(all) - k + l = m + (n - k + l)
      BY <1>6, <2>4
    <3> QED BY <1>6, <2>4, <3>1
  <2>6. k <= Len(all)
    BY <1>6, <2>4
  <2>7. SuffixMeetsPrefix(all, p, k)
    BY <2>4, <2>5, <2>6 DEF SuffixMeetsPrefix
  <2>8. Overlap(all, p)
    BY <2>7 DEF Overlap
  <2> QED BY <1>2, <1>3, <2>2, <2>8
<1> QED BY <1>8, <1>9

\* What a caller of create_generator() is shown is the text of the model up
\* to the earliest stop string, each token once and in order, and text
\* waits only while it may become a stop string or a character, for every
\* vocabulary, every list of stop strings and every token limit.
THEOREM ShowsTextUpToStop == Spec => []ShownText
<1>1. TextInv => ShownText
  BY HeldIsTheEnd DEF TextInv, ShownText
<1> QED BY <1>1, TextInit, TextStep, PTL DEF Spec

==============================================================================
