------------------------------ MODULE StopStrings ------------------------------
(***************************************************************************)
(* How a text relates to a list of stop strings (StopStringProcessor).     *)
(* Texts are sequences of characters; positions count from 1.              *)
(***************************************************************************)
EXTENDS Naturals, Sequences

\* REPLACEMENT_CHAR: what an incomplete multi-byte character decodes to.
Replacement == "?"

Least(S) == CHOOSE n \in S : \A m \in S : n <= m

OccursAt(t, s, i) ==
  /\ i + Len(t) <= Len(s) + 1
  /\ \A k \in 1..Len(t) : s[i + k - 1] = t[k]

Positions(t, s) == {i \in 1..Len(s) : OccursAt(t, s, i)}
Occurs(t, s) == Positions(t, s) # {}

\* A suffix of s is a prefix of t.
SuffixMeetsPrefix(s, t, n) ==
  /\ n <= Len(s) /\ n <= Len(t)
  /\ \A k \in 1..n : s[Len(s) - n + k] = t[k]

Overlap(s, t) == \E n \in 1..Len(t) : SuffixMeetsPrefix(s, t, n)

IncompleteUtf8(s) == Len(s) = 0 \/ s[Len(s)] = Replacement

Matching(s, stops) == {i \in DOMAIN stops : Occurs(stops[i], s)}

\* The stop string that occurs earliest in s, the first of the list among equals.
EarliestMatch(s, stops) ==
  LET position(i) == Least(Positions(stops[i], s))
      first == {i \in Matching(s, stops) :
                  \A j \in Matching(s, stops) : position(i) <= position(j)}
  IN Least(first)

\* Variant with a fault: the start of a stop string anywhere counts as partial.
StatusHoldsMore(s, stops) ==
  IF IncompleteUtf8(s) THEN "multi_byte"
  ELSE IF Matching(s, stops) # {} THEN "full_stop"
  ELSE IF \E i \in DOMAIN stops : Occurs(SubSeq(stops[i], 1, 1), s) THEN "partial_match"
  ELSE "no_match"

Status(s, stops) ==
  IF IncompleteUtf8(s) THEN "multi_byte"
  ELSE IF Matching(s, stops) # {} THEN "full_stop"
  ELSE IF \E i \in DOMAIN stops : Overlap(s, stops[i]) THEN "partial_match"
  ELSE "no_match"

\* The text up to the stop string; all of it if it does not occur there.
TextBefore(t, s) == IF Occurs(t, s) THEN SubSeq(s, 1, Least(Positions(t, s)) - 1) ELSE s
=============================================================================
