----------------------------- MODULE PromptPrefix ------------------------------
(***************************************************************************)
(* Prompts and the prefixes of them a cache may be reused for: the chunks  *)
(* of chunks.py, whose keys name records on disk, and the image-safe       *)
(* common prefix of image_spans.py, which decides on the hot cache.        *)
(*                                                                         *)
(* A prompt has token ids, image placeholders among them, and the spans    *)
(* [start, end, hash] of its images, sorted and disjoint, start counted    *)
(* from 0 and end exclusive.  A chunk of a prompt is known by its end.     *)
(***************************************************************************)
EXTENDS Naturals, SequencesExt

CONSTANTS Prompt,     \* prompts of requests, and token histories kept hot
          Ids,        \* prompt_input_ids, by prompt
          Spans,      \* image_spans, by prompt
          ImageToken, \* image_token_index, the placeholder
          ChunkSize

ASSUME PromptAssumption ==
  /\ ChunkSize \in Nat \ {0}
  /\ \A p \in Prompt :
       /\ Ids[p] \in Seq(ToSet(Ids[p])) /\ Len(Ids[p]) > 0
       /\ Spans[p] \in Seq(ToSet(Spans[p]))
       /\ \A i \in DOMAIN Spans[p] : /\ Spans[p][i].start \in Nat /\ Spans[p][i].end \in Nat
                                     /\ Spans[p][i].start < Spans[p][i].end
                                     /\ Spans[p][i].end <= Len(Ids[p])
       /\ \A i, j \in DOMAIN Spans[p] : i < j => Spans[p][i].end <= Spans[p][j].start

\* The images of p are its runs of placeholders, one image each.
SpansAreRuns(p) ==
  /\ \A i \in DOMAIN Ids[p] :
       Ids[p][i] = ImageToken <=> \E span \in ToSet(Spans[p]) : i \in (span.start+1)..span.end
  /\ \A x, y \in ToSet(Spans[p]) : x.end # y.start

\* One image for all of p, when runs and images do not match.
OneSpan(p) == Len(Spans[p]) = 1 /\ Spans[p][1].start = 0 /\ Spans[p][1].end = Len(Ids[p])

\* A prompt without images has no spans, whatever its tokens.  External: the
\* processor gives an image, which its hash names, the same placeholders in every
\* prompt, in one run or not, and in a prompt with images no other text spells one.
ASSUME ImageAssumption ==
  /\ \A p \in Prompt : \/ Spans[p] = <<>>
                       \/ SpansAreRuns(p)
                       \/ OneSpan(p)
  /\ \A p \in Prompt : \A x \in ToSet(Spans[p]) :
       x = [start |-> x.start, end |-> x.end, hash |-> x.hash]
  /\ \A p, q \in Prompt : \A x \in ToSet(Spans[p]), y \in ToSet(Spans[q]) :
       SpansAreRuns(p) /\ x.hash = y.hash => SpansAreRuns(q) /\ x.end - x.start = y.end - y.start

\* What of s is in S, in order.
Only(s, S) ==
  LET only[i \in 0..Len(s)] ==
        IF i = 0 THEN <<>> ELSE IF s[i] \in S THEN Append(only[i-1], s[i]) ELSE only[i-1]
  IN  only[Len(s)]

\* Ends of the complete chunks of p (build_prefix_cache_chunks).
ChunkEnds(p) == {n \in 1..Len(Ids[p]) : n % ChunkSize = 0}

\* The images whose placeholders overlap the chunk that ends at n.
Fingerprint(p, n) ==
  LET overlapping ==
        Only(Spans[p], {span \in ToSet(Spans[p]) : span.start < n /\ n - ChunkSize < span.end})
  IN  [i \in DOMAIN overlapping |-> overlapping[i].hash]

\* Variant with a fault: only the tokens are hashed.
HashInputTokensOnly(p, n) == <<SubSeq(Ids[p], 1, n), <<>> >>

\* What the rolling hash of the chunks up to n covers.
HashInput(p, n) ==
  <<SubSeq(Ids[p], 1, n), [i \in 1..(n \div ChunkSize) |-> Fingerprint(p, i * ChunkSize)]>>

\* The key of a chunk: the hash names its input, here by one prompt that has it.
ChunkKey ==
  [p \in Prompt |-> [n \in ChunkEnds(p) |->
     <<CHOOSE q \in Prompt : n \in ChunkEnds(q) /\ HashInput(q, n) = HashInput(p, n), n>>]]

SplitsImage(p, n) == \E span \in ToSet(Spans[p]) : span.start < n /\ n < span.end

-----------------------------------------------------------------------------
CommonTokens(p, q) ==
  Max({n \in 0..Len(Ids[p]) : n <= Len(Ids[q]) /\ SubSeq(Ids[p], 1, n) = SubSeq(Ids[q], 1, n)})

\* Where images of p begin that a prefix of n tokens cuts or q does not have.
NonReusableStarts(n, p, q) ==
  {span.start : span \in {s \in ToSet(Spans[p]) :
                            s.start < n /\ (s.end > n \/ s \notin ToSet(Spans[q]))}}

\* image_safe_common_prefix_len
ImageSafeCommonPrefix(p, q, limit) ==
  LET n == Min({CommonTokens(p, q), limit})
  IN  Min({n} \cup NonReusableStarts(n, p, q) \cup NonReusableStarts(n, q, p))

-----------------------------------------------------------------------------
\* What the model saw of p when it computed the cache of the first n tokens:
\* the tokens, and every image that begins there, the whole of it.
View(p, n) == <<SubSeq(Ids[p], 1, n), {span \in ToSet(Spans[p]) : span.start < n}>>
=============================================================================
