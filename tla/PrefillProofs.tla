---------------------------- MODULE PrefillProofs ----------------------------
(***************************************************************************)
(* Proofs about PromptPrefill, for every model, request, chunk size and    *)
(* list of candidate steps; and about PromptInputs, for every family of    *)
(* models, prompt, restored prefix and length of the calls.                *)
(***************************************************************************)
EXTENDS PromptPrefill, PromptInputs, SequenceTheorems, FiniteSetTheorems, WellFoundedInduction, TLAPS

\* What is looked for among natural numbers and is there, is there first.
LEMMA Least ==
  ASSUME NEW S, S \subseteq Nat, S # {}
  PROVE  \E x \in S : \A y \in S : x <= y
<1>1. PICK x \in S : \A y \in S : ~ (<<y, x>> \in OpToRel(<, Nat))
  BY NatLessThanWellFounded, WFMin
<1>2. \A y \in S : ~ (y < x)
  BY <1>1 DEF OpToRel
<1> QED BY <1>2

\* A set of numbers up to a bound that is not empty has a greatest member.
LEMMA Greatest ==
  ASSUME NEW S, NEW n \in Nat, S \subseteq 0..n, S # {}
  PROVE  \E x \in S : \A y \in S : y <= x
<1> DEFINE T == {n - x : x \in S}
<1>1. T \subseteq Nat /\ T # {}
  <2>1. \A x \in S : n - x \in Nat
    OBVIOUS
  <2> QED BY <2>1
<1> HIDE DEF T
<1>2. PICK t \in T : \A u \in T : t <= u
  BY <1>1, Least
<1>3. PICK x \in S : t = n - x
  BY <1>2 DEF T
<1>4. \A y \in S : n - x <= n - y
  BY <1>2, <1>3 DEF T
<1>5. \A y \in S : y <= x
  <2> TAKE y \in S
  <2> n - x <= n - y /\ x \in Int /\ y \in Int
    BY <1>4
  <2> QED OBVIOUS
<1> QED BY <1>5

-----------------------------------------------------------------------------
(* The memory formula.                                                     *)

\* Multiplication is monotonic.
LEMMA ProductsGrow ==
  ASSUME NEW a \in Nat, NEW x \in Nat, NEW y \in Nat, x <= y
  PROVE  a * x <= a * y /\ a * x \in Nat /\ a * y \in Nat
<1>1. PICK d \in Nat : y = x + d
  <2> y - x \in Nat /\ y = x + (y - x)
    OBVIOUS
  <2> QED OBVIOUS
<1>2. a * y = a * x + a * d
  BY <1>1
<1>3. a * d \in Nat /\ a * x \in Nat /\ a * y \in Nat
  OBVIOUS
<1> QED BY <1>2, <1>3

\* What integer division is: a number, and the greatest multiple below.
LEMMA Quotient ==
  ASSUME NEW n \in Nat, NEW d \in Nat \ {0}
  PROVE  /\ n \div d \in Nat
         /\ d * (n \div d) <= n
         /\ n < d * (n \div d) + d
OBVIOUS

\* Rounding a number of tokens down and up to the allocation step.
LEMMA Rounded ==
  ASSUME NEW p \in CacheFitProfile, NEW n \in Nat
  PROVE  /\ RoundDown(n, p) \in Nat /\ RoundDown(n, p) <= n
         /\ RoundUp(n, p) \in Nat /\ RoundUp(n, p) <= n + p.allocation_step - 1
<1> DEFINE a == p.allocation_step
<1>1. a \in Nat \ {0}
  BY DEF CacheFitProfile
<1>2. ASSUME NEW k \in Nat PROVE RoundDown(k, p) \in Nat /\ RoundDown(k, p) <= k
  <2>1. k \div a \in Nat /\ a * (k \div a) <= k
    BY <1>1, Quotient
  <2>2. (k \div a) * a = a * (k \div a) /\ a * (k \div a) \in Nat
    BY <1>1, <2>1
  <2> QED BY <2>1, <2>2 DEF RoundDown
<1>3. n + a - 1 \in Nat
  BY <1>1
<1> QED BY <1>1, <1>2, <1>3 DEF RoundUp

\* The tokens that fit cost no more than the bytes there are.
LEMMA Fitting ==
  ASSUME NEW bytes \in Int, NEW each \in Nat \ {0}
  PROVE  /\ TokensFit(bytes, each) \in Nat
         /\ TokensFit(bytes, each) > 0 => each * TokensFit(bytes, each) <= bytes
         /\ each * TokensFit(bytes, each) <= LargerOf(0, bytes)
<1>1. LargerOf(0, bytes) \in Nat
  BY DEF LargerOf
<1>2. TokensFit(bytes, each) \in Nat /\ each * TokensFit(bytes, each) <= LargerOf(0, bytes)
  BY <1>1, Quotient DEF TokensFit
<1>3. ASSUME TokensFit(bytes, each) > 0 PROVE each * TokensFit(bytes, each) <= bytes
  <2>1. CASE bytes >= 0
    BY <1>2, <2>1 DEF LargerOf
  <2>2. CASE bytes < 0
    <3>1. LargerOf(0, bytes) = 0
      BY <2>2 DEF LargerOf
    <3>2. 0 \div each = 0
      OBVIOUS
    <3> QED BY <1>3, <3>1, <3>2 DEF TokensFit
  <2> QED BY <2>1, <2>2
<1> QED BY <1>2, <1>3

\* The terms of the memory formula are natural numbers.
LEMMA CostsAreNumbers ==
  ASSUME NEW p \in CacheFitProfile, NEW s \in Nat, NEW baseline \in Nat
  PROVE  /\ CachedTokenBytes(p, s) \in Nat \ {0}
         /\ CachedTokenBytes(p, s) = p.full_kv + p.attention * s
         /\ FixedBytes(p, s, baseline) \in Nat
         /\ p.attention * s \in Nat
<1>1. p.attention \in Nat /\ p.full_kv \in Nat \ {0} /\ p.rotating \in Nat /\ p.rotating_token \in Nat /\ p.ssm \in Nat
  BY DEF CacheFitProfile
<1>2. p.attention * s \in Nat /\ p.rotating_token * s \in Nat
  BY <1>1
<1> QED BY <1>1, <1>2 DEF CachedTokenBytes, FixedBytes, RotatingPeak

\* A smaller prefill step costs no more at the same cache size.
LEMMA SmallerStepCostsLess ==
  ASSUME NEW p \in CacheFitProfile, NEW s \in Nat, NEW n \in Nat, n <= s,
         NEW baseline \in Nat, NEW cache \in Nat
  PROVE  /\ FixedBytes(p, n, baseline) + p.full_kv * cache + p.attention * n * cache
              <= FixedBytes(p, s, baseline) + CachedTokenBytes(p, s) * cache
         /\ p.attention * n * cache \in Nat
<1>1. p.attention \in Nat /\ p.full_kv \in Nat /\ p.rotating \in Nat /\ p.rotating_token \in Nat /\ p.ssm \in Nat
  BY DEF CacheFitProfile
<1>2. p.rotating_token * n <= p.rotating_token * s /\ p.rotating_token * n \in Nat /\ p.rotating_token * s \in Nat
  BY <1>1, ProductsGrow
<1>3. p.attention * n <= p.attention * s /\ p.attention * n \in Nat /\ p.attention * s \in Nat
  BY <1>1, ProductsGrow
<1>4. FixedBytes(p, n, baseline) <= FixedBytes(p, s, baseline)
      /\ FixedBytes(p, n, baseline) \in Nat /\ FixedBytes(p, s, baseline) \in Nat
  BY <1>1, <1>2 DEF FixedBytes, RotatingPeak
<1> DEFINE x == p.attention * n
           y == p.attention * s
<1>5. x \in Nat /\ y \in Nat /\ x <= y
  BY <1>3
<1>6. cache * x <= cache * y /\ cache * x \in Nat /\ cache * y \in Nat
  BY <1>5, ProductsGrow
<1>7. x * cache = cache * x /\ (p.full_kv + y) * cache = p.full_kv * cache + cache * y /\ p.full_kv * cache \in Nat
  BY <1>1, <1>5
<1>8. CachedTokenBytes(p, s) = p.full_kv + y
  BY DEF CachedTokenBytes
<1> HIDE DEF x, y
<1>9. CachedTokenBytes(p, s) * cache = p.full_kv * cache + cache * y
  BY <1>7, <1>8
<1>10. p.attention * n * cache = cache * x
  BY <1>7 DEF x
<1> QED BY <1>4, <1>6, <1>7, <1>9, <1>10

\* Up to the boundary of a segment the peak of a call is under the ceiling.
LEMMA CallFits ==
  ASSUME NEW p \in CacheFitProfile, NEW s \in Nat, NEW n \in Nat, n <= s,
         NEW baseline \in Nat, NEW ceiling \in Int, NEW length \in Nat,
         NEW cache \in Nat \ {0}, cache <= RequestCacheLimit(p, s, length, ceiling, baseline)
  PROVE  FixedBytes(p, n, baseline) + p.prompt_input * length + p.full_kv * cache + p.attention * n * cache
           <= ceiling
<1> DEFINE each == CachedTokenBytes(p, s)
           inputs == p.prompt_input * length
           bytes == ceiling - FixedBytes(p, s, baseline) - inputs
           t == TokensFit(bytes, each)
<1>1. each \in Nat \ {0} /\ FixedBytes(p, s, baseline) \in Nat
  BY CostsAreNumbers
<1>2. inputs \in Nat
  BY DEF CacheFitProfile
<1>3. bytes \in Int
  BY <1>1, <1>2
<1>4. t \in Nat /\ (t > 0 => each * t <= bytes)
  BY <1>1, <1>3, Fitting
<1>5. RequestCacheLimit(p, s, length, ceiling, baseline) = RoundDown(t, p)
  BY DEF RequestCacheLimit
<1>6. cache <= t
  <2>1. RoundDown(t, p) \in Nat /\ RoundDown(t, p) <= t
    BY <1>4, Rounded
  <2> QED BY <1>4, <1>5, <2>1
<1>7. each * cache <= each * t /\ each * cache \in Nat /\ each * t \in Nat
  BY <1>1, <1>4, <1>6, ProductsGrow
<1>8. each * cache <= bytes
  BY <1>3, <1>4, <1>6, <1>7
<1>9. /\ FixedBytes(p, n, baseline) + p.full_kv * cache + p.attention * n * cache
           <= FixedBytes(p, s, baseline) + each * cache
      /\ p.attention * n * cache \in Nat
  BY SmallerStepCostsLess
<1>10. FixedBytes(p, n, baseline) \in Nat /\ p.full_kv * cache \in Nat
  <2>1. p.full_kv \in Nat
    BY DEF CacheFitProfile
  <2>2. FixedBytes(p, n, baseline) \in Nat
    BY CostsAreNumbers
  <2> QED BY <2>1, <2>2
<1> HIDE DEF each
<1> QED BY <1>1, <1>2, <1>7, <1>8, <1>9, <1>10

\* Up to the fitted limit it is over it by less than a block's cost.
LEMMA FittedCallFits ==
  ASSUME NEW p \in CacheFitProfile, NEW s \in Nat, NEW n \in Nat, n <= s,
         NEW baseline \in Nat, NEW ceiling \in Int, NEW length \in Nat \ {0},
         length <= ContextFitForStep(p, s, ceiling, baseline),
         NEW cache \in Nat, cache <= length
  PROVE  FixedBytes(p, n, baseline) + p.prompt_input * length + p.full_kv * cache + p.attention * n * cache
           <= ceiling + (p.allocation_step - 1) * (CachedTokenBytes(p, s) + p.prompt_input)
<1> DEFINE each == CachedTokenBytes(p, s)
           all == each + p.prompt_input
           bytes == ceiling - FixedBytes(p, s, baseline)
           t == TokensFit(bytes, all)
<1>1. each \in Nat \ {0} /\ FixedBytes(p, s, baseline) \in Nat
  BY CostsAreNumbers
<1>2. p.prompt_input \in Nat /\ p.allocation_step \in Nat \ {0} /\ p.native \in Nat
  BY DEF CacheFitProfile
<1>3. bytes \in Int /\ all \in Nat \ {0}
  BY <1>1, <1>2
<1>4. t \in Nat /\ (t > 0 => all * t <= bytes)
  BY <1>3, Fitting
<1>5. length <= RoundUp(t, p) /\ RoundUp(t, p) \in Nat
  <2>1. RoundUp(t, p) \in Nat
    BY <1>4, Rounded
  <2>2. ContextFitForStep(p, s, ceiling, baseline) = SmallerOf(p.native, RoundUp(t, p))
    BY DEF ContextFitForStep
  <2> QED BY <1>2, <2>1, <2>2 DEF SmallerOf
<1>6. length <= t + (p.allocation_step - 1)
  BY <1>2, <1>4, <1>5, Rounded
<1>7. t > 0
  <2> SUFFICES ASSUME t = 0 PROVE FALSE
    BY <1>4
  <2>1. (p.allocation_step - 1) \div p.allocation_step = 0
    BY <1>2
  <2>2. RoundUp(t, p) = 0
    BY <1>2, <2>1 DEF RoundUp, RoundDown
  <2> QED BY <1>5, <2>2
<1>8. all * length <= all * (t + (p.allocation_step - 1)) /\ all * length \in Nat
  <2>1. t + (p.allocation_step - 1) \in Nat
    BY <1>2, <1>4
  <2> QED BY <1>3, <1>6, <2>1, ProductsGrow
<1>9. all * length <= bytes + (p.allocation_step - 1) * all
  <2>1. all * t \in Nat /\ (p.allocation_step - 1) * all \in Nat
    BY <1>2, <1>3, <1>4
  <2>2. all * (t + (p.allocation_step - 1)) = all * t + (p.allocation_step - 1) * all
    BY <1>2, <1>3, <1>4
  <2>3. all * t <= bytes
    BY <1>4, <1>7
  <2> HIDE DEF all, bytes, t
  <2> QED BY <1>3, <1>8, <2>1, <2>2, <2>3
<1>10. each * cache <= each * length /\ each * cache \in Nat /\ each * length \in Nat
  BY <1>1, ProductsGrow
<1>11. all * length = each * length + p.prompt_input * length /\ p.prompt_input * length \in Nat
  BY <1>1, <1>2
<1>12. /\ FixedBytes(p, n, baseline) + p.full_kv * cache + p.attention * n * cache
            <= FixedBytes(p, s, baseline) + each * cache
       /\ p.attention * n * cache \in Nat
  BY SmallerStepCostsLess
<1>13. FixedBytes(p, n, baseline) \in Nat /\ p.full_kv * cache \in Nat
  <2>1. p.full_kv \in Nat
    BY DEF CacheFitProfile
  <2>2. FixedBytes(p, n, baseline) \in Nat
    BY CostsAreNumbers
  <2> QED BY <2>1, <2>2
<1>14. (p.allocation_step - 1) * all \in Nat
  BY <1>2, <1>3
<1> HIDE DEF all, each
<1>15. (p.allocation_step - 1) * (CachedTokenBytes(p, s) + p.prompt_input) = (p.allocation_step - 1) * all
  BY DEF all, each
<1> QED BY <1>1, <1>3, <1>9, <1>10, <1>11, <1>12, <1>13, <1>14, <1>15

-----------------------------------------------------------------------------
(* Images.                                                                 *)

\* An image ends after it starts, and its span is image throughout.
LEMMA EndOfImage ==
  ASSUME request \in Requests, NEW a \in request.images
  PROVE  /\ EndOf(a) \in a + 1..request.length
         /\ a..EndOf(a) - 1 \subseteq request.images
         /\ EndOf(a) \notin request.images
<1> DEFINE L == request.length
           Outside == {b \in a + 1..L : b \notin request.images}
<1>1. L \in Nat \ {0} /\ request.images \subseteq 0..L - 1
  BY PrefillAssumption
<1>2. a \in Nat /\ a < L
  BY <1>1
<1>3. L \in Outside /\ Outside \subseteq Nat
  BY <1>1, <1>2
<1>4. PICK b \in Outside : \A c \in Outside : b <= c
  BY <1>3, Least
<1>5. a..b - 1 \subseteq request.images
  <2>1. ASSUME NEW i \in a..b - 1, i \notin request.images PROVE FALSE
    <3>1. i # a /\ i \in a + 1..L /\ i < b
      BY <1>1, <1>2, <1>3, <1>4, <2>1
    <3>2. i \in Outside
      BY <2>1, <3>1
    <3> QED BY <1>2, <1>3, <1>4, <3>1, <3>2
  <2> QED BY <2>1
<1>6. b \in a + 1..L /\ b \notin request.images
  BY <1>4
<1> QED BY <1>5, <1>6 DEF EndOf

\* An image token that is still to be prefilled belongs to a run that starts at
\* or before it, and goes on beyond it.
LEMMA RunOf ==
  ASSUME request \in Requests, restored \in Nat, NEW i \in request.images, restored <= i
  PROVE  \E a \in ImageStarts : a <= i /\ a..i \subseteq request.images /\ i < EndOf(a)
<1> DEFINE Joined == {a \in restored..i : a..i \subseteq request.images}
<1>1. request.length \in Nat \ {0} /\ request.images \subseteq 0..request.length - 1 /\ i \in Nat
  BY PrefillAssumption
<1>2. i..i = {i} /\ i \in Joined /\ Joined \subseteq Nat
  BY <1>1
<1>3. PICK a \in Joined : \A b \in Joined : a <= b
  BY <1>2, Least
<1>4. a \in request.images /\ a \in Nat /\ restored <= a /\ a <= i /\ a..i \subseteq request.images
  BY <1>1, <1>3
<1>5. a = restored \/ a - 1 \notin request.images
  <2> SUFFICES ASSUME a # restored, a - 1 \in request.images PROVE FALSE
    OBVIOUS
  <2>1. a - 1 \in restored..i /\ \A k \in a - 1..i : k = a - 1 \/ k \in a..i
    BY <1>1, <1>4
  <2>2. a - 1 \in Joined
    BY <1>4, <2>1
  <2> QED BY <1>3, <1>4, <2>2
<1>6. a \in ImageStarts
  BY <1>4, <1>5 DEF ImageStarts
<1>7. EndOf(a) \in a + 1..request.length /\ EndOf(a) \notin request.images
  BY <1>4, EndOfImage
<1>8. i < EndOf(a)
  BY <1>1, <1>4, <1>7
<1> QED BY <1>4, <1>6, <1>8

\* A boundary between two calls is no place within an image.
Whole(at) == ~ ({at - 1, at} \subseteq request.images)

\* A boundary that splits no image of the uncached part is one where images are whole.
LEMMA UnsplitIsWhole ==
  ASSUME request \in Requests, restored \in Nat, NEW at \in Nat, restored < at, Splits(at) = {}
  PROVE  Whole(at)
<1> SUFFICES ASSUME at - 1 \in request.images, at \in request.images PROVE FALSE
  BY DEF Whole
<1>1. PICK a \in ImageStarts : a <= at - 1 /\ a..at - 1 \subseteq request.images /\ at - 1 < EndOf(a)
  BY RunOf
<1>2. a \in request.images /\ a \in Nat /\ request.images \subseteq Nat
  BY <1>1, PrefillAssumption DEF ImageStarts
<1>3. EndOf(a) \in a + 1..request.length /\ EndOf(a) \notin request.images /\ request.length \in Nat
  BY <1>2, EndOfImage, PrefillAssumption
<1>4. EndOf(a) # at
  BY <1>3
<1>5. a < at /\ at < EndOf(a)
  BY <1>1, <1>2, <1>3, <1>4
<1> QED BY <1>1, <1>5 DEF Splits

\* A range has an image exactly when it has one of the positions of an image.
LEMMA TypesWhereImages ==
  ASSUME request \in Requests, restored \in Nat,
         NEW from \in Nat, NEW to \in Nat, restored <= from, from < to, to <= request.length
  PROVE  HasImage(from, to) <=> from..to - 1 \cap request.images # {}
<1>1. ASSUME NEW i \in from..to - 1, i \in request.images PROVE HasImage(from, to)
  <2>1. PICK a \in ImageStarts : a <= i /\ i < EndOf(a)
    BY <1>1, RunOf
  <2>2. a \in Nat /\ EndOf(a) \in Nat
    <3>1. a \in request.images /\ request.images \subseteq Nat /\ request.length \in Nat
      BY PrefillAssumption DEF ImageStarts
    <3> QED BY <3>1, EndOfImage
  <2> QED BY <1>1, <2>1, <2>2 DEF HasImage
<1>2. ASSUME HasImage(from, to) PROVE from..to - 1 \cap request.images # {}
  <2>1. PICK a \in ImageStarts : a < to /\ from < EndOf(a)
    BY <1>2 DEF HasImage
  <2>2. a \in request.images /\ a \in Nat /\ request.length \in Nat
    BY PrefillAssumption DEF ImageStarts
  <2>3. EndOf(a) \in a + 1..request.length /\ a..EndOf(a) - 1 \subseteq request.images
    BY <2>2, EndOfImage
  <2>4. CASE a >= from
    <3>1. a \in from..to - 1
      BY <2>1, <2>2, <2>4
    <3> QED BY <2>2, <3>1
  <2>5. CASE a < from
    <3>1. from \in a..EndOf(a) - 1 /\ from \in from..to - 1
      BY <2>1, <2>2, <2>3, <2>5
    <3> QED BY <2>3, <3>1
  <2> QED BY <2>2, <2>4, <2>5
<1> QED BY <1>1, <1>2

-----------------------------------------------------------------------------
(* The inductive invariant.                                                *)

Steps == CandidateSteps(model.prefill_step)

Fitted ==
  /\ Readable(model) /\ ~ model.whole
  /\ fit.steps = Steps /\ fit.profile = Profile(model) /\ fit.context = FittedContext(model)
  /\ fit.ceiling = model.working_set - Reserve

FitOK == fit = NoFit \/ Fitted

\* What is still as it was before a request was admitted.
Untouched == segments = <<>> /\ step = 1 /\ restored = 0 /\ processed = 0 /\ nextChunk = 0 /\ snapshots = {} /\ call = NoCall

Waiting ==
  /\ phase = "load" => fit = NoFit
  /\ phase \in {"load", "ready"} => request = NoRequest /\ Untouched
  /\ phase = "refused" => request \in Requests /\ Untouched

Admitted == phase \in {"plan", "prefill", "done"}

\* The plan while it is made: its boundaries are the steps', its steps those seen.
SegmentsOK ==
  /\ segments \in Seq(Segment)
  /\ fit = NoFit => segments = <<>>
  /\ \A i \in DOMAIN segments :
       /\ \E j \in DOMAIN fit.steps : segments[i].step = fit.steps[j] /\ (phase = "plan" => j < step)
       /\ segments[i].end <= CacheLimit(segments[i].step) \/ segments[i].step = Last(fit.steps)

Position ==
  /\ restored \in Nat /\ processed \in Nat /\ restored <= processed /\ processed <= request.length
  /\ phase = "plan" => restored = processed /\ call = NoCall
  /\ phase \in {"plan", "prefill"} => processed < request.length
  /\ nextChunk \in 0..ChunkCount(request.length)
  /\ snapshots \subseteq 0..processed
  /\ processed > 0 => Whole(processed)

Request ==
  Admitted =>
    /\ request \in Requests
    /\ phase = "plan" => fit # NoFit
    /\ fit # NoFit => request.length <= fit.context
    /\ SegmentsOK
    /\ Position

PrefillInv ==
  /\ model \in Models
  /\ phase \in {"load", "ready", "plan", "prefill", "done", "refused"}
  /\ step \in Nat \ {0}
  /\ FitOK /\ Waiting /\ Request
  /\ PlanCovers

\* The candidate steps of a model begin with the one it was loaded with and
\* fall, as the loader's list of candidates does.
LEMMA StepsFall ==
  ASSUME NEW n \in Nat \ {0}
  PROVE  /\ CandidateSteps(n) \in Seq(Nat \ {0}) /\ CandidateSteps(n) # <<>>
         /\ \A i, j \in DOMAIN CandidateSteps(n) : i < j => CandidateSteps(n)[j] < CandidateSteps(n)[i]
<1> DEFINE smaller == {i \in DOMAIN Candidates : Candidates[i] < n}
<1>1. /\ Candidates \in Seq(Nat \ {0})
      /\ \A i, j \in DOMAIN Candidates : i < j => Candidates[j] < Candidates[i]
  BY FitAssumption
<1>2. CASE smaller = {}
  <2>1. CandidateSteps(n) = <<n>> \o <<>>
    BY <1>2 DEF CandidateSteps
  <2>2. CandidateSteps(n) = <<n>>
    BY <2>1
  <2> QED BY <2>2
<1>3. CASE smaller # {}
  <2>1. smaller \subseteq Nat
    BY <1>1
  <2>2. PICK m \in smaller : \A y \in smaller : m <= y
    BY <1>3, <2>1, Least
  <2>3. Min(smaller) \in smaller /\ \A y \in smaller : Min(smaller) <= y
    BY <2>2 DEF Min
  <2> DEFINE first == Min(smaller)
             rest == SubSeq(Candidates, first, Len(Candidates))
  <2>4. CandidateSteps(n) = <<n>> \o rest
    BY <1>3 DEF CandidateSteps
  <2>5. first \in 1..Len(Candidates) /\ Candidates[first] < n
    BY <1>1, <2>3
  <2> HIDE DEF first
  <2>6. /\ rest \in Seq(Nat \ {0}) /\ Len(rest) = Len(Candidates) - first + 1
        /\ \A i \in 1..Len(rest) : rest[i] = Candidates[first + i - 1]
    BY <1>1, <2>5
  <2> HIDE DEF rest
  <2>7. \A i, j \in 1..Len(rest) : i < j => rest[j] < rest[i]
    <3> SUFFICES ASSUME NEW i \in 1..Len(rest), NEW j \in 1..Len(rest), i < j
                 PROVE  rest[j] < rest[i]
      OBVIOUS
    <3>1. first + i - 1 \in DOMAIN Candidates /\ first + j - 1 \in DOMAIN Candidates
      <4>1. Len(Candidates) \in Nat /\ DOMAIN Candidates = 1..Len(Candidates) /\ first \in Nat
        BY <1>1, <2>5
      <4>2. Len(rest) = Len(Candidates) - first + 1
        BY <2>6
      <4>3. first + i - 1 \in 1..Len(Candidates) /\ first + j - 1 \in 1..Len(Candidates)
        BY <2>5, <4>1, <4>2
      <4> QED BY <4>1, <4>3
    <3>2. first + i - 1 < first + j - 1
      BY <2>5
    <3> QED BY <1>1, <2>6, <3>1, <3>2
  <2>8. \A j \in 1..Len(rest) : rest[j] < n
    <3> TAKE j \in 1..Len(rest)
    <3>1. 1 \in 1..Len(rest) /\ rest[1] = Candidates[first + 1 - 1] /\ first + 1 - 1 = first
      BY <2>5, <2>6
    <3>2. rest[1] < n
      BY <2>5, <3>1
    <3>3. CASE j = 1
      BY <3>2, <3>3
    <3>4. CASE j > 1
      <4>1. rest[j] < rest[1]
        BY <2>7, <3>1, <3>4
      <4>2. rest[j] \in Nat /\ rest[1] \in Nat
        BY <2>6, <3>1
      <4> QED BY <3>2, <4>1, <4>2
    <3> QED BY <3>3, <3>4
  <2>9. /\ <<n>> \o rest \in Seq(Nat \ {0}) /\ Len(<<n>> \o rest) = Len(rest) + 1
        /\ (<<n>> \o rest)[1] = n
        /\ \A i \in 2..Len(rest) + 1 : (<<n>> \o rest)[i] = rest[i - 1]
    BY <2>6
  <2>10. \A i, j \in 1..Len(rest) + 1 : i < j => (<<n>> \o rest)[j] < (<<n>> \o rest)[i]
    <3> SUFFICES ASSUME NEW i \in 1..Len(rest) + 1, NEW j \in 1..Len(rest) + 1, i < j
                 PROVE  (<<n>> \o rest)[j] < (<<n>> \o rest)[i]
      OBVIOUS
    <3>1. j \in 2..Len(rest) + 1 /\ j - 1 \in 1..Len(rest) /\ (<<n>> \o rest)[j] = rest[j - 1]
      BY <2>6, <2>9
    <3>2. CASE i = 1
      BY <2>8, <2>9, <3>1, <3>2
    <3>3. CASE i > 1
      <4>1. i - 1 \in 1..Len(rest) /\ i - 1 < j - 1 /\ (<<n>> \o rest)[i] = rest[i - 1]
        BY <2>6, <2>9, <3>3
      <4> QED BY <2>7, <3>1, <4>1
    <3> QED BY <3>2, <3>3
  <2>11. <<n>> \o rest # <<>> /\ DOMAIN (<<n>> \o rest) = 1..Len(rest) + 1
    BY <2>6, <2>9
  <2> QED BY <2>4, <2>9, <2>10, <2>11
<1> QED BY <1>2, <1>3

\* What the invariant says of the fit.
LEMMA FitFacts ==
  ASSUME PrefillInv
  PROVE  /\ fit.steps \in Seq(Nat \ {0}) /\ fit.context \in Nat /\ fit.ceiling \in Int
         /\ fit = NoFit <=> fit.steps = <<>>
         /\ fit # NoFit =>
              /\ Fitted /\ fit.profile \in CacheFitProfile
              /\ Len(fit.steps) \in Nat \ {0}
              /\ \A i, j \in DOMAIN fit.steps : i < j => fit.steps[j] < fit.steps[i]
         /\ model.prefill_step \in Nat \ {0} /\ model.baseline \in Nat /\ model.working_set \in Int
<1>1. model.prefill_step \in Nat \ {0} /\ model.baseline \in Nat /\ model.working_set \in Int /\ Reserve \in Nat
      /\ MinContext \in Nat \ {0}
  BY PrefillAssumption, FitAssumption DEF PrefillInv
<1>2. NoFit.steps = <<>> /\ NoFit.context = 0 /\ NoFit.ceiling = 0
  BY DEF NoFit
<1>3. CASE fit = NoFit
  <2>1. fit.steps = <<>> /\ fit.context = 0 /\ fit.ceiling = 0
    BY <1>2, <1>3
  <2>2. <<>> \in Seq(Nat \ {0}) /\ 0 \in Nat /\ 0 \in Int
    OBVIOUS
  <2>3. fit.steps \in Seq(Nat \ {0}) /\ fit.context \in Nat /\ fit.ceiling \in Int
    BY <2>1, <2>2
  <2> QED BY <1>1, <1>3, <2>1, <2>3
<1>4. CASE fit # NoFit
  <2>1. Fitted
    BY <1>4 DEF PrefillInv, FitOK
  <2>2. /\ fit.steps \in Seq(Nat \ {0}) /\ fit.steps # <<>>
        /\ \A i, j \in DOMAIN fit.steps : i < j => fit.steps[j] < fit.steps[i]
    BY <1>1, <2>1, StepsFall DEF Fitted, Steps
  <2>3. fit.profile \in CacheFitProfile
    BY <2>1, PrefillAssumption DEF Fitted, PrefillInv
  <2>4. fit.ceiling \in Int
    BY <1>1, <2>1 DEF Fitted
  <2>5. fit.context \in Nat
    <3> DEFINE p == Profile(model)
               s == Last(CandidateSteps(model.prefill_step))
               c == ContextFitForStep(p, s, model.working_set - Reserve, model.baseline)
    <3>1. p \in CacheFitProfile
      BY <2>1, <2>3 DEF Fitted
    <3>2. s \in Nat
      BY <2>1, <2>2 DEF Fitted, Steps, Last
    <3>3. p.native \in Nat /\ p.native = model.native /\ p.prompt_input \in Nat
      BY <3>1 DEF CacheFitProfile, Profile
    <3> HIDE DEF p, s
    <3>4. CachedTokenBytes(p, s) + p.prompt_input \in Nat \ {0} /\ FixedBytes(p, s, model.baseline) \in Nat
      <4>1. CachedTokenBytes(p, s) \in Nat \ {0} /\ FixedBytes(p, s, model.baseline) \in Nat
        BY <1>1, <3>1, <3>2, CostsAreNumbers
      <4> QED BY <3>3, <4>1
    <3>5. RoundUp(TokensFit(model.working_set - Reserve - FixedBytes(p, s, model.baseline),
                            CachedTokenBytes(p, s) + p.prompt_input), p) \in Nat
      <4>1. model.working_set - Reserve - FixedBytes(p, s, model.baseline) \in Int
        BY <1>1, <3>4
      <4>2. TokensFit(model.working_set - Reserve - FixedBytes(p, s, model.baseline),
                      CachedTokenBytes(p, s) + p.prompt_input) \in Nat
        BY <3>4, <4>1, Fitting
      <4> QED BY <3>1, <4>2, Rounded
    <3>6. c \in Nat
      BY <3>3, <3>5 DEF ContextFitForStep, SmallerOf
    <3>7. FittedContext(model) \in Nat
      <4>1. FittedContext(model) = SmallerOf(model.native, LargerOf(MinContext, c))
        BY DEF FittedContext, p, s
      <4> HIDE DEF c
      <4> QED BY <1>1, <3>3, <3>6, <4>1 DEF SmallerOf, LargerOf
    <3> QED BY <2>1, <3>7 DEF Fitted
  <2> QED BY <1>1, <1>2, <1>4, <2>1, <2>2, <2>3, <2>4, <2>5
<1> QED BY <1>3, <1>4

\* What the invariant says of the request.
LEMMA RequestFacts ==
  ASSUME PrefillInv, Admitted
  PROVE  /\ request \in Requests /\ request.length \in Nat \ {0}
         /\ request.images \subseteq 0..request.length - 1
         /\ restored \in Nat /\ processed \in Nat /\ restored <= processed /\ processed <= request.length
         /\ PlannedEnd \in Nat /\ PlannedEnd <= request.length
         /\ Chunk \in Nat \ {0}
<1>1. request \in Requests /\ Position /\ SegmentsOK
  BY DEF PrefillInv, Request
<1>2. PlannedEnd \in Nat
  <2>1. CASE segments = <<>>
    BY <2>1 DEF PlannedEnd
  <2>2. CASE segments # <<>>
    <3>1. segments \in Seq(Segment) /\ Len(segments) \in 1..Len(segments)
      BY <1>1, <2>2 DEF SegmentsOK
    <3>2. segments[Len(segments)] \in Segment
      BY <3>1
    <3> QED BY <2>2, <3>2 DEF PlannedEnd, Segment, Last
  <2> QED BY <2>1, <2>2
<1> QED BY <1>1, <1>2, PrefillAssumption DEF Position, PrefillInv, PlanCovers

-----------------------------------------------------------------------------
(* The next call.                                                          *)

\* What the invariant says of a segment of the plan.
LEMMA SegmentFacts ==
  ASSUME PrefillInv, Admitted, NEW i \in DOMAIN segments
  PROVE  /\ i \in 1..Len(segments) /\ Len(segments) \in Nat
         /\ segments[i].end \in Nat \ {0} /\ segments[i].step \in Nat \ {0}
         /\ segments[i].end <= PlannedEnd
<1>1. segments \in Seq(Segment)
  BY DEF PrefillInv, Request, SegmentsOK
<1>2. i \in 1..Len(segments) /\ Len(segments) \in Nat /\ Len(segments) \in DOMAIN segments /\ segments # <<>>
  BY <1>1
<1>3. segments[i] \in Segment /\ segments[Len(segments)] \in Segment
  BY <1>1, <1>2
<1>4. PlannedEnd = segments[Len(segments)].end
  BY <1>2 DEF PlannedEnd, Last
<1>5. i < Len(segments) => segments[i].end < segments[Len(segments)].end
  BY <1>2 DEF PrefillInv, PlanCovers
<1> QED BY <1>2, <1>3, <1>4, <1>5 DEF Segment

\* What the invariant says of the segment in progress.
LEMMA ActiveFacts ==
  ASSUME PrefillInv, phase = "prefill"
  PROVE  /\ Active.start \in Nat /\ Active.end \in Nat /\ Active.step \in Nat \ {0}
         /\ processed < Active.end /\ Active.end <= request.length
         /\ \/ segments = <<>>
            \/ \E i \in DOMAIN segments : Active.end = segments[i].end /\ Active.step = segments[i].step
<1> Admitted
  BY DEF Admitted
<1>1. processed < request.length /\ processed \in Nat /\ request.length \in Nat
  BY RequestFacts DEF PrefillInv, Request, Position
<1>2. CASE segments = <<>>
  <2>1. Active = [start |-> 0, end |-> request.length, step |-> model.prefill_step]
    BY <1>2 DEF Active
  <2> QED BY <1>1, <1>2, <2>1, FitFacts
<1>3. CASE segments # <<>>
  <2> DEFINE later == {i \in DOMAIN segments : processed < segments[i].end}
             k == ActiveIndex
  <2>1. segments \in Seq(Segment)
    BY DEF PrefillInv, Request, SegmentsOK
  <2>2. fit # NoFit
    BY <1>3 DEF PrefillInv, Request, SegmentsOK
  <2>3. PlannedEnd = request.length
    BY <2>2, FitFacts DEF PrefillInv, PlanCovers
  <2>4. Len(segments) \in later
    BY <1>1, <1>3, <2>1, <2>3 DEF PlannedEnd, Last
  <2>5. later \subseteq Nat
    BY <2>1
  <2>6. \E i \in later : \A j \in later : i <= j
    BY <2>4, <2>5, Least
  <2>7. k = CHOOSE i \in later : \A j \in later : i <= j
    BY <2>4 DEF ActiveIndex
  <2>8. k \in DOMAIN segments /\ processed < segments[k].end
    <3>1. k \in later
      BY <2>6, <2>7
    <3> QED BY <3>1
  <2> HIDE DEF k, later
  <2>9. Active = [start |-> SegmentStart(k), end |-> segments[k].end, step |-> segments[k].step]
    BY <1>3 DEF Active, k
  <2>10. SegmentStart(k) \in Nat
    <3>1. k # 1 => k - 1 \in DOMAIN segments
      BY <2>1, <2>8
    <3>2. k # 1 => segments[k - 1].end \in Nat
      BY <3>1, SegmentFacts
    <3> QED BY <3>2 DEF SegmentStart
  <2>11. segments[k].end \in Nat \ {0} /\ segments[k].step \in Nat \ {0} /\ segments[k].end <= request.length
    BY <2>3, <2>8, SegmentFacts
  <2> QED BY <2>8, <2>9, <2>10, <2>11
<1> QED BY <1>2, <1>3

\* What the schedule proposes leaves a token and stays in its segment and step;
\* nothing is proposed only where one call may take all the rest.
LEMMA Proposed ==
  ASSUME PrefillInv, phase = "prefill"
  PROVE  /\ ProposedStep \in Nat /\ ProposedStep < Remaining
         /\ ProposedStep <= Active.step /\ processed + ProposedStep <= Active.end
         /\ ProposedStep = 0 => Remaining <= Active.step /\ request.length <= Active.end
<1> Admitted
  BY DEF Admitted
<1>1. processed < request.length /\ processed \in Nat /\ request.length \in Nat
  BY RequestFacts DEF PrefillInv, Request, Position
<1> DEFINE a == Active.start
           e == Active.end
           s == Active.step
<1>2. a \in Nat /\ e \in Nat /\ s \in Nat \ {0} /\ processed < e /\ e <= request.length
  BY ActiveFacts
<1> HIDE DEF a, e, s
<1>3. Remaining \in Nat \ {0} /\ Remaining = request.length - processed
  BY <1>1 DEF Remaining
<1>4. /\ NextChunkSize \in Nat /\ NextChunkSize <= s /\ NextChunkSize <= e - processed
      /\ NextChunkSize <= Remaining - 1
      /\ Remaining > 1 => NextChunkSize > 0
  BY <1>1, <1>2, <1>3 DEF NextChunkSize, SmallerOf, LargerOf, a, e, s
<1>5. AlignmentStep \in Nat \ {0}
  <2>1. (processed - a) % s \in 0..s - 1
    BY <1>1, <1>2
  <2> QED BY <1>2, <2>1 DEF AlignmentStep, a, s
<1>6. ReusableEnd \in Nat /\ ReusableEnd <= request.length - 1
  <2>1. Chunk \in Nat \ {0} /\ request.length - 1 \in Nat
    BY <1>1, RequestFacts
  <2>2. (request.length - 1) \div Chunk \in Nat /\ Chunk * ((request.length - 1) \div Chunk) <= request.length - 1
    BY <2>1, Quotient
  <2>3. ((request.length - 1) \div Chunk) * Chunk = Chunk * ((request.length - 1) \div Chunk)
        /\ Chunk * ((request.length - 1) \div Chunk) \in Nat
    BY <2>1, <2>2
  <2> QED BY <2>2, <2>3 DEF ReusableEnd, ChunkCount
<1>7. CASE Remaining <= 1
  BY <1>1, <1>2, <1>3, <1>7 DEF ProposedStep, e, s
<1>8. CASE Remaining > 1 /\ request.saving /\ AlignmentStep < Active.step /\ AlignmentStep <= NextChunkSize
  <2>1. ProposedStep = AlignmentStep
    BY <1>3, <1>8 DEF ProposedStep
  <2> QED BY <1>1, <1>2, <1>3, <1>4, <1>5, <1>8, <2>1 DEF e, s
<1>9. CASE /\ Remaining > 1 /\ ~ (request.saving /\ AlignmentStep < Active.step /\ AlignmentStep <= NextChunkSize)
           /\ Remaining > Active.step \/ request.length > Active.end
  <2>1. ProposedStep = NextChunkSize
    BY <1>3, <1>9 DEF ProposedStep
  <2> QED BY <1>1, <1>2, <1>3, <1>4, <1>9, <2>1 DEF e, s
<1>10. CASE /\ Remaining > 1 /\ ~ (request.saving /\ AlignmentStep < Active.step /\ AlignmentStep <= NextChunkSize)
            /\ ~ (Remaining > Active.step \/ request.length > Active.end)
  <2>1. ProposedStep = IF request.saving /\ Opaque(model) /\ ReusableEnd > processed THEN ReusableEnd - processed ELSE 0
    BY <1>3, <1>10 DEF ProposedStep
  <2>2. Remaining <= s /\ request.length <= e
    BY <1>1, <1>2, <1>3, <1>10 DEF e, s
  <2>3. CASE ReusableEnd > processed
    <3>1. ReusableEnd - processed \in Nat /\ ReusableEnd - processed < Remaining
      BY <1>1, <1>3, <1>6, <2>3
    <3> QED BY <1>1, <1>2, <1>3, <2>1, <2>2, <3>1 DEF e, s
  <2>4. CASE ~ (ReusableEnd > processed)
    BY <1>1, <1>2, <1>3, <2>1, <2>2, <2>4 DEF e, s
  <2> QED BY <2>3, <2>4
<1> QED BY <1>3, <1>7, <1>8, <1>9, <1>10

\* Where an image moves the end of a call to: a boundary of no image, and the
\* call is no longer than the step unless it is all within one image.
LEMMA Boundary ==
  ASSUME PrefillInv, phase = "prefill", NEW a \in Splits(processed + ProposedStep), ProposedStep > 0
  PROVE  /\ SafeBoundary(a) \in Nat /\ processed < SafeBoundary(a) /\ SafeBoundary(a) <= request.length
         /\ Whole(SafeBoundary(a))
         /\ \/ SafeBoundary(a) - processed <= Active.step
            \/ processed..SafeBoundary(a) - 1 \subseteq request.images
         /\ \/ SafeBoundary(a) <= processed + ProposedStep
            \/ SafeBoundary(a) - 1 \in request.images
<1> Admitted
  BY DEF Admitted
<1> DEFINE p == ProposedStep
           safe == SafeChunksBefore(a)
<1>1. /\ request \in Requests /\ request.length \in Nat \ {0} /\ request.images \subseteq 0..request.length - 1
      /\ processed \in Nat /\ restored \in Nat /\ restored <= processed
  BY RequestFacts
<1>2. /\ p \in Nat /\ p > 0 /\ p < request.length - processed /\ p <= Active.step /\ Active.step \in Nat
  BY <1>1, Proposed, ActiveFacts DEF Remaining
<1>3. a \in ImageStarts /\ a < processed + p /\ processed + p < EndOf(a)
  BY DEF Splits
<1>4. a \in request.images /\ a \in Nat /\ restored <= a /\ (a = restored \/ a - 1 \notin request.images)
  BY <1>1, <1>3 DEF ImageStarts
<1>5. /\ EndOf(a) \in Nat /\ EndOf(a) <= request.length /\ EndOf(a) \notin request.images
      /\ a..EndOf(a) - 1 \subseteq request.images
  <2>1. /\ EndOf(a) \in a + 1..request.length /\ EndOf(a) \notin request.images
        /\ a..EndOf(a) - 1 \subseteq request.images
    BY <1>1, <1>4, EndOfImage
  <2> QED BY <1>1, <1>4, <2>1
<1>6. CASE safe # {}
  <2>1. safe \subseteq 0..a
    BY <1>1, <1>4 DEF SafeChunksBefore
  <2>2. \E c \in safe : \A d \in safe : d <= c
    BY <1>4, <1>6, <2>1, Greatest
  <2>3. SafeBoundary(a) \in safe
    <3>1. SafeBoundary(a) = CHOOSE c \in safe : \A d \in safe : d <= c
      BY <1>6 DEF SafeBoundary
    <3> QED BY <2>2, <3>1
  <2>4. SafeBoundary(a) \in processed + 1..a /\ Splits(SafeBoundary(a)) = {}
    BY <2>3 DEF SafeChunksBefore
  <2>5. SafeBoundary(a) \in Nat /\ restored < SafeBoundary(a) /\ SafeBoundary(a) < processed + p
    BY <1>1, <1>2, <1>3, <1>4, <2>4
  <2>6. Whole(SafeBoundary(a))
    BY <1>1, <2>4, <2>5, UnsplitIsWhole
  <2> QED BY <1>1, <1>2, <2>4, <2>5, <2>6
<1>7. CASE safe = {} /\ EndOf(a) - processed <= Active.step
  <2>1. SafeBoundary(a) = EndOf(a)
    BY <1>7 DEF SafeBoundary
  <2>2. EndOf(a) - 1 \in request.images
    <3>1. EndOf(a) - 1 \in a..EndOf(a) - 1
      BY <1>1, <1>2, <1>3, <1>4, <1>5
    <3> QED BY <1>5, <3>1
  <2> QED BY <1>1, <1>2, <1>3, <1>5, <1>7, <2>1, <2>2 DEF Whole
<1>8. CASE safe = {} /\ ~ (EndOf(a) - processed <= Active.step) /\ processed < a
  <2>1. SafeBoundary(a) = a
    BY <1>8 DEF SafeBoundary
  <2>2. a - 1 \notin request.images
    BY <1>1, <1>4, <1>8
  <2> QED BY <1>1, <1>2, <1>3, <1>4, <1>8, <2>1, <2>2 DEF Whole
<1>9. CASE safe = {} /\ ~ (EndOf(a) - processed <= Active.step) /\ ~ (processed < a)
  <2>1. SafeBoundary(a) = EndOf(a)
    BY <1>9 DEF SafeBoundary
  <2>2. processed..EndOf(a) - 1 \subseteq a..EndOf(a) - 1
    BY <1>1, <1>4, <1>5, <1>9
  <2> QED BY <1>1, <1>2, <1>3, <1>5, <2>1, <2>2 DEF Whole
<1> QED BY <1>6, <1>7, <1>8, <1>9

\* Where the next call ends.
CallEnd == IF NextStepSize = 0 THEN request.length ELSE processed + NextStepSize

\* The next call of the model makes progress, stays within the prompt, keeps images whole and keeps to the step.
LEMMA NextCall ==
  ASSUME PrefillInv, phase = "prefill"
  PROVE  /\ NextStepSize \in Nat /\ NextStepSize < Remaining
         /\ CallEnd \in Nat /\ processed < CallEnd /\ CallEnd <= request.length
         /\ Whole(CallEnd)
         /\ ~ model.whole => CallEnd - processed <= Active.step \/ processed..CallEnd - 1 \subseteq request.images
         /\ ~ model.whole => \/ CallEnd - processed <= Active.step /\ CallEnd <= Active.end
                            \/ CallEnd - 1 \in request.images
<1> Admitted
  BY DEF Admitted
<1> DEFINE p == ProposedStep
           b == SafeBoundary(CHOOSE a \in Splits(processed + p) : TRUE)
<1>1. /\ request \in Requests /\ request.length \in Nat \ {0} /\ request.images \subseteq 0..request.length - 1
      /\ processed \in Nat /\ processed < request.length /\ restored \in Nat /\ restored <= processed
  BY RequestFacts DEF PrefillInv, Request, Position
<1>2. Remaining = request.length - processed
  BY DEF Remaining
<1>3. Whole(request.length)
  BY <1>1 DEF Whole
<1>4. /\ p \in Nat /\ p < Remaining /\ p <= Active.step /\ processed + p <= Active.end
      /\ p = 0 => Remaining <= Active.step /\ request.length <= Active.end
      /\ Active.step \in Nat /\ Active.end \in Nat
  BY Proposed, ActiveFacts
<1>5. CASE model.whole
  BY <1>1, <1>2, <1>3, <1>5 DEF NextStepSize, CallEnd
<1>6. CASE ~ model.whole /\ p = 0
  <2>1. NextStepSize = 0
    BY <1>6 DEF NextStepSize, StepWithoutSplitting
  <2> HIDE DEF p
  <2> QED BY <1>1, <1>2, <1>3, <1>4, <1>6, <2>1 DEF CallEnd
<1>7. CASE ~ model.whole /\ p > 0 /\ Splits(processed + p) = {}
  <2>1. NextStepSize = p
    BY <1>7 DEF NextStepSize, StepWithoutSplitting
  <2>2. Whole(processed + p)
    <3>1. processed + p \in Nat /\ restored < processed + p
      BY <1>1, <1>4, <1>7
    <3> QED BY <1>1, <1>7, <3>1, UnsplitIsWhole
  <2> HIDE DEF p
  <2> QED BY <1>1, <1>2, <1>4, <1>7, <2>1, <2>2 DEF CallEnd
<1>8. CASE ~ model.whole /\ p > 0 /\ Splits(processed + p) # {}
  <2>1. /\ b \in Nat /\ processed < b /\ b <= request.length /\ Whole(b)
        /\ b - processed <= Active.step \/ processed..b - 1 \subseteq request.images
        /\ b <= processed + p \/ b - 1 \in request.images
    <3>1. (CHOOSE a \in Splits(processed + p) : TRUE) \in Splits(processed + p)
      BY <1>8
    <3> QED BY <1>8, <3>1, Boundary
  <2>2. NextStepSize = IF b >= request.length THEN 0 ELSE b - processed
    BY <1>4, <1>8 DEF NextStepSize, StepWithoutSplitting
  <2> HIDE DEF p, b
  <2>3. CallEnd = b /\ NextStepSize \in Nat /\ NextStepSize < Remaining
    BY <1>1, <1>2, <2>1, <2>2 DEF CallEnd
  <2>4. b <= processed + p => b - processed <= Active.step /\ b <= Active.end
    BY <1>1, <1>4, <2>1
  <2> QED BY <1>8, <2>1, <2>3, <2>4
<1> QED BY <1>4, <1>5, <1>6, <1>7, <1>8

-----------------------------------------------------------------------------
(* What holds of each call, and is then left alone until the next.         *)

CallInv == ImagesWhole /\ StepsKept /\ MemoryWithinCeiling

\* The next call keeps the invariant of calls.
LEMMA CallIsGood ==
  ASSUME PrefillInv, phase = "prefill", call' = Calling(CallEnd), UNCHANGED <<model, fit, request>>
  PROVE  CallInv'
<1> Admitted
  BY DEF Admitted
<1> DEFINE n == CallEnd - processed
<1>1. /\ request \in Requests /\ request.length \in Nat \ {0} /\ request.images \subseteq 0..request.length - 1
      /\ processed \in Nat /\ restored \in Nat /\ restored <= processed
      /\ processed > 0 => Whole(processed)
  BY RequestFacts DEF PrefillInv, Request, Position
<1>2. /\ call'.from = processed /\ call'.to = CallEnd /\ call'.step = Active.step
      /\ call'.typed = HasImage(processed, CallEnd)
  BY DEF Calling
<1>3. CallEnd \in Nat /\ processed < CallEnd /\ CallEnd <= request.length /\ Whole(CallEnd)
  BY NextCall
<1>4. ImagesWhole'
  <2>1. HasImage(processed, CallEnd) <=> processed..CallEnd - 1 \cap request.images # {}
    BY <1>1, <1>3, TypesWhereImages
  <2> QED BY <1>1, <1>2, <1>3, <2>1 DEF ImagesWhole, Whole
<1>5. StepsKept'
  BY <1>2, NextCall DEF StepsKept
<1>6. MemoryWithinCeiling'
  <2> SUFFICES ASSUME fit # NoFit, CallEnd - processed <= Active.step, CallEnd <= Active.end
               PROVE  \/ Peak(n, n, CallEnd) <= fit.ceiling
                      \/ /\ Active.step = Last(fit.steps)
                         /\ Raised(model) \/ Peak(n, n, CallEnd) <= fit.ceiling + Rounding
    <3>1. call'.limit = Active.end
      BY DEF Calling
    <3>2. ~ model.whole => \/ n <= Active.step /\ CallEnd <= Active.end
                           \/ CallEnd - 1 \in request.images
      BY NextCall
    <3>3. fit # NoFit => ~ model.whole /\ Active.step \in Nat /\ Active.end \in Nat
      BY FitFacts, ActiveFacts DEF Fitted
    <3> QED
      BY <1>1, <1>2, <1>3, <3>1, <3>2, <3>3, FitFacts
      DEF MemoryWithinCeiling, FinishesImage, Planned, Peak, Rounding
  <2> DEFINE q == fit.profile
             s == Active.step
  <2>1. /\ Fitted /\ q \in CacheFitProfile /\ fit.steps \in Seq(Nat \ {0}) /\ fit.ceiling \in Int
        /\ model.baseline \in Nat /\ Len(fit.steps) \in Nat \ {0}
    BY FitFacts
  <2>2. s \in Nat /\ n \in Nat /\ n <= s /\ CallEnd <= Active.end /\ Active.end \in Nat
    BY <1>1, <1>3, <2>1, NextCall, ActiveFacts DEF Fitted
  <2>3. PICK i \in DOMAIN segments : Active.end = segments[i].end /\ s = segments[i].step
    <3>1. segments # <<>>
      <4>1. PlannedEnd = request.length
        BY <2>1, FitFacts DEF PrefillInv, PlanCovers
      <4> QED BY <1>1, <4>1 DEF PlannedEnd
    <3> QED BY <3>1, ActiveFacts
  <2>4. Active.end <= CacheLimit(s) \/ s = Last(fit.steps)
    BY <2>3 DEF PrefillInv, Request, SegmentsOK
  <2> HIDE DEF s, n
  <2>5. Peak(n, n, CallEnd) = FixedBytes(q, n, model.baseline) + q.prompt_input * request.length
                              + q.full_kv * CallEnd + q.attention * n * CallEnd
    BY DEF Peak
  <2>6. CASE Active.end <= CacheLimit(s)
    <3>1. RequestCacheLimit(q, s, request.length, fit.ceiling, model.baseline) \in Nat
      <4>1. CachedTokenBytes(q, s) \in Nat \ {0} /\ FixedBytes(q, s, model.baseline) \in Nat
        BY <2>1, <2>2, CostsAreNumbers
      <4>2. q.prompt_input * request.length \in Nat
        <5>1. q.prompt_input \in Nat
          BY <2>1 DEF CacheFitProfile
        <5> QED BY <1>1, <5>1
      <4> HIDE DEF q
      <4>3. fit.ceiling - FixedBytes(q, s, model.baseline) - q.prompt_input * request.length \in Int
        BY <2>1, <4>1, <4>2
      <4>4. TokensFit(fit.ceiling - FixedBytes(q, s, model.baseline) - q.prompt_input * request.length,
                      CachedTokenBytes(q, s)) \in Nat
        BY <4>1, <4>3, Fitting
      <4> QED BY <2>1, <4>4, Rounded DEF RequestCacheLimit
    <3>2. CallEnd <= RequestCacheLimit(q, s, request.length, fit.ceiling, model.baseline)
      BY <1>3, <2>2, <2>6, <3>1 DEF CacheLimit
    <3>3. CallEnd \in Nat \ {0}
      BY <1>1, <1>3
    <3>4. FixedBytes(q, n, model.baseline) + q.prompt_input * request.length
            + q.full_kv * CallEnd + q.attention * n * CallEnd <= fit.ceiling
      <4> HIDE DEF q
      <4> QED BY <1>1, <2>1, <2>2, <3>2, <3>3, CallFits
    <3> QED BY <2>5, <3>4
  <2>7. CASE s = Last(fit.steps) /\ ~ Raised(model)
    <3> DEFINE limit == ContextFitForStep(q, s, fit.ceiling, model.baseline)
    <3>1. limit = ContextFitForStep(Profile(model), Last(CandidateSteps(model.prefill_step)),
                                    model.working_set - Reserve, model.baseline)
      BY <2>1, <2>7 DEF Fitted, Steps
    <3>2. limit \in Nat /\ limit <= q.native
      <4>1. CachedTokenBytes(q, s) \in Nat \ {0} /\ FixedBytes(q, s, model.baseline) \in Nat
        BY <2>1, <2>2, CostsAreNumbers
      <4>2. q.prompt_input \in Nat /\ q.native \in Nat
        BY <2>1 DEF CacheFitProfile
      <4>3. CachedTokenBytes(q, s) + q.prompt_input \in Nat \ {0} /\ fit.ceiling - FixedBytes(q, s, model.baseline) \in Int
        <5>1. PICK c \in Nat \ {0}, d \in Nat : c = CachedTokenBytes(q, s) /\ d = FixedBytes(q, s, model.baseline)
          BY <4>1
        <5>2. fit.ceiling \in Int
          BY <2>1
        <5> QED BY <4>2, <5>1, <5>2
      <4>4. TokensFit(fit.ceiling - FixedBytes(q, s, model.baseline), CachedTokenBytes(q, s) + q.prompt_input) \in Nat
        BY <4>3, Fitting
      <4>5. RoundUp(TokensFit(fit.ceiling - FixedBytes(q, s, model.baseline), CachedTokenBytes(q, s) + q.prompt_input), q) \in Nat
        BY <2>1, <4>4, Rounded
      <4> QED BY <4>2, <4>5 DEF ContextFitForStep, SmallerOf
    <3>3. MinContext \in Nat /\ limit >= MinContext
      BY <2>7, <3>1, <3>2, FitAssumption DEF Raised
    <3>4. fit.context = SmallerOf(model.native, LargerOf(MinContext, limit))
      BY <2>1, <3>1 DEF Fitted, FittedContext
    <3>5. q.native = model.native /\ q.native \in Nat
      <4>1. Profile(model).native = model.native
        BY DEF Profile
      <4>2. q = Profile(model)
        BY <2>1 DEF Fitted
      <4>3. q.native \in Nat
        BY <2>1 DEF CacheFitProfile
      <4> QED BY <4>1, <4>2, <4>3
    <3> HIDE DEF limit
    <3>6. fit.context = limit
      BY <3>2, <3>3, <3>4, <3>5 DEF SmallerOf, LargerOf
    <3>7. request.length <= limit
      BY <3>6 DEF PrefillInv, Request
    <3>8. FixedBytes(q, n, model.baseline) + q.prompt_input * request.length
            + q.full_kv * CallEnd + q.attention * n * CallEnd
              <= fit.ceiling + (q.allocation_step - 1) * (CachedTokenBytes(q, s) + q.prompt_input)
      <4>1. request.length <= ContextFitForStep(q, s, fit.ceiling, model.baseline)
        BY <3>7 DEF limit
      <4> HIDE DEF q
      <4> QED BY <1>1, <1>3, <2>1, <2>2, <4>1, FittedCallFits
    <3>9. Rounding = (q.allocation_step - 1) * (CachedTokenBytes(q, s) + q.prompt_input)
      BY <2>7 DEF Rounding
    <3> QED BY <2>5, <2>7, <3>8, <3>9 DEF s
  <2> QED BY <2>4, <2>6, <2>7 DEF s
<1> QED BY <1>4, <1>5, <1>6 DEF CallInv

-----------------------------------------------------------------------------
(* Each action keeps the invariant.                                        *)

Inv == PrefillInv /\ CallInv

\* Where there is no call the invariant of calls holds.
LEMMA NoCallIsGood ==
  ASSUME call = NoCall
  PROVE  CallInv
BY DEF CallInv, ImagesWhole, StepsKept, MemoryWithinCeiling, Planned

\* More tokens take no fewer chunks.
LEMMA ChunksGrow ==
  ASSUME NEW m \in Nat, NEW n \in Nat, m <= n
  PROVE  ChunkCount(m) \in Nat /\ ChunkCount(n) \in Nat /\ ChunkCount(m) <= ChunkCount(n)
<1>1. Chunk \in Nat \ {0}
  BY PrefillAssumption
<1> DEFINE x == m \div Chunk
           y == n \div Chunk
<1>2. x \in Nat /\ y \in Nat /\ Chunk * x <= m /\ n < Chunk * y + Chunk
  BY <1>1, Quotient
<1> HIDE DEF x, y
<1>3. x <= y
  <2> SUFFICES ASSUME y + 1 <= x PROVE FALSE
    BY <1>2
  <2>1. Chunk * (y + 1) <= Chunk * x /\ Chunk * (y + 1) = Chunk * y + Chunk /\ Chunk * x \in Nat /\ Chunk * y \in Nat
    BY <1>1, <1>2, ProductsGrow
  <2> QED BY <1>1, <1>2, <2>1
<1> QED BY <1>2, <1>3 DEF ChunkCount, x, y

\* The invariant holds initially.
LEMMA Initially == Init => Inv
<1> SUFFICES ASSUME Init PROVE Inv
  OBVIOUS
<1>1. PrefillInv
  BY DEF Init, PrefillInv, FitOK, Waiting, Untouched, Request, Admitted, PlanCovers, PlannedEnd, NoRequest, NoFit
<1> QED BY <1>1, NoCallIsGood DEF Init, Inv

\* A step of Load keeps the invariant.
LEMMA LoadKeeps == Inv /\ Load => Inv'
<1> SUFFICES ASSUME Inv, Load PROVE Inv'
  OBVIOUS
<1>1. PrefillInv /\ Untouched /\ request = NoRequest
  BY DEF Inv, PrefillInv, Waiting, Load
<1>2. FitOK'
  <2>1. CASE fit' = NoFit
    BY <2>1 DEF FitOK
  <2>2. CASE fit' # NoFit
    <3>1. ~ model.whole /\ fit' = FitOf(model)
      BY <2>2 DEF Load
    <3>2. Readable(model) /\ fit' = [steps |-> CandidateSteps(model.prefill_step), profile |-> Profile(model),
                                     context |-> FittedContext(model), ceiling |-> model.working_set - Reserve]
      BY <2>2, <3>1 DEF FitOf
    <3> QED BY <3>1, <3>2 DEF FitOK, Fitted, Steps, Load
  <2> QED BY <2>1, <2>2
<1>3. PrefillInv'
  <2>1. Untouched' /\ phase' = "ready" /\ UNCHANGED <<model, request, step, segments>>
    BY <1>1 DEF Load, Untouched
  <2>2. PlanCovers'
    BY <1>1, <2>1 DEF PlanCovers, Untouched, PlannedEnd, NoRequest
  <2>3. Waiting' /\ Request'
    BY <1>1, <2>1 DEF Waiting, Request, Admitted
  <2> QED BY <1>1, <1>2, <2>1, <2>2, <2>3 DEF PrefillInv
<1>4. CallInv'
  BY <1>1, NoCallIsGood DEF Load, Untouched, CallInv, ImagesWhole, StepsKept, MemoryWithinCeiling, Planned
<1> QED BY <1>3, <1>4 DEF Inv

\* A step of Admit keeps the invariant.
LEMMA AdmitKeeps == ASSUME NEW r \in Requests PROVE Inv /\ Admit(r) => Inv'
<1> SUFFICES ASSUME Inv, Admit(r) PROVE Inv'
  OBVIOUS
<1>1. PrefillInv /\ Untouched /\ phase = "ready"
  BY DEF Inv, PrefillInv, Waiting, Admit
<1>2. request' = r /\ UNCHANGED <<model, fit, step, segments, call, snapshots>>
  BY DEF Admit
<1>3. r.length \in Nat \ {0} /\ r.cached \in 0..r.length - 1 /\ r.images \subseteq 0..r.length - 1
  BY PrefillAssumption
<1>4. FitOK' /\ (fit' = NoFit <=> fit'.steps = <<>>)
  BY <1>1, <1>2, FitFacts DEF PrefillInv, FitOK, Fitted, Steps
<1>5. segments' = <<>> /\ step' = 1 /\ call' = NoCall /\ snapshots' = {}
  BY <1>1, <1>2 DEF Untouched
<1>6. CallInv'
  BY <1>5 DEF CallInv, ImagesWhole, StepsKept, MemoryWithinCeiling, Planned
<1>7. CASE fit.steps # <<>> /\ r.length > fit.context
  <2>1. phase' = "refused" /\ Untouched'
    BY <1>1, <1>5, <1>7 DEF Admit, Untouched
  <2>2. PlanCovers'
    BY <1>2, <1>3, <1>5, <2>1 DEF PlanCovers, PlannedEnd
  <2> QED
    BY <1>1, <1>2, <1>4, <1>5, <1>6, <2>1, <2>2 DEF Inv, PrefillInv, Waiting, Request, Admitted
<1>8. CASE ~ (fit.steps # <<>> /\ r.length > fit.context)
  <2>1. /\ phase' = IF fit.steps = <<>> THEN "prefill" ELSE "plan"
        /\ restored' = Kept(r) /\ processed' = Kept(r)
        /\ nextChunk' = ChunkCount(IF model.whole THEN r.length ELSE Kept(r))
    BY <1>8 DEF Admit
  <2>2. /\ Kept(r) \in Nat /\ Kept(r) < r.length
        /\ Kept(r) > 0 => ~ ({Kept(r) - 1, Kept(r)} \subseteq r.images)
    BY <1>3 DEF Kept, RestoreSplitsImage
  <2>3. nextChunk' \in 0..ChunkCount(r.length)
    BY <1>3, <2>1, <2>2, ChunksGrow
  <2>4. Position'
    BY <1>2, <1>3, <1>5, <2>1, <2>2, <2>3 DEF Position, Whole, ChunkCount
  <2>5. fit = NoFit <=> fit.steps = <<>>
    BY <1>1, FitFacts
  <2>6. Request'
    BY <1>2, <1>3, <1>5, <1>8, <2>1, <2>4, <2>5, FitFacts, <1>1 DEF Request, SegmentsOK
  <2>7. PlanCovers'
    BY <1>2, <1>3, <1>5, <2>1 DEF PlanCovers, PlannedEnd
  <2>8. Waiting'
    BY <2>1 DEF Waiting
  <2> QED BY <1>1, <1>2, <1>4, <1>5, <1>6, <2>1, <2>6, <2>7, <2>8 DEF Inv, PrefillInv
<1> QED BY <1>7, <1>8

\* The two steps that plan leave alone all a call is judged by.
LEMMA PlanningKeepsCalls ==
  ASSUME Inv, UNCHANGED <<model, fit, request, call>>
  PROVE  CallInv' /\ FitOK'
BY DEF Inv, CallInv, ImagesWhole, StepsKept, MemoryWithinCeiling, FinishesImage, Planned, Peak,
       Rounding, PrefillInv, FitOK, Fitted, Steps

\* The limit of the cache is a natural number.
LEMMA LimitIsNumber ==
  ASSUME PrefillInv, Admitted, fit # NoFit, NEW s \in Nat
  PROVE  CacheLimit(s) \in Nat
<1> DEFINE q == fit.profile
           fixed == FixedBytes(q, s, model.baseline)
           inputs == q.prompt_input * request.length
<1>1. q \in CacheFitProfile /\ fit.ceiling \in Int /\ model.baseline \in Nat /\ request.length \in Nat
  BY FitFacts, RequestFacts
<1>2. CachedTokenBytes(q, s) \in Nat \ {0} /\ fixed \in Nat
  BY <1>1, CostsAreNumbers
<1>3. inputs \in Nat
  BY <1>1 DEF CacheFitProfile
<1> HIDE DEF q, fixed, inputs
<1>4. fit.ceiling - fixed - inputs \in Int
  BY <1>1, <1>2, <1>3
<1>5. TokensFit(fit.ceiling - fixed - inputs, CachedTokenBytes(q, s)) \in Nat
  BY <1>2, <1>4, Fitting
<1>6. RoundDown(TokensFit(fit.ceiling - fixed - inputs, CachedTokenBytes(q, s)), q) \in Nat
  BY <1>1, <1>5, Rounded
<1> QED BY <1>6 DEF CacheLimit, RequestCacheLimit, q, fixed, inputs

\* A step of PlanStep keeps the invariant.
LEMMA PlanStepKeeps == Inv /\ PlanStep => Inv'
<1> SUFFICES ASSUME Inv, PlanStep PROVE Inv'
  OBVIOUS
<1> DEFINE s == fit.steps[step]
           end == LargerOf(PlannedEnd, SmallerOf(request.length, CacheLimit(s)))
<1>1. PrefillInv /\ Admitted /\ phase = "plan"
  BY DEF Inv, PlanStep, Admitted
<1>2. /\ step \in 1..Len(fit.steps) /\ PlannedEnd < request.length
      /\ step' = step + 1 /\ segments' = WithStep(s)
      /\ UNCHANGED <<model, fit, request, phase, restored, processed, call, nextChunk, snapshots>>
  <2>1. step \in Nat \ {0} /\ Len(fit.steps) \in Nat
    BY <1>1, FitFacts DEF PrefillInv
  <2> QED BY <2>1 DEF PlanStep
<1>3. fit # NoFit /\ SegmentsOK /\ Position /\ segments \in Seq(Segment)
  BY <1>1 DEF PrefillInv, Request, SegmentsOK
<1>4. /\ fit.steps \in Seq(Nat \ {0}) /\ s \in Nat \ {0}
      /\ \A i, j \in DOMAIN fit.steps : i < j => fit.steps[j] < fit.steps[i]
  BY <1>1, <1>2, <1>3, FitFacts
<1>5. request.length \in Nat \ {0} /\ PlannedEnd \in Nat /\ CacheLimit(s) \in Nat
  BY <1>1, <1>3, <1>4, RequestFacts, LimitIsNumber
<1>6. FitOK' /\ CallInv'
  BY <1>2, PlanningKeepsCalls
<1>7. Position' /\ Waiting' /\ step' \in Nat \ {0}
  BY <1>1, <1>2, <1>3 DEF Position, Waiting, Whole, PrefillInv, ChunkCount
<1>8. ASSUME NEW t PROVE CacheLimit(t)' = CacheLimit(t)
  BY <1>2 DEF CacheLimit
<1>9. CASE end <= PlannedEnd
  <2>1. segments' = segments
    BY <1>2, <1>5, <1>9 DEF WithStep, LargerOf, SmallerOf
  <2>2. SegmentsOK'
    <3>1. \A i \in DOMAIN segments : \E j \in DOMAIN fit.steps : segments[i].step = fit.steps[j] /\ j < step + 1
      <4> TAKE i \in DOMAIN segments
      <4>1. PICK j \in DOMAIN fit.steps : segments[i].step = fit.steps[j] /\ j < step
        BY <1>1, <1>3 DEF SegmentsOK
      <4>2. j < step + 1
        BY <1>2, <1>4, <4>1
      <4> QED BY <4>1, <4>2
    <3> QED BY <1>2, <1>3, <2>1, <3>1 DEF SegmentsOK, CacheLimit
  <2>3. PlanCovers'
    BY <1>1, <1>2, <2>1 DEF PrefillInv, PlanCovers, PlannedEnd
  <2> QED BY <1>1, <1>2, <1>6, <1>7, <2>2, <2>3 DEF Inv, PrefillInv, Request, Admitted
<1>10. CASE end > PlannedEnd
  <2> DEFINE new == [end |-> end, step |-> s]
  <2>1. segments' = Append(segments, new)
    BY <1>2, <1>10 DEF WithStep
  <2>2. end \in Nat \ {0} /\ end <= request.length /\ end <= CacheLimit(s)
    BY <1>5, <1>10 DEF LargerOf, SmallerOf
  <2>3. new \in Segment
    BY <1>4, <2>2 DEF Segment
  <2> HIDE DEF s, end
  <2>4. /\ segments' \in Seq(Segment) /\ Len(segments') = Len(segments) + 1 /\ Len(segments) \in Nat
        /\ \A i \in 1..Len(segments) : segments'[i] = segments[i]
        /\ segments'[Len(segments) + 1] = new
    BY <1>3, <2>1, <2>3
  <2>5. DOMAIN segments = 1..Len(segments) /\ DOMAIN segments' = 1..Len(segments) + 1
    BY <1>3, <2>4
  <2>6. PlannedEnd' = end
    <3>1. segments' # <<>> /\ Last(segments') = new
      BY <2>4 DEF Last
    <3> QED BY <3>1 DEF PlannedEnd
  <2>7. \A i \in DOMAIN segments : s < segments[i].step /\ segments[i].end < end
    <3> TAKE i \in DOMAIN segments
    <3>1. PICK j \in DOMAIN fit.steps : segments[i].step = fit.steps[j] /\ j < step
      BY <1>1, <1>3 DEF SegmentsOK
    <3>2. s < segments[i].step
      BY <1>2, <1>4, <3>1 DEF s
    <3>3. segments[i].end \in Nat /\ segments[i].end <= PlannedEnd
      BY <1>1, SegmentFacts
    <3> QED BY <1>5, <1>10, <2>2, <3>2, <3>3
  <2>8. PlanCovers'
    <3>1. ASSUME NEW i \in DOMAIN segments', NEW j \in DOMAIN segments', i < j
          PROVE  segments'[i].end < segments'[j].end /\ segments'[j].step < segments'[i].step
      <4>1. i \in DOMAIN segments
        BY <2>4, <2>5, <3>1
      <4>2. CASE j \in DOMAIN segments
        BY <1>1, <2>4, <2>5, <3>1, <4>1, <4>2 DEF PrefillInv, PlanCovers
      <4>3. CASE j = Len(segments) + 1
        BY <2>4, <2>5, <2>7, <4>1, <4>3
      <4> QED BY <2>4, <2>5, <4>2, <4>3
    <3> QED BY <1>1, <1>2, <2>2, <2>6, <3>1 DEF PlanCovers
  <2>9. SegmentsOK'
    <3>1. ASSUME NEW i \in DOMAIN segments'
          PROVE  /\ \E j \in DOMAIN fit.steps : segments'[i].step = fit.steps[j] /\ j < step + 1
                 /\ segments'[i].end <= CacheLimit(segments'[i].step) \/ segments'[i].step = Last(fit.steps)
      <4>1. CASE i \in DOMAIN segments
        <5>1. PICK j \in DOMAIN fit.steps : segments[i].step = fit.steps[j] /\ j < step
          BY <1>1, <1>3, <4>1 DEF SegmentsOK
        <5>2. j < step + 1
          BY <1>2, <1>4, <5>1
        <5>3. segments'[i] = segments[i]
          BY <2>4, <2>5, <4>1
        <5> QED BY <1>3, <4>1, <5>1, <5>2, <5>3 DEF SegmentsOK
      <4>2. CASE i = Len(segments) + 1
        <5>1. step \in DOMAIN fit.steps /\ step < step + 1
          BY <1>2, <1>4
        <5>2. segments'[i].step = s /\ segments'[i].end = end
          BY <2>4, <4>2
        <5> QED BY <2>2, <5>1, <5>2 DEF s
      <4> QED BY <2>4, <2>5, <4>1, <4>2
    <3> QED BY <1>2, <1>3, <2>4, <3>1 DEF SegmentsOK, CacheLimit
  <2> QED BY <1>1, <1>2, <1>6, <1>7, <2>8, <2>9 DEF Inv, PrefillInv, Request, Admitted
<1> QED
  <2>1. end \in Nat
    BY <1>5 DEF LargerOf, SmallerOf
  <2> QED BY <1>5, <1>9, <1>10, <2>1

\* A step of PlanDone keeps the invariant.
LEMMA PlanDoneKeeps == Inv /\ PlanDone => Inv'
<1> SUFFICES ASSUME Inv, PlanDone PROVE Inv'
  OBVIOUS
<1> DEFINE s == Last(fit.steps)
           rest == [end |-> request.length, step |-> s]
           n == Len(segments)
<1>1. PrefillInv /\ Admitted /\ phase = "plan"
  BY DEF Inv, PlanDone, Admitted
<1>2. /\ segments' = Extended /\ phase' = "prefill"
      /\ UNCHANGED <<model, fit, request, step, restored, processed, call, nextChunk, snapshots>>
  BY DEF PlanDone
<1>3. fit # NoFit /\ SegmentsOK /\ Position /\ segments \in Seq(Segment)
  BY <1>1 DEF PrefillInv, Request, SegmentsOK
<1>4. /\ fit.steps \in Seq(Nat \ {0}) /\ Len(fit.steps) \in DOMAIN fit.steps /\ s = fit.steps[Len(fit.steps)]
      /\ s \in Nat \ {0}
      /\ \A i, j \in DOMAIN fit.steps : i < j => fit.steps[j] < fit.steps[i]
  BY <1>1, <1>3, FitFacts DEF Last
<1>5. request.length \in Nat \ {0} /\ PlannedEnd \in Nat /\ PlannedEnd <= request.length
  BY <1>1, RequestFacts
<1>6. FitOK' /\ CallInv'
  BY <1>2, PlanningKeepsCalls
<1>7. Position' /\ Waiting'
  BY <1>1, <1>2, <1>3 DEF Position, Waiting, Whole, PrefillInv, ChunkCount
<1>8. n \in Nat /\ DOMAIN segments = 1..n
  BY <1>3
<1>9. ASSUME NEW i \in DOMAIN segments
      PROVE  /\ segments[i].step \in Nat /\ s <= segments[i].step /\ segments[i].end \in Nat \ {0}
             /\ segments[i].end <= PlannedEnd
             /\ \E j \in DOMAIN fit.steps : segments[i].step = fit.steps[j]
  <2>1. PICK j \in DOMAIN fit.steps : segments[i].step = fit.steps[j]
    BY <1>3 DEF SegmentsOK
  <2>2. s <= fit.steps[j]
    <3>1. j \in 1..Len(fit.steps) /\ fit.steps[j] \in Nat
      BY <1>4
    <3>2. CASE j = Len(fit.steps)
      BY <1>4, <3>1, <3>2
    <3>3. CASE j < Len(fit.steps)
      BY <1>4, <3>1, <3>3
    <3> QED BY <1>4, <3>1, <3>2, <3>3
  <2> QED BY <1>1, <1>4, <2>1, <2>2, SegmentFacts
<1>10. rest \in Segment
  BY <1>4, <1>5 DEF Segment
<1> HIDE DEF s
\* The plan as it was, but for its last segment, and the order of all.
<1>11. ASSUME segments' \in Seq(Segment), NEW k \in Nat, k <= n, DOMAIN segments' = 1..k \/ DOMAIN segments' = 1..k + 1,
              \A i \in 1..k : segments'[i] = segments[i],
              k + 1 \in DOMAIN segments' => /\ segments'[k + 1] = rest
                                            /\ PlannedEnd < request.length
                                            /\ \A i \in 1..k : s < segments[i].step,
              PlannedEnd' = request.length
       PROVE  Inv'
  <2>1. \A i \in 1..k : i \in DOMAIN segments
    BY <1>8, <1>11
  <2>2. PlanCovers'
    <3>1. ASSUME NEW i \in DOMAIN segments', NEW j \in DOMAIN segments', i < j
          PROVE  segments'[i].end < segments'[j].end /\ segments'[j].step < segments'[i].step
      <4>1. i \in 1..k
        BY <1>11, <3>1
      <4>2. CASE j \in 1..k
        BY <1>1, <1>11, <2>1, <3>1, <4>1, <4>2 DEF PrefillInv, PlanCovers
      <4>3. CASE j = k + 1
        <5>1. segments'[j] = rest /\ PlannedEnd < request.length /\ s < segments[i].step
          BY <1>11, <4>1, <4>3
        <5>2. segments[i].end \in Nat /\ segments[i].end <= PlannedEnd
          BY <1>9, <2>1, <4>1
        <5>3. segments[i].end < request.length
          BY <1>5, <5>1, <5>2
        <5> QED BY <1>11, <4>1, <5>1, <5>3
      <4> QED BY <1>11, <4>2, <4>3
    <3> QED BY <1>2, <1>5, <1>11, <3>1 DEF PlanCovers
  <2>3. SegmentsOK'
    <3>1. ASSUME NEW i \in DOMAIN segments'
          PROVE  /\ \E j \in DOMAIN fit.steps : segments'[i].step = fit.steps[j]
                 /\ segments'[i].end <= CacheLimit(segments'[i].step) \/ segments'[i].step = Last(fit.steps)
      <4>1. CASE i \in 1..k
        BY <1>3, <1>9, <1>11, <2>1, <4>1 DEF SegmentsOK
      <4>2. CASE i = k + 1
        <5>1. segments'[i].step = s
          BY <1>11, <4>2
        <5> QED BY <1>4, <5>1 DEF s
      <4> QED BY <1>11, <4>1, <4>2
    <3> QED BY <1>2, <1>3, <1>11, <3>1 DEF SegmentsOK, CacheLimit
  <2> QED BY <1>1, <1>2, <1>3, <1>6, <1>7, <2>2, <2>3 DEF Inv, PrefillInv, Request, Admitted
<1>12. CASE PlannedEnd = request.length
  <2>1. segments' = segments
    BY <1>2, <1>12 DEF Extended
  <2>2. PlannedEnd' = request.length
    BY <1>12, <2>1 DEF PlannedEnd
  <2>3. segments' \in Seq(Segment) /\ DOMAIN segments' = 1..n /\ \A i \in 1..n : segments'[i] = segments[i]
    BY <1>3, <1>8, <2>1
  <2> HIDE DEF rest, n
  <2>4. n <= n /\ n + 1 \notin 1..n
    BY <1>8
  <2> QED BY <1>8, <1>11, <2>2, <2>3, <2>4
<1>13. CASE PlannedEnd # request.length /\ segments # <<>> /\ Last(segments).step = s
  <2>1. segments' = [segments EXCEPT ![n] = rest]
    BY <1>2, <1>13 DEF Extended, s
  <2>2. n - 1 \in Nat /\ n \in DOMAIN segments /\ n = n - 1 + 1 /\ segments[n].step = s
    BY <1>3, <1>13 DEF Last
  <2>3. /\ segments' \in Seq(Segment) /\ Len(segments') = n /\ DOMAIN segments' = 1..n - 1 + 1
        /\ segments'[n] = rest /\ \A i \in 1..n - 1 : segments'[i] = segments[i]
    <3> HIDE DEF rest
    <3>1. segments' \in Seq(Segment) /\ Len(segments') = n
      BY <1>3, <1>10, <2>1, <2>2
    <3>2. DOMAIN segments' = 1..n
      BY <1>8, <3>1
    <3>3. segments'[n] = rest
      BY <2>1, <2>2
    <3>4. ASSUME NEW i \in 1..n - 1 PROVE segments'[i] = segments[i]
      <4> HIDE DEF n
      <4>1. i \in 1..n /\ i # n
        BY <1>8
      <4>2. i \in DOMAIN segments
        BY <1>8, <4>1
      <4> QED BY <2>1, <4>1, <4>2
    <3> QED BY <2>2, <3>1, <3>2, <3>3, <3>4
  <2>4. PlannedEnd' = request.length
    <3>1. segments' # <<>> /\ Last(segments') = rest
      BY <2>2, <2>3 DEF Last
    <3> QED BY <1>2, <3>1 DEF PlannedEnd
  <2>5. \A i \in 1..n - 1 : s < segments[i].step
    <3> TAKE i \in 1..n - 1
    <3>1. i \in DOMAIN segments /\ i < n
      BY <1>8
    <3>2. segments[n].step < segments[i].step
      BY <1>1, <2>2, <3>1 DEF PrefillInv, PlanCovers
    <3> QED BY <2>2, <3>2
  <2>6. PlannedEnd < request.length
    BY <1>5, <1>13
  <2> HIDE DEF rest, n
  <2>7. n - 1 <= n
    BY <1>8
  <2> QED BY <1>11, <2>2, <2>3, <2>4, <2>5, <2>6, <2>7
<1>14. CASE PlannedEnd # request.length /\ ~ (segments # <<>> /\ Last(segments).step = s)
  <2>1. segments' = Append(segments, rest)
    BY <1>2, <1>14 DEF Extended, s
  <2>2. /\ segments' \in Seq(Segment) /\ DOMAIN segments' = 1..n + 1
        /\ segments'[n + 1] = rest /\ \A i \in 1..n : segments'[i] = segments[i]
    BY <1>3, <1>8, <1>10, <2>1
  <2>3. PlannedEnd' = request.length
    <3>1. segments' # <<>> /\ Last(segments') = rest
      BY <1>3, <1>10, <2>1, <2>2 DEF Last
    <3> QED BY <1>2, <3>1 DEF PlannedEnd
  <2>4. \A i \in 1..n : s < segments[i].step
    <3> TAKE i \in 1..n
    <3>1. i \in DOMAIN segments /\ n \in DOMAIN segments /\ segments # <<>> /\ segments[n].step # s
      BY <1>3, <1>8, <1>14 DEF Last
    <3>2. segments[n].step \in Nat /\ s <= segments[n].step /\ segments[i].step \in Nat /\ s \in Nat
      BY <1>4, <1>9, <3>1
    <3>3. i < n => segments[n].step < segments[i].step
      BY <1>1, <3>1 DEF PrefillInv, PlanCovers
    <3> QED BY <3>1, <3>2, <3>3
  <2>5. PlannedEnd < request.length
    BY <1>5, <1>14
  <2> HIDE DEF rest, n
  <2> QED BY <1>8, <1>11, <2>2, <2>3, <2>4, <2>5
<1> QED BY <1>12, <1>13, <1>14

\* A call: the prefill goes on to its end.
LEMMA CallKeeps ==
  ASSUME Inv, phase = "prefill", call' = Calling(CallEnd), processed' = CallEnd, Snapshot(CallEnd),
         UNCHANGED <<model, fit, request, step, segments, restored>>,
         \/ phase' = "prefill" /\ CallEnd < request.length
         \/ phase' = "done"
  PROVE  Inv'
<1>1. PrefillInv /\ Admitted
  BY DEF Inv, Admitted
<1>2. /\ request.length \in Nat \ {0} /\ restored \in Nat /\ processed \in Nat /\ restored <= processed
      /\ CallEnd \in Nat /\ processed < CallEnd /\ CallEnd <= request.length /\ Whole(CallEnd)
      /\ Position /\ SegmentsOK
  BY <1>1, RequestFacts, NextCall DEF PrefillInv, Request
<1>3. nextChunk' \in 0..ChunkCount(request.length) /\ snapshots' \subseteq 0..CallEnd
  <2>1. ChunkCount(CallEnd) \in 0..ChunkCount(request.length)
    BY <1>2, ChunksGrow
  <2>2. nextChunk \in 0..ChunkCount(request.length) /\ snapshots \subseteq 0..CallEnd
    <3>1. 0..processed \subseteq 0..CallEnd
      BY <1>2
    <3> QED BY <1>2, <3>1 DEF Position
  <2>3. CallEnd \in 0..CallEnd
    BY <1>2
  <2> QED BY <2>1, <2>2, <2>3 DEF Snapshot
<1>4. CallInv'
  BY <1>1, CallIsGood
<1>5. FitOK' /\ PlanCovers' /\ Waiting'
  BY <1>1 DEF PrefillInv, FitOK, Fitted, Steps, PlanCovers, PlannedEnd, Waiting
<1>6. Position'
  BY <1>2, <1>3 DEF Position, Whole, ChunkCount
<1>7. SegmentsOK'
  BY <1>2 DEF SegmentsOK, CacheLimit
<1> QED BY <1>1, <1>4, <1>5, <1>6, <1>7 DEF Inv, PrefillInv, Request, Admitted

\* A step of PromptStep keeps the invariant.
LEMMA PromptStepKeeps == Inv /\ PromptStep => Inv'
<1> SUFFICES ASSUME Inv, PromptStep PROVE Inv'
  OBVIOUS
<1>1. PrefillInv /\ Admitted /\ phase = "prefill"
  BY DEF Inv, PromptStep, Admitted
<1>2. NextStepSize \in Nat /\ NextStepSize < request.length - processed /\ request.length \in Nat /\ processed \in Nat
  BY <1>1, NextCall, RequestFacts DEF Remaining
<1>3. NextStepSize > 0 /\ CallEnd = processed + NextStepSize
  BY <1>2 DEF PromptStep, CallEnd
<1>4. CallEnd < request.length
  BY <1>2, <1>3
<1>5. call' = Calling(CallEnd) /\ processed' = CallEnd /\ Snapshot(CallEnd) /\ phase' = "prefill"
  BY <1>1, <1>3 DEF PromptStep
<1> QED BY <1>1, <1>4, <1>5, CallKeeps DEF PromptStep

\* A step of Generate keeps the invariant.
LEMMA GenerateKeeps == Inv /\ Generate => Inv'
<1> SUFFICES ASSUME Inv, Generate PROVE Inv'
  OBVIOUS
<1>1. CallEnd = request.length
  BY DEF Generate, CallEnd
<1>2. call' = Calling(CallEnd) /\ processed' = CallEnd /\ Snapshot(CallEnd) /\ phase' = "done" /\ phase = "prefill"
  BY <1>1 DEF Generate
<1> QED BY <1>2, CallKeeps DEF Generate

\* A step that changes nothing keeps the invariant.
LEMMA StutterKeeps == Inv /\ UNCHANGED vars => Inv'
BY DEF Inv, vars, PrefillInv, FitOK, Fitted, Steps, Waiting, Untouched, Request, Admitted, SegmentsOK, CacheLimit,
       Position, Whole, ChunkCount, PlanCovers, PlannedEnd, CallInv, ImagesWhole, StepsKept, MemoryWithinCeiling,
       FinishesImage, Planned, Peak, Rounding

\* The state of a prefill (PlannedPrefill and PromptPrefill: the fit of the context, the plan and
\* the position in it) and its calls of the model satisfy the inductive invariant in every reachable state.
THEOREM PrefillInvariant == Spec => []Inv
<1>1. Inv /\ [Next]_vars => Inv'
  <2> SUFFICES ASSUME Inv, [Next]_vars PROVE Inv'
    OBVIOUS
  <2>1. CASE Load
    BY <2>1, LoadKeeps
  <2>2. ASSUME NEW r \in Requests, Admit(r) PROVE Inv'
    BY <2>2, AdmitKeeps
  <2>3. CASE PlanStep
    BY <2>3, PlanStepKeeps
  <2>4. CASE PlanDone
    BY <2>4, PlanDoneKeeps
  <2>5. CASE PromptStep
    BY <2>5, PromptStepKeeps
  <2>6. CASE Generate
    BY <2>6, GenerateKeeps
  <2>7. CASE UNCHANGED vars
    BY <2>7, StutterKeeps
  <2> QED BY <2>1, <2>2, <2>3, <2>4, <2>5, <2>6, <2>7 DEF Next
<1> QED BY <1>1, Initially, PTL DEF Spec

-----------------------------------------------------------------------------
(* The properties of the runs.                                             *)

\* Every variable keeps its type, and the prefill stays within the prompt.
THEOREM PrefillTypeCorrect == Spec => []TypeOK
<1>1. Inv => TypeOK
  <2> SUFFICES ASSUME Inv PROVE TypeOK
    OBVIOUS
  <2>1. PrefillInv /\ fit.steps \in Seq(Nat \ {0}) /\ fit.context \in Nat /\ fit.ceiling \in Int
    BY FitFacts DEF Inv
  <2>2. CASE Admitted
    <3>1. Position /\ SegmentsOK /\ request \in Requests /\ request.length \in Nat
      BY <2>1, <2>2, RequestFacts DEF PrefillInv, Request
    <3> QED BY <2>1, <3>1 DEF TypeOK, PrefillInv, Position, SegmentsOK
  <2>3. CASE ~ Admitted
    <3>1. Untouched /\ request \in Requests \cup {NoRequest}
      BY <2>1, <2>3 DEF PrefillInv, Waiting, Admitted
    <3>2. request.length \in Nat
      BY <3>1, PrefillAssumption DEF NoRequest
    <3>3. ChunkCount(request.length) \in Nat
      BY <3>2, ChunksGrow
    <3>4. segments \in Seq(Segment)
      BY <3>1 DEF Untouched
    <3> QED BY <2>1, <3>1, <3>2, <3>3, <3>4 DEF TypeOK, PrefillInv, Untouched
  <2> QED BY <2>2, <2>3
<1> QED BY <1>1, PrefillInvariant, PTL

\* The plan made for a request covers its prompt once, from larger steps to
\* smaller ones, whatever the memory of the machine.
THEOREM PlanCoversPrompt == Spec => []PlanCovers
<1>1. Inv => PlanCovers
  BY DEF Inv, PrefillInv
<1> QED BY <1>1, PrefillInvariant, PTL

\* prompt_step() always leaves a token for the call that samples.
THEOREM TokenIsLeft == Spec => []SeedLeft
<1>1. Inv => SeedLeft
  BY DEF Inv, PrefillInv, Request, Position, Admitted, SeedLeft
<1> QED BY <1>1, PrefillInvariant, PTL

\* No call of the model begins or ends within an image, and it is given the
\* token types just when it holds one.
THEOREM ImagesAreWhole == Spec => []ImagesWhole
<1>1. Inv => ImagesWhole
  BY DEF Inv, CallInv
<1> QED BY <1>1, PrefillInvariant, PTL

\* No call is longer than its segment's step unless it is all one image.
THEOREM StepsAreKept == Spec => []StepsKept
<1>1. Inv => StepsKept
  BY DEF Inv, CallInv
<1> QED BY <1>1, PrefillInvariant, PTL

\* By the loader's formula no call takes more memory than the safe ceiling,
\* but for the rounding of the last candidate, the raised minimum, and a
\* call that goes on past its segment or step to finish an image.
THEOREM MemoryStaysWithin == Spec => []MemoryWithinCeiling
<1>1. Inv => MemoryWithinCeiling
  BY DEF Inv, CallInv
<1> QED BY <1>1, PrefillInvariant, PTL

\* All of it together: what a prefill may do, for every machine, model,
\* prompt, chunk size and list of candidate steps.
THEOREM CutsAreSafe == Spec => []SafeCuts
<1>1. Spec => [](TypeOK /\ PlanCovers /\ MemoryWithinCeiling
                   /\ ImagesWhole /\ StepsKept /\ SeedLeft)
  BY PrefillTypeCorrect, PlanCoversPrompt, MemoryStaysWithin, ImagesAreWhole,
     StepsAreKept, TokenIsLeft, PTL
<1>2. (TypeOK /\ PlanCovers /\ MemoryWithinCeiling
         /\ ImagesWhole /\ StepsKept /\ SeedLeft) => SafeCuts
  BY DEF SafeCuts
<1> QED BY <1>1, <1>2, PTL

-----------------------------------------------------------------------------
(* Nothing is given away: BestCuts.                                        *)

\* What is left over by a division.
LEMMA Modulo ==
  ASSUME NEW n \in Nat, NEW d \in Nat \ {0}
  PROVE  n % d \in 0..d - 1 /\ n = d * (n \div d) + (n % d)
OBVIOUS

\* The lengths that are whole chunks.
InGrid(n) == n % Chunk = 0

\* A quotient is the only number of whole divisors there is room for.
LEMMA QuotientIs ==
  ASSUME NEW d \in Nat \ {0}, NEW k \in Nat, NEW n \in Nat, d * k <= n, n < d * k + d
  PROVE  n \div d = k
<1>1. PICK q \in Nat : q = n \div d /\ d * q <= n /\ n < d * q + d
  BY Quotient
<1>2. ~ (q + 1 <= k)
  <2> SUFFICES ASSUME q + 1 <= k PROVE FALSE
    OBVIOUS
  <2>1. d * (q + 1) <= d * k
    BY ProductsGrow
  <2>2. d * (q + 1) = d * q + d
    OBVIOUS
  <2>3. d * q \in Nat /\ d * k \in Nat
    OBVIOUS
  <2> QED BY <1>1, <2>1, <2>2, <2>3
<1>3. ~ (k + 1 <= q)
  <2> SUFFICES ASSUME k + 1 <= q PROVE FALSE
    OBVIOUS
  <2>1. d * (k + 1) <= d * q
    BY ProductsGrow
  <2>2. d * (k + 1) = d * k + d
    OBVIOUS
  <2>3. d * q \in Nat /\ d * k \in Nat
    OBVIOUS
  <2> QED BY <1>1, <2>1, <2>2, <2>3
<1> QED BY <1>1, <1>2, <1>3

\* On the grid of chunks are the multiples of a chunk,
LEMMA OnGridIs ==
  ASSUME NEW n \in Nat
  PROVE  InGrid(n) <=> \E k \in Nat : n = Chunk * k
<1>1. Chunk \in Nat \ {0}
  BY PrefillAssumption
<1>2. ASSUME InGrid(n) PROVE \E k \in Nat : n = Chunk * k
  <2>1. n % Chunk = 0
    BY <1>2 DEF InGrid
  <2>2. n = Chunk * (n \div Chunk) + (n % Chunk)
    BY <1>1, Modulo
  <2>3. PICK k \in Nat : k = n \div Chunk
    BY <1>1, Quotient
  <2>4. Chunk * k \in Nat
    BY <1>1
  <2>5. n = Chunk * k
    BY <2>1, <2>2, <2>3, <2>4
  <2> QED BY <2>5
<1>3. ASSUME NEW k \in Nat, n = Chunk * k PROVE InGrid(n)
  <2>1. Chunk * k <= n /\ n < Chunk * k + Chunk
    BY <1>1, <1>3
  <2>2. n \div Chunk = k
    BY <1>1, <2>1, QuotientIs
  <2>3. n = Chunk * (n \div Chunk) + (n % Chunk) /\ n % Chunk \in 0..Chunk - 1
    BY <1>1, Modulo
  <2>4. n = n + (n % Chunk)
    BY <1>3, <2>2, <2>3
  <2>5. n % Chunk = 0
    BY <2>3, <2>4
  <2> QED BY <2>5 DEF InGrid
<1> QED BY <1>2, <1>3

\* and sums
LEMMA GridClosed ==
  ASSUME NEW m \in Nat, NEW n \in Nat, InGrid(m), InGrid(n)
  PROVE  InGrid(m + n)
<1>1. Chunk \in Nat \ {0}
  BY PrefillAssumption
<1>2. PICK j \in Nat, k \in Nat : m = Chunk * j /\ n = Chunk * k
  BY OnGridIs
<1>3. m + n = Chunk * (j + k)
  BY <1>1, <1>2
<1>4. j + k \in Nat /\ m + n \in Nat
  OBVIOUS
<1> QED BY <1>3, <1>4, OnGridIs

\* and products of them.
LEMMA GridMultiple ==
  ASSUME NEW m \in Nat, NEW n \in Nat, InGrid(n)
  PROVE  InGrid(n * m) /\ n * m \in Nat
<1>1. Chunk \in Nat \ {0}
  BY PrefillAssumption
<1>2. PICK k \in Nat : n = Chunk * k
  BY OnGridIs
<1>3. n * m = Chunk * (k * m)
  BY <1>1, <1>2
<1>4. k * m \in Nat /\ n * m \in Nat
  OBVIOUS
<1> QED BY <1>3, <1>4, OnGridIs

\* What is on the grid and before the last token is not after the last chunk.
LEMMA GridBeforeEnd ==
  ASSUME request.length \in Nat \ {0}, NEW n \in Nat, InGrid(n), n < request.length
  PROVE  n <= ReusableEnd
<1>1. Chunk \in Nat \ {0}
  BY PrefillAssumption
<1>2. PICK k \in Nat : n = Chunk * k
  BY OnGridIs
<1>3. request.length - 1 \in Nat
  OBVIOUS
<1>4. PICK c \in Nat : c = (request.length - 1) \div Chunk /\ request.length - 1 < Chunk * c + Chunk
  BY <1>1, <1>3, Quotient
<1>5. ReusableEnd = Chunk * c
  BY <1>1, <1>4 DEF ReusableEnd, ChunkCount
<1>6. k <= c
  <2> SUFFICES ASSUME c + 1 <= k PROVE FALSE
    BY <1>4
  <2>1. Chunk * (c + 1) <= Chunk * k
    BY <1>1, ProductsGrow
  <2>2. Chunk * (c + 1) = Chunk * c + Chunk
    BY <1>1
  <2>3. PICK x \in Nat, y \in Nat : x = Chunk * k /\ y = Chunk * c
    BY <1>1
  <2>4. y + Chunk <= n
    BY <1>2, <2>1, <2>2, <2>3
  <2>5. request.length - 1 < y + Chunk
    BY <1>4, <2>3
  <2> QED BY <1>1, <1>3, <2>3, <2>4, <2>5
<1> QED BY <1>1, <1>2, <1>5, <1>6, ProductsGrow

\* The last chunk boundary another prompt can reuse is before the last token,
\* and less of the prompt has fewer whole chunks.
LEMMA ReusableFacts ==
  ASSUME request.length \in Nat \ {0}
  PROVE  /\ ReusableEnd \in Nat /\ ReusableEnd < request.length
         /\ \A n \in Nat : n < ReusableEnd => ChunkCount(n) < ChunkCount(ReusableEnd)
<1>1. Chunk \in Nat \ {0} /\ request.length - 1 \in Nat
  BY PrefillAssumption
<1>2. PICK c \in Nat : c = (request.length - 1) \div Chunk /\ Chunk * c <= request.length - 1
  BY <1>1, Quotient
<1>3. ReusableEnd = Chunk * c /\ Chunk * c \in Nat
  BY <1>1, <1>2 DEF ReusableEnd, ChunkCount
<1>4. ChunkCount(ReusableEnd) = c
  <2>1. ReusableEnd \div Chunk = c
    <3>1. ReusableEnd \in Nat /\ Chunk * c <= ReusableEnd /\ ReusableEnd < Chunk * c + Chunk
      BY <1>1, <1>3
    <3> QED BY <1>1, <3>1, QuotientIs
  <2> QED BY <2>1 DEF ChunkCount
<1>5. ASSUME NEW n \in Nat, n < ReusableEnd PROVE ChunkCount(n) < c
  <2>1. PICK q \in Nat : q = n \div Chunk /\ Chunk * q <= n
    BY <1>1, Quotient
  <2>2. ~ (c <= q)
    <3> SUFFICES ASSUME c <= q PROVE FALSE
      OBVIOUS
    <3>1. Chunk * c <= Chunk * q /\ Chunk * q \in Nat
      BY <1>1, ProductsGrow
    <3> QED BY <1>3, <1>5, <2>1, <3>1
  <2> QED BY <2>1, <2>2 DEF ChunkCount
<1> QED BY <1>1, <1>2, <1>3, <1>4, <1>5

\* Where a cache is as long as its limit, a block more than it holds does
\* not fit.
LEMMA BlockDoesNotFit ==
  ASSUME NEW p \in CacheFitProfile, NEW s \in Nat, NEW baseline \in Nat, NEW ceiling \in Int,
         NEW length \in Nat, NEW cache \in Nat,
         RequestCacheLimit(p, s, length, ceiling, baseline) <= cache
  PROVE  FixedBytes(p, s, baseline) + p.prompt_input * length
           + p.full_kv * (cache + p.allocation_step) + p.attention * s * (cache + p.allocation_step) > ceiling
<1>1. PICK each \in Nat \ {0}, fixed \in Nat :
        each = CachedTokenBytes(p, s) /\ fixed = FixedBytes(p, s, baseline)
  BY CostsAreNumbers
<1>2. PICK a \in Nat \ {0}, v \in Nat, w \in Nat : a = p.allocation_step /\ v = p.full_kv /\ w = p.attention
  BY DEF CacheFitProfile
<1>3. PICK inputs \in Nat : inputs = p.prompt_input * length
  BY DEF CacheFitProfile
<1>4. PICK bytes \in Int : bytes = ceiling - fixed - inputs
  OBVIOUS
<1>5. PICK free \in Nat : free = LargerOf(0, bytes) /\ bytes <= free
  BY DEF LargerOf
<1>6. PICK t \in Nat : t = free \div each /\ free < each * t + each
  BY Quotient
<1>7. PICK r \in Nat : r = t \div a /\ t < a * r + a
  BY <1>2, Quotient
<1>8. a * r <= cache
  <2>1. RequestCacheLimit(p, s, length, ceiling, baseline) = (t \div a) * a
    BY <1>1, <1>2, <1>3, <1>4, <1>5, <1>6 DEF RequestCacheLimit, RoundDown, TokensFit
  <2>2. r * a = a * r
    BY <1>2
  <2> QED BY <1>7, <2>1, <2>2
<1>9. t + 1 <= cache + a
  <2>1. a * r \in Nat
    BY <1>2
  <2> QED BY <1>2, <1>7, <1>8, <2>1
<1>10. each * (t + 1) <= each * (cache + a)
  BY <1>2, <1>9, ProductsGrow
<1>11. each * (t + 1) = each * t + each /\ each * t \in Nat
  OBVIOUS
<1>12. bytes < each * (cache + a)
  <2>1. each * (cache + a) \in Nat
    BY <1>2
  <2> QED BY <1>5, <1>6, <1>10, <1>11, <2>1
<1>13. each * (cache + a) = v * (cache + a) + w * s * (cache + a)
  <2>1. each = v + w * s /\ w * s \in Nat
    BY <1>1, <1>2, CostsAreNumbers
  <2>2. PICK x \in Nat : x = w * s
    BY <2>1
  <2>3. PICK y \in Nat : y = cache + a
    BY <1>2
  <2>4. (v + x) * y = v * y + x * y
    OBVIOUS
  <2> QED BY <2>1, <2>2, <2>3, <2>4
<1>14. ceiling < fixed + inputs + each * (cache + a)
  <2>1. PICK z \in Nat : z = each * (cache + a)
    BY <1>2
  <2> QED BY <1>4, <1>12, <2>1
<1>15. ceiling < fixed + inputs + (v * (cache + a) + w * s * (cache + a))
  BY <1>13, <1>14
<1>16. PICK x \in Nat, y \in Nat : x = v * (cache + a) /\ y = w * s * (cache + a)
  <2>1. w * s \in Nat /\ cache + a \in Nat
    BY <1>2
  <2> QED BY <1>2, <2>1
<1>17. ceiling < fixed + inputs + x + y
  BY <1>15, <1>16
<1> QED BY <1>1, <1>2, <1>3, <1>16, <1>17

\* A plan goes to a smaller step only where the larger ones' caches are full.
BestSegments ==
  /\ \A k \in DOMAIN segments : \A i, j \in DOMAIN fit.steps :
       segments[k].step = fit.steps[i] /\ j < i => CacheLimit(fit.steps[j]) <= SegmentStart(k)
  /\ phase = "plan" => \A j \in DOMAIN fit.steps :
       j < step => SmallerOf(request.length, CacheLimit(fit.steps[j])) <= PlannedEnd

\* With steps and cache blocks of whole chunks the segments end on chunks.
SegmentsOnGrid ==
  OnGrid => \A k \in DOMAIN segments : segments[k].end = request.length \/ InGrid(segments[k].end)

\* The boundary to be saved was restored, has been saved, or is still to come.
ReusableEndAhead ==
  request.saving /\ Opaque(model) /\ ~ model.whole /\ OnGrid =>
    /\ request.images = {}
    /\ ReusableEnd <= restored \/ ReusableEnd \in snapshots \/ processed < ReusableEnd

\* Nothing is given away: the invariant, over that of SafeCuts.
BestInv ==
  /\ LargestStepThatFits
  /\ Admitted =>
       /\ BestSegments /\ SegmentsOnGrid /\ ReusableEndAhead
       /\ ~ model.whole => nextChunk <= ChunkCount(processed)
       /\ phase = "done" => processed = request.length

\* The segment the next call is in has begun, and has not ended.
LEMMA ActiveIs ==
  ASSUME PrefillInv, phase = "prefill", segments # <<>>
  PROVE  \E k \in DOMAIN segments :
           /\ Active = [start |-> SegmentStart(k), end |-> segments[k].end, step |-> segments[k].step]
           /\ SegmentStart(k) \in Nat /\ SegmentStart(k) <= processed /\ processed < segments[k].end
           /\ k # 1 => k - 1 \in DOMAIN segments /\ SegmentStart(k) = segments[k - 1].end
<1> Admitted
  BY DEF Admitted
<1> DEFINE later == {i \in DOMAIN segments : processed < segments[i].end}
<1>1. segments \in Seq(Segment) /\ fit # NoFit
  BY DEF PrefillInv, Request, SegmentsOK
<1>2. processed < request.length /\ processed \in Nat /\ request.length \in Nat
  BY RequestFacts DEF PrefillInv, Request, Position
<1>3. PlannedEnd = request.length
  BY <1>1, FitFacts DEF PrefillInv, PlanCovers
<1>4. Len(segments) \in later /\ later \subseteq Nat
  BY <1>1, <1>2, <1>3 DEF PlannedEnd, Last
<1>5. \E i \in later : \A j \in later : i <= j
  BY <1>4, Least
<1>6. PICK k : k = ActiveIndex
  OBVIOUS
<1>7. k = CHOOSE i \in later : \A j \in later : i <= j
  BY <1>4, <1>6 DEF ActiveIndex
<1>8. k \in later /\ \A j \in later : k <= j
  BY <1>5, <1>7
<1>9. k \in DOMAIN segments /\ processed < segments[k].end
  BY <1>8
<1>10. Active = [start |-> SegmentStart(k), end |-> segments[k].end, step |-> segments[k].step]
  BY <1>6 DEF Active
<1>11. CASE k = 1
  BY <1>2, <1>9, <1>10, <1>11 DEF SegmentStart
<1>12. CASE k # 1
  <2>1. k - 1 \in DOMAIN segments /\ ~ (k <= k - 1) /\ k \in Nat
    BY <1>1, <1>9, <1>12
  <2>2. k - 1 \notin later
    <3> HIDE DEF later
    <3>1. PICK j : j = k - 1
      OBVIOUS
    <3> QED BY <1>8, <2>1, <3>1
  <2>3. ~ (processed < segments[k - 1].end)
    BY <2>1, <2>2
  <2>4. segments[k - 1].end \in Nat
    <3>1. PICK j \in DOMAIN segments : j = k - 1
      BY <2>1
    <3> QED BY <3>1, SegmentFacts
  <2>5. SegmentStart(k) = segments[k - 1].end
    BY <1>12 DEF SegmentStart
  <2> QED BY <1>2, <1>9, <1>10, <2>1, <2>3, <2>4, <2>5
<1> QED BY <1>11, <1>12

\* A call of a smaller step than the largest begins where that one's cache is
\* full.
LEMMA CallIsLargest ==
  ASSUME PrefillInv, phase = "prefill", BestSegments, call' = Calling(CallEnd), UNCHANGED <<model, fit, request>>
  PROVE  LargestStepThatFits'
<1> Admitted
  BY DEF Admitted
<1>1. call'.from = processed /\ call'.step = Active.step
  BY DEF Calling
<1> SUFFICES ASSUME fit # NoFit, NEW i \in 2..Len(fit.steps), Active.step = fit.steps[i]
             PROVE  Peak(fit.steps[i - 1], fit.steps[i - 1], processed + fit.profile.allocation_step) > fit.ceiling
  BY <1>1, FitFacts DEF LargestStepThatFits, Planned, Peak
<1>2. /\ fit.profile \in CacheFitProfile /\ fit.steps \in Seq(Nat \ {0}) /\ fit.ceiling \in Int /\ model.baseline \in Nat
      /\ processed \in Nat /\ request.length \in Nat \ {0}
  BY FitFacts, RequestFacts
<1>3. i \in DOMAIN fit.steps /\ i - 1 \in DOMAIN fit.steps /\ i - 1 < i
  BY <1>2
<1>4. PICK s \in Nat : s = fit.steps[i - 1]
  BY <1>2, <1>3
<1>5. segments # <<>>
  <2>1. PlannedEnd = request.length
    BY FitFacts DEF PrefillInv, PlanCovers
  <2> QED BY <1>2, <2>1 DEF PlannedEnd
<1>6. PICK k \in DOMAIN segments :
        /\ Active = [start |-> SegmentStart(k), end |-> segments[k].end, step |-> segments[k].step]
        /\ SegmentStart(k) \in Nat /\ SegmentStart(k) <= processed
  BY <1>5, ActiveIs
<1>7. segments[k].step = fit.steps[i]
  BY <1>6
<1>8. CacheLimit(s) <= SegmentStart(k)
  BY <1>3, <1>4, <1>7 DEF BestSegments
<1>9. CacheLimit(s) <= processed
  <2>1. CacheLimit(s) \in Nat
    BY LimitIsNumber
  <2> QED BY <1>2, <1>6, <1>8, <2>1
<1>10. RequestCacheLimit(fit.profile, s, request.length, fit.ceiling, model.baseline) <= processed
  BY <1>9 DEF CacheLimit
<1>11. PICK p \in CacheFitProfile, c \in Int, b \in Nat, l \in Nat :
         p = fit.profile /\ c = fit.ceiling /\ b = model.baseline /\ l = request.length
  BY <1>2
<1>12. FixedBytes(p, s, b) + p.prompt_input * l
         + p.full_kv * (processed + p.allocation_step) + p.attention * s * (processed + p.allocation_step) > c
  BY <1>2, <1>10, <1>11, BlockDoesNotFit
<1>13. Peak(s, s, processed + p.allocation_step) > c
  BY <1>11, <1>12 DEF Peak
<1> QED BY <1>4, <1>11, <1>13

-----------------------------------------------------------------------------
\* Where a segment starts depends on the ones before it.
LEMMA StartsKept ==
  ASSUME NEW t, NEW n \in Nat, segments' = t, \A i \in 1..n : t[i].end = segments[i].end
  PROVE  \A k \in 1..n + 1 : SegmentStart(k)' = SegmentStart(k)
<1> TAKE k \in 1..n + 1
<1>1. CASE k = 1
  BY <1>1 DEF SegmentStart
<1>2. CASE k # 1
  <2>1. k - 1 \in 1..n
    BY <1>2
  <2> QED BY <1>2, <2>1 DEF SegmentStart
<1> QED BY <1>1, <1>2

\* A cache limit is whole blocks, so on the grid when the blocks are.
LEMMA LimitOnGrid ==
  ASSUME PrefillInv, Admitted, fit # NoFit, OnGrid, NEW s \in Nat
  PROVE  InGrid(CacheLimit(s))
<1> DEFINE q == fit.profile
           fixed == FixedBytes(q, s, model.baseline)
           inputs == q.prompt_input * request.length
<1>1. q \in CacheFitProfile /\ fit.ceiling \in Int /\ model.baseline \in Nat /\ request.length \in Nat
  BY FitFacts, RequestFacts
<1>2. CachedTokenBytes(q, s) \in Nat \ {0} /\ fixed \in Nat
  BY <1>1, CostsAreNumbers
<1>3. inputs \in Nat
  BY <1>1 DEF CacheFitProfile
<1>4. q.allocation_step \in Nat \ {0} /\ InGrid(q.allocation_step)
  <2>1. fit.steps # <<>>
    BY FitFacts
  <2> QED BY <1>1, <2>1 DEF OnGrid, InGrid, CacheFitProfile
<1> HIDE DEF q, fixed, inputs
<1>5. fit.ceiling - fixed - inputs \in Int
  BY <1>1, <1>2, <1>3
<1>6. PICK t \in Nat : t = TokensFit(fit.ceiling - fixed - inputs, CachedTokenBytes(q, s))
  BY <1>2, <1>5, Fitting
<1>7. PICK a \in Nat \ {0}, m \in Nat : a = q.allocation_step /\ m = t \div a
  <2>1. t \div q.allocation_step \in Nat
    BY <1>4, Quotient
  <2> QED BY <1>4, <2>1
<1>8. RoundDown(t, q) = a * m
  <2>1. RoundDown(t, q) = m * a
    BY <1>7 DEF RoundDown
  <2>2. m * a = a * m
    OBVIOUS
  <2> QED BY <2>1, <2>2
<1>9. InGrid(a * m)
  BY <1>4, <1>7, GridMultiple
<1>10. CacheLimit(s) = RoundDown(t, q)
  BY <1>6 DEF CacheLimit, RequestCacheLimit, q, fixed, inputs
<1> QED BY <1>8, <1>9, <1>10

\* What a step that plans leaves alone.
LEMMA PlanningKeepsRest ==
  ASSUME Inv, BestInv, phase = "plan", phase' \in {"plan", "prefill"},
         UNCHANGED <<model, fit, request, restored, processed, call, nextChunk, snapshots>>
  PROVE  /\ LargestStepThatFits' /\ ReusableEndAhead' /\ (OnGrid' <=> OnGrid)
         /\ (~ model.whole => nextChunk <= ChunkCount(processed))'
         /\ (phase = "done" => processed = request.length)'
         /\ Admitted
<1>1. Admitted
  BY DEF Admitted
<1>2. call = NoCall
  BY <1>1 DEF Inv, PrefillInv, Request, Position
<1>3. LargestStepThatFits'
  BY <1>2 DEF LargestStepThatFits, Planned
<1>4. OnGrid' <=> OnGrid
  BY DEF OnGrid
<1>5. ReusableEnd' = ReusableEnd
  BY DEF ReusableEnd, ChunkCount
<1>6. ReusableEndAhead'
  BY <1>1, <1>4, <1>5 DEF BestInv, ReusableEndAhead
<1>7. (~ model.whole => nextChunk <= ChunkCount(processed))'
  BY <1>1 DEF BestInv, ChunkCount
<1> QED BY <1>1, <1>3, <1>4, <1>6, <1>7

\* A candidate step adds its segment, if its cache reaches further.
LEMMA PlanStepBest == Inv /\ BestInv /\ PlanStep => BestInv'
<1> SUFFICES ASSUME Inv, BestInv, PlanStep PROVE BestInv'
  OBVIOUS
<1>1. PrefillInv /\ Admitted /\ phase = "plan" /\ BestSegments /\ SegmentsOnGrid
  BY DEF Inv, BestInv, PlanStep, Admitted
<1>2. /\ step \in 1..Len(fit.steps) /\ PlannedEnd < request.length
      /\ step' = step + 1 /\ segments' = WithStep(fit.steps[step])
      /\ UNCHANGED <<model, fit, request, phase, restored, processed, call, nextChunk, snapshots>>
  <2>1. step \in Nat \ {0} /\ Len(fit.steps) \in Nat
    BY <1>1, FitFacts DEF PrefillInv
  <2> QED BY <2>1 DEF PlanStep
<1>3. fit # NoFit /\ segments \in Seq(Segment)
  BY <1>1 DEF PrefillInv, Request, SegmentsOK
<1>4. /\ fit.steps \in Seq(Nat \ {0}) /\ Len(fit.steps) \in Nat
      /\ \A i, j \in DOMAIN fit.steps : i < j => fit.steps[j] < fit.steps[i]
  BY <1>1, <1>3, FitFacts
<1>5. PICK s \in Nat \ {0} : s = fit.steps[step]
  BY <1>2, <1>4
<1>6. PICK e \in Nat, c \in Nat, l \in Nat : e = PlannedEnd /\ c = CacheLimit(s) /\ l = request.length
  BY <1>1, <1>3, RequestFacts, LimitIsNumber
<1>7. PICK end \in Nat : /\ end = LargerOf(e, SmallerOf(l, c))
                         /\ SmallerOf(l, c) <= end
                         /\ end > e => end = l \/ end = c
                         /\ end >= e
  BY DEF LargerOf, SmallerOf
<1>8. segments' = IF end > e THEN Append(segments, [end |-> end, step |-> s]) ELSE segments
  BY <1>2, <1>5, <1>6, <1>7 DEF WithStep
<1>9. /\ LargestStepThatFits' /\ ReusableEndAhead' /\ (OnGrid' <=> OnGrid)
      /\ (~ model.whole => nextChunk <= ChunkCount(processed))'
      /\ (phase = "done" => processed = request.length)'
  BY <1>1, <1>2, PlanningKeepsRest
<1>10. ASSUME NEW j PROVE CacheLimit(fit.steps[j])' = CacheLimit(fit.steps[j])
  BY <1>2 DEF CacheLimit
\* What the boundary planned so far has passed.
<1>11. ASSUME NEW j \in DOMAIN fit.steps, j < step PROVE SmallerOf(l, CacheLimit(fit.steps[j])) <= e
  BY <1>1, <1>6, <1>11 DEF BestSegments
<1>12. ASSUME NEW j \in DOMAIN fit.steps, j < step PROVE CacheLimit(fit.steps[j]) <= e
  <2>1. PICK d \in Nat : d = CacheLimit(fit.steps[j])
    <3>1. fit.steps[j] \in Nat
      BY <1>4
    <3> QED BY <1>1, <1>3, <3>1, LimitIsNumber
  <2>2. SmallerOf(l, d) <= e /\ e < l
    BY <1>2, <1>6, <1>11, <1>12, <2>1
  <2> QED BY <2>1, <2>2 DEF SmallerOf
<1>13. ASSUME PlannedEnd' = end
       PROVE  (\A j \in DOMAIN fit.steps : j < step => SmallerOf(request.length, CacheLimit(fit.steps[j])) <= PlannedEnd)'
  <2> SUFFICES ASSUME NEW j \in DOMAIN fit.steps, j < step + 1
               PROVE  SmallerOf(l, CacheLimit(fit.steps[j])) <= end
    BY <1>2, <1>6, <1>10, <1>13
  <2>1. j \in Nat /\ step \in Nat
    BY <1>2, <1>4
  <2>2. CASE j = step
    BY <1>5, <1>6, <1>7, <2>2
  <2>3. CASE j < step
    <3>1. PICK d \in Nat : d = CacheLimit(fit.steps[j])
      <4>1. fit.steps[j] \in Nat
        BY <1>4
      <4> QED BY <1>1, <1>3, <4>1, LimitIsNumber
    <3>2. SmallerOf(l, d) <= e
      BY <1>11, <2>3, <3>1
    <3> QED BY <1>7, <3>1, <3>2 DEF SmallerOf
  <2> QED BY <2>1, <2>2, <2>3
<1>14. CASE ~ (end > e)
  <2>1. segments' = segments
    BY <1>8, <1>14
  <2>2. PlannedEnd' = PlannedEnd /\ \A k : SegmentStart(k)' = SegmentStart(k)
    BY <2>1 DEF PlannedEnd, SegmentStart
  <2>3. PlannedEnd' = end
    BY <1>6, <1>7, <1>14, <2>2
  <2>4. BestSegments'
    <3>1. (\A k \in DOMAIN segments : \A i, j \in DOMAIN fit.steps :
             segments[k].step = fit.steps[i] /\ j < i => CacheLimit(fit.steps[j]) <= SegmentStart(k))'
      BY <1>1, <1>2, <1>10, <2>1, <2>2 DEF BestSegments
    <3> QED BY <1>13, <2>3, <3>1 DEF BestSegments
  <2>5. SegmentsOnGrid'
    BY <1>1, <1>2, <1>9, <2>1 DEF SegmentsOnGrid
  <2> QED BY <1>9, <2>4, <2>5 DEF BestInv
<1>15. CASE end > e
  <2>1. PICK new : new = [end |-> end, step |-> s] /\ new.end = end /\ new.step = s
    <3>1. PICK new : new = [end |-> end, step |-> s]
      OBVIOUS
    <3> QED BY <3>1
  <2>2. new \in Segment
    BY <1>15, <2>1 DEF Segment
  <2>3. PICK n \in Nat : n = Len(segments) /\ DOMAIN segments = 1..n
    BY <1>3
  <2>4. /\ segments' \in Seq(Segment) /\ Len(segments') = n + 1 /\ DOMAIN segments' = 1..n + 1
        /\ \A i \in 1..n : segments'[i] = segments[i]
        /\ segments'[n + 1] = new
    BY <1>3, <1>8, <1>15, <2>1, <2>2, <2>3
  <2>5. PlannedEnd' = end
    <3>1. segments' # <<>> /\ Last(segments') = new
      BY <2>4 DEF Last
    <3> QED BY <2>1, <3>1 DEF PlannedEnd
  <2>6. \A k \in 1..n + 1 : SegmentStart(k)' = SegmentStart(k)
    <3>1. \A i \in 1..n : segments'[i].end = segments[i].end
      BY <2>4
    <3>2. PICK t : t = segments'
      OBVIOUS
    <3>3. segments' = t /\ \A i \in 1..n : t[i].end = segments[i].end
      BY <3>1, <3>2
    <3> QED BY <3>3, StartsKept
  <2>7. SegmentStart(n + 1) = e
    BY <1>6, <2>3 DEF SegmentStart, PlannedEnd, Last
  <2>8. ASSUME NEW k \in 1..n + 1, NEW i \in DOMAIN fit.steps, NEW j \in DOMAIN fit.steps,
               segments'[k].step = fit.steps[i], j < i
        PROVE  CacheLimit(fit.steps[j]) <= SegmentStart(k)'
    <3>1. CASE k \in 1..n
      BY <1>1, <2>3, <2>4, <2>6, <2>8, <3>1 DEF BestSegments
    <3>2. CASE k = n + 1
      <4>1. fit.steps[i] = fit.steps[step]
        BY <1>5, <2>1, <2>4, <2>8, <3>2
      <4>2. i = step
        <5>1. i \in Nat /\ step \in Nat /\ step \in DOMAIN fit.steps /\ fit.steps[step] \in Nat
          <6>1. DOMAIN fit.steps = 1..Len(fit.steps)
            BY <1>4
          <6>2. step \in DOMAIN fit.steps /\ step \in Nat /\ i \in Nat
            BY <1>2, <1>4, <6>1
          <6> QED BY <1>5, <6>2
        <5>2. ~ (i < step) /\ ~ (step < i)
          BY <1>4, <4>1, <5>1
        <5> QED BY <5>1, <5>2
      <4>3. CacheLimit(fit.steps[j]) <= e
        BY <1>12, <2>8, <4>2
      <4> QED BY <2>6, <2>7, <3>2, <4>3
    <3> QED BY <3>1, <3>2
  <2>9. BestSegments'
    <3>1. (\A k \in DOMAIN segments : \A i, j \in DOMAIN fit.steps :
             segments[k].step = fit.steps[i] /\ j < i => CacheLimit(fit.steps[j]) <= SegmentStart(k))'
      BY <1>2, <1>10, <2>4, <2>8
    <3> QED BY <1>13, <2>5, <3>1 DEF BestSegments
  <2>10. SegmentsOnGrid'
    <3> SUFFICES ASSUME OnGrid, NEW k \in 1..n + 1
                 PROVE  segments'[k].end = l \/ InGrid(segments'[k].end)
      BY <1>2, <1>6, <1>9, <2>4 DEF SegmentsOnGrid, InGrid
    <3>1. CASE k \in 1..n
      BY <1>1, <1>6, <2>3, <2>4, <3>1 DEF SegmentsOnGrid
    <3>2. CASE k = n + 1
      <4>1. segments'[k].end = end /\ (end = l \/ end = c)
        BY <1>7, <1>15, <2>1, <2>4, <3>2
      <4>2. InGrid(c)
        BY <1>1, <1>3, <1>6, LimitOnGrid
      <4> QED BY <4>1, <4>2
    <3> QED BY <3>1, <3>2
  <2> QED BY <1>9, <2>9, <2>10 DEF BestInv
<1> QED BY <1>14, <1>15

\* The last candidate takes what is left of the prompt.
LEMMA PlanDoneBest == Inv /\ BestInv /\ PlanDone => BestInv'
<1> SUFFICES ASSUME Inv, BestInv, PlanDone PROVE BestInv'
  OBVIOUS
<1>1. PrefillInv /\ Admitted /\ phase = "plan" /\ BestSegments /\ SegmentsOnGrid
  BY DEF Inv, BestInv, PlanDone, Admitted
<1>2. /\ segments' = Extended /\ phase' = "prefill"
      /\ step > Len(fit.steps) \/ PlannedEnd = request.length
      /\ UNCHANGED <<model, fit, request, step, restored, processed, call, nextChunk, snapshots>>
  BY DEF PlanDone
<1>3. fit # NoFit /\ segments \in Seq(Segment)
  BY <1>1 DEF PrefillInv, Request, SegmentsOK
<1>4. /\ fit.steps \in Seq(Nat \ {0}) /\ Len(fit.steps) \in Nat \ {0} /\ step \in Nat
  BY <1>1, <1>3, FitFacts DEF PrefillInv
<1>5. PICK s \in Nat \ {0} : s = Last(fit.steps)
  BY <1>4 DEF Last
<1>6. PICK e \in Nat, l \in Nat \ {0} : e = PlannedEnd /\ l = request.length /\ e <= l
  BY <1>1, RequestFacts
<1>7. PICK n \in Nat : n = Len(segments) /\ DOMAIN segments = 1..n
  BY <1>3
<1>8. PICK rest : rest = [end |-> l, step |-> s] /\ rest.end = l /\ rest.step = s
  <2>1. PICK rest : rest = [end |-> l, step |-> s]
    OBVIOUS
  <2> QED BY <2>1
<1>9. rest \in Segment
  BY <1>8 DEF Segment
<1>10. segments' = IF e = l THEN segments
                   ELSE IF segments # <<>> /\ Last(segments).step = s THEN [segments EXCEPT ![n] = rest]
                   ELSE Append(segments, rest)
  BY <1>2, <1>5, <1>6, <1>7, <1>8 DEF Extended
<1>11. /\ LargestStepThatFits' /\ ReusableEndAhead' /\ (OnGrid' <=> OnGrid)
       /\ (~ model.whole => nextChunk <= ChunkCount(processed))'
       /\ (phase = "done" => processed = request.length)'
  BY <1>1, <1>2, PlanningKeepsRest
<1>12. ASSUME NEW j PROVE CacheLimit(fit.steps[j])' = CacheLimit(fit.steps[j])
  BY <1>2 DEF CacheLimit
\* The steps of the plan start where they did, and what it ends with is the prompt's end.
<1>13. ASSUME NEW k \in Nat, k <= n, DOMAIN segments' = 1..k \/ DOMAIN segments' = 1..k + 1,
              \A i \in 1..k : segments'[i] = segments[i],
              k + 1 \in DOMAIN segments' =>
                /\ segments'[k + 1].end = l
                /\ \A i, j \in DOMAIN fit.steps :
                     segments'[k + 1].step = fit.steps[i] /\ j < i => CacheLimit(fit.steps[j]) <= SegmentStart(k + 1)
       PROVE  BestInv'
  <2>1. \A h \in 1..k + 1 : SegmentStart(h)' = SegmentStart(h)
    <3>1. \A i \in 1..k : segments'[i].end = segments[i].end
      BY <1>13
    <3>2. PICK t : t = segments'
      OBVIOUS
    <3>3. segments' = t /\ \A i \in 1..k : t[i].end = segments[i].end
      BY <3>1, <3>2
    <3> QED BY <3>3, StartsKept
  <2>2. \A h \in 1..k : h \in DOMAIN segments
    BY <1>7, <1>13
  <2>3. ASSUME NEW h \in DOMAIN segments', NEW i \in DOMAIN fit.steps, NEW j \in DOMAIN fit.steps,
               segments'[h].step = fit.steps[i], j < i
        PROVE  CacheLimit(fit.steps[j]) <= SegmentStart(h)'
    <3>1. h \in 1..k + 1
      BY <1>13
    <3>2. CASE h \in 1..k
      BY <1>1, <1>13, <2>1, <2>2, <2>3, <3>1, <3>2 DEF BestSegments
    <3>3. CASE h = k + 1
      BY <1>13, <2>1, <2>3, <3>1, <3>3
    <3> QED BY <3>1, <3>2, <3>3
  <2>4. (\A h \in DOMAIN segments : \A i, j \in DOMAIN fit.steps :
           segments[h].step = fit.steps[i] /\ j < i => CacheLimit(fit.steps[j]) <= SegmentStart(h))'
    BY <1>2, <1>12, <2>3
  <2>5. BestSegments'
    BY <1>2, <2>4 DEF BestSegments
  <2>6. SegmentsOnGrid'
    <3> SUFFICES ASSUME OnGrid, NEW h \in DOMAIN segments'
                 PROVE  segments'[h].end = l \/ InGrid(segments'[h].end)
      BY <1>2, <1>6, <1>11 DEF SegmentsOnGrid, InGrid
    <3>1. h \in 1..k + 1
      BY <1>13
    <3>2. CASE h \in 1..k
      BY <1>1, <1>6, <1>13, <2>2, <3>2 DEF SegmentsOnGrid
    <3>3. CASE h = k + 1
      BY <1>13, <3>3
    <3> QED BY <3>1, <3>2, <3>3
  <2> QED BY <1>11, <2>5, <2>6 DEF BestInv
<1>14. CASE e = l
  <2>1. segments' = segments /\ DOMAIN segments' = 1..n /\ n + 1 \notin 1..n
    BY <1>7, <1>10, <1>14
  <2> QED BY <1>13, <2>1
<1>15. CASE e # l /\ segments # <<>> /\ Last(segments).step = s
  <2>1. segments' = [segments EXCEPT ![n] = rest]
    BY <1>10, <1>15
  <2>2. PICK k \in Nat : n = k + 1 /\ k <= n /\ n \in DOMAIN segments
    <3>1. n - 1 \in Nat /\ n = (n - 1) + 1 /\ n - 1 <= n /\ n \in DOMAIN segments
      BY <1>3, <1>7, <1>15
    <3> QED BY <3>1
  <2>3. segments[n].step = s
    BY <1>7, <1>15 DEF Last
  <2>4. DOMAIN segments' = 1..k + 1 /\ segments'[n] = rest /\ \A i \in 1..k : segments'[i] = segments[i]
    <3>1. \A i \in 1..k : i \in DOMAIN segments /\ i # n
      BY <1>7, <2>2
    <3>2. DOMAIN segments' = DOMAIN segments
      BY <2>1
    <3> QED BY <1>7, <2>1, <2>2, <3>1, <3>2
  <2>5. \A i, j \in DOMAIN fit.steps :
          segments'[k + 1].step = fit.steps[i] /\ j < i => CacheLimit(fit.steps[j]) <= SegmentStart(k + 1)
    BY <1>1, <1>8, <2>2, <2>3, <2>4 DEF BestSegments
  <2>6. segments'[k + 1].end = l
    BY <1>8, <2>2, <2>4
  <2> QED BY <1>13, <2>2, <2>4, <2>5, <2>6
<1>16. CASE e # l /\ ~ (segments # <<>> /\ Last(segments).step = s)
  <2>1. segments' = Append(segments, rest)
    BY <1>10, <1>16
  <2>2. DOMAIN segments' = 1..n + 1 /\ segments'[n + 1] = rest /\ \A i \in 1..n : segments'[i] = segments[i]
    BY <1>3, <1>7, <1>9, <2>1
  <2>3. SegmentStart(n + 1) = e
    BY <1>6, <1>7, <1>3 DEF SegmentStart, PlannedEnd, Last
  <2>4. e < l /\ step > Len(fit.steps)
    BY <1>2, <1>6, <1>16
  <2>5. ASSUME NEW j \in DOMAIN fit.steps PROVE CacheLimit(fit.steps[j]) <= e
    <3>1. j < step /\ fit.steps[j] \in Nat
      BY <1>4, <2>4
    <3>2. PICK d \in Nat : d = CacheLimit(fit.steps[j])
      BY <1>1, <1>3, <3>1, LimitIsNumber
    <3>3. SmallerOf(l, d) <= e
      BY <1>1, <1>6, <3>1, <3>2 DEF BestSegments
    <3> QED BY <2>4, <3>2, <3>3 DEF SmallerOf
  <2>6. \A i, j \in DOMAIN fit.steps :
          segments'[n + 1].step = fit.steps[i] /\ j < i => CacheLimit(fit.steps[j]) <= SegmentStart(n + 1)
    BY <2>3, <2>5
  <2>7. segments'[n + 1].end = l
    BY <1>8, <2>2
  <2>8. n <= n
    OBVIOUS
  <2> QED BY <1>13, <2>2, <2>6, <2>7, <2>8
<1> QED BY <1>14, <1>15, <1>16

\* The segment of a call lies on the grid, but for the end of the prompt.
LEMMA ActiveOnGrid ==
  ASSUME PrefillInv, phase = "prefill", SegmentsOnGrid, OnGrid
  PROVE  /\ Active.step \in Nat \ {0} /\ InGrid(Active.step)
         /\ Active.start \in Nat /\ InGrid(Active.start) /\ Active.start <= processed
         /\ Active.end \in Nat /\ processed < Active.end /\ Active.end <= request.length
         /\ Active.end = request.length \/ InGrid(Active.end)
<1> Admitted
  BY DEF Admitted
<1>1. InGrid(0)
  <2>1. Chunk \in Nat \ {0} /\ 0 = Chunk * 0
    BY PrefillAssumption
  <2> QED BY <2>1, OnGridIs
<1>2. /\ Active.step \in Nat \ {0} /\ Active.end \in Nat /\ Active.start \in Nat
      /\ processed < Active.end /\ Active.end <= request.length
  BY ActiveFacts
<1>3. processed \in Nat /\ request.length \in Nat \ {0}
  BY RequestFacts
<1>4. CASE segments = <<>>
  <2>1. Active = [start |-> 0, end |-> request.length, step |-> model.prefill_step]
    BY <1>4 DEF Active
  <2>2. Active.start = 0 /\ Active.end = request.length /\ Active.step = model.prefill_step
    BY <2>1
  <2>3. InGrid(model.prefill_step)
    BY DEF OnGrid, InGrid
  <2> QED BY <1>1, <1>2, <1>3, <2>2, <2>3
<1>5. CASE segments # <<>>
  <2>1. PICK k \in DOMAIN segments :
          /\ Active = [start |-> SegmentStart(k), end |-> segments[k].end, step |-> segments[k].step]
          /\ SegmentStart(k) \in Nat /\ SegmentStart(k) <= processed
          /\ k # 1 => k - 1 \in DOMAIN segments /\ SegmentStart(k) = segments[k - 1].end
    BY <1>5, ActiveIs
  <2>2. Active.start = SegmentStart(k) /\ Active.end = segments[k].end /\ Active.step = segments[k].step
    BY <2>1
  <2>3. Active.end = request.length \/ InGrid(Active.end)
    BY <2>2 DEF SegmentsOnGrid
  <2>4. InGrid(Active.step)
    <3>1. PICK j \in DOMAIN fit.steps : segments[k].step = fit.steps[j]
      BY DEF PrefillInv, Request, SegmentsOK
    <3> QED BY <2>2, <3>1 DEF OnGrid, InGrid
  <2>5. InGrid(Active.start)
    <3>1. CASE k = 1
      BY <1>1, <2>2, <3>1 DEF SegmentStart
    <3>2. CASE k # 1
      <4>1. PICK h \in DOMAIN segments : h = k - 1 /\ SegmentStart(k) = segments[h].end
        BY <2>1, <3>2
      <4>2. SegmentStart(k) # request.length
        BY <1>2, <1>3, <2>1
      <4>3. segments[h].end = request.length \/ InGrid(segments[h].end)
        BY DEF SegmentsOnGrid
      <4> QED BY <2>2, <4>1, <4>2, <4>3
    <3> QED BY <3>1, <3>2
  <2> QED BY <1>2, <2>1, <2>2, <2>3, <2>4, <2>5
<1> QED BY <1>4, <1>5

\* After the alignment the prefill is on the grid again.
LEMMA AlignedIs ==
  ASSUME NEW s \in Nat \ {0}, NEW b \in Nat, NEW p \in Nat, b <= p, InGrid(s), InGrid(b)
  PROVE  \E a \in 1..s : a = s - ((p - b) % s) /\ InGrid(p + a)
<1>1. PICK d \in Nat : d = p - b /\ p = b + d
  <2>1. p - b \in Nat /\ p = b + (p - b)
    OBVIOUS
  <2> QED BY <2>1
<1>2. PICK m \in 0..s - 1, q \in Nat : m = d % s /\ q = d \div s /\ d = s * q + m
  <2>1. d % s \in 0..s - 1 /\ d = s * (d \div s) + (d % s) /\ d \div s \in Nat
    BY Modulo, Quotient
  <2> QED BY <2>1
<1>3. PICK a \in 1..s : a = s - m
  <2>1. s - m \in 1..s
    OBVIOUS
  <2> QED BY <2>1
<1>4. PICK g \in Nat : g = s * (q + 1) /\ InGrid(g)
  <2>1. q + 1 \in Nat
    OBVIOUS
  <2>2. InGrid(s * (q + 1)) /\ s * (q + 1) \in Nat
    BY <2>1, GridMultiple
  <2> QED BY <2>2
<1>5. d + a = g
  <2>1. PICK x \in Nat : x = s * q
    OBVIOUS
  <2>2. s * (q + 1) = s * q + s
    OBVIOUS
  <2> QED BY <1>2, <1>3, <1>4, <2>1, <2>2
<1>6. p + a = b + g
  BY <1>1, <1>5
<1>7. InGrid(b + g)
  BY <1>4, GridClosed
<1> QED BY <1>1, <1>2, <1>3, <1>6, <1>7

\* A prefill that has a chunk boundary before it to save does not pass it.
LEMMA TargetIsNotPassed ==
  ASSUME Inv, SegmentsOnGrid, phase = "prefill", request.saving, Opaque(model), ~ model.whole, OnGrid,
         request.images = {}, processed < ReusableEnd
  PROVE  NextStepSize # 0 /\ CallEnd <= ReusableEnd
<1> PrefillInv /\ Admitted
  BY DEF Inv, Admitted
<1>1. PICK p \in Nat, l \in Nat \ {0} : p = processed /\ l = request.length
  BY RequestFacts
<1>2. PICK t \in Nat : t = ReusableEnd /\ t < l
  BY <1>1, ReusableFacts
<1>3. PICK s \in Nat \ {0}, b \in Nat, e \in Nat :
        /\ s = Active.step /\ b = Active.start /\ e = Active.end
        /\ InGrid(s) /\ InGrid(b) /\ b <= p /\ p < e /\ e <= l /\ (e = l \/ InGrid(e))
  BY <1>1, ActiveOnGrid
<1>4. ASSUME NEW n \in Nat, InGrid(n), n < l PROVE n <= t
  BY <1>1, <1>2, <1>4, GridBeforeEnd
<1>5. PICK r \in Nat : r = Remaining /\ r = l - p /\ r > 1
  <2>1. l - p \in Nat /\ l - p > 1
    BY <1>1, <1>2
  <2> QED BY <1>1, <2>1 DEF Remaining
<1>6. PICK a \in 1..s : a = AlignmentStep /\ InGrid(p + a)
  <2>1. PICK a \in 1..s : a = s - ((p - b) % s) /\ InGrid(p + a)
    BY <1>3, AlignedIs
  <2> QED BY <1>1, <1>3, <2>1 DEF AlignmentStep
<1>7. PICK n \in Nat : /\ n = NextChunkSize /\ n > 0 /\ n <= s /\ n <= e - p /\ n <= r - 1
                       /\ n = s \/ n = e - p \/ n = r - 1
  <2>1. PICK y \in Nat : y = LargerOf(0, e - p) /\ y = e - p
    BY <1>3 DEF LargerOf
  <2>2. PICK n \in Nat : /\ n = SmallerOf(s, SmallerOf(y, r - 1)) /\ n > 0 /\ n <= s /\ n <= y /\ n <= r - 1
                         /\ n = s \/ n = y \/ n = r - 1
    BY <1>3, <1>5, <2>1 DEF SmallerOf
  <2> QED BY <1>1, <1>3, <1>5, <2>1, <2>2 DEF NextChunkSize
<1>8. ProposedStep = IF a < s /\ a <= n THEN a ELSE IF r > s \/ l > e THEN n ELSE IF t > p THEN t - p ELSE 0
  <2>1. ~ (Remaining <= 1)
    BY <1>5
  <2> QED BY <1>1, <1>2, <1>3, <1>5, <1>6, <1>7, <2>1 DEF ProposedStep
<1>9. PICK x \in Nat : x = ProposedStep /\ x > 0 /\ p + x <= t
  <2>1. CASE a < s /\ a <= n
    <3>1. p + a \in Nat /\ p + a < l
      BY <1>5, <1>7, <2>1
    <3>2. p + a <= t
      BY <1>4, <1>6, <3>1
    <3> QED BY <1>6, <1>8, <2>1, <3>2
  <2>2. CASE ~ (a < s /\ a <= n) /\ (r > s \/ l > e)
    <3>1. ProposedStep = n
      BY <1>8, <2>2
    <3>2. p + n \in Nat /\ p + n < l
      BY <1>5, <1>7
    <3>3. InGrid(p + n)
      <4>1. CASE n = e - p
        <5>1. p + n = e /\ e # l
          BY <1>3, <3>2, <4>1
        <5> QED BY <1>3, <5>1
      <4>2. CASE n = s
        <5>1. a = n
          BY <1>6, <2>2, <4>2
        <5> QED BY <1>6, <5>1
      <4>3. CASE n = r - 1 /\ n # s /\ n # e - p
        <5>1. ~ (r > s) /\ ~ (l > e)
          BY <1>3, <1>5, <1>7, <4>3
        <5> QED BY <2>2, <5>1
      <4> QED BY <1>7, <4>1, <4>2, <4>3
    <3>4. p + n <= t
      BY <1>4, <3>2, <3>3
    <3> QED BY <1>7, <3>1, <3>4
  <2>3. CASE ~ (a < s /\ a <= n) /\ ~ (r > s \/ l > e)
    <3>1. t > p
      BY <1>1, <1>2
    <3>2. ProposedStep = t - p
      BY <1>8, <2>3, <3>1
    <3>3. t - p \in Nat /\ t - p > 0 /\ p + (t - p) <= t
      BY <3>1
    <3> QED BY <3>2, <3>3
  <2> QED BY <2>1, <2>2, <2>3
<1>10. NextStepSize = x
  <2>1. Splits(processed + ProposedStep) = {}
    BY DEF Splits, ImageStarts
  <2> QED BY <1>9, <2>1 DEF NextStepSize, StepWithoutSplitting
<1>11. CallEnd = p + x
  BY <1>1, <1>9, <1>10 DEF CallEnd
<1> QED BY <1>2, <1>9, <1>10, <1>11

\* Before there is a request nothing has been planned.
LEMMA BestBeforeAdmitted ==
  ASSUME call = NoCall, ~ Admitted
  PROVE  BestInv
BY DEF BestInv, LargestStepThatFits, Planned

\* Nor when a model is loaded,
LEMMA LoadBest == Inv /\ Load => BestInv'
<1> SUFFICES ASSUME Inv, Load PROVE BestInv'
  OBVIOUS
<1>1. call' = NoCall /\ phase' = "ready"
  BY DEF Inv, PrefillInv, Waiting, Untouched, Load
<1> QED BY <1>1 DEF BestInv, LargestStepThatFits, Planned, Admitted

\* and a request begins where its restored cache ends.
LEMMA AdmitBest == ASSUME NEW r \in Requests PROVE Inv /\ Admit(r) => BestInv'
<1> SUFFICES ASSUME Inv, Admit(r) PROVE BestInv'
  OBVIOUS
<1>1. PrefillInv /\ Untouched /\ phase = "ready"
  BY DEF Inv, PrefillInv, Waiting, Admit
<1>2. request' = r /\ segments' = <<>> /\ step' = 1 /\ call' = NoCall /\ UNCHANGED <<model, fit>>
  BY <1>1 DEF Admit, Untouched
<1>3. LargestStepThatFits'
  BY <1>2 DEF LargestStepThatFits, Planned
<1>4. ASSUME Admitted' PROVE (BestSegments /\ SegmentsOnGrid /\ ReusableEndAhead
                              /\ (~ model.whole => nextChunk <= ChunkCount(processed))
                              /\ (phase = "done" => processed = request.length))'
  <2>1. /\ phase' \in {"prefill", "plan"}
        /\ restored' = Kept(r) /\ processed' = Kept(r)
        /\ nextChunk' = ChunkCount(IF model.whole THEN r.length ELSE Kept(r))
    BY <1>4 DEF Admit, Admitted
  <2>2. r.length \in Nat \ {0} /\ r.cached \in 0..r.length - 1
    BY PrefillAssumption
  <2>3. Kept(r) \in Nat
    BY <2>2 DEF Kept
  <2>4. ChunkCount(Kept(r)) \in Nat
    BY <2>3, ChunksGrow
  <2>5. BestSegments'
    <3>1. fit.steps \in Seq(Nat \ {0})
      BY <1>1, FitFacts
    <3>2. \A j \in DOMAIN fit.steps : ~ (j < 1)
      BY <3>1
    <3>3. DOMAIN segments' = {}
      BY <1>2
    <3> QED BY <1>2, <3>2, <3>3 DEF BestSegments
  <2>6. SegmentsOnGrid'
    <3>1. DOMAIN segments' = {}
      BY <1>2
    <3> QED BY <3>1 DEF SegmentsOnGrid
  <2>7. ReusableEndAhead'
    <3>1. PICK n \in Nat : n = ReusableEnd'
      <4>1. (request.length \in Nat \ {0})' /\ r.length - 1 \in Nat /\ Chunk \in Nat \ {0}
        BY <1>2, <2>2, PrefillAssumption
      <4>2. (r.length - 1) \div Chunk \in Nat
        BY <4>1, Quotient
      <4> QED BY <1>2, <4>1, <4>2 DEF ReusableEnd, ChunkCount
    <3>2. Opaque(model') <=> Opaque(model)
      BY <1>2
    <3>3. r.images # {} => ~ Opaque(model)
      BY DEF Admit
    <3>4. n <= Kept(r) \/ Kept(r) < n
      BY <2>3, <3>1
    <3> QED BY <1>2, <2>1, <3>1, <3>2, <3>3, <3>4 DEF ReusableEndAhead
  <2>8. (~ model.whole => nextChunk <= ChunkCount(processed))'
    BY <1>2, <2>1, <2>4 DEF ChunkCount
  <2> QED BY <2>1, <2>5, <2>6, <2>7, <2>8
<1> QED BY <1>3, <1>4 DEF BestInv

\* A call: it is as large as it may be, and ends on the way to the boundary to save.
LEMMA CallBest ==
  ASSUME Inv, BestInv, phase = "prefill", call' = Calling(CallEnd), processed' = CallEnd, Snapshot(CallEnd),
         UNCHANGED <<model, fit, request, step, segments, restored>>,
         \/ phase' = "prefill" /\ NextStepSize # 0
         \/ phase' = "done" /\ NextStepSize = 0
  PROVE  BestInv'
<1>1. PrefillInv /\ Admitted /\ BestSegments /\ SegmentsOnGrid /\ ReusableEndAhead
  BY DEF Inv, BestInv, Admitted
<1>2. LargestStepThatFits'
  BY <1>1, CallIsLargest
<1>3. BestSegments'
  BY <1>1 DEF BestSegments, CacheLimit, SegmentStart
<1>4. (OnGrid' <=> OnGrid) /\ SegmentsOnGrid'
  BY <1>1 DEF SegmentsOnGrid, OnGrid, InGrid
<1>5. /\ CallEnd \in Nat /\ processed < CallEnd /\ processed \in Nat
      /\ request.length \in Nat \ {0}
  BY <1>1, NextCall, RequestFacts
<1>6. ChunkCount(processed) \in Nat /\ ChunkCount(CallEnd) \in Nat /\ ChunkCount(processed) <= ChunkCount(CallEnd)
  BY <1>5, ChunksGrow
<1>7. nextChunk \in Nat /\ (~ model.whole => nextChunk <= ChunkCount(processed))
  <2>1. nextChunk \in 0..ChunkCount(request.length)
    BY <1>1 DEF PrefillInv, Request, Position
  <2>2. ChunkCount(request.length) \in Nat
    BY <1>5, ChunksGrow
  <2> QED BY <1>1, <2>1, <2>2 DEF BestInv
<1>8. (~ model.whole => nextChunk <= ChunkCount(processed))'
  <2> SUFFICES ASSUME ~ model.whole PROVE nextChunk' <= ChunkCount(CallEnd)
    BY DEF ChunkCount
  <2>1. CASE request.saving /\ nextChunk < ChunkCount(CallEnd)
    BY <1>6, <2>1 DEF Snapshot
  <2>2. CASE ~ (request.saving /\ nextChunk < ChunkCount(CallEnd))
    BY <1>6, <1>7, <2>2 DEF Snapshot
  <2> QED BY <2>1, <2>2
<1>9. (phase = "done" => processed = request.length)'
  BY DEF CallEnd
<1>10. ReusableEnd' = ReusableEnd
  BY DEF ReusableEnd, ChunkCount
<1>11. ReusableEndAhead'
  <2> SUFFICES ASSUME request.saving, Opaque(model), ~ model.whole, OnGrid
               PROVE  /\ request.images = {}
                      /\ ReusableEnd <= restored \/ ReusableEnd \in snapshots' \/ CallEnd < ReusableEnd
    BY <1>4, <1>10 DEF ReusableEndAhead, Opaque, OfKind
  <2>1. /\ request.images = {}
        /\ ReusableEnd <= restored \/ ReusableEnd \in snapshots \/ processed < ReusableEnd
    BY <1>1 DEF ReusableEndAhead
  <2>2. snapshots \subseteq snapshots'
    BY DEF Snapshot
  <2>3. CASE processed < ReusableEnd
    <3>1. PICK t \in Nat : t = ReusableEnd /\ ChunkCount(processed) < ChunkCount(t)
      BY <1>5, <2>3, ReusableFacts
    <3>2. CallEnd <= t
      BY <2>1, <2>3, <3>1, <1>1, TargetIsNotPassed
    <3>3. CASE CallEnd = t
      <4>1. nextChunk < ChunkCount(CallEnd)
        BY <1>6, <1>7, <3>1, <3>3
      <4>2. snapshots' = snapshots \cup {CallEnd}
        BY <4>1 DEF Snapshot
      <4> QED BY <2>1, <3>1, <3>3, <4>2
    <3>4. CASE CallEnd # t
      BY <1>5, <2>1, <3>1, <3>2, <3>4
    <3> QED BY <3>3, <3>4
  <2> QED BY <2>1, <2>2, <2>3
<1> QED BY <1>2, <1>3, <1>4, <1>8, <1>9, <1>11 DEF BestInv

\* A step of nothing changes nothing.
LEMMA StutterBest == BestInv /\ UNCHANGED vars => BestInv'
BY DEF vars, BestInv, Admitted, LargestStepThatFits, Planned, Peak, BestSegments, CacheLimit, SegmentStart,
       PlannedEnd, SegmentsOnGrid, OnGrid, InGrid, ReusableEndAhead, Opaque, OfKind, ReusableEnd, ChunkCount

\* No action of the prefill breaks the invariant.
THEOREM BestInvariant == Spec => []BestInv
<1>1. Init => BestInv
  <2> SUFFICES ASSUME Init PROVE BestInv
    OBVIOUS
  <2> QED BY BestBeforeAdmitted DEF Init, Admitted
<1>2. Inv /\ BestInv /\ [Next]_vars => BestInv'
  <2> SUFFICES ASSUME Inv, BestInv, [Next]_vars PROVE BestInv'
    OBVIOUS
  <2>1. CASE Load
    BY <2>1, LoadBest
  <2>2. ASSUME NEW r \in Requests, Admit(r) PROVE BestInv'
    BY <2>2, AdmitBest
  <2>3. CASE PlanStep
    BY <2>3, PlanStepBest
  <2>4. CASE PlanDone
    BY <2>4, PlanDoneBest
  <2>5. CASE PromptStep
    <3>1. PrefillInv /\ phase = "prefill"
      BY <2>5 DEF Inv, PromptStep
    <3>2. NextStepSize # 0 /\ CallEnd = processed + NextStepSize
      BY <2>5 DEF PromptStep, CallEnd
    <3>3. call' = Calling(CallEnd) /\ processed' = CallEnd /\ Snapshot(CallEnd) /\ phase' = "prefill"
      BY <2>5, <3>1, <3>2 DEF PromptStep
    <3> QED BY <2>5, <3>1, <3>2, <3>3, CallBest DEF PromptStep
  <2>6. CASE Generate
    <3>1. NextStepSize = 0 /\ CallEnd = request.length /\ phase = "prefill"
      BY <2>6 DEF Generate, CallEnd
    <3>2. call' = Calling(CallEnd) /\ processed' = CallEnd /\ Snapshot(CallEnd) /\ phase' = "done"
      BY <2>6, <3>1 DEF Generate
    <3> QED BY <2>6, <3>1, <3>2, CallBest DEF Generate
  <2>7. CASE UNCHANGED vars
    BY <2>7, StutterBest
  <2> QED BY <2>1, <2>2, <2>3, <2>4, <2>5, <2>6, <2>7 DEF Next
<1> QED BY <1>1, <1>2, PrefillInvariant, PTL DEF Spec

\* For every machine, model and prompt: no call is made with a smaller step
\* than it has to be, and a model that can be restored only where a call
\* ended has a snapshot at the last boundary another prompt can reuse.
THEOREM CutsAreBest == Spec => []BestCuts
<1>1. Inv /\ BestInv => BestCuts
  <2> SUFFICES ASSUME Inv, BestInv PROVE BestCuts
    OBVIOUS
  <2>1. LargestStepThatFits
    BY DEF BestInv
  <2>2. ReusableEndSaved
    <3> SUFFICES ASSUME phase = "done", request.saving, Opaque(model), ~ model.whole, OnGrid
                 PROVE  ReusableEnd <= restored \/ ReusableEnd \in snapshots
      BY DEF ReusableEndSaved
    <3>1. Admitted /\ PrefillInv
      BY DEF Admitted, Inv
    <3>2. /\ processed = request.length
          /\ ReusableEnd <= restored \/ ReusableEnd \in snapshots \/ processed < ReusableEnd
      BY <3>1 DEF BestInv, ReusableEndAhead
    <3>3. ReusableEnd \in Nat /\ ReusableEnd < request.length /\ request.length \in Nat
      BY <3>1, RequestFacts, ReusableFacts
    <3> QED BY <3>2, <3>3
  <2> QED BY <2>1, <2>2 DEF BestCuts
<1> QED BY <1>1, BestInvariant, PrefillInvariant, PTL

-----------------------------------------------------------------------------
(* Numbers of a set in their order (Sorted).                               *)

\* What is below a in S.
Below(S, a) == {b \in S : b < a}

Rank(S, a) == Cardinality(Below(S, a))

SortedAt(S, k) == CHOOSE a \in S : Cardinality({b \in S : b < a}) = k - 1

\* The rank of a number in a finite set, and what is sorted by it.
LEMMA Ranks ==
  ASSUME NEW S, S \subseteq Nat, IsFiniteSet(S)
  PROVE  /\ Cardinality(S) \in Nat
         /\ \A a \in S : Rank(S, a) \in 0..(Cardinality(S) - 1)
         /\ \A a, b \in S : a < b => Rank(S, a) < Rank(S, b)
<1>1. Cardinality(S) \in Nat
  BY FS_CardinalityType
<1>2. \A a \in S : IsFiniteSet(Below(S, a)) /\ Rank(S, a) \in Nat /\ Rank(S, a) <= Cardinality(S)
                   /\ Rank(S, a) # Cardinality(S)
  <2> TAKE a \in S
  <2>1. Below(S, a) \in SUBSET S /\ a \notin Below(S, a) /\ a \in Nat
    BY DEF Below
  <2>2. IsFiniteSet(Below(S, a)) /\ Rank(S, a) <= Cardinality(S)
        /\ (Cardinality(S) = Rank(S, a) => S = Below(S, a))
    BY <2>1, FS_Subset DEF Rank
  <2>3. Rank(S, a) \in Nat
    BY <2>2, FS_CardinalityType DEF Rank
  <2> QED BY <2>1, <2>2, <2>3
<1>3. ASSUME NEW a \in S, NEW b \in S, a < b
      PROVE  Rank(S, a) < Rank(S, b)
  <2>1. Below(S, a) \in SUBSET Below(S, b) /\ a \in Below(S, b) /\ a \notin Below(S, a)
    <3>1. a \in Nat /\ b \in Nat /\ a \in Below(S, b) /\ a \notin Below(S, a)
      BY <1>3 DEF Below
    <3>2. \A x \in S : x < a => x < b
      <4> TAKE x \in S
      <4>1. x \in Nat
        OBVIOUS
      <4> QED BY <4>1, <3>1, <1>3
    <3> QED BY <3>1, <3>2 DEF Below
  <2>2. Rank(S, a) <= Rank(S, b) /\ Rank(S, a) # Rank(S, b)
    BY <2>1, <1>2, FS_Subset DEF Rank
  <2> QED BY <2>2, <1>2
<1> QED BY <1>1, <1>2, <1>3

\* Of an injection into as many, each is a value.
LEMMA EachRankIsOnes ==
  ASSUME NEW S, S \subseteq Nat, IsFiniteSet(S), NEW k \in 1..Cardinality(S)
  PROVE  \E a \in S : Rank(S, a) = k - 1
<1>1. PICK n \in Nat : n = Cardinality(S)
  BY FS_CardinalityType
<1> DEFINE f == [a \in S |-> Rank(S, a)]
<1>2. f \in [S -> 0..(n - 1)] /\ \A a \in S : f[a] = Rank(S, a)
  BY <1>1, Ranks
<1>3. \A a, b \in S : a # b => f[a] # f[b]
  <2> TAKE a, b \in S
  <2>1. a \in Nat /\ b \in Nat
    OBVIOUS
  <2>2. f[a] \in Nat /\ f[b] \in Nat
    BY <1>2
  <2>3. (a < b => f[a] < f[b]) /\ (b < a => f[b] < f[a])
    BY <1>2, Ranks
  <2> HIDE DEF f
  <2> QED BY <2>1, <2>2, <2>3
<1> HIDE DEF f
<1>4. IsFiniteSet(0..(n - 1)) /\ Cardinality(0..(n - 1)) = n
  <2>1. PICK a, b : a = 0 /\ b = n - 1
    OBVIOUS
  <2>2. IsFiniteSet(a..b) /\ Cardinality(a..b) = IF a > b THEN 0 ELSE b-a+1
    BY <2>1, FS_Interval
  <2> QED BY <2>1, <2>2
<1>5. f \in Injection(S, 0..(n - 1))
  BY <1>2, <1>3 DEF Injection, IsInjective
<1>6. f \in Surjection(S, 0..(n - 1))
  BY <1>1, <1>4, <1>5, FS_Injection
<1>7. k - 1 \in 0..(n - 1)
  BY <1>1
<1>8. PICK a \in S : f[a] = k - 1
  BY <1>6, <1>7 DEF Surjection
<1> QED BY <1>2, <1>8

\* Sorted(S) lists S, upwards.
LEMMA SortedIs ==
  ASSUME NEW S, S \subseteq Nat, IsFiniteSet(S)
  PROVE  /\ Cardinality(S) \in Nat /\ Len(Sorted(S)) = Cardinality(S)
         /\ DOMAIN Sorted(S) = 1..Cardinality(S) /\ Sorted(S) \in Seq(S)
         /\ \A k \in 1..Cardinality(S) : Sorted(S)[k] \in S /\ Rank(S, Sorted(S)[k]) = k - 1
         /\ \A k, l \in 1..Cardinality(S) : k < l => Sorted(S)[k] < Sorted(S)[l]
         /\ \A a \in S : \E k \in 1..Cardinality(S) : Sorted(S)[k] = a
<1> DEFINE n == Cardinality(S)
<1>1. n \in Nat
  BY FS_CardinalityType
<1>2. \A k \in 1..n : Sorted(S)[k] \in S /\ Rank(S, Sorted(S)[k]) = k - 1
  <2> TAKE k \in 1..n
  <2>1. Sorted(S)[k] = CHOOSE a \in S : Rank(S, a) = k - 1
    BY DEF Sorted, Rank, Below
  <2>2. \E a \in S : Rank(S, a) = k - 1
    BY EachRankIsOnes
  <2> QED BY <2>1, <2>2
<1>3. DOMAIN Sorted(S) = 1..n /\ Sorted(S) = [k \in 1..n |-> Sorted(S)[k]]
  <2>1. Sorted(S) = [k \in 1..n |-> SortedAt(S, k)]
    BY Zenon DEF Sorted, SortedAt
  <2> QED BY <2>1
<1> HIDE DEF n
<1>4. Sorted(S) \in [1..n -> S]
  BY <1>2, <1>3
<1>5. Sorted(S) \in Seq(S) /\ Len(Sorted(S)) = n
  BY <1>1, <1>3, <1>4, SeqDef, LenProperties
<1>6. ASSUME NEW k \in 1..n, NEW l \in 1..n, k < l
      PROVE  Sorted(S)[k] < Sorted(S)[l]
  <2>1. PICK x, y : x = Sorted(S)[k] /\ y = Sorted(S)[l]
    OBVIOUS
  <2>2. x \in S /\ y \in S /\ Rank(S, x) = k - 1 /\ Rank(S, y) = l - 1
    BY <1>2, <2>1
  <2>3. y < x => Rank(S, y) < Rank(S, x)
    BY <2>2, Ranks
  <2>4. x # y /\ ~ (y < x)
    BY <1>1, <1>6, <2>2, <2>3
  <2> QED BY <2>1, <2>2, <2>4
<1>7. ASSUME NEW a \in S
      PROVE  \E k \in 1..n : Sorted(S)[k] = a
  <2>1. PICK r \in 0..(n - 1) : r = Rank(S, a)
    BY Ranks DEF n
  <2>2. r + 1 \in 1..n
    BY <1>1
  <2>3. PICK x : x = Sorted(S)[r + 1]
    OBVIOUS
  <2>4. x \in S /\ Rank(S, x) = r
    <3> (r + 1) - 1 = r
      OBVIOUS
    <3> QED BY <1>2, <2>2, <2>3
  <2>5. ~ (x < a) /\ ~ (a < x)
    <3>1. \A u, v \in S : u < v => Rank(S, u) < Rank(S, v)
      BY Ranks
    <3>2. r \in Int /\ ~ (r < r)
      OBVIOUS
    <3> QED BY <2>1, <2>4, <3>1, <3>2
  <2>6. x = a
    BY <2>4, <2>5
  <2> QED BY <2>2, <2>3, <2>6
<1> QED BY <1>1, <1>2, <1>3, <1>5, <1>6, <1>7 DEF n

\* c of S are up to a, and d after it up to b: how these lie in what is sorted.
Between(S, a, b, c, d) ==
  /\ c \in Nat /\ d \in Nat /\ c + d <= Cardinality(S)
  /\ Len(Sorted({x \in S : a < x /\ x <= b})) = d
  /\ \A i \in 1..d : Sorted(S)[c + i] = Sorted({x \in S : a < x /\ x <= b})[i]

\* Of what is sorted, the part that is above a, and not above b, is that part sorted.
LEMMA SortedBetween ==
  ASSUME NEW S, S \subseteq Nat, IsFiniteSet(S), NEW a \in Nat, NEW b \in Nat, a <= b,
         NEW c, NEW d,
         c = Cardinality({x \in S : x <= a}), d = Cardinality({x \in S : a < x /\ x <= b})
  PROVE  Between(S, a, b, c, d)
<1> DEFINE T == {x \in S : a < x /\ x <= b}
           L == {x \in S : x <= a}
<1>1. T \subseteq S /\ L \subseteq S /\ T \cap L = {} /\ T \cup L \subseteq S
  <2>1. \A x \in S : x \in Nat /\ ~ (a < x /\ x <= a)
    OBVIOUS
  <2> QED BY <2>1
<1>2. IsFiniteSet(T) /\ IsFiniteSet(L) /\ c \in Nat /\ d \in Nat /\ T \subseteq Nat
  BY <1>1, FS_Subset, FS_CardinalityType
<1>3. c + d <= Cardinality(S)
  <2>1. Cardinality(T \cup L) = d + c - Cardinality(T \cap L)
    BY <1>2, FS_Union
  <2>2. Cardinality(T \cap L) = 0
    BY <1>1, FS_EmptySet
  <2>3. Cardinality(T \cup L) <= Cardinality(S) /\ Cardinality(S) \in Nat
    BY <1>1, FS_Subset, FS_CardinalityType
  <2> QED BY <1>2, <2>1, <2>2, <2>3
<1>4. ASSUME NEW x \in T PROVE Rank(S, x) = c + Rank(T, x)
  <2>1. Below(S, x) = Below(T, x) \cup L
    <3>1. x \in Nat /\ a < x /\ x <= b
      BY <1>4
    <3>2. \A y \in S : (y < x) <=> (a < y /\ y <= b /\ y < x) \/ y <= a
      <4> TAKE y \in S
      <4>1. y \in Nat
        OBVIOUS
      <4> QED BY <3>1, <4>1
    <3> QED BY <3>2 DEF Below
  <2>2. Below(T, x) \cap L = {}
    BY <1>1 DEF Below
  <2>3. Below(T, x) \subseteq T
    BY DEF Below
  <2> HIDE DEF T, L
  <2>4. IsFiniteSet(Below(T, x)) /\ Rank(T, x) \in Nat
    BY <1>2, <2>3, FS_Subset, FS_CardinalityType DEF Rank
  <2>5. Cardinality(Below(T, x) \cap L) = 0
    BY <2>2, FS_EmptySet
  <2>6. Cardinality(Below(T, x) \cup L) =
          Cardinality(Below(T, x)) + Cardinality(L) - Cardinality(Below(T, x) \cap L)
    BY <1>2, <2>4, FS_Union
  <2>7. c = Cardinality(L)
    BY DEF L
  <2> QED BY <1>2, <2>1, <2>4, <2>5, <2>6, <2>7 DEF Rank
<1>5. d = Cardinality(T)
  OBVIOUS
<1>6. Len(Sorted(T)) = d
  <2> HIDE DEF T
  <2> QED BY <1>2, <1>5, SortedIs
<1>7. ASSUME NEW i \in 1..d PROVE Sorted(S)[c + i] = Sorted(T)[i]
  <2>1. PICK x : x = Sorted(T)[i]
    OBVIOUS
  <2>2. x \in T /\ Rank(T, x) = i - 1
    <3> HIDE DEF T
    <3> QED BY <1>2, <1>5, <2>1, SortedIs
  <2>3. PICK y, j : y = Sorted(S)[c + i] /\ j = c + i
    OBVIOUS
  <2>4. j \in 1..Cardinality(S)
    BY <1>2, <1>3, <2>3, FS_CardinalityType
  <2>5. y \in S /\ Rank(S, y) = j - 1
    BY <2>3, <2>4, SortedIs
  <2>6. x \in S /\ Rank(S, x) = c + (i - 1)
    BY <1>4, <2>2
  <2>7. Rank(S, x) = Rank(S, y)
    BY <1>2, <2>3, <2>5, <2>6
  <2>8. ~ (x < y) /\ ~ (y < x)
    <3>1. Rank(S, x) \in Int
      <4>1. \A u \in S : Rank(S, u) \in 0..(Cardinality(S) - 1)
        BY Ranks
      <4> QED BY <2>6, <4>1
    <3>2. \A u, v \in S : u < v => Rank(S, u) < Rank(S, v)
      BY Ranks
    <3>3. ~ (Rank(S, x) < Rank(S, x))
      BY <3>1
    <3> QED BY <2>5, <2>6, <2>7, <3>3, <3>2
  <2>9. x = y
    <3> x \in Nat /\ y \in Nat
      BY <2>5, <2>6
    <3> QED BY <2>8
  <2> QED BY <2>1, <2>3, <2>9
<1> QED BY <1>2, <1>3, <1>6, <1>7 DEF Between

-----------------------------------------------------------------------------
(* Stretches of TRUE (Runs).                                               *)

\* The least of some natural numbers is one of them, and none is less.
LEMMA MinIs ==
  ASSUME NEW S, S \subseteq Nat, S # {}
  PROVE  Min(S) \in S /\ \A y \in S : Min(S) <= y
<1>1. \E x \in S : \A y \in S : x <= y
  BY Least
<1> QED BY <1>1 DEF Min

\* Where f holds, of the m numbers after a.
Holding(f, a, m) == {j \in (a + 1)..(a + m) : f[j]}

\* After a, f is what g is after b.
Alike(f, a, g, b, m) == \A i \in 1..m : f[a + i] = g[b + i]

HoldAlike(f, a, g, b, m) == Cardinality(Holding(f, a, m)) = Cardinality(Holding(g, b, m))

\* As many of what comes after a, counted from a.
LEMMA Shifted ==
  ASSUME NEW a \in Nat, NEW b \in Nat, NEW m \in Nat, NEW f, NEW g,
         Alike(f, a, g, b, m)
  PROVE  HoldAlike(f, a, g, b, m)
<1> DEFINE S == {j \in (a + 1)..(a + m) : f[j]}
           T == {j \in (b + 1)..(b + m) : g[j]}
           h == [j \in S |-> j - a + b]
<1>1. \A j \in S : j \in Int /\ j - a \in 1..m /\ a + (j - a) = j
  OBVIOUS
<1>2. \A j \in S : j - a + b \in T
  <2> TAKE j \in S
  <2>1. f[a + (j - a)] = g[b + (j - a)] /\ f[a + (j - a)]
    BY <1>1 DEF Alike
  <2>2. b + (j - a) = j - a + b
    BY <1>1
  <2>3. j - a + b \in (b + 1)..(b + m)
    BY <1>1
  <2> QED BY <2>1, <2>2, <2>3
<1>3. h \in [S -> T] /\ \A j \in S : h[j] = j - a + b
  BY <1>2
<1>4. \A i, j \in S : h[i] = h[j] => i = j
  BY <1>1
<1>5. \A t \in T : \E j \in S : h[j] = t
  <2> TAKE t \in T
  <2>1. t \in Int /\ t - b \in 1..m /\ b + (t - b) = t /\ g[t]
    OBVIOUS
  <2>2. f[a + (t - b)] = g[b + (t - b)]
    BY <2>1 DEF Alike
  <2>3. PICK j : j = a + (t - b)
    OBVIOUS
  <2>4. j \in (a + 1)..(a + m) /\ f[j] /\ j - a + b = t
    BY <2>1, <2>2, <2>3
  <2>5. j \in S
    BY <2>4
  <2> HIDE DEF S, T, h
  <2> QED BY <2>4, <2>5, <1>3
<1>6. IsFiniteSet(S)
  <2>1. IsFiniteSet((a + 1)..(a + m))
    <3>1. PICK x, y : x = a + 1 /\ y = a + m
      OBVIOUS
    <3>2. IsFiniteSet(x..y)
      BY <3>1, FS_Interval
    <3> QED BY <3>1, <3>2
  <2> QED BY <2>1, FS_Subset
<1> HIDE DEF S, T, h
<1>7. h \in Bijection(S, T)
  BY <1>3, <1>4, <1>5 DEF Bijection, Injection, Surjection, IsInjective
<1>8. Cardinality(S) = Cardinality(T)
  BY <1>6, <1>7, FS_Bijection DEF ExistsBijection
<1> QED BY <1>8 DEF S, T, Holding, HoldAlike

RunFacts(flags, r) ==
  /\ r \in Seq([start : Nat, end : Nat])
  /\ \A k \in 1..Len(r) :
       /\ r[k].start < r[k].end /\ r[k].end <= Len(flags)
       /\ \A i \in (r[k].start + 1)..r[k].end : flags[i]
       /\ r[k].start = 0 \/ ~ flags[r[k].start]
       /\ r[k].end = Len(flags) \/ ~ flags[r[k].end + 1]
  /\ \A k, l \in 1..Len(r) : k < l => r[k].end < r[l].start
  /\ \A i \in 1..Len(flags) : flags[i] => \E k \in 1..Len(r) : r[k].start < i /\ i <= r[k].end

\* Where a stretch starts, and where it ends.
Starts(flags) == {a \in DOMAIN flags : flags[a] /\ (a = 1 \/ ~flags[a - 1])}

StretchEnd(flags, a) == Min({b \in a..Len(flags) : b = Len(flags) \/ ~flags[b + 1]})

\* A stretch of TRUE ends at its last element, or before a FALSE.
LEMMA EndIs ==
  ASSUME NEW flags \in Seq(BOOLEAN), NEW a \in 1..Len(flags), flags[a]
  PROVE  /\ StretchEnd(flags, a) \in a..Len(flags)
         /\ StretchEnd(flags, a) = Len(flags) \/ ~ flags[StretchEnd(flags, a) + 1]
         /\ \A i \in a..StretchEnd(flags, a) : flags[i]
<1> DEFINE S == {b \in a..Len(flags) : b = Len(flags) \/ ~flags[b + 1]}
<1>1. S \subseteq Nat /\ Len(flags) \in S /\ Len(flags) \in Nat
  OBVIOUS
<1>2. PICK e : e = StretchEnd(flags, a)
  OBVIOUS
<1>3. e \in S /\ \A y \in S : e <= y
  <2> HIDE DEF S
  <2>1. Min(S) \in S /\ \A y \in S : Min(S) <= y
    BY <1>1, MinIs
  <2> QED BY <1>2, <2>1 DEF StretchEnd, S
<1>4. \A i \in a..e : flags[i]
  <2> TAKE i \in a..e
  <2>1. CASE i = a
    BY <2>1
  <2>2. CASE i # a
    <3>1. i - 1 \in a..Len(flags) /\ ~ (e <= i - 1) /\ i - 1 # Len(flags) /\ (i - 1) + 1 = i
      BY <1>1, <1>3, <2>2
    <3>2. i - 1 \notin S
      BY <1>3, <3>1
    <3> QED BY <3>1, <3>2
  <2> QED BY <2>1, <2>2
<1>5. e \in a..Len(flags) /\ (e = Len(flags) \/ ~ flags[e + 1])
  BY <1>3
<1> QED BY <1>2, <1>4, <1>5

\* Runs finds all stretches of TRUE, in order, and nothing else.
LEMMA RunsAre ==
  ASSUME NEW flags \in Seq(BOOLEAN)
  PROVE  RunFacts(flags, Runs(flags))
<1> DEFINE S == Starts(flags)
           n == Len(flags)
           c == Cardinality(S)
           s == Sorted(S)
           r == Runs(flags)
<1>1. n \in Nat /\ DOMAIN flags = 1..n /\ S \subseteq 1..n
  BY DEF Starts
<1>2. IsFiniteSet(S) /\ S \subseteq Nat
  <2>1. IsFiniteSet(1..n)
    BY <1>1, FS_Interval
  <2> QED BY <1>1, <2>1, FS_Subset
<1>3. /\ c \in Nat
      /\ \A k \in 1..c : s[k] \in S
      /\ \A k, l \in 1..c : k < l => s[k] < s[l]
      /\ \A a \in S : \E k \in 1..c : s[k] = a
  <2> HIDE DEF S
  <2> QED BY <1>2, SortedIs
<1>4. r = [k \in 1..c |-> [start |-> s[k] - 1, end |-> StretchEnd(flags, s[k])]]
  BY Zenon DEF Runs, StretchEnd, Starts
<1>5. ASSUME NEW a \in S
      PROVE  /\ StretchEnd(flags, a) \in a..n /\ a \in 1..n
             /\ StretchEnd(flags, a) = n \/ ~ flags[StretchEnd(flags, a) + 1]
             /\ \A i \in a..StretchEnd(flags, a) : flags[i]
             /\ a = 1 \/ ~ flags[a - 1]
  <2>1. flags[a] /\ a \in 1..n /\ (a = 1 \/ ~ flags[a - 1])
    BY <1>1 DEF Starts
  <2> QED BY <2>1, EndIs
<1> HIDE DEF S, s, c, n, r
<1>6. r \in [1..c -> [start : Nat, end : Nat]]
  <2>1. \A k \in 1..c : s[k] - 1 \in Nat /\ StretchEnd(flags, s[k]) \in Nat
    <3> TAKE k \in 1..c
    <3>1. PICK a, e : a = s[k] /\ e = StretchEnd(flags, a)
      OBVIOUS
    <3>2. a \in S
      BY <1>3, <3>1
    <3>3. e \in a..n /\ a \in 1..n
      BY <1>5, <3>1, <3>2
    <3>4. a - 1 \in Nat /\ e \in Nat
      BY <1>1, <3>3
    <3> QED BY <3>1, <3>4
  <2> QED BY <1>4, <2>1
<1>7. r \in Seq([start : Nat, end : Nat]) /\ Len(r) = c /\ DOMAIN r = 1..c
  <2>1. PICK T : T = [start : Nat, end : Nat]
    OBVIOUS
  <2>2. r \in [1..c -> T] /\ c \in Nat
    BY <1>3, <1>6, <2>1
  <2>3. r \in Seq(T) /\ Len(r) = c /\ DOMAIN r = 1..c
    BY <2>2, SeqDef, LenProperties
  <2> QED BY <2>1, <2>3
<1>8. \A k \in 1..c : r[k].start = s[k] - 1 /\ r[k].end = StretchEnd(flags, s[k])
  BY <1>4
<1>9. ASSUME NEW k \in 1..c
      PROVE  /\ r[k].start < r[k].end /\ r[k].end <= n
             /\ \A i \in (r[k].start + 1)..r[k].end : flags[i]
             /\ r[k].start = 0 \/ ~ flags[r[k].start]
             /\ r[k].end = n \/ ~ flags[r[k].end + 1]
  <2>1. PICK a : a = s[k]
    OBVIOUS
  <2>2. PICK e : e = StretchEnd(flags, a)
    OBVIOUS
  <2>3. a \in S /\ r[k].start = a - 1 /\ r[k].end = e
    BY <1>3, <1>8, <2>1, <2>2
  <2>4. e \in a..n /\ a \in 1..n /\ (e = n \/ ~ flags[e + 1]) /\ (\A i \in a..e : flags[i])
        /\ (a = 1 \/ ~ flags[a - 1])
    BY <1>5, <2>2, <2>3
  <2>5. (a - 1) + 1 = a /\ a - 1 < e /\ e <= n /\ (a = 1 => a - 1 = 0)
    BY <1>1, <2>4
  <2> QED BY <2>3, <2>4, <2>5
<1>10. ASSUME NEW k \in 1..c, NEW l \in 1..c, k < l
       PROVE  r[k].end < r[l].start
  <2>1. PICK a, b, e : a = s[k] /\ b = s[l] /\ e = StretchEnd(flags, a)
    OBVIOUS
  <2>2. a \in S /\ b \in S /\ r[k].end = e /\ r[l].start = b - 1 /\ a < b
    BY <1>3, <1>8, <1>10, <2>1
  <2>3. e \in a..n /\ a \in 1..n /\ (e = n \/ ~ flags[e + 1]) /\ (\A i \in a..e : flags[i])
    BY <1>5, <2>1, <2>2
  <2>4. b \in 1..n /\ b # 1 /\ ~ flags[b - 1] /\ flags[b]
    <3>1. b \in 1..n /\ (b = 1 \/ ~ flags[b - 1])
      BY <1>5, <2>2
    <3>2. b # 1
      BY <2>2, <2>3, <3>1
    <3> QED BY <2>2, <3>1, <3>2 DEF S, Starts
  <2>5. b - 1 \notin a..e
    BY <2>3, <2>4
  <2>6. b # e + 1
    BY <1>1, <2>3, <2>4
  <2> QED BY <1>1, <2>2, <2>3, <2>4, <2>5, <2>6
<1>11. ASSUME NEW i \in 1..n, flags[i]
       PROVE  \E k \in 1..c : r[k].start < i /\ i <= r[k].end
  <2> DEFINE T == {j \in 1..i : \A x \in j..i : flags[x]}
  <2>1. i \in T
    BY <1>1, <1>11
  <2>2. T \subseteq Nat /\ T # {}
    BY <2>1
  <2>3. PICK j : j \in T /\ \A y \in T : j <= y
    <3> HIDE DEF T
    <3> QED BY <2>2, Least
  <2>4. j \in 1..i /\ j \in 1..n /\ (\A x \in j..i : flags[x]) /\ flags[j]
    BY <1>1, <2>3
  <2>5. j = 1 \/ ~ flags[j - 1]
    <3> SUFFICES ASSUME j # 1, flags[j - 1] PROVE FALSE
      OBVIOUS
    <3>1. j - 1 \in 1..i /\ ~ (j <= j - 1)
      BY <2>4
    <3>2. \A x \in (j - 1)..i : x = j - 1 \/ x \in j..i
      BY <2>4
    <3>3. j - 1 \in T
      BY <2>4, <3>1, <3>2
    <3> QED BY <2>3, <3>1, <3>3
  <2>6. j \in S
    BY <1>1, <2>4, <2>5 DEF S, Starts
  <2>7. PICK e : e = StretchEnd(flags, j)
    OBVIOUS
  <2>8. e \in j..n /\ (e = n \/ ~ flags[e + 1])
    BY <1>5, <2>6, <2>7
  <2>9. i <= e
    <3> SUFFICES ASSUME e < i PROVE FALSE
      BY <1>1, <2>4, <2>8
    <3>1. e + 1 \in j..i /\ e # n
      BY <1>1, <2>4, <2>8
    <3> QED BY <2>4, <2>8, <3>1
  <2>10. PICK k \in 1..c : s[k] = j
    BY <1>3, <2>6
  <2>11. r[k].start = j - 1 /\ r[k].end = e
    BY <1>8, <2>7, <2>10
  <2>12. j - 1 < i
    BY <2>4
  <2> QED BY <2>9, <2>11, <2>12
<1>12. RunFacts(flags, r)
  BY <1>7, <1>9, <1>10, <1>11 DEF RunFacts, n
<1> QED BY <1>12 DEF r

-----------------------------------------------------------------------------
(* A prompt's runs are its images' tokens.                                 *)

\* A map of 1..m onto itself that never falls changes nothing.
LEMMA Unchanging ==
  ASSUME NEW m \in Nat, NEW c \in [1..m -> 1..m],
         \A i, j \in 1..m : i < j => c[i] <= c[j],
         \A v \in 1..m : \E k \in 1..m : c[k] = v
  PROVE  \A k \in 1..m : c[k] = k
<1>1. \A i, j \in 1..m : i < j => c[i] < c[j]
  <2>1. IsFiniteSet(1..m) /\ c \in Surjection(1..m, 1..m)
    <3>1. IsFiniteSet(1..m)
      BY FS_Interval
    <3> QED BY <3>1 DEF Surjection
  <2>2. \A i, j \in 1..m : c[i] = c[j] => i = j
    <3>1. PICK T : T = 1..m
      OBVIOUS
    <3>2. IsFiniteSet(T) /\ c \in Surjection(T, T) /\ Cardinality(T) = Cardinality(T)
      BY <2>1, <3>1
    <3>3. c \in Injection(T, T)
      BY <3>2, FS_SurjSameCardinalityImpliesInj
    <3>4. \A i, j \in DOMAIN c : c[i] = c[j] => i = j
      BY <3>3 DEF Injection, IsInjective
    <3> QED BY <3>4
  <2> QED BY <2>2
<1> DEFINE Bad == {k \in 1..m : c[k] # k}
<1>2. SUFFICES ASSUME Bad # {} PROVE FALSE
  OBVIOUS
<1>3. Bad \subseteq Nat
  OBVIOUS
<1>4. PICK k \in Bad : \A y \in Bad : k <= y
  <2> HIDE DEF Bad
  <2> QED BY <1>2, <1>3, Least
<1>5. k \in 1..m /\ c[k] # k
  OBVIOUS
<1>6. \A j \in 1..m : j < k => c[j] = j
  BY <1>4, <1>5
<1>7. k < c[k]
  <2>1. CASE k = 1
    BY <1>5, <2>1
  <2>2. CASE k # 1
    <3>1. k - 1 \in 1..m /\ k - 1 < k
      BY <1>5, <2>2
    <3>2. c[k - 1] = k - 1 /\ c[k - 1] < c[k]
      BY <1>1, <1>5, <1>6, <3>1
    <3> QED BY <1>5, <3>2
  <2> QED BY <2>1, <2>2
<1>8. PICK l \in 1..m : c[l] = k
  BY <1>5
<1>9. l < k \/ l = k \/ k < l
  BY <1>5
<1>10. k \in Int /\ ~ (k < k) /\ ~ (c[k] < k)
  BY <1>5, <1>7
<1>11. ~ (l < k)
  BY <1>6, <1>8, <1>10
<1>12. ~ (k < l)
  BY <1>1, <1>5, <1>8, <1>10
<1> QED BY <1>5, <1>8, <1>9, <1>11, <1>12

-----------------------------------------------------------------------------
IsPrompt(p) ==
  /\ p.tokens \in Seq(Nat) /\ p.tokens # <<>>
  /\ p.grids \in Seq([t : Nat \ {0}, h : Nat \ {0}, w : Nat \ {0}])
  /\ \A i \in DOMAIN p.tokens : p.tokens[i] <= Len(p.grids)
  /\ \A k \in DOMAIN p.grids : \E i \in DOMAIN p.tokens : p.tokens[i] = k
  /\ InOrder(p) /\ (OneStretchEach(p) \/ TextBetween(p))

RunsOf(p) == Runs(ImageFlags(p))

\* The flags of a prompt are of its tokens; its images are numbered from
\* 1.
LEMMA FlagsAre ==
  ASSUME NEW p, IsPrompt(p)
  PROVE  /\ ImageFlags(p) \in Seq(BOOLEAN) /\ Len(ImageFlags(p)) = Len(p.tokens)
         /\ Len(p.tokens) \in Nat \ {0} /\ DOMAIN p.tokens = 1..Len(p.tokens)
         /\ \A i \in 1..Len(p.tokens) : /\ ImageFlags(p)[i] = (p.tokens[i] > 0)
                                        /\ p.tokens[i] \in 0..Len(p.grids)
         /\ Len(p.grids) \in Nat /\ DOMAIN p.grids = 1..Len(p.grids)
<1>1. PICK t, g, n, m : t = p.tokens /\ g = p.grids /\ n = Len(t) /\ m = Len(g)
  OBVIOUS
<1>2. PICK G : G = [t : Nat \ {0}, h : Nat \ {0}, w : Nat \ {0}]
  OBVIOUS
<1>3. t \in Seq(Nat) /\ t # <<>> /\ g \in Seq(G) /\ \A i \in DOMAIN t : t[i] <= m
  BY <1>1, <1>2 DEF IsPrompt
<1>4. n \in Nat \ {0} /\ DOMAIN t = 1..n /\ m \in Nat /\ DOMAIN g = 1..m /\ \A i \in 1..n : t[i] \in Nat
  BY <1>1, <1>3
<1>5. \A i \in 1..n : t[i] \in 0..m
  BY <1>3, <1>4
<1>6. ImageFlags(p) = [i \in 1..n |-> t[i] > 0]
  BY <1>1, <1>4 DEF ImageFlags
<1>7. PICK f : f = ImageFlags(p)
  OBVIOUS
<1>8. f \in [1..n -> BOOLEAN] /\ \A i \in 1..n : f[i] = (t[i] > 0)
  BY <1>6, <1>7
<1>9. f \in Seq(BOOLEAN) /\ Len(f) = n
  BY <1>4, <1>8, SeqDef, LenProperties
<1> QED BY <1>1, <1>4, <1>5, <1>7, <1>8, <1>9

\* What is known of a prompt's runs.
LEMMA PromptRuns ==
  ASSUME NEW p, IsPrompt(p)
  PROVE  /\ RunsOf(p) \in Seq([start : Nat, end : Nat])
         /\ \A k \in 1..Len(RunsOf(p)) :
              /\ RunsOf(p)[k].start \in Nat /\ RunsOf(p)[k].end \in Nat
              /\ RunsOf(p)[k].start < RunsOf(p)[k].end /\ RunsOf(p)[k].end <= Len(p.tokens)
              /\ \A i \in (RunsOf(p)[k].start + 1)..RunsOf(p)[k].end : p.tokens[i] > 0
              /\ RunsOf(p)[k].start = 0 \/ p.tokens[RunsOf(p)[k].start] = 0
              /\ RunsOf(p)[k].end = Len(p.tokens) \/ p.tokens[RunsOf(p)[k].end + 1] = 0
         /\ \A k, l \in 1..Len(RunsOf(p)) : k < l => RunsOf(p)[k].end < RunsOf(p)[l].start
         /\ \A i \in 1..Len(p.tokens) :
              p.tokens[i] > 0 => \E k \in 1..Len(RunsOf(p)) : RunsOf(p)[k].start < i /\ i <= RunsOf(p)[k].end
<1>1. PICK r, f, n, t : r = RunsOf(p) /\ f = ImageFlags(p) /\ n = Len(p.tokens) /\ t = p.tokens
  OBVIOUS
<1>2. /\ f \in Seq(BOOLEAN) /\ Len(f) = n /\ n \in Nat
      /\ \A i \in 1..n : f[i] = (t[i] > 0) /\ t[i] \in Nat
  BY <1>1, FlagsAre
<1>3. r = Runs(f)
  BY <1>1 DEF RunsOf
<1>4. RunFacts(f, r)
  BY <1>2, <1>3, RunsAre
<1>5. /\ r \in Seq([start : Nat, end : Nat])
      /\ \A k, l \in 1..Len(r) : k < l => r[k].end < r[l].start
      /\ \A i \in 1..n : f[i] => \E k \in 1..Len(r) : r[k].start < i /\ i <= r[k].end
  BY <1>2, <1>4 DEF RunFacts
<1>6. \A k \in 1..Len(r) : r[k] \in [start : Nat, end : Nat]
  <2>1. PICK T : T = [start : Nat, end : Nat]
    OBVIOUS
  <2>2. r \in Seq(T)
    BY <1>5, <2>1
  <2>3. \A k \in 1..Len(r) : r[k] \in T
    BY <2>2
  <2> QED BY <2>1, <2>3
<1>7. ASSUME NEW k \in 1..Len(r)
      PROVE  /\ r[k].start \in Nat /\ r[k].end \in Nat
             /\ r[k].start < r[k].end /\ r[k].end <= n
             /\ \A i \in (r[k].start + 1)..r[k].end : t[i] > 0
             /\ r[k].start = 0 \/ t[r[k].start] = 0
             /\ r[k].end = n \/ t[r[k].end + 1] = 0
  <2>1. PICK a, e : a = r[k].start /\ e = r[k].end
    OBVIOUS
  <2>2. a \in Nat /\ e \in Nat
    BY <1>6, <2>1
  <2>3. a < e /\ e <= n /\ (\A i \in (a + 1)..e : f[i]) /\ (a = 0 \/ ~ f[a]) /\ (e = n \/ ~ f[e + 1])
    BY <1>2, <1>4, <2>1 DEF RunFacts
  <2>4. \A i \in (a + 1)..e : i \in 1..n
    BY <1>2, <2>2, <2>3
  <2>5. a = 0 \/ t[a] = 0
    <3> SUFFICES ASSUME a # 0 PROVE t[a] = 0
      OBVIOUS
    <3>1. a \in 1..n
      BY <1>2, <2>2, <2>3
    <3> QED BY <1>2, <2>3, <3>1
  <2>6. e = n \/ t[e + 1] = 0
    <3> SUFFICES ASSUME e # n PROVE t[e + 1] = 0
      OBVIOUS
    <3>1. e + 1 \in 1..n
      BY <1>2, <2>2, <2>3
    <3> QED BY <1>2, <2>3, <3>1
  <2> QED BY <1>2, <2>1, <2>2, <2>3, <2>4, <2>5, <2>6
<1> QED BY <1>1, <1>2, <1>5, <1>7

\* Where there are as many runs as images, each run is the image of its number.
LEMMA RunsNameImages ==
  ASSUME NEW p, IsPrompt(p), Len(RunsOf(p)) = Len(p.grids)
  PROVE  \A k \in 1..Len(RunsOf(p)) :
           \A i \in (RunsOf(p)[k].start + 1)..RunsOf(p)[k].end : p.tokens[i] = k
<1>1. PICK r, n, t, m : r = RunsOf(p) /\ n = Len(p.tokens) /\ t = p.tokens /\ m = Len(p.grids)
  OBVIOUS
<1> DEFINE In(i, k) == r[k].start < i /\ i <= r[k].end
<1>2. /\ n \in Nat /\ m \in Nat /\ \A i \in 1..n : t[i] \in 0..m
      /\ DOMAIN p.grids = 1..m /\ DOMAIN t = 1..n
  BY <1>1, FlagsAre
<1>3. Len(r) = m
  BY <1>1
<1>4. \A k \in 1..m :
        /\ r[k].start \in Nat /\ r[k].end \in Nat /\ r[k].start < r[k].end /\ r[k].end <= n
        /\ r[k].end = n \/ t[r[k].end + 1] = 0
        /\ \A i \in (r[k].start + 1)..r[k].end : t[i] > 0
  BY <1>1, <1>3, PromptRuns
<1>5. \A k \in 1..m : \A i : i \in (r[k].start + 1)..r[k].end <=> i \in 1..n /\ In(i, k)
  <2> TAKE k \in 1..m
  <2>1. r[k].start \in Nat /\ r[k].end \in Nat /\ r[k].end <= n
    BY <1>4
  <2> QED BY <1>2, <2>1
<1>6. /\ \A k, l \in 1..m : k < l => r[k].end < r[l].start
      /\ \A i \in 1..n : t[i] > 0 => \E k \in 1..m : In(i, k)
  BY <1>1, <1>3, PromptRuns
<1>7. \A v \in 1..m : \E i \in 1..n : t[i] = v
  BY <1>1, <1>2 DEF IsPrompt
<1>8. \A i, j \in 1..n : i < j /\ t[i] > 0 /\ t[j] > 0 => t[i] <= t[j]
  BY <1>1, <1>2 DEF IsPrompt, InOrder
<1>9. \A k \in 1..m : \A i \in 1..n : In(i, k) => t[i] \in 1..m
  <2> TAKE k \in 1..m
  <2> TAKE i \in 1..n
  <2>1. ASSUME In(i, k) PROVE t[i] \in 1..m
    <3>1. i \in (r[k].start + 1)..r[k].end
      BY <1>5, <2>1
    <3>2. t[i] > 0 /\ t[i] \in 0..m
      BY <1>2, <1>4, <3>1
    <3> QED BY <1>2, <3>2
  <2> QED BY <2>1
<1>10. \A k, l \in 1..m : \A i, j \in 1..n : k < l /\ In(i, k) /\ In(j, l) => i < j /\ r[k].end < j
  <2> TAKE k, l \in 1..m
  <2> TAKE i, j \in 1..n
  <2>1. r[k].end \in Nat /\ r[l].start \in Nat /\ (k < l => r[k].end < r[l].start)
    BY <1>4, <1>6
  <2> QED BY <2>1
<1>11. \A k \in 1..m : In(r[k].start + 1, k) /\ r[k].start + 1 \in 1..n
  <2> TAKE k \in 1..m
  <2>1. r[k].start \in Nat /\ r[k].end \in Nat /\ r[k].start < r[k].end /\ r[k].end <= n
    BY <1>4
  <2> QED BY <1>2, <2>1
<1> HIDE DEF In
<1>12. ASSUME TextBetween(p) PROVE \A k \in 1..m : \A i \in 1..n : In(i, k) => t[i] = k
  <2> DEFINE c == [k \in 1..m |-> t[r[k].start + 1]]
  <2>1. c \in [1..m -> 1..m]
    BY <1>9, <1>11
  <2>2. \A k \in 1..m : c[k] = t[r[k].start + 1]
    OBVIOUS
  <2> HIDE DEF c
  <2>3. ASSUME NEW k \in 1..m, NEW i \in 1..n, In(i, k) PROVE t[i] = c[k]
    <3>1. PICK a, e : a = r[k].start /\ e = r[k].end
      OBVIOUS
    <3>2. a \in Nat /\ e \in Nat /\ a < e /\ e <= n
      BY <1>4, <3>1
    <3> DEFINE Bad == {j \in (a + 1)..e : t[j] # c[k]}
    <3>3. SUFFICES ASSUME Bad # {} PROVE FALSE
      <4>1. i \in (a + 1)..e
        BY <1>5, <2>3, <3>1
      <4> QED BY <4>1
    <3>4. Bad \subseteq Nat
      BY <3>2
    <3>5. PICK j \in Bad : \A y \in Bad : j <= y
      <4> HIDE DEF Bad
      <4> QED BY <3>3, <3>4, Least
    <3>6. j \in (a + 1)..e /\ t[j] # c[k] /\ j \in Int
      BY <3>2
    <3>7. j # a + 1
      BY <2>2, <3>1, <3>6
    <3>8. PICK x : x = j - 1
      OBVIOUS
    <3>9. x \in (a + 1)..e /\ x < j /\ x + 1 = j /\ x < n /\ x \in 1..n
      BY <1>2, <3>2, <3>6, <3>7, <3>8
    <3>10. t[x] = c[k]
      <4>1. x \notin Bad
        BY <3>5, <3>6, <3>9
      <4> QED BY <3>9, <4>1
    <3>11. t[x] > 0 /\ t[x + 1] > 0
      BY <1>4, <3>1, <3>6, <3>9
    <3>12. t[x] = t[x + 1]
      <4>1. \A u \in 1..n : u < n /\ t[u] > 0 /\ t[u + 1] > 0 => t[u] = t[u + 1]
        BY <1>1, <1>2, <1>12 DEF TextBetween
      <4> QED BY <3>9, <3>11, <4>1
    <3> QED BY <3>6, <3>9, <3>10, <3>12
  <2>4. ASSUME NEW k \in 1..m, NEW l \in 1..m, k < l PROVE c[k] <= c[l]
    <3>1. PICK i, j : i = r[k].start + 1 /\ j = r[l].start + 1
      OBVIOUS
    <3>2. i \in 1..n /\ j \in 1..n /\ In(i, k) /\ In(j, l) /\ c[k] = t[i] /\ c[l] = t[j]
      BY <1>11, <2>2, <3>1
    <3>3. i < j /\ t[i] \in 1..m /\ t[j] \in 1..m
      BY <1>9, <1>10, <2>4, <3>2
    <3>4. t[i] > 0 /\ t[j] > 0
      BY <3>3
    <3> QED BY <1>8, <3>2, <3>3, <3>4
  <2>5. \A v \in 1..m : \E k \in 1..m : c[k] = v
    <3> TAKE v \in 1..m
    <3>1. PICK i \in 1..n : t[i] = v
      BY <1>7
    <3>2. t[i] > 0
      BY <3>1
    <3>3. PICK k \in 1..m : In(i, k)
      BY <1>6, <3>2
    <3> QED BY <2>3, <3>1, <3>3
  <2>6. \A k \in 1..m : c[k] = k
    BY <1>2, <2>1, <2>4, <2>5, Unchanging
  <2> QED BY <2>3, <2>6
<1>13. ASSUME OneStretchEach(p) PROVE \A k \in 1..m : \A i \in 1..n : In(i, k) => t[i] = k
  <2>1. \A i, j \in 1..n : i < j /\ t[i] = t[j] /\ t[i] > 0 => \A x \in i..j : t[x] = t[i]
    <3>1. \A i, j \in DOMAIN t : i < j /\ t[i] = t[j] /\ t[i] > 0 => \A x \in i..j : t[x] = t[i]
      BY <1>1, <1>13, Zenon DEF OneStretchEach
    <3> QED BY <1>2, <3>1
  <2>2. ASSUME NEW k \in 1..m, NEW l \in 1..m, NEW i \in 1..n, NEW j \in 1..n,
               In(i, k), In(j, l), t[i] = t[j], k < l
        PROVE  FALSE
    <3>1. PICK x : x = r[k].end + 1
      OBVIOUS
    <3>2. r[k].end \in Nat /\ r[k].end < j /\ i < j /\ i <= r[k].end
      BY <1>4, <1>10, <2>2 DEF In
    <3>3. x \in i..j /\ t[x] = 0
      <4>1. PICK e : e = r[k].end
        OBVIOUS
      <4>2. e # n /\ x \in i..j /\ x = e + 1
        <5>1. e \in Nat /\ e < j /\ i <= e /\ x = e + 1
          BY <3>1, <3>2, <4>1
        <5>2. i \in Nat /\ j \in Nat /\ j <= n
          BY <1>2
        <5> QED BY <1>2, <5>1, <5>2
      <4>3. e = n \/ t[e + 1] = 0
        BY <1>4, <4>1
      <4> QED BY <4>2, <4>3
    <3>4. t[i] > 0
      <4>1. t[i] \in 1..m
        BY <1>9, <2>2
      <4> QED BY <4>1
    <3>5. t[x] = t[i]
      BY <2>1, <2>2, <3>2, <3>3, <3>4
    <3> QED BY <3>3, <3>4, <3>5
  <2> DEFINE Place(v) == CHOOSE k \in 1..m : \E i \in 1..n : t[i] = v /\ In(i, k)
             d == [v \in 1..m |-> Place(v)]
  <2>3. ASSUME NEW v \in 1..m
        PROVE  d[v] \in 1..m /\ \E i \in 1..n : t[i] = v /\ In(i, d[v])
    <3>1. PICK i \in 1..n : t[i] = v
      BY <1>7
    <3>2. t[i] > 0
      BY <3>1
    <3>3. \E k \in 1..m : \E j \in 1..n : t[j] = v /\ In(j, k)
      BY <1>6, <3>1, <3>2
    <3>4. d[v] = CHOOSE k \in 1..m : \E j \in 1..n : t[j] = v /\ In(j, k)
      BY Zenon
    <3> HIDE DEF d
    <3> QED BY <3>3, <3>4
  <2>4. DOMAIN d = 1..m /\ d = [v \in 1..m |-> d[v]]
    <3> HIDE DEF Place
    <3> QED OBVIOUS
  <2> HIDE DEF d, Place
  <2>5. d \in [1..m -> 1..m]
    BY <2>3, <2>4
  <2>6. ASSUME NEW k \in 1..m, NEW i \in 1..n, In(i, k) PROVE d[t[i]] = k
    <3>1. t[i] \in 1..m
      BY <1>9, <2>6
    <3>2. PICK l, j : l = d[t[i]] /\ l \in 1..m /\ j \in 1..n /\ t[j] = t[i] /\ In(j, l)
      BY <2>3, <3>1
    <3>3. ~ (k < l) /\ ~ (l < k)
      BY <2>2, <2>6, <3>2
    <3>4. k = l
      BY <3>2, <3>3
    <3> QED BY <3>2, <3>4
  <2>7. ASSUME NEW v \in 1..m, NEW w \in 1..m, v < w PROVE d[v] <= d[w]
    <3>1. PICK k, l, i, j : /\ k = d[v] /\ l = d[w] /\ k \in 1..m /\ l \in 1..m
                            /\ i \in 1..n /\ j \in 1..n /\ t[i] = v /\ t[j] = w /\ In(i, k) /\ In(j, l)
      BY <2>3
    <3>2. t[i] > 0 /\ t[j] > 0
      BY <3>1
    <3>3. ~ (j < i)
      <4>1. j < i => w <= v
        BY <1>8, <3>1, <3>2
      <4> QED BY <2>7, <4>1
    <3>4. ~ (l < k)
      BY <1>10, <3>1, <3>3
    <3> QED BY <3>1, <3>4
  <2>8. \A k \in 1..m : \E v \in 1..m : d[v] = k
    <3> TAKE k \in 1..m
    <3>1. PICK i : i = r[k].start + 1
      OBVIOUS
    <3>2. i \in 1..n /\ In(i, k)
      BY <1>11, <3>1
    <3>3. t[i] \in 1..m /\ d[t[i]] = k
      BY <1>9, <2>6, <3>2
    <3> QED BY <3>3
  <2>9. \A v \in 1..m : d[v] = v
    BY <1>2, <2>5, <2>7, <2>8, Unchanging
  <2>10. ASSUME NEW k \in 1..m, NEW i \in 1..n, In(i, k) PROVE t[i] = k
    BY <1>9, <2>6, <2>9, <2>10
  <2> QED BY <2>10
<1>14. OneStretchEach(p) \/ TextBetween(p)
  BY DEF IsPrompt
<1>15. \A k \in 1..m : \A i \in 1..n : In(i, k) => t[i] = k
  BY <1>12, <1>13, <1>14
<1>16. \A k \in 1..m : \A i \in (r[k].start + 1)..r[k].end : t[i] = k
  BY <1>5, <1>15
<1> QED BY <1>1, <1>3, <1>16

-----------------------------------------------------------------------------
(* Places in a grid.                                                       *)

\* A number of columns, rows and frames from one number.
LEMMA MixedRadix ==
  ASSUME NEW u \in Nat, NEW h \in Nat \ {0}, NEW w \in Nat \ {0}
  PROVE  /\ h * w \in Nat \ {0}
         /\ u \div (h * w) \in Nat /\ (u \div w) % h \in 0..(h - 1) /\ u % w \in 0..(w - 1)
         /\ u = (u \div (h * w)) * (h * w) + ((u \div w) % h) * w + (u % w)
<1>1. PICK q, r : q = u \div w /\ r = u % w
  OBVIOUS
<1>2. q \in Nat /\ r \in 0..(w - 1) /\ u = w * q + r
  BY <1>1, Quotient, Modulo
<1>3. PICK a, b : a = q \div h /\ b = q % h
  OBVIOUS
<1>4. a \in Nat /\ b \in 0..(h - 1) /\ q = h * a + b
  BY <1>2, <1>3, Quotient, Modulo
<1>5. PICK d : d = h * w
  OBVIOUS
<1>6. d \in Nat \ {0}
  <2>1. d \in Nat
    BY <1>5
  <2>2. w * 1 <= w * h
    BY ProductsGrow
  <2> QED BY <1>5, <2>1, <2>2
<1>7. PICK x : x = b * w
  OBVIOUS
<1>8. x \in Nat /\ x + w <= d
  <2>1. b + 1 <= h /\ b + 1 \in Nat /\ h \in Nat /\ w \in Nat
    BY <1>4
  <2>2. w * (b + 1) <= w * h
    BY <2>1, ProductsGrow
  <2>3. w * (b + 1) = b * w + w /\ w * h = h * w /\ b * w \in Nat
    BY <1>4
  <2> QED BY <1>5, <1>7, <2>2, <2>3
<1>9. w * q = d * a + x
  <2>1. w * (h * a + b) = (h * w) * a + b * w
    BY <1>4
  <2> QED BY <1>4, <1>5, <1>7, <2>1
<1>10. PICK y : y = d * a
  OBVIOUS
<1>11. y \in Nat
  BY <1>4, <1>6, <1>10
<1>12. u = y + x + r
  BY <1>2, <1>9, <1>10
<1>13. y <= u /\ u < y + d
  BY <1>2, <1>6, <1>8, <1>11, <1>12
<1>14. u \div d = a
  BY <1>4, <1>6, <1>10, <1>13, QuotientIs
<1>15. a * d = y
  BY <1>4, <1>6, <1>10
<1> QED BY <1>1, <1>2, <1>3, <1>4, <1>5, <1>6, <1>7, <1>12, <1>14, <1>15

\* The n tokens of a grid, d in a frame, have each its place, the last one the last.
GridPlaces(t, h, w, n, d) ==
  /\ n \in Nat \ {0} /\ d \in Nat \ {0}
  /\ \A u \in 0..(n - 1) :
       /\ u \div d \in 0..(t - 1) /\ (u \div w) % h \in 0..(h - 1) /\ u % w \in 0..(w - 1)
       /\ \A v \in 0..(n - 1) :
            /\ u \div d = v \div d
            /\ (u \div w) % h = (v \div w) % h
            /\ u % w = v % w
            => u = v
  /\ (n - 1) \div d = t - 1
  /\ ((n - 1) \div w) % h = h - 1
  /\ (n - 1) % w = w - 1

\* The i-th token of an image has a place in its grid, and no other
\* token's.
LEMMA PlaceInGrid ==
  ASSUME NEW t \in Nat \ {0}, NEW h \in Nat \ {0}, NEW w \in Nat \ {0},
         NEW n, NEW d, n = t * h * w, d = h * w
  PROVE  GridPlaces(t, h, w, n, d)
<1>1. d = h * w /\ n = t * h * w
  OBVIOUS
<1>2. d \in Nat \ {0}
  BY <1>1, MixedRadix
<1>3. n = d * t /\ n \in Nat /\ d <= n
  <2>1. t * h * w = (h * w) * t
    OBVIOUS
  <2>2. d * 1 <= d * t /\ d * t \in Nat
    BY <1>2, ProductsGrow
  <2> QED BY <1>1, <1>2, <2>1, <2>2
<1>4. n # 0
  BY <1>2, <1>3
<1>5. ASSUME NEW u \in 0..(n - 1) PROVE u \div d \in 0..(t - 1)
  <2>1. u \in Nat /\ u < n
    BY <1>3
  <2>2. PICK a \in Nat : a = u \div d /\ d * a <= u
    BY <1>2, <2>1, Quotient
  <2>3. ~ (t <= a)
    <3> SUFFICES ASSUME t <= a PROVE FALSE
      OBVIOUS
    <3>1. d * t <= d * a /\ d * a \in Nat
      BY <1>2, ProductsGrow
    <3> QED BY <1>3, <2>1, <2>2, <3>1
  <2> QED BY <2>2, <2>3
<1>6. ASSUME NEW u \in 0..(n - 1)
      PROVE  (u \div w) % h \in 0..(h - 1) /\ u % w \in 0..(w - 1)
  <2>1. u \in Nat
    BY <1>3
  <2> QED BY <2>1, MixedRadix
<1>7. ASSUME NEW u \in 0..(n - 1), NEW v \in 0..(n - 1), u \div d = v \div d,
             (u \div w) % h = (v \div w) % h, u % w = v % w
      PROVE  u = v
  <2>1. u \in Nat /\ v \in Nat
    BY <1>3
  <2>2. u = (u \div d) * d + ((u \div w) % h) * w + (u % w)
    <3>1. u = (u \div (h * w)) * (h * w) + ((u \div w) % h) * w + (u % w)
      BY <2>1, MixedRadix
    <3> QED BY <1>1, <3>1, Zenon
  <2>3. v = (v \div d) * d + ((v \div w) % h) * w + (v % w)
    <3>1. v = (v \div (h * w)) * (h * w) + ((v \div w) % h) * w + (v % w)
      BY <2>1, MixedRadix
    <3> QED BY <1>1, <3>1, Zenon
  <2> QED BY <1>7, <2>2, <2>3, Zenon
<1>8. PICK z : z = n - 1
  OBVIOUS
<1>9. z \in Nat /\ z + 1 = d * t
  BY <1>3, <1>4, <1>8
<1>10. z \div d = t - 1
  <2>1. PICK k \in Nat : k = t - 1 /\ t = k + 1
    OBVIOUS
  <2>2. d * (k + 1) = d * k + d /\ d * k \in Nat
    BY <1>2
  <2>3. d * k <= z /\ z < d * k + d
    BY <1>2, <1>9, <2>1, <2>2
  <2> QED BY <1>2, <1>9, <2>1, <2>3, QuotientIs
<1>11. z \div w = t * h - 1
  <2>1. PICK k \in Nat : k = t * h - 1 /\ t * h = k + 1
    <3>1. t * h \in Nat \ {0}
      BY MixedRadix
    <3> QED BY <3>1
  <2>2. w * (k + 1) = w * k + w /\ w * k \in Nat
    OBVIOUS
  <2>3. t * h * w = w * (t * h)
    OBVIOUS
  <2>4. w * (t * h) = w * (k + 1)
    BY <2>1
  <2>5. z + 1 = w * k + w
    BY <1>1, <1>3, <1>9, <2>2, <2>3, <2>4
  <2>6. w * k <= z /\ z < w * k + w
    BY <1>9, <2>2, <2>5
  <2> QED BY <1>9, <2>1, <2>6, QuotientIs
<1>12. z % w = w - 1
  <2>1. PICK q, r : q = z \div w /\ r = z % w
    OBVIOUS
  <2>2. r \in 0..(w - 1) /\ z = w * q + r
    BY <1>9, <2>1, Modulo
  <2>3. q = t * h - 1
    BY <1>11, <2>1
  <2>4. w * (t * h - 1) = w * (t * h) - w /\ w * (t * h) = t * h * w /\ t * h * w \in Int
    OBVIOUS
  <2>5. w * q = n - w
    BY <1>1, <2>3, <2>4
  <2>6. r = z - (n - w) /\ r \in Int
    BY <1>3, <1>9, <2>2, <2>5
  <2> QED BY <1>3, <1>8, <2>1, <2>6
<1>13. (z \div w) % h = h - 1
  <2>1. PICK y : y = t * h - 1
    OBVIOUS
  <2>2. t * h \in Nat \ {0}
    BY MixedRadix
  <2>3. y \in Nat
    BY <2>1, <2>2
  <2>4. PICK q, r : q = y \div h /\ r = y % h
    OBVIOUS
  <2>5. r \in 0..(h - 1) /\ y = h * q + r /\ q \in Nat
    BY <2>3, <2>4, Modulo, Quotient
  <2>6. PICK k \in Nat : k = t - 1 /\ t = k + 1
    OBVIOUS
  <2>7. h * (k + 1) = h * k + h /\ h * k \in Nat /\ t * h = h * t
    OBVIOUS
  <2>8. y = h * k + h - 1
    BY <2>1, <2>6, <2>7
  <2>9. h * k <= y /\ y < h * k + h
    BY <2>3, <2>7, <2>8
  <2>10. q = k
    BY <2>3, <2>4, <2>9, QuotientIs
  <2>11. r = h - 1
    BY <2>5, <2>7, <2>8, <2>10
  <2> QED BY <1>11, <2>1, <2>4, <2>11
<1> QED BY <1>2, <1>3, <1>4, <1>5, <1>6, <1>7, <1>8, <1>10, <1>12, <1>13 DEF GridPlaces

-----------------------------------------------------------------------------
(* What positions have to be, and how the walk adds to them.               *)

Places == Int \X Int \X Int

\* M is the least number above all of the first n positions.
Top(pos, n, M) ==
  /\ M \in Nat
  /\ \A j \in 1..n : \A d \in 1..3 : pos[j][d] < M
  /\ M = 0 \/ \E j \in 1..n : \E d \in 1..3 : pos[j][d] + 1 = M

AtText(pos, i) == \E M \in Nat : Top(pos, i - 1, M) /\ pos[i] = <<M, M, M>>

\* first is where i's image starts.
StartsAt(t, first, i) ==
  first \in 1..i /\ (\A k \in first..i : t[k] = t[i]) /\ (first = 1 \/ t[first - 1] # t[i])

AtImage(p, pos, i) ==
  \E first \in 1..i : \E base \in Nat :
    /\ StartsAt(p.tokens, first, i) /\ Top(pos, first - 1, base)
    /\ WithinGrid(pos[i], base, p.grids[p.tokens[i]])
    /\ \A j \in first..(i - 1) : pos[j] # pos[i]

Right(p, pos, i) == IF p.tokens[i] = 0 THEN AtText(pos, i) ELSE AtImage(p, pos, i)

\* pos places the first n tokens, and the next place is M.
Placed(p, pos, n, M) ==
  /\ pos \in Seq(Places) /\ Len(pos) = n /\ n \in 0..Len(p.tokens)
  /\ Top(pos, n, M)
  /\ \A i \in 1..n : Right(p, pos, i)

\* What comes after the first positions does not raise the least above
\* them.
LEMMA TopLonger ==
  ASSUME NEW pos, NEW q, NEW n \in Nat, NEW m \in 0..n, NEW M,
         \A j \in 1..n : q[j] = pos[j], Top(pos, m, M)
  PROVE  Top(q, m, M)
<1>1. \A j \in 1..m : q[j] = pos[j]
  OBVIOUS
<1> QED BY <1>1 DEF Top

\* Nor does it make a token that is placed right placed wrong.
LEMMA RightLonger ==
  ASSUME NEW p, NEW pos, NEW q, NEW n \in Nat, NEW i \in 1..n,
         \A j \in 1..n : q[j] = pos[j], Right(p, pos, i)
  PROVE  Right(p, q, i)
<1>1. \A m \in 0..n : \A M : Top(pos, m, M) => Top(q, m, M)
  BY TopLonger
<1>2. q[i] = pos[i] /\ i \in Nat
  OBVIOUS
<1>3. CASE p.tokens[i] = 0
  <2>1. PICK M \in Nat : Top(pos, i - 1, M) /\ pos[i] = <<M, M, M>>
    BY <1>3 DEF Right, AtText
  <2>2. i - 1 \in 0..n
    OBVIOUS
  <2> QED BY <1>1, <1>2, <1>3, <2>1, <2>2 DEF Right, AtText
<1>4. CASE p.tokens[i] # 0
  <2>1. PICK first \in 1..i, base \in Nat :
          /\ StartsAt(p.tokens, first, i) /\ Top(pos, first - 1, base)
          /\ WithinGrid(pos[i], base, p.grids[p.tokens[i]])
          /\ \A j \in first..(i - 1) : pos[j] # pos[i]
    BY <1>4 DEF Right, AtImage
  <2>2. first - 1 \in 0..n /\ \A j \in first..(i - 1) : j \in 1..n
    OBVIOUS
  <2>3. Top(q, first - 1, base)
    BY <1>1, <2>1, <2>2
  <2>4. WithinGrid(q[i], base, p.grids[p.tokens[i]])
    BY <1>2, <2>1
  <2>5. \A j \in first..(i - 1) : q[j] # q[i]
    BY <1>2, <2>1, <2>2
  <2> QED BY <1>4, <2>1, <2>3, <2>4, <2>5 DEF Right, AtImage
<1> QED BY <1>3, <1>4

\* What is after the first n of q.
Joins(q, T, pos, n, more, m) ==
         /\ q \in Seq(T) /\ Len(q) = n + m
         /\ \A j \in 1..n : q[j] = pos[j]
         /\ \A i \in 1..m : q[n + i] = more[i]

\* To a part that is placed, more is added that is placed.
LEMMA Appended ==
  ASSUME NEW T, NEW pos \in Seq(T), NEW n \in Nat, Len(pos) = n, NEW m \in Nat, NEW more \in [1..m -> T]
  PROVE  Joins(pos \o more, T, pos, n, more, m)
<1>1. more \in Seq(T) /\ Len(more) = m
  BY SeqDef, LenProperties
<1>2. pos \o more \in Seq(T) /\ Len(pos \o more) = n + m
  BY <1>1
<1>3. \A j \in 1..n : (pos \o more)[j] = pos[j]
  BY <1>1
<1>4. \A i \in 1..m : (pos \o more)[n + i] = more[i]
  BY <1>1
<1> QED BY <1>2, <1>3, <1>4 DEF Joins

\* The walk over a stretch of text places it, one token after another.
LEMMA TextOn ==
  ASSUME NEW p, IsPrompt(p), NEW pos, NEW n, NEW M, Placed(p, pos, n, M),
         NEW m \in Nat, n + m <= Len(p.tokens),
         \A i \in (n + 1)..(n + m) : p.tokens[i] = 0
  PROVE  Placed(p, pos \o [i \in 1..m |-> Same(M + i - 1)], n + m, M + m)
<1>1. PICK L \in Nat : L = Len(p.tokens)
  BY FlagsAre
<1>2. pos \in Seq(Places) /\ Len(pos) = n /\ n \in 0..L /\ n \in Nat /\ Top(pos, n, M) /\ M \in Nat
  BY <1>1 DEF Placed, Top
<1>3. PICK more : more = [i \in 1..m |-> Same(M + i - 1)]
  OBVIOUS
<1>4. \A i \in 1..m : more[i] = <<M + i - 1, M + i - 1, M + i - 1>>
  BY <1>3 DEF Same
<1>5. more \in [1..m -> Places]
  <2>1. \A i \in 1..m : Same(M + i - 1) \in Places
    BY <1>2 DEF Same, Places
  <2> QED BY <1>3, <2>1
<1>6. PICK q : q = pos \o more
  OBVIOUS
<1>7. /\ q \in Seq(Places) /\ Len(q) = n + m
      /\ \A j \in 1..n : q[j] = pos[j]
      /\ \A i \in 1..m : q[n + i] = more[i]
  <2>1. Joins(pos \o more, Places, pos, n, more, m)
    BY <1>2, <1>5, Appended
  <2> QED BY <1>6, <2>1 DEF Joins
<1>8. ASSUME NEW i \in 0..m PROVE Top(q, n + i, M + i)
  <2>1. ASSUME NEW j \in 1..(n + i), NEW d \in 1..3 PROVE q[j][d] < M + i
    <3>1. CASE j <= n
      <4>1. j \in 1..n /\ q[j] = pos[j]
        BY <1>2, <1>7, <3>1
      <4>2. pos[j][d] < M
        BY <1>2, <4>1 DEF Top
      <4>3. pos[j] \in Places
        BY <1>2, <4>1
      <4>4. pos[j][d] \in Int
        BY <4>3 DEF Places
      <4> QED BY <1>2, <4>1, <4>2, <4>4
    <3>2. CASE ~ (j <= n)
      <4>1. PICK x : x = j - n
        OBVIOUS
      <4>2. x \in 1..m /\ x <= i /\ j = n + x
        BY <1>2, <3>2, <4>1
      <4>3. q[j] = <<M + x - 1, M + x - 1, M + x - 1>>
        BY <1>4, <1>7, <4>2
      <4>4. q[j][d] = M + x - 1
        BY <4>3
      <4> QED BY <1>2, <4>2, <4>4
    <3> QED BY <3>1, <3>2
  <2>2. M + i = 0 \/ \E j \in 1..(n + i) : \E d \in 1..3 : q[j][d] + 1 = M + i
    <3>1. CASE i = 0
      <4>1. CASE M = 0
        BY <3>1, <4>1
      <4>2. CASE M # 0
        <5>1. PICK j \in 1..n, d \in 1..3 : pos[j][d] + 1 = M
          BY <1>2, <4>2 DEF Top
        <5>2. j \in 1..(n + i) /\ q[j] = pos[j] /\ M + i = M
          BY <1>2, <1>7, <3>1
        <5> QED BY <5>1, <5>2
      <4> QED BY <4>1, <4>2
    <3>2. CASE i # 0
      <4>1. i \in 1..m /\ n + i \in 1..(n + i)
        BY <1>2, <3>2
      <4>2. q[n + i] = <<M + i - 1, M + i - 1, M + i - 1>>
        BY <1>4, <1>7, <4>1
      <4>3. q[n + i][1] + 1 = M + i /\ 1 \in 1..3
        BY <1>2, <4>2
      <4> QED BY <4>1, <4>3
    <3> QED BY <3>1, <3>2
  <2>3. M + i \in Nat
    BY <1>2
  <2> QED BY <2>1, <2>2, <2>3 DEF Top
<1>9. \A i \in 1..n : Right(p, q, i)
  <2> TAKE i \in 1..n
  <2>1. Right(p, pos, i)
    BY DEF Placed
  <2> QED BY <1>2, <1>7, <2>1, RightLonger
<1>10. ASSUME NEW j \in 1..(n + m), ~ (j <= n) PROVE Right(p, q, j)
  <2>1. PICK i : i = j - n
    OBVIOUS
  <2>2. i \in 1..m /\ j = n + i /\ j \in (n + 1)..(n + m) /\ i - 1 \in 0..m /\ j - 1 = n + (i - 1)
    BY <1>2, <1>10, <2>1
  <2>3. p.tokens[j] = 0
    BY <2>2
  <2>4. PICK x : x = M + (i - 1)
    OBVIOUS
  <2>5. Top(q, j - 1, x)
    BY <1>8, <2>2, <2>4
  <2>6. q[j] = <<M + i - 1, M + i - 1, M + i - 1>> /\ x = M + i - 1 /\ x \in Nat
    <3>1. x = M + i - 1 /\ x \in Nat
      BY <1>2, <2>2, <2>4
    <3>2. q[j] = more[i] /\ more[i] = <<M + i - 1, M + i - 1, M + i - 1>>
      BY <1>4, <1>7, <2>2
    <3> QED BY <3>1, <3>2
  <2>7. AtText(q, j)
    BY <2>5, <2>6 DEF AtText
  <2> QED BY <2>3, <2>7 DEF Right
<1>11. \A j \in 1..(n + m) : Right(p, q, j)
  <2> TAKE j \in 1..(n + m)
  <2>1. j <= n => j \in 1..n
    BY <1>2
  <2> QED BY <1>9, <1>10, <2>1
<1>12. n + m \in 0..L /\ Top(q, n + m, M + m)
  BY <1>1, <1>2, <1>8
<1> QED BY <1>1, <1>3, <1>6, <1>7, <1>11, <1>12 DEF Placed

\* The least above a grid's positions is its longest side beyond its base.
LEMMA ExtentIs ==
  ASSUME NEW g \in [t : Nat \ {0}, h : Nat \ {0}, w : Nat \ {0}]
  PROVE  /\ Extent(g) \in {g.t, g.h, g.w} /\ Extent(g) \in Nat
         /\ g.t <= Extent(g) /\ g.h <= Extent(g) /\ g.w <= Extent(g)
<1>1. g.t \in Nat /\ g.h \in Nat /\ g.w \in Nat
  OBVIOUS
<1>2. \E x \in {g.t, g.h, g.w} : \A y \in {g.t, g.h, g.w} : x >= y
  <2>1. PICK a, b, c : a = g.t /\ b = g.h /\ c = g.w
    OBVIOUS
  <2>2. a \in Nat /\ b \in Nat /\ c \in Nat
    BY <1>1, <2>1
  <2>3. \E x \in {a, b, c} : x >= a /\ x >= b /\ x >= c
    BY <2>2
  <2> QED BY <2>1, <2>3
<1>3. Extent(g) = CHOOSE x \in {g.t, g.h, g.w} : \A y \in {g.t, g.h, g.w} : x >= y
  BY DEF Extent, Max
<1>4. PICK S : S = {g.t, g.h, g.w}
  OBVIOUS
<1>5. Extent(g) \in S /\ \A y \in S : Extent(g) >= y
  BY <1>2, <1>3, <1>4
<1> QED BY <1>1, <1>4, <1>5

\* The walk over a run places the tokens of its image.
LEMMA ImageOn ==
  ASSUME NEW p, IsPrompt(p), NEW pos, NEW n, NEW M, Placed(p, pos, n, M),
         NEW v \in 1..Len(p.grids), NEW m,
         m = p.grids[v].t * p.grids[v].h * p.grids[v].w, n + m <= Len(p.tokens),
         \A i \in (n + 1)..(n + m) : p.tokens[i] = v,
         n = 0 \/ p.tokens[n] # v
  PROVE  Placed(p, pos \o GridPositions(M, p.grids[v]), n + m, M + Extent(p.grids[v]))
<1>1. PICK L \in Nat : L = Len(p.tokens)
  BY FlagsAre
<1>2. pos \in Seq(Places) /\ Len(pos) = n /\ n \in 0..L /\ n \in Nat /\ Top(pos, n, M) /\ M \in Nat
  BY <1>1 DEF Placed, Top
<1>3. PICK g, t, h, w : g = p.grids[v] /\ t = g.t /\ h = g.h /\ w = g.w
  OBVIOUS
<1>4. g \in [t : Nat \ {0}, h : Nat \ {0}, w : Nat \ {0}]
  <2>1. PICK G : G = [t : Nat \ {0}, h : Nat \ {0}, w : Nat \ {0}]
    OBVIOUS
  <2>2. p.grids \in Seq(G)
    BY <2>1 DEF IsPrompt
  <2>3. p.grids[v] \in G
    BY <2>2
  <2> QED BY <1>3, <2>1, <2>3
<1>5. t \in Nat \ {0} /\ h \in Nat \ {0} /\ w \in Nat \ {0}
  BY <1>3, <1>4
<1>6. PICK D : D = h * w
  OBVIOUS
<1>7. /\ m \in Nat \ {0} /\ D \in Nat \ {0}
      /\ \A u \in 0..(m - 1) :
              /\ u \div D \in 0..(t - 1) /\ (u \div w) % h \in 0..(h - 1) /\ u % w \in 0..(w - 1)
              /\ \A z \in 0..(m - 1) :
                   /\ u \div D = z \div D
                   /\ (u \div w) % h = (z \div w) % h
                   /\ u % w = z % w
                   => u = z
      /\ (m - 1) \div D = t - 1
      /\ ((m - 1) \div w) % h = h - 1
      /\ (m - 1) % w = w - 1
  <2>1. m = t * h * w
    BY <1>3
  <2> QED
    <3>1. GridPlaces(t, h, w, m, D)
      BY <1>5, <1>6, <2>1, PlaceInGrid, Zenon
    <3> QED BY <3>1 DEF GridPlaces
<1>70. m \in Nat /\ m # 0
  BY <1>7
<1>8. PICK more : more = GridPositions(M, g)
  OBVIOUS
<1>9. /\ DOMAIN more = 1..m /\ more = [i \in 1..m |-> more[i]]
      /\ \A i \in 1..m : more[i] = <<M + (i - 1) \div D, M + (((i - 1) \div w) % h), M + ((i - 1) % w)>>
  <2>1. more = [i \in 1..m |-> <<M + (i - 1) \div D, M + (((i - 1) \div w) % h), M + ((i - 1) % w)>>]
    BY <1>3, <1>6, <1>7, <1>8 DEF GridPositions
  <2> QED BY <2>1
<1>10. \A i \in 1..m : WithinGrid(more[i], M, g) /\ more[i] \in Places
  <2> TAKE i \in 1..m
  <2>1. i - 1 \in 0..(m - 1)
    BY <1>70
  <2>2. PICK a, b, c : a = (i - 1) \div D /\ b = ((i - 1) \div w) % h /\ c = (i - 1) % w
    OBVIOUS
  <2>3. a \in 0..(t - 1) /\ b \in 0..(h - 1) /\ c \in 0..(w - 1)
    BY <1>7, <2>1, <2>2
  <2>4. more[i] = <<M + a, M + b, M + c>>
    BY <1>9, <2>2
  <2>5. M + a \in M..(M + t - 1) /\ M + b \in M..(M + h - 1) /\ M + c \in M..(M + w - 1)
    BY <1>2, <1>5, <2>3
  <2>6. WithinGrid(more[i], M, g)
    BY <1>3, <2>4, <2>5 DEF WithinGrid
  <2>7. M + a \in Int /\ M + b \in Int /\ M + c \in Int
    BY <1>2, <1>5, <2>3
  <2> QED BY <2>4, <2>6, <2>7 DEF Places
<1>11. \A i, j \in 1..m : more[i] = more[j] => i = j
  <2> TAKE i, j \in 1..m
  <2>1. ASSUME more[i] = more[j] PROVE i = j
    <3>1. PICK x, y : x = i - 1 /\ y = j - 1
      OBVIOUS
    <3>2. x \in 0..(m - 1) /\ y \in 0..(m - 1)
      BY <1>70, <3>1
    <3>3. <<M + x \div D, M + ((x \div w) % h), M + (x % w)>> = <<M + y \div D, M + ((y \div w) % h), M + (y % w)>>
      BY <1>9, <2>1, <3>1
    <3>4. PICK a, b, c, d, e, f : /\ a = x \div D /\ b = (x \div w) % h /\ c = x % w
                                  /\ d = y \div D /\ e = (y \div w) % h /\ f = y % w
      OBVIOUS
    <3>5. a \in Int /\ b \in Int /\ c \in Int /\ d \in Int /\ e \in Int /\ f \in Int
      <4>1. a \in 0..(t - 1) /\ b \in 0..(h - 1) /\ c \in 0..(w - 1)
        BY <1>7, <3>2, <3>4, Zenon
      <4>2. d \in 0..(t - 1) /\ e \in 0..(h - 1) /\ f \in 0..(w - 1)
        BY <1>7, <3>2, <3>4, Zenon
      <4> QED BY <1>5, <4>1, <4>2
    <3>6. M + a = M + d /\ M + b = M + e /\ M + c = M + f
      BY <3>3, <3>4
    <3>7. a = d /\ b = e /\ c = f
      BY <1>2, <3>5, <3>6
    <3>8. x = y
      BY <1>7, <3>2, <3>4, <3>7
    <3> QED BY <3>1, <3>8
  <2> QED BY <2>1
<1>12. PICK q : q = pos \o more
  OBVIOUS
<1>13. /\ q \in Seq(Places) /\ Len(q) = n + m
       /\ \A j \in 1..n : q[j] = pos[j]
       /\ \A i \in 1..m : q[n + i] = more[i]
  <2>1. more \in [1..m -> Places]
    BY <1>9, <1>10
  <2>2. m \in Nat
    BY <1>70
  <2>3. Joins(pos \o more, Places, pos, n, more, m)
    BY <1>2, <2>1, <2>2, Appended
  <2> QED BY <1>12, <2>3 DEF Joins
<1>14. PICK E : E = Extent(g)
  OBVIOUS
<1>15. E \in {t, h, w} /\ E \in Nat /\ t <= E /\ h <= E /\ w <= E
  BY <1>3, <1>4, <1>14, ExtentIs
<1>16. Top(q, n + m, M + E)
  <2>1. ASSUME NEW j \in 1..(n + m), NEW d \in 1..3 PROVE q[j][d] < M + E
    <3>1. CASE j <= n
      <4>1. j \in 1..n /\ q[j] = pos[j]
        BY <1>2, <1>70, <1>13, <3>1
      <4>2. pos[j][d] < M
        BY <1>2, <4>1 DEF Top
      <4>3. pos[j] \in Places
        BY <1>2, <4>1
      <4>4. pos[j][d] \in Int
        BY <4>3 DEF Places
      <4> QED BY <1>2, <1>15, <4>1, <4>2, <4>4
    <3>2. CASE ~ (j <= n)
      <4>1. PICK x : x = j - n
        OBVIOUS
      <4>2. x \in 1..m /\ j = n + x
        BY <1>2, <1>70, <3>2, <4>1
      <4>3. WithinGrid(q[j], M, g)
        BY <1>10, <1>13, <4>2
      <4>4. q[j] \in (M..(M + t - 1)) \X (M..(M + h - 1)) \X (M..(M + w - 1))
        BY <1>3, <4>3 DEF WithinGrid
      <4>5. PICK a, b, c : a = q[j][1] /\ b = q[j][2] /\ c = q[j][3]
        OBVIOUS
      <4>6. a \in M..(M + t - 1) /\ b \in M..(M + h - 1) /\ c \in M..(M + w - 1)
        BY <4>4, <4>5
      <4>7. a < M + E /\ b < M + E /\ c < M + E
        BY <1>2, <1>5, <1>15, <4>6
      <4> QED BY <4>5, <4>7
    <3> QED BY <3>1, <3>2
  <2>2. \E d \in 1..3 : q[n + m][d] + 1 = M + E
    <3>1. m \in 1..m
      BY <1>70
    <3>2. q[n + m] = <<M + (t - 1), M + (h - 1), M + (w - 1)>>
      <4>1. q[n + m] = more[m]
        BY <1>13, <3>1
      <4> QED BY <1>7, <1>9, <3>1, <4>1
    <3>3. M + (t - 1) + 1 = M + t /\ M + (h - 1) + 1 = M + h /\ M + (w - 1) + 1 = M + w
      BY <1>2, <1>5
    <3>4. q[n + m][1] + 1 = M + t /\ q[n + m][2] + 1 = M + h /\ q[n + m][3] + 1 = M + w
      BY <3>2, <3>3
    <3>5. 1 \in 1..3 /\ 2 \in 1..3 /\ 3 \in 1..3
      OBVIOUS
    <3> QED BY <1>15, <3>4, <3>5
  <2>3. M + E \in Nat /\ n + m \in 1..(n + m)
    BY <1>2, <1>70, <1>15
  <2> QED BY <2>1, <2>2, <2>3 DEF Top
<1>17. \A i \in 1..n : Right(p, q, i)
  <2> TAKE i \in 1..n
  <2>1. Right(p, pos, i)
    BY DEF Placed
  <2> QED BY <1>2, <1>13, <2>1, RightLonger
<1>18. ASSUME NEW j \in 1..(n + m), ~ (j <= n) PROVE Right(p, q, j)
  <2>1. PICK i : i = j - n
    OBVIOUS
  <2>2. i \in 1..m /\ j = n + i /\ j \in (n + 1)..(n + m)
    BY <1>2, <1>70, <1>18, <2>1
  <2>3. p.tokens[j] = v /\ v # 0
    BY <2>2
  <2>4. StartsAt(p.tokens, n + 1, j)
    <3>1. n + 1 \in 1..j /\ (n + 1) - 1 = n
      BY <1>2, <2>2
    <3>2. \A k \in (n + 1)..j : p.tokens[k] = v
      <4> TAKE k \in (n + 1)..j
      <4>1. k \in (n + 1)..(n + m)
        BY <1>2, <1>70, <2>2
      <4> QED BY <4>1
    <3>3. n + 1 = 1 \/ p.tokens[(n + 1) - 1] # v
      BY <1>2, <3>1
    <3> QED BY <2>3, <3>1, <3>2, <3>3 DEF StartsAt
  <2>5. Top(q, (n + 1) - 1, M)
    <3>1. Top(q, n, M)
      <4>1. n \in 0..n
        BY <1>2
      <4> QED BY <1>2, <1>13, <4>1, TopLonger
    <3>2. (n + 1) - 1 = n
      BY <1>2
    <3> QED BY <3>1, <3>2
  <2>6. WithinGrid(q[j], M, p.grids[p.tokens[j]])
    BY <1>3, <1>10, <1>13, <2>2, <2>3
  <2>7. ASSUME NEW k \in (n + 1)..(j - 1) PROVE q[k] # q[j]
    <3>1. PICK x : x = k - n
      OBVIOUS
    <3>2. x \in 1..m /\ k = n + x /\ x # i
      BY <1>2, <1>70, <2>2, <3>1
    <3>3. q[k] = more[x] /\ q[j] = more[i]
      BY <1>13, <2>2, <3>2
    <3> QED BY <1>11, <2>2, <3>2, <3>3
  <2>8. n + 1 \in 1..j
    BY <1>2, <2>2
  <2>9. AtImage(p, q, j)
    BY <1>2, <2>4, <2>5, <2>6, <2>7, <2>8 DEF AtImage
  <2> QED BY <2>3, <2>9 DEF Right
<1>19. \A j \in 1..(n + m) : Right(p, q, j)
  <2> TAKE j \in 1..(n + m)
  <2>1. j <= n => j \in 1..n
    BY <1>2, <1>70
  <2> QED BY <1>17, <1>18, <2>1
<1>20. n + m \in 0..L
  BY <1>1, <1>2, <1>70
<1> QED BY <1>1, <1>3, <1>8, <1>12, <1>13, <1>14, <1>16, <1>19, <1>20 DEF Placed

-----------------------------------------------------------------------------
(* The walk over runs.                                                     *)

\* f is defined on 0..n by its first value, a, and a step, g.
Iterates(f, n, a, g) == f = [i \in 0..n |-> IF i = 0 THEN a ELSE g[<<i, f[i-1]>>]]

\* Such a function exists.
LEMMA Recursion ==
  ASSUME NEW n \in Nat, NEW S, NEW a \in S, NEW g \in [(1..n) \X S -> S]
  PROVE  \E f \in [0..n -> S] : Iterates(f, n, a, g)
<1> USE DEF Iterates
<1> DEFINE Defined(m, f) == Iterates(f, m, a, g)
           bad == {m \in 0..n : ~ \E f \in [0..m -> S] : Defined(m, f)}
<1>1. SUFFICES ASSUME bad # {} PROVE FALSE
  <2>1. n \in 0..n
    OBVIOUS
  <2>2. n \notin bad
    BY <1>1
  <2>3. \E f \in [0..n -> S] : Defined(n, f)
    BY <2>1, <2>2
  <2> QED BY <2>3
<1>2. PICK m : m \in bad /\ \A k \in bad : m <= k
  <2>1. bad \subseteq Nat
    OBVIOUS
  <2> HIDE DEF bad
  <2> QED BY <1>1, <2>1, Least
<1>3. m \in 0..n /\ ~ \E f \in [0..m -> S] : Defined(m, f)
  BY <1>2
<1>4. CASE m = 0
  <2>1. Defined(0, [i \in 0..0 |-> a]) /\ [i \in 0..0 |-> a] \in [0..0 -> S]
    OBVIOUS
  <2> QED BY <1>3, <1>4, <2>1
<1>5. CASE m # 0
  <2>1. m - 1 \in 0..n /\ m - 1 \notin bad
    BY <1>2, <1>3, <1>5
  <2>2. PICK f \in [0..(m-1) -> S] : Defined(m-1, f)
    BY <2>1
  <2>3. g[<<m, f[m-1]>>] \in S
    BY <1>3, <1>5, <2>2
  <2> DEFINE h == [i \in 0..m |-> IF i = m THEN g[<<m, f[m-1]>>] ELSE f[i]]
  <2>4. h \in [0..m -> S]
    BY <1>3, <1>5, <2>2, <2>3
  <2>5. \A i \in 0..m : h[i] = IF i = 0 THEN a ELSE g[<<i, h[i-1]>>]
    <3>1. TAKE i \in 0..m
    <3>2. CASE i = m
      <4>1. h[i-1] = f[m-1]
        BY <3>2, <1>3, <1>5
      <4> QED BY <3>2, <4>1, <1>5
    <3>3. CASE i # m
      <4>1. i \in 0..(m-1)
        BY <3>3, <1>3
      <4>2. f[i] = IF i = 0 THEN a ELSE g[<<i, f[i-1]>>]
        BY <4>1, <2>2
      <4>3. h[i] = f[i] /\ (i # 0 => h[i-1] = f[i-1])
        BY <3>3, <4>1, <1>3
      <4> QED BY <4>2, <4>3
    <3> QED BY <3>2, <3>3
  <2>6. Defined(m, h)
    <3> HIDE DEF h
    <3> QED BY <2>4, <2>5
  <2> QED BY <2>4, <2>6, <1>3
<1> QED BY <1>4, <1>5

Grids == [t : Nat \ {0}, h : Nat \ {0}, w : Nat \ {0}]

WalkStates == [positions : Seq(Places), position : Int, token : Int]

\* An image's positions are positions.
LEMMA GridIsPlaces ==
  ASSUME NEW g \in Grids, NEW base \in Int
  PROVE  /\ g.t * g.h * g.w \in Nat
         /\ GridPositions(base, g) \in [1..(g.t * g.h * g.w) -> Places]
<1>1. PICK t, h, w, n, d : t = g.t /\ h = g.h /\ w = g.w /\ n = t * h * w /\ d = h * w
  OBVIOUS
<1>2. t \in Nat \ {0} /\ h \in Nat \ {0} /\ w \in Nat \ {0}
  BY <1>1 DEF Grids
<1>3. GridPlaces(t, h, w, n, d)
  BY <1>1, <1>2, PlaceInGrid, Zenon
<1>4. n \in Nat
  BY <1>3 DEF GridPlaces
<1>5. ASSUME NEW i \in 1..n
      PROVE  <<base + (i - 1) \div d, base + (((i - 1) \div w) % h), base + ((i - 1) % w)>> \in Places
  <2>1. PICK u, a, b, c : u = i - 1 /\ a = u \div d /\ b = (u \div w) % h /\ c = u % w
    OBVIOUS
  <2>2. u \in 0..(n - 1)
    BY <1>4, <2>1
  <2>3. a \in 0..(t - 1) /\ b \in 0..(h - 1) /\ c \in 0..(w - 1)
    BY <1>3, <2>1, <2>2, Zenon DEF GridPlaces
  <2>4. base + a \in Int /\ base + b \in Int /\ base + c \in Int
    BY <1>2, <2>3
  <2> QED BY <2>1, <2>4 DEF Places
<1>6. GridPositions(base, g) =
        [i \in 1..n |-> <<base + (i - 1) \div d, base + (((i - 1) \div w) % h), base + ((i - 1) % w)>>]
  BY <1>1, Zenon DEF GridPositions
<1>7. GridPositions(base, g) \in [1..n -> Places]
  BY <1>5, <1>6
<1> QED BY <1>1, <1>4, <1>7, Zenon

\* The walk over one more run gives a state of the walk.
LEMMA WalkStays ==
  ASSUME NEW s \in WalkStates, NEW run \in [start : Nat, end : Nat], NEW g \in Grids
  PROVE  WalkRun(s, run, g) \in WalkStates
<1>1. PICK a, e, pos, M, T : /\ a = run.start /\ e = run.end
                             /\ pos = s.positions /\ M = s.position /\ T = s.token
  OBVIOUS
<1>2. a \in Nat /\ e \in Nat /\ pos \in Seq(Places) /\ M \in Int /\ T \in Int
  BY <1>1 DEF WalkStates
<1>3. PICK m, text, base : m = a - T /\ text = [i \in 1..m |-> Same(M + i - 1)] /\ base = M + m
  OBVIOUS
<1>4. m \in Int /\ base \in Int
  BY <1>2, <1>3
<1>5. PICK n \in Nat : 1..m = 1..n
  <2>1. CASE m \in Nat
    BY <2>1
  <2>2. CASE m \notin Nat
    <3>1. 1..m = 1..0
      BY <1>4, <2>2
    <3> QED BY <3>1
  <2> QED BY <2>1, <2>2
<1>6. text \in [1..n -> Places]
  <2>1. \A i \in 1..n : Same(M + i - 1) \in Places
    BY <1>2 DEF Same, Places
  <2> QED BY <1>3, <1>5, <2>1
<1>7. pos \o text \in Seq(Places)
  <2>1. PICK l \in Nat : l = Len(pos)
    BY <1>2
  <2>2. Joins(pos \o text, Places, pos, l, text, n)
    BY <1>2, <1>6, <2>1, Appended
  <2> QED BY <2>2 DEF Joins
<1>8. (pos \o text) \o GridPositions(base, g) \in Seq(Places)
  <2>1. PICK l \in Nat : l = Len(pos \o text)
    BY <1>7
  <2>2. PICK k, more : k = g.t * g.h * g.w /\ more = GridPositions(base, g)
    OBVIOUS
  <2>3. k \in Nat /\ more \in [1..k -> Places]
    BY <1>4, <2>2, GridIsPlaces, Zenon
  <2>4. Joins((pos \o text) \o more, Places, pos \o text, l, more, k)
    BY <1>7, <2>1, <2>3, Appended
  <2> QED BY <2>2, <2>4 DEF Joins
<1>9. Extent(g) \in Nat
  BY ExtentIs DEF Grids
<1>10. WalkRun(s, run, g) =
         [positions |-> (pos \o text) \o GridPositions(base, g), position |-> base + Extent(g), token |-> e]
  BY <1>1, <1>3, Zenon DEF WalkRun
<1>11. base + Extent(g) \in Int
  BY <1>4, <1>9
<1> QED BY <1>2, <1>8, <1>10, <1>11 DEF WalkStates

StartState == [positions |-> <<>>, position |-> 0, token |-> 0]

\* f is the walk over the runs of p.
IsWalk(p, f) ==
  f = [k \in 0..Len(RunsOf(p)) |->
         IF k = 0 THEN StartState ELSE WalkRun(f[k - 1], RunsOf(p)[k], p.grids[k])]

\* The recursive definition of the walk has a value for each number of
\* runs.
LEMMA WalkExists ==
  ASSUME NEW p, IsPrompt(p), Len(RunsOf(p)) = Len(p.grids)
  PROVE  \E f : IsWalk(p, f)
<1>1. PICK r, n : r = RunsOf(p) /\ n = Len(r)
  OBVIOUS
<1>2. n \in Nat /\ \A k \in 1..n : r[k] \in [start : Nat, end : Nat] /\ p.grids[k] \in Grids
  <2>1. r \in Seq([start : Nat, end : Nat])
    BY <1>1, PromptRuns
  <2>2. p.grids \in Seq(Grids)
    BY DEF IsPrompt, Grids
  <2>3. PICK R, G, grids : R = [start : Nat, end : Nat] /\ G = Grids /\ grids = p.grids
    OBVIOUS
  <2>4. r \in Seq(R) /\ grids \in Seq(G) /\ Len(grids) = n
    BY <1>1, <2>1, <2>2, <2>3
  <2>5. n \in Nat /\ \A k \in 1..n : r[k] \in R /\ grids[k] \in G
    BY <1>1, <2>4
  <2> QED BY <2>3, <2>5
<1>3. StartState \in WalkStates
  BY DEF StartState, WalkStates
<1> DEFINE g == [x \in (1..n) \X WalkStates |-> WalkRun(x[2], r[x[1]], p.grids[x[1]])]
<1>4. g \in [(1..n) \X WalkStates -> WalkStates]
  <2>1. ASSUME NEW x \in (1..n) \X WalkStates
        PROVE  WalkRun(x[2], r[x[1]], p.grids[x[1]]) \in WalkStates
    <3>1. PICK k, s : k = x[1] /\ s = x[2] /\ k \in 1..n /\ s \in WalkStates
      OBVIOUS
    <3>2. WalkRun(s, r[k], p.grids[k]) \in WalkStates
      BY <1>2, <3>1, WalkStays
    <3> QED BY <3>1, <3>2
  <2> QED BY <2>1
<1>5. \A k \in 1..n : \A s \in WalkStates : g[<<k, s>>] = WalkRun(s, r[k], p.grids[k])
  OBVIOUS
<1> HIDE DEF g
<1>6. PICK f \in [0..n -> WalkStates] : Iterates(f, n, StartState, g)
  <2>1. PICK a, Q : a = StartState /\ Q = WalkStates
    OBVIOUS
  <2>2. a \in Q /\ g \in [(1..n) \X Q -> Q]
    BY <1>3, <1>4, <2>1
  <2>3. \E f \in [0..n -> Q] : Iterates(f, n, a, g)
    BY <1>2, <2>2, Recursion
  <2> QED BY <2>1, <2>3
<1>7. ASSUME NEW k \in 0..n
      PROVE  f[k] = IF k = 0 THEN StartState ELSE WalkRun(f[k - 1], r[k], p.grids[k])
  <2>1. f[k] = IF k = 0 THEN StartState ELSE g[<<k, f[k - 1]>>]
    BY <1>6 DEF Iterates
  <2>2. CASE k = 0
    BY <2>1, <2>2
  <2>3. CASE k # 0
    <3>1. k \in 1..n /\ k - 1 \in 0..n
      BY <1>2, <2>3
    <3>2. f[k - 1] \in WalkStates
      BY <1>6, <3>1
    <3> QED BY <1>5, <2>1, <2>3, <3>1, <3>2
  <2> QED BY <2>2, <2>3
<1>8. f = [k \in 0..n |-> f[k]]
  BY <1>6
<1>9. f = [k \in 0..n |-> IF k = 0 THEN StartState ELSE WalkRun(f[k - 1], r[k], p.grids[k])]
  BY <1>7, <1>8
<1> QED BY <1>1, <1>9, Zenon DEF IsWalk

Walk(p) == CHOOSE f : IsWalk(p, f)

\* The walk of a prompt starts at nothing, and goes from run to run.
LEMMA WalkIs ==
  ASSUME NEW p, IsPrompt(p), Len(RunsOf(p)) = Len(p.grids)
  PROVE  IsWalk(p, Walk(p))
BY WalkExists DEF Walk

\* What is no image's is text, up to the run and after the last.
LEMMA TextBeforeRun ==
  ASSUME NEW p, IsPrompt(p), NEW k \in 1..(Len(RunsOf(p)) + 1), NEW i \in 1..Len(p.tokens),
         k > 1 => RunsOf(p)[k - 1].end < i,
         k <= Len(RunsOf(p)) => i <= RunsOf(p)[k].start
  PROVE  p.tokens[i] = 0
<1>1. PICK r, n : r = RunsOf(p) /\ n = Len(r)
  OBVIOUS
<1>2. n \in Nat
  BY <1>1, PromptRuns
<1>3. SUFFICES ASSUME p.tokens[i] # 0 PROVE FALSE
  OBVIOUS
<1>4. p.tokens[i] > 0
  <2>1. p.tokens[i] \in 0..Len(p.grids) /\ Len(p.grids) \in Nat
    BY FlagsAre
  <2> QED BY <1>3, <2>1
<1>5. PICK l \in 1..n : r[l].start < i /\ i <= r[l].end
  BY <1>1, <1>4, PromptRuns
<1>6. \A j \in 1..n : r[j].start \in Nat /\ r[j].end \in Nat /\ r[j].start < r[j].end
  BY <1>1, PromptRuns
<1>7. \A a, b \in 1..n : a < b => r[a].end < r[b].start
  BY <1>1, PromptRuns
<1>8. i \in Nat /\ k \in Nat /\ l \in Nat
  BY <1>2
<1>9. CASE l < k
  <2>1. PICK j : j = k - 1
    OBVIOUS
  <2>2. j \in 1..n /\ l <= j /\ k > 1
    BY <1>1, <1>2, <1>9, <2>1
  <2>3. r[j].end < i
    BY <1>1, <2>1, <2>2
  <2>4. CASE l = j
    BY <1>5, <1>6, <1>8, <2>2, <2>3, <2>4
  <2>5. CASE l # j
    <3>1. r[l].end < r[j].start
      BY <1>7, <1>8, <2>2, <2>5
    <3> QED BY <1>5, <1>6, <1>8, <2>2, <2>3, <3>1
  <2> QED BY <2>4, <2>5
<1>10. CASE ~ (l < k)
  <2>1. k \in 1..n
    BY <1>1, <1>2, <1>8, <1>10
  <2>2. i <= r[k].start
    BY <1>1, <2>1
  <2>3. CASE l = k
    BY <1>5, <1>6, <1>8, <2>1, <2>2, <2>3
  <2>4. CASE l # k
    <3>1. r[k].end < r[l].start
      BY <1>7, <1>8, <1>10, <2>1, <2>4
    <3> QED BY <1>5, <1>6, <1>8, <2>1, <2>2, <3>1
  <2> QED BY <2>3, <2>4
<1> QED BY <1>9, <1>10

\* What the walk has placed after k runs.
Walked(p, f, k) ==
  /\ Placed(p, f[k].positions, f[k].token, f[k].position)
  /\ f[k].token = IF k = 0 THEN 0 ELSE RunsOf(p)[k].end

\* No token is placed, and the next place is 0.
LEMMA NothingPlaced ==
  ASSUME NEW p, IsPrompt(p)
  PROVE  Placed(p, <<>>, 0, 0)
<1>1. Len(p.tokens) \in Nat
  BY FlagsAre
<1>2. <<>> \in Seq(Places) /\ Len(<<>>) = 0
  OBVIOUS
<1>3. Top(<<>>, 0, 0)
  BY DEF Top
<1> QED BY <1>1, <1>2, <1>3 DEF Placed

\* If the walk has placed what is up to a run, it places the run.
LEMMA WalkOn ==
  ASSUME NEW p, IsPrompt(p), GridsFit(p), NEW f, IsWalk(p, f), NEW k \in 1..Len(RunsOf(p)),
         Walked(p, f, k - 1)
  PROVE  Walked(p, f, k)
<1>1. PICK r, n, s, pos, T, M : /\ r = RunsOf(p) /\ n = Len(r) /\ s = f[k - 1]
                                /\ pos = s.positions /\ T = s.token /\ M = s.position
  OBVIOUS
<1>2. n \in Nat /\ k \in 1..n
  BY <1>1, PromptRuns
<1>3. PICK a, e : a = r[k].start /\ e = r[k].end
  OBVIOUS
<1>4. PICK L \in Nat : L = Len(p.tokens)
  BY FlagsAre
<1>5. a \in Nat /\ e \in Nat /\ a < e /\ e <= L /\ (a = 0 \/ p.tokens[a] = 0)
  BY <1>1, <1>3, <1>4, PromptRuns
<1>6. Placed(p, pos, T, M) /\ T = IF k - 1 = 0 THEN 0 ELSE r[k - 1].end
  BY <1>1, Zenon DEF Walked
<1>7. T \in 0..L /\ T <= a /\ M \in Nat
  <2>1. T \in 0..L /\ M \in Nat
    BY <1>4, <1>6 DEF Placed, Top
  <2>2. CASE k = 1
    BY <1>5, <1>6, <2>1, <2>2
  <2>3. CASE k # 1
    <3>1. k - 1 \in 1..n /\ k - 1 < k /\ k - 1 # 0
      BY <1>2, <2>3
    <3>2. r[k - 1].end < r[k].start
      BY <1>1, <1>2, <3>1, PromptRuns
    <3>3. T < a
      BY <1>3, <1>6, <3>1, <3>2
    <3> QED BY <1>4, <1>5, <2>1, <3>3
  <2> QED BY <2>2, <2>3
<1>8. Len(r) = Len(p.grids) /\ e - a = p.grids[k].t * p.grids[k].h * p.grids[k].w
  BY <1>1, <1>2, <1>3 DEF GridsFit, RunsOf
<1>9. PICK m, text : m = a - T /\ text = [i \in 1..m |-> Same(M + i - 1)]
  OBVIOUS
<1>10. Placed(p, pos \o text, a, M + m)
  <2>1. m \in Nat /\ T + m = a /\ T + m <= Len(p.tokens)
    BY <1>4, <1>5, <1>7, <1>9
  <2>2. ASSUME NEW i \in (T + 1)..(T + m) PROVE p.tokens[i] = 0
    <3>1. i \in 1..Len(p.tokens) /\ T < i /\ i <= a
      BY <1>4, <1>5, <1>7, <2>1
    <3>2. k > 1 => RunsOf(p)[k - 1].end < i
      BY <1>1, <1>2, <1>6, <3>1
    <3>3. k <= Len(RunsOf(p)) => i <= RunsOf(p)[k].start
      BY <1>1, <1>3, <3>1
    <3>4. k \in 1..(Len(RunsOf(p)) + 1)
      BY <1>1, <1>2
    <3> QED BY <3>1, <3>2, <3>3, <3>4, TextBeforeRun
  <2>3. Placed(p, pos \o [i \in 1..m |-> Same(M + i - 1)], T + m, M + m)
    BY <1>6, <2>1, <2>2, TextOn
  <2> QED BY <1>9, <2>1, <2>3
<1>11. PICK g, base : g = p.grids[k] /\ base = M + m
  OBVIOUS
<1>12. Placed(p, (pos \o text) \o GridPositions(base, g), e, base + Extent(g))
  <2>1. PICK before : before = pos \o text
    OBVIOUS
  <2>2. PICK d : d = e - a
    OBVIOUS
  <2>3. d = p.grids[k].t * p.grids[k].h * p.grids[k].w
    BY <1>8, <2>2
  <2>4. a + d = e /\ a + d <= Len(p.tokens)
    BY <1>4, <1>5, <2>2
  <2>5. \A i \in (a + 1)..(a + d) : p.tokens[i] = k
    <3>1. Len(RunsOf(p)) = Len(p.grids)
      BY <1>1, <1>8
    <3>2. \A i \in (RunsOf(p)[k].start + 1)..RunsOf(p)[k].end : p.tokens[i] = k
      BY <3>1, RunsNameImages
    <3> QED BY <1>1, <1>3, <2>4, <3>2
  <2>6. a = 0 \/ p.tokens[a] # k
    BY <1>2, <1>5
  <2>7. k \in 1..Len(p.grids)
    BY <1>1, <1>2, <1>8
  <2>8. Placed(p, before, a, base)
    BY <1>10, <1>11, <2>1
  <2>9. Placed(p, before \o GridPositions(base, p.grids[k]), a + d, base + Extent(p.grids[k]))
    BY <2>3, <2>4, <2>5, <2>6, <2>7, <2>8, ImageOn
  <2> QED BY <1>11, <2>1, <2>4, <2>9
<1>13. f[k] = WalkRun(s, r[k], g)
  <2>1. k \in 0..Len(RunsOf(p)) /\ k # 0
    BY <1>1, <1>2
  <2>2. f[k] = IF k = 0 THEN StartState ELSE WalkRun(f[k - 1], RunsOf(p)[k], p.grids[k])
    BY <2>1 DEF IsWalk
  <2> QED BY <1>1, <1>11, <2>1, <2>2
<1>14. WalkRun(s, r[k], g) =
         [positions |-> (pos \o text) \o GridPositions(base, g), position |-> base + Extent(g), token |-> e]
  BY <1>1, <1>3, <1>9, <1>11, Zenon DEF WalkRun
<1>15. /\ f[k].positions = (pos \o text) \o GridPositions(base, g)
       /\ f[k].position = base + Extent(g) /\ f[k].token = e
  BY <1>13, <1>14
<1>16. k # 0
  BY <1>2
<1> QED BY <1>1, <1>3, <1>12, <1>15, <1>16 DEF Walked

\* The walk places all of the prompt, and the deltas give what comes next.
LEMMA WalkPlaces ==
  ASSUME NEW p, IsPrompt(p), GridsFit(p)
  PROVE  Placed(p, MropeState(p).position_ids, Len(p.tokens), Len(p.tokens) + MropeState(p).rope_deltas)
<1>1. PICK r, n, f : r = RunsOf(p) /\ n = Len(r) /\ f = Walk(p)
  OBVIOUS
<1>2. n \in Nat /\ n = Len(p.grids)
  <2>1. Len(RunsOf(p)) = Len(p.grids)
    BY DEF GridsFit, RunsOf
  <2> QED BY <1>1, <2>1, FlagsAre
<1>3. IsWalk(p, f)
  BY <1>1, <1>2, WalkIs
<1>4. Walked(p, f, 0)
  <2>1. 0 \in 0..Len(RunsOf(p))
    BY <1>1, <1>2
  <2>2. f[0] = StartState
    BY <1>3, <2>1 DEF IsWalk
  <2>3. f[0].positions = <<>> /\ f[0].position = 0 /\ f[0].token = 0
    BY <2>2 DEF StartState
  <2> QED BY <2>3, NothingPlaced DEF Walked
<1> DEFINE Bad == {k \in 0..n : ~ Walked(p, f, k)}
<1>5. Bad = {}
  <2> SUFFICES ASSUME Bad # {} PROVE FALSE
    OBVIOUS
  <2>1. Bad \subseteq Nat
    OBVIOUS
  <2>2. PICK k \in Bad : \A y \in Bad : k <= y
    <3> HIDE DEF Bad
    <3> QED BY <2>1, Least
  <2>3. k \in 0..n /\ ~ Walked(p, f, k) /\ k # 0
    BY <1>4
  <2>4. k \in 1..n /\ k - 1 \in 0..n /\ ~ (k <= k - 1)
    BY <1>2, <2>3
  <2>5. Walked(p, f, k - 1)
    <3>1. k - 1 \notin Bad
      BY <2>2, <2>4
    <3> QED BY <2>4, <3>1
  <2>6. Walked(p, f, k)
    BY <1>1, <1>3, <2>4, <2>5, WalkOn
  <2> QED BY <2>3, <2>6
<1>6. Walked(p, f, n)
  <2>1. n \in 0..n
    BY <1>2
  <2> QED BY <1>5, <2>1
<1>7. PICK L \in Nat : L = Len(p.tokens)
  BY FlagsAre
<1>8. PICK s, pos, T, M, m : s = f[n] /\ pos = s.positions /\ T = s.token /\ M = s.position /\ m = L - T
  OBVIOUS
<1>9. Placed(p, pos, T, M) /\ T = IF n = 0 THEN 0 ELSE r[n].end
  BY <1>1, <1>6, <1>8 DEF Walked
<1>10. T \in 0..L /\ M \in Nat /\ m \in Nat /\ T + m = L
  <2>1. T \in 0..L /\ M \in Nat
    BY <1>7, <1>9 DEF Placed, Top
  <2> QED BY <1>7, <1>8, <2>1
<1>11. ASSUME NEW i \in (T + 1)..(T + m) PROVE p.tokens[i] = 0
  <2>1. i \in 1..Len(p.tokens) /\ T < i
    BY <1>7, <1>10
  <2>2. PICK k : k = n + 1
    OBVIOUS
  <2>3. k \in 1..(Len(RunsOf(p)) + 1) /\ ~ (k <= Len(RunsOf(p))) /\ k - 1 = n
    BY <1>1, <1>2, <2>2
  <2>4. k > 1 => RunsOf(p)[k - 1].end < i
    BY <1>1, <1>2, <1>9, <2>1, <2>2, <2>3
  <2> QED BY <2>1, <2>3, <2>4, TextBeforeRun
<1>12. Placed(p, pos \o [i \in 1..m |-> Same(M + i - 1)], T + m, M + m)
  <2>1. T + m <= Len(p.tokens)
    BY <1>7, <1>10
  <2> QED BY <1>9, <1>10, <1>11, <2>1, TextOn
<1>13. MropeState(p) =
         [position_ids |-> Walk(p)[Len(RunsOf(p))].positions
                           \o [i \in 1..(Len(p.tokens) - Walk(p)[Len(RunsOf(p))].token)
                                 |-> Same(Walk(p)[Len(RunsOf(p))].position + i - 1)],
          rope_deltas |-> Walk(p)[Len(RunsOf(p))].position
                          + (Len(p.tokens) - Walk(p)[Len(RunsOf(p))].token) - Len(p.tokens)]
  BY Zenon DEF MropeState, Walk, IsWalk, RunsOf, StartState
<1>14. /\ MropeState(p).position_ids = pos \o [i \in 1..m |-> Same(M + i - 1)]
       /\ MropeState(p).rope_deltas = M + m - L
  <2>1. MropeState(p) = [position_ids |-> pos \o [i \in 1..m |-> Same(M + i - 1)],
                         rope_deltas |-> M + m - L]
    <3>1. /\ pos = Walk(p)[Len(RunsOf(p))].positions /\ M = Walk(p)[Len(RunsOf(p))].position
          /\ m = Len(p.tokens) - Walk(p)[Len(RunsOf(p))].token /\ L = Len(p.tokens)
      BY <1>1, <1>7, <1>8
    <3>2. MropeState(p) =
            [position_ids |-> pos \o [i \in 1..m |-> Same(M + i - 1)], rope_deltas |-> M + m - L]
      BY <1>13, <3>1, Zenon
    <3> QED BY <3>2
  <2>2. PICK x, y : x = pos \o [i \in 1..m |-> Same(M + i - 1)] /\ y = M + m - L
    OBVIOUS
  <2>3. MropeState(p) = [position_ids |-> x, rope_deltas |-> y]
    BY <2>1, <2>2, Zenon
  <2>4. MropeState(p).position_ids = x /\ MropeState(p).rope_deltas = y
    BY <2>3
  <2> QED BY <2>2, <2>4, Zenon
<1>15. L + (M + m - L) = M + m
  BY <1>7, <1>10
<1> QED BY <1>7, <1>10, <1>12, <1>14, <1>15

-----------------------------------------------------------------------------
(* So the walk is MRoPE; and spans name their images.                      *)

\* The least above some positions is what After says.
LEMMA AfterIs ==
  ASSUME NEW pos, NEW i \in Nat \ {0}, NEW M, \A j \in 1..(i - 1) : pos[j] \in Places, Top(pos, i - 1, M)
  PROVE  After(pos, i) = M
<1> DEFINE S == {0} \cup {pos[j][d] + 1 : j \in 1..(i - 1), d \in 1..3}
<1>1. M \in Nat /\ \A x \in S : x \in Int /\ x <= M
  <2>1. M \in Nat
    BY DEF Top
  <2>2. ASSUME NEW j \in 1..(i - 1), NEW d \in 1..3 PROVE pos[j][d] + 1 \in Int /\ pos[j][d] + 1 <= M
    <3>1. pos[j] \in Places
      OBVIOUS
    <3>2. pos[j][d] \in Int
      BY <3>1 DEF Places
    <3>3. pos[j][d] < M
      BY DEF Top
    <3> QED BY <2>1, <3>2, <3>3
  <2> QED BY <2>1, <2>2
<1>2. M \in S
  <2>1. CASE M = 0
    BY <2>1
  <2>2. CASE M # 0
    <3>1. PICK j \in 1..(i - 1), d \in 1..3 : pos[j][d] + 1 = M
      BY <2>2 DEF Top
    <3> QED BY <3>1
  <2> QED BY <2>1, <2>2
<1>3. After(pos, i) = CHOOSE x \in S : \A y \in S : x >= y
  BY DEF After, Max
<1> HIDE DEF S
<1>4. \E x \in S : \A y \in S : x >= y
  BY <1>1, <1>2
<1>5. PICK x : x = After(pos, i)
  OBVIOUS
<1>6. x \in S /\ \A y \in S : x >= y
  BY <1>3, <1>4, <1>5
<1>7. x = M
  <2>1. x \in Int /\ x <= M /\ x >= M
    BY <1>1, <1>2, <1>6
  <2> QED BY <1>1, <2>1
<1> QED BY <1>5, <1>7

\* Where an image starts is what FirstOf says.
LEMMA FirstIs ==
  ASSUME NEW t, NEW i \in Nat \ {0}, NEW first, StartsAt(t, first, i)
  PROVE  FirstOf(t, i) = first
<1> DEFINE S == {j \in 1..i : \A k \in j..i : t[k] = t[i]}
<1>1. first \in S /\ first \in 1..i
  BY DEF StartsAt
<1>2. \A j \in S : first <= j
  <2> SUFFICES ASSUME NEW j \in S, j < first PROVE FALSE
    <3> \A j \in S : j \in Nat
      OBVIOUS
    <3> first \in Nat
      BY <1>1
    <3> QED OBVIOUS
  <2>1. first - 1 \in j..i /\ first # 1
    BY <1>1
  <2>2. t[first - 1] = t[i]
    BY <2>1
  <2> QED BY <2>1, <2>2 DEF StartsAt
<1>3. S \subseteq Nat /\ S # {}
  BY <1>1
<1>4. FirstOf(t, i) = Min(S)
  BY DEF FirstOf
<1> HIDE DEF S
<1>5. Min(S) \in S /\ \A y \in S : Min(S) <= y
  BY <1>3, MinIs
<1>6. Min(S) \in Nat /\ first \in Nat /\ Min(S) <= first /\ first <= Min(S)
  BY <1>1, <1>2, <1>3, <1>5
<1> QED BY <1>4, <1>6

MropeHolds(p) ==
  LET pos == MropeState(p).position_ids
  IN  /\ Len(pos) = Len(p.tokens)
      /\ \A i \in DOMAIN pos :
           IF p.tokens[i] = 0 THEN pos[i] = Same(After(pos, i))
           ELSE /\ WithinGrid(pos[i], After(pos, FirstOf(p.tokens, i)), p.grids[p.tokens[i]])
                /\ \A j \in FirstOf(p.tokens, i)..(i - 1) : pos[j] # pos[i]
      /\ Len(p.tokens) + MropeState(p).rope_deltas = After(pos, Len(p.tokens) + 1)

\* So the positions of a prompt with a grid for each run are right.
LEMMA MropeIsRight ==
  ASSUME NEW p, IsPrompt(p), GridsFit(p)
  PROVE  MropeHolds(p)
<1>1. PICK pos, L, M : pos = MropeState(p).position_ids /\ L = Len(p.tokens) /\ M = L + MropeState(p).rope_deltas
  OBVIOUS
<1>2. Placed(p, pos, L, M)
  BY <1>1, WalkPlaces
<1>3. L \in Nat
  BY <1>1, FlagsAre
<1>4. pos \in Seq(Places) /\ Len(pos) = L /\ Top(pos, L, M) /\ DOMAIN pos = 1..L /\ \A j \in 1..L : pos[j] \in Places
  <2>1. pos \in Seq(Places) /\ Len(pos) = L /\ Top(pos, L, M)
    BY <1>2 DEF Placed
  <2> QED BY <2>1
<1>5. M = After(pos, L + 1)
  <2>1. L + 1 \in Nat \ {0} /\ (L + 1) - 1 = L
    BY <1>3
  <2>2. Top(pos, (L + 1) - 1, M) /\ \A j \in 1..((L + 1) - 1) : pos[j] \in Places
    BY <1>4, <2>1
  <2> QED BY <2>1, <2>2, AfterIs
<1>6. ASSUME NEW i \in 1..L, NEW m \in 1..i, NEW b, Top(pos, m - 1, b)
      PROVE  After(pos, m) = b
  <2>1. m \in Nat \ {0} /\ \A j \in 1..(m - 1) : pos[j] \in Places
    BY <1>3, <1>4
  <2> QED BY <1>6, <2>1, AfterIs
<1>7. ASSUME NEW i \in 1..L, p.tokens[i] = 0 PROVE pos[i] = Same(After(pos, i))
  <2>1. Right(p, pos, i)
    BY <1>2 DEF Placed
  <2>2. PICK b \in Nat : Top(pos, i - 1, b) /\ pos[i] = <<b, b, b>>
    BY <1>7, <2>1 DEF Right, AtText
  <2>3. i \in 1..i
    OBVIOUS
  <2>4. After(pos, i) = b
    BY <1>6, <2>2, <2>3
  <2> QED BY <2>2, <2>4 DEF Same
<1>8. ASSUME NEW i \in 1..L, p.tokens[i] # 0
      PROVE  /\ WithinGrid(pos[i], After(pos, FirstOf(p.tokens, i)), p.grids[p.tokens[i]])
             /\ \A j \in FirstOf(p.tokens, i)..(i - 1) : pos[j] # pos[i]
  <2>1. Right(p, pos, i)
    BY <1>2 DEF Placed
  <2>2. PICK first \in 1..i, base \in Nat :
          /\ StartsAt(p.tokens, first, i) /\ Top(pos, first - 1, base)
          /\ WithinGrid(pos[i], base, p.grids[p.tokens[i]])
          /\ \A j \in first..(i - 1) : pos[j] # pos[i]
    BY <1>8, <2>1 DEF Right, AtImage
  <2>3. i \in Nat \ {0}
    OBVIOUS
  <2>4. FirstOf(p.tokens, i) = first
    BY <2>2, <2>3, FirstIs
  <2>5. After(pos, first) = base
    BY <1>6, <2>2
  <2> QED BY <2>2, <2>4, <2>5
<1> QED BY <1>1, <1>4, <1>5, <1>7, <1>8 DEF MropeHolds

\* WalkIsMrope holds of every prompt that Qwen's processor takes.
LEMMA MropeImplied ==
  ASSUME IsPrompt(prompt), family.qwen => GridsFit(prompt)
  PROVE  WalkIsMrope
<1>1. CASE family.qwen
  <2>1. MropeHolds(prompt)
    BY <1>1, MropeIsRight
  <2> QED BY <2>1 DEF MropeHolds, WalkIsMrope, PromptLength
<1>2. CASE ~ family.qwen
  BY <1>2 DEF WalkIsMrope
<1> QED BY <1>1, <1>2

\* A token of an image lies in a span of that image.
LEMMA SpansName ==
  ASSUME IsPrompt(prompt)
  PROVE  SpansNameImages
<1>1. PICK p, r, n, m, t : p = prompt /\ r = RunsOf(p) /\ n = Len(p.tokens) /\ m = Len(p.grids) /\ t = p.tokens
  OBVIOUS
<1>2. /\ n \in Nat /\ m \in Nat /\ DOMAIN t = 1..n /\ DOMAIN p.grids = 1..m
      /\ \A i \in 1..n : t[i] \in 0..m
  BY <1>1, FlagsAre
<1>3. ASSUME NEW i \in 1..n, t[i] > 0
      PROVE  \E s \in ImageSpans(family, p) : s.start < i /\ i <= s.end /\ t[i] \in s.images
  <2>1. t[i] \in 1..m
    <3>1. t[i] \in 0..m
      BY <1>2
    <3> QED BY <1>2, <1>3, <3>1
  <2>2. HasImages(p)
    <3>1. p.grids # <<>>
      BY <1>1, <1>2, <2>1
    <3> QED BY <3>1 DEF HasImages
  <2>3. CASE family.sentinel /\ Len(r) = m
    <3>1. PICK k \in 1..Len(r) : r[k].start < i /\ i <= r[k].end
      BY <1>1, <1>3, PromptRuns
    <3>2. t[i] = k
      <4>1. i \in (r[k].start + 1)..r[k].end
        <5>1. r[k].start \in Nat /\ r[k].end \in Nat
          BY <1>1, PromptRuns
        <5> QED BY <3>1, <5>1
      <4> QED BY <1>1, <2>3, <4>1, RunsNameImages
    <3>3. k \in DOMAIN r
      <4>1. r \in Seq([start : Nat, end : Nat])
        BY <1>1, PromptRuns
      <4>2. PICK R : R = [start : Nat, end : Nat]
        OBVIOUS
      <4>3. r \in Seq(R)
        BY <4>1, <4>2
      <4> QED BY <4>3
    <3>4. ImageSpans(family, p) = {[start |-> r[j].start, end |-> r[j].end, images |-> {j}] : j \in DOMAIN r}
      BY <1>1, <2>2, <2>3 DEF ImageSpans, RunsOf
    <3>5. PICK s : s = [start |-> r[k].start, end |-> r[k].end, images |-> {k}]
      OBVIOUS
    <3>6. s \in ImageSpans(family, p)
      BY <3>3, <3>4, <3>5
    <3>7. s.start = r[k].start /\ s.end = r[k].end /\ s.images = {k}
      BY <3>5
    <3> QED BY <3>1, <3>2, <3>6, <3>7
  <2>4. CASE ~ (family.sentinel /\ Len(r) = m)
    <3>1. ImageSpans(family, p) = {[start |-> 0, end |-> n, images |-> 1..m]}
      BY <1>1, <1>2, <2>2, <2>4 DEF ImageSpans, RunsOf
    <3>2. PICK s : s = [start |-> 0, end |-> n, images |-> 1..m]
      OBVIOUS
    <3>3. s \in ImageSpans(family, p) /\ s.start = 0 /\ s.end = n /\ s.images = 1..m
      BY <3>1, <3>2
    <3>4. 0 < i /\ i <= n
      BY <1>2
    <3> QED BY <2>1, <3>3, <3>4
  <2> QED BY <2>3, <2>4
<1> QED BY <1>1, <1>2, <1>3 DEF SpansNameImages

-----------------------------------------------------------------------------
(* Parts and slices.                                                       *)

\* The values of F from a + 1 to b.
Part(F, a, b) == [i \in 1..(b - a) |-> F[a + i]]

\* A slice of a sequence has the values from start to end.
LEMMA SliceOf ==
  ASSUME NEW m \in Nat, NEW s, DOMAIN s = 1..m, s = [i \in 1..m |-> s[i]],
         NEW x \in Nat, NEW y \in x..m
  PROVE  Slice(s, x, y) = Part(s, x, y)
<1>1. PICK T : T = {s[i] : i \in 1..m}
  OBVIOUS
<1>2. s \in [1..m -> T]
  BY <1>1
<1>3. s \in Seq(T) /\ Len(s) = m
  BY <1>2, SeqDef, LenProperties
<1>4. Min({y, Len(s)}) = y
  <2>1. PICK S : S = {y, m}
    OBVIOUS
  <2>2. S \subseteq Nat /\ S # {}
    BY <2>1
  <2>3. Min(S) \in S /\ \A z \in S : Min(S) <= z
    BY <2>2, MinIs
  <2>4. Min(S) = y
    BY <2>1, <2>3
  <2> QED BY <1>3, <2>1, <2>4
<1>5. Slice(s, x, y) = SubSeq(s, x + 1, y)
  BY <1>4 DEF Slice
<1>6. PICK u : u = x + 1
  OBVIOUS
<1>7. SubSeq(s, u, y) = [i \in 1..(y - u + 1) |-> s[i + u - 1]]
  BY <1>3, <1>6
<1>8. y - u + 1 = y - x /\ \A i \in 1..(y - x) : i + u - 1 = x + i
  BY <1>6
<1>9. SubSeq(s, u, y) = [i \in 1..(y - x) |-> s[x + i]]
  BY <1>7, <1>8
<1> QED BY <1>5, <1>6, <1>9 DEF Part

\* A slice of a part is a part.
LEMMA SlicePart ==
  ASSUME NEW F, NEW a \in Nat, NEW b \in Nat, a <= b,
         NEW s \in Nat, NEW e \in s..(b - a)
  PROVE  Slice(Part(F, a, b), s, e) = Part(F, a + s, a + e)
<1>1. PICK q, m : q = Part(F, a, b) /\ m = b - a
  OBVIOUS
<1>2. m \in Nat /\ DOMAIN q = 1..m /\ q = [i \in 1..m |-> q[i]] /\ \A i \in 1..m : q[i] = F[a + i]
  BY <1>1 DEF Part
<1>3. Slice(q, s, e) = Part(q, s, e)
  <2>1. e \in s..m
    BY <1>1
  <2> QED BY <1>2, <2>1, SliceOf
<1>4. \A i \in 1..(e - s) : q[s + i] = F[(a + s) + i]
  <2> TAKE i \in 1..(e - s)
  <2>1. s + i \in 1..m /\ a + (s + i) = (a + s) + i
    BY <1>1
  <2> QED BY <1>2, <2>1
<1>5. (a + e) - (a + s) = e - s
  BY <1>1
<1>6. Part(q, s, e) = Part(F, a + s, a + e)
  BY <1>4, <1>5 DEF Part
<1> QED BY <1>1, <1>3, <1>6

\* All of it is a part of it.
LEMMA PartAll ==
  ASSUME NEW n \in Nat, NEW F, F = [i \in 1..n |-> F[i]]
  PROVE  Part(F, 0, n) = F
<1>1. n - 0 = n /\ \A i \in 1..n : 0 + i = i
  OBVIOUS
<1>2. Part(F, 0, n) = [i \in 1..n |-> F[i]]
  BY <1>1 DEF Part
<1> QED BY <1>2

\* A slice of the numbers of tokens is the numbers of a slice.
LEMMA SliceArange ==
  ASSUME NEW a \in Nat, NEW b \in Nat, a <= b, NEW s \in Nat, NEW e \in s..(b - a)
  PROVE  Slice(Arange(a + 1, b + 1), s, e) = Arange(a + s + 1, a + e + 1)
<1>1. PICK q, m : q = Arange(a + 1, b + 1) /\ m = b - a
  OBVIOUS
<1>2. (b + 1) - (a + 1) = m /\ m \in Nat
  BY <1>1
<1>3. DOMAIN q = 1..m /\ q = [i \in 1..m |-> q[i]] /\ \A i \in 1..m : q[i] = a + 1 + i - 1
  BY <1>1, <1>2 DEF Arange
<1>4. Slice(q, s, e) = Part(q, s, e)
  <2>1. e \in s..m
    BY <1>1
  <2> QED BY <1>2, <1>3, <2>1, SliceOf
<1>5. \A i \in 1..(e - s) : q[s + i] = (a + s + 1) + i - 1
  <2> TAKE i \in 1..(e - s)
  <2>1. s + i \in 1..m /\ a + 1 + (s + i) - 1 = (a + s + 1) + i - 1
    BY <1>1
  <2> QED BY <1>3, <2>1
<1>6. (a + e + 1) - (a + s + 1) = e - s
  BY <1>1
<1>7. Part(q, s, e) = Arange(a + s + 1, a + e + 1)
  BY <1>5, <1>6 DEF Part, Arange
<1> QED BY <1>1, <1>4, <1>7

\* The numbers from a + 1 to b are b - a many.
LEMMA ArangeLength ==
  ASSUME NEW a \in Nat, NEW b \in Nat, a <= b
  PROVE  Len(Arange(a + 1, b + 1)) = b - a
<1>1. PICK q, m : q = Arange(a + 1, b + 1) /\ m = b - a
  OBVIOUS
<1>2. (b + 1) - (a + 1) = m /\ m \in Nat
  BY <1>1
<1>3. q = [i \in 1..m |-> a + 1 + i - 1]
  BY <1>1, <1>2 DEF Arange
<1>4. q \in [1..m -> Int]
  BY <1>2, <1>3
<1>5. q \in Seq(Int) /\ Len(q) = m
  BY <1>2, <1>4, SeqDef, LenProperties
<1> QED BY <1>1, <1>5

\* A part from a + 1 to b has b - a values.
LEMMA PartLength ==
  ASSUME NEW F, NEW a \in Nat, NEW b \in Nat, a <= b
  PROVE  Len(Part(F, a, b)) = b - a /\ DOMAIN Part(F, a, b) = 1..(b - a)
<1>1. PICK q, m : q = Part(F, a, b) /\ m = b - a
  OBVIOUS
<1>2. m \in Nat /\ DOMAIN q = 1..m /\ q = [i \in 1..m |-> q[i]]
  BY <1>1 DEF Part
<1>3. PICK T : T = {q[i] : i \in 1..m}
  OBVIOUS
<1>4. q \in [1..m -> T]
  BY <1>2, <1>3
<1>5. q \in Seq(T) /\ Len(q) = m
  BY <1>2, <1>4, SeqDef, LenProperties
<1> QED BY <1>1, <1>2, <1>5

-----------------------------------------------------------------------------
\* The tokens from a + 1 to b that have an embedding of the deepstack's.
Embedded(f, p, a, b) == {i \in (a + 1)..b : f.deepstack = "aligned" \/ p.tokens[i] > 0}

\* Those tokens are finitely many.
LEMMA EmbeddedFinite ==
  ASSUME NEW f, NEW p, NEW a \in Nat, NEW b \in Nat
  PROVE  Embedded(f, p, a, b) \subseteq Nat /\ IsFiniteSet(Embedded(f, p, a, b))
<1>1. PICK x : x = a + 1
  OBVIOUS
<1>2. x \in Nat /\ Embedded(f, p, a, b) \subseteq x..b
  BY <1>1 DEF Embedded
<1>3. IsFiniteSet(x..b)
  BY <1>2, FS_Interval
<1> QED BY <1>2, <1>3, FS_Subset

\* c tokens are before the part, and d in it.
CutBetween(f, p, a, b, s, e, c, d) ==
  Slice(Sorted(Embedded(f, p, a, b)), c, c + d) = Sorted(Embedded(f, p, a + s, a + e))

\* So many are in the part before, and in the part itself.
LEMMA SliceSorted ==
  ASSUME NEW f, NEW p, NEW a \in Nat, NEW b \in Nat, a <= b, NEW s \in Nat, NEW e \in s..(b - a),
         NEW c, NEW d,
         c = Cardinality(Embedded(f, p, a, a + s)), d = Cardinality(Embedded(f, p, a + s, a + e))
  PROVE  CutBetween(f, p, a, b, s, e, c, d)
<1>1. PICK S, T, x, y : /\ S = Embedded(f, p, a, b) /\ T = Embedded(f, p, a + s, a + e)
                        /\ x = a + s /\ y = a + e
  OBVIOUS
<1>2. x \in Nat /\ y \in Nat /\ a <= x /\ x <= y /\ y <= b
  BY <1>1
<1>3. S \subseteq Nat /\ IsFiniteSet(S) /\ T \subseteq Nat /\ IsFiniteSet(T)
  BY <1>1, <1>2, EmbeddedFinite
<1>4. T = {i \in S : x < i /\ i <= y}
  <2>1. \A i \in (x + 1)..y : i \in (a + 1)..b /\ x < i /\ i <= y
    BY <1>2
  <2>2. \A i \in (a + 1)..b : x < i /\ i <= y => i \in (x + 1)..y
    BY <1>2
  <2> QED BY <1>1, <2>1, <2>2 DEF Embedded
<1>5. Embedded(f, p, a, a + s) = {i \in S : i <= x}
  <2>1. \A i \in (a + 1)..x : i \in (a + 1)..b /\ i <= x
    BY <1>2
  <2>2. \A i \in (a + 1)..b : i <= x => i \in (a + 1)..x
    BY <1>2
  <2> QED BY <1>1, <2>1, <2>2 DEF Embedded
<1>6. c = Cardinality({i \in S : i <= x}) /\ d = Cardinality({i \in S : x < i /\ i <= y})
  BY <1>1, <1>4, <1>5
<1>7. /\ c \in Nat /\ d \in Nat /\ c + d <= Cardinality(S) /\ Len(Sorted(T)) = d
      /\ \A i \in 1..d : Sorted(S)[c + i] = Sorted(T)[i]
  <2>1. Between(S, x, y, c, d)
    BY <1>2, <1>3, <1>6, SortedBetween
  <2> QED BY <1>4, <2>1, Zenon DEF Between
<1>8. PICK n, q, r : n = Cardinality(S) /\ q = Sorted(S) /\ r = Sorted(T)
  OBVIOUS
<1>9. n \in Nat /\ DOMAIN q = 1..n /\ q \in Seq(S)
  BY <1>3, <1>8, SortedIs
<1>10. q = [i \in 1..n |-> q[i]]
  BY <1>9
<1>11. Slice(q, c, c + d) = Part(q, c, c + d)
  <2>1. PICK z : z = c + d
    OBVIOUS
  <2>2. z \in c..n /\ c \in Nat
    BY <1>7, <1>8, <1>9, <2>1
  <2>3. Slice(q, c, z) = Part(q, c, z)
    BY <1>9, <1>10, <2>2, SliceOf
  <2> QED BY <2>1, <2>3
<1>12. r \in Seq(T) /\ Len(r) = d /\ DOMAIN r = 1..d
  <2>1. r \in Seq(T) /\ Len(r) = d
    BY <1>3, <1>7, <1>8, SortedIs
  <2> QED BY <2>1
<1>13. r = [i \in 1..d |-> r[i]]
  BY <1>12
<1>14. Part(q, c, c + d) = r
  <2>1. (c + d) - c = d
    BY <1>7
  <2>2. Part(q, c, c + d) = [i \in 1..d |-> q[c + i]]
    BY <2>1 DEF Part
  <2>3. \A i \in 1..d : q[c + i] = r[i]
    BY <1>7, <1>8
  <2> QED BY <1>13, <2>2, <2>3
<1> QED BY <1>1, <1>8, <1>11, <1>14 DEF CutBetween

\* What slice_deepstack counts are the tokens of images in the slice.
LEMMA CountIs ==
  ASSUME NEW f, NEW p, IsPrompt(p), f.deepstack # "aligned",
         NEW a \in Nat, NEW b \in Nat, a <= b, b <= Len(p.tokens)
  PROVE  Count(Part(ImageFlags(p), a, b)) = Cardinality(Embedded(f, p, a, b))
<1>1. PICK F, q, m : F = ImageFlags(p) /\ q = Part(F, a, b) /\ m = b - a
  OBVIOUS
<1>2. m \in Nat /\ DOMAIN q = 1..m /\ \A i \in 1..m : q[i] = F[a + i]
  BY <1>1 DEF Part
<1>3. Count(q) = Cardinality({i \in 1..m : q[i]})
  BY <1>2 DEF Count
<1>4. Cardinality({j \in (0 + 1)..(0 + m) : q[j]}) = Cardinality({j \in (a + 1)..(a + m) : F[j]})
  <2>1. PICK z : z = 0
    OBVIOUS
  <2>2. z \in Nat /\ \A i \in 1..m : q[z + i] = F[a + i]
    <3>1. \A i \in 1..m : z + i = i
      BY <2>1
    <3> QED BY <1>2, <2>1, <3>1
  <2>3. Cardinality(Holding(q, z, m)) = Cardinality(Holding(F, a, m))
    <3>1. Alike(q, z, F, a, m)
      BY <2>2 DEF Alike
    <3>2. HoldAlike(q, z, F, a, m)
      BY <1>2, <2>2, <3>1, Shifted
    <3> QED BY <3>2 DEF HoldAlike
  <2> QED BY <2>1, <2>3 DEF Holding
<1>5. 0 + 1 = 1 /\ 0 + m = m /\ a + m = b
  BY <1>1, <1>2
<1>6. {j \in (a + 1)..b : F[j]} = Embedded(f, p, a, b)
  <2>1. \A j \in (a + 1)..b : F[j] = (p.tokens[j] > 0)
    <3> TAKE j \in (a + 1)..b
    <3>1. j \in 1..Len(p.tokens)
      <4>1. Len(p.tokens) \in Nat
        BY FlagsAre
      <4> QED BY <4>1
    <3> QED BY <1>1, <3>1, FlagsAre
  <2> QED BY <2>1 DEF Embedded
<1> QED BY <1>1, <1>3, <1>4, <1>5, <1>6

\* Where each token has an embedding, there are as many as tokens.
LEMMA AlignedCount ==
  ASSUME NEW f, NEW p, f.deepstack = "aligned", NEW a \in Nat, NEW b \in Nat, a <= b
  PROVE  Cardinality(Embedded(f, p, a, b)) = b - a
<1>1. PICK x : x = a + 1
  OBVIOUS
<1>2. Embedded(f, p, a, b) = x..b
  BY <1>1 DEF Embedded
<1>3. Cardinality(x..b) = IF x > b THEN 0 ELSE b - x + 1
  BY <1>1, FS_Interval
<1>4. (IF x > b THEN 0 ELSE b - x + 1) = b - a
  BY <1>1
<1> QED BY <1>2, <1>3, <1>4

\* The embeddings of the deepstack are cut like the tokens.
LEMMA DeepstackIsCut ==
  ASSUME NEW f, NEW p, IsPrompt(p), NEW a \in Nat, NEW b \in Nat, a <= b, b <= Len(p.tokens),
         NEW s \in Nat, NEW e \in s..(b - a)
  PROVE  SliceDeepstack(f, Sorted(Embedded(f, p, a, b)), Part(ImageFlags(p), a, b), s, e) =
           Sorted(Embedded(f, p, a + s, a + e))
<1>1. PICK q, r, F, x, y : /\ q = Sorted(Embedded(f, p, a, b)) /\ r = Sorted(Embedded(f, p, a + s, a + e))
                           /\ F = Part(ImageFlags(p), a, b) /\ x = a + s /\ y = a + e
  OBVIOUS
<1>2. x \in Nat /\ y \in Nat /\ a <= x /\ x <= y /\ y <= b
  BY <1>1
<1>3. PICK c, d : c = Cardinality(Embedded(f, p, a, x)) /\ d = Cardinality(Embedded(f, p, x, y))
  OBVIOUS
<1>4. Slice(q, c, c + d) = r
  <2>1. c = Cardinality(Embedded(f, p, a, a + s)) /\ d = Cardinality(Embedded(f, p, a + s, a + e))
    BY <1>1, <1>3
  <2>2. Slice(Sorted(Embedded(f, p, a, b)), c, c + d) = Sorted(Embedded(f, p, a + s, a + e))
    <3>1. CutBetween(f, p, a, b, s, e, c, d)
      BY <2>1, SliceSorted
    <3> QED BY <3>1 DEF CutBetween
  <2> QED BY <1>1, <2>2
<1>5. CASE f.deepstack = "aligned"
  <2>1. c = x - a /\ d = y - x
    BY <1>2, <1>3, <1>5, AlignedCount
  <2>2. c = s /\ c + d = e
    BY <1>1, <2>1
  <2>3. SliceDeepstack(f, q, F, s, e) = Slice(q, s, e)
    BY <1>5 DEF SliceDeepstack
  <2> QED BY <1>1, <1>4, <2>2, <2>3
<1>6. CASE f.deepstack # "aligned"
  <2>1. Slice(F, 0, s) = Part(ImageFlags(p), a, x)
    <3>1. PICK z : z = 0
      OBVIOUS
    <3>2. z \in Nat /\ s \in z..(b - a) /\ a + z = a
      BY <3>1
    <3>3. Slice(Part(ImageFlags(p), a, b), z, s) = Part(ImageFlags(p), a + z, a + s)
      BY <3>2, SlicePart
    <3> QED BY <1>1, <3>1, <3>2, <3>3
  <2>2. Slice(F, s, e) = Part(ImageFlags(p), x, y)
    BY <1>1, SlicePart
  <2>3. Count(Slice(F, 0, s)) = c
    <3>1. x <= Len(p.tokens)
      <4>1. Len(p.tokens) \in Nat
        BY FlagsAre
      <4> QED BY <1>2, <4>1
    <3> QED BY <1>2, <1>3, <1>6, <2>1, <3>1, CountIs
  <2>4. Count(Slice(F, s, e)) = d
    <3>1. y <= Len(p.tokens)
      <4>1. Len(p.tokens) \in Nat
        BY FlagsAre
      <4> QED BY <1>2, <4>1
    <3> QED BY <1>2, <1>3, <1>6, <2>2, <3>1, CountIs
  <2>5. SliceDeepstack(f, q, F, s, e) =
          Slice(q, Count(Slice(F, 0, s)), Count(Slice(F, 0, s)) + Count(Slice(F, s, e)))
    BY <1>6 DEF SliceDeepstack
  <2> QED BY <1>1, <1>4, <2>3, <2>4, <2>5
<1> QED BY <1>5, <1>6

\* What is sorted already.
LEMMA SortedAll ==
  ASSUME NEW n \in Nat
  PROVE  Sorted(1..n) = Arange(1, n + 1)
<1>1. PICK S, q : S = 1..n /\ q = Sorted(S)
  OBVIOUS
<1>2. IsFiniteSet(1..n) /\ Cardinality(1..n) = n
  <2>1. PICK u : u = 1
    OBVIOUS
  <2>2. IsFiniteSet(u..n) /\ Cardinality(u..n) = IF u > n THEN 0 ELSE n - u + 1
    BY <2>1, FS_Interval
  <2> QED BY <2>1, <2>2
<1>3. S \subseteq Nat /\ IsFiniteSet(S) /\ Cardinality(S) = n
  BY <1>1, <1>2
<1>4. /\ DOMAIN q = 1..n /\ q \in Seq(S) /\ \A k \in 1..n : q[k] \in S /\ Rank(S, q[k]) = k - 1
  BY <1>1, <1>3, SortedIs
<1>5. ASSUME NEW k \in 1..n PROVE q[k] = k
  <2>1. PICK x : x = q[k]
    OBVIOUS
  <2>2. x \in 1..n /\ Rank(S, x) = k - 1
    BY <1>1, <1>4, <2>1
  <2>3. PICK u, v : u = 1 /\ v = x - 1
    OBVIOUS
  <2>4. Below(S, x) = u..v
    BY <1>1, <2>2, <2>3 DEF Below
  <2>5. Cardinality(u..v) = IF u > v THEN 0 ELSE v - u + 1
    BY <2>2, <2>3, FS_Interval
  <2>6. Rank(S, x) = x - 1
    BY <2>2, <2>3, <2>4, <2>5 DEF Rank
  <2> QED BY <2>1, <2>2, <2>6
<1>6. q = [k \in 1..n |-> q[k]]
  BY <1>4
<1>7. q = [k \in 1..n |-> 1 + k - 1]
  BY <1>5, <1>6
<1>8. (n + 1) - 1 = n
  OBVIOUS
<1> QED BY <1>1, <1>7, <1>8 DEF Arange

-----------------------------------------------------------------------------
(* Arguments of a part of the prompt.                                      *)

IsFamily(f) ==
  f \in [qwen : BOOLEAN, clears : BOOLEAN, types : BOOLEAN, sentinel : BOOLEAN,
         deepstack : {"no", "packed", "aligned"}, dense : {"no", "attention", "padding"}]

PlacesOf(p) ==
  IF HasImages(p) THEN MropeState(p).position_ids ELSE [i \in 1..Len(p.tokens) |-> Same(i - 1)]

TypesOf(p) == [i \in 1..Len(p.tokens) |-> IF p.tokens[i] > 0 THEN 1 ELSE 0]

\* The rows of the mask from a + 1 to b, over the first of the keys.
Rows(p, a, b, keys) == [q \in 1..(b - a) |-> [k \in 1..keys |-> DenseMask(p)[a + q][k]]]

\* The arguments of a prompt, of which c tokens were restored.
HasPositions(f, p, c) == f.qwen /\ (HasImages(p) \/ c = 0 \/ ~ f.clears)
HasVisuals(f, p) == f.deepstack # "no" /\ HasImages(p)
HasMask(f, p) == f.dense = "attention" /\ HasImages(p)
HasTypes(f, p) == f.types /\ HasImages(p)

\* Of the arguments, there are those of the family.
Named(f, p, c, args) ==
  /\ DOMAIN args \subseteq {"position_ids", "rope_deltas", "visual_pos_masks",
                            "deepstack_visual_embeds", "mask", "mm_token_type_ids"}
  /\ ("position_ids" \in DOMAIN args) <=> HasPositions(f, p, c)
  /\ ("visual_pos_masks" \in DOMAIN args) <=> HasVisuals(f, p)
  /\ ("deepstack_visual_embeds" \in DOMAIN args) <=> HasVisuals(f, p)
  /\ ("mask" \in DOMAIN args) <=> HasMask(f, p)
  /\ ("mm_token_type_ids" \in DOMAIN args) <=> HasTypes(f, p)
  /\ "rope_deltas" \in DOMAIN args => "position_ids" \in DOMAIN args

PositionsCut(p, args, a, b) ==
  "position_ids" \in DOMAIN args => args["position_ids"] = Part(PlacesOf(p), a, b)
FlagsCut(p, args, a, b) ==
  "visual_pos_masks" \in DOMAIN args => args["visual_pos_masks"] = Part(ImageFlags(p), a, b)
TypesCut(p, args, a, b) ==
  "mm_token_type_ids" \in DOMAIN args => args["mm_token_type_ids"] = Part(TypesOf(p), a, b)
MaskCut(p, args, a, b, keys) ==
  "mask" \in DOMAIN args => args["mask"] = Rows(p, a, b, keys)
VisualsCut(f, p, args, a, b) ==
  "deepstack_visual_embeds" \in DOMAIN args =>
    args["deepstack_visual_embeds"] = Sorted(Embedded(f, p, a, b))

\* args are those of the tokens from a + 1 to b, over the first of the keys.
IsCut(f, p, c, args, a, b, keys) ==
  /\ Named(f, p, c, args)
  /\ PositionsCut(p, args, a, b) /\ FlagsCut(p, args, a, b) /\ TypesCut(p, args, a, b)
  /\ MaskCut(p, args, a, b, keys) /\ VisualsCut(f, p, args, a, b)

\* What slice_prompt_kwargs does to each argument.
LEMMA SliceKwargsIs ==
  ASSUME NEW f, NEW args, NEW s, NEW e, NEW keys
  PROVE  /\ DOMAIN SliceKwargs(f, args, s, e, keys) = DOMAIN args
         /\ \A name \in ByToken \cap DOMAIN args :
              SliceKwargs(f, args, s, e, keys)[name] = Slice(args[name], s, e)
         /\ "mask" \in DOMAIN args =>
              SliceKwargs(f, args, s, e, keys)["mask"] = SliceMask(args["mask"], s, e, keys)
         /\ "deepstack_visual_embeds" \in DOMAIN args =>
              SliceKwargs(f, args, s, e, keys)["deepstack_visual_embeds"] =
                SliceDeepstack(f, args["deepstack_visual_embeds"], args["visual_pos_masks"], s, e)
<1> DEFINE V(name) == CASE name \in ByToken -> Slice(args[name], s, e)
                        [] name = "mask" -> SliceMask(args.mask, s, e, keys)
                        [] name = "deepstack_visual_embeds" ->
                             SliceDeepstack(f, args[name], args.visual_pos_masks, s, e)
                        [] OTHER -> args[name]
<1>1. SliceKwargs(f, args, s, e, keys) = [name \in DOMAIN args |-> V(name)]
  BY Zenon DEF SliceKwargs
<1>2. \A name \in ByToken : V(name) = Slice(args[name], s, e)
  BY DEF ByToken
<1>3. V("mask") = SliceMask(args["mask"], s, e, keys)
  BY DEF ByToken
<1>4. V("deepstack_visual_embeds") =
        SliceDeepstack(f, args["deepstack_visual_embeds"], args["visual_pos_masks"], s, e)
  BY DEF ByToken
<1> HIDE DEF V
<1> QED BY <1>1, <1>2, <1>3, <1>4

\* The mask's rows are cut by token, and each by key.
LEMMA MaskSliced ==
  ASSUME NEW p, NEW a \in Nat, NEW b \in Nat, a <= b, NEW m \in Nat,
         NEW s \in Nat, NEW e \in s..(b - a), NEW keys \in 0..m
  PROVE  SliceMask(Rows(p, a, b, m), s, e, keys) = Rows(p, a + s, a + e, keys)
<1>1. PICK R : R = Rows(p, a, b, m)
  OBVIOUS
<1>2. \A q \in 1..(e - s) : Slice(R[s + q], 0, keys) = [k \in 1..keys |-> DenseMask(p)[(a + s) + q][k]]
  <2> TAKE q \in 1..(e - s)
  <2>1. PICK row, z, D : row = R[s + q] /\ z = 0 /\ D = DenseMask(p)[(a + s) + q]
    OBVIOUS
  <2>2. s + q \in 1..(b - a) /\ a + (s + q) = (a + s) + q
    OBVIOUS
  <2>3. row = [k \in 1..m |-> DenseMask(p)[a + (s + q)][k]]
    BY <1>1, <2>1, <2>2 DEF Rows
  <2>4. row = [k \in 1..m |-> D[k]]
    BY <2>1, <2>2, <2>3
  <2>5. DOMAIN row = 1..m /\ row = [k \in 1..m |-> row[k]] /\ \A k \in 1..m : row[k] = D[k]
    BY <2>4
  <2>6. z \in Nat /\ keys \in z..m
    BY <2>1
  <2>7. Slice(row, z, keys) = Part(row, z, keys)
    BY <2>5, <2>6, SliceOf
  <2>8. keys - z = keys /\ \A k \in 1..keys : z + k = k /\ k \in 1..m
    BY <2>1
  <2>9. Part(row, z, keys) = [k \in 1..keys |-> D[k]]
    BY <2>5, <2>8 DEF Part
  <2> QED BY <2>1, <2>7, <2>9
<1>3. (a + e) - (a + s) = e - s
  OBVIOUS
<1>4. SliceMask(R, s, e, keys) = [q \in 1..(e - s) |-> Slice(R[s + q], 0, keys)]
  BY DEF SliceMask
<1>5. Rows(p, a + s, a + e, keys) = [q \in 1..(e - s) |-> [k \in 1..keys |-> DenseMask(p)[(a + s) + q][k]]]
  BY <1>3, Zenon DEF Rows
<1> DEFINE row(q) == [k \in 1..keys |-> DenseMask(p)[(a + s) + q][k]]
<1>6. /\ \A q \in 1..(e - s) : Slice(R[s + q], 0, keys) = row(q)
      /\ Rows(p, a + s, a + e, keys) = [q \in 1..(e - s) |-> row(q)]
  BY <1>2, <1>5, Zenon
<1> HIDE DEF row
<1> QED BY <1>1, <1>4, <1>6

\* A slice of the arguments is the arguments of the slice.
LEMMA SliceIsCut ==
  ASSUME NEW f, NEW p, IsPrompt(p), NEW c, NEW args, NEW a \in Nat, a <= Len(p.tokens),
         IsCut(f, p, c, args, a, Len(p.tokens), Len(p.tokens)),
         NEW s \in Nat, NEW e \in s..(Len(p.tokens) - a), NEW keys \in 0..Len(p.tokens)
  PROVE  IsCut(f, p, c, SliceKwargs(f, args, s, e, keys), a + s, a + e, keys)
<1>1. PICK L, K, x, y : L = Len(p.tokens) /\ K = SliceKwargs(f, args, s, e, keys) /\ x = a + s /\ y = a + e
  OBVIOUS
<1>2. L \in Nat /\ a <= L /\ e \in s..(L - a) /\ keys \in 0..L
  BY <1>1, FlagsAre
<1>3. /\ DOMAIN K = DOMAIN args
      /\ \A name \in ByToken \cap DOMAIN args : K[name] = Slice(args[name], s, e)
      /\ "mask" \in DOMAIN args => K["mask"] = SliceMask(args["mask"], s, e, keys)
      /\ "deepstack_visual_embeds" \in DOMAIN args =>
              K["deepstack_visual_embeds"] =
                SliceDeepstack(f, args["deepstack_visual_embeds"], args["visual_pos_masks"], s, e)
  BY <1>1, SliceKwargsIs
<1>4. /\ Named(f, p, c, args) /\ PositionsCut(p, args, a, L) /\ FlagsCut(p, args, a, L) /\ TypesCut(p, args, a, L)
      /\ MaskCut(p, args, a, L, L) /\ VisualsCut(f, p, args, a, L)
  BY <1>1 DEF IsCut
<1>5. Named(f, p, c, K)
  BY <1>3, <1>4 DEF Named
<1>6. \A F : Slice(Part(F, a, L), s, e) = Part(F, x, y)
  BY <1>1, <1>2, SlicePart
<1>7. PositionsCut(p, K, x, y)
  <2>1. "position_ids" \in ByToken
    BY DEF ByToken
  <2> QED BY <1>3, <1>4, <1>6, <2>1 DEF PositionsCut
<1>8. FlagsCut(p, K, x, y)
  <2>1. "visual_pos_masks" \in ByToken
    BY DEF ByToken
  <2> QED BY <1>3, <1>4, <1>6, <2>1 DEF FlagsCut
<1>9. TypesCut(p, K, x, y)
  <2>1. "mm_token_type_ids" \in ByToken
    BY DEF ByToken
  <2> QED BY <1>3, <1>4, <1>6, <2>1 DEF TypesCut
<1>10. MaskCut(p, K, x, y, keys)
  <2>1. SliceMask(Rows(p, a, L, L), s, e, keys) = Rows(p, x, y, keys)
    BY <1>1, <1>2, MaskSliced
  <2> QED BY <1>3, <1>4, <2>1 DEF MaskCut
<1>11. VisualsCut(f, p, K, x, y)
  <2>1. SliceDeepstack(f, Sorted(Embedded(f, p, a, L)), Part(ImageFlags(p), a, L), s, e) =
          Sorted(Embedded(f, p, x, y))
    BY <1>1, <1>2, DeepstackIsCut
  <2>2. "deepstack_visual_embeds" \in DOMAIN args => "visual_pos_masks" \in DOMAIN args
    BY <1>4 DEF Named
  <2> QED BY <1>3, <1>4, <2>1, <2>2 DEF VisualsCut, FlagsCut
<1>12. IsCut(f, p, c, K, x, y, keys)
  BY <1>5, <1>7, <1>8, <1>9, <1>10, <1>11 DEF IsCut
<1> QED BY <1>1, <1>12

-----------------------------------------------------------------------------
(* Arguments of the whole prompt.                                          *)

\* NoArguments are none.
LEMMA NoneIs == DOMAIN NoArguments = {}
BY DEF NoArguments

\* name is among the arguments just where "there" is, and is value then.
Given(args, name, there, value) ==
  /\ name \in DOMAIN args <=> there
  /\ name \in DOMAIN args => args[name] = value

\* Another argument changes nothing about one.
LEMMA GivenWith ==
  ASSUME NEW args, NEW name, NEW value, NEW n, n # name, NEW there, NEW v, Given(args, n, there, v)
  PROVE  Given(With(args, name, value), n, there, v)
<1>1. PICK W : W = With(args, name, value)
  OBVIOUS
<1>2. DOMAIN W = DOMAIN args \cup {name} /\ \A x \in DOMAIN args : x # name => W[x] = args[x]
  BY <1>1 DEF With
<1>3. Given(W, n, there, v)
  BY <1>2 DEF Given
<1> QED BY <1>1, <1>3

\* The whole mask has all rows and all keys.
LEMMA MaskIsRows ==
  ASSUME NEW p, IsPrompt(p)
  PROVE  DenseMask(p) = Rows(p, 0, Len(p.tokens), Len(p.tokens))
<1>1. PICK L, D : L = Len(p.tokens) /\ D = DenseMask(p)
  OBVIOUS
<1>2. L \in Nat /\ DOMAIN p.tokens = 1..L
  BY <1>1, FlagsAre
<1> DEFINE V(q, k) == k <= q \/ (p.tokens[q] > 0 /\ p.tokens[k] = p.tokens[q])
<1>3. D = [q \in 1..L |-> [k \in 1..L |-> V(q, k)]]
  BY <1>1, <1>2 DEF DenseMask
<1> HIDE DEF V
<1>4. \A q \in 1..L : D[q] = [k \in 1..L |-> V(q, k)]
  BY <1>3
<1>5. \A q \in 1..L : [k \in 1..L |-> D[q][k]] = [k \in 1..L |-> V(q, k)]
  <2> TAKE q \in 1..L
  <2>1. \A k \in 1..L : D[q][k] = V(q, k)
    BY <1>4
  <2> QED BY <2>1
<1>6. L - 0 = L /\ \A q \in 1..L : 0 + q = q
  BY <1>2
<1>7. Rows(p, 0, L, L) = [q \in 1..L |-> [k \in 1..L |-> D[q][k]]]
  <2> DEFINE row(q) == [k \in 1..L |-> D[q][k]]
  <2>1. Rows(p, 0, L, L) = [q \in 1..(L - 0) |-> row(0 + q)]
    BY <1>1, Zenon DEF Rows
  <2> HIDE DEF row
  <2>2. Rows(p, 0, L, L) = [q \in 1..L |-> row(q)]
    BY <1>6, <2>1
  <2> QED BY <2>2 DEF row
<1> DEFINE R(q) == [k \in 1..L |-> D[q][k]]
           T(q) == [k \in 1..L |-> V(q, k)]
<1>8. Rows(p, 0, L, L) = [q \in 1..L |-> R(q)] /\ D = [q \in 1..L |-> T(q)] /\ \A q \in 1..L : R(q) = T(q)
  BY <1>3, <1>5, <1>7, Zenon
<1> HIDE DEF R, T
<1> QED BY <1>1, <1>8

\* mlx-vlm's embeddings are those of the whole prompt.
LEMMA DeepstackIs ==
  ASSUME NEW f, f.deepstack \in {"packed", "aligned"}, NEW p, IsPrompt(p)
  PROVE  Deepstack(f, p) = Sorted(Embedded(f, p, 0, Len(p.tokens)))
<1>1. PICK L \in Nat : L = Len(p.tokens) /\ DOMAIN p.tokens = 1..L
  BY FlagsAre
<1>2. 0 + 1 = 1
  OBVIOUS
<1>3. CASE f.deepstack = "aligned"
  <2>1. Embedded(f, p, 0, L) = 1..L
    BY <1>2, <1>3 DEF Embedded
  <2>2. Sorted(1..L) = Arange(1, L + 1)
    BY SortedAll
  <2> QED BY <1>1, <1>3, <2>1, <2>2 DEF Deepstack
<1>4. CASE f.deepstack = "packed"
  <2>1. Embedded(f, p, 0, L) = {i \in DOMAIN p.tokens : p.tokens[i] > 0}
    BY <1>1, <1>2, <1>4 DEF Embedded
  <2> QED BY <1>1, <1>4, <2>1 DEF Deepstack, Visual
<1> QED BY <1>3, <1>4

\* What is among the arguments of all of a prompt, and of the rest of one of text.
AllGiven(f, p, c, args, a, b, keys) ==
  /\ DOMAIN args \subseteq {"position_ids", "rope_deltas", "visual_pos_masks",
                            "deepstack_visual_embeds", "mask", "mm_token_type_ids"}
  /\ Given(args, "position_ids", HasPositions(f, p, c), Part(PlacesOf(p), a, b))
  /\ Given(args, "visual_pos_masks", HasVisuals(f, p), Part(ImageFlags(p), a, b))
  /\ Given(args, "deepstack_visual_embeds", HasVisuals(f, p), Sorted(Embedded(f, p, a, b)))
  /\ Given(args, "mask", HasMask(f, p), Rows(p, a, b, keys))
  /\ Given(args, "mm_token_type_ids", HasTypes(f, p), Part(TypesOf(p), a, b))
  /\ "rope_deltas" \in DOMAIN args => "position_ids" \in DOMAIN args

\* With that, the arguments are those of the part.
LEMMA GivenIsCut ==
  ASSUME NEW f, NEW p, NEW c, NEW args, NEW a, NEW b, NEW keys, AllGiven(f, p, c, args, a, b, keys)
  PROVE  IsCut(f, p, c, args, a, b, keys)
BY Zenon DEF AllGiven, Given, IsCut, Named, PositionsCut, FlagsCut, TypesCut, MaskCut, VisualsCut

\* The deepstack's arguments of a prompt with images.
LEMMA VisualPart ==
  ASSUME NEW f, IsFamily(f), NEW p, IsPrompt(p), HasImages(p),
         NEW A, A = IF f.deepstack = "no" THEN NoArguments
                    ELSE With(With(NoArguments, "visual_pos_masks", ImageFlags(p)),
                              "deepstack_visual_embeds", Deepstack(f, p))
  PROVE  /\ Given(A, "visual_pos_masks", HasVisuals(f, p), Part(ImageFlags(p), 0, Len(p.tokens)))
         /\ Given(A, "deepstack_visual_embeds", HasVisuals(f, p), Sorted(Embedded(f, p, 0, Len(p.tokens))))
         /\ DOMAIN A \subseteq {"visual_pos_masks", "deepstack_visual_embeds"}
<1>1. CASE f.deepstack = "no"
  <2>1. DOMAIN A = {} /\ ~ HasVisuals(f, p)
    BY <1>1, NoneIs DEF HasVisuals
  <2> QED BY <2>1 DEF Given
<1>2. CASE f.deepstack # "no"
  <2>1. f.deepstack \in {"packed", "aligned"}
    BY <1>2 DEF IsFamily
  <2>2. Deepstack(f, p) = Sorted(Embedded(f, p, 0, Len(p.tokens)))
    BY <2>1, DeepstackIs
  <2>3. ImageFlags(p) = Part(ImageFlags(p), 0, Len(p.tokens))
    <3>1. PICK F, n : F = ImageFlags(p) /\ n = Len(p.tokens)
      OBVIOUS
    <3>2. n \in Nat /\ F \in Seq(BOOLEAN) /\ Len(F) = n
      BY <3>1, FlagsAre
    <3>3. F = [i \in 1..n |-> F[i]]
      BY <3>2
    <3>4. Part(F, 0, n) = F
      BY <3>2, <3>3, PartAll
    <3> QED BY <3>1, <3>4
  <2>4. PICK N, W, u, v : /\ N = NoArguments /\ W = With(N, "visual_pos_masks", u)
                          /\ u = ImageFlags(p) /\ v = Deepstack(f, p)
    OBVIOUS
  <2>5. A = With(W, "deepstack_visual_embeds", v)
    BY <1>2, <2>4
  <2>6. DOMAIN N = {}
    BY <2>4, NoneIs
  <2>7. DOMAIN W = {"visual_pos_masks"} /\ W["visual_pos_masks"] = u
    BY <2>4, <2>6 DEF With
  <2>8. /\ DOMAIN A = {"visual_pos_masks", "deepstack_visual_embeds"}
        /\ A["visual_pos_masks"] = u /\ A["deepstack_visual_embeds"] = v
    BY <2>5, <2>7 DEF With
  <2>9. HasVisuals(f, p)
    BY <1>2 DEF HasVisuals
  <2> QED BY <2>2, <2>3, <2>4, <2>8, <2>9 DEF Given
<1> QED BY <1>1, <1>2

\* W has "value" too, if there is a value, or what args have.
Grown(args, W, name, value, there, S) ==
  /\ Given(W, name, there, value)
  /\ \A n, t, v : n # name /\ Given(args, n, t, v) => Given(W, n, t, v)
  /\ DOMAIN W \subseteq S \cup {name}

\* An argument more, or none.
LEMMA OneMore ==
  ASSUME NEW args, NEW name, NEW value, NEW there \in BOOLEAN, NEW S, DOMAIN args \subseteq S, name \notin S,
         NEW W, W = IF there THEN With(args, name, value) ELSE args
  PROVE  Grown(args, W, name, value, there, S)
<1>1. CASE there
  <2>1. W = With(args, name, value)
    BY <1>1
  <2>2. DOMAIN W = DOMAIN args \cup {name} /\ W[name] = value
    BY <2>1 DEF With
  <2>3. \A n, t, v : n # name /\ Given(args, n, t, v) => Given(W, n, t, v)
    BY <2>1, GivenWith
  <2>4. Given(W, name, there, value)
    BY <1>1, <2>2 DEF Given
  <2> QED BY <2>2, <2>3, <2>4 DEF Grown
<1>2. CASE ~ there
  <2>1. W = args /\ name \notin DOMAIN W
    BY <1>2
  <2>2. Given(W, name, there, value)
    BY <1>2, <2>1 DEF Given
  <2> QED BY <2>1, <2>2 DEF Grown
<1> QED BY <1>1, <1>2

\* The positions of the prompt are as many as its tokens.
LEMMA PlacesAre ==
  ASSUME NEW p, IsPrompt(p), HasImages(p) => GridsFit(p)
  PROVE  PlacesOf(p) = Part(PlacesOf(p), 0, Len(p.tokens))
<1>1. PICK P, n : P = PlacesOf(p) /\ n = Len(p.tokens)
  OBVIOUS
<1>2. n \in Nat
  BY <1>1, FlagsAre
<1>3. P = [i \in 1..n |-> P[i]]
  <2>1. CASE HasImages(p)
    <3>1. Placed(p, P, n, n + MropeState(p).rope_deltas)
      BY <1>1, <2>1, WalkPlaces DEF PlacesOf
    <3>2. P \in Seq(Places) /\ Len(P) = n
      BY <3>1 DEF Placed
    <3> QED BY <1>2, <3>2
  <2>2. CASE ~ HasImages(p)
    <3>1. P = [i \in 1..n |-> Same(i - 1)]
      BY <1>1, <2>2 DEF PlacesOf
    <3> QED BY <3>1
  <2> QED BY <2>1, <2>2
<1>4. Part(P, 0, n) = P
  BY <1>2, <1>3, PartAll
<1> QED BY <1>1, <1>4

\* build_prompt_kwargs gives a prompt with images the arguments of its
\* family.
LEMMA ImagesGiven ==
  ASSUME NEW f, IsFamily(f), NEW p, IsPrompt(p), HasImages(p), f.qwen => GridsFit(p), NEW c
  PROVE  AllGiven(f, p, c, ImageKwargs(f, p), 0, Len(p.tokens), Len(p.tokens))
<1>1. PICK L, places, flags, visuals, types, rows :
        /\ L = Len(p.tokens) /\ places = Part(PlacesOf(p), 0, L) /\ flags = Part(ImageFlags(p), 0, L)
        /\ visuals = Sorted(Embedded(f, p, 0, L)) /\ types = Part(TypesOf(p), 0, L)
        /\ rows = Rows(p, 0, L, L)
  OBVIOUS
<1>2. PICK A : A = IF f.deepstack = "no" THEN NoArguments
                   ELSE With(With(NoArguments, "visual_pos_masks", ImageFlags(p)),
                             "deepstack_visual_embeds", Deepstack(f, p))
  OBVIOUS
<1>3. /\ Given(A, "visual_pos_masks", HasVisuals(f, p), flags)
      /\ Given(A, "deepstack_visual_embeds", HasVisuals(f, p), visuals)
      /\ DOMAIN A \subseteq {"visual_pos_masks", "deepstack_visual_embeds"}
  BY <1>1, <1>2, VisualPart
<1>4. PICK B : B = IF HasTypes(f, p) THEN With(A, "mm_token_type_ids", types) ELSE A
  OBVIOUS
<1>5. PICK C : C = IF HasMask(f, p) THEN With(B, "mask", rows) ELSE B
  OBVIOUS
<1>6. PICK D : D = IF f.qwen THEN With(C, "position_ids", places) ELSE C
  OBVIOUS
<1>7. PICK E, delta : delta = MropeState(p).rope_deltas /\ E = IF f.qwen THEN With(D, "rope_deltas", delta) ELSE D
  OBVIOUS
<1>8. HasTypes(f, p) = f.types /\ HasMask(f, p) = (f.dense = "attention") /\ f.qwen \in BOOLEAN /\ f.types \in BOOLEAN
  BY DEF HasTypes, HasMask, IsFamily
<1>9. ImageKwargs(f, p) = E
  <2>1. [i \in DOMAIN p.tokens |-> IF p.tokens[i] > 0 THEN 1 ELSE 0] = types
    <3>1. PICK T, n : T = TypesOf(p) /\ n = Len(p.tokens)
      OBVIOUS
    <3>2. n \in Nat /\ DOMAIN p.tokens = 1..n
      BY <3>1, FlagsAre
    <3>3. T = [i \in 1..n |-> IF p.tokens[i] > 0 THEN 1 ELSE 0]
      BY <3>1 DEF TypesOf
    <3>4. T = [i \in 1..n |-> T[i]]
      BY <3>3
    <3>5. Part(T, 0, n) = T
      BY <3>2, <3>4, PartAll
    <3> QED BY <1>1, <3>1, <3>2, <3>3, <3>5
  <2>2. (IF ~ f.types THEN A
         ELSE With(A, "mm_token_type_ids", [i \in DOMAIN p.tokens |-> IF p.tokens[i] > 0 THEN 1 ELSE 0])) = B
    BY <1>4, <1>8, <2>1, Zenon
  <2>3. ImageKwargs(f, p) = AddRopeState(f, RouteAttentionMask(f, B, p), p)
    BY <1>2, <2>2, Zenon DEF ImageKwargs
  <2>4. DenseMask(p) = rows
    BY <1>1, MaskIsRows
  <2>5. RouteAttentionMask(f, B, p) = C
    BY <1>5, <1>8, <2>4, Zenon DEF RouteAttentionMask
  <2>6. f.qwen => MropeState(p).position_ids = places
    <3>1. ASSUME f.qwen PROVE PlacesOf(p) = Part(PlacesOf(p), 0, L)
      BY <1>1, <3>1, PlacesAre
    <3>2. PlacesOf(p) = MropeState(p).position_ids
      BY DEF PlacesOf
    <3> QED BY <1>1, <3>1, <3>2, Zenon
  <2>7. AddRopeState(f, C, p) = E
    BY <1>6, <1>7, <2>6, Zenon DEF AddRopeState
  <2> QED BY <2>3, <2>5, <2>7
<1> DEFINE N1 == {"visual_pos_masks", "deepstack_visual_embeds"}
           N2 == N1 \cup {"mm_token_type_ids"}
           N3 == N2 \cup {"mask"}
           N4 == N3 \cup {"position_ids"}
           N5 == N4 \cup {"rope_deltas"}
<1>10. /\ "mm_token_type_ids" \notin N1 /\ "mask" \notin N2 /\ "position_ids" \notin N3 /\ "rope_deltas" \notin N4
       /\ HasTypes(f, p) \in BOOLEAN /\ HasMask(f, p) \in BOOLEAN
  BY <1>8
<1>11. /\ Given(B, "mm_token_type_ids", HasTypes(f, p), types)
       /\ \A n, t, v : n # "mm_token_type_ids" /\ Given(A, n, t, v) => Given(B, n, t, v)
       /\ DOMAIN B \subseteq N2
  <2>1. DOMAIN A \subseteq N1 /\ "mm_token_type_ids" \notin N1
    BY <1>10, <1>3
  <2> HIDE DEF N1
  <2>2. Grown(A, B, "mm_token_type_ids", types, HasTypes(f, p), N1)
    BY <1>4, <1>10, <2>1, OneMore
  <2> QED BY <2>2, Zenon DEF Grown
<1>12. /\ Given(C, "mask", HasMask(f, p), rows)
       /\ \A n, t, v : n # "mask" /\ Given(B, n, t, v) => Given(C, n, t, v)
       /\ DOMAIN C \subseteq N3
  <2>1. DOMAIN B \subseteq N2 /\ "mask" \notin N2
    BY <1>10, <1>11
  <2> HIDE DEF N2
  <2>2. Grown(B, C, "mask", rows, HasMask(f, p), N2)
    BY <1>5, <1>10, <2>1, OneMore
  <2> QED BY <2>2, Zenon DEF Grown
<1>13. /\ Given(D, "position_ids", f.qwen, places)
       /\ \A n, t, v : n # "position_ids" /\ Given(C, n, t, v) => Given(D, n, t, v)
       /\ DOMAIN D \subseteq N4
  <2>1. DOMAIN C \subseteq N3 /\ "position_ids" \notin N3
    BY <1>10, <1>12
  <2> HIDE DEF N3
  <2>2. Grown(C, D, "position_ids", places, f.qwen, N3)
    BY <1>6, <1>8, <2>1, OneMore
  <2> QED BY <2>2, Zenon DEF Grown
<1>14. /\ Given(E, "rope_deltas", f.qwen, delta)
       /\ \A n, t, v : n # "rope_deltas" /\ Given(D, n, t, v) => Given(E, n, t, v)
       /\ DOMAIN E \subseteq N5
  <2>1. DOMAIN D \subseteq N4 /\ "rope_deltas" \notin N4
    BY <1>10, <1>13
  <2> HIDE DEF N4
  <2>2. Grown(D, E, "rope_deltas", delta, f.qwen, N4)
    BY <1>7, <1>8, <2>1, OneMore
  <2> QED BY <2>2, Zenon DEF Grown
<1>15. /\ Given(E, "visual_pos_masks", HasVisuals(f, p), flags)
       /\ Given(E, "deepstack_visual_embeds", HasVisuals(f, p), visuals)
       /\ Given(E, "mm_token_type_ids", HasTypes(f, p), types)
       /\ Given(E, "mask", HasMask(f, p), rows)
       /\ Given(E, "position_ids", f.qwen, places)
  <2> HIDE DEF N1, N2, N3, N4, N5
  <2>1. /\ Given(B, "visual_pos_masks", HasVisuals(f, p), flags)
        /\ Given(B, "deepstack_visual_embeds", HasVisuals(f, p), visuals)
    BY <1>3, <1>11
  <2>2. /\ Given(C, "visual_pos_masks", HasVisuals(f, p), flags)
        /\ Given(C, "deepstack_visual_embeds", HasVisuals(f, p), visuals)
        /\ Given(C, "mm_token_type_ids", HasTypes(f, p), types)
    BY <1>11, <1>12, <2>1
  <2>3. /\ Given(D, "visual_pos_masks", HasVisuals(f, p), flags)
        /\ Given(D, "deepstack_visual_embeds", HasVisuals(f, p), visuals)
        /\ Given(D, "mm_token_type_ids", HasTypes(f, p), types)
        /\ Given(D, "mask", HasMask(f, p), rows)
    BY <1>12, <1>13, <2>2
  <2> QED BY <1>13, <1>14, <2>3
<1>16. HasPositions(f, p, c) = f.qwen
  BY <1>8 DEF HasPositions
<1>17. "rope_deltas" \in DOMAIN E => "position_ids" \in DOMAIN E
  BY <1>14, <1>15 DEF Given
<1>18. AllGiven(f, p, c, E, 0, L, L)
  <2>1. DOMAIN E \subseteq {"position_ids", "rope_deltas", "visual_pos_masks",
                            "deepstack_visual_embeds", "mask", "mm_token_type_ids"}
    BY <1>14
  <2> QED BY <1>1, <1>15, <1>16, <1>17, <2>1, Zenon DEF AllGiven
<1> QED BY <1>1, <1>9, <1>18

-----------------------------------------------------------------------------
(* Arguments of what a restored prefix leaves.                             *)

\* A prompt of text, of which c tokens were restored.
TextBuilt(f, p, c) ==
  IF c = 0 THEN TextKwargs(f, Len(p.tokens))
  ELSE RestorePositions(f, TextKwargs(f, Len(p.tokens) - c), c, Len(p.tokens) - c)

InPlaces(p, c, b) == Part(PlacesOf(p), c, b) = [i \in 1..(b - c) |-> Same(c + i - 1)]

\* The positions of a part of text count on from its start.
LEMMA TextPlaces ==
  ASSUME NEW p, IsPrompt(p), ~ HasImages(p), NEW b \in 0..Len(p.tokens), NEW c \in 0..b
  PROVE  InPlaces(p, c, b)
<1>1. PICK P, n : P = PlacesOf(p) /\ n = Len(p.tokens)
  OBVIOUS
<1>2. n \in Nat
  BY <1>1, FlagsAre
<1>3. P = [i \in 1..n |-> Same(i - 1)]
  BY <1>1 DEF PlacesOf
<1>4. \A i \in 1..(b - c) : P[c + i] = Same(c + i - 1)
  <2> TAKE i \in 1..(b - c)
  <2>1. c + i \in 1..n
    BY <1>1, <1>2
  <2> QED BY <1>3, <2>1
<1>5. Part(P, c, b) = [i \in 1..(b - c) |-> Same(c + i - 1)]
  <2> DEFINE V(i) == Same(c + i - 1)
  <2>1. \A i \in 1..(b - c) : P[c + i] = V(i)
    BY <1>4
  <2> HIDE DEF V
  <2>2. Part(P, c, b) = [i \in 1..(b - c) |-> V(i)]
    BY <2>1 DEF Part
  <2> QED BY <2>2 DEF V
<1> QED BY <1>1, <1>5, Zenon DEF InPlaces

\* build_cached_prompt_kwargs gives a prompt of text those of what is
\* left.
LEMMA TextGiven ==
  ASSUME NEW f, IsFamily(f), NEW p, IsPrompt(p), ~ HasImages(p), NEW c \in 0..(Len(p.tokens) - 1)
  PROVE  AllGiven(f, p, c, TextBuilt(f, p, c), c, Len(p.tokens), Len(p.tokens))
<1>1. PICK K, n, P : K = TextBuilt(f, p, c) /\ n = Len(p.tokens) /\ P = Part(PlacesOf(p), c, n)
  OBVIOUS
<1>2. n \in Nat /\ c \in 0..n /\ f.qwen \in BOOLEAN /\ f.clears \in BOOLEAN
  BY <1>1, FlagsAre DEF IsFamily
<1>3. P = [i \in 1..(n - c) |-> Same(c + i - 1)]
  <2>1. n \in 0..Len(p.tokens) /\ c \in 0..n
    BY <1>1, <1>2
  <2>2. InPlaces(p, c, n)
    BY <2>1, TextPlaces
  <2> QED BY <1>1, <2>2, Zenon DEF InPlaces
<1>4. ~ HasVisuals(f, p) /\ ~ HasMask(f, p) /\ ~ HasTypes(f, p) /\ HasPositions(f, p, c) = (f.qwen /\ (c = 0 \/ ~ f.clears))
  BY DEF HasVisuals, HasMask, HasTypes, HasPositions
<1>5. Given(K, "position_ids", HasPositions(f, p, c), P) /\ DOMAIN K \subseteq {"position_ids"}
  <2>1. CASE ~ f.qwen
    <3>1. K = NoArguments
      BY <1>1, <2>1, Zenon DEF TextBuilt, TextKwargs, RestorePositions
    <3> QED BY <1>4, <2>1, <3>1, NoneIs DEF Given
  <2>2. CASE f.qwen /\ c = 0
    <3>1. K = TextKwargs(f, n)
      BY <1>1, <2>2 DEF TextBuilt
    <3>2. K = With(NoArguments, "position_ids", [i \in 1..n |-> Same(i - 1)])
      BY <2>2, <3>1 DEF TextKwargs
    <3>3. n - c = n /\ \A i \in 1..n : c + i - 1 = i - 1
      BY <1>2, <2>2
    <3>4. [i \in 1..n |-> Same(i - 1)] = P
      <4> DEFINE U(i) == Same(i - 1)
                 V(i) == Same(c + i - 1)
      <4>1. \A i \in 1..n : U(i) = V(i)
        BY <3>3
      <4>2. P = [i \in 1..n |-> V(i)]
        BY <1>3, <3>3, Zenon
      <4> HIDE DEF U, V
      <4>3. P = [i \in 1..n |-> U(i)]
        BY <4>1, <4>2
      <4> QED BY <4>3 DEF U
    <3>5. K = With(NoArguments, "position_ids", P)
      BY <3>2, <3>4
    <3>6. DOMAIN K = {"position_ids"} /\ K["position_ids"] = P
      BY <3>5, NoneIs DEF With
    <3> QED BY <1>4, <2>2, <3>6 DEF Given
  <2>3. CASE f.qwen /\ c # 0
    <3>1. PICK T : T = TextKwargs(f, n - c)
      OBVIOUS
    <3>2. K = RestorePositions(f, T, c, n - c)
      BY <1>1, <2>3, <3>1 DEF TextBuilt
    <3>3. PICK Q : Q = [i \in 1..(n - c) |-> Same(i - 1)]
      OBVIOUS
    <3>4. T = With(NoArguments, "position_ids", Q)
      BY <2>3, <3>1, <3>3, Zenon DEF TextKwargs
    <3>5. DOMAIN T = {"position_ids"}
      BY <3>4, NoneIs DEF With
    <3>6. CASE f.clears
      <4>1. K = [name \in DOMAIN T \ {"position_ids", "rope_deltas"} |-> T[name]]
        BY <2>3, <3>2, <3>6 DEF RestorePositions
      <4>2. DOMAIN K = {}
        BY <3>5, <4>1
      <4> QED BY <1>4, <2>3, <3>6, <4>2 DEF Given
    <3>7. CASE ~ f.clears
      <4>1. K = With(T, "position_ids", P)
        BY <1>3, <2>3, <3>2, <3>7, Zenon DEF RestorePositions
      <4>2. DOMAIN K = {"position_ids"} /\ K["position_ids"] = P
        BY <3>5, <4>1 DEF With
      <4> QED BY <1>4, <2>3, <3>7, <4>2 DEF Given
    <3> QED BY <3>6, <3>7
  <2> QED BY <2>1, <2>2, <2>3
<1>6. /\ Given(K, "visual_pos_masks", HasVisuals(f, p), Part(ImageFlags(p), c, n))
      /\ Given(K, "deepstack_visual_embeds", HasVisuals(f, p), Sorted(Embedded(f, p, c, n)))
      /\ Given(K, "mask", HasMask(f, p), Rows(p, c, n, n))
      /\ Given(K, "mm_token_type_ids", HasTypes(f, p), Part(TypesOf(p), c, n))
  <2>1. /\ "visual_pos_masks" \notin DOMAIN K /\ "deepstack_visual_embeds" \notin DOMAIN K
        /\ "mask" \notin DOMAIN K /\ "mm_token_type_ids" \notin DOMAIN K
    BY <1>5
  <2> QED BY <1>4, <2>1, Zenon DEF Given
<1>7. "rope_deltas" \notin DOMAIN K /\ DOMAIN K \subseteq {"position_ids", "rope_deltas", "visual_pos_masks",
                            "deepstack_visual_embeds", "mask", "mm_token_type_ids"}
  BY <1>5
<1> QED BY <1>1, <1>5, <1>6, <1>7, Zenon DEF AllGiven

\* Whatever was restored, the arguments built are those of what is left.
LEMMA BuiltIsCut ==
  ASSUME NEW f, IsFamily(f), NEW p, IsPrompt(p), f.qwen => GridsFit(p), NEW c \in 0..(Len(p.tokens) - 1)
  PROVE  IsCut(f, p, c, Built(f, p, c), c, Len(p.tokens), Len(p.tokens))
<1>1. PICK L : L = Len(p.tokens)
  OBVIOUS
<1>2. L \in Nat /\ c \in 0..(L - 1)
  BY <1>1, FlagsAre
<1>3. CASE HasImages(p)
  <2>1. AllGiven(f, p, c, ImageKwargs(f, p), 0, L, L)
    BY <1>1, <1>3, ImagesGiven
  <2>2. PICK K, z : K = ImageKwargs(f, p) /\ z = 0
    OBVIOUS
  <2>3. IsCut(f, p, c, K, z, L, L)
    BY <2>1, <2>2, GivenIsCut
  <2>4. z \in Nat /\ z <= L /\ c \in Nat /\ L \in c..(L - z) /\ L \in 0..L /\ z + c = c /\ z + L = L
    BY <1>2, <2>2
  <2>5. IsCut(f, p, c, SliceKwargs(f, K, c, L, L), z + c, z + L, L)
    BY <1>1, <2>3, <2>4, SliceIsCut
  <2>6. Built(f, p, c) = SliceKwargs(f, K, c, L, L)
    BY <1>1, <1>3, <2>2 DEF Built
  <2> QED BY <1>1, <2>4, <2>5, <2>6
<1>4. CASE ~ HasImages(p)
  <2>1. Built(f, p, c) = TextBuilt(f, p, c)
    BY <1>4, Zenon DEF Built, TextBuilt
  <2>2. AllGiven(f, p, c, TextBuilt(f, p, c), c, L, L)
    BY <1>1, <1>4, TextGiven
  <2> QED BY <1>1, <2>1, <2>2, GivenIsCut
<1> QED BY <1>3, <1>4

LongRows(p, a, b, keys) == Len(Rows(p, a, b, keys)) = b - a

\* The mask has a row for each token.
LEMMA RowsLength ==
  ASSUME NEW p, NEW a \in Nat, NEW b \in Nat, a <= b, NEW keys
  PROVE  LongRows(p, a, b, keys)
<1>1. PICK q, m : q = Rows(p, a, b, keys) /\ m = b - a
  OBVIOUS
<1>2. m \in Nat
  BY <1>1
<1> DEFINE row(i) == [k \in 1..keys |-> DenseMask(p)[a + i][k]]
<1>3. q = [i \in 1..m |-> row(i)]
  BY <1>1, Zenon DEF Rows
<1> HIDE DEF row
<1>4. PICK T : T = {row(i) : i \in 1..m}
  OBVIOUS
<1>5. q \in [1..m -> T]
  BY <1>3, <1>4
<1>6. q \in Seq(T) /\ Len(q) = m
  BY <1>2, <1>5, SeqDef, LenProperties
<1> QED BY <1>1, <1>6 DEF LongRows

\* What is left when the first n tokens are dropped.
LEMMA DropIsCut ==
  ASSUME NEW f, IsPrompt(prompt), NEW c, NEW args, NEW a \in Nat, a < Len(prompt.tokens),
         IsCut(f, prompt, c, args, a, Len(prompt.tokens), Len(prompt.tokens)),
         NEW n \in 0..(Len(prompt.tokens) - a)
  PROVE  IsCut(f, prompt, c, DropPrefix(f, args, n), a + n, Len(prompt.tokens), Len(prompt.tokens))
<1>1. PICK L, m, b : L = Len(prompt.tokens) /\ m = L - a /\ b = a + n
  OBVIOUS
<1>2. L \in Nat /\ m \in Nat \ {0} /\ n \in 0..m /\ a + m = L /\ b \in Nat
  BY <1>1, FlagsAre
<1>3. /\ Named(f, prompt, c, args) /\ PositionsCut(prompt, args, a, L) /\ FlagsCut(prompt, args, a, L)
      /\ TypesCut(prompt, args, a, L) /\ MaskCut(prompt, args, a, L, L)
  BY <1>1 DEF IsCut
<1>4. \A F : Len(Part(F, a, L)) = m
  BY <1>1, <1>2, PartLength
<1>5. Len(Rows(prompt, a, L, L)) = m
  <2>1. a \in Nat /\ a <= L /\ L - a = m
    BY <1>1, <1>2
  <2>2. LongRows(prompt, a, L, L)
    BY <1>2, <2>1, RowsLength
  <2> QED BY <2>1, <2>2 DEF LongRows
<1>6. CASE DOMAIN args = {}
  <2>1. TokenLength(args) = 0
    BY <1>6 DEF TokenLength
  <2>2. DropPrefix(f, args, n) = args
    BY <2>1 DEF DropPrefix
  <2>3. IsCut(f, prompt, c, args, b, L, L)
    <3>1. \A name : name \notin DOMAIN args
      BY <1>6
    <3> QED
      BY <1>3, <3>1, Zenon DEF IsCut, PositionsCut, FlagsCut, TypesCut, MaskCut, VisualsCut
  <2> QED BY <1>1, <2>2, <2>3
<1>7. CASE DOMAIN args # {}
  <2>1. /\ "position_ids" \in DOMAIN args => Len(args["position_ids"]) = m
        /\ "visual_pos_masks" \in DOMAIN args => Len(args["visual_pos_masks"]) = m
        /\ "mm_token_type_ids" \in DOMAIN args => Len(args["mm_token_type_ids"]) = m
        /\ "mask" \in DOMAIN args => Len(args["mask"]) = m
    BY <1>3, <1>4, <1>5, Zenon DEF PositionsCut, FlagsCut, TypesCut, MaskCut
  <2>2. \/ "position_ids" \in DOMAIN args \/ "visual_pos_masks" \in DOMAIN args
        \/ "mm_token_type_ids" \in DOMAIN args \/ "mask" \in DOMAIN args
    BY <1>3, <1>7 DEF Named
  <2>3. TokenLength(args) = m
    BY <2>1, <2>2 DEF TokenLength
  <2>4. DropPrefix(f, args, n) = SliceKwargs(f, args, n, m, L)
    BY <1>1, <1>2, <2>3 DEF DropPrefix, NoKeyEnd
  <2>5. n \in Nat /\ m \in n..(L - a) /\ L \in 0..L /\ a <= L
    BY <1>1, <1>2
  <2>6. IsCut(f, prompt, c, SliceKwargs(f, args, n, m, L), a + n, a + m, L)
    BY <1>1, <2>5, SliceIsCut
  <2> QED BY <1>1, <1>2, <2>4, <2>6
<1> QED BY <1>6, <1>7

-----------------------------------------------------------------------------
(* Calls: the inductive invariant, and what follows for a call.            *)

\* What a call of n tokens gets, when "cut" is cut for it.
Prepared(args, cut, from, n) ==
  /\ DOMAIN args \subseteq DOMAIN cut
  /\ \A name \in DOMAIN cut :
       name # "mm_token_type_ids" => name \in DOMAIN args /\ args[name] = cut[name]
  /\ family.types => ("mm_token_type_ids" \in DOMAIN args <=>
                        "mm_token_type_ids" \in DOMAIN cut /\ HasImagePart(from, n))
  /\ family.types /\ "mm_token_type_ids" \in DOMAIN args =>
       args["mm_token_type_ids"] = PadTypes(cut["mm_token_type_ids"], from + n)

\* What _prepare_gemma4_prompt_kwargs does: it pads the types or leaves
\* them out.
LEMMA PreparedIs ==
  ASSUME NEW cut, NEW from, NEW n
  PROVE  Prepared(PrepareGemma(family, cut, from, n), cut, from, n)
<1>1. PICK A : A = PrepareGemma(family, cut, from, n)
  OBVIOUS
<1>2. PICK has : has = HasImagePart(from, n)
  OBVIOUS
<1>3. CASE ~ family.types \/ "mm_token_type_ids" \notin DOMAIN cut
  <2>1. A = cut
    BY <1>1, <1>3 DEF PrepareGemma
  <2> QED BY <1>1, <1>3, <2>1 DEF Prepared
<1>4. CASE family.types /\ "mm_token_type_ids" \in DOMAIN cut /\ HasImagePart(from, n)
  <2>1. PICK padded : padded = PadTypes(cut["mm_token_type_ids"], from + n)
    OBVIOUS
  <2>2. A = [cut EXCEPT !["mm_token_type_ids"] = padded]
    BY <1>1, <1>4, <2>1 DEF PrepareGemma
  <2>3. DOMAIN A = DOMAIN cut /\ A["mm_token_type_ids"] = padded
        /\ \A name \in DOMAIN cut : name # "mm_token_type_ids" => A[name] = cut[name]
    BY <1>4, <2>2
  <2> QED BY <1>1, <1>4, <2>1, <2>3 DEF Prepared
<1>5. CASE family.types /\ "mm_token_type_ids" \in DOMAIN cut /\ ~ HasImagePart(from, n)
  <2>1. A = [name \in DOMAIN cut \ {"mm_token_type_ids"} |-> cut[name]]
    BY <1>1, <1>5 DEF PrepareGemma
  <2>2. /\ DOMAIN A = DOMAIN cut \ {"mm_token_type_ids"}
        /\ \A name \in DOMAIN cut : name # "mm_token_type_ids" => A[name] = cut[name]
    BY <2>1
  <2> QED BY <1>1, <1>5, <2>2 DEF Prepared
<1> QED BY <1>3, <1>4, <1>5

\* The last call had n tokens after the first "from", with what "cut" has for them.
CallIs(from, n, cut) ==
  /\ from \in suffixStart..(PromptLength - 1) /\ n \in 1..(PromptLength - from)
  /\ lastCall = [from |-> from, size |-> n, embeds |-> Arange(from + 1, from + n + 1),
                 kwargs |-> PrepareGemma(family, cut, from, n)]
  /\ IsCut(family, prompt, suffixStart, cut, from, from + n, from + n)

InputsInv ==
  /\ IsFamily(family) /\ IsPrompt(prompt) /\ (family.qwen => GridsFit(prompt))
  /\ suffixStart \in 0..(PromptLength - 1) /\ processedLen \in suffixStart..PromptLength
  /\ processedLen = PromptLength => embeds = <<>>
  /\ processedLen < PromptLength =>
       /\ embeds = Arange(processedLen + 1, PromptLength + 1)
       /\ IsCut(family, prompt, suffixStart, kwargs, processedLen, PromptLength, PromptLength)
  /\ lastCall = NothingCalled \/ \E from, n, cut : CallIs(from, n, cut)

\* A call that was made, part by part.
LEMMA CallHas ==
  ASSUME InputsInv, NEW from, NEW n, NEW cut, CallIs(from, n, cut)
  PROVE  /\ from \in Nat /\ n \in Nat \ {0} /\ from + n <= PromptLength /\ PromptLength \in Nat
         /\ PromptLength = Len(prompt.tokens) /\ suffixStart \in 0..from
         /\ lastCall.from = from /\ lastCall.size = n /\ lastCall.embeds = Arange(from + 1, from + n + 1)
         /\ Prepared(lastCall.kwargs, cut, from, n)
         /\ IsCut(family, prompt, suffixStart, cut, from, from + n, from + n)
<1>1. /\ from \in suffixStart..(PromptLength - 1) /\ n \in 1..(PromptLength - from)
      /\ lastCall = [from |-> from, size |-> n, embeds |-> Arange(from + 1, from + n + 1),
                     kwargs |-> PrepareGemma(family, cut, from, n)]
      /\ IsCut(family, prompt, suffixStart, cut, from, from + n, from + n)
  BY DEF CallIs
<1>2. PromptLength = Len(prompt.tokens) /\ PromptLength \in Nat /\ suffixStart \in 0..(PromptLength - 1)
  <2>1. IsPrompt(prompt) /\ suffixStart \in 0..(PromptLength - 1)
    BY DEF InputsInv
  <2> QED BY <2>1, FlagsAre DEF PromptLength
<1>3. from \in Nat /\ n \in Nat \ {0} /\ from + n <= PromptLength /\ suffixStart \in 0..from
  BY <1>1, <1>2
<1>4. lastCall.from = from /\ lastCall.size = n /\ lastCall.embeds = Arange(from + 1, from + n + 1)
      /\ lastCall.kwargs = PrepareGemma(family, cut, from, n)
  BY <1>1
<1> QED BY <1>1, <1>2, <1>3, <1>4, PreparedIs

\* The tokens of a call are at their places.
LEMMA PositionsImplied ==
  ASSUME InputsInv, NEW from, NEW n, NEW cut, CallIs(from, n, cut)
  PROVE  PositionsAreThePrompts
<1>1. PICK b, L, K : b = from + n /\ L = PromptLength /\ K = lastCall.kwargs
  OBVIOUS
<1>2. /\ from \in Nat /\ n \in Nat \ {0} /\ b <= L /\ L \in Nat /\ L = Len(prompt.tokens) /\ b \in Nat
      /\ lastCall.from = from /\ lastCall.size = n /\ Prepared(K, cut, from, n)
      /\ IsCut(family, prompt, suffixStart, cut, from, b, b)
  BY <1>1, CallHas
<1>3. IsPrompt(prompt) /\ IsFamily(family) /\ (family.qwen => GridsFit(prompt))
  BY DEF InputsInv
<1>4. Named(family, prompt, suffixStart, cut) /\ PositionsCut(prompt, cut, from, b)
  BY <1>2 DEF IsCut
<1>5. /\ "position_ids" \in DOMAIN K <=> HasPositions(family, prompt, suffixStart)
      /\ "position_ids" \in DOMAIN K => K["position_ids"] = Part(PlacesOf(prompt), from, b)
  BY <1>2, <1>4 DEF Prepared, Named, PositionsCut
<1> DEFINE V(i) == Same(from + i - 1)
<1>6. ~ HasImages(prompt) => Part(PlacesOf(prompt), from, b) = [i \in 1..n |-> V(i)]
  <2>1. SUFFICES ASSUME ~ HasImages(prompt) PROVE Part(PlacesOf(prompt), from, b) = [i \in 1..n |-> V(i)]
    OBVIOUS
  <2>2. b \in 0..Len(prompt.tokens) /\ from \in 0..b /\ b - from = n
    BY <1>1, <1>2
  <2>3. Part(PlacesOf(prompt), from, b) = [i \in 1..(b - from) |-> Same(from + i - 1)]
    <3>1. InPlaces(prompt, from, b)
      BY <1>3, <2>1, <2>2, TextPlaces
    <3> QED BY <3>1, Zenon DEF InPlaces
  <2> QED BY <2>2, <2>3, Zenon
<1>7. family.qwen /\ HasImages(prompt) =>
        Part(PlacesOf(prompt), from, b) = Slice(MropeState(prompt).position_ids, from, b)
  <2>1. SUFFICES ASSUME family.qwen, HasImages(prompt)
                 PROVE  Part(PlacesOf(prompt), from, b) = Slice(MropeState(prompt).position_ids, from, b)
    OBVIOUS
  <2>2. PICK P : P = PlacesOf(prompt)
    OBVIOUS
  <2>3. P = MropeState(prompt).position_ids
    BY <2>1, <2>2 DEF PlacesOf
  <2>4. P = Part(P, 0, L)
    BY <1>2, <1>3, <2>1, <2>2, PlacesAre
  <2>5. DOMAIN P = 1..L /\ P = [i \in 1..L |-> P[i]]
    <3>1. L - 0 = L
      BY <1>2
    <3>2. P = [i \in 1..L |-> P[0 + i]]
      BY <2>4, <3>1 DEF Part
    <3>3. DOMAIN P = 1..L
      BY <3>2
    <3>4. \A i \in 1..L : 0 + i = i
      BY <1>2
    <3> QED BY <3>2, <3>3, <3>4
  <2>6. Slice(P, from, b) = Part(P, from, b)
    <3>1. b \in from..L
      BY <1>1, <1>2
    <3> QED BY <1>2, <2>5, <3>1, SliceOf
  <2> QED BY <2>2, <2>3, <2>6
<1>8. CASE family.qwen /\ HasImages(prompt)
  <2>1. "position_ids" \in DOMAIN K
    BY <1>5, <1>8 DEF HasPositions
  <2>2. PositionsUsed = Slice(MropeState(prompt).position_ids, from, b)
    BY <1>1, <1>5, <1>7, <1>8, <2>1 DEF PositionsUsed
  <2> QED BY <1>1, <1>2, <1>8, <2>2 DEF PositionsAreThePrompts
<1>9. CASE ~ (family.qwen /\ HasImages(prompt))
  <2>1. PositionsUsed = [i \in 1..n |-> V(i)]
    <3>1. CASE "position_ids" \in DOMAIN K
      <4>1. ~ HasImages(prompt)
        BY <1>5, <1>9, <3>1 DEF HasPositions
      <4> QED BY <1>1, <1>5, <1>6, <3>1, <4>1 DEF PositionsUsed
    <3>2. CASE "position_ids" \notin DOMAIN K
      BY <1>1, <1>2, <3>2, Zenon DEF PositionsUsed
    <3> QED BY <3>1, <3>2
  <2> QED BY <1>2, <1>9, <2>1, Zenon DEF PositionsAreThePrompts
<1> QED BY <1>8, <1>9

\* The deepstack embeddings of a call are those of its visual tokens.
LEMMA VisualsImplied ==
  ASSUME InputsInv, NEW from, NEW n, NEW cut, CallIs(from, n, cut)
  PROVE  VisualsGoWithTokens
<1>1. PICK b, K : b = from + n /\ K = lastCall.kwargs
  OBVIOUS
<1>2. /\ lastCall.from = from /\ lastCall.size = n /\ lastCall.embeds = Arange(from + 1, b + 1)
      /\ Prepared(K, cut, from, n)
      /\ IsCut(family, prompt, suffixStart, cut, from, b, b)
  BY <1>1, CallHas
<1>3. Named(family, prompt, suffixStart, cut) /\ VisualsCut(family, prompt, cut, from, b)
  BY <1>2 DEF IsCut
<1>4. family.deepstack # "no" /\ HasImages(prompt) =>
        K["deepstack_visual_embeds"] = Sorted(Embedded(family, prompt, from, b))
  BY <1>2, <1>3 DEF Prepared, Named, VisualsCut, HasVisuals
<1>5. Embedded(family, prompt, from, b) =
        {i \in CallTokens : family.deepstack = "aligned" \/ prompt.tokens[i] > 0}
  BY <1>1, <1>2 DEF Embedded, CallTokens
<1> QED BY <1>1, <1>2, <1>4, <1>5 DEF VisualsGoWithTokens

\* The mask of a call has its rows, over the keys there are.
LEMMA MaskImplied ==
  ASSUME InputsInv, NEW from, NEW n, NEW cut, CallIs(from, n, cut)
  PROVE  DenseMaskKeepsThePast
<1>1. PICK b, K : b = from + n /\ K = lastCall.kwargs
  OBVIOUS
<1>2. /\ from \in Nat /\ n \in Nat /\ lastCall.from = from /\ lastCall.size = n
      /\ Prepared(K, cut, from, n)
      /\ IsCut(family, prompt, suffixStart, cut, from, b, b)
  BY <1>1, CallHas
<1>3. Named(family, prompt, suffixStart, cut) /\ MaskCut(prompt, cut, from, b, b)
  BY <1>2 DEF IsCut
<1>4. /\ ("mask" \in DOMAIN K) <=> HasMask(family, prompt)
      /\ "mask" \in DOMAIN K => K["mask"] = Rows(prompt, from, b, b)
  BY <1>2, <1>3 DEF Prepared, Named, MaskCut
<1>5. Rows(prompt, from, b, b) = [i \in 1..n |-> [k \in 1..b |-> DenseMask(prompt)[from + i][k]]]
  <2>1. b - from = n
    BY <1>1, <1>2
  <2> QED BY <2>1, Zenon DEF Rows
<1>6. ("mask" \in DOMAIN K) = (family.dense = "attention" /\ HasImages(prompt))
  BY <1>4 DEF HasMask
<1> QED BY <1>1, <1>2, <1>4, <1>5, <1>6, Zenon DEF DenseMaskKeepsThePast

\* What is kept for each token is as long as what is left.
LEMMA InputsTypeImplied ==
  ASSUME InputsInv
  PROVE  InputsTypeOK
<1>1. PICK L, a : L = PromptLength /\ a = processedLen
  OBVIOUS
<1>2. IsPrompt(prompt) /\ suffixStart \in 0..(L - 1) /\ a \in suffixStart..L
  BY <1>1 DEF InputsInv
<1>3. L \in Nat /\ L = Len(prompt.tokens) /\ a \in Nat
  <2>1. L \in Nat /\ L = Len(prompt.tokens)
    BY <1>1, <1>2, FlagsAre DEF PromptLength
  <2> QED BY <1>2, <2>1
<1>4. ASSUME a < L
      PROVE  /\ Len(embeds) = L - a
             /\ \A name \in (ByToken \cup {"mask"}) \cap DOMAIN kwargs : Len(kwargs[name]) = L - a
  <2>1. embeds = Arange(a + 1, L + 1) /\ IsCut(family, prompt, suffixStart, kwargs, a, L, L)
    BY <1>1, <1>4 DEF InputsInv
  <2>8. a <= L
    BY <1>3, <1>4
  <2>2. Len(embeds) = L - a
    BY <1>3, <2>1, <2>8, ArangeLength, Zenon
  <2>3. /\ PositionsCut(prompt, kwargs, a, L) /\ FlagsCut(prompt, kwargs, a, L)
        /\ TypesCut(prompt, kwargs, a, L) /\ MaskCut(prompt, kwargs, a, L, L)
    BY <2>1 DEF IsCut
  <2>4. \A F : Len(Part(F, a, L)) = L - a
    BY <1>3, <2>8, PartLength, Zenon
  <2>5. Len(Rows(prompt, a, L, L)) = L - a
    <3>1. LongRows(prompt, a, L, L)
      BY <1>3, <2>8, RowsLength
    <3> QED BY <3>1 DEF LongRows
  <2>6. /\ "position_ids" \in DOMAIN kwargs => Len(kwargs["position_ids"]) = L - a
        /\ "visual_pos_masks" \in DOMAIN kwargs => Len(kwargs["visual_pos_masks"]) = L - a
        /\ "mm_token_type_ids" \in DOMAIN kwargs => Len(kwargs["mm_token_type_ids"]) = L - a
        /\ "mask" \in DOMAIN kwargs => Len(kwargs["mask"]) = L - a
    BY <2>3, <2>4, <2>5, Zenon DEF PositionsCut, FlagsCut, TypesCut, MaskCut
  <2>7. \A name \in ByToken \cup {"mask"} :
          name \in {"position_ids", "visual_pos_masks", "mm_token_type_ids", "mask"}
    BY DEF ByToken
  <2> QED BY <2>2, <2>6, <2>7
<1> QED BY <1>1, <1>2, <1>4 DEF InputsTypeOK

-----------------------------------------------------------------------------
(* Gemma's sliding mask.                                                   *)

\* The less and the greater of two.
LEMMA MinMax ==
  ASSUME NEW i \in Int, NEW j \in Int, i <= j
  PROVE  Min({i, j}) = i /\ Max({i, j}) = j /\ Min({j, i}) = i
<1>1. PICK S : S = {i, j}
  OBVIOUS
<1>2. \A x \in S : x \in Int
  BY <1>1
<1>3. Min(S) = i
  <2>1. i \in S /\ (\A y \in S : i <= y) /\ \A x \in S : (\A y \in S : x <= y) => x = i
    BY <1>1
  <2> QED BY <2>1 DEF Min
<1>4. Max(S) = j
  <2>1. j \in S /\ (\A y \in S : j >= y) /\ \A x \in S : (\A y \in S : x >= y) => x = j
    BY <1>1
  <2> QED BY <2>1 DEF Max
<1>5. {j, i} = S
  BY <1>1
<1> QED BY <1>1, <1>3, <1>4, <1>5

\* The keys up to the m-th that the q-th sees, and those of its image.
CausalKeys(q, m) == {k \in 1..m : k <= q /\ k > q - Window}
BlockKeys(types, q, m) == {k \in 1..m : InBlock(types, q, k) /\ k > q - Window}

\* What the last token of i sees of m keys.
SeenAt(args, i, n, m) ==
  IF "mm_token_type_ids" \in DOMAIN args
  THEN CausalKeys(m - n + i, m) \cup BlockKeys(VisibleTypes(args["mm_token_type_ids"], m), m - n + i, m)
  ELSE CausalKeys(m - n + i, m)

\* The sliding mask, token by token.
LEMMA SlidingMaskIs ==
  ASSUME NEW args, NEW from, NEW n \in Nat, NEW i \in 1..n
  PROVE  SlidingMask(args, from, n)[i] = SeenAt(args, i, n, KeyLength(from, n))
BY Zenon DEF SlidingMask, SeenAt, CausalKeys, BlockKeys

\* The first h of b keys are not in the i-th token's window.
Hidden(h, i, b) == \A j \in 1..b : j > i - Window => j > h

\* A call of n tokens gets the keys after the first h.
KeysAfter(h, from, n) ==
  /\ KeyLength(from, n) = from + n - h
  /\ from + n - KeyLength(from, n) = h
  /\ \A i \in (from + 1)..(from + n) : Hidden(h, i, from + n)

\* What a rotating cache has dropped by then no token of the call can see.
LEMMA KeysAre ==
  ASSUME InputsAssumption, NEW from \in Nat, NEW n \in Nat \ {0}
  PROVE  \E h \in 0..from : KeysAfter(h, from, n)
<1>1. PICK W, m : W = Window /\ m = Min({W - 1, from})
  OBVIOUS
<1>2. W \in Nat \ {0} /\ W - 1 \in Nat
  BY <1>1 DEF InputsAssumption
<1>3. m \in {W - 1, from} /\ m <= W - 1 /\ m <= from /\ m \in Nat
  <2>1. {W - 1, from} \subseteq Nat /\ {W - 1, from} # {}
    BY <1>2
  <2>2. m \in {W - 1, from} /\ \A y \in {W - 1, from} : m <= y
    BY <1>1, <2>1, MinIs
  <2> QED BY <1>2, <2>2
<1>4. PICK h : h = from - m
  OBVIOUS
<1>5. KeyLength(from, n) = m + n
  BY <1>1 DEF KeyLength
<1>6. h \in 0..from /\ m + n = from + n - h /\ from + n - (m + n) = h
  BY <1>3, <1>4
<1>7. ASSUME NEW i \in (from + 1)..(from + n), NEW j \in 1..(from + n), j > i - W
      PROVE  j > h
  BY <1>2, <1>3, <1>4, <1>7
<1> QED BY <1>1, <1>5, <1>6, <1>7 DEF Hidden, KeysAfter

\* Where a call has no part of an image, no token of it is an image's.
LEMMA NoImagePart ==
  ASSUME IsPrompt(prompt), NEW from \in Nat, NEW n \in Nat, suffixStart \in 0..from,
         from + n <= PromptLength, ~ HasImagePart(from, n)
  PROVE  \A i \in (from + 1)..(from + n) : prompt.tokens[i] = 0
<1>1. PICK c, L, F : c = suffixStart /\ L = PromptLength /\ F = ImageFlags(prompt)
  OBVIOUS
<1>2. /\ F \in Seq(BOOLEAN) /\ Len(F) = L /\ L \in Nat
      /\ \A i \in 1..L : F[i] = (prompt.tokens[i] > 0) /\ prompt.tokens[i] \in Nat
  <2>1. \A i \in 1..Len(prompt.tokens) : prompt.tokens[i] \in 0..Len(prompt.grids)
    BY FlagsAre
  <2>2. Len(prompt.grids) \in Nat
    BY FlagsAre
  <2>3. \A i \in 1..Len(prompt.tokens) : prompt.tokens[i] \in Nat
    BY <2>1, <2>2
  <2> QED BY <1>1, <2>3, FlagsAre DEF PromptLength
<1>3. c \in 0..from /\ from + n <= L /\ c \in Nat
  BY <1>1
<1>4. PICK G : G = Slice(F, c, L)
  OBVIOUS
<1>5. G = [i \in 1..(L - c) |-> F[c + i]]
  <2>1. DOMAIN F = 1..L /\ F = [i \in 1..L |-> F[i]]
    BY <1>2
  <2>2. L \in c..L
    BY <1>2, <1>3
  <2>3. Slice(F, c, L) = Part(F, c, L)
    BY <1>2, <1>3, <2>1, <2>2, SliceOf
  <2> QED BY <1>4, <2>3 DEF Part
<1>6. L - c \in Nat
  BY <1>2, <1>3
<1>7. G \in Seq(BOOLEAN) /\ Len(G) = L - c
  <2>1. \A i \in 1..(L - c) : F[c + i] \in BOOLEAN
    BY <1>2, <1>3
  <2>2. G \in [1..(L - c) -> BOOLEAN]
    BY <1>5, <2>1
  <2> QED BY <1>6, <2>2, SeqDef, LenProperties
<1>8. PICK r : r = Runs(G)
  OBVIOUS
<1>9. RunFacts(G, r)
  BY <1>7, <1>8, RunsAre
<1>10. PrefillRuns = r
  BY <1>1, <1>4, <1>8 DEF PrefillRuns
<1> SUFFICES ASSUME NEW i \in (from + 1)..(from + n), prompt.tokens[i] # 0 PROVE FALSE
  OBVIOUS
<1>11. i \in 1..L /\ i - c \in 1..(L - c) /\ c + (i - c) = i
  BY <1>2, <1>3
<1>12. G[i - c]
  <2>1. G[i - c] = F[i]
    BY <1>5, <1>11
  <2>2. F[i]
    BY <1>2, <1>11
  <2> QED BY <2>1, <2>2
<1>13. PICK k \in DOMAIN r : r[k].start < i - c /\ i - c <= r[k].end /\ r[k].start \in Int /\ r[k].end \in Int
  <2>1. PICK x : x = i - c
    OBVIOUS
  <2>2. x \in 1..Len(G) /\ G[x]
    BY <1>7, <1>11, <1>12, <2>1
  <2>3. /\ r \in Seq([start : Nat, end : Nat])
        /\ \E k \in 1..Len(r) : r[k].start < x /\ x <= r[k].end
    BY <1>9, <2>2, Zenon DEF RunFacts
  <2>4. DOMAIN r = 1..Len(r) /\ \A k \in 1..Len(r) : r[k] \in [start : Nat, end : Nat]
    <3>1. PICK T : T = [start : Nat, end : Nat]
      OBVIOUS
    <3>2. r \in Seq(T)
      BY <2>3, <3>1
    <3>3. DOMAIN r = 1..Len(r) /\ \A k \in 1..Len(r) : r[k] \in T
      BY <3>2
    <3> QED BY <3>1, <3>3
  <2>5. \A k \in 1..Len(r) : r[k].start \in Int /\ r[k].end \in Int
    <3> TAKE k \in 1..Len(r)
    <3>1. r[k] \in [start : Nat, end : Nat]
      BY <2>4
    <3> QED BY <3>1
  <2> QED BY <2>1, <2>3, <2>4, <2>5
<1>14. r[k].start < from + n - c /\ from - c < r[k].end
  BY <1>2, <1>3, <1>11, <1>13
<1>15. HasImagePart(from, n)
  BY <1>1, <1>10, <1>14 DEF HasImagePart
<1> QED BY <1>15

Padded(s, T, from, b) ==
  /\ DOMAIN s = 1..b /\ s = [l \in 1..b |-> s[l]]
  /\ \A l \in 1..from : s[l] = 0
  /\ \A l \in (from + 1)..b : s[l] = T[l]

\* The types with zeros for what is cached.
LEMMA PadIs ==
  ASSUME NEW T, NEW from \in Nat, NEW n \in Nat, NEW q, q = Part(T, from, from + n)
  PROVE  Padded(PadTypes(q, from + n), T, from, from + n)
<1>1. PICK b, z : b = from + n /\ z = [i \in 1..from |-> 0]
  OBVIOUS
<1>2. b \in Nat /\ b - from = n /\ from <= b
  BY <1>1
<1>3. Len(q) = n /\ q = [i \in 1..n |-> T[from + i]]
  <2>1. Len(Part(T, from, b)) = b - from
    BY <1>2, PartLength
  <2>2. Part(T, from, b) = [i \in 1..n |-> T[from + i]]
    BY <1>2 DEF Part
  <2> QED BY <1>1, <1>2, <2>1, <2>2
<1>4. PICK S : S = {q[i] : i \in 1..n} \cup {0}
  OBVIOUS
<1>5. q \in Seq(S)
  <2>1. q \in [1..n -> S]
    BY <1>3, <1>4
  <2> QED BY <2>1, SeqDef
<1>6. z \in Seq(S) /\ Len(z) = from
  <2>1. z \in [1..from -> S]
    BY <1>1, <1>4
  <2> QED BY <2>1, SeqDef, LenProperties
<1>7. PICK s : s = z \o q
  OBVIOUS
<1>8. PadTypes(q, b) = s
  <2>1. b - Len(q) = from
    BY <1>2, <1>3
  <2> QED BY <1>1, <1>7, <2>1 DEF PadTypes
<1>9. s = [l \in 1..b |-> IF l <= from THEN z[l] ELSE q[l - from]]
  <2>1. z \o q = [l \in 1..(Len(z) + Len(q)) |-> IF l <= Len(z) THEN z[l] ELSE q[l - Len(z)]]
    BY <1>5, <1>6
  <2> QED BY <1>1, <1>3, <1>6, <1>7, <2>1
<1>10. DOMAIN s = 1..b /\ s = [l \in 1..b |-> s[l]]
  BY <1>9
<1>11. \A l \in 1..from : s[l] = 0
  <2> TAKE l \in 1..from
  <2>1. l \in 1..b /\ l <= from
    BY <1>2
  <2>2. s[l] = z[l] /\ z[l] = 0
    BY <1>1, <1>9, <2>1
  <2> QED BY <2>2
<1>12. \A l \in (from + 1)..b : s[l] = T[l]
  <2> TAKE l \in (from + 1)..b
  <2>1. l \in 1..b /\ ~ (l <= from) /\ l - from \in 1..n /\ from + (l - from) = l
    BY <1>2
  <2>2. s[l] = q[l - from]
    BY <1>9, <2>1
  <2>3. q[l - from] = T[from + (l - from)]
    BY <1>3, <2>1
  <2> QED BY <2>1, <2>2, <2>3
<1> QED BY <1>1, <1>8, <1>10, <1>11, <1>12 DEF Padded

\* V tells of the keys after the first h which are of the call's images.
TellsImages(V, p, h, from, m) ==
  \A k \in 1..m : V[k] = IF from < h + k /\ p.tokens[h + k] > 0 THEN 1 ELSE 0

\* The visible types are those of the visible keys.
LEMMA VisibleAre ==
  ASSUME NEW p, IsPrompt(p), NEW from \in Nat, NEW n \in Nat \ {0}, from + n <= Len(p.tokens),
         NEW h \in 0..from, NEW m, m = from + n - h,
         NEW s, s = PadTypes(Part(TypesOf(p), from, from + n), from + n)
  PROVE  TellsImages(VisibleTypes(s, m), p, h, from, m)
<1>1. PICK b, L, T : b = from + n /\ L = Len(p.tokens) /\ T = TypesOf(p)
  OBVIOUS
<1>2. b \in Nat /\ L \in Nat /\ b <= L /\ m \in Nat /\ h + m = b /\ h <= b
  <2>1. L \in Nat
    BY <1>1, FlagsAre
  <2> QED BY <1>1, <2>1
<1>3. /\ DOMAIN s = 1..b /\ s = [l \in 1..b |-> s[l]]
      /\ \A l \in 1..from : s[l] = 0
      /\ \A l \in (from + 1)..b : s[l] = T[l]
  <2>1. Padded(s, T, from, b)
    <3>1. PICK q : q = Part(T, from, from + n)
      OBVIOUS
    <3>2. Padded(PadTypes(q, from + n), T, from, from + n)
      BY <3>1, PadIs
    <3>3. s = PadTypes(q, from + n)
      BY <1>1, <3>1
    <3> QED BY <1>1, <3>2, <3>3
  <2> QED BY <2>1 DEF Padded
<1>4. \A l \in 1..L : T[l] = IF p.tokens[l] > 0 THEN 1 ELSE 0
  BY <1>1 DEF TypesOf
<1>5. Len(s) = b
  <2>1. PICK S : S = {s[l] : l \in 1..b}
    OBVIOUS
  <2>2. s \in [1..b -> S]
    BY <1>3, <2>1
  <2> QED BY <1>2, <2>2, SeqDef, LenProperties
<1>6. VisibleTypes(s, m) = Part(s, h, b)
  <2>1. Slice(s, h, b) = Part(s, h, b)
    <3>1. b \in Nat /\ h \in Nat /\ b \in h..b
      BY <1>2
    <3>2. DOMAIN s = 1..b /\ s = [l \in 1..b |-> s[l]]
      BY <1>3
    <3> QED BY <3>1, <3>2, SliceOf
  <2>2. Slice(s, h, b) = SubSeq(s, h + 1, b)
    <3>1. Min({b, b}) = b
      BY <1>2, MinMax
    <3> QED BY <1>5, <3>1 DEF Slice
  <2>3. VisibleTypes(s, m) = SubSeq(s, h + 1, b)
    <3>1. b - m + 1 = h + 1
      BY <1>2
    <3> QED BY <1>5, <3>1 DEF VisibleTypes
  <2> QED BY <2>1, <2>2, <2>3
<1>7. b - h = m
  BY <1>2
<1>8. \A k \in 1..m : Part(s, h, b)[k] = s[h + k]
  BY <1>7 DEF Part
<1>9. ASSUME NEW k \in 1..m
      PROVE  s[h + k] = IF from < h + k /\ p.tokens[h + k] > 0 THEN 1 ELSE 0
  <2>1. PICK l : l = h + k
    OBVIOUS
  <2>2. l \in 1..b /\ l \in 1..L
    BY <1>2, <2>1
  <2>3. CASE l <= from
    <3>1. l \in 1..from /\ ~ (from < l)
      BY <2>2, <2>3
    <3>2. s[l] = 0
      BY <1>3, <3>1
    <3> QED BY <2>1, <3>1, <3>2
  <2>4. CASE ~ (l <= from)
    <3>1. l \in (from + 1)..b /\ from < l
      BY <2>2, <2>4
    <3>2. s[l] = IF p.tokens[l] > 0 THEN 1 ELSE 0
      BY <1>3, <1>4, <2>2, <3>1
    <3> QED BY <2>1, <3>1, <3>2
  <2> QED BY <2>3, <2>4
<1> QED BY <1>6, <1>8, <1>9 DEF TellsImages

-----------------------------------------------------------------------------
\* All between the i-th and the j-th are tokens of images.
OfImage(p, i, j) == \A k \in Min({i, j})..Max({i, j}) : p.tokens[k] > 0

\* A later key is in a token's block just if all from one to the other is
\* of images.
LEMMA BlockIs ==
  ASSUME NEW p, NEW V, NEW h \in Nat, NEW from \in Nat, NEW m \in Nat, TellsImages(V, p, h, from, m),
         NEW q \in 1..m, NEW k \in 1..m, q < k, from < h + q
  PROVE  InBlock(V, q, k) <=> OfImage(p, h + q, h + k)
<1>1. PICK i, j : i = h + q /\ j = h + k
  OBVIOUS
<1>2. i \in Nat /\ j \in Nat /\ i <= j /\ q <= k /\ from < i
  BY <1>1
<1>3. InBlock(V, q, k) <=> \A l \in q..k : V[l] = 1
  <2>1. Min({q, k}) = q /\ Max({q, k}) = k
    BY <1>2, MinMax
  <2> QED BY <2>1 DEF InBlock
<1>4. OfImage(p, i, j) <=> \A l \in i..j : p.tokens[l] > 0
  <2>1. Min({i, j}) = i /\ Max({i, j}) = j
    BY <1>2, MinMax
  <2> QED BY <2>1 DEF OfImage
<1>5. \A l \in q..k : V[l] = IF p.tokens[h + l] > 0 THEN 1 ELSE 0
  <2> TAKE l \in q..k
  <2>1. l \in 1..m /\ from < h + l
    BY <1>2
  <2>2. V[l] = IF from < h + l /\ p.tokens[h + l] > 0 THEN 1 ELSE 0
    BY <2>1 DEF TellsImages
  <2> QED BY <2>1, <2>2
<1>6. (\A l \in q..k : V[l] = 1) <=> \A l \in q..k : p.tokens[h + l] > 0
  BY <1>5
<1>7. (\A l \in q..k : p.tokens[h + l] > 0) <=> \A l \in i..j : p.tokens[l] > 0
  <2>1. \A l \in q..k : h + l \in i..j
    BY <1>1
  <2>2. \A l \in i..j : l - h \in q..k /\ h + (l - h) = l
    BY <1>1
  <2>3. ASSUME \A l \in q..k : p.tokens[h + l] > 0, NEW l \in i..j PROVE p.tokens[l] > 0
    <3>1. p.tokens[h + (l - h)] > 0
      BY <2>2, <2>3
    <3> QED BY <2>2, <3>1
  <2> QED BY <2>1, <2>3
<1> QED BY <1>1, <1>3, <1>4, <1>6, <1>7

\* What is seen of b keys by the i-th token.
Sees(p, i, b) == {j \in 1..b : (j <= i \/ OfImage(p, i, j)) /\ j > i - Window}

\* S are those of the m keys after the first h that the i-th token sees.
AmongKeys(S, p, h, i, m) ==
  /\ S \subseteq 1..m
  /\ \A k \in 1..m : k \in S <=> (k <= i - h \/ OfImage(p, i, h + k)) /\ k > (i - h) - Window

AllSeen(S, p, h, i, b) == {h + k : k \in S} = Sees(p, i, b)

\* Keys counted among the visible, or in the prompt, are the same.
LEMMA SeenIs ==
  ASSUME NEW p, NEW h \in Nat, NEW b \in Nat, NEW m \in Nat, h + m = b,
         NEW i \in (h + 1)..b, Window \in Nat \ {0}, Hidden(h, i, b),
         NEW S, AmongKeys(S, p, h, i, m)
  PROVE  AllSeen(S, p, h, i, b)
<1>1. ASSUME NEW k \in S PROVE h + k \in Sees(p, i, b)
  <2>1. PICK j : j = h + k
    OBVIOUS
  <2>2. k \in 1..m /\ (k <= i - h \/ OfImage(p, i, j)) /\ k > (i - h) - Window
    BY <1>1, <2>1 DEF AmongKeys
  <2>3. j \in 1..b /\ j > i - Window /\ (k <= i - h => j <= i)
    BY <2>1, <2>2
  <2> QED BY <2>1, <2>2, <2>3 DEF Sees
<1>2. ASSUME NEW j \in Sees(p, i, b) PROVE \E k \in S : j = h + k
  <2>1. j \in 1..b /\ (j <= i \/ OfImage(p, i, j)) /\ j > i - Window
    BY <1>2 DEF Sees
  <2>2. j > h
    BY <2>1 DEF Hidden
  <2>3. PICK k : k = j - h
    OBVIOUS
  <2>4. k \in 1..m /\ h + k = j /\ (j <= i => k <= i - h) /\ k > (i - h) - Window
    BY <2>1, <2>2, <2>3
  <2>5. k \in S
    BY <2>1, <2>4 DEF AmongKeys
  <2> QED BY <2>4, <2>5
<1> QED BY <1>1, <1>2 DEF AllSeen

\* The keys an image's tokens see, with its types and without.
LEMMA SeenWithTypes ==
  ASSUME NEW p, NEW V, NEW h \in Nat, NEW from \in Nat, h <= from, NEW m \in Nat, NEW b \in Nat, h + m = b,
         Window \in Nat \ {0}, TellsImages(V, p, h, from, m), NEW i \in (from + 1)..b,
         NEW q, q = i - h
  PROVE  AmongKeys(CausalKeys(q, m) \cup BlockKeys(V, q, m), p, h, i, m)
<1>1. q \in 1..m /\ from < h + q /\ h + q = i
  OBVIOUS
<1>2. PICK S : S = CausalKeys(q, m) \cup BlockKeys(V, q, m)
  OBVIOUS
<1>3. \A k : k \in S <=> k \in 1..m /\ (k <= q \/ InBlock(V, q, k)) /\ k > q - Window
  BY <1>2 DEF CausalKeys, BlockKeys
<1>4. ASSUME NEW k \in 1..m, ~ (k <= q) PROVE InBlock(V, q, k) <=> OfImage(p, i, h + k)
  <2>1. q < k
    BY <1>1, <1>4
  <2>2. InBlock(V, q, k) <=> OfImage(p, h + q, h + k)
    BY <1>1, <2>1, BlockIs
  <2> QED BY <1>1, <2>2
<1>5. AmongKeys(S, p, h, i, m)
  <2>1. S \subseteq 1..m
    BY <1>3
  <2>2. \A k \in 1..m : k \in S <=> (k <= q \/ OfImage(p, i, h + k)) /\ k > q - Window
    BY <1>3, <1>4
  <2> QED BY <2>1, <2>2 DEF AmongKeys
<1> QED BY <1>2, <1>5

\* A token of text sees what is before it, and needs no types.
LEMMA SeenWithout ==
  ASSUME NEW p, NEW h \in Nat, NEW from \in Nat, h <= from, NEW m \in Nat, NEW b \in Nat, h + m = b,
         Window \in Nat \ {0}, NEW i \in (from + 1)..b, p.tokens[i] = 0,
         NEW q, q = i - h
  PROVE  AmongKeys(CausalKeys(q, m), p, h, i, m)
<1>1. q \in 1..m /\ h + q = i
  OBVIOUS
<1>2. PICK S : S = CausalKeys(q, m)
  OBVIOUS
<1>3. \A k : k \in S <=> k \in 1..m /\ k <= q /\ k > q - Window
  BY <1>2 DEF CausalKeys
<1>4. ASSUME NEW k \in 1..m, ~ (k <= q) PROVE ~ OfImage(p, i, h + k)
  <2>1. PICK j : j = h + k
    OBVIOUS
  <2>2. i \in Int /\ j \in Int /\ i <= j
    BY <1>1, <1>4, <2>1
  <2>3. Min({i, j}) = i /\ Max({i, j}) = j
    BY <2>2, MinMax
  <2>4. i \in i..j /\ ~ (p.tokens[i] > 0)
    BY <2>2
  <2> QED BY <2>1, <2>3, <2>4 DEF OfImage
<1>5. AmongKeys(S, p, h, i, m)
  <2>1. S \subseteq 1..m
    BY <1>3
  <2>2. \A k \in 1..m : k \in S <=> (k <= q \/ OfImage(p, i, h + k)) /\ k > q - Window
    BY <1>3, <1>4
  <2> QED BY <1>1, <2>1, <2>2 DEF AmongKeys
<1> QED BY <1>2, <1>5

\* What the i-th token sees in the call.
CallSees(i) ==
  LET hidden == lastCall.from + lastCall.size - KeyLength(lastCall.from, lastCall.size)
  IN  {hidden + k : k \in SlidingMask(lastCall.kwargs, lastCall.from, lastCall.size)[i - lastCall.from]}
        = Sees(prompt, i, lastCall.from + lastCall.size)

\* ImagesSeeThemselves is that of each token.
LEMMA ImagesRead ==
  ASSUME \A i \in CallTokens : CallSees(i)
  PROVE  ImagesSeeThemselves
BY Zenon DEF ImagesSeeThemselves, CallSees, Sees, OfImage

\* Gemma's images see all of themselves, in every call.
LEMMA ImagesImplied ==
  ASSUME InputsAssumption, InputsInv, NEW from, NEW n, NEW cut, CallIs(from, n, cut)
  PROVE  ImagesSeeThemselves
<1> SUFFICES ASSUME family.types PROVE ImagesSeeThemselves
  BY DEF ImagesSeeThemselves
<1>1. PICK b, K, L, p : b = from + n /\ K = lastCall.kwargs /\ L = PromptLength /\ p = prompt
  OBVIOUS
<1>2. /\ from \in Nat /\ n \in Nat \ {0} /\ b <= L /\ L \in Nat /\ L = Len(p.tokens) /\ b \in Nat
      /\ suffixStart \in 0..from
      /\ lastCall.from = from /\ lastCall.size = n /\ Prepared(K, cut, from, n)
      /\ IsCut(family, prompt, suffixStart, cut, from, b, b)
  BY <1>1, CallHas
<1>3. IsPrompt(p)
  BY <1>1 DEF InputsInv
<1>4. Named(family, prompt, suffixStart, cut) /\ TypesCut(prompt, cut, from, b)
  BY <1>2 DEF IsCut
<1>5. Window \in Nat \ {0}
  BY DEF InputsAssumption
<1>6. PICK h \in 0..from : KeysAfter(h, from, n)
  BY <1>2, KeysAre
<1>7. PICK m : m = KeyLength(from, n)
  OBVIOUS
<1>8. h \in Nat /\ h <= from /\ m \in Nat /\ h + m = b /\ m = b - h /\ m = from + n - h /\ b - m = h
  <2>1. m = from + n - h /\ from + n - m = h /\ h \in 0..from
    BY <1>6, <1>7 DEF KeysAfter
  <2>2. from \in Nat /\ n \in Nat /\ b = from + n
    BY <1>1, <1>2
  <2> QED BY <2>1, <2>2
<1>11. \A i \in (from + 1)..b : Hidden(h, i, b)
  BY <1>1, <1>6, Zenon DEF KeysAfter
<1>9. ASSUME NEW i \in (from + 1)..b PROVE AmongKeys(SeenAt(K, i - from, n, m), p, h, i, m)
  <2>1. PICK q : q = i - h
    OBVIOUS
  <2>2. m - n + (i - from) = q
    <3>1. from \in Int /\ n \in Int /\ h \in Int /\ i \in Int /\ m = from + n - h
      BY <1>2, <1>8
    <3> QED BY <2>1, <3>1
  <2>3. CASE "mm_token_type_ids" \in DOMAIN K
    <3>1. PICK s : s = K["mm_token_type_ids"]
      OBVIOUS
    <3>2. "mm_token_type_ids" \in DOMAIN cut /\ s = PadTypes(cut["mm_token_type_ids"], from + n)
      BY <1>2, <2>3, <3>1 DEF Prepared
    <3>3. s = PadTypes(Part(TypesOf(p), from, from + n), from + n)
      BY <1>1, <1>4, <3>2 DEF TypesCut
    <3>4. from + n <= Len(p.tokens)
      BY <1>1, <1>2
    <3>5. TellsImages(VisibleTypes(s, m), p, h, from, m)
      BY <1>2, <1>3, <1>8, <3>3, <3>4, VisibleAre
    <3>6. AmongKeys(CausalKeys(q, m) \cup BlockKeys(VisibleTypes(s, m), q, m), p, h, i, m)
      <4>1. PICK V : V = VisibleTypes(s, m)
        OBVIOUS
      <4>2. TellsImages(V, p, h, from, m)
        BY <3>5, <4>1
      <4>3. AmongKeys(CausalKeys(q, m) \cup BlockKeys(V, q, m), p, h, i, m)
        BY <1>2, <1>5, <1>8, <2>1, <4>2, SeenWithTypes
      <4> QED BY <4>1, <4>3
    <3> QED BY <2>2, <2>3, <3>1, <3>6 DEF SeenAt
  <2>4. CASE "mm_token_type_ids" \notin DOMAIN K
    <3>1. p.tokens[i] = 0
      <4>1. CASE HasTypes(family, prompt)
        <5>1. ~ HasImagePart(from, n)
          BY <1>2, <1>4, <2>4, <4>1 DEF Prepared, Named
        <5>2. IsPrompt(prompt) /\ from + n <= PromptLength /\ n \in Nat
          BY <1>1, <1>2, <1>3
        <5>3. \A x \in (from + 1)..(from + n) : prompt.tokens[x] = 0
          BY <1>2, <5>1, <5>2, NoImagePart
        <5> QED BY <1>1, <5>3
      <4>2. CASE ~ HasTypes(family, prompt)
        <5>1. p.grids = <<>>
          BY <1>1, <4>2 DEF HasTypes, HasImages
        <5>2. Len(p.grids) = 0
          BY <5>1
        <5>3. i \in 1..L
          BY <1>2
        <5>4. p.tokens[i] \in 0..Len(p.grids)
          BY <1>2, <1>3, <5>3, FlagsAre
        <5> QED BY <5>2, <5>4
      <4> QED BY <4>1, <4>2
    <3>2. AmongKeys(CausalKeys(q, m), p, h, i, m)
      BY <1>2, <1>5, <1>8, <2>1, <3>1, SeenWithout
    <3> QED BY <2>2, <2>4, <3>2 DEF SeenAt
  <2> QED BY <2>3, <2>4
<1>10. ASSUME NEW i \in CallTokens PROVE CallSees(i)
  <2>1. i \in (from + 1)..b /\ i - from \in 1..n
    BY <1>1, <1>2, <1>10 DEF CallTokens
  <2>2. SlidingMask(K, from, n)[i - from] = SeenAt(K, i - from, n, m)
    <3>1. PICK x : x = i - from
      OBVIOUS
    <3>2. n \in Nat /\ x \in 1..n
      BY <1>2, <2>1, <3>1
    <3> QED BY <1>7, <3>1, <3>2, SlidingMaskIs
  <2>3. PICK S : S = SeenAt(K, i - from, n, m)
    OBVIOUS
  <2>4. AmongKeys(S, p, h, i, m)
    BY <1>9, <2>1, <2>3
  <2>5. i \in (h + 1)..b /\ Hidden(h, i, b)
    BY <1>2, <1>8, <1>11, <2>1
  <2>6. AllSeen(S, p, h, i, b)
    BY <1>2, <1>5, <1>8, <2>4, <2>5, SeenIs
  <2>7. {h + k : k \in S} = Sees(p, i, b)
    BY <2>6 DEF AllSeen
  <2>8. lastCall.from + lastCall.size = b /\ KeyLength(lastCall.from, lastCall.size) = m
    BY <1>1, <1>2, <1>7
  <2> QED BY <1>1, <1>2, <1>8, <2>2, <2>3, <2>7, <2>8 DEF CallSees
<1> QED BY <1>10, ImagesRead

-----------------------------------------------------------------------------
(* Every step keeps the invariant.                                         *)

\* It holds when a prompt is prepared.
LEMMA InputsStart ==
  ASSUME InputsAssumption, InputsInit
  PROVE  InputsInv
<1>1. PICK f \in Families, p \in Prompts :
        \E cachedLen \in 0..(Len(p.tokens) - 1) :
          LET cached == IF RestoreSplits(f, p, cachedLen) THEN 0 ELSE cachedLen
          IN  /\ f.qwen => GridsFit(p)
              /\ family = f /\ prompt = p /\ suffixStart = cached
              /\ kwargs = Built(f, p, cached)
              /\ embeds = Arange(cached + 1, Len(p.tokens) + 1)
              /\ processedLen = cached
              /\ lastCall = NothingCalled
  BY Zenon DEF InputsInit
<1>2. IsFamily(f) /\ IsPrompt(p)
  BY DEF InputsAssumption, IsFamily, IsPrompt
<1>3. PICK L \in Nat \ {0} : L = Len(p.tokens)
  BY <1>2, FlagsAre
<1>4. PICK c \in 0..(L - 1) :
        /\ f.qwen => GridsFit(p)
        /\ family = f /\ prompt = p /\ suffixStart = c
        /\ kwargs = Built(f, p, c)
        /\ embeds = Arange(c + 1, L + 1)
        /\ processedLen = c
        /\ lastCall = NothingCalled
  <2>1. PICK cachedLen \in 0..(L - 1) :
          LET cached == IF RestoreSplits(f, p, cachedLen) THEN 0 ELSE cachedLen
          IN  /\ f.qwen => GridsFit(p)
              /\ family = f /\ prompt = p /\ suffixStart = cached
              /\ kwargs = Built(f, p, cached)
              /\ embeds = Arange(cached + 1, L + 1)
              /\ processedLen = cached
              /\ lastCall = NothingCalled
    BY <1>1, <1>3, Zenon
  <2>2. PICK c : c = IF RestoreSplits(f, p, cachedLen) THEN 0 ELSE cachedLen
    OBVIOUS
  <2>3. c \in 0..(L - 1)
    BY <1>3, <2>2
  <2> QED BY <2>1, <2>2, <2>3, Zenon
<1>5. IsCut(f, p, c, Built(f, p, c), c, L, L)
  BY <1>2, <1>3, <1>4, BuiltIsCut
<1>6. PromptLength = L /\ c \in c..L /\ c < L
  BY <1>3, <1>4 DEF PromptLength
<1> QED BY <1>2, <1>4, <1>5, <1>6 DEF InputsInv

\* A call takes the first n of what is left.
LEMMA CallMade ==
  ASSUME InputsInv, processedLen < PromptLength, NEW n \in 1..(PromptLength - processedLen),
         lastCall' = Arguments(n), UNCHANGED <<family, prompt, suffixStart>>, NEW from, from = processedLen
  PROVE  \E cut : CallIs(from, n, cut)'
<1>1. PICK a, L, b, p, c : /\ a = processedLen /\ L = PromptLength /\ b = a + n /\ p = prompt
                           /\ c = suffixStart
  OBVIOUS
<1>2. /\ IsPrompt(p) /\ c \in 0..(L - 1) /\ a \in c..L /\ a < L
      /\ embeds = Arange(a + 1, L + 1)
      /\ IsCut(family, p, c, kwargs, a, L, L)
  BY <1>1 DEF InputsInv
<1>3. L \in Nat /\ L = Len(p.tokens)
  BY <1>1, <1>2, FlagsAre DEF PromptLength
<1>4. a \in Nat /\ a <= L /\ n \in 1..(L - a) /\ a \in c..(L - 1) /\ b \in 0..L
  BY <1>1, <1>2, <1>3
<1>5. PICK K : K = SliceKwargs(family, kwargs, 0, n, b)
  OBVIOUS
<1>6. IsCut(family, p, c, K, a, b, b)
  <2>1. PICK z : z = 0
    OBVIOUS
  <2>2. z \in Nat /\ n \in z..(L - a) /\ a + z = a
    BY <1>4, <2>1
  <2>3. IsCut(family, p, c, SliceKwargs(family, kwargs, z, n, b), a + z, a + n, b)
    BY <1>2, <1>3, <1>4, <2>2, SliceIsCut
  <2> QED BY <1>1, <1>5, <2>1, <2>2, <2>3
<1>7. Slice(embeds, 0, n) = Arange(a + 1, b + 1)
  <2>1. PICK z : z = 0
    OBVIOUS
  <2>2. z \in Nat /\ n \in z..(L - a) /\ a + z + 1 = a + 1
    BY <1>4, <2>1
  <2>3. Slice(Arange(a + 1, L + 1), z, n) = Arange(a + z + 1, a + n + 1)
    BY <1>3, <1>4, <2>2, SliceArange
  <2> QED BY <1>1, <1>2, <2>1, <2>2, <2>3
<1>8. lastCall' = [from |-> a, size |-> n, embeds |-> Arange(a + 1, a + n + 1),
                   kwargs |-> PrepareGemma(family, K, a, n)]
  BY <1>1, <1>5, <1>7 DEF Arguments
<1>9. PrepareGemma(family, K, a, n)' = PrepareGemma(family, K, a, n) /\ PromptLength' = PromptLength
  BY DEF PrepareGemma, HasImagePart, PrefillRuns, PromptLength
<1>10. from = a
  BY <1>1
<1>11. CallIs(from, n, K)'
  BY <1>1, <1>4, <1>6, <1>8, <1>9, <1>10 DEF CallIs
<1> QED BY <1>11

\* A step of the prefill leaves the arguments of what is left.
LEMMA CutStepKeeps ==
  ASSUME InputsInv, NEW n \in 1..(Len(embeds) - 1), CutStep(n)
  PROVE  InputsInv'
<1>1. PICK a, L, p, c : a = processedLen /\ L = PromptLength /\ p = prompt /\ c = suffixStart
  OBVIOUS
<1>2. /\ IsFamily(family) /\ IsPrompt(p) /\ (family.qwen => GridsFit(p))
      /\ c \in 0..(L - 1) /\ a \in c..L
      /\ a = L => embeds = <<>>
      /\ a < L => embeds = Arange(a + 1, L + 1) /\ IsCut(family, p, c, kwargs, a, L, L)
  BY <1>1 DEF InputsInv
<1>3. L \in Nat /\ L = Len(p.tokens) /\ a \in Nat
  <2>1. L \in Nat /\ L = Len(p.tokens)
    BY <1>1, <1>2, FlagsAre DEF PromptLength
  <2> QED BY <1>2, <2>1
<1>4. /\ lastCall' = Arguments(n) /\ embeds' = Slice(embeds, n, Len(embeds))
      /\ kwargs' = DropPrefix(family, kwargs, n) /\ processedLen' = a + n
      /\ UNCHANGED <<family, prompt, suffixStart>>
  BY <1>1 DEF CutStep
<1>5. a < L
  <2>1. a # L
    <3>1. SUFFICES ASSUME a = L PROVE FALSE
      OBVIOUS
    <3>2. embeds = <<>>
      BY <1>2, <3>1
    <3>3. Len(embeds) = 0
      BY <3>2
    <3> QED BY <3>3
  <2> QED BY <1>2, <1>3, <2>1
<1>6. embeds = Arange(a + 1, L + 1) /\ IsCut(family, p, c, kwargs, a, L, L)
  BY <1>2, <1>5
<1>7. Len(embeds) = L - a
  <2>1. a <= L
    BY <1>3, <1>5
  <2>2. Len(Arange(a + 1, L + 1)) = L - a
    BY <1>3, <2>1, ArangeLength, Zenon
  <2> QED BY <1>6, <2>2
<1>8. n \in 1..(L - a) /\ n < L - a /\ n \in Nat
  BY <1>3, <1>7
<1>9. PICK d : d = a + n
  OBVIOUS
<1>10. d \in c..L /\ d < L /\ d # L /\ a + (L - a) = L /\ L - a \in n..(L - a) /\ n \in 0..(L - a)
  BY <1>2, <1>3, <1>8, <1>9
<1>11. embeds' = Arange(d + 1, L + 1)
  <2>1. PICK m : m = L - a
    OBVIOUS
  <2>2. m \in n..(L - a) /\ a <= L
    BY <1>3, <1>5, <1>10, <2>1
  <2>3. Slice(Arange(a + 1, L + 1), n, m) = Arange(a + n + 1, a + m + 1)
    BY <1>3, <1>8, <2>2, SliceArange
  <2>4. embeds' = Slice(Arange(a + 1, L + 1), n, m)
    BY <1>4, <1>6, <1>7, <2>1
  <2> QED BY <1>9, <1>10, <2>1, <2>3, <2>4
<1>12. IsCut(family, p, c, DropPrefix(family, kwargs, n), d, L, L)
  <2>1. IsCut(family, prompt, c, DropPrefix(family, kwargs, n), a + n, Len(prompt.tokens), Len(prompt.tokens))
    <3>1. /\ IsPrompt(prompt) /\ a \in Nat /\ a < Len(prompt.tokens) /\ n \in 0..(Len(prompt.tokens) - a)
          /\ IsCut(family, prompt, c, kwargs, a, Len(prompt.tokens), Len(prompt.tokens))
      BY <1>1, <1>2, <1>3, <1>5, <1>6, <1>10
    <3> QED BY <3>1, DropIsCut
  <2> QED BY <1>1, <1>3, <1>9, <2>1
<1>13. \E cut : CallIs(a, n, cut)'
  BY <1>1, <1>4, <1>5, <1>8, CallMade
<1>14. PromptLength' = L /\ processedLen' = d /\ family' = family /\ prompt' = p /\ suffixStart' = c
  BY <1>1, <1>4, <1>9 DEF PromptLength
<1>15. IsCut(family, p, c, kwargs, d, L, L)'
  BY <1>4, <1>12
<1>16. lastCall' = NothingCalled \/ \E from, x, cut : CallIs(from, x, cut)'
  BY <1>13
<1> QED BY <1>2, <1>10, <1>11, <1>14, <1>15, <1>16 DEF InputsInv

\* The final call leaves nothing.
LEMMA CutRestKeeps ==
  ASSUME InputsInv, CutRest
  PROVE  InputsInv'
<1>1. PICK a, L, p, c : a = processedLen /\ L = PromptLength /\ p = prompt /\ c = suffixStart
  OBVIOUS
<1>2. /\ IsFamily(family) /\ IsPrompt(p) /\ (family.qwen => GridsFit(p))
      /\ c \in 0..(L - 1) /\ a \in c..L
      /\ a = L => embeds = <<>>
      /\ a < L => embeds = Arange(a + 1, L + 1)
  BY <1>1 DEF InputsInv
<1>3. L \in Nat /\ L = Len(p.tokens) /\ a \in Nat
  <2>1. L \in Nat /\ L = Len(p.tokens)
    BY <1>1, <1>2, FlagsAre DEF PromptLength
  <2> QED BY <1>2, <2>1
<1>4. /\ embeds # <<>> /\ lastCall' = Arguments(Len(embeds)) /\ embeds' = <<>>
      /\ processedLen' = L /\ UNCHANGED <<family, prompt, suffixStart>>
  BY <1>1 DEF CutRest
<1>5. a < L /\ a <= L
  BY <1>2, <1>3, <1>4
<1>6. PICK n : n = L - a
  OBVIOUS
<1>7. Len(embeds) = n
  <2>1. Len(Arange(a + 1, L + 1)) = L - a
    BY <1>3, <1>5, ArangeLength, Zenon
  <2> QED BY <1>2, <1>5, <1>6, <2>1
<1>8. n \in 1..(L - a)
  BY <1>3, <1>5, <1>6
<1>9. lastCall' = Arguments(n)
  BY <1>4, <1>7
<1>10. \E cut : CallIs(a, n, cut)'
  BY <1>1, <1>4, <1>5, <1>8, <1>9, CallMade
<1>11. PromptLength' = L /\ processedLen' = L /\ family' = family /\ prompt' = p /\ suffixStart' = c
  BY <1>1, <1>4 DEF PromptLength
<1>12. L \in c..L /\ ~ (L < L)
  BY <1>2, <1>3
<1>13. lastCall' = NothingCalled \/ \E from, x, cut : CallIs(from, x, cut)'
  BY <1>10
<1> QED BY <1>2, <1>4, <1>11, <1>12, <1>13 DEF InputsInv

\* And nothing else changes them.
LEMMA InputsStutter ==
  ASSUME InputsInv, UNCHANGED inputsVars
  PROVE  InputsInv'
<1>1. UNCHANGED <<family, prompt, suffixStart, kwargs, embeds, processedLen, lastCall>>
  BY DEF inputsVars
<1>2. PromptLength' = PromptLength
  BY <1>1 DEF PromptLength
<1>3. \A from, n, cut : CallIs(from, n, cut)' = CallIs(from, n, cut)
  BY <1>1, <1>2 DEF CallIs, PrepareGemma, HasImagePart, PrefillRuns
<1> QED BY <1>1, <1>2, <1>3 DEF InputsInv

\* In every behaviour, for every family of models and every list of
\* prompts, what is kept is the whole prompt's arguments for the tokens
\* that are left, and the last call got those of its own.
THEOREM InputsInvariant == InputsSpec => []InputsInv
<1>1. InputsInit => InputsInv
  BY InputsAssumption, InputsStart
<1>2. InputsInv /\ [InputsNext]_inputsVars => InputsInv'
  BY CutStepKeeps, CutRestKeeps, InputsStutter DEF InputsNext
<1> QED BY <1>1, <1>2, PTL DEF InputsSpec

\* The invariant says all that the run checks.
LEMMA InputsImply ==
  ASSUME InputsInv
  PROVE  ArgumentsRight
<1>1. IsPrompt(prompt) /\ (family.qwen => GridsFit(prompt))
  BY DEF InputsInv
<1>2. InputsTypeOK /\ SpansNameImages /\ WalkIsMrope
  BY <1>1, InputsTypeImplied, SpansName, MropeImplied
<1>3. CASE lastCall = NothingCalled
  <2>1. ~ IsCalled
    BY <1>3 DEF IsCalled
  <2> QED
    BY <1>2, <2>1 DEF ArgumentsRight, PositionsAreThePrompts, VisualsGoWithTokens, DenseMaskKeepsThePast,
                      ImagesSeeThemselves
<1>4. CASE lastCall # NothingCalled
  <2>1. PICK from, n, cut : CallIs(from, n, cut)
    BY <1>4 DEF InputsInv
  <2>2. PositionsAreThePrompts /\ VisualsGoWithTokens /\ DenseMaskKeepsThePast
    BY <2>1, PositionsImplied, VisualsImplied, MaskImplied
  <2>3. ImagesSeeThemselves
    BY <2>1, InputsAssumption, ImagesImplied
  <2> QED BY <1>2, <2>2, <2>3 DEF ArgumentsRight
<1> QED BY <1>3, <1>4

\* Every call gets the whole prompt's arguments for its tokens, whatever
\* prefix was restored and however long the calls are: the positions of
\* Qwen's walk over runs and grids, the deepstack embeddings of the visual
\* tokens, the rows of a dense mask, and Gemma's types (prompt_inputs.py,
\* qwen_mrope.py, patches/gemma4.py).
THEOREM ArgumentsAreRight == InputsSpec => []ArgumentsRight
<1>1. InputsInv => ArgumentsRight
  BY InputsImply
<1> QED BY <1>1, InputsInvariant, PTL

==============================================================================
