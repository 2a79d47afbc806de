-------------------------- MODULE PromptCacheProofs ----------------------------
(***************************************************************************)
(* Machine-checked theorems about the prompt cache, for any prompts, keys  *)
(* and lengths.  BlobStore: its records and free extents tile the          *)
(* temporary file, and it implements the map from keys to blobs.           *)
(* PromptCacheCoordinator: records, order, blobs and budget agree in every *)
(* state that the saves, the restores and the closing leave; a restore     *)
(* gives the longest prefix any source serves, computed from the tokens    *)
(* and images of its request; a commit costs its prompt no prefix, but for *)
(* a longer part that it keeps.                                            *)
(***************************************************************************)
EXTENDS BlobStore, PromptCacheCoordinator, SequenceTheorems, FiniteSetTheorems,
        WellFoundedInduction, TLAPS

-----------------------------------------------------------------------------
(* Extents.                                                                *)

\* A byte of an extent lies between its ends.
LEMMA ExtentFacts ==
  ASSUME NEW e \in Extents
  PROVE  /\ e.offset \in Nat /\ e.length \in Nat \ {0}
         /\ Stop(e) \in Nat /\ Stop(e) = e.offset + e.length /\ e.offset < Stop(e)
         /\ \A b : b \in BytesOf(e) <=> b \in Nat /\ e.offset <= b /\ b < Stop(e)
<1>1. e.offset \in Nat /\ e.length \in Nat \ {0}
  BY DEF Extents
<1>2. Stop(e) \in Nat /\ Stop(e) = e.offset + e.length /\ e.offset < Stop(e)
  BY <1>1 DEF Stop
<1>3. ASSUME NEW b
      PROVE  b \in BytesOf(e) <=> b \in Nat /\ e.offset <= b /\ b < Stop(e)
  BY <1>1, <1>2 DEF BytesOf
<1> QED BY <1>1, <1>2, <1>3

\* An extent is made of an offset and a length.
LEMMA ExtentMade ==
  ASSUME NEW o \in Nat, NEW n \in Nat \ {0}
  PROVE  /\ Extent(o, n) \in Extents
         /\ Extent(o, n).offset = o /\ Extent(o, n).length = n /\ Stop(Extent(o, n)) = o + n
BY DEF Extent, Extents, Stop

\* Two extents without a common byte lie one after the other.
LEMMA OneAfterTheOther ==
  ASSUME NEW e \in Extents, NEW f \in Extents, BytesOf(e) \cap BytesOf(f) = {}
  PROVE  /\ e.offset <= f.offset => Stop(e) <= f.offset
         /\ e.offset # f.offset
<1>1. f.offset \in BytesOf(f) /\ e.offset \in BytesOf(e)
  BY ExtentFacts
<1>2. f.offset \notin BytesOf(e) /\ e.offset \notin BytesOf(f)
  BY <1>1
<1>3. /\ e.offset \in Nat /\ f.offset \in Nat /\ Stop(e) \in Nat /\ Stop(f) \in Nat
      /\ e.offset < Stop(e)
  BY ExtentFacts
<1>4. ~(e.offset <= f.offset /\ f.offset < Stop(e))
  BY <1>2, <1>3, ExtentFacts
<1> QED BY <1>3, <1>4

\* Of any natural numbers there is a least, which Least chooses.
LEMMA LeastNumber ==
  ASSUME NEW S, S \subseteq Nat, S # {}
  PROVE  Least(S) \in S /\ \A y \in S : Least(S) <= y
<1>1. PICK x \in S : \A y \in S : ~ (<<y, x>> \in OpToRel(<, Nat))
  BY NatLessThanWellFounded, WFMin
<1>2. \A y \in S : ~ (y < x)
  BY <1>1 DEF OpToRel
<1>3. \E z \in S : \A y \in S : z <= y
  BY <1>2
<1> QED BY <1>3 DEF Least

-----------------------------------------------------------------------------
(* Lists of extents.                                                       *)

\* Extents a and b of s, a < b, have a gap between them, but that neighbours
\* touch where G says.
Loose(s, G) ==
  \A a, b \in 1..Len(s) : a < b =>
    \/ Stop(s[a]) < s[b].offset
    \/ Stop(s[a]) = s[b].offset /\ b = a + 1 /\ a \in G

\* s is sorted and coalesced, and ends before "to".
Spaced(s, to) ==
  /\ \A a, b \in 1..Len(s) : a < b => Stop(s[a]) < s[b].offset
  /\ \A a \in 1..Len(s) : Stop(s[a]) < to

\* Byte b is in an extent of s.
Has(s, b) == \E i \in 1..Len(s) : b \in BytesOf(s[i])

\* A part of a list.
LEMMA Part ==
  ASSUME NEW T, NEW s \in Seq(T), NEW m \in Int, NEW n \in Int, 1 <= m, m <= n + 1, n <= Len(s)
  PROVE  /\ SubSeq(s, m, n) \in Seq(T) /\ Len(SubSeq(s, m, n)) = n - m + 1
         /\ \A k \in 1..(n - m + 1) : SubSeq(s, m, n)[k] = s[m + k - 1]
<1>1. \A k \in m..n : s[k] \in T
  <2>1. \A k \in m..n : k \in 1..Len(s)
    OBVIOUS
  <2> QED BY <2>1, ElementOfSeq
<1>2. (IF m <= n THEN n - m + 1 ELSE 0) = n - m + 1
  OBVIOUS
<1> QED BY <1>1, <1>2, SubSeqProperties

\* The beginning of a list.
LEMMA Beginning ==
  ASSUME NEW T, NEW s \in Seq(T), NEW a \in 0..Len(s)
  PROVE  /\ SubSeq(s, 1, a) \in Seq(T) /\ Len(SubSeq(s, 1, a)) = a
         /\ \A k \in 1..a : SubSeq(s, 1, a)[k] = s[k]
<1>1. \A k \in 1..a : s[k] \in T /\ 1 + k - 1 = k
  BY ElementOfSeq
<1>2. (IF 1 <= a THEN a - 1 + 1 ELSE 0) = a /\ a - 1 + 1 = a
  OBVIOUS
<1> QED BY <1>1, <1>2, SubSeqProperties

\* s with e in place of its elements from a + 1 to m - 1 ...
Splice(s, e, a, m) == SubSeq(s, 1, a) \o <<e>> \o SubSeq(s, m, Len(s))

\* ... is t, element by element.
SplicedIn(s, e, a, m, t) ==
  /\ Len(t) = a + 1 + (Len(s) - m + 1)
  /\ \A k \in 1..a : t[k] = s[k]
  /\ t[a + 1] = e
  /\ \A k \in (a + 2)..Len(t) : t[k] = s[k - (a + 2) + m]

\* An element in place of others.
LEMMA Spliced ==
  ASSUME NEW s \in Seq(Extents), NEW e \in Extents, NEW a \in 0..Len(s),
         NEW m \in (a + 1)..(Len(s) + 1),
         NEW t, t = Splice(s, e, a, m)
  PROVE  t \in Seq(Extents) /\ SplicedIn(s, e, a, m, t)
<1>1. PICK n \in Nat : n = Len(s)
  OBVIOUS
<1>2. a \in Int /\ m \in Int /\ a \in 0..n /\ m \in (a + 1)..(n + 1) /\ \A i \in 1..n : s[i] \in Extents
  BY <1>1, ElementOfSeq
<1>3. PICK p \in Seq(Extents) : p = SubSeq(s, 1, a) /\ Len(p) = a /\ \A k \in 1..a : p[k] = s[k]
  <2>1. /\ SubSeq(s, 1, a) \in Seq(Extents) /\ Len(SubSeq(s, 1, a)) = a
        /\ \A k \in 1..a : SubSeq(s, 1, a)[k] = s[k]
    BY Beginning
  <2> QED BY <2>1
<1>4. PICK q \in Seq(Extents) : /\ q = SubSeq(s, m, Len(s)) /\ Len(q) = n - m + 1
                          /\ \A k \in 1..(n - m + 1) : q[k] = s[m + k - 1]
  <2>1. m \in Int /\ n \in Int /\ 1 <= m /\ m <= n + 1 /\ n <= Len(s)
    BY <1>1, <1>2
  <2>2. /\ SubSeq(s, m, n) \in Seq(Extents) /\ Len(SubSeq(s, m, n)) = n - m + 1
        /\ \A k \in 1..(n - m + 1) : SubSeq(s, m, n)[k] = s[m + k - 1]
    BY <2>1, Part
  <2> QED BY <1>1, <2>2
<1>5. PICK x \in Seq(Extents) : x = <<e>> /\ Len(x) = 1 /\ x[1] = e
  <2>1. <<e>> \in Seq(Extents) /\ Len(<<e>>) = 1 /\ <<e>>[1] = e
    OBVIOUS
  <2> QED BY <2>1
<1>6. PICK y \in Seq(Extents) : /\ y = p \o x /\ Len(y) = a + 1
                          /\ \A k \in 1..(a + 1) : y[k] = IF k <= a THEN p[k] ELSE x[k - a]
  <2>1. /\ p \o x \in Seq(Extents) /\ Len(p \o x) = Len(p) + Len(x)
        /\ \A k \in 1..(Len(p) + Len(x)) : (p \o x)[k] = IF k <= Len(p) THEN p[k] ELSE x[k - Len(p)]
    BY ConcatProperties
  <2>2. Len(p) = a /\ Len(x) = 1
    BY <1>3, <1>5
  <2>3. /\ p \o x \in Seq(Extents) /\ Len(p \o x) = a + 1
        /\ \A k \in 1..(a + 1) : (p \o x)[k] = IF k <= a THEN p[k] ELSE x[k - a]
    BY <2>1, <2>2
  <2> QED BY <2>3
<1>7. /\ t \in Seq(Extents) /\ Len(t) = (a + 1) + (n - m + 1)
      /\ \A k \in 1..(a + 1 + (n - m + 1)) : t[k] = IF k <= a + 1 THEN y[k] ELSE q[k - (a + 1)]
  <2>1. t = y \o q
    BY <1>3, <1>4, <1>5, <1>6 DEF Splice
  <2>2. /\ y \o q \in Seq(Extents) /\ Len(y \o q) = Len(y) + Len(q)
        /\ \A k \in 1..(Len(y) + Len(q)) : (y \o q)[k] = IF k <= Len(y) THEN y[k] ELSE q[k - Len(y)]
    BY ConcatProperties
  <2> QED BY <1>4, <1>6, <2>1, <2>2
<1>8. ASSUME NEW k \in 1..a
      PROVE  t[k] = s[k]
  <2>1. /\ k \in 1..(a + 1 + (n - m + 1)) /\ k <= a + 1
        /\ k \in 1..(a + 1) /\ k <= a
    BY <1>1, <1>2
  <2>2. t[k] = y[k]
    BY <1>7, <2>1
  <2>3. y[k] = p[k]
    BY <1>6, <2>1
  <2>4. p[k] = s[k]
    BY <1>3
  <2> QED BY <2>2, <2>3, <2>4
<1>9. t[a + 1] = e
  <2>1. PICK j \in Nat : j = a + 1
    BY <1>2
  <2>2. /\ j \in 1..(a + 1 + (n - m + 1)) /\ j <= a + 1
        /\ j \in 1..(a + 1) /\ ~(j <= a) /\ j - a = 1
    BY <1>1, <1>2, <2>1
  <2>3. t[j] = y[j]
    BY <1>7, <2>2
  <2>4. y[j] = x[j - a]
    BY <1>6, <2>2
  <2> QED BY <1>5, <2>1, <2>2, <2>3, <2>4
<1>10. ASSUME NEW k \in (a + 2)..Len(t)
       PROVE  t[k] = s[k - (a + 2) + m]
  <2>a. a \in Nat /\ m \in Nat /\ n \in Nat
    BY <1>1, <1>2
  <2>b. Len(t) = (a + 1) + (n - m + 1)
    BY <1>7
  <2>c. k \in (a + 2)..((a + 1) + (n - m + 1))
    BY <2>b
  <2>1. /\ k \in 1..(a + 1 + (n - m + 1)) /\ ~(k <= a + 1) /\ k - (a + 1) \in 1..(n - m + 1)
        /\ m + (k - (a + 1)) - 1 = k - (a + 2) + m
    BY <2>a, <2>c
  <2>2. t[k] = q[k - (a + 1)]
    BY <1>7, <2>1
  <2>3. q[k - (a + 1)] = s[m + (k - (a + 1)) - 1]
    BY <1>4, <2>1
  <2> QED BY <2>1, <2>2, <2>3
<1> QED BY <1>1, <1>7, <1>8, <1>9, <1>10 DEF SplicedIn

\* A list without one of its elements.
LEMMA Removed ==
  ASSUME NEW T, NEW s \in Seq(T), NEW i \in 1..Len(s), NEW t, t = RemoveAt(s, i)
  PROVE  /\ t \in Seq(T) /\ Len(t) = Len(s) - 1
         /\ \A k \in 1..(Len(s) - 1) : t[k] = IF k < i THEN s[k] ELSE s[k + 1]
<1>1. PICK n \in Nat : n = Len(s)
  OBVIOUS
<1>2. i \in 1..n /\ \A k \in 1..n : s[k] \in T
  BY <1>1, ElementOfSeq
<1>3. PICK p \in Seq(T) : p = SubSeq(s, 1, i - 1) /\ Len(p) = i - 1 /\ \A k \in 1..(i - 1) : p[k] = s[k]
  <2>1. i - 1 \in 0..Len(s)
    BY <1>1, <1>2
  <2> QED BY <2>1, Beginning
<1>4. PICK q \in Seq(T) : /\ q = SubSeq(s, i + 1, n) /\ Len(q) = n - i
                          /\ \A k \in 1..(n - i) : q[k] = s[i + k]
  <2>1. i + 1 \in Int /\ n \in Int /\ 1 <= i + 1 /\ i + 1 <= n + 1 /\ n <= Len(s)
    BY <1>1, <1>2
  <2>2. /\ SubSeq(s, i + 1, n) \in Seq(T) /\ Len(SubSeq(s, i + 1, n)) = n - (i + 1) + 1
        /\ \A k \in 1..(n - (i + 1) + 1) : SubSeq(s, i + 1, n)[k] = s[(i + 1) + k - 1]
    BY <2>1, Part
  <2>3. n - (i + 1) + 1 = n - i /\ \A k \in 1..(n - i) : (i + 1) + k - 1 = i + k
    BY <1>1, <1>2
  <2>4. \A k \in 1..(n - i) : SubSeq(s, i + 1, n)[k] = s[i + k]
    BY <2>2, <2>3
  <2> QED BY <2>2, <2>3, <2>4
<1>5. /\ t \in Seq(T) /\ Len(t) = (i - 1) + (n - i)
      /\ \A k \in 1..((i - 1) + (n - i)) : t[k] = IF k <= i - 1 THEN p[k] ELSE q[k - (i - 1)]
  <2>1. t = p \o q
    BY <1>1, <1>3, <1>4 DEF RemoveAt
  <2>2. /\ p \o q \in Seq(T) /\ Len(p \o q) = Len(p) + Len(q)
        /\ \A k \in 1..(Len(p) + Len(q)) : (p \o q)[k] = IF k <= Len(p) THEN p[k] ELSE q[k - Len(p)]
    BY ConcatProperties
  <2>3. Len(p) = i - 1 /\ Len(q) = n - i
    BY <1>3, <1>4
  <2> QED BY <2>1, <2>2, <2>3
<1>6. (i - 1) + (n - i) = n - 1
  BY <1>1, <1>2
<1>7. ASSUME NEW k \in 1..(n - 1)
      PROVE  t[k] = IF k < i THEN s[k] ELSE s[k + 1]
  <2>1. CASE k < i
    <3>1. k <= i - 1 /\ k \in 1..(i - 1)
      BY <1>2, <2>1
    <3> QED BY <1>3, <1>5, <1>6, <2>1, <3>1
  <2>2. CASE ~(k < i)
    <3>1. ~(k <= i - 1) /\ k - (i - 1) \in 1..(n - i) /\ i + (k - (i - 1)) = k + 1
      BY <1>1, <1>2, <2>2
    <3> QED BY <1>4, <1>5, <1>6, <2>2, <3>1
  <2> QED BY <2>1, <2>2
<1> QED BY <1>1, <1>5, <1>6, <1>7

-----------------------------------------------------------------------------
(* _release: insert, merge, give the tail back.                            *)

\* The gaps of G but i, and where they are once i is gone, are in H.
Shifted(G, H, i) == \A g \in G : (g < i => g \in H) /\ (g > i => g - 1 \in H)

\* u has the bytes of s, and its gaps are those of H.
SameBytes(s, u, H) ==
  u \in Seq(Extents) /\ Loose(u, H) /\ \A b : Has(u, b) <=> Has(s, b)

\* Two that touch are merged: the bytes are the same, and the gaps that may be
\* empty are those of H.
LEMMA Merged ==
  ASSUME NEW G, NEW H, NEW s \in Seq(Extents), Loose(s, G), NEW i \in 1..(Len(s) - 1),
         Touching(s, i), Shifted(G, H, i), NEW u, u = MergeAt(s, i)
  PROVE  SameBytes(s, u, H)
<1>1. PICK n \in Nat : n = Len(s)
  OBVIOUS
<1>2. i \in 1..(n - 1) /\ \A k \in 1..n : s[k] \in Extents
  BY <1>1, ElementOfSeq
<1>3. Stop(s[i]) = s[i + 1].offset
  BY DEF Touching
<1>4. PICK e \in Extents : e = Extent(s[i].offset, s[i].length + s[i+1].length)
                           /\ e.offset = s[i].offset /\ Stop(e) = Stop(s[i + 1])
  <2>1. i \in 1..n /\ i + 1 \in 1..n
    BY <1>1, <1>2
  <2>2. PICK x \in Extents, y \in Extents : x = s[i] /\ y = s[i + 1]
    BY <1>2, <2>1
  <2>3. /\ x.offset \in Nat /\ x.length \in Nat \ {0} /\ y.length \in Nat \ {0}
        /\ Stop(x) = x.offset + x.length /\ Stop(y) = y.offset + y.length
        /\ Stop(x) = y.offset
    BY <1>3, <2>2, ExtentFacts
  <2>4. x.length + y.length \in Nat \ {0} /\ x.offset + (x.length + y.length) = Stop(y)
    BY <2>3
  <2>5. /\ Extent(x.offset, x.length + y.length) \in Extents
        /\ Extent(x.offset, x.length + y.length).offset = x.offset
        /\ Stop(Extent(x.offset, x.length + y.length)) = Stop(y)
    BY <2>3, <2>4, ExtentMade
  <2> QED BY <2>2, <2>5
<1>5. /\ u \in Seq(Extents) /\ Len(u) = n - 1
      /\ \A k \in 1..(i - 1) : u[k] = s[k]
      /\ u[i] = e
      /\ \A k \in (i + 1)..(n - 1) : u[k] = s[k + 1]
  <2>1. PICK c, m : c = i - 1 /\ m = i + 2
    OBVIOUS
  <2>2. c \in 0..Len(s) /\ m \in (c + 1)..(Len(s) + 1)
    BY <1>1, <1>2, <2>1
  <2>3. u = Splice(s, e, c, m)
    BY <1>4, <2>1 DEF MergeAt, Splice
  <2>4. u \in Seq(Extents) /\ SplicedIn(s, e, c, m, u)
    BY <2>2, <2>3, Spliced
  <2>5. /\ c + 1 + (n - m + 1) = n - 1 /\ c + 1 = i /\ c + 2 = i + 1 /\ c = i - 1
        /\ \A k \in (i + 1)..(n - 1) : k - (i + 1) + m = k + 1
    BY <1>1, <1>2, <2>1
  <2>6. /\ Len(u) = n - 1 /\ u[i] = e
        /\ \A k \in 1..c : u[k] = s[k]
        /\ \A k \in (c + 2)..(n - 1) : u[k] = s[k - (c + 2) + m]
    BY <1>1, <2>4, <2>5 DEF SplicedIn
  <2>7. ASSUME NEW k \in (i + 1)..(n - 1)
        PROVE  u[k] = s[k + 1]
    <3>1. k \in (c + 2)..(n - 1)
      BY <2>5
    <3>2. u[k] = s[k - (c + 2) + m]
      BY <2>6, <3>1
    <3>3. k - (c + 2) + m = k + 1
      BY <2>5
    <3> QED BY <3>2, <3>3
  <2> QED BY <2>4, <2>5, <2>6, <2>7
<1> DEFINE lo(k) == IF k <= i THEN k ELSE k + 1
           hi(k) == IF k < i THEN k ELSE k + 1
<1>6. ASSUME NEW k \in 1..(n - 1)
      PROVE  /\ lo(k) \in 1..n /\ hi(k) \in 1..n
             /\ u[k].offset = s[lo(k)].offset /\ Stop(u[k]) = Stop(s[hi(k)])
  <2>1. lo(k) \in 1..n /\ hi(k) \in 1..n
    BY <1>1, <1>2
  <2>2. CASE k < i
    <3>1. k \in 1..(i - 1) /\ lo(k) = k /\ hi(k) = k
      BY <1>2, <2>2
    <3> QED BY <1>5, <2>1, <3>1
  <2>3. CASE k = i
    <3>1. lo(k) = i /\ hi(k) = i + 1
      BY <1>2, <2>3
    <3> QED BY <1>4, <1>5, <2>1, <2>3, <3>1
  <2>4. CASE k > i
    <3>1. k \in (i + 1)..(n - 1) /\ lo(k) = k + 1 /\ hi(k) = k + 1
      BY <1>2, <2>4
    <3> QED BY <1>5, <2>1, <3>1
  <2> QED BY <1>2, <2>2, <2>3, <2>4
<1>7. Loose(u, H)
  <2> SUFFICES ASSUME NEW a \in 1..(n - 1), NEW b \in 1..(n - 1), a < b
               PROVE  \/ Stop(u[a]) < u[b].offset
                      \/ Stop(u[a]) = u[b].offset /\ b = a + 1 /\ a \in H
    BY <1>5 DEF Loose
  <2>1. /\ hi(a) \in 1..Len(s) /\ lo(b) \in 1..Len(s) /\ hi(a) < lo(b)
        /\ lo(b) = hi(a) + 1 => b = a + 1
        /\ hi(a) < i => a = hi(a)
        /\ ~(hi(a) < i) => hi(a) > i /\ hi(a) - 1 = a
    BY <1>1, <1>2, <1>6
  <2>2. \/ Stop(s[hi(a)]) < s[lo(b)].offset
        \/ Stop(s[hi(a)]) = s[lo(b)].offset /\ lo(b) = hi(a) + 1 /\ hi(a) \in G
    BY <2>1 DEF Loose
  <2>3. Stop(u[a]) = Stop(s[hi(a)]) /\ u[b].offset = s[lo(b)].offset
    BY <1>6
  <2> HIDE DEF hi, lo
  <2>4. hi(a) \in G => a \in H
    BY <2>1 DEF Shifted
  <2> QED BY <2>1, <2>2, <2>3, <2>4
<1>8. ASSUME NEW b
      PROVE  Has(u, b) <=> Has(s, b)
  <2>1. i \in 1..n /\ i + 1 \in 1..n /\ i \in 1..(n - 1)
    BY <1>1, <1>2
  <2>2. b \in BytesOf(e) <=> b \in BytesOf(s[i]) \/ b \in BytesOf(s[i + 1])
    <3>1. PICK x \in Extents, y \in Extents : x = s[i] /\ y = s[i + 1]
      BY <1>2, <2>1
    <3>2. /\ b \in BytesOf(x) <=> b \in Nat /\ x.offset <= b /\ b < Stop(x)
          /\ b \in BytesOf(y) <=> b \in Nat /\ y.offset <= b /\ b < Stop(y)
          /\ b \in BytesOf(e) <=> b \in Nat /\ e.offset <= b /\ b < Stop(e)
      BY ExtentFacts
    <3>3. /\ x.offset \in Nat /\ y.offset \in Nat /\ Stop(x) \in Nat /\ Stop(y) \in Nat
          /\ x.offset < Stop(x) /\ y.offset < Stop(y)
      BY ExtentFacts
    <3>4. e.offset = x.offset /\ Stop(e) = Stop(y) /\ Stop(x) = y.offset
      BY <1>3, <1>4, <3>1
    <3> QED BY <3>1, <3>2, <3>3, <3>4
  <2>3. ASSUME NEW k \in 1..(n - 1), b \in BytesOf(u[k])
        PROVE  \E j \in 1..n : b \in BytesOf(s[j])
    <3>1. CASE k < i
      <4>1. k \in 1..(i - 1) /\ k \in 1..n
        BY <1>2, <3>1
      <4> QED BY <1>5, <2>3, <4>1
    <3>2. CASE k = i
      BY <1>5, <2>1, <2>2, <2>3, <3>2
    <3>3. CASE k > i
      <4>1. k \in (i + 1)..(n - 1) /\ k + 1 \in 1..n
        BY <1>2, <3>3
      <4> QED BY <1>5, <2>3, <4>1
    <3> QED BY <1>2, <3>1, <3>2, <3>3
  <2>4. ASSUME NEW j \in 1..n, b \in BytesOf(s[j])
        PROVE  \E k \in 1..(n - 1) : b \in BytesOf(u[k])
    <3>1. CASE j < i
      <4>1. j \in 1..(i - 1) /\ j \in 1..(n - 1)
        BY <1>2, <3>1
      <4> QED BY <1>5, <2>4, <4>1
    <3>2. CASE j = i \/ j = i + 1
      BY <1>5, <2>1, <2>2, <2>4, <3>2
    <3>3. CASE j > i + 1
      <4>1. j - 1 \in (i + 1)..(n - 1) /\ j - 1 \in 1..(n - 1) /\ (j - 1) + 1 = j
        BY <1>2, <3>3
      <4>2. u[j - 1] = s[j]
        BY <1>5, <4>1
      <4> QED BY <2>4, <4>1, <4>2
    <3> QED BY <1>2, <3>1, <3>2, <3>3
  <2> QED BY <1>1, <1>5, <2>3, <2>4 DEF Has
<1> QED BY <1>5, <1>7, <1>8 DEF SameBytes

\* Where nothing touches nothing is merged.
LEMMA NotMerged ==
  ASSUME NEW G, NEW s \in Seq(Extents), Loose(s, G), NEW i \in Nat, ~Touching(s, i)
  PROVE  MergeAt(s, i) = s /\ Loose(s, G \ {i})
<1>1. MergeAt(s, i) = s
  BY DEF MergeAt
<1>2. ASSUME NEW a \in 1..Len(s), NEW b \in 1..Len(s), a < b,
             Stop(s[a]) = s[b].offset, b = a + 1, a \in G
      PROVE  a \in G \ {i}
  <2>1. Len(s) \in Nat
    OBVIOUS
  <2>2. a \in 1..(Len(s) - 1)
    BY <1>2, <2>1
  <2> QED BY <1>2, <2>2 DEF Touching
<1> QED BY <1>1, <1>2 DEF Loose

\* Where an extent that is disjoint from all is inserted.
LEMMA PlaceOf ==
  ASSUME NEW s \in Seq(Extents), NEW to, Spaced(s, to), NEW e \in Extents
  PROVE  \E i \in 0..Len(s) :
           /\ Cardinality({j \in DOMAIN s : s[j].offset < e.offset}) = i
           /\ \A j \in 1..Len(s) : s[j].offset < e.offset <=> j <= i
<1>1. PICK n \in Nat : n = Len(s) /\ DOMAIN s = 1..n
  OBVIOUS
<1>2. /\ e.offset \in Nat
      /\ \A j \in 1..n : s[j].offset \in Nat /\ Stop(s[j]) \in Nat /\ s[j].offset < Stop(s[j])
  BY <1>1, ElementOfSeq, ExtentFacts
<1> DEFINE Later == {j \in 1..(n + 1) : j = n + 1 \/ ~(s[j].offset < e.offset)}
<1>3. PICK x \in Later : \A y \in Later : x <= y
  <2>1. Later \subseteq Nat
    OBVIOUS
  <2>2. Later # {}
    <3>1. n + 1 \in Later
      OBVIOUS
    <3> QED BY <3>1
  <2> HIDE DEF Later
  <2> QED BY <2>1, <2>2, LeastNumber
<1>4. x \in 1..(n + 1) /\ x - 1 \in 0..n
  BY <1>1
<1>5. ASSUME NEW j \in 1..n
      PROVE  s[j].offset < e.offset <=> j <= x - 1
  <2>1. CASE j <= x - 1
    <3>1. j \notin Later
      <4>1. ~(x <= j)
        BY <1>4, <2>1
      <4> HIDE DEF Later
      <4> QED BY <1>3, <4>1
    <3> QED BY <1>1, <2>1, <3>1
  <2>2. CASE ~(j <= x - 1)
    <3>1. x <= j /\ x \in 1..n
      BY <1>1, <1>4, <2>2
    <3>2. ~(s[x].offset < e.offset)
      BY <1>1, <3>1
    <3>3. s[x].offset <= s[j].offset
      <4>1. CASE x = j
        BY <1>2, <3>1, <4>1
      <4>2. CASE x < j
        <5>1. Stop(s[x]) < s[j].offset
          BY <1>1, <3>1, <4>2 DEF Spaced
        <5> QED BY <1>2, <3>1, <5>1
      <4> QED BY <1>4, <3>1, <4>1, <4>2
    <3>4. s[x].offset \in Nat /\ s[j].offset \in Nat /\ e.offset \in Nat
      BY <1>2, <3>1
    <3> QED BY <2>2, <3>2, <3>3, <3>4
  <2> QED BY <2>1, <2>2
<1>6. {j \in DOMAIN s : s[j].offset < e.offset} = 1..(x - 1)
  <2>1. \A j \in 1..(x - 1) : j \in 1..n /\ j <= x - 1
    BY <1>1, <1>4
  <2>2. \A j \in 1..n : j <= x - 1 => j \in 1..(x - 1)
    BY <1>1, <1>4
  <2> QED BY <1>1, <1>5, <2>1, <2>2
<1>7. Cardinality(1..(x - 1)) = x - 1
  <2>1. 1 \in Int /\ x - 1 \in Int /\ (IF 1 > x - 1 THEN 0 ELSE (x - 1) - 1 + 1) = x - 1
    BY <1>4
  <2> QED BY <2>1, FS_Interval
<1> QED BY <1>1, <1>4, <1>5, <1>6, <1>7

\* The list with e in it: only e may touch its neighbours.
LEMMA Inserted ==
  ASSUME NEW s \in Seq(Extents), NEW to, Spaced(s, to), NEW e \in Extents,
         \A b \in BytesOf(e) : ~Has(s, b), NEW i \in 0..Len(s),
         Cardinality({j \in DOMAIN s : s[j].offset < e.offset}) = i,
         \A j \in 1..Len(s) : s[j].offset < e.offset <=> j <= i
  PROVE  LET t == InsertSorted(s, e)
         IN  /\ t \in Seq(Extents) /\ Loose(t, {i, i + 1}) /\ Len(t) = Len(s) + 1
             /\ \A b : Has(t, b) <=> Has(s, b) \/ b \in BytesOf(e)
<1> DEFINE t == InsertSorted(s, e)
<1>1. PICK n \in Nat : n = Len(s)
  OBVIOUS
<1>2. i \in 0..n /\ \A k \in 1..n : s[k] \in Extents
  BY <1>1, ElementOfSeq
<1>3. /\ t \in Seq(Extents) /\ Len(t) = n + 1
      /\ \A k \in 1..i : t[k] = s[k]
      /\ t[i + 1] = e
      /\ \A k \in (i + 2)..(n + 1) : t[k] = s[k - 1]
  <2>1. PICK m : m = i + 1
    OBVIOUS
  <2>2. m \in (i + 1)..(Len(s) + 1) /\ i \in 0..Len(s) /\ e \in Extents
    BY <1>1, <1>2, <2>1
  <2>3. t = Splice(s, e, i, m)
    BY <2>1 DEF InsertSorted, Splice
  <2> HIDE DEF t
  <2>4. t \in Seq(Extents) /\ SplicedIn(s, e, i, m, t)
    BY <2>2, <2>3, Spliced
  <2>a. i \in Nat /\ n \in Nat
    BY <1>1, <1>2
  <2>5. i + 1 + (n - m + 1) = n + 1 /\ \A k \in (i + 2)..(n + 1) : k - (i + 2) + m = k - 1
    BY <2>a, <2>1
  <2> QED BY <1>1, <2>4, <2>5 DEF SplicedIn
<1> HIDE DEF t
<1>4. /\ e.offset \in Nat /\ Stop(e) \in Nat /\ e.offset < Stop(e)
      /\ \A k \in 1..n : s[k].offset \in Nat /\ Stop(s[k]) \in Nat /\ s[k].offset < Stop(s[k])
  BY <1>2, ExtentFacts
<1>5. ASSUME NEW k \in 1..n
      PROVE  IF k <= i THEN Stop(s[k]) <= e.offset ELSE Stop(e) <= s[k].offset
  <2>1. BytesOf(e) \cap BytesOf(s[k]) = {}
    BY <1>1 DEF Has
  <2>2. PICK x \in Extents : x = s[k]
    BY <1>2
  <2>3. /\ x.offset <= e.offset => Stop(x) <= e.offset
        /\ e.offset <= x.offset => Stop(e) <= x.offset
    BY <2>1, <2>2, OneAfterTheOther
  <2>4. x.offset < e.offset <=> k <= i
    BY <1>1, <2>2
  <2> QED BY <1>4, <2>2, <2>3, <2>4
<1>8. ASSUME NEW a \in 1..(n + 1), NEW b \in 1..(n + 1), a < b
      PROVE  \/ Stop(t[a]) < t[b].offset
             \/ Stop(t[a]) = t[b].offset /\ b = a + 1 /\ a \in {i, i + 1}
  <2>0. \A k, l \in 1..n : k < l => Stop(s[k]) < s[l].offset
    BY <1>1 DEF Spaced
  <2>1. CASE b <= i
    <3>1. a \in 1..i /\ b \in 1..i /\ a \in 1..n /\ b \in 1..n
      BY <1>2, <1>8, <2>1
    <3> QED BY <1>3, <1>8, <2>0, <3>1
  <2>2. CASE a <= i /\ b = i + 1
    <3>1. a \in 1..i /\ a \in 1..n
      BY <1>2, <2>2
    <3>2. t[a] = s[a] /\ t[b] = e /\ Stop(s[a]) <= e.offset
      BY <1>3, <1>5, <2>2, <3>1
    <3>3. CASE a = i
      BY <1>4, <2>2, <3>1, <3>2, <3>3
    <3>4. CASE a < i
      <4>1. i \in 1..n /\ Stop(s[a]) < s[i].offset /\ s[i].offset < e.offset
        BY <1>1, <1>2, <2>0, <3>1, <3>4
      <4> QED BY <1>4, <3>1, <3>2, <4>1
    <3> QED BY <2>2, <3>3, <3>4, <1>2
  <2>3. CASE a <= i /\ b > i + 1
    <3>1. a \in 1..i /\ a \in 1..n /\ b \in (i + 2)..(n + 1) /\ b - 1 \in 1..n /\ a < b - 1
      BY <1>2, <2>3
    <3> QED BY <1>3, <2>0, <3>1
  <2>4. CASE a = i + 1
    <3>1. b \in (i + 2)..(n + 1) /\ b - 1 \in 1..n /\ ~(b - 1 <= i)
      BY <1>2, <1>8, <2>4
    <3>2. t[a] = e /\ t[b] = s[b - 1] /\ Stop(e) <= s[b - 1].offset
      BY <1>3, <1>5, <2>4, <3>1
    <3>3. CASE b = i + 2
      <4>1. b = a + 1
        BY <1>2, <2>4, <3>3
      <4> QED BY <1>4, <2>4, <3>1, <3>2, <4>1
    <3>4. CASE b # i + 2
      <4>1. i + 1 \in 1..n /\ i + 1 < b - 1 /\ ~(i + 1 <= i)
        BY <1>2, <3>1, <3>4
      <4>2. Stop(e) <= s[i + 1].offset /\ Stop(s[i + 1]) < s[b - 1].offset
        BY <1>5, <2>0, <3>1, <4>1
      <4> QED BY SMTT(30), <1>4, <3>1, <3>2, <4>1, <4>2
    <3> QED BY <3>3, <3>4
  <2>5. CASE a > i + 1
    <3>1. /\ a \in (i + 2)..(n + 1) /\ b \in (i + 2)..(n + 1)
          /\ a - 1 \in 1..n /\ b - 1 \in 1..n /\ a - 1 < b - 1
      BY <1>2, <1>8, <2>5
    <3> QED BY <1>3, <2>0, <3>1
  <2> QED BY <1>2, <1>8, <2>1, <2>2, <2>3, <2>4, <2>5
<1>9. ASSUME NEW b
      PROVE  Has(t, b) <=> Has(s, b) \/ b \in BytesOf(e)
  <2>1. ASSUME NEW k \in 1..(n + 1), b \in BytesOf(t[k])
        PROVE  Has(s, b) \/ b \in BytesOf(e)
    <3>1. CASE k <= i
      <4>1. k \in 1..i /\ k \in 1..n
        BY <1>2, <3>1
      <4> QED BY <1>1, <1>3, <2>1, <4>1 DEF Has
    <3>2. CASE k = i + 1
      BY <1>3, <2>1, <3>2
    <3>3. CASE k > i + 1
      <4>1. k \in (i + 2)..(n + 1) /\ k - 1 \in 1..n
        BY <1>2, <3>3
      <4> QED BY <1>1, <1>3, <2>1, <4>1 DEF Has
    <3> QED BY <1>2, <3>1, <3>2, <3>3
  <2>2. ASSUME NEW k \in 1..n, b \in BytesOf(s[k])
        PROVE  \E j \in 1..(n + 1) : b \in BytesOf(t[j])
    <3>1. CASE k <= i
      <4>1. k \in 1..i /\ k \in 1..(n + 1)
        BY <1>2, <3>1
      <4> QED BY <1>3, <2>2, <4>1
    <3>2. CASE k > i
      <4>1. k + 1 \in (i + 2)..(n + 1) /\ (k + 1) - 1 = k /\ k + 1 \in 1..(n + 1)
        BY <1>2, <3>2
      <4>2. t[k + 1] = s[k]
        BY <1>3, <4>1
      <4> QED BY <2>2, <4>1, <4>2
    <3> QED BY <1>2, <3>1, <3>2
  <2>3. i + 1 \in 1..(n + 1)
    BY <1>2
  <2> QED BY <1>1, <1>3, <2>1, <2>2, <2>3 DEF Has
<1>10. Loose(t, {i, i + 1})
  BY <1>3, <1>8 DEF Loose
<1> QED BY <1>1, <1>3, <1>9, <1>10 DEF t

\* Where extents end is where their last bytes are.
LEMMA EndsAndBytes ==
  ASSUME NEW s \in Seq(Extents), NEW to \in Nat
  PROVE  (\A k \in 1..Len(s) : Stop(s[k]) <= to) <=> (\A b : Has(s, b) => b < to)
<1>1. ASSUME NEW k \in 1..Len(s)
      PROVE  /\ Stop(s[k]) \in Nat /\ Stop(s[k]) - 1 \in BytesOf(s[k])
             /\ \A b \in BytesOf(s[k]) : b \in Nat /\ b < Stop(s[k])
  <2>1. PICK x \in Extents : x = s[k]
    BY ElementOfSeq
  <2>2. /\ Stop(x) \in Nat /\ x.offset \in Nat /\ x.offset < Stop(x)
        /\ \A b : b \in BytesOf(x) <=> b \in Nat /\ x.offset <= b /\ b < Stop(x)
    BY ExtentFacts
  <2>3. Stop(x) - 1 \in Nat /\ x.offset <= Stop(x) - 1 /\ Stop(x) - 1 < Stop(x)
    BY <2>2
  <2> QED BY <2>1, <2>2, <2>3
<1>2. ASSUME \A k \in 1..Len(s) : Stop(s[k]) <= to, NEW b, Has(s, b)
      PROVE  b < to
  <2>1. PICK k \in 1..Len(s) : b \in BytesOf(s[k])
    BY <1>2 DEF Has
  <2>2. b \in Nat /\ b < Stop(s[k]) /\ Stop(s[k]) \in Nat /\ Stop(s[k]) <= to
    BY <1>1, <1>2, <2>1
  <2> QED BY <2>2
<1>3. ASSUME \A b : Has(s, b) => b < to, NEW k \in 1..Len(s)
      PROVE  Stop(s[k]) <= to
  <2>1. Has(s, Stop(s[k]) - 1)
    BY <1>1, <1>3 DEF Has
  <2>2. Stop(s[k]) - 1 < to /\ Stop(s[k]) \in Nat
    BY <1>1, <1>3, <2>1
  <2> QED BY <2>2
<1> QED BY <1>2, <1>3

\* The bytes of a list that ends before "to".
LEMMA SpacedBytes ==
  ASSUME NEW s \in Seq(Extents), NEW to \in Nat, Spaced(s, to), NEW b, Has(s, b)
  PROVE  b \in Nat /\ b + 1 < to /\ b < to
<1>1. PICK k \in 1..Len(s) : b \in BytesOf(s[k])
  BY DEF Has
<1>2. PICK x \in Extents : x = s[k]
  BY ElementOfSeq
<1>3. b \in Nat /\ b < Stop(x) /\ Stop(x) \in Nat
  BY <1>1, <1>2, ExtentFacts
<1>4. Stop(x) < to
  BY <1>2 DEF Spaced
<1> QED BY <1>3, <1>4

\* The list once e is inserted and merged with its neighbours: nothing touches.
LEMMA ReleasedRight ==
  ASSUME NEW s \in Seq(Extents), NEW to \in Nat, Spaced(s, to),
         NEW e \in Extents, \A b \in BytesOf(e) : ~Has(s, b)
  PROVE  /\ Released(s, e) \in Seq(Extents) /\ Loose(Released(s, e), {})
         /\ \A b : Has(Released(s, e), b) <=> Has(s, b) \/ b \in BytesOf(e)
<1>1. PICK i \in 0..Len(s) :
        /\ Cardinality({j \in DOMAIN s : s[j].offset < e.offset}) = i
        /\ \A j \in 1..Len(s) : s[j].offset < e.offset <=> j <= i
  BY PlaceOf
<1>2. PICK t : t = InsertSorted(s, e)
  OBVIOUS
<1>3. /\ t \in Seq(Extents) /\ Loose(t, {i, i + 1})
      /\ \A b : Has(t, b) <=> Has(s, b) \/ b \in BytesOf(e)
  BY <1>1, <1>2, Inserted
<1>4. i \in Nat /\ i + 1 \in Nat /\ Len(t) \in Nat
  BY <1>3
<1>5. PICK u : u = MergeAt(t, i)
  OBVIOUS
<1>6. Released(s, e) = MergeAt(u, IF Touching(t, i) THEN i ELSE i + 1)
  BY <1>1, <1>2, <1>5 DEF Released
<1>7. CASE Touching(t, i)
  <2>1. i \in 1..(Len(t) - 1)
    BY <1>7 DEF Touching
  <2>2. PICK G, H : G = {i, i + 1} /\ H = {i}
    OBVIOUS
  <2>a. Shifted(G, H, i)
    BY <1>4, <2>2 DEF Shifted
  <2>b. Loose(t, G)
    BY <1>3, <2>2
  <2>c. SameBytes(t, u, H)
    BY <1>3, <1>5, <1>7, <2>1, <2>a, <2>b, Merged
  <2>3. /\ u \in Seq(Extents) /\ Loose(u, H)
        /\ \A b : Has(u, b) <=> Has(t, b)
    BY <2>c DEF SameBytes
  <2>4. CASE Touching(u, i)
    <3>1. i \in 1..(Len(u) - 1)
      BY <2>4 DEF Touching
    <3>2. PICK N : N = {}
      OBVIOUS
    <3>a. Shifted(H, N, i)
      BY <1>4, <2>2 DEF Shifted
    <3>3. PICK r : r = MergeAt(u, i)
      OBVIOUS
    <3>c. SameBytes(u, r, N)
      BY <2>3, <2>4, <3>1, <3>a, <3>3, Merged
    <3>4. r \in Seq(Extents) /\ Loose(r, N) /\ \A b : Has(r, b) <=> Has(u, b)
      BY <3>c DEF SameBytes
    <3> QED BY <1>3, <1>6, <1>7, <2>3, <3>2, <3>3, <3>4
  <2>5. CASE ~Touching(u, i)
    <3>1. MergeAt(u, i) = u /\ Loose(u, H \ {i})
      BY <1>4, <2>3, <2>5, NotMerged
    <3>2. H \ {i} = {}
      BY <2>2
    <3> QED BY <1>3, <1>6, <1>7, <2>3, <3>1, <3>2
  <2> QED BY <2>4, <2>5
<1>8. CASE ~Touching(t, i)
  <2>1. u = t /\ Loose(t, {i, i + 1} \ {i})
    BY <1>3, <1>4, <1>5, <1>8, NotMerged
  <2>2. {i, i + 1} \ {i} = {i + 1}
    BY <1>4
  <2>3. Loose(t, {i + 1})
    BY <2>1, <2>2
  <2>4. CASE Touching(t, i + 1)
    <3>1. i + 1 \in 1..(Len(t) - 1)
      BY <2>4 DEF Touching
    <3>2. PICK G, N, l : l \in Nat /\ G = {i + 1} /\ N = {} /\ l = i + 1
      BY <1>4
    <3>a. Shifted(G, N, l)
      BY <3>2 DEF Shifted
    <3>3. PICK r : r = MergeAt(t, l)
      OBVIOUS
    <3>b. Loose(t, G) /\ Touching(t, l) /\ l \in 1..(Len(t) - 1)
      BY <2>3, <2>4, <3>1, <3>2
    <3>c. SameBytes(t, r, N)
      BY <1>3, <3>a, <3>b, <3>3, Merged
    <3>4. r \in Seq(Extents) /\ Loose(r, N) /\ \A b : Has(r, b) <=> Has(t, b)
      BY <3>c DEF SameBytes
    <3> QED BY <1>3, <1>6, <1>8, <2>1, <3>2, <3>3, <3>4
  <2>5. CASE ~Touching(t, i + 1)
    <3>1. MergeAt(t, i + 1) = t /\ Loose(t, {i + 1} \ {i + 1})
      BY <1>3, <1>4, <2>3, <2>5, NotMerged
    <3>2. {i + 1} \ {i + 1} = {}
      OBVIOUS
    <3> QED BY <1>3, <1>6, <1>8, <2>1, <3>1, <3>2
  <2> QED BY <2>4, <2>5
<1> QED BY <1>7, <1>8

\* What is left of the list and of the file once e is free.
ReleasedTo(s, e, to, t, z) ==
  /\ t \in Seq(Extents) /\ z \in Nat /\ z <= to /\ Spaced(t, z)
  /\ \A b \in Nat : Has(t, b) <=> (Has(s, b) \/ b \in BytesOf(e)) /\ b < z
  /\ \A b \in z..(to - 1) : Has(s, b) \/ b \in BytesOf(e)

\* _release, whatever it merges and truncates.
LEMMA ReleaseRight ==
  ASSUME NEW s \in Seq(Extents), NEW to \in Nat, Spaced(s, to),
         NEW e \in Extents, Stop(e) <= to, \A b \in BytesOf(e) : ~Has(s, b),
         Release(s, e, to)
  PROVE  ReleasedTo(s, e, to, free', end')
<1>1. PICK r \in Seq(Extents) :
        /\ r = Released(s, e) /\ Loose(r, {})
        /\ \A b : Has(r, b) <=> Has(s, b) \/ b \in BytesOf(e)
  BY ReleasedRight
<1>2. PICK n \in Nat : n = Len(r) /\ DOMAIN r = 1..n
  OBVIOUS
<1>3. \A k \in 1..n : Stop(r[k]) <= to
  <2>1. \A b : Has(s, b) => b < to
    BY SpacedBytes
  <2>2. \A b \in BytesOf(e) : b < to
    BY ExtentFacts
  <2>3. \A b : Has(r, b) => b < to
    BY <1>1, <2>1, <2>2
  <2> QED BY <1>2, <2>3, EndsAndBytes
<1>4. \A k \in 1..n : /\ r[k] \in Extents /\ r[k].offset \in Nat /\ Stop(r[k]) \in Nat
                      /\ r[k].offset < Stop(r[k])
  BY <1>2, ElementOfSeq, ExtentFacts
<1>5. \A a, b \in 1..n : a < b => Stop(r[a]) < r[b].offset
  BY <1>1, <1>2 DEF Loose
<1>6. PICK tail : tail = FreeTail(r, to)
  OBVIOUS
<1>7. ASSUME NEW i \in tail
      PROVE  i = n /\ n \in 1..n /\ Stop(r[n]) = to
  <2>1. i \in 1..n /\ \A j \in i..n : Stop(r[j]) = IF j = n THEN to ELSE r[j+1].offset
    BY <1>2, <1>6 DEF FreeTail
  <2>2. ~(i < n)
    <3> SUFFICES ASSUME i < n PROVE FALSE
      OBVIOUS
    <3>1. i \in i..n /\ i # n /\ i + 1 \in 1..n /\ i < i + 1
      BY <1>2, <2>1
    <3>2. Stop(r[i]) = r[i + 1].offset /\ Stop(r[i]) < r[i + 1].offset
      BY <1>5, <2>1, <3>1
    <3>3. r[i + 1].offset \in Nat
      BY <1>4, <3>1
    <3> QED BY <3>2, <3>3
  <2>3. i = n /\ n \in 1..n /\ n \in i..n
    BY <1>2, <2>1, <2>2
  <2> QED BY <2>1, <2>3
<1>8. CASE tail = {}
  <2>1. free' = r /\ end' = to
    BY <1>1, <1>6, <1>8 DEF Release
  <2>2. n \in 1..n => Stop(r[n]) # to
    <3> SUFFICES ASSUME n \in 1..n, Stop(r[n]) = to PROVE FALSE
      OBVIOUS
    <3>1. \A j \in n..n : j = n
      BY <1>2
    <3>2. n \in FreeTail(r, to)
      BY <1>2, <3>1 DEF FreeTail
    <3> QED BY <1>6, <1>8, <3>2
  <2>3. ASSUME NEW k \in 1..n
        PROVE  Stop(r[k]) < to
    <3>1. CASE k = n
      BY <1>3, <1>4, <2>2, <3>1
    <3>2. CASE k < n
      <4>1. n \in 1..n /\ Stop(r[k]) < r[n].offset
        BY <1>2, <1>5, <3>2
      <4> QED BY <1>3, <1>4, <4>1
    <3> QED BY <1>2, <3>1, <3>2
  <2>4. Spaced(r, to)
    BY <1>2, <1>5, <2>3 DEF Spaced
  <2>5. \A b \in Nat : Has(r, b) => b < to
    BY <2>4, SpacedBytes
  <2>6. to <= to /\ to..(to - 1) = {}
    OBVIOUS
  <2> QED BY <1>1, <2>1, <2>4, <2>5, <2>6 DEF ReleasedTo
<1>9. CASE tail # {}
  <2>1. n \in 1..n /\ tail = {n} /\ Stop(r[n]) = to
    BY <1>7, <1>9
  <2>2. Least(tail) = n
    <3>1. tail \subseteq Nat
      BY <1>2, <2>1
    <3> QED BY <2>1, <3>1, LeastNumber
  <2>3. PICK z \in Nat : z = r[n].offset /\ z < to
    BY <1>4, <2>1
  <2>4. PICK t \in Seq(Extents) : t = SubSeq(r, 1, n - 1) /\ Len(t) = n - 1
                                  /\ \A k \in 1..(n - 1) : t[k] = r[k]
    <3>1. n - 1 \in 0..Len(r)
      BY <1>2, <2>1
    <3> QED BY <3>1, Beginning
  <2>5. free' = t /\ end' = z
    BY <1>1, <1>6, <1>9, <2>2, <2>3, <2>4 DEF Release
  <2>6. \A k \in 1..(n - 1) : k \in 1..n /\ k < n
    BY <1>2
  <2>7. Spaced(t, z)
    BY <1>5, <2>1, <2>3, <2>4, <2>6 DEF Spaced
  <2>8. \A b : b \in BytesOf(r[n]) <=> b \in Nat /\ z <= b /\ b < to
    BY <1>4, <2>1, <2>3, ExtentFacts
  <2>9. ASSUME NEW b \in Nat
        PROVE  Has(t, b) <=> Has(r, b) /\ b < z
    <3>1. ASSUME Has(t, b) PROVE Has(r, b) /\ b < z
      <4>1. b < z
        BY <2>7, <3>1, SpacedBytes
      <4>2. Has(r, b)
        BY <1>2, <2>4, <2>6, <3>1 DEF Has
      <4> QED BY <4>1, <4>2
    <3>2. ASSUME Has(r, b), b < z PROVE Has(t, b)
      <4>1. PICK k \in 1..n : b \in BytesOf(r[k])
        BY <1>2, <3>2 DEF Has
      <4>2. k # n
        BY <2>3, <2>8, <3>2, <4>1
      <4>3. k \in 1..(n - 1)
        BY <1>2, <4>2
      <4> QED BY <2>4, <4>1, <4>3 DEF Has
    <3> QED BY <3>1, <3>2
  <2>10. \A b \in z..(to - 1) : Has(r, b)
    <3>1. \A b \in z..(to - 1) : b \in Nat /\ z <= b /\ b < to
      BY <2>3
    <3> QED BY <1>2, <2>1, <2>8, <3>1 DEF Has
  <2>11. z <= to
    BY <2>3
  <2> QED BY <1>1, <2>4, <2>5, <2>7, <2>9, <2>10, <2>11 DEF ReleasedTo
<1> QED BY <1>8, <1>9

-----------------------------------------------------------------------------
(* _reserve.                                                               *)

\* What is reserved, and what stays free.
ReservedIs(s, to, n, o, t, z) ==
  /\ o \in Nat /\ t \in Seq(Extents) /\ z \in Nat /\ Spaced(t, z) /\ to <= z
  /\ (o + n <= to /\ z = to) \/ (o = to /\ z = to + n)
  /\ \A b \in Nat : Has(t, b) \/ (o <= b /\ b < o + n) <=> Has(s, b) \/ (to <= b /\ b < z)
  /\ \A b \in Nat : Has(t, b) => ~(o <= b /\ b < o + n)

\* The offset is that of a free extent, or the end of the file.
LEMMA ReserveRight ==
  ASSUME free \in Seq(Extents), end \in Nat, Spaced(free, end), NEW n \in Nat \ {0}
  PROVE  ReservedIs(free, end, n, ReservedOffset(n), FreeAfterReserve(n), EndAfterReserve(n))
<1>1. PICK m \in Nat : m = Len(free) /\ DOMAIN free = 1..m
  OBVIOUS
<1>2. \A k \in 1..m : /\ free[k] \in Extents /\ free[k].offset \in Nat /\ free[k].length \in Nat \ {0}
                      /\ Stop(free[k]) = free[k].offset + free[k].length /\ Stop(free[k]) < end
                      /\ \A b : b \in BytesOf(free[k]) <=>
                                  b \in Nat /\ free[k].offset <= b /\ b < Stop(free[k])
  <2>1. \A k \in 1..m : free[k] \in Extents /\ Stop(free[k]) < end
    BY <1>1, ElementOfSeq DEF Spaced
  <2> QED BY <2>1, ExtentFacts
<1>3. ASSUME NEW k \in 1..m PROVE Stop(free[k]) \in Nat /\ Stop(free[k]) < end
  <2>1. free[k] \in Extents
    BY <1>2
  <2> QED BY <1>2, <2>1, ExtentFacts
<1>4. CASE Fitting(n) = {}
  <2>1. /\ ReservedOffset(n) = end /\ FreeAfterReserve(n) = free
        /\ EndAfterReserve(n) = end + n
    BY <1>4 DEF ReservedOffset, FreeAfterReserve, EndAfterReserve
  <2>2. end + n \in Nat /\ end <= end + n /\ end + n <= end + n
    OBVIOUS
  <2>3. Spaced(free, end + n)
    <3>1. \A k \in 1..Len(free) : Stop(free[k]) < end + n
      BY <1>1, <1>3
    <3> QED BY <3>1 DEF Spaced
  <2>4. \A b \in Nat : Has(free, b) => b < end
    BY SpacedBytes
  <2>5. \A b \in Nat : Has(free, b) => ~(end <= b /\ b < end + n)
    BY <2>4
  <2> QED BY <2>1, <2>2, <2>3, <2>5 DEF ReservedIs
<1>5. CASE Fitting(n) # {}
  <2>1. PICK i \in 1..m : i = Least(Fitting(n)) /\ free[i].length >= n
    <3>1. Fitting(n) \subseteq Nat
      BY <1>1 DEF Fitting
    <3>2. Least(Fitting(n)) \in Fitting(n)
      BY <1>5, <3>1, LeastNumber
    <3> QED BY <1>1, <3>2 DEF Fitting
  <2>2. PICK o \in Nat : o = free[i].offset
    BY <1>2
  <2>3. PICK l \in Nat \ {0} : l = free[i].length /\ n <= l
    BY <1>2, <2>1
  <2>4. /\ ReservedOffset(n) = o /\ FreeAfterReserve(n) = TakeFree(i, n) /\ EndAfterReserve(n) = end
    BY <1>5, <2>1, <2>2 DEF ReservedOffset, FreeAfterReserve, EndAfterReserve
  <2>5. Stop(free[i]) = o + l /\ o + l < end
    BY <1>2, <2>2, <2>3
  <2>6. /\ end <= end /\ o + n <= end
        /\ \A b \in Nat : ~(end <= b /\ b < end)
    <3>1. n <= l /\ l \in Nat /\ n \in Nat
      BY <2>3
    <3>2. o + n <= o + l /\ o + n \in Nat /\ o + l \in Nat
      BY <3>1
    <3>3. o + l < end /\ end \in Nat
      BY <2>5
    <3>4. o + n <= end
      BY <3>2, <3>3
    <3>5. \A b \in Nat : ~(end <= b /\ b < end)
      BY <3>3
    <3> QED BY <3>3, <3>4, <3>5
  <2>7. \A a, b \in 1..m : a < b => Stop(free[a]) < free[b].offset
    BY <1>1 DEF Spaced
  <2>8. PICK t : t = TakeFree(i, n)
    OBVIOUS
  \* The other extents lie outside of the one that is taken.
  <2>9. ASSUME NEW k \in 1..m, k # i, NEW b, b \in BytesOf(free[k])
        PROVE  ~(o <= b /\ b < o + l)
    <3>1. b \in Nat /\ free[k].offset <= b /\ b < Stop(free[k])
      BY <1>2, <2>9
    <3>2. CASE k < i
      <4>1. Stop(free[k]) < o
        BY <2>2, <2>7, <3>2
      <4>2. Stop(free[k]) \in Nat
        BY <1>3
      <4> QED BY <3>1, <4>1, <4>2
    <3>3. CASE i < k
      <4>1. o + l < free[k].offset /\ free[k].offset \in Nat
        BY <1>2, <2>5, <2>7, <3>3
      <4> QED BY <3>1, <4>1
    <3> QED BY <2>9, <3>2, <3>3
  <2>10. CASE l = n
    <3>1. t = RemoveAt(free, i)
      BY <2>3, <2>8, <2>10 DEF TakeFree
    <3>2. /\ t \in Seq(Extents) /\ Len(t) = m - 1
          /\ \A k \in 1..(m - 1) : t[k] = IF k < i THEN free[k] ELSE free[k + 1]
      BY <1>1, <3>1, Removed
    <3> DEFINE at(k) == IF k < i THEN k ELSE k + 1
    <3>3. \A k \in 1..(m - 1) : at(k) \in 1..m /\ at(k) # i /\ t[k] = free[at(k)]
      BY <1>1, <3>2
    <3>4. \A a, b \in 1..(m - 1) : a < b => at(a) < at(b)
      BY <1>1
    <3>5. \A k \in 1..m : k # i => \E j \in 1..(m - 1) : at(j) = k
      <4> TAKE k \in 1..m
      <4> HAVE k # i
      <4>1. CASE k < i
        <5>1. k \in 1..(m - 1) /\ at(k) = k
          BY <1>1, <4>1
        <5> QED BY <5>1
      <4>2. CASE i < k
        <5>1. k - 1 \in 1..(m - 1) /\ at(k - 1) = k
          BY <1>1, <4>2
        <5> QED BY <5>1
      <4> QED BY <4>1, <4>2
    <3> HIDE DEF at
    <3>6. Spaced(t, end)
      BY <1>2, <2>7, <3>2, <3>3, <3>4 DEF Spaced
    <3>7. ASSUME NEW b \in Nat
          PROVE  Has(t, b) <=> \E k \in 1..m : k # i /\ b \in BytesOf(free[k])
      BY <3>2, <3>3, <3>5 DEF Has
    <3>8. ASSUME NEW b \in Nat
          PROVE  /\ Has(t, b) \/ (o <= b /\ b < o + n) <=> Has(free, b)
                 /\ Has(t, b) => ~(o <= b /\ b < o + n)
      <4>1. b \in BytesOf(free[i]) <=> o <= b /\ b < o + n
        BY <1>2, <2>2, <2>5, <2>10
      <4> QED BY <1>1, <2>9, <2>10, <3>7, <4>1 DEF Has
    <3> QED BY <2>4, <2>6, <2>8, <3>2, <3>6, <3>8 DEF ReservedIs
  <2>11. CASE l # n
    <3>1. PICK e \in Extents : /\ e = Extent(o + n, l - n) /\ e.offset = o + n /\ Stop(e) = o + l
      <4>1. PICK p \in Nat, q \in Nat \ {0} : p = o + n /\ q = l - n /\ p + q = o + l
        <5>1. o + n \in Nat /\ l - n \in Nat \ {0} /\ (o + n) + (l - n) = o + l
          BY SMTT(30), <2>3, <2>11
        <5> QED BY <5>1
      <4>2. Extent(p, q) \in Extents /\ Extent(p, q).offset = p /\ Stop(Extent(p, q)) = p + q
        BY ExtentMade
      <4> QED BY <4>1, <4>2
    <3>2. t = [free EXCEPT ![i] = e]
      BY <2>2, <2>3, <2>8, <2>11, <3>1 DEF TakeFree
    <3>3. /\ t \in Seq(Extents) /\ Len(t) = m
          /\ \A k \in 1..m : t[k] = IF k = i THEN e ELSE free[k]
      BY <1>1, <3>2, ExceptSeq
    <3>4. ASSUME NEW k \in 1..m
          PROVE  /\ Stop(t[k]) = Stop(free[k]) /\ Stop(free[k]) \in Nat /\ free[k].offset \in Nat
                 /\ free[k].offset <= t[k].offset /\ t[k].offset \in Nat
      <4>1. Stop(free[k]) \in Nat /\ free[k].offset \in Nat
        BY <1>2
      <4>2. CASE k = i
        <5>1. o <= o + n /\ o + n \in Nat
          <6>1. o \in Nat
            BY <2>2
          <6> QED BY <6>1
        <5>2. t[k] = e /\ Stop(free[k]) = o + l /\ free[k].offset = o
          BY <2>2, <2>5, <3>3, <4>2
        <5> QED BY <3>1, <4>1, <5>1, <5>2
      <4>3. CASE k # i
        <5>1. t[k] = free[k]
          BY <3>3, <4>3
        <5> QED BY <4>1, <5>1
      <4> QED BY <4>2, <4>3
    <3>5. Spaced(t, end)
      <4>1. ASSUME NEW a \in 1..m, NEW b \in 1..m, a < b
            PROVE  Stop(t[a]) < t[b].offset
        <5>1. Stop(free[a]) < free[b].offset
          BY <2>7, <4>1
        <5>2. /\ Stop(t[a]) = Stop(free[a]) /\ Stop(free[a]) \in Nat /\ free[b].offset \in Nat
              /\ free[b].offset <= t[b].offset /\ t[b].offset \in Nat
          BY <3>4
        <5> QED BY <5>1, <5>2
      <4>2. \A k \in 1..m : Stop(t[k]) < end
        BY <1>2, <3>4
      <4> QED BY <3>3, <4>1, <4>2 DEF Spaced
    <3>6. ASSUME NEW b \in Nat
          PROVE  /\ b \in BytesOf(e) <=> o + n <= b /\ b < o + l
                 /\ b \in BytesOf(free[i]) <=> o <= b /\ b < o + l
      BY <1>2, <2>2, <2>5, <3>1, ExtentFacts
    <3>7. ASSUME NEW b \in Nat
          PROVE  Has(t, b) <=> b \in BytesOf(e) \/ \E k \in 1..m : k # i /\ b \in BytesOf(free[k])
      BY <3>3 DEF Has
    <3>8. ASSUME NEW b \in Nat
          PROVE  Has(free, b) <=> b \in BytesOf(free[i]) \/ \E k \in 1..m : k # i /\ b \in BytesOf(free[k])
      BY <1>1 DEF Has
    <3>9. ASSUME NEW b \in Nat
          PROVE  /\ Has(t, b) \/ (o <= b /\ b < o + n) <=> Has(free, b)
                 /\ Has(t, b) => ~(o <= b /\ b < o + n)
      <4>1. /\ (o + n <= b /\ b < o + l) \/ (o <= b /\ b < o + n) <=> o <= b /\ b < o + l
            /\ (o + n <= b /\ b < o + l) => ~(o <= b /\ b < o + n)
        BY <2>3
      <4>2. (\E k \in 1..m : k # i /\ b \in BytesOf(free[k])) => ~(o <= b /\ b < o + l)
        BY <2>9
      <4>3. ~(o <= b /\ b < o + l) => ~(o <= b /\ b < o + n)
        BY <2>3
      <4> QED BY <3>6, <3>7, <3>8, <4>1, <4>2, <4>3
    <3> QED BY <2>4, <2>6, <2>8, <3>3, <3>5, <3>9 DEF ReservedIs
  <2> QED BY <2>10, <2>11
<1> QED BY <1>4, <1>5

-----------------------------------------------------------------------------
(* The inductive invariant.                                                *)

\* Byte b is in a record.
Used(recs, b) == \E k \in DOMAIN recs : b \in BytesOf(recs[k])

\* Below "to" a byte is free or in a record, and in one.
Layout(recs, s, to) ==
  /\ \A k \in DOMAIN recs : recs[k] \in Extents /\ Stop(recs[k]) <= to
  /\ \A b \in 0..(to - 1) : Has(s, b) <=> ~Used(recs, b)
  /\ \A j, k \in DOMAIN recs : j # k => BytesOf(recs[j]) \cap BytesOf(recs[k]) = {}

\* Each record reads back as the bytes that were put.
Contents(recs, f) ==
  \A k \in DOMAIN recs : \A i \in 1..recs[k].length :
    f[recs[k].offset + i] = <<k, recs[k].length, i>>

\* The list of what is free is in order and coalesced, every byte of the file is
\* free or in one record, and each record has the bytes that were put: Tiling
\* alone does not say what the free list must look like for _release to merge
\* all there is to merge, nor where a truncation may cut.
BlobInv ==
  /\ BlobTypeOK
  /\ Spaced(free, end)
  /\ Layout(records, free, end)
  /\ Len(file) = end
  /\ Contents(records, file)

-----------------------------------------------------------------------------
(* The file.                                                               *)

FileByte == {Hole} \cup (Key \X Nat \X Nat)

\* A function on 1..n is a list of n elements.
LEMMA Listed ==
  ASSUME NEW S, NEW n \in Nat, NEW f \in [1..n -> S]
  PROVE  f \in Seq(S) /\ Len(f) = n
<1>1. f \in Seq(S)
  BY SeqDef
<1>2. DOMAIN f = 1..n /\ DOMAIN f = 1..Len(f) /\ Len(f) \in Nat
  BY <1>1, LenProperties
<1> QED BY <1>1, <1>2

\* What a write, complete or not, changes.
LEMMA WriteRight ==
  ASSUME file \in Seq(FileByte), NEW o \in Nat, NEW k \in Key, NEW n \in Nat, NEW w \in 0..n,
         NEW f, f = BytesWritten(o, k, n, w)
  PROVE  /\ f \in Seq(FileByte)
         /\ Len(f) = IF w > 0 /\ o + w > Len(file) THEN o + w ELSE Len(file)
         /\ \A p \in 1..Len(f) : p \in (o + 1)..(o + w) => f[p] = <<k, n, p - o>>
         /\ \A p \in 1..Len(f) : p \notin (o + 1)..(o + w) /\ p \in 1..Len(file) => f[p] = file[p]
<1>1. PICK m \in Nat : m = Len(file) /\ DOMAIN file = 1..m
  OBVIOUS
<1>2. PICK size \in Nat : size = IF w > 0 /\ o + w > m THEN o + w ELSE m
  <2>1. o + w \in Nat
    OBVIOUS
  <2> QED BY <1>1, <2>1
<1>3. f = [p \in 1..size |-> IF p \in (o + 1)..(o + w) THEN <<k, n, p - o>>
                             ELSE IF p \in 1..m THEN file[p] ELSE Hole]
  BY <1>1, <1>2 DEF BytesWritten
<1>4. ASSUME NEW p \in 1..size
      PROVE  f[p] \in FileByte
  <2>1. CASE p \in (o + 1)..(o + w)
    <3>1. p - o \in Nat
      BY <2>1
    <3>2. <<k, n, p - o>> \in FileByte
      BY <3>1 DEF FileByte
    <3> QED BY <1>3, <2>1, <3>2
  <2>2. CASE p \notin (o + 1)..(o + w) /\ p \in 1..m
    BY <1>1, <1>3, <2>2, ElementOfSeq
  <2>3. CASE p \notin (o + 1)..(o + w) /\ p \notin 1..m
    BY <1>3, <2>3 DEF FileByte
  <2> QED BY <2>1, <2>2, <2>3
<1>5. f \in [1..size -> FileByte]
  BY <1>3, <1>4
<1>6. f \in Seq(FileByte) /\ Len(f) = size
  BY <1>5, Listed
<1> QED BY <1>1, <1>2, <1>3, <1>6

\* What a release changes.
LEMMA CutRight ==
  ASSUME NEW f \in Seq(FileByte), NEW e, NEW to, NEW z \in Nat, z = end',
         NEW g, g = FileAfterRelease(f, e, to)
  PROVE  /\ g \in Seq(FileByte)
         /\ Len(g) = IF z < to THEN z ELSE Len(f)
         /\ \A p \in 1..Len(g) : p \in 1..Len(f) /\ p - 1 \notin BytesOf(e) => g[p] = f[p]
<1>1. PICK m \in Nat : m = Len(f) /\ DOMAIN f = 1..m
  OBVIOUS
<1>2. PICK size \in Nat : size = IF z < to THEN z ELSE m
  BY <1>1
<1>3. g = [p \in 1..size |-> IF p \in 1..m /\ p - 1 \notin BytesOf(e) THEN f[p] ELSE Hole]
  BY <1>1, <1>2 DEF FileAfterRelease
<1>4. \A p \in 1..m : f[p] \in FileByte
  BY <1>1, ElementOfSeq
<1>5. Hole \in FileByte
  BY DEF FileByte
<1>6. g \in [1..size -> FileByte]
  BY <1>3, <1>4, <1>5
<1>7. g \in Seq(FileByte) /\ Len(g) = size
  BY <1>6, Listed
<1> QED BY <1>1, <1>2, <1>3, <1>7

\* Records keep their contents when their bytes stay.
LEMMA ContentsKept ==
  ASSUME NEW recs, \A k \in DOMAIN recs : recs[k] \in Extents, NEW f, NEW g, Contents(recs, f),
         \A b \in Nat : Used(recs, b) => g[b + 1] = f[b + 1]
  PROVE  Contents(recs, g)
<1> SUFFICES ASSUME NEW k \in DOMAIN recs, NEW i \in 1..recs[k].length
             PROVE  g[recs[k].offset + i] = <<k, recs[k].length, i>>
  BY DEF Contents
<1>1. PICK o \in Nat, n \in Nat : o = recs[k].offset /\ n = recs[k].length /\ Stop(recs[k]) = o + n
  BY ExtentFacts
<1>2. PICK b \in Nat : b = o + i - 1 /\ o <= b /\ b < o + n /\ b + 1 = o + i
  BY <1>1
<1>3. b \in BytesOf(recs[k])
  BY <1>1, <1>2, ExtentFacts
<1>4. g[b + 1] = f[b + 1]
  BY <1>3 DEF Used
<1>5. f[o + i] = <<k, recs[k].length, i>>
  BY <1>1 DEF Contents
<1> QED BY <1>1, <1>2, <1>4, <1>5

\* The last byte of an extent is one of its bytes.
LEMMA LastByte ==
  ASSUME NEW v \in Extents
  PROVE  \E x \in Nat : x = Stop(v) - 1 /\ x \in BytesOf(v)
<1>1. PICK o \in Nat, n \in Nat \ {0} : o = v.offset /\ n = v.length /\ Stop(v) = o + n
  BY DEF Extents, Stop
<1>2. PICK x \in Nat : x = o + n - 1 /\ o <= x /\ x < o + n
  BY <1>1
<1>3. x \in BytesOf(v)
  BY <1>1, <1>2, ExtentFacts
<1> QED BY <1>1, <1>2, <1>3

\* A byte of a record is below the end.
LEMMA UsedBelow ==
  ASSUME NEW recs, NEW s, NEW to \in Nat, Layout(recs, s, to), NEW b, Used(recs, b)
  PROVE  b \in Nat /\ b < to
<1>1. PICK k \in DOMAIN recs : b \in BytesOf(recs[k]) /\ recs[k] \in Extents /\ Stop(recs[k]) <= to
  BY DEF Used, Layout
<1>2. b \in Nat /\ b < Stop(recs[k]) /\ Stop(recs[k]) \in Nat
  BY <1>1, ExtentFacts
<1> QED BY <1>1, <1>2

-----------------------------------------------------------------------------
(* The operations.                                                         *)

\* What is reserved lies in what is free, and what is free after that.
LEMMA ReservedApart ==
  ASSUME NEW recs, NEW s, NEW to \in Nat, Layout(recs, s, to),
         NEW n \in Nat \ {0}, NEW o, NEW t, NEW z, ReservedIs(s, to, n, o, t, z), NEW b \in Nat
  PROVE  /\ Used(recs, b) => ~(o <= b /\ b < o + n)
         /\ b < z => (Has(t, b) <=> ~Used(recs, b) /\ ~(o <= b /\ b < o + n))
<1>1. /\ Has(t, b) \/ (o <= b /\ b < o + n) <=> Has(s, b) \/ (to <= b /\ b < z)
      /\ Has(t, b) => ~(o <= b /\ b < o + n)
  BY DEF ReservedIs
<1>2. Used(recs, b) => b < to
  BY UsedBelow
<1>3. b < to => (Has(s, b) <=> ~Used(recs, b))
  <2>1. b < to => b \in 0..(to - 1)
    OBVIOUS
  <2> QED BY <2>1 DEF Layout
<1>4. b < to \/ to <= b
  OBVIOUS
<1>5. Used(recs, b) => ~(Has(s, b) \/ (to <= b /\ b < z))
  BY <1>2, <1>3
<1>6. b < z => (Has(s, b) \/ (to <= b /\ b < z) <=> ~Used(recs, b))
  <2>1. CASE b < to
    BY <1>3, <2>1
  <2>2. CASE to <= b
    BY <1>2, <2>2
  <2> QED BY <1>4, <2>1, <2>2
<1> QED BY <1>1, <1>5, <1>6

\* put() writes only where nothing is stored.
LEMMA PutKeeps ==
  ASSUME BlobInv, NEW k \in Key, NEW n \in 1..MaxLength, Put(k, n)
  PROVE  BlobInv'
<1>1. /\ free \in Seq(Extents) /\ end \in Nat /\ Spaced(free, end) /\ file \in Seq(FileByte)
      /\ DOMAIN records \subseteq Key /\ Len(file) = end /\ n \in Nat \ {0}
      /\ Layout(records, free, end) /\ Contents(records, file)
  BY BlobAssumption DEF BlobInv, BlobTypeOK, FileByte
<1>2. PICK o \in Nat, t \in Seq(Extents), z \in Nat :
        /\ o = ReservedOffset(n) /\ t = FreeAfterReserve(n) /\ z = EndAfterReserve(n)
        /\ ReservedIs(free, end, n, o, t, z)
  <2>1. ReservedIs(free, end, n, ReservedOffset(n), FreeAfterReserve(n), EndAfterReserve(n))
    BY <1>1, ReserveRight
  <2> QED BY <2>1 DEF ReservedIs
<1>3. /\ free' = t /\ end' = z /\ file' = BytesWritten(o, k, n, n)
      /\ k \notin DOMAIN records /\ DOMAIN records' = DOMAIN records \cup {k}
      /\ records'[k] = Extent(o, n) /\ \A j \in DOMAIN records : records'[j] = records[j]
      /\ open' = open
  BY <1>2 DEF Put
<1>4. /\ Extent(o, n) \in Extents /\ Stop(Extent(o, n)) = o + n
      /\ Extent(o, n).offset = o /\ Extent(o, n).length = n
      /\ \A b : b \in BytesOf(Extent(o, n)) <=> b \in Nat /\ o <= b /\ b < o + n
  <2>1. /\ Extent(o, n) \in Extents /\ Stop(Extent(o, n)) = o + n
        /\ Extent(o, n).offset = o /\ Extent(o, n).length = n
    BY <1>1, ExtentMade
  <2> QED BY <2>1, ExtentFacts
<1>5. /\ Spaced(t, z) /\ end <= z
      /\ (o + n <= end /\ z = end) \/ (o = end /\ z = end + n)
  BY <1>2 DEF ReservedIs
<1>6. \A b \in Nat : /\ Used(records, b) => ~(o <= b /\ b < o + n)
                     /\ b < z => (Has(t, b) <=> ~Used(records, b) /\ ~(o <= b /\ b < o + n))
  BY <1>1, <1>2, ReservedApart
<1>7. \A b : Used(records', b) <=> Used(records, b) \/ b \in BytesOf(Extent(o, n))
  BY <1>3 DEF Used
<1>8. Layout(records', t, z)
  <2>1. ASSUME NEW j \in DOMAIN records'
        PROVE  records'[j] \in Extents /\ Stop(records'[j]) <= z
    <3>1. CASE j = k
      <4>1. o + n <= z
        BY <1>1, <1>5
      <4> QED BY <1>3, <1>4, <3>1, <4>1
    <3>2. CASE j # k
      <4>1. j \in DOMAIN records /\ records'[j] = records[j]
        BY <1>3, <2>1, <3>2
      <4>2. records[j] \in Extents /\ Stop(records[j]) <= end
        BY <1>1, <4>1 DEF Layout
      <4>3. Stop(records[j]) \in Nat
        BY <4>2, ExtentFacts
      <4> QED BY <1>1, <1>5, <4>1, <4>2, <4>3
    <3> QED BY <3>1, <3>2
  <2>2. ASSUME NEW b \in 0..(z - 1)
        PROVE  Has(t, b) <=> ~Used(records', b)
    <3>1. b \in Nat /\ b < z
      BY <1>2
    <3> QED BY <1>4, <1>6, <1>7, <3>1
  <2>3. ASSUME NEW i \in DOMAIN records', NEW j \in DOMAIN records', i # j
        PROVE  BytesOf(records'[i]) \cap BytesOf(records'[j]) = {}
    <3>1. ASSUME NEW l \in DOMAIN records
          PROVE  BytesOf(records[l]) \cap BytesOf(Extent(o, n)) = {}
      <4>1. \A b \in BytesOf(records[l]) : Used(records, b)
        BY DEF Used
      <4> QED BY <1>4, <1>6, <4>1
    <3>2. CASE i = k
      BY <1>3, <2>3, <3>1, <3>2
    <3>3. CASE j = k
      BY <1>3, <2>3, <3>1, <3>3
    <3>4. CASE i # k /\ j # k
      BY <1>1, <1>3, <2>3, <3>4 DEF Layout
    <3> QED BY <3>2, <3>3, <3>4
  <2> QED BY <2>1, <2>2, <2>3 DEF Layout
<1>9. PICK f \in Seq(FileByte) :
        /\ f = file' /\ Len(f) = z
        /\ \A p \in 1..z : p \in (o + 1)..(o + n) => f[p] = <<k, n, p - o>>
        /\ \A p \in 1..z : p \notin (o + 1)..(o + n) /\ p \in 1..end => f[p] = file[p]
  <2>1. n \in 0..n /\ n \in Nat
    BY <1>1
  <2>2. /\ file' \in Seq(FileByte)
        /\ Len(file') = IF n > 0 /\ o + n > Len(file) THEN o + n ELSE Len(file)
        /\ \A p \in 1..Len(file') : p \in (o + 1)..(o + n) => file'[p] = <<k, n, p - o>>
        /\ \A p \in 1..Len(file') :
             p \notin (o + 1)..(o + n) /\ p \in 1..Len(file) => file'[p] = file[p]
    BY <1>1, <1>3, <2>1, WriteRight
  <2>3. (IF n > 0 /\ o + n > end THEN o + n ELSE end) = z
    BY <1>1, <1>5
  <2>4. Len(file') = z
    BY <1>1, <2>2, <2>3
  <2> QED BY <1>1, <2>2, <2>4
<1>10. Contents(records, f)
  <2>1. \A j \in DOMAIN records : records[j] \in Extents
    BY <1>1 DEF Layout
  <2>2. ASSUME NEW b \in Nat, Used(records, b)
        PROVE  f[b + 1] = file[b + 1]
    <3>1. b < end /\ ~(o <= b /\ b < o + n)
      BY <1>1, <1>6, <2>2, UsedBelow
    <3>2. b + 1 \in 1..z /\ b + 1 \in 1..end /\ b + 1 \notin (o + 1)..(o + n)
      BY <1>1, <1>5, <3>1
    <3> QED BY <1>9, <3>2
  <2> QED BY <1>1, <2>1, <2>2, ContentsKept
<1>11. Contents(records', f)
  <2> SUFFICES ASSUME NEW j \in DOMAIN records', NEW i \in 1..records'[j].length
               PROVE  f[records'[j].offset + i] = <<j, records'[j].length, i>>
    BY DEF Contents
  <2>1. CASE j = k
    <3>1. i \in 1..n /\ records'[j].offset = o /\ records'[j].length = n
      BY <1>3, <1>4, <2>1
    <3>2. o + i \in 1..z /\ o + i \in (o + 1)..(o + n) /\ (o + i) - o = i
      BY <1>1, <1>5, <3>1
    <3>3. f[o + i] = <<k, n, i>>
      BY <1>9, <3>2
    <3> QED BY <2>1, <3>1, <3>3
  <2>2. CASE j # k
    <3>1. j \in DOMAIN records /\ records'[j] = records[j]
      BY <1>3, <2>2
    <3> QED BY <1>10, <3>1 DEF Contents
  <2> QED BY <2>1, <2>2
<1>12. BlobTypeOK'
  <2>1. \A j \in DOMAIN records' : records'[j] \in Extents
    BY <1>8 DEF Layout
  <2> QED BY <1>1, <1>2, <1>3, <1>9, <2>1 DEF BlobTypeOK, BlobInv, FileByte
<1> QED BY <1>3, <1>5, <1>8, <1>9, <1>11, <1>12 DEF BlobInv

\* A failed put() gives back what it reserved, and cuts off no record.
LEMMA PutFailsKeeps ==
  ASSUME BlobInv, NEW k \in Key, NEW n \in 1..MaxLength, PutFails(k, n)
  PROVE  BlobInv'
<1>1. /\ free \in Seq(Extents) /\ end \in Nat /\ Spaced(free, end) /\ file \in Seq(FileByte)
      /\ DOMAIN records \subseteq Key /\ Len(file) = end /\ n \in Nat \ {0}
      /\ Layout(records, free, end) /\ Contents(records, file)
  BY BlobAssumption DEF BlobInv, BlobTypeOK, FileByte
<1>2. PICK o \in Nat, t \in Seq(Extents), z \in Nat :
        /\ o = ReservedOffset(n) /\ t = FreeAfterReserve(n) /\ z = EndAfterReserve(n)
        /\ ReservedIs(free, end, n, o, t, z)
  <2>1. ReservedIs(free, end, n, ReservedOffset(n), FreeAfterReserve(n), EndAfterReserve(n))
    BY <1>1, ReserveRight
  <2> QED BY <2>1 DEF ReservedIs
<1>3. PICK e \in Extents :
        /\ e = Extent(o, n) /\ Stop(e) = o + n
        /\ \A b : b \in BytesOf(e) <=> b \in Nat /\ o <= b /\ b < o + n
  <2>1. /\ Extent(o, n) \in Extents /\ Stop(Extent(o, n)) = o + n /\ Extent(o, n).offset = o
    BY <1>1, ExtentMade
  <2> QED BY <2>1, ExtentFacts
<1>4. PICK w \in 0..(n - 1) : /\ Release(t, e, z) /\ open' = open /\ records' = records
                              /\ file' = FileAfterRelease(BytesWritten(o, k, n, w), e, z)
  BY <1>2, <1>3 DEF PutFails
<1>5. /\ Spaced(t, z) /\ end <= z
      /\ (o + n <= end /\ z = end) \/ (o = end /\ z = end + n)
  BY <1>2 DEF ReservedIs
<1>6. \A b \in Nat : /\ Used(records, b) => ~(o <= b /\ b < o + n)
                     /\ b < z => (Has(t, b) <=> ~Used(records, b) /\ ~(o <= b /\ b < o + n))
  BY <1>1, <1>2, ReservedApart
<1>7. ReleasedTo(t, e, z, free', end')
  <2>1. Stop(e) <= z
    BY <1>1, <1>3, <1>5
  <2>2. \A b \in BytesOf(e) : ~Has(t, b)
    BY <1>2, <1>3 DEF ReservedIs
  <2> QED BY <1>3, <1>4, <1>5, <2>1, <2>2, ReleaseRight
<1>8. PICK y \in Nat : /\ y = end' /\ y <= z /\ free' \in Seq(Extents) /\ Spaced(free', y)
                       /\ \A b \in Nat : Has(free', b) <=> (Has(t, b) \/ b \in BytesOf(e)) /\ b < y
                       /\ \A b \in y..(z - 1) : Has(t, b) \/ b \in BytesOf(e)
  BY <1>7 DEF ReleasedTo
\* No record's byte is cut off.
<1>9. ASSUME NEW b, Used(records, b)
      PROVE  b \in Nat /\ b < end /\ b < y /\ b \notin BytesOf(e)
  <2>1. b \in Nat /\ b < end
    BY <1>1, <1>9, UsedBelow
  <2>2. b < z /\ ~(o <= b /\ b < o + n) /\ ~Has(t, b)
    BY <1>1, <1>5, <1>6, <1>9, <2>1
  <2>3. b \notin BytesOf(e)
    BY <1>3, <2>2
  <2>4. b \notin y..(z - 1)
    BY <1>8, <2>2, <2>3
  <2> QED BY <2>1, <2>2, <2>3, <2>4
<1>10. Layout(records, free', y)
  <2>1. ASSUME NEW j \in DOMAIN records
        PROVE  records[j] \in Extents /\ Stop(records[j]) <= y
    <3>1. records[j] \in Extents
      BY <1>1 DEF Layout
    <3>2. PICK x \in Nat : x = Stop(records[j]) - 1 /\ x \in BytesOf(records[j])
      BY <3>1, LastByte
    <3>3. x < y
      BY <1>9, <3>2 DEF Used
    <3>4. Stop(records[j]) \in Nat
      BY <3>1, ExtentFacts
    <3> QED BY <3>1, <3>2, <3>3, <3>4
  <2>2. ASSUME NEW b \in 0..(y - 1)
        PROVE  Has(free', b) <=> ~Used(records, b)
    <3>1. y \in Nat /\ y <= z
      BY <1>8
    <3>2. b \in Nat /\ b < y /\ b < z
      BY <3>1
    <3>3. Has(free', b) <=> Has(t, b) \/ b \in BytesOf(e)
      BY <1>8, <3>2
    <3> QED BY <1>3, <1>6, <1>9, <3>2, <3>3
  <2> QED BY <1>1, <2>1, <2>2 DEF Layout
<1>11. PICK g \in Seq(FileByte) :
         /\ g = BytesWritten(o, k, n, w)
         /\ Len(g) = IF w > 0 /\ o + w > end THEN o + w ELSE end
         /\ \A p \in 1..Len(g) : p \notin (o + 1)..(o + w) /\ p \in 1..end => g[p] = file[p]
  <2>1. w \in 0..n /\ n \in Nat
    BY <1>1
  <2>2. PICK g : g = BytesWritten(o, k, n, w)
    OBVIOUS
  <2>3. /\ g \in Seq(FileByte)
        /\ Len(g) = IF w > 0 /\ o + w > Len(file) THEN o + w ELSE Len(file)
        /\ \A p \in 1..Len(g) : p \notin (o + 1)..(o + w) /\ p \in 1..Len(file) => g[p] = file[p]
    BY <1>1, <2>1, <2>2, WriteRight
  <2> QED BY <1>1, <2>2, <2>3
<1>12. PICK f \in Seq(FileByte) :
         /\ f = file' /\ Len(f) = IF y < z THEN y ELSE Len(g)
         /\ \A p \in 1..Len(f) : p \in 1..Len(g) /\ p - 1 \notin BytesOf(e) => f[p] = g[p]
  <2>1. file' = FileAfterRelease(g, e, z)
    BY <1>4, <1>11
  <2>2. /\ file' \in Seq(FileByte) /\ Len(file') = IF y < z THEN y ELSE Len(g)
        /\ \A p \in 1..Len(file') : p \in 1..Len(g) /\ p - 1 \notin BytesOf(e) => file'[p] = g[p]
    BY <1>8, <2>1, CutRight
  <2> QED BY <2>2
<1>13. Len(f) = y
  <2>1. CASE y < z
    BY <1>12, <2>1
  <2>2. CASE y = z
    <3>1. CASE o + n <= end /\ z = end
      <4>1. ~(o + w > end)
        BY <1>1, <3>1
      <4> QED BY <1>11, <1>12, <2>2, <3>1, <4>1
    <3>2. CASE o = end /\ z = end + n
      <4>1. z - 1 \in Nat /\ z - 1 \in BytesOf(e) /\ z - 1 < y
        BY <1>1, <1>3, <2>2, <3>2
      <4>2. Has(free', z - 1)
        BY <1>8, <4>1
      <4>3. (z - 1) + 1 < y
        BY <1>8, <4>2, SpacedBytes
      <4> QED BY <2>2, <4>3
    <3> QED BY <1>5, <3>1, <3>2
  <2> QED BY <1>8, <2>1, <2>2
<1>14. Contents(records, f)
  <2>1. \A j \in DOMAIN records : records[j] \in Extents
    BY <1>1 DEF Layout
  <2>2. ASSUME NEW b \in Nat, Used(records, b)
        PROVE  f[b + 1] = file[b + 1]
    <3>1. b < end /\ b < y /\ b \notin BytesOf(e) /\ ~(o <= b /\ b < o + n)
      BY <1>3, <1>9, <2>2
    <3>2. b + 1 \in 1..Len(g) /\ b + 1 \in 1..end
      BY <1>1, <1>11, <3>1
    <3>3. b + 1 \notin (o + 1)..(o + w)
      BY <1>1, <3>1
    <3>4. b + 1 \in 1..Len(f) /\ (b + 1) - 1 = b
      BY <1>13, <3>1
    <3> QED BY <1>11, <1>12, <3>1, <3>2, <3>3, <3>4
  <2> QED BY <1>1, <2>1, <2>2, ContentsKept
<1>15. BlobTypeOK'
  BY <1>1, <1>4, <1>8, <1>12 DEF BlobTypeOK, BlobInv, FileByte
<1> QED BY <1>4, <1>8, <1>10, <1>12, <1>13, <1>14, <1>15 DEF BlobInv

\* delete() frees the bytes of its record alone, and cuts off no other record.
LEMMA DeleteKeeps ==
  ASSUME BlobInv, NEW k \in Key, Delete(k)
  PROVE  BlobInv'
<1>1. /\ free \in Seq(Extents) /\ end \in Nat /\ Spaced(free, end) /\ file \in Seq(FileByte)
      /\ DOMAIN records \subseteq Key /\ Len(file) = end
      /\ Layout(records, free, end) /\ Contents(records, file)
  BY DEF BlobInv, BlobTypeOK, FileByte
<1>2. PICK e \in Extents : /\ e = records[k] /\ k \in DOMAIN records /\ Stop(e) <= end
                           /\ Release(free, e, end) /\ open' = open
                           /\ file' = FileAfterRelease(file, e, end)
  BY <1>1 DEF Delete, Layout
<1>3. /\ DOMAIN records' = DOMAIN records \ {k}
      /\ \A j \in DOMAIN records' : records'[j] = records[j]
  BY DEF Delete
<1>4. \A b \in BytesOf(e) : ~Has(free, b)
  <2> TAKE b \in BytesOf(e)
  <2>1. Used(records, b)
    BY <1>2 DEF Used
  <2>2. b \in 0..(end - 1)
    BY <1>1, <2>1, UsedBelow
  <2> QED BY <1>1, <2>1, <2>2 DEF Layout
<1>5. ReleasedTo(free, e, end, free', end')
  BY <1>1, <1>2, <1>4, ReleaseRight
<1>6. PICK y \in Nat : /\ y = end' /\ y <= end /\ free' \in Seq(Extents) /\ Spaced(free', y)
                       /\ \A b \in Nat : Has(free', b) <=> (Has(free, b) \/ b \in BytesOf(e)) /\ b < y
                       /\ \A b \in y..(end - 1) : Has(free, b) \/ b \in BytesOf(e)
  BY <1>5 DEF ReleasedTo
<1>7. ASSUME NEW b
      PROVE  Used(records', b) <=> Used(records, b) /\ b \notin BytesOf(e)
  <2>1. ASSUME Used(records', b) PROVE Used(records, b) /\ b \notin BytesOf(e)
    <3>1. PICK j \in DOMAIN records' : b \in BytesOf(records'[j])
      BY <2>1 DEF Used
    <3>2. j \in DOMAIN records /\ j # k /\ b \in BytesOf(records[j])
      BY <1>3, <3>1
    <3>3. BytesOf(records[j]) \cap BytesOf(records[k]) = {}
      BY <1>1, <1>2, <3>2 DEF Layout
    <3> QED BY <1>2, <3>2, <3>3 DEF Used
  <2>2. ASSUME Used(records, b), b \notin BytesOf(e) PROVE Used(records', b)
    <3>1. PICK j \in DOMAIN records : b \in BytesOf(records[j])
      BY <2>2 DEF Used
    <3>2. j \in DOMAIN records'
      BY <1>2, <1>3, <2>2, <3>1
    <3> QED BY <1>3, <3>1, <3>2 DEF Used
  <2> QED BY <2>1, <2>2
\* No other record's byte is cut off.
<1>8. ASSUME NEW b, Used(records', b)
      PROVE  b \in Nat /\ b < end /\ b < y /\ b \notin BytesOf(e)
  <2>1. Used(records, b) /\ b \notin BytesOf(e)
    BY <1>7, <1>8
  <2>2. b \in Nat /\ b < end
    BY <1>1, <2>1, UsedBelow
  <2>3. ~Has(free, b)
    <3>1. b \in 0..(end - 1)
      BY <1>1, <2>2
    <3> QED BY <1>1, <2>1, <3>1 DEF Layout
  <2>4. b \notin y..(end - 1)
    BY <1>6, <2>1, <2>3
  <2> QED BY <1>1, <2>1, <2>2, <2>4
<1>9. \A j \in DOMAIN records' : records'[j] \in Extents
  BY <1>1, <1>3 DEF Layout
<1>10. Layout(records', free', y)
  <2>1. ASSUME NEW j \in DOMAIN records'
        PROVE  Stop(records'[j]) <= y
    <3>2. PICK x \in Nat : x = Stop(records'[j]) - 1 /\ x \in BytesOf(records'[j])
      BY <1>9, LastByte
    <3>3. x < y
      BY <1>8, <3>2 DEF Used
    <3>4. Stop(records'[j]) \in Nat
      BY <1>9, ExtentFacts
    <3> QED BY <3>2, <3>3, <3>4
  <2>2. ASSUME NEW b \in 0..(y - 1)
        PROVE  Has(free', b) <=> ~Used(records', b)
    <3>1. y \in Nat /\ end \in Nat /\ y <= end
      BY <1>1, <1>6
    <3>2. b \in Nat /\ b < y /\ b \in 0..(end - 1)
      BY <3>1
    <3>3. Has(free', b) <=> Has(free, b) \/ b \in BytesOf(e)
      BY <1>6, <3>2
    <3>4. Has(free, b) <=> ~Used(records, b)
      BY <1>1, <3>2 DEF Layout
    <3> QED BY <1>7, <3>2, <3>3, <3>4
  <2>3. ASSUME NEW i \in DOMAIN records', NEW j \in DOMAIN records', i # j
        PROVE  BytesOf(records'[i]) \cap BytesOf(records'[j]) = {}
    BY <1>1, <1>3, <2>3 DEF Layout
  <2> QED BY <1>9, <2>1, <2>2, <2>3 DEF Layout
<1>11. PICK f \in Seq(FileByte) :
         /\ f = file' /\ Len(f) = y
         /\ \A p \in 1..y : p \in 1..end /\ p - 1 \notin BytesOf(e) => f[p] = file[p]
  <2>1. /\ file' \in Seq(FileByte) /\ Len(file') = IF y < end THEN y ELSE Len(file)
        /\ \A p \in 1..Len(file') : p \in 1..Len(file) /\ p - 1 \notin BytesOf(e) => file'[p] = file[p]
    BY <1>1, <1>2, <1>6, CutRight
  <2>2. Len(file') = y
    BY <1>1, <1>6, <2>1
  <2> QED BY <1>1, <2>1, <2>2
<1>12. Contents(records', f)
  <2>1. Contents(records', file)
    BY <1>1, <1>3 DEF Contents
  <2>2. ASSUME NEW b \in Nat, Used(records', b)
        PROVE  f[b + 1] = file[b + 1]
    <3>1. b < end /\ b < y /\ b \notin BytesOf(e)
      BY <1>8, <2>2
    <3>2. b + 1 \in 1..y /\ b + 1 \in 1..end /\ (b + 1) - 1 = b
      BY <1>1, <3>1
    <3> QED BY <1>11, <3>1, <3>2
  <2> QED BY <1>9, <2>1, <2>2, ContentsKept
<1>13. BlobTypeOK'
  BY <1>1, <1>2, <1>3, <1>6, <1>9, <1>11 DEF BlobTypeOK, BlobInv, FileByte
<1> QED BY <1>6, <1>10, <1>11, <1>12, <1>13 DEF BlobInv

\* A store of no record and an empty file.
LEMMA EmptyRight ==
  ASSUME NEW recs, DOMAIN recs = {}, NEW f
  PROVE  Spaced(<<>>, 0) /\ Layout(recs, <<>>, 0) /\ Contents(recs, f) /\ Len(<<>>) = 0
<1>1. Len(<<>>) = 0
  OBVIOUS
<1>2. 1..0 = {} /\ 0..(0 - 1) = {}
  OBVIOUS
<1>3. Spaced(<<>>, 0)
  BY <1>1, <1>2 DEF Spaced
<1>4. Layout(recs, <<>>, 0)
  BY <1>2 DEF Layout
<1>5. Contents(recs, f)
  BY DEF Contents
<1> QED BY <1>1, <1>3, <1>4, <1>5

\* A new store.
LEMMA InitInv == BlobInit => BlobInv
<1> SUFFICES ASSUME BlobInit PROVE BlobInv
  OBVIOUS
<1>1. /\ records = [k \in {} |-> <<>>] /\ free = <<>> /\ end = 0 /\ file = <<>> /\ open = TRUE
  BY DEF BlobInit
<1>2. DOMAIN records = {}
  BY <1>1
<1>3. free \in Seq(Extents)
  BY <1>1
<1>4. file \in Seq({Hole} \cup (Key \X Nat \X Nat))
  BY <1>1
<1>5. BlobTypeOK
  BY <1>1, <1>2, <1>3, <1>4 DEF BlobTypeOK
<1> QED BY <1>1, <1>2, <1>5, EmptyRight DEF BlobInv

\* A closed store.
LEMMA CloseKeeps == CloseBlobs => BlobInv'
<1> SUFFICES ASSUME CloseBlobs PROVE BlobInv'
  OBVIOUS
<1>1. /\ records' = [k \in {} |-> <<>>] /\ free' = <<>> /\ end' = 0 /\ file' = <<>> /\ open' = FALSE
  BY DEF CloseBlobs
<1>2. DOMAIN records' = {}
  BY <1>1
<1>3. free' \in Seq(Extents)
  BY <1>1
<1>4. file' \in Seq({Hole} \cup (Key \X Nat \X Nat))
  BY <1>1
<1>5. BlobTypeOK'
  BY <1>1, <1>2, <1>3, <1>4 DEF BlobTypeOK
<1>6. Spaced(free', end') /\ Layout(records', free', end') /\ Contents(records', file')
      /\ Len(file') = end'
  BY <1>1, <1>2, EmptyRight
<1> QED BY <1>5, <1>6 DEF BlobInv

\* The invariant, for any keys and lengths and however many operations.
LEMMA BlobInvHolds == BlobSpec => []BlobInv
<1>1. BlobInit => BlobInv
  BY InitInv
<1>2. BlobInv /\ [BlobNext]_blobVars => BlobInv'
  <2> SUFFICES ASSUME BlobInv, [BlobNext]_blobVars PROVE BlobInv'
    OBVIOUS
  <2>1. ASSUME NEW k \in Key, NEW n \in 1..MaxLength, Put(k, n) PROVE BlobInv'
    BY <2>1, PutKeeps
  <2>2. ASSUME NEW k \in Key, NEW n \in 1..MaxLength, PutFails(k, n) PROVE BlobInv'
    BY <2>2, PutFailsKeeps
  <2>3. ASSUME NEW k \in Key, Delete(k) PROVE BlobInv'
    BY <2>3, DeleteKeeps
  <2>4. CASE CloseBlobs
    BY <2>4, CloseKeeps
  <2>5. CASE UNCHANGED blobVars
    BY <2>5 DEF blobVars, BlobInv, BlobTypeOK, Spaced, Layout, Used, Has, Contents
  <2> QED BY <2>1, <2>2, <2>3, <2>4, <2>5 DEF BlobNext
<1> QED BY <1>1, <1>2, PTL DEF BlobSpec

-----------------------------------------------------------------------------
(* The theorems.                                                           *)

\* At most one extent of the free list has byte b.
LEMMA OneFree ==
  ASSUME NEW s \in Seq(Extents), NEW to \in Nat, Spaced(s, to), NEW b,
         NEW i \in 1..Len(s), NEW j \in 1..Len(s), b \in BytesOf(s[i]), b \in BytesOf(s[j])
  PROVE  i = j
<1>1. PICK x \in Extents, y \in Extents : x = s[i] /\ y = s[j]
  BY ElementOfSeq
<1>2. /\ b \in Nat /\ x.offset <= b /\ b < Stop(x) /\ y.offset <= b /\ b < Stop(y)
      /\ x.offset \in Nat /\ y.offset \in Nat /\ Stop(x) \in Nat /\ Stop(y) \in Nat
  BY <1>1, ExtentFacts
<1>3. ~(Stop(x) < y.offset) /\ ~(Stop(y) < x.offset)
  BY <1>2
<1>4. ~(i < j) /\ ~(j < i)
  BY <1>1, <1>3 DEF Spaced
<1> QED BY <1>4

\* Every byte has one owner: a record or a free extent, and just one of them.
LEMMA TiledByInv == BlobInv => FileTiled
<1> SUFFICES ASSUME BlobInv PROVE FileTiled
  OBVIOUS
<1>1. /\ BlobTypeOK /\ free \in Seq(Extents) /\ end \in Nat /\ Spaced(free, end)
      /\ Layout(records, free, end) /\ Len(file) = end
  BY DEF BlobInv, BlobTypeOK
<1>2. PICK m \in Nat : m = Len(free) /\ DOMAIN free = 1..m
  BY <1>1
<1>3. \A i \in 1..m : free[i] \in Extents /\ Stop(free[i]) \in Nat /\ Stop(free[i]) < end
  <2> TAKE i \in 1..m
  <2>1. free[i] \in Extents
    BY <1>1, <1>2, ElementOfSeq
  <2> QED BY <1>1, <1>2, <2>1, ExtentFacts DEF Spaced
<1>4. ASSUME NEW o \in 0..(end - 1)
      PROVE  Cardinality({k \in DOMAIN records : o \in BytesOf(records[k])})
               + Cardinality({i \in DOMAIN free : o \in BytesOf(free[i])}) = 1
  <2>1. PICK A, B : /\ A = {k \in DOMAIN records : o \in BytesOf(records[k])}
                    /\ B = {i \in DOMAIN free : o \in BytesOf(free[i])}
    OBVIOUS
  <2>2. Has(free, o) <=> ~Used(records, o)
    BY <1>1 DEF Layout
  <2>3. CASE Used(records, o)
    <3>1. B = {}
      BY <1>2, <2>1, <2>2, <2>3 DEF Has
    <3>2. PICK k \in DOMAIN records : o \in BytesOf(records[k])
      BY <2>3 DEF Used
    <3>3. \A j \in A : j = k
      BY <1>1, <2>1, <3>2 DEF Layout
    <3>4. A = {k}
      BY <2>1, <3>2, <3>3
    <3>5. Cardinality(A) = 1 /\ Cardinality(B) = 0
      BY <3>1, <3>4, FS_Singleton, FS_EmptySet
    <3> QED BY <2>1, <3>5
  <2>4. CASE ~Used(records, o)
    <3>1. A = {}
      BY <2>1, <2>4 DEF Used
    <3>2. PICK i \in 1..Len(free) : o \in BytesOf(free[i])
      BY <2>2, <2>4 DEF Has
    <3>3. \A j \in B : j = i
      BY <1>1, <1>2, <2>1, <3>2, OneFree
    <3>4. B = {i}
      BY <1>2, <2>1, <3>2, <3>3
    <3>5. Cardinality(B) = 1 /\ Cardinality(A) = 0
      BY <3>1, <3>4, FS_Singleton, FS_EmptySet
    <3> QED BY <2>1, <3>5
  <2> QED BY <2>3, <2>4
<1>5. \A k \in DOMAIN records : Stop(records[k]) <= end
  BY <1>1 DEF Layout
<1>6. \A i \in DOMAIN free : Stop(free[i]) <= end
  BY <1>1, <1>2, <1>3
<1>7. Tiling
  BY <1>1, <1>4, <1>5, <1>6 DEF Tiling
<1>8. FreeCanonical
  <2> SUFFICES ASSUME NEW i \in 1..m
               PROVE  Stop(free[i]) < IF i = m THEN end ELSE free[i+1].offset
    BY <1>2 DEF FreeCanonical
  <2>1. CASE i = m
    BY <1>3, <2>1
  <2>2. CASE i # m
    <3>1. PICK j \in 1..m : j = i + 1 /\ i < j
      BY <1>2, <2>2
    <3> QED BY <1>1, <1>2, <2>2, <3>1 DEF Spaced
  <2> QED BY <2>1, <2>2
<1> QED BY <1>1, <1>7, <1>8 DEF FileTiled

\* Records and free extents tile the temporary file, the free list stays
\* sorted and coalesced with no extent at the tail, and the file ends
\* where the store thinks it does, whatever is put, fails and is deleted.
THEOREM FileStaysTiled == BlobSpec => []FileTiled
  BY BlobInvHolds, TiledByInv, PTL

\* The blobs that are stored, by their lengths.
BlobsOf(recs) == [k \in DOMAIN recs |-> [i \in 1..recs[k].length |-> <<k, recs[k].length, i>>]]

\* What the store reads is what was put.
LEMMA ReadsRight ==
  ASSUME BlobInv
  PROVE  [k \in DOMAIN records |-> Stored(k)] = BlobsOf(records)
<1>1. ASSUME NEW k \in DOMAIN records
      PROVE  Stored(k) = [i \in 1..records[k].length |-> <<k, records[k].length, i>>]
  BY DEF Stored, BlobInv, Contents
<1> QED BY <1>1 DEF BlobsOf

\* Every step of the store is a step of the map.
LEMMA StepMaps ==
  ASSUME BlobInv, BlobInv', [BlobNext]_blobVars
  PROVE  [Blobs!Next]_<<[k \in DOMAIN records |-> Stored(k)], open>>
<1> DEFINE stored == [k \in DOMAIN records |-> Stored(k)]
<1>1. stored = BlobsOf(records)
  BY ReadsRight
<1>2. stored' = BlobsOf(records')
  <2>1. ASSUME NEW k \in DOMAIN records'
        PROVE  Stored(k)' = [i \in 1..records'[k].length |-> <<k, records'[k].length, i>>]
    BY DEF Stored, BlobInv, Contents
  <2> QED BY <2>1 DEF BlobsOf
<1>3. DOMAIN stored = DOMAIN records
  OBVIOUS
<1> HIDE DEF stored
<1>4. ASSUME NEW k \in Key, NEW n \in 1..MaxLength, Put(k, n)
      PROVE  Blobs!Next
  <2>1. PICK o : /\ open /\ k \notin DOMAIN records /\ open' = open
                 /\ records' = [j \in DOMAIN records \cup {k} |->
                                  IF j = k THEN Extent(o, n) ELSE records[j]]
    BY <1>4 DEF Put
  <2>2. records'[k].length = n
    BY <2>1 DEF Extent
  <2>3. BlobsOf(records') = [j \in DOMAIN records \cup {k} |->
           IF j = k THEN Blobs!Blob(k, n) ELSE BlobsOf(records)[j]]
    <3>1. DOMAIN records' = DOMAIN records \cup {k} /\ \A j \in DOMAIN records : records'[j] = records[j]
      BY <2>1
    <3> QED BY <2>2, <3>1 DEF BlobsOf, Blobs!Blob
  <2>4. Blobs!Put(k, n)
    BY <1>1, <1>2, <1>3, <2>1, <2>3 DEF Blobs!Put, stored
  <2> QED BY <2>4 DEF Blobs!Next
<1>5. ASSUME NEW k \in Key, NEW n \in 1..MaxLength, PutFails(k, n)
      PROVE  UNCHANGED <<stored, open>>
  BY <1>1, <1>2, <1>5 DEF PutFails
<1>6. ASSUME NEW k \in Key, Delete(k)
      PROVE  Blobs!Next
  <2>1. open /\ open' = open /\ records' = [j \in DOMAIN records \ {k} |-> records[j]]
    BY <1>6 DEF Delete
  <2>2. BlobsOf(records') = [j \in DOMAIN records \ {k} |-> BlobsOf(records)[j]]
    BY <2>1 DEF BlobsOf
  <2>3. Blobs!Delete(k)
    BY <1>1, <1>2, <1>3, <2>1, <2>2 DEF Blobs!Delete, stored
  <2> QED BY <2>3 DEF Blobs!Next
<1>7. ASSUME CloseBlobs PROVE Blobs!Next
  <2>1. open /\ open' = FALSE /\ records' = [k \in {} |-> <<>>]
    BY <1>7 DEF CloseBlobs
  <2>2. BlobsOf(records') = [k \in {} |-> <<>>]
    BY <2>1 DEF BlobsOf
  <2>3. Blobs!Close
    BY <1>2, <2>1, <2>2 DEF Blobs!Close, stored
  <2> QED BY <2>3 DEF Blobs!Next
<1>8. ASSUME UNCHANGED blobVars PROVE UNCHANGED <<stored, open>>
  BY <1>1, <1>2, <1>8 DEF blobVars
<1>9. Blobs!Next \/ UNCHANGED <<stored, open>>
  <2>1. CASE UNCHANGED blobVars
    BY <1>8, <2>1
  <2>2. CASE BlobNext
    BY <1>4, <1>5, <1>6, <1>7, <2>2 DEF BlobNext
  <2> QED BY <2>1, <2>2
<1> QED BY <1>9 DEF stored

\* A record that was put reads back as it was put until it is deleted: the
\* store of extents implements the map from keys to immutable blobs.
THEOREM BlobStoreImplementsMap == BlobSpec => ImplementsMap
<1>1. BlobInit => Blobs!Init
  BY DEF BlobInit, Blobs!Init
<1>2. BlobInv /\ BlobInv' /\ [BlobNext]_blobVars
        => [Blobs!Next]_<<[k \in DOMAIN records |-> Stored(k)], open>>
  BY StepMaps
<1> QED BY <1>1, <1>2, BlobInvHolds, PTL DEF BlobSpec, ImplementsMap, Blobs!Spec

-----------------------------------------------------------------------------
(* The prompt cache: its records, its order, its blobs and its budget.      *)

\* f is defined on 0..n by its first value, a, and a step, g.
Iterates(f, n, a, g) == f = [i \in 0..n |-> IF i = 0 THEN a ELSE g[<<i, f[i-1]>>]]

\* Such a function exists.
LEMMA Recursion ==
  ASSUME NEW n \in Nat, NEW S, NEW a \in S, NEW g \in [(1..n) \X S -> S]
  PROVE  \E f \in [0..n -> S] : Iterates(f, n, a, g)
<1> USE DEF Iterates
<1> DEFINE Defined(m, f) == Iterates(f, m, a, g)
           bad == {m \in 0..n : ~ \E f \in [0..m -> S] : Defined(m, f)}
<1>1. SUFFICES ASSUME bad # {} PROVE FALSE
  <2>1. n \in 0..n
    OBVIOUS
  <2>2. n \notin bad
    BY <1>1
  <2>3. \E f \in [0..n -> S] : Defined(n, f)
    BY <2>1, <2>2
  <2> QED BY <2>3
<1>2. PICK m : m \in bad /\ \A k \in bad : m <= k
  <2>1. bad \subseteq Nat
    OBVIOUS
  <2> QED BY <1>1, <2>1, LeastNumber
<1>3. m \in 0..n /\ ~ \E f \in [0..m -> S] : Defined(m, f)
  BY <1>2
<1>4. CASE m = 0
  <2>1. Defined(0, [i \in 0..0 |-> a]) /\ [i \in 0..0 |-> a] \in [0..0 -> S]
    OBVIOUS
  <2> QED BY <1>3, <1>4, <2>1
<1>5. CASE m # 0
  <2>1. m - 1 \in 0..n /\ m - 1 \notin bad
    BY <1>2, <1>3, <1>5
  <2>2. PICK f \in [0..(m-1) -> S] : Defined(m-1, f)
    BY <2>1
  <2>3. g[<<m, f[m-1]>>] \in S
    BY <1>3, <1>5, <2>2
  <2> DEFINE h == [i \in 0..m |-> IF i = m THEN g[<<m, f[m-1]>>] ELSE f[i]]
  <2>4. h \in [0..m -> S]
    BY <1>3, <1>5, <2>2, <2>3
  <2>5. \A i \in 0..m : h[i] = IF i = 0 THEN a ELSE g[<<i, h[i-1]>>]
    <3>1. TAKE i \in 0..m
    <3>2. CASE i = m
      <4>1. h[i-1] = f[m-1]
        BY <3>2, <1>3, <1>5
      <4> QED BY <3>2, <4>1, <1>5
    <3>3. CASE i # m
      <4>1. i \in 0..(m-1)
        BY <3>3, <1>3
      <4>2. f[i] = IF i = 0 THEN a ELSE g[<<i, f[i-1]>>]
        BY <4>1, <2>2
      <4>3. h[i] = f[i] /\ (i # 0 => h[i-1] = f[i-1])
        BY <3>3, <4>1, <1>3
      <4> QED BY <4>2, <4>3
    <3> QED BY <3>2, <3>3
  <2>6. Defined(m, h)
    <3> HIDE DEF h
    <3> QED BY <2>4, <2>5
  <2> QED BY <2>4, <2>6, <1>3
<1> QED BY <1>4, <1>5

\* A list's elements.
LEMMA Elements ==
  ASSUME NEW T, NEW s \in Seq(T)
  PROVE  /\ ToSet(s) = {s[i] : i \in 1..Len(s)} /\ ToSet(s) \subseteq T
         /\ IsFiniteSet(ToSet(s)) /\ DOMAIN s = 1..Len(s) /\ Len(s) \in Nat
         /\ s \in Seq(ToSet(s))
<1>1. DOMAIN s = 1..Len(s) /\ Len(s) \in Nat /\ \A i \in 1..Len(s) : s[i] \in T
  OBVIOUS
<1>2. ToSet(s) = {s[i] : i \in 1..Len(s)} /\ ToSet(s) \subseteq T
  BY <1>1 DEF ToSet
<1>3. [i \in 1..Len(s) |-> s[i]] \in Surjection(1..Len(s), ToSet(s))
  BY <1>2 DEF Surjection
<1>4. IsFiniteSet(1..Len(s))
  BY <1>1, FS_Interval
<1>5. IsFiniteSet(ToSet(s))
  BY <1>3, <1>4, FS_Surjection
<1>6. s \in [1..Len(s) -> ToSet(s)]
  BY <1>1, <1>2
<1>7. s \in Seq(ToSet(s))
  BY <1>1, <1>6, SeqDef
<1> QED BY <1>1, <1>2, <1>5, <1>7

\* The elements of two lists joined.
LEMMA Joined ==
  ASSUME NEW T, NEW s \in Seq(T), NEW t \in Seq(T)
  PROVE  /\ s \o t \in Seq(T) /\ ToSet(s \o t) = ToSet(s) \cup ToSet(t)
         /\ Len(s \o t) = Len(s) + Len(t)
         /\ IsInjective(s) /\ IsInjective(t) /\ ToSet(s) \cap ToSet(t) = {} => IsInjective(s \o t)
<1>1. PICK u : u = s \o t
  OBVIOUS
<1>2. /\ u \in Seq(T) /\ Len(u) = Len(s) + Len(t)
      /\ \A i \in 1..(Len(s) + Len(t)) : u[i] = IF i <= Len(s) THEN s[i] ELSE t[i - Len(s)]
  BY <1>1, ConcatProperties
<1>3. Len(s) \in Nat /\ Len(t) \in Nat /\ DOMAIN s = 1..Len(s) /\ DOMAIN t = 1..Len(t)
      /\ DOMAIN u = 1..Len(u)
  BY <1>2
<1>4. /\ ToSet(s) = {s[i] : i \in 1..Len(s)} /\ ToSet(t) = {t[i] : i \in 1..Len(t)}
      /\ ToSet(u) = {u[i] : i \in 1..Len(u)}
  BY <1>2, Elements
<1>5. ToSet(u) \subseteq ToSet(s) \cup ToSet(t)
  <2>1. SUFFICES ASSUME NEW i \in 1..Len(u) PROVE u[i] \in ToSet(s) \cup ToSet(t)
    BY <1>4
  <2>2. CASE i <= Len(s)
    BY <2>2, <1>2, <1>3, <1>4
  <2>3. CASE ~ (i <= Len(s))
    <3>1. i - Len(s) \in 1..Len(t) /\ u[i] = t[i - Len(s)]
      BY <2>3, <1>2, <1>3
    <3> QED BY <3>1, <1>4
  <2> QED BY <2>2, <2>3
<1>6. ToSet(s) \subseteq ToSet(u)
  <2>1. \A i \in 1..Len(s) : i \in 1..Len(u) /\ u[i] = s[i]
    BY <1>2, <1>3
  <2> QED BY <2>1, <1>4
<1>7. ToSet(t) \subseteq ToSet(u)
  <2>1. ASSUME NEW i \in 1..Len(t) PROVE i + Len(s) \in 1..Len(u) /\ u[i + Len(s)] = t[i]
    <3>1. PICK k : k = i + Len(s)
      OBVIOUS
    <3>2. k \in 1..Len(u) /\ ~ (k <= Len(s)) /\ k - Len(s) = i
      BY <3>1, <1>2, <1>3
    <3>3. u[k] = t[k - Len(s)]
      BY <3>2, <1>2
    <3> QED BY <3>1, <3>2, <3>3
  <2> QED BY <2>1, <1>4
<1>8. ASSUME IsInjective(s), IsInjective(t), ToSet(s) \cap ToSet(t) = {}
      PROVE  IsInjective(u)
  <2>1. SUFFICES ASSUME NEW i \in 1..Len(u), NEW j \in 1..Len(u), u[i] = u[j]
                 PROVE  i = j
    BY <1>3 DEF IsInjective
  <2>2. \A k \in 1..Len(u) :
          \/ k \in 1..Len(s) /\ u[k] = s[k] /\ u[k] \in ToSet(s)
          \/ k - Len(s) \in 1..Len(t) /\ u[k] = t[k - Len(s)] /\ u[k] \in ToSet(t)
    <3>1. TAKE k \in 1..Len(u)
    <3>2. CASE k <= Len(s)
      BY <3>2, <1>2, <1>3, <1>4
    <3>3. CASE ~ (k <= Len(s))
      <4>1. k - Len(s) \in 1..Len(t) /\ u[k] = t[k - Len(s)]
        BY <3>3, <1>2, <1>3
      <4> QED BY <4>1, <1>4
    <3> QED BY <3>2, <3>3
  <2>3. CASE i \in 1..Len(s) /\ u[i] = s[i] /\ u[i] \in ToSet(s)
    <3>1. j \in 1..Len(s) /\ u[j] = s[j]
      BY <2>1, <2>2, <2>3, <1>8
    <3> QED BY <2>1, <2>3, <3>1, <1>3, <1>8 DEF IsInjective
  <2>4. CASE i - Len(s) \in 1..Len(t) /\ u[i] = t[i - Len(s)] /\ u[i] \in ToSet(t)
    <3>1. j - Len(s) \in 1..Len(t) /\ u[j] = t[j - Len(s)]
      BY <2>1, <2>2, <2>4, <1>8
    <3>2. t[i - Len(s)] = t[j - Len(s)]
      BY <2>1, <2>4, <3>1
    <3>3. i - Len(s) = j - Len(s)
      BY <2>4, <3>1, <3>2, <1>3, <1>8 DEF IsInjective
    <3> QED BY <3>3, <1>3
  <2> QED BY <2>2, <2>3, <2>4
<1> QED BY <1>1, <1>2, <1>5, <1>6, <1>7, <1>8

\* One more at the end of a list.
LEMMA OneMore ==
  ASSUME NEW T, NEW s \in Seq(T), NEW x \in T
  PROVE  /\ Append(s, x) \in Seq(T) /\ ToSet(Append(s, x)) = ToSet(s) \cup {x}
         /\ IsInjective(s) /\ x \notin ToSet(s) => IsInjective(Append(s, x))
<1>1. PICK t : t = <<x>>
  OBVIOUS
<1>2. t \in Seq(T) /\ Append(s, x) = s \o t
  BY <1>1, AppendIsConcat
<1>3. Len(t) = 1 /\ t[1] = x /\ DOMAIN t = 1..1
  BY <1>1
<1>4. ToSet(t) = {x}
  BY <1>3 DEF ToSet
<1>5. IsInjective(t)
  BY <1>3 DEF IsInjective
<1>6. PICK u : u = s \o t
  OBVIOUS
<1>7. /\ u \in Seq(T) /\ ToSet(u) = ToSet(s) \cup ToSet(t)
      /\ IsInjective(s) /\ IsInjective(t) /\ ToSet(s) \cap ToSet(t) = {} => IsInjective(u)
  BY <1>2, <1>6, Joined
<1> QED BY <1>2, <1>4, <1>5, <1>6, <1>7

\* f goes through s from its first element, and keeps what is in S.
Sifts(f, s, S) ==
  /\ f[0] = <<>>
  /\ \A i \in 1..Len(s) : f[i] = IF s[i] \in S THEN Append(f[i-1], s[i]) ELSE f[i-1]

\* Only does so.
LEMMA OnlyGoes ==
  ASSUME NEW T, NEW s \in Seq(T), NEW S
  PROVE  \E f \in [0..Len(s) -> Seq(T)] : Only(s, S) = f[Len(s)] /\ Sifts(f, s, S)
<1> DEFINE g == [x \in (1..Len(s)) \X Seq(T) |->
                   IF s[x[1]] \in S THEN Append(x[2], s[x[1]]) ELSE x[2]]
           Is(f) == f = [i \in 0..Len(s) |-> IF i = 0 THEN <<>>
                                             ELSE IF s[i] \in S THEN Append(f[i-1], s[i])
                                             ELSE f[i-1]]
<1>1. Len(s) \in Nat /\ <<>> \in Seq(T)
  OBVIOUS
<1>2. g \in [(1..Len(s)) \X Seq(T) -> Seq(T)]
  <2>1. ASSUME NEW i \in 1..Len(s), NEW t \in Seq(T)
        PROVE  (IF s[i] \in S THEN Append(t, s[i]) ELSE t) \in Seq(T)
    BY <2>1, AppendProperties
  <2> QED BY <2>1
<1>3. \A i \in 1..Len(s) : \A t \in Seq(T) :
        g[<<i, t>>] = IF s[i] \in S THEN Append(t, s[i]) ELSE t
  OBVIOUS
<1>4. PICK f \in [0..Len(s) -> Seq(T)] :
             f = [i \in 0..Len(s) |-> IF i = 0 THEN <<>> ELSE g[<<i, f[i-1]>>]]
  <2>1. PICK n, Q, a : n = Len(s) /\ Q = Seq(T) /\ a = <<>>
    OBVIOUS
  <2>2. n \in Nat /\ a \in Q /\ g \in [(1..n) \X Q -> Q]
    BY <1>1, <1>2, <2>1
  <2> HIDE DEF g
  <2>3. \E f \in [0..n -> Q] : Iterates(f, n, a, g)
    BY <2>2, Recursion
  <2> QED BY <2>1, <2>3 DEF Iterates
<1> HIDE DEF g
<1>5. \A i \in 1..Len(s) : f[i] = IF s[i] \in S THEN Append(f[i-1], s[i]) ELSE f[i-1]
  <2>1. TAKE i \in 1..Len(s)
  <2>2. i \in 0..Len(s) /\ i # 0 /\ i-1 \in 0..Len(s)
    BY <1>1
  <2>3. f[i] = g[<<i, f[i-1]>>] /\ f[i-1] \in Seq(T)
    BY <2>2, <1>4
  <2> QED BY <2>3, <1>3
<1>6. f[0] = <<>>
  BY <1>1, <1>4
<1>7. Is(f)
  <2>1. ASSUME NEW i \in 0..Len(s)
        PROVE  f[i] = IF i = 0 THEN <<>>
                      ELSE IF s[i] \in S THEN Append(f[i-1], s[i]) ELSE f[i-1]
    <3>1. CASE i = 0
      BY <3>1, <1>6
    <3>2. CASE i # 0
      <4>1. i \in 1..Len(s)
        BY <3>2, <1>1
      <4> QED BY <3>2, <4>1, <1>5
    <3> QED BY <3>1, <3>2
  <2>2. f = [i \in 0..Len(s) |-> f[i]]
    BY <1>4
  <2> QED BY <2>1, <2>2
<1>8. PICK h : Is(h) /\ Only(s, S) = h[Len(s)]
  <2>1. Only(s, S) = (CHOOSE h : Is(h))[Len(s)]
    BY DEF Only
  <2>2. Is(CHOOSE h : Is(h))
    <3> HIDE DEF Is
    <3> QED BY <1>7
  <2> HIDE DEF Is
  <2> QED BY <2>1, <2>2
<1>9. \A i \in 0..Len(s) : h[i] = f[i]
  <2> DEFINE bad == {i \in 0..Len(s) : h[i] # f[i]}
  <2>1. SUFFICES ASSUME bad # {} PROVE FALSE
    OBVIOUS
  <2>2. PICK m : m \in bad /\ \A k \in bad : m <= k
    <3>1. bad \subseteq Nat
      OBVIOUS
    <3> QED BY <2>1, <3>1, LeastNumber
  <2>3. m \in 0..Len(s) /\ h[m] # f[m]
    BY <2>2
  <2>4. h[m] = IF m = 0 THEN <<>> ELSE IF s[m] \in S THEN Append(h[m-1], s[m]) ELSE h[m-1]
    BY <2>3, <1>8
  <2>5. m # 0
    BY <2>3, <2>4, <1>6
  <2>6. m - 1 \in 0..Len(s) /\ m - 1 \notin bad /\ m \in 1..Len(s)
    BY <2>2, <2>3, <2>5
  <2>7. h[m-1] = f[m-1]
    BY <2>6
  <2>8. f[m] = IF s[m] \in S THEN Append(f[m-1], s[m]) ELSE f[m-1]
    BY <2>6, <1>5
  <2>9. h[m] = IF s[m] \in S THEN Append(f[m-1], s[m]) ELSE f[m-1]
    BY <2>4, <2>5, <2>7
  <2> QED BY <2>3, <2>8, <2>9
<1>10. Only(s, S) = f[Len(s)]
  BY <1>1, <1>8, <1>9
<1> HIDE DEF Is
<1>11. Sifts(f, s, S)
  BY <1>5, <1>6 DEF Sifts
<1> QED BY <1>4, <1>10, <1>11

\* Only gives what of the list is in the set, each as often as the list has it.
LEMMA OnlyRight ==
  ASSUME NEW T, NEW s \in Seq(T), NEW S
  PROVE  /\ Only(s, S) \in Seq(T) /\ ToSet(Only(s, S)) = ToSet(s) \cap S
         /\ IsInjective(s) => IsInjective(Only(s, S))
<1>0. PICK f \in [0..Len(s) -> Seq(T)] : Only(s, S) = f[Len(s)] /\ Sifts(f, s, S)
  BY OnlyGoes
<1>1. /\ f \in [0..Len(s) -> Seq(T)] /\ Only(s, S) = f[Len(s)] /\ f[0] = <<>>
      /\ \A i \in 1..Len(s) : f[i] = IF s[i] \in S THEN Append(f[i-1], s[i]) ELSE f[i-1]
  BY <1>0 DEF Sifts
<1>2. Len(s) \in Nat /\ \A i \in 1..Len(s) : s[i] \in T
  OBVIOUS
<1> DEFINE Right(i) == /\ ToSet(f[i]) = {s[j] : j \in 1..i} \cap S
                       /\ IsInjective(s) => IsInjective(f[i])
           bad == {i \in 0..Len(s) : ~Right(i)}
<1>3. bad = {}
  <2>1. SUFFICES ASSUME bad # {} PROVE FALSE
    OBVIOUS
  <2>2. PICK m : m \in bad /\ \A k \in bad : m <= k
    <3>1. bad \subseteq Nat
      OBVIOUS
    <3> QED BY <2>1, <3>1, LeastNumber
  <2>3. m \in 0..Len(s) /\ ~Right(m)
    BY <2>2
  <2>4. m # 0
    <3>1. DOMAIN <<>> = {} /\ ToSet(<<>>) = {} /\ IsInjective(<<>>)
      BY DEF ToSet, IsInjective
    <3>2. {s[j] : j \in 1..0} = {}
      OBVIOUS
    <3>3. Right(0)
      BY <3>1, <3>2, <1>1
    <3> QED BY <3>3, <2>3
  <2>5. m - 1 \in 0..Len(s) /\ m - 1 \notin bad /\ m \in 1..Len(s)
    BY <2>2, <2>3, <2>4
  <2>6. Right(m-1)
    BY <2>5
  <2>7. {s[j] : j \in 1..m} = {s[j] : j \in 1..(m-1)} \cup {s[m]}
    BY <2>5
  <2>8. f[m-1] \in Seq(T) /\ s[m] \in T
    BY <2>5, <1>2
  <2>9. CASE s[m] \in S
    <3>1. f[m] = Append(f[m-1], s[m])
      BY <2>5, <2>9, <1>1
    <3>2. ToSet(f[m]) = ToSet(f[m-1]) \cup {s[m]}
      BY <3>1, <2>8, OneMore
    <3>3. ToSet(f[m]) = {s[j] : j \in 1..m} \cap S
      <4>1. ToSet(f[m-1]) = {s[j] : j \in 1..(m-1)} \cap S
        BY <2>6
      <4> HIDE DEF Right
      <4> QED BY <3>2, <4>1, <2>7, <2>9
    <3>4. ASSUME IsInjective(s) PROVE IsInjective(f[m])
      <4>1. \A j \in 1..(m-1) : j \in DOMAIN s /\ m \in DOMAIN s /\ j # m
        BY <2>5
      <4>2. \A j \in 1..(m-1) : s[j] # s[m]
        BY <4>1, <3>4 DEF IsInjective
      <4>3. s[m] \notin ToSet(f[m-1])
        BY <4>2, <2>6
      <4>4. IsInjective(f[m-1])
        BY <2>6, <3>4
      <4> QED BY <3>1, <4>3, <4>4, <2>8, OneMore
    <3> QED BY <3>3, <3>4, <2>3
  <2>10. CASE s[m] \notin S
    <3>1. f[m] = f[m-1]
      BY <2>5, <2>10, <1>1
    <3>2. Right(m)
      BY <3>1, <2>6, <2>7, <2>10
    <3> QED BY <3>2, <2>3
  <2> QED BY <2>9, <2>10
<1>4. Right(Len(s))
  <2>1. Len(s) \in 0..Len(s)
    BY <1>2
  <2>2. Len(s) \notin bad
    <3> HIDE DEF bad
    <3> QED BY <1>3
  <2> QED BY <2>1, <2>2
<1>5. ToSet(s) = {s[j] : j \in 1..Len(s)}
  BY Elements
<1>6. f[Len(s)] \in Seq(T)
  BY <1>2
<1> QED BY <1>1, <1>4, <1>5, <1>6

\* The first so many of a list.
LEMMA FirstOf ==
  ASSUME NEW T, NEW s \in Seq(T), NEW n \in 0..Len(s)
  PROVE  /\ SubSeq(s, 1, n) \in Seq(T) /\ Len(SubSeq(s, 1, n)) = n
         /\ ToSet(SubSeq(s, 1, n)) = {s[i] : i \in 1..n}
         /\ \A i \in 1..n : SubSeq(s, 1, n)[i] = s[i]
         /\ IsInjective(s) => IsInjective(SubSeq(s, 1, n))
<1>1. PICK u : u = SubSeq(s, 1, n)
  OBVIOUS
<1>2. \A i \in 1..n : i \in 1..Len(s) /\ s[i] \in T
  OBVIOUS
<1>3. u \in Seq(T) /\ Len(u) = n /\ \A i \in 1..n : u[i] = s[i]
  BY <1>1, <1>2
<1>4. ToSet(u) = {u[i] : i \in 1..n}
  BY <1>3, Elements
<1>5. ToSet(u) = {s[i] : i \in 1..n}
  BY <1>3, <1>4
<1>6. IsInjective(s) => IsInjective(u)
  <2>1. DOMAIN u = 1..n /\ \A i \in 1..n : i \in DOMAIN s
    BY <1>2, <1>3
  <2> QED BY <2>1, <1>3 DEF IsInjective
<1> QED BY <1>1, <1>3, <1>5, <1>6

\* The bytes of the records in S.
SumOf(S) == MapThenSumSet(LAMBDA k : Size[k[2]], S)

\* A member of S, the one a sum takes next.
AnyOf(S) == CHOOSE x \in S : TRUE

\* f is the function by which SumOf sums the subsets of S.
Summing(f, S) ==
  f = [s \in SUBSET S |-> IF s = {} THEN 0 ELSE Size[AnyOf(s)[2]] + f[s \ {AnyOf(s)}]]

\* A key of a record is a chunk key and a kind, and the kind has a size.
LEMMA KeyFacts ==
  ASSUME NEW k \in RecordKeys
  PROVE  /\ k[2] \in AllKinds /\ Size[k[2]] \in Nat \ {0}
         /\ \E p \in Prompt : \E n \in ChunkEnds(p) : k[1] = ChunkKey[p][n]
         /\ k = <<k[1], k[2]>>
<1>0. PICK p \in Prompt : \E n \in ChunkEnds(p) : \E kind \in AllKinds : k = <<ChunkKey[p][n], kind>>
  BY DEF RecordKeys
<1>1. PICK n \in ChunkEnds(p), kind \in AllKinds : k = <<ChunkKey[p][n], kind>>
  BY <1>0
<1>2. k[2] = kind /\ k[1] = ChunkKey[p][n]
  BY <1>1
<1> QED BY <1>1, <1>2, StoreAssumption

\* A member is a member, and without it the set has one less.
LEMMA AnyOfRight ==
  ASSUME NEW S, S # {}, IsFiniteSet(S)
  PROVE  /\ AnyOf(S) \in S /\ IsFiniteSet(S \ {AnyOf(S)})
         /\ Cardinality(S) \in Nat /\ Cardinality(S) # 0
         /\ Cardinality(S \ {AnyOf(S)}) = Cardinality(S) - 1
<1>1. AnyOf(S) \in S
  BY DEF AnyOf
<1> QED BY <1>1, FS_RemoveElement, FS_CardinalityType, FS_EmptySet

\* Any finite set of records can be summed.
LEMMA SumExists ==
  ASSUME NEW S \in SUBSET RecordKeys, IsFiniteSet(S)
  PROVE  \E f \in [SUBSET S -> Nat] : Summing(f, S)
<1> DEFINE Small(n) == {s \in SUBSET S : Cardinality(s) <= n}
           Right(f, n) == f = [s \in Small(n) |-> IF s = {} THEN 0
                                                  ELSE Size[AnyOf(s)[2]] + f[s \ {AnyOf(s)}]]
           bad == {n \in Nat : ~ \E f \in [Small(n) -> Nat] : Right(f, n)}
<1>1. \A s \in SUBSET S : IsFiniteSet(s) /\ Cardinality(s) \in Nat /\ Cardinality(s) <= Cardinality(S)
  BY FS_Subset, FS_CardinalityType
<1>2. \A s \in SUBSET S : s # {} =>
        /\ AnyOf(s) \in s /\ s \ {AnyOf(s)} \in SUBSET S
        /\ Cardinality(s \ {AnyOf(s)}) = Cardinality(s) - 1
        /\ Size[AnyOf(s)[2]] \in Nat
  <2>1. TAKE s \in SUBSET S
  <2>2. HAVE s # {}
  <2>3. /\ AnyOf(s) \in s /\ s \ {AnyOf(s)} \in SUBSET S
        /\ Cardinality(s \ {AnyOf(s)}) = Cardinality(s) - 1
    BY <2>2, <1>1, AnyOfRight
  <2>4. AnyOf(s) \in RecordKeys
    BY <2>3
  <2> QED BY <2>3, <2>4, KeyFacts
<1>3. bad = {}
  <2>1. SUFFICES ASSUME bad # {} PROVE FALSE
    OBVIOUS
  <2>2. PICK n : n \in bad /\ \A m \in bad : n <= m
    <3>1. bad \subseteq Nat
      OBVIOUS
    <3> HIDE DEF bad
    <3> QED BY <2>1, <3>1, LeastNumber
  <2>3. n \in Nat /\ ~ \E f \in [Small(n) -> Nat] : Right(f, n)
    BY <2>2
  <2>4. CASE n = 0
    <3>1. \A s \in Small(n) : s = {}
      BY <2>4, <1>1, FS_EmptySet
    <3>2. PICK f : f = [s \in Small(n) |-> 0]
      OBVIOUS
    <3>3. f \in [Small(n) -> Nat] /\ Right(f, n)
      BY <3>1, <3>2
    <3> QED BY <3>3, <2>3
  <2>5. CASE n # 0
    <3>1. n - 1 \in Nat /\ n - 1 \notin bad
      <4>1. n - 1 \in Nat /\ n - 1 < n
        BY <2>3, <2>5
      <4> HIDE DEF bad
      <4> QED BY <4>1, <2>2, <2>3
    <3>2. PICK f \in [Small(n-1) -> Nat] : Right(f, n-1)
      BY <3>1
    <3>3. \A s \in Small(n) : s # {} => s \ {AnyOf(s)} \in Small(n-1)
      BY <1>1, <1>2, <2>3
    <3> DEFINE g == [s \in Small(n) |-> IF s = {} THEN 0 ELSE Size[AnyOf(s)[2]] + f[s \ {AnyOf(s)}]]
    <3>4. g \in [Small(n) -> Nat]
      <4>1. ASSUME NEW s \in Small(n)
            PROVE  (IF s = {} THEN 0 ELSE Size[AnyOf(s)[2]] + f[s \ {AnyOf(s)}]) \in Nat
        <5>1. CASE s = {}
          BY <5>1
        <5>2. CASE s # {}
          <6>1. f[s \ {AnyOf(s)}] \in Nat
            BY <5>2, <3>2, <3>3
          <6>2. Size[AnyOf(s)[2]] \in Nat
            BY <5>2, <1>2
          <6> QED BY <5>2, <6>1, <6>2
        <5> QED BY <5>1, <5>2
      <4> HIDE DEF Small
      <4> QED BY <4>1
    <3>5. \A s \in Small(n-1) : s \in Small(n) /\ g[s] = f[s]
      <4>1. TAKE s \in Small(n-1)
      <4>2. s \in Small(n)
        BY <1>1, <3>1, <2>3
      <4>3. f[s] = IF s = {} THEN 0 ELSE Size[AnyOf(s)[2]] + f[s \ {AnyOf(s)}]
        BY <3>2
      <4>4. g[s] = IF s = {} THEN 0 ELSE Size[AnyOf(s)[2]] + f[s \ {AnyOf(s)}]
        BY <4>2
      <4> QED BY <4>2, <4>3, <4>4
    <3>6. Right(g, n)
      <4>1. ASSUME NEW s \in Small(n)
            PROVE  g[s] = IF s = {} THEN 0 ELSE Size[AnyOf(s)[2]] + g[s \ {AnyOf(s)}]
        <5>1. CASE s = {}
          BY <5>1
        <5>2. CASE s # {}
          <6>1. g[s \ {AnyOf(s)}] = f[s \ {AnyOf(s)}]
            BY <5>2, <3>3, <3>5
          <6> QED BY <5>2, <6>1
        <5> QED BY <5>1, <5>2
      <4>2. g = [s \in Small(n) |-> g[s]]
        OBVIOUS
      <4> HIDE DEF g, Small
      <4> QED BY <4>1, <4>2
    <3> QED BY <3>4, <3>6, <2>3
  <2> QED BY <2>4, <2>5
<1>4. Cardinality(S) \in Nat /\ Small(Cardinality(S)) = SUBSET S
  BY <1>1, FS_CardinalityType
<1>5. PICK n : n = Cardinality(S)
  OBVIOUS
<1>6. n \in Nat /\ Small(n) = SUBSET S
  BY <1>4, <1>5
<1>7. PICK f \in [Small(n) -> Nat] : Right(f, n)
  BY <1>3, <1>6
<1> QED BY <1>6, <1>7 DEF Summing

\* A summing function is known by its values.
LEMMA SummingMeans ==
  ASSUME NEW S, NEW f, Summing(f, S)
  PROVE  /\ f[{}] = 0
         /\ \A s \in SUBSET S : s # {} => f[s] = Size[AnyOf(s)[2]] + f[s \ {AnyOf(s)}]
BY DEF Summing

\* Two such functions agree where both are defined.
LEMMA SumsAgree ==
  ASSUME NEW S, NEW Q, IsFiniteSet(S), NEW f, NEW g, Summing(f, S), Summing(g, Q)
  PROVE  \A s \in SUBSET S : s \in SUBSET Q => f[s] = g[s]
<1> DEFINE bad == {n \in Nat : \E s \in SUBSET S : s \in SUBSET Q /\ Cardinality(s) = n /\ f[s] # g[s]}
<1>1. \A s \in SUBSET S : IsFiniteSet(s) /\ Cardinality(s) \in Nat
  BY FS_Subset, FS_CardinalityType
<1>2. SUFFICES bad = {}
  BY <1>1
<1>3. SUFFICES ASSUME bad # {} PROVE FALSE
  OBVIOUS
<1>4. PICK n : n \in bad /\ \A m \in bad : n <= m
  <2>1. bad \subseteq Nat
    OBVIOUS
  <2> HIDE DEF bad
  <2> QED BY <1>3, <2>1, LeastNumber
<1>5. PICK s \in SUBSET S : s \in SUBSET Q /\ Cardinality(s) = n /\ f[s] # g[s] /\ n \in Nat
  BY <1>4
<1>6. s # {}
  BY <1>5, SummingMeans
<1>7. AnyOf(s) \in s /\ n # 0 /\ Cardinality(s \ {AnyOf(s)}) = n - 1
  BY <1>1, <1>5, <1>6, AnyOfRight
<1>8. PICK t : t = s \ {AnyOf(s)}
  OBVIOUS
<1>9. t \in SUBSET S /\ t \in SUBSET Q /\ Cardinality(t) = n - 1
  BY <1>5, <1>7, <1>8
<1>10. n - 1 \in Nat /\ n - 1 \notin bad
  BY <1>4, <1>5, <1>7
<1>11. f[t] = g[t]
  BY <1>9, <1>10
<1>12. f[s] = Size[AnyOf(s)[2]] + f[t] /\ g[s] = Size[AnyOf(s)[2]] + g[t]
  <2>1. \A x \in SUBSET S : x # {} => f[x] = Size[AnyOf(x)[2]] + f[x \ {AnyOf(x)}]
    BY SummingMeans
  <2>2. \A x \in SUBSET Q : x # {} => g[x] = Size[AnyOf(x)[2]] + g[x \ {AnyOf(x)}]
    BY SummingMeans
  <2> QED BY <2>1, <2>2, <1>5, <1>6, <1>8
<1> QED BY <1>5, <1>11, <1>12

\* SumOf is what a summing function gives.
LEMMA SumOfIs ==
  ASSUME NEW S \in SUBSET RecordKeys, IsFiniteSet(S)
  PROVE  \E f \in [SUBSET S -> Nat] : Summing(f, S) /\ SumOf(S) = f[S]
<1>1. PICK f \in [SUBSET S -> Nat] : Summing(f, S)
  BY SumExists
<1>2. PICK h : Summing(h, S) /\ SumOf(S) = h[S]
  <2>1. SumOf(S) = (CHOOSE h : Summing(h, S))[S]
    BY DEF SumOf, MapThenSumSet, MapThenFoldSet, Summing, AnyOf
  <2>2. Summing(CHOOSE h : Summing(h, S), S)
    BY <1>1
  <2> QED BY <2>1, <2>2
<1>3. S \in SUBSET S
  OBVIOUS
<1>4. h[S] = f[S]
  BY <1>1, <1>2, <1>3, SumsAgree
<1> QED BY <1>1, <1>2, <1>4

\* The sum of a set, by the member it takes first.
LEMMA SumFirst ==
  ASSUME NEW S \in SUBSET RecordKeys, IsFiniteSet(S)
  PROVE  /\ SumOf(S) \in Nat
         /\ S = {} => SumOf(S) = 0
         /\ S # {} => SumOf(S) = Size[AnyOf(S)[2]] + SumOf(S \ {AnyOf(S)})
<1>1. PICK f \in [SUBSET S -> Nat] : Summing(f, S) /\ SumOf(S) = f[S]
  BY SumOfIs
<1>2. SumOf(S) \in Nat
  BY <1>1
<1>3. S = {} => SumOf(S) = 0
  BY <1>1, SummingMeans
<1>4. ASSUME S # {} PROVE SumOf(S) = Size[AnyOf(S)[2]] + SumOf(S \ {AnyOf(S)})
  <2>1. PICK Q : Q = S \ {AnyOf(S)}
    OBVIOUS
  <2>2. Q \in SUBSET RecordKeys /\ Q \in SUBSET S /\ IsFiniteSet(Q) /\ Q \in SUBSET Q
    BY <1>4, <2>1, AnyOfRight
  <2>3. PICK g \in [SUBSET Q -> Nat] : Summing(g, Q) /\ SumOf(Q) = g[Q]
    BY <2>2, SumOfIs
  <2>4. f[Q] = g[Q]
    BY <1>1, <2>2, <2>3, SumsAgree
  <2>5. f[S] = Size[AnyOf(S)[2]] + f[Q]
    BY <1>1, <1>4, <2>1, SummingMeans
  <2> QED BY <1>1, <2>1, <2>3, <2>4, <2>5
<1> QED BY <1>2, <1>3, <1>4

\* A sum may take any member first.
LEMMA SumTakes ==
  ASSUME NEW S \in SUBSET RecordKeys, IsFiniteSet(S), NEW y \in S
  PROVE  SumOf(S) = Size[y[2]] + SumOf(S \ {y})
<1> DEFINE Takes(s, x) == SumOf(s) = Size[x[2]] + SumOf(s \ {x})
           bad == {n \in Nat : \E s \in SUBSET S : Cardinality(s) = n /\ \E x \in s : ~Takes(s, x)}
<1>1. \A s \in SUBSET S : IsFiniteSet(s) /\ Cardinality(s) \in Nat /\ s \in SUBSET RecordKeys
  BY FS_Subset, FS_CardinalityType
<1>2. SUFFICES bad = {}
  <2>1. S \in SUBSET S
    OBVIOUS
  <2> QED BY <1>1, <1>2, <2>1
<1>3. SUFFICES ASSUME bad # {} PROVE FALSE
  OBVIOUS
<1>4. PICK n : n \in bad /\ \A m \in bad : n <= m
  <2>1. bad \subseteq Nat
    OBVIOUS
  <2> HIDE DEF bad
  <2> QED BY <1>3, <2>1, LeastNumber
<1>5. PICK s \in SUBSET S : Cardinality(s) = n /\ n \in Nat /\ \E x \in s : ~Takes(s, x)
  BY <1>4
<1>6. PICK x \in s : ~Takes(s, x)
  BY <1>5
<1>7. PICK a : a = AnyOf(s)
  OBVIOUS
<1>8. a \in s /\ IsFiniteSet(s \ {a}) /\ SumOf(s) = Size[a[2]] + SumOf(s \ {a})
  <2>1. s # {}
    BY <1>6
  <2>2. IsFiniteSet(s) /\ s \in SUBSET RecordKeys
    BY <1>1, <1>5
  <2> QED BY <2>1, <2>2, <1>7, AnyOfRight, SumFirst
<1>9. x # a
  BY <1>6, <1>8
<1>10. \A z \in s : /\ s \ {z} \in SUBSET S /\ Cardinality(s \ {z}) = n - 1
                    /\ n - 1 \in Nat /\ Size[z[2]] \in Nat
  <2>1. TAKE z \in s
  <2>2. IsFiniteSet(s) /\ z \in RecordKeys
    BY <1>1, <1>5
  <2>3. Cardinality(s \ {z}) = n - 1
    BY <2>2, <1>5, FS_RemoveElement
  <2>4. n # 0
    BY <2>2, <1>5, FS_EmptySet
  <2> QED BY <2>2, <2>3, <2>4, <1>5, KeyFacts
<1>11. n - 1 \notin bad
  <2>1. n - 1 < n
    BY <1>5
  <2> HIDE DEF bad
  <2> QED BY <2>1, <1>4, <1>5, <1>8, <1>10
<1>12. \A z \in s : \A w \in s \ {z} : Takes(s \ {z}, w)
  <2>1. TAKE z \in s
  <2>2. n - 1 \in Nat /\ s \ {z} \in SUBSET S /\ Cardinality(s \ {z}) = n - 1
    BY <1>10
  <2> HIDE DEF Takes
  <2> QED BY <2>2, <1>11
<1>13. PICK t : t = (s \ {a}) \ {x}
  OBVIOUS
<1>14. t = (s \ {x}) \ {a}
  BY <1>13
<1>15. SumOf(s \ {a}) = Size[x[2]] + SumOf(t)
  <2>1. Takes(s \ {a}, x)
    <3>1. x \in s \ {a}
      BY <1>6, <1>9
    <3> HIDE DEF Takes
    <3> QED BY <3>1, <1>8, <1>12
  <2> QED BY <2>1, <1>13
<1>16. SumOf(s \ {x}) = Size[a[2]] + SumOf(t)
  <2>1. Takes(s \ {x}, a)
    <3>1. a \in s \ {x}
      BY <1>8, <1>9
    <3> HIDE DEF Takes
    <3> QED BY <3>1, <1>6, <1>12
  <2> QED BY <2>1, <1>14
<1>17. SumOf(t) \in Nat
  <2>1. t \in SUBSET S
    BY <1>13, <1>5
  <2> QED BY <2>1, <1>1, SumFirst
<1>18. Size[a[2]] \in Nat /\ Size[x[2]] \in Nat
  BY <1>6, <1>8, <1>10
<1>19. SumOf(s) = Size[x[2]] + SumOf(s \ {x})
  <2>1. PICK u, v, w, i, j, k : /\ u = SumOf(s) /\ v = SumOf(s \ {a}) /\ w = SumOf(s \ {x})
                                /\ i = SumOf(t) /\ j = Size[a[2]] /\ k = Size[x[2]]
    OBVIOUS
  <2>2. u = j + v /\ v = k + i /\ w = j + i /\ i \in Nat /\ j \in Nat /\ k \in Nat
    BY <2>1, <1>8, <1>15, <1>16, <1>17, <1>18
  <2>3. u = k + w
    BY <2>2
  <2> QED BY <2>1, <2>3
<1> QED BY <1>6, <1>19

\* The sum with one more record.
LEMMA SumOneMore ==
  ASSUME NEW S \in SUBSET RecordKeys, IsFiniteSet(S), NEW y \in RecordKeys, y \notin S
  PROVE  SumOf(S \cup {y}) = SumOf(S) + Size[y[2]] /\ SumOf(S) \in Nat /\ Size[y[2]] \in Nat
<1>1. PICK Q : Q = S \cup {y}
  OBVIOUS
<1>2. Q \in SUBSET RecordKeys /\ IsFiniteSet(Q) /\ y \in Q /\ Q \ {y} = S
  BY <1>1, FS_AddElement
<1>3. SumOf(Q) = Size[y[2]] + SumOf(S)
  BY <1>2, SumTakes
<1>4. SumOf(S) \in Nat /\ Size[y[2]] \in Nat
  BY SumFirst, KeyFacts
<1> QED BY <1>1, <1>3, <1>4

\* The sum of two sets of records that have none in common.
LEMMA SumJoined ==
  ASSUME NEW S \in SUBSET RecordKeys, IsFiniteSet(S),
         NEW Q \in SUBSET RecordKeys, IsFiniteSet(Q), S \cap Q = {}
  PROVE  SumOf(S \cup Q) = SumOf(S) + SumOf(Q)
<1> DEFINE Adds(s) == SumOf(S \cup s) = SumOf(S) + SumOf(s)
           bad == {n \in Nat : \E s \in SUBSET Q : Cardinality(s) = n /\ ~Adds(s)}
<1>1. \A s \in SUBSET Q : IsFiniteSet(s) /\ Cardinality(s) \in Nat /\ s \in SUBSET RecordKeys
  BY FS_Subset, FS_CardinalityType
<1>2. SUFFICES bad = {}
  <2>1. Q \in SUBSET Q
    OBVIOUS
  <2> QED BY <1>1, <1>2, <2>1
<1>3. SUFFICES ASSUME bad # {} PROVE FALSE
  OBVIOUS
<1>4. PICK n : n \in bad /\ \A m \in bad : n <= m
  <2>1. bad \subseteq Nat
    OBVIOUS
  <2> HIDE DEF bad
  <2> QED BY <1>3, <2>1, LeastNumber
<1>5. PICK s \in SUBSET Q : Cardinality(s) = n /\ n \in Nat /\ ~Adds(s)
  BY <1>4
<1>6. s # {}
  <2>1. ASSUME s = {} PROVE FALSE
    <3>1. S \cup s = S
      BY <2>1
    <3>2. SumOf(s) = 0
      BY <2>1, <1>1, <1>5, SumFirst
    <3>3. SumOf(S) \in Nat
      BY SumFirst
    <3> QED BY <3>1, <3>2, <3>3, <1>5
  <2> QED BY <2>1
<1>7. PICK a : a = AnyOf(s)
  OBVIOUS
<1>8. PICK t : t = s \ {a}
  OBVIOUS
<1>9. /\ a \in s /\ IsFiniteSet(t) /\ SumOf(s) = Size[a[2]] + SumOf(t)
      /\ Cardinality(t) = n - 1 /\ n # 0
  <2>1. IsFiniteSet(s) /\ s \in SUBSET RecordKeys
    BY <1>1, <1>5
  <2> QED BY <2>1, <1>5, <1>6, <1>7, <1>8, AnyOfRight, SumFirst
<1>10. n - 1 \in Nat /\ n - 1 < n /\ t \in SUBSET Q
  BY <1>5, <1>8, <1>9
<1>11. n - 1 \notin bad
  <2> HIDE DEF bad
  <2> QED BY <1>4, <1>5, <1>10
<1>12. SumOf(S \cup t) = SumOf(S) + SumOf(t)
  BY <1>9, <1>10, <1>11
<1>13. SumOf((S \cup t) \cup {a}) = SumOf(S \cup t) + Size[a[2]] /\ SumOf(S \cup t) \in Nat /\ Size[a[2]] \in Nat
  <2>1. PICK u : u = S \cup t
    OBVIOUS
  <2>2. u \in SUBSET RecordKeys /\ IsFiniteSet(u) /\ a \in RecordKeys /\ a \notin u
    BY <2>1, <1>1, <1>8, <1>9, <1>10, FS_Union
  <2> QED BY <2>1, <2>2, SumOneMore
<1>14. (S \cup t) \cup {a} = S \cup s
  BY <1>8, <1>9
<1>15. SumOf(S) \in Nat /\ SumOf(t) \in Nat
  BY <1>1, <1>10, SumFirst
<1>16. SumOf(S \cup s) = SumOf(S) + SumOf(s)
  <2>1. PICK u, v, w, i, j, k : /\ u = SumOf(S \cup s) /\ v = SumOf(S \cup t) /\ w = SumOf(S)
                                /\ i = SumOf(t) /\ j = Size[a[2]] /\ k = SumOf(s)
    OBVIOUS
  <2>2. u = v + j /\ v = w + i /\ k = j + i /\ i \in Nat /\ j \in Nat /\ w \in Nat
    BY <2>1, <1>9, <1>12, <1>13, <1>14, <1>15
  <2>3. u = w + k
    BY <2>2
  <2> QED BY <2>1, <2>3
<1> QED BY <1>5, <1>16

\* The sum of what is left of a set, and that the part is no more than the whole.
LEMMA SumParted ==
  ASSUME NEW S \in SUBSET RecordKeys, IsFiniteSet(S), NEW Q
  PROVE  /\ SumOf(S) \in Nat /\ SumOf(S \ Q) \in Nat /\ SumOf(S \cap Q) \in Nat
         /\ SumOf(S) = SumOf(S \ Q) + SumOf(S \cap Q)
<1>1. PICK u, v : u = S \ Q /\ v = S \cap Q
  OBVIOUS
<1>2. /\ u \in SUBSET RecordKeys /\ v \in SUBSET RecordKeys /\ u \cap v = {} /\ u \cup v = S
      /\ u \in SUBSET S /\ v \in SUBSET S
  BY <1>1
<1>3. IsFiniteSet(u) /\ IsFiniteSet(v)
  BY <1>2, FS_Subset
<1>4. SumOf(S) = SumOf(u) + SumOf(v)
  BY <1>2, <1>3, SumJoined
<1>5. SumOf(S) \in Nat /\ SumOf(u) \in Nat /\ SumOf(v) \in Nat
  BY <1>2, <1>3, SumFirst
<1> QED BY <1>1, <1>4, <1>5

\* f adds up the bytes of the records of t from its first.
AddsUp(f, t) == f[0] = 0 /\ \A i \in 1..Len(t) : f[i] = f[i-1] + Size[t[i][2]]

\* Bytes does so.
LEMMA BytesAdd ==
  ASSUME NEW t \in Seq(RecordKeys)
  PROVE  Bytes(t) \in [0..Len(t) -> Nat] /\ AddsUp(Bytes(t), t)
<1> DEFINE g == [x \in (1..Len(t)) \X Nat |-> x[2] + Size[t[x[1]][2]]]
           Is(f) == f = [i \in 0..Len(t) |-> IF i = 0 THEN 0 ELSE f[i-1] + Size[t[i][2]]]
<1>1. Len(t) \in Nat /\ \A i \in 1..Len(t) : t[i] \in RecordKeys /\ Size[t[i][2]] \in Nat
  <2>1. \A i \in 1..Len(t) : t[i] \in RecordKeys
    OBVIOUS
  <2> QED BY <2>1, KeyFacts
<1>2. \A i \in 1..Len(t) : \A n \in Nat : g[<<i, n>>] = n + Size[t[i][2]]
  OBVIOUS
<1>3. g \in [(1..Len(t)) \X Nat -> Nat]
  <2>1. ASSUME NEW x \in (1..Len(t)) \X Nat PROVE x[2] + Size[t[x[1]][2]] \in Nat
    BY <1>1
  <2> QED BY <2>1
<1>4. PICK f \in [0..Len(t) -> Nat] : Iterates(f, Len(t), 0, g)
  <2>1. PICK n, a, Q : n = Len(t) /\ a = 0 /\ Q = Nat
    OBVIOUS
  <2>2. n \in Nat /\ a \in Q /\ g \in [(1..n) \X Q -> Q]
    BY <1>1, <1>3, <2>1
  <2> HIDE DEF g
  <2>3. \E f \in [0..n -> Q] : Iterates(f, n, a, g)
    BY <2>2, Recursion
  <2> QED BY <2>1, <2>3
<1> HIDE DEF g
<1>5. Is(f)
  <2>1. ASSUME NEW i \in 0..Len(t) PROVE f[i] = IF i = 0 THEN 0 ELSE f[i-1] + Size[t[i][2]]
    <3>1. f[i] = IF i = 0 THEN 0 ELSE g[<<i, f[i-1]>>]
      BY <1>4 DEF Iterates
    <3>2. CASE i = 0
      BY <3>1, <3>2
    <3>3. CASE i # 0
      <4>1. i \in 1..Len(t) /\ i-1 \in 0..Len(t)
        BY <3>3, <1>1
      <4>2. f[i-1] \in Nat
        BY <4>1, <1>4
      <4> QED BY <3>1, <3>3, <4>1, <4>2, <1>2
    <3> QED BY <3>2, <3>3
  <2>2. f = [i \in 0..Len(t) |-> f[i]]
    BY <1>4
  <2> QED BY <2>1, <2>2
<1>6. Is(Bytes(t))
  <2>1. Bytes(t) = CHOOSE h : Is(h)
    BY DEF Bytes
  <2>2. Is(CHOOSE h : Is(h))
    <3> HIDE DEF Is
    <3> QED BY <1>5
  <2> HIDE DEF Is
  <2> QED BY <2>1, <2>2
<1>7. PICK h : h = Bytes(t)
  OBVIOUS
<1>8. h = [i \in 0..Len(t) |-> IF i = 0 THEN 0 ELSE h[i-1] + Size[t[i][2]]]
  BY <1>6, <1>7
<1>9. h[0] = 0
  BY <1>1, <1>8
<1>10. \A i \in 1..Len(t) : h[i] = h[i-1] + Size[t[i][2]]
  <2>1. TAKE i \in 1..Len(t)
  <2>2. i \in 0..Len(t) /\ i # 0
    BY <1>1
  <2> QED BY <2>2, <1>8
<1> DEFINE bad == {i \in 0..Len(t) : h[i] \notin Nat}
<1>11. bad = {}
  <2>1. SUFFICES ASSUME bad # {} PROVE FALSE
    OBVIOUS
  <2>2. PICK m : m \in bad /\ \A k \in bad : m <= k
    <3>1. bad \subseteq Nat
      OBVIOUS
    <3> HIDE DEF bad
    <3> QED BY <2>1, <3>1, LeastNumber
  <2>3. m \in 0..Len(t) /\ h[m] \notin Nat
    BY <2>2
  <2>4. m # 0
    BY <2>3, <1>9
  <2>5. m - 1 \in 0..Len(t) /\ m - 1 < m /\ m \in 1..Len(t)
    BY <2>3, <2>4, <1>1
  <2>6. m - 1 \notin bad
    <3> HIDE DEF bad
    <3> QED BY <2>2, <2>3, <2>5
  <2>7. h[m-1] \in Nat
    BY <2>5, <2>6
  <2> QED BY <2>3, <2>5, <2>7, <1>1, <1>10
<1>12. h \in [0..Len(t) -> Nat]
  <2>1. \A i \in 0..Len(t) : h[i] \in Nat
    BY <1>11
  <2>2. h = [i \in 0..Len(t) |-> h[i]]
    BY <1>8
  <2> QED BY <2>1, <2>2
<1> QED BY <1>7, <1>9, <1>10, <1>12 DEF AddsUp

\* The bytes of the first i records are their sum, if no record is there twice.
LEMMA BytesAre ==
  ASSUME NEW t \in Seq(RecordKeys), IsInjective(t)
  PROVE  \A i \in 0..Len(t) : Bytes(t)[i] = SumOf({t[j] : j \in 1..i})
<1>1. PICK h : h = Bytes(t)
  OBVIOUS
<1>2. h[0] = 0 /\ \A i \in 1..Len(t) : h[i] = h[i-1] + Size[t[i][2]]
  BY <1>1, BytesAdd DEF AddsUp
<1>3. Len(t) \in Nat /\ DOMAIN t = 1..Len(t) /\ \A i \in 1..Len(t) : t[i] \in RecordKeys
  OBVIOUS
<1> DEFINE First(i) == {t[j] : j \in 1..i}
           bad == {i \in 0..Len(t) : h[i] # SumOf(First(i))}
<1>4. SUFFICES bad = {}
  BY <1>1
<1>5. SUFFICES ASSUME bad # {} PROVE FALSE
  OBVIOUS
<1>6. PICK m : m \in bad /\ \A k \in bad : m <= k
  <2>1. bad \subseteq Nat
    OBVIOUS
  <2> HIDE DEF bad
  <2> QED BY <1>5, <2>1, LeastNumber
<1>7. m \in 0..Len(t) /\ h[m] # SumOf(First(m))
  BY <1>6
<1>8. m # 0
  <2>1. First(0) = {}
    OBVIOUS
  <2>2. SumOf(First(0)) = 0
    <3> HIDE DEF First
    <3> QED BY <2>1, SumFirst, FS_EmptySet
  <2> HIDE DEF First
  <2> QED BY <2>2, <1>2, <1>7
<1>9. m - 1 \in 0..Len(t) /\ m - 1 < m /\ m \in 1..Len(t)
  BY <1>7, <1>8, <1>3
<1>10. m - 1 \notin bad
  <2> HIDE DEF bad
  <2> QED BY <1>6, <1>7, <1>9
<1>11. h[m-1] = SumOf(First(m-1))
  BY <1>9, <1>10
<1>12. First(m) = First(m-1) \cup {t[m]}
  BY <1>9
<1>13. First(m-1) \in SUBSET RecordKeys /\ t[m] \in RecordKeys
  BY <1>3, <1>9
<1>14. t[m] \notin First(m-1)
  <2>1. \A j \in 1..(m-1) : j \in DOMAIN t /\ m \in DOMAIN t /\ j # m
    BY <1>3, <1>9
  <2> QED BY <2>1 DEF IsInjective
<1>15. IsFiniteSet(First(m-1))
  <2>1. First(m-1) \in SUBSET ToSet(t)
    <3>1. \A j \in 1..(m-1) : j \in DOMAIN t
      BY <1>3, <1>9
    <3> QED BY <3>1 DEF ToSet
  <2>2. IsFiniteSet(ToSet(t))
    BY Elements
  <2> HIDE DEF First
  <2> QED BY <2>1, <2>2, FS_Subset
<1>16. SumOf(First(m)) = SumOf(First(m-1)) + Size[t[m][2]]
  <2> HIDE DEF First
  <2> QED BY <1>12, <1>13, <1>14, <1>15, SumOneMore
<1>17. h[m] = h[m-1] + Size[t[m][2]]
  BY <1>2, <1>9
<1> HIDE DEF First
<1> QED BY <1>7, <1>11, <1>16, <1>17

\* The bytes of a list are the sum of its records, if no record is there twice.
LEMMA AllBytesAre ==
  ASSUME NEW t \in Seq(RecordKeys), IsInjective(t)
  PROVE  AllBytes(t) = SumOf(ToSet(t)) /\ AllBytes(t) \in Nat
<1>1. Len(t) \in 0..Len(t)
  OBVIOUS
<1>2. Bytes(t)[Len(t)] = SumOf({t[j] : j \in 1..Len(t)}) /\ Bytes(t)[Len(t)] \in Nat
  BY <1>1, BytesAre, BytesAdd
<1>3. ToSet(t) = {t[j] : j \in 1..Len(t)}
  BY Elements
<1> QED BY <1>2, <1>3 DEF AllBytes

\* f joins the lists of s one after the other.
Joins(f, s) == f[1] = s[1] /\ \A i \in 2..Len(s) : f[i] = f[i-1] \o s[i]

\* FlattenSeq does so.
LEMMA FlattenJoins ==
  ASSUME NEW T, NEW s \in Seq(Seq(T)), Len(s) > 0
  PROVE  \E f \in [1..Len(s) -> Seq(T)] : FlattenSeq(s) = f[Len(s)] /\ Joins(f, s)
<1> DEFINE g == [x \in (1..Len(s)) \X Seq(T) |-> x[2] \o s[x[1]]]
           Is(f) == f = [i \in 1..Len(s) |-> IF i = 1 THEN s[i] ELSE f[i-1] \o s[i]]
<1>1. Len(s) \in Nat /\ \A i \in 1..Len(s) : s[i] \in Seq(T)
  OBVIOUS
<1>2. \A i \in 1..Len(s) : \A t \in Seq(T) : g[<<i, t>>] = t \o s[i]
  OBVIOUS
<1>3. g \in [(1..Len(s)) \X Seq(T) -> Seq(T)]
  <2>1. ASSUME NEW i \in 1..Len(s), NEW t \in Seq(T) PROVE t \o s[i] \in Seq(T)
    BY <1>1, ConcatProperties
  <2> QED BY <2>1
<1>4. PICK h \in [0..Len(s) -> Seq(T)] : Iterates(h, Len(s), <<>>, g)
  <2>1. PICK n, a, Q : n = Len(s) /\ a = <<>> /\ Q = Seq(T)
    OBVIOUS
  <2>2. n \in Nat /\ a \in Q /\ g \in [(1..n) \X Q -> Q]
    <3>1. <<>> \in Seq(T)
      OBVIOUS
    <3> QED BY <1>1, <1>3, <2>1, <3>1
  <2> HIDE DEF g
  <2>3. \E f \in [0..n -> Q] : Iterates(f, n, a, g)
    BY <2>2, Recursion
  <2> QED BY <2>1, <2>3
<1> HIDE DEF g
<1>5. h[0] = <<>> /\ \A i \in 1..Len(s) : h[i-1] \in Seq(T) /\ h[i] = h[i-1] \o s[i]
  <2>1. h[0] = <<>>
    BY <1>1, <1>4 DEF Iterates
  <2>2. ASSUME NEW i \in 1..Len(s) PROVE h[i-1] \in Seq(T) /\ h[i] = h[i-1] \o s[i]
    <3>1. i \in 0..Len(s) /\ i-1 \in 0..Len(s) /\ i # 0
      BY <1>1
    <3>2. h[i-1] \in Seq(T) /\ h[i] = g[<<i, h[i-1]>>]
      BY <3>1, <1>4 DEF Iterates
    <3> QED BY <3>2, <1>2
  <2> QED BY <2>1, <2>2
<1>6. PICK f : f = [i \in 1..Len(s) |-> h[i]]
  OBVIOUS
<1>7. f \in [1..Len(s) -> Seq(T)] /\ \A i \in 1..Len(s) : f[i] = h[i]
  <2>1. \A i \in 1..Len(s) : i \in 0..Len(s)
    BY <1>1
  <2> QED BY <2>1, <1>4, <1>6
<1>8. f[1] = s[1]
  <2>1. 1 \in 1..Len(s)
    BY <1>1
  <2>2. h[1] = h[0] \o s[1] /\ s[1] \in Seq(T)
    <3>1. h[1-1] \in Seq(T) /\ h[1] = h[1-1] \o s[1]
      BY <2>1, <1>5
    <3>2. 1 - 1 = 0
      OBVIOUS
    <3> QED BY <2>1, <3>1, <3>2, <1>1
  <2>3. <<>> \o s[1] = s[1]
    BY <2>2, ConcatEmptySeq
  <2> QED BY <2>1, <2>2, <2>3, <1>5, <1>7
<1>9. \A i \in 2..Len(s) : f[i] = f[i-1] \o s[i]
  <2>1. \A i \in 2..Len(s) : i \in 1..Len(s) /\ i-1 \in 1..Len(s)
    BY <1>1
  <2> QED BY <2>1, <1>5, <1>7
<1>10. Is(f)
  <2>1. ASSUME NEW i \in 1..Len(s) PROVE f[i] = IF i = 1 THEN s[i] ELSE f[i-1] \o s[i]
    <3>1. i # 1 => i \in 2..Len(s)
      OBVIOUS
    <3> QED BY <3>1, <1>8, <1>9
  <2>2. f = [i \in 1..Len(s) |-> f[i]]
    BY <1>7
  <2> QED BY <2>1, <2>2
<1>11. PICK d : Is(d) /\ FlattenSeq(s) = d[Len(s)]
  <2>1. FlattenSeq(s) = (CHOOSE d : Is(d))[Len(s)]
    BY <1>1 DEF FlattenSeq
  <2>2. Is(CHOOSE d : Is(d))
    <3> HIDE DEF Is
    <3> QED BY <1>10
  <2> HIDE DEF Is
  <2> QED BY <2>1, <2>2
<1> DEFINE bad == {i \in 1..Len(s) : d[i] # f[i]}
<1>12. bad = {}
  <2>1. SUFFICES ASSUME bad # {} PROVE FALSE
    OBVIOUS
  <2>2. PICK m : m \in bad /\ \A k \in bad : m <= k
    <3>1. bad \subseteq Nat
      OBVIOUS
    <3> HIDE DEF bad
    <3> QED BY <2>1, <3>1, LeastNumber
  <2>3. m \in 1..Len(s) /\ d[m] # f[m]
    BY <2>2
  <2>4. d[m] = IF m = 1 THEN s[m] ELSE d[m-1] \o s[m]
    BY <2>3, <1>11
  <2>5. m # 1
    BY <2>3, <2>4, <1>8
  <2>6. m - 1 \in 1..Len(s) /\ m - 1 < m /\ m \in 2..Len(s)
    BY <2>3, <2>5, <1>1
  <2>7. m - 1 \notin bad
    <3> HIDE DEF bad
    <3> QED BY <2>2, <2>3, <2>6
  <2>8. d[m-1] = f[m-1]
    BY <2>6, <2>7
  <2>9. f[m] = f[m-1] \o s[m]
    BY <2>6, <1>9
  <2> QED BY <2>3, <2>4, <2>5, <2>8, <2>9
<1>13. FlattenSeq(s) = f[Len(s)]
  <2>1. Len(s) \in 1..Len(s)
    BY <1>1
  <2>2. Len(s) \notin bad
    <3> HIDE DEF bad
    <3> QED BY <1>12
  <2> QED BY <2>1, <2>2, <1>11
<1>14. Joins(f, s)
  BY <1>8, <1>9 DEF Joins
<1> QED BY <1>7, <1>13, <1>14

\* The lists of s have no element twice, nor two of them one in common.
AllDifferent(s) ==
  /\ \A i \in 1..Len(s) : IsInjective(s[i])
  /\ \A i, j \in 1..Len(s) : i < j => ToSet(s[i]) \cap ToSet(s[j]) = {}

\* FlattenSeq gives the elements of all the lists, each as often as they have it.
LEMMA FlattenRight ==
  ASSUME NEW T, NEW s \in Seq(Seq(T)), Len(s) > 0, AllDifferent(s)
  PROVE  /\ FlattenSeq(s) \in Seq(T) /\ IsInjective(FlattenSeq(s))
         /\ ToSet(FlattenSeq(s)) = UNION {ToSet(s[i]) : i \in 1..Len(s)}
<1>1. PICK f \in [1..Len(s) -> Seq(T)] : FlattenSeq(s) = f[Len(s)] /\ Joins(f, s)
  BY FlattenJoins
<1>2. /\ f \in [1..Len(s) -> Seq(T)] /\ f[1] = s[1]
      /\ \A i \in 2..Len(s) : f[i] = f[i-1] \o s[i]
  BY <1>1 DEF Joins
<1>3. Len(s) \in Nat /\ \A i \in 1..Len(s) : s[i] \in Seq(T)
  OBVIOUS
<1> DEFINE Right(i) == IsInjective(f[i]) /\ ToSet(f[i]) = UNION {ToSet(s[j]) : j \in 1..i}
           bad == {i \in 1..Len(s) : ~Right(i)}
<1>4. bad = {}
  <2>1. SUFFICES ASSUME bad # {} PROVE FALSE
    OBVIOUS
  <2>2. PICK m : m \in bad /\ \A k \in bad : m <= k
    <3>1. bad \subseteq Nat
      OBVIOUS
    <3> HIDE DEF bad
    <3> QED BY <2>1, <3>1, LeastNumber
  <2>3. m \in 1..Len(s) /\ ~Right(m)
    BY <2>2
  <2>4. m # 1
    <3>1. UNION {ToSet(s[j]) : j \in 1..1} = ToSet(s[1])
      OBVIOUS
    <3>2. IsInjective(s[1])
      BY <1>3 DEF AllDifferent
    <3>3. Right(1)
      BY <3>1, <3>2, <1>2
    <3> QED BY <3>3, <2>3
  <2>5. m - 1 \in 1..Len(s) /\ m - 1 < m /\ m \in 2..Len(s)
    BY <2>3, <2>4, <1>3
  <2>6. m - 1 \notin bad
    <3> HIDE DEF bad
    <3> QED BY <2>2, <2>3, <2>5
  <2>7. Right(m-1)
    BY <2>5, <2>6
  <2>8. PICK u, t : u = f[m-1] /\ t = s[m]
    OBVIOUS
  <2>9. u \in Seq(T) /\ t \in Seq(T) /\ f[m] = u \o t
    <3>1. u \in Seq(T)
      BY <2>5, <2>8, <1>2
    <3>2. t \in Seq(T)
      BY <2>3, <2>8, <1>3
    <3>3. f[m] = f[m-1] \o s[m]
      BY <2>5, <1>2
    <3> QED BY <2>8, <3>1, <3>2, <3>3
  <2>10. IsInjective(u) /\ IsInjective(t)
    BY <2>3, <2>7, <2>8 DEF AllDifferent
  <2>11. ToSet(u) \cap ToSet(t) = {}
    <3>1. ToSet(u) = UNION {ToSet(s[j]) : j \in 1..(m-1)}
      BY <2>7, <2>8
    <3>2. \A j \in 1..(m-1) : j \in 1..Len(s) /\ j < m
      BY <2>3, <2>5
    <3>3. \A j \in 1..(m-1) : ToSet(s[j]) \cap ToSet(t) = {}
      BY <3>2, <2>3, <2>8 DEF AllDifferent
    <3> QED BY <3>1, <3>3
  <2>12. IsInjective(f[m]) /\ ToSet(f[m]) = ToSet(u) \cup ToSet(t)
    BY <2>9, <2>10, <2>11, Joined
  <2>13. UNION {ToSet(s[j]) : j \in 1..m}
           = (UNION {ToSet(s[j]) : j \in 1..(m-1)}) \cup ToSet(s[m])
    <3>1. 1..m = (1..(m-1)) \cup {m}
      BY <2>3, <2>5
    <3> QED BY <3>1
  <2>14. Right(m)
    BY <2>7, <2>8, <2>12, <2>13
  <2> QED BY <2>14, <2>3
<1>5. Right(Len(s))
  <2>1. Len(s) \in 1..Len(s)
    BY <1>3
  <2>2. Len(s) \notin bad
    <3> HIDE DEF bad
    <3> QED BY <1>4
  <2> QED BY <2>1, <2>2
<1>6. f[Len(s)] \in Seq(T)
  BY <1>2, <1>3
<1> QED BY <1>1, <1>5, <1>6

\* Multiples of a chunk are in the order of their factors, a chunk apart.
LEMMA ChunksApart ==
  ASSUME NEW C \in Nat \ {0}, NEW i \in Nat, NEW j \in Nat
  PROVE  /\ i * C \in Nat /\ j * C \in Nat
         /\ i < j => i * C + C <= j * C
         /\ i <= j => i * C <= j * C
         /\ i * C <= j * C => i <= j
<1>1. i * C \in Nat /\ j * C \in Nat
  OBVIOUS
<1>2. ASSUME NEW a \in Nat, NEW b \in Nat, a <= b PROVE a * C <= b * C /\ a * C \in Nat
  <2>1. PICK d \in Nat : d = b - a
    BY <1>2
  <2>2. b = a + d
    BY <2>1
  <2>3. b * C = a * C + d * C
    BY <2>2
  <2>4. d * C \in Nat /\ a * C \in Nat
    OBVIOUS
  <2> QED BY <2>3, <2>4
<1>3. ASSUME i < j PROVE i * C + C <= j * C
  <2>1. i + 1 \in Nat /\ i + 1 <= j
    BY <1>3
  <2>2. (i + 1) * C <= j * C
    BY <2>1, <1>2
  <2>3. (i + 1) * C = i * C + C
    OBVIOUS
  <2> QED BY <2>2, <2>3
<1>4. ASSUME i * C <= j * C PROVE i <= j
  <2>1. ASSUME j < i PROVE FALSE
    <3>1. j + 1 \in Nat /\ j + 1 <= i
      BY <2>1
    <3>2. (j + 1) * C <= i * C
      BY <3>1, <1>2
    <3>3. (j + 1) * C = j * C + C
      OBVIOUS
    <3> QED BY <3>2, <3>3, <1>1, <1>4
  <2> QED BY <2>1
<1> QED BY <1>1, <1>2, <1>3, <1>4

\* Division of a whole number of chunks, and of what is between two of them.
LEMMA Quotients ==
  ASSUME NEW C \in Nat \ {0}, NEW n \in Nat
  PROVE  /\ n \div C \in Nat /\ (n \div C) * C <= n /\ n < (n \div C) * C + C
         /\ n % C = 0 <=> n = (n \div C) * C
         /\ \A k \in Nat : k * C <= n /\ n < k * C + C => n \div C = k
<1>1. /\ n \div C \in Nat /\ C * (n \div C) <= n /\ n < C * (n \div C) + C
      /\ n = C * (n \div C) + (n % C) /\ n % C \in 0..C-1
  OBVIOUS
<1>2. PICK q \in Nat : q = n \div C
  BY <1>1
<1>3. q * C = C * q /\ q * C \in Nat
  OBVIOUS
<1>4. n % C = 0 <=> n = q * C
  BY <1>1, <1>2, <1>3
<1>5. ASSUME NEW k \in Nat, k * C <= n, n < k * C + C PROVE q = k
  <2>1. ~ (q < k)
    <3>1. q < k => q * C + C <= k * C
      BY ChunksApart
    <3>2. k * C \in Nat
      OBVIOUS
    <3> QED BY <1>1, <1>2, <1>3, <1>5, <3>1, <3>2
  <2>2. ~ (k < q)
    <3>1. k < q => k * C + C <= q * C
      BY ChunksApart
    <3>2. k * C \in Nat
      OBVIOUS
    <3> QED BY <1>1, <1>2, <1>3, <1>5, <3>1, <3>2
  <2> QED BY <2>1, <2>2
<1> QED BY <1>1, <1>2, <1>3, <1>4, <1>5

\* The ends of chunks.
LEMMA EndFacts ==
  ASSUME NEW p \in Prompt, NEW n
  PROVE  n \in ChunkEnds(p) <=>
           /\ n \in Nat \ {0} /\ n <= Len(Ids[p])
           /\ \E k \in Nat \ {0} : k = n \div ChunkSize /\ n = k * ChunkSize
<1>1. ChunkSize \in Nat \ {0} /\ Len(Ids[p]) \in Nat
  BY PromptAssumption
<1>2. ASSUME NEW m \in Nat \ {0}
      PROVE  m % ChunkSize = 0 <=> \E k \in Nat \ {0} : k = m \div ChunkSize /\ m = k * ChunkSize
  <2>1. PICK k : k = m \div ChunkSize
    OBVIOUS
  <2>2. k \in Nat /\ (m % ChunkSize = 0 <=> m = k * ChunkSize)
    BY <2>1, <1>1, Quotients
  <2>3. m = k * ChunkSize => k # 0
    <3>1. 0 * ChunkSize = 0
      BY <1>1
    <3> QED BY <3>1
  <2> QED BY <2>1, <2>2, <2>3
<1>3. n \in ChunkEnds(p) <=> n \in Nat \ {0} /\ n <= Len(Ids[p]) /\ n % ChunkSize = 0
  BY <1>1 DEF ChunkEnds
<1> QED BY <1>2, <1>3

\* The chunks up to n.
LEMMA ChunksToRight ==
  ASSUME NEW p \in Prompt, NEW n \in ChunkEnds(p)
  PROVE  /\ ChunksTo(n) \in Seq(ChunkEnds(p)) /\ Len(ChunksTo(n)) > 0 /\ IsInjective(ChunksTo(n))
         /\ ToSet(ChunksTo(n)) = {e \in ChunkEnds(p) : e <= n}
<1>1. ChunkSize \in Nat \ {0}
  BY PromptAssumption
<1>2. PICK c \in Nat \ {0} : c = n \div ChunkSize /\ n = c * ChunkSize
  BY EndFacts
<1>3. n \in Nat \ {0} /\ n <= Len(Ids[p]) /\ Len(Ids[p]) \in Nat
  BY EndFacts, PromptAssumption
<1>4. PICK u : u = ChunksTo(n)
  OBVIOUS
<1>5. u = [i \in 1..c |-> i * ChunkSize]
  BY <1>2, <1>4 DEF ChunksTo
<1>6. \A i \in 1..c : u[i] = i * ChunkSize
  BY <1>5
<1>7. ASSUME NEW i \in 1..c PROVE u[i] \in ChunkEnds(p) /\ u[i] <= n /\ i = u[i] \div ChunkSize
  <2>1. i \in Nat \ {0} /\ i <= c
    BY <1>2
  <2>2. i * ChunkSize <= c * ChunkSize /\ i * ChunkSize \in Nat /\ 0 * ChunkSize + ChunkSize <= i * ChunkSize
    BY <2>1, <1>1, ChunksApart
  <2>3. PICK m : m = i * ChunkSize
    OBVIOUS
  <2>4. m \in Nat \ {0} /\ m <= n
    <3>1. 0 * ChunkSize = 0
      BY <1>1
    <3> QED BY <2>2, <2>3, <3>1, <1>1, <1>2
  <2>5. i = m \div ChunkSize
    <3>1. i * ChunkSize <= m /\ m < i * ChunkSize + ChunkSize
      BY <2>2, <2>3, <1>1
    <3> QED BY <2>1, <2>4, <3>1, <1>1, Quotients
  <2>6. m \in ChunkEnds(p)
    BY <2>1, <2>3, <2>4, <2>5, <1>3, EndFacts
  <2> QED BY <2>3, <2>4, <2>5, <2>6, <1>6
<1>8. u \in [1..c -> ChunkEnds(p)]
  BY <1>5, <1>7
<1>9. u \in Seq(ChunkEnds(p)) /\ Len(u) = c
  BY <1>8, <1>2
<1>10. IsInjective(u)
  <2>1. DOMAIN u = 1..c
    BY <1>5
  <2> QED BY <2>1, <1>7 DEF IsInjective
<1>11. \A e \in ChunkEnds(p) : e <= n => \E i \in 1..c : u[i] = e
  <2>1. TAKE e \in ChunkEnds(p)
  <2>2. HAVE e <= n
  <2>3. PICK k \in Nat \ {0} : e = k * ChunkSize
    BY EndFacts
  <2>4. k <= c
    BY <2>2, <2>3, <1>1, <1>2, ChunksApart
  <2> QED BY <2>3, <2>4, <1>2, <1>6
<1>12. ToSet(u) = {u[i] : i \in 1..c}
  BY <1>5 DEF ToSet
<1>13. ToSet(u) = {e \in ChunkEnds(p) : e <= n}
  BY <1>7, <1>11, <1>12
<1>14. Len(u) > 0
  <2>1. Len(u) = c /\ c \in Nat \ {0}
    BY <1>2, <1>9
  <2> QED BY <2>1
<1> QED BY <1>4, <1>9, <1>10, <1>13, <1>14

\* A list reversed has the same elements.
LEMMA ReverseRight ==
  ASSUME NEW T, NEW s \in Seq(T)
  PROVE  /\ Reverse(s) \in Seq(T) /\ Len(Reverse(s)) = Len(s) /\ ToSet(Reverse(s)) = ToSet(s)
         /\ IsInjective(s) => IsInjective(Reverse(s))
<1>1. Len(s) \in Nat /\ DOMAIN s = 1..Len(s) /\ \A i \in 1..Len(s) : s[i] \in T
  OBVIOUS
<1>2. PICK u : u = Reverse(s)
  OBVIOUS
<1>3. u = [i \in 1..Len(s) |-> s[(Len(s) - i) + 1]]
  BY <1>2 DEF Reverse
<1>4. \A i \in 1..Len(s) : (Len(s) - i) + 1 \in 1..Len(s)
  BY <1>1
<1>5. u \in [1..Len(s) -> T] /\ DOMAIN u = 1..Len(s)
  BY <1>1, <1>3, <1>4
<1>6. u \in Seq(T) /\ Len(u) = Len(s)
  BY <1>1, <1>5
<1>7. \A i \in 1..Len(s) : u[i] = s[(Len(s) - i) + 1] /\ s[i] = u[(Len(s) - i) + 1]
  <2>1. TAKE i \in 1..Len(s)
  <2>2. u[i] = s[(Len(s) - i) + 1]
    BY <1>3
  <2>3. PICK j : j = (Len(s) - i) + 1
    OBVIOUS
  <2>4. j \in 1..Len(s) /\ (Len(s) - j) + 1 = i
    BY <2>3, <1>1
  <2>5. u[j] = s[(Len(s) - j) + 1]
    BY <2>4, <1>3
  <2> QED BY <2>2, <2>3, <2>4, <2>5
<1>8. ToSet(u) = ToSet(s)
  <2>1. \A i \in 1..Len(s) : (Len(s) - i) + 1 \in 1..Len(s)
    BY <1>1
  <2>2. ToSet(s) = {s[i] : i \in 1..Len(s)} /\ ToSet(u) = {u[i] : i \in 1..Len(s)}
    BY <1>1, <1>5, <1>6, Elements
  <2>3. ToSet(s) \subseteq ToSet(u)
    BY <1>7, <2>1, <2>2
  <2>4. ToSet(u) \subseteq ToSet(s)
    BY <1>7, <2>1, <2>2
  <2> QED BY <2>3, <2>4
<1>9. IsInjective(s) => IsInjective(u)
  <2>1. SUFFICES ASSUME IsInjective(s), NEW i \in 1..Len(s), NEW j \in 1..Len(s), u[i] = u[j]
                 PROVE  i = j
    BY <1>5 DEF IsInjective
  <2>2. (Len(s) - i) + 1 = (Len(s) - j) + 1
    BY <2>1, <1>1, <1>4, <1>7 DEF IsInjective
  <2> QED BY <2>2, <1>1
<1> QED BY <1>2, <1>6, <1>8, <1>9

\* The records of these kinds that a restore up to n reads of the chunk that ends at e.
RecordsAt(p, n, e, kinds) ==
  LET needed == Only(kinds, {kind \in AllKinds : Needed(kind, e, n)})
  IN  [j \in DOMAIN needed |-> <<ChunkKey[p][e], needed[j]>>]

\* u lists the records of these kinds that a restore up to n reads of the chunks
\* of p that end in E, each once.
Lists(u, p, n, E, K) ==
  /\ u \in Seq(RecordKeys) /\ IsInjective(u)
  /\ \A k : k \in ToSet(u) <=>
              \E e \in E : \E kind \in K : Needed(kind, e, n) /\ k = <<ChunkKey[p][e], kind>>

\* What they are.
LEMMA RecordsAtRight ==
  ASSUME NEW p \in Prompt, NEW n, NEW e \in ChunkEnds(p),
         NEW kinds \in Seq(AllKinds), IsInjective(kinds)
  PROVE  Lists(RecordsAt(p, n, e, kinds), p, n, {e}, ToSet(kinds))
<1>1. PICK S : S = {kind \in AllKinds : Needed(kind, e, n)}
  OBVIOUS
<1>2. PICK needed : needed = Only(kinds, S)
  OBVIOUS
<1>3. needed \in Seq(AllKinds) /\ ToSet(needed) = ToSet(kinds) \cap S /\ IsInjective(needed)
  BY <1>2, OnlyRight
<1>4. PICK u : u = RecordsAt(p, n, e, kinds)
  OBVIOUS
<1>5. PICK key : key = ChunkKey[p][e]
  OBVIOUS
<1>6. u = [j \in DOMAIN needed |-> <<key, needed[j]>>]
  BY <1>1, <1>2, <1>4, <1>5 DEF RecordsAt
<1>7. DOMAIN needed = 1..Len(needed) /\ Len(needed) \in Nat /\ \A j \in 1..Len(needed) : needed[j] \in AllKinds
  BY <1>3
<1>8. \A j \in 1..Len(needed) : <<key, needed[j]>> \in RecordKeys
  BY <1>5, <1>7 DEF RecordKeys
<1>9. u \in Seq(RecordKeys)
  <2>1. u \in [1..Len(needed) -> RecordKeys]
    BY <1>6, <1>7, <1>8
  <2> QED BY <2>1, <1>7
<1>10. IsInjective(u)
  <2>1. SUFFICES ASSUME NEW i \in DOMAIN needed, NEW j \in DOMAIN needed, u[i] = u[j]
                 PROVE  i = j
    BY <1>6 DEF IsInjective
  <2>2. needed[i] = needed[j]
    BY <2>1, <1>6
  <2> QED BY <2>2, <1>3 DEF IsInjective
<1>11. \A k : k \in ToSet(u) <=> \E kind \in ToSet(needed) : k = <<key, kind>>
  BY <1>6 DEF ToSet
<1>12. \A kind : kind \in ToSet(needed) <=> kind \in ToSet(kinds) /\ Needed(kind, e, n)
  <2>1. ToSet(kinds) \subseteq AllKinds
    BY Elements
  <2> QED BY <2>1, <1>1, <1>3
<1>13. \A k : k \in ToSet(u) <=>
         \E d \in {e} : \E kind \in ToSet(kinds) : Needed(kind, d, n) /\ k = <<ChunkKey[p][d], kind>>
  BY <1>5, <1>11, <1>12
<1>14. Lists(u, p, n, {e}, ToSet(kinds))
  BY <1>9, <1>10, <1>13 DEF Lists
<1> QED BY <1>4, <1>14

\* A chunk's key tells its end.
LEMMA KeyTellsEnd ==
  ASSUME NEW p \in Prompt, NEW e \in ChunkEnds(p)
  PROVE  ChunkKey[p][e][2] = e
BY DEF ChunkKey

\* The records of a list of chunks.
LEMMA ChainRecordsRight ==
  ASSUME NEW p \in Prompt, NEW n, NEW chunks \in Seq(ChunkEnds(p)), IsInjective(chunks),
         Len(chunks) > 0, NEW kinds \in Seq(AllKinds), IsInjective(kinds)
  PROVE  Lists(ChainRecords(p, n, chunks, kinds), p, n, ToSet(chunks), ToSet(kinds))
<1>1. PICK s : s = [i \in DOMAIN chunks |-> RecordsAt(p, n, chunks[i], kinds)]
  OBVIOUS
<1>2. ChainRecords(p, n, chunks, kinds) = FlattenSeq(s)
  BY <1>1 DEF ChainRecords, RecordsAt
<1>3. DOMAIN chunks = 1..Len(chunks) /\ Len(chunks) \in Nat /\ \A i \in 1..Len(chunks) : chunks[i] \in ChunkEnds(p)
  OBVIOUS
<1>4. \A i \in 1..Len(chunks) :
        /\ s[i] \in Seq(RecordKeys) /\ IsInjective(s[i])
        /\ \A k : k \in ToSet(s[i]) <=>
                    \E kind \in ToSet(kinds) : Needed(kind, chunks[i], n) /\ k = <<ChunkKey[p][chunks[i]], kind>>
  <2>1. TAKE i \in 1..Len(chunks)
  <2>2. PICK e \in ChunkEnds(p) : e = chunks[i]
    BY <1>3
  <2>3. s[i] = RecordsAt(p, n, e, kinds)
    BY <2>2, <1>1, <1>3
  <2>4. PICK u : u = RecordsAt(p, n, e, kinds)
    OBVIOUS
  <2>5. Lists(u, p, n, {e}, ToSet(kinds))
    BY <2>4, RecordsAtRight
  <2>6. /\ u \in Seq(RecordKeys) /\ IsInjective(u)
        /\ \A k : k \in ToSet(u) <=>
                    \E kind \in ToSet(kinds) : Needed(kind, e, n) /\ k = <<ChunkKey[p][e], kind>>
    BY <2>5 DEF Lists
  <2> QED BY <2>2, <2>3, <2>4, <2>6
<1>5. s \in Seq(Seq(RecordKeys)) /\ Len(s) = Len(chunks)
  <2>1. s \in [1..Len(chunks) -> Seq(RecordKeys)]
    BY <1>1, <1>3, <1>4
  <2> QED BY <2>1, <1>3
<1>6. \A i, j \in 1..Len(s) : i < j => ToSet(s[i]) \cap ToSet(s[j]) = {}
  <2>1. SUFFICES ASSUME NEW i \in 1..Len(s), NEW j \in 1..Len(s), i < j,
                        NEW k, k \in ToSet(s[i]), k \in ToSet(s[j])
                 PROVE  FALSE
    OBVIOUS
  <2>2. PICK kind : k = <<ChunkKey[p][chunks[i]], kind>>
    BY <2>1, <1>4, <1>5
  <2>3. PICK other : k = <<ChunkKey[p][chunks[j]], other>>
    BY <2>1, <1>4, <1>5
  <2>4. ChunkKey[p][chunks[i]] = ChunkKey[p][chunks[j]]
    BY <2>2, <2>3
  <2>5. chunks[i] = chunks[j]
    BY <2>4, <1>3, <1>5, KeyTellsEnd
  <2>6. i \in DOMAIN chunks /\ j \in DOMAIN chunks /\ i # j
    BY <2>1, <1>3, <1>5
  <2> QED BY <2>5, <2>6 DEF IsInjective
<1>7. AllDifferent(s)
  BY <1>4, <1>5, <1>6 DEF AllDifferent
<1>8. /\ FlattenSeq(s) \in Seq(RecordKeys) /\ IsInjective(FlattenSeq(s))
      /\ ToSet(FlattenSeq(s)) = UNION {ToSet(s[i]) : i \in 1..Len(s)}
  <2>1. Len(s) > 0
    BY <1>5
  <2> QED BY <2>1, <1>5, <1>7, FlattenRight
<1>9. \A k : k \in ToSet(FlattenSeq(s)) <=> \E i \in 1..Len(chunks) : k \in ToSet(s[i])
  BY <1>5, <1>8
<1>10. ToSet(chunks) = {chunks[i] : i \in 1..Len(chunks)}
  BY Elements
<1>11. \A k : k \in ToSet(FlattenSeq(s)) <=>
                \E e \in ToSet(chunks) : \E kind \in ToSet(kinds) :
                   Needed(kind, e, n) /\ k = <<ChunkKey[p][e], kind>>
  <2> DEFINE Of(k, e) == \E kind \in ToSet(kinds) : Needed(kind, e, n) /\ k = <<ChunkKey[p][e], kind>>
  <2>1. \A k : \A i \in 1..Len(chunks) : k \in ToSet(s[i]) <=> Of(k, chunks[i])
    BY <1>4
  <2> HIDE DEF Of
  <2>2. \A k : k \in ToSet(FlattenSeq(s)) <=> \E e \in ToSet(chunks) : Of(k, e)
    BY <2>1, <1>9, <1>10
  <2> QED BY <2>2 DEF Of
<1>12. Lists(FlattenSeq(s), p, n, ToSet(chunks), ToSet(kinds))
  BY <1>8, <1>11 DEF Lists
<1> QED BY <1>2, <1>12

\* The kinds in either order.
LEMMA OrdersRight ==
  ASSUME NEW kinds, kinds \subseteq AllKinds
  PROVE  /\ WriteOrder(kinds) \in Seq(AllKinds) /\ IsInjective(WriteOrder(kinds))
         /\ ToSet(WriteOrder(kinds)) = kinds
         /\ TouchOrder(kinds) \in Seq(AllKinds) /\ IsInjective(TouchOrder(kinds))
         /\ ToSet(TouchOrder(kinds)) = kinds
<1>1. PICK u : u = <<"kv", "rotating", "checkpoint">>
  OBVIOUS
<1>2. Len(u) = 3 /\ DOMAIN u = {1, 2, 3} /\ u[1] = "kv" /\ u[2] = "rotating" /\ u[3] = "checkpoint"
      /\ u \in Seq(AllKinds)
  BY <1>1 DEF AllKinds
<1>3. IsInjective(u) /\ ToSet(u) = AllKinds
  BY <1>2 DEF IsInjective, ToSet, AllKinds
<1>4. PICK v : v = <<"rotating", "kv", "checkpoint">>
  OBVIOUS
<1>5. Len(v) = 3 /\ DOMAIN v = {1, 2, 3} /\ v[1] = "rotating" /\ v[2] = "kv" /\ v[3] = "checkpoint"
      /\ v \in Seq(AllKinds)
  BY <1>4 DEF AllKinds
<1>6. IsInjective(v) /\ ToSet(v) = AllKinds
  BY <1>5 DEF IsInjective, ToSet, AllKinds
<1>7. AllKinds \cap kinds = kinds
  OBVIOUS
<1>8. Only(u, kinds) \in Seq(AllKinds) /\ IsInjective(Only(u, kinds)) /\ ToSet(Only(u, kinds)) = kinds
  BY <1>2, <1>3, <1>7, OnlyRight
<1>9. Only(v, kinds) \in Seq(AllKinds) /\ IsInjective(Only(v, kinds)) /\ ToSet(Only(v, kinds)) = kinds
  BY <1>5, <1>6, <1>7, OnlyRight
<1> QED BY <1>1, <1>4, <1>8, <1>9 DEF WriteOrder, TouchOrder

\* The records that a restore of p up to n reads.
Chain(p, n) ==
  {k \in RecordKeys :
     \E e \in ChunkEnds(p) : e <= n /\ \E kind \in Kinds :
        Needed(kind, e, n) /\ k = <<ChunkKey[p][e], kind>>}

\* Both orders list them, each once.
LEMMA LoadOrderRight ==
  ASSUME work \in Workloads, NEW p \in Prompt, NEW n \in ChunkEnds(p)
  PROVE  /\ LoadOrder[p][n] \in Seq(RecordKeys) /\ IsInjective(LoadOrder[p][n])
         /\ ToSet(LoadOrder[p][n]) = Chain(p, n)
         /\ ChainTouchOrder[p][n] \in Seq(RecordKeys) /\ IsInjective(ChainTouchOrder[p][n])
         /\ ToSet(ChainTouchOrder[p][n]) = Chain(p, n)
<1>1. Kinds \in {w.kinds : w \in Workloads} /\ Kinds \subseteq AllKinds
  BY StoreAssumption DEF Kinds
<1>2. PICK u, t : u = ChunksTo(n) /\ t = Reverse(u)
  OBVIOUS
<1>3. /\ u \in Seq(ChunkEnds(p)) /\ Len(u) > 0 /\ IsInjective(u)
      /\ ToSet(u) = {e \in ChunkEnds(p) : e <= n}
  BY <1>2, ChunksToRight
<1>4. /\ t \in Seq(ChunkEnds(p)) /\ Len(t) > 0 /\ IsInjective(t)
      /\ ToSet(t) = {e \in ChunkEnds(p) : e <= n}
  <2>1. t \in Seq(ChunkEnds(p)) /\ Len(t) = Len(u) /\ IsInjective(t) /\ ToSet(t) = ToSet(u)
    BY <1>2, <1>3, ReverseRight
  <2> QED BY <2>1, <1>3
<1>5. PICK x, y : x = WriteOrder(Kinds) /\ y = TouchOrder(Kinds)
  OBVIOUS
<1>6. /\ x \in Seq(AllKinds) /\ IsInjective(x) /\ ToSet(x) = Kinds
      /\ y \in Seq(AllKinds) /\ IsInjective(y) /\ ToSet(y) = Kinds
  BY <1>1, <1>5, OrdersRight
<1>7. LoadOrder[p][n] = ChainRecords(p, n, u, x)
  BY <1>1, <1>2, <1>5 DEF LoadOrder, LoadOrders
<1>8. ChainTouchOrder[p][n] = ChainRecords(p, n, t, y)
  BY <1>1, <1>2, <1>5 DEF ChainTouchOrder, ChainTouchOrders
<1>9. PICK a, b : a = LoadOrder[p][n] /\ b = ChainTouchOrder[p][n]
  OBVIOUS
<1>10. /\ a \in Seq(RecordKeys) /\ IsInjective(a)
       /\ \A k : k \in ToSet(a) <=> \E e \in ToSet(u) : \E kind \in ToSet(x) :
                                      Needed(kind, e, n) /\ k = <<ChunkKey[p][e], kind>>
  <2>1. Lists(a, p, n, ToSet(u), ToSet(x))
    BY <1>3, <1>6, <1>7, <1>9, ChainRecordsRight
  <2> QED BY <2>1 DEF Lists
<1>11. /\ b \in Seq(RecordKeys) /\ IsInjective(b)
       /\ \A k : k \in ToSet(b) <=> \E e \in ToSet(t) : \E kind \in ToSet(y) :
                                      Needed(kind, e, n) /\ k = <<ChunkKey[p][e], kind>>
  <2>1. Lists(b, p, n, ToSet(t), ToSet(y))
    BY <1>4, <1>6, <1>8, <1>9, ChainRecordsRight
  <2> QED BY <2>1 DEF Lists
<1>12. ToSet(a) \subseteq RecordKeys /\ ToSet(b) \subseteq RecordKeys
  BY <1>10, <1>11, Elements
<1>13. ToSet(a) = Chain(p, n)
  BY <1>3, <1>6, <1>10, <1>12 DEF Chain
<1>14. ToSet(b) = Chain(p, n)
  BY <1>4, <1>6, <1>11, <1>12 DEF Chain
<1> QED BY <1>9, <1>10, <1>11, <1>13, <1>14

\* The byte count and the LRU order of a store speak of the records it sized.
Ledger(s) ==
  /\ s = [index |-> s.index, sized |-> s.sized, lru |-> s.lru, total |-> s.total, blobs |-> s.blobs]
  /\ s.lru \in Seq(RecordKeys) /\ IsInjective(s.lru)
  /\ s.sized = ToSet(s.lru)
  /\ s.total = SumOf(s.sized)

\* The index and the blob store have these records too.
Physical(s) == s.index = s.sized /\ DOMAIN s.blobs = s.sized

\* What a ledger says of the sizes.
LEMMA LedgerFacts ==
  ASSUME NEW s, Ledger(s)
  PROVE  /\ s.sized \in SUBSET RecordKeys /\ IsFiniteSet(s.sized)
         /\ s.total \in Nat /\ s.total = SumOf(s.sized)
         /\ s.lru \in Seq(RecordKeys) /\ IsInjective(s.lru) /\ s.sized = ToSet(s.lru)
<1>1. /\ s.lru \in Seq(RecordKeys) /\ IsInjective(s.lru) /\ s.sized = ToSet(s.lru)
      /\ s.total = SumOf(s.sized)
  BY DEF Ledger
<1>2. s.sized \in SUBSET RecordKeys /\ IsFiniteSet(s.sized)
  BY <1>1, Elements
<1> QED BY <1>1, <1>2, SumFirst

\* Touching puts records at the end of the LRU order and counts the new ones.
LEMMA TouchedRight ==
  ASSUME NEW s, Ledger(s), NEW keys \in Seq(RecordKeys), IsInjective(keys)
  PROVE  /\ Ledger(Touched(s, keys))
         /\ Touched(s, keys).sized = s.sized \cup ToSet(keys)
         /\ Touched(s, keys).index = s.index /\ Touched(s, keys).blobs = s.blobs
         /\ Touched(s, keys).lru = Only(s.lru, ToSet(s.lru) \ ToSet(keys)) \o keys
<1>1. PICK r : r = Touched(s, keys)
  OBVIOUS
<1>2. PICK rest, new : rest = Only(s.lru, ToSet(s.lru) \ ToSet(keys)) /\ new = Only(keys, ToSet(keys) \ s.sized)
  OBVIOUS
<1>3. r = [s EXCEPT !.sized = @ \cup ToSet(keys), !.total = @ + AllBytes(new), !.lru = rest \o keys]
  BY <1>1, <1>2 DEF Touched
<1>4. s = [index |-> s.index, sized |-> s.sized, lru |-> s.lru, total |-> s.total, blobs |-> s.blobs]
  BY DEF Ledger
<1>5. r = [index |-> s.index, sized |-> s.sized \cup ToSet(keys), lru |-> rest \o keys,
           total |-> s.total + AllBytes(new), blobs |-> s.blobs]
  BY <1>3, <1>4
<1>6. /\ r.index = s.index /\ r.sized = s.sized \cup ToSet(keys) /\ r.lru = rest \o keys
      /\ r.total = s.total + AllBytes(new) /\ r.blobs = s.blobs
  BY <1>5
<1>7. /\ s.lru \in Seq(RecordKeys) /\ IsInjective(s.lru) /\ s.sized = ToSet(s.lru)
      /\ s.sized \in SUBSET RecordKeys /\ IsFiniteSet(s.sized)
      /\ s.total \in Nat /\ s.total = SumOf(s.sized)
  BY LedgerFacts
<1>8. rest \in Seq(RecordKeys) /\ IsInjective(rest) /\ ToSet(rest) = ToSet(s.lru) \ ToSet(keys)
  <2>1. PICK S : S = ToSet(s.lru) \ ToSet(keys)
    OBVIOUS
  <2>2. rest = Only(s.lru, S) /\ ToSet(s.lru) \cap S = S
    BY <1>2, <2>1
  <2> QED BY <2>1, <2>2, <1>7, OnlyRight
<1>9. new \in Seq(RecordKeys) /\ IsInjective(new) /\ ToSet(new) = ToSet(keys) \ s.sized
  <2>1. PICK S : S = ToSet(keys) \ s.sized
    OBVIOUS
  <2>2. new = Only(keys, S) /\ ToSet(keys) \cap S = S
    BY <1>2, <2>1
  <2> QED BY <2>1, <2>2, OnlyRight
<1>10. r.lru \in Seq(RecordKeys) /\ IsInjective(r.lru) /\ ToSet(r.lru) = s.sized \cup ToSet(keys)
  <2>1. ToSet(rest) \cap ToSet(keys) = {}
    BY <1>8
  <2>2. /\ rest \o keys \in Seq(RecordKeys) /\ IsInjective(rest \o keys)
        /\ ToSet(rest \o keys) = ToSet(rest) \cup ToSet(keys)
    BY <2>1, <1>8, Joined
  <2> QED BY <2>2, <1>6, <1>7, <1>8
<1>11. r.total = SumOf(r.sized)
  <2>1. PICK Q : Q = ToSet(new)
    OBVIOUS
  <2>2. Q \in SUBSET RecordKeys /\ IsFiniteSet(Q) /\ s.sized \cap Q = {} /\ s.sized \cup Q = r.sized
    <3>1. Q \in SUBSET RecordKeys /\ IsFiniteSet(Q)
      BY <2>1, <1>9, Elements
    <3> QED BY <3>1, <2>1, <1>6, <1>9
  <2>3. AllBytes(new) = SumOf(Q)
    BY <2>1, <1>9, AllBytesAre
  <2>4. SumOf(s.sized \cup Q) = SumOf(s.sized) + SumOf(Q)
    BY <2>2, <1>7, SumJoined
  <2> QED BY <2>2, <2>3, <2>4, <1>6, <1>7
<1>12. r = [index |-> r.index, sized |-> r.sized, lru |-> r.lru, total |-> r.total, blobs |-> r.blobs]
  BY <1>5, <1>6
<1>13. Ledger(r)
  BY <1>6, <1>10, <1>11, <1>12 DEF Ledger
<1> QED BY <1>1, <1>2, <1>6, <1>13

\* Evicting takes records away, and their bytes.
LEMMA EvictedRight ==
  ASSUME NEW s, Ledger(s), NEW keys \in Seq(RecordKeys), IsInjective(keys)
  PROVE  /\ Ledger(Evicted(s, keys))
         /\ Evicted(s, keys).sized = s.sized \ ToSet(keys)
         /\ Evicted(s, keys).index = s.index \ ToSet(keys)
         /\ DOMAIN Evicted(s, keys).blobs = DOMAIN s.blobs \ ToSet(keys)
         /\ \A k \in DOMAIN s.blobs \ ToSet(keys) : Evicted(s, keys).blobs[k] = s.blobs[k]
<1>1. PICK r : r = Evicted(s, keys)
  OBVIOUS
<1>2. PICK rest, gone : rest = Only(s.lru, ToSet(s.lru) \ ToSet(keys)) /\ gone = Only(keys, s.sized)
  OBVIOUS
<1>3. r = [index |-> s.index \ ToSet(keys), sized |-> s.sized \ ToSet(keys), lru |-> rest,
           total |-> s.total - AllBytes(gone), blobs |-> Without(s.blobs, ToSet(keys))]
  BY <1>1, <1>2 DEF Evicted
<1>4. /\ r.index = s.index \ ToSet(keys) /\ r.sized = s.sized \ ToSet(keys) /\ r.lru = rest
      /\ r.total = s.total - AllBytes(gone) /\ r.blobs = Without(s.blobs, ToSet(keys))
  BY <1>3
<1>5. /\ s.lru \in Seq(RecordKeys) /\ IsInjective(s.lru) /\ s.sized = ToSet(s.lru)
      /\ s.sized \in SUBSET RecordKeys /\ IsFiniteSet(s.sized)
      /\ s.total \in Nat /\ s.total = SumOf(s.sized)
  BY LedgerFacts
<1>6. rest \in Seq(RecordKeys) /\ IsInjective(rest) /\ ToSet(rest) = ToSet(s.lru) \ ToSet(keys)
  <2>1. PICK S : S = ToSet(s.lru) \ ToSet(keys)
    OBVIOUS
  <2>2. rest = Only(s.lru, S) /\ ToSet(s.lru) \cap S = S
    BY <1>2, <2>1
  <2> QED BY <2>1, <2>2, <1>5, OnlyRight
<1>7. gone \in Seq(RecordKeys) /\ IsInjective(gone) /\ ToSet(gone) = s.sized \cap ToSet(keys)
  <2>1. gone \in Seq(RecordKeys) /\ IsInjective(gone) /\ ToSet(gone) = ToSet(keys) \cap s.sized
    BY <1>2, OnlyRight
  <2> QED BY <2>1
<1>8. r.total = SumOf(r.sized)
  <2>1. PICK Q : Q = ToSet(keys)
    OBVIOUS
  <2>2. AllBytes(gone) = SumOf(s.sized \cap Q)
    BY <2>1, <1>7, AllBytesAre
  <2>3. /\ SumOf(s.sized) \in Nat /\ SumOf(s.sized \ Q) \in Nat /\ SumOf(s.sized \cap Q) \in Nat
        /\ SumOf(s.sized) = SumOf(s.sized \ Q) + SumOf(s.sized \cap Q)
    BY <1>5, SumParted
  <2> QED BY <2>1, <2>2, <2>3, <1>4, <1>5
<1>9. r = [index |-> r.index, sized |-> r.sized, lru |-> r.lru, total |-> r.total, blobs |-> r.blobs]
  BY <1>3, <1>4
<1>10. Ledger(r)
  BY <1>4, <1>5, <1>6, <1>8, <1>9 DEF Ledger
<1>11. DOMAIN r.blobs = DOMAIN s.blobs \ ToSet(keys)
       /\ \A k \in DOMAIN s.blobs \ ToSet(keys) : r.blobs[k] = s.blobs[k]
  BY <1>4 DEF Without
<1> QED BY <1>1, <1>4, <1>10, <1>11

\* The least of a set of numbers, as the code's loop finds it.
LEMMA MinIs ==
  ASSUME NEW S, S \subseteq Nat, S # {}
  PROVE  Min(S) \in S /\ \A y \in S : Min(S) <= y
BY LeastNumber DEF Min

\* Evicting to a limit takes the oldest records, no more than it must.
EvictsOldest(s, r, limit, c) ==
  /\ r = Evicted(s, SubSeq(s.lru, 1, c))
  /\ r.total <= limit
  /\ c # 0 => s.total - SumOf({s.lru[j] : j \in 1..(c-1)}) > limit

\* Eviction down to a limit takes the oldest records, and no more of them than it needs.
LEMMA EvictedToRight ==
  ASSUME NEW s, Ledger(s), NEW limit \in Nat
  PROVE  \E c \in 0..Len(s.lru) : EvictsOldest(s, EvictedTo(s, limit), limit, c)
<1>1. /\ s.lru \in Seq(RecordKeys) /\ IsInjective(s.lru) /\ s.sized = ToSet(s.lru)
      /\ s.sized \in SUBSET RecordKeys /\ IsFiniteSet(s.sized)
      /\ s.total \in Nat /\ s.total = SumOf(s.sized)
  BY LedgerFacts
<1>2. PICK t : t = s.lru
  OBVIOUS
<1>3. t \in Seq(RecordKeys) /\ IsInjective(t) /\ s.sized = ToSet(t) /\ Len(t) \in Nat
  BY <1>1, <1>2
<1>4. PICK bytes : bytes = Bytes(t)
  OBVIOUS
<1>5. /\ \A i \in 0..Len(t) : bytes[i] = SumOf({t[j] : j \in 1..i}) /\ bytes[i] \in Nat
  BY <1>3, <1>4, BytesAre, BytesAdd
<1>6. PICK enough : enough = {i \in 0..Len(t) : s.total - bytes[i] <= limit}
  OBVIOUS
<1>7. Len(t) \in enough
  <2>1. Len(t) \in 0..Len(t)
    BY <1>3
  <2>2. {t[j] : j \in 1..Len(t)} = s.sized
    BY <1>3, Elements
  <2>3. bytes[Len(t)] = s.total
    BY <2>1, <2>2, <1>1, <1>5
  <2>4. s.total - bytes[Len(t)] <= limit
    BY <2>3, <1>1
  <2> QED BY <2>1, <2>4, <1>6
<1>8. PICK c : c = Min(enough)
  OBVIOUS
<1>9. c \in enough /\ \A i \in enough : c <= i
  <2>1. enough \subseteq Nat /\ enough # {}
    BY <1>3, <1>6, <1>7
  <2> QED BY <2>1, <1>8, MinIs
<1>10. c \in 0..Len(t) /\ s.total - bytes[c] <= limit
  BY <1>6, <1>9
<1>11. PICK r : r = EvictedTo(s, limit)
  OBVIOUS
<1>12. r = Evicted(s, SubSeq(t, 1, c))
  BY <1>2, <1>4, <1>6, <1>7, <1>8, <1>11 DEF EvictedTo
<1>13. PICK u : u = SubSeq(t, 1, c)
  OBVIOUS
<1>14. u \in Seq(RecordKeys) /\ IsInjective(u) /\ ToSet(u) = {t[j] : j \in 1..c}
  BY <1>3, <1>10, <1>13, FirstOf
<1>15. Ledger(r) /\ r.sized = s.sized \ ToSet(u)
  BY <1>12, <1>13, <1>14, EvictedRight
<1>16. r.total = s.total - bytes[c]
  <2>1. PICK Q : Q = ToSet(u)
    OBVIOUS
  <2>2. /\ SumOf(s.sized) \in Nat /\ SumOf(s.sized \ Q) \in Nat /\ SumOf(s.sized \cap Q) \in Nat
        /\ SumOf(s.sized) = SumOf(s.sized \ Q) + SumOf(s.sized \cap Q)
    BY <1>1, SumParted
  <2>3. s.sized \cap Q = Q
    <3>1. \A j \in 1..c : j \in DOMAIN t
      BY <1>3, <1>10
    <3> QED BY <3>1, <2>1, <1>3, <1>14 DEF ToSet
  <2>4. bytes[c] = SumOf(Q)
    BY <2>1, <1>5, <1>10, <1>14
  <2>5. r.total = SumOf(s.sized \ Q)
    BY <2>1, <1>15, LedgerFacts
  <2>6. SumOf(s.sized \cap Q) = bytes[c]
    BY <2>3, <2>4
  <2>7. PICK a, b, d : a = SumOf(s.sized) /\ b = SumOf(s.sized \ Q) /\ d = SumOf(s.sized \cap Q)
    OBVIOUS
  <2>8. a \in Nat /\ b \in Nat /\ d \in Nat /\ a = b + d
    BY <2>2, <2>7
  <2>9. b = a - d
    BY <2>8
  <2> QED BY <2>5, <2>6, <2>7, <2>9, <1>1
<1>17. ASSUME c # 0 PROVE s.total - SumOf({t[j] : j \in 1..(c-1)}) > limit
  <2>1. c - 1 \in 0..Len(t) /\ ~ (c <= c - 1)
    BY <1>3, <1>10, <1>17
  <2>2. c - 1 \notin enough
    BY <2>1, <1>9
  <2>3. ~ (s.total - bytes[c-1] <= limit)
    BY <2>1, <2>2, <1>6
  <2>4. bytes[c-1] = SumOf({t[j] : j \in 1..(c-1)}) /\ bytes[c-1] \in Nat
    BY <2>1, <1>5
  <2> QED BY <2>3, <2>4, <1>1
<1>18. EvictsOldest(s, r, limit, c)
  BY <1>2, <1>10, <1>12, <1>16, <1>17 DEF EvictsOldest
<1> QED BY <1>2, <1>10, <1>11, <1>18

\* The greatest of a bounded set of numbers.
LEMMA MaxIs ==
  ASSUME NEW S, S \subseteq Nat, S # {}, NEW b \in Nat, \A x \in S : x <= b
  PROVE  Max(S) \in S /\ \A y \in S : y <= Max(S)
<1> DEFINE below == {d \in Nat : b - d \in S}
<1>1. PICK x \in S : TRUE
  OBVIOUS
<1>2. below # {}
  <2>1. b - x \in Nat /\ b - (b - x) = x
    OBVIOUS
  <2> QED BY <2>1
<1>3. PICK d : d \in below /\ \A e \in below : d <= e
  <2>1. below \subseteq Nat
    OBVIOUS
  <2> HIDE DEF below
  <2> QED BY <1>2, <2>1, LeastNumber
<1>4. d \in Nat /\ b - d \in S
  BY <1>3
<1>5. \A y \in S : b - d >= y
  <2>1. TAKE y \in S
  <2>2. b - y \in Nat /\ b - (b - y) = y /\ y \in Nat
    OBVIOUS
  <2>3. b - y \in below
    BY <2>2
  <2>4. d <= b - y
    <3> HIDE DEF below
    <3> QED BY <2>3, <1>3
  <2> QED BY <2>2, <2>4, <1>4
<1>6. \E z \in S : \A y \in S : z >= y
  BY <1>4, <1>5
<1>7. Max(S) \in S /\ \A y \in S : Max(S) >= y
  BY <1>6 DEF Max
<1>8. PICK m : m = Max(S)
  OBVIOUS
<1>9. m \in Nat /\ \A y \in S : m >= y /\ y \in Nat
  BY <1>7, <1>8
<1>10. \A y \in S : y <= m
  BY <1>9
<1> QED BY <1>7, <1>8, <1>10

\* The images of a prompt.
LEMMA SpanFacts ==
  ASSUME NEW p \in Prompt
  PROVE  /\ Len(Ids[p]) \in Nat \ {0} /\ Ids[p] \in Seq(ToSet(Ids[p]))
         /\ Spans[p] \in Seq(ToSet(Spans[p]))
         /\ \A x \in ToSet(Spans[p]) :
              /\ x.start \in Nat /\ x.end \in Nat /\ x.start < x.end /\ x.end <= Len(Ids[p])
         /\ \A x, y \in ToSet(Spans[p]) : x = y \/ x.end <= y.start \/ y.end <= x.start
<1>1. /\ Ids[p] \in Seq(ToSet(Ids[p])) /\ Len(Ids[p]) > 0
      /\ Spans[p] \in Seq(ToSet(Spans[p]))
      /\ \A i \in DOMAIN Spans[p] : /\ Spans[p][i].start \in Nat /\ Spans[p][i].end \in Nat
                                    /\ Spans[p][i].start < Spans[p][i].end
                                    /\ Spans[p][i].end <= Len(Ids[p])
      /\ \A i, j \in DOMAIN Spans[p] : i < j => Spans[p][i].end <= Spans[p][j].start
  BY PromptAssumption
<1>2. PICK s : s = Spans[p]
  OBVIOUS
<1>3. \A x \in ToSet(s) : \E i \in DOMAIN s : x = s[i]
  BY DEF ToSet
<1>4. DOMAIN s \subseteq Int
  <2>1. DOMAIN s = 1..Len(s) /\ Len(s) \in Nat
    BY <1>1, <1>2, LenProperties
  <2> QED BY <2>1
<1>5. \A x \in ToSet(s) : x.start \in Nat /\ x.end \in Nat /\ x.start < x.end /\ x.end <= Len(Ids[p])
  BY <1>1, <1>2, <1>3
<1>6. ASSUME NEW x \in ToSet(s), NEW y \in ToSet(s)
      PROVE  x = y \/ x.end <= y.start \/ y.end <= x.start
  <2>1. PICK i \in DOMAIN s : x = s[i]
    BY <1>3
  <2>2. PICK j \in DOMAIN s : y = s[j]
    BY <1>3
  <2>3. i = j \/ i < j \/ j < i
    BY <1>4
  <2>4. CASE i = j
    BY <2>1, <2>2, <2>4
  <2>5. CASE i < j
    BY <2>1, <2>2, <2>5, <1>1, <1>2
  <2>6. CASE j < i
    BY <2>1, <2>2, <2>6, <1>1, <1>2
  <2> QED BY <2>3, <2>4, <2>5, <2>6
<1>7. Len(Ids[p]) \in Nat
  BY <1>1, LenProperties
<1> QED BY <1>1, <1>2, <1>5, <1>6, <1>7

\* How many tokens two prompts share: that many are the same, no more are.
LEMMA CommonTokensRight ==
  ASSUME NEW p \in Prompt, NEW q \in Prompt
  PROVE  /\ CommonTokens(p, q) \in Nat
         /\ CommonTokens(p, q) <= Len(Ids[p]) /\ CommonTokens(p, q) <= Len(Ids[q])
         /\ SubSeq(Ids[p], 1, CommonTokens(p, q)) = SubSeq(Ids[q], 1, CommonTokens(p, q))
         /\ \A n \in 0..Len(Ids[p]) :
              n <= Len(Ids[q]) /\ SubSeq(Ids[p], 1, n) = SubSeq(Ids[q], 1, n) => n <= CommonTokens(p, q)
<1>1. PICK S : S = {n \in 0..Len(Ids[p]) : n <= Len(Ids[q]) /\ SubSeq(Ids[p], 1, n) = SubSeq(Ids[q], 1, n)}
  OBVIOUS
<1>2. Len(Ids[p]) \in Nat /\ Len(Ids[q]) \in Nat
  BY SpanFacts
<1>3. 0 \in S
  <2>1. SubSeq(Ids[p], 1, 0) = <<>> /\ SubSeq(Ids[q], 1, 0) = <<>>
    BY SubSeqEmpty
  <2> QED BY <2>1, <1>1, <1>2
<1>4. S \subseteq Nat /\ \A n \in S : n <= Len(Ids[p])
  BY <1>1, <1>2
<1>5. Max(S) \in S /\ \A n \in S : n <= Max(S)
  BY <1>2, <1>3, <1>4, MaxIs
<1>6. PICK m : m = CommonTokens(p, q)
  OBVIOUS
<1>7. m \in S /\ \A n \in S : n <= m
  BY <1>1, <1>5, <1>6 DEF CommonTokens
<1> QED BY <1>1, <1>2, <1>6, <1>7

\* Where reuse of a prefix stops: at the limit, at a token that differs, or at
\* an image that is cut or is not the same.
LEMMA ImageSafeRight ==
  ASSUME NEW p \in Prompt, NEW q \in Prompt, NEW limit \in Nat
  PROVE  \E n \in Nat :
           /\ n <= limit /\ n <= CommonTokens(p, q) /\ (n = limit \/ n = CommonTokens(p, q))
           /\ ImageSafeCommonPrefix(p, q, limit) \in Nat /\ ImageSafeCommonPrefix(p, q, limit) <= n
           /\ \/ ImageSafeCommonPrefix(p, q, limit) = n
              \/ ImageSafeCommonPrefix(p, q, limit) \in NonReusableStarts(n, p, q)
              \/ ImageSafeCommonPrefix(p, q, limit) \in NonReusableStarts(n, q, p)
           /\ \A x \in NonReusableStarts(n, p, q) \cup NonReusableStarts(n, q, p) :
                ImageSafeCommonPrefix(p, q, limit) <= x
<1>1. PICK c : c = CommonTokens(p, q)
  OBVIOUS
<1>2. c \in Nat
  BY <1>1, CommonTokensRight
<1>3. PICK n : n = Min({c, limit})
  OBVIOUS
<1>4. n \in {c, limit} /\ n <= c /\ n <= limit /\ n \in Nat
  <2>1. {c, limit} \subseteq Nat /\ {c, limit} # {}
    BY <1>2
  <2>2. n \in {c, limit} /\ \A y \in {c, limit} : n <= y
    BY <2>1, <1>3, MinIs
  <2> QED BY <2>1, <2>2
<1>5. PICK A, B : A = NonReusableStarts(n, p, q) /\ B = NonReusableStarts(n, q, p)
  OBVIOUS
<1>6. A \subseteq Nat /\ B \subseteq Nat
  BY <1>5, SpanFacts DEF NonReusableStarts
<1>7. PICK S : S = {n} \cup A \cup B
  OBVIOUS
<1>8. PICK r : r = Min(S)
  OBVIOUS
<1>9. r \in S /\ r \in Nat /\ \A y \in S : r <= y
  <2>1. S \subseteq Nat /\ S # {}
    BY <1>4, <1>6, <1>7
  <2> QED BY <2>1, <1>8, MinIs
<1>10. ImageSafeCommonPrefix(p, q, limit) = r
  BY <1>1, <1>3, <1>5, <1>7, <1>8 DEF ImageSafeCommonPrefix
<1> QED BY <1>1, <1>4, <1>5, <1>7, <1>9, <1>10

\* A hot plan leaves the last token of the prompt.
LEMMA HotPrefixRight ==
  ASSUME NEW p \in Prompt, NEW entries, entries \subseteq Prompt
  PROVE  /\ HotPrefix(p, entries) \in Nat /\ HotPrefix(p, entries) <= Len(Ids[p]) - 1
         /\ \/ HotPrefix(p, entries) = 0
            \/ \E q \in entries : HotPrefix(p, entries) = ImageSafeCommonPrefix(p, q, Len(Ids[p]) - 1)
         /\ \A q \in entries : ImageSafeCommonPrefix(p, q, Len(Ids[p]) - 1) <= HotPrefix(p, entries)
<1>1. PICK limit : limit = Len(Ids[p]) - 1
  OBVIOUS
<1>2. limit \in Nat
  BY <1>1, SpanFacts
<1>3. \A q \in entries : /\ ImageSafeCommonPrefix(p, q, limit) \in Nat
                         /\ ImageSafeCommonPrefix(p, q, limit) <= limit
  <2>1. TAKE q \in entries
  <2>2. PICK r : r = ImageSafeCommonPrefix(p, q, limit)
    OBVIOUS
  <2>3. PICK n \in Nat : n <= limit /\ r \in Nat /\ r <= n
    BY <2>2, <1>2, ImageSafeRight
  <2> QED BY <2>2, <2>3, <1>2
<1>4. PICK S : S = {0} \cup {ImageSafeCommonPrefix(p, q, limit) : q \in entries}
  OBVIOUS
<1>5. S \subseteq Nat /\ S # {} /\ \A x \in S : x <= limit
  BY <1>2, <1>3, <1>4
<1>6. Max(S) \in S /\ \A y \in S : y <= Max(S)
  BY <1>2, <1>5, MaxIs
<1>7. HotPrefix(p, entries) = Max(S)
  BY <1>1, <1>4 DEF HotPrefix
<1>8. PICK m : m = Max(S)
  OBVIOUS
<1>9. m \in S /\ m \in Nat /\ m <= limit /\ \A q \in entries : ImageSafeCommonPrefix(p, q, limit) <= m
  BY <1>4, <1>5, <1>6, <1>8
<1>10. m = 0 \/ \E q \in entries : m = ImageSafeCommonPrefix(p, q, limit)
  BY <1>4, <1>9
<1> QED BY <1>1, <1>7, <1>8, <1>9, <1>10

\* A disk plan is of whole chunks that are there, cuts no image, and leaves the
\* last token; it is the longest of these.
LEMMA PlannedPrefixRight ==
  ASSUME NEW p \in Prompt
  PROVE  /\ PlannedPrefix(p) \in Nat /\ PlannedPrefix(p) <= Len(Ids[p]) - 1
         /\ PlannedPrefix(p) # 0 => layout /\ PlannedPrefix(p) \in RestorePoints(p)
         /\ layout => \A n \in RestorePoints(p) : n <= PlannedPrefix(p)
<1>1. Len(Ids[p]) - 1 \in Nat
  BY SpanFacts
<1>2. CASE ~layout
  BY <1>1, <1>2 DEF PlannedPrefix
<1>3. CASE layout
  <2>1. PICK S : S = {0} \cup RestorePoints(p)
    OBVIOUS
  <2>2. \A n \in RestorePoints(p) : n \in Nat /\ n <= Len(Ids[p]) - 1
    BY EndFacts DEF RestorePoints
  <2>3. S \subseteq Nat /\ S # {} /\ \A x \in S : x <= Len(Ids[p]) - 1
    BY <1>1, <2>1, <2>2
  <2>4. Max(S) \in S /\ \A y \in S : y <= Max(S)
    BY <1>1, <2>3, MaxIs
  <2>5. PICK m : m = PlannedPrefix(p)
    OBVIOUS
  <2>6. m = Max(S)
    BY <1>3, <2>1, <2>5 DEF PlannedPrefix
  <2>7. m \in S /\ \A y \in S : y <= m
    BY <2>4, <2>6
  <2>8. m \in Nat /\ m <= Len(Ids[p]) - 1 /\ (m # 0 => m \in RestorePoints(p))
        /\ \A n \in RestorePoints(p) : n <= m
    BY <2>1, <2>3, <2>7
  <2> QED BY <1>3, <2>5, <2>8
<1> QED BY <1>2, <1>3

\* Every blob is of a chunk of the prompt it was computed for.
BlobsTrue(s) ==
  \A k \in DOMAIN s.blobs :
    /\ s.blobs[k] \in Prompt
    /\ \E n \in ChunkEnds(s.blobs[k]) : k[1] = ChunkKey[s.blobs[k]][n]

\* A store whose records agree and are what they say.
Sound(s) == Ledger(s) /\ Physical(s) /\ BlobsTrue(s)

\* The empty store is sound.
LEMMA EmptySound == Sound(EmptyStore) /\ EmptyStore.sized = {} /\ EmptyStore.total = 0
<1>1. PICK s : s = EmptyStore
  OBVIOUS
<1>2. PICK none : none = Nothing
  OBVIOUS
<1>3. DOMAIN none = {}
  BY <1>2 DEF Nothing
<1>4. s = [index |-> {}, sized |-> {}, lru |-> <<>>, total |-> 0, blobs |-> none]
  BY <1>1, <1>2 DEF EmptyStore
<1>5. s.index = {} /\ s.sized = {} /\ s.lru = <<>> /\ s.total = 0 /\ s.blobs = none
  BY <1>4
<1>6. s.lru \in Seq(RecordKeys) /\ IsInjective(s.lru) /\ ToSet(s.lru) = {}
  <2>1. <<>> \in Seq(RecordKeys) /\ DOMAIN <<>> = {}
    OBVIOUS
  <2> QED BY <2>1, <1>5 DEF IsInjective, ToSet
<1>7. SumOf({}) = 0
  BY SumFirst, FS_EmptySet
<1>8. s = [index |-> s.index, sized |-> s.sized, lru |-> s.lru, total |-> s.total, blobs |-> s.blobs]
  BY <1>4, <1>5
<1>9. Ledger(s)
  BY <1>5, <1>6, <1>7, <1>8 DEF Ledger
<1>10. Physical(s) /\ BlobsTrue(s)
  BY <1>3, <1>5 DEF Physical, BlobsTrue
<1> QED BY <1>1, <1>5, <1>9, <1>10 DEF Sound

\* Touching records that are there leaves the store sound.
LEMMA TouchedSound ==
  ASSUME NEW s, Sound(s), NEW keys \in Seq(RecordKeys), IsInjective(keys), ToSet(keys) \subseteq s.sized
  PROVE  /\ Sound(Touched(s, keys))
         /\ Touched(s, keys).sized = s.sized /\ Touched(s, keys).index = s.index
         /\ Touched(s, keys).blobs = s.blobs /\ Touched(s, keys).total = s.total
<1>1. PICK r : r = Touched(s, keys)
  OBVIOUS
<1>2. Ledger(s) /\ Physical(s) /\ BlobsTrue(s)
  BY DEF Sound
<1>3. Ledger(r) /\ r.sized = s.sized \cup ToSet(keys) /\ r.index = s.index /\ r.blobs = s.blobs
  BY <1>1, <1>2, TouchedRight
<1>4. r.sized = s.sized
  BY <1>3
<1>5. r.total = s.total
  BY <1>2, <1>3, <1>4, LedgerFacts
<1>6. Physical(r) /\ BlobsTrue(r)
  BY <1>2, <1>3, <1>4 DEF Physical, BlobsTrue
<1> QED BY <1>1, <1>3, <1>4, <1>5, <1>6 DEF Sound

\* Evicting records leaves the store sound.
LEMMA EvictedSound ==
  ASSUME NEW s, Sound(s), NEW keys \in Seq(RecordKeys), IsInjective(keys)
  PROVE  /\ Sound(Evicted(s, keys))
         /\ Evicted(s, keys).sized = s.sized \ ToSet(keys)
         /\ Evicted(s, keys).total <= s.total
<1>1. PICK r : r = Evicted(s, keys)
  OBVIOUS
<1>2. Ledger(s) /\ Physical(s) /\ BlobsTrue(s)
  BY DEF Sound
<1>3. /\ Ledger(r) /\ r.sized = s.sized \ ToSet(keys) /\ r.index = s.index \ ToSet(keys)
      /\ DOMAIN r.blobs = DOMAIN s.blobs \ ToSet(keys)
      /\ \A k \in DOMAIN s.blobs \ ToSet(keys) : r.blobs[k] = s.blobs[k]
  BY <1>1, <1>2, EvictedRight
<1>4. Physical(r)
  BY <1>2, <1>3 DEF Physical
<1>5. BlobsTrue(r)
  <2>1. \A k \in DOMAIN r.blobs : k \in DOMAIN s.blobs /\ r.blobs[k] = s.blobs[k]
    BY <1>3
  <2> QED BY <2>1, <1>2 DEF BlobsTrue
<1>6. r.total <= s.total
  <2>1. PICK Q : Q = ToSet(keys)
    OBVIOUS
  <2>2. s.sized \in SUBSET RecordKeys /\ IsFiniteSet(s.sized) /\ s.total = SumOf(s.sized)
    BY <1>2, LedgerFacts
  <2>3. r.total = SumOf(s.sized \ Q)
    BY <2>1, <1>3, LedgerFacts
  <2>4. /\ SumOf(s.sized) \in Nat /\ SumOf(s.sized \ Q) \in Nat /\ SumOf(s.sized \cap Q) \in Nat
        /\ SumOf(s.sized) = SumOf(s.sized \ Q) + SumOf(s.sized \cap Q)
    BY <2>2, SumParted
  <2>5. PICK a, b, d : a = SumOf(s.sized) /\ b = SumOf(s.sized \ Q) /\ d = SumOf(s.sized \cap Q)
    OBVIOUS
  <2>6. a \in Nat /\ b \in Nat /\ d \in Nat /\ a = b + d
    BY <2>4, <2>5
  <2>7. b <= a
    BY <2>6
  <2> QED BY <2>2, <2>3, <2>5, <2>7
<1> QED BY <1>1, <1>3, <1>4, <1>5, <1>6 DEF Sound

\* Evicting to a limit leaves it sound, and within the limit.
LEMMA EvictedToSound ==
  ASSUME NEW s, Sound(s), NEW limit \in Nat
  PROVE  /\ Sound(EvictedTo(s, limit)) /\ EvictedTo(s, limit).total <= limit
         /\ EvictedTo(s, limit).sized \subseteq s.sized
<1>1. Ledger(s)
  BY DEF Sound
<1>2. PICK r : r = EvictedTo(s, limit)
  OBVIOUS
<1>3. PICK c \in 0..Len(s.lru) : EvictsOldest(s, r, limit, c)
  BY <1>1, <1>2, EvictedToRight
<1>4. PICK u : u = SubSeq(s.lru, 1, c)
  OBVIOUS
<1>5. u \in Seq(RecordKeys) /\ IsInjective(u)
  BY <1>1, <1>4, LedgerFacts, FirstOf
<1>6. r = Evicted(s, u) /\ r.total <= limit
  BY <1>3, <1>4 DEF EvictsOldest
<1>7. Sound(r) /\ r.sized = s.sized \ ToSet(u)
  BY <1>5, <1>6, EvictedSound
<1> QED BY <1>2, <1>6, <1>7

\* These records are all of the chunk of p that ends at n.
OfChunk(keys, p, n) == \A k \in ToSet(keys) : k[1] = ChunkKey[p][n]

\* The records of a save are.
LEMMA SaveRecordsRight ==
  ASSUME work \in Workloads, NEW p \in Prompt, NEW n \in ChunkEnds(p), NEW checkpoint
  PROVE  /\ SaveRecords(p, n, checkpoint) \in Seq(RecordKeys)
         /\ IsInjective(SaveRecords(p, n, checkpoint))
         /\ OfChunk(SaveRecords(p, n, checkpoint), p, n)
<1>1. PICK K : K = {kind \in Kinds : kind = "checkpoint" => checkpoint}
  OBVIOUS
<1>2. K \subseteq AllKinds
  BY <1>1, StoreAssumption DEF Kinds
<1>3. PICK kinds : kinds = WriteOrder(K)
  OBVIOUS
<1>4. kinds \in Seq(AllKinds) /\ IsInjective(kinds)
  BY <1>2, <1>3, OrdersRight
<1>5. PICK u, key : u = SaveRecords(p, n, checkpoint) /\ key = ChunkKey[p][n]
  OBVIOUS
<1>6. u = [i \in DOMAIN kinds |-> <<key, kinds[i]>>]
  BY <1>1, <1>3, <1>5 DEF SaveRecords
<1>7. DOMAIN kinds = 1..Len(kinds) /\ Len(kinds) \in Nat /\ \A i \in 1..Len(kinds) : kinds[i] \in AllKinds
  BY <1>4
<1>8. \A i \in 1..Len(kinds) : <<key, kinds[i]>> \in RecordKeys
  BY <1>5, <1>7 DEF RecordKeys
<1>9. u \in Seq(RecordKeys)
  <2>1. u \in [1..Len(kinds) -> RecordKeys]
    BY <1>6, <1>7, <1>8
  <2> QED BY <2>1, <1>7
<1>10. IsInjective(u)
  <2>1. SUFFICES ASSUME NEW i \in DOMAIN kinds, NEW j \in DOMAIN kinds, u[i] = u[j]
                 PROVE  i = j
    BY <1>6 DEF IsInjective
  <2>2. kinds[i] = kinds[j]
    BY <2>1, <1>6
  <2> QED BY <2>2, <1>4 DEF IsInjective
<1>11. \A k \in ToSet(u) : k[1] = key
  BY <1>6 DEF ToSet
<1> QED BY <1>5, <1>9, <1>10, <1>11 DEF OfChunk

\* Writing records of p leaves the store sound.
LEMMA WrittenSound ==
  ASSUME NEW s, Sound(s), NEW p \in Prompt, NEW n \in ChunkEnds(p),
         NEW keys \in Seq(RecordKeys), IsInjective(keys),
         OfChunk(keys, p, n)
  PROVE  /\ Sound(Written(s, p, keys))
         /\ Written(s, p, keys).sized = s.sized \cup ToSet(keys)
         /\ Written(s, p, keys).lru = Only(s.lru, ToSet(s.lru) \ ToSet(keys)) \o keys
<1>1. PICK blobs : blobs = [k \in DOMAIN s.blobs \cup ToSet(keys) |->
                              IF k \in DOMAIN s.blobs THEN s.blobs[k] ELSE p]
  OBVIOUS
<1>2. PICK t : t = [s EXCEPT !.index = @ \cup ToSet(keys), !.blobs = blobs]
  OBVIOUS
<1>3. Written(s, p, keys) = Touched(t, keys)
  BY <1>1, <1>2 DEF Written
<1>4. Ledger(s) /\ Physical(s) /\ BlobsTrue(s)
  BY DEF Sound
<1>5. s = [index |-> s.index, sized |-> s.sized, lru |-> s.lru, total |-> s.total, blobs |-> s.blobs]
  BY <1>4 DEF Ledger
<1>6. t = [index |-> s.index \cup ToSet(keys), sized |-> s.sized, lru |-> s.lru,
           total |-> s.total, blobs |-> blobs]
  BY <1>2, <1>5
<1>7. t.index = s.index \cup ToSet(keys) /\ t.sized = s.sized /\ t.lru = s.lru
      /\ t.total = s.total /\ t.blobs = blobs
  BY <1>6
<1>8. t = [index |-> t.index, sized |-> t.sized, lru |-> t.lru, total |-> t.total, blobs |-> t.blobs]
  BY <1>6, <1>7
<1>9. Ledger(t)
  BY <1>4, <1>7, <1>8 DEF Ledger
<1>10. PICK r : r = Touched(t, keys)
  OBVIOUS
<1>11. /\ Ledger(r) /\ r.sized = t.sized \cup ToSet(keys) /\ r.index = t.index /\ r.blobs = t.blobs
       /\ r.lru = Only(t.lru, ToSet(t.lru) \ ToSet(keys)) \o keys
  BY <1>9, <1>10, TouchedRight
<1>12. DOMAIN blobs = DOMAIN s.blobs \cup ToSet(keys)
  BY <1>1
<1>13. Physical(r)
  BY <1>4, <1>7, <1>11, <1>12 DEF Physical
<1>14. BlobsTrue(r)
  <2>1. SUFFICES ASSUME NEW k \in DOMAIN blobs
                 PROVE  blobs[k] \in Prompt /\ \E m \in ChunkEnds(blobs[k]) : k[1] = ChunkKey[blobs[k]][m]
    BY <1>7, <1>11 DEF BlobsTrue
  <2>2. CASE k \in DOMAIN s.blobs
    <3>1. blobs[k] = s.blobs[k]
      BY <2>2, <1>1
    <3> QED BY <2>2, <3>1, <1>4 DEF BlobsTrue
  <2>3. CASE k \notin DOMAIN s.blobs
    <3>1. k \in ToSet(keys) /\ blobs[k] = p
      BY <2>1, <2>3, <1>1
    <3> QED BY <3>1 DEF OfChunk
  <2> QED BY <2>2, <2>3
<1> QED BY <1>3, <1>7, <1>10, <1>11, <1>13, <1>14 DEF Sound

\* A chain is restorable when all of its records are there.
LEMMA RestorableIs ==
  ASSUME work \in Workloads, NEW s, Physical(s), NEW p \in Prompt, NEW n \in ChunkEnds(p)
  PROVE  Restorable(s, p, n) <=> Chain(p, n) \subseteq s.sized
<1>1. ToSet(LoadOrder[p][n]) = Chain(p, n)
  BY LoadOrderRight
<1> QED BY <1>1 DEF Restorable, Physical

\* Touching the longest chain that fits leaves the store sound, with its records.
LEMMA ChainTouchedSound ==
  ASSUME work \in Workloads, NEW s, Sound(s), NEW p \in Prompt, NEW n \in ChunkEnds(p)
  PROVE  /\ Sound(ChainTouched(s, p, n)) /\ ChainTouched(s, p, n).sized = s.sized
         /\ FittingChains(s, p, n) # {} =>
              \E e \in FittingChains(s, p, n) :
                /\ \A d \in FittingChains(s, p, n) : d <= e
                /\ ChainTouched(s, p, n) = Touched(s, ChainTouchOrder[p][e])
<1>1. PICK F : F = FittingChains(s, p, n)
  OBVIOUS
<1>2. CASE F = {}
  BY <1>1, <1>2 DEF ChainTouched
<1>3. CASE F # {}
  <2>1. \A e \in F : e \in ChunkEnds(p) /\ e <= n /\ Restorable(s, p, e)
    BY <1>1 DEF FittingChains
  <2>2. F \subseteq Nat /\ n \in Nat
    BY <2>1, EndFacts
  <2>3. PICK e : e = Max(F)
    OBVIOUS
  <2>4. e \in F /\ \A d \in F : d <= e
    BY <1>3, <2>1, <2>2, <2>3, MaxIs
  <2>5. PICK keys : keys = ChainTouchOrder[p][e]
    OBVIOUS
  <2>6. ChainTouched(s, p, n) = Touched(s, keys)
    BY <1>1, <1>3, <2>3, <2>5 DEF ChainTouched
  <2>7. e \in ChunkEnds(p) /\ Restorable(s, p, e)
    BY <2>1, <2>4
  <2>8. keys \in Seq(RecordKeys) /\ IsInjective(keys) /\ ToSet(keys) = Chain(p, e)
    BY <2>5, <2>7, LoadOrderRight
  <2>9. ToSet(keys) \subseteq s.sized
    BY <2>7, <2>8, RestorableIs DEF Sound
  <2>10. Sound(Touched(s, keys)) /\ Touched(s, keys).sized = s.sized
    BY <2>8, <2>9, TouchedSound
  <2> QED BY <1>1, <2>4, <2>5, <2>6, <2>10
<1> QED BY <1>2, <1>3

\* So does publishing a save.
LEMMA PublishedSound ==
  ASSUME work \in Workloads, Sound(store), NEW p \in Prompt, NEW n \in ChunkEnds(p),
         NEW keys \in Seq(RecordKeys), IsInjective(keys),
         OfChunk(keys, p, n)
  PROVE  /\ Sound(Published(p, n, keys))
         /\ Published(p, n, keys).sized = store.sized \cup ToSet(keys)
<1>0. PICK old : old = store
  OBVIOUS
<1>1. PICK s : s = Written(old, p, keys)
  OBVIOUS
<1>2. Sound(s) /\ s.sized = old.sized \cup ToSet(keys)
  <2>1. Sound(old)
    BY <1>0
  <2> QED BY <1>1, <2>1, WrittenSound
<1>3. Sound(ChainTouched(s, p, n)) /\ ChainTouched(s, p, n).sized = s.sized
  BY <1>2, ChainTouchedSound
<1> QED BY <1>0, <1>1, <1>2, <1>3 DEF Published

\* What a restore holds: its plans leave the last token of the prompt, the disk
\* plan is of whole chunks and cuts no image.
JobIs(j) ==
  /\ j = [stage |-> j.stage, prompt |-> j.prompt, entries |-> j.entries, hotLen |-> j.hotLen,
          diskLen |-> j.diskLen, source |-> j.source, len |-> j.len, failed |-> j.failed]
  /\ j.stage \in Stages /\ j.prompt \in Prompt
  /\ j.entries \subseteq Prompt /\ IsFiniteSet(j.entries) /\ Cardinality(j.entries) <= 1
  /\ j.hotLen \in Nat /\ j.hotLen <= Len(Ids[j.prompt]) - 1
  /\ j.diskLen \in Nat /\ j.diskLen <= Len(Ids[j.prompt]) - 1
  /\ j.diskLen # 0 => j.diskLen \in ChunkEnds(j.prompt) /\ ~SplitsImage(j.prompt, j.diskLen)
  /\ j.stage \in {"disk", "reload"} => j.diskLen # 0
  /\ j.len \in Nat /\ j.len <= Len(Ids[j.prompt]) - 1

\* The inductive invariant.
CacheInv ==
  /\ work \in Workloads /\ Sound(store)
  /\ budget \in {0, work.provisional} \cup FinalBudgets /\ store.total <= budget
  /\ layout \in BOOLEAN /\ budgetFinal \in BOOLEAN /\ storeOpen \in BOOLEAN
  /\ ~layout => store.sized = {}
  /\ hot \subseteq Prompt /\ IsFiniteSet(hot) /\ Cardinality(hot) <= 1
  /\ job # Idle => JobIs(job)

\* The prompts that come are prompts, and the budget is a number.
LEMMA InvFacts ==
  ASSUME CacheInv
  PROVE  work.prompts \subseteq Prompt /\ budget \in Nat /\ FinalBudgets \subseteq Nat
<1>1. work \in Workloads /\ budget \in {0, work.provisional} \cup FinalBudgets
  BY DEF CacheInv
<1>2. FinalBudgets \subseteq Nat /\ work.provisional \in Nat
  BY <1>1, StoreAssumption
<1>3. work.prompts \subseteq Prompt
  BY <1>1, StoreAssumption
<1>4. budget = 0 \/ budget = work.provisional \/ budget \in FinalBudgets
  BY <1>1
<1>5. CASE budget \in {0, work.provisional}
  BY <1>2, <1>3, <1>5
<1>6. CASE budget \in FinalBudgets
  <2>1. budget \in Nat
    BY <1>2, <1>6, Zenon
  <2> QED BY <1>2, <1>3, <2>1
<1> QED BY <1>4, <1>5, <1>6

\* A restore that is in a stage is not idle.
LEMMA Working ==
  ASSUME NEW j, j.stage \in Stages
  PROVE  j # Idle
BY DEF Stages, Idle

\* At first the invariant holds.
LEMMA CacheInitInv == CacheInit => CacheInv
<1>1. SUFFICES ASSUME CacheInit PROVE CacheInv
  OBVIOUS
<1>2. /\ work \in Workloads /\ store = EmptyStore /\ layout = FALSE /\ storeOpen = TRUE
      /\ (budget = work.provisional /\ budgetFinal = FALSE) \/ (budget = 0 /\ budgetFinal = TRUE)
      /\ hot = {} /\ job = Idle
  BY <1>1 DEF CacheInit, StoreInit
<1>3. Sound(store) /\ store.sized = {} /\ store.total = 0
  BY <1>2, EmptySound
<1>4. budget \in {0, work.provisional} \cup FinalBudgets /\ budget \in Nat
  BY <1>2, StoreAssumption
<1>5. IsFiniteSet(hot) /\ Cardinality(hot) <= 1
  BY <1>2, FS_EmptySet
<1>6. layout \in BOOLEAN /\ budgetFinal \in BOOLEAN /\ storeOpen \in BOOLEAN
  BY <1>2
<1>7. store.total <= budget
  BY <1>3, <1>4
<1>8. work \in Workloads /\ hot \subseteq Prompt /\ job = Idle
  BY <1>2
<1> QED BY <1>3, <1>4, <1>5, <1>6, <1>7, <1>8 DEF CacheInv

\* The generation thread changes only the hot entry.
LEMMA HotKeeps ==
  ASSUME CacheInv
  PROVE  /\ \A p \in work.prompts : StoreHot(p) => CacheInv'
         /\ ClearHot => CacheInv'
<1>1. ASSUME NEW p \in work.prompts, StoreHot(p) PROVE CacheInv'
  <2>1. p \in Prompt /\ hot' = {p} /\ UNCHANGED <<storeVars, job>>
    BY <1>1, InvFacts DEF StoreHot
  <2>2. IsFiniteSet({p}) /\ Cardinality({p}) = 1
    BY FS_Singleton
  <2>3. hot' \subseteq Prompt /\ IsFiniteSet(hot') /\ Cardinality(hot') <= 1
    BY <2>1, <2>2
  <2> QED BY <2>1, <2>3 DEF CacheInv, storeVars
<1>2. ASSUME ClearHot PROVE CacheInv'
  <2>1. hot' = {} /\ UNCHANGED <<storeVars, job>>
    BY <1>2 DEF ClearHot
  <2>2. hot' \subseteq Prompt /\ IsFiniteSet(hot') /\ Cardinality(hot') <= 1
    BY <2>1, FS_EmptySet
  <2> QED BY <2>1, <2>2 DEF CacheInv, storeVars
<1> QED BY <1>1, <1>2

\* Where a restore goes first.
LEMMA FirstStageRight ==
  ASSUME NEW p, NEW entries, NEW h \in Nat, NEW d \in Nat
  PROVE  \/ /\ FirstStage(p, entries, h, d) = "hot" /\ h > 0
            /\ h = Len(Ids[p]) - 1 \/ d <= h
         \/ FirstStage(p, entries, h, d) = "disk" /\ d > h
         \/ FirstStage(p, entries, h, d) = "done" /\ d = 0 /\ h = 0
BY DEF FirstStage

\* Starting a restore.
LEMMA StartKeeps ==
  ASSUME CacheInv, NEW p \in work.prompts, StartRestore(p)
  PROVE  CacheInv'
<1>1. p \in Prompt
  BY InvFacts
<1>2. PICK h, d : h = HotPrefix(p, hot) /\ d = PlannedPrefix(p)
  OBVIOUS
<1>3. /\ job' = [stage |-> FirstStage(p, hot, h, d), prompt |-> p, entries |-> hot, hotLen |-> h,
                 diskLen |-> d, source |-> "none", len |-> 0, failed |-> FALSE]
      /\ hot' = {} /\ UNCHANGED storeVars
  BY <1>2 DEF StartRestore
<1>4. hot \subseteq Prompt /\ IsFiniteSet(hot) /\ Cardinality(hot) <= 1
  BY DEF CacheInv
<1>5. h \in Nat /\ h <= Len(Ids[p]) - 1
  BY <1>1, <1>2, <1>4, HotPrefixRight
<1>6. d \in Nat /\ d <= Len(Ids[p]) - 1 /\ (d # 0 => d \in ChunkEnds(p) /\ ~SplitsImage(p, d))
  BY <1>1, <1>2, PlannedPrefixRight DEF RestorePoints
<1>7. PICK st : st = FirstStage(p, hot, h, d)
  OBVIOUS
<1>8. st \in Stages /\ (st \in {"disk", "reload"} => d # 0)
  BY <1>5, <1>6, <1>7, FirstStageRight DEF Stages
<1>9. PICK j : j = job'
  OBVIOUS
<1>10. PICK entries : entries = hot
  OBVIOUS
<1>11. j = [stage |-> st, prompt |-> p, entries |-> entries, hotLen |-> h, diskLen |-> d,
            source |-> "none", len |-> 0, failed |-> FALSE]
  BY <1>3, <1>7, <1>9, <1>10
<1>12. /\ j.stage = st /\ j.prompt = p /\ j.entries = entries /\ j.hotLen = h /\ j.diskLen = d
       /\ j.source = "none" /\ j.len = 0 /\ j.failed = FALSE
  BY <1>11
<1>13. Len(Ids[p]) - 1 \in Nat
  BY <1>1, SpanFacts
<1>14. JobIs(j)
  BY <1>1, <1>4, <1>5, <1>6, <1>8, <1>10, <1>11, <1>12, <1>13 DEF JobIs
<1>15. hot' \subseteq Prompt /\ IsFiniteSet(hot') /\ Cardinality(hot') <= 1
  BY <1>3, FS_EmptySet
<1> QED BY <1>3, <1>9, <1>14, <1>15 DEF CacheInv, storeVars

\* The restore after a change of its stage and outcome.
LEMMA JobMoves ==
  ASSUME NEW j, JobIs(j), NEW st \in Stages, st = "reload" => j.diskLen # 0, st # "disk",
         NEW k, \/ k = [j EXCEPT !.stage = st]
                \/ \E f : k = [j EXCEPT !.stage = st, !.failed = f]
                \/ \E so : \E n \in Nat : /\ n <= Len(Ids[j.prompt]) - 1
                                         /\ k = [j EXCEPT !.stage = st, !.source = so, !.len = n]
  PROVE  JobIs(k)
<1>1. j = [stage |-> j.stage, prompt |-> j.prompt, entries |-> j.entries, hotLen |-> j.hotLen,
           diskLen |-> j.diskLen, source |-> j.source, len |-> j.len, failed |-> j.failed]
  BY DEF JobIs
<1>2. \E so, n, f : /\ n \in Nat /\ n <= Len(Ids[j.prompt]) - 1
                    /\ k = [stage |-> st, prompt |-> j.prompt, entries |-> j.entries,
                            hotLen |-> j.hotLen, diskLen |-> j.diskLen, source |-> so,
                            len |-> n, failed |-> f]
  <2>1. CASE k = [j EXCEPT !.stage = st]
    <3>1. k = [stage |-> st, prompt |-> j.prompt, entries |-> j.entries, hotLen |-> j.hotLen,
               diskLen |-> j.diskLen, source |-> j.source, len |-> j.len, failed |-> j.failed]
      BY <1>1, <2>1
    <3> QED BY <3>1 DEF JobIs
  <2>2. CASE \E f : k = [j EXCEPT !.stage = st, !.failed = f]
    <3>1. PICK f : k = [j EXCEPT !.stage = st, !.failed = f]
      BY <2>2
    <3>2. k = [stage |-> st, prompt |-> j.prompt, entries |-> j.entries, hotLen |-> j.hotLen,
               diskLen |-> j.diskLen, source |-> j.source, len |-> j.len, failed |-> f]
      BY <1>1, <3>1
    <3> QED BY <3>2 DEF JobIs
  <2>3. CASE \E so : \E n \in Nat : /\ n <= Len(Ids[j.prompt]) - 1
                                    /\ k = [j EXCEPT !.stage = st, !.source = so, !.len = n]
    <3>1. PICK so, n : n \in Nat /\ n <= Len(Ids[j.prompt]) - 1
                       /\ k = [j EXCEPT !.stage = st, !.source = so, !.len = n]
      BY <2>3
    <3>2. k = [stage |-> st, prompt |-> j.prompt, entries |-> j.entries, hotLen |-> j.hotLen,
               diskLen |-> j.diskLen, source |-> so, len |-> n, failed |-> j.failed]
      BY <1>1, <3>1
    <3> QED BY <3>1, <3>2
  <2> QED BY <2>1, <2>2, <2>3
<1>3. PICK so, n, f : /\ n \in Nat /\ n <= Len(Ids[j.prompt]) - 1
                      /\ k = [stage |-> st, prompt |-> j.prompt, entries |-> j.entries,
                              hotLen |-> j.hotLen, diskLen |-> j.diskLen, source |-> so,
                              len |-> n, failed |-> f]
  BY <1>2
<1>4. /\ k.stage = st /\ k.prompt = j.prompt /\ k.entries = j.entries /\ k.hotLen = j.hotLen
      /\ k.diskLen = j.diskLen /\ k.source = so /\ k.len = n /\ k.failed = f
  BY <1>3
<1>5. k = [stage |-> k.stage, prompt |-> k.prompt, entries |-> k.entries, hotLen |-> k.hotLen,
           diskLen |-> k.diskLen, source |-> k.source, len |-> k.len, failed |-> k.failed]
  BY <1>3, <1>4
<1> QED BY <1>3, <1>4, <1>5 DEF JobIs

\* The plan of a restore from disk.
LEMMA PlanRight ==
  ASSUME CacheInv, job.stage \in {"disk", "reload"}
  PROVE  /\ JobIs(job) /\ job.prompt \in Prompt /\ job.diskLen \in ChunkEnds(job.prompt)
         /\ Plan \in Seq(RecordKeys) /\ IsInjective(Plan)
         /\ ToSet(Plan) = Chain(job.prompt, job.diskLen)
         /\ ChainTouchOrder[job.prompt][job.diskLen] \in Seq(RecordKeys)
         /\ IsInjective(ChainTouchOrder[job.prompt][job.diskLen])
         /\ ToSet(ChainTouchOrder[job.prompt][job.diskLen]) = Chain(job.prompt, job.diskLen)
<1>1. job # Idle
  BY DEF Idle
<1>2. JobIs(job)
  BY <1>1 DEF CacheInv
<1>3. PICK p, n : p = job.prompt /\ n = job.diskLen
  OBVIOUS
<1>4. p \in Prompt /\ n \in ChunkEnds(p)
  BY <1>2, <1>3 DEF JobIs
<1>5. work \in Workloads
  BY DEF CacheInv
<1> QED BY <1>2, <1>3, <1>4, <1>5, LoadOrderRight DEF Plan

\* Loading from disk.
LEMMA LoadDiskKeeps ==
  ASSUME CacheInv, LoadDisk
  PROVE  CacheInv'
<1>1. /\ job.stage \in {"disk", "reload"}
      /\ \A k \in ToSet(Plan) : k \in DOMAIN store.blobs
      /\ store' = Touched(store, ChainTouchOrder[job.prompt][job.diskLen])
      /\ job' = Finished("disk", job.diskLen)
      /\ UNCHANGED <<work, layout, budget, budgetFinal, storeOpen, hot>>
  BY DEF LoadDisk
<1>2. PICK keys, old : keys = ChainTouchOrder[job.prompt][job.diskLen] /\ old = store
  OBVIOUS
<1>3. keys \in Seq(RecordKeys) /\ IsInjective(keys) /\ ToSet(keys) = ToSet(Plan)
  BY <1>1, <1>2, PlanRight
<1>4. Sound(old) /\ ToSet(keys) \subseteq old.sized
  BY <1>1, <1>2, <1>3 DEF CacheInv, Sound, Physical
<1>5. PICK r : r = Touched(old, keys)
  OBVIOUS
<1>6. Sound(r) /\ r.sized = old.sized /\ r.total = old.total
  BY <1>3, <1>4, <1>5, TouchedSound
<1>7. store' = r
  BY <1>1, <1>2, <1>5
<1>8. PICK j, k, n : j = job /\ k = job' /\ n = job.diskLen
  OBVIOUS
<1>9. JobIs(j) /\ n \in Nat /\ n <= Len(Ids[j.prompt]) - 1
  BY <1>1, <1>8, PlanRight DEF JobIs
<1>10. k = [j EXCEPT !.stage = "done", !.source = "disk", !.len = n]
  BY <1>1, <1>8 DEF Finished
<1>11. JobIs(k)
  <2>1. "done" \in Stages
    BY DEF Stages
  <2> QED BY <2>1, <1>9, <1>10, JobMoves
<1> QED BY <1>1, <1>2, <1>6, <1>7, <1>8, <1>11 DEF CacheInv

\* A record that cannot be loaded.
LEMMA LoadDiskFailsKeeps ==
  ASSUME CacheInv, LoadDiskFails
  PROVE  CacheInv'
<1>1. /\ job.stage \in {"disk", "reload"}
      /\ job' = [job EXCEPT !.stage = IF @ = "disk" /\ job.hotLen > 0 THEN "hot" ELSE "done",
                            !.failed = TRUE]
      /\ UNCHANGED <<work, layout, budget, budgetFinal, storeOpen, hot>>
  BY DEF LoadDiskFails
<1>2. PICK i \in DOMAIN Plan : store' = Evicted(store, <<Plan[i]>>)
  BY DEF LoadDiskFails
<1>3. PICK old, x : old = store /\ x = Plan[i]
  OBVIOUS
<1>4. x \in RecordKeys
  <2>1. PICK t : t = Plan
    OBVIOUS
  <2>2. t \in Seq(RecordKeys)
    BY <2>1, <1>1, PlanRight
  <2>3. DOMAIN t = 1..Len(t)
    BY <2>2
  <2> QED BY <2>1, <2>2, <2>3, <1>2, <1>3
<1>5. PICK keys : keys = <<x>>
  OBVIOUS
<1>6. keys \in Seq(RecordKeys) /\ IsInjective(keys)
  <2>1. keys \in Seq(RecordKeys) /\ DOMAIN keys = {1}
    BY <1>4, <1>5
  <2> QED BY <2>1 DEF IsInjective
<1>7. PICK r : r = Evicted(old, keys)
  OBVIOUS
<1>8. Sound(old) /\ old.total \in Nat
  <2>1. Sound(old)
    BY <1>3 DEF CacheInv
  <2> QED BY <2>1, LedgerFacts DEF Sound
<1>9. Sound(r) /\ r.sized = old.sized \ ToSet(keys) /\ r.total <= old.total
  BY <1>6, <1>7, <1>8, EvictedSound
<1>10. r.total \in Nat
  BY <1>9, LedgerFacts DEF Sound
<1>11. store' = r
  BY <1>2, <1>3, <1>5, <1>7
<1>12. r.total <= budget
  BY <1>3, <1>8, <1>9, <1>10, InvFacts DEF CacheInv
<1>13. ~layout => r.sized = {}
  BY <1>3, <1>9 DEF CacheInv
<1>14. PICK j, k : j = job /\ k = job'
  OBVIOUS
<1>15. PICK st : st = IF j.stage = "disk" /\ j.hotLen > 0 THEN "hot" ELSE "done"
  OBVIOUS
<1>16. JobIs(j)
  BY <1>1, <1>14, PlanRight
<1>17. k = [j EXCEPT !.stage = st, !.failed = TRUE]
  BY <1>1, <1>14, <1>15
<1>18. st \in Stages /\ st # "reload" /\ st # "disk"
  BY <1>15 DEF Stages
<1>19. JobIs(k)
  BY <1>16, <1>17, <1>18, JobMoves
<1> QED BY <1>1, <1>11, <1>9, <1>12, <1>13, <1>14, <1>19 DEF CacheInv

\* Using the hot cache, or not, and handing over.
LEMMA LoadHotKeeps ==
  ASSUME CacheInv, LoadHot \/ HandOver
  PROVE  CacheInv'
<1>1. CASE LoadHot
  <2>1. /\ job.stage = "hot" /\ UNCHANGED <<storeVars, hot>>
        /\ job' = IF HotLoads(job.entries, job.hotLen) THEN Finished("hot", job.hotLen)
                  ELSE [job EXCEPT !.stage = IF job.diskLen > 0 THEN "reload" ELSE "done"]
    BY <1>1 DEF LoadHot
  <2>2. job # Idle
    BY <2>1 DEF Idle
  <2>3. PICK j, k, n : j = job /\ k = job' /\ n = job.hotLen
    OBVIOUS
  <2>4. JobIs(j) /\ n \in Nat /\ n <= Len(Ids[j.prompt]) - 1 /\ j.diskLen \in Nat
    BY <2>2, <2>3 DEF CacheInv, JobIs
  <2>5. JobIs(k)
    <3>1. CASE HotLoads(job.entries, job.hotLen)
      <4>1. k = [j EXCEPT !.stage = "done", !.source = "hot", !.len = n]
        BY <2>1, <2>3, <3>1 DEF Finished
      <4>2. "done" \in Stages
        BY DEF Stages
      <4> QED BY <4>1, <4>2, <2>4, JobMoves
    <3>2. CASE ~HotLoads(job.entries, job.hotLen)
      <4>1. PICK st : st = IF j.diskLen > 0 THEN "reload" ELSE "done"
        OBVIOUS
      <4>2. k = [j EXCEPT !.stage = st]
        BY <2>1, <2>3, <3>2, <4>1
      <4>3. st \in Stages /\ (st = "reload" => j.diskLen # 0) /\ st # "disk"
        BY <4>1, <2>4 DEF Stages
      <4> QED BY <4>2, <4>3, <2>4, JobMoves
    <3> QED BY <3>1, <3>2
  <2> QED BY <2>1, <2>3, <2>5 DEF CacheInv, storeVars
<1>2. CASE HandOver
  BY <1>2 DEF HandOver, CacheInv, storeVars
<1> QED BY <1>1, <1>2

\* A commit stores records of one chunk and evicts to the budget.
LEMMA CommitStores ==
  ASSUME CacheInv, NEW p \in work.prompts, NEW n \in ChunkEnds(p), NEW checkpoint \in BOOLEAN,
         Commit(p, n, checkpoint)
  PROVE  /\ p \in Prompt /\ layout' = TRUE
         /\ UNCHANGED <<work, budget, budgetFinal, storeOpen, hot, job>>
         /\ \E keys \in Seq(RecordKeys) :
              /\ IsInjective(keys) /\ OfChunk(keys, p, n)
              /\ store' = EvictedTo(Published(p, n, keys), budget)
<1>1. p \in Prompt
  BY InvFacts
<1>2. CommitSave(p, n, checkpoint) /\ UNCHANGED <<hot, job>>
  BY DEF Commit
<1>3. PICK saved : saved = SaveRecords(p, n, checkpoint)
  OBVIOUS
<1>4. layout' = TRUE /\ UNCHANGED <<work, budget, budgetFinal, storeOpen>>
  BY <1>2 DEF CommitSave
<1>5. PICK w \in 0..Len(saved) : store' = EvictedTo(Published(p, n, SubSeq(saved, 1, w)), budget)
  BY <1>2, <1>3 DEF CommitSave
<1>6. saved \in Seq(RecordKeys) /\ IsInjective(saved) /\ OfChunk(saved, p, n)
  <2>1. work \in Workloads
    BY DEF CacheInv
  <2> QED BY <2>1, <1>1, <1>3, SaveRecordsRight
<1>7. PICK keys : keys = SubSeq(saved, 1, w)
  OBVIOUS
<1>8. keys \in Seq(RecordKeys) /\ IsInjective(keys) /\ ToSet(keys) = {saved[i] : i \in 1..w}
  BY <1>5, <1>6, <1>7, FirstOf
<1>9. OfChunk(keys, p, n)
  <2>1. ToSet(saved) = {saved[i] : i \in 1..Len(saved)} /\ Len(saved) \in Nat
    BY <1>6, Elements
  <2>2. \A i \in 1..w : i \in 1..Len(saved)
    BY <2>1, <1>5
  <2>3. ToSet(keys) \subseteq ToSet(saved)
    BY <2>1, <2>2, <1>8
  <2> QED BY <2>3, <1>6 DEF OfChunk
<1> QED BY <1>1, <1>2, <1>4, <1>5, <1>7, <1>8, <1>9

\* A commit keeps the invariant.
LEMMA CommitKeeps ==
  ASSUME CacheInv, NEW p \in work.prompts, NEW n \in ChunkEnds(p), NEW checkpoint \in BOOLEAN,
         Commit(p, n, checkpoint)
  PROVE  CacheInv'
<1>1. /\ p \in Prompt /\ layout' = TRUE
      /\ UNCHANGED <<work, budget, budgetFinal, storeOpen, hot, job>>
  BY CommitStores
<1>2. PICK keys \in Seq(RecordKeys) : /\ IsInjective(keys) /\ OfChunk(keys, p, n)
                                      /\ store' = EvictedTo(Published(p, n, keys), budget)
  BY CommitStores
<1>3. PICK s, r, b : s = Published(p, n, keys) /\ b = budget /\ r = EvictedTo(s, b)
  OBVIOUS
<1>4. Sound(s)
  <2>1. work \in Workloads /\ Sound(store)
    BY DEF CacheInv
  <2> QED BY <2>1, <1>1, <1>2, <1>3, PublishedSound
<1>5. b \in Nat
  BY <1>3, InvFacts
<1>6. Sound(r) /\ r.total <= b
  BY <1>3, <1>4, <1>5, EvictedToSound
<1>7. store' = r
  BY <1>2, <1>3
<1> QED BY <1>1, <1>3, <1>6, <1>7 DEF CacheInv

\* A budget update evicts to the new budget.
LEMMA UpdateKeeps ==
  ASSUME CacheInv, NEW bytes \in FinalBudgets, UpdateBudget(bytes)
  PROVE  CacheInv'
<1>1. /\ budget' = bytes /\ budgetFinal' = TRUE /\ store' = EvictedTo(store, bytes)
      /\ UNCHANGED <<work, layout, storeOpen, hot, job>>
  BY DEF UpdateBudget, CommitBudgetUpdate
<1>2. PICK old, r : old = store /\ r = EvictedTo(old, bytes)
  OBVIOUS
<1>3. Sound(old) /\ bytes \in Nat
  BY <1>2, InvFacts DEF CacheInv
<1>4. Sound(r) /\ r.total <= bytes /\ r.sized \subseteq old.sized
  BY <1>2, <1>3, EvictedToSound
<1>5. store' = r
  BY <1>1, <1>2
<1>6. ~layout => r.sized = {}
  BY <1>2, <1>4 DEF CacheInv
<1> QED BY <1>1, <1>4, <1>5, <1>6 DEF CacheInv

\* Closing empties the store.
LEMMA CloseCacheKeeps ==
  ASSUME CacheInv, CloseCache
  PROVE  CacheInv'
<1>1. /\ store' = EmptyStore /\ layout' = FALSE /\ storeOpen' = FALSE
      /\ UNCHANGED <<work, budget, budgetFinal, hot, job>>
  BY DEF CloseCache, CloseStore
<1>2. PICK r : r = EmptyStore
  OBVIOUS
<1>3. Sound(r) /\ r.sized = {} /\ r.total = 0
  BY <1>2, EmptySound
<1>4. r.total <= budget
  BY <1>3, InvFacts
<1> QED BY <1>1, <1>2, <1>3, <1>4 DEF CacheInv

\* Every step keeps the invariant.
LEMMA CacheStepKeeps ==
  ASSUME CacheInv, [CacheNext]_cacheVars
  PROVE  CacheInv'
<1>1. CASE CacheNext
  <2>1. \/ \E p \in work.prompts :
             \/ StoreHot(p)
             \/ StartRestore(p)
             \/ \E n \in ChunkEnds(p) : \E checkpoint \in BOOLEAN : Commit(p, n, checkpoint)
        \/ ClearHot
        \/ LoadDisk \/ LoadDiskFails \/ LoadHot \/ HandOver
        \/ \E bytes \in FinalBudgets : UpdateBudget(bytes)
        \/ CloseCache
    BY <1>1 DEF CacheNext
  <2>2. ASSUME NEW p \in work.prompts, StoreHot(p) PROVE CacheInv'
    BY <2>2, HotKeeps
  <2>3. ASSUME NEW p \in work.prompts, StartRestore(p) PROVE CacheInv'
    BY <2>3, StartKeeps
  <2>4. ASSUME NEW p \in work.prompts, NEW n \in ChunkEnds(p), NEW checkpoint \in BOOLEAN,
               Commit(p, n, checkpoint)
        PROVE  CacheInv'
    BY <2>4, CommitKeeps
  <2>5. CASE ClearHot
    BY <2>5, HotKeeps
  <2>6. CASE LoadDisk
    BY <2>6, LoadDiskKeeps
  <2>7. CASE LoadDiskFails
    BY <2>7, LoadDiskFailsKeeps
  <2>8. CASE LoadHot \/ HandOver
    BY <2>8, LoadHotKeeps
  <2>9. ASSUME NEW bytes \in FinalBudgets, UpdateBudget(bytes) PROVE CacheInv'
    BY <2>9, UpdateKeeps
  <2>10. CASE CloseCache
    BY <2>10, CloseCacheKeeps
  <2> QED BY <2>1, <2>2, <2>3, <2>4, <2>5, <2>6, <2>7, <2>8, <2>9, <2>10
<1>2. CASE UNCHANGED cacheVars
  BY <1>2 DEF cacheVars, storeVars, CacheInv
<1> QED BY <1>1, <1>2

\* It always holds.
LEMMA CacheInvHolds == CacheSpec => []CacheInv
<1>1. CacheInv /\ [CacheNext]_cacheVars => CacheInv'
  BY CacheStepKeeps
<1> QED BY <1>1, CacheInitInv, PTL DEF CacheSpec

\* It says that the records agree, and more.
LEMMA ConsistentByInv == CacheInv => StoreConsistent
<1>1. SUFFICES ASSUME CacheInv PROVE StoreConsistent
  OBVIOUS
<1>2. PICK s : s = store
  OBVIOUS
<1>3. Ledger(s) /\ Physical(s)
  BY <1>1, <1>2 DEF CacheInv, Sound
<1>4. /\ s.sized \in SUBSET RecordKeys /\ s.total \in Nat /\ s.total = SumOf(s.sized)
      /\ s.lru \in Seq(RecordKeys) /\ IsInjective(s.lru) /\ s.sized = ToSet(s.lru)
  BY <1>3, LedgerFacts
<1>5. s.index = s.sized /\ DOMAIN s.blobs = s.sized
  BY <1>3 DEF Physical
<1>6. s.total = MapThenSumSet(LAMBDA k : Size[k[2]], DOMAIN s.blobs)
  BY <1>4, <1>5 DEF SumOf
<1>7. IndexAgrees
  BY <1>2, <1>4, <1>5, <1>6 DEF IndexAgrees
<1>8. job # Idle => /\ job.stage \in Stages /\ job.prompt \in Prompt
                    /\ job.len \in 0..(Len(Ids[job.prompt]) - 1)
  <2>1. SUFFICES ASSUME job # Idle
                 PROVE  /\ job.stage \in Stages /\ job.prompt \in Prompt
                        /\ job.len \in 0..(Len(Ids[job.prompt]) - 1)
    OBVIOUS
  <2>2. JobIs(job)
    BY <1>1, <2>1 DEF CacheInv
  <2>3. job.prompt \in Prompt /\ job.len \in Nat /\ job.len <= Len(Ids[job.prompt]) - 1
        /\ job.stage \in Stages
    BY <2>2 DEF JobIs
  <2>4. Len(Ids[job.prompt]) \in Nat
    BY <2>3, SpanFacts
  <2> QED BY <2>3, <2>4
<1>9. /\ layout \in BOOLEAN /\ budgetFinal \in BOOLEAN /\ storeOpen \in BOOLEAN
      /\ budget \in {0, work.provisional} \cup FinalBudgets
      /\ hot \subseteq Prompt /\ Cardinality(hot) <= 1 /\ store.total <= budget
  BY <1>1 DEF CacheInv
<1>10. CacheTypeOK
  BY <1>2, <1>4, <1>5, <1>8, <1>9 DEF CacheTypeOK
<1> QED BY <1>7, <1>9, <1>10 DEF StoreConsistent, WithinBudget

\* The index, the sizes, the LRU order, the byte count and the blob store
\* speak of the same records, and these fit the disk budget, whatever
\* writes and loads fail, for any prompts, sizes and budgets.
THEOREM StoreStaysConsistent == CacheSpec => []StoreConsistent
BY CacheInvHolds, ConsistentByInv, PTL

-----------------------------------------------------------------------------
(* What restores give, and what commits leave.                             *)

\* Where the chunk of the i-th token ends.
EndOf(i) == (((i - 1) \div ChunkSize) + 1) * ChunkSize

\* The factors of a chunk and the next.
LEMMA NextChunk ==
  ASSUME NEW C \in Nat \ {0}, NEW k \in Nat
  PROVE  (k + 1) * C = k * C + C /\ k * C \in Nat
OBVIOUS

\* A token's chunk ends at it or after it, and a chunk ends at its last token.
LEMMA EndOfRight ==
  ASSUME NEW p \in Prompt, NEW n \in ChunkEnds(p)
  PROVE  /\ \A i \in 1..n : EndOf(i) \in ChunkEnds(p) /\ i <= EndOf(i) /\ EndOf(i) <= n
         /\ EndOf(n) = n /\ n % ChunkSize = 0
<1>1. PICK C : C = ChunkSize
  OBVIOUS
<1>2. C \in Nat \ {0}
  BY <1>1, PromptAssumption
<1>3. n \in Nat \ {0} /\ n <= Len(Ids[p]) /\ Len(Ids[p]) \in Nat
  BY EndFacts, PromptAssumption
<1>4. PICK j \in Nat \ {0} : n = j * C
  BY <1>1, EndFacts
<1>5. n % C = 0
  BY <1>1 DEF ChunkEnds
<1>6. ASSUME NEW i \in 1..n
      PROVE  EndOf(i) \in ChunkEnds(p) /\ i <= EndOf(i) /\ EndOf(i) <= n
  <2>1. PICK h : h = i - 1
    OBVIOUS
  <2>2. h \in Nat /\ h < n /\ i = h + 1
    BY <1>3, <2>1
  <2>3. PICK k : k = h \div C
    OBVIOUS
  <2>4. k \in Nat /\ k * C <= h /\ h < k * C + C
    BY <1>2, <2>2, <2>3, Quotients
  <2>5. (k + 1) * C = k * C + C /\ k * C \in Nat
    BY <1>2, <2>4, NextChunk
  <2>6. PICK m : m = (k + 1) * C
    OBVIOUS
  <2>7. EndOf(i) = m
    BY <1>1, <2>1, <2>3, <2>6 DEF EndOf
  <2>8. m \in Nat \ {0} /\ i <= m
    BY <1>2, <2>2, <2>4, <2>5, <2>6
  <2>9. m <= n
    <3>1. j <= k => j * C <= k * C
      BY <1>2, <2>4, ChunksApart
    <3>2. ~ (j <= k)
      BY <1>3, <1>4, <2>2, <2>4, <2>5, <3>1
    <3>3. k < j
      BY <2>4, <3>2
    <3>4. k < j => k * C + C <= j * C
      BY <1>2, <2>4, ChunksApart
    <3> QED BY <1>4, <2>5, <2>6, <3>3, <3>4
  <2>10. PICK x \in Nat \ {0} : x = k + 1
    BY <2>4
  <2>11. m \div C = x
    <3>1. x * C = m
      BY <2>6, <2>10
    <3>2. x * C <= m /\ m < x * C + C
      BY <1>2, <2>8, <3>1
    <3>3. x * C <= m /\ m < x * C + C => m \div C = x
      BY <1>2, <2>8, <2>10, Quotients
    <3> QED BY <3>2, <3>3
  <2>12. m \in ChunkEnds(p)
    <3>1. m = x * C
      BY <2>6, <2>10
    <3>2. m <= Len(Ids[p])
      BY <1>3, <2>8, <2>9
    <3> QED BY <1>1, <2>8, <2>11, <3>1, <3>2, EndFacts
  <2> QED BY <2>7, <2>8, <2>9, <2>12
<1>7. EndOf(n) = n
  <2>1. PICK h : h = n - 1
    OBVIOUS
  <2>2. PICK k : k = j - 1
    OBVIOUS
  <2>3. k \in Nat /\ h \in Nat /\ j = k + 1 /\ n = h + 1
    BY <1>3, <2>1, <2>2
  <2>4. (k + 1) * C = k * C + C /\ k * C \in Nat
    BY <1>2, <2>3, NextChunk
  <2>5. (k + 1) * C = n
    BY <1>4, <2>3
  <2>6. k * C <= h /\ h < k * C + C
    BY <1>2, <2>3, <2>4, <2>5
  <2>7. h \div C = k
    BY <1>2, <2>3, <2>6, Quotients
  <2> QED BY <1>1, <2>1, <2>5, <2>7 DEF EndOf
<1> QED BY <1>1, <1>5, <1>6, <1>7

\* The layers of the model are of the kinds there are, and there is one.
LEMMA KindsAre ==
  ASSUME work \in Workloads
  PROVE  Kinds \subseteq AllKinds /\ Kinds # {}
BY StoreAssumption DEF Kinds

\* A record of p is there, if the model has layers of its kind.
There(s, p, e, kind) == kind \in Kinds => <<ChunkKey[p][e], kind>> \in DOMAIN s.blobs

\* What OnDisk says, chunk by chunk.
LEMMA OnDiskIs ==
  ASSUME NEW s, NEW p \in Prompt, NEW n \in ChunkEnds(p)
  PROVE  OnDisk(s, p, n) <=>
           /\ \A i \in 1..n : /\ There(s, p, EndOf(i), "kv")
                              /\ i + Window > n => There(s, p, EndOf(i), "rotating")
           /\ There(s, p, n, "checkpoint")
<1>1. n % ChunkSize = 0 /\ EndOf(n) = n
  BY EndOfRight
<1>2. n \in Nat /\ n > 0
  BY EndFacts
<1>3. There(s, p, EndOf(n), "checkpoint") <=> There(s, p, n, "checkpoint")
  BY <1>1
<1> QED BY <1>1, <1>2, <1>3 DEF OnDisk, There, EndOf

\* The records of a chain, by kind.
LEMMA ChainHas ==
  ASSUME work \in Workloads, NEW p \in Prompt, NEW n \in ChunkEnds(p),
         NEW e \in ChunkEnds(p), e <= n, NEW kind \in Kinds, Needed(kind, e, n)
  PROVE  <<ChunkKey[p][e], kind>> \in Chain(p, n)
<1>1. kind \in AllKinds
  BY KindsAre
<1>2. <<ChunkKey[p][e], kind>> \in RecordKeys
  BY <1>1 DEF RecordKeys
<1> QED BY <1>2 DEF Chain

\* The records of all the tokens of a prefix are there exactly if those of the
\* chain are that the code looks for.
LEMMA OnDiskRight ==
  ASSUME work \in Workloads, NEW s, NEW p \in Prompt, NEW n \in ChunkEnds(p)
  PROVE  OnDisk(s, p, n) <=> Chain(p, n) \subseteq DOMAIN s.blobs
<1>1. n \in Nat \ {0} /\ Window \in Nat \ {0}
  BY EndFacts, StoreAssumption
<1>2. ASSUME Chain(p, n) \subseteq DOMAIN s.blobs
      PROVE  OnDisk(s, p, n)
  <2>1. ASSUME NEW e \in ChunkEnds(p), e <= n, NEW kind, Needed(kind, e, n)
        PROVE  There(s, p, e, kind)
    BY <1>2, <2>1, ChainHas DEF There
  <2>2. ASSUME NEW i \in 1..n
        PROVE  There(s, p, EndOf(i), "kv")
    <3>1. EndOf(i) \in ChunkEnds(p) /\ EndOf(i) <= n
      BY EndOfRight
    <3>2. Needed("kv", EndOf(i), n)
      BY DEF Needed
    <3> QED BY <2>1, <3>1, <3>2
  <2>3. ASSUME NEW i \in 1..n, i + Window > n
        PROVE  There(s, p, EndOf(i), "rotating")
    <3>1. EndOf(i) \in ChunkEnds(p) /\ EndOf(i) <= n /\ i <= EndOf(i)
      BY EndOfRight
    <3>2. EndOf(i) \in Nat
      BY <3>1, EndFacts
    <3>3. EndOf(i) + Window > n
      BY <1>1, <2>3, <3>1, <3>2
    <3>4. Needed("rotating", EndOf(i), n)
      BY <3>3 DEF Needed
    <3> QED BY <2>1, <3>1, <3>4
  <2>4. There(s, p, n, "checkpoint")
    <3>1. Needed("checkpoint", n, n) /\ n <= n
      BY <1>1 DEF Needed
    <3> QED BY <2>1, <3>1
  <2> QED BY <2>2, <2>3, <2>4, OnDiskIs
<1>3. ASSUME OnDisk(s, p, n)
      PROVE  Chain(p, n) \subseteq DOMAIN s.blobs
  <2>1. SUFFICES ASSUME NEW k \in Chain(p, n) PROVE k \in DOMAIN s.blobs
    OBVIOUS
  <2>2. PICK e \in ChunkEnds(p) : e <= n /\ \E kind \in Kinds :
                                    Needed(kind, e, n) /\ k = <<ChunkKey[p][e], kind>>
    BY <2>1 DEF Chain
  <2>3. PICK kind \in Kinds : Needed(kind, e, n) /\ k = <<ChunkKey[p][e], kind>>
    BY <2>2
  <2>4. e \in 1..n /\ EndOf(e) = e
    BY <2>2, <1>1, EndFacts, EndOfRight
  <2>5. /\ There(s, p, EndOf(e), "kv")
        /\ e + Window > n => There(s, p, EndOf(e), "rotating")
        /\ There(s, p, n, "checkpoint")
    BY <1>3, <2>4, OnDiskIs
  <2>6. There(s, p, e, kind)
    BY <2>3, <2>4, <2>5 DEF Needed
  <2> QED BY <2>3, <2>6 DEF There
<1> QED BY <1>2, <1>3

\* What two lists share up to n they share up to any m before it.
LEMMA SharedBefore ==
  ASSUME NEW T, NEW s \in Seq(T), NEW R, NEW t \in Seq(R), NEW n \in Nat, NEW m \in Nat,
         m <= n, n <= Len(s), n <= Len(t), SubSeq(s, 1, n) = SubSeq(t, 1, n)
  PROVE  SubSeq(s, 1, m) = SubSeq(t, 1, m)
<1>1. n \in 0..Len(s) /\ n \in 0..Len(t) /\ m \in 0..Len(s) /\ m \in 0..Len(t)
  OBVIOUS
<1>2. /\ \A i \in 1..n : SubSeq(s, 1, n)[i] = s[i]
      /\ \A i \in 1..n : SubSeq(t, 1, n)[i] = t[i]
  BY <1>1, FirstOf
<1>3. \A i \in 1..m : s[i] = t[i]
  <2>1. \A i \in 1..m : i \in 1..n
    OBVIOUS
  <2> QED BY <1>2, <2>1
<1>4. /\ SubSeq(s, 1, m) \in Seq(T) /\ Len(SubSeq(s, 1, m)) = m
      /\ \A i \in 1..m : SubSeq(s, 1, m)[i] = s[i]
  BY <1>1, FirstOf
<1>5. /\ SubSeq(t, 1, m) \in Seq(R) /\ Len(SubSeq(t, 1, m)) = m
      /\ \A i \in 1..m : SubSeq(t, 1, m)[i] = t[i]
  BY <1>1, FirstOf
<1>6. PICK u, v : u = SubSeq(s, 1, m) /\ v = SubSeq(t, 1, m)
  OBVIOUS
<1>7. u = [i \in 1..m |-> u[i]] /\ v = [i \in 1..m |-> v[i]]
  <2>1. u \in Seq(T) /\ Len(u) = m /\ v \in Seq(R) /\ Len(v) = m
    BY <1>4, <1>5, <1>6
  <2> QED BY <2>1
<1>8. \A i \in 1..m : u[i] = v[i]
  BY <1>3, <1>4, <1>5, <1>6
<1> QED BY <1>6, <1>7, <1>8

\* Where reuse cannot start.
LEMMA Starts ==
  ASSUME NEW n, NEW p \in Prompt, NEW q \in Prompt
  PROVE  \A x : x \in NonReusableStarts(n, p, q) <=>
                  \E y \in ToSet(Spans[p]) : /\ x = y.start /\ y.start < n
                                             /\ y.end > n \/ y \notin ToSet(Spans[q])
BY DEF NonReusableStarts

\* The images of p that begin before r are images of q, if there is no other
\* start of p's that r passes.
LEMMA ImagesShared ==
  ASSUME NEW p \in Prompt, NEW q \in Prompt, NEW n \in Nat, NEW r \in Nat, r <= n,
         \A x \in NonReusableStarts(n, p, q) : r <= x
  PROVE  \A y \in ToSet(Spans[p]) : y.start < r => y \in ToSet(Spans[q]) /\ y.end <= n
<1>1. SUFFICES ASSUME NEW y \in ToSet(Spans[p]), y.start < r
               PROVE  y \in ToSet(Spans[q]) /\ y.end <= n
  OBVIOUS
<1>2. y.start \in Nat /\ y.end \in Nat
  BY SpanFacts
<1>3. y.start < n
  BY <1>1, <1>2
<1>4. ~ (r <= y.start)
  BY <1>1, <1>2
<1>5. y.start \notin NonReusableStarts(n, p, q)
  BY <1>4
<1>6. ~ (y.end > n) /\ y \in ToSet(Spans[q])
  BY <1>3, <1>5, Starts
<1> QED BY <1>2, <1>6

\* A prefix seen alike in p and q: the same tokens, the same images begin in it.
Alike(p, q, n) ==
  /\ n <= Len(Ids[p]) /\ n <= Len(Ids[q])
  /\ SubSeq(Ids[p], 1, n) = SubSeq(Ids[q], 1, n)
  /\ \A y : y \in ToSet(Spans[p]) /\ y.start < n <=> y \in ToSet(Spans[q]) /\ y.start < n

\* The prefix that image_safe_common_prefix_len finds is seen alike, and cuts
\* no image.
LEMMA ImageSafeAlike ==
  ASSUME NEW p \in Prompt, NEW q \in Prompt, NEW limit \in Nat,
         NEW r, r = ImageSafeCommonPrefix(p, q, limit)
  PROVE  r \in Nat /\ r <= limit /\ Alike(p, q, r) /\ ~SplitsImage(p, r)
<1>1. PICK n \in Nat :
           /\ n <= limit /\ n <= CommonTokens(p, q) /\ (n = limit \/ n = CommonTokens(p, q))
           /\ r \in Nat /\ r <= n
           /\ r = n \/ r \in NonReusableStarts(n, p, q) \/ r \in NonReusableStarts(n, q, p)
           /\ \A x \in NonReusableStarts(n, p, q) \cup NonReusableStarts(n, q, p) : r <= x
  BY ImageSafeRight
<1>2. PICK c : c = CommonTokens(p, q)
  OBVIOUS
<1>3. /\ c \in Nat /\ c <= Len(Ids[p]) /\ c <= Len(Ids[q])
      /\ SubSeq(Ids[p], 1, c) = SubSeq(Ids[q], 1, c)
  BY <1>2, CommonTokensRight
<1>4. /\ Len(Ids[p]) \in Nat /\ Ids[p] \in Seq(ToSet(Ids[p]))
      /\ Len(Ids[q]) \in Nat /\ Ids[q] \in Seq(ToSet(Ids[q]))
  BY SpanFacts
<1>5. r <= c /\ r <= limit /\ r <= Len(Ids[p]) /\ r <= Len(Ids[q])
  BY <1>1, <1>2, <1>3, <1>4
<1>6. SubSeq(Ids[p], 1, r) = SubSeq(Ids[q], 1, r)
  BY <1>1, <1>3, <1>4, <1>5, SharedBefore
<1>7. \A y \in ToSet(Spans[p]) : y.start < r => y \in ToSet(Spans[q]) /\ y.end <= n
  BY <1>1, ImagesShared
<1>8. \A y \in ToSet(Spans[q]) : y.start < r => y \in ToSet(Spans[p]) /\ y.end <= n
  BY <1>1, ImagesShared
<1>9. Alike(p, q, r)
  BY <1>5, <1>6, <1>7, <1>8 DEF Alike
<1>10. ~SplitsImage(p, r)
  <2>1. SUFFICES ASSUME NEW y \in ToSet(Spans[p]), y.start < r, r < y.end PROVE FALSE
    BY DEF SplitsImage
  <2>2. y \in ToSet(Spans[q]) /\ y.end <= n /\ y.start \in Nat /\ y.end \in Nat
    BY <1>7, <2>1, SpanFacts
  <2>3. r # n
    BY <1>1, <2>1, <2>2
  <2>4. \E z : (z \in ToSet(Spans[p]) \/ z \in ToSet(Spans[q])) /\ r = z.start
    BY <1>1, <2>3, Starts
  <2>5. PICK z : (z \in ToSet(Spans[p]) \/ z \in ToSet(Spans[q])) /\ r = z.start
    BY <2>4
  <2>6. /\ z.start \in Nat /\ z.end \in Nat /\ z.start < z.end
        /\ z = y \/ z.end <= y.start \/ y.end <= z.start
    BY <2>1, <2>2, <2>5, SpanFacts
  <2> QED BY <1>1, <2>1, <2>2, <2>5, <2>6
<1> QED BY <1>1, <1>5, <1>9, <1>10

\* It is the longest such prefix up to the limit.
LEMMA ImageSafeLongest ==
  ASSUME NEW p \in Prompt, NEW q \in Prompt, NEW limit \in Nat,
         NEW m \in Nat, m <= limit, Alike(p, q, m), ~SplitsImage(p, m)
  PROVE  m <= ImageSafeCommonPrefix(p, q, limit)
<1>1. PICK r : r = ImageSafeCommonPrefix(p, q, limit)
  OBVIOUS
<1>2. PICK n \in Nat :
           /\ n <= limit /\ n <= CommonTokens(p, q) /\ (n = limit \/ n = CommonTokens(p, q))
           /\ r \in Nat /\ r <= n
           /\ r = n \/ r \in NonReusableStarts(n, p, q) \/ r \in NonReusableStarts(n, q, p)
  BY <1>1, ImageSafeRight
<1>3. m <= Len(Ids[p]) /\ m <= Len(Ids[q]) /\ SubSeq(Ids[p], 1, m) = SubSeq(Ids[q], 1, m)
  BY DEF Alike
<1>4. m \in 0..Len(Ids[p])
  BY <1>3, SpanFacts
<1>5. m <= CommonTokens(p, q)
  BY <1>3, <1>4, CommonTokensRight
<1>6. m <= n
  BY <1>2, <1>5
<1>7. ASSUME NEW y, y \in ToSet(Spans[p]) \/ y \in ToSet(Spans[q]), y.start \in Nat, y.end \in Nat,
             y.start < m
      PROVE  y \in ToSet(Spans[p]) /\ y \in ToSet(Spans[q]) /\ ~ (y.end > n)
  <2>1. y \in ToSet(Spans[p]) /\ y \in ToSet(Spans[q])
    BY <1>7 DEF Alike
  <2>2. ~ (m < y.end)
    BY <1>7, <2>1 DEF SplitsImage
  <2> QED BY <1>2, <1>6, <1>7, <2>1, <2>2
<1>8. ASSUME m > r PROVE FALSE
  <2>1. r # n
    BY <1>2, <1>6, <1>8
  <2>2. ASSUME NEW y, y \in ToSet(Spans[p]) \/ y \in ToSet(Spans[q]), r = y.start
        PROVE  y \in ToSet(Spans[p]) /\ y \in ToSet(Spans[q]) /\ ~ (y.end > n)
    <3>1. y.start \in Nat /\ y.end \in Nat
      BY <2>2, SpanFacts
    <3>2. y.start < m
      BY <1>2, <1>8, <2>2
    <3> QED BY <1>7, <2>2, <3>1, <3>2
  <2>3. r \notin NonReusableStarts(n, p, q)
    BY <2>2, Starts
  <2>4. r \notin NonReusableStarts(n, q, p)
    BY <2>2, Starts
  <2> QED BY <1>2, <2>1, <2>3, <2>4
<1> QED BY <1>1, <1>2, <1>8

\* Two prompts are seen alike up to n exactly if the views of both agree.
LEMMA AlikeIs ==
  ASSUME NEW p \in Prompt, NEW q \in Prompt, NEW n
  PROVE  Alike(p, q, n) <=> n <= Len(Ids[p]) /\ n <= Len(Ids[q]) /\ View(q, n) = View(p, n)
<1>1. PICK a, b, P, Q :
        /\ a = SubSeq(Ids[p], 1, n) /\ b = SubSeq(Ids[q], 1, n)
        /\ P = {span \in ToSet(Spans[p]) : span.start < n}
        /\ Q = {span \in ToSet(Spans[q]) : span.start < n}
  OBVIOUS
<1>2. View(q, n) = View(p, n) <=> a = b /\ P = Q
  BY <1>1 DEF View
<1>3. P = Q <=> \A y : y \in ToSet(Spans[p]) /\ y.start < n <=> y \in ToSet(Spans[q]) /\ y.start < n
  BY <1>1
<1> QED BY <1>1, <1>2, <1>3 DEF Alike

\* Chain and HotLoads, by the kinds of layer they depend on.
Links(kinds, p, n) ==
  {k \in RecordKeys :
     \E e \in ChunkEnds(p) : e <= n /\ \E kind \in kinds :
        Needed(kind, e, n) /\ k = <<ChunkKey[p][e], kind>>}

Loads(kinds, entries, n) ==
  \A q \in entries : Len(Ids[q]) > n =>
    "checkpoint" \notin kinds /\ ("rotating" \in kinds => Len(Ids[q]) < Window)

\* They are what they stand for.
LEMMA ByKinds ==
  /\ \A p, n : Chain(p, n) = Links(work.kinds, p, n)
  /\ \A entries, n : HotLoads(entries, n) <=> Loads(work.kinds, entries, n)
BY DEF Chain, Links, Kinds, HotLoads, Loads, Trimmable

\* A chain is of one record at least.
LEMMA ChainNotEmpty ==
  ASSUME work \in Workloads, NEW p \in Prompt, NEW n \in ChunkEnds(p)
  PROVE  Chain(p, n) # {}
<1>1. n \in Nat /\ n <= n /\ n + Window > n
  BY EndFacts, StoreAssumption
<1>2. PICK kind \in Kinds : kind \in AllKinds
  BY KindsAre
<1>3. Needed(kind, n, n)
  BY <1>1, <1>2 DEF AllKinds, Needed
<1> QED BY <1>1, <1>2, <1>3, ChainHas

\* d is the longest prefix of p that these records restore, 0 for none.
Planned(p, d, kinds, there) ==
  /\ d # 0 => Links(kinds, p, d) \subseteq there
  /\ \A n \in ChunkEnds(p) :
       n <= Len(Ids[p]) - 1 /\ ~SplitsImage(p, n) /\ Links(kinds, p, n) \subseteq there => n <= d

\* So is the plan.
LEMMA PlannedIs ==
  ASSUME CacheInv, NEW p \in Prompt
  PROVE  Planned(p, PlannedPrefix(p), work.kinds, store.sized)
<1>1. work \in Workloads /\ Physical(store) /\ (~layout => store.sized = {})
  BY DEF CacheInv, Sound
<1>2. PICK s, d, K : s = store /\ d = PlannedPrefix(p) /\ K = work.kinds
  OBVIOUS
<1>3. \A n \in ChunkEnds(p) : Restorable(s, p, n) <=> Links(K, p, n) \subseteq s.sized
  BY <1>1, <1>2, RestorableIs, ByKinds
<1>4. /\ d # 0 => d \in RestorePoints(p)
      /\ layout => \A n \in RestorePoints(p) : n <= d
  BY <1>2, PlannedPrefixRight
<1>5. RestorePoints(p) = {n \in ChunkEnds(p) : n <= Len(Ids[p]) - 1 /\ ~SplitsImage(p, n)
                                                 /\ Restorable(s, p, n)}
  BY <1>2 DEF RestorePoints
<1>6. d # 0 => Links(K, p, d) \subseteq s.sized
  BY <1>3, <1>4, <1>5
<1>7. ASSUME NEW n \in ChunkEnds(p), n <= Len(Ids[p]) - 1, ~SplitsImage(p, n),
             Links(K, p, n) \subseteq s.sized
      PROVE  n <= d
  <2>1. n \in RestorePoints(p)
    BY <1>3, <1>5, <1>7
  <2>2. layout
    <3>1. Links(K, p, n) # {}
      BY <1>1, <1>2, ChainNotEmpty, ByKinds
    <3>2. s.sized # {}
      BY <1>7, <3>1
    <3> QED BY <1>1, <1>2, <3>2
  <2> QED BY <1>4, <2>1, <2>2
<1> QED BY <1>2, <1>6, <1>7 DEF Planned

\* Nothing more can be had from disk than from the hot cache.
HotWins(j) == j.hotLen = Len(Ids[j.prompt]) - 1 \/ j.diskLen <= j.hotLen \/ j.failed

\* Why a finished restore gives what it gives.
Settled(j, kinds, there) ==
  \/ /\ j.source = "none" /\ j.len = 0
     /\ j.failed \/ (j.diskLen = 0 /\ (j.hotLen = 0 \/ ~Loads(kinds, j.entries, j.hotLen)))
  \/ /\ j.source = "hot" /\ j.len = j.hotLen
     /\ Loads(kinds, j.entries, j.hotLen) /\ HotWins(j)
  \/ /\ j.source = "disk" /\ j.len = j.diskLen /\ j.diskLen # 0
     /\ Links(kinds, j.prompt, j.diskLen) \subseteq there
     /\ j.diskLen > j.hotLen \/ ~Loads(kinds, j.entries, j.hotLen)

\* What a restore knows at each stage.
JobFits(j, kinds, there) ==
  /\ j.hotLen = HotPrefix(j.prompt, j.entries)
  /\ j.failed \in BOOLEAN
  /\ ~j.failed => Planned(j.prompt, j.diskLen, kinds, there)
  /\ j.stage # "done" => j.source = "none" /\ j.len = 0
  /\ j.stage = "disk" => j.diskLen > j.hotLen
  /\ j.stage = "hot" => j.hotLen > 0 /\ HotWins(j)
  /\ j.stage = "reload" => ~Loads(kinds, j.entries, j.hotLen)
  /\ j.stage = "done" => Settled(j, kinds, there)

\* The invariant of the restores.
RestoreInv == CacheInv /\ (job # Idle => JobFits(job, work.kinds, store.sized))

\* Where a restore starts.
LEMMA StartFits ==
  ASSUME RestoreInv, NEW p \in work.prompts, StartRestore(p)
  PROVE  RestoreInv'
<1>1. CacheInv /\ CacheInv' /\ p \in Prompt
  BY StartKeeps, InvFacts DEF RestoreInv
<1>2. PICK h, d, K, there, entries :
        /\ h = HotPrefix(p, hot) /\ d = PlannedPrefix(p)
        /\ K = work.kinds /\ there = store.sized /\ entries = hot
  OBVIOUS
<1>3. /\ job' = [stage |-> FirstStage(p, entries, h, d), prompt |-> p, entries |-> entries,
                 hotLen |-> h, diskLen |-> d, source |-> "none", len |-> 0, failed |-> FALSE]
      /\ UNCHANGED storeVars
  BY <1>2 DEF StartRestore
<1>4. work'.kinds = K /\ store'.sized = there
  BY <1>2, <1>3 DEF storeVars
<1>5. PICK st : st = FirstStage(p, entries, h, d)
  OBVIOUS
<1>6. PICK j : j = job'
  OBVIOUS
<1>7. j = [stage |-> st, prompt |-> p, entries |-> entries, hotLen |-> h, diskLen |-> d,
           source |-> "none", len |-> 0, failed |-> FALSE]
  BY <1>3, <1>5, <1>6
<1>8. /\ j.stage = st /\ j.prompt = p /\ j.entries = entries /\ j.hotLen = h /\ j.diskLen = d
      /\ j.source = "none" /\ j.len = 0 /\ j.failed = FALSE
  BY <1>7
<1>9. h \in Nat /\ d \in Nat
  <2>1. hot \subseteq Prompt
    BY <1>1 DEF CacheInv
  <2> QED BY <2>1, <1>1, <1>2, HotPrefixRight, PlannedPrefixRight
<1>10. \/ st = "hot" /\ h > 0 /\ (h = Len(Ids[p]) - 1 \/ d <= h)
       \/ st = "disk" /\ d > h
       \/ st = "done" /\ d = 0 /\ h = 0
  BY <1>5, <1>9, FirstStageRight
<1>11. Planned(p, d, K, there)
  BY <1>1, <1>2, PlannedIs
<1>12. h = HotPrefix(p, entries)
  BY <1>2
<1>13. JobFits(j, K, there)
  <2>1. st = "hot" => h > 0 /\ HotWins(j)
    BY <1>8, <1>10 DEF HotWins
  <2>2. st = "done" => Settled(j, K, there)
    BY <1>8, <1>10 DEF Settled
  <2>3. st # "reload" /\ (st = "disk" => d > h)
    BY <1>10
  <2> QED BY <1>8, <1>11, <1>12, <2>1, <2>2, <2>3 DEF JobFits
<1> QED BY <1>1, <1>4, <1>6, <1>13 DEF RestoreInv

\* A restore at work is as its lemmas say.
LEMMA RestoreFacts ==
  ASSUME RestoreInv, job.stage \in Stages
  PROVE  /\ CacheInv /\ JobIs(job) /\ JobFits(job, work.kinds, store.sized)
         /\ work \in Workloads /\ Sound(store)
BY Working DEF RestoreInv, CacheInv

\* k is j after a change of stage, outcome or failure.
Becomes(j, k, st, so, n, f) ==
  \/ k = [j EXCEPT !.stage = st] /\ so = j.source /\ n = j.len /\ f = j.failed
  \/ k = [j EXCEPT !.stage = st, !.failed = f] /\ so = j.source /\ n = j.len
  \/ k = [j EXCEPT !.stage = st, !.source = so, !.len = n] /\ f = j.failed

\* Its parts.
LEMMA JobParts ==
  ASSUME NEW j, JobIs(j), NEW st, NEW so, NEW n, NEW f, NEW k, Becomes(j, k, st, so, n, f)
  PROVE  /\ k.stage = st /\ k.source = so /\ k.len = n /\ k.failed = f
         /\ k.prompt = j.prompt /\ k.entries = j.entries
         /\ k.hotLen = j.hotLen /\ k.diskLen = j.diskLen
<1>1. j = [stage |-> j.stage, prompt |-> j.prompt, entries |-> j.entries, hotLen |-> j.hotLen,
           diskLen |-> j.diskLen, source |-> j.source, len |-> j.len, failed |-> j.failed]
  BY DEF JobIs
<1>2. k = [stage |-> st, prompt |-> j.prompt, entries |-> j.entries, hotLen |-> j.hotLen,
           diskLen |-> j.diskLen, source |-> so, len |-> n, failed |-> f]
  <2>1. CASE k = [j EXCEPT !.stage = st] /\ so = j.source /\ n = j.len /\ f = j.failed
    BY <1>1, <2>1
  <2>2. CASE k = [j EXCEPT !.stage = st, !.failed = f] /\ so = j.source /\ n = j.len
    BY <1>1, <2>2
  <2>3. CASE k = [j EXCEPT !.stage = st, !.source = so, !.len = n] /\ f = j.failed
    BY <1>1, <2>3
  <2> QED BY <2>1, <2>2, <2>3 DEF Becomes
<1> QED BY <1>2

\* A restore that loads from disk gives what it planned.
LEMMA LoadDiskFits ==
  ASSUME RestoreInv, LoadDisk
  PROVE  RestoreInv'
<1>1. /\ job.stage \in {"disk", "reload"}
      /\ \A k \in ToSet(Plan) : k \in DOMAIN store.blobs
      /\ store' = Touched(store, ChainTouchOrder[job.prompt][job.diskLen])
      /\ job' = Finished("disk", job.diskLen)
      /\ UNCHANGED <<work, layout, budget, budgetFinal, storeOpen, hot>>
  BY DEF LoadDisk
<1>2. CacheInv /\ CacheInv'
  BY LoadDiskKeeps DEF RestoreInv
<1>3. PICK j, k, n, K, there : /\ j = job /\ k = job' /\ n = job.diskLen
                               /\ K = work.kinds /\ there = store.sized
  OBVIOUS
<1>4. JobIs(j) /\ JobFits(j, K, there)
  <2>1. job.stage \in Stages
    BY <1>1 DEF Stages
  <2> QED BY <2>1, <1>3, RestoreFacts
<1>5. k = [j EXCEPT !.stage = "done", !.source = "disk", !.len = n]
  BY <1>1, <1>3 DEF Finished
<1>6. /\ k.stage = "done" /\ k.source = "disk" /\ k.len = n /\ k.failed = j.failed
      /\ k.prompt = j.prompt /\ k.entries = j.entries /\ k.hotLen = j.hotLen /\ k.diskLen = j.diskLen
  <2>1. Becomes(j, k, "done", "disk", n, j.failed)
    BY <1>5 DEF Becomes
  <2> QED BY <2>1, <1>4, JobParts
<1>7. work'.kinds = K
  BY <1>1, <1>3
<1>8. store'.sized = there /\ Links(K, j.prompt, n) \subseteq there
  <2>1. PICK old, keys, plan : /\ old = store /\ keys = ChainTouchOrder[job.prompt][job.diskLen]
                               /\ plan = ToSet(Plan)
    OBVIOUS
  <2>2. /\ keys \in Seq(RecordKeys) /\ IsInjective(keys) /\ ToSet(keys) = plan
        /\ plan = Chain(j.prompt, n)
    BY <1>1, <1>2, <1>3, <2>1, PlanRight
  <2>3. Sound(old) /\ DOMAIN old.blobs = old.sized
    BY <1>2, <2>1 DEF CacheInv, Sound, Physical
  <2>4. plan \subseteq old.sized
    BY <1>1, <2>1, <2>3
  <2>5. PICK r : r = Touched(old, keys)
    OBVIOUS
  <2>6. r.sized = old.sized
    BY <2>2, <2>3, <2>4, <2>5, TouchedSound
  <2>7. store' = r
    BY <1>1, <2>1, <2>5
  <2>8. Chain(j.prompt, n) = Links(K, j.prompt, n)
    BY <1>3, ByKinds
  <2> QED BY <1>3, <2>1, <2>2, <2>4, <2>6, <2>7, <2>8
<1>9. j.diskLen # 0 /\ (j.diskLen > j.hotLen \/ ~Loads(K, j.entries, j.hotLen)) /\ j.diskLen = n
  BY <1>1, <1>3, <1>4 DEF JobIs, JobFits
<1>10. Settled(k, K, there)
  BY <1>6, <1>8, <1>9 DEF Settled
<1>11. JobFits(k, K, there)
  BY <1>4, <1>6, <1>10 DEF JobFits
<1> QED BY <1>2, <1>3, <1>7, <1>8, <1>11 DEF RestoreInv

\* One that fails to load falls back on the hot cache, if there is a hot plan.
LEMMA LoadDiskFailsFits ==
  ASSUME RestoreInv, LoadDiskFails
  PROVE  RestoreInv'
<1>1. /\ job.stage \in {"disk", "reload"}
      /\ job' = [job EXCEPT !.stage = IF @ = "disk" /\ job.hotLen > 0 THEN "hot" ELSE "done",
                            !.failed = TRUE]
      /\ work' = work
  BY DEF LoadDiskFails
<1>2. CacheInv /\ CacheInv'
  BY LoadDiskFailsKeeps DEF RestoreInv
<1>3. PICK j, k, K, there : j = job /\ k = job' /\ K = work.kinds /\ there = store.sized
  OBVIOUS
<1>4. JobIs(j) /\ JobFits(j, K, there)
  <2>1. job.stage \in Stages
    BY <1>1 DEF Stages
  <2> QED BY <2>1, <1>3, RestoreFacts
<1>5. PICK st : st = IF j.stage = "disk" /\ j.hotLen > 0 THEN "hot" ELSE "done"
  OBVIOUS
<1>6. k = [j EXCEPT !.stage = st, !.failed = TRUE]
  BY <1>1, <1>3, <1>5
<1>7. /\ k.stage = st /\ k.source = j.source /\ k.len = j.len /\ k.failed = TRUE
      /\ k.prompt = j.prompt /\ k.entries = j.entries /\ k.hotLen = j.hotLen /\ k.diskLen = j.diskLen
  <2>1. PICK f : f = TRUE
    OBVIOUS
  <2>2. Becomes(j, k, st, j.source, j.len, f)
    BY <1>6, <2>1 DEF Becomes
  <2>3. /\ k.stage = st /\ k.source = j.source /\ k.len = j.len /\ k.failed = f
        /\ k.prompt = j.prompt /\ k.entries = j.entries
        /\ k.hotLen = j.hotLen /\ k.diskLen = j.diskLen
    BY <2>2, <1>4, JobParts
  <2> QED BY <2>1, <2>3
<1>8. PICK now : now = store'.sized
  OBVIOUS
<1>9. j.source = "none" /\ j.len = 0
  BY <1>1, <1>3, <1>4 DEF JobFits
<1>10. st = "hot" => k.hotLen > 0 /\ HotWins(k)
  BY <1>5, <1>7 DEF HotWins
<1>11. Settled(k, K, now)
  BY <1>7, <1>9 DEF Settled
<1>12. st = "hot" \/ st = "done"
  BY <1>5
<1>13. JobFits(k, K, now)
  BY <1>4, <1>7, <1>9, <1>10, <1>11, <1>12 DEF JobFits
<1> QED BY <1>1, <1>2, <1>3, <1>8, <1>13 DEF RestoreInv

\* One that uses the hot cache, or must go back to the disk.
LEMMA LoadHotFits ==
  ASSUME RestoreInv, LoadHot
  PROVE  RestoreInv'
<1>1. /\ job.stage = "hot" /\ UNCHANGED <<storeVars, hot>>
      /\ job' = IF HotLoads(job.entries, job.hotLen) THEN Finished("hot", job.hotLen)
                ELSE [job EXCEPT !.stage = IF job.diskLen > 0 THEN "reload" ELSE "done"]
  BY DEF LoadHot
<1>2. CacheInv /\ CacheInv'
  BY LoadHotKeeps DEF RestoreInv
<1>3. PICK j, k, n, K, there : /\ j = job /\ k = job' /\ n = job.hotLen
                               /\ K = work.kinds /\ there = store.sized
  OBVIOUS
<1>4. JobIs(j) /\ JobFits(j, K, there)
  <2>1. job.stage \in Stages
    BY <1>1 DEF Stages
  <2> QED BY <2>1, <1>3, RestoreFacts
<1>5. work'.kinds = K /\ store'.sized = there
  BY <1>1, <1>3 DEF storeVars
<1>6. j.stage = "hot" /\ j.hotLen = n /\ HotWins(j) /\ j.source = "none" /\ j.len = 0
  BY <1>1, <1>3, <1>4 DEF JobFits
<1>7. HotLoads(job.entries, job.hotLen) <=> Loads(K, j.entries, n)
  BY <1>3, ByKinds
<1>8. JobFits(k, K, there)
  <2>1. CASE Loads(K, j.entries, n)
    <3>1. k = [j EXCEPT !.stage = "done", !.source = "hot", !.len = n]
      BY <1>1, <1>3, <1>7, <2>1 DEF Finished
    <3>2. /\ k.stage = "done" /\ k.source = "hot" /\ k.len = n /\ k.failed = j.failed
          /\ k.prompt = j.prompt /\ k.entries = j.entries
          /\ k.hotLen = j.hotLen /\ k.diskLen = j.diskLen
      <4>1. Becomes(j, k, "done", "hot", n, j.failed)
        BY <3>1 DEF Becomes
      <4> QED BY <4>1, <1>4, JobParts
    <3>3. HotWins(k)
      BY <1>6, <3>2 DEF HotWins
    <3>4. Settled(k, K, there)
      BY <1>6, <2>1, <3>2, <3>3 DEF Settled
    <3> QED BY <1>4, <3>2, <3>4 DEF JobFits
  <2>2. CASE ~Loads(K, j.entries, n)
    <3>1. PICK st : st = IF j.diskLen > 0 THEN "reload" ELSE "done"
      OBVIOUS
    <3>2. k = [j EXCEPT !.stage = st]
      BY <1>1, <1>3, <1>7, <2>2, <3>1
    <3>3. /\ k.stage = st /\ k.source = j.source /\ k.len = j.len /\ k.failed = j.failed
          /\ k.prompt = j.prompt /\ k.entries = j.entries
          /\ k.hotLen = j.hotLen /\ k.diskLen = j.diskLen
      <4>1. Becomes(j, k, st, j.source, j.len, j.failed)
        BY <3>2 DEF Becomes
      <4> QED BY <4>1, <1>4, JobParts
    <3>4. ~Loads(K, k.entries, k.hotLen)
      BY <1>6, <2>2, <3>3
    <3>5. st = "done" => Settled(k, K, there)
      <4>1. j.diskLen \in Nat
        BY <1>4 DEF JobIs
      <4>2. st = "done" => k.diskLen = 0
        BY <3>1, <3>3, <4>1
      <4> QED BY <1>6, <3>3, <3>4, <4>2 DEF Settled
    <3>6. st = "reload" \/ st = "done"
      BY <3>1
    <3> QED BY <1>4, <1>6, <3>3, <3>4, <3>5, <3>6 DEF JobFits
  <2> QED BY <2>1, <2>2
<1> QED BY <1>2, <1>3, <1>5, <1>8 DEF RestoreInv

\* Every step keeps the invariant of the restores.
LEMMA RestoreStepKeeps ==
  ASSUME RestoreInv, [CacheNext]_cacheVars
  PROVE  RestoreInv'
<1>1. CacheInv /\ CacheInv'
  BY CacheStepKeeps DEF RestoreInv
\* The restore idle.
<1>2. ASSUME job' = Idle PROVE RestoreInv'
  BY <1>1, <1>2 DEF RestoreInv
\* The restore and what it reads as they were.
<1>3. ASSUME UNCHANGED <<work, store, job>> PROVE RestoreInv'
  BY <1>1, <1>3 DEF RestoreInv
<1>4. ASSUME CacheNext PROVE RestoreInv'
  <2>1. \/ \E p \in work.prompts :
             \/ StoreHot(p)
             \/ StartRestore(p)
             \/ \E n \in ChunkEnds(p) : \E checkpoint \in BOOLEAN : Commit(p, n, checkpoint)
        \/ ClearHot
        \/ LoadDisk \/ LoadDiskFails \/ LoadHot \/ HandOver
        \/ \E bytes \in FinalBudgets : UpdateBudget(bytes)
        \/ CloseCache
    BY <1>4 DEF CacheNext
  <2>2. ASSUME NEW p \in work.prompts, StoreHot(p) PROVE RestoreInv'
    BY <2>2, <1>3 DEF StoreHot, storeVars
  <2>3. ASSUME NEW p \in work.prompts, StartRestore(p) PROVE RestoreInv'
    BY <2>3, StartFits
  <2>4. ASSUME NEW p \in work.prompts, NEW n \in ChunkEnds(p), NEW checkpoint \in BOOLEAN,
               Commit(p, n, checkpoint)
        PROVE  RestoreInv'
    BY <2>4, <1>2 DEF Commit
  <2>5. CASE ClearHot
    BY <2>5, <1>3 DEF ClearHot, storeVars
  <2>6. CASE LoadDisk
    BY <2>6, LoadDiskFits
  <2>7. CASE LoadDiskFails
    BY <2>7, LoadDiskFailsFits
  <2>8. CASE LoadHot
    BY <2>8, LoadHotFits
  <2>9. CASE HandOver
    BY <2>9, <1>2 DEF HandOver
  <2>10. ASSUME NEW bytes \in FinalBudgets, UpdateBudget(bytes) PROVE RestoreInv'
    BY <2>10, <1>2 DEF UpdateBudget
  <2>11. CASE CloseCache
    BY <2>11, <1>2 DEF CloseCache
  <2> QED BY <2>1, <2>2, <2>3, <2>4, <2>5, <2>6, <2>7, <2>8, <2>9, <2>10, <2>11
<1>5. ASSUME UNCHANGED cacheVars PROVE RestoreInv'
  BY <1>5, <1>3 DEF cacheVars, storeVars
<1> QED BY <1>4, <1>5

\* It always holds.
LEMMA RestoreInvHolds == CacheSpec => []RestoreInv
<1>1. CacheInit => RestoreInv
  BY CacheInitInv DEF CacheInit, RestoreInv
<1>2. RestoreInv /\ [CacheNext]_cacheVars => RestoreInv'
  BY RestoreStepKeeps
<1> QED BY <1>1, <1>2, PTL DEF CacheSpec

\* What the hot cache serves of p, and how much of it.
LEMMA HotServes ==
  ASSUME NEW p \in Prompt, NEW entries, entries \subseteq Prompt, IsFiniteSet(entries),
         Cardinality(entries) <= 1, NEW h, h = HotPrefix(p, entries)
  PROVE  /\ h # 0 => \E q \in entries : Alike(p, q, h) /\ ~SplitsImage(p, h)
         /\ \A q \in entries : \A n \in Nat :
              n <= Len(Ids[p]) - 1 /\ Alike(p, q, n) /\ ~SplitsImage(p, n) => n <= h
         /\ \A q, r \in entries : q = r
<1>1. PICK limit : limit = Len(Ids[p]) - 1
  OBVIOUS
<1>2. limit \in Nat
  BY <1>1, SpanFacts
<1>3. /\ h \in Nat
      /\ h = 0 \/ \E q \in entries : h = ImageSafeCommonPrefix(p, q, limit)
      /\ \A q \in entries : ImageSafeCommonPrefix(p, q, limit) <= h
  BY <1>1, HotPrefixRight
<1>4. ASSUME h # 0
      PROVE  \E q \in entries : Alike(p, q, h) /\ ~SplitsImage(p, h)
  <2>1. PICK q \in entries : h = ImageSafeCommonPrefix(p, q, limit)
    BY <1>3, <1>4
  <2>2. q \in Prompt
    BY <2>1
  <2> QED BY <1>2, <2>1, <2>2, ImageSafeAlike
<1>5. ASSUME NEW q \in entries, NEW n \in Nat,
             n <= Len(Ids[p]) - 1, Alike(p, q, n), ~SplitsImage(p, n)
      PROVE  n <= h
  <2>1. PICK m : m = ImageSafeCommonPrefix(p, q, limit)
    OBVIOUS
  <2>2. n <= m
    BY <1>1, <1>2, <1>5, <2>1, ImageSafeLongest
  <2>3. m \in Nat
    BY <1>2, <2>1, ImageSafeAlike
  <2>4. m <= h
    BY <1>3, <2>1
  <2> QED BY <1>3, <2>2, <2>3, <2>4
<1>6. ASSUME NEW q \in entries, NEW r \in entries PROVE q = r
  <2>1. SUFFICES ASSUME q # r PROVE FALSE
    OBVIOUS
  <2>2. {q, r} \subseteq entries
    OBVIOUS
  <2>3. Cardinality({q, r}) <= Cardinality(entries) /\ Cardinality(entries) \in Nat
    BY <2>2, FS_Subset, FS_CardinalityType
  <2>4. Cardinality({q, r}) = 2
    <3>1. IsFiniteSet({q}) /\ Cardinality({q}) = 1
      BY FS_Singleton
    <3>2. Cardinality({q} \cup {r}) = Cardinality({q}) + 1
      BY <2>1, <3>1, FS_AddElement
    <3>3. {q} \cup {r} = {q, r}
      OBVIOUS
    <3> QED BY <3>1, <3>2, <3>3
  <2> QED BY <2>3, <2>4
<1> QED BY <1>4, <1>5, <1>6

\* The prefixes of p that a source serves.
Served(p, entries) ==
  {n \in 0..(Len(Ids[p]) - 1) :
     /\ ~SplitsImage(p, n)
     /\ (n > 0 /\ OnDisk(store, p, n)) \/ (\E q \in entries : InHot(q, p, n))}

\* What is served from disk, and what from the hot cache.
LEMMA ServedIs ==
  ASSUME CacheInv, NEW p \in Prompt, NEW entries, entries \subseteq Prompt, NEW n \in Nat
  PROVE  n \in Served(p, entries) <=>
           /\ n <= Len(Ids[p]) - 1 /\ ~SplitsImage(p, n)
           /\ \/ n \in ChunkEnds(p) /\ Links(work.kinds, p, n) \subseteq store.sized
              \/ \E q \in entries : Alike(p, q, n) /\ (n < Len(Ids[q]) => Trimmable(q))
<1>1. PICK len : len = Len(Ids[p])
  OBVIOUS
<1>2. len \in Nat \ {0}
  BY <1>1, SpanFacts
<1>3. n \in Served(p, entries) <=>
        /\ n <= len - 1 /\ ~SplitsImage(p, n)
        /\ (n > 0 /\ OnDisk(store, p, n)) \/ (\E q \in entries : InHot(q, p, n))
  BY <1>1, <1>2 DEF Served
<1>4. ASSUME n <= len - 1
      PROVE  n > 0 /\ OnDisk(store, p, n) <=>
               n \in ChunkEnds(p) /\ Links(work.kinds, p, n) \subseteq store.sized
  <2>1. n > 0 /\ OnDisk(store, p, n) => n \in ChunkEnds(p)
    <3>1. OnDisk(store, p, n) => n % ChunkSize = 0
      BY DEF OnDisk
    <3>2. n > 0 => n \in 1..len
      BY <1>2, <1>4
    <3> QED BY <1>1, <3>1, <3>2 DEF ChunkEnds
  <2>2. n \in ChunkEnds(p) => n > 0
    BY EndFacts
  <2>3. ASSUME n \in ChunkEnds(p)
        PROVE  OnDisk(store, p, n) <=> Links(work.kinds, p, n) \subseteq store.sized
    <3>1. work \in Workloads /\ DOMAIN store.blobs = store.sized
      BY DEF CacheInv, Sound, Physical
    <3>2. OnDisk(store, p, n) <=> Chain(p, n) \subseteq DOMAIN store.blobs
      BY <2>3, <3>1, OnDiskRight
    <3> QED BY <3>1, <3>2, ByKinds
  <2> QED BY <2>1, <2>2, <2>3
<1>5. ASSUME n <= len - 1, NEW q \in entries
      PROVE  InHot(q, p, n) <=> Alike(p, q, n) /\ (n < Len(Ids[q]) => Trimmable(q))
  <2>1. n <= Len(Ids[p])
    BY <1>1, <1>2, <1>5
  <2>2. Alike(p, q, n) <=> n <= Len(Ids[q]) /\ View(q, n) = View(p, n)
    BY <2>1, AlikeIs
  <2> QED BY <2>2 DEF InHot
<1> QED BY <1>1, <1>3, <1>4, <1>5

\* Loads says that the hot cache can be cut where it must be.
LEMMA LoadsIs ==
  ASSUME NEW entries, NEW n
  PROVE  Loads(work.kinds, entries, n) <=> \A q \in entries : Len(Ids[q]) > n => Trimmable(q)
BY DEF Loads, Trimmable, Kinds

\* Nothing that is served is longer than both plans; without a hot plan that
\* loads, none is longer than the disk plan.
LEMMA ServedAtMost ==
  ASSUME CacheInv, NEW p \in Prompt, NEW entries, entries \subseteq Prompt, IsFiniteSet(entries),
         Cardinality(entries) <= 1, NEW h, h = HotPrefix(p, entries),
         NEW d \in Nat, Planned(p, d, work.kinds, store.sized), NEW n \in Served(p, entries)
  PROVE  /\ n \in Nat /\ n <= Len(Ids[p]) - 1
         /\ n <= d \/ (n <= h /\ Loads(work.kinds, entries, h))
<1>1. n \in Nat
  BY DEF Served
<1>2. /\ n <= Len(Ids[p]) - 1 /\ ~SplitsImage(p, n)
      /\ \/ n \in ChunkEnds(p) /\ Links(work.kinds, p, n) \subseteq store.sized
         \/ \E q \in entries : Alike(p, q, n) /\ (n < Len(Ids[q]) => Trimmable(q))
  BY <1>1, ServedIs
<1>3. CASE n \in ChunkEnds(p) /\ Links(work.kinds, p, n) \subseteq store.sized
  BY <1>1, <1>2, <1>3 DEF Planned
<1>4. ASSUME NEW q \in entries, Alike(p, q, n), n < Len(Ids[q]) => Trimmable(q)
      PROVE  n <= h /\ Loads(work.kinds, entries, h)
  <2>1. n <= h /\ \A r \in entries : q = r
    BY <1>1, <1>2, <1>4, HotServes
  <2>2. Len(Ids[q]) \in Nat /\ h \in Nat
    BY SpanFacts, HotPrefixRight
  <2>3. Len(Ids[q]) > h => Trimmable(q)
    BY <1>1, <1>4, <2>1, <2>2
  <2>4. \A r \in entries : Len(Ids[r]) > h => Trimmable(r)
    BY <2>1, <2>3
  <2> QED BY <2>1, <2>4, LoadsIs
<1> QED BY <1>1, <1>2, <1>3, <1>4

\* A plan that is taken is served.
LEMMA PlansServed ==
  ASSUME CacheInv, NEW p \in Prompt, NEW entries, entries \subseteq Prompt, IsFiniteSet(entries),
         Cardinality(entries) <= 1, NEW h, h = HotPrefix(p, entries)
  PROVE  /\ h # 0 /\ Loads(work.kinds, entries, h) => h \in Served(p, entries)
         /\ \A d \in ChunkEnds(p) :
              /\ ~SplitsImage(p, d) /\ d <= Len(Ids[p]) - 1
              /\ Links(work.kinds, p, d) \subseteq store.sized
              => d \in Served(p, entries)
<1>1. h \in Nat /\ h <= Len(Ids[p]) - 1
  BY HotPrefixRight
<1>2. ASSUME h # 0, Loads(work.kinds, entries, h)
      PROVE  h \in Served(p, entries)
  <2>1. PICK q \in entries : Alike(p, q, h) /\ ~SplitsImage(p, h)
    BY <1>2, HotServes
  <2>2. Len(Ids[q]) \in Nat
    BY SpanFacts
  <2>3. h < Len(Ids[q]) => Trimmable(q)
    BY <1>1, <1>2, <2>2, LoadsIs
  <2> QED BY <1>1, <2>1, <2>3, ServedIs
<1>3. ASSUME NEW d \in ChunkEnds(p), ~SplitsImage(p, d), d <= Len(Ids[p]) - 1,
             Links(work.kinds, p, d) \subseteq store.sized
      PROVE  d \in Served(p, entries)
  <2>1. d \in Nat
    BY EndFacts
  <2> QED BY <1>3, <2>1, ServedIs
<1> QED BY <1>2, <1>3

\* A restore that did not fail gives the longest prefix that is served.
LEMMA LongestByInv == RestoreInv => RestoresLongest
<1>1. SUFFICES ASSUME RestoreInv, job.stage = "done", ~job.failed
               PROVE  LET p == job.prompt
                          Can == {n \in 0..(Len(Ids[p]) - 1) :
                                   /\ ~SplitsImage(p, n)
                                   /\ \/ n > 0 /\ OnDisk(store, p, n)
                                      \/ \E q \in job.entries : InHot(q, p, n)}
                      IN  job.len = Max({0} \cup Can)
  BY DEF RestoresLongest
<1>2. CacheInv /\ JobIs(job) /\ JobFits(job, work.kinds, store.sized)
  <2>1. job.stage \in Stages
    BY <1>1 DEF Stages
  <2> QED BY <1>1, <2>1, RestoreFacts
<1>3. PICK p, entries, h, d, len, K : /\ p = job.prompt /\ entries = job.entries /\ h = job.hotLen
                                      /\ d = job.diskLen /\ len = job.len /\ K = work.kinds
  OBVIOUS
<1>4. /\ p \in Prompt /\ entries \subseteq Prompt /\ IsFiniteSet(entries) /\ Cardinality(entries) <= 1
      /\ h \in Nat /\ d \in Nat /\ len \in Nat /\ d <= Len(Ids[p]) - 1 /\ h <= Len(Ids[p]) - 1
      /\ d # 0 => d \in ChunkEnds(p) /\ ~SplitsImage(p, d)
  BY <1>2, <1>3 DEF JobIs
<1>5. h = HotPrefix(p, entries) /\ Planned(p, d, K, store.sized) /\ Settled(job, K, store.sized)
  BY <1>1, <1>2, <1>3 DEF JobFits
<1>6. PICK can : can = Served(p, entries)
  OBVIOUS
<1>7. \A n \in can : /\ n \in Nat /\ n <= Len(Ids[p]) - 1
                     /\ n <= d \/ (n <= h /\ Loads(K, entries, h))
  BY <1>2, <1>3, <1>4, <1>5, <1>6, ServedAtMost
<1>8. /\ h # 0 /\ Loads(K, entries, h) => h \in can
      /\ d # 0 => d \in can
  <2>1. h # 0 /\ Loads(K, entries, h) => h \in can
    BY <1>2, <1>3, <1>4, <1>5, <1>6, PlansServed
  <2>2. d # 0 => Links(K, p, d) \subseteq store.sized
    BY <1>5 DEF Planned
  <2>3. d # 0 => d \in can
    BY <1>2, <1>3, <1>4, <1>5, <1>6, <2>2, PlansServed
  <2> QED BY <2>1, <2>3
<1>9. len \in {0} \cup can /\ \A n \in can : n <= len
  <2>1. CASE job.source = "none" /\ job.len = 0 /\ job.diskLen = 0
             /\ (job.hotLen = 0 \/ ~Loads(K, job.entries, job.hotLen))
    BY <1>3, <1>4, <1>7, <2>1
  <2>2. CASE /\ job.source = "hot" /\ job.len = job.hotLen
             /\ Loads(K, job.entries, job.hotLen) /\ HotWins(job)
    <3>1. len = h /\ Loads(K, entries, h) /\ (h = Len(Ids[p]) - 1 \/ d <= h)
      BY <1>1, <1>3, <2>2 DEF HotWins
    <3> QED BY <1>4, <1>7, <1>8, <3>1
  <2>3. CASE /\ job.source = "disk" /\ job.len = job.diskLen /\ job.diskLen # 0
             /\ job.diskLen > job.hotLen \/ ~Loads(K, job.entries, job.hotLen)
    BY <1>3, <1>4, <1>7, <1>8, <2>3
  <2> QED BY <1>1, <1>5, <2>1, <2>2, <2>3 DEF Settled
<1>10. len = Max({0} \cup can)
  <2>1. PICK all, b : all = {0} \cup can /\ b = Len(Ids[p]) - 1
    OBVIOUS
  <2>2. all \subseteq Nat /\ all # {} /\ b \in Nat
    BY <1>4, <1>7, <2>1, SpanFacts
  <2>3. \A x \in all : x <= b
    BY <1>7, <2>1, <2>2
  <2>4. Max(all) \in all /\ \A y \in all : y <= Max(all)
    BY <2>2, <2>3, MaxIs
  <2>5. len \in all /\ \A y \in all : y <= len
    BY <1>4, <1>9, <2>1
  <2>6. PICK m : m = Max(all)
    OBVIOUS
  <2>7. m \in Nat /\ m <= len /\ len <= m
    BY <2>2, <2>4, <2>5, <2>6
  <2> QED BY <1>4, <2>1, <2>6, <2>7
<1> QED BY <1>3, <1>6, <1>10 DEF Served

\* A restore that reads everything it planned returns the longest prefix
\* that the hot cache or the disk could serve, token by token, for any
\* prompts, images, kinds of layer, window and chunk size.
THEOREM RestoresAreLongest == CacheSpec => []RestoresLongest
BY RestoreInvHolds, LongestByInv, PTL

\* An eviction to a limit spares what ends the LRU order, if that fits the limit.
LEMMA LastSurvive ==
  ASSUME NEW s, Sound(s), NEW older \in Seq(RecordKeys), NEW keys \in Seq(RecordKeys),
         s.lru = older \o keys, NEW limit \in Nat, SumOf(ToSet(keys)) <= limit
  PROVE  ToSet(keys) \subseteq EvictedTo(s, limit).sized
<1>1. Ledger(s)
  BY DEF Sound
<1>2. PICK lru, total : lru = s.lru /\ total = s.total
  OBVIOUS
<1>3. /\ lru \in Seq(RecordKeys) /\ IsInjective(lru) /\ s.sized = ToSet(lru)
      /\ total = SumOf(ToSet(lru)) /\ total \in Nat
      /\ ToSet(lru) \in SUBSET RecordKeys /\ IsFiniteSet(ToSet(lru))
  BY <1>1, <1>2, LedgerFacts
<1>4. /\ Len(older) \in Nat /\ Len(keys) \in Nat /\ Len(lru) = Len(older) + Len(keys)
      /\ ToSet(lru) = ToSet(older) \cup ToSet(keys)
  BY <1>2, Joined
<1>5. \A i \in 1..Len(older) : lru[i] = older[i]
  BY <1>2
<1>6. PICK c \in 0..Len(lru) : EvictsOldest(s, EvictedTo(s, limit), limit, c)
  BY <1>1, <1>2, EvictedToRight
<1>7. PICK r : r = EvictedTo(s, limit)
  OBVIOUS
<1>8. r = Evicted(s, SubSeq(lru, 1, c)) /\ (c # 0 => total - SumOf({lru[j] : j \in 1..(c-1)}) > limit)
  BY <1>2, <1>6, <1>7 DEF EvictsOldest
\* Only older records go.
<1>9. c <= Len(older)
  <2>1. SUFFICES ASSUME c > Len(older) PROVE FALSE
    BY <1>4
  <2>2. PICK d : d = c - 1
    OBVIOUS
  <2>3. d \in Nat /\ d >= Len(older) /\ c # 0 /\ d \in 0..Len(lru)
    BY <1>4, <1>6, <2>1, <2>2
  <2>4. PICK gone : gone = {lru[j] : j \in 1..d}
    OBVIOUS
  <2>5. total - SumOf(gone) > limit
    BY <1>8, <2>2, <2>3, <2>4
  <2>6. gone \subseteq ToSet(lru)
    <3>1. ToSet(lru) = {lru[j] : j \in 1..Len(lru)}
      BY <1>3, Elements
    <3>2. \A j \in 1..d : j \in 1..Len(lru)
      BY <2>3
    <3> QED BY <2>4, <3>1, <3>2
  <2>7. ToSet(older) \subseteq gone
    <3>1. ToSet(older) = {older[j] : j \in 1..Len(older)}
      BY Elements
    <3>2. \A j \in 1..Len(older) : j \in 1..d
      BY <1>4, <2>3
    <3> QED BY <1>5, <2>4, <3>1, <3>2
  <2>8. PICK all, left : all = ToSet(lru) /\ left = all \ gone
    OBVIOUS
  <2>9. /\ SumOf(all) = SumOf(left) + SumOf(all \cap gone)
        /\ SumOf(left) \in Nat /\ SumOf(all \cap gone) \in Nat
    BY <1>3, <2>8, SumParted
  <2>10. all \cap gone = gone
    BY <2>6, <2>8
  <2>11. left \subseteq ToSet(keys)
    BY <1>4, <2>7, <2>8
  <2>12. SumOf(left) <= SumOf(ToSet(keys))
    <3>1. PICK last : last = ToSet(keys)
      OBVIOUS
    <3>2. last \in SUBSET RecordKeys /\ IsFiniteSet(last)
      BY <3>1, Elements
    <3>3. /\ SumOf(last) = SumOf(last \ left) + SumOf(last \cap left)
          /\ SumOf(last \ left) \in Nat /\ SumOf(last \cap left) \in Nat
      BY <3>2, SumParted
    <3>4. last \cap left = left
      BY <2>11, <3>1
    <3>5. PICK x, y, z : x = SumOf(last) /\ y = SumOf(last \ left) /\ z = SumOf(left)
      OBVIOUS
    <3>6. x = y + z /\ y \in Nat /\ z \in Nat
      BY <3>3, <3>4, <3>5
    <3>7. z <= x
      BY <3>6
    <3> QED BY <3>1, <3>5, <3>7
  <2>13. PICK x, y, z, w : x = SumOf(all) /\ y = SumOf(left) /\ z = SumOf(gone) /\ w = SumOf(ToSet(keys))
    OBVIOUS
  <2>14. x = y + z /\ y \in Nat /\ z \in Nat /\ total = x
    BY <1>3, <2>8, <2>9, <2>10, <2>13
  <2>15. y <= w /\ w <= limit /\ total - z > limit
    BY <2>5, <2>12, <2>13
  <2>16. w \in Nat
    <3>1. ToSet(keys) \in SUBSET RecordKeys /\ IsFiniteSet(ToSet(keys))
      BY Elements
    <3> QED BY <2>13, <3>1, SumFirst
  <2> QED BY <2>14, <2>15, <2>16
<1>10. PICK first : first = SubSeq(lru, 1, c)
  OBVIOUS
<1>11. first \in Seq(RecordKeys) /\ IsInjective(first) /\ ToSet(first) = {lru[j] : j \in 1..c}
  BY <1>3, <1>6, <1>10, FirstOf
<1>12. r.sized = ToSet(lru) \ ToSet(first)
  <2>1. r = Evicted(s, first)
    BY <1>8, <1>10
  <2>2. Evicted(s, first).sized = s.sized \ ToSet(first)
    BY <1>1, <1>11, EvictedRight
  <2> QED BY <1>3, <2>1, <2>2
\* The records of an order are there once, so the last are not among the older.
<1>13. ASSUME NEW k \in ToSet(keys)
       PROVE  k \notin ToSet(first)
  <2>1. SUFFICES ASSUME k \in ToSet(first) PROVE FALSE
    OBVIOUS
  <2>2. PICK j \in 1..c : k = lru[j]
    BY <1>11, <2>1
  <2>3. ToSet(keys) = {keys[i] : i \in 1..Len(keys)}
    BY Elements
  <2>4. PICK i \in 1..Len(keys) : k = keys[i]
    BY <1>13, <2>3
  <2>5. PICK m : m = Len(older) + i
    OBVIOUS
  <2>6. m \in 1..Len(lru) /\ lru[m] = keys[i]
    BY <1>2, <1>4, <2>4, <2>5
  <2>7. j \in 1..Len(lru) /\ j # m
    BY <1>4, <1>6, <1>9, <2>2, <2>4, <2>5
  <2>8. DOMAIN lru = 1..Len(lru)
    BY <1>3
  <2> QED BY <1>3, <2>2, <2>4, <2>6, <2>7, <2>8 DEF IsInjective
<1> QED BY <1>4, <1>7, <1>12, <1>13

\* What is on disk complete and within the budget, in terms of records.
LEMMA CompleteIs ==
  ASSUME work \in Workloads, NEW s, NEW p \in Prompt, NEW n \in Nat, NEW e \in ChunkEnds(p)
  PROVE  e \in CompleteOnDisk(s, p, n) <=>
           e <= n /\ Chain(p, e) \subseteq DOMAIN s.blobs /\ ChainSize(p, e) <= budget
<1>1. OnDisk(s, p, e) <=> Chain(p, e) \subseteq DOMAIN s.blobs
  BY EndFacts, OnDiskRight
<1> QED BY <1>1 DEF CompleteOnDisk

\* The longest prefix on disk that the budget has room for and that cuts no image.
LEMMA LongestIs ==
  ASSUME work \in Workloads, NEW s, NEW p \in Prompt, NEW n \in Nat
  PROVE  /\ LongestOnDisk(s, p, n) \in Nat
         /\ \/ LongestOnDisk(s, p, n) = 0
            \/ /\ LongestOnDisk(s, p, n) \in ChunkEnds(p)
               /\ LongestOnDisk(s, p, n) \in CompleteOnDisk(s, p, n)
               /\ ~SplitsImage(p, LongestOnDisk(s, p, n))
         /\ \A e \in CompleteOnDisk(s, p, n) : ~SplitsImage(p, e) => e <= LongestOnDisk(s, p, n)
<1>1. PICK complete : complete = CompleteOnDisk(s, p, n)
  OBVIOUS
<1>2. PICK fit : fit = {e \in complete : ~SplitsImage(p, e)}
  OBVIOUS
<1>3. PICK all, m : all = {0} \cup fit /\ m = Max(all)
  OBVIOUS
<1>4. LongestOnDisk(s, p, n) = m
  BY <1>1, <1>2, <1>3 DEF LongestOnDisk
<1>5. \A e \in complete : e \in ChunkEnds(p) /\ e \in Nat /\ e <= n
  BY <1>1, EndFacts DEF CompleteOnDisk
<1>6. all \subseteq Nat /\ all # {} /\ \A x \in all : x <= n
  BY <1>2, <1>3, <1>5
<1>7. m \in all /\ \A y \in all : y <= m
  BY <1>3, <1>6, MaxIs
<1>8. m \in Nat /\ (m = 0 \/ m \in fit)
  BY <1>3, <1>6, <1>7
<1>9. m \in fit => m \in ChunkEnds(p) /\ m \in complete /\ ~SplitsImage(p, m)
  BY <1>2, <1>5
<1>10. \A e \in complete : ~SplitsImage(p, e) => e <= m
  BY <1>2, <1>3, <1>7
<1> QED BY <1>1, <1>4, <1>8, <1>9, <1>10

\* The size of a chain is that of its records.
LEMMA ChainSizeIs ==
  ASSUME work \in Workloads, NEW p \in Prompt, NEW n \in ChunkEnds(p)
  PROVE  ChainSize(p, n) = SumOf(Chain(p, n)) /\ ChainSize(p, n) \in Nat
<1>1. PICK u : u = LoadOrder[p][n]
  OBVIOUS
<1>2. u \in Seq(RecordKeys) /\ IsInjective(u) /\ ToSet(u) = Chain(p, n)
  BY <1>1, LoadOrderRight
<1>3. AllBytes(u) = SumOf(ToSet(u)) /\ AllBytes(u) \in Nat
  BY <1>2, AllBytesAre
<1> QED BY <1>1, <1>2, <1>3 DEF ChainSize

\* A commit leaves on disk the longest chain up to its chunk that fits the
\* budget, however much of the save was written.
LEMMA CommitSpares ==
  ASSUME CacheInv, NEW p \in work.prompts, NEW n \in ChunkEnds(p), NEW checkpoint \in BOOLEAN,
         Commit(p, n, checkpoint),
         NEW m \in ChunkEnds(p), m <= n, Chain(p, m) \subseteq store.sized,
         ChainSize(p, m) <= budget
  PROVE  \E e \in ChunkEnds(p) : /\ m <= e /\ e <= n /\ ChainSize(p, e) <= budget
                                 /\ Chain(p, e) \subseteq DOMAIN store'.blobs
<1>1. p \in Prompt /\ CacheInv'
  BY CommitStores, CommitKeeps
<1>2. PICK keys \in Seq(RecordKeys) : /\ IsInjective(keys) /\ OfChunk(keys, p, n)
                                      /\ store' = EvictedTo(Published(p, n, keys), budget)
  BY CommitStores
<1>3. work \in Workloads /\ Sound(store) /\ budget \in Nat
  BY InvFacts DEF CacheInv
<1>4. PICK old, w, limit : old = store /\ w = Written(old, p, keys) /\ limit = budget
  OBVIOUS
<1>5. Sound(w) /\ w.sized = old.sized \cup ToSet(keys)
  BY <1>1, <1>2, <1>3, <1>4, WrittenSound
<1>6. Physical(w)
  BY <1>5 DEF Sound
<1>7. m \in FittingChains(w, p, n)
  <2>1. Chain(p, m) \subseteq w.sized
    BY <1>4, <1>5
  <2>2. Restorable(w, p, m)
    BY <1>1, <1>3, <1>6, <2>1, RestorableIs
  <2> QED BY <2>2 DEF FittingChains
<1>8. PICK e \in FittingChains(w, p, n) :
        /\ \A d \in FittingChains(w, p, n) : d <= e
        /\ ChainTouched(w, p, n) = Touched(w, ChainTouchOrder[p][e])
  BY <1>1, <1>3, <1>5, <1>7, ChainTouchedSound
<1>9. e \in ChunkEnds(p) /\ e <= n /\ Restorable(w, p, e) /\ ChainSize(p, e) <= budget /\ m <= e
  BY <1>7, <1>8 DEF FittingChains
<1>10. Chain(p, e) \subseteq w.sized
  BY <1>1, <1>3, <1>6, <1>9, RestorableIs
<1>11. PICK order : order = ChainTouchOrder[p][e]
  OBVIOUS
<1>12. order \in Seq(RecordKeys) /\ IsInjective(order) /\ ToSet(order) = Chain(p, e)
  BY <1>1, <1>3, <1>9, <1>11, LoadOrderRight
<1>13. PICK s : s = Touched(w, order)
  OBVIOUS
<1>14. Sound(s)
  BY <1>5, <1>10, <1>12, <1>13, TouchedSound
<1>15. PICK older : older = Only(w.lru, ToSet(w.lru) \ ToSet(order))
  OBVIOUS
<1>16. older \in Seq(RecordKeys) /\ s.lru = older \o order
  <2>1. Ledger(w)
    BY <1>5 DEF Sound
  <2>2. w.lru \in Seq(RecordKeys)
    BY <2>1, LedgerFacts
  <2>3. Touched(w, order).lru = Only(w.lru, ToSet(w.lru) \ ToSet(order)) \o order
    BY <1>12, <2>1, TouchedRight
  <2> QED BY <1>13, <1>15, <2>2, <2>3, OnlyRight
<1>17. SumOf(ToSet(order)) <= limit
  BY <1>1, <1>3, <1>4, <1>9, <1>12, ChainSizeIs
<1>18. ToSet(order) \subseteq EvictedTo(s, limit).sized
  BY <1>3, <1>4, <1>12, <1>14, <1>16, <1>17, LastSurvive
<1>19. store' = EvictedTo(s, limit)
  <2>1. Published(p, n, keys) = ChainTouched(w, p, n)
    BY <1>4 DEF Published
  <2>2. ChainTouched(w, p, n) = s
    BY <1>8, <1>11, <1>13
  <2> QED BY <1>2, <1>4, <2>1, <2>2
<1>20. DOMAIN store'.blobs = store'.sized
  <2>1. PICK new : new = store'
    OBVIOUS
  <2>2. Sound(new)
    BY <1>1, <2>1 DEF CacheInv
  <2> QED BY <2>1, <2>2 DEF Sound, Physical
<1>21. Chain(p, e) \subseteq DOMAIN store'.blobs
  BY <1>12, <1>18, <1>19, <1>20
<1> QED BY <1>9, <1>21

\* So it costs its prompt no prefix, unless it keeps a longer one that cuts an image.
LEMMA CommitCostsNothing ==
  ASSUME CacheInv, NEW p \in work.prompts, NEW n \in ChunkEnds(p), NEW checkpoint \in BOOLEAN,
         Commit(p, n, checkpoint)
  PROVE  \/ LongestOnDisk(store, p, n) <= LongestOnDisk(store', p, n)
         \/ KeepsCutImage(store', p, n, LongestOnDisk(store, p, n))
<1>1. p \in Prompt /\ n \in Nat /\ work \in Workloads
  BY InvFacts, EndFacts DEF CacheInv
<1>2. PICK m, l, old, new : /\ m = LongestOnDisk(store, p, n) /\ l = LongestOnDisk(store', p, n)
                            /\ old = store /\ new = store'
  OBVIOUS
<1>3. DOMAIN old.blobs = old.sized
  BY <1>2 DEF CacheInv, Sound, Physical
<1>4. /\ m \in Nat
      /\ m # 0 => m \in ChunkEnds(p) /\ m \in CompleteOnDisk(old, p, n) /\ ~SplitsImage(p, m)
  BY <1>1, <1>2, LongestIs
<1>5. /\ l \in Nat
      /\ \A e \in CompleteOnDisk(new, p, n) : ~SplitsImage(p, e) => e <= l
  BY <1>1, <1>2, LongestIs
<1>6. ASSUME m # 0 PROVE m <= l \/ KeepsCutImage(new, p, n, m)
  <2>1. /\ m \in ChunkEnds(p) /\ m <= n /\ Chain(p, m) \subseteq store.sized
        /\ ChainSize(p, m) <= budget
    BY <1>1, <1>2, <1>3, <1>4, <1>6, CompleteIs
  <2>2. PICK e \in ChunkEnds(p) : /\ m <= e /\ e <= n /\ ChainSize(p, e) <= budget
                                  /\ Chain(p, e) \subseteq DOMAIN store'.blobs
    BY <2>1, CommitSpares
  <2>3. e \in CompleteOnDisk(new, p, n)
    BY <1>1, <1>2, <2>2, CompleteIs
  <2>4. e \in Nat
    BY <1>1, EndFacts
  <2>5. CASE SplitsImage(p, e)
    <3>1. e # m
      BY <1>4, <1>6, <2>5
    <3>2. e > m
      BY <1>4, <2>2, <2>4, <3>1
    <3> QED BY <2>3, <2>5, <3>2 DEF KeepsCutImage
  <2>6. CASE ~SplitsImage(p, e)
    <3>1. e <= l
      BY <1>5, <2>3, <2>6
    <3> QED BY <1>4, <1>5, <2>2, <2>4, <3>1
  <2> QED BY <2>5, <2>6
<1>7. CASE m = 0
  BY <1>2, <1>5, <1>7
<1>8. CASE m # 0
  BY <1>2, <1>6, <1>8
<1> QED BY <1>7, <1>8

\* "Preserve the longest complete restore set that can survive eviction":
\* for any prompts, kinds, sizes and budgets, and however much of it could
\* be written, committing a chunk never costs its prompt the prefix that
\* could be restored before, if that prefix fits the budget; unless what
\* the code preserves in its place is a longer set that ends inside an
\* image, which no restore uses.
THEOREM CommitsKeepPrefix == CacheSpec => CommitKeepsPrefix
<1>1. CacheInv /\ [CacheNext]_cacheVars =>
        [~(DOMAIN store.blobs \subseteq DOMAIN store'.blobs) =>
           \A p \in work.prompts : \A n \in ChunkEnds(p) :
             LongestOnDisk(store', p, n) < LongestOnDisk(store, p, n) =>
               \/ KeepsCutImage(store', p, n, LongestOnDisk(store, p, n))
               \/ \A checkpoint \in BOOLEAN : ~Commit(p, n, checkpoint)]_cacheVars
  <2>1. SUFFICES ASSUME CacheInv, NEW p \in work.prompts, NEW n \in ChunkEnds(p),
                        LongestOnDisk(store', p, n) < LongestOnDisk(store, p, n),
                        ~KeepsCutImage(store', p, n, LongestOnDisk(store, p, n)),
                        NEW checkpoint \in BOOLEAN, Commit(p, n, checkpoint)
                 PROVE  FALSE
    OBVIOUS
  <2>2. LongestOnDisk(store, p, n) <= LongestOnDisk(store', p, n)
    BY <2>1, CommitCostsNothing
  <2>3. LongestOnDisk(store, p, n) \in Nat /\ LongestOnDisk(store', p, n) \in Nat
    <3>1. PICK new : new = store'
      OBVIOUS
    <3>2. p \in Prompt /\ n \in Nat /\ work \in Workloads
      BY <2>1, InvFacts, EndFacts DEF CacheInv
    <3> QED BY <3>1, <3>2, LongestIs
  <2>4. PICK x, y : x = LongestOnDisk(store, p, n) /\ y = LongestOnDisk(store', p, n)
    OBVIOUS
  <2> QED BY <2>1, <2>2, <2>3, <2>4
<1> QED BY <1>1, CacheInvHolds, PTL DEF CacheSpec, CommitKeepsPrefix

-----------------------------------------------------------------------------
(* What a restored prefix was computed from.                               *)

\* The earlier of two elements of u is related to the later one.
Ordered(u, R) == \A i, j \in 1..Len(u) : i < j => <<u[i], u[j]>> \in R

\* What Only keeps, it keeps in order.
LEMMA OnlyOrdered ==
  ASSUME NEW T, NEW s \in Seq(T), NEW S, NEW R, Ordered(s, R)
  PROVE  Ordered(Only(s, S), R)
<1>1. PICK f \in [0..Len(s) -> Seq(T)] : Only(s, S) = f[Len(s)] /\ Sifts(f, s, S)
  BY OnlyGoes
<1>2. Len(s) \in Nat
  OBVIOUS
<1>3. f[0] = <<>> /\ \A i \in 1..Len(s) : f[i] = IF s[i] \in S THEN Append(f[i-1], s[i]) ELSE f[i-1]
  BY <1>1 DEF Sifts
<1> DEFINE Good(i) == /\ Ordered(f[i], R)
                      /\ \A k \in 1..Len(f[i]) : \E j \in 1..i : f[i][k] = s[j]
           bad == {i \in 0..Len(s) : ~Good(i)}
<1>4. Good(0)
  BY <1>3 DEF Ordered
<1>5. ASSUME NEW m \in 1..Len(s), Good(m-1) PROVE Good(m)
  <2>1. PICK u, w : u = f[m-1] /\ w = f[m]
    OBVIOUS
  <2>2. m - 1 \in 0..Len(s)
    BY <1>2
  <2>3. u \in Seq(T) /\ s[m] \in T
    BY <2>1, <2>2
  <2>4. Ordered(u, R) /\ \A k \in 1..Len(u) : \E j \in 1..(m-1) : u[k] = s[j]
    BY <1>5, <2>1
  <2>5. CASE w = u
    <3>1. \A k \in 1..Len(w) : \E j \in 1..m : w[k] = s[j]
      BY <1>2, <2>4, <2>5
    <3> QED BY <2>1, <2>4, <2>5, <3>1
  <2>6. CASE w = Append(u, s[m])
    <3>1. PICK n \in Nat : n = Len(u)
      BY <2>3
    <3>2. /\ Len(w) = n + 1 /\ w[n+1] = s[m]
          /\ \A k \in 1..n : w[k] = u[k]
      BY <2>3, <2>6, <3>1, AppendProperties
    <3>3. \A k \in 1..Len(w) : \E j \in 1..m : w[k] = s[j]
      <4>1. ASSUME NEW k \in 1..Len(w) PROVE \E j \in 1..m : w[k] = s[j]
        <5>1. CASE k = n + 1
          <6>1. m \in 1..m
            BY <1>2
          <6> QED BY <5>1, <6>1, <3>2
        <5>2. CASE k # n + 1
          <6>1. k \in 1..n
            BY <3>1, <3>2, <5>2
          <6>2. PICK j \in 1..(m-1) : u[k] = s[j]
            BY <2>4, <3>1, <6>1
          <6>3. j \in 1..m
            BY <1>2, <6>2
          <6> QED BY <3>2, <6>1, <6>2, <6>3
        <5> QED BY <5>1, <5>2
      <4> QED BY <4>1
    <3>4. ASSUME NEW i \in 1..Len(w), NEW j \in 1..Len(w), i < j
          PROVE  <<w[i], w[j]>> \in R
      <4>1. i \in 1..n
        BY <3>1, <3>2, <3>4
      <4>2. CASE j = n + 1
        <5>1. PICK k \in 1..(m-1) : u[i] = s[k]
          BY <2>4, <3>1, <4>1
        <5>2. k \in 1..Len(s) /\ k < m
          BY <1>2, <5>1
        <5>3. <<s[k], s[m]>> \in R
          BY <5>2 DEF Ordered
        <5> QED BY <3>2, <4>1, <4>2, <5>1, <5>3
      <4>3. CASE j # n + 1
        <5>1. j \in 1..n
          BY <3>1, <3>2, <4>3
        <5>2. <<u[i], u[j]>> \in R
          BY <2>4, <3>1, <3>4, <4>1, <5>1 DEF Ordered
        <5> QED BY <3>2, <4>1, <5>1, <5>2
      <4> QED BY <4>2, <4>3
    <3>5. Ordered(w, R)
      BY <3>4 DEF Ordered
    <3> QED BY <2>1, <3>3, <3>5
  <2> QED BY <1>3, <2>1, <2>5, <2>6
<1>6. bad = {}
  <2>1. SUFFICES ASSUME bad # {} PROVE FALSE
    OBVIOUS
  <2>2. PICK m : m \in bad /\ \A k \in bad : m <= k
    <3>1. bad \subseteq Nat
      OBVIOUS
    <3> HIDE DEF bad
    <3> QED BY <2>1, <3>1, LeastNumber
  <2>3. m \in 0..Len(s) /\ ~Good(m)
    BY <2>2
  <2>4. m # 0
    BY <1>4, <2>3
  <2>5. m \in 1..Len(s) /\ m - 1 \in 0..Len(s) /\ m - 1 < m
    BY <1>2, <2>3, <2>4
  <2>6. m - 1 \notin bad
    <3> HIDE DEF bad
    <3> QED BY <2>2, <2>3, <2>5
  <2>7. Good(m-1)
    BY <2>5, <2>6
  <2> QED BY <1>5, <2>3, <2>5, <2>7
<1>7. Good(Len(s))
  <2>1. Len(s) \in 0..Len(s)
    BY <1>2
  <2> QED BY <1>6, <2>1
<1> QED BY <1>1, <1>7

\* Two increasing lists of the same numbers are the same.
LEMMA IncreasingAgree ==
  ASSUME NEW n \in Nat, NEW a \in [1..n -> Nat], NEW b \in [1..n -> Nat],
         \A i, j \in 1..n : i < j => a[i] < a[j],
         \A i, j \in 1..n : i < j => b[i] < b[j],
         \A i \in 1..n : \E j \in 1..n : a[i] = b[j],
         \A i \in 1..n : \E j \in 1..n : b[i] = a[j]
  PROVE  \A i \in 1..n : a[i] = b[i]
<1> DEFINE bad == {i \in 1..n : a[i] # b[i]}
<1>1. SUFFICES ASSUME bad # {} PROVE FALSE
  OBVIOUS
<1>2. PICK m : m \in bad /\ \A k \in bad : m <= k
  <2>1. bad \subseteq Nat
    OBVIOUS
  <2> HIDE DEF bad
  <2> QED BY <1>1, <2>1, LeastNumber
<1>3. m \in 1..n /\ a[m] # b[m]
  BY <1>2
<1>4. ASSUME NEW j \in 1..n, j < m PROVE a[j] = b[j]
  <2>1. j \notin bad
    <3> HIDE DEF bad
    <3> QED BY <1>2, <1>3, <1>4
  <2> QED BY <2>1
<1>5. PICK i \in 1..n : a[m] = b[i]
  BY <1>3
<1>6. PICK j \in 1..n : b[m] = a[j]
  BY <1>3
<1>7. a[m] \in Nat /\ b[m] \in Nat
  BY <1>3
<1>8. m < i
  <2>1. i < m => a[i] = b[i] /\ a[i] < a[m]
    BY <1>3, <1>4, <1>5
  <2>2. ~ (i < m)
    BY <1>5, <1>7, <2>1
  <2> QED BY <1>3, <1>5, <2>2
<1>9. m < j
  <2>1. j < m => a[j] = b[j] /\ b[j] < b[m]
    BY <1>3, <1>4, <1>6
  <2>2. ~ (j < m)
    BY <1>6, <1>7, <2>1
  <2> QED BY <1>3, <1>6, <2>2
<1>10. b[m] < b[i] /\ a[m] < a[j]
  BY <1>3, <1>5, <1>6, <1>8, <1>9
<1> QED BY <1>5, <1>6, <1>7, <1>10

\* A chunk begins before its tokens.
LEMMA EndOfNear ==
  ASSUME NEW i \in Nat \ {0}
  PROVE  EndOf(i) \in Nat /\ EndOf(i) - ChunkSize < i
<1>1. PICK C : C = ChunkSize
  OBVIOUS
<1>2. C \in Nat \ {0}
  BY <1>1, PromptAssumption
<1>3. PICK h : h = i - 1
  OBVIOUS
<1>4. h \in Nat /\ h < i
  BY <1>3
<1>5. PICK k : k = h \div C
  OBVIOUS
<1>6. k \in Nat /\ k * C <= h
  BY <1>2, <1>4, <1>5, Quotients
<1>7. (k + 1) * C = k * C + C /\ k * C \in Nat
  BY <1>2, <1>6, NextChunk
<1>8. PICK m : m = (k + 1) * C
  OBVIOUS
<1>9. EndOf(i) = m
  BY <1>1, <1>3, <1>5, <1>8 DEF EndOf
<1>10. m \in Nat /\ m - C < i
  BY <1>2, <1>4, <1>6, <1>7, <1>8
<1> QED BY <1>1, <1>9, <1>10

\* The images of p whose placeholders overlap the chunk that ends at n.
Overlap(p, n) == {span \in ToSet(Spans[p]) : span.start < n /\ n - ChunkSize < span.end}

\* u lists them from the left.
Lapping(u, p, n) ==
  /\ u \in Seq(ToSet(Spans[p])) /\ ToSet(u) = Overlap(p, n)
  /\ \A i \in 1..Len(u) : u[i] \in Overlap(p, n) /\ u[i].start \in Nat
  /\ \A i, j \in 1..Len(u) : i < j => u[i].start < u[j].start

\* A fingerprint is of such a list.
LEMMA FingerprintIs ==
  ASSUME NEW p \in Prompt, NEW n
  PROVE  \E u : Lapping(u, p, n) /\ Fingerprint(p, n) = [i \in 1..Len(u) |-> u[i].hash]
<1>1. PICK s, T : s = Spans[p] /\ T = ToSet(Spans[p])
  OBVIOUS
<1>2. s \in Seq(T) /\ \A x \in T : x.start \in Nat /\ x.end \in Nat /\ x.start < x.end
  BY <1>1, SpanFacts
<1>3. PICK u : u = Only(s, Overlap(p, n))
  OBVIOUS
<1>4. u \in Seq(T) /\ ToSet(u) = T \cap Overlap(p, n)
  BY <1>1, <1>2, <1>3, OnlyRight
<1>5. T \cap Overlap(p, n) = Overlap(p, n)
  BY <1>1 DEF Overlap
<1>6. PICK R : R = {x \in T \X T : x[1].start < x[2].start}
  OBVIOUS
<1>7. Ordered(s, R)
  <2>1. ASSUME NEW i \in 1..Len(s), NEW j \in 1..Len(s), i < j
        PROVE  <<s[i], s[j]>> \in R
    <3>1. DOMAIN s = 1..Len(s)
      BY <1>2
    <3>2. s[i] \in T /\ s[j] \in T
      BY <1>2
    <3>3. s[i].end <= s[j].start
      BY <1>1, <2>1, <3>1, PromptAssumption
    <3>4. s[i].start < s[j].start
      BY <1>2, <3>2, <3>3
    <3> QED BY <1>6, <3>2, <3>4
  <2> QED BY <2>1 DEF Ordered
<1>8. Ordered(u, R)
  BY <1>2, <1>3, <1>7, OnlyOrdered
<1>9. \A i \in 1..Len(u) : u[i] \in T /\ u[i] \in ToSet(u)
  <2>1. ToSet(u) = {u[i] : i \in 1..Len(u)}
    BY <1>4, Elements
  <2> QED BY <1>4, <2>1
<1>10. \A i, j \in 1..Len(u) : i < j => u[i].start < u[j].start
  BY <1>6, <1>8 DEF Ordered
<1>11. Lapping(u, p, n)
  BY <1>1, <1>2, <1>4, <1>5, <1>9, <1>10 DEF Lapping
<1>12. Fingerprint(p, n) = [i \in 1..Len(u) |-> u[i].hash]
  <2>1. DOMAIN u = 1..Len(u)
    BY <1>4
  <2>2. Fingerprint(p, n) = [i \in DOMAIN u |-> u[i].hash]
    BY <1>1, <1>3 DEF Fingerprint, Overlap
  <2> QED BY <2>1, <2>2
<1> QED BY <1>11, <1>12

\* What two prompts share whose chunks up to e hash the same input.
HashedAlike(p, q, e) ==
  /\ SubSeq(Ids[p], 1, e) = SubSeq(Ids[q], 1, e)
  /\ \A n \in ChunkEnds(p) : n <= e => Fingerprint(p, n) = Fingerprint(q, n)

\* The tokens, and the fingerprint of every chunk.
LEMMA HashInputMeans ==
  ASSUME NEW p \in Prompt, NEW q \in Prompt, NEW e \in ChunkEnds(p),
         HashInput(p, e) = HashInput(q, e)
  PROVE  HashedAlike(p, q, e)
<1>1. PICK C : C = ChunkSize
  OBVIOUS
<1>2. C \in Nat \ {0}
  BY <1>1, PromptAssumption
<1>3. PICK a, b, s, t, m : /\ a = SubSeq(Ids[p], 1, e) /\ b = SubSeq(Ids[q], 1, e) /\ m = e \div C
                           /\ s = [i \in 1..m |-> Fingerprint(p, i * C)]
                           /\ t = [i \in 1..m |-> Fingerprint(q, i * C)]
  OBVIOUS
<1>4. <<a, s>> = <<b, t>>
  BY <1>1, <1>3 DEF HashInput
<1>5. a = b /\ s = t
  BY <1>4
<1>6. ASSUME NEW n \in ChunkEnds(p), n <= e
      PROVE  Fingerprint(p, n) = Fingerprint(q, n)
  <2>1. PICK i \in Nat \ {0} : i = n \div C /\ n = i * C
    BY <1>1, EndFacts
  <2>2. m \in Nat \ {0} /\ e = m * C
    BY <1>1, <1>3, EndFacts
  <2>3. i <= m
    BY <1>2, <1>6, <2>1, <2>2, ChunksApart
  <2>4. i \in 1..m
    BY <2>1, <2>2, <2>3
  <2>5. s[i] = Fingerprint(p, i * C) /\ t[i] = Fingerprint(q, i * C)
    BY <1>3, <2>4
  <2> QED BY <1>5, <2>1, <2>5
<1> QED BY <1>3, <1>5, <1>6 DEF HashedAlike

\* Two lists of images with the same fingerprint have the same hashes.
LEMMA SameHashes ==
  ASSUME NEW p \in Prompt, NEW q \in Prompt, NEW n, Fingerprint(p, n) = Fingerprint(q, n)
  PROVE  \E u, v : /\ Lapping(u, p, n) /\ Lapping(v, q, n) /\ Len(u) = Len(v)
                   /\ \A i \in 1..Len(u) : u[i].hash = v[i].hash
<1>1. PICK u : Lapping(u, p, n) /\ Fingerprint(p, n) = [i \in 1..Len(u) |-> u[i].hash]
  BY FingerprintIs
<1>2. PICK v : Lapping(v, q, n) /\ Fingerprint(q, n) = [i \in 1..Len(v) |-> v[i].hash]
  BY FingerprintIs
<1>3. PICK f, g : f = Fingerprint(p, n) /\ g = Fingerprint(q, n)
  OBVIOUS
<1>4. f = [i \in 1..Len(u) |-> u[i].hash] /\ g = [i \in 1..Len(v) |-> v[i].hash] /\ f = g
  BY <1>1, <1>2, <1>3
<1>5. 1..Len(u) = 1..Len(v)
  BY <1>4
<1>6. Len(u) \in Nat /\ Len(v) \in Nat
  BY <1>1, <1>2 DEF Lapping
<1>7. Len(u) = Len(v)
  BY <1>5, <1>6
<1>8. \A i \in 1..Len(u) : u[i].hash = v[i].hash
  <2>1. TAKE i \in 1..Len(u)
  <2>2. f[i] = u[i].hash /\ g[i] = v[i].hash
    BY <1>4, <1>5
  <2> QED BY <1>4, <2>2
<1> QED BY <1>1, <1>2, <1>7, <1>8

\* An image that begins before e has a chunk up to e.
LEMMA SpanHasChunk ==
  ASSUME NEW p \in Prompt, NEW e \in ChunkEnds(p), NEW x \in ToSet(Spans[p]), x.start < e
  PROVE  \E n \in ChunkEnds(p) : n <= e /\ x \in Overlap(p, n)
<1>1. x.start \in Nat /\ x.end \in Nat /\ x.start < x.end /\ e \in Nat
  BY SpanFacts, EndFacts
<1>2. PICK i : i = x.start + 1
  OBVIOUS
<1>3. i \in 1..e /\ i \in Nat \ {0}
  BY <1>1, <1>2
<1>4. PICK n : n = EndOf(i)
  OBVIOUS
<1>5. n \in ChunkEnds(p) /\ i <= n /\ n <= e
  BY <1>3, <1>4, EndOfRight
<1>6. n \in Nat /\ n - ChunkSize < i
  BY <1>3, <1>4, EndOfNear
<1>7. x.start < n /\ n - ChunkSize < x.end
  <2>1. ChunkSize \in Nat
    BY PromptAssumption
  <2> QED BY <1>1, <1>2, <1>5, <1>6, <2>1
<1> QED BY <1>5, <1>7 DEF Overlap

\* So another prompt that hashes the same input has an image of the same hash.
LEMMA HashShared ==
  ASSUME NEW p \in Prompt, NEW q \in Prompt, NEW e \in ChunkEnds(p), HashedAlike(p, q, e),
         NEW x \in ToSet(Spans[p]), x.start < e
  PROVE  \E y \in ToSet(Spans[q]) : y.start < e /\ y.hash = x.hash
<1>1. PICK n \in ChunkEnds(p) : n <= e /\ x \in Overlap(p, n)
  BY SpanHasChunk
<1>2. Fingerprint(p, n) = Fingerprint(q, n)
  BY <1>1 DEF HashedAlike
<1>3. PICK u, v : /\ Lapping(u, p, n) /\ Lapping(v, q, n) /\ Len(u) = Len(v)
                  /\ \A i \in 1..Len(u) : u[i].hash = v[i].hash
  BY <1>2, SameHashes
<1>4. PICK i \in 1..Len(u) : x = u[i]
  <2>1. u \in Seq(ToSet(Spans[p])) /\ x \in ToSet(u)
    BY <1>1, <1>3 DEF Lapping
  <2> QED BY <2>1, Elements
<1>5. v[i] \in Overlap(q, n)
  BY <1>3, <1>4 DEF Lapping
<1>6. PICK y : y = v[i]
  OBVIOUS
<1>7. y \in ToSet(Spans[q]) /\ y.start < n /\ y.hash = x.hash
  BY <1>3, <1>4, <1>5, <1>6 DEF Overlap
<1>8. y.start \in Nat /\ n \in Nat /\ e \in Nat
  BY <1>7, SpanFacts, EndFacts
<1> QED BY <1>1, <1>7, <1>8

\* The images of a prompt that are its runs, as token positions tell.
LEMMA RunFacts ==
  ASSUME NEW p \in Prompt, SpansAreRuns(p)
  PROVE  /\ \A i \in 1..Len(Ids[p]) : Ids[p][i] = ImageToken =>
              \E y \in ToSet(Spans[p]) : y.start < i /\ i <= y.end
         /\ \A x \in ToSet(Spans[p]) :
              /\ \A i \in 1..Len(Ids[p]) : x.start < i /\ i <= x.end => Ids[p][i] = ImageToken
              /\ x.start # 0 => Ids[p][x.start] # ImageToken
              /\ x.end < Len(Ids[p]) => Ids[p][x.end + 1] # ImageToken
<1>1. PICK s, S : s = Ids[p] /\ S = ToSet(Spans[p])
  OBVIOUS
<1>2. Len(s) \in Nat /\ DOMAIN s = 1..Len(s)
  BY <1>1, SpanFacts
<1>3. /\ \A i \in DOMAIN s : s[i] = ImageToken <=> \E y \in S : i \in (y.start+1)..y.end
      /\ \A x, y \in S : x.end # y.start
  BY <1>1 DEF SpansAreRuns
<1>4. /\ \A x \in S : x.start \in Nat /\ x.end \in Nat /\ x.start < x.end /\ x.end <= Len(s)
      /\ \A x, y \in S : x = y \/ x.end <= y.start \/ y.end <= x.start
  BY <1>1, SpanFacts
<1>5. ASSUME NEW i \in 1..Len(s)
      PROVE  s[i] = ImageToken <=> \E y \in S : y.start < i /\ i <= y.end
  <2>1. \A y \in S : i \in (y.start+1)..y.end <=> y.start < i /\ i <= y.end
    BY <1>2, <1>4
  <2> QED BY <1>2, <1>3, <2>1
<1>6. ASSUME NEW x \in S, x.start # 0, s[x.start] = ImageToken PROVE FALSE
  <2>1. x.start \in 1..Len(s)
    BY <1>2, <1>4, <1>6
  <2>2. PICK y \in S : y.start < x.start /\ x.start <= y.end
    BY <1>5, <1>6, <2>1
  <2>3. x = y \/ x.end <= y.start \/ y.end <= x.start
    BY <1>4
  <2>4. /\ x.start \in Nat /\ x.end \in Nat /\ x.start < x.end
        /\ y.start \in Nat /\ y.end \in Nat /\ y.start < y.end
    BY <1>4
  <2>5. y.end # x.start
    BY <1>3
  <2> QED BY <2>2, <2>3, <2>4, <2>5
<1>7. ASSUME NEW x \in S, x.end < Len(s), s[x.end + 1] = ImageToken PROVE FALSE
  <2>1. x.end + 1 \in 1..Len(s)
    BY <1>2, <1>4, <1>7
  <2>2. PICK y \in S : y.start < x.end + 1 /\ x.end + 1 <= y.end
    BY <1>5, <1>7, <2>1
  <2>3. x = y \/ x.end <= y.start \/ y.end <= x.start
    BY <1>4
  <2>4. /\ x.start \in Nat /\ x.end \in Nat /\ x.start < x.end
        /\ y.start \in Nat /\ y.end \in Nat /\ y.start < y.end
    BY <1>4
  <2>5. x.end # y.start
    BY <1>3
  <2> QED BY <2>2, <2>3, <2>4, <2>5
<1> QED BY <1>1, <1>5, <1>6, <1>7

\* p and q have the same first e tokens.
SameTokens(p, q, e) ==
  /\ e <= Len(Ids[p]) /\ e <= Len(Ids[q])
  /\ \A i \in 1..e : Ids[p][i] = Ids[q][i]

\* Those are the tokens that are hashed.
LEMMA TokensAgree ==
  ASSUME NEW p \in Prompt, NEW q \in Prompt, NEW e \in Nat, e <= Len(Ids[p]), e <= Len(Ids[q]),
         SubSeq(Ids[p], 1, e) = SubSeq(Ids[q], 1, e)
  PROVE  SameTokens(p, q, e) /\ SameTokens(q, p, e)
<1>1. PICK s, t, S, T : s = Ids[p] /\ t = Ids[q] /\ S = ToSet(Ids[p]) /\ T = ToSet(Ids[q])
  OBVIOUS
<1>2. s \in Seq(S) /\ t \in Seq(T)
  BY <1>1, SpanFacts
<1>3. e \in 0..Len(s) /\ e \in 0..Len(t)
  BY <1>1, <1>2
<1>4. \A i \in 1..e : SubSeq(s, 1, e)[i] = s[i]
  BY <1>2, <1>3, FirstOf
<1>5. \A i \in 1..e : SubSeq(t, 1, e)[i] = t[i]
  BY <1>2, <1>3, FirstOf
<1>6. \A i \in 1..e : s[i] = t[i]
  BY <1>1, <1>4, <1>5
<1> QED BY <1>1, <1>6 DEF SameTokens

\* A run of p that begins in them is one that q begins at the same token.
LEMMA SameStart ==
  ASSUME NEW p \in Prompt, NEW q \in Prompt, SpansAreRuns(p), SpansAreRuns(q),
         NEW e \in Nat, SameTokens(p, q, e), NEW x \in ToSet(Spans[p]), x.start < e
  PROVE  \E y \in ToSet(Spans[q]) : y.start = x.start
<1>1. /\ x.start \in Nat /\ x.end \in Nat /\ x.start < x.end /\ x.end <= Len(Ids[p])
      /\ Len(Ids[p]) \in Nat /\ Len(Ids[q]) \in Nat
      /\ e <= Len(Ids[p]) /\ e <= Len(Ids[q])
  BY SpanFacts DEF SameTokens
<1>2. PICK i : i = x.start + 1
  OBVIOUS
<1>3. i \in 1..e /\ i \in 1..Len(Ids[p]) /\ i \in 1..Len(Ids[q]) /\ x.start < i /\ i <= x.end
  BY <1>1, <1>2
<1>4. Ids[p][i] = ImageToken /\ Ids[q][i] = ImageToken
  BY <1>3, RunFacts DEF SameTokens
<1>5. PICK y \in ToSet(Spans[q]) : y.start < i /\ i <= y.end
  BY <1>3, <1>4, RunFacts
<1>6. y.start \in Nat /\ y.end \in Nat
  BY SpanFacts
<1>7. ASSUME y.start < x.start PROVE FALSE
  <2>1. PICK b : b = x.start
    OBVIOUS
  <2>2. b \in 1..e /\ b \in 1..Len(Ids[q]) /\ y.start < b /\ b <= y.end /\ x.start # 0
    BY <1>1, <1>2, <1>3, <1>5, <1>6, <1>7, <2>1
  <2>3. Ids[q][b] = ImageToken
    BY <2>2, RunFacts
  <2>4. Ids[p][b] = ImageToken
    BY <2>2, <2>3 DEF SameTokens
  <2> QED BY <2>1, <2>2, <2>4, RunFacts
<1>8. y.start = x.start
  BY <1>1, <1>2, <1>5, <1>6, <1>7
<1> QED BY <1>8

\* It reaches as far as q's does, within them.
LEMMA SameReach ==
  ASSUME NEW p \in Prompt, NEW q \in Prompt, SpansAreRuns(p), SpansAreRuns(q),
         NEW e \in Nat, SameTokens(p, q, e), NEW x \in ToSet(Spans[p]), NEW y \in ToSet(Spans[q]),
         y.start = x.start, NEW c \in Nat, c < e, c < x.end
  PROVE  c < y.end
<1>1. /\ x.start \in Nat /\ x.end \in Nat /\ x.end <= Len(Ids[p])
      /\ y.start \in Nat /\ y.end \in Nat /\ y.start < y.end
      /\ Len(Ids[p]) \in Nat /\ Len(Ids[q]) \in Nat
      /\ e <= Len(Ids[p]) /\ e <= Len(Ids[q])
  BY SpanFacts DEF SameTokens
<1>2. SUFFICES ASSUME y.end <= c PROVE FALSE
  BY <1>1
<1>3. PICK i : i = y.end + 1
  OBVIOUS
<1>4. /\ i \in 1..e /\ i \in 1..Len(Ids[p]) /\ x.start < i /\ i <= x.end
      /\ y.end < Len(Ids[q])
  BY <1>1, <1>2, <1>3
<1>5. Ids[q][i] # ImageToken
  BY <1>3, <1>4, RunFacts
<1>6. Ids[p][i] = ImageToken
  BY <1>4, RunFacts
<1> QED BY <1>4, <1>5, <1>6 DEF SameTokens

\* So both have the same runs in a chunk of theirs.
LEMMA SameOverlap ==
  ASSUME NEW p \in Prompt, NEW q \in Prompt, SpansAreRuns(p), SpansAreRuns(q),
         NEW e \in Nat, SameTokens(p, q, e), NEW n \in Nat, n <= e, ChunkSize <= n,
         NEW x \in Overlap(p, n)
  PROVE  \E y \in Overlap(q, n) : y.start = x.start
<1>1. x \in ToSet(Spans[p]) /\ x.start < n /\ n - ChunkSize < x.end
  BY DEF Overlap
<1>2. x.start \in Nat /\ ChunkSize \in Nat \ {0}
  BY <1>1, SpanFacts, PromptAssumption
<1>3. x.start < e
  BY <1>1, <1>2
<1>4. PICK y \in ToSet(Spans[q]) : y.start = x.start
  BY <1>1, <1>3, SameStart
<1>5. PICK c : c = n - ChunkSize
  OBVIOUS
<1>6. c \in Nat /\ c < e /\ c < x.end
  BY <1>1, <1>2, <1>5
<1>7. c < y.end
  BY <1>1, <1>4, <1>6, SameReach
<1> QED BY <1>1, <1>4, <1>5, <1>7 DEF Overlap

\* An image of p that is a run, and begins in chunks that hash alike, is in q.
LEMMA SameImages ==
  ASSUME NEW p \in Prompt, NEW q \in Prompt, SpansAreRuns(p), SpansAreRuns(q),
         NEW e \in ChunkEnds(p), e <= Len(Ids[q]), HashedAlike(p, q, e),
         NEW x \in ToSet(Spans[p]), x.start < e
  PROVE  x \in ToSet(Spans[q])
<1>1. PICK n \in ChunkEnds(p) : n <= e /\ x \in Overlap(p, n)
  BY SpanHasChunk
<1>2. e \in Nat /\ n \in Nat /\ e <= Len(Ids[p])
  BY EndFacts
<1>3. ChunkSize <= n
  <2>1. PICK C : C = ChunkSize
    OBVIOUS
  <2>2. C \in Nat \ {0}
    BY <2>1, PromptAssumption
  <2>3. PICK i \in Nat \ {0} : n = i * C
    BY <2>1, EndFacts
  <2>4. PICK k : k = i - 1
    OBVIOUS
  <2>5. k \in Nat /\ i = k + 1
    BY <2>4
  <2>6. (k + 1) * C = k * C + C /\ k * C \in Nat
    BY <2>2, <2>5, NextChunk
  <2>7. PICK a : a = k * C
    OBVIOUS
  <2>8. n = a + C /\ a \in Nat
    BY <2>3, <2>5, <2>6, <2>7
  <2> QED BY <2>1, <2>2, <2>8
<1>4. SameTokens(p, q, e) /\ SameTokens(q, p, e)
  BY <1>2, TokensAgree DEF HashedAlike
<1>5. Fingerprint(p, n) = Fingerprint(q, n)
  BY <1>1 DEF HashedAlike
<1>6. PICK u, v : /\ Lapping(u, p, n) /\ Lapping(v, q, n) /\ Len(u) = Len(v)
                  /\ \A i \in 1..Len(u) : u[i].hash = v[i].hash
  BY <1>5, SameHashes
<1>7. PICK m : m = Len(u)
  OBVIOUS
<1>8. /\ m \in Nat /\ Len(v) = m
      /\ u \in Seq(ToSet(Spans[p])) /\ v \in Seq(ToSet(Spans[q]))
  BY <1>6, <1>7 DEF Lapping
<1>9. /\ \A i \in 1..m : u[i] \in Overlap(p, n) /\ u[i].start \in Nat
      /\ \A i, j \in 1..m : i < j => u[i].start < u[j].start
      /\ \A i \in 1..m : v[i] \in Overlap(q, n) /\ v[i].start \in Nat
      /\ \A i, j \in 1..m : i < j => v[i].start < v[j].start
  BY <1>6, <1>7, <1>8 DEF Lapping
<1>10. /\ \A y \in Overlap(p, n) : \E i \in 1..m : y = u[i]
       /\ \A y \in Overlap(q, n) : \E i \in 1..m : y = v[i]
  <2>1. ToSet(u) = Overlap(p, n) /\ ToSet(v) = Overlap(q, n)
    BY <1>6 DEF Lapping
  <2>2. ToSet(u) = {u[i] : i \in 1..m} /\ ToSet(v) = {v[i] : i \in 1..m}
    BY <1>7, <1>8, Elements
  <2> QED BY <2>1, <2>2
<1>11. PICK a, b : a = [i \in 1..m |-> u[i].start] /\ b = [i \in 1..m |-> v[i].start]
  OBVIOUS
<1>12. \A i \in 1..m : a[i] = u[i].start /\ b[i] = v[i].start
  BY <1>11
<1>13. a \in [1..m -> Nat] /\ b \in [1..m -> Nat]
  BY <1>9, <1>11
<1>14. ASSUME NEW i \in 1..m PROVE \E j \in 1..m : a[i] = b[j]
  <2>1. u[i] \in Overlap(p, n)
    BY <1>9
  <2>2. PICK y \in Overlap(q, n) : y.start = u[i].start
    BY <1>1, <1>2, <1>3, <1>4, <2>1, SameOverlap
  <2>3. PICK j \in 1..m : y = v[j]
    BY <1>10
  <2> QED BY <1>12, <2>2, <2>3
<1>15. ASSUME NEW i \in 1..m PROVE \E j \in 1..m : b[i] = a[j]
  <2>1. v[i] \in Overlap(q, n)
    BY <1>9
  <2>2. PICK y \in Overlap(p, n) : y.start = v[i].start
    BY <1>1, <1>2, <1>3, <1>4, <2>1, SameOverlap
  <2>3. PICK j \in 1..m : y = u[j]
    BY <1>10
  <2> QED BY <1>12, <2>2, <2>3
<1>16. \A i, j \in 1..m : i < j => a[i] < a[j]
  BY <1>9, <1>12
<1>17. \A i, j \in 1..m : i < j => b[i] < b[j]
  BY <1>9, <1>12
<1>18. \A i \in 1..m : a[i] = b[i]
  <2>1. \A i \in 1..m : \E j \in 1..m : a[i] = b[j]
    BY <1>14
  <2>2. \A i \in 1..m : \E j \in 1..m : b[i] = a[j]
    BY <1>15
  <2>3. m \in Nat
    BY <1>8
  <2> QED BY <2>3, <1>13, <2>1, <2>2, <1>16, <1>17, IncreasingAgree, Zenon
<1>19. PICK i \in 1..m : x = u[i]
  BY <1>1, <1>10
<1>20. PICK y : y = v[i]
  OBVIOUS
<1>21. y \in ToSet(Spans[q])
  BY <1>9, <1>20 DEF Overlap
<1>22. y.start = x.start /\ y.hash = x.hash
  BY <1>6, <1>7, <1>12, <1>18, <1>19, <1>20
<1>23. y.end - y.start = x.end - x.start
  BY <1>21, <1>22, ImageAssumption
<1>24. x.start \in Nat /\ x.end \in Nat /\ y.start \in Nat /\ y.end \in Nat
  BY <1>21, SpanFacts
<1>25. y.end = x.end
  BY <1>22, <1>23, <1>24
<1>26. /\ x = [start |-> x.start, end |-> x.end, hash |-> x.hash]
       /\ y = [start |-> y.start, end |-> y.end, hash |-> y.hash]
  BY <1>21, ImageAssumption
<1>27. x = y
  BY <1>22, <1>25, <1>26
<1> QED BY <1>21, <1>27

\* So the model saw the same of both, if p's images are its runs or none.
LEMMA SameView ==
  ASSUME NEW p \in Prompt, NEW q \in Prompt, NEW e, e \in ChunkEnds(p), e \in ChunkEnds(q),
         HashInput(p, e) = HashInput(q, e), ~OneSpan(p)
  PROVE  View(p, e) = View(q, e)
<1>1. HashedAlike(p, q, e) /\ HashedAlike(q, p, e)
  BY HashInputMeans
<1>2. e \in Nat /\ e <= Len(Ids[p]) /\ e <= Len(Ids[q])
  BY EndFacts
<1>3. Spans[p] = <<>> \/ SpansAreRuns(p)
  BY ImageAssumption
<1>4. ASSUME NEW x \in ToSet(Spans[p]) PROVE SpansAreRuns(p)
  <2>1. Spans[p] \in Seq(ToSet(Spans[p]))
    BY SpanFacts
  <2>2. PICK i \in 1..Len(Spans[p]) : x = Spans[p][i]
    BY <2>1, Elements
  <2>3. Spans[p] # <<>>
    BY <2>1, <2>2
  <2> QED BY <1>3, <2>3
<1>5. ASSUME NEW x \in ToSet(Spans[p]), x.start < e PROVE x \in ToSet(Spans[q])
  <2>1. SpansAreRuns(p)
    BY <1>4
  <2>2. PICK y \in ToSet(Spans[q]) : y.hash = x.hash
    BY <1>1, <1>5, HashShared
  <2>3. SpansAreRuns(q)
    BY <2>1, <2>2, ImageAssumption
  <2> QED BY <1>1, <1>2, <1>5, <2>1, <2>3, SameImages
<1>6. ASSUME NEW x \in ToSet(Spans[q]), x.start < e PROVE x \in ToSet(Spans[p])
  <2>1. PICK y \in ToSet(Spans[p]) : y.hash = x.hash
    BY <1>1, <1>6, HashShared
  <2>2. SpansAreRuns(p)
    BY <1>4, <2>1
  <2>3. SpansAreRuns(q)
    BY <2>1, <2>2, ImageAssumption
  <2> QED BY <1>1, <1>2, <1>6, <2>2, <2>3, SameImages
<1>7. {x \in ToSet(Spans[p]) : x.start < e} = {x \in ToSet(Spans[q]) : x.start < e}
  BY <1>5, <1>6
<1>8. SubSeq(Ids[p], 1, e) = SubSeq(Ids[q], 1, e)
  BY <1>1 DEF HashedAlike
<1> QED BY <1>7, <1>8 DEF View

\* A key is that of the chunks that hash the same input.
LEMMA KeyNamesInput ==
  ASSUME NEW p \in Prompt, NEW q \in Prompt, NEW e, e \in ChunkEnds(p), e \in ChunkEnds(q),
         ChunkKey[p][e] = ChunkKey[q][e]
  PROVE  HashInput(p, e) = HashInput(q, e)
<1> DEFINE Same(r, t) == e \in ChunkEnds(t) /\ HashInput(t, e) = HashInput(r, e)
<1>1. PICK a, b : a = (CHOOSE t \in Prompt : Same(p, t)) /\ b = (CHOOSE t \in Prompt : Same(q, t))
  OBVIOUS
<1>2. ChunkKey[p][e] = <<a, e>> /\ ChunkKey[q][e] = <<b, e>>
  BY <1>1 DEF ChunkKey
<1>3. a = b
  <2>1. <<a, e>> = <<b, e>>
    BY <1>2
  <2> QED BY <2>1
<1>4. Same(p, a)
  <2>1. Same(p, p)
    OBVIOUS
  <2> HIDE DEF Same
  <2> QED BY <1>1, <2>1
<1>5. Same(q, b)
  <2>1. Same(q, q)
    OBVIOUS
  <2> HIDE DEF Same
  <2> QED BY <1>1, <2>1
<1> QED BY <1>3, <1>4, <1>5

\* A record in the chain of a prefix of p was computed from that prefix, if the
\* prefix is not all of p and cuts no image.
LEMMA RecordSeen ==
  ASSUME NEW s, BlobsTrue(s), NEW p \in Prompt, NEW n \in ChunkEnds(p), n <= Len(Ids[p]) - 1,
         ~SplitsImage(p, n), NEW k \in Chain(p, n), k \in DOMAIN s.blobs
  PROVE  View(s.blobs[k], k[1][2]) = View(p, k[1][2])
<1>1. PICK e \in ChunkEnds(p) : e <= n /\ k[1] = ChunkKey[p][e]
  BY DEF Chain
<1>2. PICK q \in Prompt : q = s.blobs[k]
  BY DEF BlobsTrue
<1>3. PICK m \in ChunkEnds(q) : k[1] = ChunkKey[q][m]
  BY <1>2 DEF BlobsTrue
<1>4. k[1][2] = e /\ m = e
  BY <1>1, <1>3, KeyTellsEnd
<1>5. e \in ChunkEnds(q) /\ ChunkKey[p][e] = ChunkKey[q][e]
  BY <1>1, <1>3, <1>4
<1>6. HashInput(p, e) = HashInput(q, e)
  BY <1>5, KeyNamesInput
<1>7. ~OneSpan(p)
  <2>1. SUFFICES ASSUME OneSpan(p) PROVE FALSE
    OBVIOUS
  <2>2. Len(Spans[p]) = 1 /\ Spans[p][1].start = 0 /\ Spans[p][1].end = Len(Ids[p])
    BY <2>1 DEF OneSpan
  <2>3. Spans[p][1] \in ToSet(Spans[p])
    <3>1. Spans[p] \in Seq(ToSet(Spans[p])) /\ 1 \in 1..Len(Spans[p])
      BY <2>2, SpanFacts
    <3> QED BY <3>1
  <2>4. n \in Nat /\ 0 < n /\ Len(Ids[p]) \in Nat
    BY EndFacts, SpanFacts
  <2> QED BY <2>2, <2>3, <2>4 DEF SplitsImage
<1>8. View(p, e) = View(q, e)
  BY <1>5, <1>6, <1>7, SameView
<1> QED BY <1>2, <1>4, <1>8

\* Before the first token two prompts are seen alike.
LEMMA NothingSeen ==
  ASSUME NEW p \in Prompt, NEW q \in Prompt
  PROVE  View(p, 0) = View(q, 0) /\ ~SplitsImage(p, 0)
<1>1. ASSUME NEW r \in Prompt
      PROVE  SubSeq(Ids[r], 1, 0) = <<>> /\ \A x \in ToSet(Spans[r]) : ~(x.start < 0)
  <2>1. PICK s, T : s = Ids[r] /\ T = ToSet(Ids[r])
    OBVIOUS
  <2>2. s \in Seq(T) /\ 0 \in 0..Len(s)
    BY <2>1, SpanFacts
  <2>3. SubSeq(s, 1, 0) \in Seq(T) /\ Len(SubSeq(s, 1, 0)) = 0
    BY <2>2, FirstOf
  <2>4. SubSeq(s, 1, 0) = <<>>
    BY <2>3
  <2>5. \A x \in ToSet(Spans[r]) : ~(x.start < 0)
    BY SpanFacts
  <2> QED BY <2>1, <2>4, <2>5
<1>2. {x \in ToSet(Spans[p]) : x.start < 0} = {x \in ToSet(Spans[q]) : x.start < 0}
  BY <1>1
<1>3. View(p, 0) = View(q, 0)
  BY <1>1, <1>2 DEF View
<1>4. ~SplitsImage(p, 0)
  BY <1>1 DEF SplitsImage
<1> QED BY <1>3, <1>4

\* Alike is seen alike.
LEMMA AlikeSeen ==
  ASSUME NEW p, NEW q, NEW n, Alike(p, q, n)
  PROVE  View(p, n) = View(q, n)
<1>1. {x \in ToSet(Spans[p]) : x.start < n} = {x \in ToSet(Spans[q]) : x.start < n}
  BY DEF Alike
<1>2. SubSeq(Ids[p], 1, n) = SubSeq(Ids[q], 1, n)
  BY DEF Alike
<1> QED BY <1>1, <1>2 DEF View

\* What a finished restore gives matches its prompt.
LEMMA PrefixByInv == RestoreInv => RestoredPrefixMatches
<1>1. SUFFICES ASSUME RestoreInv, job.stage = "done"
      PROVE  /\ ~SplitsImage(job.prompt, job.len)
             /\ job.source = "hot" =>
                  \A q \in job.entries : View(q, job.len) = View(job.prompt, job.len)
             /\ job.source = "disk" =>
                  /\ OnDisk(store, job.prompt, job.len)
                  /\ \A i \in DOMAIN Plan :
                       View(store.blobs[Plan[i]], Plan[i][1][2]) = View(job.prompt, Plan[i][1][2])
  BY DEF RestoredPrefixMatches
<1>2. CacheInv /\ JobIs(job) /\ JobFits(job, work.kinds, store.sized) /\ work \in Workloads
  BY <1>1, RestoreFacts DEF Stages
<1>3. PICK j, p, K, there, s : /\ j = job /\ p = j.prompt /\ K = work.kinds
                               /\ s = store /\ there = s.sized
  OBVIOUS
<1>4. JobIs(j) /\ j.hotLen = HotPrefix(p, j.entries) /\ Settled(j, K, there)
  BY <1>1, <1>2, <1>3 DEF JobFits
<1>5. BlobsTrue(s) /\ DOMAIN s.blobs = there
  BY <1>2, <1>3 DEF CacheInv, Sound, Physical
<1>6. p \in Prompt /\ j.entries \subseteq Prompt
  BY <1>3, <1>4 DEF JobIs
<1>7. CASE j.source = "none"
  <2>1. j.len = 0
    BY <1>4, <1>7 DEF Settled
  <2> QED BY <1>3, <1>6, <1>7, <2>1, NothingSeen
<1>8. CASE j.source = "hot"
  <2>1. j.len = j.hotLen
    BY <1>4, <1>8 DEF Settled
  <2>2. PICK h : h = j.hotLen
    OBVIOUS
  <2>3. IsFiniteSet(j.entries) /\ Cardinality(j.entries) <= 1
    BY <1>4 DEF JobIs
  <2>4. /\ h # 0 => \E q \in j.entries : Alike(p, q, h) /\ ~SplitsImage(p, h)
        /\ \A q, r \in j.entries : q = r
    BY <1>4, <1>6, <2>2, <2>3, HotServes
  <2>5. ~SplitsImage(p, h) /\ \A q \in j.entries : View(q, h) = View(p, h)
    <3>1. CASE h = 0
      <4>1. ~SplitsImage(p, h)
        BY <1>6, <3>1, NothingSeen
      <4>2. ASSUME NEW q \in j.entries PROVE View(q, h) = View(p, h)
        BY <1>6, <3>1, NothingSeen
      <4> QED BY <4>1, <4>2
    <3>2. CASE h # 0
      <4>1. PICK q \in j.entries : Alike(p, q, h) /\ ~SplitsImage(p, h)
        BY <2>4, <3>2
      <4>2. View(p, h) = View(q, h)
        BY <4>1, AlikeSeen
      <4>3. \A r \in j.entries : r = q
        BY <2>4
      <4> QED BY <4>1, <4>2, <4>3
    <3> QED BY <3>1, <3>2
  <2> QED BY <1>3, <1>8, <2>1, <2>2, <2>5
<1>9. CASE j.source = "disk"
  <2>1. PICK n : n = j.diskLen
    OBVIOUS
  <2>2. j.len = n /\ n # 0 /\ Links(K, p, n) \subseteq there
    BY <1>3, <1>4, <1>9, <2>1 DEF Settled
  <2>3. n \in ChunkEnds(p) /\ n <= Len(Ids[p]) - 1 /\ ~SplitsImage(p, n)
    BY <1>3, <1>4, <2>1, <2>2 DEF JobIs
  <2>4. Chain(p, n) \subseteq DOMAIN s.blobs
    BY <1>3, <1>5, <2>2, ByKinds
  <2>5. OnDisk(s, p, n)
    BY <1>2, <1>6, <2>3, <2>4, OnDiskRight
  <2>6. PICK plan : plan = LoadOrder[p][n]
    OBVIOUS
  <2>7. plan \in Seq(RecordKeys) /\ ToSet(plan) = Chain(p, n)
    BY <1>2, <1>6, <2>3, <2>6, LoadOrderRight
  <2>8. ASSUME NEW i \in DOMAIN plan
        PROVE  View(s.blobs[plan[i]], plan[i][1][2]) = View(p, plan[i][1][2])
    <3>1. PICK k : k = plan[i]
      OBVIOUS
    <3>2. k \in Chain(p, n)
      BY <2>7, <3>1 DEF ToSet
    <3>3. k \in DOMAIN s.blobs
      BY <2>4, <3>2
    <3>4. View(s.blobs[k], k[1][2]) = View(p, k[1][2])
      BY <1>5, <1>6, <2>3, <3>2, <3>3, RecordSeen
    <3> QED BY <3>1, <3>4
  <2>9. Plan = plan
    BY <1>3, <2>1, <2>6 DEF Plan
  <2> QED BY <1>3, <1>9, <2>2, <2>3, <2>5, <2>8, <2>9
<1>10. j.source \in {"none", "hot", "disk"}
  BY <1>4 DEF Settled
<1> QED BY <1>7, <1>8, <1>9, <1>10

\* What a restore returns was computed from the tokens and the images of
\* the request itself, for any prompts, images, kinds and budgets: a hot
\* prefix is seen alike token by token and image by image, and a record's
\* key hashes its tokens and the images its chunks overlap, which tells
\* where those images begin and end.
THEOREM RestoredPrefixesMatch == CacheSpec => []RestoredPrefixMatches
BY RestoreInvHolds, PrefixByInv, PTL

==============================================================================
