--------------------------- MODULE DecodeBatchProofs ---------------------------
(***************************************************************************)
(* Proofs about DecodeBatch, for every number of requests, every set of    *)
(* asks and every batch size, prompt length and chunk size: what stands at *)
(* a row's place in each list of the batch stays the row's own, whichever  *)
(* rows join and leave (RowsStayOwn), and every logits processor sees the  *)
(* whole text before its token (ProcessorsAlwaysSeeAll).                   *)
(*                                                                         *)
(* DecodeInv is inductive.  It says, of the batch, what the properties say *)
(* of the responses to come: a row's history, penalty buffer and cache are *)
(* the same prefix of its text, the token and the candidates at its place  *)
(* are the next ones, as many of them as it asked for, its delta is its    *)
(* prompt's, and the chunks counted as saved are all that are complete.    *)
(* Of the model's RoPE state it says whose deltas it may hold, and that a  *)
(* batch that gives none finds those of one prompt at most.                *)
(***************************************************************************)
EXTENDS DecodeBatch, SequenceTheorems, WellFoundedInduction, TLAPS

-----------------------------------------------------------------------------
(* Numbers, lists and texts.                                               *)

\* Of any natural numbers there is a least.
LEMMA LeastNumber ==
  ASSUME NEW S, S \subseteq Nat, S # {}
  PROVE  \E x \in S : \A y \in S : x <= y
<1>1. PICK x \in S : \A y \in S : ~ (<<y, x>> \in OpToRel(<, Nat))
  BY NatLessThanWellFounded, WFMin
<1>2. \A y \in S : ~ (y < x)
  BY <1>1 DEF OpToRel
<1> QED BY <1>2

\* The numbers in a list have a bound.
LEMMA ListBounded ==
  ASSUME NEW n \in Nat, NEW f \in [1..n -> Nat]
  PROVE  \E u \in Nat : \A i \in 1..n : f[i] <= u
<1> DEFINE Unbounded == {m \in 0..n : \A u \in Nat : \E i \in 1..m : f[i] > u}
<1>0. \A m : m \in Unbounded <=> m \in 0..n /\ \A u \in Nat : \E i \in 1..m : f[i] > u
  OBVIOUS
<1> HIDE DEF Unbounded
<1>1. ASSUME Unbounded # {}
      PROVE  FALSE
  <2>1. PICK m \in Unbounded : \A k \in Unbounded : m <= k
    <3>1. Unbounded \subseteq Nat
      BY <1>0
    <3> QED BY <1>1, <3>1, LeastNumber
  <2>2. m \in Nat /\ m # 0 /\ m <= n
    <3>1. 0 \notin Unbounded
      <4>1. 0 \in Nat /\ 1..0 = {}
        OBVIOUS
      <4> QED BY <1>0, <4>1
    <3> QED BY <1>0, <2>1, <3>1
  <2>3. m - 1 \in 0..n /\ m - 1 \notin Unbounded
    <3>1. m - 1 \in 0..n /\ ~(m <= m - 1)
      BY <2>2
    <3> QED BY <2>1, <3>1
  <2>4. PICK u \in Nat : \A i \in 1..(m-1) : f[i] <= u
    <3>1. PICK u \in Nat : \A i \in 1..(m-1) : ~(f[i] > u)
      BY <1>0, <2>3
    <3>2. \A i \in 1..(m-1) : f[i] \in Nat
      BY <2>2
    <3>3. \A i \in 1..(m-1) : f[i] <= u
      BY <3>1, <3>2
    <3> QED BY <3>3
  <2>5. PICK v \in Nat : u <= v /\ f[m] <= v
    <3>1. f[m] \in Nat
      BY <2>2
    <3>2. CASE u <= f[m]
      BY <3>1, <3>2
    <3>3. CASE f[m] <= u
      BY <3>1, <3>3
    <3> QED BY <3>1, <3>2, <3>3
  <2>6. \A i \in 1..m : f[i] <= v
    <3>1. \A i \in 1..m : i \in 1..(m-1) \/ i = m
      BY <2>2
    <3>2. \A i \in 1..(m-1) : f[i] \in Nat
      BY <2>2
    <3> QED BY <2>4, <2>5, <3>1, <3>2
  <2>7. PICK i \in 1..m : f[i] > v
    BY <1>0, <2>1, <2>5
  <2>8. f[i] \in Nat /\ f[i] <= v
    BY <2>2, <2>6
  <2> QED BY <2>5, <2>7, <2>8
<1>2. n \in 0..n /\ n \notin Unbounded
  <2>1. n \in 0..n
    OBVIOUS
  <2> QED BY <1>1, <2>1
<1>3. PICK u \in Nat : \A i \in 1..n : ~(f[i] > u)
  BY <1>0, <1>2
<1>4. \A i \in 1..n : f[i] \in Nat
  OBVIOUS
<1>5. \A i \in 1..n : f[i] <= u
  BY <1>3, <1>4
<1> QED BY <1>5

\* The greatest of bounded numbers.
LEMMA MaxOfBounded ==
  ASSUME NEW S, S \subseteq Nat, S # {}, NEW u \in Nat, \A x \in S : x <= u
  PROVE  Max(S) \in S /\ \A x \in S : x <= Max(S)
<1> DEFINE T == {u - x : x \in S}
<1>1. T \subseteq Nat /\ T # {}
  <2>1. \A x \in S : u - x \in Nat
    OBVIOUS
  <2> QED BY <2>1
<1>2. PICK t \in T : \A y \in T : t <= y
  <2> HIDE DEF T
  <2> QED BY <1>1, LeastNumber
<1>3. PICK x \in S : t = u - x
  BY <1>2
<1>4. \A y \in S : y <= x
  <2> TAKE y \in S
  <2>1. u - x <= u - y
    BY <1>2, <1>3
  <2>2. x \in Nat /\ y \in Nat
    OBVIOUS
  <2> QED BY <2>1, <2>2
<1>5. \E z \in S : \A y \in S : z >= y
  BY <1>4
<1> QED BY <1>5 DEF Max

\* The lesser of two numbers.
LEMMA MinOfTwo ==
  ASSUME NEW a \in Nat, NEW b \in Nat
  PROVE  Min({a, b}) = IF a <= b THEN a ELSE b
<1>1. \E x \in {a, b} : \A y \in {a, b} : x <= y
  OBVIOUS
<1>2. Min({a, b}) \in {a, b} /\ \A y \in {a, b} : Min({a, b}) <= y
  BY <1>1 DEF Min
<1> QED BY <1>2

\* How many whole chunks a text has.
LEMMA WholeChunks ==
  ASSUME NEW n \in Nat, NEW c \in Nat \ {0}
  PROVE  /\ n \div c \in Nat
         /\ (n \div c) * c <= n
         /\ n < (n \div c + 1) * c
OBVIOUS

\* A text between two ends of chunks has as many whole chunks.
LEMMA ChunkCount ==
  ASSUME NEW n \in Nat, NEW c \in Nat \ {0}, NEW q \in Nat, q * c <= n, n < (q + 1) * c
  PROVE  n \div c = q
OBVIOUS

Token == Requests \X Nat

\* Texts.
LEMMA TextShape ==
  ASSUME NEW r \in Requests, NEW n \in Nat
  PROVE  /\ Text(r, n) \in Seq(Token) /\ Len(Text(r, n)) = n
         /\ Append(Text(r, n), <<r, n + 1>>) = Text(r, n + 1)
<1>1. Text(r, n) \in [1..n -> Token]
  BY DEF Text, Token
<1>2. Text(r, n) \in Seq(Token) /\ Len(Text(r, n)) = n
  BY <1>1
<1>3. Text(r, n + 1) \in [1..(n+1) -> Token]
  BY DEF Text, Token
<1>4. PICK t \in Seq(Token) : t = Append(Text(r, n), <<r, n + 1>>)
  <2>1. <<r, n + 1>> \in Token
    BY DEF Token
  <2> QED BY <1>2, <2>1, AppendProperties
<1>5. DOMAIN t = 1..(n+1) /\ \A i \in 1..(n+1) : t[i] = IF i <= n THEN Text(r, n)[i] ELSE <<r, n+1>>
  BY <1>1, <1>2, <1>4
<1>6. \A i \in 1..(n+1) : t[i] = Text(r, n+1)[i]
  BY <1>5 DEF Text
<1>7. t = Text(r, n+1)
  BY <1>3, <1>5, <1>6
<1> QED BY <1>2, <1>4, <1>7

\* Lists of n entries.
LEMMA ListShape ==
  ASSUME NEW S, NEW n \in Nat, NEW f \in [1..n -> S]
  PROVE  f \in Seq(S) /\ Len(f) = n /\ DOMAIN f = 1..n
OBVIOUS

\* Lists of n entries of S.
Lists(S, n) == [1..n -> S]

\* One more entry.
LEMMA ListJoined ==
  \A S : \A n \in Nat : \A f \in Lists(S, n), g \in Lists(S, 1) :
    /\ f \o g \in Lists(S, n + 1)
    /\ \A i \in 1..(n+1) : (f \o g)[i] = IF i = n + 1 THEN g[1] ELSE f[i]
<1> SUFFICES ASSUME NEW S, NEW n \in Nat, NEW f \in [1..n -> S], NEW g \in [1..1 -> S]
             PROVE  /\ f \o g \in [1..(n+1) -> S]
                    /\ \A i \in 1..(n+1) : (f \o g)[i] = IF i = n + 1 THEN g[1] ELSE f[i]
  BY DEF Lists
<1>1. f \in Seq(S) /\ Len(f) = n /\ g \in Seq(S) /\ Len(g) = 1
  BY ListShape
<1>2. PICK h : h = f \o g
  OBVIOUS
<1>3. h \in Seq(S) /\ Len(h) = n + 1
  <2>1. \A s, t \in Seq(S) : s \o t \in Seq(S) /\ Len(s \o t) = Len(s) + Len(t)
    BY ConcatProperties
  <2> QED BY <1>1, <1>2, <2>1
<1>4. DOMAIN h = 1..(n+1) /\ \A i \in 1..(n+1) : h[i] = IF i <= n THEN f[i] ELSE g[i - n]
  BY <1>1, <1>2, <1>3, ConcatProperties, LenProperties
<1>5. \A i \in 1..(n+1) : h[i] \in S
  BY <1>3, <1>4
<1>6. h \in [1..(n+1) -> S]
  BY <1>3, <1>4, <1>5
<1>7. \A i \in 1..(n+1) : i <= n \/ (i = n + 1 /\ ~(i <= n) /\ i - n = 1)
  OBVIOUS
<1>8. \A i \in 1..(n+1) : h[i] = IF i = n + 1 THEN g[1] ELSE f[i]
  <2>1. \A i \in 1..(n+1) : i = n + 1 => ~(i <= n)
    OBVIOUS
  <2> QED BY <1>4, <1>7, <2>1
<1> QED BY <1>2, <1>6, <1>8

-----------------------------------------------------------------------------
(* The inductive invariant.                                                *)

RowType == [request : Requests, tokens : Seq(Token), emitted : Nat, buffer : Seq(Token), saved : Nat]
TopType == [of : Token \cup {Garbage}, real : Nat]
DeltaType == Requests \cup {TextDelta}

\* The candidates of n rows, and their deltas.
Tops(n) == {NoTop} \cup [width : Nat \ {0}, rows : [1..n -> TopType]]
DeltaLists(n) == {<<>>} \cup [1..n -> DeltaType]

\* Every list of a batch of n rows has an entry per row.
Batches(n) ==
  [rows     : [1..n -> RowType],
   cache    : [1..n -> Seq(Token)],
   scalar   : BOOLEAN,
   tokens   : [1..n -> Token],
   logprobs : [1..n -> Token],
   top      : Tops(n),
   deltas   : DeltaLists(n)]

\* Row i of a batch, which has emitted "emitted" tokens, and the entries at its place.
OwnEntries(b, i) ==
  LET row == b.rows[i]
      r == row.request
      n == PromptLength + row.emitted
  IN  /\ asked[r] \in Asks
      /\ row.tokens = Text(r, n)
      /\ row.buffer = IF "penalty" \in asked[r].processors THEN Text(r, n) ELSE <<>>
      /\ b.cache[i] = Text(r, n)
      /\ b.tokens[i] = <<r, n + 1>>
      /\ b.logprobs[i] = <<r, n + 1>>

\* The candidates at its place are of its token and as many as it asked for.
OwnTop(b, i) ==
  asked[b.rows[i].request].top > 0 =>
    /\ b.top # NoTop
    /\ b.top.rows[i].of = b.tokens[i]
    /\ b.top.rows[i].real >= asked[b.rows[i].request].top

OwnDelta(b, i) ==
  Delta(b.rows[i].request) = IF b.deltas = <<>> THEN TextDelta ELSE b.deltas[i]

\* The chunks saved are complete, and the next one is not.
SavedTo(row) ==
  /\ row.saved * ChunkSize <= PromptLength + row.emitted
  /\ PromptLength + row.emitted < (row.saved + 1) * ChunkSize

\* A batch of n rows.
Fits(b, n) ==
  /\ b \in Batches(n)
  /\ b.scalar <=> n = 1
  /\ b.top.width = WidestTop(b.rows)
  /\ \A i \in 1..n : OwnEntries(b, i) /\ OwnTop(b, i) /\ OwnDelta(b, i)

Chained(b, n) == \A i \in 1..n : SavedTo(b.rows[i])

\* What an ask may be.
LEMMA AskShape ==
  ASSUME NEW ask \in Asks
  PROVE  /\ ask.prompt \in {"image", "text", "own"} /\ ask.top \in Nat /\ ask.max \in Nat \ {0}
         /\ ask.processors \in {{}, {"penalty"}, {"guard"}, {"json"},
                                {"penalty", "guard"}, {"penalty", "json"}}
BY DecodeAssumption

\* The widest top of a list of rows is that of one of them, or 0.
LEMMA Widest ==
  ASSUME NEW n \in Nat, NEW rows \in [1..n -> RowType],
         \A i \in 1..n : asked[rows[i].request] \in Asks
  PROVE  /\ WidestTop(rows) \in Nat
         /\ \A i \in 1..n : asked[rows[i].request].top <= WidestTop(rows)
<1> DEFINE f == [i \in 1..n |-> asked[rows[i].request].top]
           S == {0} \cup {asked[row.request].top : row \in ToSet(rows)}
<1>1. f \in [1..n -> Nat]
  BY AskShape
<1>2. PICK u \in Nat : \A i \in 1..n : f[i] <= u
  <2> HIDE DEF f
  <2> QED BY <1>1, ListBounded
<1>3. \A x \in S : x \in Nat /\ x <= u
  <2>1. \A row \in ToSet(rows) : \E i \in 1..n : row = rows[i]
    BY DEF ToSet
  <2>2. \A i \in 1..n : asked[rows[i].request].top \in Nat /\ asked[rows[i].request].top <= u
    BY <1>1, <1>2
  <2> QED BY <2>1, <2>2
<1>4. \A i \in 1..n : asked[rows[i].request].top \in S
  BY DEF ToSet
<1>5. Max(S) \in S /\ \A x \in S : x <= Max(S)
  <2>1. S \subseteq Nat /\ S # {}
    BY <1>3
  <2> HIDE DEF S
  <2> QED BY <1>3, <2>1, MaxOfBounded
<1>6. WidestTop(rows) = Max(S)
  BY DEF WidestTop
<1> QED BY <1>3, <1>4, <1>5, <1>6

\* It depends on the requests of the rows alone.
LEMMA SameWidest ==
  ASSUME NEW n \in Nat, NEW rows \in [1..n -> RowType], NEW others \in [1..n -> RowType],
         \A i \in 1..n : others[i].request = rows[i].request
  PROVE  WidestTop(others) = WidestTop(rows)
<1>1. {asked[row.request].top : row \in ToSet(rows)} = {asked[row.request].top : row \in ToSet(others)}
  <2>1. ToSet(rows) = {rows[i] : i \in 1..n} /\ ToSet(others) = {others[i] : i \in 1..n}
    BY DEF ToSet
  <2> QED BY <2>1
<1> QED BY <1>1 DEF WidestTop

\* Without rows it is 0.
LEMMA WidestOfNone ==
  ASSUME NEW rows \in [1..0 -> RowType]
  PROVE  WidestTop(rows) = 0
<1>1. ToSet(rows) = {}
  BY DEF ToSet
<1>2. Max({0}) = 0
  BY DEF Max
<1>3. {0} \cup {asked[row.request].top : row \in ToSet(rows)} = {0}
  BY <1>1
<1> QED BY <1>2, <1>3 DEF WidestTop

\* An empty batch.
LEMMA EmptyFits ==
  Fits(EmptyBatch, 0) /\ Chained(EmptyBatch, 0)
<1>1. \A S : <<>> \in [1..0 -> S]
  OBVIOUS
<1>2. EmptyBatch \in Batches(0)
  BY <1>1 DEF EmptyBatch, Batches, Tops, DeltaLists
<1>3. WidestTop(<<>>) = 0
  BY <1>1, WidestOfNone
<1> QED BY <1>2, <1>3 DEF Fits, Chained, EmptyBatch, NoTop

\* The number of rows of a batch.
LEMMA BatchLength ==
  ASSUME NEW n \in Nat, NEW b \in Batches(n)
  PROVE  /\ Len(b.rows) = n /\ Len(b.cache) = n /\ Len(b.tokens) = n /\ Len(b.logprobs) = n
         /\ DOMAIN b.rows = 1..n /\ DOMAIN b.cache = 1..n
         /\ b.rows = <<>> <=> n = 0
         /\ Len(b.deltas) \in {0, n}
         /\ b.top # NoTop => Len(b.top.rows) = n /\ b.top.width # 0
<1>1. /\ b.rows \in [1..n -> RowType] /\ b.cache \in [1..n -> Seq(Token)]
      /\ b.tokens \in [1..n -> Token] /\ b.logprobs \in [1..n -> Token]
      /\ b.deltas = <<>> \/ b.deltas \in [1..n -> DeltaType]
      /\ b.top = NoTop \/ b.top \in [width : Nat \ {0}, rows : [1..n -> TopType]]
  BY DEF Batches, Tops, DeltaLists
<1>2. b.rows = <<>> <=> n = 0
  <2>1. DOMAIN b.rows = 1..n /\ DOMAIN <<>> = {}
    BY <1>1
  <2>2. n # 0 => 1 \in 1..n
    OBVIOUS
  <2>3. n = 0 => b.rows = <<>>
    BY <1>1
  <2> QED BY <2>1, <2>2, <2>3
<1>3. Len(b.rows) = n /\ Len(b.cache) = n /\ Len(b.tokens) = n /\ Len(b.logprobs) = n
  BY <1>1, ListShape
<1>4. Len(b.deltas) \in {0, n}
  BY <1>1, ListShape
<1>5. b.top # NoTop => Len(b.top.rows) = n /\ b.top.width # 0
  BY <1>1, ListShape
<1> QED BY <1>1, <1>2, <1>3, <1>4, <1>5

-----------------------------------------------------------------------------
(* A prompt's own batch of one.                                            *)

\* The model reads out of a text its next token, which the request's sampler takes.
LEMMA NextToken ==
  ASSUME NEW r \in Requests, NEW n \in Nat \ {0}
  PROVE  Logits(Text(r, n)) = <<r, n + 1>> /\ Sampled(r, <<r, n + 1>>) = <<r, n + 1>>
<1>1. Len(Text(r, n)) = n
  BY TextShape
<1>2. Text(r, n)[1][1] = r
  BY DEF Text
<1> QED BY <1>1, <1>2 DEF Logits, Sampled

\* A list of one.
LEMMA OneEntry ==
  \A S : \A x \in S : <<x>> \in [1..1 -> S]
OBVIOUS

\* The deltas captured for a prompt are its own.
LEMMA OwnDeltas ==
  ASSUME NEW r \in Requests, NEW s
  PROVE  CaptureDeltas(r, AfterPromptCall(r, s)) = IF OwnsRope(r) THEN <<Delta(r)>> ELSE <<>>
<1>1. CASE OwnsRope(r)
  BY <1>1 DEF CaptureDeltas, PromptDeltas
<1>2. CASE ~OwnsRope(r)
  BY <1>2 DEF CaptureDeltas, AfterPromptCall, ClearedForText, ClearSide
<1> QED BY <1>1, <1>2

\* A prompt's batch of one, whatever RoPE state it was worked on with.
LEMMA GeneratedFits ==
  ASSUME NEW r \in Requests, asked[r] \in Asks, NEW s
  PROVE  Fits(Generated(r, s), 1) /\ Chained(Generated(r, s), 1)
<1> DEFINE text == Text(r, PromptLength)
           first == <<r, PromptLength + 1>>
           row == [request |-> r, tokens |-> text, emitted |-> 0,
                   buffer |-> IF "penalty" \in asked[r].processors THEN text ELSE <<>>,
                   saved |-> PromptLength \div ChunkSize]
           top == TopLogprobs(<<first>>, asked[r].top)
           deltas == IF OwnsRope(r) THEN <<Delta(r)>> ELSE <<>>
<1>0. PromptLength \in Nat \ {0} /\ ChunkSize \in Nat \ {0} /\ asked[r].top \in Nat
      /\ asked[r].prompt \in {"image", "text", "own"}
  BY AskShape, DecodeAssumption
<1>1. Generated(r, s) = [rows |-> <<row>>, cache |-> <<text>>, scalar |-> TRUE,
                         tokens |-> <<first>>, logprobs |-> <<first>>, top |-> top,
                         deltas |-> deltas]
  <2>1. Sampled(r, Logits(text)) = first
    BY <1>0, NextToken
  <2> QED BY <2>1, OwnDeltas DEF Generated
<1>2. text \in Seq(Token) /\ first \in Token /\ Len(text) = PromptLength
  BY <1>0, TextShape DEF Token
<1>3. row \in RowType
  <2>1. <<>> \in Seq(Token)
    OBVIOUS
  <2>2. PromptLength \div ChunkSize \in Nat
    BY <1>0, WholeChunks
  <2> QED BY <1>2, <2>1, <2>2 DEF RowType
<1>4. top = IF asked[r].top = 0 THEN NoTop
            ELSE [width |-> asked[r].top, rows |-> <<[of |-> first, real |-> asked[r].top]>>]
  <2>1. [i \in DOMAIN <<first>> |-> [of |-> <<first>>[i], real |-> asked[r].top]]
          = <<[of |-> first, real |-> asked[r].top]>>
    OBVIOUS
  <2> QED BY <2>1 DEF TopLogprobs
<1>5. top \in {NoTop} \cup [width : Nat \ {0}, rows : [1..1 -> TopType]]
  <2>1. [of |-> first, real |-> asked[r].top] \in TopType
    BY <1>0, <1>2 DEF TopType
  <2>2. <<[of |-> first, real |-> asked[r].top]>> \in [1..1 -> TopType]
    BY <2>1, OneEntry
  <2> QED BY <1>0, <1>4, <2>2
<1>6. deltas \in {<<>>} \cup [1..1 -> DeltaType]
  <2>1. Delta(r) \in DeltaType
    BY DEF Delta, DeltaType
  <2>2. <<Delta(r)>> \in [1..1 -> DeltaType]
    BY <2>1, OneEntry
  <2> QED BY <2>2
<1> HIDE DEF text, first, row, top, deltas
<1>7. Generated(r, s) \in Batches(1)
  <2>1. <<row>> \in [1..1 -> RowType] /\ <<text>> \in [1..1 -> Seq(Token)] /\ <<first>> \in [1..1 -> Token]
    BY <1>2, <1>3, OneEntry
  <2> QED BY <1>1, <1>5, <1>6, <2>1 DEF Batches, Tops, DeltaLists
<1>8. WidestTop(<<row>>) = asked[r].top
  <2>1. row.request = r
    BY DEF row
  <2>2. <<row>> \in [1..1 -> RowType] /\ <<row>>[1] = row
    BY <1>3, OneEntry
  <2>3. WidestTop(<<row>>) \in {0, asked[r].top}
    <3>1. ToSet(<<row>>) = {row}
      BY DEF ToSet
    <3>2. {0} \cup {asked[x.request].top : x \in {row}} = {0, asked[r].top}
      BY <2>1
    <3>3. {0, asked[r].top} \subseteq Nat /\ \A x \in {0, asked[r].top} : x <= asked[r].top
      BY <1>0
    <3>4. Max({0, asked[r].top}) \in {0, asked[r].top}
      BY <1>0, <3>3, MaxOfBounded
    <3> QED BY <3>1, <3>2, <3>4 DEF WidestTop
  <2>4. asked[r].top <= WidestTop(<<row>>)
    <3>1. PICK rows \in [1..1 -> RowType] : rows = <<row>> /\ rows[1].request = r
      BY <2>1, <2>2
    <3>2. \A i \in 1..1 : asked[rows[i].request] \in Asks
      BY <3>1
    <3>3. \A i \in 1..1 : asked[rows[i].request].top <= WidestTop(rows)
      BY <3>2, Widest
    <3>4. 1 \in 1..1
      OBVIOUS
    <3> QED BY <3>1, <3>3, <3>4
  <2> QED BY <1>0, <2>3, <2>4
<1>9. \A i \in 1..1 : i = 1
  OBVIOUS
<1>10. OwnEntries(Generated(r, s), 1)
  BY <1>0, <1>1 DEF OwnEntries, row, text, first
<1>11. OwnTop(Generated(r, s), 1)
  <2>1. Generated(r, s).rows[1].request = r /\ Generated(r, s).tokens[1] = first
        /\ Generated(r, s).top = top
    BY <1>1 DEF row
  <2>2. CASE asked[r].top > 0
    <3>1. top.rows[1] = [of |-> first, real |-> asked[r].top] /\ top # NoTop
      BY <1>0, <1>4, <2>2 DEF NoTop
    <3> QED BY <1>0, <2>1, <3>1 DEF OwnTop
  <2> QED BY <2>1, <2>2 DEF OwnTop
<1>12. OwnDelta(Generated(r, s), 1)
  <2>1. Generated(r, s).rows[1].request = r /\ Generated(r, s).deltas = deltas
    BY <1>1 DEF row
  <2>2. deltas = <<>> => Delta(r) = TextDelta
    BY <1>0 DEF deltas, OwnsRope, Delta
  <2>3. deltas # <<>> => deltas[1] = Delta(r)
    BY DEF deltas
  <2> QED BY <2>1, <2>2, <2>3 DEF OwnDelta
<1>13. SavedTo(Generated(r, s).rows[1])
  <2>1. Generated(r, s).rows[1].saved = PromptLength \div ChunkSize
        /\ Generated(r, s).rows[1].emitted = 0
    BY <1>1 DEF row
  <2> QED BY <1>0, <2>1, WholeChunks DEF SavedTo
<1>14. Generated(r, s).top.width = WidestTop(Generated(r, s).rows) /\ Generated(r, s).scalar = TRUE
  BY <1>0, <1>1, <1>4, <1>8 DEF NoTop
<1> QED BY <1>7, <1>9, <1>10, <1>11, <1>12, <1>13, <1>14 DEF Fits, Chained

-----------------------------------------------------------------------------
(* A decode step.                                                          *)

\* A row that gets its token.
RowStepped(row, last) ==
  [row EXCEPT !.tokens = Materialized(row, last),
              !.buffer = IF "penalty" \in Processors(row) THEN Append(@, last) ELSE @,
              !.emitted = @ + 1]

\* The emitted token is in the history exactly once, processors or not.
LEMMA MaterializedOnce ==
  ASSUME NEW row \in RowType, NEW last \in Token
  PROVE  Materialized(row, last) = Append(row.tokens, last)
<1>1. row.tokens \in Seq(Token)
  BY DEF RowType
<1>2. Len(Append(row.tokens, last)) # Len(row.tokens)
  BY <1>1, AppendProperties
<1> QED BY <1>2 DEF Materialized, AfterProcessors

\* Its history, and the penalty buffer, are one token longer.
LEMMA RowSteps ==
  ASSUME NEW row \in RowType, asked[row.request] \in Asks,
         row.tokens = Text(row.request, PromptLength + row.emitted),
         row.buffer = IF "penalty" \in asked[row.request].processors THEN row.tokens ELSE <<>>,
         NEW last, last = <<row.request, PromptLength + row.emitted + 1>>
  PROVE  LET new == RowStepped(row, last)
         IN  /\ new \in RowType /\ new.request = row.request /\ new.saved = row.saved
             /\ new.emitted = row.emitted + 1
             /\ new.tokens = Text(row.request, PromptLength + row.emitted + 1)
             /\ new.buffer = IF "penalty" \in asked[row.request].processors
                             THEN Text(row.request, PromptLength + row.emitted + 1) ELSE <<>>
<1>1. /\ row.request \in Requests /\ row.emitted \in Nat /\ PromptLength \in Nat
      /\ PromptLength + row.emitted \in Nat /\ row.tokens \in Seq(Token)
      /\ row.buffer \in Seq(Token) /\ row.saved \in Nat
  BY DecodeAssumption DEF RowType
<1>2. PICK n \in Nat : n = PromptLength + row.emitted /\ last = <<row.request, n + 1>>
  BY <1>1
<1>3. last \in Token
  BY <1>1 DEF Token
<1>4. Append(Text(row.request, n), last) = Text(row.request, n + 1) /\ Text(row.request, n + 1) \in Seq(Token)
  <2>1. PICK r \in Requests : r = row.request
    BY <1>1
  <2>2. Append(Text(r, n), <<r, n + 1>>) = Text(r, n + 1)
    BY TextShape
  <2>3. Text(r, n + 1) \in Seq(Token)
    <3>1. n + 1 \in Nat
      OBVIOUS
    <3> QED BY <3>1, TextShape
  <2> QED BY <1>2, <2>1, <2>2, <2>3
<1>5. Materialized(row, last) = Text(row.request, n + 1)
  BY <1>2, <1>3, <1>4, MaterializedOnce
<1>6. RowStepped(row, last) =
        [request |-> row.request, tokens |-> Text(row.request, n + 1), emitted |-> row.emitted + 1,
         buffer |-> IF "penalty" \in asked[row.request].processors THEN Text(row.request, n + 1) ELSE <<>>,
         saved |-> row.saved]
  <2>1. (IF "penalty" \in Processors(row) THEN Append(row.buffer, last) ELSE row.buffer)
          = IF "penalty" \in asked[row.request].processors THEN Text(row.request, n + 1) ELSE <<>>
    BY <1>2, <1>4 DEF Processors
  <2> DEFINE buffer == IF "penalty" \in asked[row.request].processors THEN Text(row.request, n + 1) ELSE <<>>
  <2>2. RowStepped(row, last) = [row EXCEPT !.tokens = Text(row.request, n + 1), !.buffer = buffer,
                                            !.emitted = row.emitted + 1]
    BY <1>5, <2>1 DEF RowStepped
  <2> HIDE DEF buffer
  <2>3. RowStepped(row, last) =
          [request |-> row.request, tokens |-> Text(row.request, n + 1), emitted |-> row.emitted + 1,
           buffer |-> buffer, saved |-> row.saved]
    BY <2>2 DEF RowType
  <2> QED BY <2>3 DEF buffer
<1>7. PromptLength + row.emitted + 1 = n + 1
  BY <1>2
<1> DEFINE new == RowStepped(row, last)
           text == Text(row.request, n + 1)
<1>8. /\ text \in Seq(Token)
      /\ <<>> \in Seq(Token)
      /\ row.emitted + 1 \in Nat
  <2>1. <<>> \in Seq(Token)
    OBVIOUS
  <2>2. row.emitted + 1 \in Nat
    BY <1>1
  <2> QED BY <1>4, <2>1, <2>2
<1>9. new = [request |-> row.request, tokens |-> text, emitted |-> row.emitted + 1,
             buffer |-> IF "penalty" \in asked[row.request].processors THEN text ELSE <<>>,
             saved |-> row.saved]
  BY <1>6
<1> HIDE DEF new, text
<1>10. /\ new.request = row.request /\ new.saved = row.saved /\ new.emitted = row.emitted + 1
       /\ new.tokens = text
       /\ new.buffer = IF "penalty" \in asked[row.request].processors THEN text ELSE <<>>
  BY <1>9
<1>11. new \in RowType
  BY <1>1, <1>8, <1>9 DEF RowType
<1> QED BY <1>7, <1>10, <1>11 DEF new, text

\* What the model makes of the caches of a batch that gets its tokens.
Caches(b) == [i \in DOMAIN b.cache |-> Append(b.cache[i], b.tokens[i])]
AllLogits(b) == [i \in DOMAIN b.cache |-> Logits(Caches(b)[i])]
NextTokens(b) == [i \in DOMAIN b.rows |-> Sampled(b.rows[i].request, AllLogits(b)[i])]

\* _step, list by list.
LEMMA StepParts ==
  ASSUME NEW b
  PROVE
  Step(b) = [b EXCEPT !.rows = [i \in DOMAIN b.rows |-> RowStepped(b.rows[i], b.tokens[i])],
                      !.cache = Caches(b), !.tokens = NextTokens(b), !.logprobs = NextTokens(b),
                      !.top = TopLogprobs(AllLogits(b), WidestTop(b.rows))]
BY DEF Step, RowStepped, Caches, AllLogits, NextTokens

\* The batch after a step, its saved chunks not yet counted anew.
LEMMA StepFits ==
  ASSUME NEW n \in Nat, NEW b, Fits(b, n)
  PROVE  LET s == Step(b)
         IN  /\ Fits(s, n)
             /\ \A i \in 1..n : /\ s.rows[i].request = b.rows[i].request
                               /\ s.rows[i].saved = b.rows[i].saved
                               /\ s.rows[i].emitted = b.rows[i].emitted + 1
             /\ s.deltas = b.deltas
<1> DEFINE s == Step(b)
<1>1. /\ b \in Batches(n) /\ DOMAIN b.rows = 1..n /\ DOMAIN b.cache = 1..n
      /\ b.rows \in [1..n -> RowType] /\ b.tokens \in [1..n -> Token]
      /\ \A i \in 1..n : OwnEntries(b, i) /\ OwnDelta(b, i)
  BY BatchLength DEF Fits, Batches, Tops, DeltaLists
<1>2. s = [rows |-> [i \in 1..n |-> RowStepped(b.rows[i], b.tokens[i])],
           cache |-> Caches(b), scalar |-> b.scalar, tokens |-> NextTokens(b),
           logprobs |-> NextTokens(b), top |-> TopLogprobs(AllLogits(b), WidestTop(b.rows)),
           deltas |-> b.deltas]
  BY <1>1, StepParts DEF Batches, Tops, DeltaLists
<1>3. ASSUME NEW i \in 1..n
      PROVE  LET row == b.rows[i]
                 new == RowStepped(row, b.tokens[i])
                 m == PromptLength + row.emitted
             IN  /\ new \in RowType /\ new.request = row.request /\ new.saved = row.saved
                 /\ new.emitted = row.emitted + 1
                 /\ new.tokens = Text(row.request, m + 1)
                 /\ new.buffer = IF "penalty" \in asked[row.request].processors
                                 THEN Text(row.request, m + 1) ELSE <<>>
  <2>1. b.rows[i] \in RowType /\ OwnEntries(b, i)
    BY <1>1
  <2> QED BY <2>1, RowSteps DEF OwnEntries
<1>4. ASSUME NEW i \in 1..n
      PROVE  LET r == b.rows[i].request
                 m == PromptLength + b.rows[i].emitted
             IN  /\ r \in Requests /\ m + 1 \in Nat /\ m \in Nat
                 /\ Caches(b)[i] = Text(r, m + 1) /\ Text(r, m + 1) \in Seq(Token)
                 /\ AllLogits(b)[i] = <<r, m + 2>>
                 /\ NextTokens(b)[i] = <<r, m + 2>> /\ <<r, m + 2>> \in Token
  <2>1. PICK r \in Requests, m \in Nat \ {0} : r = b.rows[i].request /\ m = PromptLength + b.rows[i].emitted
    <3>1. b.rows[i] \in RowType
      BY <1>1
    <3>2. b.rows[i].request \in Requests /\ b.rows[i].emitted \in Nat /\ PromptLength \in Nat \ {0}
      BY <3>1, DecodeAssumption DEF RowType
    <3>3. PromptLength + b.rows[i].emitted \in Nat \ {0}
      BY <3>2
    <3> QED BY <3>2, <3>3
  <2>2. b.cache[i] = Text(r, m) /\ b.tokens[i] = <<r, m + 1>>
    BY <1>1, <2>1 DEF OwnEntries
  <2>3. Caches(b)[i] = Text(r, m + 1)
    <3>1. Append(Text(r, m), <<r, m + 1>>) = Text(r, m + 1)
      BY TextShape
    <3> QED BY <1>1, <2>2, <3>1 DEF Caches
  <2>4. m + 1 \in Nat \ {0} /\ m + 1 + 1 = m + 2
    BY <2>1
  <2>5. AllLogits(b)[i] = <<r, m + 2>> /\ Sampled(r, <<r, m + 2>>) = <<r, m + 2>>
    <3>1. Logits(Text(r, m + 1)) = <<r, m + 1 + 1>> /\ Sampled(r, <<r, m + 1 + 1>>) = <<r, m + 1 + 1>>
      BY <2>4, NextToken
    <3> QED BY <1>1, <2>3, <2>4, <3>1 DEF AllLogits
  <2>6. NextTokens(b)[i] = <<r, m + 2>>
    BY <1>1, <2>1, <2>5 DEF NextTokens
  <2>7. Text(r, m + 1) \in Seq(Token) /\ <<r, m + 2>> \in Token
    <3>1. m + 2 \in Nat /\ m + 1 \in Nat
      BY <2>4
    <3>2. \A q \in Nat : Text(r, q) \in Seq(Token)
      BY TextShape
    <3>3. Text(r, m + 1) \in Seq(Token)
      BY <3>1, <3>2
    <3>4. <<r, m + 2>> \in Token
      BY <3>1 DEF Token
    <3> QED BY <3>3, <3>4
  <2> QED BY <2>1, <2>3, <2>4, <2>5, <2>6, <2>7
<1>5. /\ s.rows \in [1..n -> RowType] /\ s.cache \in [1..n -> Seq(Token)]
      /\ s.tokens \in [1..n -> Token] /\ s.logprobs \in [1..n -> Token]
      /\ DOMAIN AllLogits(b) = 1..n
  <2>1. DOMAIN Caches(b) = 1..n /\ DOMAIN NextTokens(b) = 1..n /\ DOMAIN AllLogits(b) = 1..n
    BY <1>1 DEF Caches, NextTokens, AllLogits
  <2>2. Caches(b) \in [1..n -> Seq(Token)]
    <3>1. \A i \in 1..n : Caches(b)[i] \in Seq(Token)
      BY <1>4
    <3> QED BY <2>1, <3>1 DEF Caches
  <2>3. NextTokens(b) \in [1..n -> Token]
    <3>1. \A i \in 1..n : NextTokens(b)[i] \in Token
      BY <1>4
    <3> QED BY <2>1, <3>1 DEF NextTokens
  <2>4. [i \in 1..n |-> RowStepped(b.rows[i], b.tokens[i])] \in [1..n -> RowType]
    BY <1>3
  <2> QED BY <1>2, <2>1, <2>2, <2>3, <2>4
<1>6. PICK k \in Nat : k = WidestTop(b.rows) /\ k = WidestTop(s.rows)
  <2>1. \A i \in 1..n : asked[b.rows[i].request] \in Asks
    BY <1>1 DEF OwnEntries
  <2>2. WidestTop(b.rows) \in Nat
    BY <1>1, <2>1, Widest
  <2>3. \A i \in 1..n : s.rows[i].request = b.rows[i].request
    BY <1>2, <1>3
  <2>4. WidestTop(s.rows) = WidestTop(b.rows)
    BY <1>1, <1>5, <2>3, SameWidest
  <2> QED BY <2>2, <2>4
<1>7. /\ s.top = IF k = 0 THEN NoTop ELSE [width |-> k, rows |-> [i \in 1..n |-> [of |-> AllLogits(b)[i], real |-> k]]]
      /\ s.top \in {NoTop} \cup [width : Nat \ {0}, rows : [1..n -> TopType]]
  <2>1. s.top = IF k = 0 THEN NoTop ELSE [width |-> k, rows |-> [i \in 1..n |-> [of |-> AllLogits(b)[i], real |-> k]]]
    BY <1>2, <1>5, <1>6 DEF TopLogprobs
  <2>2. \A i \in 1..n : [of |-> AllLogits(b)[i], real |-> k] \in TopType
    BY <1>4 DEF TopType
  <2>3. [i \in 1..n |-> [of |-> AllLogits(b)[i], real |-> k]] \in [1..n -> TopType]
    BY <2>2
  <2> QED BY <2>1, <2>3
<1>8. s \in Batches(n)
  BY <1>1, <1>2, <1>5, <1>7 DEF Batches, Tops, DeltaLists
<1>9. s.top.width = WidestTop(s.rows) /\ (s.scalar <=> n = 1)
  <2>1. s.top.width = k
    BY <1>7 DEF NoTop
  <2> QED BY <1>2, <1>6, <2>1 DEF Fits
<1>10. ASSUME NEW i \in 1..n
       PROVE  OwnEntries(s, i) /\ OwnTop(s, i) /\ OwnDelta(s, i)
  <2>1. PICK r \in Requests, m \in Nat :
             r = b.rows[i].request /\ m = PromptLength + b.rows[i].emitted
             /\ asked[r] \in Asks /\ m + 1 = PromptLength + s.rows[i].emitted
             /\ s.rows[i].request = r
    <3>1. b.rows[i] \in RowType
      BY <1>1
    <3>2. b.rows[i].request \in Requests /\ b.rows[i].emitted \in Nat /\ PromptLength \in Nat
      BY <3>1, DecodeAssumption DEF RowType
    <3>3. s.rows[i].emitted = b.rows[i].emitted + 1 /\ s.rows[i].request = b.rows[i].request
      BY <1>2, <1>3
    <3>4. asked[b.rows[i].request] \in Asks
      BY <1>1 DEF OwnEntries
    <3>5. PromptLength + b.rows[i].emitted \in Nat
          /\ PromptLength + b.rows[i].emitted + 1 = PromptLength + s.rows[i].emitted
      BY <3>2, <3>3
    <3> QED BY <3>2, <3>3, <3>4, <3>5
  <2>2. /\ s.rows[i].tokens = Text(r, m + 1) /\ s.cache[i] = Text(r, m + 1)
        /\ s.rows[i].buffer = IF "penalty" \in asked[r].processors THEN Text(r, m + 1) ELSE <<>>
        /\ s.tokens[i] = <<r, m + 1 + 1>> /\ s.logprobs[i] = <<r, m + 1 + 1>>
        /\ AllLogits(b)[i] = <<r, m + 1 + 1>>
    <3>1. m + 2 = m + 1 + 1
      OBVIOUS
    <3>2. s.rows[i] = RowStepped(b.rows[i], b.tokens[i])
      BY <1>2
    <3>3. /\ RowStepped(b.rows[i], b.tokens[i]).tokens = Text(r, m + 1)
          /\ RowStepped(b.rows[i], b.tokens[i]).buffer
               = IF "penalty" \in asked[r].processors THEN Text(r, m + 1) ELSE <<>>
      BY <1>3, <2>1
    <3>4. /\ Caches(b)[i] = Text(r, m + 1) /\ AllLogits(b)[i] = <<r, m + 2>>
          /\ NextTokens(b)[i] = <<r, m + 2>>
      BY <1>4, <2>1
    <3> QED BY <1>2, <3>1, <3>2, <3>3, <3>4
  <2>3. OwnEntries(s, i)
    BY <2>1, <2>2 DEF OwnEntries
  <2>4. OwnTop(s, i)
    <3>1. asked[r].top \in Nat /\ asked[r].top <= k
      <4>1. \A j \in 1..n : asked[b.rows[j].request] \in Asks
        BY <1>1 DEF OwnEntries
      <4>2. \A j \in 1..n : asked[b.rows[j].request].top <= k
        BY <1>1, <1>6, <4>1, Widest
      <4>3. asked[r].top \in Nat
        BY <2>1, AskShape
      <4> QED BY <2>1, <4>2, <4>3
    <3>2. CASE asked[r].top > 0
      <4>1. k # 0
        BY <3>1, <3>2
      <4>2. s.top.rows[i] = [of |-> AllLogits(b)[i], real |-> k] /\ s.top # NoTop
        BY <1>7, <4>1 DEF NoTop
      <4> QED BY <2>1, <2>2, <3>1, <4>2 DEF OwnTop
    <3> QED BY <2>1, <3>2 DEF OwnTop
  <2>5. OwnDelta(s, i)
    BY <1>1, <1>2, <2>1 DEF OwnDelta
  <2> QED BY <2>3, <2>4, <2>5
<1>11. Fits(s, n)
  BY <1>8, <1>9, <1>10 DEF Fits
<1>12. \A i \in 1..n : /\ s.rows[i].request = b.rows[i].request
                      /\ s.rows[i].saved = b.rows[i].saved
                      /\ s.rows[i].emitted = b.rows[i].emitted + 1
  BY <1>2, <1>3
<1> QED BY <1>2, <1>11, <1>12

-----------------------------------------------------------------------------
(* Chunks saved.                                                           *)

\* A row that has just had a token: all but that one is counted.
OneBehind(row) ==
  /\ row.saved * ChunkSize <= PromptLength + row.emitted - 1
  /\ PromptLength + row.emitted - 1 < (row.saved + 1) * ChunkSize

\* The ends of the next two chunks.
LEMMA NextChunks ==
  ASSUME NEW q \in Nat, NEW c \in Nat
  PROVE  (q + 1) * c = q * c + c /\ (q + 2) * c = q * c + c + c /\ q * c \in Nat
OBVIOUS

\* A snapshot is due when the token completes the next chunk.
LEMMA RowSaved ==
  ASSUME NEW row \in RowType, row.tokens = Text(row.request, PromptLength + row.emitted),
         OneBehind(row)
  PROVE  /\ Saved(row) = [row EXCEPT !.saved = Saved(row).saved]
         /\ Saved(row) \in RowType /\ SavedTo(Saved(row))
         /\ SnapshotDue(row) => Len(row.tokens) \div ChunkSize = row.saved + 1
                                /\ (row.saved + 1) * ChunkSize <= Len(row.tokens)
                                /\ Len(row.tokens) < (row.saved + 2) * ChunkSize
<1>1. PICK m \in Nat : m = PromptLength + row.emitted
  BY DecodeAssumption DEF RowType
<1>2. PICK q \in Nat, c \in Nat \ {0} : q = row.saved /\ c = ChunkSize
  BY DecodeAssumption DEF RowType
<1>3. Len(row.tokens) = m
  <2>1. PICK r \in Requests : r = row.request
    BY DEF RowType
  <2>2. Len(Text(r, m)) = m
    BY TextShape
  <2> QED BY <1>1, <2>1, <2>2
<1>4. q * c <= m - 1 /\ m - 1 < (q + 1) * c
  <2>1. row.saved * ChunkSize = q * c /\ (row.saved + 1) * ChunkSize = (q + 1) * c
    BY <1>2
  <2>2. PromptLength + row.emitted - 1 = m - 1
    <3>1. PromptLength \in Nat /\ row.emitted \in Nat
      BY DecodeAssumption DEF RowType
    <3> QED BY <1>1, <3>1
  <2> QED BY <2>1, <2>2 DEF OneBehind
<1>5. PICK a \in Nat : a = q * c
  BY NextChunks
<1>6. (q + 1) * c = a + c /\ (q + 2) * c = a + c + c
  BY <1>5, NextChunks
<1>7. SnapshotDue(row) <=> m >= a + c
  BY <1>2, <1>3, <1>6 DEF SnapshotDue, NextChunkEnd
<1>8. CASE m >= a + c
  <2>1. (q + 1) * c <= m /\ m < (q + 1 + 1) * c
    <3>1. q + 1 + 1 = q + 2
      OBVIOUS
    <3>2. m < a + c + c /\ a + c <= m
      BY <1>4, <1>5, <1>6, <1>8
    <3> QED BY <1>6, <3>1, <3>2
  <2>2. m \div c = q + 1
    <3>1. q + 1 \in Nat
      OBVIOUS
    <3>2. \A p \in Nat : p * c <= m /\ m < (p + 1) * c => m \div c = p
      BY ChunkCount
    <3> QED BY <2>1, <3>1, <3>2
  <2>3. Saved(row) = [row EXCEPT !.saved = q + 1]
    BY <1>2, <1>3, <1>7, <1>8, <2>2 DEF Saved
  <2>4. Saved(row) \in RowType /\ Saved(row).saved = q + 1 /\ Saved(row).emitted = row.emitted
    BY <2>3 DEF RowType
  <2>5. SavedTo(Saved(row))
    BY <1>1, <1>2, <2>1, <2>4 DEF SavedTo
  <2>6. q + 1 + 1 = q + 2
    OBVIOUS
  <2> QED BY <1>2, <1>3, <2>1, <2>2, <2>3, <2>4, <2>5, <2>6
<1>9. CASE ~(m >= a + c)
  <2>1. Saved(row) = row
    BY <1>7, <1>9 DEF Saved
  <2>2. q * c <= m /\ m < (q + 1) * c
    BY <1>4, <1>5, <1>6, <1>9
  <2>3. SavedTo(row)
    BY <1>1, <1>2, <2>2 DEF SavedTo
  <2>4. row = [row EXCEPT !.saved = row.saved]
    BY DEF RowType
  <2> QED BY <1>7, <1>9, <2>1, <2>3, <2>4
<1> QED BY <1>8, <1>9

\* All rows of a batch saved.
AllSaved(s) == [s EXCEPT !.rows = [i \in DOMAIN s.rows |-> Saved(s.rows[i])]]

\* Counting saved chunks changes nothing else of a row.
LEMMA SavedFits ==
  ASSUME NEW n \in Nat, NEW s, Fits(s, n), \A i \in 1..n : OneBehind(s.rows[i])
  PROVE  Fits(AllSaved(s), n) /\ Chained(AllSaved(s), n)
<1>1. /\ s \in Batches(n) /\ DOMAIN s.rows = 1..n /\ s.rows \in [1..n -> RowType]
      /\ s.cache \in [1..n -> Seq(Token)] /\ s.scalar \in BOOLEAN /\ s.tokens \in [1..n -> Token]
      /\ s.logprobs \in [1..n -> Token]
      /\ s.top \in {NoTop} \cup [width : Nat \ {0}, rows : [1..n -> TopType]]
      /\ s.deltas \in {<<>>} \cup [1..n -> DeltaType]
  BY BatchLength DEF Fits, Batches, Tops, DeltaLists
<1>2. PICK rows : rows = [i \in 1..n |-> Saved(s.rows[i])]
  OBVIOUS
<1>3. AllSaved(s) = [rows |-> rows, cache |-> s.cache, scalar |-> s.scalar, tokens |-> s.tokens,
                     logprobs |-> s.logprobs, top |-> s.top, deltas |-> s.deltas]
  <2>1. s = [rows |-> s.rows, cache |-> s.cache, scalar |-> s.scalar, tokens |-> s.tokens,
             logprobs |-> s.logprobs, top |-> s.top, deltas |-> s.deltas]
    BY <1>1 DEF Batches, Tops, DeltaLists
  <2>2. AllSaved(s) = [s EXCEPT !.rows = rows]
    BY <1>1, <1>2 DEF AllSaved
  <2> QED BY <2>1, <2>2
<1>4. \A i \in 1..n : /\ rows[i] \in RowType /\ SavedTo(rows[i])
                      /\ rows[i].request = s.rows[i].request /\ rows[i].tokens = s.rows[i].tokens
                      /\ rows[i].emitted = s.rows[i].emitted /\ rows[i].buffer = s.rows[i].buffer
  <2> TAKE i \in 1..n
  <2>1. PICK row \in RowType : row = s.rows[i]
    BY <1>1
  <2>2. row.tokens = Text(row.request, PromptLength + row.emitted) /\ OneBehind(row)
    BY <2>1 DEF Fits, OwnEntries
  <2>3. /\ Saved(row) = [row EXCEPT !.saved = Saved(row).saved]
        /\ Saved(row) \in RowType /\ SavedTo(Saved(row))
    BY <2>2, RowSaved
  <2>4. /\ Saved(row).request = row.request /\ Saved(row).tokens = row.tokens
        /\ Saved(row).emitted = row.emitted /\ Saved(row).buffer = row.buffer
    BY <2>3 DEF RowType
  <2> QED BY <1>2, <2>1, <2>3, <2>4
<1>5. rows \in [1..n -> RowType]
  BY <1>2, <1>4
<1>6. AllSaved(s) \in Batches(n)
  BY <1>1, <1>3, <1>5 DEF Batches, Tops, DeltaLists
<1>7. WidestTop(rows) = WidestTop(s.rows)
  <2>1. PICK old \in [1..n -> RowType] : old = s.rows
    BY <1>1
  <2>2. \A i \in 1..n : rows[i].request = old[i].request
    BY <1>4, <2>1
  <2>3. WidestTop(rows) = WidestTop(old)
    BY <1>5, <2>2, SameWidest
  <2> QED BY <2>1, <2>3
<1>8. \A i \in 1..n : OwnEntries(AllSaved(s), i)
  BY <1>3, <1>4 DEF OwnEntries, Fits
<1>9. \A i \in 1..n : OwnTop(AllSaved(s), i) /\ OwnDelta(AllSaved(s), i)
  BY <1>3, <1>4 DEF OwnTop, OwnDelta, Fits
<1>10. Chained(AllSaved(s), n)
  BY <1>3, <1>4 DEF Chained
<1>11. (AllSaved(s).scalar <=> n = 1) /\ AllSaved(s).top.width = WidestTop(AllSaved(s).rows)
  BY <1>3, <1>7 DEF Fits
<1> QED BY <1>6, <1>8, <1>9, <1>10, <1>11 DEF Fits

-----------------------------------------------------------------------------
(* Candidates widened or cut.                                              *)

\* What widening or cutting the candidates does to a row: no more real ones than it had, and none past the width.
LEMMA Padded ==
  ASSUME NEW n \in Nat, NEW k \in Nat \ {0},
         NEW top \in Tops(n)
  PROVE  LET t == PadTop(top, n, k)
         IN  /\ t = [width |-> k, rows |-> t.rows] /\ t.rows \in [1..n -> TopType]
             /\ \A i \in 1..n : top # NoTop =>
                  /\ t.rows[i].of = top.rows[i].of
                  /\ t.rows[i].real = IF top.rows[i].real <= k THEN top.rows[i].real ELSE k
<1>1. CASE top = NoTop
  <2>1. PadTop(top, n, k) = [width |-> k, rows |-> [i \in 1..n |-> [of |-> Garbage, real |-> 0]]]
    BY <1>1 DEF PadTop
  <2>2. [of |-> Garbage, real |-> 0] \in TopType
    BY DEF TopType
  <2>3. [i \in 1..n |-> [of |-> Garbage, real |-> 0]] \in [1..n -> TopType]
    BY <2>2
  <2> QED BY <1>1, <2>1, <2>3
<1>2. CASE top # NoTop
  <2>1. PadTop(top, n, k)
          = [width |-> k, rows |-> [i \in 1..n |-> [top.rows[i] EXCEPT !.real = Min({@, k})]]]
    BY <1>2 DEF PadTop
  <2>2. \A i \in 1..n : top.rows[i] \in TopType
    BY <1>2 DEF Tops
  <2>3. \A i \in 1..n :
          /\ [top.rows[i] EXCEPT !.real = Min({@, k})] \in TopType
          /\ [top.rows[i] EXCEPT !.real = Min({@, k})].of = top.rows[i].of
          /\ [top.rows[i] EXCEPT !.real = Min({@, k})].real
               = IF top.rows[i].real <= k THEN top.rows[i].real ELSE k
    <3> TAKE i \in 1..n
    <3>1. PICK x \in Nat : x = top.rows[i].real
      BY <2>2 DEF TopType
    <3>2. PICK y : y = Min({x, k})
      OBVIOUS
    <3>3. y = IF x <= k THEN x ELSE k
      BY <3>2, MinOfTwo
    <3>4. [top.rows[i] EXCEPT !.real = Min({@, k})] = [of |-> top.rows[i].of, real |-> y]
      BY <2>2, <3>1, <3>2 DEF TopType
    <3>5. y \in Nat /\ top.rows[i].of \in Token \cup {Garbage}
      BY <2>2, <3>3 DEF TopType
    <3>6. [of |-> top.rows[i].of, real |-> y] \in TopType
      BY <3>5 DEF TopType
    <3> QED BY <3>1, <3>3, <3>4, <3>6
  <2>4. PICK f : f = [i \in 1..n |-> [top.rows[i] EXCEPT !.real = Min({@, k})]]
    OBVIOUS
  <2>5. f \in [1..n -> TopType]
    BY <2>3, <2>4
  <2>6. \A i \in 1..n : /\ f[i].of = top.rows[i].of
                        /\ f[i].real = IF top.rows[i].real <= k THEN top.rows[i].real ELSE k
    BY <2>3, <2>4
  <2>7. PadTop(top, n, k) = [width |-> k, rows |-> f]
    BY <2>1, <2>4
  <2> QED BY <2>5, <2>6, <2>7
<1> QED BY <1>1, <1>2

\* Place i has "want" candidates, of a token.
Enough(top, i, want, token) ==
  top # NoTop /\ top.rows[i].of = token /\ top.rows[i].real >= want

\* A row's candidates are still its own, and enough, in a batch as wide as its widest row.
LEMMA PaddedOwn ==
  ASSUME NEW n \in Nat, NEW k \in Nat \ {0}, NEW i \in 1..n, NEW want \in 1..k,
         NEW top \in Tops(n), NEW token, Enough(top, i, want, token)
  PROVE  Enough(PadTop(top, n, k), i, want, token)
<1>1. top.rows[i].real \in Nat
  BY DEF Tops, TopType, Enough
<1>2. /\ PadTop(top, n, k).rows[i].of = top.rows[i].of
      /\ PadTop(top, n, k).rows[i].real = IF top.rows[i].real <= k THEN top.rows[i].real ELSE k
      /\ PadTop(top, n, k).width = k
  BY Padded DEF Enough
<1>3. PadTop(top, n, k) # NoTop
  BY <1>2 DEF NoTop
<1>4. PadTop(top, n, k).rows[i].real >= want
  BY <1>1, <1>2 DEF Enough
<1> QED BY <1>2, <1>3, <1>4 DEF Enough

-----------------------------------------------------------------------------
(* A prompt's batch joins the others.                                      *)

\* The delta of place i.
DeltaAt(d, i) == IF d = <<>> THEN TextDelta ELSE d[i]

\* The deltas of n rows and of one more.
JoinedDeltas(joined, d, e, n) ==
  /\ joined \in DeltaLists(n + 1)
  /\ \A i \in 1..n : DeltaAt(joined, i) = DeltaAt(d, i)
  /\ DeltaAt(joined, n + 1) = DeltaAt(e, 1)

\* The deltas of both, where a row without one gets that of a text.
LEMMA DeltasJoined ==
  ASSUME NEW n \in Nat, NEW d \in DeltaLists(n), NEW e \in DeltaLists(1)
  PROVE  JoinedDeltas(ExtendDeltas(d, n, e, 1), d, e, n)
<1>0. PICK joined : joined = ExtendDeltas(d, n, e, 1)
  OBVIOUS
<1>1. CASE d = <<>> /\ e = <<>>
  <2>1. joined = <<>>
    BY <1>0, <1>1 DEF ExtendDeltas
  <2> QED BY <1>0, <1>1, <2>1 DEF JoinedDeltas, DeltaLists, DeltaAt
<1>2. CASE ~(d = <<>> /\ e = <<>>)
  <2>1. PICK f \in [1..n -> DeltaType] : f = IF d = <<>> THEN [i \in 1..n |-> TextDelta] ELSE d
    <3>1. [i \in 1..n |-> TextDelta] \in [1..n -> DeltaType]
      BY DEF DeltaType
    <3> QED BY <3>1 DEF DeltaLists
  <2>2. PICK g \in [1..1 -> DeltaType] : g = IF e = <<>> THEN [i \in 1..1 |-> TextDelta] ELSE e
    <3>1. [i \in 1..1 |-> TextDelta] \in [1..1 -> DeltaType]
      BY DEF DeltaType
    <3> QED BY <3>1 DEF DeltaLists
  <2>3. joined = f \o g
    BY <1>0, <1>2, <2>1, <2>2 DEF ExtendDeltas
  <2>4. /\ f \o g \in [1..(n+1) -> DeltaType]
        /\ (\A i \in 1..n : (f \o g)[i] = f[i]) /\ (f \o g)[n+1] = g[1]
    <3>1. /\ f \o g \in [1..(n+1) -> DeltaType]
          /\ \A i \in 1..(n+1) : (f \o g)[i] = IF i = n + 1 THEN g[1] ELSE f[i]
      <4>1. f \in Lists(DeltaType, n) /\ g \in Lists(DeltaType, 1)
        BY DEF Lists
      <4>2. /\ f \o g \in Lists(DeltaType, n + 1)
            /\ \A i \in 1..(n+1) : (f \o g)[i] = IF i = n + 1 THEN g[1] ELSE f[i]
        BY <4>1, ListJoined
      <4> QED BY <4>2 DEF Lists
    <3>2. n + 1 \in 1..(n+1) /\ \A i \in 1..n : i # n + 1 /\ i \in 1..(n+1)
      OBVIOUS
    <3> QED BY <3>1, <3>2
  <2>5. joined # <<>>
    <3>1. n + 1 \in 1..(n+1)
      OBVIOUS
    <3>2. DOMAIN joined = 1..(n+1) /\ DOMAIN <<>> = {}
      BY <2>3, <2>4
    <3> QED BY <3>1, <3>2
  <2>6. \A i \in 1..n : f[i] = IF d = <<>> THEN TextDelta ELSE d[i]
    BY <2>1
  <2>7. g[1] = IF e = <<>> THEN TextDelta ELSE e[1]
    <3>1. 1 \in 1..1
      OBVIOUS
    <3> QED BY <2>2, <3>1
  <2>8. joined \in DeltaLists(n + 1)
    BY <2>3, <2>4 DEF DeltaLists
  <2>9. \A i \in 1..n : DeltaAt(joined, i) = DeltaAt(d, i)
    BY <2>3, <2>4, <2>5, <2>6 DEF DeltaAt
  <2>10. DeltaAt(joined, n + 1) = DeltaAt(e, 1)
    BY <2>3, <2>4, <2>5, <2>7 DEF DeltaAt
  <2> QED BY <1>0, <2>8, <2>9, <2>10 DEF JoinedDeltas
<1> QED BY <1>1, <1>2

\* The lists of a batch, joined.
LEMMA RowsJoined ==
  ASSUME NEW n \in Nat, NEW f \in [1..n -> RowType], NEW g \in [1..1 -> RowType]
  PROVE  f \o g \in [1..(n+1) -> RowType] /\ (\A i \in 1..n : (f \o g)[i] = f[i]) /\ (f \o g)[n+1] = g[1]
<1>1. /\ f \o g \in [1..(n+1) -> RowType]
      /\ \A i \in 1..(n+1) : (f \o g)[i] = IF i = n + 1 THEN g[1] ELSE f[i]
  <2>1. f \in Lists(RowType, n) /\ g \in Lists(RowType, 1)
    BY DEF Lists
  <2>2. /\ f \o g \in Lists(RowType, n + 1)
        /\ \A i \in 1..(n+1) : (f \o g)[i] = IF i = n + 1 THEN g[1] ELSE f[i]
    BY <2>1, ListJoined
  <2> QED BY <2>2 DEF Lists
<1>2. n + 1 \in 1..(n+1) /\ \A i \in 1..n : i # n + 1 /\ i \in 1..(n+1)
  OBVIOUS
<1> QED BY <1>1, <1>2

\* The same for the prompt caches ...
LEMMA CachesJoined ==
  ASSUME NEW n \in Nat, NEW f \in [1..n -> Seq(Token)], NEW g \in [1..1 -> Seq(Token)]
  PROVE  f \o g \in [1..(n+1) -> Seq(Token)] /\ (\A i \in 1..n : (f \o g)[i] = f[i]) /\ (f \o g)[n+1] = g[1]
<1>1. /\ f \o g \in [1..(n+1) -> Seq(Token)]
      /\ \A i \in 1..(n+1) : (f \o g)[i] = IF i = n + 1 THEN g[1] ELSE f[i]
  <2>1. f \in Lists(Seq(Token), n) /\ g \in Lists(Seq(Token), 1)
    BY DEF Lists
  <2>2. /\ f \o g \in Lists(Seq(Token), n + 1)
        /\ \A i \in 1..(n+1) : (f \o g)[i] = IF i = n + 1 THEN g[1] ELSE f[i]
    BY <2>1, ListJoined
  <2> QED BY <2>2 DEF Lists
<1>2. n + 1 \in 1..(n+1) /\ \A i \in 1..n : i # n + 1 /\ i \in 1..(n+1)
  OBVIOUS
<1> QED BY <1>1, <1>2

\* ... for the next tokens and their log-probabilities ...
LEMMA TokensJoined ==
  ASSUME NEW n \in Nat, NEW f \in [1..n -> Token], NEW g \in [1..1 -> Token]
  PROVE  f \o g \in [1..(n+1) -> Token] /\ (\A i \in 1..n : (f \o g)[i] = f[i]) /\ (f \o g)[n+1] = g[1]
<1>1. /\ f \o g \in [1..(n+1) -> Token]
      /\ \A i \in 1..(n+1) : (f \o g)[i] = IF i = n + 1 THEN g[1] ELSE f[i]
  <2>1. f \in Lists(Token, n) /\ g \in Lists(Token, 1)
    BY DEF Lists
  <2>2. /\ f \o g \in Lists(Token, n + 1)
        /\ \A i \in 1..(n+1) : (f \o g)[i] = IF i = n + 1 THEN g[1] ELSE f[i]
    BY <2>1, ListJoined
  <2> QED BY <2>2 DEF Lists
<1>2. n + 1 \in 1..(n+1) /\ \A i \in 1..n : i # n + 1 /\ i \in 1..(n+1)
  OBVIOUS
<1> QED BY <1>1, <1>2

\* ... and for the candidates.
LEMMA TopsJoined ==
  ASSUME NEW n \in Nat, NEW f \in [1..n -> TopType], NEW g \in [1..1 -> TopType]
  PROVE  f \o g \in [1..(n+1) -> TopType] /\ (\A i \in 1..n : (f \o g)[i] = f[i]) /\ (f \o g)[n+1] = g[1]
<1>1. /\ f \o g \in [1..(n+1) -> TopType]
      /\ \A i \in 1..(n+1) : (f \o g)[i] = IF i = n + 1 THEN g[1] ELSE f[i]
  <2>1. f \in Lists(TopType, n) /\ g \in Lists(TopType, 1)
    BY DEF Lists
  <2>2. /\ f \o g \in Lists(TopType, n + 1)
        /\ \A i \in 1..(n+1) : (f \o g)[i] = IF i = n + 1 THEN g[1] ELSE f[i]
    BY <2>1, ListJoined
  <2> QED BY <2>2 DEF Lists
<1>2. n + 1 \in 1..(n+1) /\ \A i \in 1..n : i # n + 1 /\ i \in 1..(n+1)
  OBVIOUS
<1> QED BY <1>1, <1>2

\* The lists of a batch of n rows and those of a batch of one, joined.
Joined(a, b, p, n) ==
  LET k == WidestTop(a.rows)
  IN  /\ a = [rows |-> a.rows, cache |-> a.cache, scalar |-> FALSE, tokens |-> a.tokens,
              logprobs |-> a.logprobs, top |-> a.top, deltas |-> a.deltas]
      /\ a.rows \in [1..(n+1) -> RowType] /\ a.cache \in [1..(n+1) -> Seq(Token)]
      /\ a.tokens \in [1..(n+1) -> Token] /\ a.logprobs \in [1..(n+1) -> Token]
      /\ \A i \in 1..n : /\ a.rows[i] = b.rows[i] /\ a.cache[i] = b.cache[i]
                         /\ a.tokens[i] = b.tokens[i] /\ a.logprobs[i] = b.logprobs[i]
      /\ a.rows[n+1] = p.rows[1] /\ a.cache[n+1] = p.cache[1]
      /\ a.tokens[n+1] = p.tokens[1] /\ a.logprobs[n+1] = p.logprobs[1]
      /\ a.top = IF k = 0 THEN NoTop
                 ELSE [width |-> k, rows |-> PadTop(b.top, n, k).rows \o PadTop(p.top, 1, k).rows]
      /\ a.deltas = ExtendDeltas(b.deltas, n, p.deltas, 1)

\* append_prefilled_sequence on a batch with rows, list by list.
LEMMA Joins ==
  ASSUME NEW n \in Nat, n # 0, NEW b, NEW p, Fits(b, n), Fits(p, 1),
         NEW a, a = AppendPrefilled(b, p)
  PROVE  Joined(a, b, p, n)
<1>0. PICK k : k = WidestTop(a.rows)
  OBVIOUS
<1>1. /\ b \in Batches(n) /\ p \in Batches(1)
      /\ Len(b.rows) = n /\ Len(p.rows) = 1 /\ b.rows # <<>>
  BY BatchLength DEF Fits
<1>2. /\ b.rows \in [1..n -> RowType] /\ b.cache \in [1..n -> Seq(Token)]
      /\ b.tokens \in [1..n -> Token] /\ b.logprobs \in [1..n -> Token]
  BY <1>1 DEF Batches, Tops, DeltaLists
<1>3. /\ p.rows \in [1..1 -> RowType] /\ p.cache \in [1..1 -> Seq(Token)]
      /\ p.tokens \in [1..1 -> Token] /\ p.logprobs \in [1..1 -> Token]
  BY <1>1 DEF Batches, Tops, DeltaLists
<1>4. /\ a.rows = b.rows \o p.rows /\ a.cache = b.cache \o p.cache
      /\ a.tokens = b.tokens \o p.tokens /\ a.logprobs = b.logprobs \o p.logprobs
  BY <1>1 DEF AppendPrefilled
<1>5. a.rows \in [1..(n+1) -> RowType] /\ (\A i \in 1..n : a.rows[i] = b.rows[i]) /\ a.rows[n+1] = p.rows[1]
  <2>1. PICK f \in [1..n -> RowType], g \in [1..1 -> RowType] : f = b.rows /\ g = p.rows
    BY <1>2, <1>3
  <2>2. f \o g \in [1..(n+1) -> RowType] /\ (\A i \in 1..n : (f \o g)[i] = f[i]) /\ (f \o g)[n+1] = g[1]
    BY RowsJoined
  <2> QED BY <1>4, <2>1, <2>2
<1>6. /\ a.cache \in [1..(n+1) -> Seq(Token)] /\ (\A i \in 1..n : a.cache[i] = b.cache[i])
      /\ a.cache[n+1] = p.cache[1]
  <2>1. PICK f \in [1..n -> Seq(Token)], g \in [1..1 -> Seq(Token)] : f = b.cache /\ g = p.cache
    BY <1>2, <1>3
  <2>2. f \o g \in [1..(n+1) -> Seq(Token)] /\ (\A i \in 1..n : (f \o g)[i] = f[i]) /\ (f \o g)[n+1] = g[1]
    BY CachesJoined
  <2> QED BY <1>4, <2>1, <2>2
<1>7. /\ a.tokens \in [1..(n+1) -> Token] /\ (\A i \in 1..n : a.tokens[i] = b.tokens[i])
      /\ a.tokens[n+1] = p.tokens[1]
  <2>1. PICK f \in [1..n -> Token], g \in [1..1 -> Token] : f = b.tokens /\ g = p.tokens
    BY <1>2, <1>3
  <2>2. f \o g \in [1..(n+1) -> Token] /\ (\A i \in 1..n : (f \o g)[i] = f[i]) /\ (f \o g)[n+1] = g[1]
    BY TokensJoined
  <2> QED BY <1>4, <2>1, <2>2
<1>8. /\ a.logprobs \in [1..(n+1) -> Token] /\ (\A i \in 1..n : a.logprobs[i] = b.logprobs[i])
      /\ a.logprobs[n+1] = p.logprobs[1]
  <2>1. PICK f \in [1..n -> Token], g \in [1..1 -> Token] : f = b.logprobs /\ g = p.logprobs
    BY <1>2, <1>3
  <2>2. f \o g \in [1..(n+1) -> Token] /\ (\A i \in 1..n : (f \o g)[i] = f[i]) /\ (f \o g)[n+1] = g[1]
    BY TokensJoined
  <2> QED BY <1>4, <2>1, <2>2
<1>9. a.top = IF k = 0 THEN NoTop
              ELSE [width |-> k, rows |-> PadTop(b.top, n, k).rows \o PadTop(p.top, 1, k).rows]
  <2>1. k = WidestTop(b.rows \o p.rows)
    BY <1>0, <1>4
  <2> HIDE DEF WidestTop, PadTop
  <2>2. a.top = IF WidestTop(b.rows \o p.rows) = 0 THEN NoTop
                ELSE [width |-> WidestTop(b.rows \o p.rows),
                      rows |-> PadTop(b.top, Len(b.rows), WidestTop(b.rows \o p.rows)).rows
                               \o PadTop(p.top, Len(p.rows), WidestTop(b.rows \o p.rows)).rows]
    BY <1>1 DEF AppendPrefilled
  <2> QED BY <1>1, <2>1, <2>2
<1>10. a.deltas = ExtendDeltas(b.deltas, n, p.deltas, 1)
  BY <1>1 DEF AppendPrefilled
<1>11. a = [rows |-> a.rows, cache |-> a.cache, scalar |-> FALSE, tokens |-> a.tokens,
            logprobs |-> a.logprobs, top |-> a.top, deltas |-> a.deltas]
  BY <1>1 DEF AppendPrefilled
<1>12. \A i \in 1..n : /\ a.rows[i] = b.rows[i] /\ a.cache[i] = b.cache[i]
                       /\ a.tokens[i] = b.tokens[i] /\ a.logprobs[i] = b.logprobs[i]
  BY <1>5, <1>6, <1>7, <1>8
<1>13. /\ a.rows \in [1..(n+1) -> RowType] /\ a.cache \in [1..(n+1) -> Seq(Token)]
       /\ a.tokens \in [1..(n+1) -> Token] /\ a.logprobs \in [1..(n+1) -> Token]
       /\ a.rows[n+1] = p.rows[1] /\ a.cache[n+1] = p.cache[1]
       /\ a.tokens[n+1] = p.tokens[1] /\ a.logprobs[n+1] = p.logprobs[1]
  BY <1>5, <1>6, <1>7, <1>8
<1> HIDE DEF WidestTop, PadTop, ExtendDeltas
<1> QED BY <1>0, <1>9, <1>10, <1>11, <1>12, <1>13 DEF Joined

\* The candidates of n rows and of one more.
JoinedTops(t, top, new, n, k) ==
  /\ t \in [1..(n+1) -> TopType]
  /\ \A i \in 1..n : t[i] = PadTop(top, n, k).rows[i]
  /\ t[n+1] = PadTop(new, 1, k).rows[1]

\* They are joined when both are as wide as the widest row.
LEMMA TopJoined ==
  ASSUME NEW n \in Nat, NEW k \in Nat \ {0}, NEW top \in Tops(n), NEW new \in Tops(1)
  PROVE  JoinedTops(PadTop(top, n, k).rows \o PadTop(new, 1, k).rows, top, new, n, k)
<1>1. PICK f \in [1..n -> TopType] : f = PadTop(top, n, k).rows
  BY Padded
<1>2. PICK g \in [1..1 -> TopType] : g = PadTop(new, 1, k).rows
  BY Padded
<1>3. f \o g \in [1..(n+1) -> TopType] /\ (\A i \in 1..n : (f \o g)[i] = f[i]) /\ (f \o g)[n+1] = g[1]
  BY TopsJoined
<1> QED BY <1>1, <1>2, <1>3 DEF JoinedTops

-----------------------------------------------------------------------------
(* Rows join and leave.                                                    *)

\* A row's candidates in a batch that is at least as wide as it asks.
LEMMA TopKept ==
  ASSUME NEW n \in Nat, NEW i \in 1..n, NEW b, Fits(b, n), NEW k \in Nat \ {0},
         NEW want \in Nat, want = asked[b.rows[i].request].top, want > 0, want <= k
  PROVE  /\ PadTop(b.top, n, k).rows[i].of = b.tokens[i]
         /\ PadTop(b.top, n, k).rows[i].real >= want
<1>1. b.top \in Tops(n)
  BY DEF Fits, Batches
<1>2. Enough(b.top, i, want, b.tokens[i])
  BY DEF Fits, OwnTop, Enough
<1>3. want \in 1..k
  OBVIOUS
<1>4. Enough(PadTop(b.top, n, k), i, want, b.tokens[i])
  BY <1>1, <1>2, <1>3, PaddedOwn
<1> QED BY <1>4 DEF Enough

\* append_prefilled_sequence: the new row's entries stand at its place, those
\* of the others stay at theirs.
LEMMA AppendFits ==
  ASSUME NEW n \in Nat, NEW b, NEW p, Fits(b, n), Chained(b, n), Fits(p, 1), Chained(p, 1),
         NEW a, a = AppendPrefilled(b, p)
  PROVE  Fits(a, n + 1) /\ Chained(a, n + 1)
<1>1. CASE n = 0
  <2>1. b.rows = <<>>
    BY <1>1, BatchLength DEF Fits
  <2>2. a = p /\ n + 1 = 1
    BY <1>1, <2>1 DEF AppendPrefilled
  <2> QED BY <2>2
<1>2. CASE n # 0
  <2>0. PICK k : k = WidestTop(a.rows)
    OBVIOUS
  <2>21. Joined(a, b, p, n)
    BY <1>2, Joins
  <2>1. /\ a = [rows |-> a.rows, cache |-> a.cache, scalar |-> FALSE, tokens |-> a.tokens,
                logprobs |-> a.logprobs, top |-> a.top, deltas |-> a.deltas]
        /\ a.rows \in [1..(n+1) -> RowType] /\ a.cache \in [1..(n+1) -> Seq(Token)]
        /\ a.tokens \in [1..(n+1) -> Token] /\ a.logprobs \in [1..(n+1) -> Token]
        /\ \A i \in 1..n : /\ a.rows[i] = b.rows[i] /\ a.cache[i] = b.cache[i]
                           /\ a.tokens[i] = b.tokens[i] /\ a.logprobs[i] = b.logprobs[i]
        /\ a.rows[n+1] = p.rows[1] /\ a.cache[n+1] = p.cache[1]
        /\ a.tokens[n+1] = p.tokens[1] /\ a.logprobs[n+1] = p.logprobs[1]
        /\ a.top = IF k = 0 THEN NoTop
                   ELSE [width |-> k, rows |-> PadTop(b.top, n, k).rows \o PadTop(p.top, 1, k).rows]
        /\ a.deltas = ExtendDeltas(b.deltas, n, p.deltas, 1)
    BY <2>0, <2>21 DEF Joined
  <2>2. /\ n + 1 \in Nat /\ n + 1 # 1 /\ 1 \in 1..1 /\ n + 1 \in 1..(n+1)
        /\ \A i \in 1..(n+1) : i \in 1..n \/ i = n + 1
    BY <1>2
  <2>3. /\ \A i \in 1..n : OwnEntries(b, i) /\ OwnTop(b, i) /\ OwnDelta(b, i)
        /\ OwnEntries(p, 1) /\ OwnTop(p, 1) /\ OwnDelta(p, 1)
        /\ b \in Batches(n) /\ p \in Batches(1)
    BY <2>2 DEF Fits
  <2>4. PICK d \in DeltaLists(n) : d = b.deltas
    BY <2>3 DEF Batches
  <2>5. PICK e \in DeltaLists(1) : e = p.deltas
    BY <2>3 DEF Batches
  <2>6. PICK joined : joined = a.deltas /\ joined = ExtendDeltas(d, n, e, 1)
    BY <2>1, <2>4, <2>5
  <2>7. JoinedDeltas(joined, d, e, n)
    BY <2>6, DeltasJoined
  <2>8. \A i \in 1..n : OwnEntries(a, i)
    <3> TAKE i \in 1..n
    <3>1. OwnEntries(b, i)
      BY <2>3
    <3>2. /\ a.rows[i] = b.rows[i] /\ a.cache[i] = b.cache[i]
          /\ a.tokens[i] = b.tokens[i] /\ a.logprobs[i] = b.logprobs[i]
      BY <2>1
    <3> QED BY <3>1, <3>2 DEF OwnEntries
  <2>9. OwnEntries(a, n + 1)
    BY <2>1, <2>3 DEF OwnEntries
  <2>10. PICK m \in Nat : m = n + 1
    BY <2>2
  <2>11. \A i \in 1..m : asked[a.rows[i].request] \in Asks /\ asked[a.rows[i].request].top \in Nat
    <3>1. \A i \in 1..m : asked[a.rows[i].request] \in Asks
      BY <2>2, <2>8, <2>9, <2>10 DEF OwnEntries
    <3> QED BY <3>1, AskShape
  <2>12. k \in Nat /\ \A i \in 1..m : asked[a.rows[i].request].top <= k
    <3>1. PICK rows \in [1..m -> RowType] : rows = a.rows
      BY <2>1, <2>10
    <3>2. \A i \in 1..m : asked[rows[i].request] \in Asks
      BY <2>11, <3>1
    <3>3. WidestTop(rows) \in Nat /\ \A i \in 1..m : asked[rows[i].request].top <= WidestTop(rows)
      BY <3>2, Widest
    <3> QED BY <2>0, <3>1, <3>3
  <2>13. ASSUME k = 0
         PROVE  /\ a.top \in Tops(n + 1)
                /\ a.top.width = k /\ \A i \in 1..m : OwnTop(a, i)
    <3>1. a.top = NoTop /\ NoTop.width = 0
      BY <2>1, <2>13 DEF NoTop
    <3>2. \A i \in 1..m : ~(asked[a.rows[i].request].top > 0)
      BY <2>11, <2>12, <2>13
    <3>3. \A i \in 1..m : OwnTop(a, i)
      BY <3>2 DEF OwnTop
    <3> QED BY <2>13, <3>1, <3>3 DEF Tops
  <2>14. ASSUME k # 0
         PROVE  /\ a.top \in Tops(n + 1)
                /\ a.top.width = k /\ \A i \in 1..m : OwnTop(a, i)
    <3>0. k \in Nat \ {0}
      BY <2>12, <2>14
    <3>1. PICK t : t = PadTop(b.top, n, k).rows \o PadTop(p.top, 1, k).rows
      OBVIOUS
    <3>2. a.top = [width |-> k, rows |-> t] /\ a.top # NoTop /\ a.top.rows = t /\ a.top.width = k
      <4>1. a.top = [width |-> k, rows |-> t]
        BY <2>1, <2>14, <3>1
      <4>2. a.top.width = k /\ a.top.rows = t /\ NoTop.width = 0
        BY <4>1 DEF NoTop
      <4> QED BY <2>14, <4>1, <4>2
    <3>3. PICK old \in Tops(n) : old = b.top
      BY <2>3 DEF Batches
    <3>4. PICK new \in Tops(1) : new = p.top
      BY <2>3 DEF Batches
    <3>5. /\ t \in [1..(n+1) -> TopType]
          /\ \A i \in 1..n : t[i] = PadTop(old, n, k).rows[i]
          /\ t[n+1] = PadTop(new, 1, k).rows[1]
      <4>1. t = PadTop(old, n, k).rows \o PadTop(new, 1, k).rows
        BY <3>1, <3>3, <3>4
      <4>2. JoinedTops(t, old, new, n, k)
        BY <3>0, <4>1, TopJoined
      <4> QED BY <4>2 DEF JoinedTops
    <3>6. ASSUME NEW i \in 1..n
          PROVE  OwnTop(a, i)
      <4>1. PICK want \in Nat : want = asked[b.rows[i].request].top /\ want <= k
        <5>1. i \in 1..m /\ a.rows[i] = b.rows[i]
          BY <2>1, <2>10
        <5> QED BY <2>11, <2>12, <5>1
      <4>2. CASE want > 0
        <5>1. PadTop(b.top, n, k).rows[i].of = b.tokens[i] /\ PadTop(b.top, n, k).rows[i].real >= want
          BY <3>0, <4>1, <4>2, TopKept
        <5> QED BY <2>1, <3>2, <3>3, <3>5, <4>1, <5>1 DEF OwnTop
      <4>3. CASE ~(want > 0)
        BY <2>1, <4>1, <4>3 DEF OwnTop
      <4> QED BY <4>2, <4>3
    <3>7. OwnTop(a, n + 1)
      <4>1. PICK want \in Nat : want = asked[p.rows[1].request].top /\ want <= k
        <5>1. n + 1 \in 1..m /\ a.rows[n+1] = p.rows[1]
          BY <2>1, <2>2, <2>10
        <5> QED BY <2>11, <2>12, <5>1
      <4>2. CASE want > 0
        <5>1. PadTop(p.top, 1, k).rows[1].of = p.tokens[1] /\ PadTop(p.top, 1, k).rows[1].real >= want
          <6>1. 1 \in Nat /\ 1 \in 1..1
            OBVIOUS
          <6> QED BY <3>0, <4>1, <4>2, <6>1, TopKept
        <5> QED BY <2>1, <3>2, <3>4, <3>5, <4>1, <5>1 DEF OwnTop
      <4>3. CASE ~(want > 0)
        BY <2>1, <4>1, <4>3 DEF OwnTop
      <4> QED BY <4>2, <4>3
    <3>8. a.top \in Tops(n + 1)
      BY <3>0, <3>2, <3>5 DEF Tops
    <3>9. \A i \in 1..m : OwnTop(a, i)
      BY <2>2, <2>10, <3>6, <3>7
    <3> QED BY <3>2, <3>8, <3>9
  <2>15. \A i \in 1..n : OwnDelta(a, i)
    <3>1. \A i \in 1..n : Delta(b.rows[i].request) = DeltaAt(b.deltas, i)
      BY <2>3 DEF OwnDelta, DeltaAt
    <3>2. \A i \in 1..n : Delta(a.rows[i].request) = DeltaAt(a.deltas, i)
      BY <2>1, <2>4, <2>6, <2>7, <3>1 DEF JoinedDeltas
    <3> QED BY <3>2 DEF OwnDelta, DeltaAt
  <2>16. OwnDelta(a, n + 1)
    <3>1. Delta(p.rows[1].request) = DeltaAt(p.deltas, 1)
      BY <2>3 DEF OwnDelta, DeltaAt
    <3>2. Delta(a.rows[n+1].request) = DeltaAt(a.deltas, n + 1)
      BY <2>1, <2>5, <2>6, <2>7, <3>1 DEF JoinedDeltas
    <3> QED BY <3>2 DEF OwnDelta, DeltaAt
  <2>17. a \in Batches(n + 1)
    <3>1. /\ a.top \in Tops(n + 1)
          /\ a.deltas \in DeltaLists(n + 1)
      BY <2>6, <2>7, <2>13, <2>14 DEF JoinedDeltas
    <3>2. /\ a.scalar = FALSE /\ a.rows \in [1..(n+1) -> RowType] /\ a.cache \in [1..(n+1) -> Seq(Token)]
          /\ a.tokens \in [1..(n+1) -> Token] /\ a.logprobs \in [1..(n+1) -> Token]
      BY <2>1
    <3>3. a = [rows |-> a.rows, cache |-> a.cache, scalar |-> FALSE, tokens |-> a.tokens,
               logprobs |-> a.logprobs, top |-> a.top, deltas |-> a.deltas]
      BY <2>1
    <3> QED BY <3>1, <3>2, <3>3 DEF Batches
  <2>18. \A i \in 1..(n+1) : OwnEntries(a, i) /\ OwnTop(a, i) /\ OwnDelta(a, i)
    BY <2>2, <2>8, <2>9, <2>10, <2>13, <2>14, <2>15, <2>16
  <2>19. Chained(a, n + 1)
    <3>1. \A i \in 1..n : SavedTo(a.rows[i])
      BY <2>1 DEF Chained
    <3>2. SavedTo(a.rows[n+1])
      BY <2>1, <2>2 DEF Chained
    <3> QED BY <2>2, <3>1, <3>2 DEF Chained
  <2>20. (a.scalar <=> n + 1 = 1) /\ a.top.width = WidestTop(a.rows)
    <3>1. a.scalar = FALSE
      BY <2>1
    <3> QED BY <2>0, <2>2, <2>13, <2>14, <3>1
  <2> QED BY <2>17, <2>18, <2>19, <2>20 DEF Fits
<1> QED BY <1>1, <1>2

\* The candidates of the rows that stay.
KeptTop(top, keep) == [top EXCEPT !.rows = Kept(@, keep)]

\* A filter takes each row's candidates along.
LEMMA TopFiltered ==
  ASSUME NEW n \in Nat, NEW m \in Nat, NEW keep \in [1..m -> 1..n], NEW top \in Tops(n), top # NoTop
  PROVE  /\ KeptTop(top, keep) \in Tops(m) /\ KeptTop(top, keep) # NoTop
         /\ \A j \in 1..m : KeptTop(top, keep).rows[j] = top.rows[keep[j]]
<1>1. top \in [width : Nat \ {0}, rows : [1..n -> TopType]]
  BY DEF Tops
<1>2. PICK f \in [1..n -> TopType] : f = top.rows
  BY <1>1
<1>3. Kept(f, keep) \in [1..m -> TopType] /\ \A j \in 1..m : Kept(f, keep)[j] = f[keep[j]]
  BY DEF Kept
<1>4. KeptTop(top, keep) = [width |-> top.width, rows |-> Kept(f, keep)]
  BY <1>1, <1>2 DEF KeptTop
<1>5. KeptTop(top, keep) \in [width : Nat \ {0}, rows : [1..m -> TopType]]
  BY <1>1, <1>3, <1>4
<1>6. KeptTop(top, keep) # NoTop
  BY <1>1, <1>4 DEF NoTop
<1> QED BY <1>2, <1>3, <1>4, <1>5, <1>6 DEF Tops

\* The deltas of the rows that stay.
LEMMA DeltasFiltered ==
  ASSUME NEW n \in Nat, NEW m \in Nat \ {0}, NEW keep \in [1..m -> 1..n], NEW d \in DeltaLists(n),
         NEW new, new = IF d = <<>> THEN <<>> ELSE Kept(d, keep)
  PROVE  new \in DeltaLists(m) /\ \A j \in 1..m : DeltaAt(new, j) = DeltaAt(d, keep[j])
<1>1. CASE d = <<>>
  BY <1>1 DEF DeltaLists, DeltaAt
<1>2. CASE d # <<>>
  <2>1. d \in [1..n -> DeltaType]
    BY <1>2 DEF DeltaLists
  <2>2. new \in [1..m -> DeltaType] /\ \A j \in 1..m : new[j] = d[keep[j]]
    BY <1>2, <2>1 DEF Kept
  <2>3. new # <<>>
    <3>1. DOMAIN new = 1..m /\ DOMAIN <<>> = {} /\ 1 \in 1..m
      BY <2>2
    <3> QED BY <3>1
  <2> QED BY <1>2, <2>2, <2>3 DEF DeltaLists, DeltaAt
<1> QED BY <1>1, <1>2

\* filter: every list is cut alike, and the candidates to the widest row left.
LEMMA FilterFits ==
  ASSUME NEW n \in Nat, NEW b, Fits(b, n), Chained(b, n), NEW m \in Nat, NEW keep \in [1..m -> 1..n],
         NEW a, a = Filter(b, keep)
  PROVE  Fits(a, m) /\ Chained(a, m)
<1>1. Len(keep) = m /\ keep \in Seq(1..n) /\ (keep = <<>> <=> m = 0)
  <2>1. Len(keep) = m /\ keep \in Seq(1..n)
    BY ListShape
  <2> QED BY <2>1, EmptySeq
<1>2. CASE m = 0
  <2>1. a = EmptyBatch
    BY <1>1, <1>2 DEF Filter
  <2> QED BY <1>2, <2>1, EmptyFits
<1>3. CASE m # 0
  <2>0. PICK k : k = WidestTop(Kept(b.rows, keep))
    OBVIOUS
  <2>1. /\ b \in Batches(n)
        /\ \A i \in 1..n : OwnEntries(b, i) /\ OwnTop(b, i) /\ OwnDelta(b, i)
    BY DEF Fits
  <2>2. /\ b.rows \in [1..n -> RowType] /\ b.cache \in [1..n -> Seq(Token)]
        /\ b.tokens \in [1..n -> Token] /\ b.logprobs \in [1..n -> Token]
        /\ b.top \in Tops(n) /\ b.deltas \in DeltaLists(n)
    BY <2>1 DEF Batches
  <2>3. /\ a = [rows |-> a.rows, cache |-> a.cache, scalar |-> a.scalar, tokens |-> a.tokens,
                logprobs |-> a.logprobs, top |-> a.top, deltas |-> a.deltas]
        /\ a.rows = Kept(b.rows, keep) /\ a.cache = Kept(b.cache, keep)
        /\ a.scalar = (m = 1)
        /\ a.tokens = Kept(b.tokens, keep) /\ a.logprobs = Kept(b.logprobs, keep)
        /\ a.top = IF b.top = NoTop THEN NoTop ELSE PadTop(KeptTop(b.top, keep), m, k)
        /\ a.deltas = IF b.deltas = <<>> THEN <<>> ELSE Kept(b.deltas, keep)
    <3>1. a = [rows |-> Kept(b.rows, keep), cache |-> Kept(b.cache, keep), scalar |-> (m = 1),
               tokens |-> Kept(b.tokens, keep), logprobs |-> Kept(b.logprobs, keep),
               top |-> IF b.top = NoTop THEN NoTop ELSE PadTop(KeptTop(b.top, keep), m, k),
               deltas |-> IF b.deltas = <<>> THEN <<>> ELSE Kept(b.deltas, keep)]
      BY <1>1, <1>3, <2>0 DEF Filter, KeptTop
    <3> HIDE DEF Kept, KeptTop, PadTop, NoTop
    <3> QED BY <3>1
  <2>4. /\ a.rows \in [1..m -> RowType] /\ a.cache \in [1..m -> Seq(Token)]
        /\ a.tokens \in [1..m -> Token] /\ a.logprobs \in [1..m -> Token]
    BY <2>2, <2>3 DEF Kept
  <2>5. ASSUME NEW j \in 1..m
        PROVE  /\ keep[j] \in 1..n
               /\ a.rows[j] = b.rows[keep[j]] /\ a.cache[j] = b.cache[keep[j]]
               /\ a.tokens[j] = b.tokens[keep[j]] /\ a.logprobs[j] = b.logprobs[keep[j]]
    BY <2>2, <2>3 DEF Kept
  <2>6. a.deltas \in DeltaLists(m) /\ \A j \in 1..m : DeltaAt(a.deltas, j) = DeltaAt(b.deltas, keep[j])
    <3>1. PICK d \in DeltaLists(n) : d = b.deltas
      BY <2>2
    <3>2. PICK new : new = a.deltas /\ new = IF d = <<>> THEN <<>> ELSE Kept(d, keep)
      BY <2>3, <3>1
    <3>3. new \in DeltaLists(m) /\ \A j \in 1..m : DeltaAt(new, j) = DeltaAt(d, keep[j])
      BY <1>3, <3>2, DeltasFiltered
    <3> QED BY <3>1, <3>2, <3>3
  <2>7. \A j \in 1..m : OwnEntries(a, j)
    <3> TAKE j \in 1..m
    <3>1. PICK i \in 1..n : i = keep[j]
      BY <2>5
    <3>2. OwnEntries(b, i) /\ a.rows[j] = b.rows[i] /\ a.cache[j] = b.cache[i]
          /\ a.tokens[j] = b.tokens[i] /\ a.logprobs[j] = b.logprobs[i]
      BY <2>1, <2>5, <3>1
    <3> QED BY <3>2 DEF OwnEntries
  <2>8. \A j \in 1..m : OwnDelta(a, j)
    <3> TAKE j \in 1..m
    <3>1. PICK i \in 1..n : i = keep[j]
      BY <2>5
    <3>2. Delta(b.rows[i].request) = DeltaAt(b.deltas, i) /\ a.rows[j] = b.rows[i]
          /\ DeltaAt(a.deltas, j) = DeltaAt(b.deltas, i)
      BY <2>1, <2>5, <2>6, <3>1 DEF OwnDelta, DeltaAt
    <3> QED BY <3>2 DEF OwnDelta, DeltaAt
  <2>9. \A j \in 1..m : asked[a.rows[j].request] \in Asks /\ asked[a.rows[j].request].top \in Nat
    <3>1. \A j \in 1..m : asked[a.rows[j].request] \in Asks
      BY <2>7 DEF OwnEntries
    <3> QED BY <3>1, AskShape
  <2>10. k = WidestTop(a.rows) /\ k \in Nat /\ \A j \in 1..m : asked[a.rows[j].request].top <= k
    <3>1. PICK rows \in [1..m -> RowType] : rows = a.rows
      BY <2>4
    <3>2. \A j \in 1..m : asked[rows[j].request] \in Asks
      BY <2>9, <3>1
    <3>3. WidestTop(rows) \in Nat /\ \A j \in 1..m : asked[rows[j].request].top <= WidestTop(rows)
      BY <3>2, Widest
    <3> QED BY <2>0, <2>3, <3>1, <3>3
  <2>11. ASSUME b.top = NoTop
         PROVE  a.top \in Tops(m) /\ a.top.width = k /\ \A j \in 1..m : OwnTop(a, j)
    <3>1. a.top = NoTop /\ NoTop.width = 0
      BY <2>3, <2>11 DEF NoTop
    <3>2. \A j \in 1..m : ~(asked[a.rows[j].request].top > 0)
      <4> TAKE j \in 1..m
      <4>1. PICK i \in 1..n : i = keep[j]
        BY <2>5
      <4>2. OwnTop(b, i) /\ a.rows[j] = b.rows[i]
        BY <2>1, <2>5, <4>1
      <4> QED BY <2>11, <4>2 DEF OwnTop
    <3>3. \A j \in 1..m : OwnTop(a, j)
      BY <3>2 DEF OwnTop
    <3>4. k = 0
      <4>1. PICK rows \in [1..m -> RowType] : rows = a.rows
        BY <2>4
      <4>2. \A j \in 1..m : asked[rows[j].request].top = 0
        BY <2>9, <3>2, <4>1
      <4>3. {0} \cup {asked[row.request].top : row \in ToSet(rows)} = {0}
        <5>1. \A row \in ToSet(rows) : \E j \in 1..m : row = rows[j]
          BY DEF ToSet
        <5> QED BY <4>2, <5>1
      <4>4. Max({0}) = 0
        BY DEF Max
      <4>5. WidestTop(rows) = 0
        BY <4>3, <4>4 DEF WidestTop
      <4> QED BY <2>10, <4>1, <4>5
    <3> QED BY <3>1, <3>3, <3>4 DEF Tops
  <2>12. ASSUME b.top # NoTop, k = 0
         PROVE  a.top \in Tops(m) /\ a.top.width = k /\ \A j \in 1..m : OwnTop(a, j)
    <3>1. a.top = NoTop /\ NoTop.width = 0
      BY <2>3, <2>12 DEF NoTop, PadTop
    <3>2. \A j \in 1..m : ~(asked[a.rows[j].request].top > 0)
      BY <2>9, <2>10, <2>12
    <3>3. \A j \in 1..m : OwnTop(a, j)
      BY <3>2 DEF OwnTop
    <3> QED BY <2>12, <3>1, <3>3 DEF Tops
  <2>13. ASSUME b.top # NoTop, k # 0
         PROVE  a.top \in Tops(m) /\ a.top.width = k /\ \A j \in 1..m : OwnTop(a, j)
    <3>0. k \in Nat \ {0}
      BY <2>10, <2>13
    <3>1. PICK top \in Tops(m) : top = KeptTop(b.top, keep) /\ top # NoTop
                                 /\ \A j \in 1..m : top.rows[j] = b.top.rows[keep[j]]
      <4>1. PICK old \in Tops(n) : old = b.top
        BY <2>2
      <4>2. /\ KeptTop(old, keep) \in Tops(m) /\ KeptTop(old, keep) # NoTop
            /\ \A j \in 1..m : KeptTop(old, keep).rows[j] = old.rows[keep[j]]
        BY <2>13, <4>1, TopFiltered
      <4> QED BY <4>1, <4>2
    <3>2. a.top = PadTop(top, m, k)
      BY <2>3, <2>13, <3>1
    <3>3. PICK t : t = PadTop(top, m, k)
      OBVIOUS
    <3>4. t = [width |-> k, rows |-> t.rows] /\ t.rows \in [1..m -> TopType]
      BY <3>0, <3>3, Padded
    <3>5. t \in Tops(m) /\ t.width = k
      <4>1. t.width = k
        BY <3>4
      <4> QED BY <3>0, <3>4, <4>1 DEF Tops
    <3>6. ASSUME NEW j \in 1..m
          PROVE  OwnTop(a, j)
      <4>1. PICK i \in 1..n : i = keep[j]
        BY <2>5
      <4>2. OwnTop(b, i) /\ a.rows[j] = b.rows[i] /\ a.tokens[j] = b.tokens[i]
            /\ top.rows[j] = b.top.rows[i]
        BY <2>1, <2>5, <3>1, <4>1
      <4>3. PICK want \in Nat : want = asked[a.rows[j].request].top /\ want <= k
        BY <2>9, <2>10
      <4>4. CASE want > 0
        <5>1. want \in 1..k
          BY <3>0, <4>3, <4>4
        <5>2. Enough(top, j, want, a.tokens[j])
          BY <3>1, <4>2, <4>3, <4>4 DEF OwnTop, Enough
        <5>3. Enough(PadTop(top, m, k), j, want, a.tokens[j])
          BY <3>0, <5>1, <5>2, PaddedOwn
        <5> QED BY <3>2, <4>3, <5>3 DEF OwnTop, Enough
      <4>5. CASE ~(want > 0)
        BY <4>3, <4>5 DEF OwnTop
      <4> QED BY <4>4, <4>5
    <3> QED BY <3>2, <3>3, <3>5, <3>6
  <2>14. a.top \in Tops(m) /\ a.top.width = k /\ \A j \in 1..m : OwnTop(a, j)
    BY <2>11, <2>12, <2>13
  <2>15. a \in Batches(m)
    <3>1. a.scalar \in BOOLEAN
      BY <2>3
    <3>2. a = [rows |-> a.rows, cache |-> a.cache, scalar |-> a.scalar, tokens |-> a.tokens,
               logprobs |-> a.logprobs, top |-> a.top, deltas |-> a.deltas]
      BY <2>3
    <3> QED BY <2>4, <2>6, <2>14, <3>1, <3>2 DEF Batches
  <2>16. Chained(a, m)
    BY <2>5 DEF Chained
  <2>17. (a.scalar <=> m = 1) /\ a.top.width = WidestTop(a.rows)
    BY <2>3, <2>10, <2>14
  <2> QED BY <2>7, <2>8, <2>14, <2>15, <2>16, <2>17 DEF Fits
<1> QED BY <1>2, <1>3

-----------------------------------------------------------------------------
(* What a call of next() returns and passes on.                            *)

\* Row i is of request r, whose text is m tokens long so far.
RowAt(b, i, r, m) ==
  /\ r = b.rows[i].request /\ m = PromptLength + b.rows[i].emitted
  /\ asked[r] \in Asks /\ b.rows[i] \in RowType
  /\ b.rows[i].tokens = Text(r, m) /\ b.cache[i] = Text(r, m)
  /\ b.rows[i].buffer = IF "penalty" \in asked[r].processors THEN Text(r, m) ELSE <<>>
  /\ b.tokens[i] = <<r, m + 1>> /\ b.logprobs[i] = <<r, m + 1>>

\* Every row of a batch has such a request.
LEMMA RowNumbers ==
  ASSUME NEW n \in Nat, NEW b, Fits(b, n), NEW i \in 1..n
  PROVE  \E r \in Requests, m \in Nat : RowAt(b, i, r, m)
<1>1. b.rows[i] \in RowType /\ OwnEntries(b, i)
  BY DEF Fits, Batches
<1>2. b.rows[i].request \in Requests /\ PromptLength + b.rows[i].emitted \in Nat
  BY <1>1, DecodeAssumption DEF RowType
<1>3. PICK r \in Requests : r = b.rows[i].request
  BY <1>2
<1>4. PICK m \in Nat : m = PromptLength + b.rows[i].emitted
  BY <1>2
<1>5. /\ asked[r] \in Asks
      /\ b.rows[i].tokens = Text(r, m) /\ b.cache[i] = Text(r, m)
      /\ b.rows[i].buffer = IF "penalty" \in asked[r].processors THEN Text(r, m) ELSE <<>>
      /\ b.tokens[i] = <<r, m + 1>> /\ b.logprobs[i] = <<r, m + 1>>
  BY <1>1, <1>3, <1>4 DEF OwnEntries
<1> QED BY <1>1, <1>3, <1>4, <1>5 DEF RowAt

\* The candidates that come with a token are its own, as many as were asked for.
LEMMA OwnCandidates ==
  ASSUME NEW n \in Nat, NEW b, Fits(b, n), NEW i \in 1..n, NEW s, s.rows[i].request = b.rows[i].request
  PROVE  Candidates(b, s, i) = IF asked[b.rows[i].request].top = 0 THEN Missing
                               ELSE [of |-> b.tokens[i], real |-> asked[b.rows[i].request].top]
<1>1. PICK want \in Nat : want = asked[b.rows[i].request].top
  <2>1. asked[b.rows[i].request] \in Asks
    BY DEF Fits, OwnEntries
  <2> QED BY <2>1, AskShape
<1>2. CASE want = 0
  BY <1>1, <1>2 DEF Candidates
<1>3. CASE want # 0
  <2>1. OwnTop(b, i) /\ b.top \in Tops(n)
    BY DEF Fits, Batches
  <2>2. /\ b.top # NoTop /\ b.top.rows[i].of = b.tokens[i] /\ b.top.rows[i].real >= want
        /\ b.top.rows[i] \in TopType
    <3>1. want > 0
      BY <1>3
    <3>2. b.top # NoTop /\ b.top.rows[i].of = b.tokens[i] /\ b.top.rows[i].real >= want
      BY <1>1, <2>1, <3>1 DEF OwnTop
    <3> QED BY <2>1, <3>2 DEF Tops
  <2>3. PICK real \in Nat : real = b.top.rows[i].real
    BY <2>2 DEF TopType
  <2>4. Min({real, want}) = want
    <3>1. Min({real, want}) = IF real <= want THEN real ELSE want
      BY MinOfTwo
    <3> QED BY <2>2, <2>3, <3>1
  <2>5. Candidates(b, s, i) = [b.top.rows[i] EXCEPT !.real = Min({@, want})]
    BY <1>1, <1>3, <2>2 DEF Candidates
  <2>6. [b.top.rows[i] EXCEPT !.real = Min({@, want})] = [of |-> b.tokens[i], real |-> want]
    BY <2>2, <2>3, <2>4 DEF TopType
  <2> QED BY <1>1, <1>3, <2>5, <2>6
<1> QED BY <1>2, <1>3

\* A response is its request's own.
ResponseIsOwn(res) ==
  LET r == res.request
  IN  /\ res.token[1] = r /\ res.logprob = res.token
      /\ res.top = IF asked[r].top = 0 THEN Missing
                   ELSE [of |-> res.token, real |-> asked[r].top]
      /\ res.finish # "no" => /\ res.tokens = Text(r, res.token[2])
                              /\ res.cache = res.tokens
                              /\ res.deltas \in {<<>>, <<Delta(r)>>}
                              /\ asked[r].prompt = "image" => res.deltas # <<>>

\* Every response of a decode call is, those with the hot cache too.
LEMMA OwnResponse ==
  ASSUME NEW n \in Nat, NEW b, Fits(b, n), NEW i \in 1..n, NEW stopped
  PROVE  ResponseIsOwn(Response(b, Step(b), i, stopped))
<1>1. PICK s : s = Step(b)
  OBVIOUS
<1>2. /\ Fits(s, n) /\ s.rows[i].request = b.rows[i].request
      /\ s.rows[i].emitted = b.rows[i].emitted + 1 /\ s.deltas = b.deltas
  BY <1>1, StepFits
<1>0. PICK r \in Requests, m \in Nat : RowAt(b, i, r, m)
  BY RowNumbers
<1>3. /\ r = b.rows[i].request /\ m = PromptLength + b.rows[i].emitted
      /\ asked[r] \in Asks /\ b.rows[i] \in RowType
      /\ b.tokens[i] = <<r, m + 1>> /\ b.logprobs[i] = <<r, m + 1>>
  BY <1>0 DEF RowAt
<1>4. s.rows[i].tokens = Text(r, m + 1) /\ s.cache[i] = Text(r, m + 1)
  <2>1. OwnEntries(s, i) /\ s.rows[i] \in RowType
    BY <1>2 DEF Fits, Batches
  <2>2. PromptLength + s.rows[i].emitted = m + 1
    <3>1. PromptLength \in Nat /\ b.rows[i].emitted \in Nat
      BY <1>3, DecodeAssumption DEF RowType
    <3> QED BY <1>2, <1>3, <3>1
  <2> QED BY <1>2, <1>3, <2>1, <2>2 DEF OwnEntries
<1>5. Candidates(b, s, i) = IF asked[r].top = 0 THEN Missing
                            ELSE [of |-> b.tokens[i], real |-> asked[r].top]
  BY <1>2, <1>3, OwnCandidates
<1>6. PICK res : res = Response(b, s, i, stopped)
  OBVIOUS
<1>7. /\ res.request = r /\ res.token = <<r, m + 1>> /\ res.logprob = <<r, m + 1>>
      /\ res.top = Candidates(b, s, i)
  BY <1>2, <1>3, <1>6 DEF Response
<1>8. ASSUME res.finish # "no"
      PROVE  /\ res.tokens = Text(r, m + 1) /\ res.cache = Text(r, m + 1)
             /\ res.deltas = ExtractDeltas(s, i)
  <2>1. Ends(s.rows[i], stopped)
    BY <1>6, <1>8 DEF Response, Ends
  <2> QED BY <1>4, <1>6, <2>1 DEF Response
<1>9. /\ ExtractDeltas(s, i) \in {<<>>, <<Delta(r)>>}
      /\ asked[r].prompt = "image" => ExtractDeltas(s, i) # <<>>
  <2>1. OwnDelta(s, i) /\ s.rows[i].request = r
    BY <1>2, <1>3 DEF Fits
  <2>2. CASE s.deltas = <<>>
    <3>1. Delta(r) = TextDelta
      BY <2>1, <2>2 DEF OwnDelta
    <3>2. asked[r].prompt # "image"
      BY <3>1, DecodeAssumption DEF Delta
    <3> QED BY <2>2, <3>2 DEF ExtractDeltas
  <2>3. CASE s.deltas # <<>>
    <3>1. ExtractDeltas(s, i) = <<Delta(r)>>
      BY <2>1, <2>3 DEF OwnDelta, ExtractDeltas
    <3> QED BY <3>1
  <2> QED BY <2>2, <2>3
<1>10. res.token[1] = r /\ res.token[2] = m + 1
  BY <1>7
<1>11. ResponseIsOwn(res)
  BY <1>3, <1>5, <1>7, <1>8, <1>9, <1>10 DEF ResponseIsOwn
<1> QED BY <1>1, <1>6, <1>11

\* A row that has had a token is one behind.
LEMMA StepLeavesOneBehind ==
  ASSUME NEW n \in Nat, NEW b, Fits(b, n), Chained(b, n), NEW i \in 1..n
  PROVE  OneBehind(Step(b).rows[i])
<1>1. PICK s : s = Step(b)
  OBVIOUS
<1>2. s.rows[i].saved = b.rows[i].saved /\ s.rows[i].emitted = b.rows[i].emitted + 1
  BY <1>1, StepFits
<1>3. b.rows[i] \in RowType /\ SavedTo(b.rows[i])
  BY DEF Fits, Chained, Batches
<1>4. PromptLength + (b.rows[i].emitted + 1) - 1 = PromptLength + b.rows[i].emitted
  BY <1>3, DecodeAssumption DEF RowType
<1> QED BY <1>1, <1>2, <1>3, <1>4 DEF OneBehind, SavedTo

\* A snapshot is of its own text and continues the chain.
SnapshotChains(s) ==
  /\ s.cache = Text(s.request, s.length)
  /\ s.to * ChunkSize <= s.length /\ s.length < (s.to + 1) * ChunkSize
  /\ s.to = s.from + 1

\* Every snapshot starts at the first chunk not given before.
LEMMA ChainedSnapshots ==
  ASSUME NEW n \in Nat, NEW b, Fits(b, n), Chained(b, n)
  PROVE  \A snapshot \in Snapshots(Step(b)) : SnapshotChains(snapshot)
<1>1. PICK s : s = Step(b) /\ Fits(s, n)
  BY StepFits
<1>2. DOMAIN s.rows = 1..n /\ \A i \in 1..n : s.rows[i] \in RowType /\ OwnEntries(s, i) /\ OneBehind(s.rows[i])
  BY <1>1, StepLeavesOneBehind DEF Fits, Batches
<1> SUFFICES ASSUME NEW snapshot \in Snapshots(s) PROVE SnapshotChains(snapshot)
  BY <1>1
<1>3. PICK i \in 1..n :
        /\ SnapshotDue(s.rows[i])
        /\ snapshot = [request |-> s.rows[i].request, cache |-> s.cache[i], from |-> s.rows[i].saved,
                       to |-> Len(s.rows[i].tokens) \div ChunkSize, length |-> Len(s.rows[i].tokens)]
  BY <1>2 DEF Snapshots
<1>4. PICK row \in RowType : row = s.rows[i]
  BY <1>2
<1>5. row.tokens = Text(row.request, PromptLength + row.emitted) /\ OneBehind(row)
      /\ s.cache[i] = row.tokens
  BY <1>2, <1>4 DEF OwnEntries
<1>6. /\ Len(row.tokens) \div ChunkSize = row.saved + 1
      /\ (row.saved + 1) * ChunkSize <= Len(row.tokens)
      /\ Len(row.tokens) < (row.saved + 2) * ChunkSize
  BY <1>3, <1>4, <1>5, RowSaved
<1>7. Len(row.tokens) = PromptLength + row.emitted
  <2>1. PICK r \in Requests, m \in Nat : r = row.request /\ m = PromptLength + row.emitted
    BY DecodeAssumption DEF RowType
  <2>2. Len(Text(r, m)) = m
    BY TextShape
  <2> QED BY <1>5, <2>1, <2>2
<1>8. snapshot.cache = Text(snapshot.request, snapshot.length)
  BY <1>3, <1>4, <1>5, <1>7
<1>9. row.saved + 1 + 1 = row.saved + 2
  BY DEF RowType
<1> QED BY <1>3, <1>4, <1>6, <1>8, <1>9 DEF SnapshotChains

\* What a row's processors see is its text up to the token sampled.
HearsAll(h) ==
  \A view \in h.views : view = Text(h.request, Len(view)) /\ h.sampled = <<h.request, Len(view) + 1>>

\* Whichever of the three ways a processor is fed.
LEMMA AllHeard ==
  ASSUME NEW n \in Nat, NEW b, Fits(b, n), NEW i \in 1..n
  PROVE  HearsAll([request |-> b.rows[i].request, views |-> Heard(b.rows[i], b.tokens[i]),
                   sampled |-> Step(b).tokens[i]])
<1>0. PICK r \in Requests, m \in Nat : RowAt(b, i, r, m)
  BY RowNumbers
<1>1. /\ r = b.rows[i].request /\ m = PromptLength + b.rows[i].emitted
      /\ asked[r] \in Asks /\ b.rows[i] \in RowType
      /\ b.rows[i].tokens = Text(r, m) /\ b.cache[i] = Text(r, m)
      /\ b.rows[i].buffer = IF "penalty" \in asked[r].processors THEN Text(r, m) ELSE <<>>
      /\ b.tokens[i] = <<r, m + 1>> /\ b.logprobs[i] = <<r, m + 1>>
  BY <1>0 DEF RowAt
<1>2. PICK s : s = Step(b) /\ Fits(s, n) /\ s.rows[i].request = b.rows[i].request
               /\ s.rows[i].emitted = b.rows[i].emitted + 1
  BY StepFits
<1>3. s.tokens[i] = <<r, m + 1 + 1>>
  <2>1. OwnEntries(s, i)
    BY <1>2 DEF Fits
  <2>2. PromptLength + s.rows[i].emitted = m + 1
    <3>1. PromptLength \in Nat /\ b.rows[i].emitted \in Nat
      BY <1>1, DecodeAssumption DEF RowType
    <3> QED BY <1>2, <1>1, <3>1
  <2> QED BY <1>2, <1>1, <2>1, <2>2 DEF OwnEntries
<1>4. Append(Text(r, m), <<r, m + 1>>) = Text(r, m + 1)
  BY TextShape
<1>5. Len(Text(r, m + 1)) = m + 1
  <2>1. \A q \in Nat : Len(Text(r, q)) = q
    BY TextShape
  <2> QED BY <2>1
<1>6. \A view \in Heard(b.rows[i], b.tokens[i]) : view = Text(r, m + 1)
  BY <1>1, <1>4 DEF Heard, Processors
<1>7. \A view \in Heard(b.rows[i], b.tokens[i]) :
        view = Text(r, Len(view)) /\ s.tokens[i] = <<r, Len(view) + 1>>
  BY <1>3, <1>5, <1>6
<1> QED BY <1>2, <1>1, <1>7 DEF HearsAll

\* A decode call gives each row its own delta.
LEMMA OwnDeltasGiven ==
  ASSUME NEW n \in Nat, NEW b, Fits(b, n), NEW i \in 1..n
  PROVE  Delta(b.rows[i].request) = IF b.deltas = <<>> THEN TextDelta ELSE b.deltas[i]
BY DEF Fits, OwnDelta

-----------------------------------------------------------------------------
(* The inductive invariant and the steps.                                  *)

\* The requests that have asked.
AskedFor == {r \in Requests : asked[r] \in Asks}

\* The deltas that may be held: those of images that were asked about, and 0.
HeldDeltas == {TextDelta} \cup {q \in AskedFor : asked[q].prompt = "image"}

\* RoPE state of the language model.
SideFits(s) ==
  /\ s = [positions |-> s.positions, deltas |-> s.deltas]
  /\ s.positions \in Requests \cup {NoRequest}
  /\ s.deltas \in Seq(HeldDeltas)
  /\ s.positions # NoRequest => s.deltas # <<>>

\* A batch that gives no deltas finds at most those of one prompt.
OneHeld(b, s) == b.rows # <<>> /\ b.deltas = <<>> => Len(s.deltas) <= 1

\* The batch has some number of rows, and fits.
BatchFits == \E n \in 0..BatchSize : Fits(batch, n) /\ Chained(batch, n)

\* The last call of next().
TickRight ==
  /\ \A i \in DOMAIN tick.responses : ResponseIsOwn(tick.responses[i])
  /\ \A s \in tick.snapshots : SnapshotChains(s)
  /\ \A h \in tick.heard : HearsAll(h)
  /\ DeltasAreOwn

\* What every step keeps.
DecodeInv ==
  /\ asked \in [Requests -> Asks \cup {NotAsked}]
  /\ pending \in Seq(AskedFor)
  /\ prefill = NoPrefill \/ prefill \in [request : AskedFor, steps : 0..1]
  /\ BatchFits
  /\ SideFits(side)
  /\ OneHeld(batch, side)
  /\ TickRight

\* A list without the element at a place.
LEMMA RemoveAtType ==
  ASSUME NEW S, NEW s \in Seq(S), NEW i \in DOMAIN s
  PROVE  RemoveAt(s, i) \in Seq(S)
<1>1. i \in 1..Len(s)
  BY LenProperties
<1>2. SubSeq(s, 1, i-1) \in Seq(S)
  <2>1. \A j \in 1..(i-1) : s[j] \in S
    BY <1>1, ElementOfSeq
  <2> QED BY <1>1, <2>1, SubSeqProperties
<1>3. SubSeq(s, i+1, Len(s)) \in Seq(S)
  <2>1. \A j \in (i+1)..Len(s) : s[j] \in S
    BY <1>1, ElementOfSeq
  <2> QED BY <1>1, <2>1, SubSeqProperties
<1> QED BY <1>2, <1>3, ConcatProperties DEF RemoveAt

\* Fits speaks of what the requests of the rows asked for alone.
LEMMA AskedAlike ==
  ASSUME NEW n \in Nat, Fits(batch', n),
         \A i \in 1..n : asked'[batch'.rows[i].request] = asked[batch'.rows[i].request]
  PROVE  Fits(batch, n)'
<1>1. /\ batch' \in Batches(n) /\ (batch'.scalar <=> n = 1)
      /\ batch'.top.width = WidestTop(batch'.rows)
      /\ \A i \in 1..n : OwnEntries(batch', i) /\ OwnTop(batch', i) /\ OwnDelta(batch', i)
  BY DEF Fits
<1>2. (batch \in Batches(n))'
  BY <1>1 DEF Batches, Tops, DeltaLists, RowType, TopType, DeltaType, Token, Garbage, NoTop
<1>3. \A i \in 1..n : OwnEntries(batch, i)'
  BY <1>1 DEF OwnEntries
<1>4. \A i \in 1..n : OwnTop(batch, i)'
  BY <1>1 DEF OwnTop
<1>5. \A i \in 1..n : OwnDelta(batch, i)'
  BY <1>1 DEF OwnDelta, Delta
<1>6. (batch.top.width = WidestTop(batch.rows))'
  <2>1. batch'.rows \in [1..n -> RowType]
    BY <1>1 DEF Batches
  <2>2. ToSet(batch'.rows) = {batch'.rows[i] : i \in 1..n}
    BY <2>1 DEF ToSet
  <2>3. {asked[row.request].top : row \in ToSet(batch'.rows)}
          = {asked'[row.request].top : row \in ToSet(batch'.rows)}
    BY <2>2
  <2> QED BY <1>1, <2>3 DEF WidestTop
<1> QED BY <1>1, <1>2, <1>3, <1>4, <1>5, <1>6 DEF Fits

\* What is saved does not depend on what was asked.
LEMMA ChainedStays ==
  ASSUME NEW n \in Nat, Chained(batch', n)
  PROVE  Chained(batch, n)'
BY DEF Chained, SavedTo

\* An empty batch at first.
LEMMA InitHolds ==
  Init => DecodeInv
<1> SUFFICES ASSUME Init PROVE DecodeInv
  OBVIOUS
<1> USE DEF Init
<1>1. BatchFits
  <2>1. 0 \in 0..BatchSize
    BY DecodeAssumption
  <2> QED BY <2>1, EmptyFits DEF BatchFits
<1>2. SideFits(side)
  BY DEF SideFits, ClearSide
<1>3. TickRight /\ OneHeld(batch, side)
  BY DEF OneHeld, EmptyBatch, TickRight, NoTick, DeltasAreOwn
<1>4. asked \in [Requests -> Asks \cup {NotAsked}] /\ pending \in Seq(AskedFor)
  OBVIOUS
<1> QED BY <1>1, <1>2, <1>3, <1>4 DEF DecodeInv

\* A call of insert() or remove() returns nothing.
LEMMA NothingReturned ==
  ASSUME tick' = NoTick
  PROVE  TickRight'
BY DEF TickRight, NoTick, DeltasAreOwn

\* insert(): rows and waiting prompts are of requests that have asked already.
LEMMA InsertKeeps ==
  ASSUME DecodeInv, NEW r \in Requests, NEW ask \in Asks, Insert(r, ask)
  PROVE  DecodeInv'
<1>1. /\ asked \in [Requests -> Asks \cup {NotAsked}] /\ asked[r] = NotAsked
      /\ asked' = [asked EXCEPT ![r] = ask] /\ UNCHANGED <<prefill, batch>>
      /\ pending' = Append(pending, r) /\ side' = AfterArguments(r, ask) /\ tick' = NoTick
  BY DEF Insert, DecodeInv
<1>2. /\ asked' \in [Requests -> Asks \cup {NotAsked}]
      /\ AskedFor \subseteq AskedFor' /\ r \in AskedFor'
      /\ \A x \in AskedFor : asked'[x] = asked[x]
  BY <1>1, DecodeAssumption DEF AskedFor
<1>3. pending' \in Seq(AskedFor')
  <2>1. pending \in Seq(AskedFor')
    <3>1. pending \in Seq(AskedFor)
      BY DEF DecodeInv
    <3> QED BY <1>2, <3>1, SeqMonotonic
  <2> QED BY <1>1, <1>2, <2>1, AppendProperties
<1>4. prefill' = NoPrefill \/ prefill' \in [request : AskedFor', steps : 0..1]
  BY <1>1, <1>2 DEF DecodeInv
<1>5. BatchFits'
  <2>1. PICK n \in 0..BatchSize : Fits(batch, n) /\ Chained(batch, n)
    BY DEF DecodeInv, BatchFits
  <2>2. n \in Nat
    BY <2>1, DecodeAssumption
  <2>3. \A i \in 1..n : batch.rows[i].request \in AskedFor
    <3> TAKE i \in 1..n
    <3>1. batch.rows[i] \in RowType /\ OwnEntries(batch, i)
      BY <2>1 DEF Fits, Batches
    <3> QED BY <3>1 DEF OwnEntries, RowType, AskedFor
  <2>4. Fits(batch', n) /\ Chained(batch', n)
    BY <1>1, <2>1
  <2>5. Fits(batch, n)' /\ Chained(batch, n)'
    BY <1>1, <1>2, <2>2, <2>3, <2>4, AskedAlike, ChainedStays
  <2> QED BY <2>1, <2>5 DEF BatchFits
<1>6. SideFits(side)'
  <2>1. CASE ask.prompt = "image"
    <3>1. r \in HeldDeltas'
      BY <1>1, <1>2, <2>1 DEF HeldDeltas
    <3>2. side' = [positions |-> r, deltas |-> <<r>>]
      BY <1>1, <2>1 DEF AfterArguments
    <3> QED BY <3>1, <3>2 DEF SideFits
  <2>2. CASE ask.prompt # "image"
    BY <1>1, <2>2 DEF SideFits, AfterArguments, ClearSide
  <2> QED BY <2>1, <2>2
<1>7. TickRight'
  BY <1>1, NothingReturned
<1>8. OneHeld(batch, side)'
  BY <1>1 DEF OneHeld, AfterArguments, ClearSide
<1> QED BY <1>2, <1>3, <1>4, <1>5, <1>6, <1>7, <1>8 DEF DecodeInv

\* Some rows of a batch give deltas if and only if all did.
LEMMA KeptDeltas ==
  ASSUME NEW b, NEW n \in Nat, NEW m \in Nat, NEW keep \in [1..m -> 1..n]
  PROVE  Filter(b, keep).rows # <<>> /\ Filter(b, keep).deltas = <<>> => b.deltas = <<>>
<1>1. SUFFICES ASSUME Filter(b, keep).rows # <<>>, b.deltas # <<>>
               PROVE  Filter(b, keep).deltas # <<>>
  OBVIOUS
<1>2. keep # <<>>
  BY <1>1 DEF Filter, EmptyBatch
<1>3. m # 0
  BY <1>2
<1>4. Filter(b, keep).deltas = [j \in 1..m |-> b.deltas[keep[j]]]
  BY <1>1, <1>2 DEF Filter, Kept
<1>5. 1 \in DOMAIN Filter(b, keep).deltas
  BY <1>3, <1>4
<1> QED BY <1>5

\* A batch of some rows of another.
LEMMA KeptFits ==
  ASSUME NEW n \in Nat, NEW b, Fits(b, n), Chained(b, n), NEW stay, NEW keep \in Keeping(b, stay)
  PROVE  \E m \in 0..n : Len(keep) = m /\ Fits(Filter(b, keep), m) /\ Chained(Filter(b, keep), m)
<1>1. Len(b.rows) = n /\ DOMAIN b.rows = 1..n
  BY BatchLength DEF Fits
<1>2. PICK m \in 0..n : keep \in [1..m -> 1..n]
  BY <1>1 DEF Keeping
<1>3. m \in Nat /\ Len(keep) = m
  BY <1>2, ListShape
<1>4. Fits(Filter(b, keep), m) /\ Chained(Filter(b, keep), m)
  BY <1>2, <1>3, FilterFits
<1> QED BY <1>2, <1>3, <1>4

\* A step that leaves what was asked and makes a batch that fits.
LEMMA NewBatchFits ==
  ASSUME asked' = asked, NEW n \in 0..BatchSize, Fits(batch', n), Chained(batch', n)
  PROVE  BatchFits'
<1>1. n \in Nat
  BY DecodeAssumption
<1>2. Fits(batch, n)' /\ Chained(batch, n)'
  BY <1>1, AskedAlike, ChainedStays
<1> QED BY <1>2 DEF BatchFits

\* remove(), from each place the request can be in.
LEMMA RemoveKeeps ==
  ASSUME DecodeInv, NEW r \in Requests, RemoveRequest(r)
  PROVE  DecodeInv'
<1>1. UNCHANGED <<asked, side>> /\ tick' = NoTick
  BY DEF RemoveRequest
<1>2. AskedFor' = AskedFor
  BY <1>1 DEF AskedFor
<1>3. pending' \in Seq(AskedFor)
  <2>1. CASE RemovePending(r)
    BY <2>1, RemoveAtType DEF RemovePending, DecodeInv
  <2>2. CASE RemovePrefill(r) \/ RemoveRow(r)
    BY <2>2 DEF RemovePrefill, RemoveRow, DecodeInv
  <2> QED BY <2>1, <2>2 DEF RemoveRequest
<1>4. prefill' = NoPrefill \/ prefill' \in [request : AskedFor, steps : 0..1]
  BY DEF RemoveRequest, RemovePending, RemovePrefill, RemoveRow, DecodeInv
<1>5. /\ \E n \in 0..BatchSize : Fits(batch', n) /\ Chained(batch', n)
      /\ batch'.rows # <<>> /\ batch'.deltas = <<>> => batch.rows # <<>> /\ batch.deltas = <<>>
  <2>1. PICK n \in 0..BatchSize : Fits(batch, n) /\ Chained(batch, n)
    BY DEF DecodeInv, BatchFits
  <2>2. n \in Nat /\ BatchSize \in Nat
    BY DecodeAssumption
  <2>3. CASE batch' = batch
    BY <2>1, <2>3
  <2>4. CASE RemoveRow(r)
    <3>0. PICK stay : stay = {i \in DOMAIN batch.rows : batch.rows[i].request # r}
      OBVIOUS
    <3>1. PICK keep \in Keeping(batch, stay) : batch' = Filter(batch, keep)
      BY <2>4, <3>0 DEF RemoveRow
    <3>2. PICK m \in 0..n : Fits(Filter(batch, keep), m) /\ Chained(Filter(batch, keep), m)
      BY <2>1, <2>2, <3>1, KeptFits
    <3>3. m \in 0..BatchSize
      BY <2>2
    <3>4. DOMAIN batch.rows = 1..n
      BY <2>1, <2>2, BatchLength DEF Fits
    <3>5. PICK k \in 0..n : keep \in [1..k -> 1..n]
      BY <2>1, <2>2, <3>1, <3>4 DEF Keeping
    <3>6. batch'.rows # <<>> /\ batch'.deltas = <<>> => batch.deltas = <<>>
      <4>1. n \in Nat /\ k \in Nat
        BY <2>2, <3>5
      <4> QED BY <3>1, <3>5, <4>1, KeptDeltas
    <3>7. batch.rows # <<>>
      BY <2>4 DEF RemoveRow
    <3> QED BY <3>1, <3>2, <3>3, <3>6, <3>7
  <2> QED BY <2>3, <2>4 DEF RemoveRequest, RemovePending, RemovePrefill
<1>6. BatchFits'
  BY <1>1, <1>5, NewBatchFits
<1>7. SideFits(side)' /\ OneHeld(batch, side)'
  BY <1>1, <1>2, <1>5 DEF SideFits, HeldDeltas, OneHeld, DecodeInv
<1>8. TickRight'
  BY <1>1, NothingReturned
<1>9. asked' \in [Requests -> Asks \cup {NotAsked}]
  BY <1>1 DEF DecodeInv
<1> QED BY <1>2, <1>3, <1>4, <1>6, <1>7, <1>8, <1>9 DEF DecodeInv

\* The prompt that is worked on.
LEMMA PromptShape ==
  ASSUME DecodeInv, NEW prompt \in PromptsToWorkOn
  PROVE  prompt.request \in Requests /\ asked[prompt.request] \in Asks
         /\ [prompt EXCEPT !.steps = 0] \in [request : AskedFor, steps : 0..1]
<1>1. prompt \in [request : AskedFor, steps : 0..1]
  <2>1. CASE prefill # NoPrefill
    BY <2>1 DEF PromptsToWorkOn, DecodeInv
  <2>2. CASE prefill = NoPrefill
    <3>1. pending # <<>> /\ prompt \in [request : {Head(pending)}, steps : 0..1]
      BY <2>2 DEF PromptsToWorkOn
    <3>2. pending \in Seq(AskedFor)
      BY DEF DecodeInv
    <3>3. Head(pending) \in AskedFor
      BY <3>1, <3>2, HeadTailProperties
    <3> QED BY <3>1, <3>3
  <2> QED BY <2>1, <2>2
<1> QED BY <1>1 DEF AskedFor

\* A prompt call leaves the prompt's deltas with its positions, or nothing.
LEMMA PromptCallKeepsSide ==
  ASSUME NEW r \in AskedFor, NEW s, SideFits(s)
  PROVE  /\ SideFits(AfterPromptCall(r, s))
         /\ Len(AfterPromptCall(r, s).deltas) <= 1
<1>1. CASE OwnsRope(r)
  <2>1. AfterPromptCall(r, s) = [s EXCEPT !.deltas = <<Delta(r)>>]
    BY <1>1 DEF AfterPromptCall, ClearedForText, PromptDeltas, AfterCall
  <2>2. AfterPromptCall(r, s) = [positions |-> s.positions, deltas |-> <<Delta(r)>>]
    BY <2>1 DEF SideFits
  <2>3. Delta(r) \in HeldDeltas
    BY DEF Delta, HeldDeltas
  <2>4. <<Delta(r)>> \in Seq(HeldDeltas) /\ <<Delta(r)>> # <<>> /\ Len(<<Delta(r)>>) <= 1
    BY <2>3
  <2> QED BY <2>2, <2>4 DEF SideFits
<1>2. CASE ~OwnsRope(r)
  <2>1. AfterPromptCall(r, s) = ClearSide
    BY <1>2 DEF AfterPromptCall, ClearedForText
  <2> QED BY <2>1 DEF SideFits, ClearSide
<1> QED BY <1>1, <1>2

\* The prompt part of next(), after the decode part has left b and s.
LEMMA PromptPart ==
  ASSUME DecodeInv, asked' = asked, NEW n \in 0..BatchSize, NEW b, NEW s,
         Fits(b, n), Chained(b, n), SideFits(s), OneHeld(b, s),
         NoPromptWork(b, s) \/ PromptWork(b, s)
  PROVE  /\ BatchFits' /\ SideFits(side)' /\ OneHeld(batch, side)'
         /\ pending' \in Seq(AskedFor)
         /\ prefill' = NoPrefill \/ prefill' \in [request : AskedFor, steps : 0..1]
<1>0. n \in Nat /\ BatchSize \in Nat /\ Len(b.rows) = n
  BY DecodeAssumption, BatchLength DEF Fits
<1>s. HeldDeltas' = HeldDeltas
  BY DEF HeldDeltas, AskedFor
<1>1. CASE NoPromptWork(b, s)
  <2>1. batch' = b /\ side' = s /\ UNCHANGED <<pending, prefill>>
    BY <1>1 DEF NoPromptWork
  <2>2. BatchFits'
    BY <2>1, NewBatchFits
  <2>3. SideFits(side)' /\ OneHeld(batch, side)'
    BY <1>s, <2>1 DEF SideFits, OneHeld
  <2> QED BY <2>1, <2>2, <2>3 DEF DecodeInv
<1>2. CASE PromptWork(b, s)
  <2>1. PICK prompt \in PromptsToWorkOn :
          /\ side' = AfterPromptCall(prompt.request, s)
          /\ IF prompt.steps > 0
             THEN prefill' = [prompt EXCEPT !.steps = 0] /\ batch' = b
             ELSE /\ prefill' = NoPrefill
                  /\ batch' = AppendPrefilled(b, Generated(prompt.request, s))
    BY <1>2 DEF PromptWork
  <2>2. PICK r \in Requests : r = prompt.request /\ asked[r] \in Asks
    BY PromptShape
  <2>3. SideFits(side') /\ Len(side'.deltas) <= 1
    BY <2>1, <2>2, PromptCallKeepsSide DEF AskedFor
  <2>4. SideFits(side)' /\ OneHeld(batch, side)'
    BY <1>s, <2>3 DEF SideFits, OneHeld
  <2>5. prefill' = NoPrefill \/ prefill' \in [request : AskedFor, steps : 0..1]
    BY <2>1, PromptShape
  <2>6. pending' \in Seq(AskedFor)
    <3>1. pending \in Seq(AskedFor) /\ (prefill = NoPrefill => pending # <<>>)
      BY <2>1 DEF DecodeInv, PromptsToWorkOn
    <3>2. prefill = NoPrefill => Tail(pending) \in Seq(AskedFor)
      BY <3>1, HeadTailProperties
    <3>3. pending' = IF prefill = NoPrefill THEN Tail(pending) ELSE pending
      BY <1>2 DEF PromptWork
    <3> QED BY <3>1, <3>2, <3>3
  <2>7. BatchFits'
    <3>1. CASE batch' = b
      BY <3>1, NewBatchFits
    <3>2. CASE batch' = AppendPrefilled(b, Generated(r, s))
      <4>1. n + 1 \in 0..BatchSize
        BY <1>0, <1>2 DEF PromptWork
      <4>2. Fits(Generated(r, s), 1) /\ Chained(Generated(r, s), 1)
        BY <2>2, GeneratedFits
      <4>3. Fits(batch', n + 1) /\ Chained(batch', n + 1)
        BY <1>0, <3>2, <4>2, AppendFits
      <4> QED BY <4>1, <4>3, NewBatchFits
    <3> QED BY <2>1, <2>2, <3>1, <3>2
  <2> QED BY <2>4, <2>5, <2>6, <2>7
<1> QED BY <1>1, <1>2

\* next() without rows to decode.
LEMMA PromptOnlyKeeps ==
  ASSUME DecodeInv, NextPromptOnly
  PROVE  DecodeInv'
<1>1. asked' = asked /\ tick' = NoTick /\ PromptWork(batch, side)
  BY DEF NextPromptOnly
<1>2. PICK n \in 0..BatchSize : Fits(batch, n) /\ Chained(batch, n)
  BY DEF DecodeInv, BatchFits
<1>3. SideFits(side) /\ OneHeld(batch, side)
  BY DEF DecodeInv
<1>4. /\ BatchFits' /\ SideFits(side)' /\ OneHeld(batch, side)'
      /\ pending' \in Seq(AskedFor)
      /\ prefill' = NoPrefill \/ prefill' \in [request : AskedFor, steps : 0..1]
  BY <1>1, <1>2, <1>3, PromptPart
<1>5. TickRight'
  BY <1>1, NothingReturned
<1>6. AskedFor' = AskedFor /\ asked' \in [Requests -> Asks \cup {NotAsked}]
  BY <1>1 DEF AskedFor, DecodeInv
<1> QED BY <1>4, <1>5, <1>6 DEF DecodeInv

\* The batch after next(), with the rows that ended filtered out.
LEMMA AfterNextFits ==
  ASSUME NEW n \in Nat, NEW b, Fits(b, n), Chained(b, n), NEW stay, NEW keep \in Keeping(Step(b), stay),
         NEW a, a = AfterNext(Step(b), keep)
  PROVE  /\ \E m \in 0..n : Fits(a, m) /\ Chained(a, m)
         /\ a.rows # <<>> /\ a.deltas = <<>> => b.deltas = <<>>
<1>1. PICK s : s = Step(b) /\ Fits(s, n)
  BY StepFits
<1>2. \A i \in 1..n : OneBehind(s.rows[i])
  BY <1>1, StepLeavesOneBehind
<1>3. Fits(AllSaved(s), n) /\ Chained(AllSaved(s), n)
  BY <1>1, <1>2, SavedFits
<1>4. Len(s.rows) = n /\ DOMAIN s.rows = 1..n
  BY <1>1, BatchLength DEF Fits
<1>5. PICK m \in 0..n : keep \in [1..m -> 1..n]
  BY <1>1, <1>4 DEF Keeping
<1>6. m \in Nat /\ Len(keep) = m /\ n \in 0..n
  BY <1>5, ListShape
<1>d. AllSaved(s).deltas = b.deltas
  <2>1. s.deltas = b.deltas
    BY <1>1, StepFits
  <2>2. s \in Batches(n)
    BY <1>1 DEF Fits
  <2> QED BY <2>1, <2>2 DEF AllSaved, Batches
<1>7. CASE m < n
  <2>1. a = Filter(AllSaved(s), keep)
    BY <1>1, <1>4, <1>6, <1>7 DEF AfterNext, AllSaved
  <2>2. Fits(a, m) /\ Chained(a, m)
    BY <1>3, <1>5, <1>6, <2>1, FilterFits
  <2>3. a.rows # <<>> /\ a.deltas = <<>> => b.deltas = <<>>
    BY <1>5, <1>6, <1>d, <2>1, KeptDeltas
  <2> QED BY <1>5, <2>2, <2>3
<1>8. CASE ~(m < n)
  <2>1. a = AllSaved(s)
    BY <1>1, <1>4, <1>6, <1>8 DEF AfterNext, AllSaved
  <2> QED BY <1>3, <1>6, <1>d, <2>1
<1> QED BY <1>7, <1>8

\* What a decode call returns and passes on.
LEMMA DecodeTick ==
  ASSUME asked' = asked, NEW n \in Nat, Fits(batch, n), Chained(batch, n), SideFits(side),
         NEW stopped, NextDecode(stopped)
  PROVE  TickRight'
<1>1. DOMAIN batch.rows = 1..n
  BY BatchLength DEF Fits
<1>2. /\ tick'.responses = [i \in 1..n |-> Response(batch, Step(batch), i, stopped)]
      /\ tick'.snapshots = Snapshots(Step(batch))
      /\ tick'.heard = {[request |-> batch.rows[i].request,
                         views |-> Heard(batch.rows[i], batch.tokens[i]),
                         sampled |-> Step(batch).tokens[i]] : i \in 1..n}
      /\ tick'.given = batch.deltas
      /\ tick'.used = [i \in 1..n |-> UsedDelta(batch.deltas, side, i)]
  BY <1>1 DEF NextDecode
<1>3. \A i \in 1..n : ResponseIsOwn(Response(batch, Step(batch), i, stopped))
  BY OwnResponse
<1>4. (\A i \in DOMAIN tick.responses : ResponseIsOwn(tick.responses[i]))'
  <2>1. \A i \in DOMAIN tick'.responses : ResponseIsOwn(tick'.responses[i])
    BY <1>2, <1>3
  <2> QED BY <2>1 DEF ResponseIsOwn, Delta
<1>5. (\A s \in tick.snapshots : SnapshotChains(s))'
  <2>1. \A s \in tick'.snapshots : SnapshotChains(s)
    BY <1>2, ChainedSnapshots
  <2> QED BY <2>1 DEF SnapshotChains
<1>6. (\A h \in tick.heard : HearsAll(h))'
  <2>1. \A h \in tick'.heard : HearsAll(h)
    BY <1>2, AllHeard
  <2> QED BY <2>1 DEF HearsAll
<1>7. DeltasAreOwn'
  <2>1. \A i \in 1..n : tick'.responses[i].request = batch.rows[i].request
    <3> TAKE i \in 1..n
    <3>1. Step(batch).rows[i].request = batch.rows[i].request
      BY StepFits
    <3>2. tick'.responses[i] = Response(batch, Step(batch), i, stopped)
      BY <1>2
    <3> QED BY <3>1, <3>2 DEF Response
  <2>2. \A i \in 1..n : Delta(batch.rows[i].request)
                          = IF batch.deltas = <<>> THEN TextDelta ELSE batch.deltas[i]
    BY OwnDeltasGiven
  <2>3. DOMAIN tick'.responses = 1..n
    BY <1>2
  <2>4. CASE batch.deltas # <<>>
    <3>1. \A i \in 1..n : tick'.used[i] = batch.deltas[i]
      BY <1>2, <2>4 DEF UsedDelta
    <3>2. \A i \in DOMAIN tick'.responses : tick'.used[i] = Delta(tick'.responses[i].request)
      BY <2>1, <2>2, <2>3, <2>4, <3>1
    <3> QED BY <3>2 DEF DeltasAreOwn, Delta
  <2>5. CASE batch.deltas = <<>>
    <3>1. \A i \in DOMAIN tick'.responses : Delta(tick'.responses[i].request) = TextDelta
      BY <2>1, <2>2, <2>3, <2>5
    <3>2. ASSUME NEW i \in DOMAIN tick'.responses
          PROVE  tick'.used[i] \in HeldDeltas
      <4>1. tick'.used[i] = IF side = ClearSide THEN TextDelta ELSE side.deltas[1]
        BY <1>2, <2>3, <2>5, <3>2 DEF UsedDelta
      <4>2. CASE side = ClearSide
        BY <4>1, <4>2 DEF HeldDeltas
      <4>3. CASE side # ClearSide
        <5>1. side.deltas # <<>> /\ side.deltas \in Seq(HeldDeltas)
          BY <4>3 DEF SideFits, ClearSide
        <5>2. side.deltas[1] \in HeldDeltas
          BY <5>1
        <5> QED BY <4>1, <4>3, <5>2
      <4> QED BY <4>2, <4>3
    <3>3. \A i \in DOMAIN tick'.responses :
            \/ tick'.used[i] = Delta(tick'.responses[i].request)
            \/ /\ tick'.used[i] \in Requests
               /\ asked'[tick'.used[i]].prompt = "image"
      BY <3>1, <3>2 DEF HeldDeltas, AskedFor
    <3>4. tick'.given = <<>>
      BY <1>2, <2>5
    <3>5. \A i \in DOMAIN tick'.responses :
            Delta(tick.responses[i].request)' = Delta(tick'.responses[i].request)
      BY DEF Delta
    <3>6. \A i \in DOMAIN tick'.responses :
            \/ tick'.used[i] = Delta(tick.responses[i].request)'
            \/ StaleDelta(tick.used[i])'
      BY <3>1, <3>3, <3>4, <3>5 DEF StaleDelta
    <3> QED BY <3>6 DEF DeltasAreOwn
  <2> QED BY <2>4, <2>5
<1> QED BY <1>4, <1>5, <1>6, <1>7 DEF TickRight

\* next() with rows: the decode part, then the prompt part.
LEMMA DecodeKeeps ==
  ASSUME DecodeInv, NEW stopped, NextDecode(stopped)
  PROVE  DecodeInv'
<1>1. asked' = asked
  BY DEF NextDecode
<1>2. PICK n \in 0..BatchSize : Fits(batch, n) /\ Chained(batch, n)
  BY DEF DecodeInv, BatchFits
<1>3. n \in Nat /\ BatchSize \in Nat
  BY DecodeAssumption
<1>4. PICK stay : \E keep \in Keeping(Step(batch), stay) :
        LET after == AfterNext(Step(batch), keep)
            called == AfterCall(batch.deltas, side)
        IN  NoPromptWork(after, called) \/ PromptWork(after, called)
  <2>0. PICK stay : stay = {i \in DOMAIN Step(batch).rows : ~Ends(Step(batch).rows[i], stopped)}
    OBVIOUS
  <2>1. Keeping(batch, stay) = Keeping(Step(batch), stay)
    <3>1. DOMAIN Step(batch).rows = DOMAIN batch.rows /\ Len(Step(batch).rows) = Len(batch.rows)
      <4>1. Fits(Step(batch), n)
        BY <1>2, <1>3, StepFits
      <4> QED BY <1>2, <1>3, <4>1, BatchLength DEF Fits
    <3> QED BY <3>1 DEF Keeping
  <2> QED BY <2>0, <2>1 DEF NextDecode
<1>5. PICK keep, after, called :
        /\ keep \in Keeping(Step(batch), stay)
        /\ after = AfterNext(Step(batch), keep) /\ called = AfterCall(batch.deltas, side)
        /\ NoPromptWork(after, called) \/ PromptWork(after, called)
  BY <1>4
<1>6. PICK m \in 0..n : Fits(after, m) /\ Chained(after, m)
  BY <1>2, <1>3, <1>5, AfterNextFits
<1>7. m \in 0..BatchSize
  BY <1>2, <1>3, <1>6
<1>8. SideFits(called) /\ OneHeld(after, called)
  <2>1. batch.deltas \in Seq(HeldDeltas)
    <3>1. /\ batch.deltas = <<>> \/ DOMAIN batch.deltas = 1..n
          /\ \A i \in 1..n : OwnDelta(batch, i) /\ batch.rows[i].request \in AskedFor
      <4>1. batch.deltas \in DeltaLists(n)
        BY <1>2 DEF Fits, Batches
      <4>2. ASSUME NEW i \in 1..n
            PROVE  OwnDelta(batch, i) /\ batch.rows[i].request \in AskedFor
        <5>1. batch.rows[i] \in RowType /\ OwnEntries(batch, i) /\ OwnDelta(batch, i)
          BY <1>2, <4>2 DEF Fits, Batches
        <5> QED BY <5>1 DEF OwnEntries, RowType, AskedFor
      <4> QED BY <4>1, <4>2 DEF DeltaLists
    <3>2. CASE batch.deltas # <<>>
      <4>1. \A i \in 1..n : batch.deltas[i] \in HeldDeltas
        BY <3>1, <3>2 DEF OwnDelta, Delta, HeldDeltas
      <4>2. batch.deltas \in [1..n -> DeltaType]
        BY <1>2, <3>2 DEF Fits, Batches, DeltaLists
      <4>3. batch.deltas \in [1..n -> HeldDeltas]
        BY <4>1, <4>2
      <4> QED BY <1>3, <4>3
    <3>3. CASE batch.deltas = <<>>
      BY <3>3
    <3> QED BY <3>2, <3>3
  <2>2. SideFits(side) /\ OneHeld(batch, side)
    BY DEF DecodeInv
  <2>3. SideFits(called)
    BY <1>5, <2>1, <2>2 DEF AfterCall, SideFits
  <2>4. batch.rows # <<>>
    BY DEF NextDecode
  <2>5. after.rows # <<>> /\ after.deltas = <<>> => batch.deltas = <<>>
    BY <1>2, <1>3, <1>5, AfterNextFits
  <2> QED BY <1>5, <2>2, <2>3, <2>4, <2>5 DEF AfterCall, OneHeld
<1>9. /\ BatchFits' /\ SideFits(side)' /\ OneHeld(batch, side)'
      /\ pending' \in Seq(AskedFor)
      /\ prefill' = NoPrefill \/ prefill' \in [request : AskedFor, steps : 0..1]
  BY <1>1, <1>5, <1>6, <1>7, <1>8, PromptPart
<1>10. TickRight'
  BY <1>1, <1>2, <1>3, DecodeTick DEF DecodeInv
<1>11. AskedFor' = AskedFor /\ asked' \in [Requests -> Asks \cup {NotAsked}]
  BY <1>1 DEF AskedFor, DecodeInv
<1> QED BY <1>9, <1>10, <1>11 DEF DecodeInv

-----------------------------------------------------------------------------

\* Nothing happens.
LEMMA StutterKeeps ==
  ASSUME DecodeInv, UNCHANGED vars
  PROVE  DecodeInv'
<1>1. UNCHANGED <<asked, pending, prefill, batch, side, tick>>
  BY DEF vars
<1>2. BatchFits'
  <2>1. PICK n \in 0..BatchSize : Fits(batch, n) /\ Chained(batch, n)
    BY DEF DecodeInv, BatchFits
  <2>2. Fits(batch', n) /\ Chained(batch', n)
    BY <1>1, <2>1
  <2> QED BY <1>1, <2>2, NewBatchFits
<1>5. AskedFor' = AskedFor
  BY <1>1 DEF AskedFor
<1>3. SideFits(side)' /\ OneHeld(batch, side)'
  BY <1>1, <1>5 DEF DecodeInv, SideFits, HeldDeltas, OneHeld
<1>4. TickRight'
  BY <1>1 DEF DecodeInv, TickRight, ResponseIsOwn, Delta, SnapshotChains, HearsAll, DeltasAreOwn,
              StaleDelta
<1> QED BY <1>1, <1>2, <1>3, <1>4, <1>5 DEF DecodeInv

\* The inductive invariant.
LEMMA DecodeInvHolds ==
  Spec => []DecodeInv
<1>1. Init => DecodeInv
  BY InitHolds
<1>2. DecodeInv /\ [Next]_vars => DecodeInv'
  <2> SUFFICES ASSUME DecodeInv, [Next]_vars PROVE DecodeInv'
    OBVIOUS
  <2>1. CASE \E r \in Requests, ask \in Asks : Insert(r, ask)
    BY <2>1, InsertKeeps
  <2>2. CASE \E r \in Requests : RemoveRequest(r)
    BY <2>2, RemoveKeeps
  <2>3. CASE NextPromptOnly
    BY <2>3, PromptOnlyKeeps
  <2>4. CASE \E stopped \in SUBSET {row.request : row \in ToSet(batch.rows)} : NextDecode(stopped)
    BY <2>4, DecodeKeeps
  <2>5. CASE UNCHANGED vars
    BY <2>5, StutterKeeps
  <2> QED BY <2>1, <2>2, <2>3, <2>4, <2>5 DEF Next, Tick
<1> QED BY <1>1, <1>2, PTL DEF Spec

\* It gives what the runs check.
LEMMA InvIsEnough ==
  DecodeInv => RowsAreOwn /\ ProcessorsSeeAll
<1> SUFFICES ASSUME DecodeInv PROVE RowsAreOwn /\ ProcessorsSeeAll
  OBVIOUS
<1>1. PICK n \in 0..BatchSize : Fits(batch, n)
  BY DEF DecodeInv, BatchFits
<1>2. n \in Nat /\ n <= BatchSize
  BY DecodeAssumption
<1>3. TypeOK
  <2>1. /\ Len(batch.rows) = n /\ Len(batch.cache) = n /\ Len(batch.tokens) = n
        /\ Len(batch.logprobs) = n /\ Len(batch.deltas) \in {0, n}
        /\ batch.top # NoTop => Len(batch.top.rows) = n
    BY <1>1, <1>2, BatchLength DEF Fits
  <2>2. batch.top.width = WidestTop(batch.rows) /\ (batch.scalar <=> n = 1)
    BY <1>1 DEF Fits
  <2>3. AskedFor \subseteq Requests
    BY DEF AskedFor
  <2>4. pending \in Seq(Requests)
    <3>1. pending \in Seq(AskedFor)
      BY DEF DecodeInv
    <3> QED BY <2>3, <3>1, SeqMonotonic
  <2>5. prefill.request \in Requests \cup {NoRequest}
    BY <2>3 DEF DecodeInv, NoPrefill
  <2>6. /\ side.positions \in Requests \cup {NoRequest}
        /\ side.positions # NoRequest => side.deltas # <<>>
        /\ batch.rows # <<>> /\ batch.deltas = <<>> => Len(side.deltas) <= 1
    BY DEF DecodeInv, SideFits, OneHeld
  <2>7. asked \in [Requests -> Asks \cup {NotAsked}]
    BY DEF DecodeInv
  <2> QED BY <1>2, <2>1, <2>2, <2>4, <2>5, <2>6, <2>7 DEF TypeOK
<1>4. RowsOwnTheirEntries
  <2>1. DOMAIN batch.rows = 1..n
    BY <1>1, <1>2, BatchLength DEF Fits
  <2>2. \A i \in 1..n : OwnEntries(batch, i)
    BY <1>1 DEF Fits
  <2> QED BY <2>1, <2>2 DEF RowsOwnTheirEntries, OwnEntries
<1>5. ResponsesAreOwn /\ SnapshotsChain /\ DeltasAreOwn /\ ProcessorsSeeAll
  <2>1. ResponsesAreOwn
    BY DEF DecodeInv, TickRight, ResponseIsOwn, ResponsesAreOwn
  <2>2. SnapshotsChain
    BY DEF DecodeInv, TickRight, SnapshotChains, SnapshotsChain
  <2>3. ProcessorsSeeAll
    BY DEF DecodeInv, TickRight, HearsAll, ProcessorsSeeAll
  <2> QED BY <2>1, <2>2, <2>3 DEF DecodeInv, TickRight
<1> QED BY <1>3, <1>4, <1>5 DEF RowsAreOwn

\* Rows join and leave at every call of next() and remove(), and the lists
\* beside them are cut and joined one by one: still, every row's cache,
\* token, log-probability, candidates and delta, and every response and
\* snapshot made of them, are its own request's, and the model adds that
\* delta to its positions; but in a batch of texts alone it may add what
\* an image prompt without a row left in it.
THEOREM RowsStayOwn == Spec => []RowsAreOwn
BY DecodeInvHolds, InvIsEnough, PTL

\* A logits processor, fed by its buffer, by the history or by appending
\* to it, sees each token of the text once before the next is sampled.
THEOREM ProcessorsAlwaysSeeAll == Spec => []ProcessorsSeeAll
BY DecodeInvHolds, InvIsEnough, PTL

=============================================================================
