---------------------------- MODULE BatchScheduler ----------------------------
(***************************************************************************)
(* The scheduling level of the batched-vision BatchGenerator: which        *)
(* requests wait for prefill, which one is being prefilled, which rows     *)
(* decode together, and which responses one call of next() returns.        *)
(* Tensors, tokens and sampling are abstracted to the choice of how many   *)
(* prompt steps a prefill takes and which rows finish.                     *)
(*                                                                         *)
(* insert() hands out a fresh uid per request, and a request is inserted   *)
(* at most once, so a row is named by its request.                         *)
(***************************************************************************)
EXTENDS Naturals, FiniteSets, SequencesExt

CONSTANTS Req,         \* requests
          NoReq,       \* "no request"
          MaxSeqNums,  \* max_seq_nums, passed as completion_batch_size
          PromptSteps, \* prompt steps a cold prefill needs before its last call
          MaxTokens    \* max_tokens of every request

ASSUME SchedulerAssumption ==
  /\ NoReq \notin Req
  /\ MaxSeqNums \in Nat \ {0}
  /\ PromptSteps \in Nat
  /\ MaxTokens \in Nat \ {0}

VARIABLES unprocessed, \* _unprocessed_sequences, FIFO
          prefilling,  \* uid of _prompt_batch, or NoReq
          decoding,    \* rows of _generation_batch, in order
          steps        \* per row: prompt steps done, then tokens emitted

batchVars == <<unprocessed, prefilling, decoding, steps>>

BatchTypeOK ==
  /\ unprocessed \in Seq(Req)
  /\ prefilling \in Req \cup {NoReq}
  /\ decoding \in Seq(Req)
  /\ steps \in [Req -> Nat]

BatchInit ==
  /\ unprocessed = <<>>
  /\ prefilling = NoReq
  /\ decoding = <<>>
  /\ steps = [r \in Req |-> 0]

\* Rows the generator holds, wherever they are.
Rows == ToSet(unprocessed) \cup ({prefilling} \ {NoReq}) \cup ToSet(decoding)

\* A list without r, which is in it at most once.
Without(s, r) ==
  IF r \in ToSet(s) THEN RemoveAt(s, CHOOSE i \in DOMAIN s : s[i] = r) ELSE s

\* A response, or a queue item: what it is and which request it is about.
Item(kind, r) == [kind |-> kind, id |-> r]

-----------------------------------------------------------------------------
(* insert: the restored prefix decides how many prompt steps are left.     *)
InsertRow(r) ==
  /\ unprocessed' = Append(unprocessed, r)
  /\ \E cached \in 0..PromptSteps : steps' = [steps EXCEPT ![r] = cached]
  /\ UNCHANGED <<prefilling, decoding>>

\* Variant with a fault: a row in prefill is not looked for.
RemoveRowNotPrefilling(r) ==
  /\ UNCHANGED <<steps, prefilling>>
  /\ \/ /\ r \in ToSet(unprocessed)
        /\ unprocessed' = Without(unprocessed, r)
        /\ UNCHANGED decoding
     \/ /\ r \notin ToSet(unprocessed)
        /\ decoding' = SelectSeq(decoding, LAMBDA x : x # r)
        /\ UNCHANGED unprocessed

(* remove: the row is looked up in the three places, in this order.        *)
RemoveRow(r) ==
  /\ UNCHANGED steps
  /\ \/ /\ r \in ToSet(unprocessed)
        /\ unprocessed' = Without(unprocessed, r)
        /\ UNCHANGED <<prefilling, decoding>>
     \/ /\ r \notin ToSet(unprocessed)
        /\ r = prefilling
        /\ prefilling' = NoReq
        /\ UNCHANGED <<unprocessed, decoding>>
     \/ /\ r \notin ToSet(unprocessed) \cup {prefilling}
        /\ r \in ToSet(decoding)
        /\ decoding' = Without(decoding, r)
        /\ UNCHANGED <<unprocessed, prefilling>>
     \/ /\ r \notin Rows
        /\ UNCHANGED <<unprocessed, prefilling, decoding>>

-----------------------------------------------------------------------------
(* next().  The decode batch steps first: every row emits one token, and   *)
(* the rows in "done" finish, because a stop token was sampled or because  *)
(* max_tokens is reached.  GenerationBatch.next() filters finished rows    *)
(* itself; here FinishRow drops each one when its response is handled.     *)

\* Variant with a fault: one token too many.
AtTokenLimitOffByOne == {r \in ToSet(decoding) : steps[r] + 1 > MaxTokens}

AtTokenLimit == {r \in ToSet(decoding) : steps[r] + 1 >= MaxTokens}

DecodeResponses(done) ==
  [i \in DOMAIN decoding |->
     Item(IF decoding[i] \in done THEN "last" ELSE "token", decoding[i])]

\* The capacity check that ends next() before any prompt work.
BatchFull(done) == Len(decoding) - Cardinality(done) >= MaxSeqNums

\* The request whose prompt this call works on.
PromptRow ==
  IF prefilling # NoReq THEN prefilling
  ELSE IF unprocessed # <<>> THEN Head(unprocessed) ELSE NoReq

TakePromptRow ==
  unprocessed' = IF prefilling = NoReq /\ unprocessed # <<>>
                 THEN Tail(unprocessed) ELSE unprocessed

\* Every decoding row counts one more token; row p's count becomes n.
CountTokens == [r \in Req |-> IF r \in ToSet(decoding)
                              THEN steps[r] + 1 ELSE steps[r]]

NoPromptWork(done) ==
  /\ BatchFull(done) \/ PromptRow = NoReq
  /\ steps' = CountTokens
  /\ UNCHANGED <<unprocessed, prefilling, decoding>>

\* prompt_step: some more of the prompt; the last prompt step leaves one token,
\* which makes its progress report the final one.
ProgressResponse(n) ==
  Item(IF n = PromptSteps THEN "final" ELSE "progress", PromptRow)

PromptStep(done, n) ==
  /\ ~BatchFull(done)
  /\ PromptRow # NoReq
  /\ n \in (steps[PromptRow] + 1)..PromptSteps
  /\ TakePromptRow
  /\ prefilling' = PromptRow
  /\ steps' = [CountTokens EXCEPT ![PromptRow] = n]
  /\ UNCHANGED decoding

\* Variant with a fault: joins although no prompt is waiting.
JoinDecodeUnchecked(done) ==
  /\ ~BatchFull(done)
  /\ TakePromptRow
  /\ prefilling' = NoReq
  /\ decoding' = Append(decoding, PromptRow)
  /\ steps' = CountTokens

\* generate: the final prompt call; the row joins the decode batch.
JoinDecode(done) ==
  /\ ~BatchFull(done)
  /\ PromptRow # NoReq
  /\ TakePromptRow
  /\ prefilling' = NoReq
  /\ decoding' = Append(decoding, PromptRow)
  /\ steps' = [CountTokens EXCEPT ![PromptRow] = 0]

\* A finished row leaves the decode batch.
FinishRow(r) ==
  /\ decoding' = Without(decoding, r)
  /\ UNCHANGED <<unprocessed, prefilling, steps>>
=============================================================================
