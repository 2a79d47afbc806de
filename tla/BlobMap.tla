-------------------------------- MODULE BlobMap --------------------------------
(***************************************************************************)
(* What a blob store promises: a map from keys to immutable blobs.  A blob *)
(* of n bytes stored under k is the sequence of its bytes, each a value of *)
(* its own, so that a blob put back together wrongly is another blob.      *)
(***************************************************************************)
EXTENDS Naturals

CONSTANTS Key, MaxLength

VARIABLES stored, \* blobs by key
          open

Blob(k, n) == [i \in 1..n |-> <<k, n, i>>]

Init == stored = [k \in {} |-> <<>>] /\ open = TRUE

Put(k, n) ==
  /\ open /\ k \notin DOMAIN stored
  /\ stored' = [j \in DOMAIN stored \cup {k} |-> IF j = k THEN Blob(k, n) ELSE stored[j]]
  /\ UNCHANGED open

Delete(k) ==
  /\ open
  /\ stored' = [j \in DOMAIN stored \ {k} |-> stored[j]]
  /\ UNCHANGED open

Close == open /\ open' = FALSE /\ stored' = [k \in {} |-> <<>>]

Next ==
  \/ \E k \in Key : Delete(k) \/ \E n \in 1..MaxLength : Put(k, n)
  \/ Close

Spec == Init /\ [][Next]_<<stored, open>>
=============================================================================
