------------------------------- MODULE BlobStore -------------------------------
(***************************************************************************)
(* TemporarySafetensorBlobStore: blobs in one temporary file, with a free  *)
(* list that is kept sorted by offset and coalesced, and a file that is    *)
(* truncated when its tail becomes free.  The store belongs to the         *)
(* prompt-cache I/O thread, so an operation is one step; a write may fail  *)
(* after any number of bytes.                                              *)
(***************************************************************************)
EXTENDS Naturals, FiniteSets, SequencesExt

CONSTANTS Key,      \* record keys
          MaxLength \* bound on the serialized length of a record

ASSUME BlobAssumption == MaxLength \in Nat \ {0}

VARIABLES records, \* _records: extent by key
          free,    \* _free_extents
          end,     \* _end
          file,    \* the bytes of the temporary file
          open     \* close() was not called

blobVars == <<records, free, end, file, open>>

Extents == [offset : Nat, length : Nat \ {0}]
Hole == <<>> \* a byte outside every record: its value is not tracked

BlobTypeOK ==
  /\ DOMAIN records \subseteq Key
  /\ \A k \in DOMAIN records : records[k] \in Extents
  /\ free \in Seq(Extents)
  /\ end \in Nat
  /\ file \in Seq({Hole} \cup (Key \X Nat \X Nat))
  /\ open \in BOOLEAN

BlobInit ==
  /\ records = [k \in {} |-> <<>>]
  /\ free = <<>>
  /\ end = 0
  /\ file = <<>>
  /\ open = TRUE

Extent(o, n) == [offset |-> o, length |-> n]
Stop(e) == e.offset + e.length
BytesOf(e) == e.offset .. (Stop(e) - 1)
Least(S) == CHOOSE x \in S : \A y \in S : x <= y

-----------------------------------------------------------------------------
(* _reserve: the first free extent that is long enough, else the end of    *)
(* the file.                                                               *)

Fitting(n) == {i \in DOMAIN free : free[i].length >= n}

\* Variant with a fault: the offset is read after the extent was advanced.
ReservedOffsetAdvanced(n) ==
  IF Fitting(n) = {} THEN end ELSE free[Least(Fitting(n))].offset + n

ReservedOffset(n) == IF Fitting(n) = {} THEN end ELSE free[Least(Fitting(n))].offset

\* Variant with a fault: an extent used up exactly stays in the list.
TakeFreeKeepEmpty(i, n) ==
  [free EXCEPT ![i] = Extent(free[i].offset + n, free[i].length - n)]

TakeFree(i, n) ==
  IF free[i].length = n THEN RemoveAt(free, i)
  ELSE [free EXCEPT ![i] = Extent(free[i].offset + n, free[i].length - n)]

FreeAfterReserve(n) == IF Fitting(n) = {} THEN free ELSE TakeFree(Least(Fitting(n)), n)
EndAfterReserve(n) == IF Fitting(n) = {} THEN end + n ELSE end

-----------------------------------------------------------------------------
(* _release: insert in offset order, merge with the neighbours it touches, *)
(* then give the free tail back to the file system.                        *)

InsertSorted(s, e) ==
  LET i == Cardinality({j \in DOMAIN s : s[j].offset < e.offset})
  IN  SubSeq(s, 1, i) \o <<e>> \o SubSeq(s, i + 1, Len(s))

Touching(s, i) == i \in 1..(Len(s) - 1) /\ Stop(s[i]) = s[i+1].offset

\* Merges the extents at i and i+1 when they touch.
MergeAt(s, i) ==
  IF Touching(s, i)
  THEN SubSeq(s, 1, i-1) \o <<Extent(s[i].offset, s[i].length + s[i+1].length)>>
         \o SubSeq(s, i+2, Len(s))
  ELSE s

\* Variant with a fault: the following extent is not looked at.
ReleasedMergePrevious(s, e) ==
  LET i == Cardinality({j \in DOMAIN s : s[j].offset < e.offset})
  IN  MergeAt(InsertSorted(s, e), i)

Released(s, e) ==
  LET i == Cardinality({j \in DOMAIN s : s[j].offset < e.offset})
      inserted == InsertSorted(s, e)
  IN  MergeAt(MergeAt(inserted, i), IF Touching(inserted, i) THEN i ELSE i + 1)

\* Where the extents that reach, one after the other, up to "to" begin.
FreeTail(s, to) ==
  {i \in DOMAIN s : \A j \in i..Len(s) :
     Stop(s[j]) = IF j = Len(s) THEN to ELSE s[j+1].offset}

\* The free list and the file once extent e is free and "to" was the end.
Release(s, e, to) ==
  LET released == Released(s, e)
      tail == FreeTail(released, to)
  IN  IF tail = {} THEN free' = released /\ end' = to
      ELSE /\ free' = SubSeq(released, 1, Least(tail) - 1)
           /\ end' = released[Least(tail)].offset

\* File f once e is released: cut off if the end moved down from "to".
FileAfterRelease(f, e, to) ==
  LET size == IF end' < to THEN end' ELSE Len(f)
  IN  [o \in 1..size |-> IF o \in DOMAIN f /\ o - 1 \notin BytesOf(e) THEN f[o] ELSE Hole]

-----------------------------------------------------------------------------
(* put, delete and close.                                                  *)

\* The file after the first w bytes of a blob were written at offset o.
BytesWritten(o, k, n, w) ==
  LET size == IF w > 0 /\ o + w > Len(file) THEN o + w ELSE Len(file)
  IN  [p \in 1..size |-> IF p \in (o + 1)..(o + w) THEN <<k, n, p - o>>
                         ELSE IF p \in DOMAIN file THEN file[p] ELSE Hole]

\* put() of a key the store has returns the length it has.
Put(k, n) ==
  /\ open
  /\ k \notin DOMAIN records
  /\ LET o == ReservedOffset(n) IN
     /\ file' = BytesWritten(o, k, n, n)
     /\ records' = [j \in DOMAIN records \cup {k} |->
                      IF j = k THEN Extent(o, n) ELSE records[j]]
  /\ free' = FreeAfterReserve(n)
  /\ end' = EndAfterReserve(n)
  /\ UNCHANGED open

\* Variant with a fault: the reserved extent of a failed write is kept.
PutFailsKeepsExtent(k, n) ==
  /\ open
  /\ k \notin DOMAIN records
  /\ \E w \in 0..(n-1) : file' = BytesWritten(ReservedOffset(n), k, n, w)
  /\ free' = FreeAfterReserve(n)
  /\ end' = EndAfterReserve(n)
  /\ UNCHANGED <<records, open>>

\* Only w bytes could be written: the extent is released again.
PutFails(k, n) ==
  /\ open
  /\ k \notin DOMAIN records
  /\ LET o == ReservedOffset(n) IN
     /\ Release(FreeAfterReserve(n), Extent(o, n), EndAfterReserve(n))
     /\ \E w \in 0..(n-1) :
          file' = FileAfterRelease(BytesWritten(o, k, n, w), Extent(o, n), EndAfterReserve(n))
  /\ UNCHANGED <<records, open>>

Delete(k) ==
  /\ open
  /\ k \in DOMAIN records
  /\ Release(free, records[k], end)
  /\ file' = FileAfterRelease(file, records[k], end)
  /\ records' = [j \in DOMAIN records \ {k} |-> records[j]]
  /\ UNCHANGED open

CloseBlobs ==
  /\ open
  /\ open' = FALSE
  /\ records' = [k \in {} |-> <<>>]
  /\ free' = <<>>
  /\ end' = 0
  /\ file' = <<>>

BlobNext ==
  \/ \E k \in Key : \/ \E n \in 1..MaxLength : Put(k, n) \/ PutFails(k, n)
                    \/ Delete(k)
  \/ CloseBlobs

BlobSpec == BlobInit /\ [][BlobNext]_blobVars

-----------------------------------------------------------------------------
(* Properties.                                                             *)

(* Records and free extents tile the file: every byte below _end belongs   *)
(* to exactly one record or one free extent, whatever writes failed and in *)
(* whatever order extents were reserved and released; the file itself ends *)
(* where the store thinks it does.                                         *)
Tiling ==
  LET Owners(o) == {k \in DOMAIN records : o \in BytesOf(records[k])}
      Frees(o) == {i \in DOMAIN free : o \in BytesOf(free[i])}
  IN  /\ \A o \in 0..(end - 1) : Cardinality(Owners(o)) + Cardinality(Frees(o)) = 1
      /\ \A k \in DOMAIN records : Stop(records[k]) <= end
      /\ \A i \in DOMAIN free : Stop(free[i]) <= end
      /\ Len(file) = end

(* "_free_extents is always sorted by offset and coalesced; free space at  *)
(* the file tail truncates the backing file" (class docstring): every free *)
(* extent is followed by a byte in use.                                    *)
FreeCanonical ==
  \A i \in DOMAIN free :
    Stop(free[i]) < IF i = Len(free) THEN end ELSE free[i+1].offset

(* The extents of the file: every byte has one owner, and what is free is  *)
(* in as few extents as possible, none of them at the end.                 *)
FileTiled ==
  /\ BlobTypeOK
  /\ Tiling
  /\ FreeCanonical

\* What load_record(k) reads through its extent.
Stored(k) == [i \in 1..records[k].length |-> file[records[k].offset + i]]

Blobs == INSTANCE BlobMap WITH stored <- [k \in DOMAIN records |-> Stored(k)]

(* The store implements the map: each committed record reads back as the   *)
(* bytes that were put, until it is deleted, and no put, failed put,       *)
(* delete or truncation changes another record.                            *)
ImplementsMap == Blobs!Spec
=============================================================================
