---------------------------- MODULE MCSequentialKit ----------------------------
(* Symmetry for SequentialKit.                                             *)
EXTENDS SequentialKit

\* Requests are interchangeable.
Interchangeable == Permutations(Req)
=============================================================================
