------------------------------- MODULE MCVlmKit -------------------------------
EXTENDS VlmKit, TLC

\* Requests are interchangeable; used only where no temporal formula is checked.
Symmetry == Permutations(Req)
=============================================================================
