--------------------------- MODULE MCPromptProcessing ---------------------------
(***************************************************************************)
(* The two halves of prompt processing that a caller of any kit meets, in  *)
(* one instance: what the sequential kit's caches hold, and what reporters *)
(* are told.  A behaviour is about one half ("about"); the other one rests *)
(* in its initial state.                                                   *)
(***************************************************************************)
EXTENDS CacheWrapper, PromptProgress

VARIABLE about

vars == <<about, wrapperVars, progressVars>>

MCPrompts == { <<"a", "b", "a">>, <<"a", "b", "b", "a", "a">> }

\* A hybrid model, and one that can be trimmed and has draft models.
MCModels == { [trimmable |-> FALSE, quantized |-> FALSE, drafts |-> FALSE, tail |-> 2],
              [trimmable |-> TRUE, quantized |-> FALSE, drafts |-> TRUE, tail |-> 2] }

\* Bound: once a call left the layers apart, no other call moves them further
\* apart, until the caches are made anew or restored.
OneTear == failed /\ phase # "idle" => Len(second') + Len(main) = Len(second) + Len(main')

Init ==
  /\ about \in {"caches", "reports"}
  /\ WrapperInit /\ (about = "reports" => ~model.trimmable)
  /\ ProgressInit /\ (about = "caches" => kit = "text" /\ total = 1)

Next ==
  /\ UNCHANGED about
  /\ \/ about = "caches" /\ WrapperNext /\ OneTear /\ UNCHANGED progressVars
     \/ about = "reports" /\ ProgressNext /\ UNCHANGED wrapperVars

\* Draft models are interchangeable.
Interchangeable == Permutations(DraftModels)

Spec == Init /\ [][Next]_vars
=============================================================================
