----------------------------- MODULE MCPromptCache -----------------------------
(***************************************************************************)
(* The prompt cache and the file its records are in, in one instance: a    *)
(* behaviour is about one of them ("about"), the other one rests in its    *)
(* initial state.  Prompts have chunks of two tokens, "i" is an image      *)
(* placeholder; "odd" has more runs of them than images.                   *)
(***************************************************************************)
EXTENDS PromptCacheCoordinator, BlobStore

Span(from, to, hash) == [start |-> from, end |-> to, hash |-> hash]

MCPrompts == {"long", "branch", "exact", "cat", "dog", "two", "odd", "late"}

MCIds == [long   |-> <<"a", "a", "b", "b", "c", "c", "d">>,
          branch |-> <<"a", "a", "e", "e", "e">>,
          exact  |-> <<"a", "a", "b", "b">>,
          cat    |-> <<"a", "i", "i", "a", "b">>,
          dog    |-> <<"a", "i", "i", "a", "b">>,
          two    |-> <<"a", "i", "i", "a", "i", "c", "d">>,
          odd    |-> <<"i", "a", "i">>,
          late   |-> <<"a", "a", "b", "b", "c", "i", "i", "d">>]

MCSpans == [long |-> <<>>, branch |-> <<>>, exact |-> <<>>,
            cat |-> <<Span(1, 3, "cat")>>,
            dog |-> <<Span(1, 3, "dog")>>,
            two |-> <<Span(1, 3, "cat"), Span(4, 5, "ant")>>,
            odd |-> <<Span(0, 3, "bird")>>,
            late |-> <<Span(5, 7, "eel")>>]

\* A hybrid model, one with a sliding window, and two that are asked about images.
MCWorkloads ==
  { [kinds |-> {"kv", "checkpoint"}, provisional |-> 4, prompts |-> {"long", "branch"}],
    [kinds |-> {"kv", "rotating"}, provisional |-> 4, prompts |-> {"long", "branch", "exact"}],
    [kinds |-> {"kv", "rotating"}, provisional |-> 5, prompts |-> {"late"}],
    [kinds |-> {"kv"}, provisional |-> 4, prompts |-> {"cat", "dog", "two", "odd"}] }

UnitSize == [kind \in AllKinds |-> 1]

-----------------------------------------------------------------------------
VARIABLE about

vars == <<about, cacheVars, blobVars>>

Init ==
  /\ about \in {"cache", "file"}
  /\ CacheInit /\ (about = "file" => work.kinds = {"kv"} /\ budgetFinal)
  /\ BlobInit

Next ==
  /\ UNCHANGED about
  /\ \/ about = "cache" /\ CacheNext /\ UNCHANGED blobVars
     \/ about = "file" /\ BlobNext /\ UNCHANGED cacheVars

Spec == Init /\ [][Next]_vars
=============================================================================
