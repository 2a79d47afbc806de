----------------------------- MODULE MCDecodeBatch ----------------------------
(***************************************************************************)
(* Instances of DecodeBatch: three requests that ask for different things. *)
(***************************************************************************)
EXTENDS DecodeBatch, TLC

Ask(prompt, top, max, processors) ==
  [prompt |-> prompt, top |-> top, max |-> max, processors |-> processors]

MixedAsks == {Ask("image", 0, 4, {"penalty"}), Ask("image", 2, 2, {"penalty", "guard"}),
              Ask("text", 1, 3, {"json"}), Ask("text", 3, 4, {"guard"}), Ask("text", 0, 1, {}),
              Ask("own", 1, 3, {"penalty", "json"})}

Symmetry == Permutations(Requests)
=============================================================================
