--------------------------- MODULE MCNodeNetwork ---------------------------
(***************************************************************************)
(* The node network on the state |0> with Hadamard and Pauli-X, for TLC.   *)
(***************************************************************************)
EXTENDS NodeNetwork

(* Without a Hadamard gate the state stays a basis state, whose entropy is  *)
(* exactly 0; rounding keeps it from ever being 0 again after one.          *)
MCDefinite(rules) == "H" \notin ToSet(rules)

Interchangeable == Permutations(Nodes) \cup Permutations(Tokens)
=============================================================================
