------------------------ MODULE MCQuantumFoundation ------------------------
(***************************************************************************)
(* The foundation over one qubit that starts in |0>, for TLC.              *)
(***************************************************************************)
EXTENDS QuantumFoundation, SequencesExt

TokenSymmetry == Permutations(Tokens)

(* Where the Hadamard rule takes a state, up to its phase.                  *)
Hadamard == [x \in {"0", "1", "+", "-"} |->
               CASE x = "0" -> "+" [] x = "1" -> "-" [] x = "+" -> "0" [] x = "-" -> "1"]
Flip == [x \in {"0", "1", "+", "-"} |->
           CASE x = "0" -> "1" [] x = "1" -> "0" [] OTHER -> x]

Ray(s) ==
  FoldLeft(LAMBDA x, r : IF r = "H" THEN Hadamard[x] ELSE Flip[x],
           IF s.from = Start THEN "0" ELSE s.from, s.rules)

MCPossible(s) == IF Ray(s) \in Outcomes THEN {Ray(s)} ELSE Outcomes

(* A Hadamard gate leaves rounding errors, so that a basis state reached    *)
(* through it still has some entropy.                                       *)
MCLoss(s) == IF \E i \in DOMAIN s.rules : s.rules[i] = "H" THEN 1 ELSE 0

(* A phase error does not turn a basis state, and moves the others apart.   *)
MCOrthogonal(s, t) ==
  \/ {Ray(s), Ray(t)} = {"0", "1"}
  \/ ~s.noisy /\ {Ray(s), Ray(t)} = {"+", "-"}
=============================================================================
