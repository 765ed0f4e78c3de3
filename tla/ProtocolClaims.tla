--------------------------- MODULE ProtocolClaims --------------------------
(***************************************************************************)
(* What documents and docstrings of the repository say of the computation  *)
(* protocol, and the code does not keep: a run refutes it.                 *)
(***************************************************************************)
EXTENDS ComputationProtocol

(* distributed_computation_model.md: a step N is never applied before step  *)
(* N-1 is committed.  A SYNC moves a node past the events that it lacks.    *)
AppliedAfterPredecessor ==
  \A n \in Members : \A i \in DOMAIN node[n].applied :
    \A k \in EventIds :
      k < node[n].applied[i] => \E h \in 1 .. (i - 1) : node[n].applied[h] = k
=============================================================================
