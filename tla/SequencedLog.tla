--------------------------- MODULE SequencedLog ----------------------------
(***************************************************************************)
(* What the distributed layer promises: one sequence of events, and on     *)
(* every node a copy that is always a prefix of it and only grows.  Nodes   *)
(* may copy several events at once, and while an event is sequenced.       *)
(***************************************************************************)
EXTENDS Naturals, Sequences

CONSTANTS Nodes, Events

VARIABLES glog, copy

vars == <<glog, copy>>

IsPrefixOf(s, t) == Len(s) <= Len(t) /\ \A i \in 1 .. Len(s) : s[i] = t[i]

Init ==
  /\ glog = <<>>
  /\ copy = [n \in Nodes |-> <<>>]

(* A node copies events: those that follow its copy in the sequence. *)
Copies(n) ==
  /\ copy'[n] \in Seq(Events)
  /\ IsPrefixOf(copy[n], copy'[n])
  /\ IsPrefixOf(copy'[n], glog')

Next ==
  /\ glog' = glog \/ \E e \in Events : glog' = Append(glog, e)
  /\ DOMAIN copy' = Nodes
  /\ \A n \in Nodes : Copies(n)

Spec == Init /\ [][Next]_vars

TypeOK ==
  /\ glog \in Seq(Events)
  /\ DOMAIN copy = Nodes
  /\ \A n \in Nodes : copy[n] \in Seq(Events)

(* Every copy is a prefix of the sequence. *)
CopiesArePrefixes == \A n \in Nodes : IsPrefixOf(copy[n], glog)
=============================================================================
