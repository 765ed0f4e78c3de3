--------------------- MODULE ComputationProtocolProofs ---------------------
(***************************************************************************)
(* Proofs about the computation protocol: the inductive invariant, and the *)
(* properties that follow from it.  The lemmas about one node come from    *)
(* ReplicaNodeProofs.                                                      *)
(***************************************************************************)
EXTENDS ComputationProtocol, ReplicaNodeProofs

AckTypes == {"APPLIED", "BUFFERED", "REJECTED"}

LEMMA AckTypeIsType ==
  ASSUME NEW nd, NEW cid, NEW lg
  PROVE  AckType(nd, cid, lg) \in AckTypes
<1>1. CASE lg[cid] = SYNC
  BY <1>1 DEF AckType, AckTypes
<1>2. CASE lg[cid] # SYNC /\ ReceiveRaises(nd, cid, lg)
  BY <1>2 DEF AckType, AckTypes
<1>3. CASE lg[cid] # SYNC /\ ~ReceiveRaises(nd, cid, lg)
  BY <1>3 DEF AckType, AckTypes
<1> QED
  BY <1>1, <1>2, <1>3

(* There is a most advanced node, and a first one of these. *)
LEMMA ReferenceExists ==
  ASSUME TypeOK, NEW ns \in SUBSET Members, ns # {}
  PROVE  Reference(ns) \in ns
<1> DEFINE lag(n) == Len(log) + 1 - node[n].next
           lags == {lag(n) : n \in ns}
<1>1. /\ Len(log) \in Nat
      /\ \A n \in ns : n \in Nat /\ n \in Nodes
      /\ \A n \in ns : node[n].next \in 1 .. (Len(log) + 1)
  BY ProtocolAssumption, LenProperties DEF TypeOK, NodeType, Members, Nodes
<1>2. PICK d \in lags : \A e \in lags : d <= e
  <2>1. lags \in SUBSET Nat /\ lags # {}
    BY <1>1
  <2> HIDE DEF lags
  <2> QED
    BY <2>1, LeastElement
<1> DEFINE best == {n \in ns : lag(n) = d}
<1>3. PICK r \in best : \A n \in best : r <= n
  <2>1. best \in SUBSET Nat /\ best # {}
    BY <1>1, <1>2
  <2> HIDE DEF best
  <2> QED
    BY <2>1, LeastElement
<1>4. r \in ns
  OBVIOUS
<1>5. ASSUME NEW n \in ns
      PROVE  \/ Committed(node[n]) < Committed(node[r])
             \/ Committed(node[n]) = Committed(node[r]) /\ r <= n
  <2>1. d = Len(log) + 1 - node[r].next /\ d <= Len(log) + 1 - node[n].next
    BY <1>2
  <2>2. Len(log) + 1 - node[n].next = d => r <= n
    BY <1>3
  <2>3. node[n].next \in Nat /\ node[r].next \in Nat /\ Len(log) \in Nat
    BY <1>1, <1>4
  <2>4. node[n].next <= node[r].next
    BY <2>1, <2>3
  <2>5. node[n].next = node[r].next => r <= n
    BY <2>1, <2>2
  <2>6. \/ node[n].next < node[r].next
        \/ node[n].next = node[r].next /\ r <= n
    BY <2>3, <2>4, <2>5
  <2> QED
    BY <2>3, <2>6 DEF Committed
<1> QED
  BY <1>4, <1>5 DEF Reference

(* What a reconciliation replays are events of the hub's log. *)
LEMMA MissingAreEvents ==
  ASSUME TypeOK, NEW n \in Nodes, NEW ref \in Nodes
  PROVE  Missing(n, ref) \subseteq EventIds
<1>1. /\ Len(log) \in Nat /\ DOMAIN log = 1 .. Len(log)
      /\ node[n].next \in 1 .. (Len(log) + 1)
      /\ node[ref].next \in 1 .. (Len(log) + 1)
  BY LenProperties DEF TypeOK, NodeType
<1>2. EventSlice(Committed(node[n]) + 1, Committed(node[ref])) \subseteq 1 .. Len(log)
  BY <1>1 DEF EventSlice, Committed
<1> QED
  BY <1>1, <1>2 DEF Missing, EventIds, EventIdsOf
-----------------------------------------------------------------------------
LEMMA InitInv == Init => Inv
<1> SUFFICES ASSUME Init PROVE Inv
  OBVIOUS
<1>1. NodeInv(NewNode, log) /\ NewNode \in NodeType(log)
  BY NewNodeIsConsistent DEF Init, NodeInv
<1>2. TypeOK
  <2>1. registered \in Nodes /\ log \in Seq(Payloads \cup {SYNC})
    BY ProtocolAssumption DEF Init
  <2>2. node \in [Nodes -> NodeType(log)]
    BY <1>1 DEF Init
  <2>3. held \in [Nodes -> SUBSET DOMAIN log]
    BY DEF Init
  <2>4. /\ halted \in BOOLEAN /\ acks = {} /\ todo = {}
        /\ call \in {"idle", "release", "reconcile_all", "reconcile_node"}
    BY DEF Init
  <2> QED
    BY <2>1, <2>2, <2>3, <2>4 DEF TypeOK
<1>3. SyncsOnce
  BY DEF Init, SyncsOnce
<1> QED
  BY <1>1, <1>2, <1>3 DEF Init, Inv

LEMMA InvFacts ==
  ASSUME Inv
  PROVE  /\ log \in Seq(Payloads \cup {SYNC})
         /\ Len(log) \in Nat /\ DOMAIN log = 1 .. Len(log)
         /\ DOMAIN node = Nodes
         /\ \A n \in Nodes : /\ NodeInv(node[n], log)
                             /\ node[n].synced \subseteq SyncIds
                             /\ held[n] \subseteq DOMAIN log
         /\ Members \subseteq Nodes
  BY LenProperties, ProtocolAssumption
  DEF Inv, TypeOK, NodeType, SyncIds, Members, Nodes

LEMMA RegisterNodeInv == Inv /\ RegisterNode => Inv'
<1> SUFFICES ASSUME Inv, RegisterNode PROVE Inv'
  OBVIOUS
<1>1. TypeOK'
  BY ProtocolAssumption DEF Inv, TypeOK, RegisterNode, Nodes
<1>2. SyncsOnce'
  BY DEF Inv, SyncsOnce, SyncIds, RegisterNode
<1> QED
  BY <1>1, <1>2 DEF Inv, RegisterNode

LEMMA SubmitInv ==
  ASSUME Inv, NEW step \in Steps, NEW skipped \in ExcludeSets,
         NEW delayed \in DelaySets, Submit(step, skipped, delayed)
  PROVE  Inv'
<1> DEFINE cid == NextCausalId
           lg == Append(log, step)
           reached == Members \ (skipped \cup delayed)
           Step == Payloads \cup {SYNC}
<1>1. /\ log \in Seq(Step) /\ Len(log) \in Nat /\ DOMAIN log = 1 .. Len(log)
      /\ \A n \in Nodes : /\ NodeInv(node[n], log)
                          /\ node[n].synced \subseteq SyncIds
                          /\ held[n] \subseteq DOMAIN log
      /\ Members \subseteq Nodes
  BY InvFacts
<1>2. step \in Step
  BY ProtocolAssumption
<1>3. /\ lg \in Seq(Step) /\ Len(lg) = Len(log) + 1
      /\ DOMAIN lg = 1 .. (Len(log) + 1)
      /\ \A k \in 1 .. Len(log) : lg[k] = log[k]
      /\ cid = Len(log) + 1 /\ cid \in DOMAIN lg
  BY <1>1, <1>2 DEF NextCausalId
<1>4. /\ call = "idle" /\ log' = lg /\ acks' = {Ack(n, cid, AckType(node[n], cid, lg)) : n \in reached}
      /\ node' = [n \in Nodes |-> IF n \in reached
                                    THEN Execute(node[n], cid, lg) ELSE node[n]]
      /\ held' = [n \in Nodes |-> IF n \in (Members \cap delayed) \ skipped
                                    THEN held[n] \cup {cid} ELSE held[n]]
      /\ halted' \in BOOLEAN
      /\ UNCHANGED <<registered, call, todo>>
  BY DEF Submit
<1>5. todo = {} /\ SyncsOnce /\ TypeOK
  BY <1>4 DEF Inv
<1> HIDE DEF cid, lg, reached, Step
<1>6. \A n \in Nodes : NodeInv(node[n], lg) /\ cid \notin node[n].synced
  <2>1. \A n \in Nodes : NodeInv(node[n], lg)
    BY <1>1, <1>2, SequencingKeepsNodeInv DEF lg
  <2>2. cid \notin SyncIds
    BY <1>1, <1>3 DEF SyncIds, SyncIdsOf
  <2> QED
    BY <1>1, <2>1, <2>2
<1>7. \A n \in Nodes :
        /\ NodeInv(node'[n], lg)
        /\ node'[n].synced \subseteq node[n].synced \cup {cid}
        /\ n \notin reached => node'[n] = node[n]
  <2> SUFFICES ASSUME NEW n \in Nodes
               PROVE  /\ NodeInv(node'[n], lg)
                      /\ node'[n].synced \subseteq node[n].synced \cup {cid}
                      /\ n \notin reached => node'[n] = node[n]
    OBVIOUS
  <2>1. CASE n \in reached
    <3>1. node'[n] = Execute(node[n], cid, lg)
      BY <1>4, <2>1
    <3> QED
      BY <3>1, <2>1, <1>3, <1>6, ExecuteKeepsNodeInv
  <2>2. CASE n \notin reached
    BY <2>2, <1>4, <1>6
  <2> QED
    BY <2>1, <2>2
<1>8. TypeOK'
  <2>1. node' \in [Nodes -> NodeType(log')]
    <3>1. \A n \in Nodes : node'[n] \in NodeType(lg)
      BY <1>7 DEF NodeInv
    <3> QED
      BY <3>1, <1>4
  <2>2. held' \in [Nodes -> SUBSET DOMAIN log']
    <3>1. \A n \in Nodes : held[n] \cup {cid} \subseteq DOMAIN lg /\ held[n] \subseteq DOMAIN lg
      BY <1>1, <1>3
    <3> QED
      BY <3>1, <1>4
  <2>3. acks' \subseteq [node : Nodes, cid : DOMAIN log', type : AckTypes]
    BY <1>1, <1>3, <1>4, AckTypeIsType DEF Ack, reached
  <2>4. log' \in Seq(Payloads \cup {SYNC})
    BY <1>3, <1>4 DEF Step
  <2> QED
    BY <1>4, <1>5, <2>1, <2>2, <2>3, <2>4 DEF TypeOK, AckTypes
<1>9. SyncsOnce'
  <2> SUFFICES ASSUME NEW n \in Nodes, NEW k \in SyncIds'
               PROVE  k \in held'[n] => k \notin node'[n].synced
    BY <1>4, <1>5 DEF SyncsOnce
  <2> SUFFICES ASSUME k \in held'[n]
               PROVE  k \notin node'[n].synced
    OBVIOUS
  <2>1. CASE k = cid
    <3>1. cid \notin held[n]
      BY <1>1, <1>3
    <3>2. n \in delayed
      BY <2>1, <3>1, <1>4
    <3>3. node'[n] = node[n]
      BY <3>2, <1>7 DEF reached
    <3> QED
      BY <3>3, <2>1, <1>6
  <2>2. CASE k # cid
    <3>1. k \in held[n] /\ k \in 1 .. Len(log)
      BY <2>2, <1>1, <1>4
    <3>2. k \in SyncIds
      BY <3>1, <1>1, <1>3, <1>4 DEF SyncIds, SyncIdsOf
    <3>3. k \notin node[n].synced
      BY <3>1, <3>2, <1>5 DEF SyncsOnce
    <3> QED
      BY <3>3, <2>2, <1>7
  <2> QED
    BY <2>1, <2>2
<1> QED
  BY <1>4, <1>5, <1>7, <1>8, <1>9 DEF Inv

LEMMA ReleaseHeldEventsInv ==
  ASSUME Inv, NEW n \in Nodes, ReleaseHeldEvents(n)
  PROVE  Inv'
<1>1. /\ TypeOK /\ SyncsOnce /\ todo = {}
      /\ \A m \in Nodes : NodeInv(node[m], log)
  BY DEF Inv, ReleaseHeldEvents
<1>2. TypeOK'
  BY <1>1 DEF ReleaseHeldEvents, TypeOK
<1>3. SyncsOnce'
  BY <1>1 DEF ReleaseHeldEvents, SyncsOnce, SyncIds, TypeOK
<1> QED
  BY <1>1, <1>2, <1>3 DEF ReleaseHeldEvents, Inv

(* One delivery to a node that keeps the others and the log as they are. *)
LEMMA OneNodeTypeOK ==
  ASSUME Inv, NEW n \in Nodes, NEW nd, NodeInv(nd, log),
         node' = [node EXCEPT ![n] = nd], UNCHANGED <<registered, log, held>>,
         halted' \in BOOLEAN, todo' \subseteq todo, call' = call,
         acks' \subseteq acks \cup [node : Nodes, cid : DOMAIN log, type : AckTypes]
  PROVE  /\ TypeOK'
         /\ \A m \in Nodes : NodeInv(node'[m], log')
<1>1. TypeOK /\ \A m \in Nodes : NodeInv(node[m], log)
  BY DEF Inv
<1>2. nd \in NodeType(log)
  BY DEF NodeInv
<1>3. TypeOK'
  BY <1>1, <1>2 DEF TypeOK, AckTypes
<1>4. \A m \in Nodes : node'[m] = IF m = n THEN nd ELSE node[m]
  BY <1>1 DEF TypeOK
<1> QED
  BY <1>1, <1>3, <1>4

LEMMA DeliverHeldInv ==
  ASSUME Inv, NEW n, NEW cid, <<n, cid>> \in todo, DeliverHeld(n, cid)
  PROVE  Inv'
<1> DEFINE nd == Execute(node[n], cid, log)
<1>1. /\ TypeOK /\ SyncsOnce /\ log \in Seq(Payloads \cup {SYNC})
      /\ \A m \in Nodes : NodeInv(node[m], log) /\ node[m].synced \subseteq SyncIds
  BY InvFacts DEF Inv
<1>2. n \in Nodes /\ cid \in DOMAIN log
  BY <1>1 DEF TypeOK
<1>3. cid \notin node[n].synced
  BY <1>1, <1>2 DEF SyncsOnce
<1>4. /\ NodeInv(nd, log)
      /\ nd.synced = node[n].synced \cup ({cid} \cap SyncIds)
  BY <1>1, <1>2, <1>3, ExecuteKeepsNodeInv DEF SyncIds
<1>5. /\ node' = [node EXCEPT ![n] = nd] /\ UNCHANGED <<registered, log, held, call>>
      /\ call = "release"
      /\ todo' \subseteq todo \ {<<n, cid>>}
      /\ halted' => halted \/ todo' = {}
      /\ halted' \in BOOLEAN
      /\ acks' = acks \cup {Ack(n, cid, AckType(node[n], cid, log))}
  BY <1>1 DEF DeliverHeld, TypeOK
<1>6. Ack(n, cid, AckType(node[n], cid, log)) \in
        [node : Nodes, cid : DOMAIN log, type : AckTypes]
  BY <1>2, AckTypeIsType DEF Ack
<1> HIDE DEF nd
<1>7. TypeOK' /\ \A m \in Nodes : NodeInv(node'[m], log')
  BY <1>2, <1>4, <1>5, <1>6, OneNodeTypeOK
<1>8. SyncsOnce'
  <2> SUFFICES ASSUME NEW m \in Nodes, NEW k \in SyncIds
               PROVE  /\ k \in held[m] => k \notin node'[m].synced /\ <<m, k>> \notin todo'
                      /\ <<m, k>> \in todo' => k \notin node'[m].synced
    BY <1>5 DEF SyncsOnce, SyncIds
  <2>1. /\ k \in held[m] => k \notin node[m].synced /\ <<m, k>> \notin todo
        /\ <<m, k>> \in todo => k \notin node[m].synced
    BY <1>1 DEF SyncsOnce
  <2>2. CASE m = n
    <3>1. node'[m] = nd
      BY <2>2, <1>1, <1>5 DEF TypeOK
    <3>2. k = cid => k \notin held[m] /\ <<m, k>> \notin todo'
      BY <2>1, <2>2, <1>5
    <3> QED
      BY <3>1, <3>2, <2>1, <2>2, <1>4, <1>5
  <2>3. CASE m # n
    <3>1. node'[m] = node[m]
      BY <2>3, <1>1, <1>5 DEF TypeOK
    <3> QED
      BY <3>1, <2>1, <1>5
  <2> QED
    BY <2>2, <2>3
<1>9. halted => todo = {}
  BY <1>5 DEF Inv
<1> QED
  BY <1>5, <1>7, <1>8, <1>9 DEF Inv

LEMMA ReconcileAllInv == Inv /\ ReconcileAll => Inv'
<1> SUFFICES ASSUME Inv, ReconcileAll PROVE Inv'
  OBVIOUS
<1> DEFINE ref == Reference(Members)
<1>1. TypeOK /\ SyncsOnce /\ \A n \in Nodes : NodeInv(node[n], log)
  BY DEF Inv
<1>2. Members \subseteq Nodes /\ Members # {}
  BY <1>1, ProtocolAssumption DEF TypeOK, Members, Nodes
<1>3. ref \in Nodes
  BY <1>1, <1>2, ReferenceExists
<1> HIDE DEF ref
<1>4. todo' = UNION {{n} \X Missing(n, ref) : n \in Members \ {ref}}
  BY DEF ReconcileAll, ref
<1>5. todo' \subseteq Nodes \X EventIds
  BY <1>1, <1>2, <1>3, <1>4, MissingAreEvents
<1>6. TypeOK'
  BY <1>1, <1>5 DEF ReconcileAll, TypeOK, EventIds, EventIdsOf
<1>7. SyncsOnce'
  BY <1>1, <1>5 DEF ReconcileAll, SyncsOnce, EventIds, EventIdsOf, SyncIds, SyncIdsOf
<1> QED
  BY <1>1, <1>6, <1>7 DEF ReconcileAll, Inv

LEMMA ReconcileNodeInv ==
  ASSUME Inv, NEW n \in Nodes, ReconcileNode(n)
  PROVE  Inv'
<1> DEFINE ref == Reference(Members \ {n})
<1>1. TypeOK /\ SyncsOnce /\ \A m \in Nodes : NodeInv(node[m], log)
  BY DEF Inv
<1>2. Members \subseteq Nodes /\ Members \ {n} # {}
  BY <1>1, ProtocolAssumption DEF TypeOK, Members, Nodes, ReconcileNode
<1>3. ref \in Nodes
  BY <1>1, <1>2, ReferenceExists
<1> HIDE DEF ref
<1>4. todo' = {n} \X Missing(n, ref)
  BY DEF ReconcileNode, ref
<1>5. todo' \subseteq Nodes \X EventIds
  BY <1>1, <1>3, <1>4, MissingAreEvents
<1>6. TypeOK'
  BY <1>1, <1>5 DEF ReconcileNode, TypeOK, EventIds, EventIdsOf
<1>7. SyncsOnce'
  BY <1>1, <1>5 DEF ReconcileNode, SyncsOnce, EventIds, EventIdsOf, SyncIds, SyncIdsOf
<1> QED
  BY <1>1, <1>6, <1>7 DEF ReconcileNode, Inv

LEMMA ReplayInv ==
  ASSUME Inv, NEW n, NEW cid, <<n, cid>> \in todo, Replay(n, cid)
  PROVE  Inv'
<1> DEFINE nd == Receive(node[n], cid, log)
<1>1. /\ TypeOK /\ SyncsOnce /\ log \in Seq(Payloads \cup {SYNC})
      /\ \A m \in Nodes : NodeInv(node[m], log)
  BY InvFacts DEF Inv
<1>2. n \in Nodes /\ cid \in DOMAIN log
  BY <1>1 DEF TypeOK
<1>3. cid \in EventIds
  BY <1>1, <1>2 DEF SyncsOnce, Replay, EventIds, EventIdsOf, SyncIds, SyncIdsOf
<1>4. NodeInv(nd, log) /\ nd.synced = node[n].synced
  BY <1>1, <1>2, <1>3, ReceiveKeepsNodeInv DEF EventIds
<1>5. /\ node' = [node EXCEPT ![n] = nd]
      /\ UNCHANGED <<registered, log, held, halted, acks, call>>
      /\ call # "idle" /\ call # "release"
      /\ todo' \subseteq todo
  BY DEF Replay
<1> HIDE DEF nd
<1>6. TypeOK' /\ \A m \in Nodes : NodeInv(node'[m], log')
  <2>1. halted' \in BOOLEAN /\ acks' \subseteq acks
    BY <1>1, <1>5 DEF TypeOK
  <2> QED
    BY <1>2, <1>4, <1>5, <2>1, OneNodeTypeOK
<1>7. \A m \in Nodes : node'[m].synced = node[m].synced
  BY <1>1, <1>4, <1>5 DEF TypeOK
<1>8. SyncsOnce'
  BY <1>1, <1>5, <1>7 DEF SyncsOnce, SyncIds
<1> QED
  BY <1>5, <1>6, <1>8 DEF Inv

LEMMA ReturnInv == Inv /\ Return => Inv'
<1> SUFFICES ASSUME Inv, Return PROVE Inv'
  OBVIOUS
<1>1. TypeOK' /\ SyncsOnce'
  BY DEF Inv, Return, TypeOK, SyncsOnce, SyncIds
<1> QED
  BY <1>1 DEF Inv, Return

LEMMA EnforceInvariantsInv == Inv /\ EnforceInvariants => Inv'
<1> SUFFICES ASSUME Inv, EnforceInvariants PROVE Inv'
  OBVIOUS
<1>1. TypeOK' /\ SyncsOnce'
  BY DEF Inv, EnforceInvariants, TypeOK, SyncsOnce, SyncIds
<1> QED
  BY <1>1 DEF Inv, EnforceInvariants

LEMMA NextInv == Inv /\ [Next]_vars => Inv'
<1> SUFFICES ASSUME Inv, [Next]_vars PROVE Inv'
  OBVIOUS
<1>1. CASE RegisterNode
  BY <1>1, RegisterNodeInv
<1>2. CASE \E step \in Steps, skipped \in ExcludeSets, delayed \in DelaySets :
             Submit(step, skipped, delayed)
  BY <1>2, SubmitInv
<1>3. CASE \E n \in Nodes : ReleaseHeldEvents(n)
  BY <1>3, ReleaseHeldEventsInv
<1>4. CASE \E d \in todo : DeliverHeld(d[1], d[2])
  <2>1. PICK d \in todo : DeliverHeld(d[1], d[2])
    BY <1>4
  <2>2. <<d[1], d[2]>> \in todo
    BY <2>1 DEF DeliverHeld, IsNext
  <2> QED
    BY <2>1, <2>2, DeliverHeldInv
<1>5. CASE ReconcileAll
  BY <1>5, ReconcileAllInv
<1>6. CASE \E n \in Nodes : ReconcileNode(n)
  BY <1>6, ReconcileNodeInv
<1>7. CASE \E d \in todo : Replay(d[1], d[2])
  <2>1. PICK d \in todo : Replay(d[1], d[2])
    BY <1>7
  <2>2. <<d[1], d[2]>> \in todo
    BY <2>1 DEF Replay, IsNext
  <2> QED
    BY <2>1, <2>2, ReplayInv
<1>8. CASE Return
  BY <1>8, ReturnInv
<1>9. CASE EnforceInvariants
  BY <1>9, EnforceInvariantsInv
<1>10. CASE UNCHANGED vars
  BY <1>10 DEF vars, Inv, TypeOK, SyncsOnce, SyncIds
<1> QED
  BY <1>1, <1>2, <1>3, <1>4, <1>5, <1>6, <1>7, <1>8, <1>9, <1>10 DEF Next
-----------------------------------------------------------------------------
(* The inductive invariant holds of every execution, for any number of      *)
(* nodes and events, any payloads and any adapter.                          *)
THEOREM Invariance == Spec => []Inv
<1>1. Init => Inv
  BY InitInv
<1>2. Inv /\ [Next]_vars => Inv'
  BY NextInv
<1> QED
  BY <1>1, <1>2, PTL DEF Spec

(* The variables have their types in every execution. *)
THEOREM TypeCorrectness == Spec => []TypeOK
<1>1. Inv => TypeOK
  BY DEF Inv
<1> QED
  BY <1>1, Invariance, PTL

(* No node ever applies an event twice. *)
THEOREM NoEventIsAppliedTwice == Spec => []NoDuplicateApplication
<1>1. Inv => NoDuplicateApplication
  BY InvFacts DEF NodeInv, NoDuplicateApplication
<1> QED
  BY <1>1, Invariance, PTL

(* Between two SYNC steps every node applies events in the hub's order and  *)
(* without gaps.                                                            *)
THEOREM EventsAreOrderedWithinEpochs == Spec => []EpochOrder
<1>1. Inv => EpochOrder
  BY InvFacts DEF NodeInv, EpochOrder
<1> QED
  BY <1>1, Invariance, PTL

(* Without a SYNC and payloads that raise, what a node was given is told by *)
(* its committed id alone, and so is the state of its adapter.              *)
THEOREM NodesAgree == Spec => []Agreement
<1>1. Inv => Agreement
  <2> SUFFICES ASSUME Inv, NoSync, NoneRaises,
                      NEW m \in Members, NEW n \in Members,
                      Committed(node[m]) = Committed(node[n])
               PROVE  States[m] = States[n]
    BY DEF Agreement
  <2> DEFINE a == node[m]
             b == node[n]
             E == EventIdsOf(log)
  <2>1. NodeInv(a, log) /\ NodeInv(b, log)
    BY InvFacts
  <2>2. /\ a.next \in Nat /\ b.next \in Nat
        /\ a.applied \in Seq(E) /\ b.applied \in Seq(E)
    BY <2>1, InvFacts, NodeTypeFacts DEF NodeInv
  <2>3. /\ Len(a.applied) = a.next - 1 /\ \A i \in 1 .. Len(a.applied) : a.applied[i] = i
        /\ Len(b.applied) = b.next - 1 /\ \A i \in 1 .. Len(b.applied) : b.applied[i] = i
    BY <2>1 DEF NodeInv, LogIsPrefix, NoSync, SyncIds
  <2>4. a.calls = a.applied /\ b.calls = b.applied
    BY <2>1 DEF NodeInv, CallsAreApplied, NoneRaises, EventIds
  <2>5. a.next = b.next
    BY <2>2 DEF Committed
  <2>6. a.applied = b.applied
    <3>1. Len(a.applied) = Len(b.applied)
      BY <2>3, <2>5
    <3>2. \A i \in 1 .. Len(a.applied) : a.applied[i] = b.applied[i]
      BY <2>3, <3>1
    <3> HIDE DEF a, b, E
    <3> QED
      BY <2>2, <3>1, <3>2, SeqEqual
  <2> QED
    BY <2>4, <2>6 DEF States, AdapterState, CallPayloads
<1> QED
  BY <1>1, Invariance, PTL

(* Once the hub has halted it sequences and releases nothing, and only the  *)
(* reconciliation engine still moves nodes.                                 *)
THEOREM HaltsAreFinal == Spec => HaltIsFinal
<1> DEFINE Final == halted =>
             /\ halted'
             /\ log' = log
             /\ held' = held
             /\ node' # node => call \in {"reconcile_all", "reconcile_node"}
<1>1. Inv /\ [Next]_vars => [Final]_vars
  <2> SUFFICES ASSUME Inv, Next, halted PROVE Final
    OBVIOUS
  <2>1. CASE RegisterNode \/ ReconcileAll \/ Return \/ EnforceInvariants
    BY <2>1 DEF RegisterNode, ReconcileAll, Return, EnforceInvariants
  <2>2. CASE \E step \in Steps, skipped \in ExcludeSets, delayed \in DelaySets :
               Submit(step, skipped, delayed)
    BY <2>2 DEF Submit
  <2>3. CASE \E n \in Nodes : ReleaseHeldEvents(n) \/ ReconcileNode(n)
    BY <2>3 DEF ReleaseHeldEvents, ReconcileNode
  <2>4. CASE \E d \in todo : DeliverHeld(d[1], d[2])
    BY <2>4 DEF DeliverHeld, Inv
  <2>5. CASE \E d \in todo : Replay(d[1], d[2])
    BY <2>5 DEF Replay
  <2> QED
    BY <2>1, <2>2, <2>3, <2>4, <2>5 DEF Next
<1>2. Spec => [][Final]_vars
  BY <1>1, Invariance, PTL DEF Spec
<1> QED
  BY <1>2 DEF HaltIsFinal
-----------------------------------------------------------------------------
(* Without SYNC proposals the hub's log holds payloads only. *)
LEMMA LogOfPayloads ==
  ASSUME SYNC \notin Steps
  PROVE  Spec => [](log \in Seq(Payloads))
<1>1. Init => log \in Seq(Payloads)
  BY DEF Init
<1>2. log \in Seq(Payloads) /\ [Next]_vars => (log \in Seq(Payloads))'
  <2> SUFFICES ASSUME log \in Seq(Payloads), [Next]_vars
               PROVE  log' \in Seq(Payloads)
    OBVIOUS
  <2>1. ASSUME NEW step \in Steps, log' = Append(log, step)
        PROVE  log' \in Seq(Payloads)
    BY <2>1, ProtocolAssumption
  <2>2. log' = log \/ \E step \in Steps : log' = Append(log, step)
    BY DEF Next, vars, RegisterNode, Submit, ReleaseHeldEvents, DeliverHeld,
           ReconcileAll, ReconcileNode, Replay, Return, EnforceInvariants
  <2> QED
    BY <2>1, <2>2
<1> QED
  BY <1>1, <1>2, PTL DEF Spec

LEMMA NodesAdvance ==
  ASSUME Inv, Inv', [Next]_vars, log' \in Seq(Payloads), NEW n \in Nodes
  PROVE  node[n].next <= node'[n].next
<1>1. /\ \A m \in Nodes : NodeInv(node[m], log) /\ NodeInv(node[m], log')
      /\ log \in Seq(Payloads) /\ log' \in Seq(Payloads)
      /\ node[n].next \in Nat
      /\ TypeOK
      /\ log' = log \/ \E step \in Steps : log' = Append(log, step)
  <2>1. log' = log \/ \E step \in Steps : log' = Append(log, step)
    BY DEF Next, vars, RegisterNode, Submit, ReleaseHeldEvents, DeliverHeld,
           ReconcileAll, ReconcileNode, Replay, Return, EnforceInvariants
  <2>2. /\ \A m \in Nodes : NodeInv(node[m], log)
        /\ log \in Seq(Payloads \cup {SYNC}) /\ TypeOK
    BY InvFacts DEF Inv
  <2>3. \A m \in Nodes : NodeInv(node[m], log')
    BY <2>1, <2>2, SequencingKeepsNodeInv, ProtocolAssumption
  <2>4. log \in Seq(Payloads)
    <3>1. CASE log' = log
      BY <3>1
    <3>2. CASE \E step \in Steps : log' = Append(log, step)
      <4>1. PICK step \in Steps : log' = Append(log, step)
        BY <3>2
      <4>2. \A i \in 1 .. Len(log) : log[i] = log'[i] /\ i \in 1 .. Len(log')
        BY <4>1, <2>2
      <4>3. \A i \in 1 .. Len(log) : log[i] \in Payloads
        BY <4>2, ElementOfSeq
      <4> QED
        BY <4>3, <2>2
    <3> QED
      BY <3>1, <3>2, <2>1
  <2>5. node[n].next \in Nat
    BY <2>2, NodeTypeFacts DEF NodeInv
  <2> QED
    BY <2>1, <2>2, <2>3, <2>4, <2>5
<1>2. DOMAIN log = EventIdsOf(log) /\ DOMAIN log' = EventIdsOf(log')
  <2>1. \A s \in Seq(Payloads) : \A i \in DOMAIN s : s[i] # SYNC
    BY SyncIsNoPayload
  <2> QED
    BY <1>1, <2>1 DEF EventIdsOf
<1>3. ASSUME NEW m \in Nodes, NEW cid \in EventIdsOf(log'),
             node'[m] \in {Execute(node[m], cid, log'), Receive(node[m], cid, log')}
      PROVE  node[m].next <= node'[m].next
  BY <1>1, <1>3, ReceiveAdvances DEF Execute, EventIdsOf
<1>4. CASE node' = node
  BY <1>1, <1>4
<1>5. CASE \E step \in Steps, skipped \in ExcludeSets, delayed \in DelaySets :
             Submit(step, skipped, delayed)
  <2>1. PICK step \in Steps, skipped \in ExcludeSets, delayed \in DelaySets :
               Submit(step, skipped, delayed)
    BY <1>5
  <2>2. /\ log' = Append(log, step)
        /\ \/ node'[n] = node[n]
           \/ node'[n] = Execute(node[n], NextCausalId, Append(log, step))
    BY <2>1 DEF Submit
  <2>3. NextCausalId \in EventIdsOf(log')
    BY <1>1, <1>2, <2>2 DEF NextCausalId
  <2> QED
    BY <1>1, <1>3, <2>2, <2>3
<1>6. CASE \E d \in todo : DeliverHeld(d[1], d[2]) \/ Replay(d[1], d[2])
  <2>1. PICK d \in todo : DeliverHeld(d[1], d[2]) \/ Replay(d[1], d[2])
    BY <1>6
  <2>2. d[1] \in Nodes /\ d[2] \in EventIdsOf(log)
    BY <1>1, <1>2 DEF TypeOK
  <2>3. /\ log' = log
        /\ \/ node' = [node EXCEPT ![d[1]] = Execute(node[d[1]], d[2], log)]
           \/ node' = [node EXCEPT ![d[1]] = Receive(node[d[1]], d[2], log)]
    BY <2>1 DEF DeliverHeld, Replay
  <2>4. CASE n = d[1]
    <3>1. node'[n] \in {Execute(node[n], d[2], log'), Receive(node[n], d[2], log')}
      BY <2>3, <2>4, <1>1 DEF TypeOK
    <3> QED
      BY <3>1, <2>2, <2>3, <1>3
  <2>5. CASE n # d[1]
    BY <2>3, <2>5, <1>1 DEF TypeOK
  <2> QED
    BY <2>4, <2>5
<1> QED
  BY <1>4, <1>5, <1>6
  DEF Next, vars, RegisterNode, ReleaseHeldEvents, ReconcileAll,
      ReconcileNode, Return, EnforceInvariants

(* Without SYNC proposals the protocol implements the abstract sequenced    *)
(* log, the nodes' local logs being the copies.                             *)
THEOREM Implementation ==
  ASSUME SYNC \notin Steps
  PROVE  Spec => ImplementsSequencedLog
<1> DEFINE Payload == log \in Seq(Payloads)
           copy == [n \in Nodes |-> LocalLog(node[n], log)]
<1>1. Init => Abstract!Init
  BY DEF Init, Abstract!Init, LocalLog, NewNode
<1>2. Inv /\ Inv' /\ Payload /\ Payload' /\ [Next]_vars
        => [Abstract!Next]_(Abstract!vars)
  <2> SUFFICES ASSUME Inv, Inv', Payload, Payload', [Next]_vars
               PROVE  Abstract!Next
    OBVIOUS
  <2>1. log' = log \/ \E e \in Payloads : log' = Append(log, e)
    <3>1. log' = log \/ \E step \in Steps : log' = Append(log, step)
      BY DEF Next, vars, RegisterNode, Submit, ReleaseHeldEvents, DeliverHeld,
             ReconcileAll, ReconcileNode, Replay, Return, EnforceInvariants
    <3> QED
      BY <3>1, ProtocolAssumption
  <2>2. ASSUME NEW n \in Nodes
        PROVE  Abstract!Copies(n)
    <3> DEFINE old == LocalLog(node[n], log)
               new == LocalLog(node'[n], log')
    <3>1. NodeInv(node[n], log) /\ NodeInv(node'[n], log')
      BY DEF Inv
    <3>2. /\ node[n].next - 1 \in 0 .. Len(log)
          /\ Len(old) = node[n].next - 1
          /\ \A i \in 1 .. (node[n].next - 1) : old[i] = log[i]
      BY <3>1, SyncIsNoPayload, LocalLogIsPrefix
    <3>3. /\ new \in Seq(Payloads)
          /\ node'[n].next - 1 \in 0 .. Len(log')
          /\ Len(new) = node'[n].next - 1
          /\ \A i \in 1 .. (node'[n].next - 1) : new[i] = log'[i]
      BY <3>1, SyncIsNoPayload, LocalLogIsPrefix
    <3>4. node[n].next <= node'[n].next
      BY NodesAdvance
    <3>5. \A i \in 1 .. Len(log) : log'[i] = log[i]
      BY <2>1
    <3>6. /\ node[n].next \in Nat /\ node'[n].next \in Nat /\ Len(log) \in Nat
      BY <3>1, NodeTypeFacts DEF NodeInv
    <3>7. copy[n] = old /\ copy'[n] = new
      OBVIOUS
    <3> HIDE DEF old, new
    <3>8. Abstract!IsPrefixOf(old, new)
      <4>1. Len(old) <= Len(new)
        BY <3>2, <3>3, <3>4, <3>6
      <4>2. ASSUME NEW i \in 1 .. Len(old) PROVE old[i] = new[i]
        <5>1. i \in 1 .. (node[n].next - 1) /\ i \in 1 .. Len(log)
          BY <3>2, <3>6, <4>2
        <5>2. i \in 1 .. (node'[n].next - 1)
          BY <3>4, <3>6, <5>1
        <5> QED BY <3>2, <3>3, <3>5, <5>1, <5>2
      <4> QED BY <4>1, <4>2 DEF Abstract!IsPrefixOf
    <3>9. Abstract!IsPrefixOf(new, log')
      BY <3>3 DEF Abstract!IsPrefixOf
    <3> QED
      BY <3>3, <3>7, <3>8, <3>9 DEF Abstract!Copies
  <2> QED
    BY <2>1, <2>2 DEF Abstract!Next
<1>3. Spec => []Inv
  BY Invariance
<1>4. Spec => []Payload
  BY LogOfPayloads
<1>5. Spec => Abstract!Spec
  BY <1>1, <1>2, <1>3, <1>4, PTL DEF Spec, Abstract!Spec
<1> QED
  BY <1>5 DEF ImplementsSequencedLog
-----------------------------------------------------------------------------
(* Without SYNC steps every event of the log is one that nodes apply. *)
LEMMA NoSyncFacts ==
  ASSUME Inv, NoSync
  PROVE  /\ log \in Seq(Payloads \cup {SYNC})
         /\ Len(log) \in Nat /\ DOMAIN log = 1 .. Len(log)
         /\ EventIds = DOMAIN log
         /\ \A n \in Nodes : /\ NodeInv(node[n], log)
                             /\ node[n].next \in 1 .. (Len(log) + 1)
                             /\ Ids(node[n].applied) = 1 .. (node[n].next - 1)
<1>1. /\ log \in Seq(Payloads \cup {SYNC})
      /\ Len(log) \in Nat /\ DOMAIN log = 1 .. Len(log)
      /\ \A n \in Nodes : NodeInv(node[n], log)
  BY InvFacts
<1>2. EventIds = DOMAIN log
  BY DEF NoSync, SyncIds, SyncIdsOf, EventIds, EventIdsOf
<1>3. ASSUME NEW n \in Nodes
      PROVE  /\ node[n].next \in 1 .. (Len(log) + 1)
             /\ Ids(node[n].applied) = 1 .. (node[n].next - 1)
  <2>1. /\ node[n].next \in 1 .. (Len(log) + 1)
        /\ DOMAIN node[n].applied = 1 .. Len(node[n].applied)
    BY <1>1, NodeTypeFacts DEF NodeInv
  <2>2. /\ Len(node[n].applied) = node[n].next - 1
        /\ \A i \in 1 .. Len(node[n].applied) : node[n].applied[i] = i
    BY <1>1 DEF NodeInv, LogIsPrefix, NoSync, SyncIds
  <2> QED
    BY <2>1, <2>2 DEF Ids
<1> QED
  BY <1>1, <1>2, <1>3

LEMMA LogGrows ==
  ASSUME [Next]_vars
  PROVE  log' = log \/ \E step \in Steps : log' = Append(log, step)
BY DEF Next, vars, RegisterNode, Submit, ReleaseHeldEvents, DeliverHeld,
       ReconcileAll, ReconcileNode, Replay, Return, EnforceInvariants

(* A SYNC stays in the log. *)
LEMMA NoSyncBefore ==
  ASSUME Inv, [Next]_vars, NoSync'
  PROVE  /\ NoSync
         /\ \A n \in Nodes : NodeInv(node[n], log')
         /\ DOMAIN log \subseteq DOMAIN log'
         /\ \A k \in DOMAIN log' : log'[k] # SYNC
<1>1. /\ log \in Seq(Payloads \cup {SYNC}) /\ DOMAIN log = 1 .. Len(log)
      /\ Len(log) \in Nat /\ \A n \in Nodes : NodeInv(node[n], log)
  BY InvFacts
<1>2. \A k \in DOMAIN log' : log'[k] # SYNC
  BY DEF NoSync, SyncIds, SyncIdsOf
<1>3. CASE log' = log
  BY <1>1, <1>2, <1>3 DEF NoSync, SyncIds, SyncIdsOf
<1>4. CASE \E step \in Steps : log' = Append(log, step)
  <2>1. PICK step \in Steps : log' = Append(log, step)
    BY <1>4
  <2>2. step \in Payloads \cup {SYNC}
    BY ProtocolAssumption
  <2>3. \A n \in Nodes : NodeInv(node[n], log')
    BY <1>1, <2>1, <2>2, SequencingKeepsNodeInv
  <2>4. \A k \in DOMAIN log : k \in DOMAIN log' /\ log'[k] = log[k]
    BY <1>1, <2>1, <2>2
  <2> QED
    BY <1>2, <2>3, <2>4 DEF NoSync, SyncIds, SyncIdsOf
<1> QED
  BY <1>3, <1>4, LogGrows

(* Without SYNC steps, all that happens to a node is that it receives       *)
(* events.                                                                  *)
LEMMA NodesReceive ==
  ASSUME Inv, [Next]_vars, NoSync', NEW n \in Nodes
  PROVE  \/ node'[n] = node[n]
         \/ \E cid \in EventIds' : node'[n] = Receive(node[n], cid, log')
<1>1. /\ TypeOK /\ DOMAIN log = 1 .. Len(log) /\ Len(log) \in Nat
      /\ log \in Seq(Payloads \cup {SYNC}) /\ DOMAIN node = Nodes
  BY InvFacts DEF Inv
<1>2. EventIds' = DOMAIN log' /\ \A k \in DOMAIN log' : log'[k] # SYNC
  BY NoSyncBefore DEF EventIds, EventIdsOf
<1>3. CASE node' = node
  BY <1>3
<1>4. CASE \E step \in Steps, skipped \in ExcludeSets, delayed \in DelaySets :
             Submit(step, skipped, delayed)
  <2>1. PICK step \in Steps, skipped \in ExcludeSets, delayed \in DelaySets :
               Submit(step, skipped, delayed)
    BY <1>4
  <2>2. /\ log' = Append(log, step)
        /\ \/ node'[n] = node[n]
           \/ node'[n] = Execute(node[n], NextCausalId, log')
    BY <2>1 DEF Submit
  <2>3. NextCausalId \in DOMAIN log'
    BY <1>1, <2>2, ProtocolAssumption DEF NextCausalId
  <2> QED
    BY <1>2, <2>2, <2>3 DEF Execute
<1>5. CASE \E d \in todo : DeliverHeld(d[1], d[2]) \/ Replay(d[1], d[2])
  <2>1. PICK d \in todo : DeliverHeld(d[1], d[2]) \/ Replay(d[1], d[2])
    BY <1>5
  <2>2. d[1] \in Nodes /\ d[2] \in DOMAIN log
    BY <1>1 DEF TypeOK
  <2>3. log' = log
    BY <2>1 DEF DeliverHeld, Replay
  <2>4. node' = [node EXCEPT ![d[1]] = Receive(node[d[1]], d[2], log)]
    BY <2>1, <2>2, <2>3, <1>2 DEF DeliverHeld, Replay, Execute
  <2>5. CASE n = d[1]
    <3>1. node'[n] = Receive(node[n], d[2], log')
      BY <1>1, <2>3, <2>4, <2>5
    <3> QED
      BY <3>1, <2>2, <2>3, <1>2
  <2>6. CASE n # d[1]
    BY <1>1, <2>4, <2>6
  <2> QED
    BY <2>5, <2>6
<1> QED
  BY <1>3, <1>4, <1>5
  DEF Next, vars, RegisterNode, ReleaseHeldEvents, ReconcileAll,
      ReconcileNode, Return, EnforceInvariants

(* As BufferFlushes, of all the nodes. *)
Flushed == NoSync => \A n \in Nodes : node[n].next \notin node[n].buffer

LEMMA FlushedInvariance == Spec => []Flushed
<1>1. Init => Flushed
  BY DEF Init, Flushed, NewNode
<1>2. Inv /\ Flushed /\ [Next]_vars => Flushed'
  <2> SUFFICES ASSUME Inv, Flushed, [Next]_vars, NoSync', NEW n \in Nodes
               PROVE  node'[n].next \notin node'[n].buffer
    BY DEF Flushed
  <2>1. /\ node[n].next \notin node[n].buffer
        /\ NodeInv(node[n], log') /\ log' \in Seq(Payloads \cup {SYNC})
    <3>1. log \in Seq(Payloads \cup {SYNC})
      BY InvFacts
    <3>2. log' \in Seq(Payloads \cup {SYNC})
      BY <3>1, LogGrows, ProtocolAssumption
    <3> QED
      BY <3>2, NoSyncBefore DEF Flushed
  <2>2. CASE node'[n] = node[n]
    BY <2>1, <2>2
  <2>3. CASE \E cid \in EventIds' : node'[n] = Receive(node[n], cid, log')
    <3>1. PICK cid \in EventIdsOf(log') : node'[n] = Receive(node[n], cid, log')
      BY <2>3 DEF EventIds
    <3> QED
      BY <3>1, <2>1, ReceiveEffect
  <2> QED
    BY <2>2, <2>3, NodesReceive
<1> QED
  BY <1>1, <1>2, Invariance, PTL DEF Spec

(* Without a SYNC no node ever rests with the next event in its buffer.     *)
THEOREM BuffersFlush == Spec => []BufferFlushes
<1>1. Inv /\ Flushed => BufferFlushes
  BY InvFacts DEF Flushed, BufferFlushes
<1> QED
  BY <1>1, Invariance, FlushedInvariance, PTL
-----------------------------------------------------------------------------
(* Where an event that was not skipped is to be found: the delivery of a    *)
(* release in progress counts, a replay does not.                           *)
Somewhere(n, k) ==
  \/ k \in Seen(node[n]) \cup held[n]
  \/ call = "release" /\ <<n, k>> \in todo

KeptInv ==
  /\ InitialNodes <= registered
  /\ NoSync /\ ~halted => \A n \in 1 .. InitialNodes : \A k \in EventIds : Somewhere(n, k)

LEMMA SeenGrows ==
  ASSUME Inv, [Next]_vars, NoSync', NEW n \in Nodes
  PROVE  Seen(node[n]) \subseteq Seen(node'[n])
<1>1. NodeInv(node[n], log') /\ log' \in Seq(Payloads \cup {SYNC})
  <2>1. log \in Seq(Payloads \cup {SYNC})
    BY InvFacts
  <2>2. log' \in Seq(Payloads \cup {SYNC})
    BY <2>1, LogGrows, ProtocolAssumption
  <2> QED
    BY <2>2, NoSyncBefore
<1>2. CASE \E cid \in EventIds' : node'[n] = Receive(node[n], cid, log')
  <2>1. PICK cid \in EventIdsOf(log') : node'[n] = Receive(node[n], cid, log')
    BY <1>2 DEF EventIds
  <2> QED
    BY <2>1, <1>1, ReceiveKeepsSeen
<1> QED
  BY <1>2, NodesReceive

LEMMA SubmitKeeps ==
  ASSUME Inv, KeptInv, ExcludeSets \subseteq {{}}, NEW step \in Steps,
         NEW skipped \in ExcludeSets, NEW delayed \in DelaySets,
         Submit(step, skipped, delayed), NoSync',
         NEW n \in 1 .. InitialNodes, NEW k \in EventIds'
  PROVE  Somewhere(n, k)'
<1> DEFINE lg == Append(log, step)
           cid == NextCausalId
<1>1. /\ call = "idle" /\ ~halted /\ log' = lg /\ skipped = {}
      /\ \A m \in Nodes : held[m] \subseteq held'[m]
      /\ [Next]_vars
  <2>1. [Next]_vars
    BY DEF Next
  <2>2. call = "idle" /\ ~halted /\ log' = lg
    BY DEF Submit
  <2>3. \A m \in Nodes : held[m] \subseteq held'[m]
    BY DEF Submit
  <2> QED
    BY <2>1, <2>2, <2>3
<1>2. /\ n \in Nodes /\ n \in Members
  BY ProtocolAssumption DEF Nodes, Members, KeptInv, Inv, TypeOK
<1>3. NoSync /\ NodeInv(node[n], lg) /\ lg[cid] # SYNC /\ lg \in Seq(Payloads \cup {SYNC})
  <2>1. log \in Seq(Payloads \cup {SYNC}) /\ cid \in DOMAIN lg /\ lg \in Seq(Payloads \cup {SYNC})
    BY InvFacts, ProtocolAssumption DEF NextCausalId
  <2> QED
    BY <1>1, <1>2, <2>1, NoSyncBefore
<1>4. /\ DOMAIN log = 1 .. Len(log) /\ Len(log) \in Nat
      /\ cid = Len(log) + 1 /\ EventIds' = 1 .. (Len(log) + 1)
      /\ EventIds = 1 .. Len(log) /\ node[n].next \in 1 .. (Len(log) + 1)
  <2>1. /\ DOMAIN log = 1 .. Len(log) /\ Len(log) \in Nat /\ EventIds = DOMAIN log
        /\ node[n].next \in 1 .. (Len(log) + 1) /\ log \in Seq(Payloads \cup {SYNC})
    BY <1>2, <1>3, NoSyncFacts
  <2>2. DOMAIN lg = 1 .. (Len(log) + 1)
    BY <2>1, ProtocolAssumption
  <2>3. EventIds' = DOMAIN lg
    BY <1>1, NoSyncBefore DEF EventIds, EventIdsOf
  <2> QED
    BY <2>1, <2>2, <2>3 DEF NextCausalId
<1>5. CASE k # cid
  <2>1. k \in EventIds
    BY <1>4, <1>5
  <2>2. Somewhere(n, k)
    BY <1>1, <1>3, <2>1 DEF KeptInv
  <2>3. Seen(node[n]) \subseteq Seen(node'[n])
    BY <1>1, <1>2, SeenGrows
  <2> QED
    BY <1>1, <1>2, <2>2, <2>3 DEF Somewhere
<1>6. CASE k = cid /\ n \in delayed
  <2>1. held'[n] = held[n] \cup {cid}
    BY <1>1, <1>2, <1>6 DEF Submit
  <2> QED
    BY <1>6, <2>1 DEF Somewhere
<1>7. CASE k = cid /\ n \notin delayed
  <2>1. node'[n] = Execute(node[n], cid, lg)
    BY <1>1, <1>2, <1>7 DEF Submit
  <2>2. node'[n] = Receive(node[n], cid, lg)
    BY <2>1, <1>3 DEF Execute
  <2>3. cid \in EventIdsOf(lg) /\ cid >= node[n].next
    BY <1>4, <1>1 DEF EventIds
  <2>4. cid \in Seen(node'[n])
    BY <1>3, <2>2, <2>3, ReceiveKeepsSeen
  <2> QED
    BY <1>7, <2>4 DEF Somewhere
<1> QED
  BY <1>5, <1>6, <1>7

LEMMA DeliverHeldKeeps ==
  ASSUME Inv, KeptInv, NEW d \in todo, DeliverHeld(d[1], d[2]),
         NoSync', ~halted',
         NEW n \in 1 .. InitialNodes, NEW k \in EventIds'
  PROVE  Somewhere(n, k)'
<1>1. /\ call = "release" /\ call' = call /\ log' = log /\ held' = held
      /\ ~halted /\ todo' \in {{}, todo \ {<<d[1], d[2]>>}}
      /\ todo' = todo \ {<<d[1], d[2]>>}
      /\ node' = [node EXCEPT ![d[1]] = Execute(@, d[2], log)]
      /\ [Next]_vars
  <2>1. [Next]_vars
    BY DEF Next
  <2>2. /\ call = "release" /\ call' = call /\ log' = log /\ held' = held
        /\ node' = [node EXCEPT ![d[1]] = Execute(@, d[2], log)]
    BY DEF DeliverHeld
  <2>3. ~halted /\ todo' = todo \ {<<d[1], d[2]>>}
    BY DEF DeliverHeld
  <2> QED
    BY <2>1, <2>2, <2>3
<1>2. n \in Nodes /\ DOMAIN node = Nodes
  BY ProtocolAssumption, InvFacts DEF Nodes
<1>3. NoSync /\ k \in EventIds
  BY <1>1, NoSyncBefore DEF EventIds
<1>4. Somewhere(n, k)
  BY <1>1, <1>3 DEF KeptInv
<1>5. Seen(node[n]) \subseteq Seen(node'[n])
  BY <1>1, <1>2, SeenGrows
<1>6. CASE <<n, k>> # <<d[1], d[2]>>
  BY <1>1, <1>4, <1>5, <1>6 DEF Somewhere
<1>7. CASE <<n, k>> = <<d[1], d[2]>>
  <2>1. n = d[1] /\ k = d[2]
    BY <1>7
  <2>2. k \in DOMAIN log /\ log[k] # SYNC
    BY <1>3 DEF EventIds, EventIdsOf
  <2>3. node'[n] = Receive(node[n], k, log)
    BY <1>1, <1>2, <2>1, <2>2 DEF Execute
  <2>4. /\ log \in Seq(Payloads \cup {SYNC}) /\ NodeInv(node[n], log)
        /\ node[n].next \in 1 .. (Len(log) + 1) /\ k \in 1 .. Len(log)
        /\ Ids(node[n].applied) = 1 .. (node[n].next - 1) /\ Len(log) \in Nat
    BY <1>2, <1>3, <2>2, NoSyncFacts
  <2>5. CASE k >= node[n].next
    <3>1. k \in Seen(node'[n])
      BY <2>3, <2>4, <2>5, <1>3, ReceiveKeepsSeen DEF EventIds
    <3> QED
      BY <3>1 DEF Somewhere
  <2>6. CASE k < node[n].next
    <3>1. k \in Seen(node[n])
      BY <2>4, <2>6 DEF Seen
    <3> QED
      BY <3>1, <1>5 DEF Somewhere
  <2> QED
    BY <2>4, <2>5, <2>6
<1> QED
  BY <1>6, <1>7

LEMMA KeptInvariance ==
  ASSUME ExcludeSets \subseteq {{}}
  PROVE  Spec => []KeptInv
<1>1. Init => KeptInv
  <2> SUFFICES ASSUME Init PROVE KeptInv
    OBVIOUS
  <2>1. EventIds = {} /\ registered = InitialNodes /\ InitialNodes \in Nat
    BY ProtocolAssumption DEF Init, EventIds, EventIdsOf, Nodes
  <2> QED
    BY <2>1 DEF KeptInv
<1>2. Inv /\ KeptInv /\ [Next]_vars => KeptInv'
  <2> SUFFICES ASSUME Inv, KeptInv, [Next]_vars PROVE KeptInv'
    OBVIOUS
  <2>1. InitialNodes <= registered'
    <3>1. registered' = registered \/ registered' = registered + 1
      BY DEF Next, vars, RegisterNode, Submit, ReleaseHeldEvents, DeliverHeld,
             ReconcileAll, ReconcileNode, Replay, Return, EnforceInvariants
    <3>2. registered \in Nat /\ InitialNodes \in Nat
      BY ProtocolAssumption DEF Inv, TypeOK, Nodes
    <3> QED
      BY <3>1, <3>2 DEF KeptInv
  <2>2. SUFFICES ASSUME NoSync', ~halted',
                        NEW n \in 1 .. InitialNodes, NEW k \in EventIds'
                 PROVE  Somewhere(n, k)'
    BY <2>1, <2>2 DEF KeptInv
  <2>3. n \in Nodes
    BY ProtocolAssumption DEF Nodes
  <2>4. NoSync /\ Seen(node[n]) \subseteq Seen(node'[n])
    BY <2>2, <2>3, NoSyncBefore, SeenGrows
  <2>5. ASSUME log' = log, ~halted
        PROVE  Somewhere(n, k)
    BY <2>2, <2>4, <2>5 DEF KeptInv, EventIds
  <2>6. CASE RegisterNode \/ ReconcileAll \/ Return \/ UNCHANGED vars
    <3>1. log' = log /\ ~halted /\ held' = held /\ (call = "release" => todo = {} \/ (call' = call /\ todo' = todo))
      BY <2>2, <2>6 DEF RegisterNode, ReconcileAll, Return, vars
    <3> QED
      BY <3>1, <2>4, <2>5 DEF Somewhere
  <2>7. CASE EnforceInvariants
    BY <2>2, <2>7 DEF EnforceInvariants
  <2>8. CASE \E m \in Nodes : ReconcileNode(m)
    <3>1. log' = log /\ ~halted /\ held' = held /\ call = "idle"
      BY <2>2, <2>8 DEF ReconcileNode
    <3> QED
      BY <3>1, <2>4, <2>5 DEF Somewhere
  <2>9. CASE \E m \in Nodes : ReleaseHeldEvents(m)
    <3>1. PICK m \in Nodes : ReleaseHeldEvents(m)
      BY <2>9
    <3>2. /\ log' = log /\ ~halted /\ call = "idle" /\ call' = "release"
          /\ todo' = {m} \X held[m] /\ held' = [held EXCEPT ![m] = {}]
      BY <3>1 DEF ReleaseHeldEvents
    <3>3. Somewhere(n, k)
      BY <2>5, <3>2
    <3>4. n # m => held'[n] = held[n]
      BY <2>3, <3>2 DEF Inv, TypeOK
    <3> QED
      BY <2>4, <3>2, <3>3, <3>4 DEF Somewhere
  <2>10. CASE \E d \in todo : Replay(d[1], d[2])
    <3>1. log' = log /\ ~halted /\ held' = held /\ call # "release"
      BY <2>2, <2>10 DEF Replay
    <3> QED
      BY <3>1, <2>4, <2>5 DEF Somewhere
  <2>11. CASE \E d \in todo : DeliverHeld(d[1], d[2])
    BY <2>2, <2>11, DeliverHeldKeeps
  <2>12. CASE \E step \in Steps, skipped \in ExcludeSets, delayed \in DelaySets :
               Submit(step, skipped, delayed)
    BY <2>2, <2>12, SubmitKeeps
  <2> QED
    BY <2>6, <2>7, <2>8, <2>9, <2>10, <2>11, <2>12 DEF Next
<1> QED
  BY <1>1, <1>2, Invariance, PTL DEF Spec

(* When no delivery is skipped and no SYNC is sequenced, a hub that is not  *)
(* halted loses no event: whatever is delayed, released, replayed or        *)
(* rejected, every event is known to each node or waits for it.             *)
THEOREM NoEventIsLost ==
  ASSUME ExcludeSets \subseteq {{}}
  PROVE  Spec => []NothingLost
<1>1. Inv /\ KeptInv => NothingLost
  BY DEF KeptInv, NothingLost, Somewhere, Seen, Applied
<1> QED
  BY <1>1, Invariance, KeptInvariance, PTL
-----------------------------------------------------------------------------
(* What an acknowledgement of the type t says of the event cid. *)
AckHolds(nd, cid, t) ==
  /\ t = "APPLIED" => cid \in Ids(nd.applied)
  /\ t = "BUFFERED" => cid \in Ids(nd.applied) \cup nd.buffer

(* The answers of the call in progress hold, and a release has still to     *)
(* deliver later events only.                                               *)
AckInv ==
  /\ call \in {"reconcile_all", "reconcile_node"} => acks = {}
  /\ NoSync =>
       \A a \in acks :
         /\ AckHolds(node[a.node], a.cid, a.type)
         /\ call = "release" => \A d \in todo : d[1] = a.node => a.cid < d[2]

(* The answer to a delivery holds after it. *)
LEMMA NewAckHolds ==
  ASSUME NEW Step, NEW lg \in Seq(Step), NEW nd, NodeInv(nd, lg),
         SyncIdsOf(lg) = {}, nd.next \notin nd.buffer, NEW cid \in DOMAIN lg
  PROVE  AckHolds(Receive(nd, cid, lg), cid, AckType(nd, cid, lg))
<1> DEFINE new == Receive(nd, cid, lg)
<1>1. /\ cid \in EventIdsOf(lg) /\ lg[cid] # SYNC /\ cid \in Nat
      /\ Len(lg) \in Nat /\ nd.next \in 1 .. (Len(lg) + 1)
  <2>1. /\ Len(lg) \in Nat /\ DOMAIN lg = 1 .. Len(lg)
        /\ nd.next \in 1 .. (Len(lg) + 1)
    BY NodeTypeFacts DEF NodeInv
  <2> QED
    BY <2>1 DEF EventIdsOf, SyncIdsOf
<1>2. /\ new.next \in nd.next .. (Len(lg) + 1)
      /\ cid < nd.next => new = nd
      /\ cid > nd.next => new.next = nd.next /\ new.buffer = nd.buffer \cup {cid}
      /\ cid = nd.next /\ ~ReceiveRaises(nd, cid, lg) => nd.next < new.next
  BY <1>1, ReceiveEffect
<1>3. Ids(new.applied) = 1 .. (new.next - 1)
  <2>1. NodeInv(new, lg)
    BY <1>1, ReceiveKeepsNodeInv
  <2>2. /\ DOMAIN new.applied = 1 .. Len(new.applied)
        /\ Len(new.applied) = new.next - 1
        /\ \A i \in 1 .. Len(new.applied) : new.applied[i] = i
    BY <2>1, NodeTypeFacts DEF NodeInv, LogIsPrefix
  <2> HIDE DEF new
  <2> QED
    BY <2>2 DEF Ids
<1> HIDE DEF new
<1>4. CASE ReceiveRaises(nd, cid, lg)
  BY <1>1, <1>4 DEF AckType, AckHolds
<1>5. CASE ~ReceiveRaises(nd, cid, lg) /\ new.next > nd.next
  <2>1. cid = nd.next
    BY <1>1, <1>2, <1>5
  <2>2. cid \in Ids(new.applied)
    BY <2>1, <1>1, <1>2, <1>3, <1>5
  <2> QED
    BY <2>2 DEF AckHolds, new
<1>6. CASE ~ReceiveRaises(nd, cid, lg) /\ ~(new.next > nd.next)
  <2>1. AckType(nd, cid, lg) = "BUFFERED"
    BY <1>1, <1>6 DEF AckType, new
  <2>2. cid \in Ids(new.applied) \cup new.buffer
    BY <1>1, <1>2, <1>3, <1>6
  <2> QED
    BY <2>1, <2>2 DEF AckHolds, new
<1> QED
  BY <1>4, <1>5, <1>6

(* An answer goes on to hold when the node receives a later event. *)
LEMMA OldAckHolds ==
  ASSUME NEW Step, NEW lg \in Seq(Step), NEW nd, NodeInv(nd, lg),
         SyncIdsOf(lg) = {}, nd.next \notin nd.buffer, NEW cid \in DOMAIN lg,
         NEW k \in Nat, k < cid, NEW t, AckHolds(nd, k, t)
  PROVE  AckHolds(Receive(nd, cid, lg), k, t)
<1> DEFINE new == Receive(nd, cid, lg)
<1>1. /\ cid \in EventIdsOf(lg) /\ cid \in Nat
      /\ Len(lg) \in Nat /\ nd.next \in 1 .. (Len(lg) + 1)
  <2>1. /\ Len(lg) \in Nat /\ DOMAIN lg = 1 .. Len(lg)
        /\ nd.next \in 1 .. (Len(lg) + 1)
    BY NodeTypeFacts DEF NodeInv
  <2> QED
    BY <2>1 DEF EventIdsOf, SyncIdsOf
<1>2. /\ new.next \in nd.next .. (Len(lg) + 1)
      /\ cid < nd.next => new = nd
      /\ cid > nd.next => new.next = nd.next /\ new.buffer = nd.buffer \cup {cid}
  BY <1>1, ReceiveEffect
<1>3. /\ Ids(new.applied) = 1 .. (new.next - 1)
      /\ Ids(nd.applied) = 1 .. (nd.next - 1)
  <2>1. NodeInv(new, lg)
    BY <1>1, ReceiveKeepsNodeInv
  <2>2. ASSUME NEW x, NodeInv(x, lg) PROVE Ids(x.applied) = 1 .. (x.next - 1)
    <3>1. /\ DOMAIN x.applied = 1 .. Len(x.applied)
          /\ Len(x.applied) = x.next - 1
          /\ \A i \in 1 .. Len(x.applied) : x.applied[i] = i
      BY <2>2, NodeTypeFacts DEF NodeInv, LogIsPrefix
    <3> QED
      BY <3>1 DEF Ids
  <2> QED
    BY <2>1, <2>2
<1> HIDE DEF new
<1>4. Ids(nd.applied) \subseteq Ids(new.applied)
  BY <1>1, <1>2, <1>3
<1>5. CASE k \in Ids(nd.applied)
  BY <1>4, <1>5 DEF AckHolds, new
<1>6. CASE k \in nd.buffer /\ k \notin Ids(nd.applied)
  <2>1. k = 0 \/ k > nd.next
    BY <1>1, <1>3, <1>6
  <2>2. k # 0
    <3>1. nd.buffer \subseteq EventIdsOf(lg) /\ EventIdsOf(lg) \subseteq 1 .. Len(lg)
      BY NodeTypeFacts DEF NodeInv
    <3> QED
      BY <3>1, <1>1, <1>6
  <2>3. new.buffer = nd.buffer \cup {cid}
    BY <2>1, <2>2, <1>1, <1>2
  <2> QED
    BY <2>3, <1>6 DEF AckHolds, new
<1>7. CASE k \notin nd.buffer \cup Ids(nd.applied)
  BY <1>7 DEF AckHolds
<1> QED
  BY <1>5, <1>6, <1>7

LEMMA SubmitAcks ==
  ASSUME Inv, Flushed, NEW step \in Steps, NEW skipped \in ExcludeSets,
         NEW delayed \in DelaySets, Submit(step, skipped, delayed),
         NoSync', NEW a \in acks'
  PROVE  AckHolds(node'[a.node], a.cid, a.type)
<1> DEFINE lg == Append(log, step)
           cid == NextCausalId
           reached == Members \ (skipped \cup delayed)
<1>1. PICK n \in reached : a = Ack(n, cid, AckType(node[n], cid, lg))
  BY DEF Submit
<1>2. n \in Nodes /\ log' = lg /\ node'[n] = Execute(node[n], cid, lg) /\ [Next]_vars
  <2>1. n \in Nodes
    BY InvFacts
  <2>2. log' = lg /\ node'[n] = Execute(node[n], cid, lg)
    BY <2>1 DEF Submit
  <2> QED
    BY <2>1, <2>2 DEF Next
<1>3. /\ a.node = n /\ a.cid = cid /\ a.type = AckType(node[n], cid, lg)
  BY <1>1 DEF Ack
<1>4. /\ lg \in Seq(Payloads \cup {SYNC}) /\ cid \in DOMAIN lg
  BY InvFacts, ProtocolAssumption DEF NextCausalId
<1>5. /\ NodeInv(node[n], lg) /\ SyncIdsOf(lg) = {} /\ lg[cid] # SYNC
      /\ node[n].next \notin node[n].buffer
  BY <1>2, <1>4, NoSyncBefore DEF Flushed, NoSync, SyncIds
<1>6. node'[n] = Receive(node[n], cid, lg)
  BY <1>2, <1>5 DEF Execute
<1> HIDE DEF lg, cid, reached
<1> QED
  BY <1>3, <1>4, <1>5, <1>6, NewAckHolds

LEMMA DeliverHeldAcks ==
  ASSUME Inv, Flushed, AckInv, NEW d \in todo, DeliverHeld(d[1], d[2]),
         NoSync', NEW a \in acks'
  PROVE  /\ AckHolds(node'[a.node], a.cid, a.type)
         /\ \A e \in todo' : e[1] = a.node => a.cid < e[2]
<1> DEFINE n == d[1]
           cid == d[2]
<1>1. /\ call = "release" /\ log' = log /\ [Next]_vars
      /\ IsNext(<<n, cid>>) /\ todo' \subseteq todo \ {<<n, cid>>}
      /\ node' = [node EXCEPT ![n] = Execute(@, cid, log)]
      /\ acks' = acks \cup {Ack(n, cid, AckType(node[n], cid, log))}
  <2>1. [Next]_vars
    BY DEF Next
  <2>2. todo' \subseteq todo \ {<<n, cid>>}
    BY DEF DeliverHeld
  <2> QED
    BY <2>1, <2>2 DEF DeliverHeld
<1>2. /\ TypeOK /\ todo \subseteq Nodes \X DOMAIN log
      /\ log \in Seq(Payloads \cup {SYNC}) /\ DOMAIN log = 1 .. Len(log)
      /\ Len(log) \in Nat /\ DOMAIN node = Nodes
  BY InvFacts DEF Inv, TypeOK
<1>3. n \in Nodes /\ cid \in DOMAIN log
  BY <1>2
<1>4. /\ NoSync /\ SyncIdsOf(log) = {} /\ log[cid] # SYNC /\ NodeInv(node[n], log)
      /\ node[n].next \notin node[n].buffer
  BY <1>1, <1>3, NoSyncBefore DEF Flushed, NoSync, SyncIds
<1>5. node' = [node EXCEPT ![n] = Receive(node[n], cid, log)]
  BY <1>1, <1>4 DEF Execute
<1> HIDE DEF n, cid
<1>6. CASE a \in acks
  <2>1. /\ a.node \in Nodes /\ a.cid \in DOMAIN log
        /\ AckHolds(node[a.node], a.cid, a.type)
        /\ \A e \in todo : e[1] = a.node => a.cid < e[2]
    BY <1>1, <1>2, <1>4, <1>6 DEF TypeOK, AckInv
  <2>2. CASE a.node = n
    <3>1. a.cid < cid
      BY <2>1, <2>2 DEF n, cid
    <3>2. AckHolds(Receive(node[n], cid, log), a.cid, a.type)
      <4>1. a.cid \in Nat
        BY <1>2, <2>1
      <4> QED
        BY <1>2, <1>3, <1>4, <2>1, <2>2, <3>1, <4>1, OldAckHolds
    <3> QED
      BY <1>1, <1>2, <1>3, <1>5, <2>1, <2>2, <3>2
  <2>3. CASE a.node # n
    BY <1>1, <1>2, <1>5, <2>1, <2>3
  <2> QED
    BY <2>2, <2>3
<1>7. CASE a = Ack(n, cid, AckType(node[n], cid, log))
  <2>1. a.node = n /\ a.cid = cid /\ a.type = AckType(node[n], cid, log)
    BY <1>7 DEF Ack
  <2>2. AckHolds(node'[n], cid, AckType(node[n], cid, log))
    BY <1>2, <1>3, <1>4, <1>5, NewAckHolds
  <2>3. ASSUME NEW e \in todo', e[1] = n PROVE cid < e[2]
    <3>1. e \in todo /\ e # <<n, cid>>
      BY <1>1
    <3>2. e \in Nodes \X DOMAIN log /\ e = <<e[1], e[2]>>
      BY <3>1, <1>2
    <3>3. e[2] # cid
      BY <3>1, <3>2, <2>3
    <3>4. n < e[1] \/ cid <= e[2]
      BY <3>1, <1>1 DEF IsNext
    <3>5. ~(n < n)
      BY <1>3 DEF Nodes
    <3> QED
      BY <3>2, <3>3, <3>4, <3>5, <2>3, <1>2, <1>3
  <2> QED
    BY <2>1, <2>2, <2>3
<1> QED
  BY <1>1, <1>6, <1>7

LEMMA AckInvariance == Spec => []AckInv
<1>1. Init => AckInv
  BY DEF Init, AckInv
<1>2. Inv /\ Flushed /\ AckInv /\ [Next]_vars => AckInv'
  <2> SUFFICES ASSUME Inv, Flushed, AckInv, [Next]_vars PROVE AckInv'
    OBVIOUS
  <2>1. CASE acks' = {}
    BY <2>1 DEF AckInv
  <2>2. CASE /\ UNCHANGED <<log, node, acks>>
             /\ call' = "idle" \/ (call' = call /\ todo' = todo)
    BY <2>2 DEF AckInv, NoSync, SyncIds
  <2>3. CASE \E d \in todo : Replay(d[1], d[2])
    <3>1. acks' = {}
      BY <2>3 DEF Replay, AckInv
    <3> QED
      BY <3>1, <2>1
  <2>4. CASE \E d \in todo : DeliverHeld(d[1], d[2])
    <3>1. PICK d \in todo : DeliverHeld(d[1], d[2])
      BY <2>4
    <3>2. call' = "release"
      BY <3>1 DEF DeliverHeld
    <3>3. NoSync' => \A a \in acks' :
            /\ AckHolds(node'[a.node], a.cid, a.type)
            /\ \A e \in todo' : e[1] = a.node => a.cid < e[2]
      BY <3>1, DeliverHeldAcks
    <3> QED
      BY <3>2, <3>3 DEF AckInv
  <2>5. CASE \E step \in Steps, skipped \in ExcludeSets, delayed \in DelaySets :
               Submit(step, skipped, delayed)
    <3>1. PICK step \in Steps, skipped \in ExcludeSets, delayed \in DelaySets :
                 Submit(step, skipped, delayed)
      BY <2>5
    <3>2. call' = "idle"
      BY <3>1 DEF Submit
    <3>3. NoSync' => \A a \in acks' : AckHolds(node'[a.node], a.cid, a.type)
      BY <3>1, SubmitAcks
    <3> QED
      BY <3>2, <3>3 DEF AckInv
  <2>6. CASE RegisterNode \/ ReconcileAll \/ (\E n \in Nodes : ReleaseHeldEvents(n) \/ ReconcileNode(n))
    <3>1. acks' = {}
      BY <2>6 DEF RegisterNode, ReconcileAll, ReleaseHeldEvents, ReconcileNode
    <3> QED
      BY <3>1, <2>1
  <2>7. CASE Return \/ EnforceInvariants \/ UNCHANGED vars
    <3>1. /\ UNCHANGED <<log, node, acks>>
          /\ call' = "idle" \/ (call' = call /\ todo' = todo)
      BY <2>7 DEF Return, EnforceInvariants, vars
    <3> QED
      BY <3>1, <2>2
  <2> QED
    BY <2>3, <2>4, <2>5, <2>6, <2>7 DEF Next
<1> QED
  BY <1>1, <1>2, Invariance, FlushedInvariance, PTL DEF Spec

(* Without a SYNC, what the hub answers to a call is so. *)
THEOREM AcksTellTheTruth == Spec => []AcksAreTruthful
<1>1. AckInv => AcksAreTruthful
  BY DEF AckInv, AckHolds, AcksAreTruthful, Applied
<1> QED
  BY <1>1, AckInvariance, PTL
=============================================================================
