-------------------------- MODULE PropagationProofs --------------------------
(***************************************************************************)
(* Proofs about the propagation layer: the inductive invariant, and from   *)
(* it every property of the module Propagation.  The lemmas about one node *)
(* come from ReplicaNodeProofs.                                            *)
(***************************************************************************)
EXTENDS Propagation, ReplicaNodeProofs

(* A node between two deliveries: consistent, and with nothing in its       *)
(* buffer that could be applied.                                            *)
Sound(nd, lg) == NodeInv(nd, lg) /\ nd.next \notin nd.buffer

ResultType(lg) ==
  [batch : SUBSET DOMAIN lg, before : SUBSET DOMAIN lg, applied : SUBSET DOMAIN lg,
   skipped : SUBSET DOMAIN lg, buffered : SUBSET DOMAIN lg, success : BOOLEAN]

(* How far a merge into the node nd has come: the part of the batch that is *)
(* done precedes the rest, and the node is past it unless the batch starts  *)
(* beyond the next event; the result says what has happened so far.         *)
MergeProgress(nd, res, rest) ==
  /\ rest \subseteq res.batch
  /\ res.success \/ rest = {}
  /\ \A j, k \in res.batch : j .. k \subseteq res.batch
  /\ \A k \in res.batch \ rest : \A j \in rest : k < j
  /\ res.success /\ (\E k \in res.batch : k <= nd.next) =>
       \A k \in res.batch \ rest : k < nd.next
  /\ res.before \cup res.applied \subseteq Ids(nd.applied)
  /\ res.before \cap res.applied = {}
  /\ res.success => Ids(nd.applied) = res.before \cup res.applied
  /\ res.buffered \subseteq nd.buffer
  /\ res.buffered # {} => \A k \in res.batch : nd.next < k
  /\ res.skipped \subseteq Ids(nd.applied)

MergeInv == call = "merge" => MergeProgress(node[target], result, todo)

NoneRaises == \A k \in DOMAIN log : ~Raises(log[k])

(* A snapshot is the state after the events up to its id. *)
SnapshotInv ==
  NoneRaises =>
    \A n \in Nodes : \A s \in snapshots[n] :
      s.state = StateAfter([i \in 1 .. s.id |-> log[i]])

(* The inductive invariant. *)
Inv ==
  /\ TypeOK
  /\ result \in ResultType(log)
  /\ \A n \in Nodes : Sound(node[n], log)
  /\ call = "idle" => todo = {}
  /\ MergeInv
  /\ SnapshotInv
-----------------------------------------------------------------------------
(* There is no SYNC below the protocol. *)
LEMMA LogFacts ==
  ASSUME NEW lg \in Seq(Payloads)
  PROVE  /\ Len(lg) \in Nat /\ DOMAIN lg = 1 .. Len(lg)
         /\ \A k \in DOMAIN lg : lg[k] \in Payloads
         /\ EventIdsOf(lg) = DOMAIN lg /\ SyncIdsOf(lg) = {}
<1>1. Len(lg) \in Nat /\ DOMAIN lg = 1 .. Len(lg)
  OBVIOUS
<1>2. \A k \in DOMAIN lg : lg[k] \in Payloads
  BY <1>1, ElementOfSeq
<1> QED
  BY <1>1, <1>2, SyncIsNoPayload DEF EventIdsOf, SyncIdsOf

(* A node has applied exactly the events before the next one. *)
LEMMA SoundFacts ==
  ASSUME NEW lg \in Seq(Payloads), NEW nd, Sound(nd, lg)
  PROVE  /\ nd \in NodeType(lg)
         /\ nd.next \in 1 .. (Len(lg) + 1)
         /\ nd.buffer \subseteq DOMAIN lg
         /\ Ids(nd.applied) = 1 .. (nd.next - 1)
<1>1. /\ nd \in NodeType(lg) /\ LogIsPrefix(nd, lg)
      /\ nd.next \in 1 .. (Len(lg) + 1) /\ nd.buffer \subseteq EventIdsOf(lg)
      /\ DOMAIN nd.applied = 1 .. Len(nd.applied)
  BY NodeTypeFacts DEF Sound, NodeInv
<1>2. /\ Len(nd.applied) = nd.next - 1
      /\ \A i \in 1 .. Len(nd.applied) : nd.applied[i] = i
  BY <1>1, LogFacts DEF LogIsPrefix
<1>3. Ids(nd.applied) = 1 .. (nd.next - 1)
  BY <1>1, <1>2 DEF Ids
<1> QED
  BY <1>1, <1>3, LogFacts

LEMMA SoundReceive ==
  ASSUME NEW lg \in Seq(Payloads), NEW nd, Sound(nd, lg), NEW cid \in DOMAIN lg
  PROVE  /\ Sound(Receive(nd, cid, lg), lg)
         /\ nd.next <= Receive(nd, cid, lg).next
<1>1. cid \in EventIdsOf(lg) /\ NodeInv(nd, lg) /\ nd.next \notin nd.buffer
  BY LogFacts DEF Sound
<1>2. NodeInv(Receive(nd, cid, lg), lg)
  BY <1>1, ReceiveKeepsNodeInv
<1>3. Receive(nd, cid, lg).next \notin Receive(nd, cid, lg).buffer
  BY <1>1, ReceiveEffect
<1>4. nd.next <= Receive(nd, cid, lg).next
  BY <1>1, ReceiveAdvances
<1> QED
  BY <1>2, <1>3, <1>4 DEF Sound

LEMMA SoundAppend ==
  ASSUME NEW lg \in Seq(Payloads), NEW nd, Sound(nd, lg), NEW e \in Payloads
  PROVE  Sound(nd, Append(lg, e))
BY SequencingKeepsNodeInv DEF Sound

LEMMA InvFacts ==
  ASSUME Inv
  PROVE  /\ log \in Seq(Payloads) /\ Len(log) \in Nat /\ DOMAIN log = 1 .. Len(log)
         /\ DOMAIN node = Nodes
         /\ \A n \in Nodes : /\ Sound(node[n], log)
                             /\ node[n].next \in 1 .. (Len(log) + 1)
                             /\ held[n] \subseteq DOMAIN log
         /\ Members \subseteq Nodes /\ target \in Nodes
         /\ todo \subseteq DOMAIN log
  BY LogFacts, SoundFacts, PropagationAssumption DEF Inv, TypeOK, Members, Nodes
-----------------------------------------------------------------------------
LEMMA NoResultType == \A lg : NoResult \in ResultType(lg)
BY DEF NoResult, NewResult, ResultType

LEMMA InitInv == Init => Inv
<1> SUFFICES ASSUME Init PROVE Inv
  OBVIOUS
<1>1. log = <<>> /\ log \in Seq(Payloads) /\ Len(log) = 0 /\ DOMAIN log = {}
  BY DEF Init
<1>2. Sound(NewNode, log)
  BY <1>1, NewNodeIsConsistent DEF Sound, NewNode
<1>3. \A n \in Nodes : node[n] = NewNode
  BY DEF Init
<1>4. TypeOK
  <2>1. node \in [Nodes -> NodeType(log)]
    BY <1>2 DEF Sound, NodeInv, Init
  <2>2. target \in Nodes /\ registered \in Nodes
    BY PropagationAssumption DEF Init, Nodes
  <2>3. held \in [Nodes -> SUBSET DOMAIN log] /\ \A n \in Nodes : snapshots[n] = {}
    BY DEF Init
  <2>4. /\ result.success \in BOOLEAN
        /\ UNION {result.batch, result.before, result.applied, result.skipped,
                  result.buffered} \subseteq DOMAIN log
    BY DEF Init, NoResult, NewResult
  <2> QED
    BY <1>1, <2>1, <2>2, <2>3, <2>4 DEF TypeOK, Init
<1>5. result \in ResultType(log)
  BY NoResultType DEF Init
<1>6. SnapshotInv
  BY DEF SnapshotInv, Init
<1> QED
  BY <1>2, <1>3, <1>4, <1>5, <1>6 DEF Inv, MergeInv, Init

(* The components of a result have their types. *)
LEMMA ResultFacts ==
  ASSUME NEW lg, NEW res \in ResultType(lg)
  PROVE  /\ res.success \in BOOLEAN
         /\ UNION {res.batch, res.before, res.applied, res.skipped, res.buffered}
              \subseteq DOMAIN lg
  BY DEF ResultType

(* Another buffered event leaves the rest of a result as it was. *)
LEMMA BufferedResult ==
  ASSUME NEW lg, NEW res \in ResultType(lg), NEW c \in DOMAIN lg,
         NEW new, new = [res EXCEPT !.buffered = @ \cup {c}]
  PROVE  /\ new.batch = res.batch /\ new.before = res.before
         /\ new.applied = res.applied /\ new.skipped = res.skipped
         /\ new.buffered = res.buffered \cup {c} /\ new.success = res.success
         /\ new \in ResultType(lg)
<1>1. res.buffered \cup {c} \subseteq DOMAIN lg
  BY ResultFacts
<1> QED
  BY <1>1 DEF ResultType

LEMMA RegisterNodeInv == Inv /\ RegisterNode => Inv'
<1> SUFFICES ASSUME Inv, RegisterNode PROVE Inv'
  OBVIOUS
<1>1. TypeOK'
  BY PropagationAssumption DEF Inv, TypeOK, RegisterNode, Nodes
<1>2. MergeInv' /\ SnapshotInv'
  BY DEF Inv, MergeInv, SnapshotInv, NoneRaises, RegisterNode
<1> QED
  BY <1>1, <1>2 DEF Inv, RegisterNode

LEMMA BroadcastInv ==
  ASSUME Inv, NEW event \in Payloads, NEW skipped, NEW delayed,
         Broadcast(event, skipped, delayed)
  PROVE  Inv'
<1> DEFINE lg == Append(log, event)
           cid == NextCausalId
<1>1. /\ log \in Seq(Payloads) /\ Len(log) \in Nat /\ DOMAIN log = 1 .. Len(log)
      /\ TypeOK /\ result \in ResultType(log)
      /\ \A n \in Nodes : Sound(node[n], log) /\ held[n] \subseteq DOMAIN log
  BY InvFacts DEF Inv
<1>2. /\ lg \in Seq(Payloads) /\ DOMAIN lg = 1 .. (Len(log) + 1)
      /\ Len(lg) = Len(log) + 1
      /\ \A k \in 1 .. Len(log) : lg[k] = log[k]
      /\ cid \in DOMAIN lg /\ DOMAIN log \subseteq DOMAIN lg
  BY <1>1 DEF NextCausalId
<1>3. /\ call = "idle" /\ log' = lg
      /\ UNCHANGED <<registered, snapshots, call, target, todo, result>>
  BY DEF Broadcast
<1> HIDE DEF lg, cid
<1>4. \A n \in Nodes : node'[n] \in {node[n], Receive(node[n], cid, lg)}
  BY DEF Broadcast, lg, cid
<1>5. DOMAIN node' = Nodes /\ node' = [n \in Nodes |-> node'[n]]
  BY DEF Broadcast
<1>6. \A n \in Nodes : Sound(node'[n], lg)
  <2> TAKE n \in Nodes
  <2>1. Sound(node[n], lg)
    BY <1>1, SoundAppend DEF lg
  <2>2. Sound(Receive(node[n], cid, lg), lg)
    BY <1>2, <2>1, SoundReceive
  <2> QED
    BY <1>4, <2>1, <2>2
<1>7. held' \in [Nodes -> SUBSET DOMAIN lg]
  <2>1. \A n \in Nodes : held'[n] \in {held[n], held[n] \cup {cid}}
    BY DEF Broadcast, cid
  <2>2. held' = [n \in Nodes |-> held'[n]]
    BY DEF Broadcast
  <2>3. \A n \in Nodes : held'[n] \subseteq DOMAIN lg
    BY <1>1, <1>2, <2>1
  <2> QED
    BY <2>2, <2>3
<1>8. result' \in ResultType(log')
  BY <1>1, <1>2, <1>3 DEF ResultType
<1>9. TypeOK'
  <2>1. node' \in [Nodes -> NodeType(lg)]
    BY <1>5, <1>6 DEF Sound, NodeInv
  <2>2. \A n \in Nodes : \A s \in snapshots[n] : s.id \in 0 .. Len(lg)
    BY <1>1, <1>2 DEF TypeOK
  <2>3. todo' = {}
    BY <1>3 DEF Inv
  <2> QED
    BY <1>1, <1>2, <1>3, <1>7, <1>8, <2>1, <2>2, <2>3, ResultFacts DEF TypeOK
<1>10. SnapshotInv'
  <2> SUFFICES ASSUME NoneRaises', NEW n \in Nodes, NEW s \in snapshots[n]
               PROVE  s.state = StateAfter([i \in 1 .. s.id |-> lg[i]])
    BY <1>3 DEF SnapshotInv
  <2>1. NoneRaises
    <3>1. \A k \in DOMAIN lg : ~Raises(lg[k])
      BY <1>3 DEF NoneRaises
    <3> QED
      BY <3>1, <1>1, <1>2 DEF NoneRaises
  <2>2. s.state = StateAfter([i \in 1 .. s.id |-> log[i]])
    BY <2>1 DEF Inv, SnapshotInv
  <2>3. s.id \in 0 .. Len(log)
    BY <1>1 DEF TypeOK
  <2>4. [i \in 1 .. s.id |-> log[i]] = [i \in 1 .. s.id |-> lg[i]]
    BY <1>2, <2>3
  <2> QED
    BY <2>2, <2>4
<1> QED
  BY <1>3, <1>6, <1>8, <1>9, <1>10 DEF Inv, MergeInv

LEMMA ReleaseHeldEventsInv ==
  ASSUME Inv, NEW n \in Nodes, ReleaseHeldEvents(n)
  PROVE  Inv'
<1>1. TypeOK'
  BY DEF Inv, TypeOK, ReleaseHeldEvents
<1>2. MergeInv' /\ SnapshotInv'
  BY DEF Inv, MergeInv, SnapshotInv, NoneRaises, ReleaseHeldEvents
<1> QED
  BY <1>1, <1>2 DEF Inv, ReleaseHeldEvents

(* One delivery to a node that keeps the other nodes and the log. *)
LEMMA OneDelivery ==
  ASSUME Inv, NEW cid \in todo,
         node' = [node EXCEPT ![target] = Receive(@, cid, log)],
         UNCHANGED <<registered, log, held, snapshots>>,
         call' \in {"idle", call}, target' \in {1, target}, todo' \subseteq todo,
         result' \in ResultType(log')
  PROVE  /\ TypeOK' /\ SnapshotInv'
         /\ \A n \in Nodes : Sound(node'[n], log')
         /\ node'[target] = Receive(node[target], cid, log)
<1>1. /\ log \in Seq(Payloads) /\ cid \in DOMAIN log /\ target \in Nodes
      /\ TypeOK /\ \A n \in Nodes : Sound(node[n], log)
  BY InvFacts DEF Inv
<1>2. Sound(Receive(node[target], cid, log), log)
  BY <1>1, SoundReceive
<1>3. /\ DOMAIN node' = Nodes
      /\ \A n \in Nodes : node'[n] = IF n = target THEN Receive(node[target], cid, log)
                                                   ELSE node[n]
  BY <1>1 DEF TypeOK
<1>4. \A n \in Nodes : Sound(node'[n], log)
  BY <1>1, <1>2, <1>3
<1>5. node' \in [Nodes -> NodeType(log)]
  <2>1. \A n \in Nodes : node'[n] \in NodeType(log)
    BY <1>4 DEF Sound, NodeInv
  <2>2. Receive(node[target], cid, log) \in NodeType(log)
    BY <1>2 DEF Sound, NodeInv
  <2> QED
    BY <1>1, <2>2 DEF TypeOK
<1>6. TypeOK'
  BY <1>1, <1>5, ResultFacts, PropagationAssumption DEF TypeOK, Nodes
<1>7. SnapshotInv'
  BY DEF Inv, SnapshotInv, NoneRaises
<1> QED
  BY <1>1, <1>3, <1>4, <1>6, <1>7

LEMMA DeliverHeldInv ==
  ASSUME Inv, NEW cid \in todo, DeliverHeld(cid)
  PROVE  Inv'
<1>1. /\ node' = [node EXCEPT ![target] = Receive(@, cid, log)]
      /\ UNCHANGED <<registered, log, held, snapshots, result>>
      /\ call = "release" /\ call' \in {"idle", call} /\ target' \in {1, target}
      /\ todo' \subseteq todo /\ (call' = "idle" => todo' = {})
      /\ call' # "merge"
  BY DEF DeliverHeld
<1>2. result' \in ResultType(log')
  BY <1>1 DEF Inv
<1> QED
  BY <1>1, <1>2, OneDelivery DEF Inv, MergeInv

LEMMA ReleasedInv == Inv /\ Released => Inv'
<1> SUFFICES ASSUME Inv, Released PROVE Inv'
  OBVIOUS
<1>1. TypeOK'
  BY PropagationAssumption DEF Inv, TypeOK, Released, Nodes
<1>2. MergeInv' /\ SnapshotInv'
  BY DEF Inv, MergeInv, SnapshotInv, NoneRaises, Released
<1> QED
  BY <1>1, <1>2 DEF Inv, Released

LEMMA MergeEventBatchInv ==
  ASSUME Inv, NEW n \in Nodes, NEW from \in 1 .. MaxEvents, NEW to \in 1 .. MaxEvents,
         MergeEventBatch(n, from, to)
  PROVE  Inv'
<1> DEFINE batch == EventSlice(from, to)
<1>1. /\ log \in Seq(Payloads) /\ DOMAIN log = 1 .. Len(log) /\ Len(log) \in Nat
      /\ TypeOK /\ Sound(node[n], log) /\ node[n].next \in 1 .. (Len(log) + 1)
      /\ MaxEvents \in Nat
  BY InvFacts, PropagationAssumption DEF Inv
<1>2. batch \subseteq DOMAIN log /\ \A j, k \in batch : j .. k \subseteq batch
  BY <1>1 DEF EventSlice
<1>3. Applied(n) = 1 .. (node[n].next - 1) /\ Applied(n) \subseteq DOMAIN log
  BY <1>1, SoundFacts DEF Applied
<1>4. /\ call' = "merge" /\ target' = n /\ todo' = batch
      /\ result' = NewResult(batch, Applied(n))
      /\ UNCHANGED <<registered, log, node, held, snapshots>>
  BY DEF MergeEventBatch
<1> HIDE DEF batch
<1>5. NewResult(batch, Applied(n)) \in ResultType(log)
  BY <1>2, <1>3 DEF NewResult, ResultType
<1>6. TypeOK'
  BY <1>1, <1>2, <1>4, <1>5, ResultFacts DEF TypeOK
<1>7. MergeProgress(node[n], NewResult(batch, Applied(n)), batch)
  BY <1>2 DEF MergeProgress, NewResult, Applied
<1>8. SnapshotInv'
  BY <1>4 DEF Inv, SnapshotInv, NoneRaises
<1> QED
  BY <1>4, <1>5, <1>6, <1>7, <1>8 DEF Inv, MergeInv

(* One event of a batch: what it does to the node is what it adds to the    *)
(* result.                                                                  *)
LEMMA MergeStep ==
  ASSUME NEW nd, NEW res \in ResultType(log), NEW rest, NEW cid \in rest,
         log \in Seq(Payloads), Sound(nd, log), rest \subseteq DOMAIN log,
         MergeProgress(nd, res, rest), \A k \in rest : cid <= k
  PROVE  LET res2 == Reported(res, nd, cid)
         IN  /\ res2 \in ResultType(log)
             /\ MergeProgress(Receive(nd, cid, log), res2,
                              IF res2.success THEN rest \ {cid} ELSE {})
<1> DEFINE new == Receive(nd, cid, log)
           res2 == Reported(res, nd, cid)
           rest2 == IF res2.success THEN rest \ {cid} ELSE {}
           fresh == nd.next .. (new.next - 1)
<1>1. /\ Len(log) \in Nat /\ DOMAIN log = 1 .. Len(log) /\ cid \in DOMAIN log
      /\ EventIdsOf(log) = DOMAIN log
      /\ nd.next \in 1 .. (Len(log) + 1) /\ nd.next \notin nd.buffer
      /\ Ids(nd.applied) = 1 .. (nd.next - 1)
  BY LogFacts, SoundFacts DEF Sound
<1>2. /\ new.next \in nd.next .. (Len(log) + 1)
      /\ cid < nd.next => new = nd
      /\ cid > nd.next => /\ new.next = nd.next
                         /\ new.buffer = nd.buffer \cup {cid}
                         /\ ~ReceiveRaises(nd, cid, log)
      /\ cid = nd.next /\ ~ReceiveRaises(nd, cid, log) => nd.next < new.next
  BY <1>1, ReceiveEffect DEF Sound
<1>3. Sound(new, log) /\ Ids(new.applied) = 1 .. (new.next - 1)
  BY <1>1, SoundReceive, SoundFacts
<1>4. /\ fresh \subseteq DOMAIN log
      /\ Ids(new.applied) = Ids(nd.applied) \cup fresh
      /\ Ids(nd.applied) \cap fresh = {}
  BY <1>1, <1>2, <1>3
<1>5. /\ rest \subseteq res.batch /\ cid \in res.batch /\ res.success
      /\ \A j, k \in res.batch : j .. k \subseteq res.batch
      /\ \A k \in res.batch \ rest : \A j \in rest : k < j
      /\ (\E k \in res.batch : k <= nd.next) => \A k \in res.batch \ rest : k < nd.next
      /\ res.before \cup res.applied \subseteq Ids(nd.applied)
      /\ res.before \cap res.applied = {}
      /\ Ids(nd.applied) = res.before \cup res.applied
      /\ res.buffered \subseteq nd.buffer
      /\ res.buffered # {} => \A k \in res.batch : nd.next < k
      /\ res.skipped \subseteq Ids(nd.applied)
  BY DEF MergeProgress
<1>6. res.batch \subseteq DOMAIN log
  BY DEF ResultType
<1>7. \A k \in res.batch \ (rest \ {cid}) : \A j \in rest \ {cid} : k < j
  <2> SUFFICES ASSUME NEW k \in res.batch \ (rest \ {cid}),
                      NEW j \in rest \ {cid}
               PROVE  k < j
    OBVIOUS
  <2>1. CASE k = cid
    <3>1. cid <= j /\ cid # j /\ j \in 1 .. Len(log)
      BY <1>1
    <3> QED
      BY <2>1, <3>1, <1>1
  <2>2. CASE k # cid
    BY <2>2, <1>5
  <2> QED
    BY <2>1, <2>2
<1> HIDE DEF new, fresh
<1>8. CASE cid < nd.next
  <2>1. res2 = [res EXCEPT !.skipped = @ \cup {cid}]
    BY <1>8, <1>1 DEF Reported
  <2>2. /\ res2.batch = res.batch /\ res2.before = res.before
        /\ res2.applied = res.applied /\ res2.skipped = res.skipped \cup {cid}
        /\ res2.buffered = res.buffered /\ res2.success = res.success
        /\ res2 \in ResultType(log)
    BY <2>1, <1>1 DEF ResultType
  <2>3. cid \in Ids(nd.applied)
    BY <1>1, <1>8
  <2>4. new = nd
    BY <1>2, <1>8
  <2>5. rest2 = rest \ {cid}
    BY <2>2, <1>5
  <2> HIDE DEF res2, rest2
  <2>6. (\E k \in res.batch : k <= nd.next) =>
           \A k \in res.batch \ (rest \ {cid}) : k < nd.next
    BY <1>5, <1>8
  <2>7. MergeProgress(new, res2, rest2)
    BY <1>5, <1>7, <2>2, <2>3, <2>4, <2>5, <2>6 DEF MergeProgress
  <2> QED
    BY <2>2, <2>7 DEF new, res2, rest2
<1>9. CASE cid >= nd.next /\ ReceiveRaises(nd, cid, log)
  <2>1. res2 = [res EXCEPT !.success = FALSE]
    BY <1>9, <1>1 DEF Reported
  <2>2. /\ res2.batch = res.batch /\ res2.before = res.before
        /\ res2.applied = res.applied /\ res2.skipped = res.skipped
        /\ res2.buffered = res.buffered /\ res2.success = FALSE
        /\ res2 \in ResultType(log)
    BY <2>1 DEF ResultType
  <2>3. cid = nd.next
    BY <1>1, <1>2, <1>9
  <2>4. res.buffered = {}
    BY <2>3, <1>1, <1>5
  <2>5. rest2 = {}
    BY <2>2
  <2> HIDE DEF res2, rest2
  <2>6. MergeProgress(new, res2, rest2)
    BY <1>4, <1>5, <2>2, <2>4, <2>5 DEF MergeProgress
  <2> QED
    BY <2>2, <2>6 DEF new, res2, rest2
<1>10. CASE cid > nd.next
  <2>1. /\ new.next = nd.next /\ new.buffer = nd.buffer \cup {cid}
        /\ ~ReceiveRaises(nd, cid, log)
    BY <1>2, <1>10
  <2>2. res2 = [res EXCEPT !.buffered = @ \cup {cid}]
    BY <1>10, <2>1, <1>1 DEF Reported, new
  <2>3. /\ res2.batch = res.batch /\ res2.before = res.before
        /\ res2.applied = res.applied /\ res2.skipped = res.skipped
        /\ res2.buffered = res.buffered \cup {cid} /\ res2.success = res.success
        /\ res2 \in ResultType(log)
    <3>1. cid \in DOMAIN log
      BY <1>1
    <3> HIDE DEF new, res2, rest2
    <3> QED
      BY <2>2, <3>1, BufferedResult
  <2>4. \A k \in res.batch : nd.next < k
    <3> SUFFICES ASSUME NEW k \in res.batch, k <= nd.next PROVE FALSE
      BY <1>1, <1>6
    <3>1. nd.next \in k .. cid
      BY <1>1, <1>6, <1>10
    <3>2. nd.next \in res.batch
      BY <3>1, <1>5
    <3>3. nd.next \notin rest
      BY <1>1, <1>10
    <3>4. nd.next < nd.next
      BY <3>2, <3>3, <1>5
    <3> QED
      BY <3>4, <1>1
  <2>5. Ids(new.applied) = Ids(nd.applied)
    BY <2>1, <1>1, <1>3
  <2>6. rest2 = rest \ {cid}
    BY <2>3, <1>5
  <2>7. ~ \E k \in res.batch : k <= nd.next
    BY <2>4, <1>1, <1>6
  <2> HIDE DEF res2, rest2
  <2>8. MergeProgress(new, res2, rest2)
    BY <1>5, <1>7, <2>1, <2>3, <2>4, <2>5, <2>6, <2>7 DEF MergeProgress
  <2> QED
    BY <2>3, <2>8 DEF new, res2, rest2
<1>11. CASE cid = nd.next /\ ~ReceiveRaises(nd, cid, log)
  <2>1. nd.next < new.next
    BY <1>2, <1>11
  <2>2. res2 = [res EXCEPT !.applied = @ \cup fresh]
    BY <1>11, <2>1, <1>1 DEF Reported, new, fresh
  <2>3. /\ res2.batch = res.batch /\ res2.before = res.before
        /\ res2.applied = res.applied \cup fresh /\ res2.skipped = res.skipped
        /\ res2.buffered = res.buffered /\ res2.success = res.success
        /\ res2 \in ResultType(log)
    BY <2>2, <1>4 DEF ResultType
  <2>4. res.buffered = {}
    BY <1>1, <1>5, <1>11
  <2>5. \A k \in res.batch \ (rest \ {cid}) : k < new.next
    <3> TAKE k \in res.batch \ (rest \ {cid})
    <3>1. k = cid \/ k < nd.next
      BY <1>1, <1>5, <1>11
    <3>2. k \in Nat /\ nd.next \in Nat /\ new.next \in Nat
      BY <1>1, <1>2, <1>6
    <3> QED
      BY <3>1, <3>2, <2>1, <1>11
  <2>6. rest2 = rest \ {cid}
    BY <2>3, <1>5
  <2>7. res.before \cap fresh = {}
    BY <1>4, <1>5
  <2> HIDE DEF res2, rest2
  <2>8. MergeProgress(new, res2, rest2)
    BY <1>4, <1>5, <1>7, <2>3, <2>4, <2>5, <2>6, <2>7 DEF MergeProgress
  <2> QED
    BY <2>3, <2>8 DEF new, res2, rest2
<1> QED
  BY <1>1, <1>8, <1>9, <1>10, <1>11

LEMMA MergeOneInv ==
  ASSUME Inv, NEW cid \in todo, MergeOne(cid)
  PROVE  Inv'
<1>1. /\ call = "merge" /\ \A k \in todo : cid <= k
      /\ node' = [node EXCEPT ![target] = Receive(@, cid, log)]
      /\ result' = Reported(result, node[target], cid)
      /\ todo' = IF result'.success THEN todo \ {cid} ELSE {}
      /\ UNCHANGED <<registered, log, held, snapshots, call, target>>
  BY DEF MergeOne, IsNext
<1>2. /\ log \in Seq(Payloads) /\ Sound(node[target], log)
      /\ todo \subseteq DOMAIN log /\ result \in ResultType(log)
      /\ MergeProgress(node[target], result, todo)
  BY <1>1, InvFacts DEF Inv, MergeInv
<1>3. /\ result' \in ResultType(log)
      /\ MergeProgress(Receive(node[target], cid, log), result', todo')
  BY <1>1, <1>2, MergeStep
<1>4. todo' \subseteq todo
  BY <1>1
<1>5. /\ TypeOK' /\ SnapshotInv'
      /\ \A n \in Nodes : Sound(node'[n], log')
      /\ node'[target] = Receive(node[target], cid, log)
  BY <1>1, <1>3, <1>4, OneDelivery
<1> QED
  BY <1>1, <1>3, <1>5 DEF Inv, MergeInv

LEMMA MergedInv == Inv /\ Merged => Inv'
<1> SUFFICES ASSUME Inv, Merged PROVE Inv'
  OBVIOUS
<1>1. result' \in ResultType(log')
  BY NoResultType DEF Merged
<1>2. TypeOK'
  BY <1>1, ResultFacts, PropagationAssumption DEF Inv, TypeOK, Merged, Nodes
<1>3. MergeInv' /\ SnapshotInv'
  BY DEF Inv, MergeInv, SnapshotInv, NoneRaises, Merged
<1> QED
  BY <1>1, <1>2, <1>3 DEF Inv, Merged

(* When no event raises, the state of a node is that after the events that  *)
(* it has committed.                                                        *)
LEMMA StateIsOfLog ==
  ASSUME Inv, NoneRaises, NEW n \in Nodes
  PROVE  State(n) = StateAfter([i \in 1 .. Committed(node[n]) |-> log[i]])
BY InvFacts, CallsArePrefix, SyncIsNoPayload
DEF NoneRaises, State, AdapterState, Sound

LEMMA ExportSnapshotInv ==
  ASSUME Inv, NEW n \in Nodes, ExportSnapshot(n)
  PROVE  Inv'
<1> DEFINE new == [id |-> Committed(node[n]), state |-> State(n)]
<1>1. /\ call = "idle"
      /\ UNCHANGED <<registered, log, node, held, call, target, todo, result>>
  BY DEF ExportSnapshot
<1>2. \A m \in Nodes : \A s \in snapshots'[m] : s \in snapshots[m] \/ (m = n /\ s = new)
  <2> TAKE m \in Nodes
  <2>1. CASE n \in DOMAIN snapshots /\ m = n
    BY <2>1 DEF ExportSnapshot
  <2>2. CASE m # n \/ n \notin DOMAIN snapshots
    BY <2>2 DEF ExportSnapshot
  <2> QED
    BY <2>1, <2>2
<1>3. new.id = Committed(node[n]) /\ new.state = State(n)
  OBVIOUS
<1> HIDE DEF new
<1>4. Committed(node[n]) \in 0 .. Len(log)
  BY InvFacts DEF Committed
<1>5. TypeOK'
  <2>1. \A m \in Nodes : \A s \in snapshots'[m] : s.id \in 0 .. Len(log)
    BY <1>2, <1>3, <1>4 DEF Inv, TypeOK
  <2> QED
    BY <1>1, <2>1 DEF Inv, TypeOK
<1>6. SnapshotInv'
  <2> SUFFICES ASSUME NoneRaises, NEW m \in Nodes, NEW s \in snapshots'[m]
               PROVE  s.state = StateAfter([i \in 1 .. s.id |-> log[i]])
    BY <1>1 DEF SnapshotInv, NoneRaises
  <2>1. CASE s \in snapshots[m]
    BY <2>1 DEF Inv, SnapshotInv
  <2>2. CASE s = new
    BY <2>2, <1>3, StateIsOfLog
  <2> QED
    BY <1>2, <2>1, <2>2
<1> QED
  BY <1>1, <1>5, <1>6 DEF Inv, MergeInv

LEMMA NextInv == Inv /\ [Next]_vars => Inv'
<1> SUFFICES ASSUME Inv, [Next]_vars PROVE Inv'
  OBVIOUS
<1>1. CASE RegisterNode \/ Released \/ Merged
  BY <1>1, RegisterNodeInv, ReleasedInv, MergedInv
<1>2. CASE \E event \in Payloads, skipped \in ExcludeSets, delayed \in DelaySets :
             Broadcast(event, skipped, delayed)
  BY <1>2, BroadcastInv
<1>3. CASE \E n \in Nodes : ReleaseHeldEvents(n) \/ ExportSnapshot(n)
  BY <1>3, ReleaseHeldEventsInv, ExportSnapshotInv
<1>4. CASE \E cid \in todo : DeliverHeld(cid) \/ MergeOne(cid)
  BY <1>4, DeliverHeldInv, MergeOneInv
<1>5. CASE \E n \in Nodes, from, to \in 1 .. MaxEvents : MergeEventBatch(n, from, to)
  BY <1>5, MergeEventBatchInv
<1>6. CASE UNCHANGED vars
  BY <1>6 DEF vars, Inv, TypeOK, MergeInv, SnapshotInv, NoneRaises
<1> QED
  BY <1>1, <1>2, <1>3, <1>4, <1>5, <1>6 DEF Next
-----------------------------------------------------------------------------
(* The inductive invariant holds of every execution, for any number of      *)
(* nodes and events, any payloads, exceptions and snapshots.                *)
THEOREM Invariance == Spec => []Inv
<1>1. Init => Inv
  BY InitInv
<1>2. Inv /\ [Next]_vars => Inv'
  BY NextInv
<1> QED
  BY <1>1, <1>2, PTL DEF Spec

(* The variables of the propagation layer have their types.                 *)
THEOREM TypeCorrectness == Spec => []TypeOK
<1>1. Inv => TypeOK
  BY DEF Inv
<1> QED
  BY <1>1, Invariance, PTL

(* A merge that succeeds catches the node up with its batch, if the batch   *)
(* starts no later than the node's next event.                              *)
THEOREM SuccessfulMergesCatchUp == Spec => []MergeCatchesUp
<1>1. Inv => MergeCatchesUp
  <2> SUFFICES ASSUME Inv, MergeIsOver, result.success,
                      \E k \in result.batch : k <= node[target].next
               PROVE  \A k \in result.batch : k < node[target].next
    BY DEF MergeCatchesUp
  <2>1. MergeProgress(node[target], result, {})
    BY DEF Inv, MergeInv, MergeIsOver
  <2> QED
    BY <2>1 DEF MergeProgress
<1> QED
  BY <1>1, Invariance, PTL

(* What merge_event_batch reports of a batch is what happened to the node. *)
THEOREM ReportsAreTrue == Spec => []MergeReportsAreTrue
<1>1. Inv => MergeReportsAreTrue
  <2> SUFFICES ASSUME Inv, MergeIsOver PROVE MergeReportsAreTrue
    BY DEF MergeReportsAreTrue
  <2>1. MergeProgress(node[target], result, {})
    BY DEF Inv, MergeInv, MergeIsOver
  <2> QED
    BY <2>1 DEF MergeProgress, MergeReportsAreTrue, Applied
<1> QED
  BY <1>1, Invariance, PTL

(* A snapshot of any node matches every node that has committed its id.     *)
THEOREM SnapshotsStayGood == Spec => []SnapshotsAgree
<1>1. Inv => SnapshotsAgree
  <2> SUFFICES ASSUME Inv, NoneRaises, NEW m \in Nodes, NEW n \in Nodes,
                      NEW s \in snapshots[m], Committed(node[n]) = s.id
               PROVE  State(n) = s.state
    BY DEF SnapshotsAgree, NoneRaises
  <2>1. s.state = StateAfter([i \in 1 .. s.id |-> log[i]])
    BY DEF Inv, SnapshotInv
  <2>2. State(n) = StateAfter([i \in 1 .. Committed(node[n]) |-> log[i]])
    BY StateIsOfLog
  <2> QED
    BY <2>1, <2>2
<1> QED
  BY <1>1, Invariance, PTL
-----------------------------------------------------------------------------
LEMMA LogGrows ==
  ASSUME [Next]_vars
  PROVE  log' = log \/ \E e \in Payloads : log' = Append(log, e)
BY DEF Next, vars, RegisterNode, Broadcast, ReleaseHeldEvents, DeliverHeld,
       Released, MergeEventBatch, MergeOne, Merged, ExportSnapshot

LEMMA NodesAdvance ==
  ASSUME Inv, [Next]_vars, NEW n \in Nodes
  PROVE  node[n].next <= node'[n].next
<1>1. /\ log \in Seq(Payloads) /\ Sound(node[n], log) /\ node[n].next \in Nat
      /\ DOMAIN node = Nodes /\ target \in Nodes
  BY InvFacts
<1>2. CASE node' = node
  BY <1>1, <1>2
<1>3. CASE \E cid \in todo : DeliverHeld(cid) \/ MergeOne(cid)
  <2>1. PICK cid \in todo : DeliverHeld(cid) \/ MergeOne(cid)
    BY <1>3
  <2>2. node' = [node EXCEPT ![target] = Receive(node[target], cid, log)]
    BY <2>1 DEF DeliverHeld, MergeOne
  <2>3. node[n].next <= Receive(node[n], cid, log).next
    BY <1>1, SoundReceive, InvFacts
  <2> QED
    BY <1>1, <2>2, <2>3
<1>4. CASE \E event \in Payloads, skipped \in ExcludeSets, delayed \in DelaySets :
             Broadcast(event, skipped, delayed)
  <2>1. PICK event \in Payloads, skipped \in ExcludeSets, delayed \in DelaySets :
               Broadcast(event, skipped, delayed)
    BY <1>4
  <2>2. node'[n] \in {node[n], Receive(node[n], NextCausalId, Append(log, event))}
    BY <2>1 DEF Broadcast
  <2>3. /\ Append(log, event) \in Seq(Payloads)
        /\ NextCausalId \in DOMAIN Append(log, event)
    BY <1>1, LogFacts DEF NextCausalId
  <2>4. Sound(node[n], Append(log, event))
    BY <1>1, SoundAppend
  <2>5. node[n].next <= Receive(node[n], NextCausalId, Append(log, event)).next
    BY <2>3, <2>4, SoundReceive
  <2> QED
    BY <1>1, <2>2, <2>5
<1> QED
  BY <1>2, <1>3, <1>4
  DEF Next, vars, RegisterNode, ReleaseHeldEvents, Released, MergeEventBatch,
      Merged, ExportSnapshot

(* The propagation layer implements the abstract sequenced log: the nodes'  *)
(* local logs are the copies.                                               *)
THEOREM Implementation == Spec => ImplementsSequencedLog
<1> DEFINE copy == [n \in Nodes |-> LocalLog(node[n], log)]
<1>1. Init => Abstract!Init
  BY DEF Init, Abstract!Init, LocalLog, NewNode
<1>2. Inv /\ Inv' /\ [Next]_vars => [Abstract!Next]_(Abstract!vars)
  <2> SUFFICES ASSUME Inv, Inv', [Next]_vars
               PROVE  Abstract!Next
    OBVIOUS
  <2>1. log' = log \/ \E e \in Payloads : log' = Append(log, e)
    BY LogGrows
  <2>2. ASSUME NEW n \in Nodes
        PROVE  Abstract!Copies(n)
    <3> DEFINE old == LocalLog(node[n], log)
               new == LocalLog(node'[n], log')
    <3>1. /\ NodeInv(node[n], log) /\ NodeInv(node'[n], log')
          /\ log \in Seq(Payloads) /\ log' \in Seq(Payloads)
      BY DEF Inv, Sound, TypeOK
    <3>2. /\ node[n].next - 1 \in 0 .. Len(log)
          /\ Len(old) = node[n].next - 1
          /\ \A i \in 1 .. (node[n].next - 1) : old[i] = log[i]
      BY <3>1, SyncIsNoPayload, LocalLogIsPrefix
    <3>3. /\ new \in Seq(Payloads)
          /\ node'[n].next - 1 \in 0 .. Len(log')
          /\ Len(new) = node'[n].next - 1
          /\ \A i \in 1 .. (node'[n].next - 1) : new[i] = log'[i]
      BY <3>1, SyncIsNoPayload, LocalLogIsPrefix
    <3>4. node[n].next <= node'[n].next
      BY NodesAdvance
    <3>5. \A i \in 1 .. Len(log) : log'[i] = log[i]
      BY <2>1, <3>1
    <3>6. /\ node[n].next \in Nat /\ node'[n].next \in Nat /\ Len(log) \in Nat
      BY <3>1, NodeTypeFacts DEF NodeInv
    <3>7. copy[n] = old /\ copy'[n] = new
      OBVIOUS
    <3> HIDE DEF old, new
    <3>8. Abstract!IsPrefixOf(old, new)
      <4>1. Len(old) <= Len(new)
        <5>1. Len(old) = node[n].next - 1
          BY <3>2
        <5>2. Len(new) = node'[n].next - 1
          BY <3>3
        <5> QED
          BY <5>1, <5>2, <3>4, <3>6
      <4>2. ASSUME NEW i \in 1 .. Len(old)
            PROVE  old[i] = new[i]
        <5>1. i \in 1 .. (node[n].next - 1) /\ i \in 1 .. Len(log)
          BY <3>2, <3>6
        <5>2. i \in 1 .. (node'[n].next - 1)
          BY <5>1, <3>4, <3>6
        <5>3. old[i] = log[i] /\ new[i] = log'[i]
          BY <5>1, <5>2, <3>2, <3>3
        <5> QED
          BY <5>1, <5>3, <3>5
      <4> QED
        BY <4>1, <4>2 DEF Abstract!IsPrefixOf
    <3>9. Abstract!IsPrefixOf(new, log')
      BY <3>3 DEF Abstract!IsPrefixOf
    <3> QED
      BY <3>3, <3>7, <3>8, <3>9 DEF Abstract!Copies
  <2> QED
    BY <2>1, <2>2 DEF Abstract!Next
<1>3. Spec => Abstract!Spec
  BY <1>1, <1>2, Invariance, PTL DEF Spec, Abstract!Spec
<1> QED
  BY <1>3 DEF ImplementsSequencedLog
=============================================================================
