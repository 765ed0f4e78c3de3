------------------------ MODULE ComputationProtocol ------------------------
(***************************************************************************)
(* The computation protocol of the distributed layer: a hub that sequences *)
(* proposals and delivers them to its nodes (ComputationProtocolHub), the  *)
(* engine that replays missing events to lagging nodes                     *)
(* (ReconciliationEngine) and the checker that halts the hub               *)
(* (DistributedInvariantChecker).                                          *)
(*                                                                         *)
(* Nodes are numbered in the order in which they are registered.  A call   *)
(* runs to its end before the next one starts; the calls that loop over    *)
(* deliveries (release_held_events, reconcile_all, reconcile_node) take    *)
(* one step per delivery, and call names the one in progress.              *)
(***************************************************************************)
EXTENDS ReplicaNode, FiniteSets

CONSTANTS
  MaxNodes,          \* bound on the nodes registered
  MaxEvents,         \* bound on the hub's log
  MaxCalls,          \* bound on the adapter calls of a node, for repeated replays
  InitialNodes,      \* nodes registered before the first proposal
  Steps,             \* step types proposed: payloads, and perhaps SYNC
  ExcludeSets,       \* sets of nodes that a submit may skip (exclude_nodes)
  DelaySets,         \* sets of nodes that a submit may delay (delay_nodes)
  HaltOnRejection,   \* halt_on_rejection
  HaltOnDivergence,  \* halt_on_divergence
  Enforcing          \* whether run_and_halt_if_failed is used

Nodes == 1 .. MaxNodes

ASSUME ProtocolAssumption ==
  /\ MaxNodes \in Nat \ {0}
  /\ InitialNodes \in Nodes
  /\ Steps \subseteq Payloads \cup {SYNC}
  /\ ExcludeSets \subseteq SUBSET Nodes
  /\ DelaySets \subseteq SUBSET Nodes
  /\ MaxEvents \in Nat
  /\ MaxCalls \in Nat
  /\ {HaltOnRejection, HaltOnDivergence, Enforcing} \subseteq BOOLEAN

VARIABLES
  registered,  \* how many nodes are in hub.nodes
  log,         \* _event_log: the payload, or SYNC, of each causal id from 1
  node,        \* the nodes
  held,        \* _pending_held: the ids withheld from each node; ids only grow,
               \* so the list is in ascending order
  halted,      \* _halted
  acks,        \* the AckMessages that the last hub call returned
  call,        \* the call in progress, or "idle"
  todo         \* the deliveries that call has left

vars == <<registered, log, node, held, halted, acks, call, todo>>

Members == 1 .. registered
NextCausalId == Len(log) + 1
Ack(n, cid, type) == [node |-> n, cid |-> cid, type |-> type]
States == [n \in Members |-> AdapterState(node[n], log)]
Agree(ns) == Cardinality({States[n] : n \in ns}) = 1

Init ==
  /\ registered = InitialNodes
  /\ log = <<>>
  /\ node = [n \in Nodes |-> NewNode]
  /\ held = [n \in Nodes |-> {}]
  /\ halted = FALSE
  /\ acks = {}
  /\ call = "idle"
  /\ todo = {}
-----------------------------------------------------------------------------
(* register_node: the new node starts from its initial state. *)
RegisterNode ==
  /\ call = "idle"
  /\ registered < MaxNodes
  /\ registered' = registered + 1
  /\ acks' = {}
  /\ UNCHANGED <<log, node, held, halted, call, todo>>

(* submit: sequence the proposal, deliver it to every node that is neither  *)
(* skipped nor delayed, and halt on a rejection or a SYNC without           *)
(* consensus.  A rejection does not stop the delivery to the other nodes.   *)
Submit(step, skipped, delayed) ==
  /\ call = "idle"
  /\ ~halted
  /\ Len(log) < MaxEvents
  /\ LET cid == NextCausalId
         lg == Append(log, step)
         reached == Members \ (skipped \cup delayed)
         rejects == \E n \in reached : Rejects(node[n], cid, lg)
     IN  /\ log' = lg
         /\ node' = [n \in Nodes |-> IF n \in reached
                                       THEN Execute(node[n], cid, lg)
                                       ELSE node[n]]
         /\ held' = [n \in Nodes |-> IF n \in (Members \cap delayed) \ skipped
                                       THEN held[n] \cup {cid}
                                       ELSE held[n]]
         /\ acks' = {Ack(n, cid, AckType(node[n], cid, lg)) : n \in reached}
         /\ halted' = \/ HaltOnRejection /\ rejects
                      \/ HaltOnDivergence /\ step = SYNC /\ ~Agree(reached)
  /\ UNCHANGED <<registered, call, todo>>

(* the list of held events is not emptied *)
ReleaseHeldEventsFault(n) ==
  /\ call = "idle"
  /\ ~halted
  /\ n \in Members
  /\ held[n] # {}
  /\ todo' = {n} \X held[n]
  /\ acks' = {}
  /\ call' = "release"
  /\ UNCHANGED <<registered, log, node, held, halted>>

(* release_held_events, entered: the loop will deliver what was held. *)
ReleaseHeldEvents(n) ==
  /\ call = "idle"
  /\ ~halted
  /\ n \in Members
  /\ held[n] # {}
  /\ todo' = {n} \X held[n]
  /\ held' = [held EXCEPT ![n] = {}]
  /\ acks' = {}
  /\ call' = "release"
  /\ UNCHANGED <<registered, log, node, halted>>

(* The next delivery of a loop: nodes in registration order, ids ascending. *)
IsNext(d) ==
  /\ d \in todo
  /\ \A e \in todo : d[1] < e[1] \/ (d[1] = e[1] /\ d[2] <= e[2])

(* the loop goes on after a rejection *)
DeliverHeldFault(n, cid) ==
  /\ call = "release"
  /\ IsNext(<<n, cid>>)
  /\ halted' = (halted \/ (HaltOnRejection /\ Rejects(node[n], cid, log)))
  /\ todo' = todo \ {<<n, cid>>}
  /\ node' = [node EXCEPT ![n] = Execute(node[n], cid, log)]
  /\ acks' = acks \cup {Ack(n, cid, AckType(node[n], cid, log))}
  /\ UNCHANGED <<registered, log, held, call>>

(* One turn of the loop of release_held_events: a rejection halts the hub  *)
(* and drops what is left of the held events.                              *)
DeliverHeld(n, cid) ==
  /\ call = "release"
  /\ IsNext(<<n, cid>>)
  /\ LET stops == HaltOnRejection /\ Rejects(node[n], cid, log)
     IN  /\ halted' = (halted \/ stops)
         /\ todo' = IF stops THEN {} ELSE todo \ {<<n, cid>>}
  /\ node' = [node EXCEPT ![n] = Execute(node[n], cid, log)]
  /\ acks' = acks \cup {Ack(n, cid, AckType(node[n], cid, log))}
  /\ UNCHANGED <<registered, log, held, call>>
-----------------------------------------------------------------------------
(* max(nodes, key=committed_causal_id): the first of the most advanced. *)
Reference(ns) ==
  CHOOSE r \in ns :
    \A n \in ns : \/ Committed(node[n]) < Committed(node[r])
                  \/ Committed(node[n]) = Committed(node[r]) /\ r <= n

(* off by one *)
EventSliceFault(from, to) == (from + 1) .. (IF to = 0 THEN Len(log) ELSE to)

(* get_event_slice: an upper bound of 0 is taken for a missing one. *)
EventSlice(from, to) == from .. (IF to = 0 THEN Len(log) ELSE to)

NeedsReplay(n, ref) ==
  \/ Committed(node[n]) < Committed(node[ref])
  \/ IsPartial(node[n])
  \/ States[n] # States[ref]

(* The events that _reconcile_node replays: the slice from the node's own   *)
(* committed id to the reference's, without the SYNC steps.                 *)
Missing(n, ref) ==
  IF NeedsReplay(n, ref)
    THEN {k \in EventSlice(Committed(node[n]) + 1, Committed(node[ref])) :
            log[k] # SYNC}
    ELSE {}

CallsBounded == \A n \in Members : Len(node[n].calls) <= MaxCalls

(* reconcile_all, entered. The hub may be halted. *)
ReconcileAll ==
  /\ call = "idle"
  /\ CallsBounded
  /\ LET ref == Reference(Members)
     IN  todo' = UNION {{n} \X Missing(n, ref) : n \in Members \ {ref}}
  /\ call' = "reconcile_all"
  /\ acks' = {}
  /\ UNCHANGED <<registered, log, node, held, halted>>

(* reconcile_node, entered: the reference is the most advanced other node. *)
ReconcileNode(n) ==
  /\ call = "idle"
  /\ CallsBounded
  /\ n \in Members /\ Members # {n}
  /\ todo' = {n} \X Missing(n, Reference(Members \ {n}))
  /\ call' = "reconcile_node"
  /\ acks' = {}
  /\ UNCHANGED <<registered, log, node, held, halted>>

(* One turn of the loop of _reconcile_node: committed events are skipped,  *)
(* and an exception ends the node's replay.                                *)
Replay(n, cid) ==
  /\ call \in {"reconcile_all", "reconcile_node"}
  /\ IsNext(<<n, cid>>)
  /\ node' = [node EXCEPT ![n] = Receive(node[n], cid, log)]
  /\ todo' = IF ReceiveRaises(node[n], cid, log)
               THEN {d \in todo : d[1] # n}
               ELSE todo \ {<<n, cid>>}
  /\ UNCHANGED <<registered, log, held, halted, acks, call>>

(* A loop is over and its call returns. *)
Return ==
  /\ call # "idle"
  /\ todo = {}
  /\ call' = "idle"
  /\ UNCHANGED <<registered, log, node, held, halted, acks, todo>>

(* run_and_halt_if_failed: halt the hub if a node holds buffered events or  *)
(* two nodes differ.                                                        *)
EnforceInvariants ==
  /\ Enforcing
  /\ call = "idle"
  /\ \/ \E n \in Members : IsPartial(node[n])
     \/ \E m, n \in Members : States[m] # States[n]
  /\ halted' = TRUE
  /\ UNCHANGED <<registered, log, node, held, acks, call, todo>>

Next ==
  \/ RegisterNode
  \/ \E step \in Steps, skipped \in ExcludeSets, delayed \in DelaySets :
       Submit(step, skipped, delayed)
  \/ \E n \in Nodes : ReleaseHeldEvents(n)
  \/ \E d \in todo : DeliverHeld(d[1], d[2])
  \/ ReconcileAll
  \/ \E n \in Nodes : ReconcileNode(n)
  \/ \E d \in todo : Replay(d[1], d[2])
  \/ Return
  \/ EnforceInvariants

Spec == Init /\ [][Next]_vars

(* The recovery loop of the demos: held events are released, nodes are      *)
(* reconciled again and again, and a call that was made returns.            *)
FairSpec ==
  /\ Spec
  /\ WF_vars(\E d \in todo : DeliverHeld(d[1], d[2]))
  /\ WF_vars(\E d \in todo : Replay(d[1], d[2]))
  /\ WF_vars(Return)
  /\ SF_vars(ReconcileAll)
  /\ \A n \in Nodes : SF_vars(ReleaseHeldEvents(n))
-----------------------------------------------------------------------------
EventIds == EventIdsOf(log)
SyncIds == SyncIdsOf(log)

(* The types of the variables.  A node knows only events of the hub's log,  *)
(* and its next expected id is at most one past its end.                    *)
TypeOK ==
  /\ registered \in Nodes
  /\ log \in Seq(Payloads \cup {SYNC})
  /\ node \in [Nodes -> NodeType(log)]
  /\ held \in [Nodes -> SUBSET DOMAIN log]
  /\ halted \in BOOLEAN
  /\ acks \subseteq [node : Nodes, cid : DOMAIN log,
                     type : {"APPLIED", "BUFFERED", "REJECTED"}]
  /\ call \in {"idle", "release", "reconcile_all", "reconcile_node"}
  /\ todo \subseteq Nodes \X DOMAIN log

NoSync == SyncIds = {}
NoneRaises == \A k \in EventIds : ~Raises(log[k])
Applied(n) == Ids(node[n].applied)

(* No node applies an event twice, whatever is skipped, delayed, replayed,  *)
(* rejected or skipped by a SYNC, and however releases and reconciliations  *)
(* interleave: a late SYNC moves a node's position back, but never to an    *)
(* event that it has applied and can be given again.                        *)
NoDuplicateApplication == \A n \in Members : Distinct(node[n].applied)

(* Between two SYNC steps a node applies events in the hub's order and      *)
(* without gaps: when it applies one, it has applied every event that was   *)
(* sequenced since the last SYNC before it.                                 *)
EpochOrder == \A n \in Members : AppliedInEpochOrder(node[n], log)

(* Two nodes that have committed the same id have adapters in the same      *)
(* state, and so the same hash, however the events reached them: as long as *)
(* no SYNC was sequenced and no event raises.                               *)
Agreement ==
  NoSync /\ NoneRaises =>
    \A m, n \in Members :
      Committed(node[m]) = Committed(node[n]) => States[m] = States[n]

(* Without a SYNC and skipped deliveries, no event is ever lost: a node has *)
(* applied it, buffers it, has raised on it, or will be given it by the hub *)
(* or by the call in progress.  Only a halt drops held events.              *)
NothingLost ==
  NoSync /\ ~halted =>
    \A n \in 1 .. InitialNodes : \A k \in EventIds :
      \/ k \in Applied(n) \cup node[n].buffer \cup held[n]
      \/ k \in Ids(node[n].calls)
      \/ <<n, k>> \in todo

(* Without a SYNC a node never rests with the next event in its buffer: the *)
(* arrival of a missing event applies all the buffered ones that follow it. *)
BufferFlushes == NoSync => \A n \in Members : node[n].next \notin node[n].buffer

(* Without a SYNC an acknowledgement tells what happened to the event it    *)
(* names: APPLIED only when the node has applied it, BUFFERED only when the *)
(* node keeps it or had it before.                                          *)
AcksAreTruthful ==
  NoSync =>
    \A a \in acks :
      /\ a.type = "APPLIED" => a.cid \in Applied(a.node)
      /\ a.type = "BUFFERED" => a.cid \in Applied(a.node) \cup node[a.node].buffer

(* A halt is final: the hub sequences nothing and releases nothing any      *)
(* more, a release in progress stops, and only the reconciliation engine,   *)
(* which does not ask, still moves nodes.                                   *)
HaltIsFinal ==
  [][halted =>
      /\ halted'
      /\ log' = log
      /\ held' = held
      /\ node' # node => call \in {"reconcile_all", "reconcile_node"}]_vars

(* Without a SYNC, the nodes' local logs are copies of the hub's log in the *)
(* sense of the abstract specification.                                     *)
Abstract == INSTANCE SequencedLog WITH
              Nodes <- Nodes, Events <- Payloads, glog <- log,
              copy <- [n \in Nodes |-> LocalLog(node[n], log)]
ImplementsSequencedLog == Abstract!Spec

(* Every sequenced event is eventually applied by every registered node,    *)
(* as long as each event reached some node or is held for one.              *)
EventuallyApplied ==
  \A n \in Nodes, k \in 1 .. MaxEvents :
    (n \in Members /\ k \in DOMAIN log) ~> (k \in Applied(n))
-----------------------------------------------------------------------------
(* A SYNC is given to a node at most once: one that it has executed is not  *)
(* held for it, nor left to be delivered, and one that is about to be       *)
(* delivered is not held as well.                                           *)
SyncsOnce ==
  \A n \in Nodes : \A k \in SyncIds :
    /\ k \in held[n] => k \notin node[n].synced /\ <<n, k>> \notin todo
    /\ <<n, k>> \in todo => call = "release" /\ k \notin node[n].synced

(* The inductive invariant: every node is consistent, each SYNC is executed *)
(* once, and a call that is over, or stopped by a halt, leaves nothing.     *)
Inv ==
  /\ TypeOK
  /\ \A n \in Nodes : NodeInv(node[n], log)
  /\ SyncsOnce
  /\ call = "idle" \/ (call = "release" /\ halted) => todo = {}
=============================================================================
