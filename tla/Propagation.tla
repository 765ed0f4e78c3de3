---------------------------- MODULE Propagation ----------------------------
(***************************************************************************)
(* The propagation layer below the computation protocol: PropagatingHub,   *)
(* which sequences events and broadcasts them to its nodes, and the        *)
(* catch-up of a PropagatingStateNode, which merges batches of the hub's   *)
(* log and takes snapshots of its state.                                   *)
(*                                                                         *)
(* Nodes are numbered in the order in which they are registered.  Unlike   *)
(* the protocol hub, this one does not catch what a node raises: the       *)
(* exception ends the broadcast or the release that it happens in.         *)
(***************************************************************************)
EXTENDS ReplicaNode, FiniteSets

CONSTANTS
  MaxNodes,      \* bound on the nodes registered
  MaxEvents,     \* bound on the hub's log
  MaxCalls,      \* bound on the adapter calls of a node, for repeated merges
  InitialNodes,  \* nodes registered before the first broadcast
  ExcludeSets,   \* sets of nodes that a broadcast may skip (exclude_nodes)
  DelaySets,     \* sets of nodes that a broadcast may delay (delay_nodes)
  MaxSnapshots   \* bound on the nodes that have a snapshot

Nodes == 1 .. MaxNodes

ASSUME PropagationAssumption ==
  /\ MaxNodes \in Nat \ {0}
  /\ InitialNodes \in Nodes
  /\ MaxEvents \in Nat
  /\ MaxCalls \in Nat
  /\ MaxSnapshots \in Nat
  /\ ExcludeSets \subseteq SUBSET Nodes
  /\ DelaySets \subseteq SUBSET Nodes

VARIABLES
  registered,  \* how many nodes are in hub.nodes
  log,         \* event_log: the payload of each causal id from 1
  node,        \* the nodes
  held,        \* _held_events: the ids withheld from each node, ascending
  snapshots,   \* _snapshot_history of each node: its state at committed ids
  call,        \* the loop in progress, "release" or "merge", or "idle"
  target,      \* the node of that loop
  todo,        \* the ids that the loop has left, in ascending order
  result       \* the MergeResult that the merge in progress has put together

vars == <<registered, log, node, held, snapshots, call, target, todo, result>>

Members == 1 .. registered
NextCausalId == Len(log) + 1
State(n) == AdapterState(node[n], log)

Applied(n) == Ids(node[n].applied)

(* batch and before, what the node had applied, are there for the properties. *)
NewResult(batch, before) ==
  [batch |-> batch, before |-> before, applied |-> {}, skipped |-> {},
   buffered |-> {}, success |-> TRUE]
NoResult == NewResult({}, {})

Init ==
  /\ registered = InitialNodes
  /\ log = <<>>
  /\ node = [n \in Nodes |-> NewNode]
  /\ held = [n \in Nodes |-> {}]
  /\ snapshots = [n \in Nodes |-> {}]
  /\ call = "idle"
  /\ target = 1
  /\ todo = {}
  /\ result = NoResult
-----------------------------------------------------------------------------
(* register_node: the new node starts from its initial state. *)
RegisterNode ==
  /\ call = "idle"
  /\ registered < MaxNodes
  /\ registered' = registered + 1
  /\ UNCHANGED <<log, node, held, snapshots, call, target, todo, result>>

(* The nodes that the loop of broadcast gets to: it ends at the first one   *)
(* that raises when it is given the event.                                  *)
Reached(given, cid, lg) ==
  {n \in Members :
     \A m \in given : m < n => ~ReceiveRaises(node[m], cid, lg)}

(* broadcast: sequence the event and log it, then give it, node by node, to *)
(* every node that is neither skipped nor delayed.  What one of them raises *)
(* leaves the nodes after it without the event.                             *)
Broadcast(event, skipped, delayed) ==
  /\ call = "idle"
  /\ Len(log) < MaxEvents
  /\ LET cid == NextCausalId
         lg == Append(log, event)
         given == Members \ (skipped \cup delayed)
         reached == Reached(given, cid, lg)
     IN  /\ log' = lg
         /\ node' = [n \in Nodes |-> IF n \in given \cap reached
                                       THEN Receive(node[n], cid, lg)
                                       ELSE node[n]]
         /\ held' = [n \in Nodes |-> IF n \in (delayed \cap reached) \ skipped
                                       THEN held[n] \cup {cid}
                                       ELSE held[n]]
  /\ UNCHANGED <<registered, snapshots, call, target, todo, result>>

(* release_held_events, entered. *)
ReleaseHeldEvents(n) ==
  /\ call = "idle"
  /\ n \in Members
  /\ held[n] # {}
  /\ Len(node[n].calls) <= MaxCalls
  /\ call' = "release"
  /\ target' = n
  /\ todo' = held[n]
  /\ UNCHANGED <<registered, log, node, held, snapshots, result>>

IsNext(cid) == cid \in todo /\ \A k \in todo : cid <= k

(* One turn of the loop of release_held_events.  If the node raises, the    *)
(* call ends and the list of held events stays as it was.                   *)
DeliverHeld(cid) ==
  /\ call = "release"
  /\ IsNext(cid)
  /\ node' = [node EXCEPT ![target] = Receive(@, cid, log)]
  /\ IF ReceiveRaises(node[target], cid, log)
       THEN call' = "idle" /\ target' = 1 /\ todo' = {}
       ELSE todo' = todo \ {cid} /\ UNCHANGED <<call, target>>
  /\ UNCHANGED <<registered, log, held, snapshots, result>>

(* release_held_events, after its loop. *)
Released ==
  /\ call = "release"
  /\ todo = {}
  /\ held' = [held EXCEPT ![target] = {}]
  /\ call' = "idle"
  /\ target' = 1
  /\ UNCHANGED <<registered, log, node, snapshots, todo, result>>
-----------------------------------------------------------------------------
(* get_event_slice *)
EventSlice(from, to) == (from .. to) \cap DOMAIN log

(* merge_event_batch, entered with a slice of the hub's log. *)
MergeEventBatch(n, from, to) ==
  /\ call = "idle"
  /\ n \in Members
  /\ EventSlice(from, to) # {}
  /\ Len(node[n].calls) <= MaxCalls
  /\ call' = "merge"
  /\ target' = n
  /\ todo' = EventSlice(from, to)
  /\ result' = NewResult(EventSlice(from, to), Applied(n))
  /\ UNCHANGED <<registered, log, node, held, snapshots>>

(* an exception goes unnoticed *)
ReportedFault(res, nd, cid) ==
  LET after == Receive(nd, cid, log)
  IN  CASE cid < nd.next -> [res EXCEPT !.skipped = @ \cup {cid}]
        [] cid >= nd.next ->
             IF after.next > nd.next
               THEN [res EXCEPT !.applied = @ \cup (nd.next .. after.next - 1)]
               ELSE res

(* the events that the arrival of this one released are not listed *)
ReportedOnceFault(res, nd, cid) ==
  LET after == Receive(nd, cid, log)
  IN  CASE cid < nd.next -> [res EXCEPT !.skipped = @ \cup {cid}]
        [] cid >= nd.next /\ ReceiveRaises(nd, cid, log) ->
             [res EXCEPT !.success = FALSE]
        [] cid >= nd.next /\ ~ReceiveRaises(nd, cid, log) ->
             IF after.next > nd.next
               THEN [res EXCEPT !.applied = @ \cup {cid}]
               ELSE [res EXCEPT !.buffered = @ \cup {cid}]

(* What a turn of the loop of merge_event_batch adds to the result: a       *)
(* committed event is skipped, an exception breaks off the loop, and what   *)
(* the node moved past has been applied.                                    *)
Reported(res, nd, cid) ==
  LET after == Receive(nd, cid, log)
  IN  CASE cid < nd.next -> [res EXCEPT !.skipped = @ \cup {cid}]
        [] cid >= nd.next /\ ReceiveRaises(nd, cid, log) ->
             [res EXCEPT !.success = FALSE]
        [] cid >= nd.next /\ ~ReceiveRaises(nd, cid, log) ->
             IF after.next > nd.next
               THEN [res EXCEPT !.applied = @ \cup (nd.next .. after.next - 1)]
               ELSE [res EXCEPT !.buffered = @ \cup {cid}]

(* One turn of the loop of merge_event_batch. *)
MergeOne(cid) ==
  /\ call = "merge"
  /\ IsNext(cid)
  /\ node' = [node EXCEPT ![target] = Receive(@, cid, log)]
  /\ result' = Reported(result, node[target], cid)
  /\ todo' = IF result'.success THEN todo \ {cid} ELSE {}
  /\ UNCHANGED <<registered, log, held, snapshots, call, target>>

(* merge_event_batch returns its result. *)
Merged ==
  /\ call = "merge"
  /\ todo = {}
  /\ call' = "idle"
  /\ target' = 1
  /\ result' = NoResult
  /\ UNCHANGED <<registered, log, node, held, snapshots, todo>>

(* the snapshot is stamped with the next id *)
ExportSnapshotFault(n) ==
  /\ call = "idle"
  /\ n \in Members
  /\ Cardinality({m \in Nodes \ {n} : snapshots[m] # {}}) < MaxSnapshots
  /\ snapshots' =
       [snapshots EXCEPT ![n] =
          {s \in @ : s.id # node[n].next}
          \cup {[id |-> node[n].next, state |-> State(n)]}]
  /\ UNCHANGED <<registered, log, node, held, call, target, todo, result>>

(* export_snapshot: it replaces an earlier one of the same committed id. *)
ExportSnapshot(n) ==
  /\ call = "idle"
  /\ n \in Members
  /\ Cardinality({m \in Nodes \ {n} : snapshots[m] # {}}) < MaxSnapshots
  /\ snapshots' =
       [snapshots EXCEPT ![n] =
          {s \in @ : s.id # Committed(node[n])}
          \cup {[id |-> Committed(node[n]), state |-> State(n)]}]
  /\ UNCHANGED <<registered, log, node, held, call, target, todo, result>>

Next ==
  \/ RegisterNode
  \/ \E event \in Payloads, skipped \in ExcludeSets, delayed \in DelaySets :
       Broadcast(event, skipped, delayed)
  \/ \E n \in Nodes : ReleaseHeldEvents(n)
  \/ \E cid \in todo : DeliverHeld(cid)
  \/ Released
  \/ \E n \in Nodes, from, to \in 1 .. MaxEvents : MergeEventBatch(n, from, to)
  \/ \E cid \in todo : MergeOne(cid)
  \/ Merged
  \/ \E n \in Nodes : ExportSnapshot(n)

Spec == Init /\ [][Next]_vars
-----------------------------------------------------------------------------
TypeOK ==
  /\ registered \in Nodes
  /\ log \in Seq(Payloads)
  /\ node \in [Nodes -> NodeType(log)]
  /\ held \in [Nodes -> SUBSET DOMAIN log]
  /\ \A n \in Nodes : \A s \in snapshots[n] : s.id \in 0 .. Len(log)
  /\ call \in {"idle", "release", "merge"}
  /\ target \in Nodes
  /\ todo \subseteq DOMAIN log
  /\ result.success \in BOOLEAN
  /\ UNION {result.batch, result.before, result.applied, result.skipped,
            result.buffered} \subseteq DOMAIN log

MergeIsOver == call = "merge" /\ todo = {}

(* A merge that succeeds catches the node up: when the batch starts no      *)
(* later than what the node has, the node is past its end, whatever was     *)
(* buffered, held, merged or rejected before.                               *)
MergeCatchesUp ==
  MergeIsOver /\ result.success =>
    LET nd == node[target]
    IN  (\E k \in result.batch : k <= nd.next) =>
          \A k \in result.batch : k < nd.next

(* What a MergeResult says is so: it lists exactly the events that the      *)
(* merge applied if it succeeded, and only such events if it did not; an    *)
(* event listed as buffered is in the buffer, and one listed as skipped was *)
(* applied before.                                                          *)
MergeReportsAreTrue ==
  MergeIsOver =>
    LET fresh == Applied(target) \ result.before
    IN  /\ result.applied \subseteq fresh
        /\ result.success => result.applied = fresh
        /\ result.buffered \subseteq node[target].buffer
        /\ result.skipped \subseteq Applied(target)

(* A snapshot is good for ever and for every node: when a node has          *)
(* committed the id of any node's snapshot, verify_matches_snapshot holds,  *)
(* as long as no event raises.                                              *)
SnapshotsAgree ==
  (\A k \in DOMAIN log : ~Raises(log[k])) =>
    \A m, n \in Nodes : \A s \in snapshots[m] :
      Committed(node[n]) = s.id => State(n) = s.state

(* The nodes' local logs are copies of the hub's log in the sense of the    *)
(* abstract specification: no batch, release or exception makes a node      *)
(* apply an event twice, out of order or in place of another.               *)
Abstract == INSTANCE SequencedLog WITH
              Nodes <- Nodes, Events <- Payloads, glog <- log,
              copy <- [n \in Nodes |-> LocalLog(node[n], log)]
ImplementsSequencedLog == Abstract!Spec
=============================================================================
