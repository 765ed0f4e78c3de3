---------------------------- MODULE PhysicalHub ----------------------------
(***************************************************************************)
(* The physical layer: a hub (PhysicalExecutionHub) that sequences         *)
(* proposals for nodes (PhysicalStateNode), each of which runs batches of  *)
(* zone transitions (MultiZoneExecutor) and keeps a chain of transition    *)
(* records (DeterministicTransitionEngine).                                *)
(*                                                                         *)
(* Unlike the nodes of the computation protocol these do not buffer: an    *)
(* event is executed on arrival, and an older one is taken for applied.    *)
(* Every call is a step, but for a release, which delivers an event at a   *)
(* time: no exception leaves the loops over deliveries.                    *)
(*                                                                         *)
(* The state of a zone is its roughness, the quantity that may also fall:  *)
(* it is clamped at 0, so that the order of events matters.                *)
(***************************************************************************)
EXTENDS Integers, FiniteSets, SequencesExt

CONSTANTS
  MaxNodes,     \* bound on the nodes registered
  InitialNodes, \* nodes registered before the first proposal
  ZoneCount,    \* the zones of the ship, in the order of their sorted ids
  ProposalIds,  \* the proposal ids that clients use
  Batches,      \* what a proposal may carry: a change for each of some zones
  Malformed     \* a change that is no number, which only its use discovers

Nodes == 1 .. MaxNodes
Zones == 1 .. ZoneCount

ASSUME PhysicalAssumption ==
  /\ MaxNodes \in Nat \ {0}
  /\ InitialNodes \in Nodes
  /\ ZoneCount \in Nat \ {0}
  /\ \A b \in Batches : \A z \in DOMAIN b : b[z] = Malformed \/ b[z] \in Int

VARIABLES
  registered,  \* how many nodes are in hub.nodes
  options,     \* the arguments of the hub's constructor
  event_log,   \* _event_log: the proposal and the batch of each causal id
  seen,        \* _seen_proposals
  node,        \* the nodes
  held,        \* _held_events: the ids withheld from each node
  release,     \* the release_held_events in progress: its node, or 0, and
               \* the ids that it has yet to deliver
  halted,      \* _halted
  acks         \* the acknowledgements that the last call returned

vars == <<registered, options, event_log, seen, node, held, release, halted, acks>>

Members == 1 .. registered
Smooth == [z \in Zones |-> 0]

NewNode ==
  [next    |-> 1,       \* next_expected_causal_id
   state   |-> Smooth,  \* the executor's state vector
   records |-> <<>>,    \* the engine's transition records, those of a batch together
   batches |-> <<>>]    \* the executor's batch log

NoRelease == [node |-> 0, left |-> <<>>]

Init ==
  /\ registered = InitialNodes
  /\ options \in [halt_on_rejection : BOOLEAN, halt_on_divergence : BOOLEAN]
  /\ event_log = <<>>
  /\ seen = {}
  /\ node = [n \in Nodes |-> NewNode]
  /\ held = [n \in Nodes |-> <<>>]
  /\ release = NoRelease
  /\ halted = FALSE
  /\ acks = {}
-----------------------------------------------------------------------------
(* The roughness after a transition. *)
Transition(roughness, rate) == IF roughness + rate < 0 THEN 0 ELSE roughness + rate

(* A batch names an unknown zone, which is noticed first, or has a change   *)
(* that is no number.                                                       *)
Raises(batch) ==
  \/ ~(DOMAIN batch \subseteq Zones)
  \/ \E z \in DOMAIN batch : batch[z] = Malformed

(* The zones for which the engine has recorded a transition when the batch  *)
(* is over: all, or those before the malformed one.                         *)
RecordedZones(batch) ==
  IF DOMAIN batch \subseteq Zones
    THEN {z \in DOMAIN batch : \A y \in DOMAIN batch : y <= z => batch[y] # Malformed}
    ELSE {}

Record(state, batch, z) ==
  [zone |-> z, pre |-> state[z], post |-> Transition(state[z], batch[z])]

(* apply, for zone after zone of the batch: the records follow the zones'   *)
(* sorted ids.                                                              *)
Apply(records, state, batch) ==
  IF RecordedZones(batch) = {}
    THEN records
    ELSE Append(records, {Record(state, batch, z) : z \in RecordedZones(batch)})

Updated(state, batch) ==
  [z \in Zones |-> IF z \in RecordedZones(batch)
                     THEN Transition(state[z], batch[z])
                     ELSE state[z]]

(* The entry of the batch log.  A record's hash covers the record before it, *)
(* and so does a batch's: what it covers is the chain of records so far.     *)
Batch(cid, state, records) == [cid |-> cid, post |-> state, hash |-> records]

(* the zones are updated one by one *)
ExecuteBatchFault(nd, cid, batch) ==
  LET new == Updated(nd.state, batch)
      done == [nd EXCEPT !.records = Apply(@, nd.state, batch), !.state = new]
  IN  IF Raises(batch)
        THEN done
        ELSE [done EXCEPT !.batches = Append(@, Batch(cid, new, done.records))]

(* execute_batch: the engine records transition after transition, the state *)
(* and the batch log change only when all succeeded.                        *)
ExecuteBatch(nd, cid, batch) ==
  LET new == Updated(nd.state, batch)
      recorded == [nd EXCEPT !.records = Apply(@, nd.state, batch)]
  IN  IF Raises(batch)
        THEN recorded
        ELSE [recorded EXCEPT !.state = new,
                              !.batches = Append(@, Batch(cid, new, recorded.records))]

(* the test for old events is missing *)
ExecuteEventFault(nd, cid, batch) ==
  ExecuteBatch([nd EXCEPT !.next = cid + 1], cid, batch)

(* execute_event: an old event is not executed; any other one moves the     *)
(* node past it, whether or not it raises and whatever the node lacks.      *)
ExecuteEvent(nd, cid, batch) ==
  IF cid < nd.next
    THEN nd
    ELSE ExecuteBatch([nd EXCEPT !.next = cid + 1], cid, batch)

Ack(n, nd, cid, batch) ==
  [node |-> n, cid |-> cid,
   type |-> IF cid >= nd.next /\ Raises(batch) THEN "REJECTED" ELSE "APPLIED"]
-----------------------------------------------------------------------------
RegisterNode ==
  /\ release = NoRelease
  /\ registered < MaxNodes
  /\ registered' = registered + 1
  /\ acks' = {}
  /\ UNCHANGED <<options, event_log, seen, node, held, release, halted>>

(* off by one *)
ConsensusFault(nodes, given) ==
  Cardinality({nodes[a.node].state : a \in {b \in given : b.type = "APPLIED"}}) <= 2

(* The nodes that acknowledged the event as applied have the same hash. *)
Consensus(nodes, given) ==
  \A a, b \in given :
    a.type = "APPLIED" /\ b.type = "APPLIED" => nodes[a.node].state = nodes[b.node].state

(* submit *)
Submit(p, batch, delayed) ==
  /\ release = NoRelease
  /\ ~halted
  /\ p \notin seen
  /\ seen' = seen \cup {p}
  /\ event_log' = Append(event_log, [proposal |-> p, batch |-> batch])
  /\ LET cid == Len(event_log) + 1
         reached == Members \ delayed
         given == {Ack(n, node[n], cid, batch) : n \in reached}
     IN  /\ node' = [n \in Nodes |-> IF n \in reached
                                       THEN ExecuteEvent(node[n], cid, batch)
                                       ELSE node[n]]
         /\ held' = [n \in Nodes |-> IF n \in Members \cap delayed
                                       THEN Append(held[n], cid)
                                       ELSE held[n]]
         /\ acks' = given
         /\ halted' =
              \/ /\ options.halt_on_rejection
                 /\ \E a \in given : a.type = "REJECTED"
              \/ options.halt_on_divergence /\ ~Consensus(node', given)
  /\ UNCHANGED <<registered, options, release>>

(* submit of a proposal that cannot be parsed: its id has been remembered. *)
SubmitUnreadable(p) ==
  /\ release = NoRelease
  /\ ~halted
  /\ p \notin seen
  /\ seen' = seen \cup {p}
  /\ acks' = {}
  /\ UNCHANGED <<registered, options, event_log, node, held, release, halted>>

(* release_held_events, for a node for which events are held. *)
ReleaseHeldEvents(n) ==
  /\ release = NoRelease
  /\ ~halted
  /\ n \in Members
  /\ held[n] # <<>>
  /\ release' = [node |-> n, left |-> held[n]]
  /\ acks' = {}
  /\ UNCHANGED <<registered, options, event_log, seen, node, held, halted>>

(* the loop goes on after a rejection that halts *)
DeliverHeldFault(n) ==
  /\ release.node = n
  /\ LET cid == Head(release.left)
         batch == event_log[cid].batch
         ack == Ack(n, node[n], cid, batch)
         stops == options.halt_on_rejection /\ ack.type = "REJECTED"
         over == Tail(release.left) = <<>>
     IN  /\ node' = [node EXCEPT ![n] = ExecuteEvent(@, cid, batch)]
         /\ acks' = acks \cup {ack}
         /\ halted' = (halted \/ stops)
         /\ release' = IF over THEN NoRelease
                               ELSE [release EXCEPT !.left = Tail(@)]
         /\ held' = IF over THEN [held EXCEPT ![n] = <<>>] ELSE held
  /\ UNCHANGED <<registered, options, event_log, seen>>

(* One turn of its loop; after the last one the list of held events is      *)
(* emptied, also if a rejection has ended the loop.                         *)
DeliverHeld(n) ==
  /\ release.node = n
  /\ LET cid == Head(release.left)
         batch == event_log[cid].batch
         ack == Ack(n, node[n], cid, batch)
         stops == options.halt_on_rejection /\ ack.type = "REJECTED"
         over == stops \/ Tail(release.left) = <<>>
     IN  /\ node' = [node EXCEPT ![n] = ExecuteEvent(@, cid, batch)]
         /\ acks' = acks \cup {ack}
         /\ halted' = stops
         /\ release' = IF over THEN NoRelease
                               ELSE [release EXCEPT !.left = Tail(@)]
         /\ held' = IF over THEN [held EXCEPT ![n] = <<>>] ELSE held
  /\ UNCHANGED <<registered, options, event_log, seen>>

Next ==
  \/ RegisterNode
  \/ \E p \in ProposalIds, batch \in Batches, delayed \in SUBSET Nodes :
       Submit(p, batch, delayed)
  \/ \E p \in ProposalIds : SubmitUnreadable(p)
  \/ \E n \in Nodes : ReleaseHeldEvents(n) \/ DeliverHeld(n)

Spec == Init /\ [][Next]_vars
-----------------------------------------------------------------------------
CausalIds == DOMAIN event_log
RecordChain == Seq(SUBSET [zone : Zones, pre : Nat, post : Nat])
BatchType == [cid : CausalIds, post : [Zones -> Nat], hash : RecordChain]
NodeType ==
  [next    : 1 .. (Len(event_log) + 1),
   state   : [Zones -> Nat],
   records : RecordChain,
   batches : Seq(BatchType)]
AckType == [node : Nodes, cid : CausalIds, type : {"APPLIED", "REJECTED"}]

(* The types of the variables.  No node is past the hub's log. *)
TypeOK ==
  /\ registered \in Nodes
  /\ options \in [halt_on_rejection : BOOLEAN, halt_on_divergence : BOOLEAN]
  /\ event_log \in Seq([proposal : ProposalIds, batch : Batches])
  /\ seen \subseteq ProposalIds
  /\ node \in [Nodes -> NodeType]
  /\ held \in [Nodes -> Seq(CausalIds)]
  /\ release \in [node : 0 .. MaxNodes, left : Seq(CausalIds)]
  /\ halted \in BOOLEAN
  /\ acks \subseteq AckType

Executed(nd) == [i \in DOMAIN nd.batches |-> nd.batches[i].cid]

(* replay: a new executor is given the batches that the node has logged. *)
Replays(nd) ==
  LET r[i \in 0 .. Len(nd.batches)] ==
        IF i = 0
          THEN NewNode
          ELSE LET cid == nd.batches[i].cid
               IN  ExecuteBatch(r[i - 1], cid, event_log[cid].batch)
  IN  r

Replay(nd) == Replays(nd)[Len(nd.batches)]

Steps(nd) == [i \in DOMAIN nd.batches |-> <<nd.batches[i].cid, nd.batches[i].post>>]

(* Batches are atomic and replay is the proof of the state: the logged      *)
(* batches lead a new executor through the node's states, also when other   *)
(* batches failed half way; and, as long as no batch failed, to the same    *)
(* chain of transition records and to the same hashes of the batches.       *)
ReplayReproduces ==
  \A n \in Members :
    LET replayed == Replay(node[n])
    IN  /\ replayed.state = node[n].state
        /\ Steps(replayed) = Steps(node[n])
        /\ (\A cid \in CausalIds : ~Raises(event_log[cid].batch)) =>
             /\ replayed.records = node[n].records
             /\ replayed.batches = node[n].batches

(* No node executes a proposal twice, nor two in another order than the     *)
(* hub's, whatever was delayed, refused and submitted again.                *)
ExecutedOnceInOrder ==
  \A n \in Members : \A i, j \in DOMAIN node[n].batches :
    i < j =>
      LET a == Executed(node[n])[i]
          b == Executed(node[n])[j]
      IN  a < b /\ event_log[a].proposal # event_log[b].proposal

(* With both options, a submit that delays no node leaves all nodes in the  *)
(* same state or the hub halted, however they had diverged before: through  *)
(* events delayed for some, or because a node registered late.              *)
DivergenceIsNoticed ==
  [][/\ event_log' # event_log /\ held' = held
     /\ options.halt_on_rejection /\ options.halt_on_divergence
     /\ ~halted'
     => \A m, n \in Members : node'[m].state = node'[n].state]_vars

(* A rejected event changes no zone, and a halted hub changes no node: after *)
(* a release that halted, no event that it held back reaches the node.      *)
NothingAfterRejection ==
  [][\A n \in Members : options.halt_on_rejection =>
      LET rejections == {a \in acks' : a.node = n /\ a.type = "REJECTED"}
      IN  /\ rejections # {} => halted'
          /\ \A a \in rejections : \A i \in DOMAIN node'[n].batches :
               node'[n].batches[i].cid < a.cid
          /\ halted => node'[n] = node[n]]_vars
=============================================================================
