---------------------------- MODULE ReplicaNode ----------------------------
(***************************************************************************)
(* One replica of the distributed layer: DistributedStateNode, its         *)
(* extension PropagatingStateNode and the protocol node ProtocolNode.      *)
(*                                                                         *)
(* A node is a record of                                                   *)
(*   next     next_expected_causal_id                                      *)
(*   buffer   the causal ids in event_buffer                               *)
(*   applied  the causal ids in local_log, in order                        *)
(*   calls    the causal ids handed to adapter.apply_event_payload, in     *)
(*            order; it differs from applied by the calls that raised      *)
(*   synced   the causal ids of the SYNC steps in its acknowledgement log  *)
(*                                                                         *)
(* A causal id names an event of the hub's log lg, so a buffered event is  *)
(* its id.  The adapter is a deterministic object that the node only calls *)
(* through apply_event_payload: its state is a fold of calls.              *)
(***************************************************************************)
EXTENDS Naturals, Sequences

CONSTANTS
  Payloads,      \* what a proposal may carry
  SYNC,          \* the step type of a consensus check
  InitState,     \* the adapter's initial state
  Apply(_, _),   \* the adapter's state after apply_event_payload, also when it raises
  Raises(_)      \* the payloads on which apply_event_payload raises

ASSUME SyncIsNoPayload == SYNC \notin Payloads

Interval(a, b) == [i \in 1 .. (b + 1 - a) |-> a + i - 1]
Ids(s) == {s[i] : i \in DOMAIN s}

NewNode ==
  [next |-> 1, buffer |-> {}, applied |-> <<>>, calls |-> <<>>, synced |-> {}]

(* local_log: the events that the node applied. *)
LocalLog(nd, lg) == [i \in DOMAIN nd.applied |-> lg[nd.applied[i]]]

Committed(nd) == nd.next - 1
IsPartial(nd) == nd.buffer # {}

(* What the adapter was called with. *)
CallPayloads(nd, lg) == [i \in DOMAIN nd.calls |-> lg[nd.calls[i]]]

(* The state of an adapter that was given these payloads; its hash          *)
(* distinguishes these states.                                              *)
StateAfter(payloads) ==
  LET after[i \in 0 .. Len(payloads)] ==
        IF i = 0 THEN InitState ELSE Apply(after[i - 1], payloads[i])
  IN  after[Len(payloads)]

AdapterState(nd, lg) == StateAfter(CallPayloads(nd, lg))

-----------------------------------------------------------------------------
(* Definitions whose names end in Fault are variants that a mistake in the  *)
(* code would give; runs with them show that the properties notice it.      *)

(* The id at which the loop of _process_buffer ends: it is not buffered, or *)
(* it is popped and its application raises.                                 *)
DrainStop(nd, lg) ==
  CHOOSE k \in nd.next .. (Len(lg) + 1) :
    /\ k \notin nd.buffer \/ Raises(lg[k])
    /\ \A j \in nd.next .. (k - 1) : j \in nd.buffer /\ ~Raises(lg[j])

(* the increment of next_expected_causal_id is missing *)
ProcessBufferFault(nd, lg) ==
  IF nd.next \in nd.buffer /\ ~Raises(lg[nd.next])
    THEN [nd EXCEPT !.buffer = @ \ {nd.next},
                    !.applied = Append(@, nd.next),
                    !.calls = Append(@, nd.next)]
    ELSE nd

(* if instead of while: at most one event is applied *)
ProcessBufferOnceFault(nd, lg) ==
  IF nd.next \in nd.buffer /\ ~Raises(lg[nd.next])
    THEN [nd EXCEPT !.next = @ + 1,
                    !.buffer = @ \ {nd.next},
                    !.applied = Append(@, nd.next),
                    !.calls = Append(@, nd.next)]
    ELSE nd

(* _process_buffer: pop, apply, log and advance while the next event is     *)
(* buffered.  An event whose application raises has been popped and given   *)
(* to the adapter, and is neither logged nor counted.                       *)
ProcessBuffer(nd, lg) ==
  LET stop == DrainStop(nd, lg)
      tried == IF stop \in nd.buffer THEN stop ELSE stop - 1
  IN  [nd EXCEPT !.next = stop,
                 !.buffer = @ \ (nd.next .. stop),
                 !.applied = @ \o Interval(nd.next, stop - 1),
                 !.calls = @ \o Interval(nd.next, tried)]

Buffering(nd, cid) == [nd EXCEPT !.buffer = @ \cup {cid}]

(* an event is applied on arrival *)
ReceiveFault(nd, cid, lg) ==
  IF cid < nd.next \/ Raises(lg[cid])
    THEN nd
    ELSE [nd EXCEPT !.next = cid + 1,
                    !.applied = Append(@, cid),
                    !.calls = Append(@, cid)]

(* an event that does not come next is dropped *)
ReceiveDroppingFault(nd, cid, lg) ==
  IF cid # nd.next THEN nd ELSE ProcessBuffer(Buffering(nd, cid), lg)

(* receive_event: an old event is ignored, another one is buffered and the *)
(* buffer is processed.                                                    *)
Receive(nd, cid, lg) ==
  IF cid < nd.next THEN nd ELSE ProcessBuffer(Buffering(nd, cid), lg)

(* receive_event raises: an application in its loop does. *)
ReceiveRaises(nd, cid, lg) ==
  /\ cid >= nd.next
  /\ DrainStop(Buffering(nd, cid), lg) \in nd.buffer \cup {cid}

(* The SYNC branch of execute_sequenced_event: the node moves past the step *)
(* whatever it has committed, and acknowledges it.                          *)
ExecuteSync(nd, cid) ==
  [nd EXCEPT !.next = cid + 1, !.synced = @ \cup {cid}]

(* execute_sequenced_event *)
Execute(nd, cid, lg) ==
  IF lg[cid] = SYNC THEN ExecuteSync(nd, cid) ELSE Receive(nd, cid, lg)

(* The type of the acknowledgement that execute_sequenced_event returns. *)

(* buffering is acknowledged as application *)
AckTypeFault(nd, cid, lg) ==
  IF lg[cid] # SYNC /\ ReceiveRaises(nd, cid, lg) THEN "REJECTED" ELSE "APPLIED"

AckType(nd, cid, lg) ==
  CASE lg[cid] = SYNC -> "APPLIED"
    [] lg[cid] # SYNC /\ ReceiveRaises(nd, cid, lg) -> "REJECTED"
    [] lg[cid] # SYNC /\ ~ReceiveRaises(nd, cid, lg) ->
         IF Receive(nd, cid, lg).next > nd.next THEN "APPLIED" ELSE "BUFFERED"

Rejects(nd, cid, lg) == AckType(nd, cid, lg) = "REJECTED"
-----------------------------------------------------------------------------
(* What is true of a node between two calls, whatever it was given of the   *)
(* log lg, in whatever order.                                               *)
EventIdsOf(lg) == {k \in DOMAIN lg : lg[k] # SYNC}
SyncIdsOf(lg) == {k \in DOMAIN lg : lg[k] = SYNC}

NodeType(lg) ==
  [next : 1 .. (Len(lg) + 1),
   buffer : SUBSET EventIdsOf(lg),
   applied : Seq(EventIdsOf(lg)),
   calls : Seq(EventIdsOf(lg)),
   synced : SUBSET SyncIdsOf(lg)]

(* no SYNC from j up to and without k *)
SyncFree(j, k, lg) == \A i \in j .. (k - 1) : lg[i] # SYNC

Distinct(s) == \A i, j \in DOMAIN s : s[i] = s[j] => i = j

(* The ids at which the node has been: those it applied, and the next.  *)
Visited(nd) == Ids(nd.applied) \cup {nd.next}

NextIsNew(nd) == nd.next \notin Ids(nd.applied)

(* All that precedes a visited id in its epoch has been applied. *)
EpochClosed(nd, lg) ==
  \A k \in Visited(nd) : \A j \in 1 .. (k - 1) :
    SyncFree(j, k, lg) => j \in Ids(nd.applied)

(* The node can only have got past a SYNC by executing it. *)
SyncsExecuted(nd, lg) ==
  \A k \in Visited(nd) : k - 1 \in SyncIdsOf(lg) => k - 1 \in nd.synced

AppliedInEpochOrder(nd, lg) ==
  \A i \in DOMAIN nd.applied : \A j \in 1 .. (nd.applied[i] - 1) :
    SyncFree(j, nd.applied[i], lg) => \E h \in 1 .. (i - 1) : nd.applied[h] = j

(* Without a SYNC, the node's log is the start of the hub's. *)
LogIsPrefix(nd, lg) ==
  SyncIdsOf(lg) = {} =>
    /\ Len(nd.applied) = nd.next - 1
    /\ \A i \in 1 .. Len(nd.applied) : nd.applied[i] = i

(* Without exceptions, the adapter is given what is logged. *)
CallsAreApplied(nd, lg) ==
  (\A k \in EventIdsOf(lg) : ~Raises(lg[k])) => nd.calls = nd.applied

NodeInv(nd, lg) ==
  /\ nd \in NodeType(lg)
  /\ NextIsNew(nd)
  /\ Distinct(nd.applied)
  /\ EpochClosed(nd, lg)
  /\ SyncsExecuted(nd, lg)
  /\ AppliedInEpochOrder(nd, lg)
  /\ LogIsPrefix(nd, lg)
  /\ CallsAreApplied(nd, lg)
=============================================================================
