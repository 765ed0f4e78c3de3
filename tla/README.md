# Verification of the distributed layer

TLA+ models of the stateful parts of this repository: the deterministic
distributed layer (the replica nodes, the hubs that sequence events for them,
the engine that replays what a node missed, the adapters they drive), the
quantum foundation of cycles 1 to 5 and its network of nodes (cycle 9), and two
servers of the embedded karma tracker.  The models are translated from the
Python code; where a document says something else the code wins and the
difference is recorded (see *Disagreements*).

## 1. The system

### Components, their state and operations

| Component (source) | State | Operations |
|---|---|---|
| Replica node: `DistributedStateNode`, `PropagatingStateNode`, `ProtocolNode` (`distributed_state_node.py`, `distributed_state_propagation.py`, `computation_protocol.py:140-224`) | `next_expected_causal_id`, `event_buffer`, `local_log`, the adapter, the ack log | `receive_event`, `_process_buffer`, `execute_sequenced_event`, `merge_event_batch`, snapshots |
| Protocol hub: `ComputationProtocolHub` (`computation_protocol.py:227-462`) | `nodes`, `_global_causal_id`, `_event_log`, `_pending_held`, `_halted` | `register_node`, `submit` (exclude, delay), `release_held_events`, `get_event_slice`, `check_full_consensus` |
| Reconciliation engine (`reconciliation_engine.py`) | reports only; it moves the nodes | `reconcile_all`, `reconcile_node` |
| Invariant checker (`distributed_invariant_check.py`) | reports; halts the hub | `run_full_suite`, `run_and_halt_if_failed` |
| Marine adapter (`adapters/marine/marine_adapter.py`) | five quantities per hull zone | `apply_event_payload`, `get_global_hash` |
| Execution interface (`execution_interface.py`, `stress_simulation.py`) | one hub shared by request threads | `/execute`, `/metrics` |
| Broadcast hub: `PropagatingHub` (`distributed_state_propagation.py:245-360`) | log, held events | `broadcast`, `release_held_events`, slices |
| Physical hub (`physical_engine/execution_interface_v2.py`) | log, held events, proposal ids seen, halted | `submit`, `release_held_events`, consensus |
| Batch executor and transition engine (`physical_engine/multi_zone_executor.py`, `transition_engine.py`) | ship state, batch chain, record chain | `execute_batch`, `replay`, chain verification |
| Input ordering (`physical_engine/latency_ordering.py`) | delayed inputs, latency statistics | `enqueue`, flush |
| Node network, cycle 9 (`cycle9/`) | per node: lifecycle, Lamport clock, seen ids, timeline, tokens | `evolve`, `measure`, `receive_event`, `seal`, bus routing |
| Quantum foundation (`cycle1`-`cycle5`, `full_stack_integration_harness.py`) | the logs and tokens of two engines, one causal timeline with seals, the error layer's ideal and physical states, the no-go layer's history | `evolve_*`, `measure_*`, `apply_correction`, `compensate`, seals |
| Linear algebra (`cycle6`-`cycle8`) | vectors and matrices | pure computation |
| Karma tracker (`karma-tracker/routes`, `utils`) | the collections of one MongoDB database: users, plans, debts, transactions, deaths, events | log an action, redeem, appeal, atone, owe and repay, death and rebirth, the gateway |
| Karma broadcast server (`karma-tracker/utils/unreal_broadcast.py`) | table of clients, event queue | connect, disconnect, `broadcast_event`, `process_queue`, `send_to_client` |
| Rest of `sankalps_intelli_layer`, `dhiraj_simulation_layer` | separate embedded projects and documents | not called by the layers above |

### How they interact

A client hands the hub a *proposal*.  The hub gives it the next causal id,
appends it to its log and delivers it, in registration order and within the
call, to each node that is neither skipped (`exclude_nodes`, a lost delivery)
nor delayed (`delay_nodes`, kept in `_pending_held` until
`release_held_events`).  A node applies events in causal order: one that comes
too early waits in `event_buffer`, and `_process_buffer` applies every event
that has become next by calling `adapter.apply_event_payload`, which may raise.
A `SYNC` step is not given to the adapter: the node answers with its hash and
sets its position past the step.  A rejection, or a SYNC that shows two hashes,
halts the hub if the matching option is set.  The reconciliation engine asks the
hub for slices of its log and calls `receive_event` of lagging nodes directly,
without acknowledgements and without asking whether the hub is halted.  The
checker halts the hub when nodes differ or buffer events.

All these calls are synchronous.  The hard part is therefore the order of
*calls* and of *deliveries*, exceptions in the middle of a loop, and the four
writers of a node's position (drain loop, SYNC, replay, release).  The
broadcast hub is the same node below a simpler hub, which does not catch what a
node raises.  In the foundation three layers drive two engines and record in
one timeline; the layers are public, so that their calls alternate in any order
and each meets what the others have done.  Cycle 9 puts a whole foundation into
every node and lets the nodes broadcast to each other.

Three components run concurrently: the HTTP interface, whose handlers run on a
thread pool over one hub; the karma tracker, whose workers share nothing but
the database and read, compute and write in separate accesses; and the
broadcast server, whose coroutines may change the table of clients at every
`await`.

### What makes each component correct

- *Replica node*: applies no event twice, in causal order and without gaps
  between SYNC steps; never rests with the next event in its buffer.
- *Protocol hub*: one sequence; every copy is a prefix of it; a delayed event
  is not lost; acknowledgements are truthful; a halt is final.
- *Reconciliation*: idempotent, never reorders; every node catches up.
- *Adapter*: deterministic, so that equal sequences give equal hashes.
- *Execution interface*: concurrent requests get distinct causal ids and reach
  all nodes in one order.
- *Physical hub and executor*: no proposal is executed twice; divergence and
  rejections halt the hub; a batch is all or nothing; replay reproduces a node.
- *Node network*: a node applies an event at most once; clocks respect
  causality; nodes agree until a call raises; a sealed node is frozen.
- *Broadcast hub*: a merge that succeeds catches a node up and reports what it
  did; snapshots of one id agree.
- *Quantum foundation*: the timeline accounts for the logs of the engines; what
  was measured is never brought back; a seal holds; the no-go layer goes on
  only from its own history; the error model knows the information lost.
- *Karma tracker*: a balance changes by what a request writes to it, and what
  is forgotten is forgotten whole, by requests that overlap; debts and plans are
  honoured; lives are linked; the audit record tells how a request ended.
- *Broadcast server*: a client gets events in order and once; nobody who stays
  is skipped or unregistered; a broadcast ends.

## 2. Plan

Modules in the order of importance; all of these are written.

1. `ReplicaNode`: one node, as operators on a node record.
2. `ComputationProtocol`: hub, nodes, reconciliation and checker composed;
   `SequencedLog`: the abstract specification that it implements.
3. `MarineAdapter`, `MCComputationProtocol`: a concrete adapter and the TLC model.
4. `ProtocolClaims`: what documents promise and the code does not keep.
5. `ConcurrentSubmit`: requests on several threads, one step per shared access
   of `submit`; under a lock it implements `SequencedLog`.
6. `Propagation`: the broadcast hub and batch merges over the same `ReplicaNode`
   and `MarineAdapter`; it implements `SequencedLog` as well.
7. `PhysicalHub` with executor and record chain.
8. `QuantumFoundation`: cycles 1 to 5; `NodeNetwork`: cycle 9, with what its
   nodes use of the foundation.
9. `KarmaRules` and `KarmaTracker`: tables and handlers of the karma tracker;
   `UnrealBroadcast`: its websocket server.
10. For each of 2 and 5 to 9 a module of proofs: `ReplicaNodeProofs`,
    `ComputationProtocolProofs`, `ConcurrentSubmitProofs`, `PropagationProofs`,
    `PhysicalHubProofs`, `QuantumFoundationProofs`, `NodeNetworkProofs`, and
    `KarmaServerProofs` for both parts of the karma server.

What could follow: the STP bridge with its retries and nonces, once the server
calls it; the delayed input queue, once the physical hub uses it.

## 3. Modules and code

**`ReplicaNode`**.  A node is a record `next` (`next_expected_causal_id`),
`buffer`, `applied` (the ids in `local_log`), `calls` (the ids handed to the
adapter: those applied and those on which it raised) and `synced`.  An id names
an entry of the hub's log, as it does in the code, where the buffer is keyed by
causal id and all events are created by the hub.  `ProcessBuffer` is the whole
`while` loop: it pops, applies, logs and advances until the next event is not
buffered or its application raises; then that event is popped, handed to the
adapter, and neither logged nor counted (`distributed_state_node.py:39-49`).
`Execute` and `AckType` are `execute_sequenced_event`: the exception becomes a
`REJECTED` ack, and the other answer depends on whether the position advanced.
`ExecuteSync` sets the position whatever the node has committed, and leaves the
buffer unprocessed, as lines 180-187 do.  The adapter is abstract: `Apply` and
`Raises` are constants, and its state is the fold of `calls`.

**`ComputationProtocol`**.  One action per call of the hub; the calls that loop
over deliveries to one node or many (`release_held_events`, `reconcile_all`,
`reconcile_node`) take one step per delivery, with the rest in `todo`, because
an exception or a halt may end them half way.  `submit` is one step: nodes do
not see each other, so the order of its deliveries cannot be observed, and a
rejection does not stop them (line 326 halts and goes on).  `EventSlice` keeps
the code's `to_id=0` convention.  `Reference` is Python's `max` (the first
maximum in registration order).  `acks` holds what the last hub call returned.
Not represented: receipts and reports that are only read, `proposal_id`
(the hub does not compare it), and `max_buffer` statistics.

**`MarineAdapter`**.  Coverage per zone, clamped between 0 and `Full`: the
clamp is what makes the order of events matter.  The other four quantities are
clamped in the same way or only grow, and tell no more apart.  Unknown zones
are swallowed as in line 73-75; a malformed entry raises after the entries
before it took effect.

**`SequencedLog`**.  One sequence and per-node copies that are prefixes of it
and only grow.  `ComputationProtocol`, `Propagation` and `ConcurrentSubmit` map
the hub's log to the sequence and each `local_log` to a copy.  For the first
this is meant only for executions without SYNC, because a SYNC moves a node past
events it does not have, and for the last only for those under the lock.

**`ConcurrentSubmit`**.  FastAPI runs the handlers of `/execute` on a thread
pool, and `execution_interface.py:53` calls `submit` without a lock; the stress
simulation calls it under `sequencer_lock` (lines 71-72).  The module has one
action per access to shared state, in the order of `submit`, `receive_event`
and `_process_buffer`, and the constant `Locking` says whether a request takes
the lock.  `+=` is a load and a store.  The `while` condition reads position
and buffer in one step; everything between two accesses is local to the
thread.  `Pop` raises when the event that `Test` saw was taken by another
thread, which becomes a rejection like any exception of the adapter
(`Reject`).  A payload is only its request and whether the adapter raises on
it; `calls` stands for the adapter's state.  A stress client ends when the hub
refuses its request (`Stopped`); a handler answers and the next request comes.
The receipts, the ack log and the fields `state_hash` and `consensus` of a
response are left out.

**`Propagation`**.  `ReplicaNode` below `PropagatingHub`.  A broadcast is one
step: the first node that raises ends its loop, so `Reached` are the nodes before
which none raises; the event is in the log, and the others never get it.  A
release and a merge take one step per event.  A release that raises leaves the
whole list of held events, so that what was delivered is delivered again.  `merge_event_batch`
classifies each event of a batch (skipped, applied, buffered) around
`receive_event`, and `result` is the `MergeResult` it returns; `batch` and
`before` in it are there for the properties.  The hash of a snapshot is the
adapter's state.

**`PhysicalHub`**.  The hub of `execution_interface_v2.py`.  A `submit` is one
step: no exception leaves its loop, because `execute_event` turns it into an
ack, and nodes do not see each other.  A release takes one step per held event
(`release` says whose list it is and what is left), because a rejection may end
it half way.  A node is a record of its position, the executor's state vector,
the engine's records and the batch log.  `ExecuteBatch` follows `execute_batch`:
zone ids are checked first; then the engine appends a record per zone in sorted
order and may raise on a later one; state and batch log change at the end.  The
sorted ids fix the order of a batch's records, so the chain is a sequence of
sets of them.  A hash stands for what it covers: a batch's `hash` is the chain
of records so far.  A ship's zone is its roughness, the one quantity that may
grow and shrink and is clamped; an input without a usable number (`Malformed`)
passes `TransitionInput.__post_init__`, which does not look at
`roughness_rate`, and raises in the transition.  `SubmitUnreadable` is a
proposal that cannot be parsed, whose id is remembered nevertheless.  The
options of the constructor are chosen in `Init`.  `CallPayloads` and
`StateAfter` recompute a node's state from its logged batches; only properties
use them.

**`QuantumFoundation`**.  Every call of the layers is a step, and a call that
raises before it changed anything is none.  Two calls raise later and keep what
they did: a strict evolution with noise has let the state engine observe
(`lost`, an auxiliary variable, remembers those deltas), and a refused strict
measurement has consumed its token.  A quantum state is the state that rules led
to from the initial one or from a measured basis state, and a flag says whether
noise moved its phase; the amplitudes themselves are outside what TLC can
compute, so what a seed can select (`Possible`), what a measurement loses
(`Loss`) and which states have fidelity 0 (`Orthogonal`) are constants, and
`MCQuantumFoundation` gives them for one qubit.  Only projective
measurements are modelled: the layers are built with that policy, and only
`integration_demo.py` also registers the weak one.

**`NodeNetwork`**.  One action per call of a node, `Call` for `evolve`,
`measure` and `seal`: the clock ticks, the harness acts or raises, the event is
marked as seen and routed.  `Route` is what the loop of `_route` leaves behind:
the first exception of a peer ends it, so `Reached` are the peers before which
none raises; the exception passes through the caller (`RouteRaises`), whose
node keeps what it has done.  `Perform` and `Fails` are the harness
(`full_stack_integration_harness.py`) with the engines below it: an unknown rule
raises before anything changes; a consumed token too; a measurement of a state
without entropy raises after the token was consumed and the collapse counted
(`cycle5/nogo_enforcement.py:132`); a seal raises if nothing was recorded since
the last one.  A peer that receives a SEAL seals its timeline and stays active.
A quantum state is the sequence of rules applied, since a measurement does not
feed its result back; `Definite` says which states have no entropy, and
`MCDefinite` gives it for the initial state |0>: those that no Hadamard gate has
touched.  Timeline entries carry the id of their event, which the code does not
store.  `Redeliver` hands an event of the bus log to a node again, as the
adversarial tests do.  `Init` is the standard network or blank nodes.

**`KarmaRules`, `KarmaTracker`**.  `KarmaRules` holds the tables of `config.py`
and the pure functions over them, in integers: hundredths of a token, thousandths
of a score.  `KarmaTracker` has one step per access of a handler to the
database.  A request is a record with the document it has read (`doc`), where it
stands and which writes it has made; any step of it may fail instead (the worker
stops, or the database raises and the handler records it).  A request ends
*done*, *rejected* for its contents, *failed*, or *raised*: by an exception that
its own handler meets.

Two steps of the code always meet one.  `database.py:19-25` builds a client that
is not `tz_aware`, so a date that is read from the database is naive, and
`utils/tokens.py:13` subtracts it from an aware time, which is a `TypeError`.
So `last_decay` is modelled by what a reader gets: "naive" from the database,
"aware" in the copy of the request that has just made the document
(`utils_user.py:24-34`), "absent" in a document without one (a rebirth,
`karma_lifecycle.py:272-284`, or a simulated life).  `ApplyDecayAndExpiry`
raises in the first case; in the others no time or hardly any has passed since
the missing or fresh date, and it either does nothing or writes the whole copy
of the balances, nothing of which has decayed, with a date.  From then on log,
redeem, view, profile and the end of `/submit-atonement/` raise for that user,
while appeals, proofs, debts, deaths, rebirths and the Prarabdha counter, which
skip the decay, work.  In the same way `log_action.py:56` cannot tell the age of
a stored cheat: `UpdateBalance` raises when there is one, and each punishment is
that of a first offence.

`apply_paap_tokens` and, where it succeeds, `apply_decay_and_expiry` write whole
balances that were read some steps before, and `update_prarabdha` sets a sum: an
update in between is forgotten.  `AccountsAreKept` says how far that goes.
`Missing` is what the writes made for a user since the document was inserted
(`born`, an auxiliary field) come to, less what the balance shows; a step either
leaves it as it is, or it is the sum of some of the writes, none of them split
or doubled, and requests overlap.  Once a user is `Settled` (the document has a
date, and no request that can still write balances whole is under way, which is
for good) only the counter of PrarabdhaKarma can forget a write.  The
collections have no unique index, so a user that two requests create at once has
two documents, of which the first is found.  The death and rebirth endpoints of
`routes/v1/karma/lifecycle.py` are thin wrappers of the functions modelled here
(`prarabdha`, `process`, `rebirth`).

**`UnrealBroadcast`**.  Coroutines switch only at an `await`, so that an action
runs from one to the next: a handler up to its first `recv`, a task of the
server up to the next `send`.  `clients` is the table of a Python dictionary
(deleted entries stay empty, a key assigned again stays in its place), because
what an iteration sees while others insert and delete is its table; with at most
five insertions CPython does not rebuild it, which bounds `MaxConnections`.
There are two tasks that call `process_queue`, the server's loop and the
simulation (`scripts/unreal_simulation.py:38-57`).  The subscription test always
passes, because the handler subscribes every client to every type.  A server
that stopped is not started again.

Definitions ending in `Fault` are plausible mistakes in the mapped code,
used to show that each property can fail.

## 4. Runs

| Run | Configuration | Shows |
|---|---|---|
| `sync` | 2 nodes, one registered late, 3 proposals of any payload or SYNC, one node skipped, any delayed, no halting | no event is applied twice, nor out of order between two SYNC steps, where positions jump forwards and backwards; without a SYNC the buffers flush and the acks are truthful |
| `halting` | halting on rejection and divergence, and the checker; any node delayed | a halt is final though releases and reconciliations are in progress; no event is lost before it |
| `ordered` | 2 nodes, no SYNC, no raising payload, one node skipped, any delayed, fair recovery loop | nodes at one id agree on their state; every event is eventually applied by every node; the refinement of `SequencedLog` |
| `concurrent` | 3 threads, 2 requests each, 2 nodes, any payload raises or not, under the lock | truthful responses, consensus when nothing is in progress, every request is answered, the refinement of `SequencedLog` |
| `physical` | 2 nodes, one registered late or never, 3 proposal ids, 4 batches, any deliveries delayed, every choice of the two halting options | replay reproduces a node's states; nothing is executed twice or out of order; divergence is noticed; nothing follows a rejection |
| `network` | 3 nodes, the standard network or one wired step by step, 3 calls, 1 rule, 2 tokens, any redelivery | events are applied once; clocks respect causality; a sealed node is frozen; nodes agree until a call raises |
| `propagation` | 2 nodes, one registered late, 3 events of any payload, the first node skipped, at most one delayed, one node with snapshots | a successful merge catches a node up and its report is true; snapshots of one id agree; the refinement of `SequencedLog` |
| `foundation` | one qubit, rules H and X, 2 tokens, 5 events and markers, 3 deltas, any calls of the five layers | the timeline accounts for both engines' logs, the error model for the information lost; strict history, seals, collapses that stay |
| `karma` | twelve workloads: two requests at a time on one account with a date and without, first requests of a new user, one request at a time, appeals and proofs with a date and without, a proof that takes back, debts, debts from actions, lives, first requests after a rebirth, gateway and audit | each step keeps the account of every balance, and only overlapping first requests and the counter of PrarabdhaKarma forget writes, whole; debts, plans, lives and audit records |
| `broadcast` | 2 connections with one id or two, 2 tasks, 2 events, joins and leaves at every `await` | order and no repetition, nobody skipped or unregistered in place of another, broadcasts end |
| `claim_order`, `claim_concurrent` | see *Disagreements* | violated, each by a short trace |

**Bounds.** `MaxEvents = 3`: the shortest executions in which an event is
buffered, one that follows it is delivered, and a SYNC or the missing event
arrives after both.  `MaxNodes = 2`: the reference and a lagging node, either of
which may be the late one.  `MaxCalls` bounds how often a rejected payload is
replayed into one adapter; it guards only the start of a reconciliation,
release or merge.  The adapter has two zones and coverage 0 to 2, enough for the
clamp to be reached from both sides and for a payload to fail at its second
zone.  In `concurrent`, two requests per thread let a request follow one that
was rejected or refused, and the third thread waits while two others compete;
the branches that only unlocked threads reach (an event replaced in the buffer,
a `pop` that fails, an old id) are explored in `claim_concurrent`.

In `physical`, three events allow one to be held, one to overtake it and one to
show the divergence; the batches are one that fouls both zones, one that
polishes one zone into the clamp, one malformed in its second zone and one that
names an unknown zone.  Proposal ids are interchangeable, hence the symmetry.
In `network`, `MaxCalls = 3` lets a call follow one that raised or was cut
short, and a third depend on it; the third node is the one that a broadcast
misses, and the second token the one that is left after a refused measurement.
Nodes and tokens are symmetric because `Init` has every order of registration.

In `propagation`, skips add nothing for the second node, since a delay that is
never released loses an event as well; one node with snapshots is enough for a
snapshot to be compared with the other node and with a later state of its own.
In `foundation`, five entries are GENESIS, an event of each of two layers, what
follows them and a seal; the second token is the one used after a refused or
repeated measurement.  H and X are the rules between which a state can be
definite or not, and its fidelity with another be 0.  Every workload of `karma`
names the handlers that share a document, and bounds how many requests are made
(`calls`), how many at a time (`parallel`), how many steps may fail (`faults`)
and which users start with a date (`dated`); two requests at a time show each pair
of interleaved reads and writes, and a second fault would hit a request that no
other depends on.  In `broadcast`, two connections allow one to be replaced by
another with its id, and one to be deleted while the other is being sent to.

`CHECK_DEADLOCK FALSE` is used where the hub may be halted, the server be
stopped, every node be sealed, or the bounds on events and calls be reached,
with nothing left to do; in `ordered` there is always something to do, and
deadlock is checked.

**Type invariants.** Every module has a `TypeOK`.  For the modules with proofs
it is a theorem; `karma` checks that of `KarmaTracker` as well, whose types say
most about the order in which requests create and find documents.

**Fairness.** A call that was made goes on to its end (weak fairness of
deliveries, replays and returns: the calls are synchronous loops).  The
recovery loop, which the demos run (`divergence_simulation.py`,
`distributed_computation_demo.py`: release, reconcile, check), is strong
fairness of `ReleaseHeldEvents` and `ReconcileAll`: other calls may come
between, but recovery is tried again and again.  Nothing else is fair; no
proposal need ever be made.  In `ConcurrentSubmit` every thread is scheduled
(weak fairness of `Step`), and a client sends its next request (weak fairness
of `Begin`).  That is enough although `Begin` takes the lock: requests are
finitely many, so a waiting thread is in the end the only one.  In
`UnrealBroadcast` the event loop resumes the server's task (weak fairness of
its `Process`), and a `send` returns or raises for both tasks (weak fairness of
`Sent`): the websockets library pings its peers and closes a connection that
does not answer.  The driver's task is not fair: nobody need run it.

## 5. Proofs

The proofs hold for every value of the constants that the named assumptions
(`...Assumption`, `SyncIsNoPayload`) allow.  These only give types and say that
there is a node, an event bound and so on; what a theorem assumes beyond them is
said below.  TLC evaluates all of them in the runs.  In each module `Invariance`
states that its inductive invariant `Inv` holds in every state,
`TypeCorrectness` that `TypeOK` does, and the other theorems follow; in
`KarmaServerProofs`, which is about two systems, these names say of which
(`KarmaInvariance`, `BroadcastInvariance`, ...).  Every invariant and every
action property of a passing run is stated by a theorem.

Where a property is about a recursion or a count (the states of a replay, the
rank of an event, a total of losses), its lemma is proved
by descent: the numbers at which it fails would have a least element, since `<`
is well-founded on the naturals, and that element's predecessor refutes it.
`Recursion`, `ReplayRuns` and `TotalsRun` show in the same way that the
recursive functions of the models have the values that their definitions say.

**`ComputationProtocolProofs`** (with the lemmas of `ReplicaNodeProofs` about
the operators of a node), for any number of nodes and events, any adapter, and
any choice of skipped and delayed deliveries.  That no event is applied twice is
not inductive: a late SYNC sets `next` back to its own id plus one, and an event
with that id might already be in `local_log`.  It never is, because a node can
only be past a SYNC's successor if it executed that SYNC (`SyncsExecuted`: the
drain loop cannot cross an id that is never buffered, so only the SYNC itself,
or a later one, moves the node over it), and each SYNC is given to a node at
most once (`SyncsOnce`: it is delivered or held, a release empties the held
list, and the reconciliation engine leaves SYNC steps out).  `EpochClosed` says
that everything between the last SYNC and a visited position has been applied,
which gives the order inside an epoch.  `LogIsPrefix` and `CallsAreApplied` are
the special cases without SYNC and without exceptions, from which agreement and
the refinement follow.

| Theorem | States | Assuming also |
|---|---|---|
| `NoEventIsAppliedTwice`, `EventsAreOrderedWithinEpochs` | `NoDuplicateApplication`, `EpochOrder` | |
| `NodesAgree` | `Agreement`: equal committed ids give equal adapter states | |
| `BuffersFlush`, `AcksTellTheTruth` | `BufferFlushes`, `AcksAreTruthful` | |
| `NoEventIsLost` | `NothingLost` | no delivery is skipped, no SYNC |
| `HaltsAreFinal` | the action property `HaltIsFinal` | |
| `Implementation` | refinement of `SequencedLog` | no SYNC |

**`ConcurrentSubmitProofs`** assumes `Locking`, that is the stress simulation
and not the handlers of `/execute`.  A thread past `idle` is the holder of the
lock (`Exclusion`).  While it delivers, the nodes before its position have been
served and those after it wait (`Deliveries`), and where it stands decides what
its node has: the event buffered, popped, applied, logged, counted (`Applying`).
Only the last event of the log can raise, because the hub halts then
(`Ordered`, `Resting`); the counter follows the log except between a load and
its store (`Counting`).

| Theorem | States |
|---|---|
| `EventsAreAppliedInSequence` | `AppliedInSequence`, which the unlocked handlers violate (`claim_concurrent`) |
| `ResponsesTellTheTruth` | `ResponsesAreTruthful` |
| `QuietNodesAgree` | `QuietConsensus` |
| `Implementation` | refinement of `SequencedLog` |

**`PropagationProofs`** reuses `ReplicaNodeProofs` without any assumption on
what raises.  `MergeProgress` describes a merge half way: what is done of the
batch lies before the rest, the node is past it unless the batch starts beyond
its next event, and the result splits what the node has applied into before and
during the merge.  `SnapshotInv` says that a snapshot is the state after the
events up to its id.

| Theorem | States |
|---|---|
| `SuccessfulMergesCatchUp`, `ReportsAreTrue` | `MergeCatchesUp`, `MergeReportsAreTrue` |
| `SnapshotsStayGood` | `SnapshotsAgree` |
| `Implementation` | refinement of `SequencedLog` |

**`PhysicalHubProofs`**, for any ship, batches, nodes and both options.  The
batches of a node are in the hub's order and before its position (`Ordered`),
and each was executed from the state that the one before it left (`Follows`);
proposals in the log are different (`Distinct`); a release in progress has not
halted the hub (`Releasing`).  That a submit without delays leaves the nodes in
one state or halts the hub follows from the order in which its consensus check
comes after the deliveries.

| Theorem | States |
|---|---|
| `StatesFollowTheLog` | a node's logged batches lead from the new ship to its state |
| `ReplayIsReproducible` | `ReplayReproduces`: the replay of a node's log ends where the node is |
| `BatchesAreExecutedOnceInOrder` | `ExecutedOnceInOrder` |
| `DivergenceHalts`, `RejectionsAreFinal` | the action properties `DivergenceIsNoticed`, `NothingAfterRejection` |

**`NodeNetworkProofs`**, for any finite set of nodes, rules, tokens, calls and
any `Definite`.  The ids in a node's timeline are different and have been seen,
and tokens in it are consumed (`TimelineInv`); no node has seen an id whose
clock exceeds its own or the origin's (`NodesInv`), so that a new event is new
to everyone; and until a call raises the nodes of the standard network have the
same harness and have seen every event of the log (`Together`), so that a
broadcast performs the same operation on equal harnesses, and a redelivery does
nothing.

| Theorem | States |
|---|---|
| `EventsAreAppliedOnce` | `AppliedOnce`, of events and tokens |
| `NodesConverge` | `Converged` |
| `ClocksFollowCauses`, `SealsAreFinal` | the action properties `ClockOrder`, `SealIsFinal` |

**`QuantumFoundationProofs`**, for any rules, tokens, outcomes, loss function
and fidelity.  The no-go layer's expectation points behind one of its own events
or GENESIS (`Expectation`); the marker placed last seals most (`Boundary`);
until something moves them, both states of the error layer are what its last
measurement left, so that a correction has nothing to restore (`Settled`, which
needs `Pointers` from the timeline into the collapse log).  `Account` adds the
bookkeeping: every step tells an evolution and its delta, or a collapse, or a
delta that is lost with its call, or a collapse that lost nothing, or leaves both
logs alone (`Accounts`), and each of these keeps the ranks of events and log
entries equal and the losses balanced.

| Theorem | States |
|---|---|
| `StrictEvolutionsFollowStrictEvents` | `StrictHistory` |
| `SealsAreFinal` | `SealsHold` |
| `CollapsesAreFinal` | `CollapseStays` |
| `TimelineIsTheAccount` | `TimelineTells` |
| `LossesAreTracked` | `LossIsTracked` |

**`KarmaServerProofs`, the tracker**, for any users, opening balances and
workloads of well-formed calls (`IsCall` in `WorkloadAssumption`: what the
validation of a route lets through), any number of requests at a time and any
failures.  Nothing is locked, so `KarmaInv` says of each request in flight what
the rest of its handler relies on (`Sound`): the user and the plan it has read
are still there (`HoldsUser`, `HoldsPlan`); the plan it rewards or completes has
been earned, and the reward is logged when it is marked (`Earns`); the life it
continues goes on before the user is marked as deceased (`LivesOn`); its copy of
a debt is honest and the debt has been paid no less since (`Owes`); and its audit
record is what that stage has written (`Audited`).  One lemma per collection says
which changes a step can make at all (`UsersMove`, `PlansMove`, `DebtsMove`,
`RecordsMove`); from these, `SoundKept` shows that no step takes back what
another request relies on, and `RequestsSteps` that each step leaves its own
request with what its next stage needs.

That the accounts are kept takes more than `KarmaInv`, and `AccountInv` adds it.
At each stage a request can have made only the writes of the stages before it
(`Posted`), so that no step repeats one; the amount of a write is an integer for
each token, and whom it credits is there (`Credited`), so that a user who is
inserted has no writes yet.  Every balance is `Reached`: some of the writes to
it, taken whole, are all that it lacks.  A copy that a request may still write
over a balance was a balance once, and is `Reached` as well (`Copied`); the point
of the argument is that it stays so whatever is written meanwhile, because a
later write only joins those that the copy lacks.  If requests are made one at
a time, the copy is what is in the database (`Undisturbed`, `Current`).
`StepAccounts` shows that each step either makes no write for anyone or makes
one new write, and what it does to the balance of its payee and to its own copy
(`Silent`, `Pays`, `Accounts`); `DocsSteps` says which documents change, and
`SettledStays` that a settled user has no such copy left to fear.
`AccountsMove` carries a step over to the totals (`Moved`), which are sums over
the set of writes, folded in an order that `CHOOSE` picks: that such a sum
exists and that any element may be taken off it first (`SumsExist`, `SumsAdd`)
is proved by going up the sizes of the sets, and `SumsOfOneMore` is what the
steps need of it.

| Theorem | States |
|---|---|
| `KarmaTypeCorrectness` | `TypeOK` |
| `DebtsHonoured`, `CompletionsEarned` | `DebtsAreHonoured`, `CompletionIsEarned` |
| `LivesLinked`, `AuditsTell` | `LivesAreLinked`, `AuditsAgree` |
| `AccountInvariance` | `AccountInv` is kept by every step |
| `AccountsAlwaysKept` | `AccountsAreKept` |

That a completed plan meets its requirements at all times is not invariant: a
proof with a negative amount, which nothing refuses, lowers the progress
afterwards.  `CompletionIsEarned` says so, and the workload with such a proof
shows it.

**`KarmaServerProofs`, the broadcast server**, for any ids, up to five connections (the bound of
the table) and any number of events.  A live entry has its connection's id and
no other has it (`Table`); an id is cleaned up only if a connection with it is
lost (`Pending`); the queue holds what no task has taken, and two tasks never
have the same event (`Order`); along the table, entries beyond a broadcast's
position have not got its event, and those before it have if they were there at
the start and are open (`Sweeps`).

| Theorem | States |
|---|---|
| `EventsAreSentInOrder` | `DeliveredInOrder` |
| `NobodyElseIsUnregistered` | `ReachableUnlessReconnected` |
| `NobodySkipped` | the action property `NobodyIsSkipped` |

*Only model-checked.*  `EventuallyApplied`, `EveryRequestIsAnswered` and
`BroadcastEnds` are liveness properties, which need fairness and `ENABLED`, out
of the prover's reach.  The claims of the two violation runs are refuted by TLC.

## 6. Disagreements between documents and code

Each is the violated property of a run:

- `claim_order`: a SYNC moves a node past events it never received, and later
  ones are applied without them (`distributed_computation_model.md:60`).
- `claim_concurrent`: without the lock two requests get one causal id, and a
  node's log is not the sequence 1, 2, ... (`execution_interface.py:44`).

Others were met while modelling and have no run of their own; the models contain
the behaviour, and where a property is affected, its comment or the hazard list
says which executions it leaves out.

*Computation protocol.*  A delayed event overtaken by a SYNC is ignored as old
when it is released (`distributed_computation_model.md:176`).  A late SYNC leaves
the next event in the buffer.  A rejection during a reconciliation does not halt
the hub (`REVIEW_PACKET.md:124`).  A payload that the adapter rejected after it
changed some zones is handed to it again (`reconciliation_engine.py:86`, if one
counts its first effect as an application).  `get_event_slice` reads `to_id=0`
as "no bound", so that a replay may go past a reference that has committed
nothing (`reconciliation_engine.py:88` when payloads raise).  An event that no
node received is never replayed, because slices end at the most advanced node
(`REVIEW_PACKET.md:121`), which is why in the run `ordered` an event is skipped
for at most one node.  A `REJECTED` ack names the event delivered, which may
have been applied before a buffered successor raised.

*Propagation.*  After an exception `events_applied` leaves out what the last
turn of a merge applied, and the event recorded as rejected is the one merged,
although its buffered successor raised (`distributed_state_propagation.py:55`,
line 150).

*Physical hub.*  A node that has moved past a delayed event answers `APPLIED`
when it is released, without executing it (`execution_interface_v2.py:121-124`,
`physical_engine/latency_ordering_model.md:14`).  The records of a failed batch
stay in the engine's chain, so that the hashes of later batches cannot be
reproduced by a replay, although the states can (`multi_zone_executor.py:246`).

*Node network.*  A node applies an event on arrival even if it has applied one
with a larger clock (`cycle9/distributed_state_node.py:15`): after a seal, the
broadcast of the next event ends at the sealed node, and the peers registered
after it miss the event.

*Foundation.*  `evolve_with_noise` with fidelity 1.0 makes a physical state that
was noisy equal to the ideal one without a CORRECTION, and an evolution after
`measure_with_disturbance` starts from the state engine's state, which was not
collapsed (`cycle4/docs/error_architecture_spec.md`, section 2, prohibitions 1
and 3).  A noisy strict evolution leaves a delta, and a refused strict
measurement a collapse, of which no event tells (`cycle3/timeline.py:13`).  A
plain `measure` loses information of which the error model is not told (bound
E1).  After a `NoCloningViolation` another measurement of the no-go layer
resynchronises it, and evolution goes on (`cycle5/docs/boundary_proof_spec.md:59`).
CORRECTION events name nothing that they compensate, so that no seal stops them
(invariant E4).

*Karma tracker.*  `/submit-atonement/` does not reduce PaapTokens
(`docs/karma_api_endpoints.md:106`): `utils/qlearning.py` first adds the amount
that `routes/karma.py:465` then takes away; and unless the user has no
`last_decay` it ends in an exception before it gets there, after the proof and
the reward were written.  "Token decay applied automatically based on configured
rates" (`handover/data_module/api_notes.md:172`, `HANDOVER_DOCUMENT.md:26`):
nothing ever decays or expires, because the stored date cannot be subtracted
(`utils/tokens.py:13`, line 31 for expiry), and the request that tries answers
with an error: a second action, redemption or look at a balance of the same user
fails.  "The system tracks cheating incidents and applies escalating penalties
based on the number of offenses" (`HANDOVER_DOCUMENT.md:546`): the penalty is
always that of the first offence, since a stored incident cannot be dated
(`log_action.py:56`).  The first requests of a user may write back whole
balances that are stale (`utils/tokens.py:40`, `routes/karma.py:292`), a plan
that is complete is rewarded again by every further proof
(`utils/atonement.py:152`), and a user can be reborn twice.

*Broadcast server.*  A client that joins or leaves in the middle of a broadcast
changes the dictionary that is iterated; the exception ends the server's loop
for good (`utils/unreal_broadcast.py:80`, line 150).  A client that reconnects
with its id is unregistered when its first connection's handler ends (line
145).  An exception between the registration and the `try` of the handler
leaves the client in the table.  Two tasks may send events in another order
than that of the queue.  The simulation queues events into the global manager
while it serves another (`scripts/unreal_simulation.py`).

*STP bridge* (read, not modelled): the nonce is kept for a temporary error, "to
prevent replays"; the next attempt then finds its own nonce, discards it as a
duplicate, and the third sends again (`utils/stp_bridge.py:178`).

## 7. Not modelled

The components with status `not_modelled` or `partly` in `PROJECT.json`, each
with its reason.  In short:

- *Quantum linear algebra* (cycles 6 to 8), *karma analytics and prediction*:
  computation in floating point.  The layers above use its results only through
  what the models keep as constants (`Possible`, `Loss`, `Orthogonal`,
  `Definite`).
- *Latency and input ordering*, *karma feedback, STP bridge and event bus*: the
  delayed input queue and the forwarding of signals through the bridge are
  called by demonstration scripts and tests only; the server reads the bridge's
  settings and publishes to a bus that nobody subscribes to.
- *Physical integration and observability*, *network simulations, audits and
  tests*: conversions of payloads, collectors that only read, and drivers that
  fix which calls are made; the runs explore all orders of those calls.
- *Assistant, enforcement and validation services* of the intelligence layer:
  separate projects, rule tables over text and calls of language models, which
  the distributed layer does not import.  *Simulation layer*: documents.

The repository's source is much larger than what is modelled, about a twelfth of
its lines: most of the rest are these embedded services, with dashboards, demos
and test suites of their own, and numerical code.  They keep no state between
calls that the properties of this project could be about, or keep it in
libraries and services outside the repository.

Within modelled components: hash functions are taken to be injective; floats,
time stamps and report texts are left out, except that the karma tracker's
amounts are integers in hundredths and its stored dates are present, absent or
without a time zone, which decides what decay does; that the moment between a
fresh date and its use would decay some billionths of a token is left out, and
amounts that differ by the rounding of floats are taken to be equal;
reports, receipts, metrics and audits that only read are not represented; the
response fields of `/execute` that are read after the submit
(`execution_interface.py:62`) are left out, since they are values of moments
that other requests may share; process crashes of the hubs are not modelled,
because nothing of their state is persisted: a restarted hub is a new one.  The
karma tracker's state is in a database, and there any step of a request may be
its last.
