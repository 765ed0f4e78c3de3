---------------------------- MODULE NodeNetwork ----------------------------
(***************************************************************************)
(* The network of cycle 9: nodes (DistributedStateNode) that evolve,       *)
(* measure and seal, and a synchronous bus (NodeNetwork) that hands every  *)
(* event to the peers of its origin, in the order of their registration.   *)
(*                                                                         *)
(* A call is one step: it changes the node, and its event reaches the      *)
(* peers before it returns.  A peer that raises ends the call, and the     *)
(* peers after it do not get the event.                                    *)
(*                                                                         *)
(* A quantum state is the sequence of the rules that led to it; Definite   *)
(* says whether measuring it would lose no information.                    *)
(***************************************************************************)
EXTENDS Naturals, FiniteSets, SequencesExt

CONSTANTS
  Nodes,
  Rules,             \* the names of unitary rules
  Tokens,            \* the ids of collapse tokens, each used with one seed
  Definite(_),       \* whether the state that the rules led to has no entropy
  NoArgument,        \* the argument of a seal
  MaxCalls           \* bound on the calls of evolve, measure and seal

ASSUME NetworkAssumption ==
  /\ IsFiniteSet(Nodes)
  /\ NoArgument \notin Rules \cup Tokens
  /\ MaxCalls \in Nat
  /\ \A rules \in {<<>>} \cup {<<r>> : r \in Rules} : Definite(rules) \in BOOLEAN

VARIABLES
  node,        \* the nodes
  registered,  \* _nodes of the bus, in the order of registration
  log,         \* _global_event_log
  calls,       \* how often evolve, measure and seal were called
  standard,    \* whether build_standard_network made the network
  raised       \* whether a call has raised an exception

vars == <<node, registered, log, calls, standard, raised>>

(* A node and its harness.  An entry of the timeline has the id of the      *)
(* event that caused it; the entry GENESIS is left out.                     *)
NewNode ==
  [lifecycle |-> "INIT",
   rules     |-> {},    \* _registered_rules
   clock     |-> 0,     \* _logical_clock
   seen      |-> {},    \* _seen_event_ids
   received  |-> <<>>,  \* _received_log
   timeline  |-> <<>>,  \* the evolutions and collapses of the causal timeline
   sealed    |-> {},    \* the timeline's length at the last seal, if any
   consumed  |-> {},    \* _consumed_tokens
   collapses |-> 0]     \* _event_counter of the collapse engine

(* The nodes of the standard network know all rules, are active, and are    *)
(* registered one after the other.                                          *)
StandardNode == [NewNode EXCEPT !.lifecycle = "ACTIVE", !.rules = Rules]

Orders == {s \in [1 .. Cardinality(Nodes) -> Nodes] : ToSet(s) = Nodes}

Init ==
  /\ standard \in BOOLEAN
  /\ node = [n \in Nodes |-> IF standard THEN StandardNode ELSE NewNode]
  /\ registered \in IF standard THEN Orders ELSE {<<>>}
  /\ log = <<>>
  /\ calls = 0
  /\ raised = FALSE

Registered == ToSet(registered)
Active(nd) == nd.lifecycle = "ACTIVE"
EventId(e) == <<e.origin, e.clock>>
-----------------------------------------------------------------------------
RulesOf(timeline) ==
  LET evolutions == SelectSeq(timeline, LAMBDA x : x.type = "EVOLUTION")
  IN  [i \in DOMAIN evolutions |-> evolutions[i].arg]

(* The harness raises: the rule is unknown; the token was consumed, or the   *)
(* state has nothing to lose; nothing was recorded since the last seal.      *)
Fails(nd, type, arg) ==
  \/ type = "EVOLUTION" /\ arg \notin nd.rules
  \/ type = "COLLAPSE" /\ (arg \in nd.consumed \/ Definite(RulesOf(nd.timeline)))
  \/ type = "SEAL" /\ Len(nd.timeline) \in nd.sealed

Recorded(nd, type, arg, id) ==
  [nd EXCEPT !.timeline =
     Append(@, [type |-> type, arg |-> arg, id |-> id, collapse |-> nd.collapses])]

Evolve(nd, rule, id) ==
  IF rule \in nd.rules THEN Recorded(nd, "EVOLUTION", rule, id) ELSE nd

(* The token is consumed, and the collapse counted, before the loss of       *)
(* information is looked at.                                                 *)
Collapse(nd, token, id) ==
  LET done == IF Definite(RulesOf(nd.timeline)) THEN nd ELSE Recorded(nd, "COLLAPSE", token, id)
  IN  IF token \in nd.consumed
        THEN nd
        ELSE [done EXCEPT !.consumed = @ \cup {token}, !.collapses = @ + 1]

(* What the harness has done when it returns or raises. *)
Perform(nd, type, arg, id) ==
  CASE type = "EVOLUTION" -> Evolve(nd, arg, id)
    [] type = "COLLAPSE"  -> Collapse(nd, arg, id)
    [] type = "SEAL"      -> [nd EXCEPT !.sealed = {Len(nd.timeline)}]

ReceiveRaises(nd, e) ==
  \/ ~Active(nd)
  \/ EventId(e) \notin nd.seen /\ Fails(nd, e.type, e.arg)

Larger(i, j) == IF i > j THEN i ELSE j

(* the clock is only incremented *)
ReceiveClockFault(nd, e) ==
  IF ~Active(nd) \/ EventId(e) \in nd.seen
    THEN nd
    ELSE Perform([nd EXCEPT !.clock = @ + 1,
                            !.seen = @ \cup {EventId(e)},
                            !.received = Append(@, e)],
                 e.type, e.arg, EventId(e))

(* a node that is not active takes part *)
ReceiveSealedFault(nd, e) ==
  IF EventId(e) \in nd.seen
    THEN nd
    ELSE Perform([nd EXCEPT !.clock = Larger(@, e.clock) + 1,
                            !.seen = @ \cup {EventId(e)},
                            !.received = Append(@, e)],
                 e.type, e.arg, EventId(e))

(* receive_event: the event has been seen before it is performed. *)
Receive(nd, e) ==
  IF ~Active(nd) \/ EventId(e) \in nd.seen
    THEN nd
    ELSE Perform([nd EXCEPT !.clock = Larger(@, e.clock) + 1,
                            !.seen = @ \cup {EventId(e)},
                            !.received = Append(@, e)],
                 e.type, e.arg, EventId(e))
-----------------------------------------------------------------------------
(* observe *)
Observe(n, rule) ==
  /\ node[n].lifecycle = "INIT"
  /\ rule \notin node[n].rules
  /\ node' = [node EXCEPT ![n].rules = @ \cup {rule}]
  /\ UNCHANGED <<registered, log, calls, standard, raised>>

Activate(n) ==
  /\ node[n].lifecycle = "INIT"
  /\ node' = [node EXCEPT ![n].lifecycle = "ACTIVE"]
  /\ UNCHANGED <<registered, log, calls, standard, raised>>

RegisterNode(n) ==
  /\ n \notin Registered
  /\ registered' = Append(registered, n)
  /\ UNCHANGED <<node, log, calls, standard, raised>>

(* only the first peer gets the event *)
ReachedFault(nodes, e) ==
  {n \in Nodes \ {e.origin} : \E i \in DOMAIN registered :
     registered[i] = n /\ \A j \in 1 .. (i - 1) : registered[j] = e.origin}

(* The peers that a broadcast reaches: those before which no peer raises.   *)
(* A peer that raises is reached itself.                                    *)
Reached(nodes, e) ==
  {n \in Nodes \ {e.origin} : \E i \in DOMAIN registered :
     /\ registered[i] = n
     /\ \A j \in 1 .. (i - 1) :
          registered[j] = e.origin \/ ~ReceiveRaises(nodes[registered[j]], e)}

(* _route: the peers receive the event one after the other. *)
Route(nodes, e) ==
  [n \in Nodes |-> IF n \in Reached(nodes, e) THEN Receive(nodes[n], e) ELSE nodes[n]]

RouteRaises(nodes, e) ==
  \E n \in Registered \ {e.origin} : ReceiveRaises(nodes[n], e)

(* the node does not remember its own event *)
EmittedFault(nd, e) ==
  [Perform(nd, e.type, e.arg, EventId(e)) EXCEPT
     !.lifecycle = IF e.type = "SEAL" THEN "SEALED" ELSE @]

(* The origin of an event, when it broadcasts it. *)
Emitted(nd, e) ==
  [Perform(nd, e.type, e.arg, EventId(e)) EXCEPT
     !.seen = @ \cup {EventId(e)},
     !.lifecycle = IF e.type = "SEAL" THEN "SEALED" ELSE @]

(* evolve, measure and seal: the clock ticks even if the harness raises. *)
Call(n, type, arg) ==
  /\ Active(node[n])
  /\ calls < MaxCalls
  /\ calls' = calls + 1
  /\ LET ticked == [node[n] EXCEPT !.clock = @ + 1]
         e == [origin |-> n, clock |-> ticked.clock, type |-> type, arg |-> arg]
         sent == [node EXCEPT ![n] = Emitted(ticked, e)]
     IN  IF Fails(node[n], type, arg)
           THEN /\ node' = [node EXCEPT ![n] = Perform(ticked, type, arg, EventId(e))]
                /\ raised' = TRUE
                /\ UNCHANGED log
           ELSE IF n \notin Registered
           THEN node' = sent /\ UNCHANGED <<log, raised>>
           ELSE /\ node' = Route(sent, e)
                /\ log' = Append(log, e)
                /\ raised' = (raised \/ RouteRaises(sent, e))
  /\ UNCHANGED <<registered, standard>>

(* An event of the log is given to a node once more, or for the first time  *)
(* if the broadcast did not reach it.                                       *)
Redeliver(n, e) ==
  /\ node' = [node EXCEPT ![n] = Receive(@, e)]
  /\ raised' = (raised \/ ReceiveRaises(node[n], e))
  /\ UNCHANGED <<registered, log, calls, standard>>

Next ==
  \E n \in Nodes :
    \/ \E rule \in Rules : Observe(n, rule)
    \/ Activate(n)
    \/ RegisterNode(n)
    \/ \E rule \in Rules : Call(n, "EVOLUTION", rule)
    \/ \E token \in Tokens : Call(n, "COLLAPSE", token)
    \/ Call(n, "SEAL", NoArgument)
    \/ \E i \in DOMAIN log : Redeliver(n, log[i])

Spec == Init /\ [][Next]_vars
-----------------------------------------------------------------------------
EventOf(type, args) == [origin : Nodes, clock : Nat, type : {type}, arg : args]
Event ==
  EventOf("EVOLUTION", Rules) \cup EventOf("COLLAPSE", Tokens)
    \cup EventOf("SEAL", {NoArgument})

Entry ==
  [type : {"EVOLUTION", "COLLAPSE"}, arg : Rules \cup Tokens, id : Nodes \X Nat,
   collapse : Nat]

NodeType ==
  [lifecycle : {"INIT", "ACTIVE", "SEALED"},
   rules     : SUBSET Rules,
   clock     : Nat,
   seen      : SUBSET (Nodes \X Nat),
   received  : Seq(Event),
   timeline  : Seq(Entry),
   sealed    : SUBSET Nat,
   consumed  : SUBSET Tokens,
   collapses : Nat]

(* The types of the variables; events and entries are those of nodes. *)
TypeOK ==
  /\ node \in [Nodes -> NodeType]
  /\ registered \in Seq(Nodes)
  /\ log \in Seq(Event)
  /\ calls \in 0 .. MaxCalls
  /\ standard \in BOOLEAN
  /\ raised \in BOOLEAN

(* receive_event is idempotent: whatever is broadcast, redelivered or comes *)
(* back to its origin, no event enters a timeline twice; and a token        *)
(* collapses a node once, whichever nodes measure with it.                  *)
AppliedOnce ==
  \A n \in Nodes : \A i, j \in DOMAIN node[n].timeline :
    LET x == node[n].timeline[i]
        y == node[n].timeline[j]
    IN  i # j => /\ x.id # y.id
                 /\ x.type = "COLLAPSE" /\ y.type = "COLLAPSE" => x.arg # y.arg

(* Logical clocks respect causality: the clock of a new event is larger     *)
(* than the clock of every event that its origin has seen, also when their  *)
(* broadcast was cut short or their application failed.                     *)
ClockOrder ==
  [][\A i \in DOMAIN log' \ DOMAIN log : \A id \in node[log'[i].origin].seen :
       log'[i].clock > id[2]]_vars

(* Deterministic replay: in the standard network, as long as no call has    *)
(* raised, all nodes have the same timeline, entry by entry, and so the     *)
(* same state.                                                              *)
Converged ==
  standard /\ ~raised =>
    \A m, n \in Nodes : node[m].timeline = node[n].timeline

(* A sealed node is frozen: no call and no event of a peer changes it. *)
SealIsFinal ==
  [][\A n \in Nodes : node[n].lifecycle = "SEALED" => node'[n] = node[n]]_vars
=============================================================================
