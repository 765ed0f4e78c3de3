-------------------------- MODULE NodeNetworkProofs -------------------------
(***************************************************************************)
(* Proofs about the node network, for any nodes, rules and tokens, any     *)
(* number of calls, and any notion of a definite state.                    *)
(***************************************************************************)
EXTENDS NodeNetwork, FiniteSetTheorems, TLAPS

(* The argument is one that a call or an event of the type has. *)
Allowed(type, arg) ==
  \/ type = "EVOLUTION" /\ arg \in Rules
  \/ type = "COLLAPSE" /\ arg \in Tokens
  \/ type = "SEAL" /\ arg = NoArgument

(* The entries of a timeline stem from different events among ids, and each *)
(* token that collapsed the node is consumed and did so once.               *)
TimelineInv(nd, ids) ==
  \A i \in DOMAIN nd.timeline :
    LET x == nd.timeline[i]
    IN  /\ x.id \in ids
        /\ x.type = "COLLAPSE" => x.arg \in nd.consumed
        /\ \A j \in DOMAIN nd.timeline :
             LET y == nd.timeline[j]
             IN  i # j => /\ x.id # y.id
                          /\ x.type = "COLLAPSE" /\ y.type = "COLLAPSE" => x.arg # y.arg

(* What the harness of a node consists of. *)
SameHarness(a, b) ==
  /\ a.rules = b.rules
  /\ a.timeline = b.timeline
  /\ a.sealed = b.sealed
  /\ a.consumed = b.consumed
  /\ a.collapses = b.collapses
-----------------------------------------------------------------------------
LEMMA RecordedFacts ==
  ASSUME NEW nd \in NodeType, NEW type \in {"EVOLUTION", "COLLAPSE"},
         NEW arg \in Rules \cup Tokens, NEW id \in Nodes \X Nat
  PROVE  LET r == Recorded(nd, type, arg, id)
             x == [type |-> type, arg |-> arg, id |-> id, collapse |-> nd.collapses]
         IN  r = [nd EXCEPT !.timeline = r.timeline] /\ r \in NodeType
             /\ x \in Entry /\ r.timeline = Append(nd.timeline, x)
<1> DEFINE x == [type |-> type, arg |-> arg, id |-> id, collapse |-> nd.collapses]
           s == Append(nd.timeline, x)
<1>1. x \in Entry
  BY DEF NodeType, Entry
<1>2. s \in Seq(Entry)
  <2>1. nd.timeline \in Seq(Entry)
    BY DEF NodeType
  <2> HIDE DEF x
  <2> QED
    BY <1>1, <2>1
<1>3. Recorded(nd, type, arg, id) = [nd EXCEPT !.timeline = s]
  BY DEF Recorded
<1> HIDE DEF s
<1>4. /\ [nd EXCEPT !.timeline = s] \in NodeType
      /\ [nd EXCEPT !.timeline = s].timeline = s
  BY <1>2 DEF NodeType
<1> QED
  BY <1>1, <1>3, <1>4 DEF s

(* What the harness does to a node.  At most one entry is recorded, for the *)
(* event that is performed; when the harness raises, none is.               *)
LEMMA PerformFacts ==
  ASSUME NEW nd \in NodeType, NEW type, NEW arg, Allowed(type, arg),
         NEW id \in Nodes \X Nat
  PROVE  LET p == Perform(nd, type, arg, id)
         IN  /\ p \in NodeType
             /\ p.lifecycle = nd.lifecycle /\ p.rules = nd.rules
             /\ p.clock = nd.clock /\ p.seen = nd.seen /\ p.received = nd.received
             /\ nd.consumed \subseteq p.consumed
             /\ Fails(nd, type, arg) => p.timeline = nd.timeline
             /\ \/ p.timeline = nd.timeline
                \/ \E x \in Entry :
                     /\ p.timeline = Append(nd.timeline, x) /\ x.id = id
                     /\ x.type = "COLLAPSE" =>
                          x.arg \notin nd.consumed /\ x.arg \in p.consumed
<1>1. CASE type = "EVOLUTION" /\ arg \in Rules
  <2>1. Perform(nd, type, arg, id) = Evolve(nd, arg, id)
    BY <1>1 DEF Perform
  <2>2. CASE arg \in nd.rules
    <3> DEFINE r == Recorded(nd, "EVOLUTION", arg, id)
               x == [type |-> "EVOLUTION", arg |-> arg, id |-> id, collapse |-> nd.collapses]
    <3>1. /\ r = [nd EXCEPT !.timeline = r.timeline] /\ r \in NodeType
          /\ x \in Entry /\ r.timeline = Append(nd.timeline, x)
      BY <1>1, RecordedFacts
    <3>2. Perform(nd, type, arg, id) = r /\ ~Fails(nd, type, arg)
      BY <1>1, <2>1, <2>2 DEF Evolve, Fails
    <3>3. x.id = id /\ x.type # "COLLAPSE"
      OBVIOUS
    <3> HIDE DEF r, x
    <3>4. /\ r.lifecycle = nd.lifecycle /\ r.rules = nd.rules
          /\ r.clock = nd.clock /\ r.seen = nd.seen /\ r.received = nd.received
          /\ r.consumed = nd.consumed
      BY <3>1 DEF NodeType
    <3> QED
      BY <3>1, <3>2, <3>3, <3>4
  <2>3. CASE arg \notin nd.rules
    BY <2>1, <2>3 DEF Evolve
  <2> QED
    BY <2>2, <2>3
<1>2. CASE type = "COLLAPSE" /\ arg \in Tokens
  <2> DEFINE r == Recorded(nd, "COLLAPSE", arg, id)
             x == [type |-> "COLLAPSE", arg |-> arg, id |-> id, collapse |-> nd.collapses]
             definite == Definite(RulesOf(nd.timeline))
             done == IF definite THEN nd ELSE r
             p == [done EXCEPT !.consumed = @ \cup {arg}, !.collapses = @ + 1]
  <2>1. Perform(nd, type, arg, id) = IF arg \in nd.consumed THEN nd ELSE p
    BY <1>2 DEF Perform, Collapse
  <2>2. /\ r = [nd EXCEPT !.timeline = r.timeline] /\ r \in NodeType
        /\ x \in Entry /\ r.timeline = Append(nd.timeline, x)
    BY <1>2, RecordedFacts
  <2>3. x.id = id /\ x.arg = arg
    OBVIOUS
  <2>4. Fails(nd, type, arg) <=> arg \in nd.consumed \/ definite
    BY <1>2 DEF Fails
  <2> HIDE DEF r, x, definite
  <2>5. done \in NodeType /\ done.lifecycle = nd.lifecycle /\ done.rules = nd.rules
        /\ done.clock = nd.clock /\ done.seen = nd.seen /\ done.received = nd.received
        /\ done.consumed = nd.consumed
        /\ done.timeline = IF definite THEN nd.timeline ELSE Append(nd.timeline, x)
    BY <2>2 DEF NodeType
  <2> HIDE DEF done
  <2>6. p \in NodeType /\ p.lifecycle = nd.lifecycle /\ p.rules = nd.rules
        /\ p.clock = nd.clock /\ p.seen = nd.seen /\ p.received = nd.received
        /\ p.consumed = nd.consumed \cup {arg} /\ p.timeline = done.timeline
    <3> DEFINE k == done.consumed \cup {arg}
               c == done.collapses + 1
    <3>1. k \in SUBSET Tokens /\ c \in Nat /\ k = nd.consumed \cup {arg}
      BY <1>2, <2>5 DEF NodeType
    <3>2. p = [done EXCEPT !.consumed = k, !.collapses = c]
      OBVIOUS
    <3> HIDE DEF p, k, c
    <3> QED
      BY <2>5, <3>1, <3>2 DEF NodeType
  <2> HIDE DEF p
  <2>7. CASE arg \in nd.consumed
    BY <2>1, <2>7
  <2>8. CASE arg \notin nd.consumed
    BY <2>1, <2>2, <2>3, <2>4, <2>5, <2>6, <2>8
  <2> QED
    BY <2>7, <2>8
<1>3. CASE type = "SEAL"
  <2> DEFINE l == Len(nd.timeline)
  <2>1. Perform(nd, type, arg, id) = [nd EXCEPT !.sealed = {l}]
    BY <1>3 DEF Perform
  <2>2. l \in Nat
    <3>1. nd.timeline \in Seq(Entry)
      BY DEF NodeType
    <3> QED
      BY <3>1
  <2> DEFINE p == [nd EXCEPT !.sealed = {l}]
  <2> HIDE DEF l
  <2>3. p \in NodeType /\ p.lifecycle = nd.lifecycle /\ p.rules = nd.rules
        /\ p.clock = nd.clock /\ p.seen = nd.seen /\ p.received = nd.received
        /\ p.consumed = nd.consumed /\ p.timeline = nd.timeline
    BY <2>2 DEF NodeType
  <2> HIDE DEF p
  <2> QED
    BY <2>1, <2>3 DEF p
<1> QED
  BY <1>1, <1>2, <1>3 DEF Allowed

(* The entries of the timeline remain different. *)
LEMMA PerformTimeline ==
  ASSUME NEW nd \in NodeType, NEW type, NEW arg, Allowed(type, arg),
         NEW ids \in SUBSET (Nodes \X Nat), NEW id \in Nodes \X Nat,
         id \notin ids, TimelineInv(nd, ids)
  PROVE  TimelineInv(Perform(nd, type, arg, id), ids \cup {id})
<1> DEFINE p == Perform(nd, type, arg, id)
<1>1. /\ nd.consumed \subseteq p.consumed
      /\ \/ p.timeline = nd.timeline
         \/ \E x \in Entry :
              /\ p.timeline = Append(nd.timeline, x) /\ x.id = id
              /\ x.type = "COLLAPSE" =>
                   x.arg \notin nd.consumed /\ x.arg \in p.consumed
  BY PerformFacts
<1> HIDE DEF p
<1>2. ASSUME p.timeline = nd.timeline PROVE TimelineInv(p, ids \cup {id})
  <2> DEFINE t == nd.timeline
             u == p.timeline
  <2>1. u = t
    BY <1>2
  <2>2. \A i \in DOMAIN t :
          /\ t[i].id \in ids
          /\ t[i].type = "COLLAPSE" => t[i].arg \in nd.consumed
          /\ \A j \in DOMAIN t : i # j =>
               /\ t[i].id # t[j].id
               /\ t[i].type = "COLLAPSE" /\ t[j].type = "COLLAPSE" => t[i].arg # t[j].arg
    BY DEF TimelineInv
  <2> HIDE DEF t, u
  <2>3. \A i \in DOMAIN u :
          /\ u[i].id \in ids \cup {id}
          /\ u[i].type = "COLLAPSE" => u[i].arg \in p.consumed
    BY <1>1, <2>1, <2>2
  <2>4. \A i, j \in DOMAIN u : i # j =>
          /\ u[i].id # u[j].id
          /\ u[i].type = "COLLAPSE" /\ u[j].type = "COLLAPSE" => u[i].arg # u[j].arg
    BY <2>1, <2>2
  <2> QED
    BY <2>3, <2>4 DEF TimelineInv, u
<1>3. ASSUME NEW x \in Entry, p.timeline = Append(nd.timeline, x), x.id = id,
             x.type = "COLLAPSE" => x.arg \notin nd.consumed /\ x.arg \in p.consumed
      PROVE  TimelineInv(p, ids \cup {id})
  <2> DEFINE t == nd.timeline
             u == p.timeline
  <2>1. /\ t \in Seq(Entry) /\ Len(t) \in Nat /\ DOMAIN t = 1 .. Len(t)
        /\ DOMAIN u = 1 .. (Len(t) + 1) /\ u[Len(t) + 1] = x
        /\ \A i \in 1 .. Len(t) : u[i] = t[i]
    <3>1. nd.timeline \in Seq(Entry)
      BY DEF NodeType
    <3> QED
      BY <3>1, <1>3
  <2>2. /\ \A i \in DOMAIN t : t[i].id \in ids
        /\ \A i \in DOMAIN t : t[i].type = "COLLAPSE" => t[i].arg \in nd.consumed
        /\ \A i, j \in DOMAIN t : i # j =>
             /\ t[i].id # t[j].id
             /\ t[i].type = "COLLAPSE" /\ t[j].type = "COLLAPSE" => t[i].arg # t[j].arg
    BY DEF TimelineInv
  <2> HIDE DEF t, u
  <2>3. \A i \in DOMAIN u :
          /\ u[i].id \in ids \cup {id}
          /\ u[i].type = "COLLAPSE" => u[i].arg \in p.consumed
    BY <1>1, <1>3, <2>1, <2>2
  <2>4. \A i, j \in DOMAIN u : i # j =>
          /\ u[i].id # u[j].id
          /\ u[i].type = "COLLAPSE" /\ u[j].type = "COLLAPSE" => u[i].arg # u[j].arg
    BY <1>1, <1>3, <2>1, <2>2
  <2> QED
    BY <2>3, <2>4 DEF TimelineInv, u
<1> QED
  BY <1>1, <1>2, <1>3 DEF p

(* The harness is deterministic: it does not look at the rest of the node. *)
LEMMA PerformSame ==
  ASSUME NEW a \in NodeType, NEW b \in NodeType, SameHarness(a, b),
         NEW type, NEW arg, Allowed(type, arg), NEW id
  PROVE  SameHarness(Perform(a, type, arg, id), Perform(b, type, arg, id))
<1>1. CASE type = "EVOLUTION"
  <2>1. /\ Perform(a, type, arg, id) = Evolve(a, arg, id)
        /\ Perform(b, type, arg, id) = Evolve(b, arg, id)
    BY <1>1 DEF Perform
  <2> QED
    BY <2>1 DEF Evolve, Recorded, NodeType, SameHarness
<1>2. CASE type = "COLLAPSE"
  <2>1. /\ Perform(a, type, arg, id) = Collapse(a, arg, id)
        /\ Perform(b, type, arg, id) = Collapse(b, arg, id)
    BY <1>2 DEF Perform
  <2>2. /\ a.consumed = b.consumed /\ a.timeline = b.timeline
        /\ a.rules = b.rules /\ a.sealed = b.sealed /\ a.collapses = b.collapses
    BY DEF SameHarness
  <2>3. CASE arg \in a.consumed
    BY <2>1, <2>2, <2>3 DEF Collapse, SameHarness
  <2> DEFINE definite == Definite(RulesOf(a.timeline))
             x == [type |-> "COLLAPSE", arg |-> arg, id |-> id, collapse |-> a.collapses]
             After(nd) == [(IF definite THEN nd ELSE [nd EXCEPT !.timeline = Append(@, x)])
                             EXCEPT !.consumed = @ \cup {arg}, !.collapses = @ + 1]
  <2>4. CASE arg \notin a.consumed
    <3>1. Collapse(a, arg, id) = After(a) /\ Collapse(b, arg, id) = After(b)
      BY <2>2, <2>4 DEF Collapse, Recorded
    <3> HIDE DEF definite, x
    <3>2. CASE definite
      BY <2>1, <2>2, <3>1, <3>2 DEF NodeType, SameHarness
    <3>3. CASE ~definite
      BY <2>1, <2>2, <3>1, <3>3 DEF NodeType, SameHarness
    <3> QED
      BY <3>2, <3>3
  <2> QED
    BY <2>3, <2>4
<1>3. CASE type = "SEAL"
  <2>1. /\ Perform(a, type, arg, id) = [a EXCEPT !.sealed = {Len(a.timeline)}]
        /\ Perform(b, type, arg, id) = [b EXCEPT !.sealed = {Len(b.timeline)}]
    BY <1>3 DEF Perform
  <2> QED
    BY <2>1 DEF NodeType, SameHarness
<1> QED
  BY <1>1, <1>2, <1>3 DEF Allowed

LEMMA SameHarnessIsEquivalence ==
  ASSUME NEW a, NEW b, NEW c, SameHarness(a, b), SameHarness(a, c)
  PROVE  SameHarness(b, a) /\ SameHarness(b, c)
BY DEF SameHarness
-----------------------------------------------------------------------------
LEMMA EventFacts ==
  ASSUME NEW e \in Event
  PROVE  /\ EventId(e) \in Nodes \X Nat /\ EventId(e) = <<e.origin, e.clock>>
         /\ e.origin \in Nodes /\ e.clock \in Nat
         /\ Allowed(e.type, e.arg)
BY DEF Event, EventOf, EventId, Allowed

(* A node that receives an event keeps it in mind, and its clock passes the *)
(* one of the event.                                                        *)
LEMMA ReceiveFacts ==
  ASSUME NEW nd \in NodeType, TimelineInv(nd, nd.seen), NEW e \in Event
  PROVE  LET r == Receive(nd, e)
         IN  /\ r \in NodeType /\ TimelineInv(r, r.seen)
             /\ r.lifecycle = nd.lifecycle
             /\ ~Active(nd) \/ EventId(e) \in nd.seen => r = nd
             /\ Active(nd) /\ EventId(e) \notin nd.seen =>
                  /\ r.seen = nd.seen \cup {EventId(e)}
                  /\ r.clock > nd.clock /\ r.clock > e.clock
                  /\ SameHarness(r, Perform(nd, e.type, e.arg, EventId(e)))
<1>1. CASE ~Active(nd) \/ EventId(e) \in nd.seen
  BY <1>1 DEF Receive
<1>2. CASE Active(nd) /\ EventId(e) \notin nd.seen
  <2> DEFINE c == Larger(nd.clock, e.clock) + 1
             ids == nd.seen \cup {EventId(e)}
             log1 == Append(nd.received, e)
             q == [nd EXCEPT !.clock = c, !.seen = ids, !.received = log1]
             r == Perform(q, e.type, e.arg, EventId(e))
  <2>1. c \in Nat /\ c > nd.clock /\ c > e.clock
    BY EventFacts DEF NodeType, Larger
  <2>2. ids \in SUBSET (Nodes \X Nat)
    BY EventFacts DEF NodeType
  <2>3. log1 \in Seq(Event)
    BY DEF NodeType
  <2>4. Receive(nd, e) = r
    BY <1>2 DEF Receive
  <2> HIDE DEF c, ids, log1
  <2>5. /\ q \in NodeType /\ q.clock = c /\ q.seen = ids
        /\ q.timeline = nd.timeline /\ q.consumed = nd.consumed
        /\ q.lifecycle = nd.lifecycle /\ q.rules = nd.rules
        /\ q.sealed = nd.sealed /\ q.collapses = nd.collapses
    BY <2>1, <2>2, <2>3 DEF NodeType
  <2> HIDE DEF q
  <2>6. TimelineInv(q, nd.seen)
    BY <2>5 DEF TimelineInv
  <2>7. r \in NodeType /\ r.lifecycle = q.lifecycle /\ r.clock = q.clock /\ r.seen = q.seen
    BY <2>5, EventFacts, PerformFacts
  <2>8. TimelineInv(r, nd.seen \cup {EventId(e)})
    <3>1. nd.seen \in SUBSET (Nodes \X Nat)
      BY DEF NodeType
    <3> QED
      BY <1>2, <2>5, <2>6, <3>1, EventFacts, PerformTimeline
  <2>9. SameHarness(r, Perform(nd, e.type, e.arg, EventId(e)))
    <3>1. SameHarness(q, nd)
      BY <2>5 DEF SameHarness
    <3> QED
      BY <2>5, <3>1, EventFacts, PerformSame
  <2> HIDE DEF r
  <2> QED
    BY <1>2, <2>1, <2>4, <2>5, <2>7, <2>8, <2>9 DEF ids
<1> QED
  BY <1>1, <1>2

(* The origin keeps its own event in mind, too. *)
LEMMA EmittedFacts ==
  ASSUME NEW nd \in NodeType, TimelineInv(nd, nd.seen), NEW e \in Event,
         EventId(e) \notin nd.seen
  PROVE  LET r == Emitted(nd, e)
         IN  /\ r \in NodeType /\ TimelineInv(r, r.seen)
             /\ r.lifecycle \in {nd.lifecycle, "SEALED"}
             /\ r.seen = nd.seen \cup {EventId(e)} /\ r.clock = nd.clock
             /\ SameHarness(r, Perform(nd, e.type, e.arg, EventId(e)))
<1> DEFINE p == Perform(nd, e.type, e.arg, EventId(e))
           ids == nd.seen \cup {EventId(e)}
           l == IF e.type = "SEAL" THEN "SEALED" ELSE p.lifecycle
           r == [p EXCEPT !.seen = ids, !.lifecycle = l]
<1>1. p \in NodeType /\ p.lifecycle = nd.lifecycle /\ p.clock = nd.clock /\ p.seen = nd.seen
  BY EventFacts, PerformFacts
<1>2. TimelineInv(p, ids)
  <2>1. nd.seen \in SUBSET (Nodes \X Nat)
    BY DEF NodeType
  <2> QED
    BY <2>1, EventFacts, PerformTimeline
<1>3. Emitted(nd, e) = r
  BY <1>1 DEF Emitted
<1>4. ids \in SUBSET (Nodes \X Nat)
  BY EventFacts DEF NodeType
<1>5. l \in {"INIT", "ACTIVE", "SEALED"} /\ l \in {nd.lifecycle, "SEALED"}
  BY <1>1 DEF NodeType
<1> HIDE DEF p, ids, l
<1>6. /\ r \in NodeType /\ r.seen = ids /\ r.lifecycle = l /\ r.clock = p.clock
      /\ r.timeline = p.timeline /\ r.consumed = p.consumed /\ r.rules = p.rules
      /\ r.sealed = p.sealed /\ r.collapses = p.collapses
  BY <1>1, <1>4, <1>5 DEF NodeType
<1> HIDE DEF r
<1>7. TimelineInv(r, ids) /\ SameHarness(r, p)
  BY <1>2, <1>6 DEF TimelineInv, SameHarness
<1> QED
  BY <1>1, <1>3, <1>5, <1>6, <1>7 DEF p, ids
-----------------------------------------------------------------------------
(* No node has seen an event later than its own clock or the origin's.      *)
NodesInv(nodes) ==
  /\ nodes \in [Nodes -> NodeType]
  /\ \A n \in Nodes : TimelineInv(nodes[n], nodes[n].seen)
  /\ \A n \in Nodes : \A id \in nodes[n].seen :
       id[2] <= nodes[n].clock /\ id[2] <= nodes[id[1]].clock

LogInv ==
  \A i \in DOMAIN log : log[i].clock <= node[log[i].origin].clock

(* As long as no call raised, the nodes of the standard network have the    *)
(* same harness and have seen every event.                                  *)
Together ==
  standard /\ ~raised =>
    /\ Registered = Nodes
    /\ \A m, n \in Nodes : SameHarness(node[m], node[n])
    /\ \A n \in Nodes : \A i \in DOMAIN log : EventId(log[i]) \in node[n].seen

(* The inductive invariant. *)
Inv ==
  /\ TypeOK
  /\ NodesInv(node)
  /\ LogInv
  /\ standard => \A n \in Nodes : node[n].lifecycle # "INIT"
  /\ Together

(* The nodes after those in ns received the event. *)
Delivered(nodes, e, ns) ==
  [n \in Nodes |-> IF n \in ns THEN Receive(nodes[n], e) ELSE nodes[n]]

(* Some nodes receive an event that its origin has sent. *)
LEMMA ReceiveKeepsNodesInv ==
  ASSUME NEW nodes, NodesInv(nodes), NEW e \in Event,
         e.clock <= nodes[e.origin].clock, NEW ns
  PROVE  LET new == Delivered(nodes, e, ns)
         IN  /\ NodesInv(new)
             /\ \A n \in Nodes : /\ new[n].clock >= nodes[n].clock
                                 /\ new[n].lifecycle = nodes[n].lifecycle
                                 /\ nodes[n].seen \subseteq new[n].seen
<1> DEFINE new == Delivered(nodes, e, ns)
<1>1. \A n \in Nodes :
        nodes[n] \in NodeType /\ nodes[n].clock \in Nat /\ TimelineInv(nodes[n], nodes[n].seen)
  BY DEF NodesInv, NodeType
<1>2. \A n \in Nodes :
        /\ new[n] \in NodeType /\ TimelineInv(new[n], new[n].seen)
        /\ new[n].lifecycle = nodes[n].lifecycle
        /\ \/ new[n] = nodes[n]
           \/ /\ new[n].seen = nodes[n].seen \cup {EventId(e)}
              /\ new[n].clock > nodes[n].clock /\ new[n].clock > e.clock
  BY <1>1, ReceiveFacts DEF Delivered
<1>3. \A n \in Nodes : new[n].clock \in Nat
  BY <1>2 DEF NodeType
<1>4. new \in [Nodes -> NodeType]
  BY <1>2 DEF Delivered
<1> HIDE DEF new
<1>5. ASSUME NEW n \in Nodes
      PROVE  new[n].clock >= nodes[n].clock /\ nodes[n].seen \subseteq new[n].seen
  BY <1>1, <1>2, <1>3
<1>6. ASSUME NEW n \in Nodes, NEW id \in new[n].seen
      PROVE  id[2] <= new[n].clock /\ id[2] <= new[id[1]].clock
  <2>1. id \in Nodes \X Nat /\ id[1] \in Nodes /\ id[2] \in Nat
    BY <1>2 DEF NodeType
  <2>2. CASE id \in nodes[n].seen
    <3>1. id[2] <= nodes[n].clock /\ id[2] <= nodes[id[1]].clock
      BY <2>2 DEF NodesInv
    <3> QED
      BY <3>1, <2>1, <1>1, <1>3, <1>5
  <2>3. CASE id = EventId(e) /\ id \notin nodes[n].seen
    <3>1. id[1] = e.origin /\ id[2] = e.clock /\ e.clock \in Nat
      BY <2>3, EventFacts
    <3>2. new[n].clock > e.clock
      BY <1>2, <2>3
    <3> QED
      BY <3>1, <3>2, <2>1, <1>1, <1>3, <1>5
  <2> QED
    BY <1>2, <2>2, <2>3
<1> QED
  BY <1>2, <1>4, <1>5, <1>6 DEF NodesInv, new

LEMMA InitInv == Init => Inv
<1> SUFFICES ASSUME Init PROVE Inv
  OBVIOUS
<1>1. NewNode \in NodeType /\ StandardNode \in NodeType
  <2>1. <<>> \in Seq(Event) /\ <<>> \in Seq(Entry)
    OBVIOUS
  <2> QED
    BY <2>1 DEF NewNode, StandardNode, NodeType
<1>2. /\ NewNode.seen = {} /\ StandardNode.seen = {}
      /\ NewNode.timeline = <<>> /\ StandardNode.timeline = <<>>
      /\ StandardNode.lifecycle = "ACTIVE"
  BY DEF NewNode, StandardNode
<1>3. \A n \in Nodes : node[n] = IF standard THEN StandardNode ELSE NewNode
  BY DEF Init
<1>4. registered \in Seq(Nodes) /\ (standard => Registered = Nodes)
  <2>1. Cardinality(Nodes) \in Nat
    BY NetworkAssumption, FS_CardinalityType
  <2>2. CASE standard
    BY <2>1, <2>2 DEF Init, Orders, Registered
  <2>3. CASE ~standard
    BY <2>3 DEF Init
  <2> QED
    BY <2>2, <2>3
<1>5. TypeOK
  <2>1. log \in Seq(Event) /\ calls \in 0 .. MaxCalls
    BY NetworkAssumption DEF Init
  <2>2. node \in [Nodes -> NodeType]
    BY <1>1 DEF Init
  <2> QED
    BY <1>4, <2>1, <2>2 DEF Init, TypeOK
<1>6. NodesInv(node)
  <2>1. \A n \in Nodes : node[n].seen = {} /\ node[n].timeline = <<>>
    BY <1>2, <1>3
  <2>2. \A n \in Nodes : TimelineInv(node[n], node[n].seen)
    BY <2>1 DEF TimelineInv
  <2> QED
    BY <1>5, <2>1, <2>2 DEF NodesInv, TypeOK
<1>7. LogInv
  BY DEF Init, LogInv
<1>8. Together
  BY <1>3, <1>4 DEF Init, Together, SameHarness
<1> QED
  BY <1>2, <1>3, <1>5, <1>6, <1>7, <1>8 DEF Inv

LEMMA ObserveInv ==
  ASSUME Inv, NEW n \in Nodes, NEW rule \in Rules, Observe(n, rule)
  PROVE  Inv'
<1>1. ~standard
  BY DEF Inv, Observe
<1> DEFINE rs == node[n].rules \cup {rule}
           nd == [node[n] EXCEPT !.rules = rs]
<1>2. /\ node[n] \in NodeType /\ rs \in SUBSET Rules
      /\ node' = [node EXCEPT ![n] = nd]
      /\ UNCHANGED <<registered, log, calls, standard, raised>>
  BY DEF Inv, NodesInv, NodeType, Observe
<1> HIDE DEF rs
<1>3. /\ nd \in NodeType /\ nd.clock = node[n].clock /\ nd.seen = node[n].seen
      /\ nd.timeline = node[n].timeline /\ nd.consumed = node[n].consumed
  BY <1>2 DEF NodeType
<1> HIDE DEF nd
<1>4. \A m \in Nodes :
        /\ node'[m] \in NodeType /\ node'[m].clock = node[m].clock
        /\ node'[m].seen = node[m].seen /\ TimelineInv(node'[m], node'[m].seen)
  BY <1>2, <1>3 DEF Inv, NodesInv, TimelineInv
<1>5. NodesInv(node')
  <2>1. \A m \in Nodes : \A id \in node[m].seen :
          /\ id[1] \in Nodes
          /\ id[2] <= node[m].clock /\ id[2] <= node[id[1]].clock
    BY DEF Inv, NodesInv, NodeType
  <2>2. node' \in [Nodes -> NodeType]
    BY <1>2, <1>4 DEF Inv, NodesInv
  <2> QED
    BY <1>4, <2>1, <2>2 DEF NodesInv
<1>6. LogInv'
  <2>1. \A i \in DOMAIN log : log[i].origin \in Nodes
    BY EventFacts DEF Inv, TypeOK
  <2> QED
    BY <1>2, <1>4, <2>1 DEF Inv, LogInv
<1> QED
  BY <1>1, <1>2, <1>5, <1>6 DEF Inv, TypeOK, NodesInv, Together

LEMMA ActivateInv ==
  ASSUME Inv, NEW n \in Nodes, Activate(n)
  PROVE  Inv'
<1>1. ~standard
  BY DEF Inv, Activate
<1> DEFINE nd == [node[n] EXCEPT !.lifecycle = "ACTIVE"]
<1>2. /\ node[n] \in NodeType
      /\ node' = [node EXCEPT ![n] = nd]
      /\ UNCHANGED <<registered, log, calls, standard, raised>>
  BY DEF Inv, NodesInv, Activate
<1>3. /\ nd \in NodeType /\ nd.clock = node[n].clock /\ nd.seen = node[n].seen
      /\ nd.timeline = node[n].timeline /\ nd.consumed = node[n].consumed
  BY <1>2 DEF NodeType
<1> HIDE DEF nd
<1>4. \A m \in Nodes :
        /\ node'[m] \in NodeType /\ node'[m].clock = node[m].clock
        /\ node'[m].seen = node[m].seen /\ TimelineInv(node'[m], node'[m].seen)
  BY <1>2, <1>3 DEF Inv, NodesInv, TimelineInv
<1>5. NodesInv(node')
  <2>1. \A m \in Nodes : \A id \in node[m].seen :
          /\ id[1] \in Nodes
          /\ id[2] <= node[m].clock /\ id[2] <= node[id[1]].clock
    BY DEF Inv, NodesInv, NodeType
  <2>2. node' \in [Nodes -> NodeType]
    BY <1>2, <1>4 DEF Inv, NodesInv
  <2> QED
    BY <1>4, <2>1, <2>2 DEF NodesInv
<1>6. LogInv'
  <2>1. \A i \in DOMAIN log : log[i].origin \in Nodes
    BY EventFacts DEF Inv, TypeOK
  <2> QED
    BY <1>2, <1>4, <2>1 DEF Inv, LogInv
<1> QED
  BY <1>1, <1>2, <1>5, <1>6 DEF Inv, TypeOK, NodesInv, Together

LEMMA RegisterNodeInv ==
  ASSUME Inv, NEW n \in Nodes, RegisterNode(n)
  PROVE  Inv'
<1>1. /\ n \notin Registered /\ registered' \in Seq(Nodes)
      /\ UNCHANGED <<node, log, calls, standard, raised>>
  BY DEF Inv, TypeOK, RegisterNode
<1>2. ~(standard /\ ~raised)
  BY <1>1 DEF Inv, Together
<1> QED
  BY <1>1, <1>2 DEF Inv, TypeOK, NodesInv, LogInv, Together

(* A new event is new to every node. *)
LEMMA NewEventIsUnseen ==
  ASSUME NodesInv(node), NEW n \in Nodes, NEW e \in Event,
         e.origin = n, e.clock = node[n].clock + 1
  PROVE  \A m \in Nodes : EventId(e) \notin node[m].seen
<1>1. EventId(e)[1] = n /\ EventId(e)[2] = node[n].clock + 1
  BY EventFacts
<1>2. node[n].clock \in Nat
  BY DEF NodesInv, NodeType
<1> QED
  BY <1>1, <1>2 DEF NodesInv

(* What becomes of the origin of a call: its clock ticks, and its harness   *)
(* is performed on; it has seen its own event if the harness did not raise. *)
Ticked(nd) == [nd EXCEPT !.clock = @ + 1]

Called(nd, e) ==
  IF Fails(nd, e.type, e.arg)
    THEN Perform(Ticked(nd), e.type, e.arg, EventId(e))
    ELSE Emitted(Ticked(nd), e)

LEMMA TickedFacts ==
  ASSUME NEW nd \in NodeType, TimelineInv(nd, nd.seen)
  PROVE  LET t == Ticked(nd)
         IN  /\ t \in NodeType /\ TimelineInv(t, t.seen) /\ SameHarness(t, nd)
             /\ t.clock = nd.clock + 1 /\ t.seen = nd.seen /\ t.lifecycle = nd.lifecycle
<1> DEFINE c == nd.clock + 1
           t == [nd EXCEPT !.clock = c]
<1>1. c \in Nat
  BY DEF NodeType
<1>2. Ticked(nd) = t
  BY DEF Ticked
<1> HIDE DEF c
<1>3. /\ t \in NodeType /\ t.clock = c /\ t.seen = nd.seen
      /\ t.timeline = nd.timeline /\ t.consumed = nd.consumed
      /\ t.lifecycle = nd.lifecycle /\ t.rules = nd.rules
      /\ t.sealed = nd.sealed /\ t.collapses = nd.collapses
  BY <1>1 DEF NodeType
<1> HIDE DEF t
<1>4. TimelineInv(t, t.seen) /\ SameHarness(t, nd)
  BY <1>3 DEF TimelineInv, SameHarness
<1> QED
  BY <1>2, <1>3, <1>4 DEF c

LEMMA CalledFacts ==
  ASSUME NEW nd \in NodeType, TimelineInv(nd, nd.seen), Active(nd), NEW e \in Event,
         EventId(e) \notin nd.seen
  PROVE  LET r == Called(nd, e)
         IN  /\ r \in NodeType /\ TimelineInv(r, r.seen)
             /\ r.clock = nd.clock + 1 /\ r.lifecycle # "INIT"
             /\ r.seen \subseteq nd.seen \cup {EventId(e)}
             /\ ~Fails(nd, e.type, e.arg) =>
                  /\ r.seen = nd.seen \cup {EventId(e)}
                  /\ SameHarness(r, Perform(nd, e.type, e.arg, EventId(e)))
<1> DEFINE t == Ticked(nd)
<1>1. /\ t \in NodeType /\ TimelineInv(t, t.seen) /\ SameHarness(t, nd)
      /\ t.clock = nd.clock + 1 /\ t.seen = nd.seen /\ t.lifecycle = nd.lifecycle
  BY TickedFacts
<1> HIDE DEF t
<1>2. t.lifecycle = "ACTIVE"
  BY <1>1 DEF Active
<1>3. CASE ~Fails(nd, e.type, e.arg)
  <2> DEFINE r == Emitted(t, e)
  <2>1. Called(nd, e) = r
    BY <1>3 DEF Called, t
  <2>2. /\ r \in NodeType /\ TimelineInv(r, r.seen)
        /\ r.lifecycle \in {t.lifecycle, "SEALED"}
        /\ r.seen = t.seen \cup {EventId(e)} /\ r.clock = t.clock
        /\ SameHarness(r, Perform(t, e.type, e.arg, EventId(e)))
    BY <1>1, EmittedFacts
  <2> HIDE DEF r
  <2>3. SameHarness(Perform(t, e.type, e.arg, EventId(e)),
                    Perform(nd, e.type, e.arg, EventId(e)))
    BY <1>1, EventFacts, PerformSame
  <2>4. SameHarness(r, Perform(nd, e.type, e.arg, EventId(e)))
    BY <2>2, <2>3 DEF SameHarness
  <2> QED
    BY <1>1, <1>2, <2>1, <2>2, <2>4
<1>4. CASE Fails(nd, e.type, e.arg)
  <2> DEFINE r == Perform(t, e.type, e.arg, EventId(e))
  <2>1. Called(nd, e) = r
    BY <1>4 DEF Called, t
  <2>2. Fails(t, e.type, e.arg)
    BY <1>1, <1>4 DEF Fails, SameHarness
  <2>3. /\ r \in NodeType /\ r.lifecycle = t.lifecycle /\ r.clock = t.clock
        /\ r.seen = t.seen /\ r.timeline = t.timeline /\ t.consumed \subseteq r.consumed
    BY <1>1, <2>2, EventFacts, PerformFacts
  <2> HIDE DEF r
  <2>4. TimelineInv(r, r.seen)
    BY <1>1, <2>3 DEF TimelineInv
  <2> QED
    BY <1>1, <1>2, <1>4, <2>1, <2>3, <2>4
<1> QED
  BY <1>3, <1>4

LEMMA CallKeepsNodesInv ==
  ASSUME NodesInv(node), NEW n \in Nodes, NEW e \in Event, Active(node[n]),
         e.origin = n, e.clock = node[n].clock + 1
  PROVE  NodesInv([node EXCEPT ![n] = Called(node[n], e)])
<1> DEFINE nd == Called(node[n], e)
           new == [node EXCEPT ![n] = nd]
<1>1. node[n] \in NodeType /\ node[n].clock \in Nat /\ TimelineInv(node[n], node[n].seen)
  BY DEF NodesInv, NodeType
<1>2. EventId(e) \notin node[n].seen
  BY NewEventIsUnseen
<1>3. /\ nd \in NodeType /\ TimelineInv(nd, nd.seen)
      /\ nd.clock = e.clock /\ nd.clock = node[n].clock + 1
      /\ nd.seen \subseteq node[n].seen \cup {EventId(e)}
  BY <1>1, <1>2, CalledFacts
<1> HIDE DEF nd
<1>4. /\ new \in [Nodes -> NodeType] /\ new[n] = nd
      /\ \A m \in Nodes : m # n => new[m] = node[m]
  BY <1>3 DEF NodesInv
<1>5. \A m \in Nodes : TimelineInv(new[m], new[m].seen)
  BY <1>3, <1>4 DEF NodesInv
<1>6. ASSUME NEW m \in Nodes, NEW id \in new[m].seen
      PROVE  id[2] <= new[m].clock /\ id[2] <= new[id[1]].clock
  <2> HIDE DEF new
  <2>1. id[1] \in Nodes /\ id[2] \in Nat
    BY <1>4 DEF NodeType
  <2>2. \A k \in Nodes : node[k].clock \in Nat /\ new[k].clock \in Nat /\ new[k].clock >= node[k].clock
    <3>1. \A k \in Nodes : node[k].clock \in Nat /\ new[k].clock \in Nat
      BY <1>4 DEF NodesInv, NodeType
    <3>2. new[n].clock = node[n].clock + 1
      BY <1>3, <1>4
    <3> QED
      BY <1>4, <3>1, <3>2
  <2>3. CASE id \in node[m].seen
    <3>1. id[2] <= node[m].clock /\ id[2] <= node[id[1]].clock
      BY <2>3 DEF NodesInv
    <3> QED
      BY <2>1, <2>2, <3>1
  <2>4. CASE m = n /\ id = EventId(e)
    <3>1. id[1] = n /\ id[2] = e.clock
      BY <2>4, EventFacts
    <3> QED
      BY <1>1, <1>3, <1>4, <2>1, <2>4, <3>1
  <2> QED
    BY <1>3, <1>4, <2>3, <2>4
<1> QED
  BY <1>4, <1>5, <1>6 DEF NodesInv, nd

LEMMA CallInv ==
  ASSUME Inv, NEW n \in Nodes, NEW type, NEW arg, Allowed(type, arg), Call(n, type, arg)
  PROVE  Inv'
<1> DEFINE ticked == [node[n] EXCEPT !.clock = @ + 1]
           e == [origin |-> n, clock |-> ticked.clock, type |-> type, arg |-> arg]
           e1 == [origin |-> n, clock |-> node[n].clock + 1, type |-> type, arg |-> arg]
           sent == [node EXCEPT ![n] = Emitted(ticked, e)]
           failed == [node EXCEPT ![n] = Perform(ticked, type, arg, EventId(e))]
<1>1. /\ Active(node[n]) /\ UNCHANGED <<registered, standard>>
      /\ calls' \in 0 .. MaxCalls
      /\ \/ /\ Fails(node[n], type, arg)
            /\ node' = failed /\ raised' = TRUE /\ log' = log
         \/ /\ ~Fails(node[n], type, arg) /\ n \notin Registered
            /\ node' = sent /\ UNCHANGED <<log, raised>>
         \/ /\ ~Fails(node[n], type, arg) /\ n \in Registered
            /\ node' = Route(sent, e) /\ log' = Append(log, e)
            /\ raised' = (raised \/ RouteRaises(sent, e))
  BY NetworkAssumption DEF Call, Inv, TypeOK
<1>2. node[n] \in NodeType /\ NodesInv(node) /\ node[n].clock \in Nat
  BY DEF Inv, NodesInv, NodeType
<1>3. /\ e \in Event /\ e.origin = n /\ e.clock = node[n].clock + 1
      /\ e.type = type /\ e.arg = arg
  <2>1. e = e1
    BY <1>2 DEF NodeType
  <2>2. e1 \in Event
    BY <1>2 DEF Allowed, Event, EventOf
  <2> QED
    BY <2>1, <2>2
<1>4. \A m \in Nodes : EventId(e) \notin node[m].seen
  <2> HIDE DEF e
  <2> QED
    BY <1>2, <1>3, NewEventIsUnseen
<1>5. /\ Fails(node[n], type, arg) =>
           /\ NodesInv(failed) /\ failed[n].clock = e.clock /\ failed[n].lifecycle # "INIT"
      /\ ~Fails(node[n], type, arg) =>
           /\ NodesInv(sent) /\ sent[n].clock = e.clock /\ sent[n].lifecycle # "INIT"
           /\ sent[n].seen = node[n].seen \cup {EventId(e)}
           /\ SameHarness(sent[n], Perform(node[n], type, arg, EventId(e)))
  <2> DEFINE nd == Called(node[n], e)
             new == [node EXCEPT ![n] = nd]
  <2>1. /\ Fails(node[n], type, arg) => new = failed
        /\ ~Fails(node[n], type, arg) => new = sent
    <3>1. ticked = Ticked(node[n])
      BY DEF Ticked
    <3> HIDE DEF e, ticked
    <3> QED
      BY <1>3, <3>1 DEF Called
  <2>2. new[n] = nd
    BY <1>2 DEF NodesInv
  <2> HIDE DEF e, ticked, failed, sent
  <2>3. NodesInv(new)
    BY <1>1, <1>2, <1>3, CallKeepsNodesInv
  <2>4. TimelineInv(node[n], node[n].seen)
    BY <1>2 DEF NodesInv
  <2>5. /\ nd.clock = e.clock /\ nd.lifecycle # "INIT"
        /\ ~Fails(node[n], e.type, e.arg) =>
             /\ nd.seen = node[n].seen \cup {EventId(e)}
             /\ SameHarness(nd, Perform(node[n], e.type, e.arg, EventId(e)))
    BY <1>1, <1>2, <1>3, <1>4, <2>4, CalledFacts
  <2> HIDE DEF nd, new
  <2> QED
    BY <1>3, <2>1, <2>2, <2>3, <2>5
<1>6. \A m \in Nodes \ {n} : failed[m] = node[m] /\ sent[m] = node[m]
  BY <1>2 DEF NodesInv
<1>7. \A m \in Nodes : node[m].clock \in Nat
  BY <1>2 DEF NodesInv, NodeType
<1>8. \A i \in DOMAIN log : log[i].origin \in Nodes /\ log[i].clock \in Nat
  BY EventFacts DEF Inv, TypeOK
<1> HIDE DEF failed, sent, ticked, e1
<1>9. CASE node' = failed /\ Fails(node[n], type, arg) /\ raised' = TRUE /\ log' = log
  <2>1. \A m \in Nodes : failed[m].clock \in Nat /\ failed[m].clock >= node[m].clock
    BY <1>2, <1>3, <1>5, <1>6, <1>7, <1>9
  <2>2. LogInv'
    BY <1>7, <1>8, <1>9, <2>1 DEF Inv, LogInv
  <2>3. standard => \A m \in Nodes : node'[m].lifecycle # "INIT"
    BY <1>5, <1>6, <1>9 DEF Inv
  <2> QED
    BY <1>1, <1>5, <1>9, <2>2, <2>3 DEF Inv, TypeOK, NodesInv, Together
<1>10. CASE node' = sent /\ ~Fails(node[n], type, arg) /\ n \notin Registered /\ UNCHANGED <<log, raised>>
  <2>1. \A m \in Nodes : sent[m].clock \in Nat /\ sent[m].clock >= node[m].clock
    BY <1>2, <1>3, <1>5, <1>10, <1>6, <1>7
  <2>2. LogInv'
    BY <1>7, <1>8, <1>10, <2>1 DEF Inv, LogInv
  <2>3. standard => \A m \in Nodes : node'[m].lifecycle # "INIT"
    BY <1>5, <1>6, <1>10 DEF Inv
  <2>4. ~(standard /\ ~raised)
    BY <1>10 DEF Inv, Together
  <2> QED
    BY <1>1, <1>5, <1>10, <2>2, <2>3, <2>4 DEF Inv, TypeOK, NodesInv, Together
<1>11. CASE /\ ~Fails(node[n], type, arg)
            /\ node' = Route(sent, e) /\ log' = Append(log, e)
            /\ n \in Registered /\ raised' = (raised \/ RouteRaises(sent, e))
  <2> DEFINE ns == Reached(sent, e)
             new == Delivered(sent, e, ns)
  <2>1. node' = new
    BY <1>11 DEF Route, Delivered
  <2> HIDE DEF new
  <2> HIDE DEF e, ns
  <2>2. /\ NodesInv(new)
        /\ \A m \in Nodes : /\ new[m].clock >= sent[m].clock
                            /\ new[m].lifecycle = sent[m].lifecycle
                            /\ sent[m].seen \subseteq new[m].seen
    <3>1. e.clock <= sent[e.origin].clock
      BY <1>2, <1>3, <1>5, <1>11
    <3>2. NodesInv(sent)
      BY <1>5, <1>11
    <3> QED
      BY <1>3, <3>1, <3>2, ReceiveKeepsNodesInv DEF new
  <2>3. \A m \in Nodes :
          new[m].clock \in Nat /\ sent[m].clock \in Nat /\ new[m].clock >= node[m].clock
    <3>1. \A m \in Nodes : new[m].clock \in Nat /\ sent[m].clock \in Nat
      BY <1>5, <1>11, <2>2 DEF NodesInv, NodeType
    <3>2. \A m \in Nodes : sent[m].clock >= node[m].clock
      BY <1>2, <1>3, <1>5, <1>11, <1>6, <1>7
    <3> QED
      BY <1>7, <2>2, <3>1, <3>2
  <2>4. new[n].clock >= e.clock
    BY <1>5, <1>11, <2>2
  <2>5. /\ log' \in Seq(Event) /\ log \in Seq(Event)
        /\ DOMAIN log' = DOMAIN log \cup {Len(log) + 1}
        /\ log'[Len(log) + 1] = e /\ \A i \in DOMAIN log : log'[i] = log[i]
    BY <1>3, <1>11 DEF Inv, TypeOK
  <2>6. LogInv'
    <3>1. \A i \in DOMAIN log : log[i].clock <= new[log[i].origin].clock
      BY <1>7, <1>8, <2>3 DEF Inv, LogInv
    <3>2. e.clock <= new[e.origin].clock
      BY <1>3, <1>2, <2>3, <2>4
    <3> QED
      BY <2>1, <2>5, <3>1, <3>2 DEF LogInv
  <2>7. standard => \A m \in Nodes : node'[m].lifecycle # "INIT"
    BY <1>5, <1>11, <1>6, <2>1, <2>2 DEF Inv
  <2>8. Together'
    <3> SUFFICES ASSUME standard, ~raised, ~RouteRaises(sent, e)
                 PROVE  /\ Registered' = Nodes
                        /\ \A k, m \in Nodes : SameHarness(new[k], new[m])
                        /\ \A m \in Nodes : \A i \in DOMAIN log' : EventId(log'[i]) \in new[m].seen
      BY <1>1, <1>11, <2>1 DEF Together
    <3>1. /\ Registered = Nodes
          /\ \A k, m \in Nodes : SameHarness(node[k], node[m])
          /\ \A m \in Nodes : \A i \in DOMAIN log : EventId(log[i]) \in node[m].seen
      BY DEF Inv, Together
    <3> DEFINE harness == Perform(node[n], type, arg, EventId(e))
    <3>2. ASSUME NEW m \in Nodes
          PROVE  SameHarness(new[m], harness) /\ new[m].seen = node[m].seen \cup {EventId(e)}
      <4>1. CASE m = n
        <5>1. n \notin ns
          BY <1>3 DEF ns, Reached
        <5> QED
          BY <1>5, <1>11, <4>1, <5>1 DEF new, Delivered
      <4>2. CASE m # n
        <5>1. \A k \in Nodes \ {n} : ~ReceiveRaises(sent[k], e)
          BY <1>3, <3>1 DEF RouteRaises
        <5>2. m \in ns
          <6>1. PICK i \in DOMAIN registered : registered[i] = m
            BY <3>1 DEF Registered, ToSet
          <6>2. registered \in Seq(Nodes) /\ i \in 1 .. Len(registered) /\ Len(registered) \in Nat
            BY DEF Inv, TypeOK
          <6>3. \A j \in 1 .. (i - 1) : registered[j] \in Nodes
            BY <6>2
          <6> QED
            BY <1>3, <4>2, <5>1, <6>1, <6>3 DEF ns, Reached
        <5>3. new[m] = Receive(node[m], e)
          BY <1>6, <4>2, <5>2 DEF new, Delivered
        <5>4. Active(node[m]) /\ EventId(e) \notin node[m].seen
          BY <1>4, <1>6, <4>2, <5>1 DEF ReceiveRaises
        <5>5. node[m] \in NodeType /\ TimelineInv(node[m], node[m].seen)
          BY <1>2 DEF NodesInv
        <5>6. /\ new[m].seen = node[m].seen \cup {EventId(e)}
              /\ SameHarness(new[m], Perform(node[m], type, arg, EventId(e)))
          BY <1>3, <5>3, <5>4, <5>5, ReceiveFacts
        <5>7. SameHarness(Perform(node[m], type, arg, EventId(e)), harness)
          BY <1>2, <1>3, <3>1, <5>5, PerformSame
        <5> QED
          BY <5>6, <5>7 DEF SameHarness
      <4> QED
        BY <4>1, <4>2
    <3>3. \A k, m \in Nodes : SameHarness(new[k], new[m])
      <4> HIDE DEF harness
      <4> QED
        BY <3>2 DEF SameHarness
    <3>4. \A m \in Nodes : \A i \in DOMAIN log' : EventId(log'[i]) \in new[m].seen
      BY <2>5, <3>1, <3>2
    <3>5. Registered' = Nodes
      BY <1>1, <3>1 DEF Registered
    <3> QED
      BY <3>3, <3>4, <3>5
  <2>9. TypeOK'
    BY <1>1, <1>11, <2>1, <2>2, <2>5 DEF Inv, TypeOK, NodesInv
  <2> QED
    BY <1>1, <2>1, <2>2, <2>6, <2>7, <2>8, <2>9 DEF Inv
<1> QED
  BY <1>1, <1>9, <1>10, <1>11

LEMMA RedeliverInv ==
  ASSUME Inv, NEW n \in Nodes, NEW i \in DOMAIN log, Redeliver(n, log[i])
  PROVE  Inv'
<1> DEFINE e == log[i]
           new == Delivered(node, e, {n})
<1>1. /\ node' = new
      /\ raised' = (raised \/ ReceiveRaises(node[n], e))
      /\ UNCHANGED <<registered, log, calls, standard>>
  BY DEF Inv, TypeOK, Redeliver, Delivered
<1>2. e \in Event /\ e.clock <= node[e.origin].clock /\ NodesInv(node)
  BY DEF Inv, TypeOK, LogInv
<1>3. /\ NodesInv(new)
      /\ \A m \in Nodes : /\ new[m].clock >= node[m].clock
                          /\ new[m].lifecycle = node[m].lifecycle
                          /\ node[m].seen \subseteq new[m].seen
  <2> HIDE DEF e
  <2> QED
    BY <1>2, ReceiveKeepsNodesInv
<1> HIDE DEF new
<1>4. \A m \in Nodes : node[m].clock \in Nat /\ new[m].clock \in Nat
  BY <1>2, <1>3 DEF NodesInv, NodeType
<1>5. \A k \in DOMAIN log : log[k].origin \in Nodes /\ log[k].clock \in Nat
  BY EventFacts DEF Inv, TypeOK
<1>6. LogInv'
  BY <1>1, <1>3, <1>4, <1>5 DEF Inv, LogInv
<1>7. raised' \in BOOLEAN
  BY <1>1 DEF Inv, TypeOK
<1>8. Together'
  <2> SUFFICES ASSUME standard, ~raised, ~ReceiveRaises(node[n], e)
               PROVE  new = node
    BY <1>1 DEF Inv, Together, Registered
  <2>1. EventId(e) \in node[n].seen
    BY DEF Inv, Together
  <2>2. Receive(node[n], e) = node[n]
    BY <2>1 DEF Receive
  <2> QED
    BY <1>2, <2>2 DEF new, Delivered, NodesInv
<1> QED
  BY <1>1, <1>3, <1>6, <1>7, <1>8 DEF Inv, TypeOK, NodesInv

LEMMA NextInv == Inv /\ [Next]_vars => Inv'
<1> SUFFICES ASSUME Inv, [Next]_vars PROVE Inv'
  OBVIOUS
<1>1. CASE UNCHANGED vars
  BY <1>1 DEF vars, Inv, TypeOK, NodesInv, LogInv, Together, Registered
<1>2. ASSUME NEW n \in Nodes, NEW rule \in Rules, Observe(n, rule) PROVE Inv'
  BY <1>2, ObserveInv
<1>3. ASSUME NEW n \in Nodes, Activate(n) PROVE Inv'
  BY <1>3, ActivateInv
<1>4. ASSUME NEW n \in Nodes, RegisterNode(n) PROVE Inv'
  BY <1>4, RegisterNodeInv
<1>5. ASSUME NEW n \in Nodes, NEW rule \in Rules, Call(n, "EVOLUTION", rule) PROVE Inv'
  BY <1>5, CallInv DEF Allowed
<1>6. ASSUME NEW n \in Nodes, NEW token \in Tokens, Call(n, "COLLAPSE", token) PROVE Inv'
  BY <1>6, CallInv DEF Allowed
<1>7. ASSUME NEW n \in Nodes, Call(n, "SEAL", NoArgument) PROVE Inv'
  BY <1>7, CallInv DEF Allowed
<1>8. ASSUME NEW n \in Nodes, NEW i \in DOMAIN log, Redeliver(n, log[i]) PROVE Inv'
  BY <1>8, RedeliverInv
<1> QED
  BY <1>1, <1>2, <1>3, <1>4, <1>5, <1>6, <1>7, <1>8 DEF Next
-----------------------------------------------------------------------------
(* A new event is logged by a call, and its clock is the next of its origin. *)
LEMMA ClockStep ==
  ASSUME Inv, NEW n \in Nodes, NEW type, NEW arg, Call(n, type, arg),
         NEW i \in DOMAIN log' \ DOMAIN log
  PROVE  \A id \in node[log'[i].origin].seen : log'[i].clock > id[2]
<1> DEFINE ticked == [node[n] EXCEPT !.clock = @ + 1]
           e == [origin |-> n, clock |-> ticked.clock, type |-> type, arg |-> arg]
<1>1. log' = Append(log, e)
  BY DEF Call
<1>2. ticked.clock = node[n].clock + 1
  BY DEF Inv, NodesInv, NodeType
<1>3. log'[i].origin = n /\ log'[i].clock = node[n].clock + 1
  <2>1. e.origin = n /\ e.clock = node[n].clock + 1
    BY <1>2
  <2>2. log \in Seq(Event)
    BY DEF Inv, TypeOK
  <2> HIDE DEF e
  <2>3. log'[i] = e
    BY <1>1, <2>2
  <2> QED
    BY <2>1, <2>3
<1>4. \A id \in node[n].seen : id[2] <= node[n].clock /\ id[2] \in Nat
  BY DEF Inv, NodesInv, NodeType
<1>5. node[n].clock \in Nat
  BY DEF Inv, NodesInv, NodeType
<1> QED
  BY <1>3, <1>4, <1>5

(* Neither a call nor a broadcast changes a sealed node. *)
LEMMA SealedStep ==
  ASSUME Inv, NEW n \in Nodes, NEW type, NEW arg, Call(n, type, arg),
         NEW m \in Nodes, node[m].lifecycle = "SEALED"
  PROVE  node'[m] = node[m]
<1>1. m # n /\ DOMAIN node = Nodes
  BY DEF Call, Active, Inv, NodesInv
<1> DEFINE ticked == [node[n] EXCEPT !.clock = @ + 1]
           e == [origin |-> n, clock |-> ticked.clock, type |-> type, arg |-> arg]
           sent == [node EXCEPT ![n] = Emitted(ticked, e)]
           failed == [node EXCEPT ![n] = Perform(ticked, type, arg, EventId(e))]
<1>2. node' = failed \/ node' = sent \/ node' = Route(sent, e)
  BY DEF Call
<1>3. failed[m] = node[m] /\ sent[m] = node[m]
  BY <1>1
<1> HIDE DEF failed, sent, e
<1>4. Route(sent, e)[m] = node[m]
  <2>1. Receive(node[m], e) = node[m]
    BY DEF Receive, Active
  <2> QED
    BY <1>3, <2>1 DEF Route
<1> QED
  BY <1>2, <1>3, <1>4

(* The inductive invariant holds for any network. *)
THEOREM Invariance == Spec => []Inv
<1> QED
  BY InitInv, NextInv, PTL DEF Spec

(* The variables keep their types, in every network. *)
THEOREM TypeCorrectness == Spec => []TypeOK
<1>1. Inv => TypeOK
  BY DEF Inv
<1> QED
  BY <1>1, Invariance, PTL

(* receive_event and the bus apply every event at most once per node, and    *)
(* every token collapses a node at most once.                                *)
THEOREM EventsAreAppliedOnce == Spec => []AppliedOnce
<1>1. Inv => AppliedOnce
  BY DEF Inv, NodesInv, TimelineInv, AppliedOnce
<1> QED
  BY <1>1, Invariance, PTL

(* As long as no call raises, the nodes of the standard network replay the   *)
(* same timeline.                                                            *)
THEOREM NodesConverge == Spec => []Converged
<1>1. Inv => Converged
  BY DEF Inv, Together, SameHarness, Converged
<1> QED
  BY <1>1, Invariance, PTL

(* The clock of a new event is larger than that of any event that its origin *)
(* has seen.                                                                 *)
THEOREM ClocksFollowCauses == Spec => ClockOrder
<1> DEFINE A == \A i \in DOMAIN log' \ DOMAIN log : \A id \in node[log'[i].origin].seen :
                  log'[i].clock > id[2]
<1>1. Inv /\ [Next]_vars => [A]_vars
  <2> SUFFICES ASSUME Inv, [Next]_vars, NEW i \in DOMAIN log' \ DOMAIN log
               PROVE  \A id \in node[log'[i].origin].seen : log'[i].clock > id[2]
    OBVIOUS
  <2>1. log' # log
    OBVIOUS
  <2>2. PICK n \in Nodes :
          \/ \E rule \in Rules : Call(n, "EVOLUTION", rule)
          \/ \E token \in Tokens : Call(n, "COLLAPSE", token)
          \/ Call(n, "SEAL", NoArgument)
    BY <2>1 DEF Next, Observe, Activate, RegisterNode, Redeliver, vars
  <2> QED
    BY <2>2, ClockStep
<1> QED
  BY <1>1, Invariance, PTL DEF Spec, ClockOrder

(* No step changes a sealed node. *)
THEOREM SealsAreFinal == Spec => SealIsFinal
<1> DEFINE A == \A n \in Nodes : node[n].lifecycle = "SEALED" => node'[n] = node[n]
<1>1. Inv /\ [Next]_vars => [A]_vars
  <2> SUFFICES ASSUME Inv, [Next]_vars, NEW m \in Nodes, node[m].lifecycle = "SEALED"
               PROVE  node'[m] = node[m]
    OBVIOUS
  <2>1. DOMAIN node = Nodes
    BY DEF Inv, NodesInv
  <2>2. ASSUME NEW n \in Nodes, NEW rule \in Rules, Observe(n, rule)
        PROVE  node'[m] = node[m]
    BY <2>1, <2>2 DEF Observe
  <2>3. ASSUME NEW n \in Nodes, Activate(n)
        PROVE  node'[m] = node[m]
    BY <2>1, <2>3 DEF Activate
  <2>4. ASSUME NEW n \in Nodes, NEW i \in DOMAIN log, Redeliver(n, log[i])
        PROVE  node'[m] = node[m]
    <3>1. Receive(node[m], log[i]) = node[m]
      BY DEF Receive, Active
    <3> QED
      BY <2>1, <2>4, <3>1 DEF Redeliver
  <2> QED
    BY <2>2, <2>3, <2>4, SealedStep DEF Next, RegisterNode, vars
<1> QED
  BY <1>1, Invariance, PTL DEF Spec, SealIsFinal
=============================================================================
