------------------------- MODULE PhysicalHubProofs -------------------------
(***************************************************************************)
(* The safety properties of the physical hub, for any number of nodes,     *)
(* zones and proposals, and any batches.  Replay is a recursion over the   *)
(* batch log: what it computes follows by induction on its length.         *)
(***************************************************************************)
EXTENDS PhysicalHub, SequenceTheorems, NaturalsInduction, WellFoundedInduction,
        TLAPS

(* The nodes below a hub that has sequenced L proposals. *)
BatchOf(L) == [cid : 1 .. L, post : [Zones -> Nat], hash : RecordChain]
NodeOf(L) ==
  [next : 1 .. L + 1, state : [Zones -> Nat], records : RecordChain,
   batches : Seq(BatchOf(L))]

(* The batches of a node are in the hub's order, and before its position.   *)
Ordered(nd) ==
  /\ \A i, j \in DOMAIN nd.batches : i < j => nd.batches[i].cid < nd.batches[j].cid
  /\ \A i \in DOMAIN nd.batches : nd.batches[i].cid < nd.next

(* Each batch was executed from the state that the one before left, and the *)
(* node's state is that of the last one.                                    *)
Before(nd, i) == IF i = 1 THEN Smooth ELSE nd.batches[i - 1].post
Follows(nd, log) ==
  /\ nd.state = Before(nd, Len(nd.batches) + 1)
  /\ \A i \in DOMAIN nd.batches :
       /\ ~Raises(log[nd.batches[i].cid].batch)
       /\ nd.batches[i].post = Updated(Before(nd, i), log[nd.batches[i].cid].batch)

(* As long as no batch failed, a batch's hash covers what the one before     *)
(* covered and the records of its own, and the last one's covers all.       *)
Covered(nd, i) == IF i = 1 THEN <<>> ELSE nd.batches[i - 1].hash
AllSucceeded(log) == \A cid \in DOMAIN log : ~Raises(log[cid].batch)
Chained(nd, log) ==
  AllSucceeded(log) =>
    /\ nd.records = Covered(nd, Len(nd.batches) + 1)
    /\ \A i \in DOMAIN nd.batches :
         nd.batches[i].hash =
           Apply(Covered(nd, i), Before(nd, i), log[nd.batches[i].cid].batch)

(* No proposal is sequenced twice. *)
Distinct ==
  /\ \A i \in CausalIds : event_log[i].proposal \in seen
  /\ \A i, j \in CausalIds : i # j => event_log[i].proposal # event_log[j].proposal

(* What a release in progress has acknowledged so far did not halt the hub. *)
Releasing ==
  /\ release # NoRelease => release.node \in Members /\ release.left # <<>>
  /\ halted => release = NoRelease
  /\ release # NoRelease /\ options.halt_on_rejection =>
       \A a \in acks : a.type # "REJECTED"

Inv ==
  /\ TypeOK
  /\ \A n \in Nodes :
       Ordered(node[n]) /\ Follows(node[n], event_log) /\ Chained(node[n], event_log)
  /\ Distinct
  /\ Releasing
-----------------------------------------------------------------------------
LEMMA Positions ==
  ASSUME TypeOK
  PROVE  /\ Len(event_log) \in Nat /\ CausalIds = 1 .. Len(event_log)
         /\ \A i \in CausalIds : /\ event_log[i] \in [proposal : ProposalIds, batch : Batches]
                                 /\ event_log[i].batch \in Batches
                                 /\ event_log[i].proposal \in ProposalIds
         /\ NodeType = NodeOf(Len(event_log))
         /\ \A n \in Nodes : node[n] \in NodeOf(Len(event_log))
         /\ Members \subseteq Nodes
<1> DEFINE Entries == [proposal : ProposalIds, batch : Batches]
<1>1. event_log \in Seq(Entries)
  BY DEF TypeOK
<1>2. /\ Len(event_log) \in Nat /\ CausalIds = 1 .. Len(event_log)
      /\ \A i \in CausalIds : event_log[i] \in Entries
  <2> HIDE DEF Entries
  <2> QED BY <1>1 DEF CausalIds
<1>3. NodeType = NodeOf(Len(event_log))
  BY <1>2 DEF NodeType, NodeOf, BatchType, BatchOf
<1>4. \A n \in Nodes : node[n] \in NodeOf(Len(event_log))
  BY <1>3 DEF TypeOK
<1>5. Members \subseteq Nodes
  BY PhysicalAssumption DEF TypeOK, Members, Nodes
<1> QED BY <1>2, <1>3, <1>4, <1>5

LEMMA TransitionType ==
  ASSUME NEW r \in Nat, NEW d \in Int
  PROVE  Transition(r, d) \in Nat
BY DEF Transition

LEMMA RecordedRates ==
  ASSUME NEW batch \in Batches, NEW z \in RecordedZones(batch)
  PROVE  z \in Zones /\ batch[z] \in Int
<1>1. z \in DOMAIN batch /\ z \in Zones /\ \A y \in DOMAIN batch : y <= z => batch[y] # Malformed
  BY DEF RecordedZones
<1>2. z <= z
  BY <1>1, PhysicalAssumption DEF Zones
<1>3. batch[z] # Malformed
  BY <1>1, <1>2
<1> QED BY <1>1, <1>3, PhysicalAssumption

LEMMA UpdatedType ==
  ASSUME NEW batch \in Batches, NEW state \in [Zones -> Nat]
  PROVE  Updated(state, batch) \in [Zones -> Nat]
BY RecordedRates, TransitionType DEF Updated

LEMMA ApplyType ==
  ASSUME NEW batch \in Batches, NEW state \in [Zones -> Nat], NEW records \in RecordChain
  PROVE  Apply(records, state, batch) \in RecordChain
<1> DEFINE Recs == SUBSET [zone : Zones, pre : Nat, post : Nat]
           new == {Record(state, batch, z) : z \in RecordedZones(batch)}
<1>1. \A z \in RecordedZones(batch) : Record(state, batch, z) \in [zone : Zones, pre : Nat, post : Nat]
  BY RecordedRates, TransitionType DEF Record
<1>2. new \in Recs
  BY <1>1
<1>3. records \in Seq(Recs)
  BY DEF RecordChain
<1>4. Append(records, new) \in Seq(Recs)
  <2> HIDE DEF new, Recs
  <2> QED BY <1>2, <1>3
<1> QED BY <1>3, <1>4 DEF Apply, RecordChain

(* What the execution of a batch does to a node. *)
LEMMA BatchEffect ==
  ASSUME NEW L \in Nat, NEW cid \in 1 .. L, NEW batch \in Batches, NEW nd \in NodeOf(L)
  PROVE  LET nd2 == ExecuteBatch(nd, cid, batch)
         IN  /\ nd2 \in NodeOf(L)
             /\ nd2.next = nd.next
             /\ nd2.records = Apply(nd.records, nd.state, batch)
             /\ Raises(batch) => nd2.state = nd.state /\ nd2.batches = nd.batches
             /\ ~Raises(batch) =>
                  /\ nd2.state = Updated(nd.state, batch)
                  /\ nd2.batches = Append(nd.batches, [cid |-> cid, post |-> nd2.state, hash |-> nd2.records])
<1> DEFINE new == Updated(nd.state, batch)
           recs == Apply(nd.records, nd.state, batch)
<1>1. /\ nd.next \in 1 .. L + 1 /\ nd.state \in [Zones -> Nat] /\ nd.records \in RecordChain
      /\ nd.batches \in Seq(BatchOf(L))
  BY DEF NodeOf
<1>2. new \in [Zones -> Nat] /\ recs \in RecordChain
  BY <1>1, UpdatedType, ApplyType
<1> HIDE DEF new, recs
<1>3. CASE Raises(batch)
  <2>1. ExecuteBatch(nd, cid, batch) = [nd EXCEPT !.records = recs]
    BY <1>3 DEF ExecuteBatch, recs
  <2> QED BY <1>1, <1>2, <1>3, <2>1 DEF NodeOf, recs
<1>4. CASE ~Raises(batch)
  <2> DEFINE b == [cid |-> cid, post |-> new, hash |-> recs]
  <2>1. ExecuteBatch(nd, cid, batch) =
          [[nd EXCEPT !.records = recs] EXCEPT !.state = new, !.batches = Append(@, Batch(cid, new, [nd EXCEPT !.records = recs].records))]
    BY <1>4 DEF ExecuteBatch, recs, new
  <2>2. [nd EXCEPT !.records = recs].records = recs /\ [nd EXCEPT !.records = recs].batches = nd.batches
    BY DEF NodeOf
  <2>3. b \in BatchOf(L)
    BY <1>2 DEF BatchOf
  <2>4. Append(nd.batches, b) \in Seq(BatchOf(L))
    <3> HIDE DEF b
    <3> QED BY <1>1, <2>3
  <2>5. ExecuteBatch(nd, cid, batch) =
          [nd EXCEPT !.records = recs, !.state = new, !.batches = Append(nd.batches, b)]
    BY <2>1, <2>2 DEF Batch, NodeOf
  <2> DEFINE more == Append(nd.batches, b)
  <2>6. /\ ExecuteBatch(nd, cid, batch) \in NodeOf(L)
        /\ ExecuteBatch(nd, cid, batch).next = nd.next
        /\ ExecuteBatch(nd, cid, batch).state = new
        /\ ExecuteBatch(nd, cid, batch).records = recs
        /\ ExecuteBatch(nd, cid, batch).batches = more
    <3>1. more \in Seq(BatchOf(L)) /\ ExecuteBatch(nd, cid, batch) =
            [nd EXCEPT !.records = recs, !.state = new, !.batches = more]
      BY <2>4, <2>5
    <3> HIDE DEF more
    <3> QED BY <1>1, <1>2, <3>1 DEF NodeOf
  <2> QED BY <1>4, <2>6 DEF new, recs
<1> QED BY <1>3, <1>4

LEMMA EventEffect ==
  ASSUME NEW L \in Nat, NEW cid \in 1 .. L, NEW batch \in Batches, NEW nd \in NodeOf(L),
         cid >= nd.next
  PROVE  LET nd2 == ExecuteEvent(nd, cid, batch)
         IN  /\ nd2 \in NodeOf(L)
             /\ nd2.next = cid + 1
             /\ nd2.records = Apply(nd.records, nd.state, batch)
             /\ Raises(batch) => nd2.state = nd.state /\ nd2.batches = nd.batches
             /\ ~Raises(batch) =>
                  /\ nd2.state = Updated(nd.state, batch)
                  /\ nd2.batches = Append(nd.batches, [cid |-> cid, post |-> nd2.state, hash |-> nd2.records])
<1> DEFINE moved == [nd EXCEPT !.next = cid + 1]
<1>1. cid + 1 \in 1 .. L + 1
  OBVIOUS
<1>2. /\ moved \in NodeOf(L) /\ moved.next = cid + 1
      /\ moved.state = nd.state /\ moved.batches = nd.batches
      /\ moved.records = nd.records
  BY <1>1 DEF NodeOf
<1>3. nd.next \in 1 .. L + 1
  BY DEF NodeOf
<1>4. ExecuteEvent(nd, cid, batch) = ExecuteBatch(moved, cid, batch)
  BY <1>3 DEF ExecuteEvent
<1> HIDE DEF moved
<1> QED BY <1>2, <1>4, BatchEffect

LEMMA OldEvent ==
  ASSUME NEW L \in Nat, NEW cid \in 1 .. L, NEW batch, NEW nd \in NodeOf(L),
         ~(cid >= nd.next)
  PROVE  ExecuteEvent(nd, cid, batch) = nd
<1>1. nd.next \in 1 .. L + 1
  BY DEF NodeOf
<1> QED BY <1>1 DEF ExecuteEvent

LEMMA EventType ==
  ASSUME NEW L \in Nat, NEW cid \in 1 .. L, NEW batch \in Batches, NEW nd \in NodeOf(L)
  PROVE  ExecuteEvent(nd, cid, batch) \in NodeOf(L)
BY EventEffect, OldEvent

LEMMA OrderedKept ==
  ASSUME NEW L \in Nat, NEW cid \in 1 .. L, NEW batch \in Batches, NEW nd \in NodeOf(L),
         Ordered(nd)
  PROVE  Ordered(ExecuteEvent(nd, cid, batch))
<1> DEFINE nd2 == ExecuteEvent(nd, cid, batch)
<1>1. CASE ~(cid >= nd.next)
  BY <1>1, OldEvent
<1>2. CASE cid >= nd.next
  <2>1. /\ nd.next \in 1 .. L + 1 /\ nd.batches \in Seq(BatchOf(L))
    BY DEF NodeOf
  <2>2. /\ Len(nd.batches) \in Nat /\ DOMAIN nd.batches = 1 .. Len(nd.batches)
        /\ \A i \in DOMAIN nd.batches : nd.batches[i].cid \in 1 .. L
    <3>1. \A i \in DOMAIN nd.batches : nd.batches[i] \in BatchOf(L)
      BY <2>1
    <3> QED BY <2>1, <3>1 DEF BatchOf
  <2>3. nd2.next = cid + 1
    BY <1>2, EventEffect
  <2>4. \A i \in DOMAIN nd.batches : nd.batches[i].cid < cid
    BY <1>2, <2>1, <2>2 DEF Ordered
  <2>5. CASE nd2.batches = nd.batches
    <3>1. \A i \in DOMAIN nd.batches : nd.batches[i].cid < cid + 1
      BY <2>2, <2>4
    <3> HIDE DEF nd2
    <3>2. Ordered(nd2)
      BY <2>3, <2>5, <3>1 DEF Ordered
    <3> QED BY <3>2 DEF nd2
  <2>6. CASE \E b : b.cid = cid /\ nd2.batches = Append(nd.batches, b)
    <3>1. PICK b : b.cid = cid /\ nd2.batches = Append(nd.batches, b)
      BY <2>6
    <3> HIDE DEF nd2
    <3>2. /\ DOMAIN nd2.batches = 1 .. Len(nd.batches) + 1
          /\ \A i \in DOMAIN nd.batches : nd2.batches[i] = nd.batches[i]
          /\ nd2.batches[Len(nd.batches) + 1] = b
      BY <2>1, <2>2, <3>1, AppendProperties
    <3>3. \A i \in DOMAIN nd2.batches : i \in DOMAIN nd.batches \/ i = Len(nd.batches) + 1
      BY <2>2, <3>2
    <3>4. \A i \in DOMAIN nd2.batches : nd2.batches[i].cid < nd2.next
      BY <2>2, <2>3, <2>4, <3>1, <3>2, <3>3
    <3>5. ASSUME NEW i \in DOMAIN nd2.batches, NEW j \in DOMAIN nd2.batches, i < j
          PROVE  nd2.batches[i].cid < nd2.batches[j].cid
      <4>1. i \in DOMAIN nd.batches
        BY <2>2, <3>2, <3>5
      <4>2. CASE j \in DOMAIN nd.batches
        BY <3>2, <3>5, <4>1, <4>2 DEF Ordered
      <4>3. CASE j = Len(nd.batches) + 1
        BY <2>4, <3>1, <3>2, <4>1, <4>3
      <4> QED BY <3>3, <4>2, <4>3
    <3> QED BY <3>4, <3>5 DEF Ordered, nd2
  <2>7. CASE Raises(batch)
    BY <1>2, <2>5, <2>7, EventEffect
  <2>8. CASE ~Raises(batch)
    <3> DEFINE b == [cid |-> cid, post |-> nd2.state, hash |-> nd2.records]
    <3>1. nd2.batches = Append(nd.batches, b)
      BY <1>2, <2>8, EventEffect
    <3>2. b.cid = cid
      OBVIOUS
    <3> HIDE DEF b
    <3> QED BY <2>6, <3>1, <3>2
  <2> QED BY <2>7, <2>8
<1> QED BY <1>1, <1>2

LEMMA FollowsKept ==
  ASSUME NEW L \in Nat, NEW cid \in 1 .. L, NEW nd \in NodeOf(L), NEW log,
         log[cid].batch \in Batches, Follows(nd, log)
  PROVE  Follows(ExecuteEvent(nd, cid, log[cid].batch), log)
<1> DEFINE batch == log[cid].batch
           nd2 == ExecuteEvent(nd, cid, batch)
<1>1. CASE ~(cid >= nd.next)
  BY <1>1, OldEvent
<1>2. CASE cid >= nd.next /\ Raises(batch)
  <2>1. nd2.state = nd.state /\ nd2.batches = nd.batches
    BY <1>2, EventEffect
  <2> HIDE DEF nd2
  <2>2. Follows(nd2, log)
    BY <2>1 DEF Follows, Before
  <2> QED BY <2>2 DEF nd2
<1>3. CASE cid >= nd.next /\ ~Raises(batch)
  <2> DEFINE b == [cid |-> cid, post |-> nd2.state, hash |-> nd2.records]
  <2>1. nd2.state = Updated(nd.state, batch) /\ nd2.batches = Append(nd.batches, b)
    BY <1>3, EventEffect
  <2>2. /\ Len(nd.batches) \in Nat /\ DOMAIN nd.batches = 1 .. Len(nd.batches)
        /\ nd.batches \in Seq(BatchOf(L))
    BY DEF NodeOf
  <2>b. b.cid = cid /\ b.post = nd2.state
    OBVIOUS
  <2> HIDE DEF nd2, b
  <2>3. /\ DOMAIN nd2.batches = 1 .. Len(nd.batches) + 1
        /\ Len(nd2.batches) = Len(nd.batches) + 1
        /\ \A i \in DOMAIN nd.batches : nd2.batches[i] = nd.batches[i]
        /\ nd2.batches[Len(nd.batches) + 1] = b
    BY <2>1, <2>2, AppendProperties
  <2>4. ASSUME NEW i \in 1 .. Len(nd.batches) + 1
        PROVE  Before(nd2, i) = Before(nd, i)
    <3>1. CASE i = 1
      BY <3>1 DEF Before
    <3>2. CASE i # 1
      <4>1. i - 1 \in DOMAIN nd.batches
        BY <2>2, <3>2
      <4> QED BY <2>3, <3>2, <4>1 DEF Before
    <3> QED BY <3>1, <3>2
  <2>5. nd2.state = Before(nd2, Len(nd2.batches) + 1)
    <3>1. Len(nd2.batches) + 1 # 1 /\ (Len(nd2.batches) + 1) - 1 = Len(nd.batches) + 1
      BY <2>2, <2>3
    <3> QED BY <2>b, <2>3, <3>1 DEF Before
  <2>6. ASSUME NEW i \in DOMAIN nd2.batches
        PROVE  /\ ~Raises(log[nd2.batches[i].cid].batch)
               /\ nd2.batches[i].post = Updated(Before(nd2, i), log[nd2.batches[i].cid].batch)
    <3>1. CASE i \in DOMAIN nd.batches
      BY <2>2, <2>3, <2>4, <3>1 DEF Follows
    <3>2. CASE i = Len(nd.batches) + 1
      <4>1. nd2.batches[i].cid = cid /\ nd2.batches[i].post = nd2.state
        BY <2>b, <2>3, <3>2
      <4>2. Before(nd2, i) = nd.state
        BY <2>3, <2>4, <3>2 DEF Follows
      <4> QED BY <1>3, <2>1, <4>1, <4>2
    <3> QED BY <2>2, <2>3, <3>1, <3>2
  <2>7. Follows(nd2, log)
    BY <2>5, <2>6 DEF Follows
  <2> QED BY <2>7 DEF nd2
<1> QED BY <1>1, <1>2, <1>3

LEMMA ChainedKept ==
  ASSUME NEW L \in Nat, NEW cid \in 1 .. L, NEW nd \in NodeOf(L), NEW log,
         cid \in DOMAIN log, log[cid].batch \in Batches,
         Follows(nd, log), Chained(nd, log)
  PROVE  Chained(ExecuteEvent(nd, cid, log[cid].batch), log)
<1> DEFINE batch == log[cid].batch
           nd2 == ExecuteEvent(nd, cid, batch)
<1>1. CASE ~(cid >= nd.next)
  BY <1>1, OldEvent
<1>2. CASE ~AllSucceeded(log)
  BY <1>2 DEF Chained
<1>3. CASE cid >= nd.next /\ AllSucceeded(log)
  <2> DEFINE b == [cid |-> cid, post |-> nd2.state, hash |-> nd2.records]
  <2>0. ~Raises(batch)
    BY <1>3 DEF AllSucceeded
  <2>1. /\ nd2.records = Apply(nd.records, nd.state, batch)
        /\ nd2.batches = Append(nd.batches, b)
    BY <1>3, <2>0, EventEffect
  <2>2. /\ Len(nd.batches) \in Nat /\ DOMAIN nd.batches = 1 .. Len(nd.batches)
        /\ nd.batches \in Seq(BatchOf(L))
    BY DEF NodeOf
  <2>b. b.cid = cid /\ b.post = nd2.state /\ b.hash = nd2.records
    OBVIOUS
  <2> HIDE DEF nd2, b
  <2>3. /\ DOMAIN nd2.batches = 1 .. Len(nd.batches) + 1
        /\ Len(nd2.batches) = Len(nd.batches) + 1
        /\ \A i \in DOMAIN nd.batches : nd2.batches[i] = nd.batches[i]
        /\ nd2.batches[Len(nd.batches) + 1] = b
    BY <2>1, <2>2, AppendProperties
  <2>4. ASSUME NEW i \in 1 .. Len(nd.batches) + 1
        PROVE  Before(nd2, i) = Before(nd, i) /\ Covered(nd2, i) = Covered(nd, i)
    <3>1. CASE i = 1
      BY <3>1 DEF Before, Covered
    <3>2. CASE i # 1
      <4>1. i - 1 \in DOMAIN nd.batches
        BY <2>2, <3>2
      <4> QED BY <2>3, <3>2, <4>1 DEF Before, Covered
    <3> QED BY <3>1, <3>2
  <2>5. nd2.records = Covered(nd2, Len(nd2.batches) + 1)
    <3>1. Len(nd2.batches) + 1 # 1 /\ (Len(nd2.batches) + 1) - 1 = Len(nd.batches) + 1
      BY <2>2, <2>3
    <3> QED BY <2>b, <2>3, <3>1 DEF Covered
  <2>6. ASSUME NEW i \in DOMAIN nd2.batches
        PROVE  nd2.batches[i].hash =
                 Apply(Covered(nd2, i), Before(nd2, i), log[nd2.batches[i].cid].batch)
    <3>1. CASE i \in DOMAIN nd.batches
      <4>1. nd.batches[i].hash =
              Apply(Covered(nd, i), Before(nd, i), log[nd.batches[i].cid].batch)
        BY <1>3, <3>1 DEF Chained
      <4>2. i \in 1 .. Len(nd.batches) + 1
        BY <2>2, <3>1
      <4> QED BY <2>3, <2>4, <3>1, <4>1, <4>2
    <3>2. CASE i = Len(nd.batches) + 1
      <4>1. nd2.batches[i].cid = cid /\ nd2.batches[i].hash = nd2.records
        BY <2>b, <2>3, <3>2
      <4>2. Before(nd2, i) = nd.state /\ Covered(nd2, i) = nd.records
        <5>1. i \in 1 .. Len(nd.batches) + 1
          BY <2>2, <3>2
        <5>2. Before(nd, i) = nd.state
          BY <3>2 DEF Follows
        <5>3. Covered(nd, i) = nd.records
          BY <1>3, <3>2 DEF Chained
        <5> QED BY <2>4, <5>1, <5>2, <5>3
      <4> QED BY <2>1, <4>1, <4>2
    <3> QED BY <2>2, <2>3, <3>1, <3>2
  <2>7. Chained(nd2, log)
    BY <2>5, <2>6 DEF Chained
  <2> QED BY <2>7 DEF nd2
<1> QED BY <1>1, <1>2, <1>3

(* The log grows by an entry. *)
LEMMA LogGrows ==
  ASSUME NEW L \in Nat, NEW nd \in NodeOf(L)
  PROVE  /\ nd \in NodeOf(L + 1)
         /\ \A log, longer : (\A i \in 1 .. L : longer[i] = log[i]) =>
              /\ Follows(nd, log) => Follows(nd, longer)
              /\ DOMAIN log = 1 .. L /\ DOMAIN longer = 1 .. L + 1 /\ Chained(nd, log)
                   => Chained(nd, longer)
<1>1. /\ nd.batches \in Seq(BatchOf(L)) /\ nd.next \in 1 .. L + 1
  BY DEF NodeOf
<1>2. BatchOf(L) \subseteq BatchOf(L + 1)
  BY DEF BatchOf
<1>3. nd.batches \in Seq(BatchOf(L + 1))
  BY <1>1, <1>2, SeqMonotonic, Zenon
<1>4. nd.next \in 1 .. (L + 1) + 1
  BY <1>1
<1>5. nd \in NodeOf(L + 1)
  BY <1>3, <1>4 DEF NodeOf
<1>6. \A i \in DOMAIN nd.batches : nd.batches[i].cid \in 1 .. L
  <2>1. \A i \in DOMAIN nd.batches : nd.batches[i] \in BatchOf(L)
    BY <1>1
  <2> QED BY <2>1 DEF BatchOf
<1>7. ASSUME NEW log, NEW longer, \A i \in 1 .. L : longer[i] = log[i], Follows(nd, log)
      PROVE  Follows(nd, longer)
  <2>1. \A i \in DOMAIN nd.batches :
          longer[nd.batches[i].cid].batch = log[nd.batches[i].cid].batch
    BY <1>6, <1>7
  <2> QED BY <1>7, <2>1 DEF Follows
<1>8. ASSUME NEW log, NEW longer, \A i \in 1 .. L : longer[i] = log[i], Chained(nd, log),
             DOMAIN log = 1 .. L, DOMAIN longer = 1 .. L + 1
      PROVE  Chained(nd, longer)
  <2>1. \A i \in DOMAIN nd.batches :
          longer[nd.batches[i].cid].batch = log[nd.batches[i].cid].batch
    BY <1>6, <1>8
  <2>2. \A i \in 1 .. L : i \in 1 .. L + 1
    OBVIOUS
  <2>3. AllSucceeded(longer) => AllSucceeded(log)
    BY <1>8, <2>2 DEF AllSucceeded
  <2> QED BY <1>8, <2>1, <2>3 DEF Chained
<1> QED BY <1>5, <1>7, <1>8
-----------------------------------------------------------------------------
(* The steps. *)
LEMMA AckTyping ==
  ASSUME NEW n \in Nodes, NEW nd, NEW cid, NEW batch
  PROVE  /\ Ack(n, nd, cid, batch).node = n
         /\ Ack(n, nd, cid, batch).cid = cid
         /\ Ack(n, nd, cid, batch).type \in {"APPLIED", "REJECTED"}
         /\ Ack(n, nd, cid, batch) =
              [node |-> n, cid |-> cid, type |-> Ack(n, nd, cid, batch).type]
         /\ Ack(n, nd, cid, batch).type = "REJECTED" <=> cid >= nd.next /\ Raises(batch)
BY DEF Ack

(* A submit, by what it does to each node. *)
LEMMA SubmitEffect ==
  ASSUME Inv, NEW p \in ProposalIds, NEW batch \in Batches, NEW delayed, Submit(p, batch, delayed)
  PROVE  LET L == Len(event_log)
         IN  /\ event_log' = Append(event_log, [proposal |-> p, batch |-> batch])
             /\ Len(event_log') = L + 1 /\ DOMAIN event_log' = 1 .. L + 1
             /\ \A i \in 1 .. L : event_log'[i] = event_log[i]
             /\ event_log'[L + 1] = [proposal |-> p, batch |-> batch]
             /\ node' = [n \in Nodes |-> IF n \in Members \ delayed
                                           THEN ExecuteEvent(node[n], L + 1, batch)
                                           ELSE node[n]]
             /\ \A n \in Nodes : node[n] \in NodeOf(L + 1) /\ node'[n] \in NodeOf(L + 1)
             /\ acks' = {Ack(n, node[n], L + 1, batch) : n \in Members \ delayed}
             /\ CausalIds' = 1 .. L + 1
<1> DEFINE L == Len(event_log)
           e == [proposal |-> p, batch |-> batch]
<1>1. /\ TypeOK /\ L \in Nat /\ event_log \in Seq([proposal : ProposalIds, batch : Batches])
      /\ CausalIds = 1 .. L
  BY Positions DEF Inv, TypeOK
<1>2. event_log' = Append(event_log, e)
  BY DEF Submit
<1>3. /\ Len(event_log') = L + 1 /\ DOMAIN event_log' = 1 .. L + 1
      /\ \A i \in 1 .. L : event_log'[i] = event_log[i]
      /\ event_log'[L + 1] = e
  <2> HIDE DEF e
  <2> QED BY <1>1, <1>2, AppendProperties
<1>4. node' = [n \in Nodes |-> IF n \in Members \ delayed
                                 THEN ExecuteEvent(node[n], L + 1, batch)
                                 ELSE node[n]]
  BY DEF Submit
<1>5. ASSUME NEW n \in Nodes
      PROVE  node[n] \in NodeOf(L + 1) /\ node'[n] \in NodeOf(L + 1)
  <2>1. node[n] \in NodeOf(L + 1)
    BY <1>1, Positions, LogGrows
  <2>2. L + 1 \in Nat /\ L + 1 \in 1 .. L + 1
    BY <1>1
  <2>3. ExecuteEvent(node[n], L + 1, batch) \in NodeOf(L + 1)
    BY <2>1, <2>2, EventType
  <2> HIDE DEF L
  <2> QED BY <1>4, <2>1, <2>3
<1>6. acks' = {Ack(n, node[n], L + 1, batch) : n \in Members \ delayed}
  BY DEF Submit
<1>7. CausalIds' = 1 .. L + 1
  BY <1>3 DEF CausalIds
<1> QED BY <1>2, <1>3, <1>4, <1>5, <1>6, <1>7

LEMMA HeadTail ==
  ASSUME NEW S, NEW s \in Seq(S), s # <<>>
  PROVE  Head(s) \in S /\ Tail(s) \in Seq(S)
BY HeadTailProperties

(* What a turn of a release delivers. *)
LEMMA Delivered ==
  ASSUME Inv, NEW n \in Nodes, DeliverHeld(n)
  PROVE  LET cid == Head(release.left)
         IN  /\ cid \in CausalIds /\ Tail(release.left) \in Seq(CausalIds)
             /\ release.node = n /\ release # NoRelease /\ n \in Members
             /\ event_log[cid].batch \in Batches
             /\ node' = [node EXCEPT ![n] = ExecuteEvent(@, cid, event_log[cid].batch)]
             /\ acks' = acks \cup {Ack(n, node[n], cid, event_log[cid].batch)}
<1>1. TypeOK /\ Releasing
  BY DEF Inv
<1>2. release.node = n
  BY DEF DeliverHeld
<1>3. release # NoRelease
  BY <1>2, PhysicalAssumption DEF NoRelease, Nodes
<1>4. release.left \in Seq(CausalIds) /\ release.left # <<>> /\ n \in Members
  BY <1>1, <1>2, <1>3 DEF TypeOK, Releasing
<1>5. Head(release.left) \in CausalIds /\ Tail(release.left) \in Seq(CausalIds)
  BY <1>4, HeadTail
<1>6. event_log[Head(release.left)].batch \in Batches
  BY <1>1, <1>5, Positions
<1> QED BY <1>2, <1>3, <1>4, <1>5, <1>6 DEF DeliverHeld

LEMMA TypesKept ==
  ASSUME Inv, Next
  PROVE  TypeOK'
<1>i. TypeOK /\ Releasing
  BY DEF Inv
<1>t. /\ registered \in Nodes /\ seen \subseteq ProposalIds /\ halted \in BOOLEAN
      /\ options \in [halt_on_rejection : BOOLEAN, halt_on_divergence : BOOLEAN]
      /\ event_log \in Seq([proposal : ProposalIds, batch : Batches])
      /\ node \in [Nodes -> NodeType] /\ held \in [Nodes -> Seq(CausalIds)]
      /\ release \in [node : 0 .. MaxNodes, left : Seq(CausalIds)]
      /\ acks \subseteq AckType
  BY <1>i DEF TypeOK
<1>u. ASSUME event_log' = event_log
      PROVE  CausalIds' = CausalIds /\ NodeType' = NodeType /\ AckType' = AckType
  BY <1>u DEF CausalIds, NodeType, BatchType, AckType
<1>1. CASE RegisterNode
  <2>1. registered' \in Nodes
    <3>1. registered \in 1 .. MaxNodes /\ MaxNodes \in Nat
          /\ registered < MaxNodes /\ registered' = registered + 1
      BY <1>1, <1>t, PhysicalAssumption DEF RegisterNode, Nodes
    <3> QED BY <3>1 DEF Nodes
  <2>2. /\ UNCHANGED <<options, event_log, seen, node, held, release, halted>>
        /\ acks' = {}
    BY <1>1 DEF RegisterNode
  <2> QED BY <1>t, <1>u, <2>1, <2>2 DEF TypeOK
<1>2. ASSUME NEW p \in ProposalIds, NEW batch \in Batches, NEW delayed \in SUBSET Nodes,
             Submit(p, batch, delayed)
      PROVE  TypeOK'
  <2> DEFINE L == Len(event_log)
             e == [proposal |-> p, batch |-> batch]
  <2>1. /\ event_log' = Append(event_log, e)
        /\ Len(event_log') = L + 1
        /\ node' = [n \in Nodes |-> IF n \in Members \ delayed
                                      THEN ExecuteEvent(node[n], L + 1, batch)
                                      ELSE node[n]]
        /\ \A n \in Nodes : node'[n] \in NodeOf(L + 1)
        /\ acks' = {Ack(n, node[n], L + 1, batch) : n \in Members \ delayed}
        /\ CausalIds' = 1 .. L + 1
    BY <1>2, SubmitEffect
  <2>2. L \in Nat /\ CausalIds = 1 .. L /\ Members \subseteq Nodes
    BY <1>i, Positions
  <2>3. /\ held' = [n \in Nodes |-> IF n \in Members \cap delayed
                                      THEN Append(held[n], L + 1) ELSE held[n]]
        /\ release' = NoRelease /\ registered' = registered /\ options' = options
        /\ seen' = seen \cup {p}
        /\ halted' \in BOOLEAN
    BY <1>2 DEF Submit
  <2>4. event_log' \in Seq([proposal : ProposalIds, batch : Batches])
    <3>1. e \in [proposal : ProposalIds, batch : Batches]
      OBVIOUS
    <3> HIDE DEF e
    <3> QED BY <1>t, <2>1, <3>1, AppendProperties
  <2>5. NodeType' = NodeOf(L + 1)
    BY <2>1 DEF NodeType, NodeOf, BatchType, BatchOf
  <2>6. node' \in [Nodes -> NodeType']
    BY <2>1, <2>5
  <2>7. acks' \subseteq AckType'
    <3>1. \A n \in Members \ delayed :
            Ack(n, node[n], L + 1, batch) \in [node : Nodes, cid : 1 .. L + 1, type : {"APPLIED", "REJECTED"}]
      BY <2>2 DEF Ack
    <3> QED BY <2>1, <3>1 DEF AckType
  <2>8. held' \in [Nodes -> Seq(CausalIds')]
    <3>1. ASSUME NEW n \in Nodes
          PROVE  held[n] \in Seq(1 .. L + 1) /\ Append(held[n], L + 1) \in Seq(1 .. L + 1)
      <4>1. 1 .. L \subseteq 1 .. L + 1 /\ L + 1 \in 1 .. L + 1
        BY <2>2
      <4>2. held[n] \in Seq(1 .. L)
        BY <1>t, <2>2
      <4>3. held[n] \in Seq(1 .. L + 1)
        BY <4>1, <4>2, SeqMonotonic, Zenon
      <4> HIDE DEF L
      <4> QED BY <4>1, <4>3, AppendProperties
    <3> HIDE DEF L
    <3> QED BY <2>1, <2>3, <3>1
  <2>9. release' \in [node : 0 .. MaxNodes, left : Seq(CausalIds')]
    <3>1. 0 \in 0 .. MaxNodes
      BY PhysicalAssumption
    <3> QED BY <2>3, <3>1 DEF NoRelease
  <2> QED BY <1>t, <2>3, <2>4, <2>6, <2>7, <2>8, <2>9 DEF TypeOK
<1>3. ASSUME NEW p \in ProposalIds, SubmitUnreadable(p) PROVE TypeOK'
  <2>1. /\ UNCHANGED <<registered, options, event_log, node, held, release, halted>>
        /\ acks' = {} /\ seen' = seen \cup {p}
    BY <1>3 DEF SubmitUnreadable
  <2> QED BY <1>t, <1>u, <2>1 DEF TypeOK
<1>4. ASSUME NEW n \in Nodes, ReleaseHeldEvents(n) PROVE TypeOK'
  <2>1. /\ UNCHANGED <<registered, options, event_log, seen, node, held, halted>>
        /\ acks' = {} /\ release' = [node |-> n, left |-> held[n]]
    BY <1>4 DEF ReleaseHeldEvents
  <2>2. n \in 0 .. MaxNodes /\ held[n] \in Seq(CausalIds)
    BY <1>t, PhysicalAssumption DEF Nodes
  <2>3. release' \in [node : 0 .. MaxNodes, left : Seq(CausalIds)]
    BY <2>1, <2>2
  <2> QED BY <1>t, <1>u, <2>1, <2>3 DEF TypeOK
<1>5. ASSUME NEW n \in Nodes, DeliverHeld(n) PROVE TypeOK'
  <2> DEFINE cid == Head(release.left)
             batch == event_log[cid].batch
  <2>1. /\ cid \in CausalIds /\ Tail(release.left) \in Seq(CausalIds)
        /\ batch \in Batches
        /\ node' = [node EXCEPT ![n] = ExecuteEvent(@, cid, batch)]
        /\ acks' = acks \cup {Ack(n, node[n], cid, batch)}
    BY <1>5, Delivered
  <2>2. /\ UNCHANGED <<registered, options, event_log, seen>>
        /\ halted' \in BOOLEAN
        /\ release' \in {NoRelease, [release EXCEPT !.left = Tail(@)]}
        /\ held' \in {held, [held EXCEPT ![n] = <<>>]}
    BY <1>5 DEF DeliverHeld
  <2>3. node' \in [Nodes -> NodeType]
    <3>1. ExecuteEvent(node[n], cid, batch) \in NodeType
      <4>1. Len(event_log) \in Nat /\ CausalIds = 1 .. Len(event_log)
            /\ NodeType = NodeOf(Len(event_log)) /\ node[n] \in NodeOf(Len(event_log))
        BY <1>i, Positions
      <4> HIDE DEF cid, batch
      <4> QED BY <2>1, <4>1, EventType
    <3> QED BY <1>t, <2>1, <3>1
  <2>4. acks' \subseteq AckType
    <3>1. Ack(n, node[n], cid, batch) \in AckType
      BY <2>1 DEF Ack, AckType
    <3> QED BY <1>t, <2>1, <3>1
  <2>5. release' \in [node : 0 .. MaxNodes, left : Seq(CausalIds)]
    <3>1. NoRelease \in [node : 0 .. MaxNodes, left : Seq(CausalIds)]
      BY PhysicalAssumption DEF NoRelease
    <3>2. [release EXCEPT !.left = Tail(@)] \in [node : 0 .. MaxNodes, left : Seq(CausalIds)]
      BY <1>t, <2>1
    <3> QED BY <2>2, <3>1, <3>2
  <2>6. held' \in [Nodes -> Seq(CausalIds)]
    <3>1. <<>> \in Seq(CausalIds)
      OBVIOUS
    <3>2. [held EXCEPT ![n] = <<>>] \in [Nodes -> Seq(CausalIds)]
      BY <1>t, <3>1, Zenon
    <3> QED BY <1>t, <2>2, <3>2
  <2> QED BY <1>t, <1>u, <2>2, <2>3, <2>4, <2>5, <2>6 DEF TypeOK
<1> QED BY <1>1, <1>2, <1>3, <1>4, <1>5 DEF Next

LEMMA NodesKept ==
  ASSUME Inv, Next, NEW n \in Nodes
  PROVE  Ordered(node'[n]) /\ Follows(node'[n], event_log') /\ Chained(node'[n], event_log')
<1>i. TypeOK /\ Ordered(node[n]) /\ Follows(node[n], event_log) /\ Chained(node[n], event_log)
  BY DEF Inv
<1>t. /\ Len(event_log) \in Nat /\ CausalIds = 1 .. Len(event_log)
      /\ node[n] \in NodeOf(Len(event_log))
  BY <1>i, Positions
<1>1. CASE node' = node /\ event_log' = event_log
  BY <1>1, <1>i
<1>2. ASSUME NEW p \in ProposalIds, NEW batch \in Batches, NEW delayed, Submit(p, batch, delayed)
      PROVE  Ordered(node'[n]) /\ Follows(node'[n], event_log') /\ Chained(node'[n], event_log')
  <2> DEFINE L == Len(event_log)
  <2>1. /\ \A i \in 1 .. L : event_log'[i] = event_log[i]
        /\ event_log'[L + 1] = [proposal |-> p, batch |-> batch]
        /\ node' = [m \in Nodes |-> IF m \in Members \ delayed
                                      THEN ExecuteEvent(node[m], L + 1, batch)
                                      ELSE node[m]]
        /\ node[n] \in NodeOf(L + 1)
        /\ DOMAIN event_log' = 1 .. L + 1
    BY <1>2, SubmitEffect
  <2>2. event_log'[L + 1].batch = batch
    BY <2>1
  <2>3. L + 1 \in Nat /\ L + 1 \in 1 .. L + 1
    BY <1>t
  <2>4. Follows(node[n], event_log') /\ Chained(node[n], event_log')
    <3>1. DOMAIN event_log = 1 .. L
      BY <1>t DEF CausalIds
    <3> QED BY <1>i, <1>t, <2>1, <3>1, LogGrows
  <2> HIDE DEF L
  <2>5. /\ Ordered(ExecuteEvent(node[n], L + 1, batch))
        /\ Follows(ExecuteEvent(node[n], L + 1, batch), event_log')
        /\ Chained(ExecuteEvent(node[n], L + 1, batch), event_log')
    BY <1>i, <2>1, <2>2, <2>3, <2>4, OrderedKept, FollowsKept, ChainedKept
  <2> QED BY <1>i, <2>1, <2>4, <2>5
<1>3. ASSUME NEW m \in Nodes, DeliverHeld(m)
      PROVE  Ordered(node'[n]) /\ Follows(node'[n], event_log') /\ Chained(node'[n], event_log')
  <2> DEFINE cid == Head(release.left)
  <2>1. /\ cid \in CausalIds
        /\ event_log[cid].batch \in Batches
        /\ node' = [node EXCEPT ![m] = ExecuteEvent(@, cid, event_log[cid].batch)]
        /\ event_log' = event_log
    BY <1>3, Delivered DEF DeliverHeld
  <2> HIDE DEF cid
  <2>2. /\ Ordered(ExecuteEvent(node[n], cid, event_log[cid].batch))
        /\ Follows(ExecuteEvent(node[n], cid, event_log[cid].batch), event_log)
        /\ Chained(ExecuteEvent(node[n], cid, event_log[cid].batch), event_log)
    <3>1. cid \in DOMAIN event_log
      BY <2>1 DEF CausalIds
    <3> QED BY <1>i, <1>t, <2>1, <3>1, OrderedKept, FollowsKept, ChainedKept
  <2>3. node \in [Nodes -> NodeType]
    BY <1>i DEF TypeOK
  <2>4. CASE n = m
    BY <2>1, <2>2, <2>3, <2>4
  <2>5. CASE n # m
    BY <1>i, <2>1, <2>3, <2>5
  <2> QED BY <2>4, <2>5
<1> QED BY <1>1, <1>2, <1>3 DEF Next, RegisterNode, SubmitUnreadable, ReleaseHeldEvents

LEMMA DistinctKept ==
  ASSUME Inv, Next
  PROVE  Distinct'
<1>i. TypeOK /\ Distinct
  BY DEF Inv
<1>1. CASE event_log' = event_log /\ seen \subseteq seen'
  BY <1>1, <1>i DEF Distinct, CausalIds
<1>2. ASSUME NEW p \in ProposalIds, NEW batch \in Batches, NEW delayed, Submit(p, batch, delayed)
      PROVE  Distinct'
  <2> DEFINE L == Len(event_log)
  <2>1. /\ \A i \in 1 .. L : event_log'[i] = event_log[i]
        /\ event_log'[L + 1] = [proposal |-> p, batch |-> batch]
        /\ CausalIds' = 1 .. L + 1
    BY <1>2, SubmitEffect
  <2>2. event_log'[L + 1].proposal = p
    BY <2>1
  <2>3. L \in Nat /\ CausalIds = 1 .. L
    BY <1>i, Positions
  <2>4. p \notin seen /\ seen' = seen \cup {p}
    BY <1>2 DEF Submit
  <2>5. \A i \in 1 .. L + 1 : i \in 1 .. L \/ i = L + 1
    BY <2>3
  <2>6. \A i \in 1 .. L : event_log'[i].proposal \in seen
    BY <1>i, <2>1, <2>3 DEF Distinct
  <2>7. \A i, j \in 1 .. L : i # j => event_log'[i].proposal # event_log'[j].proposal
    BY <1>i, <2>1, <2>3 DEF Distinct
  <2> HIDE DEF L
  <2> QED BY <2>1, <2>2, <2>4, <2>5, <2>6, <2>7 DEF Distinct
<1> QED BY <1>1, <1>2 DEF Next, RegisterNode, SubmitUnreadable, ReleaseHeldEvents, DeliverHeld

LEMMA ReleasingKept ==
  ASSUME Inv, Next
  PROVE  Releasing'
<1>i. TypeOK /\ Releasing
  BY DEF Inv
<1>1. CASE RegisterNode
  BY <1>1 DEF RegisterNode, Releasing
<1>2. ASSUME NEW p, NEW batch, NEW delayed, Submit(p, batch, delayed) PROVE Releasing'
  BY <1>2 DEF Submit, Releasing
<1>3. ASSUME NEW p, SubmitUnreadable(p) PROVE Releasing'
  BY <1>3 DEF SubmitUnreadable, Releasing
<1>4. ASSUME NEW n \in Nodes, ReleaseHeldEvents(n) PROVE Releasing'
  BY <1>4 DEF ReleaseHeldEvents, Releasing, Members
<1>5. ASSUME NEW n \in Nodes, DeliverHeld(n) PROVE Releasing'
  <2> DEFINE ack == Ack(n, node[n], Head(release.left), event_log[Head(release.left)].batch)
             stops == options.halt_on_rejection /\ ack.type = "REJECTED"
             over == stops \/ Tail(release.left) = <<>>
  <2>1. /\ acks' = acks \cup {ack} /\ halted' = stops
        /\ release' = IF over THEN NoRelease ELSE [release EXCEPT !.left = Tail(@)]
        /\ UNCHANGED <<registered, options>>
    BY <1>5 DEF DeliverHeld
  <2>2. release.node = n /\ release # NoRelease /\ n \in Members
    BY <1>5, Delivered
  <2>3. release \in [node : 0 .. MaxNodes, left : Seq(CausalIds)]
    BY <1>i DEF TypeOK
  <2>4. options.halt_on_rejection => \A a \in acks : a.type # "REJECTED"
    BY <1>i, <2>2 DEF Releasing
  <2> HIDE DEF ack
  <2>5. CASE over
    BY <2>1, <2>5 DEF Releasing
  <2>6. CASE ~over
    <3>1. release'.node = n /\ release'.left = Tail(release.left)
      BY <2>1, <2>2, <2>3, <2>6
    <3>2. Tail(release.left) # <<>> /\ ~halted'
      BY <2>1, <2>6
    <3>3. options'.halt_on_rejection => \A a \in acks' : a.type # "REJECTED"
      BY <2>1, <2>4, <2>6
    <3>4. n \in Members'
      BY <2>1, <2>2 DEF Members
    <3> QED BY <3>1, <3>2, <3>3, <3>4 DEF Releasing
  <2> QED BY <2>5, <2>6
<1> QED BY <1>1, <1>2, <1>3, <1>4, <1>5 DEF Next
-----------------------------------------------------------------------------
-----------------------------------------------------------------------------
(* Replay.                                                                  *)

Less == {p \in Nat \X Nat : p[1] < p[2]}

(* Induction up to n: the least number that a set leaves out has no          *)
(* predecessor in it.                                                       *)
LEMMA CountingUp ==
  ASSUME NEW n \in Nat, NEW S, 0 \in S, \A i \in 1 .. n : i - 1 \in S => i \in S
  PROVE  \A i \in 0 .. n : i \in S
<1> DEFINE missing == {i \in Nat : i <= n /\ i \notin S}
<1>1. IsWellFoundedOn(Less, Nat)
  BY NatLessThanWellFounded DEF Less, OpToRel
<1>2. ASSUME missing # {} PROVE FALSE
  <2>1. missing \subseteq Nat
    OBVIOUS
  <2>2. PICK x \in missing : \A y \in missing : <<y, x>> \notin Less
    <3> HIDE DEF missing
    <3> QED BY <1>1, <1>2, <2>1, WFMin
  <2>3. x \in Nat /\ x <= n /\ x \notin S
    OBVIOUS
  <2>4. x \in 1 .. n /\ x - 1 \in Nat /\ x - 1 <= n
    BY <2>3
  <2>5. x - 1 \in missing
    BY <2>3, <2>4
  <2>6. <<x - 1, x>> \in Less
    BY <2>3, <2>4 DEF Less
  <2> QED BY <2>2, <2>5, <2>6
<1>3. ASSUME NEW i \in 0 .. n PROVE i \in S
  <2>1. i \in Nat /\ i <= n
    BY <1>3
  <2> QED BY <1>2, <2>1
<1> QED BY <1>3

(* What a recursion over 0 .. n defines: it starts at x, and the turns F     *)
(* make each value of the one before.                                       *)
Turns(n, S) == [1 .. n -> [S -> S]]
Iterates(g, n, S, x, F) ==
  /\ g \in [0 .. n -> S]
  /\ g[0] = x
  /\ \A i \in 1 .. n : g[i] = F[i][g[i - 1]]

LEMMA Recursion ==
  ASSUME NEW n \in Nat, NEW S, NEW x \in S, NEW F \in Turns(n, S)
  PROVE  \E g : Iterates(g, n, S, x, F)
<1> DEFINE done == {k \in 0 .. n : \E g : Iterates(g, k, S, x, F)}
<1>1. \E g : Iterates(g, 0, S, x, F)
  <2> DEFINE c == [i \in 0 .. 0 |-> x]
  <2>1. c \in [0 .. 0 -> S] /\ c[0] = x
    OBVIOUS
  <2>2. \A i \in 1 .. 0 : c[i] = F[i][c[i - 1]]
    OBVIOUS
  <2> HIDE DEF c
  <2> QED BY <2>1, <2>2 DEF Iterates
<1>2. ASSUME NEW k \in 1 .. n, NEW g, Iterates(g, k - 1, S, x, F)
      PROVE  \E h : Iterates(h, k, S, x, F)
  <2>1. g \in [0 .. k - 1 -> S] /\ g[0] = x /\ \A i \in 1 .. k - 1 : g[i] = F[i][g[i - 1]]
    BY <1>2 DEF Iterates
  <2> DEFINE h == [i \in 0 .. k |-> IF i = k THEN F[k][g[k - 1]] ELSE g[i]]
  <2>2. F[k][g[k - 1]] \in S
    <3>1. F[k] \in [S -> S]
      BY DEF Turns
    <3>2. g[k - 1] \in S
      BY <2>1
    <3> QED BY <3>1, <3>2
  <2>3. h \in [0 .. k -> S] /\ h[0] = x
    BY <2>1, <2>2
  <2>4. ASSUME NEW i \in 1 .. k
        PROVE  h[i] = F[i][h[i - 1]]
    <3>1. i - 1 \in 0 .. k - 1 /\ i \in 0 .. k
      OBVIOUS
    <3>2. h[i - 1] = g[i - 1]
      BY <3>1
    <3>3. h[i] = IF i = k THEN F[k][g[k - 1]] ELSE g[i]
      BY <3>1
    <3> HIDE DEF h
    <3>4. i # k => i \in 1 .. k - 1
      OBVIOUS
    <3> QED BY <2>1, <3>2, <3>3, <3>4
  <2> HIDE DEF h
  <2> QED BY <2>3, <2>4 DEF Iterates
<1>3. 0 \in done /\ \A k \in 1 .. n : k - 1 \in done => k \in done
  BY <1>1, <1>2
<1>4. n \in done
  <2>1. n \in 0 .. n
    OBVIOUS
  <2> HIDE DEF done
  <2> QED BY <1>3, <2>1, CountingUp
<1> QED BY <1>4

(* The nodes that a replay passes through.                                  *)
LEMMA ReplayRuns ==
  ASSUME TypeOK, NEW nd \in NodeOf(Len(event_log))
  PROVE  /\ Replays(nd)[0] = NewNode
         /\ \A i \in 1 .. Len(nd.batches) :
              Replays(nd)[i] =
                ExecuteBatch(Replays(nd)[i - 1], nd.batches[i].cid,
                             event_log[nd.batches[i].cid].batch)
<1> DEFINE L == Len(event_log)
           n == Len(nd.batches)
           Turn(i, r) == ExecuteBatch(r, nd.batches[i].cid, event_log[nd.batches[i].cid].batch)
           F == [i \in 1 .. n |-> [r \in NodeOf(L) |-> Turn(i, r)]]
           Whole(r) == [i \in 0 .. n |-> IF i = 0 THEN NewNode ELSE Turn(i, r[i - 1])]
<1>1. /\ L \in Nat /\ n \in Nat
      /\ \A i \in 1 .. n : /\ nd.batches[i].cid \in 1 .. L
                           /\ event_log[nd.batches[i].cid].batch \in Batches
  <2>1. nd.batches \in Seq(BatchOf(L))
    BY DEF NodeOf
  <2>2. n \in Nat /\ \A i \in 1 .. n : nd.batches[i] \in BatchOf(L)
    BY <2>1
  <2>3. \A i \in 1 .. n : nd.batches[i].cid \in 1 .. L
    BY <2>2 DEF BatchOf
  <2> QED BY <2>2, <2>3, Positions
<1>2. NewNode \in NodeOf(L)
  <2>1. Smooth \in [Zones -> Nat] /\ <<>> \in RecordChain /\ <<>> \in Seq(BatchOf(L)) /\ 1 \in 1 .. L + 1
    BY <1>1 DEF Smooth, RecordChain
  <2> QED BY <2>1 DEF NewNode, NodeOf
<1>3. \A i \in 1 .. n, r \in NodeOf(L) : Turn(i, r) \in NodeOf(L)
  BY <1>1, BatchEffect
<1> HIDE DEF Turn, n, L
<1>4. F \in Turns(n, NodeOf(L))
  BY <1>3 DEF Turns
<1>5. PICK g : Iterates(g, n, NodeOf(L), NewNode, F)
  <2> HIDE DEF F
  <2> QED BY <1>1, <1>2, <1>4, Recursion
<1>6. /\ g \in [0 .. n -> NodeOf(L)] /\ g[0] = NewNode
      /\ \A i \in 1 .. n : g[i] = F[i][g[i - 1]]
  BY <1>5 DEF Iterates
<1>7. g = Whole(g)
  <2>1. ASSUME NEW i \in 0 .. n
        PROVE  g[i] = IF i = 0 THEN NewNode ELSE Turn(i, g[i - 1])
    <3>1. CASE i = 0
      BY <1>6, <3>1
    <3>2. CASE i # 0
      <4>1. i \in 1 .. n /\ i - 1 \in 0 .. n
        BY <1>1, <3>2
      <4>2. g[i - 1] \in NodeOf(L)
        BY <1>6, <4>1
      <4>3. g[i] = Turn(i, g[i - 1])
        BY <1>6, <4>1, <4>2
      <4> QED BY <3>2, <4>3
    <3> QED BY <3>1, <3>2
  <2> QED BY <1>6, <2>1
<1>8. Replays(nd) = CHOOSE r : r = Whole(r)
  BY DEF Replays, Turn, n
<1>9. Replays(nd) = Whole(Replays(nd))
  <2> HIDE DEF Whole
  <2> QED BY <1>7, <1>8
<1>10. 0 \in 0 .. n /\ \A i \in 1 .. n : i \in 0 .. n /\ i # 0
  BY <1>1
<1> QED BY <1>9, <1>10 DEF Turn, n

(* After i batches a replay is where the node was, with the same entries in *)
(* its batch log.                                                           *)
ReplayedTo(nd, i) ==
  LET r == Replays(nd)[i]
  IN  /\ r \in NodeOf(Len(event_log))
      /\ r.state = Before(nd, i + 1)
      /\ Len(r.batches) = i
      /\ \A j \in 1 .. i : /\ r.batches[j].cid = nd.batches[j].cid
                           /\ r.batches[j].post = nd.batches[j].post
      /\ AllSucceeded(event_log) =>
           /\ r.records = Covered(nd, i + 1)
           /\ \A j \in 1 .. i : r.batches[j].hash = nd.batches[j].hash

LEMMA ReplayStep ==
  ASSUME TypeOK, NEW nd \in NodeOf(Len(event_log)),
         Follows(nd, event_log), Chained(nd, event_log),
         NEW i \in 1 .. Len(nd.batches), ReplayedTo(nd, i - 1)
  PROVE  ReplayedTo(nd, i)
<1> DEFINE L == Len(event_log)
           cid == nd.batches[i].cid
           batch == event_log[cid].batch
           r == Replays(nd)[i - 1]
           r2 == Replays(nd)[i]
           b == [cid |-> cid, post |-> r2.state, hash |-> r2.records]
<1>1. /\ L \in Nat /\ Len(nd.batches) \in Nat /\ DOMAIN nd.batches = 1 .. Len(nd.batches)
      /\ cid \in 1 .. L /\ batch \in Batches
  <2>1. nd.batches \in Seq(BatchOf(L))
    BY DEF NodeOf
  <2>2. Len(nd.batches) \in Nat /\ DOMAIN nd.batches = 1 .. Len(nd.batches) /\ nd.batches[i] \in BatchOf(L)
    BY <2>1
  <2>3. cid \in 1 .. L
    BY <2>2 DEF BatchOf
  <2> QED BY <2>2, <2>3, Positions
<1>2. /\ ~Raises(batch)
      /\ nd.batches[i].post = Updated(Before(nd, i), batch)
  BY <1>1 DEF Follows
<1>3. r2 = ExecuteBatch(r, cid, batch)
  BY ReplayRuns
<1>4. /\ r \in NodeOf(L) /\ r.state = Before(nd, i) /\ Len(r.batches) = i - 1
      /\ \A j \in 1 .. i - 1 : /\ r.batches[j].cid = nd.batches[j].cid
                               /\ r.batches[j].post = nd.batches[j].post
      /\ AllSucceeded(event_log) =>
           /\ r.records = Covered(nd, i)
           /\ \A j \in 1 .. i - 1 : r.batches[j].hash = nd.batches[j].hash
  <2>1. (i - 1) + 1 = i
    OBVIOUS
  <2> QED BY <2>1 DEF ReplayedTo
<1> HIDE DEF L, cid, batch, r
<1>5. /\ r2 \in NodeOf(L)
      /\ r2.records = Apply(r.records, r.state, batch)
      /\ r2.state = Updated(r.state, batch)
      /\ r2.batches = Append(r.batches, b)
  BY <1>1, <1>2, <1>3, <1>4, BatchEffect
<1>b. b.cid = cid /\ b.post = r2.state /\ b.hash = r2.records
  OBVIOUS
<1> HIDE DEF r2, b
<1>6. /\ Len(r2.batches) = i
      /\ r2.batches[i] = b
      /\ \A j \in 1 .. i - 1 : r2.batches[j] = r.batches[j]
  <2>1. r.batches \in Seq(BatchOf(L))
    BY <1>4 DEF NodeOf
  <2>2. /\ Len(Append(r.batches, b)) = Len(r.batches) + 1
        /\ Append(r.batches, b)[Len(r.batches) + 1] = b
        /\ \A j \in 1 .. Len(r.batches) : Append(r.batches, b)[j] = r.batches[j]
    BY <2>1, AppendProperties
  <2> QED BY <1>4, <1>5, <2>2
<1>7. r2.state = Before(nd, i + 1) /\ nd.batches[i].post = r2.state
  <2>1. i + 1 # 1 /\ (i + 1) - 1 = i
    OBVIOUS
  <2>2. nd.batches[i].post = r2.state
    BY <1>2, <1>4, <1>5
  <2> QED BY <2>1, <2>2 DEF Before
<1>8. ASSUME AllSucceeded(event_log)
      PROVE  r2.records = Covered(nd, i + 1) /\ nd.batches[i].hash = r2.records
  <2>1. i + 1 # 1 /\ (i + 1) - 1 = i
    OBVIOUS
  <2>2. nd.batches[i].hash = Apply(Covered(nd, i), Before(nd, i), batch)
    BY <1>1, <1>8 DEF Chained, cid, batch
  <2>3. nd.batches[i].hash = r2.records
    BY <1>4, <1>5, <1>8, <2>2
  <2> QED BY <2>1, <2>3 DEF Covered
<1>9. ASSUME NEW j \in 1 .. i
      PROVE  /\ r2.batches[j].cid = nd.batches[j].cid
             /\ r2.batches[j].post = nd.batches[j].post
             /\ AllSucceeded(event_log) => r2.batches[j].hash = nd.batches[j].hash
  <2>1. CASE j = i
    BY <1>b, <1>6, <1>7, <1>8, <2>1 DEF cid
  <2>2. CASE j # i
    <3>1. j \in 1 .. i - 1
      BY <2>2
    <3> QED BY <1>4, <1>6, <3>1
  <2> QED BY <2>1, <2>2
<1> QED BY <1>5, <1>6, <1>7, <1>8, <1>9 DEF ReplayedTo, r2, L

LEMMA ReplayEnds ==
  ASSUME TypeOK, NEW nd \in NodeOf(Len(event_log)),
         Follows(nd, event_log), Chained(nd, event_log)
  PROVE  ReplayedTo(nd, Len(nd.batches))
<1> DEFINE n == Len(nd.batches)
           S == {i \in 0 .. n : ReplayedTo(nd, i)}
<1>1. n \in Nat
  BY DEF NodeOf
<1>2. ReplayedTo(nd, 0)
  <2>1. Replays(nd)[0] = NewNode
    BY ReplayRuns
  <2>2. NewNode \in NodeOf(Len(event_log))
    <3>1. Smooth \in [Zones -> Nat] /\ <<>> \in RecordChain /\ <<>> \in Seq(BatchOf(Len(event_log)))
          /\ 1 \in 1 .. Len(event_log) + 1
      BY Positions DEF Smooth, RecordChain
    <3> QED BY <3>1 DEF NewNode, NodeOf
  <2>3. Before(nd, 0 + 1) = Smooth /\ Covered(nd, 0 + 1) = <<>>
    BY DEF Before, Covered
  <2>4. NewNode.state = Smooth /\ NewNode.records = <<>> /\ Len(NewNode.batches) = 0
    BY DEF NewNode
  <2> QED BY <2>1, <2>2, <2>3, <2>4 DEF ReplayedTo
<1>3. 0 \in S /\ \A i \in 1 .. n : i - 1 \in S => i \in S
  <2>1. ASSUME NEW i \in 1 .. n, i - 1 \in S PROVE i \in S
    BY <1>1, <2>1, ReplayStep
  <2> QED BY <1>1, <1>2, <2>1
<1>4. n \in S
  <2>1. n \in 0 .. n
    BY <1>1
  <2> HIDE DEF S, n
  <2> QED BY <1>1, <1>3, <2>1, CountingUp
<1> QED BY <1>4

LEMMA SameBatch ==
  ASSUME NEW L, NEW a \in BatchOf(L), NEW b \in BatchOf(L),
         a.cid = b.cid, a.post = b.post, a.hash = b.hash
  PROVE  a = b
BY DEF BatchOf

LEMMA ReplayIsFaithful == Inv => ReplayReproduces
<1> SUFFICES ASSUME Inv, NEW n \in Members
             PROVE  /\ Replay(node[n]).state = node[n].state
                    /\ Steps(Replay(node[n])) = Steps(node[n])
                    /\ (\A cid \in CausalIds : ~Raises(event_log[cid].batch)) =>
                         /\ Replay(node[n]).records = node[n].records
                         /\ Replay(node[n]).batches = node[n].batches
  BY DEF ReplayReproduces
<1> DEFINE nd == node[n]
           r == Replay(nd)
           L == Len(event_log)
           k == Len(nd.batches)
<1>1. /\ TypeOK /\ nd \in NodeOf(L)
      /\ Follows(nd, event_log) /\ Chained(nd, event_log)
  BY Positions DEF Inv
<1>2. ReplayedTo(nd, k)
  BY <1>1, ReplayEnds
<1>3. /\ r \in NodeOf(L)
      /\ r.state = Before(nd, k + 1)
      /\ Len(r.batches) = k
      /\ \A j \in 1 .. k : /\ r.batches[j].cid = nd.batches[j].cid
                           /\ r.batches[j].post = nd.batches[j].post
      /\ AllSucceeded(event_log) =>
           /\ r.records = Covered(nd, k + 1)
           /\ \A j \in 1 .. k : r.batches[j].hash = nd.batches[j].hash
  BY <1>2 DEF ReplayedTo, Replay
<1> HIDE DEF nd, r, L
<1>4. r.state = nd.state
  BY <1>1, <1>3 DEF Follows
<1>5. /\ r.batches \in Seq(BatchOf(L)) /\ nd.batches \in Seq(BatchOf(L))
  BY <1>1, <1>3 DEF NodeOf
<1>6. /\ k \in Nat /\ DOMAIN r.batches = 1 .. k /\ DOMAIN nd.batches = 1 .. k
      /\ \A j \in 1 .. k : r.batches[j] \in BatchOf(L) /\ nd.batches[j] \in BatchOf(L)
  BY <1>3, <1>5
<1>7. Steps(r) = Steps(nd)
  BY <1>3, <1>6 DEF Steps
<1>8. ASSUME AllSucceeded(event_log)
      PROVE  r.records = nd.records /\ r.batches = nd.batches
  <2>1. r.records = nd.records
    BY <1>1, <1>3, <1>8 DEF Chained
  <2>2. ASSUME NEW j \in 1 .. k PROVE r.batches[j] = nd.batches[j]
    <3>1. /\ r.batches[j].cid = nd.batches[j].cid
          /\ r.batches[j].post = nd.batches[j].post
          /\ r.batches[j].hash = nd.batches[j].hash
      BY <1>3, <1>8
    <3>2. r.batches[j] \in BatchOf(L) /\ nd.batches[j] \in BatchOf(L)
      BY <1>6
    <3> QED BY <3>1, <3>2, SameBatch
  <2>3. r.batches = nd.batches
    BY <1>3, <1>5, <1>6, <2>2
  <2> QED BY <2>1, <2>3
<1>9. (\A cid \in CausalIds : ~Raises(event_log[cid].batch)) => AllSucceeded(event_log)
  BY DEF AllSucceeded, CausalIds
<1> QED BY <1>4, <1>7, <1>8, <1>9 DEF nd, r

-----------------------------------------------------------------------------
LEMMA InvAtStart == Init => Inv
<1> SUFFICES ASSUME Init PROVE Inv
  OBVIOUS
<1>1. /\ registered = InitialNodes /\ event_log = <<>> /\ seen = {} /\ acks = {}
      /\ node = [n \in Nodes |-> NewNode] /\ held = [n \in Nodes |-> <<>>]
      /\ release = NoRelease /\ halted = FALSE
      /\ options \in [halt_on_rejection : BOOLEAN, halt_on_divergence : BOOLEAN]
  BY DEF Init
<1>2. CausalIds = {} /\ Len(event_log) = 0
  BY <1>1 DEF CausalIds
<1>3. TypeOK
  <2>1. Smooth \in [Zones -> Nat]
    BY DEF Smooth
  <2>2. 1 \in 1 .. (Len(event_log) + 1) /\ <<>> \in RecordChain /\ <<>> \in Seq(BatchType)
    BY <1>2 DEF RecordChain
  <2>3. NewNode \in NodeType
    BY <2>1, <2>2 DEF NewNode, NodeType
  <2>4. release \in [node : 0 .. MaxNodes, left : Seq(CausalIds)]
    BY <1>1, PhysicalAssumption DEF NoRelease
  <2>5. registered \in Nodes
    BY <1>1, PhysicalAssumption
  <2>6. /\ event_log \in Seq([proposal : ProposalIds, batch : Batches])
        /\ held \in [Nodes -> Seq(CausalIds)] /\ node \in [Nodes -> NodeType]
    BY <1>1, <2>3
  <2> QED BY <1>1, <2>4, <2>5, <2>6 DEF TypeOK
<1>4. ASSUME NEW n \in Nodes
      PROVE  Ordered(node[n]) /\ Follows(node[n], event_log) /\ Chained(node[n], event_log)
  <2>1. node[n].batches = <<>> /\ node[n].state = Smooth /\ node[n].records = <<>>
    BY <1>1 DEF NewNode
  <2> QED BY <2>1 DEF Ordered, Follows, Before, Chained, Covered
<1>5. Distinct
  BY <1>2 DEF Distinct
<1>6. Releasing
  BY <1>1 DEF Releasing
<1> QED BY <1>3, <1>4, <1>5, <1>6 DEF Inv

LEMMA InvStutters == Inv /\ UNCHANGED vars => Inv'
<1> SUFFICES ASSUME Inv, UNCHANGED vars PROVE Inv'
  OBVIOUS
<1>1. /\ registered' = registered /\ options' = options /\ event_log' = event_log
      /\ seen' = seen /\ node' = node /\ held' = held /\ release' = release
      /\ halted' = halted /\ acks' = acks
  BY DEF vars
<1>2. CausalIds' = CausalIds /\ NodeType' = NodeType /\ AckType' = AckType
  BY <1>1 DEF CausalIds, NodeType, BatchType, AckType
<1>3. TypeOK'
  BY <1>1, <1>2 DEF Inv, TypeOK
<1>4. Distinct' /\ Releasing'
  BY <1>1, <1>2 DEF Inv, Distinct, Releasing, Members
<1> QED BY <1>1, <1>3, <1>4 DEF Inv

LEMMA InvKept == Inv /\ [Next]_vars => Inv'
<1>1. ASSUME Inv, Next PROVE Inv'
  BY <1>1, TypesKept, NodesKept, DistinctKept, ReleasingKept DEF Inv
<1> QED BY <1>1, InvStutters

(* Inv holds of every state that the hub reaches. *)
THEOREM Invariance == Spec => []Inv
BY InvAtStart, InvKept, PTL DEF Spec

(* The types of the variables are what they should be: no node is past the  *)
(* hub's log, and no roughness is negative.                                 *)
THEOREM TypeCorrectness == Spec => []TypeOK
<1>1. Inv => TypeOK
  BY DEF Inv
<1> QED BY <1>1, Invariance, PTL

(* The logged batches of a node lead from the new ship to its state, each   *)
(* from where the one before ended, by what the hub's log says of it:       *)
(* neither batches that failed half way nor events that were skipped leave  *)
(* anything else behind.                                                    *)
THEOREM StatesFollowTheLog ==
  Spec => [](\A n \in Nodes : Follows(node[n], event_log))
<1>1. Inv => \A n \in Nodes : Follows(node[n], event_log)
  BY DEF Inv
<1> QED BY <1>1, Invariance, PTL

(* Batches are atomic, and replay is the proof of the state: what a node has *)
(* logged leads a new executor through its states to the one it is in, and, *)
(* as long as no batch failed, to the same chain of transition records and  *)
(* the same batch hashes (multi_zone_executor.py, replay).                  *)
THEOREM ReplayIsReproducible == Spec => []ReplayReproduces
BY Invariance, ReplayIsFaithful, PTL

(* A node executes no proposal twice, nor two in another order than the     *)
(* hub's, whatever is delayed, released, refused and submitted again.       *)
THEOREM BatchesAreExecutedOnceInOrder == Spec => []ExecutedOnceInOrder
<1>1. Inv => ExecutedOnceInOrder
  <2> SUFFICES ASSUME Inv, NEW n \in Members,
                      NEW i \in DOMAIN node[n].batches, NEW j \in DOMAIN node[n].batches, i < j
               PROVE  /\ Executed(node[n])[i] < Executed(node[n])[j]
                      /\ event_log[Executed(node[n])[i]].proposal
                           # event_log[Executed(node[n])[j]].proposal
    BY DEF ExecutedOnceInOrder
  <2>1. /\ Executed(node[n])[i] = node[n].batches[i].cid
        /\ Executed(node[n])[j] = node[n].batches[j].cid
    BY DEF Executed
  <2>2. n \in Nodes /\ Ordered(node[n]) /\ Distinct /\ TypeOK
    BY Positions DEF Inv
  <2>3. node[n].batches[i].cid < node[n].batches[j].cid
    BY <2>2 DEF Ordered
  <2>4. \A k \in DOMAIN node[n].batches : node[n].batches[k].cid \in CausalIds
    <3>1. node[n].batches \in Seq(BatchOf(Len(event_log)))
      BY <2>2, Positions DEF NodeOf
    <3>2. \A k \in DOMAIN node[n].batches : node[n].batches[k] \in BatchOf(Len(event_log))
      BY <3>1
    <3> QED BY <2>2, <3>2, Positions DEF BatchOf
  <2>5. node[n].batches[i].cid # node[n].batches[j].cid
    BY <2>2, <2>3, <2>4, Positions
  <2> QED BY <2>1, <2>2, <2>3, <2>4, <2>5 DEF Distinct
<1> QED BY <1>1, Invariance, PTL

(* With both options, a submit that delays no node and does not halt the    *)
(* hub leaves all nodes in one state, however they had diverged.            *)
THEOREM DivergenceHalts == Spec => DivergenceIsNoticed
<1> DEFINE Noticed ==
      /\ event_log' # event_log /\ held' = held
      /\ options.halt_on_rejection /\ options.halt_on_divergence
      /\ ~halted'
      => \A m, n \in Members : node'[m].state = node'[n].state
<1>1. ASSUME Inv, NEW p \in ProposalIds, NEW batch \in Batches, NEW delayed,
             Submit(p, batch, delayed), held' = held,
             options.halt_on_rejection, options.halt_on_divergence, ~halted',
             NEW m \in Members, NEW n \in Members
      PROVE  node'[m].state = node'[n].state
  <2> DEFINE cid == Len(event_log) + 1
             given == {Ack(k, node[k], cid, batch) : k \in Members \ delayed}
  <2>1. TypeOK /\ Members \subseteq Nodes
    BY <1>1, Positions DEF Inv
  <2>2. Members \cap delayed = {}
    <3>1. SUFFICES ASSUME NEW k \in Members \cap delayed PROVE FALSE
      OBVIOUS
    <3>2. held'[k] = Append(held[k], cid)
      BY <1>1, <2>1, <3>1 DEF Submit
    <3>3. held[k] \in Seq(CausalIds)
      BY <2>1, <3>1 DEF TypeOK
    <3>4. Len(Append(held[k], cid)) = Len(held[k]) + 1 /\ Len(held[k]) \in Nat
      <4> HIDE DEF cid
      <4> QED BY <3>3
    <3> QED BY <1>1, <3>2, <3>4
  <2>3. /\ \A a \in given : a.type # "REJECTED"
        /\ Consensus(node', given)
    BY <1>1 DEF Submit
  <2>4. ASSUME NEW k \in Members
        PROVE  Ack(k, node[k], cid, batch) \in given
               /\ Ack(k, node[k], cid, batch).type = "APPLIED"
               /\ Ack(k, node[k], cid, batch).node = k
    <3>1. k \in Members \ delayed
      BY <2>2
    <3>2. Ack(k, node[k], cid, batch) \in given
      BY <3>1
    <3> HIDE DEF given, cid
    <3> QED BY <2>1, <2>3, <3>2, AckTyping
  <2> HIDE DEF given, cid
  <2> QED BY <2>3, <2>4 DEF Consensus
<1>2. ASSUME Inv, Next PROVE Noticed
  <2>1. CASE event_log' = event_log
    BY <2>1
  <2>2. ASSUME NEW p \in ProposalIds, NEW batch \in Batches, NEW delayed, Submit(p, batch, delayed)
        PROVE  Noticed
    BY <1>1, <1>2, <2>2
  <2> QED BY <1>2, <2>1, <2>2 DEF Next, RegisterNode, SubmitUnreadable, ReleaseHeldEvents, DeliverHeld
<1>3. Inv /\ [Next]_vars => [Noticed]_vars
  BY <1>2
<1>4. [][Noticed]_vars => DivergenceIsNoticed
  BY PTL DEF DivergenceIsNoticed
<1> QED BY <1>3, <1>4, Invariance, PTL DEF Spec

(* An event that a node rejects has halted the hub if it was to halt, and   *)
(* none at or after it is executed by that node; a halted hub changes none. *)
THEOREM RejectionsAreFinal == Spec => NothingAfterRejection
<1> DEFINE Final ==
      \A n \in Members : options.halt_on_rejection =>
        LET rejections == {a \in acks' : a.node = n /\ a.type = "REJECTED"}
        IN  /\ rejections # {} => halted'
            /\ \A a \in rejections : \A i \in DOMAIN node'[n].batches :
                 node'[n].batches[i].cid < a.cid
            /\ halted => node'[n] = node[n]
<1>1. ASSUME Inv, NEW L \in Nat, NEW n \in Nodes, NEW cid \in 1 .. L, NEW batch \in Batches,
             node[n] \in NodeOf(L), Ack(n, node[n], cid, batch).type = "REJECTED"
      PROVE  \A i \in DOMAIN ExecuteEvent(node[n], cid, batch).batches :
               ExecuteEvent(node[n], cid, batch).batches[i].cid < cid
  <2>1. cid >= node[n].next /\ Raises(batch)
    BY <1>1, AckTyping
  <2>2. ExecuteEvent(node[n], cid, batch).batches = node[n].batches
    BY <1>1, <2>1, EventEffect
  <2>3. /\ node[n].batches \in Seq(BatchOf(L)) /\ node[n].next \in 1 .. L + 1
    BY <1>1 DEF NodeOf
  <2>4. \A i \in DOMAIN node[n].batches :
          node[n].batches[i].cid \in 1 .. L /\ node[n].batches[i].cid < node[n].next
    <3>1. \A i \in DOMAIN node[n].batches : node[n].batches[i] \in BatchOf(L)
      BY <2>3
    <3> QED BY <1>1, <3>1 DEF BatchOf, Inv, Ordered
  <2> QED BY <2>1, <2>2, <2>3, <2>4
<1>2. ASSUME Inv, NEW p \in ProposalIds, NEW batch \in Batches, NEW delayed,
             Submit(p, batch, delayed)
      PROVE  Final
  <2> DEFINE L == Len(event_log) + 1
  <2>1. /\ node' = [m \in Nodes |-> IF m \in Members \ delayed
                                      THEN ExecuteEvent(node[m], L, batch)
                                      ELSE node[m]]
        /\ acks' = {Ack(m, node[m], L, batch) : m \in Members \ delayed}
    BY <1>2 DEF Submit
  <2>n. \A m \in Nodes : node[m] \in NodeOf(L)
    BY <1>2, SubmitEffect
  <2>2. ~halted /\ (options.halt_on_rejection =>
                      ((\E a \in acks' : a.type = "REJECTED") => halted'))
    BY <1>2 DEF Submit
  <2>3. Members \subseteq Nodes /\ L \in Nat /\ L \in 1 .. L
    BY <1>2, Positions DEF Inv
  <2> HIDE DEF L
  <2>4. ASSUME NEW n \in Members, NEW a \in acks', a.node = n, a.type = "REJECTED",
               NEW i \in DOMAIN node'[n].batches
        PROVE  node'[n].batches[i].cid < a.cid
    <3>1. PICK m \in Members \ delayed : a = Ack(m, node[m], L, batch)
      BY <2>1, <2>4
    <3>2. m = n /\ a.cid = L
      BY <2>3, <2>4, <3>1, AckTyping
    <3>3. node'[n] = ExecuteEvent(node[n], L, batch)
      BY <2>1, <2>3, <3>1, <3>2
    <3> QED BY <1>1, <1>2, <2>n, <2>3, <2>4, <3>1, <3>2, <3>3
  <2> QED BY <2>2, <2>4
<1>3. ASSUME Inv, NEW m \in Nodes, DeliverHeld(m) PROVE Final
  <2> DEFINE cid == Head(release.left)
             batch == event_log[cid].batch
             ack == Ack(m, node[m], cid, batch)
  <2>1. /\ cid \in CausalIds /\ batch \in Batches /\ release # NoRelease
        /\ node' = [node EXCEPT ![m] = ExecuteEvent(@, cid, batch)]
        /\ acks' = acks \cup {ack}
    BY <1>3, Delivered
  <2>2. halted' = (options.halt_on_rejection /\ ack.type = "REJECTED")
    BY <1>3 DEF DeliverHeld
  <2>3. ~halted /\ (options.halt_on_rejection => \A a \in acks : a.type # "REJECTED")
    BY <1>3, <2>1 DEF Inv, Releasing
  <2>4. /\ Len(event_log) \in Nat /\ CausalIds = 1 .. Len(event_log)
        /\ node[m] \in NodeOf(Len(event_log)) /\ node \in [Nodes -> NodeType]
    BY <1>3, Positions DEF Inv, TypeOK
  <2>5. ack.node = m /\ ack.cid = cid
    BY AckTyping
  <2> HIDE DEF cid, batch
  <2>6. ASSUME NEW n \in Members, options.halt_on_rejection,
               NEW a \in acks', a.node = n, a.type = "REJECTED",
               NEW i \in DOMAIN node'[n].batches
        PROVE  halted' /\ node'[n].batches[i].cid < a.cid
    <3>1. a = ack /\ n = m
      BY <2>1, <2>3, <2>5, <2>6
    <3>2. node'[n] = ExecuteEvent(node[m], cid, batch)
      BY <2>1, <2>4, <3>1
    <3>3. ack.type = "REJECTED" /\ halted'
      BY <2>2, <2>6, <3>1
    <3>4. \A k \in DOMAIN ExecuteEvent(node[m], cid, batch).batches :
            ExecuteEvent(node[m], cid, batch).batches[k].cid < cid
      BY <1>1, <1>3, <2>1, <2>4, <3>3
    <3> HIDE DEF ack
    <3> QED BY <2>5, <2>6, <3>1, <3>2, <3>3, <3>4
  <2>7. ASSUME NEW n \in Members, options.halt_on_rejection,
               NEW a \in acks', a.node = n, a.type = "REJECTED"
        PROVE  halted'
    BY <2>1, <2>2, <2>3, <2>7
  <2> HIDE DEF ack
  <2> QED BY <2>3, <2>6, <2>7
<1>4. ASSUME node' = node, acks' = {} PROVE Final
  BY <1>4
<1>5. Inv /\ [Next]_vars => [Final]_vars
  <2>1. ASSUME Inv, Next PROVE Final
    <3>1. CASE RegisterNode \/ \E p \in ProposalIds : SubmitUnreadable(p)
      BY <1>4, <3>1 DEF RegisterNode, SubmitUnreadable
    <3>2. CASE \E n \in Nodes : ReleaseHeldEvents(n)
      BY <1>4, <3>2 DEF ReleaseHeldEvents
    <3> HIDE DEF Final
    <3> QED BY <1>2, <1>3, <2>1, <3>1, <3>2 DEF Next
  <2> QED BY <2>1
<1>6. [][Final]_vars => NothingAfterRejection
  BY PTL DEF NothingAfterRejection
<1> QED BY <1>5, <1>6, Invariance, PTL DEF Spec
=============================================================================
