------------------------- MODULE ReplicaNodeProofs -------------------------
(***************************************************************************)
(* Proofs about one replica: each of its operations keeps it consistent    *)
(* (NodeInv), whatever event of the hub's log it is given.                 *)
(***************************************************************************)
EXTENDS ReplicaNode, WellFoundedInduction, SequenceTheorems, TLAPS

Less == {p \in Nat \X Nat : p[1] < p[2]}

(* A nonempty set of naturals has a least element. *)
LEMMA LeastElement ==
  ASSUME NEW S \in SUBSET Nat, S # {}
  PROVE  \E x \in S : \A y \in S : x <= y
<1>1. IsWellFoundedOn(Less, Nat)
  BY NatLessThanWellFounded DEF Less, OpToRel
<1>2. PICK x \in S : \A y \in S : <<y, x>> \notin Less
  BY <1>1, WFMin
<1>3. ASSUME NEW y \in S
      PROVE  x <= y
  <2>1. x \in Nat /\ y \in Nat
    OBVIOUS
  <2>2. ~(y < x)
    BY <1>2, <2>1 DEF Less
  <2> QED
    BY <2>1, <2>2
<1> QED
  BY <1>3

(* The loop of _process_buffer ends: its buffer holds only ids of the log. *)
LEMMA DrainStops ==
  ASSUME NEW lg, Len(lg) \in Nat,
         NEW nd, nd.next \in 1 .. (Len(lg) + 1),
         nd.buffer \subseteq 1 .. Len(lg)
  PROVE  /\ DrainStop(nd, lg) \in nd.next .. (Len(lg) + 1)
         /\ DrainStop(nd, lg) \notin nd.buffer \/ Raises(lg[DrainStop(nd, lg)])
         /\ \A j \in nd.next .. (DrainStop(nd, lg) - 1) :
              j \in nd.buffer /\ ~Raises(lg[j])
<1> DEFINE Ends(k) == k \notin nd.buffer \/ Raises(lg[k])
           Ending == {k \in nd.next .. (Len(lg) + 1) : Ends(k)}
<1>1. Len(lg) + 1 \in Ending
  OBVIOUS
<1>2. PICK k \in Ending : \A j \in Ending : k <= j
  <2>1. Ending \in SUBSET Nat
    OBVIOUS
  <2> HIDE DEF Ending
  <2> QED
    BY <1>1, <2>1, LeastElement
<1>3. ASSUME NEW j \in nd.next .. (k - 1)
      PROVE  j \in nd.buffer /\ ~Raises(lg[j])
  <2>1. j \in nd.next .. (Len(lg) + 1) /\ ~(k <= j)
    OBVIOUS
  <2>2. j \notin Ending
    BY <1>2, <2>1
  <2> QED
    BY <2>1, <2>2
<1>4. \E i \in nd.next .. (Len(lg) + 1) :
         /\ i \notin nd.buffer \/ Raises(lg[i])
         /\ \A j \in nd.next .. (i - 1) : j \in nd.buffer /\ ~Raises(lg[j])
  BY <1>2, <1>3
<1> QED
  BY <1>4 DEF DrainStop

LEMMA IntervalProperties ==
  ASSUME NEW a \in Nat, NEW b \in Nat, a <= b + 1
  PROVE  /\ Len(Interval(a, b)) = b + 1 - a
         /\ \A S : a .. b \subseteq S => Interval(a, b) \in Seq(S)
         /\ \A i \in 1 .. (b + 1 - a) : Interval(a, b)[i] = a + i - 1
  BY DEF Interval

-----------------------------------------------------------------------------
LEMMA NodeTypeFacts ==
  ASSUME NEW Step, NEW lg \in Seq(Step), NEW nd \in NodeType(lg)
  PROVE  /\ Len(lg) \in Nat /\ DOMAIN lg = 1 .. Len(lg)
         /\ EventIdsOf(lg) \subseteq 1 .. Len(lg)
         /\ nd.next \in 1 .. (Len(lg) + 1)
         /\ nd.buffer \subseteq EventIdsOf(lg)
         /\ nd.applied \in Seq(EventIdsOf(lg))
         /\ nd.calls \in Seq(EventIdsOf(lg))
         /\ nd.synced \subseteq SyncIdsOf(lg)
         /\ Len(nd.applied) \in Nat
         /\ DOMAIN nd.applied = 1 .. Len(nd.applied)
  BY LenProperties DEF NodeType, EventIdsOf

(* What _process_buffer does to a node, in terms of where it stops. *)
LEMMA ProcessBufferEffect ==
  ASSUME NEW Step, NEW lg \in Seq(Step), NEW nd \in NodeType(lg)
  PROVE  LET stop == DrainStop(nd, lg)
             new == ProcessBuffer(nd, lg)
             old == Len(nd.applied)
         IN  /\ stop \in nd.next .. (Len(lg) + 1)
             /\ nd.next .. (stop - 1) \subseteq nd.buffer
             /\ new \in NodeType(lg)
             /\ new.next = stop
             /\ new.synced = nd.synced
             /\ Len(new.applied) = old + stop - nd.next
             /\ \A i \in 1 .. old : new.applied[i] = nd.applied[i]
             /\ \A i \in (old + 1) .. (old + stop - nd.next) :
                  new.applied[i] = nd.next + i - old - 1
             /\ new.applied = nd.applied \o Interval(nd.next, stop - 1)
             /\ ~(stop \in nd.buffer) =>
                  new.calls = nd.calls \o Interval(nd.next, stop - 1)
             /\ stop \in nd.buffer => Raises(lg[stop])
<1> DEFINE stop == DrainStop(nd, lg)
           tried == IF stop \in nd.buffer THEN stop ELSE stop - 1
           new == ProcessBuffer(nd, lg)
           old == Len(nd.applied)
           E == EventIdsOf(lg)
           run == Interval(nd.next, stop - 1)
<1>1. /\ Len(lg) \in Nat /\ E \subseteq 1 .. Len(lg)
      /\ nd.next \in 1 .. (Len(lg) + 1) /\ nd.buffer \subseteq E
      /\ nd.applied \in Seq(E) /\ nd.calls \in Seq(E) /\ old \in Nat
  BY NodeTypeFacts
<1>2. /\ stop \in nd.next .. (Len(lg) + 1)
      /\ nd.next .. (stop - 1) \subseteq nd.buffer
      /\ stop \in nd.buffer => Raises(lg[stop])
  <2>1. nd.buffer \subseteq 1 .. Len(lg)
    BY <1>1
  <2>2. /\ stop \in nd.next .. (Len(lg) + 1)
        /\ stop \notin nd.buffer \/ Raises(lg[stop])
        /\ \A j \in nd.next .. (stop - 1) : j \in nd.buffer
    BY <1>1, <2>1, DrainStops
  <2> QED
    BY <2>2
<1>3. /\ new.next = stop /\ new.synced = nd.synced
      /\ new.buffer = nd.buffer \ (nd.next .. stop)
      /\ new.applied = nd.applied \o run
      /\ new.calls = nd.calls \o Interval(nd.next, tried)
      /\ new = [nd EXCEPT !.next = stop, !.buffer = @ \ (nd.next .. stop),
                          !.applied = nd.applied \o run,
                          !.calls = nd.calls \o Interval(nd.next, tried)]
  BY DEF ProcessBuffer, NodeType
<1> HIDE DEF stop, new, E, old
<1>4. /\ run \in Seq(E) /\ Len(run) = stop - nd.next
      /\ \A i \in 1 .. (stop - nd.next) : run[i] = nd.next + i - 1
  <2>1. nd.next \in Nat /\ stop - 1 \in Nat /\ nd.next <= (stop - 1) + 1
    BY <1>1, <1>2
  <2>2. nd.next .. (stop - 1) \subseteq E
    BY <1>1, <1>2
  <2>3. (stop - 1) + 1 - nd.next = stop - nd.next
    BY <1>1, <1>2
  <2> QED
    BY <2>1, <2>2, <2>3, IntervalProperties
<1>5. Interval(nd.next, tried) \in Seq(E)
  <2>1. nd.next \in Nat /\ tried \in Nat /\ nd.next <= tried + 1
    BY <1>1, <1>2
  <2>2. nd.next .. tried \subseteq E
    BY <1>1, <1>2
  <2> QED
    BY <2>1, <2>2, IntervalProperties
<1>6. /\ new.applied \in Seq(E)
      /\ Len(new.applied) = old + stop - nd.next
      /\ \A i \in 1 .. old : new.applied[i] = nd.applied[i]
      /\ \A i \in (old + 1) .. (old + stop - nd.next) :
           new.applied[i] = nd.next + i - old - 1
  <2>1. /\ nd.applied \o run \in Seq(E)
        /\ Len(nd.applied \o run) = old + Len(run)
        /\ \A i \in 1 .. old + Len(run) :
             (nd.applied \o run)[i] = IF i <= old THEN nd.applied[i] ELSE run[i - old]
    BY <1>1, <1>4, ConcatProperties DEF old
  <2> HIDE DEF run
  <2>2. old \in Nat /\ stop - nd.next \in Nat /\ nd.next \in Nat
    BY <1>1, <1>2
  <2>3. new.applied = nd.applied \o run /\ Len(run) = stop - nd.next
    BY <1>3, <1>4
  <2>4. ASSUME NEW i \in 1 .. old
        PROVE  new.applied[i] = nd.applied[i]
    <3>1. i \in 1 .. old + Len(run) /\ i <= old
      BY <2>2, <2>3
    <3> QED
      BY <3>1, <2>1, <2>3
  <2>5. ASSUME NEW i \in (old + 1) .. (old + stop - nd.next)
        PROVE  new.applied[i] = nd.next + i - old - 1
    <3>1. i \in 1 .. old + Len(run) /\ ~(i <= old)
      BY <2>2, <2>3
    <3>2. i - old \in 1 .. (stop - nd.next)
      BY <2>2
    <3>3. new.applied[i] = run[i - old]
      BY <3>1, <2>1, <2>3
    <3>4. run[i - old] = nd.next + (i - old) - 1
      BY <3>2, <1>4
    <3> QED
      BY <3>3, <3>4, <2>2
  <2>6. old + Len(run) = old + stop - nd.next
    BY <2>2, <2>3, <1>1, <1>2
  <2> QED
    BY <2>1, <2>3, <2>4, <2>5, <2>6
<1>7. new.calls \in Seq(E)
  BY <1>1, <1>3, <1>5, ConcatProperties
<1>8. new \in NodeType(lg)
  <2>1. new.next \in 1 .. (Len(lg) + 1)
    BY <1>1, <1>2, <1>3
  <2>2. new.buffer \in SUBSET E
    BY <1>1, <1>3
  <2>3. new.synced \in SUBSET SyncIdsOf(lg)
    BY <1>3 DEF NodeType
  <2> QED
    BY <1>3, <1>6, <1>7, <2>1, <2>2, <2>3 DEF NodeType, E
<1> QED
  BY <1>2, <1>3, <1>6, <1>8 DEF stop, new, old

-----------------------------------------------------------------------------
(* The ids that the loop of _process_buffer runs over are new to the node:  *)
(* had it visited one, it would have applied all that precedes it in its    *)
(* epoch, the next event among them.                                        *)
LEMMA RunIsNew ==
  ASSUME NEW Step, NEW lg \in Seq(Step), NEW nd, NodeInv(nd, lg),
         NEW r \in nd.next .. DrainStop(nd, lg)
  PROVE  r \notin Ids(nd.applied)
<1>1. /\ nd \in NodeType(lg) /\ NextIsNew(nd) /\ EpochClosed(nd, lg)
  BY DEF NodeInv
<1>2. /\ DrainStop(nd, lg) \in nd.next .. (Len(lg) + 1)
      /\ nd.next .. (DrainStop(nd, lg) - 1) \subseteq nd.buffer
  BY <1>1, ProcessBufferEffect
<1>3. /\ nd.next \in Nat \ {0} /\ Len(lg) \in Nat
      /\ nd.buffer \subseteq EventIdsOf(lg)
  BY <1>1, NodeTypeFacts
<1>4. SyncFree(nd.next, r, lg)
  BY <1>2, <1>3 DEF SyncFree, EventIdsOf
<1>5. CASE r = nd.next
  BY <1>1, <1>5 DEF NextIsNew
<1>6. CASE r # nd.next
  <2>1. nd.next \in 1 .. (r - 1)
    BY <1>2, <1>3, <1>6
  <2>2. SUFFICES ASSUME r \in Ids(nd.applied)
                 PROVE  nd.next \in Ids(nd.applied)
    BY <1>1 DEF NextIsNew
  <2> QED
    BY <1>1, <1>4, <2>1, <2>2 DEF EpochClosed, Visited
<1> QED
  BY <1>5, <1>6

LEMMA ProcessBufferKeepsNodeInv ==
  ASSUME NEW Step, NEW lg \in Seq(Step), NEW nd, NodeInv(nd, lg)
  PROVE  NodeInv(ProcessBuffer(nd, lg), lg)
<1> DEFINE stop == DrainStop(nd, lg)
           new == ProcessBuffer(nd, lg)
           old == Len(nd.applied)
           E == EventIdsOf(lg)
<1>1. /\ nd \in NodeType(lg) /\ NextIsNew(nd) /\ Distinct(nd.applied)
      /\ EpochClosed(nd, lg) /\ SyncsExecuted(nd, lg)
      /\ AppliedInEpochOrder(nd, lg)
      /\ LogIsPrefix(nd, lg) /\ CallsAreApplied(nd, lg)
  BY DEF NodeInv
<1>2. /\ Len(lg) \in Nat /\ DOMAIN lg = 1 .. Len(lg) /\ E \subseteq 1 .. Len(lg)
      /\ nd.next \in 1 .. (Len(lg) + 1) /\ nd.buffer \subseteq E
      /\ nd.applied \in Seq(E) /\ nd.calls \in Seq(E) /\ old \in Nat
      /\ DOMAIN nd.applied = 1 .. old
  BY <1>1, NodeTypeFacts
<1>3. /\ stop \in nd.next .. (Len(lg) + 1)
      /\ nd.next .. (stop - 1) \subseteq nd.buffer
      /\ new \in NodeType(lg)
      /\ new.next = stop
      /\ new.synced = nd.synced
      /\ Len(new.applied) = old + stop - nd.next
      /\ \A i \in 1 .. old : new.applied[i] = nd.applied[i]
      /\ \A i \in (old + 1) .. (old + stop - nd.next) :
           new.applied[i] = nd.next + i - old - 1
      /\ new.applied = nd.applied \o Interval(nd.next, stop - 1)
      /\ ~(stop \in nd.buffer) =>
           new.calls = nd.calls \o Interval(nd.next, stop - 1)
      /\ stop \in nd.buffer => Raises(lg[stop])
  BY <1>1, ProcessBufferEffect
<1>4. DOMAIN new.applied = 1 .. (old + stop - nd.next)
  BY <1>3, NodeTypeFacts
<1>5. \A r \in nd.next .. stop : r \notin Ids(nd.applied)
  BY RunIsNew
<1>6. \A r \in nd.next .. (stop - 1) : r \in E /\ lg[r] # SYNC
  BY <1>2, <1>3 DEF EventIdsOf
<1> DEFINE total == old + stop - nd.next
<1>a. /\ nd.next \in Nat /\ nd.next > 0 /\ stop \in Nat /\ nd.next <= stop
      /\ old \in Nat /\ total \in Nat /\ total = old + stop - nd.next
  BY <1>2, <1>3
<1> HIDE DEF stop, new, old, E, total
<1>b. \A i \in 1 .. old : new.applied[i] = nd.applied[i]
  BY <1>3
<1>c. \A i \in (old + 1) .. total : new.applied[i] = nd.next + i - old - 1
  BY <1>3 DEF total
<1>d. DOMAIN new.applied = 1 .. total
  BY <1>4 DEF total
<1>e. DOMAIN nd.applied = 1 .. old
  BY <1>2
<1>f. new.next = stop /\ new.synced = nd.synced /\ Len(new.applied) = total
  BY <1>3 DEF total
<1>7. Ids(new.applied) = Ids(nd.applied) \cup (nd.next .. (stop - 1))
  <2>1. ASSUME NEW k \in Ids(nd.applied) PROVE k \in Ids(new.applied)
    <3>1. PICK i \in 1 .. old : nd.applied[i] = k
      BY <1>2 DEF Ids
    <3>2. i \in DOMAIN new.applied /\ new.applied[i] = k
      BY <3>1, <1>a, <1>b, <1>c, <1>d, <1>e
    <3> QED
      BY <3>2 DEF Ids
  <2>2. ASSUME NEW k \in nd.next .. (stop - 1) PROVE k \in Ids(new.applied)
    <3>1. old + k - nd.next + 1 \in (old + 1) .. total
      BY <1>a, <1>b, <1>c, <1>e
    <3>2. new.applied[old + k - nd.next + 1] = k
      BY <3>1, <1>a, <1>b, <1>c, <1>e
    <3>3. old + k - nd.next + 1 \in DOMAIN new.applied
      BY <3>1, <1>a, <1>d
    <3> QED
      BY <3>2, <3>3 DEF Ids
  <2>3. ASSUME NEW i \in 1 .. total
        PROVE  new.applied[i] \in Ids(nd.applied) \cup (nd.next .. (stop - 1))
    <3>1. CASE i <= old
      <4>1. i \in 1 .. old
        BY <3>1, <1>a
      <4> QED
        BY <4>1, <1>b, <1>e DEF Ids
    <3>2. CASE i > old
      BY <3>2, <1>a, <1>c
    <3> QED
      BY <3>1, <3>2, <1>a, <1>b, <1>c, <1>e
  <2> QED
    BY <2>1, <2>2, <2>3, <1>d DEF Ids
<1>8. NextIsNew(new)
  <2>1. stop \notin Ids(nd.applied) /\ stop \notin nd.next .. (stop - 1)
    BY <1>a, <1>5
  <2> QED
    BY <2>1, <1>f, <1>7 DEF NextIsNew
<1>9. Distinct(new.applied)
  <2> SUFFICES ASSUME NEW i \in 1 .. total,
                      NEW j \in 1 .. total,
                      new.applied[i] = new.applied[j]
               PROVE  i = j
    BY <1>d DEF Distinct
  <2>1. ASSUME NEW a \in 1 .. old, NEW b \in (old + 1) .. total
        PROVE  new.applied[a] # new.applied[b]
    <3>1. new.applied[a] \in Ids(nd.applied)
      BY <1>a, <1>b, <1>c, <1>e DEF Ids
    <3>2. new.applied[b] \in nd.next .. stop
      <4>1. new.applied[b] = nd.next + b - old - 1
        BY <1>c
      <4>2. b \in Int /\ old + 1 <= b /\ b <= old + stop - nd.next
        BY <1>a
      <4>3. nd.next + b - old - 1 \in nd.next .. stop
        BY <4>2, <1>a
      <4> QED
        BY <4>1, <4>3
    <3> QED
      BY <3>1, <3>2, <1>5
  <2>2. CASE i <= old /\ j <= old
    <3>1. i \in 1 .. old /\ j \in 1 .. old
      BY <2>2, <1>a
    <3>2. nd.applied[i] = nd.applied[j]
      BY <3>1, <1>b
    <3> QED
      BY <3>1, <3>2, <1>1, <1>e DEF Distinct
  <2>3. CASE i > old /\ j > old
    BY <2>3, <1>a, <1>b, <1>c, <1>e
  <2>4. CASE (i <= old /\ j > old) \/ (i > old /\ j <= old)
    BY <2>1, <2>4, <1>a, <1>b, <1>c, <1>e
  <2> QED
    BY <2>2, <2>3, <2>4, <1>a, <1>b, <1>c, <1>e
<1>10. EpochClosed(new, lg)
  <2> SUFFICES ASSUME NEW k \in Visited(new), NEW j \in 1 .. (k - 1),
                      SyncFree(j, k, lg)
               PROVE  j \in Ids(new.applied)
    BY DEF EpochClosed
  <2>1. CASE k \in Ids(nd.applied)
    BY <2>1, <1>1, <1>7 DEF EpochClosed, Visited
  <2>2. CASE k \in nd.next .. stop
    <3>1. CASE j >= nd.next
      BY <3>1, <2>2, <1>a, <1>b, <1>c, <1>e, <1>7
    <3>2. CASE j < nd.next
      <4>1. SyncFree(j, nd.next, lg) /\ j \in 1 .. (nd.next - 1)
        BY <3>2, <2>2, <1>a, <1>b, <1>c, <1>e DEF SyncFree
      <4> QED
        BY <4>1, <1>1, <1>7 DEF EpochClosed, Visited
    <3> QED
      BY <3>1, <3>2, <1>a, <1>b, <1>c, <1>e, <2>2
  <2> QED
    <3>1. k \in Ids(nd.applied) \/ k \in nd.next .. (stop - 1) \/ k = stop
      BY <1>f, <1>7 DEF Visited
    <3> QED
      BY <3>1, <2>1, <2>2, <1>a
<1>11. SyncsExecuted(new, lg)
  <2> SUFFICES ASSUME NEW k \in Visited(new), k - 1 \in SyncIdsOf(lg)
               PROVE  k - 1 \in nd.synced
    BY <1>3 DEF SyncsExecuted
  <2>1. CASE k \in Ids(nd.applied) \cup {nd.next}
    BY <2>1, <1>1 DEF SyncsExecuted, Visited
  <2>2. CASE k \in (nd.next + 1) .. stop
    BY <2>2, <1>a, <1>b, <1>c, <1>e, <1>6 DEF SyncIdsOf
  <2> QED
    <3>1. k \in Ids(nd.applied) \/ k \in nd.next .. (stop - 1) \/ k = stop
      BY <1>f, <1>7 DEF Visited
    <3> QED
      BY <3>1, <2>1, <2>2, <1>a
<1>12. AppliedInEpochOrder(new, lg)
  <2> SUFFICES ASSUME NEW i \in 1 .. total,
                      NEW j \in 1 .. (new.applied[i] - 1),
                      SyncFree(j, new.applied[i], lg)
               PROVE  \E h \in 1 .. (i - 1) : new.applied[h] = j
    BY <1>d DEF AppliedInEpochOrder
  <2>1. CASE i <= old
    <3>1. new.applied[i] = nd.applied[i] /\ i \in 1 .. old
      BY <2>1, <1>a, <1>b, <1>c, <1>e
    <3>2. PICK h \in 1 .. (i - 1) : nd.applied[h] = j
      BY <3>1, <1>1, <1>2 DEF AppliedInEpochOrder
    <3>3. h \in 1 .. old
      BY <3>1, <1>2
    <3> QED
      BY <3>2, <3>3, <1>3
  <2>2. CASE i > old
    <3> DEFINE id == nd.next + i - old - 1
    <3>1. i \in (old + 1) .. total
      BY <2>2, <1>a
    <3>2. new.applied[i] = id
      BY <3>1, <1>c
    <3>3. id \in Int /\ nd.next <= id /\ id <= stop - 1
      BY <3>1, <1>a
    <3>4. j \in 1 .. (id - 1) /\ SyncFree(j, id, lg)
      BY <3>2
    <3> HIDE DEF id
    <3>5. CASE j >= nd.next
      <4> DEFINE h == old + j - nd.next + 1
      <4>0. /\ j \in Int /\ i \in Int /\ i <= total
            /\ j <= nd.next + i - old - 2
        BY <3>1, <3>3, <3>4, <1>a DEF id
      <4>1. h \in (old + 1) .. total /\ h \in 1 .. (i - 1)
        <5>1. /\ nd.next \in Int /\ old \in Nat /\ total \in Int
              /\ nd.next <= j
          BY <3>5, <1>a
        <5> HIDE DEF h
        <5>2. h = old + j - nd.next + 1
          BY DEF h
        <5>3. h \in Int /\ old + 1 <= h
          BY <4>0, <5>1, <5>2
        <5>4. h <= i - 1
          BY <4>0, <5>1, <5>2
        <5> QED
          BY <4>0, <5>1, <5>3, <5>4
      <4>2. new.applied[h] = nd.next + h - old - 1
        BY <4>1, <1>c
      <4>3. nd.next + h - old - 1 = j
        BY <1>a, <3>3, <3>4
      <4> QED
        BY <4>1, <4>2, <4>3
    <3>6. CASE j < nd.next
      <4>1. SyncFree(j, nd.next, lg) /\ j \in 1 .. (nd.next - 1)
        BY <3>3, <3>4, <3>6, <1>a DEF SyncFree
      <4>2. j \in Ids(nd.applied)
        BY <4>1, <1>1 DEF EpochClosed, Visited
      <4>3. PICK h \in 1 .. old : nd.applied[h] = j
        BY <4>2, <1>e DEF Ids
      <4>4. h \in 1 .. (i - 1) /\ new.applied[h] = j
        BY <4>3, <3>1, <1>a, <1>b
      <4> QED
        BY <4>4
    <3> QED
      BY <3>3, <3>4, <3>5, <3>6, <1>a
  <2> QED
    BY <2>1, <2>2, <1>a, <1>b, <1>c, <1>e
<1>13. LogIsPrefix(new, lg)
  <2> SUFFICES ASSUME SyncIdsOf(lg) = {}
               PROVE  /\ Len(new.applied) = new.next - 1
                      /\ \A i \in 1 .. Len(new.applied) : new.applied[i] = i
    BY DEF LogIsPrefix
  <2>1. old = nd.next - 1 /\ \A i \in 1 .. old : nd.applied[i] = i
    BY <1>1 DEF LogIsPrefix, old
  <2>2. total = stop - 1
    BY <2>1, <1>a
  <2>3. ASSUME NEW i \in 1 .. total PROVE new.applied[i] = i
    <3>1. CASE i \in 1 .. old
      BY <3>1, <2>1, <1>b
    <3>2. CASE i \in (old + 1) .. total
      <4>1. new.applied[i] = nd.next + i - old - 1
        BY <3>2, <1>c
      <4>2. old = nd.next - 1
        BY <2>1
      <4>3. i \in Int /\ nd.next \in Int
        BY <1>a
      <4>4. nd.next + i - old - 1 = i
        BY <4>2, <4>3
      <4> QED
        BY <4>1, <4>4
    <3> QED
      BY <3>1, <3>2, <1>a
  <2> QED
    BY <2>2, <2>3, <1>f
<1>14. CallsAreApplied(new, lg)
  <2> SUFFICES ASSUME \A k \in E : ~Raises(lg[k])
               PROVE  new.calls = new.applied
    BY DEF CallsAreApplied, E
  <2>1. stop \notin nd.buffer
    BY <1>2, <1>3
  <2>2. nd.calls = nd.applied
    BY <1>1 DEF CallsAreApplied, E
  <2> QED
    BY <2>1, <2>2, <1>3
<1> QED
  BY <1>3, <1>8, <1>9, <1>10, <1>11, <1>12, <1>13, <1>14 DEF NodeInv, new

-----------------------------------------------------------------------------
LEMMA BufferingKeepsNodeInv ==
  ASSUME NEW Step, NEW lg \in Seq(Step), NEW nd, NodeInv(nd, lg),
         NEW cid \in EventIdsOf(lg)
  PROVE  /\ NodeInv(Buffering(nd, cid), lg)
         /\ Buffering(nd, cid).synced = nd.synced
<1>1. nd \in NodeType(lg)
  BY DEF NodeInv
<1>2. /\ Buffering(nd, cid) \in NodeType(lg)
      /\ Buffering(nd, cid).next = nd.next
      /\ Buffering(nd, cid).applied = nd.applied
      /\ Buffering(nd, cid).calls = nd.calls
      /\ Buffering(nd, cid).synced = nd.synced
  BY <1>1 DEF Buffering, NodeType
<1> QED
  BY <1>2 DEF NodeInv, NextIsNew, EpochClosed, SyncsExecuted,
              AppliedInEpochOrder, LogIsPrefix, CallsAreApplied, Visited

(* receive_event keeps the node consistent. *)
LEMMA ReceiveKeepsNodeInv ==
  ASSUME NEW Step, NEW lg \in Seq(Step), NEW nd, NodeInv(nd, lg),
         NEW cid \in EventIdsOf(lg)
  PROVE  /\ NodeInv(Receive(nd, cid, lg), lg)
         /\ Receive(nd, cid, lg).synced = nd.synced
<1>1. /\ NodeInv(Buffering(nd, cid), lg)
      /\ Buffering(nd, cid) \in NodeType(lg)
      /\ Buffering(nd, cid).synced = nd.synced
  BY BufferingKeepsNodeInv DEF NodeInv
<1>2. /\ NodeInv(ProcessBuffer(Buffering(nd, cid), lg), lg)
      /\ ProcessBuffer(Buffering(nd, cid), lg).synced = nd.synced
  BY <1>1, ProcessBufferKeepsNodeInv, ProcessBufferEffect
<1> QED
  BY <1>2 DEF Receive

(* The SYNC branch keeps the node consistent, provided that it executes     *)
(* each SYNC once: then it has not been past this one.                      *)
LEMMA ExecuteSyncKeepsNodeInv ==
  ASSUME NEW Step, NEW lg \in Seq(Step), NEW nd, NodeInv(nd, lg),
         NEW cid \in SyncIdsOf(lg), cid \notin nd.synced
  PROVE  /\ NodeInv(ExecuteSync(nd, cid), lg)
         /\ ExecuteSync(nd, cid).synced = nd.synced \cup {cid}
<1> DEFINE new == ExecuteSync(nd, cid)
<1>1. /\ nd \in NodeType(lg) /\ Distinct(nd.applied)
      /\ EpochClosed(nd, lg) /\ SyncsExecuted(nd, lg)
      /\ AppliedInEpochOrder(nd, lg) /\ CallsAreApplied(nd, lg)
  BY DEF NodeInv
<1>2. Len(lg) \in Nat /\ cid \in 1 .. Len(lg) /\ lg[cid] = SYNC
  BY LenProperties DEF SyncIdsOf
<1>3. /\ new \in NodeType(lg)
      /\ new.next = cid + 1
      /\ new.applied = nd.applied
      /\ new.calls = nd.calls
      /\ new.synced = nd.synced \cup {cid}
  <2>1. cid + 1 \in 1 .. (Len(lg) + 1)
    BY <1>2
  <2>2. nd.synced \cup {cid} \in SUBSET SyncIdsOf(lg)
    BY <1>1 DEF NodeType
  <2>3. new = [nd EXCEPT !.next = cid + 1, !.synced = nd.synced \cup {cid}]
    BY DEF ExecuteSync
  <2> QED
    BY <1>1, <2>1, <2>2, <2>3 DEF NodeType
<1>4. NextIsNew(new)
  BY <1>1, <1>2, <1>3 DEF NextIsNew, SyncsExecuted, Visited
<1>5. EpochClosed(new, lg)
  <2>1. \A j \in 1 .. cid : ~SyncFree(j, cid + 1, lg)
    BY <1>2 DEF SyncFree
  <2> QED
    BY <2>1, <1>1, <1>2, <1>3 DEF EpochClosed, Visited
<1>6. SyncsExecuted(new, lg)
  BY <1>1, <1>2, <1>3 DEF SyncsExecuted, Visited
<1>7. AppliedInEpochOrder(new, lg) /\ CallsAreApplied(new, lg)
  BY <1>1, <1>3 DEF AppliedInEpochOrder, CallsAreApplied
<1>8. LogIsPrefix(new, lg)
  BY DEF LogIsPrefix
<1> QED
  BY <1>1, <1>3, <1>4, <1>5, <1>6, <1>7, <1>8 DEF NodeInv

(* execute_sequenced_event keeps the node consistent. *)
LEMMA ExecuteKeepsNodeInv ==
  ASSUME NEW Step, NEW lg \in Seq(Step), NEW nd, NodeInv(nd, lg),
         NEW cid \in DOMAIN lg, cid \notin nd.synced
  PROVE  /\ NodeInv(Execute(nd, cid, lg), lg)
         /\ Execute(nd, cid, lg).synced = nd.synced \cup ({cid} \cap SyncIdsOf(lg))
<1>1. CASE lg[cid] = SYNC
  <2>1. cid \in SyncIdsOf(lg)
    BY <1>1 DEF SyncIdsOf
  <2> QED
    BY <1>1, <2>1, ExecuteSyncKeepsNodeInv DEF Execute
<1>2. CASE lg[cid] # SYNC
  <2>1. cid \in EventIdsOf(lg) /\ {cid} \cap SyncIdsOf(lg) = {}
    BY <1>2 DEF EventIdsOf, SyncIdsOf
  <2> QED
    BY <1>2, <2>1, ReceiveKeepsNodeInv DEF Execute
<1> QED
  BY <1>1, <1>2

(* A consistent node stays consistent when the hub sequences a step. *)
LEMMA SequencingKeepsNodeInv ==
  ASSUME NEW Step, NEW lg \in Seq(Step), NEW step \in Step,
         NEW nd, NodeInv(nd, lg)
  PROVE  NodeInv(nd, Append(lg, step))
<1> DEFINE lg2 == Append(lg, step)
<1>1. /\ nd \in NodeType(lg) /\ NextIsNew(nd) /\ Distinct(nd.applied)
      /\ EpochClosed(nd, lg) /\ SyncsExecuted(nd, lg)
      /\ AppliedInEpochOrder(nd, lg)
      /\ LogIsPrefix(nd, lg) /\ CallsAreApplied(nd, lg)
  BY DEF NodeInv
<1>2. /\ Len(lg) \in Nat /\ DOMAIN lg = 1 .. Len(lg)
      /\ lg2 \in Seq(Step) /\ Len(lg2) = Len(lg) + 1
      /\ DOMAIN lg2 = 1 .. (Len(lg) + 1)
      /\ \A i \in 1 .. Len(lg) : lg2[i] = lg[i]
  BY LenProperties
<1>3. /\ EventIdsOf(lg) \subseteq EventIdsOf(lg2)
      /\ SyncIdsOf(lg) \subseteq SyncIdsOf(lg2)
      /\ EventIdsOf(lg) \subseteq 1 .. Len(lg)
      /\ \A k \in 1 .. Len(lg) : k \in SyncIdsOf(lg2) => k \in SyncIdsOf(lg)
  BY <1>2 DEF EventIdsOf, SyncIdsOf
<1>4. /\ nd.next \in 1 .. (Len(lg) + 1)
      /\ nd.applied \in Seq(EventIdsOf(lg))
      /\ nd.calls \in Seq(EventIdsOf(lg))
      /\ Len(nd.applied) \in Nat
      /\ DOMAIN nd.applied = 1 .. Len(nd.applied)
      /\ \A i \in DOMAIN nd.applied : nd.applied[i] \in 1 .. Len(lg)
  BY <1>1, <1>3, NodeTypeFacts, ElementOfSeq
<1> HIDE DEF lg2
<1>5. nd \in NodeType(lg2)
  <2>1. /\ nd.applied \in Seq(EventIdsOf(lg2))
        /\ nd.calls \in Seq(EventIdsOf(lg2))
    BY <1>3, <1>4, SeqMonotonic
  <2>2. nd.next \in 1 .. (Len(lg2) + 1)
    BY <1>2, <1>4
  <2> QED
    BY <1>1, <1>3, <2>1, <2>2 DEF NodeType
<1>6. \A k \in Visited(nd) : k \in 1 .. (Len(lg) + 1)
  BY <1>2, <1>4 DEF Visited, Ids
<1>7. \A k \in 1 .. (Len(lg) + 1) : \A j \in 1 .. k :
        SyncFree(j, k, lg2) <=> SyncFree(j, k, lg)
  BY <1>2 DEF SyncFree
<1>8. EpochClosed(nd, lg2)
  <2> SUFFICES ASSUME NEW k \in Visited(nd), NEW j \in 1 .. (k - 1),
                      SyncFree(j, k, lg2)
               PROVE  j \in Ids(nd.applied)
    BY DEF EpochClosed
  <2>1. k \in 1 .. (Len(lg) + 1) /\ j \in 1 .. k
    BY <1>2, <1>6
  <2> QED
    BY <2>1, <1>1, <1>7 DEF EpochClosed
<1>9. SyncsExecuted(nd, lg2)
  <2> SUFFICES ASSUME NEW k \in Visited(nd), k - 1 \in SyncIdsOf(lg2)
               PROVE  k - 1 \in nd.synced
    BY DEF SyncsExecuted
  <2>1. k \in 1 .. (Len(lg) + 1) /\ k - 1 \in 1 .. (Len(lg) + 1)
    BY <1>2, <1>6 DEF SyncIdsOf
  <2>2. k - 1 \in SyncIdsOf(lg)
    BY <2>1, <1>2, <1>3
  <2> QED
    BY <2>2, <1>1 DEF SyncsExecuted
<1>10. AppliedInEpochOrder(nd, lg2)
  <2> SUFFICES ASSUME NEW i \in DOMAIN nd.applied, NEW j \in 1 .. (nd.applied[i] - 1),
                      SyncFree(j, nd.applied[i], lg2)
               PROVE  \E h \in 1 .. (i - 1) : nd.applied[h] = j
    BY DEF AppliedInEpochOrder
  <2>1. nd.applied[i] \in 1 .. (Len(lg) + 1) /\ j \in 1 .. nd.applied[i]
    BY <1>2, <1>4
  <2> QED
    BY <2>1, <1>1, <1>7 DEF AppliedInEpochOrder
<1>11. LogIsPrefix(nd, lg2)
  BY <1>1, <1>3 DEF LogIsPrefix
<1>12. CallsAreApplied(nd, lg2)
  <2>1. \A k \in EventIdsOf(lg) : k \in EventIdsOf(lg2) /\ lg2[k] = lg[k]
    BY <1>2, <1>3
  <2> QED
    BY <2>1, <1>1 DEF CallsAreApplied
<1> QED
  BY <1>1, <1>5, <1>8, <1>9, <1>10, <1>11, <1>12 DEF NodeInv, lg2

LEMMA NewNodeIsConsistent == NodeInv(NewNode, <<>>)
<1>1. NewNode \in NodeType(<<>>)
  BY DEF NewNode, NodeType, EventIdsOf, SyncIdsOf
<1>2. Ids(NewNode.applied) = {} /\ Visited(NewNode) = {1}
  BY DEF NewNode, Ids, Visited
<1>3. SyncIdsOf(<<>>) = {}
  BY DEF SyncIdsOf
<1> QED
  BY <1>1, <1>2, <1>3
  DEF NodeInv, NewNode, NextIsNew, Distinct, EpochClosed, SyncsExecuted,
      AppliedInEpochOrder, LogIsPrefix, CallsAreApplied

(* receive_event never moves a node back. *)
LEMMA ReceiveAdvances ==
  ASSUME NEW Step, NEW lg \in Seq(Step), NEW nd, NodeInv(nd, lg),
         NEW cid \in EventIdsOf(lg)
  PROVE  nd.next <= Receive(nd, cid, lg).next
<1>1. nd.next \in Nat
  BY NodeTypeFacts DEF NodeInv
<1>2. /\ Buffering(nd, cid) \in NodeType(lg)
      /\ Buffering(nd, cid).next = nd.next
  BY DEF NodeInv, Buffering, NodeType
<1>3. ProcessBuffer(Buffering(nd, cid), lg).next \in nd.next .. (Len(lg) + 1)
  BY <1>2, ProcessBufferEffect
<1> QED
  BY <1>1, <1>3 DEF Receive

(* What receive_event does to the buffer, the position and the ids seen,    *)
(* given that the next event is not waiting in the buffer.                  *)
LEMMA ReceiveEffect ==
  ASSUME NEW Step, NEW lg \in Seq(Step), NEW nd, NodeInv(nd, lg),
         nd.next \notin nd.buffer,
         NEW cid \in EventIdsOf(lg)
  PROVE  LET new == Receive(nd, cid, lg)
         IN  /\ new.next \in nd.next .. (Len(lg) + 1)
             /\ new.next \notin new.buffer
             /\ cid < nd.next => new = nd
             /\ cid > nd.next => /\ new.next = nd.next
                                /\ new.buffer = nd.buffer \cup {cid}
                                /\ ~ReceiveRaises(nd, cid, lg)
             /\ cid = nd.next /\ ~ReceiveRaises(nd, cid, lg) => nd.next < new.next
             /\ ReceiveRaises(nd, cid, lg) => \E k \in EventIdsOf(lg) : Raises(lg[k])
<1> DEFINE mid == Buffering(nd, cid)
           stop == DrainStop(mid, lg)
           new == Receive(nd, cid, lg)
<1>1. /\ nd \in NodeType(lg) /\ Len(lg) \in Nat
      /\ nd.next \in 1 .. (Len(lg) + 1)
      /\ nd.buffer \subseteq EventIdsOf(lg) /\ EventIdsOf(lg) \subseteq 1 .. Len(lg)
  BY NodeTypeFacts DEF NodeInv
<1>2. /\ mid.next = nd.next /\ mid.buffer = nd.buffer \cup {cid}
      /\ mid \in NodeType(lg)
  BY <1>1 DEF NodeType, Buffering
<1>3. /\ stop \in nd.next .. (Len(lg) + 1)
      /\ stop \notin nd.buffer \cup {cid} \/ Raises(lg[stop])
      /\ \A j \in nd.next .. (stop - 1) : j \in nd.buffer \cup {cid}
  <2>1. mid.next \in 1 .. (Len(lg) + 1) /\ mid.buffer \subseteq 1 .. Len(lg)
    BY <1>1, <1>2
  <2> QED
    BY <1>1, <1>2, <2>1, DrainStops
<1>4. /\ ProcessBuffer(mid, lg).next = stop
      /\ ProcessBuffer(mid, lg).buffer = (nd.buffer \cup {cid}) \ (nd.next .. stop)
  BY <1>1, <1>2, <1>3 DEF ProcessBuffer, NodeType
<1>5. CASE cid < nd.next
  BY <1>1, <1>5 DEF Receive, ReceiveRaises
<1>6. CASE cid >= nd.next
  <2>1. new.next = stop /\ new.buffer = (nd.buffer \cup {cid}) \ (nd.next .. stop)
    BY <1>1, <1>4, <1>6 DEF Receive
  <2>2. ReceiveRaises(nd, cid, lg) <=> stop \in nd.buffer \cup {cid}
    BY <1>6 DEF ReceiveRaises
  <2>3. CASE cid > nd.next
    <3>1. stop = nd.next
      BY <2>3, <1>1, <1>3
    <3>2. (nd.buffer \cup {cid}) \ (nd.next .. stop) = nd.buffer \cup {cid}
      BY <3>1, <2>3, <1>1
    <3> QED
      BY <2>1, <2>2, <2>3, <3>1, <3>2, <1>1
  <2>4. CASE cid = nd.next
    BY <2>1, <2>2, <2>4, <1>1, <1>3
  <2> QED
    BY <2>3, <2>4, <1>1, <1>6
<1> QED
  BY <1>1, <1>5, <1>6

(* What a node has been given and still knows of. *)
Seen(nd) == Ids(nd.applied) \cup nd.buffer \cup Ids(nd.calls)

LEMMA ConcatIds ==
  ASSUME NEW S, NEW s \in Seq(S), NEW t \in Seq(S)
  PROVE  Ids(s) \cup Ids(t) \subseteq Ids(s \o t)
<1>1. ASSUME NEW i \in DOMAIN s PROVE s[i] \in Ids(s \o t)
  <2>1. i \in DOMAIN (s \o t) /\ (s \o t)[i] = s[i]
    OBVIOUS
  <2> QED
    BY <2>1 DEF Ids
<1>2. ASSUME NEW i \in DOMAIN t PROVE t[i] \in Ids(s \o t)
  <2>1. Len(s) + i \in DOMAIN (s \o t) /\ (s \o t)[Len(s) + i] = t[i]
    OBVIOUS
  <2> QED
    BY <2>1 DEF Ids
<1> QED
  BY <1>1, <1>2 DEF Ids

LEMMA IntervalIds ==
  ASSUME NEW a \in Nat, NEW b \in Int, a <= b + 1
  PROVE  a .. b \subseteq Ids(Interval(a, b)) /\ Interval(a, b) \in Seq(Int)
<1>1. ASSUME NEW k \in a .. b PROVE k \in Ids(Interval(a, b))
  <2>1. k - a + 1 \in DOMAIN Interval(a, b) /\ Interval(a, b)[k - a + 1] = k
    BY DEF Interval
  <2> QED
    BY <2>1 DEF Ids
<1> QED
  BY <1>1 DEF Interval

(* receive_event forgets nothing: what leaves the buffer is applied, or was *)
(* handed to the adapter, which raised.                                     *)
LEMMA ReceiveKeepsSeen ==
  ASSUME NEW Step, NEW lg \in Seq(Step), NEW nd, NodeInv(nd, lg),
         NEW cid \in EventIdsOf(lg)
  PROVE  /\ Seen(nd) \subseteq Seen(Receive(nd, cid, lg))
         /\ cid >= nd.next => cid \in Seen(Receive(nd, cid, lg))
<1> DEFINE mid == Buffering(nd, cid)
           stop == DrainStop(mid, lg)
           tried == IF stop \in mid.buffer THEN stop ELSE stop - 1
           new == ProcessBuffer(mid, lg)
<1>1. /\ nd \in NodeType(lg) /\ Len(lg) \in Nat
      /\ nd.next \in 1 .. (Len(lg) + 1)
      /\ nd.buffer \subseteq EventIdsOf(lg) /\ EventIdsOf(lg) \subseteq 1 .. Len(lg)
      /\ nd.applied \in Seq(Int) /\ nd.calls \in Seq(Int)
  <2>1. /\ nd \in NodeType(lg) /\ Len(lg) \in Nat
        /\ nd.next \in 1 .. (Len(lg) + 1)
        /\ nd.buffer \subseteq EventIdsOf(lg) /\ EventIdsOf(lg) \subseteq 1 .. Len(lg)
        /\ nd.applied \in Seq(EventIdsOf(lg)) /\ nd.calls \in Seq(EventIdsOf(lg))
    BY NodeTypeFacts DEF NodeInv
  <2>2. Seq(EventIdsOf(lg)) \subseteq Seq(Int)
    BY <2>1
  <2> QED
    BY <2>1, <2>2
<1>2. /\ mid.next = nd.next /\ mid.buffer = nd.buffer \cup {cid}
      /\ mid.applied = nd.applied /\ mid.calls = nd.calls
      /\ mid \in NodeType(lg)
  BY <1>1 DEF NodeType, Buffering
<1>3. stop \in nd.next .. (Len(lg) + 1)
  <2>1. mid.next \in 1 .. (Len(lg) + 1) /\ mid.buffer \subseteq 1 .. Len(lg)
    BY <1>1, <1>2
  <2> QED
    BY <1>1, <1>2, <2>1, DrainStops
<1>4. /\ new.buffer = (nd.buffer \cup {cid}) \ (nd.next .. stop)
      /\ new.applied = nd.applied \o Interval(nd.next, stop - 1)
      /\ new.calls = nd.calls \o Interval(nd.next, tried)
  BY <1>1, <1>2 DEF ProcessBuffer, NodeType
<1>5. tried \in {stop, stop - 1} /\ (stop \in nd.buffer \cup {cid} => tried = stop)
  BY <1>2
<1> HIDE DEF mid, stop, tried, new
<1>6. /\ Ids(nd.applied) \cup (nd.next .. (stop - 1)) \subseteq Ids(new.applied)
      /\ Ids(nd.calls) \cup (nd.next .. tried) \subseteq Ids(new.calls)
  <2>1. /\ stop - 1 \in Int /\ tried \in Int /\ nd.next \in Nat
        /\ nd.next <= (stop - 1) + 1 /\ nd.next <= tried + 1
    BY <1>1, <1>3, <1>5
  <2>2. /\ nd.next .. (stop - 1) \subseteq Ids(Interval(nd.next, stop - 1))
        /\ nd.next .. tried \subseteq Ids(Interval(nd.next, tried))
        /\ Interval(nd.next, stop - 1) \in Seq(Int)
        /\ Interval(nd.next, tried) \in Seq(Int)
    BY <2>1, IntervalIds
  <2> QED
    BY <1>1, <1>4, <2>2, ConcatIds
<1>7. ASSUME NEW k \in nd.buffer \cup {cid}
      PROVE  k \in Seen(new)
  <2>1. CASE k \in nd.next .. stop
    <3>1. k \in nd.next .. (stop - 1) \/ k = stop
      BY <2>1, <1>1, <1>3
    <3>2. k = stop => k \in nd.next .. tried
      BY <1>1, <1>3, <1>5, <1>7
    <3> QED
      BY <3>1, <3>2, <1>6 DEF Seen
  <2>2. CASE k \notin nd.next .. stop
    BY <2>2, <1>4, <1>7 DEF Seen
  <2> QED
    BY <2>1, <2>2
<1>8. Seen(nd) \subseteq Seen(new) /\ cid \in Seen(new)
  BY <1>6, <1>7 DEF Seen
<1> QED
  BY <1>1, <1>8 DEF Receive, new, mid

(* The adapter of a node is called with the payloads of its log, when no    *)
(* event raises: they are the start of the hub's log.                       *)
LEMMA CallsArePrefix ==
  ASSUME NEW Step, SYNC \notin Step, NEW lg \in Seq(Step), NEW nd, NodeInv(nd, lg),
         \A k \in DOMAIN lg : ~Raises(lg[k])
  PROVE  CallPayloads(nd, lg) = [i \in 1 .. Committed(nd) |-> lg[i]]
<1>1. /\ nd.next \in 1 .. (Len(lg) + 1) /\ Len(lg) \in Nat
      /\ DOMAIN lg = 1 .. Len(lg)
      /\ DOMAIN nd.applied = 1 .. Len(nd.applied)
  BY NodeTypeFacts DEF NodeInv
<1>2. \A i \in 1 .. Len(lg) : lg[i] \in Step
  BY ElementOfSeq
<1>3. SyncIdsOf(lg) = {}
  BY <1>1, <1>2 DEF SyncIdsOf
<1>4. Len(nd.applied) = nd.next - 1 /\ \A i \in 1 .. (nd.next - 1) : nd.applied[i] = i
  BY <1>3 DEF NodeInv, LogIsPrefix
<1>5. nd.calls = nd.applied
  BY DEF NodeInv, CallsAreApplied, EventIdsOf
<1> QED
  BY <1>1, <1>4, <1>5 DEF CallPayloads, Committed

(* Without a SYNC, the local log is the hub's log up to the committed id. *)
LEMMA LocalLogIsPrefix ==
  ASSUME NEW Step, SYNC \notin Step, NEW lg \in Seq(Step), NEW nd, NodeInv(nd, lg)
  PROVE  /\ LocalLog(nd, lg) \in Seq(Step)
         /\ nd.next - 1 \in 0 .. Len(lg)
         /\ Len(LocalLog(nd, lg)) = nd.next - 1
         /\ \A i \in 1 .. (nd.next - 1) : LocalLog(nd, lg)[i] = lg[i]
<1>1. /\ nd.next \in 1 .. (Len(lg) + 1) /\ Len(lg) \in Nat
      /\ DOMAIN lg = 1 .. Len(lg)
      /\ DOMAIN nd.applied = 1 .. Len(nd.applied)
  BY NodeTypeFacts DEF NodeInv
<1>2. \A i \in 1 .. Len(lg) : lg[i] \in Step
  BY ElementOfSeq
<1>3. SyncIdsOf(lg) = {}
  BY <1>1, <1>2 DEF SyncIdsOf
<1>4. Len(nd.applied) = nd.next - 1 /\ \A i \in 1 .. (nd.next - 1) : nd.applied[i] = i
  BY <1>3 DEF NodeInv, LogIsPrefix
<1>5. LocalLog(nd, lg) = [i \in 1 .. (nd.next - 1) |-> lg[i]]
  BY <1>1, <1>4 DEF LocalLog
<1> QED
  BY <1>1, <1>2, <1>5
=============================================================================
