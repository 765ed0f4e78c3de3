---------------------- MODULE QuantumFoundationProofs ----------------------
(***************************************************************************)
(* The engines and layers of the foundation keep their types, only strict  *)
(* events precede strict evolutions, seals hold, collapses stay, and the   *)
(* timeline and the error model account for what the engines did.          *)
(***************************************************************************)
EXTENDS QuantumFoundation, SequenceTheorems, FiniteSetTheorems, NaturalsInduction,
        WellFoundedInduction, TLAPS

Height == Len(timeline)

(* The no-go layer expects what follows its own last event, and its first   *)
(* event follows GENESIS.                                                   *)
Expectation ==
  /\ expected \in 2 .. Height + 1
  /\ expected = 2 \/ timeline[expected - 1].type \in StrictTypes

(* The history begins with GENESIS.                                         *)
Beginning == 1 \in DOMAIN timeline /\ timeline[1].type = "GENESIS"

(* The marker placed last seals most.                                       *)
Boundary ==
  \A m \in DOMAIN markers : markers[m].upTo <= sealed /\ markers[m].at <= Height

(* A collapse of the timeline is in the log of the collapse engine.         *)
Pointers ==
  \A i \in DOMAIN timeline :
    timeline[i].type = "MEASUREMENT_COLLAPSE" => timeline[i].collapse \in DOMAIN collapses

Unmoved(i) ==
  /\ timeline[i].type = "MEASUREMENT_COLLAPSE"
  /\ \A j \in DOMAIN timeline : j > i => timeline[j].type \notin Moves

(* Until something moves them, both states of the error layer are the one   *)
(* that its measurement left: a correction has nothing to restore.          *)
Settled ==
  \A i \in DOMAIN timeline : Unmoved(i) =>
    /\ physical = Basis(collapses[timeline[i].collapse].outcome)
    /\ ideal = physical

Events ==
  [type : EventTypes, rule : Rules \cup {NoRule}, collapse : Nat, target : Nat,
   is_compensation : BOOLEAN]

Markers == [upTo : Nat, at : Nat]

CollapseRecords == [of : States, outcome : Outcomes, token : Tokens, loss : Nat]

Inv ==
  /\ TypeOK
  /\ Beginning
  /\ Expectation
  /\ StrictHistory
  /\ Boundary
  /\ SealsHold
  /\ Pointers
  /\ Settled

(* The three kinds of steps: those that seal, those that record an event,   *)
(* and those that do neither.                                               *)
CollapsesGrow ==
  collapses' = collapses \/ \E c \in CollapseRecords : collapses' = Append(collapses, c)

Quiet ==
  /\ CollapsesGrow
  /\ UNCHANGED <<timeline, seals, ideal, physical, expected>>

Sealing(id) ==
  /\ id \in DOMAIN timeline
  /\ id > sealed
  /\ markers' = Append(markers, [upTo |-> id, at |-> Len(timeline)])
  /\ sealed' = id
  /\ UNCHANGED <<timeline, collapses, ideal, physical, expected>>

(* What an event says of the no-go layer, of the error layer, of its seal.  *)
Expected(e) ==
  \/ /\ e.type \in StrictTypes
     /\ expected' = Len(timeline) + 2
     /\ e.type = "STRICT_EVOLUTION" => expected = Len(timeline) + 1
  \/ e.type \notin StrictTypes /\ expected' = expected

Moved(e) ==
  \/ /\ e.type \notin Moves
     /\ ideal' = ideal
     /\ physical' \in {physical, ideal}
  \/ e.type \in Moves \ {"MEASUREMENT_COLLAPSE"}
  \/ /\ e.type = "MEASUREMENT_COLLAPSE"
     /\ e.collapse = Len(collapses) + 1
     /\ \E c \in CollapseRecords :
          /\ collapses' = Append(collapses, c)
          /\ physical' = Basis(c.outcome)
          /\ ideal' = physical'

Recording(e) ==
  /\ timeline' = Append(timeline, e)
  /\ UNCHANGED seals
  /\ e.type = "COMPENSATION" => e.target > sealed
  /\ CollapsesGrow
  /\ Expected(e)
  /\ Moved(e)

LEMMA HistoryAppend ==
  ASSUME NEW ds \in Histories, NEW r \in Rules, Len(ds) < MaxDeltas
  PROVE  Append(ds, r) \in Histories
<1>1. PICK n \in 0 .. MaxDeltas : ds \in [1 .. n -> Rules]
  BY DEF Histories
<1>2. n \in Nat /\ ds \in Seq(Rules) /\ Len(ds) = n
  BY <1>1
<1>3. Append(ds, r) \in [1 .. n + 1 -> Rules]
  <2>1. /\ Append(ds, r) \in Seq(Rules)
        /\ Len(Append(ds, r)) = n + 1
    BY <1>2
  <2>2. PICK m \in Nat : Append(ds, r) \in [1 .. m -> Rules]
    <3>1. Append(ds, r) \in UNION {[1 .. m -> Rules] : m \in Nat}
      BY <2>1, SeqDef, Zenon
    <3> QED BY <3>1
  <2>3. m = n + 1
    BY <2>1, <2>2
  <2> QED BY <2>2, <2>3
<1>4. n + 1 \in 0 .. MaxDeltas
  BY <1>2, FoundationAssumption
<1> QED BY <1>3, <1>4 DEF Histories

LEMMA HistoryTypes ==
  ASSUME NEW ds \in Histories
  PROVE  ds \in Seq(Rules) /\ Len(ds) \in Nat
<1>1. PICK n \in 0 .. MaxDeltas : ds \in [1 .. n -> Rules]
  BY DEF Histories
<1> QED BY <1>1

LEMMA StateTypes ==
  /\ \A ds \in Histories : Evolved(ds) \in States /\ Loss(Evolved(ds)) \in Nat
  /\ \A o \in Outcomes : Basis(o) \in States
  /\ \A s \in States : WithPhaseError(s, TRUE) \in States /\ WithPhaseError(s, FALSE) \in States
<1>1. <<>> \in Histories
  <2>1. 0 \in 0 .. MaxDeltas
    BY FoundationAssumption
  <2>2. <<>> \in [1 .. 0 -> Rules]
    OBVIOUS
  <2> QED BY <2>1, <2>2 DEF Histories
<1> QED BY <1>1, FoundationAssumption DEF Evolved, Basis, WithPhaseError, States

LEMMA EventTypesHold ==
  /\ \A type \in EventTypes : Event(type) \in Events /\ Event(type).type = type
  /\ \A type \in EventTypes, r \in Rules :
       Evolution(type, r) \in Events /\ Evolution(type, r).type = type
  /\ \A id \in Nat :
       LET e == [Event("COMPENSATION") EXCEPT !.target = id, !.is_compensation = TRUE]
       IN  e \in Events /\ e.type = "COMPENSATION" /\ e.target = id
  /\ LET e == [Event("CORRECTION") EXCEPT !.is_compensation = TRUE]
     IN  e \in Events /\ e.type = "CORRECTION"
BY DEF Event, Evolution, Events, EventTypes, EvolutionTypes, CollapseTypes

LEMMA CollapseEventTypes ==
  ASSUME TypeOK, NEW type \in CollapseTypes
  PROVE  /\ CollapseEvent(type) \in Events
         /\ CollapseEvent(type).type = type
         /\ CollapseEvent(type).collapse = Len(collapses) + 1
<1>1. Len(collapses) + 1 \in Nat
  BY DEF TypeOK
<1> QED BY <1>1 DEF CollapseEvent, Event, Events, EventTypes

(* What a collapse adds to the log of the collapse engine.                  *)
LEMMA CollapseAppends ==
  ASSUME TypeOK, NEW s \in States, NEW token \in Tokens, NEW outcome \in Outcomes,
         Collapse(s, token, outcome)
  PROVE  \E c \in CollapseRecords :
           collapses' = Append(collapses, c) /\ c.outcome = outcome /\ c.loss = Loss(s)
<1> DEFINE c == [of |-> s, outcome |-> outcome, token |-> token, loss |-> Loss(s)]
<1>1. c \in CollapseRecords /\ c.outcome = outcome /\ c.loss = Loss(s)
  BY FoundationAssumption DEF CollapseRecords
<1>2. collapses' = Append(collapses, c)
  BY DEF Collapse
<1> QED BY <1>1, <1>2

(* Every step is of one of the three kinds.                                 *)
LEMMA Steps ==
  ASSUME TypeOK, Next
  PROVE  Quiet \/ (\E id \in Nat : Sealing(id)) \/ (\E e \in Events : Recording(e))
<1> USE DEF seals, engines, errors
<1>t. /\ Len(timeline) \in Nat /\ Len(collapses) \in Nat
      /\ DOMAIN timeline = 1 .. Len(timeline)
      /\ Evolved(deltas) \in States /\ physical \in States
  BY StateTypes DEF TypeOK
<1>1. ASSUME NEW r \in Rules, RegisterRule(r) PROVE Quiet
  BY <1>1 DEF RegisterRule, Quiet, CollapsesGrow
<1>2. ASSUME NEW r \in Rules, Evolve(r) PROVE Recording(Evolution("STATE_DELTA", r))
  <2>1. Evolution("STATE_DELTA", r).type = "STATE_DELTA"
    BY DEF Evolution, Event
  <2> QED BY <1>2, <2>1 DEF Evolve, Observe, Record, Recording, CollapsesGrow, Expected, Moved,
        Moves, StrictTypes
<1>3. ASSUME NEW r \in Rules, NEW noisy \in BOOLEAN, EvolveWithNoise(r, noisy)
      PROVE  Recording(Evolution("NOISY_EVOLUTION", r))
  <2>1. Evolution("NOISY_EVOLUTION", r).type = "NOISY_EVOLUTION"
    BY DEF Evolution, Event
  <2>2. UNCHANGED <<collapses, seals, expected>>
    BY <1>3 DEF EvolveWithNoise, Observe
  <2>3. timeline' = Append(timeline, Evolution("NOISY_EVOLUTION", r))
    BY <1>3 DEF EvolveWithNoise, Record
  <2> QED BY <2>1, <2>2, <2>3 DEF Recording, CollapsesGrow, Expected, Moved, Moves, StrictTypes
<1>4. ASSUME NEW r \in Rules, StrictEvolution(r) PROVE Recording(Evolution("STRICT_EVOLUTION", r))
  <2>1. Len(timeline') + 1 = Len(timeline) + 2
    BY <1>4, <1>t DEF StrictEvolution, Record, TypeOK
  <2>2. Evolution("STRICT_EVOLUTION", r).type = "STRICT_EVOLUTION"
    BY DEF Evolution, Event
  <2>3. UNCHANGED <<collapses, seals>> /\ expected = Len(timeline) + 1
    BY <1>4 DEF StrictEvolution, Observe, Linear
  <2>4. timeline' = Append(timeline, Evolution("STRICT_EVOLUTION", r)) /\ expected' = Len(timeline') + 1
    BY <1>4 DEF StrictEvolution, Record
  <2> QED BY <2>1, <2>2, <2>3, <2>4 DEF Recording, CollapsesGrow, Expected, Moved, Moves, StrictTypes
<1>5. ASSUME NEW r \in Rules, EvolveStrictlyWithNoise(r) PROVE Quiet
  BY <1>5 DEF EvolveStrictlyWithNoise, Observe, Quiet, CollapsesGrow
<1>6. ASSUME NEW token \in Tokens, NEW outcome \in Outcomes, Measure(token, outcome)
      PROVE  Recording(CollapseEvent("COLLAPSE"))
  <2>1. CollapsesGrow
    BY <1>6, <1>t, CollapseAppends DEF Measure, CollapsesGrow
  <2> QED BY <1>6, <2>1, CollapseEventTypes DEF Measure, Record, Recording, Expected, Moved, Moves,
        StrictTypes, CollapseTypes
<1>7. ASSUME NEW token \in Tokens, NEW outcome \in Outcomes, MeasureWithDisturbance(token, outcome)
      PROVE  Recording(CollapseEvent("MEASUREMENT_COLLAPSE"))
  <2>1. PICK c \in CollapseRecords : collapses' = Append(collapses, c) /\ c.outcome = outcome
    BY <1>7, <1>t, CollapseAppends DEF MeasureWithDisturbance
  <2>2. CollapsesGrow
    BY <2>1 DEF CollapsesGrow
  <2>3. Moved(CollapseEvent("MEASUREMENT_COLLAPSE"))
    BY <1>7, <2>1, CollapseEventTypes DEF MeasureWithDisturbance, Moved, CollapseTypes
  <2> QED BY <1>7, <2>2, <2>3, CollapseEventTypes DEF MeasureWithDisturbance, Record, Recording,
        Expected, StrictTypes, CollapseTypes
<1>8. ASSUME NEW token \in Tokens, NEW outcome \in Outcomes, RefusedMeasurement(token, outcome)
      PROVE  Quiet
  <2>1. CollapsesGrow
    BY <1>8, <1>t, CollapseAppends DEF RefusedMeasurement, CollapsesGrow
  <2> QED BY <1>8, <2>1 DEF RefusedMeasurement, Quiet
<1>9. ASSUME NEW token \in Tokens, NEW outcome \in Outcomes, StrictMeasurement(token, outcome)
      PROVE  Recording(CollapseEvent("STRICT_COLLAPSE"))
  <2>1. CollapsesGrow
    BY <1>9, <1>t, CollapseAppends DEF StrictMeasurement, CollapsesGrow
  <2>2. Len(timeline') + 1 = Len(timeline) + 2
    BY <1>9, <1>t DEF StrictMeasurement, Record, TypeOK
  <2> QED BY <1>9, <2>1, <2>2, CollapseEventTypes DEF StrictMeasurement, Record, Recording,
        Expected, Moved, Moves, StrictTypes, CollapseTypes
<1>10. ASSUME NEW id \in DOMAIN timeline, Seal(id) PROVE Sealing(id)
  BY <1>10 DEF Seal, Sealing
<1>11. ASSUME NEW id \in DOMAIN timeline, Compensate(id)
       PROVE  Recording([Event("COMPENSATION") EXCEPT !.target = id, !.is_compensation = TRUE])
  <2>1. id \in Nat
    BY <1>t
  <2> QED BY <1>11, <2>1, EventTypesHold DEF Compensate, Record, Recording, CollapsesGrow, Expected,
        Moved, Moves, StrictTypes
<1>12. ASSUME NEW trusted \in BOOLEAN, ApplySyndromeCorrection(trusted)
       PROVE  Recording([Event("CORRECTION") EXCEPT !.is_compensation = TRUE])
  BY <1>12, EventTypesHold DEF ApplySyndromeCorrection, Record, Recording, CollapsesGrow, Expected,
     Moved, Moves, StrictTypes
<1>e. /\ \A r \in Rules : /\ Evolution("STATE_DELTA", r) \in Events
                         /\ Evolution("NOISY_EVOLUTION", r) \in Events
                         /\ Evolution("STRICT_EVOLUTION", r) \in Events
      /\ \A type \in CollapseTypes : CollapseEvent(type) \in Events
      /\ \A id \in Nat : [Event("COMPENSATION") EXCEPT !.target = id, !.is_compensation = TRUE] \in Events
      /\ [Event("CORRECTION") EXCEPT !.is_compensation = TRUE] \in Events
  BY EventTypesHold, CollapseEventTypes DEF EventTypes, EvolutionTypes
<1>a. CASE \E r \in Rules :
             \/ RegisterRule(r) \/ Evolve(r) \/ \E noisy \in BOOLEAN : EvolveWithNoise(r, noisy)
             \/ EvolveStrictly(r) \/ EvolveStrictlyWithNoise(r) \/ EvolveDeterministic(r)
  BY <1>a, <1>1, <1>2, <1>3, <1>4, <1>5, <1>e DEF EvolveStrictly, EvolveDeterministic
<1>b. CASE \E token \in Tokens, outcome \in Outcomes :
             \/ Measure(token, outcome) \/ MeasureWithDisturbance(token, outcome)
             \/ RefusedMeasurement(token, outcome) \/ MeasureStrictly(token, outcome)
             \/ MeasureDeterministic(token, outcome)
  BY <1>b, <1>6, <1>7, <1>8, <1>9, <1>e DEF MeasureStrictly, MeasureDeterministic, CollapseTypes
<1>c. CASE \E id \in DOMAIN timeline : Seal(id) \/ Compensate(id)
  <2>1. PICK id \in DOMAIN timeline : Seal(id) \/ Compensate(id)
    BY <1>c
  <2>2. id \in Nat
    BY <1>t
  <2>3. CASE Seal(id)
    BY <2>2, <2>3, <1>10
  <2>4. CASE Compensate(id)
    BY <2>2, <2>4, <1>11, <1>e
  <2> QED BY <2>1, <2>3, <2>4
<1>d. CASE \E trusted \in BOOLEAN : ApplySyndromeCorrection(trusted)
  BY <1>d, <1>12, <1>e
<1> QED BY <1>a, <1>b, <1>c, <1>d DEF Next

-----------------------------------------------------------------------------
LEMMA TypesAtStart == Init => TypeOK
<1>1. /\ Evolved(<<>>) \in States
      /\ <<>> \in Histories
  <2>1. <<>> \in Histories
    <3>1. 0 \in 0 .. MaxDeltas /\ <<>> \in [1 .. 0 -> Rules]
      BY FoundationAssumption
    <3> QED BY <3>1 DEF Histories
  <2> QED BY <2>1, StateTypes
<1>2. Event("GENESIS") \in Events
  BY EventTypesHold DEF EventTypes
<1>3. Init => timeline \in Seq(Events) /\ expected \in Nat
  BY <1>2 DEF Init
<1> QED BY <1>1, <1>3 DEF Init, TypeOK, Events

(* The variables that Recording, Sealing and Quiet do not describe.         *)
OtherTypes ==
  /\ rules \subseteq Rules
  /\ deltas \in Histories
  /\ consumed \subseteq Tokens
  /\ ideal \in States
  /\ physical \in States
  /\ tracked \in Nat
  /\ lost \subseteq DOMAIN deltas

LEMMA ObserveTypes ==
  ASSUME TypeOK, NEW r \in Rules, Observe(r)
  PROVE  /\ rules' \subseteq Rules
         /\ deltas' \in Histories
         /\ consumed' \subseteq Tokens
         /\ Len(deltas') \in DOMAIN deltas'
         /\ DOMAIN deltas \subseteq DOMAIN deltas'
         /\ Evolved(deltas') \in States
<1>1. deltas \in Seq(Rules) /\ Len(deltas) \in Nat
  BY HistoryTypes DEF TypeOK
<1>2. deltas' = Append(deltas, r) /\ Len(deltas) < MaxDeltas
  BY DEF Observe
<1>3. deltas' \in Histories
  BY <1>2, HistoryAppend DEF TypeOK
<1>4. Len(deltas') \in DOMAIN deltas' /\ DOMAIN deltas \subseteq DOMAIN deltas'
  BY <1>1, <1>2
<1> QED BY <1>3, <1>4, StateTypes DEF Observe, TypeOK

LEMMA CollapseTypesHold ==
  ASSUME TypeOK, NEW s \in States, NEW token \in Tokens, NEW outcome \in Outcomes,
         Collapse(s, token, outcome)
  PROVE  /\ rules' \subseteq Rules
         /\ deltas' = deltas
         /\ consumed' \subseteq Tokens
         /\ Basis(outcome) \in States
         /\ tracked + Loss(s) \in Nat
BY StateTypes, FoundationAssumption DEF Collapse, TypeOK

LEMMA OtherTypesKept ==
  ASSUME TypeOK, Next
  PROVE  OtherTypes'
<1> USE DEF seals, engines, errors
<1>o. OtherTypes
  BY DEF OtherTypes, TypeOK
<1>t. Evolved(deltas) \in States /\ physical \in States /\ ideal \in States
  BY StateTypes DEF TypeOK
<1>1. ASSUME NEW r \in Rules, RegisterRule(r) PROVE OtherTypes'
  BY <1>1, <1>o DEF RegisterRule, OtherTypes
<1>2. ASSUME NEW r \in Rules, Evolve(r) PROVE OtherTypes'
  BY <1>2, <1>o, ObserveTypes DEF Evolve, OtherTypes
<1>3. ASSUME NEW r \in Rules, NEW noisy \in BOOLEAN, EvolveWithNoise(r, noisy) PROVE OtherTypes'
  <2>1. WithPhaseError(ideal', noisy) \in States
    BY <1>3, ObserveTypes, StateTypes DEF EvolveWithNoise
  <2> QED BY <1>3, <1>o, <2>1, ObserveTypes DEF EvolveWithNoise, OtherTypes
<1>4. ASSUME NEW r \in Rules, EvolveStrictly(r) \/ EvolveDeterministic(r) PROVE OtherTypes'
  BY <1>4, <1>o, ObserveTypes DEF EvolveStrictly, EvolveDeterministic, StrictEvolution, OtherTypes
<1>5. ASSUME NEW r \in Rules, EvolveStrictlyWithNoise(r) PROVE OtherTypes'
  BY <1>5, <1>o, ObserveTypes DEF EvolveStrictlyWithNoise, OtherTypes
<1>6. ASSUME NEW token \in Tokens, NEW outcome \in Outcomes,
             Measure(token, outcome) \/ RefusedMeasurement(token, outcome)
      PROVE  OtherTypes'
  BY <1>6, <1>o, <1>t, CollapseTypesHold DEF Measure, RefusedMeasurement, OtherTypes
<1>7. ASSUME NEW token \in Tokens, NEW outcome \in Outcomes, MeasureWithDisturbance(token, outcome)
      PROVE  OtherTypes'
  BY <1>7, <1>o, <1>t, CollapseTypesHold DEF MeasureWithDisturbance, OtherTypes
<1>8. ASSUME NEW token \in Tokens, NEW outcome \in Outcomes,
             MeasureStrictly(token, outcome) \/ MeasureDeterministic(token, outcome)
      PROVE  OtherTypes'
  BY <1>8, <1>o, <1>t, CollapseTypesHold DEF MeasureStrictly, MeasureDeterministic, StrictMeasurement,
     OtherTypes
<1>9. ASSUME NEW id \in DOMAIN timeline, Seal(id) \/ Compensate(id) PROVE OtherTypes'
  BY <1>9, <1>o DEF Seal, Compensate, OtherTypes
<1>10. ASSUME NEW trusted \in BOOLEAN, ApplySyndromeCorrection(trusted) PROVE OtherTypes'
  BY <1>10, <1>o DEF ApplySyndromeCorrection, OtherTypes
<1> QED BY <1>1, <1>2, <1>3, <1>4, <1>5, <1>6, <1>7, <1>8, <1>9, <1>10 DEF Next

LEMMA TypesKept ==
  ASSUME TypeOK, Next
  PROVE  TypeOK'
<1> USE DEF seals
<1>1. OtherTypes'
  BY OtherTypesKept
<1>2. /\ timeline \in Seq(Events) /\ collapses \in Seq(CollapseRecords)
      /\ markers \in Seq([upTo : Nat, at : Nat])
      /\ Len(timeline) \in Nat /\ sealed \in Nat \cup {-1} /\ expected \in Nat
  BY DEF TypeOK, Events, CollapseRecords
<1>3. collapses' \in Seq(CollapseRecords)
  <2>1. CollapsesGrow
    BY Steps DEF Quiet, Sealing, Recording, CollapsesGrow
  <2>2. ASSUME NEW c \in CollapseRecords, collapses' = Append(collapses, c)
        PROVE  collapses' \in Seq(CollapseRecords)
    BY <1>2, <2>2
  <2> QED BY <1>2, <2>1, <2>2 DEF CollapsesGrow
<1>4. CASE Quiet
  BY <1>1, <1>2, <1>3, <1>4 DEF Quiet, OtherTypes, TypeOK, Events, CollapseRecords
<1>5. ASSUME NEW id \in Nat, Sealing(id) PROVE TypeOK'
  <2>1. markers' \in Seq([upTo : Nat, at : Nat])
    BY <1>2, <1>5 DEF Sealing
  <2> QED BY <1>1, <1>2, <1>3, <1>5, <2>1 DEF Sealing, OtherTypes, TypeOK, Events, CollapseRecords
<1>6. ASSUME NEW e \in Events, Recording(e) PROVE TypeOK'
  <2>1. timeline' \in Seq(Events)
    BY <1>2, <1>6 DEF Recording
  <2>2. expected' \in Nat
    BY <1>2, <1>6 DEF Recording, Expected
  <2> QED BY <1>1, <1>2, <1>3, <1>6, <2>1, <2>2 DEF Recording, OtherTypes, TypeOK, Events, CollapseRecords
<1> QED BY <1>4, <1>5, <1>6, Steps

-----------------------------------------------------------------------------
(* Lengths and positions, as the proofs below need them.                    *)
LEMMA Lengths ==
  ASSUME TypeOK
  PROVE  /\ Len(timeline) \in Nat /\ DOMAIN timeline = 1 .. Len(timeline)
         /\ Len(markers) \in Nat /\ DOMAIN markers = 1 .. Len(markers)
         /\ Len(collapses) \in Nat /\ DOMAIN collapses = 1 .. Len(collapses)
         /\ expected \in Nat /\ sealed \in Int
         /\ \A m \in DOMAIN markers : markers[m].upTo \in Nat /\ markers[m].at \in Nat
         /\ \A i \in DOMAIN timeline : timeline[i].target \in Nat
<1>1. timeline \in Seq(Events) /\ collapses \in Seq(CollapseRecords)
      /\ markers \in Seq(Markers)
  BY DEF TypeOK, Events, CollapseRecords, Markers
<1>2. \A i \in DOMAIN timeline : timeline[i].target \in Nat
  <2>1. \A i \in DOMAIN timeline : timeline[i] \in Events
    BY <1>1
  <2> QED BY <2>1 DEF Events
<1>3. \A m \in DOMAIN markers : markers[m].upTo \in Nat /\ markers[m].at \in Nat
  <2>1. \A m \in DOMAIN markers : markers[m] \in Markers
    BY <1>1
  <2> QED BY <2>1 DEF Markers
<1>4. expected \in Nat /\ sealed \in Int
  BY DEF TypeOK
<1> QED BY <1>1, <1>2, <1>3, <1>4

LEMMA TimelineGrows ==
  ASSUME TypeOK, NEW e, timeline' = Append(timeline, e)
  PROVE  /\ Len(timeline') = Len(timeline) + 1
         /\ DOMAIN timeline' = 1 .. Len(timeline) + 1
         /\ \A i \in DOMAIN timeline : i \in DOMAIN timeline' /\ timeline'[i] = timeline[i]
         /\ timeline'[Len(timeline) + 1] = e
BY DEF TypeOK

LEMMA CollapsesGrowEffect ==
  ASSUME TypeOK, CollapsesGrow
  PROVE  \A c \in DOMAIN collapses : c \in DOMAIN collapses' /\ collapses'[c] = collapses[c]
<1>1. collapses \in Seq(CollapseRecords)
  BY DEF TypeOK, CollapseRecords
<1>2. CASE collapses' = collapses
  BY <1>2
<1>3. ASSUME NEW c \in CollapseRecords, collapses' = Append(collapses, c)
      PROVE  \A d \in DOMAIN collapses : d \in DOMAIN collapses' /\ collapses'[d] = collapses[d]
  BY <1>1, <1>3
<1> QED BY <1>2, <1>3 DEF CollapsesGrow

LEMMA ExpectationKept ==
  ASSUME TypeOK, Beginning, Expectation, StrictHistory, Next
  PROVE  Expectation' /\ StrictHistory'
<1> USE DEF seals
<1>1. CASE UNCHANGED <<timeline, expected>>
  BY <1>1 DEF Expectation, StrictHistory, Height
<1>2. ASSUME NEW e \in Events, Recording(e) PROVE Expectation' /\ StrictHistory'
  <2>t. timeline' = Append(timeline, e)
    BY <1>2 DEF Recording
  <2>1. CASE e.type \in StrictTypes
    <3>1. expected' = Len(timeline) + 2 /\ (e.type = "STRICT_EVOLUTION" => expected = Len(timeline) + 1)
      BY <1>2, <2>1 DEF Recording, Expected
    <3>2. Expectation'
      <4>1. expected' \in 2 .. Len(timeline') + 1
        BY <2>t, <3>1, Lengths, TimelineGrows
      <4>2. timeline'[expected' - 1] = e
        <5>1. expected' - 1 = Len(timeline) + 1
          BY <3>1, Lengths
        <5> QED BY <2>t, <5>1, TimelineGrows
      <4> QED BY <2>1, <4>1, <4>2 DEF Expectation, Height
    <3>3. ASSUME NEW i \in DOMAIN timeline', timeline'[i].type = "STRICT_EVOLUTION"
          PROVE  i = 2 \/ timeline'[i - 1].type \in StrictTypes
      <4>1. CASE i \in DOMAIN timeline
        <5>1. i = 2 \/ timeline[i - 1].type \in StrictTypes
          BY <2>t, <3>3, <4>1, TimelineGrows DEF StrictHistory
        <5>2. CASE i # 1
          <6>1. i - 1 \in DOMAIN timeline
            BY <4>1, <5>2, Lengths
          <6> QED BY <2>t, <5>1, <6>1, TimelineGrows
        <5>3. i # 1
          BY <2>t, <3>3, TimelineGrows DEF Beginning
        <5> QED BY <5>2, <5>3
      <4>2. CASE i = Len(timeline) + 1
        <5>1. e.type = "STRICT_EVOLUTION" /\ expected = i
          BY <2>t, <3>1, <3>3, <4>2, TimelineGrows
        <5>2. expected = 2 \/ timeline[expected - 1].type \in StrictTypes
          BY DEF Expectation
        <5>3. CASE i # 2
          <6>1. expected \in 2 .. Len(timeline) + 1
            BY DEF Expectation, Height
          <6>2. i - 1 \in DOMAIN timeline
            BY <5>1, <6>1, Lengths
          <6> QED BY <2>t, <5>1, <5>2, <5>3, <6>2, TimelineGrows
        <5> QED BY <5>3
      <4>3. i \in 1 .. Len(timeline) + 1 /\ DOMAIN timeline = 1 .. Len(timeline) /\ Len(timeline) \in Nat
        BY <2>t, <3>3, Lengths, TimelineGrows
      <4>4. i \in DOMAIN timeline \/ i = Len(timeline) + 1
        BY <4>3
      <4> QED BY <4>1, <4>2, <4>4
    <3> QED BY <3>2, <3>3 DEF StrictHistory
  <2>2. CASE e.type \notin StrictTypes
    <3>1. expected' = expected /\ e.type # "STRICT_EVOLUTION"
      BY <1>2, <2>2 DEF Recording, Expected, StrictTypes
    <3>2. Expectation'
      <4>1. expected \in 2 .. Len(timeline) + 1
        BY DEF Expectation, Height
      <4>2. expected' \in 2 .. Len(timeline') + 1
        BY <2>t, <3>1, <4>1, Lengths, TimelineGrows
      <4>3. expected - 1 \in DOMAIN timeline
        BY <4>1, Lengths
      <4> QED BY <2>t, <3>1, <4>2, <4>3, TimelineGrows DEF Expectation, Height
    <3>3. ASSUME NEW i \in DOMAIN timeline', timeline'[i].type = "STRICT_EVOLUTION"
          PROVE  i = 2 \/ timeline'[i - 1].type \in StrictTypes
      <4>1. i \in DOMAIN timeline
        BY <2>t, <3>1, <3>3, Lengths, TimelineGrows
      <4>2. i = 2 \/ timeline[i - 1].type \in StrictTypes
        BY <2>t, <3>3, <4>1, TimelineGrows DEF StrictHistory
      <4>3. CASE i # 1
        <5>1. i - 1 \in DOMAIN timeline
          BY <4>1, <4>3, Lengths
        <5> QED BY <2>t, <4>2, <5>1, TimelineGrows
      <4>4. i # 1
        BY <2>t, <3>3, TimelineGrows DEF Beginning
      <4> QED BY <4>3, <4>4
    <3> QED BY <3>2, <3>3 DEF StrictHistory
  <2> QED BY <2>1, <2>2
<1> QED BY <1>1, <1>2, Steps DEF Quiet, Sealing

LEMMA BeginningKept ==
  ASSUME TypeOK, Beginning, Next
  PROVE  Beginning'
<1>1. CASE UNCHANGED timeline
  BY <1>1 DEF Beginning
<1>2. ASSUME NEW e \in Events, Recording(e) PROVE Beginning'
  BY <1>2, TimelineGrows DEF Recording, Beginning
<1> QED BY <1>1, <1>2, Steps DEF Quiet, Sealing

LEMMA SealsKept ==
  ASSUME TypeOK, Boundary, SealsHold, Next
  PROVE  Boundary' /\ SealsHold'
<1> USE DEF seals
<1>1. CASE UNCHANGED <<timeline, markers, sealed>>
  BY <1>1 DEF Boundary, SealsHold, Height
<1>2. ASSUME NEW id \in Nat, Sealing(id) PROVE Boundary' /\ SealsHold'
  <2> DEFINE new == [upTo |-> id, at |-> Len(timeline)]
  <2>1. markers' = Append(markers, new) /\ sealed' = id /\ id > sealed /\ timeline' = timeline
    BY <1>2 DEF Sealing
  <2>2. /\ DOMAIN markers' = 1 .. Len(markers) + 1
        /\ \A m \in DOMAIN markers : markers'[m] = markers[m]
        /\ markers'[Len(markers) + 1] = new
    BY <2>1, Lengths DEF TypeOK
  <2>3. ASSUME NEW m \in DOMAIN markers'
        PROVE  markers'[m].upTo <= id /\ markers'[m].at <= Len(timeline)
    <3>1. CASE m \in DOMAIN markers
      <4>1. markers[m].upTo <= sealed /\ markers[m].at <= Len(timeline)
        BY <3>1 DEF Boundary, Height
      <4> QED BY <2>1, <2>2, <3>1, <4>1, Lengths
    <3>2. CASE m = Len(markers) + 1
      BY <2>2, <3>2, Lengths
    <3> QED BY <2>2, <2>3, <3>1, <3>2, Lengths
  <2>4. Boundary'
    BY <2>1, <2>3 DEF Boundary, Height
  <2>5. ASSUME NEW m \in DOMAIN markers', NEW i \in DOMAIN timeline, i > markers'[m].at,
               timeline[i].type = "COMPENSATION"
        PROVE  timeline[i].target > markers'[m].upTo
    <3>1. CASE m \in DOMAIN markers
      BY <2>2, <2>5, <3>1 DEF SealsHold
    <3>2. m # Len(markers) + 1
      BY <2>2, <2>5, Lengths
    <3> QED BY <2>2, <2>5, <3>1, <3>2, Lengths
  <2>6. ASSUME NEW m \in DOMAIN markers', NEW l \in 1 .. m - 1
        PROVE  markers'[l].upTo < markers'[m].upTo
    <3>1. l \in DOMAIN markers
      BY <2>2, <2>6, Lengths
    <3>2. CASE m \in DOMAIN markers
      BY <2>2, <3>1, <3>2 DEF SealsHold
    <3>3. CASE m = Len(markers) + 1
      <4>1. markers[l].upTo <= sealed
        BY <3>1 DEF Boundary
      <4> QED BY <2>1, <2>2, <3>1, <3>3, <4>1, Lengths
    <3> QED BY <2>2, <2>6, <3>2, <3>3, Lengths
  <2> QED BY <2>1, <2>4, <2>5, <2>6 DEF SealsHold
<1>3. ASSUME NEW e \in Events, Recording(e) PROVE Boundary' /\ SealsHold'
  <2>1. timeline' = Append(timeline, e) /\ markers' = markers /\ sealed' = sealed
        /\ (e.type = "COMPENSATION" => e.target > sealed)
    BY <1>3 DEF Recording
  <2>2. Boundary'
    <3>1. \A m \in DOMAIN markers : markers[m].at <= Len(timeline) + 1
      BY Lengths DEF Boundary, Height
    <3> QED BY <2>1, <3>1, TimelineGrows DEF Boundary, Height
  <2>3. ASSUME NEW m \in DOMAIN markers, NEW i \in DOMAIN timeline', i > markers[m].at,
               timeline'[i].type = "COMPENSATION"
        PROVE  timeline'[i].target > markers[m].upTo
    <3>1. CASE i \in DOMAIN timeline
      BY <2>1, <2>3, <3>1, TimelineGrows DEF SealsHold
    <3>2. CASE i = Len(timeline) + 1
      <4>1. e.target > sealed /\ timeline'[i] = e
        BY <2>1, <2>3, <3>2, TimelineGrows
      <4>2. markers[m].upTo <= sealed /\ e.target \in Nat
        BY DEF Boundary, Events
      <4> QED BY <4>1, <4>2, Lengths
    <3> QED BY <2>1, <2>3, <3>1, <3>2, Lengths, TimelineGrows
  <2> QED BY <2>1, <2>2, <2>3 DEF SealsHold
<1> QED BY <1>1, <1>2, <1>3, Steps DEF Quiet

LEMMA SettledKept ==
  ASSUME TypeOK, Pointers, Settled, Next
  PROVE  Pointers' /\ Settled'
<1>1. ASSUME UNCHANGED <<timeline, ideal, physical>>, CollapsesGrow
      PROVE  Pointers' /\ Settled'
  <2>1. Pointers'
    BY <1>1, CollapsesGrowEffect DEF Pointers
  <2>2. ASSUME NEW i \in DOMAIN timeline, Unmoved(i)
        PROVE  collapses'[timeline[i].collapse] = collapses[timeline[i].collapse]
    BY <1>1, <2>2, CollapsesGrowEffect DEF Pointers, Unmoved
  <2> QED BY <1>1, <2>1, <2>2 DEF Settled, Unmoved
<1>2. ASSUME NEW e \in Events, Recording(e) PROVE Pointers' /\ Settled'
  <2>1. timeline' = Append(timeline, e) /\ CollapsesGrow /\ Moved(e)
    BY <1>2 DEF Recording
  <2>2. ASSUME e.type = "MEASUREMENT_COLLAPSE"
        PROVE  /\ e.collapse \in DOMAIN collapses'
               /\ physical' = Basis(collapses'[e.collapse].outcome)
               /\ ideal' = physical'
    <3>1. PICK c \in CollapseRecords :
            collapses' = Append(collapses, c) /\ physical' = Basis(c.outcome) /\ ideal' = physical'
      BY <2>1, <2>2 DEF Moved, Moves
    <3>2. e.collapse = Len(collapses) + 1
      BY <2>1, <2>2 DEF Moved, Moves
    <3>3. e.collapse \in DOMAIN collapses' /\ collapses'[e.collapse] = c
      <4>1. collapses \in Seq(CollapseRecords)
        BY DEF TypeOK, CollapseRecords
      <4> QED BY <3>1, <3>2, <4>1
    <3> QED BY <3>1, <3>3
  <2>3. ASSUME NEW i \in DOMAIN timeline'
        PROVE  \/ i \in DOMAIN timeline /\ timeline'[i] = timeline[i]
               \/ i = Len(timeline) + 1 /\ timeline'[i] = e
    BY <2>1, <2>3, Lengths, TimelineGrows
  <2>4. Pointers'
    BY <2>1, <2>2, <2>3, CollapsesGrowEffect DEF Pointers
  <2>5. ASSUME NEW i \in DOMAIN timeline', Unmoved(i)'
        PROVE  /\ physical' = Basis(collapses'[timeline'[i].collapse].outcome)
               /\ ideal' = physical'
    <3>1. CASE i \in DOMAIN timeline /\ timeline'[i] = timeline[i]
      <4>1. e.type \notin Moves
        <5>1. Len(timeline) + 1 \in DOMAIN timeline' /\ Len(timeline) + 1 > i
          BY <2>1, <3>1, Lengths, TimelineGrows
        <5> QED BY <2>1, <2>5, <5>1, TimelineGrows DEF Unmoved
      <4>2. ideal' = ideal /\ physical' \in {physical, ideal}
        BY <2>1, <4>1 DEF Moved, Moves
      <4>3. Unmoved(i)
        BY <2>1, <2>5, <3>1, TimelineGrows DEF Unmoved
      <4>4. physical = Basis(collapses[timeline[i].collapse].outcome) /\ ideal = physical
        BY <3>1, <4>3 DEF Settled
      <4>5. collapses'[timeline[i].collapse] = collapses[timeline[i].collapse]
        BY <2>1, <3>1, <4>3, CollapsesGrowEffect DEF Pointers, Unmoved
      <4> QED BY <3>1, <4>2, <4>4, <4>5
    <3>2. CASE i = Len(timeline) + 1 /\ timeline'[i] = e
      BY <2>2, <2>5, <3>2 DEF Unmoved
    <3> QED BY <2>3, <3>1, <3>2
  <2> QED BY <2>4, <2>5 DEF Settled
<1> QED BY <1>1, <1>2, Steps DEF Quiet, Sealing, CollapsesGrow

-----------------------------------------------------------------------------
(* Numbers of a set, and totals of a sequence.                              *)

LEMMA RankTop ==
  ASSUME NEW n \in Nat, NEW S \in SUBSET (1 .. n)
  PROVE  /\ Cardinality(S) \in Nat /\ Cardinality(S \cup {n + 1}) = Cardinality(S) + 1
         /\ Rank(n + 1, S \cup {n + 1}) = Cardinality(S) + 1
         /\ \A i \in S : /\ Rank(i, S \cup {n + 1}) = Rank(i, S)
                         /\ Rank(i, S) \in 0 .. Cardinality(S)
<1> DEFINE T == S \cup {n + 1}
<1>1. IsFiniteSet(S) /\ n + 1 \notin S
  <2>1. IsFiniteSet(1 .. n)
    BY FS_Interval
  <2>2. IsFiniteSet(S)
    BY <2>1, FS_Subset
  <2> QED BY <2>2
<1>2. Cardinality(S) \in Nat /\ Cardinality(T) = Cardinality(S) + 1
  BY <1>1, FS_AddElement, FS_CardinalityType
<1>3. Rank(n + 1, T) = Cardinality(S) + 1
  <2>1. \A j \in T : j <= n + 1
    OBVIOUS
  <2> HIDE DEF T
  <2>2. {j \in T : j <= n + 1} = T
    BY <2>1, Zenon
  <2> QED BY <1>2, <2>2 DEF Rank
<1>4. ASSUME NEW i \in S
      PROVE  Rank(i, T) = Rank(i, S) /\ Rank(i, S) \in 0 .. Cardinality(S)
  <2>1. {j \in T : j <= i} = {j \in S : j <= i}
    BY <1>4
  <2>2. {j \in S : j <= i} \subseteq S
    OBVIOUS
  <2>3. Cardinality({j \in S : j <= i}) \in Nat /\ Cardinality({j \in S : j <= i}) <= Cardinality(S)
    BY <1>1, <2>2, FS_Subset, FS_CardinalityType
  <2> HIDE DEF T
  <2> QED BY <1>2, <2>1, <2>3 DEF Rank
<1> QED BY <1>2, <1>3, <1>4

(* The numbers of A are labelled, in their order, as those of B are.        *)
Same(A, f, B, g) ==
  /\ Cardinality(A) = Cardinality(B)
  /\ \A i \in A, j \in B : Rank(i, A) = Rank(j, B) => f[i] = g[j]

LEMMA SameGrows ==
  ASSUME NEW m \in Nat, NEW n \in Nat, NEW A \in SUBSET (1 .. m), NEW B \in SUBSET (1 .. n),
         NEW f, NEW f2, NEW g, NEW g2, Same(A, f, B, g),
         \A i \in A : f2[i] = f[i], \A j \in B : g2[j] = g[j],
         f2[m + 1] = g2[n + 1]
  PROVE  Same(A \cup {m + 1}, f2, B \cup {n + 1}, g2)
<1> DEFINE A2 == A \cup {m + 1}
           B2 == B \cup {n + 1}
           k == Cardinality(A)
<1>1. /\ k \in Nat /\ Cardinality(A2) = k + 1 /\ Rank(m + 1, A2) = k + 1
      /\ \A i \in A : Rank(i, A2) = Rank(i, A) /\ Rank(i, A) \in 0 .. k
  BY RankTop
<1>2. k = Cardinality(B)
  BY DEF Same
<1>3. /\ Cardinality(B2) = k + 1 /\ Rank(n + 1, B2) = k + 1
      /\ \A j \in B : Rank(j, B2) = Rank(j, B) /\ Rank(j, B) \in 0 .. k
  BY <1>2, RankTop
<1> HIDE DEF k
<1>4. ASSUME NEW i \in A2, NEW j \in B2, Rank(i, A2) = Rank(j, B2)
      PROVE  f2[i] = g2[j]
  <2>1. CASE i \in A /\ j \in B
    BY <1>1, <1>3, <1>4, <2>1 DEF Same
  <2>2. CASE i = m + 1 /\ j = n + 1
    BY <2>2
  <2>3. CASE i \in A /\ j = n + 1
    <3>1. Rank(i, A2) \in 0 .. k /\ Rank(j, B2) = k + 1
      BY <1>1, <1>3, <2>3
    <3> QED BY <1>1, <1>4, <3>1
  <2>4. CASE i = m + 1 /\ j \in B
    <3>1. Rank(j, B2) \in 0 .. k /\ Rank(i, A2) = k + 1
      BY <1>1, <1>3, <2>4
    <3> QED BY <1>1, <1>4, <3>1
  <2> QED BY <1>4, <2>1, <2>2, <2>3, <2>4
<1> HIDE DEF A2, B2
<1>5. Same(A2, f2, B2, g2)
  BY <1>1, <1>3, <1>4 DEF Same
<1> QED BY <1>5 DEF A2, B2

Less == {p \in Nat \X Nat : p[1] < p[2]}

(* Induction up to n: the least number that a set leaves out has no          *)
(* predecessor in it.                                                       *)
LEMMA CountingUp ==
  ASSUME NEW n \in Nat, NEW S, 0 \in S, \A i \in 1 .. n : i - 1 \in S => i \in S
  PROVE  \A i \in 0 .. n : i \in S
<1> DEFINE missing == {i \in Nat : i <= n /\ i \notin S}
<1>1. IsWellFoundedOn(Less, Nat)
  BY NatLessThanWellFounded DEF Less, OpToRel
<1>2. ASSUME missing # {} PROVE FALSE
  <2>1. missing \subseteq Nat
    OBVIOUS
  <2>2. PICK x \in missing : \A y \in missing : <<y, x>> \notin Less
    <3> HIDE DEF missing
    <3> QED BY <1>1, <1>2, <2>1, WFMin
  <2>3. x \in Nat /\ x <= n /\ x \notin S
    OBVIOUS
  <2>4. x \in 1 .. n /\ x - 1 \in Nat /\ x - 1 <= n
    BY <2>3
  <2>5. x - 1 \in missing
    BY <2>3, <2>4
  <2>6. <<x - 1, x>> \in Less
    BY <2>3, <2>4 DEF Less
  <2> QED BY <2>2, <2>5, <2>6
<1>3. ASSUME NEW i \in 0 .. n PROVE i \in S
  <2>1. i \in Nat /\ i <= n
    BY <1>3
  <2> QED BY <1>2, <2>1
<1> QED BY <1>3

(* What a recursion over 0 .. n defines: it starts at x, and the turns F     *)
(* make each value of the one before.                                       *)
Turns(n, S) == [1 .. n -> [S -> S]]
Iterates(g, n, S, x, F) ==
  /\ g \in [0 .. n -> S]
  /\ g[0] = x
  /\ \A i \in 1 .. n : g[i] = F[i][g[i - 1]]

LEMMA Recursion ==
  ASSUME NEW n \in Nat, NEW S, NEW x \in S, NEW F \in Turns(n, S)
  PROVE  \E g : Iterates(g, n, S, x, F)
<1> DEFINE done == {k \in 0 .. n : \E g : Iterates(g, k, S, x, F)}
<1>1. \E g : Iterates(g, 0, S, x, F)
  <2> DEFINE c == [i \in 0 .. 0 |-> x]
  <2>1. c \in [0 .. 0 -> S] /\ c[0] = x
    OBVIOUS
  <2>2. \A i \in 1 .. 0 : c[i] = F[i][c[i - 1]]
    OBVIOUS
  <2> HIDE DEF c
  <2> QED BY <2>1, <2>2 DEF Iterates
<1>2. ASSUME NEW k \in 1 .. n, NEW g, Iterates(g, k - 1, S, x, F)
      PROVE  \E h : Iterates(h, k, S, x, F)
  <2>1. g \in [0 .. k - 1 -> S] /\ g[0] = x /\ \A i \in 1 .. k - 1 : g[i] = F[i][g[i - 1]]
    BY <1>2 DEF Iterates
  <2> DEFINE h == [i \in 0 .. k |-> IF i = k THEN F[k][g[k - 1]] ELSE g[i]]
  <2>2. F[k][g[k - 1]] \in S
    <3>1. F[k] \in [S -> S]
      BY DEF Turns
    <3>2. g[k - 1] \in S
      BY <2>1
    <3> QED BY <3>1, <3>2
  <2>3. h \in [0 .. k -> S] /\ h[0] = x
    BY <2>1, <2>2
  <2>4. ASSUME NEW i \in 1 .. k
        PROVE  h[i] = F[i][h[i - 1]]
    <3>1. i - 1 \in 0 .. k - 1 /\ i \in 0 .. k
      OBVIOUS
    <3>2. h[i - 1] = g[i - 1]
      BY <3>1
    <3>3. h[i] = IF i = k THEN F[k][g[k - 1]] ELSE g[i]
      BY <3>1
    <3> HIDE DEF h
    <3>4. i # k => i \in 1 .. k - 1
      OBVIOUS
    <3> QED BY <2>1, <3>2, <3>3, <3>4
  <2> HIDE DEF h
  <2> QED BY <2>3, <2>4 DEF Iterates
<1>3. 0 \in done /\ \A k \in 1 .. n : k - 1 \in done => k \in done
  BY <1>1, <1>2
<1>4. n \in done
  <2>1. n \in 0 .. n
    OBVIOUS
  <2> HIDE DEF done
  <2> QED BY <1>3, <2>1, CountingUp
<1> QED BY <1>4

LEMMA TotalsRun ==
  ASSUME NEW s \in Seq(Nat)
  PROVE  /\ Totals(s)[0] = 0
         /\ \A i \in 1 .. Len(s) : Totals(s)[i] = Totals(s)[i - 1] + s[i]
         /\ \A i \in 0 .. Len(s) : Totals(s)[i] \in Nat
<1> DEFINE n == Len(s)
           F == [i \in 1 .. n |-> [t \in Nat |-> t + s[i]]]
           Whole(t) == [i \in 0 .. n |-> IF i = 0 THEN 0 ELSE t[i - 1] + s[i]]
<1>1. n \in Nat /\ \A i \in 1 .. n : s[i] \in Nat
  OBVIOUS
<1> HIDE DEF n
<1>2. F \in Turns(n, Nat)
  BY <1>1 DEF Turns
<1>3. PICK g : Iterates(g, n, Nat, 0, F)
  <2> HIDE DEF F
  <2> QED BY <1>1, <1>2, Recursion
<1>4. /\ g \in [0 .. n -> Nat] /\ g[0] = 0
      /\ \A i \in 1 .. n : g[i] = F[i][g[i - 1]]
  BY <1>3 DEF Iterates
<1>5. g = Whole(g)
  <2>1. ASSUME NEW i \in 0 .. n
        PROVE  g[i] = IF i = 0 THEN 0 ELSE g[i - 1] + s[i]
    <3>1. CASE i = 0
      BY <1>4, <3>1
    <3>2. CASE i # 0
      <4>1. i \in 1 .. n /\ i - 1 \in 0 .. n
        BY <1>1, <3>2
      <4>2. g[i - 1] \in Nat
        BY <1>4, <4>1
      <4> QED BY <1>4, <3>2, <4>1, <4>2
    <3> QED BY <3>1, <3>2
  <2> QED BY <1>4, <2>1
<1>6. Totals(s) = CHOOSE t : t = Whole(t)
  BY DEF Totals, n
<1>7. Totals(s) = Whole(Totals(s))
  <2> HIDE DEF Whole
  <2> QED BY <1>5, <1>6
<1>8. /\ Totals(s)[0] = 0
      /\ \A i \in 1 .. n : Totals(s)[i] = Totals(s)[i - 1] + s[i]
  <2>1. 0 \in 0 .. n /\ \A i \in 1 .. n : i \in 0 .. n /\ i # 0
    BY <1>1
  <2> QED BY <1>7, <2>1
<1>9. \A i \in 0 .. n : Totals(s)[i] \in Nat
  <2> DEFINE S == {i \in 0 .. n : Totals(s)[i] \in Nat}
  <2>1. 0 \in S
    BY <1>1, <1>8
  <2>2. ASSUME NEW i \in 1 .. n, i - 1 \in S PROVE i \in S
    BY <1>1, <1>8, <2>2
  <2> HIDE DEF S
  <2>3. \A i \in 0 .. n : i \in S
    BY <1>1, <2>1, <2>2, CountingUp
  <2> QED BY <2>3 DEF S
<1> QED BY <1>8, <1>9 DEF n

(* One more loss adds to the total.                                         *)
LEMMA TotalGrows ==
  ASSUME NEW s \in Seq(Nat), NEW t \in Seq(Nat), Len(t) = Len(s) + 1,
         \A i \in 1 .. Len(s) : t[i] = s[i]
  PROVE  TotalLoss(s) \in Nat /\ TotalLoss(t) = TotalLoss(s) + t[Len(t)]
<1> DEFINE n == Len(s)
           S == {i \in 0 .. n : Totals(t)[i] = Totals(s)[i]}
<1>1. n \in Nat /\ Len(t) = n + 1
  OBVIOUS
<1>2. /\ Totals(s)[0] = 0 /\ Totals(t)[0] = 0
      /\ \A i \in 1 .. n : Totals(s)[i] = Totals(s)[i - 1] + s[i]
      /\ \A i \in 1 .. n + 1 : Totals(t)[i] = Totals(t)[i - 1] + t[i]
      /\ \A i \in 0 .. n : Totals(s)[i] \in Nat
  BY <1>1, TotalsRun
<1> HIDE DEF n
<1>3. 0 \in S
  BY <1>1, <1>2
<1>4. ASSUME NEW i \in 1 .. n, i - 1 \in S PROVE i \in S
  <2>1. i \in 1 .. n + 1 /\ i \in 0 .. n /\ t[i] = s[i]
    BY <1>1 DEF n
  <2> QED BY <1>2, <1>4, <2>1
<1>5. Totals(t)[n] = Totals(s)[n]
  <2>1. n \in 0 .. n
    BY <1>1
  <2>2. \A i \in 0 .. n : i \in S
    <3> HIDE DEF S
    <3> QED BY <1>1, <1>3, <1>4, CountingUp
  <2> QED BY <2>1, <2>2
<1>6. Totals(t)[n + 1] = Totals(t)[n] + t[n + 1]
  <2>1. n + 1 \in 1 .. n + 1 /\ (n + 1) - 1 = n
    BY <1>1
  <2>2. Totals(t)[n + 1] = Totals(t)[(n + 1) - 1] + t[n + 1]
    BY <1>2, <2>1
  <2> QED BY <2>1, <2>2
<1>7. Totals(s)[n] \in Nat
  BY <1>1, <1>2
<1> QED BY <1>1, <1>5, <1>6, <1>7 DEF TotalLoss, n

-----------------------------------------------------------------------------
(* The account that the timeline gives of the logs: its evolutions, its     *)
(* collapses, and the losses.                                               *)
RuleAt == [i \in DOMAIN timeline |-> timeline[i].rule]

EvolutionsTold == Same(EvolutionEvents, RuleAt, KeptDeltas, deltas)

CollapsesTold ==
  /\ \A i \in CollapseEvents : timeline[i].collapse \in DOMAIN collapses
  /\ {timeline[i].collapse : i \in LossyEvents} = Lossy
  /\ \A i, j \in LossyEvents : i < j => timeline[i].collapse < timeline[j].collapse

(* What a step does to the logs, and how the timeline tells it.             *)
Tells(e) == timeline' = Append(timeline, e)

Unaccounted ==
  /\ UNCHANGED <<deltas, lost, collapses, tracked>>
  /\ \/ UNCHANGED timeline
     \/ \E e \in Events : Tells(e) /\ e.type \notin EvolutionTypes \cup CollapseTypes

ToldEvolution(r) ==
  /\ deltas' = Append(deltas, r)
  /\ UNCHANGED <<lost, collapses, tracked>>
  /\ \E e \in Events : Tells(e) /\ e.type \in EvolutionTypes /\ e.rule = r

LostEvolution(r) ==
  /\ deltas' = Append(deltas, r)
  /\ lost' = lost \cup {Len(deltas) + 1}
  /\ UNCHANGED <<timeline, collapses, tracked>>

ToldCollapse(c) ==
  /\ collapses' = Append(collapses, c)
  /\ UNCHANGED <<deltas, lost>>
  /\ \E e \in Events :
       /\ Tells(e)
       /\ e.type \in CollapseTypes
       /\ e.collapse = Len(collapses) + 1
       /\ tracked' = IF e.type = "COLLAPSE" THEN tracked ELSE tracked + c.loss

EmptyCollapse(c) ==
  /\ collapses' = Append(collapses, c)
  /\ c.loss = 0
  /\ UNCHANGED <<timeline, deltas, lost, tracked>>

LEMMA ToldCollapses ==
  ASSUME TypeOK, NEW s \in States, NEW token \in Tokens, NEW outcome \in Outcomes,
         NEW type \in CollapseTypes, Collapse(s, token, outcome), Record(CollapseEvent(type)),
         UNCHANGED lost,
         tracked' = IF type = "COLLAPSE" THEN tracked ELSE tracked + Loss(s)
  PROVE  \E c \in CollapseRecords : ToldCollapse(c)
<1>1. PICK c \in CollapseRecords : collapses' = Append(collapses, c) /\ c.loss = Loss(s)
  BY CollapseAppends
<1>2. UNCHANGED deltas
  BY DEF Collapse
<1>3. Tells(CollapseEvent(type))
  BY DEF Record, Tells
<1>4. /\ CollapseEvent(type) \in Events
      /\ CollapseEvent(type).type = type
      /\ CollapseEvent(type).collapse = Len(collapses) + 1
  BY CollapseEventTypes
<1> QED BY <1>1, <1>2, <1>3, <1>4 DEF ToldCollapse

LEMMA ToldEvolutions ==
  ASSUME NEW r \in Rules, NEW type \in EvolutionTypes, Observe(r), Record(Evolution(type, r)),
         UNCHANGED <<tracked, lost>>
  PROVE  ToldEvolution(r)
<1>1. /\ Evolution(type, r) \in Events
      /\ Evolution(type, r).type = type
      /\ Evolution(type, r).rule = r
  <2>1. type \in EventTypes
    BY DEF EventTypes
  <2> QED BY <2>1, EventTypesHold DEF Evolution, Event
<1>2. Tells(Evolution(type, r))
  BY DEF Record, Tells
<1> QED BY <1>1, <1>2 DEF Observe, ToldEvolution

(* Every step of the layers is of one of these kinds.                       *)
LEMMA Accounts ==
  ASSUME TypeOK, [Next]_vars
  PROVE  \/ Unaccounted
         \/ \E r \in Rules : ToldEvolution(r) \/ LostEvolution(r)
         \/ \E c \in CollapseRecords : ToldCollapse(c) \/ EmptyCollapse(c)
<1> USE DEF seals, engines, errors
<1>t. Evolved(deltas) \in States /\ physical \in States /\ Len(deltas) \in Nat
  BY StateTypes, HistoryTypes DEF TypeOK
<1>1. ASSUME NEW r \in Rules, RegisterRule(r) PROVE Unaccounted
  BY <1>1 DEF RegisterRule, Unaccounted
<1>2. ASSUME NEW r \in Rules, Evolve(r) PROVE ToldEvolution(r)
  BY <1>2, ToldEvolutions DEF Evolve, EvolutionTypes
<1>3. ASSUME NEW r \in Rules, NEW noisy \in BOOLEAN, EvolveWithNoise(r, noisy) PROVE ToldEvolution(r)
  BY <1>3, ToldEvolutions DEF EvolveWithNoise, EvolutionTypes
<1>4. ASSUME NEW r \in Rules, StrictEvolution(r) PROVE ToldEvolution(r)
  BY <1>4, ToldEvolutions DEF StrictEvolution, EvolutionTypes
<1>5. ASSUME NEW r \in Rules, EvolveStrictlyWithNoise(r) PROVE LostEvolution(r)
  <2>1. deltas' = Append(deltas, r) /\ UNCHANGED <<collapses, timeline, tracked>>
    BY <1>5 DEF EvolveStrictlyWithNoise, Observe
  <2>2. lost' = lost \cup {Len(deltas')}
    BY <1>5 DEF EvolveStrictlyWithNoise
  <2>3. Len(deltas') = Len(deltas) + 1
    BY <2>1, HistoryTypes DEF TypeOK
  <2> QED BY <2>1, <2>2, <2>3 DEF LostEvolution
<1>6. ASSUME NEW token \in Tokens, NEW outcome \in Outcomes, Measure(token, outcome)
      PROVE  \E c \in CollapseRecords : ToldCollapse(c)
  BY <1>6, <1>t, ToldCollapses DEF Measure, CollapseTypes
<1>7. ASSUME NEW token \in Tokens, NEW outcome \in Outcomes, MeasureWithDisturbance(token, outcome)
      PROVE  \E c \in CollapseRecords : ToldCollapse(c)
  BY <1>7, <1>t, ToldCollapses DEF MeasureWithDisturbance, CollapseTypes
<1>8. ASSUME NEW token \in Tokens, NEW outcome \in Outcomes, RefusedMeasurement(token, outcome)
      PROVE  \E c \in CollapseRecords : EmptyCollapse(c)
  <2>1. PICK c \in CollapseRecords :
          collapses' = Append(collapses, c) /\ c.loss = Loss(Evolved(deltas))
    BY <1>8, <1>t, CollapseAppends DEF RefusedMeasurement
  <2>2. UNCHANGED <<timeline, deltas, lost, tracked>> /\ Loss(Evolved(deltas)) = 0
    BY <1>8 DEF RefusedMeasurement, Collapse
  <2> QED BY <2>1, <2>2 DEF EmptyCollapse
<1>9. ASSUME NEW token \in Tokens, NEW outcome \in Outcomes, StrictMeasurement(token, outcome)
      PROVE  \E c \in CollapseRecords : ToldCollapse(c)
  BY <1>9, <1>t, ToldCollapses DEF StrictMeasurement, CollapseTypes
<1>10. ASSUME NEW id \in DOMAIN timeline, Seal(id) PROVE Unaccounted
  BY <1>10 DEF Seal, Unaccounted
<1>11. ASSUME NEW id \in DOMAIN timeline, Compensate(id) PROVE Unaccounted
  <2>1. id \in Nat
    BY Lengths
  <2> DEFINE e == [Event("COMPENSATION") EXCEPT !.target = id, !.is_compensation = TRUE]
  <2>2. e \in Events /\ e.type \notin EvolutionTypes \cup CollapseTypes
    BY <2>1, EventTypesHold DEF EvolutionTypes, CollapseTypes
  <2>3. Tells(e) /\ UNCHANGED <<deltas, lost, collapses, tracked>>
    BY <1>11 DEF Compensate, Record, Tells
  <2> QED BY <2>2, <2>3 DEF Unaccounted
<1>12. ASSUME NEW trusted \in BOOLEAN, ApplySyndromeCorrection(trusted) PROVE Unaccounted
  <2> DEFINE e == [Event("CORRECTION") EXCEPT !.is_compensation = TRUE]
  <2>1. e \in Events /\ e.type \notin EvolutionTypes \cup CollapseTypes
    BY EventTypesHold DEF EvolutionTypes, CollapseTypes
  <2>2. Tells(e) /\ UNCHANGED <<deltas, lost, collapses, tracked>>
    BY <1>12 DEF ApplySyndromeCorrection, Record, Tells
  <2> QED BY <2>1, <2>2 DEF Unaccounted
<1>13. CASE UNCHANGED vars
  BY <1>13 DEF vars, Unaccounted
<1>14. CASE \E r \in Rules :
              \/ RegisterRule(r) \/ Evolve(r) \/ \E noisy \in BOOLEAN : EvolveWithNoise(r, noisy)
              \/ EvolveStrictly(r) \/ EvolveStrictlyWithNoise(r) \/ EvolveDeterministic(r)
  BY <1>14, <1>1, <1>2, <1>3, <1>4, <1>5 DEF EvolveStrictly, EvolveDeterministic
<1>15. CASE \E token \in Tokens, outcome \in Outcomes :
              \/ Measure(token, outcome) \/ MeasureWithDisturbance(token, outcome)
              \/ RefusedMeasurement(token, outcome) \/ MeasureStrictly(token, outcome)
              \/ MeasureDeterministic(token, outcome)
  BY <1>15, <1>6, <1>7, <1>8, <1>9 DEF MeasureStrictly, MeasureDeterministic
<1>16. CASE \E id \in DOMAIN timeline : Seal(id) \/ Compensate(id)
  BY <1>16, <1>10, <1>11
<1>17. CASE \E trusted \in BOOLEAN : ApplySyndromeCorrection(trusted)
  BY <1>17, <1>12
<1> QED BY <1>13, <1>14, <1>15, <1>16, <1>17 DEF Next

(* One more delta.                                                          *)
LEMMA DeltasGrow ==
  ASSUME TypeOK, NEW r \in Rules, deltas' = Append(deltas, r)
  PROVE  /\ Len(deltas) \in Nat
         /\ DOMAIN deltas = 1 .. Len(deltas) /\ DOMAIN deltas' = 1 .. Len(deltas) + 1
         /\ \A d \in DOMAIN deltas : deltas'[d] = deltas[d]
         /\ deltas'[Len(deltas) + 1] = r
BY HistoryTypes DEF TypeOK

(* What an event adds to the events of the two kinds.                       *)
LEMMA EventsGrow ==
  ASSUME TypeOK, NEW e \in Events, Tells(e)
  PROVE  /\ EvolutionEvents' = EvolutionEvents \cup
              (IF e.type \in EvolutionTypes THEN {Len(timeline) + 1} ELSE {})
         /\ CollapseEvents' = CollapseEvents \cup
              (IF e.type \in CollapseTypes THEN {Len(timeline) + 1} ELSE {})
         /\ \A i \in DOMAIN timeline : timeline'[i] = timeline[i] /\ RuleAt'[i] = RuleAt[i]
         /\ timeline'[Len(timeline) + 1] = e /\ RuleAt'[Len(timeline) + 1] = e.rule
<1>1. /\ DOMAIN timeline = 1 .. Len(timeline) /\ Len(timeline) \in Nat
      /\ DOMAIN timeline' = 1 .. Len(timeline) + 1
      /\ \A i \in DOMAIN timeline : i \in DOMAIN timeline' /\ timeline'[i] = timeline[i]
      /\ timeline'[Len(timeline) + 1] = e
  BY Lengths, TimelineGrows DEF Tells
<1>2. /\ DOMAIN timeline' = DOMAIN timeline \cup {Len(timeline) + 1}
      /\ Len(timeline) + 1 \in DOMAIN timeline'
  BY <1>1
<1>3. EvolutionEvents' = EvolutionEvents \cup
              (IF e.type \in EvolutionTypes THEN {Len(timeline) + 1} ELSE {})
  BY <1>1, <1>2 DEF EvolutionEvents
<1>4. CollapseEvents' = CollapseEvents \cup
              (IF e.type \in CollapseTypes THEN {Len(timeline) + 1} ELSE {})
  BY <1>1, <1>2 DEF CollapseEvents
<1>5. /\ \A i \in DOMAIN timeline : RuleAt'[i] = RuleAt[i]
      /\ RuleAt'[Len(timeline) + 1] = e.rule
  BY <1>1, <1>2 DEF RuleAt
<1> QED BY <1>1, <1>3, <1>4, <1>5

LEMMA SameLabels ==
  ASSUME NEW A, NEW B, NEW f, NEW f2, NEW g, NEW g2, Same(A, f, B, g),
         \A i \in A : f2[i] = f[i], \A j \in B : g2[j] = g[j]
  PROVE  Same(A, f2, B, g2)
BY DEF Same

LEMMA EvolutionsToldKept ==
  ASSUME TypeOK, EvolutionsTold, [Next]_vars
  PROVE  EvolutionsTold'
<1>t. /\ Len(timeline) \in Nat /\ EvolutionEvents \subseteq 1 .. Len(timeline)
      /\ EvolutionEvents \subseteq DOMAIN timeline
      /\ Len(deltas) \in Nat /\ KeptDeltas \subseteq DOMAIN deltas
      /\ lost \subseteq DOMAIN deltas /\ DOMAIN deltas = 1 .. Len(deltas)
  BY Lengths, HistoryTypes DEF TypeOK, EvolutionEvents, KeptDeltas
<1>1. ASSUME UNCHANGED <<deltas, lost, timeline>> PROVE EvolutionsTold'
  BY <1>1 DEF EvolutionsTold, EvolutionEvents, KeptDeltas, RuleAt
<1>2. ASSUME UNCHANGED <<deltas, lost>>,
             NEW e \in Events, Tells(e), e.type \notin EvolutionTypes
      PROVE  EvolutionsTold'
  <2>1. EvolutionEvents' = EvolutionEvents /\ \A i \in EvolutionEvents : RuleAt'[i] = RuleAt[i]
    BY <1>2, <1>t, EventsGrow
  <2>2. KeptDeltas' = KeptDeltas
    BY <1>2 DEF KeptDeltas
  <2>3. Same(EvolutionEvents, RuleAt', KeptDeltas, deltas)
    BY <2>1, SameLabels DEF EvolutionsTold
  <2> QED BY <1>2, <2>1, <2>2, <2>3 DEF EvolutionsTold
<1>3. ASSUME NEW r \in Rules, ToldEvolution(r) PROVE EvolutionsTold'
  <2>1. PICK e \in Events : Tells(e) /\ e.type \in EvolutionTypes /\ e.rule = r
    BY <1>3 DEF ToldEvolution
  <2>2. /\ EvolutionEvents' = EvolutionEvents \cup {Len(timeline) + 1}
        /\ \A i \in EvolutionEvents : RuleAt'[i] = RuleAt[i]
        /\ RuleAt'[Len(timeline) + 1] = r
    BY <1>t, <2>1, EventsGrow
  <2>3. /\ DOMAIN deltas' = 1 .. Len(deltas) + 1
        /\ \A d \in DOMAIN deltas : deltas'[d] = deltas[d]
        /\ deltas'[Len(deltas) + 1] = r /\ lost' = lost
    BY <1>3, DeltasGrow DEF ToldEvolution
  <2>4. KeptDeltas' = KeptDeltas \cup {Len(deltas) + 1}
    BY <1>t, <2>3 DEF KeptDeltas
  <2>5. /\ \A j \in KeptDeltas : deltas'[j] = deltas[j]
        /\ KeptDeltas \in SUBSET (1 .. Len(deltas)) /\ EvolutionEvents \in SUBSET (1 .. Len(timeline))
        /\ RuleAt'[Len(timeline) + 1] = deltas'[Len(deltas) + 1]
    BY <1>t, <2>2, <2>3
  <2>6. Same(EvolutionEvents \cup {Len(timeline) + 1}, RuleAt', KeptDeltas \cup {Len(deltas) + 1}, deltas')
    BY <1>t, <2>2, <2>5, SameGrows DEF EvolutionsTold
  <2> QED BY <2>2, <2>4, <2>6 DEF EvolutionsTold
<1>4. ASSUME NEW r \in Rules, LostEvolution(r) PROVE EvolutionsTold'
  <2>1. /\ DOMAIN deltas' = 1 .. Len(deltas) + 1
        /\ \A d \in DOMAIN deltas : deltas'[d] = deltas[d]
        /\ lost' = lost \cup {Len(deltas) + 1} /\ timeline' = timeline
    BY <1>4, DeltasGrow DEF LostEvolution
  <2>2. KeptDeltas' = KeptDeltas
    BY <1>t, <2>1 DEF KeptDeltas
  <2>3. EvolutionEvents' = EvolutionEvents /\ RuleAt' = RuleAt
    BY <2>1 DEF EvolutionEvents, RuleAt
  <2>4. \A j \in KeptDeltas : deltas'[j] = deltas[j]
    BY <1>t, <2>1
  <2>5. Same(EvolutionEvents, RuleAt, KeptDeltas, deltas')
    BY <2>4, SameLabels DEF EvolutionsTold
  <2> QED BY <2>2, <2>3, <2>5 DEF EvolutionsTold
<1>5. CASE Unaccounted
  BY <1>1, <1>2, <1>5 DEF Unaccounted
<1>6. ASSUME NEW c \in CollapseRecords, ToldCollapse(c) \/ EmptyCollapse(c) PROVE EvolutionsTold'
  <2>1. \A type \in CollapseTypes : type \notin EvolutionTypes
    BY DEF CollapseTypes, EvolutionTypes
  <2> QED BY <1>1, <1>2, <1>6, <2>1 DEF ToldCollapse, EmptyCollapse
<1> QED BY <1>3, <1>4, <1>5, <1>6, Accounts

(* One more collapse.                                                       *)
LEMMA LogGrows ==
  ASSUME TypeOK, NEW c \in CollapseRecords, collapses' = Append(collapses, c)
  PROVE  /\ Len(collapses) \in Nat /\ Len(collapses') = Len(collapses) + 1
         /\ DOMAIN collapses = 1 .. Len(collapses)
         /\ DOMAIN collapses' = 1 .. Len(collapses) + 1
         /\ \A d \in DOMAIN collapses : d \in DOMAIN collapses' /\ collapses'[d] = collapses[d]
         /\ collapses'[Len(collapses) + 1] = c
         /\ Lossy' = Lossy \cup (IF c.loss > 0 THEN {Len(collapses) + 1} ELSE {})
<1>1. collapses \in Seq(CollapseRecords)
  BY DEF TypeOK, CollapseRecords
<1>2. /\ Len(collapses) \in Nat /\ Len(collapses') = Len(collapses) + 1
      /\ DOMAIN collapses = 1 .. Len(collapses)
      /\ DOMAIN collapses' = 1 .. Len(collapses) + 1
      /\ \A d \in DOMAIN collapses : d \in DOMAIN collapses' /\ collapses'[d] = collapses[d]
      /\ collapses'[Len(collapses) + 1] = c
  BY <1>1
<1>3. /\ DOMAIN collapses' = DOMAIN collapses \cup {Len(collapses) + 1}
      /\ Len(collapses) + 1 \in DOMAIN collapses'
  BY <1>2
<1>4. Lossy' = Lossy \cup (IF c.loss > 0 THEN {Len(collapses) + 1} ELSE {})
  BY <1>2, <1>3 DEF Lossy
<1> QED BY <1>2, <1>4

LEMMA CollapsesToldKept ==
  ASSUME TypeOK, CollapsesTold, [Next]_vars
  PROVE  CollapsesTold'
<1>t. /\ Len(timeline) \in Nat /\ CollapseEvents \subseteq DOMAIN timeline
      /\ DOMAIN timeline = 1 .. Len(timeline)
      /\ Len(collapses) \in Nat /\ DOMAIN collapses = 1 .. Len(collapses)
      /\ Lossy \subseteq DOMAIN collapses
      /\ LossyEvents \subseteq CollapseEvents
  BY Lengths DEF CollapseEvents, Lossy, LossyEvents
<1>1. ASSUME UNCHANGED <<timeline, collapses>> PROVE CollapsesTold'
  BY <1>1 DEF CollapsesTold, CollapseEvents, LossyEvents, Lossy
<1>2. ASSUME UNCHANGED collapses, NEW e \in Events, Tells(e), e.type \notin CollapseTypes
      PROVE  CollapsesTold'
  <2>1. /\ CollapseEvents' = CollapseEvents
        /\ \A i \in CollapseEvents : timeline'[i] = timeline[i]
    BY <1>2, <1>t, EventsGrow
  <2>2. Lossy' = Lossy
    BY <1>2 DEF Lossy
  <2>3. LossyEvents' = LossyEvents
    BY <2>1, <2>2 DEF LossyEvents
  <2> QED BY <1>2, <1>t, <2>1, <2>2, <2>3 DEF CollapsesTold
<1>3. ASSUME NEW c \in CollapseRecords, ToldCollapse(c) PROVE CollapsesTold'
  <2> DEFINE n == Len(timeline) + 1
             m == Len(collapses) + 1
  <2>1. PICK e \in Events : Tells(e) /\ e.type \in CollapseTypes /\ e.collapse = m
    BY <1>3 DEF ToldCollapse
  <2>2. /\ CollapseEvents' = CollapseEvents \cup {n}
        /\ \A i \in CollapseEvents : timeline'[i] = timeline[i]
        /\ timeline'[n].collapse = m
    BY <1>t, <2>1, EventsGrow
  <2>3. /\ Lossy' = Lossy \cup (IF c.loss > 0 THEN {m} ELSE {})
        /\ m \in DOMAIN collapses' /\ DOMAIN collapses \subseteq DOMAIN collapses'
    BY <1>3, LogGrows DEF ToldCollapse
  <2>4. /\ m \notin DOMAIN collapses /\ n \notin CollapseEvents
        /\ \A i \in CollapseEvents : i < n /\ i \in Int
        /\ \A d \in DOMAIN collapses : d < m /\ d \in Int
        /\ n \in Int /\ m \in Int
    BY <1>t
  <2> HIDE DEF n, m
  <2>5. \A i \in CollapseEvents : timeline[i].collapse \in DOMAIN collapses
    BY DEF CollapsesTold
  <2>6. LossyEvents' = LossyEvents \cup (IF c.loss > 0 THEN {n} ELSE {})
    BY <2>2, <2>3, <2>4, <2>5, <1>t DEF LossyEvents
  <2>7. \A i \in CollapseEvents' : timeline'[i].collapse \in DOMAIN collapses'
    BY <2>2, <2>3, <2>5
  <2>8. {timeline'[i].collapse : i \in LossyEvents'} = Lossy'
    <3>1. {timeline[i].collapse : i \in LossyEvents} = Lossy
      BY DEF CollapsesTold
    <3>2. \A i \in LossyEvents : timeline'[i].collapse = timeline[i].collapse
      BY <1>t, <2>2
    <3> QED BY <2>2, <2>3, <2>6, <3>1, <3>2
  <2>9. ASSUME NEW i \in LossyEvents', NEW j \in LossyEvents', i < j
        PROVE  timeline'[i].collapse < timeline'[j].collapse
    <3>1. CASE i \in LossyEvents /\ j \in LossyEvents
      BY <1>t, <2>2, <2>9, <3>1 DEF CollapsesTold
    <3>2. CASE i \in LossyEvents /\ j = n
      BY <1>t, <2>2, <2>4, <2>5, <3>2
    <3>3. i # n
      BY <1>t, <2>4, <2>6, <2>9
    <3> QED BY <2>6, <3>1, <3>2, <3>3
  <2> QED BY <2>7, <2>8, <2>9 DEF CollapsesTold
<1>4. ASSUME NEW c \in CollapseRecords, EmptyCollapse(c) PROVE CollapsesTold'
  <2>1. /\ Lossy' = Lossy
        /\ DOMAIN collapses \subseteq DOMAIN collapses' /\ timeline' = timeline
    <3>1. collapses' = Append(collapses, c) /\ timeline' = timeline /\ ~(c.loss > 0)
      BY <1>4 DEF EmptyCollapse
    <3>2. Lossy' = Lossy \cup (IF c.loss > 0 THEN {Len(collapses) + 1} ELSE {})
      BY <3>1, LogGrows
    <3>3. DOMAIN collapses \subseteq DOMAIN collapses'
      BY <3>1, LogGrows
    <3> QED BY <3>1, <3>2, <3>3
  <2>2. CollapseEvents' = CollapseEvents
    BY <2>1 DEF CollapseEvents
  <2>3. LossyEvents' = LossyEvents
    BY <2>1, <2>2 DEF LossyEvents
  <2> QED BY <2>1, <2>2, <2>3 DEF CollapsesTold
<1>5. CASE Unaccounted
  BY <1>1, <1>2, <1>5 DEF Unaccounted
<1>6. ASSUME NEW r \in Rules, ToldEvolution(r) \/ LostEvolution(r) PROVE CollapsesTold'
  <2>1. \A type \in EvolutionTypes : type \notin CollapseTypes
    BY DEF CollapseTypes, EvolutionTypes
  <2> QED BY <1>1, <1>2, <1>6, <2>1 DEF ToldEvolution, LostEvolution
<1> QED BY <1>3, <1>4, <1>5, <1>6, Accounts

(* The two sequences of losses.                                             *)
LossSequence ==
  /\ Losses \in Seq(Nat) /\ Len(Losses) = Len(collapses)
  /\ \A c \in 1 .. Len(collapses) : Losses[c] = collapses[c].loss

PlainSequence ==
  /\ PlainLosses \in Seq(Nat) /\ Len(PlainLosses) = Len(timeline)
  /\ \A i \in 1 .. Len(timeline) :
       PlainLosses[i] = IF timeline[i].type = "COLLAPSE"
                          THEN collapses[timeline[i].collapse].loss ELSE 0

LEMMA LossTypes == TypeOK /\ CollapsesTold => LossSequence /\ PlainSequence
<1> SUFFICES ASSUME TypeOK, CollapsesTold PROVE LossSequence /\ PlainSequence
  OBVIOUS
<1>1. /\ Len(timeline) \in Nat /\ DOMAIN timeline = 1 .. Len(timeline)
      /\ Len(collapses) \in Nat /\ DOMAIN collapses = 1 .. Len(collapses)
  BY Lengths
<1>2. \A c \in DOMAIN collapses : collapses[c].loss \in Nat
  <2>1. collapses \in Seq(CollapseRecords)
    BY DEF TypeOK, CollapseRecords
  <2>2. \A c \in DOMAIN collapses : collapses[c] \in CollapseRecords
    BY <2>1
  <2> QED BY <2>2 DEF CollapseRecords
<1>3. ASSUME NEW i \in DOMAIN timeline, timeline[i].type = "COLLAPSE"
      PROVE  collapses[timeline[i].collapse].loss \in Nat
  BY <1>2, <1>3 DEF CollapsesTold, CollapseEvents, CollapseTypes
<1>4. Losses \in Seq(Nat) /\ Len(Losses) = Len(collapses)
  <2>1. Losses \in [1 .. Len(collapses) -> Nat]
    BY <1>1, <1>2 DEF Losses
  <2> QED BY <1>1, <2>1
<1>5. PlainLosses \in Seq(Nat) /\ Len(PlainLosses) = Len(timeline)
  <2>1. PlainLosses \in [1 .. Len(timeline) -> Nat]
    BY <1>1, <1>3 DEF PlainLosses
  <2> QED BY <1>1, <2>1
<1> QED BY <1>1, <1>4, <1>5 DEF Losses, PlainLosses, LossSequence, PlainSequence

(* A new event adds what it lost to the losses of plain measurements.       *)
LEMMA PlainGrows ==
  ASSUME TypeOK, TypeOK', CollapsesTold, CollapsesTold', NEW e \in Events, Tells(e), CollapsesGrow
  PROVE  /\ TotalLoss(PlainLosses) \in Nat
         /\ TotalLoss(PlainLosses') = TotalLoss(PlainLosses) +
              (IF e.type = "COLLAPSE" THEN collapses'[e.collapse].loss ELSE 0)
<1>1. /\ Len(timeline) \in Nat /\ DOMAIN timeline = 1 .. Len(timeline)
      /\ Len(timeline') = Len(timeline) + 1
      /\ \A i \in DOMAIN timeline : timeline'[i] = timeline[i]
      /\ timeline'[Len(timeline) + 1] = e
  BY Lengths, TimelineGrows DEF Tells
<1>2. /\ PlainLosses \in Seq(Nat) /\ Len(PlainLosses) = Len(timeline)
      /\ \A i \in 1 .. Len(timeline) :
              PlainLosses[i] = IF timeline[i].type = "COLLAPSE"
                                 THEN collapses[timeline[i].collapse].loss ELSE 0
  BY LossTypes DEF PlainSequence
<1>3. /\ PlainLosses' \in Seq(Nat) /\ Len(PlainLosses') = Len(timeline')
      /\ \A i \in 1 .. Len(timeline') :
              PlainLosses'[i] = IF timeline'[i].type = "COLLAPSE"
                                  THEN collapses'[timeline'[i].collapse].loss ELSE 0
  <2>1. PlainSequence'
    BY LossTypes, PTL
  <2> QED BY <2>1 DEF PlainSequence
<1>4. ASSUME NEW i \in 1 .. Len(timeline)
      PROVE  PlainLosses'[i] = PlainLosses[i]
  <2>1. timeline'[i] = timeline[i] /\ i \in 1 .. Len(timeline')
    BY <1>1
  <2>2. CASE timeline[i].type = "COLLAPSE"
    <3>1. timeline[i].collapse \in DOMAIN collapses
      BY <1>1, <2>2 DEF CollapsesTold, CollapseEvents, CollapseTypes
    <3>2. collapses'[timeline[i].collapse] = collapses[timeline[i].collapse]
      BY <3>1, CollapsesGrowEffect
    <3> QED BY <1>2, <1>3, <2>1, <3>2
  <2>3. CASE timeline[i].type # "COLLAPSE"
    BY <1>2, <1>3, <2>1, <2>3
  <2> QED BY <2>2, <2>3
<1>5. PlainLosses'[Len(timeline')] = IF e.type = "COLLAPSE" THEN collapses'[e.collapse].loss ELSE 0
  <2>1. Len(timeline') \in 1 .. Len(timeline')
    BY <1>1
  <2> QED BY <1>1, <1>3, <2>1
<1> QED BY <1>1, <1>2, <1>3, <1>4, <1>5, TotalGrows

LEMMA LossesGrow ==
  ASSUME TypeOK, TypeOK', CollapsesTold, CollapsesTold', NEW c \in CollapseRecords,
         collapses' = Append(collapses, c)
  PROVE  TotalLoss(Losses) \in Nat /\ TotalLoss(Losses') = TotalLoss(Losses) + c.loss
<1>1. /\ Len(collapses) \in Nat /\ Len(collapses') = Len(collapses) + 1
      /\ DOMAIN collapses = 1 .. Len(collapses)
      /\ \A d \in DOMAIN collapses : collapses'[d] = collapses[d]
      /\ collapses'[Len(collapses) + 1] = c
  BY LogGrows
<1>2. /\ Losses \in Seq(Nat) /\ Len(Losses) = Len(collapses)
      /\ \A d \in 1 .. Len(collapses) : Losses[d] = collapses[d].loss
  BY LossTypes DEF LossSequence
<1>3. /\ Losses' \in Seq(Nat) /\ Len(Losses') = Len(collapses')
      /\ \A d \in 1 .. Len(collapses') : Losses'[d] = collapses'[d].loss
  <2>1. LossSequence'
    BY LossTypes, PTL
  <2> QED BY <2>1 DEF LossSequence
<1>4. \A d \in 1 .. Len(collapses) : Losses'[d] = Losses[d]
  <2>1. \A d \in 1 .. Len(collapses) : d \in 1 .. Len(collapses')
    BY <1>1
  <2> QED BY <1>1, <1>2, <1>3, <2>1
<1>5. Losses'[Len(collapses')] = c.loss
  <2>1. Len(collapses') \in 1 .. Len(collapses')
    BY <1>1
  <2> QED BY <1>1, <1>3, <2>1
<1> QED BY <1>1, <1>2, <1>3, <1>4, <1>5, TotalGrows

LEMMA LossKept ==
  ASSUME TypeOK, TypeOK', CollapsesTold, CollapsesTold', LossIsTracked, [Next]_vars
  PROVE  LossIsTracked'
<1>t. tracked \in Nat
  BY DEF TypeOK
<1>1. ASSUME UNCHANGED <<timeline, collapses, tracked>> PROVE LossIsTracked'
  BY <1>1 DEF LossIsTracked, Losses, PlainLosses
<1>2. ASSUME UNCHANGED <<collapses, tracked>>, NEW e \in Events, Tells(e), e.type \notin CollapseTypes
      PROVE  LossIsTracked'
  <2>1. TotalLoss(PlainLosses) \in Nat /\ TotalLoss(PlainLosses') = TotalLoss(PlainLosses) + 0
    BY <1>2, PlainGrows DEF CollapsesGrow, CollapseTypes
  <2>2. Losses' = Losses
    BY <1>2 DEF Losses
  <2> QED BY <1>2, <2>1, <2>2 DEF LossIsTracked
<1>3. ASSUME NEW c \in CollapseRecords, ToldCollapse(c) PROVE LossIsTracked'
  <2>1. PICK e \in Events :
          /\ Tells(e) /\ e.type \in CollapseTypes /\ e.collapse = Len(collapses) + 1
          /\ tracked' = IF e.type = "COLLAPSE" THEN tracked ELSE tracked + c.loss
    BY <1>3 DEF ToldCollapse
  <2>2. collapses' = Append(collapses, c) /\ collapses'[e.collapse] = c
    BY <1>3, <2>1, LogGrows DEF ToldCollapse
  <2>3. /\ TotalLoss(PlainLosses) \in Nat
        /\ TotalLoss(PlainLosses') = TotalLoss(PlainLosses) +
             (IF e.type = "COLLAPSE" THEN c.loss ELSE 0)
    BY <2>1, <2>2, PlainGrows DEF CollapsesGrow
  <2>4. TotalLoss(Losses) \in Nat /\ TotalLoss(Losses') = TotalLoss(Losses) + c.loss
    BY <2>2, LossesGrow
  <2>5. c.loss \in Nat
    BY DEF CollapseRecords
  <2>6. TotalLoss(Losses) = tracked + TotalLoss(PlainLosses)
    BY DEF LossIsTracked
  <2>7. TotalLoss(Losses') = tracked' + TotalLoss(PlainLosses')
    BY <1>t, <2>1, <2>3, <2>4, <2>5, <2>6
  <2> QED BY <2>7 DEF LossIsTracked
<1>4. ASSUME NEW c \in CollapseRecords, EmptyCollapse(c) PROVE LossIsTracked'
  <2>1. UNCHANGED <<timeline, tracked>> /\ collapses' = Append(collapses, c) /\ c.loss = 0
    BY <1>4 DEF EmptyCollapse
  <2>2. TotalLoss(Losses) \in Nat /\ TotalLoss(Losses') = TotalLoss(Losses) + 0
    BY <2>1, LossesGrow
  <2>3. PlainLosses' = PlainLosses
    <3>1. \A d \in DOMAIN collapses : collapses'[d] = collapses[d]
      BY <2>1, LogGrows
    <3>2. \A i \in DOMAIN timeline :
            timeline[i].type = "COLLAPSE" => timeline[i].collapse \in DOMAIN collapses
      BY DEF CollapsesTold, CollapseEvents, CollapseTypes
    <3> QED BY <2>1, <3>1, <3>2 DEF PlainLosses
  <2> QED BY <2>1, <2>2, <2>3 DEF LossIsTracked
<1>5. CASE Unaccounted
  BY <1>1, <1>2, <1>5 DEF Unaccounted
<1>6. ASSUME NEW r \in Rules, ToldEvolution(r) \/ LostEvolution(r) PROVE LossIsTracked'
  <2>1. \A type \in EvolutionTypes : type \notin CollapseTypes
    BY DEF CollapseTypes, EvolutionTypes
  <2> QED BY <1>1, <1>2, <1>6, <2>1 DEF ToldEvolution, LostEvolution
<1> QED BY <1>3, <1>4, <1>5, <1>6, Accounts

LEMMA AccountAtStart ==
  ASSUME Init
  PROVE  EvolutionsTold /\ CollapsesTold /\ LossIsTracked
<1>1. TypeOK
  BY TypesAtStart
<1>2. /\ DOMAIN timeline = {1} /\ timeline[1].type = "GENESIS"
      /\ deltas = <<>> /\ lost = {} /\ collapses = <<>> /\ tracked = 0
      /\ Len(timeline) = 1
  BY DEF Init, Event
<1>3. EvolutionEvents = {} /\ CollapseEvents = {} /\ KeptDeltas = {} /\ Lossy = {}
  BY <1>2 DEF EvolutionEvents, CollapseEvents, KeptDeltas, Lossy, EvolutionTypes, CollapseTypes
<1>4. EvolutionsTold
  BY <1>3 DEF EvolutionsTold, Same
<1>5. CollapsesTold
  BY <1>3 DEF CollapsesTold, LossyEvents
<1>6. /\ Losses \in Seq(Nat) /\ Len(Losses) = 0
      /\ PlainLosses \in Seq(Nat) /\ Len(PlainLosses) = 1 /\ PlainLosses[1] = 0
  BY <1>1, <1>2, <1>5, LossTypes DEF LossSequence, PlainSequence
<1>7. TotalLoss(Losses) = 0
  BY <1>6, TotalsRun DEF TotalLoss
<1>8. TotalLoss(PlainLosses) = 0
  <2>1. /\ Totals(PlainLosses)[0] = 0
        /\ \A i \in 1 .. 1 : Totals(PlainLosses)[i] = Totals(PlainLosses)[i - 1] + PlainLosses[i]
    BY <1>6, TotalsRun
  <2>2. Totals(PlainLosses)[1] = Totals(PlainLosses)[1 - 1] + PlainLosses[1]
    BY <2>1
  <2> QED BY <1>6, <2>1, <2>2 DEF TotalLoss
<1> QED BY <1>2, <1>4, <1>5, <1>7, <1>8 DEF LossIsTracked

(* The account of the timeline is invariant together with Inv.              *)
Account == Inv /\ EvolutionsTold /\ CollapsesTold /\ LossIsTracked

-----------------------------------------------------------------------------
LEMMA InvAtStart == Init => Inv
<1> SUFFICES ASSUME Init PROVE Inv
  OBVIOUS
<1>1. TypeOK
  BY TypesAtStart
<1>2. Len(timeline) = 1 /\ DOMAIN timeline = {1} /\ timeline[1].type = "GENESIS"
  BY DEF Init, Event
<1>3. expected = 2 /\ DOMAIN markers = {}
  BY <1>2 DEF Init
<1> QED BY <1>1, <1>2, <1>3 DEF Inv, Beginning, Expectation, StrictHistory, Boundary, SealsHold,
      Pointers, Settled, Unmoved, Height

LEMMA InvKept == Inv /\ [Next]_vars => Inv'
<1> SUFFICES ASSUME Inv, [Next]_vars PROVE Inv'
  OBVIOUS
<1>1. CASE Next
  BY <1>1, TypesKept, BeginningKept, ExpectationKept, SealsKept, SettledKept DEF Inv
<1>2. CASE UNCHANGED vars
  BY <1>2 DEF vars, engines, seals, errors, Inv, TypeOK, Beginning, Expectation, StrictHistory,
     Boundary, SealsHold, Pointers, Settled, Unmoved, Height
<1> QED BY <1>1, <1>2

(* The inductive invariant: the types, what the no-go layer expects, the    *)
(* last seal, and the error layer's states after its last measurement.      *)
THEOREM Invariance == Spec => []Inv
<1>1. Init => Inv
  BY InvAtStart
<1>2. Inv /\ [Next]_vars => Inv'
  BY InvKept
<1> QED BY <1>1, <1>2, PTL DEF Spec

THEOREM AccountInvariance == Spec => []Account
<1>1. Init => Account
  BY InvAtStart, AccountAtStart DEF Account
<1>2. Account /\ [Next]_vars => Account'
  <2> SUFFICES ASSUME Account, [Next]_vars PROVE Account'
    OBVIOUS
  <2>1. Inv' /\ TypeOK /\ TypeOK'
    BY InvKept DEF Account, Inv
  <2> QED BY <2>1, EvolutionsToldKept, CollapsesToldKept, LossKept DEF Account
<1> QED BY <1>1, <1>2, PTL DEF Spec

(* The timeline is the one account of what the layers did, in its order:    *)
(* every delta that a call kept and every collapse that lost anything is    *)
(* told once, and nothing else is (timeline.py:12, causal_execution.py,     *)
(* error_enforcement_engine.py and nogo_enforcement.py).                    *)
THEOREM TimelineIsTheAccount == Spec => []TimelineTells
<1>1. Account => TimelineTells
  <2> SUFFICES ASSUME Account PROVE TimelineTells
    OBVIOUS
  <2>1. \A i \in EvolutionEvents : RuleAt[i] = timeline[i].rule
    BY DEF RuleAt, EvolutionEvents
  <2> QED BY <2>1 DEF Account, EvolutionsTold, CollapsesTold, Same, TimelineTells
<1> QED BY <1>1, AccountInvariance, PTL

(* What the error model tracks and what plain measurements lost is all that *)
(* the collapse log lost (error_enforcement_engine.py and                   *)
(* nogo_enforcement.py, add_measurement_loss).                              *)
THEOREM LossesAreTracked == Spec => []LossIsTracked
<1>1. Account => LossIsTracked
  BY DEF Account
<1> QED BY <1>1, AccountInvariance, PTL

(* Every engine and layer keeps its types (state_evolution_engine.py,       *)
(* collapse_engine.py, timeline.py and the layers that drive them).         *)
THEOREM TypeCorrectness == Spec => []TypeOK
<1>1. Inv => TypeOK
  BY DEF Inv
<1> QED BY <1>1, Invariance, PTL

(* A strict evolution directly follows GENESIS or another strict event,     *)
(* whatever the other layers recorded meanwhile (nogo_enforcement.py:84).   *)
THEOREM StrictEvolutionsFollowStrictEvents == Spec => []StrictHistory
<1>1. Inv => StrictHistory
  BY DEF Inv
<1> QED BY <1>1, Invariance, PTL

(* Once a seal is placed no later compensation reaches below it, and seals  *)
(* only move forward (timeline.py:141 and 178).                             *)
THEOREM SealsAreFinal == Spec => []SealsHold
<1>1. Inv => SealsHold
  BY DEF Inv
<1> QED BY <1>1, Invariance, PTL

(* No correction brings back what the error layer's measurement destroyed   *)
(* (error_enforcement_engine.py, measure_with_disturbance).                 *)
THEOREM CollapsesAreFinal == Spec => []CollapseStays
<1>1. Inv => CollapseStays
  BY DEF Inv, Settled, Unmoved, CollapseStays
<1> QED BY <1>1, Invariance, PTL
=============================================================================
