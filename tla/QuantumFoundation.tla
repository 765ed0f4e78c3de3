------------------------- MODULE QuantumFoundation -------------------------
(***************************************************************************)
(* The engines of cycles 1 to 5 below one FullStackHarness.  The state     *)
(* engine and the collapse engine keep logs of their own; the system that  *)
(* wires them, the error layer and the no-go layer each drive both engines *)
(* and record what they did in one shared causal timeline.  The layers are *)
(* public attributes of the harness, and nothing makes them take turns.    *)
(*                                                                         *)
(* Calls are synchronous: a call is one step.  A call that raises before   *)
(* it changed anything is no step (an unknown rule, a consumed token, a    *)
(* foreign StateReference, a history that others have continued, a sealed  *)
(* or missing target).  Two calls raise later, and keep what they did:     *)
(* EvolveStrictlyWithNoise, and a refused MeasureStrictly.                 *)
(*                                                                         *)
(* A quantum state is the state that rules led to from the initial one, or *)
(* a basis state that a measurement left, and may carry a phase error.     *)
(***************************************************************************)
EXTENDS Integers, Sequences, FiniteSets

CONSTANTS
  Rules,             \* the names of unitary rules
  Tokens,            \* ids of collapse tokens
  Outcomes,          \* the basis labels
  Start, NoRule,     \* the initial state; no rule
  Possible(_),       \* the outcomes that seeds can select in a state
  Loss(_),           \* the information loss that a measurement declares
  Orthogonal(_, _),  \* whether the fidelity of two states is 0
  MaxEvents,         \* bound on the timeline and its markers together
  MaxDeltas          \* bound on the delta log

(* What the state engine can have observed, and the states of the layers.   *)
Histories == UNION {[1 .. n -> Rules] : n \in 0 .. MaxDeltas}
States == [from : Outcomes \cup {Start}, rules : Histories, noisy : BOOLEAN]

ASSUME FoundationAssumption ==
  /\ MaxEvents \in Nat
  /\ MaxDeltas \in Nat
  /\ \A s \in States : Loss(s) \in Nat

VARIABLES
  rules,      \* the registered rules of the state engine
  deltas,     \* the rules in its _log; its state is Evolved(deltas)
  collapses,  \* the _log of the collapse engine
  consumed,   \* _consumed_tokens
  timeline,   \* _events of the causal timeline
  markers,    \* _ponr_markers; the time of one is the timeline's length
  sealed,     \* _sealed_up_to
  ideal,      \* _ideal_state of the error layer
  physical,   \* _physical_state
  tracked,    \* _total_info_loss of the error model
  expected,   \* _expected_next_event_id of the no-go layer
  lost        \* not in the code: the deltas whose call raised afterwards

engines == <<rules, deltas, collapses, consumed>>
seals == <<markers, sealed>>
errors == <<ideal, physical, tracked>>
vars == <<engines, timeline, seals, errors, expected, lost>>

Evolved(ds) == [from |-> Start, rules |-> ds, noisy |-> FALSE]
Basis(o) == [from |-> o, rules |-> <<>>, noisy |-> FALSE]
WithPhaseError(s, noisy) == [s EXCEPT !.noisy = noisy]

(* The payload of an event is the rule of an evolution, the position of a   *)
(* collapse in its log, or the target of a compensation.                    *)
Event(type) ==
  [type |-> type, rule |-> NoRule, collapse |-> 0, target |-> 0, is_compensation |-> FALSE]
Evolution(type, r) == [Event(type) EXCEPT !.rule = r]
CollapseEvent(type) == [Event(type) EXCEPT !.collapse = Len(collapses) + 1]

Init ==
  /\ rules = {}
  /\ deltas = <<>>
  /\ collapses = <<>>
  /\ consumed = {}
  /\ timeline = <<Event("GENESIS")>>
  /\ markers = <<>>
  /\ sealed = -1
  /\ ideal = Evolved(<<>>)
  /\ physical = Evolved(<<>>)
  /\ tracked = 0
  /\ expected = Len(timeline) + 1
  /\ lost = {}

-----------------------------------------------------------------------------
(* The shared engines.                                                      *)

HasRoom == Len(timeline) + Len(markers) < MaxEvents

Record(event) ==
  /\ HasRoom
  /\ timeline' = Append(timeline, event)

Observe(r) ==
  /\ r \in rules
  /\ Len(deltas) < MaxDeltas
  /\ deltas' = Append(deltas, r)
  /\ UNCHANGED <<rules, collapses, consumed>>

Collapse(state, token, outcome) ==
  /\ token \notin consumed
  /\ outcome \in Possible(state)
  /\ collapses' = Append(collapses, [of |-> state, outcome |-> outcome, token |-> token, loss |-> Loss(state)])
  /\ consumed' = consumed \cup {token}
  /\ UNCHANGED <<rules, deltas>>

RegisterRule(r) ==
  /\ r \notin rules
  /\ rules' = rules \cup {r}
  /\ UNCHANGED <<deltas, collapses, consumed, timeline, seals, errors, expected, lost>>

-----------------------------------------------------------------------------
(* QuantumFoundationSystem: plain evolutions and measurements, seals and    *)
(* compensations.  A measurement is not fed back into the state engine.     *)

(* a mistake: the event is recorded before the engine looks for the rule *)
EvolveFault(r) ==
  /\ IF r \in rules THEN Observe(r) ELSE UNCHANGED engines
  /\ Record(Evolution("STATE_DELTA", r))
  /\ UNCHANGED <<seals, errors, expected, lost>>

Evolve(r) ==
  /\ Observe(r)
  /\ Record(Evolution("STATE_DELTA", r))
  /\ UNCHANGED <<seals, errors, expected, lost>>

Measure(token, outcome) ==
  /\ Collapse(Evolved(deltas), token, outcome)
  /\ Record(CollapseEvent("COLLAPSE"))
  /\ UNCHANGED <<seals, errors, expected, lost>>

Seal(id) ==
  /\ id > sealed
  /\ id \in DOMAIN timeline
  /\ HasRoom
  /\ markers' = Append(markers, [upTo |-> id, at |-> Len(timeline)])
  /\ sealed' = id
  /\ UNCHANGED <<engines, timeline, errors, expected, lost>>

(* a mistake: the sealed event itself may still be compensated *)
CompensateFault(id) ==
  /\ id \in DOMAIN timeline
  /\ id >= sealed
  /\ Record([Event("COMPENSATION") EXCEPT !.target = id, !.is_compensation = TRUE])
  /\ UNCHANGED <<engines, seals, errors, expected, lost>>

Compensate(id) ==
  /\ id \in DOMAIN timeline
  /\ id > sealed
  /\ Record([Event("COMPENSATION") EXCEPT !.target = id, !.is_compensation = TRUE])
  /\ UNCHANGED <<engines, seals, errors, expected, lost>>

-----------------------------------------------------------------------------
(* ErrorEnforcementEngine.  Its states follow what it does itself.          *)

EvolveWithNoise(r, noisy) ==
  /\ Observe(r)
  /\ ideal' = Evolved(deltas')
  /\ physical' = WithPhaseError(ideal', noisy)
  /\ Record(Evolution("NOISY_EVOLUTION", r))
  /\ UNCHANGED <<seals, tracked, expected, lost>>

(* a mistake: the loss is that of the state after the measurement *)
MeasureUntrackedFault(token, outcome) ==
  /\ Collapse(physical, token, outcome)
  /\ physical' = Basis(outcome)
  /\ ideal' = Basis(outcome)
  /\ tracked' = tracked + Loss(physical')
  /\ Record(CollapseEvent("MEASUREMENT_COLLAPSE"))
  /\ UNCHANGED <<seals, expected, lost>>

(* a mistake: the ideal state is not collapsed *)
MeasurePhysicalOnlyFault(token, outcome) ==
  /\ Collapse(physical, token, outcome)
  /\ physical' = Basis(outcome)
  /\ tracked' = tracked + Loss(physical)
  /\ Record(CollapseEvent("MEASUREMENT_COLLAPSE"))
  /\ UNCHANGED <<seals, ideal, expected, lost>>

MeasureWithDisturbance(token, outcome) ==
  /\ Collapse(physical, token, outcome)
  /\ physical' = Basis(outcome)
  /\ ideal' = Basis(outcome)
  /\ tracked' = tracked + Loss(physical)
  /\ Record(CollapseEvent("MEASUREMENT_COLLAPSE"))
  /\ UNCHANGED <<seals, expected, lost>>

(* A trusted syndrome restores the ideal state unless the fidelity is 0.    *)
ApplySyndromeCorrection(trusted) ==
  /\ physical' = IF trusted /\ ~Orthogonal(physical, ideal) THEN ideal ELSE physical
  /\ Record([Event("CORRECTION") EXCEPT !.is_compensation = TRUE])
  /\ UNCHANGED <<engines, seals, ideal, tracked, expected, lost>>

-----------------------------------------------------------------------------
(* NoGoEnforcementEngine, called directly or by the harness, which then     *)
(* sets the states of the error layer.                                      *)

(* a mistake: only a shortened history is refused *)
LinearFault == Len(timeline) + 1 >= expected

Linear == Len(timeline) + 1 = expected

StrictEvolution(r) ==
  /\ Linear
  /\ Observe(r)
  /\ Record(Evolution("STRICT_EVOLUTION", r))
  /\ expected' = Len(timeline') + 1
  /\ UNCHANGED <<seals, physical, tracked, lost>>

EvolveStrictly(r) == StrictEvolution(r) /\ UNCHANGED ideal
EvolveDeterministic(r) == StrictEvolution(r) /\ ideal' = Evolved(deltas')

(* With noise the call raises after the observation: amplitudes is a tuple. *)
EvolveStrictlyWithNoise(r) ==
  /\ Linear
  /\ Observe(r)
  /\ lost' = lost \cup {Len(deltas')}
  /\ UNCHANGED <<timeline, seals, errors, expected>>

(* A measurement that loses nothing is refused when it is already logged.   *)
RefusedMeasurement(token, outcome) ==
  /\ Loss(Evolved(deltas)) = 0
  /\ Collapse(Evolved(deltas), token, outcome)
  /\ UNCHANGED <<timeline, seals, errors, expected, lost>>

StrictMeasurement(token, outcome) ==
  /\ Loss(Evolved(deltas)) > 0
  /\ Collapse(Evolved(deltas), token, outcome)
  /\ tracked' = tracked + Loss(Evolved(deltas))
  /\ Record(CollapseEvent("STRICT_COLLAPSE"))
  /\ expected' = Len(timeline') + 1
  /\ UNCHANGED <<seals, lost>>

MeasureStrictly(token, outcome) ==
  StrictMeasurement(token, outcome) /\ UNCHANGED <<ideal, physical>>

MeasureDeterministic(token, outcome) ==
  /\ StrictMeasurement(token, outcome)
  /\ ideal' = Basis(outcome)
  /\ physical' = Basis(outcome)

-----------------------------------------------------------------------------
Next ==
  \/ \E r \in Rules :
       \/ RegisterRule(r)
       \/ Evolve(r)
       \/ \E noisy \in BOOLEAN : EvolveWithNoise(r, noisy)
       \/ EvolveStrictly(r)
       \/ EvolveStrictlyWithNoise(r)
       \/ EvolveDeterministic(r)
  \/ \E token \in Tokens, outcome \in Outcomes :
       \/ Measure(token, outcome)
       \/ MeasureWithDisturbance(token, outcome)
       \/ RefusedMeasurement(token, outcome)
       \/ MeasureStrictly(token, outcome)
       \/ MeasureDeterministic(token, outcome)
  \/ \E id \in DOMAIN timeline : Seal(id) \/ Compensate(id)
  \/ \E trusted \in BOOLEAN : ApplySyndromeCorrection(trusted)

Spec == Init /\ [][Next]_vars

-----------------------------------------------------------------------------
EvolutionTypes == {"STATE_DELTA", "NOISY_EVOLUTION", "STRICT_EVOLUTION"}
CollapseTypes == {"COLLAPSE", "MEASUREMENT_COLLAPSE", "STRICT_COLLAPSE"}
StrictTypes == {"STRICT_EVOLUTION", "STRICT_COLLAPSE"}
EventTypes == EvolutionTypes \cup CollapseTypes \cup {"GENESIS", "COMPENSATION", "CORRECTION"}

(* Type invariant of the engines, the timeline and the layers.              *)
TypeOK ==
  /\ rules \subseteq Rules
  /\ deltas \in Histories
  /\ collapses \in Seq([of : States, outcome : Outcomes, token : Tokens, loss : Nat])
  /\ consumed \subseteq Tokens
  /\ timeline \in Seq([type : EventTypes, rule : Rules \cup {NoRule}, collapse : Nat,
                       target : Nat, is_compensation : BOOLEAN])
  /\ markers \in Seq([upTo : Nat, at : Nat])
  /\ sealed \in Nat \cup {-1}
  /\ ideal \in States
  /\ physical \in States
  /\ tracked \in Nat
  /\ expected \in Nat
  /\ lost \subseteq DOMAIN deltas

EvolutionEvents == {i \in DOMAIN timeline : timeline[i].type \in EvolutionTypes}
CollapseEvents == {i \in DOMAIN timeline : timeline[i].type \in CollapseTypes}
KeptDeltas == DOMAIN deltas \ lost

Lossy == {c \in DOMAIN collapses : collapses[c].loss > 0}
LossyEvents == {i \in CollapseEvents : timeline[i].collapse \in Lossy}

(* Which number of S, in their order, i is. *)
Rank(i, S) == Cardinality({j \in S : j <= i})

(* The timeline is the one account of what happened and in what order       *)
(* (timeline.py:12-17), whichever layer did it: its evolutions are the      *)
(* delta log, and its collapses the collapse log, except for a delta whose  *)
(* call raised before it was recorded and for collapses that lost nothing.  *)
TimelineTells ==
  /\ Cardinality(EvolutionEvents) = Cardinality(KeptDeltas)
  /\ \A i \in EvolutionEvents, d \in KeptDeltas :
       Rank(i, EvolutionEvents) = Rank(d, KeptDeltas) => timeline[i].rule = deltas[d]
  /\ \A i \in CollapseEvents : timeline[i].collapse \in DOMAIN collapses
  /\ {timeline[i].collapse : i \in LossyEvents} = Lossy
  /\ \A i, j \in LossyEvents : i < j => timeline[i].collapse < timeline[j].collapse

Totals(losses) ==
  LET total[i \in 0 .. Len(losses)] ==
        IF i = 0 THEN 0 ELSE total[i - 1] + losses[i]
  IN  total

TotalLoss(losses) == Totals(losses)[Len(losses)]

Losses == [c \in DOMAIN collapses |-> collapses[c].loss]
PlainLosses ==
  [i \in DOMAIN timeline |->
     IF timeline[i].type = "COLLAPSE" THEN collapses[timeline[i].collapse].loss ELSE 0]

(* Error bound E1 (cycle4/invariants.py:29): the error model knows of all   *)
(* information that collapses destroyed, but for the plain measurements of  *)
(* the system, which do not tell it.                                        *)
LossIsTracked == TotalLoss(Losses) = tracked + TotalLoss(PlainLosses)

(* No-cloning bound NG1 (nogo_enforcement.py:58): a strict evolution only   *)
(* continues a history that the no-go layer made itself; whatever another   *)
(* layer recorded, it waits for a strict measurement.                       *)
StrictHistory ==
  \A i \in DOMAIN timeline :
    timeline[i].type = "STRICT_EVOLUTION" => i = 2 \/ timeline[i - 1].type \in StrictTypes

(* A PointOfNoReturn (causality_primitives.py:145) holds for good: no event *)
(* recorded after it compensates what it sealed, and later ones seal more.  *)
SealsHold ==
  \A m \in DOMAIN markers :
    /\ \A i \in DOMAIN timeline :
         i > markers[m].at /\ timeline[i].type = "COMPENSATION"
           => timeline[i].target > markers[m].upTo
    /\ \A l \in 1 .. m - 1 : markers[l].upTo < markers[m].upTo

(* The events at which the error layer's states may move.                   *)
Moves == {"NOISY_EVOLUTION", "MEASUREMENT_COLLAPSE"} \cup StrictTypes

(* No retroactive recovery (cycle4 specification, 2.3): what the error      *)
(* layer measured stays as the measurement left it, through corrections,    *)
(* compensations and other layers' plain calls, until it is evolved or      *)
(* measured again.                                                          *)
CollapseStays ==
  \A i \in DOMAIN timeline :
    /\ timeline[i].type = "MEASUREMENT_COLLAPSE"
    /\ \A j \in DOMAIN timeline : j > i => timeline[j].type \notin Moves
    => physical = Basis(collapses[timeline[i].collapse].outcome)
=============================================================================
