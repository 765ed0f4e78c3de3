--------------------------- MODULE MarineAdapter ---------------------------
(***************************************************************************)
(* The marine adapter (MarineStateEngine): the domain object that a        *)
(* replica drives through apply_event_payload.                             *)
(*                                                                         *)
(* The state is the fouling coverage of each hull zone, in steps from 0 to *)
(* Full: the one quantity that is clamped, so that the order of events     *)
(* matters.  A payload is a sequence of entries, each naming a zone and a  *)
(* change; an entry that is not shaped as the adapter expects is malformed *)
(* and raises when it is reached.                                          *)
(***************************************************************************)
EXTENDS Integers, SequencesExt

CONSTANTS
  Zones,   \* the registered zones
  Full     \* full coverage, 1.0

ASSUME FullAssumption == Full \in Nat \ {0}

Clean == [z \in Zones |-> 0]

Entry(z, d) == [zone |-> z, delta |-> d, malformed |-> FALSE]
MalformedEntry(z) == [zone |-> z, delta |-> 0, malformed |-> TRUE]

(* apply_delta: the coverage stays between 0 and 1. *)
ApplyDelta(coverage, d) ==
  LET sum == coverage + d
  IN  IF sum < 0 THEN 0 ELSE IF sum > Full THEN Full ELSE sum

(* apply_transition, whose error for an unknown zone the caller swallows. *)
ApplyTransition(zones, entry) ==
  IF entry.zone \in Zones
    THEN [zones EXCEPT ![entry.zone] = ApplyDelta(@, entry.delta)]
    ELSE zones

(* The exception of a malformed entry leaves apply_event_payload. *)
PayloadRaises(payload) == \E i \in DOMAIN payload : payload[i].malformed

Readable(payload) ==
  SubSeq(payload, 1, SelectInSeq(payload, LAMBDA e : e.malformed) - 1)

(* apply_event_payload: the entries are applied one by one, so that those   *)
(* before a malformed one have taken effect when the exception is raised.   *)
ApplyEventPayload(zones, payload) ==
  FoldLeft(ApplyTransition, zones,
           IF PayloadRaises(payload) THEN Readable(payload) ELSE payload)
=============================================================================
