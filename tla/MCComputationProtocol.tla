----------------------- MODULE MCComputationProtocol -----------------------
(***************************************************************************)
(* The computation protocol over marine adapters, for TLC.                 *)
(***************************************************************************)
EXTENDS ProtocolClaims, MarineAdapter

CONSTANTS Bow, Stern

(* Fouling grows and is cleaned off at the bow: with the clamp, the order   *)
(* of the two shows.  The third payload has a malformed second entry.       *)
Foul == <<Entry(Bow, 1)>>
Scrape == <<Entry(Bow, -1)>>
Torn == <<Entry(Bow, 1), MalformedEntry(Stern)>>

MCPayloads == {Foul, Scrape, Torn}
WellFormed == {Foul, Scrape}
WithSync == MCPayloads \cup {SYNC}
WellFormedWithSync == WellFormed \cup {SYNC}

AnyNodes == SUBSET Nodes
AtMostOneNode == {{}} \cup {{n} : n \in Nodes}
NoNodes == {{}}
=============================================================================
