--------------------------- MODULE MCPropagation ---------------------------
(***************************************************************************)
(* The propagation layer over marine adapters, for TLC.                    *)
(***************************************************************************)
EXTENDS Propagation, MarineAdapter

CONSTANTS Bow, Stern

(* As in MCComputationProtocol: two payloads whose order shows, and one     *)
(* whose second entry is malformed.                                         *)
Foul == <<Entry(Bow, 1)>>
Scrape == <<Entry(Bow, -1)>>
Torn == <<Entry(Bow, 1), MalformedEntry(Stern)>>

MCPayloads == {Foul, Scrape, Torn}
AtMostOneNode == {{}} \cup {{n} : n \in Nodes}

(* Delays lose events as well, so it is enough to skip one of the nodes. *)
FirstNode == {{}, {1}}
=============================================================================
