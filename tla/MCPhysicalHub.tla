--------------------------- MODULE MCPhysicalHub ---------------------------
(***************************************************************************)
(* The physical layer on a ship of two zones, for TLC.                     *)
(***************************************************************************)
EXTENDS PhysicalHub

(* Roughness grows in both zones and is polished off in the first: with the *)
(* clamp, the order of the two shows.  One batch is malformed in its second *)
(* zone, and one names a zone that the ship does not have.                  *)
Foul == <<1, 1>>
Polish == <<-1>>
Torn == <<1, Malformed>>
Unknown == <<1, 1, 1>>

MCBatches == {Foul, Polish, Torn, Unknown}
WellFormed == {Foul, Polish}

(* Nothing distinguishes a proposal id that was not used from another. *)
Interchangeable == Permutations(ProposalIds)
=============================================================================
