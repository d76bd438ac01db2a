-------------------------- MODULE MCHdlEnrichment --------------------------
(* Three HDL mains, two of which claim the same start LBA, in an order that *)
(* is not the chain's; one, two and three readers.                      *)
EXTENDS HdlEnrichment

McStartLba  == <<9, 5, 5>>
McOverrides == {0, 2, 5}
McMedia     == {"solid_state", "rotational"}
=============================================================================
