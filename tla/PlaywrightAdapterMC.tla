------------------------- MODULE PlaywrightAdapterMC -------------------------
(* Small instances of PlaywrightAdapter for TLC. *)
EXTENDS PlaywrightAdapter, TLC

CONSTANTS e1, e2, e3

MCExtraction == {e1, e2, e3}
MCTwoExtractions == {e1, e2}
MCSymmetry == Permutations(MCExtraction)
=============================================================================
