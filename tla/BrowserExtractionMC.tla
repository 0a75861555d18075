------------------------ MODULE BrowserExtractionMC -------------------------
(* A small instance of BrowserExtraction for TLC. *)
EXTENDS BrowserExtraction

CONSTANTS e1, e2

MCExtraction == {e1, e2}
=============================================================================
