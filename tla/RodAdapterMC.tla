---------------------------- MODULE RodAdapterMC ----------------------------
(* Small instances of RodAdapter for TLC. *)
EXTENDS RodAdapter

CONSTANTS e1, e2, e3, c1, c2

MCExtraction == {e1, e2, e3}
MCCloser == {c1, c2}
MCWithHeaders == {e1, e2}
=============================================================================
