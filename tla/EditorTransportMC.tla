--------------------------- MODULE EditorTransportMC ---------------------------
(* EditorTransport for TLC: pages are interchangeable in the safety runs. *)
EXTENDS EditorTransport, TLC

PageSymmetry == Permutations(Page)
=============================================================================
