--------------------------- MODULE CatalogObjectMC ----------------------------
(* CatalogObject for TLC: two objects of two processes that share one file. *)
EXTENDS CatalogObject, TLC

CONSTANTS b1, b2, o1, o2

MCHome == (o1 :> b1) @@ (o2 :> b2)
MCIntent == [rec : Record, auto : BOOLEAN, code : 0 .. (Ceiling - 1),
             ref : Ref]
=============================================================================
