---------------------------- MODULE CatalogStoreMC ----------------------------
(***************************************************************************)
(* CatalogStore for TLC: two backend instances on one file, two records,   *)
(* of which the second may refer to the first, and two codes.              *)
(***************************************************************************)
EXTENDS CatalogStore, TLC

CONSTANTS r1, r2

MCRecord == {r1, r2}
MCIntent ==
    {d \in [rec : MCRecord, auto : BOOLEAN, code : 0 .. (Ceiling - 1),
           ref : {r1, NoRecord}] : d.ref = r1 => d.rec = r2 /\ d.code # 1}

Symmetry == Permutations(Op)
=============================================================================
