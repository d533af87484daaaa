----------------------------- MODULE CatalogLayout -----------------------------
(***************************************************************************)
(* The names of physical tables (sqlite_catalog_layout.py).  A table is    *)
(* named after its catalog; a name that is taken, up to case and NFC, gets *)
(* a longer and longer part of the catalog's identity.  The registry in    *)
(* the file decides afterwards, so every process has to admit what one of  *)
(* them allocated.                                                         *)
(*                                                                         *)
(* A name is a sequence of tokens that stand for its comparison key        *)
(* (_key): a catalog may be called like another one with a suffix.         *)
(***************************************************************************)
EXTENDS Naturals, Sequences

CONSTANTS
    Catalogs,           \* identities, in the order of their hex digits: 1 .. n
    Suffixes,           \* Suffixes[c]: the suffixes _allocate tries for c
    Reserved            \* keys of the tables that every database has

ASSUME LayoutAssumption ==
    /\ Catalogs \in Nat
    /\ Suffixes \in [1 .. Catalogs -> Seq(STRING)]

Integrity == "integrity"

(* The first name that is free: the base, then the base with each suffix.   *)
Candidates(name, c) ==
    <<name>> \o [i \in 1 .. Len(Suffixes[c]) |-> Append(name, Suffixes[c][i])]

AllocateAnyway(name, c, used) == \* mutant: the last suffix is taken for free
    LET tried == Candidates(name, c)
        free == {i \in 1 .. Len(tried) : tried[i] \notin used \/ i = 2}
    IN tried[CHOOSE i \in free : \A j \in free : i <= j]

Allocate(name, c, used) ==
    LET tried == Candidates(name, c)
        free == {i \in 1 .. Len(tried) : tried[i] \notin used}
    IN IF free = {} THEN <<Integrity>>
                    ELSE tried[CHOOSE i \in free : \A j \in free : i <= j]

(* build_layout: in the order of the identities, so that every process that *)
(* builds the layout of the same schemas builds the same one.               *)
BuildLayout(names) ==
    LET table[c \in 1 .. Catalogs] ==
            Allocate(names[c], c, Reserved \cup {table[d] : d \in 1 .. (c - 1)})
    IN table

Buildable(layout) == \A c \in DOMAIN layout : layout[c] # <<Integrity>>

(* load_layout: every name is free and used once. *)
Loadable(layout) ==
    \A c \in DOMAIN layout :
        /\ layout[c] \notin Reserved
        /\ \A d \in DOMAIN layout : layout[c] = layout[d] => c = d
=============================================================================
