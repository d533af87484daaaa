-------------------------- MODULE CatalogMigrationMC ---------------------------
(* CatalogMigration for TLC: two operators, two records, two catalogs. *)
EXTENDS CatalogMigration, TLC

CONSTANTS o1, o2, r1, r2

(* The identities begin with the same digits, and the tables of the database *)
(* take two of the names: both catalogs fall back to suffixes, and when both *)
(* are called like a table, no name is left for the second one.              *)
MCSuffixes == << <<"p", "q">>, <<"p", "q">> >>
MCNames == {<<"x">>, <<"schema">>}
MCReserved == {<<"schema">>, <<"schema", "p">>}

Symmetry == Permutations(Operator) \cup Permutations(Record)
=============================================================================
