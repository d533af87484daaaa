---------------------------- MODULE AtomicCatalog -----------------------------
(***************************************************************************)
(* What the catalog persistence contract (catalog_backend.py) promises to  *)
(* every client, however many processes share the database file: an        *)
(* operation id takes effect at most once and all at once, as a step from  *)
(* one database that its receipts fully explain to another.                *)
(***************************************************************************)
EXTENDS Naturals

CONSTANTS Op, Record, NoRecord

VARIABLES disk, committed, receipts

vars == <<disk, committed, receipts>>

Init ==
    /\ disk = [rows |-> [r \in Record |-> [rev |-> 0, code |-> 0, ref |-> NoRecord]],
               next |-> 1]
    /\ committed = {}
    /\ receipts = {}

(* The revisions that the new receipt claims follow the ones before: each   *)
(* is beyond the revision its record had, and together they reach the one   *)
(* it has now.                                                              *)
Consecutive ==
    LET new == receipts' \ receipts IN
    /\ \A e \in new : e.rev > disk.rows[e.rec].rev /\ e.rev <= disk'.rows[e.rec].rev
    /\ \A r \in Record :
          /\ disk'.rows[r].rev >= disk.rows[r].rev
          /\ \A n \in disk.rows[r].rev + 1 .. disk'.rows[r].rev :
                \E e \in new : e.rec = r /\ e.rev = n

(* The rows change as the receipt says and nowhere else. *)
Exact ==
    LET new == receipts' \ receipts IN
    /\ \A r \in Record :
          disk'.rows[r].rev = disk.rows[r].rev => disk'.rows[r] = disk.rows[r]
    /\ \A e \in new : e.rev = disk'.rows[e.rec].rev =>
          e.code = disk'.rows[e.rec].code /\ e.ref = disk'.rows[e.rec].ref

(* Numbers come from a counter that never goes back. *)
Numbered ==
    /\ disk'.next >= disk.next
    /\ \A e \in receipts' \ receipts :
          e.auto => e.code >= disk.next /\ e.code < disk'.next

Apply(op) ==
    /\ op \notin committed
    /\ committed' = committed \cup {op}
    /\ receipts \subseteq receipts'
    /\ \A e \in receipts' \ receipts : e.op = op
    /\ Consecutive
    /\ Exact
    /\ Numbered

Next == \E op \in Op : Apply(op)

Spec == Init /\ [][Next]_vars
=============================================================================
