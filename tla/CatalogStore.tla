----------------------------- MODULE CatalogStore -----------------------------
(***************************************************************************)
(* The SQLite catalog backend (sqlite_catalog.py): one database file, and  *)
(* for each SQLiteCatalogBackend instance at most one active view, which   *)
(* owns the connection and with it the locks that the file holds for it.   *)
(* Beside the view a call may read on a connection of its own that nothing *)
(* owns: the receipt lookup of storage version 4 and the export.           *)
(*                                                                         *)
(* One catalog with `decimal_v1' numbering is modelled.  A code is its     *)
(* number, 0 the empty string; the fields and the tabular sections of a    *)
(* record are abstracted to one catalog reference.  A journal or receipt   *)
(* entry stands for the submitted intent together with its outcome, the    *)
(* two things that the receipt digest binds.  SQLite itself (locks in      *)
(* journal mode DELETE, atomic COMMIT, rollback of a dead process) is      *)
(* external and modelled from how the backend uses it.                     *)
(***************************************************************************)
EXTENDS Naturals, FiniteSets

CONSTANTS
    Backend,      \* backend instances, each in a process of its own
    ReadOnly,     \* the instances opened with read_only=True
    Op,           \* operation ids
    NoOp,
    Record,       \* record identities
    NoRecord,     \* the empty reference
    Intent,       \* the drafts that callers submit
    Ceiling,      \* 10 ** code_length: the first number that is no code
    MaxRevision,  \* stands for 2**63-1, the revision no update may start from
    MaxRows       \* _MAX_ROWS: records of a catalog, changes of a transaction

ASSUME StoreAssumption ==
    /\ ReadOnly \subseteq Backend
    /\ NoOp \notin Op
    /\ NoRecord \notin Record
    /\ Ceiling \in Nat \ {0}
    /\ MaxRevision \in Nat \ {0}
    /\ MaxRows \in Nat
    /\ Intent \subseteq [rec : Record, auto : BOOLEAN, code : 0 .. (Ceiling - 1),
                        ref : Record \cup {NoRecord}]

VARIABLES
    disk,       \* committed rows and catalog_sequence.next_value
    committed,  \* operation ids that have a commit_receipt row
    receipts,   \* the entries of all commit receipts
    lock,       \* the file lock each backend's connection holds
    view,       \* backend._active
    closed,     \* backend._closed
    stray       \* backends with a connection that nothing owns and that could
                \* not be closed: it holds SHARED

storeVars == <<disk, committed, receipts, lock, view, closed, stray>>

Code == 0 .. (Ceiling - 1)
Ref == Record \cup {NoRecord}
Row == [rev : 0 .. MaxRevision, code : Code, ref : Ref]
Image == [rows : [Record -> Row], next : 1 .. Ceiling]
Entry == [op : Op, rec : Record, rev : 1 .. MaxRevision, code : Code,
          auto : BOOLEAN, ref : Ref]
View == [kind : {"none", "pending", "read", "write"}, dead : BOOLEAN,
         op : Op \cup {NoOp}, image : Image, log : SUBSET Entry]

AbsentRow == [rev |-> 0, code |-> 0, ref |-> NoRecord]
EmptyImage == [rows |-> [r \in Record |-> AbsentRow], next |-> 1]
NoView == [kind |-> "none", dead |-> FALSE, op |-> NoOp,
           image |-> EmptyImage, log |-> {}]

Exists(image, r) == image.rows[r].rev > 0
Present(image) == {r \in Record : Exists(image, r)}
UsedCodes(image) == {image.rows[r].code : r \in Present(image)}

-----------------------------------------------------------------------------
(* SQLite's file locks: any number of readers beside one writer; a writer   *)
(* that could not COMMIT keeps PENDING, which admits no new reader, but for  *)
(* the connections of a process that has SHARED already.                     *)

CanShare(b) ==
    /\ lock[b] # "pending"
    /\ \/ b \in stray \/ lock[b] # "none"
       \/ \A c \in Backend \ {b} : lock[c] # "pending"
CanReserve(b) == \A c \in Backend \ {b} : lock[c] \in {"none", "shared"}
CanExclude(b) == stray = {} /\ \A c \in Backend \ {b} : lock[c] = "none"

(* _close_owned_connection: ownership ends only with a successful close. *)
Release(b) ==
    /\ lock' = [lock EXCEPT ![b] = "none"]
    /\ view' = [view EXCEPT ![b] = NoView]

(* The close failed; the ROLLBACK before it may have dropped the lock.  Of  *)
(* a view that is closed to its caller only the ownership matters.          *)
Retain(b, held) ==
    /\ lock' \in {[lock EXCEPT ![b] = l] : l \in {"none"} \cup held}
    /\ view' = [view EXCEPT ![b] = [NoView EXCEPT !.kind = view[b].kind,
                                                  !.dead = TRUE]]

CloseOwned(b) == Release(b) \/ Retain(b, {lock[b]})

-----------------------------------------------------------------------------
(* Admission of a view. *)

Admissible(b) == ~closed[b] /\ view[b].kind = "none"

BeginReadLazily(b) == \* mutant: a deferred BEGIN that reads nothing takes no lock
    /\ Admissible(b)
    /\ CanShare(b)
    /\ view' = [view EXCEPT ![b].kind = "read"]
    /\ UNCHANGED <<disk, committed, receipts, lock, closed, stray>>

BeginRead(b) ==
    /\ Admissible(b)
    /\ CanShare(b)
    /\ lock' = [lock EXCEPT ![b] = "shared"]
    /\ view' = [view EXCEPT ![b].kind = "read"]
    /\ UNCHANGED <<disk, committed, receipts, closed, stray>>

BeginWriteAgain(b, op) == \* mutant: no look at the receipts
    /\ b \notin ReadOnly
    /\ Admissible(b)
    /\ CanReserve(b)
    /\ lock' = [lock EXCEPT ![b] = "reserved"]
    /\ view' = [view EXCEPT ![b] = [kind |-> "write", dead |-> FALSE, op |-> op,
                                    image |-> disk, log |-> {}]]
    /\ UNCHANGED <<disk, committed, receipts, closed, stray>>

BeginWrite(b, op) ==
    /\ b \notin ReadOnly
    /\ Admissible(b)
    /\ CanReserve(b)
    /\ op \notin committed
    /\ lock' = [lock EXCEPT ![b] = "reserved"]
    /\ view' = [view EXCEPT ![b] = [kind |-> "write", dead |-> FALSE, op |-> op,
                                    image |-> disk, log |-> {}]]
    /\ UNCHANGED <<disk, committed, receipts, closed, stray>>

(* Admission failed after sqlite3.connect and so did the cleanup: the       *)
(* close-only owner stays.  (With the cleanup done nothing has changed.)    *)
AdmissionFails(b, write) ==
    /\ Admissible(b)
    /\ \E held \in {"none"} \cup (IF CanShare(b) THEN {"shared"} ELSE {})
                   \cup (IF write /\ CanReserve(b) /\ b \notin ReadOnly
                         THEN {"reserved"} ELSE {}) :
          lock' = [lock EXCEPT ![b] = held]
    /\ view' = [view EXCEPT ![b] = [NoView EXCEPT !.kind = "pending",
                                                  !.dead = TRUE]]
    /\ UNCHANGED <<disk, committed, receipts, closed, stray>>

-----------------------------------------------------------------------------
(* Changes of a write view. *)

(* _require: the view is open, and open for what the caller wants. *)
Usable(v, kind) == v.kind = kind /\ ~v.dead

Writable(b) ==
    Usable(view[b], "write") /\ Cardinality(view[b].log) < MaxRows

DraftOk(image, d) ==
    /\ d.auto <=> d.code = 0
    /\ d.ref # NoRecord => Exists(image, d.ref)

FreeCodes(image) == {c \in image.next .. (Ceiling - 1) : c \notin UsedCodes(image)}

AllocateCode(image) ==
    CHOOSE c \in FreeCodes(image) : \A x \in FreeCodes(image) : c <= x

CanInsert(image, d) ==
    /\ DraftOk(image, d)
    /\ Cardinality(Present(image)) < MaxRows
    /\ ~Exists(image, d.rec)
    /\ IF d.auto THEN FreeCodes(image) # {} ELSE d.code \notin UsedCodes(image)

NewCode(image, d) == IF d.auto THEN AllocateCode(image) ELSE d.code

InsertedUncounted(image, d) == \* mutant: catalog_sequence is not advanced
    [rows |-> [image.rows EXCEPT ![d.rec] =
                 [rev |-> 1, code |-> NewCode(image, d), ref |-> d.ref]],
     next |-> image.next]

Inserted(image, d) ==
    [rows |-> [image.rows EXCEPT ![d.rec] =
                 [rev |-> 1, code |-> NewCode(image, d), ref |-> d.ref]],
     next |-> IF d.auto THEN AllocateCode(image) + 1 ELSE image.next]

CanUpdateBeyond(image, d, expected) == \* mutant: no bound on the revision
    /\ DraftOk(image, d)
    /\ ~d.auto
    /\ Exists(image, d.rec)
    /\ image.rows[d.rec].rev = expected
    /\ \A r \in Present(image) \ {d.rec} : image.rows[r].code # d.code

CanUpdate(image, d, expected) ==
    /\ DraftOk(image, d)
    /\ ~d.auto
    /\ expected < MaxRevision
    /\ Exists(image, d.rec)
    /\ image.rows[d.rec].rev = expected
    /\ \A r \in Present(image) \ {d.rec} : image.rows[r].code # d.code

Updated(image, d, expected) ==
    [image EXCEPT !.rows[d.rec] =
        [rev |-> expected + 1, code |-> d.code, ref |-> d.ref]]

(* _record_change: the journal entry of a change that made this image. *)
ChangeEntry(op, d, image) ==
    [op |-> op, rec |-> d.rec, rev |-> image.rows[d.rec].rev,
     code |-> image.rows[d.rec].code, auto |-> d.auto, ref |-> d.ref]

RecordChange(b, d, image) ==
    view' = [view EXCEPT
        ![b].image = image,
        ![b].log = @ \cup {ChangeEntry(view[b].op, d, image)}]

Create(b, d) ==
    /\ Writable(b)
    /\ CanInsert(view[b].image, d)
    /\ RecordChange(b, d, Inserted(view[b].image, d))
    /\ UNCHANGED <<disk, committed, receipts, lock, closed, stray>>

Update(b, d, expected) ==
    /\ Writable(b)
    /\ CanUpdate(view[b].image, d, expected)
    /\ RecordChange(b, d, Updated(view[b].image, d, expected))
    /\ UNCHANGED <<disk, committed, receipts, lock, closed, stray>>

(* What the statements of one create may have done before one of them fails. *)
PartialImages(image, d) ==
    {image} \cup (IF CanInsert(image, d)
                  THEN {Inserted(image, d),
                        [image EXCEPT !.next = Inserted(image, d).next]}
                  ELSE {})

RestoredNothing(before, partial) == partial \* mutant: the savepoint is released
Restored(before, partial) == before

(* _atomic_record: ROLLBACK TO the savepoint gives back the image before. *)
RecordFails(b, d) ==
    /\ Writable(b)
    /\ \/ \E partial \in PartialImages(view[b].image, d) :
            /\ view' = [view EXCEPT ![b].image = Restored(view[b].image, partial)]
            /\ UNCHANGED lock
       \/ CloseOwned(b)
    /\ UNCHANGED <<disk, committed, receipts, closed, stray>>

-----------------------------------------------------------------------------
(* The end of a view. *)

CommitUnjournalled(b) == \* mutant: the receipt does not hold the journal
    /\ Usable(view[b], "write")
    /\ CanExclude(b)
    /\ disk' = view[b].image
    /\ committed' = committed \cup {view[b].op}
    /\ Release(b) \/ Retain(b, {})
    /\ UNCHANGED <<receipts, closed, stray>>

(* INSERT INTO commit_receipt and COMMIT took effect; the close may fail. *)
CommitDurable(b) ==
    /\ Usable(view[b], "write")
    /\ CanExclude(b)
    /\ disk' = view[b].image
    /\ committed' = committed \cup {view[b].op}
    /\ receipts' = receipts \cup view[b].log
    /\ Release(b) \/ Retain(b, {})
    /\ UNCHANGED <<closed, stray>>

(* The receipt or the COMMIT failed without effect: uncertain_commit. *)
CommitLost(b) ==
    /\ Usable(view[b], "write")
    /\ Release(b) \/ Retain(b, {"reserved", "pending"})
    /\ UNCHANGED <<disk, committed, receipts, closed, stray>>

Close(b) ==
    /\ view[b].kind # "none"
    /\ CloseOwned(b)
    /\ UNCHANGED <<disk, committed, receipts, closed, stray>>

CloseBackend(b) ==
    /\ ~closed[b]
    /\ \/ /\ Release(b)
          /\ closed' = [closed EXCEPT ![b] = TRUE]
       \/ /\ view[b].kind # "none"
          /\ Retain(b, {lock[b]})
          /\ UNCHANGED closed
    /\ UNCHANGED <<disk, committed, receipts, stray>>

(* The process ends, and with it every connection it had. *)
Restart(b) ==
    /\ Release(b)
    /\ closed' = [closed EXCEPT ![b] = FALSE]
    /\ stray' = stray \ {b}
    /\ UNCHANGED <<disk, committed, receipts>>

(* The host drops the closed instance and opens another in the same process: *)
(* what nobody owned is still there.                                         *)
Reopen(b) ==
    /\ closed[b]
    /\ closed' = [closed EXCEPT ![b] = FALSE]
    /\ UNCHANGED <<disk, committed, receipts, lock, view, stray>>

-----------------------------------------------------------------------------
(* Connections beside the view. *)

(* _committed_results of version 4 and export_configuration: the connection  *)
(* is opened whatever `_active' is, and is closed in a `finally' that nobody *)
(* can repeat.                                                               *)
CanLookUp(b) == ~closed[b] /\ CanShare(b)

LookUpFails(b) ==
    /\ CanLookUp(b)
    /\ stray' = stray \cup {b}
    /\ UNCHANGED <<disk, committed, receipts, lock, view, closed>>

LookUp(b) == LookUpFails(b) \/ (CanLookUp(b) /\ UNCHANGED storeVars)

(* The interpreter finalizes the lost connection, if it ever does. *)
StrayEnds(b) ==
    /\ b \in stray
    /\ stray' = stray \ {b}
    /\ UNCHANGED <<disk, committed, receipts, lock, view, closed>>

-----------------------------------------------------------------------------
StoreInit ==
    /\ disk = EmptyImage
    /\ committed = {}
    /\ receipts = {}
    /\ lock = [b \in Backend |-> "none"]
    /\ view = [b \in Backend |-> NoView]
    /\ closed = [b \in Backend |-> FALSE]
    /\ stray = {}

StoreStep(b) ==
    \/ BeginRead(b)
    \/ \E op \in Op : BeginWrite(b, op)
    \/ \E write \in BOOLEAN : AdmissionFails(b, write)
    \/ \E d \in Intent : Create(b, d)
    \/ \E d \in Intent, expected \in 1 .. MaxRevision : Update(b, d, expected)
    \/ \E d \in Intent : RecordFails(b, d)
    \/ CommitDurable(b)
    \/ CommitLost(b)
    \/ Close(b)
    \/ CloseBackend(b)
    \/ Restart(b)
    \/ Reopen(b)
    \/ LookUp(b)
    \/ StrayEnds(b)

StoreNext == \E b \in Backend : StoreStep(b)

StoreSpec == StoreInit /\ [][StoreNext]_storeVars

-----------------------------------------------------------------------------
(* Type correctness of the database file, the locks and the views. *)
StoreTypeOK ==
    /\ disk \in Image
    /\ committed \in SUBSET Op
    /\ receipts \in SUBSET Entry
    /\ lock \in [Backend -> {"none", "shared", "reserved", "pending"}]
    /\ view \in [Backend -> View]
    /\ closed \in [Backend -> BOOLEAN]
    /\ stray \in SUBSET Backend

(* Explains: the image is exactly what the entries say.  Every revision of  *)
(* every record, from 1 to the current one, was written by exactly one      *)
(* entry, and the row holds what the last of them submitted.                *)
Explains(entries, image) ==
    /\ \A r \in Record : \A n \in 1 .. image.rows[r].rev :
          \E e \in entries : e.rec = r /\ e.rev = n
    /\ \A e \in entries : e.rev <= image.rows[e.rec].rev
    /\ \A e, f \in entries : e.rec = f.rec /\ e.rev = f.rev => e = f
    /\ \A e \in entries : e.rev = image.rows[e.rec].rev =>
          e.code = image.rows[e.rec].code /\ e.ref = image.rows[e.rec].ref

NumbersOnce(entries, image) ==
    /\ \A e, f \in entries : e.auto /\ f.auto /\ e.code = f.code => e = f
    /\ \A e \in entries : e.auto => e.code < image.next

DistinctCodes(image) ==
    \A r, s \in Record :
        Exists(image, r) /\ Exists(image, s)
        /\ image.rows[r].code = image.rows[s].code => r = s

ResolvedRefs(image) ==
    \A r \in Record : Exists(image, r) /\ image.rows[r].ref # NoRecord =>
        Exists(image, image.rows[r].ref)

Sound(entries, image) ==
    /\ Explains(entries, image)
    /\ NumbersOnce(entries, image)
    /\ DistinctCodes(image)
    /\ ResolvedRefs(image)

(* The committed rows are exactly what the commit receipts explain: no      *)
(* update is lost, none is applied twice, none is durable without its       *)
(* receipt (commit, _atomic_record and the revision in update's WHERE).     *)
ReceiptsExplainRows ==
    /\ Explains(receipts, disk)
    /\ \A e \in receipts : e.op \in committed

(* Numbers that _allocate_code gave once are never given again, even when   *)
(* the record that got one has since been updated to another code or the    *)
(* transaction that tried first was rolled back.                            *)
NumbersNeverReissued == NumbersOnce(receipts, disk)

(* The catalog holds no code twice, explicit and allocated ones together.   *)
CodesUnique == DistinctCodes(disk)

(* No committed record refers to a record that was rolled back with its     *)
(* savepoint or its transaction.                                            *)
ReferencesResolve == ResolvedRefs(disk)

(* What a reader of the file may rely on: numbers, codes and references.    *)
CatalogConsistent == NumbersNeverReissued /\ CodesUnique /\ ReferencesResolve

(* A connection that begin_read or begin_write opened and that still holds a *)
(* lock has an owner, which a later close can reach, whichever of admission, *)
(* cleanup, COMMIT and close failed (_PendingConnection).  The connections   *)
(* of `stray' have none, which docs/sqlite-catalog-admission-cleanup.md      *)
(* leaves open: they keep every COMMIT from taking effect until they end.    *)
LocksAreOwned == \A b \in Backend : lock[b] # "none" => view[b].kind # "none"

(* A write view works on the present database plus its own journal, so what *)
(* it validated (revisions, codes, numbers, references, the absence of its  *)
(* receipt) still holds when it commits, whatever the other backends did.   *)
Current(v) ==
    /\ v.op \in Op \ committed
    /\ \A e \in v.log :
          /\ e.op = v.op
          /\ e.rev > disk.rows[e.rec].rev
          /\ e.auto => e.code >= disk.next
    /\ v.image.next >= disk.next
    /\ \A r \in Record :
          /\ v.image.rows[r].rev >= disk.rows[r].rev
          /\ v.image.rows[r].rev = disk.rows[r].rev =>
                v.image.rows[r] = disk.rows[r]
    /\ Sound(receipts \cup v.log, v.image)

WritersAreCurrent == \A b \in Backend : Usable(view[b], "write") => Current(view[b])

(* No transaction is lost sight of, and none is overtaken.                  *)
TransactionsAreIsolated == LocksAreOwned /\ WritersAreCurrent

(* What the file locks say of the views; with it the properties above and   *)
(* below are inductive.                                                     *)
Holds(b, levels) == lock[b] \in levels

LockDiscipline ==
    \A b \in Backend :
        /\ Usable(view[b], "write") => Holds(b, {"reserved"})
        /\ Usable(view[b], "read") => Holds(b, {"shared"})
        /\ Holds(b, {"reserved", "pending"}) =>
              \A c \in Backend \ {b} : Holds(c, {"none", "shared"})

StoreInv ==
    /\ StoreTypeOK
    /\ ReceiptsExplainRows
    /\ NumbersNeverReissued
    /\ CodesUnique
    /\ ReferencesResolve
    /\ LocksAreOwned
    /\ WritersAreCurrent
    /\ LockDiscipline

(* A read view that is still usable sees one database state from its BEGIN  *)
(* to its close.                                                            *)
ReadersSeeOneState ==
    [][\A b \in Backend :
          Usable(view[b], "read") /\ Usable(view'[b], "read")
          => disk' = disk]_storeVars

(* The backend implements atomic, idempotent operations on the catalog: the *)
(* abstract database is the file, and what views and locks do is stuttering. *)
Atomic == INSTANCE AtomicCatalog
    WITH disk <- disk, committed <- committed, receipts <- receipts
AtomicSpec == Atomic!Spec

=============================================================================
