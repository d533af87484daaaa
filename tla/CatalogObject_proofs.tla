-------------------------- MODULE CatalogObject_proofs -------------------------
(***************************************************************************)
(* Proofs about CatalogStore and its clients, the objects of CatalogObject, *)
(* for any number of backends, records, codes, objects, processes and       *)
(* operations.                                                              *)
(*                                                                          *)
(* First the store: what one create or update does to an image and its      *)
(* entries, then the inductive invariant, then the refinement.  Then the    *)
(* objects: their steps are steps of the store, so that everything proved   *)
(* of the store holds for its clients, and what an object believes, reports *)
(* and retries is what the file says.                                       *)
(***************************************************************************)
EXTENDS CatalogObject, WellFoundedInduction, TLAPS

USE StoreAssumption

-----------------------------------------------------------------------------
(* A nonempty set of naturals has a least element. *)
LEMMA LeastNatural ==
    ASSUME NEW S \in SUBSET Nat, S # {}
    PROVE  \E m \in S : \A x \in S : m <= x
<1>1. PICK m \in S : \A y \in S : ~ (<<y, m>> \in OpToRel(<, Nat))
  BY NatLessThanWellFounded, WFMin, Zenon
<1>2. \A y \in S : ~ (y < m)
  BY <1>1 DEF OpToRel
<1> QED
  BY <1>2

(* _allocate_code returns a number of the free range whenever there is one. *)
LEMMA AllocateCodeFree ==
    ASSUME NEW image \in Image, FreeCodes(image) # {}
    PROVE  AllocateCode(image) \in FreeCodes(image)
<1>1. FreeCodes(image) \in SUBSET Nat
  BY DEF FreeCodes, Image
<1>2. \E c \in FreeCodes(image) : \A x \in FreeCodes(image) : c <= x
  BY <1>1, LeastNatural
<1> QED
  BY <1>2, Zenon DEF AllocateCode

(* A change of one record by one revision, with a code no other record has, *)
(* a reference that resolves and a number beyond the counter's past, keeps  *)
(* an image sound when its entry is journalled.                             *)
LEMMA ChangeKeepsSound ==
    ASSUME NEW entries \in SUBSET Entry, NEW image \in Image, NEW new \in Image,
           NEW rec \in Record, NEW e \in Entry,
           Sound(entries, image),
           e.rec = rec,
           e.rev = image.rows[rec].rev + 1,
           e.rev = new.rows[rec].rev,
           e.code = new.rows[rec].code,
           e.ref = new.rows[rec].ref,
           \A r \in Record \ {rec} : new.rows[r] = image.rows[r],
           \A r \in Record \ {rec} :
               Exists(image, r) => image.rows[r].code # e.code,
           e.ref # NoRecord => Exists(image, e.ref),
           image.next <= new.next,
           e.auto => image.next <= e.code /\ e.code < new.next
    PROVE  Sound(entries \cup {e}, new)
<1> USE DEF Image, Row, Entry, Code, Ref
<1>0. /\ \A r \in Record : image.rows[r].rev \in Nat /\ new.rows[r].rev \in Nat
      /\ \A f \in entries : f.rev \in Nat /\ f.rec \in Record /\ f.code \in Nat
      /\ e.rev \in Nat /\ e.code \in Nat
      /\ image.next \in Nat /\ new.next \in Nat
      /\ \A r \in Record : Exists(image, r) => Exists(new, r)
  BY DEF Exists
<1>1. Explains(entries \cup {e}, new)
  <2>1. ASSUME NEW r \in Record, NEW n \in 1 .. new.rows[r].rev
        PROVE  \E f \in entries \cup {e} : f.rec = r /\ f.rev = n
    <3>1. CASE r = rec /\ n = e.rev
      BY <3>1
    <3>2. CASE ~(r = rec /\ n = e.rev)
      <4>1. n \in 1 .. image.rows[r].rev
        BY <3>2, <1>0
      <4> QED BY <4>1 DEF Sound, Explains
    <3> QED BY <3>1, <3>2
  <2>2. ASSUME NEW f \in entries \cup {e}
        PROVE  f.rev <= new.rows[f.rec].rev
    <3>1. CASE f \in entries
      <4>1. f.rev <= image.rows[f.rec].rev
        BY <3>1 DEF Sound, Explains
      <4> QED BY <4>1, <3>1, <1>0
    <3> QED BY <3>1, <1>0
  <2>3. \A f \in entries : ~(f.rec = e.rec /\ f.rev = e.rev)
    BY <1>0 DEF Sound, Explains
  <2>4. ASSUME NEW f \in entries \cup {e}, NEW g \in entries \cup {e},
               f.rec = g.rec, f.rev = g.rev
        PROVE  f = g
    BY <2>3, <2>4 DEF Sound, Explains
  <2>5. ASSUME NEW f \in entries \cup {e}, f.rev = new.rows[f.rec].rev
        PROVE  f.code = new.rows[f.rec].code /\ f.ref = new.rows[f.rec].ref
    <3>1. CASE f \in entries
      <4>1. f.rec # rec
        BY <2>3, <2>5, <3>1
      <4> QED BY <4>1, <3>1, <2>5, <1>0 DEF Sound, Explains
    <3> QED BY <3>1
  <2> QED BY <2>1, <2>2, <2>4, <2>5 DEF Explains
<1>2. NumbersOnce(entries \cup {e}, new)
  BY <1>0 DEF Sound, NumbersOnce
<1>3. DistinctCodes(new)
  <2>1. \A r \in Record \ {rec} : Exists(new, r) <=> Exists(image, r)
    BY DEF Exists
  <2> QED BY <2>1 DEF Sound, DistinctCodes
<1>4. ResolvedRefs(new)
  <2>1. \A r \in Record \ {rec} : Exists(new, r) <=> Exists(image, r)
    BY DEF Exists
  <2> QED BY <2>1, <1>0 DEF Sound, ResolvedRefs
<1> QED
  BY <1>1, <1>2, <1>3, <1>4 DEF Sound

(* What staging draft d for operation op does: new is the image after it. *)
Staged(entries, image, new, op, d) ==
    LET e == ChangeEntry(op, d, new) IN
    /\ new \in Image
    /\ e \in Entry
    /\ e.op = op
    /\ e.rec = d.rec
    /\ d.rec \in Record
    /\ e.rev = image.rows[d.rec].rev + 1
    /\ e.rev = new.rows[d.rec].rev
    /\ e.auto => image.next <= e.code
    /\ image.next <= new.next
    /\ \A r \in Record \ {d.rec} : new.rows[r] = image.rows[r]
    /\ Sound(entries \cup {e}, new)

(* A staged record explains the row that it changes. *)
LEMMA StagedIfChanged ==
    ASSUME NEW entries \in SUBSET Entry, NEW image \in Image, NEW new \in Image,
           NEW op \in Op, NEW d \in Intent,
           Sound(entries, image),
           DraftOk(image, d),
           new.rows[d.rec].rev = image.rows[d.rec].rev + 1,
           new.rows[d.rec].ref = d.ref,
           \A r \in Record \ {d.rec} : new.rows[r] = image.rows[r],
           \A r \in Record \ {d.rec} :
               Exists(image, r) => image.rows[r].code # new.rows[d.rec].code,
           image.next <= new.next,
           d.auto => image.next <= new.rows[d.rec].code
                     /\ new.rows[d.rec].code < new.next
    PROVE  Staged(entries, image, new, op, d)
<1>1. PICK e : e = ChangeEntry(op, d, new)
  OBVIOUS
<1>2. /\ e.op = op /\ e.rec = d.rec /\ e.rev = new.rows[d.rec].rev
      /\ e.code = new.rows[d.rec].code /\ e.auto = d.auto /\ e.ref = d.ref
  BY <1>1 DEF ChangeEntry
<1>3. d.rec \in Record /\ d.auto \in BOOLEAN /\ d.ref \in Ref
  BY DEF Ref
<1>4. image.rows[d.rec] \in Row /\ new.rows[d.rec] \in Row
  BY <1>3 DEF Image
<1>5. e \in Entry
  <2>1. new.rows[d.rec].rev \in 1 .. MaxRevision
    BY <1>4 DEF Row
  <2> QED BY <2>1, <1>1, <1>3, <1>4 DEF Entry, ChangeEntry, Row
<1>6. Sound(entries \cup {e}, new)
  BY <1>2, <1>3, <1>5, ChangeKeepsSound DEF DraftOk
<1> QED
  BY <1>1, <1>2, <1>3, <1>5, <1>6 DEF Staged

(* create stages its draft on a sound image. *)
LEMMA InsertedStaged ==
    ASSUME NEW entries \in SUBSET Entry, NEW image \in Image, NEW d \in Intent,
           NEW op \in Op, CanInsert(image, d), Sound(entries, image)
    PROVE  Staged(entries, image, Inserted(image, d), op, d)
<1>1. PICK new : new = Inserted(image, d)
  OBVIOUS
<1>2. /\ d.rec \in Record /\ d.auto \in BOOLEAN /\ d.code \in Code /\ d.ref \in Ref
      /\ image.next \in 1 .. Ceiling
      /\ image.rows \in [Record -> Row]
  BY DEF Image, Code, Ref
<1>3. image.rows[d.rec].rev = 0
  BY <1>2 DEF CanInsert, Exists, Row
<1>4. ASSUME d.auto
      PROVE  /\ AllocateCode(image) \in image.next .. (Ceiling - 1)
             /\ AllocateCode(image) \notin UsedCodes(image)
  BY <1>4, AllocateCodeFree DEF CanInsert, FreeCodes
<1>5. NewCode(image, d) \in Code /\ NewCode(image, d) \notin UsedCodes(image)
  BY <1>2, <1>4 DEF NewCode, CanInsert, Code
<1>6. new.next \in 1 .. Ceiling /\ image.next <= new.next
  BY <1>1, <1>2, <1>4 DEF Inserted
<1>7. /\ new.rows[d.rec] = [rev |-> 1, code |-> NewCode(image, d), ref |-> d.ref]
      /\ \A r \in Record \ {d.rec} : new.rows[r] = image.rows[r]
  BY <1>1, <1>2 DEF Inserted
<1>8. new \in Image
  <2>1. [rev |-> 1, code |-> NewCode(image, d), ref |-> d.ref] \in Row
    BY <1>2, <1>5 DEF Row
  <2> QED BY <2>1, <1>1, <1>2, <1>6 DEF Inserted, Image
<1>9. d.auto => image.next <= new.rows[d.rec].code /\ new.rows[d.rec].code < new.next
  BY <1>1, <1>2, <1>4, <1>7 DEF NewCode, Inserted
<1>10. \A r \in Record \ {d.rec} :
          Exists(image, r) => image.rows[r].code # new.rows[d.rec].code
  BY <1>5, <1>7 DEF UsedCodes, Present
<1>11. DraftOk(image, d)
  BY DEF CanInsert
<1>12. Staged(entries, image, new, op, d)
  BY <1>3, <1>6, <1>7, <1>8, <1>9, <1>10, <1>11, StagedIfChanged
<1> QED
  BY <1>1, <1>12

(* update stages its draft on a sound image. *)
LEMMA UpdatedStaged ==
    ASSUME NEW entries \in SUBSET Entry, NEW image \in Image, NEW d \in Intent,
           NEW op \in Op, NEW expected \in 1 .. MaxRevision,
           CanUpdate(image, d, expected), Sound(entries, image)
    PROVE  Staged(entries, image, Updated(image, d, expected), op, d)
<1>1. PICK new : new = Updated(image, d, expected)
  OBVIOUS
<1>2. /\ d.rec \in Record /\ d.code \in Code /\ d.ref \in Ref
      /\ image.next \in 1 .. Ceiling
      /\ image.rows \in [Record -> Row]
  BY DEF Image, Code, Ref
<1>3. image.rows[d.rec].rev = expected /\ expected + 1 \in 1 .. MaxRevision /\ ~d.auto
  BY DEF CanUpdate
<1>4. new = [rows |-> [image.rows EXCEPT ![d.rec] =
                         [rev |-> expected + 1, code |-> d.code, ref |-> d.ref]],
             next |-> image.next]
  BY <1>1 DEF Updated, Image
<1>5. /\ new.rows[d.rec] = [rev |-> expected + 1, code |-> d.code, ref |-> d.ref]
      /\ \A r \in Record \ {d.rec} : new.rows[r] = image.rows[r]
      /\ new.next = image.next
  BY <1>2, <1>4
<1>6. new \in Image
  <2>1. [rev |-> expected + 1, code |-> d.code, ref |-> d.ref] \in Row
    BY <1>2, <1>3 DEF Row
  <2> QED BY <2>1, <1>2, <1>4 DEF Image
<1>7. \A r \in Record \ {d.rec} :
          Exists(image, r) => image.rows[r].code # new.rows[d.rec].code
  BY <1>5 DEF CanUpdate, Present
<1>8. DraftOk(image, d)
  BY DEF CanUpdate
<1>9. Staged(entries, image, new, op, d)
  BY <1>2, <1>3, <1>5, <1>6, <1>7, <1>8, StagedIfChanged
<1> QED
  BY <1>1, <1>9

-----------------------------------------------------------------------------
(* The invariant. *)

Level == {"none", "shared", "reserved", "pending"}

(* The empty file and the absent view have their types. *)
LEMMA EmptyTyped == EmptyImage \in Image /\ NoView \in View
<1>1. AbsentRow \in Row
  BY DEF AbsentRow, Row, Code, Ref
<1>2. EmptyImage \in Image
  BY <1>1 DEF EmptyImage, Image
<1> QED
  BY <1>2 DEF NoView, View

(* An empty file without connections satisfies the invariant. *)
LEMMA InitInv == StoreInit => StoreInv
<1> SUFFICES ASSUME StoreInit PROVE StoreInv
  OBVIOUS
<1>1. \A b \in Backend : view[b].kind = "none" /\ lock[b] = "none"
  BY DEF StoreInit, NoView
<1>2. \A r \in Record : disk.rows[r].rev = 0
  BY DEF StoreInit, EmptyImage, AbsentRow
<1>3. StoreTypeOK
  BY EmptyTyped DEF StoreInit, StoreTypeOK
<1>4. ReceiptsExplainRows
  BY <1>2 DEF StoreInit, ReceiptsExplainRows, Explains
<1>5. NumbersNeverReissued
  BY DEF StoreInit, NumbersNeverReissued, NumbersOnce
<1>6. CodesUnique /\ ReferencesResolve
  BY <1>2 DEF CodesUnique, ReferencesResolve, DistinctCodes, ResolvedRefs, Exists
<1>7. LocksAreOwned /\ WritersAreCurrent /\ LockDiscipline
  BY <1>1 DEF LocksAreOwned, WritersAreCurrent, LockDiscipline, Usable, Holds
<1> QED
  BY <1>3, <1>4, <1>5, <1>6, <1>7 DEF StoreInv

(* A step that leaves the file alone and moves one backend to a view and a  *)
(* lock that fit each other.                                                *)
LEMMA QuietStep ==
    ASSUME StoreInv,
           NEW b \in Backend, NEW v \in View, NEW l \in Level,
           UNCHANGED <<disk, committed, receipts>>,
           closed' \in [Backend -> BOOLEAN] /\ stray' \in SUBSET Backend,
           view' = [view EXCEPT ![b] = v],
           lock' = [lock EXCEPT ![b] = l],
           l # "none" => v.kind # "none",
           Usable(v, "write") => l = "reserved" /\ Current(v),
           Usable(v, "read") => l = "shared",
           l \in {"reserved", "pending"} =>
               \A c \in Backend \ {b} : lock[c] \in {"none", "shared"}
    PROVE  StoreInv'
<1>1. view \in [Backend -> View] /\ lock \in [Backend -> Level]
  BY DEF StoreInv, StoreTypeOK, Level
<1>2. /\ view'[b] = v /\ lock'[b] = l
      /\ \A c \in Backend \ {b} : view'[c] = view[c] /\ lock'[c] = lock[c]
  BY <1>1
<1>3. StoreTypeOK'
  BY <1>1 DEF StoreInv, StoreTypeOK, Level
<1>4. /\ ReceiptsExplainRows' /\ NumbersNeverReissued'
      /\ CodesUnique' /\ ReferencesResolve'
  BY DEF StoreInv, ReceiptsExplainRows, NumbersNeverReissued, CodesUnique,
         ReferencesResolve, Explains, NumbersOnce, DistinctCodes, ResolvedRefs, Exists
<1>5. LocksAreOwned'
  BY <1>2 DEF StoreInv, LocksAreOwned
<1>6. WritersAreCurrent'
  <2>1. ASSUME NEW c \in Backend, Usable(view'[c], "write")
        PROVE  Current(view'[c])
    <3>1. CASE c = b
      BY <3>1, <1>2, <2>1
    <3>2. CASE c # b
      BY <3>2, <1>2, <2>1 DEF StoreInv, WritersAreCurrent
    <3> QED BY <3>1, <3>2
  <2> SUFFICES ASSUME NEW c \in Backend, Usable(view'[c], "write")
               PROVE  Current(view[c])'
    BY DEF WritersAreCurrent, Usable
  <2>2. PICK w : w = view'[c]
    OBVIOUS
  <2>3. Current(w)
    BY <2>1, <2>2
  <2>4. Current(w)'
    BY <2>3 DEF Current
  <2> QED
    BY <2>2, <2>4 DEF Current
<1>7. LockDiscipline'
  <2>1. ASSUME NEW c \in Backend
        PROVE  /\ Usable(view'[c], "write") => lock'[c] = "reserved"
               /\ Usable(view'[c], "read") => lock'[c] = "shared"
    <3>1. CASE c = b
      BY <3>1, <1>2
    <3>2. CASE c # b
      BY <3>2, <1>2 DEF StoreInv, LockDiscipline, Holds
    <3> QED BY <3>1, <3>2
  <2>2. ASSUME NEW c \in Backend, lock'[c] \in {"reserved", "pending"},
               NEW x \in Backend \ {c}
        PROVE  lock'[x] \in {"none", "shared"}
    <3>1. CASE c = b
      BY <3>1, <2>2, <1>2
    <3>2. CASE c # b
      <4>1. lock[c] \in {"reserved", "pending"}
        BY <3>2, <2>2, <1>2
      <4>2. \A y \in Backend \ {c} : lock[y] \in {"none", "shared"}
        BY <4>1 DEF StoreInv, LockDiscipline, Holds
      <4>3. CASE x = b
        <5>1. l \notin {"reserved", "pending"}
          BY <3>2, <4>1
        <5> QED BY <5>1, <4>3, <1>2 DEF Level
      <4>4. CASE x # b
        BY <4>2, <4>4, <1>2
      <4> QED BY <4>3, <4>4
    <3> QED BY <3>1, <3>2
  <2> QED BY <2>1, <2>2 DEF LockDiscipline, Holds, Usable
<1> QED
  BY <1>3, <1>4, <1>5, <1>6, <1>7 DEF StoreInv

(* A reader takes its snapshot. *)
LEMMA BeginReadInv ==
    ASSUME StoreInv, NEW b \in Backend, BeginRead(b) PROVE StoreInv'
<1>1. /\ view[b] \in View /\ view[b].kind = "none"
      /\ view \in [Backend -> View]
      /\ closed' \in [Backend -> BOOLEAN] /\ stray' \in SUBSET Backend
  BY DEF BeginRead, Admissible, StoreInv, StoreTypeOK
<1>2. PICK v : v = [view[b] EXCEPT !.kind = "read"]
  OBVIOUS
<1>3. v \in View /\ v.kind = "read"
  BY <1>1, <1>2 DEF View
<1>4. view' = [view EXCEPT ![b] = v]
  BY <1>1, <1>2 DEF BeginRead
<1> QED
  BY <1>1, <1>3, <1>4, QuietStep DEF BeginRead, Level, Usable

(* A writer takes its transaction over the current file. *)
LEMMA BeginWriteInv ==
    ASSUME StoreInv, NEW b \in Backend, NEW op \in Op, BeginWrite(b, op)
    PROVE  StoreInv'
<1>1. PICK v : v = [kind |-> "write", dead |-> FALSE, op |-> op,
                    image |-> disk, log |-> {}]
  OBVIOUS
<1>2. v \in View
  BY <1>1 DEF View, StoreInv, StoreTypeOK
<1>3. \A r \in Record : disk.rows[r].rev \in Nat
  BY DEF StoreInv, StoreTypeOK, Image, Row
<1>4. disk.next \in Nat
  BY DEF StoreInv, StoreTypeOK, Image
<1>5. Sound(receipts \cup {}, disk)
  BY DEF StoreInv, ReceiptsExplainRows, NumbersNeverReissued, CodesUnique,
         ReferencesResolve, Sound
<1>6. Current(v)
  BY <1>1, <1>3, <1>4, <1>5 DEF Current, BeginWrite
<1>7. closed' \in [Backend -> BOOLEAN] /\ stray' \in SUBSET Backend
  BY DEF BeginWrite, StoreInv, StoreTypeOK
<1> QED
  BY <1>1, <1>2, <1>6, <1>7, QuietStep
  DEF BeginWrite, CanReserve, Level, Usable

(* A view that gives its caller nothing any more, with a lock it may keep. *)
LEMMA DropInv ==
    ASSUME StoreInv, NEW b \in Backend, NEW v \in View, NEW l \in Level,
           UNCHANGED <<disk, committed, receipts>>,
           closed' \in [Backend -> BOOLEAN] /\ stray' \in SUBSET Backend,
           view' = [view EXCEPT ![b] = v],
           lock' = [lock EXCEPT ![b] = l],
           v.kind = "none" \/ v.dead,
           l # "none" => v.kind # "none",
           l \in {"reserved", "pending"} =>
              lock[b] \in {"reserved", "pending"} \/ CanReserve(b)
    PROVE  StoreInv'
<1>1. ~Usable(v, "write") /\ ~Usable(v, "read")
  BY DEF Usable
<1>2. l \in {"reserved", "pending"} =>
         \A c \in Backend \ {b} : lock[c] \in {"none", "shared"}
  BY DEF StoreInv, LockDiscipline, Holds, CanReserve
<1> QED
  BY <1>1, <1>2, QuietStep

(* A connection gives up its view and its locks. *)
LEMMA ReleaseInv ==
    ASSUME StoreInv, NEW b \in Backend, Release(b),
           UNCHANGED <<disk, committed, receipts>>,
           closed' \in [Backend -> BOOLEAN] /\ stray' \in SUBSET Backend
    PROVE  StoreInv'
<1>1. NoView \in View /\ NoView.kind = "none" /\ "none" \in Level
  BY EmptyTyped DEF NoView, Level
<1> QED
  BY <1>1, DropInv DEF Release

(* A connection whose end is unsure keeps some of its locks. *)
LEMMA RetainInv ==
    ASSUME StoreInv, NEW b \in Backend, NEW held \in SUBSET Level,
           view[b].kind # "none",
           \A l \in held : l \in {"reserved", "pending"} =>
                             lock[b] \in {"reserved", "pending"},
           Retain(b, held),
           UNCHANGED <<disk, committed, receipts>>,
           closed' \in [Backend -> BOOLEAN] /\ stray' \in SUBSET Backend
    PROVE  StoreInv'
<1>1. PICK l \in {"none"} \cup held : lock' = [lock EXCEPT ![b] = l]
  BY DEF Retain
<1>2. PICK v : v = [NoView EXCEPT !.kind = view[b].kind, !.dead = TRUE]
  OBVIOUS
<1>3. view[b].kind \in {"none", "pending", "read", "write"}
  BY DEF StoreInv, StoreTypeOK, View
<1>4. v \in View /\ v.dead /\ v.kind = view[b].kind
  BY <1>2, <1>3, EmptyTyped DEF View
<1>5. view' = [view EXCEPT ![b] = v]
  BY <1>2 DEF Retain
<1>6. l \in Level
  BY DEF Level
<1> QED
  BY <1>1, <1>4, <1>5, <1>6, DropInv

(* A connection is refused after it has taken a lock. *)
LEMMA AdmissionFailsInv ==
    ASSUME StoreInv, NEW b \in Backend, NEW write \in BOOLEAN,
           AdmissionFails(b, write)
    PROVE  StoreInv'
<1>1. PICK l \in {"none"} \cup (IF CanShare(b) THEN {"shared"} ELSE {})
                   \cup (IF write /\ CanReserve(b) /\ b \notin ReadOnly
                         THEN {"reserved"} ELSE {}) :
          lock' = [lock EXCEPT ![b] = l]
  BY DEF AdmissionFails
<1>2. PICK v : v = [NoView EXCEPT !.kind = "pending", !.dead = TRUE]
  OBVIOUS
<1>3. v \in View /\ v.dead /\ v.kind = "pending"
  BY <1>2, EmptyTyped DEF View
<1>4. l \in Level /\ (l \in {"reserved", "pending"} => CanReserve(b))
  BY <1>1 DEF Level
<1>5. closed' \in [Backend -> BOOLEAN] /\ stray' \in SUBSET Backend
  BY DEF AdmissionFails, StoreInv, StoreTypeOK
<1> QED
  BY <1>1, <1>2, <1>3, <1>4, <1>5, DropInv DEF AdmissionFails

(* Staging a draft in a write view. *)
LEMMA StageInv ==
    ASSUME StoreInv, NEW b \in Backend, NEW d \in Intent, NEW new,
           Writable(b),
           Staged(receipts \cup view[b].log, view[b].image, new, view[b].op, d),
           RecordChange(b, d, new),
           UNCHANGED <<disk, committed, receipts, lock, closed, stray>>
    PROVE  StoreInv'
<1>1. PICK w : w = view[b]
  OBVIOUS
<1>2. PICK e : e = ChangeEntry(w.op, d, new)
  OBVIOUS
<1>3. PICK v : v = [w EXCEPT !.image = new, !.log = w.log \cup {e}]
  OBVIOUS
<1>4. w \in View /\ w.kind = "write" /\ ~w.dead /\ Current(w)
  BY <1>1 DEF Writable, Usable, StoreInv, StoreTypeOK, WritersAreCurrent
<1>5. Staged(receipts \cup w.log, w.image, new, w.op, d)
  BY <1>1
<1>6. /\ v.kind = "write" /\ ~v.dead /\ v.op = w.op /\ v.image = new
      /\ v.log = w.log \cup {e}
      /\ v \in View
  BY <1>2, <1>3, <1>4, <1>5 DEF View, Staged
<1>7. Current(v)
  <2>1. /\ e.op = w.op /\ e.rec = d.rec /\ d.rec \in Record
        /\ e.rev = w.image.rows[d.rec].rev + 1
        /\ e.rev = new.rows[d.rec].rev
        /\ e.auto => w.image.next <= e.code
        /\ w.image.next <= new.next
        /\ \A r \in Record \ {d.rec} : new.rows[r] = w.image.rows[r]
        /\ Sound((receipts \cup w.log) \cup {e}, new)
        /\ e \in Entry /\ new \in Image
    BY <1>2, <1>5 DEF Staged
  <2>2. Sound(receipts \cup v.log, v.image)
    <3>1. (receipts \cup w.log) \cup {e} = receipts \cup v.log
      BY <1>6
    <3> QED BY <3>1, <2>1, <1>6
  <2>3. /\ \A r \in Record : /\ disk.rows[r].rev \in Nat
                             /\ w.image.rows[r].rev \in Nat
                             /\ new.rows[r].rev \in Nat
        /\ disk.next \in Nat /\ w.image.next \in Nat /\ new.next \in Nat
        /\ e.code \in Nat
    BY <1>4, <2>1 DEF StoreInv, StoreTypeOK, View, Image, Row, Entry, Code
  <2>4. /\ v.op \in Op \ committed
        /\ v.image.next >= disk.next
    BY <1>4, <1>6, <2>1, <2>3 DEF Current
  <2>5. ASSUME NEW f \in v.log
        PROVE  f.op = v.op /\ f.rev > disk.rows[f.rec].rev
               /\ (f.auto => f.code >= disk.next)
    <3>1. CASE f \in w.log
      BY <3>1, <1>4, <1>6 DEF Current
    <3>2. CASE f = e
      BY <3>2, <1>4, <1>6, <2>1, <2>3 DEF Current
    <3> QED BY <3>1, <3>2, <1>6
  <2>6. ASSUME NEW r \in Record
        PROVE  /\ v.image.rows[r].rev >= disk.rows[r].rev
               /\ v.image.rows[r].rev = disk.rows[r].rev =>
                     v.image.rows[r] = disk.rows[r]
    <3>1. CASE r = d.rec
      BY <3>1, <1>4, <1>6, <2>1, <2>3 DEF Current
    <3>2. CASE r # d.rec
      BY <3>2, <1>4, <1>6, <2>1, <2>3 DEF Current
    <3> QED BY <3>1, <3>2
  <2> QED BY <2>2, <2>4, <2>5, <2>6 DEF Current
<1>8. view' = [view EXCEPT ![b] = v]
  BY <1>1, <1>2, <1>3 DEF RecordChange, StoreInv, StoreTypeOK
<1>9. /\ lock \in [Backend -> Level] /\ lock[b] = "reserved"
      /\ lock' = [lock EXCEPT ![b] = "reserved"]
      /\ \A c \in Backend \ {b} : lock[c] \in {"none", "shared"}
  BY DEF Level, StoreInv, StoreTypeOK, LockDiscipline, Holds, Writable
<1>10. closed' \in [Backend -> BOOLEAN] /\ stray' \in SUBSET Backend
  BY DEF StoreInv, StoreTypeOK
<1> QED
  BY <1>6, <1>7, <1>8, <1>9, <1>10, QuietStep DEF Level, Usable

(* What a live writer holds. *)
LEMMA WritableFacts ==
    ASSUME StoreInv, NEW b \in Backend, Usable(view[b], "write")
    PROVE  /\ view[b].image \in Image
           /\ view[b].log \in SUBSET Entry
           /\ view[b].op \in Op
           /\ receipts \cup view[b].log \in SUBSET Entry
           /\ Sound(receipts \cup view[b].log, view[b].image)
           /\ lock[b] = "reserved"
BY DEF StoreInv, StoreTypeOK, View, WritersAreCurrent, Current, LockDiscipline, Holds

(* A record is inserted into the writer's view. *)
LEMMA CreateInv ==
    ASSUME StoreInv, NEW b \in Backend, NEW d \in Intent, Create(b, d)
    PROVE  StoreInv'
<1>1. Writable(b) /\ Usable(view[b], "write") /\ CanInsert(view[b].image, d)
  BY DEF Create, Writable
<1>2. Staged(receipts \cup view[b].log, view[b].image,
             Inserted(view[b].image, d), view[b].op, d)
  BY <1>1, WritableFacts, InsertedStaged
<1> QED
  BY <1>1, <1>2, StageInv DEF Create

(* A record is replaced in the writer's view. *)
LEMMA UpdateInv ==
    ASSUME StoreInv, NEW b \in Backend, NEW d \in Intent,
           NEW expected \in 1 .. MaxRevision, Update(b, d, expected)
    PROVE  StoreInv'
<1>1. Writable(b) /\ Usable(view[b], "write") /\ CanUpdate(view[b].image, d, expected)
  BY DEF Update, Writable
<1>2. Staged(receipts \cup view[b].log, view[b].image,
             Updated(view[b].image, d, expected), view[b].op, d)
  BY <1>1, WritableFacts, UpdatedStaged
<1> QED
  BY <1>1, <1>2, StageInv DEF Update

(* A connection is closed, its view with it. *)
LEMMA CloseOwnedInv ==
    ASSUME StoreInv, NEW b \in Backend, view[b].kind # "none", CloseOwned(b),
           UNCHANGED <<disk, committed, receipts>>,
           closed' \in [Backend -> BOOLEAN] /\ stray' \in SUBSET Backend
    PROVE  StoreInv'
<1>1. {lock[b]} \in SUBSET Level
  BY DEF StoreInv, StoreTypeOK, Level
<1> QED
  BY <1>1, ReleaseInv, RetainInv DEF CloseOwned

(* A step that changes nothing keeps the invariant. *)
LEMMA StutterInv == StoreInv /\ UNCHANGED storeVars => StoreInv'
<1> SUFFICES ASSUME StoreInv, UNCHANGED storeVars PROVE StoreInv'
  OBVIOUS
<1>1. /\ disk' = disk /\ committed' = committed /\ receipts' = receipts
      /\ lock' = lock /\ view' = view /\ closed' = closed /\ stray' = stray
  BY DEF storeVars
<1>2. StoreTypeOK'
  BY <1>1 DEF StoreInv, StoreTypeOK
<1> QED
  BY <1>1, <1>2
  DEF StoreInv, ReceiptsExplainRows, NumbersNeverReissued, CodesUnique,
      ReferencesResolve, LocksAreOwned, WritersAreCurrent, Current, LockDiscipline, Holds

(* A record fails: its view is rolled back to the savepoint, or closed. *)
LEMMA RecordFailsInv ==
    ASSUME StoreInv, NEW b \in Backend, NEW d \in Intent, RecordFails(b, d)
    PROVE  StoreInv'
<1>1. view[b].kind # "none" /\ closed' \in [Backend -> BOOLEAN] /\ stray' \in SUBSET Backend
  BY DEF RecordFails, Writable, Usable, StoreInv, StoreTypeOK
<1>2. CASE CloseOwned(b)
  BY <1>1, <1>2, CloseOwnedInv DEF RecordFails
<1>3. CASE UNCHANGED lock /\ \E partial \in PartialImages(view[b].image, d) :
              view' = [view EXCEPT ![b].image = Restored(view[b].image, partial)]
  <2>1. view \in [Backend -> View]
    BY DEF StoreInv, StoreTypeOK
  <2>2. view' = view
    BY <1>3, <2>1 DEF Restored, View
  <2>3. UNCHANGED storeVars
    BY <1>3, <2>2 DEF RecordFails, storeVars
  <2> QED
    BY <2>3, StutterInv
<1> QED
  BY <1>2, <1>3 DEF RecordFails

(* The receipt or the COMMIT fails without effect on the file. *)
LEMMA CommitLostInv ==
    ASSUME StoreInv, NEW b \in Backend, CommitLost(b) PROVE StoreInv'
<1>1. /\ view[b].kind # "none" /\ closed' \in [Backend -> BOOLEAN] /\ stray' \in SUBSET Backend
      /\ lock[b] = "reserved"
      /\ {"reserved", "pending"} \in SUBSET Level
  BY WritableFacts DEF CommitLost, Usable, StoreInv, StoreTypeOK, Level
<1> QED
  BY <1>1, ReleaseInv, RetainInv DEF CommitLost

(* A view is closed. *)
LEMMA CloseInv ==
    ASSUME StoreInv, NEW b \in Backend, Close(b) PROVE StoreInv'
BY CloseOwnedInv DEF Close, StoreInv, StoreTypeOK

(* A backend is closed. *)
LEMMA CloseBackendInv ==
    ASSUME StoreInv, NEW b \in Backend, CloseBackend(b) PROVE StoreInv'
<1>1. /\ closed \in [Backend -> BOOLEAN] /\ stray \in SUBSET Backend
      /\ {lock[b]} \in SUBSET Level
  BY DEF StoreInv, StoreTypeOK, Level
<1> QED
  BY <1>1, ReleaseInv, RetainInv DEF CloseBackend

(* A process restarts; its view and locks are gone. *)
LEMMA RestartInv ==
    ASSUME StoreInv, NEW b \in Backend, Restart(b) PROVE StoreInv'
<1>1. closed' \in [Backend -> BOOLEAN] /\ stray' \in SUBSET Backend
  BY DEF Restart, StoreInv, StoreTypeOK
<1> QED
  BY <1>1, ReleaseInv DEF Restart

(* What happens beside the views: a closed backend is opened anew, and a      *)
(* connection that nobody owns is lost, or ends.                            *)
LEMMA BesideInv ==
    ASSUME StoreInv, NEW b \in Backend, Reopen(b) \/ LookUp(b) \/ StrayEnds(b)
    PROVE  StoreInv'
<1>1. CASE UNCHANGED storeVars
  BY <1>1, StutterInv
<1>2. CASE Reopen(b) \/ LookUpFails(b) \/ StrayEnds(b)
  <2>1. /\ disk' = disk /\ committed' = committed /\ receipts' = receipts
        /\ view' = view /\ lock' = lock
    BY <1>2 DEF Reopen, LookUpFails, StrayEnds
  <2>2. closed' \in [Backend -> BOOLEAN] /\ stray' \in SUBSET Backend
    BY <1>2 DEF Reopen, LookUpFails, StrayEnds, StoreInv, StoreTypeOK
  <2>3. StoreTypeOK'
    BY <2>1, <2>2 DEF StoreInv, StoreTypeOK
  <2> QED
    BY <2>1, <2>3
    DEF StoreInv, ReceiptsExplainRows, NumbersNeverReissued, CodesUnique,
        ReferencesResolve, LocksAreOwned, WritersAreCurrent, Current, LockDiscipline, Holds
<1> QED
  BY <1>1, <1>2 DEF LookUp

(* The one step that changes the file: the journal becomes the receipt.  It *)
(* needs every other connection to hold no lock, so no other writer is left *)
(* that the change could make stale.                                        *)
LEMMA CommitDurableInv ==
    ASSUME StoreInv, NEW b \in Backend, CommitDurable(b) PROVE StoreInv'
<1>1. PICK w : w = view[b]
  OBVIOUS
<1>2. /\ w \in View /\ w.kind = "write" /\ w.op \in Op /\ Current(w)
      /\ Sound(receipts \cup w.log, w.image)
      /\ w.image \in Image /\ w.log \in SUBSET Entry
  BY <1>1, WritableFacts
     DEF CommitDurable, Usable, StoreInv, StoreTypeOK, WritersAreCurrent
<1>3. /\ disk' = w.image /\ committed' = committed \cup {w.op}
      /\ receipts' = receipts \cup w.log
      /\ closed' = closed /\ stray' = stray
  BY <1>1 DEF CommitDurable
<1>4. view \in [Backend -> View] /\ lock \in [Backend -> Level]
  BY DEF StoreInv, StoreTypeOK, Level
<1>5. PICK v \in View : /\ view' = [view EXCEPT ![b] = v]
                        /\ v.kind = "none" \/ v.dead
  <2>1. CASE Release(b)
    BY <2>1, EmptyTyped DEF Release, NoView
  <2>2. CASE Retain(b, {})
    <3>1. [NoView EXCEPT !.kind = w.kind, !.dead = TRUE] \in View
      BY <1>2, EmptyTyped DEF View
    <3>2. [NoView EXCEPT !.kind = w.kind, !.dead = TRUE].dead
      BY DEF NoView
    <3> QED BY <2>2, <3>1, <3>2, <1>1 DEF Retain
  <2> QED BY <2>1, <2>2 DEF CommitDurable
<1>6. lock' = [lock EXCEPT ![b] = "none"]
  BY DEF CommitDurable, Release, Retain
<1>7. \A c \in Backend : lock'[c] = "none"
  BY <1>4, <1>6 DEF CommitDurable, CanExclude
<1>8. \A c \in Backend : ~Usable(view'[c], "write") /\ ~Usable(view'[c], "read")
  <2>1. ~Usable(view'[b], "write") /\ ~Usable(view'[b], "read")
    BY <1>4, <1>5 DEF Usable
  <2>2. ASSUME NEW c \in Backend \ {b}
        PROVE  ~Usable(view'[c], "write") /\ ~Usable(view'[c], "read")
    BY <1>4, <1>5, <2>2
       DEF CommitDurable, CanExclude, StoreInv, LockDiscipline, Holds
  <2> QED BY <2>1, <2>2
<1>9. StoreTypeOK'
  BY <1>2, <1>3, <1>4, <1>5, <1>6 DEF StoreInv, StoreTypeOK, Level
<1>10. ReceiptsExplainRows'
  <2>1. \A e \in receipts' : e.op \in committed'
    BY <1>2, <1>3 DEF StoreInv, ReceiptsExplainRows, Current
  <2>2. Explains(receipts \cup w.log, w.image)
    BY <1>2 DEF Sound
  <2>3. Explains(receipts', disk')
    BY <1>3, <2>2
  <2> QED BY <2>1, <2>3 DEF ReceiptsExplainRows, Explains
<1>11. NumbersNeverReissued' /\ CodesUnique' /\ ReferencesResolve'
  BY <1>2, <1>3 DEF Sound, NumbersNeverReissued, CodesUnique, ReferencesResolve,
     NumbersOnce, DistinctCodes, ResolvedRefs, Exists
<1>12. LocksAreOwned' /\ LockDiscipline'
  BY <1>7, <1>8 DEF LocksAreOwned, LockDiscipline, Holds, Usable
<1>13. WritersAreCurrent'
  BY <1>8 DEF WritersAreCurrent, Usable
<1> QED
  BY <1>9, <1>10, <1>11, <1>12, <1>13 DEF StoreInv

(* Every step of every connection keeps the invariant. *)
LEMMA NextInv == StoreInv /\ [StoreNext]_storeVars => StoreInv'
<1> SUFFICES ASSUME StoreInv, [StoreNext]_storeVars PROVE StoreInv'
  OBVIOUS
<1>1. CASE UNCHANGED storeVars
  BY <1>1, StutterInv
<1>2. ASSUME NEW b \in Backend, StoreStep(b) PROVE StoreInv'
  BY <1>2, BeginReadInv, BeginWriteInv, AdmissionFailsInv, CreateInv, UpdateInv,
     RecordFailsInv, CommitDurableInv, CommitLostInv, CloseInv, CloseBackendInv,
     RestartInv, BesideInv
  DEF StoreStep
<1> QED
  BY <1>1, <1>2 DEF StoreNext

(* However many processes share the file and however they fail, StoreInv    *)
(* holds; the theorems that follow name its parts.                          *)
THEOREM StoreInvariant == StoreSpec => []StoreInv
BY InitInv, NextInv, PTL DEF StoreSpec

(* Type correctness. *)
THEOREM StoreTyped == StoreSpec => []StoreTypeOK
BY StoreInvariant, PTL DEF StoreInv

(* The committed rows are exactly what the commit receipts explain. *)
THEOREM ReceiptsAreExact == StoreSpec => []ReceiptsExplainRows
BY StoreInvariant, PTL DEF StoreInv

(* An allocated number is never allocated again. *)
THEOREM NumbersAreFresh == StoreSpec => []NumbersNeverReissued
BY StoreInvariant, PTL DEF StoreInv

(* No code is held by two records. *)
THEOREM CodesStayUnique == StoreSpec => []CodesUnique
BY StoreInvariant, PTL DEF StoreInv

(* No committed record refers to one that does not exist. *)
THEOREM ReferencesStayResolved == StoreSpec => []ReferencesResolve
BY StoreInvariant, PTL DEF StoreInv

(* The three together, for whoever reads the committed database. *)
THEOREM CatalogStaysConsistent == StoreSpec => []CatalogConsistent
<1>1. StoreInv => CatalogConsistent
  BY DEF StoreInv, CatalogConsistent
<1> QED
  BY <1>1, StoreInvariant, PTL

(* What a write view validated still holds when it commits. *)
THEOREM WritersStayCurrent == StoreSpec => []WritersAreCurrent
BY StoreInvariant, PTL DEF StoreInv

(* No lock of a view's or an admission's connection is without an owner that *)
(* can close it, though connections beside them may be lost with theirs.     *)
THEOREM LocksStayOwned == StoreSpec => []LocksAreOwned
BY StoreInvariant, PTL DEF StoreInv

(* The two together: no transaction is lost sight of or overtaken. *)
THEOREM TransactionsStayIsolated == StoreSpec => []TransactionsAreIsolated
<1>1. StoreInv => TransactionsAreIsolated
  BY DEF StoreInv, TransactionsAreIsolated
<1> QED
  BY <1>1, StoreInvariant, PTL

-----------------------------------------------------------------------------
(* The database changes only at a durable COMMIT. *)
LEMMA OnlyCommitChangesDisk ==
    ASSUME NEW b \in Backend, StoreStep(b), ~CommitDurable(b)
    PROVE  UNCHANGED <<disk, committed, receipts>>
BY DEF StoreStep, BeginRead, BeginWrite, AdmissionFails, Create, Update, RecordFails,
       CommitLost, Close, CloseBackend, Restart, Reopen, LookUp, LookUpFails, StrayEnds,
       storeVars

(* A read view sees one database state for as long as it is usable. *)
THEOREM ReadsAreSnapshots == StoreSpec => ReadersSeeOneState
<1> DEFINE Kept == \A b \in Backend :
                     Usable(view[b], "read") /\ Usable(view'[b], "read") => disk' = disk
<1>1. StoreInv /\ [StoreNext]_storeVars => [Kept]_storeVars
  <2> SUFFICES ASSUME StoreInv, NEW c \in Backend, StoreStep(c),
                      NEW b \in Backend,
                      Usable(view[b], "read"), Usable(view'[b], "read")
               PROVE  disk' = disk
    BY DEF StoreNext
  <2>1. CASE ~CommitDurable(c)
    BY <2>1, OnlyCommitChangesDisk
  <2>2. CASE CommitDurable(c)
    <3>1. lock[b] = "shared"
      BY DEF StoreInv, LockDiscipline, Holds
    <3>2. b = c
      BY <2>2, <3>1 DEF CommitDurable, CanExclude
    <3> QED
      BY <2>2, <3>2 DEF CommitDurable, Usable
  <2> QED
    BY <2>1, <2>2
<1> QED
  BY <1>1, StoreInvariant, PTL DEF StoreSpec, ReadersSeeOneState

(* Every step of the backends is a step of AtomicCatalog or changes nothing *)
(* that it shows: an operation takes effect at most once and all at once.   *)
LEMMA CommitApplies ==
    ASSUME StoreInv, NEW b \in Backend, CommitDurable(b)
    PROVE  Atomic!Apply(view[b].op)
<1>1. PICK w : w = view[b]
  OBVIOUS
<1>2. /\ Current(w) /\ w.op \in Op \ committed
      /\ w.log \in SUBSET Entry
      /\ w.image \in Image
      /\ Explains(receipts \cup w.log, w.image)
  BY <1>1, WritableFacts
     DEF CommitDurable, Usable, StoreInv, WritersAreCurrent, Current, Sound
<1>3. /\ disk' = w.image /\ committed' = committed \cup {w.op}
      /\ receipts' = receipts \cup w.log
  BY <1>1 DEF CommitDurable
<1>4. receipts' \ receipts = w.log
  <2>1. \A e \in receipts : e.op \in committed
    BY DEF StoreInv, ReceiptsExplainRows
  <2>2. \A e \in w.log : e.op = w.op
    BY <1>2 DEF Current
  <2> QED BY <1>2, <1>3, <2>1, <2>2
<1>5. /\ \A r \in Record : disk.rows[r].rev \in Nat /\ w.image.rows[r].rev \in Nat
      /\ \A e \in receipts \cup w.log :
            e.rec \in Record /\ e.rev \in 1 .. MaxRevision /\ e.code \in Nat
      /\ disk.next \in Nat /\ w.image.next \in Nat
  BY <1>2 DEF StoreInv, StoreTypeOK, Image, Row, Entry, Code
<1>6. Atomic!Consecutive
  <2>1. \A e \in w.log : e.rev > disk.rows[e.rec].rev /\ e.rev <= w.image.rows[e.rec].rev
    BY <1>2 DEF Current, Explains
  <2>2. ASSUME NEW r \in Record, NEW n \in disk.rows[r].rev + 1 .. w.image.rows[r].rev
        PROVE  \E e \in w.log : e.rec = r /\ e.rev = n
    <3>1. n \in 1 .. w.image.rows[r].rev /\ n > disk.rows[r].rev
      BY <1>5
    <3>2. PICK e \in receipts \cup w.log : e.rec = r /\ e.rev = n
      BY <1>2, <3>1 DEF Explains
    <3>3. e \notin receipts
      BY <1>5, <3>1, <3>2 DEF StoreInv, ReceiptsExplainRows, Explains
    <3> QED BY <3>2, <3>3
  <2>3. \A r \in Record : w.image.rows[r].rev >= disk.rows[r].rev
    BY <1>2 DEF Current
  <2> QED BY <1>3, <1>4, <2>1, <2>2, <2>3 DEF Atomic!Consecutive
<1>7. Atomic!Exact
  <2>1. \A r \in Record : w.image.rows[r].rev = disk.rows[r].rev =>
                            w.image.rows[r] = disk.rows[r]
    BY <1>2 DEF Current
  <2>2. \A e \in w.log : e.rev = w.image.rows[e.rec].rev =>
            e.code = w.image.rows[e.rec].code /\ e.ref = w.image.rows[e.rec].ref
    BY <1>2 DEF Explains
  <2> QED BY <1>3, <1>4, <2>1, <2>2 DEF Atomic!Exact
<1>8. Atomic!Numbered
  <2>1. NumbersOnce(receipts \cup w.log, w.image)
    BY <1>2 DEF Current, Sound
  <2> QED BY <1>2, <1>3, <1>4, <2>1 DEF Atomic!Numbered, Current, NumbersOnce
<1> QED
  BY <1>1, <1>2, <1>3, <1>4, <1>6, <1>7, <1>8 DEF Atomic!Apply, Current

(* The store implements AtomicCatalog: every step is an atomic write or none. *)
THEOREM StoreImplementsAtomicCatalog == StoreSpec => AtomicSpec
<1>1. StoreInit => Atomic!Init
  BY DEF StoreInit, Atomic!Init, EmptyImage, AbsentRow
<1>2. StoreInv /\ [StoreNext]_storeVars => [Atomic!Next]_(Atomic!vars)
  <2> SUFFICES ASSUME StoreInv, [StoreNext]_storeVars
               PROVE  [Atomic!Next]_(Atomic!vars)
    OBVIOUS
  <2>1. CASE UNCHANGED storeVars
    BY <2>1 DEF storeVars, Atomic!vars
  <2>2. ASSUME NEW b \in Backend, StoreStep(b)
        PROVE  [Atomic!Next]_(Atomic!vars)
    <3>1. CASE CommitDurable(b)
      <4>1. view[b].op \in Op
        BY <3>1, WritableFacts DEF CommitDurable
      <4> QED BY <3>1, <4>1, CommitApplies DEF Atomic!Next
    <3>2. CASE ~CommitDurable(b)
      BY <2>2, <3>2, OnlyCommitChangesDisk DEF Atomic!vars
    <3> QED BY <3>1, <3>2
  <2> QED BY <2>1, <2>2 DEF StoreNext
<1> QED
  BY <1>1, <1>2, StoreInvariant, PTL DEF StoreSpec, AtomicSpec, Atomic!Spec

-----------------------------------------------------------------------------
(* The objects. *)

USE ObjectAssumption

(* The invariant. *)

Buffer == [pc : PC, op : Op \cup {NoOp}, pending : Pending \cup {NoPending},
           rec : Record \cup {NoRecord}, rev : 0 .. MaxRevision, code : Code, ref : Ref]
Told == [op : Op, rec : Record, rev : 1 .. MaxRevision, code : Code, ref : Ref]

ObjectTyped ==
    /\ obj \in [Object -> Buffer]
    /\ \A o \in Object : obj[o].pc # "gone" => obj[o].rec \in Record
    /\ issued \in SUBSET Op
    /\ told \in SUBSET Told
    /\ faults \in 0 .. MaxFaults

(* An operation id belongs to one object, and only ids that were drawn can  *)
(* have taken effect, so the next one drawn is new to the file.             *)
OpsAreOwned ==
    /\ \A o \in Object : obj[o].op \in issued \cup {NoOp}
    /\ \A o, p \in Object : obj[o].op = obj[p].op /\ obj[o].op # NoOp => o = p
    /\ committed \subseteq issued

(* One Write at a time in a process. *)
Busy(o) == obj[o].pc \notin {"gone", "idle"}
OneWriteAtATime ==
    \A o, p \in Object : Home[o] = Home[p] /\ Busy(o) /\ Busy(p) => o = p

(* What the buffer would submit: a write in doubt is exactly that. *)
Buffered(o) == [d |-> DraftOf(o), expected |-> obj[o].rev, op |-> obj[o].op]

DoubtSound(o) ==
    /\ IsPending(o) => obj[o].pending = Buffered(o)
    /\ ~IsPending(o) => obj[o].op \notin committed
    /\ \A e \in receipts :
          IsPending(o) /\ e.op = obj[o].op => Answers(e, obj[o].pending)
    /\ obj[o].rev > 0 =>
          obj[o].rec \in Record /\ obj[o].rev <= disk.rows[obj[o].rec].rev

(* What a Write in progress knows of its own view. *)
ProgressSound(o) ==
    /\ Busy(o) => obj[o].op # NoOp
    /\ obj[o].pc \in {"resolve", "commit"} => IsPending(o)
    /\ obj[o].pc \in {"stage", "commit"} =>
          Usable(view[Home[o]], "write") /\ view[Home[o]].op = obj[o].op
    /\ obj[o].pc = "stage" => view[Home[o]].log = {}
    /\ obj[o].pc = "commit" =>
          \E e \in Entry : view[Home[o]].log = {e} /\ Answers(e, obj[o].pending)

ToldIsDurable ==
    \A t \in told : \E e \in receipts :
        e.op = t.op /\ e.rec = t.rec /\ e.rev = t.rev /\ e.code = t.code /\ e.ref = t.ref
OneOutcome == \A e, f \in receipts : e.op = f.op => e = f

ObjectInv ==
    /\ ObjectTyped
    /\ OpsAreOwned
    /\ OneWriteAtATime
    /\ \A o \in Object : DoubtSound(o)
    /\ \A o \in Object : ProgressSound(o)
    /\ ToldIsDurable
    /\ OneOutcome

-----------------------------------------------------------------------------
(* What the steps of the store leave alone, and what they only add to. *)

(* What the store's invariant says of the types. *)
LEMMA FileFacts ==
    ASSUME StoreInv
    PROVE  /\ \A r \in Record : disk.rows[r] \in Row
           /\ disk \in Image
           /\ receipts \in SUBSET Entry
           /\ committed \in SUBSET Op
           /\ view \in [Backend -> View]
           /\ \A e \in receipts : e.op \in committed /\ e.rev <= disk.rows[e.rec].rev
BY DEF StoreInv, StoreTypeOK, Image, ReceiptsExplainRows, Explains

(* A step of one connection leaves the views of the others. *)
LEMMA OtherViews ==
    ASSUME StoreInv, NEW b \in Backend, StoreStep(b)
    PROVE  \A c \in Backend \ {b} : view'[c] = view[c]
<1>1. view \in [Backend -> View]
  BY FileFacts
<1>2. CASE \/ BeginRead(b) \/ \E op \in Op : BeginWrite(b, op)
           \/ \E write \in BOOLEAN : AdmissionFails(b, write)
  BY <1>1, <1>2 DEF BeginRead, AdmissionFails, BeginWrite
<1>3. CASE \/ \E d \in Intent : Create(b, d)
           \/ \E d \in Intent, expected \in 1 .. MaxRevision : Update(b, d, expected)
  <2>1. PICK d, new : d \in Intent /\ RecordChange(b, d, new)
    BY <1>3 DEF Create, Update
  <2> QED BY <1>1, <2>1 DEF RecordChange
<1>4. CASE CloseOwned(b) \/ CommitDurable(b) \/ CommitLost(b) \/ Close(b)
           \/ CloseBackend(b) \/ Restart(b)
  BY <1>1, <1>4 DEF CloseOwned, CommitDurable, CommitLost, Close, CloseBackend, Restart,
     Release, Retain
<1>5. CASE \E d \in Intent : RecordFails(b, d)
  BY <1>1, <1>4, <1>5 DEF RecordFails
<1>6. CASE Reopen(b) \/ LookUp(b) \/ StrayEnds(b)
  BY <1>6 DEF Reopen, LookUp, LookUpFails, StrayEnds, storeVars
<1> QED
  BY <1>2, <1>3, <1>4, <1>5, <1>6 DEF StoreStep

(* The file only grows: no receipt is withdrawn, no revision goes back.     *)
LEMMA FileGrows ==
    ASSUME StoreInv, [StoreNext]_storeVars
    PROVE  /\ receipts \subseteq receipts' /\ committed \subseteq committed'
           /\ \A r \in Record : disk.rows[r].rev <= disk'.rows[r].rev
<1>1. \A r \in Record : disk.rows[r].rev \in Nat
  BY FileFacts DEF Row
<1>2. CASE UNCHANGED <<disk, committed, receipts>>
  <2>1. disk' = disk /\ committed' = committed /\ receipts' = receipts
    BY <1>2
  <2> QED BY <1>1, <2>1
<1>3. ASSUME NEW b \in Backend, CommitDurable(b)
      PROVE  /\ receipts \subseteq receipts' /\ committed \subseteq committed'
             /\ \A r \in Record : disk.rows[r].rev <= disk'.rows[r].rev
  <2>1. Current(view[b]) /\ view[b].image \in Image
    BY <1>3, WritableFacts DEF CommitDurable, StoreInv, WritersAreCurrent
  <2> QED BY <1>1, <1>3, <2>1 DEF CommitDurable, Current, Image, Row
<1> QED
  BY <1>2, <1>3, OnlyCommitChangesDisk DEF StoreNext, storeVars

(* No pending write is the absence of one. *)
LEMMA NoPendingApart == NoPending \notin Pending
<1>1. \A p \in Pending : p.op \in Op
  BY DEF Pending
<1>2. NoPending.op = NoOp
  BY DEF NoPending
<1> QED
  BY <1>1, <1>2

(* uuid4 gives an id that no object has drawn before. *)
LEMMA FreshOpIsFresh ==
    ASSUME issued \in SUBSET Op
    PROVE  /\ FreshOp \in Op \cup {NoOp}
           /\ FreshOp \notin issued
           /\ FreshOp \in (issued \cup ({FreshOp} \cap Op)) \cup {NoOp}
<1>1. CASE Op \ issued = {}
  <2>1. FreshOp = NoOp /\ NoOp \notin Op
    BY <1>1 DEF FreshOp
  <2> QED BY <2>1
<1>2. CASE Op \ issued # {}
  BY <1>2 DEF FreshOp
<1> QED
  BY <1>1, <1>2
-----------------------------------------------------------------------------
(* What a call of Write submits is what the buffer holds. *)
LEMMA SubmittedFacts ==
    ASSUME ObjectInv, NEW o \in Object
    PROVE  /\ obj[o] \in Buffer
           /\ Submitted(o) = Buffered(o)
           /\ obj[o].pc # "gone" => DraftOf(o) \in Intent /\ Buffered(o).d = DraftOf(o)
           /\ Home[o] \in Backend
           /\ issued \in SUBSET Op
<1>1. obj[o] \in Buffer /\ (obj[o].pc # "gone" => obj[o].rec \in Record)
  BY DEF ObjectInv, ObjectTyped
<1>2. Submitted(o) = Buffered(o)
  BY DEF ObjectInv, DoubtSound, Submitted, Buffered
<1>3. ASSUME obj[o].pc # "gone" PROVE DraftOf(o) \in Intent
  <2>1. /\ obj[o].rec \in Record /\ obj[o].code \in 0 .. (Ceiling - 1)
        /\ obj[o].ref \in Record \cup {NoRecord}
        /\ (obj[o].rev = 0 /\ obj[o].code = 0) \in BOOLEAN
    BY <1>1, <1>3 DEF Buffer, Code, Ref
  <2> QED BY <2>1 DEF DraftOf
<1> QED
  BY <1>1, <1>2, <1>3 DEF Buffered, ObjectInv, ObjectTyped

(* Every step of the objects and their hosts is a step of the store. *)
LEMMA StepIsStoreStep ==
    ASSUME ObjectInv, [Next]_vars PROVE [StoreNext]_storeVars
<1>1. CASE UNCHANGED vars
  BY <1>1 DEF vars, storeVars
<1>2. ASSUME NEW o \in Object,
             CreateItem(o) \/ GetObject(o) \/ SetMember(o) \/ Write(o)
      PROVE  UNCHANGED storeVars
  BY <1>2 DEF CreateItem, GetObject, SetMember, Write
<1>3. ASSUME NEW o \in Object, WriteStep(o)
      PROVE  UNCHANGED storeVars \/ StoreStep(Home[o])
  <2>1. CASE ResolveFound(o) \/ ResolveAbsent(o)
    BY <2>1 DEF ResolveFound, ResolveAbsent
  <2>2. CASE ResolveFails(o) \/ BeginFails(o)
    BY <2>2 DEF ResolveFails, BeginFails, StoreStep, LookUp
  <2>3. CASE Begin(o)
    <3>1. Submitted(o).op \in Op
      <4>1. obj[o].op \in Op /\ Submitted(o).op = obj[o].op
        BY <2>3, SubmittedFacts DEF Begin, ObjectInv, ProgressSound, Busy, Buffered, Buffer
      <4> QED BY <4>1
    <3> QED BY <2>3, <3>1 DEF Begin, StoreStep
  <2>4. CASE Stage(o)
    <3>1. /\ Submitted(o).d \in Intent
          /\ Submitted(o).expected \in 0 .. MaxRevision
      BY <2>4, SubmittedFacts DEF Stage, Buffered, Buffer
    <3> QED BY <2>4, <3>1 DEF Stage, StageChange, StoreStep
  <2>5. CASE StageFails(o)
    BY <2>5 DEF StageFails, StoreStep
  <2>6. CASE CommitAnswered(o) \/ CommitUncertain(o)
    BY <2>6 DEF CommitAnswered, CommitUncertain, StoreStep
  <2> QED
    BY <1>3, <2>1, <2>2, <2>3, <2>4, <2>5, <2>6 DEF WriteStep
<1>4. ASSUME NEW b \in Backend,
             \/ HostReads(b) \/ HostCloses(b) \/ HostLooksUp(b) \/ StrayGoes(b)
             \/ ProcessEnds(b)
      PROVE  StoreStep(b)
  BY <1>4 DEF HostReads, HostCloses, HostLooksUp, StrayGoes, ProcessEnds, StoreStep, LookUp
<1>5. \A o \in Object : Home[o] \in Backend
  OBVIOUS
<1> QED
  BY <1>1, <1>2, <1>3, <1>4, <1>5 DEF Next, StoreNext

-----------------------------------------------------------------------------
(* A step of one object: what it must leave sound, of itself and of others. *)
LEMMA CallerMoves ==
    ASSUME StoreInv, ObjectInv, NEW o \in Object, NEW buf \in Buffer,
           obj' = [obj EXCEPT ![o] = buf],
           buf.pc # "gone" => buf.rec \in Record,
           issued \subseteq issued', issued' \in SUBSET Op,
           buf.op \in issued' \cup {NoOp},
           buf.op = obj[o].op \/ buf.op \notin issued,
           told' \in SUBSET Told, ToldIsDurable', faults' \in 0 .. MaxFaults,
           receipts \subseteq receipts',
           \A e \in receipts' \ receipts : e.op = obj[o].op /\ e.op \in Op,
           committed' \subseteq committed \cup ({obj[o].op} \cap Op),
           OneOutcome',
           \A r \in Record : disk'.rows[r].rev \in Nat
                             /\ disk.rows[r].rev <= disk'.rows[r].rev,
           \A p \in Object \ {o} : Busy(p) => view'[Home[p]] = view[Home[p]],
           buf.pc \notin {"gone", "idle"} =>
               \A p \in Object \ {o} : Home[p] = Home[o] => ~Busy(p),
           DoubtSound(o)', ProgressSound(o)'
    PROVE  ObjectInv'
<1>1. /\ obj \in [Object -> Buffer]
      /\ obj'[o] = buf
      /\ \A p \in Object \ {o} : obj'[p] = obj[p]
  BY DEF ObjectInv, ObjectTyped
<1>2. ObjectTyped'
  BY <1>1 DEF ObjectInv, ObjectTyped
<1>3. OpsAreOwned'
  <2>1. \A p \in Object : obj'[p].op \in issued' \cup {NoOp}
    BY <1>1 DEF ObjectInv, OpsAreOwned
  <2>2. ASSUME NEW p \in Object, NEW q \in Object,
               obj'[p].op = obj'[q].op, obj'[p].op # NoOp
        PROVE  p = q
    BY <1>1, <2>2 DEF ObjectInv, OpsAreOwned
  <2>3. committed' \subseteq issued'
    BY <1>1 DEF ObjectInv, OpsAreOwned
  <2> QED BY <2>1, <2>2, <2>3 DEF OpsAreOwned
<1>4. OneWriteAtATime'
  <2>1. ASSUME NEW p \in Object, NEW q \in Object, Home[p] = Home[q],
               obj'[p].pc \notin {"gone", "idle"}, obj'[q].pc \notin {"gone", "idle"}
        PROVE  p = q
    BY <1>1, <2>1 DEF ObjectInv, OneWriteAtATime, Busy
  <2> QED BY <2>1 DEF OneWriteAtATime, Busy
<1>5. ASSUME NEW p \in Object, p # o
      PROVE  DoubtSound(p)'
  <2>1. obj'[p] = obj[p]
    BY <1>1, <1>5
  <2>2. obj[p].op \in Op => obj[p].op # obj[o].op
    BY <1>5 DEF ObjectInv, OpsAreOwned
  <2>3. DoubtSound(p) /\ obj[p] \in Buffer
    BY <1>1 DEF ObjectInv
  <2>4. IsPending(p)' <=> IsPending(p)
    BY <2>1 DEF IsPending
  <2>5. IsPending(p)' => obj'[p].pending = Buffered(p)'
    BY <2>1, <2>3, <2>4 DEF DoubtSound, Buffered, DraftOf
  <2>6. ~IsPending(p)' => obj'[p].op \notin committed'
    BY <2>1, <2>2, <2>3, <2>4 DEF DoubtSound
  <2>7. ASSUME NEW e \in receipts', IsPending(p)', e.op = obj'[p].op
        PROVE  Answers(e, obj'[p].pending)
    <3>1. e \in receipts
      BY <2>1, <2>2, <2>7
    <3> QED BY <2>1, <2>3, <2>4, <2>7, <3>1 DEF DoubtSound
  <2>8. obj'[p].rev > 0 =>
           obj'[p].rec \in Record /\ obj'[p].rev <= disk'.rows[obj'[p].rec].rev
    BY <2>1, <2>3, FileFacts DEF DoubtSound, Row, Buffer
  <2> QED BY <2>5, <2>6, <2>7, <2>8 DEF DoubtSound
<1>6. ASSUME NEW p \in Object, p # o
      PROVE  ProgressSound(p)'
  <2>1. obj'[p] = obj[p] /\ ProgressSound(p)
    BY <1>1, <1>6 DEF ObjectInv
  <2>2. CASE Busy(p)
    <3>1. view'[Home[p]] = view[Home[p]]
      BY <1>6, <2>2
    <3> QED BY <2>1, <3>1 DEF ProgressSound, Busy, IsPending, Usable, Answers
  <2>3. CASE ~Busy(p)
    BY <2>1, <2>3 DEF ProgressSound, Busy, IsPending
  <2> QED BY <2>2, <2>3
<1> QED
  BY <1>2, <1>3, <1>4, <1>5, <1>6 DEF ObjectInv
-----------------------------------------------------------------------------
(* The steps that leave the file alone. *)

(* The same, for a step that changes neither the file nor the history. *)
LEMMA QuietCall ==
    ASSUME StoreInv, ObjectInv, NEW o \in Object, NEW buf \in Buffer,
           obj' = [obj EXCEPT ![o] = buf],
           buf.pc # "gone" => buf.rec \in Record,
           \/ buf.op = obj[o].op /\ issued' = issued
           \/ buf.op = FreshOp /\ issued' = issued \cup ({FreshOp} \cap Op),
           UNCHANGED <<disk, committed, receipts, told>>,
           faults' \in 0 .. MaxFaults,
           \A p \in Object \ {o} : Busy(p) => view'[Home[p]] = view[Home[p]],
           buf.pc \notin {"gone", "idle"} =>
               Busy(o) \/ \A p \in Object \ {o} : Home[p] = Home[o] => ~Busy(p),
           DoubtSound(o)', ProgressSound(o)'
    PROVE  ObjectInv'
<1>1. /\ disk' = disk /\ committed' = committed /\ receipts' = receipts /\ told' = told
      /\ issued \in SUBSET Op
  BY DEF ObjectInv, ObjectTyped
<1>2. /\ issued \subseteq issued' /\ issued' \in SUBSET Op
      /\ buf.op \in issued' \cup {NoOp}
      /\ buf.op = obj[o].op \/ buf.op \notin issued
  BY <1>1, FreshOpIsFresh DEF ObjectInv, OpsAreOwned
<1>3. told' \in SUBSET Told /\ ToldIsDurable' /\ OneOutcome'
  BY <1>1 DEF ObjectInv, ObjectTyped, ToldIsDurable, OneOutcome
<1>4. \A r \in Record : disk'.rows[r].rev \in Nat
                        /\ disk.rows[r].rev <= disk'.rows[r].rev
  BY <1>1, FileFacts DEF Row
<1>5. buf.pc \notin {"gone", "idle"} =>
         \A p \in Object \ {o} : Home[p] = Home[o] => ~Busy(p)
  BY DEF ObjectInv, OneWriteAtATime
<1> QED
  BY <1>1, <1>2, <1>3, <1>4, <1>5, CallerMoves

(* A fault that is counted, or none. *)
LEMMA FaultsTyped ==
    ASSUME faults \in 0 .. MaxFaults, Fault \/ UNCHANGED faults
    PROVE  faults' \in 0 .. MaxFaults
BY DEF Fault

(* A buffer without a write in doubt, under an id that is new or unused. *)
LEMMA AppearInv ==
    ASSUME StoreInv, ObjectInv, NEW o \in Object,
           NEW rec \in Record, NEW rev \in 0 .. MaxRevision, NEW code \in Code,
           NEW ref \in Ref,
           rev > 0 => rev <= disk.rows[rec].rev,
           Appear(o, rec, rev, code, ref), UNCHANGED storeVars
    PROVE  ObjectInv'
<1>1. PICK buf : buf = [pc |-> "idle", op |-> FreshOp, pending |-> NoPending,
                        rec |-> rec, rev |-> rev, code |-> code, ref |-> ref]
  OBVIOUS
<1>2. /\ obj' = [obj EXCEPT ![o] = buf] /\ obj'[o] = buf
      /\ issued' = issued \cup ({FreshOp} \cap Op)
      /\ told' = told /\ faults' = faults /\ view' = view
      /\ disk' = disk /\ committed' = committed /\ receipts' = receipts
  BY <1>1 DEF Appear, storeVars, ObjectInv, ObjectTyped
<1>3. FreshOp \in Op \cup {NoOp} /\ FreshOp \notin issued
  BY FreshOpIsFresh DEF ObjectInv, ObjectTyped
<1>4. buf \in Buffer
  BY <1>1, <1>3 DEF Buffer, PC
<1>5. FreshOp \notin committed
  BY <1>3, FileFacts DEF ObjectInv, OpsAreOwned
<1>6. DoubtSound(o)'
  BY <1>1, <1>2, <1>5 DEF DoubtSound, IsPending
<1>7. ProgressSound(o)'
  BY <1>1, <1>2 DEF ProgressSound, IsPending, Busy
<1>8. faults' \in 0 .. MaxFaults
  BY <1>2 DEF ObjectInv, ObjectTyped
<1> QED
  BY <1>1, <1>2, <1>4, <1>6, <1>7, <1>8, QuietCall

(* A new object appears in memory. *)
LEMMA CreateItemInv ==
    ASSUME StoreInv, ObjectInv, NEW o \in Object, CreateItem(o) PROVE ObjectInv'
<1>1. PICK rec \in Record : Appear(o, rec, 0, 0, NoRecord)
  BY DEF CreateItem
<1>2. 0 \in 0 .. MaxRevision /\ 0 \in Code /\ NoRecord \in Ref
  BY DEF Code, Ref
<1> QED
  BY <1>1, <1>2, AppearInv DEF CreateItem

(* A stored object is read into memory. *)
LEMMA GetObjectInv ==
    ASSUME StoreInv, ObjectInv, NEW o \in Object, GetObject(o) PROVE ObjectInv'
<1>1. PICK rec \in Present(disk) :
          Appear(o, rec, disk.rows[rec].rev, disk.rows[rec].code, disk.rows[rec].ref)
  BY DEF GetObject
<1>2. /\ rec \in Record /\ disk.rows[rec] \in Row
  BY <1>1, FileFacts DEF Present
<1>3. /\ disk.rows[rec].rev \in 0 .. MaxRevision /\ disk.rows[rec].code \in Code
      /\ disk.rows[rec].ref \in Ref /\ disk.rows[rec].rev <= disk.rows[rec].rev
  BY <1>2 DEF Row
<1> QED
  BY <1>1, <1>2, <1>3, AppearInv DEF GetObject

(* Code and reference of an object are assigned. *)
LEMMA SetMemberInv ==
    ASSUME StoreInv, ObjectInv, NEW o \in Object, SetMember(o) PROVE ObjectInv'
<1>1. PICK code \in Codes, ref \in Refs :
          obj' = [obj EXCEPT ![o].code = code, ![o].ref = ref]
  BY DEF SetMember
<1>2. PICK buf : buf = [obj[o] EXCEPT !.code = code, !.ref = ref]
  OBVIOUS
<1>3. obj[o] \in Buffer /\ obj \in [Object -> Buffer] /\ obj[o].rec \in Record
  BY DEF ObjectInv, ObjectTyped, SetMember
<1>4. code \in Code /\ ref \in Ref
  BY DEF Code, Ref
<1>5. /\ buf \in Buffer /\ buf.op = obj[o].op /\ buf.pc = "idle"
      /\ buf.rec = obj[o].rec /\ buf.rev = obj[o].rev /\ buf.pending = obj[o].pending
  BY <1>2, <1>3, <1>4 DEF Buffer, SetMember
<1>6. /\ obj' = [obj EXCEPT ![o] = buf] /\ obj'[o] = buf
      /\ issued' = issued /\ told' = told /\ faults' = faults /\ view' = view
      /\ disk' = disk /\ committed' = committed /\ receipts' = receipts
  BY <1>1, <1>2, <1>3 DEF SetMember, storeVars
<1>7. ~IsPending(o) /\ ~IsPending(o)' /\ DoubtSound(o)
  BY <1>5, <1>6 DEF SetMember, IsPending, ObjectInv
<1>8. DoubtSound(o)'
  BY <1>5, <1>6, <1>7 DEF DoubtSound
<1>9. ProgressSound(o)'
  BY <1>5, <1>6 DEF ProgressSound, Busy
<1>10. faults' \in 0 .. MaxFaults
  BY <1>6 DEF ObjectInv, ObjectTyped
<1> QED
  BY <1>3, <1>5, <1>6, <1>8, <1>9, <1>10, QuietCall
(* A Write in progress moves only the view of its own process, which no     *)
(* other Write in progress uses.                                            *)
LEMMA OwnViewOnly ==
    ASSUME StoreInv, ObjectInv, NEW o \in Object, Busy(o),
           UNCHANGED storeVars \/ StoreStep(Home[o])
    PROVE  \A p \in Object \ {o} : Busy(p) => view'[Home[p]] = view[Home[p]]
<1>1. CASE UNCHANGED storeVars
  BY <1>1 DEF storeVars
<1>2. CASE StoreStep(Home[o])
  <2>1. \A p \in Object : Home[p] \in Backend
    OBVIOUS
  <2>2. \A p \in Object \ {o} : Busy(p) => Home[p] # Home[o]
    BY DEF ObjectInv, OneWriteAtATime
  <2> QED BY <1>2, <2>1, <2>2, OtherViews
<1> QED
  BY <1>1, <1>2

(* An object moves on while the file stays as it is. *)
LEMMA GotoInv ==
    ASSUME StoreInv, ObjectInv, NEW o \in Object, NEW pc \in PC \ {"gone"},
           obj[o].pc # "gone", Goto(o, pc),
           UNCHANGED <<disk, committed, receipts, issued, told>>,
           Fault \/ UNCHANGED faults,
           \A p \in Object \ {o} : Busy(p) => view'[Home[p]] = view[Home[p]],
           pc # "idle" =>
               Busy(o) \/ \A p \in Object \ {o} : Home[p] = Home[o] => ~Busy(p),
           ProgressSound(o)'
    PROVE  ObjectInv'
<1>1. PICK buf : buf = [obj[o] EXCEPT !.pc = pc]
  OBVIOUS
<1>2. obj[o] \in Buffer /\ obj \in [Object -> Buffer] /\ obj[o].rec \in Record
  BY DEF ObjectInv, ObjectTyped
<1>3. /\ buf \in Buffer /\ buf.pc = pc
      /\ buf.op = obj[o].op /\ buf.pending = obj[o].pending
      /\ buf.rec = obj[o].rec /\ buf.rev = obj[o].rev /\ buf.code = obj[o].code
      /\ buf.ref = obj[o].ref
  BY <1>1, <1>2 DEF Buffer
<1>4. /\ obj' = [obj EXCEPT ![o] = buf] /\ obj'[o] = buf
      /\ issued' = issued /\ told' = told
      /\ disk' = disk /\ committed' = committed /\ receipts' = receipts
  BY <1>1, <1>2 DEF Goto
<1>5. DoubtSound(o)'
  <2>1. DoubtSound(o)
    BY DEF ObjectInv
  <2>2. IsPending(o)' <=> IsPending(o)
    BY <1>3, <1>4 DEF IsPending
  <2>3. Buffered(o)' = Buffered(o)
    BY <1>3, <1>4 DEF Buffered, DraftOf
  <2> QED BY <1>3, <1>4, <2>1, <2>2, <2>3 DEF DoubtSound, Answers
<1>6. faults' \in 0 .. MaxFaults
  BY FaultsTyped DEF ObjectInv, ObjectTyped
<1>7. buf.pc \notin {"gone", "idle"} =>
         Busy(o) \/ \A p \in Object \ {o} : Home[p] = Home[o] => ~Busy(p)
  BY <1>3
<1> QED
  BY <1>2, <1>3, <1>4, <1>5, <1>6, <1>7, QuietCall

(* Write starts, by resolving a doubt it finds. *)
LEMMA WriteInv ==
    ASSUME StoreInv, ObjectInv, NEW o \in Object, Write(o) PROVE ObjectInv'
<1>1. PICK pc : pc = IF IsPending(o) THEN "resolve" ELSE "begin"
  OBVIOUS
<1>2. pc \in PC \ {"gone"} /\ pc \in {"resolve", "begin"}
  BY <1>1 DEF PC
<1>3. obj[o].pc = "idle" /\ obj[o].op # NoOp /\ Goto(o, pc)
  BY <1>1 DEF Write
<1>4. /\ view' = view /\ faults' = faults /\ issued' = issued /\ told' = told
      /\ disk' = disk /\ committed' = committed /\ receipts' = receipts
  BY DEF Write, storeVars
<1>5. \A p \in Object \ {o} : Home[p] = Home[o] => ~Busy(p)
  BY DEF Write, Busy
<1>6. obj'[o].pc = pc /\ obj'[o].op = obj[o].op /\ obj'[o].pending = obj[o].pending
  BY <1>3 DEF Goto, ObjectInv, ObjectTyped, Buffer
<1>7. ProgressSound(o)'
  BY <1>1, <1>2, <1>3, <1>6 DEF ProgressSound, Busy, IsPending
<1> QED
  BY <1>2, <1>3, <1>4, <1>5, <1>7, GotoInv

(* An answer for this object: accepted, told and forgotten. *)
LEMMA AcceptFacts ==
    ASSUME StoreInv, ObjectInv, NEW o \in Object, NEW e \in Entry,
           obj[o].pc # "gone", IsPending(o), Answers(e, obj[o].pending), Accept(o, e)
    PROVE  \E buf \in Buffer :
             /\ obj' = [obj EXCEPT ![o] = buf] /\ obj'[o] = buf
             /\ buf.pc = "idle" /\ buf.pending = NoPending /\ buf.op = FreshOp
             /\ buf.rec = obj[o].rec /\ buf.rec \in Record
             /\ buf.rev = e.rev /\ e.rec = obj[o].rec /\ e.ref = obj[o].ref
             /\ e.op = obj[o].op
             /\ issued' = issued \cup ({FreshOp} \cap Op)
             /\ told' = told \cup {[op |-> e.op, rec |-> e.rec, rev |-> e.rev,
                                    code |-> e.code, ref |-> e.ref]}
             /\ told' \in SUBSET Told
<1>1. PICK buf : buf = [obj[o] EXCEPT !.pc = "idle", !.rev = e.rev, !.code = e.code,
                                      !.op = FreshOp, !.pending = NoPending]
  OBVIOUS
<1>2. obj[o] \in Buffer /\ obj \in [Object -> Buffer] /\ obj[o].rec \in Record
  BY DEF ObjectInv, ObjectTyped
<1>3. FreshOp \in Op \cup {NoOp}
  BY FreshOpIsFresh DEF ObjectInv, ObjectTyped
<1>4. e.rev \in 1 .. MaxRevision /\ e.code \in Code /\ e.op \in Op /\ e.rec \in Record
      /\ e.ref \in Ref
  BY DEF Entry
<1>5. /\ buf \in Buffer /\ buf.pc = "idle" /\ buf.pending = NoPending
      /\ buf.op = FreshOp /\ buf.rec = obj[o].rec /\ buf.rev = e.rev
  <2>1. buf = [pc |-> "idle", op |-> FreshOp, pending |-> NoPending,
               rec |-> obj[o].rec, rev |-> e.rev, code |-> e.code, ref |-> obj[o].ref]
    BY <1>1, <1>2 DEF Buffer
  <2>2. "idle" \in PC /\ e.rev \in 0 .. MaxRevision
    BY <1>4 DEF PC
  <2> QED BY <1>2, <1>3, <1>4, <2>1, <2>2 DEF Buffer
<1>6. obj' = [obj EXCEPT ![o] = buf] /\ obj'[o] = buf
  BY <1>1, <1>2 DEF Accept
<1>7. obj[o].pending = Buffered(o)
  BY DEF ObjectInv, DoubtSound
<1>8. e.rec = obj[o].rec /\ e.ref = obj[o].ref /\ e.op = obj[o].op
  BY <1>7 DEF Answers, Buffered, DraftOf
<1>9. told' = told \cup {[op |-> e.op, rec |-> e.rec, rev |-> e.rev,
                          code |-> e.code, ref |-> e.ref]}
  BY <1>8 DEF Accept
<1>10. told' \in SUBSET Told
  BY <1>4, <1>9 DEF Told, ObjectInv, ObjectTyped
<1> QED
  BY <1>2, <1>5, <1>6, <1>8, <1>9, <1>10 DEF Accept

(* The receipt of a doubtful write is found, and accepted. *)
LEMMA ResolveFoundInv ==
    ASSUME StoreInv, ObjectInv, NEW o \in Object, ResolveFound(o) PROVE ObjectInv'
<1>1. PICK e \in receipts : Answers(e, obj[o].pending) /\ Accept(o, e)
  BY DEF ResolveFound
<1>2. obj[o].pc = "resolve" /\ IsPending(o) /\ e \in Entry
      /\ e.rev <= disk.rows[e.rec].rev
  BY <1>1, FileFacts DEF ResolveFound, ObjectInv, ProgressSound
<1>3. PICK buf \in Buffer :
             /\ obj' = [obj EXCEPT ![o] = buf] /\ obj'[o] = buf
             /\ buf.pc = "idle" /\ buf.pending = NoPending /\ buf.op = FreshOp
             /\ buf.rec = obj[o].rec /\ buf.rec \in Record
             /\ buf.rev = e.rev /\ e.rec = obj[o].rec /\ e.ref = obj[o].ref
             /\ e.op = obj[o].op
             /\ issued' = issued \cup ({FreshOp} \cap Op)
             /\ told' = told \cup {[op |-> e.op, rec |-> e.rec, rev |-> e.rev,
                                    code |-> e.code, ref |-> e.ref]}
             /\ told' \in SUBSET Told
  BY <1>1, <1>2, AcceptFacts
<1>4. /\ view' = view /\ faults' = faults
      /\ disk' = disk /\ committed' = committed /\ receipts' = receipts
  BY DEF ResolveFound, storeVars
<1>5. FreshOp \in Op \cup {NoOp} /\ FreshOp \notin issued /\ issued \in SUBSET Op
      /\ FreshOp \in issued' \cup {NoOp}
  BY <1>3, FreshOpIsFresh DEF ObjectInv, ObjectTyped
<1>6. issued \subseteq issued' /\ issued' \in SUBSET Op
  BY <1>3, <1>5
<1>7. ToldIsDurable' /\ OneOutcome'
  <2>1. ASSUME NEW t \in told'
        PROVE  \E x \in receipts : x.op = t.op /\ x.rec = t.rec /\ x.rev = t.rev
                                   /\ x.code = t.code /\ x.ref = t.ref
    <3>1. CASE t \in told
      BY <3>1 DEF ObjectInv, ToldIsDurable
    <3>2. CASE t \notin told
      <4>1. t = [op |-> e.op, rec |-> e.rec, rev |-> e.rev, code |-> e.code,
                 ref |-> e.ref]
        BY <1>3, <2>1, <3>2
      <4> QED BY <4>1
    <3> QED BY <3>1, <3>2
  <2> QED BY <1>4, <2>1 DEF ToldIsDurable, OneOutcome, ObjectInv
<1>8. \A r \in Record : disk'.rows[r].rev \in Nat
                        /\ disk.rows[r].rev <= disk'.rows[r].rev
  BY <1>4, FileFacts DEF Row
<1>9. DoubtSound(o)'
  <2>1. FreshOp \notin committed
    BY <1>5, FileFacts DEF ObjectInv, OpsAreOwned
  <2> QED BY <1>2, <1>3, <1>4, <2>1 DEF DoubtSound, IsPending
<1>10. ProgressSound(o)'
  BY <1>3 DEF ProgressSound, Busy
<1>11. faults' \in 0 .. MaxFaults
  BY <1>4 DEF ObjectInv, ObjectTyped
<1>12. \A x \in receipts' \ receipts : x.op = obj[o].op /\ x.op \in Op
  BY <1>4
<1> QED
  BY <1>3, <1>4, <1>5, <1>6, <1>7, <1>8, <1>9, <1>10, <1>11, <1>12, CallerMoves

(* There is no receipt: the write is done anew. *)
LEMMA ResolveAbsentInv ==
    ASSUME StoreInv, ObjectInv, NEW o \in Object, ResolveAbsent(o) PROVE ObjectInv'
<1>1. obj[o].pc = "resolve" /\ Goto(o, "begin") /\ Busy(o)
      /\ "begin" \in PC \ {"gone"}
  BY DEF ResolveAbsent, Busy, PC
<1>2. /\ view' = view /\ faults' = faults /\ issued' = issued /\ told' = told
      /\ disk' = disk /\ committed' = committed /\ receipts' = receipts
  BY DEF ResolveAbsent, storeVars
<1>3. obj'[o].pc = "begin" /\ obj'[o].op = obj[o].op
  BY <1>1 DEF Goto, ObjectInv, ObjectTyped, Buffer
<1>4. ProgressSound(o)'
  BY <1>1, <1>3 DEF ProgressSound, Busy, ObjectInv
<1> QED
  BY <1>1, <1>2, <1>4, GotoInv

(* The connection could not be had: the object is as before the call. *)
LEMMA RefusedInv ==
    ASSUME StoreInv, ObjectInv, NEW o \in Object, ResolveFails(o) \/ BeginFails(o)
    PROVE  ObjectInv'
<1>1. /\ obj[o].pc # "gone" /\ Busy(o) /\ Goto(o, "idle")
      /\ "idle" \in PC \ {"gone"}
      /\ \/ UNCHANGED storeVars \/ LookUpFails(Home[o])
         \/ \E write \in BOOLEAN : AdmissionFails(Home[o], write)
      /\ Fault \/ UNCHANGED faults
      /\ issued' = issued /\ told' = told
  BY DEF ResolveFails, BeginFails, Busy, PC
<1>2. disk' = disk /\ committed' = committed /\ receipts' = receipts
  BY <1>1 DEF storeVars, AdmissionFails, LookUpFails
<1>3. \A p \in Object \ {o} : Busy(p) => view'[Home[p]] = view[Home[p]]
  BY <1>1, OwnViewOnly DEF StoreStep, LookUp
<1>4. obj'[o].pc = "idle"
  BY <1>1 DEF Goto, ObjectInv, ObjectTyped, Buffer
<1>5. ProgressSound(o)'
  BY <1>4 DEF ProgressSound, Busy
<1> QED
  BY <1>1, <1>2, <1>3, <1>5, GotoInv

(* The write takes its transaction. *)
LEMMA BeginInv ==
    ASSUME StoreInv, ObjectInv, NEW o \in Object, Begin(o) PROVE ObjectInv'
<1>1. /\ obj[o].pc = "begin" /\ Busy(o) /\ Goto(o, "stage")
      /\ "stage" \in PC \ {"gone"}
      /\ BeginWrite(Home[o], obj[o].op) /\ obj[o].op \in Op
  BY SubmittedFacts DEF Begin, Busy, PC, Buffered, ObjectInv, ProgressSound, Buffer
<1>2. /\ disk' = disk /\ committed' = committed /\ receipts' = receipts
      /\ issued' = issued /\ told' = told /\ faults' = faults
  BY <1>1 DEF BeginWrite, Begin
<1>3. \A p \in Object \ {o} : Busy(p) => view'[Home[p]] = view[Home[p]]
  BY <1>1, OwnViewOnly DEF StoreStep
<1>4. obj'[o].pc = "stage" /\ obj'[o].op = obj[o].op
  BY <1>1 DEF Goto, ObjectInv, ObjectTyped, Buffer
<1>5. view'[Home[o]] = [kind |-> "write", dead |-> FALSE, op |-> obj[o].op,
                        image |-> disk, log |-> {}]
  BY <1>1, FileFacts DEF BeginWrite
<1>6. ProgressSound(o)'
  BY <1>1, <1>4, <1>5 DEF ProgressSound, Busy, Usable, ObjectInv
<1> QED
  BY <1>1, <1>2, <1>3, <1>6, GotoInv
-----------------------------------------------------------------------------
(* The change, its failure, and the two ways a COMMIT ends. *)

(* The view of a Write that stages or commits is current: nothing of the    *)
(* operation is durable yet.                                                *)
LEMMA ViewInProgress ==
    ASSUME StoreInv, ObjectInv, NEW o \in Object, obj[o].pc \in {"stage", "commit"}
    PROVE  /\ Busy(o) /\ obj[o].op \in Op \ committed
           /\ Usable(view[Home[o]], "write") /\ view[Home[o]].op = obj[o].op
           /\ Current(view[Home[o]])
           /\ view[Home[o]] \in View
           /\ \A e \in receipts : e.op # obj[o].op
<1>1. Usable(view[Home[o]], "write") /\ view[Home[o]].op = obj[o].op
  BY DEF ObjectInv, ProgressSound
<1>2. Current(view[Home[o]])
  BY <1>1 DEF StoreInv, WritersAreCurrent
<1> QED
  BY <1>1, <1>2, FileFacts DEF Busy, Current

(* What create or update wrote down is the receipt the object waits for. *)
LEMMA StageRecords ==
    ASSUME StoreInv, ObjectInv, NEW o \in Object, obj[o].pc = "stage", StageChange(o)
    PROVE  \E e \in Entry :
             /\ Answers(e, Buffered(o))
             /\ view'[Home[o]].log = {e}
             /\ view'[Home[o]].op = obj[o].op
             /\ Usable(view'[Home[o]], "write")
<1> DEFINE b == Home[o]  s == Buffered(o)  image == view[b].image
<1>1. /\ Usable(view[b], "write") /\ view[b].op = obj[o].op /\ obj[o].op \in Op
      /\ view[b].log = {} /\ image \in Image
      /\ Sound(receipts \cup view[b].log, image)
      /\ view \in [Backend -> View] /\ b \in Backend /\ view[b] \in View
  BY ViewInProgress, FileFacts DEF ObjectInv, ProgressSound, Current, View
<1>2. /\ Submitted(o) = s /\ s.d \in Intent /\ s.expected \in 0 .. MaxRevision
      /\ s.op = obj[o].op
  BY SubmittedFacts DEF Buffered, Buffer
<1> HIDE DEF s, b, image
<1>3. ASSUME NEW new, RecordChange(b, s.d, new),
             Staged(receipts \cup view[b].log, image, new, s.op, s.d),
             image.rows[s.d.rec].rev = s.expected,
             new.rows[s.d.rec].ref = s.d.ref,
             ~s.d.auto => new.rows[s.d.rec].code = s.d.code
      PROVE  \E e \in Entry : /\ Answers(e, s)
                              /\ view'[b].log = {e}
                              /\ view'[b].op = obj[o].op
                              /\ Usable(view'[b], "write")
  <2>1. PICK e : e = ChangeEntry(s.op, s.d, new)
    OBVIOUS
  <2>2. /\ e \in Entry /\ e.op = s.op /\ e.rec = s.d.rec
        /\ e.rev = image.rows[s.d.rec].rev + 1
    BY <1>3, <2>1 DEF Staged
  <2>3. e.auto = s.d.auto /\ e.ref = s.d.ref /\ (~s.d.auto => e.code = s.d.code)
    BY <1>3, <2>1 DEF ChangeEntry
  <2>4. Answers(e, s)
    BY <1>3, <2>2, <2>3 DEF Answers
  <2>5. view'[b].log = view[b].log \cup {e} /\ view'[b].op = view[b].op
        /\ view'[b].kind = view[b].kind /\ view'[b].dead = view[b].dead
    BY <1>1, <1>2, <1>3, <2>1 DEF RecordChange, View
  <2> QED BY <1>1, <2>2, <2>4, <2>5 DEF Usable
<1>4. /\ s.d.rec \in Record /\ s.d.auto \in BOOLEAN /\ s.d.code \in Code
      /\ image.rows \in [Record -> Row]
  BY <1>1, <1>2 DEF Image, Code
<1>5. CASE s.expected = 0
  <2>1. Create(b, s.d)
    BY <1>2, <1>5 DEF StageChange, b
  <2>2. CanInsert(image, s.d) /\ RecordChange(b, s.d, Inserted(image, s.d))
    BY <2>1 DEF Create, image
  <2>3. Staged(receipts \cup view[b].log, image, Inserted(image, s.d), s.op, s.d)
    BY <1>1, <1>2, <2>2, FileFacts, InsertedStaged
  <2>4. image.rows[s.d.rec].rev = s.expected
    BY <1>4, <1>5, <2>2 DEF CanInsert, Exists, Row
  <2>5. Inserted(image, s.d).rows[s.d.rec] =
           [rev |-> 1, code |-> NewCode(image, s.d), ref |-> s.d.ref]
    BY <1>4 DEF Inserted
  <2>6. /\ Inserted(image, s.d).rows[s.d.rec].ref = s.d.ref
        /\ ~s.d.auto => Inserted(image, s.d).rows[s.d.rec].code = s.d.code
    BY <2>5 DEF NewCode
  <2> QED BY <1>3, <2>2, <2>3, <2>4, <2>6 DEF b, s
<1>6. CASE s.expected # 0
  <2>1. Update(b, s.d, s.expected) /\ s.expected \in 1 .. MaxRevision
    BY <1>2, <1>6 DEF StageChange, b
  <2>2. /\ CanUpdate(image, s.d, s.expected)
        /\ RecordChange(b, s.d, Updated(image, s.d, s.expected))
    BY <2>1 DEF Update, image
  <2>3. Staged(receipts \cup view[b].log, image, Updated(image, s.d, s.expected),
               s.op, s.d)
    BY <1>1, <1>2, <2>1, <2>2, FileFacts, UpdatedStaged
  <2>4. image.rows[s.d.rec].rev = s.expected
    BY <2>2 DEF CanUpdate
  <2>5. Updated(image, s.d, s.expected).rows[s.d.rec] =
           [rev |-> s.expected + 1, code |-> s.d.code, ref |-> s.d.ref]
    BY <1>1, <1>4 DEF Updated, Image
  <2>6. /\ Updated(image, s.d, s.expected).rows[s.d.rec].ref = s.d.ref
        /\ Updated(image, s.d, s.expected).rows[s.d.rec].code = s.d.code
    BY <2>5
  <2> QED BY <1>3, <2>2, <2>3, <2>4, <2>6 DEF b, s
<1> QED
  BY <1>5, <1>6

(* The write stages its record, and is in doubt from here on. *)
LEMMA StageCallInv ==
    ASSUME StoreInv, ObjectInv, NEW o \in Object, Stage(o) PROVE ObjectInv'
<1>1. PICK buf : buf = [obj[o] EXCEPT !.pc = "commit", !.pending = Buffered(o)]
  OBVIOUS
<1>2. /\ obj[o] \in Buffer /\ obj \in [Object -> Buffer] /\ obj[o].rec \in Record
      /\ obj[o].pc = "stage" /\ Submitted(o) = Buffered(o)
  BY SubmittedFacts DEF ObjectInv, ObjectTyped, Stage
<1>3. /\ Busy(o) /\ obj[o].op \in Op \ committed /\ \A e \in receipts : e.op # obj[o].op
  BY <1>2, ViewInProgress
<1>4. Buffered(o) \in Pending
  <2>1. DraftOf(o) \in Draft
    BY <1>2 DEF DraftOf, Draft, Buffer
  <2> QED BY <1>2, <1>3, <2>1 DEF Buffered, Pending, Buffer
<1>5. /\ buf \in Buffer /\ buf.pc = "commit" /\ buf.pending = Buffered(o)
      /\ buf.op = obj[o].op /\ buf.rec = obj[o].rec /\ buf.rev = obj[o].rev
      /\ buf.code = obj[o].code /\ buf.ref = obj[o].ref
  BY <1>1, <1>2, <1>4 DEF Buffer, PC
<1>6. /\ obj' = [obj EXCEPT ![o] = buf] /\ obj'[o] = buf
      /\ issued' = issued /\ told' = told /\ faults' = faults
      /\ disk' = disk /\ committed' = committed /\ receipts' = receipts
  BY <1>1, <1>2 DEF Stage, StageChange, Create, Update
<1>7. Buffered(o)' = Buffered(o)
  BY <1>5, <1>6 DEF Buffered, DraftOf
<1>8. IsPending(o)'
  BY <1>4, <1>5, <1>6, NoPendingApart DEF IsPending
<1>9. DoubtSound(o)'
  BY <1>3, <1>5, <1>6, <1>7, <1>8 DEF DoubtSound, ObjectInv
<1>10. ProgressSound(o)'
  <2>1. PICK e \in Entry :
             /\ Answers(e, Buffered(o))
             /\ view'[Home[o]].log = {e}
             /\ view'[Home[o]].op = obj[o].op
             /\ Usable(view'[Home[o]], "write")
    BY <1>2, StageRecords DEF Stage
  <2>2. Usable(view[Home[o]], "write")'
    BY <2>1 DEF Usable
  <2> QED BY <1>3, <1>5, <1>6, <1>8, <2>1, <2>2 DEF ProgressSound, Busy
<1>11. \A p \in Object \ {o} : Busy(p) => view'[Home[p]] = view[Home[p]]
  <2>1. StoreStep(Home[o])
    <3>1. /\ Submitted(o).d \in Intent
          /\ Submitted(o).expected \in 0 .. MaxRevision
      BY <1>2, SubmittedFacts DEF Buffered, Buffer
    <3> QED BY <3>1 DEF Stage, StageChange, StoreStep
  <2> QED BY <1>3, <2>1, OwnViewOnly
<1>12. faults' \in 0 .. MaxFaults
  BY <1>6 DEF ObjectInv, ObjectTyped
<1> QED
  BY <1>2, <1>3, <1>5, <1>6, <1>9, <1>10, <1>11, <1>12, QuietCall

(* The store refuses the record: nothing is in doubt. *)
LEMMA StageFailsInv ==
    ASSUME StoreInv, ObjectInv, NEW o \in Object, StageFails(o) PROVE ObjectInv'
<1>1. PICK buf : buf = [obj[o] EXCEPT !.pc = "idle", !.pending = NoPending]
  OBVIOUS
<1>2. /\ obj[o] \in Buffer /\ obj \in [Object -> Buffer] /\ obj[o].rec \in Record
      /\ obj[o].pc = "stage"
  BY DEF ObjectInv, ObjectTyped, StageFails
<1>3. Busy(o) /\ obj[o].op \in Op \ committed
  BY <1>2, ViewInProgress
<1>4. /\ buf \in Buffer /\ buf.pc = "idle" /\ buf.pending = NoPending
      /\ buf.op = obj[o].op /\ buf.rec = obj[o].rec /\ buf.rev = obj[o].rev
  BY <1>1, <1>2 DEF Buffer, PC
<1>5. /\ obj' = [obj EXCEPT ![o] = buf] /\ obj'[o] = buf
      /\ issued' = issued /\ told' = told
      /\ disk' = disk /\ committed' = committed /\ receipts' = receipts
  BY <1>1, <1>2 DEF StageFails, Close
<1>6. DoubtSound(o)'
  BY <1>3, <1>4, <1>5 DEF DoubtSound, IsPending, ObjectInv
<1>7. ProgressSound(o)'
  BY <1>4, <1>5 DEF ProgressSound, Busy
<1>8. faults' \in 0 .. MaxFaults
  BY FaultsTyped DEF ObjectInv, ObjectTyped, StageFails
<1>9. \A p \in Object \ {o} : Busy(p) => view'[Home[p]] = view[Home[p]]
  BY <1>3, OwnViewOnly DEF StageFails, StoreStep
<1> QED
  BY <1>2, <1>4, <1>5, <1>6, <1>7, <1>8, <1>9, QuietCall

(* What a durable COMMIT of an object does to the file. *)
LEMMA CommitFacts ==
    ASSUME StoreInv, StoreInv', ObjectInv, NEW o \in Object, obj[o].pc = "commit",
           CommitDurable(Home[o])
    PROVE  \E e \in Entry :
             /\ view[Home[o]].log = {e} /\ Answers(e, obj[o].pending)
             /\ e.op = obj[o].op /\ e.op \in Op
             /\ receipts' = receipts \cup {e}
             /\ committed' = committed \cup {obj[o].op}
             /\ e.rev <= disk'.rows[e.rec].rev
             /\ OneOutcome'
             /\ \A p \in Object \ {o} : Busy(p) => view'[Home[p]] = view[Home[p]]
             /\ \A r \in Record : disk'.rows[r].rev \in Nat
                                  /\ disk.rows[r].rev <= disk'.rows[r].rev
<1>1. /\ Busy(o) /\ obj[o].op \in Op \ committed /\ view[Home[o]].op = obj[o].op
      /\ \A e \in receipts : e.op # obj[o].op
  BY ViewInProgress
<1>2. PICK e \in Entry : view[Home[o]].log = {e} /\ Answers(e, obj[o].pending)
  BY DEF ObjectInv, ProgressSound
<1>3. e.op = obj[o].op
  <2>1. obj[o].pending = Buffered(o)
    BY DEF ObjectInv, DoubtSound, ProgressSound
  <2> QED BY <1>2, <2>1 DEF Answers, Buffered
<1>4. receipts' = receipts \cup {e} /\ committed' = committed \cup {obj[o].op}
  BY <1>1, <1>2 DEF CommitDurable
<1>5. e.rev <= disk'.rows[e.rec].rev
  BY <1>4 DEF StoreInv, ReceiptsExplainRows, Explains
<1>6. OneOutcome'
  BY <1>1, <1>3, <1>4 DEF OneOutcome, ObjectInv
<1>7. StoreStep(Home[o]) /\ Home[o] \in Backend
  BY DEF StoreStep
<1>8. \A p \in Object \ {o} : Busy(p) => view'[Home[p]] = view[Home[p]]
  BY <1>1, <1>7, OwnViewOnly
<1>9. \A r \in Record : disk'.rows[r].rev \in Nat
  BY DEF StoreInv, StoreTypeOK, Image, Row
<1>10. \A r \in Record : disk.rows[r].rev <= disk'.rows[r].rev
  BY <1>7, FileGrows DEF StoreNext
<1> QED
  BY <1>1, <1>2, <1>3, <1>4, <1>5, <1>6, <1>8, <1>9, <1>10
(* The commit is answered. *)
LEMMA CommitAnsweredInv ==
    ASSUME StoreInv, StoreInv', ObjectInv, NEW o \in Object, CommitAnswered(o)
    PROVE  ObjectInv'
<1>1. /\ obj[o].pc = "commit" /\ CommitDurable(Home[o]) /\ faults' = faults
      /\ IsPending(o)
  BY DEF CommitAnswered, ObjectInv, ProgressSound
<1>2. PICK e \in Entry :
             /\ view[Home[o]].log = {e} /\ Answers(e, obj[o].pending)
             /\ e.op = obj[o].op /\ e.op \in Op
             /\ receipts' = receipts \cup {e}
             /\ committed' = committed \cup {obj[o].op}
             /\ e.rev <= disk'.rows[e.rec].rev
             /\ OneOutcome'
             /\ \A p \in Object \ {o} : Busy(p) => view'[Home[p]] = view[Home[p]]
             /\ \A r \in Record : disk'.rows[r].rev \in Nat
                                  /\ disk.rows[r].rev <= disk'.rows[r].rev
  BY <1>1, CommitFacts
<1>3. Accept(o, e)
  BY <1>2 DEF CommitAnswered
<1>4. PICK buf \in Buffer :
             /\ obj' = [obj EXCEPT ![o] = buf] /\ obj'[o] = buf
             /\ buf.pc = "idle" /\ buf.pending = NoPending /\ buf.op = FreshOp
             /\ buf.rec = obj[o].rec /\ buf.rec \in Record
             /\ buf.rev = e.rev /\ e.rec = obj[o].rec /\ e.ref = obj[o].ref
             /\ e.op = obj[o].op
             /\ issued' = issued \cup ({FreshOp} \cap Op)
             /\ told' = told \cup {[op |-> e.op, rec |-> e.rec, rev |-> e.rev,
                                    code |-> e.code, ref |-> e.ref]}
             /\ told' \in SUBSET Told
  BY <1>1, <1>2, <1>3, AcceptFacts
<1>5. FreshOp \in Op \cup {NoOp} /\ FreshOp \notin issued /\ issued \in SUBSET Op
      /\ FreshOp \in issued' \cup {NoOp}
  BY <1>4, FreshOpIsFresh DEF ObjectInv, ObjectTyped
<1>6. issued \subseteq issued' /\ issued' \in SUBSET Op
  BY <1>4, <1>5
<1>7. ToldIsDurable'
  <2>1. ASSUME NEW t \in told'
        PROVE  \E x \in receipts' : x.op = t.op /\ x.rec = t.rec /\ x.rev = t.rev
                                    /\ x.code = t.code /\ x.ref = t.ref
    <3>1. CASE t \in told
      BY <1>2, <3>1 DEF ObjectInv, ToldIsDurable
    <3>2. CASE t \notin told
      <4>1. t = [op |-> e.op, rec |-> e.rec, rev |-> e.rev, code |-> e.code,
                 ref |-> e.ref]
        BY <1>4, <2>1, <3>2
      <4> QED BY <1>2, <4>1
    <3> QED BY <3>1, <3>2
  <2> QED BY <2>1 DEF ToldIsDurable
<1>8. DoubtSound(o)'
  <2>1. FreshOp \notin committed'
    <3>1. obj[o].op \in issued /\ committed \subseteq issued
      BY <1>2 DEF ObjectInv, OpsAreOwned
    <3> QED BY <1>2, <1>5, <3>1
  <2> QED BY <1>2, <1>4, <2>1 DEF DoubtSound, IsPending
<1>9. ProgressSound(o)'
  BY <1>4 DEF ProgressSound, Busy
<1>10. faults' \in 0 .. MaxFaults
  BY <1>1 DEF ObjectInv, ObjectTyped
<1>11. \A x \in receipts' \ receipts : x.op = obj[o].op /\ x.op \in Op
  BY <1>2
<1>12. receipts \subseteq receipts' /\ committed' \subseteq committed \cup ({obj[o].op} \cap Op)
  BY <1>2
<1> QED
  BY <1>2, <1>4, <1>5, <1>6, <1>7, <1>8, <1>9, <1>10, <1>11, <1>12, CallerMoves

(* The commit fails without saying whether it was made. *)
LEMMA CommitUncertainInv ==
    ASSUME StoreInv, StoreInv', ObjectInv, NEW o \in Object, CommitUncertain(o)
    PROVE  ObjectInv'
<1>1. /\ obj[o].pc = "commit" /\ Goto(o, "idle") /\ IsPending(o)
      /\ issued' = issued /\ told' = told
      /\ Fault \/ UNCHANGED faults
  BY DEF CommitUncertain, ObjectInv, ProgressSound
<1>2. /\ obj[o] \in Buffer /\ obj \in [Object -> Buffer] /\ obj[o].rec \in Record
      /\ issued \in SUBSET Op /\ told \in SUBSET Told
      /\ faults' \in 0 .. MaxFaults
  BY <1>1, FaultsTyped DEF ObjectInv, ObjectTyped
<1>3. PICK buf : buf = [obj[o] EXCEPT !.pc = "idle"]
  OBVIOUS
<1>4. /\ buf \in Buffer /\ buf.pc = "idle"
      /\ buf.op = obj[o].op /\ buf.pending = obj[o].pending
      /\ buf.rec = obj[o].rec /\ buf.rev = obj[o].rev /\ buf.code = obj[o].code
      /\ buf.ref = obj[o].ref
  BY <1>2, <1>3 DEF Buffer, PC
<1>5. obj' = [obj EXCEPT ![o] = buf] /\ obj'[o] = buf
  BY <1>1, <1>2, <1>3 DEF Goto
<1>6. ProgressSound(o)'
  BY <1>4, <1>5 DEF ProgressSound, Busy
<1>7. IsPending(o)' /\ Buffered(o)' = Buffered(o) /\ DoubtSound(o)
  BY <1>1, <1>4, <1>5 DEF IsPending, Buffered, DraftOf, ObjectInv
<1>8. obj[o].op \in issued \cup {NoOp}
  BY DEF ObjectInv, OpsAreOwned
<1>9. CASE CommitDurable(Home[o])
  <2>1. PICK e \in Entry :
             /\ view[Home[o]].log = {e} /\ Answers(e, obj[o].pending)
             /\ e.op = obj[o].op /\ e.op \in Op
             /\ receipts' = receipts \cup {e}
             /\ committed' = committed \cup {obj[o].op}
             /\ e.rev <= disk'.rows[e.rec].rev
             /\ OneOutcome'
             /\ \A p \in Object \ {o} : Busy(p) => view'[Home[p]] = view[Home[p]]
             /\ \A r \in Record : disk'.rows[r].rev \in Nat
                                  /\ disk.rows[r].rev <= disk'.rows[r].rev
    BY <1>1, <1>9, CommitFacts
  <2>2. ToldIsDurable'
    BY <1>1, <2>1 DEF ToldIsDurable, ObjectInv
  <2>3. obj'[o].rev > 0 =>
           obj'[o].rec \in Record /\ obj'[o].rev <= disk'.rows[obj'[o].rec].rev
    BY <1>2, <1>4, <1>5, <1>7, <2>1, FileFacts DEF DoubtSound, Row, Buffer
  <2>4. ASSUME NEW x \in receipts', x.op = obj'[o].op
        PROVE  Answers(x, obj'[o].pending)
    <3>1. CASE x \in receipts
      BY <1>1, <1>4, <1>5, <1>7, <2>4, <3>1 DEF DoubtSound
    <3>2. CASE x = e
      BY <1>4, <1>5, <2>1, <3>2
    <3> QED BY <2>1, <3>1, <3>2
  <2>5. obj'[o].pending = Buffered(o)'
    BY <1>1, <1>4, <1>5, <1>7 DEF DoubtSound
  <2>6. DoubtSound(o)'
    BY <1>7, <2>3, <2>4, <2>5 DEF DoubtSound
  <2>7. \A x \in receipts' \ receipts : x.op = obj[o].op /\ x.op \in Op
    BY <2>1
  <2>8. /\ receipts \subseteq receipts'
        /\ committed' \subseteq committed \cup ({obj[o].op} \cap Op)
    BY <2>1
  <2>9. /\ issued \subseteq issued' /\ issued' \in SUBSET Op /\ told' \in SUBSET Told
        /\ buf.op \in issued' \cup {NoOp}
    BY <1>1, <1>2, <1>4, <1>8
  <2> QED
    BY <1>2, <1>4, <1>5, <1>6, <2>1, <2>2, <2>6, <2>7, <2>8, <2>9, CallerMoves
<1>10. CASE CommitLost(Home[o])
  <2>1. disk' = disk /\ committed' = committed /\ receipts' = receipts
    BY <1>10 DEF CommitLost
  <2>2. \A p \in Object \ {o} : Busy(p) => view'[Home[p]] = view[Home[p]]
    BY <1>1, <1>10, ViewInProgress, OwnViewOnly DEF StoreStep
  <2>3. "idle" \in PC \ {"gone"}
    BY DEF PC
  <2> QED BY <1>1, <1>6, <2>1, <2>2, <2>3, GotoInv
<1> QED
  BY <1>9, <1>10 DEF CommitUncertain

-----------------------------------------------------------------------------
(* The hosts: only processes without a Write in progress are read for or    *)
(* closed, and the end of a process takes its objects with it.              *)

(* The host reads, closes its connection, or loses one it looked up with. *)
LEMMA HostInv ==
    ASSUME StoreInv, ObjectInv, NEW b \in Backend,
           HostReads(b) \/ HostCloses(b) \/ HostLooksUp(b) \/ StrayGoes(b)
    PROVE  ObjectInv'
<1>1. /\ obj' = obj /\ issued' = issued /\ told' = told
      /\ Fault \/ UNCHANGED faults
      /\ StoreStep(b) /\ (Idle(b) \/ view' = view)
  BY DEF HostReads, HostCloses, HostLooksUp, StrayGoes, StrayEnds, objVars, StoreStep,
     LookUp
<1>2. disk' = disk /\ committed' = committed /\ receipts' = receipts
  BY DEF HostReads, HostCloses, HostLooksUp, StrayGoes, BeginRead, Close, CloseBackend,
     LookUpFails, StrayEnds
<1>3. faults' \in 0 .. MaxFaults
  BY <1>1, FaultsTyped DEF ObjectInv, ObjectTyped
<1>4. ASSUME NEW p \in Object
      PROVE  DoubtSound(p)' /\ ProgressSound(p)'
  <2>1. DoubtSound(p) /\ ProgressSound(p) /\ Home[p] \in Backend
    BY DEF ObjectInv
  <2>2. Busy(p) => view'[Home[p]] = view[Home[p]]
    BY <1>1, <2>1, OtherViews DEF Busy, Idle
  <2>3. DoubtSound(p)'
    BY <1>1, <1>2, <2>1 DEF DoubtSound, IsPending, Buffered, DraftOf, Answers
  <2>4. CASE Busy(p)
    <3>1. view'[Home[p]] = view[Home[p]]
      BY <2>2, <2>4
    <3> QED BY <1>1, <2>1, <2>3, <3>1 DEF ProgressSound, Busy, IsPending, Usable, Answers
  <2>5. CASE ~Busy(p)
    BY <1>1, <2>1, <2>3, <2>5 DEF ProgressSound, Busy, IsPending
  <2> QED BY <2>4, <2>5
<1> QED
  BY <1>1, <1>2, <1>3, <1>4
  DEF ObjectInv, ObjectTyped, OpsAreOwned, OneWriteAtATime, Busy, ToldIsDurable, OneOutcome

(* A process ends: its objects are gone, its transaction is rolled back. *)
LEMMA ProcessEndsInv ==
    ASSUME StoreInv, ObjectInv, NEW b \in Backend, ProcessEnds(b) PROVE ObjectInv'
<1>1. /\ obj' = [o \in Object |-> IF Home[o] = b THEN Gone ELSE obj[o]]
      /\ issued' = issued /\ told' = told /\ Fault /\ StoreStep(b)
  BY DEF ProcessEnds, StoreStep
<1>2. disk' = disk /\ committed' = committed /\ receipts' = receipts
  BY DEF ProcessEnds, Restart, Reopen
<1>3. faults' \in 0 .. MaxFaults
  BY <1>1, FaultsTyped DEF ObjectInv, ObjectTyped
<1>4. /\ obj \in [Object -> Buffer] /\ Gone \in Buffer /\ Gone.op = NoOp
      /\ Gone.pc = "gone" /\ Gone.pending = NoPending /\ Gone.rev = 0
  BY DEF ObjectInv, ObjectTyped, Gone, Buffer, PC, Code, Ref
<1>5. /\ \A p \in Object : Home[p] = b => obj'[p] = Gone
      /\ \A p \in Object : Home[p] # b => obj'[p] = obj[p]
      /\ obj' \in [Object -> Buffer]
  BY <1>1, <1>4
<1>6. ObjectTyped'
  BY <1>1, <1>3, <1>4, <1>5 DEF ObjectInv, ObjectTyped
<1>7. OpsAreOwned'
  BY <1>1, <1>2, <1>4, <1>5 DEF ObjectInv, OpsAreOwned
<1>8. OneWriteAtATime'
  BY <1>4, <1>5 DEF ObjectInv, OneWriteAtATime, Busy
<1>9. ASSUME NEW p \in Object
      PROVE  DoubtSound(p)' /\ ProgressSound(p)'
  <2>1. CASE Home[p] = b
    <3>1. NoOp \notin committed
      BY FileFacts
    <3> QED BY <1>2, <1>4, <1>5, <2>1, <3>1 DEF DoubtSound, ProgressSound, IsPending, Busy
  <2>2. CASE Home[p] # b
    <3>1. obj'[p] = obj[p] /\ view'[Home[p]] = view[Home[p]]
      BY <1>1, <1>5, <2>2, OtherViews
    <3>2. DoubtSound(p) /\ ProgressSound(p)
      BY DEF ObjectInv
    <3>3. DoubtSound(p)'
      BY <1>2, <3>1, <3>2 DEF DoubtSound, IsPending, Buffered, DraftOf, Answers
    <3> QED BY <3>1, <3>2, <3>3 DEF ProgressSound, IsPending, Busy, Usable, Answers
  <2> QED BY <2>1, <2>2
<1>10. ToldIsDurable' /\ OneOutcome'
  BY <1>1, <1>2 DEF ObjectInv, ToldIsDurable, OneOutcome
<1> QED
  BY <1>6, <1>7, <1>8, <1>9, <1>10 DEF ObjectInv

-----------------------------------------------------------------------------
(* Without objects and with an empty file the invariants hold. *)
LEMMA ObjectInit == Init => StoreInit /\ StoreInv /\ ObjectInv
<1> SUFFICES ASSUME Init PROVE StoreInv /\ ObjectInv
  BY DEF Init
<1>1. StoreInv
  BY InitInv DEF Init
<1>2. /\ obj \in [Object -> Buffer]
      /\ \A o \in Object : obj[o].pc = "gone" /\ obj[o].op = NoOp
                           /\ obj[o].pending = NoPending /\ obj[o].rev = 0
  BY DEF Init, Gone, Buffer, PC, Code, Ref
<1>3. issued = {} /\ told = {} /\ faults = 0 /\ committed = {} /\ receipts = {}
  BY DEF Init, StoreInit
<1>4. \A o \in Object : DoubtSound(o) /\ ProgressSound(o)
  BY <1>2, <1>3 DEF DoubtSound, ProgressSound, IsPending, Busy
<1> QED
  BY <1>1, <1>2, <1>3, <1>4
  DEF ObjectInv, ObjectTyped, OpsAreOwned, OneWriteAtATime, Busy, ToldIsDurable, OneOutcome

(* Every step keeps the invariants of the store and of the objects. *)
LEMMA ObjectNext ==
    ASSUME StoreInv, ObjectInv, [Next]_vars PROVE StoreInv' /\ ObjectInv'
<1>1. StoreInv'
  BY StepIsStoreStep, NextInv
<1>2. CASE UNCHANGED vars
  <2>1. /\ obj' = obj /\ issued' = issued /\ told' = told /\ faults' = faults
        /\ disk' = disk /\ committed' = committed /\ receipts' = receipts /\ view' = view
    BY <1>2 DEF vars
  <2>2. ASSUME NEW p \in Object
        PROVE  DoubtSound(p)' /\ ProgressSound(p)'
    <3>1. DoubtSound(p) /\ ProgressSound(p)
      BY DEF ObjectInv
    <3>2. DoubtSound(p)'
      BY <2>1, <3>1 DEF DoubtSound, IsPending, Buffered, DraftOf, Answers
    <3> QED BY <2>1, <3>1, <3>2 DEF ProgressSound, IsPending, Busy, Usable, Answers
  <2> QED
    BY <1>1, <2>1, <2>2
    DEF ObjectInv, ObjectTyped, OpsAreOwned, OneWriteAtATime, Busy, ToldIsDurable, OneOutcome
<1>3. ASSUME NEW o \in Object,
             CreateItem(o) \/ GetObject(o) \/ SetMember(o) \/ Write(o)
      PROVE  ObjectInv'
  BY <1>3, CreateItemInv, GetObjectInv, SetMemberInv, WriteInv
<1>4. ASSUME NEW o \in Object, WriteStep(o)
      PROVE  ObjectInv'
  BY <1>1, <1>4, ResolveFoundInv, ResolveAbsentInv, RefusedInv, BeginInv, StageCallInv,
     StageFailsInv, CommitAnsweredInv, CommitUncertainInv DEF WriteStep
<1>5. ASSUME NEW b \in Backend,
             \/ HostReads(b) \/ HostCloses(b) \/ HostLooksUp(b) \/ StrayGoes(b)
             \/ ProcessEnds(b)
      PROVE  ObjectInv'
  BY <1>5, HostInv, ProcessEndsInv
<1> QED
  BY <1>1, <1>2, <1>3, <1>4, <1>5 DEF Next

-----------------------------------------------------------------------------
(* The invariant of the objects holds, beside the one of the store, in      *)
(* every reachable state of _write interleaved with other processes,        *)
(* failures and process ends.                                               *)
THEOREM ObjectInvariant == Spec => [](StoreInv /\ ObjectInv)
<1>1. StoreInv /\ ObjectInv /\ [Next]_vars => (StoreInv /\ ObjectInv)'
  BY ObjectNext
<1> QED
  BY <1>1, ObjectInit, PTL DEF Spec

(* The objects use the backend only as it may be used: what they do to the  *)
(* file, the locks and the views is a behaviour of the store.               *)
THEOREM ObjectsImplementStore == Spec => StoreSpec
<1>1. ObjectInv /\ [Next]_vars => [StoreNext]_storeVars
  BY StepIsStoreStep
<1> QED
  BY <1>1, ObjectInit, ObjectInvariant, PTL DEF Spec, StoreSpec

(* So an operation of an object takes effect at most once and all at once,  *)
(* retries, crashes and lost answers included.                              *)
THEOREM ObjectsAreAtomic == Spec => AtomicSpec
BY ObjectsImplementStore, StoreImplementsAtomicCatalog, PTL

(* What an object believes, reports and submits is what the file holds.     *)
THEOREM OutcomesStayTruthful == Spec => []OutcomesAreTruthful
<1>1. ASSUME StoreInv, ObjectInv PROVE OutcomesAreTruthful
  <2>1. NothingUnseen
    BY <1>1 DEF NothingUnseen, ObjectInv, DoubtSound
  <2>2. AcceptedIsDurable
    BY <1>1 DEF AcceptedIsDurable, ObjectInv, ToldIsDurable, OneOutcome, DoubtSound
  <2>3. DurableIsSubmitted
    <3>1. ASSUME NEW o \in Object, IsPending(o) PROVE obj[o].pending.op = obj[o].op
      <4>1. obj[o].pending = Buffered(o)
        BY <1>1, <3>1 DEF ObjectInv, DoubtSound
      <4> QED BY <4>1 DEF Buffered
    <3> QED BY <1>1, <3>1 DEF DurableIsSubmitted, ObjectInv, DoubtSound
  <2> QED BY <2>1, <2>2, <2>3 DEF OutcomesAreTruthful
<1> QED
  BY <1>1, ObjectInvariant, PTL

(* Type correctness of the objects and their histories. *)
THEOREM ObjectsTyped == Spec => []ObjectTypeOK
<1>1. ObjectInv => ObjectTypeOK
  BY DEF ObjectInv, ObjectTyped, OpsAreOwned, ObjectTypeOK, Buffer, Told
<1> QED
  BY <1>1, ObjectInvariant, PTL
=============================================================================
