------------------------ MODULE CatalogMigration_proofs ------------------------
(***************************************************************************)
(* Proofs about CatalogMigration and the layout it builds on, for any      *)
(* number of operators, records and catalogs: first what the allocation of *)
(* table names returns, then the inductive invariant of the migration.     *)
(***************************************************************************)
EXTENDS CatalogMigration, WellFoundedInduction, SequenceTheorems, TLAPS

-----------------------------------------------------------------------------
(* A nonempty set of naturals has a least element. *)
LEMMA LeastNumber ==
    ASSUME NEW S \in SUBSET Nat, S # {}
    PROVE  \E m \in S : \A x \in S : m <= x
<1>1. PICK m \in S : \A y \in S : ~ (<<y, m>> \in OpToRel(<, Nat))
  BY NatLessThanWellFounded, WFMin, Zenon
<1>2. \A y \in S : ~ (y < m)
  BY <1>1 DEF OpToRel
<1> QED
  BY <1>2

(* The recursion of build_layout over the first n catalogs.                 *)
Taken(table, c) == Reserved \cup {table[d] : d \in 1 .. (c - 1)}
Builds(given, table, n) ==
    table = [c \in 1 .. n |-> Allocate(given[c], c, Taken(table, c))]

(* It has a solution: the empty layout for n = 0, and from each the one     *)
(* with one more catalog.                                                   *)
LEMMA LayoutExists ==
    ASSUME NEW given, NEW n \in Nat
    PROVE  \E table : Builds(given, table, n)
<1> DEFINE Stuck == {k \in Nat : ~ \E t : Builds(given, t, k)}
<1>1. SUFFICES ASSUME Stuck # {} PROVE FALSE
  OBVIOUS
<1>2. PICK k \in Stuck : \A x \in Stuck : k <= x
  BY <1>1, LeastNumber
<1>3. k # 0
  <2>1. Builds(given, [c \in 1 .. 0 |-> 0], 0)
    BY DEF Builds
  <2> QED BY <2>1, <1>2
<1>4. k - 1 \in Nat /\ k - 1 \notin Stuck
  <2>1. k \in Nat /\ k - 1 \in Nat /\ ~ (k <= k - 1)
    BY <1>3
  <2> HIDE DEF Stuck
  <2> QED BY <2>1, <1>2
<1>5. PICK u : Builds(given, u, k - 1)
  BY <1>4
<1> DEFINE t == [c \in 1 .. k |-> IF c = k THEN Allocate(given[k], k, Taken(u, k)) ELSE u[c]]
<1>6. ASSUME NEW c \in 1 .. k PROVE t[c] = Allocate(given[c], c, Taken(t, c))
  <2>1. Taken(t, c) = Taken(u, c)
    <3>1. \A d \in 1 .. (c - 1) : d \in 1 .. k /\ d # k
      BY <1>2
    <3> QED BY <3>1 DEF Taken
  <2>2. Allocate(given[c], c, Taken(t, c)) = Allocate(given[c], c, Taken(u, c))
    BY <2>1
  <2>3. CASE c = k
    BY <2>2, <2>3
  <2>4. CASE c # k
    <3>1. c \in 1 .. (k - 1)
      BY <2>4, <1>2
    <3>2. u[c] = Allocate(given[c], c, Taken(u, c))
      BY <3>1, <1>5 DEF Builds
    <3> QED BY <3>2, <2>2, <2>4
  <2> QED BY <2>3, <2>4
<1>7. Builds(given, t, k)
  BY <1>6 DEF Builds
<1> QED
  BY <1>7, <1>2

(* build_layout gives every catalog, in order, the first name that is free. *)
LEMMA BuildLayoutStep ==
    ASSUME NEW given
    PROVE  Builds(given, BuildLayout(given), Catalogs)
<1>1. Catalogs \in Nat
  BY LayoutAssumption
<1>2. \E table : Builds(given, table, Catalogs)
  BY <1>1, LayoutExists
<1> QED
  BY <1>2, Zenon DEF BuildLayout, Builds, Taken

(* _allocate returns a name that is not in use, or reports "integrity".     *)
LEMMA AllocateFree ==
    ASSUME NEW name, NEW c \in 1 .. Catalogs, NEW used,
           Allocate(name, c, used) # <<Integrity>>
    PROVE  Allocate(name, c, used) \notin used
<1> DEFINE tried == Candidates(name, c)
           free == {i \in 1 .. Len(tried) : tried[i] \notin used}
<1>1. Len(tried) \in Nat
  <2> DEFINE s == Suffixes[c]
             more == [i \in 1 .. Len(s) |-> Append(name, s[i])]
  <2>1. Len(s) \in Nat
    BY LayoutAssumption
  <2>2. more \in Seq({more[i] : i \in 1 .. Len(s)})
    BY <2>1, IsASeq
  <2>3. more \in Seq({name} \cup {more[i] : i \in 1 .. Len(s)})
    <3>1. {more[i] : i \in 1 .. Len(s)} \subseteq {name} \cup {more[i] : i \in 1 .. Len(s)}
      OBVIOUS
    <3> HIDE DEF more
    <3> QED BY <2>2, <3>1, SeqMonotonic
  <2>4. <<name>> \in Seq({name} \cup {more[i] : i \in 1 .. Len(s)})
    OBVIOUS
  <2>5. tried = <<name>> \o more
    BY DEF Candidates
  <2> HIDE DEF more, tried
  <2> QED BY <2>3, <2>4, <2>5, ConcatProperties
<1>2. free # {}
  BY Zenon DEF Allocate
<1>3. free \in SUBSET Nat
  BY <1>1
<1>4. \E i \in free : \A j \in free : i <= j
  BY <1>2, <1>3, LeastNumber
<1> DEFINE first == CHOOSE i \in free : \A j \in free : i <= j
<1>5. first \in free
  BY <1>4, Zenon
<1>6. Allocate(name, c, used) = tried[first]
  BY <1>2, Zenon DEF Allocate
<1> QED
  BY <1>5, <1>6, Zenon

(* Whatever the catalogs are called: a layout that build_layout completes   *)
(* is one that load_layout admits, no table being shared (_allocate).       *)
THEOREM BuiltLayoutsLoad ==
    ASSUME NEW given, Buildable(BuildLayout(given))
    PROVE  Loadable(BuildLayout(given))
<1> DEFINE layout == BuildLayout(given)
<1>1. layout = [c \in 1 .. Catalogs |-> Allocate(given[c], c, Taken(layout, c))]
  BY BuildLayoutStep DEF Builds
<1> HIDE DEF layout
<1>2. DOMAIN layout = 1 .. Catalogs
  BY <1>1
<1>3. ASSUME NEW c \in 1 .. Catalogs PROVE layout[c] \notin Taken(layout, c)
  <2>1. layout[c] = Allocate(given[c], c, Taken(layout, c))
    BY <1>1
  <2>2. layout[c] # <<Integrity>>
    BY <1>2 DEF Buildable, layout
  <2> QED BY <2>1, <2>2, AllocateFree
<1>4. \A c \in 1 .. Catalogs : \A d \in 1 .. (c - 1) : layout[c] # layout[d]
  BY <1>3 DEF Taken
<1>5. \A c, d \in 1 .. Catalogs : layout[c] = layout[d] => c = d
  <2> SUFFICES ASSUME NEW c \in 1 .. Catalogs, NEW d \in 1 .. Catalogs, c # d
               PROVE  layout[c] # layout[d]
    OBVIOUS
  <2>1. d \in 1 .. (c - 1) \/ c \in 1 .. (d - 1)
    BY LayoutAssumption
  <2> QED BY <2>1, <1>4
<1>6. \A c \in 1 .. Catalogs : layout[c] \notin Reserved
  BY <1>3 DEF Taken
<1>7. Loadable(layout)
  BY <1>2, <1>5, <1>6 DEF Loadable
<1> QED
  BY <1>7 DEF layout

-----------------------------------------------------------------------------
(* The inductive invariant.                                                 *)

Phases == {"idle", "planned", "begun", "converted", "done", "failed", "doubt"}
AllReports == {"none", "busy", "conflict", "unsupported", "integrity", "storage_error",
               "uncertain_commit", "done", "committed", "not_committed", "uncertain"}
Layout == BuildLayout(names)

(* A plan that was prepared: for the layout that every process builds.      *)
Prepared == [id : 1 .. plans, source : Rows, layout : {Layout}]

(* Operators past "idle" have a plan of their own, of names that can be     *)
(* allocated; two operators never have the same one.                        *)
PlansAreDistinct ==
    /\ plans \in Nat
    /\ oper \in [Operator -> [phase : Phases, report : AllReports,
                              plan : Prepared \cup {NoPlan}]]
    /\ \A o \in Operator :
          /\ oper[o].plan = NoPlan => Phase(o, "idle")
          /\ oper[o].plan # NoPlan => Buildable(Layout)
          /\ \A p \in Operator \ {o} : oper[o].plan = oper[p].plan => oper[o].plan = NoPlan

(* The operators whose transaction is open are the holder of the lock.      *)
HolderIsWorking ==
    /\ holder \in Operator \cup {Nobody}
    /\ \A o \in Operator : (Phase(o, "begun") \/ Phase(o, "converted")) <=> holder = o

(* The file is of version 1 and was never migrated, or of version 2 and     *)
(* carries the marker of the one plan that took effect.                     *)
FileIsWhole ==
    /\ truth \in Rows
    /\ \/ disk = V1(truth) /\ applied = <<>>
       \/ /\ disk.marker \in Prepared /\ Buildable(Layout)
          /\ disk = [version |-> 2, rows |-> Encode(truth), layout |-> Layout,
                     marker |-> disk.marker]
          /\ applied = <<[plan |-> disk.marker, from |-> disk.marker.source]>>

(* The operator of that plan was told so or is in doubt; nobody will use it *)
(* again.                                                                   *)
AppliedPlanIsSpent ==
    disk.version = 2 =>
        \A o \in Operator : oper[o].plan = disk.marker => Phase(o, "done") \/ Phase(o, "doubt")
DoneIsApplied ==
    \A o \in Operator : Phase(o, "done") => disk.version = 2 /\ oper[o].plan = disk.marker

(* What the holder will commit is its plan's image of the present file.     *)
ImageIsCurrent ==
    \A o \in Operator : Phase(o, "converted") =>
        /\ disk = V1(oper[o].plan.source)
        /\ image = [version |-> 2, rows |-> Encode(disk.rows), layout |-> Layout,
                    marker |-> oper[o].plan]

(* Only a program that was not stopped can make a plan stale.               *)
PlansStayCurrent ==
    /\ writes \in Nat
    /\ writes = 0 /\ disk.version = 1 =>
          \A o \in Operator : oper[o].plan # NoPlan => oper[o].plan.source = disk.rows

MigrationInv ==
    /\ PlansAreDistinct /\ HolderIsWorking /\ FileIsWhole /\ AppliedPlanIsSpent
    /\ DoneIsApplied /\ ImageIsCurrent /\ PlansStayCurrent

(* Encoding the empty reference as NULL loses nothing.                      *)
LEMMA EncodeDecode ==
    ASSUME NEW rows \in Rows
    PROVE  Decode(Encode(rows)) = rows
BY MigrationAssumption DEF Rows, Ref, Encode, Decode

(* A report changes the phase of its operator and no plan.                  *)
LEMMA ReportsOnly ==
    ASSUME PlansAreDistinct, NEW o \in Operator, NEW phase \in Phases, NEW report \in AllReports,
           Reports(o, phase, report),
           oper[o].plan = NoPlan => phase = "idle",
           UNCHANGED <<names, plans>>
    PROVE  /\ PlansAreDistinct'
           /\ \A p \in Operator : oper'[p].plan = oper[p].plan
           /\ \A p \in Operator \ {o} : oper'[p].phase = oper[p].phase
           /\ oper'[o].phase = phase
<1>1. /\ \A p \in Operator : oper'[p].plan = oper[p].plan
      /\ \A p \in Operator \ {o} : oper'[p].phase = oper[p].phase
      /\ oper'[o].phase = phase
      /\ oper' \in [Operator -> [phase : Phases, report : AllReports,
                                 plan : Prepared \cup {NoPlan}]]
  BY DEF PlansAreDistinct, Reports
<1>2. Prepared' = Prepared /\ Layout' = Layout
  BY DEF Prepared, Layout
<1> QED
  BY <1>1, <1>2 DEF PlansAreDistinct, Phase

(* An operator before any migration satisfies the invariant. *)
LEMMA MigrationInit == Init => MigrationInv
<1> SUFFICES ASSUME Init PROVE MigrationInv
  OBVIOUS
<1> USE MigrationAssumption DEF Init, V1
<1>1. PlansAreDistinct
  <2>1. \A o \in Operator : oper[o] = [phase |-> "idle", report |-> "none", plan |-> NoPlan]
    OBVIOUS
  <2>2. [phase |-> "idle", report |-> "none", plan |-> NoPlan]
            \in [phase : Phases, report : AllReports, plan : Prepared \cup {NoPlan}]
    BY DEF Phases, AllReports
  <2>3. oper \in [Operator -> [phase : Phases, report : AllReports, plan : Prepared \cup {NoPlan}]]
    BY <2>2
  <2> QED BY <2>1, <2>3 DEF PlansAreDistinct, Phase
<1>2. HolderIsWorking
  BY DEF HolderIsWorking, Phase
<1>3. FileIsWhole
  BY DEF FileIsWhole
<1>4. AppliedPlanIsSpent /\ DoneIsApplied /\ ImageIsCurrent /\ PlansStayCurrent
  BY DEF AppliedPlanIsSpent, DoneIsApplied, ImageIsCurrent, PlansStayCurrent, Phase
<1> QED
  BY <1>1, <1>2, <1>3, <1>4 DEF MigrationInv

(* One operator moves to another phase and the file stays: the invariant    *)
(* holds if the holder stays the one at work, a plan that took effect is    *)
(* not used again, and "done" is not said of one that did not.              *)
LEMMA OperatorMoves ==
    ASSUME MigrationInv, NEW o \in Operator, NEW phase \in Phases \ {"converted"},
           NEW report \in AllReports, Reports(o, phase, report), ~Phase(o, "idle"),
           UNCHANGED <<names, disk, image, plans, writes, truth, applied>>,
           holder' \in {holder, o, Nobody},
           (phase = "begun") <=> (holder' = o),
           holder' = Nobody => holder \in {o, Nobody},
           holder' = o => holder \in {o, Nobody},
           phase \notin {"done", "doubt"} =>
               ~(disk.version = 2 /\ oper[o].plan = disk.marker),
           phase = "done" => disk.version = 2 /\ oper[o].plan = disk.marker
    PROVE  MigrationInv'
<1> USE DEF MigrationInv
<1>1. /\ PlansAreDistinct'
      /\ \A p \in Operator : oper'[p].plan = oper[p].plan
      /\ \A p \in Operator \ {o} : oper'[p].phase = oper[p].phase
      /\ oper'[o].phase = phase
  BY ReportsOnly DEF PlansAreDistinct, Phase
<1>2. HolderIsWorking'
  BY <1>1, MigrationAssumption DEF HolderIsWorking, Phase
<1>3. FileIsWhole'
  BY DEF FileIsWhole, Prepared, Layout
<1>4. AppliedPlanIsSpent' /\ DoneIsApplied'
  BY <1>1 DEF AppliedPlanIsSpent, DoneIsApplied, Phase
<1>5. ImageIsCurrent' /\ PlansStayCurrent'
  BY <1>1 DEF ImageIsCurrent, PlansStayCurrent, Phase, Layout
<1> QED
  BY <1>1, <1>2, <1>3, <1>4, <1>5

(* The call ends before COMMIT.                                             *)
LEMMA AbortStep ==
    ASSUME MigrationInv, NEW o \in Operator, NEW report \in AllReports,
           Phase(o, "begun") \/ Phase(o, "converted"), Abort(o, report)
    PROVE  MigrationInv'
<1>1. PICK phase \in {"failed", "doubt"}, told \in AllReports : Reports(o, phase, told)
  BY DEF Abort, AllReports
<1>2. holder' = Nobody /\ holder = o /\ ~Phase(o, "idle")
  BY DEF Abort, MigrationInv, HolderIsWorking, Phase
<1>3. disk.version = 2 => oper[o].plan # disk.marker
  BY DEF MigrationInv, AppliedPlanIsSpent, Phase
<1>4. UNCHANGED <<names, disk, image, plans, writes, truth, applied>>
  BY DEF Abort
<1> QED
  BY <1>1, <1>2, <1>3, <1>4, OperatorMoves, MigrationAssumption DEF Phases

(* COMMIT made the holder's image durable: its plan has taken effect.       *)
LEMMA DurableStep ==
    ASSUME MigrationInv, NEW o \in Operator, Phase(o, "converted"), Durable(o),
           NEW phase \in {"done", "doubt"}, NEW report \in AllReports,
           Reports(o, phase, report), UNCHANGED <<names, image, plans, writes, truth>>
    PROVE  MigrationInv'
<1> USE DEF MigrationInv
<1>1. /\ PlansAreDistinct'
      /\ \A p \in Operator : oper'[p].plan = oper[p].plan
      /\ \A p \in Operator \ {o} : oper'[p].phase = oper[p].phase
      /\ oper'[o].phase = phase
  BY ReportsOnly DEF PlansAreDistinct, Phase, Phases
<1>2. HolderIsWorking'
  BY <1>1, MigrationAssumption DEF HolderIsWorking, Phase, Durable
<1>3. /\ oper[o].plan \in Prepared /\ Buildable(Layout)
      /\ disk = V1(oper[o].plan.source) /\ truth = oper[o].plan.source /\ applied = <<>>
      /\ disk' = [version |-> 2, rows |-> Encode(truth), layout |-> Layout,
                  marker |-> oper[o].plan]
      /\ applied' = <<[plan |-> oper[o].plan, from |-> truth]>>
  <2>1. oper[o].plan # NoPlan
    BY DEF PlansAreDistinct, Phase
  <2>2. oper[o].plan \in Prepared /\ Buildable(Layout)
    BY <2>1 DEF PlansAreDistinct
  <2>3. disk = V1(oper[o].plan.source) /\ disk' = [version |-> 2, rows |-> Encode(disk.rows),
            layout |-> Layout, marker |-> oper[o].plan]
    BY DEF ImageIsCurrent, Durable
  <2>4. truth = oper[o].plan.source /\ applied = <<>> /\ disk.rows = truth
    BY <2>3 DEF FileIsWhole, V1
  <2> QED BY <2>2, <2>3, <2>4 DEF Durable
<1>4. FileIsWhole'
  BY <1>3 DEF FileIsWhole, Prepared, Layout
<1>5. AppliedPlanIsSpent' /\ DoneIsApplied'
  <2>1. \A p \in Operator : ~Phase(p, "done")
    BY <1>3 DEF DoneIsApplied, V1
  <2>2. oper[o].plan # NoPlan
    BY DEF PlansAreDistinct, Phase
  <2>3. \A p \in Operator \ {o} : oper[p].plan # oper[o].plan
    BY <2>2 DEF PlansAreDistinct
  <2>4. disk'.version = 2 /\ disk'.marker = oper[o].plan
    BY <1>3
  <2> QED BY <1>1, <2>1, <2>3, <2>4 DEF AppliedPlanIsSpent, DoneIsApplied, Phase
<1>6. ImageIsCurrent' /\ PlansStayCurrent'
  <2>1. \A p \in Operator : oper'[p].phase # "converted"
    BY <1>1 DEF HolderIsWorking, Phase
  <2>2. disk'.version = 2
    BY <1>3
  <2> QED BY <2>1, <2>2 DEF ImageIsCurrent, PlansStayCurrent, Phase
<1> QED
  BY <1>1, <1>2, <1>4, <1>5, <1>6

(* COMMIT did not take effect, and the operator cannot know.                *)
LEMMA UndoneStep ==
    ASSUME MigrationInv, NEW o \in Operator, holder = o, Undone,
           NEW report \in AllReports, Reports(o, "doubt", report),
           UNCHANGED <<names, image, plans, writes, truth>>
    PROVE  MigrationInv'
<1>1. ~Phase(o, "idle")
  BY DEF MigrationInv, HolderIsWorking, Phase
<1>2. UNCHANGED <<names, disk, image, plans, writes, truth, applied>> /\ holder' = Nobody
  BY DEF Undone
<1> QED
  BY <1>1, <1>2, OperatorMoves, MigrationAssumption DEF Phases

(* Every step of a migration, and every fault, keeps the invariant. *)
LEMMA MigrationStep == MigrationInv /\ [Next]_vars => MigrationInv'
<1> SUFFICES ASSUME MigrationInv, [Next]_vars PROVE MigrationInv'
  OBVIOUS
<1> USE MigrationAssumption
<1>1. ASSUME NEW o \in Operator, Prepare(o) PROVE MigrationInv'
  <2> USE DEF MigrationInv
  <2>1. PlansAreDistinct'
    BY <1>1 DEF Prepare, PlansAreDistinct, Phase, Phases, AllReports, Admissible,
                Prepared, Layout, FileIsWhole, V1, NoPlan
  <2>2. HolderIsWorking'
    BY <1>1 DEF Prepare, PlansAreDistinct, HolderIsWorking, Phase
  <2>3. FileIsWhole'
    BY <1>1 DEF Prepare, FileIsWhole, Prepared, Layout, PlansAreDistinct
  <2>4. AppliedPlanIsSpent' /\ DoneIsApplied'
    BY <1>1 DEF Prepare, AppliedPlanIsSpent, DoneIsApplied, Phase, Admissible, PlansAreDistinct
  <2>5. ImageIsCurrent' /\ PlansStayCurrent'
    BY <1>1 DEF Prepare, ImageIsCurrent, PlansStayCurrent, Phase, Admissible,
                PlansAreDistinct, Layout
  <2> QED BY <2>1, <2>2, <2>3, <2>4, <2>5
<1>2. ASSUME NEW o \in Operator, Begin(o) PROVE MigrationInv'
  <2>1. PICK phase \in {"begun", "failed", "doubt"}, report \in AllReports :
             /\ Reports(o, phase, report)
             /\ IF holder = Nobody THEN holder' = o /\ phase = "begun"
                                   ELSE phase # "begun" /\ UNCHANGED holder
    BY <1>2 DEF Begin, AllReports
  <2>2. /\ Phase(o, "planned") /\ ~Phase(o, "idle") /\ holder # o
        /\ UNCHANGED <<names, disk, image, plans, writes, truth, applied>>
    BY <1>2 DEF Begin, MigrationInv, HolderIsWorking, Phase
  <2>3. disk.version = 2 => oper[o].plan # disk.marker
    BY <2>2 DEF MigrationInv, AppliedPlanIsSpent, Phase
  <2> QED BY <2>1, <2>2, <2>3, OperatorMoves DEF Phases
<1>3. ASSUME NEW o \in Operator, PlanConflicts(o) PROVE MigrationInv'
  BY <1>3, AbortStep DEF PlanConflicts, AllReports
<1>4. ASSUME NEW o \in Operator, Convert(o) PROVE MigrationInv'
  <2> USE DEF MigrationInv
  <2>1. /\ PlansAreDistinct'
        /\ \A p \in Operator : oper'[p].plan = oper[p].plan
        /\ \A p \in Operator \ {o} : oper'[p].phase = oper[p].phase
        /\ oper'[o].phase = "converted"
    BY <1>4, ReportsOnly DEF Convert, PlansAreDistinct, Phase, Phases, AllReports
  <2>2. HolderIsWorking'
    BY <1>4, <2>1 DEF Convert, HolderIsWorking, Phase
  <2>3. FileIsWhole'
    BY <1>4 DEF Convert, FileIsWhole, Prepared, Layout
  <2>4. AppliedPlanIsSpent' /\ DoneIsApplied' /\ PlansStayCurrent'
    BY <1>4, <2>1 DEF Convert, AppliedPlanIsSpent, DoneIsApplied, PlansStayCurrent, Phase
  <2>5. ImageIsCurrent'
    <3>1. disk = V1(oper[o].plan.source)
      BY <1>4 DEF Convert, SamePlan, Admissible, FileIsWhole, V1
    <3>2. \A p \in Operator \ {o} : ~Phase(p, "converted")
      BY <1>4 DEF Convert, HolderIsWorking, Phase
    <3> QED BY <1>4, <2>1, <3>1, <3>2 DEF Convert, ImageIsCurrent, Phase, Layout
  <2> QED BY <2>1, <2>2, <2>3, <2>4, <2>5
<1>5. ASSUME NEW o \in Operator, ConversionRefused(o) PROVE MigrationInv'
  BY <1>5, AbortStep DEF ConversionRefused, AllReports
<1>6. ASSUME NEW o \in Operator, StorageFails(o) PROVE MigrationInv'
  BY <1>6, AbortStep DEF StorageFails, AllReports
<1>7. ASSUME NEW o \in Operator, Commit(o) PROVE MigrationInv'
  BY <1>7, DurableStep DEF Commit, AllReports
<1>8. ASSUME NEW o \in Operator, CommitFails(o) PROVE MigrationInv'
  <2>1. holder = o
    BY <1>8 DEF CommitFails, MigrationInv, HolderIsWorking
  <2> QED BY <1>8, <2>1, DurableStep, UndoneStep DEF CommitFails, ReportsDoubt, AllReports
<1>9. ASSUME NEW o \in Operator, Crash(o) PROVE MigrationInv'
  BY <1>9, DurableStep, UndoneStep DEF Crash, AllReports
<1>10. ASSUME NEW o \in Operator, Resolve(o) PROVE MigrationInv'
  <2> DEFINE verdict == Verdict(o)
             phase == CASE verdict = "committed" -> "done"
                        [] verdict = "not_committed" -> "failed"
                        [] OTHER -> "doubt"
  <2>1. /\ Phase(o, "doubt") /\ ~Phase(o, "idle") /\ holder # o /\ UNCHANGED holder
        /\ Reports(o, phase, verdict)
        /\ UNCHANGED <<names, disk, image, plans, writes, truth, applied>>
    BY <1>10 DEF Resolve, MigrationInv, HolderIsWorking, Phase
  <2>2. /\ verdict \in AllReports
        /\ verdict = "committed" => disk.version # 1 /\ disk.marker = oper[o].plan
        /\ verdict = "not_committed" => disk.version = 1
    BY DEF Verdict, AllReports
  <2>3. disk.version \in {1, 2}
    BY DEF MigrationInv, FileIsWhole, V1
  <2>4. phase \in {"done", "failed", "doubt"}
        /\ (phase = "done" <=> verdict = "committed")
        /\ (phase = "failed" <=> verdict = "not_committed")
    OBVIOUS
  <2> HIDE DEF verdict, phase
  <2> QED BY <2>1, <2>2, <2>3, <2>4, OperatorMoves DEF Phases
<1>11. ASSUME NEW o \in Operator, Again(o) PROVE MigrationInv'
  <2>1. PICK phase \in {"planned", "idle"} : Reports(o, phase, "none")
    BY <1>11 DEF Again
  <2>2. /\ Phase(o, "failed") /\ ~Phase(o, "idle") /\ holder # o /\ UNCHANGED holder
        /\ UNCHANGED <<names, disk, image, plans, writes, truth, applied>>
    BY <1>11 DEF Again, MigrationInv, HolderIsWorking, Phase
  <2>3. disk.version = 2 => oper[o].plan # disk.marker
    BY <2>2 DEF MigrationInv, AppliedPlanIsSpent, Phase
  <2> QED BY <2>1, <2>2, <2>3, OperatorMoves DEF Phases, AllReports
<1>12. CASE Recover
  BY <1>12 DEF Recover, MigrationInv, PlansAreDistinct, HolderIsWorking, FileIsWhole,
     AppliedPlanIsSpent, DoneIsApplied, ImageIsCurrent, PlansStayCurrent, Phase, Prepared, Layout
<1>13. CASE OtherWrites
  <2> USE DEF MigrationInv
  <2>1. PICK rows \in Rows : truth' = rows /\ IF disk.version = 1 THEN disk' = V1(rows)
                                        ELSE disk' = [disk EXCEPT !.rows = Encode(rows)]
    BY <1>13 DEF OtherWrites
  <2>2. /\ UNCHANGED <<names, holder, image, oper, plans, applied>>
        /\ holder = Nobody /\ writes' = writes + 1
    BY <1>13 DEF OtherWrites
  <2>3. disk'.version = disk.version /\ (disk.version = 2 => disk'.marker = disk.marker)
    BY <2>1 DEF FileIsWhole, V1
  <2>4. FileIsWhole'
    BY <2>1, <2>2 DEF FileIsWhole, V1, Prepared, Layout
  <2>5. PlansAreDistinct' /\ HolderIsWorking'
    BY <2>2 DEF PlansAreDistinct, HolderIsWorking, Phase, Prepared, Layout
  <2>6. AppliedPlanIsSpent' /\ DoneIsApplied'
    BY <2>2, <2>3 DEF AppliedPlanIsSpent, DoneIsApplied, Phase
  <2>7. ImageIsCurrent'
    BY <2>2 DEF HolderIsWorking, ImageIsCurrent, Phase
  <2>8. PlansStayCurrent'
    <3>1. writes' # 0
      BY <2>2 DEF PlansStayCurrent
    <3> QED BY <2>2, <3>1 DEF PlansStayCurrent
  <2> QED BY <2>4, <2>5, <2>6, <2>7, <2>8
<1>14. CASE UNCHANGED vars
  BY <1>14 DEF vars, MigrationInv, PlansAreDistinct, HolderIsWorking, FileIsWhole,
     AppliedPlanIsSpent, DoneIsApplied, ImageIsCurrent, PlansStayCurrent, Phase, Prepared, Layout
<1> QED
  BY <1>1, <1>2, <1>3, <1>4, <1>5, <1>6, <1>7, <1>8, <1>9, <1>10, <1>11, <1>12, <1>13,
     <1>14 DEF Next

(* The invariant holds of every behaviour of the migration module.          *)
THEOREM MigrationInvariant == Spec => []MigrationInv
<1> QED
  BY MigrationInit, MigrationStep, PTL DEF Spec

(* Nothing is lost: a file of either version reads back as its writers left *)
(* it, and its marker names the plan of the content that was migrated       *)
(* (_copy_records, _verify_records, the plan comparison of migrate_v1).     *)
THEOREM MigrationLosesNothing == Spec => []NothingLost
<1>1. MigrationInv => NothingLost
  <2> SUFFICES ASSUME MigrationInv PROVE NothingLost
    OBVIOUS
  <2>1. truth \in Rows
    BY DEF MigrationInv, FileIsWhole
  <2>2. CASE disk = V1(truth) /\ applied = <<>>
    BY <2>2 DEF NothingLost, Logical, V1
  <2>3. CASE /\ disk = [version |-> 2, rows |-> Encode(truth), layout |-> Layout,
                        marker |-> disk.marker]
             /\ applied = <<[plan |-> disk.marker, from |-> disk.marker.source]>>
    <3>1. Logical(disk) = truth
      BY <2>1, <2>3, EncodeDecode DEF Logical
    <3> QED BY <2>3, <3>1 DEF NothingLost
  <2> QED BY <2>2, <2>3 DEF MigrationInv, FileIsWhole
<1> QED
  BY <1>1, MigrationInvariant, PTL

(* What an operator is told is true: "done" and "committed" only of its own *)
(* plan that took effect, a definite failure only of one that did not       *)
(* (migrate_v1, resolve_migration).                                         *)
THEOREM MigrationReportsTruly == Spec => []ReportsAreTrue
<1>1. MigrationInv => ReportsAreTrue
  <2> SUFFICES ASSUME MigrationInv, NEW o \in Operator
               PROVE  LET effective == applied # <<>> /\ applied[1].plan = oper[o].plan IN
                      /\ Phase(o, "done") => effective
                      /\ Phase(o, "failed") => ~effective
    BY DEF ReportsAreTrue
  <2>1. CASE disk.version = 1 /\ applied = <<>>
    BY <2>1 DEF MigrationInv, DoneIsApplied
  <2>2. CASE disk.version = 2 /\ applied # <<>> /\ applied[1].plan = disk.marker
    BY <2>2 DEF MigrationInv, DoneIsApplied, AppliedPlanIsSpent, Phase
  <2> QED BY <2>1, <2>2 DEF MigrationInv, FileIsWhole, V1
<1> QED
  BY <1>1, MigrationInvariant, PTL

(* A doubt about a recovered file without other writers has an answer: the  *)
(* resolver names the outcome of the plan, unless it was another plan that  *)
(* took effect (resolve_migration).                                         *)
THEOREM DoubtsAreResolvable == Spec => []DoubtIsResolvable
<1>1. MigrationInv => DoubtIsResolvable
  <2> SUFFICES ASSUME MigrationInv, NEW o \in Operator,
                      Phase(o, "doubt"), Readable, writes = 0
               PROVE  \/ Verdict(o) # "uncertain"
                      \/ applied # <<>> /\ applied[1].plan # oper[o].plan
    BY DEF DoubtIsResolvable
  <2>1. oper[o].plan \in Prepared /\ Buildable(Layout)
    BY DEF MigrationInv, PlansAreDistinct, Phase
  <2>2. CASE disk.version = 1
    <3>1. oper[o].plan # NoPlan
      BY DEF MigrationInv, PlansAreDistinct, Phase
    <3>2. SamePlan(o)
      BY <2>1, <2>2, <3>1 DEF SamePlan, Admissible, MigrationInv, PlansStayCurrent,
         Prepared, Layout
    <3> QED BY <2>2, <3>2 DEF Verdict
  <2>3. CASE /\ disk.version = 2 /\ disk.layout = Layout
             /\ applied = <<[plan |-> disk.marker, from |-> disk.marker.source]>>
    <3>1. Loadable(disk.layout)
      BY <2>1, <2>3, BuiltLayoutsLoad DEF Layout
    <3> QED BY <2>3, <3>1 DEF Verdict
  <2> QED BY <2>2, <2>3 DEF MigrationInv, FileIsWhole, V1
<1> QED
  BY <1>1, MigrationInvariant, PTL

(* The layout of the database's catalogs, once it can be built, is one that *)
(* every process admits (_allocate, load_layout).                           *)
THEOREM LayoutsAreLoadable == Spec => []LayoutIsLoadable
<1>1. LayoutIsLoadable
  BY BuiltLayoutsLoad DEF LayoutIsLoadable
<1> QED
  BY <1>1, PTL
=============================================================================
