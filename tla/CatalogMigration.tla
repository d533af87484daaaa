--------------------------- MODULE CatalogMigration ----------------------------
(***************************************************************************)
(* The offline migration of a database file (sqlite_catalog_migration.py). *)
(* An operator prepares a plan, keeps it, migrates under it in one SQLite  *)
(* transaction and, when the commit is in doubt, asks the file itself      *)
(* whether the plan's marker got durable.  The caller ought to stop every  *)
(* process meanwhile; the writers here are the ones that were not stopped. *)
(*                                                                         *)
(* `disk' is what a recovered file holds; a journal that a dead process    *)
(* left behind (`hot') hides it from a read-only connection.               *)
(***************************************************************************)
EXTENDS CatalogLayout

CONSTANTS
    Operator,   \* processes that run the module's functions
    Record,     \* record ids; references name one of them
    Null,       \* the empty reference in a column
    Absent,     \* no such record
    Names,      \* names that the catalogs may have
    MaxPlans,   \* bound: plans prepared
    MaxWrites   \* bound: commits of programs that were not stopped

Nobody == "nobody"

ASSUME MigrationAssumption ==
    /\ {0, Null, Absent} \cap Record = {} /\ Null # Absent
    /\ Nobody \notin Operator
    /\ MaxPlans \in Nat \ {0} /\ MaxWrites \in Nat

Ref == Record \cup {0}                      \* 0: the empty reference
Rows == [Record -> Ref \cup {Absent}]       \* as catalog_record has them
Columns == [Record -> Record \cup {Null, Absent}]

VARIABLES
    names,      \* names of the catalogs in the file's schemas
    disk,       \* version, rows or columns, layout and marker
    hot,        \* a journal of a dead process lies beside the file
    holder,     \* operator with the EXCLUSIVE lock
    image,      \* what the holder's transaction has made of the file
    oper,       \* the operators: phase, plan, report
    plans,      \* plans prepared so far
    writes,     \* commits of other programs
    truth,      \* the records as their writers left them
    applied     \* plans that took effect and what the records were then

vars == <<names, disk, hot, holder, image, oper, plans, writes, truth, applied>>

NoPlan == [id |-> 0]
V1(rows) == [version |-> 1, rows |-> rows, layout |-> <<>>, marker |-> NoPlan]

(* encode_columns and decode_columns: the empty reference is NULL.          *)
Encode(rows) == [r \in Record |-> IF rows[r] = 0 THEN Null ELSE rows[r]]
Decode(columns) == [r \in Record |-> IF columns[r] = Null THEN 0 ELSE columns[r]]
Logical(content) == IF content.version = 1 THEN content.rows ELSE Decode(content.rows)

(* PRAGMA foreign_key_check after the copy. *)
Dangling(columns) ==
    \E r \in Record : columns[r] \notin {Null, Absent} /\ columns[columns[r]] = Absent

-----------------------------------------------------------------------------
(* prepare_v1 and what migrate_v1 compares with it. *)

(* _plan_data admits version 1 only, and names for all of its catalogs. *)
Admissible == disk.version = 1 /\ Buildable(BuildLayout(names))

(* A read-only connection meets a lock or a hot journal. *)
Readable == holder = Nobody /\ ~hot

Phase(o, phase) == oper[o].phase = phase
Reports(o, phase, report) ==
    oper' = [oper EXCEPT ![o].phase = phase, ![o].report = report]

Prepare(o) ==
    /\ Phase(o, "idle") /\ Readable /\ Admissible /\ plans < MaxPlans
    /\ plans' = plans + 1
    /\ oper' = [oper EXCEPT ![o] = [phase |-> "planned", report |-> "none",
                                    plan |-> [id |-> plans + 1, source |-> disk.rows,
                                              layout |-> BuildLayout(names)]]]
    /\ UNCHANGED <<names, disk, hot, holder, image, writes, truth, applied>>

SamePlanVersion(o) == \* mutant: the plan is compared by version alone
    Admissible
SamePlan(o) ==
    /\ Admissible
    /\ oper[o].plan.source = disk.rows
    /\ oper[o].plan.layout = BuildLayout(names)

-----------------------------------------------------------------------------
(* migrate_v1 *)

(* BEGIN EXCLUSIVE; the writable connection recovers a hot journal.  Even a *)
(* busy call is reported as uncertain when its connection does not close.   *)
Begin(o) ==
    /\ Phase(o, "planned")
    /\ IF holder = Nobody
       THEN /\ holder' = o /\ hot' = FALSE
            /\ Reports(o, "begun", "none")
       ELSE /\ Reports(o, "failed", "busy") \/ Reports(o, "doubt", "uncertain_commit")
            /\ UNCHANGED <<holder, hot>>
    /\ UNCHANGED <<names, disk, image, plans, writes, truth, applied>>

(* The call ends before COMMIT: ROLLBACK and close, both of which may fail. *)
(* Then a journal may stay, and the outcome is reported as uncertain.       *)
Abort(o, report) ==
    /\ holder' = Nobody
    /\ \/ hot' = FALSE /\ Reports(o, "failed", report)
       \/ hot' \in BOOLEAN /\ Reports(o, "doubt", "uncertain_commit")
    /\ UNCHANGED <<names, disk, image, plans, writes, truth, applied>>

PlanConflicts(o) ==
    /\ Phase(o, "begun") /\ ~SamePlan(o)
    /\ Abort(o, IF Admissible THEN "conflict" ELSE "unsupported")

(* Registry, layout, tables, copy, verification, DROP, marker, version.     *)
Convert(o) ==
    /\ Phase(o, "begun") /\ SamePlan(o) /\ ~Dangling(Encode(disk.rows))
    /\ image' = [version |-> 2, rows |-> Encode(disk.rows),
                 layout |-> BuildLayout(names), marker |-> oper[o].plan]
    /\ Reports(o, "converted", "none")
    /\ UNCHANGED <<names, disk, hot, holder, plans, writes, truth, applied>>

ConversionRefused(o) ==
    /\ Phase(o, "begun") /\ SamePlan(o) /\ Dangling(Encode(disk.rows))
    /\ Abort(o, "integrity")

(* Any step before COMMIT fails. *)
StorageFails(o) ==
    (Phase(o, "begun") \/ Phase(o, "converted")) /\ Abort(o, "storage_error")

Durable(o) ==
    /\ disk' = image /\ applied' = Append(applied, [plan |-> oper[o].plan, from |-> truth])
    /\ hot' = FALSE /\ holder' = Nobody

Undone ==
    UNCHANGED <<disk, applied>> /\ hot' \in BOOLEAN /\ holder' = Nobody

(* COMMIT returns and close does not fail. *)
Commit(o) ==
    /\ Phase(o, "converted") /\ Durable(o) /\ Reports(o, "done", "done")
    /\ UNCHANGED <<names, image, plans, writes, truth>>

ReportsError(o) == \* mutant: an error of COMMIT is an ordinary failure
    Reports(o, "failed", "storage_error")

(* commit_started: every error is uncertain_commit. *)
ReportsDoubt(o) == Reports(o, "doubt", "uncertain_commit")

(* COMMIT or the close after it raises. *)
CommitFails(o) ==
    /\ Phase(o, "converted") /\ (Durable(o) \/ Undone) /\ ReportsDoubt(o)
    /\ UNCHANGED <<names, image, plans, writes, truth>>

(* The process dies; the operator still has the plan, and no report. *)
Crash(o) ==
    /\ holder = o
    /\ Undone \/ (Phase(o, "converted") /\ Durable(o))
    /\ Reports(o, "doubt", "none")
    /\ UNCHANGED <<names, image, plans, writes, truth>>

-----------------------------------------------------------------------------
(* resolve_migration *)

VerdictOfMarker(o) == \* mutant: only the marker is looked for
    IF Readable /\ disk.version = 2 /\ disk.marker = oper[o].plan
    THEN "committed" ELSE "uncertain"

Verdict(o) ==
    IF ~Readable THEN "uncertain"
    ELSE IF disk.version = 1
         THEN IF SamePlan(o) THEN "not_committed" ELSE "uncertain"
    ELSE IF disk.marker = oper[o].plan /\ Loadable(disk.layout)
         THEN "committed" ELSE "uncertain"

Resolve(o) ==
    /\ Phase(o, "doubt")
    /\ LET verdict == Verdict(o) IN
       Reports(o, CASE verdict = "committed" -> "done"
                    [] verdict = "not_committed" -> "failed"
                    [] OTHER -> "doubt", verdict)
    /\ UNCHANGED <<names, disk, hot, holder, image, plans, writes, truth, applied>>

(* After a definite failure the operator uses the plan again or a new one. *)
Again(o) ==
    /\ Phase(o, "failed")
    /\ \E phase \in {"planned", "idle"} : Reports(o, phase, "none")
    /\ UNCHANGED <<names, disk, hot, holder, image, plans, writes, truth, applied>>

(* Maintenance recovery: any writable connection rolls the journal back. *)
Recover ==
    /\ hot /\ holder = Nobody /\ hot' = FALSE
    /\ UNCHANGED <<names, disk, holder, image, oper, plans, writes, truth, applied>>

(* A program of the file's version commits. *)
OtherWrites ==
    /\ holder = Nobody /\ writes < MaxWrites /\ writes' = writes + 1 /\ hot' = FALSE
    /\ \E rows \in Rows :
          /\ truth' = rows
          /\ IF disk.version = 1 THEN disk' = V1(rows)
             ELSE ~Dangling(Encode(rows)) /\ disk' = [disk EXCEPT !.rows = Encode(rows)]
    /\ UNCHANGED <<names, holder, image, oper, plans, applied>>

-----------------------------------------------------------------------------
Init ==
    /\ names \in [1 .. Catalogs -> Names]
    /\ \E rows \in Rows : disk = V1(rows) /\ truth = rows /\ image = V1(rows)
    /\ hot = FALSE /\ holder = Nobody
    /\ oper = [o \in Operator |-> [phase |-> "idle", report |-> "none", plan |-> NoPlan]]
    /\ plans = 0 /\ writes = 0 /\ applied = <<>>

Next ==
    \/ \E o \in Operator :
          \/ Prepare(o) \/ Begin(o) \/ PlanConflicts(o) \/ Convert(o)
          \/ ConversionRefused(o) \/ StorageFails(o) \/ Commit(o) \/ CommitFails(o)
          \/ Crash(o) \/ Resolve(o) \/ Again(o)
    \/ Recover \/ OtherWrites

Spec == Init /\ [][Next]_vars

-----------------------------------------------------------------------------
(* Nothing is lost or altered: whatever the migrations, crashes and         *)
(* recoveries, a reader of the file finds the records as their writers left *)
(* them, and the marker names the plan that was made from the very content  *)
(* that was migrated (_copy_records, _verify_records, the plan comparison). *)
NothingLost ==
    /\ Logical(disk) = truth
    /\ Len(applied) = disk.version - 1
    /\ disk.version = 2 =>
          disk.marker = applied[1].plan /\ disk.marker.source = applied[1].from

(* What an operator is told is true: "done" and "committed" mean that its   *)
(* own plan took effect, a definite failure or "not_committed" that it did  *)
(* not; the plan of an operator in doubt may be either (migrate_v1,         *)
(* resolve_migration).                                                      *)
ReportsAreTrue ==
    \A o \in Operator :
        LET effective == applied # <<>> /\ applied[1].plan = oper[o].plan IN
        /\ Phase(o, "done") => effective
        /\ Phase(o, "failed") => ~effective

(* A doubt about a file that is recovered and has no other writer ends: the *)
(* resolver names the outcome, unless another operator's plan took effect.  *)
DoubtIsResolvable ==
    \A o \in Operator :
        Phase(o, "doubt") /\ Readable /\ writes = 0 =>
            \/ Verdict(o) # "uncertain"
            \/ applied # <<>> /\ applied[1].plan # oper[o].plan

(* Every layout that is built is one that load_layout admits: no catalog    *)
(* shares a table with another one or with a table of the database, whatever *)
(* the catalogs are called (_allocate).                                     *)
LayoutIsLoadable ==
    LET layout == BuildLayout(names) IN Buildable(layout) => Loadable(layout)
=============================================================================
