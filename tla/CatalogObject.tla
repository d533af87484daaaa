---------------------------- MODULE CatalogObject -----------------------------
(***************************************************************************)
(* BSLCatalogObject (catalogs.py): detached edit buffers that are written  *)
(* through the backends of CatalogStore.  Write runs inside one process,   *)
(* but the steps of several processes interleave, a COMMIT may take effect *)
(* without its answer, a close may fail, and a process may end at any      *)
(* point.  An object keeps the exact intent of a write whose outcome it    *)
(* does not know and asks for the receipt before it does anything else.    *)
(***************************************************************************)
EXTENDS CatalogStore

CONSTANTS
    Object,
    Home,       \* the backend of each object's catalog manager
    Codes, Refs, \* the codes and references a program assigns
    MaxFaults   \* bound: failures that nothing in the model forces

ASSUME ObjectAssumption ==
    /\ Home \in [Object -> Backend \ ReadOnly]
    /\ Codes \subseteq 0 .. (Ceiling - 1)
    /\ Refs \subseteq Record \cup {NoRecord}
    /\ MaxFaults \in Nat
    /\ \A r \in Record, c \in 0 .. (Ceiling - 1), ref \in Record \cup {NoRecord},
          auto \in BOOLEAN :
          [rec |-> r, auto |-> auto, code |-> c, ref |-> ref] \in Intent

VARIABLES
    obj,        \* each object: its buffer, operation id and pending write
    issued,     \* operation ids drawn with uuid4
    told,       \* history: the outcomes that Write reported as accepted
    faults

objVars == <<obj, issued, told, faults>>
vars == <<disk, committed, receipts, lock, view, closed, stray,
          obj, issued, told, faults>>

Draft == [rec : Record, auto : BOOLEAN, code : Code, ref : Ref]
Pending == [d : Draft, expected : 0 .. MaxRevision, op : Op]
PC == {"gone", "idle", "resolve", "begin", "stage", "commit"}

(* _pending_write is None *)
NoPending == [op |-> NoOp]
Gone == [pc |-> "gone", op |-> NoOp, pending |-> NoPending,
         rec |-> NoRecord, rev |-> 0, code |-> 0, ref |-> NoRecord]

IsPending(o) == obj[o].pending # NoPending

(* uuid4; NoOp when the model's supply is used up. *)
FreshOp == IF Op \ issued = {} THEN NoOp ELSE CHOOSE op \in Op \ issued : TRUE

(* _write_draft: numbering is requested for a new object without a code. *)
DraftOf(o) ==
    [rec |-> obj[o].rec, auto |-> obj[o].rev = 0 /\ obj[o].code = 0,
     code |-> obj[o].code, ref |-> obj[o].ref]

(* What a call of _write submits: the retained intent, or the buffer's. *)
Submitted(o) ==
    IF IsPending(o) THEN obj[o].pending
    ELSE [d |-> DraftOf(o), expected |-> obj[o].rev, op |-> obj[o].op]

Goto(o, pc) == obj' = [obj EXCEPT ![o].pc = pc]

Fault == faults < MaxFaults /\ faults' = faults + 1

-----------------------------------------------------------------------------
(* Objects appear and are edited. *)

Appear(o, rec, rev, code, ref) ==
    /\ obj[o].pc = "gone" \/ (obj[o].pc = "idle" /\ ~IsPending(o))
    /\ obj' = [obj EXCEPT ![o] =
          [pc |-> "idle", op |-> FreshOp, pending |-> NoPending,
           rec |-> rec, rev |-> rev, code |-> code, ref |-> ref]]
    /\ issued' = issued \cup ({FreshOp} \cap Op)
    /\ UNCHANGED <<told, faults>>

(* CreateItem, with or without SetNewObjectRef *)
CreateItem(o) ==
    /\ \E rec \in Record : Appear(o, rec, 0, 0, NoRecord)
    /\ UNCHANGED storeVars

(* GetObject: read the card in a read view of its own. *)
GetObject(o) ==
    /\ Admissible(Home[o]) /\ CanShare(Home[o])
    /\ \E rec \in Present(disk) :
          Appear(o, rec, disk.rows[rec].rev, disk.rows[rec].code, disk.rows[rec].ref)
    /\ UNCHANGED storeVars

SetMember(o) ==
    /\ obj[o].pc = "idle" /\ ~IsPending(o)
    /\ \E code \in Codes, ref \in Refs :
          obj' = [obj EXCEPT ![o].code = code, ![o].ref = ref]
    /\ UNCHANGED <<storeVars, issued, told, faults>>

-----------------------------------------------------------------------------
(* _write, step by step. *)

(* Objects of one process do not write at the same time. *)
Write(o) ==
    /\ obj[o].pc = "idle" /\ obj[o].op # NoOp
    /\ \A p \in Object : Home[p] = Home[o] => obj[p].pc \in {"gone", "idle"}
    /\ Goto(o, IF IsPending(o) THEN "resolve" ELSE "begin")
    /\ UNCHANGED <<storeVars, issued, told, faults>>

AcceptNext(o, e) == \* mutant: the revision is counted on once more
    /\ obj' = [obj EXCEPT ![o].pc = "idle",
                          ![o].rev = e.rev + 1,
                          ![o].code = e.code,
                          ![o].op = FreshOp,
                          ![o].pending = NoPending]
    /\ issued' = issued \cup ({FreshOp} \cap Op)
    /\ told' = told \cup {[op |-> e.op, rec |-> obj[o].rec, rev |-> e.rev,
                           code |-> e.code, ref |-> obj[o].ref]}

(* _accept_outcome and _accept_revision *)
Accept(o, e) ==
    /\ obj' = [obj EXCEPT ![o].pc = "idle",
                          ![o].rev = e.rev,
                          ![o].code = e.code,
                          ![o].op = FreshOp,
                          ![o].pending = NoPending]
    /\ issued' = issued \cup ({FreshOp} \cap Op)
    /\ told' = told \cup {[op |-> e.op, rec |-> obj[o].rec, rev |-> e.rev,
                           code |-> e.code, ref |-> obj[o].ref]}

AnswersExpected(e, p) == \* mutant: compared with the revision before the write
    /\ e.op = p.op
    /\ e.rec = p.d.rec /\ e.auto = p.d.auto /\ e.ref = p.d.ref
    /\ e.rev = p.expected
    /\ ~p.d.auto => e.code = p.d.code

(* The digest of a receipt binds the request and the outcome to each other. *)
Answers(e, p) ==
    /\ e.op = p.op
    /\ e.rec = p.d.rec /\ e.auto = p.d.auto /\ e.ref = p.d.ref
    /\ e.rev = p.expected + 1
    /\ ~p.d.auto => e.code = p.d.code

(* resolve_write_outcome looks the receipt up beside whatever view there is, *)
(* and compares it in a read view of its own.                                *)
ResolveFound(o) ==
    /\ obj[o].pc = "resolve"
    /\ CanLookUp(Home[o]) /\ Admissible(Home[o])
    /\ \E e \in receipts : Answers(e, obj[o].pending) /\ Accept(o, e)
    /\ UNCHANGED <<storeVars, faults>>

ResolveAbsent(o) ==
    /\ obj[o].pc = "resolve"
    /\ CanLookUp(Home[o])
    /\ obj[o].pending.op \notin committed
    /\ Goto(o, "begin")
    /\ UNCHANGED <<storeVars, issued, told, faults>>

(* Busy, closed or a storage error, before or after a connection was opened, *)
(* which may not be closed: then the lookup's has no owner, and the owner of *)
(* the view's is the backend.  Like BeginFails before the try block of       *)
(* _write: nothing of the object changes and the retained intent stays.      *)
ResolveFails(o) ==
    LET b == Home[o]
        found == obj[o].pending.op \in committed
    IN  /\ obj[o].pc = "resolve"
        /\ \/ /\ UNCHANGED storeVars
              /\ IF CanLookUp(b) /\ (found => Admissible(b))
                 THEN Fault ELSE UNCHANGED faults
           \/ LookUpFails(b) /\ Fault
           \/ found /\ CanLookUp(b) /\ AdmissionFails(b, FALSE) /\ Fault
        /\ Goto(o, "idle")
        /\ UNCHANGED <<issued, told>>

Begin(o) ==
    /\ obj[o].pc = "begin"
    /\ BeginWrite(Home[o], Submitted(o).op)
    /\ Goto(o, "stage")
    /\ UNCHANGED <<issued, told, faults>>

BeginFails(o) ==
    /\ obj[o].pc = "begin"
    /\ \/ /\ UNCHANGED storeVars
          /\ IF Admissible(Home[o]) /\ CanReserve(Home[o])
             THEN Fault ELSE UNCHANGED faults
       \/ AdmissionFails(Home[o], TRUE) /\ Fault
    /\ Goto(o, "idle")
    /\ UNCHANGED <<issued, told>>

StageChange(o) ==
    LET s == Submitted(o) IN
    IF s.expected = 0 THEN Create(Home[o], s.d) ELSE Update(Home[o], s.d, s.expected)

CanStage(o) ==
    LET s == Submitted(o)
        image == view[Home[o]].image
    IN  IF s.expected = 0 THEN CanInsert(image, s.d)
                          ELSE CanUpdate(image, s.d, s.expected)

(* create or update, then the intent is kept for an uncertain answer. *)
Stage(o) ==
    /\ obj[o].pc = "stage"
    /\ StageChange(o)
    /\ obj' = [obj EXCEPT ![o].pc = "commit", ![o].pending = Submitted(o)]
    /\ UNCHANGED <<issued, told, faults>>

(* Not yet committing: nothing of this write can be durable, and the intent *)
(* is dropped so that the program may change the buffer.                    *)
StageFails(o) ==
    /\ obj[o].pc = "stage"
    /\ Close(Home[o])
    /\ IF CanStage(o) THEN Fault ELSE UNCHANGED faults
    /\ obj' = [obj EXCEPT ![o].pc = "idle", ![o].pending = NoPending]
    /\ UNCHANGED <<issued, told>>

CommitAnswered(o) ==
    /\ obj[o].pc = "commit"
    /\ CommitDurable(Home[o])
    /\ view'[Home[o]] = NoView
    /\ \E e \in view[Home[o]].log : Accept(o, e)
    /\ UNCHANGED faults

CommitForgotten(o) == \* mutant: the intent is dropped whatever failed
    /\ obj[o].pc = "commit"
    /\ CommitDurable(Home[o]) \/ CommitLost(Home[o])
    /\ IF CanExclude(Home[o]) THEN Fault ELSE UNCHANGED faults
    /\ obj' = [obj EXCEPT ![o].pc = "idle", ![o].pending = NoPending]
    /\ UNCHANGED <<issued, told>>

CommitUncertain(o) ==
    /\ obj[o].pc = "commit"
    /\ CommitDurable(Home[o]) \/ CommitLost(Home[o])
    /\ IF CanExclude(Home[o]) THEN Fault ELSE UNCHANGED faults
    /\ Goto(o, "idle")
    /\ UNCHANGED <<issued, told>>

-----------------------------------------------------------------------------
(* The host of the process: cleanup of a retained view, close, termination. *)

Idle(b) == \A o \in Object : Home[o] = b => obj[o].pc \in {"gone", "idle"}

(* The catalog browser keeps a read view open between two requests. *)
HostReads(b) ==
    /\ Idle(b)
    /\ BeginRead(b)
    /\ UNCHANGED objVars

HostCloses(b) ==
    /\ Idle(b)
    /\ Close(b) \/ CloseBackend(b)
    /\ IF view'[b].dead THEN Fault ELSE UNCHANGED faults
    /\ UNCHANGED <<obj, issued, told>>

(* The process ends, or its host opens the closed backend anew: the objects  *)
(* of the old one are gone.                                                  *)
ProcessEnds(b) ==
    /\ Restart(b) \/ Reopen(b)
    /\ obj' = [o \in Object |-> IF Home[o] = b THEN Gone ELSE obj[o]]
    /\ UNCHANGED <<issued, told>>
    /\ Fault

(* The host exports the configuration, or looks up a receipt for itself; an  *)
(* interpreter may finalize a connection that was lost.                      *)
HostLooksUp(b) ==
    /\ Idle(b)
    /\ LookUpFails(b) /\ Fault
    /\ UNCHANGED <<obj, issued, told>>

StrayGoes(b) == StrayEnds(b) /\ UNCHANGED objVars

-----------------------------------------------------------------------------
Init ==
    /\ StoreInit
    /\ obj = [o \in Object |-> Gone]
    /\ issued = {} /\ told = {} /\ faults = 0

WriteStep(o) ==
    \/ ResolveFound(o) \/ ResolveAbsent(o) \/ ResolveFails(o)
    \/ Begin(o) \/ BeginFails(o)
    \/ Stage(o) \/ StageFails(o)
    \/ CommitAnswered(o) \/ CommitUncertain(o)

Next ==
    \/ \E o \in Object :
          CreateItem(o) \/ GetObject(o) \/ SetMember(o) \/ Write(o) \/ WriteStep(o)
    \/ \E b \in Backend :
          HostReads(b) \/ HostCloses(b) \/ HostLooksUp(b) \/ StrayGoes(b) \/ ProcessEnds(b)

(* A call of Write that has begun goes on, and a program whose write is in  *)
(* doubt calls Write again, the only thing the object then admits.          *)
Fairness ==
    \A o \in Object : WF_vars(WriteStep(o)) /\ WF_vars(IsPending(o) /\ Write(o))

Spec == Init /\ [][Next]_vars
FairSpec == Spec /\ Fairness

-----------------------------------------------------------------------------
(* Type correctness of the objects and their histories. *)
ObjectTypeOK ==
    /\ \A o \in Object :
          /\ obj[o].pc \in PC
          /\ obj[o].op \in issued \cup {NoOp}
          /\ obj[o].pending \in Pending \cup {NoPending}
          /\ obj[o].pc # "gone" => obj[o].rec \in Record
          /\ obj[o].rev \in 0 .. MaxRevision /\ obj[o].code \in Code
          /\ obj[o].ref \in Ref
    /\ issued \in SUBSET Op
    /\ told \in SUBSET [op : Op, rec : Record, rev : 1 .. MaxRevision, code : Code,
                        ref : Ref]
    /\ faults \in 0 .. MaxFaults

(* An object that believes nothing of it is in doubt is right: no receipt   *)
(* of its operation exists, so neither an edit nor the next Write is laid   *)
(* over a commit that had taken effect unseen.                              *)
NothingUnseen ==
    \A o \in Object : obj[o].pc = "idle" /\ ~IsPending(o) => obj[o].op \notin committed

(* What Write reported as accepted is durable, with the number and the      *)
(* values of that very submission; an operation has one outcome, and what   *)
(* is durable but unreported is pending at its object or died with it.      *)
AcceptedIsDurable ==
    /\ \A t \in told : \E e \in receipts :
          e.op = t.op /\ e.rec = t.rec /\ e.rev = t.rev /\ e.code = t.code /\ e.ref = t.ref
    /\ \A e, f \in receipts : e.op = f.op => e = f
    /\ \A o \in Object : obj[o].rev > 0 =>
          obj[o].rev <= disk.rows[obj[o].rec].rev

(* A receipt of the operation in doubt is the receipt of what this object    *)
(* submitted.                                                               *)
DurableIsSubmitted ==
    \A o \in Object : IsPending(o) =>
        \A e \in receipts : e.op = obj[o].pending.op => Answers(e, obj[o].pending)

(* What an object believes, reports and submits is what the file holds.     *)
OutcomesAreTruthful == NothingUnseen /\ AcceptedIsDurable /\ DurableIsSubmitted

(* Doubts end.  Nothing queues for the write lock: a program whose write is  *)
(* in doubt may meet a transaction of another at every BEGIN IMMEDIATE.  But *)
(* programs in doubt do not starve one another: once nothing but their       *)
(* retries takes the write lock, no reader stands in the way of COMMIT for   *)
(* good, no connection is left that could not be closed and the backends are *)
(* open, each write in doubt is found to have taken effect, is made to, or   *)
(* is refused, with its receipt consulted before the retry (_write).         *)
Obstructed ==
    \/ stray # {}
    \/ \E b \in Backend : view[b].dead \/ view[b].kind = "read" \/ closed[b]

Competing == \E o \in Object : obj[o].pc = "stage" /\ ~IsPending(o)

DoubtEnds ==
    <>[](~Obstructed /\ ~Competing) => \A o \in Object : IsPending(o) ~> ~IsPending(o)
=============================================================================
