---------------------------- MODULE CatalogEditor -----------------------------
(***************************************************************************)
(* The catalog editor (ui/catalog_editor.py): one application, at most one *)
(* card, a form whose values the user edits, and the detached object that  *)
(* Save writes.  Another program may write the same record, and the owned  *)
(* configuration source may change underneath.                             *)
(*                                                                         *)
(* `history[n]' is the content that revision n of the record got.  Content *)
(* pairs the form's values with the object's section rows: the former live *)
(* in the form, the latter in the object.  The store and Write of the      *)
(* object are abstracted to their outcomes, which CatalogObject models step *)
(* by step.  A Save is three steps: what the form's handlers make of it,   *)
(* Write of the object, and the authoritative read.  Another program may   *)
(* change the record or the source, and the process may end, between them. *)
(***************************************************************************)
EXTENDS Naturals, Sequences

CONSTANTS
    Forms,        \* of {"auto", "draft", "product"}: see form
    Value, Rows,  \* what the form and the sections may hold
    NoValue,      \* the values of a new card
    NoRows,
    MaxRevision,  \* bound: revisions of the record
    MaxOps        \* bound: operation ids

ASSUME EditorAssumption ==
    /\ Forms \subseteq {"auto", "draft", "product"}
    /\ NoValue \in Value /\ NoRows \in Rows
    /\ MaxRevision \in Nat \ {0} /\ MaxOps \in Nat \ {0}

VARIABLES
    form,       \* the handlers that take part in an edit and a Save: the
                \* reviewed autoform's, or those of an imported form
    history,    \* contents of the record, by revision
    receipts,   \* commit receipts: operation, revision, content, and the
                \* content the form had shown when Save was pressed
    lastOp,     \* operation ids drawn
    sourceOk,   \* the database still holds the pinned source
    app,        \* where CatalogEditorApplication is
    card        \* CatalogEditController with its form and object

vars == <<form, history, receipts, lastOp, sourceOk, app, card>>

Content == [value : Value, rows : Rows]
Blank == [value |-> NoValue, rows |-> NoRows]
Receipt == [op : 1 .. MaxOps, rev : 1 .. MaxRevision, content : Content,
            shown : Content]
Intent == [op : 1 .. MaxOps, rev : 0 .. MaxRevision, content : Content]
NoIntent == [op |-> 0]   \* _pending_write is None

Revision == Len(history)
Imported == form # "auto"

SaveState == {"new", "unchanged", "editing", "rejected", "uncertain", "committed",
              "saved"}

(* value, dirty and discard are the form's; rev, held, op and intent the     *)
(* object's (an operation id is named when it is first submitted); the rest  *)
(* is the controller's own.                                                  *)
NoCard == [value |-> NoValue, dirty |-> FALSE, discard |-> FALSE,
           rev |-> 0, held |-> Blank, op |-> 0, intent |-> NoIntent,
           baseline |-> Blank, pendingCommit |-> FALSE, pendingRefresh |-> FALSE,
           saveState |-> "new", stale |-> FALSE, saving |-> FALSE,
           refreshing |-> FALSE]

Locked == card.pendingCommit \/ card.pendingRefresh
Ready == app = "editor" /\ ~card.saving /\ ~card.refreshing
Elsewhere == UNCHANGED <<form, history, receipts, lastOp, sourceOk>>

-----------------------------------------------------------------------------
(* The application opens a card. *)

Open(rev, content) ==
    /\ app = "list"
    /\ sourceOk \/ ~Imported
    /\ app' = "editor"
    /\ card' = [NoCard EXCEPT !.value = content.value, !.rev = rev, !.held = content,
                              !.baseline = content,
                              !.saveState = IF rev = 0 THEN "new" ELSE "unchanged"]
    /\ Elsewhere

CreateCard == Revision = 0 /\ Open(0, Blank)
OpenCard == Revision > 0 /\ Open(Revision, history[Revision])

-----------------------------------------------------------------------------
(* Editing: refused while an outcome is open. *)

(* _verify_source: once it failed, it fails for good. *)
Verified == ~card.stale /\ sourceOk
SourceAllows == ~Imported \/ Verified

(* An edit or a Save of an imported form found another source. *)
FoundStale(c) == c = [card EXCEPT !.stale = TRUE]

Edited(value, rows) ==
    card' = [card EXCEPT !.value = value, !.held.rows = rows, !.dirty = TRUE,
                         !.saveState = "editing"]

(* change: the value the user typed, or what the OnChange handler made of it *)
Change ==
    /\ Ready /\ ~Locked
    /\ IF SourceAllows
       THEN \E value \in Value : Edited(value, card.held.rows)
       ELSE FoundStale(card')
    /\ UNCHANGED app /\ Elsewhere

(* row_event: the object adopts the rows after the form took the event.  The *)
(* draft form admits no sections.                                            *)
RowEvent ==
    /\ Ready /\ ~Locked /\ form # "draft"
    /\ IF SourceAllows
       THEN \E rows \in Rows : Edited(card.value, rows)
       ELSE FoundStale(card')
    /\ UNCHANGED app /\ Elsewhere

-----------------------------------------------------------------------------
(* Save, one action for each way through _save. *)

(* What Save hands to the object: nothing while an outcome is open,          *)
(* otherwise the form's values, or what the form's handler made of them (a   *)
(* product's handler may also change rows).                                  *)
Holding(content) ==
    [card EXCEPT !.held = content, !.op = IF card.op = 0 THEN lastOp + 1 ELSE card.op]
PreparedCards ==
    IF card.pendingCommit THEN {card}
    ELSE {Holding(content) : content \in
             [value : IF form = "auto" THEN {card.value} ELSE Value,
              rows : IF form = "product" THEN Rows ELSE {card.held.rows}]}

(* "No changes": a product is written whatever its handler left. *)
Unchanged(c) ==
    ~c.pendingCommit /\ form # "product" /\ c.rev > 0 /\ c.held = c.baseline

SaveUnchanged ==
    /\ Ready /\ ~Locked /\ SourceAllows
    /\ \E c \in PreparedCards :
          /\ Unchanged(c)
          /\ card' = [card EXCEPT !.value = c.held.value, !.dirty = FALSE,
                                  !.saveState = "unchanged"]
    /\ UNCHANGED app /\ Elsewhere

Rejected(c) == [c EXCEPT !.saveState = "rejected", !.dirty = TRUE]

(* The form's handler cancels, or its source is stale; nothing is submitted. *)
SaveStopped ==
    /\ Ready /\ ~Locked /\ Imported
    /\ IF Verified THEN card' = Rejected(card)
                   ELSE card' = [Rejected(card) EXCEPT !.stale = TRUE]
    /\ UNCHANGED app /\ Elsewhere

CanSubmitTwice(c) == \* mutant: a Save whose refresh is still due writes again
    /\ Ready /\ (card.pendingCommit \/ SourceAllows) /\ ~Unchanged(c)
    /\ c.op <= MaxOps /\ lastOp' = IF c.op > lastOp THEN c.op ELSE lastOp

CanSubmit(c) ==
    /\ Ready /\ ~card.pendingRefresh
    /\ card.pendingCommit \/ SourceAllows
    /\ ~Unchanged(c)
    /\ c.op <= MaxOps /\ lastOp' = IF c.op > lastOp THEN c.op ELSE lastOp

(* The handlers ran, the source was verified for the last time, and the      *)
(* object is about to be written; a save in doubt comes here unchecked.      *)
SavePrepares ==
    /\ \E c \in PreparedCards : CanSubmit(c) /\ card' = [c EXCEPT !.saving = TRUE]
    /\ UNCHANGED <<form, history, receipts, sourceOk, app>>

-----------------------------------------------------------------------------
(* Write of the object, one action for each way it ends.                     *)

Writing ==
    /\ app = "editor" /\ card.saving
    /\ UNCHANGED <<form, lastOp, sourceOk, app>>

(* What BSLCatalogObject.Write submits: the retained intent or the buffer. *)
Submission ==
    IF card.intent # NoIntent THEN card.intent
    ELSE [op |-> card.op, rev |-> card.rev, content |-> card.held]

Found(op) == \E e \in receipts : e.op = op

(* begin_write got the write lock: no receipt was found, and the stored      *)
(* source, read again under the lock, is the pinned one.                     *)
AdmittedUnchecked == \* mutant: the source is not read again under the lock
    ~Found(card.op)

Admitted == ~Found(card.op) /\ (Imported => sourceOk)

(* The revision check of the store. *)
Publishable == Admitted /\ Submission.rev = Revision /\ Revision < MaxRevision

Publish ==
    /\ history' = Append(history, Submission.content)
    /\ receipts' = receipts \cup {[op |-> Submission.op, rev |-> Revision + 1,
                                   content |-> Submission.content,
                                   shown |-> card.baseline]}

Returned(c) == card' = [c EXCEPT !.saving = FALSE]

(* _accept_outcome; the refresh that Save owes follows in the same call. *)
Accepted(rev) ==
    Returned([card EXCEPT !.rev = rev, !.op = 0, !.intent = NoIntent,
                          !.pendingCommit = FALSE, !.pendingRefresh = TRUE,
                          !.saveState = "committed", !.refreshing = TRUE])

SaveCommits == Writing /\ Publishable /\ Publish /\ Accepted(Revision + 1)

(* The receipt of the earlier call is there: nothing is written again.  The  *)
(* lookup reads no source (_demo_receipt_identity).                          *)
SaveResolves ==
    /\ Writing /\ card.intent # NoIntent
    /\ \E e \in receipts : e.op = card.intent.op /\ Accepted(e.rev)
    /\ UNCHANGED <<history, receipts>>

(* COMMIT was sent and did not answer, or the call was interrupted there. *)
LockedInDoubt(c) ==
    [c EXCEPT !.intent = Submission, !.pendingCommit = TRUE, !.dirty = TRUE,
              !.saveState = "uncertain"]

SaveUncertain ==
    /\ Writing /\ Publishable
    /\ Publish \/ UNCHANGED <<history, receipts>>
    /\ Returned(LockedInDoubt(card))

(* Before its transaction a failing call keeps the intent of the earlier one *)
(* (its receipt was not even looked up, is there, or the source has          *)
(* changed); inside, it drops it.                                            *)
IntentAfterFailure ==
    IF Admitted THEN {card.intent, NoIntent} ELSE {card.intent}

(* A BackendError that is not uncertain_commit: a lock stays.  A source that *)
(* was found changed is remembered, while a save is in doubt as well; the    *)
(* code takes any schema_changed or integrity error for one.                 *)
Failed(c, intent, found) ==
    [c EXCEPT !.intent = intent, !.dirty = TRUE, !.stale = c.stale \/ found,
              !.saveState = IF c.pendingCommit THEN "uncertain" ELSE "rejected"]

SaveFails ==
    /\ Writing
    /\ \E intent \in IntentAfterFailure, found \in {FALSE, Imported} :
          Returned(Failed(card, intent, found))
    /\ UNCHANGED <<history, receipts>>

(* CatalogWriteRefused: the object's own handler refused, in the transaction. *)
SaveRefused ==
    /\ Writing /\ form = "product" /\ Admitted
    /\ Returned(Rejected([card EXCEPT !.intent = NoIntent, !.pendingCommit = FALSE]))
    /\ UNCHANGED <<history, receipts>>

(* Any other exception before COMMIT: no report. *)
SaveRaises ==
    /\ Writing
    /\ \E intent \in IntentAfterFailure : Returned([card EXCEPT !.intent = intent])
    /\ UNCHANGED <<history, receipts>>

-----------------------------------------------------------------------------
(* The refresh that follows a durable Save. *)

(* The next Save after a failed refresh only refreshes. *)
SaveRefreshes ==
    /\ Ready /\ card.pendingRefresh
    /\ card' = [card EXCEPT !.refreshing = TRUE]
    /\ UNCHANGED app /\ Elsewhere

AdoptRevision == \* mutant: the revision is adopted, the form keeps its values
    /\ app = "editor" /\ card.refreshing /\ (Imported => sourceOk)
    /\ card' = [card EXCEPT !.rev = Revision, !.dirty = FALSE, !.op = 0,
                            !.pendingRefresh = FALSE, !.refreshing = FALSE,
                            !.saveState = "saved"]
    /\ UNCHANGED app /\ Elsewhere

(* _refresh, the patch of the form and _accept_refresh; its read view too is *)
(* admitted only over the pinned source.                                     *)
AdoptRefresh ==
    /\ app = "editor" /\ card.refreshing /\ (Imported => sourceOk)
    /\ LET fresh == history[Revision] IN
       card' = [card EXCEPT !.value = fresh.value, !.dirty = FALSE,
                            !.rev = Revision, !.held = fresh, !.op = 0,
                            !.intent = NoIntent, !.baseline = fresh,
                            !.pendingCommit = FALSE, !.pendingRefresh = FALSE,
                            !.saveState = "saved", !.refreshing = FALSE]
    /\ UNCHANGED app /\ Elsewhere

(* The read fails, the value does not fit the form, or the patch is refused. *)
RefreshFails ==
    /\ app = "editor" /\ card.refreshing
    /\ \E found \in {FALSE, Imported} :
          card' = [card EXCEPT !.refreshing = FALSE, !.stale = card.stale \/ found]
    /\ UNCHANGED app /\ Elsewhere

-----------------------------------------------------------------------------
(* The card is left. *)

(* A closed card of a stale source closes the application with it. *)
Leave(discard) ==
    /\ card' = [card EXCEPT !.discard = discard]
    /\ app' = IF card.stale THEN "closed" ELSE "list"
    /\ Elsewhere

CancelAlways == \* mutant: Cancel does not ask whether an outcome is open
    Ready /\ Leave(TRUE)

(* _cancel sets DiscardChanges, then the command closes the form. *)
Cancel == Ready /\ ~Locked /\ Leave(TRUE)

(* BeforeClose refuses when IsDirty and not DiscardChanges. *)
CloseCard == Ready /\ ~Locked /\ ~card.dirty /\ Leave(card.discard)

CloseApplication ==
    /\ app = "list" \/ (Ready /\ ~Locked /\ ~card.dirty)
    /\ app' = "closed"
    /\ UNCHANGED card /\ Elsewhere

-----------------------------------------------------------------------------
(* The surroundings: another writer, the source, the end of the process. *)

RivalWrites ==
    /\ Revision \in 1 .. (MaxRevision - 1)
    /\ \E content \in Content : history' = Append(history, content)
    /\ UNCHANGED <<form, receipts, lastOp, sourceOk, app, card>>

SourceChanges ==
    /\ Imported /\ sourceOk' = FALSE
    /\ UNCHANGED <<form, history, receipts, lastOp, app, card>>

ProcessEnds == app = "editor" /\ app' = "ended" /\ card' = NoCard /\ Elsewhere
Relaunch == app = "ended" /\ app' = "list" /\ UNCHANGED card /\ Elsewhere

-----------------------------------------------------------------------------
Init ==
    /\ form \in Forms
    /\ \E content \in Content : history \in {<<>>, <<content>>}
    /\ receipts = {} /\ lastOp = 0 /\ sourceOk = TRUE
    /\ app = "list" /\ card = NoCard

Next ==
    \/ CreateCard \/ OpenCard \/ Change \/ RowEvent
    \/ SaveUnchanged \/ SaveStopped \/ SavePrepares
    \/ SaveCommits \/ SaveResolves \/ SaveUncertain \/ SaveFails
    \/ SaveRefused \/ SaveRaises
    \/ SaveRefreshes \/ AdoptRefresh \/ RefreshFails
    \/ Cancel \/ CloseCard \/ CloseApplication
    \/ RivalWrites \/ SourceChanges \/ ProcessEnds \/ Relaunch

Spec == Init /\ [][Next]_vars

-----------------------------------------------------------------------------
(* A card that is not locked has nothing in doubt: no commit of it took      *)
(* effect unreported, and its object retains no intent, which an edit or a   *)
(* new assignment would contradict (pending_commit of _save).                *)
LockCoversDoubt ==
    app = "editor" /\ ~card.pendingCommit =>
        card.intent = NoIntent /\ ~Found(card.op)

(* No write is lost unseen.  A commit replaces only what the form had shown: *)
(* it follows the revision whose content was the baseline, whatever another  *)
(* program wrote and however often the outcome was in doubt.  And the refresh *)
(* after it replaces only what that commit wrote: the form admits no edit    *)
(* until the outcome is known (_save, _accept_refresh, change, row_event).   *)
SavesLoseNothing ==
    /\ \A e \in receipts :
        /\ e.content = history[e.rev]
        /\ e.shown = IF e.rev = 1 THEN Blank ELSE history[e.rev - 1]
    /\ app = "editor" /\ card.pendingRefresh /\ form = "auto" =>
        \E e \in receipts : e.rev = card.rev
                          /\ e.content = [value |-> card.value, rows |-> card.held.rows]

(* A save whose outcome is open neither unlocks the card nor costs anybody   *)
(* a write.                                                                  *)
DoubtLosesNothing == LockCoversDoubt /\ SavesLoseNothing

(* The form tells the truth: "rejected" was not committed, "committed" is    *)
(* durable with the object's content, "saved" shows a stored revision        *)
(* (save_state), and a form that says it is not dirty shows what is stored,  *)
(* so that closing it loses nothing the user entered (IsDirty).              *)
FormIsTruthful ==
    app = "editor" =>
        /\ card.saveState = "rejected" => ~Found(card.op)
        /\ card.saveState = "committed" =>
              \E e \in receipts : e.rev = card.rev /\ e.content = card.held
        /\ card.saveState = "saved" =>
              card.rev > 0 /\ card.value = history[card.rev].value /\ ~Locked
        /\ ~card.refreshing /\ ~card.dirty /\ ~Locked =>
              /\ card.value = card.baseline.value
              /\ form = "auto" => card.held.rows = card.baseline.rows

(* No way out of a card but the end of the process discards an outcome that  *)
(* is open or a refresh that is due, and edits only after Cancel.            *)
LeavesNothingOpen ==
    [][app = "editor" /\ app' \in {"list", "closed"} =>
         /\ card.intent = NoIntent /\ ~Found(card.op) /\ ~card.pendingRefresh
         /\ card.dirty => card'.discard]_vars

(* A changed source stops an imported form's Save wherever it comes: also    *)
(* between the last check of the form and the write, and while an outcome is *)
(* in doubt.  From then on the card writes nothing, not even what it had     *)
(* submitted, and reports a commit only if that one had taken effect before  *)
(* (_verify_source, begin_write, _demo_receipt_identity).                    *)
ChangedSourceStopsSave ==
    [][Imported /\ ~sourceOk =>
         /\ receipts' = receipts
         /\ app = "editor" /\ app' = "editor" /\ card'.saveState = "committed" =>
               \E e \in receipts : e.rev = card'.rev /\ e.content = card'.held]_vars

(* docs/catalog-editor.md: "The object retains the exact operation identity  *)
(* and payload when a commit outcome is uncertain."                          *)
UncertainRetainsIntent ==
    app = "editor" /\ card.saveState = "uncertain" => card.intent # NoIntent
=============================================================================
