------------------------- MODULE CatalogEditor_proofs --------------------------
(***************************************************************************)
(* Proofs about CatalogEditor, for any contents, revisions and operations: *)
(* what the card, its object and the receipts know of one another at every *)
(* step, and from it what the form and the ways out of a card promise.     *)
(***************************************************************************)
EXTENDS CatalogEditor, SequenceTheorems, TLAPS

-----------------------------------------------------------------------------
(* The inductive invariant.                                                 *)

Intents == [op : Nat, rev : Nat, content : Content]
Card == [value : Value, dirty : BOOLEAN, discard : BOOLEAN,
         rev : Nat, held : Content, op : Nat, intent : Intents \cup {NoIntent},
         baseline : Content, pendingCommit : BOOLEAN, pendingRefresh : BOOLEAN,
         saveState : SaveState, stale : BOOLEAN, saving : BOOLEAN,
         refreshing : BOOLEAN]

RecordTyped ==
    /\ history \in Seq(Content) /\ lastOp \in Nat
    /\ receipts \subseteq [op : 1 .. lastOp, rev : 1 .. Len(history),
                           content : Content, shown : Content]
EditorTyped == form \in {"auto", "draft", "product"} /\ card \in Card /\ RecordTyped

(* What the record contained when it was at this revision.                  *)
At(rev) == IF rev = 0 THEN Blank ELSE history[rev]

ReceiptsMatchHistory ==
    \A e \in receipts : e.content = history[e.rev] /\ e.shown = At(e.rev - 1)

(* The baseline is the content of the object's revision, but for the time   *)
(* between a commit and the refresh that it owes.                           *)
BaselineIsStored ==
    /\ card.rev <= Len(history) /\ card.op <= lastOp
    /\ ~card.pendingRefresh => card.baseline = At(card.rev)

(* The intent and every receipt of the object's operation are what the      *)
(* object holds; while they are open the card is locked and stays as it was *)
(* submitted.                                                               *)
DoubtIsHeld ==
    /\ card.intent # NoIntent =>
          /\ card.pendingCommit
          /\ card.intent = [op |-> card.op, rev |-> card.rev, content |-> card.held]
    /\ \A e \in receipts : e.op = card.op =>
          card.intent # NoIntent /\ e.content = card.held
    /\ card.pendingCommit =>
          /\ card.op # 0 /\ card.saveState = "uncertain" /\ card.dirty
          /\ form = "auto" => card.value = card.held.value

(* A refresh is due exactly after a commit that was accepted, and what it   *)
(* will replace is what that commit wrote.                                  *)
RefreshIsOfCommit ==
    /\ card.refreshing => card.pendingRefresh
    /\ card.pendingRefresh <=> card.saveState = "committed"
    /\ card.pendingRefresh =>
          /\ ~card.pendingCommit /\ card.op = 0
          /\ \E e \in receipts : e.rev = card.rev /\ e.content = card.held
          /\ form = "auto" => card.value = card.held.value

FormShowsStored ==
    /\ card.saveState = "saved" => card.rev > 0 /\ card.value = history[card.rev].value
    /\ ~card.dirty /\ ~Locked =>
          /\ card.value = card.baseline.value
          /\ form = "auto" => card.held.rows = card.baseline.rows

(* An object that is being written has an operation and holds what the form *)
(* shows (an imported form's handlers may have changed it).                 *)
SaveIsPrepared ==
    card.saving =>
        /\ ~card.pendingRefresh /\ ~card.refreshing /\ card.op # 0
        /\ form = "auto" => card.held = [value |-> card.value, rows |-> card.held.rows]

CardInv ==
    /\ BaselineIsStored /\ DoubtIsHeld /\ RefreshIsOfCommit /\ FormShowsStored
    /\ SaveIsPrepared

EditorInv ==
    /\ EditorTyped /\ ReceiptsMatchHistory
    /\ card.stale => Imported
    /\ app = "editor" => CardInv

-----------------------------------------------------------------------------
(* A new revision is appended to the history and leaves the others alone.   *)
LEMMA HistoryGrows ==
    ASSUME history \in Seq(Content), NEW content \in Content,
           history' = Append(history, content)
    PROVE  /\ history' \in Seq(Content) /\ Len(history') = Len(history) + 1
           /\ \A i \in 1 .. Len(history) : history'[i] = history[i]
           /\ history'[Len(history) + 1] = content
BY AppendProperties

(* A step that changes nothing but the card and where the application is.   *)
LEMMA CardStep ==
    ASSUME EditorInv, UNCHANGED <<form, history, receipts, lastOp>>,
           card' \in Card, card'.stale => Imported, app' = "editor" => CardInv'
    PROVE  EditorInv'
<1>1. EditorTyped' /\ ReceiptsMatchHistory'
  BY DEF EditorInv, EditorTyped, RecordTyped, RecordTyped, ReceiptsMatchHistory, At
<1> QED
  BY <1>1 DEF EditorInv, Imported

(* The card that a Save hands to the object: whatever handlers changed, an  *)
(* operation that was never submitted, or the very card that is in doubt.   *)
LEMMA PreparedCard ==
    ASSUME EditorInv, NEW c \in PreparedCards, CanSubmit(c)
    PROVE  /\ app = "editor" /\ lastOp' \in Nat /\ lastOp <= lastOp' /\ c.op \in 1 .. lastOp'
           /\ ~card.pendingRefresh /\ ~card.refreshing
           /\ c.held \in Content
           /\ c = [card EXCEPT !.held = c.held, !.op = c.op]
           /\ card.pendingCommit => c = card
           /\ ~card.pendingCommit => card.intent = NoIntent /\ ~Found(c.op)
           /\ form = "auto" => c.held = [value |-> card.value, rows |-> card.held.rows]
           /\ \A e \in receipts : e.op = c.op => card.intent # NoIntent /\ e.content = c.held
<1> USE DEF EditorInv, EditorTyped, RecordTyped, CardInv, CanSubmit, Ready
<1>1. /\ app = "editor"
      /\ ~card.pendingRefresh /\ ~card.refreshing /\ card.op \in Nat /\ card.op <= lastOp
  BY DEF BaselineIsStored, Card
<1>2. CASE card.pendingCommit
  <2>1. c = card
    BY <1>2 DEF PreparedCards
  <2>2. card = [card EXCEPT !.held = card.held, !.op = card.op] /\ card.held \in Content
    BY DEF Card
  <2>3. card.op # 0 /\ (form = "auto" => card.value = card.held.value)
    BY <1>1, <1>2 DEF DoubtIsHeld
  <2>4. card.held = [value |-> card.held.value, rows |-> card.held.rows]
    BY <2>2 DEF Content
  <2>6. \A e \in receipts : e.op = card.op => card.intent # NoIntent /\ e.content = card.held
    BY <1>1 DEF DoubtIsHeld
  <2>7. lastOp' \in Nat /\ lastOp <= lastOp' /\ card.op \in 1 .. lastOp'
    BY <1>1, <2>1, <2>3
  <2> QED BY <1>1, <1>2, <2>1, <2>2, <2>3, <2>4, <2>6, <2>7
<1>3. CASE ~card.pendingCommit
  <2>1. PICK value \in Value, rows \in Rows :
            /\ c = [card EXCEPT !.held = [value |-> value, rows |-> rows],
                                !.op = IF card.op = 0 THEN lastOp + 1 ELSE card.op]
            /\ form = "auto" => value = card.value /\ rows = card.held.rows
    <3>1. PICK content \in [value : IF form = "auto" THEN {card.value} ELSE Value,
                            rows : IF form = "product" THEN Rows ELSE {card.held.rows}] :
               c = Holding(content)
      BY <1>3 DEF PreparedCards
    <3>2. /\ content = [value |-> content.value, rows |-> content.rows]
          /\ content.value \in Value /\ content.rows \in Rows
          /\ form = "auto" => content.value = card.value /\ content.rows = card.held.rows
      BY DEF Card, Content
    <3> QED BY <3>1, <3>2 DEF Holding
  <2>2. /\ c.held = [value |-> value, rows |-> rows] /\ c.held \in Content
        /\ c.op = IF card.op = 0 THEN lastOp + 1 ELSE card.op
        /\ c.intent = card.intent /\ c.rev = card.rev
        /\ c = [card EXCEPT !.held = c.held, !.op = c.op]
    BY <2>1 DEF Card, Content
  <2>3. card.intent = NoIntent
    BY <1>1, <1>3 DEF DoubtIsHeld
  <2>4. \A e \in receipts : e.op # c.op
    <3>1. \A e \in receipts : e.op \in 1 .. lastOp
      OBVIOUS
    <3> QED BY <1>1, <2>2, <2>3, <3>1 DEF DoubtIsHeld
  <2>6. lastOp' \in Nat /\ lastOp <= lastOp' /\ c.op \in 1 .. lastOp'
    BY <1>1, <2>2
  <2> QED BY <1>1, <1>3, <2>1, <2>2, <2>3, <2>4, <2>6 DEF Found
<1> QED BY <1>2, <1>3

(* The card whose object is being written.                                  *)
LEMMA WrittenCard ==
    ASSUME EditorInv, Writing
    PROVE  /\ app = "editor" /\ app' = "editor" /\ form' = form
           /\ lastOp' = lastOp /\ lastOp \in Nat /\ card.op \in 1 .. lastOp
           /\ ~card.pendingRefresh /\ ~card.refreshing /\ card.held \in Content
           /\ ~card.pendingCommit => card.intent = NoIntent /\ ~Found(card.op)
           /\ form = "auto" => card.held = [value |-> card.value, rows |-> card.held.rows]
           /\ \A e \in receipts :
                 e.op = card.op => card.intent # NoIntent /\ e.content = card.held
           /\ Submission = [op |-> card.op, rev |-> card.rev, content |-> card.held]
<1>1. /\ app = "editor" /\ app' = "editor" /\ form' = form /\ lastOp' = lastOp
      /\ card.saving /\ CardInv /\ lastOp \in Nat /\ card \in Card
  BY DEF Writing, EditorInv, EditorTyped, RecordTyped
<1>2. /\ card.op \in Nat /\ card.op <= lastOp /\ card.held \in Content
      /\ ~card.pendingRefresh /\ ~card.refreshing /\ card.op # 0
      /\ form = "auto" => card.held = [value |-> card.value, rows |-> card.held.rows]
  BY <1>1 DEF CardInv, BaselineIsStored, SaveIsPrepared, Card
<1>3. /\ \A e \in receipts :
            e.op = card.op => card.intent # NoIntent /\ e.content = card.held
      /\ ~card.pendingCommit => card.intent = NoIntent
  BY <1>1 DEF CardInv, DoubtIsHeld
<1>4. Submission = [op |-> card.op, rev |-> card.rev, content |-> card.held]
  BY <1>1 DEF CardInv, DoubtIsHeld, Submission
<1> QED BY <1>1, <1>2, <1>3, <1>4 DEF Found

(* A commit: the new revision is the one after the object's, and its receipt *)
(* tells what the form had shown.                                           *)
LEMMA Published ==
    ASSUME EditorInv, Writing, Publishable, Publish
    PROVE  /\ history' \in Seq(Content) /\ Len(history') = Len(history) + 1
           /\ \A i \in 1 .. Len(history) : history'[i] = history[i]
           /\ history'[Len(history) + 1] = card.held
           /\ receipts' = receipts \cup {[op |-> card.op, rev |-> Len(history) + 1,
                                          content |-> card.held, shown |-> card.baseline]}
           /\ receipts' \subseteq [op : 1 .. lastOp', rev : 1 .. Len(history'),
                                   content : Content, shown : Content]
           /\ ReceiptsMatchHistory' /\ card.rev = Len(history)
<1> DEFINE new == [op |-> card.op, rev |-> Len(history) + 1,
                   content |-> card.held, shown |-> card.baseline]
<1>1. /\ card.held \in Content /\ card.op \in 1 .. lastOp' /\ lastOp \in Nat /\ lastOp' \in Nat
      /\ lastOp <= lastOp' /\ history \in Seq(Content) /\ card.baseline \in Content
      /\ receipts \subseteq [op : 1 .. lastOp, rev : 1 .. Len(history),
                             content : Content, shown : Content]
  BY WrittenCard DEF EditorInv, EditorTyped, RecordTyped, Card
<1>2. /\ card.rev = Len(history) /\ history' = Append(history, card.held)
      /\ receipts' = receipts \cup {new}
  <2>1. Submission = [op |-> card.op, rev |-> card.rev, content |-> card.held]
    BY WrittenCard
  <2> QED BY <2>1 DEF Publishable, Publish, Revision
<1>3. /\ history' \in Seq(Content) /\ Len(history') = Len(history) + 1
      /\ \A i \in 1 .. Len(history) : history'[i] = history[i]
      /\ history'[Len(history) + 1] = card.held
  BY <1>1, <1>2, HistoryGrows
<1>4. Len(history) \in Nat
  BY <1>1
<1>5. receipts' \subseteq [op : 1 .. lastOp', rev : 1 .. Len(history'),
                          content : Content, shown : Content]
  BY <1>1, <1>2, <1>3, <1>4
<1>6. ReceiptsMatchHistory'
  <2> SUFFICES ASSUME NEW e \in receipts'
               PROVE  e.content = history'[e.rev] /\ e.shown = At(e.rev - 1)'
    BY DEF ReceiptsMatchHistory
  <2>1. CASE e \in receipts
    <3>1. e.content = history[e.rev] /\ e.shown = At(e.rev - 1) /\ e.rev \in 1 .. Len(history)
      BY <2>1, <1>1 DEF EditorInv, ReceiptsMatchHistory
    <3> QED BY <3>1, <1>3, <1>4 DEF At
  <2>2. CASE e = new
    <3>1. card.baseline = At(Len(history))
      BY <1>2, WrittenCard DEF EditorInv, CardInv, BaselineIsStored
    <3> QED BY <2>2, <3>1, <1>3, <1>4 DEF At
  <2> QED BY <2>1, <2>2, <1>2
<1> QED BY <1>2, <1>3, <1>5, <1>6

(* A form that is not open satisfies the invariant. *)
LEMMA EditorInit == Init => EditorInv
<1> SUFFICES ASSUME Init PROVE EditorInv
  OBVIOUS
<1> USE EditorAssumption DEF Init
<1>1. EditorTyped
  <2>1. NoCard \in Card
    BY DEF NoCard, Card, Content, Blank, SaveState
  <2>2. history \in Seq(Content) /\ receipts = {} /\ lastOp \in Nat
    <3>1. PICK content \in Content : history \in {<<>>, <<content>>}
      OBVIOUS
    <3>2. <<>> \in Seq(Content) /\ <<content>> \in Seq(Content)
      OBVIOUS
    <3> QED BY <3>1, <3>2
  <2> QED BY <2>1, <2>2 DEF EditorTyped, RecordTyped
<1> QED
  BY <1>1 DEF EditorInv, ReceiptsMatchHistory, NoCard

(* A card is opened with what the catalog holds. *)
LEMMA OpenStep ==
    ASSUME EditorInv, NEW rev \in 0 .. Len(history), NEW content \in Content,
           content = At(rev), Open(rev, content)
    PROVE  EditorInv'
<1>1. /\ card' = [NoCard EXCEPT !.value = content.value, !.rev = rev, !.held = content,
                               !.baseline = content,
                               !.saveState = IF rev = 0 THEN "new" ELSE "unchanged"]
      /\ UNCHANGED <<form, history, receipts, lastOp>>
  BY DEF Open, Elsewhere
<1>2. card' \in Card
  <2>1. rev \in Nat
    BY DEF EditorInv, EditorTyped, RecordTyped
  <2> QED BY <1>1, <2>1, EditorAssumption DEF NoCard, Card, Content, Blank, SaveState
<1>3. \A e \in receipts : e.op # 0
  BY DEF EditorInv, EditorTyped, RecordTyped
<1>4. CardInv'
  BY <1>1, <1>3 DEF EditorInv, EditorTyped, RecordTyped, CardInv, BaselineIsStored, At, DoubtIsHeld,
     RefreshIsOfCommit, FormShowsStored, SaveIsPrepared, NoCard, Locked
<1> QED
  BY <1>1, <1>2, <1>4, CardStep DEF NoCard

(* An edit, or the discovery that the source has changed.                   *)
LEMMA EditStep ==
    ASSUME EditorInv, Ready, ~Locked, UNCHANGED app, Elsewhere,
           NEW value \in Value, NEW rows \in Rows,
           IF SourceAllows THEN Edited(value, rows) ELSE FoundStale(card')
    PROVE  EditorInv'
<1> USE DEF EditorInv, EditorTyped, RecordTyped, CardInv, Ready, Elsewhere
<1>1. CASE SourceAllows
  <2>1. card' = [card EXCEPT !.value = value, !.held.rows = rows, !.dirty = TRUE,
                             !.saveState = "editing"]
    BY <1>1 DEF Edited
  <2>2. card' \in Card
    BY <2>1 DEF Card, Content, SaveState
  <2>3. card.intent = NoIntent /\ \A e \in receipts : e.op # card.op
    BY DEF DoubtIsHeld, Locked
  <2>4. CardInv'
    BY <2>1, <2>3 DEF Card, Content, BaselineIsStored, At, DoubtIsHeld, RefreshIsOfCommit,
       FormShowsStored, SaveIsPrepared, Locked
  <2> QED BY <2>1, <2>2, <2>4, CardStep DEF Card
<1>2. CASE ~SourceAllows
  <2>1. card' = [card EXCEPT !.stale = TRUE]
    BY <1>2 DEF FoundStale
  <2>2. card' \in Card /\ CardInv'
    BY <2>1 DEF Card, BaselineIsStored, At, DoubtIsHeld, RefreshIsOfCommit,
       FormShowsStored, SaveIsPrepared, Locked
  <2> QED BY <1>2, <2>1, <2>2, CardStep DEF SourceAllows
<1> QED BY <1>1, <1>2

(* A commit that was accepted, by this call or found by a later one.        *)
LEMMA AcceptStep ==
    ASSUME EditorInv, Writing, NEW rev \in Nat,
           Accepted(rev), RecordTyped', ReceiptsMatchHistory', rev <= Len(history'),
           \E e \in receipts' : e.rev = rev /\ e.content = card.held
    PROVE  EditorInv'
<1>1. /\ app' = "editor" /\ form' = form /\ card.held \in Content
      /\ form = "auto" => card.held = [value |-> card.value, rows |-> card.held.rows]
  BY WrittenCard
<1>2. (card.stale => Imported) /\ card \in Card /\ form \in {"auto", "draft", "product"}
  BY DEF EditorInv, EditorTyped
<1>3. card' = [card EXCEPT !.rev = rev, !.op = 0, !.intent = NoIntent,
                           !.pendingCommit = FALSE, !.pendingRefresh = TRUE,
                           !.saveState = "committed", !.saving = FALSE, !.refreshing = TRUE]
  BY <1>2 DEF Accepted, Returned, Card
<1>4. card' \in Card
  BY <1>1, <1>2, <1>3 DEF Card, SaveState
<1>5. EditorTyped'
  BY <1>1, <1>2, <1>4 DEF EditorTyped
<1>6. \A e \in receipts' : e.op # 0
  BY <1>5 DEF EditorTyped, RecordTyped
<1>7. CardInv'
  BY <1>1, <1>2, <1>3, <1>5, <1>6 DEF Card, CardInv, BaselineIsStored, DoubtIsHeld,
     RefreshIsOfCommit, FormShowsStored, SaveIsPrepared, Locked, EditorTyped, RecordTyped
<1> QED
  BY <1>1, <1>2, <1>3, <1>5, <1>7 DEF EditorInv, Imported, Card

(* A Save that does not end with an accepted commit.  It may have published, *)
(* but what it leaves in the object, the lock and the report agree.         *)
LEMMA SubmittedStep ==
    ASSUME EditorInv, Writing,
           RecordTyped', ReceiptsMatchHistory', Len(history) <= Len(history'),
           \A i \in 1 .. Len(history) : history'[i] = history[i],
           NEW intent \in Intents \cup {NoIntent}, NEW locked \in BOOLEAN,
           NEW dirty \in BOOLEAN, NEW state \in SaveState, NEW stale \in BOOLEAN,
           card' = [card EXCEPT !.intent = intent, !.pendingCommit = locked,
                                !.dirty = dirty, !.saveState = state, !.stale = stale,
                                !.saving = FALSE],
           stale => Imported,
           \A e \in receipts' : e.op = card.op => intent # NoIntent /\ e.content = card.held,
           intent # NoIntent => locked /\ intent = [op |-> card.op, rev |-> card.rev,
                                                    content |-> card.held],
           locked => dirty /\ state = "uncertain",
           ~locked => \/ dirty /\ state = "rejected"
                      \/ ~card.pendingCommit /\ dirty = card.dirty /\ state = card.saveState
    PROVE  EditorInv'
<1>1. /\ app = "editor" /\ app' = "editor" /\ form' = form /\ lastOp' = lastOp
      /\ lastOp \in Nat /\ card.op \in 1 .. lastOp /\ ~card.pendingRefresh
      /\ card.held \in Content /\ ~card.refreshing
      /\ form = "auto" => card.held = [value |-> card.value, rows |-> card.held.rows]
  BY WrittenCard
<1>2. /\ card \in Card /\ RecordTyped /\ form \in {"auto", "draft", "product"}
      /\ BaselineIsStored /\ DoubtIsHeld /\ RefreshIsOfCommit /\ FormShowsStored
  BY <1>1 DEF EditorInv, EditorTyped, CardInv
<1>3. /\ card'.held = card.held /\ card'.op = card.op /\ card'.intent = intent
      /\ card'.pendingCommit = locked /\ card'.dirty = dirty /\ card'.saveState = state
      /\ card'.value = card.value /\ card'.rev = card.rev /\ card'.baseline = card.baseline
      /\ card'.pendingRefresh = card.pendingRefresh /\ card'.stale = stale
      /\ card'.refreshing = card.refreshing /\ card'.saving = FALSE
  BY <1>2 DEF Card
<1>4. card' \in Card
  BY <1>1, <1>2 DEF Card
<1>5. BaselineIsStored'
  <2>1. card.rev \in Nat /\ card.rev <= Len(history) /\ card.baseline = At(card.rev)
    BY <1>1, <1>2 DEF BaselineIsStored, Card
  <2>2. Len(history) \in Nat /\ Len(history') \in Nat
    BY <1>2 DEF RecordTyped
  <2>3. At(card.rev)' = At(card.rev) /\ card.rev <= Len(history')
    BY <1>3, <2>1, <2>2 DEF At
  <2> QED BY <1>1, <1>3, <2>1, <2>3 DEF BaselineIsStored
<1>6. DoubtIsHeld'
  BY <1>1, <1>3 DEF DoubtIsHeld
<1>7. RefreshIsOfCommit' /\ SaveIsPrepared'
  BY <1>1, <1>2, <1>3 DEF RefreshIsOfCommit, SaveIsPrepared
<1>8. FormShowsStored'
  <2>1. card.rev \in Nat /\ card.rev <= Len(history)
    BY <1>2 DEF BaselineIsStored, Card
  <2>2. Len(history) \in Nat
    BY <1>2 DEF RecordTyped
  <2> QED BY <1>1, <1>2, <1>3, <2>1, <2>2 DEF FormShowsStored, Locked
<1> QED
  BY <1>1, <1>2, <1>3, <1>4, <1>5, <1>6, <1>7, <1>8
     DEF EditorInv, EditorTyped, CardInv, Imported

(* COMMIT did not answer, and took effect or not: the card locks.           *)
LEMMA UncertainStep == EditorInv /\ SaveUncertain => EditorInv'
<1> SUFFICES ASSUME EditorInv, SaveUncertain PROVE EditorInv'
  OBVIOUS
<1> DEFINE intent == [op |-> card.op, rev |-> card.rev, content |-> card.held]
<1>0. /\ Writing /\ Publishable /\ (Publish \/ UNCHANGED <<history, receipts>>)
      /\ Returned(LockedInDoubt(card))
  BY DEF SaveUncertain
<1>1. /\ lastOp' = lastOp /\ lastOp \in Nat /\ card.op \in 1 .. lastOp /\ card.held \in Content
      /\ \A e \in receipts : e.op = card.op => e.content = card.held
      /\ Submission = intent
  BY <1>0, WrittenCard
<1>2. /\ card \in Card /\ RecordTyped /\ ReceiptsMatchHistory
      /\ card.stale \in BOOLEAN /\ (card.stale => Imported)
  BY DEF EditorInv, EditorTyped, Card
<1>3. card' = [card EXCEPT !.intent = intent, !.pendingCommit = TRUE, !.dirty = TRUE,
                           !.saveState = "uncertain", !.stale = card.stale,
                           !.saving = FALSE]
  BY <1>0, <1>1, <1>2 DEF Returned, LockedInDoubt, Card
<1>4. intent \in Intents /\ intent # NoIntent /\ "uncertain" \in SaveState
  BY <1>1, <1>2 DEF Intents, NoIntent, Card, SaveState
<1>5. intent # NoIntent => TRUE /\ intent = [op |-> card.op, rev |-> card.rev,
                                             content |-> card.held]
  OBVIOUS
<1> HIDE DEF intent
<1>6. CASE UNCHANGED <<history, receipts>>
  <2>1. /\ RecordTyped' /\ ReceiptsMatchHistory' /\ Len(history) <= Len(history')
        /\ \A i \in 1 .. Len(history) : history'[i] = history[i]
    BY <1>1, <1>2, <1>6 DEF RecordTyped, ReceiptsMatchHistory, At
  <2>2. \A e \in receipts' : e.op = card.op => intent # NoIntent /\ e.content = card.held
    BY <1>1, <1>4, <1>6
  <2> QED BY <1>0, <1>2, <1>3, <1>4, <1>5, <2>1, <2>2, SubmittedStep
<1>7. CASE Publish
  <2>1. /\ history' \in Seq(Content) /\ Len(history') = Len(history) + 1
        /\ \A i \in 1 .. Len(history) : history'[i] = history[i]
        /\ receipts' = receipts \cup {[op |-> card.op, rev |-> Len(history) + 1,
                                       content |-> card.held, shown |-> card.baseline]}
        /\ receipts' \subseteq [op : 1 .. lastOp', rev : 1 .. Len(history'),
                                content : Content, shown : Content]
        /\ ReceiptsMatchHistory'
    BY <1>0, <1>7, Published
  <2>2. RecordTyped' /\ Len(history) <= Len(history')
    BY <1>1, <1>2, <2>1 DEF RecordTyped
  <2>3. \A e \in receipts' : e.op = card.op => intent # NoIntent /\ e.content = card.held
    BY <1>1, <1>4, <2>1
  <2> QED BY <1>0, <1>2, <1>3, <1>4, <1>5, <2>1, <2>2, <2>3, SubmittedStep
<1> QED BY <1>0, <1>6, <1>7

(* A call that fails before COMMIT: the lock stays, or there is none and    *)
(* the report is that nothing was written.                                  *)
LEMMA FailStep ==
    ASSUME EditorInv, Writing, UNCHANGED <<history, receipts>>,
           NEW intent \in {card.intent, NoIntent}, Found(card.op) => intent = card.intent,
           NEW stale \in BOOLEAN, stale => Imported,
           \/ card' = [card EXCEPT !.intent = intent, !.dirty = TRUE, !.stale = stale,
                          !.saveState = IF card.pendingCommit THEN "uncertain"
                                                              ELSE "rejected",
                          !.saving = FALSE]
           \/ /\ card' = [card EXCEPT !.intent = intent, !.pendingCommit = FALSE,
                             !.dirty = TRUE, !.stale = stale, !.saveState = "rejected",
                             !.saving = FALSE]
              /\ intent = NoIntent
           \/ card' = [card EXCEPT !.intent = intent, !.stale = stale, !.saving = FALSE]
    PROVE  EditorInv'
<1>1. /\ lastOp' = lastOp /\ lastOp \in Nat /\ app = "editor"
      /\ ~card.pendingCommit => card.intent = NoIntent
      /\ \A e \in receipts : e.op = card.op => card.intent # NoIntent /\ e.content = card.held
  BY WrittenCard
<1>2. card \in Card /\ RecordTyped /\ ReceiptsMatchHistory /\ DoubtIsHeld
  BY <1>1 DEF EditorInv, EditorTyped, CardInv
<1>4. /\ RecordTyped' /\ ReceiptsMatchHistory' /\ Len(history) <= Len(history')
      /\ \A i \in 1 .. Len(history) : history'[i] = history[i]
  BY <1>1, <1>2 DEF RecordTyped, ReceiptsMatchHistory, At
<1>5. \A e \in receipts' : e.op = card.op => intent # NoIntent /\ e.content = card.held
  BY <1>1 DEF Found
<1>6. intent # NoIntent => card.pendingCommit
                           /\ intent = [op |-> card.op, rev |-> card.rev,
                                        content |-> card.held]
  BY <1>1, <1>2 DEF DoubtIsHeld
<1>7. intent \in Intents \cup {NoIntent}
  BY <1>2 DEF Card
<1>8. PICK locked \in BOOLEAN, dirty \in BOOLEAN, state \in SaveState :
          /\ card' = [card EXCEPT !.intent = intent, !.pendingCommit = locked,
                        !.dirty = dirty, !.saveState = state, !.stale = stale,
                        !.saving = FALSE]
          /\ locked => card.pendingCommit /\ dirty /\ state = "uncertain"
          /\ ~locked => \/ dirty /\ state = "rejected"
                        \/ ~card.pendingCommit /\ dirty = card.dirty /\ state = card.saveState
          /\ intent # NoIntent => locked
  <2>1. CASE card' = [card EXCEPT !.intent = intent, !.dirty = TRUE, !.stale = stale,
                         !.saveState = IF card.pendingCommit THEN "uncertain"
                                                             ELSE "rejected",
                         !.saving = FALSE]
    <3>1. card' = [card EXCEPT !.intent = intent,
                      !.pendingCommit = card.pendingCommit, !.dirty = TRUE,
                      !.saveState = IF card.pendingCommit THEN "uncertain" ELSE "rejected",
                      !.stale = stale, !.saving = FALSE]
      BY <1>2, <2>1 DEF Card
    <3> QED BY <1>2, <1>6, <3>1 DEF Card, SaveState
  <2>2. CASE /\ card' = [card EXCEPT !.intent = intent, !.pendingCommit = FALSE,
                            !.dirty = TRUE, !.stale = stale, !.saveState = "rejected",
                            !.saving = FALSE]
             /\ intent = NoIntent
    <3>1. card' = [card EXCEPT !.intent = intent,
                      !.pendingCommit = FALSE, !.dirty = TRUE, !.saveState = "rejected",
                      !.stale = stale, !.saving = FALSE]
      BY <1>2, <2>2 DEF Card
    <3> QED BY <2>2, <3>1 DEF SaveState
  <2>3. CASE card' = [card EXCEPT !.intent = intent, !.stale = stale, !.saving = FALSE]
    <3>1. card' = [card EXCEPT !.intent = intent,
                      !.pendingCommit = card.pendingCommit, !.dirty = card.dirty,
                      !.saveState = card.saveState, !.stale = stale, !.saving = FALSE]
      BY <1>2, <2>3 DEF Card
    <3>2. /\ card.pendingCommit \in BOOLEAN /\ card.dirty \in BOOLEAN
          /\ card.saveState \in SaveState
      BY <1>2 DEF Card
    <3>3. card.pendingCommit => card.dirty /\ card.saveState = "uncertain"
      BY <1>2 DEF DoubtIsHeld
    <3> QED BY <1>6, <3>1, <3>2, <3>3
  <2> QED BY <2>1, <2>2, <2>3
<1>9. /\ intent # NoIntent => locked /\ intent = [op |-> card.op, rev |-> card.rev,
                                                  content |-> card.held]
      /\ locked => dirty /\ state = "uncertain"
  BY <1>6, <1>8
<1>10. ~locked => \/ dirty /\ state = "rejected"
                  \/ ~card.pendingCommit /\ dirty = card.dirty /\ state = card.saveState
  BY <1>8
<1>11. card' = [card EXCEPT !.intent = intent, !.pendingCommit = locked,
                            !.dirty = dirty, !.saveState = state, !.stale = stale,
                            !.saving = FALSE]
  BY <1>8
<1> QED
  BY ZenonT(30), <1>4, <1>5, <1>7, <1>9, <1>10, <1>11, SubmittedStep

(* Every step of the editor and of the catalog keeps the invariant. *)
LEMMA EditorStep == EditorInv /\ [Next]_vars => EditorInv'
<1> SUFFICES ASSUME EditorInv, [Next]_vars PROVE EditorInv'
  OBVIOUS
<1> USE EditorAssumption
<1>a. /\ card \in Card /\ RecordTyped /\ form \in {"auto", "draft", "product"}
      /\ card.stale => Imported
      /\ app = "editor" => BaselineIsStored /\ DoubtIsHeld /\ RefreshIsOfCommit
                           /\ FormShowsStored /\ SaveIsPrepared
  BY DEF EditorInv, EditorTyped, CardInv
<1>b. ASSUME Ready, ~Locked
      PROVE  /\ app = "editor" /\ ~card.pendingCommit /\ ~card.pendingRefresh
             /\ ~card.saving /\ ~card.refreshing
             /\ card.intent = NoIntent /\ \A e \in receipts : e.op # card.op
  BY <1>a, <1>b DEF Ready, Locked, DoubtIsHeld
<1>1. CASE CreateCard
  <2>1. Blank \in Content /\ Blank = At(0) /\ 0 \in 0 .. Len(history)
    BY <1>a DEF Blank, Content, At, RecordTyped
  <2> QED BY <1>1, <2>1, OpenStep DEF CreateCard
<1>2. CASE OpenCard
  <2>1. /\ Revision \in 0 .. Len(history) /\ history[Revision] \in Content
        /\ history[Revision] = At(Revision)
    BY <1>a, <1>2 DEF OpenCard, Revision, RecordTyped, At
  <2> QED BY <1>2, <2>1, OpenStep DEF OpenCard
<1>3. CASE Change
  <2>1. PICK value \in Value :
            IF SourceAllows THEN Edited(value, card.held.rows) ELSE FoundStale(card')
    BY <1>3 DEF Change
  <2>2. card.held.rows \in Rows
    BY <1>a DEF Card, Content
  <2> QED BY <1>3, <2>1, <2>2, EditStep DEF Change
<1>4. CASE RowEvent
  <2>1. PICK rows \in Rows :
            IF SourceAllows THEN Edited(card.value, rows) ELSE FoundStale(card')
    BY <1>4 DEF RowEvent
  <2>2. card.value \in Value
    BY <1>a DEF Card
  <2> QED BY <1>4, <2>1, <2>2, EditStep DEF RowEvent
<1>5. CASE SaveUnchanged
  <2>1. PICK c \in PreparedCards :
            /\ Unchanged(c)
            /\ card' = [card EXCEPT !.value = c.held.value, !.dirty = FALSE,
                                    !.saveState = "unchanged"]
    BY <1>5 DEF SaveUnchanged
  <2>2. Ready /\ ~Locked /\ UNCHANGED <<app, form, history, receipts, lastOp>>
    BY <1>5 DEF SaveUnchanged, Elsewhere
  <2>3. PICK content \in [value : IF form = "auto" THEN {card.value} ELSE Value,
                           rows : IF form = "product" THEN Rows ELSE {card.held.rows}] :
             c = Holding(content)
    BY <1>b, <2>2 DEF PreparedCards
  <2>4. c.held = content /\ content = card.baseline /\ form # "product"
    BY <2>1, <2>3, <1>a DEF Holding, Unchanged, Card
  <2>5. c.held.value = card.baseline.value /\ card.held.rows = card.baseline.rows
    BY <2>3, <2>4
  <2>6. /\ card' = [card EXCEPT !.value = card.baseline.value, !.dirty = FALSE,
                                !.saveState = "unchanged"]
        /\ card' \in Card /\ card'.stale = card.stale
    BY <2>1, <2>5, <1>a DEF Card, Content, SaveState
  <2>7. CardInv'
    BY <1>a, <1>b, <2>2, <2>5, <2>6 DEF Card, CardInv, BaselineIsStored, At, DoubtIsHeld,
       RefreshIsOfCommit, FormShowsStored, SaveIsPrepared, Locked
  <2> QED BY <1>a, <2>2, <2>6, <2>7, CardStep
<1>6. CASE SaveStopped
  <2>1. /\ \/ card' = [card EXCEPT !.saveState = "rejected", !.dirty = TRUE]
           \/ card' = [card EXCEPT !.saveState = "rejected", !.dirty = TRUE, !.stale = TRUE]
        /\ Imported
    <3>1. card' = Rejected(card) \/ card' = [Rejected(card) EXCEPT !.stale = TRUE]
      BY <1>6 DEF SaveStopped
    <3> QED BY <1>6, <1>a, <3>1 DEF SaveStopped, Rejected, Card
  <2>2. Ready /\ ~Locked /\ UNCHANGED <<app, form, history, receipts, lastOp>>
    BY <1>6 DEF SaveStopped, Elsewhere
  <2>3. card' \in Card
    <3>1. "rejected" \in SaveState /\ TRUE \in BOOLEAN
      BY DEF SaveState
    <3>2. [card EXCEPT !.saveState = "rejected", !.dirty = TRUE] \in Card
      BY <1>a, <3>1 DEF Card
    <3>3. [card EXCEPT !.saveState = "rejected", !.dirty = TRUE, !.stale = TRUE] \in Card
      BY <1>a, <3>1 DEF Card
    <3> QED BY <2>1, <3>2, <3>3
  <2>4. CardInv'
    BY ZenonT(30), <1>a, <1>b, <2>1, <2>2 DEF Card, CardInv, BaselineIsStored, At, DoubtIsHeld,
       RefreshIsOfCommit, FormShowsStored, SaveIsPrepared, Locked
  <2> QED BY <2>1, <2>2, <2>3, <2>4, CardStep
<1>7. CASE SavePrepares
  <2>1. PICK c \in PreparedCards : CanSubmit(c) /\ card' = [c EXCEPT !.saving = TRUE]
    BY <1>7 DEF SavePrepares
  <2>2. UNCHANGED <<form, history, receipts, app>>
    BY <1>7 DEF SavePrepares
  <2>3. /\ app = "editor" /\ lastOp' \in Nat /\ lastOp <= lastOp' /\ c.op \in 1 .. lastOp'
        /\ ~card.pendingRefresh /\ ~card.refreshing /\ c.held \in Content
        /\ c = [card EXCEPT !.held = c.held, !.op = c.op]
        /\ card.pendingCommit => c = card
        /\ ~card.pendingCommit => card.intent = NoIntent
        /\ form = "auto" => c.held = [value |-> card.value, rows |-> card.held.rows]
        /\ \A e \in receipts : e.op = c.op => card.intent # NoIntent /\ e.content = c.held
    BY <2>1, PreparedCard
  <2>4. card' = [card EXCEPT !.held = c.held, !.op = c.op, !.saving = TRUE]
    BY <1>a, <2>1, <2>3 DEF Card
  <2>5. card' \in Card
    <3>1. c.op \in Nat
      BY <2>3
    <3> QED BY <1>a, <2>3, <2>4, <3>1 DEF Card
  <2>6. /\ card'.held = c.held /\ card'.op = c.op /\ card'.intent = card.intent
        /\ card'.pendingCommit = card.pendingCommit /\ card'.dirty = card.dirty
        /\ card'.saveState = card.saveState /\ card'.value = card.value
        /\ card'.rev = card.rev /\ card'.baseline = card.baseline
        /\ card'.pendingRefresh = card.pendingRefresh /\ card'.stale = card.stale
        /\ card'.refreshing = card.refreshing /\ card'.saving = TRUE
    BY <1>a, <2>4 DEF Card
  <2>7. RecordTyped' /\ ReceiptsMatchHistory'
    BY <1>a, <2>2, <2>3 DEF EditorInv, RecordTyped, ReceiptsMatchHistory, At
  <2>8. BaselineIsStored' /\ SaveIsPrepared'
    BY <1>a, <2>2, <2>3, <2>6 DEF BaselineIsStored, At, SaveIsPrepared
  <2>9. DoubtIsHeld'
    BY <1>a, <2>2, <2>3, <2>6 DEF DoubtIsHeld
  <2>10. RefreshIsOfCommit' /\ FormShowsStored'
    <3>1. form = "auto" => c.held.rows = card.held.rows
      <4>1. ASSUME form = "auto" PROVE c.held.rows = card.held.rows
        BY <2>3, <4>1
      <4> QED BY <4>1
    <3> QED BY <1>a, <2>2, <2>3, <2>6, <3>1 DEF RefreshIsOfCommit, FormShowsStored, Locked
  <2> QED BY <1>a, <2>2, <2>5, <2>6, <2>7, <2>8, <2>9, <2>10
             DEF EditorInv, EditorTyped, CardInv, Imported
<1>8. CASE SaveCommits
  <2>1. Writing /\ Publishable /\ Publish /\ Accepted(Revision + 1)
    BY <1>8 DEF SaveCommits
  <2>2. lastOp' \in Nat /\ Len(history) \in Nat
    <3>1. lastOp' \in Nat
      BY <2>1, WrittenCard
    <3> QED BY <3>1, <1>a DEF RecordTyped
  <2>3. RecordTyped' /\ ReceiptsMatchHistory' /\ Revision + 1 <= Len(history')
    BY <2>1, <2>2, Published DEF RecordTyped, Revision
  <2>4. \E e \in receipts' : e.rev = Revision + 1 /\ e.content = card.held
    <3>1. [op |-> card.op, rev |-> Len(history) + 1, content |-> card.held,
           shown |-> card.baseline] \in receipts'
      BY <2>1, Published
    <3> QED BY <3>1 DEF Revision
  <2>5. Revision + 1 \in Nat
    BY <2>2 DEF Revision
  <2> QED BY <2>1, <2>3, <2>4, <2>5, AcceptStep
<1>9. CASE SaveResolves
  <2>1. PICK e \in receipts : e.op = card.intent.op /\ Accepted(e.rev)
    BY <1>9 DEF SaveResolves
  <2>2. Writing /\ card.intent # NoIntent /\ UNCHANGED <<history, receipts>>
    BY <1>9 DEF SaveResolves
  <2>3. app = "editor" /\ lastOp' = lastOp
    BY <2>2, WrittenCard
  <2>4. e.op = card.op /\ e.content = card.held
    BY <1>a, <2>1, <2>2, <2>3 DEF DoubtIsHeld
  <2>5. RecordTyped' /\ ReceiptsMatchHistory' /\ e.rev \in Nat /\ e.rev <= Len(history')
    BY <1>a, <2>1, <2>2, <2>3 DEF EditorInv, RecordTyped, ReceiptsMatchHistory, At
  <2>6. \E r \in receipts' : r.rev = e.rev /\ r.content = card.held
    BY <2>2, <2>4
  <2> QED BY <2>1, <2>2, <2>5, <2>6, AcceptStep
<1>10. CASE SaveUncertain
  BY <1>10, UncertainStep
<1>11. CASE SaveFails
  <2>1. PICK intent \in IntentAfterFailure, found \in {FALSE, Imported} :
            Returned(Failed(card, intent, found))
    BY <1>11 DEF SaveFails
  <2>2. Writing /\ UNCHANGED <<history, receipts>>
    BY <1>11 DEF SaveFails
  <2>3. intent \in {card.intent, NoIntent} /\ (Found(card.op) => intent = card.intent)
    BY <2>1 DEF IntentAfterFailure, Admitted
  <2>4. /\ (card.stale \/ found) \in BOOLEAN /\ ((card.stale \/ found) => Imported)
        /\ card' = [card EXCEPT !.intent = intent, !.dirty = TRUE,
                       !.stale = card.stale \/ found,
                       !.saveState = IF card.pendingCommit THEN "uncertain" ELSE "rejected",
                       !.saving = FALSE]
    <3>1. (card.stale \/ found) \in BOOLEAN /\ ((card.stale \/ found) => Imported)
      <4>1. found => Imported
        <5>1. found = FALSE \/ found = Imported
          BY <2>1
        <5>2. CASE found = FALSE
          BY Zenon, <5>2
        <5>3. CASE found = Imported
          BY Zenon, <5>3
        <5> QED BY Zenon, <5>1, <5>2, <5>3
      <4> QED BY Zenon, <1>a, <4>1
    <3>2. card' = [card EXCEPT !.intent = intent, !.dirty = TRUE,
                      !.stale = card.stale \/ found,
                      !.saveState = IF card.pendingCommit THEN "uncertain" ELSE "rejected",
                      !.saving = FALSE]
      BY Zenon, <2>1 DEF Returned, Failed
    <3> QED BY <3>1, <3>2
  <2>5. PICK stale \in BOOLEAN :
            /\ stale => Imported
            /\ card' = [card EXCEPT !.intent = intent, !.dirty = TRUE, !.stale = stale,
                           !.saveState = IF card.pendingCommit THEN "uncertain"
                                                               ELSE "rejected",
                           !.saving = FALSE]
    BY Zenon, <2>4
  <2> QED BY <2>2, <2>3, <2>5, FailStep
<1>12. CASE SaveRefused
  <2>1. /\ Writing /\ ~Found(card.op) /\ UNCHANGED <<history, receipts>>
        /\ Returned(Rejected([card EXCEPT !.intent = NoIntent, !.pendingCommit = FALSE]))
    BY <1>12 DEF SaveRefused, Admitted
  <2>2. PICK stale \in BOOLEAN : stale = card.stale
    BY <1>a DEF Card
  <2>3. card' = [card EXCEPT !.intent = NoIntent, !.pendingCommit = FALSE, !.dirty = TRUE,
                    !.stale = stale, !.saveState = "rejected", !.saving = FALSE]
    BY <1>a, <2>1, <2>2 DEF Returned, Rejected, Card
  <2> QED BY <1>a, <2>1, <2>2, <2>3, FailStep
<1>13. CASE SaveRaises
  <2>1. PICK intent \in IntentAfterFailure : Returned([card EXCEPT !.intent = intent])
    BY <1>13 DEF SaveRaises
  <2>2. Writing /\ UNCHANGED <<history, receipts>>
    BY <1>13 DEF SaveRaises
  <2>3. intent \in {card.intent, NoIntent} /\ (Found(card.op) => intent = card.intent)
    BY <2>1 DEF IntentAfterFailure, Admitted
  <2>4. PICK stale \in BOOLEAN : stale = card.stale
    BY <1>a DEF Card
  <2>5. card' = [card EXCEPT !.intent = intent, !.stale = stale, !.saving = FALSE]
    BY <1>a, <2>1, <2>4 DEF Returned, Card
  <2> QED BY <1>a, <2>2, <2>3, <2>4, <2>5, FailStep
<1>14. CASE SaveRefreshes
  <2>1. /\ app = "editor" /\ card.pendingRefresh /\ card' = [card EXCEPT !.refreshing = TRUE]
        /\ UNCHANGED <<app, form, history, receipts, lastOp>>
    BY <1>14 DEF SaveRefreshes, Ready, Elsewhere
  <2>2. card' \in Card /\ card'.stale = card.stale
    BY <1>a, <2>1 DEF Card
  <2>3. CardInv'
    BY <1>a, <2>1 DEF Card, CardInv, BaselineIsStored, At, DoubtIsHeld,
       RefreshIsOfCommit, FormShowsStored, SaveIsPrepared, Locked
  <2> QED BY <1>a, <2>1, <2>2, <2>3, CardStep
<1>15. CASE AdoptRefresh
  <2> DEFINE fresh == history[Revision]
  <2>1. /\ app = "editor" /\ card.refreshing /\ UNCHANGED <<app, form, history, receipts, lastOp>>
        /\ card' = [card EXCEPT !.value = fresh.value, !.dirty = FALSE,
                            !.rev = Revision, !.held = fresh, !.op = 0,
                            !.intent = NoIntent, !.baseline = fresh,
                            !.pendingCommit = FALSE, !.pendingRefresh = FALSE,
                            !.saveState = "saved", !.refreshing = FALSE]
    BY <1>15 DEF AdoptRefresh, Elsewhere
  <2>2. /\ Revision = Len(history) /\ Revision \in Nat \ {0} /\ fresh \in Content
        /\ \A e \in receipts : e.op # 0
    <3>1. PICK e \in receipts : e.rev = card.rev
      BY <1>a, <2>1 DEF RefreshIsOfCommit
    <3>2. e.rev \in 1 .. Len(history) /\ Len(history) \in Nat
      BY <1>a DEF RecordTyped
    <3>3. \A r \in receipts : r.op \in 1 .. lastOp
      BY <1>a DEF RecordTyped
    <3> QED BY <1>a, <3>2, <3>3 DEF RecordTyped, Revision
  <2> HIDE DEF fresh
  <2>3. card' \in Card /\ card'.stale = card.stale
    BY <1>a, <2>1, <2>2 DEF Card, Content, SaveState
  <2>4. /\ card'.rev = Revision /\ card'.op = 0 /\ card'.baseline = fresh
        /\ card'.intent = NoIntent /\ ~card'.pendingCommit /\ ~card'.pendingRefresh
        /\ ~card'.refreshing /\ card'.saveState = "saved" /\ card'.value = fresh.value
        /\ card'.held = fresh
    BY <1>a, <2>1 DEF Card
  <2>5. BaselineIsStored'
    BY <1>a, <2>1, <2>2, <2>4 DEF BaselineIsStored, At, RecordTyped, fresh
  <2>6. DoubtIsHeld' /\ RefreshIsOfCommit'
    BY <2>1, <2>2, <2>4 DEF DoubtIsHeld, RefreshIsOfCommit
  <2>7. FormShowsStored'
    BY <2>1, <2>2, <2>4 DEF FormShowsStored, fresh
  <2>8. SaveIsPrepared'
    BY <1>a, <2>1 DEF SaveIsPrepared, Card
  <2> QED BY <1>a, <2>1, <2>3, <2>5, <2>6, <2>7, <2>8, CardStep DEF CardInv
<1>16. CASE RefreshFails
  <2>1. \/ card' = [card EXCEPT !.refreshing = FALSE]
        \/ card' = [card EXCEPT !.refreshing = FALSE, !.stale = TRUE] /\ Imported
    <3>1. PICK found \in {FALSE, Imported} :
               card' = [card EXCEPT !.refreshing = FALSE, !.stale = card.stale \/ found]
      BY <1>16 DEF RefreshFails
    <3>2. ((card.stale \/ found) = TRUE /\ Imported) \/ (card.stale \/ found) = card.stale
      <4>1. card.stale \in BOOLEAN
        BY <1>a DEF Card
      <4>2. found => Imported
        <5>1. found = FALSE \/ found = Imported
          BY <3>1
        <5>2. CASE found = FALSE
          BY Zenon, <5>2
        <5>3. CASE found = Imported
          BY Zenon, <5>3
        <5> QED BY Zenon, <5>1, <5>2, <5>3
      <4>3. CASE card.stale \/ found
        BY Zenon, <1>a, <4>2, <4>3
      <4>4. CASE ~(card.stale \/ found)
        BY Zenon, <4>1, <4>4
      <4> QED BY <4>3, <4>4
    <3>3. \/ card' = [card EXCEPT !.refreshing = FALSE, !.stale = TRUE] /\ Imported
          \/ card' = [card EXCEPT !.refreshing = FALSE, !.stale = card.stale]
      BY <3>1, <3>2, Zenon
    <3> QED BY <1>a, <3>3 DEF Card
  <2>2. app = "editor" /\ UNCHANGED <<app, form, history, receipts, lastOp>>
    BY <1>16 DEF RefreshFails, Elsewhere
  <2>3. card' \in Card /\ (card'.stale => Imported)
    BY <1>a, <2>1 DEF Card
  <2>4. /\ card'.rev = card.rev /\ card'.op = card.op /\ card'.intent = card.intent
        /\ card'.baseline = card.baseline /\ card'.value = card.value
        /\ card'.held = card.held /\ card'.dirty = card.dirty
        /\ card'.pendingCommit = card.pendingCommit /\ card'.saveState = card.saveState
        /\ card'.pendingRefresh = card.pendingRefresh /\ ~card'.refreshing
        /\ card'.saving = card.saving
    BY <1>a, <2>1 DEF Card
  <2>5. CardInv'
    BY <1>a, <2>2, <2>4 DEF CardInv, BaselineIsStored, At, DoubtIsHeld,
       RefreshIsOfCommit, FormShowsStored, SaveIsPrepared, Locked
  <2> QED BY <1>a, <2>1, <2>2, <2>3, <2>5, CardStep
<1>17. ASSUME NEW discard \in BOOLEAN, Leave(discard) PROVE EditorInv'
  <2>1. card' \in Card /\ card'.stale = card.stale /\ app' # "editor"
    BY <1>a, <1>17 DEF Leave, Card
  <2> QED BY <1>a, <1>17, <2>1, CardStep DEF Leave, Elsewhere
<1>18. CASE Cancel
  BY <1>17, <1>18 DEF Cancel
<1>19. CASE CloseCard
  BY <1>a, <1>17, <1>19 DEF CloseCard, Card
<1>20. CASE CloseApplication
  BY <1>a, <1>20, CardStep DEF CloseApplication, Elsewhere
<1>21. CASE RivalWrites
  <2>1. PICK content \in Content : history' = Append(history, content)
    BY <1>21 DEF RivalWrites
  <2>2. UNCHANGED <<form, receipts, lastOp, app, card>>
    BY <1>21 DEF RivalWrites
  <2>3. /\ history' \in Seq(Content) /\ Len(history') = Len(history) + 1
        /\ \A i \in 1 .. Len(history) : history'[i] = history[i]
        /\ Len(history) \in Nat
    BY <1>a, <2>1, HistoryGrows DEF RecordTyped
  <2>4. EditorTyped' /\ ReceiptsMatchHistory'
    <3>1. \A e \in receipts : e.rev \in 1 .. Len(history)
      BY <1>a DEF RecordTyped
    <3>2. RecordTyped'
      BY <1>a, <2>2, <2>3 DEF RecordTyped
    <3>3. ReceiptsMatchHistory'
      BY <2>2, <2>3, <3>1 DEF EditorInv, ReceiptsMatchHistory, At
    <3> QED BY <1>a, <2>2, <3>2, <3>3 DEF EditorTyped
  <2>5. ASSUME app = "editor" PROVE CardInv'
    <3>1. card.rev \in Nat /\ card.rev <= Len(history)
      BY <1>a, <2>5 DEF BaselineIsStored, Card
    <3>2. BaselineIsStored'
      BY <1>a, <2>2, <2>3, <2>5, <3>1 DEF BaselineIsStored, At
    <3>3. DoubtIsHeld' /\ RefreshIsOfCommit' /\ SaveIsPrepared'
      BY <1>a, <2>2, <2>5 DEF DoubtIsHeld, RefreshIsOfCommit, SaveIsPrepared
    <3>4. FormShowsStored'
      BY <1>a, <2>2, <2>3, <2>5, <3>1 DEF FormShowsStored, SaveIsPrepared, Locked
    <3> QED BY <3>2, <3>3, <3>4 DEF CardInv
  <2> QED BY <1>a, <2>2, <2>4, <2>5 DEF EditorInv, Imported
<1>22. CASE SourceChanges
  BY <1>22, <1>a, CardStep DEF SourceChanges, EditorInv, CardInv, BaselineIsStored, At, DoubtIsHeld,
     RefreshIsOfCommit, FormShowsStored, SaveIsPrepared, Locked
<1>23. CASE ProcessEnds
  <2>1. NoCard \in Card /\ ~NoCard.stale
    BY DEF NoCard, Card, Content, Blank, SaveState
  <2> QED BY <1>23, <2>1, CardStep DEF ProcessEnds, Elsewhere
<1>24. CASE Relaunch
  BY <1>a, <1>24, CardStep DEF Relaunch, Elsewhere
<1>25. CASE UNCHANGED vars
  BY <1>25, <1>a, CardStep DEF vars, EditorInv, CardInv, BaselineIsStored, At, DoubtIsHeld,
     RefreshIsOfCommit, FormShowsStored, SaveIsPrepared, Locked
<1> QED
  BY <1>1, <1>2, <1>3, <1>4, <1>5, <1>6, <1>7, <1>8, <1>9, <1>10, <1>11, <1>12, <1>13, <1>14, <1>15,
     <1>16, <1>18, <1>19, <1>20, <1>21, <1>22, <1>23, <1>24, <1>25 DEF Next

(* The invariant holds of every behaviour of the editor.                    *)
THEOREM EditorInvariant == Spec => []EditorInv
<1> QED
  BY EditorInit, EditorStep, PTL DEF Spec

(* A Save whose outcome is open keeps the card locked and costs nobody a    *)
(* write: every commit replaced only what the form had shown, and the       *)
(* refresh replaces only what that commit wrote (pending_commit of _save,   *)
(* _accept_refresh, change, row_event).                                     *)
THEOREM DoubtsLoseNothing == Spec => []DoubtLosesNothing
<1>1. EditorInv => LockCoversDoubt
  BY DEF EditorInv, CardInv, DoubtIsHeld, LockCoversDoubt, Found
<1>2. EditorInv => SavesLoseNothing
  <2> SUFFICES ASSUME EditorInv PROVE SavesLoseNothing
    OBVIOUS
  <2>1. ASSUME NEW e \in receipts
        PROVE  /\ e.content = history[e.rev]
               /\ e.shown = IF e.rev = 1 THEN Blank ELSE history[e.rev - 1]
    BY DEF EditorInv, EditorTyped, RecordTyped, ReceiptsMatchHistory, At
  <2>2. ASSUME app = "editor", card.pendingRefresh, form = "auto"
        PROVE  \E e \in receipts : e.rev = card.rev
                        /\ e.content = [value |-> card.value, rows |-> card.held.rows]
    <3>1. PICK e \in receipts : e.rev = card.rev /\ e.content = card.held
      BY <2>2 DEF EditorInv, CardInv, RefreshIsOfCommit
    <3>2. card.held = [value |-> card.value, rows |-> card.held.rows]
      BY <2>2 DEF EditorInv, EditorTyped, Card, Content, CardInv, RefreshIsOfCommit
    <3> QED BY <3>1, <3>2
  <2> QED BY <2>1, <2>2 DEF SavesLoseNothing
<1>3. EditorInv => DoubtLosesNothing
  BY <1>1, <1>2 DEF DoubtLosesNothing
<1> QED
  BY <1>3, EditorInvariant, PTL

(* The form tells the truth: what it says of the last Save is so, and when  *)
(* it is not dirty it shows what is stored (save_state, IsDirty).           *)
THEOREM FormStaysTruthful == Spec => []FormIsTruthful
<1>1. EditorInv => FormIsTruthful
  <2> SUFFICES ASSUME EditorInv, app = "editor"
               PROVE  /\ card.saveState = "rejected" => ~Found(card.op)
                      /\ card.saveState = "committed" =>
                            \E e \in receipts : e.rev = card.rev /\ e.content = card.held
                      /\ card.saveState = "saved" =>
                            /\ card.rev > 0 /\ card.value = history[card.rev].value
                            /\ ~Locked
                      /\ ~card.refreshing /\ ~card.dirty /\ ~Locked =>
                            /\ card.value = card.baseline.value
                            /\ form = "auto" => card.held.rows = card.baseline.rows
    BY DEF FormIsTruthful
  <2> USE DEF EditorInv, CardInv
  <2>1. card.saveState = "rejected" => ~Found(card.op)
    BY DEF DoubtIsHeld, Found
  <2>2. card.saveState = "committed" =>
            \E e \in receipts : e.rev = card.rev /\ e.content = card.held
    BY DEF RefreshIsOfCommit
  <2>3. card.saveState = "saved" =>
            card.rev > 0 /\ card.value = history[card.rev].value /\ ~Locked
    BY DEF FormShowsStored, DoubtIsHeld, RefreshIsOfCommit, Locked
  <2>4. ~card.refreshing /\ ~card.dirty /\ ~Locked =>
            /\ card.value = card.baseline.value
            /\ form = "auto" => card.held.rows = card.baseline.rows
    BY DEF FormShowsStored
  <2> QED BY <2>1, <2>2, <2>3, <2>4
<1> QED
  BY <1>1, EditorInvariant, PTL

(* A card is left only when no outcome is open and no refresh is due, and   *)
(* with edits only after Cancel (_cancel, BeforeClose).                     *)
THEOREM NothingIsLeftOpen == Spec => LeavesNothingOpen
<1>1. EditorInv /\ [Next]_vars =>
          [app = "editor" /\ app' \in {"list", "closed"} =>
             /\ card.intent = NoIntent /\ ~Found(card.op) /\ ~card.pendingRefresh
             /\ card.dirty => card'.discard]_vars
  <2> SUFFICES ASSUME EditorInv, Next, app = "editor", app' \in {"list", "closed"}
               PROVE  /\ card.intent = NoIntent /\ ~Found(card.op) /\ ~card.pendingRefresh
                      /\ card.dirty => card'.discard
    OBVIOUS
  <2>1. Ready /\ ~Locked /\ (card.dirty => card'.discard)
    <3>1. card \in Card
      BY DEF EditorInv, EditorTyped
    <3>2. \/ Cancel \/ CloseCard \/ CloseApplication
      BY DEF Next, CreateCard, OpenCard, Open, Change, RowEvent, SaveUnchanged,
         SaveStopped, SavePrepares, SaveCommits, SaveResolves, SaveUncertain, SaveFails,
         SaveRefused, SaveRaises, Writing, SaveRefreshes, AdoptRefresh, RefreshFails, RivalWrites,
         SourceChanges, ProcessEnds, Relaunch
    <3> QED BY <3>1, <3>2 DEF Cancel, CloseCard, CloseApplication, Leave, Card
  <2> QED BY <2>1 DEF EditorInv, CardInv, DoubtIsHeld, Locked, Found
<1> QED
  BY <1>1, EditorInvariant, PTL DEF Spec, LeavesNothingOpen

(* Once the source of an imported form changed its card writes nothing any  *)
(* more, also when the change comes between the last check of the form and  *)
(* the write, and reports a commit only if it had taken effect before       *)
(* (_verify_source, begin_write, _demo_receipt_identity).                   *)
THEOREM ChangedSourcesStopSaves == Spec => ChangedSourceStopsSave
<1>1. EditorInv /\ [Next]_vars =>
          [Imported /\ ~sourceOk =>
             /\ receipts' = receipts
             /\ app = "editor" /\ app' = "editor" /\ card'.saveState = "committed" =>
                   \E e \in receipts : e.rev = card'.rev /\ e.content = card'.held]_vars
  <2> SUFFICES ASSUME EditorInv, Next, Imported, ~sourceOk
               PROVE  /\ receipts' = receipts
                      /\ app = "editor" /\ app' = "editor" /\ card'.saveState = "committed" =>
                            \E e \in receipts : e.rev = card'.rev /\ e.content = card'.held
    OBVIOUS
  <2>1. receipts' = receipts
    BY DEF Next, CreateCard, OpenCard, Open, Change, RowEvent, SaveUnchanged, SaveStopped,
       SavePrepares, SaveCommits, SaveResolves, SaveUncertain, Publishable, Admitted,
       SaveFails, SaveRefused, SaveRaises, SaveRefreshes, AdoptRefresh, RefreshFails,
       Cancel, CloseCard, Leave, CloseApplication, RivalWrites, SourceChanges,
       ProcessEnds, Relaunch, Elsewhere
  <2>2. EditorInv'
    BY EditorStep
  <2>3. ASSUME app' = "editor", card'.saveState = "committed"
        PROVE  \E e \in receipts : e.rev = card'.rev /\ e.content = card'.held
    BY <2>1, <2>2, <2>3 DEF EditorInv, CardInv, RefreshIsOfCommit
  <2> QED BY <2>1, <2>3
<1> QED
  BY <1>1, EditorInvariant, PTL DEF Spec, ChangedSourceStopsSave
=============================================================================
