------------------------------ MODULE ValueTree ------------------------------
(***************************************************************************)
(* ValueTree of the BSL runtime (value_trees.py, value_tree_sort.py): the   *)
(* object graph of trees, columns, rows and row collections, and every call *)
(* that changes it.                                                         *)
(*                                                                          *)
(* A tree owns a list of columns, a root collection and a registry of all   *)
(* its rows.  A row owns the collection of its children, so a collection is *)
(* named by its owner: a tree for the root collection, a row for a child    *)
(* one.  A row's cells are a dictionary keyed by column; only the keys are  *)
(* kept here, the values, names, titles, widths and types are left out, and *)
(* with them the calls that only read them or write cell values (Find,      *)
(* FindRows, Total, LoadColumn, UnloadColumn, Set).  A call that raises     *)
(* changes nothing and is a call that is not enabled.                       *)
(*                                                                          *)
(* A program keeps every object it was ever given, so each call is made on  *)
(* any collection and with any row or column, deleted ones and those of     *)
(* another tree included; `linux` is the native target the call runs under, *)
(* which is scoped to an execution and not to the tree.                     *)
(***************************************************************************)
EXTENDS Naturals, FiniteSets, Sequences, SequencesExt

CONSTANTS Trees, Rows, Columns,  \* the objects a run may create
          MaxRows, MaxColumns, MaxCells, MaxDepth  \* the code's budget

VARIABLES tree,     \* per tree: made, its columns in order, its registry
          column,   \* per column: its table and its life
          row,      \* per row: tree, collection, depth, keys of its cells, life
          rows      \* per collection: its items and _columns_clear_forward

treeVars == <<tree, column, row, rows>>

\* Trees and rows are different objects, and a run creates finitely many.
ASSUME TreeAssumption ==
  /\ Trees \cap Rows = {}
  /\ IsFiniteSet(Rows) /\ IsFiniteSet(Columns)
  /\ MaxRows \in Nat /\ MaxColumns \in Nat /\ MaxCells \in Nat /\ MaxDepth \in Nat

Collections == Trees \cup Rows

\* An object that was not created yet: its other fields have no meaning.
NoColumn == [life |-> "none", table |-> {}]
NoRow == [life |-> "none", tree |-> {}, collection |-> {}, depth |-> 0, cells |-> {}]

EmptyCollection == [items |-> <<>>, forward |-> "no"]
EmptyTree == [made |-> TRUE, columns |-> <<>>, registry |-> {}]

TreeInit ==
  /\ \E t \in Trees :
       tree = [u \in Trees |-> [EmptyTree EXCEPT !.made = (u = t)]]
  /\ column = [c \in Columns |-> NoColumn]
  /\ row = [r \in Rows |-> NoRow]
  /\ rows = [k \in Collections |-> EmptyCollection]

-----------------------------------------------------------------------------
(* New objects: which of the ones not created yet stands for a new object is *)
(* immaterial, so one of them is chosen.                                    *)

UnusedRows == {r \in Rows : row[r].life = "none"}
UnusedColumns == {c \in Columns : column[c].life = "none"}
NewRow == CHOOSE r \in UnusedRows : TRUE
NewColumn == CHOOSE c \in UnusedColumns : TRUE
\* S is cloned: a new object for each member.
Clones(S, unused) ==
  CHOOSE f \in [S -> unused] : \A x, y \in S : f[x] = f[y] => x = y

-----------------------------------------------------------------------------
(* The checks the calls share.                                              *)

Made == {t \in Trees : tree[t].made}
\* The collections the program can hold.
Held == Made \cup {r \in Rows : row[r].life # "none"}

TreeOf(k) == IF k \in Trees THEN k ELSE row[k].tree
DepthIn(k) == IF k \in Trees THEN 0 ELSE row[k].depth + 1
ColumnSet(t) == ToSet(tree[t].columns)

Live(k) == k \in Rows => row[k].life = "live"

WithinBudget(rowCount, columnCount) ==
  /\ rowCount <= MaxRows
  /\ columnCount <= MaxColumns
  /\ rowCount * columnCount <= MaxCells

\* The collections at and below k: a walk that never goes deeper than the code
\* accepts, plus the level that shows it is too deep.
Below(k) ==
  LET level[n \in 0..MaxDepth + 2] ==
        IF n = 0 THEN {k}
        ELSE LET above == level[n - 1] IN above \cup UNION {ToSet(rows[c].items) : c \in above}
  IN level[MaxDepth + 2]

SoundCollection(t, k) ==
  /\ rows[k].forward = "no"
  /\ rows[k].items # <<>> => DepthIn(k) <= MaxDepth
  /\ IsInjective(rows[k].items)
  /\ \A r \in ToSet(rows[k].items) :
       /\ row[r].life = "live"
       /\ row[r].tree = t
       /\ row[r].collection = k
       /\ row[r].depth = DepthIn(k)
       /\ row[r].cells = ColumnSet(t)

\* The preflight of Clear, Delete, Copy and of a forwarded call: the graph of
\* the tree is whole, or the call is refused.
ClearGraph(t) ==
  /\ WithinBudget(Cardinality(tree[t].registry), Len(tree[t].columns))
  /\ IsInjective(tree[t].columns)
  /\ \A c \in ColumnSet(t) : column[c] = [table |-> t, life |-> "active"]
  /\ LET reached == Below(t) IN
     /\ \A k \in reached : SoundCollection(t, k)
     /\ reached = {t} \cup tree[t].registry

\* Mutant: a detached collection takes the call itself.
ReceiversLocal(k, operation, linux) == {k}

\* The collections a call on k acts on, none when it is refused: k itself while
\* it is live, the root of its tree when a removal of columns detached k.
Receivers(k, operation, linux) ==
  IF rows[k].forward = "no" THEN {c \in {k} : Live(c)}
  ELSE {t \in {TreeOf(k)} :
          /\ linux
          /\ rows[k].forward = "delete" => operation = "add"
          /\ ClearGraph(t)}

\* The sequence s without the members of gone, in the order of s.
Without(s, gone) ==
  LET left[n \in 0..Len(s)] ==
        IF n = 0 THEN <<>>
        ELSE IF s[n] \in gone THEN left[n - 1] ELSE Append(left[n - 1], s[n])
  IN left[Len(s)]

-----------------------------------------------------------------------------
(* Columns.                                                                 *)

\* Columns.Insert and Columns.Add: every registered row gets a default cell.
InsertColumn(t) ==
  /\ t \in Made /\ UnusedColumns # {}
  /\ WithinBudget(Cardinality(tree[t].registry), Len(tree[t].columns) + 1)
  /\ column' = [column EXCEPT ![NewColumn] = [table |-> t, life |-> "active"]]
  /\ \E i \in 1..Len(tree[t].columns) + 1 :
       tree' = [tree EXCEPT ![t].columns = InsertAt(@, i, NewColumn)]
  /\ row' = [r \in Rows |->
               IF r \in tree[t].registry THEN [row[r] EXCEPT !.cells = @ \cup {NewColumn}]
               ELSE row[r]]
  /\ UNCHANGED rows

\* One column leaves: the list of columns, its own life and each row's cell.
DropColumn(t, c, life) ==
  /\ tree' = [tree EXCEPT ![t].columns = Without(@, {c})]
  /\ column' = [column EXCEPT ![c].life = life]
  /\ row' = [r \in Rows |->
               IF r \in tree[t].registry THEN [row[r] EXCEPT !.cells = @ \ {c}]
               ELSE row[r]]
  /\ UNCHANGED rows

\* The last columns leave and take every row along; the collections of the
\* rows are detached and remember the cause.
DropEverything(t, cause) ==
  LET gone == tree[t].registry IN
  /\ tree' = [tree EXCEPT ![t] = EmptyTree]
  /\ column' = [c \in Columns |->
                  IF c \in ColumnSet(t) THEN [column[c] EXCEPT !.life = "reset"]
                  ELSE column[c]]
  /\ row' = [r \in Rows |->
               IF r \in gone THEN [row[r] EXCEPT !.cells = {}, !.life = "deleted"]
               ELSE row[r]]
  /\ rows' = [k \in Collections |->
                IF k \in gone THEN [items |-> <<>>, forward |-> cause]
                ELSE IF k = t THEN EmptyCollection ELSE rows[k]]

\* Columns.Delete of the Windows target.
DeleteColumn(t, c) ==
  /\ t \in Made /\ column[c] = [table |-> t, life |-> "active"]
  /\ Len(tree[t].columns) = 1 => tree[t].registry = {}
  /\ DropColumn(t, c, "deleted")

\* Columns.Delete of the Linux target: by name, or by object or index.
DeleteColumnLinux(t, c, named) ==
  /\ t \in Made /\ c \in ColumnSet(t)
  /\ ClearGraph(t)
  /\ \/ Len(tree[t].columns) > 1 /\ DropColumn(t, c, "reset")
     \/ /\ Len(tree[t].columns) = 1 /\ named /\ tree[t].registry = {}
        /\ DropColumn(t, c, "deleted")
     \/ Len(tree[t].columns) = 1 /\ ~named /\ DropEverything(t, "delete")

\* Columns.Move (Linux): permutes the list; the rows' cells are keyed and stay.
MoveColumn(t) ==
  /\ t \in Made
  /\ \E i, j \in DOMAIN tree[t].columns :
       /\ i # j
       /\ tree' = [tree EXCEPT ![t].columns =
                     InsertAt(RemoveAt(@, i), j, tree[t].columns[i])]
  /\ UNCHANGED <<column, row, rows>>

\* Columns.Clear: on Windows only of a tree without rows.
ClearColumns(t, linux) ==
  /\ t \in Made
  /\ \/ linux /\ ClearGraph(t) /\ DropEverything(t, "clear")
     \/ /\ ~linux
        /\ tree[t].registry = {} \/ tree[t].columns = <<>>
        /\ tree' = [tree EXCEPT ![t].columns = <<>>]
        /\ column' = [c \in Columns |->
                        IF c \in ColumnSet(t) THEN [column[c] EXCEPT !.life = "deleted"]
                        ELSE column[c]]
        /\ UNCHANGED <<row, rows>>

-----------------------------------------------------------------------------
(* Rows.                                                                    *)

\* Rows.Add and Rows.Insert, called on k: the new row belongs to the collection
\* that receives the call and has a cell for every column of the tree.
InsertRow(k, operation, linux) ==
  /\ k \in Held /\ UnusedRows # {}
  /\ \E c \in Receivers(k, operation, linux) :
       LET t == TreeOf(c)
           last == Len(rows[c].items) + 1
       IN
       /\ WithinBudget(Cardinality(tree[t].registry) + 1, Len(tree[t].columns))
       /\ DepthIn(c) <= MaxDepth
       /\ row' = [row EXCEPT ![NewRow] = [life |-> "live", tree |-> t, collection |-> c,
                                          depth |-> DepthIn(c), cells |-> ColumnSet(t)]]
       /\ \E i \in IF operation = "add" THEN {last} ELSE 1..last :
            rows' = [rows EXCEPT ![c].items = InsertAt(@, i, NewRow)]
       /\ tree' = [tree EXCEPT ![t].registry = @ \cup {NewRow}]
  /\ UNCHANGED column

\* Rows.Move: by row or by index, one item to another place of its collection.
MoveRow(k) ==
  /\ k \in Held /\ Live(k)
  /\ \E i, j \in DOMAIN rows[k].items :
       /\ i # j
       /\ rows' = [rows EXCEPT ![k].items = InsertAt(RemoveAt(@, i), j, rows[k].items[i])]
  /\ UNCHANGED <<tree, column, row>>

\* Rows.Sort (Linux): the cells of the selected columns decide some order of
\* the rows, ties included; all the permutations are computed, then stored.
SortRows(k, recursive) ==
  /\ k \in Held /\ Live(k)
  /\ LET sorted == IF recursive THEN Below(k) ELSE {k}
         moved == UNION {ToSet(rows[c].items) : c \in sorted}
     IN
     \E order \in SetToSeqs(moved) :
       rows' = [c \in Collections |->
                  IF c \in sorted
                  THEN [rows[c] EXCEPT !.items = Without(order, moved \ ToSet(@))]
                  ELSE rows[c]]
  /\ UNCHANGED <<tree, column, row>>

\* Mutant: the rows below a removed row are forgotten.
RemoveRoots(roots) == roots

\* A row takes everything below it along.
RemoveSubtrees(roots) == UNION {Below(r) : r \in roots}

\* The items of k that are in roots are removed, with their subtrees.
RemoveRows(k, roots) ==
  LET gone == RemoveSubtrees(roots) IN
  /\ rows' = [c \in Collections |->
                IF c = k THEN [rows[k] EXCEPT !.items = Without(@, roots)]
                ELSE IF c \in gone THEN [rows[c] EXCEPT !.items = <<>>] ELSE rows[c]]
  /\ row' = [r \in Rows |->
               IF r \in gone THEN [row[r] EXCEPT !.cells = {}, !.life = "deleted"]
               ELSE row[r]]
  /\ tree' = [tree EXCEPT ![TreeOf(k)].registry = @ \ gone]
  /\ UNCHANGED column

\* Rows.Delete, by row or by index.
DeleteRow(k, r) ==
  /\ k \in Held /\ Live(k)
  /\ row[r].life = "live" /\ row[r].collection = k
  /\ RemoveRows(k, {r})

\* Rows.Clear: a collection detached by Columns.Clear clears the root.
ClearRows(k, linux) ==
  /\ k \in Held
  /\ \E c \in Receivers(k, "clear", linux) :
       /\ rows[c].items # <<>>
       /\ RemoveRows(c, ToSet(rows[c].items))

-----------------------------------------------------------------------------
(* Copy: new columns and new rows in a new tree, in the order of the source. *)

Renamed(s, f) == [i \in DOMAIN s |-> f[s[i]]]

Copy(t, u) ==
  /\ t \in Made /\ u \notin Made
  /\ ClearGraph(t)
  /\ Cardinality(tree[t].registry) <= Cardinality(UnusedRows)
  /\ Len(tree[t].columns) <= Cardinality(UnusedColumns)
  /\ LET old == tree[t].registry
         f == Clones(old, UnusedRows)
         g == Clones(ColumnSet(t), UnusedColumns)
         cloned == {f[r] : r \in old}
         source(r) == CHOOSE s \in old : f[s] = r
         place(k) == IF k = t THEN u ELSE f[k]
     IN
     /\ tree' = [tree EXCEPT ![u] = [made |-> TRUE, registry |-> cloned,
                                     columns |-> Renamed(tree[t].columns, g)]]
     /\ column' = [c \in Columns |->
                     IF \E s \in ColumnSet(t) : g[s] = c
                     THEN [table |-> u, life |-> "active"] ELSE column[c]]
     /\ row' = [r \in Rows |->
                  IF r \in cloned
                  THEN [life |-> "live", tree |-> u, depth |-> row[source(r)].depth,
                        collection |-> place(row[source(r)].collection),
                        cells |-> {g[c] : c \in row[source(r)].cells}]
                  ELSE row[r]]
     /\ rows' = [k \in Collections |->
                   IF k = u THEN [EmptyCollection EXCEPT !.items = Renamed(rows[t].items, f)]
                   ELSE IF k \in cloned
                   THEN [EmptyCollection EXCEPT !.items = Renamed(rows[source(k)].items, f)]
                   ELSE rows[k]]

TreeNext ==
  \/ \E t \in Trees, c \in Columns :
       \/ DeleteColumn(t, c)
       \/ \E named \in BOOLEAN : DeleteColumnLinux(t, c, named)
  \/ \E t \in Trees : InsertColumn(t) \/ MoveColumn(t) \/ \E linux \in BOOLEAN : ClearColumns(t, linux)
  \/ \E k \in Collections, linux \in BOOLEAN, operation \in {"add", "insert"} :
       InsertRow(k, operation, linux)
  \/ \E k \in Collections : MoveRow(k) \/ \E recursive \in BOOLEAN : SortRows(k, recursive)
  \/ \E k \in Collections, r \in Rows : DeleteRow(k, r)
  \/ \E k \in Collections, linux \in BOOLEAN : ClearRows(k, linux)
  \/ \E t, u \in Trees : Copy(t, u)

TreeSpec == TreeInit /\ [][TreeNext]_treeVars

-----------------------------------------------------------------------------
(* Properties.                                                              *)

\* No sequence of legal calls, on live, deleted or foreign objects of two trees
\* and under either target, leaves a tree that the preflight of Clear, Delete
\* and Copy would call corrupt: registry and graph name the same rows, each
\* once, at its place and depth, with a cell for exactly the columns there are,
\* within the budget.
NeverCorrupt == \A t \in Made : ClearGraph(t)

\* A row or a column is in its tree, or it is gone: no live one is unreachable,
\* and a deleted row keeps neither children nor cells.
InTheTreeOrGone ==
  /\ \A r \in Rows :
       /\ row[r].life = "live" => r \in tree[row[r].tree].registry
       /\ row[r].life = "deleted" => row[r].cells = {} /\ rows[r].items = <<>>
  /\ \A c \in Columns : column[c].life = "active" => c \in ColumnSet(column[c].table)

\* What was removed stays removed: a program that kept a deleted row, its
\* collection or a deleted column never brings it back, nor puts a row into a
\* detached collection, whatever it calls on it.
RemovedForGood ==
  [][/\ InTheTreeOrGone'
     /\ \A r \in Rows : row[r].life = "deleted" => row'[r] = row[r] /\ rows'[r] = rows[r]
     /\ \A c \in Columns : column[c].life \in {"deleted", "reset"} => column'[c] = column[c]
    ]_treeVars
=============================================================================
