------------------------------ MODULE LanguageMC ------------------------------
(* The language runtime for TLC.  The interpreter's control and the objects of *)
(* a ValueTree share no state, so a behaviour exercises one of them, chosen at *)
(* the start, while the other stays as it began.                               *)
EXTENDS ValueTree, Interpreter, TLC

CONSTANTS lib, util
VARIABLE part

\* The program imports nothing or both files, and these nothing or each other:
\* two modules side by side, a chain, and a cycle.
SomePrograms ==
  {p \in [Modules -> {<<>>, <<lib>>, <<util>>, <<lib, util>>}] :
     /\ p[Main] \in {<<>>, <<lib, util>>}
     /\ p[lib] \in {<<>>, <<util>>}
     /\ p[util] \in {<<>>, <<lib>>}}

\* Neither module chooses among trees or errors; rows and columns are created in
\* the order of a CHOOSE, and the files differ by the programs above.
Symmetry == Permutations(Trees) \cup Permutations(Errors)

LanguageInit ==
  /\ part \in {"tree", "code"}
  /\ TreeInit /\ CodeInit
  /\ part = "tree" => program = [m \in Modules |-> <<>>]

LanguageNext ==
  \/ part = "tree" /\ TreeNext /\ UNCHANGED <<part, codeVars>>
  \/ part = "code" /\ CodeNext /\ UNCHANGED <<part, treeVars>>

LanguageSpec == LanguageInit /\ [][LanguageNext]_<<part, treeVars, codeVars>>

=============================================================================
