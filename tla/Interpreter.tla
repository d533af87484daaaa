----------------------------- MODULE Interpreter -----------------------------
(***************************************************************************)
(* The dynamic control of the BSL interpreter (runtime.py): what each call, *)
(* Try, handler, Eval, Execute and module load saves on entry and restores  *)
(* on every way out, the diagnostics a handler shows, the side and module   *)
(* context a routine runs under, and the import of modules.                 *)
(*                                                                          *)
(* A program is whatever statements it likes, in any nesting: `stack` holds *)
(* the constructs being executed, innermost last, and `signal` what is      *)
(* travelling up through them.  One execution context is modelled, the one  *)
(* a task or a program runs in; AsyncScheduler has the tasks.  Values,      *)
(* variables and expressions are left out: a scope is the number of the     *)
(* construct that created it, 0 is the module's own (None in the code).     *)
(***************************************************************************)
EXTENDS Naturals, FiniteSets, Sequences, SequencesExt

CONSTANTS Main, Files,   \* the program, and the files it may import
          Programs,      \* which modules each file's import names, in order
          Errors,        \* the errors a program may raise
          MaxFrames,     \* bound: nested constructs
          MaxEval, MaxExecute  \* EVAL_MAX_DEPTH, EXECUTE_MAX_DEPTH

VARIABLES
  program,      \* the file's import: the modules it names, in order
  stack, signal,
  locals,       \* per interpreter: the scope its names resolve in
  sides, contexts,  \* _context_stack and _module_context_stack
  diagnostics,  \* per diagnostic owner: handled errors, boundaries, depths
  loading, cache,   \* the paths being loaded, the loaded modules
  imported      \* per module: the names it has published as imported

codeVars == <<program, stack, signal, locals, sides, contexts, diagnostics,
              loading, cache, imported>>
scopes == <<locals, sides, contexts>>
modules == <<loading, cache, imported>>

Modules == Files \cup {Main}

ASSUME InterpreterAssumption ==
  /\ "server" \notin Modules
  /\ \A p \in Programs : p \in [Modules -> Seq(Modules)]
  /\ {"none", "return", "jump", "fatal"} \cap Errors = {}
  /\ MaxFrames \in Nat /\ MaxEval \in Nat /\ MaxExecute \in Nat

\* A call from client to server runs in a fresh interpreter of its own; there
\* is at most one, as server code never crosses again.
Interpreters == Modules \cup {"server"}

\* Imported modules share the handler stack of the program, a server
\* activation has its own.
Owner(i) == IF i = "server" THEN "server" ELSE "client"

NoDiagnostics == [handled |-> <<>>, boundaries |-> <<>>, evals |-> 0, executes |-> 0]

\* A construct; `nested` records that another handler ran inside a handler.
Frame(kind, owner) ==
  [kind |-> kind, owner |-> owner, saved |-> 0, todo |-> <<>>, error |-> "none",
   nested |-> FALSE, side |-> "client", context |-> TRUE, crossing |-> FALSE, begun |-> TRUE]

CodeInit ==
  /\ program \in Programs
  /\ stack = <<>> /\ signal = "none"
  /\ locals = [i \in Interpreters |-> 0]
  /\ sides = <<"client">> /\ contexts = <<TRUE>>
  /\ diagnostics = [d \in {"client", "server"} |-> NoDiagnostics]
  /\ loading = <<>> /\ cache = {}
  /\ imported = [m \in Modules |-> {}]

-----------------------------------------------------------------------------
Top == Last(stack)
Running == stack # <<>> /\ signal = "none"
Room == Len(stack) < MaxFrames
Inner == {"try", "handler"}
\* The constructs of the body being executed: Return, a jump and a bare Raise
\* are lexical and cannot leave it.
UnitStart == CHOOSE i \in DOMAIN stack :
  /\ stack[i].kind \notin Inner
  /\ \A j \in i + 1 .. Len(stack) : stack[j].kind \in Inner

\* The code of the top construct may take a step.
Executing == Running /\ (Top.kind = "module" => Top.todo = <<>>)
\* Eval evaluates an expression: it can call and fail, and has no statements.
Statements == Executing /\ Top.kind # "eval"

Enter(frame) == stack' = Append(stack, frame)
Scope == Len(stack) + 1
OfTop == diagnostics[Owner(Top.owner)]
SetDiagnostics(record) == diagnostics' = [diagnostics EXCEPT ![Owner(Top.owner)] = record]

-----------------------------------------------------------------------------
(* Modules.                                                                 *)

\* execute_program: a path is under load only while its program has imports.
EnterModule(m) ==
  /\ Enter([Frame("module", m) EXCEPT !.todo = program[m]])
  /\ loading' = IF program[m] = <<>> THEN loading ELSE Append(loading, m)

Execute ==
  /\ stack = <<>>
  /\ EnterModule(Main)
  /\ UNCHANGED <<program, signal, scopes, diagnostics, cache, imported>>

Fails == signal' \in Errors

\* Mutant: each name is published as soon as its module is loaded.
PublishEach(m, todo) == imported' = [imported EXCEPT ![m] = @ \cup {Head(todo)}]

\* The names are published together, once all the modules are loaded.
Publish(m, todo) ==
  imported' = IF Len(todo) > 1 THEN imported
              ELSE [imported EXCEPT ![m] = @ \cup ToSet(program[m])]

\* visit_Import and _load_module, for the next module the statement names: a
\* fresh interpreter loads it, unless it is loaded or being loaded.
Import ==
  /\ Running /\ Top.kind = "module" /\ Top.todo # <<>>
  /\ LET child == Head(Top.todo) IN
     \/ /\ child \in ToSet(loading) \/ child \notin cache  \* a cycle, or unreadable
        /\ Fails
        /\ UNCHANGED <<stack, modules>>
     \/ /\ child \notin ToSet(loading) /\ child \in cache
        /\ stack' = [stack EXCEPT ![Len(stack)].todo = Tail(@)]
        /\ Publish(Top.owner, Top.todo)
        /\ UNCHANGED <<signal, loading, cache>>
     \/ /\ child \notin ToSet(loading) /\ child \notin cache /\ Room
        /\ EnterModule(child)
        /\ imported' = [imported EXCEPT ![child] = {}]
        /\ UNCHANGED <<signal, cache>>
  /\ UNCHANGED <<program, scopes, diagnostics>>

-----------------------------------------------------------------------------
(* Calls.                                                                   *)

\* What a routine is declared as: its side, whether it has module context, and
\* whether it exists on both sides.
Routines == {[side |-> "client", context |-> TRUE, dual |-> FALSE],
             [side |-> "server", context |-> TRUE, dual |-> FALSE],
             [side |-> "server", context |-> FALSE, dual |-> FALSE],
             [side |-> "client", context |-> FALSE, dual |-> TRUE],
             [side |-> "server", context |-> FALSE, dual |-> TRUE]}

Callable(routine) ==
  /\ routine.dual => routine.side = Last(sides)
  /\ Last(sides) = "server" => routine.side = "server"
  /\ routine.context => Last(contexts)

\* call_routine, for a routine of the running module or of an imported one.
Call(m, routine) ==
  /\ Executing /\ Room
  /\ m = Top.owner \/ (Top.owner # "server" /\ m \in imported[Top.owner] /\ ~routine.dual)
  /\ Callable(routine)
  /\ LET crossing == Last(sides) = "client" /\ routine.side = "server"
         owner == IF crossing THEN "server" ELSE m
     IN
     /\ Enter([Frame("routine", owner) EXCEPT !.saved = locals[owner], !.side = routine.side,
                 !.context = routine.context, !.crossing = crossing, !.begun = ~crossing])
     /\ locals' = [locals EXCEPT ![owner] = IF crossing THEN 0 ELSE Scope]
     /\ diagnostics' = IF crossing THEN [diagnostics EXCEPT !["server"] = NoDiagnostics]
                       ELSE diagnostics
  /\ sides' = Append(sides, routine.side)
  /\ contexts' = Append(contexts, routine.context)
  /\ UNCHANGED <<program, signal, modules>>

\* A server activation runs its module's initializers, then the routine.
BeginBody ==
  /\ Running /\ ~Top.begun
  /\ stack' = [stack EXCEPT ![Len(stack)].begun = TRUE]
  /\ locals' = [locals EXCEPT !["server"] = Len(stack)]
  /\ UNCHANGED <<program, signal, sides, contexts, diagnostics, modules>>

Try ==
  /\ Statements /\ Room
  /\ Enter(Frame("try", Top.owner))
  /\ UNCHANGED <<program, signal, scopes, diagnostics, modules>>

\* Eval: the code it runs does not see the enclosing handler's error.
Evaluate ==
  /\ Executing /\ Room /\ OfTop.evals < MaxEval
  /\ Enter(Frame("eval", Top.owner))
  /\ SetDiagnostics([OfTop EXCEPT !.evals = @ + 1,
                       !.boundaries = Append(@, Len(OfTop.handled))])
  /\ UNCHANGED <<program, signal, scopes, modules>>

\* Execute: the fragment's names live in a scope over the running one.
ExecuteFragment ==
  /\ Statements /\ Room /\ OfTop.executes < MaxExecute
  /\ Enter([Frame("execute", Top.owner) EXCEPT !.saved = locals[Top.owner]])
  /\ locals' = [locals EXCEPT ![Top.owner] = Scope]
  /\ SetDiagnostics([OfTop EXCEPT !.executes = @ + 1])
  /\ UNCHANGED <<program, signal, sides, contexts, modules>>

-----------------------------------------------------------------------------
(* What travels up, and what every way out restores.                        *)

\* An error of any step, or one that no handler catches.
Raise ==
  /\ Executing
  /\ Fails \/ signal' = "fatal"
  /\ UNCHANGED <<program, stack, scopes, diagnostics, modules>>

\* A bare Raise, in a handler: the error is the handler's, unless a handler
\* inside it has discarded it.
Reraise ==
  /\ Statements
  /\ \E i \in UnitStart .. Len(stack) : stack[i].kind = "handler"
  /\ LET error == Last(OfTop.handled) IN
     IF error = "none" THEN Fails ELSE signal' = error
  /\ UNCHANGED <<program, stack, scopes, diagnostics, modules>>

Return ==
  /\ Statements /\ stack[UnitStart].kind = "routine"
  /\ signal' = "return"
  /\ UNCHANGED <<program, stack, scopes, diagnostics, modules>>

\* Break, Continue or Goto out of a Try or a handler.
Jump ==
  /\ Statements /\ Top.kind \in Inner
  /\ signal' = "jump"
  /\ UNCHANGED <<program, stack, scopes, diagnostics, modules>>

\* The diagnostics after the finally clauses of a construct.
Restored(frame) ==
  LET mine == diagnostics[Owner(frame.owner)] IN
  [diagnostics EXCEPT ![Owner(frame.owner)] =
     CASE frame.kind = "handler" -> [mine EXCEPT !.handled = Front(@)]
       [] frame.kind = "eval" -> [mine EXCEPT !.boundaries = Front(@), !.evals = @ - 1]
       [] frame.kind = "execute" -> [mine EXCEPT !.executes = @ - 1]
       [] frame.crossing -> NoDiagnostics
       [] OTHER -> mine]

\* Mutant: a fragment that fails leaves its scope behind.
RestoreScopesOnSuccess(frame) ==
  /\ locals' = IF frame.kind = "routine" \/ (frame.kind = "execute" /\ signal = "none")
               THEN [locals EXCEPT ![frame.owner] = frame.saved] ELSE locals
  /\ sides' = IF frame.kind = "routine" THEN Front(sides) ELSE sides
  /\ contexts' = IF frame.kind = "routine" THEN Front(contexts) ELSE contexts

RestoreScopes(frame) ==
  /\ locals' = IF frame.kind \in {"routine", "execute"}
               THEN [locals EXCEPT ![frame.owner] = frame.saved] ELSE locals
  /\ sides' = IF frame.kind = "routine" THEN Front(sides) ELSE sides
  /\ contexts' = IF frame.kind = "routine" THEN Front(contexts) ELSE contexts

RestoreLoading(frame) ==
  loading' = IF frame.kind = "module" /\ program[frame.owner] # <<>>
             THEN Front(loading) ELSE loading

\* The construct on top is left, with all its finally clauses.
Leave ==
  /\ stack' = Front(stack)
  /\ RestoreScopes(Top) /\ RestoreLoading(Top)
  /\ diagnostics' = Restored(Top)
  /\ UNCHANGED <<program, imported>>

\* Its code ends.  A module becomes available; a server call may still fail, as
\* it copies its results back.
Finish ==
  /\ Executing /\ Top.begun
  /\ Leave
  /\ cache' = IF Top.kind = "module" /\ Top.owner # Main THEN cache \cup {Top.owner} ELSE cache
  /\ signal' = "none" \/ (Top.crossing /\ Fails)

\* A handler takes an error: the errors of the handlers around it are gone.
Handle ==
  /\ signal \in Errors /\ stack # <<>> /\ Top.kind = "try"
  /\ LET mine(f) == f.kind = "handler" /\ Owner(f.owner) = Owner(Top.owner) IN
     stack' = Append([i \in 1..Len(stack) - 1 |->
                        [stack[i] EXCEPT !.nested = @ \/ mine(stack[i])]],
                     [Frame("handler", Top.owner) EXCEPT !.error = signal])
  /\ SetDiagnostics([OfTop EXCEPT !.handled = Append([i \in DOMAIN @ |-> "none"], signal)])
  /\ signal' = "none"
  /\ UNCHANGED <<program, scopes, modules>>

Unwind ==
  /\ signal # "none" /\ stack # <<>>
  /\ ~(signal \in Errors /\ Top.kind = "try")
  /\ Leave
  /\ UNCHANGED cache
  /\ CASE signal = "return" /\ Top.kind = "routine" ->
            signal' = "none" \/ (Top.crossing /\ Fails)
       [] signal = "jump" ->
            signal' = "none" \/ (Last(stack').kind \in Inner /\ signal' = "jump")
       [] OTHER -> signal' = IF Len(stack) = 1 THEN "none" ELSE signal

CodeNext ==
  \/ Execute \/ Import \/ BeginBody
  \/ \E m \in Interpreters, routine \in Routines : Call(m, routine)
  \/ Try \/ Evaluate \/ ExecuteFragment
  \/ Raise \/ Reraise \/ Return \/ Jump
  \/ Finish \/ Handle \/ Unwind

CodeSpec == CodeInit /\ [][CodeNext]_codeVars

-----------------------------------------------------------------------------
(* Properties.                                                              *)

Innermost(S) == IF S = {} THEN 0 ELSE CHOOSE i \in S : \A j \in S : j <= i

\* The constructs being executed of one kind, of one diagnostic owner; those whose
\* scope names resolve in; and the number of an element, outermost first.
Routined == {i \in DOMAIN stack : stack[i].kind = "routine"}
Active(kind, d) == {i \in DOMAIN stack : stack[i].kind = kind /\ Owner(stack[i].owner) = d}
Opens(f, i) == f.owner = i /\ (f.kind = "execute" \/ (f.kind = "routine" /\ f.begun))
Rank(S, i) == Cardinality({j \in S : j <= i})

\* However calls, fragments, loads, errors and jumps were nested, names resolve
\* in the scope of the innermost construct of that interpreter, the code runs
\* on the side and with the module context of the innermost routine, and inside
\* server or contextless code these never widen again.
ScopesMatchFrames ==
  /\ \A i \in Interpreters : locals[i] = Innermost({j \in DOMAIN stack : Opens(stack[j], i)})
  /\ Len(sides) = 1 + Cardinality(Routined) /\ Len(contexts) = Len(sides)
  /\ Head(sides) = "client" /\ Head(contexts)
  /\ \A i \in Routined : /\ sides[1 + Rank(Routined, i)] = stack[i].side
                         /\ contexts[1 + Rank(Routined, i)] = stack[i].context
  /\ \A n \in 2..Len(sides) :
       /\ sides[n - 1] = "server" => sides[n] = "server"
       /\ contexts[n] => contexts[n - 1]

\* ErrorInfo() as the code computes it.
ErrorInfo(d) ==
  LET mine == diagnostics[d]
      boundary == IF mine.boundaries = <<>> THEN 0 ELSE Last(mine.boundaries)
  IN IF Len(mine.handled) <= boundary THEN "none" ELSE Last(mine.handled)

\* ErrorInfo() is the error of the handler being executed: not one of a handler
\* outside the running Eval, not one that a nested handler has discarded, and
\* nothing once the handler was left; depth counters return to where they were.
DiagnosticsMatchFrames ==
  \A d \in {"client", "server"} :
    LET handler == Innermost(Active("handler", d))
        eval == Innermost(Active("eval", d))
    IN
    /\ ErrorInfo(d) = IF handler = 0 \/ handler < eval \/ stack[handler].nested
                      THEN "none" ELSE stack[handler].error
    /\ diagnostics[d].evals = Cardinality(Active("eval", d))
    /\ diagnostics[d].executes = Cardinality(Active("execute", d))
    /\ Len(diagnostics[d].handled) = Cardinality(Active("handler", d))

\* Whatever was interrupted, the interpreter is where its constructs say it is:
\* an exception leaves no scope, side, context or error of dead code behind.
StateMatchesFrames == ScopesMatchFrames /\ DiagnosticsMatchFrames

\* A module is initialised once, never inside itself, and is available only
\* when it and everything it imports is; a load that failed publishes no name,
\* and a module of an import cycle never becomes available.
ImportsAreWhole ==
  /\ \A m \in Modules :
       /\ imported[m] \subseteq cache
       /\ imported[m] \in {{}, ToSet(program[m])}
       /\ m \in cache => imported[m] = ToSet(program[m])
  /\ \A i, j \in DOMAIN stack :
       stack[i].kind = "module" /\ stack[j].kind = "module" /\ i # j
         => stack[i].owner # stack[j].owner
  /\ \A i \in DOMAIN stack : stack[i].kind = "module" => stack[i].owner \notin cache
=============================================================================
