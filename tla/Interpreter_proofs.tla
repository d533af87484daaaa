-------------------------- MODULE Interpreter_proofs ---------------------------
(***************************************************************************)
(* Proofs about Interpreter for any modules, programs, errors and bounds.   *)
(*                                                                         *)
(* What the code keeps in one field or list (the scope of an interpreter,   *)
(* the sides, the handled errors, the boundaries, the paths under load) is  *)
(* what the constructs on the stack say it should be, each construct having *)
(* saved what was so below it.                                             *)
(***************************************************************************)
EXTENDS Interpreter, SequenceTheorems, FiniteSetTheorems, WellFoundedInduction, TLAPS

USE InterpreterAssumption

-----------------------------------------------------------------------------
(* The invariant. *)

Kinds == {"module", "routine", "try", "handler", "eval", "execute"}
Sides == {"client", "server"}
Shown == Errors \cup {"none"}
Construct ==
    [kind : Kinds, owner : Interpreters, saved : Nat, todo : Seq(Modules), error : Shown,
     nested : BOOLEAN, side : Sides, context : BOOLEAN, crossing : BOOLEAN, begun : BOOLEAN]
Handling == [handled : Seq(Shown), boundaries : Seq(Nat), evals : Nat, executes : Nat]

ControlTyped ==
    /\ program \in [Modules -> Seq(Modules)]
    /\ stack \in Seq(Construct)
    /\ locals \in [Interpreters -> Nat]
    /\ sides \in Seq(Sides) /\ contexts \in Seq(BOOLEAN)
    /\ diagnostics \in [Sides -> Handling]
    /\ loading \in Seq(Modules) /\ cache \in SUBSET Modules
    /\ imported \in [Modules -> SUBSET Modules]

(* Only a routine crosses to the server, over no other construct of it, and *)
(* the server's constructs run on the server's side.                       *)
ServerSound ==
    \A p \in 1 .. Len(stack) :
        /\ stack[p].crossing => /\ stack[p].kind = "routine" /\ stack[p].owner = "server"
                                /\ \A q \in 1 .. p - 1 : stack[q].owner # "server"
        /\ ~stack[p].begun => stack[p].crossing
        /\ stack[p].owner = "server" => sides[1 + Rank(Routined, p)] = "server"

(* A scope is where the innermost construct put it, and each construct has   *)
(* saved where it was below.                                                *)
OpenBelow(s, i, n) == {j \in 1 .. n : Opens(s[j], i)}
ScopesSaved ==
    /\ \A i \in Interpreters : locals[i] = Innermost(OpenBelow(stack, i, Len(stack)))
    /\ \A p \in 1 .. Len(stack) :
          stack[p].kind \in {"routine", "execute"} =>
              stack[p].saved = Innermost(OpenBelow(stack, stack[p].owner, p - 1))

(* The list x holds, behind its first o elements, value[p] for each p in S. *)
Traces(x, o, S, value) ==
    /\ Len(x) = o + Cardinality(S)
    /\ \A p \in S : x[o + Rank(S, p)] = value[p]

SideOf == [p \in 1 .. Len(stack) |-> stack[p].side]
ContextOf == [p \in 1 .. Len(stack) |-> stack[p].context]
SidesTraced ==
    /\ sides # <<>> /\ sides[1] = "client" /\ Traces(sides, 1, Routined, SideOf)
    /\ contexts # <<>> /\ contexts[1] /\ Traces(contexts, 1, Routined, ContextOf)
    /\ \A m, n \in 1 .. Len(sides) : m <= n /\ sides[m] = "server" => sides[n] = "server"
    /\ \A m, n \in 1 .. Len(contexts) : m <= n /\ contexts[n] => contexts[m]

ErrorOf == [p \in 1 .. Len(stack) |-> IF stack[p].nested THEN "none" ELSE stack[p].error]
BoundaryOf(d) == [p \in 1 .. Len(stack) |-> Rank(Active("handler", d), p)]
DiagnosticsTraced ==
    \A d \in Sides :
        /\ Traces(diagnostics[d].handled, 0, Active("handler", d), ErrorOf)
        /\ Traces(diagnostics[d].boundaries, 0, Active("eval", d), BoundaryOf(d))
        /\ diagnostics[d].evals = Cardinality(Active("eval", d))
        /\ diagnostics[d].executes = Cardinality(Active("execute", d))

(* Modules are loaded before anything else runs, each by the one below it;   *)
(* what a module's import has dealt with is available.                      *)
LoadsAreNested ==
    \A p \in 1 .. Len(stack) : stack[p].kind = "module" =>
        /\ stack[p].owner \in Modules \ cache
        /\ ToSet(stack[p].todo) \subseteq ToSet(program[stack[p].owner])
        /\ ToSet(program[stack[p].owner]) \ ToSet(stack[p].todo) \subseteq cache
        /\ stack[p].todo = <<>> =>
              imported[stack[p].owner] = ToSet(program[stack[p].owner])
        /\ \A q \in 1 .. p - 1 : /\ stack[q].kind = "module" /\ stack[q].todo # <<>>
                                 /\ stack[q].owner # stack[p].owner

Loads(f) == f.kind = "module" /\ program[f.owner] # <<>>
LoadingIsExact ==
    /\ Len(loading) <= Len(stack)
    /\ \A p \in 1 .. Len(stack) : p <= Len(loading) <=> Loads(stack[p])
    /\ \A p \in 1 .. Len(loading) : loading[p] = stack[p].owner

NamesArePublished ==
    /\ Main \notin cache
    /\ \A m \in Modules :
          /\ imported[m] \subseteq cache
          /\ imported[m] \in {{}, ToSet(program[m])}
          /\ m \in cache => imported[m] = ToSet(program[m])

InterpreterInv ==
    /\ ControlTyped /\ ServerSound /\ ScopesSaved /\ SidesTraced /\ DiagnosticsTraced
    /\ LoadsAreNested /\ LoadingIsExact /\ NamesArePublished

-----------------------------------------------------------------------------
(* Sets of places in the stack, and what is innermost in them.              *)

(* A nonempty set of places has a greatest one. *)
LEMMA GreatestPlace ==
    ASSUME NEW n \in Nat, NEW S \in SUBSET (1 .. n), S # {}
    PROVE  \E m \in S : \A x \in S : x <= m
<1> DEFINE Gaps == {k \in Nat : \E x \in S : k = n - x}
<1>1. PICK x \in S : TRUE
  OBVIOUS
<1>2. n - x \in Gaps
  BY <1>1
<1>3. PICK k \in Gaps : \A y \in Gaps : ~ (<<y, k>> \in OpToRel(<, Nat))
  BY <1>2, NatLessThanWellFounded, WFMin, Zenon
<1>4. \A y \in Gaps : ~ (y < k)
  BY <1>3 DEF OpToRel
<1>5. PICK m \in S : k = n - m
  BY <1>3
<1>6. ASSUME NEW y \in S PROVE y <= m
  <2>1. n - y \in Gaps
    OBVIOUS
  <2>2. ~ (n - y < n - m)
    BY <2>1, <1>4, <1>5
  <2> QED BY <2>2
<1> QED
  BY <1>5, <1>6

(* The innermost of no places is 0, else the greatest of them. *)
LEMMA InnermostOf ==
    ASSUME NEW n \in Nat, NEW S \in SUBSET (1 .. n)
    PROVE  /\ S = {} => Innermost(S) = 0
           /\ S # {} => Innermost(S) \in S /\ \A x \in S : x <= Innermost(S)
<1>1. CASE S = {}
  BY <1>1 DEF Innermost
<1>2. CASE S # {}
  <2>1. \E m \in S : \A x \in S : x <= m
    BY <1>2, GreatestPlace
  <2> QED BY <1>2, <2>1 DEF Innermost
<1> QED BY <1>1, <1>2

(* The last place is the innermost of any set that has it. *)
LEMMA InnermostIsLast ==
    ASSUME NEW n \in Nat, NEW S \in SUBSET (1 .. n), n \in S
    PROVE  Innermost(S) = n
<1>1. Innermost(S) \in S /\ n <= Innermost(S)
  BY InnermostOf
<1>2. Innermost(S) \in 1 .. n
  BY <1>1
<1> QED BY <1>1, <1>2

(* A rank lies between 1 and the number of places, which the last one has. *)
LEMMA RankBounds ==
    ASSUME NEW n \in Nat, NEW S \in SUBSET (1 .. n), NEW p
    PROVE  /\ IsFiniteSet(S) /\ Cardinality(S) \in Nat
           /\ Rank(S, p) \in 0 .. Cardinality(S)
           /\ p \in S => Rank(S, p) >= 1
           /\ (\A x \in S : x <= p) => Rank(S, p) = Cardinality(S)
           /\ Rank(S, p) = Cardinality(S) => \A x \in S : x <= p
<1> DEFINE T == {j \in S : j <= p}
<1>1. IsFiniteSet(1 .. n)
  BY FS_Interval
<1>2. IsFiniteSet(S) /\ Cardinality(S) \in Nat
  BY <1>1, FS_Subset, FS_CardinalityType
<1>3. T \in SUBSET S
  OBVIOUS
<1>4. /\ IsFiniteSet(T) /\ Cardinality(T) \in Nat /\ Cardinality(T) <= Cardinality(S)
      /\ Cardinality(S) = Cardinality(T) => S = T
  <2> HIDE DEF T
  <2> QED BY <1>2, <1>3, FS_Subset, FS_CardinalityType
<1>5. Rank(S, p) = Cardinality(T)
  BY DEF Rank
<1>6. ASSUME p \in S PROVE Cardinality(T) # 0
  <2>1. p \in T
    BY <1>6
  <2>2. T # {}
    BY <2>1
  <2> HIDE DEF T
  <2> QED BY <2>2, <1>4, FS_EmptySet
<1>7. (\A x \in S : x <= p) => T = S
  OBVIOUS
<1>8. T = S => \A x \in S : x <= p
  <2>1. \A x \in T : x <= p
    OBVIOUS
  <2> HIDE DEF T
  <2> QED BY <2>1
<1> HIDE DEF T
<1> QED BY <1>2, <1>4, <1>5, <1>6, <1>7, <1>8

(* A new place at the end has the greatest rank, and leaves the others. *)
LEMMA RankPush ==
    ASSUME NEW n \in Nat, NEW S \in SUBSET (1 .. n)
    PROVE  /\ S \cup {n + 1} \in SUBSET (1 .. n + 1)
           /\ Cardinality(S \cup {n + 1}) = Cardinality(S) + 1
           /\ Rank(S \cup {n + 1}, n + 1) = Cardinality(S) + 1
           /\ \A p \in 1 .. n : Rank(S \cup {n + 1}, p) = Rank(S, p)
<1>1. S \cup {n + 1} \in SUBSET (1 .. n + 1) /\ n + 1 \notin S
  OBVIOUS
<1>2. Cardinality(S \cup {n + 1}) = Cardinality(S) + 1
  BY <1>1, RankBounds, FS_AddElement
<1>3. Rank(S \cup {n + 1}, n + 1) = Cardinality(S \cup {n + 1})
  <2>0. \A j \in S \cup {n + 1} : j <= n + 1
    OBVIOUS
  <2>1. {j \in S \cup {n + 1} : j <= n + 1} = S \cup {n + 1}
    BY <2>0
  <2> QED BY <2>1 DEF Rank
<1>4. ASSUME NEW p \in 1 .. n PROVE Rank(S \cup {n + 1}, p) = Rank(S, p)
  <2>1. {j \in S \cup {n + 1} : j <= p} = {j \in S : j <= p}
    OBVIOUS
  <2> QED BY <2>1 DEF Rank
<1> QED BY <1>1, <1>2, <1>3, <1>4

(* Without the last place the other ranks stay. *)
LEMMA RankPop ==
    ASSUME NEW n \in Nat, NEW S \in SUBSET (1 .. n + 1)
    PROVE  /\ S \ {n + 1} \in SUBSET (1 .. n)
           /\ n + 1 \notin S => S \ {n + 1} = S
           /\ n + 1 \in S => /\ Cardinality(S) = Cardinality(S \ {n + 1}) + 1
                             /\ Rank(S, n + 1) = Cardinality(S)
           /\ \A p \in 1 .. n : Rank(S \ {n + 1}, p) = Rank(S, p)
<1>1. S \ {n + 1} \in SUBSET (1 .. n)
  OBVIOUS
<1>2. CASE n + 1 \in S
  <2>1. S = (S \ {n + 1}) \cup {n + 1}
    BY <1>2
  <2> DEFINE T == S \ {n + 1}
  <2>2. T \in SUBSET (1 .. n) /\ S = T \cup {n + 1}
    BY <1>1, <2>1
  <2> HIDE DEF T
  <2>3. /\ Cardinality(S) = Cardinality(T) + 1 /\ Rank(S, n + 1) = Cardinality(T) + 1
        /\ \A p \in 1 .. n : Rank(S, p) = Rank(T, p)
    BY <2>2, RankPush
  <2> QED BY <1>1, <1>2, <2>3 DEF T
<1>3. CASE n + 1 \notin S
  <2>1. S \ {n + 1} = S
    BY <1>3
  <2> QED BY <1>1, <1>3, <2>1
<1> QED BY <1>2, <1>3

-----------------------------------------------------------------------------
(* Lists that trace the constructs.                                         *)

(* A list that gets an entry traces the set that gets the last place. *)
LEMMA TracesPush ==
    ASSUME NEW n \in Nat, NEW S \in SUBSET (1 .. n), NEW o \in Nat,
           NEW T, NEW x \in Seq(T), NEW e \in T, NEW value, NEW new,
           Traces(x, o, S, value),
           \A p \in S : new[p] = value[p], new[n + 1] = e
    PROVE  Traces(Append(x, e), o, S \cup {n + 1}, new)
<1>1. /\ Cardinality(S \cup {n + 1}) = Cardinality(S) + 1
      /\ Rank(S \cup {n + 1}, n + 1) = Cardinality(S) + 1
      /\ \A p \in 1 .. n : Rank(S \cup {n + 1}, p) = Rank(S, p)
      /\ Cardinality(S) \in Nat
      /\ \A p \in S : Rank(S, p) \in 1 .. Cardinality(S)
  <2>1. Cardinality(S) \in Nat /\ \A p \in S : Rank(S, p) \in 0 .. Cardinality(S)
    BY RankBounds
  <2>2. \A p \in S : Rank(S, p) >= 1
    BY RankBounds
  <2>3. \A p \in S : Rank(S, p) \in 1 .. Cardinality(S)
    BY <2>1, <2>2
  <2> QED BY RankPush, <2>1, <2>3
<1>2. /\ Len(Append(x, e)) = Len(x) + 1 /\ Append(x, e)[Len(x) + 1] = e
      /\ \A i \in 1 .. Len(x) : Append(x, e)[i] = x[i]
      /\ Len(x) = o + Cardinality(S)
  BY DEF Traces
<1>3. Len(Append(x, e)) = o + Cardinality(S \cup {n + 1})
  BY <1>1, <1>2
<1>4. Append(x, e)[o + Rank(S \cup {n + 1}, n + 1)] = new[n + 1]
  <2>1. o + Rank(S \cup {n + 1}, n + 1) = Len(x) + 1
    BY <1>1, <1>2
  <2> QED BY <1>2, <2>1
<1>5. ASSUME NEW p \in S PROVE Append(x, e)[o + Rank(S \cup {n + 1}, p)] = new[p]
  <2>1. p \in 1 .. n /\ Rank(S, p) \in 1 .. Cardinality(S)
    BY <1>1
  <2>2. Rank(S \cup {n + 1}, p) = Rank(S, p)
    BY <1>1, <2>1
  <2>3. o + Rank(S, p) \in 1 .. Len(x)
    BY <1>1, <1>2, <2>1
  <2> QED BY <1>2, <2>2, <2>3 DEF Traces
<1> QED BY <1>3, <1>4, <1>5 DEF Traces

(* A list without its last entry. *)
LEMMA FrontOf ==
    ASSUME NEW T, NEW x \in Seq(T), NEW k \in Nat, Len(x) = k + 1
    PROVE  /\ Front(x) \in Seq(T) /\ Len(Front(x)) = k
           /\ \A i \in 1 .. k : Front(x)[i] = x[i]
<1>1. Front(x) = SubSeq(x, 1, k)
  BY DEF Front
<1>2. k <= Len(x) /\ \A i \in 1 .. k : x[i] \in T
  BY ElementOfSeq
<1>3. /\ SubSeq(x, 1, k) \in Seq(T)
      /\ Len(SubSeq(x, 1, k)) = IF 1 <= k THEN k - 1 + 1 ELSE 0
      /\ \A i \in 1 .. k - 1 + 1 : SubSeq(x, 1, k)[i] = x[1 + i - 1]
  BY <1>2, SubSeqProperties
<1>4. \A i \in 1 .. k : i \in 1 .. k - 1 + 1 /\ 1 + i - 1 = i
  OBVIOUS
<1> QED BY <1>1, <1>3, <1>4

(* A list that loses its last entry traces the set that loses the last place. *)
LEMMA TracesPop ==
    ASSUME NEW n \in Nat, NEW S \in SUBSET (1 .. n + 1), n + 1 \in S, NEW o \in Nat,
           NEW T, NEW x \in Seq(T), NEW value, NEW new,
           Traces(x, o, S, value),
           \A p \in S \ {n + 1} : new[p] = value[p]
    PROVE  /\ Traces(Front(x), o, S \ {n + 1}, new)
           /\ Front(x) \in Seq(T) /\ Len(Front(x)) = Len(x) - 1 /\ Len(x) > o
           /\ \A i \in 1 .. Len(x) - 1 : Front(x)[i] = x[i]
           /\ x[Len(x)] = value[n + 1]
<1> DEFINE U == S \ {n + 1}
<1>1. /\ U \in SUBSET (1 .. n)
      /\ Cardinality(S) = Cardinality(U) + 1 /\ Rank(S, n + 1) = Cardinality(S)
      /\ \A p \in 1 .. n : Rank(U, p) = Rank(S, p)
  BY RankPop
<1> HIDE DEF U
<1>2. Cardinality(U) \in Nat /\ \A p \in U : Rank(U, p) \in 1 .. Cardinality(U)
  <2>1. Cardinality(U) \in Nat /\ \A p \in U : Rank(U, p) \in 0 .. Cardinality(U)
    BY <1>1, RankBounds
  <2>2. \A p \in U : Rank(U, p) >= 1
    BY <1>1, RankBounds
  <2> QED BY <2>1, <2>2
<1>3. Len(x) = o + Cardinality(U) + 1
  <2>1. Len(x) = o + Cardinality(S)
    BY DEF Traces
  <2> QED BY <1>1, <1>2, <2>1
<1>4. /\ Front(x) \in Seq(T) /\ Len(Front(x)) = Len(x) - 1
      /\ \A i \in 1 .. Len(x) - 1 : Front(x)[i] = x[i]
  <2>1. PICK k \in Nat : k = o + Cardinality(U)
    BY <1>2
  <2>2. Len(x) = k + 1 /\ Len(x) - 1 = k
    BY <1>3, <2>1
  <2> QED BY <2>2, FrontOf
<1>5. Len(Front(x)) = o + Cardinality(U)
  BY <1>2, <1>3, <1>4
<1>6. ASSUME NEW p \in U PROVE Front(x)[o + Rank(U, p)] = new[p]
  <2>1. o + Rank(U, p) \in 1 .. Len(x) - 1 /\ Rank(U, p) = Rank(S, p)
    BY <1>1, <1>2, <1>3
  <2>2. p \in S /\ new[p] = value[p]
    BY DEF U
  <2> QED BY <1>4, <2>1, <2>2 DEF Traces
<1>7. x[Len(x)] = value[n + 1]
  <2>1. o + Rank(S, n + 1) = Len(x)
    BY <1>1, <1>2, <1>3
  <2> QED BY <2>1 DEF Traces
<1>8. Traces(Front(x), o, U, new)
  BY <1>5, <1>6 DEF Traces
<1>9. Len(x) > o
  BY <1>2, <1>3
<1> QED
  BY <1>4, <1>7, <1>8, <1>9 DEF U

(* A list traces any values that agree on the places of the set. *)
LEMMA TracesKeep ==
    ASSUME NEW x, NEW o, NEW S, NEW value, NEW new, Traces(x, o, S, value),
           \A p \in S : new[p] = value[p]
    PROVE  Traces(x, o, S, new)
BY DEF Traces

-----------------------------------------------------------------------------
(* How the stack moves.                                                     *)

(* What the type of the stack says of its constructs. *)
LEMMA StackFacts ==
    ASSUME ControlTyped
    PROVE  /\ Len(stack) \in Nat /\ DOMAIN stack = 1 .. Len(stack)
           /\ \A p \in 1 .. Len(stack) : stack[p] \in Construct
           /\ stack # <<>> => /\ Top = stack[Len(stack)] /\ Len(stack) \in 1 .. Len(stack)
                              /\ Top \in Construct
           /\ Routined = {j \in 1 .. Len(stack) : stack[j].kind = "routine"}
           /\ \A k, d : Active(k, d) = {j \in 1 .. Len(stack) :
                                         stack[j].kind = k /\ Owner(stack[j].owner) = d}
<1>1. stack \in Seq(Construct) /\ Len(stack) \in Nat /\ DOMAIN stack = 1 .. Len(stack)
  BY DEF ControlTyped
<1>2. \A p \in 1 .. Len(stack) : stack[p] \in Construct
  BY <1>1, ElementOfSeq
<1>3. stack # <<>> => Len(stack) \in 1 .. Len(stack)
  BY <1>1, EmptySeq
<1> QED BY <1>1, <1>2, <1>3 DEF Top, Last, Routined, Active

(* A stack that is not empty has its top at its last place. *)
LEMMA StackHasTop ==
    ASSUME ControlTyped, stack # <<>>
    PROVE  \E n \in Nat : Len(stack) = n + 1 /\ Top = stack[n + 1]
<1>1. Len(stack) \in Nat \ {0} /\ Top = stack[Len(stack)]
  BY StackFacts
<1>2. Len(stack) - 1 \in Nat /\ Len(stack) = (Len(stack) - 1) + 1
  BY <1>1
<1> QED BY <1>1, <1>2

(* What a step does to the constructs below, by number. *)
Below(n) == /\ stack' \in Seq(Construct)
            /\ \A p \in 1 .. n : /\ stack[p] \in Construct /\ stack'[p] = stack[p]
                                 /\ p \in 1 .. Len(stack) /\ p \in 1 .. Len(stack')
Pushes(f, n) ==
    /\ Len(stack) = n /\ Len(stack') = n + 1 /\ stack'[n + 1] = f /\ f \in Construct
    /\ Below(n)
    /\ Routined \in SUBSET (1 .. n)
    /\ Routined' = IF f.kind = "routine" THEN Routined \cup {n + 1} ELSE Routined
    /\ \A k, d : /\ Active(k, d) \in SUBSET (1 .. n)
                 /\ Active(k, d)' = IF f.kind = k /\ Owner(f.owner) = d
                                    THEN Active(k, d) \cup {n + 1} ELSE Active(k, d)
    /\ \A i : \A p \in 0 .. n : OpenBelow(stack', i, p) = OpenBelow(stack, i, p)
    /\ \A i : OpenBelow(stack', i, n + 1) =
                  IF Opens(f, i) THEN OpenBelow(stack, i, n) \cup {n + 1}
                  ELSE OpenBelow(stack, i, n)

(* Enter puts a construct on the stack, above all the others. *)
LEMMA Pushing ==
    ASSUME ControlTyped, NEW f \in Construct, Enter(f), NEW n \in Nat, n = Len(stack)
    PROVE  Pushes(f, n)
<1>1. n \in Nat /\ n = Len(stack)
  OBVIOUS
<1>2. /\ stack' \in Seq(Construct) /\ Len(stack') = n + 1 /\ stack'[n + 1] = f
      /\ \A p \in 1 .. n : stack'[p] = stack[p] /\ stack[p] \in Construct
  BY <1>1, StackFacts DEF ControlTyped, Enter
<1>3. Below(n)
  BY <1>1, <1>2 DEF Below
<1>4. DOMAIN stack' = 1 .. n + 1 /\ DOMAIN stack = 1 .. n
  BY <1>1, <1>2, StackFacts
<1>5. \A j : j \in 1 .. n + 1 <=> j \in 1 .. n \/ j = n + 1
  BY <1>1
<1>6. \A j \in 1 .. n : j # n + 1
  OBVIOUS
<1>7. /\ Routined \in SUBSET (1 .. n)
      /\ Routined' = IF f.kind = "routine" THEN Routined \cup {n + 1} ELSE Routined
  BY <1>2, <1>4, <1>5, <1>6 DEF Routined
<1>8. ASSUME NEW k, NEW d
      PROVE  /\ Active(k, d) \in SUBSET (1 .. n)
             /\ Active(k, d)' = IF f.kind = k /\ Owner(f.owner) = d
                                THEN Active(k, d) \cup {n + 1} ELSE Active(k, d)
  BY <1>2, <1>4, <1>5, <1>6 DEF Active
<1>9. ASSUME NEW i, NEW p \in 0 .. n PROVE OpenBelow(stack', i, p) = OpenBelow(stack, i, p)
  <2>1. \A j \in 1 .. p : j \in 1 .. n
    BY <1>1
  <2> QED BY <1>2, <2>1 DEF OpenBelow, Opens
<1>10. ASSUME NEW i
       PROVE  OpenBelow(stack', i, n + 1) =
                  IF Opens(f, i) THEN OpenBelow(stack, i, n) \cup {n + 1}
                  ELSE OpenBelow(stack, i, n)
  BY <1>2, <1>5, <1>6 DEF OpenBelow, Opens
<1> QED BY <1>1, <1>2, <1>3, <1>7, <1>8, <1>9, <1>10 DEF Pushes

Pops(n) ==
    /\ Len(stack) = n + 1 /\ Len(stack') = n /\ Top = stack[n + 1]
    /\ Top \in Construct
    /\ Below(n)
    /\ Routined \in SUBSET (1 .. n + 1)
    /\ Routined' = Routined \ {n + 1} /\ (n + 1 \in Routined <=> Top.kind = "routine")
    /\ \A k, d : /\ Active(k, d) \in SUBSET (1 .. n + 1)
                 /\ Active(k, d)' = Active(k, d) \ {n + 1}
                 /\ n + 1 \in Active(k, d) <=> Top.kind = k /\ Owner(Top.owner) = d
    /\ \A i : \A p \in 0 .. n : OpenBelow(stack', i, p) = OpenBelow(stack, i, p)
    /\ \A i : OpenBelow(stack, i, n + 1) =
                  IF Opens(Top, i) THEN OpenBelow(stack, i, n) \cup {n + 1}
                  ELSE OpenBelow(stack, i, n)

(* The construct on top is taken off, the others stay. *)
LEMMA Popping ==
    ASSUME ControlTyped, stack' = Front(stack), NEW n \in Nat, Len(stack) = n + 1
    PROVE  Pops(n)
<1>1. n + 1 = Len(stack) /\ n = Len(stack) - 1 /\ n + 1 >= 1 /\ stack # <<>>
  BY StackFacts, EmptySeq
<1>2. /\ stack' \in Seq(Construct) /\ Len(stack') = n /\ Top = stack[n + 1] /\ Top \in Construct
      /\ \A p \in 1 .. n : stack'[p] = stack[p] /\ stack[p] \in Construct
  <2>1. stack' = SubSeq(stack, 1, n)
    BY <1>1 DEF Front
  <2>2. \A p \in 1 .. n : stack[p] \in Construct
    BY <1>1, StackFacts
  <2>3. /\ SubSeq(stack, 1, n) \in Seq(Construct)
        /\ Len(SubSeq(stack, 1, n)) = IF 1 <= n THEN n - 1 + 1 ELSE 0
        /\ \A p \in 1 .. n - 1 + 1 : SubSeq(stack, 1, n)[p] = stack[1 + p - 1]
    BY <2>2, SubSeqProperties
  <2>4. \A p \in 1 .. n : p \in 1 .. n - 1 + 1 /\ 1 + p - 1 = p
    OBVIOUS
  <2>5. Top = stack[n + 1] /\ Top \in Construct
    BY <1>1, StackFacts, Zenon
  <2> QED BY <2>1, <2>2, <2>3, <2>4, <2>5
<1>3. Below(n)
  BY <1>1, <1>2 DEF Below
<1>4. DOMAIN stack' = 1 .. n /\ DOMAIN stack = 1 .. n + 1
  BY <1>1, <1>2, StackFacts
<1>5. \A j : j \in 1 .. n + 1 <=> j \in 1 .. n \/ j = n + 1
  BY <1>1
<1>6. \A j \in 1 .. n : j # n + 1
  OBVIOUS
<1>7. /\ Routined \in SUBSET (1 .. n + 1)
      /\ Routined' = Routined \ {n + 1} /\ (n + 1 \in Routined <=> Top.kind = "routine")
  BY <1>2, <1>4, <1>5, <1>6 DEF Routined
<1>8. ASSUME NEW k, NEW d
      PROVE  /\ Active(k, d) \in SUBSET (1 .. n + 1)
             /\ Active(k, d)' = Active(k, d) \ {n + 1}
             /\ n + 1 \in Active(k, d) <=> Top.kind = k /\ Owner(Top.owner) = d
  BY <1>2, <1>4, <1>5, <1>6 DEF Active
<1>9. ASSUME NEW i, NEW p \in 0 .. n PROVE OpenBelow(stack', i, p) = OpenBelow(stack, i, p)
  <2>1. \A j \in 1 .. p : j \in 1 .. n
    BY <1>1
  <2> QED BY <1>2, <2>1 DEF OpenBelow, Opens
<1>10. ASSUME NEW i
       PROVE  OpenBelow(stack, i, n + 1) =
                  IF Opens(Top, i) THEN OpenBelow(stack, i, n) \cup {n + 1}
                  ELSE OpenBelow(stack, i, n)
  BY <1>2, <1>5, <1>6 DEF OpenBelow, Opens
<1> QED BY <1>1, <1>2, <1>3, <1>7, <1>8, <1>9, <1>10 DEF Pops

-----------------------------------------------------------------------------
(* A construct is entered.                                                  *)

(* A construct as Frame makes it. *)
LEMMA FrameTyped ==
    ASSUME NEW k \in Kinds, NEW o \in Interpreters
    PROVE  /\ Frame(k, o) \in Construct
           /\ Frame(k, o).kind = k /\ Frame(k, o).owner = o /\ Frame(k, o).begun
           /\ ~Frame(k, o).crossing
BY DEF Frame, Construct, Shown, Sides

(* The constructs that open a scope are places below. *)
LEMMA OpenBelowPlaces ==
    ASSUME NEW s, NEW i, NEW n \in Nat
    PROVE  OpenBelow(s, i, n) \in SUBSET (1 .. n)
BY DEF OpenBelow

(* A construct that is entered finds, and saves, the scope of the one below. *)
LEMMA ScopesPush ==
    ASSUME ControlTyped, ScopesSaved, NEW f \in Construct, NEW n \in Nat, Pushes(f, n),
           NEW scope,
           locals' = IF f.kind \in {"routine", "execute"}
                     THEN [locals EXCEPT ![f.owner] = scope] ELSE locals,
           f.kind \in {"routine", "execute"} =>
               /\ f.saved = locals[f.owner]
               /\ scope = IF f.begun THEN n + 1 ELSE locals[f.owner],
           f.kind = "execute" => f.begun
    PROVE  ScopesSaved' /\ locals' \in [Interpreters -> Nat]
<1>1. /\ locals \in [Interpreters -> Nat] /\ f.owner \in Interpreters
      /\ Len(stack) = n /\ Len(stack') = n + 1 /\ stack'[n + 1] = f
      /\ \A p \in 1 .. n : stack'[p] = stack[p]
      /\ \A i : \A p \in 0 .. n : OpenBelow(stack', i, p) = OpenBelow(stack, i, p)
      /\ \A i : OpenBelow(stack', i, n + 1) =
                  IF Opens(f, i) THEN OpenBelow(stack, i, n) \cup {n + 1}
                  ELSE OpenBelow(stack, i, n)
  BY DEF ControlTyped, Construct, Pushes, Below
<1>2. \A i : Opens(f, i) <=> f.kind \in {"routine", "execute"} /\ f.begun /\ f.owner = i
  BY DEF Opens
<1>3. ASSUME NEW i \in Interpreters PROVE locals'[i] = Innermost(OpenBelow(stack', i, n + 1))
  <2>1. locals[i] = Innermost(OpenBelow(stack, i, n))
    BY <1>1 DEF ScopesSaved
  <2>2. CASE Opens(f, i)
    <3>1. locals'[i] = n + 1
      BY <1>1, <1>2, <2>2
    <3>2. n + 1 \in OpenBelow(stack', i, n + 1)
      BY <1>1, <2>2
    <3>3. n + 1 \in Nat
      OBVIOUS
    <3>4. OpenBelow(stack', i, n + 1) \in SUBSET (1 .. n + 1)
      BY <3>3, OpenBelowPlaces
    <3> QED BY <3>1, <3>2, <3>3, <3>4, InnermostIsLast
  <2>3. CASE ~Opens(f, i)
    <3>1. locals'[i] = locals[i]
      BY <1>1, <1>2, <2>3
    <3> QED BY <1>1, <2>1, <2>3, <3>1
  <2> QED BY <2>2, <2>3
<1>4. ASSUME NEW p \in 1 .. n + 1, stack'[p].kind \in {"routine", "execute"}
      PROVE  stack'[p].saved = Innermost(OpenBelow(stack', stack'[p].owner, p - 1))
  <2>1. CASE p = n + 1
    <3>1. f.saved = Innermost(OpenBelow(stack, f.owner, n))
      BY <1>1, <1>4, <2>1 DEF ScopesSaved
    <3>2. OpenBelow(stack', f.owner, n) = OpenBelow(stack, f.owner, n) /\ p - 1 = n
      BY <1>1, <2>1
    <3> QED BY <1>1, <2>1, <3>1, <3>2
  <2>2. CASE p \in 1 .. n
    <3>1. p - 1 \in 0 .. n /\ stack'[p] = stack[p]
      BY <1>1, <2>2
    <3>2. stack[p].saved = Innermost(OpenBelow(stack, stack[p].owner, p - 1))
      BY <1>1, <1>4, <2>2, <3>1 DEF ScopesSaved
    <3>3. OpenBelow(stack', stack[p].owner, p - 1) = OpenBelow(stack, stack[p].owner, p - 1)
      BY <1>1, <3>1
    <3> QED BY <3>1, <3>2, <3>3
  <2> QED BY <2>1, <2>2
<1>5. locals' \in [Interpreters -> Nat]
  <2>1. f.kind \in {"routine", "execute"} => scope \in Nat
    BY <1>1
  <2> QED BY <1>1, <2>1
<1> QED
  <2>1. \A i \in Interpreters : locals'[i] = Innermost(OpenBelow(stack', i, Len(stack')))
    BY <1>1, <1>3
  <2>2. \A p \in 1 .. Len(stack') : stack'[p].kind \in {"routine", "execute"} =>
             stack'[p].saved = Innermost(OpenBelow(stack', stack'[p].owner, p - 1))
    BY <1>1, <1>4
  <2> QED BY <1>5, <2>1, <2>2 DEF ScopesSaved

(* The code runs where the last entry of the sides says. *)
LEMMA SidesNow ==
    ASSUME ControlTyped, SidesTraced
    PROVE  /\ Len(sides) \in Nat \ {0} /\ Len(contexts) \in Nat \ {0}
           /\ Last(sides) = sides[Len(sides)] /\ Last(contexts) = contexts[Len(contexts)]
           /\ \A m \in 1 .. Len(sides) : sides[m] \in Sides
           /\ \A m \in 1 .. Len(contexts) : contexts[m] \in BOOLEAN
           /\ Last(sides) = "client" =>
                 \A m \in 1 .. Len(sides) : sides[m] = "client"
<1>1. /\ sides \in Seq(Sides) /\ contexts \in Seq(BOOLEAN) /\ sides # <<>> /\ contexts # <<>>
  BY DEF ControlTyped, SidesTraced
<1>2. Len(sides) \in Nat \ {0} /\ Len(contexts) \in Nat \ {0}
  BY <1>1, EmptySeq
<1>3. /\ \A m \in 1 .. Len(sides) : sides[m] \in Sides
      /\ \A m \in 1 .. Len(contexts) : contexts[m] \in BOOLEAN
  BY <1>1, ElementOfSeq
<1>4. ASSUME sides[Len(sides)] = "client", NEW m \in 1 .. Len(sides)
      PROVE  sides[m] = "client"
  <2>1. Len(sides) \in 1 .. Len(sides) /\ m <= Len(sides)
    BY <1>2
  <2>2. sides[m] = "server" => sides[Len(sides)] = "server"
    BY <2>1 DEF SidesTraced
  <2> QED BY <1>3, <1>4, <2>2 DEF Sides
<1> QED BY <1>2, <1>3, <1>4 DEF Last

(* A list of sides that goes to the server once still does so. *)
LEMMA AppendMonotone ==
    ASSUME NEW x \in Seq(Sides), x # <<>>, NEW e \in Sides, x[Len(x)] = "server" => e = "server",
           \A m, n \in 1 .. Len(x) : m <= n /\ x[m] = "server" => x[n] = "server"
    PROVE  \A m, n \in 1 .. Len(Append(x, e)) :
              m <= n /\ Append(x, e)[m] = "server" => Append(x, e)[n] = "server"
<1>1. PICK k \in Nat : k = Len(x) /\ k \in 1 .. k
  BY EmptySeq
<1>2. /\ Len(Append(x, e)) = k + 1 /\ Append(x, e)[k + 1] = e
      /\ \A m \in 1 .. k : Append(x, e)[m] = x[m]
  BY <1>1
<1>3. ASSUME NEW m \in 1 .. k + 1, NEW n \in 1 .. k + 1, m <= n, Append(x, e)[m] = "server"
      PROVE  Append(x, e)[n] = "server"
  <2>1. CASE n \in 1 .. k
    <3>1. m \in 1 .. k
      BY <1>3, <2>1
    <3> QED BY <1>1, <1>2, <1>3, <2>1, <3>1
  <2>2. CASE n = k + 1
    <3>1. CASE m = k + 1
      BY <1>3, <2>2, <3>1
    <3>2. CASE m \in 1 .. k
      <4>1. x[k] = "server"
        BY <1>1, <1>2, <1>3, <3>2
      <4> QED BY <1>1, <1>2, <2>2, <4>1
    <3> QED BY <1>1, <3>1, <3>2
  <2> QED BY <1>1, <2>1, <2>2
<1> QED BY <1>2, <1>3

(* Contexts that were given up once stay so. *)
LEMMA AppendNarrowing ==
    ASSUME NEW x \in Seq(BOOLEAN), x # <<>>, NEW e \in BOOLEAN, e => x[Len(x)],
           \A m, n \in 1 .. Len(x) : m <= n /\ x[n] => x[m]
    PROVE  \A m, n \in 1 .. Len(Append(x, e)) :
              m <= n /\ Append(x, e)[n] => Append(x, e)[m]
<1>1. PICK k \in Nat : k = Len(x) /\ k \in 1 .. k
  BY EmptySeq
<1>2. /\ Len(Append(x, e)) = k + 1 /\ Append(x, e)[k + 1] = e
      /\ \A m \in 1 .. k : Append(x, e)[m] = x[m]
  BY <1>1
<1>3. ASSUME NEW m \in 1 .. k + 1, NEW n \in 1 .. k + 1, m <= n, Append(x, e)[n]
      PROVE  Append(x, e)[m]
  <2>1. CASE n \in 1 .. k
    <3>1. m \in 1 .. k
      BY <1>3, <2>1
    <3> QED BY <1>1, <1>2, <1>3, <2>1, <3>1
  <2>2. CASE n = k + 1
    <3>1. CASE m = k + 1
      BY <1>3, <2>2, <3>1
    <3>2. CASE m \in 1 .. k
      <4>1. x[k]
        BY <1>1, <1>2, <1>3, <2>2
      <4> QED BY <1>1, <1>2, <3>2, <4>1
    <3> QED BY <1>1, <3>1, <3>2
  <2> QED BY <1>1, <2>1, <2>2
<1> QED BY <1>2, <1>3

(* A routine adds its side and context, and nothing else adds any. *)
LEMMA SidesPush ==
    ASSUME ControlTyped, SidesTraced, NEW f \in Construct, NEW n \in Nat, Pushes(f, n),
           IF f.kind = "routine"
           THEN /\ sides' = Append(sides, f.side) /\ contexts' = Append(contexts, f.context)
                /\ Last(sides) = "server" => f.side = "server"
                /\ f.context => Last(contexts)
           ELSE UNCHANGED <<sides, contexts>>
    PROVE  /\ SidesTraced' /\ sides' \in Seq(Sides) /\ contexts' \in Seq(BOOLEAN)
           /\ Len(sides') \in Nat \ {0}
           /\ \A p \in 1 .. n : sides'[1 + Rank(Routined', p)] = sides[1 + Rank(Routined, p)]
           /\ sides'[1 + Rank(Routined', n + 1)] = Last(sides')
<1>1. /\ sides \in Seq(Sides) /\ contexts \in Seq(BOOLEAN) /\ sides # <<>> /\ contexts # <<>>
      /\ f.side \in Sides /\ f.context \in BOOLEAN
      /\ Traces(sides, 1, Routined, SideOf) /\ Traces(contexts, 1, Routined, ContextOf)
      /\ sides[1] = "client" /\ contexts[1]
  BY DEF ControlTyped, SidesTraced, Construct
<1>2. /\ Routined \in SUBSET (1 .. n) /\ stack'[n + 1] = f /\ Len(stack') = n + 1
      /\ \A p \in 1 .. n : stack'[p] = stack[p] /\ p \in 1 .. Len(stack) /\ p \in 1 .. Len(stack')
      /\ Routined' = IF f.kind = "routine" THEN Routined \cup {n + 1} ELSE Routined
  BY DEF Pushes, Below
<1>3. /\ \A p \in Routined : SideOf'[p] = SideOf[p] /\ ContextOf'[p] = ContextOf[p]
      /\ SideOf'[n + 1] = f.side /\ ContextOf'[n + 1] = f.context
  <2>1. n + 1 \in 1 .. n + 1
    OBVIOUS
  <2> QED BY <1>2, <2>1 DEF SideOf, ContextOf
<1>4. /\ Cardinality(Routined) \in Nat /\ Len(sides) = 1 + Cardinality(Routined)
      /\ \A p \in 1 .. n : Rank(Routined, p) \in 0 .. Cardinality(Routined)
      /\ Rank(Routined, n + 1) = Cardinality(Routined)
  <2>1. \A x \in Routined : x <= n + 1
    BY <1>2
  <2> QED BY <1>1, <1>2, <2>1, RankBounds DEF Traces
<1>5. Len(sides) \in Nat \ {0} /\ Last(sides) = sides[Len(sides)] /\ Last(contexts) = contexts[Len(contexts)]
  BY SidesNow
<1>6. CASE f.kind = "routine"
  <2>1. /\ sides' = Append(sides, f.side) /\ contexts' = Append(contexts, f.context)
        /\ Last(sides) = "server" => f.side = "server"
        /\ f.context => Last(contexts)
    BY <1>6
  <2>2. Routined' = Routined \cup {n + 1}
    BY <1>2, <1>6
  <2>3. /\ Traces(sides', 1, Routined', SideOf') /\ Traces(contexts', 1, Routined', ContextOf')
    <3>1. Traces(Append(sides, f.side), 1, Routined \cup {n + 1}, SideOf')
      <4>1. /\ sides \in Seq(Sides) /\ f.side \in Sides /\ Routined \in SUBSET (1 .. n)
            /\ Traces(sides, 1, Routined, SideOf) /\ SideOf'[n + 1] = f.side
            /\ \A p \in Routined : SideOf'[p] = SideOf[p]
        BY <1>1, <1>2, <1>3
      <4> QED BY <4>1, TracesPush
    <3>2. Traces(Append(contexts, f.context), 1, Routined \cup {n + 1}, ContextOf')
      BY <1>1, <1>2, <1>3, TracesPush
    <3> QED BY <2>1, <2>2, <3>1, <3>2
  <2>4. /\ sides' \in Seq(Sides) /\ contexts' \in Seq(BOOLEAN)
        /\ sides' # <<>> /\ contexts' # <<>> /\ sides'[1] = "client" /\ contexts'[1]
        /\ Len(sides') = Len(sides) + 1 /\ sides'[Len(sides')] = f.side
        /\ \A m \in 1 .. Len(sides) : sides'[m] = sides[m]
    <3>1. Len(sides) >= 1 /\ Len(contexts) >= 1 /\ Len(contexts) \in Nat
      BY <1>1, EmptySeq
    <3> QED BY <1>1, <2>1, <3>1, <1>5
  <2>5. \A m, k \in 1 .. Len(sides') : m <= k /\ sides'[m] = "server" => sides'[k] = "server"
    <3>1. \A m, k \in 1 .. Len(sides) : m <= k /\ sides[m] = "server" => sides[k] = "server"
      BY DEF SidesTraced
    <3> QED BY <1>1, <1>5, <2>1, <3>1, AppendMonotone
  <2>6. \A m, k \in 1 .. Len(contexts') : m <= k /\ contexts'[k] => contexts'[m]
    <3>1. \A m, k \in 1 .. Len(contexts) : m <= k /\ contexts[k] => contexts[m]
      BY DEF SidesTraced
    <3> QED BY <1>1, <1>5, <2>1, <3>1, AppendNarrowing
  <2>7. ASSUME NEW p \in 1 .. n
        PROVE  sides'[1 + Rank(Routined', p)] = sides[1 + Rank(Routined, p)]
    <3>1. Rank(Routined \cup {n + 1}, p) = Rank(Routined, p)
      BY <1>2, RankPush
    <3>2. 1 + Rank(Routined, p) \in 1 .. Len(sides)
      BY <1>4
    <3> QED BY <2>2, <2>4, <3>1, <3>2
  <2>8. sides'[1 + Rank(Routined', n + 1)] = Last(sides')
    <3>1. Rank(Routined', n + 1) = Cardinality(Routined) + 1
      BY <1>2, <2>2, RankPush
    <3>2. 1 + Rank(Routined', n + 1) = Len(sides')
      BY <1>4, <2>4, <3>1
    <3> QED BY <3>2 DEF Last
  <2> QED BY <1>5, <2>3, <2>4, <2>5, <2>6, <2>7, <2>8 DEF SidesTraced
<1>7. CASE f.kind # "routine"
  <2>1. sides' = sides /\ contexts' = contexts /\ Routined' = Routined
    BY <1>2, <1>7
  <2>2. Traces(sides', 1, Routined', SideOf') /\ Traces(contexts', 1, Routined', ContextOf')
    BY <1>1, <1>3, <2>1, TracesKeep
  <2>3. sides'[1 + Rank(Routined', n + 1)] = Last(sides')
    BY <1>4, <1>5, <2>1
  <2> QED BY <1>1, <1>5, <2>1, <2>2, <2>3 DEF SidesTraced
<1> QED BY <1>6, <1>7

(* A construct that is entered is the server's only on the server's side. *)
LEMMA ServerPush ==
    ASSUME ControlTyped, ServerSound, NEW f \in Construct, NEW n \in Nat, Pushes(f, n),
           \A p \in 1 .. n : sides'[1 + Rank(Routined', p)] = sides[1 + Rank(Routined, p)],
           sides'[1 + Rank(Routined', n + 1)] = Last(sides'),
           f.crossing => /\ f.kind = "routine" /\ f.owner = "server"
                         /\ \A q \in 1 .. n : stack[q].owner # "server",
           ~f.begun => f.crossing,
           f.owner = "server" => Last(sides') = "server"
    PROVE  ServerSound'
<1>1. /\ Len(stack) = n /\ Len(stack') = n + 1 /\ stack'[n + 1] = f
      /\ \A p \in 1 .. n : stack'[p] = stack[p]
  BY DEF Pushes, Below
<1>2. ASSUME NEW p \in 1 .. n
      PROVE  /\ stack'[p].crossing =>
                   /\ stack'[p].kind = "routine" /\ stack'[p].owner = "server"
                   /\ \A q \in 1 .. p - 1 : stack'[q].owner # "server"
             /\ ~stack'[p].begun => stack'[p].crossing
             /\ stack'[p].owner = "server" => sides'[1 + Rank(Routined', p)] = "server"
  <2>1. p \in 1 .. Len(stack) /\ \A q \in 1 .. p - 1 : q \in 1 .. n
    BY <1>1
  <2> QED BY <1>1, <2>1 DEF ServerSound
<1>3. /\ f.crossing => \A q \in 1 .. (n + 1) - 1 : stack'[q].owner # "server"
  BY <1>1
<1>4. \A p \in 1 .. n + 1 : p \in 1 .. n \/ p = n + 1
  OBVIOUS
<1> QED BY <1>1, <1>2, <1>3, <1>4 DEF ServerSound

(* A construct of the server runs on its side. *)
LEMMA ServerOnItsSide ==
    ASSUME ControlTyped, ServerSound, SidesTraced, NEW p \in 1 .. Len(stack),
           stack[p].owner = "server"
    PROVE  Last(sides) = "server"
<1>1. sides[1 + Rank(Routined, p)] = "server"
  BY DEF ServerSound
<1>2. Routined \in SUBSET (1 .. Len(stack)) /\ Len(stack) \in Nat
  BY StackFacts
<1>3. Rank(Routined, p) \in 0 .. Cardinality(Routined) /\ Cardinality(Routined) \in Nat
  BY <1>2, RankBounds
<1>4. Len(sides) = 1 + Cardinality(Routined)
  BY DEF SidesTraced, Traces
<1>5. /\ 1 + Rank(Routined, p) \in 1 .. Len(sides) /\ Len(sides) \in 1 .. Len(sides)
      /\ 1 + Rank(Routined, p) <= Len(sides)
  BY <1>3, <1>4
<1> QED BY <1>1, <1>5, SidesNow DEF SidesTraced

(* Before the server is entered nothing of it is there. *)
LEMMA ServerIsClean ==
    ASSUME ControlTyped, DiagnosticsTraced,
           \A p \in 1 .. Len(stack) :
              stack[p].owner = "server" => stack[p].kind \notin {"handler", "eval", "execute"}
    PROVE  diagnostics["server"] = NoDiagnostics
<1>1. /\ Active("handler", "server") = {} /\ Active("eval", "server") = {}
      /\ Active("execute", "server") = {}
  <2>1. \A p \in 1 .. Len(stack) : stack[p].kind \in {"handler", "eval", "execute"} =>
             Owner(stack[p].owner) # "server"
    BY DEF Owner
  <2> QED BY <2>1, StackFacts
<1>2. /\ Len(diagnostics["server"].handled) = 0 /\ Len(diagnostics["server"].boundaries) = 0
      /\ diagnostics["server"].evals = 0 /\ diagnostics["server"].executes = 0
  <2>1. Cardinality({}) = 0 /\ "server" \in Sides
    BY FS_EmptySet DEF Sides
  <2>2. /\ Traces(diagnostics["server"].handled, 0, {}, ErrorOf)
        /\ Traces(diagnostics["server"].boundaries, 0, {}, BoundaryOf("server"))
        /\ diagnostics["server"].evals = 0 /\ diagnostics["server"].executes = 0
    BY <1>1, <2>1 DEF DiagnosticsTraced
  <2> QED BY <2>1, <2>2 DEF Traces
<1>3. diagnostics["server"] \in Handling
  BY DEF ControlTyped, Sides
<1>4. diagnostics["server"].handled = <<>> /\ diagnostics["server"].boundaries = <<>>
  BY <1>2, <1>3, EmptySeq DEF Handling
<1> QED BY <1>2, <1>3, <1>4 DEF Handling, NoDiagnostics

(* Eval draws a boundary above the handlers so far; fragments are counted. *)
DiagnosticsEntered(f) ==
    LET d == Owner(f.owner) IN
    diagnostics' = [diagnostics EXCEPT ![d] =
        CASE f.kind = "eval" ->
               [diagnostics[d] EXCEPT !.evals = @ + 1,
                          !.boundaries = Append(@, Len(diagnostics[d].handled))]
          [] f.kind = "execute" -> [diagnostics[d] EXCEPT !.executes = @ + 1]
          [] OTHER -> diagnostics[d]]

(* A fragment changes only the depth of fragments. *)
LEMMA HandlingFragment ==
    ASSUME NEW r \in Handling, NEW k \in Nat, NEW new, new = [r EXCEPT !.executes = k]
    PROVE  /\ new \in Handling /\ new.handled = r.handled /\ new.boundaries = r.boundaries
           /\ new.evals = r.evals /\ new.executes = k
BY DEF Handling

(* A handler changes only the handled errors. *)
LEMMA HandlingCaught ==
    ASSUME NEW r \in Handling, NEW errors \in Seq(Shown), NEW new,
           new = [r EXCEPT !.handled = errors]
    PROVE  /\ new \in Handling /\ new.handled = errors /\ new.boundaries = r.boundaries
           /\ new.evals = r.evals /\ new.executes = r.executes
BY DEF Handling

(* Entering anything but a handler keeps the diagnostics in step. *)
LEMMA DiagnosticsPush ==
    ASSUME ControlTyped, DiagnosticsTraced, NEW f \in Construct, NEW n \in Nat, Pushes(f, n),
           f.kind # "handler", DiagnosticsEntered(f)
    PROVE  DiagnosticsTraced' /\ diagnostics' \in [Sides -> Handling]
<1>1. PICK e : e = Owner(f.owner) /\ e \in Sides
  BY DEF Owner, Sides
<1>2. /\ stack'[n + 1] = f /\ Len(stack') = n + 1
      /\ \A p \in 1 .. n : stack'[p] = stack[p] /\ p \in 1 .. Len(stack) /\ p \in 1 .. Len(stack')
      /\ \A k, d : /\ Active(k, d) \in SUBSET (1 .. n)
                   /\ Active(k, d)' = IF f.kind = k /\ e = d THEN Active(k, d) \cup {n + 1}
                                      ELSE Active(k, d)
  BY <1>1 DEF Pushes, Below
<1>3. \A d : Active("handler", d)' = Active("handler", d)
  BY <1>2
<1>4. ASSUME NEW d \in Sides
      PROVE  /\ diagnostics'[d] \in Handling
             /\ Traces(diagnostics'[d].handled, 0, Active("handler", d)', ErrorOf')
             /\ Traces(diagnostics'[d].boundaries, 0, Active("eval", d)', BoundaryOf(d)')
             /\ diagnostics'[d].evals = Cardinality(Active("eval", d)')
             /\ diagnostics'[d].executes = Cardinality(Active("execute", d)')
  <2>1. /\ diagnostics[d] \in Handling /\ diagnostics \in [Sides -> Handling]
        /\ Traces(diagnostics[d].handled, 0, Active("handler", d), ErrorOf)
        /\ Traces(diagnostics[d].boundaries, 0, Active("eval", d), BoundaryOf(d))
        /\ diagnostics[d].evals = Cardinality(Active("eval", d))
        /\ diagnostics[d].executes = Cardinality(Active("execute", d))
    BY DEF ControlTyped, DiagnosticsTraced
  <2>2. /\ \A p \in 1 .. n : ErrorOf'[p] = ErrorOf[p] /\ BoundaryOf(d)'[p] = BoundaryOf(d)[p]
        /\ BoundaryOf(d)'[n + 1] = Rank(Active("handler", d), n + 1)
    <3>1. n + 1 \in 1 .. n + 1
      OBVIOUS
    <3> QED BY <1>2, <1>3, <3>1 DEF ErrorOf, BoundaryOf
  <2>3. Active("handler", d) \in SUBSET (1 .. n) /\ Active("eval", d) \in SUBSET (1 .. n)
        /\ Active("execute", d) \in SUBSET (1 .. n)
    BY <1>2
  <2>4. Traces(diagnostics[d].handled, 0, Active("handler", d)', ErrorOf')
    BY <1>3, <2>1, <2>2, <2>3, TracesKeep
  <2>5. CASE d = e /\ f.kind = "eval"
    <3>1. /\ diagnostics'[d].handled = diagnostics[d].handled
          /\ diagnostics'[d].boundaries =
                Append(diagnostics[d].boundaries, Len(diagnostics[d].handled))
          /\ diagnostics'[d].evals = diagnostics[d].evals + 1
          /\ diagnostics'[d].executes = diagnostics[d].executes
          /\ diagnostics'[d] \in Handling
      <4>1. diagnostics'[d] =
               [diagnostics[d] EXCEPT !.evals = diagnostics[d].evals + 1,
                      !.boundaries = Append(diagnostics[d].boundaries,
                                            Len(diagnostics[d].handled))]
        BY <1>1, <2>1, <2>5 DEF DiagnosticsEntered
      <4>2. /\ Append(diagnostics[d].boundaries, Len(diagnostics[d].handled)) \in Seq(Nat)
            /\ diagnostics[d].evals + 1 \in Nat /\ diagnostics[d].handled \in Seq(Shown)
            /\ diagnostics[d] \in Handling
        BY <2>1 DEF Handling
      <4>3. PICK r \in Handling : r = diagnostics[d]
        BY <4>2
      <4>4. PICK marks \in Seq(Nat) :
               marks = Append(diagnostics[d].boundaries, Len(diagnostics[d].handled))
        BY <4>2
      <4>5. diagnostics'[d] = [handled |-> r.handled, boundaries |-> marks,
                               evals |-> r.evals + 1, executes |-> r.executes]
        BY <4>1, <4>3, <4>4 DEF Handling
      <4>6. diagnostics'[d] \in Handling
        BY <4>3, <4>4, <4>5 DEF Handling
      <4> QED BY <4>3, <4>4, <4>5, <4>6
    <3>2. /\ Active("eval", d)' = Active("eval", d) \cup {n + 1}
          /\ Active("execute", d)' = Active("execute", d)
      BY <1>2, <2>5
    <3>3. Len(diagnostics[d].handled) = Rank(Active("handler", d), n + 1)
      <4>1. \A x \in Active("handler", d) : x <= n + 1
        BY <2>3
      <4>2. /\ Rank(Active("handler", d), n + 1) = Cardinality(Active("handler", d))
            /\ Cardinality(Active("handler", d)) \in Nat
        BY <2>3, <4>1, RankBounds
      <4> QED BY <2>1, <4>2 DEF Traces
    <3>4. /\ diagnostics[d].boundaries \in Seq(Nat) /\ Len(diagnostics[d].handled) \in Nat
      BY <2>1 DEF Handling
    <3>5. Traces(diagnostics'[d].boundaries, 0, Active("eval", d)', BoundaryOf(d)')
      <4>1. Traces(Append(diagnostics[d].boundaries, Len(diagnostics[d].handled)), 0,
                   Active("eval", d) \cup {n + 1}, BoundaryOf(d)')
        <5>1. /\ \A p \in Active("eval", d) : BoundaryOf(d)'[p] = BoundaryOf(d)[p]
              /\ BoundaryOf(d)'[n + 1] = Len(diagnostics[d].handled)
          BY <2>2, <2>3, <3>3
        <5> QED BY <2>1, <2>3, <3>4, <5>1, TracesPush
      <4> QED BY <3>1, <3>2, <4>1
    <3>6. Cardinality(Active("eval", d)') = Cardinality(Active("eval", d)) + 1
      <4>1. Cardinality(Active("eval", d) \cup {n + 1}) = Cardinality(Active("eval", d)) + 1
        BY <2>3, RankPush
      <4> QED BY <3>2, <4>1
    <3> QED BY <2>1, <2>4, <3>1, <3>2, <3>5, <3>6
  <2>6. CASE ~(d = e /\ f.kind = "eval")
    <3>1. Active("eval", d)' = Active("eval", d)
      BY <1>2, <2>6
    <3>2. Traces(diagnostics[d].boundaries, 0, Active("eval", d)', BoundaryOf(d)')
      BY <2>1, <2>2, <2>3, <3>1, TracesKeep
    <3>3. CASE d = e /\ f.kind = "execute"
      <4>1. diagnostics'[d] =
               [diagnostics[d] EXCEPT !.executes = diagnostics[d].executes + 1]
        BY <1>1, <2>1, <3>3 DEF DiagnosticsEntered
      <4>2. Cardinality(Active("execute", d)') = Cardinality(Active("execute", d)) + 1
        <5>1. Active("execute", d)' = Active("execute", d) \cup {n + 1}
          BY <1>2, <3>3
        <5>2. Cardinality(Active("execute", d) \cup {n + 1})
                = Cardinality(Active("execute", d)) + 1
          BY <2>3, RankPush
        <5> QED BY <5>1, <5>2
      <4>3. /\ diagnostics[d].boundaries \in Seq(Nat) /\ diagnostics[d].handled \in Seq(Shown)
            /\ diagnostics[d].executes + 1 \in Nat /\ diagnostics[d] \in Handling
        BY <2>1 DEF Handling
      <4>4. /\ diagnostics'[d] \in Handling
            /\ diagnostics'[d].handled = diagnostics[d].handled
            /\ diagnostics'[d].boundaries = diagnostics[d].boundaries
            /\ diagnostics'[d].evals = diagnostics[d].evals
            /\ diagnostics'[d].executes = diagnostics[d].executes + 1
        BY <4>1, <4>3, HandlingFragment
      <4> QED BY <2>1, <2>4, <3>1, <3>2, <4>2, <4>4
    <3>4. CASE ~(d = e /\ f.kind = "execute")
      <4>1. diagnostics'[d] = diagnostics[d]
        BY <1>1, <2>1, <2>6, <3>4 DEF DiagnosticsEntered
      <4>2. Active("execute", d)' = Active("execute", d)
        BY <1>2, <3>4
      <4> QED BY <2>1, <2>4, <3>1, <3>2, <4>1, <4>2
    <3> QED BY <3>3, <3>4
  <2> QED BY <2>5, <2>6
<1>5. diagnostics' \in [Sides -> Handling]
  <2>1. DOMAIN diagnostics' = Sides /\ diagnostics' = [d \in Sides |-> diagnostics'[d]]
    BY DEF DiagnosticsEntered, ControlTyped
  <2> QED BY <1>4, <2>1
<1> QED BY <1>4, <1>5 DEF DiagnosticsTraced

(* Nothing but a module concerns the imports. *)
LEMMA ImportsPush ==
    ASSUME LoadsAreNested, LoadingIsExact, NamesArePublished, NEW f \in Construct,
           NEW n \in Nat, Pushes(f, n), f.kind # "module",
           UNCHANGED <<program, loading, cache, imported>>
    PROVE  LoadsAreNested' /\ LoadingIsExact' /\ NamesArePublished'
<1>1. /\ Len(stack) = n /\ Len(stack') = n + 1 /\ stack'[n + 1] = f
      /\ \A p \in 1 .. n : stack'[p] = stack[p]
  BY DEF Pushes, Below
<1>2. LoadsAreNested'
  <2> SUFFICES ASSUME NEW p \in 1 .. n + 1, stack'[p].kind = "module"
               PROVE  /\ stack'[p].owner \in Modules \ cache
                      /\ ToSet(stack'[p].todo) \subseteq ToSet(program[stack'[p].owner])
                      /\ ToSet(program[stack'[p].owner]) \ ToSet(stack'[p].todo) \subseteq cache
                      /\ stack'[p].todo = <<>> =>
                            imported[stack'[p].owner] = ToSet(program[stack'[p].owner])
                      /\ \A q \in 1 .. p - 1 :
                            /\ stack'[q].kind = "module" /\ stack'[q].todo # <<>>
                            /\ stack'[q].owner # stack'[p].owner
    BY <1>1 DEF LoadsAreNested
  <2>1. p \in 1 .. n
    BY <1>1
  <2>2. stack'[p] = stack[p] /\ \A q \in 1 .. p - 1 : stack'[q] = stack[q]
    BY <1>1, <2>1
  <2> QED BY <1>1, <2>1, <2>2 DEF LoadsAreNested
<1>3. LoadingIsExact'
  <2>1. Len(loading) <= n /\ \A p \in 1 .. Len(loading) : loading[p] = stack[p].owner
    BY <1>1 DEF LoadingIsExact
  <2>2. \A p \in 1 .. n : p <= Len(loading) <=> Loads(stack[p])
    BY <1>1 DEF LoadingIsExact
  <2> SUFFICES /\ Len(loading) <= n + 1
               /\ \A p \in 1 .. n + 1 : p <= Len(loading) <=> Loads(stack'[p])
               /\ \A p \in 1 .. Len(loading) : loading[p] = stack'[p].owner
    BY <1>1 DEF LoadingIsExact, Loads
  <2>3. ~Loads(f)
    BY DEF Loads
  <2>4. ~(n + 1 <= Len(loading)) /\ Len(loading) <= n + 1
    BY <2>1
  <2> QED BY <1>1, <2>1, <2>2, <2>3, <2>4
<1>4. NamesArePublished'
  BY DEF NamesArePublished
<1> QED BY <1>2, <1>3, <1>4

(* A module with names to deal with is under load. *)
LEMMA LoadingCovers ==
    ASSUME ControlTyped, LoadsAreNested, LoadingIsExact, NEW n \in Nat, n = Len(stack),
           \A p \in 1 .. n : stack[p].kind = "module" /\ stack[p].todo # <<>>
    PROVE  /\ Len(loading) = n
           /\ \A p \in 1 .. n : /\ stack[p].owner \in ToSet(loading)
                                /\ program[stack[p].owner] # <<>>
<1>1. ASSUME NEW p \in 1 .. n PROVE Loads(stack[p]) /\ p <= Len(loading)
  <2>1. ToSet(stack[p].todo) \subseteq ToSet(program[stack[p].owner])
    BY DEF LoadsAreNested
  <2>2. stack[p].todo # <<>> /\ stack[p].todo \in Seq(Modules)
    BY StackFacts DEF Construct
  <2>3. ToSet(stack[p].todo) # {}
    <3>1. 1 \in DOMAIN stack[p].todo
      BY <2>2, EmptySeq
    <3>2. stack[p].todo[1] \in ToSet(stack[p].todo)
      BY <3>1 DEF ToSet
    <3> QED BY <3>2
  <2>4. program[stack[p].owner] # <<>>
    <3>1. ToSet(<<>>) = {}
      BY DEF ToSet
    <3> QED BY <2>1, <2>3, <3>1
  <2> QED BY <2>4 DEF Loads, LoadingIsExact
<1>2. loading \in Seq(Modules) /\ Len(loading) \in Nat /\ Len(loading) <= n
  BY DEF ControlTyped, LoadingIsExact
<1>3. Len(loading) = n
  <2>1. CASE n = 0
    BY <1>2, <2>1
  <2>2. CASE n # 0
    <3>1. n \in 1 .. n
      BY <2>2
    <3> QED BY <1>1, <1>2, <3>1
  <2> QED BY <2>1, <2>2
<1>4. ASSUME NEW p \in 1 .. n PROVE stack[p].owner \in ToSet(loading)
  <2>1. loading[p] = stack[p].owner /\ p \in DOMAIN loading
    BY <1>2, <1>3 DEF LoadingIsExact
  <2> QED BY <2>1 DEF ToSet
<1> QED BY <1>1, <1>3, <1>4 DEF Loads

(* A module that is neither loaded nor under load starts to load. *)
LEMMA ModuleEntered ==
    ASSUME ControlTyped, LoadsAreNested, LoadingIsExact, NamesArePublished,
           NEW m \in Modules \ cache, NEW f \in Construct, NEW n \in Nat, Pushes(f, n),
           f.kind = "module", f.owner = m, f.todo = program[m],
           m \notin ToSet(loading),
           \A p \in 1 .. n : stack[p].kind = "module" /\ stack[p].todo # <<>>,
           loading' = IF program[m] = <<>> THEN loading ELSE Append(loading, m),
           imported' \in {imported, [imported EXCEPT ![m] = {}]},
           UNCHANGED <<program, cache>>
    PROVE  /\ LoadsAreNested' /\ LoadingIsExact' /\ NamesArePublished'
           /\ loading' \in Seq(Modules) /\ imported' \in [Modules -> SUBSET Modules]
<1>1. /\ Len(stack) = n /\ Len(stack') = n + 1 /\ stack'[n + 1] = f
      /\ \A p \in 1 .. n : stack'[p] = stack[p]
  BY DEF Pushes, Below
<1>2. /\ Len(loading) = n
      /\ \A p \in 1 .. n : /\ stack[p].owner \in ToSet(loading)
                           /\ program[stack[p].owner] # <<>>
  BY <1>1, LoadingCovers
<1>3. /\ loading \in Seq(Modules) /\ imported \in [Modules -> SUBSET Modules]
      /\ program \in [Modules -> Seq(Modules)]
  BY DEF ControlTyped
<1>4. /\ \A k \in Modules \ {m} : imported'[k] = imported[k]
      /\ imported'[m] \in {{}, imported[m]}
      /\ imported' \in [Modules -> SUBSET Modules]
  BY <1>3
<1>5. NamesArePublished'
  <2>1. ASSUME NEW k \in Modules
        PROVE  /\ imported'[k] \subseteq cache
               /\ imported'[k] \in {{}, ToSet(program[k])}
               /\ k \in cache => imported'[k] = ToSet(program[k])
    BY <1>4 DEF NamesArePublished
  <2> QED BY <2>1 DEF NamesArePublished
<1>6. program[m] = <<>> => imported'[m] = ToSet(program[m])
  <2>1. ToSet(<<>>) = {}
    BY DEF ToSet
  <2> QED BY <1>5, <2>1 DEF NamesArePublished
<1>7. LoadsAreNested'
  <2>1. ASSUME NEW p \in 1 .. n
        PROVE  /\ stack'[p].owner \in Modules \ cache
               /\ ToSet(stack'[p].todo) \subseteq ToSet(program[stack'[p].owner])
               /\ ToSet(program[stack'[p].owner]) \ ToSet(stack'[p].todo) \subseteq cache
               /\ stack'[p].todo = <<>> =>
                     imported'[stack'[p].owner] = ToSet(program[stack'[p].owner])
               /\ \A q \in 1 .. p - 1 : /\ stack'[q].kind = "module" /\ stack'[q].todo # <<>>
                                        /\ stack'[q].owner # stack'[p].owner
    <3>1. \A q \in 1 .. p - 1 : q \in 1 .. n
      BY <1>1
    <3>2. stack'[p] = stack[p] /\ stack[p].kind = "module" /\ stack[p].todo # <<>>
      BY <1>1
    <3>3. /\ stack[p].owner \in Modules \ cache
          /\ ToSet(stack[p].todo) \subseteq ToSet(program[stack[p].owner])
          /\ ToSet(program[stack[p].owner]) \ ToSet(stack[p].todo) \subseteq cache
          /\ \A q \in 1 .. p - 1 : /\ stack[q].kind = "module" /\ stack[q].todo # <<>>
                                   /\ stack[q].owner # stack[p].owner
      BY <1>1, <3>2 DEF LoadsAreNested
    <3>4. \A q \in 1 .. p - 1 : stack'[q] = stack[q]
      BY <1>1, <3>1
    <3> QED BY <3>2, <3>3, <3>4
  <2>2. /\ ToSet(f.todo) \subseteq ToSet(program[m])
        /\ ToSet(program[m]) \ ToSet(f.todo) \subseteq cache
        /\ f.todo = <<>> => imported'[m] = ToSet(program[m])
    BY <1>6
  <2>3. \A q \in 1 .. (n + 1) - 1 : /\ stack'[q].kind = "module" /\ stack'[q].todo # <<>>
                                    /\ stack'[q].owner # m
    BY <1>1, <1>2
  <2>4. \A p \in 1 .. n + 1 : p \in 1 .. n \/ p = n + 1
    OBVIOUS
  <2> QED BY <1>1, <2>1, <2>2, <2>3, <2>4 DEF LoadsAreNested
<1>8. LoadingIsExact'
  <2>1. \A p \in 1 .. n : p <= n /\ Loads(stack'[p])
    BY <1>1, <1>2 DEF Loads
  <2>2. \A p \in 1 .. n : loading[p] = stack'[p].owner
    BY <1>1, <1>2 DEF LoadingIsExact
  <2>3. Loads(f) <=> program[m] # <<>>
    BY DEF Loads
  <2>4. \A p \in 1 .. n + 1 : p \in 1 .. n \/ p = n + 1
    OBVIOUS
  <2>5. CASE program[m] = <<>>
    <3>1. loading' = loading /\ ~(n + 1 <= n)
      BY <2>5
    <3> QED BY <1>1, <1>2, <2>1, <2>2, <2>3, <2>4, <2>5, <3>1 DEF LoadingIsExact, Loads
  <2>6. CASE program[m] # <<>>
    <3>1. /\ Len(loading') = n + 1 /\ loading'[n + 1] = m
          /\ \A p \in 1 .. n : loading'[p] = loading[p]
      BY <1>2, <1>3, <2>6
    <3>2. \A p \in 1 .. n + 1 : p <= n + 1 /\ Loads(stack'[p]) /\ loading'[p] = stack'[p].owner
      BY <1>1, <2>1, <2>2, <2>3, <2>4, <2>6, <3>1
    <3> QED BY <1>1, <3>1, <3>2 DEF LoadingIsExact, Loads
  <2> QED BY <2>5, <2>6
<1>9. loading' \in Seq(Modules)
  BY <1>3
<1> QED BY <1>4, <1>5, <1>7, <1>8, <1>9

-----------------------------------------------------------------------------
(* A construct is left.                                                     *)

(* Leaving a construct gives names the scope they had below it. *)
LEMMA ScopesPop ==
    ASSUME ControlTyped, ScopesSaved, NEW n \in Nat, Pops(n), RestoreScopes(Top)
    PROVE  ScopesSaved' /\ locals' \in [Interpreters -> Nat]
<1>1. /\ locals \in [Interpreters -> Nat] /\ Top \in Construct
      /\ Len(stack) = n + 1 /\ Len(stack') = n /\ stack[n + 1] = Top
      /\ \A p \in 1 .. n : stack'[p] = stack[p]
      /\ \A i : \A p \in 0 .. n : OpenBelow(stack', i, p) = OpenBelow(stack, i, p)
      /\ \A i : OpenBelow(stack, i, n + 1) =
                  IF Opens(Top, i) THEN OpenBelow(stack, i, n) \cup {n + 1}
                  ELSE OpenBelow(stack, i, n)
  BY DEF ControlTyped, Pops, Below
<1>2. \A i : Opens(Top, i) => Top.kind \in {"routine", "execute"} /\ Top.owner = i
  BY DEF Opens
<1>3. Top.kind \in {"routine", "execute"} =>
           /\ Top.saved = Innermost(OpenBelow(stack, Top.owner, n)) /\ Top.saved \in Nat
           /\ locals' = [locals EXCEPT ![Top.owner] = Top.saved]
  <2>1. (n + 1) - 1 = n /\ n + 1 \in 1 .. n + 1
    OBVIOUS
  <2> QED BY <1>1, <2>1 DEF ScopesSaved, RestoreScopes, Construct
<1>4. Top.kind \notin {"routine", "execute"} => locals' = locals
  BY DEF RestoreScopes
<1>5. Top.owner \in Interpreters
  BY <1>1 DEF Construct
<1>6. ASSUME NEW i \in Interpreters PROVE locals'[i] = Innermost(OpenBelow(stack', i, n))
  <2>1. locals[i] = Innermost(OpenBelow(stack, i, n + 1))
    BY <1>1 DEF ScopesSaved
  <2>2. OpenBelow(stack', i, n) = OpenBelow(stack, i, n)
    BY <1>1
  <2>3. CASE Top.kind \in {"routine", "execute"} /\ Top.owner = i
    BY <1>1, <1>3, <2>2, <2>3
  <2>4. CASE ~(Top.kind \in {"routine", "execute"} /\ Top.owner = i)
    <3>1. locals'[i] = locals[i]
      BY <1>1, <1>3, <1>4, <1>5, <2>4
    <3>2. OpenBelow(stack, i, n + 1) = OpenBelow(stack, i, n)
      BY <1>1, <1>2, <2>4
    <3> QED BY <2>1, <2>2, <3>1, <3>2
  <2> QED BY <2>3, <2>4
<1>7. ASSUME NEW p \in 1 .. n, stack'[p].kind \in {"routine", "execute"}
      PROVE  stack'[p].saved = Innermost(OpenBelow(stack', stack'[p].owner, p - 1))
  <2>1. stack'[p] = stack[p] /\ p - 1 \in 0 .. n /\ p \in 1 .. Len(stack)
    BY <1>1
  <2>2. stack[p].saved = Innermost(OpenBelow(stack, stack[p].owner, p - 1))
    BY <1>7, <2>1 DEF ScopesSaved
  <2> QED BY <1>1, <2>1, <2>2
<1>8. locals' \in [Interpreters -> Nat]
  BY <1>1, <1>3, <1>4, <1>5
<1> QED
  <2>1. \A i \in Interpreters : locals'[i] = Innermost(OpenBelow(stack', i, Len(stack')))
    BY <1>1, <1>6
  <2>2. \A p \in 1 .. Len(stack') : stack'[p].kind \in {"routine", "execute"} =>
             stack'[p].saved = Innermost(OpenBelow(stack', stack'[p].owner, p - 1))
    BY <1>1, <1>7
  <2> QED BY <1>8, <2>1, <2>2 DEF ScopesSaved

(* Without the last side the ones before are in order. *)
LEMMA FrontOrdered ==
    ASSUME NEW x, NEW y, NEW n \in Nat, Len(x) = n + 1, Len(y) = n,
           \A i \in 1 .. n : y[i] = x[i]
    PROVE  /\ (\A i, j \in 1 .. Len(x) : i <= j /\ x[i] = "server" => x[j] = "server")
                => \A i, j \in 1 .. Len(y) : i <= j /\ y[i] = "server" => y[j] = "server"
           /\ (\A i, j \in 1 .. Len(x) : i <= j /\ x[j] => x[i])
                => \A i, j \in 1 .. Len(y) : i <= j /\ y[j] => y[i]
<1>1. \A i \in 1 .. Len(y) : i \in 1 .. Len(x) /\ i \in 1 .. n
  OBVIOUS
<1> QED BY <1>1

(* Leaving a routine gives back the side and the context below it. *)
LEMMA SidesPop ==
    ASSUME ControlTyped, SidesTraced, ServerSound, NEW n \in Nat, Pops(n), RestoreScopes(Top)
    PROVE  /\ SidesTraced' /\ ServerSound'
           /\ sides' \in Seq(Sides) /\ contexts' \in Seq(BOOLEAN)
<1>1. /\ sides \in Seq(Sides) /\ contexts \in Seq(BOOLEAN) /\ sides # <<>> /\ contexts # <<>>
      /\ Traces(sides, 1, Routined, SideOf) /\ Traces(contexts, 1, Routined, ContextOf)
      /\ sides[1] = "client" /\ contexts[1]
      /\ \A i, j \in 1 .. Len(sides) : i <= j /\ sides[i] = "server" => sides[j] = "server"
      /\ \A i, j \in 1 .. Len(contexts) : i <= j /\ contexts[j] => contexts[i]
  BY DEF ControlTyped, SidesTraced
<1>2. /\ Routined \in SUBSET (1 .. n + 1) /\ Routined' = Routined \ {n + 1}
      /\ n + 1 \in Routined <=> Top.kind = "routine"
      /\ Len(stack) = n + 1 /\ Len(stack') = n
      /\ \A p \in 1 .. n : stack'[p] = stack[p] /\ p \in 1 .. Len(stack) /\ p \in 1 .. Len(stack')
  BY DEF Pops, Below
<1>3. \A p \in Routined \ {n + 1} : SideOf'[p] = SideOf[p] /\ ContextOf'[p] = ContextOf[p]
  <2>1. \A p \in Routined \ {n + 1} : p \in 1 .. n
    BY <1>2
  <2> QED BY <1>2, <2>1 DEF SideOf, ContextOf
<1>4. /\ SidesTraced' /\ sides' \in Seq(Sides) /\ contexts' \in Seq(BOOLEAN)
      /\ \A k \in 1 .. Len(sides') : sides'[k] = sides[k]
  <2>1. CASE Top.kind = "routine"
    <3>1. sides' = Front(sides) /\ contexts' = Front(contexts) /\ n + 1 \in Routined
      BY <1>2, <2>1 DEF RestoreScopes
    <3>2. /\ Traces(Front(sides), 1, Routined \ {n + 1}, SideOf')
          /\ Front(sides) \in Seq(Sides) /\ Len(Front(sides)) = Len(sides) - 1
          /\ Len(sides) > 1
          /\ \A k \in 1 .. Len(sides) - 1 : Front(sides)[k] = sides[k]
      <4>1. PICK new : new = SideOf'
        OBVIOUS
      <4>2. \A p \in Routined \ {n + 1} : new[p] = SideOf[p]
        BY <1>3, <4>1
      <4>3. /\ sides \in Seq(Sides) /\ Routined \in SUBSET (1 .. n + 1) /\ n + 1 \in Routined
            /\ Traces(sides, 1, Routined, SideOf)
        BY <1>1, <1>2, <3>1
      <4>4. Traces(Front(sides), 1, Routined \ {n + 1}, new)
        BY <4>2, <4>3, TracesPop
      <4>5. /\ Front(sides) \in Seq(Sides) /\ Len(Front(sides)) = Len(sides) - 1
            /\ Len(sides) > 1
            /\ \A k \in 1 .. Len(sides) - 1 : Front(sides)[k] = sides[k]
        <5>1. PICK r \in Nat : r = Cardinality(Routined) /\ r >= 1
          <6>1. n + 1 \in Nat
            OBVIOUS
          <6>2. /\ Cardinality(Routined) \in Nat /\ Rank(Routined, n + 1) >= 1
                /\ Rank(Routined, n + 1) \in 0 .. Cardinality(Routined)
            BY <4>3, <6>1, RankBounds
          <6> QED BY <6>2
        <5>2. Len(sides) = r + 1 /\ Len(sides) - 1 = r
          BY <4>3, <5>1 DEF Traces
        <5>3. /\ Front(sides) \in Seq(Sides) /\ Len(Front(sides)) = r
              /\ \A k \in 1 .. r : Front(sides)[k] = sides[k]
          BY <4>3, <5>1, <5>2, FrontOf
        <5> QED BY <5>1, <5>2, <5>3
      <4> QED BY <4>1, <4>4, <4>5
    <3>3. /\ Traces(Front(contexts), 1, Routined \ {n + 1}, ContextOf')
          /\ Front(contexts) \in Seq(BOOLEAN) /\ Len(Front(contexts)) = Len(contexts) - 1
          /\ Len(contexts) > 1
          /\ \A k \in 1 .. Len(contexts) - 1 : Front(contexts)[k] = contexts[k]
      <4>1. PICK new : new = ContextOf'
        OBVIOUS
      <4>2. \A p \in Routined \ {n + 1} : new[p] = ContextOf[p]
        BY <1>3, <4>1
      <4>3. /\ contexts \in Seq(BOOLEAN) /\ Routined \in SUBSET (1 .. n + 1) /\ n + 1 \in Routined
            /\ Traces(contexts, 1, Routined, ContextOf)
        BY <1>1, <1>2, <3>1
      <4>4. Traces(Front(contexts), 1, Routined \ {n + 1}, new)
        BY <4>2, <4>3, TracesPop
      <4>5. /\ Front(contexts) \in Seq(BOOLEAN) /\ Len(Front(contexts)) = Len(contexts) - 1
            /\ Len(contexts) > 1
            /\ \A k \in 1 .. Len(contexts) - 1 : Front(contexts)[k] = contexts[k]
        <5>1. PICK r \in Nat : r = Cardinality(Routined) /\ r >= 1
          <6>1. n + 1 \in Nat
            OBVIOUS
          <6>2. /\ Cardinality(Routined) \in Nat /\ Rank(Routined, n + 1) >= 1
                /\ Rank(Routined, n + 1) \in 0 .. Cardinality(Routined)
            BY <4>3, <6>1, RankBounds
          <6> QED BY <6>2
        <5>2. Len(contexts) = r + 1 /\ Len(contexts) - 1 = r
          BY <4>3, <5>1 DEF Traces
        <5>3. /\ Front(contexts) \in Seq(BOOLEAN) /\ Len(Front(contexts)) = r
              /\ \A k \in 1 .. r : Front(contexts)[k] = contexts[k]
          BY <4>3, <5>1, <5>2, FrontOf
        <5> QED BY <5>1, <5>2, <5>3
      <4> QED BY <4>1, <4>4, <4>5
    <3>4. PICK k \in Nat : Len(sides) = k + 1 /\ Len(sides') = k /\ k >= 1
      <4>1. Len(sides) \in Nat /\ Len(sides) - 1 \in Nat
        BY <1>1, <3>2
      <4> QED BY <3>1, <3>2, <4>1
    <3>5. PICK l \in Nat : Len(contexts) = l + 1 /\ Len(contexts') = l /\ l >= 1
      <4>1. Len(contexts) \in Nat /\ Len(contexts) - 1 \in Nat
        BY <1>1, <3>3
      <4> QED BY <3>1, <3>3, <4>1
    <3>6. /\ \A i \in 1 .. k : sides'[i] = sides[i]
          /\ \A i \in 1 .. l : contexts'[i] = contexts[i]
      BY <3>1, <3>2, <3>3, <3>4, <3>5
    <3>7. \A i, j \in 1 .. Len(sides') : i <= j /\ sides'[i] = "server" => sides'[j] = "server"
      BY <1>1, <3>4, <3>6, FrontOrdered
    <3>8. \A i, j \in 1 .. Len(contexts') : i <= j /\ contexts'[j] => contexts'[i]
      BY <1>1, <3>5, <3>6, FrontOrdered
    <3>9. sides' # <<>> /\ contexts' # <<>> /\ sides'[1] = "client" /\ contexts'[1]
      BY <1>1, <3>4, <3>5, <3>6
    <3> QED BY <1>2, <3>1, <3>2, <3>3, <3>4, <3>6, <3>7, <3>8, <3>9 DEF SidesTraced
  <2>2. CASE Top.kind # "routine"
    <3>1. sides' = sides /\ contexts' = contexts /\ Routined' = Routined
      BY <1>2, <2>2 DEF RestoreScopes
    <3>2. Traces(sides, 1, Routined, SideOf') /\ Traces(contexts, 1, Routined, ContextOf')
      <4>1. n + 1 \notin Routined
        BY <1>2, <2>2
      <4>2. \A p \in Routined : SideOf'[p] = SideOf[p] /\ ContextOf'[p] = ContextOf[p]
        BY <1>3, <4>1
      <4> QED BY <1>1, <4>2, TracesKeep
    <3> QED BY <1>1, <3>1, <3>2 DEF SidesTraced
  <2> QED BY <2>1, <2>2
<1>5. ASSUME NEW p \in 1 .. n
      PROVE  sides'[1 + Rank(Routined', p)] = sides[1 + Rank(Routined, p)]
  <2>1. Rank(Routined', p) = Rank(Routined, p)
    <3>1. {j \in Routined \ {n + 1} : j <= p} = {j \in Routined : j <= p}
      OBVIOUS
    <3> QED BY <1>2, <3>1 DEF Rank
  <2>2. Routined' \in SUBSET (1 .. n)
    BY <1>2
  <2>3. Rank(Routined', p) \in 0 .. Cardinality(Routined') /\ Cardinality(Routined') \in Nat
    BY <2>2, RankBounds
  <2>4. 1 + Rank(Routined', p) \in 1 .. Len(sides')
    BY <1>4, <2>3 DEF SidesTraced, Traces
  <2> QED BY <1>4, <2>1, <2>4
<1>6. ServerSound'
  <2>1. ASSUME NEW p \in 1 .. n
        PROVE  /\ stack'[p].crossing =>
                     /\ stack'[p].kind = "routine" /\ stack'[p].owner = "server"
                     /\ \A q \in 1 .. p - 1 : stack'[q].owner # "server"
               /\ ~stack'[p].begun => stack'[p].crossing
               /\ stack'[p].owner = "server" => sides'[1 + Rank(Routined', p)] = "server"
    <3>1. stack'[p] = stack[p] /\ p \in 1 .. Len(stack)
      BY <1>2
    <3>2. \A q \in 1 .. p - 1 : q \in 1 .. n /\ stack'[q] = stack[q]
      BY <1>2
    <3> QED BY <1>5, <3>1, <3>2 DEF ServerSound
  <2> QED BY <1>2, <2>1 DEF ServerSound
<1> QED BY <1>4, <1>6


(* The end of a list of a side that traces the constructs, with the last one. *)
LEMMA FrontTraced ==
    ASSUME NEW n \in Nat, NEW S \in SUBSET (1 .. n + 1), n + 1 \in S,
           NEW T, NEW x \in Seq(T), NEW value, NEW new, Traces(x, 0, S, value),
           \A p \in 1 .. n : new[p] = value[p]
    PROVE  Front(x) \in Seq(T) /\ Traces(Front(x), 0, S \ {n + 1}, new)
<1>1. /\ S \ {n + 1} \in SUBSET (1 .. n) /\ Cardinality(S) = Cardinality(S \ {n + 1}) + 1
  BY RankPop
<1>2. PICK k \in Nat : k = Cardinality(S \ {n + 1})
  BY <1>1, RankBounds
<1>3. Len(x) = k + 1
  BY <1>1, <1>2 DEF Traces
<1>4. Front(x) \in Seq(T)
  BY <1>3, FrontOf
<1>5. \A p \in S \ {n + 1} : new[p] = value[p]
  BY <1>1
<1>6. 0 \in Nat
  OBVIOUS
<1>7. Traces(Front(x), 0, S \ {n + 1}, new)
  BY <1>5, <1>6, TracesPop
<1> QED BY <1>4, <1>7

(* Leaving a construct gives back the diagnostics of the ones below it. *)
LEMMA DiagnosticsPop ==
    ASSUME ControlTyped, ServerSound, DiagnosticsTraced, NEW n \in Nat, Pops(n),
           diagnostics' = Restored(Top)
    PROVE  DiagnosticsTraced' /\ diagnostics' \in [Sides -> Handling]
<1>1. PICK e : e = Owner(Top.owner) /\ e \in Sides
  BY DEF Owner, Sides
<1>2. /\ Len(stack) = n + 1 /\ Len(stack') = n /\ stack[n + 1] = Top
      /\ \A p \in 1 .. n : stack'[p] = stack[p] /\ p \in 1 .. Len(stack) /\ p \in 1 .. Len(stack')
      /\ \A k, d : /\ Active(k, d) \in SUBSET (1 .. n + 1)
                   /\ Active(k, d)' = Active(k, d) \ {n + 1}
                   /\ n + 1 \in Active(k, d) <=> Top.kind = k /\ e = d
  BY <1>1 DEF Pops, Below
<1>3. Top.crossing => Top.kind = "routine" /\ e = "server" /\ diagnostics[e] = NoDiagnostics
  <2>1. ASSUME Top.crossing
        PROVE  /\ Top.kind = "routine" /\ Top.owner = "server"
               /\ \A q \in 1 .. n : stack[q].owner # "server"
    <3>1. n + 1 \in 1 .. Len(stack) /\ (n + 1) - 1 = n
      BY <1>2
    <3> QED BY <1>2, <2>1, <3>1 DEF ServerSound
  <2>2. ASSUME Top.crossing, NEW p \in 1 .. Len(stack), stack[p].owner = "server"
        PROVE  stack[p].kind \notin {"handler", "eval", "execute"}
    <3>1. p \in 1 .. n \/ p = n + 1
      BY <1>2
    <3> QED BY <1>2, <2>1, <2>2, <3>1
  <2>3. Top.crossing => diagnostics["server"] = NoDiagnostics
    BY <2>2, ServerIsClean
  <2> QED BY <1>1, <2>1, <2>3 DEF Owner
<1>4. diagnostics \in [Sides -> Handling]
  BY DEF ControlTyped
<1>5. diagnostics' = [diagnostics EXCEPT ![e] =
         IF Top.kind = "handler" THEN [diagnostics[e] EXCEPT !.handled = Front(@)]
         ELSE IF Top.kind = "eval"
              THEN [diagnostics[e] EXCEPT !.boundaries = Front(@), !.evals = @ - 1]
         ELSE IF Top.kind = "execute" THEN [diagnostics[e] EXCEPT !.executes = @ - 1]
         ELSE diagnostics[e]]
  BY <1>1, <1>3 DEF Restored
<1>6. ASSUME NEW d \in Sides
      PROVE  /\ diagnostics'[d] \in Handling
             /\ Traces(diagnostics'[d].handled, 0, Active("handler", d)', ErrorOf')
             /\ Traces(diagnostics'[d].boundaries, 0, Active("eval", d)', BoundaryOf(d)')
             /\ diagnostics'[d].evals = Cardinality(Active("eval", d)')
             /\ diagnostics'[d].executes = Cardinality(Active("execute", d)')
  <2>1. PICK r \in Handling : r = diagnostics[d]
    BY <1>4
  <2>2. /\ Traces(r.handled, 0, Active("handler", d), ErrorOf)
        /\ Traces(r.boundaries, 0, Active("eval", d), BoundaryOf(d))
        /\ r.evals = Cardinality(Active("eval", d))
        /\ r.executes = Cardinality(Active("execute", d))
        /\ r.handled \in Seq(Shown) /\ r.boundaries \in Seq(Nat)
        /\ r.evals \in Nat /\ r.executes \in Nat
    BY <2>1 DEF DiagnosticsTraced, Handling
  <2>3. PICK errors : errors = ErrorOf'
    OBVIOUS
  <2>4. PICK marks : marks = BoundaryOf(d)'
    OBVIOUS
  <2>5. /\ Active("handler", d) \in SUBSET (1 .. n + 1) /\ Active("eval", d) \in SUBSET (1 .. n + 1)
        /\ Active("execute", d) \in SUBSET (1 .. n + 1)
    BY <1>2
  <2>6. ASSUME NEW p \in 1 .. n PROVE errors[p] = ErrorOf[p] /\ marks[p] = BoundaryOf(d)[p]
    <3>1. {j \in Active("handler", d) \ {n + 1} : j <= p} = {j \in Active("handler", d) : j <= p}
      OBVIOUS
    <3>2. Rank(Active("handler", d)', p) = Rank(Active("handler", d), p)
      BY <1>2, <3>1 DEF Rank
    <3> QED BY <1>2, <2>3, <2>4, <3>2 DEF ErrorOf, BoundaryOf
  <2>7. ASSUME NEW k, ~(Top.kind = k /\ e = d)
        PROVE  Active(k, d)' = Active(k, d)
    <3>1. n + 1 \notin Active(k, d) /\ Active(k, d)' = Active(k, d) \ {n + 1}
      BY <1>2, <2>7
    <3>2. Active(k, d) \ {n + 1} = Active(k, d)
      BY <3>1
    <3> QED BY <3>1, <3>2
  <2>8. ~(Top.kind = "handler" /\ e = d) => Traces(r.handled, 0, Active("handler", d)', errors)
    <3>1. ASSUME ~(Top.kind = "handler" /\ e = d)
          PROVE  /\ Active("handler", d)' = Active("handler", d)
                 /\ \A p \in Active("handler", d) : errors[p] = ErrorOf[p]
      <4>1. n + 1 \notin Active("handler", d)
        BY <1>2, <3>1
      <4> QED BY <2>5, <2>6, <2>7, <3>1, <4>1
    <3> QED BY <2>2, <3>1, TracesKeep
  <2>9. ~(Top.kind = "eval" /\ e = d) => Traces(r.boundaries, 0, Active("eval", d)', marks)
    <3>1. ASSUME ~(Top.kind = "eval" /\ e = d)
          PROVE  /\ Active("eval", d)' = Active("eval", d)
                 /\ \A p \in Active("eval", d) : marks[p] = BoundaryOf(d)[p]
      <4>1. n + 1 \notin Active("eval", d)
        BY <1>2, <3>1
      <4> QED BY <2>5, <2>6, <2>7, <3>1, <4>1
    <3> QED BY <2>2, <3>1, TracesKeep
  <2>10. CASE e = d /\ Top.kind = "handler"
    <3>1. n + 1 \in Active("handler", d) /\ Active("handler", d)' = Active("handler", d) \ {n + 1}
      BY <1>2, <2>10
    <3>2. Front(r.handled) \in Seq(Shown) /\ Traces(Front(r.handled), 0, Active("handler", d)', errors)
      <4>1. \A p \in 1 .. n : errors[p] = ErrorOf[p]
        BY <2>6
      <4>2. /\ Front(r.handled) \in Seq(Shown)
            /\ Traces(Front(r.handled), 0, Active("handler", d) \ {n + 1}, errors)
        BY <2>2, <2>5, <3>1, <4>1, FrontTraced
      <4> QED BY <3>1, <4>2
    <3>3. diagnostics'[d] = [r EXCEPT !.handled = Front(r.handled)]
      BY <1>1, <1>4, <1>5, <2>1, <2>10
    <3>4. /\ diagnostics'[d] \in Handling /\ diagnostics'[d].handled = Front(r.handled)
          /\ diagnostics'[d].boundaries = r.boundaries
          /\ diagnostics'[d].evals = r.evals /\ diagnostics'[d].executes = r.executes
      BY <3>2, <3>3, HandlingCaught
    <3>5. /\ Active("eval", d)' = Active("eval", d) /\ Active("execute", d)' = Active("execute", d)
          /\ ~(Top.kind = "eval" /\ e = d)
      BY <2>7, <2>10
    <3> QED BY <2>2, <2>3, <2>4, <2>9, <3>2, <3>4, <3>5
  <2>11. CASE e = d /\ Top.kind = "eval"
    <3>1. n + 1 \in Active("eval", d) /\ Active("eval", d)' = Active("eval", d) \ {n + 1}
      BY <1>2, <2>11
    <3>2. /\ Front(r.boundaries) \in Seq(Nat)
          /\ Traces(Front(r.boundaries), 0, Active("eval", d)', marks)
      <4>1. \A p \in 1 .. n : marks[p] = BoundaryOf(d)[p]
        BY <2>6
      <4>2. PICK value : value = BoundaryOf(d)
        OBVIOUS
      <4>3. /\ Front(r.boundaries) \in Seq(Nat)
            /\ Traces(Front(r.boundaries), 0, Active("eval", d) \ {n + 1}, marks)
        BY <2>2, <2>5, <3>1, <4>1, <4>2, FrontTraced
      <4> QED BY <3>1, <4>3
    <3>3. /\ Cardinality(Active("eval", d)) = Cardinality(Active("eval", d)') + 1
          /\ Cardinality(Active("eval", d)') \in Nat
      <4>1. /\ Active("eval", d) \ {n + 1} \in SUBSET (1 .. n)
            /\ Cardinality(Active("eval", d)) = Cardinality(Active("eval", d) \ {n + 1}) + 1
        BY <2>5, <3>1, RankPop
      <4>2. Cardinality(Active("eval", d) \ {n + 1}) \in Nat
        BY <4>1, RankBounds
      <4> QED BY <3>1, <4>1, <4>2
    <3>4. r.evals - 1 = Cardinality(Active("eval", d)') /\ r.evals - 1 \in Nat
      BY <2>2, <3>3
    <3>5. diagnostics'[d] = [r EXCEPT !.boundaries = Front(r.boundaries), !.evals = r.evals - 1]
      BY <1>1, <1>4, <1>5, <2>1, <2>11
    <3>6. /\ diagnostics'[d] \in Handling /\ diagnostics'[d].handled = r.handled
          /\ diagnostics'[d].boundaries = Front(r.boundaries)
          /\ diagnostics'[d].evals = r.evals - 1 /\ diagnostics'[d].executes = r.executes
      <4>1. PICK bounds \in Seq(Nat) : bounds = Front(r.boundaries)
        BY <3>2
      <4>2. PICK k \in Nat : k = r.evals - 1
        BY <3>4
      <4>3. diagnostics'[d] = [handled |-> r.handled, boundaries |-> bounds, evals |-> k,
                               executes |-> r.executes]
        BY <3>5, <4>1, <4>2 DEF Handling
      <4>4. diagnostics'[d] \in Handling
        BY <4>1, <4>2, <4>3 DEF Handling
      <4> QED BY <4>1, <4>2, <4>3, <4>4
    <3>7. Active("execute", d)' = Active("execute", d) /\ ~(Top.kind = "handler" /\ e = d)
      BY <2>7, <2>11
    <3> QED BY <2>2, <2>3, <2>4, <2>8, <3>2, <3>4, <3>6, <3>7
  <2>12. CASE e = d /\ Top.kind = "execute"
    <3>1. n + 1 \in Active("execute", d)
          /\ Active("execute", d)' = Active("execute", d) \ {n + 1}
      BY <1>2, <2>12
    <3>2. /\ Cardinality(Active("execute", d)) = Cardinality(Active("execute", d)') + 1
          /\ Cardinality(Active("execute", d)') \in Nat
      <4>1. /\ Active("execute", d) \ {n + 1} \in SUBSET (1 .. n)
            /\ Cardinality(Active("execute", d)) = Cardinality(Active("execute", d) \ {n + 1}) + 1
        BY <2>5, <3>1, RankPop
      <4>2. Cardinality(Active("execute", d) \ {n + 1}) \in Nat
        BY <4>1, RankBounds
      <4> QED BY <3>1, <4>1, <4>2
    <3>3. r.executes - 1 = Cardinality(Active("execute", d)') /\ r.executes - 1 \in Nat
      BY <2>2, <3>2
    <3>4. diagnostics'[d] = [r EXCEPT !.executes = r.executes - 1]
      BY <1>1, <1>4, <1>5, <2>1, <2>12
    <3>5. /\ diagnostics'[d] \in Handling /\ diagnostics'[d].handled = r.handled
          /\ diagnostics'[d].boundaries = r.boundaries
          /\ diagnostics'[d].evals = r.evals /\ diagnostics'[d].executes = r.executes - 1
      BY <3>3, <3>4, HandlingFragment
    <3>6. /\ Active("eval", d)' = Active("eval", d) /\ ~(Top.kind = "eval" /\ e = d)
          /\ ~(Top.kind = "handler" /\ e = d)
      BY <2>7, <2>12
    <3> QED BY <2>2, <2>3, <2>4, <2>8, <2>9, <3>3, <3>5, <3>6
  <2>13. CASE ~(e = d /\ Top.kind \in {"handler", "eval", "execute"})
    <3>1. diagnostics'[d] = r
      BY <1>1, <1>4, <1>5, <2>1, <2>13
    <3>2. /\ Active("eval", d)' = Active("eval", d) /\ Active("execute", d)' = Active("execute", d)
          /\ ~(Top.kind = "eval" /\ e = d) /\ ~(Top.kind = "handler" /\ e = d)
      BY <2>7, <2>13
    <3> QED BY <2>2, <2>3, <2>4, <2>8, <2>9, <3>1, <3>2
  <2> QED BY <2>10, <2>11, <2>12, <2>13
<1>7. diagnostics' \in [Sides -> Handling]
  <2>1. DOMAIN diagnostics' = Sides /\ diagnostics' = [d \in Sides |-> diagnostics'[d]]
    BY <1>4, <1>5
  <2> QED BY <1>6, <2>1
<1> QED BY <1>6, <1>7 DEF DiagnosticsTraced

(* A module whose code ended becomes available, with its names published.   *)
Completes ==
    \/ cache' = cache
    \/ /\ Top.kind = "module" /\ Top.todo = <<>> /\ Top.owner # Main
       /\ cache' = cache \cup {Top.owner}

(* Leaving a module ends its load; one that completed becomes available. *)
LEMMA ImportsPop ==
    ASSUME ControlTyped, LoadsAreNested, LoadingIsExact, NamesArePublished,
           NEW n \in Nat, Pops(n), RestoreLoading(Top), Completes,
           UNCHANGED <<program, imported>>
    PROVE  /\ LoadsAreNested' /\ LoadingIsExact' /\ NamesArePublished'
           /\ loading' \in Seq(Modules) /\ cache' \in SUBSET Modules
<1>1. /\ Len(stack) = n + 1 /\ Len(stack') = n /\ stack[n + 1] = Top
      /\ n + 1 \in 1 .. n + 1 /\ (n + 1) - 1 = n
      /\ \A p \in 1 .. n : stack'[p] = stack[p] /\ p \in 1 .. n + 1
  BY DEF Pops, Below
<1>2. /\ loading \in Seq(Modules) /\ Len(loading) \in Nat /\ cache \in SUBSET Modules
      /\ Len(loading) <= n + 1
  BY <1>1 DEF ControlTyped, LoadingIsExact
<1>3. Top.kind = "module" =>
         /\ Top.owner \in Modules \ cache
         /\ Top.todo = <<>> => imported[Top.owner] = ToSet(program[Top.owner])
         /\ \A q \in 1 .. n : stack[q].owner # Top.owner
  BY <1>1 DEF LoadsAreNested
<1>4. /\ cache \subseteq cache' /\ cache' \in SUBSET Modules /\ Main \notin cache'
      /\ \A m \in cache' : m \in cache \/ imported[m] = ToSet(program[m])
  BY <1>2, <1>3 DEF Completes, NamesArePublished
<1>5. NamesArePublished'
  <2>1. ASSUME NEW m \in Modules
        PROVE  /\ imported[m] \subseteq cache'
               /\ imported[m] \in {{}, ToSet(program[m])}
               /\ m \in cache' => imported[m] = ToSet(program[m])
    BY <1>4 DEF NamesArePublished
  <2> QED BY <1>4, <2>1 DEF NamesArePublished
<1>6. LoadsAreNested'
  <2>1. ASSUME NEW p \in 1 .. n, stack'[p].kind = "module"
        PROVE  /\ stack'[p].owner \in Modules \ cache'
               /\ ToSet(stack'[p].todo) \subseteq ToSet(program[stack'[p].owner])
               /\ ToSet(program[stack'[p].owner]) \ ToSet(stack'[p].todo) \subseteq cache'
               /\ stack'[p].todo = <<>> =>
                     imported[stack'[p].owner] = ToSet(program[stack'[p].owner])
               /\ \A q \in 1 .. p - 1 : /\ stack'[q].kind = "module" /\ stack'[q].todo # <<>>
                                        /\ stack'[q].owner # stack'[p].owner
    <3>1. stack'[p] = stack[p] /\ p \in 1 .. Len(stack) /\ stack[p].kind = "module"
      BY <1>1, <2>1
    <3>2. \A q \in 1 .. p - 1 : stack'[q] = stack[q]
      BY <1>1
    <3>3. /\ stack[p].owner \in Modules \ cache
          /\ ToSet(stack[p].todo) \subseteq ToSet(program[stack[p].owner])
          /\ ToSet(program[stack[p].owner]) \ ToSet(stack[p].todo) \subseteq cache
          /\ stack[p].todo = <<>> =>
                imported[stack[p].owner] = ToSet(program[stack[p].owner])
          /\ \A q \in 1 .. p - 1 : /\ stack[q].kind = "module" /\ stack[q].todo # <<>>
                                   /\ stack[q].owner # stack[p].owner
      BY <3>1 DEF LoadsAreNested
    <3>4. stack[p].owner \notin cache'
      BY <1>3, <3>3 DEF Completes
    <3> QED BY <1>4, <3>1, <3>2, <3>3, <3>4
  <2> QED BY <1>1, <2>1 DEF LoadsAreNested
<1>7. LoadingIsExact' /\ loading' \in Seq(Modules)
  <2>1. \A p \in 1 .. n : /\ Loads(stack'[p]) <=> Loads(stack[p])
                          /\ p <= Len(loading) <=> Loads(stack[p])
    BY <1>1 DEF LoadingIsExact, Loads
  <2>2. \A p \in 1 .. Len(loading) : loading[p] = stack[p].owner
    BY DEF LoadingIsExact
  <2>3. n + 1 <= Len(loading) <=> Loads(Top)
    BY <1>1 DEF LoadingIsExact
  <2>4. CASE Loads(Top)
    <3>1. Len(loading) = n + 1 /\ loading' = Front(loading)
      BY <1>2, <2>3, <2>4 DEF Loads, RestoreLoading
    <3>2. /\ loading' \in Seq(Modules) /\ Len(loading') = n
          /\ \A p \in 1 .. n : loading'[p] = loading[p]
      BY <1>2, <3>1, FrontOf
    <3>3. \A p \in 1 .. n : p <= n <=> Loads(stack'[p])
      BY <2>1, <3>1
    <3>4. \A p \in 1 .. n : loading'[p] = stack'[p].owner
      BY <1>1, <2>2, <3>1, <3>2
    <3> QED BY <1>1, <3>2, <3>3, <3>4 DEF LoadingIsExact, Loads
  <2>5. CASE ~Loads(Top)
    <3>1. Len(loading) <= n /\ loading' = loading
      BY <1>2, <2>3, <2>5 DEF Loads, RestoreLoading
    <3>2. \A p \in 1 .. Len(loading) : loading[p] = stack'[p].owner
      <4>1. \A p \in 1 .. Len(loading) : p \in 1 .. n
        BY <1>2, <3>1
      <4> QED BY <1>1, <2>2, <4>1
    <3> QED BY <1>1, <1>2, <2>1, <3>1, <3>2 DEF LoadingIsExact, Loads
  <2> QED BY <2>4, <2>5
<1> QED BY <1>4, <1>5, <1>6, <1>7

-----------------------------------------------------------------------------
(* A construct is rewritten in place.                                       *)

Alike(n) ==
    /\ Len(stack) = n /\ Len(stack') = n /\ stack' \in Seq(Construct)
    /\ \A p \in 1 .. n :
          /\ stack[p] \in Construct /\ stack'[p].owner = stack[p].owner
          /\ \/ /\ stack'[p].kind = stack[p].kind /\ stack'[p].saved = stack[p].saved
                /\ stack'[p].side = stack[p].side /\ stack'[p].context = stack[p].context
                /\ stack'[p].crossing = stack[p].crossing
                /\ stack[p].begun => stack'[p].begun
             \/ /\ stack[p].kind = "try" /\ stack'[p].kind = "handler"
                /\ ~stack'[p].crossing /\ stack'[p].begun

(* A construct rewritten in place changes no side and no context. *)
LEMMA SidesKept ==
    ASSUME ControlTyped, SidesTraced, ServerSound, NEW n \in Nat, Alike(n),
           UNCHANGED <<sides, contexts>>
    PROVE  SidesTraced' /\ ServerSound' /\ Routined' = Routined
<1>1. /\ Len(stack) = n /\ Len(stack') = n /\ DOMAIN stack = 1 .. n /\ DOMAIN stack' = 1 .. n
      /\ \A p \in 1 .. n :
            /\ stack'[p].owner = stack[p].owner
            /\ stack'[p].kind = "routine" <=> stack[p].kind = "routine"
            /\ stack[p].kind = "routine" => /\ stack'[p].side = stack[p].side
                                            /\ stack'[p].context = stack[p].context
            /\ stack'[p].crossing => stack[p].crossing /\ stack'[p].kind = stack[p].kind
            /\ ~stack'[p].begun => ~stack[p].begun /\ stack'[p].crossing = stack[p].crossing
  BY DEF Alike
<1>2. Routined' = Routined
  BY <1>1 DEF Routined
<1>3. \A p \in Routined : SideOf'[p] = SideOf[p] /\ ContextOf'[p] = ContextOf[p]
  BY <1>1 DEF SideOf, ContextOf, Routined
<1>4. SidesTraced'
  <2>1. Traces(sides, 1, Routined, SideOf') /\ Traces(contexts, 1, Routined, ContextOf')
    BY <1>3, TracesKeep DEF SidesTraced
  <2> QED BY <1>2, <2>1 DEF SidesTraced
<1>5. ServerSound'
  <2>1. ASSUME NEW p \in 1 .. n
        PROVE  /\ stack'[p].crossing =>
                     /\ stack'[p].kind = "routine" /\ stack'[p].owner = "server"
                     /\ \A q \in 1 .. p - 1 : stack'[q].owner # "server"
               /\ ~stack'[p].begun => stack'[p].crossing
               /\ stack'[p].owner = "server" => sides[1 + Rank(Routined, p)] = "server"
    <3>1. \A q \in 1 .. p - 1 : stack'[q].owner = stack[q].owner
      BY <1>1
    <3>2. /\ stack[p].crossing =>
                /\ stack[p].kind = "routine" /\ stack[p].owner = "server"
                /\ \A q \in 1 .. p - 1 : stack[q].owner # "server"
          /\ ~stack[p].begun => stack[p].crossing
          /\ stack[p].owner = "server" => sides[1 + Rank(Routined, p)] = "server"
      BY <1>1 DEF ServerSound
    <3>3. stack'[p].crossing => \A q \in 1 .. p - 1 : stack'[q].owner # "server"
      BY <1>1, <3>1, <3>2
    <3> QED BY <1>1, <3>2, <3>3
  <2> QED BY <1>1, <1>2, <2>1 DEF ServerSound
<1> QED BY <1>2, <1>4, <1>5

(* A construct rewritten in place changes no scope. *)
LEMMA ScopesKept ==
    ASSUME ControlTyped, ScopesSaved, NEW n \in Nat, Alike(n), UNCHANGED locals,
           \A p \in 1 .. n : stack'[p].begun = stack[p].begun \/ stack'[p].kind \in Inner
    PROVE  ScopesSaved'
<1>1. /\ Len(stack) = n /\ Len(stack') = n
      /\ \A p \in 1 .. n :
            /\ stack'[p].owner = stack[p].owner
            /\ stack'[p].kind \in {"routine", "execute"} =>
                  /\ stack[p].kind = stack'[p].kind /\ stack'[p].saved = stack[p].saved
            /\ \A i : Opens(stack'[p], i) <=> Opens(stack[p], i)
  BY DEF Alike, Opens, Inner
<1>2. ASSUME NEW i, NEW p \in 0 .. n PROVE OpenBelow(stack', i, p) = OpenBelow(stack, i, p)
  <2>1. \A j \in 1 .. p : j \in 1 .. n
    OBVIOUS
  <2> QED BY <1>1, <2>1 DEF OpenBelow
<1>3. \A i \in Interpreters : locals[i] = Innermost(OpenBelow(stack', i, n))
  BY <1>1, <1>2 DEF ScopesSaved
<1>4. ASSUME NEW p \in 1 .. n, stack'[p].kind \in {"routine", "execute"}
      PROVE  stack'[p].saved = Innermost(OpenBelow(stack', stack'[p].owner, p - 1))
  <2>1. p - 1 \in 0 .. n /\ p \in 1 .. Len(stack)
    BY <1>1
  <2>2. stack[p].saved = Innermost(OpenBelow(stack, stack[p].owner, p - 1))
    BY <1>1, <1>4, <2>1 DEF ScopesSaved
  <2> QED BY <1>1, <1>2, <1>4, <2>1, <2>2
<1> QED BY <1>1, <1>3, <1>4 DEF ScopesSaved

(* A construct rewritten in place changes no import. *)
LEMMA ImportsKept ==
    ASSUME ControlTyped, LoadsAreNested, LoadingIsExact, NamesArePublished,
           NEW n \in Nat, Alike(n), UNCHANGED <<program, loading, cache, imported>>,
           \A p \in 1 .. n : stack[p].kind = "module" => stack'[p].todo = stack[p].todo
    PROVE  LoadsAreNested' /\ LoadingIsExact' /\ NamesArePublished'
<1>1. /\ Len(stack) = n /\ Len(stack') = n /\ Len(loading) \in Nat /\ Len(loading) <= n
      /\ \A p \in 1 .. n :
            /\ stack'[p].owner = stack[p].owner
            /\ stack'[p].kind = "module" <=> stack[p].kind = "module"
            /\ stack[p].kind = "module" => stack'[p].todo = stack[p].todo
  <2>1. /\ Len(stack) = n /\ Len(stack') = n /\ Len(loading) \in Nat /\ Len(loading) <= n
    BY DEF Alike, ControlTyped, LoadingIsExact
  <2>2. ASSUME NEW p \in 1 .. n
        PROVE  /\ stack'[p].owner = stack[p].owner
               /\ stack'[p].kind = "module" <=> stack[p].kind = "module"
    BY DEF Alike
  <2> QED BY <2>1, <2>2
<1>2. LoadsAreNested'
  <2>1. ASSUME NEW p \in 1 .. n, stack'[p].kind = "module"
        PROVE  /\ stack'[p].owner \in Modules \ cache
               /\ ToSet(stack'[p].todo) \subseteq ToSet(program[stack'[p].owner])
               /\ ToSet(program[stack'[p].owner]) \ ToSet(stack'[p].todo) \subseteq cache
               /\ stack'[p].todo = <<>> =>
                     imported[stack'[p].owner] = ToSet(program[stack'[p].owner])
               /\ \A q \in 1 .. p - 1 : /\ stack'[q].kind = "module" /\ stack'[q].todo # <<>>
                                        /\ stack'[q].owner # stack'[p].owner
    <3>1. \A q \in 1 .. p - 1 : q \in 1 .. n
      BY <1>1
    <3> QED BY <1>1, <2>1, <3>1 DEF LoadsAreNested
  <2> QED BY <1>1, <2>1 DEF LoadsAreNested
<1>3. LoadingIsExact'
  <2>1. \A p \in 1 .. n : Loads(stack'[p]) <=> Loads(stack[p])
    BY <1>1 DEF Loads
  <2>2. \A p \in 1 .. Len(loading) : p \in 1 .. n
    BY <1>1
  <2> QED BY <1>1, <2>1, <2>2 DEF LoadingIsExact, Loads
<1>4. NamesArePublished'
  BY DEF NamesArePublished
<1> QED BY <1>2, <1>3, <1>4

(* A construct rewritten in place changes no diagnostics. *)
LEMMA DiagnosticsKept ==
    ASSUME ControlTyped, DiagnosticsTraced, NEW n \in Nat, Alike(n), UNCHANGED diagnostics,
           \A p \in 1 .. n : /\ stack'[p].kind = stack[p].kind /\ stack'[p].error = stack[p].error
                             /\ stack'[p].nested = stack[p].nested
    PROVE  DiagnosticsTraced'
<1>1. /\ Len(stack) = n /\ Len(stack') = n /\ DOMAIN stack = 1 .. n /\ DOMAIN stack' = 1 .. n
      /\ \A p \in 1 .. n : stack'[p].owner = stack[p].owner
  BY DEF Alike
<1>2. \A k, d : Active(k, d)' = Active(k, d)
  BY <1>1 DEF Active
<1>3. ErrorOf' = ErrorOf /\ \A d : BoundaryOf(d)' = BoundaryOf(d)
  BY <1>1, <1>2 DEF ErrorOf, BoundaryOf
<1> QED BY <1>2, <1>3 DEF DiagnosticsTraced

(* The first name of a list, and those left. *)
LEMMA TailNames ==
    ASSUME NEW T, NEW s \in Seq(T), s # <<>>
    PROVE  /\ Tail(s) \in Seq(T) /\ Head(s) \in T
           /\ ToSet(s) = {Head(s)} \cup ToSet(Tail(s))
           /\ Tail(s) = <<>> <=> ~(Len(s) > 1)
           /\ Tail(s) = <<>> => ToSet(s) = {Head(s)}
<1>1. PICK k \in Nat : Len(s) = k + 1
  <2>1. Len(s) \in Nat \ {0}
    BY EmptySeq
  <2>2. Len(s) - 1 \in Nat /\ Len(s) = (Len(s) - 1) + 1
    BY <2>1
  <2> QED BY <2>2
<1>2. /\ Tail(s) \in Seq(T) /\ Head(s) \in T /\ Len(Tail(s)) = k /\ Head(s) = s[1]
      /\ \A i \in 1 .. k : Tail(s)[i] = s[i + 1]
  BY <1>1, ElementOfSeq
<1>3. ToSet(s) = {s[i] : i \in 1 .. k + 1} /\ ToSet(Tail(s)) = {Tail(s)[i] : i \in 1 .. k}
  <2>1. DOMAIN s = 1 .. k + 1 /\ DOMAIN Tail(s) = 1 .. k
    BY <1>1, <1>2
  <2> QED BY <2>1 DEF ToSet
<1>4. ToSet(s) = {Head(s)} \cup ToSet(Tail(s))
  <2>1. \A i \in 1 .. k : i + 1 \in 1 .. k + 1
    OBVIOUS
  <2>2. \A i \in 1 .. k + 1 : i = 1 \/ (i - 1 \in 1 .. k /\ (i - 1) + 1 = i)
    OBVIOUS
  <2>3. ASSUME NEW i \in 1 .. k + 1 PROVE s[i] \in {Head(s)} \cup ToSet(Tail(s))
    <3>1. CASE i = 1
      BY <1>2, <3>1
    <3>2. CASE i # 1
      <4>1. PICK j \in 1 .. k : j + 1 = i
        BY <2>2, <3>2
      <4>2. s[i] = Tail(s)[j]
        BY <1>2, <4>1
      <4> QED BY <1>3, <4>2
    <3> QED BY <3>1, <3>2
  <2>4. 1 \in 1 .. k + 1
    OBVIOUS
  <2> QED BY <1>2, <1>3, <2>1, <2>3, <2>4
<1>5. Tail(s) = <<>> <=> k = 0
  BY <1>2, EmptySeq
<1>6. Tail(s) = <<>> => ToSet(Tail(s)) = {}
  BY DEF ToSet
<1> QED BY <1>1, <1>2, <1>4, <1>5, <1>6

(* The module on top has the first name it imports dealt with. *)
LEMMA ModuleResumed ==
    ASSUME ControlTyped, LoadsAreNested, LoadingIsExact, NamesArePublished,
           NEW n \in Nat, Len(stack) = n + 1, Top = stack[n + 1],
           Top.kind = "module", Top.todo # <<>>, Head(Top.todo) \in cache,
           stack' = [stack EXCEPT ![Len(stack)].todo = Tail(@)],
           Publish(Top.owner, Top.todo),
           UNCHANGED <<program, loading, cache>>
    PROVE  /\ LoadsAreNested' /\ LoadingIsExact' /\ NamesArePublished'
           /\ imported' \in [Modules -> SUBSET Modules]
           /\ Alike(n + 1)
           /\ \A p \in 1 .. n + 1 :
                 /\ stack'[p].begun = stack[p].begun
                 /\ stack'[p].kind = stack[p].kind /\ stack'[p].error = stack[p].error
                 /\ stack'[p].nested = stack[p].nested
<1>1. PICK m : m = Top.owner
  OBVIOUS
<1>2. PICK todo : todo = Top.todo
  OBVIOUS
<1>3. /\ Top \in Construct /\ todo \in Seq(Modules) /\ todo # <<>>
      /\ program \in [Modules -> Seq(Modules)] /\ imported \in [Modules -> SUBSET Modules]
      /\ stack \in Seq(Construct) /\ n + 1 \in 1 .. n + 1
  <2>1. Top \in Construct /\ n + 1 \in 1 .. n + 1 /\ stack \in Seq(Construct)
    <3>1. n + 1 \in 1 .. Len(stack)
      OBVIOUS
    <3> QED BY <3>1, StackFacts DEF ControlTyped
  <2> QED BY <1>2, <2>1 DEF ControlTyped, Construct
<1>4. /\ m \in Modules \ cache
      /\ ToSet(todo) \subseteq ToSet(program[m]) /\ ToSet(program[m]) \ ToSet(todo) \subseteq cache
      /\ \A q \in 1 .. n : stack[q].kind = "module" /\ stack[q].todo # <<>> /\ stack[q].owner # m
  <2>1. (n + 1) - 1 = n
    OBVIOUS
  <2>2. n + 1 \in 1 .. Len(stack)
    BY <1>3
  <2> QED BY <1>1, <1>2, <2>1, <2>2 DEF LoadsAreNested
<1>5. /\ Tail(todo) \in Seq(Modules) /\ ToSet(todo) = {Head(todo)} \cup ToSet(Tail(todo))
      /\ Tail(todo) = <<>> <=> ~(Len(todo) > 1)
      /\ Tail(todo) = <<>> => ToSet(todo) = {Head(todo)}
  BY <1>3, TailNames
<1>6. Head(todo) \in cache
  BY <1>2
<1>7. PICK new : new = [Top EXCEPT !.todo = Tail(todo)]
  OBVIOUS
<1>8. /\ new \in Construct /\ new.todo = Tail(todo)
      /\ new.kind = Top.kind /\ new.owner = Top.owner /\ new.saved = Top.saved
      /\ new.error = Top.error /\ new.nested = Top.nested /\ new.side = Top.side
      /\ new.context = Top.context /\ new.crossing = Top.crossing /\ new.begun = Top.begun
  BY <1>3, <1>5, <1>7 DEF Construct
<1>9. /\ stack' \in Seq(Construct) /\ Len(stack') = n + 1 /\ stack'[n + 1] = new
      /\ \A p \in 1 .. n : stack'[p] = stack[p]
  <2>1. stack' = [stack EXCEPT ![n + 1] = new]
    BY <1>2, <1>7
  <2> QED BY <1>3, <1>8, <2>1
<1>10. \A p \in 1 .. n + 1 : p \in 1 .. n \/ p = n + 1
  OBVIOUS
<1>11. \A p \in 1 .. n + 1 : /\ stack'[p].owner = stack[p].owner
                             /\ stack'[p].kind = stack[p].kind
                             /\ stack'[p].saved = stack[p].saved
                             /\ stack'[p].side = stack[p].side
                             /\ stack'[p].context = stack[p].context
                             /\ stack'[p].crossing = stack[p].crossing
                             /\ stack'[p].begun = stack[p].begun
                             /\ stack'[p].error = stack[p].error
                             /\ stack'[p].nested = stack[p].nested
  BY <1>8, <1>9, <1>10
<1>12. Alike(n + 1)
  <2>1. \A p \in 1 .. n + 1 : stack[p] \in Construct
    BY StackFacts
  <2> QED BY <1>9, <1>11, <2>1 DEF Alike
<1>13. /\ imported' \in [Modules -> SUBSET Modules]
       /\ \A k \in Modules \ {m} : imported'[k] = imported[k]
       /\ Tail(todo) # <<>> => imported'[m] = imported[m]
       /\ Tail(todo) = <<>> => imported'[m] = ToSet(program[m]) /\ ToSet(program[m]) \subseteq cache
  <2>1. CASE Tail(todo) # <<>>
    <3>1. imported' = imported
      BY <1>1, <1>2, <1>5, <2>1 DEF Publish
    <3> QED BY <1>3, <2>1, <3>1
  <2>2. CASE Tail(todo) = <<>>
    <3>1. imported' = [imported EXCEPT ![m] = imported[m] \cup ToSet(program[m])]
      BY <1>1, <1>2, <1>5, <2>2 DEF Publish
    <3>2. imported[m] \cup ToSet(program[m]) = ToSet(program[m])
      BY <1>4 DEF NamesArePublished
    <3>3. ToSet(program[m]) \subseteq cache /\ cache \in SUBSET Modules
      BY <1>4, <1>5, <1>6, <2>2 DEF ControlTyped
    <3> QED BY <1>3, <1>4, <2>2, <3>1, <3>2, <3>3
  <2> QED BY <2>1, <2>2
<1>14. NamesArePublished'
  <2>1. ASSUME NEW k \in Modules
        PROVE  /\ imported'[k] \subseteq cache
               /\ imported'[k] \in {{}, ToSet(program[k])}
               /\ k \in cache => imported'[k] = ToSet(program[k])
    <3>1. CASE k = m
      <4>1. imported[m] \subseteq cache /\ imported[m] \in {{}, ToSet(program[m])} /\ m \notin cache
        BY <1>4 DEF NamesArePublished
      <4> QED BY <1>13, <3>1, <4>1
    <3>2. CASE k # m
      BY <1>13, <3>2 DEF NamesArePublished
    <3> QED BY <3>1, <3>2
  <2> QED BY <2>1 DEF NamesArePublished
<1>15. LoadsAreNested'
  <2>1. ASSUME NEW p \in 1 .. n
        PROVE  /\ stack'[p].owner \in Modules \ cache
               /\ ToSet(stack'[p].todo) \subseteq ToSet(program[stack'[p].owner])
               /\ ToSet(program[stack'[p].owner]) \ ToSet(stack'[p].todo) \subseteq cache
               /\ stack'[p].todo # <<>>
               /\ \A q \in 1 .. p - 1 : /\ stack'[q].kind = "module" /\ stack'[q].todo # <<>>
                                        /\ stack'[q].owner # stack'[p].owner
    <3>1. stack'[p] = stack[p] /\ p \in 1 .. Len(stack) /\ stack[p].kind = "module"
      BY <1>4, <1>9
    <3>2. \A q \in 1 .. p - 1 : q \in 1 .. n /\ stack'[q] = stack[q]
      BY <1>9
    <3> QED BY <1>4, <3>1, <3>2 DEF LoadsAreNested
  <2>2. /\ ToSet(new.todo) \subseteq ToSet(program[m])
        /\ ToSet(program[m]) \ ToSet(new.todo) \subseteq cache
        /\ new.todo = <<>> => imported'[m] = ToSet(program[m])
    BY <1>4, <1>5, <1>6, <1>8, <1>13
  <2>3. \A q \in 1 .. (n + 1) - 1 : /\ stack'[q].kind = "module" /\ stack'[q].todo # <<>>
                                    /\ stack'[q].owner # m
    BY <1>4, <1>9
  <2>4. /\ stack'[n + 1].owner = m /\ m \in Modules \ cache /\ stack'[n + 1] = new
        /\ Len(stack') = n + 1
    BY <1>1, <1>4, <1>8, <1>9
  <2>5. ASSUME NEW p \in 1 .. n + 1
        PROVE  /\ stack'[p].owner \in Modules \ cache
               /\ ToSet(stack'[p].todo) \subseteq ToSet(program[stack'[p].owner])
               /\ ToSet(program[stack'[p].owner]) \ ToSet(stack'[p].todo) \subseteq cache
               /\ stack'[p].todo = <<>> =>
                     imported'[stack'[p].owner] = ToSet(program[stack'[p].owner])
               /\ \A q \in 1 .. p - 1 : /\ stack'[q].kind = "module" /\ stack'[q].todo # <<>>
                                        /\ stack'[q].owner # stack'[p].owner
    <3>1. CASE p \in 1 .. n
      BY <2>1, <3>1
    <3>2. CASE p = n + 1
      BY <2>2, <2>3, <2>4, <3>2
    <3> QED BY <1>10, <3>1, <3>2
  <2> QED BY <2>4, <2>5 DEF LoadsAreNested
<1>16. LoadingIsExact'
  <2>1. \A p \in 1 .. n + 1 : Loads(stack'[p]) <=> Loads(stack[p])
    BY <1>11 DEF Loads
  <2>2. Len(loading) \in Nat /\ Len(loading) <= n + 1
    BY DEF ControlTyped, LoadingIsExact
  <2>3. \A p \in 1 .. Len(loading) : p \in 1 .. n + 1
    BY <2>2
  <2> QED BY <1>9, <1>11, <2>1, <2>2, <2>3 DEF LoadingIsExact, Loads
<1> QED BY <1>11, <1>12, <1>13, <1>14, <1>15, <1>16

(* The server's routine starts: names resolve in its scope, the first of    *)
(* its interpreter.                                                         *)
LEMMA ServerStarted ==
    ASSUME ControlTyped, ServerSound, ScopesSaved,
           NEW n \in Nat, Len(stack) = n + 1, Top = stack[n + 1], ~Top.begun,
           stack' = [stack EXCEPT ![Len(stack)].begun = TRUE],
           locals' = [locals EXCEPT !["server"] = Len(stack)]
    PROVE  /\ ScopesSaved' /\ locals' \in [Interpreters -> Nat]
           /\ Alike(n + 1)
           /\ \A p \in 1 .. n + 1 :
                 /\ stack'[p].todo = stack[p].todo
                 /\ stack'[p].kind = stack[p].kind /\ stack'[p].error = stack[p].error
                 /\ stack'[p].nested = stack[p].nested
<1>1. /\ Top \in Construct /\ stack \in Seq(Construct) /\ n + 1 \in 1 .. n + 1
      /\ locals \in [Interpreters -> Nat] /\ "server" \in Interpreters
  <2>1. n + 1 \in 1 .. Len(stack)
    OBVIOUS
  <2> QED BY <2>1, StackFacts DEF ControlTyped, Interpreters
<1>2. /\ Top.crossing /\ Top.kind = "routine" /\ Top.owner = "server"
      /\ \A q \in 1 .. n : stack[q].owner # "server"
  <2>1. (n + 1) - 1 = n
    OBVIOUS
  <2>2. n + 1 \in 1 .. Len(stack)
    BY <1>1
  <2> QED BY <2>1, <2>2 DEF ServerSound
<1>3. PICK new : new = [Top EXCEPT !.begun = TRUE]
  OBVIOUS
<1>4. /\ new \in Construct /\ new.todo = Top.todo
      /\ new.kind = Top.kind /\ new.owner = Top.owner /\ new.saved = Top.saved
      /\ new.error = Top.error /\ new.nested = Top.nested /\ new.side = Top.side
      /\ new.context = Top.context /\ new.crossing = Top.crossing /\ new.begun
  BY <1>1, <1>3 DEF Construct
<1>5. /\ stack' \in Seq(Construct) /\ Len(stack') = n + 1 /\ stack'[n + 1] = new
      /\ \A p \in 1 .. n : stack'[p] = stack[p]
  <2>1. stack' = [stack EXCEPT ![n + 1] = new]
    BY <1>3
  <2> QED BY <1>1, <1>4, <2>1
<1>6. \A p \in 1 .. n + 1 : p \in 1 .. n \/ p = n + 1
  OBVIOUS
<1>7. \A p \in 1 .. n + 1 : /\ stack'[p].owner = stack[p].owner
                            /\ stack'[p].kind = stack[p].kind
                            /\ stack'[p].saved = stack[p].saved
                            /\ stack'[p].side = stack[p].side
                            /\ stack'[p].context = stack[p].context
                            /\ stack'[p].crossing = stack[p].crossing
                            /\ stack[p].begun => stack'[p].begun
                            /\ stack'[p].todo = stack[p].todo
                            /\ stack'[p].error = stack[p].error
                            /\ stack'[p].nested = stack[p].nested
  BY <1>4, <1>5, <1>6
<1>8. Alike(n + 1)
  <2>1. \A p \in 1 .. n + 1 : stack[p] \in Construct
    BY StackFacts
  <2> QED BY <1>5, <1>7, <2>1 DEF Alike
<1>9. ASSUME NEW i, NEW p \in 0 .. n PROVE OpenBelow(stack', i, p) = OpenBelow(stack, i, p)
  <2>1. \A j \in 1 .. p : j \in 1 .. n
    OBVIOUS
  <2> QED BY <1>5, <2>1 DEF OpenBelow
<1>10. ASSUME NEW i \in Interpreters PROVE locals'[i] = Innermost(OpenBelow(stack', i, n + 1))
  <2>1. CASE i = "server"
    <3>1. Opens(new, i)
      BY <1>2, <1>4, <2>1 DEF Opens
    <3>2. n + 1 \in OpenBelow(stack', i, n + 1)
      BY <1>1, <1>5, <3>1 DEF OpenBelow
    <3>3. n + 1 \in Nat
      OBVIOUS
    <3>4. OpenBelow(stack', i, n + 1) \in SUBSET (1 .. n + 1)
      BY <3>3, OpenBelowPlaces
    <3>5. Innermost(OpenBelow(stack', i, n + 1)) = n + 1
      BY <3>2, <3>3, <3>4, InnermostIsLast
    <3> QED BY <1>1, <2>1, <3>5
  <2>2. CASE i # "server"
    <3>1. \A j \in 1 .. n + 1 : Opens(stack'[j], i) <=> Opens(stack[j], i)
      <4>1. ~Opens(new, i) /\ ~Opens(Top, i)
        BY <1>2, <1>4, <2>2 DEF Opens
      <4> QED BY <1>5, <1>6, <4>1
    <3>2. OpenBelow(stack', i, n + 1) = OpenBelow(stack, i, n + 1)
      BY <3>1 DEF OpenBelow
    <3>3. locals[i] = Innermost(OpenBelow(stack, i, n + 1)) /\ locals'[i] = locals[i]
      BY <1>1, <2>2 DEF ScopesSaved
    <3> QED BY <3>2, <3>3
  <2> QED BY <2>1, <2>2
<1>11. ASSUME NEW p \in 1 .. n + 1, stack'[p].kind \in {"routine", "execute"}
       PROVE  stack'[p].saved = Innermost(OpenBelow(stack', stack'[p].owner, p - 1))
  <2>1. p - 1 \in 0 .. n /\ p \in 1 .. Len(stack)
    OBVIOUS
  <2>2. stack[p].saved = Innermost(OpenBelow(stack, stack[p].owner, p - 1))
    BY <1>7, <1>11, <2>1 DEF ScopesSaved
  <2>3. OpenBelow(stack', stack[p].owner, p - 1) = OpenBelow(stack, stack[p].owner, p - 1)
    BY <1>9, <2>1
  <2>4. stack'[p].saved = stack[p].saved /\ stack'[p].owner = stack[p].owner
    BY <1>7
  <2> QED BY <2>2, <2>3, <2>4
<1>12. ScopesSaved' /\ locals' \in [Interpreters -> Nat]
  <2>1. locals' \in [Interpreters -> Nat]
    BY <1>1
  <2> QED BY <1>5, <1>10, <1>11, <2>1 DEF ScopesSaved
<1> QED BY <1>7, <1>8, <1>12

(* A list whose entries are all discarded. *)
LEMMA NonesTrace ==
    ASSUME NEW n \in Nat, NEW S \in SUBSET (1 .. n), NEW x \in Seq(Shown), NEW value, NEW new,
           Traces(x, 0, S, value), \A p \in S : new[p] = "none",
           NEW y, Len(y) = Len(x), \A i \in 1 .. Len(x) : y[i] = "none"
    PROVE  Traces(y, 0, S, new)
<1>2. PICK k \in Nat : k = Len(x)
  OBVIOUS
<1>3. Len(y) = k /\ \A i \in 1 .. k : y[i] = "none"
  BY <1>2
<1>4. Len(y) = 0 + Cardinality(S) /\ k = Cardinality(S)
  <2>1. Cardinality(S) \in Nat
    BY RankBounds
  <2> QED BY <1>2, <1>3, <2>1 DEF Traces
<1>5. ASSUME NEW p \in S PROVE y[0 + Rank(S, p)] = new[p]
  <2>1. Rank(S, p) \in 0 .. Cardinality(S) /\ Rank(S, p) >= 1
    BY RankBounds
  <2>2. 0 + Rank(S, p) \in 1 .. k
    BY <1>4, <2>1
  <2> QED BY <1>3, <2>2
<1> QED BY <1>4, <1>5 DEF Traces

(* The Try on top becomes its handler, and the handlers around it lose the  *)
(* errors they show.                                                        *)
LEMMA ErrorHandled ==
    ASSUME ControlTyped, ServerSound, DiagnosticsTraced,
           NEW n \in Nat, Len(stack) = n + 1, Top = stack[n + 1], Handle
    PROVE  /\ DiagnosticsTraced' /\ diagnostics' \in [Sides -> Handling]
           /\ Alike(n + 1)
           /\ \A p \in 1 .. n + 1 :
                 /\ stack'[p].begun = stack[p].begun \/ stack'[p].kind \in Inner
                 /\ stack[p].kind = "module" => stack'[p].todo = stack[p].todo
<1>1. PICK e : e = Owner(Top.owner) /\ e \in Sides
  BY DEF Owner, Sides
<1>2. /\ Top.kind = "try" /\ signal \in Errors
      /\ Top \in Construct /\ stack \in Seq(Construct) /\ n + 1 \in 1 .. n + 1
      /\ \A p \in 1 .. n : stack[p] \in Construct /\ p \in 1 .. n + 1
  <2>1. n + 1 \in 1 .. Len(stack) /\ \A p \in 1 .. n : p \in 1 .. Len(stack)
    OBVIOUS
  <2> QED BY <2>1, StackFacts DEF ControlTyped, Handle
<1> DEFINE Mine(f) == f.kind = "handler" /\ Owner(f.owner) = e
<1>3. PICK new : new = [Frame("handler", Top.owner) EXCEPT !.error = signal]
  OBVIOUS
<1>4. /\ new \in Construct /\ new.kind = "handler" /\ new.owner = Top.owner /\ new.error = signal
      /\ ~new.nested /\ ~new.crossing /\ new.begun
  <2>1. new = [kind |-> "handler", owner |-> Top.owner, saved |-> 0, todo |-> <<>>,
               error |-> signal, nested |-> FALSE, side |-> "client", context |-> TRUE,
               crossing |-> FALSE, begun |-> TRUE]
    BY <1>3 DEF Frame
  <2>2. Top.owner \in Interpreters /\ signal \in Shown
    BY <1>2 DEF Construct, Shown
  <2>3. new \in Construct
    BY <2>1, <2>2 DEF Construct, Kinds, Sides
  <2> QED BY <2>1, <2>3
<1>5. PICK lower : lower = [p \in 1 .. n |-> [stack[p] EXCEPT !.nested = stack[p].nested \/ Mine(stack[p])]]
  OBVIOUS
<1>6. ASSUME NEW p \in 1 .. n
      PROVE  /\ lower[p] \in Construct
             /\ lower[p].kind = stack[p].kind /\ lower[p].owner = stack[p].owner
             /\ lower[p].saved = stack[p].saved /\ lower[p].todo = stack[p].todo
             /\ lower[p].error = stack[p].error /\ lower[p].side = stack[p].side
             /\ lower[p].context = stack[p].context /\ lower[p].crossing = stack[p].crossing
             /\ lower[p].begun = stack[p].begun
             /\ lower[p].nested = (stack[p].nested \/ Mine(stack[p]))
  <2>1. PICK b \in BOOLEAN : b = (stack[p].nested \/ Mine(stack[p]))
    OBVIOUS
  <2>2. lower[p] = [stack[p] EXCEPT !.nested = b] /\ stack[p] \in Construct
    BY <1>2, <1>5, <2>1
  <2> HIDE DEF Mine
  <2> QED BY <2>1, <2>2 DEF Construct
<1>7. stack' = Append(lower, new)
  <2>1. Len(stack) - 1 = n
    OBVIOUS
  <2> QED BY <1>1, <1>3, <1>5, <2>1 DEF Handle
<1>8. /\ stack' \in Seq(Construct) /\ Len(stack') = n + 1 /\ stack'[n + 1] = new
      /\ \A p \in 1 .. n : stack'[p] = lower[p]
  <2>1. lower \in [1 .. n -> Construct]
    BY <1>5, <1>6
  <2>2. lower \in Seq(Construct) /\ Len(lower) = n
    BY <2>1
  <2> QED BY <1>4, <1>7, <2>2
<1>9. \A p \in 1 .. n + 1 : p \in 1 .. n \/ p = n + 1
  OBVIOUS
<1>10. Alike(n + 1)
  <2>1. ASSUME NEW p \in 1 .. n + 1
        PROVE  /\ stack[p] \in Construct /\ stack'[p].owner = stack[p].owner
               /\ \/ /\ stack'[p].kind = stack[p].kind /\ stack'[p].saved = stack[p].saved
                     /\ stack'[p].side = stack[p].side /\ stack'[p].context = stack[p].context
                     /\ stack'[p].crossing = stack[p].crossing
                     /\ stack[p].begun => stack'[p].begun
                  \/ /\ stack[p].kind = "try" /\ stack'[p].kind = "handler"
                     /\ ~stack'[p].crossing /\ stack'[p].begun
    <3>1. CASE p \in 1 .. n
      BY <1>2, <1>6, <1>8, <3>1
    <3>2. CASE p = n + 1
      BY <1>2, <1>4, <1>8, <3>2
    <3> QED BY <1>9, <3>1, <3>2
  <2> QED BY <1>8, <2>1 DEF Alike
<1>11. ASSUME NEW p \in 1 .. n + 1
       PROVE  /\ stack'[p].begun = stack[p].begun \/ stack'[p].kind \in Inner
              /\ stack[p].kind = "module" => stack'[p].todo = stack[p].todo
  <2>1. CASE p \in 1 .. n
    BY <1>6, <1>8, <2>1
  <2>2. CASE p = n + 1
    BY <1>2, <1>4, <1>8, <2>2 DEF Inner
  <2> QED BY <1>9, <2>1, <2>2
<1>12. /\ DOMAIN stack = 1 .. n + 1 /\ DOMAIN stack' = 1 .. n + 1
  BY <1>2, <1>8
<1>13. ASSUME NEW k, NEW d
       PROVE  /\ Active(k, d) \in SUBSET (1 .. n + 1)
              /\ k # "try" => Active(k, d) \in SUBSET (1 .. n)
              /\ k \notin Inner => Active(k, d)' = Active(k, d)
              /\ d # e => Active("handler", d)' = Active("handler", d)
              /\ d = e => Active("handler", d)' = Active("handler", d) \cup {n + 1}
  <2>1. \A p \in 1 .. n : /\ stack'[p].kind = stack[p].kind
                          /\ Owner(stack'[p].owner) = Owner(stack[p].owner) /\ p # n + 1
    BY <1>6, <1>8
  <2>2. /\ stack[n + 1].kind = "try" /\ stack'[n + 1].kind = "handler"
        /\ Owner(stack[n + 1].owner) = e /\ Owner(stack'[n + 1].owner) = e
    BY <1>1, <1>2, <1>4, <1>8
  <2>3. Active(k, d) \in SUBSET (1 .. n + 1)
    BY <1>12 DEF Active
  <2>4. k # "try" => Active(k, d) \in SUBSET (1 .. n)
    BY <1>9, <1>12, <2>2 DEF Active
  <2>5. k \notin Inner => Active(k, d)' = Active(k, d)
    BY <1>9, <1>12, <2>1, <2>2 DEF Active, Inner
  <2>6. d # e => Active("handler", d)' = Active("handler", d)
    BY <1>9, <1>12, <2>1, <2>2 DEF Active
  <2>7. d = e => Active("handler", d)' = Active("handler", d) \cup {n + 1}
    BY <1>9, <1>12, <2>1, <2>2 DEF Active
  <2> QED BY <2>3, <2>4, <2>5, <2>6, <2>7
<1>14. ASSUME NEW d \in Sides
       PROVE  /\ diagnostics'[d] \in Handling
              /\ Traces(diagnostics'[d].handled, 0, Active("handler", d)', ErrorOf')
              /\ Traces(diagnostics'[d].boundaries, 0, Active("eval", d)', BoundaryOf(d)')
              /\ diagnostics'[d].evals = Cardinality(Active("eval", d)')
              /\ diagnostics'[d].executes = Cardinality(Active("execute", d)')
  <2>1. PICK r \in Handling : r = diagnostics[d]
    BY DEF ControlTyped
  <2>2. /\ Traces(r.handled, 0, Active("handler", d), ErrorOf)
        /\ Traces(r.boundaries, 0, Active("eval", d), BoundaryOf(d))
        /\ r.evals = Cardinality(Active("eval", d))
        /\ r.executes = Cardinality(Active("execute", d))
        /\ r.handled \in Seq(Shown)
    BY <2>1 DEF DiagnosticsTraced, Handling
  <2>3. PICK errors : errors = ErrorOf'
    OBVIOUS
  <2>4. PICK marks : marks = BoundaryOf(d)'
    OBVIOUS
  <2>5. PICK H : H = Active("handler", d)
    OBVIOUS
  <2>6. /\ H \in SUBSET (1 .. n) /\ Active("eval", d) \in SUBSET (1 .. n)
        /\ Active("eval", d)' = Active("eval", d) /\ Active("execute", d)' = Active("execute", d)
    BY <1>13, <2>5 DEF Inner
  <2>7. Active("handler", d)' = IF d = e THEN H \cup {n + 1} ELSE H
    BY <1>13, <2>5
  <2>8. ASSUME NEW p \in H
        PROVE  errors[p] = IF d = e THEN "none" ELSE ErrorOf[p]
    <3>1. /\ p \in 1 .. n /\ p \in 1 .. Len(stack') /\ p \in 1 .. Len(stack)
          /\ stack'[p] = lower[p]
      BY <1>8, <2>6
    <3>2. stack[p].kind = "handler" /\ Owner(stack[p].owner) = d
      BY <2>5, <2>8 DEF Active
    <3>3. /\ errors[p] = IF stack'[p].nested THEN "none" ELSE stack'[p].error
          /\ ErrorOf[p] = IF stack[p].nested THEN "none" ELSE stack[p].error
      BY <2>3, <3>1 DEF ErrorOf
    <3>4. /\ stack'[p].error = stack[p].error
          /\ stack'[p].nested = (stack[p].nested \/ d = e)
      BY <1>6, <3>1, <3>2
    <3> QED BY <3>3, <3>4
  <2>9. errors[n + 1] = signal
    <3>1. errors[n + 1] = IF stack'[n + 1].nested THEN "none" ELSE stack'[n + 1].error
      BY <1>2, <1>8, <2>3 DEF ErrorOf
    <3> QED BY <1>4, <1>8, <3>1
  <2>10. ASSUME NEW p \in Active("eval", d) PROVE marks[p] = BoundaryOf(d)[p]
    <3>1. p \in 1 .. n /\ p \in 1 .. Len(stack') /\ p \in 1 .. Len(stack)
      BY <1>8, <2>6
    <3>2. marks[p] = Rank(Active("handler", d)', p) /\ BoundaryOf(d)[p] = Rank(H, p)
      BY <2>4, <2>5, <3>1 DEF BoundaryOf
    <3>3. Rank(H \cup {n + 1}, p) = Rank(H, p)
      BY <2>6, <3>1, RankPush
    <3> QED BY <2>7, <3>2, <3>3
  <2>11. Traces(r.boundaries, 0, Active("eval", d)', marks)
    <3>1. Traces(r.boundaries, 0, Active("eval", d), marks)
      BY <2>2, <2>10, TracesKeep
    <3> QED BY <2>6, <3>1
  <2>12. diagnostics' = [diagnostics EXCEPT ![e] = [diagnostics[e] EXCEPT
             !.handled = Append([i \in DOMAIN diagnostics[e].handled |-> "none"], signal)]]
    BY <1>1 DEF Handle, SetDiagnostics, OfTop
  <2>13. CASE d = e
    <3>1. PICK nones : nones = [i \in DOMAIN r.handled |-> "none"]
      OBVIOUS
    <3>2. nones \in Seq(Shown) /\ Traces(nones, 0, H, errors)
      <4>1. \A p \in H : errors[p] = "none"
        BY <2>8, <2>13
      <4>2. Traces(r.handled, 0, H, ErrorOf)
        BY <2>2, <2>5
      <4>3. PICK k \in Nat : k = Len(r.handled) /\ DOMAIN r.handled = 1 .. k
        BY <2>2
      <4>4. nones = [i \in 1 .. k |-> "none"]
        BY <3>1, <4>3
      <4>5. nones \in Seq(Shown) /\ Len(nones) = k /\ \A i \in 1 .. k : nones[i] = "none"
        BY <4>4 DEF Shown
      <4>6. Traces(nones, 0, H, errors)
        BY <2>2, <2>6, <4>1, <4>2, <4>3, <4>5, NonesTrace
      <4> QED BY <4>5, <4>6
    <3>3. PICK handled \in Seq(Shown) : handled = Append(nones, signal)
      <4>1. signal \in Shown
        BY <1>2 DEF Shown
      <4>2. Append(nones, signal) \in Seq(Shown)
        BY <3>2, <4>1, AppendProperties
      <4> QED BY <4>2
    <3>4. Traces(handled, 0, H \cup {n + 1}, errors)
      <4>1. signal \in Shown /\ 0 \in Nat /\ \A p \in H : errors[p] = errors[p]
        BY <1>2 DEF Shown
      <4>2. Traces(Append(nones, signal), 0, H \cup {n + 1}, errors)
        BY <2>6, <2>9, <3>2, <4>1, TracesPush
      <4> QED BY <3>3, <4>2
    <3>5. diagnostics'[d] = [r EXCEPT !.handled = handled]
      <4>1. diagnostics \in [Sides -> Handling]
        BY DEF ControlTyped
      <4> QED BY <2>1, <2>12, <2>13, <3>1, <3>3, <4>1
    <3>6. /\ diagnostics'[d] \in Handling /\ diagnostics'[d].handled = handled
          /\ diagnostics'[d].boundaries = r.boundaries
          /\ diagnostics'[d].evals = r.evals /\ diagnostics'[d].executes = r.executes
      BY <3>5, HandlingCaught
    <3> QED BY <2>2, <2>3, <2>4, <2>6, <2>7, <2>11, <2>13, <3>4, <3>6
  <2>14. CASE d # e
    <3>1. diagnostics'[d] = r
      BY <2>1, <2>12, <2>14 DEF ControlTyped
    <3>2. Traces(r.handled, 0, H, errors)
      <4>1. \A p \in H : errors[p] = ErrorOf[p]
        BY <2>8, <2>14
      <4>2. Traces(r.handled, 0, H, ErrorOf)
        BY <2>2, <2>5
      <4> QED BY <4>1, <4>2, TracesKeep
    <3> QED BY <2>2, <2>3, <2>4, <2>6, <2>7, <2>11, <2>14, <3>1, <3>2
  <2> QED BY <2>13, <2>14
<1>15. diagnostics' \in [Sides -> Handling]
  <2>1. DOMAIN diagnostics' = Sides /\ diagnostics' = [d \in Sides |-> diagnostics'[d]]
    BY DEF Handle, SetDiagnostics, ControlTyped
  <2> QED BY <1>14, <2>1
<1> QED BY <1>10, <1>11, <1>14, <1>15 DEF DiagnosticsTraced

-----------------------------------------------------------------------------
(* The steps of the interpreter.                                            *)

ScopesInv == /\ ServerSound /\ ScopesSaved /\ SidesTraced /\ DiagnosticsTraced
             /\ stack \in Seq(Construct) /\ locals \in [Interpreters -> Nat]
             /\ sides \in Seq(Sides) /\ contexts \in Seq(BOOLEAN)
             /\ diagnostics \in [Sides -> Handling]
ModulesInv == /\ LoadsAreNested /\ LoadingIsExact /\ NamesArePublished
              /\ program \in [Modules -> Seq(Modules)]
              /\ loading \in Seq(Modules) /\ cache \in SUBSET Modules
              /\ imported \in [Modules -> SUBSET Modules]

(* The invariant is what concerns the scopes and what concerns the imports. *)
LEMMA InvParts ==
    /\ InterpreterInv => ScopesInv /\ ModulesInv /\ ControlTyped
    /\ ScopesInv' /\ ModulesInv' => InterpreterInv'
BY DEF InterpreterInv, ScopesInv, ModulesInv, ControlTyped

(* A step that changes only the signal keeps the invariant. *)
LEMMA AllKept ==
    ASSUME InterpreterInv, UNCHANGED <<program, stack, scopes, diagnostics, modules>>
    PROVE  InterpreterInv'
<1>1. /\ Routined' = Routined /\ SideOf' = SideOf /\ ContextOf' = ContextOf
      /\ ErrorOf' = ErrorOf /\ \A k, d : Active(k, d)' = Active(k, d)
  BY DEF Routined, SideOf, ContextOf, ErrorOf, Active
<1>2. \A d : BoundaryOf(d)' = BoundaryOf(d)
  BY <1>1 DEF BoundaryOf
<1>3. locals' = locals /\ sides' = sides /\ contexts' = contexts
  BY DEF scopes
<1>4. loading' = loading /\ cache' = cache /\ imported' = imported
  BY DEF modules
<1>5. ControlTyped' /\ ServerSound' /\ ScopesSaved'
  BY <1>1, <1>3, <1>4 DEF InterpreterInv, ControlTyped, ServerSound, ScopesSaved
<1>6. SidesTraced'
  BY <1>1, <1>3 DEF InterpreterInv, SidesTraced
<1>7. DiagnosticsTraced'
  BY <1>1, <1>2 DEF InterpreterInv, DiagnosticsTraced
<1>8. LoadsAreNested' /\ NamesArePublished'
  BY <1>4 DEF InterpreterInv, LoadsAreNested, NamesArePublished
<1>9. LoadingIsExact'
  BY <1>4 DEF InterpreterInv, LoadingIsExact, Loads
<1> QED BY <1>5, <1>6, <1>7, <1>8, <1>9 DEF InterpreterInv

(* Every way out of a construct keeps the invariant. *)
LEMMA Left ==
    ASSUME InterpreterInv, stack # <<>>, Leave, Completes
    PROVE  InterpreterInv'
<1>1. ControlTyped /\ ScopesInv /\ ModulesInv
  BY InvParts
<1>2. PICK n \in Nat : Len(stack) = n + 1
  BY <1>1, StackHasTop
<1>3. /\ stack' = Front(stack) /\ RestoreScopes(Top) /\ RestoreLoading(Top)
      /\ diagnostics' = Restored(Top) /\ UNCHANGED <<program, imported>>
  BY DEF Leave
<1>4. Pops(n)
  BY <1>1, <1>2, <1>3, Popping
<1>5. /\ ServerSound /\ ScopesSaved /\ SidesTraced /\ DiagnosticsTraced
      /\ LoadsAreNested /\ LoadingIsExact /\ NamesArePublished
  BY <1>1 DEF ScopesInv, ModulesInv
<1>6. ScopesSaved' /\ locals' \in [Interpreters -> Nat]
  BY <1>1, <1>3, <1>4, <1>5, ScopesPop
<1>7. SidesTraced' /\ ServerSound' /\ sides' \in Seq(Sides) /\ contexts' \in Seq(BOOLEAN)
  BY <1>1, <1>3, <1>4, <1>5, SidesPop
<1>8. DiagnosticsTraced' /\ diagnostics' \in [Sides -> Handling]
  BY <1>1, <1>3, <1>4, <1>5, DiagnosticsPop
<1>9. /\ LoadsAreNested' /\ LoadingIsExact' /\ NamesArePublished'
      /\ loading' \in Seq(Modules) /\ cache' \in SUBSET Modules
  BY <1>1, <1>3, <1>4, <1>5, ImportsPop
<1>10. stack' \in Seq(Construct)
  BY <1>4 DEF Pops, Below
<1>11. program' \in [Modules -> Seq(Modules)] /\ imported' \in [Modules -> SUBSET Modules]
  BY <1>1, <1>3 DEF ModulesInv
<1> QED BY <1>6, <1>7, <1>8, <1>9, <1>10, <1>11, InvParts DEF ScopesInv, ModulesInv

(* A construct other than a routine or a handler is entered. *)
LEMMA Entered ==
    ASSUME InterpreterInv, NEW f \in Construct, Enter(f),
           f.kind \notin {"routine", "handler"}, ~f.crossing, f.begun,
           f.owner = "server" => Last(sides) = "server",
           UNCHANGED <<sides, contexts>>, DiagnosticsEntered(f),
           locals' = IF f.kind = "execute" THEN [locals EXCEPT ![f.owner] = Scope] ELSE locals,
           f.kind = "execute" => f.saved = locals[f.owner]
    PROVE  ScopesInv' /\ \E n \in Nat : n = Len(stack) /\ Pushes(f, n)
<1>1. ControlTyped /\ ScopesInv
  BY InvParts
<1>2. PICK n \in Nat : n = Len(stack)
  BY <1>1, StackFacts
<1>3. Pushes(f, n)
  BY <1>1, <1>2, Pushing
<1>4. ServerSound /\ ScopesSaved /\ SidesTraced /\ DiagnosticsTraced
  BY <1>1 DEF ScopesInv
<1>5. ScopesSaved' /\ locals' \in [Interpreters -> Nat]
  <2>1. locals' = IF f.kind \in {"routine", "execute"}
                  THEN [locals EXCEPT ![f.owner] = n + 1] ELSE locals
    BY <1>2 DEF Scope
  <2>2. f.kind \in {"routine", "execute"} =>
               /\ f.saved = locals[f.owner]
               /\ n + 1 = IF f.begun THEN n + 1 ELSE locals[f.owner]
    OBVIOUS
  <2> QED BY <1>1, <1>3, <1>4, <2>1, <2>2, ScopesPush
<1>6. /\ SidesTraced' /\ sides' \in Seq(Sides) /\ contexts' \in Seq(BOOLEAN)
      /\ \A p \in 1 .. n : sides'[1 + Rank(Routined', p)] = sides[1 + Rank(Routined, p)]
      /\ sides'[1 + Rank(Routined', n + 1)] = Last(sides')
  BY <1>1, <1>3, <1>4, SidesPush
<1>7. ServerSound'
  BY <1>1, <1>3, <1>4, <1>6, ServerPush
<1>8. DiagnosticsTraced' /\ diagnostics' \in [Sides -> Handling]
  BY <1>1, <1>3, <1>4, DiagnosticsPush
<1>9. stack' \in Seq(Construct)
  BY <1>3 DEF Pushes, Below
<1>10. ScopesInv'
  BY <1>5, <1>6, <1>7, <1>8, <1>9 DEF ScopesInv
<1> QED BY <1>2, <1>3, <1>10

(* Below a construct that is no module nothing changes for the imports. *)
LEMMA EnteredCode ==
    ASSUME InterpreterInv, NEW f \in Construct, NEW n \in Nat, Pushes(f, n),
           f.kind # "module", UNCHANGED <<program, modules>>
    PROVE  ModulesInv'
<1>1. ModulesInv
  BY InvParts
<1>2. UNCHANGED <<program, loading, cache, imported>>
  BY DEF modules
<1>3. LoadsAreNested' /\ LoadingIsExact' /\ NamesArePublished'
  BY <1>1, <1>2, ImportsPush DEF ModulesInv
<1> QED BY <1>1, <1>2, <1>3 DEF ModulesInv

(* A module is entered. *)
LEMMA EnteredModule ==
    ASSUME InterpreterInv, NEW m \in Modules \ cache, EnterModule(m),
           m \notin ToSet(loading),
           \A p \in 1 .. Len(stack) : stack[p].kind = "module" /\ stack[p].todo # <<>>,
           imported' \in {imported, [imported EXCEPT ![m] = {}]},
           UNCHANGED <<program, cache, scopes, diagnostics>>
    PROVE  InterpreterInv'
<1>1. ControlTyped /\ ScopesInv /\ ModulesInv
  BY InvParts
<1>2. PICK f : f = [Frame("module", m) EXCEPT !.todo = program[m]]
  OBVIOUS
<1>3. /\ f \in Construct /\ f.kind = "module" /\ f.owner = m /\ f.todo = program[m]
      /\ ~f.crossing /\ f.begun
  <2>1. f = [kind |-> "module", owner |-> m, saved |-> 0, todo |-> program[m], error |-> "none",
             nested |-> FALSE, side |-> "client", context |-> TRUE, crossing |-> FALSE,
             begun |-> TRUE]
    BY <1>2 DEF Frame
  <2>2. program[m] \in Seq(Modules) /\ m \in Interpreters
    BY <1>1 DEF ModulesInv, Interpreters
  <2>3. f \in Construct
    BY <2>1, <2>2 DEF Construct, Kinds, Sides, Shown
  <2> QED BY <2>1, <2>3
<1>4. m # "server"
  OBVIOUS
<1>5. Enter(f) /\ loading' = IF program[m] = <<>> THEN loading ELSE Append(loading, m)
  BY <1>2 DEF EnterModule
<1>6. UNCHANGED <<locals, sides, contexts, diagnostics>>
  BY DEF scopes
<1>7. DiagnosticsEntered(f)
  BY <1>1, <1>3, <1>6 DEF DiagnosticsEntered, ControlTyped
<1>8. ScopesInv' /\ \E n \in Nat : n = Len(stack) /\ Pushes(f, n)
  BY <1>3, <1>4, <1>5, <1>6, <1>7, Entered
<1>9. PICK n \in Nat : n = Len(stack) /\ Pushes(f, n)
  BY <1>8
<1>10. ModulesInv'
  <2>1. \A p \in 1 .. n : stack[p].kind = "module" /\ stack[p].todo # <<>>
    BY <1>9
  <2>2. LoadsAreNested /\ LoadingIsExact /\ NamesArePublished
    BY <1>1 DEF ModulesInv
  <2>3. /\ LoadsAreNested' /\ LoadingIsExact' /\ NamesArePublished'
        /\ loading' \in Seq(Modules) /\ imported' \in [Modules -> SUBSET Modules]
    BY <1>1, <1>3, <1>5, <1>9, <2>1, <2>2, ModuleEntered
  <2> QED BY <1>1, <2>3 DEF ModulesInv
<1> QED BY <1>8, <1>10, InvParts

(* The program's module starts on an empty stack. *)
LEMMA ExecuteInv ==
    ASSUME InterpreterInv, Execute
    PROVE  InterpreterInv'
<1>1. /\ stack = <<>> /\ EnterModule(Main)
      /\ UNCHANGED <<program, scopes, diagnostics, cache, imported>>
  BY DEF Execute
<1>2. ControlTyped /\ ModulesInv
  BY InvParts
<1>3. Main \in Modules \ cache
  BY <1>2 DEF ModulesInv, NamesArePublished, Modules
<1>4. Len(stack) = 0
  BY <1>1
<1>5. Main \notin ToSet(loading)
  <2>1. loading \in Seq(Modules) /\ Len(loading) = 0
    BY <1>2, <1>4 DEF ModulesInv, LoadingIsExact
  <2> QED BY <2>1 DEF ToSet
<1>6. \A p \in 1 .. Len(stack) : stack[p].kind = "module" /\ stack[p].todo # <<>>
  BY <1>4
<1>7. imported' \in {imported, [imported EXCEPT ![Main] = {}]}
  BY <1>1
<1> QED BY <1>1, <1>3, <1>5, <1>6, <1>7, EnteredModule

(* An import fails, finds its module loaded, or starts to load it. *)
LEMMA ImportInv ==
    ASSUME InterpreterInv, Import
    PROVE  InterpreterInv'
<1>1. PICK child : child = Head(Top.todo)
  OBVIOUS
<1>2. /\ stack # <<>> /\ Top.kind = "module" /\ Top.todo # <<>>
      /\ UNCHANGED <<program, scopes, diagnostics>>
  BY DEF Import, Running
<1>3. \/ /\ Fails /\ UNCHANGED <<stack, modules>>
      \/ /\ child \in cache
         /\ stack' = [stack EXCEPT ![Len(stack)].todo = Tail(@)]
         /\ Publish(Top.owner, Top.todo)
         /\ UNCHANGED <<signal, loading, cache>>
      \/ /\ child \notin ToSet(loading) /\ child \notin cache
         /\ EnterModule(child)
         /\ imported' = [imported EXCEPT ![child] = {}]
         /\ UNCHANGED <<signal, cache>>
  BY <1>1 DEF Import
<1>4. ControlTyped /\ ScopesInv /\ ModulesInv
  BY InvParts
<1>5. PICK n \in Nat : Len(stack) = n + 1 /\ Top = stack[n + 1]
  BY <1>2, <1>4, StackHasTop
<1>6. Top \in Construct /\ n + 1 \in 1 .. Len(stack)
  <2>1. n + 1 \in 1 .. Len(stack)
    BY <1>5
  <2> QED BY <1>4, <1>5, <2>1, StackFacts
<1>7. CASE UNCHANGED <<stack, modules>>
  BY <1>2, <1>7, AllKept
<1>8. CASE /\ child \in cache
           /\ stack' = [stack EXCEPT ![Len(stack)].todo = Tail(@)]
           /\ Publish(Top.owner, Top.todo)
           /\ UNCHANGED <<signal, loading, cache>>
  <2>1. /\ LoadsAreNested' /\ LoadingIsExact' /\ NamesArePublished'
        /\ imported' \in [Modules -> SUBSET Modules]
        /\ Alike(n + 1)
        /\ \A p \in 1 .. n + 1 :
              /\ stack'[p].begun = stack[p].begun
              /\ stack'[p].kind = stack[p].kind /\ stack'[p].error = stack[p].error
              /\ stack'[p].nested = stack[p].nested
    BY <1>1, <1>2, <1>4, <1>5, <1>8, ModuleResumed DEF ModulesInv
  <2>2. PICK k \in Nat : k = n + 1
    OBVIOUS
  <2>3. Alike(k)
    BY <2>1, <2>2
  <2>4. UNCHANGED <<locals, sides, contexts, diagnostics>>
    BY <1>2 DEF scopes
  <2>5. SidesTraced' /\ ServerSound'
    BY <1>4, <2>3, <2>4, SidesKept DEF ScopesInv
  <2>6. ScopesSaved'
    <3>1. \A p \in 1 .. k : stack'[p].begun = stack[p].begun
      BY <2>1, <2>2
    <3> QED BY <1>4, <2>3, <2>4, <3>1, ScopesKept DEF ScopesInv
  <2>7. DiagnosticsTraced'
    <3>1. \A p \in 1 .. k : /\ stack'[p].kind = stack[p].kind
                            /\ stack'[p].error = stack[p].error
                            /\ stack'[p].nested = stack[p].nested
      BY <2>1, <2>2
    <3> QED BY <1>4, <2>3, <2>4, <3>1, DiagnosticsKept DEF ScopesInv
  <2>8. ScopesInv'
    BY <1>4, <2>3, <2>4, <2>5, <2>6, <2>7 DEF ScopesInv, Alike
  <2>9. ModulesInv'
    BY <1>2, <1>4, <1>8, <2>1 DEF ModulesInv
  <2> QED BY <2>8, <2>9, InvParts
<1>9. CASE /\ child \notin ToSet(loading) /\ child \notin cache
           /\ EnterModule(child)
           /\ imported' = [imported EXCEPT ![child] = {}]
           /\ UNCHANGED <<signal, cache>>
  <2>1. child \in Modules \ cache
    <3>1. Top.todo \in Seq(Modules)
      BY <1>6 DEF Construct
    <3> QED BY <1>1, <1>2, <1>9, <3>1, TailNames
  <2>2. \A p \in 1 .. Len(stack) : stack[p].kind = "module" /\ stack[p].todo # <<>>
    <3>1. \A q \in 1 .. n : stack[q].kind = "module" /\ stack[q].todo # <<>>
      <4>1. (n + 1) - 1 = n
        OBVIOUS
      <4> QED BY <1>2, <1>4, <1>5, <1>6, <4>1 DEF ModulesInv, LoadsAreNested
    <3>2. \A p \in 1 .. n + 1 : p \in 1 .. n \/ p = n + 1
      OBVIOUS
    <3> QED BY <1>2, <1>5, <3>1, <3>2
  <2>3. imported' \in {imported, [imported EXCEPT ![child] = {}]}
    BY <1>9
  <2>4. UNCHANGED <<program, cache, scopes, diagnostics>>
    BY <1>2, <1>9
  <2> QED BY <1>9, <2>1, <2>2, <2>3, <2>4, EnteredModule
<1> QED BY <1>3, <1>7, <1>8, <1>9

(* The body of a server activation starts. *)
LEMMA BeginBodyInv ==
    ASSUME InterpreterInv, BeginBody
    PROVE  InterpreterInv'
<1>1. /\ stack # <<>> /\ ~Top.begun
      /\ stack' = [stack EXCEPT ![Len(stack)].begun = TRUE]
      /\ locals' = [locals EXCEPT !["server"] = Len(stack)]
      /\ UNCHANGED <<program, sides, contexts, diagnostics, loading, cache, imported>>
  BY DEF BeginBody, Running, modules
<1>2. ControlTyped /\ ScopesInv /\ ModulesInv
  BY InvParts
<1>3. PICK n \in Nat : Len(stack) = n + 1 /\ Top = stack[n + 1]
  BY <1>1, <1>2, StackHasTop
<1>4. /\ ScopesSaved' /\ locals' \in [Interpreters -> Nat]
      /\ Alike(n + 1)
      /\ \A p \in 1 .. n + 1 :
            /\ stack'[p].todo = stack[p].todo
            /\ stack'[p].kind = stack[p].kind /\ stack'[p].error = stack[p].error
            /\ stack'[p].nested = stack[p].nested
  BY <1>1, <1>2, <1>3, ServerStarted DEF ScopesInv
<1>5. PICK k \in Nat : k = n + 1
  OBVIOUS
<1>6. /\ Alike(k)
      /\ \A p \in 1 .. k : /\ stack[p].kind = "module" => stack'[p].todo = stack[p].todo
                           /\ stack'[p].kind = stack[p].kind /\ stack'[p].error = stack[p].error
                           /\ stack'[p].nested = stack[p].nested
  BY <1>4, <1>5
<1>7. SidesTraced' /\ ServerSound'
  BY <1>1, <1>2, <1>6, SidesKept DEF ScopesInv
<1>8. DiagnosticsTraced'
  BY <1>1, <1>2, <1>6, DiagnosticsKept DEF ScopesInv
<1>9. LoadsAreNested' /\ LoadingIsExact' /\ NamesArePublished'
  BY <1>1, <1>2, <1>6, ImportsKept DEF ModulesInv
<1>10. ScopesInv' /\ ModulesInv'
  BY <1>1, <1>2, <1>4, <1>6, <1>7, <1>8, <1>9 DEF ScopesInv, ModulesInv, Alike
<1> QED BY <1>10, InvParts

(* A handler takes the error of its Try. *)
LEMMA HandleInv ==
    ASSUME InterpreterInv, Handle
    PROVE  InterpreterInv'
<1>1. /\ stack # <<>> /\ UNCHANGED <<program, locals, sides, contexts, loading, cache, imported>>
  BY DEF Handle, scopes, modules
<1>2. ControlTyped /\ ScopesInv /\ ModulesInv
  BY InvParts
<1>3. PICK n \in Nat : Len(stack) = n + 1 /\ Top = stack[n + 1]
  BY <1>1, <1>2, StackHasTop
<1>4. /\ DiagnosticsTraced' /\ diagnostics' \in [Sides -> Handling]
      /\ Alike(n + 1)
      /\ \A p \in 1 .. n + 1 :
            /\ stack'[p].begun = stack[p].begun \/ stack'[p].kind \in Inner
            /\ stack[p].kind = "module" => stack'[p].todo = stack[p].todo
  BY <1>1, <1>2, <1>3, ErrorHandled DEF ScopesInv
<1>5. PICK k \in Nat : k = n + 1
  OBVIOUS
<1>6. /\ Alike(k)
      /\ \A p \in 1 .. k :
            /\ stack'[p].begun = stack[p].begun \/ stack'[p].kind \in Inner
            /\ stack[p].kind = "module" => stack'[p].todo = stack[p].todo
  BY <1>4, <1>5
<1>7. SidesTraced' /\ ServerSound'
  BY <1>1, <1>2, <1>6, SidesKept DEF ScopesInv
<1>8. ScopesSaved'
  BY <1>1, <1>2, <1>6, ScopesKept DEF ScopesInv
<1>9. LoadsAreNested' /\ LoadingIsExact' /\ NamesArePublished'
  BY <1>1, <1>2, <1>6, ImportsKept DEF ModulesInv
<1>10. ScopesInv' /\ ModulesInv'
  BY <1>1, <1>2, <1>4, <1>6, <1>7, <1>8, <1>9 DEF ScopesInv, ModulesInv, Alike
<1> QED BY <1>10, InvParts

(* No construct of the server runs while the code runs on the client.       *)
LEMMA ClientOnly ==
    ASSUME InterpreterInv, Last(sides) = "client"
    PROVE  /\ \A p \in 1 .. Len(stack) : stack[p].owner # "server"
           /\ locals["server"] = 0 /\ diagnostics["server"] = NoDiagnostics
<1>1. ControlTyped /\ ScopesInv
  BY InvParts
<1>2. \A p \in 1 .. Len(stack) : stack[p].owner # "server"
  <2>1. ASSUME NEW p \in 1 .. Len(stack), stack[p].owner = "server" PROVE FALSE
    BY <1>1, <2>1, ServerOnItsSide DEF ScopesInv
  <2> QED BY <2>1
<1>3. diagnostics["server"] = NoDiagnostics
  BY <1>1, <1>2, ServerIsClean DEF ScopesInv
<1>4. locals["server"] = 0
  <2>1. locals["server"] = Innermost(OpenBelow(stack, "server", Len(stack)))
    BY <1>1 DEF ScopesInv, ScopesSaved, Interpreters
  <2>2. OpenBelow(stack, "server", Len(stack)) = {}
    BY <1>2 DEF OpenBelow, Opens
  <2>3. Innermost({}) = 0
    BY DEF Innermost
  <2> QED BY <2>1, <2>2, <2>3
<1> QED BY <1>2, <1>3, <1>4

(* A call enters a routine here or, fresh, on the server. *)
LEMMA CallInv ==
    ASSUME InterpreterInv, NEW m \in Interpreters, NEW routine \in Routines, Call(m, routine)
    PROVE  InterpreterInv'
<1>1. ControlTyped /\ ScopesInv /\ ModulesInv
  BY InvParts
<1>2. PICK crossing \in BOOLEAN : crossing = (Last(sides) = "client" /\ routine.side = "server")
  OBVIOUS
<1>3. PICK owner : owner = IF crossing THEN "server" ELSE m
  OBVIOUS
<1>4. PICK f : f = [Frame("routine", owner) EXCEPT !.saved = locals[owner], !.side = routine.side,
                      !.context = routine.context, !.crossing = crossing, !.begun = ~crossing]
  OBVIOUS
<1>5. /\ stack # <<>> /\ Callable(routine)
      /\ m = Top.owner \/ (Top.owner # "server" /\ m \in imported[Top.owner])
      /\ sides' = Append(sides, routine.side) /\ contexts' = Append(contexts, routine.context)
      /\ UNCHANGED <<program, modules>>
  BY DEF Call, Executing, Running
<1>6. /\ Enter(f)
      /\ locals' = [locals EXCEPT ![owner] = IF crossing THEN 0 ELSE Scope]
      /\ diagnostics' = IF crossing THEN [diagnostics EXCEPT !["server"] = NoDiagnostics]
                        ELSE diagnostics
  BY <1>2, <1>3, <1>4 DEF Call
<1>7. /\ routine.side \in Sides /\ routine.context \in BOOLEAN
      /\ Last(sides) = "server" => routine.side = "server"
      /\ routine.context => Last(contexts)
  <2>1. routine.side \in Sides /\ routine.context \in BOOLEAN
    <3>1. Routines \subseteq [side : Sides, context : BOOLEAN, dual : BOOLEAN]
      BY DEF Routines, Sides
    <3>2. routine \in [side : Sides, context : BOOLEAN, dual : BOOLEAN]
      BY <3>1
    <3> QED BY <3>2
  <2> QED BY <1>5, <2>1 DEF Callable
<1>8. owner \in Interpreters /\ locals[owner] \in Nat
  BY <1>1, <1>3 DEF ScopesInv, Interpreters
<1>9. /\ f \in Construct /\ f.kind = "routine" /\ f.owner = owner /\ f.saved = locals[owner]
      /\ f.side = routine.side /\ f.context = routine.context /\ f.crossing = crossing
      /\ f.begun = ~crossing
  <2>1. f = [kind |-> "routine", owner |-> owner, saved |-> locals[owner], todo |-> <<>>,
             error |-> "none", nested |-> FALSE, side |-> routine.side,
             context |-> routine.context, crossing |-> crossing, begun |-> ~crossing]
    BY <1>4 DEF Frame
  <2>2. f \in Construct
    BY <1>7, <1>8, <2>1 DEF Construct, Kinds, Shown
  <2> QED BY <2>1, <2>2
<1>10. PICK n \in Nat : n = Len(stack)
  BY <1>1, StackFacts
<1>11. Pushes(f, n)
  BY <1>1, <1>6, <1>9, <1>10, Pushing
<1>12. crossing => /\ \A p \in 1 .. n : stack[p].owner # "server"
                   /\ locals["server"] = 0 /\ diagnostics["server"] = NoDiagnostics
  BY <1>2, <1>10, ClientOnly
<1>13. diagnostics' = diagnostics
  BY <1>1, <1>6, <1>12 DEF ScopesInv, Sides
<1>14. ScopesSaved' /\ locals' \in [Interpreters -> Nat]
  <2>1. PICK scope : scope = IF crossing THEN 0 ELSE n + 1
    OBVIOUS
  <2>2. locals' = IF f.kind \in {"routine", "execute"}
                  THEN [locals EXCEPT ![f.owner] = scope] ELSE locals
    BY <1>6, <1>9, <1>10, <2>1 DEF Scope
  <2>3. f.kind \in {"routine", "execute"} =>
            /\ f.saved = locals[f.owner]
            /\ scope = IF f.begun THEN n + 1 ELSE locals[f.owner]
    BY <1>3, <1>9, <1>12, <2>1
  <2>4. f.kind = "execute" => f.begun
    BY <1>9
  <2> QED BY <1>1, <1>9, <1>11, <2>2, <2>3, <2>4, ScopesPush DEF ScopesInv
<1>15. /\ SidesTraced' /\ sides' \in Seq(Sides) /\ contexts' \in Seq(BOOLEAN)
       /\ Len(sides') \in Nat \ {0}
       /\ \A p \in 1 .. n : sides'[1 + Rank(Routined', p)] = sides[1 + Rank(Routined, p)]
       /\ sides'[1 + Rank(Routined', n + 1)] = Last(sides')
  <2>1. /\ sides' = Append(sides, f.side) /\ contexts' = Append(contexts, f.context)
        /\ Last(sides) = "server" => f.side = "server"
        /\ f.context => Last(contexts)
        /\ f.kind = "routine"
    BY <1>5, <1>7, <1>9
  <2>2. SidesTraced
    BY <1>1 DEF ScopesInv
  <2> QED BY <1>1, <1>9, <1>11, <2>1, <2>2, SidesPush
<1>16. f.owner = "server" => Last(sides') = "server"
  <2>1. Last(sides') = routine.side
    <3>1. sides \in Seq(Sides) /\ Len(sides) \in Nat
      BY <1>1 DEF ScopesInv
    <3>2. Len(sides') = Len(sides) + 1 /\ sides'[Len(sides) + 1] = routine.side
      BY <1>5, <1>7, <3>1
    <3> QED BY <3>2 DEF Last
  <2>2. CASE crossing
    BY <1>2, <2>1, <2>2
  <2>3. CASE ~crossing /\ f.owner = "server"
    <3>1. m = "server"
      BY <1>3, <1>9, <2>3
    <3>2. Top \in Construct /\ Len(stack) \in 1 .. Len(stack) /\ Top = stack[Len(stack)]
      BY <1>1, <1>5, StackFacts
    <3>3. Top.owner = "server"
      <4>1. CASE Top.owner # "server"
        <5>1. Top.owner \in Modules
          BY <3>2, <4>1 DEF Construct, Interpreters
        <5>2. imported[Top.owner] \subseteq Modules
          BY <1>1, <5>1 DEF ModulesInv
        <5> QED BY <1>5, <3>1, <5>2
      <4> QED BY <4>1
    <3>4. Last(sides) = "server"
      BY <1>1, <3>2, <3>3, ServerOnItsSide DEF ScopesInv
    <3> QED BY <1>7, <2>1, <3>4
  <2> QED BY <2>2, <2>3
<1>17. ServerSound'
  <2>1. f.crossing => /\ f.kind = "routine" /\ f.owner = "server"
                      /\ \A q \in 1 .. n : stack[q].owner # "server"
    BY <1>3, <1>9, <1>12
  <2>2. ~f.begun => f.crossing
    BY <1>9
  <2> QED BY <1>1, <1>9, <1>11, <1>15, <1>16, <2>1, <2>2, ServerPush DEF ScopesInv
<1>18. DiagnosticsTraced' /\ diagnostics' \in [Sides -> Handling]
  <2>1. DiagnosticsEntered(f)
    BY <1>1, <1>9, <1>13 DEF DiagnosticsEntered, ScopesInv
  <2>2. f.kind # "handler"
    BY <1>9
  <2> QED BY <1>1, <1>9, <1>11, <2>1, <2>2, DiagnosticsPush DEF ScopesInv
<1>19. stack' \in Seq(Construct)
  BY <1>11 DEF Pushes, Below
<1>20. ScopesInv'
  BY <1>14, <1>15, <1>17, <1>18, <1>19 DEF ScopesInv
<1>21. ModulesInv'
  <2>1. f.kind # "module"
    BY <1>9
  <2> QED BY <1>5, <1>9, <1>11, <2>1, EnteredCode
<1> QED BY <1>20, <1>21, InvParts

(* The construct on top of the stack, and what it runs on.                  *)
LEMMA TopRuns ==
    ASSUME InterpreterInv, stack # <<>>
    PROVE  /\ Top.owner \in Interpreters
           /\ Top.owner = "server" => Last(sides) = "server"
<1>1. ControlTyped /\ ScopesInv
  BY InvParts
<1>2. Top \in Construct /\ Len(stack) \in 1 .. Len(stack) /\ Top = stack[Len(stack)]
  BY <1>1, StackFacts
<1> QED BY <1>1, <1>2, ServerOnItsSide DEF Construct, ScopesInv

(* A Try is entered. *)
LEMMA TryInv ==
    ASSUME InterpreterInv, Try
    PROVE  InterpreterInv'
<1>1. PICK f : f = Frame("try", Top.owner)
  OBVIOUS
<1>2. /\ stack # <<>> /\ Enter(f)
      /\ UNCHANGED <<program, locals, sides, contexts, diagnostics, modules>>
  BY <1>1 DEF Try, Statements, Executing, Running, scopes
<1>3. /\ Top.owner \in Interpreters
      /\ Top.owner = "server" => Last(sides) = "server"
  BY <1>2, TopRuns
<1>4. f \in Construct /\ f.kind = "try" /\ f.owner = Top.owner /\ f.begun /\ ~f.crossing
  BY <1>1, <1>3, FrameTyped DEF Kinds
<1>5. DiagnosticsEntered(f)
  BY <1>2, <1>4, InvParts DEF DiagnosticsEntered, ScopesInv
<1>6. ScopesInv' /\ \E n \in Nat : n = Len(stack) /\ Pushes(f, n)
  BY <1>2, <1>3, <1>4, <1>5, Entered
<1>7. PICK n \in Nat : Pushes(f, n)
  BY <1>6
<1>8. ModulesInv'
  BY <1>2, <1>4, <1>7, EnteredCode
<1> QED BY <1>6, <1>8, InvParts

(* An Eval is entered. *)
LEMMA EvaluateInv ==
    ASSUME InterpreterInv, Evaluate
    PROVE  InterpreterInv'
<1>1. PICK f : f = Frame("eval", Top.owner)
  OBVIOUS
<1>2. /\ stack # <<>> /\ Enter(f)
      /\ SetDiagnostics([OfTop EXCEPT !.evals = @ + 1,
                           !.boundaries = Append(@, Len(OfTop.handled))])
      /\ UNCHANGED <<program, locals, sides, contexts, modules>>
  BY <1>1 DEF Evaluate, Executing, Running, scopes
<1>3. /\ Top.owner \in Interpreters
      /\ Top.owner = "server" => Last(sides) = "server"
  BY <1>2, TopRuns
<1>4. f \in Construct /\ f.kind = "eval" /\ f.owner = Top.owner /\ f.begun /\ ~f.crossing
  BY <1>1, <1>3, FrameTyped DEF Kinds
<1>5. DiagnosticsEntered(f)
  BY <1>2, <1>4 DEF DiagnosticsEntered, SetDiagnostics, OfTop
<1>6. ScopesInv' /\ \E n \in Nat : n = Len(stack) /\ Pushes(f, n)
  BY <1>2, <1>3, <1>4, <1>5, Entered
<1>7. PICK n \in Nat : Pushes(f, n)
  BY <1>6
<1>8. ModulesInv'
  BY <1>2, <1>4, <1>7, EnteredCode
<1> QED BY <1>6, <1>8, InvParts

(* A fragment is entered. *)
LEMMA ExecuteFragmentInv ==
    ASSUME InterpreterInv, ExecuteFragment
    PROVE  InterpreterInv'
<1>1. PICK f : f = [Frame("execute", Top.owner) EXCEPT !.saved = locals[Top.owner]]
  OBVIOUS
<1>2. /\ stack # <<>> /\ Enter(f)
      /\ locals' = [locals EXCEPT ![Top.owner] = Scope]
      /\ SetDiagnostics([OfTop EXCEPT !.executes = @ + 1])
      /\ UNCHANGED <<program, sides, contexts, modules>>
  BY <1>1 DEF ExecuteFragment, Statements, Executing, Running
<1>3. /\ Top.owner \in Interpreters
      /\ Top.owner = "server" => Last(sides) = "server"
  BY <1>2, TopRuns
<1>4. /\ f \in Construct /\ f.kind = "execute" /\ f.owner = Top.owner /\ f.begun /\ ~f.crossing
      /\ f.saved = locals[Top.owner]
  <2>1. f = [kind |-> "execute", owner |-> Top.owner, saved |-> locals[Top.owner], todo |-> <<>>,
             error |-> "none", nested |-> FALSE, side |-> "client", context |-> TRUE,
             crossing |-> FALSE, begun |-> TRUE]
    BY <1>1 DEF Frame
  <2>2. locals[Top.owner] \in Nat
    BY <1>3, InvParts DEF ScopesInv
  <2>3. f \in Construct
    BY <1>3, <2>1, <2>2 DEF Construct, Kinds, Sides, Shown
  <2> QED BY <2>1, <2>3
<1>5. DiagnosticsEntered(f)
  BY <1>2, <1>4 DEF DiagnosticsEntered, SetDiagnostics, OfTop
<1>6. ScopesInv' /\ \E n \in Nat : n = Len(stack) /\ Pushes(f, n)
  BY <1>2, <1>3, <1>4, <1>5, Entered
<1>7. PICK n \in Nat : Pushes(f, n)
  BY <1>6
<1>8. ModulesInv'
  BY <1>2, <1>4, <1>7, EnteredCode
<1> QED BY <1>6, <1>8, InvParts

(* The code of a construct ends. *)
LEMMA FinishInv ==
    ASSUME InterpreterInv, Finish
    PROVE  InterpreterInv'
<1>1. /\ stack # <<>> /\ Leave /\ (Top.kind = "module" => Top.todo = <<>>)
      /\ cache' = IF Top.kind = "module" /\ Top.owner # Main THEN cache \cup {Top.owner} ELSE cache
  BY DEF Finish, Executing, Running
<1>2. Completes
  BY <1>1 DEF Completes
<1> QED BY <1>1, <1>2, Left

(* A signal leaves a construct. *)
LEMMA UnwindInv ==
    ASSUME InterpreterInv, Unwind
    PROVE  InterpreterInv'
<1>1. stack # <<>> /\ Leave /\ cache' = cache
  BY DEF Unwind
<1> QED BY <1>1, Left DEF Completes

(* Raising, returning and jumping set the signal only. *)
LEMMA SignalInv ==
    ASSUME InterpreterInv, Raise \/ Reraise \/ Return \/ Jump \/ UNCHANGED codeVars
    PROVE  InterpreterInv'
<1>1. UNCHANGED <<program, stack, scopes, diagnostics, modules>>
  BY DEF Raise, Reraise, Return, Jump, codeVars, scopes, modules
<1> QED BY <1>1, AllKept

(* What the interpreter keeps is what its constructs say, whatever runs.    *)
LEMMA InterpreterStep ==
    ASSUME InterpreterInv, [CodeNext]_codeVars
    PROVE  InterpreterInv'
<1>1. CASE \E m \in Interpreters, routine \in Routines : Call(m, routine)
  BY <1>1, CallInv
<1>2. CASE Execute \/ Import \/ BeginBody
  BY <1>2, ExecuteInv, ImportInv, BeginBodyInv
<1>3. CASE Try \/ Evaluate \/ ExecuteFragment
  BY <1>3, TryInv, EvaluateInv, ExecuteFragmentInv
<1>4. CASE Raise \/ Reraise \/ Return \/ Jump \/ UNCHANGED codeVars
  BY <1>4, SignalInv
<1>5. CASE Finish \/ Handle \/ Unwind
  BY <1>5, FinishInv, HandleInv, UnwindInv
<1> QED BY <1>1, <1>2, <1>3, <1>4, <1>5 DEF CodeNext

(* A fresh interpreter satisfies the invariant. *)
LEMMA InterpreterInit ==
    ASSUME CodeInit
    PROVE  InterpreterInv
<1>1. /\ stack = <<>> /\ Len(stack) = 0 /\ DOMAIN stack = {} /\ loading = <<>> /\ Len(loading) = 0
      /\ cache = {} /\ imported = [m \in Modules |-> {}]
      /\ sides = <<"client">> /\ contexts = <<TRUE>> /\ program \in Programs
      /\ locals = [i \in Interpreters |-> 0]
      /\ diagnostics = [d \in Sides |-> NoDiagnostics]
  BY DEF CodeInit, Sides
<1>2. /\ Cardinality({}) = 0 /\ Innermost({}) = 0 /\ Routined = {}
      /\ \A k, d : Active(k, d) = {}
  BY <1>1, FS_EmptySet DEF Innermost, Routined, Active
<1>3. NoDiagnostics \in Handling
  BY DEF NoDiagnostics, Handling
<1>4. ControlTyped
  <2>1. program \in [Modules -> Seq(Modules)]
    BY <1>1
  <2> QED BY <1>1, <1>3, <2>1 DEF ControlTyped, Sides
<1>5. ServerSound /\ LoadsAreNested /\ LoadingIsExact
  BY <1>1 DEF ServerSound, LoadsAreNested, LoadingIsExact
<1>6. ScopesSaved
  <2>1. \A i : OpenBelow(stack, i, Len(stack)) = {}
    BY <1>1 DEF OpenBelow
  <2>2. \A i \in Interpreters : locals[i] = Innermost(OpenBelow(stack, i, Len(stack)))
    BY <1>1, <1>2, <2>1
  <2>3. \A p \in 1 .. Len(stack) : FALSE
    BY <1>1
  <2> QED BY <2>2, <2>3 DEF ScopesSaved
<1>7. SidesTraced
  BY <1>1, <1>2 DEF SidesTraced, Traces
<1>8. DiagnosticsTraced
  <2>1. ASSUME NEW d \in Sides
        PROVE  /\ diagnostics[d].handled = <<>> /\ diagnostics[d].boundaries = <<>>
               /\ diagnostics[d].evals = 0 /\ diagnostics[d].executes = 0
    BY <1>1 DEF NoDiagnostics
  <2>2. \A value : Traces(<<>>, 0, {}, value)
    BY <1>2 DEF Traces
  <2> QED BY <1>2, <2>1, <2>2 DEF DiagnosticsTraced
<1>9. NamesArePublished
  BY <1>1 DEF NamesArePublished
<1> QED BY <1>4, <1>5, <1>6, <1>7, <1>8, <1>9 DEF InterpreterInv

(* What the interpreter keeps is what its constructs say it should be.      *)
THEOREM InterpreterInvariant == CodeSpec => []InterpreterInv
<1>1. CodeInit => InterpreterInv
  BY InterpreterInit
<1>2. InterpreterInv /\ [CodeNext]_codeVars => InterpreterInv'
  BY InterpreterStep
<1> QED
  BY <1>1, <1>2, PTL DEF CodeSpec

-----------------------------------------------------------------------------
(* The properties.                                                          *)

(* A module is initialised once and never inside itself, and is available    *)
(* only with everything it imports (ImportsAreWhole).                       *)
LEMMA InvImports ==
    ASSUME InterpreterInv
    PROVE  ImportsAreWhole
<1>1. LoadsAreNested /\ NamesArePublished /\ ControlTyped
  BY DEF InterpreterInv
<1>2. DOMAIN stack = 1 .. Len(stack) /\ Len(stack) \in Nat
  BY <1>1, StackFacts
<1>3. ASSUME NEW i \in 1 .. Len(stack), NEW j \in 1 .. Len(stack),
             stack[i].kind = "module", stack[j].kind = "module", i # j
      PROVE  stack[i].owner # stack[j].owner
  <2>1. CASE i < j
    <3>1. i \in 1 .. j - 1
      BY <2>1
    <3> QED BY <1>1, <1>3, <3>1 DEF LoadsAreNested
  <2>2. CASE j < i
    <3>1. j \in 1 .. i - 1
      BY <2>2
    <3> QED BY <1>1, <1>3, <3>1 DEF LoadsAreNested
  <2> QED BY <1>3, <2>1, <2>2
<1>4. \A i \in DOMAIN stack : stack[i].kind = "module" => stack[i].owner \notin cache
  BY <1>1, <1>2 DEF LoadsAreNested
<1> QED BY <1>1, <1>2, <1>3, <1>4 DEF ImportsAreWhole, NamesArePublished

(* Modules are initialised once and available whole: ImportsAreWhole. *)
THEOREM ImportsAlwaysWhole == CodeSpec => []ImportsAreWhole
<1>1. InterpreterInv => ImportsAreWhole
  BY InvImports
<1> QED
  BY <1>1, InterpreterInvariant, PTL

(* Names, sides and contexts are those of the innermost constructs.         *)
LEMMA InvScopes ==
    ASSUME InterpreterInv
    PROVE  ScopesMatchFrames
<1>1. ScopesSaved /\ SidesTraced /\ ControlTyped
  BY DEF InterpreterInv
<1>2. DOMAIN stack = 1 .. Len(stack) /\ Len(stack) \in Nat
  BY <1>1, StackFacts
<1>3. ASSUME NEW i \in Interpreters
      PROVE  locals[i] = Innermost({j \in DOMAIN stack : Opens(stack[j], i)})
  BY <1>1, <1>2 DEF ScopesSaved, OpenBelow
<1>4. /\ Len(sides) = 1 + Cardinality(Routined) /\ Len(contexts) = Len(sides)
      /\ \A p \in Routined : /\ sides[1 + Rank(Routined, p)] = SideOf[p]
                             /\ contexts[1 + Rank(Routined, p)] = ContextOf[p]
  BY <1>1 DEF SidesTraced, Traces
<1>5. \A p \in Routined : SideOf[p] = stack[p].side /\ ContextOf[p] = stack[p].context
  BY <1>2 DEF SideOf, ContextOf, Routined
<1>6. Len(sides) \in Nat /\ Len(contexts) = Len(sides)
  BY <1>1, <1>4, SidesNow
<1>7. ASSUME NEW n \in 2 .. Len(sides)
      PROVE  /\ sides[n - 1] = "server" => sides[n] = "server"
             /\ contexts[n] => contexts[n - 1]
  <2>1. n - 1 \in 1 .. Len(sides) /\ n \in 1 .. Len(sides) /\ n - 1 <= n
    BY <1>6
  <2> QED BY <1>1, <1>6, <2>1 DEF SidesTraced
<1>8. Head(sides) = "client" /\ Head(contexts)
  <2>1. /\ sides \in Seq(Sides) /\ contexts \in Seq(BOOLEAN) /\ sides # <<>> /\ contexts # <<>>
        /\ sides[1] = "client" /\ contexts[1]
    BY <1>1 DEF SidesTraced, ControlTyped
  <2>2. \A T : \A s \in Seq(T) : s # <<>> => Head(s) = s[1]
    OBVIOUS
  <2> QED BY <2>1, <2>2
<1> QED BY <1>3, <1>4, <1>5, <1>7, <1>8 DEF ScopesMatchFrames

(* ErrorInfo() is the error of the handler being executed.                  *)
LEMMA InvDiagnostics ==
    ASSUME InterpreterInv
    PROVE  DiagnosticsMatchFrames
<1>1. DiagnosticsTraced /\ ControlTyped
  BY DEF InterpreterInv
<1>2. PICK n \in Nat : n = Len(stack)
  BY <1>1, StackFacts
<1>3. ASSUME NEW d \in Sides
      PROVE  LET handler == Innermost(Active("handler", d))
                 eval == Innermost(Active("eval", d))
             IN
             /\ ErrorInfo(d) = IF handler = 0 \/ handler < eval \/ stack[handler].nested
                               THEN "none" ELSE stack[handler].error
             /\ diagnostics[d].evals = Cardinality(Active("eval", d))
             /\ diagnostics[d].executes = Cardinality(Active("execute", d))
             /\ Len(diagnostics[d].handled) = Cardinality(Active("handler", d))
  <2>1. PICK H : H = Active("handler", d)
    OBVIOUS
  <2>2. PICK E : E = Active("eval", d)
    OBVIOUS
  <2>3. PICK r \in Handling : r = diagnostics[d]
    BY <1>1 DEF ControlTyped
  <2>4. /\ H \in SUBSET (1 .. n) /\ E \in SUBSET (1 .. n) /\ H \cap E = {}
    BY <1>1, <1>2, <2>1, <2>2, StackFacts
  <2>5. /\ Traces(r.handled, 0, H, ErrorOf) /\ Traces(r.boundaries, 0, E, BoundaryOf(d))
        /\ r.evals = Cardinality(E) /\ r.executes = Cardinality(Active("execute", d))
        /\ r.boundaries \in Seq(Nat) /\ r.handled \in Seq(Shown)
    BY <1>1, <2>1, <2>2, <2>3 DEF DiagnosticsTraced, Handling
  <2>6. /\ Cardinality(H) \in Nat /\ Cardinality(E) \in Nat
        /\ Len(r.handled) = Cardinality(H) /\ Len(r.boundaries) = Cardinality(E)
    <3>1. Cardinality(H) \in Nat /\ Cardinality(E) \in Nat
      BY <2>4, RankBounds
    <3> QED BY <2>5, <3>1 DEF Traces
  <2>7. PICK h \in Nat : h = Innermost(H)
    <3>1. Innermost(H) = 0 \/ Innermost(H) \in 1 .. n
      BY <2>4, InnermostOf
    <3> QED BY <3>1
  <2>8. PICK v \in Nat : v = Innermost(E)
    <3>1. Innermost(E) = 0 \/ Innermost(E) \in 1 .. n
      BY <2>4, InnermostOf
    <3> QED BY <3>1
  <2>9. /\ H = {} => h = 0
        /\ H # {} => h \in H /\ \A x \in H : x <= h
        /\ E = {} => v = 0
        /\ E # {} => v \in E /\ \A x \in E : x <= v
    BY <2>4, <2>7, <2>8, InnermostOf
  <2>10. PICK boundary : boundary = IF r.boundaries = <<>> THEN 0 ELSE Last(r.boundaries)
    OBVIOUS
  <2>11. boundary = Rank(H, v)
    <3>1. CASE E = {}
      <4>1. Cardinality(E) = 0 /\ r.boundaries = <<>>
        BY <2>5, <2>6, <3>1, FS_EmptySet, EmptySeq
      <4>2. {j \in H : j <= 0} = {}
        <5>1. \A j \in H : ~(j <= 0)
          BY <2>4
        <5> QED BY <5>1
      <4>3. Rank(H, 0) = 0
        BY <4>2, FS_EmptySet DEF Rank
      <4> QED BY <2>9, <2>10, <3>1, <4>1, <4>3
    <3>2. CASE E # {}
      <4>1. v \in E /\ \A x \in E : x <= v
        BY <2>9, <3>2
      <4>2. Rank(E, v) = Cardinality(E) /\ Rank(E, v) >= 1
        BY <2>4, <4>1, RankBounds
      <4>3. r.boundaries[Cardinality(E)] = BoundaryOf(d)[v]
        <5>1. r.boundaries[0 + Rank(E, v)] = BoundaryOf(d)[v]
          BY <2>5, <4>1 DEF Traces
        <5>2. 0 + Rank(E, v) = Cardinality(E)
          BY <2>6, <4>2
        <5> QED BY <5>1, <5>2
      <4>4. BoundaryOf(d)[v] = Rank(H, v)
        BY <1>2, <2>1, <2>4, <4>1 DEF BoundaryOf
      <4>5. r.boundaries # <<>> /\ Last(r.boundaries) = r.boundaries[Cardinality(E)]
        BY <2>6, <4>2 DEF Last
      <4> QED BY <2>10, <4>3, <4>4, <4>5
    <3> QED BY <3>1, <3>2
  <2>12. Cardinality(H) <= boundary <=> h = 0 \/ h < v
    <3>1. /\ Rank(H, v) \in 0 .. Cardinality(H)
          /\ (\A x \in H : x <= v) => Rank(H, v) = Cardinality(H)
          /\ Rank(H, v) = Cardinality(H) => \A x \in H : x <= v
      BY <2>4, RankBounds
    <3>2. Cardinality(H) <= boundary <=> \A x \in H : x <= v
      BY <2>6, <2>11, <3>1
    <3>3. CASE H = {}
      BY <2>9, <3>2, <3>3
    <3>4. CASE H # {}
      <4>1. h \in H /\ h \in 1 .. n /\ \A x \in H : x <= h
        BY <2>4, <2>9, <3>4
      <4>2. h # v
        <5>1. CASE E = {}
          BY <2>9, <4>1, <5>1
        <5>2. CASE E # {}
          BY <2>4, <2>9, <4>1, <5>2
        <5> QED BY <5>1, <5>2
      <4>3. (\A x \in H : x <= v) <=> h <= v
        BY <2>4, <4>1
      <4> QED BY <3>2, <4>1, <4>2, <4>3
    <3> QED BY <3>3, <3>4
  <2>13. ErrorInfo(d) = IF Len(r.handled) <= boundary THEN "none" ELSE Last(r.handled)
    BY <2>3, <2>10 DEF ErrorInfo
  <2>14. ~(h = 0 \/ h < v) =>
            Last(r.handled) = IF stack[h].nested THEN "none" ELSE stack[h].error
    <3>1. ASSUME h # 0
          PROVE  Last(r.handled) = IF stack[h].nested THEN "none" ELSE stack[h].error
      <4>1. h \in H /\ \A x \in H : x <= h
        BY <2>9, <3>1
      <4>2. Rank(H, h) = Cardinality(H)
        BY <2>4, <4>1, RankBounds
      <4>3. r.handled[Cardinality(H)] = ErrorOf[h]
        <5>1. r.handled[0 + Rank(H, h)] = ErrorOf[h]
          BY <2>5, <4>1 DEF Traces
        <5>2. 0 + Rank(H, h) = Cardinality(H)
          BY <2>6, <4>2
        <5> QED BY <5>1, <5>2
      <4>4. ErrorOf[h] = IF stack[h].nested THEN "none" ELSE stack[h].error
        BY <1>2, <2>4, <4>1 DEF ErrorOf
      <4> QED BY <2>6, <4>3, <4>4 DEF Last
    <3> QED BY <3>1
  <2>15. ErrorInfo(d) = IF h = 0 \/ h < v \/ stack[h].nested THEN "none" ELSE stack[h].error
    BY <2>6, <2>12, <2>13, <2>14
  <2> QED BY <2>1, <2>2, <2>3, <2>5, <2>6, <2>7, <2>8, <2>15
<1> QED BY <1>3 DEF DiagnosticsMatchFrames, Sides

(* What was interrupted leaves nothing behind: StateMatchesFrames. *)
THEOREM StateAlwaysMatchesFrames == CodeSpec => []StateMatchesFrames
<1>1. InterpreterInv => StateMatchesFrames
  BY InvScopes, InvDiagnostics DEF StateMatchesFrames
<1> QED
  BY <1>1, InterpreterInvariant, PTL

=============================================================================
