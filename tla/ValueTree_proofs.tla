---------------------------- MODULE ValueTree_proofs ----------------------------
(***************************************************************************)
(* Proofs about ValueTree for any sets of trees, rows and columns and any   *)
(* budget: no sequence of calls leaves a tree that the preflight of Clear,  *)
(* Delete and Copy refuses, and what was removed from a tree stays removed. *)
(* First the operators on lists, then the invariant, what it says of the    *)
(* rows below a collection, and one lemma per call.                         *)
(***************************************************************************)
EXTENDS ValueTree, SequenceTheorems, FiniteSetTheorems, WellFoundedInduction, TLAPS

-----------------------------------------------------------------------------
(* Recursion over the numbers up to a bound. *)

(* A set of naturals that is not empty has a least member. *)
LEMMA LeastNumber ==
    ASSUME NEW S, S \subseteq Nat, S # {}
    PROVE  \E n \in S : \A m \in S : n <= m
<1>1. PICK n \in S : ~ \E m \in S : <<m, n>> \in OpToRel(<, Nat)
  BY NatLessThanWellFounded, WFMin, Zenon
<1>2. \A m \in S : ~ (m < n)
  BY <1>1 DEF OpToRel
<1> QED BY <1>2

(* What holds of 0 and passes from each number to the next holds up to N. *)
LEMMA UpTo ==
    ASSUME NEW N \in Nat, NEW S, 0 \in S,
           \A n \in 0 .. N : n # N /\ n \in S => n + 1 \in S
    PROVE  \A n \in 0 .. N : n \in S
<1> DEFINE Missed == {n \in 0 .. N : n \notin S}
<1> SUFFICES ASSUME Missed # {} PROVE FALSE
  OBVIOUS
<1>1. Missed \subseteq Nat
  OBVIOUS
<1>2. PICK n \in Missed : \A m \in Missed : n <= m
  BY <1>1, LeastNumber, Zenon
<1>3. n # 0 /\ n - 1 \in 0 .. N /\ ~ (n <= n - 1)
  BY <1>2
<1>4. n - 1 \in S
  BY <1>2, <1>3
<1> QED BY <1>2, <1>3, <1>4

(* A function on 0 .. N is defined by its value at 0 and a step. *)
Unfolds(f, N, a, step) == f[0] = a /\ \A n \in 1 .. N : f[n] = step[n][f[n - 1]]
LEMMA Recursion ==
    ASSUME NEW N \in Nat, NEW S, NEW a \in S, NEW step \in [1 .. N -> [S -> S]]
    PROVE  \E f \in [0 .. N -> S] : Unfolds(f, N, a, step)
<1> DEFINE Good(m) == \E f \in [0 .. m -> S] :
                         f[0] = a /\ \A n \in 1 .. m : f[n] = step[n][f[n - 1]]
           Goods == {m \in 0 .. N : Good(m)}
<1>1. 0 \in Goods
  <2> DEFINE g == [n \in 0 .. 0 |-> a]
  <2>1. g \in [0 .. 0 -> S] /\ g[0] = a /\ 1 .. 0 = {}
    OBVIOUS
  <2> HIDE DEF g
  <2>2. Good(0)
    BY <2>1
  <2> QED BY <2>2
<1>2. ASSUME NEW m \in 0 .. N, m # N, m \in Goods PROVE m + 1 \in Goods
  <2>1. PICK f \in [0 .. m -> S] : f[0] = a /\ \A n \in 1 .. m : f[n] = step[n][f[n - 1]]
    BY <1>2
  <2> DEFINE g == [n \in 0 .. m + 1 |-> IF n = m + 1 THEN step[m + 1][f[m]] ELSE f[n]]
  <2>2. step[m + 1][f[m]] \in S
    BY <1>2
  <2>3. g \in [0 .. m + 1 -> S]
    BY <2>2
  <2>4. g[0] = a
    BY <2>1
  <2>5. \A n \in 1 .. m + 1 : g[n] = step[n][g[n - 1]]
    BY <2>1
  <2>6. Good(m + 1)
    BY <2>3, <2>4, <2>5
  <2> QED BY <1>2, <2>6
<1> HIDE DEF Goods
<1>3. \A n \in 0 .. N : n \in Goods
  BY <1>1, <1>2, UpTo
<1> QED BY <1>3 DEF Goods, Unfolds

-----------------------------------------------------------------------------
(* Sequences. *)

(* What Without computes, item by item. *)
LeftIn(f, s, gone) ==
    /\ f[0] = <<>>
    /\ \A n \in 1 .. Len(s) :
          f[n] = IF s[n] \in gone THEN f[n - 1] ELSE Append(f[n - 1], s[n])
    /\ Without(s, gone) = f[Len(s)]
LEMMA WithoutFunction ==
    ASSUME NEW T, NEW s \in Seq(T), NEW gone
    PROVE  \E f \in [0 .. Len(s) -> Seq(T)] : LeftIn(f, s, gone)
<1> DEFINE step == [n \in 1 .. Len(s) |->
                      [q \in Seq(T) |-> IF s[n] \in gone THEN q ELSE Append(q, s[n])]]
           Rec(f) == [n \in 0 .. Len(s) |->
                        IF n = 0 THEN <<>>
                        ELSE IF s[n] \in gone THEN f[n - 1] ELSE Append(f[n - 1], s[n])]
           left == CHOOSE f : f = Rec(f)
<1>1. step \in [1 .. Len(s) -> [Seq(T) -> Seq(T)]]
  OBVIOUS
<1>2. PICK f \in [0 .. Len(s) -> Seq(T)] :
         Unfolds(f, Len(s), <<>>, step)
  <2>1. Len(s) \in Nat /\ <<>> \in Seq(T)
    OBVIOUS
  <2> HIDE DEF step
  <2> QED BY <1>1, <2>1, Recursion, Zenon
<1>3. ASSUME NEW n \in 1 .. Len(s) PROVE f[n - 1] \in Seq(T)
  <2>1. n - 1 \in 0 .. Len(s)
    BY <1>3
  <2> QED BY <1>2, <2>1
<1>4. \A n \in 1 .. Len(s) :
         f[n] = IF s[n] \in gone THEN f[n - 1] ELSE Append(f[n - 1], s[n])
  BY <1>2, <1>3 DEF Unfolds
<1>5. f = Rec(f)
  <2>1. \A n \in 0 .. Len(s) : f[n] = Rec(f)[n]
    <3>1. f[0] = <<>>
      BY <1>2 DEF Unfolds
    <3>2. ASSUME NEW n \in 0 .. Len(s), n # 0 PROVE n \in 1 .. Len(s)
      BY <3>2
    <3> QED BY <1>4, <3>1, <3>2
  <2>2. f = [n \in 0 .. Len(s) |-> f[n]]
    BY <1>2
  <2> HIDE DEF Rec
  <2>3. Rec(f) = [n \in 0 .. Len(s) |-> Rec(f)[n]]
    BY DEF Rec
  <2> QED BY <2>1, <2>2, <2>3
<1>6. left = Rec(left)
  BY <1>5, Zenon
<1>7. Without(s, gone) = left[Len(s)]
  BY Zenon DEF Without
<1> HIDE DEF left
<1> DEFINE Same == {n \in 0 .. Len(s) : left[n] = f[n]}
<1>8. 0 \in Same
  BY <1>2, <1>6 DEF Unfolds
<1>9. ASSUME NEW n \in 0 .. Len(s), n # Len(s), n \in Same PROVE n + 1 \in Same
  <2>1. n + 1 \in 1 .. Len(s) /\ n + 1 \in 0 .. Len(s) /\ (n + 1) - 1 = n /\ n + 1 # 0
    BY <1>9
  <2>2. left[n + 1] = IF s[n + 1] \in gone THEN left[n] ELSE Append(left[n], s[n + 1])
    BY <1>6, <2>1
  <2>3. f[n + 1] = IF s[n + 1] \in gone THEN f[n] ELSE Append(f[n], s[n + 1])
    BY <1>4, <2>1
  <2> QED BY <1>9, <2>1, <2>2, <2>3
<1> HIDE DEF Same
<1>10. \A n \in 0 .. Len(s) : n \in Same
  <2>1. Len(s) \in Nat
    OBVIOUS
  <2> QED BY <1>8, <1>9, <2>1, UpTo
<1>11. left[Len(s)] = f[Len(s)]
  BY <1>10 DEF Same
<1> QED BY <1>2, <1>4, <1>7, <1>11 DEF Unfolds, LeftIn

(* Without removes the members of gone and nothing else. *)
LEMMA WithoutFacts ==
    ASSUME NEW T, NEW s \in Seq(T), NEW gone
    PROVE  /\ Without(s, gone) \in Seq(T)
           /\ ToSet(Without(s, gone)) = ToSet(s) \ gone
           /\ Len(Without(s, gone)) <= Len(s)
           /\ IsInjective(s) => IsInjective(Without(s, gone))
<1>1. PICK f \in [0 .. Len(s) -> Seq(T)] : LeftIn(f, s, gone)
  BY WithoutFunction
<1> USE DEF LeftIn
<1> DEFINE Upto(n) == {s[i] : i \in 1 .. n}
           Good == {n \in 0 .. Len(s) : /\ ToSet(f[n]) = Upto(n) \ gone
                                        /\ Len(f[n]) <= n
                                        /\ IsInjective(s) => IsInjective(f[n])}
<1>2. 0 \in Good
  BY <1>1 DEF ToSet, IsInjective
<1>3. ASSUME NEW n \in 0 .. Len(s), n # Len(s), n \in Good PROVE n + 1 \in Good
  <2>0. n + 1 \in 1 .. Len(s) /\ f[n] \in Seq(T)
    BY <1>3
  <2>1. f[n + 1] = IF s[n + 1] \in gone THEN f[n] ELSE Append(f[n], s[n + 1])
    BY <1>1, <2>0
  <2>2. Upto(n + 1) = Upto(n) \cup {s[n + 1]}
    <3>1. 1 .. n + 1 = (1 .. n) \cup {n + 1}
      BY <2>0
    <3> QED BY <3>1
  <2>3. CASE s[n + 1] \in gone
    BY <1>3, <2>1, <2>2, <2>3
  <2>4. CASE s[n + 1] \notin gone
    <3>1. ToSet(f[n + 1]) = ToSet(f[n]) \cup {s[n + 1]}
      <4>1. /\ Len(f[n + 1]) = Len(f[n]) + 1 /\ f[n + 1][Len(f[n]) + 1] = s[n + 1]
            /\ \A i \in 1 .. Len(f[n]) : f[n + 1][i] = f[n][i]
            /\ f[n + 1] \in Seq(T)
        BY <2>0, <2>1, <2>4
      <4>2. 1 .. Len(f[n + 1]) = (1 .. Len(f[n])) \cup {Len(f[n]) + 1}
        BY <2>0, <4>1
      <4>3. DOMAIN f[n + 1] = 1 .. Len(f[n + 1]) /\ DOMAIN f[n] = 1 .. Len(f[n])
        BY <2>0, <4>1
      <4> QED BY <4>1, <4>2, <4>3 DEF ToSet
    <3>2. Len(f[n + 1]) <= n + 1
      BY <1>3, <2>0, <2>1, <2>4
    <3>3. ASSUME IsInjective(s) PROVE IsInjective(f[n + 1])
      <4>1. s[n + 1] \notin Upto(n)
        BY <2>0, <3>3 DEF IsInjective
      <4>2. s[n + 1] \notin ToSet(f[n])
        BY <1>3, <4>1
      <4>3. \A i \in 1 .. Len(f[n]) : f[n][i] # s[n + 1]
        BY <2>0, <4>2 DEF ToSet
      <4>4. IsInjective(f[n])
        BY <1>3, <3>3
      <4>5. \A i, j \in 1 .. Len(f[n]) : f[n][i] = f[n][j] => i = j
        BY <2>0, <4>4 DEF IsInjective
      <4>6. /\ f[n + 1] \in Seq(T) /\ Len(f[n + 1]) = Len(f[n]) + 1
            /\ f[n + 1][Len(f[n]) + 1] = s[n + 1]
            /\ \A i \in 1 .. Len(f[n]) : f[n + 1][i] = f[n][i]
        BY <2>0, <2>1, <2>4
      <4>7. \A i, j \in 1 .. Len(f[n + 1]) : f[n + 1][i] = f[n + 1][j] => i = j
        BY <2>0, <4>3, <4>5, <4>6
      <4>8. DOMAIN f[n + 1] = 1 .. Len(f[n + 1])
        BY <4>6
      <4> QED BY <4>7, <4>8 DEF IsInjective
    <3> QED BY <1>3, <2>2, <2>4, <3>1, <3>2, <3>3
  <2> QED BY <2>3, <2>4
<1> HIDE DEF Good
<1>4. \A n \in 0 .. Len(s) : n \in Good
  <2>1. Len(s) \in Nat
    OBVIOUS
  <2> QED BY <1>2, <1>3, <2>1, UpTo
<1>5. Len(s) \in Good
  BY <1>4
<1>6. Upto(Len(s)) = ToSet(s)
  BY DEF ToSet
<1> QED BY <1>1, <1>5, <1>6 DEF Good

(* InsertAt adds one item. *)
LEMMA InsertAtFacts ==
    ASSUME NEW T, NEW s \in Seq(T), NEW i \in 1 .. Len(s) + 1, NEW e \in T
    PROVE  /\ InsertAt(s, i, e) \in Seq(T)
           /\ ToSet(InsertAt(s, i, e)) = ToSet(s) \cup {e}
           /\ Len(InsertAt(s, i, e)) = Len(s) + 1
           /\ IsInjective(s) /\ e \notin ToSet(s) => IsInjective(InsertAt(s, i, e))
<1> DEFINE r == InsertAt(s, i, e)
<1>1. /\ r \in Seq(T) /\ Len(r) = Len(s) + 1
      /\ \A j \in 1 .. Len(s) + 1 :
            r[j] = IF j < i THEN s[j] ELSE IF j = i THEN e ELSE s[j - 1]
  <2> DEFINE a == SubSeq(s, 1, i - 1)
             b == SubSeq(s, i, Len(s))
  <2>1. /\ a \in Seq(T) /\ Len(a) = i - 1 /\ \A j \in 1 .. i - 1 : a[j] = s[j]
    OBVIOUS
  <2>2. /\ b \in Seq(T) /\ Len(b) = Len(s) - i + 1
        /\ \A j \in 1 .. Len(s) - i + 1 : b[j] = s[i + j - 1]
    OBVIOUS
  <2>3. r = a \o <<e>> \o b
    BY DEF InsertAt
  <2> HIDE DEF a, b, r
  <2> DEFINE c == a \o <<e>>
  <2>5. /\ c \in Seq(T) /\ Len(c) = i /\ c[i] = e
        /\ \A j \in 1 .. i - 1 : c[j] = a[j]
    BY <2>1
  <2>6. r = c \o b
    BY <2>3
  <2> HIDE DEF c
  <2>4. r \in Seq(T) /\ Len(r) = Len(s) + 1
    <3>1. c \o b \in Seq(T) /\ Len(c \o b) = Len(c) + Len(b)
      BY <2>2, <2>5, ConcatProperties
    <3> QED BY <2>2, <2>5, <2>6, <3>1
  <2>7. \A j \in 1 .. i : r[j] = c[j]
    BY <2>2, <2>5, <2>6
  <2>8. ASSUME NEW j \in 1 .. Len(s) + 1, j > i PROVE r[j] = s[j - 1]
    <3>1. j - i \in 1 .. Len(b) /\ j = Len(c) + (j - i) /\ i + (j - i) - 1 = j - 1
      BY <2>2, <2>5, <2>8
    <3>2. r[Len(c) + (j - i)] = b[j - i]
      BY <2>2, <2>5, <2>6, <3>1
    <3>3. b[j - i] = s[i + (j - i) - 1]
      BY <2>2, <3>1
    <3> QED BY <3>1, <3>2, <3>3
  <2>9. ASSUME NEW j \in 1 .. Len(s) + 1, j <= i
        PROVE  r[j] = IF j < i THEN s[j] ELSE e
    BY <2>1, <2>5, <2>7, <2>9
  <2> QED BY <2>4, <2>8, <2>9
<1> HIDE DEF r
<1>2. ToSet(r) = ToSet(s) \cup {e}
  <2>1. ASSUME NEW j \in 1 .. Len(s) + 1 PROVE r[j] \in ToSet(s) \cup {e}
    <3>1. CASE j < i
      BY <1>1, <3>1 DEF ToSet
    <3>2. CASE j = i
      BY <1>1, <3>2
    <3>3. CASE j > i
      <4>1. j - 1 \in 1 .. Len(s) /\ r[j] = s[j - 1]
        BY <1>1, <3>3
      <4> QED BY <4>1 DEF ToSet
    <3> QED BY <3>1, <3>2, <3>3
  <2>2. ASSUME NEW j \in 1 .. Len(s) PROVE \E l \in 1 .. Len(s) + 1 : r[l] = s[j]
    <3>1. CASE j < i
      BY <1>1, <3>1
    <3>2. CASE ~ (j < i)
      <4>1. j + 1 \in 1 .. Len(s) + 1 /\ r[j + 1] = s[j]
        BY <1>1, <3>2
      <4> QED BY <4>1
    <3> QED BY <3>1, <3>2
  <2>3. r[i] = e
    BY <1>1
  <2>4. DOMAIN r = 1 .. Len(s) + 1 /\ DOMAIN s = 1 .. Len(s) /\ i \in DOMAIN r
    BY <1>1
  <2>5. \A x \in ToSet(s) : x \in ToSet(r)
    BY <2>2, <2>4 DEF ToSet
  <2>6. e \in ToSet(r)
    BY <2>3, <2>4 DEF ToSet
  <2>7. \A x \in ToSet(r) : x \in ToSet(s) \cup {e}
    BY <2>1, <2>4 DEF ToSet
  <2> QED BY <2>5, <2>6, <2>7
<1>3. ASSUME IsInjective(s), e \notin ToSet(s) PROVE IsInjective(r)
  <2>1. \A j, l \in 1 .. Len(s) : s[j] = s[l] => j = l
    BY <1>3 DEF IsInjective
  <2>2. \A j \in 1 .. Len(s) : s[j] # e
    BY <1>3 DEF ToSet
  <2>3. ASSUME NEW j \in 1 .. Len(s) + 1, NEW l \in 1 .. Len(s) + 1, r[j] = r[l], j < l
        PROVE  FALSE
    <3>1. CASE l < i
      <4>1. r[j] = s[j] /\ r[l] = s[l] /\ j \in 1 .. Len(s) /\ l \in 1 .. Len(s)
        BY <1>1, <2>3, <3>1
      <4>2. j # l
        BY <2>3
      <4>3. s[j] = s[l]
        BY <2>3, <4>1, Zenon
      <4> QED BY <2>1, <4>1, <4>2, <4>3
    <3>2. CASE l = i
      BY <1>1, <2>2, <2>3, <3>2
    <3>3. CASE l > i
      <4>1. l - 1 \in 1 .. Len(s) /\ r[l] = s[l - 1]
        BY <1>1, <3>3
      <4>2. CASE j < i
        <5>1. r[j] = s[j] /\ j \in 1 .. Len(s) /\ j # l - 1
          BY <1>1, <2>3, <3>3, <4>2
        <5> QED BY <2>1, <2>3, <4>1, <5>1
      <4>3. CASE j = i
        BY <1>1, <2>2, <2>3, <3>3, <4>1, <4>3
      <4>4. CASE j > i
        <5>1. j - 1 \in 1 .. Len(s) /\ r[j] = s[j - 1]
          BY <1>1, <2>3, <4>4
        <5> QED BY <2>1, <2>3, <4>1, <5>1
      <4> QED BY <4>2, <4>3, <4>4
    <3> QED BY <3>1, <3>2, <3>3
  <2>4. DOMAIN r = 1 .. Len(s) + 1
    BY <1>1
  <2>5. \A j, l \in 1 .. Len(s) + 1 : r[j] = r[l] => j = l
    BY <2>3
  <2> QED BY <2>4, <2>5 DEF IsInjective
<1> QED BY <1>1, <1>2, <1>3 DEF r

(* RemoveAt removes one item. *)
LEMMA RemoveAtFacts ==
    ASSUME NEW T, NEW s \in Seq(T), NEW i \in 1 .. Len(s), IsInjective(s)
    PROVE  /\ RemoveAt(s, i) \in Seq(T)
           /\ ToSet(RemoveAt(s, i)) = ToSet(s) \ {s[i]}
           /\ Len(RemoveAt(s, i)) = Len(s) - 1
           /\ IsInjective(RemoveAt(s, i))
<1> DEFINE r == RemoveAt(s, i)
<1>1. /\ r \in Seq(T) /\ Len(r) = Len(s) - 1
      /\ \A j \in 1 .. Len(s) - 1 : r[j] = IF j < i THEN s[j] ELSE s[j + 1]
  <2> DEFINE a == SubSeq(s, 1, i - 1)
             b == SubSeq(s, i + 1, Len(s))
  <2>1. /\ a \in Seq(T) /\ Len(a) = i - 1 /\ \A j \in 1 .. i - 1 : a[j] = s[j]
    OBVIOUS
  <2>2. /\ b \in Seq(T) /\ Len(b) = Len(s) - i
        /\ \A j \in 1 .. Len(s) - i : b[j] = s[i + j]
    OBVIOUS
  <2>3. r = a \o b
    BY DEF RemoveAt
  <2> HIDE DEF a, b, r
  <2>4. r \in Seq(T) /\ Len(r) = Len(s) - 1
    BY <2>1, <2>2, <2>3
  <2>5. ASSUME NEW j \in 1 .. Len(s) - 1, j < i PROVE r[j] = s[j]
    BY <2>1, <2>2, <2>3, <2>5
  <2>6. ASSUME NEW j \in 1 .. Len(s) - 1, ~ (j < i) PROVE r[j] = s[j + 1]
    <3> DEFINE l == j - i + 1
    <3>1. l \in 1 .. Len(b) /\ j = Len(a) + l /\ i + l = j + 1
      BY <2>1, <2>2, <2>6
    <3> HIDE DEF l
    <3>2. r[Len(a) + l] = b[l]
      BY <2>1, <2>2, <2>3, <3>1
    <3>3. b[l] = s[i + l]
      BY <2>2, <3>1
    <3> QED BY <3>1, <3>2, <3>3
  <2> QED BY <2>4, <2>5, <2>6
<1>2. \A j, l \in 1 .. Len(s) : s[j] = s[l] => j = l
  BY DEF IsInjective
<1> HIDE DEF r
<1>3. ToSet(r) = ToSet(s) \ {s[i]}
  <2>1. ASSUME NEW j \in 1 .. Len(s) - 1 PROVE r[j] \in ToSet(s) \ {s[i]}
    <3> DEFINE l == IF j < i THEN j ELSE j + 1
    <3>1. l \in 1 .. Len(s) /\ l # i /\ r[j] = s[l]
      BY <1>1
    <3>2. s[l] # s[i]
      BY <1>2, <3>1
    <3>3. l \in DOMAIN s
      BY <3>1
    <3> QED BY <3>1, <3>2, <3>3 DEF ToSet
  <2>2. ASSUME NEW j \in 1 .. Len(s), j # i PROVE \E l \in 1 .. Len(s) - 1 : r[l] = s[j]
    <3>1. CASE j < i
      BY <1>1, <3>1
    <3>2. CASE j > i
      <4>1. j - 1 \in 1 .. Len(s) - 1 /\ r[j - 1] = s[j]
        BY <1>1, <3>2
      <4> QED BY <4>1
    <3> QED BY <2>2, <3>1, <3>2
  <2>3. DOMAIN r = 1 .. Len(s) - 1 /\ DOMAIN s = 1 .. Len(s)
    BY <1>1
  <2>4. \A x \in ToSet(r) : x \in ToSet(s) \ {s[i]}
    BY <2>1, <2>3 DEF ToSet
  <2>5. ASSUME NEW x \in ToSet(s) \ {s[i]} PROVE x \in ToSet(r)
    BY <2>2, <2>3, <2>5 DEF ToSet
  <2> QED BY <2>4, <2>5
<1>4. \A j, l \in 1 .. Len(s) - 1 : r[j] = r[l] => j = l
  BY <1>1, <1>2
<1>5. IsInjective(r)
  BY <1>1, <1>4 DEF IsInjective
<1> QED BY <1>1, <1>3, <1>5 DEF r

(* A move keeps the items. *)
LEMMA MovedFacts ==
    ASSUME NEW T, NEW s \in Seq(T), NEW i \in 1 .. Len(s), NEW j \in 1 .. Len(s), IsInjective(s)
    PROVE  /\ InsertAt(RemoveAt(s, i), j, s[i]) \in Seq(T)
           /\ ToSet(InsertAt(RemoveAt(s, i), j, s[i])) = ToSet(s)
           /\ Len(InsertAt(RemoveAt(s, i), j, s[i])) = Len(s)
           /\ IsInjective(InsertAt(RemoveAt(s, i), j, s[i]))
<1> DEFINE r == RemoveAt(s, i)
<1>1. /\ r \in Seq(T) /\ ToSet(r) = ToSet(s) \ {s[i]} /\ Len(r) = Len(s) - 1 /\ IsInjective(r)
  BY RemoveAtFacts
<1>2. s[i] \in T /\ s[i] \in ToSet(s)
  BY DEF ToSet
<1> HIDE DEF r
<1>3. j \in 1 .. Len(r) + 1 /\ s[i] \notin ToSet(r)
  BY <1>1
<1>4. /\ InsertAt(r, j, s[i]) \in Seq(T)
      /\ ToSet(InsertAt(r, j, s[i])) = ToSet(r) \cup {s[i]}
      /\ Len(InsertAt(r, j, s[i])) = Len(r) + 1
      /\ IsInjective(InsertAt(r, j, s[i]))
  BY <1>1, <1>2, <1>3, InsertAtFacts
<1> QED BY <1>1, <1>2, <1>4 DEF r

-----------------------------------------------------------------------------
(* The invariant. *)

(* The rows of a collection, and the collections of a tree. *)
Kids(k) == ToSet(rows[k].items)
Whole(t) == {t} \cup tree[t].registry

(* What is kept of a column, a row and a collection. *)
ColumnType == [life : {"none", "active", "deleted", "reset"}, table : Trees \cup {{}}]
RowType == [life : {"none", "live", "deleted"}, tree : Trees \cup {{}},
            collection : Collections \cup {{}}, depth : Nat, cells : SUBSET Columns]
RowsType == [items : Seq(Rows), forward : {"no", "clear", "delete"}]

TreeTyped ==
    /\ tree \in [Trees -> [made : BOOLEAN, columns : Seq(Columns), registry : SUBSET Rows]]
    /\ column \in [Columns -> ColumnType]
    /\ row \in [Rows -> RowType]
    /\ rows \in [Collections -> RowsType]

(* The columns of a tree are the active ones that name it, each once. *)
ColumnsSound ==
    /\ \A t \in Trees : IsInjective(tree[t].columns)
    /\ \A t \in Trees : \A c \in ColumnSet(t) : column[c] = [table |-> t, life |-> "active"]
    /\ \A c \in Columns : column[c].life = "active" =>
          column[c].table \in Trees /\ c \in ColumnSet(column[c].table)

(* A registered row has a cell for each column, a deleted one has none. *)
CellsSound ==
    /\ \A t \in Trees : \A r \in tree[t].registry : row[r].cells = ColumnSet(t)
    /\ \A r \in Rows : row[r].life = "deleted" => row[r].cells = {}

(* The registered rows are the live ones, each at its place and depth.       *)
Placed(t, r) ==
    /\ row[r].life = "live" /\ row[r].tree = t
    /\ row[r].collection \in Whole(t) /\ r \in Kids(row[r].collection)
    /\ row[r].depth = DepthIn(row[r].collection) /\ row[r].depth <= MaxDepth
RowsPlaced ==
    /\ \A t \in Trees : \A r \in tree[t].registry : Placed(t, r)
    /\ \A r \in Rows : row[r].life = "live" =>
          row[r].tree \in Trees /\ r \in tree[row[r].tree].registry

(* The collections of a tree hold its rows, each the rows placed there.      *)
Holds(t, k) ==
    /\ rows[k].forward = "no" /\ IsInjective(rows[k].items)
    /\ Kids(k) \subseteq tree[t].registry
    /\ \A r \in Kids(k) : row[r].collection = k
CollectionsSound == \A t \in Trees : \A k \in Whole(t) : Holds(t, k)

(* What was not created yet, or was deleted, holds nothing. *)
NothingElse ==
    /\ \A r \in Rows : row[r].life = "none" => rows[r] = EmptyCollection
    /\ \A r \in Rows : row[r].life = "deleted" => rows[r].items = <<>> /\ row[r].tree \in Made
    /\ \A t \in Trees : t \notin Made => tree[t].columns = <<>> /\ tree[t].registry = {}

BudgetKept ==
    \A t \in Trees : WithinBudget(Cardinality(tree[t].registry), Len(tree[t].columns))

ShapeSound == RowsPlaced /\ CollectionsSound /\ NothingElse
TreeInv == TreeTyped /\ ColumnsSound /\ CellsSound /\ ShapeSound /\ BudgetKept

-----------------------------------------------------------------------------
(* The walk of a subtree. *)

Closed(C) == \A k \in C : Kids(k) \subseteq C

(* The levels of the walk. *)
Levels(f, k) ==
    /\ f[0] = {k}
    /\ \A n \in 1 .. MaxDepth + 2 :
          f[n] = f[n - 1] \cup UNION {Kids(c) : c \in f[n - 1]}
    /\ Below(k) = f[MaxDepth + 2]

LEMMA KidsAreRows ==
    ASSUME TreeTyped, NEW k \in Collections
    PROVE  rows[k].items \in Seq(Rows) /\ Kids(k) \subseteq Rows
<1>1. rows[k].items \in Seq(Rows)
  BY DEF TreeTyped, RowsType
<1> QED BY <1>1 DEF Kids, ToSet

LEMMA BelowLevels ==
    ASSUME TreeTyped, NEW k \in Collections
    PROVE  \E f \in [0 .. MaxDepth + 2 -> SUBSET Collections] : Levels(f, k)
<1> DEFINE N == MaxDepth + 2
           S == SUBSET Collections
           Next(X) == X \cup UNION {Kids(c) : c \in X}
           step == [n \in 1 .. N |-> [X \in S |-> Next(X)]]
           Rec(f) == [n \in 0 .. N |-> IF n = 0 THEN {k} ELSE Next(f[n - 1])]
           level == CHOOSE f : f = Rec(f)
<1>0. N \in Nat /\ {k} \in S
  BY TreeAssumption
<1>1. step \in [1 .. N -> [S -> S]]
  <2>1. ASSUME NEW X \in S PROVE Next(X) \in S
    <3>1. \A c \in X : Kids(c) \subseteq Collections
      BY <2>1, KidsAreRows DEF Collections
    <3> QED BY <3>1
  <2> HIDE DEF Next, S
  <2> QED BY <2>1
<1>2. PICK f \in [0 .. N -> S] : Unfolds(f, N, {k}, step)
  <2> HIDE DEF step, N, S
  <2> QED BY <1>0, <1>1, Recursion
<1>3. ASSUME NEW n \in 1 .. N PROVE f[n] = Next(f[n - 1])
  <2>1. n - 1 \in 0 .. N
    BY <1>0, <1>3
  <2>2. f[n - 1] \in S
    BY <1>2, <2>1
  <2>3. f[n] = step[n][f[n - 1]]
    BY <1>2 DEF Unfolds
  <2> HIDE DEF Next, S, N
  <2> QED BY <2>2, <2>3
<1> HIDE DEF Next
<1>5. f = Rec(f)
  <2>1. f[0] = {k}
    BY <1>2 DEF Unfolds
  <2>2. ASSUME NEW n \in 0 .. N, n # 0 PROVE n \in 1 .. N
    BY <2>2, <1>0
  <2>3. \A n \in 0 .. N : f[n] = Rec(f)[n]
    BY <1>3, <2>1, <2>2
  <2>4. f = [n \in 0 .. N |-> f[n]]
    BY <1>2
  <2> HIDE DEF Rec
  <2>5. Rec(f) = [n \in 0 .. N |-> Rec(f)[n]]
    BY DEF Rec
  <2> QED BY <2>3, <2>4, <2>5
<1>6. level = Rec(level)
  BY <1>5, Zenon
<1>7. Below(k) = level[N]
  BY Zenon DEF Below, Next, Kids
<1> HIDE DEF level
<1> DEFINE Same == {n \in 0 .. N : level[n] = f[n]}
<1>8. 0 \in Same
  BY <1>0, <1>5, <1>6
<1>9. ASSUME NEW n \in 0 .. N, n # N, n \in Same PROVE n + 1 \in Same
  <2>1. n + 1 \in 1 .. N /\ n + 1 \in 0 .. N /\ (n + 1) - 1 = n /\ n + 1 # 0
    BY <1>0, <1>9
  <2>2. level[n + 1] = Next(level[n])
    BY <1>6, <2>1
  <2>3. f[n + 1] = Next(f[n])
    BY <1>3, <2>1
  <2> QED BY <1>9, <2>1, <2>2, <2>3
<1> HIDE DEF Same
<1>10. \A n \in 0 .. N : n \in Same
  <2> HIDE DEF N
  <2> QED BY <1>0, <1>8, <1>9, UpTo
<1>11. level[N] = f[N]
  BY <1>0, <1>10 DEF Same
<1>12. f[0] = {k}
  BY <1>2 DEF Unfolds
<1>13. \A n \in 1 .. N : f[n] = Next(f[n - 1])
  BY <1>3
<1>14. Levels(f, k)
  BY <1>7, <1>11, <1>12, <1>13 DEF Levels, Next
<1> QED BY <1>2, <1>14

(* Below(k) is the least closed set with k, when it is closed at all. *)
LEMMA BelowFacts ==
    ASSUME TreeTyped, NEW k \in Collections
    PROVE  /\ k \in Below(k) /\ Below(k) \subseteq Collections
           /\ \A C : k \in C /\ Closed(C) => Below(k) \subseteq C
<1> DEFINE N == MaxDepth + 2
<1>0. N \in Nat
  BY TreeAssumption
<1>1. PICK f \in [0 .. N -> SUBSET Collections] : Levels(f, k)
  BY BelowLevels
<1>2. f[0] = {k} /\ Below(k) = f[N]
  BY <1>1 DEF Levels
<1>3. ASSUME NEW n \in 0 .. N, n # N
      PROVE  n + 1 \in 0 .. N /\ f[n + 1] = f[n] \cup UNION {Kids(c) : c \in f[n]}
  <2>1. n + 1 \in 1 .. N /\ n + 1 \in 0 .. N /\ (n + 1) - 1 = n
    BY <1>0, <1>3
  <2> QED BY <1>1, <2>1 DEF Levels
<1>4. k \in f[N]
  <2> DEFINE Good == {n \in 0 .. N : k \in f[n]}
  <2>1. 0 \in Good
    BY <1>0, <1>2
  <2>2. ASSUME NEW n \in 0 .. N, n # N, n \in Good PROVE n + 1 \in Good
    BY <1>3, <2>2
  <2> HIDE DEF Good, N
  <2>3. \A n \in 0 .. N : n \in Good
    BY <1>0, <2>1, <2>2, UpTo
  <2> QED BY <1>0, <2>3 DEF Good
<1>5. f[N] \subseteq Collections
  BY <1>0, <1>1
<1>6. ASSUME NEW C, k \in C, Closed(C) PROVE f[N] \subseteq C
  <2> DEFINE Good == {n \in 0 .. N : f[n] \subseteq C}
  <2>1. 0 \in Good
    BY <1>0, <1>2, <1>6
  <2>2. ASSUME NEW n \in 0 .. N, n # N, n \in Good PROVE n + 1 \in Good
    <3>1. \A c \in f[n] : Kids(c) \subseteq C
      BY <1>6, <2>2 DEF Closed
    <3> QED BY <1>3, <2>2, <3>1
  <2> HIDE DEF Good, N
  <2>3. \A n \in 0 .. N : n \in Good
    BY <1>0, <2>1, <2>2, UpTo
  <2> QED BY <1>0, <2>3 DEF Good
<1> QED BY <1>2, <1>4, <1>5, <1>6

(* The walk reaches every row of a sound part of a tree, as its depth is a    *)
(* level of the walk.                                                       *)
LEMMA BelowIsClosed ==
    ASSUME TreeTyped, NEW C, C \subseteq Collections, Closed(C), NEW k \in C,
           \A c \in C : \A r \in Kids(c) :
              row[r].depth = DepthIn(c) /\ row[r].depth <= MaxDepth
    PROVE  Closed(Below(k))
<1> DEFINE N == MaxDepth + 2
<1>0. N \in Nat /\ N >= 2 /\ MaxDepth \in Nat
  BY TreeAssumption
<1>1. PICK f \in [0 .. N -> SUBSET Collections] : Levels(f, k)
  BY BelowLevels
<1>2. f[0] = {k} /\ Below(k) = f[N]
  BY <1>1 DEF Levels
<1>3. ASSUME NEW n \in 0 .. N, n # N
      PROVE  n + 1 \in 0 .. N /\ f[n + 1] = f[n] \cup UNION {Kids(c) : c \in f[n]}
  <2>1. n + 1 \in 1 .. N /\ n + 1 \in 0 .. N /\ (n + 1) - 1 = n
    BY <1>0, <1>3
  <2> QED BY <1>1, <2>1 DEF Levels
<1>4. Below(k) \subseteq C
  BY BelowFacts
<1>5. ASSUME NEW m \in 0 .. N PROVE \A n \in 0 .. N : m <= n => f[m] \subseteq f[n]
  <2> DEFINE Good == {n \in 0 .. N : m <= n => f[m] \subseteq f[n]}
  <2>1. 0 \in Good
    BY <1>0
  <2>2. ASSUME NEW n \in 0 .. N, n # N, n \in Good PROVE n + 1 \in Good
    <3>1. CASE m <= n
      BY <1>3, <2>2, <3>1
    <3>2. CASE ~ (m <= n)
      <4>1. m <= n + 1 => m = n + 1
        BY <3>2
      <4> QED BY <1>3, <2>2, <4>1
    <3> QED BY <3>1, <3>2
  <2> HIDE DEF Good, N
  <2>3. \A n \in 0 .. N : n \in Good
    BY <1>0, <2>1, <2>2, UpTo
  <2> QED BY <2>3 DEF Good
<1>6. ASSUME NEW n \in 0 .. N PROVE f[n] \subseteq C
  <2>1. f[n] \subseteq f[N]
    BY <1>0, <1>5
  <2> QED BY <1>2, <1>4, <2>1
<1>7. \A c \in C : \A r \in Kids(c) : r \in Rows /\ row[r].depth \in Nat
  BY KidsAreRows DEF TreeTyped, RowType
<1>8. ASSUME NEW c \in C PROVE c \in Rows => c \notin Trees
  BY TreeAssumption
<1> DEFINE Reached(x) == \/ x = k
                         \/ x \in Rows /\ row[x].depth <= MaxDepth /\ x \in f[row[x].depth + 1]
           Good == {n \in 0 .. N : \A x \in f[n] : Reached(x)}
<1>9. 0 \in Good
  <2>1. \A x \in f[0] : x = k
    BY <1>2
  <2>2. Reached(k)
    OBVIOUS
  <2> HIDE DEF Reached, N
  <2>3. \A x \in f[0] : Reached(x)
    BY <2>1, <2>2
  <2> QED BY <1>0, <2>3
<1>10. ASSUME NEW n \in 0 .. N, n # N, n \in Good PROVE n + 1 \in Good
  <2>1. ASSUME NEW c \in f[n], NEW x \in Kids(c) PROVE Reached(x)
    <3>1. c \in C /\ x \in Rows /\ row[x].depth = DepthIn(c) /\ row[x].depth <= MaxDepth
          /\ row[x].depth \in Nat
      BY <1>6, <1>7, <2>1
    <3>2. row[x].depth + 1 \in 0 .. N /\ row[x].depth + 1 \in 1 .. N /\ row[x].depth \in 0 .. N
          /\ row[x].depth # N
      BY <1>0, <3>1
    <3>3. CASE c = k
      <4>1. x \in f[1]
        <5>1. 0 \in 0 .. N /\ 0 # N /\ 0 + 1 = 1
          BY <1>0
        <5>2. f[1] = f[0] \cup UNION {Kids(a) : a \in f[0]}
          BY <1>3, <5>1
        <5> QED BY <1>2, <2>1, <3>3, <5>2
      <4>2. 1 \in 0 .. N /\ 1 <= row[x].depth + 1
        BY <1>0, <3>1
      <4>3. f[1] \subseteq f[row[x].depth + 1]
        BY <1>5, <3>2, <4>2
      <4> QED BY <3>1, <4>1, <4>3
    <3>4. CASE c # k
      <4>1. c \in Rows /\ c \in f[row[c].depth + 1]
        BY <1>10, <2>1, <3>4
      <4>2. row[x].depth = row[c].depth + 1
        BY <1>8, <3>1, <4>1 DEF DepthIn
      <4>3. x \in f[row[x].depth + 1]
        BY <1>3, <2>1, <3>2, <4>1, <4>2
      <4> QED BY <3>1, <4>3
    <3> QED BY <3>3, <3>4
  <2> HIDE DEF Reached
  <2>2. \A x \in f[n + 1] : Reached(x)
    BY <1>3, <1>10, <2>1
  <2> QED BY <1>3, <1>10, <2>2
<1> HIDE DEF Good
<1>11. \A n \in 0 .. N : n \in Good
  <2> HIDE DEF N
  <2> QED BY <1>0, <1>9, <1>10, UpTo
<1>12. ASSUME NEW x \in f[N], NEW y \in Kids(x) PROVE y \in f[N]
  <2>1. Reached(x) /\ x \in C
    BY <1>0, <1>6, <1>11 DEF Good
  <2>2. y \in Rows /\ row[y].depth = DepthIn(x) /\ row[y].depth <= MaxDepth /\ row[y].depth \in Nat
    BY <1>7, <1>12, <2>1
  <2>3. PICK n \in 0 .. N : n # N /\ x \in f[n]
    <3>1. CASE x = k
      BY <1>0, <1>2, <3>1
    <3>2. CASE x # k
      <4>1. x \in Rows /\ x \in f[row[x].depth + 1]
        BY <2>1, <3>2
      <4>2. row[y].depth = row[x].depth + 1
        BY <1>8, <2>1, <2>2, <4>1 DEF DepthIn
      <4>3. row[y].depth \in 0 .. N /\ row[y].depth # N
        BY <1>0, <2>2
      <4> QED BY <4>1, <4>2, <4>3
    <3> QED BY <3>1, <3>2
  <2>4. y \in f[n + 1] /\ n + 1 \in 0 .. N
    BY <1>3, <1>12, <2>3
  <2>5. f[n + 1] \subseteq f[N]
    BY <1>0, <1>5, <2>4
  <2> QED BY <2>4, <2>5
<1> QED BY <1>2, <1>12 DEF Closed

-----------------------------------------------------------------------------
(* The invariant and the preflight. *)

(* What the invariant says of one tree. *)
LEMMA WholeFacts ==
    ASSUME TreeTyped, ShapeSound, NEW t \in Trees
    PROVE  /\ Whole(t) \subseteq Collections /\ t \in Whole(t) /\ t \notin tree[t].registry
           /\ tree[t].registry \subseteq Rows
           /\ Closed(Whole(t)) /\ Closed(tree[t].registry)
           /\ \A k \in Whole(t) : \A r \in Kids(k) :
                 /\ r \in tree[t].registry /\ row[r].collection = k
                 /\ row[r].depth = DepthIn(k) /\ row[r].depth <= MaxDepth
<1>1. tree[t].registry \subseteq Rows
  BY DEF TreeTyped
<1>2. Whole(t) \subseteq Collections /\ t \in Whole(t) /\ t \notin tree[t].registry
  BY <1>1, TreeAssumption DEF Whole, Collections
<1>3. \A k \in Whole(t) : \A r \in Kids(k) : r \in tree[t].registry /\ row[r].collection = k
  BY DEF ShapeSound, CollectionsSound, Holds
<1>4. \A r \in tree[t].registry : row[r].depth = DepthIn(row[r].collection) /\ row[r].depth <= MaxDepth
  BY DEF ShapeSound, RowsPlaced, Placed
<1>5. \A k \in Whole(t) : \A r \in Kids(k) :
         row[r].depth = DepthIn(k) /\ row[r].depth <= MaxDepth
  BY <1>3, <1>4
<1>6. Closed(Whole(t)) /\ Closed(tree[t].registry)
  BY <1>3 DEF Closed, Whole
<1> QED BY <1>1, <1>2, <1>3, <1>5, <1>6

(* Where a row is registered is one tree, and no row is a tree. *)
LEMMA OneTree ==
    ASSUME TreeTyped, ShapeSound, NEW t \in Trees, NEW u \in Trees, NEW k \in Whole(t),
           k \in Whole(u)
    PROVE  t = u
<1>1. tree[t].registry \subseteq Rows /\ tree[u].registry \subseteq Rows
  BY DEF TreeTyped
<1>2. k \in tree[t].registry => row[k].tree = t
  BY DEF ShapeSound, RowsPlaced, Placed
<1>3. k \in tree[u].registry => row[k].tree = u
  BY DEF ShapeSound, RowsPlaced, Placed
<1> QED BY <1>1, <1>2, <1>3, TreeAssumption DEF Whole

(* A subtree of a tree is closed and a part of it. *)
LEMMA SubtreeFacts ==
    ASSUME TreeTyped, ShapeSound, NEW t \in Trees, NEW k \in Whole(t)
    PROVE  /\ Closed(Below(k)) /\ k \in Below(k) /\ Below(k) \subseteq Whole(t)
           /\ k # t => Below(k) \subseteq tree[t].registry
<1>1. /\ Whole(t) \subseteq Collections /\ Closed(Whole(t)) /\ k \in Collections
      /\ \A c \in Whole(t) : \A r \in Kids(c) :
            row[r].depth = DepthIn(c) /\ row[r].depth <= MaxDepth
  BY WholeFacts
<1>2. Closed(Below(k))
  BY <1>1, BelowIsClosed
<1>3. Closed(tree[t].registry) /\ (k # t => k \in tree[t].registry)
  BY WholeFacts DEF Whole
<1> QED BY <1>1, <1>2, <1>3, BelowFacts

(* The walk from a tree reaches exactly its registered rows. *)
LEMMA WholeIsBelow ==
    ASSUME TreeTyped, ShapeSound, NEW t \in Trees
    PROVE  Below(t) = Whole(t)
<1>1. /\ Closed(Below(t)) /\ t \in Below(t) /\ Below(t) \subseteq Whole(t)
  BY SubtreeFacts, WholeFacts
<1> DEFINE Missed == tree[t].registry \ Below(t)
           Depths == {row[r].depth : r \in Missed}
<1>2. SUFFICES ASSUME Missed # {} PROVE FALSE
  BY <1>1 DEF Whole
<1>3. tree[t].registry \subseteq Rows
  BY WholeFacts
<1>4. \A r \in Rows : row[r].depth \in Nat
  BY DEF TreeTyped, RowType
<1>5. Depths \subseteq Nat /\ Depths # {}
  BY <1>2, <1>3, <1>4
<1>6. PICK n \in Depths : \A m \in Depths : n <= m
  <2> HIDE DEF Depths
  <2> QED BY <1>5, LeastNumber
<1>7. PICK r \in Missed : row[r].depth = n
  BY <1>6
<1>8. row[r].collection \in Whole(t) /\ r \in Kids(row[r].collection)
      /\ row[r].depth = DepthIn(row[r].collection)
  BY <1>7 DEF ShapeSound, RowsPlaced, Placed
<1>9. row[r].collection \notin Below(t)
  BY <1>1, <1>7, <1>8 DEF Closed
<1>10. row[r].collection \in Missed
  BY <1>1, <1>8, <1>9 DEF Whole
<1>11. row[row[r].collection].depth \in Depths
  BY <1>10
<1>12. row[r].depth = row[row[r].collection].depth + 1
  BY <1>3, <1>8, <1>10, TreeAssumption DEF DepthIn
<1>13. row[row[r].collection].depth \in Nat
  BY <1>3, <1>4, <1>10
<1>14. n <= row[row[r].collection].depth
  BY <1>6, <1>11
<1>15. n \in Nat /\ row[r].depth \in Nat
  BY <1>5, <1>6, <1>7
<1> QED BY <1>7, <1>12, <1>13, <1>14, <1>15

(* A tree as the invariant has it is one that the preflight accepts. *)
LEMMA InvNeverCorrupt == TreeInv => NeverCorrupt
<1> SUFFICES ASSUME TreeInv, NEW t \in Trees PROVE ClearGraph(t)
  BY DEF NeverCorrupt, Made
<1> USE DEF TreeInv
<1>1. WithinBudget(Cardinality(tree[t].registry), Len(tree[t].columns))
  BY DEF BudgetKept
<1>2. IsInjective(tree[t].columns)
      /\ \A c \in ColumnSet(t) : column[c] = [table |-> t, life |-> "active"]
  BY DEF ColumnsSound
<1>3. Below(t) = Whole(t)
  BY WholeIsBelow
<1>4. ASSUME NEW k \in Whole(t) PROVE SoundCollection(t, k)
  <2>1. Holds(t, k)
    BY <1>4 DEF ShapeSound, CollectionsSound
  <2>2. \A r \in Kids(k) :
           /\ r \in tree[t].registry /\ row[r].collection = k
           /\ row[r].depth = DepthIn(k) /\ row[r].depth <= MaxDepth
    BY <1>4, WholeFacts
  <2>3. \A r \in tree[t].registry :
           row[r].life = "live" /\ row[r].tree = t /\ row[r].cells = ColumnSet(t)
    BY DEF ShapeSound, RowsPlaced, Placed, CellsSound
  <2>4. rows[k].items # <<>> => DepthIn(k) <= MaxDepth
    <3>1. SUFFICES ASSUME rows[k].items # <<>> PROVE \E r \in Kids(k) : TRUE
      BY <2>2
    <3>2. rows[k].items \in Seq(Rows)
      BY <1>4, WholeFacts, KidsAreRows
    <3>3. 1 \in DOMAIN rows[k].items
      BY <3>1, <3>2
    <3> QED BY <3>3 DEF Kids, ToSet
  <2> QED BY <2>1, <2>2, <2>3, <2>4 DEF SoundCollection, Holds, Kids
<1> QED BY <1>1, <1>2, <1>3, <1>4 DEF ClearGraph, Whole

(* At first there is one tree, and it is empty. *)
LEMMA TreeInitInv == TreeInit => TreeInv
<1> SUFFICES ASSUME TreeInit PROVE TreeInv
  OBVIOUS
<1>1. PICK t \in Trees : tree = [u \in Trees |-> [EmptyTree EXCEPT !.made = (u = t)]]
  BY DEF TreeInit
<1>2. \A u \in Trees : tree[u] = [made |-> u = t, columns |-> <<>>, registry |-> {}]
  BY <1>1 DEF EmptyTree
<1>3. \A u \in Trees : tree[u].columns = <<>> /\ tree[u].registry = {}
  <2>1. \A b : /\ [made |-> b, columns |-> <<>>, registry |-> {}].columns = <<>>
               /\ [made |-> b, columns |-> <<>>, registry |-> {}].registry = {}
    OBVIOUS
  <2> QED BY <1>2, <2>1, Zenon
<1>4. \A c \in Columns : column[c].life = "none" /\ column[c].table = {}
  BY DEF TreeInit, NoColumn
<1>5. \A r \in Rows : row[r].life = "none"
  BY DEF TreeInit, NoRow
<1>6. \A k \in Collections : rows[k] = EmptyCollection
  BY DEF TreeInit
<1>7. TreeTyped
  <2>1. \A u \in Trees : tree[u] \in [made : BOOLEAN, columns : Seq(Columns), registry : SUBSET Rows]
    <3>1. \A b \in BOOLEAN : [made |-> b, columns |-> <<>>, registry |-> {}]
                               \in [made : BOOLEAN, columns : Seq(Columns), registry : SUBSET Rows]
      OBVIOUS
    <3>2. \A u \in Trees : (u = t) \in BOOLEAN
      OBVIOUS
    <3> QED BY <1>2, <3>1, <3>2, Zenon
  <2>2. tree = [u \in Trees |-> tree[u]]
    BY <1>1
  <2>3. tree \in [Trees -> [made : BOOLEAN, columns : Seq(Columns), registry : SUBSET Rows]]
    BY <2>1, <2>2
  <2> QED BY <2>3 DEF TreeInit, TreeTyped, ColumnType, RowType, RowsType, NoColumn, NoRow, EmptyCollection
<1>8. \A u \in Trees : ColumnSet(u) = {} /\ IsInjective(tree[u].columns)
  BY <1>3 DEF ColumnSet, ToSet, IsInjective
<1>9. ColumnsSound
  BY <1>4, <1>8 DEF ColumnsSound
<1>10. CellsSound
  BY <1>3, <1>5 DEF CellsSound
<1>11. RowsPlaced
  BY <1>3, <1>5 DEF RowsPlaced
<1>12. \A k \in Collections : Kids(k) = {} /\ IsInjective(rows[k].items) /\ rows[k].forward = "no"
  BY <1>6 DEF Kids, ToSet, IsInjective, EmptyCollection
<1>13. CollectionsSound
  BY <1>3, <1>12 DEF CollectionsSound, Holds, Whole, Collections
<1>14. NothingElse
  BY <1>3, <1>5, <1>6 DEF NothingElse, Collections
<1>15. BudgetKept
  <2>1. ASSUME NEW u \in Trees PROVE Cardinality(tree[u].registry) = 0 /\ Len(tree[u].columns) = 0
    <3>1. tree[u].registry = {} /\ tree[u].columns = <<>>
      BY <1>3
    <3>2. Cardinality({}) = 0
      BY FS_EmptySet
    <3> QED BY <3>1, <3>2
  <2>2. 0 <= MaxRows /\ 0 <= MaxColumns /\ 0 * 0 <= MaxCells
    BY TreeAssumption
  <2> QED BY <2>1, <2>2 DEF BudgetKept, WithinBudget
<1> QED BY <1>7, <1>9, <1>10, <1>11, <1>13, <1>14, <1>15 DEF TreeInv, ShapeSound

-----------------------------------------------------------------------------
(* What a call must keep. *)

(* What was removed from a tree is as it was. *)
Remains ==
    /\ \A r \in Rows : row[r].life = "deleted" => row'[r] = row[r] /\ rows'[r] = rows[r]
    /\ \A c \in Columns : column[c].life \in {"deleted", "reset"} => column'[c] = column[c]

(* Fewer rows and columns are within the budget too. *)
LEMMA FewerWithinBudget ==
    ASSUME NEW b \in Nat, NEW d \in Nat, WithinBudget(b, d),
           NEW a \in Nat, NEW c \in Nat, a <= b, c <= d
    PROVE  WithinBudget(a, c)
<1>1. a * c <= b * d
  <2>1. PICK e \in Nat : b = a + e
    <3>1. b - a \in Nat /\ b = a + (b - a)
      OBVIOUS
    <3> QED BY <3>1
  <2>2. PICK f \in Nat : d = c + f
    <3>1. d - c \in Nat /\ d = c + (d - c)
      OBVIOUS
    <3> QED BY <3>1
  <2>3. (a + e) * (c + f) = a * c + (a * f + e * (c + f))
    OBVIOUS
  <2>4. a * c \in Nat /\ a * f \in Nat /\ e * (c + f) \in Nat
    OBVIOUS
  <2> QED BY <2>1, <2>2, <2>3, <2>4
<1>2. b <= MaxRows /\ d <= MaxColumns /\ b * d <= MaxCells
  BY DEF WithinBudget
<1>3. a * c \in Nat /\ b * d \in Nat
  OBVIOUS
<1>4. a * c <= MaxCells
  BY <1>1, <1>2, <1>3, TreeAssumption
<1> QED BY <1>2, <1>4, TreeAssumption DEF WithinBudget

(* What is counted is finite. *)
LEMMA Counted ==
    ASSUME TreeTyped, NEW t \in Trees
    PROVE  /\ tree[t].columns \in Seq(Columns) /\ Len(tree[t].columns) \in Nat
           /\ IsFiniteSet(tree[t].registry) /\ Cardinality(tree[t].registry) \in Nat
<1>1. tree[t].columns \in Seq(Columns) /\ tree[t].registry \subseteq Rows
  BY DEF TreeTyped
<1> QED BY <1>1, TreeAssumption, FS_Subset, FS_CardinalityType

(* The shape of a tree stays when its rows keep their places and the          *)
(* collections their members.                                               *)
LEMMA ShapeKept ==
    ASSUME TreeTyped, TreeTyped', ShapeSound,
           \A t \in Trees : /\ tree'[t].registry = tree[t].registry
                            /\ tree'[t].made = tree[t].made
                            /\ ~ tree[t].made => tree'[t].columns = tree[t].columns,
           \A r \in Rows : /\ row'[r].life = row[r].life /\ row'[r].tree = row[r].tree
                           /\ row'[r].collection = row[r].collection
                           /\ row'[r].depth = row[r].depth,
           \A k \in Collections : /\ rows'[k].forward = rows[k].forward
                                  /\ ToSet(rows'[k].items) = Kids(k)
                                  /\ IsInjective(rows[k].items) => IsInjective(rows'[k].items)
    PROVE  ShapeSound'
<1>1. \A t \in Trees : Whole(t)' = Whole(t) /\ Whole(t) \subseteq Collections
                       /\ tree[t].registry \subseteq Rows
  BY WholeFacts DEF Whole
<1>2. \A k \in Collections : Kids(k)' = Kids(k)
  BY DEF Kids
<1>3. RowsPlaced'
  <2>1. ASSUME NEW t \in Trees, NEW r \in tree[t].registry PROVE Placed(t, r)'
    <3>1. Placed(t, r) /\ r \in Rows
      BY <1>1 DEF ShapeSound, RowsPlaced
    <3>2. row'[r].collection = row[r].collection /\ row[r].collection \in Collections
      BY <1>1, <3>1 DEF Placed
    <3>3. DepthIn(row[r].collection)' = DepthIn(row[r].collection)
      BY <3>2 DEF DepthIn, Collections
    <3> QED BY <1>1, <1>2, <3>1, <3>2, <3>3 DEF Placed
  <2>2. ASSUME NEW r \in Rows, row'[r].life = "live"
        PROVE  row'[r].tree \in Trees /\ r \in tree'[row'[r].tree].registry
    BY <2>2 DEF ShapeSound, RowsPlaced
  <2> QED BY <2>1, <2>2 DEF RowsPlaced
<1>4. CollectionsSound'
  <2>1. ASSUME NEW t \in Trees, NEW k \in Whole(t) PROVE Holds(t, k)'
    <3>1. Holds(t, k) /\ k \in Collections
      BY <1>1, <2>1 DEF ShapeSound, CollectionsSound
    <3>2. Kids(k) \subseteq Rows
      BY <1>1, <3>1 DEF Holds
    <3> QED BY <1>2, <3>1, <3>2 DEF Holds
  <2> QED BY <1>1, <2>1 DEF CollectionsSound
<1>5. NothingElse'
  <2>1. ASSUME NEW r \in Rows, rows[r].items = <<>> PROVE rows'[r].items = <<>>
    <3>1. r \in Collections /\ rows'[r].items \in Seq(Rows)
      BY DEF TreeTyped, RowsType, Collections
    <3>2. Kids(r) = {}
      BY <2>1 DEF Kids, ToSet
    <3>3. ToSet(rows'[r].items) = {}
      BY <3>1, <3>2
    <3>4. DOMAIN rows'[r].items = {}
      BY <3>3 DEF ToSet
    <3> DEFINE q == rows'[r].items
    <3>5. q \in Seq(Rows) /\ DOMAIN q = {}
      BY <3>1, <3>4
    <3> HIDE DEF q
    <3>6. Len(q) = 0
      BY <3>5
    <3>7. q = <<>>
      BY <3>5, <3>6
    <3> QED BY <3>7 DEF q
  <2>2. ASSUME NEW r \in Rows, row'[r].life = "none" PROVE rows'[r] = EmptyCollection
    <3>1. rows[r] = EmptyCollection /\ r \in Collections
      BY <2>2 DEF ShapeSound, NothingElse, Collections
    <3>2. rows'[r].items = <<>> /\ rows'[r].forward = "no"
      BY <2>1, <3>1 DEF EmptyCollection
    <3>3. rows'[r] \in RowsType
      BY <3>1 DEF TreeTyped
    <3> QED BY <3>2, <3>3 DEF EmptyCollection, RowsType
  <2>3. ASSUME NEW r \in Rows, row'[r].life = "deleted"
        PROVE  rows'[r].items = <<>> /\ row'[r].tree \in Made'
    BY <2>1, <2>3 DEF ShapeSound, NothingElse, Made
  <2>4. ASSUME NEW t \in Trees, t \notin Made'
        PROVE  tree'[t].columns = <<>> /\ tree'[t].registry = {}
    BY <2>4 DEF ShapeSound, NothingElse, Made
  <2> QED BY <2>2, <2>3, <2>4 DEF NothingElse
<1> QED BY <1>3, <1>4, <1>5 DEF ShapeSound

(* Rows are rearranged: their collections hold the same ones. *)
LEMMA Rearranged ==
    ASSUME TreeInv, UNCHANGED <<tree, column, row>>,
           rows' \in [Collections -> RowsType],
           \A k \in Collections : /\ rows'[k].forward = rows[k].forward
                                  /\ ToSet(rows'[k].items) = Kids(k)
                                  /\ IsInjective(rows[k].items) => IsInjective(rows'[k].items)
    PROVE  TreeInv'
<1> USE DEF TreeInv
<1>1. TreeTyped'
  BY DEF TreeTyped
<1>2. ShapeSound'
  BY <1>1, ShapeKept
<1>3. ColumnsSound' /\ CellsSound' /\ BudgetKept'
  BY DEF ColumnsSound, CellsSound, BudgetKept, ColumnSet
<1> QED BY <1>1, <1>2, <1>3

(* The columns of one tree change, and its rows' cells with them. *)
LEMMA ColumnsChange ==
    ASSUME TreeInv, NEW t \in Made, NEW columns \in Seq(Columns), IsInjective(columns),
           WithinBudget(Cardinality(tree[t].registry), Len(columns)),
           tree' = [tree EXCEPT ![t].columns = columns],
           column' \in [Columns -> ColumnType],
           \A c \in ToSet(columns) : column'[c] = [table |-> t, life |-> "active"],
           \A u \in Trees \ {t} : \A c \in ColumnSet(u) : column'[c] = column[c],
           \A c \in Columns \ ToSet(columns) :
              \/ column'[c].life # "active"
              \/ column'[c] = column[c] /\ c \notin ColumnSet(t),
           row' \in [Rows -> RowType],
           \A r \in tree[t].registry :
              /\ row'[r].life = row[r].life /\ row'[r].tree = row[r].tree
              /\ row'[r].collection = row[r].collection /\ row'[r].depth = row[r].depth
              /\ row'[r].cells = ToSet(columns),
           \A r \in Rows \ tree[t].registry : row'[r] = row[r],
           UNCHANGED rows
    PROVE  TreeInv'
<1> USE DEF TreeInv
<1>0. t \in Trees /\ tree[t].made
  BY DEF Made
<1>1. /\ \A u \in Trees : tree'[u].registry = tree[u].registry /\ tree'[u].made = tree[u].made
      /\ tree'[t].columns = columns
      /\ \A u \in Trees \ {t} : tree'[u].columns = tree[u].columns
  BY <1>0 DEF TreeTyped
<1>2. TreeTyped'
  BY <1>0 DEF TreeTyped
<1>3. ShapeSound'
  <2>1. \A r \in Rows : /\ row'[r].life = row[r].life /\ row'[r].tree = row[r].tree
                        /\ row'[r].collection = row[r].collection
                        /\ row'[r].depth = row[r].depth
    OBVIOUS
  <2>2. \A u \in Trees : ~ tree[u].made => tree'[u].columns = tree[u].columns
    BY <1>0, <1>1
  <2>3. \A k \in Collections : rows'[k].forward = rows[k].forward
                               /\ ToSet(rows'[k].items) = Kids(k)
                               /\ (IsInjective(rows[k].items) => IsInjective(rows'[k].items))
    BY DEF Kids
  <2> QED BY <1>1, <1>2, <2>1, <2>2, <2>3, ShapeKept
<1>4. ColumnSet(t)' = ToSet(columns) /\ \A u \in Trees \ {t} : ColumnSet(u)' = ColumnSet(u)
  BY <1>1 DEF ColumnSet
<1>5. ColumnsSound'
  <2>1. \A u \in Trees : IsInjective(tree'[u].columns)
    BY <1>1 DEF ColumnsSound
  <2>2. ASSUME NEW u \in Trees, NEW c \in ColumnSet(u)'
        PROVE  column'[c] = [table |-> u, life |-> "active"]
    BY <1>4, <2>2 DEF ColumnsSound
  <2>3. ASSUME NEW c \in Columns, column'[c].life = "active"
        PROVE  \E u \in Trees : column'[c].table = u /\ c \in ToSet(tree'[u].columns)
    <3>1. CASE c \in ToSet(columns)
      BY <1>0, <1>1, <3>1
    <3>2. CASE c \notin ToSet(columns)
      <4>1. column'[c] = column[c] /\ c \notin ColumnSet(t)
        BY <2>3, <3>2
      <4>2. column[c].table \in Trees /\ c \in ColumnSet(column[c].table)
        BY <2>3, <4>1 DEF ColumnsSound
      <4>3. tree'[column[c].table].columns = tree[column[c].table].columns
        BY <1>1, <4>1, <4>2
      <4> QED BY <4>1, <4>2, <4>3 DEF ColumnSet
    <3> QED BY <3>1, <3>2
  <2>4. \A c \in Columns : column'[c].life = "active" =>
           column'[c].table \in Trees /\ c \in ToSet(tree'[column'[c].table].columns)
    BY <2>3
  <2> QED BY <2>1, <2>2, <2>4 DEF ColumnsSound, ColumnSet
<1>6. CellsSound'
  <2>1. ASSUME NEW u \in Trees, NEW r \in tree[u].registry
        PROVE  row'[r].cells = ColumnSet(u)'
    <3>1. CASE u = t
      BY <1>4, <2>1, <3>1
    <3>2. CASE u # t
      <4>1. r \in Rows \ tree[t].registry
        BY <1>0, <2>1, <3>2, OneTree, WholeFacts DEF Whole
      <4> QED BY <1>4, <2>1, <3>2, <4>1 DEF CellsSound
    <3> QED BY <3>1, <3>2
  <2>2. ASSUME NEW r \in Rows, row'[r].life = "deleted" PROVE row'[r].cells = {}
    <3>1. r \notin tree[t].registry
      BY <1>0, <2>2 DEF ShapeSound, RowsPlaced, Placed
    <3> QED BY <2>2, <3>1 DEF CellsSound
  <2> QED BY <1>1, <2>1, <2>2 DEF CellsSound
<1>7. BudgetKept'
  BY <1>1 DEF BudgetKept
<1> QED BY <1>2, <1>3, <1>5, <1>6, <1>7

-----------------------------------------------------------------------------
(* Columns. *)

(* The columns of a tree are active and in no other tree. *)
LEMMA ColumnFacts ==
    ASSUME TreeInv, NEW t \in Trees
    PROVE  /\ tree[t].columns \in Seq(Columns) /\ IsInjective(tree[t].columns)
           /\ ColumnSet(t) \subseteq Columns
           /\ \A c \in ColumnSet(t) : column[c].life = "active" /\ column[c].table = t
           /\ \A u \in Trees \ {t} : ColumnSet(u) \cap ColumnSet(t) = {}
           /\ \A r \in tree[t].registry : /\ row[r].cells = ColumnSet(t)
                                          /\ row[r].life = "live" /\ r \in Rows
           /\ WithinBudget(Cardinality(tree[t].registry), Len(tree[t].columns))
<1> USE DEF TreeInv
<1>1. tree[t].columns \in Seq(Columns) /\ tree[t].registry \subseteq Rows
  BY DEF TreeTyped
<1>2. ColumnSet(t) \subseteq Columns
  BY <1>1 DEF ColumnSet, ToSet
<1>3. IsInjective(tree[t].columns)
  BY DEF ColumnsSound
<1>5. \A u \in Trees : \A c \in ColumnSet(u) : column[c].life = "active" /\ column[c].table = u
  <2>1. ASSUME NEW u \in Trees, NEW c \in ColumnSet(u)
        PROVE  column[c].life = "active" /\ column[c].table = u
    <3>1. column[c] = [table |-> u, life |-> "active"]
      BY DEF ColumnsSound
    <3> QED BY <3>1
  <2> QED BY <2>1
<1>4. \A r \in tree[t].registry : row[r].cells = ColumnSet(t) /\ row[r].life = "live"
  BY DEF CellsSound, ShapeSound, RowsPlaced, Placed
<1> QED BY <1>1, <1>2, <1>3, <1>4, <1>5 DEF BudgetKept

(* Insert and Add of a column. *)
LEMMA InsertColumnInv ==
    ASSUME TreeInv, NEW t \in Trees, InsertColumn(t)
    PROVE  TreeInv' /\ Remains
<1> DEFINE c == NewColumn
<1>1. t \in Made /\ c \in Columns /\ column[c].life = "none"
      /\ WithinBudget(Cardinality(tree[t].registry), Len(tree[t].columns) + 1)
  BY DEF InsertColumn, NewColumn, UnusedColumns
<1>2. PICK i \in 1 .. Len(tree[t].columns) + 1 :
         tree' = [tree EXCEPT ![t].columns = InsertAt(tree[t].columns, i, c)]
  BY DEF InsertColumn
<1>3. /\ column' = [column EXCEPT ![c] = [table |-> t, life |-> "active"]]
      /\ row' = [r \in Rows |->
                   IF r \in tree[t].registry THEN [row[r] EXCEPT !.cells = @ \cup {c}] ELSE row[r]]
      /\ rows' = rows
  BY DEF InsertColumn
<1> HIDE DEF c
<1> DEFINE columns == InsertAt(tree[t].columns, i, c)
<1>4. c \notin ColumnSet(t) /\ \A u \in Trees : c \notin ColumnSet(u)
  BY <1>1, ColumnFacts
<1>5. /\ columns \in Seq(Columns) /\ ToSet(columns) = ColumnSet(t) \cup {c}
      /\ Len(columns) = Len(tree[t].columns) + 1 /\ IsInjective(columns)
  BY <1>1, <1>4, ColumnFacts, InsertAtFacts DEF ColumnSet
<1> HIDE DEF columns
<1>6. column \in [Columns -> ColumnType] /\ row \in [Rows -> RowType]
  BY DEF TreeInv, TreeTyped
<1>7. /\ column' \in [Columns -> ColumnType]
      /\ column'[c] = [table |-> t, life |-> "active"]
      /\ \A d \in Columns \ {c} : column'[d] = column[d]
  BY <1>1, <1>3, <1>6 DEF ColumnType
<1>8. row' \in [Rows -> RowType]
  <2>1. ASSUME NEW x \in RowType PROVE [x EXCEPT !.cells = @ \cup {c}] \in RowType
    BY <1>1, <2>1 DEF RowType
  <2>2. ASSUME NEW r \in Rows PROVE row'[r] \in RowType
    BY <1>3, <1>6, <2>1
  <2> QED BY <1>3, <2>2
<1>9. \A r \in tree[t].registry :
              /\ row'[r].life = row[r].life /\ row'[r].tree = row[r].tree
              /\ row'[r].collection = row[r].collection /\ row'[r].depth = row[r].depth
              /\ row'[r].cells = ToSet(columns)
  <2>1. ASSUME NEW r \in tree[t].registry
        PROVE  /\ r \in Rows /\ row[r] \in RowType /\ row'[r] = [row[r] EXCEPT !.cells = @ \cup {c}]
               /\ row[r].cells = ColumnSet(t)
    BY <1>3, <1>6, ColumnFacts
  <2>2. \A x \in RowType : LET y == [x EXCEPT !.cells = @ \cup {c}] IN
           /\ y.life = x.life /\ y.tree = x.tree /\ y.collection = x.collection
           /\ y.depth = x.depth /\ y.cells = x.cells \cup {c}
    BY DEF RowType
  <2> QED BY <2>1, <2>2, <1>5
<1>10. \A r \in Rows \ tree[t].registry : row'[r] = row[r]
  BY <1>3
<1>11. \A d \in ToSet(columns) : column'[d] = [table |-> t, life |-> "active"]
  BY <1>5, <1>7, ColumnFacts DEF TreeInv, ColumnsSound
<1>12. \A u \in Trees \ {t} : \A d \in ColumnSet(u) : column'[d] = column[d]
  BY <1>4, <1>7, ColumnFacts
<1>13. \A d \in Columns \ ToSet(columns) :
              \/ column'[d].life # "active"
              \/ column'[d] = column[d] /\ d \notin ColumnSet(t)
  BY <1>5, <1>7
<1>16. WithinBudget(Cardinality(tree[t].registry), Len(columns))
  BY <1>1, <1>5
<1>14. TreeInv'
  BY <1>16, <1>1, <1>2, <1>3, <1>5, <1>7, <1>8, <1>9, <1>10, <1>11, <1>12, <1>13, ColumnsChange
     DEF columns, ColumnType, RowType
<1>15. Remains
  BY <1>1, <1>3, <1>7, <1>10, ColumnFacts DEF Remains
<1> QED BY <1>14, <1>15

(* One column leaves. *)
LEMMA DropColumnInv ==
    ASSUME TreeInv, NEW t \in Made, NEW c \in ColumnSet(t), NEW life \in {"deleted", "reset"},
           DropColumn(t, c, life)
    PROVE  TreeInv' /\ Remains
<1>0. t \in Trees
  BY DEF Made
<1> DEFINE columns == Without(tree[t].columns, {c})
<1>1. tree' = [tree EXCEPT ![t].columns = columns]
  BY DEF DropColumn
<1>2. /\ column' = [column EXCEPT ![c].life = life]
      /\ row' = [r \in Rows |->
                   IF r \in tree[t].registry THEN [row[r] EXCEPT !.cells = @ \ {c}] ELSE row[r]]
      /\ rows' = rows
  BY DEF DropColumn
<1>3. /\ columns \in Seq(Columns) /\ ToSet(columns) = ColumnSet(t) \ {c}
      /\ Len(columns) <= Len(tree[t].columns) /\ IsInjective(columns)
  BY <1>0, ColumnFacts, WithoutFacts DEF ColumnSet
<1> HIDE DEF columns
<1>4. column \in [Columns -> ColumnType] /\ row \in [Rows -> RowType] /\ c \in Columns
  BY <1>0, ColumnFacts DEF TreeInv, TreeTyped
<1>5. /\ column' \in [Columns -> ColumnType]
      /\ column'[c].life = life
      /\ \A d \in Columns \ {c} : column'[d] = column[d]
  BY <1>2, <1>4 DEF ColumnType
<1>6. row' \in [Rows -> RowType]
  BY <1>2, <1>4 DEF RowType
<1>7. \A r \in tree[t].registry :
              /\ row'[r].life = row[r].life /\ row'[r].tree = row[r].tree
              /\ row'[r].collection = row[r].collection /\ row'[r].depth = row[r].depth
              /\ row'[r].cells = ToSet(columns)
  <2>1. ASSUME NEW r \in tree[t].registry
        PROVE  /\ r \in Rows /\ row[r] \in RowType /\ row'[r] = [row[r] EXCEPT !.cells = @ \ {c}]
               /\ row[r].cells = ColumnSet(t)
    BY <1>0, <1>2, <1>4, ColumnFacts
  <2>2. \A x \in RowType : LET y == [x EXCEPT !.cells = @ \ {c}] IN
           /\ y.life = x.life /\ y.tree = x.tree /\ y.collection = x.collection
           /\ y.depth = x.depth /\ y.cells = x.cells \ {c}
    BY DEF RowType
  <2> QED BY <2>1, <2>2, <1>3
<1>8. \A r \in Rows \ tree[t].registry : row'[r] = row[r]
  BY <1>2
<1>9. \A d \in ToSet(columns) : column'[d] = [table |-> t, life |-> "active"]
  BY <1>0, <1>3, <1>5, ColumnFacts DEF TreeInv, ColumnsSound
<1>10. \A u \in Trees \ {t} : \A d \in ColumnSet(u) : column'[d] = column[d]
  BY <1>0, <1>5, ColumnFacts
<1>11. \A d \in Columns \ ToSet(columns) :
              \/ column'[d].life # "active"
              \/ column'[d] = column[d] /\ d \notin ColumnSet(t)
  BY <1>3, <1>5
<1>12. WithinBudget(Cardinality(tree[t].registry), Len(columns))
  <2>1. /\ Cardinality(tree[t].registry) \in Nat /\ Len(tree[t].columns) \in Nat
        /\ Len(columns) \in Nat /\ Cardinality(tree[t].registry) <= Cardinality(tree[t].registry)
    BY <1>0, <1>3, Counted DEF TreeInv
  <2> QED BY <1>0, <1>3, <2>1, ColumnFacts, FewerWithinBudget
<1>13. TreeInv'
  BY <1>1, <1>2, <1>3, <1>5, <1>6, <1>7, <1>8, <1>9, <1>10, <1>11, <1>12, ColumnsChange
     DEF ColumnType, RowType
<1>14. Remains
  <2>1. column[c].life = "active" /\ \A r \in tree[t].registry : row[r].life = "live"
    BY <1>0, ColumnFacts
  <2> QED BY <1>2, <1>5, <1>8, <2>1 DEF Remains
<1> QED BY <1>13, <1>14

(* Delete of a column, Windows. *)
LEMMA DeleteColumnInv ==
    ASSUME TreeInv, NEW t \in Trees, NEW c \in Columns, DeleteColumn(t, c)
    PROVE  TreeInv' /\ Remains
<1>1. t \in Made /\ column[c] = [table |-> t, life |-> "active"] /\ DropColumn(t, c, "deleted")
  BY DEF DeleteColumn
<1>2. c \in ColumnSet(t)
  BY <1>1 DEF TreeInv, ColumnsSound
<1> QED BY <1>1, <1>2, DropColumnInv

(* Move of a column. *)
LEMMA MoveColumnInv ==
    ASSUME TreeInv, NEW t \in Trees, MoveColumn(t)
    PROVE  TreeInv' /\ Remains
<1>1. t \in Made /\ UNCHANGED <<column, row, rows>>
  BY DEF MoveColumn
<1>2. PICK i \in DOMAIN tree[t].columns, j \in DOMAIN tree[t].columns :
         tree' = [tree EXCEPT ![t].columns =
                     InsertAt(RemoveAt(tree[t].columns, i), j, tree[t].columns[i])]
  BY DEF MoveColumn
<1> DEFINE columns == InsertAt(RemoveAt(tree[t].columns, i), j, tree[t].columns[i])
<1>3. i \in 1 .. Len(tree[t].columns) /\ j \in 1 .. Len(tree[t].columns)
  BY <1>2, ColumnFacts
<1>4. /\ columns \in Seq(Columns) /\ ToSet(columns) = ColumnSet(t)
      /\ Len(columns) = Len(tree[t].columns) /\ IsInjective(columns)
  BY <1>3, ColumnFacts, MovedFacts DEF ColumnSet
<1> HIDE DEF columns
<1>5. column \in [Columns -> ColumnType] /\ row \in [Rows -> RowType]
  BY DEF TreeInv, TreeTyped
<1>6. \A d \in ToSet(columns) : column'[d] = [table |-> t, life |-> "active"]
  BY <1>1, <1>4 DEF TreeInv, ColumnsSound
<1>7. \A d \in Columns \ ToSet(columns) :
              \/ column'[d].life # "active"
              \/ column'[d] = column[d] /\ d \notin ColumnSet(t)
  BY <1>1, <1>4
<1>8. \A r \in tree[t].registry : row'[r].cells = ToSet(columns)
  BY <1>1, <1>4, ColumnFacts
<1>9. WithinBudget(Cardinality(tree[t].registry), Len(columns))
  BY <1>4, ColumnFacts
<1>10. TreeInv'
  BY <1>1, <1>2, <1>4, <1>5, <1>6, <1>7, <1>8, <1>9, ColumnsChange DEF columns, ColumnType, RowType
<1> QED BY <1>1, <1>10 DEF Remains

(* Clear of the columns on Windows: there are no rows, or no columns. *)
LEMMA ClearWindowsInv ==
    ASSUME TreeInv, NEW t \in Made,
           tree[t].registry = {} \/ tree[t].columns = <<>>,
           tree' = [tree EXCEPT ![t].columns = <<>>],
           column' = [c \in Columns |->
                        IF c \in ColumnSet(t) THEN [column[c] EXCEPT !.life = "deleted"]
                        ELSE column[c]],
           UNCHANGED <<row, rows>>
    PROVE  TreeInv' /\ Remains
<1>0. t \in Trees
  BY DEF Made
<1> DEFINE columns == <<>>
<1>1. /\ columns \in Seq(Columns) /\ ToSet(columns) = {}
      /\ Len(columns) = 0 /\ IsInjective(columns)
  BY DEF ToSet, IsInjective
<1>2. tree' = [tree EXCEPT ![t].columns = columns]
  OBVIOUS
<1> HIDE DEF columns
<1>3. column \in [Columns -> ColumnType] /\ row \in [Rows -> RowType]
  BY DEF TreeInv, TreeTyped
<1>4. /\ column' \in [Columns -> ColumnType]
      /\ \A d \in ColumnSet(t) : column'[d].life = "deleted"
      /\ \A d \in Columns \ ColumnSet(t) : column'[d] = column[d]
  <2>1. ColumnSet(t) \subseteq Columns
    BY <1>0, ColumnFacts
  <2>2. \A d \in Columns : [column[d] EXCEPT !.life = "deleted"] \in ColumnType
                           /\ [column[d] EXCEPT !.life = "deleted"].life = "deleted"
    BY <1>3 DEF ColumnType
  <2> QED BY <1>3, <2>1, <2>2
<1>5. \A u \in Trees \ {t} : \A d \in ColumnSet(u) : column'[d] = column[d]
  BY <1>0, <1>4, ColumnFacts
<1>6. \A d \in Columns \ ToSet(columns) :
              \/ column'[d].life # "active"
              \/ column'[d] = column[d] /\ d \notin ColumnSet(t)
  BY <1>4
<1>7. \A r \in tree[t].registry : row'[r].cells = ToSet(columns)
  <2>1. tree[t].columns = <<>> => ColumnSet(t) = {}
    BY DEF ColumnSet, ToSet
  <2> QED BY <1>0, <1>1, <2>1, ColumnFacts
<1>8. WithinBudget(Cardinality(tree[t].registry), Len(columns))
  <2>1. /\ Cardinality(tree[t].registry) \in Nat /\ Len(tree[t].columns) \in Nat
        /\ Len(columns) \in Nat /\ Cardinality(tree[t].registry) <= Cardinality(tree[t].registry)
        /\ Len(columns) <= Len(tree[t].columns)
    BY <1>0, <1>1, Counted DEF TreeInv
  <2> QED BY <1>0, <2>1, ColumnFacts, FewerWithinBudget
<1>9. \A d \in ToSet(columns) : column'[d] = [table |-> t, life |-> "active"]
  BY <1>1
<1>10. TreeInv'
  <2>1. row' \in [Rows -> RowType] /\ rows' = rows
        /\ \A r \in Rows \ tree[t].registry : row'[r] = row[r]
    BY <1>3
  <2>2. \A r \in tree[t].registry :
           /\ row'[r].life = row[r].life /\ row'[r].tree = row[r].tree
           /\ row'[r].collection = row[r].collection /\ row'[r].depth = row[r].depth
           /\ row'[r].cells = ToSet(columns)
    BY <1>7
  <2> QED BY <1>1, <1>2, <1>4, <1>5, <1>6, <1>8, <1>9, <2>1, <2>2, ColumnsChange
<1>11. Remains
  BY <1>0, <1>4, ColumnFacts DEF Remains
<1> QED BY <1>10, <1>11

-----------------------------------------------------------------------------
(* Rows that move. *)

(* A collection the program may call is a part of one tree. *)
LEMMA LiveHeld ==
    ASSUME TreeInv, NEW k \in Held, Live(k)
    PROVE  TreeOf(k) \in Made /\ k \in Whole(TreeOf(k)) /\ k \in Collections
<1> USE DEF TreeInv
<1>1. CASE k \in Trees
  BY <1>1, TreeAssumption DEF Held, Made, TreeOf, Whole, Collections
<1>2. CASE k \notin Trees
  <2>1. k \in Rows /\ row[k].life = "live"
    BY <1>2 DEF Held, Made, Live
  <2>2. row[k].tree \in Trees /\ k \in tree[row[k].tree].registry
    BY <2>1 DEF ShapeSound, RowsPlaced
  <2>3. row[k].tree \in Made
    BY <2>2 DEF ShapeSound, NothingElse
  <2> QED BY <1>2, <2>1, <2>2, <2>3 DEF TreeOf, Whole, Collections
<1> QED BY <1>1, <1>2

(* A collection of a tree is its own and sound. *)
LEMMA PartFacts ==
    ASSUME TreeInv, NEW t \in Trees, NEW k \in Whole(t)
    PROVE  /\ k \in Collections /\ TreeOf(k) = t
           /\ rows[k] \in RowsType /\ rows[k].items \in Seq(Rows) /\ rows[k].forward = "no"
           /\ IsInjective(rows[k].items) /\ Kids(k) \subseteq tree[t].registry
           /\ k \in Rows => row[k].life = "live"
<1> USE DEF TreeInv
<1>1. k \in Collections /\ Holds(t, k)
  BY WholeFacts DEF ShapeSound, CollectionsSound
<1>2. rows[k] \in RowsType /\ rows[k].items \in Seq(Rows)
  BY <1>1 DEF TreeTyped, RowsType
<1>3. k # t => k \in Rows /\ k \notin Trees /\ row[k].tree = t /\ row[k].life = "live"
  BY TreeAssumption, WholeFacts DEF Whole, ShapeSound, RowsPlaced, Placed
<1> QED BY <1>1, <1>2, <1>3, TreeAssumption DEF Holds, TreeOf

(* Move of a row. *)
LEMMA MoveRowInv ==
    ASSUME TreeInv, NEW k \in Collections, MoveRow(k)
    PROVE  TreeInv' /\ Remains
<1>1. k \in Held /\ Live(k) /\ UNCHANGED <<tree, column, row>>
  BY DEF MoveRow
<1>2. PICK i \in DOMAIN rows[k].items, j \in DOMAIN rows[k].items :
         i # j /\ rows' = [rows EXCEPT ![k].items =
                             InsertAt(RemoveAt(rows[k].items, i), j, rows[k].items[i])]
  BY DEF MoveRow
<1> DEFINE s == rows[k].items
           moved == InsertAt(RemoveAt(s, i), j, s[i])
<1>3. /\ s \in Seq(Rows) /\ IsInjective(s) /\ rows[k] \in RowsType
  BY <1>1, LiveHeld, PartFacts DEF Made
<1>4. i \in 1 .. Len(s) /\ j \in 1 .. Len(s)
  BY <1>2, <1>3
<1>5. moved \in Seq(Rows) /\ ToSet(moved) = Kids(k) /\ IsInjective(moved)
  <2> HIDE DEF s
  <2>1. moved \in Seq(Rows) /\ ToSet(moved) = ToSet(s) /\ IsInjective(moved)
    BY <1>3, <1>4, MovedFacts
  <2> QED BY <2>1 DEF s, Kids
<1>6. rows' = [rows EXCEPT ![k].items = moved]
  BY <1>2
<1> HIDE DEF moved
<1>7. rows \in [Collections -> RowsType]
  BY DEF TreeInv, TreeTyped, RowsType
<1>8. rows' \in [Collections -> RowsType]
  BY <1>5, <1>6, <1>7 DEF RowsType
<1>9. ASSUME NEW c \in Collections
      PROVE  /\ rows'[c].forward = rows[c].forward
             /\ ToSet(rows'[c].items) = Kids(c)
             /\ IsInjective(rows[c].items) => IsInjective(rows'[c].items)
  <2>1. CASE c = k
    <3>1. rows'[c].items = moved /\ rows'[c].forward = rows[c].forward
      BY <1>6, <1>7, <2>1 DEF RowsType
    <3> QED BY <1>5, <2>1, <3>1
  <2>2. CASE c # k
    BY <1>6, <1>7, <2>2 DEF Kids
  <2> QED BY <2>1, <2>2
<1>10. TreeInv'
  BY <1>1, <1>8, <1>9, Rearranged
<1>11. Remains
  <2>1. ASSUME NEW r \in Rows, row[r].life = "deleted" PROVE r # k
    BY <1>1, <2>1 DEF Live
  <2> QED BY <1>1, <1>6, <1>7, <2>1 DEF Remains, Collections
<1> QED BY <1>10, <1>11

(* An injection of 1 .. n into a set of n members reaches all of them. *)
LEMMA InjectionIsOnto ==
    ASSUME NEW S, IsFiniteSet(S), NEW f \in [1 .. Cardinality(S) -> S],
           \A i, j \in 1 .. Cardinality(S) : i # j => f[i] # f[j]
    PROVE  ToSet(f) = S
<1> DEFINE n == Cardinality(S)
<1>1. n \in Nat
  BY FS_CardinalityType
<1>2. ToSet(f) \subseteq S
  BY DEF ToSet
<1>3. SUFFICES ASSUME NEW x \in S, x \notin ToSet(f) PROVE FALSE
  BY <1>2
<1>4. IsFiniteSet(S \ {x}) /\ Cardinality(S \ {x}) = n - 1
  BY FS_RemoveElement
<1>5. IsFiniteSet(1 .. n) /\ Cardinality(1 .. n) = n
  BY <1>1, FS_Interval
<1>6. f \in [1 .. n -> S \ {x}]
  BY <1>3 DEF ToSet
<1> HIDE DEF n
<1>7. Cardinality(S \ {x}) < Cardinality(1 .. n)
  BY <1>1, <1>4, <1>5
<1>8. \E i, j \in 1 .. n : i # j /\ f[i] = f[j]
  BY <1>4, <1>5, <1>6, <1>7, FS_PigeonHole
<1> QED BY <1>8 DEF n

(* Sort, of a collection or of all below it. *)
LEMMA SortRowsInv ==
    ASSUME TreeInv, NEW k \in Collections, NEW recursive \in BOOLEAN, SortRows(k, recursive)
    PROVE  TreeInv' /\ Remains
<1> DEFINE sorted == IF recursive THEN Below(k) ELSE {k}
           moved == UNION {Kids(c) : c \in sorted}
           t == TreeOf(k)
<1>1. k \in Held /\ Live(k) /\ UNCHANGED <<tree, column, row>>
  BY DEF SortRows
<1>2. PICK order \in SetToSeqs(moved) :
         rows' = [c \in Collections |->
                    IF c \in sorted
                    THEN [rows[c] EXCEPT !.items = Without(order, moved \ Kids(c))]
                    ELSE rows[c]]
  BY DEF SortRows, Kids
<1>3. t \in Trees /\ k \in Whole(t)
  BY <1>1, LiveHeld DEF Made
<1>4. sorted \subseteq Whole(t)
  BY <1>3, SubtreeFacts DEF TreeInv
<1> HIDE DEF t
<1>5. Whole(t) \subseteq Collections
  BY <1>3, WholeFacts DEF TreeInv
<1> HIDE DEF sorted
<1>6. moved \subseteq Rows
  BY <1>4, <1>5, KidsAreRows DEF TreeInv
<1>7. \A c \in sorted : Kids(c) \subseteq moved
  OBVIOUS
<1> HIDE DEF moved
<1>8. IsFiniteSet(moved)
  BY <1>6, TreeAssumption, FS_Subset
<1>9. Cardinality(moved) \in Nat
  BY <1>8, FS_CardinalityType
<1>10. /\ order \in [1 .. Cardinality(moved) -> moved]
       /\ \A i, j \in 1 .. Cardinality(moved) : i # j => order[i] # order[j]
  BY DEF SetToSeqs
<1>11. order \in Seq(Rows) /\ ToSet(order) = moved /\ IsInjective(order)
  <2>1. order \in Seq(Rows)
    BY <1>6, <1>9, <1>10
  <2>2. ToSet(order) = moved
    BY <1>8, <1>10, InjectionIsOnto
  <2>3. IsInjective(order)
    BY <1>10 DEF IsInjective
  <2> QED BY <2>1, <2>2, <2>3
<1>12. ASSUME NEW c \in sorted
       PROVE  /\ Without(order, moved \ Kids(c)) \in Seq(Rows)
              /\ ToSet(Without(order, moved \ Kids(c))) = Kids(c)
              /\ IsInjective(Without(order, moved \ Kids(c)))
  <2>1. /\ Without(order, moved \ Kids(c)) \in Seq(Rows)
        /\ ToSet(Without(order, moved \ Kids(c))) = ToSet(order) \ (moved \ Kids(c))
        /\ IsInjective(Without(order, moved \ Kids(c)))
    BY <1>11, WithoutFacts
  <2> QED BY <1>7, <1>11, <2>1
<1>13. rows \in [Collections -> RowsType]
  BY DEF TreeInv, TreeTyped, RowsType
<1>14. ASSUME NEW c \in Collections
       PROVE  /\ rows'[c] \in RowsType
              /\ rows'[c].forward = rows[c].forward
              /\ ToSet(rows'[c].items) = Kids(c)
              /\ IsInjective(rows[c].items) => IsInjective(rows'[c].items)
  <2>1. CASE c \in sorted
    <3> DEFINE q == Without(order, moved \ Kids(c))
    <3>1. rows'[c] = [rows[c] EXCEPT !.items = q]
      BY <1>2, <2>1
    <3>2. q \in Seq(Rows) /\ ToSet(q) = Kids(c) /\ IsInjective(q)
      BY <1>12, <2>1
    <3> HIDE DEF q
    <3>3. rows'[c] \in RowsType /\ rows'[c].forward = rows[c].forward /\ rows'[c].items = q
      BY <1>13, <3>1, <3>2 DEF RowsType
    <3> QED BY <3>2, <3>3
  <2>2. CASE c \notin sorted
    BY <1>2, <1>13, <2>2 DEF Kids
  <2> QED BY <2>1, <2>2
<1>15. rows' \in [Collections -> RowsType]
  <2>1. rows' = [c \in Collections |-> rows'[c]]
    BY <1>2
  <2> QED BY <1>14, <2>1
<1>16. TreeInv'
  BY <1>1, <1>14, <1>15, Rearranged
<1>17. Remains
  <2>1. ASSUME NEW r \in Rows, row[r].life = "deleted" PROVE r \notin sorted /\ r \in Collections
    BY <1>3, <1>4, <2>1, PartFacts DEF Collections
  <2> QED BY <1>1, <1>2, <2>1 DEF Remains
<1> QED BY <1>16, <1>17

-----------------------------------------------------------------------------
(* Rows that are added. *)

(* The collection a call acts on is a live one. *)
LEMMA ReceiverFacts ==
    ASSUME TreeInv, NEW k \in Held, NEW operation, NEW linux, NEW c \in Receivers(k, operation, linux)
    PROVE  TreeOf(c) \in Made /\ c \in Whole(TreeOf(c)) /\ c \in Held /\ Live(c)
<1> USE DEF TreeInv
<1>1. CASE rows[k].forward = "no"
  BY <1>1, LiveHeld DEF Receivers
<1>2. CASE rows[k].forward # "no"
  <2>1. c = TreeOf(k)
    BY <1>2 DEF Receivers
  <2>2. k \notin Trees
    <3>1. \A t \in Trees : rows[t].forward = "no"
      BY DEF ShapeSound, CollectionsSound, Whole, Holds
    <3> QED BY <1>2, <3>1
  <2>3. k \in Rows /\ row[k].life # "none"
    BY <2>2 DEF Held, Made
  <2>4. row[k].life # "live"
    <3>1. ASSUME row[k].life = "live" PROVE FALSE
      <4>1. row[k].tree \in Trees /\ k \in Whole(row[k].tree)
        BY <2>3, <3>1 DEF ShapeSound, RowsPlaced, Whole
      <4> QED BY <1>2, <4>1 DEF ShapeSound, CollectionsSound, Holds
    <3> QED BY <3>1
  <2>5. row[k].life = "deleted"
    BY <2>3, <2>4 DEF TreeTyped, RowType
  <2>6. c \in Made
    BY <2>1, <2>2, <2>3, <2>5 DEF TreeOf, ShapeSound, NothingElse
  <2> QED BY <2>6, TreeAssumption DEF Made, TreeOf, Whole, Held, Live
<1> QED BY <1>1, <1>2

(* Add and Insert of a row. *)
LEMMA InsertRowInv ==
    ASSUME TreeInv, NEW k \in Collections, NEW operation, NEW linux, InsertRow(k, operation, linux)
    PROVE  TreeInv' /\ Remains
<1> USE DEF TreeInv
<1>0. k \in Held /\ UNCHANGED column /\ NewRow \in Rows /\ row[NewRow].life = "none"
  BY DEF InsertRow, NewRow, UnusedRows
<1>r. PICK r \in Rows : r = NewRow
  BY <1>0
<1>1. k \in Held /\ r \in Rows /\ row[r].life = "none" /\ UNCHANGED column
  BY <1>0, <1>r
<1>2. PICK c \in Receivers(k, operation, linux) :
       LET t == TreeOf(c)
           last == Len(rows[c].items) + 1
       IN
       /\ WithinBudget(Cardinality(tree[t].registry) + 1, Len(tree[t].columns))
       /\ DepthIn(c) <= MaxDepth
       /\ row' = [row EXCEPT ![r] = [life |-> "live", tree |-> t, collection |-> c,
                                     depth |-> DepthIn(c), cells |-> ColumnSet(t)]]
       /\ \E i \in IF operation = "add" THEN {last} ELSE 1..last :
            rows' = [rows EXCEPT ![c].items = InsertAt(@, i, r)]
       /\ tree' = [tree EXCEPT ![t].registry = @ \cup {r}]
  BY <1>r DEF InsertRow
<1>t. PICK t \in Made : t = TreeOf(c)
  BY <1>1, ReceiverFacts
<1> DEFINE new == [life |-> "live", tree |-> t, collection |-> c,
                   depth |-> DepthIn(c), cells |-> ColumnSet(t)]
<1>3. t \in Made /\ t \in Trees /\ c \in Whole(t)
  BY <1>1, <1>t, ReceiverFacts DEF Made
<1>4. /\ c \in Collections /\ rows[c] \in RowsType /\ rows[c].items \in Seq(Rows)
      /\ IsInjective(rows[c].items) /\ rows[c].forward = "no" /\ Kids(c) \subseteq tree[t].registry
      /\ c \in Rows => row[c].life = "live"
  BY <1>3, PartFacts
<1>5. c # r
  BY <1>1, <1>4
<1>6. PICK i \in 1 .. Len(rows[c].items) + 1 :
         rows' = [rows EXCEPT ![c].items = InsertAt(rows[c].items, i, r)]
  <2>1. Len(rows[c].items) + 1 \in 1 .. Len(rows[c].items) + 1
    BY <1>4
  <2> QED BY <1>2, <2>1
<1> DEFINE s == InsertAt(rows[c].items, i, r)
<1>7. /\ row' = [row EXCEPT ![r] = new]
      /\ tree' = [tree EXCEPT ![t].registry = @ \cup {r}]
      /\ rows' = [rows EXCEPT ![c].items = s]
      /\ WithinBudget(Cardinality(tree[t].registry) + 1, Len(tree[t].columns))
      /\ DepthIn(c) <= MaxDepth
  BY <1>2, <1>6, <1>t
<1>8. \A u \in Trees : r \notin tree[u].registry /\ tree[u].registry \subseteq Rows
  BY <1>1, ColumnFacts
<1>9. s \in Seq(Rows) /\ ToSet(s) = Kids(c) \cup {r} /\ IsInjective(s)
  <2>1. rows[c].items \in Seq(Rows) /\ r \notin ToSet(rows[c].items) /\ IsInjective(rows[c].items)
    BY <1>3, <1>4, <1>8 DEF Kids
  <2>2. /\ s \in Seq(Rows) /\ ToSet(s) = ToSet(rows[c].items) \cup {r}
        /\ IsInjective(rows[c].items) /\ r \notin ToSet(rows[c].items) => IsInjective(s)
    <3>1. PICK q \in Seq(Rows) : q = rows[c].items
      BY <1>4
    <3>2. i \in 1 .. Len(q) + 1 /\ s = InsertAt(q, i, r)
      BY <3>1
    <3> HIDE DEF s
    <3>3. /\ InsertAt(q, i, r) \in Seq(Rows)
          /\ ToSet(InsertAt(q, i, r)) = ToSet(q) \cup {r}
          /\ IsInjective(q) /\ r \notin ToSet(q) => IsInjective(InsertAt(q, i, r))
      BY <1>1, <3>2, InsertAtFacts
    <3> QED BY <3>1, <3>2, <3>3
  <2> HIDE DEF s
  <2> QED BY <2>1, <2>2 DEF Kids
<1>10. new \in RowType
  <2>1. DepthIn(c) \in Nat
    BY <1>4 DEF DepthIn, TreeTyped, RowType, Collections
  <2>2. ColumnSet(t) \subseteq Columns
    BY <1>3, ColumnFacts
  <2> QED BY <1>3, <1>4, <2>1, <2>2 DEF RowType
<1>11. /\ new.life = "live" /\ new.tree = t /\ new.collection = c /\ new.depth = DepthIn(c)
       /\ new.cells = ColumnSet(t)
  OBVIOUS
<1> HIDE DEF new, s
<1>12. /\ row \in [Rows -> RowType] /\ rows \in [Collections -> RowsType]
       /\ tree \in [Trees -> [made : BOOLEAN, columns : Seq(Columns), registry : SUBSET Rows]]
  BY DEF TreeTyped
<1>13. /\ \A u \in Trees : tree'[u].columns = tree[u].columns /\ tree'[u].made = tree[u].made
       /\ \A u \in Trees \ {t} : tree'[u] = tree[u]
       /\ tree'[t].registry = tree[t].registry \cup {r}
  BY <1>3, <1>7, <1>12
<1>14. row'[r] = new /\ \A q \in Rows \ {r} : row'[q] = row[q]
  BY <1>1, <1>7, <1>12
<1>15. /\ rows'[c].items = s /\ rows'[c].forward = "no"
       /\ \A d \in Collections \ {c} : rows'[d] = rows[d]
  BY <1>4, <1>7, <1>12 DEF RowsType
<1>16. TreeTyped'
  <2>1. row' \in [Rows -> RowType]
    BY <1>7, <1>10, <1>12
  <2>2. rows' \in [Collections -> RowsType]
    BY <1>4, <1>7, <1>9, <1>12 DEF RowsType
  <2>3. tree' \in [Trees -> [made : BOOLEAN, columns : Seq(Columns), registry : SUBSET Rows]]
    BY <1>1, <1>3, <1>7, <1>12
  <2> QED BY <1>1, <2>1, <2>2, <2>3 DEF TreeTyped
<1>17. ColumnsSound'
  BY <1>1, <1>13 DEF ColumnsSound, ColumnSet
<1>18. \A u \in Trees : ColumnSet(u)' = ColumnSet(u)
  BY <1>13 DEF ColumnSet
<1>19. CellsSound'
  <2>1. ASSUME NEW u \in Trees, NEW q \in tree'[u].registry PROVE row'[q].cells = ColumnSet(u)'
    <3>1. CASE q = r
      <4>1. u = t
        BY <1>8, <1>13, <2>1, <3>1
      <4> QED BY <1>11, <1>14, <1>18, <3>1, <4>1
    <3>2. CASE q # r
      <4>1. q \in tree[u].registry
        BY <1>13, <2>1, <3>2
      <4> QED BY <1>8, <1>14, <1>18, <3>2, <4>1 DEF CellsSound
    <3> QED BY <3>1, <3>2
  <2>2. ASSUME NEW q \in Rows, row'[q].life = "deleted" PROVE row'[q].cells = {}
    BY <1>11, <1>14, <2>2 DEF CellsSound
  <2> QED BY <2>1, <2>2 DEF CellsSound
<1>20. \A u \in Trees : Whole(u) \subseteq Whole(u)' /\ Whole(u) \subseteq Collections
  BY <1>13, WholeFacts DEF Whole
<1>21. Kids(c)' = Kids(c) \cup {r} /\ \A d \in Collections \ {c} : Kids(d)' = Kids(d)
  BY <1>9, <1>15 DEF Kids
<1>22. \A d \in Collections \ {r} : DepthIn(d)' = DepthIn(d)
  BY <1>14 DEF DepthIn, Collections
<1>23. RowsPlaced'
  <2>1. Placed(t, r)'
    <3>1. DepthIn(c)' = DepthIn(c)
      BY <1>4, <1>5, <1>22
    <3>2. row'[r].life = "live" /\ row'[r].tree = t /\ row'[r].collection = c
          /\ row'[r].depth = DepthIn(c)
      BY <1>11, <1>14
    <3>3. c \in Whole(t)' /\ r \in Kids(c)'
      BY <1>3, <1>20, <1>21
    <3> QED BY <1>7, <3>1, <3>2, <3>3 DEF Placed
  <2>2. ASSUME NEW u \in Trees, NEW q \in tree[u].registry PROVE Placed(u, q)'
    <3>1. Placed(u, q) /\ q # r /\ q \in Rows
      BY <1>8 DEF ShapeSound, RowsPlaced
    <3>2. row'[q] = row[q]
      BY <1>14, <3>1
    <3>d. PICK d \in Whole(u) : d = row[q].collection
      BY <3>1 DEF Placed
    <3>3. d \in Whole(u) /\ d \in Collections /\ q \in Kids(d)
      BY <1>20, <3>1, <3>d DEF Placed
    <3>4. d # r
      <4>1. d = r => r \in tree[u].registry
        BY <1>1, <3>3, TreeAssumption DEF Whole
      <4> QED BY <1>8, <4>1
    <3>5. d \in Whole(u)' /\ q \in Kids(d)' /\ DepthIn(d)' = DepthIn(d)
      BY <1>20, <1>21, <1>22, <3>3, <3>4
    <3> QED BY <3>1, <3>2, <3>d, <3>5 DEF Placed
  <2>3. \A u \in Trees : \A q \in tree'[u].registry : Placed(u, q)'
    <3>1. ASSUME NEW u \in Trees, NEW q \in tree'[u].registry PROVE Placed(u, q)'
      <4>1. q \in tree[u].registry \/ (q = r /\ u = t)
        BY <1>13, <3>1
      <4> QED BY <2>1, <2>2, <4>1
    <3> QED BY <3>1
  <2>4. ASSUME NEW q \in Rows, row'[q].life = "live"
        PROVE  \E u \in Trees : row'[q].tree = u /\ q \in tree'[u].registry
    <3>1. CASE q = r
      BY <1>3, <1>11, <1>13, <1>14, <3>1
    <3>2. CASE q # r
      <4>1. row'[q] = row[q] /\ row[q].tree \in Trees /\ q \in tree[row[q].tree].registry
        BY <1>14, <2>4, <3>2 DEF ShapeSound, RowsPlaced
      <4>2. q \in tree'[row[q].tree].registry
        BY <1>13, <4>1
      <4> QED BY <4>1, <4>2
    <3> QED BY <3>1, <3>2
  <2> QED BY <2>3, <2>4 DEF RowsPlaced
<1>24. CollectionsSound'
  <2>1. ASSUME NEW u \in Trees, NEW d \in Whole(u)' PROVE Holds(u, d)'
    <3>1. CASE d = c
      <4>1. u = t
        <5>1. d \in Whole(u)
          BY <1>5, <1>13, <2>1, <3>1 DEF Whole
        <5> QED BY <1>3, <3>1, <5>1, OneTree
      <4>2. Kids(c) \cup {r} \subseteq tree'[t].registry
        BY <1>4, <1>13
      <4>3. \A q \in Kids(c) : q # r /\ q \in Rows /\ row[q].collection = c
        BY <1>3, <1>4, <1>8 DEF ShapeSound, CollectionsSound, Holds
      <4>4. \A q \in Kids(c) \cup {r} : row'[q].collection = c
        BY <1>11, <1>14, <4>3
      <4> QED BY <1>9, <1>15, <1>21, <3>1, <4>1, <4>2, <4>4 DEF Holds
    <3>2. CASE d = r
      <4>1. u = t
        BY <1>1, <1>8, <1>13, <2>1, <3>2, TreeAssumption DEF Whole
      <4>2. rows'[r] = EmptyCollection
        BY <1>1, <1>5, <1>15 DEF ShapeSound, NothingElse, Collections
      <4>3. Kids(r)' = {} /\ IsInjective(rows'[r].items) /\ rows'[r].forward = "no"
        BY <4>2 DEF Kids, ToSet, IsInjective, EmptyCollection
      <4> QED BY <3>2, <4>3 DEF Holds
    <3>3. CASE d # c /\ d # r
      <4>1. d \in Whole(u)
        BY <1>13, <2>1, <3>3 DEF Whole
      <4>2. Holds(u, d) /\ d \in Collections
        BY <1>20, <4>1 DEF ShapeSound, CollectionsSound
      <4>3. \A q \in Kids(d) : row'[q] = row[q]
        BY <1>8, <1>14, <4>2 DEF Holds
      <4> QED BY <1>13, <1>15, <1>21, <3>3, <4>2, <4>3 DEF Holds
    <3> QED BY <3>1, <3>2, <3>3
  <2> QED BY <2>1 DEF CollectionsSound
<1>25. NothingElse'
  <2>1. ASSUME NEW q \in Rows, row'[q].life # "live" PROVE q # r /\ row'[q] = row[q] /\ rows'[q] = rows[q]
    <3>1. q # r /\ row'[q] = row[q]
      BY <1>11, <1>14, <2>1
    <3>2. q # c
      BY <1>4, <2>1, <3>1
    <3> QED BY <1>15, <3>1, <3>2 DEF Collections
  <2>2. Made' = Made
    BY <1>13 DEF Made
  <2>3. \A u \in Trees : u \notin Made => tree'[u].columns = <<>> /\ tree'[u].registry = {}
    BY <1>3, <1>13 DEF ShapeSound, NothingElse
  <2> QED BY <2>1, <2>2, <2>3 DEF ShapeSound, NothingElse
<1>26. BudgetKept'
  <2>1. Cardinality(tree'[t].registry) = Cardinality(tree[t].registry) + 1
    BY <1>3, <1>8, <1>13, Counted, FS_AddElement
  <2>2. WithinBudget(Cardinality(tree'[t].registry), Len(tree'[t].columns))
    BY <1>3, <1>7, <1>13, <2>1
  <2> QED BY <1>13, <2>2 DEF BudgetKept, WithinBudget
<1>27. Remains
  <2>1. ASSUME NEW q \in Rows, row[q].life = "deleted" PROVE q # r /\ q # c
    BY <1>1, <1>4, <2>1
  <2> QED BY <1>1, <1>14, <1>15, <2>1 DEF Remains, Collections
<1> QED BY <1>16, <1>17, <1>19, <1>23, <1>24, <1>25, <1>26, <1>27 DEF ShapeSound

-----------------------------------------------------------------------------
(* Rows that leave. *)

(* What is below a row was reached from it. *)
LEMMA BelowFromAbove ==
    ASSUME TreeTyped, ShapeSound, NEW t \in Trees, NEW r \in tree[t].registry, NEW x \in Below(r)
    PROVE  x = r \/ row[x].collection \in Below(r)
<1>1. /\ Closed(Below(r)) /\ r \in Below(r) /\ Below(r) \subseteq Whole(t) /\ r \in Collections
  BY SubtreeFacts, WholeFacts DEF Whole
<1> DEFINE C == {y \in Below(r) : y = r \/ row[y].collection \in Below(r)}
<1>2. Closed(C)
  <2>1. ASSUME NEW y \in C, NEW q \in Kids(y) PROVE q \in C
    <3>1. q \in Below(r) /\ row[q].collection = y
      BY <1>1, WholeFacts DEF Closed
    <3> QED BY <3>1
  <2> QED BY <2>1 DEF Closed
<1>3. r \in C
  BY <1>1
<1>4. Below(r) \subseteq C
  BY <1>1, <1>2, <1>3, BelowFacts
<1> QED BY <1>4

(* No row is below one of its own rows. *)
LEMMA NotBelowItself ==
    ASSUME TreeTyped, ShapeSound, NEW t \in Trees, NEW k \in Whole(t), NEW r \in Kids(k)
    PROVE  k \notin Below(r)
<1>1. /\ tree[t].registry \subseteq Rows /\ Closed(tree[t].registry)
      /\ r \in tree[t].registry /\ r \in Collections /\ row[r].depth = DepthIn(k)
  BY WholeFacts DEF Whole
<1> DEFINE C == {y \in tree[t].registry : row[y].depth >= row[r].depth}
<1>2. \A y \in Rows : row[y].depth \in Nat /\ DepthIn(y) = row[y].depth + 1
  BY TreeAssumption DEF TreeTyped, RowType, DepthIn
<1>3. Closed(C)
  <2>1. ASSUME NEW y \in C, NEW q \in Kids(y) PROVE q \in C
    <3>1. q \in tree[t].registry /\ row[q].depth = DepthIn(y)
      BY WholeFacts DEF Whole
    <3> QED BY <1>1, <1>2, <3>1
  <2> QED BY <2>1 DEF Closed
<1>4. r \in C
  BY <1>1, <1>2
<1>5. Below(r) \subseteq C
  BY <1>1, <1>3, <1>4, BelowFacts
<1> QED BY <1>1, <1>2, <1>5

(* The subtrees of some items of k: a closed part of the tree, and what is    *)
(* left of the tree does not lead into it.                                  *)
LEMMA PruneFacts ==
    ASSUME TreeTyped, ShapeSound, NEW t \in Trees, NEW k \in Whole(t), NEW roots,
           roots \subseteq Kids(k)
    PROVE  /\ roots \subseteq RemoveSubtrees(roots) /\ k \notin RemoveSubtrees(roots)
           /\ RemoveSubtrees(roots) \subseteq tree[t].registry
           /\ Kids(k) \cap RemoveSubtrees(roots) = roots
           /\ \A x \in Whole(t) : x # k /\ x \notin RemoveSubtrees(roots)
                                  => Kids(x) \cap RemoveSubtrees(roots) = {}
           /\ \A q \in tree[t].registry : q \notin RemoveSubtrees(roots)
                                          => row[q].collection \notin RemoveSubtrees(roots)
<1> DEFINE gone == RemoveSubtrees(roots)
<1>1. \A x : x \in gone <=> \E r \in roots : x \in Below(r)
  BY DEF RemoveSubtrees
<1> HIDE DEF gone
<1>2. \A r \in roots : r \in tree[t].registry /\ r \in Whole(t) /\ r # t /\ row[r].collection = k
                       /\ r \in Kids(k)
  BY WholeFacts DEF Whole
<1>3. \A r \in roots : /\ r \in Below(r) /\ Below(r) \subseteq tree[t].registry
                       /\ Closed(Below(r)) /\ k \notin Below(r)
  BY <1>2, SubtreeFacts, NotBelowItself
<1>4. \A r \in roots : \A x \in Below(r) : x = r \/ row[x].collection \in Below(r)
  BY <1>2, BelowFromAbove
<1>5. roots \subseteq gone /\ k \notin gone /\ gone \subseteq tree[t].registry
  BY <1>1, <1>3
<1>6. \A q \in gone : q \in roots \/ row[q].collection \in gone
  BY <1>1, <1>4
<1>7. \A x \in Whole(t) : \A q \in Kids(x) : row[q].collection = x
  BY WholeFacts
<1>8. Kids(k) \cap gone = roots
  BY <1>5, <1>6, <1>7
<1>9. ASSUME NEW x \in Whole(t), x # k, x \notin gone PROVE Kids(x) \cap gone = {}
  BY <1>2, <1>6, <1>7, <1>9
<1>10. ASSUME NEW q \in tree[t].registry, q \notin gone PROVE row[q].collection \notin gone
  <2>1. q \in Kids(row[q].collection)
    BY DEF ShapeSound, RowsPlaced, Placed
  <2> QED BY <1>1, <1>3, <1>10, <2>1 DEF Closed
<1> QED BY <1>5, <1>8, <1>9, <1>10 DEF gone

(* Some items of a collection leave with their subtrees. *)
LEMMA RemoveRowsInv ==
    ASSUME TreeInv, NEW t \in Made, NEW k \in Whole(t), NEW roots, roots \subseteq Kids(k),
           RemoveRows(k, roots)
    PROVE  TreeInv' /\ Remains
<1> USE DEF TreeInv
<1>1. PICK gone : gone = RemoveSubtrees(roots)
  OBVIOUS
<1>2. t \in Trees /\ tree[t].made
  BY DEF Made
<1>3. /\ k \in Collections /\ TreeOf(k) = t /\ rows[k] \in RowsType /\ rows[k].items \in Seq(Rows)
      /\ rows[k].forward = "no" /\ IsInjective(rows[k].items) /\ Kids(k) \subseteq tree[t].registry
      /\ k \in Rows => row[k].life = "live"
  BY <1>2, PartFacts
<1>4. /\ roots \subseteq gone /\ k \notin gone /\ gone \subseteq tree[t].registry
      /\ Kids(k) \cap gone = roots
      /\ \A x \in Whole(t) : x # k /\ x \notin gone => Kids(x) \cap gone = {}
      /\ \A q \in tree[t].registry : q \notin gone => row[q].collection \notin gone
  BY <1>1, <1>2, PruneFacts
<1>5. \A u \in Trees : /\ Whole(u) \subseteq Collections /\ u \in Whole(u)
                       /\ tree[u].registry \subseteq Rows
  BY WholeFacts
<1>6. \A q \in gone : q \in Rows /\ q \in Collections /\ row[q].life = "live" /\ row[q].tree = t
  BY <1>2, <1>4, <1>5 DEF ShapeSound, RowsPlaced, Placed, Collections
<1>7. \A u \in Trees \ {t} : Whole(u) \cap gone = {} /\ k \notin Whole(u)
  BY <1>2, <1>4, OneTree DEF Whole
<1> DEFINE s == Without(rows[k].items, roots)
<1>8. /\ s \in Seq(Rows) /\ ToSet(s) = Kids(k) \ roots /\ IsInjective(s)
  BY <1>3, WithoutFacts DEF Kids
<1>9. /\ rows' = [c \in Collections |->
                    IF c = k THEN [rows[k] EXCEPT !.items = s]
                    ELSE IF c \in gone THEN [rows[c] EXCEPT !.items = <<>>] ELSE rows[c]]
      /\ row' = [r \in Rows |->
                   IF r \in gone THEN [row[r] EXCEPT !.cells = {}, !.life = "deleted"]
                   ELSE row[r]]
      /\ tree' = [tree EXCEPT ![t].registry = @ \ gone]
      /\ column' = column
  BY <1>1, <1>3 DEF RemoveRows
<1> HIDE DEF s
<1>10. /\ row \in [Rows -> RowType] /\ rows \in [Collections -> RowsType]
       /\ tree \in [Trees -> [made : BOOLEAN, columns : Seq(Columns), registry : SUBSET Rows]]
  BY DEF TreeTyped
<1>11. /\ \A u \in Trees : tree'[u].columns = tree[u].columns /\ tree'[u].made = tree[u].made
       /\ \A u \in Trees \ {t} : tree'[u] = tree[u]
       /\ tree'[t].registry = tree[t].registry \ gone
  BY <1>2, <1>9, <1>10
<1>12. /\ \A q \in gone : /\ row'[q] \in RowType /\ row'[q].life = "deleted" /\ row'[q].cells = {}
                          /\ row'[q].tree = row[q].tree
       /\ \A q \in Rows \ gone : row'[q] = row[q]
  <2>1. ASSUME NEW q \in gone
        PROVE  /\ row'[q] \in RowType /\ row'[q].life = "deleted" /\ row'[q].cells = {}
               /\ row'[q].tree = row[q].tree
    <3>1. row'[q] = [row[q] EXCEPT !.cells = {}, !.life = "deleted"] /\ row[q] \in RowType
      BY <1>6, <1>9, <1>10
    <3> QED BY <3>1 DEF RowType
  <2>2. \A q \in Rows \ gone : row'[q] = row[q]
    BY <1>9
  <2> QED BY <2>1, <2>2
<1>13. /\ rows'[k].items = s /\ rows'[k].forward = "no"
       /\ \A d \in gone : rows'[d].items = <<>>
       /\ \A d \in Collections : d # k /\ d \notin gone => rows'[d] = rows[d]
       /\ \A d \in Collections : rows'[d] \in RowsType
  <2>1. rows'[k] = [rows[k] EXCEPT !.items = s]
    BY <1>3, <1>9
  <2>2. \A d \in gone : rows'[d] = [rows[d] EXCEPT !.items = <<>>] /\ rows[d] \in RowsType
    BY <1>4, <1>6, <1>9, <1>10
  <2>3. rows'[k].items = s /\ rows'[k].forward = "no" /\ rows'[k] \in RowsType
    BY <1>3, <1>8, <2>1 DEF RowsType
  <2>4. ASSUME NEW d \in gone PROVE rows'[d].items = <<>> /\ rows'[d] \in RowsType
    <3>1. \A x \in RowsType : LET y == [x EXCEPT !.items = <<>>] IN y.items = <<>> /\ y \in RowsType
      <4>1. ASSUME NEW x \in RowsType PROVE LET y == [x EXCEPT !.items = <<>>] IN y.items = <<>> /\ y \in RowsType
        <5>1. <<>> \in Seq(Rows)
          OBVIOUS
        <5> QED BY <5>1 DEF RowsType
      <4> QED BY <4>1
    <3> QED BY <2>2, <3>1
  <2>5. \A d \in Collections : d # k /\ d \notin gone => rows'[d] = rows[d]
    BY <1>9
  <2> QED BY <1>10, <2>3, <2>4, <2>5
<1>14. TreeTyped'
  <2>1. row' \in [Rows -> RowType]
    BY <1>6, <1>9, <1>10, <1>12
  <2>2. rows' \in [Collections -> RowsType]
    BY <1>9, <1>13
  <2>3. tree' \in [Trees -> [made : BOOLEAN, columns : Seq(Columns), registry : SUBSET Rows]]
    BY <1>2, <1>9, <1>10
  <2> QED BY <1>9, <2>1, <2>2, <2>3 DEF TreeTyped
<1>15. ColumnsSound'
  BY <1>9, <1>11 DEF ColumnsSound, ColumnSet
<1>16. \A u \in Trees : tree'[u].registry \subseteq tree[u].registry
                        /\ tree'[u].registry \cap gone = {} /\ ColumnSet(u)' = ColumnSet(u)
  BY <1>7, <1>11 DEF ColumnSet, Whole
<1>17. CellsSound'
  <2>1. ASSUME NEW u \in Trees, NEW q \in tree'[u].registry PROVE row'[q].cells = ColumnSet(u)'
    <3>1. q \in tree[u].registry /\ q \in Rows \ gone
      BY <1>5, <1>16
    <3> QED BY <1>12, <1>16, <3>1 DEF CellsSound
  <2>2. ASSUME NEW q \in Rows, row'[q].life = "deleted" PROVE row'[q].cells = {}
    BY <1>12, <2>2 DEF CellsSound
  <2> QED BY <2>1, <2>2 DEF CellsSound
<1>18. \A u \in Trees : \A d \in Whole(u) : d \notin gone => d \in Whole(u)'
  BY <1>11 DEF Whole
<1>19. \A u \in Trees : \A d \in Whole(u)' : d \in Whole(u) /\ d \notin gone
  BY <1>5, <1>6, <1>16, TreeAssumption DEF Whole
<1>20. \A d \in Collections : d \notin gone => /\ Kids(d)' \subseteq Kids(d)
                                               /\ \A q \in Kids(d) : q \notin gone => q \in Kids(d)'
  BY <1>4, <1>8, <1>13 DEF Kids
<1>21. \A d \in Collections : d \notin gone => DepthIn(d)' = DepthIn(d)
  BY <1>12 DEF DepthIn, Collections
<1>22. RowsPlaced'
  <2>1. ASSUME NEW u \in Trees, NEW q \in tree'[u].registry PROVE Placed(u, q)'
    <3>1. q \in tree[u].registry /\ q \in Rows \ gone /\ Placed(u, q) /\ row'[q] = row[q]
      BY <1>5, <1>12, <1>16 DEF ShapeSound, RowsPlaced
    <3>2. PICK d \in Whole(u) : d = row[q].collection
      BY <3>1 DEF Placed
    <3>3. d \notin gone
      <4>1. CASE u = t
        BY <1>4, <3>1, <3>2, <4>1
      <4>2. CASE u # t
        BY <1>7, <3>2, <4>2
      <4> QED BY <4>1, <4>2
    <3>4. d \in Whole(u)' /\ q \in Kids(d)' /\ DepthIn(d)' = DepthIn(d)
      BY <1>5, <1>18, <1>20, <1>21, <3>1, <3>2, <3>3 DEF Placed
    <3> QED BY <3>1, <3>2, <3>4 DEF Placed
  <2>2. ASSUME NEW q \in Rows, row'[q].life = "live"
        PROVE  \E u \in Trees : row'[q].tree = u /\ q \in tree'[u].registry
    <3>1. q \notin gone /\ row'[q] = row[q]
      BY <1>12, <2>2
    <3>2. row[q].tree \in Trees /\ q \in tree[row[q].tree].registry
      BY <2>2, <3>1 DEF ShapeSound, RowsPlaced
    <3>3. q \in tree'[row[q].tree].registry
      BY <1>11, <3>1, <3>2
    <3> QED BY <3>1, <3>2, <3>3
  <2> QED BY <2>1, <2>2 DEF RowsPlaced
<1>23. CollectionsSound'
  <2>1. ASSUME NEW u \in Trees, NEW d \in Whole(u)' PROVE Holds(u, d)'
    <3>1. d \in Whole(u) /\ d \in Collections /\ d \notin gone /\ Holds(u, d)
      BY <1>5, <1>19 DEF ShapeSound, CollectionsSound
    <3>2. Kids(d)' \subseteq Kids(d) /\ Kids(d)' \cap gone = {}
      <4>1. CASE d = k
        BY <1>4, <1>8, <1>13, <4>1 DEF Kids
      <4>2. CASE d # k /\ u = t
        BY <1>4, <1>20, <3>1, <4>2
      <4>3. CASE u # t
        BY <1>7, <1>20, <3>1, <4>3 DEF Holds, Whole
      <4> QED BY <4>1, <4>2, <4>3
    <3>3. Kids(d)' \subseteq tree'[u].registry
      BY <1>11, <3>1, <3>2 DEF Holds
    <3>4. \A q \in Kids(d)' : row'[q].collection = d
      BY <1>5, <1>12, <3>1, <3>2 DEF Holds
    <3>5. rows'[d].forward = "no" /\ IsInjective(rows'[d].items)
      BY <1>8, <1>13, <3>1 DEF Holds
    <3> QED BY <3>3, <3>4, <3>5 DEF Holds
  <2> QED BY <2>1 DEF CollectionsSound
<1>24. Made' = Made
  BY <1>11 DEF Made
<1>25. \A q \in Rows : q \notin gone /\ row[q].life # "live" => row'[q] = row[q] /\ rows'[q] = rows[q]
  BY <1>3, <1>12, <1>13 DEF Collections
<1>26. NothingElse'
  <2>1. ASSUME NEW q \in Rows, row'[q].life = "none" PROVE rows'[q] = EmptyCollection
    <3>1. q \notin gone /\ row[q].life = "none"
      BY <1>12, <2>1
    <3> QED BY <1>25, <3>1 DEF ShapeSound, NothingElse
  <2>2. ASSUME NEW q \in Rows, row'[q].life = "deleted"
        PROVE  rows'[q].items = <<>> /\ row'[q].tree \in Made'
    <3>1. CASE q \in gone
      BY <1>6, <1>12, <1>13, <1>24, <3>1
    <3>2. CASE q \notin gone
      <4>1. row[q].life = "deleted"
        BY <1>12, <2>2, <3>2
      <4> QED BY <1>24, <1>25, <3>2, <4>1 DEF ShapeSound, NothingElse
    <3> QED BY <3>1, <3>2
  <2>3. \A u \in Trees : u \notin Made => tree'[u].columns = <<>> /\ tree'[u].registry = {}
    BY <1>2, <1>11 DEF ShapeSound, NothingElse, Made
  <2> QED BY <1>24, <2>1, <2>2, <2>3 DEF NothingElse
<1>27. BudgetKept'
  <2>1. ASSUME NEW u \in Trees
        PROVE  WithinBudget(Cardinality(tree'[u].registry), Len(tree'[u].columns))
    <3>1. /\ Len(tree[u].columns) \in Nat /\ IsFiniteSet(tree[u].registry)
          /\ Cardinality(tree[u].registry) \in Nat
      BY Counted
    <3>2. /\ Cardinality(tree'[u].registry) \in Nat
          /\ Cardinality(tree'[u].registry) <= Cardinality(tree[u].registry)
      BY <1>16, <3>1, FS_Subset, FS_CardinalityType
    <3>3. WithinBudget(Cardinality(tree[u].registry), Len(tree[u].columns))
      BY DEF BudgetKept
    <3>4. WithinBudget(Cardinality(tree'[u].registry), Len(tree[u].columns))
      <4> HIDE DEF TreeInv
      <4> QED BY <3>1, <3>2, <3>3, FewerWithinBudget
    <3> QED BY <1>11, <3>4
  <2> QED BY <2>1 DEF BudgetKept, WithinBudget
<1>28. Remains
  BY <1>6, <1>9, <1>25 DEF Remains
<1> QED BY <1>14, <1>15, <1>17, <1>22, <1>23, <1>26, <1>27, <1>28 DEF ShapeSound

(* Delete of a row. *)
LEMMA DeleteRowInv ==
    ASSUME TreeInv, NEW k \in Collections, NEW r \in Rows, DeleteRow(k, r)
    PROVE  TreeInv' /\ Remains
<1>1. k \in Held /\ Live(k) /\ row[r].life = "live" /\ row[r].collection = k /\ RemoveRows(k, {r})
  BY DEF DeleteRow
<1>2. PICK t \in Made : t = TreeOf(k) /\ k \in Whole(t)
  BY <1>1, LiveHeld
<1>3. r \in Kids(k)
  BY <1>1 DEF TreeInv, ShapeSound, RowsPlaced, Placed
<1>4. {r} \subseteq Kids(k)
  BY <1>3
<1> QED BY <1>1, <1>2, <1>4, RemoveRowsInv

(* Clear of a collection. *)
LEMMA ClearRowsInv ==
    ASSUME TreeInv, NEW k \in Collections, NEW linux, ClearRows(k, linux)
    PROVE  TreeInv' /\ Remains
<1>1. k \in Held
  BY DEF ClearRows
<1>2. PICK c \in Receivers(k, "clear", linux) : RemoveRows(c, Kids(c))
  BY DEF ClearRows, Kids
<1>3. PICK t \in Made : t = TreeOf(c) /\ c \in Whole(t)
  BY <1>1, ReceiverFacts
<1>4. PICK roots : roots = Kids(c)
  OBVIOUS
<1> QED BY <1>2, <1>3, <1>4, RemoveRowsInv

-----------------------------------------------------------------------------
(* The last columns leave. *)

(* The last columns leave with every row. *)
LEMMA DropEverythingInv ==
    ASSUME TreeInv, NEW t \in Made, NEW cause \in {"clear", "delete"}, DropEverything(t, cause)
    PROVE  TreeInv' /\ Remains
<1> USE DEF TreeInv
<1>1. PICK gone : gone = tree[t].registry
  OBVIOUS
<1>2. PICK lost : lost = ColumnSet(t)
  OBVIOUS
<1>3. t \in Trees /\ tree[t].made /\ t \in Collections
  BY DEF Made, Collections
<1>4. /\ tree' = [tree EXCEPT ![t] = EmptyTree]
      /\ column' = [c \in Columns |->
                      IF c \in lost THEN [column[c] EXCEPT !.life = "reset"] ELSE column[c]]
      /\ row' = [r \in Rows |->
                   IF r \in gone THEN [row[r] EXCEPT !.cells = {}, !.life = "deleted"]
                   ELSE row[r]]
      /\ rows' = [k \in Collections |->
                    IF k \in gone THEN [items |-> <<>>, forward |-> cause]
                    ELSE IF k = t THEN EmptyCollection ELSE rows[k]]
  BY <1>1, <1>2 DEF DropEverything
<1>5. \A u \in Trees : /\ Whole(u) \subseteq Collections /\ u \in Whole(u)
                       /\ tree[u].registry \subseteq Rows
  BY WholeFacts
<1>6. /\ gone \subseteq Rows /\ t \notin gone
      /\ \A q \in gone : q \in Collections /\ row[q].life = "live" /\ row[q].tree = t
  BY <1>1, <1>3, <1>5, TreeAssumption DEF ShapeSound, RowsPlaced, Placed, Collections
<1>7. \A u \in Trees \ {t} : Whole(u) \cap gone = {} /\ t \notin Whole(u)
  BY <1>1, <1>3, <1>5, OneTree DEF Whole
<1>8. /\ lost \subseteq Columns /\ \A u \in Trees \ {t} : ColumnSet(u) \cap lost = {}
      /\ \A c \in lost : column[c].life = "active"
  BY <1>2, <1>3, ColumnFacts
<1>9. /\ row \in [Rows -> RowType] /\ rows \in [Collections -> RowsType]
      /\ column \in [Columns -> ColumnType]
      /\ tree \in [Trees -> [made : BOOLEAN, columns : Seq(Columns), registry : SUBSET Rows]]
  BY DEF TreeTyped
<1>10. /\ tree'[t].made /\ tree'[t].columns = <<>> /\ tree'[t].registry = {}
       /\ \A u \in Trees \ {t} : tree'[u] = tree[u]
       /\ EmptyTree \in [made : BOOLEAN, columns : Seq(Columns), registry : SUBSET Rows]
  <2>1. /\ EmptyTree.made /\ EmptyTree.columns = <<>> /\ EmptyTree.registry = {}
        /\ EmptyTree \in [made : BOOLEAN, columns : Seq(Columns), registry : SUBSET Rows]
    BY DEF EmptyTree
  <2>2. tree'[t] = EmptyTree /\ \A u \in Trees \ {t} : tree'[u] = tree[u]
    BY <1>3, <1>4, <1>9
  <2> QED BY <2>1, <2>2
<1>11. /\ \A c \in lost : column'[c] \in ColumnType /\ column'[c].life = "reset"
       /\ \A c \in Columns \ lost : column'[c] = column[c]
  <2>1. ASSUME NEW x \in ColumnType
        PROVE  /\ [x EXCEPT !.life = "reset"] \in ColumnType
               /\ [x EXCEPT !.life = "reset"].life = "reset"
    BY DEF ColumnType
  <2> QED BY <1>4, <1>8, <1>9, <2>1
<1>12. /\ \A q \in gone : /\ row'[q] \in RowType /\ row'[q].life = "deleted" /\ row'[q].cells = {}
                          /\ row'[q].tree = row[q].tree
       /\ \A q \in Rows \ gone : row'[q] = row[q]
  <2>1. \A x \in RowType : LET y == [x EXCEPT !.cells = {}, !.life = "deleted"]
                           IN /\ y \in RowType /\ y.life = "deleted" /\ y.cells = {}
                              /\ y.tree = x.tree
    BY DEF RowType
  <2> QED BY <1>4, <1>6, <1>9, <2>1
<1>13. /\ rows'[t] = EmptyCollection
       /\ \A d \in gone : rows'[d].items = <<>> /\ rows'[d] \in RowsType
       /\ \A d \in Collections : d # t /\ d \notin gone => rows'[d] = rows[d]
       /\ \A d \in Collections : rows'[d] \in RowsType
  <2>1. LET y == [items |-> <<>>, forward |-> cause] IN y.items = <<>> /\ y \in RowsType
    BY DEF RowsType
  <2>2. EmptyCollection \in RowsType
    BY DEF RowsType, EmptyCollection
  <2> QED BY <1>3, <1>4, <1>6, <1>9, <2>1, <2>2
<1>14. TreeTyped'
  <2>1. row' \in [Rows -> RowType]
    BY <1>6, <1>9, <1>4, <1>12
  <2>2. rows' \in [Collections -> RowsType]
    BY <1>4, <1>13
  <2>3. column' \in [Columns -> ColumnType]
    BY <1>4, <1>9, <1>11
  <2>4. tree' \in [Trees -> [made : BOOLEAN, columns : Seq(Columns), registry : SUBSET Rows]]
    BY <1>4, <1>9, <1>10
  <2> QED BY <2>1, <2>2, <2>3, <2>4 DEF TreeTyped
<1>15. ColumnSet(t)' = {} /\ \A u \in Trees \ {t} : ColumnSet(u)' = ColumnSet(u)
  BY <1>10 DEF ColumnSet, ToSet
<1>16. ColumnsSound'
  <2>1. ASSUME NEW u \in Trees PROVE IsInjective(tree'[u].columns)
    <3>1. CASE u = t
      BY <1>10, <3>1 DEF IsInjective
    <3>2. CASE u # t
      BY <1>10, <3>2 DEF ColumnsSound
    <3> QED BY <3>1, <3>2
  <2>2. ASSUME NEW u \in Trees, NEW c \in ColumnSet(u)'
        PROVE  column'[c] = [table |-> u, life |-> "active"]
    <3>1. u # t /\ c \in ColumnSet(u)
      BY <1>15, <2>2
    <3>2. c \in Columns \ lost
      BY <1>8, <3>1, ColumnFacts
    <3> QED BY <1>11, <3>1, <3>2 DEF ColumnsSound
  <2>3. ASSUME NEW c \in Columns, column'[c].life = "active"
        PROVE  \E u \in Trees : column'[c].table = u /\ c \in ToSet(tree'[u].columns)
    <3>1. c \notin lost /\ column'[c] = column[c]
      BY <1>11, <2>3
    <3>2. column[c].table \in Trees /\ c \in ColumnSet(column[c].table)
      BY <2>3, <3>1 DEF ColumnsSound
    <3>3. column[c].table # t
      BY <1>2, <3>1, <3>2
    <3> QED BY <1>10, <3>1, <3>2, <3>3 DEF ColumnSet
  <2> QED BY <2>1, <2>2, <2>3 DEF ColumnsSound, ColumnSet
<1>17. \A u \in Trees : /\ tree'[u].registry \subseteq tree[u].registry
                        /\ u # t => tree'[u].registry = tree[u].registry
                        /\ tree'[u].registry \cap gone = {}
                        /\ tree'[u].registry # {} => u # t
  BY <1>7, <1>10 DEF Whole
<1>18. CellsSound'
  <2>1. ASSUME NEW u \in Trees, NEW q \in tree'[u].registry PROVE row'[q].cells = ColumnSet(u)'
    <3>1. q \in tree[u].registry /\ q \in Rows \ gone /\ u # t
      BY <1>5, <1>17
    <3> QED BY <1>12, <1>15, <3>1 DEF CellsSound
  <2>2. ASSUME NEW q \in Rows, row'[q].life = "deleted" PROVE row'[q].cells = {}
    BY <1>12, <2>2 DEF CellsSound
  <2> QED BY <2>1, <2>2 DEF CellsSound
<1>19. Whole(t)' = {t} /\ \A u \in Trees \ {t} : Whole(u)' = Whole(u)
  BY <1>10 DEF Whole
<1>20. \A u \in Trees \ {t} : \A d \in Whole(u) : /\ rows'[d] = rows[d] /\ Kids(d)' = Kids(d)
                                                 /\ DepthIn(d)' = DepthIn(d)
  <2>1. ASSUME NEW u \in Trees \ {t}, NEW d \in Whole(u)
        PROVE  rows'[d] = rows[d] /\ Kids(d)' = Kids(d) /\ DepthIn(d)' = DepthIn(d)
    <3>1. d \in Collections /\ d \notin gone /\ d # t
      BY <1>5, <1>7
    <3>2. rows'[d] = rows[d]
      BY <1>13, <3>1
    <3>3. DepthIn(d)' = DepthIn(d)
      BY <1>12, <3>1 DEF DepthIn, Collections
    <3> QED BY <3>2, <3>3 DEF Kids
  <2> QED BY <2>1
<1>21. RowsPlaced'
  <2>1. ASSUME NEW u \in Trees, NEW q \in tree'[u].registry PROVE Placed(u, q)'
    <3>1. /\ q \in tree[u].registry /\ q \in Rows \ gone /\ u # t /\ Placed(u, q)
          /\ row'[q] = row[q]
      BY <1>5, <1>12, <1>17 DEF ShapeSound, RowsPlaced
    <3>2. PICK d \in Whole(u) : d = row[q].collection
      BY <3>1 DEF Placed
    <3>3. d \in Whole(u)' /\ q \in Kids(d)' /\ DepthIn(d)' = DepthIn(d)
      BY <1>19, <1>20, <3>1, <3>2 DEF Placed
    <3> QED BY <3>1, <3>2, <3>3 DEF Placed
  <2>2. ASSUME NEW q \in Rows, row'[q].life = "live"
        PROVE  \E u \in Trees : row'[q].tree = u /\ q \in tree'[u].registry
    <3>1. q \notin gone /\ row'[q] = row[q]
      BY <1>12, <2>2
    <3>2. row[q].tree \in Trees /\ q \in tree[row[q].tree].registry
      BY <2>2, <3>1 DEF ShapeSound, RowsPlaced
    <3>3. row[q].tree # t
      BY <1>1, <3>1, <3>2
    <3> QED BY <1>10, <3>1, <3>2, <3>3
  <2> QED BY <2>1, <2>2 DEF RowsPlaced
<1>22. CollectionsSound'
  <2>1. ASSUME NEW u \in Trees, NEW d \in Whole(u)' PROVE Holds(u, d)'
    <3>1. CASE u = t
      <4>1. d = t
        BY <1>19, <2>1, <3>1
      <4>2. rows'[d].items = <<>> /\ rows'[d].forward = "no"
        BY <1>13, <4>1 DEF EmptyCollection
      <4>3. Kids(d)' = {} /\ IsInjective(rows'[d].items)
        BY <4>2 DEF Kids, ToSet, IsInjective
      <4> QED BY <4>2, <4>3 DEF Holds
    <3>2. CASE u # t
      <4>1. d \in Whole(u) /\ Holds(u, d) /\ tree'[u].registry = tree[u].registry
        BY <1>10, <1>19, <2>1, <3>2 DEF ShapeSound, CollectionsSound
      <4>2. rows'[d] = rows[d] /\ Kids(d)' = Kids(d)
        BY <1>20, <3>2, <4>1
      <4>3. \A q \in Kids(d) : row'[q] = row[q]
        BY <1>5, <1>7, <1>12, <3>2, <4>1 DEF Holds, Whole
      <4> QED BY <4>1, <4>2, <4>3 DEF Holds
    <3> QED BY <3>1, <3>2
  <2> QED BY <2>1 DEF CollectionsSound
<1>23. Made' = Made
  BY <1>3, <1>10 DEF Made
<1>24. \A q \in Rows : row[q].life # "live" => q \notin gone /\ row'[q] = row[q] /\ rows'[q] = rows[q]
  BY <1>3, <1>6, <1>12, <1>13, TreeAssumption DEF Collections
<1>25. NothingElse'
  <2>1. ASSUME NEW q \in Rows, row'[q].life = "none" PROVE rows'[q] = EmptyCollection
    <3>1. q \notin gone /\ row[q].life = "none"
      BY <1>12, <2>1
    <3> QED BY <1>24, <3>1 DEF ShapeSound, NothingElse
  <2>2. ASSUME NEW q \in Rows, row'[q].life = "deleted"
        PROVE  rows'[q].items = <<>> /\ row'[q].tree \in Made'
    <3>1. CASE q \in gone
      BY <1>6, <1>12, <1>13, <1>23, <3>1
    <3>2. CASE q \notin gone
      <4>1. row[q].life = "deleted"
        BY <1>12, <2>2, <3>2
      <4> QED BY <1>23, <1>24, <4>1 DEF ShapeSound, NothingElse
    <3> QED BY <3>1, <3>2
  <2>3. \A u \in Trees : u \notin Made => tree'[u].columns = <<>> /\ tree'[u].registry = {}
    BY <1>3, <1>10 DEF ShapeSound, NothingElse, Made
  <2> QED BY <1>23, <2>1, <2>2, <2>3 DEF NothingElse
<1>26. BudgetKept'
  <2>1. WithinBudget(0, 0)
    BY TreeAssumption DEF WithinBudget
  <2>2. Cardinality(tree'[t].registry) = 0 /\ Len(tree'[t].columns) = 0
    BY <1>10, FS_EmptySet
  <2>3. WithinBudget(Cardinality(tree'[t].registry), Len(tree'[t].columns))
    BY <2>1, <2>2
  <2> QED BY <1>10, <2>3 DEF BudgetKept, WithinBudget
<1>27. Remains
  BY <1>8, <1>11, <1>24 DEF Remains
<1> QED BY <1>14, <1>16, <1>18, <1>21, <1>22, <1>25, <1>26, <1>27 DEF ShapeSound

(* Delete of a column on Linux. *)
LEMMA DeleteColumnLinuxInv ==
    ASSUME TreeInv, NEW t \in Trees, NEW c \in Columns, NEW named, DeleteColumnLinux(t, c, named)
    PROVE  TreeInv' /\ Remains
<1>1. t \in Made /\ c \in ColumnSet(t)
  BY DEF DeleteColumnLinux
<1>2. CASE DropColumn(t, c, "reset")
  BY <1>1, <1>2, DropColumnInv
<1>3. CASE DropColumn(t, c, "deleted")
  BY <1>1, <1>3, DropColumnInv
<1>4. CASE DropEverything(t, "delete")
  BY <1>1, <1>4, DropEverythingInv
<1> QED BY <1>2, <1>3, <1>4 DEF DeleteColumnLinux

(* Clear of the columns. *)
LEMMA ClearColumnsInv ==
    ASSUME TreeInv, NEW t \in Trees, NEW linux, ClearColumns(t, linux)
    PROVE  TreeInv' /\ Remains
<1>1. t \in Made
  BY DEF ClearColumns
<1>2. CASE DropEverything(t, "clear")
  BY <1>1, <1>2, DropEverythingInv
<1>3. CASE ~ DropEverything(t, "clear")
  BY <1>1, <1>3, ClearWindowsInv DEF ClearColumns
<1> QED BY <1>2, <1>3

-----------------------------------------------------------------------------
(* Copy. *)

(* There are new objects to clone S into when enough are unused. *)
LEMMA ClonesFacts ==
    ASSUME NEW S, IsFiniteSet(S), NEW unused, IsFiniteSet(unused),
           Cardinality(S) <= Cardinality(unused)
    PROVE  /\ Clones(S, unused) \in [S -> unused]
           /\ \A x, y \in S : Clones(S, unused)[x] = Clones(S, unused)[y] => x = y
<1> DEFINE m == Cardinality(S)
           n == Cardinality(unused)
<1>1. m \in Nat /\ n \in Nat /\ m <= n
  BY FS_CardinalityType
<1>2. PICK a \in Bijection(1 .. m, S) : TRUE
  BY FS_CardinalityType DEF ExistsBijection
<1>3. PICK b \in Bijection(1 .. n, unused) : TRUE
  BY FS_CardinalityType DEF ExistsBijection
<1> HIDE DEF m, n
<1>4. a \in [1 .. m -> S] /\ \A x \in S : \E i \in 1 .. m : a[i] = x
  BY <1>2 DEF Bijection, Injection, Surjection
<1>5. b \in [1 .. n -> unused] /\ \A i, j \in 1 .. n : b[i] = b[j] => i = j
  BY <1>3 DEF Bijection, Injection, IsInjective
<1> DEFINE place(x) == CHOOSE i \in 1 .. m : a[i] = x
           f == [x \in S |-> b[place(x)]]
<1>6. \A x \in S : place(x) \in 1 .. m /\ a[place(x)] = x
  BY <1>4
<1>7. \A x \in S : place(x) \in 1 .. n
  BY <1>1, <1>6
<1> HIDE DEF place
<1>8. f \in [S -> unused]
  BY <1>5, <1>7
<1>9. ASSUME NEW x \in S, NEW y \in S, f[x] = f[y] PROVE x = y
  <2>1. place(x) = place(y)
    BY <1>5, <1>7, <1>9
  <2> QED BY <1>6, <2>1
<1> HIDE DEF f
<1>10. \E h \in [S -> unused] : \A x, y \in S : h[x] = h[y] => x = y
  BY <1>8, <1>9
<1> QED BY <1>10 DEF Clones

(* A renamed sequence has the renamed items in the same places. *)
LEMMA RenamedFacts ==
    ASSUME NEW R, NEW s \in Seq(R), NEW S, ToSet(s) \subseteq S, NEW T, NEW f \in [S -> T]
    PROVE  /\ Renamed(s, f) \in Seq(T) /\ Len(Renamed(s, f)) = Len(s)
           /\ \A y : y \in ToSet(Renamed(s, f)) <=> \E x \in ToSet(s) : y = f[x]
           /\ IsInjective(s) /\ (\A x, y \in S : f[x] = f[y] => x = y)
              => IsInjective(Renamed(s, f))
<1> DEFINE q == Renamed(s, f)
<1>1. DOMAIN s = 1 .. Len(s) /\ Len(s) \in Nat
  OBVIOUS
<1>2. \A i \in 1 .. Len(s) : s[i] \in S /\ s[i] \in ToSet(s)
  BY DEF ToSet
<1>3. q = [i \in 1 .. Len(s) |-> f[s[i]]]
  BY <1>1 DEF Renamed
<1>4. q \in [1 .. Len(s) -> T]
  BY <1>2, <1>3
<1>5. q \in Seq(T) /\ Len(q) = Len(s) /\ \A i \in 1 .. Len(s) : q[i] = f[s[i]]
  BY <1>1, <1>3, <1>4
<1> HIDE DEF q
<1>6. \A y : y \in ToSet(q) <=> \E x \in ToSet(s) : y = f[x]
  BY <1>1, <1>4, <1>5 DEF ToSet
<1>7. ASSUME IsInjective(s), \A x, y \in S : f[x] = f[y] => x = y PROVE IsInjective(q)
  BY <1>1, <1>2, <1>4, <1>5, <1>7 DEF IsInjective
<1> QED BY <1>5, <1>6, <1>7 DEF q

(* A list has no more members than places. *)
LEMMA MembersCounted ==
    ASSUME NEW T, NEW s \in Seq(T)
    PROVE  IsFiniteSet(ToSet(s)) /\ Cardinality(ToSet(s)) <= Len(s)
<1>1. Len(s) \in Nat /\ IsFiniteSet(1 .. Len(s)) /\ Cardinality(1 .. Len(s)) = Len(s)
  <2>1. Len(s) \in Nat
    OBVIOUS
  <2> QED BY <2>1, FS_Interval
<1>2. s \in Surjection(1 .. Len(s), ToSet(s))
  BY DEF Surjection, ToSet
<1> QED BY <1>1, <1>2, FS_Surjection

(* What a copy does: f and g rename the rows and the columns, place the       *)
(* collections of t.                                                        *)
Copies(t, u, f, g, place) ==
    /\ f \in [tree[t].registry -> UnusedRows]
    /\ \A x, y \in tree[t].registry : f[x] = f[y] => x = y
    /\ g \in [ColumnSet(t) -> UnusedColumns]
    /\ \A x, y \in ColumnSet(t) : g[x] = g[y] => x = y
    /\ place = [k \in Whole(t) |-> IF k = t THEN u ELSE f[k]]
    /\ tree' = [tree EXCEPT ![u] = [made |-> TRUE, registry |-> {f[r] : r \in tree[t].registry},
                                    columns |-> Renamed(tree[t].columns, g)]]
    /\ \A c \in Columns \ {g[s] : s \in ColumnSet(t)} : column'[c] = column[c]
    /\ \A s \in ColumnSet(t) : column'[g[s]] = [table |-> u, life |-> "active"]
    /\ DOMAIN column' = Columns /\ column' = [c \in Columns |-> column'[c]]
    /\ \A r \in Rows \ {f[r] : r \in tree[t].registry} : row'[r] = row[r]
    /\ \A r \in tree[t].registry :
          row'[f[r]] = [life |-> "live", tree |-> u, depth |-> row[r].depth,
                        collection |-> place[row[r].collection],
                        cells |-> {g[c] : c \in row[r].cells}]
    /\ row' = [r \in Rows |-> row'[r]]
    /\ \A k \in Collections \ {place[d] : d \in Whole(t)} : rows'[k] = rows[k]
    /\ \A d \in Whole(t) : rows'[place[d]] = [items |-> Renamed(rows[d].items, f), forward |-> "no"]
    /\ rows' = [k \in Collections |-> rows'[k]]

(* Copy is such a step. *)
LEMMA CopyIsCopies ==
    ASSUME TreeInv, NEW t \in Trees, NEW u \in Trees, Copy(t, u)
    PROVE  /\ t \in Made /\ u \notin Made
           /\ \E f, g, place : Copies(t, u, f, g, place)
<1> USE DEF TreeInv
<1>1. /\ t \in Made /\ u \notin Made
      /\ Cardinality(tree[t].registry) <= Cardinality(UnusedRows)
      /\ Len(tree[t].columns) <= Cardinality(UnusedColumns)
  BY DEF Copy
<1>2. PICK old : old = tree[t].registry
  OBVIOUS
<1>3. PICK cols : cols = ColumnSet(t)
  OBVIOUS
<1>4. PICK f : f = Clones(old, UnusedRows)
  OBVIOUS
<1>5. PICK g : g = Clones(cols, UnusedColumns)
  OBVIOUS
<1>6. old \subseteq Rows /\ t \notin old /\ u \notin old /\ Whole(t) \subseteq Collections
  BY <1>2, WholeFacts, TreeAssumption
<1>7. f \in [old -> UnusedRows] /\ \A x, y \in old : f[x] = f[y] => x = y
  <2>1. IsFiniteSet(old) /\ IsFiniteSet(UnusedRows)
    BY <1>6, TreeAssumption, FS_Subset DEF UnusedRows
  <2> QED BY <1>1, <1>2, <1>4, <2>1, ClonesFacts
<1>8. g \in [cols -> UnusedColumns] /\ \A x, y \in cols : g[x] = g[y] => x = y
  <2>1. IsFiniteSet(cols) /\ IsFiniteSet(UnusedColumns) /\ cols \subseteq Columns
    BY <1>3, ColumnFacts, TreeAssumption, FS_Subset DEF UnusedColumns
  <2>2. Cardinality(cols) <= Len(tree[t].columns)
    BY <1>3, ColumnFacts, MembersCounted DEF ColumnSet
  <2>3. /\ Cardinality(cols) \in Nat /\ Cardinality(UnusedColumns) \in Nat
        /\ Len(tree[t].columns) \in Nat
    BY <2>1, Counted, FS_CardinalityType
  <2>4. Cardinality(cols) <= Cardinality(UnusedColumns)
    BY <1>1, <2>2, <2>3
  <2> QED BY <1>5, <2>1, <2>4, ClonesFacts
<1> DEFINE cloned == {f[r] : r \in old}
           source(r) == CHOOSE s \in old : f[s] = r
           pl(k) == IF k = t THEN u ELSE f[k]
           place == [k \in Whole(t) |-> pl(k)]
<1>9. /\ tree' = [tree EXCEPT ![u] = [made |-> TRUE, registry |-> cloned,
                                      columns |-> Renamed(tree[t].columns, g)]]
      /\ column' = [c \in Columns |->
                      IF \E s \in cols : g[s] = c
                      THEN [table |-> u, life |-> "active"] ELSE column[c]]
      /\ row' = [r \in Rows |->
                   IF r \in cloned
                   THEN [life |-> "live", tree |-> u, depth |-> row[source(r)].depth,
                         collection |-> pl(row[source(r)].collection),
                         cells |-> {g[c] : c \in row[source(r)].cells}]
                   ELSE row[r]]
      /\ rows' = [k \in Collections |->
                    IF k = u THEN [EmptyCollection EXCEPT !.items = Renamed(rows[t].items, f)]
                    ELSE IF k \in cloned
                    THEN [EmptyCollection EXCEPT !.items = Renamed(rows[source(k)].items, f)]
                    ELSE rows[k]]
  BY <1>2, <1>3, <1>4, <1>5 DEF Copy
<1>10. \A r \in old : f[r] \in cloned /\ f[r] \in Rows /\ source(f[r]) = r
  BY <1>7 DEF UnusedRows
<1> HIDE DEF source
<1>11. /\ \A c \in Columns \ {g[s] : s \in cols} : column'[c] = column[c]
       /\ \A s \in cols : column'[g[s]] = [table |-> u, life |-> "active"]
       /\ DOMAIN column' = Columns /\ column' = [c \in Columns |-> column'[c]]
  BY <1>8, <1>9 DEF UnusedColumns
<1>12. /\ \A r \in Rows \ cloned : row'[r] = row[r]
       /\ row' = [r \in Rows |-> row'[r]]
  BY <1>9
<1>13. ASSUME NEW r \in old
       PROVE  row'[f[r]] = [life |-> "live", tree |-> u, depth |-> row[r].depth,
                            collection |-> place[row[r].collection],
                            cells |-> {g[c] : c \in row[r].cells}]
  <2>1. row'[f[r]] = [life |-> "live", tree |-> u, depth |-> row[source(f[r])].depth,
                      collection |-> pl(row[source(f[r])].collection),
                      cells |-> {g[c] : c \in row[source(f[r])].cells}]
    BY <1>9, <1>10
  <2>2. source(f[r]) = r
    BY <1>10
  <2>3. pl(row[r].collection) = place[row[r].collection]
    BY <1>2 DEF ShapeSound, RowsPlaced, Placed
  <2> HIDE DEF pl, place
  <2>4. row'[f[r]] = [life |-> "live", tree |-> u, depth |-> row[r].depth,
                      collection |-> pl(row[r].collection),
                      cells |-> {g[c] : c \in row[r].cells}]
    BY <2>1, <2>2
  <2> QED BY <2>3, <2>4
<1>14. \A d \in Whole(t) : place[d] = u \/ (d \in old /\ place[d] = f[d])
  BY <1>2 DEF Whole
<1>15. place[t] = u /\ \A r \in old : place[r] = f[r] /\ r \in Whole(t)
  BY <1>2, <1>6 DEF Whole
<1>16. u \notin cloned /\ u \in Collections
  BY <1>10, TreeAssumption DEF Collections
<1>17. ASSUME NEW k \in Collections, k \notin {place[d] : d \in Whole(t)} PROVE rows'[k] = rows[k]
  <2>1. t \in Whole(t)
    BY DEF Whole
  <2>2. k # u /\ k \notin cloned
    BY <1>15, <1>17, <2>1
  <2> QED BY <1>9, <2>2
<1>18. \A s : [EmptyCollection EXCEPT !.items = s] = [items |-> s, forward |-> "no"]
  BY DEF EmptyCollection
<1>19. ASSUME NEW d \in Whole(t)
       PROVE  rows'[place[d]] = [items |-> Renamed(rows[d].items, f), forward |-> "no"]
  <2>1. CASE d = t
    <3>1. rows'[u] = [EmptyCollection EXCEPT !.items = Renamed(rows[t].items, f)]
      BY <1>9, <1>16
    <3> QED BY <1>15, <1>18, <2>1, <3>1
  <2>2. CASE d # t
    <3>1. d \in old /\ place[d] = f[d] /\ f[d] # u /\ f[d] \in cloned /\ f[d] \in Collections
          /\ source(f[d]) = d
      BY <1>2, <1>10, <1>15, <1>16, <2>2 DEF Whole, Collections
    <3>2. rows'[f[d]] = [EmptyCollection EXCEPT !.items = Renamed(rows[source(f[d])].items, f)]
      BY <1>9, <3>1
    <3> QED BY <1>18, <3>1, <3>2
  <2> QED BY <2>1, <2>2
<1>20. rows' = [k \in Collections |-> rows'[k]]
  BY <1>9
<1>21. place = [k \in Whole(t) |-> IF k = t THEN u ELSE f[k]]
  OBVIOUS
<1>22. tree' = [tree EXCEPT ![u] = [made |-> TRUE, registry |-> cloned,
                                    columns |-> Renamed(tree[t].columns, g)]]
  BY <1>9
<1> HIDE DEF place
<1>23. Copies(t, u, f, g, place)
  BY <1>2, <1>3, <1>7, <1>8, <1>11, <1>12, <1>13, <1>17, <1>19, <1>20, <1>21, <1>22 DEF Copies
<1> QED BY <1>1, <1>23

(* A copy keeps the invariant. *)
LEMMA CopiesInv ==
    ASSUME TreeInv, NEW t \in Made, NEW u \in Trees, u \notin Made, NEW f, NEW g, NEW place,
           Copies(t, u, f, g, place)
    PROVE  TreeInv' /\ Remains
<1> USE DEF TreeInv
<1>1. PICK old : old = tree[t].registry
  OBVIOUS
<1>2. PICK cols : cols = ColumnSet(t)
  OBVIOUS
<1>3. PICK whole : whole = Whole(t)
  OBVIOUS
<1>4. PICK cloned : cloned = {f[r] : r \in old}
  OBVIOUS
<1>5. PICK dyed : dyed = {g[s] : s \in cols}
  OBVIOUS
<1>6. t \in Trees /\ t # u /\ tree[t].made /\ t \in Collections /\ u \in Collections
  BY DEF Made, Collections
<1>7. /\ f \in [old -> UnusedRows] /\ \A x, y \in old : f[x] = f[y] => x = y
      /\ g \in [cols -> UnusedColumns] /\ \A x, y \in cols : g[x] = g[y] => x = y
      /\ place = [k \in whole |-> IF k = t THEN u ELSE f[k]]
  BY <1>1, <1>2, <1>3 DEF Copies
<1>8. /\ tree' = [tree EXCEPT ![u] = [made |-> TRUE, registry |-> cloned,
                                      columns |-> Renamed(tree[t].columns, g)]]
      /\ \A c \in Columns \ dyed : column'[c] = column[c]
      /\ \A s \in cols : column'[g[s]] = [table |-> u, life |-> "active"]
      /\ column' = [c \in Columns |-> column'[c]]
  BY <1>1, <1>2, <1>4, <1>5 DEF Copies
<1>9. /\ \A r \in Rows \ cloned : row'[r] = row[r]
      /\ \A r \in old :
            row'[f[r]] = [life |-> "live", tree |-> u, depth |-> row[r].depth,
                          collection |-> place[row[r].collection],
                          cells |-> {g[c] : c \in row[r].cells}]
      /\ row' = [r \in Rows |-> row'[r]]
  BY <1>1, <1>4 DEF Copies
<1>10. /\ \A k \in Collections \ {place[d] : d \in whole} : rows'[k] = rows[k]
       /\ \A d \in whole : rows'[place[d]] = [items |-> Renamed(rows[d].items, f), forward |-> "no"]
       /\ rows' = [k \in Collections |-> rows'[k]]
  BY <1>3 DEF Copies
<1>11. /\ old \subseteq Rows /\ t \notin old /\ whole \subseteq Collections
       /\ whole = {t} \cup old /\ t \in whole
  BY <1>1, <1>3, <1>6, WholeFacts DEF Whole
<1>12. /\ tree[u].columns = <<>> /\ tree[u].registry = {} /\ Whole(u) = {u} /\ ColumnSet(u) = {}
  BY DEF ShapeSound, NothingElse, Whole, ColumnSet, ToSet
<1>13. /\ cloned \subseteq Rows /\ \A q \in cloned : row[q].life = "none" /\ q \notin Trees
       /\ \A q \in cloned : \E r \in old : q = f[r]
       /\ \A r \in old : f[r] \in cloned
  BY <1>4, <1>7, TreeAssumption DEF UnusedRows
<1>14. /\ dyed \subseteq Columns /\ \A c \in dyed : column[c].life = "none"
       /\ \A c \in dyed : \E s \in cols : c = g[s]
       /\ \A s \in cols : g[s] \in dyed
  BY <1>5, <1>7 DEF UnusedColumns
<1>15. \A v \in Trees : /\ tree[v].registry \cap cloned = {} /\ Whole(v) \subseteq Collections
                        /\ tree[v].registry \subseteq Rows
                        /\ ColumnSet(v) \cap dyed = {} /\ ColumnSet(v) \subseteq Columns
                        /\ v # u => Whole(v) \cap ({u} \cup cloned) = {}
  <2>1. ASSUME NEW v \in Trees
        PROVE  /\ tree[v].registry \cap cloned = {} /\ Whole(v) \subseteq Collections
               /\ tree[v].registry \subseteq Rows
    BY <1>13, ColumnFacts, WholeFacts
  <2>2. ASSUME NEW v \in Trees PROVE ColumnSet(v) \cap dyed = {} /\ ColumnSet(v) \subseteq Columns
    BY <1>14, ColumnFacts
  <2>3. ASSUME NEW v \in Trees, v # u PROVE Whole(v) \cap ({u} \cup cloned) = {}
    <3>1. u \notin tree[v].registry
      BY <2>1, TreeAssumption
    <3> QED BY <1>13, <2>1, <2>3, <3>1 DEF Whole
  <2> QED BY <2>1, <2>2, <2>3
<1>16. /\ place[t] = u /\ \A r \in old : place[r] = f[r] /\ r \in whole
       /\ {place[d] : d \in whole} = {u} \cup cloned
  <2>1. place[t] = u /\ \A r \in old : place[r] = f[r] /\ r \in whole
    BY <1>7, <1>11
  <2> QED BY <1>4, <1>11, <2>1
<1>17. /\ \A v \in Trees \ {u} : tree'[v] = tree[v]
       /\ tree'[u].made /\ tree'[u].registry = cloned
       /\ tree'[u].columns = Renamed(tree[t].columns, g)
  BY <1>8 DEF TreeTyped
<1>18. /\ Renamed(tree[t].columns, g) \in Seq(Columns)
       /\ Len(Renamed(tree[t].columns, g)) = Len(tree[t].columns)
       /\ ToSet(Renamed(tree[t].columns, g)) = dyed
       /\ IsInjective(Renamed(tree[t].columns, g))
  <2>1. PICK q \in Seq(Columns) : q = tree[t].columns /\ IsInjective(q) /\ ToSet(q) = cols
    BY <1>2, <1>6, ColumnFacts DEF ColumnSet
  <2>2. g \in [cols -> Columns] /\ ToSet(q) \subseteq cols
    BY <1>7, <2>1 DEF UnusedColumns
  <2>3. /\ Renamed(q, g) \in Seq(Columns) /\ Len(Renamed(q, g)) = Len(q)
        /\ \A y : y \in ToSet(Renamed(q, g)) <=> \E x \in ToSet(q) : y = g[x]
        /\ IsInjective(q) /\ (\A x, y \in cols : g[x] = g[y] => x = y)
           => IsInjective(Renamed(q, g))
    BY <2>2, RenamedFacts
  <2>4. ToSet(Renamed(q, g)) = dyed
    BY <1>5, <2>1, <2>3
  <2> QED BY <1>7, <2>1, <2>3, <2>4
<1>19. ASSUME NEW d \in whole
       PROVE  /\ Renamed(rows[d].items, f) \in Seq(Rows)
              /\ \A y : y \in ToSet(Renamed(rows[d].items, f)) <=> \E x \in Kids(d) : y = f[x]
              /\ IsInjective(Renamed(rows[d].items, f))
              /\ Kids(d) \subseteq old
  <2>1. PICK q \in Seq(Rows) : q = rows[d].items /\ IsInjective(q) /\ ToSet(q) \subseteq old
    BY <1>1, <1>3, <1>6, PartFacts DEF Kids
  <2>2. f \in [old -> Rows]
    BY <1>7 DEF UnusedRows
  <2>3. /\ Renamed(q, f) \in Seq(Rows)
        /\ \A y : y \in ToSet(Renamed(q, f)) <=> \E x \in ToSet(q) : y = f[x]
        /\ IsInjective(q) /\ (\A x, y \in old : f[x] = f[y] => x = y)
           => IsInjective(Renamed(q, f))
    BY <2>1, <2>2, RenamedFacts
  <2> QED BY <1>7, <2>1, <2>3 DEF Kids
<1>20. \A d \in whole : /\ place[d] \in Collections /\ place[d] \in {u} \cup cloned
                        /\ rows'[place[d]].items = Renamed(rows[d].items, f)
                        /\ rows'[place[d]].forward = "no"
                        /\ rows'[place[d]] \in RowsType
  <2>1. ASSUME NEW d \in whole
        PROVE  /\ rows'[place[d]].items = Renamed(rows[d].items, f)
               /\ rows'[place[d]].forward = "no" /\ rows'[place[d]] \in RowsType
    <3>1. \A s \in Seq(Rows) : LET y == [items |-> s, forward |-> "no"]
                               IN y.items = s /\ y.forward = "no" /\ y \in RowsType
      BY DEF RowsType
    <3>2. PICK s \in Seq(Rows) : s = Renamed(rows[d].items, f)
      BY <1>19
    <3>3. rows'[place[d]] = [items |-> s, forward |-> "no"]
      BY <1>10, <3>2
    <3> QED BY <3>1, <3>2, <3>3
  <2>2. \A d \in whole : place[d] \in {u} \cup cloned
    BY <1>16
  <2> QED BY <1>6, <1>13, <2>1, <2>2 DEF Collections
<1>21. \A k \in Collections : k # u /\ k \notin cloned => rows'[k] = rows[k]
  BY <1>10, <1>16
<1>22. \A r \in old : /\ row[r] \in RowType /\ row[r].cells = cols /\ Placed(t, r)
                      /\ row[r].collection \in whole
  BY <1>1, <1>2, <1>3, <1>6, <1>11 DEF CellsSound, ShapeSound, RowsPlaced, Placed, TreeTyped, RowType
<1>23. \A r \in old : /\ row'[f[r]].life = "live" /\ row'[f[r]].tree = u
                      /\ row'[f[r]].depth = row[r].depth
                      /\ row'[f[r]].collection = place[row[r].collection]
                      /\ row'[f[r]].cells = dyed /\ row'[f[r]] \in RowType
  <2>1. \A depth, collection, cells :
           LET y == [life |-> "live", tree |-> u, depth |-> depth, collection |-> collection,
                     cells |-> cells]
           IN /\ y.life = "live" /\ y.tree = u /\ y.depth = depth /\ y.collection = collection
              /\ y.cells = cells
              /\ depth \in Nat /\ collection \in Collections /\ cells \subseteq Columns
                 => y \in RowType
    BY DEF RowType
  <2>2. ASSUME NEW r \in old
        PROVE  /\ row'[f[r]].life = "live" /\ row'[f[r]].tree = u
               /\ row'[f[r]].depth = row[r].depth
               /\ row'[f[r]].collection = place[row[r].collection]
               /\ row'[f[r]].cells = dyed /\ row'[f[r]] \in RowType
    <3>1. {g[c] : c \in row[r].cells} = dyed
      BY <1>5, <1>22
    <3>2. row'[f[r]] = [life |-> "live", tree |-> u, depth |-> row[r].depth,
                        collection |-> place[row[r].collection], cells |-> dyed]
      BY <1>9, <3>1
    <3>3. row[r].depth \in Nat /\ place[row[r].collection] \in Collections /\ dyed \subseteq Columns
      BY <1>14, <1>20, <1>22 DEF RowType
    <3> QED BY <2>1, <3>2, <3>3
  <2> QED BY <2>2
<1>24. /\ row \in [Rows -> RowType] /\ rows \in [Collections -> RowsType]
       /\ column \in [Columns -> ColumnType]
       /\ tree \in [Trees -> [made : BOOLEAN, columns : Seq(Columns), registry : SUBSET Rows]]
  BY DEF TreeTyped
<1>25. TreeTyped'
  <2>1. row' \in [Rows -> RowType]
    <3>1. ASSUME NEW q \in Rows PROVE row'[q] \in RowType
      <4>1. CASE q \in cloned
        <5>1. PICK r \in old : q = f[r]
          BY <1>13, <4>1
        <5> QED BY <1>23, <5>1
      <4>2. CASE q \notin cloned
        <5>1. row'[q] = row[q]
          BY <1>9, <4>2
        <5> QED BY <1>24, <5>1
      <4> QED BY <4>1, <4>2
    <3> QED BY <1>9, <3>1
  <2>2. rows' \in [Collections -> RowsType]
    <3>1. ASSUME NEW k \in Collections PROVE rows'[k] \in RowsType
      <4>1. CASE k \in {u} \cup cloned
        <5>1. PICK d \in whole : k = place[d]
          BY <1>16, <4>1
        <5> QED BY <1>20, <5>1
      <4>2. CASE k \notin {u} \cup cloned
        <5>1. rows'[k] = rows[k]
          BY <1>21, <4>2
        <5> QED BY <1>24, <5>1
      <4> QED BY <4>1, <4>2
    <3> QED BY <1>10, <3>1
  <2>3. column' \in [Columns -> ColumnType]
    <3>1. ASSUME NEW c \in Columns PROVE column'[c] \in ColumnType
      <4>1. [table |-> u, life |-> "active"] \in ColumnType
        BY DEF ColumnType
      <4>2. CASE c \in dyed
        <5>1. PICK s \in cols : c = g[s]
          BY <1>14, <4>2
        <5>2. column'[c] = [table |-> u, life |-> "active"]
          BY <1>8, <5>1
        <5> QED BY <4>1, <5>2
      <4>3. CASE c \notin dyed
        <5>1. column'[c] = column[c]
          BY <1>8, <4>3
        <5> QED BY <1>24, <5>1
      <4> QED BY <4>2, <4>3
    <3> QED BY <1>8, <3>1
  <2>4. tree' \in [Trees -> [made : BOOLEAN, columns : Seq(Columns), registry : SUBSET Rows]]
    BY <1>8, <1>13, <1>18, <1>24
  <2> QED BY <2>1, <2>2, <2>3, <2>4 DEF TreeTyped
<1>26. ColumnSet(u)' = dyed /\ \A v \in Trees \ {u} : ColumnSet(v)' = ColumnSet(v)
  BY <1>17, <1>18 DEF ColumnSet
<1>27. ColumnsSound'
  <2>1. ASSUME NEW v \in Trees PROVE IsInjective(tree'[v].columns)
    BY <1>17, <1>18 DEF ColumnsSound
  <2>2. ASSUME NEW v \in Trees, NEW c \in ColumnSet(v)'
        PROVE  column'[c] = [table |-> v, life |-> "active"]
    <3>1. CASE v = u
      BY <1>8, <1>14, <1>26, <2>2, <3>1
    <3>2. CASE v # u
      <4>1. c \in ColumnSet(v) /\ c \in Columns \ dyed
        BY <1>15, <1>26, <2>2, <3>2
      <4> QED BY <1>8, <4>1 DEF ColumnsSound
    <3> QED BY <3>1, <3>2
  <2>3. ASSUME NEW c \in Columns, column'[c].life = "active"
        PROVE  \E v \in Trees : column'[c].table = v /\ c \in ToSet(tree'[v].columns)
    <3>1. CASE c \in dyed
      BY <1>8, <1>14, <1>17, <1>18, <3>1
    <3>2. CASE c \notin dyed
      <4>1. column[c].table \in Trees /\ c \in ColumnSet(column[c].table)
            /\ column'[c] = column[c]
        BY <1>8, <2>3, <3>2 DEF ColumnsSound
      <4>2. column[c].table # u
        BY <1>12, <4>1
      <4> QED BY <1>17, <4>1, <4>2 DEF ColumnSet
    <3> QED BY <3>1, <3>2
  <2> QED BY <2>1, <2>2, <2>3 DEF ColumnsSound, ColumnSet
<1>28. CellsSound'
  <2>1. ASSUME NEW v \in Trees, NEW q \in tree'[v].registry PROVE row'[q].cells = ColumnSet(v)'
    <3>1. CASE v = u
      BY <1>13, <1>17, <1>23, <1>26, <2>1, <3>1
    <3>2. CASE v # u
      <4>1. q \in tree[v].registry /\ q \in Rows \ cloned
        BY <1>15, <1>17, <2>1, <3>2
      <4> QED BY <1>9, <1>26, <3>2, <4>1 DEF CellsSound
    <3> QED BY <3>1, <3>2
  <2>2. ASSUME NEW q \in Rows, row'[q].life = "deleted" PROVE row'[q].cells = {}
    <3>1. q \notin cloned
      BY <1>13, <1>23, <2>2
    <3> QED BY <1>9, <2>2, <3>1 DEF CellsSound
  <2> QED BY <2>1, <2>2 DEF CellsSound
<1>29. /\ Whole(u)' = {u} \cup cloned /\ \A v \in Trees \ {u} : Whole(v)' = Whole(v)
       /\ \A e \in Whole(u)' : \E d \in whole : e = place[d]
  <2>1. Whole(u)' = {u} \cup cloned /\ \A v \in Trees \ {u} : Whole(v)' = Whole(v)
    BY <1>17 DEF Whole
  <2> QED BY <1>16, <2>1
<1>30. ASSUME NEW d \in whole, NEW e \in Collections, e = place[d]
       PROVE  /\ \A y : y \in Kids(e)' <=> \E x \in Kids(d) : y = f[x]
              /\ DepthIn(e)' = DepthIn(d)
  <2>1. \A y : y \in Kids(e)' <=> \E x \in Kids(d) : y = f[x]
    BY <1>19, <1>20, <1>30 DEF Kids
  <2>2. CASE d = t
    BY <1>6, <1>16, <1>30, <2>1, <2>2 DEF DepthIn
  <2>3. CASE d # t
    <3>1. d \in old /\ e = f[d] /\ e \in cloned /\ d \in Rows
      BY <1>11, <1>13, <1>16, <1>30, <2>3
    <3>2. d \notin Trees /\ e \notin Trees
      BY <1>13, <3>1, TreeAssumption
    <3> QED BY <1>23, <2>1, <3>1, <3>2 DEF DepthIn
  <2> QED BY <2>1, <2>2, <2>3
<1>31. ASSUME NEW v \in Trees, v # u, NEW d \in Whole(v)
       PROVE  rows'[d] = rows[d] /\ Kids(d)' = Kids(d) /\ DepthIn(d)' = DepthIn(d)
  <2>1. d \in Collections /\ d # u /\ d \notin cloned
    BY <1>15, <1>31
  <2>2. rows'[d] = rows[d]
    BY <1>21, <2>1
  <2>3. DepthIn(d)' = DepthIn(d)
    BY <1>9, <2>1 DEF DepthIn, Collections
  <2> QED BY <2>2, <2>3 DEF Kids
<1>32. RowsPlaced'
  <2>1. ASSUME NEW q \in cloned PROVE Placed(u, q)'
    <3>1. PICK r \in old : q = f[r]
      BY <1>13
    <3>2. PICK d \in whole : d = row[r].collection
      BY <1>22
    <3>3. PICK e \in Collections : e = place[d] /\ e \in Whole(u)'
      BY <1>20, <1>29
    <3>4. r \in Kids(d) /\ row[r].depth = DepthIn(d) /\ row[r].depth <= MaxDepth
      BY <1>22, <3>2 DEF Placed
    <3>5. q \in Kids(e)' /\ DepthIn(e)' = DepthIn(d)
      BY <1>30, <3>1, <3>3, <3>4
    <3>6. row'[q].life = "live" /\ row'[q].tree = u /\ row'[q].depth = row[r].depth
          /\ row'[q].collection = e
      BY <1>23, <3>1, <3>2, <3>3
    <3> QED BY <3>3, <3>4, <3>5, <3>6 DEF Placed
  <2>2. ASSUME NEW v \in Trees, v # u, NEW q \in tree[v].registry PROVE Placed(v, q)'
    <3>1. Placed(v, q) /\ q \in Rows \ cloned /\ row'[q] = row[q]
      BY <1>9, <1>15 DEF ShapeSound, RowsPlaced
    <3>2. PICK d \in Whole(v) : d = row[q].collection
      BY <3>1 DEF Placed
    <3>3. d \in Whole(v)' /\ q \in Kids(d)' /\ DepthIn(d)' = DepthIn(d)
      BY <1>29, <1>31, <2>2, <3>1, <3>2 DEF Placed
    <3> QED BY <3>1, <3>2, <3>3 DEF Placed
  <2>3. ASSUME NEW v \in Trees, NEW q \in tree'[v].registry PROVE Placed(v, q)'
    <3>1. CASE v = u
      BY <1>17, <2>1, <2>3, <3>1
    <3>2. CASE v # u
      BY <1>17, <2>2, <2>3, <3>2
    <3> QED BY <3>1, <3>2
  <2>4. ASSUME NEW q \in Rows, row'[q].life = "live"
        PROVE  \E v \in Trees : row'[q].tree = v /\ q \in tree'[v].registry
    <3>1. CASE q \in cloned
      BY <1>13, <1>17, <1>23, <3>1
    <3>2. CASE q \notin cloned
      <4>1. row'[q] = row[q] /\ row[q].tree \in Trees /\ q \in tree[row[q].tree].registry
        BY <1>9, <2>4, <3>2 DEF ShapeSound, RowsPlaced
      <4>2. row[q].tree # u
        BY <1>12, <4>1
      <4> QED BY <1>17, <4>1, <4>2
    <3> QED BY <3>1, <3>2
  <2> QED BY <2>3, <2>4 DEF RowsPlaced
<1>33. CollectionsSound'
  <2>1. ASSUME NEW e \in Whole(u)' PROVE Holds(u, e)'
    <3>1. PICK d \in whole : e = place[d]
      BY <1>29
    <3>2. e \in Collections /\ rows'[e].forward = "no" /\ IsInjective(rows'[e].items)
      BY <1>19, <1>20, <3>1
    <3>3. \A y : y \in Kids(e)' <=> \E x \in Kids(d) : y = f[x]
      BY <1>30, <3>1, <3>2
    <3>4. Kids(d) \subseteq old /\ \A x \in Kids(d) : row[x].collection = d
      BY <1>3, <1>6, <1>19, WholeFacts
    <3>5. Kids(e)' \subseteq tree'[u].registry
      BY <1>13, <1>17, <3>3, <3>4
    <3>6. \A y \in Kids(e)' : row'[y].collection = e
      BY <1>23, <3>1, <3>3, <3>4
    <3> QED BY <3>2, <3>5, <3>6 DEF Holds
  <2>2. ASSUME NEW v \in Trees, v # u, NEW d \in Whole(v) PROVE Holds(v, d)'
    <3>1. Holds(v, d) /\ tree'[v].registry = tree[v].registry
      BY <1>17, <2>2 DEF ShapeSound, CollectionsSound
    <3>2. rows'[d] = rows[d] /\ Kids(d)' = Kids(d)
      BY <1>31, <2>2
    <3>3. \A q \in Kids(d) : row'[q] = row[q]
      BY <1>9, <1>15, <3>1 DEF Holds
    <3> QED BY <3>1, <3>2, <3>3 DEF Holds
  <2>3. ASSUME NEW v \in Trees, NEW d \in Whole(v)' PROVE Holds(v, d)'
    <3>1. CASE v = u
      <4>1. d \in Whole(u)'
        BY <2>3, <3>1
      <4>2. Holds(u, d)'
        BY <2>1, <4>1
      <4> QED BY <3>1, <4>2
    <3>2. CASE v # u
      BY <1>29, <2>2, <2>3, <3>2
    <3> QED BY <3>1, <3>2
  <2> QED BY <2>3 DEF CollectionsSound
<1>34. Made \subseteq Made' /\ u \in Made'
  BY <1>17 DEF Made
<1>35. \A q \in Rows : q \notin cloned => row'[q] = row[q] /\ rows'[q] = rows[q]
  BY <1>9, <1>21, TreeAssumption DEF Collections
<1>36. NothingElse'
  <2>1. ASSUME NEW q \in Rows, row'[q].life = "none" PROVE rows'[q] = EmptyCollection
    <3>1. q \notin cloned
      BY <1>13, <1>23, <2>1
    <3> QED BY <1>35, <2>1, <3>1 DEF ShapeSound, NothingElse
  <2>2. ASSUME NEW q \in Rows, row'[q].life = "deleted"
        PROVE  rows'[q].items = <<>> /\ row'[q].tree \in Made'
    <3>1. q \notin cloned
      BY <1>13, <1>23, <2>2
    <3> QED BY <1>34, <1>35, <2>2, <3>1 DEF ShapeSound, NothingElse
  <2>3. ASSUME NEW v \in Trees, v \notin Made'
        PROVE  tree'[v].columns = <<>> /\ tree'[v].registry = {}
    BY <1>17, <1>34, <2>3 DEF ShapeSound, NothingElse
  <2> QED BY <2>1, <2>2, <2>3 DEF NothingElse
<1>37. BudgetKept'
  <2>1. /\ Len(tree[t].columns) \in Nat /\ IsFiniteSet(old) /\ Cardinality(old) \in Nat
    BY <1>1, <1>6, Counted
  <2>2. f \in Surjection(old, cloned)
    BY <1>7, <1>13 DEF Surjection
  <2>3. IsFiniteSet(cloned) /\ Cardinality(cloned) <= Cardinality(old)
    BY <2>1, <2>2, FS_Surjection
  <2>4. Cardinality(cloned) \in Nat
    BY <2>3, FS_CardinalityType
  <2>5. WithinBudget(Cardinality(old), Len(tree[t].columns))
    BY <1>1, <1>6 DEF BudgetKept
  <2>6. WithinBudget(Cardinality(cloned), Len(tree[t].columns))
    <3> HIDE DEF TreeInv
    <3> QED BY <2>1, <2>3, <2>4, <2>5, FewerWithinBudget
  <2>7. WithinBudget(Cardinality(tree'[u].registry), Len(tree'[u].columns))
    BY <1>17, <1>18, <2>6
  <2> QED BY <1>17, <2>7 DEF BudgetKept, WithinBudget
<1>38. Remains
  <2>1. \A q \in Rows : row[q].life = "deleted" => q \notin cloned
    BY <1>13
  <2>2. \A c \in Columns : column[c].life \in {"deleted", "reset"} => c \notin dyed
    BY <1>14
  <2> QED BY <1>8, <1>35, <2>1, <2>2 DEF Remains
<1> QED BY <1>25, <1>27, <1>28, <1>32, <1>33, <1>36, <1>37, <1>38 DEF ShapeSound

(* Copy of a tree. *)
LEMMA CopyInv ==
    ASSUME TreeInv, NEW t \in Trees, NEW u \in Trees, Copy(t, u)
    PROVE  TreeInv' /\ Remains
<1>1. t \in Made /\ u \notin Made
  BY CopyIsCopies
<1>2. PICK f, g, place : Copies(t, u, f, g, place)
  BY CopyIsCopies
<1> QED BY <1>1, <1>2, CopiesInv

-----------------------------------------------------------------------------
(* The theorems. *)

(* The invariant has every row and column in its tree or gone. *)
LEMMA InvInTheTreeOrGone == TreeInv => InTheTreeOrGone
BY DEF TreeInv, ColumnsSound, CellsSound, ShapeSound, RowsPlaced, NothingElse, InTheTreeOrGone

(* No call breaks the invariant, and none brings back what was removed. *)
LEMMA TreeCall ==
    ASSUME TreeInv, TreeNext
    PROVE  TreeInv' /\ Remains
<1>1. CASE \E t \in Trees, c \in Columns : DeleteColumn(t, c)
  BY <1>1, DeleteColumnInv
<1>2. CASE \E t \in Trees, c \in Columns, named \in BOOLEAN : DeleteColumnLinux(t, c, named)
  BY <1>2, DeleteColumnLinuxInv
<1>3. CASE \E t \in Trees : InsertColumn(t)
  BY <1>3, InsertColumnInv
<1>4. CASE \E t \in Trees : MoveColumn(t)
  BY <1>4, MoveColumnInv
<1>5. CASE \E t \in Trees, linux \in BOOLEAN : ClearColumns(t, linux)
  BY <1>5, ClearColumnsInv
<1>6. CASE \E k \in Collections, linux \in BOOLEAN, operation \in {"add", "insert"} :
              InsertRow(k, operation, linux)
  BY <1>6, InsertRowInv
<1>7. CASE \E k \in Collections : MoveRow(k)
  BY <1>7, MoveRowInv
<1>8. CASE \E k \in Collections, recursive \in BOOLEAN : SortRows(k, recursive)
  BY <1>8, SortRowsInv
<1>9. CASE \E k \in Collections, r \in Rows : DeleteRow(k, r)
  BY <1>9, DeleteRowInv
<1>10. CASE \E k \in Collections, linux \in BOOLEAN : ClearRows(k, linux)
  BY <1>10, ClearRowsInv
<1>11. CASE \E t, u \in Trees : Copy(t, u)
  BY <1>11, CopyInv
<1> QED BY <1>1, <1>2, <1>3, <1>4, <1>5, <1>6, <1>7, <1>8, <1>9, <1>10, <1>11 DEF TreeNext

(* A step that changes nothing keeps the invariant. *)
LEMMA TreeStutter == TreeInv /\ UNCHANGED treeVars => TreeInv'
<1> SUFFICES ASSUME TreeInv, UNCHANGED treeVars PROVE TreeInv'
  OBVIOUS
<1> USE DEF treeVars, TreeInv, ColumnSet, Made, Kids, Whole, DepthIn
<1>1. TreeTyped' /\ ColumnsSound' /\ CellsSound' /\ BudgetKept'
  BY DEF TreeTyped, ColumnsSound, CellsSound, BudgetKept
<1>2. RowsPlaced' /\ CollectionsSound' /\ NothingElse'
  BY DEF ShapeSound, RowsPlaced, Placed, CollectionsSound, Holds, NothingElse
<1> QED BY <1>1, <1>2 DEF ShapeSound

(* The invariant of the trees: registry, collections, rows, cells and columns *)
(* agree after every sequence of calls.                                     *)
THEOREM TreeInvariant == TreeSpec => []TreeInv
<1>1. TreeInit => TreeInv
  BY TreeInitInv
<1>2. TreeInv /\ [TreeNext]_treeVars => TreeInv'
  BY TreeCall, TreeStutter
<1> QED BY <1>1, <1>2, PTL DEF TreeSpec

(* No sequence of calls leaves a tree that the preflight of Clear, Delete and *)
(* Copy would refuse.                                                       *)
THEOREM TreesNeverCorrupt == TreeSpec => []NeverCorrupt
BY TreeInvariant, InvNeverCorrupt, PTL

(* What was removed from a tree stays removed, and nothing else is lost. *)
THEOREM RemovedStaysRemoved == TreeSpec => RemovedForGood
<1>1. TreeInv /\ TreeInv' /\ [TreeNext]_treeVars
      => [/\ InTheTreeOrGone'
          /\ \A r \in Rows : row[r].life = "deleted" => row'[r] = row[r] /\ rows'[r] = rows[r]
          /\ \A c \in Columns : column[c].life \in {"deleted", "reset"} => column'[c] = column[c]
         ]_treeVars
  <2>1. ASSUME TreeInv, TreeInv', TreeNext PROVE InTheTreeOrGone' /\ Remains
    <3>1. InTheTreeOrGone'
      BY <2>1, InvInTheTreeOrGone, PTL
    <3>2. Remains
      BY <2>1, TreeCall
    <3> QED BY <3>1, <3>2
  <2> QED BY <2>1 DEF Remains
<1> QED BY <1>1, TreeInvariant, PTL DEF TreeSpec, RemovedForGood
=============================================================================
