---------------------------- MODULE FoldLemmas ----------------------------
(***************************************************************************)
(* Induction, and what follows from it about sums and folds.               *)
(*                                                                         *)
(* The induction theorems of the library take an operator as a parameter,  *)
(* which the provers cannot instantiate.  Here induction is by a least     *)
(* counterexample, which is a set: a nonempty set of subsets of a finite   *)
(* set has a minimal member, so a nonempty set of numbers has a smallest.  *)
(***************************************************************************)
EXTENDS Integers, FiniteSetTheorems, Functions, TLAPS

HasMinimal(T) == \E x \in T : \A y \in T : y \subseteq x => y = x

LEMMA Minimal ==
  ASSUME NEW S, IsFiniteSet(S), NEW T, T # {}, T \subseteq SUBSET S
  PROVE  HasMinimal(T)
<1> DEFINE R == StrictSubsetOrdering(S)
<1>1. IsWellFoundedOn(R, SUBSET S)
  BY FS_StrictSubsetOrderingWellFounded, FS_FiniteSubsetsOfFinite
<1> HIDE DEF R
<1>2. PICK x \in T : \A y \in T : ~ (<<y, x>> \in R)
  BY <1>1, WFMin
<1>3. ASSUME NEW y \in T, y \subseteq x PROVE y = x
  BY <1>2, <1>3 DEF R, StrictSubsetOrdering
<1>4. QED
  BY <1>2, <1>3 DEF HasMinimal

LEMMA Smallest ==
  ASSUME NEW T \in SUBSET Nat, T # {}
  PROVE  \E n \in T : \A m \in T : n <= m
<1>1. PICK k \in T : TRUE
  OBVIOUS
<1> DEFINE U == {i \in SUBSET (1..k) : \E m \in T : m <= k /\ i = 1..m}
<1>2. IsFiniteSet(1..k)
  BY FS_Interval
<1>3. 1..k \in U /\ U \subseteq SUBSET (1..k)
  OBVIOUS
<1>4. \A i \in U : \E m \in T : m <= k /\ i = 1..m
  OBVIOUS
<1>5. \A m \in T : m <= k => 1..m \in U
  OBVIOUS
<1> HIDE DEF U
<1>6. PICK x \in U : \A y \in U : y \subseteq x => y = x
  <2>1. U # {}
    BY <1>3
  <2>2. HasMinimal(U)
    BY <1>2, <1>3, <2>1, Minimal
  <2>3. QED
    BY <2>2 DEF HasMinimal
<1>7. PICK n \in T : n <= k /\ x = 1..n
  BY <1>4
<1>8. ASSUME NEW m \in T, m < n PROVE FALSE
  <2>1. 1..m \in U /\ 1..m \subseteq x
    BY <1>5, <1>7, <1>8
  <2>2. n \in 1..n /\ n \notin 1..m
    BY <1>8
  <2>3. QED
    BY <1>6, <1>7, <2>1, <2>2
<1>9. QED
  BY <1>8

LEMMA Induct ==
  ASSUME NEW T \in SUBSET Nat, 0 \in T, \A n \in T : n + 1 \in T
  PROVE  T = Nat
<1>1. SUFFICES ASSUME Nat \ T # {} PROVE FALSE
  OBVIOUS
<1>2. PICK n \in Nat \ T : \A m \in Nat \ T : n <= m
  BY <1>1, Smallest
<1>3. n # 0 /\ n \in Nat
  BY <1>2
<1>4. n - 1 \in Nat /\ n - 1 \in T
  BY <1>2, <1>3
<1>5. (n - 1) + 1 \in T
  BY <1>4
<1>6. QED
  BY <1>5, <1>3, <1>2

LEMMA OneLess ==
  ASSUME NEW S, IsFiniteSet(S), NEW x \in S
  PROVE  /\ Cardinality(S) \in Nat /\ Cardinality(S \ {x}) \in Nat
         /\ Cardinality(S \ {x}) = Cardinality(S) - 1
<1>1. IsFiniteSet(S \ {x}) /\ Cardinality(S \ {x}) = Cardinality(S) - 1
  BY FS_RemoveElement
<1>2. \A R : IsFiniteSet(R) => Cardinality(R) \in Nat
  BY FS_CardinalityType
<1>3. QED
  BY <1>1, <1>2

LEMMA FewerLess ==
  ASSUME NEW S, IsFiniteSet(S), NEW R \in SUBSET S
  PROVE  Cardinality(R) <= Cardinality(S) /\ Cardinality(R) \in Nat
<1>1. IsFiniteSet(R) /\ Cardinality(R) <= Cardinality(S)
  BY FS_Subset
<1>2. Cardinality(R) \in Nat
  BY <1>1, FS_CardinalityType
<1>3. QED
  BY <1>1, <1>2

LEMMA OneMore ==
  ASSUME NEW S, IsFiniteSet(S), NEW x
  PROVE  /\ IsFiniteSet(S \cup {x}) /\ Cardinality(S) \in Nat
         /\ Cardinality(S \cup {x}) = IF x \in S THEN Cardinality(S) ELSE Cardinality(S) + 1
<1>1. IsFiniteSet(S \cup {x})
  BY FS_AddElement
<1>2. \A R : IsFiniteSet(R) => Cardinality(R) \in Nat
  BY FS_CardinalityType
<1>3. Cardinality(S \cup {x}) = IF x \in S THEN Cardinality(S) ELSE Cardinality(S) + 1
  BY FS_AddElement
<1>4. QED
  BY <1>1, <1>2, <1>3

(* A function on the subsets of a finite set may be defined by what it is  *)
(* on the empty set and, for any other, by one chosen member and its value *)
(* without that member.                                                    *)
ChoiceOn(S, chosen) == \A s \in (SUBSET S) \ {{}} : chosen[s] \in s

Recursive(S, base, chosen, step, h) ==
  \A s \in SUBSET S :
    h[s] = IF s = {} THEN base ELSE step[<<chosen[s], h[s \ {chosen[s]}]>>]

LEMMA RecursionExists ==
  ASSUME NEW S, IsFiniteSet(S), NEW A, NEW base \in A,
         NEW chosen, ChoiceOn(S, chosen),
         NEW step \in [S \X A -> A]
  PROVE  \E h \in [SUBSET S -> A] : Recursive(S, base, chosen, step, h)
<1> DEFINE Value(h, s) == IF s = {} THEN base ELSE step[<<chosen[s], h[s \ {chosen[s]}]>>]
           Upto(n, h) == \A s \in SUBSET S : Cardinality(s) <= n => h[s] = Value(h, s)
           T == {n \in Nat : \E h \in [SUBSET S -> A] : Upto(n, h)}
<1>1. \A s \in SUBSET S : IsFiniteSet(s) /\ Cardinality(s) \in Nat
  BY FS_Subset, FS_CardinalityType
<1>2. \A s \in (SUBSET S) \ {{}} :
        /\ s \ {chosen[s]} \in SUBSET S
        /\ Cardinality(s \ {chosen[s]}) = Cardinality(s) - 1
  BY <1>1, FS_RemoveElement DEF ChoiceOn
<1>3. \A h \in [SUBSET S -> A], s \in SUBSET S : Value(h, s) \in A
  BY DEF ChoiceOn
<1>4. 0 \in T
  <2>1. [s \in SUBSET S |-> base] \in [SUBSET S -> A]
    OBVIOUS
  <2>2. \A s \in SUBSET S : Cardinality(s) <= 0 => s = {}
    BY <1>1, FS_EmptySet
  <2>3. Upto(0, [s \in SUBSET S |-> base])
    BY <2>2
  <2>4. QED
    BY <2>1, <2>3
<1>5. ASSUME NEW n \in T PROVE n + 1 \in T
  <2>1. PICK h \in [SUBSET S -> A] : Upto(n, h)
    OBVIOUS
  <2> DEFINE g == [s \in SUBSET S |-> IF Cardinality(s) <= n THEN h[s] ELSE Value(h, s)]
  <2>2. g \in [SUBSET S -> A]
    BY <1>3
  <2>3. ASSUME NEW s \in SUBSET S, Cardinality(s) <= n + 1
        PROVE  g[s] = Value(g, s)
    <3>1. g[s] = Value(h, s)
      BY <2>1
    <3>2. CASE s = {}
      BY <3>1, <3>2
    <3>3. CASE s # {}
      <4>1. s \ {chosen[s]} \in SUBSET S /\ Cardinality(s \ {chosen[s]}) <= n
        BY <1>1, <1>2, <2>3, <3>3
      <4>2. g[s \ {chosen[s]}] = h[s \ {chosen[s]}]
        BY <4>1
      <4>3. QED
        BY <3>1, <3>3, <4>2
    <3>4. QED
      BY <3>2, <3>3
  <2> HIDE DEF g, Value
  <2>4. Upto(n + 1, g)
    BY <2>3
  <2>5. QED
    BY <2>2, <2>4
<1> HIDE DEF T
<1>6. T = Nat
  <2>1. T \in SUBSET Nat
    BY DEF T
  <2>2. QED
    BY <1>4, <1>5, <2>1, Induct
<1>7. Cardinality(S) \in T
  BY <1>1, <1>6
<1>8. PICK h \in [SUBSET S -> A] : Upto(Cardinality(S), h)
  BY <1>7 DEF T
<1>9. \A s \in SUBSET S : Cardinality(s) <= Cardinality(S)
  BY FS_Subset
<1>10. QED
  BY <1>8, <1>9 DEF Recursive

----------------------------------------------------------------------------
(* Sums                                                                    *)

LEMMA SumUnfolded ==
  ASSUME NEW fun, NEW S
  PROVE  SumFunctionOnSet(fun, S) =
           (CHOOSE iter : iter = [s \in SUBSET S |->
              IF s = {} THEN 0
              ELSE fun[CHOOSE x \in s : TRUE] + iter[s \ {CHOOSE x \in s : TRUE}]])[S]
  BY DEF SumFunctionOnSet, FoldFunctionOnSet, MapThenFoldSet

(* A function of the sets within S that is defined by that recursion.      *)
SumsOn(fun, S, h) ==
  h = [s \in SUBSET S |->
         IF s = {} THEN 0
         ELSE fun[CHOOSE x \in s : TRUE] + h[s \ {CHOOSE x \in s : TRUE}]]

LEMMA SumsExist ==
  ASSUME NEW S, IsFiniteSet(S), NEW fun, \A x \in S : fun[x] \in Int
  PROVE  \E h \in [SUBSET S -> Int] : SumsOn(fun, S, h)
<1> DEFINE chosen == [s \in (SUBSET S) \ {{}} |-> CHOOSE x \in s : TRUE]
           step == [p \in S \X Int |-> fun[p[1]] + p[2]]
<1>1. \A s \in (SUBSET S) \ {{}} : chosen[s] \in s /\ chosen[s] = CHOOSE x \in s : TRUE
  OBVIOUS
<1>2. step \in [S \X Int -> Int]
  OBVIOUS
<1>3. \A x \in S, n \in Int : step[<<x, n>>] = fun[x] + n
  OBVIOUS
<1> HIDE DEF chosen, step
<1>4. PICK h \in [SUBSET S -> Int] : Recursive(S, 0, chosen, step, h)
  <2>1. 0 \in Int /\ ChoiceOn(S, chosen)
    BY <1>1 DEF ChoiceOn
  <2>2. QED
    BY <1>2, <2>1, RecursionExists
<1>5. ASSUME NEW s \in SUBSET S
      PROVE  h[s] = IF s = {} THEN 0
                    ELSE fun[CHOOSE x \in s : TRUE] + h[s \ {CHOOSE x \in s : TRUE}]
  <2>1. CASE s = {}
    BY <1>4, <2>1 DEF Recursive
  <2>2. CASE s # {}
    <3>1. chosen[s] \in S /\ h[s \ {chosen[s]}] \in Int
      BY <1>1, <2>2
    <3>2. h[s] = fun[chosen[s]] + h[s \ {chosen[s]}]
      BY <1>3, <1>4, <2>2, <3>1 DEF Recursive
    <3>3. QED
      BY <1>1, <2>2, <3>2
  <2>3. QED
    BY <2>1, <2>2
<1>6. SumsOn(fun, S, h)
  BY <1>5 DEF SumsOn
<1>7. QED
  BY <1>6

LEMMA SumsAgree ==
  ASSUME NEW S, IsFiniteSet(S), NEW R \in SUBSET S, NEW fun, NEW h, NEW g,
         SumsOn(fun, S, h), SumsOn(fun, R, g)
  PROVE  \A s \in SUBSET R : g[s] = h[s]
<1> DEFINE T == {s \in SUBSET R : g[s] # h[s]}
<1>1. SUFFICES ASSUME T # {} PROVE FALSE
  OBVIOUS
<1>2. IsFiniteSet(R)
  BY FS_Subset
<1>3. PICK s \in T : \A r \in T : r \subseteq s => r = s
  <2>1. T \subseteq SUBSET R
    OBVIOUS
  <2> HIDE DEF T
  <2>2. HasMinimal(T)
    BY <1>1, <1>2, <2>1, Minimal
  <2>3. QED
    BY <2>2 DEF HasMinimal
<1> DEFINE x == CHOOSE y \in s : TRUE
<1>4. s # {}
  <2>1. g[{}] = 0 /\ h[{}] = 0
    BY DEF SumsOn
  <2>2. QED
    BY <2>1
<1>5. x \in s
  BY <1>4
<1>6. g[s] = fun[x] + g[s \ {x}] /\ h[s] = fun[x] + h[s \ {x}]
  BY <1>4 DEF SumsOn
<1> HIDE DEF x
<1>7. s \ {x} \in SUBSET R /\ s \ {x} \subseteq s /\ s \ {x} # s
  BY <1>5
<1>8. g[s \ {x}] = h[s \ {x}]
  BY <1>3, <1>7
<1>9. QED
  BY <1>3, <1>6, <1>8

(* The recursion of the sum, at its first step.                            *)
LEMMA SumStep ==
  ASSUME NEW S, IsFiniteSet(S), NEW fun, \A x \in S : fun[x] \in Int
  PROVE  /\ SumFunctionOnSet(fun, S) \in Int
         /\ SumFunctionOnSet(fun, {}) = 0
         /\ S # {} => LET x == CHOOSE x \in S : TRUE
                      IN SumFunctionOnSet(fun, S) = fun[x] + SumFunctionOnSet(fun, S \ {x})
<1> DEFINE Sums(R) == CHOOSE h : SumsOn(fun, R, h)
<1>1. \A R : SumFunctionOnSet(fun, R) = Sums(R)[R]
  BY SumUnfolded DEF SumsOn
<1>2. ASSUME NEW R \in SUBSET S
      PROVE  SumsOn(fun, R, Sums(R)) /\ IsFiniteSet(R)
  <2>1. IsFiniteSet(R) /\ \A x \in R : fun[x] \in Int
    BY FS_Subset
  <2>2. \E h : SumsOn(fun, R, h)
    BY <2>1, SumsExist
  <2>3. QED
    BY <2>1, <2>2
<1> HIDE DEF Sums
<1>3. \A R \in SUBSET S : Sums(R)[R] = Sums(S)[R]
  BY <1>2, SumsAgree
<1>4. Sums(S)[S] \in Int
  <2>1. PICK h \in [SUBSET S -> Int] : SumsOn(fun, S, h)
    BY SumsExist
  <2>2. SumsOn(fun, S, Sums(S)) /\ S \in SUBSET S
    BY <1>2
  <2>3. \A s \in SUBSET S : Sums(S)[s] = h[s]
    BY <2>1, <2>2, SumsAgree
  <2>4. QED
    BY <2>1, <2>3
<1>5. Sums(S)[{}] = 0
  BY <1>2 DEF SumsOn
<1>6. ASSUME S # {}
      PROVE  LET x == CHOOSE x \in S : TRUE
             IN Sums(S)[S] = fun[x] + Sums(S)[S \ {x}]
  BY <1>2, <1>6 DEF SumsOn
<1>7. QED
  BY <1>1, <1>3, <1>4, <1>5, <1>6

LEMMA SumEmpty ==
  ASSUME NEW fun
  PROVE  SumFunctionOnSet(fun, {}) = 0
  BY SumStep, FS_EmptySet

(* Any member may be the one that is taken out.                            *)
LEMMA SumSplit ==
  ASSUME NEW S, IsFiniteSet(S), NEW fun, \A x \in S : fun[x] \in Int, NEW y \in S
  PROVE  SumFunctionOnSet(fun, S) = fun[y] + SumFunctionOnSet(fun, S \ {y})
<1> DEFINE Sum(R) == SumFunctionOnSet(fun, R)
           Splits(R) == \A z \in R : Sum(R) = fun[z] + Sum(R \ {z})
           T == {R \in SUBSET S : ~ Splits(R)}
<1>1. SUFFICES ASSUME T # {} PROVE FALSE
  BY DEF T
<1>2. ASSUME NEW R \in SUBSET S
      PROVE  /\ Sum(R) \in Int
             /\ R # {} => \E x \in R : Sum(R) = fun[x] + Sum(R \ {x})
  <2>1. IsFiniteSet(R) /\ \A x \in R : fun[x] \in Int
    BY FS_Subset
  <2>2. Sum(R) \in Int
    BY <2>1, SumStep
  <2>3. ASSUME R # {} PROVE \E x \in R : Sum(R) = fun[x] + Sum(R \ {x})
    <3> DEFINE x == CHOOSE x \in R : TRUE
    <3>1. x \in R
      BY <2>3
    <3>2. Sum(R) = fun[x] + Sum(R \ {x})
      BY <2>1, <2>3, SumStep
    <3>3. QED
      BY <3>1, <3>2
  <2>4. QED
    BY <2>2, <2>3
<1> HIDE DEF Sum
<1>3. PICK R \in T : \A Q \in T : Q \subseteq R => Q = R
  <2>1. T \subseteq SUBSET S
    BY DEF T
  <2> HIDE DEF T
  <2>2. QED
    BY <1>1, <2>1, Minimal DEF HasMinimal
<1>4. PICK z \in R : Sum(R) # fun[z] + Sum(R \ {z})
  BY <1>3 DEF T
<1>5. PICK x \in R : Sum(R) = fun[x] + Sum(R \ {x})
  BY <1>2, <1>4
<1>6. x # z
  BY <1>4, <1>5
<1>7. Splits(R \ {x}) /\ Splits(R \ {z})
  <2>1. R \ {x} \in SUBSET S /\ R \ {z} \in SUBSET S /\ R \ {x} # R /\ R \ {z} # R
    OBVIOUS
  <2>2. QED
    BY <1>3, <2>1
<1>8. Sum(R \ {x}) = fun[z] + Sum((R \ {x}) \ {z}) /\ Sum(R \ {z}) = fun[x] + Sum((R \ {z}) \ {x})
  BY <1>6, <1>7
<1>9. (R \ {x}) \ {z} = (R \ {z}) \ {x} /\ (R \ {x}) \ {z} \in SUBSET S
  OBVIOUS
<1>10. Sum((R \ {x}) \ {z}) \in Int /\ fun[x] \in Int /\ fun[z] \in Int
  BY <1>2, <1>9
<1>11. Sum((R \ {z}) \ {x}) = Sum((R \ {x}) \ {z})
  BY <1>9
<1>12. Sum(R) = fun[x] + (fun[z] + Sum((R \ {x}) \ {z}))
  BY <1>5, <1>8
<1>13. fun[z] + Sum(R \ {z}) = fun[z] + (fun[x] + Sum((R \ {x}) \ {z}))
  BY <1>8, <1>11
<1>14. QED
  BY <1>4, <1>10, <1>12, <1>13

LEMMA SumWith ==
  ASSUME NEW S, IsFiniteSet(S), NEW y, y \notin S, NEW fun,
         \A x \in S : fun[x] \in Int, fun[y] \in Int
  PROVE  SumFunctionOnSet(fun, S \cup {y}) = fun[y] + SumFunctionOnSet(fun, S)
<1>1. IsFiniteSet(S \cup {y}) /\ y \in S \cup {y}
  BY OneMore
<1>2. \A x \in S \cup {y} : fun[x] \in Int
  OBVIOUS
<1> DEFINE R == S \cup {y}
<1>3. SumFunctionOnSet(fun, R) = fun[y] + SumFunctionOnSet(fun, R \ {y})
  <2> HIDE DEF R
  <2>1. IsFiniteSet(R) /\ y \in R /\ \A x \in R : fun[x] \in Int
    BY <1>1, <1>2 DEF R
  <2>2. QED
    BY <2>1, SumSplit
<1>4. R \ {y} = S
  OBVIOUS
<1>5. SumFunctionOnSet(fun, R) = fun[y] + SumFunctionOnSet(fun, S)
  <2> HIDE DEF R
  <2>1. QED
    BY <1>3, <1>4, Zenon
<1>6. QED
  BY <1>5

(* A sum depends on the numbers that are summed, and grows with them.      *)
LEMMA SumMonotone ==
  ASSUME NEW S, IsFiniteSet(S), NEW f, NEW g,
         \A x \in S : f[x] \in Int /\ g[x] \in Int /\ f[x] <= g[x]
  PROVE  SumFunctionOnSet(f, S) <= SumFunctionOnSet(g, S)
<1> DEFINE T == {R \in SUBSET S : ~ (SumFunctionOnSet(f, R) <= SumFunctionOnSet(g, R))}
<1>1. SUFFICES ASSUME T # {} PROVE FALSE
  BY DEF T
<1>2. PICK R \in T : \A Q \in T : Q \subseteq R => Q = R
  <2>1. T \subseteq SUBSET S
    BY DEF T
  <2> HIDE DEF T
  <2>2. QED
    BY <1>1, <2>1, Minimal DEF HasMinimal
<1>3. IsFiniteSet(R) /\ R \subseteq S
  BY FS_Subset
<1>4. R # {}
  <2>1. SumFunctionOnSet(f, {}) = 0 /\ SumFunctionOnSet(g, {}) = 0
    BY SumEmpty
  <2>2. {} \notin T
    BY <2>1
  <2>3. QED
    BY <1>2, <2>2
<1>5. PICK x \in R : TRUE
  BY <1>4
<1>41. IsFiniteSet(R \ {x})
  BY <1>3, FS_RemoveElement
<1>6. R \ {x} \in SUBSET S /\ IsFiniteSet(R \ {x}) /\ R \ {x} \notin T
  BY <1>2, <1>3, FS_RemoveElement
<1>7. SumFunctionOnSet(f, R \ {x}) <= SumFunctionOnSet(g, R \ {x})
  BY <1>6
<1>8. /\ SumFunctionOnSet(f, R) = f[x] + SumFunctionOnSet(f, R \ {x})
      /\ SumFunctionOnSet(f, R \ {x}) \in Int
  <2> HIDE DEF T
  <2>1. (\A y \in R : f[y] \in Int) /\ (\A y \in R \ {x} : f[y] \in Int)
    BY <1>3
  <2>2. QED
    BY <1>3, <1>41, <2>1, SumSplit, SumStep
<1>9. /\ SumFunctionOnSet(g, R) = g[x] + SumFunctionOnSet(g, R \ {x})
      /\ SumFunctionOnSet(g, R \ {x}) \in Int
  <2> HIDE DEF T
  <2>1. (\A y \in R : g[y] \in Int) /\ (\A y \in R \ {x} : g[y] \in Int)
    BY <1>3
  <2>2. QED
    BY <1>3, <1>41, <2>1, SumSplit, SumStep
<1>10. f[x] \in Int /\ g[x] \in Int /\ f[x] <= g[x]
  BY <1>3
<1>11. SumFunctionOnSet(f, R) <= SumFunctionOnSet(g, R)
  BY <1>7, <1>8, <1>9, <1>10
<1>12. QED
  BY <1>11 DEF T

LEMMA SumAgrees ==
  ASSUME NEW S, IsFiniteSet(S), NEW f, NEW g,
         \A x \in S : f[x] \in Int /\ g[x] = f[x]
  PROVE  SumFunctionOnSet(g, S) = SumFunctionOnSet(f, S)
<1>1. /\ SumFunctionOnSet(f, S) <= SumFunctionOnSet(g, S)
      /\ SumFunctionOnSet(g, S) <= SumFunctionOnSet(f, S)
  BY SumMonotone
<1>2. SumFunctionOnSet(f, S) \in Int /\ SumFunctionOnSet(g, S) \in Int
  BY SumStep
<1>3. QED
  BY <1>1, <1>2

(* One number changed.                                                     *)
SameBut(S, f, g, y) == \A x \in S : f[x] \in Int /\ (x # y => g[x] = f[x])

LEMMA SumChangedAt ==
  ASSUME NEW S, IsFiniteSet(S), NEW f, NEW g, NEW y \in S, SameBut(S, f, g, y), g[y] \in Int
  PROVE  SumFunctionOnSet(g, S) = SumFunctionOnSet(f, S) - f[y] + g[y]
<1>1. IsFiniteSet(S \ {y})
  BY FS_RemoveElement
<1>2. SumFunctionOnSet(g, S \ {y}) = SumFunctionOnSet(f, S \ {y})
  BY <1>1, SumAgrees DEF SameBut
<1>3. /\ SumFunctionOnSet(f, S) = f[y] + SumFunctionOnSet(f, S \ {y})
      /\ SumFunctionOnSet(f, S \ {y}) \in Int /\ f[y] \in Int
  BY <1>1, SumSplit, SumStep DEF SameBut
<1>4. \A x \in S : g[x] \in Int
  BY DEF SameBut
<1>5. SumFunctionOnSet(g, S) = g[y] + SumFunctionOnSet(g, S \ {y})
  BY <1>4, SumSplit
<1>6. QED
  BY <1>2, <1>3, <1>5

(* At most one number grown, by one.                                       *)
GrownAt(S, f, g, y) ==
  \A x \in S : f[x] \in Int /\ (g[x] = f[x] \/ (x = y /\ g[x] = f[x] + 1))

LEMMA SumGrown ==
  ASSUME NEW S, IsFiniteSet(S), NEW f, NEW g, NEW y, GrownAt(S, f, g, y)
  PROVE  /\ SumFunctionOnSet(f, S) \in Int /\ SumFunctionOnSet(g, S) \in Int
         /\ SumFunctionOnSet(g, S) <= SumFunctionOnSet(f, S) + 1
<1>1. /\ \A x \in S : f[x] \in Int
      /\ \A x \in S : g[x] \in Int
      /\ \A x \in S : x # y => g[x] = f[x]
  BY DEF GrownAt
<1>2. SumFunctionOnSet(f, S) \in Int /\ SumFunctionOnSet(g, S) \in Int
  BY <1>1, SumStep
<1>3. CASE y \notin S
  <2>1. \A x \in S : f[x] \in Int /\ g[x] = f[x]
    BY <1>1, <1>3
  <2>2. SumFunctionOnSet(g, S) = SumFunctionOnSet(f, S)
    BY <2>1, SumAgrees
  <2>3. QED
    BY <1>2, <2>2
<1>4. CASE y \in S
  <2>1. SumFunctionOnSet(g, S) = SumFunctionOnSet(f, S) - f[y] + g[y]
    BY <1>1, <1>4, SumChangedAt DEF SameBut
  <2>2. f[y] \in Int /\ (g[y] = f[y] \/ g[y] = f[y] + 1)
    BY <1>4 DEF GrownAt
  <2>3. QED
    BY <1>2, <2>1, <2>2
<1>5. QED
  BY <1>3, <1>4

LEMMA SumNatural ==
  ASSUME NEW S, IsFiniteSet(S), NEW f, \A x \in S : f[x] \in Nat
  PROVE  SumFunctionOnSet(f, S) \in Nat /\ \A y \in S : f[y] <= SumFunctionOnSet(f, S)
<1> DEFINE T == {R \in SUBSET S : SumFunctionOnSet(f, R) \notin Nat}
<1>1. T = {}
  <2>1. SUFFICES ASSUME T # {} PROVE FALSE
    BY DEF T
  <2>2. PICK R \in T : \A Q \in T : Q \subseteq R => Q = R
    <3>1. T \subseteq SUBSET S
      BY DEF T
    <3> HIDE DEF T
    <3>2. QED
      BY <2>1, <3>1, Minimal DEF HasMinimal
  <2>3. IsFiniteSet(R) /\ R \subseteq S
    BY FS_Subset
  <2>4. R # {}
    <3>1. SumFunctionOnSet(f, {}) = 0
      BY SumEmpty
    <3>2. {} \notin T
      BY <3>1
    <3>3. QED
      BY <2>2, <3>2
  <2>5. PICK x \in R : TRUE
    BY <2>4
  <2>6. SumFunctionOnSet(f, R \ {x}) \in Nat
    BY <2>2
  <2>7. SumFunctionOnSet(f, R) = f[x] + SumFunctionOnSet(f, R \ {x})
    BY <2>3, SumSplit
  <2>8. QED
    BY <2>3, <2>6, <2>7
<1>2. \A R \in SUBSET S : SumFunctionOnSet(f, R) \in Nat
  BY <1>1 DEF T
<1>3. ASSUME NEW y \in S PROVE f[y] <= SumFunctionOnSet(f, S)
  <2>1. SumFunctionOnSet(f, S) = f[y] + SumFunctionOnSet(f, S \ {y})
    BY SumSplit
  <2>2. QED
    BY <1>2, <2>1
<1>4. QED
  BY <1>2, <1>3

LEMMA SumBounded ==
  ASSUME NEW S, IsFiniteSet(S), NEW k \in Int, NEW f, \A x \in S : f[x] \in Int /\ f[x] <= k
  PROVE  /\ SumFunctionOnSet(f, S) \in Int /\ Cardinality(S) \in Nat
         /\ SumFunctionOnSet(f, S) <= Cardinality(S) * k
<1> DEFINE T == {R \in SUBSET S : ~ (SumFunctionOnSet(f, R) <= Cardinality(R) * k)}
<1>1. T = {}
  <2>1. SUFFICES ASSUME T # {} PROVE FALSE
    BY DEF T
  <2>2. PICK R \in T : \A Q \in T : Q \subseteq R => Q = R
    <3>1. T \subseteq SUBSET S
      BY DEF T
    <3> HIDE DEF T
    <3>2. QED
      BY <2>1, <3>1, Minimal DEF HasMinimal
  <2>3. IsFiniteSet(R) /\ R \subseteq S /\ \A y \in R : f[y] \in Int
    BY FS_Subset
  <2>4. R # {}
    <3>1. SumFunctionOnSet(f, {}) = 0 /\ Cardinality({}) = 0 /\ 0 * k = 0
      BY SumEmpty, FS_EmptySet
    <3>2. {} \notin T
      BY <3>1
    <3>3. QED
      BY <2>2, <3>2
  <2>5. PICK x \in R : TRUE
    BY <2>4
  <2>6. SumFunctionOnSet(f, R \ {x}) <= Cardinality(R \ {x}) * k
    BY <2>2
  <2>7. SumFunctionOnSet(f, R) = f[x] + SumFunctionOnSet(f, R \ {x})
    BY <2>3, SumSplit
  <2>8. Cardinality(R) \in Nat /\ Cardinality(R \ {x}) = Cardinality(R) - 1
    BY <2>3, OneLess
  <2>9. SumFunctionOnSet(f, R \ {x}) \in Int
    <3>1. IsFiniteSet(R \ {x}) /\ \A y \in R \ {x} : f[y] \in Int
      BY <2>3, FS_RemoveElement
    <3>2. QED
      BY <3>1, SumStep
  <2> DEFINE c == Cardinality(R)
             rest == SumFunctionOnSet(f, R \ {x})
  <2>10. (c - 1) * k = c * k - k /\ c * k \in Int
    BY <2>8
  <2>11. rest <= (c - 1) * k /\ f[x] <= k /\ f[x] \in Int
    BY <2>3, <2>6, <2>8
  <2> HIDE DEF c, rest
  <2>12. f[x] + rest <= c * k
    BY <2>9, <2>10, <2>11 DEF rest
  <2>13. QED
    BY <2>2, <2>7, <2>12 DEF c, rest
<1>2. SumFunctionOnSet(f, S) <= Cardinality(S) * k
  BY <1>1 DEF T
<1>3. QED
  BY <1>2, SumStep, FS_CardinalityType

LEMMA SumZero ==
  ASSUME NEW S, IsFiniteSet(S), NEW f, \A x \in S : f[x] = 0
  PROVE  SumFunctionOnSet(f, S) = 0
<1> DEFINE T == {R \in SUBSET S : SumFunctionOnSet(f, R) # 0}
<1>1. SUFFICES ASSUME T # {} PROVE FALSE
  BY DEF T
<1>2. PICK R \in T : \A Q \in T : Q \subseteq R => Q = R
  <2>1. T \subseteq SUBSET S
    BY DEF T
  <2> HIDE DEF T
  <2>2. QED
    BY <1>1, <2>1, Minimal DEF HasMinimal
<1>3. IsFiniteSet(R) /\ R \subseteq S
  BY FS_Subset
<1>4. R # {}
  <2>1. SumFunctionOnSet(f, {}) = 0
    BY SumEmpty
  <2>2. {} \notin T
    BY <2>1
  <2>3. QED
    BY <1>2, <2>2
<1>5. PICK x \in R : TRUE
  BY <1>4
<1>6. SumFunctionOnSet(f, R \ {x}) = 0
  BY <1>2
<1>7. \A y \in R : f[y] \in Int
  BY <1>3
<1>8. SumFunctionOnSet(f, R) = f[x] + SumFunctionOnSet(f, R \ {x})
  BY <1>3, <1>7, SumSplit
<1>9. f[x] = 0
  BY <1>3
<1>10. QED
  BY <1>6, <1>8, <1>9

----------------------------------------------------------------------------
(* Folds of a sequence, from the left                                      *)

LEMMA InductUpto ==
  ASSUME NEW n \in Nat, NEW T \in SUBSET Nat, 0 \in T,
         \A i \in 1..n : i - 1 \in T => i \in T
  PROVE  \A i \in 0..n : i \in T
<1> DEFINE U == {i \in Nat : i <= n => i \in T}
<1>1. 0 \in U /\ \A i \in U : i + 1 \in U
  <2>1. ASSUME NEW i \in U, i + 1 <= n PROVE i + 1 \in T
    <3>1. i \in T /\ i + 1 \in 1..n
      BY <2>1
    <3>2. QED
      BY <3>1
  <2>2. QED
    BY <2>1
<1>2. U \in SUBSET Nat
  OBVIOUS
<1> HIDE DEF U
<1>3. U = Nat
  BY <1>1, <1>2, Induct
<1>4. QED
  BY <1>3 DEF U

Greatest(s) == CHOOSE x \in s : \A y \in s : x >= y

LEMMA GreatestUpto ==
  ASSUME NEW n \in Nat, NEW s \in SUBSET (1..n), s # {}
  PROVE  Greatest(s) \in s /\ \A y \in s : Greatest(s) >= y
<1> DEFINE T == {i \in Nat : \E x \in s : x = n - i}
<1>1. T \in SUBSET Nat /\ T # {}
  <2>1. PICK x \in s : TRUE
    OBVIOUS
  <2>2. n - x \in T
    BY <2>1
  <2>3. QED
    BY <2>2
<1> HIDE DEF T
<1>2. PICK i \in T : \A j \in T : i <= j
  BY <1>1, Smallest
<1>3. n - i \in s /\ i \in Nat
  BY <1>2 DEF T
<1>4. ASSUME NEW y \in s PROVE n - i >= y
  <2>1. n - y \in T /\ y \in 1..n
    BY DEF T
  <2>2. i <= n - y
    BY <1>2, <2>1
  <2>3. QED
    BY <1>3, <2>1, <2>2
<1>5. \E x \in s : \A y \in s : x >= y
  BY <1>3, <1>4
<1>6. QED
  BY <1>5 DEF Greatest

LEMMA GreatestOfInterval ==
  ASSUME NEW n \in Nat, NEW i \in 1..n
  PROVE  Greatest(1..i) = i /\ (1..i) \ {i} = 1..(i - 1)
<1>1. 1..i \in SUBSET (1..n) /\ i \in 1..i
  OBVIOUS
<1>2. Greatest(1..i) \in 1..i /\ Greatest(1..i) >= i
  BY <1>1, GreatestUpto
<1>3. QED
  BY <1>2

(* The values that a fold passes through.                                  *)
Runs(n, A, base, step, v) ==
  v \in [0..n -> A] /\ v[0] = base /\ \A i \in 1..n : v[i] = step[<<i, v[i - 1]>>]

(* What is known of a function that defines a fold while it is not known   *)
(* to stay in A.                                                           *)
FoldedBy(n, A, base, step, iter) ==
  /\ iter[{}] = base
  /\ \A s \in (SUBSET (1..n)) \ {{}} :
       iter[s \ {Greatest(s)}] \in A => iter[s] = step[<<Greatest(s), iter[s \ {Greatest(s)}]>>]

FoldRun(n, A, base, step, h, v) ==
  /\ FoldedBy(n, A, base, step, h) /\ Runs(n, A, base, step, v) /\ h[1..n] = v[n]
  /\ \A s \in SUBSET (1..n) : h[s] \in A
  /\ \A s \in (SUBSET (1..n)) \ {{}} : h[s] = step[<<Greatest(s), h[s \ {Greatest(s)}]>>]

LEMMA FoldsAgree ==
  ASSUME NEW n \in Nat, NEW A, NEW base, NEW step,
         NEW h, NEW v, FoldRun(n, A, base, step, h, v),
         NEW iter, FoldedBy(n, A, base, step, iter)
  PROVE  iter[1..n] = v[n]
<1> DEFINE T == {s \in SUBSET (1..n) : iter[s] # h[s]}
<1>1. SUFFICES ASSUME T # {} PROVE FALSE
  <2>1. 1..n \in SUBSET (1..n)
    OBVIOUS
  <2>2. QED
    BY <2>1 DEF FoldRun
<1>2. HasMinimal(T)
  <2>1. IsFiniteSet(1..n) /\ T \subseteq SUBSET (1..n)
    BY FS_Interval
  <2> HIDE DEF T
  <2>2. QED
    BY <1>1, <2>1, Minimal
<1>3. PICK s \in T : \A r \in T : r \subseteq s => r = s
  BY <1>2 DEF HasMinimal
<1>4. s # {}
  BY <1>3 DEF FoldedBy, FoldRun
<1> DEFINE x == Greatest(s)
<1>5. x \in s
  BY <1>3, <1>4, GreatestUpto
<1> HIDE DEF x
<1>6. s \ {x} \in SUBSET (1..n) /\ s \ {x} # s
  BY <1>3, <1>5
<1>7. iter[s \ {x}] = h[s \ {x}]
  BY <1>3, <1>6
<1>8. h[s \ {x}] \in A
  BY <1>6 DEF FoldRun
<1>9. iter[s] = step[<<x, iter[s \ {x}]>>] /\ h[s] = step[<<x, h[s \ {x}]>>]
  BY <1>3, <1>4, <1>7, <1>8 DEF FoldedBy, FoldRun, x
<1>10. QED
  BY <1>3, <1>7, <1>9

LEMMA FoldRuns ==
  ASSUME NEW n \in Nat, NEW A, NEW base \in A, NEW step \in [(1..n) \X A -> A]
  PROVE  \E h \in [SUBSET (1..n) -> A], v \in [0..n -> A] : FoldRun(n, A, base, step, h, v)
<1> DEFINE chosen == [s \in (SUBSET (1..n)) \ {{}} |-> Greatest(s)]
<1>1. IsFiniteSet(1..n) /\ ChoiceOn(1..n, chosen)
  <2>1. \A s \in (SUBSET (1..n)) \ {{}} : Greatest(s) \in s
    BY GreatestUpto
  <2>2. ChoiceOn(1..n, chosen)
    BY <2>1 DEF ChoiceOn
  <2>3. QED
    BY <2>2, FS_Interval
<1>2. PICK h \in [SUBSET (1..n) -> A] : Recursive(1..n, base, chosen, step, h)
  <2> HIDE DEF chosen
  <2> QED
    BY <1>1, RecursionExists
<1>3. /\ h[{}] = base
      /\ \A s \in (SUBSET (1..n)) \ {{}} : h[s] = step[<<Greatest(s), h[s \ {Greatest(s)}]>>]
  BY <1>2 DEF Recursive
<1> DEFINE v == [i \in 0..n |-> h[1..i]]
<1>4. /\ v \in [0..n -> A] /\ v[n] = h[1..n]
      /\ v[0] = base
  <2>1. 1..0 = {}
    OBVIOUS
  <2>2. \A i \in 0..n : 1..i \in SUBSET (1..n)
    OBVIOUS
  <2>3. QED
    BY <1>3, <2>1, <2>2
<1>5. ASSUME NEW i \in 1..n PROVE v[i] = step[<<i, v[i - 1]>>]
  <2>1. Greatest(1..i) = i /\ (1..i) \ {i} = 1..(i - 1)
    BY GreatestOfInterval
  <2>2. 1..i \in (SUBSET (1..n)) \ {{}}
    <3>1. i \in 1..i
      OBVIOUS
    <3>2. QED
      BY <3>1
  <2>3. h[1..i] = step[<<i, h[1..(i - 1)]>>]
    BY <1>3, <2>1, <2>2, Zenon
  <2>4. v[i] = h[1..i] /\ v[i - 1] = h[1..(i - 1)]
    OBVIOUS
  <2>5. QED
    BY <2>3, <2>4, Zenon
<1> HIDE DEF v, chosen
<1>6. FoldedBy(n, A, base, step, h) /\ Runs(n, A, base, step, v)
  BY <1>3, <1>4, <1>5 DEF FoldedBy, Runs
<1>7. QED
  BY <1>3, <1>4, <1>6 DEF FoldRun
=============================================================================
