---------------------------- MODULE SumTheorems ----------------------------
(***************************************************************************)
(* Facts about SumFunctionOnSet of the community module Functions: the sum *)
(* over a finite set does not depend on the order in which the fold picks  *)
(* its elements.  The components' proofs cite these lemmas wherever the    *)
(* code keeps a running total beside the items it totals.                  *)
(*                                                                         *)
(* Induction is over subsets of Nat rather than over predicates: a least   *)
(* counterexample exists because < is well-founded on Nat.                 *)
(***************************************************************************)
EXTENDS Integers, FiniteSets, Functions, FiniteSetTheorems, WellFoundedInduction, TLAPS

\* Induction over the natural numbers, for a set.
LEMMA Induction ==
    ASSUME NEW Q \in SUBSET Nat, 0 \in Q, \A n \in Q : n + 1 \in Q
    PROVE  Nat = Q
<1> DEFINE T == Nat \ Q
           R == OpToRel(<, Nat)
<1>1. SUFFICES ASSUME T # {} PROVE FALSE
  OBVIOUS
<1>2. IsWellFoundedOn(R, Nat)
  BY NatLessThanWellFounded
<1>3. PICK x \in T : \A y \in T : ~(<<y, x>> \in R)
  <2> HIDE DEF R, T
  <2> QED BY <1>1, <1>2, WFMin DEF T
<1>4. x \in Nat /\ x \notin Q
  OBVIOUS
<1>5. \A y \in T : ~(y < x)
  BY <1>3, <1>4 DEF OpToRel
<1> HIDE DEF R
<1>6. x # 0
  BY <1>4
<1>7. x - 1 \in Nat /\ x - 1 < x /\ (x - 1) + 1 = x
  BY <1>4, <1>6
<1>8. x - 1 \in Q
  BY <1>5, <1>7
<1> QED BY <1>8, <1>4, <1>7

LEMMA SmallerByOne ==
    ASSUME NEW S, IsFiniteSet(S), NEW x \in S, NEW n \in Nat, Cardinality(S) = n + 1
    PROVE  Cardinality(S \ {x}) = n
<1>1. Cardinality(S \ {x}) = Cardinality(S) - 1
  BY FS_RemoveElement
<1> QED BY <1>1

-----------------------------------------------------------------------------
(* The function the fold computes with *)

Picked(s) == CHOOSE x \in s : TRUE

IsIteration(g, f, S) ==
    g = [s \in SUBSET S |-> IF s = {} THEN 0 ELSE f[Picked(s)] + g[s \ {Picked(s)}]]

LEMMA PickedIn == ASSUME NEW s, s # {} PROVE Picked(s) \in s
BY DEF Picked

LEMMA IterationExists ==
    ASSUME NEW f, NEW S, IsFiniteSet(S)
    PROVE  \E g : IsIteration(g, f, S)
<1> DEFINE Body(g, s) == IF s = {} THEN 0 ELSE f[Picked(s)] + g[s \ {Picked(s)}]
           Upto(g, n) == \A s \in SUBSET S : Cardinality(s) <= n => g[s] = Body(g, s)
           Q == {n \in Nat : \E g : Upto(g, n)}
<1>0. \A s \in SUBSET S : IsFiniteSet(s) /\ Cardinality(s) \in Nat
  BY FS_Subset, FS_CardinalityType
<1>1. 0 \in Q
  <2>1. \A s \in SUBSET S : Cardinality(s) <= 0 => s = {}
    BY <1>0, FS_EmptySet
  <2>2. Upto([s \in SUBSET S |-> 0], 0)
    BY <2>1
  <2> QED BY <2>2
<1>2. \A n \in Q : n + 1 \in Q
  <2> SUFFICES ASSUME NEW n \in Nat, \E g : Upto(g, n) PROVE \E g : Upto(g, n + 1)
    <3> HIDE DEF Upto
    <3> QED OBVIOUS
  <2>1. PICK g : Upto(g, n)
    OBVIOUS
  <2> DEFINE h == [s \in SUBSET S |-> IF Cardinality(s) <= n THEN g[s] ELSE Body(g, s)]
  <2>2. ASSUME NEW s \in SUBSET S, Cardinality(s) <= n + 1 PROVE h[s] = Body(h, s)
    <3>1. CASE s = {}
      BY <3>1, <2>1, FS_EmptySet
    <3>2. CASE s # {}
      <4>1. /\ s \ {Picked(s)} \in SUBSET S
            /\ Cardinality(s \ {Picked(s)}) = Cardinality(s) - 1
        BY <1>0, <3>2, PickedIn, FS_RemoveElement
      <4>2. h[s \ {Picked(s)}] = g[s \ {Picked(s)}]
        BY <4>1, <1>0, <2>2
      <4>3. Body(h, s) = Body(g, s)
        BY <4>2
      <4>4. h[s] = Body(g, s)
        BY <2>1
      <4> QED BY <4>3, <4>4
    <3> QED BY <3>1, <3>2
  <2>3. Upto(h, n + 1)
    BY <2>2
  <2> QED BY <2>3
<1>3. Cardinality(S) \in Q
  <2> HIDE DEF Q
  <2>1. Q \in SUBSET Nat BY DEF Q
  <2> QED BY <1>0, <1>1, <1>2, <2>1, Induction
<1>4. PICK g : Upto(g, Cardinality(S))
  BY <1>3
<1> DEFINE h == [s \in SUBSET S |-> g[s]]
<1>5. ASSUME NEW s \in SUBSET S PROVE h[s] = Body(h, s)
  <2>1. Cardinality(s) <= Cardinality(S)
    BY FS_Subset
  <2>2. g[s] = Body(g, s)
    BY <1>4, <2>1
  <2>3. s # {} => s \ {Picked(s)} \in SUBSET S
    OBVIOUS
  <2> QED BY <2>2, <2>3
<1>6. IsIteration(h, f, S)
  BY <1>5, Zenon DEF IsIteration
<1> QED BY <1>6

\* Two iterations, the second over a smaller set, agree on that set's subsets.
LEMMA IterationUnique ==
    ASSUME NEW f, NEW S, IsFiniteSet(S), NEW T \in SUBSET S,
           NEW g, IsIteration(g, f, S), NEW h, IsIteration(h, f, T)
    PROVE  g[T] = h[T]
<1> DEFINE Q == {n \in Nat : \A s \in SUBSET T : Cardinality(s) = n => g[s] = h[s]}
<1>0. \A s \in SUBSET T : IsFiniteSet(s) /\ Cardinality(s) \in Nat
  BY FS_Subset, FS_CardinalityType
<1>1. \A s \in SUBSET T : /\ s = {} => g[s] = 0 /\ h[s] = 0
                          /\ s # {} => /\ g[s] = f[Picked(s)] + g[s \ {Picked(s)}]
                                       /\ h[s] = f[Picked(s)] + h[s \ {Picked(s)}]
  BY Zenon DEF IsIteration
<1>2. 0 \in Q
  BY <1>0, <1>1, FS_EmptySet
<1>3. \A n \in Q : n + 1 \in Q
  <2> SUFFICES ASSUME NEW n \in Q, NEW s \in SUBSET T, Cardinality(s) = n + 1 PROVE g[s] = h[s]
    OBVIOUS
  <2>1. s # {}
    BY FS_EmptySet
  <2>2. Picked(s) \in s /\ s \ {Picked(s)} \in SUBSET T /\ IsFiniteSet(s)
    BY <1>0, <2>1, PickedIn
  <2>3. Cardinality(s \ {Picked(s)}) = n
    BY <2>2, SmallerByOne
  <2> QED BY <1>1, <2>1, <2>2, <2>3
<1>4. Cardinality(T) \in Q
  <2> HIDE DEF Q
  <2>1. Q \in SUBSET Nat BY DEF Q
  <2> QED BY <1>0, <1>2, <1>3, <2>1, Induction
<1> QED BY <1>4

LEMMA SumIsIteration ==
    ASSUME NEW f, NEW S, IsFiniteSet(S)
    PROVE  \E g : IsIteration(g, f, S) /\ SumFunctionOnSet(f, S) = g[S]
<1> DEFINE iter == CHOOSE g : IsIteration(g, f, S)
<1>1. IsIteration(iter, f, S)
  BY IterationExists
<1>2. SumFunctionOnSet(f, S) = iter[S]
  BY Zenon DEF SumFunctionOnSet, FoldFunctionOnSet, MapThenFoldSet, IsIteration, Picked
<1> QED BY <1>1, <1>2

-----------------------------------------------------------------------------
(* The recurrences of the sum *)

LEMMA SumEmpty == ASSUME NEW f PROVE SumFunctionOnSet(f, {}) = 0
<1>1. PICK g : IsIteration(g, f, {}) /\ SumFunctionOnSet(f, {}) = g[{}]
  BY SumIsIteration, FS_EmptySet
<1> QED BY <1>1, Zenon DEF IsIteration

LEMMA SumPicked ==
    ASSUME NEW f, NEW S, IsFiniteSet(S), S # {}
    PROVE  SumFunctionOnSet(f, S) = f[Picked(S)] + SumFunctionOnSet(f, S \ {Picked(S)})
<1> DEFINE T == S \ {Picked(S)}
<1>1. PICK g : IsIteration(g, f, S) /\ SumFunctionOnSet(f, S) = g[S]
  BY SumIsIteration
<1>2. IsFiniteSet(T)
  BY FS_RemoveElement
<1>3. PICK h : IsIteration(h, f, T) /\ SumFunctionOnSet(f, T) = h[T]
  BY <1>2, SumIsIteration
<1>4. g[T] = h[T]
  BY <1>1, <1>3, IterationUnique
<1>5. g[S] = f[Picked(S)] + g[T]
  BY <1>1, Zenon DEF IsIteration
<1> QED BY <1>1, <1>3, <1>4, <1>5

\* Induction over the subsets of a finite set.
LEMMA SetInduction ==
    ASSUME NEW S, IsFiniteSet(S), NEW F \in SUBSET SUBSET S, {} \in F,
           \A T \in F : \A x \in S \ T : T \cup {x} \in F
    PROVE  S \in F
<1> DEFINE Q == {n \in Nat : \A T \in SUBSET S : Cardinality(T) = n => T \in F}
<1>0. \A s \in SUBSET S : IsFiniteSet(s) /\ Cardinality(s) \in Nat
  BY FS_Subset, FS_CardinalityType
<1>1. 0 \in Q
  BY <1>0, FS_EmptySet
<1>2. \A n \in Q : n + 1 \in Q
  <2> SUFFICES ASSUME NEW n \in Q, NEW T \in SUBSET S, Cardinality(T) = n + 1 PROVE T \in F
    OBVIOUS
  <2>1. n \in Nat /\ \A U \in SUBSET S : Cardinality(U) = n => U \in F
    OBVIOUS
  <2> HIDE DEF Q
  <2>2. T # {}
    BY <2>1, FS_EmptySet
  <2>3. PICK x \in T : TRUE
    BY <2>2
  <2>4. Cardinality(T \ {x}) = n
    BY <1>0, <2>1, SmallerByOne
  <2>5. T \ {x} \in F /\ (T \ {x}) \cup {x} = T
    BY <2>1, <2>4
  <2> QED BY <2>5
<1>3. Cardinality(S) \in Q
  <2> HIDE DEF Q
  <2>1. Q \in SUBSET Nat BY DEF Q
  <2> QED BY <1>0, <1>1, <1>2, <2>1, Induction
<1> QED BY <1>3

\* Sums of naturals, or of integers, are such numbers again.
LEMMA SumTypes ==
    ASSUME NEW f, NEW S, IsFiniteSet(S), \A x \in S : f[x] \in Int
    PROVE  /\ SumFunctionOnSet(f, S) \in Int
           /\ (\A x \in S : f[x] \in Nat) => SumFunctionOnSet(f, S) \in Nat
<1> DEFINE Good(T) == /\ SumFunctionOnSet(f, T) \in Int
                      /\ (\A x \in T : f[x] \in Nat) => SumFunctionOnSet(f, T) \in Nat
           Q == {n \in Nat : \A T \in SUBSET S : Cardinality(T) = n => Good(T)}
<1>0. \A s \in SUBSET S : IsFiniteSet(s) /\ Cardinality(s) \in Nat
  BY FS_Subset, FS_CardinalityType
<1>1. 0 \in Q
  BY <1>0, FS_EmptySet, SumEmpty
<1>2. ASSUME NEW n \in Nat, \A T \in SUBSET S : Cardinality(T) = n => Good(T),
             NEW T \in SUBSET S, Cardinality(T) = n + 1
      PROVE  Good(T)
  <2> DEFINE U == T \ {Picked(T)}
  <2>1. T # {}
    BY <1>2, FS_EmptySet
  <2>2. Picked(T) \in T
    BY <2>1, PickedIn
  <2>3. U \in SUBSET S /\ Cardinality(U) = n
    BY <1>0, <1>2, <2>2, SmallerByOne
  <2>4. Good(U)
    BY <1>2, <2>3
  <2>5. SumFunctionOnSet(f, T) = f[Picked(T)] + SumFunctionOnSet(f, U)
    BY <1>0, <2>1, SumPicked
  <2> HIDE DEF U
  <2> QED BY <2>2, <2>4, <2>5 DEF U
<1>3. \A n \in Q : n + 1 \in Q
  <2> HIDE DEF Good
  <2> QED BY <1>2
<1>4. Cardinality(S) \in Q
  <2> HIDE DEF Q
  <2>1. Q \in SUBSET Nat BY DEF Q
  <2> QED BY <1>0, <1>1, <1>3, <2>1, Induction
<1> HIDE DEF Good
<1>5. Good(S)
  BY <1>4
<1> QED BY <1>5 DEF Good

\* Any element can be taken out first.
LEMMA SumRemove ==
    ASSUME NEW f, NEW S, IsFiniteSet(S), \A x \in S : f[x] \in Int, NEW x \in S
    PROVE  SumFunctionOnSet(f, S) = f[x] + SumFunctionOnSet(f, S \ {x})
<1> DEFINE Sum(T) == SumFunctionOnSet(f, T)
           Good(T) == \A y \in T : Sum(T) = f[y] + Sum(T \ {y})
           Q == {n \in Nat : \A T \in SUBSET S : Cardinality(T) = n => Good(T)}
<1>0. \A s \in SUBSET S : IsFiniteSet(s) /\ Cardinality(s) \in Nat
  BY FS_Subset, FS_CardinalityType
<1>1. 0 \in Q
  BY <1>0, FS_EmptySet
<1>2. ASSUME NEW n \in Nat, \A T \in SUBSET S : Cardinality(T) = n => Good(T),
             NEW T \in SUBSET S, Cardinality(T) = n + 1, NEW y \in T
      PROVE  Sum(T) = f[y] + Sum(T \ {y})
  <2> DEFINE p == Picked(T)
  <2>1. p \in T
    BY PickedIn
  <2>2. Sum(T) = f[p] + Sum(T \ {p})
    BY <1>0, SumPicked
  <2>3. CASE y = p
    BY <2>2, <2>3
  <2>4. CASE y # p
    <3> HIDE DEF p
    <3>1. /\ T \ {p} \in SUBSET S /\ Cardinality(T \ {p}) = n
          /\ T \ {y} \in SUBSET S /\ Cardinality(T \ {y}) = n
      BY <1>0, <1>2, <2>1, SmallerByOne
    <3> DEFINE V == (T \ {p}) \ {y}
    <3>2. Sum(T \ {p}) = f[y] + Sum(V)
      BY <1>2, <2>4, <3>1
    <3>3. (T \ {y}) \ {p} = V
      OBVIOUS
    <3>4. Sum(T \ {y}) = f[p] + Sum((T \ {y}) \ {p})
      BY <1>2, <2>1, <2>4, <3>1
    <3>5. Sum(V) \in Int
      <4>1. V \in SUBSET S OBVIOUS
      <4> HIDE DEF V
      <4> QED BY <1>0, <4>1, SumTypes
    <3>6. f[y] \in Int /\ f[p] \in Int
      BY <2>1
    <3>7. Sum(T \ {y}) = f[p] + Sum(V)
      BY <3>3, <3>4
    <3> HIDE DEF V, Sum
    <3> QED BY <2>2, <3>2, <3>5, <3>6, <3>7
  <2> QED BY <2>3, <2>4
<1>3. \A n \in Q : n + 1 \in Q
  <2> HIDE DEF Sum
  <2> QED BY <1>2
<1>4. Cardinality(S) \in Q
  <2> HIDE DEF Q
  <2>1. Q \in SUBSET Nat BY DEF Q
  <2> QED BY <1>0, <1>1, <1>3, <2>1, Induction
<1> HIDE DEF Good
<1>5. Good(S)
  BY <1>4
<1> QED BY <1>5 DEF Good

LEMMA SumAdd ==
    ASSUME NEW f, NEW S, IsFiniteSet(S), \A y \in S : f[y] \in Int, NEW x, x \notin S, f[x] \in Int
    PROVE  SumFunctionOnSet(f, S \cup {x}) = f[x] + SumFunctionOnSet(f, S)
<1>1. IsFiniteSet(S \cup {x}) /\ (S \cup {x}) \ {x} = S
  BY FS_AddElement
<1> QED BY <1>1, SumRemove

-----------------------------------------------------------------------------
(* What the proofs about running totals use *)

\* Functions that agree on a set have the same sum over it.
LEMMA SumAgree ==
    ASSUME NEW f, NEW g, NEW S, IsFiniteSet(S), \A x \in S : f[x] \in Int /\ f[x] = g[x]
    PROVE  SumFunctionOnSet(f, S) = SumFunctionOnSet(g, S)
<1> DEFINE F == {T \in SUBSET S : SumFunctionOnSet(f, T) = SumFunctionOnSet(g, T)}
<1>1. {} \in F
  BY SumEmpty
<1>2. ASSUME NEW T \in F, NEW x \in S \ T PROVE T \cup {x} \in F
  <2>1. IsFiniteSet(T)
    BY FS_Subset
  <2>2. /\ SumFunctionOnSet(f, T \cup {x}) = f[x] + SumFunctionOnSet(f, T)
        /\ SumFunctionOnSet(g, T \cup {x}) = g[x] + SumFunctionOnSet(g, T)
    BY <2>1, SumAdd
  <2> QED BY <2>2
<1>3. S \in F
  <2>1. F \in SUBSET SUBSET S OBVIOUS
  <2> HIDE DEF F
  <2> QED BY <1>1, <1>2, <2>1, SetInduction
<1> QED BY <1>3

\* Changing one entry changes the sum by the difference.
LEMMA SumUpdate ==
    ASSUME NEW S, IsFiniteSet(S), NEW f, \A y \in S : f[y] \in Int, NEW x \in S,
           NEW g, g[x] \in Int, \A y \in S \ {x} : g[y] = f[y]
    PROVE  SumFunctionOnSet(g, S) = SumFunctionOnSet(f, S) - f[x] + g[x]
<1> DEFINE T == S \ {x}
<1>1. /\ \A y \in S : f[y] \in Int /\ g[y] \in Int
      /\ \A y \in T : f[y] = g[y]
  OBVIOUS
<1>2. IsFiniteSet(T)
  BY FS_RemoveElement
<1>3. /\ SumFunctionOnSet(f, S) = f[x] + SumFunctionOnSet(f, T)
      /\ SumFunctionOnSet(g, S) = g[x] + SumFunctionOnSet(g, T)
  BY <1>1, SumRemove
<1>4. SumFunctionOnSet(f, T) = SumFunctionOnSet(g, T) /\ SumFunctionOnSet(f, T) \in Int
  <2>1. \A y \in T : f[y] \in Int /\ f[y] = g[y]
    BY <1>1
  <2> HIDE DEF T
  <2> QED BY <1>2, <2>1, SumAgree, SumTypes
<1> HIDE DEF T
<1>5. f[x] \in Int
  OBVIOUS
<1> QED BY <1>1, <1>3, <1>4, <1>5

\* A sum splits along a subset.
LEMMA SumSplit ==
    ASSUME NEW f, NEW S, IsFiniteSet(S), \A x \in S : f[x] \in Int, NEW T \in SUBSET S
    PROVE  SumFunctionOnSet(f, S) = SumFunctionOnSet(f, T) + SumFunctionOnSet(f, S \ T)
<1> DEFINE F == {U \in SUBSET T : SumFunctionOnSet(f, S)
                                    = SumFunctionOnSet(f, U) + SumFunctionOnSet(f, S \ U)}
<1>0. IsFiniteSet(T)
  BY FS_Subset
<1>1. {} \in F
  <2>1. SumFunctionOnSet(f, S) \in Int /\ S \ {} = S
    BY SumTypes
  <2> QED BY <2>1, SumEmpty
<1>2. ASSUME NEW U \in F, NEW x \in T \ U PROVE U \cup {x} \in F
  <2> DEFINE V == S \ U
             W == S \ (U \cup {x})
  <2>1. /\ IsFiniteSet(U) /\ IsFiniteSet(V) /\ IsFiniteSet(W)
        /\ x \in V /\ V \ {x} = W /\ x \notin U /\ f[x] \in Int
        /\ \A y \in U : f[y] \in Int
        /\ \A y \in V : f[y] \in Int
        /\ \A y \in W : f[y] \in Int
    BY FS_Subset
  <2> HIDE DEF V, W
  <2>2. SumFunctionOnSet(f, U \cup {x}) = f[x] + SumFunctionOnSet(f, U)
    BY <2>1, SumAdd
  <2>3. SumFunctionOnSet(f, V) = f[x] + SumFunctionOnSet(f, W)
    BY <2>1, SumRemove
  <2>4. SumFunctionOnSet(f, U) \in Int /\ SumFunctionOnSet(f, W) \in Int
    BY <2>1, SumTypes
  <2>5. SumFunctionOnSet(f, S) = SumFunctionOnSet(f, U) + SumFunctionOnSet(f, V)
    BY DEF V
  <2>6. SumFunctionOnSet(f, S) = SumFunctionOnSet(f, U \cup {x}) + SumFunctionOnSet(f, W)
    BY <2>1, <2>2, <2>3, <2>4, <2>5
  <2>7. U \cup {x} \in SUBSET T
    OBVIOUS
  <2> QED BY <2>6, <2>7 DEF W
<1>3. T \in F
  <2>1. F \in SUBSET SUBSET T OBVIOUS
  <2> HIDE DEF F
  <2> QED BY <1>0, <1>1, <1>2, <2>1, SetInduction
<1> QED BY <1>3

LEMMA SumMonotone ==
    ASSUME NEW f, NEW S, IsFiniteSet(S), \A x \in S : f[x] \in Nat, NEW T \in SUBSET S
    PROVE  /\ SumFunctionOnSet(f, T) \in Nat /\ SumFunctionOnSet(f, S) \in Nat
           /\ SumFunctionOnSet(f, T) <= SumFunctionOnSet(f, S)
<1> DEFINE V == S \ T
<1>1. IsFiniteSet(T) /\ IsFiniteSet(V) /\ (\A x \in T : f[x] \in Nat) /\ (\A x \in V : f[x] \in Nat)
  BY FS_Subset
<1>2. SumFunctionOnSet(f, S) = SumFunctionOnSet(f, T) + SumFunctionOnSet(f, V)
  BY SumSplit
<1> HIDE DEF V
<1>3. SumFunctionOnSet(f, T) \in Nat /\ SumFunctionOnSet(f, V) \in Nat
  BY <1>1, SumTypes
<1> QED BY <1>2, <1>3

\* b maps S one to one onto U and carries the values of f to those of g.
Renames(b, f, S, g, U) ==
    /\ \A x \in S : b[x] \in U /\ f[x] = g[b[x]]
    /\ \A x, y \in S : b[x] = b[y] => x = y
    /\ \A y \in U : \E x \in S : y = b[x]

\* Renaming the indices along a one-to-one map keeps the sum.
LEMMA SumReindex ==
    ASSUME NEW f, NEW S, IsFiniteSet(S), \A x \in S : f[x] \in Int,
           NEW g, NEW U, NEW b, Renames(b, f, S, g, U)
    PROVE  SumFunctionOnSet(f, S) = SumFunctionOnSet(g, U)
<1> USE DEF Renames
<1> DEFINE Image(T) == {b[x] : x \in T}
           F == {T \in SUBSET S : /\ IsFiniteSet(Image(T))
                                  /\ SumFunctionOnSet(f, T) = SumFunctionOnSet(g, Image(T))}
<1>1. {} \in F
  <2>1. Image({}) = {} OBVIOUS
  <2> QED BY <2>1, SumEmpty, FS_EmptySet
<1>2. ASSUME NEW T \in F, NEW x \in S \ T PROVE T \cup {x} \in F
  <2>1. IsFiniteSet(T)
    BY FS_Subset
  <2>2. Image(T \cup {x}) = Image(T) \cup {b[x]}
    OBVIOUS
  <2>3. b[x] \notin Image(T) /\ \A y \in Image(T) : g[y] \in Int
    OBVIOUS
  <2>4. g[b[x]] \in Int /\ f[x] \in Int /\ f[x] = g[b[x]] /\ \A y \in T : f[y] \in Int
    OBVIOUS
  <2>5. IsFiniteSet(Image(T)) /\ SumFunctionOnSet(f, T) = SumFunctionOnSet(g, Image(T))
    OBVIOUS
  <2> HIDE DEF Image
  <2>6. SumFunctionOnSet(f, T \cup {x}) = f[x] + SumFunctionOnSet(f, T)
    BY <2>1, <2>4, SumAdd
  <2>7. SumFunctionOnSet(g, Image(T) \cup {b[x]}) = g[b[x]] + SumFunctionOnSet(g, Image(T))
    BY <2>3, <2>4, <2>5, SumAdd
  <2>8. IsFiniteSet(Image(T) \cup {b[x]})
    BY <2>5, FS_AddElement
  <2> QED BY <2>2, <2>4, <2>5, <2>6, <2>7, <2>8
<1>3. S \in F
  <2>1. F \in SUBSET SUBSET S OBVIOUS
  <2> HIDE DEF F
  <2> QED BY <1>1, <1>2, <2>1, SetInduction
<1>4. Image(S) = U
  OBVIOUS
<1> QED BY <1>3, <1>4

Shifted(S, lo) == {lo + i : i \in S}

\* The case of a map that shifts integer indices.
LEMMA SumShift ==
    ASSUME NEW f, NEW g, NEW S, IsFiniteSet(S), NEW lo \in Int,
           \A i \in S : i \in Int /\ f[i] \in Int /\ f[i] = g[lo + i]
    PROVE  SumFunctionOnSet(f, S) = SumFunctionOnSet(g, Shifted(S, lo))
<1> DEFINE b == [i \in S |-> lo + i]
           U == Shifted(S, lo)
<1>1. Renames(b, f, S, g, U)
  BY DEF Renames, Shifted
<1>2. IsFiniteSet(S) /\ \A x \in S : f[x] \in Int
  OBVIOUS
<1> HIDE DEF b, U
<1>3. SumFunctionOnSet(f, S) = SumFunctionOnSet(g, U)
  BY <1>1, <1>2, SumReindex
<1> QED BY <1>3 DEF U
=============================================================================
