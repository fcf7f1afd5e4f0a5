----------------------------- MODULE SumTheorems -----------------------------
(***************************************************************************)
(* Sums over a finite set of numbers that a function gives to its          *)
(* elements: MapThenSumSet of FiniteSetsExt, which the credit books and    *)
(* the spend counters are stated with.  MapThenSumSet is a recursive       *)
(* function on the subsets of its set.  That the function exists, that it  *)
(* is unique and that the order of the elements does not matter are shown  *)
(* by a smallest counterexample: the strict subsets of a finite set are    *)
(* well-founded.                                                           *)
(***************************************************************************)
EXTENDS Naturals, FiniteSetsExt, FiniteSetTheorems, TLAPS

Sum(f, S) == MapThenSumSet(LAMBDA x : f[x], S)

Chosen(T) == CHOOSE x \in T : TRUE

(* The function that MapThenSumSet defines on the subsets of S.            *)
IsSum(sum, f, S) ==
  sum = [T \in SUBSET S |-> IF T = {} THEN 0 ELSE f[Chosen(T)] + sum[T \ {Chosen(T)}]]

-----------------------------------------------------------------------------
(* The recursive function.                                                 *)

(* Among subsets of a finite set, one has no strict subset.                *)
LEMMA SmallestSubset ==
  ASSUME NEW S, IsFiniteSet(S), NEW B \in SUBSET SUBSET S, B # {}
  PROVE  \E T \in B : \A U \in SUBSET T : U # T => U \notin B
  <1>1. FiniteSubsetsOf(S) = SUBSET S
    BY FS_FiniteSubsetsOfFinite
  <1>2. IsWellFoundedOn(StrictSubsetOrdering(S), FiniteSubsetsOf(S))
    BY FS_StrictSubsetOrderingWellFounded
  <1>3. PICK T \in B : \A U \in B : ~ (<<U, T>> \in StrictSubsetOrdering(S))
    BY <1>1, <1>2, WFMin
  <1>4. ASSUME NEW U \in SUBSET T, U # T PROVE U \notin B
    BY <1>3, <1>4 DEF StrictSubsetOrdering
  <1> QED BY <1>3, <1>4

(* What IsSum says of a subset.                                            *)
LEMMA SumSteps ==
  ASSUME NEW S, NEW f, NEW sum, IsSum(sum, f, S)
  PROVE  /\ sum[{}] = 0
         /\ \A T \in SUBSET S : T # {} =>
              /\ Chosen(T) \in T
              /\ sum[T] = f[Chosen(T)] + sum[T \ {Chosen(T)}]
  <1>1. \A T \in SUBSET S :
          sum[T] = IF T = {} THEN 0 ELSE f[Chosen(T)] + sum[T \ {Chosen(T)}]
    BY DEF IsSum
  <1>2. \A T : T # {} => Chosen(T) \in T
    BY DEF Chosen
  <1> QED BY <1>1, <1>2

(* Two such functions agree where the functions they sum do.               *)
LEMMA SumUnique ==
  ASSUME NEW S, NEW R, NEW f, NEW g, NEW sum, NEW total,
         IsSum(sum, f, S), IsSum(total, g, R),
         NEW V, V \subseteq S, V \subseteq R, IsFiniteSet(V), \A x \in V : f[x] = g[x]
  PROVE  sum[V] = total[V]
  <1> DEFINE B == {T \in SUBSET V : sum[T] # total[T]}
  <1> SUFFICES ASSUME B # {} PROVE FALSE
    OBVIOUS
  <1>1. B \in SUBSET SUBSET V
    OBVIOUS
  <1> HIDE DEF B
  <1>2. PICK T \in B : \A U \in SUBSET T : U # T => U \notin B
    BY <1>1, SmallestSubset
  <1>3. T \in SUBSET S /\ T \in SUBSET R /\ T \in SUBSET V
    BY <1>1, <1>2
  <1>4. CASE T = {}
    BY <1>2, <1>4, SumSteps DEF B
  <1>5. CASE T # {}
    <2>1. Chosen(T) \in T /\ sum[T] = f[Chosen(T)] + sum[T \ {Chosen(T)}]
      BY <1>3, <1>5, SumSteps
    <2>2. total[T] = g[Chosen(T)] + total[T \ {Chosen(T)}]
      <3>1. \A U \in SUBSET R : U # {} => total[U] = g[Chosen(U)] + total[U \ {Chosen(U)}]
        BY SumSteps
      <3> QED BY <1>3, <1>5, <3>1
    <2>3. T \ {Chosen(T)} \notin B
      BY <1>2, <2>1
    <2>4. sum[T \ {Chosen(T)}] = total[T \ {Chosen(T)}]
      BY <1>3, <2>3 DEF B
    <2>5. sum[T] = total[T]
      BY <1>3, <2>1, <2>2, <2>4
    <2> QED BY <1>2, <2>5 DEF B
  <1> QED BY <1>4, <1>5

(* There is one.                                                           *)
LEMMA SumExists ==
  ASSUME NEW S, IsFiniteSet(S), NEW f
  PROVE  \E sum : IsSum(sum, f, S)
  <1> DEFINE B == {T \in SUBSET S : ~ \E sum : IsSum(sum, f, T)}
  <1> SUFFICES ASSUME B # {} PROVE FALSE
    OBVIOUS
  <1>0. B \in SUBSET SUBSET S
    OBVIOUS
  <1> HIDE DEF B
  <1>1. PICK T \in B : \A U \in SUBSET T : U # T => U \notin B
    BY <1>0, SmallestSubset
  <1> DEFINE rest(U) == U \ {Chosen(U)}
             part(U) == CHOOSE sum : IsSum(sum, f, U)
             sum == [U \in SUBSET T |-> IF U = {} THEN 0
                                        ELSE f[Chosen(U)] + part(rest(U))[rest(U)]]
  <1>2. ASSUME NEW U \in SUBSET T, U # {}
        PROVE  rest(U) \in SUBSET T /\ IsSum(part(rest(U)), f, rest(U))
    <2>1. Chosen(U) \in U
      BY <1>2 DEF Chosen
    <2>2. rest(U) \in SUBSET T /\ rest(U) # T
      BY <2>1
    <2>3. \E s : IsSum(s, f, rest(U))
      BY <1>0, <1>1, <2>2 DEF B
    <2> QED BY <2>2, <2>3
  <1>3. ASSUME NEW U \in SUBSET T, U # {}
        PROVE  part(rest(U))[rest(U)] = sum[rest(U)]
    <2> DEFINE V == rest(U)
    <2>1. V \in SUBSET T /\ IsSum(part(V), f, V)
      BY <1>2, <1>3
    <2>2. CASE V = {}
      BY <2>1, <2>2, SumSteps
    <2>3. CASE V # {}
      <3>1. rest(V) \in SUBSET T /\ IsSum(part(rest(V)), f, rest(V))
        BY <1>2, <2>1, <2>3
      <3>2. IsFiniteSet(rest(V))
        <4>1. rest(V) \in SUBSET S
          BY <1>0, <1>1, <2>1
        <4> HIDE DEF rest
        <4> QED BY <4>1, FS_Subset
      <3>3. part(V)[V] = f[Chosen(V)] + part(V)[rest(V)]
        <4> HIDE DEF V, part
        <4> QED BY <2>1, <2>3, SumSteps
      <3>4. part(V)[rest(V)] = part(rest(V))[rest(V)]
        BY <2>1, <3>1, <3>2, SumUnique
      <3>5. sum[V] = f[Chosen(V)] + part(rest(V))[rest(V)]
        BY <2>1, <2>3
      <3> QED BY <3>3, <3>4, <3>5
    <2> QED BY <2>2, <2>3
  <1>4. IsSum(sum, f, T)
    <2>1. ASSUME NEW U \in SUBSET T
          PROVE  sum[U] = IF U = {} THEN 0 ELSE f[Chosen(U)] + sum[rest(U)]
      <3>1. CASE U = {}
        BY <3>1
      <3>2. CASE U # {}
        <4>1. sum[U] = f[Chosen(U)] + part(rest(U))[rest(U)]
          BY <3>2
        <4> HIDE DEF sum, part, rest
        <4> QED BY <1>3, <3>2, <4>1
      <3> QED BY <3>1, <3>2
    <2>2. sum = [U \in SUBSET T |-> sum[U]]
      OBVIOUS
    <2> HIDE DEF sum
    <2>3. sum = [U \in SUBSET T |-> IF U = {} THEN 0 ELSE f[Chosen(U)] + sum[rest(U)]]
      BY <2>1, <2>2
    <2> QED BY <2>3 DEF IsSum
  <1> QED BY <1>0, <1>1, <1>4 DEF B

(* The elements may be added in any order.                                 *)
LEMMA SumInAnyOrder ==
  ASSUME NEW S, IsFiniteSet(S), NEW f, \A x \in S : f[x] \in Nat,
         NEW sum, IsSum(sum, f, S)
  PROVE  \A T \in SUBSET S : /\ sum[T] \in Nat
                             /\ \A x \in T : sum[T] = f[x] + sum[T \ {x}]
  <1>1. \A T \in SUBSET S : sum[T] \in Nat
    <2> DEFINE B == {T \in SUBSET S : sum[T] \notin Nat}
    <2> SUFFICES ASSUME B # {} PROVE FALSE
      OBVIOUS
    <2>0. B \in SUBSET SUBSET S
      OBVIOUS
    <2> HIDE DEF B
    <2>1. PICK T \in B : \A U \in SUBSET T : U # T => U \notin B
      BY <2>0, SmallestSubset
    <2>2. T # {} => /\ Chosen(T) \in T
                    /\ sum[T] = f[Chosen(T)] + sum[T \ {Chosen(T)}]
      BY <2>0, SumSteps
    <2>3. T # {} => sum[T \ {Chosen(T)}] \in Nat
      BY <2>0, <2>1, <2>2 DEF B
    <2>4. sum[T] \in Nat
      <3>1. T = {} => sum[T] = 0
        BY SumSteps
      <3>2. T # {} => f[Chosen(T)] \in Nat
        BY <2>0, <2>1, <2>2
      <3> QED BY <2>2, <2>3, <3>1, <3>2
    <2> QED BY <2>1, <2>4 DEF B
  <1>2. \A T \in SUBSET S : \A x \in T : sum[T] = f[x] + sum[T \ {x}]
    <2> DEFINE B == {T \in SUBSET S : \E x \in T : sum[T] # f[x] + sum[T \ {x}]}
    <2> SUFFICES ASSUME B # {} PROVE FALSE
      OBVIOUS
    <2>0. B \in SUBSET SUBSET S
      OBVIOUS
    <2> HIDE DEF B
    <2>1. PICK T \in B : \A U \in SUBSET T : U # T => U \notin B
      BY <2>0, SmallestSubset
    <2>2. PICK x \in T : sum[T] # f[x] + sum[T \ {x}]
      BY <2>1 DEF B
    <2> DEFINE c == Chosen(T)
               rest == (T \ {x}) \ {c}
    <2>3. c \in T /\ sum[T] = f[c] + sum[T \ {c}]
      BY <2>0, <2>2, SumSteps
    <2>4. c # x
      BY <2>2, <2>3
    <2> HIDE DEF c
    <2>5. T \ {c} \notin B /\ T \ {x} \notin B
      BY <2>1, <2>2, <2>3
    <2>6. sum[T \ {c}] = f[x] + sum[(T \ {c}) \ {x}]
      BY <2>0, <2>2, <2>3, <2>4, <2>5 DEF B
    <2>7. (T \ {c}) \ {x} = rest
      OBVIOUS
    <2>8. sum[T \ {x}] = f[c] + sum[rest]
      BY <2>0, <2>2, <2>3, <2>4, <2>5 DEF B
    <2>9. sum[rest] \in Nat /\ f[x] \in Nat /\ f[c] \in Nat
      BY <1>1, <2>0, <2>2, <2>3
    <2>10. sum[T \ {c}] = f[x] + sum[rest]
      BY <2>6, <2>7
    <2> HIDE DEF rest
    <2>11. f[c] + (f[x] + sum[rest]) = f[x] + (f[c] + sum[rest])
      BY <2>9
    <2> QED BY <2>2, <2>3, <2>8, <2>10, <2>11
  <1> QED BY <1>1, <1>2

-----------------------------------------------------------------------------
(* Sums.                                                                   *)

(* MapThenSumSet is such a function.                                       *)
LEMMA SumDefined ==
  ASSUME NEW S, IsFiniteSet(S), NEW f
  PROVE  \E sum : IsSum(sum, f, S) /\ Sum(f, S) = sum[S]
  <1>1. \E sum : IsSum(sum, f, S)
    BY SumExists
  <1> QED BY <1>1 DEF IsSum, Chosen, Sum, MapThenSumSet, MapThenFoldSet

(* A sum of numbers is a number.                                           *)
THEOREM SumType ==
  ASSUME NEW S, IsFiniteSet(S), NEW f, \A x \in S : f[x] \in Nat
  PROVE  Sum(f, S) \in Nat
  BY SumDefined, SumInAnyOrder

(* The empty sum.                                                          *)
THEOREM SumEmpty ==
  ASSUME NEW f
  PROVE  Sum(f, {}) = 0
  BY SumDefined, SumSteps, FS_EmptySet

(* Sums over one set of functions that agree on it are equal.              *)
THEOREM SumEqual ==
  ASSUME NEW S, IsFiniteSet(S), NEW f, NEW g, \A x \in S : f[x] = g[x]
  PROVE  Sum(f, S) = Sum(g, S)
  BY SumDefined, SumUnique

(* One more element adds its number.                                       *)
THEOREM SumAdd ==
  ASSUME NEW S, IsFiniteSet(S), NEW f, NEW e, e \notin S,
         \A x \in S \cup {e} : f[x] \in Nat
  PROVE  Sum(f, S \cup {e}) = Sum(f, S) + f[e]
  <1> DEFINE T == S \cup {e}
  <1>1. IsFiniteSet(T) /\ T \ {e} = S
    BY FS_AddElement
  <1>2. PICK sum : IsSum(sum, f, T) /\ Sum(f, T) = sum[T]
    BY <1>1, SumDefined
  <1>3. PICK part : IsSum(part, f, S) /\ Sum(f, S) = part[S]
    BY SumDefined
  <1>4. sum[T] = f[e] + sum[S]
    <2>1. e \in T /\ \A x \in T : f[x] \in Nat
      OBVIOUS
    <2> HIDE DEF T
    <2>2. IsFiniteSet(T) /\ IsSum(sum, f, T)
      BY <1>1, <1>2
    <2>3. \A U \in SUBSET T : /\ sum[U] \in Nat
                              /\ \A x \in U : sum[U] = f[x] + sum[U \ {x}]
      BY <2>1, <2>2, SumInAnyOrder
    <2> QED BY <1>1, <2>1, <2>3
  <1>5. sum[S] = part[S]
    BY <1>2, <1>3, SumUnique
  <1>6. f[e] \in Nat /\ part[S] \in Nat
    BY <1>3, SumInAnyOrder
  <1> QED BY <1>2, <1>3, <1>4, <1>5, <1>6

(* A part of a set has no greater sum.                                     *)
THEOREM SumOfPart ==
  ASSUME NEW S, IsFiniteSet(S), NEW f, \A x \in S : f[x] \in Nat,
         NEW T, T \subseteq S
  PROVE  Sum(f, T) <= Sum(f, S)
  <1> DEFINE B == {U \in SUBSET S : T \subseteq U /\ ~(Sum(f, T) <= Sum(f, U))}
  <1> SUFFICES ASSUME B # {} PROVE FALSE
    OBVIOUS
  <1>0. B \in SUBSET SUBSET S
    OBVIOUS
  <1> HIDE DEF B
  <1>1. PICK U \in B : \A V \in SUBSET U : V # U => V \notin B
    BY <1>0, SmallestSubset
  <1>2. IsFiniteSet(U) /\ IsFiniteSet(T) /\ T \subseteq U /\ U \subseteq S
        /\ ~(Sum(f, T) <= Sum(f, U))
    BY <1>0, <1>1, FS_Subset DEF B
  <1>3. Sum(f, T) \in Nat
    BY <1>2, SumType
  <1>4. PICK e \in U : e \notin T
    <2>1. T # U
      BY <1>2, <1>3
    <2> QED BY <1>2, <2>1
  <1>5. IsFiniteSet(U \ {e}) /\ (U \ {e}) \cup {e} = U
    BY <1>2, FS_RemoveElement
  <1>6. Sum(f, U) = Sum(f, U \ {e}) + f[e]
    <2>1. e \notin U \ {e} /\ \A x \in (U \ {e}) \cup {e} : f[x] \in Nat
      BY <1>2, <1>5
    <2> QED BY <1>5, <2>1, SumAdd
  <1>7. Sum(f, T) <= Sum(f, U \ {e})
    BY <1>1, <1>2, <1>4 DEF B
  <1>8. Sum(f, U \ {e}) \in Nat /\ f[e] \in Nat
    BY <1>2, <1>5, SumType
  <1> QED BY <1>2, <1>3, <1>6, <1>7, <1>8

(* An element whose number changes changes the sum by as much.             *)
THEOREM SumChange ==
  ASSUME NEW S, IsFiniteSet(S), NEW f, NEW g, NEW e \in S,
         \A x \in S : f[x] \in Nat /\ g[x] \in Nat,
         \A x \in S \ {e} : g[x] = f[x]
  PROVE  Sum(g, S) + f[e] = Sum(f, S) + g[e]
  <1>1. IsFiniteSet(S \ {e}) /\ (S \ {e}) \cup {e} = S
    BY FS_RemoveElement
  <1>2. /\ Sum(f, S) = Sum(f, S \ {e}) + f[e]
        /\ Sum(g, S) = Sum(g, S \ {e}) + g[e]
    <2> DEFINE R == S \ {e}
    <2>1. e \notin R /\ \A x \in R \cup {e} : f[x] \in Nat /\ g[x] \in Nat
      OBVIOUS
    <2>2. IsFiniteSet(R) /\ R \cup {e} = S
      BY <1>1
    <2> HIDE DEF R
    <2>3. Sum(f, S) = Sum(f, R) + f[e]
      BY <2>1, <2>2, SumAdd
    <2>4. Sum(g, S) = Sum(g, R) + g[e]
      BY <2>1, <2>2, SumAdd
    <2> QED BY <2>3, <2>4 DEF R
  <1>3. Sum(g, S \ {e}) = Sum(f, S \ {e})
    BY <1>1, SumEqual
  <1>4. Sum(f, S \ {e}) \in Nat /\ f[e] \in Nat /\ g[e] \in Nat
    BY <1>1, SumType
  <1> QED BY <1>2, <1>3, <1>4
(* Greater numbers have no smaller sum.                                    *)
THEOREM SumMonotonic ==
  ASSUME NEW S, IsFiniteSet(S), NEW f, NEW g,
         \A x \in S : f[x] \in Nat /\ g[x] \in Nat /\ f[x] <= g[x]
  PROVE  Sum(f, S) <= Sum(g, S)
  <1> DEFINE B == {U \in SUBSET S : ~(Sum(f, U) <= Sum(g, U))}
  <1> SUFFICES ASSUME B # {} PROVE FALSE
    OBVIOUS
  <1>1. B \in SUBSET SUBSET S
    OBVIOUS
  <1> HIDE DEF B
  <1>2. PICK U \in B : \A V \in SUBSET U : V # U => V \notin B
    BY <1>1, SmallestSubset
  <1>3. IsFiniteSet(U) /\ U \subseteq S /\ ~(Sum(f, U) <= Sum(g, U))
    BY <1>1, <1>2, FS_Subset DEF B
  <1>4. PICK e \in U : TRUE
    <2>1. U # {}
      BY <1>3, SumEmpty
    <2> QED BY <2>1
  <1> DEFINE R == U \ {e}
  <1>5. /\ IsFiniteSet(R) /\ R \cup {e} = U /\ e \notin R /\ R \in SUBSET U /\ R # U
        /\ \A x \in U : f[x] \in Nat /\ g[x] \in Nat /\ f[x] <= g[x]
    BY <1>3, <1>4, FS_RemoveElement
  <1> HIDE DEF R
  <1>6. Sum(f, R) <= Sum(g, R)
    BY <1>2, <1>3, <1>5 DEF B
  <1>7. Sum(f, U) = Sum(f, R) + f[e]
    BY <1>5, SumAdd
  <1>8. Sum(g, U) = Sum(g, R) + g[e]
    BY <1>5, SumAdd
  <1>9. \A x \in R : f[x] \in Nat /\ g[x] \in Nat
    BY <1>5
  <1>10. Sum(f, R) \in Nat
    BY <1>5, <1>9, SumType
  <1>11. Sum(g, R) \in Nat
    BY <1>5, <1>9, SumType
  <1> QED BY <1>3, <1>4, <1>5, <1>6, <1>7, <1>8, <1>10, <1>11

(* Elements whose number is zero do not count.                             *)
THEOREM SumOfSupport ==
  ASSUME NEW S, IsFiniteSet(S), NEW f, \A x \in S : f[x] \in Nat,
         NEW T \in SUBSET S, \A x \in S \ T : f[x] = 0
  PROVE  Sum(f, S) = Sum(f, T)
  <1> DEFINE B == {U \in SUBSET S : T \subseteq U /\ Sum(f, U) # Sum(f, T)}
  <1> SUFFICES ASSUME B # {} PROVE FALSE
    OBVIOUS
  <1>1. B \in SUBSET SUBSET S
    OBVIOUS
  <1> HIDE DEF B
  <1>2. PICK U \in B : \A V \in SUBSET U : V # U => V \notin B
    BY <1>1, SmallestSubset
  <1>3. IsFiniteSet(U) /\ U \subseteq S /\ T \subseteq U /\ Sum(f, U) # Sum(f, T)
    BY <1>1, <1>2, FS_Subset DEF B
  <1>4. PICK e \in U : e \notin T
    <2>1. T # U
      BY <1>3
    <2> QED BY <1>3, <2>1
  <1> DEFINE R == U \ {e}
  <1>5. /\ IsFiniteSet(R) /\ R \cup {e} = U /\ e \notin R /\ R \in SUBSET U /\ R # U
        /\ T \subseteq R /\ \A x \in U : f[x] \in Nat
        /\ \A x \in R : f[x] \in Nat
    BY <1>3, <1>4, FS_RemoveElement
  <1>6. f[e] = 0
    BY <1>3, <1>4
  <1> HIDE DEF R
  <1>7. Sum(f, U) = Sum(f, R) + f[e]
    BY <1>5, SumAdd
  <1>8. Sum(f, R) = Sum(f, T)
    BY <1>2, <1>3, <1>5 DEF B
  <1>9. Sum(f, R) \in Nat
    BY <1>5, SumType
  <1> QED BY <1>3, <1>6, <1>7, <1>8, <1>9
=============================================================================
