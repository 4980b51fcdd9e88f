----------------------------- MODULE SumProofs -----------------------------
(***************************************************************************)
(* Sums over finite sets, for the proofs about money: what                 *)
(* SumFunctionOnSet(f, S) is when an element comes or goes, when a value   *)
(* changes, and when two sums are compared.                                *)
(*                                                                         *)
(* Sums are defined by recursion over subsets.  Induction over them is     *)
(* stated with sets in place of predicates: a set of subsets that holds    *)
(* a subset whenever it holds what is left of it without any one element,  *)
(* holds them all.                                                         *)
(***************************************************************************)
EXTENDS Integers, FiniteSets, Functions, FiniteSetTheorems, WellFoundedInduction, TLAPS

IntOn(f, S) == \A x \in S : f[x] \in Int

-----------------------------------------------------------------------------
(* Induction.                                                              *)

LEMMA NatMin ==
  ASSUME NEW T \in SUBSET Nat, T # {}
  PROVE  \E x \in T : \A y \in T : x <= y
  <1>1. IsWellFoundedOn(OpToRel(<, Nat), Nat)
    BY NatLessThanWellFounded
  <1>2. PICK x \in T : \A y \in T : ~(<<y, x>> \in OpToRel(<, Nat))
    BY <1>1, WFMin
  <1>3. \A y \in T : ~(y < x)
    BY <1>2 DEF OpToRel
  <1>4. QED
    BY <1>3

LEMMA FiniteSubset ==
  ASSUME NEW S, IsFiniteSet(S), NEW T \in SUBSET S
  PROVE  /\ IsFiniteSet(T) /\ Cardinality(T) \in Nat
         /\ \A x \in T : IsFiniteSet(T \ {x}) /\ Cardinality(T \ {x}) = Cardinality(T) - 1
         /\ Cardinality(T) = 0 <=> T = {}
  BY FS_Subset, FS_CardinalityType, FS_RemoveElement, FS_EmptySet

LEMMA FiniteInduction ==
  ASSUME NEW S, IsFiniteSet(S), NEW Good \in SUBSET SUBSET S,
         \A T \in SUBSET S : (\A x \in T : T \ {x} \in Good) => T \in Good
  PROVE  \A T \in SUBSET S : T \in Good
  <1> DEFINE bad == {U \in SUBSET S : U \notin Good}
             sizes == {Cardinality(T) : T \in bad}
  <1>1. SUFFICES ASSUME bad # {} PROVE FALSE
    OBVIOUS
  <1>2. sizes \in SUBSET Nat /\ sizes # {}
    <2>1. \A T \in SUBSET S : Cardinality(T) \in Nat
      BY FiniteSubset
    <2>2. QED
      BY <1>1, <2>1
  <1>3. PICK n \in sizes : \A m \in sizes : n <= m
    <2> HIDE DEF sizes
    <2>1. QED
      BY <1>2, NatMin
  <1>4. PICK T \in bad : \A U \in bad : Cardinality(T) <= Cardinality(U)
    BY <1>3
  <1>5. ASSUME NEW x \in T PROVE T \ {x} \in Good
    <2>1. T \ {x} \in SUBSET S /\ ~(Cardinality(T) <= Cardinality(T \ {x}))
      BY FiniteSubset
    <2>2. QED
      BY <1>4, <2>1
  <1>6. \A U \in bad : U \in SUBSET S /\ U \notin Good
    OBVIOUS
  <1> HIDE DEF bad, sizes
  <1>7. T \in SUBSET S /\ T \notin Good
    BY <1>6
  <1>8. QED
    BY <1>5, <1>7

-----------------------------------------------------------------------------
(* The recursion has a solution, and only one.                             *)

FirstOf(s) == CHOOSE x \in s : TRUE
Iterated(f, iter, s) == IF s = {} THEN 0 ELSE f[FirstOf(s)] + iter[s \ {FirstOf(s)}]

Solves(f, g, S) == g = [s \in SUBSET S |-> Iterated(f, g, s)]

LEMMA SumIsIterated ==
  ASSUME NEW f, NEW S
  PROVE  SumFunctionOnSet(f, S) = (CHOOSE iter : Solves(f, iter, S))[S]
  BY DEF SumFunctionOnSet, FoldFunctionOnSet, MapThenFoldSet, Solves, Iterated, FirstOf

(* Subsets of less than n elements.                                        *)
Fewer(S, n) == {s \in SUBSET S : Cardinality(s) < n}

LEMMA IterExists ==
  ASSUME NEW f, NEW S, IsFiniteSet(S)
  PROVE  \E g : Solves(f, g, S)
  <1> DEFINE Good(n) == \E g : g = [s \in Fewer(S, n) |-> Iterated(f, g, s)]
             bad == {n \in Nat : ~Good(n)}
  <1>1. bad = {}
    <2>1. SUFFICES ASSUME bad # {} PROVE FALSE
      OBVIOUS
    <2>2. PICK n \in bad : \A m \in bad : n <= m
      <3>1. bad \in SUBSET Nat
        OBVIOUS
      <3> HIDE DEF bad
      <3>2. QED
        BY <2>1, <3>1, NatMin
    <2>3. n # 0
      <3>1. SUFFICES Good(0)
        OBVIOUS
      <3>2. Fewer(S, 0) = {}
        <4>1. \A s \in SUBSET S : Cardinality(s) \in Nat
          BY FS_Subset, FS_CardinalityType
        <4>2. QED
          BY <4>1 DEF Fewer
      <3>3. [u \in {} |-> 0] = [s \in Fewer(S, 0) |-> Iterated(f, [u \in {} |-> 0], s)]
        BY <3>2
      <3>4. QED
        BY <3>3
    <2>4. n - 1 \in Nat /\ Good(n - 1)
      BY <2>2, <2>3
    <2>5. PICK g : g = [s \in Fewer(S, n - 1) |-> Iterated(f, g, s)]
      BY <2>4
    <2> DEFINE h == [s \in Fewer(S, n) |-> Iterated(f, g, s)]
    <2>6. \A s \in Fewer(S, n) : s # {} => s \ {FirstOf(s)} \in Fewer(S, n - 1)
      <3>1. SUFFICES ASSUME NEW s \in Fewer(S, n), s # {} PROVE s \ {FirstOf(s)} \in Fewer(S, n - 1)
        OBVIOUS
      <3>2. FirstOf(s) \in s
        BY <3>1 DEF FirstOf
      <3>3. IsFiniteSet(s) /\ Cardinality(s) \in Nat /\ Cardinality(s) < n
        BY <3>1, FS_Subset, FS_CardinalityType DEF Fewer
      <3>4. Cardinality(s \ {FirstOf(s)}) = Cardinality(s) - 1
        BY <3>2, <3>3, FS_RemoveElement
      <3>5. QED
        BY <2>4, <3>3, <3>4 DEF Fewer
    <2>7. Fewer(S, n - 1) \subseteq Fewer(S, n)
      <3>1. \A s \in SUBSET S : Cardinality(s) \in Nat
        BY FS_Subset, FS_CardinalityType
      <3>2. QED
        BY <2>2, <3>1 DEF Fewer
    <2>8. \A s \in Fewer(S, n - 1) : h[s] = g[s]
      <3>1. \A s \in Fewer(S, n - 1) : g[s] = Iterated(f, g, s)
        BY <2>5
      <3>2. QED
        BY <2>7, <3>1
    <2>9. \A s \in Fewer(S, n) : Iterated(f, g, s) = Iterated(f, h, s)
      BY <2>6, <2>8 DEF Iterated
    <2>10. h = [s \in Fewer(S, n) |-> Iterated(f, h, s)]
      BY <2>9
    <2>11. Good(n)
      BY <2>10
    <2>12. QED
      BY <2>2, <2>11
  <1>2. Cardinality(S) + 1 \in Nat
    BY FS_CardinalityType
  <1>3. Good(Cardinality(S) + 1)
    BY <1>1, <1>2
  <1>4. Fewer(S, Cardinality(S) + 1) = SUBSET S
    <2>1. \A s \in SUBSET S : Cardinality(s) \in Nat /\ Cardinality(s) <= Cardinality(S)
      BY FS_Subset, FS_CardinalityType
    <2>2. QED
      BY <2>1, FS_CardinalityType DEF Fewer
  <1>5. QED
    BY <1>3, <1>4 DEF Solves

LEMMA SolutionsAgree ==
  ASSUME NEW f, NEW S, IsFiniteSet(S), NEW R \in SUBSET S,
         NEW g, Solves(f, g, S), NEW h, Solves(f, h, R)
  PROVE  g[R] = h[R]
  <1> DEFINE Agree == {T \in SUBSET R : g[T] = h[T]}
  <1>1. IsFiniteSet(R)
    BY FS_Subset
  <1>2. \A T \in SUBSET R : g[T] = Iterated(f, g, T) /\ h[T] = Iterated(f, h, T)
    <2>1. \A T \in SUBSET R : T \in SUBSET S
      OBVIOUS
    <2>2. QED
      BY <2>1 DEF Solves
  <1>3. ASSUME NEW T \in SUBSET R, \A x \in T : T \ {x} \in Agree PROVE T \in Agree
    <2>1. T # {} => FirstOf(T) \in T
      BY DEF FirstOf
    <2>2. QED
      BY <1>2, <1>3, <2>1 DEF Iterated
  <1>4. R \in Agree
    <2>1. Agree \in SUBSET SUBSET R
      OBVIOUS
    <2>2. \A T \in SUBSET R : (\A x \in T : T \ {x} \in Agree) => T \in Agree
      BY <1>3
    <2> HIDE DEF Agree
    <2>3. QED
      BY <1>1, <2>1, <2>2, FiniteInduction
  <1>5. QED
    BY <1>4

-----------------------------------------------------------------------------
(* Sums.                                                                   *)

LEMMA SumUnfold ==
  ASSUME NEW f, NEW S, IsFiniteSet(S)
  PROVE  SumFunctionOnSet(f, S) = IF S = {} THEN 0 ELSE f[FirstOf(S)] + SumFunctionOnSet(f, S \ {FirstOf(S)})
  <1> PICK R \in SUBSET S : R = S \ {FirstOf(S)}
    OBVIOUS
  <1>1. PICK g : Solves(f, g, S) /\ SumFunctionOnSet(f, S) = g[S]
    BY IterExists, SumIsIterated
  <1>2. PICK h : Solves(f, h, R) /\ SumFunctionOnSet(f, R) = h[R]
    BY IterExists, SumIsIterated, FS_Subset
  <1>3. g[R] = h[R]
    BY <1>1, <1>2, SolutionsAgree
  <1>4. g[S] = Iterated(f, g, S)
    BY <1>1 DEF Solves
  <1>5. QED
    BY <1>1, <1>2, <1>3, <1>4 DEF Iterated

LEMMA SumEmpty ==
  ASSUME NEW f
  PROVE  SumFunctionOnSet(f, {}) = 0
  BY SumUnfold, FS_EmptySet

LEMMA SumInt ==
  ASSUME NEW f, NEW S, IsFiniteSet(S), IntOn(f, S)
  PROVE  SumFunctionOnSet(f, S) \in Int
  <1> DEFINE Good == {T \in SUBSET S : SumFunctionOnSet(f, T) \in Int}
  <1>1. ASSUME NEW T \in SUBSET S, \A x \in T : T \ {x} \in Good PROVE T \in Good
    <2>1. IsFiniteSet(T)
      BY FS_Subset
    <2>2. T # {} => FirstOf(T) \in T
      BY DEF FirstOf
    <2>3. T = {} => SumFunctionOnSet(f, T) = 0
      BY SumEmpty
    <2>4. T # {} => SumFunctionOnSet(f, T) = f[FirstOf(T)] + SumFunctionOnSet(f, T \ {FirstOf(T)})
      BY <2>1, SumUnfold
    <2>5. T # {} => SumFunctionOnSet(f, T \ {FirstOf(T)}) \in Int /\ f[FirstOf(T)] \in Int
      BY <1>1, <2>2 DEF IntOn
    <2>6. QED
      BY <2>3, <2>4, <2>5
  <1>2. Good \in SUBSET SUBSET S
    OBVIOUS
  <1>3. \A T \in SUBSET S : (\A x \in T : T \ {x} \in Good) => T \in Good
    BY <1>1
  <1> HIDE DEF Good
  <1>4. S \in Good
    BY <1>2, <1>3, FiniteInduction
  <1>5. QED
    BY <1>4 DEF Good

(* Any element may be taken first.                                         *)
LEMMA SumRemove ==
  ASSUME NEW f, NEW S, IsFiniteSet(S), IntOn(f, S), NEW e \in S
  PROVE  SumFunctionOnSet(f, S) = f[e] + SumFunctionOnSet(f, S \ {e})
  <1> DEFINE Good == {T \in SUBSET S : \A x \in T : SumFunctionOnSet(f, T) = f[x] + SumFunctionOnSet(f, T \ {x})}
  <1>1. ASSUME NEW T \in SUBSET S, \A x \in T : T \ {x} \in Good, NEW x \in T
        PROVE  SumFunctionOnSet(f, T) = f[x] + SumFunctionOnSet(f, T \ {x})
    <2> PICK y : y = FirstOf(T)
      OBVIOUS
    <2>1. y \in T
      BY DEF FirstOf
    <2>2. IsFiniteSet(T) /\ IsFiniteSet(T \ {x}) /\ IsFiniteSet(T \ {y}) /\ IsFiniteSet((T \ {x}) \ {y})
      BY FS_Subset
    <2>3. SumFunctionOnSet(f, T) = f[y] + SumFunctionOnSet(f, T \ {y})
      BY <2>1, <2>2, SumUnfold
    <2>4. CASE x = y
      BY <2>3, <2>4
    <2>5. CASE x # y
      <3>1. SumFunctionOnSet(f, T \ {y}) = f[x] + SumFunctionOnSet(f, (T \ {y}) \ {x})
        BY <1>1, <2>1, <2>5
      <3>2. SumFunctionOnSet(f, T \ {x}) = f[y] + SumFunctionOnSet(f, (T \ {x}) \ {y})
        BY <1>1, <2>1, <2>5
      <3>3. (T \ {y}) \ {x} = (T \ {x}) \ {y}
        OBVIOUS
      <3>4. f[x] \in Int /\ f[y] \in Int /\ SumFunctionOnSet(f, (T \ {x}) \ {y}) \in Int
        <4>1. IntOn(f, (T \ {x}) \ {y})
          BY DEF IntOn
        <4>2. QED
          BY <4>1, <2>1, <2>2, SumInt DEF IntOn
      <3> PICK q : q = SumFunctionOnSet(f, (T \ {x}) \ {y})
        OBVIOUS
      <3>5. SumFunctionOnSet(f, T \ {y}) = f[x] + q /\ SumFunctionOnSet(f, T \ {x}) = f[y] + q /\ q \in Int
        BY <3>1, <3>2, <3>3, <3>4
      <3>6. QED
        BY <2>3, <3>4, <3>5
    <2>6. QED
      BY <2>4, <2>5
  <1>2. Good \in SUBSET SUBSET S
    OBVIOUS
  <1>3. \A T \in SUBSET S : (\A x \in T : T \ {x} \in Good) => T \in Good
    BY <1>1
  <1>4. S \in Good
    <2> HIDE DEF Good
    <2>1. QED
      BY <1>2, <1>3, FiniteInduction
  <1>5. QED
    BY <1>4

LEMMA SumAdd ==
  ASSUME NEW f, NEW S, IsFiniteSet(S), NEW e, e \notin S, IntOn(f, S \cup {e})
  PROVE  SumFunctionOnSet(f, S \cup {e}) = f[e] + SumFunctionOnSet(f, S)
  <1>1. IsFiniteSet(S \cup {e}) /\ (S \cup {e}) \ {e} = S
    BY FS_AddElement
  <1>2. QED
    BY <1>1, SumRemove

(* Sums of functions that agree, or are related, value by value.           *)
LEMMA SumSame ==
  ASSUME NEW f, NEW g, NEW S, IsFiniteSet(S), \A x \in S : f[x] = g[x]
  PROVE  SumFunctionOnSet(f, S) = SumFunctionOnSet(g, S)
  <1> DEFINE Good == {T \in SUBSET S : SumFunctionOnSet(f, T) = SumFunctionOnSet(g, T)}
  <1>1. ASSUME NEW T \in SUBSET S, \A x \in T : T \ {x} \in Good PROVE T \in Good
    <2>1. IsFiniteSet(T)
      BY FS_Subset
    <2>2. T # {} => FirstOf(T) \in T
      BY DEF FirstOf
    <2>3. SumFunctionOnSet(f, T) = IF T = {} THEN 0 ELSE f[FirstOf(T)] + SumFunctionOnSet(f, T \ {FirstOf(T)})
      BY <2>1, SumUnfold
    <2>4. SumFunctionOnSet(g, T) = IF T = {} THEN 0 ELSE g[FirstOf(T)] + SumFunctionOnSet(g, T \ {FirstOf(T)})
      BY <2>1, SumUnfold
    <2>5. T # {} => SumFunctionOnSet(f, T \ {FirstOf(T)}) = SumFunctionOnSet(g, T \ {FirstOf(T)})
      BY <1>1, <2>2
    <2>6. QED
      BY <2>2, <2>3, <2>4, <2>5
  <1>2. Good \in SUBSET SUBSET S
    OBVIOUS
  <1>3. \A T \in SUBSET S : (\A x \in T : T \ {x} \in Good) => T \in Good
    BY <1>1
  <1>4. S \in Good
    <2> HIDE DEF Good
    <2>1. QED
      BY <1>2, <1>3, FiniteInduction
  <1>5. QED
    BY <1>4

LEMMA SumOrdered ==
  ASSUME NEW f, NEW g, NEW S, IsFiniteSet(S), IntOn(f, S), IntOn(g, S), \A x \in S : f[x] <= g[x]
  PROVE  SumFunctionOnSet(f, S) <= SumFunctionOnSet(g, S)
  <1> DEFINE Good == {T \in SUBSET S : SumFunctionOnSet(f, T) <= SumFunctionOnSet(g, T)}
  <1>1. ASSUME NEW T \in SUBSET S, \A x \in T : T \ {x} \in Good PROVE T \in Good
    <2>1. CASE T = {}
      BY <2>1, SumEmpty
    <2>2. CASE T # {}
      <3>1. PICK x \in T : TRUE
        BY <2>2
      <3>2. IsFiniteSet(T) /\ IsFiniteSet(T \ {x})
        BY FS_Subset
      <3>3. IntOn(f, T) /\ IntOn(g, T) /\ IntOn(f, T \ {x}) /\ IntOn(g, T \ {x})
        BY DEF IntOn
      <3>4. SumFunctionOnSet(f, T) = f[x] + SumFunctionOnSet(f, T \ {x}) /\ SumFunctionOnSet(g, T) = g[x] + SumFunctionOnSet(g, T \ {x})
        BY <3>2, <3>3, SumRemove
      <3>5. SumFunctionOnSet(f, T \ {x}) \in Int /\ SumFunctionOnSet(g, T \ {x}) \in Int /\ f[x] \in Int /\ g[x] \in Int
        BY <3>2, <3>3, SumInt DEF IntOn
      <3>6. SumFunctionOnSet(f, T \ {x}) <= SumFunctionOnSet(g, T \ {x})
        BY <1>1
      <3>7. QED
        BY <3>4, <3>5, <3>6
    <2>3. QED
      BY <2>1, <2>2
  <1>2. Good \in SUBSET SUBSET S
    OBVIOUS
  <1>3. \A T \in SUBSET S : (\A x \in T : T \ {x} \in Good) => T \in Good
    BY <1>1
  <1>4. S \in Good
    <2> HIDE DEF Good
    <2>1. QED
      BY <1>2, <1>3, FiniteInduction
  <1>5. QED
    BY <1>4

LEMMA SumZero ==
  ASSUME NEW f, NEW S, IsFiniteSet(S), \A x \in S : f[x] = 0
  PROVE  SumFunctionOnSet(f, S) = 0
  <1> DEFINE Good == {T \in SUBSET S : SumFunctionOnSet(f, T) = 0}
  <1>1. ASSUME NEW T \in SUBSET S, \A x \in T : T \ {x} \in Good PROVE T \in Good
    <2>1. IsFiniteSet(T)
      BY FS_Subset
    <2>2. T # {} => FirstOf(T) \in T
      BY DEF FirstOf
    <2>3. SumFunctionOnSet(f, T) = IF T = {} THEN 0 ELSE f[FirstOf(T)] + SumFunctionOnSet(f, T \ {FirstOf(T)})
      BY <2>1, SumUnfold
    <2>4. T # {} => SumFunctionOnSet(f, T \ {FirstOf(T)}) = 0
      BY <1>1, <2>2
    <2>5. QED
      BY <2>2, <2>3, <2>4
  <1>2. Good \in SUBSET SUBSET S
    OBVIOUS
  <1>3. \A T \in SUBSET S : (\A x \in T : T \ {x} \in Good) => T \in Good
    BY <1>1
  <1>4. S \in Good
    <2> HIDE DEF Good
    <2>1. QED
      BY <1>2, <1>3, FiniteInduction
  <1>5. QED
    BY <1>4

LEMMA SumNat ==
  ASSUME NEW f, NEW S, IsFiniteSet(S), \A x \in S : f[x] \in Nat
  PROVE  SumFunctionOnSet(f, S) \in Nat
  <1> DEFINE zero == [x \in S |-> 0]
  <1>1. IntOn(f, S) /\ IntOn(zero, S) /\ \A x \in S : zero[x] <= f[x]
    BY DEF IntOn
  <1>2. SumFunctionOnSet(zero, S) = 0 /\ SumFunctionOnSet(f, S) \in Int
    BY <1>1, SumZero, SumInt
  <1>3. SumFunctionOnSet(zero, S) <= SumFunctionOnSet(f, S)
    <2> HIDE DEF zero
    <2>1. QED
      BY <1>1, SumOrdered
  <1>4. QED
    BY <1>2, <1>3

(* What is summed changes by d at one place.                               *)
LEMMA SumChanged ==
  ASSUME NEW f, NEW g, NEW S, IsFiniteSet(S), IntOn(f, S), NEW e \in S, NEW d \in Int,
         g[e] = f[e] + d, \A x \in S \ {e} : g[x] = f[x]
  PROVE  SumFunctionOnSet(g, S) = SumFunctionOnSet(f, S) + d
  <1>1. IsFiniteSet(S \ {e})
    BY FS_Subset
  <1>2. IntOn(g, S) /\ IntOn(f, S \ {e}) /\ f[e] \in Int
    BY DEF IntOn
  <1>3. SumFunctionOnSet(f, S) = f[e] + SumFunctionOnSet(f, S \ {e}) /\ SumFunctionOnSet(g, S) = g[e] + SumFunctionOnSet(g, S \ {e})
    BY <1>2, SumRemove
  <1>4. SumFunctionOnSet(g, S \ {e}) = SumFunctionOnSet(f, S \ {e})
    BY <1>1, SumSame
  <1>5. SumFunctionOnSet(f, S \ {e}) \in Int
    BY <1>1, <1>2, SumInt
  <1>6. QED
    BY <1>2, <1>3, <1>4, <1>5

(* And by x and y at two places.                                           *)
LEMMA SumChangedTwice ==
  ASSUME NEW f, NEW g, NEW S, IsFiniteSet(S), IntOn(f, S), NEW d \in S, NEW c \in S, d # c,
         NEW x \in Int, NEW y \in Int, g[d] = f[d] + x, g[c] = f[c] + y,
         \A s \in S \ {d, c} : g[s] = f[s]
  PROVE  SumFunctionOnSet(g, S) = SumFunctionOnSet(f, S) + x + y
  <1>1. PICK h : h = [s \in S |-> IF s = d THEN g[d] ELSE f[s]]
    OBVIOUS
  <1>2. h[d] = f[d] + x /\ \A s \in S \ {d} : h[s] = f[s]
    BY <1>1
  <1>3. SumFunctionOnSet(h, S) = SumFunctionOnSet(f, S) + x
    BY <1>2, SumChanged
  <1>4. IntOn(h, S)
    BY <1>2 DEF IntOn
  <1>5. g[c] = h[c] + y /\ \A s \in S \ {c} : g[s] = h[s]
    BY <1>2
  <1>6. SumFunctionOnSet(g, S) = SumFunctionOnSet(h, S) + y
    BY <1>4, <1>5, SumChanged
  <1>7. QED
    BY <1>3, <1>6

(* A sum over two sets that have nothing in common.                        *)
LEMMA SumSplit ==
  ASSUME NEW f, NEW S, IsFiniteSet(S), NEW R, IsFiniteSet(R), S \cap R = {}, IntOn(f, S \cup R)
  PROVE  SumFunctionOnSet(f, S \cup R) = SumFunctionOnSet(f, S) + SumFunctionOnSet(f, R)
  <1> DEFINE Good == {T \in SUBSET R : SumFunctionOnSet(f, S \cup T) = SumFunctionOnSet(f, S) + SumFunctionOnSet(f, T)}
  <1>1. ASSUME NEW T \in SUBSET R, \A x \in T : T \ {x} \in Good PROVE T \in Good
    <2>1. IntOn(f, S) /\ SumFunctionOnSet(f, S) \in Int
      BY SumInt DEF IntOn
    <2>2. CASE T = {}
      BY <2>1, <2>2, SumEmpty
    <2>3. CASE T # {}
      <3>1. PICK x \in T : TRUE
        BY <2>3
      <3>2. IsFiniteSet(T) /\ IsFiniteSet(T \ {x}) /\ IsFiniteSet(S \cup T)
        BY FS_Subset, FS_Union
      <3>3. IntOn(f, T) /\ IntOn(f, T \ {x}) /\ IntOn(f, S \cup T)
        BY DEF IntOn
      <3>4. (S \cup T) \ {x} = S \cup (T \ {x})
        OBVIOUS
      <3>5. SumFunctionOnSet(f, T) = f[x] + SumFunctionOnSet(f, T \ {x}) /\ SumFunctionOnSet(f, S \cup T) = f[x] + SumFunctionOnSet(f, S \cup (T \ {x}))
        BY <3>2, <3>3, <3>4, SumRemove
      <3>6. SumFunctionOnSet(f, T \ {x}) \in Int /\ f[x] \in Int
        BY <3>2, <3>3, SumInt DEF IntOn
      <3>7. SumFunctionOnSet(f, S \cup (T \ {x})) = SumFunctionOnSet(f, S) + SumFunctionOnSet(f, T \ {x})
        BY <1>1
      <3>8. QED
        BY <2>1, <3>5, <3>6, <3>7
    <2>4. QED
      BY <2>2, <2>3
  <1>2. Good \in SUBSET SUBSET R
    OBVIOUS
  <1>3. \A T \in SUBSET R : (\A x \in T : T \ {x} \in Good) => T \in Good
    BY <1>1
  <1>4. R \in Good
    <2> HIDE DEF Good
    <2>1. \A T \in SUBSET R : T \in Good
      BY <1>2, <1>3, FiniteInduction
    <2>2. QED
      BY <2>1
  <1>5. QED
    BY <1>4

(* Nothing is less for having been summed over less.                       *)
LEMMA SumSubset ==
  ASSUME NEW f, NEW S, IsFiniteSet(S), \A x \in S : f[x] \in Nat, NEW T \in SUBSET S
  PROVE  SumFunctionOnSet(f, T) <= SumFunctionOnSet(f, S)
  <1>1. IsFiniteSet(T) /\ IsFiniteSet(S \ T) /\ T \cap (S \ T) = {} /\ T \cup (S \ T) = S
    BY FS_Subset
  <1>2. IntOn(f, S)
    BY DEF IntOn
  <1>3. SumFunctionOnSet(f, S) = SumFunctionOnSet(f, T) + SumFunctionOnSet(f, S \ T)
    <2> PICK R : R = S \ T
      OBVIOUS
    <2>1. IsFiniteSet(R) /\ T \cap R = {} /\ T \cup R = S
      BY <1>1
    <2>2. QED
      BY <1>1, <1>2, <2>1, SumSplit
  <1>4. SumFunctionOnSet(f, T) \in Nat /\ SumFunctionOnSet(f, S \ T) \in Nat
    BY <1>1, SumNat
  <1>5. QED
    BY <1>3, <1>4

(* One more element, for a function that agrees on the others.             *)
LEMMA SumJoined ==
  ASSUME NEW f, NEW g, NEW S, IsFiniteSet(S), NEW e, e \notin S, IntOn(f, S), g[e] \in Int,
         \A x \in S : g[x] = f[x]
  PROVE  SumFunctionOnSet(g, S \cup {e}) = SumFunctionOnSet(f, S) + g[e]
  <1>1. IntOn(g, S \cup {e})
    BY DEF IntOn
  <1>2. SumFunctionOnSet(g, S \cup {e}) = g[e] + SumFunctionOnSet(g, S)
    BY <1>1, SumAdd
  <1>3. SumFunctionOnSet(g, S) = SumFunctionOnSet(f, S)
    BY SumSame
  <1>4. SumFunctionOnSet(f, S) \in Int
    BY SumInt
  <1>5. QED
    BY <1>2, <1>3, <1>4

(* A sum is that of its parts.                                             *)
LEMMA SumParts ==
  ASSUME NEW f, NEW S, IsFiniteSet(S), IntOn(f, S),
         NEW P, IsFiniteSet(P), NEW part \in [P -> SUBSET S],
         \A p, q \in P : p # q => part[p] \cap part[q] = {}
  PROVE  SumFunctionOnSet([p \in P |-> SumFunctionOnSet(f, part[p])], P) =
         SumFunctionOnSet(f, UNION {part[p] : p \in P})
  <1> PICK g : g = [p \in P |-> SumFunctionOnSet(f, part[p])]
    OBVIOUS
  <1> DEFINE Good == {T \in SUBSET P : SumFunctionOnSet(g, T) = SumFunctionOnSet(f, UNION {part[p] : p \in T})}
  <1>1. ASSUME NEW T \in SUBSET P, \A x \in T : T \ {x} \in Good PROVE T \in Good
    <2>1. CASE T = {}
      <3>1. UNION {part[p] : p \in T} = {}
        BY <2>1
      <3>2. QED
        BY <2>1, <3>1, SumEmpty
    <2>2. CASE T # {}
      <3>1. PICK x \in T : TRUE
        BY <2>2
      <3> PICK R : R = UNION {part[p] : p \in T \ {x}}
        OBVIOUS
      <3>2. UNION {part[p] : p \in T} = part[x] \cup R /\ part[x] \cap R = {}
        OBVIOUS
      <3>3. part[x] \in SUBSET S /\ R \in SUBSET S
        OBVIOUS
      <3>4. IsFiniteSet(part[x]) /\ IsFiniteSet(R) /\ IntOn(f, part[x] \cup R)
        BY <3>3, FS_Subset DEF IntOn
      <3>5. SumFunctionOnSet(f, part[x] \cup R) = SumFunctionOnSet(f, part[x]) + SumFunctionOnSet(f, R)
        BY <3>2, <3>4, SumSplit
      <3>6. \A p \in P : g[p] \in Int
        <4>1. SUFFICES ASSUME NEW p \in P PROVE g[p] \in Int
          OBVIOUS
        <4>2. part[p] \in SUBSET S
          OBVIOUS
        <4>3. IsFiniteSet(part[p]) /\ IntOn(f, part[p])
          BY <4>2, FS_Subset DEF IntOn
        <4>4. SumFunctionOnSet(f, part[p]) \in Int
          BY <4>3, SumInt
        <4>5. QED
          BY <4>4
      <3>7. IsFiniteSet(T) /\ IntOn(g, T)
        BY <3>6, FS_Subset DEF IntOn
      <3>8. SumFunctionOnSet(g, T) = g[x] + SumFunctionOnSet(g, T \ {x})
        BY <3>7, SumRemove
      <3>9. SumFunctionOnSet(g, T \ {x}) = SumFunctionOnSet(f, R)
        BY <1>1
      <3>10. QED
        BY <3>2, <3>5, <3>8, <3>9
    <2>3. QED
      BY <2>1, <2>2
  <1>2. Good \in SUBSET SUBSET P
    OBVIOUS
  <1>3. \A T \in SUBSET P : (\A x \in T : T \ {x} \in Good) => T \in Good
    BY <1>1
  <1>4. P \in Good
    <2> HIDE DEF Good
    <2>1. QED
      BY <1>2, <1>3, FiniteInduction
  <1>5. QED
    BY <1>4

(* The sum of a sum.                                                       *)
LEMMA SumOfTwo ==
  ASSUME NEW f, NEW g, NEW h, NEW S, IsFiniteSet(S), IntOn(f, S), IntOn(g, S),
         \A x \in S : h[x] = f[x] + g[x]
  PROVE  SumFunctionOnSet(h, S) = SumFunctionOnSet(f, S) + SumFunctionOnSet(g, S)
  <1> DEFINE Good == {T \in SUBSET S : SumFunctionOnSet(h, T) = SumFunctionOnSet(f, T) + SumFunctionOnSet(g, T)}
  <1>1. ASSUME NEW T \in SUBSET S, \A x \in T : T \ {x} \in Good PROVE T \in Good
    <2>1. CASE T = {}
      BY <2>1, SumEmpty
    <2>2. CASE T # {}
      <3>1. PICK x \in T : TRUE
        BY <2>2
      <3>2. IsFiniteSet(T) /\ IsFiniteSet(T \ {x})
        BY FS_Subset
      <3>3. IntOn(f, T) /\ IntOn(g, T) /\ IntOn(h, T) /\ IntOn(f, T \ {x}) /\ IntOn(g, T \ {x})
        BY DEF IntOn
      <3>4. /\ SumFunctionOnSet(f, T) = f[x] + SumFunctionOnSet(f, T \ {x})
            /\ SumFunctionOnSet(g, T) = g[x] + SumFunctionOnSet(g, T \ {x})
            /\ SumFunctionOnSet(h, T) = h[x] + SumFunctionOnSet(h, T \ {x})
        BY <3>2, <3>3, SumRemove
      <3>5. SumFunctionOnSet(f, T \ {x}) \in Int /\ SumFunctionOnSet(g, T \ {x}) \in Int /\ f[x] \in Int /\ g[x] \in Int
        BY <3>2, <3>3, SumInt DEF IntOn
      <3>6. SumFunctionOnSet(h, T \ {x}) = SumFunctionOnSet(f, T \ {x}) + SumFunctionOnSet(g, T \ {x})
        BY <1>1
      <3>7. h[x] = f[x] + g[x]
        OBVIOUS
      <3>8. SumFunctionOnSet(h, T) = SumFunctionOnSet(f, T) + SumFunctionOnSet(g, T)
        BY <3>4, <3>5, <3>6, <3>7
      <3>9. QED
        BY <3>8
    <2>3. QED
      BY <2>1, <2>2
  <1>2. Good \in SUBSET SUBSET S
    OBVIOUS
  <1>3. \A T \in SUBSET S : (\A x \in T : T \ {x} \in Good) => T \in Good
    BY <1>1
  <1>4. S \in Good
    <2> HIDE DEF Good
    <2>1. QED
      BY <1>2, <1>3, FiniteInduction
  <1>5. QED
    BY <1>4

LEMMA SumNegated ==
  ASSUME NEW f, NEW h, NEW S, IsFiniteSet(S), IntOn(f, S), \A x \in S : h[x] = -f[x]
  PROVE  SumFunctionOnSet(h, S) = -SumFunctionOnSet(f, S)
  <1>1. PICK z : z = [x \in S |-> 0]
    OBVIOUS
  <1>2. IntOn(h, S) /\ \A x \in S : z[x] = f[x] + h[x]
    BY <1>1 DEF IntOn
  <1>3. SumFunctionOnSet(z, S) = SumFunctionOnSet(f, S) + SumFunctionOnSet(h, S)
    BY <1>2, SumOfTwo
  <1>4. SumFunctionOnSet(z, S) = 0
    BY <1>1, SumZero
  <1>5. SumFunctionOnSet(f, S) \in Int /\ SumFunctionOnSet(h, S) \in Int
    BY <1>2, SumInt
  <1>6. QED
    BY <1>3, <1>4, <1>5

ImageOf(g, S) == {g[x] : x \in S}

LEMMA ImageFinite ==
  ASSUME NEW S, IsFiniteSet(S), NEW g
  PROVE  IsFiniteSet(ImageOf(g, S))
  <1>1. PICK h : h = [x \in S |-> g[x]]
    OBVIOUS
  <1>2. h \in [S -> {g[x] : x \in S}] /\ \A t \in {g[x] : x \in S} : \E x \in S : h[x] = t
    BY <1>1
  <1>3. h \in Surjection(S, {g[x] : x \in S})
    BY <1>2 DEF Surjection
  <1>4. QED
    BY <1>3, FS_Surjection DEF ImageOf

(* Summands under other names.                                             *)
LEMMA SumImage ==
  ASSUME NEW S, IsFiniteSet(S), NEW f, NEW g, NEW h,
         \A x, y \in S : x # y => g[x] # g[y],
         \A x \in S : h[x] = f[g[x]] /\ h[x] \in Int
  PROVE  SumFunctionOnSet(f, ImageOf(g, S)) = SumFunctionOnSet(h, S)
  <1> DEFINE Good == {T \in SUBSET S : SumFunctionOnSet(f, ImageOf(g, T)) = SumFunctionOnSet(h, T)}
  <1>1. ASSUME NEW T \in SUBSET S, \A x \in T : T \ {x} \in Good PROVE T \in Good
    <2>1. CASE T = {}
      <3>1. ImageOf(g, T) = {}
        BY <2>1 DEF ImageOf
      <3>2. QED
        BY <2>1, <3>1, SumEmpty
    <2>2. CASE T # {}
      <3>1. PICK x \in T : TRUE
        BY <2>2
      <3>2. IsFiniteSet(T) /\ IsFiniteSet(T \ {x})
        BY FS_Subset
      <3> PICK U : U = ImageOf(g, T \ {x})
        OBVIOUS
      <3>3. ImageOf(g, T) = U \cup {g[x]} /\ g[x] \notin U
        BY DEF ImageOf
      <3>4. IsFiniteSet(U)
        BY <3>2, ImageFinite
      <3>5. IntOn(f, U \cup {g[x]}) /\ IntOn(h, T)
        BY DEF IntOn, ImageOf
      <3>6. SumFunctionOnSet(f, U \cup {g[x]}) = f[g[x]] + SumFunctionOnSet(f, U)
        BY <3>3, <3>4, <3>5, SumAdd
      <3>7. SumFunctionOnSet(h, T) = h[x] + SumFunctionOnSet(h, T \ {x})
        BY <3>2, <3>5, SumRemove
      <3>8. SumFunctionOnSet(f, U) = SumFunctionOnSet(h, T \ {x})
        BY <1>1
      <3>9. SumFunctionOnSet(f, ImageOf(g, T)) = SumFunctionOnSet(h, T)
        BY <3>3, <3>6, <3>7, <3>8
      <3>10. QED
        BY <3>9
    <2>3. QED
      BY <2>1, <2>2
  <1>2. Good \in SUBSET SUBSET S
    OBVIOUS
  <1>3. \A T \in SUBSET S : (\A x \in T : T \ {x} \in Good) => T \in Good
    BY <1>1
  <1>4. S \in Good
    <2> HIDE DEF Good
    <2>1. QED
      BY <1>2, <1>3, FiniteInduction
  <1>5. QED
    BY <1>4

(* Values c times others have c times their sum.                           *)
LEMMA SumScaled ==
  ASSUME NEW f, NEW h, NEW S, IsFiniteSet(S), IntOn(f, S), NEW c \in Int, \A x \in S : h[x] = c * f[x]
  PROVE  SumFunctionOnSet(h, S) = c * SumFunctionOnSet(f, S)
  <1> DEFINE Good == {T \in SUBSET S : SumFunctionOnSet(h, T) = c * SumFunctionOnSet(f, T)}
  <1>1. ASSUME NEW T \in SUBSET S, \A x \in T : T \ {x} \in Good PROVE T \in Good
    <2>1. CASE T = {}
      <3>1. c * 0 = 0
        OBVIOUS
      <3>2. QED
        BY <2>1, <3>1, SumEmpty
    <2>2. CASE T # {}
      <3>1. PICK x \in T : TRUE
        BY <2>2
      <3>2. IsFiniteSet(T) /\ IsFiniteSet(T \ {x})
        BY FS_Subset
      <3>3. IntOn(f, T) /\ IntOn(f, T \ {x}) /\ IntOn(h, T)
        BY DEF IntOn
      <3>4. /\ SumFunctionOnSet(f, T) = f[x] + SumFunctionOnSet(f, T \ {x})
            /\ SumFunctionOnSet(h, T) = h[x] + SumFunctionOnSet(h, T \ {x})
        BY <3>2, <3>3, SumRemove
      <3>5. PICK a \in Int, b \in Int : a = f[x] /\ b = SumFunctionOnSet(f, T \ {x})
        BY <3>2, <3>3, SumInt DEF IntOn
      <3>6. SumFunctionOnSet(h, T \ {x}) = c * b
        BY <1>1, <3>5
      <3>7. h[x] = c * a
        BY <3>5
      <3>8. c * (a + b) = c * a + c * b
        OBVIOUS
      <3>9. SumFunctionOnSet(h, T) = c * SumFunctionOnSet(f, T)
        BY <3>4, <3>5, <3>6, <3>7, <3>8
      <3>10. QED
        BY <3>9
    <2>3. QED
      BY <2>1, <2>2
  <1>2. Good \in SUBSET SUBSET S
    OBVIOUS
  <1>3. \A T \in SUBSET S : (\A x \in T : T \ {x} \in Good) => T \in Good
    BY <1>1
  <1>4. S \in Good
    <2> HIDE DEF Good
    <2>1. QED
      BY <1>2, <1>3, FiniteInduction
  <1>5. QED
    BY <1>4

(* Of values no more than c apart, so many times c apart.                  *)
LEMMA SumNear ==
  ASSUME NEW f, NEW g, NEW S, IsFiniteSet(S), IntOn(f, S), IntOn(g, S), NEW c \in Nat,
         \A x \in S : f[x] <= g[x] + c
  PROVE  SumFunctionOnSet(f, S) <= SumFunctionOnSet(g, S) + c * Cardinality(S)
  <1> DEFINE Good == {T \in SUBSET S : SumFunctionOnSet(f, T) <= SumFunctionOnSet(g, T) + c * Cardinality(T)}
  <1>1. ASSUME NEW T \in SUBSET S, \A x \in T : T \ {x} \in Good PROVE T \in Good
    <2>1. CASE T = {}
      <3>1. c * 0 = 0
        OBVIOUS
      <3>2. Cardinality(T) = 0
        BY <2>1, FS_EmptySet
      <3>3. SumFunctionOnSet(f, T) = 0 /\ SumFunctionOnSet(g, T) = 0
        BY <2>1, SumEmpty
      <3>4. QED
        BY <3>1, <3>2, <3>3
    <2>2. CASE T # {}
      <3>1. PICK x \in T : TRUE
        BY <2>2
      <3>2. IsFiniteSet(T) /\ IsFiniteSet(T \ {x})
        BY FS_Subset
      <3>3. IntOn(f, T) /\ IntOn(g, T) /\ IntOn(f, T \ {x}) /\ IntOn(g, T \ {x})
        BY DEF IntOn
      <3>4. /\ SumFunctionOnSet(f, T) = f[x] + SumFunctionOnSet(f, T \ {x})
            /\ SumFunctionOnSet(g, T) = g[x] + SumFunctionOnSet(g, T \ {x})
        BY <3>2, <3>3, SumRemove
      <3>5. PICK a \in Int, b \in Int : a = f[x] /\ b = SumFunctionOnSet(f, T \ {x})
        BY <3>2, <3>3, SumInt DEF IntOn
      <3>6. PICK k \in Int, l \in Int : k = g[x] /\ l = SumFunctionOnSet(g, T \ {x})
        BY <3>2, <3>3, SumInt DEF IntOn
      <3>7. PICK n \in Nat : n = Cardinality(T \ {x}) /\ Cardinality(T) = n + 1
        BY <3>2, FiniteSubset
      <3>8. a <= k + c
        BY <3>5, <3>6
      <3>9. b <= l + c * n
        BY <1>1, <3>5, <3>6, <3>7
      <3>10. c * (n + 1) = c * n + c /\ c * n \in Int
        OBVIOUS
      <3>11. a + b <= k + l + c * (n + 1)
        BY <3>8, <3>9, <3>10
      <3>12. SumFunctionOnSet(f, T) <= SumFunctionOnSet(g, T) + c * Cardinality(T)
        BY <3>4, <3>5, <3>6, <3>7, <3>11
      <3>13. QED
        BY <3>12
    <2>3. QED
      BY <2>1, <2>2
  <1>2. Good \in SUBSET SUBSET S
    OBVIOUS
  <1>3. \A T \in SUBSET S : (\A x \in T : T \ {x} \in Good) => T \in Good
    BY <1>1
  <1>4. S \in Good
    <2> HIDE DEF Good
    <2>1. QED
      BY <1>2, <1>3, FiniteInduction
  <1>5. QED
    BY <1>4
=============================================================================
