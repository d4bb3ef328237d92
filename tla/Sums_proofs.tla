---------------------------- MODULE Sums_proofs ----------------------------
(***************************************************************************)
(* Lemmas about sums over finite sets, for the modules that add up ledger  *)
(* entries, payments and receipts with SumFunctionOnSet, and about left    *)
(* folds over sequences.  The library's induction theorems are stated of a *)
(* predicate; the ones here are stated of a set, from the library's        *)
(* minimal-element principle (WFMin).                                      *)
(***************************************************************************)
EXTENDS Integers, SequencesExt, FiniteSetTheorems, TLAPS

\* Induction over the subsets of a finite set, stated of a set of subsets.
LEMMA SubsetInduction ==
    ASSUME NEW S, IsFiniteSet(S), NEW P,
           {} \in P,
           \A T \in SUBSET S : T \in P => \A x \in S \ T : T \cup {x} \in P
    PROVE  \A T \in SUBSET S : T \in P
<1> DEFINE Bad == (SUBSET S) \ P
<1> SUFFICES ASSUME Bad # {} PROVE FALSE
  OBVIOUS
<1>1. IsWellFoundedOn(StrictSubsetOrdering(S), FiniteSubsetsOf(S))
  BY FS_StrictSubsetOrderingWellFounded
<1>2. Bad \subseteq FiniteSubsetsOf(S)
  BY FS_FiniteSubsetsOfFinite
<1>3. PICK T \in Bad : \A U \in Bad : <<U, T>> \notin StrictSubsetOrdering(S)
  <2> HIDE DEF Bad
  <2> QED
    BY <1>1, <1>2, WFMin
<1>4. PICK x \in T : TRUE
  BY <1>3
<1>5. T \ {x} \in SUBSET S /\ T \ {x} \subseteq T /\ T \ {x} # T
  BY <1>3, <1>4
<1>6. T \ {x} \in P
  BY <1>3, <1>5 DEF StrictSubsetOrdering
<1> QED
  BY <1>3, <1>4, <1>6, (T \ {x}) \cup {x} = T

\* The same, from all the smaller subsets.
LEMMA StrongSubsetInduction ==
    ASSUME NEW S, IsFiniteSet(S), NEW P,
           \A T \in SUBSET S : (\A U \in SUBSET T : U # T => U \in P) => T \in P
    PROVE  \A T \in SUBSET S : T \in P
<1> DEFINE Bad == (SUBSET S) \ P
<1> SUFFICES ASSUME Bad # {} PROVE FALSE
  OBVIOUS
<1>1. IsWellFoundedOn(StrictSubsetOrdering(S), FiniteSubsetsOf(S))
  BY FS_StrictSubsetOrderingWellFounded
<1>2. Bad \subseteq FiniteSubsetsOf(S)
  BY FS_FiniteSubsetsOfFinite
<1>3. PICK T \in Bad : \A U \in Bad : <<U, T>> \notin StrictSubsetOrdering(S)
  <2> HIDE DEF Bad
  <2> QED
    BY <1>1, <1>2, WFMin
<1>4. \A U \in SUBSET T : U # T => U \in P
  BY <1>3 DEF StrictSubsetOrdering
<1> QED
  BY <1>3, <1>4

\* Induction over the natural numbers, stated of a set of numbers.
LEMMA NumberInduction ==
    ASSUME NEW P, 0 \in P, \A n \in Nat : n \in P => n + 1 \in P
    PROVE  \A n \in Nat : n \in P
<1> DEFINE Bad == Nat \ P
           Less == {p \in Nat \X Nat : p[1] < p[2]}
<1> SUFFICES ASSUME Bad # {} PROVE FALSE
  OBVIOUS
<1>1. IsWellFoundedOn(Less, Nat)
  BY NatLessThanWellFounded DEF OpToRel
<1>3. PICK n \in Bad : \A m \in Bad : <<m, n>> \notin Less
  <2> Bad \subseteq Nat
    OBVIOUS
  <2> HIDE DEF Less, Bad
  <2> QED
    BY <1>1, WFMin
<1>4. n \in Nat /\ n # 0 /\ n \notin P
  BY <1>3
<1>5. n - 1 \in Nat /\ <<n - 1, n>> \in Less
  BY <1>4
<1>6. n - 1 \in P
  BY <1>3, <1>5
<1> QED
  BY <1>4, <1>5, <1>6

\* What the sum's iteration does at a set.
SumAt(w, g, s) == IF s = {} THEN 0 ELSE LET x == CHOOSE x \in s : TRUE IN w[x] + g[s \ {x}]

\* The iteration of MapThenFoldSet, as a function.
IsIteration(w, S, g) == g = [s \in SUBSET S |-> SumAt(w, g, s)]
Iteration(w, S) == CHOOSE g : IsIteration(w, S, g)

\* There is such a function: from one that is right for sets of n members one
\* is made that is right for sets of n + 1.
LEMMA IterationExists ==
    ASSUME NEW S, IsFiniteSet(S), NEW w
    PROVE  \E g : IsIteration(w, S, g)
<1> DEFINE Upto(g, n) == \A s \in SUBSET S : Cardinality(s) <= n => g[s] = SumAt(w, g, s)
           P == {n \in Nat : \E g : Upto(g, n)}
<1>0. \A s \in SUBSET S : IsFiniteSet(s) /\ Cardinality(s) \in Nat
  BY FS_Subset, FS_CardinalityType
<1>a. \A s \in SUBSET S : s # {} =>
        /\ s \ {CHOOSE x \in s : TRUE} \in SUBSET S
        /\ Cardinality(s \ {CHOOSE x \in s : TRUE}) = Cardinality(s) - 1
  BY <1>0, FS_RemoveElement
<1>1. 0 \in P
  <2>1. Upto([s \in SUBSET S |-> 0], 0)
    BY <1>0, FS_EmptySet DEF SumAt
  <2> QED
    BY <2>1
<1>2. ASSUME NEW n \in Nat, n \in P PROVE n + 1 \in P
  <2>1. PICK g : Upto(g, n)
    BY <1>2
  <2> DEFINE h == [s \in SUBSET S |-> SumAt(w, g, s)]
  <2>2. ASSUME NEW s \in SUBSET S, Cardinality(s) <= n + 1 PROVE h[s] = SumAt(w, h, s)
    <3>1. CASE s = {}
      BY <3>1 DEF SumAt
    <3>2. CASE s # {}
      <4> DEFINE t == s \ {CHOOSE x \in s : TRUE}
      <4>1. t \in SUBSET S /\ Cardinality(t) <= n
        BY <1>0, <1>a, <2>2, <3>2
      <4>2. h[t] = g[t]
        BY <2>1, <4>1
      <4> QED
        BY <3>2, <4>2 DEF SumAt
    <3> QED
      BY <3>1, <3>2
  <2>3. Upto(h, n + 1)
    BY <2>2
  <2>4. \E f : Upto(f, n + 1)
    BY <2>3
  <2> HIDE DEF Upto
  <2> QED
    BY <2>4
<1>3. Cardinality(S) \in P
  <2> HIDE DEF P
  <2> QED
    BY <1>0, <1>1, <1>2, NumberInduction
<1>4. PICK g : Upto(g, Cardinality(S))
  BY <1>3
<1>5. \A s \in SUBSET S : g[s] = SumAt(w, g, s)
  BY <1>4, FS_Subset
<1> DEFINE h == [s \in SUBSET S |-> SumAt(w, g, s)]
<1>6. \A s \in SUBSET S : SumAt(w, h, s) = SumAt(w, g, s)
  <2> TAKE s \in SUBSET S
  <2>1. CASE s # {}
    <3> s \ {CHOOSE x \in s : TRUE} \in SUBSET S
      OBVIOUS
    <3> QED
      BY <1>5, <2>1 DEF SumAt
  <2> QED
    BY <2>1 DEF SumAt
<1>7. IsIteration(w, S, h)
  BY <1>6 DEF IsIteration
<1> QED
  BY <1>7

\* The library's sum over a set, as a function of the set's subsets.
LEMMA SumIsIteration ==
    ASSUME NEW w, NEW S
    PROVE  SumFunctionOnSet(w, S) = Iteration(w, S)[S]
BY DEF SumFunctionOnSet, FoldFunctionOnSet, MapThenFoldSet, Iteration, IsIteration, SumAt

\* That function takes one element at a time.
LEMMA IterationStep ==
    ASSUME NEW S, IsFiniteSet(S), NEW w, NEW T \in SUBSET S
    PROVE  Iteration(w, S)[T] = SumAt(w, Iteration(w, S), T)
<1>1. IsIteration(w, S, Iteration(w, S))
  BY IterationExists DEF Iteration
<1> QED
  BY <1>1 DEF IsIteration

\* The iterations over two sets agree on the sets that both contain.
LEMMA IterationsAgree ==
    ASSUME NEW S, IsFiniteSet(S), NEW w, NEW T \in SUBSET S
    PROVE  Iteration(w, S)[T] = Iteration(w, T)[T]
<1> DEFINE P == {U \in SUBSET T : Iteration(w, S)[U] = Iteration(w, T)[U]}
<1>1. IsFiniteSet(T)
  BY FS_Subset
<1>2. ASSUME NEW U \in SUBSET T, \A V \in SUBSET U : V # U => V \in P PROVE U \in P
  <2>1. /\ Iteration(w, S)[U] = SumAt(w, Iteration(w, S), U)
        /\ Iteration(w, T)[U] = SumAt(w, Iteration(w, T), U)
    BY <1>1, IterationStep
  <2>2. CASE U # {}
    <3> DEFINE V == U \ {CHOOSE x \in U : TRUE}
    <3>1. V \in SUBSET U /\ V # U
      BY <2>2
    <3>2. Iteration(w, S)[V] = Iteration(w, T)[V]
      BY <1>2, <3>1
    <3> QED
      BY <2>1, <2>2, <3>2 DEF SumAt
  <2> QED
    BY <2>1, <2>2 DEF SumAt
<1>3. T \in P
  <2> HIDE DEF P
  <2> QED
    BY <1>1, <1>2, StrongSubsetInduction
<1> QED
  BY <1>3

\* The sum over a set is one of its members' and the sum over the others.
LEMMA SumStep ==
    ASSUME NEW S, IsFiniteSet(S), NEW w
    PROVE  SumFunctionOnSet(w, S) =
               IF S = {} THEN 0
               ELSE LET x == CHOOSE x \in S : TRUE IN w[x] + SumFunctionOnSet(w, S \ {x})
<1>1. SumFunctionOnSet(w, S) = SumAt(w, Iteration(w, S), S)
  BY SumIsIteration, IterationStep
<1>2. CASE S # {}
  <2> DEFINE T == S \ {CHOOSE x \in S : TRUE}
  <2>1. Iteration(w, S)[T] = SumFunctionOnSet(w, T)
    BY SumIsIteration, IterationsAgree
  <2> QED
    BY <1>1, <1>2, <2>1 DEF SumAt
<1> QED
  BY <1>1, <1>2 DEF SumAt

\* The empty sum.
LEMMA SumEmpty == \A w : SumFunctionOnSet(w, {}) = 0
BY SumStep, FS_EmptySet

\* A sum of integers is an integer.
LEMMA SumType ==
    ASSUME NEW S, IsFiniteSet(S), NEW w, \A x \in S : w[x] \in Int
    PROVE  SumFunctionOnSet(w, S) \in Int
<1> DEFINE P == {T \in SUBSET S : SumFunctionOnSet(w, T) \in Int}
<1>1. ASSUME NEW T \in SUBSET S, \A U \in SUBSET T : U # T => U \in P PROVE T \in P
  <2>1. IsFiniteSet(T)
    BY FS_Subset
  <2>2. CASE T # {}
    <3> DEFINE x == CHOOSE x \in T : TRUE
    <3>1. x \in T /\ T \ {x} \in SUBSET T /\ T \ {x} # T
      BY <2>2
    <3>2. SumFunctionOnSet(w, T) = w[x] + SumFunctionOnSet(w, T \ {x})
      BY <2>1, <2>2, SumStep
    <3> HIDE DEF x
    <3> QED
      BY <1>1, <3>1, <3>2
  <2> QED
    BY <2>2, SumEmpty
<1>2. S \in P
  <2> HIDE DEF P
  <2> QED
    BY <1>1, StrongSubsetInduction
<1> QED
  BY <1>2

\* Any member may be taken out of a sum.
LEMMA SumRemove ==
    ASSUME NEW S, IsFiniteSet(S), NEW w, \A x \in S : w[x] \in Int, NEW e \in S
    PROVE  SumFunctionOnSet(w, S) = w[e] + SumFunctionOnSet(w, S \ {e})
<1> DEFINE P == {T \in SUBSET S : \A y \in T :
                    SumFunctionOnSet(w, T) = w[y] + SumFunctionOnSet(w, T \ {y})}
<1>1. ASSUME NEW T \in SUBSET S, \A U \in SUBSET T : U # T => U \in P PROVE T \in P
  <2> SUFFICES ASSUME NEW y \in T
               PROVE  SumFunctionOnSet(w, T) = w[y] + SumFunctionOnSet(w, T \ {y})
    OBVIOUS
  <2>1. IsFiniteSet(T) /\ \A U \in SUBSET T : IsFiniteSet(U)
    BY FS_Subset
  <2>2. PICK x \in T : SumFunctionOnSet(w, T) = w[x] + SumFunctionOnSet(w, T \ {x})
    BY <2>1, SumStep
  <2>3. CASE x # y
    <3>1. /\ SumFunctionOnSet(w, T \ {x}) = w[y] + SumFunctionOnSet(w, (T \ {x}) \ {y})
          /\ SumFunctionOnSet(w, T \ {y}) = w[x] + SumFunctionOnSet(w, (T \ {y}) \ {x})
      BY <1>1, <2>2, <2>3
    <3>2. (T \ {x}) \ {y} = (T \ {y}) \ {x}
      OBVIOUS
    <3> DEFINE rest == SumFunctionOnSet(w, (T \ {y}) \ {x})
    <3>3. rest \in Int /\ w[x] \in Int /\ w[y] \in Int
      BY <2>1, SumType
    <3>4. /\ SumFunctionOnSet(w, T) = w[x] + (w[y] + rest)
          /\ SumFunctionOnSet(w, T \ {y}) = w[x] + rest
      BY <2>2, <3>1, <3>2
    <3> HIDE DEF rest
    <3> QED
      BY <3>3, <3>4
  <2> QED
    BY <2>2, <2>3
<1>2. S \in P
  <2> HIDE DEF P
  <2> QED
    BY <1>1, StrongSubsetInduction
<1> QED
  BY <1>2

\* A new member adds its own value to a sum.
LEMMA SumAdd ==
    ASSUME NEW S, IsFiniteSet(S), NEW w, NEW e, e \notin S, \A x \in S \cup {e} : w[x] \in Int
    PROVE  /\ IsFiniteSet(S \cup {e})
           /\ SumFunctionOnSet(w, S \cup {e}) = w[e] + SumFunctionOnSet(w, S)
<1>1. IsFiniteSet(S \cup {e})
  BY FS_AddElement
<1>2. (S \cup {e}) \ {e} = S
  OBVIOUS
<1> QED
  BY <1>1, <1>2, SumRemove

\* Sums of the same values are the same.
LEMMA SumCongruence ==
    ASSUME NEW S, IsFiniteSet(S), NEW w, NEW v, \A x \in S : w[x] = v[x]
    PROVE  SumFunctionOnSet(w, S) = SumFunctionOnSet(v, S)
<1> DEFINE P == {T \in SUBSET S : SumFunctionOnSet(w, T) = SumFunctionOnSet(v, T)}
<1>1. ASSUME NEW T \in SUBSET S, \A U \in SUBSET T : U # T => U \in P PROVE T \in P
  <2>1. IsFiniteSet(T)
    BY FS_Subset
  <2>2. CASE T # {}
    <3> DEFINE x == CHOOSE x \in T : TRUE
    <3>1. x \in T /\ T \ {x} \in SUBSET T /\ T \ {x} # T
      BY <2>2
    <3>2. /\ SumFunctionOnSet(w, T) = w[x] + SumFunctionOnSet(w, T \ {x})
          /\ SumFunctionOnSet(v, T) = v[x] + SumFunctionOnSet(v, T \ {x})
      BY <2>1, <2>2, SumStep
    <3> HIDE DEF x
    <3>3. SumFunctionOnSet(w, T \ {x}) = SumFunctionOnSet(v, T \ {x}) /\ w[x] = v[x]
      BY <1>1, <3>1
    <3> QED
      BY <3>2, <3>3
  <2> QED
    BY <2>2, SumEmpty
<1>2. S \in P
  <2> HIDE DEF P
  <2> QED
    BY <1>1, StrongSubsetInduction
<1> QED
  BY <1>2

\* Changing one value changes the sum by as much.
LEMMA SumUpdate ==
    ASSUME NEW S, IsFiniteSet(S), NEW w, NEW v, NEW e \in S,
           \A x \in S : w[x] \in Int, v[e] \in Int, \A x \in S \ {e} : v[x] = w[x]
    PROVE  SumFunctionOnSet(v, S) = SumFunctionOnSet(w, S) + (v[e] - w[e])
<1>1. IsFiniteSet(S \ {e}) /\ \A x \in S : v[x] \in Int
  BY FS_RemoveElement
<1>2. SumFunctionOnSet(w, S) = w[e] + SumFunctionOnSet(w, S \ {e})
  BY SumRemove
<1>3. SumFunctionOnSet(v, S) = v[e] + SumFunctionOnSet(v, S \ {e})
  BY <1>1, SumRemove
<1>4. SumFunctionOnSet(v, S \ {e}) = SumFunctionOnSet(w, S \ {e})
  BY <1>1, SumCongruence
<1> DEFINE rest == SumFunctionOnSet(w, S \ {e})
           old == w[e]
           new == v[e]
<1>5. rest \in Int /\ old \in Int /\ new \in Int
  BY <1>1, SumType
<1>6. SumFunctionOnSet(w, S) = old + rest /\ SumFunctionOnSet(v, S) = new + rest
  BY <1>2, <1>3, <1>4
<1>7. new + rest = (old + rest) + (new - old)
  <2> HIDE DEF rest, old, new
  <2> QED
    BY <1>5
<1> QED
  BY <1>6, <1>7

\* A sum is at least the sum of smaller values.
LEMMA SumMonotone ==
    ASSUME NEW S, IsFiniteSet(S), NEW w, NEW v,
           \A x \in S : w[x] \in Int /\ v[x] \in Int /\ w[x] <= v[x]
    PROVE  SumFunctionOnSet(w, S) <= SumFunctionOnSet(v, S)
<1> DEFINE P == {T \in SUBSET S : SumFunctionOnSet(w, T) <= SumFunctionOnSet(v, T)}
<1>1. ASSUME NEW T \in SUBSET S, T \in P, NEW x \in S \ T PROVE T \cup {x} \in P
  <2>1. IsFiniteSet(T)
    BY FS_Subset
  <2>2. /\ SumFunctionOnSet(w, T \cup {x}) = w[x] + SumFunctionOnSet(w, T)
        /\ SumFunctionOnSet(v, T \cup {x}) = v[x] + SumFunctionOnSet(v, T)
    BY <2>1, SumAdd
  <2>3. SumFunctionOnSet(w, T) \in Int /\ SumFunctionOnSet(v, T) \in Int
    BY <2>1, SumType
  <2>4. SumFunctionOnSet(w, T) <= SumFunctionOnSet(v, T)
    BY <1>1
  <2>5. w[x] \in Int /\ v[x] \in Int /\ w[x] <= v[x]
    OBVIOUS
  <2> QED
    BY <2>2, <2>3, <2>4, <2>5
<1>2. {} \in P
  BY SumEmpty
<1>3. S \in P
  <2> HIDE DEF P
  <2> QED
    BY <1>1, <1>2, SubsetInduction
<1> QED
  BY <1>3

\* A sum of zeroes is zero.
LEMMA SumZero ==
    ASSUME NEW S, IsFiniteSet(S), NEW w, \A x \in S : w[x] = 0
    PROVE  SumFunctionOnSet(w, S) = 0
<1> DEFINE P == {T \in SUBSET S : SumFunctionOnSet(w, T) = 0}
<1>1. ASSUME NEW T \in SUBSET S, T \in P, NEW x \in S \ T PROVE T \cup {x} \in P
  <2>1. IsFiniteSet(T) /\ x \notin T /\ \A y \in T \cup {x} : w[y] \in Int
    BY FS_Subset
  <2>2. SumFunctionOnSet(w, T \cup {x}) = w[x] + SumFunctionOnSet(w, T)
    BY <2>1, SumAdd
  <2> QED
    BY <1>1, <2>2
<1>2. {} \in P
  BY SumEmpty
<1>3. S \in P
  <2> HIDE DEF P
  <2> QED
    BY <1>1, <1>2, SubsetInduction
<1> QED
  BY <1>3

\* A sum of differences and sums is the same of the sums.
LEMMA SumCombine ==
    ASSUME NEW S, IsFiniteSet(S), NEW t, NEW u, NEW v, NEW w,
           \A x \in S : u[x] \in Int /\ v[x] \in Int /\ w[x] \in Int /\ t[x] = u[x] - v[x] + w[x]
    PROVE  SumFunctionOnSet(t, S) = SumFunctionOnSet(u, S) - SumFunctionOnSet(v, S) + SumFunctionOnSet(w, S)
<1> DEFINE P == {T \in SUBSET S : SumFunctionOnSet(t, T) =
                    SumFunctionOnSet(u, T) - SumFunctionOnSet(v, T) + SumFunctionOnSet(w, T)}
<1>1. {} \in P
  BY SumEmpty
<1>2. ASSUME NEW T \in SUBSET S, T \in P, NEW x \in S \ T PROVE T \cup {x} \in P
  <2>1. IsFiniteSet(T)
    BY FS_Subset
  <2>2. \A y \in T \cup {x} : u[y] \in Int /\ v[y] \in Int /\ w[y] \in Int /\ t[y] \in Int
    OBVIOUS
  <2>3. /\ SumFunctionOnSet(u, T \cup {x}) = u[x] + SumFunctionOnSet(u, T)
        /\ SumFunctionOnSet(v, T \cup {x}) = v[x] + SumFunctionOnSet(v, T)
        /\ SumFunctionOnSet(w, T \cup {x}) = w[x] + SumFunctionOnSet(w, T)
        /\ SumFunctionOnSet(t, T \cup {x}) = t[x] + SumFunctionOnSet(t, T)
    BY <2>1, <2>2, SumAdd
  <2>4. /\ SumFunctionOnSet(u, T) \in Int /\ SumFunctionOnSet(v, T) \in Int /\ SumFunctionOnSet(w, T) \in Int
        /\ SumFunctionOnSet(t, T) \in Int
    BY <2>1, <2>2, SumType
  <2>5. SumFunctionOnSet(t, T) = SumFunctionOnSet(u, T) - SumFunctionOnSet(v, T) + SumFunctionOnSet(w, T)
    BY <1>2
  <2>6. t[x] = u[x] - v[x] + w[x]
    OBVIOUS
  <2>7. SumFunctionOnSet(t, T \cup {x}) =
          SumFunctionOnSet(u, T \cup {x}) - SumFunctionOnSet(v, T \cup {x}) + SumFunctionOnSet(w, T \cup {x})
    BY <2>2, <2>3, <2>4, <2>5, <2>6
  <2> QED
    BY <2>7
<1>3. S \in P
  <2> HIDE DEF P
  <2> QED
    BY <1>1, <1>2, SubsetInduction
<1> QED
  BY <1>3

\* A part of a sum of natural numbers is at most the whole.
LEMMA SumSubset ==
    ASSUME NEW S, IsFiniteSet(S), NEW T \in SUBSET S, NEW w, \A x \in S : w[x] \in Nat
    PROVE  /\ SumFunctionOnSet(w, T) \in Nat
           /\ SumFunctionOnSet(w, T) <= SumFunctionOnSet(w, S)
<1> DEFINE P == {U \in SUBSET S : SumFunctionOnSet(w, U \cap T) \in Nat
                                 /\ SumFunctionOnSet(w, U \cap T) <= SumFunctionOnSet(w, U)}
<1>1. ASSUME NEW U \in SUBSET S, U \in P, NEW x \in S \ U PROVE U \cup {x} \in P
  <2>1. /\ IsFiniteSet(U) /\ IsFiniteSet(U \cap T)
        /\ x \notin U /\ x \notin U \cap T
        /\ \A y \in U \cup {x} : w[y] \in Int
        /\ \A y \in (U \cap T) \cup {x} : w[y] \in Int
    BY FS_Subset
  <2>2. SumFunctionOnSet(w, U \cup {x}) = w[x] + SumFunctionOnSet(w, U)
    BY <2>1, SumAdd
  <2>3. SumFunctionOnSet(w, U) \in Int /\ SumFunctionOnSet(w, U \cap T) \in Nat /\ w[x] \in Nat
        /\ SumFunctionOnSet(w, U \cap T) <= SumFunctionOnSet(w, U)
    BY <1>1, <2>1, SumType
  <2>4. CASE x \in T
    <3>1. (U \cup {x}) \cap T = (U \cap T) \cup {x}
      BY <2>4
    <3>2. SumFunctionOnSet(w, (U \cap T) \cup {x}) = w[x] + SumFunctionOnSet(w, U \cap T)
      BY <2>1, SumAdd
    <3>3. SumFunctionOnSet(w, (U \cup {x}) \cap T) = w[x] + SumFunctionOnSet(w, U \cap T)
      BY <3>1, <3>2
    <3> QED
      BY <2>2, <2>3, <3>3
  <2>5. CASE x \notin T
    <3>1. (U \cup {x}) \cap T = U \cap T
      BY <2>5
    <3>2. SumFunctionOnSet(w, (U \cup {x}) \cap T) = SumFunctionOnSet(w, U \cap T)
      BY <3>1
    <3> QED
      BY <2>2, <2>3, <3>2
  <2> QED
    BY <2>4, <2>5
<1>2. {} \in P
  BY SumEmpty, {} \cap T = {}
<1>3. S \in P
  <2> HIDE DEF P
  <2> QED
    BY <1>1, <1>2, SubsetInduction
<1> QED
  BY <1>3, S \cap T = T

-----------------------------------------------------------------------------
(* Left folds over sequences.                                               *)

\* A set of positions has a last one.
LEMMA LastPosition ==
    ASSUME NEW n \in Nat, NEW S \in SUBSET (1 .. n), S # {}
    PROVE  Max(S) \in S /\ \A y \in S : Max(S) >= y
<1> DEFINE P == {m \in Nat : \A T \in SUBSET (1 .. m) : T # {} => \E x \in T : \A y \in T : x >= y}
<1>1. 0 \in P
  BY 1 .. 0 = {}
<1>2. ASSUME NEW m \in Nat, m \in P PROVE m + 1 \in P
  <2> SUFFICES ASSUME NEW T \in SUBSET (1 .. m + 1), T # {}
               PROVE  \E x \in T : \A y \in T : x >= y
    OBVIOUS
  <2>1. CASE m + 1 \in T
    BY <2>1
  <2>2. CASE m + 1 \notin T
    <3>1. T \in SUBSET (1 .. m)
      BY <2>2
    <3> QED
      BY <1>2, <3>1
  <2> QED
    BY <2>1, <2>2
<1>3. n \in P
  <2> HIDE DEF P
  <2> QED
    BY <1>1, <1>2, NumberInduction
<1> QED
  BY <1>3 DEF Max

\* What comes out of an iteration for each set of positions.
Iterates(A, F, base, N, seq, g) ==
    \A s \in SUBSET (1 .. N) :
      /\ g[s] \in A
      /\ g[s] = IF s = {} THEN base ELSE F[<<g[s \ {Max(s)}], seq[Max(s)]>>]
\* An iteration over the positions of a sequence has such a function.
LEMMA PositionsIterate ==
    ASSUME NEW A, NEW B, NEW F \in [A \X B -> A], NEW base \in A, NEW N \in Nat, NEW seq \in [1 .. N -> B]
    PROVE  \E g : Iterates(A, F, base, N, seq, g)
<1> DEFINE P == {n \in Nat : n <= N => \E g : Iterates(A, F, base, n, seq, g)}
<1>1. 0 \in P
  <2> DEFINE g == [s \in {{}} |-> base]
  <2>1. g[{}] = base /\ 1 .. 0 = {}
    OBVIOUS
  <2>2. Iterates(A, F, base, 0, seq, g)
    BY <2>1 DEF Iterates
  <2> QED
    BY <2>2
<1>2. ASSUME NEW n \in Nat, n \in P PROVE n + 1 \in P
  <2> SUFFICES ASSUME n + 1 <= N PROVE \E h : Iterates(A, F, base, n + 1, seq, h)
    OBVIOUS
  <2>1. PICK g : Iterates(A, F, base, n, seq, g)
    BY <1>2
  <2> DEFINE h == [s \in SUBSET (1 .. n + 1) |->
                     IF n + 1 \in s THEN F[<<g[s \ {n + 1}], seq[n + 1]>>] ELSE g[s]]
  <2>2. ASSUME NEW s \in SUBSET (1 .. n + 1)
        PROVE  /\ h[s] \in A
               /\ h[s] = IF s = {} THEN base ELSE F[<<h[s \ {Max(s)}], seq[Max(s)]>>]
    <3>1. CASE n + 1 \in s
      <4> DEFINE t == s \ {n + 1}
      <4>1. t \in SUBSET (1 .. n) /\ t \in SUBSET (1 .. n + 1) /\ n + 1 \notin t
        OBVIOUS
      <4>2. h[t] = g[t] /\ g[t] \in A
        BY <2>1, <4>1 DEF Iterates
      <4>3. Max(s) = n + 1
        <5>0. n + 1 \in Nat
          OBVIOUS
        <5>1. Max(s) \in s /\ \A y \in s : Max(s) >= y
          BY <3>1, <5>0, LastPosition
        <5>2. PICK m \in 1 .. n + 1 : m = Max(s)
          BY <5>1
        <5>3. m >= n + 1
          BY <3>1, <5>1, <5>2
        <5> QED
          BY <5>2, <5>3
      <4>4. seq[n + 1] \in B
        OBVIOUS
      <4>5. h[s] = F[<<g[t], seq[n + 1]>>]
        BY <3>1
      <4>6. <<g[t], seq[n + 1]>> \in A \X B
        BY <4>2, <4>4
      <4> HIDE DEF h, t
      <4>7. h[s] \in A
        BY <4>5, <4>6
      <4> QED
        BY <3>1, <4>2, <4>3, <4>5, <4>7 DEF t
    <3>2. CASE n + 1 \notin s
      <4>1. s \in SUBSET (1 .. n)
        BY <3>2
      <4>2. h[s] = g[s]
        BY <3>2
      <4>3. ASSUME s # {} PROVE h[s \ {Max(s)}] = g[s \ {Max(s)}]
        <5>1. n + 1 \notin s \ {Max(s)} /\ s \ {Max(s)} \in SUBSET (1 .. n + 1)
          BY <3>2
        <5> QED
          BY <5>1
      <4> HIDE DEF h
      <4> QED
        BY <2>1, <4>1, <4>2, <4>3 DEF Iterates
    <3> QED
      BY <3>1, <3>2
  <2> HIDE DEF h
  <2> QED
    BY <2>2 DEF Iterates
<1>3. N \in P
  <2> HIDE DEF P
  <2> QED
    BY <1>1, <1>2, NumberInduction
<1> QED
  BY <1>3

\* The last of the first positions is left out of them.
LEMMA FirstPositions ==
    ASSUME NEW k \in Nat
    PROVE  Max(1 .. (k + 1)) = k + 1 /\ (1 .. (k + 1)) \ {k + 1} = 1 .. k
<1>1. Max(1 .. (k + 1)) \in 1 .. (k + 1) /\ \A y \in 1 .. (k + 1) : Max(1 .. (k + 1)) >= y
  <2>1. 1 .. (k + 1) \in SUBSET (1 .. (k + 1)) /\ 1 .. (k + 1) # {} /\ k + 1 \in Nat
    OBVIOUS
  <2> QED
    BY <2>1, LastPosition
<1>2. PICK m \in 1 .. (k + 1) : m = Max(1 .. (k + 1))
  BY <1>1
<1>3. m >= k + 1
  BY <1>1, <1>2
<1> QED
  BY <1>2, <1>3

\* A function that goes one step on wherever it is typed is the iteration.
LEMMA IterationTyped ==
    ASSUME NEW A, NEW B, NEW F \in [A \X B -> A], NEW base \in A, NEW seq \in Seq(B), NEW g,
           g[{}] = base,
           \A s \in SUBSET (1 .. Len(seq)) : s # {} /\ g[s \ {Max(s)}] \in A =>
               g[s] = F[<<g[s \ {Max(s)}], seq[Max(s)]>>]
    PROVE  Iterates(A, F, base, Len(seq), seq, g)
<1> DEFINE N == Len(seq)
           Good == {s \in SUBSET (1 .. N) : g[s] \in A}
<1>1. N \in Nat /\ IsFiniteSet(1 .. N) /\ \A i \in 1 .. N : seq[i] \in B
  <2>1. N \in Nat /\ \A i \in 1 .. N : seq[i] \in B
    OBVIOUS
  <2> QED
    BY <2>1, FS_Interval
<1>2. ASSUME NEW s \in SUBSET (1 .. N), s # {}
      PROVE  Max(s) \in s /\ s \ {Max(s)} \in SUBSET s /\ s \ {Max(s)} # s
  BY <1>1, <1>2, LastPosition
<1> HIDE DEF N
<1>3. ASSUME NEW s \in SUBSET (1 .. N), \A t \in SUBSET s : t # s => t \in Good PROVE s \in Good
  <2>1. CASE s = {}
    BY <2>1
  <2>2. CASE s # {}
    <3>1. Max(s) \in 1 .. N /\ s \ {Max(s)} \in Good
      BY <1>2, <1>3, <2>2
    <3>2. <<g[s \ {Max(s)}], seq[Max(s)]>> \in A \X B
      BY <1>1, <3>1
    <3>3. g[s] = F[<<g[s \ {Max(s)}], seq[Max(s)]>>]
      BY <2>2, <3>1 DEF N
    <3> QED
      BY <3>2, <3>3
  <2> QED
    BY <2>1, <2>2
<1>4. \A s \in SUBSET (1 .. N) : s \in Good
  <2> HIDE DEF Good
  <2> QED
    BY ZenonT(60), <1>1, <1>3, StrongSubsetInduction
<1>5. \A s \in SUBSET (1 .. N) : s # {} => g[s] = F[<<g[s \ {Max(s)}], seq[Max(s)]>>]
  <2> SUFFICES ASSUME NEW s \in SUBSET (1 .. N), s # {} PROVE g[s] = F[<<g[s \ {Max(s)}], seq[Max(s)]>>]
    OBVIOUS
  <2>1. s \ {Max(s)} \in SUBSET (1 .. N)
    OBVIOUS
  <2>2. g[s \ {Max(s)}] \in A
    BY <1>4, <2>1
  <2> QED
    BY <2>2 DEF N
<1> QED
  BY <1>4, <1>5 DEF Iterates, N

\* What a fold comes to: the value its iteration has for all the positions.
FoldsTo(A, F, base, seq, value) ==
    \E g : Iterates(A, F, base, Len(seq), seq, g) /\ value = g[1 .. Len(seq)]

\* A fold over nothing is where it begins.
LEMMA FoldsEmpty ==
    ASSUME NEW A, NEW F, NEW base, NEW value, FoldsTo(A, F, base, <<>>, value)
    PROVE  value = base
<1>1. Len(<<>>) = 0 /\ 1 .. 0 = {} /\ {} \in SUBSET {}
  OBVIOUS
<1> QED
  BY <1>1 DEF FoldsTo, Iterates

\* A fold over a longer sequence goes one step on from that over the shorter.
LEMMA FoldsAppended ==
    ASSUME NEW A, NEW B, NEW F, NEW base, NEW seq \in Seq(B), NEW x \in B
    PROVE  \A v, w : FoldsTo(A, F, base, seq, v) /\ FoldsTo(A, F, base, Append(seq, x), w) =>
               v \in A /\ w = F[<<v, x>>]
<1> SUFFICES ASSUME NEW v, FoldsTo(A, F, base, seq, v),
                    NEW w, FoldsTo(A, F, base, Append(seq, x), w)
             PROVE  v \in A /\ w = F[<<v, x>>]
  OBVIOUS
<1> DEFINE N == Len(seq)
           longer == Append(seq, x)
<1>1. PICK g : Iterates(A, F, base, N, seq, g) /\ v = g[1 .. N]
  BY DEF FoldsTo
<1>2. N \in Nat /\ Len(longer) = N + 1 /\ longer[N + 1] = x /\ \A i \in 1 .. N : longer[i] = seq[i]
  OBVIOUS
<1>3. PICK h : Iterates(A, F, base, N + 1, longer, h) /\ w = h[1 .. (N + 1)]
  BY <1>2 DEF FoldsTo
<1> HIDE DEF N, longer
<1> DEFINE P == {k \in Nat : k <= N => g[1 .. k] = h[1 .. k]}
<1>4. 0 \in P
  <2>1. 1 .. 0 = {} /\ {} \in SUBSET (1 .. N) /\ {} \in SUBSET (1 .. (N + 1))
    OBVIOUS
  <2> QED
    BY <1>1, <1>3, <2>1 DEF Iterates
<1>5. ASSUME NEW k \in Nat, k \in P PROVE k + 1 \in P
  <2> SUFFICES ASSUME k + 1 <= N PROVE g[1 .. (k + 1)] = h[1 .. (k + 1)]
    OBVIOUS
  <2>1. k + 1 \in 1 .. (k + 1) /\ k + 1 \in 1 .. N
    BY <1>2
  <2>2. \A i \in 1 .. (k + 1) : i \in 1 .. N /\ i \in 1 .. (N + 1)
    BY <1>2
  <2>3. 1 .. (k + 1) \in SUBSET (1 .. N) /\ 1 .. (k + 1) \in SUBSET (1 .. (N + 1)) /\ 1 .. (k + 1) # {}
    BY <2>1, <2>2
  <2>4. g[1 .. (k + 1)] = F[<<g[1 .. k], seq[k + 1]>>]
    BY <1>1, <2>3, FirstPositions DEF Iterates
  <2>5. h[1 .. (k + 1)] = F[<<h[1 .. k], longer[k + 1]>>]
    BY <1>3, <2>3, FirstPositions DEF Iterates
  <2> QED
    BY SMTT(60), <1>2, <1>5, <2>1, <2>4, <2>5
<1>6. N \in P
  <2> HIDE DEF P
  <2> QED
    BY <1>2, <1>4, <1>5, NumberInduction
<1>7. g[1 .. N] = h[1 .. N]
  BY <1>2, <1>6
<1>8. 1 .. (N + 1) \in SUBSET (1 .. (N + 1)) /\ 1 .. (N + 1) # {} /\ 1 .. N \in SUBSET (1 .. N)
  <2>1. N + 1 \in 1 .. (N + 1)
    BY <1>2
  <2> QED
    BY <2>1
<1>9. h[1 .. (N + 1)] = F[<<h[1 .. N], longer[N + 1]>>]
  BY ZenonT(60), <1>2, <1>3, <1>8, FirstPositions DEF Iterates
<1> QED
  BY <1>1, <1>2, <1>3, <1>7, <1>8, <1>9 DEF Iterates

\* Induction over sequences, stated of a set of them.
LEMMA SequenceInduction ==
    ASSUME NEW A, NEW P, <<>> \in P,
           \A s \in Seq(A), x \in A : s \in P => Append(s, x) \in P
    PROVE  \A s \in Seq(A) : s \in P
<1> DEFINE Q == {n \in Nat : \A s \in Seq(A) : Len(s) = n => s \in P}
<1>1. 0 \in Q
  <2>1. \A s \in Seq(A) : Len(s) = 0 => s = <<>>
    OBVIOUS
  <2> QED
    BY <2>1
<1>2. ASSUME NEW n \in Nat, n \in Q PROVE n + 1 \in Q
  <2> SUFFICES ASSUME NEW s \in Seq(A), Len(s) = n + 1 PROVE s \in P
    OBVIOUS
  <2> DEFINE front == SubSeq(s, 1, n)
  <2>1. front \in Seq(A) /\ Len(front) = n /\ s[n + 1] \in A /\ s = Append(front, s[n + 1])
    OBVIOUS
  <2> HIDE DEF front
  <2>2. front \in P
    BY <1>2, <2>1
  <2> QED
    BY <2>1, <2>2
<1>3. \A n \in Nat : n \in Q
  <2> HIDE DEF Q
  <2> QED
    BY <1>1, <1>2, NumberInduction
<1>4. \A s \in Seq(A) : Len(s) \in Nat
  OBVIOUS
<1> QED
  BY <1>3, <1>4
=============================================================================
