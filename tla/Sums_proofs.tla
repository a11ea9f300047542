------------------------------- MODULE Sums_proofs -------------------------------
(***************************************************************************)
(* Facts about sums over finite sets and about least elements, by minimal  *)
(* counterexample.  SMT takes every CHOOSE for a unique choice, which it   *)
(* is not here: the steps that open one are Zenon's, all others know       *)
(* AnyOf and Fold by what those steps say.                                 *)
(***************************************************************************)
EXTENDS Sums, FiniteSetTheorems, TLAPS

-----------------------------------------------------------------------------
(* Least elements *)

\* A set of natural numbers that is not empty has a least element.
LEMMA LeastNat ==
  ASSUME NEW T, T \subseteq Nat, T # {}
  PROVE  \E n \in T : \A m \in T : n <= m
<1> DEFINE R == {ss \in Nat \X Nat : ss[1] < ss[2]}
<1>1. IsWellFoundedOn(R, Nat)
  BY NatLessThanWellFounded DEF OpToRel
<1>2. PICK n \in T : \A m \in T : ~(<<m, n>> \in R)
  <2> HIDE DEF R
  <2> QED BY <1>1, WFMin
<1>3. \A m \in T : ~(m < n)
  BY <1>2
<1> QED
  BY <1>3

\* Among finite sets there is one that none of the others is a proper part of.
LEMMA MinimalSet ==
  ASSUME NEW S, IsFiniteSet(S), NEW T, T \subseteq SUBSET S, T # {}
  PROVE  \E A \in T : \A B \in T : B \subseteq A => B = A
<1> DEFINE N == {Cardinality(A) : A \in T}
<1>1. \A A \in T : IsFiniteSet(A) /\ Cardinality(A) \in Nat
  BY FS_Subset, FS_CardinalityType
<1>2. N \subseteq Nat /\ N # {}
  BY <1>1
<1>3. PICK n \in N : \A m \in N : n <= m
  <2> HIDE DEF N
  <2> QED BY <1>2, LeastNat
<1>4. PICK A \in T : n = Cardinality(A)
  BY <1>3
<1>5. ASSUME NEW B \in T, B \subseteq A
      PROVE  B = A
  <2>1. Cardinality(A) <= Cardinality(B)
    BY <1>3, <1>4
  <2>2. Cardinality(B) <= Cardinality(A) /\ (Cardinality(A) = Cardinality(B) => A = B)
    BY <1>1, <1>5, FS_Subset
  <2> QED
    BY <1>1, <2>1, <2>2
<1> QED
  BY <1>5

-----------------------------------------------------------------------------
(* The recursion that SumOver stands for *)

AnyOf(s) == CHOOSE x \in s : TRUE

IsFold(g, f, S) ==
  g = [s \in SUBSET S |-> IF s = {} THEN 0 ELSE f[AnyOf(s)] + g[s \ {AnyOf(s)}]]

Fold(f, S) == CHOOSE g : IsFold(g, f, S)

LEMMA AnyOfIn == ASSUME NEW s, s # {} PROVE AnyOf(s) \in s
BY Zenon DEF AnyOf

LEMMA SumIsFold == ASSUME NEW f, NEW S PROVE SumOver(f, S) = Fold(f, S)[S]
BY Zenon DEF SumOver, MapThenSumSet, MapThenFoldSet, Fold, IsFold, AnyOf

LEMMA FoldChosen == ASSUME NEW f, NEW S, NEW g, IsFold(g, f, S) PROVE IsFold(Fold(f, S), f, S)
BY Zenon DEF Fold

\* What it says of one set.
LEMMA FoldEquation ==
  ASSUME NEW f, NEW S, NEW g, IsFold(g, f, S), NEW s, s \subseteq S
  PROVE  /\ s = {} => g[s] = 0
         /\ s # {} => g[s] = f[AnyOf(s)] + g[s \ {AnyOf(s)}]
<1>1. g = [t \in SUBSET S |-> IF t = {} THEN 0 ELSE f[AnyOf(t)] + g[t \ {AnyOf(t)}]]
  BY DEF IsFold
<1> QED
  BY <1>1

\* Two folds agree on every finite set that both are about.
LEMMA FoldUnique ==
  ASSUME NEW f, NEW S, NEW T, NEW g, NEW h, IsFold(g, f, S), IsFold(h, f, T),
         NEW A, A \subseteq S, A \subseteq T, IsFiniteSet(A)
  PROVE  g[A] = h[A]
<1> SUFFICES ASSUME g[A] # h[A] PROVE FALSE
  OBVIOUS
<1> DEFINE W == {B \in SUBSET A : g[B] # h[B]}
<1>1. A \in W /\ W \subseteq SUBSET A
  OBVIOUS
<1>2. PICK B \in W : \A C \in W : C \subseteq B => C = B
  <2> HIDE DEF W
  <2> QED BY <1>1, MinimalSet
<1>3. /\ B \subseteq S /\ B \subseteq T
      /\ B = {} => g[B] = 0 /\ h[B] = 0
      /\ B # {} => /\ g[B] = f[AnyOf(B)] + g[B \ {AnyOf(B)}]
                   /\ h[B] = f[AnyOf(B)] + h[B \ {AnyOf(B)}]
  BY FoldEquation
<1>4. B # {}
  BY <1>3
<1>5. AnyOf(B) \in B
  BY <1>4, AnyOfIn
<1>6. g[B \ {AnyOf(B)}] = h[B \ {AnyOf(B)}]
  BY <1>2, <1>5
<1> QED
  BY <1>3, <1>4, <1>6

\* Every finite set has a fold: glue the folds of its proper parts.
LEMMA FoldExists ==
  ASSUME NEW f, NEW S, IsFiniteSet(S)
  PROVE  IsFold(Fold(f, S), f, S)
<1> DEFINE W == {B \in SUBSET S : ~IsFold(Fold(f, B), f, B)}
<1> SUFFICES ASSUME W # {} PROVE FALSE
  OBVIOUS
<1>1. PICK A \in W : \A B \in W : B \subseteq A => B = A
  <2>1. W \subseteq SUBSET S
    OBVIOUS
  <2> HIDE DEF W
  <2> QED BY <2>1, MinimalSet
<1>2. A \subseteq S /\ ~IsFold(Fold(f, A), f, A)
  OBVIOUS
<1>3. \A B : B \subseteq A /\ B # A => IsFold(Fold(f, B), f, B)
  BY <1>1, <1>2
<1> HIDE DEF W
<1> DEFINE At(s) == IF s = {} THEN 0
                    ELSE f[AnyOf(s)] + Fold(f, s \ {AnyOf(s)})[s \ {AnyOf(s)}]
           g == [s \in SUBSET A |-> At(s)]
<1>4. ASSUME NEW s \in SUBSET A, s # {}
      PROVE  g[s \ {AnyOf(s)}] = Fold(f, s \ {AnyOf(s)})[s \ {AnyOf(s)}]
  <2> DEFINE r == s \ {AnyOf(s)}
  <2> SUFFICES g[r] = Fold(f, r)[r]
    OBVIOUS
  <2>1. r \subseteq A /\ r # A
    BY <1>4, AnyOfIn
  <2>2. IsFold(Fold(f, r), f, r)
    BY <1>3, <2>1
  <2>3. g[r] = At(r)
    BY <2>1
  <2> HIDE DEF r, g
  <2>4. CASE r = {}
    BY <2>2, <2>3, <2>4, FoldEquation
  <2>5. CASE r # {}
    <3> DEFINE q == r \ {AnyOf(r)}
    <3>1. Fold(f, r)[r] = f[AnyOf(r)] + Fold(f, r)[q]
      BY <2>2, <2>5, FoldEquation
    <3>2. q \subseteq r /\ q # A /\ IsFiniteSet(q)
      BY <1>2, <2>1, <2>5, AnyOfIn, FS_Subset
    <3>3. Fold(f, r)[q] = Fold(f, q)[q]
      <4>1. IsFold(Fold(f, q), f, q)
        BY <1>3, <2>1, <3>2
      <4> HIDE DEF q
      <4> QED BY <2>2, <3>2, <4>1, FoldUnique
    <3> QED
      BY <2>3, <2>5, <3>1, <3>3
  <2> QED
    BY <2>4, <2>5
<1>5. IsFold(g, f, A)
  <2>1. \A s \in SUBSET A :
          At(s) = IF s = {} THEN 0 ELSE f[AnyOf(s)] + g[s \ {AnyOf(s)}]
    <3> HIDE DEF g
    <3> QED BY <1>4
  <2> QED
    BY <2>1 DEF IsFold
<1>6. IsFold(Fold(f, A), f, A)
  <2> HIDE DEF g
  <2> QED BY <1>5, FoldChosen
<1> QED
  BY <1>2, <1>6

-----------------------------------------------------------------------------
(* What a reader expects of a sum *)

LEMMA SumEmpty == ASSUME NEW f PROVE SumOver(f, {}) = 0
<1>1. IsFold(Fold(f, {}), f, {})
  BY FoldExists, FS_EmptySet
<1>2. Fold(f, {})[{}] = 0
  BY <1>1, FoldEquation
<1> QED
  BY <1>2, SumIsFold

LEMMA SumStep ==
  ASSUME NEW f, NEW S, IsFiniteSet(S), S # {}
  PROVE  SumOver(f, S) = f[AnyOf(S)] + SumOver(f, S \ {AnyOf(S)})
<1> DEFINE r == S \ {AnyOf(S)}
<1>1. IsFold(Fold(f, S), f, S)
  BY FoldExists
<1>2. Fold(f, S)[S] = f[AnyOf(S)] + Fold(f, S)[r]
  BY <1>1, FoldEquation
<1>3. IsFiniteSet(r) /\ r \subseteq S
  BY FS_Subset
<1>4. IsFold(Fold(f, r), f, r)
  <2> HIDE DEF r
  <2> QED BY <1>3, FoldExists
<1>5. Fold(f, S)[r] = Fold(f, r)[r]
  <2> HIDE DEF r
  <2> QED BY <1>1, <1>3, <1>4, FoldUnique
<1> QED
  BY <1>2, <1>5, SumIsFold

\* A sum of integers is an integer.
LEMMA SumInt ==
  ASSUME NEW f, NEW S, IsFiniteSet(S), \A x \in S : f[x] \in Int
  PROVE  SumOver(f, S) \in Int
<1> DEFINE W == {A \in SUBSET S : SumOver(f, A) \notin Int}
<1> SUFFICES ASSUME W # {} PROVE FALSE
  OBVIOUS
<1>1. PICK A \in W : \A B \in W : B \subseteq A => B = A
  <2>1. W \subseteq SUBSET S
    OBVIOUS
  <2> HIDE DEF W
  <2> QED BY <2>1, MinimalSet
<1>2. A # {}
  BY SumEmpty
<1>3. AnyOf(A) \in A /\ IsFiniteSet(A)
  BY <1>2, AnyOfIn, FS_Subset
<1>4. SumOver(f, A \ {AnyOf(A)}) \in Int
  BY <1>1, <1>3
<1>5. SumOver(f, A) = f[AnyOf(A)] + SumOver(f, A \ {AnyOf(A)})
  BY <1>2, <1>3, SumStep
<1> QED
  BY <1>3, <1>4, <1>5

\* Any element may be taken out first.
LEMMA SumRemove ==
  ASSUME NEW f, NEW S, IsFiniteSet(S), \A x \in S : f[x] \in Int, NEW a \in S
  PROVE  SumOver(f, S) = f[a] + SumOver(f, S \ {a})
<1> DEFINE W == {A \in SUBSET S : \E x \in A : SumOver(f, A) # f[x] + SumOver(f, A \ {x})}
<1> SUFFICES ASSUME W # {} PROVE FALSE
  OBVIOUS
<1>1. PICK A \in W : \A B \in W : B \subseteq A => B = A
  <2>1. W \subseteq SUBSET S
    OBVIOUS
  <2> HIDE DEF W
  <2> QED BY <2>1, MinimalSet
<1>2. PICK x \in A : SumOver(f, A) # f[x] + SumOver(f, A \ {x})
  OBVIOUS
<1> DEFINE y == AnyOf(A)
<1>3. A \subseteq S /\ IsFiniteSet(A) /\ y \in A
  BY <1>2, AnyOfIn, FS_Subset
<1>4. SumOver(f, A) = f[y] + SumOver(f, A \ {y})
  BY <1>2, <1>3, SumStep
<1> HIDE DEF y
<1>5. x # y
  BY <1>2, <1>4
<1>6. \A B \in SUBSET A : B # A => \A z \in B : SumOver(f, B) = f[z] + SumOver(f, B \ {z})
  BY <1>1, <1>3
<1>7. /\ SumOver(f, A \ {y}) = f[x] + SumOver(f, (A \ {y}) \ {x})
      /\ SumOver(f, A \ {x}) = f[y] + SumOver(f, (A \ {x}) \ {y})
  BY <1>3, <1>5, <1>6
<1>8. (A \ {y}) \ {x} = (A \ {x}) \ {y}
  OBVIOUS
<1>9. SumOver(f, (A \ {x}) \ {y}) \in Int
  <2>1. IsFiniteSet((A \ {x}) \ {y})
    BY <1>3, FS_Subset
  <2>2. \A z \in (A \ {x}) \ {y} : f[z] \in Int
    BY <1>3
  <2> QED BY <2>1, <2>2, SumInt
<1>10. f[x] \in Int /\ f[y] \in Int
  BY <1>3
<1>11. f[y] + (f[x] + SumOver(f, (A \ {x}) \ {y})) = f[x] + (f[y] + SumOver(f, (A \ {x}) \ {y}))
  <2> HIDE DEF W
  <2> QED BY <1>9, <1>10
<1>12. SumOver(f, A) = f[x] + SumOver(f, A \ {x})
  BY <1>4, <1>7, <1>8, <1>11, Zenon
<1> QED
  BY <1>2, <1>12

\* An element more is its value more.
LEMMA SumAdd ==
  ASSUME NEW f, NEW S, IsFiniteSet(S), NEW a, a \notin S,
         \A x \in S \cup {a} : f[x] \in Int
  PROVE  SumOver(f, S \cup {a}) = f[a] + SumOver(f, S)
<1>1. IsFiniteSet(S \cup {a})
  BY FS_AddElement
<1>2. SumOver(f, S \cup {a}) = f[a] + SumOver(f, (S \cup {a}) \ {a})
  BY <1>1, SumRemove
<1>3. (S \cup {a}) \ {a} = S
  OBVIOUS
<1> QED
  BY <1>2, <1>3

\* Only the values at the elements count.
LEMMA SumSame ==
  ASSUME NEW f, NEW g, NEW S, IsFiniteSet(S), \A x \in S : f[x] = g[x]
  PROVE  SumOver(f, S) = SumOver(g, S)
<1> DEFINE W == {A \in SUBSET S : SumOver(f, A) # SumOver(g, A)}
<1> SUFFICES ASSUME W # {} PROVE FALSE
  OBVIOUS
<1>1. PICK A \in W : \A B \in W : B \subseteq A => B = A
  <2>1. W \subseteq SUBSET S
    OBVIOUS
  <2> HIDE DEF W
  <2> QED BY <2>1, MinimalSet
<1>2. A # {}
  BY SumEmpty
<1>3. AnyOf(A) \in A /\ IsFiniteSet(A)
  BY <1>2, AnyOfIn, FS_Subset
<1>4. SumOver(f, A \ {AnyOf(A)}) = SumOver(g, A \ {AnyOf(A)})
  BY <1>1, <1>3
<1>5. /\ SumOver(f, A) = f[AnyOf(A)] + SumOver(f, A \ {AnyOf(A)})
      /\ SumOver(g, A) = g[AnyOf(A)] + SumOver(g, A \ {AnyOf(A)})
  BY <1>2, <1>3, SumStep
<1> QED
  BY <1>3, <1>4, <1>5

\* Of two functions the greater one has the greater sum.
LEMMA SumMonotone ==
  ASSUME NEW f, NEW g, NEW S, IsFiniteSet(S),
         \A x \in S : f[x] \in Int /\ g[x] \in Int /\ f[x] <= g[x]
  PROVE  SumOver(f, S) <= SumOver(g, S)
<1> DEFINE W == {A \in SUBSET S : ~(SumOver(f, A) <= SumOver(g, A))}
<1> SUFFICES ASSUME W # {} PROVE FALSE
  OBVIOUS
<1>1. PICK A \in W : \A B \in W : B \subseteq A => B = A
  <2>1. W \subseteq SUBSET S
    OBVIOUS
  <2> HIDE DEF W
  <2> QED BY <2>1, MinimalSet
<1>2. A # {}
  <2>1. SumOver(f, {}) = 0 /\ SumOver(g, {}) = 0
    BY SumEmpty
  <2> QED
    BY <2>1
<1> DEFINE a == AnyOf(A)
           r == A \ {a}
<1>3. a \in A /\ IsFiniteSet(A) /\ IsFiniteSet(r)
  BY <1>2, AnyOfIn, FS_Subset
<1>4. SumOver(f, r) <= SumOver(g, r)
  BY <1>1, <1>3
<1>5. /\ SumOver(f, A) = f[a] + SumOver(f, r)
      /\ SumOver(g, A) = g[a] + SumOver(g, r)
  BY <1>2, <1>3, SumStep
<1>6. SumOver(f, r) \in Int /\ SumOver(g, r) \in Int
  <2>1. r \subseteq S
    OBVIOUS
  <2> HIDE DEF r
  <2> QED
    BY <1>3, <2>1, SumInt
<1>7. f[a] \in Int /\ g[a] \in Int /\ f[a] <= g[a]
  BY <1>3
<1>8. ~(SumOver(f, A) <= SumOver(g, A))
  OBVIOUS
<1> HIDE DEF a, r, W
<1> QED
  BY <1>4, <1>5, <1>6, <1>7, <1>8

LEMMA SumNonNegative ==
  ASSUME NEW f, NEW S, IsFiniteSet(S), \A x \in S : f[x] \in Nat
  PROVE  0 <= SumOver(f, S)
<1> DEFINE W == {A \in SUBSET S : ~(0 <= SumOver(f, A))}
<1> SUFFICES ASSUME W # {} PROVE FALSE
  OBVIOUS
<1>1. PICK A \in W : \A B \in W : B \subseteq A => B = A
  <2>1. W \subseteq SUBSET S
    OBVIOUS
  <2> HIDE DEF W
  <2> QED BY <2>1, MinimalSet
<1>2. A # {}
  BY SumEmpty
<1> DEFINE a == AnyOf(A)
           r == A \ {a}
<1>3. a \in A /\ IsFiniteSet(A) /\ IsFiniteSet(r)
  BY <1>2, AnyOfIn, FS_Subset
<1>4. 0 <= SumOver(f, r)
  BY <1>1, <1>3
<1>5. SumOver(f, A) = f[a] + SumOver(f, r)
  BY <1>2, <1>3, SumStep
<1>6. SumOver(f, r) \in Int
  <2>1. \A x \in r : f[x] \in Int
    OBVIOUS
  <2> HIDE DEF r
  <2> QED
    BY <1>3, <2>1, SumInt
<1>7. f[a] \in Nat
  BY <1>3
<1>8. ~(0 <= SumOver(f, A))
  OBVIOUS
<1> HIDE DEF a, r, W
<1> QED
  BY <1>4, <1>5, <1>6, <1>7, <1>8

\* Raising the value at one element raises the sum by as much.
LEMMA SumUpdate ==
  ASSUME NEW f, NEW g, NEW S, IsFiniteSet(S), NEW a \in S,
         \A x \in S : f[x] \in Int /\ g[x] \in Int,
         \A x \in S : x # a => f[x] = g[x]
  PROVE  SumOver(g, S) = SumOver(f, S) + (g[a] - f[a])
<1>1. /\ SumOver(f, S) = f[a] + SumOver(f, S \ {a})
      /\ SumOver(g, S) = g[a] + SumOver(g, S \ {a})
  BY SumRemove
<1>2. IsFiniteSet(S \ {a})
  BY FS_Subset
<1>3. SumOver(f, S \ {a}) = SumOver(g, S \ {a})
  BY <1>2, SumSame
<1>4. SumOver(f, S \ {a}) \in Int
  BY <1>2, SumInt
<1> QED
  BY <1>1, <1>3, <1>4

\* The same for an element that may be new to the set, and counted nothing
\* before.
LEMMA SumPut ==
  ASSUME NEW f, NEW g, NEW S, IsFiniteSet(S), NEW a,
         \A x \in S \cup {a} : f[x] \in Int /\ g[x] \in Int,
         \A x \in S : x # a => f[x] = g[x],
         a \notin S => f[a] = 0
  PROVE  /\ SumOver(f, S) \in Int
         /\ SumOver(g, S \cup {a}) = SumOver(f, S) + (g[a] - f[a])
<1>1. SumOver(f, S) \in Int
  BY SumInt
<1>2. CASE a \in S
  <2>1. SumOver(g, S) = SumOver(f, S) + (g[a] - f[a])
    BY <1>2, SumUpdate
  <2>2. S \cup {a} = S
    BY <1>2
  <2> QED
    BY <1>1, <2>1, <2>2
<1>3. CASE a \notin S
  <2>1. SumOver(g, S \cup {a}) = g[a] + SumOver(g, S)
    BY <1>3, SumAdd
  <2>2. SumOver(g, S) = SumOver(f, S)
    BY <1>3, SumSame
  <2>3. f[a] = 0 /\ g[a] \in Int
    BY <1>3
  <2> QED
    BY <1>1, <2>1, <2>2, <2>3
<1> QED
  BY <1>2, <1>3
=================================================================================
