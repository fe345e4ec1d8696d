--------------------------- MODULE DataInduction -----------------------------
(***************************************************************************)
(* Induction over the natural numbers and over finite sets in the form in  *)
(* which the other modules use it for folds: the predicate is given as a   *)
(* set, since no prover instantiates the library's theorems with an        *)
(* operator.  And what sums, sorting and flattening amount to.             *)
(***************************************************************************)
EXTENDS Integers, FiniteSetsExt, SequencesExt, FiniteSetTheorems, SequenceTheorems,
        WellFoundedInduction, TLAPS

\* Every nonempty set of natural numbers has a least element: the order of the
\* naturals is well founded.
LEMMA LeastElement ==
  ASSUME NEW T \in SUBSET Nat, T # {}
  PROVE  \E m \in T : \A n \in T : m <= n
<1> DEFINE R == {ss \in Nat \X Nat : ss[1] < ss[2]}
<1>1. IsWellFoundedOn(R, Nat)
  BY NatLessThanWellFounded DEF OpToRel
<1> HIDE DEF R
<1>2. PICK m \in T : \A n \in T : ~(<<n, m>> \in R)
  BY <1>1, WFMin
<1>3. \A n \in T : ~(n < m)
  BY <1>2 DEF R
<1> QED
  BY <1>3

\* Induction over the naturals with the predicate given as a set: what the
\* theorems about folds below rest on.
LEMMA SetInduction ==
  ASSUME NEW S, 0 \in S, \A n \in Nat : n \in S => n + 1 \in S
  PROVE  \A n \in Nat : n \in S
<1> SUFFICES ASSUME NEW k \in Nat, k \notin S PROVE FALSE
  OBVIOUS
<1> DEFINE T == {n \in Nat : n \notin S}
<1>1. PICK m \in T : \A n \in T : m <= n
  BY LeastElement
<1>2. m - 1 \in Nat /\ m - 1 \notin T
  BY <1>1
<1> QED
  BY <1>1, <1>2

\* The element that no other exceeds is the one that Max chooses.
LEMMA MaxIs ==
  ASSUME NEW s \in SUBSET Nat, NEW m \in s, \A y \in s : m >= y
  PROVE  Max(s) = m
<1>1. \A x \in s : (\A y \in s : x >= y) => x = m
  OBVIOUS
<1> QED
  BY <1>1 DEF Max

\* Max of a nonempty set of positions is one of them: the fold that chooses the
\* last element of 1 .. k leaves 1 .. k - 1.
LEMMA MaxMember ==
  ASSUME NEW n \in Nat, NEW s \in SUBSET (1 .. n), s # {}
  PROVE  Max(s) \in s
<1> DEFINE T == {m \in Nat : \A y \in s : m >= y}
<1>1. n \in T
  OBVIOUS
<1>2. PICK m \in T : \A k \in T : m <= k
  BY <1>1, LeastElement
<1>3. m \in s
  <2> SUFFICES ASSUME m \notin s PROVE FALSE
    OBVIOUS
  <2>1. PICK y \in s : TRUE
    OBVIOUS
  <2>2. m - 1 \in Nat /\ m - 1 \in T
    BY <1>2, <2>1
  <2> QED
    BY <1>2, <2>2
<1> QED
  BY <1>2, <1>3 DEF Max

\* Min of a nonempty set of naturals is its least element.
LEMMA MinMember ==
  ASSUME NEW s \in SUBSET Nat, s # {}
  PROVE  Min(s) \in s /\ \A y \in s : Min(s) <= y
<1>1. PICK m \in s : \A y \in s : m <= y
  BY LeastElement
<1> QED
  BY <1>1 DEF Min

-----------------------------------------------------------------------------
(* Sums over finite sets.                                                  *)

\* Induction over the subsets of a finite set, with the predicate given as a set.
LEMMA SubsetInduction ==
  ASSUME NEW T, IsFiniteSet(T), NEW P, {} \in P,
         \A s \in SUBSET T, x \in T : s \in P /\ x \notin s => s \union {x} \in P
  PROVE  T \in P
<1> DEFINE S == {n \in Nat : \A s \in SUBSET T : Cardinality(s) = n => s \in P}
<1>1. 0 \in S
  <2>1. ASSUME NEW s \in SUBSET T, Cardinality(s) = 0 PROVE s = {}
    BY <2>1, FS_Subset, FS_EmptySet
  <2> QED
    BY <2>1
<1>2. ASSUME NEW n \in Nat, n \in S
      PROVE  n + 1 \in S
  <2>1. ASSUME NEW s \in SUBSET T, Cardinality(s) = n + 1 PROVE s \in P
    <3>1. IsFiniteSet(s)
      BY FS_Subset
    <3>2. PICK x : x \in s
      BY <2>1, <3>1, FS_EmptySet
    <3>3. Cardinality(s \ {x}) = n
      <4>1. Cardinality(s \ {x}) = Cardinality(s) - 1
        BY <3>1, <3>2, FS_RemoveElement
      <4> QED
        BY <2>1, <4>1
    <3>4. s \ {x} \in P
      BY <1>2, <3>3
    <3>5. s = (s \ {x}) \union {x} /\ x \notin s \ {x} /\ x \in T
      BY <3>2
    <3> QED
      BY <3>4, <3>5
  <2> QED
    BY <2>1
<1> HIDE DEF S
<1>3. \A n \in Nat : n \in S
  BY <1>1, <1>2, SetInduction
<1>4. Cardinality(T) \in Nat /\ T \in SUBSET T
  BY FS_CardinalityType
<1> QED
  BY <1>3, <1>4 DEF S

\* The element that a fold takes next.
Taken(s) == CHOOSE x \in s : TRUE

\* The recursive function that defines a sum, as an equation.
SumSteps(w, T, f) ==
  [s \in SUBSET T |-> IF s = {} THEN 0 ELSE w[Taken(s)] + f[s \ {Taken(s)}]]

LEMMA TakenIsMember ==
  ASSUME NEW s, s # {}
  PROVE  Taken(s) \in s
BY DEF Taken

\* It has a solution over every finite set.
LEMMA SumStepsExists ==
  ASSUME NEW w, NEW T, IsFiniteSet(T)
  PROVE  \E f : f = SumSteps(w, T, f)
<1> DEFINE Below(n) == {s \in SUBSET T : Cardinality(s) <= n}
           S == {n \in Nat : \E f : /\ f = [s \in SUBSET T |-> f[s]]
                                    /\ \A s \in Below(n) : f[s] = SumSteps(w, T, f)[s]}
<1>1. 0 \in S
  <2> DEFINE g == [s \in SUBSET T |-> 0]
  <2>1. ASSUME NEW s \in Below(0) PROVE s = {}
    BY FS_Subset, FS_EmptySet, FS_CardinalityType
  <2>2. \A s \in Below(0) : g[s] = SumSteps(w, T, g)[s]
    BY <2>1 DEF SumSteps
  <2> QED
    BY <2>2
<1>2. ASSUME NEW n \in Nat, n \in S
      PROVE  n + 1 \in S
  <2>1. PICK f : /\ f = [s \in SUBSET T |-> f[s]]
                 /\ \A s \in Below(n) : f[s] = SumSteps(w, T, f)[s]
    BY <1>2
  <2> DEFINE g == [s \in SUBSET T |-> IF s \in Below(n) THEN f[s] ELSE SumSteps(w, T, f)[s]]
  <2>2. ASSUME NEW s \in Below(n + 1)
        PROVE  g[s] = SumSteps(w, T, g)[s]
    <3>1. g[s] = SumSteps(w, T, f)[s]
      BY <2>1
    <3>2. CASE s = {}
      BY <3>1, <3>2 DEF SumSteps
    <3>3. CASE s # {}
      <4>1. Taken(s) \in s
        BY <3>3, TakenIsMember
      <4>2. s \ {Taken(s)} \in Below(n)
        <5>1. IsFiniteSet(s) /\ Cardinality(s) \in Nat
          BY FS_Subset, FS_CardinalityType
        <5>2. Cardinality(s \ {Taken(s)}) = Cardinality(s) - 1
          BY <4>1, <5>1, FS_RemoveElement
        <5> QED
          BY <5>1, <5>2
      <4>3. g[s \ {Taken(s)}] = f[s \ {Taken(s)}]
        BY <4>2
      <4> QED
        BY <3>1, <3>3, <4>3 DEF SumSteps
    <3> QED
      BY <3>2, <3>3
  <2>3. g = [s \in SUBSET T |-> g[s]]
    OBVIOUS
  <2> HIDE DEF g
  <2>4. n + 1 \in Nat /\ \A s \in Below(n + 1) : g[s] = SumSteps(w, T, g)[s]
    BY <2>2
  <2> HIDE DEF Below
  <2> QED
    BY <2>3, <2>4
<1> HIDE DEF S
<1>3. \A n \in Nat : n \in S
  BY <1>1, <1>2, SetInduction
<1>4. Cardinality(T) \in Nat /\ \A s \in SUBSET T : s \in Below(Cardinality(T))
  BY FS_CardinalityType, FS_Subset
<1> HIDE DEF Below
<1>5. PICK f : /\ f = [s \in SUBSET T |-> f[s]]
               /\ \A s \in Below(Cardinality(T)) : f[s] = SumSteps(w, T, f)[s]
  BY <1>3, <1>4 DEF S
<1>6. f = SumSteps(w, T, f)
  <2>1. \A s \in SUBSET T : f[s] = SumSteps(w, T, f)[s]
    BY <1>4, <1>5
  <2> DEFINE h == SumSteps(w, T, f)
  <2>2. h = [s \in SUBSET T |-> h[s]]
    BY DEF SumSteps
  <2> HIDE DEF h
  <2>3. \A s \in SUBSET T : f[s] = h[s]
    BY <2>1 DEF h
  <2>4. f = h
    BY <1>5, <2>2, <2>3
  <2> QED
    BY <2>4 DEF h
<1> QED
  BY <1>6

\* Solutions agree wherever they are both defined.
LEMMA SumStepsAgree ==
  ASSUME NEW w, NEW T, NEW U, IsFiniteSet(U), U \subseteq T,
         NEW f, f = SumSteps(w, T, f), NEW g, g = SumSteps(w, U, g)
  PROVE  f[U] = g[U]
<1> DEFINE S == {n \in Nat : \A s \in SUBSET U : Cardinality(s) = n => f[s] = g[s]}
<1>1. 0 \in S
  <2>1. ASSUME NEW s \in SUBSET U, Cardinality(s) = 0 PROVE f[s] = g[s]
    <3>1. s = {}
      BY <2>1, FS_Subset, FS_EmptySet
    <3>2. f[{}] = 0 /\ g[{}] = 0
      BY DEF SumSteps
    <3> QED
      BY <3>1, <3>2
  <2> QED
    BY <2>1
<1>2. ASSUME NEW n \in Nat, n \in S
      PROVE  n + 1 \in S
  <2>1. ASSUME NEW s \in SUBSET U, Cardinality(s) = n + 1 PROVE f[s] = g[s]
    <3>1. IsFiniteSet(s)
      BY FS_Subset
    <3>2. s # {}
      BY <2>1, FS_EmptySet
    <3>3. Taken(s) \in s
      BY <3>2, TakenIsMember
    <3>4. Cardinality(s \ {Taken(s)}) = n
      <4>1. Cardinality(s \ {Taken(s)}) = Cardinality(s) - 1
        BY <3>1, <3>3, FS_RemoveElement
      <4> QED
        BY <2>1, <4>1
    <3>5. f[s \ {Taken(s)}] = g[s \ {Taken(s)}]
      BY <1>2, <3>4
    <3>6. /\ f[s] = w[Taken(s)] + f[s \ {Taken(s)}]
          /\ g[s] = w[Taken(s)] + g[s \ {Taken(s)}]
      BY <3>2 DEF SumSteps
    <3> QED
      BY <3>5, <3>6
  <2> QED
    BY <2>1
<1> HIDE DEF S
<1>3. \A n \in Nat : n \in S
  BY <1>1, <1>2, SetInduction
<1>4. Cardinality(U) \in Nat /\ U \in SUBSET U
  BY FS_CardinalityType
<1> QED
  BY <1>3, <1>4 DEF S

\* A sum is what the solution gives for the whole set.
LEMMA SumIs ==
  ASSUME NEW w, NEW T, IsFiniteSet(T)
  PROVE  \E f : f = SumSteps(w, T, f) /\ SumFunctionOnSet(w, T) = f[T]
<1> DEFINE f == CHOOSE f : f = SumSteps(w, T, f)
<1>1. f = SumSteps(w, T, f)
  BY SumStepsExists
<1>2. SumFunctionOnSet(w, T) = f[T]
  BY DEF SumFunctionOnSet, FoldFunctionOnSet, MapThenFoldSet, SumSteps, Taken
<1> QED
  BY <1>1, <1>2

LEMMA SumEmpty ==
  ASSUME NEW w
  PROVE  SumFunctionOnSet(w, {}) = 0
<1>1. PICK f : f = SumSteps(w, {}, f) /\ SumFunctionOnSet(w, {}) = f[{}]
  BY SumIs, FS_EmptySet
<1> QED
  BY <1>1 DEF SumSteps

\* A sum, one element at a time, in the order in which the fold takes them.
LEMMA SumTakes ==
  ASSUME NEW w, NEW T, IsFiniteSet(T), T # {}
  PROVE  SumFunctionOnSet(w, T) = w[Taken(T)] + SumFunctionOnSet(w, T \ {Taken(T)})
<1> DEFINE U == T \ {Taken(T)}
<1>1. IsFiniteSet(U)
  BY FS_RemoveElement
<1>2. PICK f : f = SumSteps(w, T, f) /\ SumFunctionOnSet(w, T) = f[T]
  BY SumIs
<1>3. PICK g : g = SumSteps(w, U, g) /\ SumFunctionOnSet(w, U) = g[U]
  BY <1>1, SumIs
<1>4. f[U] = g[U]
  BY <1>1, <1>2, <1>3, SumStepsAgree
<1>5. f[T] = w[Taken(T)] + f[U]
  BY <1>2 DEF SumSteps
<1> HIDE DEF U
<1>6. SumFunctionOnSet(w, T) = w[Taken(T)] + SumFunctionOnSet(w, U)
  BY <1>2, <1>3, <1>4, <1>5
<1> QED
  BY <1>6 DEF U

\* A sum of integers is one.
LEMMA SumIsInt ==
  ASSUME NEW w, NEW T, IsFiniteSet(T), \A x \in T : w[x] \in Int
  PROVE  SumFunctionOnSet(w, T) \in Int
<1> DEFINE S == {n \in Nat : \A s \in SUBSET T : Cardinality(s) = n =>
                               SumFunctionOnSet(w, s) \in Int}
<1>1. 0 \in S
  <2>1. ASSUME NEW s \in SUBSET T, Cardinality(s) = 0 PROVE s = {}
    BY <2>1, FS_Subset, FS_EmptySet
  <2> QED
    BY <2>1, SumEmpty
<1>2. ASSUME NEW n \in Nat, n \in S
      PROVE  n + 1 \in S
  <2>1. ASSUME NEW s \in SUBSET T, Cardinality(s) = n + 1
        PROVE  SumFunctionOnSet(w, s) \in Int
    <3>1. IsFiniteSet(s)
      BY FS_Subset
    <3>2. s # {}
      BY <2>1, FS_EmptySet
    <3>3. Taken(s) \in s
      BY <3>2, TakenIsMember
    <3>4. Cardinality(s \ {Taken(s)}) = n
      <4>1. Cardinality(s \ {Taken(s)}) = Cardinality(s) - 1
        BY <3>1, <3>3, FS_RemoveElement
      <4> QED
        BY <2>1, <4>1
    <3>5. SumFunctionOnSet(w, s \ {Taken(s)}) \in Int
      BY <1>2, <3>4
    <3>6. SumFunctionOnSet(w, s) = w[Taken(s)] + SumFunctionOnSet(w, s \ {Taken(s)})
      BY <3>1, <3>2, SumTakes
    <3> QED
      BY <3>3, <3>5, <3>6
  <2> QED
    BY <2>1
<1> HIDE DEF S
<1>3. \A n \in Nat : n \in S
  BY <1>1, <1>2, SetInduction
<1>4. Cardinality(T) \in Nat /\ T \in SUBSET T
  BY FS_CardinalityType
<1> QED
  BY <1>3, <1>4 DEF S

\* The elements of a sum of integers may be taken in any order.
LEMMA SumRemoves ==
  ASSUME NEW w, NEW T, IsFiniteSet(T), \A x \in T : w[x] \in Int, NEW x \in T
  PROVE  SumFunctionOnSet(w, T) = w[x] + SumFunctionOnSet(w, T \ {x})
<1> DEFINE S == {n \in Nat : \A s \in SUBSET T : Cardinality(s) = n => \A y \in s :
                   SumFunctionOnSet(w, s) = w[y] + SumFunctionOnSet(w, s \ {y})}
<1>1. 0 \in S
  <2>1. ASSUME NEW s \in SUBSET T, Cardinality(s) = 0 PROVE s = {}
    BY <2>1, FS_Subset, FS_EmptySet
  <2> QED
    BY <2>1
<1>2. ASSUME NEW n \in Nat, n \in S
      PROVE  n + 1 \in S
  <2>1. ASSUME NEW s \in SUBSET T, Cardinality(s) = n + 1, NEW y \in s
        PROVE  SumFunctionOnSet(w, s) = w[y] + SumFunctionOnSet(w, s \ {y})
    <3> DEFINE c == Taken(s)
    <3>1. IsFiniteSet(s) /\ s # {} /\ c \in s
      BY FS_Subset, TakenIsMember
    <3>2. SumFunctionOnSet(w, s) = w[c] + SumFunctionOnSet(w, s \ {c})
      BY <3>1, SumTakes
    <3> HIDE DEF c
    <3>3. CASE y = c
      BY <3>2, <3>3
    <3>4. CASE y # c
      <4> DEFINE rest == (s \ {c}) \ {y}
      <4>1. /\ Cardinality(s \ {c}) = n /\ Cardinality(s \ {y}) = n
            /\ y \in s \ {c} /\ c \in s \ {y}
        <5>1. /\ Cardinality(s \ {c}) = Cardinality(s) - 1
              /\ Cardinality(s \ {y}) = Cardinality(s) - 1
          BY <3>1, FS_RemoveElement
        <5> QED
          BY <2>1, <3>1, <3>4, <5>1
      <4>2. SumFunctionOnSet(w, s \ {c}) = w[y] + SumFunctionOnSet(w, rest)
        BY <1>2, <4>1
      <4>3. (s \ {y}) \ {c} = rest
        OBVIOUS
      <4>4. SumFunctionOnSet(w, s \ {y}) = w[c] + SumFunctionOnSet(w, (s \ {y}) \ {c})
        BY <1>2, <4>1
      <4>5. SumFunctionOnSet(w, rest) \in Int
        BY <3>1, FS_Subset, SumIsInt
      <4>6. w[c] \in Int /\ w[y] \in Int
        BY <3>1
      <4> DEFINE a == SumFunctionOnSet(w, s)
                 b == SumFunctionOnSet(w, s \ {c})
                 d == SumFunctionOnSet(w, s \ {y})
                 e == SumFunctionOnSet(w, rest)
      <4>7. a = w[c] + b /\ b = w[y] + e /\ d = w[c] + e
        BY <3>2, <4>2, <4>3, <4>4
      <4> HIDE DEF rest, a, b, d, e
      <4>8. a = w[y] + d
        BY <4>5, <4>6, <4>7 DEF e
      <4> QED
        BY <4>8 DEF a, d
    <3> QED
      BY <3>3, <3>4
  <2> QED
    BY <2>1
<1> HIDE DEF S
<1>3. \A n \in Nat : n \in S
  BY <1>1, <1>2, SetInduction
<1>4. Cardinality(T) \in Nat /\ T \in SUBSET T
  BY FS_CardinalityType
<1> QED
  BY <1>3, <1>4 DEF S

\* A sum over one element more.
LEMMA SumAdds ==
  ASSUME NEW w, NEW s, IsFiniteSet(s), NEW x, x \notin s, \A y \in s \union {x} : w[y] \in Int
  PROVE  SumFunctionOnSet(w, s \union {x}) = w[x] + SumFunctionOnSet(w, s)
<1>1. IsFiniteSet(s \union {x}) /\ x \in s \union {x}
  BY FS_AddElement
<1>2. SumFunctionOnSet(w, s \union {x})
        = w[x] + SumFunctionOnSet(w, (s \union {x}) \ {x})
  BY <1>1, SumRemoves
<1>3. (s \union {x}) \ {x} = s
  OBVIOUS
<1> QED
  BY <1>2, <1>3

\* A sum grows with its terms.
LEMMA SumMonotone ==
  ASSUME NEW v, NEW w, NEW T, IsFiniteSet(T),
         \A x \in T : v[x] \in Int /\ w[x] \in Int /\ v[x] <= w[x]
  PROVE  SumFunctionOnSet(v, T) <= SumFunctionOnSet(w, T)
<1> DEFINE P == {s \in SUBSET T : SumFunctionOnSet(v, s) <= SumFunctionOnSet(w, s)}
<1>1. {} \in P
  BY SumEmpty
<1>2. ASSUME NEW s \in SUBSET T, NEW x \in T, s \in P, x \notin s
      PROVE  s \union {x} \in P
  <2>1. IsFiniteSet(s)
    BY FS_Subset
  <2>2. /\ SumFunctionOnSet(v, s \union {x}) = v[x] + SumFunctionOnSet(v, s)
        /\ SumFunctionOnSet(w, s \union {x}) = w[x] + SumFunctionOnSet(w, s)
    BY <1>2, <2>1, SumAdds
  <2>3. SumFunctionOnSet(v, s) \in Int /\ SumFunctionOnSet(w, s) \in Int
    BY <2>1, SumIsInt
  <2>4. SumFunctionOnSet(v, s) <= SumFunctionOnSet(w, s)
    BY <1>2
  <2>5. SumFunctionOnSet(v, s \union {x}) <= SumFunctionOnSet(w, s \union {x})
    BY <2>2, <2>3, <2>4
  <2> QED
    BY <2>5
<1> HIDE DEF P
<1>3. T \in P
  BY <1>1, <1>2, SubsetInduction
<1> QED
  BY <1>3 DEF P

\* Equal terms have equal sums.
LEMMA SumSame ==
  ASSUME NEW v, NEW w, NEW T, IsFiniteSet(T), \A x \in T : w[x] \in Int /\ v[x] = w[x]
  PROVE  SumFunctionOnSet(v, T) = SumFunctionOnSet(w, T)
<1>1. /\ SumFunctionOnSet(v, T) <= SumFunctionOnSet(w, T)
      /\ SumFunctionOnSet(w, T) <= SumFunctionOnSet(v, T)
  BY SumMonotone
<1>2. SumFunctionOnSet(v, T) \in Int /\ SumFunctionOnSet(w, T) \in Int
  BY SumIsInt
<1> QED
  BY <1>1, <1>2

\* Terms of zero add nothing.
LEMMA SumIgnores ==
  ASSUME NEW w, NEW T, IsFiniteSet(T), \A x \in T : w[x] \in Int, NEW S \in SUBSET T,
         \A x \in T \ S : w[x] = 0
  PROVE  SumFunctionOnSet(w, S) = SumFunctionOnSet(w, T)
<1> DEFINE P == {s \in SUBSET T : SumFunctionOnSet(w, s) = SumFunctionOnSet(w, s \intersect S)}
<1>1. {} \in P
  <2>1. {} \intersect S = {}
    OBVIOUS
  <2> QED
    BY <2>1
<1>2. ASSUME NEW s \in SUBSET T, NEW x \in T, s \in P, x \notin s
      PROVE  s \union {x} \in P
  <2>1. IsFiniteSet(s) /\ IsFiniteSet(s \intersect S)
    BY FS_Subset
  <2>2. SumFunctionOnSet(w, s \union {x}) = w[x] + SumFunctionOnSet(w, s)
    BY <1>2, <2>1, SumAdds
  <2>3. SumFunctionOnSet(w, s) \in Int
    BY <2>1, SumIsInt
  <2>4. SumFunctionOnSet(w, s) = SumFunctionOnSet(w, s \intersect S)
    BY <1>2
  <2>5. ASSUME x \in S
        PROVE  SumFunctionOnSet(w, (s \union {x}) \intersect S)
                 = w[x] + SumFunctionOnSet(w, s \intersect S)
    <3>1. SumFunctionOnSet(w, (s \intersect S) \union {x})
            = w[x] + SumFunctionOnSet(w, s \intersect S)
      BY <1>2, <2>1, SumAdds
    <3>2. (s \union {x}) \intersect S = (s \intersect S) \union {x}
      BY <2>5
    <3> QED
      BY <3>1, <3>2
  <2>6. ASSUME x \notin S
        PROVE  SumFunctionOnSet(w, (s \union {x}) \intersect S)
                 = SumFunctionOnSet(w, s \intersect S) /\ w[x] = 0
    <3>1. (s \union {x}) \intersect S = s \intersect S
      BY <2>6
    <3> QED
      BY <2>6, <3>1
  <2>7. SumFunctionOnSet(w, s \union {x})
          = SumFunctionOnSet(w, (s \union {x}) \intersect S)
    BY <2>2, <2>3, <2>4, <2>5, <2>6
  <2> QED
    BY <2>7
<1> HIDE DEF P
<1>3. T \in P
  BY <1>1, <1>2, SubsetInduction
<1>4. T \intersect S = S
  OBVIOUS
<1> QED
  BY <1>3, <1>4 DEF P

\* A sum of equal terms.
LEMMA SumConstant ==
  ASSUME NEW w, NEW T, IsFiniteSet(T), NEW k \in Int, \A x \in T : w[x] = k
  PROVE  SumFunctionOnSet(w, T) = Cardinality(T) * k
<1> DEFINE P == {s \in SUBSET T : SumFunctionOnSet(w, s) = Cardinality(s) * k}
<1>1. {} \in P
  BY SumEmpty, FS_EmptySet
<1>2. ASSUME NEW s \in SUBSET T, NEW x \in T, s \in P, x \notin s
      PROVE  s \union {x} \in P
  <2>1. IsFiniteSet(s) /\ Cardinality(s) \in Nat
    BY FS_Subset, FS_CardinalityType
  <2>2. SumFunctionOnSet(w, s \union {x}) = w[x] + SumFunctionOnSet(w, s)
    BY <1>2, <2>1, SumAdds
  <2>3. Cardinality(s \union {x}) = Cardinality(s) + 1
    BY <1>2, <2>1, FS_AddElement
  <2>4. SumFunctionOnSet(w, s) = Cardinality(s) * k /\ w[x] = k
    BY <1>2
  <2>5. k + Cardinality(s) * k = (Cardinality(s) + 1) * k
    <3> DEFINE n == Cardinality(s)
    <3>1. n \in Nat
      BY <2>1
    <3> HIDE DEF n
    <3>2. k + n * k = (n + 1) * k
      BY <3>1
    <3> QED
      BY <3>2 DEF n
  <2>6. SumFunctionOnSet(w, s \union {x}) = Cardinality(s \union {x}) * k
    BY <2>2, <2>3, <2>4, <2>5
  <2> QED
    BY <2>6
<1> HIDE DEF P
<1>3. T \in P
  BY <1>1, <1>2, SubsetInduction
<1> QED
  BY <1>3 DEF P

\* A sum of natural numbers is one.
LEMMA SumIsNat ==
  ASSUME NEW w, NEW T, IsFiniteSet(T), \A x \in T : w[x] \in Nat
  PROVE  SumFunctionOnSet(w, T) \in Nat
<1> DEFINE z == [x \in T |-> 0]
<1>1. \A x \in T : z[x] = 0
  OBVIOUS
<1> HIDE DEF z
<1>2. SumFunctionOnSet(z, T) = Cardinality(T) * 0
  BY <1>1, SumConstant
<1>3. SumFunctionOnSet(z, T) <= SumFunctionOnSet(w, T)
  BY <1>1, SumMonotone
<1>4. SumFunctionOnSet(w, T) \in Int /\ Cardinality(T) \in Nat
  BY SumIsInt, FS_CardinalityType
<1> QED
  BY <1>2, <1>3, <1>4

\* A sum over the image of an injection is one over its domain.
LEMMA SumOverImage ==
  ASSUME NEW C, IsFiniteSet(C), NEW image, NEW v, NEW w,
         \A c \in C : v[c] \in Int /\ w[image[c]] = v[c],
         \A c \in C, d \in C : image[c] = image[d] => c = d
  PROVE  /\ IsFiniteSet({image[c] : c \in C})
         /\ SumFunctionOnSet(w, {image[c] : c \in C}) = SumFunctionOnSet(v, C)
         /\ Cardinality({image[c] : c \in C}) = Cardinality(C)
<1> DEFINE Im(s) == {image[c] : c \in s}
           P == {s \in SUBSET C : /\ IsFiniteSet(Im(s))
                                  /\ SumFunctionOnSet(w, Im(s)) = SumFunctionOnSet(v, s)
                                  /\ Cardinality(Im(s)) = Cardinality(s)}
<1>1. {} \in P
  <2>1. Im({}) = {}
    OBVIOUS
  <2>2. IsFiniteSet(Im({})) /\ SumFunctionOnSet(w, Im({})) = SumFunctionOnSet(v, {})
        /\ Cardinality(Im({})) = Cardinality({})
    BY <2>1, SumEmpty, FS_EmptySet
  <2> QED
    BY <2>2
<1>2. ASSUME NEW s \in SUBSET C, NEW x \in C, s \in P, x \notin s
      PROVE  s \union {x} \in P
  <2>1. /\ IsFiniteSet(Im(s)) /\ SumFunctionOnSet(w, Im(s)) = SumFunctionOnSet(v, s)
        /\ Cardinality(Im(s)) = Cardinality(s)
    BY <1>2
  <2>2. Im(s \union {x}) = Im(s) \union {image[x]}
    OBVIOUS
  <2>3. image[x] \notin Im(s)
    BY <1>2
  <2>4. IsFiniteSet(s)
    BY FS_Subset
  <2>5. SumFunctionOnSet(v, s \union {x}) = v[x] + SumFunctionOnSet(v, s)
    BY <1>2, <2>4, SumAdds
  <2>6. \A y \in Im(s) \union {image[x]} : w[y] \in Int
    OBVIOUS
  <2>7. w[image[x]] = v[x]
    OBVIOUS
  <2>8. Cardinality(s \union {x}) = Cardinality(s) + 1
    BY <1>2, <2>4, FS_AddElement
  <2> HIDE DEF Im, P
  <2>9. SumFunctionOnSet(w, Im(s) \union {image[x]}) = w[image[x]] + SumFunctionOnSet(w, Im(s))
    BY <2>1, <2>3, <2>6, SumAdds
  <2>10. IsFiniteSet(Im(s) \union {image[x]})
         /\ Cardinality(Im(s) \union {image[x]}) = Cardinality(Im(s)) + 1
    BY <2>1, <2>3, FS_AddElement
  <2>11. /\ IsFiniteSet(Im(s \union {x}))
         /\ SumFunctionOnSet(w, Im(s \union {x})) = SumFunctionOnSet(v, s \union {x})
         /\ Cardinality(Im(s \union {x})) = Cardinality(s \union {x})
    BY <2>1, <2>2, <2>5, <2>7, <2>8, <2>9, <2>10
  <2> QED
    BY <2>11 DEF P
<1> HIDE DEF P
<1>3. C \in P
  BY <1>1, <1>2, SubsetInduction
<1> QED
  BY <1>3 DEF P

\* A common factor.
LEMMA SumScales ==
  ASSUME NEW v, NEW w, NEW T, IsFiniteSet(T), NEW k \in Int,
         \A x \in T : v[x] \in Int /\ w[x] = k * v[x]
  PROVE  SumFunctionOnSet(w, T) = k * SumFunctionOnSet(v, T)
<1> DEFINE P == {s \in SUBSET T : SumFunctionOnSet(w, s) = k * SumFunctionOnSet(v, s)}
<1>0. \A x \in T : w[x] \in Int
  OBVIOUS
<1>1. {} \in P
  BY SumEmpty
<1>2. ASSUME NEW s \in SUBSET T, NEW x \in T, s \in P, x \notin s
      PROVE  s \union {x} \in P
  <2>1. IsFiniteSet(s)
    BY FS_Subset
  <2>2. /\ SumFunctionOnSet(v, s \union {x}) = v[x] + SumFunctionOnSet(v, s)
        /\ SumFunctionOnSet(w, s \union {x}) = w[x] + SumFunctionOnSet(w, s)
    BY <1>0, <1>2, <2>1, SumAdds
  <2> DEFINE a == SumFunctionOnSet(v, s)
             b == v[x]
  <2>3. a \in Int /\ b \in Int
    BY <2>1, SumIsInt
  <2>4. SumFunctionOnSet(w, s) = k * a /\ w[x] = k * b
    BY <1>2
  <2> HIDE DEF a, b
  <2>5. k * b + k * a = k * (b + a)
    BY <2>3
  <2>6. SumFunctionOnSet(w, s \union {x}) = k * SumFunctionOnSet(v, s \union {x})
    BY <2>2, <2>4, <2>5 DEF a, b
  <2> QED
    BY <2>6
<1> HIDE DEF P
<1>3. T \in P
  BY <1>1, <1>2, SubsetInduction
<1> QED
  BY <1>3 DEF P

-----------------------------------------------------------------------------
(* Counting by rank.                                                       *)

\* The members of a finite set, counted in the order of o.
PlaceIn(S, o, x) == Cardinality({y \in S : o[y] < o[x]})
Counted(S, o) == IsFiniteSet(S) /\ \A x, y \in S : o[x] \in Int /\ (x # y => o[x] # o[y])

LEMMA RankGrows ==
  ASSUME NEW S, NEW o, Counted(S, o), NEW x \in S, NEW y \in S, o[x] < o[y]
  PROVE  PlaceIn(S, o, x) \in Nat /\ PlaceIn(S, o, y) \in Nat /\ PlaceIn(S, o, x) < PlaceIn(S, o, y)
<1> DEFINE A == {z \in S : o[z] < o[x]}
           B == {z \in S : o[z] < o[y]}
<1>1. IsFiniteSet(A) /\ IsFiniteSet(B)
  BY FS_Subset DEF Counted
<1>2. A \subseteq B /\ x \in B /\ x \notin A
  BY DEF Counted
<1>3. Cardinality(A) \in Nat /\ Cardinality(B) \in Nat
  BY <1>1, FS_CardinalityType
<1>4. Cardinality(A) <= Cardinality(B) /\ (Cardinality(B) = Cardinality(A) => B = A)
  BY <1>1, <1>2, FS_Subset
<1> QED
  BY <1>2, <1>3, <1>4 DEF PlaceIn

LEMMA Ranked ==
  ASSUME NEW S, NEW o, Counted(S, o)
  PROVE  /\ Cardinality(S) \in Nat
         /\ \A x \in S : PlaceIn(S, o, x) \in 0 .. (Cardinality(S) - 1)
         /\ \A x, y \in S : PlaceIn(S, o, x) = PlaceIn(S, o, y) => x = y
         /\ \A n \in 0 .. (Cardinality(S) - 1) : \E x \in S : PlaceIn(S, o, x) = n
<1> DEFINE N == Cardinality(S)
           f == [x \in S |-> PlaceIn(S, o, x)]
<1>1. N \in Nat
  BY FS_CardinalityType DEF Counted
<1>2. ASSUME NEW x \in S PROVE PlaceIn(S, o, x) \in 0 .. (N - 1)
  <2> DEFINE A == {z \in S : o[z] < o[x]}
  <2>1. A \subseteq S /\ x \notin A /\ IsFiniteSet(S)
    BY DEF Counted
  <2>2. IsFiniteSet(A) /\ Cardinality(A) <= N /\ (N = Cardinality(A) => S = A)
    BY <2>1, FS_Subset
  <2>3. Cardinality(A) \in Nat
    BY <2>2, FS_CardinalityType
  <2>4. Cardinality(A) # N
    BY <2>1, <2>2
  <2> HIDE DEF A
  <2>5. Cardinality(A) \in 0 .. (N - 1)
    BY <1>1, <2>2, <2>3, <2>4
  <2> QED
    BY <2>5 DEF PlaceIn, A
<1>3. ASSUME NEW x \in S, NEW y \in S, PlaceIn(S, o, x) = PlaceIn(S, o, y) PROVE x = y
  <2> SUFFICES ASSUME x # y PROVE FALSE
    OBVIOUS
  <2>1. CASE o[x] < o[y]
    BY <1>3, <2>1, RankGrows
  <2>2. CASE o[y] < o[x]
    BY <1>3, <2>2, RankGrows
  <2> QED
    BY <2>1, <2>2 DEF Counted
<1>4. f \in Injection(S, 0 .. (N - 1))
  BY <1>2, <1>3 DEF Injection, IsInjective
<1>5. IsFiniteSet(0 .. (N - 1)) /\ Cardinality(0 .. (N - 1)) = N
  BY <1>1, FS_Interval
<1>6. f \in Surjection(S, 0 .. (N - 1))
  BY <1>4, <1>5, FS_Injection
<1>7. ASSUME NEW n \in 0 .. (N - 1) PROVE \E x \in S : PlaceIn(S, o, x) = n
  BY <1>6 DEF Surjection
<1> QED
  BY <1>1, <1>2, <1>3, <1>7

LEMMA RankIsTaken ==
  ASSUME NEW S, NEW o, Counted(S, o), NEW n \in Nat, n < Cardinality(S)
  PROVE  \E x \in S : PlaceIn(S, o, x) = n
<1>1. /\ Cardinality(S) \in Nat
      /\ \A k \in 0 .. (Cardinality(S) - 1) : \E x \in S : PlaceIn(S, o, x) = k
  BY Ranked
<1>2. n \in 0 .. (Cardinality(S) - 1)
  BY <1>1
<1> QED
  BY <1>1, <1>2

\* What has the highest rank, and so the largest of finitely many numbers.
LEMMA HighestRank ==
  ASSUME NEW S, NEW o, Counted(S, o), S # {}
  PROVE  \E x \in S : \A y \in S : ~(o[x] < o[y])
<1>1. /\ Cardinality(S) \in Nat
      /\ \A x \in S : PlaceIn(S, o, x) \in 0 .. (Cardinality(S) - 1)
      /\ \A n \in 0 .. (Cardinality(S) - 1) : \E x \in S : PlaceIn(S, o, x) = n
  BY Ranked
<1>2. Cardinality(S) # 0
  BY FS_EmptySet DEF Counted
<1>3. Cardinality(S) - 1 \in 0 .. (Cardinality(S) - 1)
  BY <1>1, <1>2
<1>4. PICK x \in S : PlaceIn(S, o, x) = Cardinality(S) - 1
  BY <1>1, <1>3
<1>5. ASSUME NEW y \in S, o[x] < o[y] PROVE FALSE
  <2>1. PlaceIn(S, o, x) < PlaceIn(S, o, y)
    BY <1>5, RankGrows
  <2> QED
    BY <1>1, <1>4, <2>1
<1> QED
  BY <1>5

LEMMA MaxOfFinite ==
  ASSUME NEW S \in SUBSET Int, IsFiniteSet(S), S # {}
  PROVE  Max(S) \in S /\ \A y \in S : Max(S) >= y
<1> DEFINE o == [x \in S |-> x]
<1>1. Counted(S, o)
  BY DEF Counted
<1>2. \A x \in S : o[x] = x
  OBVIOUS
<1> HIDE DEF o
<1>3. \E x \in S : \A y \in S : ~(o[x] < o[y])
  BY <1>1, HighestRank
<1>4. \E z \in S : \A y \in S : z >= y
  BY <1>2, <1>3
<1> QED
  BY <1>4 DEF Max

LEMMA MaxOfTwo ==
  ASSUME NEW a \in Int, NEW b \in Int
  PROVE  Max({a, b}) = IF a >= b THEN a ELSE b
<1> DEFINE m == IF a >= b THEN a ELSE b
<1>1. m \in {a, b} /\ \A y \in {a, b} : m >= y
  OBVIOUS
<1>2. \A x \in {a, b} : (\A y \in {a, b} : x >= y) => x = m
  OBVIOUS
<1> HIDE DEF m
<1>3. Max({a, b}) = m
  BY <1>1, <1>2 DEF Max
<1> QED
  BY <1>3 DEF m

-----------------------------------------------------------------------------
(* Sorting.                                                                *)

\* The members of a finite set, counted under a strict total order.
PlaceUnder(S, R, x) == Cardinality({y \in S : <<y, x>> \in R})
StrictOrder(S, R) ==
  /\ IsFiniteSet(S)
  /\ \A x \in S : <<x, x>> \notin R
  /\ \A x, y \in S : x # y => <<x, y>> \in R \/ <<y, x>> \in R
  /\ \A x, y, z \in S : <<x, y>> \in R /\ <<y, z>> \in R => <<x, z>> \in R

\* Who comes later has more before it.
LEMMA LaterPlace ==
  ASSUME NEW S, NEW R, StrictOrder(S, R), NEW x \in S, NEW y \in S, <<x, y>> \in R
  PROVE  /\ PlaceUnder(S, R, x) \in Nat /\ PlaceUnder(S, R, y) \in Nat
         /\ PlaceUnder(S, R, x) < PlaceUnder(S, R, y)
<1> DEFINE A == {z \in S : <<z, x>> \in R}
           B == {z \in S : <<z, y>> \in R}
<1>1. IsFiniteSet(A) /\ IsFiniteSet(B)
  BY FS_Subset DEF StrictOrder
<1>2. A \subseteq B /\ x \in B /\ x \notin A
  BY DEF StrictOrder
<1>3. PlaceUnder(S, R, x) = Cardinality(A) /\ PlaceUnder(S, R, y) = Cardinality(B)
  BY DEF PlaceUnder
<1> HIDE DEF A, B
<1>4. Cardinality(A) \in Nat /\ Cardinality(B) \in Nat
  BY <1>1, FS_CardinalityType
<1>5. Cardinality(A) <= Cardinality(B) /\ (Cardinality(B) = Cardinality(A) => B = A)
  BY <1>1, <1>2, FS_Subset
<1> QED
  BY <1>2, <1>3, <1>4, <1>5

\* The places are 0, 1, ... without a gap.
LEMMA Placed ==
  ASSUME NEW S, NEW R, StrictOrder(S, R)
  PROVE  /\ Cardinality(S) \in Nat
         /\ \A n \in 0 .. (Cardinality(S) - 1) : \E x \in S : PlaceUnder(S, R, x) = n
         /\ \A x \in S : PlaceUnder(S, R, x) \in 0 .. (Cardinality(S) - 1)
         /\ \A x, y \in S : PlaceUnder(S, R, x) = PlaceUnder(S, R, y) => x = y
<1> DEFINE N == Cardinality(S)
           f == [x \in S |-> PlaceUnder(S, R, x)]
<1>1. N \in Nat
  BY FS_CardinalityType DEF StrictOrder
<1>2. ASSUME NEW x \in S PROVE PlaceUnder(S, R, x) \in 0 .. (N - 1)
  <2> DEFINE A == {y \in S : <<y, x>> \in R}
  <2>1. A \subseteq S /\ x \notin A /\ IsFiniteSet(S) /\ PlaceUnder(S, R, x) = Cardinality(A)
    BY DEF StrictOrder, PlaceUnder
  <2> HIDE DEF A
  <2>2. IsFiniteSet(A) /\ Cardinality(A) <= N /\ (N = Cardinality(A) => S = A)
    BY <2>1, FS_Subset
  <2>3. Cardinality(A) \in Nat
    BY <2>2, FS_CardinalityType
  <2>4. Cardinality(A) # N
    BY <2>1, <2>2
  <2> HIDE DEF N
  <2> QED
    BY <1>1, <2>1, <2>2, <2>3, <2>4
<1>3. ASSUME NEW x \in S, NEW y \in S, PlaceUnder(S, R, x) = PlaceUnder(S, R, y) PROVE x = y
  <2> SUFFICES ASSUME x # y PROVE FALSE
    OBVIOUS
  <2>1. CASE <<x, y>> \in R
    BY <1>3, <2>1, LaterPlace
  <2>2. CASE <<y, x>> \in R
    BY <1>3, <2>2, LaterPlace
  <2> QED
    BY <2>1, <2>2 DEF StrictOrder
<1>4. f \in Injection(S, 0 .. (N - 1))
  BY <1>2, <1>3 DEF Injection, IsInjective
<1>5. IsFiniteSet(0 .. (N - 1)) /\ Cardinality(0 .. (N - 1)) = N
  BY <1>1, FS_Interval
<1>6. f \in Surjection(S, 0 .. (N - 1))
  BY <1>4, <1>5, FS_Injection
<1>7. ASSUME NEW n \in 0 .. (N - 1) PROVE \E x \in S : PlaceUnder(S, R, x) = n
  BY <1>6 DEF Surjection
<1> QED
  BY <1>1, <1>2, <1>3, <1>7

\* The sequence of the members by their places has all of them, and nothing else.
InPlaces(S, R) == [i \in 1 .. Cardinality(S) |-> CHOOSE x \in S : PlaceUnder(S, R, x) = i - 1]

LEMMA SortedMembers ==
  ASSUME NEW S, NEW R, StrictOrder(S, R)
  PROVE  /\ Cardinality(S) \in Nat
         /\ InPlaces(S, R) \in [1 .. Cardinality(S) -> S]
         /\ \A x \in S : \E i \in 1 .. Cardinality(S) : InPlaces(S, R)[i] = x
<1> DEFINE N == Cardinality(S)
           seq == InPlaces(S, R)
<1>1. /\ N \in Nat
      /\ \A n \in 0 .. (N - 1) : \E x \in S : PlaceUnder(S, R, x) = n
      /\ \A x \in S : PlaceUnder(S, R, x) \in 0 .. (N - 1)
      /\ \A x, y \in S : PlaceUnder(S, R, x) = PlaceUnder(S, R, y) => x = y
  BY Placed
<1> HIDE DEF N
<1>2. ASSUME NEW i \in 1 .. N
      PROVE  seq[i] \in S /\ PlaceUnder(S, R, seq[i]) = i - 1
  <2>1. \E x \in S : PlaceUnder(S, R, x) = i - 1
    <3>1. i - 1 \in 0 .. (N - 1)
      BY <1>1
    <3> QED
      BY <1>1, <3>1
  <2>2. seq[i] = CHOOSE x \in S : PlaceUnder(S, R, x) = i - 1
    BY DEF InPlaces, N
  <2> QED
    BY <2>1, <2>2
<1>3. seq \in [1 .. N -> S]
  BY <1>2 DEF InPlaces, N
<1>4. ASSUME NEW x \in S PROVE \E i \in 1 .. N : seq[i] = x
  <2> DEFINE i == PlaceUnder(S, R, x) + 1
  <2>1. i \in 1 .. N /\ i - 1 = PlaceUnder(S, R, x)
    BY <1>1
  <2> HIDE DEF i
  <2>2. seq[i] \in S /\ PlaceUnder(S, R, seq[i]) = PlaceUnder(S, R, x)
    BY <1>2, <2>1
  <2> QED
    BY <1>1, <2>1, <2>2
<1> QED
  BY <1>1, <1>3, <1>4 DEF N

\* By one key, in either direction, and then by another that tells the members apart.
Ahead(k, t, down, x, y) ==
  IF k[x] # k[y] THEN (IF down THEN k[x] > k[y] ELSE k[x] < k[y]) ELSE t[x] < t[y]

LEMMA ByTwoKeys ==
  ASSUME NEW S, IsFiniteSet(S), NEW k, NEW t, NEW down \in BOOLEAN,
         \A x \in S : k[x] \in Int /\ t[x] \in Int,
         \A x, y \in S : t[x] = t[y] => x = y
  PROVE  StrictOrder(S, {p \in S \X S : Ahead(k, t, down, p[1], p[2])})
<1> DEFINE R == {p \in S \X S : Ahead(k, t, down, p[1], p[2])}
<1>1. \A x, y \in S : <<x, y>> \in R <=> Ahead(k, t, down, x, y)
  OBVIOUS
<1> HIDE DEF R
<1>2. ASSUME NEW x \in S PROVE ~Ahead(k, t, down, x, x)
  BY DEF Ahead
<1>3. ASSUME NEW x \in S, NEW y \in S, x # y
      PROVE  Ahead(k, t, down, x, y) \/ Ahead(k, t, down, y, x)
  <2>1. k[x] \in Int /\ k[y] \in Int /\ t[x] \in Int /\ t[y] \in Int /\ t[x] # t[y]
    BY <1>3
  <2> QED
    BY <2>1 DEF Ahead
<1>4. ASSUME NEW x \in S, NEW y \in S, NEW z \in S,
             Ahead(k, t, down, x, y), Ahead(k, t, down, y, z)
      PROVE  Ahead(k, t, down, x, z)
  <2>1. /\ k[x] \in Int /\ k[y] \in Int /\ k[z] \in Int
        /\ t[x] \in Int /\ t[y] \in Int /\ t[z] \in Int
    OBVIOUS
  <2> QED
    BY <1>4, <2>1 DEF Ahead
<1> QED
  BY <1>1, <1>2, <1>3, <1>4 DEF StrictOrder, R

-----------------------------------------------------------------------------
(* Images.                                                                 *)

\* The numbers up to another are so many.
LEMMA UpTo ==
  ASSUME NEW n \in Nat
  PROVE  IsFiniteSet(0 .. n) /\ Cardinality(0 .. n) = n + 1
<1>1. 0 \in Int /\ n \in Int
  OBVIOUS
<1>2. IsFiniteSet(0 .. n)
  BY <1>1, FS_Interval
<1>3. Cardinality(0 .. n) = IF 0 > n THEN 0 ELSE n - 0 + 1
  BY <1>1, FS_Interval
<1> QED
  BY <1>2, <1>3

\* The image of a finite set.
LEMMA FiniteImage ==
  ASSUME NEW C, IsFiniteSet(C), NEW f
  PROVE  IsFiniteSet({f[c] : c \in C})
<1> DEFINE T == {f[c] : c \in C}
           h == [c \in C |-> f[c]]
<1>1. h \in Surjection(C, T)
  BY DEF Surjection
<1> QED
  BY <1>1, FS_Surjection

\* Two functions that tell the same members of a set apart have images of one size.
LEMMA SameKernel ==
  ASSUME NEW C, IsFiniteSet(C), NEW f, NEW g,
         \A c, d \in C : f[c] = f[d] <=> g[c] = g[d]
  PROVE  Cardinality({f[c] : c \in C}) = Cardinality({g[c] : c \in C})
<1> DEFINE F == {f[c] : c \in C}
           G == {g[c] : c \in C}
           source(x) == CHOOSE c \in C : f[c] = x
           h == [x \in F |-> g[source(x)]]
<1>1. \A x \in F : source(x) \in C /\ f[source(x)] = x
  OBVIOUS
<1>2. \A c \in C : h[f[c]] = g[c]
  BY <1>1
<1>3. h \in [F -> G]
  BY <1>1
<1>4. \A x, y \in F : h[x] = h[y] => x = y
  BY <1>1
<1>5. ASSUME NEW z \in G PROVE \E x \in F : h[x] = z
  <2>1. PICK c \in C : z = g[c]
    OBVIOUS
  <2>2. f[c] \in F /\ h[f[c]] = z
    BY <1>2, <2>1
  <2> QED
    BY <2>2
<1>6. IsFiniteSet(F)
  BY FiniteImage
<1> HIDE DEF h, F, G, source
<1>7. h \in Bijection(F, G)
  BY <1>3, <1>4, <1>5 DEF Bijection, Injection, Surjection, IsInjective
<1>8. ExistsBijection(F, G)
  BY <1>7 DEF ExistsBijection
<1> QED
  BY <1>6, <1>8, FS_Bijection DEF F, G

\* A set with two members has more than one.
LEMMA TwoMembers ==
  ASSUME NEW S, IsFiniteSet(S), NEW x \in S, NEW y \in S, x # y
  PROVE  Cardinality(S) \in Nat /\ Cardinality(S) >= 2
<1>1. IsFiniteSet({x}) /\ Cardinality({x}) = 1
  BY FS_Singleton
<1>2. Cardinality({x} \union {y}) = 2
  BY <1>1, FS_AddElement
<1>3. Cardinality({x} \union {y}) <= Cardinality(S) /\ Cardinality(S) \in Nat
  BY FS_Subset, FS_CardinalityType
<1> QED
  BY <1>2, <1>3

LEMMA MoreThanOne ==
  ASSUME NEW S, IsFiniteSet(S), Cardinality(S) > 1
  PROVE  \E x, y \in S : x # y
<1> SUFFICES ASSUME \A x, y \in S : x = y PROVE FALSE
  OBVIOUS
<1>1. S # {}
  BY FS_EmptySet
<1>2. PICK x \in S : S = {x}
  BY <1>1
<1> QED
  BY <1>2, FS_Singleton

-----------------------------------------------------------------------------
(* Sequences put end to end.                                               *)

\* The function behind FlattenSeq.
Flattening(seqs, n, f) ==
  f = [i \in 1 .. n |-> IF i = 1 THEN seqs[i] ELSE f[i - 1] \o seqs[i]]

LEMMA FlatteningExists ==
  ASSUME NEW seqs
  PROVE  \A n \in Nat : \E f : Flattening(seqs, n, f)
<1> DEFINE S == {n \in Nat : \E f : Flattening(seqs, n, f)}
<1>1. 0 \in S
  <2> DEFINE f == [i \in 1 .. 0 |-> seqs[i]]
  <2>1. f = [i \in 1 .. 0 |-> IF i = 1 THEN seqs[i] ELSE f[i - 1] \o seqs[i]]
    OBVIOUS
  <2> HIDE DEF f
  <2> QED
    BY <2>1 DEF Flattening
<1>2. ASSUME NEW n \in Nat, n \in S PROVE n + 1 \in S
  <2>1. PICK f : Flattening(seqs, n, f)
    BY <1>2
  <2> DEFINE m == n + 1
             g == [i \in 1 .. m |-> IF i = 1 THEN seqs[i] ELSE f[i - 1] \o seqs[i]]
  <2>2. m \in Nat
    OBVIOUS
  <2>3. ASSUME NEW i \in 1 .. n PROVE g[i] = f[i]
    <3>1. i \in 1 .. m
      OBVIOUS
    <3>2. f[i] = IF i = 1 THEN seqs[i] ELSE f[i - 1] \o seqs[i]
      BY <2>1 DEF Flattening
    <3> HIDE DEF m
    <3> QED
      BY <3>1, <3>2
  <2>4. ASSUME NEW i \in 1 .. m
        PROVE  g[i] = IF i = 1 THEN seqs[i] ELSE g[i - 1] \o seqs[i]
    <3>1. g[i] = IF i = 1 THEN seqs[i] ELSE f[i - 1] \o seqs[i]
      OBVIOUS
    <3>2. i # 1 => i - 1 \in 1 .. n
      OBVIOUS
    <3> HIDE DEF g
    <3> QED
      BY <2>3, <3>1, <3>2
  <2>5. g = [i \in 1 .. m |-> g[i]]
    OBVIOUS
  <2> HIDE DEF g
  <2>6. g = [i \in 1 .. m |-> IF i = 1 THEN seqs[i] ELSE g[i - 1] \o seqs[i]]
    BY <2>4, <2>5
  <2> QED
    BY <2>2, <2>6 DEF Flattening
<1> HIDE DEF S
<1>3. \A n \in Nat : n \in S
  BY <1>1, <1>2, SetInduction
<1> QED
  BY <1>3 DEF S

\* What is put end to end has the elements of each part.
LEMMA Flattened ==
  ASSUME NEW T, NEW seqs \in Seq(Seq(T))
  PROVE  /\ FlattenSeq(seqs) \in Seq(T)
         /\ \A i \in 1 .. Len(seqs) : Range(seqs[i]) \subseteq Range(FlattenSeq(seqs))
         /\ \A x \in Range(FlattenSeq(seqs)) : \E i \in 1 .. Len(seqs) : x \in Range(seqs[i])
<1> DEFINE N == Len(seqs)
<1>1. N \in Nat /\ \A i \in 1 .. N : seqs[i] \in Seq(T)
  BY LenProperties, ElementOfSeq
<1>2. CASE N = 0
  <2>1. seqs = <<>>
    BY <1>2, EmptySeq
  <2>2. FlattenSeq(seqs) = <<>> /\ Range(<<>>) = {}
    BY <1>2, <2>1 DEF FlattenSeq, Range
  <2> QED
    BY <1>2, <2>2
<1>3. CASE N # 0
  <2> DEFINE f == CHOOSE f : Flattening(seqs, N, f)
  <2>1. Flattening(seqs, N, f)
    BY <1>1, FlatteningExists
  <2>2. FlattenSeq(seqs) = f[N]
    BY <1>3 DEF FlattenSeq, Flattening
  <2> HIDE DEF f, N
  <2>3. \A i \in 1 .. N : f[i] = IF i = 1 THEN seqs[i] ELSE f[i - 1] \o seqs[i]
    BY <2>1 DEF Flattening
  <2> DEFINE S == {n \in Nat : n \in 1 .. N =>
                     /\ f[n] \in Seq(T)
                     /\ \A i \in 1 .. n : Range(seqs[i]) \subseteq Range(f[n])
                     /\ \A x \in Range(f[n]) : \E i \in 1 .. n : x \in Range(seqs[i])}
  <2>4. 0 \in S
    OBVIOUS
  <2>5. ASSUME NEW n \in Nat, n \in S, n + 1 \in 1 .. N
        PROVE  /\ f[n + 1] \in Seq(T)
               /\ \A i \in 1 .. n + 1 : Range(seqs[i]) \subseteq Range(f[n + 1])
               /\ \A x \in Range(f[n + 1]) : \E i \in 1 .. n + 1 : x \in Range(seqs[i])
    <3> DEFINE m == n + 1
    <3>1. m \in 1 .. N /\ seqs[m] \in Seq(T)
      BY <1>1, <2>5
    <3>2. CASE n = 0
      <4>1. m = 1 /\ f[m] = seqs[m]
        BY <2>3, <3>1, <3>2
      <4>2. \A i \in 1 .. m : i = 1
        BY <4>1
      <4> HIDE DEF m
      <4>3. 1 \in 1 .. m
        BY <4>1
      <4>4. Range(f[m]) = Range(seqs[1]) /\ f[m] \in Seq(T)
        BY <3>1, <4>1
      <4> QED
        BY <4>2, <4>3, <4>4 DEF m
    <3>3. CASE n # 0
      <4>1. /\ n \in 1 .. N /\ f[n] \in Seq(T)
            /\ \A i \in 1 .. n : Range(seqs[i]) \subseteq Range(f[n])
            /\ \A x \in Range(f[n]) : \E i \in 1 .. n : x \in Range(seqs[i])
        BY <1>1, <2>5, <3>3
      <4>2. m - 1 = n /\ m # 1 /\ \A i \in 1 .. m : i \in 1 .. n \/ i = m
        BY <3>3
      <4>3. m \in 1 .. m /\ \A i \in 1 .. n : i \in 1 .. m
        OBVIOUS
      <4> HIDE DEF m, S
      <4>4. f[m] = f[n] \o seqs[m]
        BY <2>3, <3>1, <4>2
      <4>5. f[m] \in Seq(T) /\ Range(f[m]) = Range(f[n]) \union Range(seqs[m])
        BY <3>1, <4>1, <4>4, ConcatProperties, RangeConcatenation
      <4> QED
        BY <4>1, <4>2, <4>3, <4>5 DEF m
    <3> QED
      BY <3>2, <3>3
  <2>6. ASSUME NEW n \in Nat, n \in S PROVE n + 1 \in S
    <3>1. n + 1 \in Nat
      OBVIOUS
    <3>2. CASE n + 1 \in 1 .. N
      BY <2>5, <2>6, <3>1, <3>2
    <3>3. CASE n + 1 \notin 1 .. N
      BY <3>1, <3>3
    <3> QED
      BY <3>2, <3>3
  <2> HIDE DEF S
  <2>7. \A n \in Nat : n \in S
    BY <2>4, <2>6, SetInduction
  <2>8. N \in 1 .. N
    BY <1>1, <1>3 DEF N
  <2> QED
    BY <1>1, <2>2, <2>7, <2>8 DEF S, N
<1> QED
  BY <1>2, <1>3
==============================================================================
