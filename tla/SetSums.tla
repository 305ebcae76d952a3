------------------------------ MODULE SetSums ------------------------------
(***************************************************************************)
(* Lemmas about SumFunctionOnSet, the sum of the values of a function over *)
(* a finite set: the sum does not depend on the order of the elements, and *)
(* it may be split, joined and re-indexed.                                 *)
(***************************************************************************)
EXTENDS FiniteSetsExt, FiniteSetTheorems, TLAPS

(* Induction on finite sets, for a property given as the set of those that *)
(* have it.                                                                *)
LEMMA SubsetInduction ==
  ASSUME NEW S, IsFiniteSet(S), NEW Good,
         {} \in Good,
         \A T \in SUBSET S : T # {} /\ (\A x \in T : T \ {x} \in Good) => T \in Good
  PROVE  \A T \in SUBSET S : T \in Good
<1> DEFINE Bad == {T \in SUBSET S : T \notin Good}
           R == StrictSubsetOrdering(S)
<1> SUFFICES ASSUME Bad # {} PROVE FALSE
  OBVIOUS
<1>1. Bad \subseteq FiniteSubsetsOf(S)
  BY FS_FiniteSubsetsOfFinite
<1>2. IsWellFoundedOn(R, FiniteSubsetsOf(S))
  BY FS_StrictSubsetOrderingWellFounded
<1>3. PICK T \in Bad : \A U \in Bad : <<U, T>> \notin R
  <2> HIDE DEF Bad, R
  <2> QED
    BY <1>1, <1>2, WFMin
<1>4. T # {}
  BY <1>3
<1>5. ASSUME NEW x \in T PROVE T \ {x} \in Good
  <2>1. T \ {x} \subseteq T /\ T \ {x} # T /\ T \ {x} \in SUBSET S /\ T \in SUBSET S
    BY <1>3, <1>5
  <2>2. <<T \ {x}, T>> \in R
    BY <2>1 DEF StrictSubsetOrdering
  <2> QED
    BY <1>3, <2>1, <2>2
<1> QED
  BY <1>3, <1>4, <1>5

(* The equation that defines the sums over the subsets of a set.           *)
Recurrence(f, S, g) ==
  g = [s \in SUBSET S |-> IF s = {} THEN 0
                          ELSE LET x == CHOOSE y \in s : TRUE IN f[x] + g[s \ {x}]]

First(s) == CHOOSE y \in s : TRUE

LEMMA FirstElement ==
  ASSUME NEW s, s # {}
  PROVE  First(s) \in s
BY DEF First

LEMMA RecurrenceAt ==
  ASSUME NEW f, NEW S, NEW g, Recurrence(f, S, g), NEW s \in SUBSET S
  PROVE  g[s] = IF s = {} THEN 0 ELSE f[First(s)] + g[s \ {First(s)}]
BY Zenon DEF Recurrence, First

LEMMA SumAsRecurrence ==
  ASSUME NEW f, NEW S
  PROVE  SumFunctionOnSet(f, S) = (CHOOSE g : Recurrence(f, S, g))[S]
BY Zenon DEF SumFunctionOnSet, FoldFunctionOnSet, MapThenFoldSet, Recurrence

LEMMA RecurrencesAgree ==
  ASSUME NEW f, NEW S, NEW T, NEW g, NEW h,
         Recurrence(f, S, g), Recurrence(f, T, h),
         NEW U, U \subseteq S, U \subseteq T, IsFiniteSet(U)
  PROVE  g[U] = h[U]
<1> DEFINE Good == {s \in SUBSET U : g[s] = h[s]}
<1>1. {} \in Good
  BY RecurrenceAt
<1>2. ASSUME NEW s \in SUBSET U, s # {}, \A x \in s : s \ {x} \in Good
      PROVE  s \in Good
  <2>1. First(s) \in s
    BY <1>2, FirstElement
  <2>2. g[s \ {First(s)}] = h[s \ {First(s)}]
    BY <1>2, <2>1
  <2>3. s \in SUBSET S /\ s \in SUBSET T
    BY <1>2
  <2>4. g[s] = f[First(s)] + g[s \ {First(s)}]
    BY <1>2, <2>3, RecurrenceAt
  <2>5. h[s] = f[First(s)] + h[s \ {First(s)}]
    BY <1>2, <2>3, RecurrenceAt
  <2> QED
    BY <2>2, <2>4, <2>5
<1>3. \A s \in SUBSET U : s \in Good
  <2> HIDE DEF Good
  <2> QED
    BY <1>1, <1>2, SubsetInduction
<1> QED
  BY <1>3

LEMMA RestrictedRecurrence ==
  ASSUME NEW f, NEW S, NEW g, Recurrence(f, S, g), NEW T, T \subseteq S
  PROVE  \E h : Recurrence(f, T, h)
<1> DEFINE h == [s \in SUBSET T |-> g[s]]
<1>1. \A s \in SUBSET T :
        h[s] = IF s = {} THEN 0 ELSE f[First(s)] + h[s \ {First(s)}]
  <2> TAKE s \in SUBSET T
  <2>1. s \in SUBSET S /\ s \ {First(s)} \in SUBSET T
    OBVIOUS
  <2>2. h[s] = g[s] /\ h[s \ {First(s)}] = g[s \ {First(s)}]
    BY <2>1
  <2> QED
    BY <2>1, <2>2, RecurrenceAt
<1>2. h = [s \in SUBSET T |-> IF s = {} THEN 0 ELSE f[First(s)] + h[s \ {First(s)}]]
  BY <1>1
<1>3. Recurrence(f, T, h)
  <2> HIDE DEF h
  <2> QED
    BY <1>2, Zenon DEF Recurrence, First
<1> QED
  BY <1>3

LEMMA RecurrenceExists ==
  ASSUME NEW f, NEW S, IsFiniteSet(S)
  PROVE  \E g : Recurrence(f, S, g)
<1> DEFINE Good == {T \in SUBSET S : \E g : Recurrence(f, T, g)}
           Sum(T) == SumFunctionOnSet(f, T)
<1>1. {} \in Good
  <2> DEFINE g == [s \in SUBSET {} |-> 0]
  <2>1. g = [s \in SUBSET {} |-> IF s = {} THEN 0 ELSE f[First(s)] + g[s \ {First(s)}]]
    OBVIOUS
  <2>2. Recurrence(f, {}, g)
    <3> HIDE DEF g
    <3> QED
      BY <2>1, Zenon DEF Recurrence, First
  <2> QED
    BY <2>2
<1>2. ASSUME NEW T \in SUBSET S, T # {}, \A x \in T : T \ {x} \in Good
      PROVE  T \in Good
  <2>1. ASSUME NEW U, U \subseteq T, U # T
        PROVE  \E g : Recurrence(f, U, g)
    <3>1. PICK x \in T : U \subseteq T \ {x}
      BY <2>1
    <3>2. PICK g : Recurrence(f, T \ {x}, g)
      BY <1>2
    <3> QED
      BY <3>1, <3>2, RestrictedRecurrence
  <2> DEFINE G(U) == CHOOSE g : Recurrence(f, U, g)
  <2>2. ASSUME NEW U, U \subseteq T, U # T
        PROVE  Recurrence(f, U, G(U)) /\ Sum(U) = G(U)[U]
    BY <2>1, <2>2, SumAsRecurrence
  <2> HIDE DEF G, Sum
  <2>3. ASSUME NEW U, U \subseteq T, U # T
        PROVE  Sum(U) = IF U = {} THEN 0 ELSE f[First(U)] + Sum(U \ {First(U)})
    <3>1. CASE U = {}
      BY <2>2, <2>3, <3>1, RecurrenceAt
    <3>2. CASE U # {}
      <4> DEFINE V == U \ {First(U)}
      <4>1. First(U) \in U /\ V \subseteq U /\ V \subseteq T /\ V # T /\ U \in SUBSET U
        BY <2>3, <3>2, FirstElement
      <4>2. IsFiniteSet(V)
        BY <4>1, FS_Subset
      <4>3. Recurrence(f, U, G(U)) /\ Recurrence(f, V, G(V))
        BY <2>2, <2>3, <4>1
      <4>4. G(U)[V] = G(V)[V]
        <5> HIDE DEF V
        <5> QED
          BY <4>1, <4>2, <4>3, RecurrencesAgree
      <4>5. G(U)[U] = f[First(U)] + G(U)[V]
        BY <3>2, <4>1, <4>3, RecurrenceAt
      <4> QED
        BY <2>2, <2>3, <3>2, <4>1, <4>4, <4>5
    <3> QED
      BY <3>1, <3>2
  <2> DEFINE h == [s \in SUBSET T |-> IF s = {} THEN 0 ELSE f[First(s)] + Sum(s \ {First(s)})]
  <2>4. \A s \in SUBSET T : s # {} => h[s \ {First(s)}] = Sum(s \ {First(s)})
    <3> TAKE s \in SUBSET T
    <3> HAVE s # {}
    <3> DEFINE U == s \ {First(s)}
    <3>1. U \subseteq T /\ U # T
      BY FirstElement
    <3> QED
      BY <2>3, <3>1
  <2>5. h = [s \in SUBSET T |-> IF s = {} THEN 0 ELSE f[First(s)] + h[s \ {First(s)}]]
    BY <2>4
  <2>6. Recurrence(f, T, h)
    <3> HIDE DEF h
    <3> QED
      BY <2>5, Zenon DEF Recurrence, First
  <2> QED
    BY <2>6
<1>3. \A T \in SUBSET S : T \in Good
  <2> HIDE DEF Good
  <2> QED
    BY <1>1, <1>2, SubsetInduction
<1> QED
  BY <1>3

LEMMA SumUnfold ==
  ASSUME NEW f, NEW S, IsFiniteSet(S)
  PROVE  SumFunctionOnSet(f, S) =
           IF S = {} THEN 0 ELSE f[First(S)] + SumFunctionOnSet(f, S \ {First(S)})
<1> DEFINE T == S \ {First(S)}
           g == CHOOSE k : Recurrence(f, S, k)
           h == CHOOSE k : Recurrence(f, T, k)
<1>1. IsFiniteSet(T) /\ T \subseteq S /\ S \in SUBSET S
  BY FS_Subset
<1>2. Recurrence(f, S, g) /\ Recurrence(f, T, h)
  BY <1>1, RecurrenceExists
<1>3. SumFunctionOnSet(f, S) = g[S] /\ SumFunctionOnSet(f, T) = h[T]
  BY SumAsRecurrence
<1> HIDE DEF g, h
<1>4. g[T] = h[T]
  BY <1>1, <1>2, RecurrencesAgree
<1>5. g[S] = IF S = {} THEN 0 ELSE f[First(S)] + g[S \ {First(S)}]
  BY <1>1, <1>2, RecurrenceAt
<1> QED
  BY <1>3, <1>4, <1>5

(* The sum over no elements.                                               *)
LEMMA SumEmpty ==
  ASSUME NEW f
  PROVE  SumFunctionOnSet(f, {}) = 0
BY SumUnfold, FS_EmptySet

(* A sum of integers is an integer.                                        *)
LEMMA SumType ==
  ASSUME NEW f, NEW S, IsFiniteSet(S), \A x \in S : f[x] \in Int
  PROVE  SumFunctionOnSet(f, S) \in Int
<1> DEFINE Good == {T \in SUBSET S : SumFunctionOnSet(f, T) \in Int}
<1>1. {} \in Good
  BY SumEmpty
<1>2. ASSUME NEW T \in SUBSET S, T # {}, \A x \in T : T \ {x} \in Good
      PROVE  T \in Good
  <2>1. First(T) \in T /\ IsFiniteSet(T)
    BY <1>2, FirstElement, FS_Subset
  <2>2. f[First(T)] \in Int /\ SumFunctionOnSet(f, T \ {First(T)}) \in Int
    BY <1>2, <2>1
  <2>3. SumFunctionOnSet(f, T) = f[First(T)] + SumFunctionOnSet(f, T \ {First(T)})
    BY <1>2, <2>1, SumUnfold
  <2> QED
    BY <2>2, <2>3
<1>3. \A T \in SUBSET S : T \in Good
  <2> HIDE DEF Good
  <2> QED
    BY <1>1, <1>2, SubsetInduction
<1> QED
  BY <1>3

(* Any element may be set apart, whichever the recursion takes first.      *)
LEMMA SumSplit ==
  ASSUME NEW f, NEW S, IsFiniteSet(S), \A x \in S : f[x] \in Int, NEW x \in S
  PROVE  SumFunctionOnSet(f, S) = f[x] + SumFunctionOnSet(f, S \ {x})
<1> DEFINE Sum(T) == SumFunctionOnSet(f, T)
           Good == {T \in SUBSET S : \A y \in T : Sum(T) = f[y] + Sum(T \ {y})}
<1>1. {} \in Good
  OBVIOUS
<1>2. ASSUME NEW T \in SUBSET S, T # {}, \A y \in T : T \ {y} \in Good, NEW y \in T
      PROVE  Sum(T) = f[y] + Sum(T \ {y})
  <2> DEFINE z == First(T)
             Rest == (T \ {y}) \ {z}
  <2>1. z \in T /\ IsFiniteSet(T)
    BY <1>2, FirstElement, FS_Subset
  <2>2. Sum(T) = f[z] + Sum(T \ {z})
    BY <1>2, <2>1, SumUnfold
  <2>3. CASE y = z
    BY <2>2, <2>3
  <2>4. CASE y # z
    <3>1. Rest = (T \ {z}) \ {y} /\ y \in T \ {z} /\ z \in T \ {y} /\ Rest \subseteq S
      BY <2>1, <2>4
    <3>2. Sum(T \ {z}) = f[y] + Sum(Rest)
      BY <1>2, <2>1, <3>1
    <3>3. Sum(T \ {y}) = f[z] + Sum(Rest)
      BY <1>2, <3>1
    <3>4. IsFiniteSet(Rest) /\ \A v \in Rest : f[v] \in Int
      BY <3>1, FS_Subset
    <3>5. Sum(Rest) \in Int
      <4> HIDE DEF Rest
      <4> QED
        BY <3>4, SumType
    <3>6. f[y] \in Int /\ f[z] \in Int
      BY <1>2, <2>1
    <3> HIDE DEF Sum, Rest, z
    <3> QED
      BY <2>2, <3>2, <3>3, <3>5, <3>6
  <2> QED
    BY <2>3, <2>4
<1>3. \A T \in SUBSET S : T \in Good
  <2>1. \A T \in SUBSET S : T # {} /\ (\A y \in T : T \ {y} \in Good) => T \in Good
    BY <1>2
  <2> HIDE DEF Good
  <2> QED
    BY <1>1, <2>1, SubsetInduction
<1>4. S \in SUBSET S
  OBVIOUS
<1> QED
  BY <1>3, <1>4

(* An element more.                                                        *)
LEMMA SumAdd ==
  ASSUME NEW f, NEW S, IsFiniteSet(S), NEW x, x \notin S,
         \A y \in S \cup {x} : f[y] \in Int
  PROVE  SumFunctionOnSet(f, S \cup {x}) = f[x] + SumFunctionOnSet(f, S)
<1> DEFINE T == S \cup {x}
<1>1. IsFiniteSet(T) /\ x \in T /\ T \ {x} = S /\ \A y \in T : f[y] \in Int
  BY FS_AddElement
<1> HIDE DEF T
<1>2. SumFunctionOnSet(f, T) = f[x] + SumFunctionOnSet(f, T \ {x})
  BY <1>1, SumSplit
<1> QED
  BY <1>1, <1>2 DEF T

(* Functions with the same values have the same sum.                       *)
LEMMA SumCongruence ==
  ASSUME NEW f, NEW g, NEW S, IsFiniteSet(S), \A x \in S : f[x] = g[x]
  PROVE  SumFunctionOnSet(f, S) = SumFunctionOnSet(g, S)
<1> DEFINE Good == {T \in SUBSET S : SumFunctionOnSet(f, T) = SumFunctionOnSet(g, T)}
<1>1. {} \in Good
  BY SumEmpty
<1>2. ASSUME NEW T \in SUBSET S, T # {}, \A x \in T : T \ {x} \in Good
      PROVE  T \in Good
  <2>1. First(T) \in T /\ IsFiniteSet(T)
    BY <1>2, FirstElement, FS_Subset
  <2>2. SumFunctionOnSet(f, T) = f[First(T)] + SumFunctionOnSet(f, T \ {First(T)})
    BY <1>2, <2>1, SumUnfold
  <2>3. SumFunctionOnSet(g, T) = g[First(T)] + SumFunctionOnSet(g, T \ {First(T)})
    BY <1>2, <2>1, SumUnfold
  <2> QED
    BY <1>2, <2>1, <2>2, <2>3
<1>3. \A T \in SUBSET S : T \in Good
  <2> HIDE DEF Good
  <2> QED
    BY <1>1, <1>2, SubsetInduction
<1> QED
  BY <1>3

(* p names each element of S by one of R, where g is what f was in S.      *)
Renames(p, S, f, R, g) ==
  /\ R = {p[x] : x \in S}
  /\ \A x, y \in S : p[x] = p[y] => x = y
  /\ \A x \in S : f[x] \in Int /\ g[p[x]] = f[x]

(* The elements of a set may be summed under other names.                  *)
LEMMA SumRenamed ==
  ASSUME NEW f, NEW g, NEW S, NEW R, NEW p, IsFiniteSet(S), Renames(p, S, f, R, g)
  PROVE  SumFunctionOnSet(g, R) = SumFunctionOnSet(f, S)
<1> USE DEF Renames
<1> DEFINE Image(T) == {p[x] : x \in T}
           Good == {T \in SUBSET S : /\ IsFiniteSet(Image(T))
                                     /\ SumFunctionOnSet(g, Image(T)) = SumFunctionOnSet(f, T)}
<1>1. {} \in Good
  <2>1. Image({}) = {}
    OBVIOUS
  <2> QED
    BY <2>1, SumEmpty, FS_EmptySet
<1>2. ASSUME NEW T \in SUBSET S, T # {}, \A x \in T : T \ {x} \in Good
      PROVE  T \in Good
  <2>1. PICK x \in T : TRUE
    BY <1>2
  <2> DEFINE U == T \ {x}
             I == Image(U)
  <2>2. /\ IsFiniteSet(I) /\ IsFiniteSet(T)
        /\ SumFunctionOnSet(g, I) = SumFunctionOnSet(f, U)
    BY <1>2, <2>1, FS_Subset
  <2>3. p[x] \notin I /\ Image(T) = I \cup {p[x]}
    BY <2>1
  <2>4. \A y \in I \cup {p[x]} : g[y] \in Int
    BY <2>1
  <2>5. IsFiniteSet(Image(T))
    <3> HIDE DEF I, Image
    <3> QED
      BY <2>2, <2>3, FS_AddElement
  <2>6. SumFunctionOnSet(g, I \cup {p[x]}) = g[p[x]] + SumFunctionOnSet(g, I)
    <3> HIDE DEF I
    <3> QED
      BY <2>2, <2>3, <2>4, SumAdd
  <2>7. SumFunctionOnSet(f, T) = f[x] + SumFunctionOnSet(f, U)
    <3>1. \A y \in T : f[y] \in Int
      OBVIOUS
    <3> QED
      BY <2>1, <2>2, <3>1, SumSplit
  <2>8. g[p[x]] = f[x]
    BY <2>1
  <2> QED
    BY <2>2, <2>3, <2>5, <2>6, <2>7, <2>8
<1>3. \A T \in SUBSET S : T \in Good
  <2> HIDE DEF Good
  <2> QED
    BY <1>1, <1>2, SubsetInduction
<1>4. S \in SUBSET S
  OBVIOUS
<1> QED
  BY <1>3, <1>4

(* Two sets without a common element.                                      *)
LEMMA SumUnion ==
  ASSUME NEW f, NEW S, NEW T, IsFiniteSet(S), IsFiniteSet(T), S \cap T = {},
         \A x \in S \cup T : f[x] \in Int
  PROVE  SumFunctionOnSet(f, S \cup T) = SumFunctionOnSet(f, S) + SumFunctionOnSet(f, T)
<1> DEFINE Sum(U) == SumFunctionOnSet(f, U)
           Good == {U \in SUBSET T : Sum(S \cup U) = Sum(S) + Sum(U)}
<1>1. {} \in Good
  <2>1. S \cup {} = S /\ Sum({}) = 0 /\ Sum(S) \in Int
    BY SumEmpty, SumType
  <2> QED
    BY <2>1
<1>2. ASSUME NEW U \in SUBSET T, U # {}, \A x \in U : U \ {x} \in Good
      PROVE  U \in Good
  <2>1. PICK x \in U : TRUE
    BY <1>2
  <2> DEFINE V == U \ {x}
  <2>2. /\ IsFiniteSet(U) /\ IsFiniteSet(S \cup U) /\ IsFiniteSet(V)
        /\ (S \cup U) \ {x} = S \cup V
    BY <2>1, FS_Subset, FS_Union
  <2>3. Sum(S \cup V) = Sum(S) + Sum(V)
    BY <1>2, <2>1
  <2>4. \A y \in S \cup U : f[y] \in Int
    OBVIOUS
  <2>5. Sum(S \cup U) = f[x] + Sum((S \cup U) \ {x})
    <3>1. x \in S \cup U
      BY <2>1
    <3> QED
      BY <2>2, <2>4, <3>1, SumSplit
  <2>6. Sum(U) = f[x] + Sum(V)
    BY <2>1, <2>2, <2>4, SumSplit
  <2>7. f[x] \in Int /\ Sum(S) \in Int /\ Sum(V) \in Int
    BY <2>1, <2>2, <2>4, SumType
  <2>8. Sum(S \cup U) = Sum(S) + Sum(U)
    <3>1. Sum(S \cup U) = f[x] + (Sum(S) + Sum(V))
      BY <2>2, <2>3, <2>5, Zenon
    <3> HIDE DEF Sum, V
    <3> QED
      BY <2>6, <2>7, <3>1
  <2> QED
    BY <2>8
<1>3. \A U \in SUBSET T : U \in Good
  <2> HIDE DEF Good
  <2> QED
    BY <1>1, <1>2, SubsetInduction
<1>4. T \in SUBSET T
  OBVIOUS
<1> QED
  BY <1>3, <1>4

(* The sum of two functions.                                               *)
LEMMA SumPlus ==
  ASSUME NEW f, NEW g, NEW h, NEW S, IsFiniteSet(S),
         \A x \in S : f[x] \in Int /\ g[x] \in Int /\ h[x] = f[x] + g[x]
  PROVE  SumFunctionOnSet(h, S) = SumFunctionOnSet(f, S) + SumFunctionOnSet(g, S)
<1> DEFINE F(U) == SumFunctionOnSet(f, U)
           G(U) == SumFunctionOnSet(g, U)
           H(U) == SumFunctionOnSet(h, U)
           Good == {U \in SUBSET S : H(U) = F(U) + G(U)}
<1>1. {} \in Good
  BY SumEmpty
<1>2. ASSUME NEW U \in SUBSET S, U # {}, \A x \in U : U \ {x} \in Good
      PROVE  U \in Good
  <2>1. PICK x \in U : TRUE
    BY <1>2
  <2> DEFINE V == U \ {x}
  <2>2. IsFiniteSet(U) /\ IsFiniteSet(V)
    BY FS_Subset
  <2>3. /\ \A y \in U : f[y] \in Int
        /\ \A y \in U : g[y] \in Int
        /\ \A y \in U : h[y] \in Int
    OBVIOUS
  <2>4. F(U) = f[x] + F(V) /\ G(U) = g[x] + G(V) /\ H(U) = h[x] + H(V)
    BY <2>1, <2>2, <2>3, SumSplit
  <2>5. F(V) \in Int /\ G(V) \in Int
    BY <2>2, <2>3, SumType
  <2>6. H(V) = F(V) + G(V)
    BY <1>2, <2>1
  <2>7. f[x] \in Int /\ g[x] \in Int /\ h[x] = f[x] + g[x]
    BY <2>1
  <2>8. H(U) = F(U) + G(U)
    <3> HIDE DEF F, G, H, V
    <3> QED
      BY <2>4, <2>5, <2>6, <2>7
  <2> QED
    BY <2>8
<1>3. \A U \in SUBSET S : U \in Good
  <2> HIDE DEF Good
  <2> QED
    BY <1>1, <1>2, SubsetInduction
<1>4. S \in SUBSET S
  OBVIOUS
<1> QED
  BY <1>3, <1>4
------------------------------------------------------------------------------
(* Sums over intervals of the natural numbers.                             *)

LEMMA NumberInduction ==
  ASSUME NEW Good, 0 \in Good, \A n \in Nat : n \in Good => n + 1 \in Good
  PROVE  \A n \in Nat : n \in Good
<1> DEFINE Bad == {n \in Nat : n \notin Good}
           R == OpToRel(<, Nat)
<1> SUFFICES ASSUME Bad # {} PROVE FALSE
  OBVIOUS
<1>1. PICK n \in Bad : \A m \in Bad : <<m, n>> \notin R
  <2>1. IsWellFoundedOn(R, Nat)
    BY NatLessThanWellFounded, Zenon
  <2>2. Bad \subseteq Nat
    OBVIOUS
  <2> HIDE DEF Bad, R
  <2> QED
    BY <2>1, <2>2, WFMin
<1>2. \A m \in Bad : ~(m < n)
  BY <1>1 DEF OpToRel
<1> HIDE DEF R
<1>3. n \in Nat /\ n # 0 /\ n - 1 \in Nat /\ n - 1 < n /\ n = (n - 1) + 1
  BY <1>1
<1>4. n - 1 \in Good
  BY <1>2, <1>3
<1> QED
  BY <1>1, <1>3, <1>4

LEMMA FiniteInterval ==
  ASSUME NEW m \in Int, NEW n \in Int
  PROVE  IsFiniteSet(m .. n)
BY FS_Interval

(* g holds n elements of f, from m on.                                     *)
Window(f, m, g, n) == \A l \in 0 .. n - 1 : f[m + l] \in Int /\ g[l] = f[m + l]

LEMMA SumWindow ==
  ASSUME NEW f, NEW g, NEW m \in Int, NEW n \in Nat, Window(f, m, g, n)
  PROVE  SumFunctionOnSet(f, m .. m + n - 1) = SumFunctionOnSet(g, 0 .. n - 1)
<1> USE DEF Window
<1> DEFINE low == 0 .. n - 1
           high == m .. m + n - 1
           p == [l \in low |-> m + l]
<1>1. high = {p[l] : l \in low}
  <2>1. ASSUME NEW k \in high
        PROVE  \E l \in low : k = p[l]
    <3>1. k - m \in low /\ k = m + (k - m)
      OBVIOUS
    <3> QED
      BY <3>1
  <2>2. \A l \in low : p[l] \in high
    OBVIOUS
  <2> QED
    BY <2>1, <2>2
<1>2. \A k, l \in low : p[k] = p[l] => k = l
  OBVIOUS
<1>3. \A l \in low : g[l] \in Int /\ f[p[l]] = g[l]
  OBVIOUS
<1>4. IsFiniteSet(low)
  BY FiniteInterval
<1> HIDE DEF p, low, high
<1>5. Renames(p, low, g, high, f)
  BY <1>1, <1>2, <1>3, Zenon DEF Renames
<1>6. SumFunctionOnSet(f, high) = SumFunctionOnSet(g, low)
  BY <1>4, <1>5, SumRenamed
<1> QED
  BY <1>6 DEF low, high

(* h adds the upper half of an interval of f to the lower one.             *)
Halves(f, h, n) ==
  /\ \A l \in 0 .. 2 * n - 1 : f[l] \in Int
  /\ \A l \in 0 .. n - 1 : h[l] = f[l] + f[l + n]

LEMMA SumHalves ==
  ASSUME NEW f, NEW h, NEW n \in Nat, Halves(f, h, n)
  PROVE  SumFunctionOnSet(h, 0 .. n - 1) = SumFunctionOnSet(f, 0 .. 2 * n - 1)
<1> USE DEF Halves
<1> DEFINE low == 0 .. n - 1
           high == n .. n + n - 1
           g == [l \in low |-> f[n + l]]
<1>1. /\ IsFiniteSet(low) /\ IsFiniteSet(high) /\ low \cap high = {}
      /\ low \cup high = 0 .. 2 * n - 1
  BY FiniteInterval
<1>2. \A l \in low : /\ n + l \in 0 .. 2 * n - 1 /\ l \in 0 .. 2 * n - 1
                     /\ n + l = l + n
  OBVIOUS
<1>3. \A l \in low : f[n + l] \in Int /\ g[l] = f[n + l]
  BY <1>2
<1>4. SumFunctionOnSet(f, high) = SumFunctionOnSet(g, low)
  <2>1. Window(f, n, g, n)
    BY <1>3 DEF Window
  <2> HIDE DEF g
  <2> QED
    BY <2>1, SumWindow
<1>5. \A l \in low : f[l] \in Int /\ g[l] \in Int /\ h[l] = f[l] + g[l]
  BY <1>2, <1>3
<1> HIDE DEF low, high, g
<1>6. SumFunctionOnSet(h, low) = SumFunctionOnSet(f, low) + SumFunctionOnSet(g, low)
  BY <1>1, <1>5, SumPlus
<1>7. \A x \in low \cup high : f[x] \in Int
  BY <1>1
<1>8. SumFunctionOnSet(f, low \cup high) =
        SumFunctionOnSet(f, low) + SumFunctionOnSet(f, high)
  BY <1>1, <1>7, SumUnion
<1> QED
  BY <1>1, <1>4, <1>6, <1>8 DEF low

LEMMA SumLast ==
  ASSUME NEW f, NEW n \in Nat, \A k \in 0 .. n : f[k] \in Int
  PROVE  SumFunctionOnSet(f, 0 .. n) = f[n] + SumFunctionOnSet(f, 0 .. n - 1)
<1> DEFINE S == 0 .. n
<1>1. IsFiniteSet(S) /\ n \in S /\ \A k \in S : f[k] \in Int
  BY FiniteInterval
<1>2. S \ {n} = 0 .. n - 1
  OBVIOUS
<1> HIDE DEF S
<1>3. \A x \in S : SumFunctionOnSet(f, S) = f[x] + SumFunctionOnSet(f, S \ {x})
  BY <1>1, SumSplit, ZenonT(40)
<1>4. SumFunctionOnSet(f, S) = f[n] + SumFunctionOnSet(f, S \ {n})
  BY <1>1, <1>3
<1> QED
  BY <1>2, <1>4 DEF S

(* F holds the sums of m blocks of n elements of f.                        *)
Blocks(f, F, m, n) ==
  /\ \A k \in 0 .. m * n - 1 : f[k] \in Int
  /\ \A t \in 0 .. m - 1 :
       \E g : /\ \A l \in 0 .. n - 1 : g[l] = f[t * n + l]
              /\ F[t] = SumFunctionOnSet(g, 0 .. n - 1)

LEMMA SumBlocks ==
  ASSUME NEW f, NEW F, NEW m \in Nat, NEW n \in Nat, Blocks(f, F, m, n)
  PROVE  SumFunctionOnSet(F, 0 .. m - 1) = SumFunctionOnSet(f, 0 .. m * n - 1)
<1> USE DEF Blocks
<1> DEFINE Holds(t) == SumFunctionOnSet(F, 0 .. t - 1) = SumFunctionOnSet(f, 0 .. t * n - 1)
           Good == {t \in Nat : t <= m => Holds(t)}
<1>1. 0 \in Good
  <2>1. 0 .. 0 - 1 = {} /\ 0 .. 0 * n - 1 = {}
    OBVIOUS
  <2>2. Holds(0)
    BY <2>1, SumEmpty
  <2> QED
    BY <2>2
<1>2. ASSUME NEW t \in Nat, t \in Good PROVE t + 1 \in Good
  <2> SUFFICES ASSUME t + 1 <= m PROVE Holds(t + 1)
    OBVIOUS
  <2>1. Holds(t)
    BY <1>2
  <2> DEFINE s == t * n
  <2>2. s \in Nat /\ (t + 1) * n = s + n
    OBVIOUS
  <2>3. s + n <= m * n
    <3> DEFINE d == m - (t + 1)
    <3>1. d \in Nat /\ d * n \in Nat /\ m = d + (t + 1)
      OBVIOUS
    <3>2. m * n = d * n + (t + 1) * n
      BY <3>1
    <3> HIDE DEF d, s
    <3> QED
      BY <2>2, <3>1, <3>2
  <2>4. t \in 0 .. m - 1
    OBVIOUS
  <2>5. PICK g : /\ \A l \in 0 .. n - 1 : g[l] = f[s + l]
                 /\ F[t] = SumFunctionOnSet(g, 0 .. n - 1)
    BY <2>4
  <2> HIDE DEF s
  <2>6. m * n \in Nat
    OBVIOUS
  <2>7. \A k \in 0 .. s + n - 1 : f[k] \in Int
    BY <2>2, <2>3, <2>6
  <2>8. SumFunctionOnSet(f, s .. s + n - 1) = F[t]
    <3>1. Window(f, s, g, n)
      BY <2>2, <2>5, <2>7 DEF Window
    <3>2. SumFunctionOnSet(f, s .. s + n - 1) = SumFunctionOnSet(g, 0 .. n - 1)
      BY <2>2, <3>1, SumWindow
    <3> QED
      BY <2>5, <3>2
  <2>9. SumFunctionOnSet(f, 0 .. s + n - 1) =
          SumFunctionOnSet(f, 0 .. s - 1) + SumFunctionOnSet(f, s .. s + n - 1)
    <3> DEFINE A == 0 .. s - 1
               B == s .. s + n - 1
    <3>1. /\ IsFiniteSet(A) /\ IsFiniteSet(B) /\ A \cap B = {}
          /\ A \cup B = 0 .. s + n - 1
      BY <2>2, FiniteInterval
    <3>2. \A x \in A \cup B : f[x] \in Int
      BY <2>7, <3>1
    <3> HIDE DEF A, B
    <3>3. SumFunctionOnSet(f, A \cup B) = SumFunctionOnSet(f, A) + SumFunctionOnSet(f, B)
      BY <3>1, <3>2, SumUnion
    <3> QED
      BY <3>1, <3>3 DEF A, B
  <2>10. F[t] \in Int
    <3>1. \A l \in 0 .. n - 1 : g[l] \in Int
      <4> TAKE l \in 0 .. n - 1
      <4>1. g[l] = f[s + l] /\ s + l \in 0 .. s + n - 1
        BY <2>2, <2>5
      <4> QED
        BY <2>7, <4>1
    <3>2. IsFiniteSet(0 .. n - 1)
      BY FiniteInterval
    <3>3. SumFunctionOnSet(g, 0 .. n - 1) \in Int
      BY <3>1, <3>2, SumType, Zenon
    <3> QED
      BY <2>5, <3>3
  <2>11. ASSUME NEW u \in 0 .. t PROVE F[u] \in Int
    <3>1. u \in 0 .. m - 1
      OBVIOUS
    <3>2. PICK k : /\ \A l \in 0 .. n - 1 : k[l] = f[u * n + l]
                   /\ F[u] = SumFunctionOnSet(k, 0 .. n - 1)
      BY <3>1
    <3>3. ASSUME NEW l \in 0 .. n - 1 PROVE u * n + l \in 0 .. s + n - 1
      <4> DEFINE d == t - u
                 un == u * n
      <4>1. d \in Nat /\ d * n \in Nat /\ t = d + u /\ un \in Nat
        OBVIOUS
      <4>2. s = d * n + un
        BY <4>1 DEF s
      <4> HIDE DEF un, d
      <4>3. un + l \in 0 .. s + n - 1
        BY <4>1, <4>2
      <4> QED
        BY <4>3 DEF un
    <3>4. \A l \in 0 .. n - 1 : k[l] \in Int
      BY <2>7, <3>2, <3>3
    <3>5. IsFiniteSet(0 .. n - 1)
      BY FiniteInterval
    <3>6. SumFunctionOnSet(k, 0 .. n - 1) \in Int
      BY <3>4, <3>5, SumType, Zenon
    <3> QED
      BY <3>2, <3>6
  <2>12. SumFunctionOnSet(F, 0 .. t) = F[t] + SumFunctionOnSet(F, 0 .. t - 1)
    <3>1. \A u \in 0 .. t : F[u] \in Int
      BY <2>11
    <3> QED
      BY <3>1, SumLast
  <2>13. SumFunctionOnSet(f, 0 .. s - 1) \in Int
    <3>1. \A k \in 0 .. s - 1 : f[k] \in Int
      BY <2>2, <2>7
    <3> QED
      BY <2>2, <3>1, FiniteInterval, SumType
  <2>14. SumFunctionOnSet(F, 0 .. t - 1) = SumFunctionOnSet(f, 0 .. s - 1)
    BY <2>1 DEF s
  <2>15. SumFunctionOnSet(F, 0 .. t) = SumFunctionOnSet(f, 0 .. s + n - 1)
    BY <2>8, <2>9, <2>10, <2>12, <2>13, <2>14
  <2>16. (t + 1) - 1 = t
    OBVIOUS
  <2> QED
    BY <2>2, <2>15, <2>16
<1>3. \A t \in Nat : t \in Good
  <2> HIDE DEF Good
  <2> QED
    BY <1>1, <1>2, NumberInduction
<1> QED
  BY <1>3
=============================================================================
