---------------------------- MODULE DataTheorems ----------------------------
(***************************************************************************)
(* Facts about the data the specifications compute with, for sets, numbers *)
(* and functions of any size.  Each is shown by taking a smallest          *)
(* counterexample.                                                         *)
(*                                                                         *)
(* First, what SumFunctionOnSet of the community module Functions gives on *)
(* a finite set.  It is the recursive function below, evaluated at S; that *)
(* the recursion has a solution, and only one, is shown over the subsets   *)
(* of S.  Everything else follows from SumRemove: any member may be taken  *)
(* out first.                                                              *)
(*                                                                         *)
(* Then induction over the naturals, and that a definition by recursion    *)
(* over them has a solution.                                               *)
(***************************************************************************)
EXTENDS Integers, Functions, FiniteSetTheorems, TLAPS

\* Induction: take a smallest counterexample.
LEMMA MinimalSubset ==
  ASSUME NEW S, IsFiniteSet(S), NEW C \in SUBSET (SUBSET S), C # {}
  PROVE  \E T \in C : \A U \in C : U \subseteq T => U = T
<1> DEFINE R == StrictSubsetOrdering(S)
<1>1. IsWellFoundedOn(R, SUBSET S)
  BY FS_FiniteSubsetsOfFinite, FS_StrictSubsetOrderingWellFounded
<1>2. IsWellFoundedOn(R, C)
  BY <1>1, IsWellFoundedOnSubset
<1>3. PICK T \in C : \A U \in C : ~(<<U, T>> \in R)
  BY <1>2, WFMin
<1>4. ASSUME NEW U \in C, U \subseteq T  PROVE U = T
  <2>1. U \in SUBSET S /\ T \in SUBSET S
    OBVIOUS
  <2> QED BY <1>3, <1>4, <2>1 DEF StrictSubsetOrdering
<1> QED BY <1>4

-----------------------------------------------------------------------------
\* The recursion.

\* The member the fold takes out of a set.
First(T) == CHOOSE x \in T : TRUE

\* g gives the sum of f on every subset of S.
SumsUp(g, f, S) ==
  g = [T \in SUBSET S |-> IF T = {} THEN 0 ELSE f[First(T)] + g[T \ {First(T)}]]

\* What is chosen of a set is in it.
LEMMA FirstIsMember ==
  ASSUME NEW T, T # {}
  PROVE  First(T) \in T /\ T \ {First(T)} \subseteq T /\ T \ {First(T)} # T
BY DEF First

\* The definition, opened.
LEMMA SumIsChoice ==
  ASSUME NEW f, NEW S
  PROVE  SumFunctionOnSet(f, S) = (CHOOSE g : SumsUp(g, f, S))[S]
BY DEF SumFunctionOnSet, FoldFunctionOnSet, MapThenFoldSet, SumsUp, First

\* What holds of the sums on S holds of their restriction to a subset.
LEMMA SumsUpAt ==
  ASSUME NEW f, NEW S, NEW g, SumsUp(g, f, S), NEW T \in SUBSET S
  PROVE  g[T] = IF T = {} THEN 0 ELSE f[First(T)] + g[T \ {First(T)}]
BY DEF SumsUp

\* Two functions that sum f up agree wherever both are defined.
LEMMA SumsUpAgree ==
  ASSUME NEW f, NEW S, IsFiniteSet(S), NEW g, SumsUp(g, f, S),
         NEW R, NEW h, SumsUp(h, f, R), NEW V \in SUBSET S, V \in SUBSET R
  PROVE  g[V] = h[V]
<1> DEFINE C == {T \in SUBSET S : T \in SUBSET R /\ g[T] # h[T]}
<1>1. SUFFICES ASSUME C # {} PROVE FALSE
  OBVIOUS
<1>2. PICK T \in C : \A U \in C : U \subseteq T => U = T
  <2>1. C \in SUBSET (SUBSET S)
    OBVIOUS
  <2> HIDE DEF C
  <2> QED BY <1>1, <2>1, MinimalSubset
<1>3. CASE T = {}
  BY <1>2, <1>3, SumsUpAt
<1>4. CASE T # {}
  <2> DEFINE U == T \ {First(T)}
  <2>1. U \in SUBSET S /\ U \in SUBSET R /\ U \subseteq T /\ U # T
    BY <1>4, FirstIsMember
  <2>2. g[U] = h[U]
    BY <1>2, <2>1
  <2>3. g[T] = f[First(T)] + g[U]
    BY <1>4, SumsUpAt
  <2>4. h[T] = f[First(T)] + h[U]
    BY <1>4, SumsUpAt
  <2> QED BY <2>2, <2>3, <2>4
<1> QED BY <1>3, <1>4

\* Every finite set has a function that sums f up.
LEMMA SumsUpExists ==
  ASSUME NEW f, NEW S, IsFiniteSet(S)
  PROVE  \E g : SumsUp(g, f, S)
<1> DEFINE C == {D \in SUBSET S : ~ \E g : SumsUp(g, f, D)}
<1>1. SUFFICES ASSUME C # {} PROVE FALSE
  OBVIOUS
<1>2. PICK D \in C : \A U \in C : U \subseteq D => U = D
  <2>1. C \in SUBSET (SUBSET S)
    OBVIOUS
  <2> HIDE DEF C
  <2> QED BY <1>1, <2>1, MinimalSubset
<1> DEFINE Fn(U) == CHOOSE g : SumsUp(g, f, U)
           Val(U) == Fn(U)[U]
           g == [T \in SUBSET D |-> IF T = {} THEN 0
                                    ELSE f[First(T)] + Val(T \ {First(T)})]
<1>3. ASSUME NEW U \in SUBSET D, U # D
      PROVE  SumsUp(Fn(U), f, U)
  <2>1. \E h : SumsUp(h, f, U)
    BY <1>2, <1>3
  <2> QED BY <2>1
<1>4. ASSUME NEW U \in SUBSET D, U # D
      PROVE  g[U] = Val(U)
  <2>1. SumsUp(Fn(U), f, U)
    BY <1>3, <1>4
  <2>2. CASE U = {}
    BY <2>1, <2>2, SumsUpAt
  <2>3. CASE U # {}
    <3> DEFINE W == U \ {First(U)}
    <3>1. W \in SUBSET U /\ W \in SUBSET D /\ W # D
      BY <1>4, <2>3, FirstIsMember
    <3>2. SumsUp(Fn(W), f, W)
      BY <1>3, <3>1
    <3>3. IsFiniteSet(U)
      BY FS_Subset
    <3>4. Fn(U)[W] = Fn(W)[W]
      <4> HIDE DEF Fn, W
      <4> QED BY <2>1, <3>1, <3>2, <3>3, SumsUpAgree
    <3>5. Fn(U)[U] = f[First(U)] + Fn(U)[W]
      <4> HIDE DEF Fn
      <4> QED BY <2>1, <2>3, SumsUpAt
    <3> QED BY <2>3, <3>4, <3>5
  <2> QED BY <2>2, <2>3
<1>5. ASSUME NEW T \in SUBSET D
      PROVE  g[T] = IF T = {} THEN 0 ELSE f[First(T)] + g[T \ {First(T)}]
  <2>1. CASE T = {}
    BY <2>1
  <2>2. CASE T # {}
    <3>1. T \ {First(T)} \in SUBSET D /\ T \ {First(T)} # D
      BY <2>2, FirstIsMember
    <3>2. g[T \ {First(T)}] = Val(T \ {First(T)})
      <4> HIDE DEF g, Val
      <4> QED BY <1>4, <3>1
    <3>3. g[T] = f[First(T)] + Val(T \ {First(T)})
      <4> HIDE DEF Val
      <4> QED BY <2>2
    <3> QED BY <2>2, <3>2, <3>3
  <2> QED BY <2>1, <2>2
<1>6. SumsUp(g, f, D)
  <2>1. g = [T \in SUBSET D |-> g[T]]
    OBVIOUS
  <2> HIDE DEF g
  <2> QED BY <1>5, <2>1 DEF SumsUp
<1> QED BY <1>2, <1>6

-----------------------------------------------------------------------------
\* The sum.

\* A sum over no member is 0.
LEMMA SumEmpty ==
  ASSUME NEW f
  PROVE  SumFunctionOnSet(f, {}) = 0
<1>1. PICK g : SumsUp(g, f, {})
  BY SumsUpExists, FS_EmptySet
<1> DEFINE h == CHOOSE h : SumsUp(h, f, {})
<1>2. SumsUp(h, f, {})
  BY <1>1
<1>3. h[{}] = 0
  <2> HIDE DEF h
  <2> QED BY <1>2, SumsUpAt
<1> QED BY <1>3, SumIsChoice

\* The sum satisfies the equation it is defined by.
LEMMA SumFirst ==
  ASSUME NEW f, NEW S, IsFiniteSet(S), S # {}
  PROVE  SumFunctionOnSet(f, S)
           = f[First(S)] + SumFunctionOnSet(f, S \ {First(S)})
<1> DEFINE W == S \ {First(S)}
           Fn(T) == CHOOSE h : SumsUp(h, f, T)
<1>1. W \in SUBSET S /\ IsFiniteSet(W)
  BY FS_RemoveElement
<1>2. SumsUp(Fn(S), f, S)
  <2>1. \E h : SumsUp(h, f, S)
    BY SumsUpExists
  <2> QED BY <2>1
<1>3. SumsUp(Fn(W), f, W)
  <2> HIDE DEF W
  <2>1. \E h : SumsUp(h, f, W)
    BY <1>1, SumsUpExists
  <2> QED BY <2>1
<1>4. SumFunctionOnSet(f, S) = Fn(S)[S] /\ SumFunctionOnSet(f, W) = Fn(W)[W]
  BY SumIsChoice
<1>5. Fn(S)[W] = Fn(W)[W]
  <2> HIDE DEF Fn, W
  <2> QED BY <1>1, <1>2, <1>3, SumsUpAgree
<1>6. Fn(S)[S] = f[First(S)] + Fn(S)[W]
  <2> HIDE DEF Fn
  <2> QED BY <1>2, SumsUpAt
<1> QED BY <1>4, <1>5, <1>6

\* A sum of integers is an integer.
LEMMA SumInt ==
  ASSUME NEW f, NEW S, IsFiniteSet(S), \A x \in S : f[x] \in Int
  PROVE  SumFunctionOnSet(f, S) \in Int
<1> DEFINE C == {T \in SUBSET S : SumFunctionOnSet(f, T) \notin Int}
<1>1. SUFFICES ASSUME C # {} PROVE FALSE
  OBVIOUS
<1>2. PICK T \in C : \A U \in C : U \subseteq T => U = T
  <2>1. C \in SUBSET (SUBSET S)
    OBVIOUS
  <2> HIDE DEF C
  <2> QED BY <1>1, <2>1, MinimalSubset
<1>3. T # {}
  BY <1>2, SumEmpty
<1>4. First(T) \in S /\ T \ {First(T)} \subseteq T /\ T \ {First(T)} # T
  BY <1>3, FirstIsMember
<1>5. SumFunctionOnSet(f, T \ {First(T)}) \in Int
  BY <1>2, <1>4
<1>6. IsFiniteSet(T)
  BY FS_Subset
<1> QED BY <1>2, <1>3, <1>4, <1>5, <1>6, SumFirst

\* Any member may be taken out of the set first.
LEMMA SumRemove ==
  ASSUME NEW f, NEW S, IsFiniteSet(S), \A x \in S : f[x] \in Int, NEW a \in S
  PROVE  SumFunctionOnSet(f, S) = f[a] + SumFunctionOnSet(f, S \ {a})
<1> DEFINE Sum(T) == SumFunctionOnSet(f, T)
           Fails(T) == \E x \in T : Sum(T) # f[x] + Sum(T \ {x})
           C == {T \in SUBSET S : Fails(T)}
<1>1. SUFFICES ASSUME C # {} PROVE FALSE
  OBVIOUS
<1>2. PICK T \in C : \A U \in C : U \subseteq T => U = T
  <2>1. C \in SUBSET (SUBSET S)
    OBVIOUS
  <2> HIDE DEF C
  <2> QED BY <1>1, <2>1, MinimalSubset
<1>3. PICK x \in T : Sum(T) # f[x] + Sum(T \ {x})
  BY <1>2
<1> DEFINE c == First(T)
<1> HIDE DEF c
<1>4. c \in T
  BY <1>3, FirstIsMember DEF c
<1>5. Sum(T) = f[c] + Sum(T \ {c})
  <2>1. IsFiniteSet(T)
    BY FS_Subset
  <2> QED BY <1>3, <2>1, SumFirst DEF c
<1>6. x # c
  BY <1>3, <1>5
<1>7. \A U \in SUBSET T : U # T => \A y \in U : Sum(U) = f[y] + Sum(U \ {y})
  BY <1>2
<1>8. Sum(T \ {c}) = f[x] + Sum((T \ {c}) \ {x})
  <2> HIDE DEF Sum
  <2> QED BY <1>3, <1>4, <1>6, <1>7
<1>9. Sum(T \ {x}) = f[c] + Sum((T \ {x}) \ {c})
  <2> HIDE DEF Sum
  <2> QED BY <1>3, <1>4, <1>6, <1>7
<1>10. (T \ {c}) \ {x} = (T \ {x}) \ {c}
  OBVIOUS
<1>11. Sum((T \ {x}) \ {c}) \in Int
  <2>1. IsFiniteSet((T \ {x}) \ {c})
    BY FS_Subset
  <2> QED BY <2>1, SumInt
<1>12. f[x] \in Int /\ f[c] \in Int
  BY <1>3, <1>4
<1>13. f[c] + (f[x] + Sum((T \ {x}) \ {c})) = f[x] + (f[c] + Sum((T \ {x}) \ {c}))
  BY <1>11, <1>12
<1> HIDE DEF Sum, C, Fails
<1> QED BY <1>3, <1>5, <1>8, <1>9, <1>10, <1>13

\* A member more.
LEMMA SumAdd ==
  ASSUME NEW f, NEW S, IsFiniteSet(S), \A x \in S : f[x] \in Int,
         NEW a, a \notin S, f[a] \in Int
  PROVE  SumFunctionOnSet(f, S \cup {a}) = f[a] + SumFunctionOnSet(f, S)
<1>1. IsFiniteSet(S \cup {a})
  BY FS_AddElement
<1>2. (S \cup {a}) \ {a} = S
  OBVIOUS
<1> DEFINE T == S \cup {a}
<1>3. a \in T /\ \A x \in T : f[x] \in Int
  OBVIOUS
<1> HIDE DEF T
<1>4. SumFunctionOnSet(f, T) = f[a] + SumFunctionOnSet(f, T \ {a})
  BY <1>1, <1>3, SumRemove DEF T
<1> QED BY <1>2, <1>4 DEF T

\* Over two sets with no member in common, the sums add up.
LEMMA SumUnion ==
  ASSUME NEW f, NEW S, IsFiniteSet(S), NEW R, IsFiniteSet(R), S \cap R = {},
         \A x \in S \cup R : f[x] \in Int
  PROVE  SumFunctionOnSet(f, S \cup R) = SumFunctionOnSet(f, S) + SumFunctionOnSet(f, R)
<1> DEFINE Sum(T) == SumFunctionOnSet(f, T)
           C == {T \in SUBSET R : Sum(S \cup T) # Sum(S) + Sum(T)}
<1>1. SUFFICES ASSUME C # {} PROVE FALSE
  OBVIOUS
<1>2. PICK T \in C : \A U \in C : U \subseteq T => U = T
  <2>1. C \in SUBSET (SUBSET R)
    OBVIOUS
  <2> HIDE DEF C
  <2> QED BY <1>1, <2>1, MinimalSubset
<1>3. Sum(S) \in Int
  BY SumInt
<1>4. T # {}
  <2>1. SUFFICES ASSUME T = {} PROVE FALSE
    OBVIOUS
  <2>2. S \cup T = S
    BY <2>1
  <2>3. Sum(S \cup T) = Sum(S) /\ Sum(T) = 0
    BY <2>1, <2>2, SumEmpty, Zenon
  <2> HIDE DEF Sum
  <2> QED BY <1>2, <1>3, <2>3
<1>5. PICK x \in T : TRUE
  BY <1>4
<1>6. Sum(S \cup (T \ {x})) = Sum(S) + Sum(T \ {x})
  <2> HIDE DEF Sum
  <2> QED BY <1>2, <1>5
<1>7. IsFiniteSet(T) /\ IsFiniteSet(T \ {x}) /\ IsFiniteSet(S \cup T)
  BY FS_Subset, FS_Union
<1>8. Sum(T) = f[x] + Sum(T \ {x})
  BY <1>5, <1>7, SumRemove
<1>9. Sum(S \cup T) = f[x] + Sum(S \cup (T \ {x}))
  <2> DEFINE V == S \cup T
  <2>1. x \in V /\ (\A y \in V : f[y] \in Int) /\ V \ {x} = S \cup (T \ {x})
    BY <1>5
  <2> HIDE DEF V
  <2>2. Sum(V) = f[x] + Sum(V \ {x})
    BY <1>7, <2>1, SumRemove DEF V
  <2> QED BY <2>1, <2>2 DEF V
<1>10. Sum(T \ {x}) \in Int /\ f[x] \in Int
  BY <1>5, <1>7, SumInt
<1> HIDE DEF Sum
<1> QED BY <1>2, <1>3, <1>6, <1>8, <1>9, <1>10

\* What is left when a part is taken away.
LEMMA SumDifference ==
  ASSUME NEW f, NEW S, IsFiniteSet(S), \A x \in S : f[x] \in Int,
         NEW T \in SUBSET S
  PROVE  SumFunctionOnSet(f, S \ T) = SumFunctionOnSet(f, S) - SumFunctionOnSet(f, T)
<1> DEFINE R == S \ T
<1>1. IsFiniteSet(T) /\ IsFiniteSet(R)
  BY FS_Subset
<1>2. T \cap R = {} /\ T \cup R = S
  OBVIOUS
<1>3. \A x \in T \cup R : f[x] \in Int
  OBVIOUS
<1> HIDE DEF R
<1>4. SumFunctionOnSet(f, T \cup R) = SumFunctionOnSet(f, T) + SumFunctionOnSet(f, R)
  BY <1>1, <1>2, <1>3, SumUnion
<1>5. SumFunctionOnSet(f, T) \in Int /\ SumFunctionOnSet(f, R) \in Int
  BY <1>1, <1>3, SumInt
<1>6. SumFunctionOnSet(f, T \cup R) = SumFunctionOnSet(f, S)
  BY <1>2, Zenon
<1>7. SumFunctionOnSet(f, R) = SumFunctionOnSet(f, S) - SumFunctionOnSet(f, T)
  BY <1>4, <1>5, <1>6
<1> QED BY <1>7 DEF R

\* If h is f plus g on every member, its sum is the sum of theirs.
LEMMA SumPlus ==
  ASSUME NEW f, NEW g, NEW h, NEW S, IsFiniteSet(S),
         \A x \in S : f[x] \in Int /\ g[x] \in Int /\ h[x] = f[x] + g[x]
  PROVE  SumFunctionOnSet(h, S) = SumFunctionOnSet(f, S) + SumFunctionOnSet(g, S)
<1> DEFINE F(T) == SumFunctionOnSet(f, T)
           G(T) == SumFunctionOnSet(g, T)
           H(T) == SumFunctionOnSet(h, T)
           C == {T \in SUBSET S : H(T) # F(T) + G(T)}
<1>1. SUFFICES ASSUME C # {} PROVE FALSE
  OBVIOUS
<1>2. PICK T \in C : \A U \in C : U \subseteq T => U = T
  <2>1. C \in SUBSET (SUBSET S)
    OBVIOUS
  <2> HIDE DEF C
  <2> QED BY <1>1, <2>1, MinimalSubset
<1>3. T # {}
  <2>1. SUFFICES ASSUME T = {} PROVE FALSE
    OBVIOUS
  <2>2. H(T) = 0 /\ F(T) = 0 /\ G(T) = 0
    BY <2>1, SumEmpty, Zenon
  <2> HIDE DEF F, G, H
  <2> QED BY <1>2, <2>2
<1>4. PICK x \in T : TRUE
  BY <1>3
<1>5. H(T \ {x}) = F(T \ {x}) + G(T \ {x})
  <2> HIDE DEF F, G, H
  <2> QED BY <1>2, <1>4
<1>6. IsFiniteSet(T) /\ IsFiniteSet(T \ {x})
  BY FS_Subset
<1>7. F(T) = f[x] + F(T \ {x})
  BY <1>4, <1>6, SumRemove
<1>8. G(T) = g[x] + G(T \ {x})
  BY <1>4, <1>6, SumRemove
<1>9. H(T) = h[x] + H(T \ {x})
  <2>1. \A y \in T : h[y] \in Int
    OBVIOUS
  <2> QED BY <1>4, <1>6, <2>1, SumRemove
<1>10. F(T \ {x}) \in Int /\ G(T \ {x}) \in Int
  BY <1>6, SumInt
<1>11. f[x] \in Int /\ g[x] \in Int /\ h[x] = f[x] + g[x]
  BY <1>4
<1> HIDE DEF F, G, H
<1> QED BY <1>2, <1>5, <1>7, <1>8, <1>9, <1>10, <1>11

\* Functions that agree on the members have the same sum.
LEMMA SumSame ==
  ASSUME NEW f, NEW g, NEW S, IsFiniteSet(S),
         \A x \in S : f[x] \in Int /\ g[x] = f[x]
  PROVE  SumFunctionOnSet(g, S) = SumFunctionOnSet(f, S)
<1> DEFINE F(T) == SumFunctionOnSet(f, T)
           G(T) == SumFunctionOnSet(g, T)
           C == {T \in SUBSET S : F(T) # G(T)}
<1>1. SUFFICES ASSUME C # {} PROVE FALSE
  OBVIOUS
<1>2. PICK T \in C : \A U \in C : U \subseteq T => U = T
  <2>1. C \in SUBSET (SUBSET S)
    OBVIOUS
  <2> HIDE DEF C
  <2> QED BY <1>1, <2>1, MinimalSubset
<1>3. T # {}
  BY <1>2, SumEmpty
<1>4. First(T) \in T /\ T \ {First(T)} \subseteq T /\ T \ {First(T)} # T
  BY <1>3, FirstIsMember
<1>5. F(T \ {First(T)}) = G(T \ {First(T)})
  <2> HIDE DEF F, G
  <2> QED BY <1>2, <1>4
<1>6. IsFiniteSet(T)
  BY FS_Subset
<1>7. F(T) = f[First(T)] + F(T \ {First(T)}) /\ G(T) = g[First(T)] + G(T \ {First(T)})
  BY <1>3, <1>6, SumFirst
<1>8. f[First(T)] = g[First(T)]
  BY <1>4
<1> HIDE DEF F, G
<1> QED BY <1>2, <1>5, <1>7, <1>8

\* A sum of naturals is a natural.
LEMMA SumNat ==
  ASSUME NEW f, NEW S, IsFiniteSet(S), \A x \in S : f[x] \in Nat
  PROVE  SumFunctionOnSet(f, S) \in Nat
<1> DEFINE C == {T \in SUBSET S : SumFunctionOnSet(f, T) \notin Nat}
<1>1. SUFFICES ASSUME C # {} PROVE FALSE
  OBVIOUS
<1>2. PICK T \in C : \A U \in C : U \subseteq T => U = T
  <2>1. C \in SUBSET (SUBSET S)
    OBVIOUS
  <2> HIDE DEF C
  <2> QED BY <1>1, <2>1, MinimalSubset
<1>3. T # {}
  <2>1. SumFunctionOnSet(f, {}) \in Nat
    BY SumEmpty
  <2> QED BY <1>2, <2>1
<1>4. First(T) \in S /\ T \ {First(T)} \subseteq T /\ T \ {First(T)} # T
  BY <1>3, FirstIsMember
<1>5. SumFunctionOnSet(f, T \ {First(T)}) \in Nat
  BY <1>2, <1>4
<1>6. IsFiniteSet(T)
  BY FS_Subset
<1> QED BY <1>2, <1>3, <1>4, <1>5, <1>6, SumFirst

\* A part of naturals is at most the whole.
LEMMA SumPart ==
  ASSUME NEW f, NEW S, IsFiniteSet(S), \A x \in S : f[x] \in Nat,
         NEW T \in SUBSET S
  PROVE  SumFunctionOnSet(f, T) <= SumFunctionOnSet(f, S)
<1>1. IsFiniteSet(T) /\ IsFiniteSet(S \ T) /\ \A x \in S : f[x] \in Int
  BY FS_Subset
<1>2. SumFunctionOnSet(f, S \ T) = SumFunctionOnSet(f, S) - SumFunctionOnSet(f, T)
  BY <1>1, SumDifference
<1>3. SumFunctionOnSet(f, S \ T) \in Nat
  <2> DEFINE R == S \ T
  <2>1. \A x \in R : f[x] \in Nat
    OBVIOUS
  <2> HIDE DEF R
  <2>2. SumFunctionOnSet(f, R) \in Nat
    BY <1>1, <2>1, SumNat DEF R
  <2> QED BY <2>2 DEF R
<1>4. SumFunctionOnSet(f, S) \in Int /\ SumFunctionOnSet(f, T) \in Int
  BY <1>1, SumInt
<1> QED BY <1>2, <1>3, <1>4

\* The sum grows with the function.
LEMMA SumMonotonic ==
  ASSUME NEW f, NEW g, NEW S, IsFiniteSet(S),
         \A x \in S : f[x] \in Int /\ g[x] \in Int /\ f[x] <= g[x]
  PROVE  SumFunctionOnSet(f, S) <= SumFunctionOnSet(g, S)
<1> DEFINE d == [x \in S |-> g[x] - f[x]]
<1>1. \A x \in S : d[x] \in Nat /\ d[x] \in Int /\ g[x] = f[x] + d[x]
  OBVIOUS
<1> HIDE DEF d
<1>2. SumFunctionOnSet(g, S) = SumFunctionOnSet(f, S) + SumFunctionOnSet(d, S)
  BY <1>1, SumPlus
<1>3. SumFunctionOnSet(d, S) \in Nat /\ SumFunctionOnSet(f, S) \in Int
  BY <1>1, SumNat, SumInt
<1> QED BY <1>2, <1>3

\* Changing the function at one member changes the sum by as much.
LEMMA SumUpdate ==
  ASSUME NEW S, IsFiniteSet(S), NEW f, NEW g, NEW a \in S,
         \A x \in S : f[x] \in Int, g[a] \in Int, \A x \in S \ {a} : g[x] = f[x]
  PROVE  SumFunctionOnSet(g, S) = SumFunctionOnSet(f, S) + g[a] - f[a]
<1> DEFINE R == S \ {a}
<1>1. IsFiniteSet(R) /\ (\A x \in R : f[x] \in Int /\ g[x] = f[x]) /\ \A x \in S : g[x] \in Int
  BY FS_Subset
<1>2. SumFunctionOnSet(f, S) = f[a] + SumFunctionOnSet(f, R)
  BY SumRemove
<1>3. SumFunctionOnSet(g, S) = g[a] + SumFunctionOnSet(g, R)
  BY <1>1, SumRemove
<1> HIDE DEF R
<1>4. SumFunctionOnSet(g, R) = SumFunctionOnSet(f, R)
  BY <1>1, SumSame
<1>5. SumFunctionOnSet(f, R) \in Int
  BY <1>1, SumInt
<1> QED BY <1>2, <1>3, <1>4, <1>5

\* A constant 0 sums to 0.
LEMMA SumZero ==
  ASSUME NEW f, NEW S, IsFiniteSet(S), \A x \in S : f[x] = 0
  PROVE  SumFunctionOnSet(f, S) = 0
<1>1. \A x \in S : f[x] \in Int /\ f[x] = f[x] + f[x]
  OBVIOUS
<1>2. SumFunctionOnSet(f, S) = SumFunctionOnSet(f, S) + SumFunctionOnSet(f, S)
  BY <1>1, SumPlus
<1>3. SumFunctionOnSet(f, S) \in Int
  BY <1>1, SumInt
<1>4. \A s \in Int : s = s + s => s = 0
  OBVIOUS
<1> QED BY <1>2, <1>3, <1>4

\* A sum over a part is the sum over the whole of what is zero elsewhere.
LEMMA SumOfPart ==
  ASSUME NEW S, IsFiniteSet(S), NEW T \in SUBSET S, NEW f, NEW g,
         \A x \in T : f[x] \in Int /\ g[x] = f[x], \A x \in S \ T : g[x] = 0
  PROVE  SumFunctionOnSet(f, T) = SumFunctionOnSet(g, S)
<1> DEFINE R == S \ T
<1>1. IsFiniteSet(T) /\ IsFiniteSet(R) /\ T \cap R = {} /\ T \cup R = S
  BY FS_Subset, FS_Difference
<1>2. \A x \in S : g[x] \in Int
  OBVIOUS
<1>a. \A x \in R : g[x] = 0
  OBVIOUS
<1> HIDE DEF R
<1>3. SumFunctionOnSet(g, T) = SumFunctionOnSet(f, T)
  BY <1>1, SumSame
<1>4. SumFunctionOnSet(g, R) = 0
  BY <1>1, <1>a, SumZero
<1>5. SumFunctionOnSet(g, T \cup R) = SumFunctionOnSet(g, T) + SumFunctionOnSet(g, R)
  BY <1>1, <1>2, SumUnion
<1>6. SumFunctionOnSet(g, T \cup R) = SumFunctionOnSet(g, S)
  BY <1>1, Zenon
<1>7. SumFunctionOnSet(g, T) \in Int
  BY <1>1, <1>2, SumInt
<1>8. QED
  BY <1>3, <1>4, <1>5, <1>6, <1>7

\* A sum over other members, one for one.
LEMMA SumRenamed ==
  ASSUME NEW S, IsFiniteSet(S), NEW T, IsFiniteSet(T), NEW p \in Bijection(S, T),
         NEW f, NEW g, \A x \in S : f[p[x]] \in Int /\ g[x] = f[p[x]]
  PROVE  SumFunctionOnSet(g, S) = SumFunctionOnSet(f, T)
<1> DEFINE P(U) == {p[x] : x \in U}
           F(U) == SumFunctionOnSet(f, P(U))
           G(U) == SumFunctionOnSet(g, U)
           C == {U \in SUBSET S : G(U) # F(U)}
<1>1. C = {}
  <2>1. SUFFICES ASSUME C # {} PROVE FALSE
    OBVIOUS
  <2>2. PICK U \in C : \A V \in C : V \subseteq U => V = U
    <3>1. C \in SUBSET (SUBSET S)
      OBVIOUS
    <3> HIDE DEF C
    <3> QED BY <2>1, <3>1, MinimalSubset
  <2>3. U # {}
    <3>1. SUFFICES ASSUME U = {} PROVE FALSE
      OBVIOUS
    <3>2. P(U) = {}
      BY <3>1
    <3>3. G(U) = 0 /\ F(U) = 0
      BY <3>1, <3>2, SumEmpty, Zenon
    <3> HIDE DEF F, G
    <3> QED BY <2>2, <3>3
  <2>4. PICK x \in U : x \in S
    BY <2>2, <2>3
  <2> DEFINE V == U \ {x}
  <2>5. V \in SUBSET S /\ V \subseteq U /\ V # U
    BY <2>2, <2>4
  <2>6. G(V) = F(V)
    <3> HIDE DEF F, G, V
    <3> QED BY <2>2, <2>5
  <2>7. P(U) \ {p[x]} = P(V) /\ p[x] \in P(U) /\ P(U) \subseteq T
    BY <2>2, <2>4 DEF Bijection, Injection, IsInjective
  <2>8. IsFiniteSet(U) /\ IsFiniteSet(P(U))
    BY <2>2, <2>7, FS_Subset
  <2>9. \A y \in P(U) : f[y] \in Int
    BY <2>2
  <2>10. F(U) = f[p[x]] + F(V)
    <3> HIDE DEF P
    <3>1. SumFunctionOnSet(f, P(U)) = f[p[x]] + SumFunctionOnSet(f, P(U) \ {p[x]})
      BY <2>7, <2>8, <2>9, SumRemove
    <3> QED BY <2>7, <3>1
  <2>11. G(U) = g[x] + G(V)
    <3>1. \A y \in U : g[y] \in Int
      BY <2>2
    <3> QED BY <2>4, <2>8, <3>1, SumRemove
  <2>12. g[x] = f[p[x]]
    BY <2>4
  <2> HIDE DEF F, G, V
  <2> QED BY <2>2, <2>6, <2>10, <2>11, <2>12
<1>2. P(S) = T
  BY DEF Bijection, Surjection
<1>3. G(S) = F(S)
  <2> HIDE DEF F, G
  <2> QED BY <1>1
<1> QED BY <1>2, <1>3, Zenon

\* Summing group by group gives the sum of all.
LEMMA SumByGroup ==
  ASSUME NEW G, IsFiniteSet(G), NEW S, IsFiniteSet(S), NEW f, NEW p,
         \A x \in S : f[x] \in Int /\ p[x] \in G
  PROVE  SumFunctionOnSet([i \in G |-> SumFunctionOnSet(f, {x \in S : p[x] = i})], G)
           = SumFunctionOnSet(f, S)
<1> DEFINE Group(i, T) == {x \in T : p[x] = i}
           By(T) == [i \in G |-> SumFunctionOnSet(f, Group(i, T))]
           C == {T \in SUBSET S : SumFunctionOnSet(By(T), G) # SumFunctionOnSet(f, T)}
<1>1. SUFFICES ASSUME C # {} PROVE FALSE
  OBVIOUS
<1>2. PICK T \in C : \A U \in C : U \subseteq T => U = T
  <2>1. C \in SUBSET (SUBSET S)
    OBVIOUS
  <2> HIDE DEF C
  <2> QED BY <1>1, <2>1, MinimalSubset
<1>3. T # {}
  <2>1. SUFFICES ASSUME T = {} PROVE FALSE
    OBVIOUS
  <2>2. ASSUME NEW i \in G PROVE By({})[i] = 0
    <3>1. Group(i, {}) = {}
      OBVIOUS
    <3> QED BY <3>1, SumEmpty
  <2>3. SumFunctionOnSet(By({}), G) = 0
    <3> HIDE DEF By
    <3> QED BY <2>2, SumZero
  <2> QED BY <1>2, <2>1, <2>3, SumEmpty
<1>4. PICK a \in T : TRUE
  BY <1>3
<1> DEFINE U == T \ {a}
<1>5. U \in SUBSET S /\ U \subseteq T /\ U # T /\ a \notin U
  BY <1>4
<1>6. SumFunctionOnSet(By(U), G) = SumFunctionOnSet(f, U)
  <2> HIDE DEF U, By
  <2> QED BY <1>2, <1>5
<1>7. IsFiniteSet(T) /\ IsFiniteSet(U) /\ (\A x \in T : f[x] \in Int) /\ f[a] \in Int
  BY <1>4, FS_Subset
<1>8. ASSUME NEW i \in G, NEW V \in SUBSET T
      PROVE  IsFiniteSet(Group(i, V)) /\ \A x \in Group(i, V) : f[x] \in Int
  <2>1. Group(i, V) \subseteq T
    OBVIOUS
  <2> QED BY <1>7, <2>1, FS_Subset
<1>9. \A i \in G : By(U)[i] \in Int /\ By(T)[i] \in Int
  <2> HIDE DEF U, Group
  <2> QED BY <1>5, <1>8, SumInt
<1>10. \A i \in G \ {p[a]} : By(T)[i] = By(U)[i]
  <2>1. \A i \in G \ {p[a]} : Group(i, T) = Group(i, U)
    OBVIOUS
  <2> HIDE DEF Group, U
  <2> QED BY <2>1
<1>11. By(T)[p[a]] = f[a] + By(U)[p[a]]
  <2>1. a \in Group(p[a], T) /\ Group(p[a], T) \ {a} = Group(p[a], U) /\ p[a] \in G
    BY <1>4
  <2> HIDE DEF Group, U
  <2> QED BY <1>8, <2>1, SumRemove
<1>12. SumFunctionOnSet(By(T), G)
         = SumFunctionOnSet(By(U), G) + By(T)[p[a]] - By(U)[p[a]]
  <2> HIDE DEF By, U
  <2>1. p[a] \in G
    BY <1>4
  <2> QED BY <1>9, <1>10, <2>1, SumUpdate
<1>13. SumFunctionOnSet(f, T) = f[a] + SumFunctionOnSet(f, U)
  BY <1>4, <1>7, SumRemove
<1>14. SumFunctionOnSet(f, U) \in Int
  <2> HIDE DEF U
  <2> QED BY <1>5, <1>7, SumInt
<1>15. By(U)[p[a]] \in Int
  BY <1>4, <1>9
<1>16. SumFunctionOnSet(By(T), G) # SumFunctionOnSet(f, T)
  BY <1>2
<1> HIDE DEF By, U
<1> QED BY <1>6, <1>7, <1>11, <1>12, <1>13, <1>14, <1>15, <1>16

-----------------------------------------------------------------------------
\* Induction over the naturals, and functions defined by it.

\* A set of naturals that is not empty has a least member.
LEMMA Least ==
  ASSUME NEW S \in SUBSET Nat, S # {}
  PROVE  \E m \in S : \A k \in S : m <= k
<1>1. PICK n \in S : n \in Nat
  OBVIOUS
<1> DEFINE Up(k) == 0 .. k
           C == {Up(k) : k \in S \cap Up(n)}
<1>2. IsFiniteSet(Up(n))
  BY <1>1, FS_Interval
<1>3. C \in SUBSET (SUBSET Up(n)) /\ C # {}
  BY <1>1
<1>4. PICK T \in C : \A U \in C : U \subseteq T => U = T
  <2> HIDE DEF C, Up
  <2>1. QED
    BY <1>2, <1>3, MinimalSubset
<1>5. PICK m \in S \cap Up(n) : T = Up(m)
  BY <1>4
<1>6. ASSUME NEW k \in S, ~(m <= k)
      PROVE  FALSE
  <2>1. k \in Nat /\ m \in Nat /\ k < m /\ m <= n
    BY <1>1, <1>5, <1>6
  <2>2. Up(k) \in C /\ Up(k) \subseteq T
    BY <1>1, <1>5, <2>1
  <2>3. Up(k) = Up(m)
    BY <1>4, <1>5, <2>2, Zenon
  <2>4. m \in Up(k)
    <3>1. m \in Up(m)
      BY <2>1
    <3> HIDE DEF Up
    <3>2. QED
      BY <2>3, <3>1
  <2>5. QED
    BY <2>1, <2>4
<1>7. QED
  BY <1>5, <1>6

\* What holds of 0 and passes on from n to n + 1 holds of every natural.
LEMMA Induction ==
  ASSUME NEW S, 0 \in S, \A n \in Nat : n \in S => n + 1 \in S
  PROVE  Nat \subseteq S
<1> DEFINE R == Nat \ S
<1>1. SUFFICES ASSUME R # {} PROVE FALSE
  OBVIOUS
<1>2. R \in SUBSET Nat
  OBVIOUS
<1>3. PICK m \in R : \A k \in R : m <= k
  <2> HIDE DEF R
  <2>1. QED
    BY <1>1, <1>2, Least
<1>4. m \in Nat /\ m # 0 /\ m \notin S
  BY <1>3
<1>5. m - 1 \in Nat /\ m - 1 \in S
  BY <1>3, <1>4
<1>6. (m - 1) + 1 \in S
  BY <1>5
<1>7. QED
  BY <1>4, <1>6

\* A function on 0 .. k defined from v by steps.
Steps(v, h, k, g) ==
  /\ DOMAIN g = 0 .. k
  /\ g[0] = v
  /\ \A n \in 1 .. k : g[n] = h[n][g[n - 1]]

\* Functions defined by the same steps agree.
LEMMA StepsAgree ==
  ASSUME NEW v, NEW h, NEW k \in Nat, NEW f, Steps(v, h, k, f),
         NEW l \in Nat, NEW g, Steps(v, h, l, g)
  PROVE  \A n \in 0 .. k : n <= l => f[n] = g[n]
<1> DEFINE S == {n \in Nat : n <= k /\ n <= l => f[n] = g[n]}
<1>1. 0 \in S
  BY DEF Steps
<1>2. ASSUME NEW n \in Nat, n \in S
      PROVE  n + 1 \in S
  <2>1. SUFFICES ASSUME n + 1 <= k, n + 1 <= l PROVE f[n + 1] = g[n + 1]
    OBVIOUS
  <2>2. f[n] = g[n]
    BY <1>2, <2>1
  <2>3. n + 1 \in 1 .. k /\ n + 1 \in 1 .. l /\ (n + 1) - 1 = n
    BY <2>1
  <2>4. f[n + 1] = h[n + 1][f[n]] /\ g[n + 1] = h[n + 1][g[n]]
    BY <2>3 DEF Steps
  <2>5. QED
    BY <2>2, <2>4
<1>3. Nat \subseteq S
  <2> HIDE DEF S
  <2>1. QED
    BY <1>1, <1>2, Induction
<1>4. QED
  BY <1>3

\* There is one for every k, with values where the steps stay.
LEMMA StepsExist ==
  ASSUME NEW V, NEW v \in V, NEW h, \A n \in Nat : h[n] \in [V -> V], NEW k \in Nat
  PROVE  \E g \in [0 .. k -> V] : Steps(v, h, k, g)
<1> DEFINE S == {n \in Nat : \E g \in [0 .. n -> V] : Steps(v, h, n, g)}
<1>1. 0 \in S
  <2>1. [n \in 0 .. 0 |-> v] \in [0 .. 0 -> V] /\ Steps(v, h, 0, [n \in 0 .. 0 |-> v])
    BY DEF Steps
  <2>2. QED
    BY <2>1
<1>2. ASSUME NEW n \in Nat, n \in S
      PROVE  n + 1 \in S
  <2>1. PICK g \in [0 .. n -> V] : Steps(v, h, n, g)
    BY <1>2
  <2> DEFINE f == [m \in 0 .. n + 1 |-> IF m <= n THEN g[m] ELSE h[n + 1][g[n]]]
  <2>2. f \in [0 .. n + 1 -> V]
    <3>1. h[n + 1][g[n]] \in V
      OBVIOUS
    <3>2. QED
      BY <3>1
  <2>3. Steps(v, h, n + 1, f)
    <3>1. DOMAIN f = 0 .. n + 1 /\ f[0] = v
      BY <2>1 DEF Steps
    <3>2. ASSUME NEW m \in 1 .. n + 1
          PROVE  f[m] = h[m][f[m - 1]]
      <4>1. CASE m <= n
        <5>1. g[m] = h[m][g[m - 1]] /\ f[m] = g[m] /\ f[m - 1] = g[m - 1]
          BY <2>1, <4>1 DEF Steps
        <5>2. QED
          BY <5>1
      <4>2. CASE m = n + 1
        <5>1. f[m] = h[n + 1][g[n]] /\ f[m - 1] = g[n]
          BY <4>2
        <5>2. QED
          BY <4>2, <5>1
      <4>3. QED
        BY <4>1, <4>2
    <3> HIDE DEF f
    <3>3. QED
      BY <3>1, <3>2 DEF Steps
  <2> HIDE DEF f
  <2>4. QED
    BY <2>2, <2>3
<1>3. Nat \subseteq S
  <2> HIDE DEF S
  <2>1. QED
    BY <1>1, <1>2, Induction
<1>4. QED
  BY <1>3

\* A function on the naturals defined from v by steps.
Recurs(v, h, f) ==
  f[0] = v /\ \A n \in Nat \ {0} : f[n] = h[n][f[n - 1]]

\* A definition by recursion over the naturals has a solution.
LEMMA Recursion ==
  ASSUME NEW V, NEW v \in V, NEW h, \A n \in Nat : h[n] \in [V -> V]
  PROVE  \E f \in [Nat -> V] : Recurs(v, h, f)
<1> DEFINE G(n) == CHOOSE g \in [0 .. n -> V] : Steps(v, h, n, g)
           f == [n \in Nat |-> G(n)[n]]
<1>1. \A n \in Nat : G(n) \in [0 .. n -> V] /\ Steps(v, h, n, G(n))
  BY StepsExist
<1> HIDE DEF G
<1>2. f \in [Nat -> V]
  BY <1>1
<1>3. f[0] = v
  BY <1>1 DEF Steps
<1>4. ASSUME NEW n \in Nat \ {0}
      PROVE  f[n] = h[n][f[n - 1]]
  <2>1. n - 1 \in Nat /\ n \in Nat /\ n - 1 \in 0 .. n - 1 /\ n - 1 <= n /\ n \in 1 .. n
    OBVIOUS
  <2>2. G(n)[n] = h[n][G(n)[n - 1]]
    BY <1>1, <2>1 DEF Steps
  <2>3. G(n - 1)[n - 1] = G(n)[n - 1]
    <3>1. Steps(v, h, n - 1, G(n - 1)) /\ Steps(v, h, n, G(n))
      BY <1>1, <2>1
    <3>2. QED
      BY <2>1, <3>1, StepsAgree
  <2>4. QED
    BY <2>1, <2>2, <2>3
<1>5. Recurs(v, h, f)
  BY <1>3, <1>4 DEF Recurs
<1> HIDE DEF f
<1>6. QED
  BY <1>2, <1>5

=============================================================================
