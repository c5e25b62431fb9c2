----------------------------- MODULE FiniteSums -----------------------------
(***************************************************************************)
(* Sums over finite sets.  The sums of the models (of ledger entries, of     *)
(* package ceilings) are folds: a recursive function on the subsets of a     *)
(* set, which takes its elements in an order that is not known.  What a      *)
(* proof needs of them is that an element can be added or taken at any time. *)
(* And the extremes of finite sets of numbers.                               *)
(***************************************************************************)
EXTENDS Integers, FiniteSetsExt, Functions, FiniteSetTheorems, TLAPS

\* The element a fold takes first, and the function that computes a fold.
First(s) == CHOOSE x \in s : TRUE
IsSum(g, f, S) == g = [s \in SUBSET S |-> IF s = {} THEN 0 ELSE f[First(s)] + g[s \ {First(s)}]]

\* The sum of f over S.
SumOf(f, S) == (CHOOSE g : IsSum(g, f, S))[S]

\* Induction over the subsets of a finite set: a family of them has a smallest one.
LEMMA SmallestSet ==
    ASSUME NEW S, IsFiniteSet(S), NEW F \in SUBSET (SUBSET S), F # {}
    PROVE  \E T \in F : \A U \in F : U \subseteq T => U = T
<1>1. F \subseteq FiniteSubsetsOf(S)
  BY FS_FiniteSubsetsOfFinite
<1>2. PICK T \in F : \A U \in F : <<U, T>> \notin StrictSubsetOrdering(S)
  BY <1>1, FS_StrictSubsetOrderingWellFounded, WFMin
<1>3. ASSUME NEW U \in F, U \subseteq T, U # T PROVE FALSE
  BY <1>2, <1>3 DEF StrictSubsetOrdering
<1> QED BY <1>3

\* The element a fold takes first is one of the set.
LEMMA FirstIsTaken ==
    ASSUME NEW s, s # {}
    PROVE  First(s) \in s
BY DEF First

\* What is summed does not depend on what is around it.
LEMMA SumsAgree ==
    ASSUME NEW S, NEW T, NEW f, NEW e, NEW g, NEW h, IsSum(g, f, S), IsSum(h, e, T),
           NEW W, W \subseteq S, W \subseteq T, IsFiniteSet(W), \A x \in W : f[x] = e[x]
    PROVE  g[W] = h[W]
<1> SUFFICES ASSUME g[W] # h[W] PROVE FALSE
  OBVIOUS
<1> DEFINE F == {s \in SUBSET W : g[s] # h[s]}
<1>1. PICK s \in F : \A u \in F : u \subseteq s => u = s
  <2>1. F \in SUBSET (SUBSET W) /\ F # {}
    OBVIOUS
  <2> HIDE DEF F
  <2> QED BY <2>1, SmallestSet
<1>2. s \in SUBSET S /\ s \in SUBSET T
  OBVIOUS
<1>3. g[s] = IF s = {} THEN 0 ELSE f[First(s)] + g[s \ {First(s)}]
  BY <1>2 DEF IsSum
<1>4. h[s] = IF s = {} THEN 0 ELSE e[First(s)] + h[s \ {First(s)}]
  BY <1>2 DEF IsSum
<1>5. s # {}
  BY <1>3, <1>4
<1>6. First(s) \in s /\ f[First(s)] = e[First(s)]
  BY <1>5, FirstIsTaken
<1>7. s \ {First(s)} \notin F
  BY <1>1, <1>6
<1>8. g[s \ {First(s)}] = h[s \ {First(s)}]
  BY <1>7
<1> QED BY <1>3, <1>4, <1>5, <1>6, <1>8

\* Every finite set has its sums.
LEMMA SumExists ==
    ASSUME NEW S, IsFiniteSet(S), NEW f
    PROVE  \E g : IsSum(g, f, S)
<1> SUFFICES ASSUME ~ \E g : IsSum(g, f, S) PROVE FALSE
  OBVIOUS
<1> DEFINE F == {s \in SUBSET S : ~ \E g : IsSum(g, f, s)}
<1>1. PICK T \in F : \A u \in F : u \subseteq T => u = T
  <2>1. F \in SUBSET (SUBSET S) /\ F # {}
    OBVIOUS
  <2> HIDE DEF F
  <2> QED BY <2>1, SmallestSet
<1> DEFINE of(s) == CHOOSE g : IsSum(g, f, s)
           g == [s \in SUBSET T |-> IF s = {} THEN 0 ELSE f[First(s)] + of(s \ {First(s)})[s \ {First(s)}]]
<1>2. ASSUME NEW s \in SUBSET T, s # T PROVE IsSum(of(s), f, s) /\ IsFiniteSet(s)
  <2>1. s \in SUBSET S /\ s \notin F
    BY <1>1, <1>2
  <2>2. \E h : IsSum(h, f, s)
    BY <2>1
  <2> QED BY <2>1, <2>2, FS_Subset
<1>3. ASSUME NEW s \in SUBSET T, s # {} PROVE g[s \ {First(s)}] = of(s \ {First(s)})[s \ {First(s)}]
  <2> DEFINE u == s \ {First(s)}
             v == u \ {First(u)}
  <2>1. First(s) \in s
    BY <1>3, FirstIsTaken
  <2>2. u \in SUBSET T /\ u # T
    BY <2>1
  <2>3. IsSum(of(u), f, u)
    BY <1>2, <2>2
  <2>4. of(u)[u] = IF u = {} THEN 0 ELSE f[First(u)] + of(u)[v]
    <3> HIDE DEF of, u
    <3> QED BY <2>3 DEF IsSum
  <2>5. g[u] = IF u = {} THEN 0 ELSE f[First(u)] + of(v)[v]
    <3> HIDE DEF of, u
    <3> QED BY <2>2
  <2>6. ASSUME u # {} PROVE of(u)[v] = of(v)[v]
    <3>1. First(u) \in u
      BY <2>6, FirstIsTaken
    <3>2. v \in SUBSET T /\ v # T /\ v \subseteq u
      BY <2>2, <3>1
    <3>3. IsSum(of(v), f, v) /\ IsFiniteSet(v)
      BY <1>2, <3>2
    <3> HIDE DEF of, u, v
    <3> QED BY <2>3, <3>2, <3>3, SumsAgree
  <2> HIDE DEF of, u, v, g
  <2>7. g[u] = of(u)[u]
    BY <2>4, <2>5, <2>6
  <2> QED BY <2>7 DEF u
<1>4. IsSum(g, f, T)
  <2>1. \A s \in SUBSET T : g[s] = IF s = {} THEN 0 ELSE f[First(s)] + g[s \ {First(s)}]
    <3> SUFFICES ASSUME NEW s \in SUBSET T
                 PROVE  g[s] = IF s = {} THEN 0 ELSE f[First(s)] + g[s \ {First(s)}]
      OBVIOUS
    <3>1. g[s] = IF s = {} THEN 0 ELSE f[First(s)] + of(s \ {First(s)})[s \ {First(s)}]
      <4> HIDE DEF of
      <4> QED OBVIOUS
    <3> HIDE DEF g, of
    <3> QED BY <1>3, <3>1
  <2>2. g = [s \in SUBSET T |-> g[s]]
    <3> HIDE DEF of
    <3> QED OBVIOUS
  <2> HIDE DEF g, of
  <2> QED BY <2>1, <2>2 DEF IsSum
<1> HIDE DEF g, of
<1> QED BY <1>1, <1>4

\* A sum over a finite set is computed by a function that takes element by element.
LEMMA SumOfIsSum ==
    ASSUME NEW S, IsFiniteSet(S), NEW f
    PROVE  \E g : IsSum(g, f, S) /\ SumOf(f, S) = g[S]
<1>1. \E g : IsSum(g, f, S)
  BY SumExists
<1> QED BY <1>1 DEF SumOf

\* A sum depends on the summands only.
LEMMA SumEqual ==
    ASSUME NEW S, IsFiniteSet(S), NEW f, NEW e, \A x \in S : f[x] = e[x]
    PROVE  SumOf(f, S) = SumOf(e, S)
<1>1. PICK g : IsSum(g, f, S) /\ SumOf(f, S) = g[S]
  BY SumOfIsSum
<1>2. PICK h : IsSum(h, e, S) /\ SumOf(e, S) = h[S]
  BY SumOfIsSum
<1> QED BY <1>1, <1>2, SumsAgree

\* Nothing sums to 0.
LEMMA SumEmpty ==
    ASSUME NEW f
    PROVE  SumOf(f, {}) = 0
<1>1. IsFiniteSet({})
  BY FS_EmptySet
<1>2. PICK g : IsSum(g, f, {}) /\ SumOf(f, {}) = g[{}]
  BY <1>1, SumOfIsSum
<1> QED BY <1>2 DEF IsSum

\* The fold takes its first element.
LEMMA SumTakesFirst ==
    ASSUME NEW S, IsFiniteSet(S), S # {}, NEW f
    PROVE  /\ First(S) \in S /\ IsFiniteSet(S \ {First(S)})
           /\ SumOf(f, S) = f[First(S)] + SumOf(f, S \ {First(S)})
<1> DEFINE x == First(S)
           R == S \ {x}
<1>1. x \in S /\ IsFiniteSet(R)
  BY FirstIsTaken, FS_RemoveElement
<1>2. PICK g : IsSum(g, f, S) /\ SumOf(f, S) = g[S]
  BY SumOfIsSum
<1>3. PICK h : IsSum(h, f, R) /\ SumOf(f, R) = h[R]
  BY <1>1, SumOfIsSum
<1>4. g[R] = h[R]
  <2> HIDE DEF R, x
  <2>1. R \subseteq S
    BY DEF R
  <2> QED BY <1>1, <1>2, <1>3, <2>1, SumsAgree
<1>5. g[S] = f[x] + g[R]
  BY <1>2 DEF IsSum
<1> QED BY <1>1, <1>2, <1>3, <1>4, <1>5

\* A sum of integers is an integer.
LEMMA SumInteger ==
    ASSUME NEW S, IsFiniteSet(S), NEW f, \A x \in S : f[x] \in Int
    PROVE  SumOf(f, S) \in Int
<1> SUFFICES ASSUME SumOf(f, S) \notin Int PROVE FALSE
  OBVIOUS
<1> DEFINE F == {s \in SUBSET S : SumOf(f, s) \notin Int}
<1>1. PICK T \in F : \A u \in F : u \subseteq T => u = T
  <2>1. F \in SUBSET (SUBSET S) /\ F # {}
    OBVIOUS
  <2> HIDE DEF F
  <2> QED BY <2>1, SmallestSet
<1>2. IsFiniteSet(T) /\ T # {}
  <2>1. T \in SUBSET S /\ SumOf(f, T) \notin Int
    BY <1>1
  <2>2. T = {} => SumOf(f, T) = 0
    BY SumEmpty
  <2> QED BY <2>1, <2>2, FS_Subset
<1>3. First(T) \in T /\ SumOf(f, T) = f[First(T)] + SumOf(f, T \ {First(T)})
  BY <1>2, SumTakesFirst
<1>4. SumOf(f, T \ {First(T)}) \in Int
  BY <1>1, <1>3
<1> QED BY <1>1, <1>3, <1>4

\* Any element can be taken out of a sum.
LEMMA SumTakes ==
    ASSUME NEW S, IsFiniteSet(S), NEW f, \A y \in S : f[y] \in Int, NEW x \in S
    PROVE  SumOf(f, S) = f[x] + SumOf(f, S \ {x})
<1> SUFFICES ASSUME SumOf(f, S) # f[x] + SumOf(f, S \ {x}) PROVE FALSE
  OBVIOUS
<1> DEFINE F == {s \in SUBSET S : \E y \in s : SumOf(f, s) # f[y] + SumOf(f, s \ {y})}
<1>1. PICK T \in F : \A u \in F : u \subseteq T => u = T
  <2>1. F \in SUBSET (SUBSET S) /\ F # {}
    OBVIOUS
  <2> HIDE DEF F
  <2> QED BY <2>1, SmallestSet
<1>2. PICK y \in T : SumOf(f, T) # f[y] + SumOf(f, T \ {y})
  BY <1>1
<1> DEFINE a == First(T)
           R == T \ {a}
           Q == T \ {y}
           B == R \ {y}
<1>3. IsFiniteSet(T) /\ T # {} /\ T \subseteq S
  BY <1>1, <1>2, FS_Subset
<1>4. a \in T /\ SumOf(f, T) = f[a] + SumOf(f, R)
  BY <1>3, SumTakesFirst
<1>5. a # y
  BY <1>2, <1>4
<1>6. R \notin F /\ Q \notin F
  BY <1>1, <1>2, <1>4
<1>7. SumOf(f, R) = f[y] + SumOf(f, B)
  BY <1>2, <1>3, <1>5, <1>6
<1>8. SumOf(f, Q) = f[a] + SumOf(f, B)
  <2>1. Q \ {a} = B
    OBVIOUS
  <2> QED BY <1>3, <1>4, <1>5, <1>6, <2>1
<1>9. f[a] \in Int /\ f[y] \in Int /\ SumOf(f, B) \in Int
  <2>1. B \in SUBSET T
    OBVIOUS
  <2>2. IsFiniteSet(B)
    BY <1>3, <2>1, FS_Subset
  <2> QED BY <1>2, <1>3, <1>4, <2>1, <2>2, SumInteger
<1> HIDE DEF F, a, R, Q, B
<1> QED BY <1>2, <1>4, <1>7, <1>8, <1>9 DEF Q

\* An element more.
THEOREM SumAdd ==
    ASSUME NEW S, IsFiniteSet(S), NEW x, x \notin S, NEW f, \A y \in S \cup {x} : f[y] \in Int
    PROVE  SumOf(f, S \cup {x}) = SumOf(f, S) + f[x]
<1>1. IsFiniteSet(S \cup {x}) /\ (S \cup {x}) \ {x} = S
  BY FS_AddElement
<1>2. SumOf(f, S \cup {x}) = f[x] + SumOf(f, S)
  BY <1>1, SumTakes
<1>3. f[x] \in Int /\ SumOf(f, S) \in Int
  BY SumInteger
<1> QED BY <1>2, <1>3

\* The sum over one element is its value.
THEOREM SumSingle ==
    ASSUME NEW x, NEW f, f[x] \in Int
    PROVE  SumOf(f, {x}) = f[x]
<1>1. IsFiniteSet({}) /\ x \notin {} /\ \A y \in {} \cup {x} : f[y] \in Int
  BY FS_EmptySet
<1>2. SumOf(f, {} \cup {x}) = SumOf(f, {}) + f[x]
  BY <1>1, SumAdd
<1> QED BY <1>2, SumEmpty

\* Two sets that share nothing.
THEOREM SumUnion ==
    ASSUME NEW S, IsFiniteSet(S), NEW T, IsFiniteSet(T), S \cap T = {},
           NEW f, \A x \in S \cup T : f[x] \in Int
    PROVE  SumOf(f, S \cup T) = SumOf(f, S) + SumOf(f, T)
<1> SUFFICES ASSUME SumOf(f, S \cup T) # SumOf(f, S) + SumOf(f, T) PROVE FALSE
  OBVIOUS
<1> DEFINE F == {s \in SUBSET T : SumOf(f, S \cup s) # SumOf(f, S) + SumOf(f, s)}
<1>1. PICK U \in F : \A u \in F : u \subseteq U => u = U
  <2>1. F \in SUBSET (SUBSET T) /\ F # {}
    OBVIOUS
  <2> HIDE DEF F
  <2> QED BY <2>1, SmallestSet
<1>2. IsFiniteSet(U) /\ U \subseteq T /\ SumOf(f, S) \in Int
  BY <1>1, FS_Subset, SumInteger
<1>3. U # {}
  <2>1. U = {} => SumOf(f, U) = 0 /\ S \cup U = S
    BY SumEmpty
  <2>2. SumOf(f, S \cup U) # SumOf(f, S) + SumOf(f, U)
    BY <1>1
  <2>3. SumOf(f, S) \in Int => SumOf(f, S) = SumOf(f, S) + 0
    OBVIOUS
  <2>4. SumOf(f, S) \in Int
    BY <1>2
  <2> HIDE DEF F
  <2> QED BY <2>1, <2>2, <2>3, <2>4
<1>4. PICK x : x \in U
  BY <1>3
<1> DEFINE V == U \ {x}
           SV == S \cup V
<1>5. IsFiniteSet(V) /\ V \subseteq T /\ x \notin V /\ V \cup {x} = U
  BY <1>2, <1>4, FS_RemoveElement
<1>6. SumOf(f, SV) = SumOf(f, S) + SumOf(f, V)
  BY <1>1, <1>4
<1>7. IsFiniteSet(SV) /\ x \notin SV /\ SV \cup {x} = S \cup U /\ \A y \in SV \cup {x} : f[y] \in Int
  BY <1>2, <1>4, <1>5, FS_Union
<1>8. f[x] \in Int /\ SumOf(f, V) \in Int
  BY <1>5, <1>7, SumInteger
<1>9. SumOf(f, S \cup U) = SumOf(f, SV) + f[x]
  <2> HIDE DEF SV
  <2> QED BY <1>7, SumAdd
<1>10. SumOf(f, U) = SumOf(f, V) + f[x]
  <2>1. \A y \in V \cup {x} : f[y] \in Int
    BY <1>7
  <2> HIDE DEF V
  <2> QED BY <1>5, <2>1, SumAdd
<1>11. SumOf(f, S \cup U) # SumOf(f, S) + SumOf(f, U)
  BY <1>1
<1> HIDE DEF F, V, SV
<1> QED BY <1>2, <1>6, <1>8, <1>9, <1>10, <1>11

\* Summands that compare.
THEOREM SumAtMost ==
    ASSUME NEW S, IsFiniteSet(S), NEW f, NEW e,
           \A x \in S : f[x] \in Int /\ e[x] \in Int /\ f[x] <= e[x]
    PROVE  SumOf(f, S) <= SumOf(e, S)
<1> SUFFICES ASSUME ~(SumOf(f, S) <= SumOf(e, S)) PROVE FALSE
  OBVIOUS
<1> DEFINE F == {s \in SUBSET S : ~(SumOf(f, s) <= SumOf(e, s))}
<1>1. PICK T \in F : \A u \in F : u \subseteq T => u = T
  <2>1. F \in SUBSET (SUBSET S) /\ F # {}
    OBVIOUS
  <2> HIDE DEF F
  <2> QED BY <2>1, SmallestSet
<1>2. IsFiniteSet(T) /\ T \subseteq S
  BY <1>1, FS_Subset
<1>3. T # {}
  <2>1. T = {} => SumOf(f, T) = 0 /\ SumOf(e, T) = 0
    BY SumEmpty
  <2> QED BY <1>1, <2>1
<1>4. PICK x : x \in T
  BY <1>3
<1> DEFINE R == T \ {x}
<1>5. IsFiniteSet(R) /\ R \subseteq S /\ R \notin F /\ x \in S
  BY <1>1, <1>2, <1>4, FS_RemoveElement
<1>6. SumOf(f, R) <= SumOf(e, R) /\ SumOf(f, R) \in Int /\ SumOf(e, R) \in Int
  BY <1>5, SumInteger
<1>7. SumOf(f, T) = f[x] + SumOf(f, R) /\ SumOf(e, T) = e[x] + SumOf(e, R)
  BY <1>2, <1>4, SumTakes
<1> HIDE DEF R
<1>8. SumOf(f, T) <= SumOf(e, T)
  BY <1>5, <1>6, <1>7
<1> QED BY <1>1, <1>8

\* Summands that are not negative.
THEOREM SumNonNegative ==
    ASSUME NEW S, IsFiniteSet(S), NEW f, \A x \in S : f[x] \in Nat
    PROVE  SumOf(f, S) >= 0
<1> SUFFICES ASSUME ~(SumOf(f, S) >= 0) PROVE FALSE
  OBVIOUS
<1> DEFINE F == {s \in SUBSET S : ~(SumOf(f, s) >= 0)}
<1>1. PICK T \in F : \A u \in F : u \subseteq T => u = T
  <2>1. F \in SUBSET (SUBSET S) /\ F # {}
    OBVIOUS
  <2> HIDE DEF F
  <2> QED BY <2>1, SmallestSet
<1>2. IsFiniteSet(T) /\ T \subseteq S
  BY <1>1, FS_Subset
<1>3. T # {}
  <2>1. T = {} => SumOf(f, T) = 0
    BY SumEmpty
  <2> QED BY <1>1, <2>1
<1>4. First(T) \in T /\ SumOf(f, T) = f[First(T)] + SumOf(f, T \ {First(T)})
  BY <1>2, <1>3, SumTakesFirst
<1> DEFINE R == T \ {First(T)}
<1>5. R \notin F /\ R \subseteq S
  BY <1>1, <1>2, <1>4
<1>6. SumOf(f, R) >= 0 /\ SumOf(f, R) \in Int
  <2>1. IsFiniteSet(R) /\ \A x \in R : f[x] \in Int
    BY <1>2, <1>5, FS_Subset
  <2>2. SumOf(f, R) \in Int
    <3> HIDE DEF R
    <3> QED BY <2>1, SumInteger
  <2> QED BY <1>5, <2>2
<1>7. f[First(T)] \in Nat
  BY <1>2, <1>4
<1> HIDE DEF R
<1>8. SumOf(f, T) >= 0
  BY <1>4, <1>6, <1>7 DEF R
<1> QED BY <1>1, <1>8

\* A part of what is summed.
THEOREM SumOfPart ==
    ASSUME NEW S, IsFiniteSet(S), NEW T \in SUBSET S, NEW f, \A x \in S : f[x] \in Nat
    PROVE  SumOf(f, T) <= SumOf(f, S)
<1> DEFINE R == S \ T
<1>1. IsFiniteSet(T) /\ IsFiniteSet(R) /\ T \cap R = {} /\ T \cup R = S
  BY FS_Subset
<1>2. (\A x \in R : f[x] \in Nat) /\ (\A x \in T \cup R : f[x] \in Int)
  OBVIOUS
<1> HIDE DEF R
<1>3. SumOf(f, S) = SumOf(f, T) + SumOf(f, R)
  BY <1>1, <1>2, SumUnion
<1>4. SumOf(f, R) >= 0 /\ SumOf(f, R) \in Int /\ SumOf(f, T) \in Int
  BY <1>1, <1>2, SumNonNegative, SumInteger
<1> QED BY <1>3, <1>4

\* A common factor.
THEOREM SumScaled ==
    ASSUME NEW S, IsFiniteSet(S), NEW f, NEW e, NEW c \in Int,
           \A x \in S : f[x] \in Int /\ e[x] = c * f[x]
    PROVE  SumOf(e, S) = c * SumOf(f, S)
<1> SUFFICES ASSUME SumOf(e, S) # c * SumOf(f, S) PROVE FALSE
  OBVIOUS
<1> DEFINE F == {s \in SUBSET S : SumOf(e, s) # c * SumOf(f, s)}
<1>1. PICK T \in F : \A u \in F : u \subseteq T => u = T
  <2>1. F \in SUBSET (SUBSET S) /\ F # {}
    OBVIOUS
  <2> HIDE DEF F
  <2> QED BY <2>1, SmallestSet
<1>2. IsFiniteSet(T) /\ T \subseteq S
  BY <1>1, FS_Subset
<1>3. T # {}
  <2>1. T = {} => SumOf(f, T) = 0 /\ SumOf(e, T) = 0
    BY SumEmpty
  <2>2. c * 0 = 0
    OBVIOUS
  <2> QED BY <1>1, <2>1, <2>2
<1>4. /\ First(T) \in T /\ SumOf(f, T) = f[First(T)] + SumOf(f, T \ {First(T)})
      /\ SumOf(e, T) = e[First(T)] + SumOf(e, T \ {First(T)})
  BY <1>2, <1>3, SumTakesFirst
<1> DEFINE R == T \ {First(T)}
<1>5. R \notin F /\ R \subseteq S
  BY <1>1, <1>2, <1>4
<1>6. SumOf(e, R) = c * SumOf(f, R) /\ SumOf(f, R) \in Int
  <2>1. IsFiniteSet(R) /\ \A x \in R : f[x] \in Int
    BY <1>2, <1>5, FS_Subset
  <2>2. SumOf(f, R) \in Int
    <3> HIDE DEF R
    <3> QED BY <2>1, SumInteger
  <2> QED BY <1>5, <2>2
<1>7. f[First(T)] \in Int /\ e[First(T)] = c * f[First(T)]
  BY <1>2, <1>4
<1>8. \A a, b \in Int : c * (a + b) = c * a + c * b
  OBVIOUS
<1> HIDE DEF R
<1>9. SumOf(e, T) = c * SumOf(f, T)
  BY <1>4, <1>6, <1>7, <1>8 DEF R
<1> QED BY <1>1, <1>9

\* Summands that are numbered: the sum over the numbers.
THEOREM SumImage ==
    ASSUME NEW S, IsFiniteSet(S), NEW T, NEW g \in Bijection(S, T), NEW f, \A x \in T : f[x] \in Int
    PROVE  /\ IsFiniteSet(T)
           /\ SumOf(f, T) = SumOf([x \in S |-> f[g[x]]], S)
<1> DEFINE e == [x \in S |-> f[g[x]]]
<1>1. IsFiniteSet(T) /\ (\A x \in S : g[x] \in T) /\ (\A x, y \in S : g[x] = g[y] => x = y)
      /\ (\A z \in T : \E x \in S : g[x] = z)
  <2>1. ExistsBijection(S, T)
    BY DEF ExistsBijection
  <2> QED
    BY <2>1, FS_Bijection DEF Bijection, Injection, Surjection, IsInjective
<1> DEFINE im(s) == {z \in T : \E x \in s : g[x] = z}
<1> SUFFICES ASSUME SumOf(f, T) # SumOf(e, S) PROVE FALSE
  BY <1>1
<1> DEFINE F == {s \in SUBSET S : SumOf(f, im(s)) # SumOf(e, s)}
<1>2. PICK U \in F : \A u \in F : u \subseteq U => u = U
  <2>1. im(S) = T
    BY <1>1
  <2>2. F \in SUBSET (SUBSET S) /\ S \in F
    BY <2>1
  <2> HIDE DEF F
  <2> QED BY <2>2, SmallestSet
<1>3. IsFiniteSet(U) /\ U \subseteq S
  BY <1>2, FS_Subset
<1>4. U # {}
  <2>1. U = {} => im(U) = {}
    OBVIOUS
  <2>2. U = {} => SumOf(f, im(U)) = 0 /\ SumOf(e, U) = 0
    BY <2>1, SumEmpty
  <2> QED BY <1>2, <2>2
<1> DEFINE x == First(U)
           R == U \ {x}
<1>5. x \in U /\ SumOf(e, U) = e[x] + SumOf(e, R)
  BY <1>3, <1>4, SumTakesFirst
<1>6. R \notin F /\ R \in SUBSET S
  BY <1>2, <1>3, <1>5
<1>7. SumOf(f, im(R)) = SumOf(e, R)
  BY <1>6
<1>8. g[x] \in im(U) /\ im(U) \ {g[x]} = im(R) /\ im(U) \subseteq T
  BY <1>1, <1>3, <1>5
<1>9. SumOf(f, im(U)) = f[g[x]] + SumOf(f, im(R))
  <2>1. IsFiniteSet(im(U)) /\ \A y \in im(U) : f[y] \in Int
    BY <1>1, <1>8, FS_Subset
  <2> HIDE DEF im, x, R
  <2> QED BY <1>8, <2>1, SumTakes
<1>10. e[x] = f[g[x]]
  BY <1>3, <1>5
<1>11. SumOf(f, im(U)) # SumOf(e, U)
  BY <1>2
<1> HIDE DEF im, x, R, F, e
<1> QED BY <1>5, <1>7, <1>9, <1>10, <1>11

\* One summand that changes.
THEOREM SumChanges ==
    ASSUME NEW S, IsFiniteSet(S), NEW x \in S, NEW f, NEW e,
           \A y \in S : f[y] \in Int /\ e[y] \in Int, \A y \in S : y # x => e[y] = f[y]
    PROVE  SumOf(e, S) = SumOf(f, S) - f[x] + e[x]
<1> DEFINE R == S \ {x}
<1>1. SumOf(f, S) = f[x] + SumOf(f, R) /\ SumOf(e, S) = e[x] + SumOf(e, R)
  BY SumTakes
<1>2. IsFiniteSet(R) /\ (\A y \in R : f[y] = e[y]) /\ (\A y \in R : f[y] \in Int)
  BY FS_RemoveElement
<1> HIDE DEF R
<1>3. SumOf(f, R) = SumOf(e, R) /\ SumOf(f, R) \in Int
  BY <1>2, SumEqual, SumInteger
<1>4. f[x] \in Int /\ e[x] \in Int
  OBVIOUS
<1> QED BY <1>1, <1>3, <1>4

\* Summands with a common bound.
THEOREM SumBounded ==
    ASSUME NEW S, IsFiniteSet(S), NEW c \in Int, NEW f, \A x \in S : f[x] \in Int /\ f[x] <= c
    PROVE  SumOf(f, S) <= c * Cardinality(S)
<1> SUFFICES ASSUME ~(SumOf(f, S) <= c * Cardinality(S)) PROVE FALSE
  OBVIOUS
<1> DEFINE F == {s \in SUBSET S : ~(SumOf(f, s) <= c * Cardinality(s))}
<1>1. PICK T \in F : \A u \in F : u \subseteq T => u = T
  <2>1. F \in SUBSET (SUBSET S) /\ F # {}
    OBVIOUS
  <2> HIDE DEF F
  <2> QED BY <2>1, SmallestSet
<1>2. IsFiniteSet(T) /\ T \subseteq S
  BY <1>1, FS_Subset
<1>3. T # {}
  <2>1. T = {} => SumOf(f, T) = 0 /\ Cardinality(T) = 0
    BY SumEmpty, FS_EmptySet
  <2>2. c * 0 = 0
    OBVIOUS
  <2> QED BY <1>1, <2>1, <2>2
<1>4. PICK x : x \in T
  BY <1>3
<1> DEFINE R == T \ {x}
<1>5. IsFiniteSet(R) /\ R \subseteq S /\ R \notin F /\ x \in S /\ Cardinality(R) = Cardinality(T) - 1
  BY <1>1, <1>2, <1>4, FS_RemoveElement
<1>6. SumOf(f, R) <= c * Cardinality(R) /\ SumOf(f, R) \in Int
  <2>1. \A y \in R : f[y] \in Int
    BY <1>5
  <2>2. SumOf(f, R) <= c * Cardinality(R)
    BY <1>5
  <2> HIDE DEF R
  <2> QED BY <1>5, <2>1, <2>2, SumInteger
<1>7. SumOf(f, T) = f[x] + SumOf(f, R)
  BY <1>2, <1>4, SumTakes
<1> HIDE DEF R
<1>8. Cardinality(T) \in Nat
  BY <1>2, FS_CardinalityType
<1>9. c * (Cardinality(T) - 1) = c * Cardinality(T) - c
  BY <1>8
<1>10. c * Cardinality(T) \in Int
  BY <1>8
<1>11. SumOf(f, T) <= c * Cardinality(T)
  BY <1>5, <1>6, <1>7, <1>9, <1>10
<1> QED BY <1>1, <1>11

\* A sum over what a function takes the elements of a set to, none to the same.
THEOREM SumReindexed ==
    ASSUME NEW S, IsFiniteSet(S), NEW g, \A x, y \in S : g[x] = g[y] => x = y,
           NEW f, \A x \in S : f[g[x]] \in Int
    PROVE  SumOf(f, {g[x] : x \in S}) = SumOf([x \in S |-> f[g[x]]], S)
<1> DEFINE e == [x \in S |-> f[g[x]]]
           Taken(s) == {g[x] : x \in s}
<1> SUFFICES ASSUME SumOf(f, Taken(S)) # SumOf(e, S) PROVE FALSE
  OBVIOUS
<1> DEFINE F == {s \in SUBSET S : SumOf(f, Taken(s)) # SumOf(e, s)}
<1>1. PICK T \in F : \A u \in F : u \subseteq T => u = T
  <2>1. F \in SUBSET (SUBSET S) /\ F # {}
    OBVIOUS
  <2> HIDE DEF F
  <2> QED BY <2>1, SmallestSet
<1>2. IsFiniteSet(T) /\ T \subseteq S
  BY <1>1, FS_Subset
<1>3. T # {}
  <2>1. Taken({}) = {} /\ SumOf(f, {}) = 0 /\ SumOf(e, {}) = 0
    BY SumEmpty
  <2>2. {} \notin F
    BY <2>1
  <2> QED BY <1>1, <2>2
<1>4. PICK x : x \in T
  BY <1>3
<1> DEFINE R == T \ {x}
<1>5. IsFiniteSet(R) /\ R \subseteq S /\ R \notin F /\ x \in S /\ IsFiniteSet(Taken(R))
  <2>1. IsFiniteSet(R) /\ R \subseteq S /\ R \notin F /\ x \in S
    BY <1>1, <1>2, <1>4, FS_RemoveElement
  <2>2. PICK U : U = Taken(R)
    OBVIOUS
  <2>3. [y \in R |-> g[y]] \in Surjection(R, U)
    BY <2>2 DEF Surjection
  <2> HIDE DEF R, Taken
  <2>4. IsFiniteSet(U)
    BY <2>1, <2>3, FS_Surjection
  <2> QED BY <2>1, <2>2, <2>4
<1>6. SumOf(f, Taken(R)) = SumOf(e, R)
  BY <1>5
<1>7. Taken(T) = Taken(R) \cup {g[x]} /\ g[x] \notin Taken(R)
  BY <1>2, <1>4, <1>5
<1>8. SumOf(e, T) = e[x] + SumOf(e, R) /\ e[x] = f[g[x]] /\ SumOf(e, R) \in Int /\ e[x] \in Int
  <2>1. (\A y \in T : e[y] \in Int) /\ (\A y \in R : e[y] \in Int) /\ e[x] = f[g[x]]
    BY <1>2, <1>5
  <2>2. SumOf(e, T) = e[x] + SumOf(e, R)
    <3> HIDE DEF e
    <3> QED BY <1>2, <1>4, <2>1, SumTakes
  <2>3. SumOf(e, R) \in Int
    <3> HIDE DEF e, R
    <3> QED BY <1>5, <2>1, SumInteger
  <2> QED BY <1>4, <2>1, <2>2, <2>3
<1>9. SumOf(f, Taken(T)) = SumOf(f, Taken(R)) + f[g[x]]
  <2>1. PICK U, y : U = Taken(R) /\ y = g[x]
    OBVIOUS
  <2>2. IsFiniteSet(U) /\ y \notin U /\ (\A z \in U \cup {y} : f[z] \in Int) /\ Taken(T) = U \cup {y}
    BY <1>2, <1>4, <1>5, <1>7, <2>1
  <2> HIDE DEF Taken
  <2>3. SumOf(f, U \cup {y}) = SumOf(f, U) + f[y]
    BY <2>2, SumAdd
  <2> QED BY <2>1, <2>2, <2>3
<1> HIDE DEF e, R, Taken
<1>10. SumOf(f, Taken(T)) = SumOf(e, T)
  BY <1>6, <1>8, <1>9
<1> QED BY <1>1, <1>10

-----------------------------------------------------------------------------
(* The sums of the library, and the extremes of a set of numbers *)

\* The sums of the model are the sums of FiniteSums.
LEMMA SumFunctionIsSum == \A f, S : SumFunctionOnSet(f, S) = SumOf(f, S)
BY DEF SumFunctionOnSet, FoldFunctionOnSet, MapThenFoldSet, SumOf, IsSum, First

\* A set of numbers has a least one, and a greatest one if it is bounded.
LEMMA LeastExists ==
    ASSUME NEW S \in SUBSET Nat, S # {}
    PROVE  \E m \in S : \A x \in S : m <= x
<1>1. PICK b \in S : TRUE
  OBVIOUS
<1> DEFINE F == {T \in SUBSET (0..b) : \E x \in S : T = 0..x}
<1>2. PICK T \in F : \A U \in F : U \subseteq T => U = T
  <2>1. PICK S0 : S0 = 0..b
    OBVIOUS
  <2>2. IsFiniteSet(S0)
    BY <1>1, <2>1, FS_Interval
  <2>3. F \in SUBSET (SUBSET S0)
    BY <2>1
  <2>4. F # {}
    <3>1. 0..b \in F
      BY <1>1
    <3> QED BY <3>1
  <2> HIDE DEF F
  <2> QED BY <2>2, <2>3, <2>4, SmallestSet
<1>3. PICK m \in S : T = 0..m
  BY <1>2
<1>4. m <= b
  BY <1>2, <1>3
<1>5. ASSUME NEW x \in S, ~(m <= x) PROVE FALSE
  <2>1. 0..x \in F /\ 0..x \subseteq T
    BY <1>3, <1>4, <1>5
  <2>2. 0..x = 0..m
    BY <1>2, <1>3, <2>1
  <2>3. m \in 0..m /\ m \notin 0..x
    BY <1>5
  <2> QED BY <2>2, <2>3
<1> QED BY <1>5

LEMMA GreatestExists ==
    ASSUME NEW S \in SUBSET Nat, S # {}, NEW b \in Nat, \A x \in S : x <= b
    PROVE  \E m \in S : \A x \in S : x <= m
<1> DEFINE D == {b - x : x \in S}
<1>1. D \in SUBSET Nat /\ D # {}
  <2>1. \A x \in S : b - x \in Nat
    OBVIOUS
  <2> QED BY <2>1
<1>2. PICK d \in D : \A x \in D : d <= x
  <2> HIDE DEF D
  <2> QED BY <1>1, LeastExists
<1>3. PICK m \in S : d = b - m
  BY <1>2
<1>4. ASSUME NEW x \in S PROVE x <= m
  <2>1. d <= b - x
    BY <1>2
  <2> QED BY <1>3, <2>1
<1> QED BY <1>4

\* A finite set of numbers has a greatest one.
LEMMA FiniteGreatest ==
    ASSUME NEW S, \A x \in S : x \in Nat, S # {}, IsFiniteSet(S)
    PROVE  \E m \in S : \A x \in S : m >= x
<1> DEFINE Above(m) == {x \in S : x >= m}
           F == {Above(m) : m \in S}
<1>1. PICK T \in F : \A U \in F : U \subseteq T => U = T
  <2>1. F \in SUBSET (SUBSET S)
    OBVIOUS
  <2>2. F # {}
    OBVIOUS
  <2> HIDE DEF F, Above
  <2> QED BY <2>1, <2>2, SmallestSet
<1>2. PICK m \in S : T = Above(m)
  BY <1>1
<1>3. ASSUME NEW x \in S, ~(m >= x) PROVE FALSE
  <2>1. Above(x) \in F /\ Above(x) \subseteq T
    <3>1. \A y \in S : y >= x => y >= m
      BY <1>3
    <3> QED BY <1>2, <3>1
  <2>2. m \in T /\ m \notin Above(x)
    BY <1>2, <1>3
  <2> QED BY <1>1, <2>1, <2>2
<1> QED BY <1>3

\* The greatest and the least of a set of numbers.
LEMMA Extremes ==
    ASSUME NEW S, \A x \in S : x \in Nat, S # {}
    PROVE  /\ Min(S) \in S /\ \A x \in S : Min(S) <= x
           /\ IsFiniteSet(S) => Max(S) \in S /\ \A x \in S : Max(S) >= x
<1>1. Min(S) \in S /\ \A x \in S : Min(S) <= x
  BY LeastExists DEF Min
<1>2. ASSUME IsFiniteSet(S) PROVE Max(S) \in S /\ \A x \in S : Max(S) >= x
  BY <1>2, FiniteGreatest DEF Max
<1> QED BY <1>1, <1>2

\* A multiple of the larger number is the larger one.
LEMMA KeepsOrder ==
    ASSUME NEW k \in Nat, NEW x \in Nat, NEW y \in Nat, x <= y
    PROVE  k * x <= k * y
<1>1. PICK d \in Nat : y = x + d
  BY y - x \in Nat
<1>2. k * y = k * x + k * d /\ k * d \in Nat /\ k * x \in Nat
  BY <1>1
<1> QED BY <1>2

\* The values of a function on a finite set.
LEMMA FiniteValues ==
    ASSUME NEW I, IsFiniteSet(I), NEW f
    PROVE  IsFiniteSet({f[i] : i \in I})
<1> DEFINE T == {f[i] : i \in I}
           g == [i \in I |-> f[i]]
<1>1. g \in Surjection(I, T)
  BY DEF Surjection
<1> QED BY <1>1, FS_Surjection
=============================================================================
