----------------------------- MODULE SumTheorems -----------------------------
(***************************************************************************)
(* What the sums of the community module Functions are: SumFunctionOnSet   *)
(* is a fold that takes the elements of a set in an unspecified order, and *)
(* these are the facts a reader expects of it.                             *)
(***************************************************************************)
EXTENDS Integers, FiniteSets, Functions, FiniteSetTheorems,
        WellFoundedInduction, TLAPS

\* The element the fold takes first
Pick(s) == CHOOSE x \in s : TRUE

\* g is the table of partial sums over the subsets of S
IsTable(f, S, g) ==
    g = [s \in SUBSET S |-> IF s = {} THEN 0 ELSE f[Pick(s)] + g[s \ {Pick(s)}]]

\* A sum is the last entry of a table of partial sums.
LEMMA SumIsTable ==
    ASSUME NEW f, NEW S
    PROVE  SumFunctionOnSet(f, S) = (CHOOSE g : IsTable(f, S, g))[S]
BY DEF SumFunctionOnSet, FoldFunctionOnSet, MapThenFoldSet, IsTable, Pick

\* In a set of finite sets that is not empty there is one that has no proper
\* subset in it: how the facts below are proved, since the induction theorems
\* of the library take an operator.
LEMMA Smallest ==
    ASSUME NEW S, IsFiniteSet(S), NEW B \in SUBSET (SUBSET S), B # {}
    PROVE  \E T \in B : \A U \in B : U \subseteq T => U = T
<1>1. B \subseteq FiniteSubsetsOf(S)
  BY FS_Subset DEF FiniteSubsetsOf
<1>2. \E T \in B : \A U \in B : ~(<<U, T>> \in StrictSubsetOrdering(S))
  BY <1>1, FS_StrictSubsetOrderingWellFounded, WFMin
<1>3. PICK T \in B : \A U \in B : ~(<<U, T>> \in StrictSubsetOrdering(S))
  BY <1>2
<1>4. ASSUME NEW U \in B, U \subseteq T, U # T
      PROVE  FALSE
  BY <1>3, <1>4 DEF StrictSubsetOrdering
<1> QED BY <1>4

\* The element picked of a set that is not empty is in it.
LEMMA PickIn == \A s : s # {} => Pick(s) \in s
BY DEF Pick

\* Two tables agree on the sets that are in both.
LEMMA TablesAgree ==
    ASSUME NEW f, NEW A, NEW B, NEW g, NEW h,
           IsTable(f, A, g), IsTable(f, B, h),
           NEW S, S \subseteq A, S \subseteq B, IsFiniteSet(S)
    PROVE  g[S] = h[S]
<1> DEFINE Bad == {T \in SUBSET S : g[T] # h[T]}
<1>1. SUFFICES ASSUME Bad # {} PROVE FALSE
  OBVIOUS
<1>b. Bad \in SUBSET (SUBSET S)
  OBVIOUS
<1>2. PICK T \in Bad : \A U \in Bad : U \subseteq T => U = T
  <2> HIDE DEF Bad
  <2> QED BY <1>1, <1>b, Smallest
<1>3. /\ g[T] = IF T = {} THEN 0 ELSE f[Pick(T)] + g[T \ {Pick(T)}]
      /\ h[T] = IF T = {} THEN 0 ELSE f[Pick(T)] + h[T \ {Pick(T)}]
  BY DEF IsTable
<1>4. CASE T = {}
  BY <1>3, <1>4
<1>5. CASE T # {}
  <2>1. T \ {Pick(T)} \notin Bad
    BY <1>2, <1>5, PickIn
  <2>2. g[T \ {Pick(T)}] = h[T \ {Pick(T)}]
    BY <2>1
  <2> QED BY <1>3, <1>5, <2>2
<1> QED BY <1>4, <1>5

\* A finite set has a table.
LEMMA TableExists ==
    ASSUME NEW f, NEW S, IsFiniteSet(S)
    PROVE  \E g : IsTable(f, S, g)
<1> DEFINE Bad == {T \in SUBSET S : ~\E g : IsTable(f, T, g)}
           G(T) == CHOOSE g : IsTable(f, T, g)
<1>1. SUFFICES ASSUME Bad # {} PROVE FALSE
  OBVIOUS
<1>b. Bad \in SUBSET (SUBSET S)
  OBVIOUS
<1>2. PICK T \in Bad : \A U \in Bad : U \subseteq T => U = T
  <2> HIDE DEF Bad
  <2> QED BY <1>1, <1>b, Smallest
<1>3. \A U \in SUBSET T : U # T => IsTable(f, U, G(U))
  BY <1>2
<1> DEFINE h == [s \in SUBSET T |->
                   IF s = {} THEN 0
                   ELSE f[Pick(s)] + G(s \ {Pick(s)})[s \ {Pick(s)}]]
<1>4. ASSUME NEW s \in SUBSET T, s # {}
      PROVE  h[s \ {Pick(s)}] = G(s \ {Pick(s)})[s \ {Pick(s)}]
  <2> DEFINE u == s \ {Pick(s)}
             v == u \ {Pick(u)}
  <2>1. u \in SUBSET T /\ u # T /\ v \in SUBSET T /\ IsFiniteSet(v) /\ v \subseteq u
    BY <1>4, PickIn, FS_Subset
  <2>2. IsTable(f, u, G(u))
    BY <1>3, <2>1
  <2>3. CASE u = {}
    <3>1. G(u)[u] = 0
      BY <2>2, <2>3 DEF IsTable
    <3> QED BY <2>1, <2>3, <3>1
  <2>4. CASE u # {}
    <3>1. v # T
      BY <2>1, <2>4, PickIn
    <3>2. IsTable(f, v, G(v))
      BY <1>3, <2>1, <3>1
    <3>3. G(u)[v] = G(v)[v]
      BY <2>1, <2>2, <3>2, TablesAgree
    <3>4. G(u)[u] = f[Pick(u)] + G(u)[v]
      BY <2>2, <2>4 DEF IsTable
    <3>5. h[u] = f[Pick(u)] + G(v)[v]
      BY <2>1, <2>4
    <3> QED BY <3>3, <3>4, <3>5
  <2> QED BY <2>3, <2>4
<1>5. IsTable(f, T, h)
  <2>1. \A s \in SUBSET T :
           h[s] = IF s = {} THEN 0 ELSE f[Pick(s)] + h[s \ {Pick(s)}]
    <3>1. \A s \in SUBSET T :
             h[s] = IF s = {} THEN 0
                    ELSE f[Pick(s)] + G(s \ {Pick(s)})[s \ {Pick(s)}]
      OBVIOUS
    <3> HIDE DEF h, G
    <3> QED BY <1>4, <3>1
  <2>2. h = [s \in SUBSET T |-> h[s]]
    OBVIOUS
  <2> HIDE DEF h
  <2> QED BY <2>1, <2>2 DEF IsTable
<1> QED BY <1>2, <1>5

\* The recursion the fold comes down to
LEMMA SumUnfold ==
    ASSUME NEW f, NEW S, IsFiniteSet(S)
    PROVE  SumFunctionOnSet(f, S) =
             IF S = {} THEN 0
             ELSE f[Pick(S)] + SumFunctionOnSet(f, S \ {Pick(S)})
<1> DEFINE g == CHOOSE g : IsTable(f, S, g)
           R == S \ {Pick(S)}
           h == CHOOSE h : IsTable(f, R, h)
<1>1. IsTable(f, S, g)
  BY TableExists
<1>2. IsFiniteSet(R) /\ R \subseteq S
  BY FS_Subset
<1>3. IsTable(f, R, h)
  BY <1>2, TableExists
<1> HIDE DEF g, h
<1>4. g[R] = h[R]
  BY <1>1, <1>2, <1>3, TablesAgree
<1>5. g[S] = IF S = {} THEN 0 ELSE f[Pick(S)] + g[R]
  BY <1>1 DEF IsTable
<1>6. SumFunctionOnSet(f, S) = g[S] /\ SumFunctionOnSet(f, R) = h[R]
  BY SumIsTable DEF g, h
<1> QED BY <1>4, <1>5, <1>6

\* The sum over no arguments is zero.
LEMMA SumEmpty == \A f : SumFunctionOnSet(f, {}) = 0
BY SumUnfold, FS_EmptySet

\* Two functions that agree on a set have the same sum on it.
LEMMA SumCongruence ==
    ASSUME NEW f, NEW g, NEW S, IsFiniteSet(S), \A x \in S : f[x] = g[x]
    PROVE  SumFunctionOnSet(f, S) = SumFunctionOnSet(g, S)
<1> DEFINE Bad == {T \in SUBSET S : SumFunctionOnSet(f, T) # SumFunctionOnSet(g, T)}
<1>1. SUFFICES ASSUME Bad # {} PROVE FALSE
  OBVIOUS
<1>b. Bad \in SUBSET (SUBSET S)
  OBVIOUS
<1>2. PICK T \in Bad : \A U \in Bad : U \subseteq T => U = T
  <2> HIDE DEF Bad
  <2> QED BY <1>1, <1>b, Smallest
<1>3. IsFiniteSet(T)
  BY FS_Subset
<1>4. T # {}
  BY SumEmpty
<1>5. Pick(T) \in T /\ T \ {Pick(T)} \notin Bad
  BY <1>2, <1>4, PickIn
<1>6. SumFunctionOnSet(f, T \ {Pick(T)}) = SumFunctionOnSet(g, T \ {Pick(T)})
  BY <1>5
<1>7. /\ SumFunctionOnSet(f, T) = f[Pick(T)] + SumFunctionOnSet(f, T \ {Pick(T)})
      /\ SumFunctionOnSet(g, T) = g[Pick(T)] + SumFunctionOnSet(g, T \ {Pick(T)})
  BY <1>3, <1>4, SumUnfold
<1> QED BY <1>5, <1>6, <1>7

\* The sum of integers is an integer.
LEMMA SumInt ==
    ASSUME NEW f, NEW S, IsFiniteSet(S), \A x \in S : f[x] \in Int
    PROVE  SumFunctionOnSet(f, S) \in Int
<1> DEFINE Bad == {T \in SUBSET S : SumFunctionOnSet(f, T) \notin Int}
<1>1. SUFFICES ASSUME Bad # {} PROVE FALSE
  OBVIOUS
<1>b. Bad \in SUBSET (SUBSET S)
  OBVIOUS
<1>2. PICK T \in Bad : \A U \in Bad : U \subseteq T => U = T
  <2> HIDE DEF Bad
  <2> QED BY <1>1, <1>b, Smallest
<1>3. IsFiniteSet(T)
  BY FS_Subset
<1>4. T # {}
  BY SumEmpty
<1>5. Pick(T) \in T /\ T \ {Pick(T)} \notin Bad
  BY <1>2, <1>4, PickIn
<1>6. SumFunctionOnSet(f, T \ {Pick(T)}) \in Int
  BY <1>5
<1>7. SumFunctionOnSet(f, T) = f[Pick(T)] + SumFunctionOnSet(f, T \ {Pick(T)})
  BY <1>3, <1>4, SumUnfold
<1> QED BY <1>5, <1>6, <1>7

\* The sum of naturals is a natural.
LEMMA SumNat ==
    ASSUME NEW f, NEW S, IsFiniteSet(S), \A x \in S : f[x] \in Nat
    PROVE  SumFunctionOnSet(f, S) \in Nat
<1> DEFINE Bad == {T \in SUBSET S : SumFunctionOnSet(f, T) \notin Nat}
<1>1. SUFFICES ASSUME Bad # {} PROVE FALSE
  OBVIOUS
<1>b. Bad \in SUBSET (SUBSET S)
  OBVIOUS
<1>2. PICK T \in Bad : \A U \in Bad : U \subseteq T => U = T
  <2> HIDE DEF Bad
  <2> QED BY <1>1, <1>b, Smallest
<1>3. IsFiniteSet(T)
  BY FS_Subset
<1>4. T # {}
  BY SumEmpty
<1>5. Pick(T) \in T /\ T \ {Pick(T)} \notin Bad
  BY <1>2, <1>4, PickIn
<1>6. SumFunctionOnSet(f, T \ {Pick(T)}) \in Nat
  BY <1>5
<1>7. SumFunctionOnSet(f, T) = f[Pick(T)] + SumFunctionOnSet(f, T \ {Pick(T)})
  BY <1>3, <1>4, SumUnfold
<1> QED BY <1>5, <1>6, <1>7

\* Any element can be taken out of the sum first.
LEMMA SumRemove ==
    ASSUME NEW f, NEW S, IsFiniteSet(S), \A y \in S : f[y] \in Int, NEW x \in S
    PROVE  SumFunctionOnSet(f, S) = f[x] + SumFunctionOnSet(f, S \ {x})
<1> DEFINE Sum(T) == SumFunctionOnSet(f, T)
           Bad == {T \in SUBSET S : \E y \in T : Sum(T) # f[y] + Sum(T \ {y})}
<1>1. SUFFICES ASSUME Bad # {} PROVE FALSE
  OBVIOUS
<1>b. Bad \in SUBSET (SUBSET S)
  OBVIOUS
<1>2. PICK T \in Bad : \A U \in Bad : U \subseteq T => U = T
  <2> HIDE DEF Bad
  <2> QED BY <1>1, <1>b, Smallest
<1>3. PICK y \in T : Sum(T) # f[y] + Sum(T \ {y})
  OBVIOUS
<1> DEFINE z == Pick(T)
           R == T \ {y, z}
<1>4. z \in T
  BY PickIn
<1>5. IsFiniteSet(T) /\ IsFiniteSet(R)
  BY FS_Subset
<1>6. Sum(T) = f[z] + Sum(T \ {z})
  BY <1>4, <1>5, SumUnfold
<1>7. y # z
  BY <1>3, <1>6
<1>8. T \ {z} \notin Bad /\ T \ {y} \notin Bad
  BY <1>2, <1>3, <1>4
<1>9. Sum(T \ {z}) = f[y] + Sum(R)
  <2>1. (T \ {z}) \ {y} = R
    OBVIOUS
  <2> QED BY <1>3, <1>7, <1>8, <2>1
<1>10. Sum(T \ {y}) = f[z] + Sum(R)
  <2>1. (T \ {y}) \ {z} = R
    OBVIOUS
  <2> QED BY <1>4, <1>7, <1>8, <2>1
<1>11. Sum(R) \in Int /\ f[y] \in Int /\ f[z] \in Int
  BY <1>3, <1>4, <1>5, SumInt
<1> HIDE DEF Sum, z, R
<1> QED BY <1>3, <1>6, <1>9, <1>10, <1>11

\* A change of one value changes the sum of a function by as much.
LEMMA SumUpdate ==
    ASSUME NEW S, IsFiniteSet(S), NEW f \in [S -> Int], NEW g \in [S -> Int],
           NEW x \in S, \A y \in S \ {x} : f[y] = g[y]
    PROVE  SumFunction(g) - SumFunction(f) = g[x] - f[x]
<1>1. IsFiniteSet(S \ {x})
  BY FS_Subset
<1>2. SumFunctionOnSet(f, S \ {x}) = SumFunctionOnSet(g, S \ {x})
  BY <1>1, SumCongruence
<1>3. SumFunctionOnSet(f, S \ {x}) \in Int
  BY <1>1, SumInt
<1>4. /\ SumFunctionOnSet(f, S) = f[x] + SumFunctionOnSet(f, S \ {x})
      /\ SumFunctionOnSet(g, S) = g[x] + SumFunctionOnSet(g, S \ {x})
  BY SumRemove
<1> QED BY <1>2, <1>3, <1>4 DEF SumFunction

\* Functions with the same values have the same sum.
THEOREM SumSame ==
    ASSUME NEW S, IsFiniteSet(S), NEW f \in [S -> Int], NEW g \in [S -> Int],
           \A y \in S : f[y] = g[y]
    PROVE  SumFunction(f) = SumFunction(g)
BY SumCongruence DEF SumFunction

\* The sum of an integer-valued function is an integer.
THEOREM SumType ==
    ASSUME NEW S, IsFiniteSet(S), NEW f \in [S -> Int]
    PROVE  SumFunction(f) \in Int
BY SumInt DEF SumFunction

\* The sum of zeros is zero.
THEOREM SumZero ==
    ASSUME NEW S, IsFiniteSet(S), NEW f \in [S -> Int], \A y \in S : f[y] = 0
    PROVE  SumFunction(f) = 0
<1> DEFINE Bad == {T \in SUBSET S : SumFunctionOnSet(f, T) # 0}
<1>1. SUFFICES ASSUME Bad # {} PROVE FALSE
  BY DEF SumFunction
<1>b. Bad \in SUBSET (SUBSET S)
  OBVIOUS
<1>2. PICK T \in Bad : \A U \in Bad : U \subseteq T => U = T
  <2> HIDE DEF Bad
  <2> QED BY <1>1, <1>b, Smallest
<1>3. IsFiniteSet(T)
  BY FS_Subset
<1>4. T # {}
  BY SumEmpty
<1>5. Pick(T) \in T /\ SumFunctionOnSet(f, T \ {Pick(T)}) = 0
  BY <1>2, <1>4, PickIn
<1>6. SumFunctionOnSet(f, T) = f[Pick(T)] + SumFunctionOnSet(f, T \ {Pick(T)})
  BY <1>3, <1>4, SumUnfold
<1> QED BY <1>5, <1>6

\* A sum may be taken over other names of its terms.
LEMMA SumReindex ==
    ASSUME NEW S, IsFiniteSet(S), NEW D, IsFiniteSet(D), NEW h, NEW f, NEW g,
           \A x \in S : h[x] \in D /\ f[h[x]] \in Int /\ g[x] = f[h[x]],
           \A x, y \in S : h[x] = h[y] => x = y
    PROVE  SumFunctionOnSet(g, S) = SumFunctionOnSet(f, {h[x] : x \in S})
<1> DEFINE Im(T) == {h[x] : x \in T}
           Bad == {T \in SUBSET S : SumFunctionOnSet(g, T) # SumFunctionOnSet(f, Im(T))}
<1>1. SUFFICES ASSUME Bad # {} PROVE FALSE
  OBVIOUS
<1>b. Bad \in SUBSET (SUBSET S)
  OBVIOUS
<1>2. PICK T \in Bad : \A U \in Bad : U \subseteq T => U = T
  <2> HIDE DEF Bad
  <2> QED BY <1>1, <1>b, Smallest
<1>3. T # {}
  BY SumEmpty
<1>4. PICK x : x \in T
  BY <1>3
<1>5. /\ IsFiniteSet(T) /\ IsFiniteSet(Im(T)) /\ h[x] \in Im(T)
      /\ \A y \in T : g[y] \in Int
      /\ \A y \in Im(T) : f[y] \in Int
  BY <1>4, FS_Subset
<1>6. Im(T \ {x}) = Im(T) \ {h[x]}
  BY <1>4
<1>7. SumFunctionOnSet(g, T \ {x}) = SumFunctionOnSet(f, Im(T \ {x}))
  <2>1. T \ {x} \notin Bad
    BY <1>2, <1>4
  <2> QED BY <2>1
<1>8. SumFunctionOnSet(g, T) = g[x] + SumFunctionOnSet(g, T \ {x})
  BY <1>4, <1>5, SumRemove
<1>9. SumFunctionOnSet(f, Im(T)) = f[h[x]] + SumFunctionOnSet(f, Im(T) \ {h[x]})
  <2> HIDE DEF Im
  <2> QED BY <1>5, SumRemove
<1>10. g[x] = f[h[x]] /\ SumFunctionOnSet(g, T) # SumFunctionOnSet(f, Im(T))
  BY <1>4
<1> QED BY <1>6, <1>7, <1>8, <1>9, <1>10

\* A sum whose terms have signs is the sum of the terms that are added, less that of
\* the terms that are taken off.
LEMMA SumSigned ==
    ASSUME NEW S, IsFiniteSet(S), NEW P, NEW f, NEW g,
           \A x \in S : f[x] \in Int /\ g[x] = IF x \in P THEN f[x] ELSE -f[x]
    PROVE  SumFunctionOnSet(g, S) =
             SumFunctionOnSet(f, S \cap P) - SumFunctionOnSet(f, S \ P)
<1> DEFINE F(T) == SumFunctionOnSet(f, T)
           G(T) == SumFunctionOnSet(g, T)
           Bad == {T \in SUBSET S : G(T) # F(T \cap P) - F(T \ P)}
<1>1. SUFFICES ASSUME Bad # {} PROVE FALSE
  OBVIOUS
<1>b. Bad \in SUBSET (SUBSET S)
  OBVIOUS
<1>2. PICK T \in Bad : \A U \in Bad : U \subseteq T => U = T
  <2> HIDE DEF Bad
  <2> QED BY <1>1, <1>b, Smallest
<1>3. T # {}
  <2>1. G(T) # F(T \cap P) - F(T \ P)
    OBVIOUS
  <2>2. T = {} => T \cap P = {} /\ T \ P = {}
    OBVIOUS
  <2>3. F({}) = 0 /\ G({}) = 0
    BY SumEmpty
  <2>4. T = {} => F(T \cap P) = 0 /\ F(T \ P) = 0 /\ G(T) = 0
    BY <2>2, <2>3
  <2> HIDE DEF F, G, Bad
  <2> QED BY <2>1, <2>4
<1>4. PICK x : x \in T
  BY <1>3
<1> DEFINE U == T \ {x}
<1>5. /\ IsFiniteSet(T) /\ IsFiniteSet(T \cap P) /\ IsFiniteSet(T \ P)
      /\ IsFiniteSet(U \cap P) /\ IsFiniteSet(U \ P)
      /\ \A y \in T : g[y] \in Int /\ f[y] \in Int
  BY FS_Subset
<1>6. G(U) = F(U \cap P) - F(U \ P)
  <2>1. U \notin Bad
    BY <1>2, <1>4
  <2> QED BY <2>1
<1>7. G(T) = g[x] + G(U)
  BY <1>4, <1>5, SumRemove
<1>8. F(U \cap P) \in Int /\ F(U \ P) \in Int
  BY <1>5, SumInt
<1>9. G(T) # F(T \cap P) - F(T \ P)
  OBVIOUS
<1>10. CASE x \in P
  <2>1. (T \cap P) \ {x} = U \cap P /\ T \ P = U \ P /\ x \in T \cap P
    BY <1>4, <1>10
  <2>2. F(T \cap P) = f[x] + F((T \cap P) \ {x})
    BY <1>5, <2>1, SumRemove
  <2>3. g[x] = f[x] /\ f[x] \in Int
    BY <1>4, <1>10
  <2>4. F(T \cap P) = f[x] + F(U \cap P) /\ F(T \ P) = F(U \ P)
    BY <2>1, <2>2
  <2> HIDE DEF F, G, U, Bad
  <2> QED BY <1>6, <1>7, <1>8, <1>9, <2>3, <2>4
<1>11. CASE x \notin P
  <2>1. (T \ P) \ {x} = U \ P /\ T \cap P = U \cap P /\ x \in T \ P
    BY <1>4, <1>11
  <2>2. F(T \ P) = f[x] + F((T \ P) \ {x})
    BY <1>5, <2>1, SumRemove
  <2>3. g[x] = -f[x] /\ f[x] \in Int
    BY <1>4, <1>11
  <2>4. F(T \ P) = f[x] + F(U \ P) /\ F(T \cap P) = F(U \cap P)
    BY <2>1, <2>2
  <2> HIDE DEF F, G, U, Bad
  <2> QED BY <1>6, <1>7, <1>8, <1>9, <2>3, <2>4
<1> QED BY <1>10, <1>11

\* Changing a function at one place changes its sum by the difference.
LEMMA SumChange ==
    ASSUME NEW f, NEW g, NEW S, IsFiniteSet(S), NEW x,
           \A y \in S : f[y] \in Int /\ g[y] \in Int /\ (y # x => g[y] = f[y])
    PROVE  SumFunctionOnSet(g, S)
             = SumFunctionOnSet(f, S) + IF x \in S THEN g[x] - f[x] ELSE 0
<1>1. PICK R : R = S \ {x}
  OBVIOUS
<1>2. IsFiniteSet(R) /\ \A y \in R : f[y] \in Int /\ g[y] = f[y]
  BY <1>1, FS_Subset
<1>3. SumFunctionOnSet(g, R) = SumFunctionOnSet(f, R) /\ SumFunctionOnSet(f, R) \in Int
  BY <1>2, SumCongruence, SumInt
<1>4. CASE x \in S
  <2>1. /\ SumFunctionOnSet(f, S) = f[x] + SumFunctionOnSet(f, S \ {x})
        /\ SumFunctionOnSet(g, S) = g[x] + SumFunctionOnSet(g, S \ {x})
    BY <1>4, SumRemove
  <2>2. f[x] \in Int /\ g[x] \in Int
    BY <1>4
  <2> QED BY <1>1, <1>3, <1>4, <2>1, <2>2
<1>5. CASE x \notin S
  <2>1. R = S
    BY <1>1, <1>5
  <2> QED BY <1>3, <1>5, <2>1
<1> QED BY <1>4, <1>5
=============================================================================
