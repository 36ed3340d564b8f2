-------------------------------- MODULE Sums --------------------------------
(***************************************************************************)
(* What SumFunctionOnSet of the community modules computes, for any        *)
(* function of integers and any finite set.  The library states induction  *)
(* over operators; here the property is the set of the subsets that have   *)
(* it, which needs no operator.                                            *)
(***************************************************************************)
EXTENDS Functions, FiniteSetTheorems, WellFoundedInduction, TLAPS

\* A nonempty collection of subsets of a finite set has a minimal one.
LEMMA MinimalSubset ==
    ASSUME NEW S, IsFiniteSet(S), NEW B \in SUBSET SUBSET S, B # {}
    PROVE  \E T \in B : \A U \in B : U \subseteq T => U = T
  <1>1. IsWellFoundedOn(StrictSubsetOrdering(S), SUBSET S)
    BY FS_StrictSubsetOrderingWellFounded, FS_FiniteSubsetsOfFinite
  <1>2. PICK T \in B : \A U \in B : <<U, T>> \notin StrictSubsetOrdering(S)
    BY <1>1, WFMin
  <1>3. QED
    BY <1>2 DEF StrictSubsetOrdering

-----------------------------------------------------------------------------
(* The fold is a recursive function over the subsets of S; it exists       *)
(* because the order of strict inclusion on them is well founded.          *)

Chosen(s) == CHOOSE x \in s : TRUE
SumTerm(f, g, s) == IF s = {} THEN 0 ELSE f[Chosen(s)] + g[s \ {Chosen(s)}]
AreSums(g, f, S) == g = [s \in SUBSET S |-> SumTerm(f, g, s)]
SumFold(f, S) == CHOOSE g : AreSums(g, f, S)

\* The community module's fold takes out one chosen element after the other.
LEMMA SumIsFold ==
    ASSUME NEW f, NEW S PROVE SumFunctionOnSet(f, S) = SumFold(f, S)[S]
  BY DEF SumFunctionOnSet, FoldFunctionOnSet, MapThenFoldSet, SumFold, AreSums,
         SumTerm, Chosen

\* The element the fold takes out is one of the set's.
LEMMA ChosenIn == ASSUME NEW s, s # {} PROVE Chosen(s) \in s
  BY DEF Chosen

\* A function that satisfies the fold's equation satisfies it at a subset.
LEMMA SumsAt ==
    ASSUME NEW f, NEW g, NEW S, AreSums(g, f, S), NEW s \in SUBSET S
    PROVE  g[s] = SumTerm(f, g, s)
  <1> DEFINE t == [u \in SUBSET S |-> SumTerm(f, g, u)]
  <1>1. t[s] = SumTerm(f, g, s)
    OBVIOUS
  <1>2. g = t
    BY DEF AreSums
  <1> HIDE DEF t
  <1>3. QED
    BY <1>1, <1>2

\* The sums over a set's subsets do not depend on the set.
LEMMA SumsAgree ==
    ASSUME NEW f, NEW S, IsFiniteSet(S), NEW T \in SUBSET S,
           NEW g, AreSums(g, f, S), NEW h, AreSums(h, f, T)
    PROVE  \A s \in SUBSET T : g[s] = h[s]
  <1> DEFINE Bad == {s \in SUBSET T : g[s] # h[s]}
  <1> SUFFICES ASSUME Bad # {} PROVE FALSE
    OBVIOUS
  <1>1. PICK s \in Bad : \A u \in Bad : u \subseteq s => u = s
    <2>1. Bad \in SUBSET SUBSET S
      OBVIOUS
    <2> HIDE DEF Bad
    <2>2. QED
      BY <2>1, MinimalSubset
  <1>2. g[s] = SumTerm(f, g, s) /\ h[s] = SumTerm(f, h, s)
    BY <1>1, SumsAt
  <1>3. s # {} => g[s \ {Chosen(s)}] = h[s \ {Chosen(s)}]
    BY <1>1, ChosenIn
  <1>4. QED
    BY <1>1, <1>2, <1>3 DEF SumTerm

\* The fold's equation has a solution.
LEMMA SumsExist ==
    ASSUME NEW f, NEW S, IsFiniteSet(S)
    PROVE  \E g : AreSums(g, f, S)
  <1> DEFINE Bad == {T \in SUBSET S : ~\E g : AreSums(g, f, T)}
  <1> SUFFICES ASSUME S \in Bad PROVE FALSE
    OBVIOUS
  <1>1. PICK T \in Bad : \A U \in Bad : U \subseteq T => U = T
    <2>1. Bad \in SUBSET SUBSET S /\ Bad # {}
      OBVIOUS
    <2> HIDE DEF Bad
    <2>2. QED
      BY <2>1, MinimalSubset
  \* What the smaller sets' sums say, put together.
  <1> DEFINE Of(u) == (CHOOSE g : AreSums(g, f, u))[u]
             all == [s \in SUBSET T |-> IF s = {} THEN 0
                                        ELSE f[Chosen(s)] + Of(s \ {Chosen(s)})]
  <1>2. ASSUME NEW u \in SUBSET T, u # T
        PROVE  /\ AreSums(CHOOSE g : AreSums(g, f, u), f, u)
               /\ IsFiniteSet(u)
    <2>1. u \notin Bad /\ u \in SUBSET S
      BY <1>1, <1>2
    <2>2. QED
      BY <2>1, FS_Subset
  <1>3. ASSUME NEW u \in SUBSET T, u # T
        PROVE  Of(u) = all[u]
    <2> DEFINE G(v) == CHOOSE g : AreSums(g, f, v)
    <2>1. G(u)[u] = SumTerm(f, G(u), u)
      <3>1. AreSums(G(u), f, u)
        BY <1>2, <1>3
      <3> HIDE DEF G
      <3>2. QED
        BY <3>1, SumsAt
    <2>2. CASE u = {}
      BY <2>1, <2>2 DEF SumTerm
    <2>3. CASE u # {}
      <3> DEFINE v == u \ {Chosen(u)}
      <3>1. v \in SUBSET u /\ v \in SUBSET T /\ v # T
        BY <1>3, <2>3, ChosenIn
      <3>2. G(u)[v] = G(v)[v]
        <4>1. AreSums(G(u), f, u) /\ AreSums(G(v), f, v) /\ IsFiniteSet(u)
          BY <1>2, <1>3, <3>1
        <4> HIDE DEF G, v
        <4>2. QED
          BY <3>1, <4>1, SumsAgree
      <3>3. QED
        BY <2>1, <2>3, <3>2 DEF SumTerm
    <2>4. QED
      BY <2>2, <2>3
  <1>4. AreSums(all, f, T)
    <2>1. ASSUME NEW s \in SUBSET T PROVE all[s] = SumTerm(f, all, s)
      <3>1. CASE s = {}
        BY <3>1 DEF SumTerm
      <3>2. CASE s # {}
        <4>1. s \ {Chosen(s)} \in SUBSET T /\ s \ {Chosen(s)} # T
          BY <3>2, ChosenIn
        <4>2. Of(s \ {Chosen(s)}) = all[s \ {Chosen(s)}]
          BY <1>3, <4>1
        <4>3. all[s] = f[Chosen(s)] + Of(s \ {Chosen(s)})
          BY <3>2
        <4> HIDE DEF all, Of
        <4>4. QED
          BY <3>2, <4>2, <4>3 DEF SumTerm
      <3>3. QED
        BY <3>1, <3>2
    <2>2. all = [s \in SUBSET T |-> all[s]]
      OBVIOUS
    <2> HIDE DEF all
    <2>3. QED
      BY <2>1, <2>2 DEF AreSums
  <1>5. QED
    BY <1>1, <1>4

\* The fold is the sums of all subsets.
LEMMA FoldSums ==
    ASSUME NEW f, NEW S, IsFiniteSet(S)
    PROVE  AreSums(SumFold(f, S), f, S)
  BY SumsExist DEF SumFold

\* Nothing sums to 0.
LEMMA SumEmpty == ASSUME NEW f PROVE SumFunctionOnSet(f, {}) = 0
  <1>1. SumFold(f, {})[{}] = SumTerm(f, SumFold(f, {}), {})
    BY FS_EmptySet, FoldSums, SumsAt
  <1>2. QED
    BY <1>1, SumIsFold DEF SumTerm

\* A sum is the chosen element's value and the rest.
LEMMA SumFirst ==
    ASSUME NEW f, NEW S, IsFiniteSet(S), S # {}
    PROVE  SumFunctionOnSet(f, S) = f[Chosen(S)] + SumFunctionOnSet(f, S \ {Chosen(S)})
  <1> DEFINE T == S \ {Chosen(S)}
  <1>1. T \in SUBSET S /\ T \in SUBSET T /\ IsFiniteSet(T)
    BY FS_Subset
  <1>2. SumFold(f, S)[T] = SumFold(f, T)[T]
    BY <1>1, FoldSums, SumsAgree
  <1>3. SumFold(f, S)[S] = f[Chosen(S)] + SumFold(f, S)[T]
    BY FoldSums, SumsAt DEF SumTerm
  <1>4. QED
    BY <1>2, <1>3, SumIsFold

\* The elements of two sums that agree on the set can be exchanged.
LEMMA SumSame ==
    ASSUME NEW f, NEW g, NEW S, IsFiniteSet(S), \A x \in S : f[x] = g[x]
    PROVE  SumFunctionOnSet(f, S) = SumFunctionOnSet(g, S)
  <1> DEFINE Bad == {T \in SUBSET S : SumFunctionOnSet(f, T) # SumFunctionOnSet(g, T)}
  <1> SUFFICES ASSUME Bad # {} PROVE FALSE
    OBVIOUS
  <1>1. PICK T \in Bad : \A U \in Bad : U \subseteq T => U = T
    <2>1. Bad \in SUBSET SUBSET S
      OBVIOUS
    <2> HIDE DEF Bad
    <2>2. QED
      BY <2>1, MinimalSubset
  <1>2. T # {} /\ IsFiniteSet(T)
    BY <1>1, SumEmpty, FS_Subset
  <1>3. T \ {Chosen(T)} \notin Bad /\ T \ {Chosen(T)} \in SUBSET S /\ Chosen(T) \in S
    BY <1>1, <1>2, ChosenIn
  <1>4. QED
    BY <1>1, <1>2, <1>3, SumFirst

\* A sum of integers is an integer.
LEMMA SumType ==
    ASSUME NEW S, IsFiniteSet(S), NEW f, \A x \in S : f[x] \in Int
    PROVE  SumFunctionOnSet(f, S) \in Int
  <1> DEFINE Bad == {T \in SUBSET S : SumFunctionOnSet(f, T) \notin Int}
  <1> SUFFICES ASSUME Bad # {} PROVE FALSE
    OBVIOUS
  <1>1. PICK T \in Bad : \A U \in Bad : U \subseteq T => U = T
    <2>1. Bad \in SUBSET SUBSET S
      OBVIOUS
    <2> HIDE DEF Bad
    <2>2. QED
      BY <2>1, MinimalSubset
  <1>2. T # {} /\ IsFiniteSet(T)
    <2>1. T \in SUBSET S /\ SumFunctionOnSet(f, T) \notin Int
      BY <1>1
    <2>2. SumFunctionOnSet(f, {}) \in Int
      BY SumEmpty
    <2>3. QED
      BY <2>1, <2>2, FS_Subset
  <1>3. T \ {Chosen(T)} \notin Bad /\ T \ {Chosen(T)} \in SUBSET S /\ Chosen(T) \in S
    BY <1>1, <1>2, ChosenIn
  <1>4. QED
    BY <1>1, <1>2, <1>3, SumFirst

\* Any element can be taken out of a sum.
LEMMA SumElement ==
    ASSUME NEW S, IsFiniteSet(S), NEW f, \A x \in S : f[x] \in Int, NEW y \in S
    PROVE  SumFunctionOnSet(f, S) = f[y] + SumFunctionOnSet(f, S \ {y})
  <1> DEFINE Out(T, z) == SumFunctionOnSet(f, T) = f[z] + SumFunctionOnSet(f, T \ {z})
             Bad == {T \in SUBSET S : \E z \in T : ~Out(T, z)}
  <1> SUFFICES ASSUME Bad # {} PROVE FALSE
    OBVIOUS
  <1>1. PICK T \in Bad : \A U \in Bad : U \subseteq T => U = T
    <2>1. Bad \in SUBSET SUBSET S
      OBVIOUS
    <2> HIDE DEF Bad
    <2>2. QED
      BY <2>1, MinimalSubset
  <1>2. PICK z \in T : ~Out(T, z)
    BY <1>1
  <1> DEFINE x == Chosen(T)
  <1>3. IsFiniteSet(T) /\ T # {} /\ T \in SUBSET S /\ x \in T
    BY <1>1, <1>2, FS_Subset, ChosenIn
  <1>4. Out(T, x)
    BY <1>3, SumFirst
  <1>5. x # z
    BY <1>2, <1>4
  <1>6. T \ {x} \notin Bad /\ T \ {z} \notin Bad
    BY <1>1, <1>2, <1>3
  <1>7. Out(T \ {x}, z) /\ Out(T \ {z}, x) /\ (T \ {x}) \ {z} = (T \ {z}) \ {x}
    BY <1>2, <1>3, <1>5, <1>6
  <1>8. SumFunctionOnSet(f, (T \ {x}) \ {z}) \in Int /\ f[x] \in Int /\ f[z] \in Int
    <2>1. (T \ {x}) \ {z} \in SUBSET S /\ IsFiniteSet((T \ {x}) \ {z})
      BY <1>3, FS_Subset
    <2>2. QED
      BY <1>2, <1>3, <2>1, SumType
  <1>9. QED
    <2> DEFINE sumT == SumFunctionOnSet(f, T)
               sumX == SumFunctionOnSet(f, T \ {x})
               sumZ == SumFunctionOnSet(f, T \ {z})
               rest == SumFunctionOnSet(f, (T \ {x}) \ {z})
    <2>1. sumT = f[x] + sumX /\ sumX = f[z] + rest /\ sumZ = f[x] + rest
      BY <1>4, <1>7
    <2>2. sumT # f[z] + sumZ /\ rest \in Int /\ f[x] \in Int /\ f[z] \in Int
      BY <1>2, <1>8
    <2> HIDE DEF sumT, sumX, sumZ, rest, x
    <2>3. QED
      BY <2>1, <2>2

\* The sum of the sums is the sum over pointwise sums.
LEMMA SumPlus ==
    ASSUME NEW S, IsFiniteSet(S), NEW f, NEW g, NEW h,
           \A x \in S : f[x] \in Int /\ g[x] \in Int /\ h[x] = f[x] + g[x]
    PROVE  SumFunctionOnSet(h, S) = SumFunctionOnSet(f, S) + SumFunctionOnSet(g, S)
  <1> DEFINE Added(T) ==
        SumFunctionOnSet(h, T) = SumFunctionOnSet(f, T) + SumFunctionOnSet(g, T)
             Bad == {T \in SUBSET S : ~Added(T)}
  <1> SUFFICES ASSUME Bad # {} PROVE FALSE
    OBVIOUS
  <1>1. PICK T \in Bad : \A U \in Bad : U \subseteq T => U = T
    <2>1. Bad \in SUBSET SUBSET S
      OBVIOUS
    <2> HIDE DEF Bad
    <2>2. QED
      BY <2>1, MinimalSubset
  <1>2. T # {} /\ IsFiniteSet(T) /\ T \in SUBSET S
    <2>1. Added({})
      BY SumEmpty
    <2>2. T \in SUBSET S /\ ~Added(T)
      BY <1>1
    <2>3. QED
      BY <2>1, <2>2, FS_Subset
  <1> DEFINE x == Chosen(T)
             U == T \ {x}
  <1>3. Added(U) /\ x \in S /\ U \in SUBSET S /\ IsFiniteSet(U)
    BY <1>1, <1>2, ChosenIn, FS_Subset
  <1>4. /\ SumFunctionOnSet(f, U) \in Int /\ SumFunctionOnSet(g, U) \in Int
        /\ f[x] \in Int /\ g[x] \in Int /\ h[x] = f[x] + g[x]
    BY <1>3, SumType
  <1>5. /\ SumFunctionOnSet(f, T) = f[x] + SumFunctionOnSet(f, U)
        /\ SumFunctionOnSet(g, T) = g[x] + SumFunctionOnSet(g, U)
        /\ SumFunctionOnSet(h, T) = h[x] + SumFunctionOnSet(h, U)
    BY <1>2, SumFirst
  <1>6. ~Added(T)
    BY <1>1
  <1> HIDE DEF x, U, Bad
  <1>7. QED
    BY <1>3, <1>4, <1>5, <1>6

\* A sum of zeros is zero.
LEMMA SumZero ==
    ASSUME NEW S, IsFiniteSet(S), NEW f, \A x \in S : f[x] = 0
    PROVE  SumFunctionOnSet(f, S) = 0
  <1> DEFINE sum == SumFunctionOnSet(f, S)
  <1>1. sum = sum + sum
    BY SumPlus
  <1>2. sum \in Int
    BY SumType
  <1> HIDE DEF sum
  <1>3. sum = 0
    BY <1>1, <1>2
  <1>4. QED
    BY <1>3 DEF sum

\* A sum in which one element changes by n changes by n.
LEMMA SumUpdate ==
    ASSUME NEW S, IsFiniteSet(S), NEW f, NEW g, NEW y \in S, NEW n \in Int,
           \A x \in S : f[x] \in Int, g[y] = f[y] + n,
           \A x \in S \ {y} : g[x] = f[x]
    PROVE  SumFunctionOnSet(g, S) = SumFunctionOnSet(f, S) + n
  <1>1. \A x \in S : g[x] \in Int
    OBVIOUS
  <1>2. IsFiniteSet(S \ {y})
    BY FS_Subset
  <1>3. SumFunctionOnSet(f, S \ {y}) = SumFunctionOnSet(g, S \ {y})
    BY <1>2, SumSame
  <1>4. SumFunctionOnSet(f, S \ {y}) \in Int
    BY <1>2, SumType
  <1>5. /\ SumFunctionOnSet(f, S) = f[y] + SumFunctionOnSet(f, S \ {y})
        /\ SumFunctionOnSet(g, S) = g[y] + SumFunctionOnSet(g, S \ {y})
    BY <1>1, SumElement
  <1>6. QED
    BY <1>3, <1>4, <1>5

\* A sum over naturals is natural, and grows with the set.
LEMMA SumGrows ==
    ASSUME NEW S, IsFiniteSet(S), NEW f, \A x \in S : f[x] \in Nat, NEW R \in SUBSET S
    PROVE  /\ SumFunctionOnSet(f, R) \in Nat
           /\ SumFunctionOnSet(f, R) <= SumFunctionOnSet(f, S)
  <1>1. \A T \in SUBSET S : SumFunctionOnSet(f, T) \in Nat
    <2> DEFINE Bad == {T \in SUBSET S : SumFunctionOnSet(f, T) \notin Nat}
    <2> SUFFICES ASSUME Bad # {} PROVE FALSE
      OBVIOUS
    <2>1. PICK T \in Bad : \A U \in Bad : U \subseteq T => U = T
      <3>1. Bad \in SUBSET SUBSET S
        OBVIOUS
      <3> HIDE DEF Bad
      <3>2. QED
        BY <3>1, MinimalSubset
    <2>2. T \in SUBSET S /\ SumFunctionOnSet(f, T) \notin Nat /\ T # {}
      <3>1. SumFunctionOnSet(f, {}) \in Nat
        BY SumEmpty
      <3>2. QED
        BY <2>1, <3>1
    <2>3. IsFiniteSet(T) /\ Chosen(T) \in T /\ Chosen(T) \in S
      BY <2>2, FS_Subset, ChosenIn
    <2>4. SumFunctionOnSet(f, T \ {Chosen(T)}) \in Nat
      BY <2>1, <2>2, <2>3
    <2>5. QED
      BY <2>2, <2>3, <2>4, SumFirst
  <1> DEFINE Bad == {T \in SUBSET S : R \subseteq T
                        /\ ~(SumFunctionOnSet(f, R) <= SumFunctionOnSet(f, T))}
  <1>2. Bad = {}
    <2> SUFFICES ASSUME Bad # {} PROVE FALSE
      OBVIOUS
    <2>1. PICK T \in Bad : \A U \in Bad : U \subseteq T => U = T
      <3>1. Bad \in SUBSET SUBSET S
        OBVIOUS
      <3> HIDE DEF Bad
      <3>2. QED
        BY <3>1, MinimalSubset
    <2>2. T \in SUBSET S /\ R \subseteq T /\ IsFiniteSet(T)
          /\ ~(SumFunctionOnSet(f, R) <= SumFunctionOnSet(f, T))
      BY <2>1, FS_Subset
    <2>3. SumFunctionOnSet(f, R) \in Nat
      BY <1>1
    <2>4. PICK y \in T : y \notin R
      BY <2>2, <2>3
    <2>5. R \subseteq T \ {y} /\ T \ {y} \in SUBSET S /\ T \ {y} \notin Bad
      BY <2>1, <2>2, <2>4
    <2>6. SumFunctionOnSet(f, R) <= SumFunctionOnSet(f, T \ {y})
      BY <2>5
    <2>7. \A x \in T : f[x] \in Int /\ f[x] \in Nat
      BY <2>2
    <2>8. SumFunctionOnSet(f, T) = f[y] + SumFunctionOnSet(f, T \ {y})
      BY <2>2, <2>7, SumElement
    <2>9. SumFunctionOnSet(f, T \ {y}) \in Nat /\ f[y] \in Nat
      BY <1>1, <2>5, <2>7
    <2> HIDE DEF Bad
    <2>10. QED
      BY <2>2, <2>3, <2>6, <2>8, <2>9
  <1>3. S \notin Bad
    BY <1>2
  <1>4. QED
    BY <1>1, <1>3
=============================================================================
